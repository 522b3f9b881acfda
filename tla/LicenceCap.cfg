\* The owner changes max_devices while a phone activates.
CONSTANTS
    d1 = d1
    d2 = d2
    k1 = k1
    k2 = k2
    Phones = {d1, d2}
    RowIds = {1, 2, 3}
    Workers = {1, 2}
    KeyPairs = {k1, k2}
    MaxPhones = 2
    NoPhone = NoPhone
    NoKeyPair = NoKeyPair
SPECIFICATION LicenceSpec
INVARIANT CapHeld
