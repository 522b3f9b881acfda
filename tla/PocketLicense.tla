---------------------------- MODULE PocketLicense ----------------------------
(***************************************************************************)
(* One licence of the Pocket app: the devices bound to it, the counter     *)
(* that caps them, and the server's signing key                            *)
(* (src/lib/server/pocket-license.ts).                                     *)
(*                                                                         *)
(* The counter and the activation rows are two tables written by separate  *)
(* statements, and the signing key is created by whoever needs it first.   *)
(* As in TattooHold a handler is a worker with a program counter and one   *)
(* action is one SQL statement.  Activation codes, dates and signatures    *)
(* are left out: the licence is within its dates and the code is right.    *)
(***************************************************************************)
EXTENDS Naturals, FiniteSets

CONSTANTS
    Phones,       \* device hashes
    RowIds,       \* ids of pocket_license_activations rows
    Workers,      \* HTTP requests that may be in flight at the same time
    KeyPairs,     \* key pairs the server may generate
    MaxPhones,    \* MAX_DEVICES
    NoPhone, NoKeyPair

ASSUME MaxDevicesIsPositive == MaxPhones \in Nat \ {0}
ASSUME Finite == IsFiniteSet(RowIds) /\ IsFiniteSet(Workers)
ASSUME NoneIsNothing == NoPhone \notin Phones /\ NoKeyPair \notin KeyPairs

VARIABLES
    lic,        \* pocket_licenses: status, max_devices, active_devices
    acts,       \* pocket_license_activations
    primary,    \* the row of pocket_license_signing_keys with slot 'primary'
    shown,      \* keys with which a token was signed, or which were published
    lostSlots,  \* history: slots whose handler stopped before settling them
    worker

licenceVars == <<lic, acts, primary, shown, lostSlots, worker>>

-----------------------------------------------------------------------------
(* State *)

Ops == {"issue", "publish", "activate", "refresh"}

Licences == [status : {"none", "active", "revoked"},
             max : 1..MaxPhones, active : Nat]

ActivationRows == [state : {"free", "live", "released"},
                   device : Phones \cup {NoPhone}]

LicenceSteps == {"idle", "keyInsert", "keyReread", "issue", "publish", "activate",
                 "refresh", "bind", "slot", "insert", "giveBack", "again", "touch", "sign",
                 "updateWrite", "releaseCount"}

WorkerRows == [pc : LicenceSteps, op : Ops \cup {"none"}, device : Phones \cup {NoPhone},
               key : KeyPairs \cup {NoKeyPair}, max : 1..MaxPhones]

IdleWorker == [pc |-> "idle", op |-> "none", device |-> NoPhone,
               key |-> NoKeyPair, max |-> 1]

LicenceInit ==
    /\ lic = [status |-> "none", max |-> 1, active |-> 0]
    /\ acts = [a \in RowIds |-> [state |-> "free", device |-> NoPhone]]
    /\ primary = NoKeyPair
    /\ shown = {}
    /\ lostSlots = 0
    /\ worker = [w \in Workers |-> IdleWorker]

LiveRows == {a \in RowIds : acts[a].state = "live"}
BoundTo(d) == {a \in LiveRows : acts[a].device = d}

\* Workers that hold a slot of the counter for which no row is live.
Unsettled == {"insert", "giveBack", "releaseCount"}
HoldingSlot == {w \in Workers : worker[w].pc \in Unsettled}

At(w, pc) == worker[w].pc = pc
Become(w, row) == worker' = [worker EXCEPT ![w] = row]
Goto(w, pc) == Become(w, [worker[w] EXCEPT !.pc = pc])
Done(w) == Become(w, IdleWorker)

\* greatest(active_devices - 1, 0)
OneLess(n) == IF n = 0 THEN 0 ELSE n - 1

-----------------------------------------------------------------------------
(* getSigningKey, which every handler below calls first *)

\* SELECT the primary key; the handler's own work follows when there is one.
Begin(w, op, d) ==
    /\ At(w, "idle")
    /\ Become(w, [pc |-> IF primary = NoKeyPair THEN "keyInsert" ELSE op,
                  op |-> op, device |-> d, key |-> primary, max |-> 1])
    /\ UNCHANGED <<lic, acts, primary, shown, lostSlots>>

\* INSERT a fresh key ... ON CONFLICT (slot) DO NOTHING
KeyInsert(w, k) ==
    /\ At(w, "keyInsert")
    /\ primary' = IF primary = NoKeyPair THEN k ELSE primary
    /\ Become(w, [worker[w] EXCEPT !.pc = "keyReread", !.key = k])
    /\ UNCHANGED <<lic, acts, shown, lostSlots>>

\* Faulty: the handler goes on with the key it has generated itself.
KeyKept(w) == worker[w].key

\* The key the handler goes on with is the one it reads back.
KeyReadBack(w) == primary

KeyReread(w) ==
    /\ At(w, "keyReread")
    /\ Become(w, [worker[w] EXCEPT !.pc = worker[w].op, !.key = KeyReadBack(w)])
    /\ UNCHANGED <<lic, acts, primary, shown, lostSlots>>

-----------------------------------------------------------------------------
(* ownerIssue, publicKeys *)

Issue(w, n) ==
    /\ At(w, "issue")
    /\ lic' = IF lic.status = "none"
              THEN [status |-> "active", max |-> n, active |-> 0] ELSE lic
    /\ Done(w)
    /\ UNCHANGED <<acts, primary, shown, lostSlots>>

Publish(w) ==
    /\ At(w, "publish")
    /\ shown' = shown \cup {worker[w].key}
    /\ Done(w)
    /\ UNCHANGED <<lic, acts, primary, lostSlots>>

-----------------------------------------------------------------------------
(* activateWithCode and bindDevice, refreshLicense *)

\* The licence is read and found usable, or the handler answers with an error.
ReadLicence(w) ==
    /\ \E op \in {"activate", "refresh"} :
          /\ At(w, op)
          /\ IF lic.status = "active"
             THEN Goto(w, IF op = "activate" THEN "bind" ELSE "touch")
             ELSE Done(w)
    /\ UNCHANGED <<lic, acts, primary, shown, lostSlots>>

\* UPDATE the live activation of this device: no new slot if there is one.
BindLive(w) ==
    /\ At(w, "bind")
    /\ Goto(w, IF BoundTo(worker[w].device) # {} THEN "sign" ELSE "slot")
    /\ UNCHANGED <<lic, acts, primary, shown, lostSlots>>

\* Faulty: one device too many.
HasSlotOffByOne(l) == l.status = "active" /\ l.active <= l.max

\* WHERE status = 'active' AND active_devices < max_devices
HasSlot(l) == l.status = "active" /\ l.active < l.max

BindSlot(w) ==
    /\ At(w, "slot")
    /\ IF HasSlot(lic)
       THEN lic' = [lic EXCEPT !.active = @ + 1] /\ Goto(w, "insert")
       ELSE UNCHANGED lic /\ Done(w)
    /\ UNCHANGED <<acts, primary, shown, lostSlots>>

\* Faulty: the losing insert is taken for a binding.
AfterConflictSigns == "sign"

\* The insert of a device that raced itself does nothing: the slot goes back.
AfterConflict == "giveBack"

\* Faulty: no unique index on the live rows.
NeverConflicts(d) == FALSE

\* pocket_license_activations_live_idx: one live row per device.
Conflicts(d) == BoundTo(d) # {}

\* INSERT ... ON CONFLICT DO NOTHING
BindInsert(w, a) ==
    /\ At(w, "insert")
    /\ acts[a].state = "free"
    /\ IF Conflicts(worker[w].device)
       THEN UNCHANGED acts /\ Goto(w, AfterConflict)
       ELSE /\ acts' = [acts EXCEPT ![a] = [state |-> "live", device |-> worker[w].device]]
            /\ Goto(w, "sign")
    /\ UNCHANGED <<lic, primary, shown, lostSlots>>

BindGiveBack(w) ==
    /\ At(w, "giveBack")
    /\ lic' = [lic EXCEPT !.active = OneLess(@)]
    /\ Goto(w, "again")
    /\ UNCHANGED <<acts, primary, shown, lostSlots>>

\* The activation that won may have been released in the meantime.
BindAgain(w) ==
    /\ At(w, "again")
    /\ IF BoundTo(worker[w].device) # {} THEN Goto(w, "sign") ELSE Done(w)
    /\ UNCHANGED <<lic, acts, primary, shown, lostSlots>>

\* refreshLicense: only a device that is still bound.  (It must also show a
\* token; a bound device without one can get it by activating again.)
RefreshTouch(w) ==
    /\ At(w, "touch")
    /\ IF BoundTo(worker[w].device) # {} THEN Goto(w, "sign") ELSE Done(w)
    /\ UNCHANGED <<lic, acts, primary, shown, lostSlots>>

Sign(w) ==
    /\ At(w, "sign")
    /\ shown' = shown \cup {worker[w].key}
    /\ Done(w)
    /\ UNCHANGED <<lic, acts, primary, lostSlots>>

-----------------------------------------------------------------------------
(* The owner: ownerUpdate, ownerRevoke, ownerReleaseDevice *)

\* No fewer than the active devices of the row just read, and at least one; an
\* update that leaves max_devices out writes back what it read.
AllowedMax == {n \in 1..MaxPhones : n >= lic.active} \cup {lic.max}

UpdateRead(w, n) ==
    /\ At(w, "idle")
    /\ lic.status # "none"
    /\ n \in AllowedMax
    /\ Become(w, [IdleWorker EXCEPT !.pc = "updateWrite", !.max = n])
    /\ UNCHANGED <<lic, acts, primary, shown, lostSlots>>

\* WHERE id = $1 alone.
UpdateWrite(w) ==
    /\ At(w, "updateWrite")
    /\ lic' = [lic EXCEPT !.max = worker[w].max]
    /\ Done(w)
    /\ UNCHANGED <<acts, primary, shown, lostSlots>>

Revoke ==
    /\ lic.status # "none"
    /\ lic' = [lic EXCEPT !.status = "revoked"]
    /\ UNCHANGED <<acts, primary, shown, lostSlots, worker>>

\* WHERE released_at IS NULL
ReleaseRow(w, a) ==
    /\ At(w, "idle")
    /\ acts[a].state = "live"
    /\ acts' = [acts EXCEPT ![a].state = "released"]
    /\ Become(w, [IdleWorker EXCEPT !.pc = "releaseCount"])
    /\ UNCHANGED <<lic, primary, shown, lostSlots>>

ReleaseCount(w) ==
    /\ At(w, "releaseCount")
    /\ lic' = [lic EXCEPT !.active = OneLess(@)]
    /\ Done(w)
    /\ UNCHANGED <<acts, primary, shown, lostSlots>>

-----------------------------------------------------------------------------
(* A handler stops between two statements *)

Abort(w) ==
    /\ ~At(w, "idle")
    /\ lostSlots' = IF w \in HoldingSlot THEN lostSlots + 1 ELSE lostSlots
    /\ Done(w)
    /\ UNCHANGED <<lic, acts, primary, shown>>

-----------------------------------------------------------------------------

Step(w) ==
    \/ \E op \in {"issue", "publish"} : Begin(w, op, NoPhone)
    \/ \E op \in {"activate", "refresh"}, d \in Phones : Begin(w, op, d)
    \/ \E k \in KeyPairs : KeyInsert(w, k)
    \/ KeyReread(w)
    \/ \E n \in 1..MaxPhones : Issue(w, n)
    \/ \E n \in AllowedMax : UpdateRead(w, n)
    \/ Publish(w)
    \/ ReadLicence(w)
    \/ BindLive(w) \/ BindSlot(w)
    \/ \E a \in RowIds : BindInsert(w, a) \/ ReleaseRow(w, a)
    \/ BindGiveBack(w) \/ BindAgain(w) \/ RefreshTouch(w) \/ Sign(w)
    \/ UpdateWrite(w) \/ ReleaseCount(w)
    \/ Abort(w)

LicenceNext == Revoke \/ \E w \in Workers : Step(w)

LicenceSpec == LicenceInit /\ [][LicenceNext]_licenceVars

-----------------------------------------------------------------------------
(* Properties *)

TypeOK ==
    /\ lic \in Licences
    /\ acts \in [RowIds -> ActivationRows]
    /\ primary \in KeyPairs \cup {NoKeyPair}
    /\ shown \subseteq KeyPairs \cup {NoKeyPair}
    /\ lostSlots \in Nat
    /\ worker \in [Workers -> WorkerRows]

\* The counter is exact: it counts every live device, every slot a handler has
\* taken and not yet settled, and the slots of handlers that stopped half-way;
\* so it never runs below the devices bound, and a slot is lost only to a crash.
CounterIsExact ==
    lic.active = Cardinality(LiveRows) + Cardinality(HoldingSlot) + lostSlots

\* A device is bound at most once, even when it activates twice at a time.
BoundOnce == \A a, b \in LiveRows : acts[a].device = acts[b].device => a = b

\* Phones pin the published key: every key ever published or signed with is
\* the one in the primary slot, whichever handlers raced to create it.
OnePrimaryKey == shown \subseteq {primary} /\ NoKeyPair \notin shown

\* Nothing but the owner's change of max_devices takes a licence over its cap.
OnlyUpdateOvershoots ==
    [][lic.active <= lic.max /\ lic'.active > lic'.max
          => lic'.max < lic.max]_licenceVars

\* "The device cap is enforced on the server"; and ownerUpdate refuses a cap
\* below the devices in use.
CapHeld == lic.active <= lic.max
=============================================================================
