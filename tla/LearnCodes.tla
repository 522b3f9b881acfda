------------------------------- MODULE LearnCodes -------------------------------
(***************************************************************************)
(* One activation code of the learning app and the devices that use it     *)
(* (src/lib/tattoo-learn/store.server.ts, migrations/0056).                *)
(*                                                                         *)
(* used_count is a counter beside the rows it counts: a conditional UPDATE *)
(* takes a place, an INSERT fills it, a compensation gives it back.  Once  *)
(* the code is full a new device takes the row of an old one.  One action  *)
(* is one statement of activateLearnCode.  Codes do not interact; last_seen *)
(* is left out, so any row may turn out to be the oldest of its kind.      *)
(***************************************************************************)
EXTENDS Naturals, FiniteSets

CONSTANTS
    Devices,         \* device ids
    Rows,            \* numbers of tattoo_user_access rows, the lowest free one first
    Activations,     \* activations that may be in flight at the same time
    MaxDevices,      \* max_devices of the code
    MaxTokens,       \* bound: tokens made in one behaviour
    NoDevice, NoRow

ASSUME LearnAssumption ==
    /\ Rows \subseteq Nat /\ IsFiniteSet(Rows) /\ IsFiniteSet(Activations)
    /\ MaxDevices \in Nat /\ MaxTokens \in Nat
    /\ NoDevice \notin Devices /\ NoRow \notin Rows

VARIABLES
    code,    \* tattoo_activation_codes
    access,  \* tattoo_user_access
    act,
    given,   \* history: the device each token was answered to
    lost,    \* history: places taken by an activation that stopped before its row
    mixed    \* history: two activations have overlapped

learnVars == <<code, access, act, given, lost, mixed>>

-----------------------------------------------------------------------------
(* State *)

\* A token is a number nobody has got so far; 0 is none.
Tokens == 1..MaxTokens

Codes == [active : BOOLEAN, expired : BOOLEAN, used : Nat]
AccessRows == [device : Devices \cup {NoDevice}, token : Tokens \cup {0}, blocked : BOOLEAN]
NoAccess == [device |-> NoDevice, token |-> 0, blocked |-> FALSE]

ActSteps == {"idle", "look", "renew", "oldest", "replace", "bump", "insert", "giveBack"}
ActRows == [pc : ActSteps, device : Devices \cup {NoDevice}, token : Tokens \cup {0},
            full : BOOLEAN, row : Rows \cup {NoRow}]
IdleAct == [pc |-> "idle", device |-> NoDevice, token |-> 0, full |-> FALSE, row |-> NoRow]

LearnInit ==
    /\ code = [active |-> TRUE, expired |-> FALSE, used |-> 0]
    /\ access = [r \in Rows |-> NoAccess]
    /\ act = [a \in Activations |-> IdleAct]
    /\ given = [t \in Tokens |-> NoDevice]
    /\ lost = 0
    /\ mixed = FALSE

Registered == {r \in Rows : access[r].device # NoDevice}
RowsWith(d) == {r \in Rows : access[r].device = d}
Usable == code.active /\ ~code.expired

\* order by is_blocked desc, last_seen asc limit 1
Oldest == IF \E r \in Registered : access[r].blocked
          THEN {r \in Registered : access[r].blocked} ELSE Registered

\* accessFromToken: the rows on which the token is let in.
LetIn(t) == {r \in Registered : access[r].token = t /\ ~access[r].blocked /\ Usable}

Fresh == {t \in Tokens : given[t] = NoDevice /\ \A a \in Activations : act[a].token # t}

ActAt(a, pc) == act[a].pc = pc
ActBecomes(a, row) == act' = [act EXCEPT ![a] = row]
ActGoes(a, pc) == ActBecomes(a, [act[a] EXCEPT !.pc = pc])
ActDone(a) == ActBecomes(a, IdleAct)
Answer(a) == given' = [given EXCEPT ![act[a].token] = act[a].device]

-----------------------------------------------------------------------------
(* activateLearnCode *)

\* canAddDevice is evaluated on the used_count of this first look.
ActivateRead(a, d, t) ==
    /\ ActAt(a, "idle") /\ Usable
    /\ t \in Fresh /\ \A u \in Fresh : t <= u
    /\ ActBecomes(a, [pc |-> "look", device |-> d, token |-> t,
                       full |-> code.used >= MaxDevices, row |-> NoRow])
    /\ mixed' = (mixed \/ \E b \in Activations : ~ActAt(b, "idle"))
    /\ UNCHANGED <<code, access, given, lost>>

ActivateLook(a) ==
    /\ ActAt(a, "look")
    /\ \/ \E r \in RowsWith(act[a].device) :
             IF access[r].blocked THEN ActDone(a)
             ELSE ActBecomes(a, [act[a] EXCEPT !.pc = "renew", !.row = r])
       \/ /\ RowsWith(act[a].device) = {}
          /\ ActGoes(a, IF act[a].full THEN "oldest" ELSE "bump")
    /\ UNCHANGED <<code, access, given, lost, mixed>>

\* By the row's id: the row may have become another device's since.
RenewToken(a) ==
    /\ ActAt(a, "renew")
    /\ access' = [access EXCEPT ![act[a].row].token = act[a].token]
    /\ Answer(a)
    /\ ActDone(a)
    /\ UNCHANGED <<code, lost, mixed>>

PickOldest(a) ==
    /\ ActAt(a, "oldest")
    /\ \/ Oldest = {} /\ ActDone(a)
       \/ \E r \in Oldest : ActBecomes(a, [act[a] EXCEPT !.pc = "replace", !.row = r])
    /\ UNCHANGED <<code, access, given, lost, mixed>>

\* Faulty: the old device's token stays on the row.
ReplacedKeepsToken(a) == [device |-> act[a].device, token |-> access[act[a].row].token,
                          blocked |-> FALSE]

Replaced(a) == [device |-> act[a].device, token |-> act[a].token, blocked |-> FALSE]

\* unique (code_id, device_id) refuses a device that has got a row meanwhile.
ReplaceOldest(a) ==
    /\ ActAt(a, "replace")
    /\ IF RowsWith(act[a].device) \subseteq {act[a].row}
       THEN access' = [access EXCEPT ![act[a].row] = Replaced(a)] /\ Answer(a)
       ELSE UNCHANGED <<access, given>>
    /\ ActDone(a)
    /\ UNCHANGED <<code, lost, mixed>>

\* Faulty: the place is taken on the word of the first look.
HasPlaceAsRead(a) == Usable

\* ... where is_active and used_count < max_devices and not expired
HasPlace(a) == Usable /\ code.used < MaxDevices

TakePlace(a) ==
    /\ ActAt(a, "bump")
    /\ IF HasPlace(a)
       THEN code' = [code EXCEPT !.used = @ + 1] /\ ActGoes(a, "insert")
       ELSE UNCHANGED code /\ ActDone(a)
    /\ UNCHANGED <<access, given, lost, mixed>>

\* Faulty: the refused insert is not compensated.
AfterRefusalNothing == "idle"

AfterRefusal == "giveBack"

\* unique (code_id, device_id) refuses the insert, or it fails for any other reason.
InsertAccess(a) ==
    /\ ActAt(a, "insert")
    /\ \/ /\ RowsWith(act[a].device) = {}
          /\ \E r \in Rows \ Registered :
                /\ \A q \in Rows \ Registered : r <= q
                /\ access' = [access EXCEPT ![r] = [device |-> act[a].device, token |-> act[a].token,
                                                    blocked |-> FALSE]]
          /\ Answer(a)
          /\ ActDone(a)
       \/ /\ ActBecomes(a, [act[a] EXCEPT !.pc = AfterRefusal])
          /\ UNCHANGED <<access, given>>
    /\ UNCHANGED <<code, lost, mixed>>

\* greatest(0, used_count - 1)
GiveBack(a) ==
    /\ ActAt(a, "giveBack")
    /\ code' = [code EXCEPT !.used = IF @ = 0 THEN 0 ELSE @ - 1]
    /\ ActDone(a)
    /\ UNCHANGED <<access, given, lost, mixed>>

\* The request dies, or its query throws, between two statements.
ActivationStops(a) ==
    /\ ~ActAt(a, "idle")
    /\ lost' = IF act[a].pc \in {"insert", "giveBack"} THEN lost + 1 ELSE lost
    /\ ActDone(a)
    /\ UNCHANGED <<code, access, given, mixed>>

-----------------------------------------------------------------------------
(* setCodeActive, setAccessBlocked, the clock *)

SetCodeActive(b) ==
    /\ code' = [code EXCEPT !.active = b]
    /\ UNCHANGED <<access, act, given, lost, mixed>>

SetAccessBlocked(r, b) ==
    /\ r \in Registered
    /\ access' = [access EXCEPT ![r].blocked = b]
    /\ UNCHANGED <<code, act, given, lost, mixed>>

CodeExpires ==
    /\ code' = [code EXCEPT !.expired = TRUE]
    /\ UNCHANGED <<access, act, given, lost, mixed>>

ActStep(a) ==
    \/ ActivateLook(a) \/ RenewToken(a) \/ PickOldest(a) \/ ReplaceOldest(a)
    \/ TakePlace(a) \/ InsertAccess(a) \/ GiveBack(a) \/ ActivationStops(a)

LearnNext ==
    \/ \E a \in Activations : ActStep(a) \/ \E d \in Devices, t \in Tokens : ActivateRead(a, d, t)
    \/ \E b \in BOOLEAN : SetCodeActive(b) \/ \E r \in Rows : SetAccessBlocked(r, b)
    \/ CodeExpires

LearnSpec == LearnInit /\ [][LearnNext]_learnVars

-----------------------------------------------------------------------------
(* Properties *)

\* The code, the device rows and the activations hold what their columns may hold.
LearnTypeOK ==
    /\ code \in Codes
    /\ access \in [Rows -> AccessRows]
    /\ act \in [Activations -> ActRows]
    /\ given \in [Tokens -> Devices \cup {NoDevice}]
    /\ lost \in Nat
    /\ mixed \in BOOLEAN

\* Activations that have taken a place and have no row for it yet.
Holding == {a \in Activations : act[a].pc \in {"insert", "giveBack"}}

\* The counter and the rows agree but for the places on the way: each row,
\* each activation between TakePlace and its end, and each activation that
\* stopped there, is one of used_count; no interleaving loses a place or makes
\* one up.
PlacesAddUp == Cardinality(Registered) + Cardinality(Holding) + lost = code.used

\* However activations overlap, the code never has more devices than it was
\* sold for: the owner's max_devices bounds the rows, not the counter alone.
DevicesCapped == Cardinality(Registered) <= MaxDevices

\* Without overlapping activations a token opens the row of the device it was
\* answered to and of no other, through renewals, replacements and blocks.
TokenIsOwn ==
    ~mixed => \A t \in Tokens : \A r \in LetIn(t) : access[r].device = given[t]
=============================================================================
