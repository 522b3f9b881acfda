----------------------------- MODULE Desks_proofs -----------------------------
(***************************************************************************)
(* Proofs about the small desks, which share no row of the database: the   *)
(* learning codes, the staffed calendar, the waitlist, the referral club   *)
(* and the apprentices' Thursday.  For any number of rows, people, devices *)
(* and requests.                                                           *)
(***************************************************************************)
EXTENDS LearnCodes, StaffedCalendar, Waitlist, ReferralClub, ApprenticeRoster,
        SumLemmas, FiniteSetTheorems, SequenceTheorems, TLAPS

-----------------------------------------------------------------------------
(* LearnCodes *)

\* An activation that is under way knows its device, and the row it is about to
\* write over is a device's.
WellFormed(row) ==
    /\ row \in ActRows
    /\ row.pc # "idle" => row.device \in Devices
    /\ row.pc \in {"renew", "replace"} => row.row \in Registered

LearnInv ==
    /\ LearnTypeOK
    /\ \A a \in Activations : WellFormed(act[a])
    /\ PlacesAddUp
    /\ code.used <= MaxDevices

\* Rows are never taken from the table: only filled and written over.
LEMMA RowsStay ==
    ASSUME LearnTypeOK, NEW r \in Rows, NEW row, row.device # NoDevice,
           access' = [access EXCEPT ![r] = row]
    PROVE  Registered' = Registered \cup {r}
BY DEF LearnTypeOK, Registered

\* What a step of one activation leaves of the others.
LEMMA ActKeeps ==
    ASSUME LearnInv, NEW a \in Activations, NEW row, ActBecomes(a, row),
           row \in ActRows, row.pc # "idle" => row.device \in Devices,
           row.pc \in {"renew", "replace"} => row.row \in Registered',
           Registered \subseteq Registered'
    PROVE  /\ act' \in [Activations -> ActRows]
           /\ \A b \in Activations : WellFormed(act[b])'
BY DEF LearnInv, LearnTypeOK, ActBecomes, WellFormed

\* How it changes the set of those that hold a place without a row.
LEMMA HoldingMoves ==
    ASSUME LearnInv, NEW a \in Activations, NEW row, ActBecomes(a, row)
    PROVE  Holding' = IF row.pc \in {"insert", "giveBack"} THEN Holding \cup {a} ELSE Holding \ {a}
BY DEF LearnInv, LearnTypeOK, ActBecomes, Holding

\* The sets that are counted are finite.
LEMMA Finite ==
    /\ IsFiniteSet(Registered) /\ Cardinality(Registered) \in Nat
    /\ IsFiniteSet(Holding) /\ Cardinality(Holding) \in Nat
<1>1. Registered \in SUBSET Rows /\ Holding \in SUBSET Activations
  BY DEF Registered, Holding
<1> QED
  BY <1>1, LearnAssumption, FS_Subset, FS_CardinalityType

LEMMA IdleRow ==
    /\ IdleAct \in ActRows
    /\ IdleAct.pc = "idle"
BY DEF IdleAct, ActRows, ActSteps

LEMMA LearnInvInit == LearnInit => LearnInv
<1> SUFFICES ASSUME LearnInit PROVE LearnInv
  OBVIOUS
<1>1. LearnTypeOK
  BY DEF LearnInit, LearnTypeOK, Codes, AccessRows, NoAccess, ActRows, IdleAct, ActSteps, Tokens
<1>2. \A a \in Activations : WellFormed(act[a])
  BY IdleRow DEF LearnInit, WellFormed
<1>3. Registered = {} /\ Holding = {}
  BY DEF LearnInit, Registered, NoAccess, Holding, IdleAct
<1>4. PlacesAddUp /\ code.used <= MaxDevices
  BY <1>3, FS_EmptySet, LearnAssumption DEF LearnInit, PlacesAddUp
<1> QED
  BY <1>1, <1>2, <1>4 DEF LearnInv

\* A step of an activation that neither takes nor gives back a place nor adds a
\* row: most of activateLearnCode.
LEMMA QuietStep ==
    ASSUME LearnInv, NEW a \in Activations, NEW row, ActBecomes(a, row),
           row \in ActRows, row.pc # "idle" => row.device \in Devices,
           row.pc \in {"renew", "replace"} => row.row \in Registered,
           row.pc \in {"insert", "giveBack"} <=> act[a].pc \in {"insert", "giveBack"},
           access' \in [Rows -> AccessRows], Registered' = Registered,
           given' \in [Tokens -> Devices \cup {NoDevice}], mixed' \in BOOLEAN,
           UNCHANGED <<code, lost>>
    PROVE  LearnInv'
<1>1. act' \in [Activations -> ActRows] /\ \A b \in Activations : WellFormed(act[b])'
  BY ActKeeps
<1>2. Holding' = Holding
  BY HoldingMoves DEF Holding
<1> QED
  BY <1>1, <1>2 DEF LearnInv, LearnTypeOK, PlacesAddUp

LEMMA LearnInvStep == LearnInv /\ [LearnNext]_learnVars => LearnInv'
<1> SUFFICES ASSUME LearnInv, [LearnNext]_learnVars PROVE LearnInv'
  OBVIOUS
<1>0. LearnTypeOK /\ \A a \in Activations : WellFormed(act[a])
  BY DEF LearnInv
<1>1. CASE UNCHANGED learnVars
  BY <1>1 DEF learnVars, LearnInv, LearnTypeOK, WellFormed, Registered, Holding, PlacesAddUp
<1>2. ASSUME NEW a \in Activations, NEW d \in Devices, NEW t \in Tokens, ActivateRead(a, d, t)
      PROVE  LearnInv'
  <2> DEFINE row == [pc |-> "look", device |-> d, token |-> t,
                     full |-> code.used >= MaxDevices, row |-> NoRow]
  <2>1. row \in ActRows /\ row.pc = "look" /\ row.device \in Devices
    <3>1. (code.used >= MaxDevices) \in BOOLEAN
      OBVIOUS
    <3> QED
      BY <3>1, Zenon DEF ActRows, ActSteps
  <2>2. ActBecomes(a, row) /\ act[a].pc = "idle" /\ mixed' \in BOOLEAN
        /\ UNCHANGED <<code, access, given, lost>>
    BY <1>2, <1>0 DEF ActivateRead, ActAt, LearnTypeOK
  <2>3. Registered' = Registered
    BY <2>2 DEF Registered
  <2> HIDE DEF row
  <2> QED
    BY <1>0, <2>1, <2>2, <2>3, QuietStep DEF LearnTypeOK
<1>3. ASSUME NEW a \in Activations, ActStep(a) PROVE LearnInv'
  <2> DEFINE me == act[a]
  <2>0. me \in ActRows /\ WellFormed(me)
    BY <1>0 DEF LearnTypeOK
  <2>00. ASSUME UNCHANGED access PROVE Registered' = Registered
    BY <2>00 DEF Registered
  <2>1. CASE ActivateLook(a) \/ PickOldest(a)
    <3>1. PICK row : /\ ActBecomes(a, row) /\ row \in ActRows
                     /\ row.pc # "idle" => row.device \in Devices
                     /\ row.pc \in {"renew", "replace"} => row.row \in Registered
                     /\ row.pc \notin {"insert", "giveBack"}
      <4>1. CASE ActDone(a)
        BY <4>1, IdleRow DEF ActDone
      <4>2. ASSUME NEW r \in Registered, NEW pc \in {"renew", "replace"}, act[a].pc # "idle",
                   ActBecomes(a, [act[a] EXCEPT !.pc = pc, !.row = r])
            PROVE  \E row : /\ ActBecomes(a, row) /\ row \in ActRows
                            /\ row.pc # "idle" => row.device \in Devices
                            /\ row.pc \in {"renew", "replace"} => row.row \in Registered
                            /\ row.pc \notin {"insert", "giveBack"}
        <5> DEFINE row == [act[a] EXCEPT !.pc = pc, !.row = r]
        <5>1. row \in ActRows /\ row.pc \notin {"insert", "giveBack"}
              /\ row.device \in Devices /\ row.row \in Registered
          BY <2>0, <4>2 DEF ActRows, ActSteps, Registered, WellFormed
        <5>2. ActBecomes(a, row)
          BY <4>2
        <5> HIDE DEF row
        <5> QED
          BY <5>1, <5>2
      <4>3. ASSUME NEW pc \in {"oldest", "bump"}, act[a].pc # "idle", ActGoes(a, pc)
            PROVE  \E row : /\ ActBecomes(a, row) /\ row \in ActRows
                            /\ row.pc # "idle" => row.device \in Devices
                            /\ row.pc \in {"renew", "replace"} => row.row \in Registered
                            /\ row.pc \notin {"insert", "giveBack"}
        <5> DEFINE row == [act[a] EXCEPT !.pc = pc]
        <5>1. row \in ActRows /\ row.pc = pc /\ row.device \in Devices
          BY <2>0, <4>3 DEF ActRows, ActSteps, WellFormed
        <5>2. ActBecomes(a, row)
          BY <4>3 DEF ActGoes
        <5> HIDE DEF row
        <5> QED
          BY <5>1, <5>2
      <4>4. CASE ActivateLook(a)
        <5>1. me.pc = "look" /\ me.device # NoDevice
          BY <4>4, <2>0, LearnAssumption DEF ActivateLook, ActAt, WellFormed
        <5>2. \A r \in RowsWith(me.device) : r \in Registered
          BY <5>1 DEF RowsWith, Registered
        <5>3. \/ ActDone(a)
              \/ \E r \in Registered : ActBecomes(a, [act[a] EXCEPT !.pc = "renew", !.row = r])
              \/ \E pc \in {"oldest", "bump"} : ActGoes(a, pc)
          BY <4>4, <5>2 DEF ActivateLook
        <5> QED
          BY <4>1, <4>2, <4>3, <5>1, <5>3
      <4>5. CASE PickOldest(a)
        <5>1. me.pc = "oldest" /\ Oldest \subseteq Registered
          BY <4>5 DEF PickOldest, ActAt, Oldest
        <5> QED
          BY <4>1, <4>2, <4>5, <5>1 DEF PickOldest
      <4> QED
        BY <2>1, <4>4, <4>5
    <3>2. me.pc \notin {"insert", "giveBack"} /\ UNCHANGED <<code, access, given, lost, mixed>>
      BY <2>1 DEF ActivateLook, PickOldest, ActAt
    <3> QED
      BY <1>0, <2>00, <3>1, <3>2, QuietStep DEF LearnTypeOK
  <2>2. CASE RenewToken(a)
    <3>1. me.pc = "renew" /\ me.row \in Registered /\ me.device \in Devices
      BY <2>2, <2>0 DEF RenewToken, ActAt, WellFormed
    <3>2. me.row \in Rows /\ access[me.row] \in AccessRows /\ access[me.row].device # NoDevice
      BY <1>0, <3>1 DEF Registered, LearnTypeOK
    <3> DEFINE new == [access[me.row] EXCEPT !.token = me.token]
    <3>3. access' = [access EXCEPT ![me.row] = new] /\ new \in AccessRows /\ new.device # NoDevice
      BY <2>0, <2>2, <3>2 DEF RenewToken, AccessRows, ActRows
    <3> HIDE DEF new
    <3>4. Registered' = Registered
      BY <1>0, <3>1, <3>2, <3>3, RowsStay
    <3>5. given' \in [Tokens -> Devices \cup {NoDevice}]
      BY <1>0, <2>2, <3>1 DEF RenewToken, Answer, LearnTypeOK
    <3>6. access' \in [Rows -> AccessRows]
      BY <1>0, <3>3 DEF LearnTypeOK
    <3> QED
      BY <1>0, <2>2, <3>1, <3>4, <3>5, <3>6, IdleRow, QuietStep
      DEF RenewToken, ActDone, LearnTypeOK
  <2>3. CASE ReplaceOldest(a)
    <3>1. me.pc = "replace" /\ me.row \in Registered /\ me.device \in Devices
          /\ me.row \in Rows
      BY <2>3, <2>0 DEF ReplaceOldest, ActAt, WellFormed, Registered
    <3>2. Replaced(a) \in AccessRows /\ Replaced(a).device # NoDevice
      BY <2>0, <3>1, LearnAssumption DEF Replaced, AccessRows, ActRows
    <3>3. access' \in [Rows -> AccessRows] /\ Registered' = Registered
      <4>1. CASE access' = [access EXCEPT ![me.row] = Replaced(a)]
        <5> DEFINE r == me.row  new == Replaced(a)
        <5>1. r \in Rows /\ new \in AccessRows /\ new.device # NoDevice /\ r \in Registered
              /\ access' = [access EXCEPT ![r] = new]
          BY <3>1, <3>2, <4>1
        <5> HIDE DEF r, new
        <5>2. Registered' = Registered \cup {r}
          BY <1>0, <5>1, RowsStay
        <5> QED
          BY <1>0, <5>1, <5>2 DEF LearnTypeOK
      <4>2. CASE UNCHANGED access
        BY <1>0, <2>00, <4>2 DEF LearnTypeOK
      <4> QED
        BY <2>3, <4>1, <4>2 DEF ReplaceOldest
    <3>4. given' \in [Tokens -> Devices \cup {NoDevice}]
      BY <1>0, <2>3, <3>1 DEF ReplaceOldest, Answer, LearnTypeOK
    <3> QED
      BY <1>0, <2>3, <3>1, <3>3, <3>4, IdleRow, QuietStep
      DEF ReplaceOldest, ActDone, LearnTypeOK
  <2>4. CASE TakePlace(a)
    <3>0. me.pc = "bump" /\ UNCHANGED <<access, given, lost, mixed>> /\ Registered' = Registered
      BY <2>4, <2>00 DEF TakePlace, ActAt
    <3>1. CASE HasPlace(a)
      <4> DEFINE row == [act[a] EXCEPT !.pc = "insert"]
      <4>1. row \in ActRows /\ row.pc = "insert" /\ row.device \in Devices
        BY <2>0, <3>0 DEF ActRows, ActSteps, WellFormed
      <4>2. ActBecomes(a, row) /\ code' = [code EXCEPT !.used = @ + 1]
        BY <2>4, <3>1 DEF TakePlace, ActGoes
      <4> HIDE DEF row
      <4>3. act' \in [Activations -> ActRows] /\ \A b \in Activations : WellFormed(act[b])'
        BY <3>0, <4>1, <4>2, ActKeeps
      <4>4. Holding' = Holding \cup {a} /\ a \notin Holding
        BY <3>0, <4>1, <4>2, HoldingMoves DEF Holding
      <4>5. Cardinality(Holding') = Cardinality(Holding) + 1
        BY <4>4, Finite, FS_AddElement
      <4>6. code' \in Codes /\ code'.used = code.used + 1 /\ code.used < MaxDevices
            /\ code.used \in Nat
        BY <1>0, <3>1, <4>2 DEF LearnTypeOK, Codes, HasPlace
      <4>7. (code.used <= MaxDevices)'
        BY <4>6, LearnAssumption
      <4>8. PlacesAddUp'
        BY <1>0, <3>0, <4>5, <4>6, Finite DEF LearnInv, LearnTypeOK, PlacesAddUp
      <4> QED
        BY <1>0, <3>0, <4>3, <4>6, <4>7, <4>8 DEF LearnInv, LearnTypeOK
    <3>2. CASE ~HasPlace(a)
      BY <1>0, <2>4, <3>0, <3>2, IdleRow, QuietStep DEF TakePlace, ActDone, LearnTypeOK
    <3> QED
      BY <3>1, <3>2
  <2>5. CASE InsertAccess(a)
    <3>0. me.pc = "insert" /\ UNCHANGED <<code, lost, mixed>> /\ me.device \in Devices
      BY <2>5, <2>0 DEF InsertAccess, ActAt, WellFormed
    <3>1. ASSUME NEW r \in Rows \ Registered, ActDone(a), Answer(a),
                 access' = [access EXCEPT ![r] = [device |-> me.device, token |-> me.token,
                                                  blocked |-> FALSE]]
          PROVE  LearnInv'
      <4> DEFINE new == [device |-> me.device, token |-> me.token, blocked |-> FALSE]
      <4>1. new \in AccessRows /\ new.device # NoDevice
        BY <2>0, <3>0, LearnAssumption DEF AccessRows, ActRows
      <4>2. access' = [access EXCEPT ![r] = new] /\ r \in Rows /\ r \notin Registered
        BY <3>1
      <4> HIDE DEF new
      <4>3. Registered' = Registered \cup {r} /\ access' \in [Rows -> AccessRows]
        BY <1>0, <4>1, <4>2, RowsStay DEF LearnTypeOK
      <4>4. act' \in [Activations -> ActRows] /\ \A b \in Activations : WellFormed(act[b])'
        BY <3>1, <4>3, IdleRow, ActKeeps DEF ActDone
      <4>5. Holding' = Holding \ {a} /\ a \in Holding
        BY <3>0, <3>1, IdleRow, HoldingMoves DEF ActDone, Holding
      <4>6. Cardinality(Holding') = Cardinality(Holding) - 1
            /\ Cardinality(Registered') = Cardinality(Registered) + 1
        BY <4>2, <4>3, <4>5, Finite, FS_AddElement, FS_RemoveElement
      <4>7. given' \in [Tokens -> Devices \cup {NoDevice}]
        BY <1>0, <3>0, <3>1 DEF Answer, LearnTypeOK
      <4>8. PlacesAddUp'
        BY <1>0, <3>0, <4>6, Finite DEF LearnInv, LearnTypeOK, PlacesAddUp
      <4> QED
        BY <1>0, <3>0, <4>3, <4>4, <4>7, <4>8 DEF LearnInv, LearnTypeOK
    <3>2. CASE ActBecomes(a, [act[a] EXCEPT !.pc = AfterRefusal]) /\ UNCHANGED <<access, given>>
      <4> DEFINE row == [act[a] EXCEPT !.pc = AfterRefusal]
      <4>1. row \in ActRows /\ row.pc = "giveBack" /\ row.device \in Devices
        BY <2>0, <3>0 DEF ActRows, ActSteps, WellFormed, AfterRefusal
      <4>2. ActBecomes(a, row)
        BY <3>2
      <4> HIDE DEF row
      <4> QED
        BY <1>0, <2>00, <3>0, <3>2, <4>1, <4>2, QuietStep DEF LearnTypeOK
    <3> QED
      BY <2>5, <3>1, <3>2 DEF InsertAccess
  <2>6. CASE GiveBack(a) \/ (ActivationStops(a) /\ me.pc \in {"insert", "giveBack"})
    <3>0. me.pc \in {"insert", "giveBack"} /\ ActDone(a) /\ UNCHANGED <<access, given, mixed>>
          /\ Registered' = Registered
      BY <2>6, <2>00 DEF GiveBack, ActivationStops, ActAt
    <3>1. act' \in [Activations -> ActRows] /\ \A b \in Activations : WellFormed(act[b])'
      BY <3>0, IdleRow, ActKeeps DEF ActDone
    <3>2. Holding' = Holding \ {a} /\ a \in Holding
      BY <3>0, IdleRow, HoldingMoves DEF ActDone, Holding
    <3>3. Cardinality(Holding') = Cardinality(Holding) - 1
      BY <3>2, Finite, FS_RemoveElement
    <3>4. Cardinality(Holding) # 0
      BY <3>2, Finite, FS_EmptySet
    <3>5. code.used \in Nat /\ code.used # 0 /\ lost \in Nat
      BY <1>0, <3>4, Finite DEF LearnInv, LearnTypeOK, PlacesAddUp, Codes
    <3>6. code' \in Codes /\ lost' \in Nat /\ code'.used <= code.used
          /\ code'.used - lost' = code.used - lost - 1
      <4>1. CASE GiveBack(a)
        BY <1>0, <3>5, <4>1 DEF GiveBack, LearnTypeOK, Codes
      <4>2. CASE ActivationStops(a)
        BY <1>0, <3>0, <3>5, <4>2 DEF ActivationStops, LearnTypeOK
      <4> QED
        BY <2>6, <4>1, <4>2
    <3>7. PlacesAddUp'
      BY <1>0, <3>0, <3>3, <3>5, <3>6, Finite DEF LearnInv, LearnTypeOK, PlacesAddUp, Codes
    <3>8. (code.used <= MaxDevices)'
      BY <1>0, <3>5, <3>6, LearnAssumption DEF LearnInv, Codes
    <3> QED
      BY <1>0, <3>0, <3>1, <3>6, <3>7, <3>8 DEF LearnInv, LearnTypeOK
  <2>7. CASE ActivationStops(a) /\ me.pc \notin {"insert", "giveBack"}
    <3>1. ActDone(a) /\ UNCHANGED <<code, access, given, mixed, lost>>
      BY <2>7 DEF ActivationStops
    <3> QED
      BY <1>0, <2>00, <2>7, <3>1, IdleRow, QuietStep DEF ActDone, LearnTypeOK
  <2> QED
    BY <1>3, <2>1, <2>2, <2>3, <2>4, <2>5, <2>6, <2>7 DEF ActStep
<1>4. ASSUME NEW b \in BOOLEAN, SetCodeActive(b) PROVE LearnInv'
  BY <1>4 DEF SetCodeActive, LearnInv, LearnTypeOK, WellFormed, Registered, Holding, PlacesAddUp, Codes
<1>5. CASE CodeExpires
  BY <1>5 DEF CodeExpires, LearnInv, LearnTypeOK, WellFormed, Registered, Holding, PlacesAddUp, Codes
<1>6. ASSUME NEW r \in Rows, NEW b \in BOOLEAN, SetAccessBlocked(r, b) PROVE LearnInv'
  <2> DEFINE new == [access[r] EXCEPT !.blocked = b]
  <2>1. r \in Registered /\ access' = [access EXCEPT ![r] = new]
        /\ UNCHANGED <<code, act, given, lost, mixed>>
    BY <1>6 DEF SetAccessBlocked
  <2>2. new \in AccessRows /\ new.device # NoDevice
    BY <1>0, <2>1 DEF LearnTypeOK, Registered, AccessRows
  <2> HIDE DEF new
  <2>3. Registered' = Registered
    BY <1>0, <2>1, <2>2, RowsStay
  <2>4. access' \in [Rows -> AccessRows]
    BY <1>0, <2>1, <2>2 DEF LearnTypeOK
  <2> QED
    BY <2>1, <2>3, <2>4 DEF LearnInv, LearnTypeOK, WellFormed, Holding, PlacesAddUp
<1> QED
  BY <1>1, <1>2, <1>3, <1>4, <1>5, <1>6 DEF LearnNext

LEMMA LearnAlways == LearnSpec => []LearnInv
BY LearnInvInit, LearnInvStep, PTL DEF LearnSpec

\* The counter and the rows it counts differ by the places on the way and the
\* places lost, whatever the interleaving.
THEOREM PlacesNeverDrift == LearnSpec => []PlacesAddUp
<1>1. LearnInv => PlacesAddUp
  BY DEF LearnInv
<1> QED
  BY <1>1, LearnAlways, PTL

\* A code never has more devices than it was sold for.
THEOREM NeverMoreDevices == LearnSpec => []DevicesCapped
<1>1. LearnInv => DevicesCapped
  BY Finite, LearnAssumption DEF LearnInv, LearnTypeOK, Codes, PlacesAddUp, DevicesCapped
<1> QED
  BY <1>1, LearnAlways, PTL

\* One activation after another: the one under way has a token nobody has got,
\* and renews a row of its own device; every row's token was answered to the
\* row's device.
TokensOwned ==
    ~mixed =>
        /\ \A a, b \in Activations : act[a].pc # "idle" /\ act[b].pc # "idle" => a = b
        /\ \A a \in Activations : act[a].pc # "idle" =>
              /\ act[a].token \in Tokens /\ given[act[a].token] = NoDevice
              /\ act[a].pc = "renew" => access[act[a].row].device = act[a].device
        /\ \A r \in Registered :
              access[r].token \in Tokens /\ given[access[r].token] = access[r].device

\* A step of the activation under way that answers nothing.
LEMMA OwnedQuietly ==
    ASSUME LearnInv, TokensOwned, NEW a \in Activations, act[a].pc # "idle",
           NEW row, ActBecomes(a, row), UNCHANGED <<access, given, mixed>>,
           row.pc # "idle" => row.token = act[a].token,
           row.pc = "renew" => access[row.row].device = row.device
    PROVE  TokensOwned'
<1>1. act'[a] = row /\ \A b \in Activations \ {a} : act'[b] = act[b]
  BY DEF LearnInv, LearnTypeOK, ActBecomes
<1>2. Registered' = Registered
  BY DEF Registered
<1> QED
  BY <1>1, <1>2 DEF TokensOwned

\* A step that writes its device and its token on a row and answers them.
LEMMA OwnedAnswer ==
    ASSUME LearnInv, TokensOwned, NEW a \in Activations, act[a].pc # "idle",
           ActDone(a), Answer(a), NEW r \in Rows, NEW new \in AccessRows,
           access' = [access EXCEPT ![r] = new],
           ~mixed => new.device = act[a].device /\ new.token = act[a].token,
           UNCHANGED mixed
    PROVE  TokensOwned'
<1> DEFINE d == act[a].device
           t == act[a].token
<1> SUFFICES ASSUME ~mixed PROVE TokensOwned'
  BY DEF TokensOwned
<1>1. /\ access \in [Rows -> AccessRows] /\ given \in [Tokens -> Devices \cup {NoDevice}]
      /\ d \in Devices /\ t \in Tokens /\ given[t] = NoDevice
  BY DEF LearnInv, LearnTypeOK, WellFormed, TokensOwned
<1>2. given' = [given EXCEPT ![t] = d] /\ given'[t] = d
  BY <1>1 DEF Answer
<1>3. \A b \in Activations : act'[b].pc # "idle" => b # a /\ act[b].pc # "idle"
  BY IdleRow DEF LearnInv, LearnTypeOK, ActDone, ActBecomes
<1>4. \A b \in Activations : act'[b].pc = "idle"
  BY <1>3 DEF TokensOwned
<1>5. ASSUME NEW q \in Registered'
      PROVE  access'[q].token \in Tokens /\ given'[access'[q].token] = access'[q].device
  <2>1. CASE q = r
    BY <1>1, <1>2, <2>1
  <2>2. CASE q # r
    <3>1. q \in Registered /\ access'[q] = access[q] /\ access[q].device # NoDevice
      BY <1>1, <1>5, <2>2 DEF Registered
    <3>2. access[q].token \in Tokens /\ given[access[q].token] = access[q].device
      BY <3>1 DEF TokensOwned
    <3>3. access[q].token # t
      BY <1>1, <3>1, <3>2
    <3> QED
      BY <1>1, <1>2, <3>1, <3>2, <3>3
  <2> QED
    BY <2>1, <2>2
<1> QED
  BY <1>4, <1>5 DEF TokensOwned

LEMMA OwnedInit == LearnInit => TokensOwned
BY IdleRow DEF LearnInit, TokensOwned, Registered, NoAccess

LEMMA OwnedStep == LearnInv /\ TokensOwned /\ [LearnNext]_learnVars => TokensOwned'
<1> SUFFICES ASSUME LearnInv, TokensOwned, [LearnNext]_learnVars PROVE TokensOwned'
  OBVIOUS
<1>0. LearnTypeOK /\ \A a \in Activations : WellFormed(act[a])
  BY DEF LearnInv
<1>1. CASE UNCHANGED learnVars
  BY <1>1 DEF learnVars, TokensOwned, Registered
<1>2. ASSUME NEW a \in Activations, NEW d \in Devices, NEW t \in Tokens, ActivateRead(a, d, t)
      PROVE  TokensOwned'
  <2>1. /\ \A b \in Activations \ {a} : act'[b] = act[b]
        /\ act'[a].token = t /\ act'[a].pc = "look"
        /\ given[t] = NoDevice /\ UNCHANGED <<access, given>>
        /\ ~mixed' => ~mixed /\ \A b \in Activations : act[b].pc = "idle"
    BY <1>0, <1>2 DEF ActivateRead, ActBecomes, ActAt, Fresh, LearnTypeOK
  <2>2. Registered' = Registered
    BY <2>1 DEF Registered
  <2> QED
    BY <2>1, <2>2 DEF TokensOwned
<1>3. ASSUME NEW a \in Activations, ActStep(a) PROVE TokensOwned'
  <2> DEFINE me == act[a]
  <2>0. me \in ActRows /\ WellFormed(me)
    BY <1>0 DEF LearnTypeOK
  <2>1. ASSUME NEW row, ActBecomes(a, row), UNCHANGED <<access, given, mixed>>, me.pc # "idle",
               row.pc # "idle" => row.token = me.token, row.pc # "renew"
        PROVE  TokensOwned'
    BY <2>1, OwnedQuietly
  <2>2. ASSUME ActDone(a), UNCHANGED <<access, given, mixed>>, me.pc # "idle" PROVE TokensOwned'
    BY <2>1, <2>2, IdleRow DEF ActDone
  <2>3. ASSUME NEW pc \in ActSteps \ {"renew"}, ActGoes(a, pc), UNCHANGED <<access, given, mixed>>,
               me.pc # "idle"
        PROVE  TokensOwned'
    <3> DEFINE row == [me EXCEPT !.pc = pc]
    <3>1. ActBecomes(a, row)
      BY <2>3 DEF ActGoes
    <3>2. row.pc = pc /\ row.token = me.token
      BY <2>0 DEF ActRows
    <3> HIDE DEF row
    <3> QED
      BY <2>1, <2>3, <3>1, <3>2
  <2>4. CASE ActivateLook(a)
    <3>0. me.pc = "look" /\ UNCHANGED <<access, given, mixed>>
      BY <2>4 DEF ActivateLook, ActAt
    <3>1. ASSUME NEW r \in RowsWith(me.device), ActBecomes(a, [me EXCEPT !.pc = "renew", !.row = r])
          PROVE  TokensOwned'
      <4> DEFINE row == [me EXCEPT !.pc = "renew", !.row = r]
      <4>1. row.token = me.token /\ access[row.row].device = row.device
        BY <2>0 DEF ActRows, RowsWith
      <4>2. ActBecomes(a, row)
        BY <3>1
      <4> HIDE DEF row
      <4> QED
        BY <3>0, <4>1, <4>2, OwnedQuietly
    <3> QED
      BY <2>2, <2>3, <2>4, <3>0, <3>1 DEF ActivateLook, ActSteps
  <2>5. CASE RenewToken(a)
    <3>1. me.pc = "renew" /\ me.row \in Rows /\ access[me.row] \in AccessRows
      BY <1>0, <2>0, <2>5 DEF RenewToken, ActAt, WellFormed, Registered, LearnTypeOK
    <3> DEFINE r == me.row
               new == [access[r] EXCEPT !.token = me.token]
    <3>2. new \in AccessRows /\ new.device = access[r].device /\ new.token = me.token
      BY <2>0, <3>1 DEF AccessRows, ActRows
    <3>3. ~mixed => access[r].device = me.device
      BY <3>1 DEF TokensOwned
    <3>4. access' = [access EXCEPT ![r] = new] /\ Answer(a) /\ ActDone(a) /\ UNCHANGED mixed
      BY <2>5, <3>1 DEF RenewToken
    <3> HIDE DEF r, new
    <3> QED
      BY <3>1, <3>2, <3>3, <3>4, OwnedAnswer DEF r
  <2>6. CASE PickOldest(a)
    <3>0. me.pc = "oldest" /\ UNCHANGED <<access, given, mixed>>
      BY <2>6 DEF PickOldest, ActAt
    <3>1. ASSUME NEW r, ActBecomes(a, [me EXCEPT !.pc = "replace", !.row = r]) PROVE TokensOwned'
      <4> DEFINE row == [me EXCEPT !.pc = "replace", !.row = r]
      <4>1. row.token = me.token /\ row.pc = "replace"
        BY <2>0 DEF ActRows
      <4>2. ActBecomes(a, row)
        BY <3>1
      <4> HIDE DEF row
      <4> QED
        BY <2>1, <3>0, <4>1, <4>2
    <3> QED
      BY <2>2, <2>6, <3>0, <3>1 DEF PickOldest
  <2>7. CASE ReplaceOldest(a)
    <3>0. me.pc = "replace" /\ me.row \in Rows /\ ActDone(a) /\ UNCHANGED mixed
      BY <2>0, <2>7 DEF ReplaceOldest, ActAt, WellFormed, Registered
    <3>1. CASE UNCHANGED <<access, given>>
      BY <2>2, <3>0, <3>1
    <3>2. CASE access' = [access EXCEPT ![me.row] = Replaced(a)] /\ Answer(a)
      <4>1. Replaced(a) \in AccessRows /\ Replaced(a).device = me.device /\ Replaced(a).token = me.token
        BY <2>0 DEF Replaced, AccessRows, ActRows
      <4> QED
        BY <3>0, <3>2, <4>1, OwnedAnswer
    <3> QED
      BY <2>7, <3>1, <3>2 DEF ReplaceOldest
  <2>8. CASE InsertAccess(a)
    <3>0. me.pc = "insert" /\ UNCHANGED mixed
      BY <2>8 DEF InsertAccess, ActAt
    <3>1. CASE ActGoes(a, "giveBack") /\ UNCHANGED <<access, given>>
      BY <2>3, <3>0, <3>1 DEF ActSteps
    <3>2. ASSUME NEW r \in Rows, Answer(a), ActDone(a),
                 access' = [access EXCEPT ![r] = [device |-> me.device, token |-> me.token,
                                                  blocked |-> FALSE]]
          PROVE  TokensOwned'
      <4> DEFINE new == [device |-> me.device, token |-> me.token, blocked |-> FALSE]
      <4>1. new \in AccessRows /\ new.device = me.device /\ new.token = me.token
        BY <2>0 DEF AccessRows, ActRows
      <4>2. access' = [access EXCEPT ![r] = new]
        BY <3>2
      <4> HIDE DEF new
      <4> QED
        BY <3>0, <3>2, <4>1, <4>2, OwnedAnswer
    <3> QED
      BY <2>8, <3>1, <3>2 DEF InsertAccess, ActGoes, AfterRefusal
  <2>9. CASE TakePlace(a)
    <3>1. me.pc = "bump" /\ UNCHANGED <<access, given, mixed>> /\ (ActGoes(a, "insert") \/ ActDone(a))
      BY <2>9 DEF TakePlace, ActAt
    <3> QED
      BY <2>2, <2>3, <3>1 DEF ActSteps
  <2>10. CASE GiveBack(a) \/ ActivationStops(a)
    BY <2>2, <2>10 DEF GiveBack, ActivationStops, ActAt
  <2> QED
    BY <1>3, <2>4, <2>5, <2>6, <2>7, <2>8, <2>9, <2>10 DEF ActStep
<1>4. ASSUME NEW b \in BOOLEAN, SetCodeActive(b) PROVE TokensOwned'
  BY <1>4 DEF SetCodeActive, TokensOwned, Registered
<1>5. CASE CodeExpires
  BY <1>5 DEF CodeExpires, TokensOwned, Registered
<1>6. ASSUME NEW r \in Rows, NEW b \in BOOLEAN, SetAccessBlocked(r, b) PROVE TokensOwned'
  <2> DEFINE new == [access[r] EXCEPT !.blocked = b]
  <2>1. /\ access' = [access EXCEPT ![r] = new] /\ access \in [Rows -> AccessRows]
        /\ UNCHANGED <<act, given, mixed>>
    BY <1>0, <1>6 DEF SetAccessBlocked, LearnTypeOK
  <2>2. new.device = access[r].device /\ new.token = access[r].token
    BY <2>1 DEF AccessRows
  <2> HIDE DEF new
  <2>3. \A q \in Rows : access'[q].device = access[q].device /\ access'[q].token = access[q].token
    BY <2>1, <2>2
  <2>4. Registered' = Registered
    BY <2>3 DEF Registered
  <2>5. ASSUME NEW a \in Activations, act[a].pc = "renew" PROVE act[a].row \in Rows
    BY <1>0, <2>5 DEF WellFormed, Registered
  <2> QED
    BY <2>1, <2>3, <2>4, <2>5 DEF TokensOwned, Registered
<1> QED
  BY <1>1, <1>2, <1>3, <1>4, <1>5, <1>6 DEF LearnNext

\* Activations that do not overlap, but may stop anywhere, leave each token
\* opening the row of the device it was answered to (activateLearnCode).
THEOREM TokenOpensItsDevice == LearnSpec => []TokenIsOwn
<1>1. TokensOwned => TokenIsOwn
  BY DEF TokensOwned, TokenIsOwn, LetIn
<1> QED
  BY <1>1, LearnAlways, OwnedInit, OwnedStep, PTL DEF LearnSpec

-----------------------------------------------------------------------------
(* StaffedCalendar *)

\* A booking that has a person shows that person: merging moves the two columns
\* together, and deleting empties only the one the trigger reads.
Kept ==
    /\ OneAtATime
    /\ \A v \in Visits : visit[v].with \in {visit[v].staff, Anybody}

\* Somebody is left to merge, out of the list the request has read.
Merging(row) == row.todo # {} /\ row.todo \subseteq row.read

StaffedInv ==
    /\ StaffedTypeOK
    /\ \A o \in Owners : owner[o].pc # "idle" => Merging(owner[o])
    /\ Kept

-----------------------------------------------------------------------------
(* What the trigger lets through *)

\* A new booking is in nobody's way.
LEMMA InsertKeeps ==
    ASSUME StaffedInv, NEW s \in Slots, NEW p \in People \cup {Anybody},
           ~OverlapRefused({}, s, p, Staffed), Insert(s, p)
    PROVE  visit' \in [Visits -> VisitRows] /\ Kept'
<1> DEFINE row == [status |-> "live", slot |-> s, with |-> p, staff |-> p]
<1>1. PICK v \in Visits : visit[v].status = "none" /\ visit' = [visit EXCEPT ![v] = row]
  BY DEF Insert
<1>2. row \in VisitRows /\ visit \in [Visits -> VisitRows]
  BY DEF VisitRows, StaffedInv, StaffedTypeOK
<1>3. visit'[v] = row /\ \A u \in Visits \ {v} : visit'[u] = visit[u]
  BY <1>1, <1>2
<1>4. LiveVisits' = LiveVisits \cup {v} /\ v \notin LiveVisits
  BY <1>1, <1>3 DEF LiveVisits
<1>5. \A u \in LiveVisits : visit[u].slot = s =>
         visit[u].with # p /\ Anybody \notin {visit[u].with, p}
  BY DEF OverlapRefused, WithConflict
<1>6. ASSUME NEW t \in LiveVisits', NEW u \in LiveVisits', t # u, visit'[t].slot = visit'[u].slot
      PROVE  visit'[t].with # visit'[u].with /\ Anybody \notin {visit'[t].with, visit'[u].with}
  <2>1. CASE t # v /\ u # v
    <3>1. t \in LiveVisits /\ u \in LiveVisits /\ t \in Visits /\ u \in Visits
      BY <1>4, <2>1 DEF LiveVisits
    <3>2. visit'[t] = visit[t] /\ visit'[u] = visit[u]
      BY <1>3, <2>1, <3>1
    <3> QED
      BY <1>6, <3>1, <3>2 DEF StaffedInv, Kept, OneAtATime
  <2>2. ASSUME NEW w \in LiveVisits', w # v, visit'[w].slot = visit'[v].slot
        PROVE  visit'[w].with # visit'[v].with /\ Anybody \notin {visit'[w].with, visit'[v].with}
    <3>1. w \in LiveVisits /\ w \in Visits
      BY <1>4, <2>2 DEF LiveVisits
    <3>2. visit'[w] = visit[w]
      BY <1>3, <2>2, <3>1
    <3> QED
      BY <1>3, <1>5, <2>2, <3>1, <3>2
  <2> QED
    BY <1>6, <2>1, <2>2
<1>7. \A u \in Visits : visit'[u].with \in {visit'[u].staff, Anybody}
  BY <1>3 DEF StaffedInv, Kept
<1> QED
  BY <1>1, <1>2, <1>6, <1>7 DEF Kept, OneAtATime

\* Bookings at different times may all go to one person, or to nobody in
\* particular, when the trigger refuses none of them.
LEMMA RewriteKeeps ==
    ASSUME StaffedInv, NEW M \in SUBSET Visits, NEW q \in People \cup {Anybody}, NEW staffed,
           \A t, u \in M \cap LiveVisits : visit[t].slot = visit[u].slot => visit[t].with = visit[u].with,
           \A v \in M \cap LiveVisits : ~OverlapRefused({v}, visit[v].slot, q, staffed),
           visit' \in [Visits -> VisitRows],
           \A v \in Visits : /\ visit'[v].status = visit[v].status
                             /\ visit'[v].slot = visit[v].slot
                             /\ visit'[v].with = IF v \in M THEN q ELSE visit[v].with
    PROVE  OneAtATime'
<1>2. LiveVisits' = LiveVisits /\ LiveVisits \subseteq Visits
  BY DEF LiveVisits
<1>3. ASSUME NEW t \in LiveVisits, NEW u \in LiveVisits, t # u, visit[t].slot = visit[u].slot
      PROVE  visit'[t].with # visit'[u].with /\ Anybody \notin {visit'[t].with, visit'[u].with}
  <2>0. t \in Visits /\ u \in Visits /\ visit[t].with # visit[u].with
        /\ Anybody \notin {visit[t].with, visit[u].with}
    BY <1>2, <1>3 DEF StaffedInv, Kept, OneAtATime
  <2>1. CASE t \notin M /\ u \notin M
    BY <2>0, <2>1
  <2>2. ASSUME NEW a \in LiveVisits, NEW b \in LiveVisits, a # b, visit[a].slot = visit[b].slot,
               a \in M, b \notin M
        PROVE  visit'[a].with # visit'[b].with /\ Anybody \notin {visit'[a].with, visit'[b].with}
    <3>1. ~WithConflict(staffed, visit[b].with, q)
      BY <2>2 DEF OverlapRefused
    <3> QED
      BY <1>2, <2>2, <3>1 DEF WithConflict
  <2>3. ~(t \in M /\ u \in M)
    BY <1>3, <2>0
  <2> QED
    BY <1>3, <2>1, <2>2, <2>3
<1> QED
  BY <1>2, <1>3 DEF OneAtATime

\* Cancelled bookings are in nobody's way either.
LEMMA CancelKeeps ==
    ASSUME StaffedInv, NEW v \in Visits, visit' = [visit EXCEPT ![v].status = "over"]
    PROVE  visit' \in [Visits -> VisitRows] /\ Kept'
<1>0. visit \in [Visits -> VisitRows]
  BY DEF StaffedInv, StaffedTypeOK
<1>1. visit' \in [Visits -> VisitRows]
      /\ \A u \in Visits : /\ visit'[u].slot = visit[u].slot /\ visit'[u].with = visit[u].with
                            /\ visit'[u].staff = visit[u].staff
                            /\ visit'[u].status = "live" => visit[u].status = "live"
  BY <1>0 DEF VisitRows
<1>2. LiveVisits' \subseteq LiveVisits /\ LiveVisits \subseteq Visits
  BY <1>1 DEF LiveVisits
<1> QED
  BY <1>1, <1>2 DEF StaffedInv, Kept, OneAtATime

-----------------------------------------------------------------------------
(* Types *)

LEMMA IdleTypes == IdleCustomer \in CustomerRows /\ IdleOwner \in OwnerRows /\ AnySlot \in Slots
<1>1. AnySlot \in Slots
  BY StaffedAssumption DEF AnySlot
<1> QED
  BY <1>1 DEF IdleCustomer, CustomerRows, IdleOwner, OwnerRows

LEMMA WatchType ==
    ASSUME StaffedInv, Watch
    PROVE  free' \in [Customers -> SUBSET People]
BY DEF StaffedInv, StaffedTypeOK, Watch

\* Who is picked is one of the people, or nobody in particular in a business
\* without staff.
LEMMA PickedType ==
    ASSUME NEW k \in CustomerRows, Pickable(k) # {}
    PROVE  /\ Picked(k) \in People \cup {Anybody}
           /\ k.wants = Anybody /\ k.staffed => Picked(k) \in People
<1>0. k.eligible \subseteq People /\ k.wants \in People \cup {Anybody}
  BY DEF CustomerRows
<1>1. CASE Anybody \in Pickable(k)
  BY <1>0, <1>1, StaffedAssumption DEF Picked, Pickable
<1>2. CASE Anybody \notin Pickable(k)
  <2>1. Pickable(k) \subseteq People
    BY <1>0, <1>2 DEF Pickable
  <2>2. Min(Pickable(k)) \in Pickable(k)
    BY <2>1, StaffedAssumption, MinLeast
  <2> QED
    BY <1>2, <2>1, <2>2 DEF Picked
<1> QED
  BY <1>1, <1>2

LEMMA StaffedInvInit == StaffedInit => StaffedInv
<1> SUFFICES ASSUME StaffedInit PROVE StaffedInv
  OBVIOUS
<1>1. StaffedTypeOK
  <2>1. NoVisitRow \in VisitRows
    BY IdleTypes DEF NoVisitRow, VisitRows
  <2> QED
    BY <2>1, IdleTypes, StaffedAssumption DEF StaffedInit, StaffedTypeOK
<1>2. \A o \in Owners : owner[o].pc = "idle"
  BY DEF StaffedInit, IdleOwner
<1>3. Kept
  BY DEF StaffedInit, Kept, OneAtATime, LiveVisits, NoVisitRow
<1> QED
  BY <1>1, <1>2, <1>3 DEF StaffedInv

-----------------------------------------------------------------------------
(* Steps *)

LEMMA CustomerKeeps ==
    ASSUME StaffedInv, NEW c \in Customers, CustomerSteps(c), Watch
    PROVE  StaffedInv'
<1> DEFINE me == customer[c]
<1>0. StaffedTypeOK /\ Kept /\ me \in CustomerRows
  BY DEF StaffedInv, StaffedTypeOK
<1>1. ASSUME NEW row \in CustomerRows, CustomerBecomes(c, row),
             UNCHANGED <<person, owner, owned>>,
             visit' \in [Visits -> VisitRows], Kept',
             event' \subseteq {"overlap", "wild", "deleted", "stop"}
      PROVE  StaffedInv'
  <2>1. customer' \in [Customers -> CustomerRows]
    BY <1>0, <1>1 DEF CustomerBecomes, StaffedTypeOK
  <2>2. free' \in [Customers -> SUBSET People]
    BY WatchType
  <2> QED
    BY <1>1, <2>1, <2>2 DEF StaffedInv, StaffedTypeOK
<1>2. ASSUME UNCHANGED visit PROVE visit' \in [Visits -> VisitRows] /\ Kept'
  BY <1>0, <1>2 DEF StaffedTypeOK, Kept, OneAtATime, LiveVisits
<1>3. \A s \in Slots : Busy(s) \subseteq People \cup {Anybody}
  BY <1>0 DEF StaffedTypeOK, Busy, Shown, LiveVisits, VisitRows
<1>4. Active \subseteq People
  BY DEF Active
<1>5. ASSUME NEW s \in Slots, NEW p \in People \cup {Anybody}, BookRead(c, s, p)
      PROVE  StaffedInv'
  <2> DEFINE row == [IdleCustomer EXCEPT !.pc = "try", !.slot = s, !.wants = p,
                        !.staffed = Staffed, !.eligible = Active, !.busy = Busy(s)]
  <2>1. row \in CustomerRows
    <3>1. Staffed \in BOOLEAN
      BY DEF Staffed
    <3> QED
      BY <1>3, <1>4, <3>1, IdleTypes, Zenon DEF CustomerRows
  <2>2. CustomerBecomes(c, row)
        /\ UNCHANGED <<person, owner, owned, visit>>
    BY <1>5 DEF BookRead
  <2>3. event' \subseteq {"overlap", "wild", "deleted", "stop"}
    BY <1>0, <1>5 DEF BookRead, StaffedTypeOK
  <2> HIDE DEF row
  <2> QED
    BY <1>1, <1>2, <2>1, <2>2, <2>3
<1>6. CASE BookTry(c)
  <2> DEFINE p == Picked(me)
             turned == TurnedAway(me)
             again == [me EXCEPT !.consumed = @ \cup {p}, !.pc = "again"]
  <2>1. turned \in CustomerRows
    BY <1>0, IdleTypes DEF TurnedAway, IdleCustomer, CustomerRows
  <2>2. ASSUME UNCHANGED visit, Unnoted, NEW row \in CustomerRows, CustomerBecomes(c, row)
        PROVE  StaffedInv'
    BY <1>0, <1>1, <1>2, <1>6, <2>2 DEF BookTry, Unnoted, StaffedTypeOK
  <2>3. CASE Pickable(me) = {}
    BY <1>6, <2>1, <2>2, <2>3 DEF BookTry
  <2>4. CASE Pickable(me) # {} /\ OverlapRefused({}, me.slot, p, Staffed)
    <3>1. CASE me.wants = Anybody /\ me.staffed /\ ~LastAttempt(me)
      <4>1. p \in People
        BY <1>0, <2>4, <3>1, PickedType
      <4>2. CustomerBecomes(c, again) /\ UNCHANGED visit /\ Unnoted
        BY <1>6, <2>4, <3>1 DEF BookTry
      <4> HIDE DEF p
      <4>3. again \in CustomerRows
        BY <1>0, <4>1 DEF CustomerRows
      <4> QED
        BY <2>2, <4>2, <4>3
    <3>2. CASE ~(me.wants = Anybody /\ me.staffed /\ ~LastAttempt(me))
      <4>1. CustomerBecomes(c, turned) /\ UNCHANGED visit /\ Unnoted
        BY <1>6, <2>4, <3>2 DEF BookTry
      <4> QED
        BY <2>1, <2>2, <4>1
    <3> QED
      BY <3>1, <3>2
  <2>5. CASE Pickable(me) # {} /\ ~OverlapRefused({}, me.slot, p, Staffed)
    <3>0. CustomerBecomes(c, IdleCustomer)
      BY <1>6, <2>5 DEF BookTry
    <3>1. CASE Insert(me.slot, p) /\ Wild(p)
      <4>1. p \in People \cup {Anybody} /\ me.slot \in Slots
        BY <1>0, <2>5, PickedType DEF CustomerRows
      <4>2. visit' \in [Visits -> VisitRows] /\ Kept'
        BY <2>5, <3>1, <4>1, InsertKeeps
      <4>3. event' \subseteq {"overlap", "wild", "deleted", "stop"}
        BY <1>0, <3>1 DEF Wild, StaffedTypeOK
      <4> QED
        BY <1>1, <1>6, <3>0, <4>2, <4>3, IdleTypes DEF BookTry
    <3>2. CASE UNCHANGED visit /\ Unnoted
      BY <2>2, <3>0, <3>2, IdleTypes
    <3> QED
      BY <1>6, <2>5, <3>1, <3>2 DEF BookTry
  <2> QED
    BY <2>3, <2>4, <2>5
<1>7. CASE BookAgain(c)
  <2> DEFINE row == [me EXCEPT !.pc = "try", !.busy = Busy(me.slot)]
  <2>1. row \in CustomerRows
    BY <1>0, <1>3 DEF CustomerRows
  <2>2. CustomerBecomes(c, row) /\ UNCHANGED <<person, owner, owned, visit, event>>
    BY <1>7 DEF BookAgain, Unnoted
  <2> HIDE DEF row
  <2> QED
    BY <1>0, <1>1, <1>2, <2>1, <2>2 DEF StaffedTypeOK
<1> QED
  BY <1>5, <1>6, <1>7 DEF CustomerSteps

\* Whoever is on a list of people shares the name with somebody first on it.
LEMMA FirstIsThere ==
    ASSUME NEW p \in People, NEW list, p \in list
    PROVE  FirstIn(list, p) \in People
<1>1. SameName(p) \cap list \in SUBSET Nat /\ SameName(p) \cap list # {}
      /\ SameName(p) \subseteq People
  BY StaffedAssumption
<1> QED
  BY <1>1, MinLeast DEF FirstIn

LEMMA OwnerKeeps ==
    ASSUME StaffedInv, NEW o \in Owners, OwnerSteps(o), Watch
    PROVE  StaffedInv'
<1> DEFINE me == owner[o]
           Events == {"overlap", "wild", "deleted", "stop"}
<1>0. StaffedTypeOK /\ Kept /\ me \in OwnerRows /\ (me.pc # "idle" => Merging(me))
  BY DEF StaffedInv, StaffedTypeOK
<1>1. ASSUME NEW row \in OwnerRows, row.pc # "idle" => Merging(row), OwnerBecomes(o, row),
             UNCHANGED customer, person' \in [People -> {"active", "off", "gone"}],
             visit' \in [Visits -> VisitRows], Kept',
             owned' \in 0..MaxOwned, event' \subseteq Events
      PROVE  StaffedInv'
  <2>1. owner' \in [Owners -> OwnerRows] /\ \A q \in Owners : owner'[q].pc # "idle" => Merging(owner'[q])
    BY <1>0, <1>1 DEF OwnerBecomes, StaffedTypeOK, StaffedInv
  <2>2. free' \in [Customers -> SUBSET People]
    BY WatchType
  <2> QED
    BY <1>0, <1>1, <2>1, <2>2 DEF StaffedInv, StaffedTypeOK
<1>2. ASSUME UNCHANGED visit PROVE visit' \in [Visits -> VisitRows] /\ Kept'
  BY <1>0, <1>2 DEF StaffedTypeOK, Kept, OneAtATime, LiveVisits
<1>3. ASSUME NEW row, OwnerCalls(o, row) PROVE owned' \in 0..MaxOwned /\ OwnerBecomes(o, row)
  BY <1>0, <1>3, StaffedAssumption DEF OwnerCalls, StaffedTypeOK
<1>4. ASSUME NEW what \in SUBSET Events, Overlapping(what) PROVE event' \subseteq Events
  BY <1>0, <1>4 DEF Overlapping, StaffedTypeOK
<1>5. IdleOwner \in OwnerRows /\ IdleOwner.pc = "idle"
  BY IdleTypes DEF IdleOwner
<1>6. ASSUME NEW p \in People, Deleted(p), ~DeleteRefused(p)
      PROVE  /\ person' \in [People -> {"active", "off", "gone"}]
             /\ visit' \in [Visits -> VisitRows] /\ Kept'
  <2>1. person' \in [People -> {"active", "off", "gone"}]
    BY <1>0, <1>6 DEF Deleted, StaffedTypeOK
  <2>2. \A v \in VisitsWith(p) \cap LiveVisits : ~OverlapRefused({v}, visit[v].slot, Anybody, TRUE)
    BY <1>6 DEF DeleteRefused
  <2> DEFINE M == VisitsWith(p)
  <2>3. M \in SUBSET Visits /\ \A v \in M : visit[v].with = p
    BY DEF VisitsWith
  <2>4. \A v \in Visits : visit'[v] = IF v \in M THEN [visit[v] EXCEPT !.with = Anybody] ELSE visit[v]
    BY <1>6 DEF Deleted
  <2>5. visit' \in [Visits -> VisitRows]
    <3>1. visit' = [v \in Visits |-> IF v \in M THEN [visit[v] EXCEPT !.with = Anybody] ELSE visit[v]]
      BY <1>6 DEF Deleted
    <3> QED
      BY <1>0, <3>1 DEF StaffedTypeOK, VisitRows
  <2>6. \A v \in Visits : /\ visit'[v].status = visit[v].status /\ visit'[v].slot = visit[v].slot
                          /\ visit'[v].staff = visit[v].staff
                          /\ visit'[v].with = IF v \in M THEN Anybody ELSE visit[v].with
    BY <1>0, <2>4 DEF StaffedTypeOK, VisitRows
  <2> HIDE DEF M
  <2>7. PICK q \in People \cup {Anybody}, staffed \in BOOLEAN : q = Anybody /\ staffed = TRUE
    OBVIOUS
  <2>10. \A v \in M \cap LiveVisits : ~OverlapRefused({v}, visit[v].slot, q, staffed)
    BY <2>2, <2>7 DEF M
  <2>11. \A t, u \in M \cap LiveVisits : visit[t].slot = visit[u].slot => visit[t].with = visit[u].with
    BY <2>3
  <2>12. \A v \in Visits : /\ visit'[v].status = visit[v].status
                           /\ visit'[v].slot = visit[v].slot
                           /\ visit'[v].with = IF v \in M THEN q ELSE visit[v].with
    BY <2>6, <2>7
  <2>8. OneAtATime'
    BY <2>3, <2>5, <2>7, <2>10, <2>11, <2>12, RewriteKeeps, Zenon
  <2>9. \A v \in Visits : visit'[v].with \in {visit'[v].staff, Anybody}
    BY <1>0, <2>6 DEF Kept
  <2> QED
    BY <2>1, <2>5, <2>8, <2>9 DEF Kept
<1>7. ASSUME NEW s \in Slots, NEW p \in People \cup {Anybody}, CreateBlock(o, s, p)
      PROVE  StaffedInv'
  <2>1. visit' \in [Visits -> VisitRows] /\ Kept'
    BY <1>7, InsertKeeps DEF CreateBlock
  <2>2. event' \subseteq Events
    BY <1>4, <1>7 DEF CreateBlock
  <2> QED
    BY <1>0, <1>1, <1>3, <1>5, <1>7, <2>1, <2>2 DEF CreateBlock, StaffedTypeOK
<1>8. ASSUME NEW p \in People, NEW status \in {"active", "off"}, UpsertResource(o, p, status)
      PROVE  StaffedInv'
  <2>1. person' \in [People -> {"active", "off", "gone"}]
    BY <1>0, <1>8 DEF UpsertResource, StaffedTypeOK
  <2>2. event' \subseteq Events
    BY <1>4, <1>8 DEF UpsertResource
  <2> QED
    BY <1>1, <1>2, <1>3, <1>5, <1>8, <2>1, <2>2 DEF UpsertResource
<1>9. ASSUME NEW p \in People, DeleteResource(o, p) PROVE StaffedInv'
  <2>1. event' \subseteq Events
    BY <1>4, <1>9 DEF DeleteResource
  <2> QED
    BY <1>1, <1>3, <1>5, <1>6, <1>9, <2>1 DEF DeleteResource
<1>10. ASSUME NEW v \in Visits, CancelVisit(o, v) PROVE StaffedInv'
  <2>1. event' \subseteq Events
    BY <1>4, <1>10 DEF CancelVisit
  <2> QED
    BY <1>0, <1>1, <1>3, <1>5, <1>10, <2>1, CancelKeeps DEF CancelVisit, StaffedTypeOK
<1>11. CASE ListResources(o)
  <2> DEFINE row == [pc |-> "merge", read |-> Listed, todo |-> Duplicates]
  <2>1. row \in OwnerRows /\ Merging(row)
    BY <1>11 DEF ListResources, Listed, Duplicates, OwnerRows, Merging
  <2>2. OwnerCalls(o, row) /\ Overlapping({}) /\ UNCHANGED <<person, visit, customer>>
    BY <1>11 DEF ListResources
  <2> HIDE DEF row
  <2>3. event' \subseteq Events
    BY <1>4, <2>2
  <2> QED
    BY <1>0, <1>1, <1>2, <1>3, <2>1, <2>2, <2>3 DEF StaffedTypeOK
<1>12. ASSUME me.pc # "idle" PROVE Min(me.todo) \in People /\ me.todo \subseteq People
  <2>1. me.todo \subseteq People /\ me.todo # {}
    BY <1>0, <1>12 DEF OwnerRows, Merging
  <2> QED
    BY <2>1, MinLeast, StaffedAssumption
<1>13. CASE MergeVisits(o)
  <2> DEFINE p == Min(me.todo)
             q == FirstIn(me.read, p)
             row == [me EXCEPT !.pc = "drop"]
  <2>1. p \in People /\ me.pc = "merge"
    BY <1>12, <1>13 DEF MergeVisits
  <2>2. q \in People
    <3>1. me.todo \subseteq me.read /\ p \in me.todo
      BY <1>0, <1>12, <2>1, MinLeast, StaffedAssumption DEF Merging
    <3> QED
      BY <2>1, <3>1, FirstIsThere
  <2>3. UNCHANGED <<person, customer, owned, event>>
    BY <1>13 DEF MergeVisits, Unnoted
  <2>4. CASE UNCHANGED visit /\ OwnerBecomes(o, IdleOwner)
    BY <1>0, <1>1, <1>2, <1>5, <2>3, <2>4 DEF StaffedTypeOK
  <2>5. CASE ~(MergedVisits(p) # {} /\ (MergeRefused(p, q) \/ person[q] = "gone"))
    <3> DEFINE M == MergedVisits(p)
    <3>1. visit' = [v \in Visits |-> IF v \in M THEN Moved(v, p, q) ELSE visit[v]]
          /\ OwnerBecomes(o, row)
      BY <1>13, <2>5 DEF MergeVisits, MergeInto
    <3>2. \A v \in M \cap LiveVisits : ~OverlapRefused({v}, visit[v].slot, q, Staffed)
      BY <2>5 DEF MergeRefused
    <3>3. M \in SUBSET Visits /\ \A v \in M : p \in {visit[v].with, visit[v].staff}
      BY DEF MergedVisits
    <3> HIDE DEF p, q, M
    <3>4. \A v \in Visits : visit[v].with \in {visit[v].staff, Anybody}
      BY <1>0 DEF Kept
    <3>5. p # Anybody
      BY <2>1, StaffedAssumption
    <3>6. \A v \in M : visit[v].staff = p
      BY <3>3, <3>4, <3>5
    <3>7. \A t, u \in M \cap LiveVisits : visit[t].slot = visit[u].slot => visit[t].with = visit[u].with
      <4>1. OneAtATime
        BY <1>0 DEF Kept
      <4>2. \A v \in M : visit[v].with \in {p, Anybody}
        BY <3>3, <3>4, <3>6
      <4> QED
        BY <4>1, <4>2 DEF OneAtATime
    <3>8. visit' \in [Visits -> VisitRows]
      <4>1. \A v \in Visits : Moved(v, p, q) \in VisitRows
        BY <1>0, <2>2 DEF StaffedTypeOK, VisitRows, Moved
      <4> QED
        BY <1>0, <3>1, <4>1 DEF StaffedTypeOK
    <3>9. \A v \in Visits : /\ visit'[v].status = visit[v].status /\ visit'[v].slot = visit[v].slot
                            /\ visit'[v].with = IF v \in M THEN q ELSE visit[v].with
                            /\ visit'[v].staff = IF v \in M THEN q ELSE visit[v].staff
      BY <1>0, <3>1, <3>6 DEF StaffedTypeOK, VisitRows, Moved
    <3>13. \A v \in Visits : /\ visit'[v].status = visit[v].status
                             /\ visit'[v].slot = visit[v].slot
                             /\ visit'[v].with = IF v \in M THEN q ELSE visit[v].with
      BY <3>9
    <3>10. OneAtATime'
      BY <2>2, <3>2, <3>3, <3>7, <3>8, <3>13, RewriteKeeps, Zenon
    <3>11. Kept'
      BY <3>4, <3>9, <3>10 DEF Kept
    <3>12. row \in OwnerRows /\ Merging(row)
      BY <1>0, <2>1 DEF OwnerRows, Merging
    <3> HIDE DEF row
    <3> QED
      BY <1>0, <1>1, <2>3, <3>1, <3>8, <3>11, <3>12 DEF StaffedTypeOK
  <2> QED
    BY <1>13, <2>4, <2>5 DEF MergeVisits
<1>14. CASE MergeDrop(o)
  <2> DEFINE p == Min(me.todo)
             rest == me.todo \ {p}
             row == IF rest = {} THEN IdleOwner ELSE [me EXCEPT !.pc = "merge", !.todo = rest]
  <2>1. p \in People /\ me.todo \subseteq People
    BY <1>12, <1>14 DEF MergeDrop
  <2>2. row \in OwnerRows /\ (row.pc # "idle" => Merging(row))
    BY <1>0, <1>5, <1>14, <2>1 DEF OwnerRows, Merging, MergeDrop
  <2>3. UNCHANGED <<customer, owned, event>>
    BY <1>14 DEF MergeDrop, Unnoted
  <2>4. CASE DeleteRefused(p)
    BY <1>0, <1>1, <1>2, <1>5, <1>14, <2>3, <2>4 DEF MergeDrop, StaffedTypeOK
  <2>5. CASE ~DeleteRefused(p)
    <3>1. Deleted(p) /\ OwnerBecomes(o, row)
      BY <1>14, <2>5 DEF MergeDrop
    <3> HIDE DEF row, p
    <3>2. /\ person' \in [People -> {"active", "off", "gone"}]
          /\ visit' \in [Visits -> VisitRows] /\ Kept'
      BY <1>6, <2>1, <2>5, <3>1
    <3> QED
      BY <1>0, <1>1, <2>2, <2>3, <3>1, <3>2 DEF StaffedTypeOK
  <2> QED
    BY <2>4, <2>5
<1>15. CASE OwnerStops(o)
  <2>1. event' \subseteq Events
    BY <1>0, <1>15 DEF OwnerStops, StaffedTypeOK
  <2> QED
    BY <1>0, <1>1, <1>2, <1>5, <1>15, <2>1 DEF OwnerStops, StaffedTypeOK
<1> QED
  BY <1>7, <1>8, <1>9, <1>10, <1>11, <1>13, <1>14, <1>15 DEF OwnerSteps

LEMMA StaffedInvStep == StaffedInv /\ [StaffedNext]_staffedVars => StaffedInv'
<1> SUFFICES ASSUME StaffedInv, [StaffedNext]_staffedVars PROVE StaffedInv'
  OBVIOUS
<1>1. CASE UNCHANGED staffedVars
  BY <1>1 DEF staffedVars, StaffedInv, StaffedTypeOK, Kept, OneAtATime, LiveVisits
<1> QED
  BY <1>1, CustomerKeeps, OwnerKeeps DEF StaffedNext

LEMMA StaffedAlways == StaffedSpec => []StaffedInv
BY StaffedInvInit, StaffedInvStep, PTL DEF StaffedSpec

\* Every row of the tables and of the requests is what its columns allow.
THEOREM StaffedTypes == StaffedSpec => []StaffedTypeOK
<1>1. StaffedInv => StaffedTypeOK
  BY DEF StaffedInv
<1> QED
  BY <1>1, StaffedAlways, PTL

\* Nobody has two customers at a time: not by a race of bookings, not when
\* people are merged, deleted or switched off under way.
THEOREM NobodyTwice == StaffedSpec => []OneAtATime
<1>1. StaffedInv => OneAtATime
  BY DEF StaffedInv, Kept
<1> QED
  BY <1>1, StaffedAlways, PTL
-----------------------------------------------------------------------------
(* Nobody is turned away while somebody is free *)

CustomerInFlight(c) == customer[c].pc \notin {"idle", "turnedAway"}
Looking(c) == CustomerInFlight(c) /\ customer[c].staffed /\ customer[c].wants = Anybody

\* Who has been free all along for a request that asks for anybody: an active
\* person the trigger would let in, one of those the request knows and has not
\* tried, and one its last look at the calendar found free.
FreeAllAlong(c) ==
    LET k == customer[c] IN
    /\ k.consumed \subseteq k.eligible
    /\ free[c] \subseteq k.eligible \ k.consumed
    /\ \A p \in free[c] : /\ person[p] = "active"
                          /\ \A v \in LiveVisits : visit[v].slot = k.slot
                                => visit[v].with \notin {p, Anybody}
    /\ k.pc = "try" => \A p \in free[c] : FreeOf(k.busy, p)

SearchInv ==
    /\ \A c \in Customers : Looking(c) => FreeAllAlong(c)
    /\ TurnedAwayWhenFull

\* What Watch leaves for a request that goes on: those still free.
LEMMA WatchGoesOn ==
    ASSUME StaffedInv, NEW c \in Customers, Watch, customer'[c].pc \notin {"idle", "turnedAway"}
    PROVE  /\ \A p \in free'[c] : /\ person'[p] = "active"
                                 /\ \A v \in LiveVisits' : visit'[v].slot = customer'[c].slot
                                       => visit'[v].with \notin {p, Anybody}
           /\ customer[c].pc \notin {"idle", "turnedAway"} => free'[c] \subseteq free[c]
           /\ free'[c] \subseteq Active'
<1> DEFINE now == {p \in People : /\ person'[p] = "active"
                                 /\ \A v \in Visits : visit'[v].status = "live" /\ visit'[v].slot = customer'[c].slot
                                          => visit'[v].with \notin {p, Anybody}}
<1>1. free'[c] = IF customer[c].pc \in {"idle", "turnedAway"} THEN now ELSE free[c] \cap now
  BY DEF Watch
<1>2. free'[c] \subseteq now
  BY <1>1
<1> QED
  BY <1>1, <1>2 DEF LiveVisits, Active

\* A customer whose row no step touches.
LEMMA OtherCustomer ==
    ASSUME StaffedInv, SearchInv, Watch, NEW c \in Customers, customer'[c] = customer[c]
    PROVE  /\ Looking(c)' => FreeAllAlong(c)'
           /\ customer'[c].pc = "turnedAway" /\ customer'[c].staffed /\ customer'[c].wants = Anybody
                => free'[c] = {}
<1>1. ASSUME Looking(c)' PROVE FreeAllAlong(c)'
  <2>1. Looking(c) /\ FreeAllAlong(c) /\ CustomerInFlight(c)'
    BY <1>1 DEF Looking, CustomerInFlight, SearchInv
  <2>2. /\ free'[c] \subseteq free[c]
        /\ \A p \in free'[c] : /\ person'[p] = "active"
                              /\ \A v \in LiveVisits' : visit'[v].slot = customer'[c].slot
                                    => visit'[v].with \notin {p, Anybody}
    BY <2>1, WatchGoesOn DEF CustomerInFlight
  <2> QED
    BY <2>1, <2>2 DEF FreeAllAlong, FreeOf, WithConflict
<1>2. ASSUME customer'[c].pc = "turnedAway" PROVE free'[c] = free[c]
  BY <1>2 DEF Watch
<1> QED
  BY <1>1, <1>2 DEF SearchInv, TurnedAwayWhenFull

LEMMA SearchInit == StaffedInit => SearchInv
BY DEF StaffedInit, SearchInv, Looking, CustomerInFlight, IdleCustomer, TurnedAwayWhenFull

\* A person the calendar's rule lets in is one the look at the calendar shows free.
LEMMA ShownFree ==
    ASSUME NEW s, NEW p \in People,
           \A v \in LiveVisits : visit[v].slot = s => visit[v].with \notin {p, Anybody}
    PROVE  FreeOf(Busy(s), p)
<1>1. ASSUME NEW q \in Busy(s) PROVE ~WithConflict(TRUE, q, p)
  <2>1. PICK v \in LiveVisits : visit[v].slot = s /\ q = Shown(v)
    BY <1>1 DEF Busy
  <2>2. q = visit[v].with /\ q # p /\ q # Anybody
    BY <2>1 DEF Shown
  <2> QED
    BY <2>2, StaffedAssumption DEF WithConflict
<1> QED
  BY <1>1 DEF FreeOf

\* The last attempt has tried everybody the request knows.
LEMMA NobodyLeft ==
    ASSUME NEW k, k.consumed \subseteq k.eligible, k.eligible \subseteq People,
           NEW p \in k.eligible \ k.consumed, LastAttempt(k)
    PROVE  k.eligible = k.consumed \cup {p}
<1> DEFINE E == k.eligible
           C == k.consumed
<1>1. IsFiniteSet(E)
  BY StaffedAssumption, FS_Subset
<1>2. IsFiniteSet(C)
  BY <1>1, FS_Subset
<1>3. IsFiniteSet(C \cup {p}) /\ Cardinality(C \cup {p}) = Cardinality(C) + 1
  BY <1>2, FS_AddElement
<1>4. C \cup {p} \in SUBSET E
  OBVIOUS
<1>5. /\ Cardinality(C \cup {p}) <= Cardinality(E)
      /\ Cardinality(E) = Cardinality(C \cup {p}) => E = C \cup {p}
  BY <1>1, <1>4, FS_Subset
<1>6. Cardinality(C) \in Nat /\ Cardinality(E) \in Nat
  BY <1>1, <1>2, FS_CardinalityType
<1>7. Cardinality(C) + 1 >= Cardinality(E)
  BY DEF LastAttempt
<1> QED
  BY <1>3, <1>5, <1>6, <1>7

\* A new row of one customer's.
LEMMA CustomerRow ==
    ASSUME StaffedInv, NEW c \in Customers, NEW row, CustomerBecomes(c, row)
    PROVE  customer'[c] = row /\ \A d \in Customers \ {c} : customer'[d] = customer[d]
BY DEF StaffedInv, StaffedTypeOK, CustomerBecomes

LEMMA SearchStep == StaffedInv /\ SearchInv /\ [StaffedNext]_staffedVars => SearchInv'
<1> SUFFICES ASSUME StaffedInv, SearchInv, [StaffedNext]_staffedVars PROVE SearchInv'
  OBVIOUS
<1>1. CASE UNCHANGED staffedVars
  BY <1>1 DEF staffedVars, SearchInv, Looking, CustomerInFlight, FreeAllAlong, FreeOf, WithConflict,
     LiveVisits, TurnedAwayWhenFull
<1>2. ASSUME NEW c \in Customers, NEW row, Watch, CustomerBecomes(c, row),
             Looking(c)' => FreeAllAlong(c)',
             row.pc = "turnedAway" /\ row.staffed /\ row.wants = Anybody => free'[c] = {}
      PROVE  SearchInv'
  <2>1. customer'[c] = row /\ \A d \in Customers \ {c} : customer'[d] = customer[d]
    BY <1>2, CustomerRow
  <2>2. \A d \in Customers \ {c} :
           /\ Looking(d)' => FreeAllAlong(d)'
           /\ customer'[d].pc = "turnedAway" /\ customer'[d].staffed /\ customer'[d].wants = Anybody
                => free'[d] = {}
    BY <1>2, <2>1, OtherCustomer
  <2>3. \A d \in Customers : Looking(d)' => FreeAllAlong(d)'
    BY <1>2, <2>2
  <2>4. TurnedAwayWhenFull'
    BY <1>2, <2>1, <2>2 DEF TurnedAwayWhenFull
  <2> QED
    BY <2>3, <2>4 DEF SearchInv
<1>3. ASSUME NEW o \in Owners, OwnerSteps(o), Watch PROVE SearchInv'
  <2>1. UNCHANGED customer
    BY <1>3 DEF OwnerSteps, CreateBlock, UpsertResource, DeleteResource, CancelVisit, ListResources,
                MergeVisits, MergeDrop, OwnerStops
  <2>2. \A d \in Customers :
           /\ Looking(d)' => FreeAllAlong(d)'
           /\ customer'[d].pc = "turnedAway" /\ customer'[d].staffed /\ customer'[d].wants = Anybody
                => free'[d] = {}
    BY <1>3, <2>1, OtherCustomer
  <2>3. TurnedAwayWhenFull'
    BY <2>2 DEF TurnedAwayWhenFull
  <2> QED
    BY <2>2, <2>3 DEF SearchInv
<1>4. ASSUME NEW c \in Customers, NEW s \in Slots, NEW p \in People \cup {Anybody}, BookRead(c, s, p), Watch
      PROVE  SearchInv'
  <2> DEFINE row == [IdleCustomer EXCEPT !.pc = "try", !.slot = s, !.wants = p,
                        !.staffed = Staffed, !.eligible = Active, !.busy = Busy(s)]
  <2>1. CustomerBecomes(c, row) /\ UNCHANGED <<person, visit>> /\ customer'[c] = row
    BY <1>4, CustomerRow DEF BookRead
  <2>2. /\ row.pc = "try" /\ row.slot = s /\ row.eligible = Active /\ row.consumed = {}
        /\ row.busy = Busy(s)
    BY DEF IdleCustomer
  <2> HIDE DEF row
  <2>3. /\ free'[c] \subseteq Active'
        /\ \A q \in free'[c] : /\ person'[q] = "active"
                              /\ \A v \in LiveVisits' : visit'[v].slot = s
                                    => visit'[v].with \notin {q, Anybody}
    BY <1>4, <2>1, <2>2, WatchGoesOn
  <2>4. Active' = Active /\ LiveVisits' = LiveVisits
    BY <2>1 DEF Active, LiveVisits
  <2>5. \A q \in free'[c] : FreeOf(Busy(s), q)
    BY <2>1, <2>3, <2>4, ShownFree DEF Active
  <2>6. FreeAllAlong(c)'
    BY <2>1, <2>2, <2>3, <2>4, <2>5 DEF FreeAllAlong, FreeOf, WithConflict
  <2> QED
    BY <1>2, <1>4, <2>1, <2>2, <2>6
<1>5. ASSUME NEW c \in Customers, BookTry(c), Watch PROVE SearchInv'
  <2> DEFINE k == customer[c]
             p == Picked(k)
  <2>0. k \in CustomerRows /\ k.pc = "try" /\ UNCHANGED person /\ CustomerInFlight(c)
        /\ (Looking(c) => FreeAllAlong(c))
    BY <1>5 DEF StaffedInv, StaffedTypeOK, BookTry, CustomerInFlight, SearchInv
  <2>1. CASE CustomerBecomes(c, IdleCustomer)
    <3>1. customer'[c] = IdleCustomer /\ IdleCustomer.pc = "idle"
      BY <2>1, CustomerRow DEF IdleCustomer
    <3> QED
      BY <1>2, <1>5, <2>1, <3>1 DEF Looking, CustomerInFlight
  <2>2. ASSUME CustomerBecomes(c, TurnedAway(k)), Looking(c) => free[c] = {} PROVE SearchInv'
    <3>1. /\ customer'[c] = TurnedAway(k) /\ TurnedAway(k).pc = "turnedAway"
          /\ TurnedAway(k).staffed = k.staffed /\ TurnedAway(k).wants = k.wants
      BY <2>2, CustomerRow DEF TurnedAway, IdleCustomer
    <3>2. free'[c] = free[c]
      BY <1>5, <3>1 DEF Watch
    <3>3. ~Looking(c)'
      BY <3>1 DEF Looking, CustomerInFlight
    <3> QED
      BY <1>2, <1>5, <2>0, <2>2, <3>1, <3>2, <3>3 DEF Looking
  <2>3. CASE Pickable(k) = {} /\ CustomerBecomes(c, TurnedAway(k))
    <3>1. ASSUME Looking(c) PROVE free[c] \subseteq Pickable(k)
      <4>1. free[c] \subseteq People
        BY DEF StaffedInv, StaffedTypeOK
      <4> QED
        BY <2>0, <3>1, <4>1 DEF FreeAllAlong, Pickable, Looking
    <3> QED
      BY <2>2, <2>3, <3>1
  <2>4. CASE Pickable(k) # {} /\ OverlapRefused({}, k.slot, p, Staffed)
    <3>1. ASSUME Looking(c) PROVE p \in k.eligible \ k.consumed /\ p \notin free[c]
      <4>1. Pickable(k) \subseteq k.eligible \ k.consumed /\ k.eligible \subseteq People
        BY <2>0, <3>1 DEF Pickable, Looking, CustomerRows
      <4>2. Pickable(k) \in SUBSET Nat /\ Anybody \notin Pickable(k)
        BY <4>1, StaffedAssumption
      <4>3. p \in Pickable(k)
        BY <2>4, <4>2, MinLeast DEF Picked
      <4>4. ASSUME p \in free[c] PROVE FALSE
        <5>1. person[p] = "active" /\ p \in People /\ p # Anybody
          BY <2>0, <3>1, <4>1, <4>3, <4>4, StaffedAssumption DEF FreeAllAlong
        <5>2. Staffed
          BY <5>1 DEF Staffed, Active
        <5>3. \A v \in LiveVisits : visit[v].slot = k.slot => visit[v].with \notin {p, Anybody}
          BY <2>0, <3>1, <4>4 DEF FreeAllAlong
        <5> HIDE DEF p, k
        <5> QED
          BY <2>4, <5>1, <5>2, <5>3 DEF OverlapRefused, WithConflict
      <4> QED
        BY <4>1, <4>3, <4>4
    <3>2. CASE k.wants = Anybody /\ k.staffed /\ ~LastAttempt(k)
      <4> DEFINE again == [k EXCEPT !.consumed = @ \cup {p}, !.pc = "again"]
      <4>1. CustomerBecomes(c, again) /\ UNCHANGED visit
        BY <1>5, <2>4, <3>2 DEF BookTry
      <4>2. /\ again.pc = "again" /\ again.consumed = k.consumed \cup {p} /\ again.slot = k.slot
            /\ again.eligible = k.eligible /\ again.busy = k.busy
        BY <2>0 DEF CustomerRows
      <4>3. Looking(c)
        BY <2>0, <3>2 DEF Looking
      <4> HIDE DEF again
      <4>4. customer'[c] = again
        BY <4>1, CustomerRow
      <4>5. /\ free'[c] \subseteq free[c]
            /\ \A q \in free'[c] : /\ person'[q] = "active"
                                  /\ \A v \in LiveVisits' : visit'[v].slot = again.slot
                                        => visit'[v].with \notin {q, Anybody}
        BY <1>5, <2>0, <4>2, <4>4, WatchGoesOn
      <4> HIDE DEF p
      <4>6. FreeAllAlong(c)'
        BY <2>0, <3>1, <4>2, <4>3, <4>4, <4>5 DEF FreeAllAlong
      <4> QED
        BY <1>2, <1>5, <4>1, <4>2, <4>6
    <3>3. CASE ~(k.wants = Anybody /\ k.staffed /\ ~LastAttempt(k))
      <4>1. CustomerBecomes(c, TurnedAway(k))
        BY <1>5, <2>4, <3>3 DEF BookTry
      <4>2. ASSUME Looking(c) PROVE free[c] = {}
        <5>1. LastAttempt(k) /\ k.consumed \subseteq k.eligible /\ k.eligible \subseteq People
          BY <2>0, <3>3, <4>2 DEF Looking, FreeAllAlong, CustomerRows
        <5>2. k.eligible = k.consumed \cup {p}
          BY <3>1, <4>2, <5>1, NobodyLeft
        <5>3. free[c] \subseteq k.eligible \ k.consumed
          BY <2>0, <4>2 DEF FreeAllAlong
        <5> QED
          BY <3>1, <4>2, <5>2, <5>3
      <4> QED
        BY <2>2, <4>1, <4>2
    <3> QED
      BY <3>2, <3>3
  <2> QED
    BY <1>5, <2>1, <2>3, <2>4 DEF BookTry
<1>6. ASSUME NEW c \in Customers, BookAgain(c), Watch PROVE SearchInv'
  <2> DEFINE k == customer[c]
             row == [k EXCEPT !.pc = "try", !.busy = Busy(k.slot)]
  <2>0. k \in CustomerRows /\ k.pc = "again" /\ CustomerBecomes(c, row) /\ UNCHANGED visit
    BY <1>6 DEF StaffedInv, StaffedTypeOK, BookAgain
  <2>1. /\ row.pc = "try" /\ row.consumed = k.consumed /\ row.slot = k.slot
        /\ row.eligible = k.eligible /\ row.busy = Busy(k.slot)
        /\ row.staffed = k.staffed /\ row.wants = k.wants
    BY <2>0 DEF CustomerRows
  <2> HIDE DEF row
  <2>2. customer'[c] = row
    BY <2>0, CustomerRow
  <2>3. /\ free'[c] \subseteq free[c]
        /\ \A q \in free'[c] : /\ person'[q] = "active"
                              /\ \A v \in LiveVisits' : visit'[v].slot = k.slot
                                    => visit'[v].with \notin {q, Anybody}
    BY <1>6, <2>0, <2>1, <2>2, WatchGoesOn
  <2>4. \A q \in free'[c] : FreeOf(Busy(k.slot), q)
    <3>1. free[c] \subseteq People
      BY DEF StaffedInv, StaffedTypeOK
    <3>2. LiveVisits' = LiveVisits
      BY <2>0 DEF LiveVisits
    <3> QED
      BY <2>0, <2>3, <3>1, <3>2, ShownFree
  <2>5. ASSUME Looking(c)' PROVE FreeAllAlong(c)'
    <3>1. Looking(c) /\ FreeAllAlong(c)
      BY <2>0, <2>1, <2>2, <2>5 DEF Looking, CustomerInFlight, SearchInv
    <3> QED
      BY <2>1, <2>2, <2>3, <2>4, <3>1 DEF FreeAllAlong, FreeOf, WithConflict
  <2> QED
    BY <1>2, <1>6, <2>0, <2>1, <2>5
<1> QED
  BY <1>1, <1>3, <1>4, <1>5, <1>6 DEF StaffedNext, CustomerSteps

\* Whoever asks for anybody and is turned away was so for a reason: at no moment
\* from the first look at the calendar to the last attempt was the same person
\* free all along, however inserts race and the staff changes.
THEOREM NobodyTurnedAwayInVain == StaffedSpec => []TurnedAwayWhenFull
<1>1. SearchInv => TurnedAwayWhenFull
  BY DEF SearchInv
<1> QED
  BY <1>1, StaffedAlways, SearchInit, SearchStep, PTL DEF StaffedSpec

-----------------------------------------------------------------------------
(* Merging people loses none of their bookings *)

\* Requests have not overlapped, nobody was deleted and no time was booked for
\* nobody in particular.
Orderly == {"overlap", "wild", "deleted"} \cap event = {}

OwnerInFlight(o) == owner[o].pc # "idle"

OneRequest ==
    /\ \A c, d \in Customers : CustomerInFlight(c) /\ CustomerInFlight(d) => c = d
    /\ \A o, q \in Owners : OwnerInFlight(o) /\ OwnerInFlight(q) => o = q
    /\ \A c \in Customers, o \in Owners : ~(CustomerInFlight(c) /\ OwnerInFlight(o))

\* Between moving the bookings of a duplicate and deleting it, it has none.
NothingLeft ==
    \A o \in Owners : owner[o].pc = "drop" => \A v \in LiveVisits : visit[v].with # Min(owner[o].todo)

\* A duplicate is never the one its bookings are moved to.
MergesIntoAnother ==
    \A o \in Owners : OwnerInFlight(o) => \A p \in owner[o].todo : FirstIn(owner[o].read, p) # p

WithThere == \A v \in LiveVisits : visit[v].with # Anybody /\ person[visit[v].with] # "gone"

MergeInv ==
    /\ MergesIntoAnother
    /\ Orderly => OneRequest /\ NothingLeft /\ WithThere

LEMMA MergeInit == StaffedInit => MergeInv
BY DEF StaffedInit, MergeInv, MergesIntoAnother, OneRequest, NothingLeft, WithThere, OwnerInFlight,
   CustomerInFlight, IdleCustomer, IdleOwner, LiveVisits, NoVisitRow

\* A request that begins while none is under way is the only one, and no merge
\* is under way beside it.
LEMMA Alone ==
    ASSUME NEW what, Overlapping(what), Orderly'
    PROVE  Orderly /\ Undisturbed /\ what \cap {"overlap", "wild", "deleted"} = {}
BY DEF Overlapping, Orderly

\* A new booking with somebody who is there, while nobody merges.
LEMMA InsertIsWithSomebody ==
    ASSUME StaffedInv, WithThere, NEW s \in Slots, NEW p \in People, person[p] # "gone",
           Insert(s, p), UNCHANGED person
    PROVE  WithThere'
<1> DEFINE row == [status |-> "live", slot |-> s, with |-> p, staff |-> p]
<1>1. PICK v \in Visits : visit' = [visit EXCEPT ![v] = row]
  BY DEF Insert
<1>2. visit'[v] = row /\ \A u \in Visits \ {v} : visit'[u] = visit[u]
  BY <1>1 DEF StaffedInv, StaffedTypeOK
<1>3. row.with = p
  OBVIOUS
<1> HIDE DEF row
<1> QED
  BY <1>2, <1>3, StaffedAssumption DEF WithThere, LiveVisits

LEMMA MergeCustomer ==
    ASSUME StaffedInv, MergeInv, NEW c \in Customers, CustomerSteps(c)
    PROVE  MergeInv'
<1>0. UNCHANGED <<owner, person>>
  BY DEF CustomerSteps, BookRead, BookTry, BookAgain
<1>1. MergesIntoAnother'
  BY <1>0 DEF MergeInv, MergesIntoAnother, OwnerInFlight
<1>2. \E row : CustomerBecomes(c, row)
  BY DEF CustomerSteps, BookRead, BookTry, BookAgain
<1>3. \A d \in Customers \ {c} : customer'[d] = customer[d]
  BY <1>2, CustomerRow
<1>4. ASSUME Orderly' PROVE Orderly /\ OneRequest'
  <2>1. ASSUME NEW s \in Slots, NEW p \in People \cup {Anybody}, BookRead(c, s, p)
        PROVE  Orderly /\ OneRequest'
    <3>1. Orderly /\ Undisturbed
      BY <1>4, <2>1 DEF BookRead, Orderly
    <3> QED
      BY <1>0, <1>3, <3>1 DEF Undisturbed, OneRequest, CustomerInFlight, OwnerInFlight
  <2>2. CASE BookTry(c) \/ BookAgain(c)
    <3>1. Orderly
      BY <1>4, <2>2 DEF BookTry, BookAgain, Unnoted, Wild, Orderly
    <3>2. CustomerInFlight(c)
      BY <2>2 DEF BookTry, BookAgain, CustomerInFlight
    <3> QED
      BY <1>0, <1>3, <3>1, <3>2 DEF MergeInv, OneRequest, CustomerInFlight, OwnerInFlight
  <2> QED
    BY <2>1, <2>2 DEF CustomerSteps
<1>5. ASSUME Orderly' PROVE NothingLeft' /\ WithThere'
  <2>1. Orderly /\ OneRequest /\ NothingLeft /\ WithThere
    BY <1>4, <1>5 DEF MergeInv
  <2>2. CASE UNCHANGED visit
    BY <1>0, <2>1, <2>2 DEF NothingLeft, WithThere, LiveVisits
  <2>3. CASE BookTry(c) /\ visit' # visit
    <3> DEFINE k == customer[c]
               p == Picked(k)
    <3>1. /\ Insert(k.slot, p) /\ Wild(p) /\ ~(p # Anybody /\ person[p] = "gone")
          /\ Pickable(k) # {} /\ k \in CustomerRows /\ CustomerInFlight(c)
      BY <2>3 DEF BookTry, StaffedInv, StaffedTypeOK, CustomerInFlight
    <3>2. p \in People \cup {Anybody} /\ k.slot \in Slots
      BY <3>1, PickedType DEF CustomerRows
    <3>3. p # Anybody
      BY <1>5, <3>1 DEF Wild, Orderly
    <3>4. WithThere'
      BY <1>0, <2>1, <3>1, <3>2, <3>3, InsertIsWithSomebody
    <3>5. NothingLeft'
      BY <1>0, <2>1, <3>1 DEF NothingLeft, OneRequest, OwnerInFlight
    <3> QED
      BY <3>4, <3>5
  <2>4. CASE ~BookTry(c)
    BY <2>2, <2>4 DEF CustomerSteps, BookRead, BookAgain
  <2> QED
    BY <2>2, <2>3, <2>4
<1> QED
  BY <1>1, <1>4, <1>5 DEF MergeInv

LEMMA MergeOwner ==
    ASSUME StaffedInv, MergeInv, NEW o \in Owners, OwnerSteps(o)
    PROVE  MergeInv'
<1> DEFINE me == owner[o]
<1>0. /\ person \in [People -> {"active", "off", "gone"}] /\ visit \in [Visits -> VisitRows]
      /\ owner \in [Owners -> OwnerRows] /\ UNCHANGED customer
  BY DEF StaffedInv, StaffedTypeOK, OwnerSteps, CreateBlock, UpsertResource, DeleteResource,
         CancelVisit, ListResources, MergeVisits, MergeDrop, OwnerStops
<1>1. ASSUME NEW row, OwnerBecomes(o, row)
      PROVE  owner'[o] = row /\ \A q \in Owners \ {o} : owner'[q] = owner[q]
  BY <1>0, <1>1 DEF OwnerBecomes
<1>2. IdleOwner.pc = "idle" /\ IdleOwner.todo = {}
  BY DEF IdleOwner
\* A step that leaves the owner's request idle, and those that go on with one.
<1>3. ASSUME OwnerBecomes(o, IdleOwner), Orderly' => (Orderly /\ (WithThere => WithThere')),
             \A q \in Owners : ~(Orderly /\ Orderly' /\ q # o /\ owner[q].pc = "drop"
                                  /\ \E v \in Visits : visit'[v] # visit[v])
      PROVE  MergeInv'
  <2>1. MergesIntoAnother'
    BY <1>1, <1>2, <1>3 DEF MergeInv, MergesIntoAnother, OwnerInFlight
  <2>2. ASSUME Orderly' PROVE OneRequest' /\ NothingLeft' /\ WithThere'
    <3>1. Orderly /\ OneRequest /\ NothingLeft /\ WithThere /\ WithThere'
      BY <1>3, <2>2 DEF MergeInv
    <3>2. OneRequest'
      BY <1>0, <1>1, <1>2, <1>3, <3>1 DEF OneRequest, CustomerInFlight, OwnerInFlight
    <3>3. NothingLeft'
      BY <1>1, <1>2, <1>3, <2>2, <3>1 DEF NothingLeft, LiveVisits
    <3> QED
      BY <3>1, <3>2, <3>3
  <2> QED
    BY <2>1, <2>2 DEF MergeInv
<1>4. ASSUME NEW what, OwnerCalls(o, IdleOwner), Overlapping(what), Orderly => (WithThere => WithThere')
             \/ ~Orderly'
      PROVE  MergeInv'
  <2>1. OwnerBecomes(o, IdleOwner)
    BY <1>4 DEF OwnerCalls
  <2>2. Orderly' => Orderly /\ Undisturbed
    BY <1>4, Alone
  <2> QED
    BY <1>3, <1>4, <2>1, <2>2 DEF Undisturbed
<1>5. ASSUME NEW s \in Slots, NEW p \in People \cup {Anybody}, CreateBlock(o, s, p)
      PROVE  MergeInv'
  <2>1. /\ Insert(s, p) /\ OwnerCalls(o, IdleOwner) /\ UNCHANGED person
        /\ Overlapping(IF p = Anybody THEN {"wild"} ELSE {})
        /\ p \in Active \cup {Anybody}
    BY <1>5 DEF CreateBlock
  <2>2. CASE p = Anybody
    <3>1. ~Orderly'
      BY <2>1, <2>2 DEF Overlapping, Orderly
    <3> QED
      BY <1>4, <2>1, <3>1
  <2>3. CASE p # Anybody
    <3>1. p \in People /\ person[p] # "gone"
      BY <2>1, <2>3 DEF Active
    <3>2. WithThere => WithThere'
      BY <2>1, <3>1, InsertIsWithSomebody
    <3> QED
      BY <1>4, <2>1, <3>2
  <2> QED
    BY <2>2, <2>3
<1>6. ASSUME NEW p \in People, NEW status \in {"active", "off"}, UpsertResource(o, p, status)
      PROVE  MergeInv'
  <2>1. WithThere => WithThere'
    BY <1>0, <1>6 DEF UpsertResource, WithThere, LiveVisits, VisitRows
  <2> QED
    BY <1>4, <1>6, <2>1 DEF UpsertResource
<1>7. ASSUME NEW p \in People, DeleteResource(o, p) PROVE MergeInv'
  <2>1. ~Orderly'
    BY <1>7 DEF DeleteResource, Overlapping, Orderly
  <2> QED
    BY <1>4, <1>7, <2>1 DEF DeleteResource
<1>8. ASSUME NEW v \in Visits, CancelVisit(o, v) PROVE MergeInv'
  <2>1. WithThere => WithThere'
    BY <1>0, <1>8 DEF CancelVisit, WithThere, LiveVisits, VisitRows
  <2> QED
    BY <1>4, <1>8, <2>1 DEF CancelVisit
<1>9. CASE ListResources(o)
  <2> DEFINE row == [pc |-> "merge", read |-> Listed, todo |-> Duplicates]
  <2>1. OwnerBecomes(o, row) /\ Overlapping({}) /\ UNCHANGED <<person, visit>>
    BY <1>9 DEF ListResources, OwnerCalls
  <2>2. owner'[o].pc = "merge" /\ owner'[o].todo = Duplicates
        /\ owner'[o].read = Listed /\ \A q \in Owners \ {o} : owner'[q] = owner[q]
    BY <1>1, <2>1
  <2>3. MergesIntoAnother'
    BY <2>2 DEF MergeInv, MergesIntoAnother, OwnerInFlight, FirstIn, Duplicates
  <2>4. ASSUME Orderly' PROVE OneRequest' /\ NothingLeft' /\ WithThere'
    <3>1. Orderly /\ Undisturbed
      BY <2>1, <2>4, Alone
    <3>2. OneRequest'
      BY <1>0, <2>2, <3>1 DEF Undisturbed, OneRequest, CustomerInFlight, OwnerInFlight
    <3>3. NothingLeft' /\ WithThere'
      BY <2>1, <2>2, <3>1 DEF MergeInv, NothingLeft, WithThere, LiveVisits
    <3> QED
      BY <3>2, <3>3
  <2> QED
    BY <2>3, <2>4 DEF MergeInv
<1>10. ASSUME OwnerInFlight(o), Orderly' => Orderly, NEW row, OwnerBecomes(o, row),
              row.pc # "idle" => row.todo \subseteq me.todo /\ row.read = me.read,
              Orderly /\ WithThere => WithThere',
              Orderly /\ WithThere /\ row.pc = "drop" => \A v \in LiveVisits' : visit'[v].with # Min(row.todo)
       PROVE  MergeInv'
  <2>1. owner'[o] = row /\ \A q \in Owners \ {o} : owner'[q] = owner[q]
    BY <1>1, <1>10
  <2>2. MergesIntoAnother'
    BY <1>10, <2>1 DEF MergeInv, MergesIntoAnother, OwnerInFlight, FirstIn
  <2>3. ASSUME Orderly' PROVE OneRequest' /\ NothingLeft' /\ WithThere'
    <3>1. Orderly /\ OneRequest /\ WithThere
      BY <1>10, <2>3 DEF MergeInv
    <3>2. OneRequest' /\ \A q \in Owners \ {o} : owner'[q].pc = "idle"
      BY <1>0, <1>10, <2>1, <3>1 DEF OneRequest, CustomerInFlight, OwnerInFlight
    <3>3. NothingLeft'
      BY <1>10, <2>1, <3>1, <3>2 DEF NothingLeft
    <3> QED
      BY <1>10, <3>1, <3>2, <3>3
  <2> QED
    BY <2>2, <2>3 DEF MergeInv
<1>11. ASSUME OwnerInFlight(o) PROVE Min(me.todo) \in me.todo /\ Min(me.todo) \in People
  <2>1. me.todo \subseteq People /\ me.todo # {} /\ me.todo \in SUBSET Nat
    BY <1>0, <1>11, StaffedAssumption DEF OwnerInFlight, StaffedInv, OwnerRows, Merging
  <2> QED
    BY <2>1, MinLeast
<1>12. CASE MergeVisits(o)
  <2> DEFINE p == Min(me.todo)
             q == FirstIn(me.read, p)
             row == [me EXCEPT !.pc = "drop"]
             M == MergedVisits(p)
  <2>1. OwnerInFlight(o) /\ UNCHANGED <<person, event>> /\ (Orderly' <=> Orderly) /\ me \in OwnerRows
    BY <1>0, <1>12 DEF MergeVisits, Unnoted, Orderly, OwnerInFlight
  <2>2. p \in People /\ q # p
    BY <1>11, <2>1 DEF MergeInv, MergesIntoAnother
  <2>3. CASE UNCHANGED visit /\ OwnerBecomes(o, IdleOwner)
    BY <1>2, <1>10, <2>1, <2>3 DEF WithThere, LiveVisits
  <2>4. CASE ~(M # {} /\ (MergeRefused(p, q) \/ person[q] = "gone"))
    <3>1. visit' = [v \in Visits |-> IF v \in M THEN Moved(v, p, q) ELSE visit[v]]
          /\ OwnerBecomes(o, row)
      BY <1>12, <2>4 DEF MergeVisits, MergeInto
    <3>2. row.pc = "drop" /\ row.todo = me.todo /\ row.read = me.read
      BY <2>1 DEF OwnerRows
    <3>3. \A v \in Visits : /\ visit'[v].status = visit[v].status
                            /\ visit'[v].with = IF v \in M THEN q ELSE visit[v].with
      BY <1>0, <3>1 DEF VisitRows, Moved
    <3>4. \A v \in Visits : visit'[v].with # p
      BY <2>2, <3>3 DEF MergedVisits
    <3>5. q # Anybody
      <4>1. p \in me.read
        BY <1>0, <1>11, <2>1 DEF StaffedInv, OwnerInFlight, Merging
      <4> QED
        BY <2>2, <4>1, FirstIsThere, StaffedAssumption
    <3> HIDE DEF row, q, M
    <3>6. WithThere => WithThere'
      BY <2>1, <2>4, <3>3, <3>5 DEF WithThere, LiveVisits
    <3> QED
      BY <1>10, <2>1, <3>1, <3>2, <3>4, <3>6 DEF LiveVisits
  <2> QED
    BY <1>12, <2>3, <2>4 DEF MergeVisits
<1>13. CASE MergeDrop(o)
  <2> DEFINE p == Min(me.todo)
             rest == me.todo \ {p}
             row == IF rest = {} THEN IdleOwner ELSE [me EXCEPT !.pc = "merge", !.todo = rest]
  <2>1. OwnerInFlight(o) /\ UNCHANGED event /\ (Orderly' <=> Orderly) /\ me.pc = "drop"
    BY <1>13 DEF MergeDrop, Unnoted, Orderly, OwnerInFlight
  <2>2. p \in People
    BY <1>11, <2>1
  <2>3. CASE UNCHANGED <<person, visit>> /\ OwnerBecomes(o, IdleOwner)
    BY <1>2, <1>10, <2>1, <2>3 DEF WithThere, LiveVisits
  <2>4. CASE Deleted(p) /\ OwnerBecomes(o, row)
    <3>1. /\ row.pc \in {"idle", "merge"}
          /\ row.pc # "idle" => row.todo \subseteq me.todo /\ row.read = me.read
      BY <1>0, <1>2, <2>1 DEF OwnerInFlight, OwnerRows
    <3>2. Orderly => \A v \in LiveVisits : visit[v].with # p
      BY <2>1 DEF MergeInv, NothingLeft
    <3>3. \A v \in Visits : /\ visit'[v].status = visit[v].status
                            /\ visit[v].with # p => visit'[v] = visit[v]
      BY <1>0, <2>4 DEF Deleted, VisitsWith, VisitRows
    <3>4. \A r \in People \ {p} : person'[r] = person[r]
      BY <1>0, <2>4 DEF Deleted
    <3> HIDE DEF p, row
    <3>5. Orderly /\ WithThere => WithThere'
      BY <1>0, <3>2, <3>3, <3>4 DEF WithThere, LiveVisits, VisitRows
    <3> QED
      BY <1>10, <2>1, <2>4, <3>1, <3>5
  <2> QED
    BY <1>13, <2>3, <2>4 DEF MergeDrop
<1>14. CASE OwnerStops(o)
  <2>1. OwnerInFlight(o) /\ UNCHANGED <<person, visit>> /\ OwnerBecomes(o, IdleOwner)
        /\ (Orderly' => Orderly)
    BY <1>14 DEF OwnerStops, OwnerInFlight, Orderly
  <2> QED
    BY <1>2, <1>10, <2>1 DEF WithThere, LiveVisits
<1> QED
  BY <1>5, <1>6, <1>7, <1>8, <1>9, <1>12, <1>13, <1>14 DEF OwnerSteps

LEMMA MergeStep == StaffedInv /\ MergeInv /\ [StaffedNext]_staffedVars => MergeInv'
<1> SUFFICES ASSUME StaffedInv, MergeInv, [StaffedNext]_staffedVars PROVE MergeInv'
  OBVIOUS
<1>1. CASE UNCHANGED staffedVars
  BY <1>1 DEF staffedVars, MergeInv, MergesIntoAnother, Orderly, OneRequest, NothingLeft, WithThere,
              LiveVisits, CustomerInFlight, OwnerInFlight, FirstIn
<1> QED
  BY <1>1, MergeCustomer, MergeOwner DEF StaffedNext

\* As long as requests do not overlap and the owner deletes nobody, merging
\* people with one name leaves every live booking with somebody who is there,
\* wherever the merge stops and however often it is taken up again.
THEOREM MergingLosesNoBooking == StaffedSpec => []PersonKept
<1>1. MergeInv => PersonKept
  BY DEF MergeInv, PersonKept, Orderly, WithThere
<1> QED
  BY <1>1, StaffedAlways, MergeInit, MergeStep, PTL DEF StaffedSpec

-----------------------------------------------------------------------------
(* Waitlist *)

-----------------------------------------------------------------------------
(* The invariant *)

\* The row a release has told and not yet marked.
Telling(w) == \E r \in Releases : ReleaseAt(r, "mark") /\ w = Min(release[r].todo)

\* Rows are written in their order, and a release has somebody to tell.
Ordered ==
    /\ \A w, u \in Waiters : u < w /\ waiting[w] # "none" => waiting[u] # "none"
    /\ \A r \in Releases : release[r].pc \in {"tell", "mark"} =>
          release[r].todo # {} /\ \A w \in release[r].todo : waiting[w] # "none"

\* Nobody is off the list untold, or about to be.
ToldFirst ==
    /\ \A w \in Waiters : waiting[w] = "notified" => told[w] > 0
    /\ \A r \in Releases : ReleaseAt(r, "mark") => told[Min(release[r].todo)] > 0

\* One release at a time: who is told is off the list, or about to be; whom the
\* release is to tell is on it, with nobody older waiting outside its page.
OneRelease ==
    /\ \A r, q \in Releases : ~ReleaseAt(r, "idle") /\ ~ReleaseAt(q, "idle") => r = q
    /\ \A w \in Waiters : told[w] = IF waiting[w] = "notified" \/ Telling(w) THEN 1 ELSE 0
    /\ \A w, u \in Waiters : u < w /\ waiting[w] = "notified" => waiting[u] = "notified"
    /\ \A r \in Releases : release[r].pc \in {"tell", "mark"} =>
          \A w \in release[r].todo : /\ waiting[w] = "open"
                                     /\ \A u \in Waiters \ release[r].todo :
                                           u < w => waiting[u] = "notified"

WaitlistInv ==
    /\ WaitlistTypeOK
    /\ Ordered
    /\ ToldFirst
    /\ ~tangled => OneRelease

-----------------------------------------------------------------------------

LEMMA WaitlistInvInit == WaitlistInit => WaitlistInv
<1> SUFFICES ASSUME WaitlistInit PROVE WaitlistInv
  OBVIOUS
<1>1. WaitlistTypeOK
  <2>1. 0 \in 0..MaxReleases
    BY WaitlistAssumption
  <2>2. IdleRelease \in [pc : {"idle", "read", "tell", "mark"}, todo : SUBSET Waiters]
    BY DEF IdleRelease
  <2> QED
    BY <2>1, <2>2 DEF WaitlistInit, WaitlistTypeOK
<1>2. /\ \A r \in Releases : release[r].pc = "idle"
      /\ \A w \in Waiters : waiting[w] = "none" /\ told[w] = 0
  BY DEF WaitlistInit, IdleRelease
<1>3. Ordered /\ ToldFirst
  BY <1>2 DEF Ordered, ToldFirst, ReleaseAt
<1>4. \A w \in Waiters : ~Telling(w)
  BY <1>2 DEF Telling, ReleaseAt
<1>5. OneRelease
  BY <1>2, <1>4 DEF OneRelease, ReleaseAt
<1> QED
  BY <1>1, <1>3, <1>5 DEF WaitlistInv

\* What the invariant implies.
LEMMA InvToldOnce == WaitlistInv => ToldOnce
<1> SUFFICES ASSUME WaitlistInv PROVE ToldOnce
  OBVIOUS
<1>1. told \in [Waiters -> Nat] /\ release \in [Releases -> [pc : {"idle", "read", "tell", "mark"}, todo : SUBSET Waiters]]
  BY DEF WaitlistInv, WaitlistTypeOK
<1>2. ASSUME ~tangled, NEW w \in Waiters PROVE told[w] <= 1
  BY <1>2 DEF WaitlistInv, OneRelease
<1>3. ASSUME ~tangled, NEW w \in Waiters, NEW u \in Waiters, u < w PROVE told[w] <= told[u]
  <2>1. OneRelease /\ Ordered
    BY <1>3 DEF WaitlistInv
  <2>2. CASE waiting[w] = "notified"
    BY <1>3, <2>1, <2>2 DEF OneRelease
  <2>3. CASE waiting[w] # "notified" /\ Telling(w)
    <3>1. PICK r \in Releases : ReleaseAt(r, "mark") /\ w = Min(release[r].todo)
      BY <2>3 DEF Telling
    <3> DEFINE S == release[r].todo
    <3>2. S \in SUBSET Nat /\ S # {}
      BY <1>1, <2>1, <3>1, WaitlistAssumption DEF Ordered, ReleaseAt
    <3>3. w \in S /\ \A m \in S : w <= m
      BY <3>1, <3>2, MinLeast
    <3>4. u \notin S
      BY <1>3, <3>3, WaitlistAssumption
    <3>5. waiting[u] = "notified"
      BY <1>3, <2>1, <3>1, <3>3, <3>4 DEF OneRelease, ReleaseAt
    <3> QED
      BY <1>3, <2>1, <2>3, <3>5 DEF OneRelease
  <2>4. CASE waiting[w] # "notified" /\ ~Telling(w)
    <3>1. told[w] = 0 /\ told[u] \in Nat
      BY <1>1, <2>1, <2>4 DEF OneRelease
    <3> QED
      BY <3>1
  <2> QED
    BY <2>2, <2>3, <2>4
<1> QED
  BY <1>2, <1>3 DEF ToldOnce, WaitlistInv, ToldFirst

-----------------------------------------------------------------------------
(* The steps *)

\* The rows of a page are rows of the list, and no older one is left out.
LEMMA Page20 ==
    ASSUME WaitlistInv
    PROVE  /\ Next20 \subseteq Open /\ Open \subseteq Waiters
           /\ \A w \in Next20, u \in Open : u < w => u \in Next20
<1>1. Next20 \subseteq Open /\ Open \subseteq Waiters
  BY DEF Next20, Open
<1>2. ASSUME NEW w \in Next20, NEW u \in Open, u < w PROVE u \in Next20
  <2> DEFINE Before(x) == {v \in Open : v < x}
  <2>1. w \in Nat /\ u \in Nat /\ Open \subseteq Nat
    BY <1>1, WaitlistAssumption
  <2>2. Before(u) \subseteq Before(w) /\ Before(w) \subseteq Waiters
    <3>1. ASSUME NEW v \in Open, v < u PROVE v < w
      BY <1>2, <2>1, <3>1
    <3> QED
      BY <1>1, <3>1
  <2>3. IsFiniteSet(Before(w))
    BY <2>2, WaitlistAssumption, FS_Subset
  <2>4. IsFiniteSet(Before(u)) /\ Cardinality(Before(u)) <= Cardinality(Before(w))
    BY <2>2, <2>3, FS_Subset
  <2>5. Cardinality(Before(u)) \in Nat /\ Cardinality(Before(w)) \in Nat
    BY <2>3, <2>4, FS_CardinalityType
  <2>6. Cardinality(Before(w)) < Page
    BY DEF Next20
  <2>7. Cardinality(Before(u)) < Page
    BY <2>4, <2>5, <2>6, WaitlistAssumption
  <2> QED
    BY <2>7 DEF Next20
<1> QED
  BY <1>1, <1>2

LEMMA JoinKeeps ==
    ASSUME WaitlistInv, NEW x \in Waiters, WaitlistJoin(x)
    PROVE  WaitlistInv'
<1> USE WaitlistAssumption DEF WaitlistInv, WaitlistTypeOK
<1>1. /\ waiting[x] = "none" /\ \A u \in Waiters : u < x => waiting[u] # "none"
      /\ waiting' = [waiting EXCEPT ![x] = "open"]
      /\ UNCHANGED <<release, told, released, tangled>>
  BY DEF WaitlistJoin
<1>2. WaitlistTypeOK'
  BY <1>1
<1>3. waiting'[x] = "open" /\ \A w \in Waiters \ {x} : waiting'[w] = waiting[w]
  BY <1>1
<1>4. Ordered'
  BY <1>1, <1>3 DEF Ordered
<1>5. ToldFirst'
  BY <1>1, <1>3 DEF ToldFirst, ReleaseAt
<1>6. ASSUME ~tangled PROVE OneRelease'
  <2>1. OneRelease /\ Ordered
    BY <1>6
  <2>2. \A w \in Waiters : Telling(w)' <=> Telling(w)
    BY <1>1 DEF Telling, ReleaseAt
  <2>3. \A w \in Waiters : (waiting'[w] = "notified") <=> (waiting[w] = "notified")
    BY <1>1, <1>3
  <2>4. \A r \in Releases : release[r].pc \in {"tell", "mark"} => x \notin release[r].todo
    BY <1>1, <2>1 DEF OneRelease
  <2>5. \A r \in Releases : release[r].pc \in {"tell", "mark"} =>
          \A w \in release[r].todo : waiting'[w] = "open"
    BY <1>3, <2>1, <2>4 DEF OneRelease
  <2> QED
    BY <1>1, <2>1, <2>2, <2>3, <2>5 DEF OneRelease, ReleaseAt
<1> QED
  BY <1>1, <1>2, <1>4, <1>5, <1>6

\* A step of one release to a row that holds what it may hold.
LEMMA Becomes ==
    ASSUME WaitlistInv, NEW r \in Releases, NEW row, ReleaseBecomes(r, row)
    PROVE  release'[r] = row /\ \A q \in Releases \ {r} : release'[q] = release[q]
BY DEF ReleaseBecomes, WaitlistInv, WaitlistTypeOK

\* A release that begins, or looks at the list.
LEMMA BeginKeeps ==
    ASSUME WaitlistInv, NEW r \in Releases, Release(r)
    PROVE  WaitlistInv'
<1> USE WaitlistAssumption DEF WaitlistInv, WaitlistTypeOK
<1> DEFINE row == [pc |-> "read", todo |-> {}]
<1>1. /\ release[r].pc = "idle" /\ ReleaseBecomes(r, row) /\ UNCHANGED <<waiting, told>>
      /\ tangled' = (tangled \/ \E q \in Releases : ~ReleaseAt(q, "idle"))
      /\ released < MaxReleases /\ released' = released + 1
  BY DEF Release, ReleaseAt
<1>2. release'[r] = row /\ \A q \in Releases \ {r} : release'[q] = release[q]
  BY <1>1, Becomes
<1>3. WaitlistTypeOK'
  BY <1>1 DEF ReleaseBecomes
<1>4. Ordered' /\ ToldFirst'
  <2>1. Ordered /\ ToldFirst /\ UNCHANGED <<waiting, told>>
    BY <1>1
  <2>2. \A q \in Releases : release'[q].pc \in {"tell", "mark"} => release'[q] = release[q]
    BY <1>2
  <2> QED
    BY <2>1, <2>2 DEF Ordered, ToldFirst, ReleaseAt
<1>5. ASSUME ~tangled' PROVE OneRelease'
  <2>1. OneRelease /\ \A q \in Releases : release[q].pc = "idle"
    BY <1>1, <1>5 DEF ReleaseAt
  <2>2. \A q \in Releases : release'[q].pc \in {"idle", "read"} /\ (release'[q].pc # "idle" => q = r)
    BY <1>2, <2>1
  <2>3. \A w \in Waiters : ~Telling(w) /\ ~Telling(w)'
    BY <2>1, <2>2 DEF Telling, ReleaseAt
  <2> QED
    BY <1>1, <2>1, <2>2, <2>3 DEF OneRelease, ReleaseAt
<1> QED
  BY <1>3, <1>4, <1>5

LEMMA ReadKeeps ==
    ASSUME WaitlistInv, NEW r \in Releases, ReadOpen(r)
    PROVE  WaitlistInv'
<1> USE WaitlistAssumption DEF WaitlistInv, WaitlistTypeOK
<1> DEFINE row == IF Next20 = {} THEN IdleRelease ELSE [pc |-> "tell", todo |-> Next20]
<1>1. release[r].pc = "read" /\ ReleaseBecomes(r, row)
      /\ UNCHANGED <<waiting, told, released, tangled>>
  BY DEF ReadOpen, ReleaseAt
<1>2. release'[r] = row /\ \A q \in Releases \ {r} : release'[q] = release[q]
  BY <1>1, Becomes
<1>3. row \in [pc : {"idle", "read", "tell", "mark"}, todo : SUBSET Waiters]
  BY Page20 DEF IdleRelease
<1>4. /\ row.pc \in {"idle", "tell"}
      /\ row.pc = "tell" => row.todo = Next20 /\ Next20 # {}
  BY DEF IdleRelease
<1> HIDE DEF row
<1>5. WaitlistTypeOK'
  BY <1>1, <1>3 DEF ReleaseBecomes
<1>6. Ordered' /\ ToldFirst'
  <2>1. Ordered /\ ToldFirst /\ UNCHANGED <<waiting, told>>
    BY <1>1
  <2>2. \A q \in Releases : release'[q].pc \in {"tell", "mark"} =>
          \/ release'[q] = release[q]
          \/ release'[q].pc = "tell" /\ release'[q].todo = Next20 /\ Next20 # {}
    BY <1>2, <1>4
  <2>3. \A w \in Next20 : waiting[w] # "none"
    BY Page20 DEF Open
  <2>4. Ordered'
    BY <2>1, <2>2, <2>3 DEF Ordered
  <2>5. ToldFirst'
    BY <2>1, <2>2 DEF ToldFirst, ReleaseAt
  <2> QED
    BY <2>4, <2>5
<1>7. ASSUME ~tangled PROVE OneRelease'
  <2>1. OneRelease /\ Ordered
    BY <1>7
  <2>2. \A q \in Releases \ {r} : release[q].pc = "idle" /\ release'[q].pc = "idle"
    BY <1>1, <1>2, <2>1 DEF OneRelease, ReleaseAt
  <2>3. \A w \in Waiters : ~Telling(w) /\ ~Telling(w)'
    BY <1>1, <1>2, <1>4, <2>2 DEF Telling, ReleaseAt
  <2>4. ASSUME NEW w \in Next20, NEW u \in Waiters \ Next20, u < w PROVE waiting[u] = "notified"
    <3>1. w \in Waiters /\ waiting[w] = "open"
      BY Page20 DEF Open
    <3>2. waiting[u] # "none"
      BY <2>1, <2>4, <3>1 DEF Ordered
    <3>3. waiting[u] # "open"
      BY <2>4, Page20 DEF Open
    <3> QED
      BY <3>2, <3>3
  <2>5. \A w \in Next20 : waiting[w] = "open"
    BY Page20 DEF Open
  <2>6. \A q \in Releases : release'[q].pc \in {"tell", "mark"} => q = r /\ release'[q].todo = Next20
    BY <1>2, <1>4, <2>2
  <2>7. \A q \in Releases : release'[q].pc \in {"tell", "mark"} =>
          \A w \in release'[q].todo : /\ waiting'[w] = "open"
                                      /\ \A u \in Waiters \ release'[q].todo :
                                            u < w => waiting'[u] = "notified"
    BY <1>1, <2>4, <2>5, <2>6
  <2>8. \A p, q \in Releases : release'[p].pc # "idle" /\ release'[q].pc # "idle" => p = q
    BY <2>2
  <2> QED
    BY <1>1, <2>1, <2>3, <2>7, <2>8 DEF OneRelease, ReleaseAt
<1> QED
  BY <1>1, <1>5, <1>6, <1>7

LEMMA TellKeeps ==
    ASSUME WaitlistInv, NEW r \in Releases, Tell(r)
    PROVE  WaitlistInv'
<1> USE WaitlistAssumption DEF WaitlistInv, WaitlistTypeOK
<1> DEFINE S == release[r].todo
           x == Min(S)
           row == [release[r] EXCEPT !.pc = "mark"]
<1>1. /\ release[r].pc = "tell" /\ ReleaseBecomes(r, row)
      /\ told' = [told EXCEPT ![x] = @ + 1] /\ UNCHANGED <<waiting, released, tangled>>
  BY DEF Tell, ReleaseAt
<1>2. release'[r] = row /\ \A q \in Releases \ {r} : release'[q] = release[q]
  BY <1>1, Becomes
<1>3. row \in [pc : {"idle", "read", "tell", "mark"}, todo : SUBSET Waiters]
      /\ row.pc = "mark" /\ row.todo = S
  OBVIOUS
<1>4. S \in SUBSET Nat /\ S # {} /\ S \subseteq Waiters
  BY <1>1 DEF Ordered
<1>5. x \in S /\ \A m \in S : x <= m
  BY <1>4, MinLeast
<1> HIDE DEF row, x, S
<1>6. /\ told' \in [Waiters -> Nat] /\ told'[x] = told[x] + 1
      /\ \A w \in Waiters \ {x} : told'[w] = told[w]
  BY <1>1, <1>4, <1>5
<1>7. WaitlistTypeOK'
  BY <1>1, <1>3, <1>6 DEF ReleaseBecomes
<1>8. Ordered'
  <2>1. Ordered /\ UNCHANGED waiting
    BY <1>1
  <2>2. S # {} /\ \A w \in S : waiting[w] # "none"
    BY <1>1, <2>1 DEF Ordered, S
  <2>3. \A q \in Releases : release'[q] = release[q] \/ release'[q].todo = S
    BY <1>2, <1>3
  <2> QED
    BY <2>1, <2>2, <2>3 DEF Ordered
<1>9. Min(release'[r].todo) = x
  BY <1>2, <1>3 DEF x
<1>10. ToldFirst'
  <2>1. \A w \in Waiters : told'[w] >= told[w]
    BY <1>4, <1>5, <1>6
  <2>2. ASSUME NEW w \in Waiters, waiting'[w] = "notified" PROVE told'[w] > 0
    <3>1. told[w] \in Nat /\ told'[w] \in Nat /\ told'[w] >= told[w] /\ told[w] > 0
      BY <1>1, <1>6, <2>1, <2>2 DEF ToldFirst
    <3> QED
      BY <3>1
  <2>3. ASSUME NEW q \in Releases, release'[q].pc = "mark" PROVE told'[Min(release'[q].todo)] > 0
    <3>1. CASE q = r
      BY <1>4, <1>5, <1>6, <1>9, <3>1
    <3>2. CASE q # r
      <4>1. release[q].pc = "mark" /\ release'[q].todo = release[q].todo
        BY <1>2, <2>3, <3>2
      <4>2. release[q].todo \in SUBSET Nat /\ release[q].todo # {} /\ release[q].todo \subseteq Waiters
        BY <4>1 DEF Ordered
      <4>3. Min(release[q].todo) \in Waiters
        BY <4>2, MinLeast
      <4>4. told[Min(release[q].todo)] > 0
        BY <4>1 DEF ToldFirst, ReleaseAt
      <4> DEFINE m == Min(release[q].todo)
      <4>5. told[m] \in Nat /\ told'[m] \in Nat /\ told'[m] >= told[m] /\ told[m] > 0
        BY <1>6, <2>1, <4>3, <4>4
      <4>6. told'[m] > 0
        BY <4>5
      <4> QED
        BY <4>1, <4>6
    <3> QED
      BY <3>1, <3>2
  <2> QED
    BY <2>2, <2>3 DEF ToldFirst, ReleaseAt
<1>11. ASSUME ~tangled PROVE OneRelease'
  <2>1. OneRelease
    BY <1>11
  <2>2. \A q \in Releases \ {r} : release[q].pc = "idle" /\ release'[q].pc = "idle"
    BY <1>1, <1>2, <2>1 DEF OneRelease, ReleaseAt
  <2>3. \A w \in Waiters : ~Telling(w)
    BY <1>1, <2>2 DEF Telling, ReleaseAt
  <2>4. \A w \in Waiters : Telling(w)' <=> w = x
    BY <1>2, <1>3, <1>9, <2>2 DEF Telling, ReleaseAt
  <2>5. waiting[x] = "open"
    BY <1>1, <1>5, <2>1 DEF OneRelease, S
  <2>6. \A w \in Waiters : told'[w] = IF waiting'[w] = "notified" \/ Telling(w)' THEN 1 ELSE 0
    BY <1>1, <1>6, <2>1, <2>3, <2>4, <2>5, <1>4, <1>5 DEF OneRelease
  <2>7. \A q \in Releases : release'[q].pc \in {"tell", "mark"} =>
          \A w \in release'[q].todo : /\ waiting'[w] = "open"
                                      /\ \A u \in Waiters \ release'[q].todo :
                                            u < w => waiting'[u] = "notified"
    <3>1. \A q \in Releases : release'[q].pc \in {"tell", "mark"} => q = r /\ release'[q].todo = S
      BY <1>2, <1>3, <2>2
    <3>2. \A w \in S : /\ waiting[w] = "open"
                       /\ \A u \in Waiters \ S : u < w => waiting[u] = "notified"
      BY <1>1, <2>1 DEF OneRelease, S
    <3> QED
      BY <1>1, <3>1, <3>2
  <2>8. \A p, q \in Releases : release'[p].pc # "idle" /\ release'[q].pc # "idle" => p = q
    BY <2>2
  <2> QED
    BY <1>1, <2>1, <2>6, <2>7, <2>8 DEF OneRelease, ReleaseAt
<1> QED
  BY <1>1, <1>7, <1>8, <1>10, <1>11

LEMMA MarkKeeps ==
    ASSUME WaitlistInv, NEW r \in Releases, Mark(r)
    PROVE  WaitlistInv'
<1> USE WaitlistAssumption DEF WaitlistInv, WaitlistTypeOK
<1> DEFINE S == release[r].todo
           x == Min(S)
           row == IF S = {x} THEN IdleRelease ELSE [pc |-> "tell", todo |-> S \ {x}]
<1>1. /\ release[r].pc = "mark" /\ ReleaseBecomes(r, row)
      /\ waiting' = [u \in Waiters |-> IF u = x THEN "notified" ELSE waiting[u]]
      /\ UNCHANGED <<told, released, tangled>>
  BY DEF Mark, ReleaseAt, Marked
<1>2. release'[r] = row /\ \A q \in Releases \ {r} : release'[q] = release[q]
  BY <1>1, Becomes
<1>3. S \in SUBSET Nat /\ S # {} /\ S \subseteq Waiters
  BY <1>1 DEF Ordered
<1>4. x \in S /\ \A m \in S : x <= m
  BY <1>3, MinLeast
<1>5. told[x] > 0
  BY <1>1 DEF ToldFirst, ReleaseAt
<1>6. /\ row \in [pc : {"idle", "read", "tell", "mark"}, todo : SUBSET Waiters]
      /\ row.pc \in {"idle", "tell"}
      /\ row.pc = "tell" => row.todo = S \ {x} /\ S \ {x} # {}
  BY <1>3, <1>4 DEF IdleRelease
<1> HIDE DEF row
<1>7. WaitlistTypeOK'
  BY <1>1, <1>6 DEF ReleaseBecomes
<1> HIDE DEF x, S
<1>8. waiting'[x] = "notified" /\ \A w \in Waiters \ {x} : waiting'[w] = waiting[w]
  BY <1>1, <1>3, <1>4
<1>9. Ordered'
  <2>1. waiting[x] # "none"
    BY <1>1, <1>4 DEF Ordered, S
  <2>2. \A w \in Waiters : (waiting'[w] # "none") <=> (waiting[w] # "none")
    BY <1>3, <1>4, <1>8, <2>1
  <2> QED
    BY <1>1, <1>2, <1>3, <1>6, <2>2 DEF Ordered, S
<1>10. ToldFirst'
  BY <1>1, <1>2, <1>5, <1>6, <1>8 DEF ToldFirst, ReleaseAt
<1>11. ASSUME ~tangled PROVE OneRelease'
  <2>1. OneRelease
    BY <1>11
  <2>2. \A q \in Releases \ {r} : release[q].pc = "idle" /\ release'[q].pc = "idle"
    BY <1>1, <1>2, <2>1 DEF OneRelease, ReleaseAt
  <2>3. \A w \in Waiters : Telling(w) <=> w = x
    BY <1>1, <2>2 DEF Telling, ReleaseAt, x, S
  <2>4. \A w \in Waiters : ~Telling(w)'
    BY <1>2, <1>6, <2>2 DEF Telling, ReleaseAt
  <2>5. \A w \in S : /\ waiting[w] = "open"
                     /\ \A u \in Waiters \ S : u < w => waiting[u] = "notified"
    BY <1>1, <2>1 DEF OneRelease, S
  <2>6. \A u \in Waiters : u < x => waiting[u] = "notified"
    BY <1>3, <1>4, <2>5
  <2>7. \A w \in Waiters : told'[w] = IF waiting'[w] = "notified" \/ Telling(w)' THEN 1 ELSE 0
    BY <1>1, <1>8, <2>1, <2>3, <2>4 DEF OneRelease
  <2>8. \A w, u \in Waiters : u < w /\ waiting'[w] = "notified" => waiting'[u] = "notified"
    BY <1>3, <1>4, <1>8, <2>1, <2>6 DEF OneRelease
  <2>9. \A q \in Releases : release'[q].pc \in {"tell", "mark"} =>
          \A w \in release'[q].todo : /\ waiting'[w] = "open"
                                      /\ \A u \in Waiters \ release'[q].todo :
                                            u < w => waiting'[u] = "notified"
    <3>1. \A q \in Releases : release'[q].pc \in {"tell", "mark"} => q = r /\ release'[q].todo = S \ {x}
      BY <1>2, <1>6, <2>2
    <3>2. \A w \in S \ {x} : /\ waiting'[w] = "open"
                             /\ \A u \in Waiters \ (S \ {x}) : u < w => waiting'[u] = "notified"
      BY <1>3, <1>8, <2>5
    <3> QED
      BY <3>1, <3>2
  <2>10. \A p, q \in Releases : release'[p].pc # "idle" /\ release'[q].pc # "idle" => p = q
    BY <2>2
  <2> QED
    BY <2>7, <2>8, <2>9, <2>10 DEF OneRelease, ReleaseAt
<1> QED
  BY <1>1, <1>7, <1>9, <1>10, <1>11

LEMMA StopKeeps ==
    ASSUME WaitlistInv, NEW r \in Releases, ReleaseStops(r)
    PROVE  WaitlistInv'
<1> USE DEF WaitlistInv, WaitlistTypeOK
<1>1. ReleaseBecomes(r, IdleRelease) /\ tangled' = TRUE /\ UNCHANGED <<waiting, told, released>>
  BY DEF ReleaseStops
<1>2. release'[r] = IdleRelease /\ \A q \in Releases \ {r} : release'[q] = release[q]
  BY <1>1, Becomes
<1>3. WaitlistTypeOK'
  BY <1>1 DEF ReleaseBecomes, IdleRelease
<1>4. Ordered' /\ ToldFirst'
  BY <1>1, <1>2 DEF Ordered, ToldFirst, ReleaseAt, IdleRelease
<1> QED
  BY <1>1, <1>3, <1>4

-----------------------------------------------------------------------------
(* The theorems *)

LEMMA WaitlistInvStep == WaitlistInv /\ [WaitlistNext]_waitlistVars => WaitlistInv'
<1>1. ASSUME WaitlistInv, WaitlistNext PROVE WaitlistInv'
  BY <1>1, JoinKeeps, BeginKeeps, ReadKeeps, TellKeeps, MarkKeeps, StopKeeps DEF WaitlistNext
<1>2. ASSUME WaitlistInv, UNCHANGED waitlistVars PROVE WaitlistInv'
  BY <1>2 DEF waitlistVars, WaitlistInv, WaitlistTypeOK, Ordered, ToldFirst, OneRelease,
              Telling, ReleaseAt
<1> QED
  BY <1>1, <1>2

LEMMA WaitlistAlways == WaitlistSpec => []WaitlistInv
BY WaitlistInvInit, WaitlistInvStep, PTL DEF WaitlistSpec

\* The list and the releases hold what their columns may hold.
THEOREM WaitlistTypes == WaitlistSpec => []WaitlistTypeOK
<1>1. WaitlistInv => WaitlistTypeOK
  BY DEF WaitlistInv
<1> QED
  BY <1>1, WaitlistAlways, PTL

\* Whoever is off the list has been told, and releases that neither overlap nor
\* stop tell nobody twice and nobody before an older row.
THEOREM NobodyToldTwice == WaitlistSpec => []ToldOnce
BY InvToldOnce, WaitlistAlways, PTL

-----------------------------------------------------------------------------
(* ReferralClub *)

ClubTypeOK ==
    /\ referral \in [Referrals -> ReferralRows]
    /\ reward \in [Milestones -> {"none", "active", "used"}]
    /\ outbox \in [Messages -> Nat]
    /\ sync \in [Syncs -> SyncRows]
    /\ byHand \in SUBSET Milestones

\* A synchronisation that queues a message has one, and one that looks at a
\* prize has one to look at and no message left.
SyncShape(k) ==
    /\ k.pc \in {"idle", "attach", "read", "prize", "award"} => k.todo = <<>>
    /\ k.pc \in {"look", "queue"} => k.todo # <<>>
    /\ k.pc \in {"prize", "award"} => k.prizes # {}
    /\ k.pc \in {"write", "count"} => k.prizes = Milestones
    /\ k.pc \in {"idle", "attach", "read"} => k.prizes = {}
    /\ k.pc \in {"attach", "read", "write"} => k.of \in Referrals

\* The prize suits the count.
Suits(m) ==
    /\ reward[m] = "active" => Successes >= m
    /\ Successes >= m => reward[m] # "none"

\* One synchronisation after another, none of them stopped: a prize that is not
\* still to be looked at suits the count, which nobody changes meanwhile.
CountsAlone ==
    ragged = {} =>
        /\ \A m \in Milestones \ byHand : Suits(m) \/ \E h \in Syncs : m \in sync[h].prizes
        /\ \A h \in Syncs : LET k == sync[h] IN
              /\ k.prizes # {} /\ k.pc \notin {"write", "count"} => k.count = Successes
              /\ k.pc = "award" => k.count >= Min(k.prizes) /\ reward[Min(k.prizes)] = "none"

\* One synchronisation after another: only one is under way, and the message it
\* is about to queue is not there yet.
QueuesAlone ==
    "overlap" \notin ragged =>
        /\ \A g, h \in Syncs : ~SyncAt(g, "idle") /\ ~SyncAt(h, "idle") => g = h
        /\ \A h \in Syncs : SyncAt(h, "queue") => outbox[Head(sync[h].todo)] = 0
        /\ \A x \in Messages : outbox[x] <= 1

ClubInv ==
    /\ ClubTypeOK
    /\ \A h \in Syncs : SyncShape(sync[h])
    /\ PrizeIsAnnounced
    /\ QueuesAlone
    /\ CountsAlone

-----------------------------------------------------------------------------

\* The message about a prize.
PrizeNews(m) == [kind |-> "prize", of |-> m]

LEMMA SuccessesIsNat == Successes \in Nat
<1>1. {i \in Referrals : referral[i].successful} \subseteq Referrals
  OBVIOUS
<1>2. IsFiniteSet({i \in Referrals : referral[i].successful})
  BY <1>1, ClubAssumption, FS_Subset
<1> QED
  BY <1>2, FS_CardinalityType DEF Successes

\* Who writes no success changes no count.
LEMMA SameSuccesses ==
    ASSUME \A i \in Referrals : referral'[i].successful = referral[i].successful
    PROVE  Successes' = Successes
<1>1. {i \in Referrals : referral'[i].successful} = {i \in Referrals : referral[i].successful}
  OBVIOUS
<1> QED
  BY <1>1 DEF Successes

\* The next prize to look at is one of them.
LEMMA NextPrize ==
    ASSUME NEW k \in SyncRows, k.prizes # {}
    PROVE  Min(k.prizes) \in k.prizes /\ Min(k.prizes) \in Milestones
<1>1. k.prizes \in SUBSET Nat /\ k.prizes \subseteq Milestones
  BY ClubAssumption DEF SyncRows
<1> QED
  BY <1>1, MinLeast

LEMMA IdleSyncIs ==
    /\ IdleSync \in SyncRows /\ SyncShape(IdleSync)
    /\ IdleSync.pc = "idle" /\ IdleSync.todo = <<>> /\ IdleSync.prizes = {}
<1>1. <<>> \in Seq(Messages)
  BY EmptySeq
<1>2. IdleSync = [pc |-> "idle", of |-> NoReferral, stage |-> "submitted", successful |-> FALSE,
                  todo |-> <<>>, count |-> 0, prizes |-> {}]
  BY DEF IdleSync
<1>3. IdleSync \in SyncRows
  BY <1>1, <1>2 DEF SyncRows, Stages
<1> QED
  BY <1>2, <1>3 DEF SyncShape

\* Onward sets the program counter to what there is left to do.
LEMMA OnwardIs ==
    ASSUME NEW k \in SyncRows
    PROVE  /\ Onward(k) \in SyncRows /\ SyncShape(Onward(k))
           /\ Onward(k).pc \in {"look", "prize", "idle"}
           /\ Onward(k).todo = k.todo /\ Onward(k).prizes = k.prizes
           /\ Onward(k).pc # "idle" => Onward(k).count = k.count
<1>1. CASE k.todo # <<>>
  <2>1. Onward(k) = [k EXCEPT !.pc = "look"]
    BY <1>1 DEF Onward
  <2>2. Onward(k) \in SyncRows
    BY <2>1 DEF SyncRows
  <2>3. /\ Onward(k).pc = "look" /\ Onward(k).todo = k.todo
        /\ Onward(k).prizes = k.prizes /\ Onward(k).count = k.count
    BY <2>1 DEF SyncRows
  <2> QED
    BY <1>1, <2>2, <2>3 DEF SyncShape
<1>2. CASE k.todo = <<>> /\ k.prizes # {}
  <2>1. Onward(k) = [k EXCEPT !.pc = "prize"]
    BY <1>2 DEF Onward
  <2>2. Onward(k) \in SyncRows
    BY <2>1 DEF SyncRows
  <2>3. /\ Onward(k).pc = "prize" /\ Onward(k).todo = k.todo
        /\ Onward(k).prizes = k.prizes /\ Onward(k).count = k.count
    BY <2>1 DEF SyncRows
  <2> QED
    BY <1>2, <2>2, <2>3 DEF SyncShape
<1>3. CASE k.todo = <<>> /\ k.prizes = {}
  BY <1>3, IdleSyncIs DEF Onward
<1> QED
  BY <1>1, <1>2, <1>3

\* A step of a synchronisation that is under way: what is left to show of it.
LEMMA SyncMovesOn ==
    ASSUME ClubInv, NEW h \in Syncs, ~SyncAt(h, "idle"),
           NEW row \in SyncRows, SyncShape(row), SyncBecomes(h, row),
           UNCHANGED <<byHand, ragged>>,
           referral' \in [Referrals -> ReferralRows],
           reward' \in [Milestones -> {"none", "active", "used"}],
           outbox' \in [Messages -> Nat],
           \A x \in Messages : outbox[x] > 0 => outbox'[x] > 0,
           \A m \in Milestones : sync[h].todo # <<>> /\ Head(sync[h].todo) = PrizeNews(m) =>
               outbox'[PrizeNews(m)] > 0 \/ (row.todo # <<>> /\ Head(row.todo) = PrizeNews(m)),
           \A m \in Milestones : reward[m] = "none" /\ reward'[m] # "none" =>
               row.todo # <<>> /\ Head(row.todo) = PrizeNews(m),
           "overlap" \notin ragged =>
               /\ row.pc = "queue" => outbox'[Head(row.todo)] = 0
               /\ \A x \in Messages : outbox'[x] <= 1,
           ragged = {} =>
               /\ \A m \in Milestones \ byHand : m \in row.prizes \/ Suits(m)'
               /\ row.prizes # {} /\ row.pc \notin {"write", "count"} => row.count = Successes'
               /\ row.pc = "award" => row.count >= Min(row.prizes) /\ reward'[Min(row.prizes)] = "none"
    PROVE  ClubInv'
<1>1. sync'[h] = row /\ \A g \in Syncs \ {h} : sync'[g] = sync[g]
  BY DEF ClubInv, ClubTypeOK, SyncBecomes
<1>2. ClubTypeOK'
  BY DEF ClubInv, ClubTypeOK, SyncBecomes
<1>3. ASSUME NEW g \in Syncs PROVE SyncShape(sync'[g])
  BY <1>1 DEF ClubInv
<1>4. PrizeIsAnnounced'
  <2> SUFFICES ASSUME "stop" \notin ragged, NEW m \in Milestones \ byHand, reward'[m] # "none"
               PROVE  \/ outbox'[PrizeNews(m)] > 0
                      \/ \E g \in Syncs : sync'[g].todo # <<>> /\ Head(sync'[g].todo) = PrizeNews(m)
    BY DEF PrizeIsAnnounced, PrizeNews
  <2>1. PrizeNews(m) \in Messages
    BY DEF PrizeNews, Messages
  <2>2. CASE reward[m] = "none"
    BY <1>1, <2>2
  <2>3. CASE reward[m] # "none"
    <3>1. \/ outbox[PrizeNews(m)] > 0
          \/ \E g \in Syncs : sync[g].todo # <<>> /\ Head(sync[g].todo) = PrizeNews(m)
      BY <2>3 DEF ClubInv, PrizeIsAnnounced, PrizeNews
    <3>2. CASE outbox[PrizeNews(m)] > 0
      BY <2>1, <3>2
    <3>3. ASSUME NEW g \in Syncs, sync[g].todo # <<>>, Head(sync[g].todo) = PrizeNews(m)
          PROVE  \/ outbox'[PrizeNews(m)] > 0
                 \/ \E q \in Syncs : sync'[q].todo # <<>> /\ Head(sync'[q].todo) = PrizeNews(m)
      <4>1. CASE g = h
        BY <1>1, <3>3, <4>1
      <4>2. CASE g # h
        BY <1>1, <3>3, <4>2
      <4> QED
        BY <4>1, <4>2
    <3> QED
      BY <3>1, <3>2, <3>3
  <2> QED
    BY <2>2, <2>3
<1>5. ASSUME "overlap" \notin ragged
      PROVE  \A g \in Syncs \ {h} : SyncAt(g, "idle") /\ sync'[g].pc = "idle" /\ sync'[g].prizes = {}
  BY <1>1, <1>5 DEF ClubInv, QueuesAlone, SyncAt, SyncShape
<1>6. QueuesAlone'
  <2> SUFFICES ASSUME "overlap" \notin ragged
               PROVE  /\ \A g, q \in Syncs : sync'[g].pc # "idle" /\ sync'[q].pc # "idle" => g = q
                      /\ \A g \in Syncs : sync'[g].pc = "queue" => outbox'[Head(sync'[g].todo)] = 0
                      /\ \A x \in Messages : outbox'[x] <= 1
    BY DEF QueuesAlone, SyncAt
  <2>1. \A g \in Syncs \ {h} : sync'[g].pc = "idle"
    BY <1>5
  <2> QED
    BY <1>1, <2>1
<1>7. CountsAlone'
  <2> SUFFICES ASSUME ragged = {} PROVE CountsAlone'
    BY DEF CountsAlone
  <2>1. \A g \in Syncs \ {h} : sync'[g].pc = "idle" /\ sync'[g].prizes = {}
    BY <1>5
  <2>2. \A m \in Milestones \ byHand' : Suits(m)' \/ \E g \in Syncs : m \in sync'[g].prizes
    BY <1>1
  <2>3. ASSUME NEW g \in Syncs
        PROVE  /\ sync'[g].prizes # {} /\ sync'[g].pc \notin {"write", "count"} =>
                     sync'[g].count = Successes'
               /\ sync'[g].pc = "award" => /\ sync'[g].count >= Min(sync'[g].prizes)
                                           /\ reward'[Min(sync'[g].prizes)] = "none"
    BY <1>1, <2>1
  <2> QED
    BY <2>2, <2>3 DEF CountsAlone
<1> QED
  BY <1>2, <1>3, <1>4, <1>6, <1>7 DEF ClubInv

\* A synchronisation opens: it changes neither a prize, a message nor a success.
LEMMA SyncOpens ==
    ASSUME ClubInv, NEW h \in Syncs, NEW row \in SyncRows, SyncShape(row), Asks(h, row),
           row.pc \in {"attach", "read", "write", "count"},
           row.prizes = {} \/ row.pc \in {"write", "count"},
           referral' \in [Referrals -> ReferralRows],
           \A i \in Referrals : referral'[i].successful = referral[i].successful,
           UNCHANGED <<reward, outbox, byHand>>
    PROVE  ClubInv'
<1>1. sync'[h] = row /\ \A g \in Syncs \ {h} : sync'[g] = sync[g]
  BY DEF ClubInv, ClubTypeOK, Asks, SyncBecomes
<1>2. sync[h].pc = "idle" /\ sync[h].todo = <<>> /\ sync[h].prizes = {}
  BY DEF ClubInv, SyncShape, Asks, SyncAt
<1>3. /\ "stop" \in ragged => "stop" \in ragged'
      /\ "overlap" \in ragged => "overlap" \in ragged'
      /\ ragged' = {} => ragged = {}
      /\ "overlap" \notin ragged' => NobodySyncs
  BY DEF Asks, BoundedAsk
<1>4. ClubTypeOK'
  BY DEF ClubInv, ClubTypeOK, Asks, SyncBecomes
<1>5. ASSUME NEW g \in Syncs PROVE SyncShape(sync'[g])
  BY <1>1 DEF ClubInv
<1>6. PrizeIsAnnounced'
  <2> SUFFICES ASSUME "stop" \notin ragged, NEW m \in Milestones \ byHand, reward[m] # "none"
               PROVE  \/ outbox[PrizeNews(m)] > 0
                      \/ \E g \in Syncs : sync'[g].todo # <<>> /\ Head(sync'[g].todo) = PrizeNews(m)
    BY <1>3 DEF PrizeIsAnnounced, PrizeNews
  <2>1. \/ outbox[PrizeNews(m)] > 0
        \/ \E g \in Syncs : sync[g].todo # <<>> /\ Head(sync[g].todo) = PrizeNews(m)
    BY DEF ClubInv, PrizeIsAnnounced, PrizeNews
  <2> QED
    BY <1>1, <1>2, <2>1
<1>7. ASSUME "overlap" \notin ragged'
      PROVE  /\ \A g \in Syncs : sync[g].pc = "idle" /\ sync[g].prizes = {}
             /\ \A g \in Syncs \ {h} : sync'[g].pc = "idle" /\ sync'[g].prizes = {}
  BY <1>1, <1>3, <1>7 DEF NobodySyncs, ClubInv, SyncShape, SyncAt
<1>8. QueuesAlone'
  <2> SUFFICES ASSUME "overlap" \notin ragged' PROVE QueuesAlone'
    BY DEF QueuesAlone
  <2>1. \A g \in Syncs \ {h} : sync'[g].pc = "idle"
    BY <1>7
  <2>2. \A x \in Messages : outbox'[x] <= 1
    BY <1>3 DEF ClubInv, QueuesAlone
  <2> QED
    BY <1>1, <2>1, <2>2 DEF QueuesAlone, SyncAt
<1>9. CountsAlone'
  <2> SUFFICES ASSUME ragged' = {} PROVE CountsAlone'
    BY DEF CountsAlone
  <2>1. \A g \in Syncs : sync[g].prizes = {}
    BY <1>7
  <2>2. Successes' = Successes
    BY SameSuccesses
  <2>3. \A m \in Milestones \ byHand' : Suits(m)'
    BY <1>3, <2>1, <2>2 DEF ClubInv, CountsAlone, Suits
  <2>4. \A g \in Syncs \ {h} : sync'[g].pc = "idle" /\ sync'[g].prizes = {}
    BY <1>7
  <2> QED
    BY <1>1, <2>3, <2>4 DEF CountsAlone
<1> QED
  BY <1>4, <1>5, <1>6, <1>8, <1>9 DEF ClubInv

\* What a synchronisation makes of what it reads: prizes to look at, afterwards.
LEMMA AsReadIs ==
    ASSUME ClubInv, NEW i \in Referrals, NEW now \in Stages
    PROVE  /\ AsRead(i, now) \in SyncRows /\ SyncShape(AsRead(i, now))
           /\ AsRead(i, now).pc \in {"write", "count"} /\ AsRead(i, now).prizes = Milestones
<1>1. referral[i] \in ReferralRows
  BY DEF ClubInv, ClubTypeOK
<1>2. NowStage(i, now) \in Stages /\ NowSuccessful(i, now) \in BOOLEAN
  BY DEF NowStage, NowSuccessful, Stages
<1>3. News(i, now) \in Seq(Messages)
  <2>1. /\ <<>> \in Seq(Messages)
        /\ <<[kind |-> "priced", of |-> i]>> \in Seq(Messages)
        /\ <<[kind |-> "booked", of |-> i]>> \in Seq(Messages)
    <3>1. [kind |-> "priced", of |-> i] \in Messages /\ [kind |-> "booked", of |-> i] \in Messages
      BY DEF Messages
    <3> QED
      BY <3>1, EmptySeq
  <2>2. PICK a \in Seq(Messages), b \in Seq(Messages) : News(i, now) = a \o b
    BY <2>1 DEF News
  <2> QED
    BY <2>2, ConcatProperties
<1> DEFINE changed == \/ NowStage(i, now) # referral[i].stage
                      \/ NowSuccessful(i, now) # referral[i].successful
           pc == IF changed THEN "write" ELSE "count"
           todo == IF changed THEN News(i, now) ELSE <<>>
<1>4. AsRead(i, now) = [pc |-> pc, of |-> i, stage |-> NowStage(i, now),
                        successful |-> NowSuccessful(i, now), todo |-> todo,
                        count |-> 0, prizes |-> Milestones]
  BY DEF AsRead
<1>5. pc \in {"write", "count"} /\ todo \in Seq(Messages)
  BY <1>3, EmptySeq
<1> HIDE DEF pc, todo, changed
<1>6. AsRead(i, now) \in SyncRows
  BY <1>2, <1>4, <1>5 DEF SyncRows
<1>7. AsRead(i, now).pc = pc /\ AsRead(i, now).of = i /\ AsRead(i, now).prizes = Milestones
  BY <1>4
<1> QED
  BY <1>5, <1>6, <1>7 DEF SyncShape

LEMMA AttachReadKeeps ==
    ASSUME ClubInv, NEW h \in Syncs, NEW i \in Referrals, AttachRead(h, i)
    PROVE  ClubInv'
<1> PICK row : row = [IdleSync EXCEPT !.pc = "attach", !.of = i]
  OBVIOUS
<1>1. Asks(h, row) /\ UNCHANGED <<referral, reward, outbox, byHand>>
  BY DEF AttachRead
<1>2. /\ row \in SyncRows /\ row.pc = "attach" /\ row.of = i /\ row.todo = <<>> /\ row.prizes = {}
  BY IdleSyncIs DEF SyncRows
<1>3. SyncShape(row)
  BY <1>2 DEF SyncShape
<1> QED
  BY <1>1, <1>2, <1>3, SyncOpens DEF ClubInv, ClubTypeOK

LEMMA SyncReadKeeps ==
    ASSUME ClubInv, NEW h \in Syncs, NEW i \in Referrals, NEW now \in Stages, SyncRead(h, i, now)
    PROVE  ClubInv'
<1>1. Asks(h, AsRead(i, now)) /\ UNCHANGED <<referral, reward, outbox, byHand>>
  BY DEF SyncRead
<1> QED
  BY <1>1, AsReadIs, SyncOpens DEF ClubInv, ClubTypeOK

LEMMA SetOverrideKeeps ==
    ASSUME ClubInv, NEW h \in Syncs, NEW i \in Referrals, NEW o \in Overrides, SetOverride(h, i, o)
    PROVE  ClubInv'
<1> PICK row : row = [IdleSync EXCEPT !.pc = "read", !.of = i]
  OBVIOUS
<1>1. /\ referral' = [referral EXCEPT ![i].override = o]
      /\ Asks(h, row) /\ UNCHANGED <<reward, outbox, byHand>>
  BY DEF SetOverride
<1>2. /\ row \in SyncRows /\ row.pc = "read" /\ row.of = i /\ row.todo = <<>> /\ row.prizes = {}
  BY IdleSyncIs DEF SyncRows
<1>3. SyncShape(row)
  BY <1>2 DEF SyncShape
<1>4. /\ referral' \in [Referrals -> ReferralRows]
      /\ \A j \in Referrals : referral'[j].successful = referral[j].successful
  BY <1>1 DEF ClubInv, ClubTypeOK, ReferralRows
<1> QED
  BY <1>1, <1>2, <1>3, <1>4, SyncOpens

-----------------------------------------------------------------------------
(* The steps of a synchronisation *)

\* What a synchronisation that is under way finds when nothing has overlapped.
LEMMA SyncAlone ==
    ASSUME ClubInv, NEW h \in Syncs, ~SyncAt(h, "idle"), ragged = {}
    PROVE  \A m \in Milestones \ byHand : m \in sync[h].prizes \/ Suits(m)
<1>1. \A g \in Syncs \ {h} : sync[g].prizes = {}
  BY DEF ClubInv, QueuesAlone, SyncAt, SyncShape
<1> QED
  BY <1>1 DEF ClubInv, CountsAlone

LEMMA AttachInsertKeeps ==
    ASSUME ClubInv, NEW h \in Syncs, AttachInsert(h)
    PROVE  ClubInv'
<1> PICK k : k = sync[h]
  OBVIOUS
<1> PICK i : i = k.of
  OBVIOUS
<1>1. /\ k \in SyncRows /\ k.pc = "attach" /\ SyncShape(k) /\ i \in Referrals /\ ~SyncAt(h, "idle")
      /\ k.todo = <<>> /\ UNCHANGED <<reward, outbox, byHand, ragged>>
  BY DEF ClubInv, ClubTypeOK, AttachInsert, SyncAt, SyncShape
<1>2. PICK row \in SyncRows :
          /\ SyncBecomes(h, row) /\ SyncShape(row)
          /\ row.pc \in {"look", "prize", "idle"} /\ row.prizes = {}
  <2>1. CASE i \in Linked
    BY <2>1, IdleSyncIs DEF AttachInsert
  <2>2. CASE i \notin Linked
    <3> PICK n : n = [IdleSync EXCEPT !.todo = <<[kind |-> "submitted", of |-> i]>>]
      OBVIOUS
    <3>1. <<[kind |-> "submitted", of |-> i]>> \in Seq(Messages)
      BY <1>1 DEF Messages
    <3>2. n \in SyncRows /\ n.prizes = {}
      BY <3>1, IdleSyncIs DEF SyncRows
    <3>3. SyncBecomes(h, Onward(n))
      BY <2>2 DEF AttachInsert
    <3> QED
      BY <3>2, <3>3, OnwardIs
  <2> QED
    BY <2>1, <2>2
<1>3. /\ referral' \in [Referrals -> ReferralRows]
      /\ \A j \in Referrals : referral'[j].successful = referral[j].successful
  <2>1. CASE i \in Linked
    BY <2>1 DEF AttachInsert, ClubInv, ClubTypeOK
  <2>2. CASE i \notin Linked
    <3>1. referral' = [referral EXCEPT ![i].stage = "submitted"]
      BY <2>2 DEF AttachInsert
    <3>2. \A r \in ReferralRows : /\ [r EXCEPT !.stage = "submitted"] \in ReferralRows
                                  /\ [r EXCEPT !.stage = "submitted"].successful = r.successful
      BY DEF ReferralRows, Stages
    <3> QED
      BY <3>1, <3>2 DEF ClubInv, ClubTypeOK
  <2> QED
    BY <2>1, <2>2
<1>4. Successes' = Successes
  BY <1>3, SameSuccesses
<1>5. ASSUME ragged = {}, NEW m \in Milestones \ byHand PROVE Suits(m)'
  <2>1. k.prizes = {}
    BY <1>1 DEF SyncShape
  <2>2. Suits(m)
    BY <1>1, <1>5, <2>1, SyncAlone
  <2> QED
    BY <1>1, <1>4, <2>2 DEF Suits
<1> QED
  BY <1>1, <1>2, <1>3, <1>5, SyncMovesOn DEF ClubInv, ClubTypeOK, QueuesAlone

LEMMA OverrideReadKeeps ==
    ASSUME ClubInv, NEW h \in Syncs, NEW now \in Stages, OverrideRead(h, now)
    PROVE  ClubInv'
<1> PICK i : i = sync[h].of
  OBVIOUS
<1> PICK row : row = AsRead(i, now)
  OBVIOUS
<1>1. /\ sync[h].pc = "read" /\ i \in Referrals /\ sync[h].todo = <<>>
      /\ ~SyncAt(h, "idle") /\ SyncBecomes(h, row)
      /\ UNCHANGED <<referral, reward, outbox, asked, byHand, ragged>>
  BY DEF ClubInv, SyncShape, OverrideRead, SyncAt
<1>2. row \in SyncRows /\ SyncShape(row) /\ row.pc \in {"write", "count"} /\ row.prizes = Milestones
  BY <1>1, AsReadIs
<1> QED
  BY <1>1, <1>2, SyncMovesOn DEF ClubInv, ClubTypeOK, QueuesAlone

LEMMA SyncWriteKeeps ==
    ASSUME ClubInv, NEW h \in Syncs, SyncWrite(h)
    PROVE  ClubInv'
<1> PICK k : k = sync[h]
  OBVIOUS
<1> PICK i : i = k.of
  OBVIOUS
<1> PICK row : row = [k EXCEPT !.pc = "count"]
  OBVIOUS
<1>1. /\ k \in SyncRows /\ k.pc = "write" /\ SyncShape(k) /\ i \in Referrals /\ ~SyncAt(h, "idle")
  BY DEF ClubInv, ClubTypeOK, SyncWrite, SyncAt, SyncShape
<1>2. /\ referral' = [referral EXCEPT ![i].stage = k.stage, ![i].successful = k.successful]
      /\ SyncBecomes(h, row) /\ UNCHANGED <<reward, outbox, asked, byHand, ragged>>
  BY DEF SyncWrite
<1>3. row \in SyncRows /\ row.pc = "count" /\ row.todo = k.todo /\ row.prizes = k.prizes
  BY <1>1 DEF SyncRows
<1>4. SyncShape(row) /\ row.prizes = Milestones
  BY <1>1, <1>3 DEF SyncShape
<1>5. referral' \in [Referrals -> ReferralRows]
  <2>1. k.stage \in Stages /\ k.successful \in BOOLEAN
    BY <1>1 DEF SyncRows
  <2>2. \A r \in ReferralRows : [r EXCEPT !.stage = k.stage] \in ReferralRows
    BY <2>1 DEF ReferralRows
  <2>3. \A r \in ReferralRows : [r EXCEPT !.successful = k.successful] \in ReferralRows
    BY <2>1 DEF ReferralRows
  <2> DEFINE mid == [referral EXCEPT ![i].stage = k.stage]
  <2>4. mid \in [Referrals -> ReferralRows]
    BY <2>2 DEF ClubInv, ClubTypeOK
  <2>5. referral' = [mid EXCEPT ![i].successful = k.successful]
    BY <1>2
  <2> HIDE DEF mid
  <2> QED
    BY <2>3, <2>4, <2>5
<1>6. \A m \in Milestones : k.todo # <<>> /\ Head(k.todo) = PrizeNews(m) =>
                                row.todo # <<>> /\ Head(row.todo) = PrizeNews(m)
  BY <1>3
<1>7. /\ reward' \in [Milestones -> {"none", "active", "used"}] /\ outbox' \in [Messages -> Nat]
      /\ "overlap" \notin ragged => \A x \in Messages : outbox'[x] <= 1
  BY <1>2 DEF ClubInv, ClubTypeOK, QueuesAlone
<1> QED
  BY <1>1, <1>2, <1>3, <1>4, <1>5, <1>6, <1>7, SyncMovesOn

LEMMA SyncCountKeeps ==
    ASSUME ClubInv, NEW h \in Syncs, SyncCount(h)
    PROVE  ClubInv'
<1> PICK k : k = sync[h]
  OBVIOUS
<1> PICK c : c = Successes
  OBVIOUS
<1> PICK n : n = [k EXCEPT !.count = c]
  OBVIOUS
<1> PICK row : row = Onward(n)
  OBVIOUS
<1>1. /\ k \in SyncRows /\ k.pc = "count" /\ k.prizes = Milestones /\ ~SyncAt(h, "idle")
  BY DEF ClubInv, ClubTypeOK, SyncCount, SyncAt, SyncShape
<1>2. SyncBecomes(h, row) /\ UNCHANGED <<referral, reward, outbox, asked, byHand, ragged>>
  BY DEF SyncCount
<1>3. n \in SyncRows /\ n.todo = k.todo /\ n.prizes = k.prizes /\ n.count = c
  BY <1>1, SuccessesIsNat DEF SyncRows
<1>4. /\ row \in SyncRows /\ SyncShape(row) /\ row.pc \in {"look", "prize", "idle"}
      /\ row.todo = k.todo /\ row.prizes = Milestones
      /\ row.pc # "idle" => row.count = c
  BY <1>1, <1>3, OnwardIs
<1>5. Successes' = c
  BY <1>2 DEF Successes
<1>6. row.prizes # {} => row.pc # "idle"
  BY <1>4 DEF SyncShape
<1>7. \A m \in Milestones : k.todo # <<>> /\ Head(k.todo) = PrizeNews(m) =>
                                row.todo # <<>> /\ Head(row.todo) = PrizeNews(m)
  BY <1>4
<1>8. /\ referral' \in [Referrals -> ReferralRows] /\ outbox' \in [Messages -> Nat]
      /\ reward' \in [Milestones -> {"none", "active", "used"}]
      /\ "overlap" \notin ragged => \A x \in Messages : outbox'[x] <= 1
  BY <1>2 DEF ClubInv, ClubTypeOK, QueuesAlone
<1> QED
  BY <1>1, <1>2, <1>4, <1>5, <1>6, <1>7, <1>8, SyncMovesOn

\* The message at the head of the queue is one, and there is a rest.
LEMMA NextMessage ==
    ASSUME NEW k \in SyncRows, k.todo # <<>>
    PROVE  Head(k.todo) \in Messages /\ Tail(k.todo) \in Seq(Messages)
<1>1. k.todo \in Seq(Messages)
  BY DEF SyncRows
<1> QED
  BY <1>1, HeadTailProperties

\* A synchronisation that is done with a message, or with a prize, goes on.
LEMMA DoneWith ==
    ASSUME ClubInv, NEW h \in Syncs, sync[h].pc \in {"look", "queue"}, ragged = {}
    PROVE  sync[h].prizes # {} => sync[h].count = Successes
BY DEF ClubInv, CountsAlone

LEMMA QueueLookKeeps ==
    ASSUME ClubInv, NEW h \in Syncs, QueueLook(h)
    PROVE  ClubInv'
<1> PICK k : k = sync[h]
  OBVIOUS
<1> PICK x : x = Head(k.todo)
  OBVIOUS
<1> PICK rest : rest = Tail(k.todo)
  OBVIOUS
<1>1. /\ k \in SyncRows /\ k.pc = "look" /\ k.todo # <<>> /\ ~SyncAt(h, "idle")
      /\ UNCHANGED <<referral, reward, outbox, asked, byHand, ragged>>
  BY DEF ClubInv, ClubTypeOK, QueueLook, SyncAt, SyncShape
<1>2. x \in Messages /\ rest \in Seq(Messages)
  BY <1>1, NextMessage
<1>3. Successes' = Successes
  BY <1>1 DEF Successes
<1>4. \A m \in Milestones : Suits(m)' <=> Suits(m)
  BY <1>1, <1>3 DEF Suits
<1>5. ragged = {} /\ k.prizes # {} => k.count = Successes
  BY <1>1, DoneWith
<1>6. ragged = {} => \A m \in Milestones \ byHand : m \in k.prizes \/ Suits(m)
  BY <1>1, SyncAlone
<1>7. /\ referral' \in [Referrals -> ReferralRows] /\ outbox' \in [Messages -> Nat]
      /\ reward' \in [Milestones -> {"none", "active", "used"}]
      /\ "overlap" \notin ragged => \A y \in Messages : outbox'[y] <= 1
  BY <1>1 DEF ClubInv, ClubTypeOK, QueuesAlone
<1>8. CASE Queued(x)
  <2> PICK n : n = [k EXCEPT !.todo = rest]
    OBVIOUS
  <2> PICK row : row = Onward(n)
    OBVIOUS
  <2>1. SyncBecomes(h, row)
    <3>1. n = [k EXCEPT !.todo = Tail(@)]
      OBVIOUS
    <3> QED
      BY <1>8, <3>1 DEF QueueLook
  <2>2. n \in SyncRows /\ n.todo = rest /\ n.prizes = k.prizes /\ n.count = k.count
    BY <1>1, <1>2 DEF SyncRows
  <2>3. /\ row \in SyncRows /\ SyncShape(row) /\ row.pc \in {"look", "prize", "idle"}
        /\ row.prizes = k.prizes
        /\ row.pc # "idle" => row.count = k.count
    BY <2>2, OnwardIs
  <2>4. row.prizes # {} => row.pc # "idle"
    BY <2>3 DEF SyncShape
  <2>5. outbox[x] > 0
    BY <1>8 DEF Queued
  <2>6. \A m \in Milestones : Head(k.todo) = PrizeNews(m) => outbox'[PrizeNews(m)] > 0
    BY <1>1, <2>5
  <2>7. ragged = {} =>
           /\ \A m \in Milestones \ byHand : m \in row.prizes \/ Suits(m)'
           /\ row.prizes # {} => row.count = Successes'
    BY <1>3, <1>4, <1>5, <1>6, <2>3, <2>4
  <2> QED
    BY <1>1, <1>7, <2>1, <2>3, <2>6, <2>7, SyncMovesOn
<1>9. CASE ~Queued(x)
  <2> PICK row : row = [k EXCEPT !.pc = "queue"]
    OBVIOUS
  <2>1. SyncBecomes(h, row)
    BY <1>9 DEF QueueLook
  <2>2. row \in SyncRows /\ row.pc = "queue" /\ row.todo = k.todo /\ row.prizes = k.prizes
        /\ row.count = k.count
    BY <1>1 DEF SyncRows
  <2>3. SyncShape(row)
    BY <1>1, <2>2 DEF SyncShape
  <2>4. outbox[x] = 0
    BY <1>2, <1>9 DEF Queued, ClubInv, ClubTypeOK
  <2>5. \A m \in Milestones : Head(k.todo) = PrizeNews(m) =>
                                  row.todo # <<>> /\ Head(row.todo) = PrizeNews(m)
    BY <1>1, <2>2
  <2>6. ragged = {} =>
           /\ \A m \in Milestones \ byHand : m \in row.prizes \/ Suits(m)'
           /\ row.prizes # {} => row.count = Successes'
    BY <1>3, <1>4, <1>5, <1>6, <2>2
  <2>7. outbox'[Head(row.todo)] = 0
    BY <1>1, <2>2, <2>4
  <2> QED
    BY <1>1, <1>7, <2>1, <2>2, <2>3, <2>5, <2>6, <2>7, SyncMovesOn
<1> QED
  BY <1>8, <1>9

LEMMA QueueInsertKeeps ==
    ASSUME ClubInv, NEW h \in Syncs, QueueInsert(h)
    PROVE  ClubInv'
<1> PICK k : k = sync[h]
  OBVIOUS
<1> PICK x : x = Head(k.todo)
  OBVIOUS
<1> PICK rest : rest = Tail(k.todo)
  OBVIOUS
<1> PICK n : n = [k EXCEPT !.todo = rest]
  OBVIOUS
<1> PICK row : row = Onward(n)
  OBVIOUS
<1>1. /\ k \in SyncRows /\ k.pc = "queue" /\ k.todo # <<>> /\ ~SyncAt(h, "idle")
      /\ UNCHANGED <<referral, reward, asked, byHand, ragged>>
  BY DEF ClubInv, ClubTypeOK, QueueInsert, SyncAt, SyncShape
<1>2. x \in Messages /\ rest \in Seq(Messages)
  BY <1>1, NextMessage
<1>3. outbox' = [outbox EXCEPT ![x] = @ + 1] /\ SyncBecomes(h, row)
  <2>1. n = [k EXCEPT !.todo = Tail(@)]
    OBVIOUS
  <2> QED
    BY <2>1 DEF QueueInsert
<1>4. /\ outbox' \in [Messages -> Nat] /\ outbox'[x] = outbox[x] + 1
      /\ \A y \in Messages \ {x} : outbox'[y] = outbox[y]
      /\ outbox[x] \in Nat
  BY <1>2, <1>3 DEF ClubInv, ClubTypeOK
<1>5. Successes' = Successes
  BY <1>1 DEF Successes
<1>6. \A m \in Milestones : Suits(m)' <=> Suits(m)
  BY <1>1, <1>5 DEF Suits
<1>7. ragged = {} /\ k.prizes # {} => k.count = Successes
  BY <1>1, DoneWith
<1>8. ragged = {} => \A m \in Milestones \ byHand : m \in k.prizes \/ Suits(m)
  BY <1>1, SyncAlone
<1>9. n \in SyncRows /\ n.todo = rest /\ n.prizes = k.prizes /\ n.count = k.count
  BY <1>1, <1>2 DEF SyncRows
<1>10. /\ row \in SyncRows /\ SyncShape(row) /\ row.pc \in {"look", "prize", "idle"}
       /\ row.prizes = k.prizes
       /\ row.pc # "idle" => row.count = k.count
  BY <1>9, OnwardIs
<1>11. row.prizes # {} => row.pc # "idle"
  BY <1>10 DEF SyncShape
<1>12. "overlap" \notin ragged => \A y \in Messages : outbox'[y] <= 1
  <2> SUFFICES ASSUME "overlap" \notin ragged, NEW y \in Messages PROVE outbox'[y] <= 1
    OBVIOUS
  <2>1. outbox[x] = 0 /\ outbox[y] <= 1
    BY <1>1 DEF ClubInv, QueuesAlone, SyncAt
  <2> QED
    BY <1>4, <2>1
<1>13. \A y \in Messages : outbox[y] > 0 => outbox'[y] > 0
  BY <1>4 DEF ClubInv, ClubTypeOK
<1>14. outbox'[x] > 0
  BY <1>4
<1>15. \A m \in Milestones : Head(k.todo) = PrizeNews(m) => outbox'[PrizeNews(m)] > 0
  BY <1>14
<1>16. ragged = {} =>
          /\ \A m \in Milestones \ byHand : m \in row.prizes \/ Suits(m)'
          /\ row.prizes # {} => row.count = Successes'
  BY <1>5, <1>6, <1>7, <1>8, <1>10, <1>11
<1>17. /\ referral' \in [Referrals -> ReferralRows]
       /\ reward' \in [Milestones -> {"none", "active", "used"}]
  BY <1>1 DEF ClubInv, ClubTypeOK
<1> QED
  BY <1>1, <1>3, <1>4, <1>10, <1>12, <1>13, <1>15, <1>16, <1>17, SyncMovesOn

LEMMA PrizeLookKeeps ==
    ASSUME ClubInv, NEW h \in Syncs, PrizeLook(h)
    PROVE  ClubInv'
<1> PICK k : k = sync[h]
  OBVIOUS
<1> PICK m : m = Min(k.prizes)
  OBVIOUS
<1> PICK left : left = k.prizes \ {m}
  OBVIOUS
<1> PICK n : n = [k EXCEPT !.prizes = left]
  OBVIOUS
<1> PICK on : on = Onward(n)
  OBVIOUS
<1>1. /\ k \in SyncRows /\ k.pc = "prize" /\ k.todo = <<>> /\ k.prizes # {} /\ ~SyncAt(h, "idle")
      /\ UNCHANGED <<referral, outbox, asked, byHand, ragged>>
  BY DEF ClubInv, ClubTypeOK, PrizeLook, SyncAt, SyncShape
<1>2. m \in k.prizes /\ m \in Milestones
  BY <1>1, NextPrize
<1>3. on = Onward([k EXCEPT !.prizes = @ \ {m}])
  <2>1. n = [k EXCEPT !.prizes = @ \ {m}]
    OBVIOUS
  <2> QED
    BY <2>1
<1>4. n \in SyncRows /\ n.todo = k.todo /\ n.prizes = left /\ n.count = k.count
  BY <1>1 DEF SyncRows
<1>5. /\ on \in SyncRows /\ SyncShape(on) /\ on.pc \in {"look", "prize", "idle"}
      /\ on.todo = k.todo /\ on.prizes = left
      /\ on.pc # "idle" => on.count = k.count
  BY <1>4, OnwardIs
<1>6. on.prizes # {} => on.pc # "idle"
  BY <1>5 DEF SyncShape
<1>7. Successes' = Successes /\ Successes \in Nat /\ m \in Nat /\ k.count \in Nat
  BY <1>1, <1>2, SuccessesIsNat, ClubAssumption DEF Successes, SyncRows
<1>8. ragged = {} => k.count = Successes
  BY <1>1 DEF ClubInv, CountsAlone
<1>9. ragged = {} => \A o \in Milestones \ byHand : o \in k.prizes \/ Suits(o)
  BY <1>1, SyncAlone
<1>10. /\ referral' \in [Referrals -> ReferralRows] /\ outbox' \in [Messages -> Nat]
       /\ \A y \in Messages : outbox[y] > 0 => outbox'[y] > 0
       /\ "overlap" \notin ragged => \A y \in Messages : outbox'[y] <= 1
  BY <1>1 DEF ClubInv, ClubTypeOK, QueuesAlone
<1>11. reward \in [Milestones -> {"none", "active", "used"}]
  BY DEF ClubInv, ClubTypeOK
<1>12. CASE k.count >= m /\ reward[m] = "none"
  <2> PICK row : row = [k EXCEPT !.pc = "award"]
    OBVIOUS
  <2>1. SyncBecomes(h, row) /\ reward' = reward
    BY <1>12 DEF PrizeLook
  <2>2. row \in SyncRows /\ row.pc = "award" /\ row.todo = k.todo /\ row.prizes = k.prizes
        /\ row.count = k.count
    BY <1>1 DEF SyncRows
  <2>3. SyncShape(row)
    BY <1>1, <2>2 DEF SyncShape
  <2>4. \A o \in Milestones : Suits(o)' <=> Suits(o)
    BY <1>7, <2>1 DEF Suits
  <2>5. ragged = {} =>
           /\ \A o \in Milestones \ byHand : o \in row.prizes \/ Suits(o)'
           /\ row.count = Successes'
    BY <1>7, <1>8, <1>9, <2>2, <2>4
  <2>6. row.count >= Min(row.prizes) /\ reward'[Min(row.prizes)] = "none"
    BY <1>12, <2>1, <2>2
  <2> QED
    BY <1>1, <1>10, <1>11, <2>1, <2>2, <2>3, <2>5, <2>6, SyncMovesOn
<1>13. CASE k.count >= m /\ reward[m] # "none"
  <2>1. SyncBecomes(h, on) /\ reward' = reward
    BY <1>3, <1>13 DEF PrizeLook
  <2>2. \A o \in Milestones : Suits(o)' <=> Suits(o)
    BY <1>7, <2>1 DEF Suits
  <2>3. ragged = {} => Suits(m)
    BY <1>7, <1>8, <1>13 DEF Suits
  <2>4. ragged = {} =>
           /\ \A o \in Milestones \ byHand : o \in on.prizes \/ Suits(o)'
           /\ on.prizes # {} => on.count = Successes'
    BY <1>5, <1>6, <1>7, <1>8, <1>9, <2>2, <2>3
  <2> QED
    BY <1>1, <1>5, <1>10, <1>11, <2>1, <2>4, SyncMovesOn
<1>14. CASE ~(k.count >= m)
  <2>1. /\ SyncBecomes(h, on)
        /\ reward' = [reward EXCEPT ![m] = IF @ = "active" THEN "none" ELSE @]
    BY <1>3, <1>14 DEF PrizeLook
  <2>2. /\ reward' \in [Milestones -> {"none", "active", "used"}]
        /\ reward'[m] # "active"
        /\ \A o \in Milestones \ {m} : reward'[o] = reward[o]
        /\ reward[m] = "none" => reward'[m] = "none"
    BY <1>2, <1>11, <2>1
  <2>3. \A o \in Milestones \ {m} : Suits(o)' <=> Suits(o)
    BY <1>7, <2>2 DEF Suits
  <2>4. ragged = {} => Suits(m)'
    BY <1>7, <1>8, <1>14, <2>2 DEF Suits
  <2>5. ragged = {} =>
           /\ \A o \in Milestones \ byHand : o \in on.prizes \/ Suits(o)'
           /\ on.prizes # {} => on.count = Successes'
    BY <1>5, <1>6, <1>7, <1>8, <1>9, <2>3, <2>4
  <2>6. \A o \in Milestones : reward[o] = "none" => reward'[o] = "none"
    BY <2>2
  <2> QED
    BY <1>1, <1>5, <1>10, <2>1, <2>2, <2>5, <2>6, SyncMovesOn
<1> QED
  BY <1>12, <1>13, <1>14

LEMMA PrizeInsertKeeps ==
    ASSUME ClubInv, NEW h \in Syncs, PrizeInsert(h)
    PROVE  ClubInv'
<1> PICK k : k = sync[h]
  OBVIOUS
<1> PICK m : m = Min(k.prizes)
  OBVIOUS
<1> PICK left : left = k.prizes \ {m}
  OBVIOUS
<1> PICK todo : todo = <<PrizeNews(m)>>
  OBVIOUS
<1>1. /\ k \in SyncRows /\ k.pc = "award" /\ k.todo = <<>> /\ k.prizes # {} /\ ~SyncAt(h, "idle")
      /\ UNCHANGED <<referral, outbox, asked, byHand, ragged>>
  BY DEF ClubInv, ClubTypeOK, PrizeInsert, SyncAt, SyncShape
<1>2. m \in k.prizes /\ m \in Milestones
  BY <1>1, NextPrize
<1>3. Successes' = Successes /\ Successes \in Nat /\ m \in Nat /\ k.count \in Nat
  BY <1>1, <1>2, SuccessesIsNat, ClubAssumption DEF Successes, SyncRows
<1>4. ragged = {} => k.count = Successes /\ k.count >= m /\ reward[m] = "none"
  BY <1>1 DEF ClubInv, CountsAlone
<1>5. ragged = {} => \A o \in Milestones \ byHand : o \in k.prizes \/ Suits(o)
  BY <1>1, SyncAlone
<1>6. /\ referral' \in [Referrals -> ReferralRows] /\ outbox' \in [Messages -> Nat]
      /\ \A y \in Messages : outbox[y] > 0 => outbox'[y] > 0
      /\ "overlap" \notin ragged => \A y \in Messages : outbox'[y] <= 1
  BY <1>1 DEF ClubInv, ClubTypeOK, QueuesAlone
<1>7. reward \in [Milestones -> {"none", "active", "used"}]
  BY DEF ClubInv, ClubTypeOK
<1>8. CASE reward[m] # "none"
  <2>1. SyncBecomes(h, IdleSync) /\ reward' = reward
    BY <1>8 DEF PrizeInsert
  <2>2. ragged # {}
    BY <1>4, <1>8
  <2> QED
    BY <1>1, <1>6, <1>7, <2>1, <2>2, IdleSyncIs, SyncMovesOn
<1>9. CASE reward[m] = "none"
  <2> PICK n : n = [k EXCEPT !.prizes = left, !.todo = todo]
    OBVIOUS
  <2> PICK row : row = Onward(n)
    OBVIOUS
  <2>1. SyncBecomes(h, row) /\ reward' = [reward EXCEPT ![m] = "active"]
    <3>1. n = [k EXCEPT !.prizes = @ \ {m}, !.todo = <<[kind |-> "prize", of |-> m]>>]
      BY DEF PrizeNews
    <3> QED
      BY <1>9, <3>1 DEF PrizeInsert
  <2>2. todo \in Seq(Messages) /\ todo # <<>> /\ Head(todo) = PrizeNews(m)
    <3>1. PrizeNews(m) \in Messages
      BY <1>2 DEF PrizeNews, Messages
    <3> QED
      BY <3>1
  <2>3. n \in SyncRows /\ n.todo = todo /\ n.prizes = left /\ n.count = k.count
    BY <1>1, <2>2 DEF SyncRows
  <2>4. /\ row \in SyncRows /\ SyncShape(row) /\ row.pc \in {"look", "prize", "idle"}
        /\ row.todo = todo /\ row.prizes = left
        /\ row.pc # "idle" => row.count = k.count
    BY <2>3, OnwardIs
  <2>5. row.prizes # {} => row.pc # "idle"
    BY <2>4 DEF SyncShape
  <2>6. /\ reward' \in [Milestones -> {"none", "active", "used"}] /\ reward'[m] = "active"
        /\ \A o \in Milestones \ {m} : reward'[o] = reward[o]
    BY <1>2, <1>7, <2>1
  <2>7. \A o \in Milestones \ {m} : Suits(o)' <=> Suits(o)
    BY <1>3, <2>6 DEF Suits
  <2>8. ragged = {} => Suits(m)'
    BY <1>3, <1>4, <2>6 DEF Suits
  <2>9. ragged = {} =>
           /\ \A o \in Milestones \ byHand : o \in row.prizes \/ Suits(o)'
           /\ row.prizes # {} => row.count = Successes'
    BY <1>3, <1>4, <1>5, <2>4, <2>5, <2>7, <2>8
  <2>10. \A o \in Milestones : reward[o] = "none" /\ reward'[o] # "none" =>
             row.todo # <<>> /\ Head(row.todo) = PrizeNews(o)
    BY <2>2, <2>4, <2>6
  <2> QED
    BY <1>1, <1>6, <2>1, <2>4, <2>6, <2>9, <2>10, SyncMovesOn
<1> QED
  BY <1>8, <1>9

-----------------------------------------------------------------------------
(* The owner's hand, stops, and the theorem *)

LEMMA SetRewardKeeps ==
    ASSUME ClubInv, NEW m \in Milestones, NEW status \in {"active", "used"}, SetReward(m, status)
    PROVE  ClubInv'
<1>1. /\ reward' = [reward EXCEPT ![m] = status] /\ byHand' = byHand \cup {m}
      /\ UNCHANGED <<referral, outbox, sync>>
      /\ ragged' = IF NobodySyncs THEN ragged ELSE ragged \cup {"overlap"}
  BY DEF SetReward, BoundedAsk
<1>2. \A o \in Milestones \ {m} : reward'[o] = reward[o]
  BY <1>1 DEF ClubInv, ClubTypeOK
<1>3. ClubTypeOK'
  BY <1>1 DEF ClubInv, ClubTypeOK
<1>4. \A h \in Syncs : SyncShape(sync'[h])
  BY <1>1 DEF ClubInv
<1>5. PrizeIsAnnounced'
  BY <1>1, <1>2 DEF ClubInv, PrizeIsAnnounced
<1>6. QueuesAlone'
  BY <1>1 DEF ClubInv, QueuesAlone, SyncAt
<1>7. CountsAlone'
  <2> SUFFICES ASSUME ragged' = {} PROVE CountsAlone'
    BY DEF CountsAlone
  <2>1. ragged = {} /\ NobodySyncs
    BY <1>1
  <2>2. Successes' = Successes
    BY <1>1 DEF Successes
  <2>3. \A h \in Syncs : sync[h].pc = "idle" /\ sync[h].prizes = {}
    BY <2>1 DEF NobodySyncs, SyncAt, ClubInv, SyncShape
  <2>4. \A o \in Milestones \ byHand' : Suits(o)'
    BY <1>1, <1>2, <2>1, <2>2, <2>3 DEF ClubInv, CountsAlone, Suits
  <2> QED
    BY <1>1, <2>3, <2>4 DEF CountsAlone
<1> QED
  BY <1>3, <1>4, <1>5, <1>6, <1>7 DEF ClubInv

LEMMA SyncStopKeeps ==
    ASSUME ClubInv, NEW h \in Syncs, SyncStops(h)
    PROVE  ClubInv'
<1>1. /\ "stop" \in ragged' /\ ragged' = ragged \cup {"stop"}
      /\ sync'[h] = IdleSync /\ \A g \in Syncs \ {h} : sync'[g] = sync[g]
      /\ UNCHANGED <<referral, reward, outbox, asked, byHand>>
  BY DEF SyncStops, SyncBecomes, ClubInv, ClubTypeOK
<1>2. ClubTypeOK'
  BY IdleSyncIs DEF SyncStops, SyncBecomes, ClubInv, ClubTypeOK
<1>3. ASSUME NEW g \in Syncs PROVE SyncShape(sync'[g])
  BY <1>1, IdleSyncIs DEF ClubInv
<1>4. PrizeIsAnnounced' /\ CountsAlone'
  BY <1>1 DEF PrizeIsAnnounced, CountsAlone
<1>5. QueuesAlone'
  BY <1>1, IdleSyncIs DEF ClubInv, QueuesAlone, SyncAt
<1> QED
  BY <1>2, <1>3, <1>4, <1>5 DEF ClubInv

LEMMA ClubInvInit == ClubInit => ClubInv
<1> SUFFICES ASSUME ClubInit PROVE ClubInv
  OBVIOUS
<1>1. ClubTypeOK
  <2>1. NoReferralRow \in ReferralRows
    BY DEF NoReferralRow, ReferralRows, Overrides
  <2> QED
    BY <2>1, IdleSyncIs DEF ClubInit, ClubTypeOK
<1>2. \A h \in Syncs : sync[h] = IdleSync
  BY DEF ClubInit
<1>3. \A h \in Syncs : SyncShape(sync[h])
  BY <1>2, IdleSyncIs
<1>4. PrizeIsAnnounced
  BY DEF ClubInit, PrizeIsAnnounced
<1>5. QueuesAlone
  BY <1>2, IdleSyncIs DEF ClubInit, QueuesAlone, SyncAt
<1>6. CountsAlone
  <2>1. \A i \in Referrals : ~referral[i].successful
    BY DEF ClubInit, NoReferralRow
  <2>2. {i \in Referrals : referral[i].successful} = {}
    BY <2>1
  <2>3. Successes = 0
    BY <2>2, FS_EmptySet DEF Successes
  <2>4. \A m \in Milestones : Suits(m)
    BY <2>3, ClubAssumption DEF ClubInit, Suits
  <2> QED
    BY <1>2, <2>4, IdleSyncIs DEF CountsAlone
<1> QED
  BY <1>1, <1>3, <1>4, <1>5, <1>6 DEF ClubInv

LEMMA ClubInvStep == ClubInv /\ [ClubNext]_clubVars => ClubInv'
<1>1. ASSUME ClubInv, ClubNext PROVE ClubInv'
  <2>1. ASSUME NEW h \in Syncs, SyncStep(h) PROVE ClubInv'
    BY <1>1, <2>1, AttachInsertKeeps, SyncWriteKeeps, SyncCountKeeps, QueueLookKeeps,
       QueueInsertKeeps, PrizeLookKeeps, PrizeInsertKeeps, SyncStopKeeps, OverrideReadKeeps
       DEF SyncStep
  <2> QED
    BY <1>1, <2>1, AttachReadKeeps, SyncReadKeeps, SetOverrideKeeps, SetRewardKeeps DEF ClubNext
<1>2. ASSUME ClubInv, UNCHANGED clubVars PROVE ClubInv'
  <2>1. UNCHANGED <<referral, reward, outbox, sync, asked, byHand, ragged>>
    BY <1>2 DEF clubVars
  <2>2. ClubTypeOK' /\ \A h \in Syncs : SyncShape(sync'[h])
    BY <1>2, <2>1 DEF ClubInv, ClubTypeOK
  <2>3. PrizeIsAnnounced' /\ QueuesAlone'
    BY <1>2, <2>1 DEF ClubInv, PrizeIsAnnounced, QueuesAlone, SyncAt
  <2>4. Successes' = Successes
    BY <2>1 DEF Successes
  <2>5. CountsAlone'
    BY <1>2, <2>1, <2>4 DEF ClubInv, CountsAlone, Suits
  <2> QED
    BY <2>2, <2>3, <2>5 DEF ClubInv
<1> QED
  BY <1>1, <1>2

LEMMA ClubAlways == ClubSpec => []ClubInv
BY ClubInvInit, ClubInvStep, PTL DEF ClubSpec

\* Referrals, prizes, messages and synchronisations hold what their columns may.
THEOREM ClubTypes == ClubSpec => []ClubTypeOK
<1>1. ClubInv => ClubTypeOK
  BY DEF ClubInv
<1> QED
  BY <1>1, ClubAlways, PTL

\* A prize for the count, a message for every prize, and no message twice.
THEOREM ClubPromise == ClubSpec => []ClubKeepsItsWord
<1>1. ClubInv => ClubKeepsItsWord
  <2> SUFFICES ASSUME ClubInv PROVE ClubKeepsItsWord
    OBVIOUS
  <2>1. PrizesFollowCount
    <3> SUFFICES ASSUME NobodySyncs, ragged = {}, NEW m \in Milestones \ byHand
                 PROVE  /\ reward[m] = "active" => Successes >= m
                        /\ Successes >= m => reward[m] # "none"
      BY DEF PrizesFollowCount
    <3>1. \A h \in Syncs : sync[h].prizes = {}
      BY DEF NobodySyncs, SyncAt, ClubInv, SyncShape
    <3> QED
      BY <3>1 DEF ClubInv, CountsAlone, Suits
  <2>2. PrizeIsAnnounced /\ QueuedOnce
    BY DEF ClubInv, QueuesAlone, QueuedOnce
  <2> QED
    BY <2>1, <2>2 DEF ClubKeepsItsWord
<1> QED
  BY <1>1, ClubAlways, PTL

-----------------------------------------------------------------------------
(* ApprenticeRoster *)

RosterTypeOK ==
    /\ lesson \in [Lessons -> LessonRows]
    /\ done \in [Apprentices -> 0..Goal]
    /\ board \in [Boards -> BoardRows]
    /\ typed \in [Apprentices -> [done : 0..Goal, present : Nat]]

PresentRow(p) == [status |-> "present", who |-> p]
Counts(row, p) == IF row = PresentRow(p) THEN 1 ELSE 0

\* How far the counter has moved ahead of the lesson a request is about to write.
Ahead(h, p) ==
    LET k == board[h]
    IN  CASE k.pc = "mark" /\ lesson[k.lesson].who = p -> Delta(lesson[k.lesson].status, k.status)
          [] k.pc = "other" /\ lesson[Min(k.others)] = PresentRow(p) -> -1
          [] k.pc = "own" /\ lesson[k.lesson] = PresentRow(p) -> -1
          [] OTHER -> 0

\* What a request that nobody disturbs has read is still so.
Knows(h) ==
    LET k == board[h]
    IN  /\ k.lesson \in Lessons
        /\ k.seen[k.lesson] = lesson[k.lesson]
        /\ \A m \in k.others : k.seen[m] = lesson[m] /\ lesson[m].who = k.who /\ m # k.lesson
        /\ k.pc \in {"otherCount", "other"} => k.others # {} /\ k.who \in Apprentices
        /\ k.pc = "otherCount" => lesson[Min(k.others)].status = "present"
        /\ k.pc = "markCount" => lesson[k.lesson].who # Nobody
        /\ k.pc = "ownCount" => GivesBack(k)
        /\ k.pc \in {"otherCount", "other", "ownCount", "own"} => lesson[k.lesson] # PresentRow(k.who)

\* The counter is what was typed and the lessons present since, and n more.
Even(p, n) == done[p] + typed[p].present = typed[p].done + PresentIn(p) + n

\* One request after another, none of them stopped, clamped or repeated.
Tidy ==
    untidy = {} =>
        /\ \A g, h \in Boards : ~BoardAt(g, "idle") /\ ~BoardAt(h, "idle") => g = h
        /\ \A h \in Boards : ~BoardAt(h, "idle") =>
              Knows(h) /\ \A p \in Apprentices : Even(p, Ahead(h, p))
        /\ NobodyWrites => \A p \in Apprentices : Even(p, 0)

RosterInv == RosterTypeOK /\ Tidy

-----------------------------------------------------------------------------

LEMMA PresentIsNat ==
    ASSUME NEW p \in Apprentices
    PROVE  PresentIn(p) \in Nat
<1>1. {l \in Lessons : lesson[l] = [status |-> "present", who |-> p]} \subseteq Lessons
  OBVIOUS
<1>2. IsFiniteSet({l \in Lessons : lesson[l] = [status |-> "present", who |-> p]})
  BY <1>1, RosterAssumption, FS_Subset
<1> QED
  BY <1>2, FS_CardinalityType DEF PresentIn

\* Writing one lesson moves only the counts of who had it and of who has it.
LEMMA PresentMoves ==
    ASSUME RosterTypeOK, NEW l \in Lessons, NEW new \in LessonRows,
           lesson' = [lesson EXCEPT ![l] = new], NEW p \in Apprentices
    PROVE  PresentIn(p)' = PresentIn(p) - Counts(lesson[l], p) + Counts(new, p)
<1> DEFINE A == {m \in Lessons : lesson[m] = PresentRow(p)}
           B == {m \in Lessons : lesson'[m] = PresentRow(p)}
<1>1. PresentIn(p) = Cardinality(A) /\ PresentIn(p)' = Cardinality(B)
  BY DEF PresentIn, PresentRow
<1>2. lesson'[l] = new /\ \A m \in Lessons \ {l} : lesson'[m] = lesson[m]
  BY DEF RosterTypeOK
<1>3. A \in SUBSET Lessons /\ B \in SUBSET Lessons /\ A \ {l} = B \ {l}
  BY <1>2
<1>4. (l \in A <=> lesson[l] = PresentRow(p)) /\ (l \in B <=> new = PresentRow(p))
  BY <1>2
<1> HIDE DEF A, B
<1>5. IsFiniteSet(Lessons)
  BY RosterAssumption
<1>6. /\ Cardinality(A) \in Nat /\ Cardinality(B) \in Nat
      /\ l \in A /\ l \in B => Cardinality(B) = Cardinality(A)
      /\ l \notin A /\ l \notin B => Cardinality(B) = Cardinality(A)
      /\ l \in A /\ l \notin B => Cardinality(B) = Cardinality(A) - 1
      /\ l \notin A /\ l \in B => Cardinality(B) = Cardinality(A) + 1
  BY <1>3, <1>5, OneElement
<1> QED
  BY <1>1, <1>4, <1>6 DEF Counts

\* The counter moves by the difference, unless that is noted.
LEMMA BumpTypes ==
    ASSUME RosterTypeOK, NEW q, NEW delta \in {-1, 0, 1}, Bump(q, delta)
    PROVE  done' \in [Apprentices -> 0..Goal] /\ (untidy' = {} => untidy = {})
<1> DEFINE n == done[q] + delta
           v == IF n < 0 THEN 0 ELSE IF n > Goal THEN Goal ELSE n
<1>1. done' = [done EXCEPT ![q] = v]
  BY DEF Bump
<1>2. CASE q \in Apprentices
  <2>1. done[q] \in 0..Goal /\ Goal \in Nat
    BY <1>2, RosterAssumption DEF RosterTypeOK
  <2>2. v \in 0..Goal
    BY <2>1
  <2> HIDE DEF v
  <2> QED
    BY <1>1, <2>2 DEF RosterTypeOK, Bump
<1>3. CASE q \notin Apprentices
  <2> HIDE DEF v
  <2> QED
    BY <1>1, <1>3 DEF RosterTypeOK, Bump
<1> QED
  BY <1>2, <1>3

LEMMA BumpMoves ==
    ASSUME RosterTypeOK, NEW q \in Apprentices, NEW delta \in {-1, 0, 1}, Bump(q, delta),
           untidy' = {}, NEW p \in Apprentices
    PROVE  done'[p] = IF p = q THEN done[p] + delta ELSE done[p]
<1> DEFINE n == done[q] + delta
           v == IF n < 0 THEN 0 ELSE IF n > Goal THEN Goal ELSE n
<1>1. done' = [done EXCEPT ![q] = v] /\ n \in 0..Goal
  BY DEF Bump
<1>2. v = n
  BY <1>1, RosterAssumption
<1> HIDE DEF v
<1> QED
  BY <1>1, <1>2 DEF RosterTypeOK

\* A request that opens, or takes its next step, alone: what is left to show is
\* that what it knows is so and that the counter is right.
LEMMA AloneTidy ==
    ASSUME NEW h \in Boards, board \in [Boards -> BoardRows], NEW row,
           BoardBecomes(h, row),
           untidy' = {} => \A g \in Boards \ {h} : BoardAt(g, "idle"),
           untidy' = {} /\ row.pc # "idle" => Knows(h)' /\ \A p \in Apprentices : Even(p, Ahead(h, p))',
           untidy' = {} /\ row.pc = "idle" => \A p \in Apprentices : Even(p, 0)'
    PROVE  Tidy'
<1> SUFFICES ASSUME untidy' = {} PROVE Tidy'
  BY DEF Tidy
<1>1. board'[h] = row /\ \A g \in Boards \ {h} : board'[g] = board[g]
  BY DEF BoardBecomes
<1>2. \A g \in Boards \ {h} : BoardAt(g, "idle")'
  BY <1>1 DEF BoardAt
<1>3. BoardAt(h, "idle")' <=> row.pc = "idle"
  BY <1>1 DEF BoardAt
<1>4. NobodyWrites' <=> row.pc = "idle"
  BY <1>2, <1>3 DEF NobodyWrites
<1>5. ASSUME NEW g \in Boards, ~BoardAt(g, "idle")' PROVE g = h /\ row.pc # "idle"
  BY <1>2, <1>3, <1>5
<1> QED
  BY <1>4, <1>5 DEF Tidy

-----------------------------------------------------------------------------
(* The steps *)

\* The rows of the table, by name.
LEMMA RosterRows ==
    /\ IdleBoard \in BoardRows
    /\ \A k \in BoardRows : k.seen \in [Lessons -> LessonRows] /\ k.others \in SUBSET Lessons
    /\ \A p \in Apprentices \cup {Nobody} : Planned(p) \in LessonRows
BY DEF IdleBoard, BoardRows, LessonRows, Planned

LEMMA RosterInvInit == RosterInit => RosterInv
<1> SUFFICES ASSUME RosterInit PROVE RosterInv
  OBVIOUS
<1>1. RosterTypeOK
  <2>1. lesson \in [Lessons -> LessonRows]
    BY RosterRows, RosterAssumption DEF RosterInit
  <2>2. done \in [Apprentices -> 0..Goal] /\ typed \in [Apprentices -> [done : 0..Goal, present : Nat]]
    BY RosterAssumption DEF RosterInit
  <2>3. board \in [Boards -> BoardRows]
    BY RosterRows DEF RosterInit
  <2> QED
    BY <2>1, <2>2, <2>3 DEF RosterTypeOK
<1>2. \A h \in Boards : BoardAt(h, "idle")
  BY DEF RosterInit, BoardAt, IdleBoard
<1>3. ASSUME NEW p \in Apprentices PROVE Even(p, 0)
  <2>1. \A l \in Lessons : lesson[l] # [status |-> "present", who |-> p]
    BY DEF RosterInit, Planned
  <2>2. {l \in Lessons : lesson[l] = [status |-> "present", who |-> p]} = {}
    BY <2>1
  <2>3. PresentIn(p) = 0
    BY <2>2, FS_EmptySet DEF PresentIn
  <2> QED
    BY <2>3 DEF RosterInit, Even
<1>4. Tidy
  BY <1>2, <1>3 DEF Tidy
<1> QED
  BY <1>1, <1>4 DEF RosterInv

\* What a handler that opens finds: nobody else, and the counter right.
LEMMA OpensAlone ==
    ASSUME RosterInv, NEW h \in Boards, NEW row, NEW what, OpensBoard(h, row, what), untidy' = {}
    PROVE  /\ untidy = {} /\ what = {} /\ NobodyWrites
           /\ \A p \in Apprentices : Even(p, 0)
           /\ BoardBecomes(h, row)
           /\ \A g \in Boards \ {h} : BoardAt(g, "idle")
<1>1. untidy = {} /\ what = {} /\ Beside = {}
  BY DEF OpensBoard
<1>2. NobodyWrites
  BY <1>1 DEF Beside
<1> QED
  BY <1>1, <1>2 DEF RosterInv, Tidy, OpensBoard, NobodyWrites

\* What a handler that is under way finds when it is alone.
LEMMA GoesAlone ==
    ASSUME RosterInv, NEW h \in Boards, ~BoardAt(h, "idle"), untidy = {}
    PROVE  /\ Knows(h) /\ \A p \in Apprentices : Even(p, Ahead(h, p))
           /\ \A g \in Boards \ {h} : BoardAt(g, "idle")
BY DEF RosterInv, Tidy

LEMMA MarkReadKeeps ==
    ASSUME RosterInv, NEW h \in Boards, NEW l \in Lessons,
           NEW status \in {"planned", "present", "absent"}, MarkRead(h, l, status)
    PROVE  RosterInv'
<1> DEFINE pc == IF Delta(lesson[l].status, status) # 0 /\ lesson[l].who # Nobody
                 THEN "markCount" ELSE "mark"
<1> PICK row : row = [IdleBoard EXCEPT !.lesson = l, !.seen = lesson, !.status = status, !.pc = pc]
  OBVIOUS
<1>1. OpensBoard(h, row, {}) /\ UNCHANGED <<lesson, done, typed>>
  BY DEF MarkRead
<1>2. BoardBecomes(h, row)
  BY <1>1 DEF OpensBoard
<1>3. row = [pc |-> pc, lesson |-> l, seen |-> lesson, status |-> status, who |-> Nobody, others |-> {}]
  BY DEF IdleBoard
<1>4. row \in BoardRows
  <2>1. pc \in {"markCount", "mark"} /\ lesson \in [Lessons -> LessonRows]
    BY DEF RosterInv, RosterTypeOK
  <2> HIDE DEF pc
  <2> QED
    BY <1>3, <2>1 DEF BoardRows
<1>5. RosterTypeOK'
  BY <1>1, <1>2, <1>4 DEF RosterInv, RosterTypeOK, BoardBecomes
<1>6. board'[h] = row
  BY <1>2 DEF BoardBecomes, RosterInv, RosterTypeOK
<1>7. ASSUME untidy' = {} PROVE Knows(h)'
  <2>1. board'[h].lesson = l /\ board'[h].seen = lesson /\ board'[h].others = {}
        /\ board'[h].pc = pc
    BY <1>3, <1>6
  <2>2. lesson' = lesson
    BY <1>1
  <2> QED
    BY <2>1, <2>2 DEF Knows
<1>8. ASSUME untidy' = {}, NEW p \in Apprentices PROVE Even(p, Ahead(h, p))'
  <2>1. Even(p, 0)
    BY <1>1, <1>8, OpensAlone
  <2>2. Ahead(h, p)' = 0
    <3>1. pc = "mark" /\ lesson[l].who = p => Delta(lesson[l].status, status) = 0
      BY RosterAssumption
    <3>2. board'[h].pc = pc /\ board'[h].lesson = l /\ board'[h].status = status /\ lesson' = lesson
      BY <1>1, <1>3, <1>6
    <3> QED
      BY <3>1, <3>2 DEF Ahead
  <2>3. Even(p, 0)'
    BY <1>1, <2>1 DEF Even, PresentIn
  <2> QED
    BY <2>2, <2>3 DEF Even
<1>9. untidy' = {} => \A g \in Boards \ {h} : BoardAt(g, "idle")
  BY <1>1, OpensAlone
<1>10. row.pc # "idle"
  BY <1>3
<1>11. Tidy'
  BY <1>2, <1>7, <1>8, <1>9, <1>10, AloneTidy DEF RosterInv, RosterTypeOK
<1> QED
  BY <1>5, <1>11 DEF RosterInv

LEMMA MarkCountKeeps ==
    ASSUME RosterInv, NEW h \in Boards, MarkCount(h)
    PROVE  RosterInv'
<1> PICK k : k = board[h]
  OBVIOUS
<1> PICK row : row = [k EXCEPT !.pc = "mark"]
  OBVIOUS
<1> DEFINE q == k.seen[k.lesson].who
           delta == Delta(k.seen[k.lesson].status, k.status)
<1>1. k \in BoardRows /\ k.pc = "markCount"
  BY DEF RosterInv, RosterTypeOK, MarkCount, BoardAt
<1>2. Bump(q, delta) /\ BoardBecomes(h, row) /\ UNCHANGED <<lesson, typed, opened>>
  BY DEF MarkCount
<1>3. row \in BoardRows /\ row.pc = "mark" /\ row.lesson = k.lesson /\ row.seen = k.seen
      /\ row.others = k.others /\ row.status = k.status /\ row.who = k.who
  BY <1>1 DEF BoardRows
<1>4. board'[h] = row
  BY <1>2 DEF BoardBecomes, RosterInv, RosterTypeOK
<1>5. delta \in {-1, 0, 1}
  BY DEF Delta
<1>6. done' \in [Apprentices -> 0..Goal] /\ (untidy' = {} => untidy = {})
  BY <1>2, <1>5, BumpTypes DEF RosterInv
<1>7. RosterTypeOK'
  BY <1>2, <1>3, <1>6 DEF RosterInv, RosterTypeOK, BoardBecomes
<1>8. ASSUME untidy' = {}
      PROVE  /\ Knows(h) /\ \A p \in Apprentices : Even(p, Ahead(h, p))
             /\ \A g \in Boards \ {h} : BoardAt(g, "idle")
  BY <1>1, <1>6, <1>8, GoesAlone DEF BoardAt
<1>9. ASSUME untidy' = {} PROVE Knows(h)'
  <2>1. Knows(h)
    BY <1>8, <1>9
  <2> QED
    BY <1>2, <1>3, <1>4, <2>1 DEF Knows
<1>10. ASSUME untidy' = {}, NEW p \in Apprentices PROVE Even(p, Ahead(h, p))'
  <2>1. /\ Even(p, Ahead(h, p)) /\ k.lesson \in Lessons /\ k.seen[k.lesson] = lesson[k.lesson]
        /\ lesson[k.lesson].who # Nobody
    BY <1>1, <1>8, <1>10 DEF Knows
  <2>2. q \in Apprentices
    BY <2>1 DEF RosterInv, RosterTypeOK, LessonRows
  <2>3. done'[p] = IF p = q THEN done[p] + delta ELSE done[p]
    BY <1>2, <1>5, <1>10, <2>2, BumpMoves DEF RosterInv
  <2>4. Ahead(h, p) = 0
    BY <1>1 DEF Ahead
  <2>5. Ahead(h, p)' = IF p = q THEN delta ELSE 0
    BY <1>2, <1>3, <1>4, <2>1 DEF Ahead
  <2>6. PresentIn(p)' = PresentIn(p) /\ typed' = typed
    BY <1>2 DEF PresentIn
  <2>7. done[p] \in Int /\ typed[p].present \in Int /\ typed[p].done \in Int /\ PresentIn(p) \in Int
    BY PresentIsNat DEF RosterInv, RosterTypeOK
  <2> HIDE DEF q, delta
  <2> QED
    BY <1>5, <2>1, <2>3, <2>4, <2>5, <2>6, <2>7 DEF Even
<1>11. Tidy'
  BY <1>2, <1>3, <1>8, <1>9, <1>10, AloneTidy DEF RosterInv, RosterTypeOK
<1> QED
  BY <1>7, <1>11 DEF RosterInv

LEMMA MarkWriteKeeps ==
    ASSUME RosterInv, NEW h \in Boards, MarkWrite(h)
    PROVE  RosterInv'
<1> PICK k : k = board[h]
  OBVIOUS
<1> PICK l : l = k.lesson
  OBVIOUS
<1>1. k \in BoardRows /\ k.pc = "mark"
  BY DEF RosterInv, RosterTypeOK, MarkWrite, BoardAt
<1>2. /\ lesson' = [lesson EXCEPT ![l].status = k.status]
      /\ BoardBecomes(h, IdleBoard) /\ UNCHANGED <<done, typed, opened, untidy>>
  BY DEF MarkWrite
<1>3. IdleBoard.pc = "idle"
  BY DEF IdleBoard
<1>4. lesson' \in [Lessons -> LessonRows]
  <2>1. lesson \in [Lessons -> LessonRows] /\ k.status \in {"planned", "present", "absent"}
    BY <1>1 DEF RosterInv, RosterTypeOK, BoardRows
  <2>2. ASSUME NEW r \in LessonRows PROVE [r EXCEPT !.status = k.status] \in LessonRows
    BY <2>1 DEF LessonRows
  <2> QED
    BY <1>2, <2>1, <2>2
<1>5. RosterTypeOK'
  BY <1>2, <1>4, RosterRows DEF RosterInv, RosterTypeOK, BoardBecomes
<1>6. ASSUME untidy' = {}
      PROVE  /\ Knows(h) /\ \A p \in Apprentices : Even(p, Ahead(h, p))
             /\ \A g \in Boards \ {h} : BoardAt(g, "idle")
  BY <1>1, <1>2, <1>6, GoesAlone DEF BoardAt
<1>7. ASSUME untidy' = {}, NEW p \in Apprentices PROVE Even(p, 0)'
  <2>1. Even(p, Ahead(h, p)) /\ l \in Lessons
    BY <1>6, <1>7 DEF Knows
  <2> PICK old : old = lesson[l]
    OBVIOUS
  <2> PICK new : new = [status |-> k.status, who |-> old.who]
    OBVIOUS
  <2>2. old \in LessonRows /\ new \in LessonRows
    BY <1>1, <2>1 DEF RosterInv, RosterTypeOK, LessonRows, BoardRows
  <2>3. lesson' = [lesson EXCEPT ![l] = new]
    <3>1. new = [old EXCEPT !.status = k.status]
      BY <2>2 DEF LessonRows
    <3> QED
      BY <1>2, <3>1
  <2>4. PresentIn(p)' = PresentIn(p) - Counts(old, p) + Counts(new, p)
    BY <2>1, <2>2, <2>3, PresentMoves DEF RosterInv
  <2>5. Ahead(h, p) = IF old.who = p THEN Delta(old.status, k.status) ELSE 0
    BY <1>1 DEF Ahead
  <2>6. /\ old = PresentRow(p) <=> old.status = "present" /\ old.who = p
        /\ new = PresentRow(p) <=> k.status = "present" /\ old.who = p
    BY <2>2 DEF LessonRows, PresentRow
  <2>7. PresentIn(p)' = PresentIn(p) + Ahead(h, p)
    <3>1. PresentIn(p) \in Int
      BY PresentIsNat
    <3> QED
      BY <2>4, <2>5, <2>6, <3>1 DEF Delta, Counts
  <2>8. done[p] \in Int /\ typed[p].present \in Int /\ typed[p].done \in Int /\ PresentIn(p) \in Int
        /\ Ahead(h, p) \in Int
    BY <2>5, PresentIsNat DEF RosterInv, RosterTypeOK, Delta
  <2> QED
    BY <1>2, <2>1, <2>7, <2>8 DEF Even
<1>8. Tidy'
  BY <1>2, <1>3, <1>6, <1>7, AloneTidy DEF RosterInv, RosterTypeOK
<1> QED
  BY <1>5, <1>8 DEF RosterInv

\* What Assigning makes of a row: its program counter, and nothing else.
LEMMA AssigningIs ==
    ASSUME NEW k \in BoardRows
    PROVE  /\ Assigning(k) \in BoardRows
           /\ Assigning(k).lesson = k.lesson /\ Assigning(k).seen = k.seen
           /\ Assigning(k).who = k.who /\ Assigning(k).others = k.others
           /\ \/ /\ Assigning(k).pc = "otherCount"
                 /\ k.others # {} /\ k.seen[Min(k.others)].status = "present"
              \/ /\ Assigning(k).pc = "other"
                 /\ k.others # {} /\ k.seen[Min(k.others)].status # "present"
              \/ Assigning(k).pc = "ownCount" /\ k.others = {} /\ GivesBack(k)
              \/ Assigning(k).pc = "own" /\ k.others = {} /\ ~GivesBack(k)
<1> DEFINE pc == IF k.others # {}
                 THEN IF k.seen[Min(k.others)].status = "present" THEN "otherCount" ELSE "other"
                 ELSE IF GivesBack(k) THEN "ownCount" ELSE "own"
<1>1. Assigning(k) = [k EXCEPT !.pc = pc]
  BY DEF Assigning
<1>2. \/ pc = "otherCount" /\ k.others # {} /\ k.seen[Min(k.others)].status = "present"
      \/ pc = "other" /\ k.others # {} /\ k.seen[Min(k.others)].status # "present"
      \/ pc = "ownCount" /\ k.others = {} /\ GivesBack(k)
      \/ pc = "own" /\ k.others = {} /\ ~GivesBack(k)
  OBVIOUS
<1>3. pc \in {"otherCount", "other", "ownCount", "own"}
  BY <1>2
<1> HIDE DEF pc
<1>4. /\ [k EXCEPT !.pc = pc] \in BoardRows
      /\ [k EXCEPT !.pc = pc].pc = pc
      /\ [k EXCEPT !.pc = pc].lesson = k.lesson /\ [k EXCEPT !.pc = pc].seen = k.seen
      /\ [k EXCEPT !.pc = pc].who = k.who /\ [k EXCEPT !.pc = pc].others = k.others
  BY <1>3 DEF BoardRows
<1> QED
  BY <1>1, <1>2, <1>4

\* A request that goes on with an assignment knows what it needs, and has not
\* moved the counter for the lesson that comes next.
LEMMA AssigningKnows ==
    ASSUME NEW h \in Boards, NEW k \in BoardRows, board'[h] = Assigning(k),
           lesson' \in [Lessons -> LessonRows], k.lesson \in Lessons,
           k.seen[k.lesson] = lesson'[k.lesson],
           \A m \in k.others : k.seen[m] = lesson'[m] /\ lesson'[m].who = k.who /\ m # k.lesson,
           k.others # {} => k.who \in Apprentices,
           lesson'[k.lesson] # PresentRow(k.who)
    PROVE  Knows(h)' /\ \A p \in Apprentices : Ahead(h, p)' = 0
<1> PICK n : n = board'[h]
  OBVIOUS
<1>1. /\ n.lesson = k.lesson /\ n.seen = k.seen /\ n.who = k.who /\ n.others = k.others
      /\ \/ n.pc = "otherCount" /\ k.others # {} /\ k.seen[Min(k.others)].status = "present"
         \/ n.pc = "other" /\ k.others # {} /\ k.seen[Min(k.others)].status # "present"
         \/ n.pc = "ownCount" /\ k.others = {} /\ GivesBack(k)
         \/ n.pc = "own" /\ k.others = {} /\ ~GivesBack(k)
  BY AssigningIs
<1>2. GivesBack(n) <=> GivesBack(k)
  BY <1>1 DEF GivesBack
<1>3. k.others # {} => Min(k.others) \in k.others
  <2>1. k.others \in SUBSET Nat
    BY RosterAssumption DEF BoardRows
  <2> QED
    BY <2>1, MinLeast
<1>4. Knows(h)'
  <2>1. n.pc = "otherCount" => lesson'[Min(k.others)].status = "present"
    BY <1>1, <1>3
  <2>2. n.pc # "markCount"
    BY <1>1
  <2> QED
    BY <1>1, <1>2, <2>1, <2>2 DEF Knows
<1>5. ASSUME NEW p \in Apprentices PROVE Ahead(h, p)' = 0
  <2>1. n.pc # "mark"
    BY <1>1
  <2>2. n.pc = "other" => lesson'[Min(k.others)] # PresentRow(p)
    BY <1>1, <1>3 DEF PresentRow
  <2>3. n.pc = "own" => lesson'[k.lesson] # PresentRow(p)
    <3>1. SUFFICES ASSUME lesson'[k.lesson] = PresentRow(p), ~GivesBack(k) PROVE FALSE
      BY <1>1
    <3>2. p # k.who
      BY <3>1
    <3>3. k.seen[k.lesson].status = "present" /\ k.seen[k.lesson].who = p
      BY <3>1 DEF PresentRow
    <3> QED
      BY <3>1, <3>2, <3>3, RosterAssumption DEF GivesBack
  <2> QED
    BY <1>1, <2>1, <2>2, <2>3 DEF Ahead
<1> QED
  BY <1>4, <1>5

LEMMA AssignReadKeeps ==
    ASSUME RosterInv, NEW h \in Boards, NEW l \in Lessons, NEW p \in Apprentices \cup {Nobody},
           AssignRead(h, l, p)
    PROVE  RosterInv'
<1> DEFINE others == IF p = Nobody THEN {} ELSE {m \in Lessons \ {l} : lesson[m].who = p}
           what == IF lesson[l] = [status |-> "present", who |-> p] THEN {"again"} ELSE {}
<1> PICK k : k = [IdleBoard EXCEPT !.lesson = l, !.seen = lesson, !.who = p, !.others = others]
  OBVIOUS
<1>1. OpensBoard(h, Assigning(k), what) /\ UNCHANGED <<lesson, done, typed>>
  BY DEF AssignRead
<1>2. BoardBecomes(h, Assigning(k))
  BY <1>1 DEF OpensBoard
<1>3. k = [pc |-> "idle", lesson |-> l, seen |-> lesson, status |-> "planned", who |-> p, others |-> others]
  BY DEF IdleBoard
<1>4. k \in BoardRows
  <2>1. others \in SUBSET Lessons /\ lesson \in [Lessons -> LessonRows]
    BY DEF RosterInv, RosterTypeOK
  <2> HIDE DEF others
  <2> QED
    BY <1>3, <2>1 DEF BoardRows
<1>5. Assigning(k) \in BoardRows /\ Assigning(k).pc # "idle"
  BY <1>4, AssigningIs
<1>6. RosterTypeOK'
  BY <1>1, <1>2, <1>5 DEF RosterInv, RosterTypeOK, BoardBecomes
<1>7. board'[h] = Assigning(k)
  BY <1>2 DEF BoardBecomes, RosterInv, RosterTypeOK
<1>8. ASSUME untidy' = {} PROVE Knows(h)' /\ \A q \in Apprentices : Ahead(h, q)' = 0
  <2>1. what = {}
    BY <1>1, <1>8, OpensAlone
  <2>2. lesson[l] # PresentRow(p)
    BY <2>1 DEF PresentRow
  <2>3. lesson' \in [Lessons -> LessonRows] /\ lesson' = lesson
    BY <1>1, <1>6 DEF RosterTypeOK
  <2>4. /\ k.lesson = l /\ k.seen = lesson /\ k.who = p /\ k.others = others
    BY <1>3
  <2>5. /\ \A m \in others : lesson[m].who = p /\ m # l
        /\ others # {} => p \in Apprentices
    OBVIOUS
  <2> HIDE DEF others, what
  <2> QED
    BY <1>4, <1>7, <2>2, <2>3, <2>4, <2>5, AssigningKnows
<1>9. ASSUME untidy' = {}, NEW q \in Apprentices PROVE Even(q, Ahead(h, q))'
  <2>1. Even(q, 0)
    BY <1>1, <1>9, OpensAlone
  <2>2. Even(q, 0)'
    BY <1>1, <2>1 DEF Even, PresentIn
  <2> QED
    BY <1>8, <1>9, <2>2 DEF Even
<1>10. untidy' = {} => \A g \in Boards \ {h} : BoardAt(g, "idle")
  BY <1>1, OpensAlone
<1>11. Tidy'
  BY <1>2, <1>5, <1>8, <1>9, <1>10, AloneTidy DEF RosterInv, RosterTypeOK
<1> QED
  BY <1>6, <1>11 DEF RosterInv

LEMMA OtherCountKeeps ==
    ASSUME RosterInv, NEW h \in Boards, OtherCount(h)
    PROVE  RosterInv'
<1> PICK k : k = board[h]
  OBVIOUS
<1> PICK row : row = [k EXCEPT !.pc = "other"]
  OBVIOUS
<1>1. k \in BoardRows /\ k.pc = "otherCount"
  BY DEF RosterInv, RosterTypeOK, OtherCount, BoardAt
<1>2. Bump(k.who, -1) /\ BoardBecomes(h, row) /\ UNCHANGED <<lesson, typed, opened>>
  BY DEF OtherCount
<1>3. row \in BoardRows /\ row.pc = "other" /\ row.lesson = k.lesson /\ row.seen = k.seen
      /\ row.others = k.others /\ row.status = k.status /\ row.who = k.who
  BY <1>1 DEF BoardRows
<1>4. board'[h] = row
  BY <1>2 DEF BoardBecomes, RosterInv, RosterTypeOK
<1>5. done' \in [Apprentices -> 0..Goal] /\ (untidy' = {} => untidy = {})
  BY <1>2, BumpTypes DEF RosterInv
<1>6. RosterTypeOK'
  BY <1>2, <1>3, <1>5 DEF RosterInv, RosterTypeOK, BoardBecomes
<1>7. ASSUME untidy' = {}
      PROVE  /\ Knows(h) /\ \A p \in Apprentices : Even(p, Ahead(h, p))
             /\ \A g \in Boards \ {h} : BoardAt(g, "idle")
  BY <1>1, <1>5, <1>7, GoesAlone DEF BoardAt
<1>8. ASSUME untidy' = {} PROVE Knows(h)'
  <2>1. Knows(h)
    BY <1>7, <1>8
  <2> QED
    BY <1>1, <1>2, <1>3, <1>4, <2>1 DEF Knows
<1>9. ASSUME untidy' = {}, NEW p \in Apprentices PROVE Even(p, Ahead(h, p))'
  <2> PICK m : m = Min(k.others)
    OBVIOUS
  <2>1. /\ Even(p, Ahead(h, p)) /\ k.who \in Apprentices /\ k.others # {}
        /\ lesson[m].status = "present"
        /\ \A o \in k.others : lesson[o].who = k.who
    BY <1>1, <1>7, <1>9 DEF Knows
  <2>2. m \in k.others /\ m \in Lessons
    <3>1. k.others \in SUBSET Lessons /\ k.others \in SUBSET Nat
      BY <1>1, RosterAssumption DEF BoardRows
    <3> QED
      BY <2>1, <3>1, MinLeast
  <2>3. lesson[m] = PresentRow(k.who)
    <3>1. lesson[m] \in LessonRows /\ lesson[m].who = k.who
      BY <2>1, <2>2 DEF RosterInv, RosterTypeOK
    <3> QED
      BY <2>1, <3>1 DEF LessonRows, PresentRow
  <2>4. lesson[m] = PresentRow(p) <=> p = k.who
    BY <2>3 DEF PresentRow
  <2>5. done'[p] = IF p = k.who THEN done[p] + -1 ELSE done[p]
    BY <1>2, <1>9, <2>1, BumpMoves DEF RosterInv
  <2>6. Ahead(h, p) = 0
    BY <1>1 DEF Ahead
  <2>7. Ahead(h, p)' = IF p = k.who THEN -1 ELSE 0
    BY <1>2, <1>3, <1>4, <2>4 DEF Ahead
  <2>8. PresentIn(p)' = PresentIn(p) /\ typed' = typed
    BY <1>2 DEF PresentIn
  <2>9. done[p] \in Int /\ typed[p].present \in Int /\ typed[p].done \in Int /\ PresentIn(p) \in Int
    BY PresentIsNat DEF RosterInv, RosterTypeOK
  <2> QED
    BY <2>1, <2>5, <2>6, <2>7, <2>8, <2>9 DEF Even
<1>10. Tidy'
  BY <1>2, <1>3, <1>7, <1>8, <1>9, AloneTidy DEF RosterInv, RosterTypeOK
<1> QED
  BY <1>6, <1>10 DEF RosterInv

LEMMA OtherWriteKeeps ==
    ASSUME RosterInv, NEW h \in Boards, OtherWrite(h)
    PROVE  RosterInv'
<1> PICK k : k = board[h]
  OBVIOUS
<1> PICK m : m = Min(k.others)
  OBVIOUS
<1> PICK left : left = k.others \ {m}
  OBVIOUS
<1> PICK row : row = [k EXCEPT !.others = left]
  OBVIOUS
<1>1. k \in BoardRows /\ k.pc = "other"
  BY DEF RosterInv, RosterTypeOK, OtherWrite, BoardAt
<1>2. /\ lesson' = [lesson EXCEPT ![m] = Planned(Default(m))]
      /\ BoardBecomes(h, Assigning(row)) /\ UNCHANGED <<done, typed, opened, untidy>>
  <2>1. row = [k EXCEPT !.others = @ \ {m}]
    OBVIOUS
  <2> QED
    BY <2>1 DEF OtherWrite
<1>3. row \in BoardRows /\ row.lesson = k.lesson /\ row.seen = k.seen
      /\ row.others = left /\ row.who = k.who
  BY <1>1 DEF BoardRows
<1>4. Assigning(row) \in BoardRows /\ Assigning(row).pc # "idle"
  BY <1>3, AssigningIs
<1>5. lesson' \in [Lessons -> LessonRows]
  <2>1. CASE m \in Lessons
    <3>1. Planned(Default(m)) \in LessonRows
      BY <2>1, RosterRows, RosterAssumption
    <3> QED
      BY <1>2, <3>1 DEF RosterInv, RosterTypeOK
  <2>2. CASE m \notin Lessons
    BY <1>2, <2>2 DEF RosterInv, RosterTypeOK
  <2> QED
    BY <2>1, <2>2
<1>6. RosterTypeOK'
  BY <1>2, <1>4, <1>5 DEF RosterInv, RosterTypeOK, BoardBecomes
<1>7. board'[h] = Assigning(row)
  BY <1>2 DEF BoardBecomes, RosterInv, RosterTypeOK
<1>8. ASSUME untidy' = {}
      PROVE  /\ Knows(h) /\ \A p \in Apprentices : Even(p, Ahead(h, p))
             /\ \A g \in Boards \ {h} : BoardAt(g, "idle")
  BY <1>1, <1>2, <1>8, GoesAlone DEF BoardAt
<1>9. ASSUME untidy' = {}
      PROVE  /\ m \in k.others /\ m \in Lessons
             /\ \A l \in Lessons \ {m} : lesson'[l] = lesson[l]
             /\ k.lesson \in Lessons \ {m} /\ k.who \in Apprentices
             /\ k.seen[k.lesson] = lesson[k.lesson] /\ lesson[k.lesson] # PresentRow(k.who)
             /\ \A o \in left : /\ o \in Lessons \ {m} /\ k.seen[o] = lesson[o]
                                /\ lesson[o].who = k.who /\ o # k.lesson
  <2>1. k.others \in SUBSET Lessons /\ k.others \in SUBSET Nat
    BY <1>1, RosterAssumption DEF BoardRows
  <2>2. /\ k.lesson \in Lessons /\ k.others # {} /\ k.who \in Apprentices
        /\ k.seen[k.lesson] = lesson[k.lesson] /\ lesson[k.lesson] # PresentRow(k.who)
        /\ \A o \in k.others : k.seen[o] = lesson[o] /\ lesson[o].who = k.who /\ o # k.lesson
    BY <1>1, <1>8, <1>9 DEF Knows
  <2>3. m \in k.others
    BY <2>1, <2>2, MinLeast
  <2>4. \A l \in Lessons \ {m} : lesson'[l] = lesson[l]
    BY <1>2 DEF RosterInv, RosterTypeOK
  <2> QED
    BY <2>1, <2>2, <2>3, <2>4
<1>10. ASSUME untidy' = {} PROVE Knows(h)' /\ \A p \in Apprentices : Ahead(h, p)' = 0
  <2>1. /\ row.lesson \in Lessons /\ row.seen[row.lesson] = lesson'[row.lesson]
        /\ lesson'[row.lesson] # PresentRow(row.who) /\ row.who \in Apprentices
        /\ \A o \in row.others : row.seen[o] = lesson'[o] /\ lesson'[o].who = row.who /\ o # row.lesson
    BY <1>3, <1>9, <1>10
  <2> QED
    BY <1>3, <1>5, <1>7, <2>1, AssigningKnows
<1>11. ASSUME untidy' = {}, NEW p \in Apprentices PROVE Even(p, Ahead(h, p))'
  <2>1. Even(p, Ahead(h, p)) /\ m \in Lessons
    BY <1>8, <1>9, <1>11
  <2>2. Planned(Default(m)) \in LessonRows /\ Planned(Default(m)) # PresentRow(p)
    BY <2>1, RosterRows, RosterAssumption DEF Planned, PresentRow
  <2>3. PresentIn(p)' = PresentIn(p) - Counts(lesson[m], p) + 0
    <3>1. Counts(Planned(Default(m)), p) = 0
      BY <2>2 DEF Counts
    <3> QED
      BY <1>2, <2>1, <2>2, <3>1, PresentMoves DEF RosterInv
  <2>4. Ahead(h, p) = -Counts(lesson[m], p)
    BY <1>1 DEF Ahead, Counts
  <2>5. Ahead(h, p)' = 0
    BY <1>10, <1>11
  <2>6. /\ done[p] \in Int /\ typed[p].present \in Int /\ typed[p].done \in Int
        /\ PresentIn(p) \in Int /\ Counts(lesson[m], p) \in Int
    BY PresentIsNat DEF RosterInv, RosterTypeOK, Counts
  <2> QED
    BY <1>2, <2>1, <2>3, <2>4, <2>5, <2>6 DEF Even
<1>12. Tidy'
  BY <1>2, <1>4, <1>8, <1>10, <1>11, AloneTidy DEF RosterInv, RosterTypeOK
<1> QED
  BY <1>6, <1>12 DEF RosterInv

LEMMA OwnCountKeeps ==
    ASSUME RosterInv, NEW h \in Boards, OwnCount(h)
    PROVE  RosterInv'
<1> PICK k : k = board[h]
  OBVIOUS
<1> PICK row : row = [k EXCEPT !.pc = "own"]
  OBVIOUS
<1> DEFINE q == k.seen[k.lesson].who
<1>1. k \in BoardRows /\ k.pc = "ownCount"
  BY DEF RosterInv, RosterTypeOK, OwnCount, BoardAt
<1>2. Bump(q, -1) /\ BoardBecomes(h, row) /\ UNCHANGED <<lesson, typed, opened>>
  BY DEF OwnCount
<1>3. row \in BoardRows /\ row.pc = "own" /\ row.lesson = k.lesson /\ row.seen = k.seen
      /\ row.others = k.others /\ row.status = k.status /\ row.who = k.who
  BY <1>1 DEF BoardRows
<1>4. board'[h] = row
  BY <1>2 DEF BoardBecomes, RosterInv, RosterTypeOK
<1>5. done' \in [Apprentices -> 0..Goal] /\ (untidy' = {} => untidy = {})
  BY <1>2, BumpTypes DEF RosterInv
<1>6. RosterTypeOK'
  BY <1>2, <1>3, <1>5 DEF RosterInv, RosterTypeOK, BoardBecomes
<1>7. ASSUME untidy' = {}
      PROVE  /\ Knows(h) /\ \A p \in Apprentices : Even(p, Ahead(h, p))
             /\ \A g \in Boards \ {h} : BoardAt(g, "idle")
  BY <1>1, <1>5, <1>7, GoesAlone DEF BoardAt
<1>8. ASSUME untidy' = {} PROVE Knows(h)'
  <2>1. Knows(h)
    BY <1>7, <1>8
  <2> QED
    BY <1>1, <1>2, <1>3, <1>4, <2>1 DEF Knows
<1>9. ASSUME untidy' = {}, NEW p \in Apprentices PROVE Even(p, Ahead(h, p))'
  <2>1. /\ Even(p, Ahead(h, p)) /\ GivesBack(k) /\ k.lesson \in Lessons
        /\ k.seen[k.lesson] = lesson[k.lesson]
    BY <1>1, <1>7, <1>9 DEF Knows
  <2>2. lesson[k.lesson] \in LessonRows /\ lesson[k.lesson].who = q /\ lesson[k.lesson].status = "present"
        /\ q # Nobody
    BY <2>1 DEF RosterInv, RosterTypeOK, GivesBack
  <2>3. q \in Apprentices /\ lesson[k.lesson] = PresentRow(q)
    BY <2>2 DEF LessonRows, PresentRow
  <2>4. lesson[k.lesson] = PresentRow(p) <=> p = q
    BY <2>3 DEF PresentRow
  <2>5. done'[p] = IF p = q THEN done[p] + -1 ELSE done[p]
    BY <1>2, <1>9, <2>3, BumpMoves DEF RosterInv
  <2>6. Ahead(h, p) = 0
    BY <1>1 DEF Ahead
  <2> HIDE DEF q
  <2>7. Ahead(h, p)' = IF p = q THEN -1 ELSE 0
    BY <1>2, <1>3, <1>4, <2>4 DEF Ahead
  <2>8. PresentIn(p)' = PresentIn(p) /\ typed' = typed
    BY <1>2 DEF PresentIn
  <2>9. done[p] \in Int /\ typed[p].present \in Int /\ typed[p].done \in Int /\ PresentIn(p) \in Int
    BY PresentIsNat DEF RosterInv, RosterTypeOK
  <2> QED
    BY <2>1, <2>5, <2>6, <2>7, <2>8, <2>9 DEF Even
<1>10. Tidy'
  BY <1>2, <1>3, <1>7, <1>8, <1>9, AloneTidy DEF RosterInv, RosterTypeOK
<1> QED
  BY <1>6, <1>10 DEF RosterInv

LEMMA OwnWriteKeeps ==
    ASSUME RosterInv, NEW h \in Boards, OwnWrite(h)
    PROVE  RosterInv'
<1> PICK k : k = board[h]
  OBVIOUS
<1> PICK l : l = k.lesson
  OBVIOUS
<1>1. k \in BoardRows /\ k.pc = "own"
  BY DEF RosterInv, RosterTypeOK, OwnWrite, BoardAt
<1>2. /\ lesson' = [lesson EXCEPT ![l] = Planned(k.who)]
      /\ BoardBecomes(h, IdleBoard) /\ UNCHANGED <<done, typed, opened, untidy>>
  BY DEF OwnWrite
<1>3. IdleBoard.pc = "idle"
  BY DEF IdleBoard
<1>4. Planned(k.who) \in LessonRows
  BY <1>1, RosterRows DEF BoardRows
<1>5. RosterTypeOK'
  BY <1>2, <1>4, RosterRows DEF RosterInv, RosterTypeOK, BoardBecomes
<1>6. ASSUME untidy' = {}
      PROVE  /\ Knows(h) /\ \A p \in Apprentices : Even(p, Ahead(h, p))
             /\ \A g \in Boards \ {h} : BoardAt(g, "idle")
  BY <1>1, <1>2, <1>6, GoesAlone DEF BoardAt
<1>7. ASSUME untidy' = {}, NEW p \in Apprentices PROVE Even(p, 0)'
  <2>1. Even(p, Ahead(h, p)) /\ l \in Lessons
    BY <1>6, <1>7 DEF Knows
  <2>2. PresentIn(p)' = PresentIn(p) - Counts(lesson[l], p) + 0
    <3>1. Counts(Planned(k.who), p) = 0
      BY DEF Counts, Planned, PresentRow
    <3> QED
      BY <1>2, <1>4, <2>1, <3>1, PresentMoves DEF RosterInv
  <2>3. Ahead(h, p) = -Counts(lesson[l], p)
    BY <1>1 DEF Ahead, Counts
  <2>4. /\ done[p] \in Int /\ typed[p].present \in Int /\ typed[p].done \in Int
        /\ PresentIn(p) \in Int /\ Counts(lesson[l], p) \in Int
    BY PresentIsNat DEF RosterInv, RosterTypeOK, Counts
  <2> QED
    BY <1>2, <2>1, <2>2, <2>3, <2>4 DEF Even
<1>8. Tidy'
  BY <1>2, <1>3, <1>6, <1>7, AloneTidy DEF RosterInv, RosterTypeOK
<1> QED
  BY <1>5, <1>8 DEF RosterInv

\* What the studio types is the new beginning.
LEMMA ProgressKeeps ==
    ASSUME RosterInv, NEW q \in Apprentices, NEW n \in 0..Goal, SetProgress(q, n)
    PROVE  RosterInv'
<1>1. /\ done' = [done EXCEPT ![q] = n]
      /\ typed' = [typed EXCEPT ![q] = [done |-> n, present |-> PresentIn(q)]]
      /\ untidy' = untidy \cup Beside /\ UNCHANGED <<lesson, board>>
  BY DEF SetProgress
<1>2. RosterTypeOK'
  <2>1. PresentIn(q) \in Nat
    BY PresentIsNat
  <2> QED
    BY <1>1, <2>1 DEF RosterInv, RosterTypeOK
<1>3. ASSUME untidy' = {} PROVE untidy = {} /\ NobodyWrites /\ NobodyWrites'
  BY <1>1, <1>3 DEF Beside, NobodyWrites, BoardAt
<1>4. ASSUME untidy' = {}, NEW p \in Apprentices PROVE Even(p, 0)'
  <2>1. Even(p, 0)
    BY <1>3, <1>4 DEF RosterInv, Tidy
  <2>2. PresentIn(p)' = PresentIn(p)
    BY <1>1 DEF PresentIn
  <2>3. CASE p = q
    <3>1. done'[p] = n /\ typed'[p].done = n /\ typed'[p].present = PresentIn(p)
      BY <1>1, <2>3 DEF RosterInv, RosterTypeOK
    <3> QED
      BY <2>2, <3>1, PresentIsNat, RosterAssumption DEF Even
  <2>4. CASE p # q
    <3>1. done'[p] = done[p] /\ typed'[p] = typed[p]
      BY <1>1, <2>4 DEF RosterInv, RosterTypeOK
    <3> QED
      BY <2>1, <2>2, <3>1 DEF Even
  <2> QED
    BY <2>3, <2>4
<1>5. Tidy'
  BY <1>3, <1>4 DEF Tidy, NobodyWrites
<1> QED
  BY <1>2, <1>5 DEF RosterInv

LEMMA BoardStopKeeps ==
    ASSUME RosterInv, NEW h \in Boards, BoardStops(h)
    PROVE  RosterInv'
<1>1. untidy' # {}
  BY DEF BoardStops
<1>2. RosterTypeOK'
  BY RosterRows DEF RosterInv, RosterTypeOK, BoardStops, BoardBecomes
<1> QED
  BY <1>1, <1>2 DEF RosterInv, Tidy

-----------------------------------------------------------------------------
(* The theorem *)

LEMMA RosterInvStep == RosterInv /\ [RosterNext]_rosterVars => RosterInv'
<1>1. ASSUME RosterInv, RosterNext PROVE RosterInv'
  <2>1. ASSUME NEW h \in Boards, BoardStep(h) PROVE RosterInv'
    BY <1>1, <2>1, MarkCountKeeps, MarkWriteKeeps, OtherCountKeeps, OtherWriteKeeps, OwnCountKeeps,
       OwnWriteKeeps, BoardStopKeeps DEF BoardStep
  <2> QED
    BY <1>1, <2>1, MarkReadKeeps, AssignReadKeeps, ProgressKeeps DEF RosterNext
<1>2. ASSUME RosterInv, UNCHANGED rosterVars PROVE RosterInv'
  <2>1. UNCHANGED <<lesson, done, board, typed, opened, untidy>>
    BY <1>2 DEF rosterVars
  <2>2. RosterTypeOK'
    BY <1>2, <2>1 DEF RosterInv, RosterTypeOK
  <2>3. \A h \in Boards : (BoardAt(h, "idle")' <=> BoardAt(h, "idle")) /\ (Knows(h)' <=> Knows(h))
    BY <2>1 DEF BoardAt, Knows
  <2>4. \A h \in Boards, p \in Apprentices : Ahead(h, p)' = Ahead(h, p)
    BY <2>1 DEF Ahead
  <2>5. \A p \in Apprentices : PresentIn(p)' = PresentIn(p)
    BY <2>1 DEF PresentIn
  <2>6. NobodyWrites' <=> NobodyWrites
    BY <2>3 DEF NobodyWrites
  <2>7. Tidy'
    BY <1>2, <2>1, <2>3, <2>4, <2>5, <2>6 DEF RosterInv, Tidy, Even
  <2> QED
    BY <2>2, <2>7 DEF RosterInv
<1> QED
  BY <1>1, <1>2

\* Lessons, counters and requests hold what their columns may hold: the counter
\* stays between 0 and the goal, whatever requests overlap or stop.
THEOREM RosterTypes == RosterSpec => []RosterTypeOK
<1>1. RosterInv => RosterTypeOK
  BY DEF RosterInv
<1> QED
  BY <1>1, RosterInvInit, RosterInvStep, PTL DEF RosterSpec

\* One request after another, through marks, swaps of lessons and substitutes,
\* the counter of an apprentice is what the studio typed and the lessons the
\* apprentice has been present in since.
THEOREM CounterCountsLessons == RosterSpec => []AttendedIsCounted
<1>1. RosterInv => AttendedIsCounted
  <2> SUFFICES ASSUME RosterInv, NobodyWrites, untidy = {}, NEW p \in Apprentices
               PROVE  done[p] + typed[p].present = typed[p].done + PresentIn(p)
    BY DEF AttendedIsCounted
  <2>1. Even(p, 0)
    BY DEF RosterInv, Tidy
  <2>2. typed[p].done \in Int /\ PresentIn(p) \in Int
    BY PresentIsNat DEF RosterInv, RosterTypeOK
  <2> QED
    BY <2>1, <2>2 DEF Even
<1> QED
  BY <1>1, RosterInvInit, RosterInvStep, PTL DEF RosterSpec
=============================================================================
