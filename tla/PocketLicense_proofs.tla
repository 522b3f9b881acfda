------------------------ MODULE PocketLicense_proofs ------------------------
(***************************************************************************)
(* Proofs about PocketLicense: for any number of devices, rows, handlers   *)
(* and keys, and any MAX_DEVICES.                                          *)
(***************************************************************************)
EXTENDS PocketLicense, FiniteSetTheorems, TLAPS

-----------------------------------------------------------------------------
(* Types *)

\* A handler that is still busy with the key knows what it does next.
OpKnown ==
    \A w \in Workers : worker[w].pc \in {"keyInsert", "keyReread"} => worker[w].op \in Ops

TypeInv == TypeOK /\ OpKnown

\* The parts of TypeInv that concern one worker's row.
WellFormed(row) ==
    /\ row \in WorkerRows
    /\ row.pc \in {"keyInsert", "keyReread"} => row.op \in Ops

\* A step that writes a well-formed row for one worker keeps the rows well-formed.
LEMMA BecomeKeeps ==
    ASSUME TypeInv, NEW w \in Workers, NEW row, WellFormed(row), Become(w, row)
    PROVE  worker' \in [Workers -> WorkerRows] /\ OpKnown'
BY DEF TypeInv, TypeOK, OpKnown, Become, WellFormed

\* An idle worker is well-formed.
LEMMA IdleWellFormed == WellFormed(IdleWorker)
BY MaxDevicesIsPositive DEF WellFormed, IdleWorker, WorkerRows, LicenceSteps

\* So is a worker whose program counter moves on to a step that is not one of
\* the key's, or that keeps an operation.
LEMMA GotoWellFormed ==
    ASSUME TypeInv, NEW w \in Workers, NEW pc \in LicenceSteps \ {"keyInsert", "keyReread"}
    PROVE  WellFormed([worker[w] EXCEPT !.pc = pc])
BY DEF TypeInv, TypeOK, WellFormed, WorkerRows

LEMMA TypeInit == LicenceInit => TypeInv
BY MaxDevicesIsPositive
DEF LicenceInit, TypeInv, TypeOK, OpKnown, Licences, ActivationRows, WorkerRows, IdleWorker, LicenceSteps

LEMMA TypeStep == TypeInv /\ [LicenceNext]_licenceVars => TypeInv'
<1> SUFFICES ASSUME TypeInv, [LicenceNext]_licenceVars PROVE TypeInv'
  OBVIOUS
<1> USE DEF TypeInv
<1>1. CASE UNCHANGED licenceVars
  BY <1>1 DEF licenceVars, TypeOK, OpKnown
<1>2. CASE Revoke
  BY <1>2 DEF Revoke, TypeOK, OpKnown, Licences
<1>3. ASSUME NEW w \in Workers, Step(w) PROVE TypeInv'
  <2> DEFINE me == worker[w]
  <2>0. me \in WorkerRows /\ me.key \in KeyPairs \cup {NoKeyPair} /\ me.max \in 1..MaxPhones
        /\ me.device \in Phones \cup {NoPhone}
        /\ lic.active \in Nat /\ lic.max \in 1..MaxPhones /\ OneLess(lic.active) \in Nat
    BY DEF TypeOK, WorkerRows, Licences, OneLess
  <2>1. ASSUME NEW op \in Ops, NEW d \in Phones \cup {NoPhone}, Begin(w, op, d)
        PROVE  TypeInv'
    <3> DEFINE row == [pc |-> IF primary = NoKeyPair THEN "keyInsert" ELSE op,
                       op |-> op, device |-> d, key |-> primary, max |-> 1]
    <3>1. WellFormed(row)
      <4>1. (IF primary = NoKeyPair THEN "keyInsert" ELSE op) \in LicenceSteps
        <5>1. op \in LicenceSteps /\ "keyInsert" \in LicenceSteps
          BY DEF LicenceSteps, Ops
        <5> QED
          BY <5>1
      <4>2. primary \in KeyPairs \cup {NoKeyPair} /\ 1 \in 1..MaxPhones
        BY MaxDevicesIsPositive DEF TypeOK
      <4> QED
        BY <4>1, <4>2 DEF WellFormed, WorkerRows
    <3>2. Become(w, row)
      BY <2>1 DEF Begin
    <3> HIDE DEF row
    <3> QED
      BY <2>1, <3>1, <3>2, BecomeKeeps DEF Begin, TypeOK
  <2>2. ASSUME NEW k \in KeyPairs, KeyInsert(w, k) PROVE TypeInv'
    <3> DEFINE row == [worker[w] EXCEPT !.pc = "keyReread", !.key = k]
    <3>1. WellFormed(row)
      BY <2>2 DEF KeyInsert, At, TypeOK, OpKnown, WellFormed, WorkerRows, LicenceSteps
    <3>2. Become(w, row) /\ primary' \in KeyPairs \cup {NoKeyPair}
      BY <2>2 DEF KeyInsert, TypeOK
    <3> HIDE DEF row
    <3> QED
      BY <2>2, <3>1, <3>2, BecomeKeeps DEF KeyInsert, TypeOK
  <2>3. CASE KeyReread(w)
    <3> DEFINE row == [worker[w] EXCEPT !.pc = worker[w].op, !.key = KeyReadBack(w)]
    <3>1. WellFormed(row)
      BY <2>3 DEF KeyReread, At, KeyReadBack, TypeOK, OpKnown, WellFormed, WorkerRows, LicenceSteps, Ops
    <3>2. Become(w, row)
      BY <2>3 DEF KeyReread
    <3> HIDE DEF row
    <3> QED
      BY <2>3, <3>1, <3>2, BecomeKeeps DEF KeyReread, TypeOK
  <2>4. ASSUME NEW n \in 1..MaxPhones, Issue(w, n) PROVE TypeInv'
    <3>1. lic' \in Licences
      BY <2>4 DEF Issue, TypeOK, Licences
    <3> QED
      BY <2>4, <3>1, IdleWellFormed, BecomeKeeps DEF Issue, Done, TypeOK
  <2>5. ASSUME NEW n \in AllowedMax, UpdateRead(w, n) PROVE TypeInv'
    <3> DEFINE row == [IdleWorker EXCEPT !.pc = "updateWrite", !.max = n]
    <3>1. WellFormed(row)
      BY <2>0 DEF AllowedMax, WellFormed, IdleWorker, WorkerRows, LicenceSteps
    <3>2. Become(w, row)
      BY <2>5 DEF UpdateRead
    <3> HIDE DEF row
    <3> QED
      BY <2>5, <3>1, <3>2, BecomeKeeps DEF UpdateRead, TypeOK
  <2>6. CASE Publish(w) \/ Sign(w)
    <3>1. Become(w, IdleWorker) /\ shown' = shown \cup {me.key}
          /\ UNCHANGED <<lic, acts, primary, lostSlots>>
      BY <2>6 DEF Publish, Sign, Done
    <3> HIDE DEF me
    <3> QED
      BY <2>0, <3>1, IdleWellFormed, BecomeKeeps DEF TypeOK
  <2>7. CASE ReadLicence(w) \/ BindLive(w) \/ BindAgain(w) \/ RefreshTouch(w)
    <3>1. PICK row : Become(w, row) /\ WellFormed(row)
      <4>1. \E pc \in LicenceSteps \ {"keyInsert", "keyReread"} : Done(w) \/ Goto(w, pc)
        BY <2>7 DEF ReadLicence, BindLive, BindAgain, RefreshTouch, LicenceSteps
      <4> QED
        BY <4>1, GotoWellFormed, IdleWellFormed DEF Goto, Done
    <3> QED
      BY <2>7, <3>1, BecomeKeeps
      DEF ReadLicence, BindLive, BindAgain, RefreshTouch, TypeOK
  <2>8. CASE BindSlot(w)
    <3>1. lic' \in Licences
      BY <2>8 DEF BindSlot, TypeOK, Licences
    <3>2. Become(w, IdleWorker) \/ Become(w, [worker[w] EXCEPT !.pc = "insert"])
      BY <2>8 DEF BindSlot, Goto, Done
    <3>3. "insert" \in LicenceSteps \ {"keyInsert", "keyReread"}
      BY DEF LicenceSteps
    <3> QED
      BY <2>8, <3>1, <3>2, <3>3, GotoWellFormed, IdleWellFormed, BecomeKeeps
      DEF BindSlot, TypeOK
  <2>9. ASSUME NEW a \in RowIds, BindInsert(w, a) PROVE TypeInv'
    <3>1. acts' \in [RowIds -> ActivationRows]
      BY <2>0, <2>9 DEF BindInsert, TypeOK, ActivationRows
    <3>2. \E pc \in {"sign", "giveBack"} : Become(w, [worker[w] EXCEPT !.pc = pc])
      BY <2>9 DEF BindInsert, Goto, AfterConflict
    <3>3. {"sign", "giveBack"} \subseteq LicenceSteps \ {"keyInsert", "keyReread"}
      BY DEF LicenceSteps
    <3> QED
      BY <2>9, <3>1, <3>2, <3>3, GotoWellFormed, BecomeKeeps DEF BindInsert, TypeOK
  <2>10. CASE BindGiveBack(w) \/ UpdateWrite(w) \/ ReleaseCount(w)
    <3>1. lic' \in Licences
      BY <2>0, <2>10 DEF BindGiveBack, UpdateWrite, ReleaseCount, TypeOK, Licences
    <3>2. Become(w, IdleWorker) \/ Become(w, [worker[w] EXCEPT !.pc = "again"])
      BY <2>10 DEF BindGiveBack, UpdateWrite, ReleaseCount, Goto, Done
    <3>3. "again" \in LicenceSteps \ {"keyInsert", "keyReread"}
      BY DEF LicenceSteps
    <3> QED
      BY <2>10, <3>1, <3>2, <3>3, GotoWellFormed, IdleWellFormed, BecomeKeeps
      DEF BindGiveBack, UpdateWrite, ReleaseCount, TypeOK
  <2>11. ASSUME NEW a \in RowIds, ReleaseRow(w, a) PROVE TypeInv'
    <3> DEFINE row == [IdleWorker EXCEPT !.pc = "releaseCount"]
    <3>1. WellFormed(row)
      BY MaxDevicesIsPositive DEF WellFormed, IdleWorker, WorkerRows, LicenceSteps
    <3>2. acts' \in [RowIds -> ActivationRows]
      BY <2>11 DEF ReleaseRow, TypeOK, ActivationRows
    <3>3. Become(w, row)
      BY <2>11 DEF ReleaseRow
    <3> HIDE DEF row
    <3> QED
      BY <2>11, <3>1, <3>2, <3>3, BecomeKeeps DEF ReleaseRow, TypeOK
  <2>12. CASE Abort(w)
    <3>1. lostSlots' \in Nat
      BY <2>12 DEF Abort, TypeOK
    <3> QED
      BY <2>12, <3>1, IdleWellFormed, BecomeKeeps DEF Abort, Done, TypeOK
  <2> QED
    BY <1>3, <2>1, <2>2, <2>3, <2>4, <2>5, <2>6, <2>7, <2>8, <2>9, <2>10, <2>11, <2>12
    DEF Step, Ops
<1> QED
  BY <1>1, <1>2, <1>3 DEF LicenceNext

\* The variables keep their types, and max_devices stays between 1 and
\* MAX_DEVICES as the CHECK of pocket_licenses wants it.
THEOREM TypeCorrect == LicenceSpec => []TypeOK
<1>1. LicenceInit => TypeInv
  BY TypeInit
<1>2. TypeInv /\ [LicenceNext]_licenceVars => TypeInv'
  BY TypeStep
<1>3. TypeInv => TypeOK
  BY DEF TypeInv
<1> QED
  BY <1>1, <1>2, <1>3, PTL DEF LicenceSpec

-----------------------------------------------------------------------------
(* Who writes what *)

\* The statements that write the licence's row: every other step leaves it alone.
LEMMA LicenceWriters ==
    ASSUME [LicenceNext]_licenceVars, lic' # lic
    PROVE  \/ Revoke
           \/ \E w \in Workers :
                \/ \E n \in 1..MaxPhones : Issue(w, n)
                \/ BindSlot(w) \/ BindGiveBack(w) \/ UpdateWrite(w) \/ ReleaseCount(w)
<1>1. CASE UNCHANGED licenceVars
  BY <1>1 DEF licenceVars
<1>2. ASSUME NEW w \in Workers, Step(w)
      PROVE  \/ \E n \in 1..MaxPhones : Issue(w, n)
             \/ BindSlot(w) \/ BindGiveBack(w) \/ UpdateWrite(w) \/ ReleaseCount(w)
  BY <1>2
  DEF Step, Begin, KeyInsert, KeyReread, UpdateRead, Publish, ReadLicence, BindLive,
      BindInsert, ReleaseRow, BindAgain, RefreshTouch, Sign, Abort
<1> QED
  BY <1>1, <1>2 DEF LicenceNext

\* Activation rows are written by the insert of bindDevice and by a release.
LEMMA ActivationWriters ==
    ASSUME [LicenceNext]_licenceVars, acts' # acts
    PROVE  \E w \in Workers, a \in RowIds : BindInsert(w, a) \/ ReleaseRow(w, a)
<1>1. CASE UNCHANGED licenceVars
  BY <1>1 DEF licenceVars
<1>2. CASE Revoke
  BY <1>2 DEF Revoke
<1>3. ASSUME NEW w \in Workers, Step(w)
      PROVE  \E a \in RowIds : BindInsert(w, a) \/ ReleaseRow(w, a)
  BY <1>3
  DEF Step, Begin, KeyInsert, KeyReread, Issue, UpdateRead, Publish, ReadLicence, BindLive,
      BindSlot, BindGiveBack, BindAgain, RefreshTouch, Sign, UpdateWrite, ReleaseCount, Abort
<1> QED
  BY <1>1, <1>2, <1>3 DEF LicenceNext

-----------------------------------------------------------------------------
(* Devices *)

LEMMA BoundOnceStep == TypeOK /\ BoundOnce /\ [LicenceNext]_licenceVars => BoundOnce'
<1> SUFFICES ASSUME TypeOK, BoundOnce, [LicenceNext]_licenceVars, acts' # acts PROVE BoundOnce'
  BY DEF BoundOnce, LiveRows
<1>1. ASSUME NEW w \in Workers, NEW a \in RowIds, BindInsert(w, a) PROVE BoundOnce'
  <2>1. /\ acts' = [acts EXCEPT ![a] = [state |-> "live", device |-> worker[w].device]]
        /\ BoundTo(worker[w].device) = {}
    BY <1>1 DEF BindInsert, Conflicts
  <2> QED
    BY <2>1 DEF TypeOK, BoundOnce, BoundTo, LiveRows
<1>2. ASSUME NEW w \in Workers, NEW a \in RowIds, ReleaseRow(w, a) PROVE BoundOnce'
  BY <1>2 DEF ReleaseRow, TypeOK, BoundOnce, LiveRows
<1> QED
  BY <1>1, <1>2, ActivationWriters

\* A phone that activates several times at once, while the owner releases
\* devices, is bound at most once (bindDevice and the unique live index).
THEOREM DevicesBoundOnce == LicenceSpec => []BoundOnce
<1>1. LicenceInit => BoundOnce
  BY DEF LicenceInit, BoundOnce, LiveRows
<1> QED
  BY <1>1, TypeCorrect, BoundOnceStep, PTL DEF LicenceSpec

\* Whatever races, only ownerUpdate takes a licence over its cap: the single
\* conditional UPDATE of bindDevice never does.
THEOREM OvershootIsTheUpdate == LicenceSpec => OnlyUpdateOvershoots
<1>1. ASSUME TypeOK, [LicenceNext]_licenceVars, lic.active <= lic.max, lic'.active > lic'.max
      PROVE  lic'.max < lic.max
  <2>1. lic.active \in Nat /\ lic.max \in Nat
    <3>1. lic.active \in Nat /\ lic.max \in 1..MaxPhones
      BY <1>1 DEF TypeOK, Licences
    <3> QED
      BY <3>1, MaxDevicesIsPositive
  <2>2. CASE lic' = lic
    BY <1>1, <2>1, <2>2
  <2>3. CASE Revoke
    BY <1>1, <2>1, <2>3 DEF Revoke, TypeOK, Licences
  <2>4. ASSUME NEW w \in Workers, NEW n \in 1..MaxPhones, Issue(w, n) PROVE FALSE
    BY <1>1, <2>1, <2>4, MaxDevicesIsPositive DEF Issue
  <2>5. ASSUME NEW w \in Workers, BindSlot(w) PROVE FALSE
    BY <1>1, <2>1, <2>5 DEF BindSlot, HasSlot, TypeOK, Licences
  <2>6. ASSUME NEW w \in Workers, BindGiveBack(w) \/ ReleaseCount(w) PROVE FALSE
    BY <1>1, <2>1, <2>6 DEF BindGiveBack, ReleaseCount, OneLess, TypeOK, Licences
  <2>7. ASSUME NEW w \in Workers, UpdateWrite(w) PROVE lic'.max < lic.max
    <3>1. lic'.active = lic.active /\ lic'.max = worker[w].max
      BY <1>1, <2>7 DEF UpdateWrite, TypeOK, Licences
    <3>2. worker[w].max \in 1..MaxPhones
      BY <1>1 DEF TypeOK, WorkerRows
    <3> QED
      BY <1>1, <2>1, <3>1, <3>2, MaxDevicesIsPositive
  <2> QED
    BY <1>1, <2>2, <2>3, <2>4, <2>5, <2>6, <2>7, LicenceWriters
<1>2. TypeOK /\ [LicenceNext]_licenceVars => (lic.active <= lic.max /\ lic'.active > lic'.max
                                  => lic'.max < lic.max)
  BY <1>1
<1> QED
  BY <1>2, TypeCorrect, PTL DEF LicenceSpec, OnlyUpdateOvershoots

-----------------------------------------------------------------------------
(* The signing key *)

\* Past getSigningKey a handler holds the key it goes on with.
WithKey == Ops \cup {"bind", "slot", "insert", "giveBack", "again", "touch", "sign"}

KeyRow(row, key) ==
    /\ row.pc \in WithKey => row.key = key /\ key # NoKeyPair
    /\ row.pc = "keyReread" => key # NoKeyPair

HandlersAgree == \A w \in Workers : KeyRow(worker[w], primary)

KeyInv == TypeInv /\ OnePrimaryKey /\ HandlersAgree

\* A step that leaves the key alone and moves one handler to a row that agrees
\* with it keeps the handlers in agreement.
LEMMA BecomeAgrees ==
    ASSUME TypeOK, HandlersAgree, UNCHANGED primary,
           NEW w \in Workers, NEW row, KeyRow(row, primary), Become(w, row)
    PROVE  HandlersAgree'
BY DEF TypeOK, HandlersAgree, Become

LEMMA KeyStep == KeyInv /\ [LicenceNext]_licenceVars => KeyInv'
<1> SUFFICES ASSUME KeyInv, [LicenceNext]_licenceVars, TypeInv' PROVE OnePrimaryKey' /\ HandlersAgree'
  BY TypeStep DEF KeyInv
<1> USE DEF KeyInv
<1>1. CASE UNCHANGED licenceVars
  BY <1>1 DEF licenceVars, OnePrimaryKey, HandlersAgree, KeyRow
<1>2. CASE Revoke
  BY <1>2 DEF Revoke, OnePrimaryKey, HandlersAgree, KeyRow
<1>3. ASSUME NEW w \in Workers, Step(w) PROVE OnePrimaryKey' /\ HandlersAgree'
  <2>0. TypeOK /\ worker[w] \in WorkerRows /\ KeyRow(worker[w], primary)
        /\ KeyRow(IdleWorker, primary)
    BY DEF TypeInv, TypeOK, HandlersAgree, KeyRow, IdleWorker, WithKey, Ops
  <2>1. ASSUME NEW op \in Ops, NEW d \in Phones \cup {NoPhone}, Begin(w, op, d)
        PROVE  OnePrimaryKey' /\ HandlersAgree'
    <3> DEFINE row == [pc |-> IF primary = NoKeyPair THEN "keyInsert" ELSE op,
                       op |-> op, device |-> d, key |-> primary, max |-> 1]
    <3>1. KeyRow(row, primary)
      BY DEF KeyRow, WithKey, Ops
    <3>2. Become(w, row) /\ UNCHANGED <<primary, shown>>
      BY <2>1 DEF Begin
    <3> HIDE DEF row
    <3> QED
      BY <2>0, <3>1, <3>2, BecomeAgrees DEF OnePrimaryKey
  <2>2. ASSUME NEW k \in KeyPairs, KeyInsert(w, k) PROVE OnePrimaryKey' /\ HandlersAgree'
    <3>1. primary' # NoKeyPair /\ (primary # NoKeyPair => primary' = primary) /\ shown' = shown
      BY <2>2, NoneIsNothing DEF KeyInsert
    <3>2. OnePrimaryKey'
      BY <3>1 DEF OnePrimaryKey
    <3>3. KeyRow(worker'[w], primary')
      <4>1. worker'[w].pc = "keyReread"
        BY <2>0, <2>2 DEF KeyInsert, Become, TypeOK, WorkerRows
      <4> QED
        BY <3>1, <4>1 DEF KeyRow, WithKey, Ops
    <3>4. ASSUME NEW v \in Workers, v # w PROVE KeyRow(worker'[v], primary')
      <4>1. worker'[v] = worker[v] /\ KeyRow(worker[v], primary)
        BY <2>0, <2>2, <3>4 DEF KeyInsert, Become, TypeOK, HandlersAgree
      <4> QED
        BY <3>1, <4>1 DEF KeyRow
    <3> QED
      BY <3>2, <3>3, <3>4 DEF HandlersAgree
  <2>3. CASE KeyReread(w)
    <3> DEFINE row == [worker[w] EXCEPT !.pc = worker[w].op, !.key = KeyReadBack(w)]
    <3>1. KeyRow(row, primary)
      BY <2>0, <2>3 DEF KeyReread, At, KeyReadBack, KeyRow, WorkerRows
    <3>2. Become(w, row) /\ UNCHANGED <<primary, shown>>
      BY <2>3 DEF KeyReread
    <3> HIDE DEF row
    <3> QED
      BY <2>0, <3>1, <3>2, BecomeAgrees DEF OnePrimaryKey
  <2>4. CASE Publish(w) \/ Sign(w)
    <3>1. worker[w].key = primary /\ primary # NoKeyPair
      BY <2>0, <2>4 DEF Publish, Sign, At, KeyRow, WithKey, Ops
    <3>2. Become(w, IdleWorker) /\ UNCHANGED primary /\ shown' = shown \cup {worker[w].key}
      BY <2>4 DEF Publish, Sign, Done
    <3>3. OnePrimaryKey'
      BY <3>1, <3>2 DEF OnePrimaryKey
    <3> QED
      BY <2>0, <3>2, <3>3, BecomeAgrees
  <2>5. ASSUME worker[w].pc \in WithKey, UNCHANGED <<primary, shown>>,
               NEW pc \in WithKey, Goto(w, pc)
        PROVE  OnePrimaryKey' /\ HandlersAgree'
    <3> DEFINE row == [worker[w] EXCEPT !.pc = pc]
    <3>1. row.key = worker[w].key /\ row.pc = pc
      BY <2>0 DEF WorkerRows
    <3>2. pc # "keyReread"
      BY DEF WithKey, Ops
    <3>3. Become(w, row)
      BY <2>5 DEF Goto
    <3>4. KeyRow(row, primary)
      BY <2>0, <2>5, <3>1, <3>2 DEF KeyRow
    <3> HIDE DEF row
    <3> QED
      BY <2>0, <2>5, <3>3, <3>4, BecomeAgrees DEF OnePrimaryKey
  <2>6. ASSUME UNCHANGED <<primary, shown>>, Done(w)
        PROVE  OnePrimaryKey' /\ HandlersAgree'
    BY <2>0, <2>6, BecomeAgrees DEF Done, OnePrimaryKey
  <2>7. CASE \/ \E n \in 1..MaxPhones : Issue(w, n)
             \/ UpdateWrite(w) \/ ReleaseCount(w) \/ Abort(w)
    <3>1. Done(w) /\ UNCHANGED <<primary, shown>>
      BY <2>7 DEF Issue, UpdateWrite, ReleaseCount, Abort
    <3> QED
      BY <2>6, <3>1
  <2>8. CASE \/ ReadLicence(w) \/ BindLive(w) \/ BindSlot(w)
             \/ BindGiveBack(w) \/ BindAgain(w) \/ RefreshTouch(w)
             \/ \E a \in RowIds : BindInsert(w, a)
    <3>1. worker[w].pc \in WithKey /\ UNCHANGED <<primary, shown>>
      BY <2>8 DEF ReadLicence, BindLive, BindSlot, BindGiveBack, BindAgain, RefreshTouch,
                  BindInsert, At, WithKey, Ops
    <3>2. Done(w) \/ \E pc \in WithKey : Goto(w, pc)
      BY <2>8 DEF ReadLicence, BindLive, BindSlot, BindGiveBack, BindAgain, RefreshTouch,
                  BindInsert, AfterConflict, WithKey
    <3> QED
      BY <2>5, <2>6, <3>1, <3>2
  <2>9. CASE (\E n \in AllowedMax : UpdateRead(w, n)) \/ (\E a \in RowIds : ReleaseRow(w, a))
    <3>1. PICK row : /\ row.pc \in {"updateWrite", "releaseCount"}
                     /\ Become(w, row) /\ UNCHANGED <<primary, shown>>
      <4> DEFINE P(row) == /\ row.pc \in {"updateWrite", "releaseCount"}
                           /\ Become(w, row) /\ UNCHANGED <<primary, shown>>
      <4>1. ASSUME NEW n \in AllowedMax, UpdateRead(w, n) PROVE \E row : P(row)
        <5>1. P([IdleWorker EXCEPT !.pc = "updateWrite", !.max = n])
          BY <4>1 DEF UpdateRead, IdleWorker
        <5> HIDE DEF P
        <5> QED
          BY <5>1
      <4>2. ASSUME NEW a \in RowIds, ReleaseRow(w, a) PROVE \E row : P(row)
        <5>1. P([IdleWorker EXCEPT !.pc = "releaseCount"])
          BY <4>2 DEF ReleaseRow, IdleWorker
        <5> HIDE DEF P
        <5> QED
          BY <5>1
      <4> QED
        BY <2>9, <4>1, <4>2
    <3>2. KeyRow(row, primary)
      BY <3>1 DEF KeyRow, WithKey, Ops
    <3> QED
      BY <2>0, <3>1, <3>2, BecomeAgrees DEF OnePrimaryKey
  <2> QED
    BY <1>3, <2>1, <2>2, <2>3, <2>4, <2>7, <2>8, <2>9 DEF Step, Ops
<1> QED
  BY <1>1, <1>2, <1>3 DEF LicenceNext

\* Handlers may race to generate the signing key: every key ever published or
\* signed with is nevertheless the primary one (getSigningKey reads it back).
THEOREM KeyNeverRotates == LicenceSpec => []OnePrimaryKey
<1>1. LicenceInit => KeyInv
  BY TypeInit
  DEF LicenceInit, KeyInv, OnePrimaryKey, HandlersAgree, KeyRow, IdleWorker, WithKey, Ops
<1>2. KeyInv /\ [LicenceNext]_licenceVars => KeyInv'
  BY KeyStep
<1>3. KeyInv => OnePrimaryKey
  BY DEF KeyInv
<1> QED
  BY <1>1, <1>2, <1>3, PTL DEF LicenceSpec

-----------------------------------------------------------------------------
(* The counter *)

\* How the rows of the activations table move the number of live devices.
LEMMA LiveCount ==
    ASSUME TypeOK
    PROVE  /\ Cardinality(LiveRows) \in Nat
           /\ \A a \in RowIds, d \in Phones \cup {NoPhone} :
                /\ acts[a].state # "live"
                /\ acts' = [acts EXCEPT ![a] = [state |-> "live", device |-> d]]
                => Cardinality(LiveRows') = Cardinality(LiveRows) + 1
           /\ \A a \in RowIds :
                /\ acts[a].state = "live"
                /\ acts' = [acts EXCEPT ![a].state = "released"]
                => Cardinality(LiveRows') = Cardinality(LiveRows) - 1
<1>1. IsFiniteSet(LiveRows)
  <2>1. LiveRows \in SUBSET RowIds
    BY DEF LiveRows
  <2> QED
    BY <2>1, Finite, FS_Subset
<1>2. Cardinality(LiveRows) \in Nat
  BY <1>1, FS_CardinalityType
<1>3. ASSUME NEW a \in RowIds, NEW d \in Phones \cup {NoPhone}, acts[a].state # "live",
             acts' = [acts EXCEPT ![a] = [state |-> "live", device |-> d]]
      PROVE  Cardinality(LiveRows') = Cardinality(LiveRows) + 1
  <2>1. LiveRows' = LiveRows \cup {a} /\ a \notin LiveRows
    BY <1>3 DEF LiveRows, TypeOK
  <2> QED
    BY <1>1, <2>1, FS_AddElement
<1>4. ASSUME NEW a \in RowIds, acts[a].state = "live",
             acts' = [acts EXCEPT ![a].state = "released"]
      PROVE  Cardinality(LiveRows') = Cardinality(LiveRows) - 1
  <2>1. LiveRows' = LiveRows \ {a} /\ a \in LiveRows
    BY <1>4 DEF LiveRows, TypeOK, ActivationRows
  <2> QED
    BY <1>1, <2>1, FS_RemoveElement
<1> QED
  BY <1>2, <1>3, <1>4

\* How a step of one handler moves the number of slots taken and not settled.
LEMMA HoldingCount ==
    ASSUME TypeOK, NEW w \in Workers, NEW row, Become(w, row)
    PROVE  /\ Cardinality(HoldingSlot) \in Nat
           /\ w \in HoldingSlot => Cardinality(HoldingSlot) > 0
           /\ w \notin HoldingSlot /\ row.pc \notin Unsettled => HoldingSlot' = HoldingSlot
           /\ w \in HoldingSlot /\ row.pc \in Unsettled => HoldingSlot' = HoldingSlot
           /\ w \notin HoldingSlot /\ row.pc \in Unsettled
                => Cardinality(HoldingSlot') = Cardinality(HoldingSlot) + 1
           /\ w \in HoldingSlot /\ row.pc \notin Unsettled
                => Cardinality(HoldingSlot') = Cardinality(HoldingSlot) - 1
<1>1. IsFiniteSet(HoldingSlot)
  <2>1. HoldingSlot \in SUBSET Workers
    BY DEF HoldingSlot
  <2> QED
    BY <2>1, Finite, FS_Subset
<1>2. Cardinality(HoldingSlot) \in Nat /\ (w \in HoldingSlot => Cardinality(HoldingSlot) > 0)
  BY <1>1, FS_CardinalityType, FS_EmptySet
<1>3. HoldingSlot' = IF row.pc \in Unsettled THEN HoldingSlot \cup {w} ELSE HoldingSlot \ {w}
  BY DEF HoldingSlot, Become, TypeOK
<1>4. /\ w \notin HoldingSlot /\ row.pc \notin Unsettled => HoldingSlot' = HoldingSlot
      /\ w \in HoldingSlot /\ row.pc \in Unsettled => HoldingSlot' = HoldingSlot
  BY <1>3
<1>5. w \notin HoldingSlot => Cardinality(HoldingSlot \cup {w}) = Cardinality(HoldingSlot) + 1
  BY <1>1, FS_AddElement
<1>6. w \in HoldingSlot => Cardinality(HoldingSlot \ {w}) = Cardinality(HoldingSlot) - 1
  BY <1>1, FS_RemoveElement
<1>7. w \notin HoldingSlot /\ row.pc \in Unsettled
        => Cardinality(HoldingSlot') = Cardinality(HoldingSlot) + 1
  BY <1>3, <1>5
<1>8. w \in HoldingSlot /\ row.pc \notin Unsettled
        => Cardinality(HoldingSlot') = Cardinality(HoldingSlot) - 1
  BY <1>3, <1>6
<1> QED
  BY <1>2, <1>4, <1>7, <1>8

\* Before the licence is issued nothing can have counted a device.
UnissuedUnused == lic.status = "none" => lic.active = 0

CounterInv == TypeInv /\ CounterIsExact /\ UnissuedUnused

LEMMA CounterStep == CounterInv /\ [LicenceNext]_licenceVars => CounterInv'
<1> SUFFICES ASSUME CounterInv, [LicenceNext]_licenceVars, TypeInv' PROVE CounterIsExact' /\ UnissuedUnused'
  BY TypeStep DEF CounterInv
<1> DEFINE live == Cardinality(LiveRows)
           held == Cardinality(HoldingSlot)
           Exact == CounterIsExact' /\ UnissuedUnused'
<1>0. /\ TypeOK /\ TypeInv /\ CounterIsExact /\ UnissuedUnused
      /\ live \in Nat /\ lostSlots \in Nat /\ lic \in Licences /\ lic.active \in Nat
      /\ lic.active = live + held + lostSlots
  BY LiveCount DEF CounterInv, TypeInv, TypeOK, Licences, CounterIsExact
<1>1. CASE UNCHANGED licenceVars
  BY <1>0, <1>1 DEF licenceVars, CounterIsExact, UnissuedUnused, LiveRows, HoldingSlot
<1>2. CASE Revoke
  BY <1>0, <1>2 DEF Revoke, CounterIsExact, UnissuedUnused, LiveRows, HoldingSlot, Licences
<1>3. ASSUME NEW w \in Workers, Step(w) PROVE Exact
  <2>0. /\ worker[w] \in WorkerRows /\ (w \in HoldingSlot <=> worker[w].pc \in Unsettled)
        /\ IdleWorker.pc \notin Unsettled
        /\ \A pc \in LicenceSteps : [worker[w] EXCEPT !.pc = pc].pc = pc
    BY <1>0 DEF TypeOK, HoldingSlot, IdleWorker, Unsettled, WorkerRows
  <2>1. \* A step that takes and settles no slot.
        ASSUME NEW row, Become(w, row), w \notin HoldingSlot, row.pc \notin Unsettled,
               lic'.active = lic.active, lic'.status = "none" => lic.status = "none",
               UNCHANGED <<acts, lostSlots>>
        PROVE  Exact
    <3>1. HoldingSlot' = HoldingSlot /\ LiveRows' = LiveRows
      BY <1>0, <2>1, HoldingCount DEF LiveRows
    <3> QED
      BY <1>0, <2>1, <3>1 DEF CounterIsExact, UnissuedUnused
  <2>2. ASSUME NEW op \in Ops, NEW d \in Phones \cup {NoPhone}, Begin(w, op, d) PROVE Exact
    <3> DEFINE row == [pc |-> IF primary = NoKeyPair THEN "keyInsert" ELSE op,
                       op |-> op, device |-> d, key |-> primary, max |-> 1]
    <3>1. row.pc \notin Unsettled
      BY DEF Unsettled, Ops
    <3>2. Become(w, row) /\ worker[w].pc = "idle" /\ UNCHANGED <<lic, acts, lostSlots>>
      BY <2>2 DEF Begin, At
    <3> HIDE DEF row, Exact
    <3> QED
      BY <2>0, <2>1, <3>1, <3>2 DEF Unsettled
  <2>3. ASSUME NEW k \in KeyPairs, KeyInsert(w, k) PROVE Exact
    <3> DEFINE row == [worker[w] EXCEPT !.pc = "keyReread", !.key = k]
    <3>1. row.pc \notin Unsettled
      BY <2>0 DEF Unsettled, WorkerRows
    <3>2. Become(w, row) /\ worker[w].pc = "keyInsert" /\ UNCHANGED <<lic, acts, lostSlots>>
      BY <2>3 DEF KeyInsert, At
    <3> HIDE DEF row, Exact
    <3> QED
      BY <2>0, <2>1, <3>1, <3>2 DEF Unsettled
  <2>4. CASE KeyReread(w)
    <3> DEFINE row == [worker[w] EXCEPT !.pc = worker[w].op, !.key = KeyReadBack(w)]
    <3>1. Become(w, row) /\ worker[w].pc = "keyReread" /\ UNCHANGED <<lic, acts, lostSlots>>
      BY <2>4 DEF KeyReread, At
    <3>2. row.pc \notin Unsettled
      BY <1>0, <2>0, <3>1 DEF TypeInv, OpKnown, Unsettled, Ops, WorkerRows
    <3> HIDE DEF row, Exact
    <3> QED
      BY <2>0, <2>1, <3>1, <3>2 DEF Unsettled
  <2>5. ASSUME NEW n \in 1..MaxPhones, Issue(w, n) PROVE Exact
    <3>1. /\ Become(w, IdleWorker) /\ worker[w].pc = "issue" /\ UNCHANGED <<acts, lostSlots>>
          /\ lic' = IF lic.status = "none"
                    THEN [status |-> "active", max |-> n, active |-> 0] ELSE lic
      BY <2>5 DEF Issue, At, Done
    <3>2. lic'.active = lic.active /\ (lic'.status = "none" => lic.status = "none")
      BY <1>0, <3>1 DEF UnissuedUnused
    <3> HIDE DEF Exact
    <3> QED
      BY <2>0, <2>1, <3>1, <3>2 DEF Unsettled
  <2>6. CASE (\E n \in AllowedMax : UpdateRead(w, n)) \/ UpdateWrite(w)
    <3>1. ASSUME NEW n \in AllowedMax, UpdateRead(w, n) PROVE Exact
      <4> DEFINE row == [IdleWorker EXCEPT !.pc = "updateWrite", !.max = n]
      <4>1. row.pc \notin Unsettled
        BY DEF IdleWorker, Unsettled
      <4>2. Become(w, row) /\ worker[w].pc = "idle" /\ UNCHANGED <<lic, acts, lostSlots>>
        BY <3>1 DEF UpdateRead, At
      <4> HIDE DEF row, Exact
      <4> QED
        BY <2>0, <2>1, <4>1, <4>2 DEF Unsettled
    <3>2. CASE UpdateWrite(w)
      <4>1. /\ Become(w, IdleWorker) /\ worker[w].pc = "updateWrite"
            /\ lic'.active = lic.active /\ lic'.status = lic.status
            /\ UNCHANGED <<acts, lostSlots>>
        BY <1>0, <3>2 DEF UpdateWrite, At, Done, Licences
      <4> HIDE DEF Exact
      <4> QED
        BY <2>0, <2>1, <4>1 DEF Unsettled
    <3> QED
      BY <2>6, <3>1, <3>2
  <2>7. CASE \/ Publish(w) \/ Sign(w) \/ ReadLicence(w) \/ BindLive(w)
             \/ BindAgain(w) \/ RefreshTouch(w)
    <3>1. /\ worker[w].pc \in {"publish", "sign", "activate", "refresh", "bind", "again", "touch"}
          /\ UNCHANGED <<lic, acts, lostSlots>>
      BY <2>7 DEF Publish, Sign, ReadLicence, BindLive, BindAgain, RefreshTouch, At
    <3>2. \E pc \in {"bind", "slot", "sign", "touch"} : Done(w) \/ Goto(w, pc)
      BY <2>7 DEF Publish, Sign, ReadLicence, BindLive, BindAgain, RefreshTouch
    <3>3. PICK row : Become(w, row) /\ row.pc \notin Unsettled
      <4>1. CASE Done(w)
        BY <2>0, <4>1 DEF Done
      <4>2. ASSUME NEW pc \in {"bind", "slot", "sign", "touch"}, Goto(w, pc)
            PROVE  \E row : Become(w, row) /\ row.pc \notin Unsettled
        <5>1. pc \in LicenceSteps /\ pc \notin Unsettled
          BY DEF LicenceSteps, Unsettled
        <5> QED
          BY <2>0, <4>2, <5>1 DEF Goto
      <4> QED
        BY <3>2, <4>1, <4>2
    <3> HIDE DEF Exact
    <3> QED
      BY <2>0, <2>1, <3>1, <3>3 DEF Unsettled
  <2>8. CASE BindSlot(w)
    <3>0. worker[w].pc = "slot" /\ w \notin HoldingSlot /\ UNCHANGED <<acts, lostSlots>>
      BY <2>0, <2>8 DEF BindSlot, At, Unsettled
    <3>1. CASE HasSlot(lic)
      <4>1. Become(w, [worker[w] EXCEPT !.pc = "insert"])
            /\ lic' = [lic EXCEPT !.active = @ + 1]
        BY <2>8, <3>1 DEF BindSlot, Goto
      <4>2. [worker[w] EXCEPT !.pc = "insert"].pc \in Unsettled
        BY <2>0 DEF LicenceSteps, Unsettled
      <4>3. Cardinality(HoldingSlot') = held + 1 /\ held \in Nat
        BY <1>0, <3>0, <4>1, <4>2, HoldingCount
      <4>4. lic'.active = lic.active + 1 /\ lic'.status = "active" /\ LiveRows' = LiveRows
        BY <1>0, <3>0, <3>1, <4>1 DEF Licences, HasSlot, LiveRows
      <4> QED
        BY <1>0, <3>0, <4>3, <4>4 DEF CounterIsExact, UnissuedUnused
    <3>2. CASE ~HasSlot(lic)
      <4>1. Become(w, IdleWorker) /\ lic' = lic
        BY <2>8, <3>2 DEF BindSlot, Done
      <4> HIDE DEF Exact
      <4> QED
        BY <2>0, <2>1, <3>0, <4>1
    <3> QED
      BY <3>1, <3>2
  <2>9. ASSUME NEW a \in RowIds, BindInsert(w, a) PROVE Exact
    <3>0. /\ worker[w].pc = "insert" /\ w \in HoldingSlot /\ UNCHANGED <<lic, lostSlots>>
          /\ worker[w].device \in Phones \cup {NoPhone} /\ acts[a].state # "live"
      BY <2>0, <2>9 DEF BindInsert, At, Unsettled, WorkerRows
    <3>1. CASE Conflicts(worker[w].device)
      <4>1. Become(w, [worker[w] EXCEPT !.pc = "giveBack"]) /\ acts' = acts
        BY <2>9, <3>1 DEF BindInsert, Goto, AfterConflict
      <4>2. [worker[w] EXCEPT !.pc = "giveBack"].pc \in Unsettled
        BY <2>0 DEF LicenceSteps, Unsettled
      <4>3. HoldingSlot' = HoldingSlot /\ LiveRows' = LiveRows
        BY <1>0, <3>0, <4>1, <4>2, HoldingCount DEF LiveRows
      <4> QED
        BY <1>0, <3>0, <4>3 DEF CounterIsExact, UnissuedUnused
    <3>2. CASE ~Conflicts(worker[w].device)
      <4>1. /\ Become(w, [worker[w] EXCEPT !.pc = "sign"])
            /\ acts' = [acts EXCEPT ![a] = [state |-> "live", device |-> worker[w].device]]
        BY <2>9, <3>2 DEF BindInsert, Goto
      <4>2. [worker[w] EXCEPT !.pc = "sign"].pc \notin Unsettled
        BY <2>0 DEF LicenceSteps, Unsettled
      <4>3. Cardinality(HoldingSlot') = held - 1 /\ held \in Nat
        BY <1>0, <3>0, <4>1, <4>2, HoldingCount
      <4>4. Cardinality(LiveRows') = live + 1
        BY <1>0, <3>0, <4>1, LiveCount
      <4> QED
        BY <1>0, <3>0, <4>3, <4>4 DEF CounterIsExact, UnissuedUnused
    <3> QED
      BY <3>1, <3>2
  <2>10. CASE BindGiveBack(w) \/ ReleaseCount(w)
    <3>1. /\ worker[w].pc \in Unsettled /\ lic' = [lic EXCEPT !.active = OneLess(@)]
          /\ UNCHANGED <<acts, lostSlots>>
          /\ Become(w, IdleWorker) \/ Become(w, [worker[w] EXCEPT !.pc = "again"])
      BY <2>10 DEF BindGiveBack, ReleaseCount, At, Unsettled, Goto, Done
    <3>2. w \in HoldingSlot /\ [worker[w] EXCEPT !.pc = "again"].pc \notin Unsettled
      BY <2>0, <3>1 DEF LicenceSteps, Unsettled
    <3>3. held \in Nat /\ held > 0 /\ Cardinality(HoldingSlot') = held - 1
      BY <1>0, <2>0, <3>1, <3>2, HoldingCount
    <3>4. lic'.active = lic.active - 1 /\ lic'.status = lic.status /\ LiveRows' = LiveRows
      BY <1>0, <3>1, <3>3 DEF OneLess, Licences, LiveRows
    <3>5. lic.active > 0
      BY <1>0, <3>3
    <3> QED
      BY <1>0, <3>1, <3>3, <3>4, <3>5 DEF CounterIsExact, UnissuedUnused
  <2>11. ASSUME NEW a \in RowIds, ReleaseRow(w, a) PROVE Exact
    <3>1. /\ worker[w].pc = "idle" /\ acts[a].state = "live" /\ UNCHANGED <<lic, lostSlots>>
          /\ acts' = [acts EXCEPT ![a].state = "released"]
          /\ Become(w, [IdleWorker EXCEPT !.pc = "releaseCount"])
      BY <2>11 DEF ReleaseRow, At
    <3>2. w \notin HoldingSlot /\ [IdleWorker EXCEPT !.pc = "releaseCount"].pc \in Unsettled
      BY <2>0, <3>1 DEF Unsettled, IdleWorker
    <3>3. held \in Nat /\ Cardinality(HoldingSlot') = held + 1
      BY <1>0, <3>1, <3>2, HoldingCount
    <3>4. Cardinality(LiveRows') = live - 1
      BY <1>0, <3>1, LiveCount
    <3> QED
      BY <1>0, <3>1, <3>3, <3>4 DEF CounterIsExact, UnissuedUnused
  <2>12. CASE Abort(w)
    <3>1. /\ Become(w, IdleWorker) /\ UNCHANGED <<lic, acts>> /\ LiveRows' = LiveRows
          /\ lostSlots' = IF w \in HoldingSlot THEN lostSlots + 1 ELSE lostSlots
      BY <2>12 DEF Abort, Done, LiveRows
    <3>2. held \in Nat /\ Cardinality(HoldingSlot') = IF w \in HoldingSlot THEN held - 1 ELSE held
      BY <1>0, <2>0, <3>1, HoldingCount
    <3> QED
      BY <1>0, <3>1, <3>2 DEF CounterIsExact, UnissuedUnused
  <2> HIDE DEF Exact
  <2> QED
    BY <1>3, <2>2, <2>3, <2>4, <2>5, <2>6, <2>7, <2>8, <2>9, <2>10, <2>11, <2>12
    DEF Step, Ops
<1> QED
  BY <1>1, <1>2, <1>3 DEF LicenceNext

\* active_devices never drifts: it is the number of live devices, plus the slots
\* that running handlers have taken or not yet returned, plus those that were
\* lost with a handler that stopped half-way.
THEOREM CounterNeverDrifts == LicenceSpec => []CounterIsExact
<1>1. LicenceInit => CounterInv
  <2> SUFFICES ASSUME LicenceInit PROVE CounterInv
    OBVIOUS
  <2>1. LiveRows = {} /\ HoldingSlot = {}
    BY DEF LicenceInit, LiveRows, HoldingSlot, Unsettled, IdleWorker
  <2>2. Cardinality({}) = 0
    BY FS_EmptySet
  <2>3. CounterIsExact /\ UnissuedUnused
    BY <2>1, <2>2 DEF LicenceInit, CounterIsExact, UnissuedUnused
  <2> QED
    BY <2>3, TypeInit DEF CounterInv
<1>2. CounterInv /\ [LicenceNext]_licenceVars => CounterInv'
  BY CounterStep
<1>3. CounterInv => CounterIsExact
  BY DEF CounterInv
<1> QED
  BY <1>1, <1>2, <1>3, PTL DEF LicenceSpec
=============================================================================
