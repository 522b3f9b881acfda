---------------------------- MODULE MCMonthView ----------------------------
(***************************************************************************)
(* What the month view puts right when it is opened: the totals of the     *)
(* studio's ledger and the bookings of its calendar.  The two parts share  *)
(* no column, so a behaviour is one of the ledger or one of the calendar,  *)
(* with the other at rest.                                                 *)
(***************************************************************************)
EXTENDS StudioLedger, StudioDiary

CONSTANTS f1, c1, c2, s1, s2

VARIABLE part

viewVars == <<ledgerVars, diaryVars, part>>

\* Two customers on two days.
MCBegun == {[card |-> 1, seat |-> 1, at |-> [day |-> 1, hour |-> 1]],
            [card |-> 2, seat |-> 2, at |-> [day |-> 2, hour |-> 1]]}

ViewInit == part \in {"ledger", "diary"} /\ LedgerInit /\ DiaryInit

OfLedger(A) == part = "ledger" /\ A /\ UNCHANGED <<diaryVars, part>>
OfDiary(A) == part = "diary" /\ A /\ UNCHANGED <<ledgerVars, part>>

\* The clerks are interchangeable, and so are the staff (symmetry is unsound for
\* liveness): the second one takes a request only beside the first one's.
ClerksInTurn == Quiet => \A c \in Clerks \ {c1} : clerk'[c].pc = "idle"
StaffInTurn == AtRest => \A s \in Staff \ {s1} : staff'[s].pc = "idle"

ViewNext == OfLedger(LedgerNext /\ ClerksInTurn) \/ OfDiary(DiaryNext /\ StaffInTurn)

ViewSpec == ViewInit /\ [][ViewNext]_viewVars

ViewFairSpec == ViewSpec /\ WF_viewVars(OfLedger(Reconcile)) /\ WF_viewVars(OfDiary(MonthRepairs))
=============================================================================
