----------------------------- MODULE StudioLedger -----------------------------
(***************************************************************************)
(* The studio's money for one customer: a primary job, her follow-up       *)
(* sessions, the payment rows, and the running total paid_toman that every *)
(* screen reads (src/lib/server/writes.ts, src/lib/studio-finance.ts).     *)
(*                                                                         *)
(* paid_toman is a cache of the payment rows, written by each handler from *)
(* what it read one to five statements earlier.  A handler is a clerk with *)
(* a program counter and one action is one SQL statement.  Left out: who   *)
(* may touch which artist's job, and bookings.finance_status, a label that *)
(* nothing reads back.                                                     *)
(***************************************************************************)
EXTENDS Naturals, FiniteSetsExt

CONSTANTS
    Primary,      \* the job that carries the price
    Sessions,     \* follow-up jobs of the same customer and phone
    PayIds,       \* numbers of tattoo_payments rows
    Clerks,       \* HTTP requests that may be in flight at the same time
    Amounts,      \* amounts somebody may type
    Prices,       \* prices somebody may type, 0 among them
    Opening,      \* paid_toman of the primary job from before the rows existed
    MaxRequests,  \* bound: requests in one behaviour
    NoPay

ASSUME LedgerAssumption ==
    /\ Primary \notin Sessions
    /\ IsFiniteSet(PayIds) /\ PayIds \subseteq Nat
    /\ Amounts \subseteq Nat \ {0} /\ Prices \subseteq Nat
    /\ Opening \in Nat /\ MaxRequests \in Nat

VARIABLES
    job,      \* tattoo_requests: open, price, paid_toman, settled
    pay,      \* tattoo_payments
    clerk,
    due,      \* history: what the rows of a job should add up to
    torn,     \* history: two handlers have overlapped, or one stopped half-way
    requests  \* history: requests so far

ledgerVars == <<job, pay, clerk, due, torn, requests>>

-----------------------------------------------------------------------------
(* State *)

Jobs == {Primary} \cup Sessions

\* A job is open while it is booked and not carry_closed, and a session from
\* its insert on; settled is "no", "yes" or "forced", the flag set by hand.
\* A payment of 0 is a free row.
NoPayment == [job |-> Primary, amount |-> 0]

\* job, pay: the rows its statements name; asked: the job of the request;
\* amount, gap, paid, price, settled: what they are about to write.
IdleClerk == [pc |-> "idle", job |-> Primary, asked |-> Primary, pay |-> NoPay,
              amount |-> 0, gap |-> 0, paid |-> 0, price |-> 0, settled |-> "no"]

LedgerInit ==
    /\ \E p \in Prices \ {0}, There \in SUBSET Sessions :
          job = [j \in Jobs |-> [open |-> j \in {Primary} \cup There, price |-> IF j = Primary THEN p ELSE 0,
                                 paid |-> IF j = Primary THEN Opening ELSE 0,
                                 settled |-> "no"]]
    /\ pay = [i \in PayIds |-> NoPayment]
    /\ clerk = [c \in Clerks |-> IdleClerk]
    /\ due = [j \in Jobs |-> IF j = Primary THEN Opening ELSE 0]
    /\ torn = FALSE
    /\ requests = 0

Made(j) == j = Primary \/ job[j].open

RowsOf(j) == {i \in PayIds : pay[i].job = j /\ pay[i].amount > 0}
FreeRows == {i \in PayIds : pay[i].amount = 0}
NewRow == Min(FreeRows)

\* select coalesce(sum(amount_toman), 0)
Sum(f, S) == MapThenSumSet(LAMBDA i : f[i], S)
SumOf(j) == Sum([i \in PayIds |-> pay[i].amount], RowsOf(j))

\* tattooBalance(price, paid).settled
Settled(price, paid) == IF price > 0 /\ paid >= price THEN "yes" ELSE "no"

ClerkAt(c, pc) == clerk[c].pc = pc
ClerkBecomes(c, row) == clerk' = [clerk EXCEPT ![c] = row]
Quiet == \A c \in Clerks : ClerkAt(c, "idle")

\* A handler starts; from then on it overlaps with every other one in flight.
Start(c, row) ==
    /\ ClerkAt(c, "idle")
    /\ requests < MaxRequests
    /\ requests' = requests + 1
    /\ torn' = (torn \/ ~Quiet)
    /\ ClerkBecomes(c, row)

-----------------------------------------------------------------------------
(* performAddStudioPayment *)

\* A follow-up session's money goes to the open primary job of the same phone.
Target(j) == IF j \in Sessions /\ job[Primary].open THEN Primary ELSE j

AddRead(c, j, a) ==
    /\ Made(j)
    /\ LET t == Target(j)
       IN  Start(c, [IdleClerk EXCEPT !.pc = "plan", !.job = t, !.asked = j, !.amount = a,
                                      !.paid = job[t].paid, !.price = job[t].price])
    /\ UNCHANGED <<job, pay, due>>

\* Faulty: older money is forgotten.
PlanGapNone(recorded, ledger) == 0

\* Faulty: the whole recorded total is inserted again, not what the rows miss.
PlanGapWhole(recorded, ledger) == recorded

\* paymentPlan: what the total knows and the rows do not becomes a row first.
PlanGap(recorded, ledger) == IF recorded > ledger THEN recorded - ledger ELSE 0

\* Faulty: the new total leaves the older money out.
PlanPaidNoGap(ledger, gap, amount) == ledger + amount

PlanPaid(ledger, gap, amount) == ledger + gap + amount

AddPlan(c) ==
    /\ ClerkAt(c, "plan")
    /\ LET k == clerk[c]
           ledger == SumOf(k.job)
           gap == PlanGap(k.paid, ledger)
       IN  ClerkBecomes(c, [k EXCEPT !.pc = IF gap > 0 THEN "gap" ELSE "row", !.gap = gap,
                                     !.paid = PlanPaid(ledger, gap, k.amount)])
    /\ UNCHANGED <<job, pay, due, torn, requests>>

AddGap(c) ==
    /\ ClerkAt(c, "gap")
    /\ FreeRows # {}
    /\ pay' = [pay EXCEPT ![NewRow] = [job |-> clerk[c].job, amount |-> clerk[c].gap]]
    /\ ClerkBecomes(c, [clerk[c] EXCEPT !.pc = "row"])
    /\ UNCHANGED <<job, due, torn, requests>>

AddRow(c) ==
    /\ ClerkAt(c, "row")
    /\ FreeRows # {}
    /\ pay' = [pay EXCEPT ![NewRow] = [job |-> clerk[c].job, amount |-> clerk[c].amount]]
    /\ due' = [due EXCEPT ![clerk[c].job] = @ + clerk[c].amount]
    /\ ClerkBecomes(c, [clerk[c] EXCEPT !.pc = "paid"])
    /\ UNCHANGED <<job, torn, requests>>

\* update tattoo_requests set paid_toman, settled where id: every handler's own.
PaidWrite(c) ==
    /\ ClerkAt(c, "paid")
    /\ LET k == clerk[c]
       IN  /\ job' = [job EXCEPT ![k.job].paid = k.paid,
                                 ![k.job].settled = Settled(k.price, k.paid)]
           /\ ClerkBecomes(c, IF k.asked = k.job THEN IdleClerk ELSE [k EXCEPT !.pc = "copy"])
    /\ UNCHANGED <<pay, due, torn, requests>>

\* The session shows the primary job's total.
AddCopy(c) ==
    /\ ClerkAt(c, "copy")
    /\ job' = [job EXCEPT ![clerk[c].asked].paid = clerk[c].paid]
    /\ ClerkBecomes(c, IdleClerk)
    /\ UNCHANGED <<pay, due, torn, requests>>

-----------------------------------------------------------------------------
(* performUpdateStudioPayment, performDeleteStudioPayment *)

\* The new amount; 0 stands for the deletion.
ChangeRead(c, i, a) ==
    /\ i \notin FreeRows
    /\ Start(c, [IdleClerk EXCEPT !.pc = "change", !.job = pay[i].job, !.asked = pay[i].job,
                                  !.pay = i, !.amount = a, !.price = job[pay[i].job].price])
    /\ UNCHANGED <<job, pay, due>>

\* A row somebody else has deleted in the meantime stays deleted.
ChangeRow(c) ==
    /\ ClerkAt(c, "change")
    /\ LET k == clerk[c]
       IN  IF k.pay \in RowsOf(k.job)
           THEN /\ pay' = [pay EXCEPT ![k.pay] = IF k.amount = 0 THEN NoPayment
                                                 ELSE [@ EXCEPT !.amount = k.amount]]
                /\ due' = [due EXCEPT ![k.job] =
                             IF @ + k.amount < pay[k.pay].amount THEN 0
                             ELSE @ + k.amount - pay[k.pay].amount]
           ELSE UNCHANGED <<pay, due>>
    /\ ClerkBecomes(c, [clerk[c] EXCEPT !.pc = "sum"])
    /\ UNCHANGED <<job, torn, requests>>

ChangeSum(c) ==
    /\ ClerkAt(c, "sum")
    /\ ClerkBecomes(c, [clerk[c] EXCEPT !.pc = "paid", !.paid = SumOf(clerk[c].job)])
    /\ UNCHANGED <<job, pay, due, torn, requests>>

-----------------------------------------------------------------------------
(* performUpdateStudioJob: the price and the settled flag *)

\* Faulty: the flag of before the price change is kept.
SettledKept(j, price) == job[j].settled

SettledAtPrice(j, price) == Settled(price, job[j].paid)

\* data.settled, when it is sent, wins over the computed flag.
RepriceRead(c, j, price, byHand) ==
    /\ Made(j)
    /\ Start(c, [IdleClerk EXCEPT !.pc = "reprice", !.job = j, !.asked = j, !.price = price,
                                  !.settled = IF byHand = "asComputed"
                                              THEN SettledAtPrice(j, price) ELSE byHand])
    /\ UNCHANGED <<job, pay, due>>

RepriceWrite(c) ==
    /\ ClerkAt(c, "reprice")
    /\ LET k == clerk[c]
       IN  job' = [job EXCEPT ![k.job].price = k.price, ![k.job].settled = k.settled]
    /\ ClerkBecomes(c, IdleClerk)
    /\ UNCHANGED <<pay, due, torn, requests>>

-----------------------------------------------------------------------------
(* performFollowUpStudioJob *)

Leftover == IF job[Primary].price > job[Primary].paid
            THEN job[Primary].price - job[Primary].paid ELSE 0

\* The session begins as a copy of the job it follows, its money included.
FollowUpInsert(c, f, j, price) ==
    /\ ~Made(f) /\ Made(j)
    /\ Start(c, [IdleClerk EXCEPT !.pc = "own", !.job = f, !.asked = f, !.price = price])
    /\ job' = [job EXCEPT ![f] = [job[j] EXCEPT !.open = TRUE]]
    /\ UNCHANGED <<pay, due>>

\* Then it gets a price of its own and no money.
FollowUpOwn(c) ==
    /\ ClerkAt(c, "own")
    /\ LET k == clerk[c]
       IN  job' = [job EXCEPT ![k.job].price = k.price, ![k.job].paid = 0,
                              ![k.job].settled = IF k.price = 0 THEN "yes" ELSE "no"]
    /\ ClerkBecomes(c, IdleClerk)
    /\ UNCHANGED <<pay, due, torn, requests>>

-----------------------------------------------------------------------------
(* The rest of the desk *)

\* Faulty: the comparison the wrong way round.
BehindReversed(j) == SumOf(j) < job[j].paid

\* reconcilePaidFromPayments, at every load of a month: and s.total > paid_toman
Behind(j) == SumOf(j) > job[j].paid

Reconcile ==
    /\ \E j \in Jobs : Behind(j)
    /\ job' = [j \in Jobs |-> IF Behind(j)
                              THEN [job[j] EXCEPT !.paid = SumOf(j),
                                                  !.settled = Settled(job[j].price, SumOf(j))]
                              ELSE job[j]]
    /\ UNCHANGED <<pay, clerk, due, torn, requests>>

\* The primary job is cancelled, or a continuation closes its carry.
ClosePrimary ==
    /\ job[Primary].open
    /\ job' = [job EXCEPT ![Primary].open = FALSE]
    /\ torn' = (torn \/ ~Quiet)
    /\ UNCHANGED <<pay, clerk, due, requests>>

\* A query throws, or the process is restarted, between two statements.
ClerkStops(c) ==
    /\ ~ClerkAt(c, "idle")
    /\ torn' = TRUE
    /\ ClerkBecomes(c, IdleClerk)
    /\ UNCHANGED <<job, pay, due, requests>>

Statement(c) ==
    \/ AddPlan(c) \/ PaidWrite(c) \/ AddCopy(c) \/ ChangeRow(c) \/ ChangeSum(c)
    \/ RepriceWrite(c) \/ AddGap(c) \/ AddRow(c) \/ FollowUpOwn(c)

Request(c) ==
    \/ \E j \in Jobs, a \in Amounts : AddRead(c, j, a)
    \/ \E i \in PayIds, a \in Amounts \cup {0} : ChangeRead(c, i, a)
    \/ \E j \in Jobs, price \in Prices, h \in {"asComputed", "forced", "no"} :
          RepriceRead(c, j, price, h)
    \/ \E f \in Sessions, j \in Jobs, price \in Prices \cup {Leftover} :
          FollowUpInsert(c, f, j, price)

LedgerNext ==
    \/ Reconcile \/ ClosePrimary
    \/ \E c \in Clerks : Request(c) \/ Statement(c) \/ ClerkStops(c)

LedgerSpec == LedgerInit /\ [][LedgerNext]_ledgerVars

\* Somebody keeps opening the month view.
LedgerFairSpec == LedgerSpec /\ WF_ledgerVars(Reconcile)

-----------------------------------------------------------------------------
(* Properties *)

\* No money is lost, whatever overlaps and whoever stops half-way: all of it is
\* in the rows, or, before the first row, still in the total (the row for older
\* money goes in before the new one, performAddStudioPayment).
NothingLost == \A j \in Jobs : SumOf(j) >= due[j] \/ job[j].paid >= due[j]

\* Handled one request at a time, money is entered twice only on a session
\* whose primary job is closed, where the copied total becomes a row of its own.
NothingInvented ==
    ~torn => \A j \in Jobs : SumOf(j) > due[j] => j \in Sessions /\ ~job[Primary].open

\* Handled one request at a time, a primary job that has rows shows their sum.
TotalIsSum == ~torn /\ Quiet /\ RowsOf(Primary) # {} => job[Primary].paid = SumOf(Primary)

\* Handled one request at a time, a primary job is computed settled only when
\* its price of now is covered, after every payment, deletion and price change.
SettledIsPaid ==
    ~torn /\ Quiet /\ job[Primary].settled = "yes"
        => job[Primary].price > 0 /\ job[Primary].paid >= job[Primary].price

\* A total that two clerks left behind its rows is put right at the next look.
BehindIsRepaired ==
    \A j \in Jobs : SumOf(j) > job[j].paid ~> SumOf(j) <= job[j].paid

\* "Extra deposit: keep older money, then add the new amount once."
MoneyOnce == \A j \in Jobs : SumOf(j) <= due[j]
=============================================================================
