-------------------------- MODULE StudioLedger_proofs --------------------------
(***************************************************************************)
(* Proofs about StudioLedger: for any number of sessions, payment rows and *)
(* requests in flight, any amounts, prices and older money.                *)
(***************************************************************************)
EXTENDS StudioLedger, SumLemmas, TLAPS

-----------------------------------------------------------------------------
(* Types *)

PayRows == [job : Jobs, amount : Nat]
Flags == {"no", "yes", "forced"}
JobRows == [open : BOOLEAN, price : Nat, paid : Nat, settled : Flags]
Adding == {"plan", "gap", "row"}
ClerkSteps == Adding \cup {"idle", "paid", "copy", "change", "sum", "reprice", "own"}
ClerkRows == [pc : ClerkSteps, job : Jobs, asked : Jobs, pay : PayIds \cup {NoPay},
              amount : Nat, gap : Nat, paid : Nat, price : Nat, settled : Flags]

\* What each handler knows at its step.
Informed(k) ==
    /\ k.pc \in Adding => k.amount > 0
    /\ k.pc = "gap" => k.gap > 0
    /\ k.pc = "change" => k.pay \in PayIds
    /\ k.pc \in {"change", "sum", "reprice", "own"} => k.asked = k.job
    /\ k.pc = "own" => k.job \in Sessions
    /\ k.asked # k.job => k.asked \in Sessions
    /\ k.pc = "copy" => k.asked # k.job

LedgerInv ==
    /\ job \in [Jobs -> JobRows]
    /\ pay \in [PayIds -> PayRows]
    /\ clerk \in [Clerks -> ClerkRows]
    /\ due \in [Jobs -> Nat]
    /\ torn \in BOOLEAN
    /\ requests \in 0..MaxRequests
    /\ \A c \in Clerks : Informed(clerk[c])

\* The rows of a job and what they add up to.
Amount == [i \in PayIds |-> pay[i].amount]

LEMMA PlainSum == ASSUME NEW f, NEW S PROVE Sum(f, S) = SumOn(f, S)
BY DEF Sum, SumOn

LEMMA SumOfIs ==
    /\ \A j : SumOf(j) = SumOn(Amount, RowsOf(j))
    /\ \A j : SumOf(j)' = SumOn(Amount', RowsOf(j)')
BY PlainSum DEF SumOf, Amount

LEMMA SumOfType ==
    ASSUME LedgerInv, NEW j
    PROVE  SumOf(j) \in Nat /\ (RowsOf(j) = {} => SumOf(j) = 0)
<1>1. IsFiniteSet(RowsOf(j)) /\ RowsOf(j) \subseteq PayIds
  BY LedgerAssumption, FS_Subset DEF RowsOf
<1>2. \A i \in RowsOf(j) : Amount[i] \in Nat
  BY DEF LedgerInv, PayRows, RowsOf, Amount
<1> HIDE DEF Amount
<1> QED
  BY <1>1, <1>2, SumOfIs, SumType, SumEmpty

\* A row that is replaced takes its part out of one sum and into another.
LEMMA RowReplaced ==
    ASSUME LedgerInv, NEW i \in PayIds, NEW row \in PayRows, pay' = [pay EXCEPT ![i] = row], NEW j
    PROVE  LET v == IF pay[i].job = j THEN pay[i].amount ELSE 0
               w == IF row.job = j THEN row.amount ELSE 0 IN
           /\ SumOf(j) + w = SumOf(j)' + v /\ SumOf(j)' \in Nat /\ v <= SumOf(j) /\ w <= SumOf(j)'
           /\ RowsOf(j)' = IF w > 0 THEN RowsOf(j) \cup {i} ELSE RowsOf(j) \ {i}
<1> DEFINE v == IF pay[i].job = j THEN pay[i].amount ELSE 0
           w == IF row.job = j THEN row.amount ELSE 0
           R == RowsOf(j) \ {i}
<1>1. /\ pay \in [PayIds -> PayRows] /\ pay' \in [PayIds -> PayRows]
      /\ pay'[i] = row /\ \A m \in PayIds \ {i} : pay'[m] = pay[m]
  BY DEF LedgerInv
<1>2. v \in Nat /\ w \in Nat
  BY <1>1 DEF PayRows
<1>3. /\ RowsOf(j) = IF v > 0 THEN R \cup {i} ELSE R
      /\ RowsOf(j)' = IF w > 0 THEN R \cup {i} ELSE R
  BY <1>1, <1>2 DEF RowsOf, PayRows
<1>4. IsFiniteSet(R) /\ i \notin R /\ R \subseteq PayIds
  BY LedgerAssumption, FS_Subset DEF RowsOf
<1>5. /\ \A m \in R : Amount[m] \in Nat /\ Amount'[m] = Amount[m]
      /\ v > 0 => Amount[i] = v
      /\ w > 0 => Amount'[i] = w
  BY <1>1, <1>4 DEF Amount, PayRows
<1> DEFINE f == Amount
           g == Amount'
<1>6. /\ \A m \in R : f[m] \in Nat /\ g[m] \in Nat /\ f[m] = g[m]
      /\ v > 0 => f[i] = v
      /\ w > 0 => g[i] = w
  BY <1>5
<1> HIDE DEF v, w, R, f, g, Amount
<1>7. SumOn(f, R) \in Nat /\ SumOn(g, R) = SumOn(f, R)
  BY <1>4, <1>6, SumType, SumSame
<1>8. SumOf(j) = v + SumOn(f, R)
  <2>1. CASE v > 0
    <3>1. \A m \in R \cup {i} : f[m] \in Nat
      BY <1>2, <1>6, <2>1
    <3>2. SumOn(f, R \cup {i}) = f[i] + SumOn(f, R)
      BY <1>4, <3>1, SumAdd
    <3> QED
      BY <1>3, <1>6, <2>1, <3>2, SumOfIs DEF f
  <2>2. CASE ~(v > 0)
    <3>1. v = 0
      BY <1>2, <2>2
    <3> QED
      BY <1>3, <1>7, <2>2, <3>1, SumOfIs DEF f
  <2> QED
    BY <2>1, <2>2
<1>9. SumOf(j)' = w + SumOn(f, R)
  <2>1. CASE w > 0
    <3>1. \A m \in R \cup {i} : g[m] \in Nat
      BY <1>2, <1>6, <2>1
    <3>2. SumOn(g, R \cup {i}) = g[i] + SumOn(g, R)
      BY <1>4, <3>1, SumAdd
    <3> QED
      BY <1>3, <1>6, <1>7, <2>1, <3>2, SumOfIs DEF g
  <2>2. CASE ~(w > 0)
    <3>1. w = 0
      BY <1>2, <2>2
    <3> QED
      BY <1>3, <1>7, <2>2, <3>1, SumOfIs DEF g
  <2> QED
    BY <2>1, <2>2
<1>10. RowsOf(j)' = IF w > 0 THEN RowsOf(j) \cup {i} ELSE RowsOf(j) \ {i}
  BY <1>3 DEF R
<1>11. SumOf(j) + w = SumOf(j)' + v /\ SumOf(j)' \in Nat /\ v <= SumOf(j) /\ w <= SumOf(j)'
  BY <1>2, <1>7, <1>8, <1>9
<1> QED
  BY <1>10, <1>11 DEF v, w

\* The lowest free number is free.
LEMMA NewRowFree ==
    ASSUME LedgerInv, FreeRows # {}
    PROVE  NewRow \in PayIds /\ pay[NewRow].amount = 0
<1>1. FreeRows \in SUBSET Nat
  BY LedgerAssumption DEF FreeRows
<1>2. NewRow \in FreeRows
  BY <1>1, MinLeast DEF NewRow
<1> QED
  BY <1>2 DEF FreeRows

-----------------------------------------------------------------------------
(* What each statement does *)

\* One handler is at another step, the others where they were.
Moves(c, n) ==
    /\ n \in ClerkRows /\ Informed(n)
    /\ clerk' \in [Clerks -> ClerkRows] /\ clerk'[c] = n
    /\ \A d \in Clerks \ {c} : clerk'[d] = clerk[d]

LEMMA Becomes ==
    ASSUME LedgerInv, NEW c \in Clerks, NEW n \in ClerkRows, Informed(n), ClerkBecomes(c, n)
    PROVE  Moves(c, n)
BY DEF LedgerInv, ClerkBecomes, Moves

LEMMA IdleIs ==
    /\ IdleClerk \in ClerkRows /\ Informed(IdleClerk) /\ IdleClerk.pc = "idle"
    /\ \A c \in Clerks : LedgerInv /\ ClerkBecomes(c, IdleClerk) => Moves(c, IdleClerk)
<1>1. IdleClerk \in ClerkRows /\ Informed(IdleClerk) /\ IdleClerk.pc = "idle"
  BY DEF IdleClerk, ClerkRows, ClerkSteps, Jobs, Flags, Informed, Adding
<1> QED
  BY <1>1, Becomes

\* A request begins: with nothing torn it has the desk to itself.
Begins(c) ==
    /\ clerk[c].pc = "idle"
    /\ requests' \in 0..MaxRequests /\ torn' \in BOOLEAN
    /\ ~torn' => ~torn /\ \A d \in Clerks : clerk[d].pc = "idle"
    /\ UNCHANGED <<pay, due>>
    /\ job' = job \/ clerk'[c].pc = "own"
    /\ job' \in [Jobs -> JobRows] /\ job'[Primary] = job[Primary]

LEMMA StartIs ==
    ASSUME LedgerInv, NEW c \in Clerks, NEW n \in ClerkRows, Informed(n), Start(c, n),
           UNCHANGED <<job, pay, due>>
    PROVE  Begins(c) /\ Moves(c, n)
<1>1. ClerkBecomes(c, n) /\ clerk[c].pc = "idle" /\ torn' = (torn \/ ~Quiet)
  BY DEF Start, ClerkAt
<1>2. requests' \in 0..MaxRequests
  BY LedgerAssumption DEF LedgerInv, Start
<1> QED
  BY <1>1, <1>2, Becomes DEF Begins, Quiet, ClerkAt, LedgerInv

LEMMA AddReadIs ==
    ASSUME LedgerInv, NEW c \in Clerks, NEW j \in Jobs, NEW a \in Amounts, AddRead(c, j, a)
    PROVE  LET t == Target(j)
               n == clerk'[c] IN
           /\ t \in Jobs /\ (job[Primary].open => t = Primary)
           /\ n.pc = "plan" /\ n.job = t /\ n.amount = a /\ n.paid = job[t].paid /\ n.price = job[t].price
           /\ Begins(c) /\ Moves(c, n)
<1> DEFINE t == Target(j)
           row == [IdleClerk EXCEPT !.pc = "plan", !.job = t, !.asked = j, !.amount = a,
                                    !.paid = job[t].paid, !.price = job[t].price]
<1>1. t \in Jobs /\ (job[Primary].open => t = Primary) /\ (j # t => j \in Sessions)
  BY DEF Target, Jobs
<1> HIDE DEF t
<1>2. job[t] \in JobRows /\ a \in Nat /\ a > 0
  BY <1>1, LedgerAssumption DEF LedgerInv
<1>3. /\ row \in ClerkRows /\ row.pc = "plan" /\ row.job = t /\ row.asked = j /\ row.amount = a
      /\ row.paid = job[t].paid /\ row.price = job[t].price
  BY <1>1, <1>2, IdleIs DEF ClerkRows, ClerkSteps, Adding, JobRows
<1>4. Start(c, row) /\ UNCHANGED <<job, pay, due>>
  BY DEF AddRead, t
<1> HIDE DEF row
<1>5. Informed(row)
  BY <1>1, <1>2, <1>3 DEF Informed, Adding
<1>6. Begins(c) /\ Moves(c, row)
  BY <1>3, <1>4, <1>5, StartIs
<1>7. clerk'[c] = row
  BY <1>6 DEF Moves
<1> QED
  BY <1>1, <1>3, <1>6, <1>7 DEF t

LEMMA AddPlanIs ==
    ASSUME LedgerInv, NEW c \in Clerks, AddPlan(c)
    PROVE  LET k == clerk[c]
               n == clerk'[c]
               s == SumOf(k.job) IN
           /\ k.pc = "plan" /\ UNCHANGED <<job, pay, due, torn, requests>> /\ Moves(c, n)
           /\ n.job = k.job /\ n.asked = k.asked /\ n.amount = k.amount /\ n.price = k.price
           /\ k.paid > s  => n.pc = "gap" /\ n.gap = k.paid - s /\ n.paid = s + (k.paid - s) + k.amount
           /\ ~(k.paid > s) => n.pc = "row" /\ n.paid = s + k.amount
<1> DEFINE k == clerk[c]
           s == SumOf(k.job)
           gap == PlanGap(k.paid, s)
           paid == PlanPaid(s, gap, k.amount)
           pc == IF gap > 0 THEN "gap" ELSE "row"
           row == [k EXCEPT !.pc = pc, !.gap = gap, !.paid = paid]
<1>1. k \in ClerkRows /\ Informed(k) /\ s \in Nat /\ k.pc = "plan" /\ k.paid \in Nat /\ k.amount \in Nat
  BY SumOfType DEF LedgerInv, AddPlan, ClerkAt, ClerkRows
<1> HIDE DEF s
<1>2. gap \in Nat /\ paid \in Nat /\ pc \in {"gap", "row"}
  BY <1>1 DEF PlanGap, PlanPaid
<1>3. /\ row \in ClerkRows /\ row.pc = pc /\ row.gap = gap /\ row.paid = paid /\ row.job = k.job
      /\ row.asked = k.asked /\ row.amount = k.amount /\ row.price = k.price
  <2> HIDE DEF gap, paid, pc, k
  <2> QED
    BY <1>1, <1>2 DEF ClerkRows, ClerkSteps, Adding
<1>4. ClerkBecomes(c, row) /\ UNCHANGED <<job, pay, due, torn, requests>>
  BY DEF AddPlan, s
<1>5. /\ k.paid > s => gap = k.paid - s /\ pc = "gap" /\ paid = s + (k.paid - s) + k.amount
      /\ ~(k.paid > s) => pc = "row" /\ paid = s + k.amount
  BY <1>1 DEF PlanGap, PlanPaid
<1>6. Informed(row)
  <2>1. pc = "gap" => gap > 0
    OBVIOUS
  <2> HIDE DEF row, gap, paid, pc, k
  <2> QED
    BY <1>1, <1>2, <1>3, <2>1 DEF Informed, Adding
<1> HIDE DEF row, gap, paid, pc
<1>7. Moves(c, row)
  BY <1>3, <1>4, <1>6, Becomes
<1>8. clerk'[c] = row
  BY <1>7 DEF Moves
<1> QED
  BY <1>1, <1>3, <1>4, <1>5, <1>7, <1>8 DEF s

\* A row that is inserted: a free number of the table becomes a payment.
Inserted(j, a) ==
    /\ pay' \in [PayIds -> PayRows]
    /\ SumOf(j)' = SumOf(j) + a /\ RowsOf(j)' # {}
    /\ \A m \in Jobs \ {j} : SumOf(m)' = SumOf(m) /\ RowsOf(m)' = RowsOf(m)

LEMMA InsertIs ==
    ASSUME LedgerInv, FreeRows # {}, NEW j \in Jobs, NEW a \in Nat, a > 0,
           pay' = [pay EXCEPT ![NewRow] = [job |-> j, amount |-> a]]
    PROVE  Inserted(j, a)
<1> DEFINE row == [job |-> j, amount |-> a]
<1>1. NewRow \in PayIds /\ pay[NewRow].amount = 0
  BY NewRowFree
<1>2. row \in PayRows /\ row.job = j /\ row.amount = a /\ pay' = [pay EXCEPT ![NewRow] = row]
  BY DEF PayRows
<1>3. pay' \in [PayIds -> PayRows]
  BY <1>1, <1>2 DEF LedgerInv
<1> HIDE DEF row
<1>4. SumOf(j)' = SumOf(j) + a /\ RowsOf(j)' # {}
  <2>1. /\ SumOf(j) + a = SumOf(j)' + 0 /\ SumOf(j)' \in Nat /\ RowsOf(j)' = RowsOf(j) \cup {NewRow}
    BY <1>1, <1>2, RowReplaced
  <2> QED
    BY <2>1, SumOfType
<1>5. ASSUME NEW m \in Jobs \ {j} PROVE SumOf(m)' = SumOf(m) /\ RowsOf(m)' = RowsOf(m)
  <2>0. row.job # m /\ NewRow \in PayIds
    BY <1>1, <1>2
  <2>1. SumOf(m) + 0 = SumOf(m)' + 0 /\ SumOf(m)' \in Nat /\ RowsOf(m)' = RowsOf(m) \ {NewRow}
    <3> DEFINE i == NewRow
               v == IF pay[i].job = m THEN pay[i].amount ELSE 0
               w == IF row.job = m THEN row.amount ELSE 0
    <3>1. v = 0 /\ w = 0
      BY <1>1, <2>0
    <3>2. /\ SumOf(m) + w = SumOf(m)' + v /\ SumOf(m)' \in Nat
          /\ RowsOf(m)' = IF w > 0 THEN RowsOf(m) \cup {i} ELSE RowsOf(m) \ {i}
      BY <1>2, <2>0, RowReplaced
    <3> HIDE DEF v, w
    <3> QED
      BY <3>1, <3>2
  <2>2. NewRow \notin RowsOf(m)
    BY <1>1 DEF RowsOf
  <2> QED
    BY <2>1, <2>2, SumOfType
<1> QED
  BY <1>3, <1>4, <1>5 DEF Inserted

LEMMA AddGapIs ==
    ASSUME LedgerInv, NEW c \in Clerks, NEW j \in Jobs, clerk[c].job = j, AddGap(c)
    PROVE  LET k == clerk[c]
               n == clerk'[c] IN
           /\ k.pc = "gap" /\ UNCHANGED <<job, due, torn, requests>> /\ Moves(c, n)
           /\ n.pc = "row" /\ n.job = j /\ n.amount = k.amount /\ n.price = k.price /\ n.paid = k.paid
           /\ k.gap \in Nat /\ k.gap > 0 /\ Inserted(j, k.gap)
<1> DEFINE k == clerk[c]
           row == [k EXCEPT !.pc = "row"]
<1>1. k \in ClerkRows /\ Informed(k) /\ k.pc = "gap" /\ k.job \in Jobs /\ k.gap \in Nat /\ k.gap > 0
  BY DEF LedgerInv, AddGap, ClerkAt, ClerkRows, Informed
<1>2. /\ row \in ClerkRows /\ row.pc = "row" /\ row.job = j /\ row.asked = k.asked
      /\ row.amount = k.amount /\ row.price = k.price /\ row.paid = k.paid
  BY <1>1 DEF ClerkRows, ClerkSteps, Adding
<1>3. Informed(row)
  BY <1>1, <1>2 DEF Informed, Adding
<1>4. /\ ClerkBecomes(c, row) /\ UNCHANGED <<job, due, torn, requests>>
      /\ FreeRows # {} /\ pay' = [pay EXCEPT ![NewRow] = [job |-> j, amount |-> k.gap]]
  BY DEF AddGap
<1>5. Inserted(j, k.gap)
  BY <1>1, <1>4, InsertIs
<1> HIDE DEF row
<1>6. Moves(c, row)
  BY <1>2, <1>3, <1>4, Becomes
<1>7. clerk'[c] = row
  BY <1>6 DEF Moves
<1> QED
  BY <1>1, <1>2, <1>4, <1>5, <1>6, <1>7

LEMMA AddRowIs ==
    ASSUME LedgerInv, NEW c \in Clerks, NEW j \in Jobs, clerk[c].job = j, AddRow(c)
    PROVE  LET k == clerk[c]
               n == clerk'[c] IN
           /\ k.pc = "row" /\ UNCHANGED <<job, torn, requests>> /\ Moves(c, n)
           /\ n.pc = "paid" /\ n.job = j /\ n.price = k.price /\ n.paid = k.paid
           /\ k.amount \in Nat /\ k.amount > 0 /\ Inserted(j, k.amount)
           /\ due' \in [Jobs -> Nat] /\ due'[j] = due[j] + k.amount
           /\ \A m \in Jobs \ {j} : due'[m] = due[m]
<1> DEFINE k == clerk[c]
           row == [k EXCEPT !.pc = "paid"]
<1>1. k \in ClerkRows /\ Informed(k) /\ k.pc = "row" /\ k.job \in Jobs /\ k.amount \in Nat /\ k.amount > 0
  BY DEF LedgerInv, AddRow, ClerkAt, ClerkRows, Informed, Adding
<1>2. /\ row \in ClerkRows /\ row.pc = "paid" /\ row.job = j /\ row.asked = k.asked
      /\ row.amount = k.amount /\ row.price = k.price /\ row.paid = k.paid
  BY <1>1 DEF ClerkRows, ClerkSteps, Adding
<1>3. Informed(row)
  BY <1>1, <1>2 DEF Informed, Adding
<1>4. /\ ClerkBecomes(c, row) /\ UNCHANGED <<job, torn, requests>>
      /\ FreeRows # {} /\ pay' = [pay EXCEPT ![NewRow] = [job |-> j, amount |-> k.amount]]
      /\ due' = [due EXCEPT ![j] = due[j] + k.amount]
  BY DEF AddRow
<1>5. Inserted(j, k.amount)
  BY <1>1, <1>4, InsertIs
<1>6. /\ due' \in [Jobs -> Nat] /\ due'[j] = due[j] + k.amount
      /\ \A m \in Jobs \ {j} : due'[m] = due[m]
  BY <1>1, <1>4 DEF LedgerInv
<1> HIDE DEF row
<1>7. Moves(c, row)
  BY <1>2, <1>3, <1>4, Becomes
<1>8. clerk'[c] = row
  BY <1>7 DEF Moves
<1> QED
  BY <1>1, <1>2, <1>4, <1>5, <1>6, <1>7, <1>8

\* Only the paid total and the flag of one job are written.
Rewritten(j) ==
    /\ job' \in [Jobs -> JobRows]
    /\ job'[j].open = job[j].open
    /\ \A m \in Jobs \ {j} : job'[m] = job[m]

LEMMA PaidWriteIs ==
    ASSUME LedgerInv, NEW c \in Clerks, PaidWrite(c)
    PROVE  LET k == clerk[c]
               n == clerk'[c]
               j == k.job IN
           /\ k.pc = "paid" /\ UNCHANGED <<pay, due, torn, requests>> /\ Moves(c, n)
           /\ n.pc \in {"idle", "copy"} /\ (n.pc = "copy" => n.job = j /\ n.price = k.price)
           /\ Rewritten(j) /\ job'[j].paid = k.paid /\ job'[j].price = job[j].price
           /\ job'[j].settled = Settled(k.price, k.paid)
<1> DEFINE k == clerk[c]
           j == k.job
           flag == Settled(k.price, k.paid)
           copy == [k EXCEPT !.pc = "copy"]
           row == IF k.asked = j THEN IdleClerk ELSE copy
           new == [job[j] EXCEPT !.paid = k.paid, !.settled = flag]
<1>1. k \in ClerkRows /\ Informed(k) /\ k.pc = "paid" /\ j \in Jobs /\ k.paid \in Nat
  BY DEF LedgerInv, PaidWrite, ClerkAt, ClerkRows
<1>2. flag \in Flags
  BY DEF Settled, Flags
<1>3. /\ ClerkBecomes(c, row) /\ UNCHANGED <<pay, due, torn, requests>>
      /\ job' = [job EXCEPT ![j].paid = k.paid, ![j].settled = flag]
  BY DEF PaidWrite
<1>4. /\ copy \in ClerkRows /\ copy.pc = "copy" /\ copy.job = j /\ copy.asked = k.asked
      /\ copy.price = k.price
  BY <1>1 DEF ClerkRows, ClerkSteps, Adding
<1> HIDE DEF copy
<1>5. row \in ClerkRows /\ Informed(row) /\ row.pc \in {"idle", "copy"}
      /\ (row.pc = "copy" => row.job = j /\ row.price = k.price)
  BY <1>1, <1>4, IdleIs DEF Informed, Adding
<1>6. job' = [job EXCEPT ![j] = new] /\ job[j] \in JobRows
  BY <1>1, <1>3 DEF LedgerInv
<1> HIDE DEF flag
<1>7. new \in JobRows /\ new.paid = k.paid /\ new.settled = flag /\ new.price = job[j].price /\ new.open = job[j].open
  BY <1>1, <1>2, <1>6 DEF JobRows
<1> HIDE DEF row, new
<1>8. Rewritten(j) /\ job'[j] = new
  BY <1>1, <1>6, <1>7 DEF Rewritten, LedgerInv
<1>9. Moves(c, row)
  BY <1>3, <1>5, Becomes
<1>10. clerk'[c] = row
  BY <1>9 DEF Moves
<1> QED
  BY <1>1, <1>3, <1>5, <1>7, <1>8, <1>9, <1>10 DEF flag

LEMMA AddCopyIs ==
    ASSUME LedgerInv, NEW c \in Clerks, AddCopy(c)
    PROVE  LET j == clerk[c].asked IN
           /\ clerk[c].pc = "copy" /\ UNCHANGED <<pay, due, torn, requests>> /\ Moves(c, IdleClerk)
           /\ j \in Sessions /\ Rewritten(j) /\ job'[j].price = job[j].price
<1> DEFINE k == clerk[c]
           j == k.asked
           new == [job[j] EXCEPT !.paid = k.paid]
<1>1. k \in ClerkRows /\ Informed(k) /\ k.pc = "copy" /\ k.paid \in Nat
  BY DEF LedgerInv, AddCopy, ClerkAt, ClerkRows
<1>2. j \in Sessions /\ j \in Jobs
  BY <1>1 DEF Informed, ClerkRows
<1>3. ClerkBecomes(c, IdleClerk) /\ UNCHANGED <<pay, due, torn, requests>> /\ job' = [job EXCEPT ![j] = new]
  BY DEF AddCopy
<1>4. new \in JobRows /\ new.price = job[j].price /\ new.open = job[j].open
  BY <1>1, <1>2 DEF LedgerInv, JobRows
<1> HIDE DEF new
<1>5. Rewritten(j) /\ job'[j] = new
  BY <1>2, <1>3, <1>4 DEF Rewritten, LedgerInv
<1> QED
  BY <1>1, <1>2, <1>3, <1>4, <1>5, IdleIs

LEMMA ChangeReadIs ==
    ASSUME LedgerInv, NEW c \in Clerks, NEW i \in PayIds, NEW a \in Amounts \cup {0}, ChangeRead(c, i, a)
    PROVE  LET n == clerk'[c] IN
           /\ n.pc = "change" /\ n.job \in Jobs /\ n.price = job[n.job].price /\ i \in RowsOf(n.job)
           /\ Begins(c) /\ Moves(c, n)
<1> DEFINE t == pay[i].job
           row == [IdleClerk EXCEPT !.pc = "change", !.job = t, !.asked = t, !.pay = i, !.amount = a,
                                    !.price = job[t].price]
<1>1. t \in Jobs /\ i \in RowsOf(t) /\ Start(c, row) /\ UNCHANGED <<job, pay, due>>
  BY DEF LedgerInv, PayRows, ChangeRead, FreeRows, RowsOf
<1> HIDE DEF t
<1>2. job[t] \in JobRows /\ a \in Nat
  BY <1>1, LedgerAssumption DEF LedgerInv
<1>3. /\ row \in ClerkRows /\ row.pc = "change" /\ row.job = t /\ row.asked = t /\ row.pay = i
      /\ row.price = job[t].price
  BY <1>1, <1>2, IdleIs DEF ClerkRows, ClerkSteps, Adding, JobRows
<1> HIDE DEF row
<1>4. Informed(row)
  BY <1>3 DEF Informed, Adding
<1>5. Begins(c) /\ Moves(c, row)
  BY <1>1, <1>3, <1>4, StartIs
<1>6. clerk'[c] = row
  BY <1>5 DEF Moves
<1> QED
  BY <1>1, <1>3, <1>5, <1>6

\* A row that gets another amount, or is deleted.
Changed(j, old, a) ==
    /\ pay' \in [PayIds -> PayRows]
    /\ old \in Nat /\ old > 0 /\ old <= SumOf(j) /\ RowsOf(j) # {}
    /\ SumOf(j)' \in Nat /\ SumOf(j)' + old = SumOf(j) + a
    /\ \A m \in Jobs \ {j} : SumOf(m)' = SumOf(m) /\ RowsOf(m)' = RowsOf(m)

LEMMA ChangeIs ==
    ASSUME LedgerInv, NEW j \in Jobs, NEW i \in RowsOf(j), NEW a \in Nat,
           pay' = [pay EXCEPT ![i] = IF a = 0 THEN NoPayment ELSE [pay[i] EXCEPT !.amount = a]]
    PROVE  Changed(j, pay[i].amount, a)
<1> DEFINE old == pay[i].amount
<1>1. i \in PayIds /\ pay[i] \in PayRows /\ pay[i].job = j /\ old \in Nat /\ old > 0 /\ RowsOf(j) # {}
  BY DEF LedgerInv, PayRows, RowsOf
<1>2. PICK new \in PayRows : /\ pay' = [pay EXCEPT ![i] = new] /\ new.amount = a
                             /\ a > 0 => new.job = j
  <2> DEFINE row == IF a = 0 THEN NoPayment ELSE [pay[i] EXCEPT !.amount = a]
  <2>1. row \in PayRows /\ row.amount = a /\ (a > 0 => row.job = j)
    BY <1>1 DEF PayRows, NoPayment, Jobs
  <2>2. pay' = [pay EXCEPT ![i] = row]
    OBVIOUS
  <2> HIDE DEF row
  <2> QED
    BY <2>1, <2>2
<1>3. pay' \in [PayIds -> PayRows]
  BY <1>1, <1>2 DEF LedgerInv
<1>4. old <= SumOf(j) /\ SumOf(j)' \in Nat /\ SumOf(j)' + old = SumOf(j) + a
  <2> DEFINE v == IF pay[i].job = j THEN pay[i].amount ELSE 0
             w == IF new.job = j THEN new.amount ELSE 0
  <2>1. v = old /\ w = a
    BY <1>1, <1>2
  <2>2. SumOf(j) + w = SumOf(j)' + v /\ SumOf(j)' \in Nat /\ v <= SumOf(j)
    BY <1>1, <1>2, RowReplaced
  <2> HIDE DEF v, w
  <2> QED
    BY <2>1, <2>2
<1>5. ASSUME NEW m \in Jobs \ {j} PROVE SumOf(m)' = SumOf(m) /\ RowsOf(m)' = RowsOf(m)
  <2> DEFINE v == IF pay[i].job = m THEN pay[i].amount ELSE 0
             w == IF new.job = m THEN new.amount ELSE 0
  <2>1. v = 0 /\ w = 0
    BY <1>1, <1>2
  <2>2. /\ SumOf(m) + w = SumOf(m)' + v /\ SumOf(m)' \in Nat
        /\ RowsOf(m)' = IF w > 0 THEN RowsOf(m) \cup {i} ELSE RowsOf(m) \ {i}
    BY <1>1, <1>2, RowReplaced
  <2>3. i \notin RowsOf(m)
    BY <1>1 DEF RowsOf
  <2> HIDE DEF v, w
  <2> QED
    BY <2>1, <2>2, <2>3, SumOfType
<1> QED
  BY <1>1, <1>3, <1>4, <1>5 DEF Changed

LEMMA ChangeRowIs ==
    ASSUME LedgerInv, NEW c \in Clerks, NEW j \in Jobs, clerk[c].job = j, ChangeRow(c)
    PROVE  LET k == clerk[c]
               n == clerk'[c] IN
           /\ k.pc = "change" /\ UNCHANGED <<job, torn, requests>> /\ Moves(c, n)
           /\ n.pc = "sum" /\ n.job = j /\ n.price = k.price
           /\ \/ UNCHANGED <<pay, due>>
              \/ \E old, a \in Nat :
                    /\ Changed(j, old, a) /\ due' \in [Jobs -> Nat]
                    /\ due'[j] = IF due[j] + a < old THEN 0 ELSE due[j] + a - old
                    /\ \A m \in Jobs \ {j} : due'[m] = due[m]
<1> DEFINE k == clerk[c]
           row == [k EXCEPT !.pc = "sum"]
<1>1. k \in ClerkRows /\ Informed(k) /\ k.pc = "change" /\ k.amount \in Nat /\ k.pay \in PayIds
  BY DEF LedgerInv, ChangeRow, ClerkAt, ClerkRows, Informed
<1>2. /\ row \in ClerkRows /\ row.pc = "sum" /\ row.job = j /\ row.asked = k.asked /\ row.price = k.price
  BY <1>1 DEF ClerkRows, ClerkSteps, Adding
<1>3. Informed(row)
  BY <1>1, <1>2 DEF Informed, Adding
<1>4. ClerkBecomes(c, row) /\ UNCHANGED <<job, torn, requests>>
  BY DEF ChangeRow
<1>5. CASE k.pay \notin RowsOf(j)
  <2>1. UNCHANGED <<pay, due>>
    BY <1>5 DEF ChangeRow
  <2> HIDE DEF row
  <2>2. Moves(c, row)
    BY <1>2, <1>3, <1>4, Becomes
  <2>3. clerk'[c] = row
    BY <2>2 DEF Moves
  <2> QED
    BY <1>1, <1>2, <1>4, <2>1, <2>2, <2>3
<1>6. CASE k.pay \in RowsOf(j)
  <2>1. PICK i \in RowsOf(j), a \in Nat : i = k.pay /\ a = k.amount
    BY <1>1, <1>6
  <2> DEFINE old == pay[i].amount
             left == IF due[j] + a < old THEN 0 ELSE due[j] + a - old
  <2>2. /\ pay' = [pay EXCEPT ![i] = IF a = 0 THEN NoPayment ELSE [pay[i] EXCEPT !.amount = a]]
        /\ due' = [due EXCEPT ![j] = left]
    BY <1>6, <2>1 DEF ChangeRow
  <2>3. Changed(j, old, a)
    BY <2>2, ChangeIs
  <2>4. old \in Nat /\ due[j] \in Nat
    BY <2>3 DEF Changed, LedgerInv
  <2>5. left \in Nat
    BY <2>4
  <2>6. /\ due' \in [Jobs -> Nat] /\ due'[j] = left /\ \A m \in Jobs \ {j} : due'[m] = due[m]
    <3> HIDE DEF left
    <3> QED
      BY <2>2, <2>5 DEF LedgerInv
  <2> HIDE DEF old
  <2>7. \E o, b \in Nat :
          /\ Changed(j, o, b) /\ due' \in [Jobs -> Nat]
          /\ due'[j] = IF due[j] + b < o THEN 0 ELSE due[j] + b - o
          /\ \A m \in Jobs \ {j} : due'[m] = due[m]
    BY <2>3, <2>4, <2>6
  <2> HIDE DEF row
  <2>8. Moves(c, row)
    BY <1>2, <1>3, <1>4, Becomes
  <2>9. clerk'[c] = row
    BY <2>8 DEF Moves
  <2> QED
    BY <1>1, <1>2, <1>4, <2>7, <2>8, <2>9
<1> QED
  BY <1>5, <1>6

LEMMA ChangeSumIs ==
    ASSUME LedgerInv, NEW c \in Clerks, ChangeSum(c)
    PROVE  LET k == clerk[c]
               n == clerk'[c] IN
           /\ k.pc = "sum" /\ UNCHANGED <<job, pay, due, torn, requests>> /\ Moves(c, n)
           /\ n.pc = "paid" /\ n.job = k.job /\ n.price = k.price /\ n.paid = SumOf(k.job)
<1> DEFINE k == clerk[c]
           s == SumOf(k.job)
           row == [k EXCEPT !.pc = "paid", !.paid = s]
<1>1. k \in ClerkRows /\ Informed(k) /\ k.pc = "sum" /\ s \in Nat
  BY SumOfType DEF LedgerInv, ChangeSum, ClerkAt
<1>2. ClerkBecomes(c, row) /\ UNCHANGED <<job, pay, due, torn, requests>>
  BY DEF ChangeSum
<1> HIDE DEF s
<1>3. /\ row \in ClerkRows /\ row.pc = "paid" /\ row.job = k.job /\ row.asked = k.asked
      /\ row.price = k.price /\ row.paid = s
  BY <1>1 DEF ClerkRows, ClerkSteps, Adding
<1> HIDE DEF row
<1>4. Informed(row)
  BY <1>1, <1>3 DEF Informed, Adding
<1>5. Moves(c, row)
  BY <1>2, <1>3, <1>4, Becomes
<1>6. clerk'[c] = row
  BY <1>5 DEF Moves
<1> QED
  BY <1>1, <1>2, <1>3, <1>5, <1>6 DEF s

LEMMA RepriceReadIs ==
    ASSUME LedgerInv, NEW c \in Clerks, NEW j \in Jobs, NEW price \in Prices,
           NEW byHand \in {"asComputed", "forced", "no"}, RepriceRead(c, j, price, byHand)
    PROVE  LET n == clerk'[c] IN
           /\ n.pc = "reprice" /\ n.job = j /\ n.price = price
           /\ n.settled = "yes" => price > 0 /\ job[j].paid >= price
           /\ Begins(c) /\ Moves(c, n)
<1> DEFINE flag == IF byHand = "asComputed" THEN SettledAtPrice(j, price) ELSE byHand
           row == [IdleClerk EXCEPT !.pc = "reprice", !.job = j, !.asked = j, !.price = price,
                                    !.settled = flag]
<1>1. flag \in Flags /\ (flag = "yes" => price > 0 /\ job[j].paid >= price)
  BY DEF SettledAtPrice, Settled, Flags
<1>2. Start(c, row) /\ UNCHANGED <<job, pay, due>> /\ price \in Nat
  BY LedgerAssumption DEF RepriceRead
<1> HIDE DEF flag
<1>3. /\ row \in ClerkRows /\ row.pc = "reprice" /\ row.job = j /\ row.asked = j
      /\ row.price = price /\ row.settled = flag
  BY <1>1, <1>2, IdleIs DEF ClerkRows, ClerkSteps, Adding
<1> HIDE DEF row
<1>4. Informed(row)
  BY <1>3 DEF Informed, Adding
<1>5. Begins(c) /\ Moves(c, row)
  BY <1>2, <1>3, <1>4, StartIs
<1>6. clerk'[c] = row
  BY <1>5 DEF Moves
<1> QED
  BY <1>1, <1>3, <1>5, <1>6

LEMMA RepriceWriteIs ==
    ASSUME LedgerInv, NEW c \in Clerks, RepriceWrite(c)
    PROVE  LET k == clerk[c]
               j == k.job IN
           /\ k.pc = "reprice" /\ UNCHANGED <<pay, due, torn, requests>> /\ Moves(c, IdleClerk)
           /\ Rewritten(j) /\ job'[j].paid = job[j].paid /\ job'[j].price = k.price
           /\ job'[j].settled = k.settled
<1> DEFINE k == clerk[c]
           j == k.job
           new == [job[j] EXCEPT !.price = k.price, !.settled = k.settled]
<1>1. k \in ClerkRows /\ k.pc = "reprice" /\ j \in Jobs /\ k.price \in Nat /\ k.settled \in Flags
  BY DEF LedgerInv, RepriceWrite, ClerkAt, ClerkRows
<1>2. /\ ClerkBecomes(c, IdleClerk) /\ UNCHANGED <<pay, due, torn, requests>>
      /\ job' = [job EXCEPT ![j].price = k.price, ![j].settled = k.settled]
  BY DEF RepriceWrite
<1>3. job' = [job EXCEPT ![j] = new] /\ job[j] \in JobRows
  BY <1>1, <1>2 DEF LedgerInv
<1>4. new \in JobRows /\ new.price = k.price /\ new.settled = k.settled /\ new.paid = job[j].paid /\ new.open = job[j].open
  BY <1>1, <1>3 DEF JobRows
<1> HIDE DEF new
<1>5. Rewritten(j) /\ job'[j] = new
  BY <1>1, <1>3, <1>4 DEF Rewritten, LedgerInv
<1> QED
  BY <1>1, <1>2, <1>4, <1>5, IdleIs

LEMMA FollowUpInsertIs ==
    ASSUME LedgerInv, NEW c \in Clerks, NEW f \in Sessions, NEW j \in Jobs, NEW price \in Nat,
           FollowUpInsert(c, f, j, price)
    PROVE  LET n == clerk'[c] IN
           n.pc = "own" /\ n.job \in Sessions /\ Begins(c) /\ Moves(c, n)
<1> DEFINE row == [IdleClerk EXCEPT !.pc = "own", !.job = f, !.asked = f, !.price = price]
           new == [job[j] EXCEPT !.open = TRUE]
<1>1. Start(c, row) /\ UNCHANGED <<pay, due>> /\ job' = [job EXCEPT ![f] = new]
  BY DEF FollowUpInsert
<1>2. f \in Jobs /\ f # Primary /\ job[j] \in JobRows
  BY LedgerAssumption DEF Jobs, LedgerInv
<1>3. row \in ClerkRows /\ row.pc = "own" /\ row.job = f /\ row.asked = f
  BY <1>2, IdleIs DEF ClerkRows, ClerkSteps, Adding
<1>4. new \in JobRows
  BY <1>2 DEF JobRows
<1> HIDE DEF row, new
<1>5. Informed(row)
  BY <1>3 DEF Informed, Adding
<1>6. job' \in [Jobs -> JobRows] /\ job'[Primary] = job[Primary]
  BY <1>1, <1>2, <1>4 DEF LedgerInv
<1>7. ClerkBecomes(c, row) /\ clerk[c].pc = "idle" /\ torn' = (torn \/ ~Quiet)
  BY <1>1 DEF Start, ClerkAt
<1>8. requests' \in 0..MaxRequests
  BY <1>1, LedgerAssumption DEF LedgerInv, Start
<1>9. Moves(c, row)
  BY <1>3, <1>5, <1>7, Becomes
<1>10. clerk'[c] = row
  BY <1>9 DEF Moves
<1>11. Begins(c)
  BY <1>1, <1>3, <1>6, <1>7, <1>8, <1>10 DEF Begins, Quiet, ClerkAt, LedgerInv
<1> QED
  BY <1>3, <1>9, <1>10, <1>11

LEMMA FollowUpOwnIs ==
    ASSUME LedgerInv, NEW c \in Clerks, FollowUpOwn(c)
    PROVE  LET k == clerk[c]
               j == k.job IN
           /\ k.pc = "own" /\ UNCHANGED <<pay, due, torn, requests>> /\ Moves(c, IdleClerk)
           /\ Rewritten(j) /\ j \in Sessions /\ job'[Primary] = job[Primary]
<1> DEFINE k == clerk[c]
           j == k.job
           flag == IF k.price = 0 THEN "yes" ELSE "no"
           new == [job[j] EXCEPT !.price = k.price, !.paid = 0, !.settled = flag]
<1>1. k \in ClerkRows /\ Informed(k) /\ k.pc = "own" /\ j \in Jobs /\ k.price \in Nat /\ flag \in Flags
  BY DEF LedgerInv, FollowUpOwn, ClerkAt, ClerkRows, Flags
<1>2. /\ ClerkBecomes(c, IdleClerk) /\ UNCHANGED <<pay, due, torn, requests>>
      /\ job' = [job EXCEPT ![j].price = k.price, ![j].paid = 0, ![j].settled = flag]
  BY DEF FollowUpOwn
<1>3. j \in Sessions /\ j # Primary
  BY <1>1, LedgerAssumption DEF Informed
<1> HIDE DEF flag
<1>4. job' = [job EXCEPT ![j] = new] /\ job[j] \in JobRows
  BY <1>1, <1>2 DEF LedgerInv
<1>5. new \in JobRows /\ new.open = job[j].open
  BY <1>1, <1>4 DEF JobRows
<1> HIDE DEF new
<1>6. Rewritten(j) /\ job'[Primary] = job[Primary]
  BY <1>1, <1>3, <1>4, <1>5 DEF Rewritten, LedgerInv, Jobs
<1> QED
  BY <1>1, <1>2, <1>3, <1>6, IdleIs

\* What every request has in common, and what it may be.
LEMMA RequestIs ==
    ASSUME LedgerInv, NEW c \in Clerks, Request(c)
    PROVE  LET n == clerk'[c] IN
           /\ Begins(c) /\ Moves(c, n)
           /\ \/ n.pc = "own" /\ n.job \in Sessions
              \/ \E j \in Jobs, a \in Amounts : AddRead(c, j, a)
              \/ \E i \in PayIds, a \in Amounts \cup {0} : ChangeRead(c, i, a)
              \/ \E j \in Jobs, price \in Prices, h \in {"asComputed", "forced", "no"} :
                    RepriceRead(c, j, price, h)
<1>1. Prices \cup {Leftover} \subseteq Nat
  <2>1. job[Primary].price \in Nat /\ job[Primary].paid \in Nat
    BY DEF LedgerInv, JobRows, Jobs
  <2>2. Leftover \in Nat
    BY <2>1 DEF Leftover
  <2> QED
    BY <2>2, LedgerAssumption
<1>2. ASSUME NEW f \in Sessions, NEW j \in Jobs, NEW price \in Prices \cup {Leftover},
             FollowUpInsert(c, f, j, price)
      PROVE  Begins(c) /\ Moves(c, clerk'[c]) /\ clerk'[c].pc = "own" /\ clerk'[c].job \in Sessions
  <2>1. price \in Nat
    BY <1>1
  <2> QED
    BY <1>2, <2>1, FollowUpInsertIs
<1> QED
  BY <1>2, AddReadIs, ChangeReadIs, RepriceReadIs DEF Request

LEMMA ReconcileIs ==
    ASSUME LedgerInv, Reconcile
    PROVE  /\ UNCHANGED <<pay, clerk, due, torn, requests>> /\ job' \in [Jobs -> JobRows]
           /\ \A j \in Jobs :
                 /\ job'[j].open = job[j].open /\ job'[j].price = job[j].price
                 /\ SumOf(j) <= job[j].paid => job'[j] = job[j]
                 /\ SumOf(j) > job[j].paid => /\ job'[j].paid = SumOf(j)
                                              /\ job'[j].settled = Settled(job[j].price, SumOf(j))
<1> DEFINE new(j) == [job[j] EXCEPT !.paid = SumOf(j), !.settled = Settled(job[j].price, SumOf(j))]
<1>1. /\ UNCHANGED <<pay, clerk, due, torn, requests>>
      /\ job' = [j \in Jobs |-> IF Behind(j) THEN new(j) ELSE job[j]]
  BY DEF Reconcile
<1>2. ASSUME NEW j \in Jobs
      PROVE  /\ new(j) \in JobRows /\ new(j).paid = SumOf(j) /\ new(j).settled = Settled(job[j].price, SumOf(j))
             /\ new(j).open = job[j].open /\ new(j).price = job[j].price
             /\ job[j] \in JobRows
  <2> DEFINE s == SumOf(j)
             flag == Settled(job[j].price, s)
  <2>1. s \in Nat /\ flag \in Flags /\ job[j] \in JobRows
    BY SumOfType DEF Settled, Flags, LedgerInv
  <2> HIDE DEF s, flag
  <2>2. LET r == [job[j] EXCEPT !.paid = s, !.settled = flag] IN
        r \in JobRows /\ r.paid = s /\ r.settled = flag /\ r.open = job[j].open /\ r.price = job[j].price
    BY <2>1 DEF JobRows
  <2> QED
    BY <2>1, <2>2 DEF s, flag
<1> HIDE DEF new
<1>3. \A j \in Jobs : Behind(j) <=> SumOf(j) > job[j].paid
  BY DEF Behind
<1>4. job' \in [Jobs -> JobRows]
  BY <1>1, <1>2
<1>5. \A j \in Jobs : job[j].paid \in Nat /\ SumOf(j) \in Nat
  BY SumOfType DEF LedgerInv, JobRows
<1> QED
  BY <1>1, <1>2, <1>3, <1>4, <1>5

LEMMA ClosePrimaryIs ==
    ASSUME LedgerInv, ClosePrimary
    PROVE  /\ UNCHANGED <<pay, clerk, due, requests>> /\ torn' \in BOOLEAN
           /\ ~torn' => ~torn /\ \A c \in Clerks : clerk[c].pc = "idle"
           /\ job' \in [Jobs -> JobRows] /\ ~job'[Primary].open
           /\ job'[Primary].paid = job[Primary].paid /\ job'[Primary].price = job[Primary].price
           /\ job'[Primary].settled = job[Primary].settled
           /\ \A j \in Sessions : job'[j] = job[j]
<1> DEFINE new == [job[Primary] EXCEPT !.open = FALSE]
<1>1. job[Primary] \in JobRows /\ Primary \in Jobs
  BY DEF LedgerInv, Jobs
<1>2. /\ new \in JobRows /\ ~new.open /\ new.paid = job[Primary].paid /\ new.price = job[Primary].price
      /\ new.settled = job[Primary].settled
  BY <1>1 DEF JobRows
<1>3. UNCHANGED <<pay, clerk, due, requests>> /\ torn' = (torn \/ ~Quiet) /\ job' = [job EXCEPT ![Primary] = new]
  BY DEF ClosePrimary
<1> HIDE DEF new
<1>4. job' \in [Jobs -> JobRows] /\ job'[Primary] = new /\ \A j \in Sessions : job'[j] = job[j]
  BY <1>1, <1>2, <1>3, LedgerAssumption DEF LedgerInv, Jobs
<1>5. torn' \in BOOLEAN /\ (~torn' => ~torn /\ \A c \in Clerks : clerk[c].pc = "idle")
  BY <1>3 DEF Quiet, ClerkAt, LedgerInv
<1> QED
  BY <1>2, <1>3, <1>4, <1>5

LEMMA ClerkStopsIs ==
    ASSUME LedgerInv, NEW c \in Clerks, ClerkStops(c)
    PROVE  torn' = TRUE /\ UNCHANGED <<job, pay, due, requests>> /\ Moves(c, IdleClerk)
BY IdleIs DEF ClerkStops

LEMMA SameRows ==
    ASSUME UNCHANGED pay
    PROVE  /\ \A j : RowsOf(j)' = RowsOf(j)
           /\ \A j : SumOf(j)' = SumOf(j)
<1>1. \A j : RowsOf(j)' = RowsOf(j)
  BY DEF RowsOf
<1>2. Amount' = Amount
  BY DEF Amount
<1> HIDE DEF Amount
<1> QED
  BY <1>1, <1>2, SumOfIs

\* The types of a state after the step of one handler.
LEMMA MovesTyped ==
    ASSUME LedgerInv, NEW c \in Clerks, NEW n, Moves(c, n),
           job' \in [Jobs -> JobRows], pay' \in [PayIds -> PayRows], due' \in [Jobs -> Nat],
           torn' \in BOOLEAN, requests' \in 0..MaxRequests
    PROVE  LedgerInv'
BY DEF LedgerInv, Moves

LEMMA LedgerInit0 == LedgerInit => LedgerInv
<1> SUFFICES ASSUME LedgerInit PROVE LedgerInv
  OBVIOUS
<1>1. job \in [Jobs -> JobRows]
  BY LedgerAssumption DEF LedgerInit, JobRows, Flags
<1>2. pay \in [PayIds -> PayRows]
  BY DEF LedgerInit, PayRows, NoPayment, Jobs
<1>3. clerk \in [Clerks -> ClerkRows] /\ \A c \in Clerks : Informed(clerk[c])
  <2>1. clerk = [c \in Clerks |-> IdleClerk]
    BY DEF LedgerInit
  <2>2. \A c \in Clerks : clerk[c] = IdleClerk
    BY <2>1
  <2>3. clerk \in [Clerks -> ClerkRows]
    BY <2>1, IdleIs
  <2>4. Informed(IdleClerk)
    BY IdleIs
  <2>5. ASSUME NEW c \in Clerks PROVE Informed(clerk[c])
    <3>1. clerk[c] = IdleClerk
      BY <2>2
    <3> QED
      BY <2>4, <3>1
  <2> QED
    BY <2>3, <2>5
<1>4. due \in [Jobs -> Nat] /\ torn \in BOOLEAN /\ requests \in 0..MaxRequests
  <2>1. Opening \in Nat /\ MaxRequests \in Nat
    BY LedgerAssumption
  <2>2. due = [j \in Jobs |-> IF j = Primary THEN Opening ELSE 0] /\ torn = FALSE /\ requests = 0
    BY DEF LedgerInit
  <2>3. due \in [Jobs -> Nat]
    BY <2>1, <2>2
  <2>4. torn = FALSE /\ requests = 0
    BY <2>2
  <2>5. torn \in BOOLEAN
    BY <2>4
  <2>6. requests \in 0..MaxRequests
    BY <2>1, <2>4
  <2> QED
    BY <2>3, <2>5, <2>6
<1> QED
  BY <1>1, <1>2, <1>3, <1>4 DEF LedgerInv

LEMMA LedgerStep == LedgerInv /\ [LedgerNext]_ledgerVars => LedgerInv'
<1> SUFFICES ASSUME LedgerInv, [LedgerNext]_ledgerVars PROVE LedgerInv'
  OBVIOUS
<1>0. /\ job \in [Jobs -> JobRows] /\ pay \in [PayIds -> PayRows] /\ due \in [Jobs -> Nat]
      /\ torn \in BOOLEAN /\ requests \in 0..MaxRequests
      /\ \A c \in Clerks : clerk[c] \in ClerkRows /\ clerk[c].job \in Jobs
  BY DEF LedgerInv, ClerkRows
<1>1. CASE UNCHANGED ledgerVars
  BY <1>1 DEF LedgerInv, ledgerVars
<1>2. CASE Reconcile
  BY <1>0, <1>2, ReconcileIs DEF LedgerInv
<1>3. CASE ClosePrimary
  BY <1>0, <1>3, ClosePrimaryIs DEF LedgerInv
<1>4. ASSUME NEW c \in Clerks, Request(c) PROVE LedgerInv'
  <2>1. Begins(c) /\ Moves(c, clerk'[c])
    BY <1>4, RequestIs
  <2> QED
    BY <1>0, <2>1, MovesTyped DEF Begins
<1>5. ASSUME NEW c \in Clerks, Statement(c) PROVE LedgerInv'
  <2>1. CASE AddPlan(c)
    BY <1>0, <2>1, AddPlanIs, MovesTyped
  <2>2. CASE PaidWrite(c)
    BY <1>0, <2>2, PaidWriteIs, MovesTyped DEF Rewritten
  <2>3. CASE AddCopy(c)
    BY <1>0, <2>3, AddCopyIs, MovesTyped DEF Rewritten
  <2>4. CASE ChangeRow(c)
    <3>1. PICK j \in Jobs : clerk[c].job = j
      BY <1>0
    <3>2. /\ UNCHANGED <<job, torn, requests>> /\ Moves(c, clerk'[c])
          /\ pay' \in [PayIds -> PayRows] /\ due' \in [Jobs -> Nat]
      BY <1>0, <2>4, <3>1, ChangeRowIs DEF Changed
    <3> QED
      BY <1>0, <3>2, MovesTyped
  <2>5. CASE ChangeSum(c)
    BY <1>0, <2>5, ChangeSumIs, MovesTyped
  <2>6. CASE RepriceWrite(c)
    BY <1>0, <2>6, RepriceWriteIs, MovesTyped DEF Rewritten
  <2>7. CASE AddGap(c)
    <3>1. PICK j \in Jobs : clerk[c].job = j
      BY <1>0
    <3>2. UNCHANGED <<job, due, torn, requests>> /\ Moves(c, clerk'[c]) /\ pay' \in [PayIds -> PayRows]
      BY <2>7, <3>1, AddGapIs DEF Inserted
    <3> QED
      BY <1>0, <3>2, MovesTyped
  <2>8. CASE AddRow(c)
    <3>1. PICK j \in Jobs : clerk[c].job = j
      BY <1>0
    <3>2. /\ UNCHANGED <<job, torn, requests>> /\ Moves(c, clerk'[c]) /\ pay' \in [PayIds -> PayRows]
          /\ due' \in [Jobs -> Nat]
      BY <2>8, <3>1, AddRowIs DEF Inserted
    <3> QED
      BY <1>0, <3>2, MovesTyped
  <2>9. CASE FollowUpOwn(c)
    BY <1>0, <2>9, FollowUpOwnIs, MovesTyped DEF Rewritten
  <2> QED
    BY <1>5, <2>1, <2>2, <2>3, <2>4, <2>5, <2>6, <2>7, <2>8, <2>9 DEF Statement
<1>6. ASSUME NEW c \in Clerks, ClerkStops(c) PROVE LedgerInv'
  BY <1>0, <1>6, ClerkStopsIs, MovesTyped
<1> QED
  BY <1>1, <1>2, <1>3, <1>4, <1>5, <1>6 DEF LedgerNext

LEMMA LedgerTyped == LedgerSpec => []LedgerInv
BY LedgerInit0, LedgerStep, PTL DEF LedgerSpec

-----------------------------------------------------------------------------
(* No money is lost *)

\* The total of the primary job from before the rows: nobody has added a row to
\* it, and whoever is about to puts the older money in first.
Unhurried(k) ==
    k.job = Primary =>
        /\ k.pc \in {"idle", "plan", "gap", "reprice"}
        /\ k.pc = "plan" => k.paid >= due[Primary]
        /\ k.pc = "gap" => k.gap >= due[Primary]

Untouched ==
    /\ RowsOf(Primary) = {}
    /\ job[Primary].paid >= due[Primary]
    /\ \A c \in Clerks : Unhurried(clerk[c])

Covered(j) == SumOf(j) >= due[j]

Kept == \A j \in Jobs : Covered(j) \/ (j = Primary /\ Untouched)

LEMMA Numbers ==
    ASSUME LedgerInv
    PROVE  /\ \A j \in Jobs : SumOf(j) \in Nat /\ due[j] \in Nat /\ job[j] \in JobRows
           /\ \A j \in Jobs : job[j].paid \in Nat
           /\ \A c \in Clerks : clerk[c] \in ClerkRows
           /\ \A c \in Clerks : clerk[c].job \in Jobs /\ clerk[c].paid \in Nat /\ clerk[c].amount \in Nat
           /\ Primary \in Jobs /\ \A j \in Sessions : j \in Jobs /\ j # Primary
BY SumOfType, LedgerAssumption DEF LedgerInv, ClerkRows, JobRows, Jobs

\* A step that leaves the rows alone keeps it when the handler it is a step of
\* does, and does not lower the total.
LEMMA KeptQuietly ==
    ASSUME LedgerInv, Kept, NEW c \in Clerks, NEW n, Moves(c, n), UNCHANGED <<pay, due>>,
           job'[Primary].paid \in Nat,
           Untouched => \/ Covered(Primary)
                        \/ job'[Primary].paid >= job[Primary].paid /\ Unhurried(n)
    PROVE  Kept'
<1>1. /\ \A j \in Jobs : Covered(j) => Covered(j)'
      /\ RowsOf(Primary)' = RowsOf(Primary) /\ due' = due
  BY SameRows DEF Covered
<1>2. ASSUME Untouched, ~Covered(Primary) PROVE Untouched'
  <2>1. job'[Primary].paid >= job[Primary].paid /\ Unhurried(n)
    BY <1>2
  <2>2. job'[Primary].paid >= due[Primary]
    BY <1>2, <2>1, Numbers DEF Untouched
  <2>3. \A d \in Clerks : Unhurried(clerk'[d])
    BY <1>2, <2>1 DEF Moves, Untouched
  <2> QED
    BY <1>1, <1>2, <2>2, <2>3 DEF Untouched, Unhurried
<1> QED
  BY <1>1, <1>2 DEF Kept

\* A row that goes in, or changes, on a job whose rows cover what they should.
LEMMA KeptByRows ==
    ASSUME LedgerInv, Kept, NEW c \in Clerks, NEW n, Moves(c, n), UNCHANGED job,
           NEW j \in Jobs, clerk[c].job = j, n.job = j, Covered(j)',
           j = Primary => ~Untouched \/ Covered(Primary)',
           \A m \in Jobs \ {j} : SumOf(m)' = SumOf(m) /\ RowsOf(m)' = RowsOf(m) /\ due'[m] = due[m]
    PROVE  Kept'
<1>1. \A m \in Jobs \ {j} : Covered(m) => Covered(m)'
  BY DEF Covered
<1>2. ASSUME Untouched, ~Covered(Primary), j # Primary PROVE Untouched'
  <2>1. RowsOf(Primary)' = RowsOf(Primary) /\ due'[Primary] = due[Primary]
    BY <1>2, Numbers
  <2>2. \A d \in Clerks : Unhurried(clerk'[d])
    BY <1>2 DEF Moves, Untouched, Unhurried
  <2> QED
    BY <1>2, <2>1, <2>2 DEF Untouched, Unhurried
<1> QED
  BY <1>1, <1>2 DEF Kept

LEMMA KeptRequest == ASSUME LedgerInv, Kept, NEW c \in Clerks, Request(c) PROVE Kept'
<1> DEFINE n == clerk'[c]
<1>1. Begins(c) /\ Moves(c, n)
  BY RequestIs
<1>2. Untouched => Unhurried(n)
  <2>1. ASSUME NEW j \in Jobs, NEW a \in Amounts, AddRead(c, j, a), Untouched PROVE Unhurried(n)
    <3>1. n.pc = "plan" /\ n.paid = job[n.job].paid
      BY <2>1, AddReadIs
    <3> QED
      BY <2>1, <3>1 DEF Unhurried, Untouched
  <2>2. ASSUME NEW i \in PayIds, NEW a \in Amounts \cup {0}, ChangeRead(c, i, a), Untouched
        PROVE  Unhurried(n)
    <3>1. i \in RowsOf(n.job)
      BY <2>2, ChangeReadIs
    <3> QED
      BY <2>2, <3>1 DEF Unhurried, Untouched
  <2>3. ASSUME NEW j \in Jobs, NEW p \in Prices, NEW h \in {"asComputed", "forced", "no"},
               RepriceRead(c, j, p, h)
        PROVE  Unhurried(n)
    BY <2>3, RepriceReadIs DEF Unhurried
  <2>4. ASSUME n.job \in Sessions PROVE Unhurried(n)
    BY <2>4, Numbers DEF Unhurried
  <2> QED
    BY <2>1, <2>2, <2>3, <2>4, RequestIs
<1> HIDE DEF n
<1> QED
  BY <1>1, <1>2, KeptQuietly, Numbers DEF Begins

LEMMA KeptStatement == ASSUME LedgerInv, Kept, NEW c \in Clerks, Statement(c) PROVE Kept'
<1> DEFINE k == clerk[c]
           n == clerk'[c]
<1>0. PICK j \in Jobs : k.job = j
  BY Numbers
<1>1. CASE AddPlan(c)
  <2>1. k.pc = "plan" /\ UNCHANGED <<job, pay, due>> /\ Moves(c, n) /\ n.job = j
    BY <1>0, <1>1, AddPlanIs
  <2>2. ASSUME Untouched, j = Primary PROVE Covered(Primary) \/ Unhurried(n)
    <3>1. SumOf(Primary) = 0 /\ k.paid >= due[Primary]
      BY <1>0, <2>1, <2>2, SumOfType DEF Untouched, Unhurried
    <3>2. CASE k.paid > 0
      <4>1. n.pc = "gap" /\ n.gap = k.paid - 0
        BY <1>0, <1>1, <2>2, <3>1, <3>2, AddPlanIs
      <4> QED
        BY <2>1, <2>2, <3>1, <4>1, Numbers DEF Unhurried
    <3>3. CASE ~(k.paid > 0)
      BY <3>1, <3>3, Numbers DEF Covered
    <3> QED
      BY <3>2, <3>3
  <2>3. j # Primary => Unhurried(n)
    BY <2>1 DEF Unhurried
  <2> HIDE DEF n
  <2> QED
    BY <2>1, <2>2, <2>3, KeptQuietly, Numbers
<1>2. CASE PaidWrite(c)
  <2>1. k.pc = "paid" /\ UNCHANGED <<pay, due>> /\ Moves(c, n) /\ Rewritten(j)
    BY <1>0, <1>2, PaidWriteIs
  <2>2. Untouched => j # Primary
    BY <1>0, <2>1 DEF Untouched, Unhurried
  <2>3. n.pc \in {"idle", "copy"} /\ (n.pc = "copy" => n.job = j)
    BY <1>0, <1>2, PaidWriteIs
  <2>4. j # Primary => Unhurried(n) /\ job'[Primary] = job[Primary]
    BY <2>1, <2>3, Numbers DEF Unhurried, Rewritten
  <2>5. job'[Primary].paid \in Nat
    BY <2>1, Numbers DEF Rewritten, JobRows
  <2> HIDE DEF n
  <2> QED
    BY <2>1, <2>2, <2>4, <2>5, KeptQuietly, Numbers
<1>3. CASE AddCopy(c)
  <2>1. UNCHANGED <<pay, due>> /\ Moves(c, IdleClerk) /\ job'[Primary] = job[Primary]
    BY <1>3, AddCopyIs, Numbers DEF Rewritten
  <2>2. Unhurried(IdleClerk)
    BY IdleIs DEF Unhurried
  <2> QED
    BY <2>1, <2>2, KeptQuietly, Numbers
<1>4. CASE ChangeRow(c)
  <2>1. /\ k.pc = "change" /\ UNCHANGED job /\ Moves(c, n) /\ n.job = j
        /\ \/ UNCHANGED <<pay, due>>
           \/ \E old, a \in Nat :
                 /\ Changed(j, old, a) /\ due' \in [Jobs -> Nat]
                 /\ due'[j] = IF due[j] + a < old THEN 0 ELSE due[j] + a - old
                 /\ \A m \in Jobs \ {j} : due'[m] = due[m]
    BY <1>0, <1>4, ChangeRowIs
  <2>2. j = Primary => ~Untouched
    BY <1>0, <2>1 DEF Untouched, Unhurried
  <2>3. CASE UNCHANGED <<pay, due>>
    <3>1. j # Primary => Unhurried(n)
      BY <2>1 DEF Unhurried
    <3> HIDE DEF n
    <3> QED
      BY <2>1, <2>2, <2>3, <3>1, KeptQuietly, Numbers
  <2>4. ASSUME NEW old \in Nat, NEW a \in Nat, Changed(j, old, a), due' \in [Jobs -> Nat],
               due'[j] = IF due[j] + a < old THEN 0 ELSE due[j] + a - old,
               \A m \in Jobs \ {j} : due'[m] = due[m]
        PROVE  Kept'
    <3>1. Covered(j)
      BY <2>2 DEF Kept
    <3>2. /\ SumOf(j)' \in Nat /\ SumOf(j)' + old = SumOf(j) + a
          /\ \A m \in Jobs \ {j} : SumOf(m)' = SumOf(m) /\ RowsOf(m)' = RowsOf(m)
      BY <2>4 DEF Changed
    <3>3. SumOf(j)' >= due'[j]
      <4> DEFINE s == SumOf(j)
                 t == SumOf(j)'
                 e == due'[j]
      <4>1. s \in Nat /\ t \in Nat /\ due[j] \in Nat /\ s >= due[j] /\ t + old = s + a
        BY <3>1, <3>2, Numbers DEF Covered
      <4>2. e = IF due[j] + a < old THEN 0 ELSE due[j] + a - old
        BY <2>4
      <4> HIDE DEF s, t, e
      <4>3. t >= e
        BY <4>1, <4>2
      <4> QED
        BY <4>3 DEF t, e
    <3>4. Covered(j)'
      BY <3>3 DEF Covered
    <3> HIDE DEF n
    <3> QED
      BY <1>0, <2>1, <2>2, <2>4, <3>2, <3>4, KeptByRows
  <2> QED
    BY <2>1, <2>3, <2>4
<1>5. CASE ChangeSum(c)
  <2>1. k.pc = "sum" /\ UNCHANGED <<job, pay, due>> /\ Moves(c, n) /\ n.job = j
    BY <1>0, <1>5, ChangeSumIs
  <2>2. Untouched => Unhurried(n)
    BY <1>0, <2>1 DEF Untouched, Unhurried
  <2> HIDE DEF n
  <2> QED
    BY <2>1, <2>2, KeptQuietly, Numbers
<1>6. CASE RepriceWrite(c)
  <2>1. UNCHANGED <<pay, due>> /\ Moves(c, IdleClerk) /\ job'[Primary].paid = job[Primary].paid
    BY <1>0, <1>6, RepriceWriteIs, Numbers DEF Rewritten
  <2>2. Unhurried(IdleClerk)
    BY IdleIs DEF Unhurried
  <2> QED
    BY <2>1, <2>2, KeptQuietly, Numbers
<1>7. CASE AddGap(c)
  <2>1. /\ k.pc = "gap" /\ UNCHANGED <<job, due>> /\ Moves(c, n) /\ n.job = j
        /\ k.gap \in Nat /\ Inserted(j, k.gap)
    BY <1>0, <1>7, AddGapIs
  <2>2. /\ SumOf(j)' = SumOf(j) + k.gap
        /\ \A m \in Jobs \ {j} : SumOf(m)' = SumOf(m) /\ RowsOf(m)' = RowsOf(m)
    BY <2>1 DEF Inserted
  <2>3. Covered(j) \/ (j = Primary /\ k.gap >= due[Primary])
    BY <1>0, <2>1 DEF Kept, Untouched, Unhurried
  <2>4. SumOf(j)' >= due[j]
    BY <2>1, <2>2, <2>3, Numbers DEF Covered
  <2>5. Covered(j)'
    BY <2>1, <2>4 DEF Covered
  <2> HIDE DEF n
  <2> QED
    BY <1>0, <2>1, <2>2, <2>5, KeptByRows
<1>8. CASE AddRow(c)
  <2>1. /\ k.pc = "row" /\ UNCHANGED job /\ Moves(c, n) /\ n.job = j
        /\ k.amount \in Nat /\ Inserted(j, k.amount) /\ due'[j] = due[j] + k.amount
        /\ \A m \in Jobs \ {j} : due'[m] = due[m]
    BY <1>0, <1>8, AddRowIs
  <2>2. /\ SumOf(j)' = SumOf(j) + k.amount
        /\ \A m \in Jobs \ {j} : SumOf(m)' = SumOf(m) /\ RowsOf(m)' = RowsOf(m)
    BY <2>1 DEF Inserted
  <2>3. Covered(j) /\ (j = Primary => ~Untouched)
    BY <1>0, <2>1 DEF Kept, Untouched, Unhurried
  <2>4. SumOf(j)' >= due'[j]
    BY <2>1, <2>2, <2>3, Numbers DEF Covered
  <2>5. Covered(j)'
    BY <2>4 DEF Covered
  <2> HIDE DEF n
  <2> QED
    BY <1>0, <2>1, <2>2, <2>3, <2>5, KeptByRows
<1>9. CASE FollowUpOwn(c)
  <2>1. UNCHANGED <<pay, due>> /\ Moves(c, IdleClerk) /\ job'[Primary] = job[Primary]
    BY <1>9, FollowUpOwnIs
  <2>2. Unhurried(IdleClerk)
    BY IdleIs DEF Unhurried
  <2> QED
    BY <2>1, <2>2, KeptQuietly, Numbers
<1> QED
  BY <1>1, <1>2, <1>3, <1>4, <1>5, <1>6, <1>7, <1>8, <1>9 DEF Statement

LEMMA KeptStep == LedgerInv /\ Kept /\ [LedgerNext]_ledgerVars => Kept'
<1> SUFFICES ASSUME LedgerInv, Kept, [LedgerNext]_ledgerVars PROVE Kept'
  OBVIOUS
<1>0. ASSUME UNCHANGED <<pay, clerk, due>>, job'[Primary].paid \in Nat,
             Untouched => job'[Primary].paid >= job[Primary].paid
      PROVE  Kept'
  <2>1. \A j \in Jobs : Covered(j) => Covered(j)'
    BY <1>0, SameRows DEF Covered
  <2>2. Untouched => Untouched'
    BY <1>0, SameRows, Numbers DEF Untouched, Unhurried
  <2> QED
    BY <2>1, <2>2 DEF Kept
<1>1. CASE UNCHANGED ledgerVars
  BY <1>0, <1>1, Numbers DEF ledgerVars
<1>2. CASE Reconcile
  <2>1. UNCHANGED <<pay, clerk, due>> /\ job'[Primary].paid \in {job[Primary].paid, SumOf(Primary)}
    BY <1>2, ReconcileIs, Numbers
  <2>2. job'[Primary].paid >= job[Primary].paid
    BY <1>2, ReconcileIs, Numbers
  <2> QED
    BY <1>0, <2>1, <2>2, Numbers
<1>3. CASE ClosePrimary
  BY <1>0, <1>3, ClosePrimaryIs, Numbers
<1>4. ASSUME NEW c \in Clerks, ClerkStops(c) PROVE Kept'
  <2>1. UNCHANGED <<job, pay, due>> /\ Moves(c, IdleClerk) /\ Unhurried(IdleClerk)
    BY <1>4, ClerkStopsIs, IdleIs DEF Unhurried
  <2> QED
    BY <2>1, KeptQuietly, Numbers
<1> QED
  BY <1>1, <1>2, <1>3, <1>4, KeptRequest, KeptStatement DEF LedgerNext

LEMMA KeptInit == LedgerInit => Kept
<1> SUFFICES ASSUME LedgerInit PROVE Kept
  OBVIOUS
<1>1. /\ job[Primary].paid = Opening /\ due[Primary] = Opening /\ Primary \in Jobs
      /\ \A j \in Sessions : due[j] = 0
  BY LedgerAssumption DEF LedgerInit, Jobs
<1>2. \A j : RowsOf(j) = {}
  BY DEF LedgerInit, RowsOf, NoPayment
<1>3. \A j : SumOf(j) = 0
  BY <1>2, LedgerInit0, SumOfType
<1>4. \A c \in Clerks : clerk[c].pc = "idle"
  BY IdleIs DEF LedgerInit
<1>5. Untouched
  BY <1>1, <1>2, <1>4, LedgerAssumption DEF Untouched, Unhurried
<1> QED
  BY <1>1, <1>3, <1>5 DEF Kept, Covered, Jobs

\* No money is lost, whatever overlaps and whoever stops half-way: a job's rows
\* add up to no less than was paid, or its old total still shows it
\* (performAddStudioPayment, performUpdateStudioPayment, performDeleteStudioPayment).
THEOREM NoMoneyLost == LedgerSpec => []NothingLost
<1>1. LedgerInv /\ Kept => NothingLost
  BY DEF Kept, NothingLost, Untouched, Covered
<1> QED
  BY <1>1, LedgerTyped, KeptInit, KeptStep, PTL DEF LedgerSpec

-----------------------------------------------------------------------------
(* One request at a time *)

\* Until something is torn, at most one handler is at work.
InTurn == \A c, d \in Clerks : clerk[c].pc # "idle" /\ clerk[d].pc # "idle" => c = d

\* The step of a handler that is alone leaves it alone.
Alone(c) == \A d \in Clerks \ {c} : clerk[d].pc = "idle" /\ clerk'[d] = clerk[d]

LEMMA OneTurn ==
    ASSUME LedgerInv, NEW c \in Clerks, NEW n, Moves(c, n),
           (Begins(c) /\ ~torn') \/ (clerk[c].pc # "idle" /\ InTurn)
    PROVE  Alone(c) /\ InTurn' /\ clerk'[c] = n
<1>1. Alone(c) /\ clerk'[c] = n
  BY DEF InTurn, Alone, Begins, Moves
<1>2. InTurn'
  BY <1>1 DEF InTurn, Alone
<1> QED
  BY <1>1, <1>2

\* The price a handler carries is the job's, and a price change that will set
\* the flag is of a price that is covered.
KnowsPrice(k) ==
    /\ k.pc \notin {"idle", "reprice", "own"} => k.price = job[k.job].price
    /\ k.pc = "reprice" /\ k.settled = "yes" => k.price > 0 /\ job[k.job].paid >= k.price

PaidUp ==
    job[Primary].settled = "yes"
        => job[Primary].price > 0 /\ job[Primary].paid >= job[Primary].price

Settling == ~torn => InTurn /\ PaidUp /\ \A c \in Clerks : KnowsPrice(clerk[c])

\* Only the handler that moves has something to know.
LEMMA SettlingMoves ==
    ASSUME LedgerInv, NEW c \in Clerks, NEW n, Moves(c, n), 
           (Begins(c) /\ ~torn') \/ (clerk[c].pc # "idle" /\ InTurn),
           PaidUp', KnowsPrice(n)'
    PROVE  Settling'
<1>1. Alone(c) /\ InTurn' /\ clerk'[c] = n
  BY OneTurn
<1>2. ASSUME NEW d \in Clerks PROVE KnowsPrice(clerk[d])'
  BY <1>1 DEF Alone, KnowsPrice
<1> QED
  BY <1>1, <1>2 DEF Settling

LEMMA SettlingRequest ==
    ASSUME LedgerInv, Settling, NEW c \in Clerks, Request(c) PROVE Settling'
<1> SUFFICES ASSUME ~torn' PROVE Settling'
  BY DEF Settling
<1>1. PICK n : n = clerk'[c]
  OBVIOUS
<1>2. Begins(c) /\ Moves(c, n)
  BY <1>1, RequestIs
<1>3. job'[Primary] = job[Primary] /\ ~torn /\ (job' = job \/ n.pc = "own")
  BY <1>1, <1>2 DEF Begins
<1>4. KnowsPrice(n)
  BY <1>1, RequestIs, AddReadIs, ChangeReadIs, RepriceReadIs DEF KnowsPrice
<1>5. PaidUp' /\ KnowsPrice(n)'
  BY <1>3, <1>4 DEF PaidUp, KnowsPrice, Settling
<1> QED
  BY <1>2, <1>5, SettlingMoves

LEMMA SettlingStatement ==
    ASSUME LedgerInv, Settling, NEW c \in Clerks, Statement(c) PROVE Settling'
<1> DEFINE k == clerk[c]
<1>0. PICK n : n = clerk'[c]
  OBVIOUS
<1>1. torn' = torn
  BY DEF Statement, AddPlan, PaidWrite, AddCopy, ChangeRow, ChangeSum, RepriceWrite, AddGap, AddRow,
            FollowUpOwn
<1> SUFFICES ASSUME ~torn PROVE Settling'
  BY <1>1 DEF Settling
<1>2. InTurn /\ PaidUp /\ KnowsPrice(k)
  BY DEF Settling
<1>3. PICK j \in Jobs : j = k.job
  BY Numbers
<1>4. ASSUME job' = job, k.pc \notin {"idle", "reprice", "own"}, Moves(c, n), n.job = j, n.price = k.price,
             n.pc \notin {"reprice", "own"}
      PROVE  Settling'
  <2>1. KnowsPrice(n)' /\ PaidUp'
    BY <1>2, <1>3, <1>4 DEF KnowsPrice, PaidUp
  <2> QED
    BY <1>2, <1>4, <2>1, SettlingMoves
<1>5. CASE AddPlan(c)
  <2>1. k.pc = "plan" /\ job' = job /\ Moves(c, n) /\ n.job = j /\ n.price = k.price /\ n.pc \in {"gap", "row"}
    BY <1>0, <1>3, <1>5, AddPlanIs
  <2> QED
    BY <1>4, <2>1
<1>6. CASE AddGap(c)
  <2>1. k.pc = "gap" /\ job' = job /\ Moves(c, n) /\ n.job = j /\ n.price = k.price /\ n.pc = "row"
    BY <1>0, <1>3, <1>6, AddGapIs
  <2> QED
    BY <1>4, <2>1
<1>7. CASE AddRow(c)
  <2>1. k.pc = "row" /\ job' = job /\ Moves(c, n) /\ n.job = j /\ n.price = k.price /\ n.pc = "paid"
    BY <1>0, <1>3, <1>7, AddRowIs
  <2> QED
    BY <1>4, <2>1
<1>8. CASE ChangeRow(c)
  <2>1. k.pc = "change" /\ job' = job /\ Moves(c, n) /\ n.job = j /\ n.price = k.price /\ n.pc = "sum"
    BY <1>0, <1>3, <1>8, ChangeRowIs
  <2> QED
    BY <1>4, <2>1
<1>9. CASE ChangeSum(c)
  <2>1. k.pc = "sum" /\ job' = job /\ Moves(c, n) /\ n.job = j /\ n.price = k.price /\ n.pc = "paid"
    BY <1>0, <1>3, <1>9, ChangeSumIs
  <2> QED
    BY <1>4, <2>1
<1>10. CASE PaidWrite(c)
  <2>1. /\ k.pc = "paid" /\ Moves(c, n) /\ n.pc \in {"idle", "copy"}
        /\ n.pc = "copy" => n.job = j /\ n.price = k.price
        /\ Rewritten(j) /\ job'[j].paid = k.paid /\ job'[j].price = job[j].price
        /\ job'[j].settled = Settled(k.price, k.paid)
    BY <1>0, <1>3, <1>10, PaidWriteIs
  <2>2. k.price = job[j].price
    BY <1>2, <1>3, <2>1 DEF KnowsPrice
  <2>3. KnowsPrice(n)'
    BY <2>1, <2>2 DEF KnowsPrice
  <2>4. PaidUp'
    <3>1. CASE j = Primary
      BY <2>1, <2>2, <3>1 DEF PaidUp, Settled
    <3>2. CASE j # Primary
      <4>1. job'[Primary] = job[Primary]
        BY <2>1, <3>2, Numbers DEF Rewritten
      <4> QED
        BY <1>2, <4>1 DEF PaidUp
    <3> QED
      BY <3>1, <3>2
  <2> QED
    BY <1>2, <2>1, <2>3, <2>4, SettlingMoves
<1>11. CASE AddCopy(c)
  <2>1. k.pc = "copy" /\ Moves(c, IdleClerk) /\ job'[Primary] = job[Primary]
    BY <1>11, AddCopyIs, Numbers DEF Rewritten
  <2>2. PaidUp' /\ KnowsPrice(IdleClerk)'
    BY <1>2, <2>1, IdleIs DEF PaidUp, KnowsPrice
  <2> QED
    BY <1>2, <2>1, <2>2, SettlingMoves
<1>12. CASE RepriceWrite(c)
  <2>1. /\ k.pc = "reprice" /\ Moves(c, IdleClerk)
        /\ Rewritten(j) /\ job'[j].paid = job[j].paid /\ job'[j].price = k.price
        /\ job'[j].settled = k.settled
    BY <1>3, <1>12, RepriceWriteIs
  <2>2. KnowsPrice(IdleClerk)'
    BY IdleIs DEF KnowsPrice
  <2>3. PaidUp'
    <3>1. CASE j = Primary
      BY <1>2, <1>3, <2>1, <3>1 DEF PaidUp, KnowsPrice
    <3>2. CASE j # Primary
      <4>1. job'[Primary] = job[Primary]
        BY <2>1, <3>2, Numbers DEF Rewritten
      <4> QED
        BY <1>2, <4>1 DEF PaidUp
    <3> QED
      BY <3>1, <3>2
  <2> QED
    BY <1>2, <2>1, <2>2, <2>3, SettlingMoves
<1>13. CASE FollowUpOwn(c)
  <2>1. k.pc = "own" /\ Moves(c, IdleClerk) /\ job'[Primary] = job[Primary]
    BY <1>13, FollowUpOwnIs
  <2>2. PaidUp' /\ KnowsPrice(IdleClerk)'
    BY <1>2, <2>1, IdleIs DEF PaidUp, KnowsPrice
  <2> QED
    BY <1>2, <2>1, <2>2, SettlingMoves
<1> QED
  BY <1>5, <1>6, <1>7, <1>8, <1>9, <1>10, <1>11, <1>12, <1>13 DEF Statement

LEMMA SettlingStep == LedgerInv /\ Settling /\ [LedgerNext]_ledgerVars => Settling'
<1> SUFFICES ASSUME LedgerInv, Settling, [LedgerNext]_ledgerVars PROVE Settling'
  OBVIOUS
<1>1. CASE UNCHANGED ledgerVars
  BY <1>1 DEF Settling, InTurn, PaidUp, KnowsPrice, ledgerVars
<1>2. CASE Reconcile
  <2>1. UNCHANGED <<clerk, torn>>
    BY <1>2, ReconcileIs
  <2>2. ASSUME NEW j \in Jobs PROVE job'[j].price = job[j].price /\ job'[j].paid >= job[j].paid
    BY <1>2, ReconcileIs, Numbers
  <2>3. ASSUME NEW c \in Clerks, KnowsPrice(clerk[c]) PROVE KnowsPrice(clerk[c])'
    <3>1. PICK k \in ClerkRows : k = clerk[c] /\ k = clerk'[c]
      BY <2>1, Numbers
    <3>2. k.job \in Jobs /\ job[k.job].paid \in Nat /\ job'[k.job].paid \in Nat /\ k.price \in Nat
      BY <1>2, <3>1, ReconcileIs, Numbers DEF ClerkRows, JobRows
    <3>3. job'[k.job].price = job[k.job].price /\ job'[k.job].paid >= job[k.job].paid
      BY <2>2, <3>2
    <3> QED
      BY <2>3, <3>1, <3>2, <3>3 DEF KnowsPrice
  <2>4. PaidUp => PaidUp'
    <3>1. CASE SumOf(Primary) <= job[Primary].paid
      <4>1. job'[Primary] = job[Primary]
        BY <1>2, <3>1, ReconcileIs, Numbers
      <4> QED
        BY <4>1 DEF PaidUp
    <3>2. CASE SumOf(Primary) > job[Primary].paid
      <4>1. /\ job'[Primary].paid = SumOf(Primary) /\ job'[Primary].price = job[Primary].price
            /\ job'[Primary].settled = Settled(job[Primary].price, SumOf(Primary))
        BY <1>2, <3>2, ReconcileIs, Numbers
      <4> QED
        BY <4>1 DEF PaidUp, Settled
    <3> QED
      BY <3>1, <3>2, Numbers
  <2> QED
    BY <2>1, <2>3, <2>4 DEF Settling, InTurn
<1>3. CASE ClosePrimary
  <2>1. /\ UNCHANGED clerk /\ (~torn' => ~torn /\ \A c \in Clerks : clerk[c].pc = "idle")
        /\ job'[Primary].paid = job[Primary].paid /\ job'[Primary].price = job[Primary].price
        /\ job'[Primary].settled = job[Primary].settled
    BY <1>3, ClosePrimaryIs
  <2> QED
    BY <2>1 DEF Settling, InTurn, PaidUp, KnowsPrice
<1>4. ASSUME NEW c \in Clerks, ClerkStops(c) PROVE Settling'
  BY <1>4, ClerkStopsIs DEF Settling
<1> QED
  BY <1>1, <1>2, <1>3, <1>4, SettlingRequest, SettlingStatement DEF LedgerNext

LEMMA SettlingInit == LedgerInit => Settling
<1> SUFFICES ASSUME LedgerInit PROVE Settling
  OBVIOUS
<1>1. \A c \in Clerks : clerk[c].pc = "idle"
  BY IdleIs DEF LedgerInit
<1>2. job[Primary].settled = "no"
  BY DEF LedgerInit, Jobs
<1> QED
  BY <1>1, <1>2 DEF Settling, InTurn, PaidUp, KnowsPrice

\* Handled one request at a time, a job whose flag says settled by computation
\* has a price, and it is covered, whatever payments, deletions and new prices
\* came before (tattooBalance in performAddStudioPayment and its neighbours).
THEOREM SettledMeansPaid == LedgerSpec => []SettledIsPaid
<1>1. Settling => SettledIsPaid
  BY DEF Settling, SettledIsPaid, PaidUp
<1> QED
  BY <1>1, LedgerTyped, SettlingInit, SettlingStep, PTL DEF LedgerSpec

-----------------------------------------------------------------------------
(* The total and the rows, one request at a time *)

\* The primary job shows the sum of its rows, or it has none yet.
Even ==
    \/ job[Primary].paid = SumOf(Primary)
    \/ RowsOf(Primary) = {} /\ job[Primary].paid <= due[Primary]

\* What a handler of the primary job counts on; only the last steps of a change
\* leave the total behind the rows.
Counts(k) ==
    k.job = Primary =>
        /\ k.pc = "plan" => k.paid = job[Primary].paid
        /\ k.pc = "gap" => /\ RowsOf(Primary) = {} /\ k.gap = job[Primary].paid
                           /\ k.paid = k.gap + k.amount
        /\ k.pc = "row" => /\ job[Primary].paid = SumOf(Primary)
                           /\ k.paid = SumOf(Primary) + k.amount
        /\ k.pc = "paid" => k.paid = SumOf(Primary)

Busy(k) == k.job = Primary /\ k.pc \in {"sum", "paid"}

\* While the primary job is open its sessions have no rows and get none.
Sent(k) == job[Primary].open /\ k.pc \in Adding => k.job = Primary

Gathered == job[Primary].open => \A j \in Sessions : RowsOf(j) = {}

Tallies ==
    ~torn => /\ InTurn /\ Gathered
             /\ SumOf(Primary) <= due[Primary]
             /\ Even \/ \E c \in Clerks : Busy(clerk[c])
             /\ \A c \in Clerks : Counts(clerk[c]) /\ Sent(clerk[c])

LEMMA IdleCounts ==
    ASSUME NEW k, k.pc = "idle"
    PROVE  /\ Counts(k) /\ Sent(k) /\ ~Busy(k)
           /\ Counts(k)' /\ Sent(k)'
BY DEF Counts, Sent, Busy, Adding

LEMMA TalliesMoves ==
    ASSUME LedgerInv, NEW c \in Clerks, NEW n, Moves(c, n),
           (Begins(c) /\ ~torn') \/ (clerk[c].pc # "idle" /\ InTurn),
           Gathered', SumOf(Primary)' <= due'[Primary], Even' \/ Busy(n), Counts(n)', Sent(n)'
    PROVE  Tallies'
<1>1. Alone(c) /\ InTurn' /\ clerk'[c] = n
  BY OneTurn
<1>2. ASSUME NEW d \in Clerks PROVE Counts(clerk[d])' /\ Sent(clerk[d])'
  <2>1. CASE d = c
    BY <1>1, <2>1 DEF Counts, Sent
  <2>2. CASE d # c
    <3>1. clerk'[d].pc = "idle"
      BY <1>1, <2>2 DEF Alone
    <3> QED
      BY <3>1 DEF Counts, Sent, Adding
  <2> QED
    BY <2>1, <2>2
<1>3. Busy(n) => \E d \in Clerks : Busy(clerk[d])'
  BY <1>1 DEF Busy
<1> QED
  BY <1>1, <1>2, <1>3 DEF Tallies

\* A handler that is alone and not at the last steps of a change.
LEMMA EvenNow ==
    ASSUME LedgerInv, Tallies, ~torn, NEW c \in Clerks,
           clerk[c].pc # "idle" \/ \A d \in Clerks : clerk[d].pc = "idle"
    PROVE  /\ InTurn /\ Gathered /\ SumOf(Primary) <= due[Primary]
           /\ Counts(clerk[c]) /\ Sent(clerk[c])
           /\ ~Busy(clerk[c]) => Even
<1>1. \A d \in Clerks : Busy(clerk[d]) => d = c
  BY DEF Tallies, InTurn, Busy
<1> QED
  BY <1>1 DEF Tallies

LEMMA TalliesRequest ==
    ASSUME LedgerInv, Tallies, NEW c \in Clerks, Request(c) PROVE Tallies'
<1> SUFFICES ASSUME ~torn' PROVE Tallies'
  BY DEF Tallies
<1>1. PICK n : n = clerk'[c]
  OBVIOUS
<1>2. Begins(c) /\ Moves(c, n)
  BY <1>1, RequestIs
<1>3. UNCHANGED <<pay, due>> /\ job'[Primary] = job[Primary] /\ ~torn /\ \A d \in Clerks : clerk[d].pc = "idle"
  BY <1>2 DEF Begins
<1>4. ~Busy(clerk[c])
  BY <1>3 DEF Busy
<1>5. Gathered /\ SumOf(Primary) <= due[Primary] /\ Even
  BY <1>3, <1>4, EvenNow
<1>6. Counts(n) /\ Sent(n)
  <2>1. ASSUME NEW j \in Jobs, NEW a \in Amounts, AddRead(c, j, a) PROVE Counts(n) /\ Sent(n)
    BY <1>1, <2>1, AddReadIs DEF Counts, Sent
  <2>2. ASSUME n.pc \in {"change", "reprice"} PROVE Counts(n) /\ Sent(n)
    BY <2>2 DEF Counts, Sent, Adding
  <2>3. ASSUME n.pc = "own" PROVE Counts(n) /\ Sent(n)
    BY <2>3 DEF Counts, Sent, Adding
  <2> QED
    BY <1>1, <2>1, <2>2, <2>3, RequestIs, ChangeReadIs, RepriceReadIs
<1>7. Gathered' /\ SumOf(Primary)' <= due'[Primary] /\ Even' /\ Counts(n)' /\ Sent(n)'
  BY <1>3, <1>5, <1>6, SameRows DEF Gathered, Even, Counts, Sent
<1> QED
  BY <1>2, <1>7, TalliesMoves

\* A step that leaves the rows alone.
LEMMA TalliesQuietly ==
    ASSUME LedgerInv, Tallies, ~torn, NEW c \in Clerks, clerk[c].pc # "idle", NEW n, Moves(c, n),
           UNCHANGED <<pay, due>>, job'[Primary].open = job[Primary].open,
           Even' \/ Busy(n), Counts(n)', Sent(n)'
    PROVE  Tallies'
<1>1. InTurn /\ Gathered /\ SumOf(Primary) <= due[Primary]
  BY EvenNow
<1>2. Gathered' /\ SumOf(Primary)' <= due'[Primary]
  BY <1>1, SameRows DEF Gathered
<1> QED
  BY <1>1, <1>2, TalliesMoves

LEMMA TalliesPlan ==
    ASSUME LedgerInv, Tallies, ~torn, NEW c \in Clerks, AddPlan(c) PROVE Tallies'
<1> DEFINE k == clerk[c]
<1>0. PICK n : n = clerk'[c]
  OBVIOUS
<1>1. /\ k.pc = "plan" /\ UNCHANGED <<job, pay, due>> /\ Moves(c, n) /\ n.job = k.job
      /\ n.amount = k.amount /\ n.pc \in {"gap", "row"}
  BY <1>0, AddPlanIs
<1>2. InTurn /\ Counts(k) /\ Sent(k) /\ Even
  BY <1>1, EvenNow DEF Busy
<1>3. Even' /\ Sent(n)'
  BY <1>1, <1>2, SameRows DEF Even, Sent, Adding
<1>4. Counts(n)
  <2> SUFFICES ASSUME k.job = Primary PROVE Counts(n)
    BY <1>1 DEF Counts
  <2> DEFINE s == SumOf(Primary)
             paid == job[Primary].paid
  <2>1. /\ k.paid = paid /\ s \in Nat /\ paid \in Nat /\ k.amount \in Nat
        /\ RowsOf(Primary) = {} => s = 0
        /\ paid = s \/ RowsOf(Primary) = {}
    BY <1>1, <1>2, Numbers, SumOfType DEF Counts, Even
  <2>2. CASE paid > s
    <3>1. n.pc = "gap" /\ n.gap = paid - s /\ n.paid = s + (paid - s) + k.amount
      BY <1>0, <2>1, <2>2, AddPlanIs
    <3>2. s = 0 /\ RowsOf(Primary) = {}
      BY <2>1, <2>2
    <3>3. n.gap = paid /\ n.paid = n.gap + n.amount
      <4> HIDE DEF s, paid
      <4> QED
        BY <1>1, <2>1, <3>1, <3>2
    <3> QED
      BY <3>1, <3>2, <3>3 DEF Counts
  <2>3. CASE ~(paid > s)
    <3>1. n.pc = "row" /\ n.paid = s + k.amount
      BY <1>0, <2>1, <2>3, AddPlanIs
    <3>2. paid = s
      BY <2>1, <2>3
    <3> QED
      BY <1>1, <3>1, <3>2 DEF Counts
  <2> QED
    BY <2>2, <2>3
<1>5. Counts(n)'
  BY <1>1, <1>4, SameRows DEF Counts
<1> QED
  BY <1>1, <1>3, <1>5, TalliesQuietly

\* A payment that goes in; on a session only when the primary job is closed.
LEMMA TalliesGap ==
    ASSUME LedgerInv, Tallies, ~torn, NEW c \in Clerks, AddGap(c) PROVE Tallies'
<1> DEFINE k == clerk[c]
<1>n. PICK n : n = clerk'[c]
  OBVIOUS
<1>0. PICK j \in Jobs : j = k.job
  BY Numbers
<1>1. /\ k.pc = "gap" /\ UNCHANGED <<job, due>> /\ Moves(c, n)
      /\ n.pc = "row" /\ n.job = j /\ n.amount = k.amount /\ n.paid = k.paid
      /\ k.gap \in Nat /\ k.gap > 0 /\ Inserted(j, k.gap)
  BY <1>n, <1>0, AddGapIs
<1>2. /\ InTurn /\ Gathered /\ Counts(k) /\ Sent(k) /\ Even /\ SumOf(Primary) <= due[Primary]
  BY <1>1, EvenNow DEF Busy
<1>3. /\ SumOf(j)' = SumOf(j) + k.gap
      /\ \A m \in Jobs \ {j} : SumOf(m)' = SumOf(m) /\ RowsOf(m)' = RowsOf(m)
  BY <1>1 DEF Inserted
<1>4. Gathered' /\ Sent(n)'
  <2>1. job[Primary].open => j = Primary
    BY <1>0, <1>1, <1>2 DEF Sent, Adding
  <2> QED
    BY <1>1, <1>2, <1>3, <2>1, Numbers DEF Gathered, Sent
<1>5. CASE j = Primary
  <2>1. /\ RowsOf(Primary) = {} /\ SumOf(Primary) = 0 /\ k.gap = job[Primary].paid
        /\ k.paid = k.gap + k.amount
    BY <1>0, <1>1, <1>2, <1>5, SumOfType DEF Counts
  <2>2. SumOf(Primary)' = k.gap
    BY <1>1, <1>3, <1>5, <2>1
  <2>3. job[Primary].paid <= due[Primary]
    BY <1>1, <1>2, <2>1 DEF Even
  <2>4. SumOf(Primary)' <= due'[Primary] /\ Even'
    BY <1>1, <2>1, <2>2, <2>3 DEF Even
  <2>5. Counts(n)'
    BY <1>1, <2>1, <2>2 DEF Counts
  <2> QED
    BY <1>1, <1>2, <1>4, <2>4, <2>5, TalliesMoves
<1>6. CASE j # Primary
  <2>1. SumOf(Primary)' = SumOf(Primary) /\ RowsOf(Primary)' = RowsOf(Primary)
    BY <1>3, <1>6, Numbers
  <2>2. SumOf(Primary)' <= due'[Primary] /\ Even' /\ Counts(n)'
    BY <1>1, <1>2, <1>6, <2>1 DEF Even, Counts
  <2> QED
    BY <1>1, <1>2, <1>4, <2>2, TalliesMoves
<1> QED
  BY <1>5, <1>6

LEMMA TalliesRow ==
    ASSUME LedgerInv, Tallies, ~torn, NEW c \in Clerks, AddRow(c) PROVE Tallies'
<1> DEFINE k == clerk[c]
<1>n. PICK n : n = clerk'[c]
  OBVIOUS
<1>0. PICK j \in Jobs : j = k.job
  BY Numbers
<1>1. /\ k.pc = "row" /\ UNCHANGED job /\ Moves(c, n)
      /\ n.pc = "paid" /\ n.job = j /\ n.paid = k.paid
      /\ k.amount \in Nat /\ Inserted(j, k.amount)
      /\ due'[j] = due[j] + k.amount /\ \A m \in Jobs \ {j} : due'[m] = due[m]
  BY <1>n, <1>0, AddRowIs
<1>2. /\ InTurn /\ Gathered /\ Counts(k) /\ Sent(k) /\ Even /\ SumOf(Primary) <= due[Primary]
  BY <1>1, EvenNow DEF Busy
<1>3. /\ SumOf(j)' = SumOf(j) + k.amount
      /\ \A m \in Jobs \ {j} : SumOf(m)' = SumOf(m) /\ RowsOf(m)' = RowsOf(m)
  BY <1>1 DEF Inserted
<1>4. Gathered' /\ Sent(n)'
  <2>1. job[Primary].open => j = Primary
    BY <1>0, <1>1, <1>2 DEF Sent, Adding
  <2> QED
    BY <1>1, <1>2, <1>3, <2>1, Numbers DEF Gathered, Sent
<1>5. CASE j = Primary
  <2>1. SumOf(Primary)' <= due'[Primary]
    BY <1>1, <1>2, <1>3, <1>5, Numbers
  <2>2. k.paid = SumOf(Primary) + k.amount
    BY <1>0, <1>1, <1>2, <1>5 DEF Counts
  <2>3. Counts(n)' /\ Busy(n)
    BY <1>1, <1>3, <1>5, <2>2 DEF Counts, Busy
  <2> QED
    BY <1>1, <1>2, <1>4, <2>1, <2>3, TalliesMoves
<1>6. CASE j # Primary
  <2>1. SumOf(Primary)' = SumOf(Primary) /\ RowsOf(Primary)' = RowsOf(Primary) /\ due'[Primary] = due[Primary]
    BY <1>1, <1>3, <1>6, Numbers
  <2>2. SumOf(Primary)' <= due'[Primary] /\ Even' /\ Counts(n)'
    BY <1>1, <1>2, <1>6, <2>1 DEF Even, Counts
  <2> QED
    BY <1>1, <1>2, <1>4, <2>2, TalliesMoves
<1> QED
  BY <1>5, <1>6

LEMMA TalliesChange ==
    ASSUME LedgerInv, Tallies, ~torn, NEW c \in Clerks, ChangeRow(c) PROVE Tallies'
<1> DEFINE k == clerk[c]
<1>n. PICK n : n = clerk'[c]
  OBVIOUS
<1>0. PICK j \in Jobs : j = k.job
  BY Numbers
<1>1. /\ k.pc = "change" /\ UNCHANGED job /\ Moves(c, n) /\ n.pc = "sum" /\ n.job = j
      /\ \/ UNCHANGED <<pay, due>>
         \/ \E old, a \in Nat :
               /\ Changed(j, old, a)
               /\ due'[j] = IF due[j] + a < old THEN 0 ELSE due[j] + a - old
               /\ \A m \in Jobs \ {j} : due'[m] = due[m]
  BY <1>n, <1>0, ChangeRowIs
<1>2. InTurn /\ Gathered /\ Even /\ SumOf(Primary) <= due[Primary]
  BY <1>1, EvenNow DEF Busy
<1>3. Sent(n)' /\ Counts(n)'
  BY <1>1 DEF Sent, Counts, Adding
<1>4. CASE UNCHANGED <<pay, due>>
  BY <1>1, <1>2, <1>3, <1>4, SameRows, TalliesQuietly DEF Even
<1>5. ASSUME NEW old \in Nat, NEW a \in Nat, Changed(j, old, a),
             due'[j] = IF due[j] + a < old THEN 0 ELSE due[j] + a - old,
             \A m \in Jobs \ {j} : due'[m] = due[m]
      PROVE  Tallies'
  <2>1. /\ old <= SumOf(j) /\ RowsOf(j) # {}
        /\ SumOf(j)' \in Nat /\ SumOf(j)' + old = SumOf(j) + a
        /\ \A m \in Jobs \ {j} : SumOf(m)' = SumOf(m) /\ RowsOf(m)' = RowsOf(m)
    BY <1>5 DEF Changed
  <2>2. Gathered'
    <3>1. j # Primary => ~job[Primary].open
      BY <1>2, <2>1 DEF Gathered, Jobs
    <3> QED
      BY <1>1, <1>2, <2>1, <3>1, Numbers DEF Gathered
  <2>3. CASE j = Primary
    <3>1. SumOf(Primary)' <= due'[Primary]
      <4> DEFINE s == SumOf(Primary)
                 t == SumOf(Primary)'
                 e == due'[Primary]
                 d == due[Primary]
      <4>1. s \in Nat /\ t \in Nat /\ d \in Nat /\ s <= d /\ t + old = s + a /\ old <= s
        BY <1>2, <2>1, <2>3, Numbers
      <4>2. e = IF d + a < old THEN 0 ELSE d + a - old
        BY <1>5, <2>3
      <4> HIDE DEF s, t, e, d
      <4>3. t <= e
        BY <4>1, <4>2
      <4> QED
        BY <4>3 DEF t, e
    <3>2. Busy(n)
      BY <1>1, <2>3 DEF Busy
    <3> QED
      BY <1>1, <1>2, <1>3, <2>2, <3>1, <3>2, TalliesMoves
  <2>4. CASE j # Primary
    <3>1. /\ SumOf(Primary)' = SumOf(Primary) /\ RowsOf(Primary)' = RowsOf(Primary)
          /\ due'[Primary] = due[Primary]
      BY <1>5, <2>1, <2>4, Numbers
    <3>2. SumOf(Primary)' <= due'[Primary] /\ Even'
      BY <1>1, <1>2, <3>1 DEF Even
    <3> QED
      BY <1>1, <1>2, <1>3, <2>2, <3>2, TalliesMoves
  <2> QED
    BY <2>3, <2>4
<1> QED
  BY <1>1, <1>4, <1>5

LEMMA TalliesStatement ==
    ASSUME LedgerInv, Tallies, NEW c \in Clerks, Statement(c) PROVE Tallies'
<1> DEFINE k == clerk[c]
<1>0. PICK n : n = clerk'[c]
  OBVIOUS
<1>1. torn' = torn
  BY DEF Statement, AddPlan, PaidWrite, AddCopy, ChangeRow, ChangeSum, RepriceWrite, AddGap, AddRow,
            FollowUpOwn
<1> SUFFICES ASSUME ~torn PROVE Tallies'
  BY <1>1 DEF Tallies
<1>2. CASE ChangeSum(c)
  <2>1. /\ k.pc = "sum" /\ UNCHANGED <<job, pay, due>> /\ Moves(c, n)
        /\ n.pc = "paid" /\ n.job = k.job /\ n.paid = SumOf(k.job)
    BY <1>0, <1>2, ChangeSumIs
  <2>2. Even' \/ Busy(n)
    <3>1. CASE k.job = Primary
      BY <2>1, <3>1 DEF Busy
    <3>2. CASE k.job # Primary
      <4>1. Even
        BY <2>1, <3>2, EvenNow DEF Busy
      <4> QED
        BY <2>1, <4>1, SameRows DEF Even
    <3> QED
      BY <3>1, <3>2
  <2>3. Counts(n)' /\ Sent(n)'
    BY <2>1, SameRows DEF Counts, Sent, Adding
  <2> QED
    BY <2>1, <2>2, <2>3, TalliesQuietly
<1>3. CASE PaidWrite(c)
  <2>0. PICK j \in Jobs : j = k.job
    BY Numbers
  <2>1. /\ k.pc = "paid" /\ UNCHANGED <<pay, due>> /\ Moves(c, n) /\ n.pc \in {"idle", "copy"}
        /\ Rewritten(j) /\ job'[j].paid = k.paid
    BY <1>0, <1>3, <2>0, PaidWriteIs
  <2>2. Counts(n)' /\ Sent(n)' /\ job'[Primary].open = job[Primary].open
    BY <2>1, Numbers DEF Counts, Sent, Adding, Rewritten
  <2>3. Even'
    <3>1. CASE j = Primary
      <4>1. k.paid = SumOf(Primary)
        BY <2>0, <2>1, <3>1, EvenNow DEF Counts
      <4> QED
        BY <2>1, <3>1, <4>1, SameRows DEF Even
    <3>2. CASE j # Primary
      <4>1. Even
        BY <2>0, <2>1, <3>2, EvenNow DEF Busy
      <4>2. job'[Primary] = job[Primary]
        BY <2>1, <3>2, Numbers DEF Rewritten
      <4> QED
        BY <2>1, <4>1, <4>2, SameRows DEF Even
    <3> QED
      BY <3>1, <3>2
  <2> QED
    BY <2>1, <2>2, <2>3, TalliesQuietly
<1>4. CASE AddCopy(c)
  <2>1. k.pc = "copy" /\ UNCHANGED <<pay, due>> /\ Moves(c, IdleClerk) /\ job'[Primary] = job[Primary]
    BY <1>4, AddCopyIs, Numbers DEF Rewritten
  <2>2. Even'
    BY <2>1, EvenNow, SameRows DEF Even, Busy
  <2> QED
    BY <2>1, <2>2, IdleIs, IdleCounts, TalliesQuietly
<1>5. CASE RepriceWrite(c)
  <2>0. PICK j \in Jobs : j = k.job
    BY Numbers
  <2>1. /\ k.pc = "reprice" /\ UNCHANGED <<pay, due>> /\ Moves(c, IdleClerk)
        /\ Rewritten(j) /\ job'[j].paid = job[j].paid
    BY <1>5, <2>0, RepriceWriteIs
  <2>2. job'[Primary].paid = job[Primary].paid /\ job'[Primary].open = job[Primary].open
    BY <2>1, Numbers DEF Rewritten
  <2>3. Even'
    BY <2>1, <2>2, EvenNow, SameRows DEF Even, Busy
  <2> QED
    BY <2>1, <2>2, <2>3, IdleIs, IdleCounts, TalliesQuietly
<1>6. CASE FollowUpOwn(c)
  <2>1. k.pc = "own" /\ UNCHANGED <<pay, due>> /\ Moves(c, IdleClerk) /\ job'[Primary] = job[Primary]
    BY <1>6, FollowUpOwnIs
  <2>2. Even'
    BY <2>1, EvenNow, SameRows DEF Even, Busy
  <2> QED
    BY <2>1, <2>2, IdleIs, IdleCounts, TalliesQuietly
<1> QED
  BY <1>2, <1>3, <1>4, <1>5, <1>6, TalliesPlan, TalliesGap, TalliesRow, TalliesChange DEF Statement

LEMMA TalliesStep == LedgerInv /\ Tallies /\ [LedgerNext]_ledgerVars => Tallies'
<1> SUFFICES ASSUME LedgerInv, Tallies, [LedgerNext]_ledgerVars PROVE Tallies'
  OBVIOUS
<1>0. ASSUME UNCHANGED <<pay, clerk, due>>, ~torn, job'[Primary].open => job[Primary].open,
             \/ job'[Primary].paid = job[Primary].paid
             \/ ~Even /\ \A c \in Clerks : clerk[c].pc = "idle" \/ Busy(clerk[c])
      PROVE  Tallies'
  <2>1. InTurn' /\ Gathered' /\ SumOf(Primary)' <= due'[Primary]
    BY <1>0, SameRows DEF Tallies, InTurn, Gathered
  <2>2. Even' \/ \E c \in Clerks : Busy(clerk[c])'
    BY <1>0, SameRows DEF Tallies, Even, Busy
  <2>3. ASSUME NEW c \in Clerks PROVE Counts(clerk[c])' /\ Sent(clerk[c])'
    <3>1. Counts(clerk[c]) /\ Sent(clerk[c])
      BY <1>0 DEF Tallies
    <3>2. CASE job'[Primary].paid = job[Primary].paid
      BY <1>0, <3>1, <3>2, SameRows DEF Counts, Sent
    <3>3. CASE clerk[c].pc = "idle" \/ Busy(clerk[c])
      BY <1>0, <3>1, <3>3, SameRows DEF Counts, Sent, Busy, Adding
    <3> QED
      BY <1>0, <3>2, <3>3
  <2> QED
    BY <2>1, <2>2, <2>3 DEF Tallies
<1>1. CASE UNCHANGED ledgerVars
  BY <1>0, <1>1 DEF ledgerVars, Tallies
<1>2. CASE Reconcile
  <2>1. UNCHANGED <<pay, clerk, due, torn>> /\ job'[Primary].open = job[Primary].open
    BY <1>2, ReconcileIs, Numbers
  <2> SUFFICES ASSUME ~torn PROVE Tallies'
    BY <2>1 DEF Tallies
  <2>2. CASE Even
    <3>1. SumOf(Primary) <= job[Primary].paid
      BY <2>2, Numbers, SumOfType DEF Even
    <3>2. job'[Primary] = job[Primary]
      BY <1>2, <3>1, ReconcileIs, Numbers
    <3> QED
      BY <1>0, <2>1, <3>2
  <2>3. CASE ~Even
    <3>1. PICK b \in Clerks : Busy(clerk[b])
      BY <2>3 DEF Tallies
    <3>2. \A c \in Clerks : clerk[c].pc = "idle" \/ c = b
      BY <3>1 DEF Tallies, InTurn, Busy
    <3> QED
      BY <1>0, <2>1, <2>3, <3>1, <3>2
  <2> QED
    BY <2>2, <2>3
<1>3. CASE ClosePrimary
  BY <1>0, <1>3, ClosePrimaryIs DEF Tallies
<1>4. ASSUME NEW c \in Clerks, ClerkStops(c) PROVE Tallies'
  BY <1>4, ClerkStopsIs DEF Tallies
<1> QED
  BY <1>1, <1>2, <1>3, <1>4, TalliesRequest, TalliesStatement DEF LedgerNext

LEMMA TalliesInit == LedgerInit => Tallies
<1> SUFFICES ASSUME LedgerInit PROVE Tallies
  OBVIOUS
<1>1. \A c \in Clerks : clerk[c].pc = "idle"
  BY IdleIs DEF LedgerInit
<1>2. job[Primary].paid = Opening /\ due[Primary] = Opening
  BY DEF LedgerInit, Jobs
<1>3. \A j : RowsOf(j) = {}
  BY DEF LedgerInit, RowsOf, NoPayment
<1>4. SumOf(Primary) = 0
  BY <1>3, LedgerInit0, SumOfType
<1>5. Even
  BY <1>2, <1>3, LedgerAssumption DEF Even
<1> QED
  BY <1>1, <1>2, <1>3, <1>4, <1>5, IdleCounts, LedgerAssumption DEF Tallies, InTurn, Gathered

LEMMA TalliesAlways == LedgerSpec => [](LedgerInv /\ Tallies)
BY LedgerTyped, TalliesInit, TalliesStep, PTL DEF LedgerSpec

\* Handled one request at a time, a job's rows never add up to more than was
\* paid, except on a session whose primary job is closed: there the total it
\* was shown becomes a row (paymentPlan in performAddStudioPayment).
THEOREM NoMoneyInvented == LedgerSpec => []NothingInvented
<1>1. LedgerInv /\ Tallies => NothingInvented
  <2> SUFFICES ASSUME LedgerInv, Tallies, ~torn, NEW j \in Jobs, SumOf(j) > due[j]
               PROVE  j \in Sessions /\ ~job[Primary].open
    BY DEF NothingInvented
  <2>1. j # Primary
    BY Numbers DEF Tallies
  <2>2. RowsOf(j) # {}
    BY SumOfType, Numbers
  <2> QED
    BY <2>1, <2>2 DEF Tallies, Gathered, Jobs
<1> QED
  BY <1>1, TalliesAlways, PTL

\* Handled one request at a time, between two requests a primary job that has
\* rows shows their sum, which every screen reads (paid_toman).
THEOREM TotalShowsTheRows == LedgerSpec => []TotalIsSum
<1>1. Tallies => TotalIsSum
  <2> SUFFICES ASSUME Tallies, ~torn, Quiet, RowsOf(Primary) # {} PROVE job[Primary].paid = SumOf(Primary)
    BY DEF TotalIsSum
  <2>1. \A c \in Clerks : ~Busy(clerk[c])
    BY DEF Quiet, ClerkAt, Busy
  <2> QED
    BY <2>1 DEF Tallies, Even
<1> QED
  BY <1>1, TalliesAlways, PTL
=============================================================================
