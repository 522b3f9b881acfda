-------------------------- MODULE MarketFinance_proofs --------------------------
(***************************************************************************)
(* Proofs about MarketFinance: for any number of bookings, settlements and *)
(* requests, any prices and any commission rules.                          *)
(***************************************************************************)
EXTENDS MarketFinance, SumLemmas, SequenceTheorems, TLAPS

-----------------------------------------------------------------------------
(* ledger.ts, commission.ts *)

\* pickCommissionRule always finds a rule of the table, or falls back on none.
LEMMA RuleType == Rule \in [scope : Scopes, bps : Nat, fixed : Nat]
<1>1. CASE Rules = {}
  BY <1>1 DEF Rule, Scopes
<1>2. CASE Rules # {}
  <2> DEFINE S == {Rank(r) : r \in Rules}
  <2>1. \A r \in Rules : Rank(r) \in 1..4
    <3> SUFFICES ASSUME NEW r \in Rules PROVE Rank(r) \in 1..4
      OBVIOUS
    <3>1. r.scope \in Scopes
      BY MarketAssumption
    <3>2. \E i \in 1..4 : Precedence[i] = r.scope
      <4>1. /\ Precedence[1] = "service" /\ Precedence[2] = "category"
            /\ Precedence[3] = "business" /\ Precedence[4] = "platform"
        BY DEF Precedence
      <4>2. 1 \in 1..4 /\ 2 \in 1..4 /\ 3 \in 1..4 /\ 4 \in 1..4
        OBVIOUS
      <4> QED
        BY <3>1, <4>1, <4>2, Zenon DEF Scopes
    <3> QED
      BY <3>2 DEF Rank
  <2>2. S \in SUBSET Nat /\ S # {}
    BY <1>2, <2>1
  <2> HIDE DEF S
  <2>3. PICK n \in S : \A m \in S : n <= m
    BY <2>2, Smallest
  <2>4. \E r \in Rules : \A q \in Rules : Rank(r) <= Rank(q)
    BY <2>3 DEF S
  <2>5. Rule \in Rules
    BY <1>2, <2>4 DEF Rule
  <2> QED
    BY <2>5, MarketAssumption
<1> QED
  BY <1>1, <1>2

\* The commission is a part of the price.
LEMMA CommissionType ==
    ASSUME NEW gross \in Nat
    PROVE  Commission(gross) \in Nat /\ Commission(gross) <= gross
<1>1. Rule.bps \in Nat /\ Rule.fixed \in Nat
  BY RuleType
<1>2. gross * Rule.bps \in Nat
  BY <1>1
<1> DEFINE x == gross * Rule.bps
<1> HIDE DEF x
<1>3. (x \div 10000) + Rule.fixed \in Nat
  BY <1>1, <1>2 DEF x
<1> QED
  BY <1>3 DEF Commission, x

LEMMA SideType ==
    ASSUME NEW account \in Accounts, NEW n \in Nat
    PROVE  Debit(account, n) \in Sides /\ Credit(account, n) \in Sides
BY DEF Debit, Credit, Sides

LEMMA IfType ==
    ASSUME NEW n \in Int, NEW side, n \in Nat => side \in Sides
    PROVE  If(n, side) \in Seq(Sides)
BY DEF If

LEMMA JoinType ==
    ASSUME NEW s \in Seq(Sides), NEW t \in Seq(Sides), s # <<>> \/ t # <<>>
    PROVE  s \o t \in Seq(Sides) \ {<<>>}
<1>1. s \o t \in Seq(Sides) /\ Len(s \o t) = Len(s) + Len(t)
  BY ConcatProperties
<1>2. Len(s) \in Nat /\ Len(t) \in Nat /\ (Len(s) # 0 \/ Len(t) # 0)
  BY EmptySeq, LenProperties
<1>3. Len(s \o t) # 0
  BY <1>1, <1>2
<1> QED
  BY <1>1, <1>3, EmptySeq

\* A payment, its refund and a reserve are sequences of entries, never empty.
LEMMA EntriesType ==
    /\ \A gross, commission \in Nat :
          /\ PaymentEntries(gross, commission) \in Seq(Sides) \ {<<>>}
          /\ RefundEntries(gross, commission) \in Seq(Sides) \ {<<>>}
    /\ \A amount \in Nat : ReserveEntries(amount) \in Seq(Sides) \ {<<>>}
<1>1. ASSUME NEW gross \in Nat, NEW commission \in Nat
      PROVE  /\ PaymentEntries(gross, commission) \in Seq(Sides) \ {<<>>}
             /\ RefundEntries(gross, commission) \in Seq(Sides) \ {<<>>}
  <2> DEFINE net == gross - commission
             a == If(net, Credit("business_payable", net))
             b == If(commission, Credit("platform_commission", commission))
             c == If(net, Debit("business_payable", net))
             d == If(commission, Debit("platform_commission", commission))
             first == <<Debit("customer_clearing", gross)>>
             last == <<Credit("refund_liability", gross)>>
  <2>0. net \in Int
    OBVIOUS
  <2>1. a \in Seq(Sides) /\ c \in Seq(Sides)
    BY <2>0, IfType, SideType DEF Accounts
  <2>2. b \in Seq(Sides) /\ d \in Seq(Sides)
    BY IfType, SideType DEF Accounts
  <2>3. first \in Seq(Sides) \ {<<>>} /\ last \in Seq(Sides) \ {<<>>}
    BY SideType DEF Accounts
  <2>4. PaymentEntries(gross, commission) = first \o a \o b
        /\ RefundEntries(gross, commission) = c \o d \o last
    BY DEF PaymentEntries, RefundEntries
  <2> HIDE DEF a, b, c, d, first, last
  <2>5. first \o a \in Seq(Sides) \ {<<>>}
    BY <2>1, <2>3, JoinType
  <2>6. first \o a \o b \in Seq(Sides) \ {<<>>}
    BY <2>2, <2>5, JoinType
  <2>7. c \o d \in Seq(Sides)
    BY <2>1, <2>2, ConcatProperties
  <2>8. c \o d \o last \in Seq(Sides) \ {<<>>}
    BY <2>3, <2>7, JoinType
  <2> QED
    BY <2>4, <2>6, <2>8
<1>2. ASSUME NEW amount \in Nat PROVE ReserveEntries(amount) \in Seq(Sides) \ {<<>>}
  <2> DEFINE a == Debit("business_payable", amount)
             b == Credit("settlement_clearing", amount)
  <2>1. a \in Sides /\ b \in Sides
    BY SideType DEF Accounts
  <2>2. ReserveEntries(amount) = <<a, b>>
    BY DEF ReserveEntries
  <2> HIDE DEF a, b
  <2>3. <<a, b>> \in Seq(Sides) /\ Len(<<a, b>>) = 2
    BY <2>1
  <2> QED
    BY <2>2, <2>3, EmptySeq
<1> QED
  BY <1>1, <1>2

-----------------------------------------------------------------------------
(* The invariant *)

\* The steps of a handler that writes the rows of a booking.
OfBooking == {"insert", "create", "redirect", "await", "verify", "fail", "failBooking",
              "paid", "paidBooking", "refunded"}

\* A handler knows the booking or the settlement it is about to write, and one
\* that posts to the ledger has something to post.
WellFormed(row) ==
    /\ row \in HandlerRows
    /\ row.pc \in OfBooking => row.booking \in Bookings
    /\ row.pc \in {"look", "header", "entries"} =>
          /\ row.key \in Keys /\ row.todo # <<>>
          /\ row.key.kind # "settle" => row.booking \in Bookings
    /\ row.pc = "settled" => row.key.of \in Settlements

Tables ==
    /\ price \in MarketPrices
    /\ payment \in [Bookings -> PaymentRows]
    /\ finance \in [Bookings -> Finances]
    /\ gateway \in [MarketTokens -> [booking : Bookings \cup {NoBooking}, paid : BOOLEAN]]
    /\ header \subseteq Keys
    /\ entries \in [Keys -> Seq(Sides)]
    /\ settled \subseteq Settlements
    /\ handled \in 0..MaxHandled
    /\ unusual \subseteq {"overlap", "checkout", "stop"}

MarketInv ==
    /\ Tables
    /\ handler \in [Handlers -> HandlerRows]
    /\ \A h \in Handlers : WellFormed(handler[h])
    /\ PostedOnce

LEMMA IdleWellFormed == WellFormed(IdleHandler) /\ IdleHandler.pc = "idle"
<1>1. <<>> \in Seq(Sides)
  BY EmptySeq
<1>2. 0 \in 0..MaxOpened
  BY MarketAssumption
<1> QED
  BY <1>1, <1>2 DEF WellFormed, IdleHandler, HandlerRows, Steps, OfBooking

\* What a step of one handler leaves of the others.
LEMMA HandlersKeep ==
    ASSUME MarketInv, NEW h \in Handlers, NEW row, HandlerBecomes(h, row), WellFormed(row)
    PROVE  /\ handler' \in [Handlers -> HandlerRows]
           /\ \A g \in Handlers : WellFormed(handler'[g])
           /\ handler'[h] = row
           /\ \A g \in Handlers \ {h} : handler'[g] = handler[g]
BY DEF MarketInv, HandlerBecomes, WellFormed

\* A step that posts nothing.
LEMMA QuietStep ==
    ASSUME MarketInv, NEW h \in Handlers, NEW row, HandlerBecomes(h, row), WellFormed(row),
           row.pc # "entries", Tables', UNCHANGED <<header, entries>>
    PROVE  MarketInv'
<1>1. /\ handler' \in [Handlers -> HandlerRows]
      /\ \A g \in Handlers : WellFormed(handler'[g])
      /\ handler'[h] = row
      /\ \A g \in Handlers \ {h} : handler'[g] = handler[g]
  BY HandlersKeep
<1>2. \A k : Posting(k)' \subseteq Posting(k)
  BY <1>1 DEF Posting, HandlerAt
<1>3. PostedOnce'
  BY <1>2 DEF MarketInv, PostedOnce
<1> QED
  BY <1>1, <1>3 DEF MarketInv

\* Moving on to a step that writes rows of the same booking.
LEMMA GoesOn ==
    ASSUME NEW row, WellFormed(row), row.pc \in OfBooking, NEW pc \in OfBooking
    PROVE  WellFormed([row EXCEPT !.pc = pc]) /\ [row EXCEPT !.pc = pc].pc = pc
BY DEF WellFormed, HandlerRows, Steps, OfBooking

LEMMA InvInit == MarketInit => MarketInv
<1> SUFFICES ASSUME MarketInit PROVE MarketInv
  OBVIOUS
<1>1. Tables
  <2>1. NoPaymentRow \in PaymentRows
    BY MarketAssumption DEF NoPaymentRow, PaymentRows
  <2>2. <<>> \in Seq(Sides)
    BY EmptySeq
  <2>3. 0 \in 0..MaxHandled
    BY MarketAssumption
  <2> QED
    BY <2>1, <2>2, <2>3 DEF MarketInit, Tables, Finances
<1>2. handler \in [Handlers -> HandlerRows] /\ \A h \in Handlers : WellFormed(handler[h])
  BY IdleWellFormed DEF MarketInit, WellFormed
<1>3. PostedOnce
  BY IdleWellFormed DEF MarketInit, PostedOnce, Posting, HandlerAt
<1> QED
  BY <1>1, <1>2, <1>3 DEF MarketInv

\* A request that arrives.
LEMMA HandleKeeps ==
    ASSUME MarketInv, NEW h \in Handlers, NEW row, NEW what \in SUBSET {"checkout"},
           Handle(h, row, what), WellFormed(row), row.pc # "entries",
           UNCHANGED <<price, payment, finance, gateway, header, entries, settled>>
    PROVE  MarketInv'
<1>1. HandlerBecomes(h, row) /\ handled' = handled + 1 /\ handled < MaxHandled
  BY DEF Handle
<1>2. unusual' \subseteq unusual \cup {"overlap", "checkout"}
  BY DEF Handle
<1>3. handled' \in 0..MaxHandled
  BY <1>1, MarketAssumption DEF MarketInv, Tables
<1>4. Tables'
  BY <1>2, <1>3 DEF MarketInv, Tables
<1> QED
  BY <1>1, <1>4, QuietStep

LEMMA ArrivesKeeps ==
    ASSUME MarketInv, NEW h \in Handlers, Arrives(h)
    PROVE  MarketInv'
<1>0. Tables /\ IdleHandler \in HandlerRows
  BY IdleWellFormed DEF MarketInv, WellFormed
<1>1. ASSUME NEW b \in Bookings, Checkout(h, b) PROVE MarketInv'
  <2> DEFINE row == [IdleHandler EXCEPT !.booking = b, !.amount = price,
                       !.pc = IF payment[b].status = "none" THEN "insert" ELSE "create"]
  <2>1. price \in Nat
    BY <1>0, MarketAssumption DEF Tables
  <2>2. row \in HandlerRows /\ row.pc \in {"insert", "create"} /\ row.booking = b
    BY <1>0, <2>1 DEF HandlerRows, Steps
  <2>3. Handle(h, row, {"checkout"})
        /\ UNCHANGED <<price, payment, finance, gateway, header, entries, settled>>
    BY <1>1 DEF Checkout
  <2> HIDE DEF row
  <2>4. WellFormed(row)
    BY <2>2 DEF WellFormed, OfBooking
  <2> QED
    BY <2>2, <2>3, <2>4, HandleKeeps
<1>2. ASSUME NEW b \in Bookings, Verify(h, b) PROVE MarketInv'
  <2> DEFINE row == [IdleHandler EXCEPT !.pc = "verify", !.booking = b, !.token = payment[b].token,
                                        !.amount = payment[b].amount]
  <2>1. payment[b].amount \in Nat /\ payment[b].token \in 0..MaxOpened
    BY <1>0 DEF Tables, PaymentRows
  <2>2. row \in HandlerRows /\ row.pc = "verify" /\ row.booking = b
    BY <1>0, <2>1 DEF HandlerRows, Steps
  <2>3. Handle(h, row, {})
        /\ UNCHANGED <<price, payment, finance, gateway, header, entries, settled>>
    BY <1>2 DEF Verify
  <2> HIDE DEF row
  <2>4. WellFormed(row)
    BY <2>2 DEF WellFormed, OfBooking
  <2> QED
    BY <2>2, <2>3, <2>4, HandleKeeps
<1>3. ASSUME NEW b \in Bookings, Refund(h, b) PROVE MarketInv'
  <2> DEFINE key == [kind |-> "refund", of |-> b]
             todo == RefundEntries(payment[b].amount, payment[b].commission)
             row == [IdleHandler EXCEPT !.pc = "look", !.booking = b, !.key = key, !.todo = todo]
  <2>1. key \in Keys /\ todo \in Seq(Sides) /\ todo # <<>>
    <3>1. payment[b].amount \in Nat /\ payment[b].commission \in Nat
      BY <1>0 DEF Tables, PaymentRows
    <3> QED
      BY <3>1, EntriesType DEF Keys
  <2>2. Handle(h, row, {})
        /\ UNCHANGED <<price, payment, finance, gateway, header, entries, settled>>
    BY <1>3 DEF Refund
  <2> HIDE DEF key, todo
  <2>3. row \in HandlerRows /\ row.pc = "look" /\ row.booking = b /\ row.key = key /\ row.todo = todo
    BY <1>0, <2>1 DEF HandlerRows, Steps
  <2> HIDE DEF row
  <2>4. WellFormed(row)
    BY <2>1, <2>3 DEF WellFormed, OfBooking
  <2> QED
    BY <2>2, <2>3, <2>4, HandleKeeps
<1>4. ASSUME NEW s \in Settlements, NEW n \in 1..(PayableCredit + 1), RequestSettlement(h, s, n)
      PROVE  MarketInv'
  <2> DEFINE key == [kind |-> "settle", of |-> s]
             todo == ReserveEntries(n)
             row == [IdleHandler EXCEPT !.pc = "look", !.key = key, !.todo = todo]
  <2>1. key \in Keys /\ key.kind = "settle" /\ todo \in Seq(Sides) /\ todo # <<>>
    <3>1. n \in Nat
      BY <1>4 DEF RequestSettlement
    <3> QED
      BY <3>1, EntriesType DEF Keys
  <2>2. Handle(h, row, {})
        /\ UNCHANGED <<price, payment, finance, gateway, header, entries, settled>>
    BY <1>4 DEF RequestSettlement
  <2> HIDE DEF key, todo
  <2>3. row \in HandlerRows /\ row.pc = "look" /\ row.key = key /\ row.todo = todo
    BY <1>0, <2>1 DEF HandlerRows, Steps
  <2> HIDE DEF row
  <2>4. WellFormed(row)
    BY <2>1, <2>3 DEF WellFormed, OfBooking
  <2> QED
    BY <2>2, <2>3, <2>4, HandleKeeps
<1> QED
  BY <1>1, <1>2, <1>3, <1>4 DEF Arrives

\* The handlers that write payments, bookings and settlements.
LEMMA RowsKeep ==
    ASSUME MarketInv, NEW h \in Handlers,
           \/ CheckoutInsert(h) \/ CheckoutCreate(h) \/ CheckoutRedirect(h) \/ CheckoutAwait(h)
           \/ VerifyAnswer(h) \/ VerifyFail(h) \/ VerifyFailBooking(h) \/ VerifyPaid(h)
           \/ VerifyPaidBooking(h) \/ RefundWrite(h) \/ SettlementRow(h)
    PROVE  MarketInv'
<1> DEFINE me == handler[h]
           b == me.booking
<1>0. Tables /\ WellFormed(me) /\ me \in HandlerRows
  BY DEF MarketInv
<1>1. ASSUME HandlerDone(h), Tables', UNCHANGED <<header, entries>> PROVE MarketInv'
  BY <1>1, IdleWellFormed, QuietStep DEF HandlerDone
<1>2. ASSUME NEW pc \in OfBooking, me.pc \in OfBooking, HandlerGoes(h, pc), Tables',
             UNCHANGED <<header, entries>>
      PROVE  MarketInv'
  <2>1. WellFormed([me EXCEPT !.pc = pc]) /\ [me EXCEPT !.pc = pc].pc = pc
    BY <1>0, <1>2, GoesOn
  <2>2. pc # "entries"
    BY <1>2 DEF OfBooking
  <2> QED
    BY <1>2, <2>1, <2>2, QuietStep DEF HandlerGoes
<1>3. ASSUME NEW new \in PaymentRows, b \in Bookings, payment' = [payment EXCEPT ![b] = new],
             UNCHANGED <<price, finance, gateway, header, entries, settled, handled, unusual>>
      PROVE  Tables'
  BY <1>0, <1>3 DEF Tables
<1>4. ASSUME NEW new \in Finances, b \in Bookings, finance' = [finance EXCEPT ![b] = new],
             UNCHANGED <<price, payment, gateway, header, entries, settled, handled, unusual>>
      PROVE  Tables'
  BY <1>0, <1>4 DEF Tables
<1>5. ASSUME me.pc \in OfBooking PROVE b \in Bookings /\ payment[b] \in PaymentRows
  BY <1>0, <1>5 DEF WellFormed, Tables
<1>6. ASSUME UNCHANGED <<price, payment, finance, gateway, header, entries, settled, handled, unusual>>
      PROVE  Tables'
  BY <1>0, <1>6 DEF Tables
<1> USE DEF HandlerAt
<1>7. CASE CheckoutInsert(h)
  <2>1. me.pc \in OfBooking
    BY <1>7 DEF CheckoutInsert, OfBooking
  <2>2. CASE payment[b].status = "none"
    <3> DEFINE new == [NoPaymentRow EXCEPT !.status = "created", !.amount = me.amount]
    <3>1. new \in PaymentRows
      <4>1. me.amount \in Nat /\ 0 \in 0..MaxOpened
        BY <1>0, MarketAssumption DEF HandlerRows
      <4>2. NoPaymentRow \in PaymentRows
        BY <4>1 DEF NoPaymentRow, PaymentRows
      <4> QED
        BY <4>1, <4>2 DEF PaymentRows
    <3>2. payment' = [payment EXCEPT ![b] = new] /\ HandlerGoes(h, "create")
          /\ UNCHANGED <<price, finance, gateway, header, entries, settled, handled, unusual>>
      BY <1>7, <2>2 DEF CheckoutInsert
    <3> HIDE DEF new
    <3>3. Tables'
      BY <1>3, <1>5, <2>1, <3>1, <3>2
    <3>4. "create" \in OfBooking
      BY DEF OfBooking
    <3> QED
      BY <1>2, <2>1, <3>2, <3>3, <3>4
  <2>3. CASE payment[b].status # "none"
    BY <1>1, <1>6, <1>7, <2>3 DEF CheckoutInsert
  <2> QED
    BY <2>2, <2>3
<1>8. CASE CheckoutCreate(h)
  <2>1. me.pc \in OfBooking
    BY <1>8 DEF CheckoutCreate, OfBooking
  <2>2. PICK t \in MarketTokens :
           /\ gateway' = [gateway EXCEPT ![t].booking = b]
           /\ HandlerBecomes(h, [me EXCEPT !.pc = "redirect", !.token = t])
    BY <1>8 DEF CheckoutCreate
  <2> DEFINE row == [me EXCEPT !.pc = "redirect", !.token = t]
  <2>3. row \in HandlerRows /\ row.pc = "redirect" /\ row.booking = b
    <3>1. t \in 0..MaxOpened
      BY MarketAssumption DEF MarketTokens
    <3> QED
      BY <1>0, <3>1 DEF HandlerRows, Steps
  <2>4. HandlerBecomes(h, row)
    BY <2>2
  <2> HIDE DEF row
  <2>5. WellFormed(row)
    BY <1>5, <2>1, <2>3 DEF WellFormed
  <2>6. Tables'
    <3> DEFINE new == [gateway[t] EXCEPT !.booking = b]
    <3>1. new \in [booking : Bookings \cup {NoBooking}, paid : BOOLEAN]
      BY <1>0, <1>5, <2>1 DEF Tables
    <3>2. gateway' = [gateway EXCEPT ![t] = new]
          /\ UNCHANGED <<price, payment, finance, header, entries, settled, handled, unusual>>
      BY <1>8, <2>2 DEF CheckoutCreate
    <3> HIDE DEF new
    <3> QED
      BY <1>0, <3>1, <3>2 DEF Tables
  <2> QED
    BY <1>8, <2>3, <2>4, <2>5, <2>6, QuietStep DEF CheckoutCreate
<1>9. CASE CheckoutRedirect(h)
  <2>1. me.pc \in OfBooking /\ "await" \in OfBooking
    BY <1>9 DEF CheckoutRedirect, OfBooking
  <2> DEFINE new == [payment[b] EXCEPT !.status = "redirected", !.token = me.token]
  <2>2. new \in PaymentRows
    BY <1>0, <1>5, <2>1 DEF PaymentRows, HandlerRows
  <2>3. payment' = [payment EXCEPT ![b] = new]
    BY <1>0, <1>5, <1>9, <2>1 DEF CheckoutRedirect, Tables
  <2> HIDE DEF new
  <2>4. Tables'
    BY <1>3, <1>5, <1>9, <2>1, <2>2, <2>3 DEF CheckoutRedirect
  <2> QED
    BY <1>2, <1>9, <2>1, <2>4 DEF CheckoutRedirect
<1>10. CASE CheckoutAwait(h) \/ VerifyFailBooking(h) \/ VerifyPaidBooking(h)
  <2>1. b \in Bookings
    BY <1>5, <1>10 DEF CheckoutAwait, VerifyFailBooking, VerifyPaidBooking, OfBooking
  <2>2. finance[b] \in Finances
    BY <1>0, <2>1 DEF Tables
  <2>3. \E new \in Finances : finance' = [finance EXCEPT ![b] = new]
    BY <1>0, <1>10, <2>1, <2>2
    DEF CheckoutAwait, VerifyFailBooking, VerifyPaidBooking, FailedFinance, Finances, Tables
  <2>4. Tables'
    BY <1>4, <1>10, <2>1, <2>3 DEF CheckoutAwait, VerifyFailBooking, VerifyPaidBooking
  <2> QED
    BY <1>1, <1>10, <2>4 DEF CheckoutAwait, VerifyFailBooking, VerifyPaidBooking
<1>11. CASE VerifyAnswer(h)
  <2>1. me.pc \in OfBooking /\ "fail" \in OfBooking
    BY <1>11 DEF VerifyAnswer, OfBooking
  <2>2. Tables' /\ UNCHANGED <<header, entries>>
    BY <1>6, <1>11 DEF VerifyAnswer
  <2> DEFINE key == [kind |-> "pay", of |-> b]
             c == Commission(me.amount)
             todo == PaymentEntries(me.amount, c)
             row == [me EXCEPT !.pc = "look", !.key = key, !.todo = todo, !.commission = c]
  <2>3. key \in Keys /\ c \in Nat /\ todo \in Seq(Sides) /\ todo # <<>>
    <3>1. me.amount \in Nat
      BY <1>0 DEF HandlerRows
    <3>2. c \in Nat
      BY <3>1, CommissionType
    <3> HIDE DEF c
    <3> QED
      BY <1>5, <2>1, <3>1, <3>2, EntriesType DEF Keys
  <2>4. HandlerGoes(h, "fail") \/ HandlerBecomes(h, row)
    BY <1>11 DEF VerifyAnswer
  <2> HIDE DEF key, todo, c
  <2>5. row \in HandlerRows /\ row.pc = "look" /\ row.booking = b /\ row.key = key /\ row.todo = todo
    BY <1>0, <2>3 DEF HandlerRows, Steps
  <2> HIDE DEF row
  <2>6. WellFormed(row)
    BY <1>5, <2>1, <2>3, <2>5 DEF WellFormed, OfBooking
  <2>7. CASE HandlerBecomes(h, row)
    BY <2>2, <2>5, <2>6, <2>7, QuietStep
  <2> QED
    BY <1>2, <2>1, <2>2, <2>4, <2>7
<1>12. CASE VerifyFail(h)
  <2>1. me.pc \in OfBooking /\ "failBooking" \in OfBooking
    BY <1>12 DEF VerifyFail, OfBooking
  <2> DEFINE new == [payment[b] EXCEPT !.status = IF @ = "paid" THEN @ ELSE "failed"]
  <2>2. new \in PaymentRows
    BY <1>5, <2>1 DEF PaymentRows
  <2>3. payment' = [payment EXCEPT ![b] = new]
    BY <1>0, <1>5, <1>12, <2>1 DEF VerifyFail, Tables
  <2> HIDE DEF new
  <2>4. Tables'
    BY <1>3, <1>5, <1>12, <2>1, <2>2, <2>3 DEF VerifyFail
  <2> QED
    BY <1>2, <1>12, <2>1, <2>4 DEF VerifyFail
<1>13. CASE VerifyPaid(h)
  <2>1. me.pc \in OfBooking /\ "paidBooking" \in OfBooking
    BY <1>13 DEF VerifyPaid, OfBooking
  <2> DEFINE new == [payment[b] EXCEPT !.status = "paid", !.commission = me.commission]
  <2>2. new \in PaymentRows
    BY <1>0, <1>5, <2>1 DEF PaymentRows, HandlerRows
  <2>3. payment' = [payment EXCEPT ![b] = new]
    BY <1>0, <1>5, <1>13, <2>1 DEF VerifyPaid, Tables
  <2> HIDE DEF new
  <2>4. Tables'
    BY <1>3, <1>5, <1>13, <2>1, <2>2, <2>3 DEF VerifyPaid
  <2> QED
    BY <1>2, <1>13, <2>1, <2>4 DEF VerifyPaid
<1>14. CASE RefundWrite(h)
  <2>1. me.pc \in OfBooking
    BY <1>14 DEF RefundWrite, OfBooking
  <2> DEFINE new == [payment[b] EXCEPT !.status = "refunded"]
  <2>2. new \in PaymentRows
    BY <1>5, <2>1 DEF PaymentRows
  <2>3. payment' = [payment EXCEPT ![b] = new]
    BY <1>0, <1>5, <1>14, <2>1 DEF RefundWrite, Tables
  <2> HIDE DEF new
  <2>4. Tables'
    BY <1>3, <1>5, <1>14, <2>1, <2>2, <2>3 DEF RefundWrite
  <2> QED
    BY <1>1, <1>14, <2>4 DEF RefundWrite
<1>15. CASE SettlementRow(h)
  <2>1. me.key.of \in Settlements
    BY <1>0, <1>15 DEF SettlementRow, WellFormed
  <2>2. Tables'
    BY <1>0, <1>15, <2>1 DEF SettlementRow, Tables
  <2> QED
    BY <1>1, <1>15, <2>2 DEF SettlementRow
<1> QED
  BY <1>7, <1>8, <1>9, <1>10, <1>11, <1>12, <1>13, <1>14, <1>15

\* postLedger: the header is what lets one handler in.
LEMMA LedgerKeeps ==
    ASSUME MarketInv, NEW h \in Handlers, LedgerLook(h) \/ LedgerHeader(h) \/ LedgerEntry(h)
    PROVE  MarketInv'
<1> DEFINE me == handler[h]
           k == me.key
<1>0. Tables /\ WellFormed(me) /\ me \in HandlerRows /\ PostedOnce
  BY DEF MarketInv
<1>1. k \in Keys /\ me.todo # <<>> /\ (k.kind # "settle" => me.booking \in Bookings)
  BY <1>0 DEF LedgerLook, LedgerHeader, LedgerEntry, HandlerAt, WellFormed
\* What comes after the last entry, or after a transaction that is there already.
<1>2. ASSUME NEW todo \in Seq(Sides)
      PROVE  LET row == [me EXCEPT !.todo = todo, !.pc = AfterLedger(k)]
             IN  WellFormed(row) /\ row.pc # "entries"
  <2> DEFINE pc == AfterLedger(k)
             row == [me EXCEPT !.todo = todo, !.pc = pc]
  <2>1. /\ pc \in {"paid", "refunded", "settled"}
        /\ pc # "settled" => me.booking \in Bookings
        /\ pc = "settled" => k.of \in Settlements
    BY <1>1 DEF AfterLedger, Keys
  <2> HIDE DEF pc
  <2>2. row \in HandlerRows /\ row.pc = pc /\ row.booking = me.booking /\ row.key = k
    BY <1>0, <1>2, <2>1 DEF HandlerRows, Steps
  <2> HIDE DEF row
  <2>3. WellFormed(row) /\ row.pc # "entries"
    BY <2>1, <2>2 DEF WellFormed, OfBooking
  <2> QED
    BY <2>3 DEF row, pc
\* The steps from one statement of postLedger to the next.
<1>3. ASSUME NEW pc \in {"header", "entries"}, NEW todo \in Seq(Sides), todo # <<>>
      PROVE  LET row == [me EXCEPT !.todo = todo, !.pc = pc]
             IN  WellFormed(row) /\ row.pc = pc /\ row.key = k
  <2> DEFINE row == [me EXCEPT !.todo = todo, !.pc = pc]
  <2>1. row \in HandlerRows /\ row.pc = pc /\ row.booking = me.booking /\ row.key = k
        /\ row.todo = todo
    BY <1>0, <1>3 DEF HandlerRows, Steps
  <2> HIDE DEF row
  <2>2. WellFormed(row)
    BY <1>1, <1>3, <2>1 DEF WellFormed, OfBooking
  <2> QED
    BY <2>1, <2>2 DEF row
<1>4. me.todo \in Seq(Sides) /\ \A pc : [me EXCEPT !.pc = pc] = [me EXCEPT !.todo = me.todo, !.pc = pc]
  BY <1>0 DEF HandlerRows
<1> USE DEF HandlerAt
<1>5. CASE LedgerLook(h)
  <2>1. Tables' /\ UNCHANGED <<header, entries>>
    BY <1>0, <1>5 DEF LedgerLook, Tables
  <2>2. CASE k \in header
    <3> DEFINE row == [me EXCEPT !.todo = me.todo, !.pc = AfterLedger(k)]
    <3>1. HandlerBecomes(h, row)
      BY <1>4, <1>5, <2>2 DEF LedgerLook, HandlerGoes
    <3>2. WellFormed(row) /\ row.pc # "entries"
      BY <1>2, <1>4
    <3> HIDE DEF row
    <3> QED
      BY <2>1, <3>1, <3>2, QuietStep
  <2>3. CASE k \notin header
    <3> DEFINE row == [me EXCEPT !.todo = me.todo, !.pc = "header"]
    <3>1. HandlerBecomes(h, row)
      BY <1>4, <1>5, <2>3 DEF LedgerLook, HandlerGoes
    <3>2. WellFormed(row) /\ row.pc # "entries"
      BY <1>1, <1>3, <1>4
    <3> HIDE DEF row
    <3> QED
      BY <2>1, <3>1, <3>2, QuietStep
  <2> QED
    BY <2>2, <2>3
<1>6. CASE LedgerHeader(h)
  <2>1. CASE k \in header
    <3>1. HandlerBecomes(h, IdleHandler) /\ Tables' /\ UNCHANGED <<header, entries>>
      BY <1>0, <1>6, <2>1 DEF LedgerHeader, HandlerDone, RefusesKey, Tables
    <3> QED
      BY <3>1, IdleWellFormed, QuietStep
  <2>2. CASE k \notin header
    <3> DEFINE row == [me EXCEPT !.todo = me.todo, !.pc = "entries"]
    <3>1. HandlerBecomes(h, row) /\ header' = header \cup {k} /\ UNCHANGED entries
      BY <1>4, <1>6, <2>2 DEF LedgerHeader, HandlerGoes, RefusesKey
    <3>2. WellFormed(row) /\ row.pc = "entries" /\ row.key = k
      BY <1>1, <1>3, <1>4
    <3> HIDE DEF row
    <3>3. /\ handler' \in [Handlers -> HandlerRows]
          /\ \A g \in Handlers : WellFormed(handler'[g])
          /\ handler'[h] = row
          /\ \A g \in Handlers \ {h} : handler'[g] = handler[g]
      BY <3>1, <3>2, HandlersKeep
    <3>4. Posting(k) = {}
      BY <1>0, <1>1, <2>2 DEF PostedOnce
    <3>5. Posting(k)' = {h} /\ \A j \in Keys \ {k} : Posting(j)' = Posting(j)
      BY <1>6, <3>2, <3>3, <3>4 DEF Posting, LedgerHeader
    <3>6. ASSUME NEW j \in Keys
          PROVE  /\ j \notin header' => entries'[j] = <<>> /\ Posting(j)' = {}
                 /\ \A f, g \in Posting(j)' : f = g
      <4>1. CASE j = k
        <5>1. Posting(j)' = {h}
          BY <3>2, <3>3, <3>5, <4>1 DEF Posting
        <5> QED
          BY <3>1, <4>1, <5>1
      <4>2. CASE j # k
        <5>1. Posting(j)' = Posting(j) /\ entries'[j] = entries[j] /\ (j \in header' <=> j \in header)
          BY <3>1, <3>5, <4>2
        <5> QED
          BY <1>0, <5>1 DEF PostedOnce
      <4> QED
        BY <4>1, <4>2
    <3>7. Tables'
      BY <1>0, <1>1, <1>6, <3>1 DEF LedgerHeader, Tables
    <3> QED
      BY <3>3, <3>6, <3>7 DEF MarketInv, PostedOnce
  <2> QED
    BY <2>1, <2>2
<1>7. CASE LedgerEntry(h)
  <2> DEFINE rest == Tail(me.todo)
             first == Head(me.todo)
             pc == IF rest = <<>> THEN AfterLedger(k) ELSE "entries"
             row == [me EXCEPT !.todo = rest, !.pc = pc]
  <2>1. rest \in Seq(Sides) /\ first \in Sides
    BY <1>1, <1>4, HeadTailProperties
  <2>2. HandlerBecomes(h, row) /\ entries' = [entries EXCEPT ![k] = Append(@, first)]
        /\ UNCHANGED <<price, payment, finance, gateway, header, settled, handled, unusual>>
    BY <1>7 DEF LedgerEntry
  <2>3. WellFormed(row) /\ (row.pc = "entries" => row.key = k)
    <3>1. CASE rest = <<>>
      <4>1. row = [me EXCEPT !.todo = rest, !.pc = AfterLedger(k)]
        BY <3>1
      <4> HIDE DEF row, rest
      <4> QED
        BY <1>2, <2>1, <4>1
    <3>2. CASE rest # <<>>
      <4>1. row = [me EXCEPT !.todo = rest, !.pc = "entries"]
        BY <3>2
      <4> HIDE DEF row, rest
      <4> QED
        BY <1>3, <2>1, <3>2, <4>1
    <3> QED
      BY <3>1, <3>2
  <2>4. entries' \in [Keys -> Seq(Sides)] /\ \A j \in Keys \ {k} : entries'[j] = entries[j]
    <3>1. Append(entries[k], first) \in Seq(Sides)
      BY <1>0, <1>1, <2>1, AppendProperties DEF Tables
    <3> QED
      BY <1>0, <1>1, <2>2, <3>1 DEF Tables
  <2> HIDE DEF row, rest, first
  <2>5. /\ handler' \in [Handlers -> HandlerRows]
        /\ \A g \in Handlers : WellFormed(handler'[g])
        /\ handler'[h] = row
        /\ \A g \in Handlers \ {h} : handler'[g] = handler[g]
    BY <2>2, <2>3, HandlersKeep
  <2>6. h \in Posting(k) /\ k \in header
    BY <1>0, <1>1, <1>7 DEF Posting, PostedOnce, LedgerEntry
  <2>7. \A j \in Keys : Posting(j)' \subseteq Posting(j)
    BY <2>3, <2>5, <2>6 DEF Posting
  <2>8. PostedOnce'
    BY <1>0, <2>2, <2>4, <2>6, <2>7 DEF PostedOnce
  <2>9. Tables'
    BY <1>0, <2>2, <2>4 DEF Tables
  <2> QED
    BY <2>5, <2>8, <2>9 DEF MarketInv
<1> QED
  BY <1>5, <1>6, <1>7

LEMMA InvStep == MarketInv /\ [MarketNext]_marketVars => MarketInv'
<1> SUFFICES ASSUME MarketInv, [MarketNext]_marketVars PROVE MarketInv'
  OBVIOUS
<1>1. CASE UNCHANGED marketVars
  BY <1>1 DEF marketVars, MarketInv, Tables, PostedOnce, Posting, HandlerAt
<1>2. ASSUME NEW h \in Handlers, Answered(h) PROVE MarketInv'
  <2>1. CASE HandlerStops(h)
    <3>1. HandlerBecomes(h, IdleHandler) /\ Tables' /\ UNCHANGED <<header, entries>>
      BY <2>1 DEF HandlerStops, HandlerDone, MarketInv, Tables
    <3> QED
      BY <3>1, IdleWellFormed, QuietStep
  <2> QED
    BY <1>2, <2>1, RowsKeep, LedgerKeeps DEF Answered
<1>3. ASSUME NEW t \in MarketTokens, CustomerPays(t) PROVE MarketInv'
  <2>1. Tables'
    BY <1>3 DEF CustomerPays, MarketInv, Tables
  <2> QED
    BY <1>3, <2>1 DEF CustomerPays, MarketInv, PostedOnce, Posting, HandlerAt
<1> QED
  BY <1>1, <1>2, <1>3, ArrivesKeeps DEF MarketNext

LEMMA Always == MarketSpec => []MarketInv
BY InvInit, InvStep, PTL DEF MarketSpec

\* Every row of the marketplace's tables, and what every request remembers,
\* is what its columns allow.
THEOREM MarketTypes == MarketSpec => []MarketTypeOK
<1>1. MarketInv => MarketTypeOK
  BY DEF MarketInv, Tables, MarketTypeOK
<1> QED
  BY <1>1, Always, PTL

\* However many verifications, refunds and settlements overlap or stop, one
\* request at most posts under an idempotency key, and none without its header.
THEOREM EntriesPostedOnce == MarketSpec => []PostedOnce
<1>1. MarketInv => PostedOnce
  BY DEF MarketInv
<1> QED
  BY <1>1, Always, PTL

-----------------------------------------------------------------------------
(* A paid payment has a fully paid booking *)

CheckoutSteps == {"insert", "create", "redirect", "await"}

\* Nothing stopped and no checkout overlapped anything.
Orderly == {"stop", "checkout"} \cap unusual = {}

\* A checkout under way is of a payment nobody has made, and alone.
CheckoutAlone ==
    \A h \in Handlers : handler[h].pc \in CheckoutSteps =>
        /\ payment[handler[h].booking].status # "paid"
        /\ \A g \in Handlers \ {h} : handler[g].pc = "idle"

\* Between the two updates of a verification the one that wrote the first is
\* about to write the second.
PaidFollowed ==
    \A b \in Bookings : payment[b].status = "paid" =>
        \/ finance[b] = "fully_paid"
        \/ \E h \in Handlers : handler[h].pc = "paidBooking" /\ handler[h].booking = b

PaidInv == Orderly => CheckoutAlone /\ PaidFollowed

\* What a step leaves in the handler's own row and in the others'.
LEMMA RowAfter ==
    ASSUME MarketInv, NEW h \in Handlers, NEW row, HandlerBecomes(h, row)
    PROVE  handler'[h] = row /\ \A g \in Handlers \ {h} : handler'[g] = handler[g]
BY DEF MarketInv, HandlerBecomes

LEMMA GoesTo ==
    ASSUME MarketInv, NEW h \in Handlers, NEW pc \in Steps, HandlerGoes(h, pc)
    PROVE  /\ handler'[h] = [handler[h] EXCEPT !.pc = pc]
           /\ handler'[h].pc = pc
           /\ handler'[h].booking = handler[h].booking /\ handler'[h].key = handler[h].key
           /\ handler'[h].todo = handler[h].todo /\ handler'[h].amount = handler[h].amount
           /\ handler'[h].commission = handler[h].commission
           /\ \A g \in Handlers \ {h} : handler'[g] = handler[g]
<1>1. handler[h] \in HandlerRows /\ handler'[h] = [handler[h] EXCEPT !.pc = pc]
      /\ \A g \in Handlers \ {h} : handler'[g] = handler[g]
  BY RowAfter DEF MarketInv, HandlerGoes
<1> QED
  BY <1>1 DEF HandlerRows

LEMMA DoneIs ==
    ASSUME MarketInv, NEW h \in Handlers, HandlerDone(h)
    PROVE  /\ handler'[h] = IdleHandler /\ handler'[h].pc = "idle"
           /\ \A g \in Handlers \ {h} : handler'[g] = handler[g]
BY RowAfter, IdleWellFormed DEF HandlerDone

\* The row of a request that begins to post, and the next entry's.
LEMMA EntryRow ==
    ASSUME MarketInv, NEW h \in Handlers, LedgerEntry(h)
    PROVE  LET k == handler[h]
               n == handler'[h] IN
           /\ k.pc = "entries" /\ k.key \in Keys /\ k.todo \in Seq(Sides) /\ k.todo # <<>>
           /\ n.key = k.key /\ n.booking = k.booking /\ n.todo = Tail(k.todo)
           /\ n.amount = k.amount /\ n.commission = k.commission
           /\ n.pc = IF Tail(k.todo) = <<>> THEN AfterLedger(k.key) ELSE "entries"
           /\ \A g \in Handlers \ {h} : handler'[g] = handler[g]
<1> DEFINE k == handler[h]
           rest == Tail(k.todo)
           pc == IF rest = <<>> THEN AfterLedger(k.key) ELSE "entries"
           row == [k EXCEPT !.todo = rest, !.pc = pc]
<1>1. k \in HandlerRows /\ WellFormed(k) /\ k.pc = "entries" /\ HandlerBecomes(h, row)
  BY DEF MarketInv, LedgerEntry, HandlerAt
<1>2. k.key \in Keys /\ k.todo \in Seq(Sides) /\ k.todo # <<>>
  BY <1>1 DEF WellFormed, HandlerRows
<1>3. /\ row.key = k.key /\ row.booking = k.booking /\ row.todo = rest
      /\ row.amount = k.amount /\ row.commission = k.commission /\ row.pc = pc
  BY <1>1 DEF HandlerRows
<1>4. handler'[h] = row /\ \A g \in Handlers \ {h} : handler'[g] = handler[g]
  BY <1>1, RowAfter
<1> QED
  BY <1>1, <1>2, <1>3, <1>4

LEMMA AfterLedgerIs ==
    ASSUME NEW key \in Keys
    PROVE  /\ AfterLedger(key) \in {"paid", "refunded", "settled"}
           /\ AfterLedger(key) \in Steps
           /\ (AfterLedger(key) = "paid") <=> key.kind = "pay"
           /\ (AfterLedger(key) = "refunded") <=> key.kind = "refund"
           /\ (AfterLedger(key) = "settled") <=> key.kind = "settle"
<1>1. key.kind \in {"pay", "refund", "settle"}
  BY DEF Keys
<1> QED
  BY <1>1 DEF AfterLedger, Steps

\* A step that writes neither of the two columns.
LEMMA PaidQuiet ==
    ASSUME MarketInv, PaidInv, NEW h \in Handlers, UNCHANGED <<payment, finance, unusual>>,
           \A g \in Handlers \ {h} : handler'[g] = handler[g],
           handler[h].pc \notin {"idle", "paidBooking"},
           handler'[h].pc \in CheckoutSteps =>
              handler[h].pc \in CheckoutSteps /\ handler'[h].booking = handler[h].booking
    PROVE  PaidInv'
<1> SUFFICES ASSUME Orderly' PROVE CheckoutAlone' /\ PaidFollowed'
  BY DEF PaidInv
<1>1. CheckoutAlone /\ PaidFollowed
  BY DEF Orderly, PaidInv
<1>2. CheckoutAlone'
  BY <1>1 DEF CheckoutAlone, CheckoutSteps
<1>3. PaidFollowed'
  BY <1>1 DEF PaidFollowed
<1> QED
  BY <1>2, <1>3

LEMMA PaidInit == MarketInit => PaidInv
BY IdleWellFormed DEF MarketInit, PaidInv, CheckoutAlone, PaidFollowed, CheckoutSteps, NoPaymentRow

\* A request that arrives.
LEMMA PaidArrives ==
    ASSUME MarketInv, PaidInv, NEW h \in Handlers, NEW row, NEW what,
           Handle(h, row, what), UNCHANGED <<payment, finance>>,
           row.pc \in CheckoutSteps => "checkout" \in what /\ payment[row.booking].status # "paid"
    PROVE  PaidInv'
<1> SUFFICES ASSUME Orderly' PROVE CheckoutAlone' /\ PaidFollowed'
  BY DEF PaidInv
<1>1. /\ Orderly
      /\ \/ Silent
         \/ (\A g \in Handlers : handler[g].pc \notin CheckoutSteps) /\ "checkout" \notin what
  BY DEF Handle, Orderly, CheckoutSteps
<1>2. handler'[h] = row /\ (\A g \in Handlers \ {h} : handler'[g] = handler[g]) /\ handler[h].pc = "idle"
  BY RowAfter DEF Handle, HandlerAt
<1>3. CheckoutAlone /\ PaidFollowed
  BY <1>1 DEF PaidInv
<1>4. CheckoutAlone'
  BY <1>1, <1>2, <1>3 DEF CheckoutAlone, CheckoutSteps, Silent, HandlerAt
<1>5. PaidFollowed'
  BY <1>2, <1>3 DEF PaidFollowed
<1> QED
  BY <1>4, <1>5

LEMMA PaidStep == MarketInv /\ PaidInv /\ [MarketNext]_marketVars => PaidInv'
<1> SUFFICES ASSUME MarketInv, PaidInv, [MarketNext]_marketVars PROVE PaidInv'
  OBVIOUS
<1>0. /\ payment \in [Bookings -> PaymentRows] /\ finance \in [Bookings -> Finances]
      /\ \A h \in Handlers : WellFormed(handler[h]) /\ handler[h] \in HandlerRows
  BY DEF MarketInv, Tables
<1>1. CASE UNCHANGED <<payment, finance, handler, unusual>>
  BY <1>1 DEF PaidInv, Orderly, CheckoutAlone, PaidFollowed
<1>2. ASSUME NEW h \in Handlers, Arrives(h) PROVE PaidInv'
  <2>1. ASSUME NEW b \in Bookings, Checkout(h, b) PROVE PaidInv'
    <3> DEFINE row == [IdleHandler EXCEPT !.booking = b, !.amount = price,
                         !.pc = IF payment[b].status = "none" THEN "insert" ELSE "create"]
    <3>1. row.booking = b
      BY DEF IdleHandler
    <3>2. Handle(h, row, {"checkout"}) /\ UNCHANGED <<payment, finance>> /\ payment[b].status # "paid"
      BY <2>1 DEF Checkout
    <3> HIDE DEF row
    <3> QED
      BY <3>1, <3>2, PaidArrives
  <2>2. ASSUME NEW row, Handle(h, row, {}), UNCHANGED <<payment, finance>>, row.pc \notin CheckoutSteps
        PROVE  PaidInv'
    BY <2>2, PaidArrives
  <2>3. ASSUME NEW b \in Bookings, Verify(h, b) PROVE PaidInv'
    <3> DEFINE row == [IdleHandler EXCEPT !.pc = "verify", !.booking = b, !.token = payment[b].token,
                                          !.amount = payment[b].amount]
    <3>1. row.pc \notin CheckoutSteps
      BY DEF IdleHandler, CheckoutSteps
    <3> QED
      BY <2>2, <2>3, <3>1 DEF Verify
  <2>4. ASSUME NEW b \in Bookings, Refund(h, b) PROVE PaidInv'
    <3> DEFINE row == [IdleHandler EXCEPT !.pc = "look", !.booking = b,
                    !.key = [kind |-> "refund", of |-> b],
                    !.todo = RefundEntries(payment[b].amount, payment[b].commission)]
    <3>1. row.pc \notin CheckoutSteps
      BY DEF IdleHandler, CheckoutSteps
    <3>2. Handle(h, row, {}) /\ UNCHANGED <<payment, finance>>
      BY <2>4 DEF Refund
    <3> HIDE DEF row
    <3> QED
      BY <2>2, <3>1, <3>2
  <2>5. ASSUME NEW s \in Settlements, NEW n \in 1..(PayableCredit + 1), RequestSettlement(h, s, n)
        PROVE  PaidInv'
    <3> DEFINE row == [IdleHandler EXCEPT !.pc = "look", !.key = [kind |-> "settle", of |-> s],
                                     !.todo = ReserveEntries(n)]
    <3>1. row.pc \notin CheckoutSteps
      BY DEF IdleHandler, CheckoutSteps
    <3>2. Handle(h, row, {}) /\ UNCHANGED <<payment, finance>>
      BY <2>5 DEF RequestSettlement
    <3> HIDE DEF row
    <3> QED
      BY <2>2, <3>1, <3>2
  <2> QED
    BY <1>2, <2>1, <2>3, <2>4, <2>5 DEF Arrives
<1>3. ASSUME NEW h \in Handlers, Answered(h) PROVE PaidInv'
  <2> DEFINE k == handler[h]
             b == k.booking
  <2>0. /\ k \in HandlerRows /\ WellFormed(k)
        /\ Orderly => CheckoutAlone /\ PaidFollowed
    BY <1>0 DEF PaidInv
  <2>1. CASE HandlerStops(h)
    BY <2>1 DEF HandlerStops, PaidInv, Orderly
  <2>2. CASE HandlerDone(h) /\ UNCHANGED <<payment, finance, unusual>> /\ k.pc \notin {"idle", "paidBooking"}
    BY <2>2, DoneIs, PaidQuiet DEF CheckoutSteps
  <2>3. CASE CheckoutInsert(h)
    <3>1. CASE payment[b].status = "none"
      <4>0. k.pc = "insert" /\ b \in Bookings
        BY <2>0, <2>3 DEF CheckoutInsert, HandlerAt, WellFormed, OfBooking
      <4>1. /\ payment' = [payment EXCEPT ![b] = [NoPaymentRow EXCEPT !.status = "created", !.amount = k.amount]]
            /\ HandlerGoes(h, "create") /\ UNCHANGED <<finance, unusual>>
        BY <2>3, <3>1 DEF CheckoutInsert
      <4>2. /\ handler'[h].pc = "create" /\ handler'[h].booking = b
            /\ \A g \in Handlers \ {h} : handler'[g] = handler[g]
        BY <4>1, GoesTo DEF Steps
      <4>3. /\ payment'[b].status # "paid"
            /\ \A c \in Bookings \ {b} : payment'[c] = payment[c]
        BY <1>0, <4>0, <4>1 DEF NoPaymentRow
      <4> HIDE DEF b
      <4> SUFFICES ASSUME Orderly' PROVE CheckoutAlone' /\ PaidFollowed'
        BY DEF PaidInv
      <4>4. CheckoutAlone /\ PaidFollowed
        BY <2>0, <4>1 DEF Orderly
      <4>5. CheckoutAlone'
        BY <4>0, <4>2, <4>3, <4>4 DEF CheckoutAlone, CheckoutSteps, b
      <4>6. PaidFollowed'
        BY <4>0, <4>1, <4>2, <4>3, <4>4 DEF PaidFollowed
      <4> QED
        BY <4>5, <4>6
    <3>2. CASE payment[b].status # "none"
      BY <2>2, <2>3, <3>2 DEF CheckoutInsert, HandlerAt
    <3> QED
      BY <3>1, <3>2
  <2>4. CASE CheckoutCreate(h)
    <3>1. PICK t \in MarketTokens : HandlerBecomes(h, [k EXCEPT !.pc = "redirect", !.token = t])
      BY <2>4 DEF CheckoutCreate
    <3>2. /\ handler'[h].pc = "redirect" /\ handler'[h].booking = b
          /\ \A g \in Handlers \ {h} : handler'[g] = handler[g]
      <4> DEFINE row == [k EXCEPT !.pc = "redirect", !.token = t]
      <4>1. row.pc = "redirect" /\ row.booking = b
        BY <2>0 DEF HandlerRows
      <4>2. HandlerBecomes(h, row)
        BY <3>1
      <4> HIDE DEF row
      <4> QED
        BY <4>1, <4>2, RowAfter
    <3>3. k.pc = "create" /\ UNCHANGED <<payment, finance, unusual>>
      BY <2>4 DEF CheckoutCreate, HandlerAt
    <3> QED
      BY <3>2, <3>3, PaidQuiet DEF CheckoutSteps
  <2>5. CASE CheckoutRedirect(h)
    <3>0. k.pc = "redirect" /\ b \in Bookings /\ HandlerGoes(h, "await") /\ UNCHANGED <<finance, unusual>>
      BY <2>0, <2>5 DEF CheckoutRedirect, HandlerAt, WellFormed, OfBooking
    <3>1. /\ handler'[h].pc = "await" /\ handler'[h].booking = b
          /\ \A g \in Handlers \ {h} : handler'[g] = handler[g]
      BY <3>0, GoesTo DEF Steps
    <3>2. /\ payment'[b].status = "redirected"
          /\ \A c \in Bookings \ {b} : payment'[c] = payment[c]
      BY <1>0, <2>5, <3>0 DEF CheckoutRedirect, PaymentRows
    <3> SUFFICES ASSUME Orderly' PROVE CheckoutAlone' /\ PaidFollowed'
      BY DEF PaidInv
    <3>3. CheckoutAlone /\ PaidFollowed
      BY <2>0, <3>0 DEF Orderly
    <3>4. CheckoutAlone'
      BY <3>0, <3>1, <3>2, <3>3 DEF CheckoutAlone, CheckoutSteps
    <3>5. PaidFollowed'
      BY <3>0, <3>1, <3>2, <3>3 DEF PaidFollowed
    <3> QED
      BY <3>4, <3>5
  <2>6. CASE CheckoutAwait(h)
    <3>0. k.pc = "await" /\ b \in Bookings /\ HandlerDone(h) /\ UNCHANGED <<payment, unusual>>
          /\ \A c \in Bookings \ {b} : finance'[c] = finance[c]
      BY <1>0, <2>0, <2>6 DEF CheckoutAwait, HandlerAt, WellFormed, OfBooking
    <3>1. handler'[h].pc = "idle" /\ \A g \in Handlers \ {h} : handler'[g] = handler[g]
      BY <3>0, DoneIs
    <3> SUFFICES ASSUME Orderly' PROVE CheckoutAlone' /\ PaidFollowed'
      BY DEF PaidInv
    <3>3. CheckoutAlone /\ PaidFollowed
      BY <2>0, <3>0 DEF Orderly
    <3>4. CheckoutAlone'
      BY <3>0, <3>1, <3>3 DEF CheckoutAlone, CheckoutSteps
    <3>5. payment[b].status # "paid"
      BY <3>0, <3>3 DEF CheckoutAlone, CheckoutSteps
    <3>6. PaidFollowed'
      BY <3>0, <3>1, <3>3, <3>5 DEF PaidFollowed
    <3> QED
      BY <3>4, <3>6
  <2>7. CASE VerifyAnswer(h)
    <3>1. k.pc = "verify" /\ UNCHANGED <<payment, finance, unusual>>
      BY <2>7 DEF VerifyAnswer, HandlerAt
    <3>2. CASE HandlerGoes(h, "fail")
      BY <3>1, <3>2, GoesTo, PaidQuiet DEF Steps, CheckoutSteps
    <3>3. CASE ~HandlerGoes(h, "fail")
      <4> DEFINE row == [k EXCEPT !.pc = "look",
                   !.key = [kind |-> "pay", of |-> k.booking],
                   !.todo = PaymentEntries(k.amount, Commission(k.amount)),
                   !.commission = Commission(k.amount)]
      <4>1. row.pc = "look"
        BY <2>0 DEF HandlerRows
      <4>2. HandlerBecomes(h, row)
        BY <2>7, <3>3 DEF VerifyAnswer
      <4> HIDE DEF row
      <4> QED
        BY <3>1, <4>1, <4>2, RowAfter, PaidQuiet DEF CheckoutSteps
    <3> QED
      BY <3>2, <3>3
  <2>8. CASE VerifyFail(h)
    <3>0. k.pc = "fail" /\ b \in Bookings /\ HandlerGoes(h, "failBooking") /\ UNCHANGED <<finance, unusual>>
      BY <2>0, <2>8 DEF VerifyFail, HandlerAt, WellFormed, OfBooking
    <3>1. handler'[h].pc = "failBooking" /\ \A g \in Handlers \ {h} : handler'[g] = handler[g]
      BY <3>0, GoesTo DEF Steps
    <3>2. \A c \in Bookings : payment'[c].status = "paid" <=> payment[c].status = "paid"
      BY <1>0, <2>8, <3>0 DEF VerifyFail, PaymentRows
    <3> SUFFICES ASSUME Orderly' PROVE CheckoutAlone' /\ PaidFollowed'
      BY DEF PaidInv
    <3>3. CheckoutAlone /\ PaidFollowed
      BY <2>0, <3>0 DEF Orderly
    <3>4. CheckoutAlone'
      BY <1>0, <3>0, <3>1, <3>2, <3>3 DEF CheckoutAlone, CheckoutSteps, WellFormed, OfBooking
    <3>5. PaidFollowed'
      BY <3>0, <3>1, <3>2, <3>3 DEF PaidFollowed
    <3> QED
      BY <3>4, <3>5
  <2>9. CASE VerifyFailBooking(h)
    <3>0. k.pc = "failBooking" /\ b \in Bookings /\ HandlerDone(h) /\ UNCHANGED <<payment, unusual>>
          /\ \A c \in Bookings : finance[c] = "fully_paid" => finance'[c] = "fully_paid"
      BY <1>0, <2>0, <2>9 DEF VerifyFailBooking, HandlerAt, WellFormed, OfBooking, FailedFinance
    <3>1. handler'[h].pc = "idle" /\ \A g \in Handlers \ {h} : handler'[g] = handler[g]
      BY <3>0, DoneIs
    <3> SUFFICES ASSUME Orderly' PROVE CheckoutAlone' /\ PaidFollowed'
      BY DEF PaidInv
    <3>3. CheckoutAlone /\ PaidFollowed
      BY <2>0, <3>0 DEF Orderly
    <3>4. CheckoutAlone'
      BY <3>0, <3>1, <3>3 DEF CheckoutAlone, CheckoutSteps
    <3>5. PaidFollowed'
      BY <3>0, <3>1, <3>3 DEF PaidFollowed
    <3> QED
      BY <3>4, <3>5
  <2>10. CASE VerifyPaid(h)
    <3>0. k.pc = "paid" /\ b \in Bookings /\ HandlerGoes(h, "paidBooking") /\ UNCHANGED <<finance, unusual>>
          /\ \A c \in Bookings \ {b} : payment'[c] = payment[c]
      BY <1>0, <2>0, <2>10 DEF VerifyPaid, HandlerAt, WellFormed, OfBooking
    <3>1. /\ handler'[h].pc = "paidBooking" /\ handler'[h].booking = b
          /\ \A g \in Handlers \ {h} : handler'[g] = handler[g]
      BY <3>0, GoesTo DEF Steps
    <3> SUFFICES ASSUME Orderly' PROVE CheckoutAlone' /\ PaidFollowed'
      BY DEF PaidInv
    <3>3. CheckoutAlone /\ PaidFollowed
      BY <2>0, <3>0 DEF Orderly
    <3>4. \A g \in Handlers : handler[g].pc \notin CheckoutSteps
      BY <3>0, <3>3 DEF CheckoutAlone, CheckoutSteps
    <3>5. CheckoutAlone'
      BY <3>1, <3>4 DEF CheckoutAlone, CheckoutSteps
    <3>6. PaidFollowed'
      BY <3>0, <3>1, <3>3 DEF PaidFollowed
    <3> QED
      BY <3>5, <3>6
  <2>11. CASE VerifyPaidBooking(h)
    <3>0. k.pc = "paidBooking" /\ b \in Bookings /\ HandlerDone(h) /\ UNCHANGED <<payment, unusual>>
          /\ finance' = [finance EXCEPT ![b] = "fully_paid"]
      BY <2>0, <2>11 DEF VerifyPaidBooking, HandlerAt, WellFormed, OfBooking
    <3>1. handler'[h].pc = "idle" /\ \A g \in Handlers \ {h} : handler'[g] = handler[g]
      BY <3>0, DoneIs
    <3>2. finance'[b] = "fully_paid" /\ \A c \in Bookings \ {b} : finance'[c] = finance[c]
      BY <1>0, <3>0
    <3> SUFFICES ASSUME Orderly' PROVE CheckoutAlone' /\ PaidFollowed'
      BY DEF PaidInv
    <3>3. CheckoutAlone /\ PaidFollowed
      BY <2>0, <3>0 DEF Orderly
    <3>4. CheckoutAlone'
      BY <3>0, <3>1, <3>3 DEF CheckoutAlone, CheckoutSteps
    <3>5. PaidFollowed'
      BY <3>0, <3>1, <3>2, <3>3 DEF PaidFollowed
    <3> QED
      BY <3>4, <3>5
  <2>12. CASE RefundWrite(h)
    <3>0. k.pc = "refunded" /\ b \in Bookings /\ HandlerDone(h) /\ UNCHANGED <<finance, unusual>>
      BY <2>0, <2>12 DEF RefundWrite, HandlerAt, WellFormed, OfBooking
    <3>1. handler'[h].pc = "idle" /\ \A g \in Handlers \ {h} : handler'[g] = handler[g]
      BY <3>0, DoneIs
    <3>2. \A c \in Bookings : payment'[c].status = "paid" => payment[c].status = "paid"
      BY <1>0, <2>12, <3>0 DEF RefundWrite, PaymentRows
    <3> SUFFICES ASSUME Orderly' PROVE CheckoutAlone' /\ PaidFollowed'
      BY DEF PaidInv
    <3>3. CheckoutAlone /\ PaidFollowed
      BY <2>0, <3>0 DEF Orderly
    <3>4. CheckoutAlone'
      BY <1>0, <3>0, <3>1, <3>2, <3>3 DEF CheckoutAlone, CheckoutSteps, WellFormed, OfBooking
    <3>5. PaidFollowed'
      BY <3>0, <3>1, <3>2, <3>3 DEF PaidFollowed
    <3> QED
      BY <3>4, <3>5
  <2>13. CASE SettlementRow(h)
    BY <2>2, <2>13 DEF SettlementRow, HandlerAt
  <2>14. CASE LedgerLook(h)
    <3>1. k.pc = "look" /\ UNCHANGED <<payment, finance, unusual>> /\ k.key \in Keys
      BY <2>0, <2>14 DEF LedgerLook, HandlerAt, WellFormed
    <3>2. \E pc \in Steps \ CheckoutSteps : HandlerGoes(h, pc)
      BY <2>14, <3>1, AfterLedgerIs DEF LedgerLook, CheckoutSteps, Steps
    <3> QED
      BY <3>1, <3>2, GoesTo, PaidQuiet
  <2>15. CASE LedgerHeader(h)
    <3>1. k.pc = "header" /\ UNCHANGED <<payment, finance, unusual>>
      BY <2>15 DEF LedgerHeader, HandlerAt
    <3>2. CASE HandlerDone(h)
      BY <2>2, <3>1, <3>2
    <3>3. CASE HandlerGoes(h, "entries")
      BY <3>1, <3>3, GoesTo, PaidQuiet DEF Steps, CheckoutSteps
    <3> QED
      BY <2>15, <3>2, <3>3 DEF LedgerHeader
  <2>16. CASE LedgerEntry(h)
    <3>1. UNCHANGED <<payment, finance, unusual>>
      BY <2>16 DEF LedgerEntry
    <3>2. handler'[h].pc \notin CheckoutSteps
      BY <2>16, EntryRow, AfterLedgerIs DEF CheckoutSteps
    <3> QED
      BY <2>16, <3>1, <3>2, EntryRow, PaidQuiet
  <2> QED
    BY <1>3, <2>1, <2>3, <2>4, <2>5, <2>6, <2>7, <2>8, <2>9, <2>10, <2>11, <2>12, <2>13, <2>14,
       <2>15, <2>16 DEF Answered
<1>4. ASSUME NEW t \in MarketTokens, CustomerPays(t) PROVE PaidInv'
  BY <1>1, <1>4 DEF CustomerPays
<1> QED
  BY <1>1, <1>2, <1>3, <1>4 DEF MarketNext, marketVars

\* However verifications that fail and succeed overlap with each other and with
\* refunds, a paid payment ends with a fully paid booking, as long as nothing
\* stops and no checkout is among them.
THEOREM PaidMeansFullyPaid == MarketSpec => []PaidBookingAgrees
<1>1. PaidInv => PaidBookingAgrees
  BY DEF PaidInv, PaidBookingAgrees, Orderly, PaidFollowed, Silent, HandlerAt
<1> QED
  BY <1>1, Always, PaidInit, PaidStep, PTL DEF MarketSpec

-----------------------------------------------------------------------------
(* A paid payment has its transaction *)

LedgerSteps == {"look", "header", "entries", "paid", "paidBooking", "refunded"}
PayKey(b) == [kind |-> "pay", of |-> b]

\* What a handler on its way through the ledger knows: whose transaction it
\* posts, and that the payment it is about to mark has one.
Knows(row) ==
    /\ row.pc \in LedgerSteps => /\ row.key \in Keys
                                 /\ row.key.kind # "settle" => row.key.of = row.booking
    /\ row.pc \in {"paid", "paidBooking"} => row.key.kind = "pay" /\ row.key \in header
    /\ row.pc = "refunded" => row.key.kind = "refund"
    /\ row.pc \in LedgerSteps /\ row.key.kind = "refund" => PayKey(row.booking) \in header

\* ... and that the commission is part of the amount, of which no handler loses
\* track between its look at the payment and its update.
Priced(row) ==
    /\ row.pc = "verify" => /\ payment[row.booking].status # "none"
                            /\ row.amount = payment[row.booking].amount
    /\ row.pc \in LedgerSteps /\ row.key.kind = "pay" =>
          /\ payment[row.booking].status # "none"
          /\ row.commission <= payment[row.booking].amount

Accounted ==
    /\ \A b \in Bookings : payment[b].status \in {"paid", "refunded"} => PayKey(b) \in header
    /\ \A b \in Bookings : payment[b].commission <= payment[b].amount
    /\ \A h \in Handlers : Knows(handler[h]) /\ Priced(handler[h])

LEMMA AccountedInit == MarketInit => Accounted
BY IdleWellFormed DEF MarketInit, Accounted, Knows, Priced, NoPaymentRow, LedgerSteps

\* The payments as they may change under the other handlers.
PaymentsGoOn ==
    /\ payment' \in [Bookings -> PaymentRows] /\ header \subseteq header'
    /\ \A b \in Bookings : /\ payment[b].status # "none" => /\ payment'[b].status # "none"
                                                          /\ payment'[b].amount = payment[b].amount
                           /\ payment'[b].status \in {"paid", "refunded"} => PayKey(b) \in header'
                           /\ payment'[b].commission <= payment'[b].amount

LEMMA AccountedMove ==
    ASSUME MarketInv, Accounted, NEW h \in Handlers, PaymentsGoOn,
           \A g \in Handlers \ {h} : handler'[g] = handler[g],
           Knows(handler[h])', Priced(handler[h])'
    PROVE  Accounted'
<1>1. ASSUME NEW g \in Handlers \ {h} PROVE Knows(handler[g])' /\ Priced(handler[g])'
  <2> DEFINE k == handler[g]
  <2>0. handler'[g] = k /\ k \in HandlerRows /\ WellFormed(k) /\ Knows(k) /\ Priced(k)
    BY DEF MarketInv, Accounted
  <2>1. Knows(handler[g])'
    BY <2>0 DEF Knows, PaymentsGoOn
  <2>2. k.pc = "verify" => k.booking \in Bookings
    BY <2>0 DEF WellFormed, OfBooking
  <2>3. k.pc \in LedgerSteps /\ k.key.kind = "pay" => k.booking \in Bookings
    BY <2>0 DEF WellFormed, OfBooking, LedgerSteps
  <2>4. Priced(handler[g])'
    BY <2>0, <2>2, <2>3 DEF Priced, PaymentsGoOn
  <2> QED
    BY <2>1, <2>4
<1>2. \A g \in Handlers : Knows(handler[g])' /\ Priced(handler[g])'
  BY <1>1
<1> QED
  BY <1>2 DEF Accounted, PaymentsGoOn

LEMMA PaymentsStay ==
    ASSUME MarketInv, Accounted, UNCHANGED payment, header \subseteq header'
    PROVE  PaymentsGoOn
BY DEF MarketInv, Tables, Accounted, PaymentsGoOn

\* One payment changes, and what it says is in the ledger.
LEMMA PaymentChanges ==
    ASSUME MarketInv, Accounted, NEW b \in Bookings, NEW row \in PaymentRows,
           payment' = [payment EXCEPT ![b] = row], UNCHANGED header,
           payment[b].status # "none" => row.status # "none" /\ row.amount = payment[b].amount,
           row.status \in {"paid", "refunded"} => PayKey(b) \in header,
           row.commission <= row.amount
    PROVE  PaymentsGoOn
BY DEF MarketInv, Tables, Accounted, PaymentsGoOn

LEMMA AccountedStep == MarketInv /\ Accounted /\ [MarketNext]_marketVars => Accounted'
<1> SUFFICES ASSUME MarketInv, Accounted, [MarketNext]_marketVars PROVE Accounted'
  OBVIOUS
<1>0. /\ payment \in [Bookings -> PaymentRows] /\ header \subseteq Keys
      /\ \A h \in Handlers : WellFormed(handler[h]) /\ handler[h] \in HandlerRows
                             /\ Knows(handler[h]) /\ Priced(handler[h])
  BY DEF MarketInv, Tables, Accounted
<1>1. CASE UNCHANGED <<payment, handler, header>>
  BY <1>1 DEF Accounted, Knows, Priced
\* A handler that does nothing to the ledger's rows.
<1>2. ASSUME NEW h \in Handlers, UNCHANGED payment, header \subseteq header',
             \A g \in Handlers \ {h} : handler'[g] = handler[g],
             handler'[h].pc \notin LedgerSteps \cup {"verify"}
      PROVE  Accounted'
  BY <1>2, PaymentsStay, AccountedMove DEF Knows, Priced, LedgerSteps
<1>3. ASSUME NEW h \in Handlers, Arrives(h) PROVE Accounted'
  <2>0. UNCHANGED <<payment, header>>
    BY <1>3 DEF Arrives, Checkout, Verify, Refund, RequestSettlement
  <2>1. ASSUME NEW row, NEW what, Handle(h, row, what)
        PROVE  handler'[h] = row /\ \A g \in Handlers \ {h} : handler'[g] = handler[g]
    BY <2>1, RowAfter DEF Handle
  <2>2. ASSUME NEW b \in Bookings, Checkout(h, b) PROVE Accounted'
    <3> DEFINE row == [IdleHandler EXCEPT !.booking = b, !.amount = price,
                         !.pc = IF payment[b].status = "none" THEN "insert" ELSE "create"]
    <3>1. Handle(h, row, {"checkout"}) /\ row.pc \in {"insert", "create"}
      BY <2>2 DEF Checkout, IdleHandler
    <3> HIDE DEF row
    <3> QED
      BY <1>2, <2>0, <2>1, <3>1 DEF LedgerSteps
  <2>3. ASSUME NEW b \in Bookings, Verify(h, b) PROVE Accounted'
    <3> DEFINE row == [IdleHandler EXCEPT !.pc = "verify", !.booking = b, !.token = payment[b].token,
                                          !.amount = payment[b].amount]
    <3>1. Handle(h, row, {}) /\ row.pc = "verify" /\ row.booking = b /\ row.amount = payment[b].amount
          /\ payment[b].status # "none"
      BY <2>3 DEF Verify, IdleHandler
    <3> HIDE DEF row
    <3>2. handler'[h] = row /\ \A g \in Handlers \ {h} : handler'[g] = handler[g]
      BY <2>1, <3>1
    <3>3. Knows(handler[h])' /\ Priced(handler[h])'
      BY <2>0, <3>1, <3>2 DEF Knows, Priced, LedgerSteps
    <3> QED
      BY <2>0, <3>2, <3>3, PaymentsStay, AccountedMove
  <2>4. ASSUME NEW b \in Bookings, Refund(h, b) PROVE Accounted'
    <3> DEFINE todo == RefundEntries(payment[b].amount, payment[b].commission)
               key == [kind |-> "refund", of |-> b]
               row == [IdleHandler EXCEPT !.pc = "look", !.booking = b, !.key = key, !.todo = todo]
    <3>1. Handle(h, row, {}) /\ payment[b].status = "paid"
      BY <2>4 DEF Refund
    <3>2. row.pc = "look" /\ row.booking = b /\ row.key = key
      BY DEF IdleHandler
    <3>3. key.kind = "refund" /\ key.of = b /\ key \in Keys
      BY DEF Keys
    <3> HIDE DEF row, key
    <3>4. handler'[h] = row /\ \A g \in Handlers \ {h} : handler'[g] = handler[g]
      BY <2>1, <3>1
    <3>5. Knows(handler[h])' /\ Priced(handler[h])'
      BY <2>0, <3>1, <3>2, <3>3, <3>4 DEF Knows, Priced, LedgerSteps, Accounted
    <3> QED
      BY <2>0, <3>4, <3>5, PaymentsStay, AccountedMove
  <2>5. ASSUME NEW s \in Settlements, NEW n \in 1..(PayableCredit + 1), RequestSettlement(h, s, n)
        PROVE  Accounted'
    <3> DEFINE key == [kind |-> "settle", of |-> s]
               row == [IdleHandler EXCEPT !.pc = "look", !.key = key, !.todo = ReserveEntries(n)]
    <3>1. Handle(h, row, {})
      BY <2>5 DEF RequestSettlement
    <3>2. row.pc = "look" /\ row.key = key
      BY DEF IdleHandler
    <3>3. key.kind = "settle" /\ key \in Keys
      BY DEF Keys
    <3> HIDE DEF row, key
    <3>4. handler'[h] = row /\ \A g \in Handlers \ {h} : handler'[g] = handler[g]
      BY <2>1, <3>1
    <3>5. Knows(handler[h])' /\ Priced(handler[h])'
      BY <3>2, <3>3, <3>4 DEF Knows, Priced, LedgerSteps
    <3> QED
      BY <2>0, <3>4, <3>5, PaymentsStay, AccountedMove
  <2> QED
    BY <1>3, <2>2, <2>3, <2>4, <2>5 DEF Arrives
<1>4. ASSUME NEW h \in Handlers, Answered(h) PROVE Accounted'
  <2> DEFINE k == handler[h]
             b == k.booking
  <2>0. k \in HandlerRows /\ WellFormed(k) /\ Knows(k) /\ Priced(k)
    BY <1>0
  <2>1. CASE HandlerDone(h) /\ UNCHANGED <<payment, header>>
    BY <1>2, <2>1, DoneIs DEF LedgerSteps
  \* The handlers that write a payment.
  <2>2. ASSUME b \in Bookings, NEW row \in PaymentRows, payment' = [payment EXCEPT ![b] = row],
               UNCHANGED header,
               payment[b].status # "none" => row.status # "none" /\ row.amount = payment[b].amount,
               row.status \in {"paid", "refunded"} => PayKey(b) \in header,
               row.commission <= row.amount,
               \A g \in Handlers \ {h} : handler'[g] = handler[g],
               handler'[h].pc \notin (LedgerSteps \ {"paidBooking"}) \cup {"verify"},
               handler'[h].pc = "paidBooking" =>
                  k.pc = "paid" /\ handler'[h].booking = b /\ handler'[h].key = k.key
                  /\ handler'[h].commission = k.commission
        PROVE  Accounted'
    <3>1. PaymentsGoOn
      BY <2>2, PaymentChanges
    <3>2. Knows(handler[h])' /\ Priced(handler[h])'
      BY <2>0, <2>2, <3>1 DEF Knows, Priced, LedgerSteps, PaymentsGoOn
    <3> QED
      BY <2>2, <3>1, <3>2, AccountedMove
  <2>3. CASE CheckoutInsert(h)
    <3>1. CASE payment[b].status = "none"
      <4> DEFINE row == [NoPaymentRow EXCEPT !.status = "created", !.amount = k.amount]
      <4>1. /\ b \in Bookings /\ payment' = [payment EXCEPT ![b] = row] /\ UNCHANGED header
            /\ HandlerGoes(h, "create")
        BY <2>0, <2>3, <3>1 DEF CheckoutInsert, HandlerAt, WellFormed, OfBooking
      <4>2. k.amount \in Nat
        BY <2>0 DEF HandlerRows
      <4>3. row \in PaymentRows /\ row.status = "created" /\ row.commission = 0 /\ row.amount = k.amount
        <5>1. 0 \in 0..MaxOpened
          BY MarketAssumption
        <5> HIDE DEF k
        <5> QED
          BY <4>2, <5>1 DEF NoPaymentRow, PaymentRows
      <4>4. handler'[h].pc = "create" /\ \A g \in Handlers \ {h} : handler'[g] = handler[g]
        BY <4>1, GoesTo DEF Steps
      <4>5. \A n \in Nat : 0 <= n
        OBVIOUS
      <4>6. row.commission <= row.amount
        BY <4>2, <4>3, <4>5
      <4> HIDE DEF row, b
      <4> QED
        BY <2>2, <3>1, <4>1, <4>3, <4>4, <4>6 DEF LedgerSteps
    <3>2. CASE payment[b].status # "none"
      BY <2>1, <2>3, <3>2 DEF CheckoutInsert
    <3> QED
      BY <3>1, <3>2
  <2>4. CASE CheckoutCreate(h)
    <3>1. PICK t \in MarketTokens : HandlerBecomes(h, [k EXCEPT !.pc = "redirect", !.token = t])
      BY <2>4 DEF CheckoutCreate
    <3> DEFINE row == [k EXCEPT !.pc = "redirect", !.token = t]
    <3>2. row.pc = "redirect" /\ HandlerBecomes(h, row)
      BY <2>0, <3>1 DEF HandlerRows
    <3> HIDE DEF row
    <3> QED
      BY <1>2, <2>4, <3>2, RowAfter DEF CheckoutCreate, LedgerSteps
  <2>5. CASE CheckoutRedirect(h)
    <3> DEFINE row == [payment[b] EXCEPT !.status = "redirected", !.token = k.token]
    <3>1. b \in Bookings /\ UNCHANGED header /\ HandlerGoes(h, "await")
      BY <2>0, <2>5 DEF CheckoutRedirect, HandlerAt, WellFormed, OfBooking
    <3>2. payment[b] \in PaymentRows /\ k.token \in 0..MaxOpened /\ payment[b].commission <= payment[b].amount
      BY <1>0, <2>0, <3>1 DEF HandlerRows, Accounted
    <3>3. /\ row \in PaymentRows /\ row.status = "redirected"
          /\ row.commission = payment[b].commission /\ row.amount = payment[b].amount
      BY <3>2 DEF PaymentRows
    <3>4. payment' = [payment EXCEPT ![b] = row]
      BY <1>0, <2>5, <3>1 DEF CheckoutRedirect
    <3>5. handler'[h].pc = "await" /\ \A g \in Handlers \ {h} : handler'[g] = handler[g]
      BY <3>1, GoesTo DEF Steps
    <3> HIDE DEF row
    <3> QED
      BY <2>2, <3>1, <3>2, <3>3, <3>4, <3>5 DEF LedgerSteps
  <2>6. CASE CheckoutAwait(h) \/ VerifyFailBooking(h) \/ VerifyPaidBooking(h) \/ SettlementRow(h) \/ HandlerStops(h)
    BY <2>1, <2>6 DEF CheckoutAwait, VerifyFailBooking, VerifyPaidBooking, SettlementRow, HandlerStops
  <2>7. CASE VerifyAnswer(h)
    <3>1. k.pc = "verify" /\ UNCHANGED <<payment, header>> /\ b \in Bookings
      BY <2>0, <2>7 DEF VerifyAnswer, HandlerAt, WellFormed, OfBooking
    <3>2. CASE HandlerGoes(h, "fail")
      BY <1>2, <3>1, <3>2, GoesTo DEF Steps, LedgerSteps
    <3>3. CASE ~HandlerGoes(h, "fail")
      <4> DEFINE key == [kind |-> "pay", of |-> b]
                 c == Commission(k.amount)
                 todo == PaymentEntries(k.amount, c)
                 row == [k EXCEPT !.pc = "look", !.key = key, !.todo = todo, !.commission = c]
      <4>1. HandlerBecomes(h, row)
        BY <2>7, <3>3 DEF VerifyAnswer
      <4>2. row.pc = "look" /\ row.key = key /\ row.booking = b /\ row.commission = c
        BY <2>0 DEF HandlerRows
      <4>3. key \in Keys /\ key.kind = "pay" /\ key.of = b
        BY <3>1 DEF Keys
      <4>4. c <= payment[b].amount /\ payment[b].status # "none"
        <5>1. k.amount = payment[b].amount /\ k.amount \in Nat /\ payment[b].status # "none"
          BY <2>0, <3>1 DEF Priced, HandlerRows
        <5> QED
          BY <5>1, CommissionType
      <4> HIDE DEF row, key, c
      <4>5. handler'[h] = row /\ \A g \in Handlers \ {h} : handler'[g] = handler[g]
        BY <4>1, RowAfter
      <4>6. Knows(handler[h])' /\ Priced(handler[h])'
        BY <3>1, <4>2, <4>3, <4>4, <4>5 DEF Knows, Priced, LedgerSteps
      <4> QED
        BY <3>1, <4>5, <4>6, PaymentsStay, AccountedMove
    <3> QED
      BY <3>2, <3>3
  <2>8. CASE VerifyFail(h)
    <3> DEFINE row == [payment[b] EXCEPT !.status = IF @ = "paid" THEN @ ELSE "failed"]
    <3>1. b \in Bookings /\ UNCHANGED header /\ HandlerGoes(h, "failBooking")
      BY <2>0, <2>8 DEF VerifyFail, HandlerAt, WellFormed, OfBooking
    <3>2. payment[b] \in PaymentRows /\ payment[b].commission <= payment[b].amount
          /\ (payment[b].status = "paid" => PayKey(b) \in header)
      BY <1>0, <3>1 DEF Accounted
    <3>3. /\ row \in PaymentRows /\ (row.status = "failed" \/ (row.status = "paid" /\ payment[b].status = "paid"))
          /\ row.commission = payment[b].commission /\ row.amount = payment[b].amount
      <4>1. CASE payment[b].status = "paid"
        <5>1. row = [payment[b] EXCEPT !.status = "paid"]
          BY <4>1
        <5> HIDE DEF row
        <5> QED
          BY <3>2, <4>1, <5>1 DEF PaymentRows
      <4>2. CASE payment[b].status # "paid"
        <5>1. row = [payment[b] EXCEPT !.status = "failed"]
          BY <4>2
        <5> HIDE DEF row
        <5> QED
          BY <3>2, <4>2, <5>1 DEF PaymentRows
      <4> QED
        BY <4>1, <4>2
    <3>4. payment' = [payment EXCEPT ![b] = row]
      BY <2>8 DEF VerifyFail
    <3>5. handler'[h].pc = "failBooking" /\ \A g \in Handlers \ {h} : handler'[g] = handler[g]
      BY <3>1, GoesTo DEF Steps
    <3> HIDE DEF row
    <3> QED
      BY <2>2, <3>1, <3>2, <3>3, <3>4, <3>5 DEF LedgerSteps
  <2>9. CASE VerifyPaid(h)
    <3> DEFINE row == [payment[b] EXCEPT !.status = "paid", !.commission = k.commission]
    <3>1. b \in Bookings /\ UNCHANGED header /\ HandlerGoes(h, "paidBooking") /\ k.pc = "paid"
      BY <2>0, <2>9 DEF VerifyPaid, HandlerAt, WellFormed, OfBooking
    <3>2. payment[b] \in PaymentRows /\ k.commission \in Nat
      BY <1>0, <2>0, <3>1 DEF HandlerRows
    <3>3. /\ row \in PaymentRows /\ row.status = "paid"
          /\ row.commission = k.commission /\ row.amount = payment[b].amount
      BY <3>2 DEF PaymentRows
    <3>4. payment' = [payment EXCEPT ![b] = row]
      BY <1>0, <2>9, <3>1 DEF VerifyPaid
    <3>5. /\ handler'[h].pc = "paidBooking" /\ handler'[h].booking = b /\ handler'[h].key = k.key
          /\ handler'[h].commission = k.commission
          /\ \A g \in Handlers \ {h} : handler'[g] = handler[g]
      BY <3>1, GoesTo DEF Steps
    <3>6. k.key \in Keys /\ k.key.kind = "pay" /\ k.key.of = b /\ k.key \in header
      BY <2>0, <3>1 DEF Knows, LedgerSteps
    <3>7. k.key = PayKey(b)
      BY <3>6 DEF Keys, PayKey
    <3>8. k.commission <= payment[b].amount
      BY <2>0, <3>1, <3>6 DEF Priced, LedgerSteps
    <3> HIDE DEF row
    <3> QED
      BY <2>2, <3>1, <3>2, <3>3, <3>4, <3>5, <3>6, <3>7, <3>8 DEF LedgerSteps
  <2>10. CASE RefundWrite(h)
    <3> DEFINE row == [payment[b] EXCEPT !.status = "refunded"]
    <3>1. b \in Bookings /\ UNCHANGED header /\ HandlerDone(h) /\ k.pc = "refunded"
      BY <2>0, <2>10 DEF RefundWrite, HandlerAt, WellFormed, OfBooking
    <3>2. payment[b] \in PaymentRows /\ payment[b].commission <= payment[b].amount
      BY <1>0, <3>1 DEF Accounted
    <3>3. /\ row \in PaymentRows /\ row.status = "refunded"
          /\ row.commission = payment[b].commission /\ row.amount = payment[b].amount
      BY <3>2 DEF PaymentRows
    <3>4. payment' = [payment EXCEPT ![b] = row]
      BY <2>10 DEF RefundWrite
    <3>5. handler'[h].pc = "idle" /\ \A g \in Handlers \ {h} : handler'[g] = handler[g]
      BY <3>1, DoneIs
    <3>6. PayKey(b) \in header
      BY <2>0, <3>1 DEF Knows, LedgerSteps
    <3> HIDE DEF row
    <3> QED
      BY <2>2, <3>1, <3>2, <3>3, <3>4, <3>5, <3>6 DEF LedgerSteps
  <2>11. ASSUME k.pc \in {"look", "header", "entries"}, UNCHANGED payment, header \subseteq header',
                \A g \in Handlers \ {h} : handler'[g] = handler[g],
                handler'[h].booking = b, handler'[h].key = k.key, handler'[h].commission = k.commission,
                \/ handler'[h].pc \in {"header", "entries"}
                \/ handler'[h].pc = AfterLedger(k.key) /\ k.key \in header
         PROVE  Accounted'
    <3>1. k.key \in Keys /\ (k.key.kind # "settle" => k.key.of = b)
          /\ (k.key.kind = "refund" => PayKey(b) \in header)
          /\ (k.key.kind = "pay" => payment[b].status # "none" /\ k.commission <= payment[b].amount)
      BY <2>0, <2>11 DEF Knows, Priced, LedgerSteps
    <3>2. Knows(handler[h])' /\ Priced(handler[h])'
      BY <2>11, <3>1, AfterLedgerIs DEF Knows, Priced, LedgerSteps
    <3> QED
      BY <2>11, <3>2, PaymentsStay, AccountedMove
  <2>12. CASE LedgerLook(h)
    <3>1. k.pc = "look" /\ UNCHANGED <<payment, header>> /\ k.key \in Keys
      BY <2>0, <2>12 DEF LedgerLook, HandlerAt, WellFormed
    <3>2. CASE k.key \in header
      <4>1. HandlerGoes(h, AfterLedger(k.key)) /\ AfterLedger(k.key) \in Steps
        BY <2>12, <3>1, <3>2, AfterLedgerIs DEF LedgerLook
      <4> QED
        BY <2>11, <3>1, <3>2, <4>1, GoesTo
    <3>3. CASE k.key \notin header
      <4>1. HandlerGoes(h, "header") /\ "header" \in Steps
        BY <2>12, <3>3 DEF LedgerLook, Steps
      <4> QED
        BY <2>11, <3>1, <4>1, GoesTo
    <3> QED
      BY <3>2, <3>3
  <2>13. CASE LedgerHeader(h)
    <3>1. CASE RefusesKey(k.key)
      BY <2>1, <2>13, <3>1 DEF LedgerHeader
    <3>2. CASE ~RefusesKey(k.key)
      <4>1. HandlerGoes(h, "entries") /\ "entries" \in Steps /\ UNCHANGED payment
            /\ header \subseteq header' /\ k.pc = "header"
        BY <2>13, <3>2 DEF LedgerHeader, Steps, HandlerAt
      <4> QED
        BY <2>11, <4>1, GoesTo
    <3> QED
      BY <3>1, <3>2
  <2>14. CASE LedgerEntry(h)
    <3>1. UNCHANGED <<payment, header>>
      BY <2>14 DEF LedgerEntry
    <3>2. k.key \in header
      <4>1. k.pc = "entries" /\ k.key \in Keys
        BY <2>14, EntryRow
      <4> QED
        BY <4>1 DEF MarketInv, PostedOnce, Posting, HandlerAt
    <3> QED
      BY <2>11, <2>14, <3>1, <3>2, EntryRow
  <2> QED
    BY <1>4, <2>3, <2>4, <2>5, <2>6, <2>7, <2>8, <2>9, <2>10, <2>12, <2>13, <2>14 DEF Answered
<1>5. ASSUME NEW t \in MarketTokens, CustomerPays(t) PROVE Accounted'
  BY <1>1, <1>5 DEF CustomerPays
<1> QED
  BY <1>1, <1>3, <1>4, <1>5 DEF MarketNext, marketVars

-----------------------------------------------------------------------------
(* Sums over the ledger *)

LEMMA PlainSum == ASSUME NEW f, NEW S PROVE Sum(f, S) = SumOn(f, S)
BY DEF Sum, SumOn

\* The keys are finitely many.
LEMMA FewKeys == IsFiniteSet(Keys)
<1> DEFINE ofPay == [b \in Bookings |-> [kind |-> "pay", of |-> b]]
           ofRefund == [b \in Bookings |-> [kind |-> "refund", of |-> b]]
           ofSettle == [s \in Settlements |-> [kind |-> "settle", of |-> s]]
           A == {ofPay[b] : b \in Bookings}
           B == {ofRefund[b] : b \in Bookings}
           C == {ofSettle[s] : s \in Settlements}
<1>1. IsFiniteSet(A) /\ IsFiniteSet(B) /\ IsFiniteSet(C)
  <2>1. \A S, f : IsFiniteSet(S) => IsFiniteSet({f[x] : x \in S})
    <3> SUFFICES ASSUME NEW S, NEW f, IsFiniteSet(S) PROVE IsFiniteSet({f[x] : x \in S})
      OBVIOUS
    <3> DEFINE g == [x \in S |-> f[x]]
               T == {f[x] : x \in S}
    <3>1. g \in Surjection(S, T)
      BY DEF Surjection
    <3> HIDE DEF g, T
    <3>2. IsFiniteSet(T)
      BY <3>1, FS_Surjection
    <3> QED
      BY <3>2 DEF T
  <2> QED
    BY <2>1, MarketAssumption
<1>2. IsFiniteSet((A \cup B) \cup C)
  BY <1>1, FS_Union
<1>3. Keys \subseteq (A \cup B) \cup C
  <2> SUFFICES ASSUME NEW k \in Keys PROVE k \in (A \cup B) \cup C
    OBVIOUS
  <2>1. \/ \E b \in Bookings : k = ofPay[b] \/ k = ofRefund[b]
        \/ \E s \in Settlements : k = ofSettle[s]
    BY DEF Keys
  <2> HIDE DEF ofPay, ofRefund, ofSettle
  <2> QED
    BY <2>1
<1> HIDE DEF A, B, C
<1> QED
  BY <1>2, <1>3, FS_Subset

\* The totals of a sequence of entries are numbers, and only the entries count.
LEMMA TotalsOf ==
    ASSUME NEW s \in Seq(Sides), NEW I \in SUBSET DOMAIN s
    PROVE  /\ IsFiniteSet(I) /\ Len(s) + 1 \notin I
           /\ \A i \in I : s[i] \in Sides
           /\ DebitOf(s, I) \in Nat /\ CreditOf(s, I) \in Nat
<1>1. DOMAIN s = 1..Len(s) /\ Len(s) \in Nat /\ \A i \in I : s[i] \in Sides
  BY LenProperties, ElementOfSeq
<1>2. IsFiniteSet(I)
  <2>1. IsFiniteSet(1..Len(s))
    BY <1>1, FS_Interval
  <2> QED
    BY <1>1, <2>1, FS_Subset
<1>0. Len(s) + 1 \notin I
  BY <1>1
<1> DEFINE d == [i \in I |-> s[i].debit]
           c == [i \in I |-> s[i].credit]
<1>3. \A i \in I : d[i] \in Nat /\ c[i] \in Nat
  BY <1>1 DEF Sides
<1>4. DebitOf(s, I) = SumOn(d, I) /\ CreditOf(s, I) = SumOn(c, I)
  BY PlainSum DEF DebitOf, CreditOf
<1> HIDE DEF d, c
<1> QED
  BY <1>0, <1>1, <1>2, <1>3, <1>4, SumType

LEMMA TotalsOfNothing ==
    ASSUME NEW s
    PROVE  DebitOf(s, {}) = 0 /\ CreditOf(s, {}) = 0
BY PlainSum, SumEmpty DEF DebitOf, CreditOf

\* One more entry.
LEMMA TotalsAdd ==
    ASSUME NEW s \in Seq(Sides), NEW e \in Sides, NEW I \in SUBSET DOMAIN s
    PROVE  LET t == Append(s, e)
               J == I \cup {Len(s) + 1} IN
           /\ DebitOf(t, I) = DebitOf(s, I) /\ CreditOf(t, I) = CreditOf(s, I)
           /\ DebitOf(t, J) = e.debit + DebitOf(s, I)
           /\ CreditOf(t, J) = e.credit + CreditOf(s, I)
<1> DEFINE t == Append(s, e)
           n == Len(s) + 1
           J == I \cup {n}
           d == [i \in I |-> s[i].debit]
           c == [i \in I |-> s[i].credit]
           dt == [i \in I |-> t[i].debit]
           ct == [i \in I |-> t[i].credit]
           dj == [i \in J |-> t[i].debit]
           cj == [i \in J |-> t[i].credit]
<1>1. IsFiniteSet(I) /\ n \notin I /\ \A i \in I : s[i] \in Sides
  BY TotalsOf
<1>2. t[n] = e /\ \A i \in I : t[i] = s[i]
  <2>1. Len(s) \in Nat /\ DOMAIN s = 1..Len(s)
    BY LenProperties
  <2> QED
    BY <2>1, AppendProperties
<1>3. \A i \in I : d[i] \in Nat /\ c[i] \in Nat /\ d[i] = dt[i] /\ c[i] = ct[i] /\ d[i] = dj[i] /\ c[i] = cj[i]
  BY <1>1, <1>2 DEF Sides
<1>4. dj[n] = e.debit /\ cj[n] = e.credit /\ e.debit \in Nat /\ e.credit \in Nat
  BY <1>2 DEF Sides
<1>5. /\ DebitOf(s, I) = SumOn(d, I) /\ CreditOf(s, I) = SumOn(c, I)
      /\ DebitOf(t, I) = SumOn(dt, I) /\ CreditOf(t, I) = SumOn(ct, I)
      /\ DebitOf(t, J) = SumOn(dj, J) /\ CreditOf(t, J) = SumOn(cj, J)
  BY PlainSum DEF DebitOf, CreditOf
<1> HIDE DEF t, n, d, c, dt, ct, dj, cj
<1>6. /\ SumOn(d, I) = SumOn(dt, I) /\ SumOn(c, I) = SumOn(ct, I)
      /\ SumOn(d, I) = SumOn(dj, I) /\ SumOn(c, I) = SumOn(cj, I)
  BY <1>1, <1>3, SumSame
<1>7. SumOn(dj, J) = dj[n] + SumOn(dj, I) /\ SumOn(cj, J) = cj[n] + SumOn(cj, I)
  <2>1. \A y \in I \cup {n} : dj[y] \in Nat /\ cj[y] \in Nat
    BY <1>3, <1>4
  <2> QED
    BY <1>1, <2>1, SumAdd
<1> QED
  BY <1>4, <1>5, <1>6, <1>7 DEF t, n

\* What a sequence of entries adds up to, on the one side and on the other.
Totals(s, d, c) ==
    s \in Seq(Sides) /\ DebitOf(s, DOMAIN s) = d /\ CreditOf(s, DOMAIN s) = c

LEMMA TotalsAppend ==
    ASSUME NEW s, NEW d, NEW c, Totals(s, d, c), NEW e \in Sides
    PROVE  Totals(Append(s, e), e.debit + d, e.credit + c)
<1>1. s \in Seq(Sides) /\ DOMAIN s \in SUBSET DOMAIN s
  BY DEF Totals
<1>2. DOMAIN Append(s, e) = DOMAIN s \cup {Len(s) + 1} /\ Append(s, e) \in Seq(Sides)
  <2>1. Len(s) \in Nat /\ DOMAIN s = 1..Len(s)
    BY <1>1, LenProperties
  <2> QED
    BY <1>1, <2>1, AppendProperties
<1> QED
  BY <1>1, <1>2, TotalsAdd DEF Totals

LEMMA TotalsOfOne ==
    ASSUME NEW e \in Sides
    PROVE  Totals(<<e>>, e.debit, e.credit)
<1>1. Totals(<<>>, 0, 0)
  <2>1. <<>> \in Seq(Sides) /\ DOMAIN <<>> = {}
    BY EmptySeq
  <2> QED
    BY <2>1, TotalsOfNothing DEF Totals
<1>2. Append(<<>>, e) = <<e>> /\ e.debit + 0 = e.debit /\ e.credit + 0 = e.credit
  BY DEF Sides
<1> QED
  BY <1>1, <1>2, TotalsAppend

LEMMA TotalsJoin ==
    ASSUME NEW s \in Seq(Sides)
    PROVE  s \o <<>> = s /\ <<>> \o s = s /\ \A e \in Sides : s \o <<e>> = Append(s, e)
OBVIOUS

\* An entry of nothing adds nothing.
LEMMA TotalsIf ==
    ASSUME NEW s, NEW d \in Nat, NEW c \in Nat, Totals(s, d, c), NEW n \in Nat, NEW a \in Accounts
    PROVE  /\ Totals(s \o If(n, Debit(a, n)), n + d, c)
           /\ Totals(s \o If(n, Credit(a, n)), d, n + c)
<1>1. s \in Seq(Sides) /\ Debit(a, n) \in Sides /\ Credit(a, n) \in Sides
  BY SideType DEF Totals
<1>2. CASE n = 0
  BY <1>1, <1>2, TotalsJoin DEF If
<1>3. CASE n # 0
  <2>1. /\ s \o If(n, Debit(a, n)) = Append(s, Debit(a, n))
        /\ s \o If(n, Credit(a, n)) = Append(s, Credit(a, n))
    BY <1>1, <1>3, TotalsJoin DEF If
  <2>2. /\ Totals(Append(s, Debit(a, n)), Debit(a, n).debit + d, Debit(a, n).credit + c)
        /\ Totals(Append(s, Credit(a, n)), Credit(a, n).debit + d, Credit(a, n).credit + c)
    BY <1>1, TotalsAppend
  <2>3. /\ Debit(a, n).debit = n /\ Debit(a, n).credit + c = c
        /\ Credit(a, n).debit + d = d /\ Credit(a, n).credit = n
    BY DEF Debit, Credit
  <2> QED
    BY <2>1, <2>2, <2>3
<1> QED
  BY <1>2, <1>3

\* A payment, its refund and a reserve are balanced, whatever is asked of the
\* commission but that it is a part of the price.
LEMMA EntriesBalanced ==
    /\ \A gross, commission \in Nat : commission <= gross =>
          Balanced(PaymentEntries(gross, commission)) /\ Balanced(RefundEntries(gross, commission))
    /\ \A amount \in Nat : Balanced(ReserveEntries(amount))
<1>0. /\ \A a \in Accounts, n \in Nat : /\ Debit(a, n) \in Sides /\ Credit(a, n) \in Sides
                                        /\ Debit(a, n).debit = n /\ Debit(a, n).credit = 0
                                        /\ Credit(a, n).debit = 0 /\ Credit(a, n).credit = n
      /\ {"customer_clearing", "business_payable", "platform_commission",
          "refund_liability", "settlement_clearing"} \subseteq Accounts
  BY SideType DEF Debit, Credit, Accounts
<1>1. ASSUME NEW gross \in Nat, NEW commission \in Nat, commission <= gross
      PROVE  Balanced(PaymentEntries(gross, commission)) /\ Balanced(RefundEntries(gross, commission))
  <2> DEFINE net == gross - commission
             first == <<Debit("customer_clearing", gross)>>
             a == If(net, Credit("business_payable", net))
             b == If(commission, Credit("platform_commission", commission))
             c == If(net, Debit("business_payable", net))
             d == If(commission, Debit("platform_commission", commission))
             last == Credit("refund_liability", gross)
  <2>0. net \in Nat /\ net + commission = gross /\ commission + net = gross
    BY <1>1
  <2>1. PaymentEntries(gross, commission) = first \o a \o b
    BY DEF PaymentEntries
  <2>2. RefundEntries(gross, commission) = c \o d \o <<last>>
    BY DEF RefundEntries
  <2>3. Totals(first, gross, 0) /\ 0 \in Nat
    BY <1>0, TotalsOfOne
  <2>4. Totals(first \o a, gross, net) /\ net + 0 = net
    <3>1. Totals(first \o a, gross, net + 0)
      BY <1>0, <2>0, <2>3, TotalsIf
    <3> QED
      BY <2>0, <3>1
  <2>5. Totals(first \o a \o b, gross, gross)
    <3>1. Totals(first \o a \o b, gross, commission + net)
      <4> HIDE DEF first, a, net
      <4> QED
        BY <1>0, <2>0, <2>4, TotalsIf
    <3> QED
      BY <2>0, <3>1
  <2>6. Totals(<<>>, 0, 0)
    BY EmptySeq, TotalsOfNothing DEF Totals
  <2>7. Totals(c, net, 0)
    <3>1. Totals(<<>> \o c, net + 0, 0)
      BY <1>0, <2>0, <2>3, <2>6, TotalsIf
    <3>2. c \in Seq(Sides)
      BY <1>0, <2>0, IfType
    <3> HIDE DEF c
    <3> QED
      BY <2>0, <3>1, <3>2, TotalsJoin
  <2>8. Totals(c \o d, gross, 0)
    <3>1. Totals(c \o d, commission + net, 0)
      <4> HIDE DEF c, net
      <4> QED
        BY <1>0, <2>0, <2>3, <2>7, TotalsIf
    <3> QED
      BY <2>0, <3>1
  <2>9. Totals(c \o d \o <<last>>, gross, gross)
    <3>1. last \in Sides /\ last.debit + gross = gross /\ last.credit + 0 = gross
      BY <1>0
    <3> HIDE DEF c, d, last
    <3>2. Totals(Append(c \o d, last), last.debit + gross, last.credit + 0)
      BY <2>8, <3>1, TotalsAppend
    <3> QED
      BY <2>8, <3>1, <3>2, TotalsJoin DEF Totals
  <2> HIDE DEF first, a, b, c, d, last
  <2> QED
    BY <2>1, <2>2, <2>5, <2>9 DEF Totals, Balanced
<1>2. ASSUME NEW amount \in Nat PROVE Balanced(ReserveEntries(amount))
  <2> DEFINE x == Debit("business_payable", amount)
             y == Credit("settlement_clearing", amount)
  <2>1. x \in Sides /\ y \in Sides /\ x.debit = amount /\ x.credit = 0 /\ y.debit = 0 /\ y.credit = amount
    BY <1>0
  <2>2. ReserveEntries(amount) = Append(<<x>>, y)
    BY DEF ReserveEntries
  <2> HIDE DEF x, y
  <2>3. Totals(<<x>>, amount, 0)
    BY <2>1, TotalsOfOne
  <2>4. Totals(Append(<<x>>, y), y.debit + amount, y.credit + 0)
    BY <2>1, <2>3, TotalsAppend
  <2> QED
    BY <2>1, <2>2, <2>4 DEF Totals, Balanced
<1> QED
  BY <1>1, <1>2

-----------------------------------------------------------------------------
(* Every transaction in the ledger is whole *)

Posts == {"look", "header", "entries"}

\* Whatever a handler has still to post makes its transaction balanced.
Balances ==
    \A h \in Handlers : LET k == handler[h] IN
        /\ k.pc \in {"look", "header"} => Balanced(k.todo)
        /\ k.pc = "entries" => Balanced(entries[k.key] \o k.todo)

\* Nothing has stopped: a transaction with no handler adding to it is whole.
Whole ==
    "stop" \notin unusual =>
        \A k \in header : Posting(k) = {} => entries[k] # <<>> /\ Balanced(entries[k])

Books == Balances /\ Whole

\* The steps that neither post nor begin to.
Elsewhere(h) ==
    \/ CheckoutInsert(h) \/ CheckoutCreate(h) \/ CheckoutRedirect(h) \/ CheckoutAwait(h)
    \/ VerifyFail(h) \/ VerifyFailBooking(h) \/ VerifyPaid(h)
    \/ VerifyPaidBooking(h) \/ RefundWrite(h) \/ SettlementRow(h)

LEMMA ElsewhereLeaves ==
    ASSUME MarketInv, NEW h \in Handlers, Elsewhere(h)
    PROVE  /\ UNCHANGED <<header, entries, unusual>>
           /\ \A g \in Handlers \ {h} : handler'[g] = handler[g]
           /\ handler[h].pc \notin Posts \cup {"idle"} /\ handler'[h].pc \notin Posts
<1>0. handler[h] \in HandlerRows
  BY DEF MarketInv
<1>1. UNCHANGED <<header, entries, unusual>> /\ handler[h].pc \notin Posts \cup {"idle"}
  BY DEF Elsewhere, CheckoutInsert, CheckoutCreate, CheckoutRedirect, CheckoutAwait, VerifyFail,
         VerifyFailBooking, VerifyPaid, VerifyPaidBooking, RefundWrite, SettlementRow, HandlerAt, Posts
<1>2. \/ HandlerDone(h)
      \/ \E pc \in Steps \ Posts : HandlerGoes(h, pc)
      \/ \E t : HandlerBecomes(h, [handler[h] EXCEPT !.pc = "redirect", !.token = t])
  BY DEF Elsewhere, CheckoutInsert, CheckoutCreate, CheckoutRedirect, CheckoutAwait, VerifyFail,
         VerifyFailBooking, VerifyPaid, VerifyPaidBooking, RefundWrite, SettlementRow, Posts, Steps
<1>3. CASE HandlerDone(h)
  BY <1>1, <1>3, DoneIs DEF Posts
<1>4. ASSUME NEW pc \in Steps \ Posts, HandlerGoes(h, pc)
      PROVE  handler'[h].pc \notin Posts /\ \A g \in Handlers \ {h} : handler'[g] = handler[g]
  BY <1>4, GoesTo
<1>5. ASSUME NEW t, HandlerBecomes(h, [handler[h] EXCEPT !.pc = "redirect", !.token = t])
      PROVE  handler'[h].pc \notin Posts /\ \A g \in Handlers \ {h} : handler'[g] = handler[g]
  <2> DEFINE row == [handler[h] EXCEPT !.pc = "redirect", !.token = t]
  <2>1. row.pc = "redirect" /\ HandlerBecomes(h, row)
    BY <1>0, <1>5 DEF HandlerRows
  <2> HIDE DEF row
  <2> QED
    BY <2>1, RowAfter DEF Posts
<1> QED
  BY <1>1, <1>2, <1>3, <1>4, <1>5

\* The row that begins to post a payment, a refund or a reserve, and the row of
\* a request for something else.
LEMMA ArrivesRow ==
    ASSUME MarketInv, NEW h \in Handlers, Arrives(h)
    PROVE  /\ UNCHANGED <<header, entries>>
           /\ handler[h].pc = "idle" /\ \A g \in Handlers \ {h} : handler'[g] = handler[g]
           /\ unusual' = unusual \/ "overlap" \in unusual'
           /\ "stop" \in unusual => "stop" \in unusual'
           /\ unusual' = unusual => Silent \/ "overlap" \in unusual
           /\ LET k == handler'[h] IN
              \/ k.pc \notin Posts \cup {"idle"}
              \/ /\ k.pc = "look" /\ k.key.kind = "refund"
                 /\ \E b \in Bookings : k.todo = RefundEntries(payment[b].amount, payment[b].commission)
              \/ /\ k.pc = "look" /\ k.key.kind = "settle"
                 /\ \E n \in 1..(PayableCredit + 1) : k.todo = ReserveEntries(n) /\ Covered(n)
<1>1. ASSUME NEW row, NEW what, Handle(h, row, what)
      PROVE  /\ handler[h].pc = "idle" /\ handler'[h] = row
             /\ \A g \in Handlers \ {h} : handler'[g] = handler[g]
             /\ unusual' = unusual \/ "overlap" \in unusual'
             /\ "stop" \in unusual => "stop" \in unusual'
             /\ unusual' = unusual => Silent \/ "overlap" \in unusual
  BY <1>1, RowAfter DEF Handle, HandlerAt
<1>2. ASSUME NEW b \in Bookings, Checkout(h, b)
      PROVE  \E row, what : Handle(h, row, what) /\ row.pc \notin Posts \cup {"idle"}
  <2> DEFINE row == [IdleHandler EXCEPT !.booking = b, !.amount = price,
                       !.pc = IF payment[b].status = "none" THEN "insert" ELSE "create"]
  <2>1. row.pc \notin Posts \cup {"idle"}
    BY DEF IdleHandler, Posts
  <2>2. Handle(h, row, {"checkout"})
    BY <1>2 DEF Checkout
  <2> HIDE DEF row
  <2> QED
    BY <2>1, <2>2
<1>3. ASSUME NEW b \in Bookings, Verify(h, b)
      PROVE  \E row, what : Handle(h, row, what) /\ row.pc \notin Posts \cup {"idle"}
  <2> DEFINE row == [IdleHandler EXCEPT !.pc = "verify", !.booking = b, !.token = payment[b].token,
                                        !.amount = payment[b].amount]
  <2>1. row.pc \notin Posts \cup {"idle"}
    BY DEF IdleHandler, Posts
  <2>2. Handle(h, row, {})
    BY <1>3 DEF Verify
  <2> HIDE DEF row
  <2> QED
    BY <2>1, <2>2
<1>4. ASSUME NEW b \in Bookings, Refund(h, b)
      PROVE  \E row, what : /\ Handle(h, row, what) /\ row.pc = "look" /\ row.key.kind = "refund"
                            /\ row.todo = RefundEntries(payment[b].amount, payment[b].commission)
  <2> DEFINE todo == RefundEntries(payment[b].amount, payment[b].commission)
             key == [kind |-> "refund", of |-> b]
             row == [IdleHandler EXCEPT !.pc = "look", !.booking = b, !.key = key, !.todo = todo]
  <2>1. row.pc = "look" /\ row.key = key /\ row.todo = todo
    BY DEF IdleHandler
  <2>2. Handle(h, row, {})
    BY <1>4 DEF Refund
  <2>3. key.kind = "refund"
    OBVIOUS
  <2> HIDE DEF row, key
  <2> QED
    BY <2>1, <2>2, <2>3
<1>5. ASSUME NEW s \in Settlements, NEW n \in 1..(PayableCredit + 1), RequestSettlement(h, s, n)
      PROVE  \E row, what : /\ Handle(h, row, what) /\ row.pc = "look" /\ row.key.kind = "settle"
                            /\ row.todo = ReserveEntries(n) /\ Covered(n)
  <2> DEFINE key == [kind |-> "settle", of |-> s]
             todo == ReserveEntries(n)
             row == [IdleHandler EXCEPT !.pc = "look", !.key = key, !.todo = todo]
  <2>1. row.pc = "look" /\ row.key = key /\ row.todo = todo
    BY DEF IdleHandler
  <2>2. Handle(h, row, {}) /\ Covered(n)
    BY <1>5 DEF RequestSettlement
  <2>3. key.kind = "settle"
    OBVIOUS
  <2> HIDE DEF row, key
  <2> QED
    BY <2>1, <2>2, <2>3
<1>6. UNCHANGED <<header, entries>>
  BY DEF Arrives, Checkout, Verify, Refund, RequestSettlement
<1>7. CASE \E b \in Bookings : Checkout(h, b) \/ Verify(h, b)
  BY <1>1, <1>2, <1>3, <1>6, <1>7
<1>8. CASE \E b \in Bookings : Refund(h, b)
  BY <1>1, <1>4, <1>6, <1>8
<1>9. CASE \E s \in Settlements, n \in 1..(PayableCredit + 1) : RequestSettlement(h, s, n)
  BY <1>1, <1>5, <1>6, <1>9
<1> QED
  BY <1>7, <1>8, <1>9 DEF Arrives

\* ... and the row of a verification the gateway has answered.
LEMMA AnswerRow ==
    ASSUME MarketInv, NEW h \in Handlers, VerifyAnswer(h)
    PROVE  /\ UNCHANGED <<header, entries, unusual>>
           /\ handler[h].pc = "verify" /\ \A g \in Handlers \ {h} : handler'[g] = handler[g]
           /\ LET k == handler'[h] IN
              \/ k.pc = "fail"
              \/ /\ k.pc = "look" /\ k.key.kind = "pay"
                 /\ \E n \in Nat : k.todo = PaymentEntries(n, Commission(n))
<1> DEFINE k == handler[h]
<1>1. k \in HandlerRows /\ k.amount \in Nat /\ UNCHANGED <<header, entries, unusual>> /\ k.pc = "verify"
  BY DEF MarketInv, HandlerRows, VerifyAnswer, HandlerAt
<1>2. CASE HandlerGoes(h, "fail")
  BY <1>1, <1>2, GoesTo DEF Steps
<1>3. CASE ~HandlerGoes(h, "fail")
  <2> DEFINE key == [kind |-> "pay", of |-> k.booking]
             c == Commission(k.amount)
             todo == PaymentEntries(k.amount, c)
             row == [k EXCEPT !.pc = "look", !.key = key, !.todo = todo, !.commission = c]
  <2>1. HandlerBecomes(h, row)
    BY <1>3 DEF VerifyAnswer
  <2>2. row.pc = "look" /\ row.key = key /\ row.todo = todo /\ key.kind = "pay"
    BY <1>1 DEF HandlerRows
  <2> HIDE DEF row, key
  <2>3. handler'[h] = row /\ \A g \in Handlers \ {h} : handler'[g] = handler[g]
    BY <2>1, RowAfter
  <2> QED
    BY <1>1, <2>2, <2>3
<1> QED
  BY <1>2, <1>3

\* An entry that moves from what is to be posted to what is.
LEMMA MovesOver ==
    ASSUME NEW s \in Seq(Sides), NEW t \in Seq(Sides), t # <<>>
    PROVE  LET e == Append(s, Head(t)) IN
           /\ e \in Seq(Sides) /\ e # <<>> /\ Tail(t) \in Seq(Sides) /\ Head(t) \in Sides
           /\ e \o Tail(t) = s \o t
<1>1. Head(t) \in Sides /\ Tail(t) \in Seq(Sides)
  BY HeadTailProperties
<1>2. Append(s, Head(t)) \in Seq(Sides) /\ Append(s, Head(t)) # <<>>
  BY <1>1, AppendProperties
<1>3. t = <<Head(t)>> \o Tail(t)
  OBVIOUS
<1>4. s \o <<Head(t)>> = Append(s, Head(t))
  BY <1>1, TotalsJoin
<1>5. s \o (<<Head(t)>> \o Tail(t)) = (s \o <<Head(t)>>) \o Tail(t)
  <2>1. <<Head(t)>> \in Seq(Sides)
    BY <1>1
  <2> QED
    BY <1>1, <2>1, ConcatAssociative
<1> QED
  BY <1>1, <1>2, <1>3, <1>4, <1>5

\* Steps that add no entry and no header.
LEMMA BooksStay ==
    ASSUME MarketInv, Books, NEW h \in Handlers, UNCHANGED <<header, entries>>,
           \A g \in Handlers \ {h} : handler'[g] = handler[g],
           "stop" \in unusual => "stop" \in unusual',
           handler[h].pc # "entries", handler'[h].pc # "entries",
           handler'[h].pc \in {"look", "header"} => Balanced(handler'[h].todo)
    PROVE  Books'
<1>1. \A k : Posting(k)' = Posting(k)
  BY DEF Posting, HandlerAt
<1>2. Whole'
  BY <1>1 DEF Books, Whole, Balanced
<1>3. Balances'
  <2> SUFFICES ASSUME NEW g \in Handlers
               PROVE  LET k == handler'[g] IN
                      /\ k.pc \in {"look", "header"} => Balanced(k.todo)
                      /\ k.pc = "entries" => Balanced(entries[k.key] \o k.todo)
    BY DEF Balances, Balanced
  <2> QED
    BY DEF Books, Balances
<1> QED
  BY <1>2, <1>3 DEF Books

LEMMA BooksInit == MarketInit => Books
BY IdleWellFormed DEF MarketInit, Books, Balances, Whole

LEMMA BooksStep == MarketInv /\ Accounted /\ Books /\ [MarketNext]_marketVars => Books'
<1> SUFFICES ASSUME MarketInv, Accounted, Books, [MarketNext]_marketVars PROVE Books'
  OBVIOUS
<1>1. CASE UNCHANGED <<header, entries, handler, unusual>>
  BY <1>1 DEF Books, Balances, Whole, Balanced, Posting, HandlerAt
<1>2. ASSUME NEW h \in Handlers, Arrives(h) PROVE Books'
  <2>1. ASSUME NEW b \in Bookings
        PROVE  Balanced(RefundEntries(payment[b].amount, payment[b].commission))
    <3>1. payment[b] \in PaymentRows /\ payment[b].commission <= payment[b].amount
      BY DEF MarketInv, Tables, Accounted
    <3> QED
      BY <3>1, EntriesBalanced DEF PaymentRows
  <2>2. ASSUME NEW n \in 1..(PayableCredit + 1) PROVE Balanced(ReserveEntries(n))
    BY EntriesBalanced
  <2>3. handler'[h].pc = "look" => Balanced(handler'[h].todo)
    BY <1>2, <2>1, <2>2, ArrivesRow DEF Posts
  <2>4. handler'[h].pc \notin {"header", "entries"}
    BY <1>2, ArrivesRow DEF Posts
  <2> QED
    BY <1>2, <2>3, <2>4, ArrivesRow, BooksStay
<1>3. ASSUME NEW h \in Handlers, Answered(h) PROVE Books'
  <2> DEFINE k == handler[h]
  <2>0. k \in HandlerRows /\ WellFormed(k)
    BY DEF MarketInv
  <2>1. CASE Elsewhere(h)
    BY <2>1, ElsewhereLeaves, BooksStay DEF Posts
  <2>2. CASE VerifyAnswer(h)
    <3>1. \A n \in Nat : Balanced(PaymentEntries(n, Commission(n)))
      BY CommissionType, EntriesBalanced
    <3>2. handler'[h].pc = "look" => Balanced(handler'[h].todo)
      BY <2>2, <3>1, AnswerRow
    <3> QED
      BY <2>2, <3>2, AnswerRow, BooksStay
  <2>3. CASE LedgerLook(h)
    <3>1. k.pc = "look" /\ UNCHANGED <<header, entries, unusual>> /\ k.key \in Keys
      BY <2>0, <2>3 DEF LedgerLook, HandlerAt, WellFormed
    <3>2. \E pc \in Steps \ {"look", "entries"} : HandlerGoes(h, pc)
      BY <2>3, <3>1, AfterLedgerIs DEF LedgerLook, Steps
    <3>3. Balanced(k.todo)
      BY <3>1 DEF Books, Balances
    <3> QED
      BY <3>1, <3>2, <3>3, GoesTo, BooksStay
  <2>4. CASE LedgerHeader(h)
    <3>1. k.pc = "header" /\ UNCHANGED <<entries, unusual>> /\ k.key \in Keys /\ k.todo \in Seq(Sides)
      BY <2>0, <2>4 DEF LedgerHeader, HandlerAt, WellFormed, HandlerRows
    <3>2. CASE RefusesKey(k.key)
      BY <2>4, <3>1, <3>2, DoneIs, BooksStay DEF LedgerHeader
    <3>3. CASE ~RefusesKey(k.key)
      <4>1. HandlerGoes(h, "entries") /\ header' = header \cup {k.key} /\ k.key \notin header
        BY <2>4, <3>3 DEF LedgerHeader, RefusesKey
      <4>2. /\ handler'[h].pc = "entries" /\ handler'[h].key = k.key /\ handler'[h].todo = k.todo
            /\ \A g \in Handlers \ {h} : handler'[g] = handler[g]
        BY <4>1, GoesTo DEF Steps
      <4>3. entries[k.key] = <<>> /\ Posting(k.key) = {}
        BY <3>1, <4>1 DEF MarketInv, PostedOnce
      <4>4. Balanced(entries[k.key] \o k.todo)
        <5>1. Balanced(k.todo) /\ <<>> \o k.todo = k.todo
          BY <3>1, TotalsJoin DEF Books, Balances
        <5> QED
          BY <4>3, <5>1
      <4>5. Balances'
        <5> SUFFICES ASSUME NEW g \in Handlers
                     PROVE  LET n == handler'[g] IN
                            /\ n.pc \in {"look", "header"} => Balanced(n.todo)
                            /\ n.pc = "entries" => Balanced(entries[n.key] \o n.todo)
          BY <3>1 DEF Balances, Balanced
        <5> QED
          BY <4>2, <4>4 DEF Books, Balances
      <4>6. Whole'
        <5>1. \A x : x # k.key => Posting(x)' = Posting(x)
          BY <3>1, <4>2 DEF Posting, HandlerAt
        <5> SUFFICES ASSUME "stop" \notin unusual', NEW x \in header', Posting(x)' = {}
                     PROVE  entries'[x] # <<>> /\ Balanced(entries'[x])
          BY DEF Whole, Balanced
        <5>2. x # k.key
          BY <4>2 DEF Posting, HandlerAt
        <5>3. x \in header /\ Posting(x) = {}
          BY <4>1, <5>1, <5>2
        <5> QED
          BY <3>1, <5>3 DEF Books, Whole
      <4> QED
        BY <4>5, <4>6 DEF Books
    <3> QED
      BY <3>2, <3>3
  <2>5. CASE LedgerEntry(h)
    <3> DEFINE n == handler'[h]
               e == Append(entries[k.key], Head(k.todo))
    <3>1. /\ k.pc = "entries" /\ k.key \in Keys /\ k.todo \in Seq(Sides) /\ k.todo # <<>>
          /\ n.key = k.key /\ n.todo = Tail(k.todo)
          /\ n.pc = IF Tail(k.todo) = <<>> THEN AfterLedger(k.key) ELSE "entries"
          /\ \A g \in Handlers \ {h} : handler'[g] = handler[g]
      BY <2>5, EntryRow
    <3>2. /\ entries' = [entries EXCEPT ![k.key] = e] /\ UNCHANGED <<header, unusual>>
          /\ entries \in [Keys -> Seq(Sides)]
      BY <2>5 DEF LedgerEntry, MarketInv, Tables
    <3>3. Balanced(entries[k.key] \o k.todo) /\ entries[k.key] \in Seq(Sides)
      BY <3>1, <3>2 DEF Books, Balances
    <3>4. /\ e \in Seq(Sides) /\ e # <<>> /\ Tail(k.todo) \in Seq(Sides) /\ Head(k.todo) \in Sides
          /\ e \o Tail(k.todo) = entries[k.key] \o k.todo
      <4> HIDE DEF k
      <4> QED
        BY <3>1, <3>3, MovesOver
    <3>5. entries'[k.key] = e /\ \A x \in Keys \ {k.key} : entries'[x] = entries[x]
      BY <3>1, <3>2
    <3>6. AfterLedger(k.key) \notin Posts
      BY <3>1, AfterLedgerIs DEF Posts
    <3> HIDE DEF n, e
    <3>7. \A g \in Handlers \ {h} : handler[g].pc = "entries" =>
             handler[g].key \in Keys /\ handler[g].key # k.key
      BY <3>1 DEF MarketInv, WellFormed, PostedOnce, Posting, HandlerAt
    <3>8. Balances'
      <4> SUFFICES ASSUME NEW g \in Handlers
                   PROVE  LET m == handler'[g] IN
                          /\ m.pc \in {"look", "header"} => Balanced(m.todo)
                          /\ m.pc = "entries" => Balanced(entries'[m.key] \o m.todo)
        BY DEF Balances, Balanced
      <4>1. CASE g = h
        BY <3>1, <3>3, <3>4, <3>5, <3>6, <4>1 DEF Posts, n
      <4>2. CASE g # h
        BY <3>1, <3>5, <3>7, <4>2 DEF Books, Balances
      <4> QED
        BY <4>1, <4>2
    <3>9. Whole'
      <4> SUFFICES ASSUME "stop" \notin unusual, NEW x \in header, Posting(x)' = {}
                   PROVE  entries'[x] # <<>> /\ Balanced(entries'[x])
        BY <3>2 DEF Whole, Balanced
      <4>1. CASE x = k.key
        <5>1. n.pc # "entries"
          BY <3>1, <4>1 DEF Posting, HandlerAt, n
        <5>2. Tail(k.todo) = <<>>
          BY <3>1, <5>1
        <5>3. e \o <<>> = e
          BY <3>4, TotalsJoin
        <5> QED
          BY <3>3, <3>4, <3>5, <4>1, <5>2, <5>3
      <4>2. CASE x # k.key
        <5>1. Posting(x)' = Posting(x)
          BY <3>1, <4>2 DEF Posting, HandlerAt, n
        <5>2. x \in Keys
          BY DEF MarketInv, Tables
        <5> QED
          BY <3>5, <4>2, <5>1, <5>2 DEF Books, Whole
      <4> QED
        BY <4>1, <4>2
    <3> QED
      BY <3>8, <3>9 DEF Books
  <2>6. CASE HandlerStops(h)
    <3>1. /\ HandlerDone(h) /\ UNCHANGED <<header, entries>> /\ "stop" \in unusual'
      BY <2>6 DEF HandlerStops
    <3>2. handler'[h].pc = "idle" /\ \A g \in Handlers \ {h} : handler'[g] = handler[g]
      BY <3>1, DoneIs
    <3>3. Balances'
      <4> SUFFICES ASSUME NEW g \in Handlers
                   PROVE  LET m == handler'[g] IN
                          /\ m.pc \in {"look", "header"} => Balanced(m.todo)
                          /\ m.pc = "entries" => Balanced(entries[m.key] \o m.todo)
        BY <3>1 DEF Balances, Balanced
      <4> QED
        BY <3>2 DEF Books, Balances
    <3> QED
      BY <3>1, <3>3 DEF Books, Whole
  <2> QED
    BY <1>3, <2>1, <2>2, <2>3, <2>4, <2>5, <2>6 DEF Answered, Elsewhere
<1>4. ASSUME NEW t \in MarketTokens, CustomerPays(t) PROVE Books'
  BY <1>1, <1>4 DEF CustomerPays
<1> QED
  BY <1>1, <1>2, <1>3, <1>4 DEF MarketNext, marketVars

\* With nothing stopped half-way, every transaction in the ledger is whole and
\* balanced, and a paid or refunded payment has its transaction (postLedger,
\* performVerifyPayment, performRefundPayment).
THEOREM LedgerStaysWhole == MarketSpec => []LedgerIsWhole
<1>1. Accounted /\ Books => LedgerIsWhole
  <2> SUFFICES ASSUME Accounted, Books, Silent, "stop" \notin unusual
               PROVE  /\ \A k \in header : entries[k] # <<>> /\ Balanced(entries[k])
                      /\ \A b \in Bookings : payment[b].status \in {"paid", "refunded"} =>
                            [kind |-> "pay", of |-> b] \in header
    BY DEF LedgerIsWhole
  <2>1. \A k : Posting(k) = {}
    BY DEF Silent, Posting, HandlerAt
  <2> QED
    BY <2>1 DEF Books, Whole, Accounted, PayKey
<1> QED
  BY <1>1, Always, AccountedInit, AccountedStep, BooksInit, BooksStep, PTL DEF MarketSpec

-----------------------------------------------------------------------------
(* Requests that do not overlap never settle more than was earned *)

\* Entries that take nothing from what the business may be paid.
PayOnly(s) == \A i \in DOMAIN s : s[i].account = "business_payable" => s[i].debit = 0

\* One handler at a time.
InTurn ==
    "overlap" \notin unusual =>
        \A g, h \in Handlers : handler[g].pc # "idle" /\ handler[h].pc # "idle" => g = h

PaysIn ==
    \A h \in Handlers : handler[h].pc \in Posts /\ handler[h].key.kind = "pay" => PayOnly(handler[h].todo)

\* What a settlement is about to take is covered, or taken already.
Reserved ==
    "overlap" \notin unusual /\ NothingRefunded =>
        /\ PayableDebit <= PayableCredit
        /\ \A h \in Handlers : LET k == handler[h] IN
              k.pc \in Posts /\ k.key.kind = "settle" =>
                 \/ \E n \in Nat : k.todo = ReserveEntries(n) /\ Covered(n)
                 \/ PayOnly(k.todo)

Earned == InTurn /\ PaysIn /\ Reserved

\* What each key takes from the account and gives to it.
Debits(book) == [k \in Keys |-> DebitOf(book[k], OfPayable(book[k]))]
Credits(book) == [k \in Keys |-> CreditOf(book[k], OfPayable(book[k]))]

LEMMA PayableAre ==
    /\ PayableDebit = SumOn(Debits(entries), Keys) /\ PayableCredit = SumOn(Credits(entries), Keys)
    /\ PayableDebit' = SumOn(Debits(entries'), Keys) /\ PayableCredit' = SumOn(Credits(entries'), Keys)
BY PlainSum DEF PayableDebit, PayableCredit, Debits, Credits

LEMMA PayableType ==
    ASSUME NEW book \in [Keys -> Seq(Sides)]
    PROVE  /\ \A k \in Keys : Debits(book)[k] \in Nat /\ Credits(book)[k] \in Nat
           /\ SumOn(Debits(book), Keys) \in Nat /\ SumOn(Credits(book), Keys) \in Nat
<1>1. \A k \in Keys : Debits(book)[k] \in Nat /\ Credits(book)[k] \in Nat
  BY TotalsOf DEF OfPayable, Debits, Credits
<1> QED
  BY <1>1, FewKeys, SumType

LEMMA KeysChange ==
    \A f, g : \A key \in Keys, n \in Nat :
        /\ \A k \in Keys : f[k] \in Nat /\ g[k] \in Nat
        /\ \A k \in Keys \ {key} : f[k] = g[k]
        /\ g[key] = n + f[key]
        => SumOn(g, Keys) = SumOn(f, Keys) + n
<1> SUFFICES ASSUME NEW f, NEW g, \A k \in Keys : f[k] \in Nat /\ g[k] \in Nat,
                    NEW key \in Keys, \A k \in Keys \ {key} : f[k] = g[k],
                    NEW n \in Nat, g[key] = n + f[key]
             PROVE  SumOn(g, Keys) = SumOn(f, Keys) + n
  OBVIOUS
<1>1. /\ SumOn(f, Keys) \in Nat /\ SumOn(g, Keys) \in Nat
      /\ SumOn(f, Keys) + g[key] = SumOn(g, Keys) + f[key]
  BY FewKeys, SumChange
<1> QED
  BY <1>1

\* One entry more changes the account by that entry, if it is one of the account.
LEMMA PayableAdd ==
    ASSUME NEW book \in [Keys -> Seq(Sides)], NEW key \in Keys, NEW e \in Sides,
           NEW book2 \in {[book EXCEPT ![key] = Append(book[key], e)]}
    PROVE  /\ e.account = "business_payable" =>
                 /\ SumOn(Debits(book2), Keys) = SumOn(Debits(book), Keys) + e.debit
                 /\ SumOn(Credits(book2), Keys) = SumOn(Credits(book), Keys) + e.credit
           /\ e.account # "business_payable" =>
                 /\ SumOn(Debits(book2), Keys) = SumOn(Debits(book), Keys)
                 /\ SumOn(Credits(book2), Keys) = SumOn(Credits(book), Keys)
<1> DEFINE s == book[key]
           t == Append(s, e)
           I == OfPayable(s)
<1>0. book2 = [book EXCEPT ![key] = t] /\ book2 \in [Keys -> Seq(Sides)]
  <2>1. book[key] \in Seq(Sides)
    OBVIOUS
  <2>2. t \in Seq(Sides) /\ book2 = [book EXCEPT ![key] = t]
    BY <2>1, AppendProperties
  <2> HIDE DEF t
  <2> QED
    BY <2>2
<1>1. /\ \A k \in Keys : Debits(book)[k] \in Nat /\ Debits(book2)[k] \in Nat
      /\ \A k \in Keys : Credits(book)[k] \in Nat /\ Credits(book2)[k] \in Nat
  BY <1>0, PayableType
<1>2. /\ \A k \in Keys \ {key} : Debits(book)[k] = Debits(book2)[k]
      /\ \A k \in Keys \ {key} : Credits(book)[k] = Credits(book2)[k]
  BY <1>0 DEF Debits, Credits
<1>3. /\ Debits(book)[key] = DebitOf(s, I) /\ Credits(book)[key] = CreditOf(s, I)
      /\ Debits(book2)[key] = DebitOf(t, OfPayable(t)) /\ Credits(book2)[key] = CreditOf(t, OfPayable(t))
  BY <1>0 DEF Debits, Credits
<1>4. s \in Seq(Sides) /\ I \in SUBSET DOMAIN s
  BY DEF OfPayable
<1> HIDE DEF s, t
<1>5. OfPayable(t) = IF e.account = "business_payable" THEN I \cup {Len(s) + 1} ELSE I
  <2>1. /\ Len(s) \in Nat /\ DOMAIN s = 1..Len(s) /\ DOMAIN t = 1..(Len(s) + 1)
        /\ t[Len(s) + 1] = e /\ \A i \in 1..Len(s) : t[i] = s[i]
    BY <1>4, LenProperties, AppendProperties DEF t
  <2> QED
    BY <2>1 DEF OfPayable
<1> HIDE DEF I
<1>6. /\ DebitOf(t, I) = DebitOf(s, I) /\ CreditOf(t, I) = CreditOf(s, I)
      /\ DebitOf(t, I \cup {Len(s) + 1}) = e.debit + DebitOf(s, I)
      /\ CreditOf(t, I \cup {Len(s) + 1}) = e.credit + CreditOf(s, I)
  BY <1>4, TotalsAdd DEF t
<1>7. e.debit \in Nat /\ e.credit \in Nat
  BY DEF Sides
<1>8. CASE e.account = "business_payable"
  <2>1. /\ Debits(book2)[key] = e.debit + Debits(book)[key]
        /\ Credits(book2)[key] = e.credit + Credits(book)[key]
    BY <1>3, <1>5, <1>6, <1>8
  <2>2. SumOn(Debits(book2), Keys) = SumOn(Debits(book), Keys) + e.debit
    BY <1>1, <1>2, <1>7, <2>1, KeysChange, Zenon
  <2>3. SumOn(Credits(book2), Keys) = SumOn(Credits(book), Keys) + e.credit
    BY <1>1, <1>2, <1>7, <2>1, KeysChange, Zenon
  <2> QED
    BY <1>8, <2>2, <2>3
<1>9. CASE e.account # "business_payable"
  <2>1. Debits(book2)[key] = Debits(book)[key] /\ Credits(book2)[key] = Credits(book)[key]
    BY <1>3, <1>5, <1>6, <1>9
  <2>2. (\A k \in Keys : Debits(book)[k] = Debits(book2)[k]) /\ (\A k \in Keys : Credits(book)[k] = Credits(book2)[k])
    BY <1>2, <2>1
  <2> QED
    BY <1>1, <1>9, <2>2, FewKeys, SumSame
<1> QED
  BY <1>8, <1>9

LEMMA PayOnlyAdds ==
    /\ PayOnly(<<>>)
    /\ \A s \in Seq(Sides), e \in Sides :
          /\ PayOnly(s) /\ (e.account = "business_payable" => e.debit = 0) => PayOnly(Append(s, e))
          /\ PayOnly(s) /\ s # <<>> =>
                /\ PayOnly(Tail(s))
                /\ Head(s).account = "business_payable" => Head(s).debit = 0
<1>1. PayOnly(<<>>)
  BY DEF PayOnly
<1>2. ASSUME NEW s \in Seq(Sides), NEW e \in Sides, PayOnly(s),
             e.account = "business_payable" => e.debit = 0
      PROVE  PayOnly(Append(s, e))
  <2>1. Len(s) \in Nat /\ DOMAIN s = 1..Len(s) /\ DOMAIN Append(s, e) = 1..(Len(s) + 1)
        /\ Append(s, e)[Len(s) + 1] = e /\ \A i \in 1..Len(s) : Append(s, e)[i] = s[i]
    BY LenProperties, AppendProperties
  <2> QED
    BY <1>2, <2>1 DEF PayOnly
<1>3. ASSUME NEW s \in Seq(Sides), PayOnly(s), s # <<>>
      PROVE  PayOnly(Tail(s)) /\ (Head(s).account = "business_payable" => Head(s).debit = 0)
  <2>1. /\ Len(s) \in Nat /\ Len(s) # 0 /\ DOMAIN s = 1..Len(s) /\ Head(s) = s[1]
    BY <1>3, LenProperties, EmptySeq
  <2>2. /\ Tail(s) \in Seq(Sides) /\ Len(Tail(s)) = Len(s) - 1 /\ DOMAIN Tail(s) = 1..Len(Tail(s))
        /\ \A i \in 1..Len(Tail(s)) : Tail(s)[i] = s[i + 1]
    BY <1>3, HeadTailProperties, LenProperties
  <2> QED
    BY <1>3, <2>1, <2>2 DEF PayOnly
<1> QED
  BY <1>1, <1>2, <1>3

\* A payment adds to the account, and a reserve takes from it with its first entry.
LEMMA WhatTheyTake ==
    /\ \A gross, commission \in Nat : PayOnly(PaymentEntries(gross, commission))
    /\ \A n \in Nat : LET s == ReserveEntries(n) IN
          /\ Head(s).account = "business_payable" /\ Head(s).debit = n /\ Head(s).credit = 0
          /\ PayOnly(Tail(s))
<1>1. ASSUME NEW gross \in Nat, NEW commission \in Nat PROVE PayOnly(PaymentEntries(gross, commission))
  <2> DEFINE net == gross - commission
             first == Debit("customer_clearing", gross)
             x == Credit("business_payable", net)
             y == Credit("platform_commission", commission)
  <2>0. net \in Int
    OBVIOUS
  <2>1. first \in Sides /\ (net > 0 => x \in Sides) /\ y \in Sides
    BY <2>0, SideType DEF Accounts
  <2>2. first.account # "business_payable" /\ x.debit = 0 /\ y.debit = 0
    BY DEF Debit, Credit
  <2>3. PaymentEntries(gross, commission) = <<first>> \o If(net, x) \o If(commission, y)
    BY DEF PaymentEntries
  <2> HIDE DEF net, first, x, y
  <2>4. <<first>> \in Seq(Sides) /\ PayOnly(<<first>>)
    <3>1. <<first>> = Append(<<>>, first) /\ <<>> \in Seq(Sides)
      BY <2>1, EmptySeq
    <3>2. Append(<<>>, first) \in Seq(Sides)
      BY <2>1, <3>1, AppendProperties
    <3> QED
      BY <2>1, <2>2, <3>1, <3>2, PayOnlyAdds
  <2>5. <<first>> \o If(net, x) \in Seq(Sides) /\ PayOnly(<<first>> \o If(net, x))
    <3>1. CASE net > 0
      <4>1. If(net, x) = <<x>> /\ <<first>> \o <<x>> = Append(<<first>>, x)
        BY <2>1, <2>4, <3>1, TotalsJoin DEF If
      <4>2. Append(<<first>>, x) \in Seq(Sides)
        BY <2>1, <2>4, <3>1, AppendProperties
      <4> QED
        BY <2>1, <2>2, <2>4, <3>1, <4>1, <4>2, PayOnlyAdds
    <3>2. CASE ~(net > 0)
      <4>1. If(net, x) = <<>> /\ <<first>> \o <<>> = <<first>>
        BY <2>4, <3>2, TotalsJoin DEF If
      <4> QED
        BY <2>4, <4>1
    <3> QED
      BY <3>1, <3>2
  <2>6. PayOnly(<<first>> \o If(net, x) \o If(commission, y))
    <3> DEFINE s == <<first>> \o If(net, x)
    <3>0. s \in Seq(Sides) /\ PayOnly(s)
      BY <2>5
    <3> HIDE DEF s
    <3>1. CASE commission > 0
      <4>1. If(commission, y) = <<y>> /\ s \o <<y>> = Append(s, y)
        BY <2>1, <3>0, <3>1, TotalsJoin DEF If
      <4> QED
        BY <2>1, <2>2, <3>0, <4>1, PayOnlyAdds DEF s
    <3>2. CASE ~(commission > 0)
      <4>1. If(commission, y) = <<>> /\ s \o <<>> = s
        BY <3>0, <3>2, TotalsJoin DEF If
      <4> QED
        BY <3>0, <4>1 DEF s
    <3> QED
      BY <3>1, <3>2
  <2> QED
    BY <2>3, <2>6
<1>2. ASSUME NEW n \in Nat
      PROVE  LET s == ReserveEntries(n) IN
             /\ Head(s).account = "business_payable" /\ Head(s).debit = n /\ Head(s).credit = 0
             /\ PayOnly(Tail(s))
  <2> DEFINE x == Debit("business_payable", n)
             y == Credit("settlement_clearing", n)
  <2>1. /\ x.account = "business_payable" /\ x.debit = n /\ x.credit = 0
        /\ y.account # "business_payable" /\ y \in Sides /\ x \in Sides
    BY SideType DEF Debit, Credit, Accounts
  <2>2. ReserveEntries(n) = <<x, y>>
    BY DEF ReserveEntries
  <2> HIDE DEF x, y
  <2>3. Head(<<x, y>>) = x /\ Tail(<<x, y>>) = Append(<<>>, y) /\ <<>> \in Seq(Sides)
    BY <2>1, EmptySeq
  <2>4. PayOnly(Append(<<>>, y))
    BY <2>1, <2>3, PayOnlyAdds
  <2> QED
    BY <2>1, <2>2, <2>3, <2>4
<1> QED
  BY <1>1, <1>2

\* Steps that post nothing: what is to be posted stays what it was, unless a
\* request that begins alone has it covered.
LEMMA EarnedStays ==
    ASSUME MarketInv, Earned, NEW h \in Handlers, UNCHANGED entries, header \subseteq header',
           \A g \in Handlers \ {h} : handler'[g] = handler[g],
           "overlap" \in unusual => "overlap" \in unusual',
           handler[h].pc # "idle" \/ Silent \/ "overlap" \in unusual',
           LET n == handler'[h] IN
              /\ n.pc \in Posts /\ n.key.kind = "pay" => PayOnly(n.todo)
              /\ "overlap" \notin unusual' /\ n.pc \in Posts /\ n.key.kind = "settle" =>
                    \/ handler[h].pc \in Posts /\ handler[h].key = n.key /\ handler[h].todo = n.todo
                    \/ \E m \in Nat : n.todo = ReserveEntries(m) /\ Covered(m)
    PROVE  Earned'
<1>1. InTurn'
  BY DEF Earned, InTurn, Silent, HandlerAt
<1>2. PaysIn'
  <2> SUFFICES ASSUME NEW g \in Handlers, handler'[g].pc \in Posts, handler'[g].key.kind = "pay"
               PROVE  PayOnly(handler'[g].todo)
    BY DEF PaysIn, PayOnly
  <2> QED
    BY DEF Earned, PaysIn
<1>3. PayableDebit' = PayableDebit /\ PayableCredit' = PayableCredit
  BY PayableAre
<1>4. Reserved'
  <2> SUFFICES ASSUME "overlap" \notin unusual', NothingRefunded'
               PROVE  /\ PayableDebit' <= PayableCredit'
                      /\ \A g \in Handlers : LET k == handler'[g] IN
                            k.pc \in Posts /\ k.key.kind = "settle" =>
                               \/ \E n \in Nat : k.todo = ReserveEntries(n) /\ PayableDebit' + n <= PayableCredit'
                               \/ PayOnly(k.todo)
    BY DEF Reserved, Covered, ReserveEntries, PayOnly
  <2>1. "overlap" \notin unusual /\ NothingRefunded
    BY DEF NothingRefunded
  <2>2. /\ PayableDebit <= PayableCredit
        /\ \A g \in Handlers : LET k == handler[g] IN
              k.pc \in Posts /\ k.key.kind = "settle" =>
                 \/ \E n \in Nat : k.todo = ReserveEntries(n) /\ PayableDebit + n <= PayableCredit
                 \/ PayOnly(k.todo)
    BY <2>1 DEF Earned, Reserved, Covered
  <2>3. \A m : Covered(m) <=> PayableDebit + m <= PayableCredit
    BY DEF Covered
  <2> QED
    BY <1>3, <2>2, <2>3
<1> QED
  BY <1>1, <1>2, <1>4 DEF Earned

LEMMA EarnedInit == MarketInit => Earned
<1> SUFFICES ASSUME MarketInit PROVE Earned
  OBVIOUS
<1>1. \A h \in Handlers : handler[h].pc = "idle"
  BY IdleWellFormed DEF MarketInit
<1>2. PayableDebit <= PayableCredit
  <2>1. \A k \in Keys : OfPayable(entries[k]) = {}
    <3>1. DOMAIN <<>> = {}
      BY EmptySeq
    <3> QED
      BY <3>1 DEF MarketInit, OfPayable
  <2>2. \A k \in Keys : Debits(entries)[k] = 0 /\ Credits(entries)[k] = 0
    BY <2>1, TotalsOfNothing DEF Debits, Credits
  <2>3. /\ \A k \in Keys : Debits(entries)[k] \in Nat /\ Debits(entries)[k] = Credits(entries)[k]
        /\ 0 \in Nat
    BY <2>2
  <2>4. SumOn(Debits(entries), Keys) = SumOn(Credits(entries), Keys)
    BY <2>3, FewKeys, SumSame
  <2>5. SumOn(Debits(entries), Keys) \in Nat
    BY <2>3, FewKeys, SumType
  <2> QED
    BY <2>4, <2>5, PayableAre
<1> QED
  BY <1>1, <1>2 DEF Earned, InTurn, PaysIn, Reserved, Posts

LEMMA EarnedStep == MarketInv /\ Earned /\ [MarketNext]_marketVars => Earned'
<1> SUFFICES ASSUME MarketInv, Earned, [MarketNext]_marketVars PROVE Earned'
  OBVIOUS
<1>1. CASE UNCHANGED <<header, entries, handler, unusual>>
  <2>1. PayableDebit' = PayableDebit /\ PayableCredit' = PayableCredit
    BY <1>1, PayableAre
  <2> QED
    BY <1>1, <2>1 DEF Earned, InTurn, PaysIn, Reserved, NothingRefunded, Covered, PayOnly, ReserveEntries
<1>2. ASSUME NEW h \in Handlers, Arrives(h) PROVE Earned'
  <2> DEFINE n == handler'[h]
  <2>1. /\ UNCHANGED <<header, entries>>
        /\ handler[h].pc = "idle" /\ \A g \in Handlers \ {h} : handler'[g] = handler[g]
        /\ unusual' = unusual \/ "overlap" \in unusual'
        /\ unusual' = unusual => Silent \/ "overlap" \in unusual
        /\ \/ n.pc \notin Posts \cup {"idle"}
           \/ n.key.kind = "refund"
           \/ n.key.kind = "settle" /\ \E m \in 1..(PayableCredit + 1) : n.todo = ReserveEntries(m) /\ Covered(m)
    BY <1>2, ArrivesRow
  <2>2. \A m \in 1..(PayableCredit + 1) : m \in Nat
    OBVIOUS
  <2> HIDE DEF n
  <2>3. /\ n.pc \in Posts /\ n.key.kind = "pay" => PayOnly(n.todo)
        /\ n.pc \in Posts /\ n.key.kind = "settle" => \E m \in Nat : n.todo = ReserveEntries(m) /\ Covered(m)
    BY <2>1, <2>2
  <2> QED
    BY <2>1, <2>3, EarnedStays DEF n
<1>3. ASSUME NEW h \in Handlers, Answered(h) PROVE Earned'
  <2> DEFINE k == handler[h]
             n == handler'[h]
  <2>0. k \in HandlerRows /\ WellFormed(k)
    BY DEF MarketInv
  <2>1. CASE Elsewhere(h)
    BY <2>1, ElsewhereLeaves, EarnedStays
  <2>2. CASE VerifyAnswer(h)
    <3>1. \A m \in Nat : PayOnly(PaymentEntries(m, Commission(m)))
      BY CommissionType, WhatTheyTake
    <3>2. n.pc \in Posts => n.key.kind = "pay" /\ PayOnly(n.todo)
      BY <2>2, <3>1, AnswerRow DEF Posts
    <3> QED
      BY <2>2, <3>2, AnswerRow, EarnedStays
  \* A handler that moves on with what it has to post.
  <2>3. ASSUME k.pc \in {"look", "header"}, UNCHANGED <<entries, unusual>>, header \subseteq header',
               NEW pc \in Steps, HandlerGoes(h, pc)
        PROVE  Earned'
    <3>1. n.key = k.key /\ n.todo = k.todo /\ \A g \in Handlers \ {h} : handler'[g] = handler[g]
      BY <2>3, GoesTo
    <3>2. n.pc \in Posts /\ n.key.kind = "pay" => PayOnly(n.todo)
      BY <2>3, <3>1 DEF Earned, PaysIn, Posts
    <3> HIDE DEF n
    <3> QED
      BY <2>3, <3>1, <3>2, EarnedStays DEF n, Posts
  <2>4. CASE LedgerLook(h)
    <3>1. k.pc = "look" /\ UNCHANGED <<header, entries, unusual>> /\ k.key \in Keys
      BY <2>0, <2>4 DEF LedgerLook, HandlerAt, WellFormed
    <3>2. \E pc \in Steps : HandlerGoes(h, pc)
      BY <2>4, <3>1, AfterLedgerIs DEF LedgerLook, Steps
    <3> QED
      BY <2>3, <3>1, <3>2
  <2>5. CASE LedgerHeader(h)
    <3>1. k.pc = "header" /\ UNCHANGED <<entries, unusual>> /\ header \subseteq header'
      BY <2>5 DEF LedgerHeader, HandlerAt
    <3>2. CASE HandlerDone(h)
      BY <3>1, <3>2, DoneIs, EarnedStays DEF Posts
    <3>3. CASE HandlerGoes(h, "entries")
      BY <2>3, <3>1, <3>3 DEF Steps
    <3> QED
      BY <2>5, <3>2, <3>3 DEF LedgerHeader
  <2>6. CASE LedgerEntry(h)
    <3> DEFINE e == Head(k.todo)
    <3>1. /\ k.pc = "entries" /\ k.key \in Keys /\ k.todo \in Seq(Sides) /\ k.todo # <<>>
          /\ n.key = k.key /\ n.todo = Tail(k.todo)
          /\ n.pc = IF Tail(k.todo) = <<>> THEN AfterLedger(k.key) ELSE "entries"
          /\ \A g \in Handlers \ {h} : handler'[g] = handler[g]
      BY <2>6, EntryRow
    <3>2. /\ entries' = [entries EXCEPT ![k.key] = Append(entries[k.key], e)] /\ UNCHANGED <<header, unusual>>
          /\ entries \in [Keys -> Seq(Sides)]
      BY <2>6 DEF LedgerEntry, MarketInv, Tables
    <3>3. k.key \in header
      BY <3>1 DEF MarketInv, PostedOnce, Posting, HandlerAt
    <3>4. e \in Sides /\ e.debit \in Nat /\ e.credit \in Nat
      <4>1. \A s \in Seq(Sides) : s # <<>> => Head(s) \in Sides
        BY HeadTailProperties
      <4>2. e \in Sides
        BY <3>1, <4>1
      <4> QED
        BY <4>2 DEF Sides
    <3>5. AfterLedger(k.key) \notin Posts /\ AfterLedger(k.key) # "idle"
      BY <3>1, AfterLedgerIs DEF Posts
    <3>6. n.pc # "idle" /\ (n.pc \in Posts => n.pc = "entries")
      BY <3>1, <3>5
    <3> HIDE DEF n, e, k
    <3>7. InTurn'
      BY <3>1, <3>2 DEF Earned, InTurn, n, k
    <3>8. k.key.kind = "pay" => PayOnly(k.todo)
      BY <3>1 DEF Earned, PaysIn, Posts, k
    <3>9. PaysIn'
      <4> SUFFICES ASSUME NEW g \in Handlers, handler'[g].pc \in Posts, handler'[g].key.kind = "pay"
                   PROVE  PayOnly(handler'[g].todo)
        BY DEF PaysIn, PayOnly
      <4>1. CASE g = h
        BY <3>1, <3>8, <4>1, PayOnlyAdds DEF n
      <4>2. CASE g # h
        BY <3>1, <4>2 DEF Earned, PaysIn
      <4> QED
        BY <4>1, <4>2
    <3>10. /\ e.account = "business_payable" =>
                 PayableDebit' = PayableDebit + e.debit /\ PayableCredit' = PayableCredit + e.credit
           /\ e.account # "business_payable" =>
                 PayableDebit' = PayableDebit /\ PayableCredit' = PayableCredit
           /\ PayableDebit \in Nat /\ PayableCredit \in Nat
      BY <3>1, <3>2, <3>4, PayableAre, PayableAdd, PayableType
    <3>11. Reserved'
      <4> SUFFICES ASSUME "overlap" \notin unusual', NothingRefunded'
                   PROVE  /\ PayableDebit' <= PayableCredit'
                          /\ \A g \in Handlers : LET r == handler'[g] IN
                                r.pc \in Posts /\ r.key.kind = "settle" => PayOnly(r.todo)
        BY DEF Reserved, PayOnly
      <4>1. "overlap" \notin unusual /\ NothingRefunded
        BY <3>2 DEF NothingRefunded
      <4>2. \A g \in Handlers \ {h} : handler'[g].pc = "idle"
        BY <3>1, <4>1 DEF Earned, InTurn, k
      <4>3. k.key.kind \in {"pay", "settle"}
        BY <3>1, <3>3, <4>1 DEF NothingRefunded, Keys
      <4>4. PayableDebit <= PayableCredit
        BY <4>1 DEF Earned, Reserved
      <4>5. CASE PayOnly(k.todo)
        <5>1. PayOnly(Tail(k.todo)) /\ (e.account = "business_payable" => e.debit = 0)
          BY <3>1, <4>5, PayOnlyAdds DEF e
        <5>2. PayableDebit' <= PayableCredit'
          BY <3>4, <3>10, <4>4, <5>1
        <5> QED
          BY <3>1, <4>2, <5>1, <5>2 DEF n, Posts
      <4>6. CASE ~PayOnly(k.todo)
        <5>1. PICK m \in Nat : k.todo = ReserveEntries(m) /\ Covered(m)
          BY <3>1, <3>8, <4>1, <4>3, <4>6 DEF Earned, Reserved, Posts, k
        <5>2. e.account = "business_payable" /\ e.debit = m /\ e.credit = 0 /\ PayOnly(Tail(k.todo))
          BY <5>1, WhatTheyTake DEF e
        <5>3. PayableDebit' <= PayableCredit'
          <6>1. PayableDebit + m <= PayableCredit
            BY <5>1 DEF Covered
          <6> QED
            BY <3>10, <5>2, <6>1
        <5> QED
          BY <3>1, <4>2, <5>2, <5>3 DEF n, Posts
      <4> QED
        BY <4>5, <4>6
    <3> QED
      BY <3>7, <3>9, <3>11 DEF Earned
  <2>7. CASE HandlerStops(h)
    <3>1. HandlerDone(h) /\ UNCHANGED <<header, entries>> /\ unusual \subseteq unusual' /\ k.pc # "idle"
      BY <2>7 DEF HandlerStops, HandlerAt
    <3> QED
      BY <3>1, DoneIs, EarnedStays DEF Posts
  <2> QED
    BY <1>3, <2>1, <2>2, <2>4, <2>5, <2>6, <2>7 DEF Answered, Elsewhere
<1>4. ASSUME NEW t \in MarketTokens, CustomerPays(t) PROVE Earned'
  BY <1>1, <1>4 DEF CustomerPays
<1> QED
  BY <1>1, <1>2, <1>3, <1>4 DEF MarketNext, marketVars

\* Requests that do not overlap never settle more than was earned
\* (performRequestSettlement).
THEOREM SettlementsAreEarned == MarketSpec => []SettledIsEarned
<1>1. Earned => SettledIsEarned
  BY DEF Earned, Reserved, SettledIsEarned
<1> QED
  BY <1>1, Always, EarnedInit, EarnedStep, PTL DEF MarketSpec
=============================================================================
