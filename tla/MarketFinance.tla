------------------------------ MODULE MarketFinance ------------------------------
(***************************************************************************)
(* The marketplace's payments: checkout, verification by the customer's    *)
(* browser and by the gateway's webhook, the double-entry ledger, refunds  *)
(* and settlements (src/lib/finance/server.ts, ledger.ts, commission.ts).  *)
(*                                                                         *)
(* A handler is a record with a program counter; one action is one SQL     *)
(* statement or one call of the gateway.  A ledger transaction is a header *)
(* with a unique idempotency key, then its entries one by one; nothing     *)
(* runs in a database transaction.  One business; a payment is the one a   *)
(* booking can have (its key is checkout:<booking>).                       *)
(***************************************************************************)
EXTENDS Naturals, Sequences, FiniteSetsExt

CONSTANTS
    Bookings,     \* each with at most one row of payments
    Settlements,  \* ids of settlements
    Handlers,     \* HTTP requests that may be in flight at the same time
    MarketPrices, \* amounts a checkout may find
    Rules,        \* commission rules that apply to the business, one for each scope
    MaxOpened,    \* bound: payments opened at the gateway
    MaxHandled,   \* bound: requests in one behaviour
    NoBooking, NoKey

\* The scopes a commission rule may have, the one that counts first in front.
Precedence == <<"service", "category", "business", "platform">>
Scopes == {"service", "category", "business", "platform"}

ASSUME MarketAssumption ==
    /\ MarketPrices \subseteq Nat /\ MaxOpened \in Nat /\ MaxHandled \in Nat
    /\ Rules \subseteq [scope : Scopes, bps : Nat, fixed : Nat]
    /\ IsFiniteSet(Bookings) /\ IsFiniteSet(Settlements) /\ NoBooking \notin Bookings

VARIABLES
    price,    \* the service's price, in businesses.prices; it does not change
    payment,  \* payments
    finance,  \* bookings.finance_status
    gateway,  \* payments as the gateway knows them, by token
    header,   \* ledger_transactions, by idempotency key
    entries,  \* ledger_entries of each key, in the order of insertion
    settled,  \* settlements
    handler,
    handled,  \* history: requests so far
    unusual   \* history: what has happened out of the ordinary

marketVars == <<price, payment, finance, gateway, header, entries, settled, handler, handled, unusual>>

-----------------------------------------------------------------------------
(* State *)

MarketTokens == 1..MaxOpened

PaymentRows == [status : {"none", "created", "redirected", "paid", "failed", "refunded"},
                amount : Nat, token : 0..MaxOpened, commission : Nat]
NoPaymentRow == [status |-> "none", amount |-> 0, token |-> 0, commission |-> 0]

Finances == {"none", "awaiting_payment", "fully_paid", "payment_failed"}

Keys == [kind : {"pay", "refund"}, of : Bookings] \cup [kind : {"settle"}, of : Settlements]

Accounts == {"customer_clearing", "business_payable", "platform_commission",
             "refund_liability", "settlement_clearing"}
Sides == [account : Accounts, debit : Nat, credit : Nat]

Steps == {"idle", "insert", "create", "redirect", "await", "verify", "fail", "failBooking",
          "look", "header", "entries", "paid", "paidBooking", "refunded", "settled"}

HandlerRows == [pc : Steps, booking : Bookings \cup {NoBooking}, key : Keys \cup {NoKey},
                todo : Seq(Sides), amount : Nat, token : 0..MaxOpened, commission : Nat]
IdleHandler == [pc |-> "idle", booking |-> NoBooking, key |-> NoKey, todo |-> <<>>,
                amount |-> 0, token |-> 0, commission |-> 0]

MarketInit ==
    /\ price \in MarketPrices
    /\ payment = [b \in Bookings |-> NoPaymentRow]
    /\ finance = [b \in Bookings |-> "none"]
    /\ gateway = [t \in MarketTokens |-> [booking |-> NoBooking, paid |-> FALSE]]
    /\ header = {}
    /\ entries = [k \in Keys |-> <<>>]
    /\ settled = {}
    /\ handler = [h \in Handlers |-> IdleHandler]
    /\ handled = 0
    /\ unusual = {}

-----------------------------------------------------------------------------
(* ledger.ts, commission.ts *)

Debit(account, n) == [account |-> account, debit |-> n, credit |-> 0]
Credit(account, n) == [account |-> account, debit |-> 0, credit |-> n]

\* Entries of nothing are left out.
If(n, side) == IF n > 0 THEN <<side>> ELSE <<>>

\* pickCommissionRule
Rank(r) == CHOOSE i \in 1..4 : Precedence[i] = r.scope
Rule == IF Rules = {} THEN [scope |-> "platform", bps |-> 0, fixed |-> 0]
        ELSE CHOOSE r \in Rules : \A q \in Rules : Rank(r) <= Rank(q)

\* Faulty: a fixed fee above the price is not capped.
CommissionUncapped(gross) == (gross * Rule.bps) \div 10000 + Rule.fixed

\* applyCommission, percentBps
Commission(gross) ==
    LET c == (gross * Rule.bps) \div 10000 + Rule.fixed
    IN  IF c < gross THEN c ELSE gross

PaymentEntries(gross, commission) ==
    <<Debit("customer_clearing", gross)>>
        \o If(gross - commission, Credit("business_payable", gross - commission))
        \o If(commission, Credit("platform_commission", commission))

RefundEntries(gross, commission) ==
    If(gross - commission, Debit("business_payable", gross - commission))
        \o If(commission, Debit("platform_commission", commission))
        \o <<Credit("refund_liability", gross)>>

ReserveEntries(amount) ==
    <<Debit("business_payable", amount), Credit("settlement_clearing", amount)>>

Sum(f, S) == MapThenSumSet(LAMBDA i : f[i], S)
DebitOf(s, I) == Sum([i \in I |-> s[i].debit], I)
CreditOf(s, I) == Sum([i \in I |-> s[i].credit], I)
Balanced(s) == DebitOf(s, DOMAIN s) = CreditOf(s, DOMAIN s)
OfPayable(s) == {i \in DOMAIN s : s[i].account = "business_payable"}

\* payableIrr, its two halves: their difference is what may be settled.
PayableCredit == Sum([k \in Keys |-> CreditOf(entries[k], OfPayable(entries[k]))], Keys)
PayableDebit == Sum([k \in Keys |-> DebitOf(entries[k], OfPayable(entries[k]))], Keys)

-----------------------------------------------------------------------------
(* Handlers *)

HandlerAt(h, pc) == handler[h].pc = pc
HandlerBecomes(h, row) == handler' = [handler EXCEPT ![h] = row]
HandlerGoes(h, pc) == HandlerBecomes(h, [handler[h] EXCEPT !.pc = pc])
HandlerDone(h) == HandlerBecomes(h, IdleHandler)
Silent == \A h \in Handlers : HandlerAt(h, "idle")

Handle(h, row, what) ==
    /\ HandlerAt(h, "idle") /\ handled < MaxHandled
    /\ handled' = handled + 1
    /\ unusual' = IF Silent THEN unusual
                  ELSE unusual \cup {"overlap"} \cup what
                       \cup IF \E g \in Handlers : handler[g].pc \in {"insert", "create", "redirect", "await"}
                            THEN {"checkout"} ELSE {}
    /\ HandlerBecomes(h, row)

(* performCreateCheckout *)

Checkout(h, b) ==
    /\ payment[b].status # "paid" /\ price > 0
    /\ Handle(h, [IdleHandler EXCEPT !.booking = b, !.amount = price,
                    !.pc = IF payment[b].status = "none" THEN "insert" ELSE "create"],
              {"checkout"})
    /\ UNCHANGED <<price, payment, finance, gateway, header, entries, settled>>

\* The unique idempotency_key refuses a second row.
CheckoutInsert(h) ==
    /\ HandlerAt(h, "insert")
    /\ LET b == handler[h].booking
       IN  IF payment[b].status = "none"
           THEN /\ payment' = [payment EXCEPT ![b] = [NoPaymentRow EXCEPT !.status = "created",
                                                          !.amount = handler[h].amount]]
                /\ HandlerGoes(h, "create")
           ELSE UNCHANGED payment /\ HandlerDone(h)
    /\ UNCHANGED <<price, finance, gateway, header, entries, settled, handled, unusual>>

CheckoutCreate(h) ==
    /\ HandlerAt(h, "create")
    /\ \E t \in MarketTokens :
          /\ gateway[t].booking = NoBooking
          /\ \A u \in MarketTokens : u < t => gateway[u].booking # NoBooking
          /\ gateway' = [gateway EXCEPT ![t].booking = handler[h].booking]
          /\ HandlerBecomes(h, [handler[h] EXCEPT !.pc = "redirect", !.token = t])
    /\ UNCHANGED <<price, payment, finance, header, entries, settled, handled, unusual>>

\* Whatever the status has become since.
CheckoutRedirect(h) ==
    /\ HandlerAt(h, "redirect")
    /\ payment' = [payment EXCEPT ![handler[h].booking].status = "redirected",
                                  ![handler[h].booking].token = handler[h].token]
    /\ HandlerGoes(h, "await")
    /\ UNCHANGED <<price, finance, gateway, header, entries, settled, handled, unusual>>

CheckoutAwait(h) ==
    /\ HandlerAt(h, "await")
    /\ finance' = [finance EXCEPT ![handler[h].booking] = "awaiting_payment"]
    /\ HandlerDone(h)
    /\ UNCHANGED <<price, payment, gateway, header, entries, settled, handled, unusual>>

(* performVerifyPayment *)

\* From the browser's callback and from the webhook alike.
Verify(h, b) ==
    /\ payment[b].status \notin {"none", "paid"} /\ payment[b].token # 0
    /\ Handle(h, [IdleHandler EXCEPT !.pc = "verify", !.booking = b, !.token = payment[b].token,
                                     !.amount = payment[b].amount], {})
    /\ UNCHANGED <<price, payment, finance, gateway, header, entries, settled>>

\* An answer that is not a clean "paid" counts as failed, a lost one included.
VerifyAnswer(h) ==
    /\ HandlerAt(h, "verify")
    /\ LET k == handler[h]
       IN  \/ HandlerGoes(h, "fail")
           \/ /\ gateway[k.token].paid
              /\ HandlerBecomes(h, [k EXCEPT !.pc = "look",
                   !.key = [kind |-> "pay", of |-> k.booking],
                   !.todo = PaymentEntries(k.amount, Commission(k.amount)),
                   !.commission = Commission(k.amount)])
    /\ UNCHANGED <<price, payment, finance, gateway, header, entries, settled, handled, unusual>>

\* ... where id and status <> 'paid'
VerifyFail(h) ==
    /\ HandlerAt(h, "fail")
    /\ LET b == handler[h].booking
       IN  payment' = [payment EXCEPT ![b].status = IF @ = "paid" THEN @ ELSE "failed"]
    /\ HandlerGoes(h, "failBooking")
    /\ UNCHANGED <<price, finance, gateway, header, entries, settled, handled, unusual>>

\* Faulty: the booking of a payment made in the meantime is marked failed.
FailedFinanceAlways(f) == "payment_failed"

FailedFinance(f) == IF f = "fully_paid" THEN f ELSE "payment_failed"

VerifyFailBooking(h) ==
    /\ HandlerAt(h, "failBooking")
    /\ finance' = [finance EXCEPT ![handler[h].booking] = FailedFinance(@)]
    /\ HandlerDone(h)
    /\ UNCHANGED <<price, payment, gateway, header, entries, settled, handled, unusual>>

VerifyPaid(h) ==
    /\ HandlerAt(h, "paid")
    /\ payment' = [payment EXCEPT ![handler[h].booking].status = "paid",
                                  ![handler[h].booking].commission = handler[h].commission]
    /\ HandlerGoes(h, "paidBooking")
    /\ UNCHANGED <<price, finance, gateway, header, entries, settled, handled, unusual>>

VerifyPaidBooking(h) ==
    /\ HandlerAt(h, "paidBooking")
    /\ finance' = [finance EXCEPT ![handler[h].booking] = "fully_paid"]
    /\ HandlerDone(h)
    /\ UNCHANGED <<price, payment, gateway, header, entries, settled, handled, unusual>>

(* performRefundPayment *)

Refund(h, b) ==
    /\ payment[b].status = "paid"
    /\ Handle(h, [IdleHandler EXCEPT !.pc = "look", !.booking = b,
                    !.key = [kind |-> "refund", of |-> b],
                    !.todo = RefundEntries(payment[b].amount, payment[b].commission)], {})
    /\ UNCHANGED <<price, payment, finance, gateway, header, entries, settled>>

RefundWrite(h) ==
    /\ HandlerAt(h, "refunded")
    /\ payment' = [payment EXCEPT ![handler[h].booking].status = "refunded"]
    /\ HandlerDone(h)
    /\ UNCHANGED <<price, finance, gateway, header, entries, settled, handled, unusual>>

(* performRequestSettlement *)

\* Faulty: an amount is granted as long as the balance is not negative.
CoveredUntilEmpty(amount) == PayableDebit <= PayableCredit

Covered(amount) == PayableDebit + amount <= PayableCredit

RequestSettlement(h, s, amount) ==
    /\ amount > 0 /\ Covered(amount)
    /\ [kind |-> "settle", of |-> s] \notin header
    /\ \A g \in Handlers : handler[g].key # [kind |-> "settle", of |-> s]
    /\ Handle(h, [IdleHandler EXCEPT !.pc = "look", !.key = [kind |-> "settle", of |-> s],
                                     !.todo = ReserveEntries(amount)], {})
    /\ UNCHANGED <<price, payment, finance, gateway, header, entries, settled>>

SettlementRow(h) ==
    /\ HandlerAt(h, "settled")
    /\ settled' = settled \cup {handler[h].key.of}
    /\ HandlerDone(h)
    /\ UNCHANGED <<price, payment, finance, gateway, header, entries, handled, unusual>>

(* postLedger *)

AfterLedger(key) == CASE key.kind = "pay" -> "paid" [] key.kind = "refund" -> "refunded"
                      [] key.kind = "settle" -> "settled"

LedgerLook(h) ==
    /\ HandlerAt(h, "look")
    /\ HandlerGoes(h, IF handler[h].key \in header THEN AfterLedger(handler[h].key) ELSE "header")
    /\ UNCHANGED <<price, payment, finance, gateway, header, entries, settled, handled, unusual>>

\* Faulty: idempotency_key without its unique constraint.
RefusesKeyNever(k) == FALSE

RefusesKey(k) == k \in header

\* A refused insert throws, and the handler with it.
LedgerHeader(h) ==
    /\ HandlerAt(h, "header")
    /\ LET k == handler[h].key
       IN  IF RefusesKey(k) THEN HandlerDone(h) /\ UNCHANGED header
           ELSE header' = header \cup {k} /\ HandlerGoes(h, "entries")
    /\ UNCHANGED <<price, payment, finance, gateway, entries, settled, handled, unusual>>

LedgerEntry(h) ==
    /\ HandlerAt(h, "entries")
    /\ LET k == handler[h]
           rest == Tail(k.todo)
       IN  /\ entries' = [entries EXCEPT ![k.key] = Append(@, Head(k.todo))]
           /\ HandlerBecomes(h, [k EXCEPT !.todo = rest,
                   !.pc = IF rest = <<>> THEN AfterLedger(k.key) ELSE "entries"])
    /\ UNCHANGED <<price, payment, finance, gateway, header, settled, handled, unusual>>

(* The world *)

\* The customer pays at the gateway.
CustomerPays(t) ==
    /\ gateway[t].booking # NoBooking
    /\ gateway' = [gateway EXCEPT ![t].paid = TRUE]
    /\ UNCHANGED <<price, payment, finance, header, entries, settled, handler, handled, unusual>>

HandlerStops(h) ==
    /\ ~HandlerAt(h, "idle")
    /\ unusual' = unusual \cup {"stop"}
    /\ HandlerDone(h)
    /\ UNCHANGED <<price, payment, finance, gateway, header, entries, settled, handled>>

Answered(h) ==
    \/ CheckoutInsert(h) \/ CheckoutCreate(h) \/ CheckoutRedirect(h) \/ CheckoutAwait(h)
    \/ VerifyAnswer(h) \/ VerifyFail(h) \/ VerifyFailBooking(h) \/ VerifyPaid(h)
    \/ VerifyPaidBooking(h) \/ RefundWrite(h) \/ SettlementRow(h)
    \/ LedgerLook(h) \/ LedgerHeader(h) \/ LedgerEntry(h) \/ HandlerStops(h)

\* A business may ask for more than it has ever earned.
Arrives(h) ==
    \/ \E b \in Bookings : Checkout(h, b) \/ Verify(h, b) \/ Refund(h, b)
    \/ \E s \in Settlements, n \in 1..(PayableCredit + 1) : RequestSettlement(h, s, n)

MarketNext ==
    \/ \E h \in Handlers : Arrives(h) \/ Answered(h)
    \/ \E t \in MarketTokens : CustomerPays(t)

MarketSpec == MarketInit /\ [][MarketNext]_marketVars

-----------------------------------------------------------------------------
(* Properties *)

\* The payments, the ledger and the handlers hold what their columns may hold.
MarketTypeOK ==
    /\ price \in MarketPrices
    /\ payment \in [Bookings -> PaymentRows]
    /\ finance \in [Bookings -> Finances]
    /\ gateway \in [MarketTokens -> [booking : Bookings \cup {NoBooking}, paid : BOOLEAN]]
    /\ header \subseteq Keys
    /\ entries \in [Keys -> Seq(Sides)]
    /\ settled \subseteq Settlements
    /\ handler \in [Handlers -> HandlerRows]
    /\ handled \in 0..MaxHandled
    /\ unusual \subseteq {"overlap", "checkout", "stop"}

\* The handlers that have the header of a key in the ledger and entries to add.
Posting(k) == {h \in Handlers : HandlerAt(h, "entries") /\ handler[h].key = k}

\* However often a payment is verified or refunded, by callback, webhook and
\* administrator at once, its entries are posted by one handler: nobody posts
\* under a key without a header, and no two post under the same one.
PostedOnce ==
    \A k \in Keys : /\ k \notin header => entries[k] = <<>> /\ Posting(k) = {}
                    /\ \A g, h \in Posting(k) : g = h

\* With nothing left half-way by a stop, every transaction in the ledger is
\* whole and balanced, and a paid or refunded payment has its transaction.
LedgerIsWhole ==
    Silent /\ "stop" \notin unusual =>
        /\ \A k \in header : entries[k] # <<>> /\ Balanced(entries[k])
        /\ \A b \in Bookings :
              payment[b].status \in {"paid", "refunded"} => [kind |-> "pay", of |-> b] \in header

\* However verifications that fail and succeed overlap, a paid payment ends
\* with a fully paid booking, as long as no checkout is among them.
PaidBookingAgrees ==
    Silent /\ {"stop", "checkout"} \cap unusual = {} =>
        \A b \in Bookings : payment[b].status = "paid" => finance[b] = "fully_paid"

NothingRefunded == \A k \in header : k.kind # "refund"

\* Requests that do not overlap never settle more than was earned.
SettledIsEarned ==
    "overlap" \notin unusual /\ NothingRefunded => PayableDebit <= PayableCredit

\* "G concurrent settlement cannot overspend"
ConcurrentSettlementCovered == NothingRefunded => PayableDebit <= PayableCredit
=============================================================================
