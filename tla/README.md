# Kasbokar: TLA+ models, checks and proofs

Kasbokar (`src/`) is a booking marketplace with a tattoo studio's back office:
a TanStack/Nitro server in TypeScript over PostgreSQL, a React application and
Android clients. This directory holds TLA+ models of the parts of the server
whose correctness depends on the order in which things happen, the TLC instances
that check them, and TLAPS proofs of what holds for every instance.

Paths are relative to the repository's root; files without a directory
(`writes.ts`, `tattoo-holds.ts`, `pocket-license.ts`, `studio-referrals.ts`, ...) are in
`src/lib/server/`.

## 1. The system

**How the code runs.** One Node process serves all requests. A handler awaits its
SQL statements one by one through a connection pool (`src/lib/db.ts`); almost no handler
opens a transaction, so every statement commits on its own and two handlers
interleave between any two statements. What protects shared state is therefore
what a single statement does: its `WHERE` clause, a unique index, a trigger.
No background job exists: expiry and repair happen when somebody loads a page.

| Component | State | Operations | Interacts with | What makes it correct | Modules |
|---|---|---|---|---|---|
| Tattoo request and slot hold (`writes.ts` 304-1110, `tattoo-holds.ts`, `tattoo-guest-pay.ts`) | `tattoo_requests`: status, payment status, booking id, deadline, proposed slot | create, decide, accept, submit receipt, decide receipt, sweep, delete, cancel job | inserts, cancels, confirms bookings; inserts payments | a slot is locked from acceptance to settlement, never for two, and given back when the hold lapses; nothing is confirmed before the deposit | `TattooHold` |
| Calendar (`writes.ts` 1392-1878, `migrations/0016_resources.sql`) | `bookings`; the overlap trigger | online booking, walk-in, block, status buttons, reschedule | requests, studio jobs, apprentices | live bookings never overlap | `TattooHold`, `SlotLock`, `StaffedCalendar` |
| Pocket licences (`pocket-license.ts`) | licence counter and cap, activations, signing key | issue, activate, refresh, self licence, update, revoke, release, publish keys | phones hold the tokens it signs | never more devices than the cap; a device counted once; one key | `PocketLicense` |
| Studio ledger (`writes.ts` 3031-3685, 4226-4318, `src/lib/studio-finance.ts`) | `tattoo_payments`, the cached `paid_toman`, `settled` | add, edit, delete a payment, price change, reconcile | requests, follow-up sessions | the cache is the sum; a payment is counted once | `StudioLedger` |
| Studio jobs (`writes.ts` 3951-4841, `studio-open-days.ts`) | booked requests (cards) together with bookings | create, move, exchange two days, cancel, follow-up session, clear the calendar, month view | approved receipts, reschedules and status buttons; ledger | card and booking agree; an exchange that fails leaves both where they were; a taken day stays one customer's | `StudioDiary` |
| Marketplace finance (`src/lib/finance/`) | payments, ledger transactions and entries, settlements | checkout, verify, refund, request a settlement | payment gateway, bookings' finance status | every transaction balances and is posted once; no more is settled than earned | `MarketFinance` |
| Learning-app codes (`src/lib/tattoo-learn/store.server.ts`) | code counter, device rows | activate, block, replace the oldest device | learning app | as many devices as the code allows | `LearnCodes` |
| Resources and any-staff booking (`writes.ts` 1392-1539, 2305-2440, `src/lib/calendar/resources.ts`) | people, bookings' resource | book, block, add, merge, delete people | the trigger | a booking gets a free person if there is one, and no person has two | `StaffedCalendar` |
| Waitlist (`writes.ts` 1371, 1880) | open entries | join, notify | cancellations | told once, the oldest first | `Waitlist` |
| Referral club (`studio-referrals.ts`) | referrals, rewards, outbox | attach, synchronise, override | every change of a request | a prize for the count, a message for each, and no message twice | `ReferralClub` |
| Apprentices (`studio-apprentices.ts`) | a day's lessons, session counters | mark, assign, set | blocks in the calendar | the counter is the number of sessions attended | `ApprenticeRoster` |
| Fill-ins, personal goals, intake pages, chat, estimates, rate limiter | single rows | single-row writes | | | |
| Hours, Jalali dates, search, geography | none | pure functions | | | |
| Sign-in, connectors, peer-to-peer, preparation tool, browser and Android clients, migrations and release scripts | | | | | |

**The hard behaviours.** (1) Check-then-act over two statements: calendar check then
insert, deposit look-up then insert, balance check then reserve, session count then number.
(2) A row read before an `await` and written afterwards by its id alone: the receipt, the
total of a payment, the cap of a licence. (3) Several statements that belong together and
can be cut by an error or a restart: book and confirm, the sweep's cancel and expire, the
exchange's cancel, move and confirm, a ledger transaction's header and entries.
(4) Compensations for a refused statement (activation counters, exchange, follow-up), which
may themselves be refused. (5) Caches and counters beside the rows they count. (6) Deadlines
that pass between any two statements, with `now()` evaluated anew by each. (7) Liveness that
depends on somebody opening a list. `PROJECT.json` lists each with its line.

## 2. Modules

One action is one SQL statement, with the computation that precedes it; the look-ups
that come before the first write of a handler are one action where nothing the properties
tell apart can happen between them (said in the module's header). A handler is a record
with a program counter and the values it has read. `...Stops` (`Abort` in `TattooHold`) is a
query that throws or a restart of the process between two statements. Variables marked
*history* record what has happened for the properties' sake; no guard of the code's reads
them, except the bound on requests.

| Module | What it is |
|---|---|
| `TattooHold` | requests, the slot each locks, the calendar and the deposit rows |
| `SlotLock` | the abstract lock the calendar implements |
| `StudioDiary` | the studio's cards and bookings as the staff panel, approvals, reschedules and status buttons write them |
| `StudioLedger` | the studio's payments, the cached total and `settled` |
| `PocketLicense` | one licence: counter, cap, activations, signing key |
| `LearnCodes` | one activation code of the learning app and its devices |
| `MarketFinance` | online payments, the double-entry ledger, settlements |
| `StaffedCalendar` | a business with staff: any-staff booking, blocks, merges |
| `Waitlist`, `ReferralClub`, `ApprenticeRoster` | what their names say |
| `MCTattooHold`, `MCPocketLicense`, `MCStudioDiary` | instances for TLC |
| `MCDiaryLicence` | `StudioDiary` and `PocketLicense` in one run |
| `MCMonthView` | `StudioLedger` and `StudioDiary` in one run: what opening the month view repairs |
| `MCDesks` | the six parts that share no row with anything above, in one run |
| `TattooHold_proofs`, `PocketLicense_proofs`, `StudioDiary_proofs`, `StudioLedger_proofs`, `MarketFinance_proofs` | TLAPS proofs about the module of that name |
| `TattooHoldSerial_proofs` | what `TattooHold`'s handlers keep when they run one after another |
| `Desks_proofs` | proofs about `LearnCodes`, `StaffedCalendar`, `Waitlist`, `ReferralClub` and `ApprenticeRoster` |
| `SumLemmas` | sums over finite sets and counting, for the proofs about ledgers and counters |

Definitions whose comment begins with "Faulty" are mutated forms that `PROJECT.json` names;
no specification uses them.

### TattooHold

`Arrive` is the first statement of an operation, `Continue` every later one, `Abort` a
query that throws or a restart of the process, `Lapse` the deadline of a request passing.

| Variable | Code |
|---|---|
| `req[r]` | row of `tattoo_requests`: `status`, `pay` (payment_status), `booking` (booking_id), `hold` (payment_hold_until: null, ahead, passed), `slot` (proposed_slot_start/end) |
| `bk[b]` | row of `bookings`: `status` ("over" is done or no_show), `slot`; `owner` and `byHand` are history: the request that inserted it, and whether the calendar's buttons wrote its status |
| `deposits[r]` | how many `tattoo_payments` rows noted as the deposit |
| `worker[w]` | handlers in flight |

| Actions | Code |
|---|---|
| `CreateRequest` | `performCreateTattooRequest` |
| `DecideRead`, `DecideOverlap`, `DecidePending`, `DecideCancel`, `DecideWrite` | `performDecideTattooRequest` |
| `AcceptRead`, `AcceptOverlap`, `AcceptInsert`, `AcceptRefused`, `AcceptWrite` | `performAcceptTattooProposal`, `acceptGuestByPhone` |
| `SubmitRead`, `SubmitWrite`, `SubmitCancel`, `SubmitExpire` | `performSubmitTattooReceipt`, `submitGuestReceiptByPhone` |
| `ReceiptRead`, `ReceiptPlan`, `ReceiptPay`, `ReceiptBook`, `ReceiptConfirm`, `ReceiptReject` | `performDecideTattooReceipt` |
| `SweepCancel`, `SweepExpire` | `expireOpenTattooHolds` |
| `DeleteRead`, `DeleteCancel`, `DeleteRow` | `performDeleteTattooRequest` |
| `CancelJobRead`, `JobCancel`, `JobWrite` | `performCancelStudioJob` |
| `WalkIn` | `performManualAppointment`; online bookings and blocks do the same to the calendar |
| `SetBookingStatus` | `performBookingStatus`, `performMarkStudioNoShow` |
| `RescheduleRead`, `RescheduleMove`, `RescheduleSync` | `performReschedule` |

The SET clause of each statement is an operator on the row (`Accepted`, `Expired`,
`Booked`, ...), its WHERE clause a guard or a set (`LapsedHold`, `CancelRequested`), and
`TriggerAllows` is the overlap trigger, which locks the business row and so runs alone.
A live booking that cannot be written is a refused statement, and the handler ends.

Abstractions: one shop without staff resources and buffers; all businesses belong to one
owner; times are sets of ticks; no statement inserts into `booking_holds`, so that table is
empty; prices, texts, receipts, notifications, chat and referral synchronisation are left
out, and so are the checks that a time is ten minutes ahead and not a Thursday; the three
SELECTs of a receipt's plan are one step; deposits are counted, not added up.

### SlotLock

A set of pairs (holder, place). A step releases all places of some holders, or gives one
holder all the places of a request when nobody else has any of them. `TattooHold` maps
live bookings to holders and `<<shop, tick>>` to places (`ImplementsSlotLock`).

### PocketLicense

`Begin`, `KeyInsert`, `KeyReread` are `getSigningKey`, which every handler calls first;
`Issue` is `ownerIssue`; `ReadLicence` the checks of `activateWithCode` and
`refreshLicense`; `BindLive`, `BindSlot`, `BindInsert`, `BindGiveBack`, `BindAgain` the
statements of `bindDevice`; `RefreshTouch` and `Sign` the rest; `UpdateRead` and
`UpdateWrite` `ownerUpdate`; `ReleaseRow` and `ReleaseCount` `ownerReleaseDevice`;
`Revoke` `ownerRevoke`; `Publish` `publicKeys`. `shown` (keys used or published) and `lost`
(slots whose handler stopped before settling them) are history. Left out: activation codes
and their reissue, dates and leases, the contents of a token, a key configured in the
environment, and the owner's self licence, which calls the same `bindDevice` and cannot be
revoked.

### StudioLedger

One customer: a primary job that carries the price, and its follow-up sessions.

| Variable | Code |
|---|---|
| `job[j]` | `tattoo_requests`: `open` (booked and not carry_closed; of a session, that its row exists), `price`, `paid` (paid_toman), `settled` |
| `pay[i]` | a row of `tattoo_payments`; 0 is a free row |
| `due`, `torn` | history: what the rows should add up to; whether handlers overlapped or stopped |

`AddRead`, `AddPlan`, `AddGap`, `AddRow`, `PaidWrite`, `AddCopy` are `performAddStudioPayment`
(`PlanGap` and `PlanPaid` are `paymentPlan`); `ChangeRead`, `ChangeRow`, `ChangeSum`,
`PaidWrite` the update and deletion of a payment; `RepriceRead` and `RepriceWrite` the price
in `performUpdateStudioJob`; `FollowUpInsert` copies the row of the job a session follows, its
total included, and `FollowUpOwn` gives it a price of its own and no money, as
`performFollowUpStudioJob` does in two statements; `Reconcile` is `reconcilePaidFromPayments`, which every month view
begins with; `ClosePrimary` a cancellation or a carry. Left out: the deposit of a receipt
(`TattooHold` counts it), `bookings.finance_status`, which nothing reads back, and the money
a continuation takes over.

### StudioDiary

| Variable | Code |
|---|---|
| `card[j]` | `tattoo_requests` of the studio: `status`, `seat` (booking_id), `at` (proposed_slot_start), `root`, `index`, `session` (the columns of a follow-up); `squeezed` is history: the card has its day from an approval or a reschedule, which do not ask whether the day is full |
| `seat[b]` | `bookings`: `status`, `at`; `asked` is the proposed time of the request, not yet approved, that holds the booking |
| `staff[s]` | handlers in flight |
| `odd` | history: whether requests overlapped, stopped half-way, left a cancelled booking or an unapproved request behind (`unmoved`), deleted a card, or pressed a status button |

| Actions | Code |
|---|---|
| `Create`, `CreateInsert` | `performCreateStudioJob` |
| `Move`, `MoveCard`, `MoveSeat` | `performUpdateStudioJob`, the time |
| `Swap`, `SwapCancel`, `SwapMove`, `SwapConfirm`, `SwapRestore`, `SwapCards` | `performSwapStudioJobs` and its compensation |
| `CancelSeat`, `CancelCard`, `DeleteCard` | `performCancelStudioJob`, `performDeleteTattooRequest` |
| `FollowUp`, `FollowSeat`, `FollowCount`, `FollowCard`, `FollowUndo`, `FollowIndex` | `performFollowUpStudioJob` and its compensation |
| `SetSession`, `SessionSeat` | `performSetStudioSessionStatus` |
| `ClearSeats`, `ClearLinks` | `performClearStudioCalendar` |
| `MonthLoad` | the repair at the head of `performStudioMonthJobs` |
| `OtherBooks` | `performAcceptTattooProposal`, as far as the calendar sees it; a marketplace customer's booking is one that is never approved |
| `Approve`, `ApproveSeat` | `performDecideTattooReceipt`, approved: the request becomes a card, then its booking is confirmed |
| `Reschedule`, `RescheduleCard` | `performReschedule` |
| `SetBookingStatus` | `performBookingStatus`, the booking of `performMarkStudioNoShow` |

A time is a day and an hour, because the exchange swaps the days and keeps the clock times,
the full-day check looks at days and the month view compares days. The month view's repair
is one UPDATE of all stray bookings; where one of them is to go to a time that another is about
to leave, the trigger's answer depends on the order of the rows, so the step may be refused
(`Crossing`); `MonthRepairs` is the part that depends on nothing. The look-ups of an approval,
a reschedule or a status button are one action with its first write. Left out: what happens to
a request before its approval (`TattooHold`), sessions of
different lengths, more than one seat or artist, the branch of a follow-up that returns a
booking the same person has at that time, and the columns no calendar property reads.

### MarketFinance

`payment`, `finance` (bookings.finance_status), `header` and `entries` (ledger_transactions and
ledger_entries by idempotency key), `settled`, and `gateway`, the provider's side. Each of
`performCreateCheckout`, `performVerifyPayment`, `performRefundPayment` and
`performRequestSettlement` is a chain of actions that meet in `LedgerLook`, `LedgerHeader`,
`LedgerEntry` (`postLedger`). `Rule` picks the most specific commission rule and `Commission`
rounds and caps as `commission.ts` does. A verification comes from the browser's callback and
from the webhook alike; a lost answer counts as a failed one. Left out: `finance/engine.ts`,
an in-memory double that only tests call and the only place where settlements fail
or complete; deposits; and a price that changes between two checkouts.

### LearnCodes

`code` (active, expired, `used`), `access` (device, token, blocked). `ActivateRead`,
`ActivateLook`, `RenewToken`, `PickOldest`, `ReplaceOldest`, `TakePlace`, `InsertAccess`,
`GiveBack` are the statements of `activateLearnCode` (any insert that fails gives its place back); `SetCodeActive` and `SetAccessBlocked`
the owner's; `CodeExpires` the clock. `last_seen` is left out, so any row may turn out
to be the oldest of its kind (`Oldest`).

### StaffedCalendar

`person` (active, off, gone), `visit` (`with` is resource_id, `staff` staff_id). `BookRead`,
`BookTry`, `BookAgain` are `performCreateBooking` with its retries; `CreateBlock`,
`UpsertResource`, `DeleteResource`, `CancelVisit` one statement each; `ListResources`,
`MergeVisits`, `MergeDrop` the list of people, which merges duplicates before it answers: the
one of a name that is kept is the first of the rows it read (`FirstIn`), gone or not.
`free` is history: who has been free all along for a request in flight. Left out: working
hours, slots that overlap each other, and a person's change of name.

### Waitlist, ReferralClub, ApprenticeRoster

`Waitlist` is `performWaitlistJoin` and `notifyWaitlist`, with `Page` for its limit of 20.
`ReferralClub` is one member: `AttachRead`, `AttachInsert` (`attachReferral`), `SyncRead`,
`SyncWrite`, `SyncCount` (`applyReferralSync`), `QueueLook`, `QueueInsert` (`queueSms`),
`PrizeLook`, `PrizeInsert` (`rewardState`), `SetOverride`, `OverrideRead`, `SetReward`; the
customer's request is met in any stage, and stages that no message tells apart are one.
`ApprenticeRoster` is one Thursday: `MarkRead`, `MarkCount`, `MarkWrite`
(`performMarkApprenticeSlot`), `AssignRead`, `OtherCount`, `OtherWrite`, `OwnCount`, `OwnWrite`
(`performAssignApprenticeSlot`), `SetProgress`; the calendar blocks of the board, debts and
payments are left out.

### MCMonthView, MCDiaryLicence and MCDesks

Parts that share no row and call nothing of each other can be checked in one run: a
variable of the instance (`part`, `desk`) picks one part at the beginning, the others
stay at their initial states. A behaviour of the composition is a behaviour of one part, so
every property says as much as in a run of its own. `MCMonthView` puts together the two
repairs that one page load performs, `MCDiaryLicence` the calendar and a licence; `MCDesks` the six parts around the studio.

## 3. Runs

| Run | Instance | Checks |
|---|---|---|
| `hold_serial` | 2 requests (one without deposit), 2 bookings, 2 overlapping times, 1 handler; 1.4 million states | `LockHeld`, `NoOrphanLock`, `ProposalsDisjoint`, `SlotAgrees`, `BookedIsConfirmed`, `DepositOnce` |
| `hold_race` | 1 request, 2 bookings, 1 time, 2 handlers, crashes, clock anywhere; 0.9 million | `NoOverlap`, `NoStaleLink`, `DebtHasDeadline`, `ConfirmedOnlyAfterDeposit` |
| `hold_calendar` | 1 request, 2 bookings, 2 overlapping times, 2 handlers; 0.5 million | `ImplementsSlotLock` |
| `hold_live` | 1 request, 2 bookings, 1 time, 2 handlers, fairness | `LapsedHoldIsSettled`, `LapsedLockIsReleased` |
| `diary_race` | diary: 2 appointments, 2 more rows, 3 days of 2 hours, 2 staff members, 3 requests or 2 that meet; licence: 2 phones, 3 activation rows, 2 key pairs, 2 handlers, cap up to 2, stops; 0.6 million | `NoDoubleBooking`, `CardsMatchCalendar`, `OneCardPerDay`, `SessionNumbers`; `CounterIsExact`, `BoundOnce`, `OnePrimaryKey`, `OnlyUpdateOvershoots` |
| `month_view` | ledger: 1 job, 1 session, 2 clerks, 3 requests, older money; diary: 3 days of one hour, 2 staff members, 2 requests; fairness; 0.1 million | `NothingLost`, `NothingInvented`, `TotalIsSum`, `SettledIsPaid`, `BehindIsRepaired`, `StrayFollows` |
| `desks_race` | two handlers at each desk, 2-4 requests (below); 0.25 million | `PlacesAddUp`, `DevicesCapped`, `TokenIsOwn`; `PostedOnce`, `LedgerIsWhole`, `PaidBookingAgrees`, `SettledIsEarned`; `OneAtATime`, `TurnedAwayWhenFull`, `PersonKept`; `ToldOnce`; `ClubKeepsItsWord`; `AttendedIsCounted` |
| `hold_leak`, `licence_cap`, `diary_full`, `ledger_double`, `market_overdraw` | the smallest instance that shows it | one property each, violated: section 5 |

The type invariants were checked on these instances too, and are proved (section 4).

**Bounds.** In the hold runs and in the licence ids are consumed, not recycled, so the number
of requests, bookings and activation rows bounds a behaviour; `hold_*` and `licence_cap` check
deadlock.
Two bookings are the fewest that can overlap, and with two requests they let one lock outlive
its proposal while the other customer moves in. Two handlers show every interleaving of a
pair, which is what the hazards are about. `Enabled` names the operations an instance explores.
The serial run leaves out `decideBooked` (an answer `booked` that the application never sends)
and moving the booking of a request that is not booked yet (`rescheduleOpen`): in the first
case the old lock, in the second the old time, stays with the request by the code's own
WHERE clauses, and the properties of that run do not claim otherwise. Both are in
other runs (`hold_race`, `hold_calendar`) and in the proofs.

In the other runs a counter bounds the requests of a behaviour (`MaxCalls`, `MaxRequests`,
`MaxHandled`, `MaxOpened`, `MaxTokens`, `MaxOwned`, `MaxReleases`, `MaxClub`, `MaxBoards`);
when it is spent the behaviour is over, so these configurations say `CHECK_DEADLOCK FALSE`.
On the diary a request that begins beside another counts `MeetCost`, 2 in `diary_race`: three
requests one after another (an accepted proposal, its approval on a taken day, and a move or an
exchange that builds on it), or one that meets another anywhere. In `month_view` it is 1, with
one hour a day, and two requests may overlap: an exchange or a reschedule and what it leaves behind. Instances of one staff member with up to five were explored as well,
because a proof attempt showed that three hid a case (section 4, "What the proof found"). On
the ledger they are a payment, a change that empties or closes, and a payment on top. At the
marketplace one booking is checked out twice, paid, verified twice and refunded, with a price
of 5 and one of 1 that the commission eats up; two settlements. A learning code of 2 devices
meets 3 devices, so that the oldest is replaced. Two people of one name and 3 visits make a
merge with and without a clash. In the club a request that begins beside another counts twice
towards `MaxClub`: 4 are one referral that earns the prize, loses it and earns it again, or
two referrals that earn two prizes, or two synchronisations at once that earn the same one.
Two lessons and two apprentices make an exchange of lessons.

**Symmetry** only permutes handlers, devices, settlements and referrals, which no operator
orders; the runs with liveness have none. `MCMonthView` instead lets the second clerk or staff
member begin only beside the first one's request, and `MCDiaryLicence` fills activation rows in
order (`InOrder`): both only choose among behaviours that differ in names.

**Two kinds of safety.** `NoOverlap`, `NoDoubleBooking`, `NothingLost`, `CounterIsExact`,
`PlacesAddUp`, `DevicesCapped`, `PostedOnce`, `OneAtATime`, `TurnedAwayWhenFull` and the like
state what no interleaving, stop or late clock can break. `LockHeld`, `CardsMatchCalendar`,
`TotalIsSum`, `TokenIsOwn`, `SettledIsEarned`, `PersonKept`, `AttendedIsCounted` and the like state
what holds of requests handled one after another, which is how a single-artist studio mostly
runs: there is no transaction or lock in the code that could promise more, and section 5
shows what overlapping requests do. Such a property reads a history variable and is checked
in behaviours that have long sequences of requests, so that it is about the path and
not about one handler.

**Fairness.** `WF(Continue(w))` for each handler: Node runs a handler it has begun, one
statement after another. `SF(SweepCancel)`: the studio's list is loaded again and again,
and each load starts with the sweep; strong, because a worker is not always idle.
`WF(Reconcile)` and `WF(MonthRepairs)`: somebody opens the studio's month again and again;
nothing else repairs, so `BehindIsRepaired` and `StrayFollows` need no fairness of anybody's
handlers. No fairness on customers, on the owner or on the clock. `hold_live` does not include
crashes or a clock that ticks inside a handler: with them the lock can leak (`hold_leak`).

## 4. Proofs

All for any number of rows, handlers, people, devices and requests, from the named assumptions
on the constants only, which TLC evaluates in the runs: `SlotsHaveLength`, `FreeAreRequests`,
`NoneIsNoId`, `EnabledAreOperations` (`TattooHold`); `MaxDevicesIsPositive`, `Finite`,
`NoneIsNothing` (`PocketLicense`); `DiaryAssumption`, `LedgerAssumption`, `LearnAssumption`,
`MarketAssumption`, `StaffedAssumption`, `WaitlistAssumption`, `ClubAssumption`,
`RosterAssumption`. They say that ids are numbers or differ from the word for "none", that a
table's ids are finite where rows are counted or added up, that amounts and limits are natural
numbers (the amounts somebody types are positive), and that two appointments a diary begins with
have cards, bookings and times of their own.

| Theorem | States | Argument |
|---|---|---|
| `TattooHold_proofs!TypeCorrect` | `[]TypeOK` | one lemma per kind of row says that every SET clause keeps it |
| `NeverOverlapping` | `[]NoOverlap` | inductive with `TypeOK`; lemma `CalendarStep`: a step frees bookings or passes the trigger for one |
| `CalendarIsASlotLock` | `ImplementsSlotLock` | the same lemma; the two kinds of step map to `Release` and `Take` |
| `Exclusion`, `OneBookingPerPlace` | whatever implements the slot lock has one holder per place; so has the calendar | the abstract invariant is inductive, and the refinement carries it over |
| `NeverAStaleLink`, `EveryDebtHasADeadline` | `[]NoStaleLink`, `[]DebtHasDeadline` | lemma `ColumnStep`: how any step may move the columns of one request row |
| `DepositBeforeConfirmation` | `[]ConfirmedOnlyAfterDeposit` | not inductive alone, see below |
| `TattooHoldSerial_proofs!OneOfferPerTime`, `DepositNeverTwice` | `[]ProposalsDisjoint`, `[]DepositOnce` under `OneHandler` | `RowInv`: what a lone handler has read is still so when it writes |
| `SlotStaysLocked`, `EveryLockHasARequest`, `RequestShowsItsTime`, `BookedMeansConfirmed` | `[]LockHeld`, `[]NoOrphanLock`, `[]SlotAgrees`, `[]BookedIsConfirmed` under `Serial` | `LockInv`, see below |
| `PocketLicense_proofs!TypeCorrect` | `[]TypeOK` | inductive with what a handler at the key knows |
| `CounterNeverDrifts` | `[]CounterIsExact` | cardinalities of live rows and of handlers holding a slot move by one with the counter; needs that an unissued licence is unused, and that a decrement happens only when a slot is held, so `greatest(.., 0)` never hides one |
| `DevicesBoundOnce` | `[]BoundOnce` | the unique index |
| `KeyNeverRotates` | `[]OnePrimaryKey` | strengthened by: past `getSigningKey` a handler's key is the primary one |
| `OvershootIsTheUpdate` | `OnlyUpdateOvershoots` | by the statements that write the licence's row |
| `StudioDiary_proofs!DiaryTypes` | `[]DiaryTypeOK` | strengthened by what a handler carries at each statement (`WellFormed`) |
| `NoTimeGivenTwice` | `[]NoDoubleBooking` | lemmas on what the trigger lets through: a step that only frees or keeps times, one that takes one time, and the statements on both bookings of an exchange, whose new times must also differ from each other |
| `OneADay` | `[]OneCardPerDay`, if the appointments of the beginning are on days of their own (`BegunDays`) | `SerialInv`: as long as nothing overlaps or stops one handler is at work, the day it found free is free when it writes, an exchange gives each card the day of the other together with how it was come by, and only `Approve` and `RescheduleCard` write `squeezed` |
| `CardsAndBookingsAgree` | `[]CardsMatchCalendar` | `MatchInv`, see below |
| `SessionsNumbered` | `[]SessionNumbers` | `NumberInv`: no session's number is above the count of its job's sessions, and the one being made has the next |
| `StudioLedger_proofs!NoMoneyLost` | `[]NothingLost` | `Kept`: the rows cover what is due, or nobody has added a row to the primary job yet (`Untouched`) and everybody who is about to carries the older money |
| `NoMoneyInvented`, `TotalShowsTheRows` | `[]NothingInvented`, `[]TotalIsSum` | `Tallies`: until something is torn the total equals the rows, or there are no rows yet, or the one handler at work is between a row and the total; while the primary job is open its sessions have no rows and get none |
| `SettledMeansPaid` | `[]SettledIsPaid` | `Settling`: the price a handler carries is the job's, because it is alone; a repair in the middle of it changes no price and lowers no total |
| `MarketFinance_proofs!MarketTypes` | `[]MarketTypeOK` | the commission is a natural number not above the amount, so the entries are natural too |
| `EntriesPostedOnce` | `[]PostedOnce` | who passes the unique header is alone at the entries of its key, and the header is never taken away |
| `PaidMeansFullyPaid` | `[]PaidBookingAgrees` | `PaidInv`: between the two updates of a verification, the one that wrote the first is about to write the second |
| `LedgerStaysWhole` | `[]LedgerIsWhole` | `Balances`: what is in the ledger and what a handler has still to post balance together; `Accounted`: a payment is paid only under its header |
| `SettlementsAreEarned` | `[]SettledIsEarned` | `Earned`: what a lone settlement is about to take is covered, for its entries never take more than the balance it summed up, and payments only add to it |
| `Desks_proofs!PlacesNeverDrift` | `[]PlacesAddUp` | counting again: rows are filled and written over, never emptied, and `greatest(0, ..)` never acts because the place being given back is in the sum |
| `NeverMoreDevices` | `[]DevicesCapped` | from the sum, and `used_count <= max_devices` by the conditional UPDATE |
| `TokenOpensItsDevice` | `[]TokenIsOwn` | `TokensOwned`: an activation under way alone has a token nobody has got, and renews a row of its own device |
| `StaffedTypes` | `[]StaffedTypeOK` | inductive with: an owner who is merging has somebody left to merge |
| `NobodyTwice` | `[]OneAtATime` | strengthened by `Kept`: the person the trigger knows is the person the calendar shows, or nobody; without it a merge, which picks its rows by either column, could move a booking unseen |
| `NobodyTurnedAwayInVain` | `[]TurnedAwayWhenFull` | `SearchInv`: whoever has been free all along is eligible, not tried yet, and free in what the handler read |
| `MergingLosesNoBooking` | `[]PersonKept` | `MergeInv`: a duplicate that is about to be dropped has no live booking, and is never the person its bookings were moved to |
| `WaitlistTypes` | `[]WaitlistTypeOK` | inductive with the invariant below |
| `NobodyToldTwice` | `[]ToldOnce` | strengthened by: as long as nothing is tangled one release is in flight, its rows are the next of the list and open, and all rows before them have been told |
| `ClubTypes` | `[]ClubTypeOK` | inductive with the invariant below |
| `ClubPromise` | `[]ClubKeepsItsWord` | `QueuesAlone`: a message about to be queued is not there yet; `CountsAlone`: a prize that the one synchronisation under way has not still to look at suits the count, which nobody changes meanwhile; `SyncShape`: what a synchronisation carries at each statement |
| `RosterTypes` | `[]RosterTypeOK` | the counter stays between 0 and the goal, whatever overlaps |
| `CounterCountsLessons` | `[]AttendedIsCounted` | `Tidy`: while a request is at work the counter is ahead of the lessons by exactly what the lesson it is about to write will add or take (`Ahead`), and what it read is still so (`Knows`) |

`DepositInv` strengthens `ConfirmedOnlyAfterDeposit`. The approval's last statement confirms
whatever booking id the handler read several statements ago, so the invariant also says
what handlers know: a booking a request points at is that request's (`LinksOwned`), a
handler that is about to book or confirm works on a request whose deposit is recorded, and a
booking id it carries belongs to its request (`HandlersKnow`). Without the second part a
receipt could be confirmed with the deposit still missing; without the first it could
confirm a stranger's booking.

**One handler after another.** The six serial properties of `TattooHold` are false of
overlapping handlers (section 5), so their theorems have a hypothesis on the constants, which
is the configuration `hold_serial` checks: `OneHandler` (one worker; handlers may still stop
anywhere and the clock may tick inside them) or `Serial` (besides, no stop, no tick inside a
handler, and the two operations section 3 excludes). `LockInv` says of each pair of rows that
it agrees, or that the handler in flight is between the two statements that will make it
agree, and names the statement. It needs all earlier invariants: the sweep gives a lock
back only because every debt has a deadline, and an acceptance can only fail before its
request says approved because the trigger decides first.

**Sums.** What is proved about money needs `MapThenSumSet` of a set that changes by one
row. `SumLemmas` proves that the sum of a finite set is one member's value and the sum
of the others, whichever member it is. Induction theorems with an operator as parameter are
out of the provers' reach, so the inductions there are arguments by a least counterexample on
sets of numbers, and `MarketFinance` and `StudioLedger` sum over sets, not sequences.

**The diary.** `MatchInv` says of every card that its booking is at its time, and live unless
the session is cancelled or a status button was pressed, or that the card is in the hands of the
one handler at work (`Changing`), and how far that handler has come with it (`Course`). It rests
on `SerialInv`: no two cards have one booking, and the booking of a request still to be approved
has no card. In an exchange, before the second
statement both bookings are dead, after it both are at the other's day, after the third both are
live again. A compensation that goes through leaves both cards as they were; one that the
trigger refuses in its turn counts as stopped half-way.

*What the proof found.* `CardsMatchCalendar` used to leave out only overlaps and stops. Its
proof failed at a request that moves a session after it was cancelled: the update of the booking
passes over cancelled ones (`writes.ts`:4078), so the card gets the new time and the booking
keeps the old one, and setting the session to planned again (:4813-4818) confirms the
booking there. It takes a follow-up, a cancellation, a move and a change of status, one request
more than `diary_race` makes, so TLC had passed. The history variable now records such a
move (`unmoved`) and the property leaves these behaviours out by name. The invariants were
then checked with TLC on instances with up to five requests of one staff member before they
were proved.

Only model-checked: the liveness properties (`ENABLED` and fairness are beyond the prover) and
the violations. Every safety property of a passing run, and every action property, is the
statement of a theorem.

## 5. What the violations show

* **`hold_leak`**: `expireOpenTattooHolds` cancels bookings (`writes.ts`:317) and expires
  requests (:318) in two statements with a `now()` each. A hold that lapses in between is
  expired, and its link cleared, while its booking stays `requested`: no later sweep sees it.
* **`licence_cap`**: `ownerUpdate` compares the new cap with a counter it read earlier
  (`pocket-license.ts`:324) and writes it unconditionally (:326).
* **`diary_full`**: an approved receipt (`writes.ts`:1091-1095) makes a request a card, and a
  reschedule (:1848-1858) moves a card, on a day that another customer has. The panel refuses
  such a day (`dayAlreadyTaken`, called at :4068, :4471 and :4635) and says of it "A day with any
  remaining customer sitting is full, whatever the length" (`studio-open-days.ts`:47); these two
  only look at the time. `OneCardPerDay` is what is left: nothing else puts a second card there.
* **`ledger_double`**: one clerk, one request at a time. A payment on a follow-up session
  copies the primary job's total to the session (`writes.ts`:4310); once the primary is
  closed, the next payment there takes that total for older money and enters it again.
* **`market_overdraw`**: two settlement requests read the same balance
  (`src/lib/finance/server.ts`:335) and both reserve it.

What else overlapping or stopped requests do, found while modelling; the properties
above leave these cases out by name, and no run claims them:

* A receipt submitted while the sweep or a new answer comes in between is written by id alone
  (`writes.ts`:1043): it is under review without a lock.
* An approval books the request (:1091) before its booking is confirmed (:1095); when the
  time was given away the trigger refuses the latter. Two approvals at once both find no
  deposit row (:1079) and insert one each.
* A reschedule of a booking whose request is not approved yet leaves the request's proposed time
  where it was (:1857 asks for `booked`); the approval then makes a card at the old time with a
  booking at the new one. A status button on a card's booking (:1580) leaves the card as it is,
  with a booking that is cancelled or over; its time is free for others. A month view opened
  between the two statements of a reschedule (:1848, :1854) moves the booking back to the card's
  old day, and the card then goes to the new one; the next view moves the booking after it.
* In the diary, one refusal by the trigger fails the month view for everybody (`MonthBlocked`);
  a month view opened in the middle of an exchange moves bookings back; a deleted session frees
  a number that its follower gets again; after the calendar is cleared the full-day
  check does not see the unlinked cards; an exchange confirms the booking of a cancelled session;
  a cancelled session that is given another time and then planned again has its booking at the
  old one.
* At a learning code, a renewal writes its token by row id, which may be another
  device's by then; a stopped activation keeps its place for good; a blocked row is the first
  to be reused.
* At the marketplace, a `postLedger` stopped after the header leaves a payment without
  entries for ever, since every retry finds the header; a checkout beside a verification sets
  a paid payment back to redirected; a refunded payment can be verified again; a second
  checkout forgets the first one's token and charges the new price while the row keeps the
  old amount.
* With staff, the merge of duplicates fails when both are booked at one time; a booking taken
  by the duplicate between the merge's two statements, and any booking of a deleted person,
  has nobody in the trigger's eyes and stands in everybody's way.
* Overlapping releases of one day tell the same people twice.
* Two synchronisations of one referral at once may queue a message twice; one that stops
  after its update never queues it.
* A lesson marked twice at once counts twice; a lesson given again to the apprentice who was
  present in it is planned again, but stays counted.

## 6. Not modelled

* Of modelled parts: `removeRetiredCollaborators`, the badge that
  `performMarkStudioNoShow` puts on a customer, and the archive; buffers,
  bookable hours and `booking_holds` (which no code inserts) in the calendar; the deposit of a
  receipt and `bookings.finance_status` in the studio's ledger; the money of a continuation; price
  changes between checkouts; the calendar blocks of the apprentices' board; members, codes and
  tiers of the club; what section 2 says of each module.
* Fill-ins, personal goals, intake pages, chat and estimates: single-row writes whose rows relate
  to nothing else. The rate limiter is a counter in memory.
* Hours, Jalali dates, search and geography: pure functions without state. A model of
  them would repeat the code line by line.
* Sign-in, connectors, peer-to-peer rooms, the preparation tool's image pipeline, migrations and
  release scripts: pure I/O or configuration of libraries.
* The browser and Android clients, which are most of the repository's lines: screens and
  forms. They keep nothing that the server relies on; what they send is an input of the actions.
  The models therefore stand for a small share of the repository's lines and for most of its
  protocols.

What would come next: the receipt's deposit joined to `StudioLedger`, so that the money a customer
sends is followed from the receipt to the job's total; sessions of different lengths in the diary;
the bookable hours and slots of a business; the serial theorems under hypotheses on which
requests may overlap, instead of none.
