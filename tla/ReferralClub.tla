------------------------------ MODULE ReferralClub ------------------------------
(***************************************************************************)
(* One member of the studio's referral club: the customers who came with   *)
(* the member's code, the prizes for so many successful ones, and the      *)
(* messages queued for the member (src/lib/server/studio-referrals.ts).    *)
(*                                                                         *)
(* A synchronisation recomputes everything from the customer's request: it *)
(* is called after every change of a request, and for all of them in turn  *)
(* when somebody opens the desk.  One action is one statement.  The        *)
(* request itself is TattooHold's: a synchronisation finds it in any stage. *)
(***************************************************************************)
EXTENDS Naturals, Sequences, FiniteSetsExt

CONSTANTS
    Referrals,   \* numbers of studio_referrals rows: a request, a phone
    Syncs,       \* handlers that may be in flight at the same time
    Milestones,  \* how many successful referrals earn a prize
    MaxClub,     \* bound: requests in one behaviour
    NoReferral

ASSUME ClubAssumption ==
    /\ IsFiniteSet(Referrals) /\ NoReferral \notin Referrals
    /\ Milestones \subseteq Nat \ {0} /\ MaxClub \in Nat

VARIABLES
    referral,  \* studio_referrals
    reward,    \* studio_referral_rewards
    outbox,    \* studio_referral_outbox: how many rows of each message
    sync,
    asked,     \* history: requests so far
    byHand,    \* history: prizes the owner has set himself
    ragged     \* history: what has happened out of the ordinary

clubVars == <<referral, reward, outbox, sync, asked, byHand, ragged>>

-----------------------------------------------------------------------------
(* State *)

\* "priced" stands for priced, time and paid; "submitted" for reviewed too.
Stages == {"submitted", "priced", "booked", "closed"}
Overrides == {"unset", "yes", "no"}

ReferralRows == [stage : Stages \cup {"none"}, successful : BOOLEAN, override : Overrides]
NoReferralRow == [stage |-> "none", successful |-> FALSE, override |-> "unset"]

Messages == [kind : {"submitted", "priced", "booked"}, of : Referrals]
                \cup [kind : {"prize"}, of : Milestones]

\* stage, successful: what is about to be written; todo: messages to queue;
\* prizes: milestones still to look at.
SyncRows == [pc : {"idle", "attach", "read", "write", "count", "look", "queue", "prize", "award"},
             of : Referrals \cup {NoReferral}, stage : Stages, successful : BOOLEAN,
             todo : Seq(Messages), count : Nat, prizes : SUBSET Milestones]
IdleSync == [pc |-> "idle", of |-> NoReferral, stage |-> "submitted", successful |-> FALSE,
             todo |-> <<>>, count |-> 0, prizes |-> {}]

ClubInit ==
    /\ referral = [i \in Referrals |-> NoReferralRow]
    /\ reward = [m \in Milestones |-> "none"]
    /\ outbox = [x \in Messages |-> 0]
    /\ sync = [h \in Syncs |-> IdleSync]
    /\ asked = 0
    /\ byHand = {}
    /\ ragged = {}

Linked == {i \in Referrals : referral[i].stage # "none"}
Successes == Cardinality({i \in Referrals : referral[i].successful})

SyncAt(h, pc) == sync[h].pc = pc
SyncBecomes(h, row) == sync' = [sync EXCEPT ![h] = row]
NobodySyncs == \A h \in Syncs : SyncAt(h, "idle")

\* What comes next: messages first, then the next prize, in this order.
Onward(row) == IF row.todo # <<>> THEN [row EXCEPT !.pc = "look"]
               ELSE IF row.prizes # {} THEN [row EXCEPT !.pc = "prize"] ELSE IdleSync

\* For the bound, a request beside another counts twice.
BoundedAsk ==
    LET n == IF NobodySyncs THEN 1 ELSE 2
    IN  /\ asked + n <= MaxClub /\ asked' = asked + n
        /\ ragged' = IF NobodySyncs THEN ragged ELSE ragged \cup {"overlap"}

Asks(h, row) == SyncAt(h, "idle") /\ BoundedAsk /\ SyncBecomes(h, row)

-----------------------------------------------------------------------------
(* attachReferral: a new request with the member's code *)

AttachRead(h, i) ==
    /\ i \notin Linked
    /\ Asks(h, [IdleSync EXCEPT !.pc = "attach", !.of = i])
    /\ UNCHANGED <<referral, reward, outbox, byHand>>

\* request_id and referred_phone are unique; a refusal is caught.
AttachInsert(h) ==
    /\ SyncAt(h, "attach")
    /\ LET i == sync[h].of
       IN  IF i \in Linked THEN UNCHANGED referral /\ SyncBecomes(h, IdleSync)
           ELSE /\ referral' = [referral EXCEPT ![i].stage = "submitted"]
                /\ SyncBecomes(h, Onward([IdleSync EXCEPT
                                            !.todo = <<[kind |-> "submitted", of |-> i]>>]))
    /\ UNCHANGED <<reward, outbox, asked, byHand, ragged>>

-----------------------------------------------------------------------------
(* applyReferralSync *)

Priced(stage) == stage \in {"priced", "booked"}

\* What the request's stage makes of the referral; the owner's word comes first.
NowSuccessful(i, now) == IF referral[i].override = "unset" THEN now = "booked"
                         ELSE referral[i].override = "yes"
NowStage(i, now) == CASE referral[i].override = "no" -> "closed"
                      [] referral[i].override = "yes" /\ now = "closed" -> "booked"
                      [] OTHER -> now

\* A message goes out on the way to a price and to success, by the row as read.
News(i, now) ==
    LET told(kind, yes) == IF yes THEN <<[kind |-> kind, of |-> i]>> ELSE <<>>
    IN  told("priced", Priced(NowStage(i, now)) /\ ~Priced(referral[i].stage))
          \o told("booked", NowSuccessful(i, now) /\ ~referral[i].successful)

AsRead(i, now) ==
    LET changed == \/ NowStage(i, now) # referral[i].stage
                   \/ NowSuccessful(i, now) # referral[i].successful
    IN  [pc |-> IF changed THEN "write" ELSE "count", of |-> i, stage |-> NowStage(i, now),
         successful |-> NowSuccessful(i, now), todo |-> IF changed THEN News(i, now) ELSE <<>>,
         count |-> 0, prizes |-> Milestones]

SyncRead(h, i, now) ==
    /\ i \in Linked
    /\ Asks(h, AsRead(i, now))
    /\ UNCHANGED <<referral, reward, outbox, byHand>>

SyncWrite(h) ==
    /\ SyncAt(h, "write")
    /\ LET k == sync[h]
       IN  referral' = [referral EXCEPT ![k.of].stage = k.stage, ![k.of].successful = k.successful]
    /\ SyncBecomes(h, [sync[h] EXCEPT !.pc = "count"])
    /\ UNCHANGED <<reward, outbox, asked, byHand, ragged>>

SyncCount(h) ==
    /\ SyncAt(h, "count")
    /\ SyncBecomes(h, Onward([sync[h] EXCEPT !.count = Successes]))
    /\ UNCHANGED <<referral, reward, outbox, asked, byHand, ragged>>

\* Faulty: nobody looks whether the message is there already.
QueuedNever(x) == FALSE

\* queueSms: a message that is there already is not queued again.
Queued(x) == outbox[x] > 0

QueueLook(h) ==
    /\ SyncAt(h, "look")
    /\ LET k == sync[h]
       IN  SyncBecomes(h, IF Queued(Head(k.todo)) THEN Onward([k EXCEPT !.todo = Tail(@)])
                          ELSE [k EXCEPT !.pc = "queue"])
    /\ UNCHANGED <<referral, reward, outbox, asked, byHand, ragged>>

QueueInsert(h) ==
    /\ SyncAt(h, "queue")
    /\ outbox' = [outbox EXCEPT ![Head(sync[h].todo)] = @ + 1]
    /\ SyncBecomes(h, Onward([sync[h] EXCEPT !.todo = Tail(@)]))
    /\ UNCHANGED <<referral, reward, asked, byHand, ragged>>

\* rewardState: an earned prize that is missing is awarded, one that is not
\* earned any more, and not used yet, is taken back.
PrizeLook(h) ==
    /\ SyncAt(h, "prize")
    /\ LET k == sync[h]
           m == Min(k.prizes)
           on == Onward([k EXCEPT !.prizes = @ \ {m}])
       IN  IF k.count >= m
           THEN /\ SyncBecomes(h, IF reward[m] = "none" THEN [k EXCEPT !.pc = "award"] ELSE on)
                /\ UNCHANGED reward
           ELSE /\ reward' = [reward EXCEPT ![m] = IF @ = "active" THEN "none" ELSE @]
                /\ SyncBecomes(h, on)
    /\ UNCHANGED <<referral, outbox, asked, byHand, ragged>>

\* unique (referrer_id, milestone) refuses a second one: the synchronisation ends.
PrizeInsert(h) ==
    /\ SyncAt(h, "award")
    /\ LET k == sync[h]
           m == Min(k.prizes)
       IN  IF reward[m] # "none" THEN UNCHANGED reward /\ SyncBecomes(h, IdleSync)
           ELSE /\ reward' = [reward EXCEPT ![m] = "active"]
                /\ SyncBecomes(h, Onward([k EXCEPT !.prizes = @ \ {m},
                                                   !.todo = <<[kind |-> "prize", of |-> m]>>]))
    /\ UNCHANGED <<referral, outbox, asked, byHand, ragged>>

-----------------------------------------------------------------------------
(* performSetReferralOverride, performSetReferralReward *)

SetOverride(h, i, o) ==
    /\ i \in Linked
    /\ referral' = [referral EXCEPT ![i].override = o]
    /\ Asks(h, [IdleSync EXCEPT !.pc = "read", !.of = i])
    /\ UNCHANGED <<reward, outbox, byHand>>

OverrideRead(h, now) ==
    /\ SyncAt(h, "read")
    /\ SyncBecomes(h, AsRead(sync[h].of, now))
    /\ UNCHANGED <<referral, reward, outbox, asked, byHand, ragged>>

SetReward(m, status) ==
    /\ BoundedAsk
    /\ reward' = [reward EXCEPT ![m] = status]
    /\ byHand' = byHand \cup {m}
    /\ UNCHANGED <<referral, outbox, sync>>

\* A query throws, or the process is restarted, between two statements.
SyncStops(h) ==
    /\ ~SyncAt(h, "idle")
    /\ ragged' = ragged \cup {"stop"}
    /\ SyncBecomes(h, IdleSync)
    /\ UNCHANGED <<referral, reward, outbox, asked, byHand>>

SyncStep(h) ==
    \/ AttachInsert(h) \/ SyncWrite(h) \/ SyncCount(h) \/ QueueLook(h) \/ QueueInsert(h)
    \/ PrizeLook(h) \/ PrizeInsert(h) \/ SyncStops(h)
    \/ \E now \in Stages : OverrideRead(h, now)

ClubNext ==
    \/ \E h \in Syncs : SyncStep(h)
    \/ \E h \in Syncs, i \in Referrals :
          \/ AttachRead(h, i)
          \/ \E now \in Stages : SyncRead(h, i, now)
          \/ \E o \in Overrides : SetOverride(h, i, o)
    \/ \E m \in Milestones, status \in {"active", "used"} : SetReward(m, status)

ClubSpec == ClubInit /\ [][ClubNext]_clubVars

-----------------------------------------------------------------------------
(* Properties *)

\* One synchronisation after another, a prize is active only for as many
\* successful referrals as it takes, and given as soon as there are so many.
PrizesFollowCount ==
    NobodySyncs /\ ragged = {} => \A m \in Milestones \ byHand :
        /\ reward[m] = "active" => Successes >= m
        /\ Successes >= m => reward[m] # "none"

\* Whatever synchronisations overlap, no prize is given without a message: it
\* is queued, or whoever gave the prize is about to queue it.
PrizeIsAnnounced ==
    "stop" \notin ragged => \A m \in Milestones \ byHand :
        LET x == [kind |-> "prize", of |-> m]
        IN  reward[m] # "none" =>
                outbox[x] > 0 \/ \E h \in Syncs : sync[h].todo # <<>> /\ Head(sync[h].todo) = x

\* One synchronisation after another, stopped half-way or not, no message is
\* queued twice, although prizes come and go and the owner changes his mind.
QueuedOnce == "overlap" \notin ragged => \A x \in Messages : outbox[x] <= 1

\* What the club promises its member: a prize for the count, a message for the
\* prize, and no message twice (rewardState, queueSms).
ClubKeepsItsWord == PrizesFollowCount /\ PrizeIsAnnounced /\ QueuedOnce
=============================================================================
