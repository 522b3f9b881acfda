------------------------------ MODULE StaffedCalendar ------------------------------
(***************************************************************************)
(* The calendar of a business with staff: a customer books a person or     *)
(* "anybody"; the owner closes times, adds, switches off, merges and       *)
(* deletes people (src/lib/server/writes.ts, src/lib/calendar/resources.ts, *)
(* migrations/0016_resources.sql).                                         *)
(*                                                                         *)
(* A booking without a person stands in everybody's way; a business with   *)
(* no active person has one calendar.  Slots do not overlap each other;    *)
(* working hours are left out.  One action is one statement, with the      *)
(* computation that precedes it; the look-ups before a handler's first     *)
(* write are one action.                                                   *)
(***************************************************************************)
EXTENDS Naturals, FiniteSetsExt

CONSTANTS
    People,       \* numbers of business_resources, in their sort order
    SameName(_),  \* the people that have this one's name
    Visits,       \* numbers of bookings rows
    Slots,
    Customers,    \* booking requests that may be in flight at the same time
    Owners,       \* requests of the owner that may be in flight at the same time
    MaxOwned,     \* bound: requests of the owner in one behaviour
    Anybody

ASSUME StaffedAssumption ==
    /\ People \subseteq Nat /\ IsFiniteSet(People) /\ Anybody \notin People
    /\ \A p \in People : p \in SameName(p) /\ SameName(p) \subseteq People
    /\ Slots # {} /\ MaxOwned \in Nat

VARIABLES
    person,   \* business_resources: active, off, gone
    visit,    \* bookings
    customer,
    owner,
    free,     \* history: who has been free all along for each request in flight
    owned,    \* history: requests of the owner so far
    event     \* history: what has happened out of the ordinary

staffedVars == <<person, visit, customer, owner, free, owned, event>>

-----------------------------------------------------------------------------
(* State *)

\* with is resource_id, which the trigger reads; staff is staff_id, which no
\* foreign key empties and which the calendar shows where resource_id is null.
VisitRows == [status : {"none", "live", "over"}, slot : Slots,
              with : People \cup {Anybody}, staff : People \cup {Anybody}]
AnySlot == CHOOSE s \in Slots : TRUE
NoVisitRow == [status |-> "none", slot |-> AnySlot, with |-> Anybody, staff |-> Anybody]

CustomerRows == [pc : {"idle", "try", "again", "turnedAway"}, slot : Slots,
                 wants : People \cup {Anybody}, staffed : BOOLEAN, eligible : SUBSET People,
                 busy : SUBSET (People \cup {Anybody}), consumed : SUBSET People]
IdleCustomer == [pc |-> "idle", slot |-> AnySlot, wants |-> Anybody, staffed |-> FALSE,
                 eligible |-> {}, busy |-> {}, consumed |-> {}]

OwnerRows == [pc : {"idle", "merge", "drop"}, read : SUBSET People, todo : SUBSET People]
IdleOwner == [pc |-> "idle", read |-> {}, todo |-> {}]

Active == {p \in People : person[p] = "active"}
LiveVisits == {v \in Visits : visit[v].status = "live"}
Staffed == Active # {}

\* Faulty: a booking without a person is in nobody's way.
WithConflictNamed(staffed, a, b) == ~staffed \/ a = b

\* resourcesConflict, occupancy_resources_conflict
WithConflict(staffed, a, b) == ~staffed \/ a = Anybody \/ b = Anybody \/ a = b

\* bookings_prevent_overlap: a row that is to be live at slot s with p.
OverlapRefused(V, s, p, staffed) ==
    \E v \in LiveVisits \ V : visit[v].slot = s /\ WithConflict(staffed, visit[v].with, p)

\* loadOccupancy, at one slot: coalesce(resource_id, staff_id)
Shown(v) == IF visit[v].with = Anybody THEN visit[v].staff ELSE visit[v].with
Busy(s) == {Shown(v) : v \in {v \in LiveVisits : visit[v].slot = s}}

FreeOf(busy, p) == \A q \in busy : ~WithConflict(TRUE, q, p)

\* Every step takes those off who are not free for a request any more.
Watch == free' = [c \in Customers |->
    IF customer'[c].pc = "idle" THEN {} ELSE IF customer'[c].pc = "turnedAway" THEN free[c]
    ELSE LET s == customer'[c].slot
             now == {p \in People : /\ person'[p] = "active"
                                    /\ \A v \in Visits : visit'[v].status = "live" /\ visit'[v].slot = s
                                          => visit'[v].with \notin {p, Anybody}}
         IN  IF customer[c].pc \in {"idle", "turnedAway"} THEN now ELSE free[c] \cap now]

Undisturbed == (\A c \in Customers : customer[c].pc \in {"idle", "turnedAway"})
               /\ \A o \in Owners : owner[o].pc = "idle"

StaffedInit ==
    /\ person \in [People -> {"active", "gone"}]
    /\ visit = [v \in Visits |-> NoVisitRow]
    /\ customer = [c \in Customers |-> IdleCustomer]
    /\ owner = [o \in Owners |-> IdleOwner]
    /\ free = [c \in Customers |-> {}]
    /\ owned = 0
    /\ event = {}

CustomerBecomes(c, row) == customer' = [customer EXCEPT ![c] = row]
OwnerBecomes(o, row) == owner' = [owner EXCEPT ![o] = row]
Unnoted == UNCHANGED event

\* The next free row of bookings.
Insert(s, p) ==
    \E v \in Visits :
        /\ visit[v].status = "none" /\ \A u \in Visits : u < v => visit[u].status # "none"
        /\ visit' = [visit EXCEPT ![v] = [status |-> "live", slot |-> s,
                                         with |-> p, staff |-> p]]
Wild(p) == event' = IF p = Anybody THEN event \cup {"wild"} ELSE event

-----------------------------------------------------------------------------
(* performCreateBooking *)

BookRead(c, s, p) ==
    /\ customer[c].pc \in {"idle", "turnedAway"}
    /\ p \in Active \cup {Anybody}
    /\ CustomerBecomes(c, [IdleCustomer EXCEPT !.pc = "try", !.slot = s, !.wants = p,
                             !.staffed = Staffed, !.eligible = Active, !.busy = Busy(s)])
    /\ event' = IF Undisturbed THEN event ELSE event \cup {"overlap"}
    /\ UNCHANGED <<person, visit, owner, owned>>

\* assignResourceAtIso, slotsForResource: the people this attempt may pick.
Pickable(k) ==
    IF ~k.staffed THEN IF k.busy = {} THEN {Anybody} ELSE {}
    ELSE {p \in IF k.wants = Anybody THEN k.eligible \ k.consumed ELSE {k.wants} : FreeOf(k.busy, p)}

\* The first in the sort order.
Picked(k) == IF Anybody \in Pickable(k) THEN Anybody ELSE Min(Pickable(k))

\* Faulty: one attempt less than there are people.
LastAttemptEarly(k) == Cardinality(k.consumed) + 2 >= Cardinality(k.eligible)

\* maxAttempts: attempts so far are the people consumed.
LastAttempt(k) == Cardinality(k.consumed) + 1 >= Cardinality(k.eligible)

TurnedAway(k) == [IdleCustomer EXCEPT !.pc = "turnedAway", !.wants = k.wants, !.staffed = k.staffed]

\* The attempt and its insert; a person deleted meanwhile breaks the foreign
\* key, which is no overlap and ends the request.
BookTry(c) ==
    /\ customer[c].pc = "try"
    /\ LET k == customer[c]
           p == Picked(k)
       IN  \/ /\ Pickable(k) = {}
              /\ CustomerBecomes(c, TurnedAway(k))
              /\ UNCHANGED visit /\ Unnoted
           \/ /\ Pickable(k) # {}
              /\ OverlapRefused({}, k.slot, p, Staffed)
              /\ IF k.wants = Anybody /\ k.staffed
                    /\ ~LastAttempt(k)
                 THEN CustomerBecomes(c, [k EXCEPT !.consumed = @ \cup {p}, !.pc = "again"])
                 ELSE CustomerBecomes(c, TurnedAway(k))
              /\ UNCHANGED visit /\ Unnoted
           \/ /\ Pickable(k) # {}
              /\ ~OverlapRefused({}, k.slot, p, Staffed)
              /\ IF p # Anybody /\ person[p] = "gone" THEN UNCHANGED visit /\ Unnoted
                 ELSE Insert(k.slot, p) /\ Wild(p)
              /\ CustomerBecomes(c, IdleCustomer)
    /\ UNCHANGED <<person, owner, owned>>

\* The calendar is read again after a refused insert.
BookAgain(c) ==
    /\ customer[c].pc = "again"
    /\ CustomerBecomes(c, [customer[c] EXCEPT !.pc = "try", !.busy = Busy(customer[c].slot)])
    /\ Unnoted
    /\ UNCHANGED <<person, visit, owner, owned>>

-----------------------------------------------------------------------------
(* The owner *)

OwnerCalls(o, row) ==
    /\ owner[o].pc = "idle" /\ owned < MaxOwned
    /\ owned' = owned + 1
    /\ OwnerBecomes(o, row)

Overlapping(what) == event' = event \cup what \cup IF Undisturbed THEN {} ELSE {"overlap"}

\* performCreateBlock; the time may be closed for everybody.
CreateBlock(o, s, p) ==
    /\ p \in (IF Staffed THEN Active ELSE {}) \cup {Anybody}
    /\ ~OverlapRefused({}, s, p, Staffed)
    /\ Insert(s, p)
    /\ OwnerCalls(o, IdleOwner)
    /\ Overlapping(IF p = Anybody THEN {"wild"} ELSE {})
    /\ UNCHANGED <<person, customer>>

\* performUpsertResource
UpsertResource(o, p, status) ==
    /\ person' = [person EXCEPT ![p] = status]
    /\ OwnerCalls(o, IdleOwner)
    /\ Overlapping({})
    /\ UNCHANGED <<visit, customer>>

VisitsWith(p) == {v \in Visits : visit[v].with = p}

\* The foreign key takes the person off every booking, past ones too; the
\* trigger refuses that where another live booking is at the same time.
DeleteRefused(p) == \E v \in VisitsWith(p) \cap LiveVisits :
                        OverlapRefused({v}, visit[v].slot, Anybody, TRUE)
Deleted(p) ==
    /\ person' = [person EXCEPT ![p] = "gone"]
    /\ visit' = [v \in Visits |-> IF v \in VisitsWith(p) THEN [visit[v] EXCEPT !.with = Anybody]
                                  ELSE visit[v]]

\* performDeleteResource
DeleteResource(o, p) ==
    /\ person[p] # "gone" /\ ~DeleteRefused(p)
    /\ Deleted(p)
    /\ OwnerCalls(o, IdleOwner)
    /\ Overlapping({"deleted"})
    /\ UNCHANGED <<customer>>

(* performListResources: collapseDuplicateStaff *)

Listed == {p \in People : person[p] # "gone"}

\* The one of that name that is first in a list of people.
FirstIn(list, p) == Min(SameName(p) \cap list)
Duplicates == {p \in Listed : FirstIn(Listed, p) # p}

ListResources(o) ==
    /\ Duplicates # {}
    /\ OwnerCalls(o, [pc |-> "merge", read |-> Listed, todo |-> Duplicates])
    /\ Overlapping({})
    /\ UNCHANGED <<person, visit, customer>>

\* Faulty: the bookings stay with the duplicate that is about to go.
MergedInto(p, q) == p

MergeInto(p, q) == q

\* where resource_id or staff_id: what the calendar shows as the duplicate's too.
MergedVisits(p) == {v \in Visits : p \in {visit[v].with, visit[v].staff}}

Moved(v, p, q) == [visit[v] EXCEPT !.with = q, !.staff = IF @ = p THEN q ELSE @]

MergeRefused(p, q) ==
    \E v \in MergedVisits(p) \cap LiveVisits : OverlapRefused({v}, visit[v].slot, q, Staffed)

\* One statement moves all the bookings of a duplicate; refused, the whole
\* request fails and the list of people does not open.
MergeVisits(o) ==
    /\ owner[o].pc = "merge"
    /\ LET p == Min(owner[o].todo)
           q == FirstIn(owner[o].read, p)
       IN  IF MergedVisits(p) # {} /\ (MergeRefused(p, q) \/ person[q] = "gone")
           THEN UNCHANGED visit /\ OwnerBecomes(o, IdleOwner)
           ELSE /\ visit' = [v \in Visits |-> IF v \in MergedVisits(p)
                                              THEN Moved(v, p, MergeInto(p, q)) ELSE visit[v]]
                /\ OwnerBecomes(o, [owner[o] EXCEPT !.pc = "drop"])
    /\ Unnoted
    /\ UNCHANGED <<person, customer, owned>>

MergeDrop(o) ==
    /\ owner[o].pc = "drop"
    /\ LET p == Min(owner[o].todo)
           rest == owner[o].todo \ {p}
       IN  IF DeleteRefused(p) THEN UNCHANGED <<person, visit>> /\ OwnerBecomes(o, IdleOwner)
           ELSE /\ Deleted(p)
                /\ OwnerBecomes(o, IF rest = {} THEN IdleOwner ELSE [owner[o] EXCEPT !.pc = "merge", !.todo = rest])
    /\ Unnoted
    /\ UNCHANGED <<customer, owned>>

(* performBookingStatus 'cancelled'; whom it then tells is Waitlist.tla *)

CancelVisit(o, v) ==
    /\ visit[v].status = "live"
    /\ visit' = [visit EXCEPT ![v].status = "over"]
    /\ OwnerCalls(o, IdleOwner)
    /\ Overlapping({})
    /\ UNCHANGED <<person, customer>>

OwnerStops(o) ==
    /\ owner[o].pc # "idle"
    /\ OwnerBecomes(o, IdleOwner)
    /\ event' = event \cup {"stop"}
    /\ UNCHANGED <<person, visit, customer, owned>>

CustomerSteps(c) ==
    \/ \E s \in Slots, p \in People \cup {Anybody} : BookRead(c, s, p)
    \/ BookTry(c) \/ BookAgain(c)

OwnerSteps(o) ==
    \/ \E s \in Slots, p \in People \cup {Anybody} : CreateBlock(o, s, p)
    \/ \E p \in People, status \in {"active", "off"} : UpsertResource(o, p, status)
    \/ \E p \in People : DeleteResource(o, p)
    \/ \E v \in Visits : CancelVisit(o, v)
    \/ ListResources(o) \/ MergeVisits(o) \/ MergeDrop(o) \/ OwnerStops(o)

StaffedNext ==
    /\ \/ \E c \in Customers : CustomerSteps(c)
       \/ \E o \in Owners : OwnerSteps(o)
    /\ Watch

StaffedSpec == StaffedInit /\ [][StaffedNext]_staffedVars

-----------------------------------------------------------------------------
(* Properties *)

\* The visits, the staff list and the handlers hold what their columns may hold.
StaffedTypeOK ==
    /\ person \in [People -> {"active", "off", "gone"}]
    /\ visit \in [Visits -> VisitRows]
    /\ customer \in [Customers -> CustomerRows]
    /\ owner \in [Owners -> OwnerRows]
    /\ free \in [Customers -> SUBSET People]
    /\ owned \in 0..MaxOwned
    /\ event \subseteq {"overlap", "wild", "deleted", "stop"}

\* At one time two live bookings are with two different people, whoever was
\* added, switched off, merged or deleted in between, however requests overlap.
OneAtATime ==
    \A u, v \in LiveVisits : u # v /\ visit[u].slot = visit[v].slot
        => visit[u].with # visit[v].with /\ Anybody \notin {visit[u].with, visit[v].with}

\* Who asks for anybody and is turned away was so for a reason: nobody has been
\* free from the first look to the last attempt, however inserts race.
TurnedAwayWhenFull ==
    \A c \in Customers : LET k == customer[c] IN
        k.pc = "turnedAway" /\ k.staffed /\ k.wants = Anybody => free[c] = {}

\* As long as requests do not overlap and the owner deletes nobody, every live
\* booking made with a person is with one who is still there: merging people
\* with one name loses none of their bookings.
PersonKept ==
    {"overlap", "wild", "deleted"} \cap event = {}
        => \A v \in LiveVisits : visit[v].with # Anybody /\ person[visit[v].with] # "gone"
=============================================================================
