-------------------------------- MODULE Waitlist --------------------------------
(***************************************************************************)
(* The waitlist of one day: who wants to hear of a free time, and the      *)
(* releases that tell them (performWaitlistJoin and notifyWaitlist in      *)
(* src/lib/server/writes.ts).  A release is the tail of performBookingStatus *)
(* for a cancelled booking; one action is one statement.                   *)
(***************************************************************************)
EXTENDS Naturals, FiniteSetsExt

CONSTANTS
    Waiters,     \* numbers of the rows, in the order of created_at
    Releases,    \* cancellations that may be in flight at the same time
    Page,        \* how many rows one release tells
    MaxReleases  \* bound: releases in one behaviour

ASSUME WaitlistAssumption ==
    Waiters \subseteq Nat /\ IsFiniteSet(Waiters) /\ Page \in Nat /\ MaxReleases \in Nat

VARIABLES
    waiting,   \* waitlist.status
    release,
    told,      \* history: how often each row has been told
    released,  \* history: releases so far
    tangled    \* history: two releases have overlapped, or one has stopped

waitlistVars == <<waiting, release, told, released, tangled>>

-----------------------------------------------------------------------------

IdleRelease == [pc |-> "idle", todo |-> {}]

WaitlistInit ==
    /\ waiting = [w \in Waiters |-> "none"]
    /\ release = [r \in Releases |-> IdleRelease]
    /\ told = [w \in Waiters |-> 0]
    /\ released = 0
    /\ tangled = FALSE

Open == {w \in Waiters : waiting[w] = "open"}
ReleaseAt(r, pc) == release[r].pc = pc
ReleaseBecomes(r, row) == release' = [release EXCEPT ![r] = row]
Next20 == {w \in Open : Cardinality({u \in Open : u < w}) < Page}

\* The same customer may join again: that is another row.
WaitlistJoin(w) ==
    /\ waiting[w] = "none" /\ \A u \in Waiters : u < w => waiting[u] # "none"
    /\ waiting' = [waiting EXCEPT ![w] = "open"]
    /\ UNCHANGED <<release, told, released, tangled>>

\* performBookingStatus has cancelled a booking.
Release(r) ==
    /\ ReleaseAt(r, "idle") /\ released < MaxReleases
    /\ released' = released + 1
    /\ tangled' = (tangled \/ \E q \in Releases : ~ReleaseAt(q, "idle"))
    /\ ReleaseBecomes(r, [pc |-> "read", todo |-> {}])
    /\ UNCHANGED <<waiting, told>>

ReadOpen(r) ==
    /\ ReleaseAt(r, "read")
    /\ ReleaseBecomes(r, IF Next20 = {} THEN IdleRelease ELSE [pc |-> "tell", todo |-> Next20])
    /\ UNCHANGED <<waiting, told, released, tangled>>

Tell(r) ==
    /\ ReleaseAt(r, "tell")
    /\ told' = [told EXCEPT ![Min(release[r].todo)] = @ + 1]
    /\ ReleaseBecomes(r, [release[r] EXCEPT !.pc = "mark"])
    /\ UNCHANGED <<waiting, released, tangled>>

\* Faulty: the rows are marked after the last of them only.
MarkedLast(todo, w) == IF Cardinality(todo) = 1 THEN {w} ELSE {}

Marked(todo, w) == {w}

Mark(r) ==
    /\ ReleaseAt(r, "mark")
    /\ LET todo == release[r].todo
           w == Min(todo)
       IN  /\ waiting' = [u \in Waiters |-> IF u \in Marked(todo, w) THEN "notified" ELSE waiting[u]]
           /\ ReleaseBecomes(r, IF todo = {w} THEN IdleRelease
                                ELSE [pc |-> "tell", todo |-> todo \ {w}])
    /\ UNCHANGED <<told, released, tangled>>

ReleaseStops(r) ==
    /\ ~ReleaseAt(r, "idle")
    /\ tangled' = TRUE
    /\ ReleaseBecomes(r, IdleRelease)
    /\ UNCHANGED <<waiting, told, released>>

WaitlistNext ==
    \/ \E w \in Waiters : WaitlistJoin(w)
    \/ \E r \in Releases : Release(r) \/ ReadOpen(r) \/ Tell(r) \/ Mark(r) \/ ReleaseStops(r)

WaitlistSpec == WaitlistInit /\ [][WaitlistNext]_waitlistVars

-----------------------------------------------------------------------------
(* Properties *)

\* The list and the releases hold what their columns may hold.
WaitlistTypeOK ==
    /\ waiting \in [Waiters -> {"none", "open", "notified"}]
    /\ release \in [Releases -> [pc : {"idle", "read", "tell", "mark"}, todo : SUBSET Waiters]]
    /\ told \in [Waiters -> Nat]
    /\ released \in 0..MaxReleases
    /\ tangled \in BOOLEAN

\* Releases that neither overlap nor stop tell each row at most once, the
\* oldest first; and, whatever happens, a row is off the list only when told.
ToldOnce ==
    /\ \A w \in Waiters : waiting[w] = "notified" => told[w] > 0
    /\ ~tangled => \A w \in Waiters : /\ told[w] <= 1
                                      /\ \A u \in Waiters : u < w => told[w] <= told[u]
=============================================================================
