------------------------------ MODULE SlotLock ------------------------------
(***************************************************************************)
(* What the calendar promises, whatever handlers run: a piece of a shop's  *)
(* time is held by at most one booking, and changes hands only by being    *)
(* given back first.  A booking takes all the places of its slot in one    *)
(* step or none of them; a booking that moves may keep places it has.      *)
(***************************************************************************)
CONSTANTS Holders, Places

VARIABLE locks   \* pairs <<holder, place>>

Held(h) == {p \in Places : <<h, p>> \in locks}
FreeFor(h, P) == \A g \in Holders \ {h} : Held(g) \cap P = {}

Init == locks = {}

\* Some holders give back everything.
Release(H) == locks' = {l \in locks : l[1] \notin H}

\* One holder ends up with exactly the places P.
Take(h, P) ==
    /\ FreeFor(h, P)
    /\ locks' = {l \in locks : l[1] # h} \cup ({h} \X P)

Next ==
    \/ \E H \in SUBSET Holders : Release(H)
    \/ \E h \in Holders, P \in SUBSET Places : Take(h, P)

Spec == Init /\ [][Next]_locks

TypeOK == locks \subseteq Holders \X Places

\* Mutual exclusion.
Exclusive ==
    \A g, h \in Holders : g # h => Held(g) \cap Held(h) = {}
=============================================================================
