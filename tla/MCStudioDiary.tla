---------------------------- MODULE MCStudioDiary ----------------------------
(* Instances of StudioDiary for TLC. *)
EXTENDS StudioDiary, TLC

CONSTANTS s1, s2

\* Two customers on two days.
MCBegun == {[card |-> 1, seat |-> 1, at |-> [day |-> 1, hour |-> 1]],
            [card |-> 2, seat |-> 2, at |-> [day |-> 2, hour |-> 2]]}

MCStaff == Permutations({s1, s2})
=============================================================================
