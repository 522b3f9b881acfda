---------------------------- MODULE MCTattooHold ----------------------------
(* Instances of TattooHold for TLC. *)
EXTENDS TattooHold, TLC

CONSTANTS r1, r2, b1, b2, w1, w2

\* One shop, two overlapping times.
Early == [shop |-> "studio", time |-> {1, 2}]
Late == [shop |-> "studio", time |-> {2, 3}]

MCTwoSlots == {Early, Late}
MCOneSlot == {Early}

\* One handler at a time, the clock ticking between handlers.
MCSerial == Operations \ {"decideBooked", "rescheduleOpen", "abort", "lapseMidway"}

\* Everything at once.
MCRace == Operations \ {"reschedule", "rescheduleOpen"}

\* The acceptance of a proposal against the rest of the calendar.
MCCalendar ==
    {"create", "decide", "accept", "walkIn", "calendar", "reschedule",
     "rescheduleOpen", "cancelJob"}

\* Two handlers at a time, the clock ticking when both are idle.
MCLive ==
    {"create", "decide", "accept", "submit", "receipt", "sweep", "delete", "cancelJob"}

\* One customer's acceptance and payment, with the clock ticking anywhere.
MCPayment == {"create", "decide", "accept", "submit", "receipt", "sweep"}
MCLateClock == MCPayment \cup {"lapseMidway"}

MCSymmetry == Permutations({b1, b2})
MCRaceSymmetry == Permutations({b1, b2}) \cup Permutations({w1, w2})
=============================================================================
