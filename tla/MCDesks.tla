------------------------------- MODULE MCDesks -------------------------------
(***************************************************************************)
(* Six desks that share no row of the database, checked in one run: every  *)
(* behaviour is a behaviour of one of them, with the others at rest.       *)
(***************************************************************************)
EXTENDS LearnCodes, MarketFinance, StaffedCalendar, Waitlist, ReferralClub, ApprenticeRoster,
        TLC

CONSTANTS d1, d2, d3, k1, t1, h1, h2, x1, x2

VARIABLE desk

deskVars == <<learnVars, marketVars, staffedVars, waitlistVars, clubVars, rosterVars, desk>>

\* The category's rule stands before the platform's.  With it a price of 1 is
\* all commission, and 2 of 5 are the business's.
MCRules == {[scope |-> "platform", bps |-> 500, fixed |-> 0],
            [scope |-> "category", bps |-> 3400, fixed |-> 2]}

\* Both people have one name.
MCSameName(p) == {1, 2}

\* Every lesson of the day is somebody's.
MCDefault(l) == l

DesksInit ==
    /\ desk \in {"learn", "market", "staffed", "waitlist", "club", "roster"}
    /\ LearnInit /\ MarketInit /\ StaffedInit /\ WaitlistInit /\ ClubInit /\ RosterInit
    /\ desk # "market" => price = 5
    /\ desk # "staffed" => person = [p \in People |-> "active"]

\* Everything but the one desk's own variables.
LearnOnly == UNCHANGED <<marketVars, staffedVars, waitlistVars, clubVars, rosterVars>>
MarketOnly == UNCHANGED <<learnVars, staffedVars, waitlistVars, clubVars, rosterVars>>
StaffedOnly == UNCHANGED <<learnVars, marketVars, waitlistVars, clubVars, rosterVars>>
WaitlistOnly == UNCHANGED <<learnVars, marketVars, staffedVars, clubVars, rosterVars>>
ClubOnly == UNCHANGED <<learnVars, marketVars, staffedVars, waitlistVars, rosterVars>>
RosterOnly == UNCHANGED <<learnVars, marketVars, staffedVars, waitlistVars, clubVars>>

DesksNext ==
    /\ UNCHANGED desk
    /\ \/ desk = "learn" /\ LearnNext /\ LearnOnly
       \/ desk = "market" /\ MarketNext /\ MarketOnly
       \/ desk = "staffed" /\ StaffedNext /\ StaffedOnly
       \/ desk = "waitlist" /\ WaitlistNext /\ WaitlistOnly
       \/ desk = "club" /\ ClubNext /\ ClubOnly
       \/ desk = "roster" /\ RosterNext /\ RosterOnly

DesksSpec == DesksInit /\ [][DesksNext]_deskVars

\* The desks use the same names for their handlers, so that the group is small.
MCSymmetry == Permutations({d1, d2, d3}) \cup Permutations({h1, h2}) \cup Permutations({x1, x2})
=============================================================================
