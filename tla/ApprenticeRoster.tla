---------------------------- MODULE ApprenticeRoster ----------------------------
(***************************************************************************)
(* One Thursday of the studio's apprentices: who has which lesson, who was *)
(* present, and sessions_done, the counter of sessions out of the goal     *)
(* (src/lib/server/studio-apprentices.ts).                                 *)
(*                                                                         *)
(* The counter is not computed from the lessons: each handler moves it by  *)
(* the difference between the row it read and what it is about to write.   *)
(* One action is one statement.  Left out: the blocks that the board keeps *)
(* in the calendar for the lessons, debts and payments.                    *)
(***************************************************************************)
EXTENDS Integers, FiniteSetsExt

CONSTANTS
    Apprentices,
    Lessons,     \* numbers of the day's studio_apprentice_slots rows, without lunch
    Default(_),  \* whose a lesson is when nobody else has it, or Nobody
    Goal,        \* session_goal
    Boards,      \* requests that may be in flight at the same time
    MaxBoards,   \* bound: requests in one behaviour
    Nobody, NoLesson

ASSUME RosterAssumption ==
    /\ IsFiniteSet(Lessons) /\ Lessons \subseteq Nat /\ Goal \in Nat /\ MaxBoards \in Nat
    /\ Nobody \notin Apprentices /\ NoLesson \notin Lessons
    /\ \A l \in Lessons : Default(l) \in Apprentices \cup {Nobody}

VARIABLES
    lesson,  \* studio_apprentice_slots
    done,    \* studio_apprentices.sessions_done
    board,
    typed,   \* history: the counter as the studio last typed it, and the
             \* lessons the apprentice had been present in by then
    opened,  \* history: requests so far
    untidy   \* history: what has happened out of the ordinary

rosterVars == <<lesson, done, board, typed, opened, untidy>>

-----------------------------------------------------------------------------
(* State *)

LessonRows == [status : {"planned", "present", "absent"}, who : Apprentices \cup {Nobody}]
Planned(p) == [status |-> "planned", who |-> p]

\* seen: the lessons as read; others: lessons the apprentice is to leave.
BoardRows == [pc : {"idle", "markCount", "mark", "otherCount", "other", "ownCount", "own"},
              lesson : Lessons \cup {NoLesson}, seen : [Lessons -> LessonRows],
              status : {"planned", "present", "absent"}, who : Apprentices \cup {Nobody},
              others : SUBSET Lessons]
IdleBoard == [pc |-> "idle", lesson |-> NoLesson, seen |-> [l \in Lessons |-> Planned(Nobody)],
              status |-> "planned", who |-> Nobody, others |-> {}]

RosterInit ==
    /\ lesson = [l \in Lessons |-> Planned(Default(l))]
    /\ done = [p \in Apprentices |-> 0]
    /\ board = [h \in Boards |-> IdleBoard]
    /\ typed = [p \in Apprentices |-> [done |-> 0, present |-> 0]]
    /\ opened = 0
    /\ untidy = {}

PresentIn(p) == Cardinality({l \in Lessons : lesson[l] = [status |-> "present", who |-> p]})

BoardAt(h, pc) == board[h].pc = pc
BoardBecomes(h, row) == board' = [board EXCEPT ![h] = row]
NobodyWrites == \A h \in Boards : BoardAt(h, "idle")
Beside == IF NobodyWrites THEN {} ELSE {"overlap"}

OpensBoard(h, row, what) ==
    /\ BoardAt(h, "idle") /\ opened < MaxBoards
    /\ opened' = opened + 1
    /\ untidy' = untidy \cup what \cup Beside
    /\ BoardBecomes(h, row)

-----------------------------------------------------------------------------
(* bumpSessions: least(goal, greatest(0, sessions_done + delta)) *)

Bump(p, delta) ==
    LET n == done[p] + delta
    IN  /\ done' = [done EXCEPT ![p] = IF n < 0 THEN 0 ELSE IF n > Goal THEN Goal ELSE n]
        /\ untidy' = IF n \in 0..Goal THEN untidy ELSE untidy \cup {"clamped"}

\* sessionCountDelta: only a session marked present counts.
Delta(from, to) == CASE from # "present" /\ to = "present" -> 1
                     [] from = "present" /\ to # "present" -> -1
                     [] OTHER -> 0

-----------------------------------------------------------------------------
(* performMarkApprenticeSlot *)

MarkRead(h, l, status) ==
    /\ OpensBoard(h, [IdleBoard EXCEPT !.lesson = l, !.seen = lesson, !.status = status,
                        !.pc = IF Delta(lesson[l].status, status) # 0 /\ lesson[l].who # Nobody
                               THEN "markCount" ELSE "mark"], {})
    /\ UNCHANGED <<lesson, done, typed>>

MarkCount(h) ==
    /\ BoardAt(h, "markCount")
    /\ LET k == board[h]
       IN  Bump(k.seen[k.lesson].who, Delta(k.seen[k.lesson].status, k.status))
    /\ BoardBecomes(h, [board[h] EXCEPT !.pc = "mark"])
    /\ UNCHANGED <<lesson, typed, opened>>

MarkWrite(h) ==
    /\ BoardAt(h, "mark")
    /\ lesson' = [lesson EXCEPT ![board[h].lesson].status = board[h].status]
    /\ BoardBecomes(h, IdleBoard)
    /\ UNCHANGED <<done, typed, opened, untidy>>

-----------------------------------------------------------------------------
(* performAssignApprenticeSlot *)

\* Faulty: who loses a lesson to somebody else keeps the session.
GivesBackNever(k) == FALSE

\* The apprentice who was present loses the session to another one or to nobody.
GivesBack(k) ==
    LET own == k.seen[k.lesson]
    IN  own.status = "present" /\ own.who # Nobody /\ own.who # k.who

\* The other lessons of the day come first, one after another, then the lesson.
Assigning(k) == [k EXCEPT !.pc =
    IF k.others # {} THEN IF k.seen[Min(k.others)].status = "present" THEN "otherCount" ELSE "other"
    ELSE IF GivesBack(k) THEN "ownCount" ELSE "own"]

\* The reads; the apprentice's other lessons of the day are to be left.
AssignRead(h, l, p) ==
    /\ OpensBoard(h, Assigning([IdleBoard EXCEPT !.lesson = l, !.seen = lesson, !.who = p,
                        !.others = IF p = Nobody THEN {}
                                   ELSE {m \in Lessons \ {l} : lesson[m].who = p}]),
                  IF lesson[l] = [status |-> "present", who |-> p] THEN {"again"} ELSE {})
    /\ UNCHANGED <<lesson, done, typed>>

OtherCount(h) ==
    /\ BoardAt(h, "otherCount")
    /\ Bump(board[h].who, -1)
    /\ BoardBecomes(h, [board[h] EXCEPT !.pc = "other"])
    /\ UNCHANGED <<lesson, typed, opened>>

\* A lesson that is left goes back to whose it is by default.
OtherWrite(h) ==
    /\ BoardAt(h, "other")
    /\ LET m == Min(board[h].others)
       IN  /\ lesson' = [lesson EXCEPT ![m] = Planned(Default(m))]
           /\ BoardBecomes(h, Assigning([board[h] EXCEPT !.others = @ \ {m}]))
    /\ UNCHANGED <<done, typed, opened, untidy>>

OwnCount(h) ==
    /\ BoardAt(h, "ownCount")
    /\ Bump(board[h].seen[board[h].lesson].who, -1)
    /\ BoardBecomes(h, [board[h] EXCEPT !.pc = "own"])
    /\ UNCHANGED <<lesson, typed, opened>>

OwnWrite(h) ==
    /\ BoardAt(h, "own")
    /\ lesson' = [lesson EXCEPT ![board[h].lesson] = Planned(board[h].who)]
    /\ BoardBecomes(h, IdleBoard)
    /\ UNCHANGED <<done, typed, opened, untidy>>

-----------------------------------------------------------------------------
(* performSetApprenticeProgress *)

SetProgress(p, n) ==
    /\ opened < MaxBoards /\ opened' = opened + 1
    /\ done' = [done EXCEPT ![p] = n]
    /\ typed' = [typed EXCEPT ![p] = [done |-> n, present |-> PresentIn(p)]]
    /\ untidy' = untidy \cup Beside
    /\ UNCHANGED <<lesson, board>>

\* A query throws, or the process is restarted, between two statements.
BoardStops(h) ==
    /\ ~BoardAt(h, "idle")
    /\ untidy' = untidy \cup {"stop"}
    /\ BoardBecomes(h, IdleBoard)
    /\ UNCHANGED <<lesson, done, typed, opened>>

BoardStep(h) ==
    \/ MarkCount(h) \/ MarkWrite(h) \/ OtherCount(h) \/ OtherWrite(h) \/ OwnCount(h)
    \/ OwnWrite(h) \/ BoardStops(h)

RosterNext ==
    \/ \E h \in Boards : BoardStep(h)
    \/ \E h \in Boards, l \in Lessons :
          \/ \E status \in {"planned", "present", "absent"} : MarkRead(h, l, status)
          \/ \E p \in Apprentices \cup {Nobody} : AssignRead(h, l, p)
    \/ \E p \in Apprentices, n \in 0..Goal : SetProgress(p, n)

RosterSpec == RosterInit /\ [][RosterNext]_rosterVars

-----------------------------------------------------------------------------
(* Properties *)

\* "Only a session marked present counts": one request after another, through
\* marks, swaps of lessons and substitutes, an apprentice's counter is what the
\* studio typed and the lessons present since, unless it ran into 0 or the
\* goal, or a lesson was given again to the one who had been present in it.
AttendedIsCounted ==
    NobodyWrites /\ untidy = {} => \A p \in Apprentices :
        done[p] + typed[p].present = typed[p].done + PresentIn(p)
=============================================================================
