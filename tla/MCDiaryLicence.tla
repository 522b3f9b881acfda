--------------------------- MODULE MCDiaryLicence ---------------------------
(***************************************************************************)
(* The studio's calendar and a Pocket licence, which share no row of the   *)
(* database, checked in one run: every behaviour is a behaviour of one of  *)
(* them, with the other at rest.                                           *)
(***************************************************************************)
EXTENDS MCStudioDiary, MCPocketLicense

VARIABLE part

bothVars == <<diaryVars, licenceVars, part>>

BothInit == part \in {"diary", "licence"} /\ DiaryInit /\ LicenceInit

\* Ids and key pairs are interchangeable: an activation row takes the lowest id
\* that is free, and the key pair that is kept is k1.
InOrder ==
    /\ \A a, b \in RowIds : a < b /\ acts'[a].state = "free" => acts'[b].state = "free"
    /\ primary' # k2

BothNext ==
    /\ UNCHANGED part
    /\ \/ part = "diary" /\ DiaryNext /\ UNCHANGED licenceVars
       \/ part = "licence" /\ LicenceNext /\ InOrder /\ UNCHANGED diaryVars

BothSpec == BothInit /\ [][BothNext]_bothVars
=============================================================================
