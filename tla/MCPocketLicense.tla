--------------------------- MODULE MCPocketLicense ---------------------------
(* The smallest instance of PocketLicense: section 5 of the README. *)
EXTENDS PocketLicense

CONSTANTS d1, d2, k1, k2
=============================================================================
