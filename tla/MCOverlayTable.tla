--------------------------- MODULE MCOverlayTable ---------------------------
(* Instances of OverlayTable for TLC.  A growth takes several calls, as in   *)
(* the code: its tables first grow with 180 entries in 256 slots and move 16 *)
(* entries a call; here, with 3 in 4 slots, and one a call.                  *)
EXTENDS OverlayTable, TLC

CONSTANT HashRange    \* low bits of the hash values considered

\* Any assignment of hash values: slots of the bin may share a home.
AnyHash == [Entries -> HashRange]

Symmetry == Permutations(Entries) \cup Permutations(Vals)
=============================================================================
