------------------------------ MODULE MCImport ------------------------------
(* Instances of Import, and with it of Export, for TLC. *)
EXTENDS Import

CONSTANTS f1, f2

\* Of two bins that differ in the names of the features only, one is enough:
\* f1 owns a slot, and the first one, if any feature does.
MCInit ==
  /\ ImportInit
  /\ \A e \in Entries : snapshot[e] = f2 => \E d \in 0 .. (e - 1) : snapshot[d] = f1

MCSpec == MCInit /\ [][Next]_allVars /\ Fairness
=============================================================================
