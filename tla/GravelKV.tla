------------------------------ MODULE GravelKV ------------------------------
(***************************************************************************)
(* What the public interface (include/graveldb.h) promises about the       *)
(* embeddings of one open database: a map from feature ids to embeddings,  *)
(* changed by one put or delete at a time.  Flushing, checkpointing, page  *)
(* eviction and slot reuse are invisible at this level.                    *)
(***************************************************************************)
CONSTANTS
  Feats,    \* feature ids (the reserved id 0 is not one of them)
  Vals,     \* embeddings callers write
  Absent    \* what a lookup of a feature that is not stored answers

VARIABLE store    \* the embedding stored for each feature

KVInit == store = [f \in Feats |-> Absent]

KVPut(f, v) == store' = [store EXCEPT ![f] = v]

KVDelete(f) == store' = [store EXCEPT ![f] = Absent]

KVNext == \E f \in Feats : KVDelete(f) \/ \E v \in Vals : KVPut(f, v)

KVSpec == KVInit /\ [][KVNext]_store
=============================================================================
