-------------------------- MODULE MCMutationStore ---------------------------
(* Instances of MutationStore for TLC: two concurrent calls of one tenant, *)
(* which is the unit of every lock, key and chain.                         *)
EXTENDS MutationStore
=============================================================================
