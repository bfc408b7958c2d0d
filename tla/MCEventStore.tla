---------------------------- MODULE MCEventStore ----------------------------
(* EventStore for TLC.                                                     *)
EXTENDS EventStore, TLC

StoreSymmetry ==
    Permutations(Aggregate) \cup Permutations(Type) \cup Permutations(Writers) \cup Permutations(Savers)
=============================================================================
