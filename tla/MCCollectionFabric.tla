------------------------ MODULE MCCollectionFabric ------------------------
(* CollectionFabric for TLC: ids, clients and workers of a kind are        *)
(* interchangeable.                                                        *)
EXTENDS CollectionFabric, TLC

FabricSymmetry ==
    Permutations(TaskId) \cup Permutations(Clients) \cup Permutations(Workers \ Drainers)
============================================================================
