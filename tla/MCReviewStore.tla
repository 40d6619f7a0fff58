--------------------------- MODULE MCReviewStore ---------------------------
(***************************************************************************)
(* Small instances of ReviewStore for TLC.                                 *)
(***************************************************************************)
EXTENDS ReviewStore, TLC

MCPredictions ==
    { [label |-> "Attack", confidence |-> 9500, margin |-> {}, ood |-> FALSE],
      [label |-> "Attack", confidence |-> 8000, margin |-> {}, ood |-> FALSE] }

\* Inodes are interchangeable, and so are flows and programs.
Symmetry == Permutations(Inodes) \union Permutations(Flows) \union Permutations(Procs)
=============================================================================
