--------------------------- MODULE MCCorrelation ---------------------------
(***************************************************************************)
(* Small instances of Correlation for TLC.                                 *)
(***************************************************************************)
EXTENDS Correlation, TLC

\* A long clock is explored with two events, three events with a short clock.
Corner == now < MaxTime \/ submitted < MaxEvents

\* Hosts are interchangeable.
Symmetry == Permutations(Hosts)
=============================================================================
