---------------------------- MODULE MCQuarantine ----------------------------
(***************************************************************************)
(* Quarantine for TLC.                                                     *)
(***************************************************************************)
EXTENDS Quarantine, TLC

\* Neither addresses nor threads are told apart.
Symmetry == Permutations(Ips) \union Permutations(Threads)
=============================================================================
