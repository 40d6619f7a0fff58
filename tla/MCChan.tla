------------------------------- MODULE MCChan -------------------------------
(***************************************************************************)
(* Small instances of Chan for TLC.                                        *)
(***************************************************************************)
EXTENDS Chan, TLC

\* Senders are interchangeable.
Symmetry == Permutations(Senders)
=============================================================================
