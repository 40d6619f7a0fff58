--------------------------- MODULE MCXdpBlocklist ---------------------------
(***************************************************************************)
(* Small instances of XdpBlocklist for TLC: hosts of one prefix.  The      *)
(* machine booted long after the epoch, so that the wall clock is far      *)
(* ahead of the kernel's.                                                  *)
(***************************************************************************)
EXTENDS XdpBlocklist, TLC

MCWideOf == [h \in Hosts |-> Hosts]

\* Tasks, inodes and the hosts that may be blocked are interchangeable.
Symmetry ==
    Permutations(Tasks) \union Permutations(Inodes)
        \union Permutations(Hosts \ Allowlist)
=============================================================================
