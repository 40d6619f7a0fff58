------------------------------- MODULE MCLanes -------------------------------
(***************************************************************************)
(* A small instance of Lanes for TLC.  The alerts are one of each shape    *)
(* the bridges tell apart: a flow, a source without a destination (a loop  *)
(* in the graph), a destination without a source, and a line with no host. *)
(***************************************************************************)
EXTENDS Lanes

MCAlerts == {[src |-> "a", dst |-> "c"], [src |-> "b", dst |-> None],
             [src |-> None, dst |-> "a"], NoHost}
=============================================================================
