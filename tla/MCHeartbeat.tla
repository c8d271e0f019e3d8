------------------------------ MODULE MCHeartbeat ------------------------------
(***************************************************************************)
(* Instances of Heartbeat for TLC: three APIs in any order, of which a3    *)
(* may be down for good.                                                   *)
(***************************************************************************)
EXTENDS Heartbeat
================================================================================
