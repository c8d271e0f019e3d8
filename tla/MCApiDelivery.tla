----------------------------- MODULE MCApiDelivery -----------------------------
(***************************************************************************)
(* Instances of ApiDelivery for TLC: two APIs behind one section of the    *)
(* configuration, every way their requests may be repeated and delayed.    *)
(***************************************************************************)
EXTENDS ApiDelivery
================================================================================
