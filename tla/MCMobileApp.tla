---------------------------- MODULE MCMobileApp -----------------------------
(* MobileApp on a small instance: see the README for the bounds.           *)
EXTENDS MobileApp

MCTrack == [track |-> {"l1"}]
=============================================================================
