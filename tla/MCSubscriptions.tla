---------------------------- MODULE MCSubscriptions ----------------------------
(* The subscription for TLC.                                                       *)
EXTENDS Subscriptions, TLC

CONSTANTS pre1, chg1, req1, req2

=============================================================================
