------------------------------- MODULE MCDriver --------------------------------
(* The driver app's offline queue for TLC: what the driver does, and what the    *)
(* API may refuse for good.                                                      *)
EXTENDS DriverApp, TLC

Everything == Kinds
EventsOnly == {"event"}
Nothing == {}

=============================================================================
