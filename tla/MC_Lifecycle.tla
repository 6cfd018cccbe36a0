---------------------------- MODULE MC_Lifecycle ----------------------------
(* Three invocations of serve() on one server object, two of them by         *)
(* serve_forever, on one port or on two.                                    *)
EXTENDS ServerLifecycle, TLC

CONSTANTS main, again, direct

MC_OnePort == [s \in Serves |-> 1]
MC_TwoPorts == [s \in Serves |-> IF s = main THEN 1 ELSE 2]
=============================================================================
