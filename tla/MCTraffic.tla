----------------------------- MODULE MCTraffic ------------------------------
(* Small values for Traffic: two senders behind one host.                  *)
EXTENDS Traffic

CONSTANT h1

MCHostOf == [s \in Senders |-> h1]
=============================================================================
