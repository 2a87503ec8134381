---------------------------- MODULE MCEthVerify -----------------------------
(* Small values for EthVerify: totals below, at and above zero.            *)
EXTENDS EthVerify

MCTotals == -1 .. 2
=============================================================================
