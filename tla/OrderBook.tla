----------------------------- MODULE OrderBook ------------------------------
(***************************************************************************)
(* The life of orders as the interface and the documentation have it: an   *)
(* order is pending until a payment that covers it settles it or until it  *)
(* is cancelled, both for good, and a text settles one order.              *)
(***************************************************************************)
EXTENDS SettlementData

VARIABLES
  status,      \* "none" before the order is created
  hash         \* the recorded tx_hash

vars == <<status, hash>>

Init ==
  /\ status = [o \in Orders |-> "none"]
  /\ hash = [o \in Orders |-> NoText]

Open(o) ==
  /\ status[o] = "none"
  /\ status' = [status EXCEPT ![o] = "pending"]
  /\ UNCHANGED hash

Settle(o, t) ==
  /\ status[o] = "pending"
  /\ <<HashOf[t], o>> \in Covers
  /\ \A p \in Orders : hash[p] # t
  /\ status' = [status EXCEPT ![o] = "paid"]
  /\ hash' = [hash EXCEPT ![o] = t]

Cancel(o) ==
  /\ status[o] = "pending"
  /\ status' = [status EXCEPT ![o] = "failed"]
  /\ UNCHANGED hash

Next ==
  \E o \in Orders : Open(o) \/ Cancel(o) \/ \E t \in Texts : Settle(o, t)

Spec == Init /\ [][Next]_vars
=============================================================================
