--------------------------- MODULE SettlementData ---------------------------
(***************************************************************************)
(* The data of order settlement.  A customer names a transaction by a      *)
(* text; HexToHash makes a hash of it, several texts having the same hash  *)
(* (letter case, 0x prefix), and the chain knows hashes.  Orders record    *)
(* the text.  Orders are numbered as their CreatedAt orders them, which    *)
(* need not be how they appear: CreatedAt is taken before the order is     *)
(* stored.                                                                 *)
(***************************************************************************)
EXTENDS Integers, FiniteSets

CONSTANTS
  Orders,      \* order identifiers
  Texts,       \* tx_hash fields of verify requests
  HashOf,      \* common.HexToHash
  Covers,      \* <<hash, order>>: VerifyPayment accepts the transaction
  NoText       \* a NULL tx_hash

ASSUME SettlementDataAssumption ==
  /\ Orders \subseteq Nat
  /\ IsFiniteSet(Orders)
  /\ DOMAIN HashOf = Texts
  /\ NoText \notin Texts

Status == {"none", "pending", "paid", "failed"}
=============================================================================
