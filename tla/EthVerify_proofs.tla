-------------------------- MODULE EthVerify_proofs --------------------------
(***************************************************************************)
(* What VerifyPayment promises for every transaction, price and number of  *)
(* confirmations, and however far the chain grows or is reorganised.       *)
(***************************************************************************)
EXTENDS EthVerify, TLAPS

\* What the calls of the node have established by now.
Checked ==
  /\ pc \in {"number", "accepted"} => tx.success
  /\ (pc \in {"number", "accepted"} /\ steady) => mined = block /\ mined # 0
  /\ (pc = "accepted" /\ steady) => latest <= head

IInv == TypeOK /\ Checked /\ AcceptedIsPaid

(***************************************************************************)
(* While the head is not below the receipt's block, the subtraction does   *)
(* not wrap.                                                               *)
(***************************************************************************)
LEMMA ConfirmationsExact ==
  ASSUME NEW of \in 0 .. MaxHead, NEW number \in of .. MaxHead
  PROVE  Confirmations(number, of) = number - of
<1>1. number - of \in 0 .. Modulus - 1
  BY EthVerifyAssumption
<1> QED  BY <1>1, EthVerifyAssumption DEF Confirmations

(***************************************************************************)
(* The conversion takes less than one Wei off the price.                   *)
(***************************************************************************)
LEMMA PriceInWei ==
  ASSUME NEW usd \in Int, NEW rate \in Nat \ {0}
  PROVE  /\ USDtoWei(usd, rate) \in Nat
         /\ PaysFor(USDtoWei(usd, rate), usd, rate)
<1> DEFINE wei == usd * weiPerEther
<1>1. CASE usd <= 0
  <2>1. wei \in Int /\ wei <= 0
    BY <1>1, EthVerifyAssumption
  <2>2. (0 + 1) * rate = rate
    OBVIOUS
  <2> HIDE DEF wei
  <2>3. USDtoWei(usd, rate) = 0 /\ (0 + 1) * rate > wei
    BY <1>1, <2>1, <2>2 DEF USDtoWei
  <2> QED  BY <2>3 DEF PaysFor, wei
<1>2. CASE usd > 0
  <2>1. wei \in Nat
    BY <1>2, EthVerifyAssumption
  <2> HIDE DEF wei
  <2>2. wei \div rate \in Nat /\ (wei \div rate + 1) * rate > wei
    BY <2>1
  <2>3. USDtoWei(usd, rate) = wei \div rate
    BY <1>2 DEF USDtoWei, wei
  <2> QED  BY <2>2, <2>3 DEF PaysFor, wei
<1> QED  BY <1>1, <1>2

\* Who transfers the price in Wei or more is less than one Wei short.
LEMMA Paid ==
  ASSUME NEW value \in Nat, NEW usd \in Int, NEW rate \in Nat \ {0},
         value >= USDtoWei(usd, rate)
  PROVE  PaysFor(value, usd, rate)
<1> DEFINE wei == USDtoWei(usd, rate)
           due == usd * weiPerEther
<1>1. wei \in Nat /\ (wei + 1) * rate > due
  BY PriceInWei DEF PaysFor
<1>2. due \in Int
  BY EthVerifyAssumption
<1> HIDE DEF wei, due
<1>3. (value + 1) * rate >= (wei + 1) * rate
  BY <1>1 DEF wei
<1>4. (value + 1) * rate > due
  BY <1>1, <1>2, <1>3
<1> QED  BY <1>4 DEF PaysFor, due

LEMMA InitInv == Init => IInv
BY EthVerifyAssumption DEF Init, IInv, TypeOK, Checked, AcceptedIsPaid

LEMMA StepInv == IInv /\ [Next]_vars => IInv'
<1> SUFFICES ASSUME IInv, [Next]_vars PROVE IInv'
  OBVIOUS
<1> USE EthVerifyAssumption DEF IInv, TypeOK, Checked, AcceptedIsPaid, chain, call, price
<1>0. UNCHANGED price
  BY DEF Next, vars
<1>1. CASE Mine
  BY <1>0, <1>1 DEF Mine
<1>2. CASE Reorganise
  <2>1. PICK n \in 1 .. MaxReorg :
          /\ n < head
          /\ head' = head - n
          /\ mined' = IF mined > head - n THEN 0 ELSE mined
    BY <1>2 DEF Reorganise
  <2>2. ~ steady' /\ steady' \in BOOLEAN /\ UNCHANGED <<tx, pc, block, latest>>
    BY <1>2 DEF Reorganise
  <2>3. head' \in 1 .. MaxHead /\ mined' \in 0 .. head'
    BY <2>1
  <2> QED  BY <1>0, <2>2, <2>3
<1>3. CASE TransactionByHash
  BY <1>0, <1>3 DEF TransactionByHash
<1>4. CASE TransactionReceipt
  BY <1>0, <1>4 DEF TransactionReceipt
<1>5. CASE BlockNumber
  <2>1. latest' = head /\ UNCHANGED <<chain, block>> /\ pc' \in {"accepted", "rejected"}
    BY <1>5 DEF BlockNumber
  <2>2. CASE pc' = "rejected"
    BY <1>0, <2>1, <2>2
  <2>3. CASE pc' = "accepted"
    <3>1. /\ pc = "number" /\ tx.to = walletAddr
          /\ tx.value >= USDtoWei(total, ethPriceUSD)
          /\ Confirmations(head, block) >= minConfirmations
      BY <1>5, <2>3 DEF BlockNumber
    <3>2. head >= block => head - block >= minConfirmations
      BY <3>1, ConfirmationsExact
    <3>3. PaysFor(tx.value, total, ethPriceUSD)
      BY <3>1, Paid
    <3> QED  BY <1>0, <2>1, <2>3, <3>1, <3>2, <3>3
  <2> QED  BY <2>1, <2>2, <2>3
<1>6. CASE RpcFails
  BY <1>0, <1>6 DEF RpcFails
<1>7. CASE UNCHANGED vars
  BY <1>7 DEF vars
<1> QED  BY <1>1, <1>2, <1>3, <1>4, <1>5, <1>6, <1>7 DEF Next

THEOREM Invariance == Spec => []IInv
BY InitInv, StepInv, PTL DEF Spec

(***************************************************************************)
(* Type correctness of the verification.                                   *)
(***************************************************************************)
THEOREM TypeCorrect == Spec => []TypeOK
BY Invariance, PTL DEF IInv

(***************************************************************************)
(* What is accepted is paid to the shop and, on a chain that only grows,   *)
(* buried deep enough.                                                     *)
(***************************************************************************)
THEOREM Payment == Spec => []AcceptedIsPaid
BY Invariance, PTL DEF IInv
=============================================================================
