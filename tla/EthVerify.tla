----------------------------- MODULE EthVerify ------------------------------
(***************************************************************************)
(* VerifyPayment against a chain that moves.  The three calls of the       *)
(* Ethereum node (transaction, receipt, block number) are three reads of a *)
(* chain that grows, and that may be reorganised, between them; the number *)
(* of confirmations is a subtraction of 64-bit unsigned integers.  The     *)
(* price of an order is in dollars, what a transaction transfers in Wei:   *)
(* USDtoWei converts exactly, and rounds down.                             *)
(***************************************************************************)
EXTENDS Integers

CONSTANTS
  Recipients,        \* recipient addresses of transactions, None included
  walletAddr,        \* the shop's address
  None,              \* contract creation: the transaction has no recipient
  Values,            \* values of transactions, in Wei
  Totals,            \* total amounts of orders
  Rates,             \* prices of an Ether, in the same fraction of a dollar
  weiPerEther,
  minConfirmations,
  Modulus,           \* block numbers are 0 .. Modulus - 1 (2^64 in the code)
  MaxHead,           \* bound: the chain is not followed beyond this height
  MaxReorg           \* bound: blocks a reorganisation takes back

ASSUME EthVerifyAssumption ==
  /\ Values \subseteq Nat
  /\ Totals \subseteq Int
  /\ Rates \subseteq Nat \ {0}
  /\ weiPerEther \in Nat /\ minConfirmations \in Nat
  /\ Modulus \in Nat
  /\ MaxHead \in 1 .. Modulus - 1
  /\ MaxReorg \in Nat
  /\ walletAddr # None

VARIABLES
  \* the chain
  head,              \* its height
  mined,             \* the block of the transaction, 0 while it is in no block
  tx,                \* the transaction, and whether its execution succeeds
  steady,            \* the chain has not been reorganised
  \* a call of VerifyPayment
  total,             \* order.TotalAmount
  ethPriceUSD,       \* of the handler
  pc,                \* the next call of the node, or the result
  block,             \* receipt.BlockNumber
  latest             \* the answer of BlockNumber

chain == <<head, mined, tx, steady>>
call  == <<pc, block, latest>>
price == <<total, ethPriceUSD>>
vars  == <<chain, call, price>>

Init ==
  /\ head = 1
  /\ mined = 0
  /\ tx \in [to : Recipients, value : Values, success : BOOLEAN]
  /\ steady = TRUE
  /\ total \in Totals
  /\ ethPriceUSD \in Rates
  /\ pc = "transaction"
  /\ block = 0
  /\ latest = 0

\* A block is appended, with or without the transaction.
Mine ==
  /\ head < MaxHead
  /\ head' = head + 1
  /\ \/ UNCHANGED mined
     \/ mined = 0 /\ mined' = head + 1
  /\ UNCHANGED <<tx, steady, call>>

\* The last blocks are taken back (or the node asked next is behind), the
\* transaction with them if it was there.
Reorganise ==
  \E n \in 1 .. MaxReorg :
    /\ n < head
    /\ head' = head - n
    /\ mined' = IF mined > head - n THEN 0 ELSE mined
    /\ steady' = FALSE
    /\ UNCHANGED <<tx, call>>

\* client.TransactionByHash: the transaction must be in a block.
TransactionByHash ==
  /\ pc = "transaction"
  /\ pc' = IF mined = 0 THEN "rejected" ELSE "receipt"
  /\ UNCHANGED <<chain, block, latest>>

\* Mutant: a missing receipt is not an error.
TransactionReceiptAny ==
  /\ pc = "receipt"
  /\ block' = mined
  /\ pc' = IF tx.success THEN "number" ELSE "rejected"
  /\ UNCHANGED <<chain, latest>>

\* client.TransactionReceipt: there must be one, of a success.
TransactionReceipt ==
  /\ pc = "receipt"
  /\ block' = mined
  /\ pc' = IF mined # 0 /\ tx.success THEN "number" ELSE "rejected"
  /\ UNCHANGED <<chain, latest>>

\* The price of the order, in whole Wei.
USDtoWei(usd, rate) == IF usd <= 0 THEN 0 ELSE (usd * weiPerEther) \div rate

\* Mutant: the block of the transaction counts as a confirmation.
ConfirmationsFromOne(number, of) == (number - of + 1) % Modulus

\* latest - receipt.BlockNumber.Uint64()
Confirmations(number, of) == (number - of) % Modulus

\* client.BlockNumber, then the confirmations, the recipient and the amount.
BlockNumber ==
  /\ pc = "number"
  /\ latest' = head
  /\ pc' = IF /\ Confirmations(head, block) >= minConfirmations
              /\ tx.to # None
              /\ tx.to = walletAddr
              /\ tx.value >= USDtoWei(total, ethPriceUSD)
             THEN "accepted" ELSE "rejected"
  /\ UNCHANGED <<chain, block>>

\* A call of the node fails.
RpcFails ==
  /\ pc \in {"transaction", "receipt", "number"}
  /\ pc' = "rejected"
  /\ UNCHANGED <<chain, block, latest>>

Next ==
  /\ \/ Mine
     \/ Reorganise
     \/ TransactionByHash
     \/ TransactionReceipt
     \/ BlockNumber
     \/ RpcFails
  /\ UNCHANGED price

Spec == Init /\ [][Next]_vars

-----------------------------------------------------------------------------
(***************************************************************************)
(* Type invariant: and the block number is asked for once there is a       *)
(* receipt.                                                                *)
(***************************************************************************)
TypeOK ==
  /\ head \in 1 .. MaxHead
  /\ mined \in 0 .. head
  /\ tx \in [to : Recipients, value : Values, success : BOOLEAN]
  /\ steady \in BOOLEAN
  /\ total \in Totals
  /\ ethPriceUSD \in Rates
  /\ pc \in {"transaction", "receipt", "number", "accepted", "rejected"}
  /\ block \in 0 .. MaxHead
  /\ latest \in 0 .. MaxHead
  /\ pc = "number" => block # 0

\* Less than one Wei short of an amount in dollars.
PaysFor(wei, usd, rate) == (wei + 1) * rate > usd * weiPerEther

(***************************************************************************)
(* However the chain moves between the calls, what is accepted pays the    *)
(* shop, less than one Wei short of the order's total at the rate, and has *)
(* its confirmations by the block numbers the call was told, unless the    *)
(* node was behind the block of its own receipt.  On a chain that is not   *)
(* reorganised it is buried under minConfirmations blocks, at the moment   *)
(* of the answer and ever after.                                           *)
(***************************************************************************)
AcceptedIsPaid ==
  pc = "accepted" =>
    /\ tx.success
    /\ tx.to = walletAddr
    /\ PaysFor(tx.value, total, ethPriceUSD)
    /\ latest >= block => latest - block >= minConfirmations
    /\ steady => mined # 0 /\ head - mined >= minConfirmations

(***************************************************************************)
(* What VerifyPayment accepts has minConfirmations confirmations (comment  *)
(* at eth.go:72), by the two block numbers it was itself told.             *)
(***************************************************************************)
ConfirmedEnough == pc = "accepted" => latest - block >= minConfirmations
=============================================================================
