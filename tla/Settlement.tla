----------------------------- MODULE Settlement -----------------------------
(***************************************************************************)
(* What happens to orders once they are placed: the verify, cancel and     *)
(* checkout-page requests of customers, on either backend, and an          *)
(* administrator who leafs through the list of orders.                     *)
(*                                                                         *)
(* verify and checkoutCancel read the order, check that it is pending, and *)
(* later write it without looking at its status again; verify calls the    *)
(* Ethereum node in between.  That a text settles one order is a unique    *)
(* index on PostgreSQL (migration 003).  On Redis it is a reservation key  *)
(* set with SETNX before the order document is written, and the pending    *)
(* orders of a wallet are a sorted set kept in step with the documents by  *)
(* MULTI.                                                                  *)
(***************************************************************************)
EXTENDS SettlementData

CONSTANTS
  Requests,    \* handler goroutines, each serving one request at a time
  Clienteles,  \* ways the orders may be spread over the goroutines' clients
  Leafing,     \* bound: those beside which the list of orders is read
  PageSize,    \* orders of a page of the list
  Free         \* a reservation key that does not exist

ASSUME SettlementAssumption ==
  /\ Clienteles \subseteq [Requests -> SUBSET Orders]
  /\ PageSize \in Nat \ {0}
  /\ Free \notin Orders

VARIABLES
  backend,     \* SHOP_DB_TYPE
  \* store
  status,      \* of the order's row or document
  hash,        \* its tx_hash
  reserved,    \* Redis: order:txhash:<text>
  pending,     \* Redis: the members of the orders:pending:<wallet> sets
  settledBy,   \* history: the texts an order was ever settled with
  \* requests
  pc,          \* where a request is
  about,       \* the order it is about
  text,        \* its tx_hash
  serves,      \* the orders the clients of a goroutine act on
  \* the administrator
  at,          \* where the walk over the pages is
  offset,      \* of the next page
  total,       \* orders as counted for it
  known,       \* orders that existed when the walk began
  shown,       \* orders on the pages so far
  torn         \* an order appeared between a count and its page

store   == <<status, hash, reserved, pending, settledBy>>
request == <<pc, about, text>>
walk    == <<at, offset, total, known, shown, torn>>
vars    == <<backend, store, request, serves, walk>>

Init ==
  /\ backend \in {"pg", "redis"}
  /\ status = [o \in Orders |-> "none"]
  /\ hash = [o \in Orders |-> NoText]
  /\ reserved = [t \in Texts |-> Free]
  /\ pending = {}
  /\ settledBy = [o \in Orders |-> {}]
  /\ pc = [r \in Requests |-> "idle"]
  /\ about \in [Requests -> Orders]
  /\ text = [r \in Requests |-> NoText]
  /\ serves \in Clienteles
  /\ at = "count"
  /\ offset = 0
  /\ total = 0
  /\ known = {}
  /\ shown = {}
  /\ torn = FALSE

OnRedis == backend = "redis"

Goto(r, where) == pc' = [pc EXCEPT ![r] = where]

\* orders.Repository.Create: a pending order with no tx_hash, and on Redis its
\* entry in the pending set.
Create(o) ==
  /\ status[o] = "none"
  /\ status' = [status EXCEPT ![o] = "pending"]
  /\ pending' = IF OnRedis THEN pending \cup {o} ELSE pending
  /\ torn' = (torn \/ at = "page")
  /\ UNCHANGED <<hash, reserved, settledBy, request, at, offset, total, known, shown>>

-----------------------------------------------------------------------------
(* POST /payment/verify.                                                   *)

\* Mutant: the status of the order is not checked.
VerifyGetUnchecked(r, o, t) ==
  /\ pc[r] = "idle"
  /\ status[o] # "paid"
  /\ Goto(r, "verify")
  /\ about' = [about EXCEPT ![r] = o]
  /\ text' = [text EXCEPT ![r] = t]
  /\ UNCHANGED <<store, walk>>

\* Get answers an order that is pending.
IsPending(o) == status[o] = "pending"

\* Get and the check that the order is pending.
VerifyGet(r, o, t) ==
  /\ pc[r] = "idle"
  /\ IsPending(o)
  /\ Goto(r, "verify")
  /\ about' = [about EXCEPT ![r] = o]
  /\ text' = [text EXCEPT ![r] = t]
  /\ UNCHANGED <<store, walk>>

\* VerifyPayment accepts the transaction, and UpdateStatus(paid) begins.
Verified(r) ==
  /\ pc[r] = "verify"
  /\ <<HashOf[text[r]], about[r]>> \in Covers
  /\ Goto(r, IF OnRedis THEN "reserve" ELSE "settle")
  /\ UNCHANGED <<store, about, text, walk>>

\* The text of the request is another order's: in the index, or by its key.
Taken(r) ==
  IF OnRedis
    THEN reserved[text[r]] \notin {Free, about[r]}
    ELSE \E p \in Orders \ {about[r]} : hash[p] = text[r]

\* Redis: SETNX sets the key, or the key is this order's.
Reserve(r) ==
  /\ pc[r] = "reserve"
  /\ ~ Taken(r)
  /\ reserved' = [reserved EXCEPT ![text[r]] = about[r]]
  /\ Goto(r, "settle")
  /\ UNCHANGED <<status, hash, pending, settledBy, about, text, walk>>

\* ErrTxHashReused: the unique violation, or a key that is another order's.
\* Keys are never deleted: the GET after SETNX finds what SETNX found.
Reused(r) ==
  /\ pc[r] = IF OnRedis THEN "reserve" ELSE "settle"
  /\ Taken(r)
  /\ Goto(r, "idle")
  /\ UNCHANGED <<store, about, text, walk>>

\* Mutant: only a paid order leaves the pending set.
WriteLeavesFailed(r, s, t) ==
  /\ status' = [status EXCEPT ![about[r]] = s]
  /\ hash' = [hash EXCEPT ![about[r]] = t]
  /\ pending' = IF s = "paid" THEN pending \ {about[r]} ELSE pending
  /\ settledBy' = [settledBy EXCEPT ![about[r]] = @ \cup ({t} \ {NoText})]
  /\ Goto(r, "idle")
  /\ UNCHANGED <<reserved, about, text, walk>>

\* UpdateStatus writes the row; on Redis the document, and the pending set.
Write(r, s, t) ==
  /\ status' = [status EXCEPT ![about[r]] = s]
  /\ hash' = [hash EXCEPT ![about[r]] = t]
  /\ pending' = pending \ {about[r]}
  /\ settledBy' = [settledBy EXCEPT ![about[r]] = @ \cup ({t} \ {NoText})]
  /\ Goto(r, "idle")
  /\ UNCHANGED <<reserved, about, text, walk>>

\* The order is paid; the unique index has let the UPDATE pass.
Settle(r) ==
  /\ pc[r] = "settle"
  /\ OnRedis \/ ~ Taken(r)
  /\ Write(r, "paid", text[r])

-----------------------------------------------------------------------------
(* POST /checkout/cancel, GET /checkout, and calls that fail.              *)

\* checkoutCancel: Get and the check that the order is pending.
CancelGet(r, o) ==
  /\ pc[r] = "idle"
  /\ IsPending(o)
  /\ Goto(r, "cancel")
  /\ about' = [about EXCEPT ![r] = o]
  /\ UNCHANGED <<store, text, walk>>

\* Mutant: the update sets the status alone.
CancelKeepsHash(r) == pc[r] = "cancel" /\ Write(r, "failed", hash[about[r]])

\* Mutant: the reservation of the text that the order loses is given up.
CancelFreesText(r) ==
  /\ pc[r] = "cancel"
  /\ status' = [status EXCEPT ![about[r]] = "failed"]
  /\ hash' = [hash EXCEPT ![about[r]] = NoText]
  /\ reserved' = [t \in Texts |-> IF t = hash[about[r]] THEN Free ELSE reserved[t]]
  /\ pending' = pending \ {about[r]}
  /\ Goto(r, "idle")
  /\ UNCHANGED <<settledBy, about, text, walk>>

\* checkoutCancel: UpdateStatus(failed) writes a nil tx_hash.
Cancel(r) == pc[r] = "cancel" /\ Write(r, "failed", NoText)

\* FindPendingByWallet on Redis: the newest entry of the wallet's pending set.
\* Any entry may be the newest of its wallet.
FindIds(r, o) ==
  /\ OnRedis
  /\ pc[r] = "idle"
  /\ o \in pending
  /\ Goto(r, "find")
  /\ about' = [about EXCEPT ![r] = o]
  /\ UNCHANGED <<store, text, walk>>

\* FindPendingByWallet: Get, and the page offers to pay the order.
FindGet(r) ==
  /\ pc[r] = "find"
  /\ Goto(r, "idle")
  /\ UNCHANGED <<store, about, text, walk>>

\* A call fails or the payment is rejected, and the handler answers an error.
Drop(r) ==
  /\ pc[r] # "idle"
  /\ Goto(r, "idle")
  /\ UNCHANGED <<store, about, text, walk>>

-----------------------------------------------------------------------------
(* GET /admin/orders, page after page: List counts the orders, then reads  *)
(* the page, newest first, and the link to the next page is there if the   *)
(* count says so.                                                          *)

Placed == {o \in Orders : status[o] # "none"}

\* Where an order is in the list.
Rank(o) == Cardinality({p \in Placed : p > o})

\* Mutant: the count of the first page is used for all of them.
CountOnce ==
  /\ at = "count" /\ serves \in Leafing
  /\ total' = IF offset = 0 THEN Cardinality(Placed) ELSE total
  /\ known' = IF offset = 0 THEN Placed ELSE known
  /\ at' = "page"
  /\ UNCHANGED <<offset, shown, torn, store, request>>

\* List: SELECT COUNT, or ZCARD.
Count ==
  /\ at = "count" /\ serves \in Leafing
  /\ total' = Cardinality(Placed)
  /\ known' = IF offset = 0 THEN Placed ELSE known
  /\ at' = "page"
  /\ UNCHANGED <<offset, shown, torn, store, request>>

\* List: SELECT ... LIMIT OFFSET, or ZREVRANGE; no order is ever deleted, so
\* MGET finds the documents.  HasNext leads to the next page.
Page ==
  /\ at = "page"
  /\ shown' = shown \cup {o \in Placed : Rank(o) \in offset .. offset + PageSize - 1}
  /\ IF offset + PageSize < total
       THEN at' = "count" /\ offset' = offset + PageSize
       ELSE at' = "done"  /\ offset' = offset
  /\ UNCHANGED <<total, known, torn, store, request>>

-----------------------------------------------------------------------------
Next ==
  /\ \/ \E o \in Orders : Create(o)
     \/ \E r \in Requests :
          \/ \E o \in serves[r] :
               CancelGet(r, o) \/ FindIds(r, o) \/ \E t \in Texts : VerifyGet(r, o, t)
          \/ Verified(r)
          \/ Reserve(r)
          \/ Reused(r)
          \/ Settle(r)
          \/ Cancel(r)
          \/ FindGet(r)
          \/ Drop(r)
     \/ Count
     \/ Page
  /\ UNCHANGED <<backend, serves>>

Spec == Init /\ [][Next]_vars

-----------------------------------------------------------------------------
(***************************************************************************)
(* Type invariant: and a request is about an order that was created.       *)
(***************************************************************************)
TypeOK ==
  /\ backend \in {"pg", "redis"}
  /\ status \in [Orders -> Status]
  /\ hash \in [Orders -> Texts \cup {NoText}]
  /\ reserved \in [Texts -> Orders \cup {Free}]
  /\ pending \subseteq Orders
  /\ settledBy \in [Orders -> SUBSET Texts]
  /\ pc \in [Requests -> {"idle", "verify", "reserve", "settle", "cancel", "find"}]
  /\ about \in [Requests -> Orders]
  /\ text \in [Requests -> Texts \cup {NoText}]
  /\ serves \in Clienteles
  /\ at \in {"count", "page", "done"}
  /\ offset \in Nat /\ total \in Nat
  /\ known \subseteq Orders /\ shown \subseteq Orders
  /\ torn \in BOOLEAN
  /\ \A r \in Requests : pc[r] # "idle" => status[about[r]] # "none"

(***************************************************************************)
(* A paid order records a transaction the chain check accepted for that    *)
(* order, whatever other requests did to it during the check, and on Redis *)
(* holds the reservation of its text; an order that is not paid records    *)
(* none, so that on PostgreSQL its payment can still be used.              *)
(***************************************************************************)
PaidWasVerified ==
  \A o \in Orders :
    IF status[o] = "paid"
      THEN /\ hash[o] \in Texts
           /\ <<HashOf[hash[o]], o>> \in Covers
           /\ OnRedis => reserved[hash[o]] = o
      ELSE hash[o] = NoText

(***************************************************************************)
(* "Prevent the same on-chain payment from settling two orders" (migration *)
(* 003, line 1).  The index and the reservation keys are on the text.      *)
(***************************************************************************)
PaymentSettlesOne ==
  \A o, p \in Orders :
    (o # p /\ status[o] = "paid" /\ status[p] = "paid") =>
      HashOf[hash[o]] # HashOf[hash[p]]

(***************************************************************************)
(* No two orders record the same text at a time; and on Redis a text that  *)
(* has settled an order settles no other order ever, even if the order was *)
(* cancelled or paid again since and no longer records it, and whatever    *)
(* requests failed between the reservation and the write (comment at       *)
(* repository_redis.go:253).                                               *)
(***************************************************************************)
TextSettlesOne ==
  \A o, p \in Orders : o # p =>
    /\ hash[o] # NoText => hash[o] # hash[p]
    /\ OnRedis => settledBy[o] \cap settledBy[p] = {}

(***************************************************************************)
(* Cancelling marks a pending order as failed (ui.go:379), never one that  *)
(* has been paid.                                                          *)
(***************************************************************************)
OnlyPendingFails ==
  [][\A o \in Orders :
       status'[o] = "failed" => status[o] \in {"pending", "failed"}]_vars

\* Every order is acted on by the clients of one goroutine.
OneClient ==
  \A r, s \in Requests : r # s => serves[r] \cap serves[s] = {}

(***************************************************************************)
(* When every order is acted on by one client, the checkout page on Redis  *)
(* never offers to pay an order that is paid or cancelled, though it finds *)
(* the order and reads it in two commands: the pending sets lag behind no  *)
(* document.                                                               *)
(***************************************************************************)
FoundIsPending ==
  OneClient => \A r \in Requests : pc[r] = "find" => IsPending(about[r])

(***************************************************************************)
(* When every order is acted on by one client, orders live as OrderBook    *)
(* has it: reservations left by failed requests do no harm.                *)
(***************************************************************************)
Book == INSTANCE OrderBook

ImplementsOrderBook ==
  /\ OneClient => Book!Init
  /\ [][OneClient => [Book!Next]_(Book!vars)]_vars

(***************************************************************************)
(* An administrator who follows the links from the first page to the last  *)
(* has seen every order that existed at the beginning, though orders are   *)
(* placed meanwhile and shift the others to later pages; unless one was    *)
(* placed between a count and its page, which then belong to different     *)
(* moments.                                                                *)
(***************************************************************************)
WalkMissesNone == (at = "done" /\ ~ torn) => known \subseteq shown
=============================================================================
