------------------------------ MODULE PgStock -------------------------------
(***************************************************************************)
(* Stock on the PostgreSQL backend.  A checkout (pgRepository.Create of    *)
(* package orders) is a READ COMMITTED transaction that handles its items  *)
(* one after the other: it inserts the order item, whose foreign key takes *)
(* a KEY SHARE lock on the article row, then decrements the row, which     *)
(* takes the row's update lock.  Locks are held until the transaction      *)
(* ends, and the items come in the order of a Go map, so that checkouts    *)
(* can deadlock.  Admin requests are single statements.                    *)
(*                                                                         *)
(* row holds the committed rows; what a transaction has changed follows    *)
(* from its items and from how far it got.  The locks, the constraints of  *)
(* migrations 001 and 002 and the deadlock detector are PostgreSQL's.      *)
(***************************************************************************)
EXTENDS ShopData

CONSTANTS
  Checkouts,   \* calls of orders.Repository.Create
  Baskets,     \* item lists of the checkouts
  Edits,       \* inputs of articles.Repository.Update
  NewRows,     \* inputs of articles.Repository.Create
  NoOrder      \* no order row

ASSUME PgStockAssumption ==
  /\ Baskets \subseteq Basket
  /\ Edits \subseteq Edit
  /\ NewRows \subseteq Row
  /\ NoOrder \notin Basket

VARIABLES
  row,         \* committed rows of articles
  born,        \* the article identifiers generated so far
  order,       \* the committed order, with its items, of each checkout
  pc,          \* where a checkout is, or the result it returned
  want,        \* its items
  todo,        \* the articles whose item it has not inserted yet
  cur          \* the article of the item it inserted last

vars == <<row, born, order, pc, want, todo, cur>>

Returned == {"ok", "refused", "error"}

InTx(c) == pc[c] \in {"items", "decrement"}

\* KEY SHARE locks: the articles whose items are inserted.
KeyShare(c) == IF InTx(c) THEN Lines(want[c]) \ todo[c] ELSE {}

\* Update locks: the articles already decremented.
Locked(c) == IF pc[c] = "decrement" THEN KeyShare(c) \ {cur[c]} ELSE KeyShare(c)

LockedByOther(c, a) == \E d \in Checkouts \ {c} : a \in Locked(d)

\* Mutants: no CHECK, and an UPDATE whose condition is the identifier alone.
ValidAny(r) == TRUE

EnoughAny(c) == row[cur[c]] # NoArticle

\* CHECK (quantity >= 0)
Valid(r) == r.quantity >= 0

\* What the transaction has taken from the rows so far.
Decremented(c) == [a \in Articles |-> IF a \in Locked(c) THEN want[c][a] ELSE 0]

Enough(c) == row[cur[c]] # NoArticle /\ row[cur[c]].quantity >= want[c][cur[c]]

Init ==
  /\ row \in [Articles -> {r \in NewRows : Valid(r)} \cup {NoArticle}]
  /\ born = {a \in Articles : row[a] # NoArticle}
  /\ order = [c \in Checkouts |-> NoOrder]
  /\ pc = [c \in Checkouts |-> "idle"]
  /\ want \in [Checkouts -> Baskets]
  /\ todo = [c \in Checkouts |-> {}]
  /\ cur \in [Checkouts -> Articles]

-----------------------------------------------------------------------------
(* Checkouts.                                                              *)

\* BEGIN and the INSERT of the order.
Begin(c) ==
  /\ pc[c] = "idle"
  /\ Lines(want[c]) \subseteq born
  /\ pc' = [pc EXCEPT ![c] = "items"]
  /\ todo' = [todo EXCEPT ![c] = Lines(want[c])]
  /\ UNCHANGED <<row, born, order, want, cur>>

\* Mutant: the item stays among those to insert.
InsertItemAgain(c, a) ==
  /\ pc[c] = "items"
  /\ a \in todo[c]
  /\ row[a] # NoArticle
  /\ pc' = [pc EXCEPT ![c] = "decrement"]
  /\ cur' = [cur EXCEPT ![c] = a]
  /\ UNCHANGED <<row, born, order, want, todo>>

\* INSERT INTO order_items of the next item, whose article exists.
InsertItem(c, a) ==
  /\ pc[c] = "items"
  /\ a \in todo[c]
  /\ row[a] # NoArticle
  /\ pc' = [pc EXCEPT ![c] = "decrement"]
  /\ cur' = [cur EXCEPT ![c] = a]
  /\ todo' = [todo EXCEPT ![c] = @ \ {a}]
  /\ UNCHANGED <<row, born, order, want>>

\* The foreign key finds no article: the transaction is rolled back.
ForeignKeyFails(c, a) ==
  /\ pc[c] = "items"
  /\ a \in todo[c]
  /\ row[a] = NoArticle
  /\ pc' = [pc EXCEPT ![c] = "error"]
  /\ UNCHANGED <<row, born, order, want, todo, cur>>

\* UPDATE articles ... AND quantity >= $1 updates the row, which no other
\* transaction has locked.
Decrement(c) ==
  /\ pc[c] = "decrement"
  /\ ~ LockedByOther(c, cur[c])
  /\ Enough(c)
  /\ pc' = [pc EXCEPT ![c] = "items"]
  /\ UNCHANGED <<row, born, order, want, todo, cur>>

\* Mutant: the transaction starts again until the stock suffices.
NoRowsRetried(c) ==
  /\ pc[c] = "decrement"
  /\ ~ Enough(c)
  /\ pc' = [pc EXCEPT ![c] = "items"]
  /\ todo' = [todo EXCEPT ![c] = Lines(want[c])]
  /\ UNCHANGED <<row, born, order, want, cur>>

\* The row does not qualify, at once or after the wait for its lock:
\* RowsAffected is 0 and the transaction is rolled back.
NoRows(c) ==
  /\ pc[c] = "decrement"
  /\ ~ Enough(c)
  /\ pc' = [pc EXCEPT ![c] = "refused"]
  /\ UNCHANGED <<row, born, order, want, todo, cur>>

\* Mutant: COMMIT inside the loop over the items.
CommitEarly(c) ==
  /\ pc[c] = "items"
  /\ row' = Taken(row, Decremented(c))
  /\ order' = [order EXCEPT ![c] = want[c]]
  /\ \E reply \in {"ok", "error"} : pc' = [pc EXCEPT ![c] = reply]
  /\ UNCHANGED <<born, want, todo, cur>>

\* Every item is in: COMMIT, whose reply may be lost.
Commit(c) ==
  /\ pc[c] = "items"
  /\ todo[c] = {}
  /\ row' = Taken(row, Decremented(c))
  /\ order' = [order EXCEPT ![c] = want[c]]
  /\ \E reply \in {"ok", "error"} : pc' = [pc EXCEPT ![c] = reply]
  /\ UNCHANGED <<born, want, todo, cur>>

\* c waits for a lock that d holds.
WaitsFor(c, d) == c # d /\ pc[c] = "decrement" /\ Enough(c) /\ cur[c] \in Locked(d)

\* The deadlock detector rolls back a transaction of a cycle of waits.
DeadlockVictim(c) ==
  /\ \E S \in SUBSET Checkouts : c \in S /\ \A d \in S : \E e \in S : WaitsFor(d, e)
  /\ pc' = [pc EXCEPT ![c] = "error"]
  /\ UNCHANGED <<row, born, order, want, todo, cur>>

\* Mutant: the error of COMMIT is not looked at.
FailIgnored(c) ==
  /\ InTx(c)
  /\ pc' = [pc EXCEPT ![c] =
              IF pc[c] = "items" /\ todo[c] = {} THEN "ok" ELSE "error"]
  /\ UNCHANGED <<row, born, order, want, todo, cur>>

\* A statement fails (connection, cancelled request): deferred Rollback.
Fail(c) ==
  /\ InTx(c)
  /\ pc' = [pc EXCEPT ![c] = "error"]
  /\ UNCHANGED <<row, born, order, want, todo, cur>>

-----------------------------------------------------------------------------
(* Admin requests.                                                         *)

\* UPDATE with COALESCE: waits for the update lock, keeps the CHECK.
Update(a, edit) ==
  /\ row[a] # NoArticle
  /\ \A c \in Checkouts : a \notin Locked(c)
  /\ Valid(Applied(edit, row[a]))
  /\ row' = [row EXCEPT ![a] = Applied(edit, row[a])]
  /\ UNCHANGED <<born, order, pc, want, todo, cur>>

\* Mutant: order_items has no foreign key.
DeleteReferenced(a) ==
  /\ row[a] # NoArticle
  /\ \A c \in Checkouts : a \notin Locked(c)
  /\ row' = [row EXCEPT ![a] = NoArticle]
  /\ UNCHANGED <<born, order, pc, want, todo, cur>>

\* DELETE: waits for every lock on the row, and the foreign key of
\* order_items refuses it when an order lists the article.
Delete(a) ==
  /\ row[a] # NoArticle
  /\ \A c \in Checkouts :
       a \notin KeyShare(c) /\ (order[c] # NoOrder => a \notin Lines(order[c]))
  /\ row' = [row EXCEPT ![a] = NoArticle]
  /\ UNCHANGED <<born, order, pc, want, todo, cur>>

\* INSERT with a generated identifier.
Insert(a, r) ==
  /\ a \notin born
  /\ Valid(r)
  /\ row' = [row EXCEPT ![a] = r]
  /\ born' = born \cup {a}
  /\ UNCHANGED <<order, pc, want, todo, cur>>

-----------------------------------------------------------------------------
\* The steps Create takes by itself, or PostgreSQL takes for it.
CheckoutStep(c) ==
  \/ \E a \in Articles : InsertItem(c, a) \/ ForeignKeyFails(c, a)
  \/ Decrement(c)
  \/ NoRows(c)
  \/ Commit(c)
  \/ DeadlockVictim(c)

AdminStep ==
  \/ \E a \in Articles, edit \in Edits : Update(a, edit)
  \/ \E a \in Articles : Delete(a)
  \/ \E a \in Articles, r \in NewRows : Insert(a, r)

Next ==
  \/ \E c \in Checkouts : Begin(c) \/ CheckoutStep(c) \/ Fail(c)
  \/ AdminStep

Spec == Init /\ [][Next]_vars

\* Statements are served, and the deadlock detector runs.
FairSpec == Spec /\ \A c \in Checkouts : WF_vars(CheckoutStep(c))

-----------------------------------------------------------------------------
(***************************************************************************)
(* Type invariant: and the items a checkout has left are items it was      *)
(* called with, none of them the one it is decrementing.                   *)
(***************************************************************************)
TypeOK ==
  /\ row \in [Articles -> Row \cup {NoArticle}]
  /\ born \subseteq Articles
  /\ order \in [Checkouts -> Basket \cup {NoOrder}]
  /\ pc \in [Checkouts -> {"idle", "items", "decrement"} \cup Returned]
  /\ want \in [Checkouts -> Baskets]
  /\ todo \in [Checkouts -> SUBSET Articles]
  /\ cur \in [Checkouts -> Articles]
  /\ \A c \in Checkouts :
       /\ todo[c] \subseteq Lines(want[c])
       /\ pc[c] = "decrement" => cur[c] \in Lines(want[c]) \ todo[c]

(***************************************************************************)
(* The rows a checkout has decremented cover its items until it ends, and  *)
(* no other checkout has decremented them: what it read in the condition   *)
(* of its UPDATE still holds at COMMIT.                                    *)
(***************************************************************************)
LocksProtect ==
  \A c \in Checkouts : \A a \in Locked(c) :
    /\ row[a] # NoArticle
    /\ row[a].quantity >= want[c][a]
    /\ \A d \in Checkouts \ {c} : a \notin Locked(d)

(***************************************************************************)
(* The committed stock is never negative.                                  *)
(***************************************************************************)
NoOversell == \A a \in Articles : row[a] # NoArticle => row[a].quantity >= 0

(***************************************************************************)
(* An order never lists an article that does not exist, committed or in a  *)
(* transaction that has inserted the item.                                 *)
(***************************************************************************)
ItemsRefer ==
  \A c \in Checkouts :
    /\ \A a \in KeyShare(c) : row[a] # NoArticle
    /\ order[c] # NoOrder => \A a \in Lines(order[c]) : row[a] # NoArticle

(***************************************************************************)
(* The answer of Create is right: success means the order is stored, a     *)
(* refusal that it is not.                                                 *)
(***************************************************************************)
AnswerIsRight ==
  \A c \in Checkouts :
    /\ pc[c] = "ok" => order[c] = want[c]
    /\ pc[c] \in {"items", "decrement", "refused"} => order[c] = NoOrder

(***************************************************************************)
(* Every call of Create returns, even when checkouts decrement the same    *)
(* articles in opposite orders.                                            *)
(***************************************************************************)
CreateReturns ==
  \A c \in Checkouts : pc[c] = "items" ~> pc[c] \in Returned

(***************************************************************************)
(* Whatever the edits and deletions, this backend is the ledger.           *)
(***************************************************************************)
Ledger == INSTANCE StockLedger WITH shelf <- row, known <- born, placed <- order

ImplementsLedger == Ledger!Spec
=============================================================================
