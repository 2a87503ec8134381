----------------------------- MODULE RedisStock -----------------------------
(***************************************************************************)
(* Stock on the Redis backend.  Checkouts (redisRepository.Create of       *)
(* package orders) and admin requests (redisRepository of package          *)
(* articles) share the article documents.  A checkout is an optimistic     *)
(* WATCH/MULTI transaction that is retried a bounded number of times; an   *)
(* admin update reads the document and writes it back with no WATCH.       *)
(*                                                                         *)
(* One action is one command, or one MULTI block, served by Redis.  The    *)
(* orders:index and orders:pending entries are written by the MULTI that   *)
(* writes the order document, so the order stands for the three.           *)
(***************************************************************************)
EXTENDS ShopData, FiniteSets

CONSTANTS
  Checkouts,         \* calls of orders.Repository.Create
  Editors,           \* admin request handlers, each serving one call at a time
  Baskets,           \* item lists of the checkouts
  Edits,             \* inputs of articles.Repository.Update
  NewRows,           \* inputs of articles.Repository.Create
  Practices,         \* ways the catalogue may be administered
  createMaxRetries,  \* attempts of a checkout
  NoOrder,           \* no document under an order's key
  Unread             \* an article document an attempt has not loaded

ASSUME RedisStockAssumption ==
  /\ Baskets \subseteq Basket
  /\ Edits \subseteq Edit
  /\ NewRows \subseteq Row
  /\ Practices \subseteq [edits : SUBSET Edits,
                           editable : SUBSET Articles,
                           removable : SUBSET Articles]
  /\ createMaxRetries \in Nat \ {0}
  /\ IsFiniteSet(Checkouts)
  /\ NoOrder \notin Basket
  /\ Unread \notin Row
  /\ Unread # NoArticle

VARIABLES
  \* Redis
  doc,       \* article:<id>
  index,     \* articles:index
  born,      \* the article identifiers generated so far (uuid.New)
  order,     \* the order document each checkout has written
  dirty,     \* the connection of a checkout watches a key that was written
  \* a checkout
  pc,        \* where it is, or the result it returned
  want,      \* its items
  copy,      \* the documents loaded by the current attempt
  attempt,   \* attempts that failed with TxFailedErr
  \* an admin request
  epc,       \* where it is
  target,    \* the article it is about
  draft,     \* the document it is going to save
  practice   \* what the admins do: the edits, the articles they are made to,
             \* the articles that are deleted

redis    == <<doc, index, born, order, dirty>>
checkout == <<pc, want, copy, attempt>>
editor   == <<epc, target, draft>>
vars     == <<redis, checkout, editor, practice>>

Returned == {"ok", "refused", "contended", "error"}

Nothing == [a \in Articles |-> Unread]

\* The connections that watch one of the keys in A see their EXEC fail.
Touched(A) ==
  [c \in Checkouts |->
     dirty[c] \/ (pc[c] = "watch" /\ Lines(want[c]) \cap A # {})]

Init ==
  /\ doc \in [Articles -> NewRows \cup {NoArticle}]
  /\ index = {a \in Articles : doc[a] # NoArticle}
  /\ born = index
  /\ order = [c \in Checkouts |-> NoOrder]
  /\ dirty = [c \in Checkouts |-> FALSE]
  /\ pc = [c \in Checkouts |-> "idle"]
  /\ want \in [Checkouts -> Baskets]
  /\ copy = [c \in Checkouts |-> Nothing]
  /\ attempt = [c \in Checkouts |-> 0]
  /\ epc = [e \in Editors |-> "idle"]
  /\ target \in [Editors -> Articles]
  /\ draft = [e \in Editors |-> NoArticle]
  /\ practice \in Practices

-----------------------------------------------------------------------------
(* Checkouts.                                                              *)

\* The handler resolved the items of the cart and calls Create.
Call(c) ==
  /\ pc[c] = "idle"
  /\ Lines(want[c]) \subseteq born
  /\ pc' = [pc EXCEPT ![c] = "call"]
  /\ UNCHANGED <<redis, want, copy, attempt, editor>>

\* Mutant: a retry does not start a new WATCH.
WatchOnce(c) ==
  /\ pc[c] = "call"
  /\ pc' = [pc EXCEPT ![c] = "watch"]
  /\ copy' = [copy EXCEPT ![c] = Nothing]
  /\ UNCHANGED <<redis, want, attempt, editor>>

\* rdb.Watch: WATCH of every article key, before the transaction function.
Watch(c) ==
  /\ pc[c] = "call"
  /\ pc' = [pc EXCEPT ![c] = "watch"]
  /\ dirty' = [dirty EXCEPT ![c] = FALSE]
  /\ copy' = [copy EXCEPT ![c] = Nothing]
  /\ UNCHANGED <<doc, index, born, order, want, attempt, editor>>

\* loadArticles reads the documents one by one, in map order.
Load(c, a) ==
  /\ pc[c] = "watch"
  /\ a \in Lines(want[c])
  /\ copy[c][a] = Unread
  /\ copy' = [copy EXCEPT ![c][a] = doc[a]]
  /\ UNCHANGED <<redis, pc, want, attempt, editor>>

Loaded(c) == pc[c] = "watch" /\ \A a \in Lines(want[c]) : copy[c][a] # Unread

\* An article is missing or short: Create returns without writing.
Insufficient(c) ==
  /\ Loaded(c)
  /\ ~ Stocked(copy[c], want[c])
  /\ pc' = [pc EXCEPT ![c] = "refused"]
  /\ copy' = [copy EXCEPT ![c] = Nothing]
  /\ UNCHANGED <<redis, want, attempt, editor>>

\* Mutants: the transaction does not depend on the watched keys, or a lost
\* reply is taken for a failed attempt.
ExecUnwatched(c) ==
  /\ Loaded(c)
  /\ Stocked(copy[c], want[c])
  /\ doc' = [a \in Articles |->
               IF a \in Lines(want[c]) THEN Taken(copy[c], want[c])[a]
                                       ELSE doc[a]]
  /\ order' = [order EXCEPT ![c] = want[c]]
  /\ dirty' = Touched(Lines(want[c]))
  /\ \E reply \in {"ok", "error"} : pc' = [pc EXCEPT ![c] = reply]
  /\ copy' = [copy EXCEPT ![c] = Nothing]
  /\ UNCHANGED <<index, born, want, attempt, editor>>

ExecRetried(c) ==
  /\ Loaded(c)
  /\ Stocked(copy[c], want[c])
  /\ ~ dirty[c]
  /\ doc' = [a \in Articles |->
               IF a \in Lines(want[c]) THEN Taken(copy[c], want[c])[a]
                                       ELSE doc[a]]
  /\ order' = [order EXCEPT ![c] = want[c]]
  /\ dirty' = Touched(Lines(want[c]))
  /\ \E reply \in {"ok", "call"} : pc' = [pc EXCEPT ![c] = reply]
  /\ copy' = [copy EXCEPT ![c] = Nothing]
  /\ UNCHANGED <<index, born, want, attempt, editor>>

\* EXEC succeeds: the loaded documents less the items, and the order, are
\* written together.  The reply may be lost, and Create then returns an error.
Exec(c) ==
  /\ Loaded(c)
  /\ Stocked(copy[c], want[c])
  /\ ~ dirty[c]
  /\ doc' = [a \in Articles |->
               IF a \in Lines(want[c]) THEN Taken(copy[c], want[c])[a]
                                       ELSE doc[a]]
  /\ order' = [order EXCEPT ![c] = want[c]]
  /\ dirty' = Touched(Lines(want[c]))
  /\ \E reply \in {"ok", "error"} : pc' = [pc EXCEPT ![c] = reply]
  /\ copy' = [copy EXCEPT ![c] = Nothing]
  /\ UNCHANGED <<index, born, want, attempt, editor>>

\* Mutant: one attempt too many.
TxFailedOnceMore(c) ==
  /\ Loaded(c)
  /\ Stocked(copy[c], want[c])
  /\ dirty[c]
  /\ attempt' = [attempt EXCEPT ![c] = @ + 1]
  /\ pc' = [pc EXCEPT ![c] =
              IF attempt[c] + 1 <= createMaxRetries THEN "call" ELSE "contended"]
  /\ UNCHANGED <<redis, want, copy, editor>>

\* EXEC answers nil (TxFailedErr): the whole checkout is retried, a bounded
\* number of times.
TxFailed(c) ==
  /\ Loaded(c)
  /\ Stocked(copy[c], want[c])
  /\ dirty[c]
  /\ attempt' = [attempt EXCEPT ![c] = @ + 1]
  /\ pc' = [pc EXCEPT ![c] =
              IF attempt[c] + 1 < createMaxRetries THEN "call" ELSE "contended"]
  /\ UNCHANGED <<redis, want, copy, editor>>

\* A command fails (connection, timeout, cancelled request) before EXEC.
Fail(c) ==
  /\ pc[c] \in {"call", "watch"}
  /\ pc' = [pc EXCEPT ![c] = "error"]
  /\ copy' = [copy EXCEPT ![c] = Nothing]
  /\ UNCHANGED <<redis, want, attempt, editor>>

-----------------------------------------------------------------------------
(* Admin requests.                                                         *)

\* Update: Get the document and merge the named fields into it.
UpdateGet(e, a, edit) ==
  /\ epc[e] = "idle"
  /\ doc[a] # NoArticle
  /\ epc' = [epc EXCEPT ![e] = "save"]
  /\ target' = [target EXCEPT ![e] = a]
  /\ draft' = [draft EXCEPT ![e] = Applied(edit, doc[a])]
  /\ UNCHANGED <<redis, checkout>>

\* Update: save the merged document, with no index entry.
UpdateSave(e) ==
  /\ epc[e] = "save"
  /\ doc' = [doc EXCEPT ![target[e]] = draft[e]]
  /\ dirty' = Touched({target[e]})
  /\ epc' = [epc EXCEPT ![e] = "idle"]
  /\ draft' = [draft EXCEPT ![e] = NoArticle]
  /\ UNCHANGED <<index, born, order, checkout, target>>

\* Delete: DEL of the document.
DeleteDoc(e, a) ==
  /\ epc[e] = "idle"
  /\ doc[a] # NoArticle
  /\ doc' = [doc EXCEPT ![a] = NoArticle]
  /\ dirty' = Touched({a})
  /\ epc' = [epc EXCEPT ![e] = "deindex"]
  /\ target' = [target EXCEPT ![e] = a]
  /\ UNCHANGED <<index, born, order, checkout, draft>>

\* Delete: ZREM from the index.
Deindex(e) ==
  /\ epc[e] = "deindex"
  /\ index' = index \ {target[e]}
  /\ epc' = [epc EXCEPT ![e] = "idle"]
  /\ UNCHANGED <<doc, born, order, dirty, checkout, target, draft>>

\* The second command of an Update or a Delete is never served.
EditorDrops(e) ==
  /\ epc[e] \in {"save", "deindex"}
  /\ epc' = [epc EXCEPT ![e] = "idle"]
  /\ draft' = [draft EXCEPT ![e] = NoArticle]
  /\ UNCHANGED <<redis, checkout, target>>

\* Mutant: save is called without the index entry.
CreateArticleUnlisted(a, row) ==
  /\ a \notin born
  /\ doc' = [doc EXCEPT ![a] = row]
  /\ born' = born \cup {a}
  /\ dirty' = Touched({a})
  /\ UNCHANGED <<index, order, checkout, editor>>

\* Mutant: every entry of the index is taken for an article.
ListingUnread == index

\* List: the entries of the index whose document MGET finds; the total and the
\* pages are cut from these.
Listing == {a \in index : doc[a] # NoArticle}

\* Create: document and index entry in one MULTI, under a fresh identifier.
CreateArticle(a, row) ==
  /\ a \notin born
  /\ doc' = [doc EXCEPT ![a] = row]
  /\ index' = index \cup {a}
  /\ born' = born \cup {a}
  /\ dirty' = Touched({a})
  /\ UNCHANGED <<order, checkout, editor>>

-----------------------------------------------------------------------------
\* The steps Create takes by itself.
CheckoutStep(c) ==
  \/ Watch(c)
  \/ \E a \in Articles : Load(c, a)
  \/ Insufficient(c)
  \/ Exec(c)
  \/ TxFailed(c)

EditorStep(e) ==
  \/ \E a \in practice.editable, edit \in practice.edits : UpdateGet(e, a, edit)
  \/ UpdateSave(e)
  \/ \E a \in practice.removable : DeleteDoc(e, a)
  \/ Deindex(e)
  \/ EditorDrops(e)

Next ==
  /\ \/ \E c \in Checkouts : Call(c) \/ CheckoutStep(c) \/ Fail(c)
     \/ \E e \in Editors : EditorStep(e)
     \/ \E a \in Articles, row \in NewRows : CreateArticle(a, row)
  /\ UNCHANGED practice

Spec == Init /\ [][Next]_vars

-----------------------------------------------------------------------------
(***************************************************************************)
(* Type invariant.                                                         *)
(***************************************************************************)
TypeOK ==
  /\ doc \in [Articles -> Row \cup {NoArticle}]
  /\ index \subseteq Articles
  /\ born \subseteq Articles
  /\ order \in [Checkouts -> Basket \cup {NoOrder}]
  /\ dirty \in [Checkouts -> BOOLEAN]
  /\ pc \in [Checkouts -> {"idle", "call", "watch"} \cup Returned]
  /\ want \in [Checkouts -> Baskets]
  /\ copy \in [Checkouts -> [Articles -> Row \cup {NoArticle, Unread}]]
  /\ attempt \in [Checkouts -> 0 .. createMaxRetries]
  /\ epc \in [Editors -> {"idle", "save", "deindex"}]
  /\ target \in [Editors -> Articles]
  /\ draft \in [Editors -> Row \cup {NoArticle}]
  /\ practice \in Practices

(***************************************************************************)
(* What a checkout has loaded is what Redis holds until some watched key   *)
(* is written: an EXEC that is not refused works on the current documents. *)
(***************************************************************************)
Coherent ==
  \A c \in Checkouts :
    (pc[c] = "watch" /\ ~ dirty[c]) =>
      \A a \in Lines(want[c]) : copy[c][a] \in {Unread, doc[a]}

(***************************************************************************)
(* An order appears together with the exact decrement of every article it  *)
(* lists, none of which is oversold, and with no other change: the         *)
(* documents are round-tripped, no field is lost (the comments at          *)
(* repository_redis.go:22 and :49).                                        *)
(***************************************************************************)
PlacedAtomically ==
  [][\A c \in Checkouts :
       order'[c] # order[c] =>
         /\ order[c] = NoOrder
         /\ Stocked(doc, order'[c])
         /\ doc' = Taken(doc, order'[c])
         /\ \A a \in Lines(order'[c]) : doc'[a].quantity >= 0]_vars

(***************************************************************************)
(* The answer of Create is right: success means the order is stored, a     *)
(* refusal or a give-up after the retries means that nothing was.          *)
(***************************************************************************)
AnswerIsRight ==
  \A c \in Checkouts :
    /\ pc[c] = "ok" => order[c] = want[c]
    /\ pc[c] \in {"call", "watch", "refused", "contended"} => order[c] = NoOrder

(***************************************************************************)
(* An attempt is lost only to another checkout that did place its order,   *)
(* when no article is edited: contention never starves everyone.           *)
(***************************************************************************)
LostToRivals ==
  practice.editable \cup practice.removable = {} =>
    \A c \in Checkouts :
      attempt[c] <= Cardinality({d \in Checkouts \ {c} : order[d] # NoOrder})

(***************************************************************************)
(* Edits and deletions keep apart, and an edit names every field, as those *)
(* of the admin pages do.                                                  *)
(***************************************************************************)
Disciplined ==
  /\ \A edit \in practice.edits : Full(edit)
  /\ practice.editable \cap practice.removable = {}

(***************************************************************************)
(* The list has exactly the stored articles, as long as no article is both *)
(* edited and deleted: none is missing, and the entries that deletions     *)
(* leave in the index when they stop half-way are not counted.             *)
(***************************************************************************)
Listed == Disciplined => Listing = {a \in Articles : doc[a] # NoArticle}

(***************************************************************************)
(* A save amounts to merging an edit into the document as it is when the   *)
(* save happens: the fields the edit does not name keep their value        *)
(* (comment at articles/repository_redis.go:138).                          *)
(***************************************************************************)
UpdateMergesFields ==
  [][\A e \in Editors :
       (epc[e] = "save" /\ epc'[e] = "idle" /\ doc' # doc) =>
         \E edit \in practice.edits :
           doc'[target[e]] = Applied(edit, doc[target[e]])]_vars

(***************************************************************************)
(* Under that discipline this backend implements the ledger: no decrement  *)
(* is lost to an edit, and a deleted article does not come back.           *)
(***************************************************************************)
Ledger == INSTANCE StockLedger WITH shelf <- doc, known <- born, placed <- order

ImplementsLedger ==
  /\ Disciplined => Ledger!Init
  /\ [][Disciplined => [Ledger!Next]_(Ledger!vars)]_vars
=============================================================================
