----------------------------- MODULE Storefront -----------------------------
(***************************************************************************)
(* From carts to orders: the checkout of the pages (ui.checkoutCreate) and *)
(* of the API (orders.Handler.create), payment and cancellation, over the  *)
(* carts and the orders they share.  A handler calls the cart store and    *)
(* the repositories one after the other, and anything may happen between.  *)
(*                                                                         *)
(* The repositories are the atomic ones of StockLedger and OrderBook: a    *)
(* Create stores its order or fails, for lack of stock or otherwise.  A    *)
(* Get of an article answers, or fails for whatever reason.                *)
(***************************************************************************)
EXTENDS CartContents, Sequences, FiniteSets

CONSTANTS
  Requests,    \* handler goroutines, each serving one request at a time
  Clienteles,  \* ways clients may be spread over them
  MaxOrders,   \* bound: orders created
  MaxAdded,    \* bound: units of an article a wallet adds
  MaxLost      \* bound: replies of the repositories that are lost

ASSUME StorefrontAssumption ==
  /\ IsFiniteSet(Requests)
  /\ Clienteles \subseteq [Requests -> [wallets : SUBSET Wallets, api : BOOLEAN]]
  /\ MaxOrders \in Nat /\ MaxAdded \in Nat /\ MaxLost \in Nat

VARIABLES
  orders,      \* the orders created: wallet, lines, status
  pc,          \* where a request is
  wallet,      \* its wallet
  cartData,    \* the cart it read
  input,       \* the lines of the order it creates
  clients,     \* the wallets a goroutine serves, and whether by the API
  \* history
  added,       \* the units of each article a wallet has added
  touched,     \* the lines added to since a request read the cart
  lost         \* replies that were lost

request == <<pc, wallet, cartData, input>>
history == <<added, touched, lost>>
vars    == <<cart, orders, request, clients, history>>

LinesOf(c) == {a \in Articles : c[a] # NoLine}

Only(c, S) == [a \in Articles |-> IF a \in S THEN c[a] ELSE NoLine]

Pending(w) ==
  {o \in DOMAIN orders : orders[o].wallet = w /\ orders[o].status = "pending"}

Init ==
  /\ CartInit
  /\ orders = <<>>
  /\ pc = [r \in Requests |-> "idle"]
  /\ wallet \in [Requests -> Wallets]
  /\ cartData = [r \in Requests |-> Empty]
  /\ input = [r \in Requests |-> Empty]
  /\ clients \in Clienteles
  /\ added = [w \in Wallets |-> [a \in Articles |-> 0]]
  /\ touched = [r \in Requests |-> {}]
  /\ lost = 0

\* The request is answered, and what it read goes.
Answered(r) ==
  /\ pc' = [pc EXCEPT ![r] = "idle"]
  /\ cartData' = [cartData EXCEPT ![r] = Empty]
  /\ input' = [input EXCEPT ![r] = Empty]
  /\ touched' = [touched EXCEPT ![r] = {}]
  /\ UNCHANGED wallet

-----------------------------------------------------------------------------
(* The cart.                                                               *)

\* cart.Handler.add, ui.cartAdd.
AddToCart(w, a, n) ==
  /\ added[w][a] + n <= MaxAdded
  /\ AddLine(w, a, n)
  /\ added' = [added EXCEPT ![w][a] = @ + n]
  /\ touched' = [r \in Requests |->
                   IF wallet[r] = w /\ cartData[r] # Empty THEN touched[r] \cup {a}
                                                           ELSE touched[r]]
  /\ UNCHANGED <<orders, request, clients, lost>>

\* cart.Handler.remove, ui.cartRemove.
RemoveFromCart(w, a) ==
  /\ RemoveLine(w, a)
  /\ UNCHANGED <<orders, request, clients, history>>

\* The janitor evicts the cart.
Expire(w) ==
  /\ cart[w] # Empty
  /\ Vanish({w})
  /\ UNCHANGED <<orders, request, clients, history>>

-----------------------------------------------------------------------------
(* Checkout.                                                               *)

\* Mutant: no look for a pending order.
FindPendingSkipped(r, w) ==
  /\ pc[r] = "idle"
  /\ pc' = [pc EXCEPT ![r] = "page"]
  /\ wallet' = [wallet EXCEPT ![r] = w]
  /\ UNCHANGED <<cart, orders, cartData, input, clients, history>>

\* checkoutCreate: FindPendingByWallet finds none.
FindPending(r, w) ==
  /\ pc[r] = "idle"
  /\ Pending(w) = {}
  /\ pc' = [pc EXCEPT ![r] = "page"]
  /\ wallet' = [wallet EXCEPT ![r] = w]
  /\ UNCHANGED <<cart, orders, cartData, input, clients, history>>

\* checkoutCreate: the cart, which must not be empty.
GetCart(r) ==
  /\ pc[r] = "page"
  /\ cart[wallet[r]] # Empty
  /\ cartData' = [cartData EXCEPT ![r] = cart[wallet[r]]]
  /\ pc' = [pc EXCEPT ![r] = "prices"]
  /\ UNCHANGED <<cart, orders, wallet, input, clients, history>>

\* Mutant: the order is created even if no article could be read.
GetArticlesNone(r) ==
  /\ pc[r] = "prices"
  /\ \E found \in SUBSET LinesOf(cartData[r]) :
       input' = [input EXCEPT ![r] = Only(cartData[r], found)]
  /\ pc' = [pc EXCEPT ![r] = "create"]
  /\ UNCHANGED <<cart, orders, wallet, cartData, clients, history>>

\* checkoutCreate: the articles; one that cannot be read is left out.
GetArticles(r) ==
  /\ pc[r] = "prices"
  /\ \E found \in (SUBSET LinesOf(cartData[r])) \ {{}} :
       input' = [input EXCEPT ![r] = Only(cartData[r], found)]
  /\ pc' = [pc EXCEPT ![r] = "create"]
  /\ UNCHANGED <<cart, orders, wallet, cartData, clients, history>>

\* The API's create: the cart, which must not be empty.
ApiGetCart(r, w) ==
  /\ pc[r] = "idle"
  /\ cart[w] # Empty
  /\ cartData' = [cartData EXCEPT ![r] = cart[w]]
  /\ wallet' = [wallet EXCEPT ![r] = w]
  /\ pc' = [pc EXCEPT ![r] = "api"]
  /\ UNCHANGED <<cart, orders, input, clients, history>>

\* The API's create: every article must be read.
ApiGetArticles(r) ==
  /\ pc[r] = "api"
  /\ input' = [input EXCEPT ![r] = cartData[r]]
  /\ pc' = [pc EXCEPT ![r] = "create"]
  /\ UNCHANGED <<cart, orders, wallet, cartData, clients, history>>

\* Create stores the order, and its reply comes or is lost.
CreateOrder(r) ==
  /\ pc[r] = "create"
  /\ Len(orders) < MaxOrders
  /\ orders' = Append(orders, [wallet |-> wallet[r], lines |-> input[r],
                               status |-> "pending"])
  /\ \/ pc' = [pc EXCEPT ![r] = "clear"]
        /\ UNCHANGED <<wallet, cartData, input, history>>
     \/ /\ lost < MaxLost
        /\ lost' = lost + 1
        /\ Answered(r)
        /\ UNCHANGED added
  /\ UNCHANGED <<cart, clients>>

\* checkoutCreate and create: the cart is cleared.
ClearOrdered(r) ==
  /\ pc[r] = "clear"
  /\ Vanish({wallet[r]})
  /\ Answered(r)
  /\ UNCHANGED <<orders, clients, added, lost>>

\* Mutant: a failed Create goes on to Clear.
FailGoesOn(r) ==
  /\ pc[r] \in {"page", "prices", "api", "create"}
  /\ IF pc[r] = "create"
       THEN pc' = [pc EXCEPT ![r] = "clear"]
            /\ UNCHANGED <<wallet, cartData, input, touched>>
       ELSE Answered(r)
  /\ UNCHANGED <<cart, orders, clients, added, lost>>

\* The cart is empty, or a repository fails, before the order is created.
Fail(r) ==
  /\ pc[r] \in {"page", "prices", "api", "create"}
  /\ Answered(r)
  /\ UNCHANGED <<cart, orders, clients, added, lost>>

-----------------------------------------------------------------------------
(* Payment and cancellation.                                               *)

SetStatus(o, status) == orders' = [orders EXCEPT ![o].status = status]

\* verify: UpdateStatus(paid), whose reply comes or is lost.
Pay(r, o) ==
  /\ pc[r] = "idle"
  /\ orders[o].status = "pending"
  /\ SetStatus(o, "paid")
  /\ \/ /\ pc' = [pc EXCEPT ![r] = "paid"]
        /\ wallet' = [wallet EXCEPT ![r] = orders[o].wallet]
        /\ UNCHANGED lost
     \/ /\ lost < MaxLost
        /\ lost' = lost + 1
        /\ UNCHANGED <<pc, wallet>>
  /\ UNCHANGED <<cart, cartData, input, clients, added, touched>>

\* Mutant: verify leaves the cart as it is.
PaidKeepsCart(r) ==
  /\ pc[r] = "paid"
  /\ Answered(r)
  /\ UNCHANGED <<cart, orders, clients, added, lost>>

\* verify: the cart of the order's wallet is cleared.
ClearPaid(r) ==
  /\ pc[r] = "paid"
  /\ Vanish({wallet[r]})
  /\ Answered(r)
  /\ UNCHANGED <<orders, clients, added, lost>>

\* checkoutCancel.
Cancel(r, o) ==
  /\ pc[r] = "idle"
  /\ orders[o].status = "pending"
  /\ SetStatus(o, "failed")
  /\ UNCHANGED <<cart, request, clients, history>>

-----------------------------------------------------------------------------
\* The process restarts: carts and requests are gone, orders are stored.
Restart ==
  /\ Vanish(Wallets)
  /\ pc' = [r \in Requests |-> "idle"]
  /\ cartData' = [r \in Requests |-> Empty]
  /\ input' = [r \in Requests |-> Empty]
  /\ touched' = [r \in Requests |-> {}]
  /\ UNCHANGED <<orders, wallet, clients, added, lost>>

RequestStep(r) ==
  \/ \E w \in clients[r].wallets : FindPending(r, w)
  \/ GetCart(r)
  \/ GetArticles(r)
  \/ \E w \in clients[r].wallets : clients[r].api /\ ApiGetCart(r, w)
  \/ ApiGetArticles(r)
  \/ CreateOrder(r)
  \/ ClearOrdered(r)
  \/ Fail(r)
  \/ \E o \in DOMAIN orders :
       orders[o].wallet \in clients[r].wallets /\ (Pay(r, o) \/ Cancel(r, o))
  \/ ClearPaid(r)

Next ==
  \/ \E w \in Wallets, a \in Articles :
       (\E n \in Quantities : AddToCart(w, a, n)) \/ RemoveFromCart(w, a)
  \/ \E w \in Wallets : Expire(w)
  \/ \E r \in Requests : RequestStep(r)
  \/ Restart

Spec == Init /\ [][Next]_vars

-----------------------------------------------------------------------------
(***************************************************************************)
(* Type invariant: a checkout that has read the cart has lines to order,   *)
(* and no order is empty, even if the articles of the cart are gone by the *)
(* time they are looked up.                                                *)
(***************************************************************************)
Lines == [Articles -> Line \cup {NoLine}]

TypeOK ==
  /\ cart \in [Wallets -> Lines]
  /\ orders \in Seq([wallet : Wallets, lines : Lines,
                     status : {"pending", "paid", "failed"}])
  /\ pc \in [Requests -> {"idle", "page", "prices", "api", "create", "clear", "paid"}]
  /\ wallet \in [Requests -> Wallets]
  /\ cartData \in [Requests -> Lines]
  /\ input \in [Requests -> Lines]
  /\ clients \in Clienteles
  /\ added \in [Wallets -> [Articles -> 0 .. MaxAdded]]
  /\ touched \in [Requests -> SUBSET Articles]
  /\ lost \in 0 .. MaxLost
  /\ \A r \in Requests :
       pc[r] \in {"prices", "api", "create", "clear"} => cartData[r] # Empty
  /\ \A o \in DOMAIN orders : orders[o].lines # Empty

(***************************************************************************)
(* What a checkout clears from the cart has been ordered as it is, except  *)
(* lines added to since the cart was read and lines of articles that could *)
(* not be read.                                                            *)
(***************************************************************************)
ClearedIsOrdered ==
  [][\A r \in Requests :
       (pc[r] = "clear" /\ pc'[r] = "idle" /\ cart' # cart) =>
         \A a \in LinesOf(cart[wallet[r]]) \ touched[r] :
           /\ cart[wallet[r]][a] = cartData[r][a]
           /\ a \in LinesOf(input[r]) =>
                \E o \in DOMAIN orders :
                  /\ orders[o].wallet = wallet[r]
                  /\ orders[o].lines[a] = cart[wallet[r]][a]]_vars

\* The pages are used, and a wallet sends a request when the last one has
\* been answered.
OneByOne ==
  /\ \A r \in Requests : ~ clients[r].api
  /\ \A r, s \in Requests : r # s => clients[r].wallets \cap clients[s].wallets = {}

(***************************************************************************)
(* The check before the creation of an order keeps a wallet at one pending *)
(* order, when its requests come one after the other, the reply of Create  *)
(* lost or not.                                                            *)
(***************************************************************************)
OnePendingOneByOne ==
  OneByOne => \A w \in Wallets : \A o, p \in Pending(w) : o = p

\* The goroutines that serve a wallet.
Servers(w) == {r \in Requests : w \in clients[r].wallets}

(***************************************************************************)
(* The pages leave a wallet with no more pending orders than it has        *)
(* requests at a time: those that submit at once may each create an order, *)
(* for the check and the creation are apart, but none does so again while  *)
(* one of the orders is pending.                                           *)
(***************************************************************************)
PendingPerRequest ==
  (\A r \in Requests : ~ clients[r].api) =>
    \A w \in Wallets : Cardinality(Pending(w)) <= Cardinality(Servers(w))

\* The units of an article in the orders of a wallet that have such a status.
Units(w, a, statuses) ==
  {u \in (DOMAIN orders) \X (1 .. Half - 1) :
     /\ orders[u[1]].wallet = w
     /\ orders[u[1]].status \in statuses
     /\ orders[u[1]].lines[a] # NoLine
     /\ u[2] <= orders[u[1]].lines[a]}

\* How many a wallet has ordered and not cancelled.
Ordered(w, a) == Cardinality(Units(w, a, {"pending", "paid"}))

(***************************************************************************)
(* No unit a customer added is ordered twice, when the wallet's requests   *)
(* come one after the other and no more than one reply of a repository is  *)
(* lost: an order whose reply was lost is found again, and its payment     *)
(* clears the cart it was made from.                                       *)
(***************************************************************************)
NoUnitTwice ==
  (OneByOne /\ lost <= 1) =>
    \A w \in Wallets, a \in Articles : Ordered(w, a) <= added[w][a]
=============================================================================
