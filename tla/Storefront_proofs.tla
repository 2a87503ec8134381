------------------------- MODULE Storefront_proofs -------------------------
(***************************************************************************)
(* What checkouts promise for all wallets, articles and requests, however  *)
(* clients are spread over the goroutines.                                 *)
(***************************************************************************)
EXTENDS Storefront, FiniteSetTheorems, TLAPS

Order == [wallet : Wallets, lines : Lines, status : {"pending", "paid", "failed"}]

\* An order is made of lines of the cart that was read.
Chosen(r) ==
  /\ pc[r] = "create" => input[r] # Empty
  /\ pc[r] \in {"create", "clear"} =>
       \A a \in Articles : input[r][a] # NoLine => input[r][a] = cartData[r][a]

\* A line of the cart that was read is still as it was, or is gone, or was
\* added to.
Since(r) ==
  pc[r] \in {"prices", "api", "create", "clear"} =>
    \A a \in Articles \ touched[r] :
      cart[wallet[r]][a] \in {NoLine, cartData[r][a]}

\* Before the cart is cleared the order is there.
Made(r) ==
  pc[r] = "clear" =>
    \E o \in DOMAIN orders : orders[o].wallet = wallet[r] /\ orders[o].lines = input[r]

\* The wallet of a checkout still has no pending order.
Alone(r) ==
  OneByOne =>
    /\ pc[r] # "api"
    /\ pc[r] \in {"page", "prices", "create"} =>
         wallet[r] \in clients[r].wallets /\ Pending(wallet[r]) = {}

IInv ==
  /\ TypeOK
  /\ \A r \in Requests : Chosen(r) /\ Since(r) /\ Made(r) /\ Alone(r)
  /\ OnePendingOneByOne

\* A step of a request.
Pays(r)    == \E o \in DOMAIN orders : orders[o].wallet \in clients[r].wallets /\ Pay(r, o)
Cancels(r) == \E o \in DOMAIN orders : orders[o].wallet \in clients[r].wallets /\ Cancel(r, o)
Finds(r)   == \E w \in clients[r].wallets : FindPending(r, w)
ApiGets(r) == \E w \in clients[r].wallets : clients[r].api /\ ApiGetCart(r, w)

\* Lines vanish, and nothing is added.
Shrinks ==
  /\ cart' \in [Wallets -> Lines]
  /\ \A w \in Wallets, a \in Articles : cart'[w][a] \in {NoLine, cart[w][a]}

\* Orders stay as they are but for their status, which is never pending again.
Kept ==
  /\ orders' \in Seq(Order)
  /\ \A o \in DOMAIN orders' : orders'[o].lines # Empty
  /\ \A o \in DOMAIN orders :
       /\ o \in DOMAIN orders'
       /\ orders'[o].wallet = orders[o].wallet
       /\ orders'[o].lines = orders[o].lines
       /\ orders'[o].status = "pending" => orders[o].status = "pending"

\* A step of r leaves the other requests alone.
Apart(r) ==
  /\ \A q \in Requests \ {r} :
       /\ pc'[q] = pc[q] /\ wallet'[q] = wallet[q] /\ cartData'[q] = cartData[q]
       /\ input'[q] = input[q] /\ touched'[q] = touched[q]
  /\ UNCHANGED clients

-----------------------------------------------------------------------------
LEMMA EmptyType == Empty \in Lines
BY DEF Empty, Lines

LEMMA MoreType ==
  ASSUME NEW line \in Line \cup {NoLine}, NEW n \in Quantities
  PROVE  More(line, n) \in Line
<1> USE CartContentsAssumption
<1>1. CASE line = NoLine
  BY <1>1 DEF More, Line
<1>2. CASE line # NoLine
  <2>1. line \in Int /\ n \in Int
    BY <1>2 DEF Line
  <2>2. (line + n + Half) % (2 * Half) \in 0 .. 2 * Half - 1
    BY <2>1
  <2> QED  BY <1>2, <2>1, <2>2 DEF More, Plus, Line
<1> QED  BY <1>1, <1>2

LEMMA OnlyType ==
  ASSUME NEW c \in Lines, NEW S \in SUBSET LinesOf(c)
  PROVE  /\ Only(c, S) \in Lines
         /\ \A a \in Articles : Only(c, S)[a] \in {NoLine, c[a]}
         /\ S # {} => Only(c, S) # Empty
<1>1. Only(c, S) \in Lines /\ \A a \in Articles : Only(c, S)[a] \in {NoLine, c[a]}
  BY DEF Only, Lines, LinesOf
<1>2. ASSUME NEW a \in S PROVE Only(c, S) # Empty
  <2>1. Only(c, S)[a] # NoLine /\ Empty[a] = NoLine
    BY DEF Only, Empty, LinesOf
  <2> QED  BY <2>1
<1> QED  BY <1>1, <1>2

(***************************************************************************)
(* Carts that vanish, and a line that is removed.                          *)
(***************************************************************************)
LEMMA VanishShrinks ==
  ASSUME TypeOK, NEW ws \in SUBSET Wallets, Vanish(ws)
  PROVE  Shrinks
BY EmptyType DEF TypeOK, Vanish, Shrinks, Lines, Empty

LEMMA RemoveShrinks ==
  ASSUME TypeOK, NEW w \in Wallets, NEW a \in Articles, RemoveLine(w, a)
  PROVE  Shrinks
BY DEF TypeOK, RemoveLine, Shrinks, Lines

LEMMA SameShrinks ==
  ASSUME TypeOK, UNCHANGED cart
  PROVE  Shrinks
BY DEF TypeOK, Shrinks

LEMMA StatusKept ==
  ASSUME TypeOK, NEW o \in DOMAIN orders, NEW s \in {"paid", "failed"}, SetStatus(o, s)
  PROVE  /\ Kept
         /\ DOMAIN orders' = DOMAIN orders
<1>0. orders \in Seq(Order)
  BY DEF TypeOK, Order
<1>1. orders \in Seq(Order) /\ orders[o] \in Order
  BY <1>0
<1>2. [orders[o] EXCEPT !.status = s] \in Order
  BY <1>1 DEF Order
<1>3. orders' = [orders EXCEPT ![o] = [orders[o] EXCEPT !.status = s]]
  BY DEF SetStatus
<1>4. orders' \in Seq(Order) /\ DOMAIN orders' = DOMAIN orders
  BY <1>1, <1>2, <1>3
<1>5. /\ orders'[o].wallet = orders[o].wallet
      /\ orders'[o].lines = orders[o].lines
      /\ orders'[o].status # "pending"
  BY <1>1, <1>3 DEF Order
<1>6. \A p \in DOMAIN orders \ {o} : orders'[p] = orders[p]
  BY <1>3
<1> QED  BY <1>4, <1>5, <1>6 DEF Kept, TypeOK

LEMMA AppendKept ==
  ASSUME TypeOK, NEW order \in Order, order.lines # Empty, orders' = Append(orders, order)
  PROVE  /\ Kept
         /\ Len(orders) \in Nat
         /\ DOMAIN orders' = DOMAIN orders \cup {Len(orders) + 1}
         /\ orders'[Len(orders) + 1] = order
<1>1. orders \in Seq(Order)
  BY DEF TypeOK, Order
<1>2. /\ orders' \in Seq(Order)
      /\ Len(orders) \in Nat
      /\ DOMAIN orders = 1 .. Len(orders)
      /\ DOMAIN orders' = 1 .. Len(orders) + 1
      /\ orders'[Len(orders) + 1] = order
      /\ \A o \in DOMAIN orders : orders'[o] = orders[o]
  BY <1>1
<1>3. DOMAIN orders' = DOMAIN orders \cup {Len(orders) + 1}
  BY <1>2
<1> QED  BY <1>2, <1>3 DEF Kept, TypeOK

LEMMA SameKept ==
  ASSUME TypeOK, UNCHANGED orders
  PROVE  Kept
BY DEF TypeOK, Kept, Order

(***************************************************************************)
(* Pending orders do not appear but by creation.                           *)
(***************************************************************************)
LEMMA PendingShrinks ==
  ASSUME Kept, DOMAIN orders' = DOMAIN orders, NEW w
  PROVE  Pending(w)' \subseteq Pending(w)
BY DEF Kept, Pending

LEMMA InitInv == Init => IInv
<1> SUFFICES ASSUME Init PROVE IInv
  OBVIOUS
<1>1. cart \in [Wallets -> Lines] /\ cartData \in [Requests -> Lines] /\ input \in [Requests -> Lines]
  BY EmptyType DEF Init, CartInit
<1>2. 0 \in 0 .. MaxAdded /\ 0 \in 0 .. MaxLost
  BY StorefrontAssumption
<1>3. TypeOK
  BY <1>1, <1>2 DEF Init, TypeOK
<1>4. \A r \in Requests : Chosen(r) /\ Since(r) /\ Made(r) /\ Alone(r)
  BY DEF Init, Chosen, Since, Made, Alone
<1>5. OnePendingOneByOne
  BY DEF Init, OnePendingOneByOne, Pending
<1> QED  BY <1>3, <1>4, <1>5 DEF IInv

-----------------------------------------------------------------------------
(***************************************************************************)
(* Steps of the carts.                                                     *)
(***************************************************************************)
LEMMA AddStep ==
  ASSUME IInv, NEW w \in Wallets, NEW a \in Articles, NEW n \in Quantities,
         AddToCart(w, a, n)
  PROVE  IInv'
<1> USE DEF IInv
<1>1. /\ cart' = [cart EXCEPT ![w][a] = More(@, n)]
      /\ UNCHANGED <<orders, pc, wallet, cartData, input, clients, lost>>
  BY DEF AddToCart, AddLine, request
<1>2. cart' \in [Wallets -> Lines]
  BY <1>1, MoreType DEF TypeOK, Lines
<1>3. added' \in [Wallets -> [Articles -> 0 .. MaxAdded]]
  <2>1. added[w][a] + n \in 0 .. MaxAdded
    BY StorefrontAssumption, CartContentsAssumption DEF AddToCart, TypeOK
  <2> QED  BY <2>1 DEF AddToCart, TypeOK
<1>4. touched' \in [Requests -> SUBSET Articles]
  BY DEF AddToCart, TypeOK
<1>5. TypeOK'
  BY <1>1, <1>2, <1>3, <1>4 DEF TypeOK
<1>6. ASSUME NEW r \in Requests PROVE Since(r)'
  <2>1. CASE pc[r] \in {"prices", "api", "create", "clear"}
    <3>1. cartData[r] # Empty
      BY <2>1 DEF TypeOK
    <3>2. touched'[r] = IF wallet[r] = w THEN touched[r] \cup {a} ELSE touched[r]
      BY <3>1 DEF AddToCart
    <3>3. \A b \in Articles \ touched'[r] : cart'[wallet[r]][b] = cart[wallet[r]][b]
      BY <1>1, <3>2 DEF TypeOK, Lines
    <3> QED  BY <1>1, <2>1, <3>2, <3>3 DEF Since
  <2>2. CASE pc[r] \notin {"prices", "api", "create", "clear"}
    BY <1>1, <2>2 DEF Since
  <2> QED  BY <2>1, <2>2
<1>7. \A r \in Requests : Chosen(r)' /\ Made(r)' /\ Alone(r)'
  BY <1>1 DEF Chosen, Made, Alone, OneByOne, Pending
<1>8. OnePendingOneByOne'
  BY <1>1 DEF OnePendingOneByOne, OneByOne, Pending
<1> QED  BY <1>5, <1>6, <1>7, <1>8

LEMMA LoseStep ==
  ASSUME IInv, Shrinks, UNCHANGED <<orders, request, clients, history>>
  PROVE  IInv'
<1> USE DEF IInv, request, history
<1>1. TypeOK'
  BY DEF TypeOK, Shrinks
<1>2. \A r \in Requests : Since(r)'
  BY DEF Since, Shrinks, TypeOK
<1>3. \A r \in Requests : Chosen(r)' /\ Made(r)' /\ Alone(r)'
  BY DEF Chosen, Made, Alone, OneByOne, Pending
<1>4. OnePendingOneByOne'
  BY DEF OnePendingOneByOne, OneByOne, Pending
<1> QED  BY <1>1, <1>2, <1>3, <1>4

LEMMA RestartStep ==
  ASSUME IInv, Restart
  PROVE  IInv'
<1> USE DEF IInv
<1>1. Shrinks
  BY VanishShrinks DEF Restart
<1>2. TypeOK'
  BY <1>1, EmptyType DEF Restart, TypeOK, Shrinks
<1>3. \A r \in Requests : Chosen(r)' /\ Since(r)' /\ Made(r)' /\ Alone(r)'
  BY DEF Restart, Chosen, Since, Made, Alone
<1>4. OnePendingOneByOne'
  BY DEF Restart, OnePendingOneByOne, OneByOne, Pending
<1> QED  BY <1>2, <1>3, <1>4

-----------------------------------------------------------------------------
(***************************************************************************)
(* Steps of a request that leave the orders as they are, but for a status: *)
(* what there is to show of the request itself.                            *)
(***************************************************************************)
LEMMA QuietStep ==
  ASSUME IInv, NEW r \in Requests, Apart(r), TypeOK', Shrinks, Kept,
         DOMAIN orders' = DOMAIN orders,
         Chosen(r)', Since(r)', Made(r)', Alone(r)'
  PROVE  IInv'
<1> USE DEF IInv
<1>1. ASSUME NEW q \in Requests \ {r} PROVE Chosen(q)' /\ Since(q)' /\ Made(q)' /\ Alone(q)'
  <2>1. Chosen(q)'
    BY DEF Chosen, Apart
  <2>2. Since(q)'
    <3>1. /\ UNCHANGED pc[q] /\ UNCHANGED wallet[q] /\ UNCHANGED cartData[q]
          /\ UNCHANGED touched[q] /\ wallet[q] \in Wallets
      BY DEF Apart, TypeOK
    <3>2. \A a \in Articles : cart'[wallet[q]][a] \in {NoLine, cart[wallet[q]][a]}
      BY <3>1 DEF Shrinks
    <3> QED  BY <3>1, <3>2 DEF Since
  <2>3. Made(q)'
    BY DEF Made, Apart, Kept
  <2>4. Alone(q)'
    <3>1. UNCHANGED pc[q] /\ UNCHANGED wallet[q] /\ UNCHANGED clients
      BY DEF Apart
    <3>2. Pending(wallet[q])' \subseteq Pending(wallet[q])
      BY <3>1, PendingShrinks DEF Pending
    <3>3. UNCHANGED OneByOne
      BY <3>1 DEF OneByOne
    <3> QED  BY <3>1, <3>2, <3>3 DEF Alone
  <2> QED  BY <2>1, <2>2, <2>3, <2>4
<1>2. OnePendingOneByOne'
  BY PendingShrinks DEF OnePendingOneByOne, OneByOne, Apart
<1> QED  BY <1>1, <1>2

(***************************************************************************)
(* A request that has been answered has nothing left to keep.              *)
(***************************************************************************)
LEMMA AnsweredRequest ==
  ASSUME TypeOK, NEW r \in Requests, Answered(r)
  PROVE  /\ Chosen(r)' /\ Since(r)' /\ Made(r)' /\ Alone(r)'
         /\ pc' \in [Requests -> {"idle", "page", "prices", "api", "create", "clear", "paid"}]
         /\ wallet' \in [Requests -> Wallets]
         /\ cartData' \in [Requests -> Lines]
         /\ input' \in [Requests -> Lines]
         /\ touched' \in [Requests -> SUBSET Articles]
         /\ \A q \in Requests :
              pc'[q] \in {"prices", "api", "create", "clear"} => cartData'[q] # Empty
         /\ UNCHANGED clients => Apart(r)
<1>1. pc'[r] = "idle"
  BY DEF Answered, TypeOK
<1>2. Chosen(r)' /\ Since(r)' /\ Made(r)' /\ Alone(r)'
  BY <1>1 DEF Chosen, Since, Made, Alone
<1> QED  BY <1>1, <1>2, EmptyType DEF Answered, TypeOK, Apart

-----------------------------------------------------------------------------
LEMMA FindsStep ==
  ASSUME IInv, NEW r \in Requests, Finds(r)
  PROVE  IInv'
<1> PICK w \in clients[r].wallets : FindPending(r, w)
  BY DEF Finds
<1>1. /\ Pending(w) = {} /\ pc' = [pc EXCEPT ![r] = "page"]
      /\ wallet' = [wallet EXCEPT ![r] = w]
      /\ UNCHANGED <<cart, orders, cartData, input, clients, added, touched, lost>>
  BY DEF FindPending, history
<1>2. w \in Wallets
  BY StorefrontAssumption DEF IInv, TypeOK
<1>3. TypeOK'
  BY <1>1, <1>2 DEF IInv, TypeOK
<1>4. Apart(r) /\ pc'[r] = "page" /\ wallet'[r] = w
  BY <1>1 DEF Apart, IInv, TypeOK
<1>5. Chosen(r)' /\ Since(r)' /\ Made(r)'
  BY <1>4 DEF Chosen, Since, Made
<1>6. Alone(r)'
  BY <1>1, <1>4 DEF Alone, Pending
<1> QED
  BY <1>1, <1>3, <1>4, <1>5, <1>6, QuietStep, SameShrinks, SameKept DEF IInv

LEMMA ReadsStep ==
  ASSUME IInv, NEW r \in Requests, GetCart(r) \/ ApiGets(r)
  PROVE  IInv'
<1>1. CASE GetCart(r)
  <2>1. /\ pc[r] = "page" /\ cart[wallet[r]] # Empty
        /\ cartData' = [cartData EXCEPT ![r] = cart[wallet[r]]]
        /\ pc' = [pc EXCEPT ![r] = "prices"]
        /\ UNCHANGED <<cart, orders, wallet, input, clients, added, touched, lost>>
    BY <1>1 DEF GetCart, history
  <2>2. TypeOK'
    BY <2>1 DEF IInv, TypeOK
  <2>3. Apart(r) /\ pc'[r] = "prices" /\ wallet'[r] = wallet[r] /\ cartData'[r] = cart[wallet[r]]
    BY <2>1 DEF Apart, IInv, TypeOK
  <2>4. Chosen(r)' /\ Since(r)' /\ Made(r)'
    BY <2>1, <2>3 DEF Chosen, Since, Made
  <2>5. Alone(r)'
    BY <2>1, <2>3 DEF IInv, Alone, Pending, OneByOne
  <2> QED
    BY <2>1, <2>2, <2>3, <2>4, <2>5, QuietStep, SameShrinks, SameKept DEF IInv
<1>2. CASE ApiGets(r)
  <2> PICK w \in clients[r].wallets : clients[r].api /\ ApiGetCart(r, w)
    BY <1>2 DEF ApiGets
  <2>1. /\ clients[r].api /\ cart[w] # Empty
        /\ cartData' = [cartData EXCEPT ![r] = cart[w]]
        /\ wallet' = [wallet EXCEPT ![r] = w]
        /\ pc' = [pc EXCEPT ![r] = "api"]
        /\ UNCHANGED <<cart, orders, input, clients, added, touched, lost>>
    BY DEF ApiGetCart, history
  <2>2. w \in Wallets
    BY StorefrontAssumption DEF IInv, TypeOK
  <2>3. TypeOK'
    BY <2>1, <2>2 DEF IInv, TypeOK
  <2>4. Apart(r) /\ pc'[r] = "api" /\ wallet'[r] = w /\ cartData'[r] = cart[w]
    BY <2>1 DEF Apart, IInv, TypeOK
  <2>5. Chosen(r)' /\ Since(r)' /\ Made(r)'
    BY <2>1, <2>4 DEF Chosen, Since, Made
  <2>6. Alone(r)'
    BY <2>1 DEF Alone, OneByOne
  <2> QED
    BY <2>1, <2>3, <2>4, <2>5, <2>6, QuietStep, SameShrinks, SameKept DEF IInv
<1> QED  BY <1>1, <1>2

LEMMA ArticlesStep ==
  ASSUME IInv, NEW r \in Requests, GetArticles(r) \/ ApiGetArticles(r)
  PROVE  IInv'
<1> USE DEF IInv
<1>1. PICK lines \in Lines :
        /\ lines # Empty
        /\ \A a \in Articles : lines[a] \in {NoLine, cartData[r][a]}
        /\ input' = [input EXCEPT ![r] = lines]
  <2>1. CASE GetArticles(r)
    <3>1. PICK found \in (SUBSET LinesOf(cartData[r])) \ {{}} :
            input' = [input EXCEPT ![r] = Only(cartData[r], found)]
      BY <2>1 DEF GetArticles
    <3> DEFINE chosen == Only(cartData[r], found)
    <3>2. cartData[r] \in Lines
      BY DEF TypeOK
    <3>3. /\ chosen \in Lines /\ chosen # Empty
          /\ \A a \in Articles : chosen[a] \in {NoLine, cartData[r][a]}
      <4>1. found \in SUBSET LinesOf(cartData[r]) /\ found # {}
        OBVIOUS
      <4> HIDE DEF IInv
      <4> QED  BY <3>2, <4>1, OnlyType
    <3> HIDE DEF chosen
    <3> QED  BY <3>1, <3>3 DEF chosen
  <2>2. CASE ApiGetArticles(r)
    BY <2>2 DEF ApiGetArticles, TypeOK
  <2> QED  BY <2>1, <2>2
<1>2. /\ pc[r] \in {"prices", "api"}
      /\ pc' = [pc EXCEPT ![r] = "create"]
      /\ UNCHANGED <<cart, orders, wallet, cartData, clients, added, touched, lost>>
  BY DEF GetArticles, ApiGetArticles, history
<1>3. Apart(r) /\ pc'[r] = "create" /\ input'[r] = lines
  BY <1>1, <1>2 DEF Apart, TypeOK
<1>4. TypeOK'
  BY <1>1, <1>2 DEF TypeOK
<1>5. Chosen(r)' /\ Since(r)' /\ Made(r)'
  BY <1>1, <1>2, <1>3 DEF Chosen, Since, Made
<1>6. Alone(r)'
  <2>1. OneByOne => pc[r] # "api"
    BY DEF Alone
  <2> QED  BY <1>2, <1>3, <2>1 DEF Alone, Pending, OneByOne
<1> QED
  BY <1>2, <1>3, <1>4, <1>5, <1>6, QuietStep, SameShrinks, SameKept

LEMMA AnsweredStep ==
  ASSUME IInv, NEW r \in Requests, ClearOrdered(r) \/ ClearPaid(r) \/ Fail(r)
  PROVE  IInv'
<1> USE DEF IInv
<1>1. Answered(r) /\ UNCHANGED <<orders, clients, added, lost>>
  BY DEF ClearOrdered, ClearPaid, Fail
<1>2. Shrinks
  <2>1. wallet[r] \in Wallets
    BY DEF TypeOK
  <2>2. CASE Vanish({wallet[r]})
    BY <2>1, <2>2, VanishShrinks
  <2>3. CASE UNCHANGED cart
    BY <2>3, SameShrinks
  <2> QED  BY <2>2, <2>3 DEF ClearOrdered, ClearPaid, Fail
<1>3. TypeOK'
  BY <1>1, <1>2, AnsweredRequest DEF TypeOK, Shrinks
<1> QED  BY <1>1, <1>2, <1>3, AnsweredRequest, QuietStep, SameKept

(***************************************************************************)
(* The order of a request is the only new one, and pending; its wallet had *)
(* none.                                                                   *)
(***************************************************************************)
LEMMA CreateStep ==
  ASSUME IInv, NEW r \in Requests, CreateOrder(r)
  PROVE  IInv'
<1> USE DEF IInv
<1> DEFINE order == [wallet |-> wallet[r], lines |-> input[r], status |-> "pending"]
           new   == Len(orders) + 1
<1>1. /\ pc[r] = "create" /\ orders' = Append(orders, order)
      /\ UNCHANGED <<cart, clients, added>>
  BY DEF CreateOrder, history
<1>2. order \in Order /\ order.lines # Empty
  BY <1>1 DEF Order, TypeOK, Chosen
<1>3. /\ Kept
      /\ DOMAIN orders' = DOMAIN orders \cup {new}
      /\ orders'[new] = order
  BY <1>1, <1>2, AppendKept
<1> HIDE DEF new
<1>4. Shrinks
  BY <1>1, SameShrinks
<1>5. \/ /\ pc' = [pc EXCEPT ![r] = "clear"]
         /\ UNCHANGED <<wallet, cartData, input, touched, lost>>
      \/ Answered(r) /\ lost' = lost + 1 /\ lost < MaxLost
  BY DEF CreateOrder, history
<1>6. TypeOK' /\ Apart(r)
  <2>1. lost' \in 0 .. MaxLost
    BY <1>5, StorefrontAssumption DEF TypeOK
  <2>2. CASE Answered(r)
    BY <1>1, <1>3, <2>1, <2>2, AnsweredRequest DEF TypeOK, Kept, Order
  <2>3. CASE /\ pc' = [pc EXCEPT ![r] = "clear"]
             /\ UNCHANGED <<wallet, cartData, input, touched, lost>>
    BY <1>1, <1>3, <2>1, <2>3 DEF TypeOK, Kept, Order, Apart
  <2> QED  BY <1>5, <2>2, <2>3
<1>7. Chosen(r)' /\ Since(r)' /\ Made(r)' /\ Alone(r)'
  <2>1. CASE Answered(r)
    BY <2>1, AnsweredRequest
  <2>2. CASE /\ pc' = [pc EXCEPT ![r] = "clear"]
             /\ UNCHANGED <<wallet, cartData, input, touched, lost>>
    <3>1. pc'[r] = "clear"
      BY <2>2 DEF TypeOK
    <3>2. Chosen(r)' /\ Since(r)'
      BY <1>1, <2>2, <3>1 DEF Chosen, Since
    <3>3. Made(r)'
      BY <1>3, <2>2 DEF Made
    <3>4. Alone(r)'
      BY <3>1 DEF Alone
    <3> QED  BY <3>2, <3>3, <3>4
  <2> QED  BY <1>5, <2>1, <2>2
<1>8. ASSUME NEW w PROVE Pending(w)' \subseteq Pending(w) \cup {new} /\ (w # wallet[r] => new \notin Pending(w)')
  BY <1>3 DEF Kept, Pending
<1>9. OneByOne => wallet[r] \in clients[r].wallets /\ Pending(wallet[r]) = {}
  BY <1>1 DEF Alone
<1>10. ASSUME NEW q \in Requests \ {r} PROVE Chosen(q)' /\ Since(q)' /\ Made(q)' /\ Alone(q)'
  <2>1. Chosen(q)'
    BY <1>6 DEF Chosen, Apart
  <2>2. Since(q)'
    BY <1>1, <1>6 DEF Since, Apart
  <2>3. Made(q)'
    BY <1>3, <1>6 DEF Made, Apart, Kept
  <2>4. Alone(q)'
    <3>1. UNCHANGED pc[q] /\ UNCHANGED wallet[q] /\ UNCHANGED clients
      BY <1>6 DEF Apart
    <3>2. CASE OneByOne /\ pc[q] \in {"page", "prices", "create"}
      <4>1. wallet[q] \in clients[q].wallets /\ Pending(wallet[q]) = {}
        BY <3>2 DEF Alone
      <4>2. wallet[q] # wallet[r]
        BY <1>9, <3>2, <4>1 DEF OneByOne
      <4>3. Pending(wallet[q])' = {}
        BY <1>8, <4>1, <4>2, <3>1
      <4> QED  BY <3>1, <3>2, <4>1, <4>3 DEF Alone, OneByOne
    <3>3. CASE ~ (OneByOne /\ pc[q] \in {"page", "prices", "create"})
      BY <3>1, <3>3 DEF Alone, OneByOne
    <3> QED  BY <3>2, <3>3
  <2> QED  BY <2>1, <2>2, <2>3, <2>4
<1>11. OnePendingOneByOne'
  <2>1. ASSUME OneByOne, NEW w \in Wallets, NEW o \in Pending(w)', NEW p \in Pending(w)'
        PROVE  o = p
    <3>1. CASE w = wallet[r]
      BY <1>8, <1>9, <2>1, <3>1
    <3>2. CASE w # wallet[r]
      BY <1>8, <2>1, <3>2 DEF OnePendingOneByOne
    <3> QED  BY <3>1, <3>2
  <2>2. OneByOne' <=> OneByOne
    BY <1>1 DEF OneByOne
  <2> QED  BY <2>1, <2>2 DEF OnePendingOneByOne
<1> QED  BY <1>6, <1>7, <1>10, <1>11

LEMMA PayStep ==
  ASSUME IInv, NEW r \in Requests, Pays(r) \/ Cancels(r)
  PROVE  IInv'
<1> USE DEF IInv
<1>1. PICK o \in DOMAIN orders, s \in {"paid", "failed"} :
        /\ SetStatus(o, s) /\ pc[r] = "idle"
        /\ UNCHANGED <<cart, clients, cartData, input, added, touched>>
        /\ \/ UNCHANGED <<pc, wallet, lost>>
           \/ UNCHANGED <<pc, wallet>> /\ lost < MaxLost /\ lost' = lost + 1
           \/ /\ pc' = [pc EXCEPT ![r] = "paid"]
              /\ wallet' = [wallet EXCEPT ![r] = orders[o].wallet]
              /\ UNCHANGED lost
  <2>1. CASE Pays(r)
    BY <2>1 DEF Pays, Pay
  <2>2. CASE Cancels(r)
    BY <2>2 DEF Cancels, Cancel, request, history
  <2> QED  BY <2>1, <2>2
<1>2. Kept /\ DOMAIN orders' = DOMAIN orders
  BY <1>1, StatusKept
<1>3. orders[o].wallet \in Wallets
  <2>1. orders \in Seq(Order)
    BY DEF TypeOK, Order
  <2>2. orders[o] \in Order
    BY <2>1
  <2> QED  BY <2>2 DEF Order
<1>4. lost' \in 0 .. MaxLost
  BY <1>1, StorefrontAssumption DEF TypeOK
<1>5. pc'[r] \in {"idle", "paid"} /\ Apart(r)
  BY <1>1 DEF TypeOK, Apart
<1>6. TypeOK'
  <2>1. /\ pc' \in [Requests -> {"idle", "page", "prices", "api", "create", "clear", "paid"}]
        /\ wallet' \in [Requests -> Wallets]
    BY <1>1, <1>3 DEF TypeOK
  <2>2. \A q \in Requests :
          pc'[q] \in {"prices", "api", "create", "clear"} => cartData'[q] # Empty
    BY <1>1, <1>5 DEF TypeOK, Apart
  <2> QED  BY <1>1, <1>2, <1>4, <2>1, <2>2 DEF TypeOK, Kept, Order
<1>7. Chosen(r)' /\ Since(r)' /\ Made(r)' /\ Alone(r)'
  BY <1>5 DEF Chosen, Since, Made, Alone
<1> QED  BY <1>1, <1>2, <1>5, <1>6, <1>7, QuietStep, SameShrinks

LEMMA StepInv == IInv /\ [Next]_vars => IInv'
<1> SUFFICES ASSUME IInv, [Next]_vars PROVE IInv'
  OBVIOUS
<1>1. ASSUME NEW w \in Wallets, NEW a \in Articles, NEW n \in Quantities, AddToCart(w, a, n)
      PROVE  IInv'
  BY <1>1, AddStep
<1>2. ASSUME NEW w \in Wallets, NEW a \in Articles, RemoveFromCart(w, a) PROVE IInv'
  BY <1>2, RemoveShrinks, LoseStep DEF RemoveFromCart, IInv
<1>3. ASSUME NEW w \in Wallets, Expire(w) PROVE IInv'
  BY <1>3, VanishShrinks, LoseStep DEF Expire, IInv
<1>4. ASSUME NEW r \in Requests, RequestStep(r) PROVE IInv'
  <2>1. \/ Finds(r) \/ GetCart(r) \/ GetArticles(r) \/ ApiGets(r) \/ ApiGetArticles(r)
        \/ CreateOrder(r) \/ ClearOrdered(r) \/ Fail(r) \/ ClearPaid(r)
        \/ Pays(r) \/ Cancels(r)
    BY <1>4 DEF RequestStep, Finds, ApiGets, Pays, Cancels
  <2> QED
    BY <2>1, FindsStep, ReadsStep, ArticlesStep, CreateStep, AnsweredStep, PayStep
<1>5. CASE Restart
  BY <1>5, RestartStep
<1>6. CASE UNCHANGED vars
  BY <1>6, SameShrinks, LoseStep DEF vars, IInv
<1> QED  BY <1>1, <1>2, <1>3, <1>4, <1>5, <1>6 DEF Next

THEOREM Invariance == Spec => []IInv
BY InitInv, StepInv, PTL DEF Spec

-----------------------------------------------------------------------------
(***************************************************************************)
(* Type correctness: among others, no order is empty.                      *)
(***************************************************************************)
THEOREM TypeCorrect == Spec => []TypeOK
BY Invariance, PTL DEF IInv

(***************************************************************************)
(* A wallet whose requests come one after the other has one pending order. *)
(***************************************************************************)
THEOREM OneAtATime == Spec => []OnePendingOneByOne
BY Invariance, PTL DEF IInv

(***************************************************************************)
(* What a checkout clears has been ordered.                                *)
(***************************************************************************)
THEOREM Clearing == Spec => ClearedIsOrdered
<1> DEFINE Fine(r) ==
      (pc[r] = "clear" /\ pc'[r] = "idle" /\ cart' # cart) =>
         \A a \in LinesOf(cart[wallet[r]]) \ touched[r] :
           /\ cart[wallet[r]][a] = cartData[r][a]
           /\ a \in LinesOf(input[r]) =>
                \E o \in DOMAIN orders :
                  /\ orders[o].wallet = wallet[r]
                  /\ orders[o].lines[a] = cart[wallet[r]][a]
<1>1. ASSUME IInv, NEW r \in Requests PROVE Fine(r)
  <2> SUFFICES ASSUME pc[r] = "clear",
                      NEW a \in LinesOf(cart[wallet[r]]) \ touched[r]
               PROVE  /\ cart[wallet[r]][a] = cartData[r][a]
                      /\ a \in LinesOf(input[r]) =>
                           \E o \in DOMAIN orders :
                             /\ orders[o].wallet = wallet[r]
                             /\ orders[o].lines[a] = cart[wallet[r]][a]
    OBVIOUS
  <2>1. a \in Articles /\ cart[wallet[r]][a] # NoLine
    BY DEF LinesOf
  <2>2. cart[wallet[r]][a] = cartData[r][a]
    BY <1>1, <2>1 DEF IInv, Since
  <2>3. PICK o \in DOMAIN orders : orders[o].wallet = wallet[r] /\ orders[o].lines = input[r]
    BY <1>1 DEF IInv, Made
  <2>4. a \in LinesOf(input[r]) => input[r][a] = cartData[r][a]
    BY <1>1, <2>1 DEF IInv, Chosen, LinesOf
  <2> QED  BY <2>2, <2>3, <2>4
<1>2. IInv => [\A r \in Requests : Fine(r)]_vars
  BY <1>1
<1> QED  BY <1>2, Invariance, PTL DEF ClearedIsOrdered

-----------------------------------------------------------------------------
(***************************************************************************)
(* No unit is ordered twice.  What is ordered, and what may be ordered     *)
(* yet (the units in the cart, or in the cart that was read) must fit in   *)
(* what was added.  The account is kept in three ways:                     *)
(*   - all the orders, without the cart, always;                           *)
(*   - all the orders, with the cart, until a reply is lost, but while a   *)
(*     request has created its order and not yet cleared the cart;         *)
(*   - the paid orders, with the cart, or with the cart that was read, but *)
(*     while a request has paid and not yet cleared the cart.              *)
(* The last one is what an order is created from: its wallet has no        *)
(* pending order then.  The second one turns into it when an order is      *)
(* paid and the reply is lost, which is why two lost replies are too many. *)
(***************************************************************************)
Amount(line) == IF line \in 1 .. Half - 1 THEN line ELSE 0

InCart(w, a) == Amount(cart[w][a])

Paid(w, a) == Cardinality(Units(w, a, {"paid"}))

Busy(w, p) == \E r \in Requests : wallet[r] = w /\ pc[r] = p

AllFit(w, a) == Ordered(w, a) <= added[w][a]

AllFitWithCart(w, a) ==
  (lost = 0 /\ ~ Busy(w, "clear")) => Ordered(w, a) + InCart(w, a) <= added[w][a]

PaidFitWithCart(w, a) ==
  ~ Busy(w, "paid") => Paid(w, a) + InCart(w, a) <= added[w][a]

PaidFitWithRead(r, a) ==
  pc[r] \in {"prices", "create"} =>
    Paid(wallet[r], a) + Amount(cartData[r][a]) <= added[wallet[r]][a]

Funded ==
  (OneByOne /\ lost <= 1) =>
    /\ \A w \in Wallets, a \in Articles :
         AllFit(w, a) /\ AllFitWithCart(w, a) /\ PaidFitWithCart(w, a)
    /\ \A r \in Requests, a \in Articles : PaidFitWithRead(r, a)

\* A request that is served is one for a wallet of its goroutine.
Serving == \A r \in Requests : pc[r] # "idle" => wallet[r] \in clients[r].wallets

Account == IInv /\ Serving /\ Funded

-----------------------------------------------------------------------------
LEMMA AmountType ==
  ASSUME NEW line
  PROVE  Amount(line) \in Nat
BY CartContentsAssumption DEF Amount

(***************************************************************************)
(* A line grows by what is added, or less if it wraps around.              *)
(***************************************************************************)
LEMMA AmountOfMore ==
  ASSUME NEW line \in Line \cup {NoLine}, NEW n \in Quantities
  PROVE  Amount(More(line, n)) <= Amount(line) + n
<1> USE CartContentsAssumption
<1>0. n \in 1 .. Half - 1
  OBVIOUS
<1>1. CASE line = NoLine
  BY <1>0, <1>1 DEF More, Amount
<1>2. CASE line # NoLine
  <2>1. line \in Int /\ - Half <= line /\ line <= Half - 1
    BY <1>2 DEF Line
  <2> DEFINE x == line + n + Half
             m == 2 * Half
  <2>2. x \in Nat /\ m \in Nat \ {0} /\ x < 2 * m
    BY <1>0, <2>1
  <2>3. x % m \in Nat /\ x % m <= x
    <3> HIDE DEF x, m
    <3> QED  BY <2>2
  <2>4. More(line, n) = (x % m) - Half
    BY <1>2 DEF More, Plus
  <2>5. More(line, n) <= line + n /\ More(line, n) \in Int
    <3>1. x - Half = line + n
      BY <1>0, <2>1
    <3> HIDE DEF x, m
    <3> QED  BY <2>2, <2>3, <2>4, <3>1
  <2>6. line <= Amount(line) /\ Amount(line) \in Nat
    BY <2>1 DEF Amount
  <2>7. Amount(More(line, n)) = 0 \/ Amount(More(line, n)) = More(line, n)
    BY DEF Amount
  <2> HIDE DEF x, m
  <2> QED  BY <1>0, <2>1, <2>5, <2>6, <2>7
<1> QED  BY <1>1, <1>2

LEMMA ShrinksInCart ==
  ASSUME Shrinks, NEW w \in Wallets, NEW a \in Articles
  PROVE  InCart(w, a)' <= InCart(w, a)
<1>1. Amount(NoLine) = 0
  BY CartContentsAssumption DEF Amount
<1>2. cart'[w][a] \in {NoLine, cart[w][a]}
  BY DEF Shrinks
<1>3. InCart(w, a)' = Amount(cart'[w][a]) /\ InCart(w, a) = Amount(cart[w][a])
  BY DEF InCart, Amount
<1> QED  BY <1>1, <1>2, <1>3, AmountType

LEMMA OrdersType ==
  ASSUME TypeOK
  PROVE  /\ orders \in Seq(Order)
         /\ Len(orders) \in Nat
         /\ DOMAIN orders = 1 .. Len(orders)
         /\ \A o \in DOMAIN orders : orders[o] \in Order
<1>1. orders \in Seq(Order)
  BY DEF TypeOK, Order
<1> QED  BY <1>1

LEMMA UnitsFinite ==
  ASSUME TypeOK, NEW w, NEW a, NEW S
  PROVE  /\ IsFiniteSet(Units(w, a, S))
         /\ Cardinality(Units(w, a, S)) \in Nat
<1>1. IsFiniteSet(DOMAIN orders) /\ IsFiniteSet(1 .. Half - 1)
  BY OrdersType, FS_Interval, CartContentsAssumption
<1>2. IsFiniteSet((DOMAIN orders) \X (1 .. Half - 1))
  BY <1>1, FS_Product
<1>3. Units(w, a, S) \subseteq (DOMAIN orders) \X (1 .. Half - 1)
  BY DEF Units
<1>4. IsFiniteSet(Units(w, a, S))
  BY <1>2, <1>3, FS_Subset
<1> QED  BY <1>4, FS_CardinalityType

(***************************************************************************)
(* Units do not appear but with an order, or with a change of its status.  *)
(***************************************************************************)
LEMMA UnitsShrink ==
  ASSUME TypeOK, NEW w, NEW a, NEW S, NEW T,
         Kept, DOMAIN orders' = DOMAIN orders,
         \A o \in DOMAIN orders :
           (orders[o].wallet = w /\ orders'[o].status \in S) => orders[o].status \in T
  PROVE  Cardinality(Units(w, a, S)') <= Cardinality(Units(w, a, T))
<1>1. Units(w, a, S)' \subseteq Units(w, a, T)
  BY DEF Units, Kept
<1> QED  BY <1>1, UnitsFinite, FS_Subset

LEMMA UnitsOfFewer ==
  ASSUME TypeOK, NEW w, NEW a, NEW S, NEW T, S \subseteq T
  PROVE  Cardinality(Units(w, a, S)) <= Cardinality(Units(w, a, T))
<1>1. Units(w, a, S) \subseteq Units(w, a, T)
  BY DEF Units
<1> QED  BY <1>1, UnitsFinite, FS_Subset

LEMMA UnionCounts ==
  ASSUME NEW S, NEW T, IsFiniteSet(S), IsFiniteSet(T)
  PROVE  /\ IsFiniteSet(S \cup T)
         /\ Cardinality(S \cup T) <= Cardinality(S) + Cardinality(T)
<1>1. IsFiniteSet(S \cap T)
  <2>1. S \cap T \in SUBSET S
    OBVIOUS
  <2> QED  BY <2>1, FS_Subset
<1>2. Cardinality(S) \in Nat /\ Cardinality(T) \in Nat /\ Cardinality(S \cap T) \in Nat
  BY <1>1, FS_CardinalityType
<1>3. /\ IsFiniteSet(S \cup T)
      /\ Cardinality(S \cup T) = Cardinality(S) + Cardinality(T) - Cardinality(S \cap T)
  BY FS_Union
<1> QED  BY <1>2, <1>3

(***************************************************************************)
(* Of one owner there are as many numbered units as numbers.               *)
(***************************************************************************)
LEMMA NumberedUnits ==
  ASSUME NEW owner, NEW n \in Nat
  PROVE  IsFiniteSet({owner} \X (1 .. n)) /\ Cardinality({owner} \X (1 .. n)) = n
<1> DEFINE S == {owner}
           T == 1 .. n
<1>1. IsFiniteSet(S) /\ Cardinality(S) = 1
  BY FS_Singleton
<1>2. IsFiniteSet(T) /\ Cardinality(T) = n
  <2>1. IsFiniteSet(T) /\ Cardinality(T) = IF 1 > n THEN 0 ELSE n - 1 + 1
    BY FS_Interval
  <2> HIDE DEF T
  <2> QED  BY <2>1
<1>3. IsFiniteSet(S \X T) /\ Cardinality(S \X T) = Cardinality(S) * Cardinality(T)
  <2> HIDE DEF S, T
  <2> QED  BY <1>1, <1>2, FS_Product
<1>4. 1 * n = n
  OBVIOUS
<1>5. IsFiniteSet(S \X T) /\ Cardinality(S \X T) = n
  <2> HIDE DEF S, T
  <2> QED  BY <1>1, <1>2, <1>3, <1>4
<1> QED  BY <1>5

(***************************************************************************)
(* A new order brings its own units.                                       *)
(***************************************************************************)
LEMMA UnitsAppended ==
  ASSUME TypeOK, NEW order \in Order, order.lines # Empty,
         orders' = Append(orders, order),
         NEW w, NEW a \in Articles, NEW S
  PROVE  Cardinality(Units(w, a, S)') <=
           Cardinality(Units(w, a, S))
             + IF order.wallet = w /\ order.status \in S THEN Amount(order.lines[a]) ELSE 0
<1> DEFINE new == Len(orders) + 1
           own == {new} \X (1 .. Amount(order.lines[a]))
<1>1. /\ Len(orders) \in Nat
      /\ DOMAIN orders' = DOMAIN orders \cup {new}
      /\ orders'[new] = order
      /\ \A o \in DOMAIN orders : orders'[o] = orders[o]
  BY AppendKept, OrdersType
<1>2. Amount(order.lines[a]) \in Nat
  BY AmountType
<1>3. \A k \in 1 .. Half - 1 :
        (order.lines[a] # NoLine /\ k <= order.lines[a]) => k \in 1 .. Amount(order.lines[a])
  <2>1. order.lines[a] \in Line \cup {NoLine}
    BY DEF Order, Lines
  <2> QED  BY <2>1, CartContentsAssumption DEF Amount, Line
<1>4. IsFiniteSet(own) /\ Cardinality(own) = Amount(order.lines[a])
  <2> HIDE DEF new
  <2> QED  BY <1>2, NumberedUnits
<1> HIDE DEF new
<1>5. CASE order.wallet = w /\ order.status \in S
  <2>1. Units(w, a, S)' \subseteq Units(w, a, S) \cup own
    BY <1>1, <1>3 DEF Units
  <2> HIDE DEF own
  <2>2. /\ IsFiniteSet(Units(w, a, S) \cup own)
        /\ Cardinality(Units(w, a, S) \cup own) <=
             Cardinality(Units(w, a, S)) + Cardinality(own)
    BY <1>4, UnitsFinite, UnionCounts
  <2>3. /\ Cardinality(Units(w, a, S)') <= Cardinality(Units(w, a, S) \cup own)
        /\ Cardinality(Units(w, a, S)') \in Nat
        /\ Cardinality(Units(w, a, S) \cup own) \in Nat
    BY <2>1, <2>2, FS_Subset, FS_CardinalityType
  <2> QED  BY <1>2, <1>4, <1>5, <2>2, <2>3, UnitsFinite
<1>6. CASE ~ (order.wallet = w /\ order.status \in S)
  <2>1. Units(w, a, S)' \subseteq Units(w, a, S)
    BY <1>1, <1>6 DEF Units
  <2>2. Cardinality(Units(w, a, S)') <= Cardinality(Units(w, a, S))
    BY <2>1, UnitsFinite, FS_Subset
  <2> QED  BY <1>6, <2>2, UnitsFinite
<1> QED  BY <1>5, <1>6

(***************************************************************************)
(* The counts are numbers, and the paid units are among the ordered ones.  *)
(***************************************************************************)
LEMMA Counts ==
  ASSUME TypeOK, NEW w \in Wallets, NEW a \in Articles
  PROVE  /\ Paid(w, a) \in Nat /\ Ordered(w, a) \in Nat /\ InCart(w, a) \in Nat
         /\ added[w][a] \in Nat
         /\ Paid(w, a) <= Ordered(w, a)
<1>1. {"paid"} \subseteq {"pending", "paid"}
  OBVIOUS
<1>2. added[w][a] \in Nat
  BY StorefrontAssumption DEF TypeOK
<1> QED
  BY <1>1, <1>2, UnitsFinite, UnitsOfFewer, AmountType DEF Paid, Ordered, InCart

LEMMA CountsAfter ==
  ASSUME TypeOK', NEW w \in Wallets, NEW a \in Articles
  PROVE  Paid(w, a)' \in Nat /\ Ordered(w, a)' \in Nat
<1>1. ASSUME NEW S PROVE Cardinality(Units(w, a, S)') \in Nat
  <2>1. orders' \in Seq(Order)
    BY DEF TypeOK, Order
  <2>2. IsFiniteSet(DOMAIN orders') /\ IsFiniteSet(1 .. Half - 1)
    BY <2>1, FS_Interval, CartContentsAssumption
  <2>3. IsFiniteSet((DOMAIN orders') \X (1 .. Half - 1))
    BY <2>2, FS_Product
  <2>4. Units(w, a, S)' \subseteq (DOMAIN orders') \X (1 .. Half - 1)
    BY DEF Units
  <2> QED  BY <2>3, <2>4, FS_Subset, FS_CardinalityType
<1> QED  BY <1>1 DEF Paid, Ordered

(***************************************************************************)
(* Without a pending order, what a wallet has ordered is paid.             *)
(***************************************************************************)
LEMMA AllPaid ==
  ASSUME TypeOK, NEW w \in Wallets, Pending(w) = {}, NEW a \in Articles
  PROVE  Ordered(w, a) = Paid(w, a)
<1>1. Units(w, a, {"pending", "paid"}) = Units(w, a, {"paid"})
  BY DEF Units, Pending
<1> QED  BY <1>1 DEF Ordered, Paid

(***************************************************************************)
(* A wallet is served by one request at a time.                            *)
(***************************************************************************)
LEMMA Sole ==
  ASSUME Serving, OneByOne, NEW r \in Requests, NEW q \in Requests,
         wallet[q] \in clients[r].wallets, pc[q] # "idle"
  PROVE  q = r
BY DEF Serving, OneByOne

(***************************************************************************)
(* Requests are taken up for the wallets of their goroutine.               *)
(***************************************************************************)
LEMMA ServingStep ==
  ASSUME IInv, Serving, [Next]_vars
  PROVE  Serving'
<1> USE DEF Serving, request, history, IInv, TypeOK
<1>1. ASSUME NEW r \in Requests,
             \A q \in Requests \ {r} : pc'[q] = pc[q] /\ wallet'[q] = wallet[q],
             UNCHANGED clients,
             pc'[r] # "idle" => \/ pc[r] # "idle" /\ wallet'[r] = wallet[r]
                                \/ wallet'[r] \in clients[r].wallets
      PROVE  Serving'
  BY <1>1
<1>2. ASSUME NEW r \in Requests, RequestStep(r) PROVE Serving'
  <2>1. CASE Finds(r)
    BY <1>1, <2>1 DEF Finds, FindPending
  <2>2. CASE ApiGets(r)
    BY <1>1, <2>2 DEF ApiGets, ApiGetCart
  <2>3. CASE GetCart(r) \/ GetArticles(r) \/ ApiGetArticles(r)
    BY <1>1, <2>3 DEF GetCart, GetArticles, ApiGetArticles
  <2>4. CASE CreateOrder(r)
    <3>1. pc[r] # "idle"
      BY <2>4 DEF CreateOrder
    <3>2. CASE pc' = [pc EXCEPT ![r] = "clear"] /\ UNCHANGED wallet
      BY <1>1, <2>4, <3>1, <3>2 DEF CreateOrder
    <3>3. CASE Answered(r)
      BY <1>1, <2>4, <3>3 DEF CreateOrder, Answered
    <3> QED  BY <2>4, <3>2, <3>3 DEF CreateOrder
  <2>5. CASE ClearOrdered(r) \/ Fail(r) \/ ClearPaid(r)
    BY <1>1, <2>5 DEF ClearOrdered, Fail, ClearPaid, Answered
  <2>6. CASE Pays(r)
    <3> PICK o \in DOMAIN orders : orders[o].wallet \in clients[r].wallets /\ Pay(r, o)
      BY <2>6 DEF Pays
    <3> QED  BY <1>1 DEF Pay
  <2>7. CASE Cancels(r)
    BY <2>7 DEF Cancels, Cancel
  <2> QED
    BY <1>2, <2>1, <2>2, <2>3, <2>4, <2>5, <2>6, <2>7
       DEF RequestStep, Finds, ApiGets, Pays, Cancels
<1>3. CASE Restart
  BY <1>3 DEF Restart
<1>4. CASE UNCHANGED <<pc, wallet, clients>>
  BY <1>4
<1> QED
  BY <1>2, <1>3, <1>4 DEF Next, AddToCart, RemoveFromCart, Expire, vars

-----------------------------------------------------------------------------
LEMMA SameCounts ==
  ASSUME UNCHANGED orders, NEW w, NEW a
  PROVE  Ordered(w, a)' = Ordered(w, a) /\ Paid(w, a)' = Paid(w, a)
<1>1. \A S : Units(w, a, S)' = Units(w, a, S)
  BY DEF Units
<1> QED  BY <1>1 DEF Ordered, Paid

(***************************************************************************)
(* Steps that leave the orders as they are and add nothing to carts: a     *)
(* cart is read before a request of its wallet creates or pays an order,   *)
(* and a request that has done so leaves an empty cart.                    *)
(***************************************************************************)
LEMMA FundedKept ==
  ASSUME Account, TypeOK', Shrinks, UNCHANGED <<orders, clients, added, lost>>,
         \A p \in {"clear", "paid"}, w \in Wallets :
           Busy(w, p) => Busy(w, p)' \/ \A a \in Articles : InCart(w, a)' = 0,
         \A r \in Requests :
           (OneByOne /\ pc'[r] \in {"prices", "create"}) =>
             /\ wallet'[r] = wallet[r]
             /\ \/ pc[r] \in {"prices", "create"} /\ cartData'[r] = cartData[r]
                \/ pc[r] = "page" /\ cartData'[r] = cart[wallet[r]]
  PROVE  Funded'
<1> SUFFICES ASSUME OneByOne, lost <= 1
             PROVE  /\ \A w \in Wallets, a \in Articles :
                         AllFit(w, a)' /\ AllFitWithCart(w, a)' /\ PaidFitWithCart(w, a)'
                    /\ \A r \in Requests, a \in Articles : PaidFitWithRead(r, a)'
  BY DEF Funded, OneByOne
<1> USE DEF Account, IInv
<1>1. ASSUME NEW w \in Wallets, NEW a \in Articles
      PROVE  AllFit(w, a)' /\ AllFitWithCart(w, a)' /\ PaidFitWithCart(w, a)'
  <2>1. AllFit(w, a) /\ AllFitWithCart(w, a) /\ PaidFitWithCart(w, a)
    BY DEF Funded
  <2>2. Ordered(w, a)' = Ordered(w, a) /\ Paid(w, a)' = Paid(w, a)
    BY SameCounts
  <2>3. /\ InCart(w, a)' \in Nat /\ InCart(w, a)' <= InCart(w, a)
        /\ InCart(w, a) \in Nat /\ Ordered(w, a) \in Nat /\ Paid(w, a) \in Nat
        /\ added[w][a] \in Nat /\ Paid(w, a) <= Ordered(w, a)
    <3>1. InCart(w, a)' \in Nat
      BY AmountType DEF InCart, Amount
    <3> QED  BY <3>1, ShrinksInCart, Counts
  <2>4. AllFit(w, a)'
    BY <2>1, <2>2 DEF AllFit
  <2>5. AllFitWithCart(w, a)'
    <3> SUFFICES ASSUME lost = 0, ~ Busy(w, "clear")'
                 PROVE  Ordered(w, a) + InCart(w, a)' <= added[w][a]
      BY <2>2 DEF AllFitWithCart
    <3>1. CASE Busy(w, "clear")
      BY <2>1, <2>3, <3>1 DEF AllFit
    <3>2. CASE ~ Busy(w, "clear")
      BY <2>1, <2>3, <3>2 DEF AllFitWithCart
    <3> QED  BY <3>1, <3>2
  <2>6. PaidFitWithCart(w, a)'
    <3> SUFFICES ASSUME ~ Busy(w, "paid")'
                 PROVE  Paid(w, a) + InCart(w, a)' <= added[w][a]
      BY <2>2 DEF PaidFitWithCart
    <3>1. CASE Busy(w, "paid")
      BY <2>1, <2>3, <3>1 DEF AllFit
    <3>2. CASE ~ Busy(w, "paid")
      BY <2>1, <2>3, <3>2 DEF PaidFitWithCart
    <3> QED  BY <3>1, <3>2
  <2> QED  BY <2>4, <2>5, <2>6
<1>2. ASSUME NEW r \in Requests, NEW a \in Articles PROVE PaidFitWithRead(r, a)'
  <2> SUFFICES ASSUME pc'[r] \in {"prices", "create"}
               PROVE  Paid(wallet[r], a) + Amount(cartData'[r][a]) <= added[wallet[r]][a]
    <3>1. PICK x \in Wallets : x = wallet[r]
      BY DEF TypeOK
    <3>2. Paid(x, a)' = Paid(x, a)
      BY SameCounts
    <3>3. pc'[r] \in {"prices", "create"} => wallet'[r] = x
      BY <3>1
    <3>4. (pc'[r] \in {"prices", "create"} =>
             Paid(x, a)' + Amount(cartData'[r][a]) <= added[x][a]) => PaidFitWithRead(r, a)'
      BY <3>3 DEF PaidFitWithRead, Amount
    <3> QED  BY <3>1, <3>2, <3>4
  <2>1. CASE pc[r] \in {"prices", "create"} /\ cartData'[r] = cartData[r]
    BY <2>1 DEF Funded, PaidFitWithRead
  <2>2. CASE pc[r] = "page" /\ cartData'[r] = cart[wallet[r]]
    <3>1. wallet[r] \in Wallets /\ wallet[r] \in clients[r].wallets
      BY <2>2 DEF TypeOK, Serving
    <3>2. ~ Busy(wallet[r], "paid")
      BY <2>2, <3>1, Sole DEF Busy
    <3> QED  BY <2>2, <3>1, <3>2 DEF Funded, PaidFitWithCart, InCart
  <2> QED  BY <2>1, <2>2
<1> QED  BY <1>1, <1>2

LEMMA FundedAdd ==
  ASSUME Account, NEW w \in Wallets, NEW a \in Articles, NEW n \in Quantities,
         AddToCart(w, a, n)
  PROVE  Funded'
<1> SUFFICES ASSUME OneByOne, lost <= 1
             PROVE  /\ \A v \in Wallets, b \in Articles :
                         AllFit(v, b)' /\ AllFitWithCart(v, b)' /\ PaidFitWithCart(v, b)'
                    /\ \A r \in Requests, b \in Articles : PaidFitWithRead(r, b)'
  BY DEF Funded, OneByOne, AddToCart
<1> USE DEF Account, IInv
<1>1. /\ cart' = [cart EXCEPT ![w][a] = More(@, n)]
      /\ added' = [added EXCEPT ![w][a] = @ + n]
      /\ UNCHANGED <<orders, pc, wallet, cartData, lost>>
  BY DEF AddToCart, AddLine, request
<1>2. n \in Nat
  BY CartContentsAssumption
<1>3. ASSUME NEW v \in Wallets, NEW b \in Articles
      PROVE  /\ added'[v][b] \in Nat /\ added[v][b] <= added'[v][b]
             /\ InCart(v, b)' \in Nat
             /\ InCart(v, b)' - InCart(v, b) <= added'[v][b] - added[v][b]
  <2>1. InCart(v, b)' = Amount(cart'[v][b]) /\ InCart(v, b) = Amount(cart[v][b])
    BY DEF InCart, Amount
  <2>2. CASE v = w /\ b = a
    <3>1. cart'[v][b] = More(cart[w][a], n) /\ added'[v][b] = added[w][a] + n
      BY <1>1, <2>2 DEF TypeOK, Lines
    <3>2. cart[w][a] \in Line \cup {NoLine}
      BY DEF TypeOK, Lines
    <3> QED  BY <1>2, <2>1, <2>2, <3>1, <3>2, AmountOfMore, AmountType, Counts
  <2>3. CASE ~ (v = w /\ b = a)
    <3>1. cart'[v][b] = cart[v][b] /\ added'[v][b] = added[v][b]
      BY <1>1, <2>3 DEF TypeOK, Lines
    <3> QED  BY <2>1, <3>1, AmountType, Counts
  <2> QED  BY <2>2, <2>3
<1>4. ASSUME NEW v \in Wallets, NEW b \in Articles
      PROVE  AllFit(v, b)' /\ AllFitWithCart(v, b)' /\ PaidFitWithCart(v, b)'
  <2>1. AllFit(v, b) /\ AllFitWithCart(v, b) /\ PaidFitWithCart(v, b)
    BY DEF Funded
  <2>2. Ordered(v, b)' = Ordered(v, b) /\ Paid(v, b)' = Paid(v, b)
    BY <1>1, SameCounts
  <2>3. \A p : Busy(v, p)' <=> Busy(v, p)
    BY <1>1 DEF Busy
  <2>4. AllFit(v, b)'
    BY <1>3, <2>1, <2>2, Counts DEF AllFit
  <2>5. AllFitWithCart(v, b)'
    BY <1>1, <1>3, <2>1, <2>2, <2>3, Counts DEF AllFitWithCart
  <2>6. PaidFitWithCart(v, b)'
    BY <1>3, <2>1, <2>2, <2>3, Counts DEF PaidFitWithCart
  <2> QED  BY <2>4, <2>5, <2>6
<1>5. ASSUME NEW r \in Requests, NEW b \in Articles PROVE PaidFitWithRead(r, b)'
  <2> SUFFICES ASSUME pc[r] \in {"prices", "create"}
               PROVE  Paid(wallet[r], b) + Amount(cartData[r][b]) <= added'[wallet[r]][b]
    BY <1>1, SameCounts DEF PaidFitWithRead, Paid, Units, Amount
  <2>1. wallet[r] \in Wallets
    BY DEF TypeOK
  <2>2. Paid(wallet[r], b) + Amount(cartData[r][b]) <= added[wallet[r]][b]
    BY DEF Funded, PaidFitWithRead
  <2> QED  BY <1>3, <2>1, <2>2, Counts, AmountType
<1> QED  BY <1>4, <1>5

LEMMA FundedLose ==
  ASSUME Account, TypeOK', Shrinks, UNCHANGED <<orders, request, clients, history>>
  PROVE  Funded'
<1> USE DEF request, history
<1>1. \A p \in {"clear", "paid"}, w \in Wallets : Busy(w, p) => Busy(w, p)'
  BY DEF Busy
<1>2. \A r \in Requests :
        (OneByOne /\ pc'[r] \in {"prices", "create"}) =>
          wallet'[r] = wallet[r] /\ pc[r] \in {"prices", "create"} /\ cartData'[r] = cartData[r]
  OBVIOUS
<1> QED  BY <1>1, <1>2, FundedKept

LEMMA FundedRestart ==
  ASSUME Account, TypeOK', Restart
  PROVE  Funded'
<1> USE DEF Account, IInv
<1>1. Shrinks
  BY VanishShrinks DEF Restart
<1>2. \A w \in Wallets, a \in Articles : InCart(w, a)' = 0
  <2>1. \A w \in Wallets, a \in Articles : cart'[w][a] = NoLine
    BY DEF Restart, Vanish, Empty
  <2> QED  BY <2>1, CartContentsAssumption DEF InCart, Amount
<1>3. \A r \in Requests : pc'[r] = "idle"
  BY DEF Restart
<1> QED  BY <1>1, <1>2, <1>3, FundedKept DEF Restart

(***************************************************************************)
(* Steps of a request before it creates an order.                          *)
(***************************************************************************)
LEMMA FundedReads ==
  ASSUME Account, TypeOK', NEW r \in Requests,
         \/ Finds(r) \/ GetCart(r) \/ GetArticles(r)
         \/ ApiGets(r) \/ ApiGetArticles(r) \/ Fail(r)
  PROVE  Funded'
<1> USE DEF Account, IInv
<1>1. /\ UNCHANGED <<cart, orders, clients, added, lost>>
      /\ pc[r] \notin {"clear", "paid"}
      /\ \A q \in Requests \ {r} :
           pc'[q] = pc[q] /\ wallet'[q] = wallet[q] /\ cartData'[q] = cartData[q]
  <2> USE DEF history, TypeOK
  <2>1. CASE Finds(r)
    BY <2>1 DEF Finds, FindPending
  <2>2. CASE ApiGets(r)
    BY <2>2 DEF ApiGets, ApiGetCart
  <2>3. CASE GetCart(r) \/ GetArticles(r) \/ ApiGetArticles(r)
    BY <2>3 DEF GetCart, GetArticles, ApiGetArticles
  <2>4. CASE Fail(r)
    BY <2>4 DEF Fail, Answered
  <2> QED  BY <2>1, <2>2, <2>3, <2>4
<1>2. \A p \in {"clear", "paid"}, w \in Wallets : Busy(w, p) => Busy(w, p)'
  BY <1>1 DEF Busy
<1>3. (OneByOne /\ pc'[r] \in {"prices", "create"}) =>
        /\ wallet'[r] = wallet[r]
        /\ \/ pc[r] \in {"prices", "create"} /\ cartData'[r] = cartData[r]
           \/ pc[r] = "page" /\ cartData'[r] = cart[wallet[r]]
  <2> SUFFICES ASSUME OneByOne, pc'[r] \in {"prices", "create"}
               PROVE  /\ wallet'[r] = wallet[r]
                      /\ \/ pc[r] \in {"prices", "create"} /\ cartData'[r] = cartData[r]
                         \/ pc[r] = "page" /\ cartData'[r] = cart[wallet[r]]
    OBVIOUS
  <2> USE DEF TypeOK
  <2>1. CASE Finds(r)
    BY <2>1 DEF Finds, FindPending
  <2>2. CASE ApiGets(r)
    BY <2>2 DEF ApiGets, ApiGetCart
  <2>3. CASE GetCart(r)
    BY <2>3 DEF GetCart
  <2>4. CASE GetArticles(r)
    BY <2>4 DEF GetArticles
  <2>5. CASE ApiGetArticles(r)
    BY <2>5 DEF ApiGetArticles, Alone
  <2>6. CASE Fail(r)
    BY <2>6 DEF Fail, Answered
  <2> QED  BY <2>1, <2>2, <2>3, <2>4, <2>5, <2>6
<1>4. ASSUME NEW q \in Requests, OneByOne, pc'[q] \in {"prices", "create"}
      PROVE  /\ wallet'[q] = wallet[q]
             /\ \/ pc[q] \in {"prices", "create"} /\ cartData'[q] = cartData[q]
                \/ pc[q] = "page" /\ cartData'[q] = cart[wallet[q]]
  BY <1>1, <1>3, <1>4
<1>5. Shrinks
  BY <1>1, SameShrinks
<1> QED  BY <1>1, <1>2, <1>4, <1>5, FundedKept

(***************************************************************************)
(* A request that clears the cart.                                         *)
(***************************************************************************)
LEMMA FundedClears ==
  ASSUME Account, TypeOK', NEW r \in Requests, ClearOrdered(r) \/ ClearPaid(r)
  PROVE  Funded'
<1> USE DEF Account, IInv
<1>1. /\ Vanish({wallet[r]}) /\ Answered(r) /\ wallet[r] \in Wallets
      /\ UNCHANGED <<orders, clients, added, lost>>
  BY DEF ClearOrdered, ClearPaid, TypeOK
<1>2. Shrinks
  BY <1>1, VanishShrinks
<1>3. \A a \in Articles : InCart(wallet[r], a)' = 0
  <2>1. \A a \in Articles : cart'[wallet[r]][a] = NoLine
    BY <1>1 DEF Vanish, Empty
  <2> QED
    BY <1>1, <2>1, CartContentsAssumption DEF InCart, Amount, Answered
<1>4. \A q \in Requests \ {r} :
        pc'[q] = pc[q] /\ wallet'[q] = wallet[q] /\ cartData'[q] = cartData[q]
  BY <1>1 DEF Answered, TypeOK
<1>5. pc'[r] = "idle"
  BY <1>1 DEF Answered, TypeOK
<1>6. ASSUME NEW p \in {"clear", "paid"}, NEW w \in Wallets, Busy(w, p)
      PROVE  Busy(w, p)' \/ \A a \in Articles : InCart(w, a)' = 0
  <2>1. CASE w = wallet[r]
    BY <1>1, <1>3, <2>1 DEF Answered
  <2>2. CASE w # wallet[r]
    BY <1>4, <1>6, <2>2 DEF Busy
  <2> QED  BY <2>1, <2>2
<1>7. \A q \in Requests :
        (OneByOne /\ pc'[q] \in {"prices", "create"}) =>
          wallet'[q] = wallet[q] /\ pc[q] \in {"prices", "create"} /\ cartData'[q] = cartData[q]
  BY <1>4, <1>5
<1> QED  BY <1>1, <1>2, <1>6, <1>7, FundedKept

(***************************************************************************)
(* An order is created from a cart that fitted beside the paid orders, and *)
(* the wallet has no other.                                                *)
(***************************************************************************)
LEMMA FundedCreate ==
  ASSUME Account, TypeOK', NEW r \in Requests, CreateOrder(r)
  PROVE  Funded'
<1> USE DEF Account, IInv
<1> DEFINE order == [wallet |-> wallet[r], lines |-> input[r], status |-> "pending"]
<1>1. /\ pc[r] = "create" /\ orders' = Append(orders, order)
      /\ UNCHANGED <<cart, clients, added>>
      /\ \/ pc' = [pc EXCEPT ![r] = "clear"] /\ UNCHANGED <<wallet, cartData, lost>>
         \/ Answered(r) /\ lost' = lost + 1
  BY DEF CreateOrder, history
<1>2. /\ \A q \in Requests \ {r} :
           pc'[q] = pc[q] /\ wallet'[q] = wallet[q] /\ cartData'[q] = cartData[q]
      /\ pc'[r] \in {"clear", "idle"} /\ wallet' = wallet
      /\ lost \in Nat /\ lost' \in {lost, lost + 1}
      /\ lost' = lost => pc'[r] = "clear"
  BY <1>1, StorefrontAssumption DEF Answered, TypeOK
<1> SUFFICES ASSUME OneByOne, lost <= 1
             PROVE  /\ \A w \in Wallets, a \in Articles :
                         AllFit(w, a)' /\ AllFitWithCart(w, a)' /\ PaidFitWithCart(w, a)'
                    /\ \A q \in Requests, a \in Articles : PaidFitWithRead(q, a)'
  BY <1>1, <1>2 DEF Funded, OneByOne
<1>3. order \in Order /\ order.lines # Empty
  BY <1>1 DEF Order, TypeOK, Chosen
<1>4. /\ wallet[r] \in Wallets /\ Pending(wallet[r]) = {}
      /\ \A a \in Articles : input[r][a] \in {NoLine, cartData[r][a]}
  BY <1>1 DEF TypeOK, Alone, Chosen
<1>5. ASSUME NEW w \in Wallets, NEW a \in Articles
      PROVE  /\ Paid(w, a)' <= Paid(w, a)
             /\ w # wallet[r] => Ordered(w, a)' <= Ordered(w, a)
             /\ w = wallet[r] => Ordered(w, a)' <= added[w][a]
  <2>1. /\ Cardinality(Units(w, a, {"paid"})') <= Cardinality(Units(w, a, {"paid"})) + 0
        /\ Cardinality(Units(w, a, {"pending", "paid"})') <=
             Cardinality(Units(w, a, {"pending", "paid"}))
               + IF wallet[r] = w THEN Amount(input[r][a]) ELSE 0
    <3>1. /\ order.status = "pending" /\ order.wallet = wallet[r]
          /\ order.lines[a] = input[r][a]
          /\ "pending" \notin {"paid"} /\ "pending" \in {"pending", "paid"}
      OBVIOUS
    <3> HIDE DEF order
    <3> QED  BY <1>1, <1>3, <3>1, UnitsAppended
  <2>2. Paid(w, a)' <= Paid(w, a)
    BY <2>1, UnitsFinite DEF Paid
  <2>3. ASSUME w # wallet[r] PROVE Ordered(w, a)' <= Ordered(w, a)
    BY <2>1, <2>3, UnitsFinite DEF Ordered
  <2>4. ASSUME w = wallet[r] PROVE Ordered(w, a)' <= added[w][a]
    <3>1. Ordered(w, a)' <= Ordered(w, a) + Amount(input[r][a])
      BY <2>1, <2>4 DEF Ordered
    <3>2. Ordered(w, a) = Paid(w, a)
      BY <1>4, <2>4, AllPaid
    <3>3. Paid(w, a) + Amount(cartData[r][a]) <= added[w][a]
      BY <1>1, <2>4 DEF Funded, PaidFitWithRead
    <3>4. Amount(input[r][a]) <= Amount(cartData[r][a])
      <4>1. Amount(NoLine) = 0
        BY CartContentsAssumption DEF Amount
      <4>2. input[r][a] = NoLine \/ input[r][a] = cartData[r][a]
        BY <1>4
      <4> QED  BY <4>1, <4>2, AmountType
    <3>5. Ordered(w, a)' \in Nat
      BY CountsAfter
    <3> QED  BY <3>1, <3>2, <3>3, <3>4, <3>5, Counts, AmountType
  <2> QED  BY <2>2, <2>3, <2>4
<1>6. ASSUME NEW w \in Wallets, NEW a \in Articles
      PROVE  AllFit(w, a)' /\ AllFitWithCart(w, a)' /\ PaidFitWithCart(w, a)'
  <2>1. AllFit(w, a) /\ AllFitWithCart(w, a) /\ PaidFitWithCart(w, a)
    BY DEF Funded
  <2>2. InCart(w, a)' = InCart(w, a)
    BY <1>1 DEF InCart, Amount
  <2>3. Ordered(w, a)' \in Nat /\ Paid(w, a)' \in Nat
    BY CountsAfter
  <2>4. AllFit(w, a)'
    <3>1. CASE w = wallet[r]
      BY <1>1, <1>5, <3>1 DEF AllFit
    <3>2. CASE w # wallet[r]
      BY <1>1, <1>5, <2>1, <2>3, <3>2, Counts DEF AllFit
    <3> QED  BY <3>1, <3>2
  <2>5. AllFitWithCart(w, a)'
    <3> SUFFICES ASSUME lost' = 0, ~ Busy(w, "clear")'
                 PROVE  Ordered(w, a)' + InCart(w, a)' <= added'[w][a]
      BY DEF AllFitWithCart
    <3>1. lost = 0 /\ pc'[r] = "clear"
      BY <1>2
    <3>2. w # wallet[r]
      BY <1>2, <3>1 DEF Busy
    <3>3. ~ Busy(w, "clear")
      BY <1>2, <3>2 DEF Busy
    <3> QED
      BY <1>1, <1>5, <2>1, <2>2, <2>3, <3>1, <3>2, <3>3, Counts DEF AllFitWithCart
  <2>6. PaidFitWithCart(w, a)'
    <3>1. Busy(w, "paid") => Busy(w, "paid")'
      BY <1>1, <1>2 DEF Busy
    <3> QED
      BY <1>1, <1>5, <2>1, <2>2, <2>3, <3>1, Counts DEF PaidFitWithCart
  <2> QED  BY <2>4, <2>5, <2>6
<1>7. ASSUME NEW q \in Requests, NEW a \in Articles, pc'[q] \in {"prices", "create"}
      PROVE  PaidFitWithRead(q, a)'
  <2>1. q # r
    BY <1>2, <1>7
  <2>2. pc[q] \in {"prices", "create"} /\ cartData'[q] = cartData[q]
    BY <1>2, <1>7, <2>1
  <2>3. PICK w \in Wallets : w = wallet[q] /\ w = wallet'[q]
    BY <1>2 DEF TypeOK
  <2>4. Paid(w, a) + Amount(cartData[q][a]) <= added[w][a]
    BY <2>2, <2>3 DEF Funded, PaidFitWithRead
  <2>5. Paid(w, a)' + Amount(cartData[q][a]) <= added[w][a]
    BY <1>5, <2>4, Counts, CountsAfter, AmountType
  <2> QED
    BY <1>1, <2>2, <2>3, <2>5 DEF PaidFitWithRead, Paid, Units, Amount
<1> QED  BY <1>6, <1>7 DEF PaidFitWithRead

(***************************************************************************)
(* A status changes.  An order that is paid was pending: no request of its *)
(* wallet is under way, and if the reply is lost it is the first one.      *)
(***************************************************************************)
LEMMA FundedPays ==
  ASSUME Account, TypeOK', NEW r \in Requests, Pays(r) \/ Cancels(r)
  PROVE  Funded'
<1> USE DEF Account, IInv
<1>1. PICK o \in DOMAIN orders, s \in {"paid", "failed"} :
        /\ orders[o].wallet \in clients[r].wallets /\ orders[o].status = "pending"
        /\ SetStatus(o, s) /\ pc[r] = "idle"
        /\ UNCHANGED <<cart, clients, cartData, added>>
        /\ \/ s = "failed" /\ UNCHANGED <<pc, wallet, lost>>
           \/ UNCHANGED <<pc, wallet>> /\ lost' = lost + 1
           \/ /\ pc' = [pc EXCEPT ![r] = "paid"]
              /\ wallet' = [wallet EXCEPT ![r] = orders[o].wallet]
              /\ UNCHANGED lost
  <2>1. CASE Pays(r)
    BY <2>1 DEF Pays, Pay
  <2>2. CASE Cancels(r)
    BY <2>2 DEF Cancels, Cancel, request, history
  <2> QED  BY <2>1, <2>2
<1>2. /\ \A q \in Requests \ {r} : pc'[q] = pc[q] /\ wallet'[q] = wallet[q]
      /\ pc'[r] \in {"idle", "paid"}
      /\ lost \in Nat /\ lost' \in {lost, lost + 1}
      /\ (lost' = lost /\ s # "failed") => pc'[r] = "paid" /\ wallet'[r] = orders[o].wallet
  BY <1>1, StorefrontAssumption DEF TypeOK
<1> SUFFICES ASSUME OneByOne, lost' <= 1
             PROVE  /\ \A w \in Wallets, a \in Articles :
                         AllFit(w, a)' /\ AllFitWithCart(w, a)' /\ PaidFitWithCart(w, a)'
                    /\ \A q \in Requests, a \in Articles : PaidFitWithRead(q, a)'
  BY <1>1 DEF Funded, OneByOne
<1>3. lost <= 1
  BY <1>2
<1>4. /\ Kept /\ DOMAIN orders' = DOMAIN orders
      /\ orders'[o].status = s
      /\ \A p \in DOMAIN orders \ {o} : orders'[p] = orders[p]
  <2>1. Kept /\ DOMAIN orders' = DOMAIN orders
    BY <1>1, StatusKept
  <2>2. orders \in Seq(Order) /\ orders[o] \in Order
    BY OrdersType
  <2>3. orders' = [orders EXCEPT ![o] = [orders[o] EXCEPT !.status = s]]
    BY <1>1 DEF SetStatus
  <2> QED  BY <2>1, <2>2, <2>3 DEF Order
<1>5. ASSUME NEW w \in Wallets, NEW a \in Articles
      PROVE  /\ Ordered(w, a)' <= Ordered(w, a)
             /\ Paid(w, a)' <= Ordered(w, a)
             /\ s = "failed" \/ w # orders[o].wallet => Paid(w, a)' <= Paid(w, a)
  <2>1. Ordered(w, a)' <= Ordered(w, a) /\ Paid(w, a)' <= Ordered(w, a)
    <3>1. \A S \in {{"paid"}, {"pending", "paid"}} : \A p \in DOMAIN orders :
            orders'[p].status \in S => orders[p].status \in {"pending", "paid"}
      BY <1>1, <1>4
    <3> QED  BY <1>4, <3>1, UnitsShrink DEF Ordered, Paid
  <2>2. ASSUME s = "failed" \/ w # orders[o].wallet PROVE Paid(w, a)' <= Paid(w, a)
    <3>1. \A p \in DOMAIN orders :
            (orders[p].wallet = w /\ orders'[p].status \in {"paid"})
              => orders[p].status \in {"paid"}
      BY <1>4, <2>2
    <3> QED  BY <1>4, <3>1, UnitsShrink DEF Paid
  <2> QED  BY <2>1, <2>2
<1>6. ASSUME NEW w \in Wallets
      PROVE  /\ Busy(w, "clear") => Busy(w, "clear")'
             /\ Busy(w, "paid") => Busy(w, "paid")'
  BY <1>1, <1>2 DEF Busy
<1>7. \A q \in Requests : pc[q] # "idle" => wallet[q] # orders[o].wallet
  BY <1>1, Sole
<1>8. ASSUME NEW w \in Wallets, NEW a \in Articles
      PROVE  AllFit(w, a)' /\ AllFitWithCart(w, a)' /\ PaidFitWithCart(w, a)'
  <2>1. AllFit(w, a) /\ AllFitWithCart(w, a) /\ PaidFitWithCart(w, a)
    BY <1>3 DEF Funded
  <2>2. InCart(w, a)' = InCart(w, a)
    BY <1>1 DEF InCart, Amount
  <2>3. AllFit(w, a)'
    BY <1>1, <1>5, <2>1, Counts, CountsAfter DEF AllFit
  <2>4. AllFitWithCart(w, a)'
    BY <1>1, <1>2, <1>5, <1>6, <2>1, <2>2, Counts, CountsAfter DEF AllFitWithCart
  <2>5. PaidFitWithCart(w, a)'
    <3> SUFFICES ASSUME ~ Busy(w, "paid")'
                 PROVE  Paid(w, a)' + InCart(w, a)' <= added'[w][a]
      BY DEF PaidFitWithCart
    <3>1. CASE s = "failed" \/ w # orders[o].wallet
      BY <1>1, <1>5, <1>6, <2>1, <2>2, <3>1, Counts, CountsAfter DEF PaidFitWithCart
    <3>2. CASE s = "paid" /\ w = orders[o].wallet
      <4>1. lost = 0
        BY <1>2, <3>2 DEF Busy
      <4>2. ~ Busy(w, "clear")
        BY <1>7, <3>2 DEF Busy
      <4>3. Ordered(w, a) + InCart(w, a) <= added[w][a]
        BY <2>1, <4>1, <4>2 DEF AllFitWithCart
      <4> QED  BY <1>1, <1>5, <2>2, <4>3, Counts, CountsAfter
    <3> QED  BY <3>1, <3>2
  <2> QED  BY <2>3, <2>4, <2>5
<1>9. ASSUME NEW q \in Requests, NEW a \in Articles, pc'[q] \in {"prices", "create"}
      PROVE  PaidFitWithRead(q, a)'
  <2>1. q # r
    BY <1>2, <1>9
  <2>2. pc[q] \in {"prices", "create"} /\ cartData'[q] = cartData[q]
    BY <1>1, <1>2, <1>9, <2>1
  <2>3. PICK w \in Wallets : w = wallet[q] /\ w = wallet'[q]
    BY <1>2, <2>1 DEF TypeOK
  <2>4. w # orders[o].wallet
    BY <1>7, <2>2, <2>3
  <2>5. Paid(w, a) + Amount(cartData[q][a]) <= added[w][a]
    BY <1>3, <2>2, <2>3 DEF Funded, PaidFitWithRead
  <2>6. Paid(w, a)' + Amount(cartData[q][a]) <= added[w][a]
    BY <1>5, <2>4, <2>5, Counts, CountsAfter, AmountType
  <2> QED
    BY <1>1, <2>2, <2>3, <2>6 DEF PaidFitWithRead, Paid, Units, Amount
<1> QED  BY <1>8, <1>9 DEF PaidFitWithRead

LEMMA FundedStep ==
  ASSUME Account, [Next]_vars
  PROVE  Account'
<1>1. IInv' /\ Serving' /\ TypeOK'
  BY StepInv, ServingStep DEF Account, IInv
<1>2. TypeOK
  BY DEF Account, IInv
<1> SUFFICES Funded'
  BY <1>1 DEF Account
<1>3. ASSUME NEW w \in Wallets, NEW a \in Articles, NEW n \in Quantities, AddToCart(w, a, n)
      PROVE  Funded'
  BY <1>3, FundedAdd
<1>4. ASSUME NEW w \in Wallets, NEW a \in Articles, RemoveFromCart(w, a) PROVE Funded'
  BY <1>1, <1>2, <1>4, RemoveShrinks, FundedLose DEF RemoveFromCart
<1>5. ASSUME NEW w \in Wallets, Expire(w) PROVE Funded'
  BY <1>1, <1>2, <1>5, VanishShrinks, FundedLose DEF Expire
<1>6. ASSUME NEW r \in Requests, RequestStep(r) PROVE Funded'
  <2>1. \/ Finds(r) \/ GetCart(r) \/ GetArticles(r) \/ ApiGets(r) \/ ApiGetArticles(r)
        \/ CreateOrder(r) \/ ClearOrdered(r) \/ Fail(r) \/ ClearPaid(r)
        \/ Pays(r) \/ Cancels(r)
    BY <1>6 DEF RequestStep, Finds, ApiGets, Pays, Cancels
  <2> QED  BY <1>1, <2>1, FundedReads, FundedClears, FundedCreate, FundedPays
<1>7. CASE Restart
  BY <1>1, <1>7, FundedRestart
<1>8. CASE UNCHANGED vars
  BY <1>1, <1>2, <1>8, SameShrinks, FundedLose DEF vars
<1> QED  BY <1>3, <1>4, <1>5, <1>6, <1>7, <1>8 DEF Next

LEMMA InitAccount ==
  ASSUME Init
  PROVE  Account
<1>1. IInv
  BY InitInv
<1>2. Serving
  BY DEF Init, Serving
<1>3. ASSUME NEW w \in Wallets, NEW a \in Articles
      PROVE  Ordered(w, a) = 0 /\ Paid(w, a) = 0 /\ InCart(w, a) = 0 /\ added[w][a] = 0
  <2>1. \A S : Units(w, a, S) = {}
    BY DEF Init, Units
  <2>2. cart[w][a] = NoLine /\ added[w][a] = 0
    BY DEF Init, CartInit, Empty
  <2>3. Ordered(w, a) = 0 /\ Paid(w, a) = 0
    BY <2>1, FS_EmptySet DEF Ordered, Paid
  <2>4. InCart(w, a) = 0
    BY <2>2, CartContentsAssumption DEF InCart, Amount
  <2> QED  BY <2>2, <2>3, <2>4
<1>4. Funded
  BY <1>3 DEF Init, Funded, AllFit, AllFitWithCart, PaidFitWithCart, PaidFitWithRead
<1> QED  BY <1>1, <1>2, <1>4 DEF Account

(***************************************************************************)
(* No unit a customer added is ordered twice, while no more than one reply *)
(* of a repository is lost.                                                *)
(***************************************************************************)
THEOREM OrderedOnce == Spec => []NoUnitTwice
<1>1. Account => NoUnitTwice
  BY DEF Account, Funded, AllFit, NoUnitTwice
<1> QED  BY <1>1, InitAccount, FundedStep, PTL DEF Spec

-----------------------------------------------------------------------------
(* How many orders of a wallet are pending, with requests at once.         *)

NoApi == \A r \in Requests : ~ clients[r].api

\* The requests that have found no pending order and may still create one.
Submitting(w) == {r \in Requests : wallet[r] = w /\ pc[r] \in {"page", "prices", "create"}}

\* Each of them may bring a pending order, and no others can.
Limited ==
  NoApi =>
    /\ \A r \in Requests : pc[r] # "api"
    /\ \A w \in Wallets :
         Cardinality(Pending(w)) + Cardinality(Submitting(w)) <= Cardinality(Servers(w))

LEMMA PendingFinite ==
  ASSUME TypeOK, NEW w
  PROVE  IsFiniteSet(Pending(w)) /\ Cardinality(Pending(w)) \in Nat
<1>1. IsFiniteSet(DOMAIN orders)
  BY OrdersType, FS_Interval
<1>2. Pending(w) \subseteq DOMAIN orders
  BY DEF Pending
<1> QED  BY <1>1, <1>2, FS_Subset, FS_CardinalityType

LEMMA RequestsFinite ==
  ASSUME NEW S \in SUBSET Requests
  PROVE  IsFiniteSet(S) /\ Cardinality(S) \in Nat
BY FS_Subset, FS_CardinalityType, StorefrontAssumption

(***************************************************************************)
(* A request that takes up a checkout, all others having been counted.     *)
(***************************************************************************)
LEMMA LimitedFinds ==
  ASSUME IInv, IInv', Serving, Serving', Limited, NEW r \in Requests, Finds(r)
  PROVE  Limited'
<1> PICK w \in clients[r].wallets : FindPending(r, w)
  BY DEF Finds
<1>1. /\ pc[r] = "idle" /\ Pending(w) = {}
      /\ pc' = [pc EXCEPT ![r] = "page"] /\ wallet' = [wallet EXCEPT ![r] = w]
      /\ UNCHANGED <<orders, clients>>
  BY DEF FindPending
<1>2. \A v : Pending(v)' = Pending(v)
  BY <1>1 DEF Pending
<1>3. \A v : Servers(v)' = Servers(v)
  BY <1>1 DEF Servers
<1>4. ASSUME NoApi, NEW v \in Wallets
      PROVE  Cardinality(Pending(v)') + Cardinality(Submitting(v)') <= Cardinality(Servers(v)')
  <2>1. CASE v = w
    <3>1. Pending(v)' = {}
      BY <1>1, <1>2, <2>1
    <3>2. Submitting(v)' \subseteq Servers(v)'
      BY DEF Serving, Submitting, Servers
    <3>3. Servers(v)' \in SUBSET Requests
      BY DEF Servers
    <3>4. /\ IsFiniteSet(Servers(v)') /\ Cardinality(Servers(v)') \in Nat
      BY <3>3, RequestsFinite
    <3>5. Cardinality(Submitting(v)') \in Nat /\ Cardinality(Submitting(v)') <= Cardinality(Servers(v)')
      BY <3>2, <3>4, FS_Subset, FS_CardinalityType
    <3>6. Cardinality(Pending(v)') = 0
      BY <3>1, FS_EmptySet
    <3> QED  BY <3>4, <3>5, <3>6
  <2>2. CASE v # w
    <3>1. Submitting(v)' = Submitting(v)
      BY <1>1, <2>2 DEF Submitting, IInv, TypeOK
    <3> QED  BY <1>2, <1>3, <1>4, <2>2, <3>1 DEF Limited
  <2> QED  BY <2>1, <2>2
<1>5. NoApi' <=> NoApi
  BY <1>1 DEF NoApi
<1>6. NoApi => \A q \in Requests : pc'[q] # "api"
  BY <1>1 DEF Limited, IInv, TypeOK
<1> QED  BY <1>4, <1>5, <1>6 DEF Limited

(***************************************************************************)
(* A request that creates its order is no longer one that may.             *)
(***************************************************************************)
LEMMA LimitedCreate ==
  ASSUME IInv, Limited, NEW r \in Requests, CreateOrder(r)
  PROVE  Limited'
<1> DEFINE order == [wallet |-> wallet[r], lines |-> input[r], status |-> "pending"]
           new   == Len(orders) + 1
<1>1. /\ pc[r] = "create" /\ orders' = Append(orders, order)
      /\ UNCHANGED <<wallet, clients>>
  BY DEF CreateOrder, Answered
<1>2. pc' = [pc EXCEPT ![r] = "clear"] \/ pc' = [pc EXCEPT ![r] = "idle"]
  BY DEF CreateOrder, Answered
<1>3. order \in Order /\ order.lines # Empty
  BY <1>1 DEF IInv, Order, TypeOK, Chosen
<1>4. Kept /\ DOMAIN orders' = DOMAIN orders \cup {new} /\ orders'[new] = order
  BY <1>1, <1>3, AppendKept DEF IInv
<1> HIDE DEF new
<1>5. ASSUME NEW v
      PROVE  /\ Pending(v)' \subseteq Pending(v) \cup {new}
             /\ v # wallet[r] => Pending(v)' \subseteq Pending(v)
  BY <1>4 DEF Kept, Pending
<1>6. \A v : Servers(v)' = Servers(v)
  BY <1>1 DEF Servers
<1>7. ASSUME NoApi, NEW v \in Wallets
      PROVE  Cardinality(Pending(v)') + Cardinality(Submitting(v)') <= Cardinality(Servers(v)')
  <2>0. Cardinality(Pending(v)) + Cardinality(Submitting(v)) <= Cardinality(Servers(v))
    BY <1>7 DEF Limited
  <2>1. /\ IsFiniteSet(Pending(v)) /\ Cardinality(Pending(v)) \in Nat
    BY PendingFinite DEF IInv
  <2>2. /\ IsFiniteSet(Submitting(v)) /\ Cardinality(Submitting(v)) \in Nat
        /\ Cardinality(Servers(v)) \in Nat
    BY RequestsFinite DEF Submitting, Servers
  <2>3. CASE v = wallet[r]
    <3>1. Submitting(v)' = Submitting(v) \ {r} /\ r \in Submitting(v)
      BY <1>1, <1>2, <2>3 DEF Submitting, IInv, TypeOK
    <3>2. Cardinality(Submitting(v)') = Cardinality(Submitting(v)) - 1
      BY <2>2, <3>1, FS_RemoveElement
    <3>3. /\ IsFiniteSet(Pending(v) \cup {new})
          /\ Cardinality(Pending(v) \cup {new}) \in Nat
          /\ Cardinality(Pending(v) \cup {new}) <= Cardinality(Pending(v)) + 1
      <4>1. IsFiniteSet({new}) /\ Cardinality({new}) = 1
        BY FS_Singleton
      <4>2. /\ IsFiniteSet(Pending(v) \cup {new})
            /\ Cardinality(Pending(v) \cup {new}) <= Cardinality(Pending(v)) + Cardinality({new})
        BY <2>1, <4>1, UnionCounts
      <4> QED  BY <4>1, <4>2, FS_CardinalityType
    <3>4. /\ Cardinality(Pending(v)') \in Nat
          /\ Cardinality(Pending(v)') <= Cardinality(Pending(v) \cup {new})
      BY <1>5, <3>3, FS_Subset, FS_CardinalityType
    <3> QED  BY <1>6, <2>0, <2>1, <2>2, <3>2, <3>3, <3>4
  <2>4. CASE v # wallet[r]
    <3>1. Submitting(v)' = Submitting(v)
      BY <1>1, <1>2, <2>4 DEF Submitting, IInv, TypeOK
    <3>2. /\ Cardinality(Pending(v)') \in Nat
          /\ Cardinality(Pending(v)') <= Cardinality(Pending(v))
      BY <1>5, <2>1, <2>4, FS_Subset, FS_CardinalityType
    <3> QED  BY <1>6, <2>0, <2>1, <2>2, <3>1, <3>2
  <2> QED  BY <2>3, <2>4
<1>8. NoApi' <=> NoApi
  BY <1>1 DEF NoApi
<1>9. NoApi => \A q \in Requests : pc'[q] # "api"
  BY <1>2 DEF Limited, IInv, TypeOK
<1> QED  BY <1>7, <1>8, <1>9 DEF Limited

(***************************************************************************)
(* Steps that create no order and take up no checkout.                     *)
(***************************************************************************)
LEMMA LimitedFewer ==
  ASSUME IInv, Limited, UNCHANGED clients,
         \A w \in Wallets : Pending(w)' \subseteq Pending(w),
         \A r \in Requests :
           /\ pc'[r] \in {"page", "prices", "create"} =>
                /\ pc[r] \in {"page", "prices", "create"} \/ pc[r] = "api"
                /\ wallet'[r] = wallet[r]
           /\ pc'[r] = "api" => pc[r] = "api" \/ clients[r].api
  PROVE  Limited'
<1>1. \A w : Servers(w)' = Servers(w)
  BY DEF Servers
<1>2. NoApi' <=> NoApi
  BY DEF NoApi
<1>3. ASSUME NoApi, NEW w \in Wallets
      PROVE  Cardinality(Pending(w)') + Cardinality(Submitting(w)') <= Cardinality(Servers(w)')
  <2>0. Cardinality(Pending(w)) + Cardinality(Submitting(w)) <= Cardinality(Servers(w))
    BY <1>3 DEF Limited
  <2>1. IsFiniteSet(Pending(w)) /\ Cardinality(Pending(w)) \in Nat
    BY PendingFinite DEF IInv
  <2>2. /\ IsFiniteSet(Submitting(w)) /\ Cardinality(Submitting(w)) \in Nat
        /\ Cardinality(Servers(w)) \in Nat
    BY RequestsFinite DEF Submitting, Servers
  <2>3. Submitting(w)' \subseteq Submitting(w)
    BY <1>3 DEF Submitting, Limited
  <2>4. /\ Cardinality(Submitting(w)') \in Nat
        /\ Cardinality(Submitting(w)') <= Cardinality(Submitting(w))
    BY <2>2, <2>3, FS_Subset, FS_CardinalityType
  <2>5. /\ Cardinality(Pending(w)') \in Nat
        /\ Cardinality(Pending(w)') <= Cardinality(Pending(w))
    BY <2>1, FS_Subset, FS_CardinalityType
  <2> QED  BY <1>1, <2>0, <2>1, <2>2, <2>4, <2>5
<1>4. NoApi => \A r \in Requests : pc'[r] # "api"
  BY DEF Limited, NoApi
<1> QED  BY <1>2, <1>3, <1>4 DEF Limited

LEMMA LimitedStep ==
  ASSUME IInv, Serving, Limited, [Next]_vars
  PROVE  Limited'
<1>0. IInv' /\ Serving' /\ TypeOK
  BY StepInv, ServingStep DEF IInv
<1>1. ASSUME UNCHANGED orders PROVE \A w : Pending(w)' \subseteq Pending(w)
  BY <1>1 DEF Pending
<1>2. ASSUME UNCHANGED <<orders, pc, wallet, clients>> PROVE Limited'
  BY <1>1, <1>2, LimitedFewer
<1>3. ASSUME NEW r \in Requests, RequestStep(r) PROVE Limited'
  <2>1. CASE Finds(r)
    BY <1>0, <2>1, LimitedFinds
  <2>2. CASE CreateOrder(r)
    BY <2>2, LimitedCreate
  <2>3. CASE GetCart(r) \/ GetArticles(r) \/ ApiGetArticles(r)
    <3>1. /\ pc[r] \in {"page", "prices", "api"}
          /\ \E where : pc' = [pc EXCEPT ![r] = where] /\ where # "api"
          /\ UNCHANGED <<orders, wallet, clients>>
      BY <2>3 DEF GetCart, GetArticles, ApiGetArticles
    <3> QED  BY <1>0, <1>1, <3>1, LimitedFewer DEF TypeOK
  <2>4. CASE ApiGets(r)
    <3>1. /\ clients[r].api /\ pc[r] = "idle" /\ pc' = [pc EXCEPT ![r] = "api"]
          /\ \A q \in Requests \ {r} : wallet'[q] = wallet[q]
          /\ UNCHANGED <<orders, clients>>
      BY <1>0, <2>4 DEF ApiGets, ApiGetCart, TypeOK
    <3> QED  BY <1>0, <1>1, <3>1, LimitedFewer DEF TypeOK
  <2>5. CASE ClearOrdered(r) \/ Fail(r) \/ ClearPaid(r)
    <3>1. pc' = [pc EXCEPT ![r] = "idle"] /\ UNCHANGED <<orders, wallet, clients>>
      BY <2>5 DEF ClearOrdered, Fail, ClearPaid, Answered
    <3> QED  BY <1>0, <1>1, <3>1, LimitedFewer DEF TypeOK
  <2>6. CASE Pays(r) \/ Cancels(r)
    <3>1. PICK o \in DOMAIN orders, s \in {"paid", "failed"} :
            /\ SetStatus(o, s) /\ pc[r] = "idle" /\ UNCHANGED clients
            /\ \/ UNCHANGED <<pc, wallet>>
               \/ /\ pc' = [pc EXCEPT ![r] = "paid"]
                  /\ wallet' = [wallet EXCEPT ![r] = orders[o].wallet]
      BY <2>6 DEF Pays, Pay, Cancels, Cancel, request
    <3>2. Kept /\ DOMAIN orders' = DOMAIN orders
      BY <1>0, <3>1, StatusKept
    <3>3. \A w : Pending(w)' \subseteq Pending(w)
      BY <3>2, PendingShrinks
    <3>4. \A q \in Requests :
            pc'[q] = "paid" \/ (pc'[q] = pc[q] /\ wallet'[q] = wallet[q])
      BY <1>0, <3>1 DEF TypeOK
    <3> QED  BY <3>1, <3>3, <3>4, LimitedFewer
  <2> QED
    BY <1>3, <2>1, <2>2, <2>3, <2>4, <2>5, <2>6
       DEF RequestStep, Finds, ApiGets, Pays, Cancels
<1>4. CASE Restart
  <2>1. /\ \A r \in Requests : pc'[r] = "idle"
        /\ UNCHANGED <<orders, clients>>
    BY <1>4 DEF Restart
  <2> QED  BY <1>1, <2>1, LimitedFewer
<1> QED
  BY <1>2, <1>3, <1>4 DEF Next, AddToCart, RemoveFromCart, Expire, vars, request

(***************************************************************************)
(* The pages leave no more orders of a wallet pending than it has requests *)
(* at a time.                                                              *)
(***************************************************************************)
THEOREM AsManyAsRequests == Spec => []PendingPerRequest
<1>1. ASSUME Init PROVE Limited /\ Serving
  <2>0. DOMAIN orders = {} /\ \A r \in Requests : pc[r] = "idle"
    BY <1>1 DEF Init
  <2>1. \A w : Pending(w) = {} /\ Submitting(w) = {}
    BY <2>0 DEF Pending, Submitting
  <2>2. \A w : Cardinality(Servers(w)) \in Nat
    BY RequestsFinite DEF Servers
  <2>3. Cardinality({}) = 0
    BY FS_EmptySet
  <2>4. \A w : Cardinality(Pending(w)) + Cardinality(Submitting(w)) <= Cardinality(Servers(w))
    BY <2>1, <2>2, <2>3
  <2> QED  BY <1>1, <2>4 DEF Init, Limited, Serving
<1>2. IInv /\ Limited => PendingPerRequest
  <2>1. ASSUME IInv, Limited, NoApi, NEW w \in Wallets
        PROVE  Cardinality(Pending(w)) <= Cardinality(Servers(w))
    <3>1. Cardinality(Pending(w)) + Cardinality(Submitting(w)) <= Cardinality(Servers(w))
      BY <2>1 DEF Limited
    <3>2. /\ Cardinality(Submitting(w)) \in Nat /\ Cardinality(Servers(w)) \in Nat
          /\ Cardinality(Pending(w)) \in Nat
      BY <2>1, RequestsFinite, PendingFinite DEF Submitting, Servers, IInv
    <3> QED  BY <3>1, <3>2
  <2> QED  BY <2>1 DEF PendingPerRequest, NoApi
<1>3. IInv /\ Serving /\ Limited /\ [Next]_vars => Serving' /\ Limited'
  BY ServingStep, LimitedStep
<1> QED  BY <1>1, <1>2, <1>3, Invariance, PTL DEF Spec

-----------------------------------------------------------------------------
(***************************************************************************)
(* The storefront changes carts only in the ways cart.Store implements.    *)
(***************************************************************************)
THEOREM CartsAsPromised == Spec => CartSpec
<1>1. Init => CartInit
  BY DEF Init
<1>2. ASSUME TypeOK, [Next]_vars PROVE [CartNext]_cart
  <2>1. ASSUME NEW w \in Wallets, NEW a \in Articles, NEW n \in Quantities, AddToCart(w, a, n)
        PROVE  CartNext
    BY <2>1 DEF AddToCart, CartNext
  <2>2. ASSUME NEW w \in Wallets, NEW a \in Articles, RemoveFromCart(w, a) PROVE CartNext
    BY <2>2 DEF RemoveFromCart, CartNext
  <2>3. ASSUME NEW ws \in SUBSET Wallets, Vanish(ws) PROVE CartNext
    BY <2>3 DEF CartNext
  <2>4. ASSUME NEW w \in Wallets, Expire(w) PROVE CartNext
    BY <2>3, <2>4 DEF Expire
  <2>5. ASSUME NEW r \in Requests, RequestStep(r) PROVE CartNext \/ UNCHANGED cart
    <3>1. CASE ClearOrdered(r) \/ ClearPaid(r)
      BY <1>2, <2>3, <3>1 DEF ClearOrdered, ClearPaid, TypeOK
    <3>2. CASE ~ (ClearOrdered(r) \/ ClearPaid(r))
      BY <2>5, <3>2 DEF RequestStep, FindPending, GetCart, GetArticles, ApiGetCart,
         ApiGetArticles, CreateOrder, Fail, Pay, Cancel
    <3> QED  BY <3>1, <3>2
  <2>6. CASE Restart
    BY <2>3, <2>6 DEF Restart
  <2> QED
    BY <1>2, <2>1, <2>2, <2>4, <2>5, <2>6 DEF Next, vars
<1> QED  BY <1>1, <1>2, TypeCorrect, PTL DEF Spec, CartSpec

-----------------------------------------------------------------------------
\* The orders as an order book: each numbered as it was created, and paid by a
\* transaction of its own, which has its number.
Numbers == 1 .. MaxOrders

StatusOf == [o \in Numbers |-> IF o \in DOMAIN orders THEN orders[o].status ELSE "none"]

PaidBy == [o \in Numbers |-> IF StatusOf[o] = "paid" THEN o ELSE 0]

Book == INSTANCE OrderBook WITH
          Orders <- Numbers, Texts <- Numbers, HashOf <- [t \in Numbers |-> t],
          Covers <- {<<o, o>> : o \in Numbers}, NoText <- 0,
          status <- StatusOf, hash <- PaidBy

OrdersFit == Len(orders) <= MaxOrders

(***************************************************************************)
(* A new status of one order is a new status of its number.                *)
(***************************************************************************)
LEMMA StatusSet ==
  ASSUME TypeOK, OrdersFit, NEW o \in DOMAIN orders, NEW s, SetStatus(o, s)
  PROVE  /\ o \in Numbers /\ StatusOf[o] = orders[o].status
         /\ StatusOf' = [StatusOf EXCEPT ![o] = s]
         /\ \A p \in Numbers : StatusOf'[p] = IF p = o THEN s ELSE StatusOf[p]
         /\ Len(orders') = Len(orders)
<1>1. /\ orders \in Seq(Order) /\ Len(orders) \in Nat /\ DOMAIN orders = 1 .. Len(orders)
      /\ MaxOrders \in Nat
  BY StorefrontAssumption DEF TypeOK, Order
<1>2. o \in Numbers /\ StatusOf[o] = orders[o].status
  BY <1>1 DEF OrdersFit, Numbers, StatusOf
<1>3. DOMAIN orders' = DOMAIN orders /\ Len(orders') = Len(orders)
  BY <1>1 DEF SetStatus
<1>4. \A p \in DOMAIN orders :
        orders'[p].status = IF p = o THEN s ELSE orders[p].status
  <2>1. orders[o] \in Order
    BY <1>1
  <2> QED  BY <1>1, <2>1 DEF SetStatus, Order
<1>5. StatusOf' = [p \in Numbers |-> IF p = o THEN s ELSE StatusOf[p]]
  BY <1>3, <1>4 DEF StatusOf
<1> QED  BY <1>2, <1>3, <1>5 DEF StatusOf

(***************************************************************************)
(* An order is created under the next number, which had none.              *)
(***************************************************************************)
LEMMA StatusAppended ==
  ASSUME TypeOK, OrdersFit, NEW r \in Requests, CreateOrder(r)
  PROVE  \E o \in Numbers : Book!Open(o)
<1> DEFINE n == Len(orders) + 1
<1>1. /\ orders \in Seq(Order) /\ Len(orders) \in Nat /\ DOMAIN orders = 1 .. Len(orders)
      /\ MaxOrders \in Nat
  BY StorefrontAssumption DEF TypeOK, Order
<1>2. n \in Numbers /\ n \notin DOMAIN orders
  BY <1>1 DEF CreateOrder, Numbers
<1>3. /\ DOMAIN orders' = DOMAIN orders \cup {n}
      /\ orders'[n].status = "pending"
      /\ \A p \in DOMAIN orders : orders'[p] = orders[p]
  <2> DEFINE new == [wallet |-> wallet[r], lines |-> input[r], status |-> "pending"]
  <2>1. orders' = Append(orders, new)
    BY DEF CreateOrder
  <2>2. new.status = "pending"
    OBVIOUS
  <2> HIDE DEF new
  <2> QED  BY <1>1, <2>1, <2>2
<1>4. StatusOf[n] = "none"
  BY <1>2 DEF StatusOf
<1>5. StatusOf' = [StatusOf EXCEPT ![n] = "pending"]
  BY <1>2, <1>3 DEF StatusOf
<1>6. PaidBy' = PaidBy
  BY <1>2, <1>4, <1>5 DEF PaidBy
<1> QED  BY <1>2, <1>4, <1>5, <1>6 DEF Book!Open

(***************************************************************************)
(* The orders of the storefront live as the order book has it: whatever    *)
(* the requests do together, an order is paid or cancelled once, when it   *)
(* is pending, and none is forgotten, by a restart either.                 *)
(***************************************************************************)
THEOREM OrdersAsPromised == Spec => Book!Spec
<1>1. Init => OrdersFit /\ Book!Init
  <2> SUFFICES ASSUME Init PROVE OrdersFit /\ Book!Init
    OBVIOUS
  <2>1. orders = <<>>
    BY DEF Init
  <2>2. OrdersFit
    BY <2>1, StorefrontAssumption DEF OrdersFit
  <2>3. StatusOf = [o \in Numbers |-> "none"]
    BY <2>1 DEF StatusOf
  <2>4. PaidBy = [o \in Numbers |-> 0]
    BY <2>3 DEF PaidBy
  <2> QED  BY <2>2, <2>3, <2>4 DEF Book!Init
<1>2. ASSUME TypeOK, OrdersFit, [Next]_vars
      PROVE  OrdersFit' /\ [Book!Next]_(Book!vars)
  <2>1. ASSUME UNCHANGED orders PROVE OrdersFit' /\ UNCHANGED Book!vars
    BY <1>2, <2>1 DEF OrdersFit, StatusOf, PaidBy, Book!vars
  <2>2. ASSUME NEW r \in Requests, CreateOrder(r) PROVE OrdersFit' /\ Book!Next
    <3>1. OrdersFit'
      BY <1>2, <2>2, StorefrontAssumption DEF TypeOK, CreateOrder, OrdersFit
    <3>2. Book!Next
      BY <1>2, <2>2, StatusAppended DEF Book!Next
    <3> QED  BY <3>1, <3>2
  <2>3. ASSUME NEW r \in Requests, NEW o \in DOMAIN orders, Pay(r, o)
        PROVE  OrdersFit' /\ Book!Next
    <3>1. SetStatus(o, "paid") /\ orders[o].status = "pending"
      BY <2>3 DEF Pay
    <3>2. /\ o \in Numbers /\ StatusOf[o] = "pending"
          /\ StatusOf' = [StatusOf EXCEPT ![o] = "paid"]
          /\ \A p \in Numbers : StatusOf'[p] = IF p = o THEN "paid" ELSE StatusOf[p]
          /\ OrdersFit'
      BY <1>2, <3>1, StatusSet DEF OrdersFit
    <3>3. PaidBy' = [PaidBy EXCEPT ![o] = o]
      BY <3>2 DEF PaidBy
    <3>4. \A p \in Numbers : PaidBy[p] # o
      <4>1. o # 0
        BY <3>2, StorefrontAssumption DEF Numbers
      <4> QED  BY <3>2, <4>1 DEF PaidBy
    <3>5. Book!Settle(o, o)
      BY <3>2, <3>3, <3>4 DEF Book!Settle
    <3> QED  BY <3>2, <3>5 DEF Book!Next
  <2>4. ASSUME NEW r \in Requests, NEW o \in DOMAIN orders, Cancel(r, o)
        PROVE  OrdersFit' /\ Book!Next
    <3>1. SetStatus(o, "failed") /\ orders[o].status = "pending"
      BY <2>4 DEF Cancel
    <3>2. /\ o \in Numbers /\ StatusOf[o] = "pending"
          /\ StatusOf' = [StatusOf EXCEPT ![o] = "failed"]
          /\ OrdersFit'
      BY <1>2, <3>1, StatusSet DEF OrdersFit
    <3>3. PaidBy' = PaidBy
      BY <3>2 DEF PaidBy, StatusOf
    <3>4. Book!Cancel(o)
      BY <3>2, <3>3 DEF Book!Cancel
    <3> QED  BY <3>2, <3>4 DEF Book!Next
  <2>5. ASSUME NEW r \in Requests,
               \/ Finds(r) \/ GetCart(r) \/ GetArticles(r) \/ ApiGets(r)
               \/ ApiGetArticles(r) \/ ClearOrdered(r) \/ Fail(r) \/ ClearPaid(r)
        PROVE  UNCHANGED orders
    BY <2>5 DEF Finds, FindPending, GetCart, GetArticles, ApiGets, ApiGetCart,
       ApiGetArticles, ClearOrdered, Fail, ClearPaid
  <2>6. ASSUME \/ \E w \in Wallets, a \in Articles :
                    (\E n \in Quantities : AddToCart(w, a, n)) \/ RemoveFromCart(w, a)
               \/ \E w \in Wallets : Expire(w)
               \/ Restart
               \/ UNCHANGED vars
        PROVE  UNCHANGED orders
    BY <2>6 DEF AddToCart, RemoveFromCart, Expire, Restart, vars
  <2> QED
    BY <1>2, <2>1, <2>2, <2>3, <2>4, <2>5, <2>6 DEF Next, RequestStep, Finds, ApiGets
<1> QED  BY <1>1, <1>2, TypeCorrect, PTL DEF Spec, Book!Spec
=============================================================================
