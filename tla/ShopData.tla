------------------------------ MODULE ShopData ------------------------------
(***************************************************************************)
(* The data the stock modules share.  An article document or row is kept   *)
(* as its quantity and its price: "price" stands for every field other     *)
(* than the quantity, since an admin edit treats them alike.  A basket is  *)
(* the list of lines of a checkout, at most one line per article (the      *)
(* cart is a map keyed by article).                                        *)
(***************************************************************************)
EXTENDS Integers

CONSTANTS
  Articles,    \* article identifiers, those not generated yet included
  Prices,      \* values of the fields other than the quantity
  Keep,        \* a field an edit does not name (nil pointer, NULL parameter)
  NoArticle    \* no row, or no document, under an article's key

Row == [quantity : Int, price : Prices]

Edit == [quantity : Int \cup {Keep}, price : Prices \cup {Keep}]

Basket == [Articles -> Nat]

ASSUME ShopDataAssumption ==
  /\ Keep \notin Int
  /\ Keep \notin Prices
  /\ NoArticle \notin Row

\* The articles a basket has a line for.
Lines(basket) == {a \in Articles : basket[a] > 0}

\* An edit overwrites the fields it names and keeps the others.
Applied(edit, row) ==
  [quantity |-> IF edit.quantity = Keep THEN row.quantity ELSE edit.quantity,
   price    |-> IF edit.price = Keep THEN row.price ELSE edit.price]

\* An edit that names every field.
Full(edit) == edit.quantity # Keep /\ edit.price # Keep

\* Mutant: the quantity is not compared.
StockedAnyQuantity(shelf, basket) ==
  \A a \in Lines(basket) : shelf[a] # NoArticle

\* Every line of the basket is covered by the rows of shelf.
Stocked(shelf, basket) ==
  \A a \in Lines(basket) :
    shelf[a] # NoArticle /\ shelf[a].quantity >= basket[a]

\* The rows of shelf after the basket has been taken from them.
Taken(shelf, basket) ==
  [a \in Articles |->
     IF a \in Lines(basket)
       THEN [shelf[a] EXCEPT !.quantity = @ - basket[a]]
       ELSE shelf[a]]
=============================================================================
