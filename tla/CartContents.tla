---------------------------- MODULE CartContents ----------------------------
(***************************************************************************)
(* What cart.Store promises its users: a wallet's cart is a set of lines,  *)
(* lines are added and removed one at a time, and a whole cart may vanish, *)
(* because it is cleared or because it expires.  Cart implements this      *)
(* module; Storefront uses it.                                             *)
(***************************************************************************)
EXTENDS Integers

CONSTANTS
  Wallets,
  Articles,
  Quantities,  \* quantities of the requests
  Half,        \* ints are -Half .. Half - 1 (2^63 in the code)
  NoLine       \* an article the cart has no line for

ASSUME CartContentsAssumption ==
  /\ Half \in Nat \ {0}
  /\ Quantities \subseteq 1 .. Half - 1
  /\ NoLine \notin Int

VARIABLE cart  \* the lines of each wallet

Empty == [a \in Articles |-> NoLine]

Line == (- Half) .. (Half - 1)

\* The sum of two ints, which wraps.
Plus(m, n) == ((m + n + Half) % (2 * Half)) - Half

\* A line after n more units.
More(line, n) == IF line = NoLine THEN n ELSE Plus(line, n)

CartInit == cart = [w \in Wallets |-> Empty]

AddLine(w, a, n) == cart' = [cart EXCEPT ![w][a] = More(@, n)]

RemoveLine(w, a) ==
  /\ cart[w][a] # NoLine
  /\ cart' = [cart EXCEPT ![w][a] = NoLine]

\* Carts cleared together, or expired together.
Vanish(ws) == cart' = [w \in Wallets |-> IF w \in ws THEN Empty ELSE cart[w]]

CartNext ==
  \/ \E w \in Wallets, a \in Articles, n \in Quantities : AddLine(w, a, n)
  \/ \E w \in Wallets, a \in Articles : RemoveLine(w, a)
  \/ \E ws \in SUBSET Wallets : Vanish(ws)

CartSpec == CartInit /\ [][CartNext]_cart
=============================================================================
