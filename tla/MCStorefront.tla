---------------------------- MODULE MCStorefront ----------------------------
(* Small values for Storefront.                                            *)
EXTENDS Storefront, TLC

CONSTANTS w1, r1, r2

ArticleSymmetry == Permutations(Articles)

\* One goroutine serves the wallet by the pages, or two do, or one of the two
\* by the API.
OneGoroutine ==
  [r \in Requests |-> [wallets |-> IF r = r1 THEN {w1} ELSE {}, api |-> FALSE]]
TwoGoroutines ==
  [r \in Requests |-> [wallets |-> {w1}, api |-> FALSE]]
PagesAndApi ==
  [r \in Requests |-> [wallets |-> {w1}, api |-> r = r2]]

MCClienteles == {OneGoroutine, TwoGoroutines, PagesAndApi}
=============================================================================
