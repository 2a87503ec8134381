----------------------------- MODULE MCPgStock ------------------------------
(* Small values for PgStock.                                               *)
EXTENDS PgStock

CONSTANTS a1, a2

One  == [a \in Articles |-> IF a = a1 THEN 1 ELSE 0]
Both == [a \in Articles |-> 1]

MCBaskets == {One, Both}

PartialEdits == {[quantity |-> Keep, price |-> 7], [quantity |-> 2, price |-> Keep],
                 [quantity |-> -1, price |-> 7]}
MCNewRows == {[quantity |-> 1, price |-> 5]}
=============================================================================
