---------------------------- MODULE MCSettlement ----------------------------
(* Small values for Settlement: three orders, two transactions, one of     *)
(* which is named by two texts.                                            *)
EXTENDS Settlement

CONSTANTS t1, t2, t3, h1, h2, r1, r2

\* HexToHash makes the same hash of t1 and t2.
Spellings == [t \in Texts |-> IF t = t3 THEN h2 ELSE h1]

\* Both transactions are worth the first two orders, h2 the third one too.
MCCovers == ({h1, h2} \X {1, 2}) \cup {<<h2, 3>>}

\* Every order has one client, any number of them, or none.
OneEach == [r \in Requests |-> IF r = r1 THEN {1, 3} ELSE {2}]
Anyone  == [r \in Requests |-> Orders]
Nobody  == [r \in Requests |-> {}]

MCClienteles == {OneEach, Anyone, Nobody}
AnyoneOnly   == {Anyone}
MCLeafing    == {Nobody}
=============================================================================
