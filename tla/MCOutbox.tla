------------------------------ MODULE MCOutbox ------------------------------
(***************************************************************************)
(* Instances of Outbox: two keys, and transactions that name them in        *)
(* opposite orders.                                                         *)
(***************************************************************************)
EXTENDS Outbox, TLC

CONSTANTS m1, m2, m3, m4, t1, t2

Pairs == [m \in Msgs |-> IF m \in {m1, m2} THEN 1 ELSE 2]
Crossed == [t \in Txs |-> IF t = t1 THEN <<m1, m3>> ELSE <<m4, m2>>]
Single == [t \in Txs |-> IF t = t1 THEN <<m1>> ELSE <<m2>>]

\* Nothing tells the workers apart.
Alike == Permutations(Workers)
=============================================================================
