---------------------------- MODULE MCKeyedQueue ----------------------------
(***************************************************************************)
(* Instances of KeyedQueue: two keys, so that one can wait for the other's  *)
(* slot, both fed by one subscription and by the scan.  A second one, where *)
(* there is one, has no events and only ends sessions.                     *)
(***************************************************************************)
EXTENDS KeyedQueue, TLC

CONSTANT s1

OneFeed == [k \in Keys |-> s1]

\* With one feed no definition tells the keys or the workers apart.
Alike == Permutations(Keys) \cup Permutations(Workers)
=============================================================================
