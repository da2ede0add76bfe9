---------------------------- MODULE OutboxProofs ----------------------------
(***************************************************************************)
(* The outbox for any messages, keys, transactions and workers: messages of *)
(* a key are claimed in order, at most one receipt of a key is valid, no     *)
(* message leaves undelivered, and transactions do not wait in a circle.     *)
(***************************************************************************)
EXTENDS Outbox, FiniteSetTheorems, TLAPS

\* A transaction takes its locks in ascending order, and nobody else holds them.
LockInv ==
  /\ \A t \in Txs : /\ tx[t].held \subseteq BatchKeys(t)
                    /\ tx[t].pc = "none" => tx[t].held = {}
                    /\ tx[t].pc = "inserted" => tx[t].held = BatchKeys(t)
                    /\ \A k \in tx[t].held, j \in BatchKeys(t) \ tx[t].held : k < j
  /\ \A t, u \in Txs : t # u => tx[t].held \cap tx[u].held = {}

\* A row that is not committed belongs to a transaction that holds its lock.
RowsInv ==
  /\ \A t \in Txs : /\ tx[t].pc = "locking" => Elems(Batch[t]) \cap table = {}
                    /\ tx[t].pc = "inserted" => Elems(Batch[t]) \subseteq table \ committed
  /\ \A e \in table \ committed : /\ msg[e].attempts = 0
                                  /\ \E t \in Txs : tx[t].pc = "inserted" /\ e \in Elems(Batch[t])

\* Sequence numbers are all different; behind an uncommitted row no row of its key is visible.
OrderInv ==
  /\ \A e, m \in table : e # m => Before(e, m) \/ Before(m, e)
  /\ \A e \in table \ committed, m \in committed : Before(e, m) => KeyOf[e] # KeyOf[m]
  /\ OrderKept

\* A lease belongs to an attempt, and receipts differ.
ReceiptInv ==
  /\ \A m \in Msgs : msg[m].token # 0 => msg[m].attempts > 0
  /\ \A w \in Workers : worker[w].pc # "idle" => worker[w].token # 0 /\ worker[w].msg \in Msgs
  /\ \A v, w \in Workers : v # w /\ worker[v].pc # "idle" /\ worker[w].pc # "idle" => worker[v].token # worker[w].token
  /\ \A w \in Workers : worker[w].pc = "acknowledge" /\ msg[worker[w].msg].token = worker[w].token
                          => worker[w].msg \in delivered

IInv == TypeOK /\ LockInv /\ RowsInv /\ OrderInv /\ ReceiptInv

-----------------------------------------------------------------------------
(* Batches, locks and tokens.                                               *)

Message == [avail : {"later", "due", "old"}, lease : {"none", "live", "expired"},
            token : {0} \cup Tokens, attempts : 0 .. Cap, failed : BOOLEAN]
Transaction == [pc : {"none", "locking", "inserted"}, held : SUBSET Locks]
Attempt == [pc : {"idle", "handling", "acknowledge", "retry"}, msg : Msgs \cup {None},
            token : {0} \cup Tokens, overdue : BOOLEAN]

LEMMA TypeParts ==
  TypeOK <=> /\ table \subseteq Msgs /\ before \subseteq table \X table
             /\ committed \subseteq table /\ delivered \subseteq Msgs
             /\ msg \in [Msgs -> Message] /\ \A m \in Msgs : msg[m].lease = "none" <=> msg[m].token = 0
             /\ tx \in [Txs -> Transaction]
             /\ worker \in [Workers -> Attempt]
  BY DEF TypeOK, Message, Transaction, Attempt

LEMMA BatchFacts ==
  ASSUME NEW t \in Txs
  PROVE  /\ Elems(Batch[t]) \subseteq Msgs
         /\ BatchKeys(t) \subseteq Locks
         /\ \A m \in Elems(Batch[t]) : KeyOf[m] \in BatchKeys(t)
<1>1. Batch[t] \in Seq(Msgs)
  BY OutboxAssumption
<1>2. Elems(Batch[t]) \subseteq Msgs
  BY <1>1 DEF Elems
<1> QED
  BY <1>2, OutboxAssumption DEF BatchKeys

LEMMA OwnMessages ==
  ASSUME NEW t \in Txs, NEW u \in Txs, t # u
  PROVE  Elems(Batch[t]) \cap Elems(Batch[u]) = {}
  BY OutboxAssumption DEF Elems

LEMMA LeastKey ==
  ASSUME NEW S \in SUBSET Nat, S # {}
  PROVE  \E k \in S : \A j \in S : k <= j
<1>1. IsWellFoundedOn(OpToRel(<, Nat), Nat)
  BY NatLessThanWellFounded
<1>2. PICK k \in S : \A j \in S : ~(<<j, k>> \in OpToRel(<, Nat))
  BY <1>1, WFMin
<1>3. \A j \in S : ~(j < k)
  BY <1>2 DEF OpToRel
<1> QED
  BY <1>3

\* Enqueue asks for the least lock it does not hold.
LEMMA NextLockIsLeast ==
  ASSUME NEW t \in Txs, BatchKeys(t) \ tx[t].held # {}
  PROVE  /\ NextLock(t) \in BatchKeys(t) \ tx[t].held
         /\ \A j \in BatchKeys(t) \ tx[t].held : NextLock(t) <= j
<1>1. BatchKeys(t) \ tx[t].held \in SUBSET Nat
  BY BatchFacts, OutboxAssumption
<1>2. \E k \in BatchKeys(t) \ tx[t].held : \A j \in BatchKeys(t) \ tx[t].held : k <= j
  BY <1>1, LeastKey
<1> QED
  BY <1>2 DEF NextLock

\* A new token is always found, and nobody holds it.
LEMMA TokenIsNew ==
  ASSUME TypeOK
  PROVE  /\ NewToken \in Tokens /\ NewToken # 0
         /\ \A m \in Msgs : msg[m].token # NewToken
         /\ \A w \in Workers : worker[w].token # NewToken
<1> DEFINE f == [m \in Msgs |-> msg[m].token]
           g == [w \in Workers |-> worker[w].token]
           A == {msg[m].token : m \in Msgs}
           B == {worker[w].token : w \in Workers}
<1>1. IsFiniteSet(Msgs) /\ IsFiniteSet(Workers)
  BY OutboxAssumption
<1>2. Cardinality(Msgs) \in Nat /\ Cardinality(Workers) \in Nat
  BY <1>1, FS_CardinalityType
<1>3. f \in Surjection(Msgs, A)
  BY DEF Surjection
<1>4. g \in Surjection(Workers, B)
  BY DEF Surjection
<1> HIDE DEF f, g, A, B
<1>5. IsFiniteSet(A) /\ Cardinality(A) <= Cardinality(Msgs)
  BY <1>1, <1>3, FS_Surjection
<1>6. IsFiniteSet(B) /\ Cardinality(B) <= Cardinality(Workers)
  BY <1>1, <1>4, FS_Surjection
<1>7. IsFiniteSet(A \cup B) /\ IsFiniteSet(A \cap B)
      /\ Cardinality(A \cup B) = Cardinality(A) + Cardinality(B) - Cardinality(A \cap B)
  <2>1. IsFiniteSet(A \cap B)
    BY <1>5, FS_Subset
  <2> QED
    BY <1>5, <1>6, <2>1, FS_Union
<1>8. Cardinality(A) \in Nat /\ Cardinality(B) \in Nat /\ Cardinality(A \cap B) \in Nat /\ Cardinality(A \cup B) \in Nat
  BY <1>5, <1>6, <1>7, FS_CardinalityType
<1>9. Cardinality(A \cup B) <= Cardinality(Workers) + Cardinality(Msgs)
  BY <1>2, <1>5, <1>6, <1>7, <1>8
<1>10. Cardinality(Tokens) = Cardinality(Workers) + Cardinality(Msgs) + 1
  BY <1>2, FS_Interval DEF Tokens
<1>11. ~(Tokens \subseteq A \cup B)
  <2> SUFFICES ASSUME Tokens \subseteq A \cup B PROVE FALSE
    OBVIOUS
  <2>1. Cardinality(Tokens) <= Cardinality(A \cup B)
    BY <1>7, FS_Subset
  <2> QED
    BY <1>2, <1>8, <1>9, <1>10, <2>1
<1>12. \E i \in Tokens : (\A m \in Msgs : msg[m].token # i) /\ (\A w \in Workers : worker[w].token # i)
  BY <1>11 DEF A, B
<1>13. NewToken \in Tokens /\ (\A m \in Msgs : msg[m].token # NewToken) /\ (\A w \in Workers : worker[w].token # NewToken)
  BY <1>12 DEF NewToken
<1> QED
  BY <1>2, <1>13 DEF Tokens

LEMMA Attempts ==
  /\ Cap \in Nat /\ Cap >= 1
  /\ \A n \in 0 .. Cap : NextAttempt(n) \in 0 .. Cap /\ NextAttempt(n) > 0
  BY OutboxAssumption DEF Cap, NextAttempt

LEMMA CleanTyped == Clean \in Message /\ Clean.token = 0 /\ Clean.attempts = 0 /\ Clean.lease = "none"
  BY Attempts DEF Clean, Message

LEMMA InitInv == Init => IInv
<1> SUFFICES ASSUME Init PROVE IInv
  OBVIOUS
<1>1. \A m \in Msgs : msg[m] = Clean
  BY DEF Init
<1>2. \A t \in Txs : tx[t] = NoTx /\ tx[t].pc = "none" /\ tx[t].held = {}
  BY DEF Init, NoTx
<1>3. \A w \in Workers : worker[w] = Resting /\ worker[w].pc = "idle"
  BY DEF Init, Resting
<1>4. TypeOK
  <2>1. NoTx \in Transaction /\ Resting \in Attempt
    BY DEF NoTx, Transaction, Resting, Attempt
  <2> QED
    BY <1>1, <2>1, CleanTyped, TypeParts DEF Init
<1>5. LockInv
  BY <1>2 DEF LockInv
<1>6. RowsInv /\ OrderInv
  BY <1>2 DEF RowsInv, OrderInv, OrderKept, Init
<1>7. ReceiptInv
  BY <1>1, <1>3, CleanTyped DEF ReceiptInv
<1> QED
  BY <1>4, <1>5, <1>6, <1>7 DEF IInv

-----------------------------------------------------------------------------
(* Application transactions.                                                *)

LEMMA BeginInv == ASSUME IInv, NEW t \in Txs, Begin(t) PROVE IInv'
<1>1. tx \in [Txs -> Transaction] /\ tx[t].held = {}
  BY TypeParts DEF IInv, LockInv, Begin
<1>2. /\ tx' \in [Txs -> Transaction] /\ tx'[t].pc = "locking" /\ tx'[t].held = {}
      /\ \A u \in Txs \ {t} : tx'[u] = tx[u]
  BY <1>1 DEF Begin, Transaction
<1>3. UNCHANGED <<table, before, committed, msg, worker, delivered>> /\ tx[t].pc = "none" /\ Elems(Batch[t]) \cap table = {}
  BY DEF Begin
<1>4. TypeOK'
  BY <1>2, <1>3 DEF IInv, TypeOK, Transaction
<1>5. LockInv'
  BY <1>1, <1>2 DEF IInv, LockInv
<1>6. RowsInv'
  <2>1. \A u \in Txs : tx'[u].pc = "inserted" <=> tx[u].pc = "inserted"
    BY <1>2, <1>3
  <2>2. \A u \in Txs : tx'[u].pc = "locking" => Elems(Batch[u]) \cap table = {}
    BY <1>2, <1>3 DEF IInv, RowsInv
  <2> QED
    BY <1>3, <2>1, <2>2 DEF IInv, RowsInv
<1>7. OrderInv' /\ ReceiptInv'
  BY <1>3 DEF IInv, OrderInv, OrderKept, Before, ReceiptInv
<1> QED
  BY <1>4, <1>5, <1>6, <1>7 DEF IInv

LEMMA LockStepInv == ASSUME IInv, NEW t \in Txs, Lock(t) PROVE IInv'
<1>1. tx \in [Txs -> Transaction] /\ tx[t].held \subseteq BatchKeys(t) /\ tx[t].pc = "locking"
  BY TypeParts DEF IInv, LockInv, Lock, Waiting
<1>2. BatchKeys(t) \ tx[t].held # {}
  BY <1>1 DEF Lock, Waiting
<1>3. PICK k \in BatchKeys(t) \ tx[t].held : k = NextLock(t) /\ \A j \in BatchKeys(t) \ tx[t].held : k <= j
  BY <1>2, NextLockIsLeast
<1>4. k \in Locks
  BY <1>3, BatchFacts
<1>5. /\ tx' \in [Txs -> Transaction] /\ tx'[t].pc = "locking" /\ tx'[t].held = tx[t].held \cup {k}
      /\ \A u \in Txs \ {t} : tx'[u] = tx[u]
  BY <1>1, <1>3, <1>4 DEF Lock, Transaction
<1>6. UNCHANGED <<table, before, committed, msg, worker, delivered>> /\ \A u \in Txs : k \notin tx[u].held
  BY <1>3 DEF Lock
<1>7. TypeOK'
  BY <1>5, <1>6 DEF IInv, TypeOK, Transaction
<1>8. LockInv'
  <2>1. \A u, v \in Txs : u # v => tx'[u].held \cap tx'[v].held = {}
    BY <1>5, <1>6 DEF IInv, LockInv
  <2>2. \A h \in tx'[t].held, j \in BatchKeys(t) \ tx'[t].held : h < j
    <3> SUFFICES ASSUME NEW h \in tx'[t].held, NEW j \in BatchKeys(t) \ tx'[t].held PROVE h < j
      OBVIOUS
    <3>1. j \in Nat /\ k \in Nat /\ j # k /\ k <= j
      BY <1>3, <1>4, <1>5, BatchFacts, OutboxAssumption
    <3>2. CASE h = k
      BY <3>1, <3>2
    <3>3. CASE h \in tx[t].held
      BY <1>5, <3>3 DEF IInv, LockInv
    <3> QED
      BY <1>5, <3>2, <3>3
  <2>3. tx'[t].held \subseteq BatchKeys(t)
    BY <1>1, <1>5
  <2>4. \A u \in Txs \ {t} : /\ tx'[u].held \subseteq BatchKeys(u)
                             /\ tx'[u].pc = "none" => tx'[u].held = {}
                             /\ tx'[u].pc = "inserted" => tx'[u].held = BatchKeys(u)
                             /\ \A h \in tx'[u].held, j \in BatchKeys(u) \ tx'[u].held : h < j
    BY <1>5 DEF IInv, LockInv
  <2>5. BatchKeys(t)' = BatchKeys(t)
    BY DEF BatchKeys
  <2> QED
    BY <1>5, <2>1, <2>2, <2>3, <2>4 DEF LockInv
<1>9. RowsInv'
  <2>1. \A u \in Txs : tx'[u].pc = tx[u].pc
    BY <1>1, <1>5
  <2> QED
    BY <1>6, <2>1 DEF IInv, RowsInv
<1>10. OrderInv' /\ ReceiptInv'
  BY <1>6 DEF IInv, OrderInv, OrderKept, Before, ReceiptInv
<1> QED
  BY <1>7, <1>8, <1>9, <1>10 DEF IInv

LEMMA InsertInv == ASSUME IInv, NEW t \in Txs, Insert(t) PROVE IInv'
<1> DEFINE B == Elems(Batch[t])
<1>1. B \subseteq Msgs /\ B \cap table = {} /\ tx[t].pc = "locking"
  BY BatchFacts DEF IInv, RowsInv, Insert
<1>2. UNCHANGED <<committed, worker>> /\ table' = table \cup B /\ delivered' = delivered \ B
  BY DEF Insert, AppendRows
<1>3. tx \in [Txs -> Transaction] /\ msg \in [Msgs -> Message] /\ table \subseteq Msgs /\ committed \subseteq table
      /\ before \subseteq table \X table
  BY TypeParts DEF IInv
<1>4. /\ tx' \in [Txs -> Transaction] /\ tx'[t].pc = "inserted" /\ tx'[t].held = tx[t].held
      /\ \A u \in Txs \ {t} : tx'[u] = tx[u]
  BY <1>3 DEF Insert, Transaction
<1>5. msg' = [m \in Msgs |-> IF m \in B THEN Clean ELSE msg[m]]
  BY DEF Insert
<1>6. before' \subseteq table' \X table'
  <2>1. before' = before \cup (table \X B) \cup
          {p \in Msgs \X Msgs : \E i, j \in DOMAIN Batch[t] : i < j /\ p = <<Batch[t][i], Batch[t][j]>>}
    BY DEF Insert, AppendRows
  <2>2. \A i, j \in DOMAIN Batch[t] : <<Batch[t][i], Batch[t][j]>> \in B \X B
    BY DEF Elems
  <2> QED
    BY <1>2, <1>3, <2>1, <2>2
<1>7. \A e \in table, m \in table : <<e, m>> \in before' => <<e, m>> \in before
  BY <1>1 DEF Insert, AppendRows, Elems
<1>8. \A e \in B, m \in table : <<e, m>> \notin before'
  BY <1>1, <1>3 DEF Insert, AppendRows, Elems
<1> HIDE DEF B
<1>9. msg' \in [Msgs -> Message] /\ (\A m \in B : msg'[m] = Clean) /\ (\A m \in Msgs \ B : msg'[m] = msg[m])
  BY <1>1, <1>3, <1>5, CleanTyped
<1>10. TypeOK'
  <2>1. \A m \in Msgs : msg'[m].lease = "none" <=> msg'[m].token = 0
    BY <1>9, CleanTyped DEF IInv, TypeOK
  <2>2. /\ table' \subseteq Msgs /\ committed' \subseteq table' /\ delivered' \subseteq Msgs
        /\ worker' \in [Workers -> Attempt]
    BY <1>1, <1>2, <1>3, TypeParts DEF IInv
  <2> QED
    BY <1>4, <1>6, <1>9, <2>1, <2>2 DEF TypeOK, Message, Transaction, Attempt
<1>11. LockInv'
  <2>1. tx[t].held = BatchKeys(t)
    BY DEF Insert
  <2>2. \A u \in Txs : tx'[u].held = tx[u].held
    BY <1>4
  <2> QED
    BY <1>1, <1>4, <2>1, <2>2 DEF IInv, LockInv
<1>12. RowsInv'
  <2>1. \A u \in Txs : tx'[u].pc = "locking" => Elems(Batch[u]) \cap table' = {}
    BY <1>2, <1>4, OwnMessages DEF IInv, RowsInv, B
  <2>2. \A u \in Txs : tx'[u].pc = "inserted" => Elems(Batch[u]) \subseteq table' \ committed'
    <3> SUFFICES ASSUME NEW u \in Txs, tx'[u].pc = "inserted" PROVE Elems(Batch[u]) \subseteq table' \ committed'
      OBVIOUS
    <3>1. CASE u = t
      BY <1>1, <1>2, <1>3, <3>1 DEF B
    <3>2. CASE u # t
      BY <1>2, <1>4, <3>2 DEF IInv, RowsInv
    <3> QED
      BY <3>1, <3>2
  <2>3. \A e \in table' \ committed' : /\ msg'[e].attempts = 0
                                       /\ \E u \in Txs : tx'[u].pc = "inserted" /\ e \in Elems(Batch[u])
    <3> SUFFICES ASSUME NEW e \in table' \ committed'
                 PROVE  msg'[e].attempts = 0 /\ \E u \in Txs : tx'[u].pc = "inserted" /\ e \in Elems(Batch[u])
      OBVIOUS
    <3>1. CASE e \in B
      BY <1>4, <1>9, <3>1, CleanTyped DEF B
    <3>2. CASE e \notin B
      <4>1. e \in table \ committed /\ msg'[e] = msg[e]
        BY <1>2, <1>3, <1>9, <3>2
      <4>2. PICK u \in Txs : tx[u].pc = "inserted" /\ e \in Elems(Batch[u])
        BY <4>1 DEF IInv, RowsInv
      <4>3. tx'[u].pc = "inserted"
        BY <1>1, <1>4, <4>2
      <4> QED
        BY <4>1, <4>2, <4>3 DEF IInv, RowsInv
    <3> QED
      BY <3>1, <3>2
  <2> QED
    BY <2>1, <2>2, <2>3 DEF RowsInv
<1>13. OrderInv'
  <2>1. \A e, m \in table' : e # m => <<e, m>> \in before' \/ <<m, e>> \in before'
    <3> SUFFICES ASSUME NEW e \in table', NEW m \in table', e # m PROVE <<e, m>> \in before' \/ <<m, e>> \in before'
      OBVIOUS
    <3>1. before \subseteq before' /\ table \X B \subseteq before'
      BY DEF Insert, AppendRows, B
    <3>2. CASE e \in table /\ m \in table
      BY <3>1, <3>2 DEF IInv, OrderInv, Before
    <3>3. CASE (e \in table /\ m \in B) \/ (m \in table /\ e \in B)
      BY <3>1, <3>3
    <3>4. CASE e \in B /\ m \in B
      <4>1. PICK i \in DOMAIN Batch[t], j \in DOMAIN Batch[t] : e = Batch[t][i] /\ m = Batch[t][j]
        BY <3>4 DEF B, Elems
      <4>2. Batch[t] \in Seq(Msgs) /\ DOMAIN Batch[t] \subseteq Nat
        BY OutboxAssumption
      <4>3. i < j \/ j < i
        BY <4>1, <4>2
      <4>4. \A a, b \in DOMAIN Batch[t] : a < b => <<Batch[t][a], Batch[t][b]>> \in before'
        <5> SUFFICES ASSUME NEW a \in DOMAIN Batch[t], NEW b \in DOMAIN Batch[t], a < b
                     PROVE  <<Batch[t][a], Batch[t][b]>> \in before'
          OBVIOUS
        <5>1. Batch[t][a] \in Msgs /\ Batch[t][b] \in Msgs
          BY <1>1 DEF B, Elems
        <5>2. <<Batch[t][a], Batch[t][b]>> \in
                {p \in Msgs \X Msgs : \E k, l \in DOMAIN Batch[t] : k < l /\ p = <<Batch[t][k], Batch[t][l]>>}
          BY <5>1
        <5> QED
          BY <5>2 DEF Insert, AppendRows
      <4> QED
        BY <4>1, <4>3, <4>4
    <3>5. (e \in table \/ e \in B) /\ (m \in table \/ m \in B)
      BY <1>2
    <3> QED
      BY <3>2, <3>3, <3>4, <3>5
  <2>2. \A e \in table' \ committed', m \in committed' : <<e, m>> \in before' => KeyOf[e] # KeyOf[m]
    <3> SUFFICES ASSUME NEW e \in table' \ committed', NEW m \in committed', <<e, m>> \in before' PROVE KeyOf[e] # KeyOf[m]
      OBVIOUS
    <3>1. m \in table /\ e \in table \ committed
      BY <1>2, <1>3, <1>8
    <3> QED
      BY <1>2, <1>7, <3>1 DEF IInv, OrderInv, Before
  <2>3. OrderKept'
    <3> SUFFICES ASSUME NEW e \in table', NEW m \in table', KeyOf[e] = KeyOf[m], <<e, m>> \in before' PROVE msg'[m].attempts = 0
      BY DEF OrderKept, Before
    <3>1. CASE m \in B
      BY <1>9, <3>1, CleanTyped
    <3>2. CASE m \notin B
      <4>1. m \in table /\ e \in table /\ msg'[m] = msg[m]
        BY <1>2, <1>3, <1>8, <1>9, <3>2
      <4> QED
        BY <1>7, <4>1 DEF IInv, OrderInv, OrderKept, Before
    <3> QED
      BY <3>1, <3>2
  <2> QED
    BY <2>1, <2>2, <2>3 DEF OrderInv, Before
<1>14. ReceiptInv'
  <2>1. \A m \in Msgs : msg'[m].token # 0 => msg'[m].attempts > 0
    BY <1>9, CleanTyped DEF IInv, ReceiptInv
  <2>2. \A w \in Workers : worker[w].pc = "acknowledge" /\ msg'[worker[w].msg].token = worker[w].token
                             => worker[w].msg \in delivered'
    <3> SUFFICES ASSUME NEW w \in Workers, worker[w].pc = "acknowledge", msg'[worker[w].msg].token = worker[w].token
                 PROVE  worker[w].msg \in delivered'
      OBVIOUS
    <3>1. worker[w].msg \in Msgs /\ worker[w].token # 0
      BY DEF IInv, ReceiptInv
    <3>2. worker[w].msg \notin B
      BY <1>9, <3>1, CleanTyped
    <3> QED
      BY <1>2, <1>9, <3>1, <3>2 DEF IInv, ReceiptInv
  <2> QED
    BY <1>2, <2>1, <2>2 DEF IInv, ReceiptInv
<1> QED
  BY <1>10, <1>11, <1>12, <1>13, <1>14 DEF IInv

\* The locks of a transaction that ends are free.
LEMMA TxEnds ==
  ASSUME IInv, NEW t \in Txs, tx' = [tx EXCEPT ![t] = NoTx]
  PROVE  /\ tx' \in [Txs -> Transaction] /\ tx'[t].pc = "none" /\ tx'[t].held = {}
         /\ \A u \in Txs \ {t} : tx'[u] = tx[u]
         /\ LockInv'
<1>1. tx \in [Txs -> Transaction]
  BY TypeParts DEF IInv
<1>2. /\ tx' \in [Txs -> Transaction] /\ tx'[t].pc = "none" /\ tx'[t].held = {}
      /\ \A u \in Txs \ {t} : tx'[u] = tx[u]
  BY <1>1 DEF NoTx, Transaction
<1>3. LockInv'
  BY <1>2 DEF IInv, LockInv
<1> QED
  BY <1>2, <1>3

LEMMA CommitInv == ASSUME IInv, NEW t \in Txs, Commit(t) PROVE IInv'
<1>1. UNCHANGED <<table, before, msg, worker, delivered>> /\ committed' = committed \cup Elems(Batch[t])
      /\ tx[t].pc = "inserted" /\ Elems(Batch[t]) \subseteq table \ committed
  BY DEF Commit, IInv, RowsInv
<1>2. /\ tx' \in [Txs -> Transaction] /\ tx'[t].pc = "none" /\ tx'[t].held = {}
      /\ \A u \in Txs \ {t} : tx'[u] = tx[u]
      /\ LockInv'
  BY TxEnds DEF Commit
<1>3. TypeOK'
  BY <1>1, <1>2 DEF IInv, TypeOK, Transaction
<1>4. RowsInv'
  <2>1. \A u \in Txs : tx'[u].pc = "locking" => Elems(Batch[u]) \cap table = {}
    BY <1>2 DEF IInv, RowsInv
  <2>2. \A u \in Txs : tx'[u].pc = "inserted" => Elems(Batch[u]) \subseteq table \ committed'
    BY <1>1, <1>2, OwnMessages DEF IInv, RowsInv
  <2>3. ASSUME NEW e \in table \ committed'
        PROVE  msg[e].attempts = 0 /\ \E u \in Txs : tx'[u].pc = "inserted" /\ e \in Elems(Batch[u])
    <3>1. e \in table \ committed /\ e \notin Elems(Batch[t])
      BY <1>1
    <3>2. PICK u \in Txs : tx[u].pc = "inserted" /\ e \in Elems(Batch[u])
      BY <3>1 DEF IInv, RowsInv
    <3>3. u # t
      BY <3>1, <3>2
    <3> QED
      BY <1>2, <3>1, <3>2, <3>3 DEF IInv, RowsInv
  <2> QED
    BY <1>1, <2>1, <2>2, <2>3 DEF RowsInv
<1>5. OrderInv'
  <2>1. ASSUME NEW e \in table \ committed', NEW m \in committed', <<e, m>> \in before PROVE KeyOf[e] # KeyOf[m]
    <3>1. e \in table \ committed /\ e \notin Elems(Batch[t])
      BY <1>1
    <3>2. CASE m \in committed
      BY <2>1, <3>1, <3>2 DEF IInv, OrderInv, Before
    <3>3. CASE m \in Elems(Batch[t])
      <4>1. PICK u \in Txs : tx[u].pc = "inserted" /\ e \in Elems(Batch[u])
        BY <3>1 DEF IInv, RowsInv
      <4>2. u # t
        BY <3>1, <4>1
      <4>3. KeyOf[e] \in tx[u].held /\ KeyOf[m] \in tx[t].held
        BY <1>1, <3>3, <4>1, BatchFacts DEF IInv, LockInv
      <4> QED
        BY <4>2, <4>3 DEF IInv, LockInv
    <3> QED
      BY <1>1, <3>2, <3>3
  <2>2. OrderKept'
    BY <1>1 DEF IInv, OrderInv, OrderKept, Before
  <2> QED
    BY <1>1, <2>1, <2>2 DEF IInv, OrderInv, Before
<1>6. ReceiptInv'
  BY <1>1 DEF IInv, ReceiptInv
<1> QED
  BY <1>2, <1>3, <1>4, <1>5, <1>6 DEF IInv

LEMMA RollbackInv == ASSUME IInv, NEW t \in Txs, Rollback(t) PROVE IInv'
<1>1. UNCHANGED <<committed, msg, worker, delivered>> /\ tx[t].pc # "none"
  BY DEF Rollback
<1>2. /\ tx' \in [Txs -> Transaction] /\ tx'[t].pc = "none" /\ tx'[t].held = {}
      /\ \A u \in Txs \ {t} : tx'[u] = tx[u]
      /\ LockInv'
  BY TxEnds DEF Rollback
<1>3. PICK S : /\ S = IF tx[t].pc = "inserted" THEN Elems(Batch[t]) ELSE {}
               /\ table' = table \ S /\ before' = before \cap (table' \X table')
  BY DEF Rollback, Without
<1>4. S \cap committed = {} /\ S \subseteq Elems(Batch[t]) /\ committed \subseteq table /\ table \subseteq Msgs
  BY <1>3, TypeParts DEF IInv, RowsInv
<1>5. TypeOK'
  <2>1. committed' \subseteq table' /\ table' \subseteq Msgs /\ before' \subseteq table' \X table'
    BY <1>1, <1>3, <1>4
  <2> QED
    BY <1>1, <1>2, <2>1 DEF IInv, TypeOK, Transaction
<1>6. RowsInv'
  <2>1. \A u \in Txs : tx'[u].pc = "locking" => Elems(Batch[u]) \cap table' = {}
    BY <1>2, <1>3 DEF IInv, RowsInv
  <2>2. \A u \in Txs : tx'[u].pc = "inserted" => Elems(Batch[u]) \subseteq table' \ committed'
    BY <1>1, <1>2, <1>3, <1>4, OwnMessages DEF IInv, RowsInv
  <2>3. ASSUME NEW e \in table' \ committed'
        PROVE  msg'[e].attempts = 0 /\ \E u \in Txs : tx'[u].pc = "inserted" /\ e \in Elems(Batch[u])
    <3>1. e \in table \ committed /\ e \notin S
      BY <1>1, <1>3
    <3>2. PICK u \in Txs : tx[u].pc = "inserted" /\ e \in Elems(Batch[u])
      BY <3>1 DEF IInv, RowsInv
    <3>3. u # t
      BY <1>3, <3>1, <3>2
    <3> QED
      BY <1>1, <1>2, <3>1, <3>2, <3>3 DEF IInv, RowsInv
  <2> QED
    BY <2>1, <2>2, <2>3 DEF RowsInv
<1>7. OrderInv'
  <2>1. \A e, m \in table' : e \in table /\ m \in table /\ (<<e, m>> \in before' <=> <<e, m>> \in before)
    BY <1>3
  <2>2. committed' = committed /\ committed' \subseteq table'
    BY <1>1, <1>3, <1>4
  <2> QED
    BY <1>1, <2>1, <2>2 DEF IInv, OrderInv, OrderKept, Before
<1>8. ReceiptInv'
  BY <1>1 DEF IInv, ReceiptInv
<1> QED
  BY <1>2, <1>5, <1>6, <1>7, <1>8 DEF IInv

-----------------------------------------------------------------------------
(* Delivery.                                                                *)

\* A step that leaves the rows and their attempts alone.
LEMMA RowsKept ==
  ASSUME IInv, UNCHANGED <<table, before, committed, tx>>,
         \A m \in Msgs : msg'[m].attempts = msg[m].attempts
  PROVE  LockInv' /\ RowsInv' /\ OrderInv'
<1>1. table \subseteq Msgs /\ committed \subseteq table
  BY TypeParts DEF IInv
<1>2. LockInv'
  BY DEF IInv, LockInv
<1>3. RowsInv'
  BY <1>1 DEF IInv, RowsInv
<1>4. OrderInv'
  BY <1>1 DEF IInv, OrderInv, OrderKept, Before
<1> QED
  BY <1>2, <1>3, <1>4

\* A step of worker w that leaves the messages alone.
LEMMA WorkerKept ==
  ASSUME IInv, NEW w \in Workers, worker' \in [Workers -> Attempt], UNCHANGED <<table, before, committed, tx, msg>>,
         delivered \subseteq delivered', delivered' \subseteq Msgs,
         \A v \in Workers \ {w} : worker'[v] = worker[v],
         worker'[w].pc # "idle" => /\ worker[w].pc # "idle"
                                   /\ worker'[w].token = worker[w].token /\ worker'[w].msg = worker[w].msg,
         worker'[w].pc = "acknowledge" => worker[w].pc = "acknowledge" \/ worker'[w].msg \in delivered'
  PROVE  IInv'
<1>1. TypeOK'
  BY TypeParts DEF IInv, TypeOK, Attempt
<1>2. LockInv' /\ RowsInv' /\ OrderInv'
  BY RowsKept
<1>3. ReceiptInv'
  <2>1. \A v \in Workers : worker'[v].pc # "idle" => /\ worker[v].pc # "idle"
                                                     /\ worker'[v].token = worker[v].token /\ worker'[v].msg = worker[v].msg
    OBVIOUS
  <2>2. \A v \in Workers : worker'[v].pc # "idle" => worker'[v].token # 0 /\ worker'[v].msg \in Msgs
    BY <2>1 DEF IInv, ReceiptInv
  <2>3. \A u, v \in Workers : u # v /\ worker'[u].pc # "idle" /\ worker'[v].pc # "idle" => worker'[u].token # worker'[v].token
    BY <2>1 DEF IInv, ReceiptInv
  <2>4. ASSUME NEW v \in Workers, worker'[v].pc = "acknowledge", msg[worker'[v].msg].token = worker'[v].token
        PROVE  worker'[v].msg \in delivered'
    <3>1. worker'[v].pc # "idle"
      BY <2>4
    <3>2. CASE worker[v].pc = "acknowledge"
      BY <2>1, <2>4, <3>1, <3>2 DEF IInv, ReceiptInv
    <3>3. CASE worker[v].pc # "acknowledge"
      BY <2>4, <3>3
    <3> QED
      BY <3>2, <3>3
  <2> QED
    BY <2>2, <2>3, <2>4 DEF IInv, ReceiptInv
<1> QED
  BY <1>1, <1>2, <1>3 DEF IInv

LEMMA RestingFacts == Resting \in Attempt /\ Resting.pc = "idle"
  BY DEF Resting, Attempt

LEMMA HandlerSucceedsInv == ASSUME IInv, NEW w \in Workers, HandlerSucceeds(w) PROVE IInv'
<1>1. worker \in [Workers -> Attempt] /\ worker[w].msg \in Msgs /\ delivered \subseteq Msgs
  BY TypeParts DEF IInv, ReceiptInv, HandlerSucceeds
<1>2. /\ worker' \in [Workers -> Attempt] /\ worker'[w].pc = "acknowledge" /\ worker'[w].msg = worker[w].msg
      /\ worker'[w].token = worker[w].token /\ \A v \in Workers \ {w} : worker'[v] = worker[v]
  BY <1>1 DEF HandlerSucceeds, Attempt
<1>3. UNCHANGED <<table, before, committed, tx, msg>> /\ delivered' = delivered \cup {worker[w].msg} /\ worker[w].pc # "idle"
  BY DEF HandlerSucceeds
<1> QED
  BY <1>1, <1>2, <1>3, WorkerKept

LEMMA HandlerFailsInv == ASSUME IInv, NEW w \in Workers, HandlerFails(w) PROVE IInv'
<1>1. worker \in [Workers -> Attempt] /\ delivered \subseteq Msgs
  BY TypeParts DEF IInv
<1>2. /\ worker' \in [Workers -> Attempt] /\ worker'[w].pc = "retry" /\ worker'[w].msg = worker[w].msg
      /\ worker'[w].token = worker[w].token /\ \A v \in Workers \ {w} : worker'[v] = worker[v]
  BY <1>1 DEF HandlerFails, Attempt
<1>3. UNCHANGED <<table, before, committed, tx, msg, delivered>> /\ worker[w].pc # "idle"
  BY DEF HandlerFails
<1> QED
  BY <1>1, <1>2, <1>3, WorkerKept

LEMMA DropInv == ASSUME IInv, NEW w \in Workers, Drop(w) PROVE IInv'
<1>1. worker \in [Workers -> Attempt] /\ delivered \subseteq Msgs
  BY TypeParts DEF IInv
<1>2. worker' \in [Workers -> Attempt] /\ worker'[w].pc = "idle" /\ \A v \in Workers \ {w} : worker'[v] = worker[v]
  BY <1>1, RestingFacts DEF Drop
<1>3. UNCHANGED <<table, before, committed, tx, msg, delivered>>
  BY DEF Drop
<1> QED
  BY <1>1, <1>2, <1>3, WorkerKept

\* A step that changes one message and neither its attempts nor gives it a new token.
Touched(m) ==
  /\ msg' \in [Msgs -> Message]
  /\ \A e \in Msgs \ {m} : msg'[e] = msg[e]
  /\ msg'[m].attempts = msg[m].attempts /\ msg'[m].token \in {0, msg[m].token}
  /\ msg'[m].lease = "none" <=> msg'[m].token = 0

LEMMA TouchKept ==
  ASSUME IInv, NEW m \in Msgs, Touched(m), UNCHANGED <<table, before, committed, tx, delivered>>,
         worker' \in [Workers -> Attempt],
         \A w \in Workers : worker'[w].pc = "idle"
                              \/ (worker'[w].pc = worker[w].pc /\ worker'[w].token = worker[w].token
                                   /\ worker'[w].msg = worker[w].msg)
  PROVE  IInv'
<1>1. TypeOK'
  <2>1. \A e \in Msgs : msg'[e].lease = "none" <=> msg'[e].token = 0
    BY DEF Touched, IInv, TypeOK
  <2> QED
    BY <2>1, TypeParts DEF IInv, TypeOK, Touched, Message, Attempt
<1>2. LockInv' /\ RowsInv' /\ OrderInv'
  BY RowsKept DEF Touched
<1>3. ReceiptInv'
  <2>1. \A e \in Msgs : msg'[e].token \in {0, msg[e].token} /\ msg'[e].attempts = msg[e].attempts
    BY DEF Touched
  <2>2. \A e \in Msgs : msg'[e].token # 0 => msg'[e].attempts > 0
    BY <2>1 DEF IInv, ReceiptInv
  <2>3. \A w \in Workers : worker'[w].pc # "idle" =>
          worker'[w].pc = worker[w].pc /\ worker'[w].token = worker[w].token /\ worker'[w].msg = worker[w].msg
    OBVIOUS
  <2>4. \A w \in Workers : worker'[w].pc # "idle" => worker'[w].token # 0 /\ worker'[w].msg \in Msgs
    BY <2>3 DEF IInv, ReceiptInv
  <2>5. \A v, w \in Workers : v # w /\ worker'[v].pc # "idle" /\ worker'[w].pc # "idle" => worker'[v].token # worker'[w].token
    BY <2>3 DEF IInv, ReceiptInv
  <2>6. ASSUME NEW w \in Workers, worker'[w].pc = "acknowledge", msg'[worker'[w].msg].token = worker'[w].token
        PROVE  worker'[w].msg \in delivered'
    <3>1. worker'[w].msg \in Msgs /\ worker'[w].token # 0
      BY <2>4, <2>6
    <3>2. msg[worker'[w].msg].token = worker'[w].token
      BY <2>1, <2>6, <3>1
    <3>3. worker[w].pc = "acknowledge" /\ worker'[w].token = worker[w].token /\ worker'[w].msg = worker[w].msg
      BY <2>3, <2>6
    <3> QED
      BY <3>2, <3>3 DEF IInv, ReceiptInv
  <2> QED
    BY <2>2, <2>4, <2>5, <2>6 DEF ReceiptInv
<1> QED
  BY <1>1, <1>2, <1>3 DEF IInv

LEMMA RetryInv == ASSUME IInv, NEW w \in Workers, Retry(w) PROVE IInv'
<1>1. worker \in [Workers -> Attempt] /\ worker[w].msg \in Msgs /\ msg \in [Msgs -> Message]
      /\ \A e \in Msgs : msg[e].lease = "none" <=> msg[e].token = 0
  BY TypeParts DEF IInv, ReceiptInv, Retry
<1>2. worker' \in [Workers -> Attempt] /\ worker'[w].pc = "idle" /\ \A v \in Workers \ {w} : worker'[v] = worker[v]
  BY <1>1, RestingFacts DEF Retry
<1>3. PICK m \in Msgs : m = worker[w].msg
  BY <1>1
<1>4. Touched(m)
  <2>1. CASE Owns(w)
    <3>1. msg' = [msg EXCEPT ![m] = [msg[m] EXCEPT !.avail = "later", !.lease = "none", !.token = 0, !.failed = TRUE]]
      BY <1>1, <1>3, <2>1 DEF Retry
    <3>2. PICK r : r = [msg[m] EXCEPT !.avail = "later", !.lease = "none", !.token = 0, !.failed = TRUE]
      OBVIOUS
    <3>3. r \in Message /\ r.attempts = msg[m].attempts /\ r.token = 0 /\ r.lease = "none"
      BY <1>1, <3>2 DEF Message
    <3> QED
      BY <1>1, <3>1, <3>2, <3>3 DEF Touched
  <2>2. CASE ~Owns(w)
    BY <1>1, <2>2 DEF Retry, Touched
  <2> QED
    BY <2>1, <2>2
<1>5. UNCHANGED <<table, before, committed, tx, delivered>>
  BY DEF Retry
<1> QED
  BY <1>2, <1>4, <1>5, TouchKept

LEMMA OverrunInv == ASSUME IInv, NEW w \in Workers, Overrun(w) PROVE IInv'
<1>1. worker \in [Workers -> Attempt] /\ worker[w].msg \in Msgs /\ msg \in [Msgs -> Message]
      /\ (\A e \in Msgs : msg[e].lease = "none" <=> msg[e].token = 0) /\ worker[w].token # 0
  BY TypeParts DEF IInv, ReceiptInv, Overrun
<1>2. /\ worker' \in [Workers -> Attempt] /\ worker'[w].pc = worker[w].pc /\ worker'[w].msg = worker[w].msg
      /\ worker'[w].token = worker[w].token /\ \A v \in Workers \ {w} : worker'[v] = worker[v]
  BY <1>1 DEF Overrun, Attempt
<1>3. PICK m \in Msgs : m = worker[w].msg
  BY <1>1
<1>4. Touched(m)
  <2>1. CASE Owns(w)
    <3>1. msg' = [msg EXCEPT ![m] = [msg[m] EXCEPT !.lease = "expired"]] /\ msg[m].token # 0
      BY <1>1, <1>3, <2>1 DEF Overrun, Owns
    <3>2. PICK r : r = [msg[m] EXCEPT !.lease = "expired"]
      OBVIOUS
    <3>3. r \in Message /\ r.attempts = msg[m].attempts /\ r.token = msg[m].token /\ r.lease = "expired"
      BY <1>1, <3>2 DEF Message
    <3> QED
      BY <1>1, <3>1, <3>2, <3>3 DEF Touched
  <2>2. CASE ~Owns(w)
    BY <1>1, <2>2 DEF Overrun, Touched
  <2> QED
    BY <2>1, <2>2
<1>5. UNCHANGED <<table, before, committed, tx, delivered>>
  BY DEF Overrun
<1> QED
  BY <1>2, <1>4, <1>5, TouchKept

\* Time passes: a lease or a delay runs out.
LEMMA ClockInv == ASSUME IInv, NEW m \in Msgs, Expire(m) \/ Due(m) \/ Age(m) PROVE IInv'
<1>1. worker \in [Workers -> Attempt] /\ msg \in [Msgs -> Message]
      /\ \A e \in Msgs : msg[e].lease = "none" <=> msg[e].token = 0
  BY TypeParts DEF IInv
<1>2. UNCHANGED <<table, before, committed, tx, delivered, worker>>
  BY DEF Expire, Due, Age
<1>3. Touched(m)
  <2>1. CASE Expire(m)
    <3>1. msg' = [msg EXCEPT ![m] = [msg[m] EXCEPT !.lease = "expired"]] /\ msg[m].token # 0
      BY <1>1, <2>1 DEF Expire
    <3>2. PICK r : r = [msg[m] EXCEPT !.lease = "expired"]
      OBVIOUS
    <3>3. r \in Message /\ r.attempts = msg[m].attempts /\ r.token = msg[m].token /\ r.lease = "expired"
      BY <1>1, <3>2 DEF Message
    <3> QED
      BY <1>1, <3>1, <3>2, <3>3 DEF Touched
  <2>2. ASSUME NEW a \in {"due", "old"}, msg' = [msg EXCEPT ![m].avail = a] PROVE Touched(m)
    <3>1. msg' = [msg EXCEPT ![m] = [msg[m] EXCEPT !.avail = a]]
      BY <1>1, <2>2
    <3>2. PICK r : r = [msg[m] EXCEPT !.avail = a]
      OBVIOUS
    <3>3. r \in Message /\ r.attempts = msg[m].attempts /\ r.token = msg[m].token /\ r.lease = msg[m].lease
      BY <1>1, <3>2 DEF Message
    <3> QED
      BY <1>1, <3>1, <3>2, <3>3 DEF Touched
  <2> QED
    BY <2>1, <2>2 DEF Due, Age
<1> QED
  BY <1>1, <1>2, <1>3, TouchKept

\* Committed rows leave the table.
LEMMA RemoveInv ==
  ASSUME IInv, NEW S \in SUBSET committed, Remove(S), UNCHANGED <<tx, delivered>>,
         worker' \in [Workers -> Attempt],
         \A w \in Workers : worker'[w] = worker[w] \/ worker'[w].pc = "idle"
  PROVE  IInv'
<1>1. msg \in [Msgs -> Message] /\ table \subseteq Msgs /\ committed \subseteq table /\ delivered \subseteq Msgs
      /\ tx \in [Txs -> Transaction] /\ \A e \in Msgs : msg[e].lease = "none" <=> msg[e].token = 0
  BY TypeParts DEF IInv
<1>2. /\ table' = table \ S /\ before' = before \cap (table' \X table') /\ committed' = committed \ S
      /\ msg' = [m \in Msgs |-> IF m \in S THEN Clean ELSE msg[m]]
  BY DEF Remove, Without
<1>3. msg' \in [Msgs -> Message] /\ (\A m \in S : msg'[m] = Clean) /\ (\A m \in Msgs \ S : msg'[m] = msg[m])
  BY <1>1, <1>2, CleanTyped
<1>4. TypeOK'
  <2>1. \A m \in Msgs : msg'[m].lease = "none" <=> msg'[m].token = 0
    BY <1>1, <1>3, CleanTyped
  <2>2. table' \subseteq Msgs /\ committed' \subseteq table' /\ before' \subseteq table' \X table'
    BY <1>1, <1>2
  <2> QED
    BY <1>1, <1>3, <2>1, <2>2 DEF TypeOK, Message, Transaction, Attempt
<1>5. LockInv'
  BY DEF IInv, LockInv
<1>6. table' \ committed' = table \ committed /\ \A e \in table \ committed : msg'[e] = msg[e]
  BY <1>1, <1>2, <1>3
<1>7. RowsInv'
  BY <1>2, <1>6 DEF IInv, RowsInv
<1>8. OrderInv'
  <2>1. \A e, m \in table' : e \in table /\ m \in table /\ (<<e, m>> \in before' <=> <<e, m>> \in before) /\ msg'[m] = msg[m]
    BY <1>1, <1>2, <1>3
  <2>2. committed' \subseteq committed /\ committed' \subseteq table'
    BY <1>1, <1>2
  <2>3. ASSUME NEW e \in table' \ committed', NEW m \in committed', <<e, m>> \in before' PROVE KeyOf[e] # KeyOf[m]
    BY <1>6, <2>1, <2>2, <2>3 DEF IInv, OrderInv, Before
  <2>4. OrderKept'
    BY <2>1 DEF IInv, OrderInv, OrderKept, Before
  <2> QED
    BY <2>1, <2>3, <2>4 DEF IInv, OrderInv, Before
<1>9. ReceiptInv'
  <2>1. \A m \in Msgs : msg'[m].token # 0 => msg'[m] = msg[m]
    BY <1>3, CleanTyped
  <2>2. \A m \in Msgs : msg'[m].token # 0 => msg'[m].attempts > 0
    BY <2>1 DEF IInv, ReceiptInv
  <2>3. \A w \in Workers : worker'[w].pc # "idle" => worker'[w] = worker[w]
    OBVIOUS
  <2>4. ASSUME NEW w \in Workers, worker'[w].pc = "acknowledge", msg'[worker'[w].msg].token = worker'[w].token
        PROVE  worker'[w].msg \in delivered'
    <3>1. worker'[w] = worker[w] /\ worker[w].msg \in Msgs /\ worker[w].token # 0
      BY <2>3, <2>4 DEF IInv, ReceiptInv
    <3>2. msg[worker[w].msg].token = worker[w].token
      BY <2>1, <2>4, <3>1
    <3> QED
      BY <2>4, <3>1, <3>2 DEF IInv, ReceiptInv
  <2> QED
    BY <2>2, <2>3, <2>4 DEF IInv, ReceiptInv
<1> QED
  BY <1>4, <1>5, <1>7, <1>8, <1>9 DEF IInv

LEMMA AcknowledgeInv == ASSUME IInv, NEW w \in Workers, Acknowledge(w) PROVE IInv'
<1>1. worker \in [Workers -> Attempt]
  BY TypeParts DEF IInv
<1>2. worker' \in [Workers -> Attempt] /\ worker'[w].pc = "idle" /\ \A v \in Workers \ {w} : worker'[v] = worker[v]
  BY <1>1, RestingFacts DEF Acknowledge
<1>3. PICK S \in SUBSET committed : S = IF Owns(w) THEN {worker[w].msg} ELSE {}
  BY DEF Owns
<1>4. Remove(S) /\ UNCHANGED <<tx, delivered>>
  BY <1>3 DEF Acknowledge
<1> QED
  BY <1>2, <1>4, RemoveInv

LEMMA PurgeInv == ASSUME IInv, NEW m \in Msgs, Purge(m) PROVE IInv'
<1>1. worker \in [Workers -> Attempt]
  BY TypeParts DEF IInv
<1>2. {m} \in SUBSET committed /\ Remove({m}) /\ UNCHANGED <<tx, worker, delivered>>
  BY DEF Purge
<1> QED
  BY <1>1, <1>2, RemoveInv

\* What the update of Claim does to a message.
LEMMA LeasedFacts ==
  ASSUME IInv, NEW m \in Msgs, Leased(m), UNCHANGED <<table, before, committed, tx, delivered>>
  PROVE  /\ msg' \in [Msgs -> Message] /\ \A e \in Msgs : msg'[e].lease = "none" <=> msg'[e].token = 0
         /\ \A e \in Msgs \ {m} : msg'[e] = msg[e]
         /\ msg'[m].token = NewToken /\ msg'[m].attempts > 0
         /\ LockInv' /\ RowsInv' /\ OrderInv'
<1>1. msg \in [Msgs -> Message] /\ table \subseteq Msgs /\ committed \subseteq table
      /\ \A e \in Msgs : msg[e].lease = "none" <=> msg[e].token = 0
  BY TypeParts DEF IInv
<1>2. PICK tok \in Tokens : tok = NewToken /\ tok # 0
  BY TokenIsNew DEF IInv
<1>3. PICK n \in 0 .. Cap : n = NextAttempt(msg[m].attempts) /\ n > 0
  BY <1>1, Attempts DEF Message
<1>4. msg' = [msg EXCEPT ![m] = [msg[m] EXCEPT !.lease = "live", !.token = tok, !.attempts = n]]
  BY <1>1, <1>2, <1>3 DEF Leased, Message
<1>5. PICK r : r = [msg[m] EXCEPT !.lease = "live", !.token = tok, !.attempts = n]
  OBVIOUS
<1>6. r \in Message /\ r.lease = "live" /\ r.token = tok /\ r.attempts = n
  BY <1>1, <1>5 DEF Message
<1>7. msg' \in [Msgs -> Message] /\ msg'[m] = r /\ \A e \in Msgs \ {m} : msg'[e] = msg[e]
  BY <1>1, <1>4, <1>5, <1>6
<1>8. \A e \in Msgs : msg'[e].lease = "none" <=> msg'[e].token = 0
  BY <1>1, <1>2, <1>6, <1>7
<1>9. m \in committed /\ \A e \in committed : KeyOf[e] = KeyOf[m] => <<e, m>> \notin before
  BY DEF Leased, Claimable, IsHead, Before
<1>10. \A e \in table : KeyOf[e] = KeyOf[m] => <<e, m>> \notin before
  <2> SUFFICES ASSUME NEW e \in table, KeyOf[e] = KeyOf[m] PROVE <<e, m>> \notin before
    OBVIOUS
  <2>1. CASE e \in committed
    BY <1>9, <2>1
  <2>2. CASE e \notin committed
    BY <1>9, <2>2 DEF IInv, OrderInv, Before
  <2> QED
    BY <2>1, <2>2
<1>11. LockInv'
  BY DEF IInv, LockInv
<1>12. RowsInv'
  BY <1>1, <1>7, <1>9 DEF IInv, RowsInv
<1>13. OrderInv'
  <2>1. OrderKept'
    <3> SUFFICES ASSUME NEW e \in table, NEW d \in table, KeyOf[e] = KeyOf[d], <<e, d>> \in before PROVE msg'[d].attempts = 0
      BY DEF OrderKept, Before
    <3>1. d # m
      BY <1>10
    <3>2. msg[d].attempts = 0
      BY DEF IInv, OrderInv, OrderKept, Before
    <3>3. d \in Msgs \ {m}
      BY <1>1, <3>1
    <3> QED
      BY <1>7, <3>2, <3>3
  <2> QED
    BY <2>1 DEF IInv, OrderInv, Before
<1> QED
  BY <1>2, <1>3, <1>6, <1>7, <1>8, <1>11, <1>12, <1>13

LEMMA ClaimInv == ASSUME IInv, NEW w \in Workers, Claim(w) \/ ClaimUnanswered(w) PROVE IInv'
<1>1. UNCHANGED <<table, before, committed, tx, delivered>> /\ worker[w].pc = "idle"
  BY DEF Claim, ClaimUnanswered
<1>2. PICK m \in Msgs :
        /\ Leased(m)
        /\ \/ UNCHANGED worker
           \/ worker' = [worker EXCEPT ![w] = [pc |-> "handling", msg |-> m, token |-> NewToken, overdue |-> FALSE]]
  BY DEF Claim, ClaimUnanswered
<1>3. PICK tok \in Tokens : tok = NewToken /\ tok # 0 /\ (\A v \in Workers : worker[v].token # tok)
  BY TokenIsNew DEF IInv
<1>4. /\ msg' \in [Msgs -> Message] /\ \A e \in Msgs : msg'[e].lease = "none" <=> msg'[e].token = 0
      /\ \A e \in Msgs \ {m} : msg'[e] = msg[e]
      /\ msg'[m].token = tok /\ msg'[m].attempts > 0
      /\ LockInv' /\ RowsInv' /\ OrderInv'
  BY <1>1, <1>2, <1>3, LeasedFacts
<1>5. worker \in [Workers -> Attempt]
  BY TypeParts DEF IInv
<1>6. /\ worker' \in [Workers -> Attempt] /\ \A v \in Workers \ {w} : worker'[v] = worker[v]
      /\ worker'[w].pc = "idle" \/ (worker'[w].pc = "handling" /\ worker'[w].token = tok /\ worker'[w].msg = m)
  <2>1. PICK r : r = [pc |-> "handling", msg |-> m, token |-> tok, overdue |-> FALSE]
    OBVIOUS
  <2>2. r \in Attempt /\ r.pc = "handling" /\ r.token = tok /\ r.msg = m
    BY <2>1 DEF Attempt
  <2>3. worker' = worker \/ worker' = [worker EXCEPT ![w] = r]
    BY <1>2, <1>3, <2>1
  <2> QED
    BY <1>1, <1>5, <2>2, <2>3
<1>7. TypeOK'
  BY <1>1, <1>4, <1>6, TypeParts DEF IInv, TypeOK, Message, Attempt
<1>8. ReceiptInv'
  <2>1. \A e \in Msgs : msg'[e].token # 0 => msg'[e].attempts > 0
    BY <1>4 DEF IInv, ReceiptInv
  <2>2. \A v \in Workers : worker'[v].pc # "idle" => worker'[v].token # 0 /\ worker'[v].msg \in Msgs
    BY <1>3, <1>6 DEF IInv, ReceiptInv
  <2>3. ASSUME NEW u \in Workers, NEW v \in Workers, u # v, worker'[u].pc # "idle", worker'[v].pc # "idle"
        PROVE  worker'[u].token # worker'[v].token
    <3>1. CASE u = w
      BY <1>3, <1>6, <2>3, <3>1
    <3>2. CASE v = w
      BY <1>3, <1>6, <2>3, <3>2
    <3>3. CASE u # w /\ v # w
      BY <1>6, <2>3, <3>3 DEF IInv, ReceiptInv
    <3> QED
      BY <3>1, <3>2, <3>3
  <2>4. ASSUME NEW v \in Workers, worker'[v].pc = "acknowledge", msg'[worker'[v].msg].token = worker'[v].token
        PROVE  worker'[v].msg \in delivered'
    <3>1. v # w
      BY <1>6, <2>4
    <3>2. worker'[v] = worker[v] /\ worker[v].msg \in Msgs
      BY <1>6, <2>2, <2>4, <3>1
    <3>3. worker[v].msg # m
      BY <1>3, <1>4, <2>4, <3>2
    <3> QED
      BY <1>1, <1>4, <2>4, <3>2, <3>3 DEF IInv, ReceiptInv
  <2> QED
    BY <2>1, <2>2, <2>3, <2>4 DEF ReceiptInv
<1> QED
  BY <1>4, <1>7, <1>8 DEF IInv

LEMMA StepInv == ASSUME IInv, [Next]_vars PROVE IInv'
<1>1. ASSUME NEW t \in Txs, Begin(t) \/ Lock(t) \/ Insert(t) \/ Commit(t) \/ Rollback(t) PROVE IInv'
  BY <1>1, BeginInv, LockStepInv, InsertInv, CommitInv, RollbackInv
<1>2. ASSUME NEW w \in Workers, \/ Claim(w) \/ ClaimUnanswered(w) \/ HandlerSucceeds(w) \/ HandlerFails(w)
                                \/ Acknowledge(w) \/ Retry(w) \/ Drop(w) \/ Overrun(w)
      PROVE  IInv'
  BY <1>2, ClaimInv, HandlerSucceedsInv, HandlerFailsInv, AcknowledgeInv, RetryInv, DropInv, OverrunInv
<1>3. ASSUME NEW m \in Msgs, Expire(m) \/ Due(m) \/ Age(m) \/ Purge(m) PROVE IInv'
  BY <1>3, ClockInv, PurgeInv
<1>4. CASE UNCHANGED vars
  <2>1. UNCHANGED <<table, before, committed, msg, tx, worker, delivered>>
    BY <1>4 DEF vars
  <2>2. TypeOK'
    BY <2>1 DEF IInv, TypeOK
  <2>3. ReceiptInv'
    BY <2>1 DEF IInv, ReceiptInv
  <2> QED
    BY <2>1, <2>2, <2>3, RowsKept DEF IInv
<1> QED
  BY <1>1, <1>2, <1>3, <1>4 DEF Next

LEMMA Inductive == Spec => []IInv
  BY InitInv, StepInv, PTL DEF Spec

-----------------------------------------------------------------------------
\* Messages of a key are claimed in sequence order for any number of concurrent
\* Enqueue transactions: the advisory locks keep a later message of the key from
\* becoming visible before the earlier one is committed or rolled back.
THEOREM DeliveredInOrder == Spec => []OrderKept
<1>1. IInv => OrderKept
  BY DEF IInv, OrderInv
<1> QED
  BY <1>1, Inductive, PTL

\* However leases expire and whatever Purge removes, at most one receipt of a key
\* is accepted by Acknowledge and Retry.
THEOREM ReceiptsAreExclusive == Spec => []OneReceiptPerKey
<1>1. ASSUME IInv PROVE OneReceiptPerKey
  <2> SUFFICES ASSUME NEW v \in Workers, NEW w \in Workers, v # w, worker[v].pc # "idle", worker[w].pc # "idle",
                      Owns(v), Owns(w), KeyOf[worker[v].msg] = KeyOf[worker[w].msg]
               PROVE  FALSE
    BY DEF OneReceiptPerKey
  <2>1. PICK m \in Msgs, n \in Msgs : m = worker[v].msg /\ n = worker[w].msg
    BY <1>1 DEF IInv, ReceiptInv
  <2>2. worker[v].token # worker[w].token /\ worker[v].token # 0 /\ worker[w].token # 0
    BY <1>1 DEF IInv, ReceiptInv
  <2>3. m \in committed /\ n \in committed /\ msg[m].token = worker[v].token /\ msg[n].token = worker[w].token
    BY <2>1 DEF Owns
  <2>4. m # n /\ m \in table /\ n \in table
    BY <1>1, <2>2, <2>3, TypeParts DEF IInv
  <2>5. msg[m].attempts > 0 /\ msg[n].attempts > 0
    BY <1>1, <2>2, <2>3 DEF IInv, ReceiptInv
  <2>6. msg[m].attempts = 0 \/ msg[n].attempts = 0
    BY <1>1, <2>1, <2>4 DEF IInv, OrderInv, OrderKept
  <2> QED
    BY <2>5, <2>6
<1> QED
  BY <1>1, Inductive, PTL

\* A committed message leaves the table only after its handler reported success, or
\* by Purge: whatever expires, dies or answers late.
THEOREM NothingIsLost == Spec => AtLeastOnce
<1>1. ASSUME IInv, [Next]_vars PROVE [LeavingStep]_vars
  <2> SUFFICES ASSUME Next, NEW m \in Msgs, m \in committed, m \notin committed' PROVE m \in delivered \/ Purge(m)
    BY <1>1 DEF LeavingStep
  <2>1. ASSUME NEW t \in Txs, Begin(t) \/ Lock(t) \/ Insert(t) \/ Commit(t) \/ Rollback(t) PROVE FALSE
    BY <2>1 DEF Begin, Lock, Insert, Commit, Rollback
  <2>2. ASSUME NEW w \in Workers, \/ Claim(w) \/ ClaimUnanswered(w) \/ HandlerSucceeds(w) \/ HandlerFails(w)
                                  \/ Retry(w) \/ Drop(w) \/ Overrun(w)
        PROVE  FALSE
    BY <2>2 DEF Claim, ClaimUnanswered, HandlerSucceeds, HandlerFails, Retry, Drop, Overrun
  <2>3. ASSUME NEW w \in Workers, Acknowledge(w) PROVE m \in delivered
    <3>1. Owns(w) /\ m = worker[w].msg
      BY <2>3 DEF Acknowledge, Remove
    <3>2. worker[w].pc = "acknowledge"
      BY <2>3 DEF Acknowledge
    <3> QED
      BY <1>1, <3>1, <3>2 DEF Owns, IInv, ReceiptInv
  <2>4. ASSUME NEW n \in Msgs, Expire(n) \/ Due(n) \/ Age(n) PROVE FALSE
    BY <2>4 DEF Expire, Due, Age
  <2>5. ASSUME NEW n \in Msgs, Purge(n) PROVE Purge(m)
    <3>1. m = n
      BY <2>5 DEF Purge, Remove
    <3> QED
      BY <2>5, <3>1
  <2> QED
    BY <2>1, <2>2, <2>3, <2>4, <2>5 DEF Next
<1> QED
  BY <1>1, Inductive, PTL DEF Spec, AtLeastOnce

\* A transaction that waits for a lock of another waiting transaction waits for a
\* lesser lock than that one does: no circle of any length can wait for itself.
WaitsAscend ==
  \A t, u \in Txs : t # u /\ Waiting(t) /\ Waiting(u) /\ NextLock(t) \in tx[u].held => NextLock(t) < NextLock(u)

LEMMA Ascending == ASSUME IInv PROVE WaitsAscend
<1> SUFFICES ASSUME NEW t \in Txs, NEW u \in Txs, Waiting(u), NextLock(t) \in tx[u].held PROVE NextLock(t) < NextLock(u)
  BY DEF WaitsAscend
<1>1. tx[u].held \subseteq BatchKeys(u) /\ tx[u].held # BatchKeys(u)
  BY DEF IInv, LockInv, Waiting
<1>2. NextLock(u) \in BatchKeys(u) \ tx[u].held
  BY <1>1, NextLockIsLeast
<1> QED
  BY <1>2 DEF IInv, LockInv

\* Enqueue transactions that name any sets of keys in any order do not wait for each
\* other's advisory locks in a circle, because each sorts its locks.
THEOREM LocksDoNotDeadlock == Spec => [](WaitsAscend /\ NoLockCycle)
<1>1. ASSUME IInv PROVE WaitsAscend /\ NoLockCycle
  <2>1. WaitsAscend
    BY <1>1, Ascending
  <2>2. NoLockCycle
    <3> SUFFICES ASSUME NEW t \in Txs, NEW u \in Txs, t # u, Waiting(t), Waiting(u),
                        NextLock(t) \in tx[u].held, NextLock(u) \in tx[t].held
                 PROVE  FALSE
      BY DEF NoLockCycle
    <3>1. NextLock(t) < NextLock(u) /\ NextLock(u) < NextLock(t)
      BY <2>1 DEF WaitsAscend
    <3>2. NextLock(t) \in Nat /\ NextLock(u) \in Nat
      BY <1>1, BatchFacts, OutboxAssumption DEF IInv, LockInv
    <3> QED
      BY <3>1, <3>2
  <2> QED
    BY <2>1, <2>2
<1> QED
  BY <1>1, Inductive, PTL
=============================================================================
