-------------------------- MODULE KeyedQueueProofs --------------------------
(***************************************************************************)
(* The queue of the keyed runtime keeps its books, loses no wake-up and     *)
(* forgets no change, for any number of keys, subscriptions and workers.    *)
(***************************************************************************)
EXTENDS KeyedQueue, FiniteSetTheorems, TLAPS

\* No element occurs twice.
Distinct(s) == \A i, j \in DOMAIN s : i # j => s[i] # s[j]

Apart == Elems(ripe) \cap Elems(later) = {} /\ active \cap Pending = {}

Waiting == {k \in Pending : delay[k] > 0}

\* The books of the queue.  A key without an entry has no delay.
BooksInv ==
  /\ Distinct(ripe) /\ Distinct(later) /\ Apart
  /\ Cardinality(Entries) <= Capacity
  /\ retrying = Cardinality(Waiting)
  /\ \A k \in Keys \ Entries : delay[k] = 0

\* Each worker that acts holds an active key of its own.
WorkersInv ==
  \A w \in Workers : worker[w].pc \in Acting =>
    /\ worker[w].key \in active
    /\ \A v \in Workers : v # w /\ worker[v].pc \in Acting => worker[v].key # worker[w].key

\* An emitter waits for the token once, with the key it is about to add.
AdmissionInv ==
  /\ Distinct(admission)
  /\ \A e \in Elems(admission) : emit[e] \in Keys

\* What a session has started, and what is left of it between two sessions.
SessionInv ==
  /\ session \in {"off", "setup"} =>
       /\ worker = Idle /\ active = {}
       /\ \A e \in Emitters : emit[e] = Gone
       /\ scan.due \/ scan.delay > 0
  /\ session = "on" => open = Sources
  /\ emit[Scanner] = Gone => scan.pc = "gone"

IInv ==
  /\ TypeOK /\ BooksInv /\ WorkersInv /\ NoLostWakeup
  /\ AdmissionInv /\ SessionInv /\ NoLostInvalidation
-----------------------------------------------------------------------------
(* The sequences of the heap and of the token.                              *)

LEMMA ElemsFacts ==
  ASSUME NEW S, NEW s \in Seq(S)
  PROVE  /\ Elems(s) \subseteq S
         /\ Elems(s) = {} <=> s = <<>>
         /\ s # <<>> => Head(s) \in Elems(s) /\ s[1] = Head(s) /\ 1 \in DOMAIN s
<1>1. Elems(s) \subseteq S
  BY DEF Elems
<1>2. s # <<>> => Head(s) = s[1] /\ 1 \in DOMAIN s
  OBVIOUS
<1>3. s # <<>> => Head(s) \in Elems(s)
  BY <1>2 DEF Elems
<1>4. s = <<>> => Elems(s) = {}
  BY DEF Elems
<1> QED
  BY <1>1, <1>2, <1>3, <1>4

LEMMA AppendFacts ==
  ASSUME NEW S, NEW s \in Seq(S), NEW k \in S
  PROVE  /\ Append(s, k) \in Seq(S)
         /\ Elems(Append(s, k)) = Elems(s) \cup {k}
         /\ Distinct(s) /\ k \notin Elems(s) => Distinct(Append(s, k))
<1>1. /\ Append(s, k) \in Seq(S) /\ Len(Append(s, k)) = Len(s) + 1
      /\ \A i \in 1 .. Len(s) : Append(s, k)[i] = s[i]
      /\ Append(s, k)[Len(s) + 1] = k
  OBVIOUS
<1>2. DOMAIN s = 1 .. Len(s) /\ DOMAIN Append(s, k) = 1 .. Len(s) + 1 /\ Len(s) \in Nat
  OBVIOUS
<1>3. \A i \in 1 .. Len(s) + 1 : i \in 1 .. Len(s) \/ i = Len(s) + 1
  BY <1>2
<1>4. Elems(Append(s, k)) = Elems(s) \cup {k}
  <2>1. \A x \in Elems(Append(s, k)) : x \in Elems(s) \cup {k}
    BY <1>1, <1>2, <1>3 DEF Elems
  <2>2. \A i \in 1 .. Len(s) : i \in 1 .. Len(s) + 1
    BY <1>2
  <2>3. \A x \in Elems(s) : x \in Elems(Append(s, k))
    BY <1>1, <1>2, <2>2 DEF Elems
  <2>4. Len(s) + 1 \in 1 .. Len(s) + 1
    BY <1>2
  <2>5. k \in Elems(Append(s, k))
    BY <1>1, <1>2, <2>4 DEF Elems
  <2> QED
    BY <2>1, <2>3, <2>5
<1>5. ASSUME Distinct(s), k \notin Elems(s)
      PROVE  Distinct(Append(s, k))
  <2>1. \A i \in 1 .. Len(s) : s[i] # k
    BY <1>2, <1>5 DEF Elems
  <2> QED
    BY <1>1, <1>2, <1>3, <1>5, <2>1 DEF Distinct
<1> QED
  BY <1>1, <1>4, <1>5

LEMMA TailFacts ==
  ASSUME NEW S, NEW s \in Seq(S), s # <<>>, Distinct(s)
  PROVE  /\ Tail(s) \in Seq(S)
         /\ Elems(Tail(s)) = Elems(s) \ {Head(s)}
         /\ Distinct(Tail(s))
<1>1. /\ Tail(s) \in Seq(S) /\ Len(Tail(s)) = Len(s) - 1 /\ Len(s) \in Nat /\ Len(s) > 0
      /\ \A i \in 1 .. Len(s) - 1 : Tail(s)[i] = s[i + 1]
  OBVIOUS
<1>2. DOMAIN s = 1 .. Len(s) /\ DOMAIN Tail(s) = 1 .. Len(s) - 1
  BY <1>1
<1>3. Head(s) = s[1] /\ 1 \in 1 .. Len(s)
  BY <1>1
<1>4. \A i \in 1 .. Len(s) - 1 : i + 1 \in 1 .. Len(s) /\ i + 1 # 1
  BY <1>1
<1>5. \A i \in 1 .. Len(s) : i # 1 => \E j \in 1 .. Len(s) - 1 : i = j + 1
  <2> SUFFICES ASSUME NEW i \in 1 .. Len(s), i # 1
               PROVE  \E j \in 1 .. Len(s) - 1 : i = j + 1
    OBVIOUS
  <2>1. i - 1 \in 1 .. Len(s) - 1 /\ i = (i - 1) + 1
    BY <1>1
  <2> QED
    BY <2>1
<1>6. \A x \in Elems(Tail(s)) : x \in Elems(s) /\ x # Head(s)
  BY <1>1, <1>2, <1>3, <1>4 DEF Elems, Distinct
<1>7. \A x \in Elems(s) : x # Head(s) => x \in Elems(Tail(s))
  <2> SUFFICES ASSUME NEW i \in 1 .. Len(s), s[i] # Head(s)
               PROVE  s[i] \in Elems(Tail(s))
    BY <1>2 DEF Elems
  <2>1. PICK j \in 1 .. Len(s) - 1 : i = j + 1
    BY <1>3, <1>5
  <2>2. Tail(s)[j] = s[i]
    BY <1>1, <2>1
  <2> QED
    BY <1>2, <2>2 DEF Elems
<1>8. Distinct(Tail(s))
  <2> SUFFICES ASSUME NEW i \in 1 .. Len(s) - 1, NEW j \in 1 .. Len(s) - 1, i # j
               PROVE  Tail(s)[i] # Tail(s)[j]
    BY <1>2 DEF Distinct
  <2>1. i + 1 # j + 1
    OBVIOUS
  <2> QED
    BY <1>1, <1>2, <1>4, <2>1 DEF Distinct
<1> QED
  BY <1>1, <1>6, <1>7, <1>8

LEMMA InsertFacts ==
  ASSUME NEW S, NEW s \in Seq(S), NEW k \in S, NEW p \in 1 .. Len(s) + 1
  PROVE  /\ InsertAt(s, p, k) \in Seq(S)
         /\ Elems(InsertAt(s, p, k)) = Elems(s) \cup {k}
         /\ Distinct(s) /\ k \notin Elems(s) => Distinct(InsertAt(s, p, k))
<1> DEFINE n == Len(s)
           t == InsertAt(s, p, k)
<1>1. n \in Nat /\ DOMAIN s = 1 .. n
  OBVIOUS
<1>2. t = [i \in 1 .. n + 1 |-> IF i < p THEN s[i] ELSE IF i = p THEN k ELSE s[i - 1]]
  BY DEF InsertAt
<1> HIDE DEF n, t
<1>3. \A i \in 1 .. n + 1 : t[i] = IF i < p THEN s[i] ELSE IF i = p THEN k ELSE s[i - 1]
  BY <1>2
<1>4. p \in 1 .. n + 1
  BY DEF n
<1>5. \A i \in 1 .. n + 1 : /\ i < p => i \in 1 .. n
                            /\ i > p => i - 1 \in 1 .. n
  BY <1>1, <1>4
<1>6. \A i \in 1 .. n + 1 : t[i] \in S
  <2>1. \A i \in 1 .. n : s[i] \in S
    BY DEF n
  <2> QED
    BY <1>3, <1>4, <1>5, <2>1
<1>7. t \in Seq(S) /\ DOMAIN t = 1 .. n + 1
  BY <1>1, <1>2, <1>6
<1>8. \A x \in Elems(t) : x \in Elems(s) \cup {k}
  <2> SUFFICES ASSUME NEW i \in 1 .. n + 1
               PROVE  t[i] = k \/ t[i] \in Elems(s)
    BY <1>7 DEF Elems
  <2>1. \A j \in 1 .. n : s[j] \in Elems(s)
    BY <1>1 DEF Elems
  <2>2. i < p \/ i = p \/ i > p
    BY <1>4
  <2> QED
    BY <1>3, <1>5, <2>1, <2>2
<1>9. k \in Elems(t)
  <2>1. t[p] = k
    BY <1>3, <1>4
  <2> QED
    BY <1>4, <1>7, <2>1 DEF Elems
<1>10. \A x \in Elems(s) : x \in Elems(t)
  <2> SUFFICES ASSUME NEW i \in 1 .. n
               PROVE  s[i] \in Elems(t)
    BY <1>1 DEF Elems
  <2>1. CASE i < p
    <3>1. i \in 1 .. n + 1 /\ t[i] = s[i]
      BY <1>1, <1>3, <2>1
    <3> QED
      BY <1>7, <3>1 DEF Elems
  <2>2. CASE i >= p
    <3>1. i + 1 \in 1 .. n + 1 /\ ~(i + 1 < p) /\ i + 1 # p /\ (i + 1) - 1 = i
      BY <1>1, <1>4, <2>2
    <3>2. t[i + 1] = s[i]
      BY <1>3, <3>1
    <3> QED
      BY <1>7, <3>1, <3>2 DEF Elems
  <2> QED
    BY <1>1, <1>4, <2>1, <2>2
<1>11. ASSUME Distinct(s), k \notin Elems(s), NEW i \in 1 .. n + 1, NEW j \in 1 .. n + 1, i < j
       PROVE  t[i] # t[j]
  <2>1. \A m \in 1 .. n : s[m] # k
    BY <1>1, <1>11 DEF Elems
  <2>2. \A l, m \in 1 .. n : l # m => s[l] # s[m]
    BY <1>1, <1>11 DEF Distinct
  <2>3. CASE j < p
    BY <1>1, <1>3, <1>4, <1>5, <1>11, <2>2, <2>3
  <2>4. CASE j = p
    BY <1>1, <1>3, <1>4, <1>5, <1>11, <2>1, <2>4
  <2>5. CASE j > p /\ i = p
    BY <1>1, <1>3, <1>4, <1>5, <1>11, <2>1, <2>5
  <2>6. CASE j > p /\ i < p
    <3>1. i # j - 1
      BY <1>4, <2>6
    <3> QED
      BY <1>1, <1>3, <1>4, <1>5, <1>11, <2>2, <2>6, <3>1
  <2>7. CASE j > p /\ i > p
    <3>1. i - 1 # j - 1
      BY <1>11
    <3> QED
      BY <1>1, <1>3, <1>4, <1>5, <1>11, <2>2, <2>7, <3>1
  <2> QED
    BY <1>4, <2>3, <2>4, <2>5, <2>6, <2>7
<1>12. Distinct(s) /\ k \notin Elems(s) => Distinct(t)
  <2> SUFFICES ASSUME Distinct(s), k \notin Elems(s), NEW i \in 1 .. n + 1, NEW j \in 1 .. n + 1, i # j
               PROVE  t[i] # t[j]
    BY <1>7 DEF Distinct
  <2>1. i < j \/ j < i
    BY <1>1
  <2> QED
    BY <1>11, <2>1
<1> QED
  BY <1>7, <1>8, <1>9, <1>10, <1>12 DEF t

LEMMA DropFacts ==
  ASSUME NEW S, NEW s \in Seq(S), NEW p \in DOMAIN s
  PROVE  /\ DropAt(s, p) \in Seq(S)
         /\ Elems(DropAt(s, p)) \subseteq Elems(s)
         /\ Distinct(s) => Distinct(DropAt(s, p)) /\ s[p] \notin Elems(DropAt(s, p))
<1> DEFINE n == Len(s)
           t == DropAt(s, p)
           at(i) == IF i < p THEN i ELSE i + 1
<1>1. n \in Nat \ {0} /\ DOMAIN s = 1 .. n /\ p \in 1 .. n
  OBVIOUS
<1>2. t = [i \in 1 .. n - 1 |-> IF i < p THEN s[i] ELSE s[i + 1]]
  BY DEF DropAt
<1> HIDE DEF n, t
<1>3. \A i \in 1 .. n - 1 : at(i) \in 1 .. n /\ at(i) # p
  BY <1>1
<1>4. \A i, j \in 1 .. n - 1 : i # j => at(i) # at(j)
  BY <1>1
<1>5. \A i \in 1 .. n - 1 : t[i] = s[at(i)]
  BY <1>2
<1> HIDE DEF at
<1>6. \A i \in 1 .. n : s[i] \in S
  BY DEF n
<1>7. t \in Seq(S) /\ DOMAIN t = 1 .. n - 1
  <2>1. n - 1 \in Nat /\ \A i \in 1 .. n - 1 : t[i] \in S
    BY <1>1, <1>3, <1>5, <1>6
  <2>2. t = [i \in 1 .. n - 1 |-> t[i]]
    BY <1>2
  <2> QED
    BY <2>1, <2>2
<1>8. Elems(t) \subseteq Elems(s)
  BY <1>1, <1>3, <1>5, <1>7 DEF Elems
<1>9. Distinct(s) => Distinct(t) /\ s[p] \notin Elems(t)
  BY <1>1, <1>3, <1>4, <1>5, <1>7 DEF Elems, Distinct
<1> QED
  BY <1>7, <1>8, <1>9 DEF t

LEMMA SizeFacts ==
  ASSUME NEW S, NEW s \in Seq(S), Distinct(s)
  PROVE  IsFiniteSet(Elems(s)) /\ Cardinality(Elems(s)) = Len(s)
<1>1. s \in [1 .. Len(s) -> Elems(s)] /\ Len(s) \in Nat
  BY DEF Elems
<1>2. s \in Injection(1 .. Len(s), Elems(s))
  BY <1>1 DEF Injection, IsInjective, Distinct
<1>3. s \in Surjection(1 .. Len(s), Elems(s))
  BY <1>1 DEF Surjection, Elems
<1>4. ExistsBijection(1 .. Len(s), Elems(s))
  BY <1>2, <1>3 DEF ExistsBijection, Bijection
<1> QED
  BY <1>1, <1>4, FS_NatBijection, FS_CountingElements

LEMMA MergeFacts ==
  ASSUME NEW S, NEW s \in Seq(S), Distinct(s), NEW K \in SUBSET S, IsFiniteSet(K), K \cap Elems(s) = {},
         NEW t \in Merges(s, K)
  PROVE  t \in Seq(S) /\ Distinct(t) /\ Elems(t) = Elems(s) \cup K
<1> DEFINE n == Len(s) + Cardinality(K)
           E == Elems(s) \cup K
<1>1. Len(s) \in Nat /\ Cardinality(K) \in Nat /\ n \in Nat
  BY FS_CardinalityType
<1>2. t \in [1 .. n -> E] /\ \A i, j \in 1 .. n : i # j => t[i] # t[j]
  BY DEF Merges
<1>3. E \subseteq S
  BY ElemsFacts
<1>4. IsFiniteSet(E) /\ Cardinality(E) = n
  <2>1. IsFiniteSet(Elems(s)) /\ Cardinality(Elems(s)) = Len(s)
    BY SizeFacts
  <2>2. Cardinality(Elems(s) \cap K) = 0
    <3>1. Elems(s) \cap K = {}
      OBVIOUS
    <3> QED
      BY <3>1, FS_EmptySet
  <2> QED
    <3>1. IsFiniteSet(E) /\ Cardinality(E) = Cardinality(Elems(s)) + Cardinality(K) - Cardinality(Elems(s) \cap K)
      BY <2>1, FS_Union
    <3> QED
      BY <1>1, <2>1, <2>2, <3>1
<1>5. Cardinality(1 .. n) = n
  <2>1. n \in Int /\ 1 \in Int
    BY <1>1
  <2>2. Cardinality(1 .. n) = IF 1 > n THEN 0 ELSE n - 1 + 1
    BY <2>1, FS_Interval
  <2> QED
    BY <1>1, <2>2
<1> HIDE DEF n, E
<1>6. t \in Injection(1 .. n, E)
  BY <1>2 DEF Injection, IsInjective
<1>7. t \in Surjection(1 .. n, E)
  BY <1>4, <1>5, <1>6, FS_Injection
<1>8. t \in Seq(S) /\ DOMAIN t = 1 .. n
  BY <1>1, <1>2, <1>3
<1>9. Distinct(t)
  BY <1>2, <1>8 DEF Distinct
<1>10. Elems(t) = E
  BY <1>2, <1>7, <1>8 DEF Surjection, Elems
<1> QED
  BY <1>8, <1>9, <1>10 DEF E
-----------------------------------------------------------------------------
(* Delays, workers and the scan.                                            *)

Delays == {0} \cup RetryMin .. RetryMax
WorkerState == [pc : {"gone", "loop", "asleep", "timed"} \cup Acting, key : Keys \cup {None}]
ScanState == [pc : {"gone", "wait", "asleep", "listing"}, due : BOOLEAN, delay : Delays, active : BOOLEAN]

LEMMA DelayFacts ==
  ASSUME NEW c \in Delays
  PROVE  nextDelay(c) \in RetryMin .. RetryMax /\ nextDelay(c) \in Delays /\ nextDelay(c) > 0 /\ nextDelay(c) >= c
<1>1. RetryMin \in Nat \ {0} /\ RetryMax \in Nat /\ RetryMin <= RetryMax /\ c \in Nat /\ c <= RetryMax
  BY OptionsAssumption DEF Delays
<1>2. (RetryMax \div 2) \in Nat /\ 2 * (RetryMax \div 2) <= RetryMax
  BY <1>1
<1>3. CASE c < RetryMin
  BY <1>1, <1>3 DEF nextDelay, Delays
<1>4. CASE c >= RetryMin /\ c >= RetryMax \div 2
  BY <1>1, <1>4 DEF nextDelay, Delays
<1>5. CASE c >= RetryMin /\ c < RetryMax \div 2
  <2>1. nextDelay(c) = c * 2
    BY <1>1, <1>2, <1>5 DEF nextDelay
  <2>2. c * 2 <= RetryMax /\ c * 2 >= RetryMin /\ c * 2 \in Nat /\ c * 2 >= c /\ c * 2 > 0
    BY <1>1, <1>2, <1>5
  <2> QED
    BY <1>1, <2>1, <2>2 DEF Delays
<1> QED
  BY <1>1, <1>2, <1>3, <1>4, <1>5

LEMMA WorkerFacts ==
  /\ Looping \in WorkerState /\ Looping.pc = "loop"
  /\ \A p \in {"gone", "loop", "asleep", "timed"} \cup Acting, k \in Keys \cup {None} :
       Worker(p, k) \in WorkerState /\ Worker(p, k).pc = p /\ Worker(p, k).key = k
  /\ Idle \in [Workers -> WorkerState] /\ \A w \in Workers : Idle[w].pc = "gone"
  BY DEF Looping, Worker, WorkerState, Idle

LEMMA WokenFacts ==
  ASSUME NEW f \in [Workers -> WorkerState]
  PROVE  /\ Woken(f) \in [Workers -> WorkerState]
         /\ \A w \in Workers : /\ Woken(f)[w].pc \notin {"asleep", "timed"}
                               /\ f[w].pc \notin {"asleep", "timed"} => Woken(f)[w] = f[w]
                               /\ Woken(f)[w].pc \in Acting => Woken(f)[w] = f[w]
                               /\ f[w].pc \in Acting => Woken(f)[w] = f[w]
  BY WorkerFacts DEF Woken, Acting

LEMMA WokenScanFacts ==
  ASSUME scan \in ScanState
  PROVE  /\ WokenScan(scan) \in ScanState
         /\ WokenScan(scan).pc # "asleep"
         /\ WokenScan(scan).pc = "listing" <=> scan.pc = "listing"
         /\ WokenScan(scan).pc = "gone" <=> scan.pc = "gone"
         /\ WokenScan(scan).due = scan.due /\ WokenScan(scan).delay = scan.delay
<1>1. PICK s : s = [scan EXCEPT !.pc = "wait"]
  OBVIOUS
<1>2. s \in ScanState /\ s.pc = "wait" /\ s.due = scan.due /\ s.delay = scan.delay
  BY <1>1 DEF ScanState
<1> QED
  BY <1>1, <1>2 DEF WokenScan

\* A key that changes hands is one of the keys.
LEMMA EntriesTyped ==
  ASSUME TypeOK
  PROVE  /\ Elems(ripe) \subseteq Keys /\ Elems(later) \subseteq Keys /\ Pending \subseteq Keys /\ Entries \subseteq Keys
         /\ IsFiniteSet(Pending) /\ IsFiniteSet(Entries) /\ IsFiniteSet(active)
         /\ Cardinality(Entries) \in Nat
<1>1. /\ Elems(ripe) \subseteq Keys /\ Elems(later) \subseteq Keys /\ Pending \subseteq Keys /\ Entries \subseteq Keys
      /\ active \subseteq Keys
  BY ElemsFacts DEF TypeOK, Pending, Entries
<1>2. IsFiniteSet(Pending) /\ IsFiniteSet(Entries) /\ IsFiniteSet(active)
  BY <1>1, KeysAssumption, FS_Subset
<1> QED
  BY <1>1, <1>2, FS_CardinalityType

-----------------------------------------------------------------------------
(* Types.                                                                   *)

\* The variables of a session, of the emitters and of the scan.
TypeRest ==
  /\ session \in {"off", "setup", "on", "stopping"}
  /\ open \subseteq Sources /\ stream \in [Sources -> SUBSET Keys]
  /\ emit \in [Emitters -> Keys \cup {None, Gone}] /\ admission \in Seq(Emitters) /\ full \in BOOLEAN
  /\ scan \in ScanState /\ todo \subseteq Keys /\ stale \subseteq Keys

TypeQueue ==
  /\ ready \in BOOLEAN /\ ripe \in Seq(Keys) /\ later \in Seq(Keys)
  /\ active \subseteq Keys /\ dirty \subseteq Keys
  /\ delay \in [Keys -> Delays] /\ retrying \in Int

TypeWorkers == worker \in [Workers -> WorkerState]

LEMMA TypeSplit == TypeOK <=> TypeRest /\ TypeQueue /\ TypeWorkers
  BY DEF TypeOK, TypeRest, TypeQueue, TypeWorkers, ScanState, WorkerState, Delays

LEMMA NextTypeSplit == (TypeOK <=> TypeRest /\ TypeQueue /\ TypeWorkers)'
  BY TypeSplit, PTL

\* The holder of the token adds a key.
LEMMA HolderFacts ==
  ASSUME IInv, NEW e \in Emitters, admission # <<>>, Head(admission) = e
  PROVE  emit[e] \in Keys
<1>1. Head(admission) \in Elems(admission)
  BY ElemsFacts DEF IInv, TypeOK
<1> QED
  BY <1>1 DEF IInv, AdmissionInv

\* A worker that acts holds an active key.
LEMMA HeldKey ==
  ASSUME IInv, NEW w \in Workers, worker[w].pc \in Acting
  PROVE  /\ worker[w].key \in active /\ worker[w].key \in Keys
         /\ worker[w].key \notin Pending
  BY DEF IInv, WorkersInv, TypeOK, BooksInv, Apart

LEMMA LeaveTyped ==
  ASSUME TypeRest, NEW e \in Emitters, LeaveAdmission(e)
  PROVE  emit' \in [Emitters -> Keys \cup {None, Gone}] /\ admission' \in Seq(Emitters) /\ full' \in BOOLEAN
<1>1. emit' \in [Emitters -> Keys \cup {None, Gone}] /\ full' \in BOOLEAN
  BY DEF TypeRest, LeaveAdmission
<1>2. admission' \in Seq(Emitters)
  BY DropFacts DEF TypeRest, LeaveAdmission
<1> QED
  BY <1>1, <1>2

LEMMA NotifyTyped ==
  ASSUME TypeRest, NEW f \in [Workers -> WorkerState], Notify(f)
  PROVE  worker' \in [Workers -> WorkerState] /\ scan' \in ScanState /\ full' \in BOOLEAN
  BY WokenFacts, WokenScanFacts DEF TypeRest, Notify

LEMMA RestartTyped ==
  ASSUME TypeRest, TypeQueue, BooksInv, IsFiniteSet(active), Restart
  PROVE  TypeQueue' /\ scan' \in ScanState
<1>1. later' \in Seq(Keys)
  <2>1. active \cap Elems(later) = {}
    BY DEF BooksInv, Apart, Pending
  <2>2. later \in Seq(Keys) /\ active \in SUBSET Keys /\ Distinct(later)
    BY DEF TypeQueue, BooksInv
  <2>3. PICK t : t = later' /\ t \in Merges(later, active)
    BY DEF Restart
  <2>4. t \in Seq(Keys)
    BY <2>1, <2>2, <2>3, MergeFacts
  <2> QED
    BY <2>3, <2>4
<1>2. delay' \in [Keys -> Delays]
  BY DelayFacts DEF Restart, TypeQueue
<1>3. retrying' \in Int
  BY FS_CardinalityType DEF Restart, TypeQueue
<1>4. scan' \in ScanState
  <2>1. PICK s : s = [scan EXCEPT !.active = FALSE, !.delay = nextDelay(scan.delay), !.due = FALSE]
    OBVIOUS
  <2>2. nextDelay(scan.delay) \in Delays
    BY DelayFacts DEF TypeRest, ScanState
  <2>3. s \in ScanState
    BY <2>1, <2>2 DEF TypeRest, ScanState
  <2>4. [scan EXCEPT !.due = TRUE] \in ScanState
    BY DEF TypeRest, ScanState
  <2> QED
    BY <2>1, <2>3, <2>4 DEF Restart, Reconnected, TypeRest
<1> QED
  BY <1>1, <1>2, <1>3, <1>4 DEF Restart, TypeQueue
LEMMA FinishTyped ==
  ASSUME IInv, NEW w \in Workers, Return(w, Acting), NEW f \in [Workers -> WorkerState],
         FinishFailed(worker[w].key, f) \/ FinishPending(worker[w].key, f) \/ FinishDone(worker[w].key, f),
         stale' \subseteq Keys
  PROVE  TypeOK'
<1>1. TypeRest /\ TypeQueue
  BY TypeSplit DEF IInv
<1>2. PICK k \in Keys : k = worker[w].key
  BY HeldKey DEF Return
<1>3. /\ active' \subseteq Keys /\ UNCHANGED <<session, open, stream, ready, emit, admission, todo>>
      /\ Notify(f) /\ dirty' = dirty
  BY <1>1, <1>2 DEF Return, TypeQueue, feed, FinishFailed, FinishPending, FinishDone
<1>4. TypeRest' /\ TypeWorkers'
  BY <1>1, <1>3, NotifyTyped DEF TypeRest, TypeWorkers
<1>5. nextDelay(delay[k]) \in Delays /\ 0 \in Delays
  BY <1>1, DelayFacts DEF TypeQueue, Delays
<1>6. delay' \in [Keys -> Delays] /\ retrying' \in Int
  BY <1>1, <1>2, <1>5 DEF TypeQueue, FinishFailed, FinishPending, FinishDone
<1>7. later' \in Seq(Keys)
  BY <1>1, <1>2, InsertFacts DEF TypeQueue, FinishFailed, FinishPending, FinishDone
<1>8. ripe' \in Seq(Keys)
  BY <1>1, <1>2, AppendFacts DEF TypeQueue, FinishFailed, FinishPending, FinishDone
<1>9. TypeQueue'
  BY <1>1, <1>3, <1>6, <1>7, <1>8 DEF TypeQueue
<1> QED
  BY <1>4, <1>9, NextTypeSplit

LEMMA BackFacts ==
  ASSUME TypeWorkers, NEW w \in Workers
  PROVE  /\ Back(w) \in [Workers -> WorkerState] /\ Back(w)[w] = Looping
         /\ \A v \in Workers \ {w} : Back(w)[v] = worker[v]
  BY WorkerFacts DEF Back, TypeWorkers

LEMMA TypeStep == ASSUME IInv, [Next]_vars PROVE TypeRest' /\ TypeQueue' /\ TypeWorkers'
<1>1. TypeRest /\ TypeQueue /\ TypeWorkers /\ BooksInv /\ IsFiniteSet(active)
  BY TypeSplit, EntriesTyped DEF IInv
<1> USE DEF feed, queue, emitting, scanning
<1>2. CASE UNCHANGED vars
  BY <1>1, <1>2 DEF vars, TypeRest, TypeQueue, TypeWorkers
<1>3. CASE Start
  <2>1. worker' \in [Workers -> WorkerState] /\ emit' \in [Emitters -> Keys \cup {None, Gone}]
    BY <1>3, WorkerFacts DEF Start
  <2>2. scan' \in ScanState
    BY <1>1, <1>3 DEF Start, TypeRest, ScanState
  <2> QED
    BY <1>1, <1>3, <2>1, <2>2 DEF Start, TypeRest, TypeQueue, TypeWorkers
<1>4. CASE SetReady
  <2>1. worker' \in [Workers -> WorkerState] /\ scan' \in ScanState /\ full' \in BOOLEAN
    BY <1>1, <1>4, NotifyTyped DEF SetReady, TypeWorkers
  <2> QED
    BY <1>1, <1>4, <2>1 DEF SetReady, TypeRest, TypeQueue, TypeWorkers
<1>5. CASE SetupFails \/ Join
  <2>1. EndSession /\ UNCHANGED <<worker, emitting, stale>>
    BY <1>5 DEF SetupFails, Join
  <2>2. TypeQueue' /\ scan' \in ScanState
    BY <1>1, <2>1, RestartTyped DEF EndSession
  <2> QED
    BY <1>1, <2>1, <2>2 DEF EndSession, TypeRest, TypeWorkers
<1>6. CASE ProcessRestart
  <2>1. NewScan \in ScanState
    BY DEF NewScan, ScanState, Delays
  <2>2. TypeQueue'
    <3>1. ripe' \in Seq(Keys) /\ later' \in Seq(Keys)
      BY <1>6 DEF ProcessRestart
    <3>2. delay' \in [Keys -> Delays] /\ retrying' \in Int
      BY <1>6 DEF ProcessRestart, Delays
    <3>3. ready' \in BOOLEAN /\ active' \subseteq Keys /\ dirty' \subseteq Keys
      BY <1>6 DEF ProcessRestart
    <3> QED
      BY <3>1, <3>2, <3>3 DEF TypeQueue
  <2>3. TypeRest'
    <3>1. admission' \in Seq(Emitters)
      BY <1>6 DEF ProcessRestart
    <3>2. emit' \in [Emitters -> Keys \cup {None, Gone}] /\ stream' \in [Sources -> SUBSET Keys]
      BY <1>6 DEF ProcessRestart
    <3> QED
      BY <1>1, <1>6, <2>1, <3>1, <3>2 DEF ProcessRestart, TypeRest
  <2>4. TypeWorkers'
    BY <1>6, WorkerFacts DEF ProcessRestart, TypeWorkers
  <2> QED
    BY <2>2, <2>3, <2>4
<1>7. CASE Reconnect \/ \E s \in Sources : Open(s)
  BY <1>1, <1>7 DEF Reconnect, Open, TypeRest, TypeQueue, TypeWorkers
<1>8. CASE ScanQuits
  <2>1. Scanner \in Emitters
    BY DEF Emitters
  <2>2. scan' \in ScanState
    BY <1>1, <1>8 DEF ScanQuits, TypeRest, ScanState
  <2> QED
    BY <1>1, <1>8, <2>1, <2>2, LeaveTyped DEF ScanQuits, TypeRest, TypeQueue, TypeWorkers
<1>9. CASE \E s \in Sources : WatchFails(s) \/ ReceiverQuits(s)
  <2>1. PICK s \in Sources : WatchFails(s) \/ ReceiverQuits(s)
    BY <1>9
  <2>2. s \in Emitters
    BY DEF Emitters
  <2>3. CASE WatchFails(s)
    BY <1>1, <2>2, <2>3 DEF WatchFails, TypeRest, TypeQueue, TypeWorkers
  <2>4. CASE ReceiverQuits(s)
    BY <1>1, <2>2, <2>4, LeaveTyped DEF ReceiverQuits, TypeRest, TypeQueue, TypeWorkers
  <2> QED
    BY <2>1, <2>3, <2>4
<1>10. CASE \E s \in Sources : \E k \in Keys : Receive(s, k)
  <2>1. PICK s \in Sources, k \in Keys : Receive(s, k)
    BY <1>10
  <2>2. s \in Emitters
    BY DEF Emitters
  <2>3. emit' \in [Emitters -> Keys \cup {None, Gone}] /\ admission' \in Seq(Emitters) /\ UNCHANGED full
    BY <1>1, <2>1, <2>2 DEF Receive, Enter, TypeRest
  <2>4. stream' \in [Sources -> SUBSET Keys]
    BY <1>1, <2>1 DEF Receive, TypeRest
  <2> QED
    BY <1>1, <2>1, <2>3, <2>4 DEF Receive, TypeRest, TypeQueue, TypeWorkers
<1>11. CASE \E k \in Keys : ScanEmits(k)
  <2>1. PICK k \in Keys : ScanEmits(k)
    BY <1>11
  <2>2. Scanner \in Emitters
    BY DEF Emitters
  <2>3. emit' \in [Emitters -> Keys \cup {None, Gone}] /\ admission' \in Seq(Emitters) /\ UNCHANGED full
    BY <1>1, <2>1, <2>2 DEF ScanEmits, Enter, TypeRest
  <2> QED
    BY <1>1, <2>1, <2>3 DEF ScanEmits, TypeRest, TypeQueue, TypeWorkers
<1>12. CASE ScanBegins \/ ScanCompletes \/ ScanFails \/ ScanDue
  <2>1. nextDelay(scan.delay) \in Delays /\ 0 \in Delays
    BY <1>1, DelayFacts DEF TypeRest, ScanState, Delays
  <2>2. scan' \in ScanState
    <3>1. CASE ScanBegins
      BY <1>1, <3>1 DEF ScanBegins, TypeRest, ScanState
    <3>2. CASE ScanCompletes \/ ScanFails
      <4>1. PICK d \in Delays : scan' = [pc |-> "wait", due |-> FALSE, active |-> FALSE, delay |-> d]
        BY <2>1, <3>2 DEF ScanCompletes, ScanFails, Finished
      <4> QED
        BY <4>1 DEF ScanState
    <3>3. CASE ScanDue
      BY <1>1, <3>3 DEF ScanDue, TypeRest, ScanState
    <3> QED
      BY <1>12, <3>1, <3>2, <3>3
  <2>3. todo' \subseteq Keys /\ UNCHANGED <<feed, queue, worker, emitting, stale>>
    BY <1>1, <1>12 DEF ScanBegins, ScanCompletes, ScanFails, ScanDue, TypeRest
  <2> QED
    BY <1>1, <2>2, <2>3 DEF TypeRest, TypeQueue, TypeWorkers
<1>13. CASE Elapse
  <2>1. PICK k \in Keys : k = Head(later)
    BY <1>1, <1>13 DEF Elapse, TypeQueue
  <2>2. Append(ripe, k) \in Seq(Keys) /\ Tail(later) \in Seq(Keys)
    BY <1>1, <1>13 DEF Elapse, TypeQueue
  <2>3. worker' \in [Workers -> WorkerState]
    BY <1>1, <1>13, WorkerFacts DEF Elapse, TypeWorkers
  <2> QED
    BY <1>1, <1>13, <2>1, <2>2, <2>3 DEF Elapse, TypeRest, TypeQueue, TypeWorkers
<1>14. CASE \E e \in Emitters : Admit(e) \/ Overflow(e)
  <2>1. PICK e \in Emitters : Admit(e) \/ Overflow(e)
    BY <1>14
  <2>2. CASE Overflow(e)
    BY <1>1, <2>2 DEF Overflow, TypeRest, TypeQueue, TypeWorkers
  <2>3. CASE Admit(e)
    <3>1. PICK k \in Keys : k = emit[e]
      BY <2>3, HolderFacts DEF Admit
    <3>2. emit' \in [Emitters -> Keys \cup {None, Gone}] /\ admission' \in Seq(Emitters)
      BY <1>1, <2>3 DEF Admit, TypeRest
    <3>3. CASE MarkDirty(k)
      BY <1>1, <2>3, <3>2, <3>3 DEF Admit, MarkDirty, TypeRest, TypeQueue, TypeWorkers
    <3>4. CASE Push(k)
      <4>1. worker' \in [Workers -> WorkerState] /\ scan' \in ScanState /\ full' \in BOOLEAN
        BY <1>1, <3>4, NotifyTyped DEF Push, TypeWorkers
      <4> QED
        BY <1>1, <2>3, <3>2, <3>4, <4>1 DEF Admit, Push, TypeRest, TypeQueue, TypeWorkers
    <3> QED
      BY <2>3, <3>1, <3>3, <3>4 DEF Admit
  <2> QED
    BY <2>1, <2>2, <2>3
<1>15. CASE \E k \in Keys : Change(k)
  <2>1. PICK k \in Keys : Change(k)
    BY <1>15
  <2>2. stream' \in [Sources -> SUBSET Keys] /\ stale' \subseteq Keys
    BY <1>1, <2>1 DEF Change, TypeRest
  <2>3. worker' \in [Workers -> WorkerState]
    BY <1>1, <2>1, WorkerFacts DEF Change, TypeWorkers, Acting
  <2> QED
    BY <1>1, <2>1, <2>2, <2>3 DEF Change, TypeRest, TypeQueue, TypeWorkers
<1>16. CASE \E w \in Workers : WorkerQuits(w) \/ Sleep(w) \/ Read(w)
  <2>1. PICK w \in Workers : WorkerQuits(w) \/ Sleep(w) \/ Read(w)
    BY <1>16
  <2>2. worker' \in [Workers -> WorkerState]
    <3>1. CASE WorkerQuits(w)
      BY <1>1, <3>1, WorkerFacts DEF WorkerQuits, TypeWorkers
    <3>2. CASE Sleep(w)
      <4>1. later # <<>> => Head(later) \in Keys
        BY <1>1 DEF TypeQueue
      <4>2. /\ later # <<>> => Worker("timed", Head(later)) \in WorkerState
            /\ Worker("asleep", None) \in WorkerState
        BY <4>1, WorkerFacts
      <4> QED
        BY <1>1, <3>2, <4>2 DEF Sleep, TypeWorkers
    <3>3. CASE Read(w)
      <4>1. PICK s : s = [worker[w] EXCEPT !.pc = "fresh"]
        OBVIOUS
      <4>2. s \in WorkerState
        BY <1>1, <4>1 DEF TypeWorkers, WorkerState, Acting
      <4>3. worker' = [worker EXCEPT ![w] = s]
        BY <3>3, <4>1 DEF Read
      <4> QED
        BY <1>1, <4>2, <4>3 DEF TypeWorkers
    <3> QED
      BY <2>1, <3>1, <3>2, <3>3
  <2>3. UNCHANGED <<feed, queue, emitting, scanning, stale>>
    BY <2>1 DEF WorkerQuits, Sleep, Read
  <2> QED
    BY <1>1, <2>2, <2>3 DEF TypeRest, TypeQueue, TypeWorkers
<1>17. CASE \E w \in Workers : Take(w)
  <2>1. PICK w \in Workers : Take(w)
    BY <1>17
  <2>2. PICK k \in Keys : k = Head(ripe)
    BY <1>1, <2>1 DEF Take, TypeQueue
  <2>3. worker' \in [Workers -> WorkerState]
    <3>1. Worker("acting", k) \in WorkerState
      BY WorkerFacts DEF Acting
    <3> QED
      BY <1>1, <2>1, <2>2, <3>1 DEF Take, TypeWorkers
  <2>4. ripe' \in Seq(Keys) /\ active' \subseteq Keys /\ dirty' \subseteq Keys /\ retrying' \in Int
    BY <1>1, <2>1, <2>2 DEF Take, TypeQueue
  <2> QED
    BY <1>1, <2>1, <2>3, <2>4 DEF Take, TypeRest, TypeQueue, TypeWorkers
<1>18. CASE \E w \in Workers : Fail(w) \/ Recheck(w) \/ Succeed(w)
  <2>1. PICK w \in Workers : Fail(w) \/ Recheck(w) \/ Succeed(w)
    BY <1>18
  <2>2. Return(w, Acting)
    BY <2>1 DEF Fail, Recheck, Succeed, Return, Acting
  <2>3. stale' \subseteq Keys
    BY <1>1, <2>1 DEF Fail, Recheck, Succeed, TypeRest
  <2>4. Back(w) \in [Workers -> WorkerState]
    BY <1>1, BackFacts
  <2> QED
    BY <2>1, <2>2, <2>3, <2>4, FinishTyped, NextTypeSplit DEF Fail, Recheck, Succeed
<1> QED
  BY <1>2, <1>3, <1>4, <1>5, <1>6, <1>7, <1>8, <1>9, <1>10, <1>11, <1>12, <1>13, <1>14, <1>15, <1>16,
     <1>17, <1>18 DEF Next
-----------------------------------------------------------------------------
(* The books.                                                               *)

\* What the books say of a state, by the sets of its keys.
LEMMA BooksFromSets ==
  ASSUME TypeOK, BooksInv, TypeOK',
         Distinct(ripe'), Distinct(later'), Elems(ripe') \cap Elems(later') = {}, active' \cap Pending' = {},
         Cardinality(Entries') <= Capacity, retrying' = Cardinality(Waiting'),
         \A k \in Keys : k \notin Entries' => delay'[k] = 0
  PROVE  BooksInv'
  BY DEF BooksInv, Apart, Distinct

LEMMA BooksFrame ==
  ASSUME BooksInv, UNCHANGED <<ripe, later, active, delay, retrying>>
  PROVE  BooksInv'
  BY DEF BooksInv, Apart, Pending, Entries, Waiting, Distinct

LEMMA WaitingTyped == ASSUME TypeOK PROVE IsFiniteSet(Waiting) /\ Cardinality(Waiting) \in Nat
<1>1. Waiting \subseteq Pending
  BY DEF Waiting
<1> QED
  BY <1>1, EntriesTyped, FS_Subset, FS_CardinalityType

LEMMA PushBooks ==
  ASSUME IInv, TypeOK', NEW k \in Keys, Push(k)
  PROVE  BooksInv'
<1>1. TypeOK /\ BooksInv
  BY DEF IInv
<1>2. ripe' = Append(ripe, k) /\ later' = later /\ active' = active /\ delay' = delay /\ retrying' = retrying
      /\ k \notin Entries /\ Cardinality(Entries) < Capacity
  BY DEF Push
<1>3. ripe \in Seq(Keys) /\ k \notin Elems(ripe) /\ k \notin Elems(later) /\ k \notin active
  BY <1>1, <1>2 DEF TypeOK, Entries, Pending
<1>4. Elems(ripe') = Elems(ripe) \cup {k} /\ Distinct(ripe')
  BY <1>1, <1>2, <1>3, AppendFacts DEF BooksInv
<1>5. Pending' = Pending \cup {k} /\ Entries' = Entries \cup {k}
  BY <1>2, <1>4 DEF Pending, Entries
<1>6. Cardinality(Entries') <= Capacity
  <2>1. Cardinality(Entries \cup {k}) = Cardinality(Entries) + 1
    BY <1>1, <1>2, EntriesTyped, FS_AddElement
  <2> QED
    BY <1>1, <1>2, <1>5, <2>1, EntriesTyped, OptionsAssumption
<1>7. Waiting' = Waiting
  <2>1. delay[k] = 0
    BY <1>1, <1>2 DEF BooksInv
  <2> QED
    BY <1>2, <1>5, <2>1 DEF Waiting
<1> QED
  BY <1>1, <1>2, <1>3, <1>4, <1>5, <1>6, <1>7, BooksFromSets DEF BooksInv, Apart

LEMMA TakeBooks ==
  ASSUME IInv, TypeOK', NEW w \in Workers, Take(w)
  PROVE  BooksInv'
<1>1. TypeOK /\ BooksInv
  BY DEF IInv
<1>2. PICK k \in Keys : k = Head(ripe)
  BY <1>1 DEF Take, TypeOK
<1>3. /\ ripe # <<>> /\ ripe' = Tail(ripe) /\ later' = later /\ active' = active \cup {k} /\ delay' = delay
      /\ retrying' = IF delay[k] > 0 THEN retrying - 1 ELSE retrying
  BY <1>2 DEF Take
<1>4. ripe \in Seq(Keys) /\ Elems(ripe') = Elems(ripe) \ {k} /\ Distinct(ripe') /\ k \in Elems(ripe)
  BY <1>1, <1>2, <1>3, ElemsFacts, TailFacts DEF BooksInv, TypeOK
<1>5. k \notin Elems(later)
  BY <1>1, <1>4 DEF BooksInv, Apart
<1>6. Pending' = Pending \ {k} /\ Entries' = Entries
  BY <1>3, <1>4, <1>5 DEF Pending, Entries
<1>7. Waiting' = Waiting \ {k} /\ (k \in Waiting <=> delay[k] > 0)
  BY <1>3, <1>4, <1>6 DEF Waiting, Pending
<1>8. retrying' = Cardinality(Waiting')
  <2>1. Cardinality(Waiting \ {k}) = IF k \in Waiting THEN Cardinality(Waiting) - 1 ELSE Cardinality(Waiting)
    BY <1>1, WaitingTyped, FS_RemoveElement
  <2>2. retrying = Cardinality(Waiting)
    BY <1>1 DEF BooksInv
  <2> QED
    BY <1>3, <1>7, <2>1, <2>2
<1>9. Elems(ripe') \cap Elems(later') = {} /\ active' \cap Pending' = {}
  BY <1>1, <1>3, <1>4, <1>5, <1>6 DEF BooksInv, Apart
<1> QED
  BY <1>1, <1>3, <1>4, <1>6, <1>8, <1>9, BooksFromSets DEF BooksInv

LEMMA ElapseBooks ==
  ASSUME IInv, TypeOK', Elapse
  PROVE  BooksInv' /\ Pending' = Pending /\ Entries' = Entries
<1>1. TypeOK /\ BooksInv
  BY DEF IInv
<1>2. PICK k \in Keys : k = Head(later)
  BY <1>1 DEF Elapse, TypeOK
<1>3. /\ later # <<>> /\ later' = Tail(later) /\ ripe' = Append(ripe, k)
      /\ active' = active /\ delay' = delay /\ retrying' = retrying
  BY <1>2 DEF Elapse
<1>4. later \in Seq(Keys) /\ ripe \in Seq(Keys)
  BY <1>1 DEF TypeOK
<1>5. Elems(later') = Elems(later) \ {k} /\ Distinct(later') /\ k \in Elems(later)
  BY <1>1, <1>2, <1>3, <1>4, ElemsFacts, TailFacts DEF BooksInv
<1>6. k \notin Elems(ripe)
  BY <1>1, <1>5 DEF BooksInv, Apart
<1>7. Elems(ripe') = Elems(ripe) \cup {k} /\ Distinct(ripe')
  BY <1>1, <1>3, <1>4, <1>6, AppendFacts DEF BooksInv
<1>8. Pending' = Pending /\ Entries' = Entries
  BY <1>3, <1>5, <1>7 DEF Pending, Entries
<1>9. Waiting' = Waiting
  BY <1>3, <1>8 DEF Waiting
<1>10. Elems(ripe') \cap Elems(later') = {} /\ active' \cap Pending' = {}
  BY <1>1, <1>3, <1>5, <1>6, <1>7, <1>8 DEF BooksInv, Apart
<1>11. BooksInv'
  BY <1>1, <1>3, <1>5, <1>7, <1>8, <1>9, <1>10, BooksFromSets DEF BooksInv
<1> QED
  BY <1>8, <1>11

\* An action on k has ended, and k is back in the heap.
LEMMA BackInHeap ==
  ASSUME IInv, TypeOK', NEW k \in active, active' = active \ {k},
         \A j \in Keys : j # k => delay'[j] = delay[j],
         \/ ripe' = ripe /\ \E p \in 1 .. Len(later) + 1 : later' = InsertAt(later, p, k)
         \/ ripe' = Append(ripe, k) /\ later' = later,
         retrying' = IF delay'[k] > 0 THEN retrying + 1 ELSE retrying
  PROVE  BooksInv' /\ Pending' = Pending \cup {k} /\ Entries' = Entries
<1>1. TypeOK /\ BooksInv
  BY DEF IInv
<1>2. ripe \in Seq(Keys) /\ later \in Seq(Keys) /\ k \in Keys
  BY <1>1 DEF TypeOK
<1>3. k \notin Pending /\ k \notin Elems(ripe) /\ k \notin Elems(later)
  BY <1>1 DEF BooksInv, Apart, Pending
<1>4. /\ Distinct(ripe') /\ Distinct(later')
      /\ \/ Elems(ripe') = Elems(ripe) /\ Elems(later') = Elems(later) \cup {k}
         \/ Elems(ripe') = Elems(ripe) \cup {k} /\ Elems(later') = Elems(later)
  <2>1. CASE ripe' = ripe /\ \E p \in 1 .. Len(later) + 1 : later' = InsertAt(later, p, k)
    BY <1>1, <1>2, <1>3, <2>1, InsertFacts DEF BooksInv
  <2>2. CASE ripe' = Append(ripe, k) /\ later' = later
    BY <1>1, <1>2, <1>3, <2>2, AppendFacts DEF BooksInv
  <2> QED
    BY <2>1, <2>2
<1>5. Pending' = Pending \cup {k} /\ Entries' = Entries
  BY <1>4 DEF Pending, Entries
<1>6. Elems(ripe') \cap Elems(later') = {} /\ active' \cap Pending' = {}
  BY <1>1, <1>3, <1>4, <1>5 DEF BooksInv, Apart
<1>7. Pending \subseteq Keys /\ k \notin Waiting
  BY <1>1, <1>3, EntriesTyped DEF Waiting
<1>8. Waiting' = IF delay'[k] > 0 THEN Waiting \cup {k} ELSE Waiting
  BY <1>3, <1>5, <1>7 DEF Waiting
<1>9. retrying' = Cardinality(Waiting')
  <2>1. Cardinality(Waiting \cup {k}) = Cardinality(Waiting) + 1
    BY <1>1, <1>7, WaitingTyped, FS_AddElement
  <2>2. retrying = Cardinality(Waiting)
    BY <1>1 DEF BooksInv
  <2> QED
    BY <1>8, <2>1, <2>2
<1>10. \A j \in Keys : j \notin Entries' => delay'[j] = 0
  <2>1. k \in Entries
    BY DEF Entries
  <2> QED
    BY <1>1, <1>5, <2>1 DEF BooksInv
<1>11. BooksInv'
  BY <1>1, <1>4, <1>5, <1>6, <1>9, <1>10, BooksFromSets DEF BooksInv
<1> QED
  BY <1>5, <1>11

\* An action on k has ended, and the entry of k goes.
LEMMA EntryGone ==
  ASSUME IInv, TypeOK', NEW k \in active, active' = active \ {k}, delay' = [delay EXCEPT ![k] = 0],
         UNCHANGED <<ripe, later, retrying>>
  PROVE  BooksInv' /\ Pending' = Pending
<1>1. TypeOK /\ BooksInv
  BY DEF IInv
<1>2. Pending' = Pending
  BY DEF Pending
<1>3. k \notin Pending /\ k \in Keys
  BY <1>1 DEF BooksInv, Apart, TypeOK
<1>4. Entries' = Entries \ {k}
  BY <1>2, <1>3 DEF Entries
<1>5. \A j \in Keys : delay'[j] = IF j = k THEN 0 ELSE delay[j]
  BY <1>1 DEF TypeOK
<1>6. Pending \subseteq Keys /\ Cardinality(Entries) \in Nat /\ IsFiniteSet(Entries)
  BY <1>1, EntriesTyped
<1>7. Waiting' = Waiting
  BY <1>2, <1>3, <1>5, <1>6 DEF Waiting
<1>8. Cardinality(Entries') <= Capacity
  <2>1. Cardinality(Entries \ {k}) <= Cardinality(Entries)
    BY <1>6, FS_Subset
  <2>2. Cardinality(Entries \ {k}) \in Nat
    BY <1>6, FS_RemoveElement, FS_CardinalityType
  <2> QED
    BY <1>1, <1>4, <1>6, <2>1, <2>2, OptionsAssumption DEF BooksInv
<1>9. active' \cap Pending' = {} /\ Elems(ripe') \cap Elems(later') = {}
  BY <1>1, <1>2 DEF BooksInv, Apart
<1>10. \A j \in Keys : j \notin Entries' => delay'[j] = 0
  BY <1>1, <1>4, <1>5 DEF BooksInv
<1>11. BooksInv'
  BY <1>1, <1>7, <1>8, <1>9, <1>10, BooksFromSets DEF BooksInv
<1> QED
  BY <1>2, <1>11

LEMMA FinishBooks ==
  ASSUME IInv, TypeOK', NEW k \in active, NEW f, active' = active \ {k},
         FinishFailed(k, f) \/ FinishPending(k, f) \/ FinishDone(k, f)
  PROVE  /\ BooksInv'
         /\ Pending \subseteq Pending' /\ Pending' \subseteq Pending \cup {k}
         /\ FinishFailed(k, f) \/ FinishPending(k, f) \/ k \in dirty => k \in Pending'
<1>1. TypeOK /\ k \in Keys /\ delay \in [Keys -> Delays]
  BY DEF IInv, TypeOK, Delays
<1>2. CASE FinishFailed(k, f)
  <2>1. delay'[k] > 0 /\ \A j \in Keys : j # k => delay'[j] = delay[j]
    BY <1>1, <1>2, DelayFacts DEF FinishFailed
  <2> QED
    BY <1>2, <2>1, BackInHeap DEF FinishFailed
<1>3. CASE FinishPending(k, f)
  <2>1. ~(delay'[k] > 0) /\ \A j \in Keys : j # k => delay'[j] = delay[j]
    BY <1>1, <1>3 DEF FinishPending
  <2> QED
    BY <1>3, <2>1, BackInHeap DEF FinishPending
<1>4. CASE FinishDone(k, f) /\ k \in dirty
  <2>1. ~(delay'[k] > 0) /\ \A j \in Keys : j # k => delay'[j] = delay[j]
    BY <1>1, <1>4 DEF FinishDone
  <2> QED
    BY <1>4, <2>1, BackInHeap DEF FinishDone
<1>5. CASE FinishDone(k, f) /\ k \notin dirty
  <2>1. BooksInv' /\ Pending' = Pending
    BY <1>5, EntryGone DEF FinishDone
  <2>2. (~FinishFailed(k, f) /\ ~FinishPending(k, f)) \/ k \in Pending'
    BY <1>2, <1>3
  <2> QED
    BY <1>5, <2>1, <2>2
<1> QED
  BY <1>2, <1>3, <1>4, <1>5

LEMMA RestartBooks ==
  ASSUME IInv, TypeOK', Restart
  PROVE  BooksInv' /\ Entries' = Entries
<1>1. TypeOK /\ BooksInv /\ IsFiniteSet(active)
  BY EntriesTyped DEF IInv
<1>2. ripe \in Seq(Keys) /\ later \in Seq(Keys) /\ active \in SUBSET Keys
  BY <1>1 DEF TypeOK
<1>3. active \cap Elems(later) = {} /\ active \cap Elems(ripe) = {}
  BY <1>1 DEF BooksInv, Apart, Pending
<1>4. Distinct(later') /\ Elems(later') = Elems(later) \cup active
  <2>1. PICK t : t = later' /\ t \in Merges(later, active)
    BY DEF Restart
  <2>2. Distinct(later)
    BY <1>1 DEF BooksInv
  <2>3. Distinct(t) /\ Elems(t) = Elems(later) \cup active
    BY <1>1, <1>2, <1>3, <2>1, <2>2, MergeFacts
  <2> QED
    BY <2>1, <2>3
<1>5. ripe' = ripe /\ active' = {} /\ retrying' = retrying + Cardinality(active)
      /\ \A k \in Keys : delay'[k] = IF k \in active THEN nextDelay(delay[k]) ELSE delay[k]
  BY DEF Restart
<1>6. Pending' = Pending \cup active /\ Entries' = Entries
  BY <1>4, <1>5 DEF Pending, Entries
<1>7. Waiting' = Waiting \cup active
  <2>1. Pending \subseteq Keys
    BY <1>1, EntriesTyped
  <2>2. \A k \in active : delay'[k] > 0
    BY <1>1, <1>2, <1>5, DelayFacts DEF TypeOK, Delays
  <2>3. \A k \in Pending : k \notin active /\ delay'[k] = delay[k]
    BY <1>1, <1>5, <2>1 DEF BooksInv, Apart
  <2> QED
    BY <1>6, <2>2, <2>3 DEF Waiting
<1>8. retrying' = Cardinality(Waiting')
  <2>1. Waiting \cap active = {}
    BY <1>1 DEF Waiting, BooksInv, Apart
  <2>2. Cardinality(Waiting \cap active) = 0
    BY <2>1, FS_EmptySet
  <2>3. Cardinality(Waiting \cup active) = Cardinality(Waiting) + Cardinality(active) - Cardinality(Waiting \cap active)
    BY <1>1, WaitingTyped, FS_Union
  <2>4. Cardinality(Waiting) \in Nat /\ Cardinality(active) \in Nat /\ retrying = Cardinality(Waiting)
    BY <1>1, WaitingTyped, FS_CardinalityType DEF BooksInv
  <2> QED
    BY <1>5, <1>7, <2>2, <2>3, <2>4
<1>9. Elems(ripe') \cap Elems(later') = {} /\ active' \cap Pending' = {}
  BY <1>1, <1>3, <1>4, <1>5 DEF BooksInv, Apart
<1>10. \A k \in Keys : k \notin Entries' => delay'[k] = 0
  BY <1>1, <1>5, <1>6 DEF BooksInv, Entries
<1>11. BooksInv'
  BY <1>1, <1>4, <1>5, <1>6, <1>8, <1>9, <1>10, BooksFromSets DEF BooksInv
<1> QED
  BY <1>6, <1>11

LEMMA EmptyBooks ==
  /\ Distinct(<<>>) /\ Elems(<<>>) = {}
  /\ ripe = <<>> /\ later = <<>> /\ active = {} /\ delay = [k \in Keys |-> 0] /\ retrying = 0 => BooksInv
<1>1. Distinct(<<>>) /\ Elems(<<>>) = {}
  BY DEF Distinct, Elems
<1>2. ASSUME ripe = <<>>, later = <<>>, active = {}, delay = [k \in Keys |-> 0], retrying = 0
      PROVE  BooksInv
  <2>1. Pending = {} /\ Entries = {} /\ Waiting = {}
    BY <1>1, <1>2 DEF Pending, Entries, Waiting
  <2>2. Cardinality(Entries) = 0 /\ Cardinality(Waiting) = 0
    BY <2>1, FS_EmptySet
  <2> QED
    BY <1>1, <1>2, <2>1, <2>2, OptionsAssumption DEF BooksInv, Apart
<1> QED
  BY <1>1, <1>2

LEMMA NextEmptyBooks ==
  (ripe = <<>> /\ later = <<>> /\ active = {} /\ delay = [k \in Keys |-> 0] /\ retrying = 0 => BooksInv)'
  BY EmptyBooks, PTL

LEMMA BooksStep == ASSUME IInv, [Next]_vars, TypeOK' PROVE BooksInv'
<1>1. BooksInv
  BY DEF IInv
<1>2. CASE Start \/ SetReady \/ Reconnect \/ ScanQuits \/ ScanBegins \/ ScanCompletes \/ ScanFails \/ ScanDue
           \/ UNCHANGED vars
  <2>1. UNCHANGED <<ripe, later, active, delay, retrying>>
    BY <1>2 DEF Start, SetReady, Reconnect, ScanQuits, ScanBegins, ScanCompletes, ScanFails, ScanDue, vars, queue
  <2> QED
    BY <1>1, <2>1, BooksFrame
<1>3. CASE \E s \in Sources : Open(s) \/ WatchFails(s) \/ ReceiverQuits(s) \/ \E k \in Keys : Receive(s, k)
  <2>1. UNCHANGED <<ripe, later, active, delay, retrying>>
    BY <1>3 DEF Open, WatchFails, ReceiverQuits, Receive, queue
  <2> QED
    BY <1>1, <2>1, BooksFrame
<1>4. CASE \E k \in Keys : ScanEmits(k) \/ Change(k)
  <2>1. UNCHANGED <<ripe, later, active, delay, retrying>>
    BY <1>4 DEF ScanEmits, Change, queue
  <2> QED
    BY <1>1, <2>1, BooksFrame
<1>5. CASE \E w \in Workers : WorkerQuits(w) \/ Sleep(w) \/ Read(w)
  <2>1. UNCHANGED <<ripe, later, active, delay, retrying>>
    BY <1>5 DEF WorkerQuits, Sleep, Read, queue
  <2> QED
    BY <1>1, <2>1, BooksFrame
<1>6. CASE SetupFails \/ Join
  BY <1>6, RestartBooks DEF SetupFails, Join, EndSession
<1>7. CASE ProcessRestart
  BY <1>7, NextEmptyBooks DEF ProcessRestart
<1>8. CASE Elapse
  BY <1>8, ElapseBooks
<1>9. CASE \E e \in Emitters : Admit(e) \/ Overflow(e)
  <2>1. PICK e \in Emitters : Admit(e) \/ Overflow(e)
    BY <1>9
  <2>2. CASE Overflow(e)
    BY <1>1, <2>2, BooksFrame DEF Overflow, queue
  <2>3. CASE Admit(e)
    <3>1. PICK k \in Keys : k = emit[e]
      BY <2>3, HolderFacts DEF Admit
    <3>2. CASE MarkDirty(k)
      BY <1>1, <3>2, BooksFrame DEF MarkDirty
    <3> QED
      BY <2>3, <3>1, <3>2, PushBooks DEF Admit
  <2> QED
    BY <2>1, <2>2, <2>3
<1>10. CASE \E w \in Workers : Take(w)
  BY <1>10, TakeBooks
<1>11. CASE \E w \in Workers : Fail(w) \/ Recheck(w) \/ Succeed(w)
  <2>1. PICK w \in Workers : Fail(w) \/ Recheck(w) \/ Succeed(w)
    BY <1>11
  <2>2. worker[w].pc \in Acting /\ active' = active \ {worker[w].key}
    BY <2>1 DEF Fail, Recheck, Succeed, Return, Acting
  <2>3. PICK k \in active : k = worker[w].key
    BY <2>2, HeldKey
  <2>4. PICK f : f = Back(w)
    OBVIOUS
  <2>5. FinishFailed(k, f) \/ FinishPending(k, f) \/ FinishDone(k, f)
    BY <2>1, <2>3, <2>4 DEF Fail, Recheck, Succeed
  <2> QED
    BY <2>2, <2>3, <2>5, FinishBooks
<1> QED
  BY <1>2, <1>3, <1>4, <1>5, <1>6, <1>7, <1>8, <1>9, <1>10, <1>11 DEF Next
-----------------------------------------------------------------------------
(* Workers.                                                                 *)

\* The steps that set a worker back to its loop.
Ends(w) == Fail(w) \/ Recheck(w) \/ Succeed(w)

LEMMA NotifiedWorkers ==
  ASSUME TypeOK, NEW f \in [Workers -> WorkerState], Notify(f)
  PROVE  /\ \A v \in Workers : worker'[v].pc \notin {"asleep", "timed"}
         /\ \A v \in Workers : worker'[v].pc \in Acting => worker'[v] = f[v]
         /\ \A v \in Workers : f[v].pc \in Acting => worker'[v] = f[v]
         /\ scan' = WokenScan(scan) /\ full' = FALSE
  BY WokenFacts DEF Notify

LEMMA EndFacts ==
  ASSUME IInv, TypeOK', NEW w \in Workers, Ends(w)
  PROVE  /\ worker[w].pc \in Acting /\ worker[w].key \in active
         /\ active' = active \ {worker[w].key}
         /\ \A v \in Workers : worker'[v].pc \notin {"asleep", "timed"}
         /\ \A v \in Workers : worker'[v].pc \in Acting => v # w /\ worker'[v] = worker[v]
         /\ \A v \in Workers \ {w} : worker[v].pc \in Acting => worker'[v] = worker[v]
         /\ scan' = WokenScan(scan) /\ full' = FALSE
         /\ UNCHANGED <<session, open, stream, ready, emit, admission, todo, dirty>>
         /\ Pending \subseteq Pending'
         /\ Fail(w) \/ Recheck(w) \/ worker[w].key \in dirty => worker[w].key \in Pending'
<1>1. TypeOK /\ TypeWorkers
  BY TypeSplit DEF IInv
<1>2. worker[w].pc \in Acting /\ worker[w].key \in active /\ active' = active \ {worker[w].key}
  <2>1. worker[w].pc \in Acting /\ active' = active \ {worker[w].key}
    BY DEF Ends, Fail, Recheck, Succeed, Return, Acting
  <2> QED
    BY <2>1, HeldKey
<1>3. PICK k \in active : k = worker[w].key
  BY <1>2
<1>4. PICK f \in [Workers -> WorkerState] : f = Back(w)
  BY <1>1, BackFacts
<1>5. FinishFailed(k, f) \/ FinishPending(k, f) \/ FinishDone(k, f)
  BY <1>3, <1>4 DEF Ends, Fail, Recheck, Succeed
<1>6. Notify(f)
  BY <1>5 DEF FinishFailed, FinishPending, FinishDone
<1>7. f[w].pc = "loop" /\ \A v \in Workers \ {w} : f[v] = worker[v]
  BY <1>1, <1>4, BackFacts, WorkerFacts
<1>8. \A v \in Workers : worker'[v].pc \in Acting => v # w /\ worker'[v] = worker[v]
  <2>1. \A v \in Workers : worker'[v].pc \in Acting => f[v].pc \in Acting /\ worker'[v] = f[v]
    BY <1>1, <1>6, NotifiedWorkers
  <2> QED
    BY <1>7, <2>1 DEF Acting
<1>9. \A v \in Workers \ {w} : worker[v].pc \in Acting => worker'[v] = worker[v]
  BY <1>1, <1>6, <1>7, NotifiedWorkers
<1>10. UNCHANGED <<session, open, stream, ready, emit, admission, todo, dirty>>
  BY <1>5 DEF Ends, Fail, Recheck, Succeed, Return, FinishFailed, FinishPending, FinishDone, feed
<1>11. /\ Pending \subseteq Pending'
       /\ FinishFailed(k, f) \/ FinishPending(k, f) \/ k \in dirty => k \in Pending'
  BY <1>2, <1>3, <1>5, FinishBooks
<1>12. Fail(w) \/ Recheck(w) => FinishFailed(k, f) \/ FinishPending(k, f)
  BY <1>3, <1>4 DEF Fail, Recheck
<1> QED
  BY <1>1, <1>2, <1>3, <1>6, <1>8, <1>9, <1>10, <1>11, <1>12, NotifiedWorkers

LEMMA WorkersKept ==
  ASSUME WorkersInv, active \subseteq active',
         \A w \in Workers : worker'[w].pc \in Acting =>
           worker[w].pc \in Acting /\ worker'[w].key = worker[w].key
  PROVE  WorkersInv'
  BY DEF WorkersInv

\* No worker acts.
LEMMA NobodyActs ==
  ASSUME \A w \in Workers : worker'[w].pc \in {"gone", "loop"}
  PROVE  WorkersInv'
  BY DEF WorkersInv, Acting

LEMMA WorkersStep == ASSUME IInv, [Next]_vars, TypeOK' PROVE WorkersInv'
<1>1. TypeOK /\ WorkersInv /\ worker \in [Workers -> WorkerState]
  BY TypeSplit DEF IInv, TypeWorkers
<1>2. CASE Reconnect \/ ScanQuits \/ ScanBegins \/ ScanCompletes \/ ScanFails \/ ScanDue \/ UNCHANGED vars
  <2>1. UNCHANGED <<worker, active>>
    BY <1>2 DEF Reconnect, ScanQuits, ScanBegins, ScanCompletes, ScanFails, ScanDue, vars, queue
  <2> QED
    BY <1>1, <2>1, WorkersKept
<1>3. CASE \E s \in Sources : Open(s) \/ WatchFails(s) \/ ReceiverQuits(s) \/ \E k \in Keys : Receive(s, k)
  <2>1. UNCHANGED <<worker, active>>
    BY <1>3 DEF Open, WatchFails, ReceiverQuits, Receive, queue
  <2> QED
    BY <1>1, <2>1, WorkersKept
<1>4. CASE \E k \in Keys : ScanEmits(k)
  <2>1. UNCHANGED <<worker, active>>
    BY <1>4 DEF ScanEmits, queue
  <2> QED
    BY <1>1, <2>1, WorkersKept
<1>5. CASE Start
  <2>1. \A w \in Workers : worker'[w].pc = "loop"
    BY <1>5, WorkerFacts DEF Start
  <2> QED
    BY <2>1, NobodyActs
<1>6. CASE SetReady
  <2>1. Notify(worker) /\ active' = active
    BY <1>6 DEF SetReady
  <2> QED
    BY <1>1, <2>1, NotifiedWorkers, WorkersKept
<1>7. CASE SetupFails \/ Join \/ ProcessRestart
  <2>1. worker' = Idle
    BY <1>7 DEF SetupFails, Join, ProcessRestart, IInv, SessionInv
  <2>2. \A w \in Workers : worker'[w].pc = "gone"
    BY <2>1, WorkerFacts
  <2> QED
    BY <2>2, NobodyActs
<1>8. CASE Elapse
  <2>1. \A w \in Workers : worker'[w] = Looping \/ worker'[w] = worker[w]
    BY <1>8 DEF Elapse
  <2>2. Looping.pc \notin Acting
    BY DEF Looping, Worker, Acting
  <2>3. active' = active
    BY <1>8 DEF Elapse
  <2> QED
    BY <1>1, <2>1, <2>2, <2>3, WorkersKept
<1>9. CASE \E e \in Emitters : Admit(e) \/ Overflow(e)
  <2>1. PICK e \in Emitters : Admit(e) \/ Overflow(e)
    BY <1>9
  <2>2. CASE Overflow(e) \/ MarkDirty(emit[e])
    <3>1. UNCHANGED <<worker, active>>
      BY <2>2 DEF Overflow, MarkDirty, queue
    <3> QED
      BY <1>1, <3>1, WorkersKept
  <2>3. CASE Push(emit[e])
    <3>1. Notify(worker) /\ active' = active
      BY <2>3 DEF Push
    <3> QED
      BY <1>1, <3>1, NotifiedWorkers, WorkersKept
  <2> QED
    BY <2>1, <2>2, <2>3 DEF Admit
<1>10. CASE \E k \in Keys : Change(k)
  <2>1. PICK k \in Keys : Change(k)
    BY <1>10
  <2>2. \A w \in Workers : \/ worker'[w] = worker[w]
                           \/ worker[w] = Worker("fresh", k) /\ worker'[w] = Worker("outdated", k)
    BY <2>1 DEF Change
  <2>3. /\ Worker("fresh", k).pc \in Acting /\ Worker("fresh", k).key = k
        /\ Worker("outdated", k).pc \in Acting /\ Worker("outdated", k).key = k
    BY DEF Worker, Acting
  <2>4. active' = active
    BY <2>1 DEF Change, queue
  <2> QED
    BY <1>1, <2>2, <2>3, <2>4, WorkersKept
<1>11. CASE \E w \in Workers : WorkerQuits(w) \/ Sleep(w)
  <2>1. PICK w \in Workers : WorkerQuits(w) \/ Sleep(w)
    BY <1>11
  <2>2. \A p \in {"gone", "asleep", "timed"} : \A k : Worker(p, k).pc \notin Acting
    BY DEF Worker, Acting
  <2>3. worker'[w].pc \notin Acting
    BY <1>1, <2>1, <2>2 DEF WorkerQuits, Sleep
  <2>4. \A v \in Workers \ {w} : worker'[v] = worker[v]
    BY <1>1, <2>1 DEF WorkerQuits, Sleep
  <2>5. active' = active
    BY <2>1 DEF WorkerQuits, Sleep, queue
  <2> QED
    BY <1>1, <2>3, <2>4, <2>5, WorkersKept
<1>12. CASE \E w \in Workers : Read(w)
  <2>1. PICK w \in Workers : Read(w)
    BY <1>12
  <2>2. PICK s : s = [worker[w] EXCEPT !.pc = "fresh"]
    OBVIOUS
  <2>3. s.key = worker[w].key /\ worker[w].pc \in Acting
    BY <1>1, <2>1, <2>2 DEF WorkerState, Read, Acting
  <2>4. \A v \in Workers : worker'[v] = IF v = w THEN s ELSE worker[v]
    BY <1>1, <2>1, <2>2 DEF Read
  <2>5. active' = active
    BY <2>1 DEF Read, queue
  <2> QED
    BY <1>1, <2>3, <2>4, <2>5, WorkersKept
<1>13. CASE \E w \in Workers : Take(w)
  <2>1. PICK w \in Workers : Take(w)
    BY <1>13
  <2>2. PICK k \in Keys : k = Head(ripe)
    BY <1>1, <2>1 DEF Take, TypeOK
  <2>3. k \notin active
    <3>1. k \in Elems(ripe)
      BY <1>1, <2>1, <2>2, ElemsFacts DEF Take, TypeOK
    <3> QED
      BY <3>1 DEF IInv, BooksInv, Apart, Pending
  <2>4. \A v \in Workers : worker'[v] = IF v = w THEN Worker("acting", k) ELSE worker[v]
    BY <1>1, <2>1, <2>2 DEF Take
  <2>5. Worker("acting", k).key = k
    BY DEF Worker
  <2>6. active' = active \cup {k}
    BY <2>1, <2>2 DEF Take
  <2> QED
    BY <1>1, <2>3, <2>4, <2>5, <2>6 DEF WorkersInv
<1>14. CASE \E w \in Workers : Ends(w)
  <2>1. PICK w \in Workers : Ends(w)
    BY <1>14
  <2>2. /\ worker[w].pc \in Acting /\ active' = active \ {worker[w].key}
        /\ \A v \in Workers : worker'[v].pc \in Acting => v # w /\ worker'[v] = worker[v]
    BY <2>1, EndFacts
  <2> QED
    BY <1>1, <2>2 DEF WorkersInv
<1> QED
  BY <1>2, <1>3, <1>4, <1>5, <1>6, <1>7, <1>8, <1>9, <1>10, <1>11, <1>12, <1>13, <1>14 DEF Next, Ends
-----------------------------------------------------------------------------
(* Sleep.                                                                   *)

WakeWorkers ==
  \A w \in Workers :
    /\ worker[w].pc = "asleep" => ~ready \/ Pending = {}
    /\ worker[w].pc = "timed" => ripe = <<>> /\ later # <<>> /\ worker[w].key = Head(later)
WakeHolder == full => Cardinality(Entries) >= Capacity
WakeScan == scan.pc = "asleep" => ~ready

LEMMA WakeSplit == NoLostWakeup <=> WakeWorkers /\ WakeHolder /\ WakeScan
  BY DEF NoLostWakeup, WakeWorkers, WakeHolder, WakeScan

LEMMA NextWakeSplit == (NoLostWakeup <=> WakeWorkers /\ WakeHolder /\ WakeScan)'
  BY WakeSplit, PTL

LEMMA NobodySleeps ==
  ASSUME \A w \in Workers : worker'[w].pc \notin {"asleep", "timed"}
  PROVE  WakeWorkers'
  BY DEF WakeWorkers

LEMMA SleepersKept ==
  ASSUME WakeWorkers, UNCHANGED <<ready, ripe, later>>,
         \A w \in Workers : worker'[w].pc \in {"asleep", "timed"} => worker'[w] = worker[w]
  PROVE  WakeWorkers'
  BY DEF WakeWorkers, Pending

\* Nobody sleeps with a timer while a key is due.
LEMMA NoTimerBesideWork ==
  ASSUME WakeWorkers, ripe # <<>>
  PROVE  \A w \in Workers : worker[w].pc # "timed"
  BY DEF WakeWorkers

LEMMA WakeWorkersStep == ASSUME IInv, [Next]_vars, TypeOK' PROVE WakeWorkers'
<1>1. TypeOK /\ WakeWorkers /\ worker \in [Workers -> WorkerState]
  BY TypeSplit, WakeSplit DEF IInv, TypeWorkers
<1>2. CASE Reconnect \/ ScanQuits \/ ScanBegins \/ ScanCompletes \/ ScanFails \/ ScanDue \/ UNCHANGED vars
  <2>1. UNCHANGED <<worker, ready, ripe, later>>
    BY <1>2 DEF Reconnect, ScanQuits, ScanBegins, ScanCompletes, ScanFails, ScanDue, vars, queue
  <2> QED
    BY <1>1, <2>1, SleepersKept
<1>3. CASE \E s \in Sources : Open(s) \/ WatchFails(s) \/ ReceiverQuits(s) \/ \E k \in Keys : Receive(s, k)
  <2>1. UNCHANGED <<worker, ready, ripe, later>>
    BY <1>3 DEF Open, WatchFails, ReceiverQuits, Receive, queue
  <2> QED
    BY <1>1, <2>1, SleepersKept
<1>4. CASE \E k \in Keys : ScanEmits(k)
  <2>1. UNCHANGED <<worker, ready, ripe, later>>
    BY <1>4 DEF ScanEmits, queue
  <2> QED
    BY <1>1, <2>1, SleepersKept
<1>5. CASE Start
  <2>1. \A w \in Workers : worker'[w].pc = "loop"
    BY <1>5, WorkerFacts DEF Start
  <2> QED
    BY <2>1, NobodySleeps
<1>6. CASE SetReady
  <2>1. Notify(worker)
    BY <1>6 DEF SetReady
  <2> QED
    BY <1>1, <2>1, NotifiedWorkers, NobodySleeps
<1>7. CASE SetupFails \/ Join \/ ProcessRestart
  <2>1. worker' = Idle
    BY <1>7 DEF SetupFails, Join, ProcessRestart, IInv, SessionInv
  <2>2. \A w \in Workers : worker'[w].pc = "gone"
    BY <2>1, WorkerFacts
  <2> QED
    BY <2>2, NobodySleeps
<1>8. CASE Elapse
  <2>1. PICK k \in Keys : k = Head(later)
    BY <1>1, <1>8 DEF Elapse, TypeOK
  <2>2. Looping.pc = "loop" /\ \A w \in Workers : worker[w] = Worker(worker[w].pc, worker[w].key)
    BY <1>1, WorkerFacts DEF WorkerState, Worker
  <2>3. \A w \in Workers : worker'[w] = IF worker[w] = Worker("timed", k) THEN Looping ELSE worker[w]
    BY <1>8, <2>1 DEF Elapse
  <2>4. \A w \in Workers : worker'[w].pc # "timed"
    <3> SUFFICES ASSUME NEW w \in Workers, worker'[w].pc = "timed"
                 PROVE  FALSE
      OBVIOUS
    <3>1. worker'[w] = worker[w]
      BY <2>2, <2>3
    <3>2. worker[w].pc = "timed" /\ worker[w].key = k
      BY <1>1, <2>1, <3>1 DEF WakeWorkers
    <3> QED
      BY <2>2, <2>3, <3>2
  <2>5. \A w \in Workers : worker'[w].pc = "asleep" => worker[w].pc = "asleep"
    BY <2>2, <2>3
  <2>6. Pending' = Pending /\ ready' = ready
    BY <1>8, ElapseBooks DEF Elapse
  <2> QED
    BY <1>1, <2>4, <2>5, <2>6 DEF WakeWorkers
<1>9. CASE \E e \in Emitters : Admit(e) \/ Overflow(e)
  <2>1. PICK e \in Emitters : Admit(e) \/ Overflow(e)
    BY <1>9
  <2>2. CASE Overflow(e) \/ MarkDirty(emit[e])
    <3>1. UNCHANGED <<worker, ready, ripe, later>>
      BY <2>2 DEF Overflow, MarkDirty, queue
    <3> QED
      BY <1>1, <3>1, SleepersKept
  <2>3. CASE Push(emit[e])
    <3>1. Notify(worker)
      BY <2>3 DEF Push
    <3> QED
      BY <1>1, <3>1, NotifiedWorkers, NobodySleeps
  <2> QED
    BY <2>1, <2>2, <2>3 DEF Admit
<1>10. CASE \E k \in Keys : Change(k)
  <2>1. PICK k \in Keys : Change(k)
    BY <1>10
  <2>2. \A w \in Workers : worker'[w] = worker[w] \/ worker'[w] = Worker("outdated", k)
    BY <2>1 DEF Change
  <2>3. Worker("outdated", k).pc \notin {"asleep", "timed"}
    BY DEF Worker
  <2>4. UNCHANGED <<ready, ripe, later>>
    BY <2>1 DEF Change, queue
  <2> QED
    BY <1>1, <2>2, <2>3, <2>4, SleepersKept
<1>11. CASE \E w \in Workers : WorkerQuits(w) \/ Read(w)
  <2>1. PICK w \in Workers : WorkerQuits(w) \/ Read(w)
    BY <1>11
  <2>2. worker'[w].pc \in {"gone", "fresh"}
    <3>1. CASE WorkerQuits(w)
      BY <1>1, <3>1, WorkerFacts DEF WorkerQuits, Worker
    <3>2. CASE Read(w)
      <4>1. PICK s : s = [worker[w] EXCEPT !.pc = "fresh"]
        OBVIOUS
      <4>2. s.pc = "fresh"
        BY <1>1, <4>1 DEF WorkerState
      <4> QED
        BY <1>1, <3>2, <4>1, <4>2 DEF Read
    <3> QED
      BY <2>1, <3>1, <3>2
  <2>3. \A v \in Workers \ {w} : worker'[v] = worker[v]
    BY <1>1, <2>1 DEF WorkerQuits, Read
  <2>4. UNCHANGED <<ready, ripe, later>>
    BY <2>1 DEF WorkerQuits, Read, queue
  <2>5. \A v \in Workers : worker'[v].pc \in {"asleep", "timed"} => worker'[v] = worker[v]
    BY <2>2, <2>3
  <2> QED
    BY <1>1, <2>4, <2>5, SleepersKept
<1>12. CASE \E w \in Workers : Sleep(w)
  <2>1. PICK w \in Workers : Sleep(w)
    BY <1>12
  <2>2. UNCHANGED <<ready, ripe, later>> /\ ~(ready /\ ripe # <<>>)
    BY <2>1 DEF Sleep, queue
  <2>3. \A v \in Workers \ {w} : worker'[v] = worker[v]
    BY <1>1, <2>1 DEF Sleep
  <2>4. worker'[w] = IF ready /\ later # <<>> THEN Worker("timed", Head(later)) ELSE Worker("asleep", None)
    BY <1>1, <2>1 DEF Sleep
  <2>5. \A p, k : Worker(p, k).pc = p /\ Worker(p, k).key = k
    BY DEF Worker
  <2>6. CASE ready /\ later # <<>>
    <3>1. worker'[w].pc = "timed" /\ worker'[w].key = Head(later)
      BY <2>4, <2>5, <2>6
    <3> QED
      BY <1>1, <2>2, <2>3, <2>6, <3>1 DEF WakeWorkers, Pending
  <2>7. CASE ~(ready /\ later # <<>>)
    <3>1. worker'[w].pc = "asleep"
      BY <2>4, <2>5, <2>7
    <3>2. Elems(<<>>) = {}
      BY EmptyBooks
    <3>3. ~ready \/ Pending = {}
      BY <2>2, <2>7, <3>2 DEF Pending
    <3>4. Pending' = Pending
      BY <2>2 DEF Pending
    <3> QED
      BY <1>1, <2>2, <2>3, <3>1, <3>3, <3>4 DEF WakeWorkers
  <2> QED
    BY <2>6, <2>7
<1>13. CASE \E w \in Workers : Take(w)
  <2>1. PICK w \in Workers : Take(w)
    BY <1>13
  <2>2. ripe # <<>> /\ UNCHANGED <<ready, later>>
    BY <2>1 DEF Take
  <2>3. Worker("acting", Head(ripe)).pc = "acting"
    BY DEF Worker
  <2>4. \A v \in Workers : worker'[v] = worker[v] \/ worker'[v].pc = "acting"
    BY <1>1, <2>1, <2>3 DEF Take
  <2>5. \A v \in Workers : worker[v].pc # "timed"
    BY <1>1, <2>2, NoTimerBesideWork
  <2>6. Pending' \subseteq Pending
    <3>1. Elems(ripe') \subseteq Elems(ripe)
      BY <1>1, <2>1, TailFacts DEF Take, TypeOK, IInv, BooksInv
    <3> QED
      BY <2>2, <3>1 DEF Pending
  <2> QED
    BY <1>1, <2>2, <2>4, <2>5, <2>6 DEF WakeWorkers
<1>14. CASE \E w \in Workers : Ends(w)
  BY <1>14, EndFacts, NobodySleeps
<1> QED
  BY <1>2, <1>3, <1>4, <1>5, <1>6, <1>7, <1>8, <1>9, <1>10, <1>11, <1>12, <1>13, <1>14 DEF Next, Ends

LEMMA HolderKept ==
  ASSUME WakeHolder, full' => full, Entries' = Entries
  PROVE  WakeHolder'
  BY DEF WakeHolder

LEMMA WakeHolderStep == ASSUME IInv, [Next]_vars, TypeOK' PROVE WakeHolder'
<1>1. TypeOK /\ WakeHolder
  BY WakeSplit DEF IInv
<1>2. CASE Start \/ Reconnect \/ ScanBegins \/ ScanCompletes \/ ScanFails \/ ScanDue \/ UNCHANGED vars
  <2>1. UNCHANGED <<full, ripe, later, active>>
    BY <1>2 DEF Start, Reconnect, ScanBegins, ScanCompletes, ScanFails, ScanDue, vars, queue, emitting
  <2> QED
    BY <1>1, <2>1, HolderKept DEF Entries, Pending
<1>3. CASE ScanQuits
  <2>1. UNCHANGED <<ripe, later, active>> /\ (full' => full)
    BY <1>3 DEF ScanQuits, LeaveAdmission, queue
  <2> QED
    BY <1>1, <2>1, HolderKept DEF Entries, Pending
<1>4. CASE \E s \in Sources : Open(s) \/ WatchFails(s) \/ ReceiverQuits(s) \/ \E k \in Keys : Receive(s, k)
  <2>1. UNCHANGED <<ripe, later, active>>
    BY <1>4 DEF Open, WatchFails, ReceiverQuits, Receive, queue
  <2>2. full' => full
    BY <1>4 DEF Open, WatchFails, ReceiverQuits, LeaveAdmission, Receive, Enter, emitting
  <2> QED
    BY <1>1, <2>1, <2>2, HolderKept DEF Entries, Pending
<1>5. CASE \E k \in Keys : ScanEmits(k) \/ Change(k)
  <2>1. UNCHANGED <<full, ripe, later, active>>
    BY <1>5 DEF ScanEmits, Change, Enter, queue, emitting
  <2> QED
    BY <1>1, <2>1, HolderKept DEF Entries, Pending
<1>6. CASE \E w \in Workers : WorkerQuits(w) \/ Sleep(w) \/ Read(w)
  <2>1. UNCHANGED <<full, ripe, later, active>>
    BY <1>6 DEF WorkerQuits, Sleep, Read, queue, emitting
  <2> QED
    BY <1>1, <2>1, HolderKept DEF Entries, Pending
<1>7. CASE SetReady \/ ProcessRestart
  BY <1>7 DEF SetReady, Notify, ProcessRestart, WakeHolder
<1>8. CASE SetupFails \/ Join
  <2>1. Entries' = Entries
    BY <1>8, RestartBooks DEF SetupFails, Join, EndSession
  <2>2. full' = full
    BY <1>8 DEF SetupFails, Join, emitting
  <2> QED
    BY <1>1, <2>1, <2>2, HolderKept
<1>9. CASE Elapse
  <2>1. Entries' = Entries /\ full' = full
    BY <1>9, ElapseBooks DEF Elapse, emitting
  <2> QED
    BY <1>1, <2>1, HolderKept
<1>10. CASE \E e \in Emitters : Admit(e)
  <2>1. ~full'
    BY <1>10 DEF Admit, MarkDirty, Push, Notify
  <2> QED
    BY <2>1 DEF WakeHolder
<1>11. CASE \E e \in Emitters : Overflow(e)
  <2>1. UNCHANGED <<ripe, later, active>> /\ Cardinality(Entries) >= Capacity
    BY <1>11 DEF Overflow, queue
  <2> QED
    BY <2>1 DEF WakeHolder, Entries, Pending
<1>12. CASE \E w \in Workers : Take(w)
  <2>1. PICK w \in Workers : Take(w)
    BY <1>12
  <2>2. PICK k \in Keys : k = Head(ripe)
    BY <1>1, <2>1 DEF Take, TypeOK
  <2>3. Elems(ripe') = Elems(ripe) \ {k} /\ k \in Elems(ripe)
    BY <1>1, <2>1, <2>2, ElemsFacts, TailFacts DEF Take, TypeOK, IInv, BooksInv
  <2>4. later' = later /\ active' = active \cup {k} /\ full' = full
    BY <2>1, <2>2 DEF Take, emitting
  <2>5. Entries' = Entries
    BY <2>3, <2>4 DEF Entries, Pending
  <2> QED
    BY <1>1, <2>4, <2>5, HolderKept
<1>13. CASE \E w \in Workers : Ends(w)
  <2>1. full' = FALSE
    BY <1>13, EndFacts
  <2> QED
    BY <2>1 DEF WakeHolder
<1> QED
  BY <1>2, <1>3, <1>4, <1>5, <1>6, <1>7, <1>8, <1>9, <1>10, <1>11, <1>12, <1>13 DEF Next, Ends

LEMMA WakeScanStep == ASSUME IInv, [Next]_vars, TypeOK' PROVE WakeScan'
<1>1. TypeOK /\ WakeScan /\ scan \in ScanState
  BY TypeSplit, WakeSplit DEF IInv, TypeRest
<1>2. CASE Reconnect \/ ScanDue \/ Elapse \/ UNCHANGED vars
  <2>1. scan'.pc = scan.pc /\ ready' = ready
    BY <1>1, <1>2 DEF Reconnect, ScanDue, Elapse, vars, queue, scanning, ScanState
  <2> QED
    BY <1>1, <2>1 DEF WakeScan
<1>3. CASE \E s \in Sources : Open(s) \/ WatchFails(s) \/ ReceiverQuits(s) \/ \E k \in Keys : Receive(s, k)
  <2>1. scan' = scan /\ ready' = ready
    BY <1>3 DEF Open, WatchFails, ReceiverQuits, Receive, queue, scanning
  <2> QED
    BY <1>1, <2>1 DEF WakeScan
<1>4. CASE \E k \in Keys : ScanEmits(k) \/ Change(k)
  <2>1. scan' = scan /\ ready' = ready
    BY <1>4 DEF ScanEmits, Change, queue, scanning
  <2> QED
    BY <1>1, <2>1 DEF WakeScan
<1>5. CASE \E w \in Workers : WorkerQuits(w) \/ Sleep(w) \/ Read(w) \/ Take(w)
  <2>1. scan' = scan /\ ready' = ready
    BY <1>5 DEF WorkerQuits, Sleep, Read, Take, queue, scanning
  <2> QED
    BY <1>1, <2>1 DEF WakeScan
<1>6. CASE Start \/ ScanQuits \/ ScanCompletes \/ ScanFails
  <2>1. scan'.pc # "asleep"
    BY <1>1, <1>6 DEF Start, ScanQuits, ScanCompletes, ScanFails, Finished, ScanState
  <2> QED
    BY <2>1 DEF WakeScan
<1>7. CASE ScanBegins
  <2>1. CASE ready
    <3>1. scan'.pc = "listing"
      BY <1>1, <1>7, <2>1 DEF ScanBegins, ScanState
    <3> QED
      BY <3>1 DEF WakeScan
  <2>2. CASE ~ready
    BY <1>7, <2>2 DEF ScanBegins, WakeScan, queue
  <2> QED
    BY <2>1, <2>2
<1>8. CASE SetReady
  BY <1>1, <1>8, WokenScanFacts DEF SetReady, Notify, WakeScan
<1>9. CASE SetupFails \/ Join \/ ProcessRestart
  BY <1>9 DEF SetupFails, Join, EndSession, Restart, ProcessRestart, WakeScan
<1>10. CASE \E e \in Emitters : Admit(e) \/ Overflow(e)
  <2>1. (scan' = scan \/ scan' = WokenScan(scan)) /\ ready' = ready
    BY <1>10 DEF Admit, MarkDirty, Push, Notify, Overflow, queue, scanning
  <2> QED
    BY <1>1, <2>1, WokenScanFacts DEF WakeScan
<1>11. CASE \E w \in Workers : Ends(w)
  <2>1. scan' = WokenScan(scan)
    BY <1>11, EndFacts
  <2> QED
    BY <1>1, <2>1, WokenScanFacts DEF WakeScan
<1> QED
  BY <1>2, <1>3, <1>4, <1>5, <1>6, <1>7, <1>8, <1>9, <1>10, <1>11 DEF Next, Ends
-----------------------------------------------------------------------------
(* The token and the sessions.                                              *)

LEMMA AdmissionKept ==
  ASSUME AdmissionInv, UNCHANGED <<emit, admission>>
  PROVE  AdmissionInv'
  BY DEF AdmissionInv, Distinct

LEMMA EnterAdmission ==
  ASSUME IInv, NEW e \in Emitters, NEW k \in Keys, emit[e] = None, Enter(e, k)
  PROVE  AdmissionInv'
<1>1. admission \in Seq(Emitters) /\ emit \in [Emitters -> Keys \cup {None, Gone}] /\ AdmissionInv
  BY DEF IInv, TypeOK
<1>2. e \notin Elems(admission)
  BY <1>1, KeysAssumption DEF AdmissionInv
<1>3. Elems(admission') = Elems(admission) \cup {e} /\ Distinct(admission')
  BY <1>1, <1>2, AppendFacts DEF Enter, AdmissionInv
<1>4. Elems(admission) \subseteq Emitters
  BY <1>1, ElemsFacts
<1>5. \A d \in Emitters : emit'[d] = IF d = e THEN k ELSE emit[d]
  BY <1>1 DEF Enter
<1> QED
  BY <1>1, <1>2, <1>3, <1>4, <1>5 DEF AdmissionInv, Distinct

LEMMA LeaveAdmissionInv ==
  ASSUME IInv, NEW e \in Emitters, LeaveAdmission(e)
  PROVE  AdmissionInv'
<1>1. admission \in Seq(Emitters) /\ emit \in [Emitters -> Keys \cup {None, Gone}] /\ AdmissionInv
  BY DEF IInv, TypeOK
<1>2. Elems(admission') \subseteq Elems(admission) /\ Distinct(admission') /\ e \notin Elems(admission')
  BY <1>1, DropFacts DEF LeaveAdmission, AdmissionInv
<1>3. \A d \in Emitters : d # e => emit'[d] = emit[d]
  BY <1>1 DEF LeaveAdmission
<1>4. Elems(admission) \subseteq Emitters
  BY <1>1, ElemsFacts
<1> QED
  BY <1>1, <1>2, <1>3, <1>4 DEF AdmissionInv, Distinct

LEMMA AdmitAdmission ==
  ASSUME IInv, NEW e \in Emitters, Admit(e)
  PROVE  AdmissionInv'
<1>1. admission \in Seq(Emitters) /\ emit \in [Emitters -> Keys \cup {None, Gone}] /\ AdmissionInv
  BY DEF IInv, TypeOK
<1>2. admission # <<>> /\ Head(admission) = e /\ admission' = Tail(admission) /\ emit' = [emit EXCEPT ![e] = None]
  BY DEF Admit
<1>3. Elems(admission') = Elems(admission) \ {e} /\ Distinct(admission')
  BY <1>1, <1>2, TailFacts DEF AdmissionInv
<1>4. \A d \in Emitters : d # e => emit'[d] = emit[d]
  BY <1>1, <1>2
<1>5. Elems(admission) \subseteq Emitters
  BY <1>1, ElemsFacts
<1> QED
  BY <1>1, <1>3, <1>4, <1>5 DEF AdmissionInv, Distinct

\* A subscription that ends, with nothing to add, is not in the line for the token.
LEMMA WatchAdmission ==
  ASSUME IInv, NEW s \in Sources, WatchFails(s)
  PROVE  AdmissionInv'
<1>1. admission \in Seq(Emitters) /\ emit \in [Emitters -> Keys \cup {None, Gone}] /\ AdmissionInv
  BY DEF IInv, TypeOK
<1>2. emit[s] = None /\ emit' = [emit EXCEPT ![s] = Gone] /\ admission' = admission
  BY DEF WatchFails
<1>3. s \notin Elems(admission)
  BY <1>1, <1>2, KeysAssumption DEF AdmissionInv
<1>4. Elems(admission) \subseteq Emitters
  BY <1>1, ElemsFacts
<1>5. \A d \in Emitters : d # s => emit'[d] = emit[d]
  BY <1>1, <1>2
<1> QED
  BY <1>1, <1>2, <1>3, <1>4, <1>5 DEF AdmissionInv, Distinct

LEMMA AdmissionStep == ASSUME IInv, [Next]_vars, TypeOK' PROVE AdmissionInv'
<1>1. TypeOK /\ AdmissionInv /\ Scanner \in Emitters /\ Sources \subseteq Emitters
  BY DEF IInv, Emitters
<1>2. CASE SetReady \/ Join \/ Reconnect \/ SetupFails \/ ScanBegins \/ ScanCompletes \/ ScanFails \/ ScanDue
           \/ Elapse \/ UNCHANGED vars
  <2>1. UNCHANGED <<emit, admission>>
    BY <1>2 DEF SetReady, Join, Reconnect, SetupFails, ScanBegins, ScanCompletes, ScanFails, ScanDue, Elapse, vars,
                emitting
  <2> QED
    BY <1>1, <2>1, AdmissionKept
<1>3. CASE Start \/ ProcessRestart
  <2>1. Elems(admission') = {}
    <3>1. CASE Start
      BY <1>1, <3>1, KeysAssumption, ElemsFacts DEF Start, IInv, SessionInv, AdmissionInv, TypeOK
    <3>2. CASE ProcessRestart
      BY <3>2, EmptyBooks DEF ProcessRestart
    <3> QED
      BY <1>3, <3>1, <3>2
  <2>2. Distinct(admission')
    BY <1>1, <1>3, EmptyBooks DEF Start, ProcessRestart, AdmissionInv
  <2> QED
    BY <2>1, <2>2 DEF AdmissionInv, Distinct
<1>4. CASE ScanQuits
  BY <1>1, <1>4, LeaveAdmissionInv DEF ScanQuits
<1>5. CASE \E s \in Sources : Open(s) \/ WatchFails(s) \/ ReceiverQuits(s) \/ \E k \in Keys : Receive(s, k)
  <2>1. PICK s \in Sources : Open(s) \/ WatchFails(s) \/ ReceiverQuits(s) \/ \E k \in Keys : Receive(s, k)
    BY <1>5
  <2>2. CASE Open(s)
    BY <1>1, <2>2, AdmissionKept DEF Open, emitting
  <2>3. CASE \E k \in Keys : Receive(s, k)
    BY <1>1, <2>3, EnterAdmission DEF Receive
  <2> QED
    BY <1>1, <2>1, <2>2, <2>3, WatchAdmission, LeaveAdmissionInv DEF ReceiverQuits
<1>6. CASE \E e \in Emitters : Admit(e) \/ Overflow(e)
  <2>1. PICK e \in Emitters : Admit(e) \/ Overflow(e)
    BY <1>6
  <2>2. CASE Overflow(e)
    BY <1>1, <2>2, AdmissionKept DEF Overflow
  <2> QED
    BY <2>1, <2>2, AdmitAdmission
<1>7. CASE \E k \in Keys : ScanEmits(k)
  BY <1>1, <1>7, EnterAdmission DEF ScanEmits
<1>8. CASE \E k \in Keys : Change(k)
  BY <1>1, <1>8, AdmissionKept DEF Change, emitting
<1>9. CASE \E w \in Workers : WorkerQuits(w) \/ Take(w) \/ Sleep(w) \/ Read(w)
  BY <1>1, <1>9, AdmissionKept DEF WorkerQuits, Take, Sleep, Read, emitting
<1>10. CASE \E w \in Workers : Ends(w)
  <2>1. UNCHANGED <<emit, admission>>
    BY <1>10, EndFacts
  <2> QED
    BY <1>1, <2>1, AdmissionKept
<1> QED
  BY <1>2, <1>3, <1>4, <1>5, <1>6, <1>7, <1>8, <1>9, <1>10 DEF Next, Ends

LEMMA ReconnectOwes ==
  ASSUME scan \in ScanState
  PROVE  /\ Reconnected(scan).due \/ Reconnected(scan).delay > 0
         /\ Reconnected(scan).pc = scan.pc
<1>1. scan.delay \in Delays /\ scan.delay \in Nat
  BY OptionsAssumption DEF ScanState, Delays
<1>2. CASE scan.active
  <2>1. Reconnected(scan).delay = nextDelay(scan.delay) /\ Reconnected(scan).pc = scan.pc
    BY <1>2 DEF Reconnected, ScanState
  <2> QED
    BY <1>1, <2>1, DelayFacts
<1>3. CASE ~scan.active
  BY <1>1, <1>3 DEF Reconnected, ScanState
<1> QED
  BY <1>2, <1>3

LEMMA SessionStep == ASSUME IInv, [Next]_vars, TypeOK' PROVE SessionInv'
<1>1. /\ TypeOK /\ SessionInv /\ scan \in ScanState /\ Scanner \in Emitters
      /\ emit \in [Emitters -> Keys \cup {None, Gone}] /\ None # Gone
  BY TypeSplit, KeysAssumption DEF IInv, TypeRest, Emitters
<1>2. CASE UNCHANGED vars
  BY <1>1, <1>2 DEF vars, feed, queue, emitting, scanning, SessionInv
<1>3. CASE SetupFails \/ Join
  <2>1. scan' = Reconnected(scan) /\ session' = "off" /\ active' = {} /\ emit' = emit /\ worker' = Idle
    BY <1>1, <1>3 DEF SetupFails, Join, EndSession, Restart, emitting, SessionInv
  <2>2. \A e \in Emitters : emit'[e] = Gone
    BY <1>1, <1>3, <2>1 DEF SetupFails, Join, SessionInv
  <2>3. scan'.pc = scan.pc /\ (scan'.due \/ scan'.delay > 0)
    BY <1>1, <2>1, ReconnectOwes
  <2> QED
    BY <1>1, <2>1, <2>2, <2>3 DEF SessionInv
<1>4. CASE ProcessRestart
  BY <1>4 DEF ProcessRestart, SessionInv, NewScan
<1>5. CASE Start
  <2>1. emit'[Scanner] = None
    BY <1>1, <1>5 DEF Start
  <2> QED
    BY <1>1, <1>5, <2>1 DEF Start, SessionInv
<1>6. CASE Reconnect
  BY <1>1, <1>6 DEF Reconnect, SessionInv, queue, emitting, scanning
<1>7. CASE ScanQuits
  <2>1. session' = "stopping" /\ scan'.pc = "gone"
    BY <1>1, <1>7 DEF ScanQuits, feed, ScanState
  <2> QED
    BY <2>1 DEF SessionInv
<1>8. CASE ScanDue
  <2>1. /\ scan'.pc = scan.pc /\ scan'.due
        /\ UNCHANGED <<session, open, active, worker, emit>>
    BY <1>1, <1>8 DEF ScanDue, ScanState, feed, queue, emitting
  <2> QED
    BY <1>1, <2>1 DEF SessionInv
\* The steps of a running session.
<1>9. ASSUME session \in {"on", "stopping"}, session' \in {session, "stopping"}, open' = open,
             scan.pc # "gone" => emit'[Scanner] # Gone \/ scan'.pc = "gone",
             emit'[Scanner] = Gone => emit[Scanner] = Gone \/ scan'.pc = "gone",
             scan.pc = "gone" => scan'.pc = "gone"
      PROVE  SessionInv'
  BY <1>1, <1>9 DEF SessionInv
<1>10. CASE SetReady
  <2>1. scan' = WokenScan(scan) /\ emit' = emit /\ session = "on" /\ UNCHANGED <<session, open>>
    BY <1>10 DEF SetReady, Notify, feed
  <2> QED
    BY <1>1, <1>9, <2>1, WokenScanFacts DEF SessionInv
<1>11. CASE ScanBegins
  <2>1. scan.pc # "gone" /\ emit' = emit /\ session = "on" /\ UNCHANGED <<session, open>>
    BY <1>11 DEF ScanBegins, feed, emitting
  <2> QED
    BY <1>1, <1>9, <2>1 DEF SessionInv
<1>12. CASE ScanCompletes \/ ScanFails \/ \E k \in Keys : ScanEmits(k)
  <2>1. scan.pc = "listing" /\ emit[Scanner] = None /\ UNCHANGED <<session, open>>
    BY <1>12 DEF ScanCompletes, ScanFails, ScanEmits, feed
  <2>2. emit'[Scanner] # Gone
    <3>1. CASE ScanCompletes \/ ScanFails
      BY <1>1, <2>1, <3>1 DEF ScanCompletes, ScanFails, emitting
    <3>2. CASE \E k \in Keys : ScanEmits(k)
      BY <1>1, <3>2, KeysAssumption DEF ScanEmits, Enter
    <3> QED
      BY <1>12, <3>1, <3>2
  <2>3. session \in {"on", "stopping"}
    BY <1>1, <2>1 DEF SessionInv, TypeOK
  <2> QED
    BY <1>9, <2>1, <2>2, <2>3
<1>13. CASE Elapse
  <2>1. UNCHANGED <<session, open, active, emit, scan>>
    BY <1>13 DEF Elapse, feed, emitting, scanning
  <2>2. session \in {"off", "setup"} => worker' = worker
    <3> SUFFICES ASSUME session \in {"off", "setup"}
                 PROVE  worker' = worker
      OBVIOUS
    <3>1. worker = Idle
      BY <1>1 DEF SessionInv
    <3>2. \A w \in Workers : worker[w] # Worker("timed", Head(later))
      BY <3>1, WorkerFacts DEF Worker
    <3>3. worker \in [Workers -> WorkerState]
      BY <3>1, WorkerFacts
    <3> QED
      BY <1>13, <3>2, <3>3 DEF Elapse
  <2> QED
    BY <1>1, <2>1, <2>2 DEF SessionInv
<1>14. CASE \E s \in Sources : Open(s)
  BY <1>1, <1>14 DEF Open, SessionInv, queue, emitting, scanning
<1>15. CASE \E s \in Sources : WatchFails(s) \/ ReceiverQuits(s) \/ \E k \in Keys : Receive(s, k)
  <2>1. PICK s \in Sources : WatchFails(s) \/ ReceiverQuits(s) \/ \E k \in Keys : Receive(s, k)
    BY <1>15
  <2>2. s # Scanner
    BY KeysAssumption
  <2>3. emit'[Scanner] = emit[Scanner]
    BY <1>1, <2>1, <2>2 DEF WatchFails, ReceiverQuits, LeaveAdmission, Receive, Enter
  <2>4. session \in {"on", "stopping"} /\ session' \in {session, "stopping"} /\ UNCHANGED <<open, scan>>
    BY <2>1 DEF WatchFails, ReceiverQuits, Receive, feed, scanning
  <2> QED
    BY <1>1, <1>9, <2>3, <2>4 DEF SessionInv
<1>16. CASE \E e \in Emitters : Admit(e) \/ Overflow(e)
  <2>1. PICK e \in Emitters : Admit(e) \/ Overflow(e)
    BY <1>16
  <2>2. scan'.pc = "gone" <=> scan.pc = "gone"
    BY <1>1, <2>1, WokenScanFacts DEF Admit, MarkDirty, Push, Notify, Overflow, scanning
  <2>3. emit' = emit \/ emit' = [emit EXCEPT ![e] = None]
    BY <2>1 DEF Admit, Overflow
  <2>4. session \in {"on", "stopping"}
    <3>1. emit[e] # Gone
      <4>1. emit[e] \in Keys
        BY <2>1, HolderFacts DEF Admit, Overflow
      <4> QED
        BY <4>1, KeysAssumption
    <3> QED
      BY <1>1, <3>1 DEF SessionInv, TypeOK
  <2>5. UNCHANGED <<session, open>>
    BY <2>1 DEF Admit, Overflow, feed
  <2>6. emit'[Scanner] = Gone => emit[Scanner] = Gone
    BY <1>1, <2>3
  <2> QED
    BY <1>1, <1>9, <2>2, <2>4, <2>5, <2>6 DEF SessionInv
<1>17. CASE \E k \in Keys : Change(k)
  <2>1. PICK k \in Keys : Change(k)
    BY <1>17
  <2>2. UNCHANGED <<session, open, active, emit, scan>>
    BY <2>1 DEF Change, queue, emitting, scanning
  <2>3. session \in {"off", "setup"} => worker' = worker
    <3> SUFFICES ASSUME session \in {"off", "setup"}
                 PROVE  worker' = worker
      OBVIOUS
    <3>1. worker = Idle
      BY <1>1 DEF SessionInv
    <3>2. \A w \in Workers : worker[w] # Worker("fresh", k)
      BY <3>1, WorkerFacts DEF Worker
    <3>3. worker \in [Workers -> WorkerState]
      BY <3>1, WorkerFacts
    <3> QED
      BY <2>1, <3>2, <3>3 DEF Change
  <2> QED
    BY <1>1, <2>2, <2>3 DEF SessionInv
<1>18. CASE \E w \in Workers : WorkerQuits(w) \/ Take(w) \/ Sleep(w) \/ Read(w)
  <2>1. PICK w \in Workers : WorkerQuits(w) \/ Take(w) \/ Sleep(w) \/ Read(w)
    BY <1>18
  <2>2. worker[w].pc # "gone" /\ UNCHANGED <<session, open, emit, scan>>
    BY <2>1 DEF WorkerQuits, Take, Sleep, Read, feed, queue, emitting, scanning
  <2>3. session \in {"on", "stopping"}
    BY <1>1, <2>2, WorkerFacts DEF SessionInv, TypeOK
  <2> QED
    BY <1>1, <1>9, <2>2, <2>3 DEF SessionInv
<1>19. CASE \E w \in Workers : Ends(w)
  <2>1. PICK w \in Workers : Ends(w)
    BY <1>19
  <2>2. worker[w].pc \in Acting /\ scan' = WokenScan(scan) /\ UNCHANGED <<session, open, emit>>
    BY <2>1, EndFacts
  <2>3. session \in {"on", "stopping"}
    BY <1>1, <2>2, WorkerFacts DEF SessionInv, TypeOK, Acting
  <2> QED
    BY <1>1, <1>9, <2>2, <2>3, WokenScanFacts DEF SessionInv
<1> QED
  BY <1>2, <1>3, <1>4, <1>5, <1>6, <1>7, <1>8, <1>10, <1>11, <1>12, <1>13, <1>14, <1>15, <1>16, <1>17,
     <1>18, <1>19 DEF Next, Ends
-----------------------------------------------------------------------------
(* Changes.                                                                 *)

\* Between sessions the next scan owes every key.
LEMMA ScanOwesAll ==
  ASSUME TypeOK', SessionInv', session' \in {"off", "setup"}
  PROVE  NoLostInvalidation'
<1>1. Scanner \in Emitters
  BY DEF Emitters
<1>2. scan'.pc = "gone" /\ (scan'.due \/ scan'.delay > 0)
  BY <1>1 DEF SessionInv
<1> QED
  BY <1>2 DEF NoLostInvalidation, Tracked, ScanOwes

\* A worker that may still read k keeps its place.
Reads(w, k) == worker[w].key = k /\ worker[w].pc \in {"acting", "fresh"}

\* What leads to k outside the queue and in it.
Outside(k) == ScanOwes(k) \/ k \in stream[Origin[k]] \/ \E e \in Emitters : emit[e] = k
Inside(k) == k \in Pending \/ (k \in active /\ (k \in dirty \/ \E w \in Workers : Reads(w, k)))

LEMMA TrackedSplit == \A k \in Keys : Tracked(k) <=> Outside(k) \/ Inside(k)
  BY DEF Tracked, Outside, Inside, Reads

LEMMA NextTrackedSplit == (\A k \in Keys : Tracked(k) <=> Outside(k) \/ Inside(k))'
  BY TrackedSplit, PTL

LEMMA OutsideKept ==
  ASSUME scan \in ScanState, NEW k \in Keys, Outside(k), UNCHANGED <<stream, emit, todo>>,
         scan' = scan \/ scan' = WokenScan(scan)
  PROVE  Outside(k)'
  BY WokenScanFacts DEF Outside, ScanOwes

LEMMA InsideKept ==
  ASSUME NEW k \in Keys, Inside(k), Pending \subseteq Pending', k \in active => k \in active',
         k \in dirty => k \in dirty', \A w \in Workers : Reads(w, k) => Reads(w, k)'
  PROVE  Inside(k)'
  BY DEF Inside

LEMMA WokenReads ==
  ASSUME TypeOK, Notify(worker), NEW k \in Keys, NEW w \in Workers, Reads(w, k)
  PROVE  Reads(w, k)'
<1>1. worker \in [Workers -> WorkerState] /\ worker[w].pc \in Acting
  BY TypeSplit DEF TypeWorkers, Reads, Acting
<1> QED
  BY <1>1, NotifiedWorkers DEF Reads

LEMMA AdmitTracks ==
  ASSUME IInv, TypeOK', NEW e \in Emitters, Admit(e), NEW k \in Keys, Tracked(k)
  PROVE  Tracked(k)'
<1>1. TypeOK /\ scan \in ScanState /\ emit \in [Emitters -> Keys \cup {None, Gone}]
  BY TypeSplit DEF IInv, TypeRest
<1>2. PICK j \in Keys : j = emit[e]
  BY HolderFacts DEF Admit
<1>3. \A d \in Emitters : d # e => emit'[d] = emit[d]
  BY <1>1 DEF Admit
<1>4. j \in Entries' /\ j \in dirty' /\ Pending \subseteq Pending' /\ active' = active /\ dirty \subseteq dirty'
  <2>1. CASE MarkDirty(j)
    BY <2>1 DEF MarkDirty, Entries, Pending
  <2>2. CASE Push(j)
    <3>1. ripe' = Append(ripe, j) /\ later' = later /\ active' = active /\ dirty' = dirty \cup {j}
      BY <2>2 DEF Push
    <3>2. Elems(ripe') = Elems(ripe) \cup {j}
      BY <1>1, <3>1, AppendFacts DEF TypeOK
    <3> QED
      BY <3>1, <3>2 DEF Entries, Pending
  <2> QED
    BY <1>2, <2>1, <2>2 DEF Admit
<1>5. \A w \in Workers : Reads(w, k) => Reads(w, k)'
  <2>1. worker' = worker \/ Notify(worker)
    BY DEF Admit, MarkDirty, Push
  <2> QED
    BY <1>1, <2>1, WokenReads DEF Reads
<1>6. CASE k = j
  <2>1. Inside(k)'
    BY <1>4, <1>6 DEF Inside, Entries
  <2> QED
    BY <2>1, NextTrackedSplit
<1>7. CASE k # j /\ Inside(k)
  <2>1. Inside(k)'
    BY <1>4, <1>5, <1>7, InsideKept
  <2> QED
    BY <2>1, NextTrackedSplit
<1>8. CASE k # j /\ Outside(k)
  <2>1. UNCHANGED <<stream, todo>>
    BY DEF Admit, feed
  <2>2. scan' = scan \/ scan' = WokenScan(scan)
    BY DEF Admit, MarkDirty, Push, Notify
  <2>3. \A d \in Emitters : emit[d] = k => emit'[d] = k
    BY <1>2, <1>3, <1>8
  <2>4. Scanner \in Emitters
    BY DEF Emitters
  <2>5. ScanOwes(k) => ScanOwes(k)'
    BY <1>1, <2>1, <2>2, <2>3, <2>4, WokenScanFacts DEF ScanOwes
  <2>6. Outside(k)'
    BY <1>8, <2>1, <2>3, <2>5 DEF Outside
  <2> QED
    BY <2>6, NextTrackedSplit
<1> QED
  BY <1>6, <1>7, <1>8, TrackedSplit

LEMMA TakeTracks ==
  ASSUME IInv, TypeOK', NEW w \in Workers, Take(w), NEW k \in Keys, Tracked(k)
  PROVE  Tracked(k)'
<1>1. TypeOK /\ scan \in ScanState /\ worker \in [Workers -> WorkerState]
  BY TypeSplit DEF IInv, TypeRest, TypeWorkers
<1>2. PICK h \in Keys : h = Head(ripe)
  BY <1>1 DEF Take, TypeOK
<1>3. Elems(ripe') = Elems(ripe) \ {h}
  BY <1>1, <1>2, TailFacts DEF Take, TypeOK, IInv, BooksInv
<1>4. later' = later /\ active' = active \cup {h} /\ dirty' = dirty \ {h} /\ worker[w].pc = "loop"
      /\ worker' = [worker EXCEPT ![w] = Worker("acting", h)]
      /\ UNCHANGED <<stream, emit, todo, scan>>
  BY <1>2 DEF Take, feed, emitting, scanning
<1>5. CASE k = h
  <2>1. Reads(w, k)'
    BY <1>1, <1>4, <1>5 DEF Reads, Worker
  <2>2. Inside(k)'
    BY <1>4, <1>5, <2>1 DEF Inside
  <2> QED
    BY <2>2, NextTrackedSplit
<1>6. CASE k # h /\ Inside(k)
  <2>1. \A v \in Workers : Reads(v, k) => Reads(v, k)'
    BY <1>1, <1>4 DEF Reads
  <2>2. k \in Pending => k \in Pending'
    BY <1>3, <1>4, <1>6 DEF Pending
  <2>3. Inside(k)'
    BY <1>4, <1>6, <2>1, <2>2 DEF Inside
  <2> QED
    BY <2>3, NextTrackedSplit
<1>7. CASE Outside(k)
  BY <1>1, <1>4, <1>7, OutsideKept, NextTrackedSplit
<1> QED
  BY <1>5, <1>6, <1>7, TrackedSplit

LEMMA EndTracks ==
  ASSUME IInv, TypeOK', NEW w \in Workers, Ends(w), NEW k \in stale', Tracked(k)
  PROVE  Tracked(k)'
<1>1. TypeOK /\ scan \in ScanState /\ k \in Keys
  BY TypeSplit DEF IInv, TypeRest, TypeOK
<1>2. /\ worker[w].pc \in Acting /\ worker[w].key \in active
      /\ active' = active \ {worker[w].key}
      /\ \A v \in Workers \ {w} : worker[v].pc \in Acting => worker'[v] = worker[v]
      /\ scan' = WokenScan(scan)
      /\ UNCHANGED <<stream, emit, todo, dirty>>
      /\ Pending \subseteq Pending'
      /\ Fail(w) \/ Recheck(w) \/ worker[w].key \in dirty => worker[w].key \in Pending'
  BY EndFacts
<1>3. CASE Outside(k)
  BY <1>1, <1>2, <1>3, OutsideKept, NextTrackedSplit
<1>4. CASE Inside(k) /\ k # worker[w].key
  <2>1. \A v \in Workers : Reads(v, k) => Reads(v, k)'
    BY <1>2, <1>4 DEF Reads, Acting
  <2>2. Inside(k)'
    BY <1>1, <1>2, <1>4, <2>1, InsideKept
  <2> QED
    BY <1>1, <2>2, NextTrackedSplit
<1>5. CASE Inside(k) /\ k = worker[w].key
  <2>1. k \in Pending'
    <3>1. CASE Fail(w) \/ Recheck(w) \/ k \in dirty \/ k \in Pending
      BY <1>2, <1>5, <3>1
    <3>2. CASE Succeed(w) /\ k \notin dirty /\ k \notin Pending
      <4>1. PICK v \in Workers : Reads(v, k)
        BY <1>5, <3>2 DEF Inside
      <4>2. v = w
        <5>1. worker[v].pc \in Acting /\ worker[v].key = worker[w].key
          BY <1>5, <4>1 DEF Reads, Acting
        <5> QED
          BY <1>2, <5>1 DEF IInv, WorkersInv
      <4>3. worker[w].pc = "fresh"
        BY <3>2, <4>1, <4>2 DEF Reads, Succeed, Return
      <4>4. k \notin stale'
        BY <1>5, <3>2, <4>3 DEF Succeed
      <4> QED
        BY <4>4
    <3> QED
      BY <3>1, <3>2 DEF Ends
  <2>2. Inside(k)'
    BY <2>1 DEF Inside
  <2> QED
    BY <1>1, <2>2, NextTrackedSplit
<1> QED
  BY <1>1, <1>3, <1>4, <1>5, TrackedSplit

LEMMA ChangeTracks ==
  ASSUME IInv, TypeOK', session = "on", NEW j \in Keys, Change(j), NEW k \in Keys, k = j \/ Tracked(k)
  PROVE  Tracked(k)'
<1>1. TypeOK /\ scan \in ScanState /\ worker \in [Workers -> WorkerState]
  BY TypeSplit DEF IInv, TypeRest, TypeWorkers
<1>2. open = Sources /\ Origin[j] \in Sources /\ stream \in [Sources -> SUBSET Keys]
  BY KeysAssumption DEF IInv, SessionInv, TypeOK
<1>3. stream' = [stream EXCEPT ![Origin[j]] = stream[Origin[j]] \cup {j}]
  BY <1>2 DEF Change
<1>4. \A i \in Keys : stream[Origin[i]] \subseteq stream'[Origin[i]]
  BY <1>2, <1>3, KeysAssumption
<1>5. UNCHANGED <<ripe, later, active, dirty, emit, todo, scan>>
  BY DEF Change, queue, emitting, scanning
<1>6. CASE k = j
  <2>1. Outside(k)'
    BY <1>2, <1>3, <1>6 DEF Outside
  <2> QED
    BY <2>1, NextTrackedSplit
<1>7. CASE k # j /\ Outside(k)
  <2>1. Outside(k)'
    BY <1>4, <1>5, <1>7 DEF Outside, ScanOwes
  <2> QED
    BY <2>1, NextTrackedSplit
<1>8. CASE k # j /\ Inside(k)
  <2>1. \A w \in Workers : Reads(w, k) => worker[w] # Worker("fresh", j)
    BY <1>8 DEF Reads, Worker
  <2>2. \A w \in Workers : Reads(w, k) => worker'[w] = worker[w]
    BY <2>1 DEF Change
  <2>3. Inside(k)'
    BY <1>5, <1>8, <2>2 DEF Inside, Reads, Pending
  <2> QED
    BY <2>3, NextTrackedSplit
<1> QED
  BY <1>6, <1>7, <1>8, TrackedSplit

\* The steps of the emitters before they stand in line for the token.
LEMMA EmitTracks ==
  ASSUME IInv, TypeOK', NEW k \in Keys, Tracked(k),
         \/ \E s \in Sources, j \in Keys : Receive(s, j)
         \/ \E j \in Keys : ScanEmits(j)
         \/ ScanBegins \/ ScanCompletes \/ ScanFails \/ ScanDue
  PROVE  Tracked(k)'
<1>1. TypeOK /\ scan \in ScanState /\ emit \in [Emitters -> Keys \cup {None, Gone}]
      /\ stream \in [Sources -> SUBSET Keys] /\ Scanner \in Emitters /\ Sources \subseteq Emitters
      /\ None \notin Keys /\ Scanner \notin Sources
  BY TypeSplit, KeysAssumption DEF IInv, TypeRest, Emitters
<1>2. UNCHANGED <<ripe, later, active, dirty, worker>>
  BY DEF Receive, ScanEmits, ScanBegins, ScanCompletes, ScanFails, ScanDue, queue
<1>3. CASE Inside(k)
  <2>1. Inside(k)'
    BY <1>2, <1>3 DEF Inside, Reads, Pending
  <2> QED
    BY <2>1, NextTrackedSplit
<1>4. CASE Outside(k)
  <2>1. CASE \E s \in Sources, j \in Keys : Receive(s, j)
    <3>1. PICK s \in Sources, j \in Keys : Receive(s, j)
      BY <2>1
    <3>2. /\ emit[s] = None /\ emit' = [emit EXCEPT ![s] = j] /\ stream' = [stream EXCEPT ![s] = stream[s] \ {j}]
          /\ UNCHANGED <<scan, todo>>
      BY <3>1 DEF Receive, Enter, scanning
    <3>3. \A d \in Emitters : emit[d] = k => emit'[d] = k
      BY <1>1, <3>2
    <3>4. k \in stream[Origin[k]] => k \in stream'[Origin[k]] \/ emit'[s] = k
      BY <1>1, <3>2, KeysAssumption
    <3>5. ScanOwes(k) => ScanOwes(k)'
      BY <1>1, <3>2, <3>3 DEF ScanOwes
    <3>6. Outside(k)'
      BY <1>1, <1>4, <3>3, <3>4, <3>5 DEF Outside
    <3> QED
      BY <3>6, NextTrackedSplit
  <2>2. CASE \E j \in Keys : ScanEmits(j)
    <3>1. PICK j \in Keys : ScanEmits(j)
      BY <2>2
    <3>2. /\ scan.pc = "listing" /\ emit[Scanner] = None /\ emit' = [emit EXCEPT ![Scanner] = j]
          /\ todo' = todo \ {j} /\ UNCHANGED <<scan, stream>>
      BY <3>1 DEF ScanEmits, Enter, feed
    <3>3. \A d \in Emitters : emit[d] = k => emit'[d] = k
      BY <1>1, <3>2
    <3>4. ScanOwes(k) => ScanOwes(k)'
      BY <1>1, <3>2 DEF ScanOwes
    <3>5. Outside(k)'
      BY <1>4, <3>2, <3>3, <3>4 DEF Outside
    <3> QED
      BY <3>5, NextTrackedSplit
  <2>3. CASE ScanBegins \/ ScanFails
    <3>1. ScanOwes(k)'
      <4>1. CASE ScanBegins
        <5>1. CASE ready
          BY <1>1, <4>1, <5>1 DEF ScanBegins, ScanOwes, ScanState
        <5>2. CASE ~ready
          BY <1>1, <4>1, <5>2 DEF ScanBegins, ScanOwes, ScanState
        <5> QED
          BY <5>1, <5>2
      <4>2. CASE ScanFails
        <5>1. nextDelay(scan.delay) > 0
          BY <1>1, DelayFacts DEF ScanState
        <5> QED
          BY <4>2, <5>1 DEF ScanFails, Finished, ScanOwes
      <4> QED
        BY <2>3, <4>1, <4>2
    <3> QED
      BY <3>1 DEF Tracked
  <2>4. CASE ScanCompletes
    <3>1. ~ScanOwes(k) /\ UNCHANGED <<emit, stream>>
      BY <1>1, <2>4 DEF ScanCompletes, ScanOwes, emitting, feed
    <3>2. Outside(k)'
      BY <1>4, <3>1 DEF Outside
    <3> QED
      BY <3>2, NextTrackedSplit
  <2>5. CASE ScanDue
    <3>1. scan'.pc = scan.pc /\ scan'.due /\ UNCHANGED <<emit, stream, todo>>
      BY <1>1, <2>5 DEF ScanDue, ScanState, emitting, feed
    <3>2. Outside(k)'
      BY <1>4, <3>1 DEF Outside, ScanOwes
    <3> QED
      BY <3>2, NextTrackedSplit
  <2> QED
    BY <2>1, <2>2, <2>3, <2>4, <2>5
<1> QED
  BY <1>3, <1>4, TrackedSplit

\* The steps that move no key.
LEMMA OtherTracks ==
  ASSUME IInv, TypeOK', NEW k \in Keys, Tracked(k),
         \/ SetReady \/ Elapse \/ UNCHANGED vars
         \/ \E e \in Emitters : Overflow(e)
         \/ \E w \in Workers : Sleep(w) \/ Read(w)
  PROVE  Tracked(k)'
<1>1. TypeOK /\ scan \in ScanState /\ worker \in [Workers -> WorkerState]
  BY TypeSplit DEF IInv, TypeRest, TypeWorkers
<1>2. UNCHANGED <<stream, emit, todo, active, dirty>>
  BY DEF SetReady, Elapse, Overflow, Sleep, Read, vars, feed, queue, emitting, scanning
<1>3. scan' = scan \/ scan' = WokenScan(scan)
  BY DEF SetReady, Notify, Elapse, Overflow, Sleep, Read, vars, scanning
<1>4. Pending' = Pending
  <2>1. CASE Elapse
    BY <2>1, ElapseBooks
  <2>2. CASE ~Elapse
    <3>1. UNCHANGED <<ripe, later>>
      BY <2>2 DEF SetReady, Overflow, Sleep, Read, vars, queue
    <3> QED
      BY <3>1 DEF Pending
  <2> QED
    BY <2>1, <2>2
<1>5. ASSUME NEW v \in Workers, Reads(v, k)
      PROVE  Reads(v, k)'
  <2>1. CASE UNCHANGED vars \/ \E e \in Emitters : Overflow(e)
    <3>1. worker' = worker
      BY <2>1 DEF vars, Overflow
    <3> QED
      BY <1>5, <3>1 DEF Reads
  <2>2. CASE SetReady
    BY <1>1, <1>5, <2>2, WokenReads DEF SetReady
  <2>3. CASE Elapse
    <3>1. worker[v] # Worker("timed", Head(later))
      BY <1>5 DEF Reads, Worker
    <3>2. worker'[v] = worker[v]
      BY <2>3, <3>1 DEF Elapse
    <3> QED
      BY <1>5, <3>2 DEF Reads
  <2>4. CASE \E w \in Workers : Sleep(w)
    <3>1. worker'[v] = worker[v]
      BY <1>1, <1>5, <2>4 DEF Reads, Sleep
    <3> QED
      BY <1>5, <3>1 DEF Reads
  <2>5. CASE \E w \in Workers : Read(w)
    <3>1. PICK w \in Workers : Read(w)
      BY <2>5
    <3>2. PICK s : s = [worker[w] EXCEPT !.pc = "fresh"]
      OBVIOUS
    <3>3. s.pc = "fresh" /\ s.key = worker[w].key
      BY <1>1, <3>2 DEF WorkerState
    <3>4. worker'[v] = IF v = w THEN s ELSE worker[v]
      BY <1>1, <3>1, <3>2 DEF Read
    <3> QED
      BY <1>5, <3>3, <3>4 DEF Reads
  <2> QED
    BY <2>1, <2>2, <2>3, <2>4, <2>5
<1>6. Inside(k) => Inside(k)'
  BY <1>2, <1>4, <1>5, InsideKept
<1>7. Outside(k) => Outside(k)'
  BY <1>1, <1>2, <1>3, OutsideKept
<1> QED
  BY <1>6, <1>7, TrackedSplit, NextTrackedSplit

LEMMA InvalidationStep == ASSUME IInv, [Next]_vars, TypeOK', SessionInv' PROVE NoLostInvalidation'
<1>1. TypeOK /\ stale \subseteq Keys /\ stale' \subseteq Keys /\ NoLostInvalidation /\ SessionInv
  BY DEF IInv, TypeOK
<1>2. CASE session' \in {"off", "setup"}
  BY <1>2, ScanOwesAll
<1>3. CASE session' = "stopping"
  BY <1>3 DEF NoLostInvalidation
<1>4. CASE Start
  <2>1. scan'.pc = "wait" /\ scan'.due = scan.due /\ scan'.delay = scan.delay
    BY <1>1, <1>4 DEF Start, TypeOK
  <2>2. scan.due \/ scan.delay > 0
    BY <1>1, <1>4 DEF Start, SessionInv
  <2> QED
    BY <2>1, <2>2 DEF NoLostInvalidation, Tracked, ScanOwes
<1>5. CASE session = "on" /\ session' = "on"
  <2>1. \A k \in stale : Tracked(k)
    BY <1>1, <1>5 DEF NoLostInvalidation
  <2>3. ~SetupFails /\ ~Reconnect /\ ~Join /\ ~ScanQuits /\ ~ProcessRestart /\ ~Start
    BY <1>5 DEF SetupFails, Reconnect, Join, ScanQuits, ProcessRestart, Start
  <2>4. /\ \A s \in Sources : ~Open(s) /\ ~WatchFails(s) /\ ~ReceiverQuits(s)
        /\ \A w \in Workers : ~WorkerQuits(w)
    BY <1>5 DEF Open, WatchFails, ReceiverQuits, WorkerQuits
  <2> SUFFICES ASSUME NEW k \in stale'
               PROVE  Tracked(k)'
    BY DEF NoLostInvalidation
  <2>5. k \in Keys
    BY <1>1
  <2>6. CASE \E j \in Keys : Change(j)
    <3>1. PICK j \in Keys : Change(j)
      BY <2>6
    <3>2. k = j \/ Tracked(k)
      BY <2>1, <3>1 DEF Change
    <3> QED
      BY <1>5, <2>5, <3>1, <3>2, ChangeTracks
  <2>7. CASE \E e \in Emitters : Admit(e)
    <3>1. stale' = stale
      BY <2>7 DEF Admit
    <3> QED
      BY <2>1, <2>5, <2>7, <3>1, AdmitTracks
  <2>8. CASE \E w \in Workers : Take(w)
    <3>1. stale' = stale
      BY <2>8 DEF Take
    <3> QED
      BY <2>1, <2>5, <2>8, <3>1, TakeTracks
  <2>9. CASE \E w \in Workers : Ends(w)
    <3>1. stale' \subseteq stale
      BY <2>9 DEF Ends, Fail, Recheck, Succeed
    <3> QED
      BY <2>1, <2>9, <3>1, EndTracks
  <2>10. CASE \/ \E s \in Sources, j \in Keys : Receive(s, j)
              \/ \E j \in Keys : ScanEmits(j)
              \/ ScanBegins \/ ScanCompletes \/ ScanFails \/ ScanDue
    <3>1. stale' = stale
      BY <2>10 DEF Receive, ScanEmits, ScanBegins, ScanCompletes, ScanFails, ScanDue
    <3> QED
      BY <2>1, <2>5, <2>10, <3>1, EmitTracks
  <2>11. CASE \/ SetReady \/ Elapse \/ UNCHANGED vars
              \/ \E e \in Emitters : Overflow(e)
              \/ \E w \in Workers : Sleep(w) \/ Read(w)
    <3>1. stale' = stale
      BY <2>11 DEF SetReady, Elapse, vars, Overflow, Sleep, Read
    <3> QED
      BY <2>1, <2>5, <2>11, <3>1, OtherTracks
  <2> QED
    BY <2>3, <2>4, <2>6, <2>7, <2>8, <2>9, <2>10, <2>11 DEF Next, Ends
<1>6. session' = "on" /\ session # "on" => Start
  BY <1>1 DEF Next, Start, SetReady, Join, Reconnect, ScanQuits, SetupFails, ProcessRestart, ScanBegins, ScanCompletes,
           ScanFails, ScanDue, Elapse, Open, WatchFails, ReceiverQuits, Receive, Admit, Overflow, ScanEmits, Change,
           WorkerQuits, Take, Sleep, Read, Fail, Recheck, Succeed, Return, EndSession, vars, feed
<1>7. session' \in {"off", "setup"} \/ session' = "stopping" \/ session' = "on"
  BY DEF TypeOK
<1> QED
  BY <1>2, <1>3, <1>4, <1>5, <1>6, <1>7
-----------------------------------------------------------------------------
(* Delays are kept.                                                         *)

\* A step that leaves the delayed keys and the delays alone keeps them.
LEMMA DelayUntouched ==
  ASSUME TypeOK, UNCHANGED <<later, delay>>
  PROVE  DelayStep
  BY OptionsAssumption DEF DelayStep, TypeOK

LEMMA RestartDelay ==
  ASSUME IInv, TypeOK', Restart
  PROVE  DelayStep
<1>1. TypeOK /\ later \in Seq(Keys) /\ active \in SUBSET Keys /\ IsFiniteSet(active) /\ Distinct(later)
      /\ active \cap Elems(later) = {}
  BY EntriesTyped DEF IInv, TypeOK, BooksInv, Apart, Pending
<1>2. Elems(later) \subseteq Elems(later')
  <2>1. PICK t : t = later' /\ t \in Merges(later, active)
    BY DEF Restart
  <2>2. Elems(t) = Elems(later) \cup active
    BY <1>1, <2>1, MergeFacts
  <2> QED
    BY <2>1, <2>2
<1>3. \A k \in Keys : delay'[k] = IF k \in active THEN nextDelay(delay[k]) ELSE delay[k]
  BY DEF Restart
<1>4. \A k \in Keys : delay[k] \in Delays /\ delay[k] \in Nat
  BY <1>1, OptionsAssumption DEF TypeOK, Delays
<1>5. \A k \in Keys : nextDelay(delay[k]) >= delay[k] /\ nextDelay(delay[k]) \in Nat
  BY <1>4, DelayFacts, OptionsAssumption
<1>6. \A k \in Keys : ~(delay'[k] < delay[k])
  BY <1>3, <1>4, <1>5
<1> QED
  BY <1>2, <1>6 DEF DelayStep

LEMMA EndDelay ==
  ASSUME IInv, TypeOK', NEW w \in Workers, Ends(w)
  PROVE  DelayStep
<1>1. TypeOK /\ later \in Seq(Keys) /\ delay \in [Keys -> Delays] /\ \A k \in Keys : delay[k] \in Nat
  BY OptionsAssumption DEF IInv, TypeOK, Delays
<1>2. PICK j \in Keys : j = worker[w].key
  BY HeldKey, EndFacts
<1>3. PICK f : f = Back(w)
  OBVIOUS
<1>4. FinishFailed(j, f) \/ FinishPending(j, f) \/ FinishDone(j, f)
  BY <1>2, <1>3 DEF Ends, Fail, Recheck, Succeed
<1>5. Elems(later) \subseteq Elems(later')
  BY <1>1, <1>4, InsertFacts DEF FinishFailed, FinishPending, FinishDone
<1>6. \A k \in Keys : k # j => delay'[k] = delay[k]
  BY <1>1, <1>4 DEF FinishFailed, FinishPending, FinishDone
<1>7. Fail(w) => ~(delay'[j] < delay[j])
  <2> SUFFICES ASSUME Fail(w)
               PROVE  ~(delay'[j] < delay[j])
    OBVIOUS
  <2>1. delay'[j] = nextDelay(delay[j])
    BY <1>1, <1>2 DEF Fail, FinishFailed
  <2>2. nextDelay(delay[j]) >= delay[j] /\ nextDelay(delay[j]) \in Nat
    BY <1>1, DelayFacts, OptionsAssumption
  <2> QED
    BY <1>1, <2>1, <2>2
<1>8. \A k \in Keys : delay'[k] < delay[k] => k = j /\ (Succeed(w) \/ Recheck(w))
  BY <1>1, <1>6, <1>7 DEF Ends
<1> QED
  BY <1>2, <1>5, <1>8 DEF DelayStep

LEMMA DelayStepHolds == IInv /\ [Next]_vars /\ TypeOK' => [DelayStep]_vars
<1> SUFFICES ASSUME IInv, [Next]_vars, TypeOK'
             PROVE  DelayStep \/ UNCHANGED vars
  OBVIOUS
<1>1. TypeOK /\ \A k \in Keys : delay[k] \in Nat
  BY OptionsAssumption DEF IInv, TypeOK
<1>2. CASE Start \/ SetReady \/ Reconnect \/ ScanQuits \/ ScanBegins \/ ScanCompletes \/ ScanFails \/ ScanDue
  <2>1. UNCHANGED <<later, delay>>
    BY <1>2 DEF Start, SetReady, Reconnect, ScanQuits, ScanBegins, ScanCompletes, ScanFails, ScanDue, queue
  <2> QED
    BY <1>1, <2>1, DelayUntouched
<1>3. CASE \E s \in Sources : Open(s) \/ WatchFails(s) \/ ReceiverQuits(s) \/ \E k \in Keys : Receive(s, k)
  <2>1. UNCHANGED <<later, delay>>
    BY <1>3 DEF Open, WatchFails, ReceiverQuits, Receive, queue
  <2> QED
    BY <1>1, <2>1, DelayUntouched
<1>4. CASE \E k \in Keys : ScanEmits(k) \/ Change(k)
  <2>1. UNCHANGED <<later, delay>>
    BY <1>4 DEF ScanEmits, Change, queue
  <2> QED
    BY <1>1, <2>1, DelayUntouched
<1>5. CASE \E w \in Workers : WorkerQuits(w) \/ Sleep(w) \/ Read(w) \/ Take(w)
  <2>1. UNCHANGED <<later, delay>>
    BY <1>5 DEF WorkerQuits, Sleep, Read, Take, queue
  <2> QED
    BY <1>1, <2>1, DelayUntouched
<1>6. CASE \E e \in Emitters : Admit(e) \/ Overflow(e)
  <2>1. UNCHANGED <<later, delay>>
    BY <1>6 DEF Admit, MarkDirty, Push, Overflow, queue
  <2> QED
    BY <1>1, <2>1, DelayUntouched
<1>7. CASE SetupFails \/ Join
  BY <1>7, RestartDelay DEF SetupFails, Join, EndSession
<1>8. CASE Elapse \/ ProcessRestart
  <2>1. CASE Elapse
    <3>1. delay' = delay
      BY <2>1 DEF Elapse
    <3> QED
      BY <1>1, <2>1, <3>1 DEF DelayStep
  <2>2. CASE ProcessRestart
    BY <2>2 DEF DelayStep
  <2> QED
    BY <1>8, <2>1, <2>2
<1>9. CASE \E w \in Workers : Ends(w)
  BY <1>9, EndDelay
<1> QED
  BY <1>2, <1>3, <1>4, <1>5, <1>6, <1>7, <1>8, <1>9 DEF Next, Ends

-----------------------------------------------------------------------------
(* The theorems.                                                            *)

LEMMA InitInv == Init => IInv
<1> SUFFICES ASSUME Init
             PROVE  IInv
  OBVIOUS
<1>1. TypeOK
  <2>1. NewScan \in ScanState /\ Idle \in [Workers -> WorkerState]
    BY WorkerFacts DEF NewScan, ScanState, Delays
  <2>2. ripe \in Seq(Keys) /\ later \in Seq(Keys) /\ admission \in Seq(Emitters)
    BY DEF Init
  <2>3. delay \in [Keys -> Delays] /\ retrying \in Int
    BY DEF Init, Delays
  <2>4. stream \in [Sources -> SUBSET Keys] /\ emit \in [Emitters -> Keys \cup {None, Gone}]
    BY DEF Init
  <2>5. TypeQueue
    BY <2>2, <2>3 DEF Init, TypeQueue
  <2>6. TypeRest
    BY <2>1, <2>2, <2>4 DEF Init, TypeRest
  <2> QED
    BY <2>1, <2>5, <2>6, TypeSplit DEF Init, TypeWorkers
<1>2. BooksInv
  BY EmptyBooks DEF Init
<1>3. \A w \in Workers : worker[w].pc = "gone"
  BY WorkerFacts DEF Init
<1>4. WorkersInv
  BY <1>3 DEF WorkersInv, Acting
<1>5. NoLostWakeup
  BY <1>3 DEF NoLostWakeup, Init, NewScan
<1>6. AdmissionInv
  BY EmptyBooks DEF Init, AdmissionInv, Distinct
<1>7. SessionInv
  BY DEF Init, SessionInv, NewScan
<1>8. NoLostInvalidation
  BY DEF Init, NoLostInvalidation, Tracked, ScanOwes, NewScan
<1> QED
  BY <1>1, <1>2, <1>4, <1>5, <1>6, <1>7, <1>8 DEF IInv

LEMMA StepInv == IInv /\ [Next]_vars => IInv'
<1> SUFFICES ASSUME IInv, [Next]_vars
             PROVE  IInv'
  OBVIOUS
<1>1. TypeOK'
  BY TypeStep, NextTypeSplit
<1>2. BooksInv' /\ WorkersInv' /\ AdmissionInv' /\ SessionInv'
  BY <1>1, BooksStep, WorkersStep, AdmissionStep, SessionStep
<1>3. NoLostWakeup'
  BY <1>1, WakeWorkersStep, WakeHolderStep, WakeScanStep, NextWakeSplit
<1>4. NoLostInvalidation'
  BY <1>1, <1>2, InvalidationStep
<1> QED
  BY <1>1, <1>2, <1>3, <1>4 DEF IInv

LEMMA SpecInv == Spec => []IInv
  BY InitInv, StepInv, PTL DEF Spec

LEMMA BooksImply == IInv => QueueIsConsistent
<1> SUFFICES ASSUME IInv
             PROVE  QueueIsConsistent
  OBVIOUS
<1>1. TypeOK /\ CapacityHeld /\ RetryingExact
  BY DEF IInv, BooksInv, CapacityHeld, RetryingExact, Waiting
<1>2. OneActionPerKey
  BY DEF IInv, BooksInv, WorkersInv, Apart, Distinct, OneActionPerKey
<1> QED
  BY <1>1, <1>2 DEF QueueIsConsistent

\* The queue's books (keyQueue's items, heap and retrying) agree after any
\* interleaving of adds, takes, outcomes, cancellations and reconnects: a key is
\* acted on by one worker at a time, the capacity holds, and the gauge is exact.
THEOREM BooksAgree == Spec => []QueueIsConsistent
<1>1. IInv => QueueIsConsistent
  BY BooksImply
<1> QED
  BY <1>1, SpecInv, PTL

\* No goroutine sleeps on q.changed through work (take, addWait, waitReady), and the
\* timer of a sleeping worker is set for the first key that will be due.
THEOREM NobodySleepsThroughWork == Spec => []NoLostWakeup
<1>1. IInv => NoLostWakeup
  BY DEF IInv
<1> QED
  BY <1>1, SpecInv, PTL

\* A change is never forgotten (addLocked's dirty mark, finishResult, restart and
\* scanSchedule.reconnect): outside a teardown something leads to an action that
\* reads the key after its last change.
THEOREM ChangesAreTracked == Spec => []NoLostInvalidation
<1>1. IInv => NoLostInvalidation
  BY DEF IInv
<1> QED
  BY <1>1, SpecInv, PTL

\* Events, scans and reconnects do not make a delayed key due, and only an outcome
\* or the loss of the process shortens its backoff (addLocked, finishResult, restart).
THEOREM BackoffIsKept == Spec => DelayKept
<1>1. IInv /\ IInv' /\ [Next]_vars => [DelayStep]_vars
  BY DelayStepHolds DEF IInv
<1> QED
  BY <1>1, SpecInv, PTL DEF Spec, DelayKept
=============================================================================
