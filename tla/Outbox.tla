------------------------------- MODULE Outbox -------------------------------
(***************************************************************************)
(* The transactional outbox (out/outbox/queue.go and worker.go):            *)
(* application transactions append messages under advisory locks, workers   *)
(* lease the oldest message of a key, call its handler and acknowledge or   *)
(* retry it.  Each SQL statement and each transaction end is one step.      *)
(*                                                                         *)
(* A member of Msgs is a slot: once its message has left the table, the     *)
(* next transaction stores a new message, with a new ID, in the slot.       *)
(***************************************************************************)
EXTENDS Integers, Sequences, FiniteSets

CONSTANTS Msgs,
          Locks,      \* delivery keys, numbered in the order of their advisory locks
          KeyOf,      \* destination and resource key of each message
          Txs,        \* application transactions
          Batch,      \* the messages of each transaction, in order
          Workers,
          Threshold,  \* attempts after which Purge may drop a message; 0: Purge is not used
          None

ASSUME OutboxAssumption ==
  /\ Locks \subseteq Nat /\ IsFiniteSet(Locks) /\ KeyOf \in [Msgs -> Locks]
  /\ IsFiniteSet(Msgs) /\ IsFiniteSet(Workers) /\ IsFiniteSet(Txs)
  /\ Batch \in [Txs -> Seq(Msgs)] /\ None \notin Msgs
  /\ Threshold \in Nat
  \* every message of every transaction is one of its own
  /\ \A t, u \in Txs : \A i \in DOMAIN Batch[t], j \in DOMAIN Batch[u] :
       Batch[t][i] = Batch[u][j] => t = u /\ i = j

VARIABLES
  table,      \* inserted messages, committed or not
  before,     \* the order of their sequence numbers
  committed,  \* messages visible to other transactions
  msg,        \* the columns of each message
  tx,         \* the application transactions
  worker,     \* the delivery workers
  delivered   \* messages whose handler has reported success

vars == <<table, before, committed, msg, tx, worker, delivered>>

-----------------------------------------------------------------------------
Elems(s) == {s[i] : i \in DOMAIN s}
BatchKeys(t) == {KeyOf[m] : m \in Elems(Batch[t])}

\* uuid.NewRandom: a token nobody holds
Tokens == 1 .. Cardinality(Workers) + Cardinality(Msgs) + 1
NewToken ==
  CHOOSE i \in Tokens : /\ \A m \in Msgs : msg[m].token # i
                        /\ \A w \in Workers : worker[w].token # i

\* attempts matters up to the threshold
Cap == IF Threshold = 0 THEN 1 ELSE Threshold
NextAttempt(n) == IF n < Cap THEN n + 1 ELSE n

Clean == [avail |-> "due", lease |-> "none", token |-> 0, attempts |-> 0, failed |-> FALSE]
Resting == [pc |-> "idle", msg |-> None, token |-> 0, overdue |-> FALSE]
NoTx == [pc |-> "none", held |-> {}]

Before(e, m) == <<e, m>> \in before
IsHead(m) == ~\E e \in committed : KeyOf[e] = KeyOf[m] /\ Before(e, m)

Init ==
  /\ table = {} /\ before = {} /\ committed = {} /\ delivered = {}
  /\ msg = [m \in Msgs |-> Clean]
  /\ tx = [t \in Txs |-> NoTx]
  /\ worker = [w \in Workers |-> Resting]

-----------------------------------------------------------------------------
(* Application transactions.                                               *)

\* Mutant: the locks are taken in the order of the messages.
NextLockUnsorted(t) ==
  LET free == {i \in DOMAIN Batch[t] : KeyOf[Batch[t][i]] \notin tx[t].held} IN
  KeyOf[Batch[t][CHOOSE i \in free : \A j \in free : i <= j]]

\* Enqueue sorts the locks of its batch.
NextLock(t) ==
  LET free == BatchKeys(t) \ tx[t].held IN CHOOSE k \in free : \A j \in free : k <= j

Waiting(t) == tx[t].pc = "locking" /\ BatchKeys(t) # tx[t].held

Begin(t) ==
  /\ tx[t].pc = "none" /\ Elems(Batch[t]) \cap table = {}
  /\ tx' = [tx EXCEPT ![t].pc = "locking"]
  /\ UNCHANGED <<table, before, committed, msg, worker, delivered>>

\* pg_advisory_xact_lock
Lock(t) ==
  /\ Waiting(t)
  /\ \A u \in Txs : NextLock(t) \notin tx[u].held
  /\ tx' = [tx EXCEPT ![t].held = @ \cup {NextLock(t)}]
  /\ UNCHANGED <<table, before, committed, msg, worker, delivered>>

\* The INSERTs draw from one sequence: the rows come after all that are there.
AppendRows(t) ==
  /\ table' = table \cup Elems(Batch[t])
  /\ before' = before \cup (table \X Elems(Batch[t])) \cup
       {p \in Msgs \X Msgs : \E i, j \in DOMAIN Batch[t] : i < j /\ p = <<Batch[t][i], Batch[t][j]>>}

\* Rows leave the table; the others keep their sequence numbers.
Without(S) == table' = table \ S /\ before' = before \cap (table' \X table')

\* Mutant: the batch is inserted without its locks.
InsertUnlocked(t) ==
  /\ tx[t].pc = "locking"
  /\ AppendRows(t)
  /\ msg' = [m \in Msgs |-> IF m \in Elems(Batch[t]) THEN Clean ELSE msg[m]]
  /\ tx' = [tx EXCEPT ![t].pc = "inserted"]
  /\ delivered' = delivered \ Elems(Batch[t])
  /\ UNCHANGED <<committed, worker>>

Insert(t) ==
  /\ tx[t].pc = "locking" /\ tx[t].held = BatchKeys(t)
  /\ AppendRows(t)
  /\ msg' = [m \in Msgs |-> IF m \in Elems(Batch[t]) THEN Clean ELSE msg[m]]
  /\ tx' = [tx EXCEPT ![t].pc = "inserted"]
  /\ delivered' = delivered \ Elems(Batch[t])
  /\ UNCHANGED <<committed, worker>>

Commit(t) ==
  /\ tx[t].pc = "inserted"
  /\ committed' = committed \cup Elems(Batch[t])
  /\ tx' = [tx EXCEPT ![t] = NoTx]
  /\ UNCHANGED <<table, before, msg, worker, delivered>>

\* The application fails, or a lock is not granted in time.
Rollback(t) ==
  /\ tx[t].pc # "none"
  /\ Without(IF tx[t].pc = "inserted" THEN Elems(Batch[t]) ELSE {})
  /\ tx' = [tx EXCEPT ![t] = NoTx]
  /\ UNCHANGED <<committed, msg, worker, delivered>>

-----------------------------------------------------------------------------
(* Delivery.                                                               *)

\* Mutant: a lease that ran out still keeps its message from other workers.
ClaimableUnleased(m) ==
  m \in committed /\ msg[m].avail # "later" /\ msg[m].lease = "none" /\ IsHead(m)

Claimable(m) ==
  m \in committed /\ msg[m].avail # "later" /\ msg[m].lease # "live" /\ IsHead(m)

\* The update of Claim leases the first claimable message.
Leased(m) ==
  /\ Claimable(m) /\ \A e \in committed : Claimable(e) => ~Before(e, m)
  /\ msg' = [msg EXCEPT ![m].lease = "live", ![m].token = NewToken, ![m].attempts = NextAttempt(@)]

Claim(w) ==
  /\ worker[w].pc = "idle"
  /\ \E m \in Msgs :
       /\ Leased(m)
       /\ worker' = [worker EXCEPT ![w] = [pc |-> "handling", msg |-> m, token |-> NewToken, overdue |-> FALSE]]
  /\ UNCHANGED <<table, before, committed, tx, delivered>>

\* The leases are committed and the answer is lost.
ClaimUnanswered(w) ==
  /\ worker[w].pc = "idle"
  /\ \E m \in Msgs : Leased(m)
  /\ UNCHANGED <<table, before, committed, tx, worker, delivered>>

HandlerSucceeds(w) ==
  /\ worker[w].pc = "handling"
  /\ worker' = [worker EXCEPT ![w].pc = "acknowledge"]
  /\ delivered' = delivered \cup {worker[w].msg}
  /\ UNCHANGED <<table, before, committed, msg, tx>>

\* Mutant: an attempt that ran into its deadline is acknowledged.
HandlerFailsQuietly(w) ==
  /\ worker[w].pc = "handling"
  /\ worker' = [worker EXCEPT ![w].pc = "acknowledge"]
  /\ UNCHANGED <<table, before, committed, msg, tx, delivered>>

\* The handler fails or expires, there is none, or the worker is stopping.
HandlerFails(w) ==
  /\ worker[w].pc = "handling"
  /\ worker' = [worker EXCEPT ![w].pc = "retry"]
  /\ UNCHANGED <<table, before, committed, msg, tx, delivered>>

\* Mutant: the receipt's token is not compared.
OwnsAny(w) == worker[w].msg \in committed /\ msg[worker[w].msg].lease = "live"

\* lease_token = $2 AND lease_until > clock_timestamp()
Owns(w) ==
  /\ worker[w].msg \in committed
  /\ msg[worker[w].msg].lease = "live" /\ msg[worker[w].msg].token = worker[w].token

Remove(S) ==
  /\ Without(S)
  /\ committed' = committed \ S
  /\ msg' = [m \in Msgs |-> IF m \in S THEN Clean ELSE msg[m]]

Acknowledge(w) ==
  /\ worker[w].pc = "acknowledge"
  /\ Remove(IF Owns(w) THEN {worker[w].msg} ELSE {})
  /\ worker' = [worker EXCEPT ![w] = Resting]
  /\ UNCHANGED <<tx, delivered>>

Retry(w) ==
  /\ worker[w].pc = "retry"
  /\ msg' = IF Owns(w)
            THEN [msg EXCEPT ![worker[w].msg] =
                    [@ EXCEPT !.avail = "later", !.lease = "none", !.token = 0, !.failed = TRUE]]
            ELSE msg
  /\ worker' = [worker EXCEPT ![w] = Resting]
  /\ UNCHANGED <<table, before, committed, tx, delivered>>

\* The process dies, or the statement that reports the outcome is not carried out.
Drop(w) ==
  /\ worker[w].pc # "idle"
  /\ worker' = [worker EXCEPT ![w] = Resting]
  /\ UNCHANGED <<table, before, committed, msg, tx, delivered>>

\* LeaseDuration has passed since the claim and the handler still runs.
Overrun(w) ==
  /\ worker[w].pc # "idle" /\ ~worker[w].overdue
  /\ worker' = [worker EXCEPT ![w].overdue = TRUE]
  /\ msg' = IF Owns(w) THEN [msg EXCEPT ![worker[w].msg].lease = "expired"] ELSE msg
  /\ UNCHANGED <<table, before, committed, tx, delivered>>

\* The lease of a worker that is gone runs out.
Expire(m) ==
  /\ m \in committed /\ msg[m].lease = "live"
  /\ \A w \in Workers : worker[w].token # msg[m].token
  /\ msg' = [msg EXCEPT ![m].lease = "expired"]
  /\ UNCHANGED <<table, before, committed, tx, worker, delivered>>

\* available_at passes, and then the retention period.
Due(m) ==
  /\ m \in committed /\ msg[m].avail = "later"
  /\ msg' = [msg EXCEPT ![m].avail = "due"]
  /\ UNCHANGED <<table, before, committed, tx, worker, delivered>>

Age(m) ==
  /\ Threshold > 0
  /\ m \in committed /\ msg[m].avail = "due"
  /\ msg' = [msg EXCEPT ![m].avail = "old"]
  /\ UNCHANGED <<table, before, committed, tx, worker, delivered>>

\* Purge asks for the attempts and the age of a message, not for its lease.
Purge(m) ==
  /\ Threshold > 0
  /\ m \in committed /\ msg[m].attempts >= Threshold /\ msg[m].avail = "old"
  /\ Remove({m})
  /\ UNCHANGED <<tx, worker, delivered>>

Next ==
  \/ \E t \in Txs : Begin(t) \/ Lock(t) \/ Insert(t) \/ Commit(t) \/ Rollback(t)
  \/ \E w \in Workers : \/ Claim(w) \/ ClaimUnanswered(w) \/ HandlerSucceeds(w) \/ HandlerFails(w)
                        \/ Acknowledge(w) \/ Retry(w) \/ Drop(w) \/ Overrun(w)
  \/ \E m \in Msgs : Expire(m) \/ Due(m) \/ Age(m) \/ Purge(m)

Spec == Init /\ [][Next]_vars

\* Transactions end, workers keep polling and reporting, and the clock runs.
Fairness ==
  /\ \A t \in Txs : WF_vars(Insert(t) \/ Commit(t))
  /\ \A w \in Workers : WF_vars(Claim(w) \/ HandlerSucceeds(w) \/ HandlerFails(w) \/ Acknowledge(w) \/ Retry(w))
  /\ \A m \in Msgs : WF_vars(Expire(m)) /\ WF_vars(Due(m))

FairSpec == Spec /\ Fairness

-----------------------------------------------------------------------------
\* The types of the variables, and the table's check that token and lease go together.
TypeOK ==
  /\ table \subseteq Msgs /\ before \subseteq table \X table
  /\ committed \subseteq table /\ delivered \subseteq Msgs
  /\ msg \in [Msgs -> [avail : {"later", "due", "old"}, lease : {"none", "live", "expired"},
                       token : {0} \cup Tokens, attempts : 0 .. Cap, failed : BOOLEAN]]
  /\ \A m \in Msgs : msg[m].lease = "none" <=> msg[m].token = 0
  /\ tx \in [Txs -> [pc : {"none", "locking", "inserted"}, held : SUBSET Locks]]
  /\ worker \in [Workers -> [pc : {"idle", "handling", "acknowledge", "retry"}, msg : Msgs \cup {None},
                             token : {0} \cup Tokens, overdue : BOOLEAN]]

(* Messages of a key are delivered in sequence order, across concurrent
   transactions too: while an earlier message of its key is in the table, even one
   that is not committed yet, a message has never been claimed. *)
OrderKept ==
  \A e, m \in table : KeyOf[e] = KeyOf[m] /\ Before(e, m) => msg[m].attempts = 0

(* "An earlier message blocks that key during delivery and retry" (Claim): two
   handlers that are both within their lease never work on messages of one key. *)
KeyExclusive ==
  \A v, w \in Workers :
    v # w /\ worker[v].pc = "handling" /\ worker[w].pc = "handling"
      /\ ~worker[v].overdue /\ ~worker[w].overdue
      => KeyOf[worker[v].msg] # KeyOf[worker[w].msg]

(* However leases expire and whatever Purge removes, at most one worker holds a
   receipt that can still settle a message of a key: an attempt that was overtaken
   can neither acknowledge nor postpone what another worker is delivering. *)
OneReceiptPerKey ==
  \A v, w \in Workers :
    v # w /\ worker[v].pc # "idle" /\ worker[w].pc # "idle" /\ Owns(v) /\ Owns(w)
      => KeyOf[worker[v].msg] # KeyOf[worker[w].msg]

(* Transactions that enqueue for several keys in different orders never wait for
   each other's locks in a circle. *)
NoLockCycle ==
  ~\E t, u \in Txs : /\ t # u /\ Waiting(t) /\ Waiting(u)
                     /\ NextLock(t) \in tx[u].held /\ NextLock(u) \in tx[t].held

\* A committed message leaves the table after a successful handler or by Purge.
LeavingStep ==
  \A m \in Msgs : m \in committed /\ m \notin committed' => m \in delivered \/ Purge(m)

(* No message is discarded without delivery, although leases expire, receipts go
   stale, workers die and answers are lost. *)
AtLeastOnce == [][LeavingStep]_vars

\* From some time on nothing fails.
Calm == <>[][~\E w \in Workers : ClaimUnanswered(w) \/ HandlerFails(w) \/ Drop(w) \/ Overrun(w)]_vars

(* Once failures stop, every committed message is delivered and removed, although
   transactions go on enqueueing and earlier failures left leases and delays. *)
Delivers == Calm => \A m \in Msgs : m \in committed ~> m \notin committed
=============================================================================
