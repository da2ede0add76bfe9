----------------------------- MODULE KeyedQueue -----------------------------
(***************************************************************************)
(* The keyed controller runtime (out/controller/keyed.go and               *)
(* watch_keyed.go): a bounded queue of invalidation keys that watch        *)
(* receivers and a periodic scan fill and a pool of workers empties, inside *)
(* watch sessions that fail and reconnect around one queue.                *)
(*                                                                         *)
(* Each critical section of q.mu is one step.  A goroutine that sleeps on  *)
(* q.changed holds the channel it read under the lock, so it is woken by   *)
(* exactly the notify calls made after that step.  Time is an order: ripe  *)
(* holds the pending keys whose due time has passed and later the others,  *)
(* both in the order of the heap.                                          *)
(***************************************************************************)
EXTENDS Integers, Sequences, FiniteSets

CONSTANTS Keys,       \* the resources the controller reconciles
          Sources,    \* the watch subscriptions
          Origin,     \* the subscription that reports each key
          Workers,
          Capacity,
          RetryMin, RetryMax,
          Scanner,    \* the emitter that is the scan
          None, Gone  \* no key; a goroutine that has returned

ASSUME KeysAssumption ==
  /\ IsFiniteSet(Keys) /\ Origin \in [Keys -> Sources] /\ Scanner \notin Sources
  /\ None \notin Keys /\ Gone \notin Keys \cup {None}

\* KeyedOptions.validate
ASSUME OptionsAssumption ==
  /\ Capacity \in Nat \ {0} /\ IsFiniteSet(Workers) /\ Cardinality(Workers) \in 1 .. Capacity
  /\ RetryMin \in Nat \ {0} /\ RetryMax \in Nat /\ RetryMin <= RetryMax

Emitters == Sources \cup {Scanner}

VARIABLES
  session,    \* "off", "setup", "on" or "stopping"
  open,       \* the subscriptions that are open
  stream,     \* events a subscription holds for its receiver
  ready,      \* q.ready
  ripe,       \* pending keys that are due
  later,      \* pending keys whose due time lies ahead
  active,     \* keys with entry.active
  dirty,      \* keys with entry.dirty
  delay,      \* entry.delay, 0 for a key that has no entry
  retrying,   \* q.retrying
  worker,     \* the worker goroutines
  emit,       \* the key each emitter is about to add
  admission,  \* the emitters inside addWait, the holder of the token first
  full,       \* the holder sleeps because the queue is full
  scan,       \* q.scan and the place of the scan loop
  todo,       \* keys the running scan has yet to list
  stale       \* keys changed since the read of their last successful action

queue == <<ready, ripe, later, active, dirty, delay, retrying>>
feed == <<session, open, stream>>
emitting == <<emit, admission, full>>
scanning == <<scan, todo>>
vars == <<feed, queue, worker, emitting, scanning, stale>>

-----------------------------------------------------------------------------
Elems(s) == {s[i] : i \in DOMAIN s}
Pending == Elems(ripe) \cup Elems(later)
Entries == Pending \cup active

InsertAt(s, p, k) ==
  [i \in 1 .. Len(s) + 1 |-> IF i < p THEN s[i] ELSE IF i = p THEN k ELSE s[i - 1]]

DropAt(s, p) == [i \in 1 .. Len(s) - 1 |-> IF i < p THEN s[i] ELSE s[i + 1]]

Worker(pc, k) == [pc |-> pc, key |-> k]
Looping == Worker("loop", None)
Acting == {"acting", "fresh", "outdated"}

\* notify closes q.changed: everyone who sleeps on it goes round its loop again.
Woken(f) == [w \in Workers |-> IF f[w].pc \in {"asleep", "timed"} THEN Looping ELSE f[w]]
WokenScan(s) == IF s.pc = "asleep" THEN [s EXCEPT !.pc = "wait"] ELSE s
Notify(f) ==
  /\ worker' = Woken(f)
  /\ scan' = WokenScan(scan)
  /\ full' = FALSE

nextDelay(c) ==
  IF c < RetryMin THEN RetryMin ELSE IF c >= RetryMax \div 2 THEN RetryMax ELSE c * 2

Idle == [w \in Workers |-> Worker("gone", None)]
NewScan == [pc |-> "gone", due |-> TRUE, delay |-> 0, active |-> FALSE]

\* newKeyQueue, before the first session
Init ==
  /\ stale = Keys
  /\ session = "setup" /\ open = {} /\ stream = [s \in Sources |-> {}]
  /\ ready = FALSE /\ ripe = <<>> /\ later = <<>> /\ active = {} /\ dirty = {}
  /\ delay = [k \in Keys |-> 0] /\ retrying = 0
  /\ worker = Idle
  /\ emit = [e \in Emitters |-> Gone] /\ admission = <<>> /\ full = FALSE
  /\ scan = NewScan /\ todo = {}

-----------------------------------------------------------------------------
(* Sessions.                                                               *)

Open(s) ==
  /\ session = "setup" /\ s \notin open
  /\ open' = open \cup {s}
  /\ UNCHANGED <<session, stream, queue, worker, emitting, scanning, stale>>

\* All subscriptions are open: the workers, the scan loop and the observer start.
Start ==
  /\ session = "setup" /\ open = Sources
  /\ session' = "on"
  /\ worker' = [w \in Workers |-> Looping]
  /\ scan' = [scan EXCEPT !.pc = "wait"]
  /\ emit' = [e \in Emitters |-> None]
  /\ UNCHANGED <<open, stream, queue, admission, full, todo, stale>>

\* The observer reports the baseline complete and starts the receivers.
SetReady ==
  /\ session = "on" /\ ~ready
  /\ ready' = TRUE
  /\ Notify(worker)
  /\ UNCHANGED <<feed, ripe, later, active, dirty, delay, retrying, emit, admission, todo, stale>>

\* Mutant: a reconnect after a completed scan waits for the resync interval.
ReconnectedLater(s) ==
  IF s.active
  THEN [s EXCEPT !.active = FALSE, !.delay = nextDelay(s.delay), !.due = FALSE]
  ELSE s

\* scanSchedule.reconnect
Reconnected(s) ==
  IF s.active
  THEN [s EXCEPT !.active = FALSE, !.delay = nextDelay(s.delay), !.due = FALSE]
  ELSE IF s.delay = 0 THEN [s EXCEPT !.due = TRUE] ELSE s

\* The orders in which the heap may hold the keys of s and the keys of K, whose
\* new due times fall anywhere among those of s.
Merges(s, K) ==
  LET n == Len(s) + Cardinality(K) IN
  {t \in [1 .. n -> Elems(s) \cup K] :
     /\ \A i, j \in 1 .. n : i # j => t[i] # t[j]
     /\ \A i, j \in 1 .. Len(s) : i < j =>
          \E p, q \in 1 .. n : p < q /\ t[p] = s[i] /\ t[q] = s[j]}

\* restart: everything of the old session has returned.  An interrupted action is
\* dirty and waits for its next delay.
Restart ==
  /\ ready' = FALSE
  /\ scan' = Reconnected(scan)
  /\ active' = {}
  /\ dirty' = dirty \cup active
  /\ delay' = [k \in Keys |-> IF k \in active THEN nextDelay(delay[k]) ELSE delay[k]]
  /\ retrying' = retrying + Cardinality(active)
  /\ later' \in Merges(later, active)
  /\ UNCHANGED ripe

EndSession ==
  /\ Restart
  /\ session' = "off" /\ open' = {} /\ stream' = [s \in Sources |-> {}]
  /\ todo' = {}

SetupFails ==
  /\ session = "setup"
  /\ EndSession
  /\ UNCHANGED <<worker, emitting, stale>>

WatchFails(s) ==
  /\ session = "on" /\ ready /\ emit[s] = None
  /\ session' = "stopping"
  /\ emit' = [emit EXCEPT ![s] = Gone]
  /\ UNCHANGED <<open, stream, queue, worker, admission, full, scanning, stale>>

\* A cancelled worker returns from its sleep or leaves its key active.
WorkerQuits(w) ==
  /\ session = "stopping" /\ worker[w].pc # "gone"
  /\ worker' = [worker EXCEPT ![w] = Worker("gone", None)]
  /\ UNCHANGED <<feed, queue, emitting, scanning, stale>>

LeaveAdmission(e) ==
  /\ \/ e \notin Elems(admission) /\ UNCHANGED admission
     \/ \E p \in DOMAIN admission : admission[p] = e /\ admission' = DropAt(admission, p)
  /\ full' = (full /\ Head(admission) # e)
  /\ emit' = [emit EXCEPT ![e] = Gone]

ReceiverQuits(s) ==
  /\ session = "stopping" /\ emit[s] # Gone
  /\ LeaveAdmission(s)
  /\ UNCHANGED <<feed, queue, worker, scanning, stale>>

ScanQuits ==
  /\ session = "stopping" /\ scan.pc # "gone"
  /\ LeaveAdmission(Scanner)
  /\ scan' = [scan EXCEPT !.pc = "gone"]
  /\ UNCHANGED <<feed, queue, worker, todo, stale>>

Join ==
  /\ session = "stopping"
  /\ worker = Idle /\ \A e \in Emitters : emit[e] = Gone
  /\ EndSession
  /\ UNCHANGED <<worker, emitting, stale>>

\* ReconnectDelay has passed.
Reconnect ==
  /\ session = "off"
  /\ session' = "setup"
  /\ UNCHANGED <<open, stream, queue, worker, emitting, scanning, stale>>

\* The process dies, or a terminal error ends the controller, and it starts again.
ProcessRestart ==
  /\ session' = "setup" /\ open' = {} /\ stream' = [s \in Sources |-> {}]
  /\ ready' = FALSE /\ ripe' = <<>> /\ later' = <<>> /\ active' = {} /\ dirty' = {}
  /\ delay' = [k \in Keys |-> 0] /\ retrying' = 0
  /\ worker' = Idle
  /\ emit' = [e \in Emitters |-> Gone] /\ admission' = <<>> /\ full' = FALSE
  /\ scan' = NewScan /\ todo' = {}
  /\ UNCHANGED stale

-----------------------------------------------------------------------------
(* Emitters: the receivers and the scan.                                   *)

Enter(e, k) ==
  /\ emit' = [emit EXCEPT ![e] = k]
  /\ admission' = Append(admission, e)
  /\ UNCHANGED full

Receive(s, k) ==
  /\ session = "on" /\ ready /\ emit[s] = None /\ k \in stream[s]
  /\ stream' = [stream EXCEPT ![s] = @ \ {k}]
  /\ Enter(s, k)
  /\ UNCHANGED <<session, open, queue, worker, scanning, stale>>

\* scanSchedule.wait, then waitReady, then the source's scan
ScanBegins ==
  /\ session = "on" /\ scan.pc = "wait" /\ scan.due
  /\ IF ready THEN /\ scan' = [scan EXCEPT !.pc = "listing", !.active = TRUE]
                   /\ todo' = Keys
              ELSE /\ scan' = [scan EXCEPT !.pc = "asleep"]
                   /\ UNCHANGED todo
  /\ UNCHANGED <<feed, queue, worker, emitting, stale>>

ScanEmits(k) ==
  /\ scan.pc = "listing" /\ emit[Scanner] = None /\ k \in todo
  /\ todo' = todo \ {k}
  /\ Enter(Scanner, k)
  /\ UNCHANGED <<feed, queue, worker, scan, stale>>

\* scanSchedule.finish
Finished(s, failed) ==
  [pc |-> "wait", due |-> FALSE, active |-> FALSE,
   delay |-> IF failed THEN nextDelay(s.delay) ELSE 0]

ScanCompletes ==
  /\ scan.pc = "listing" /\ emit[Scanner] = None /\ todo = {}
  /\ scan' = Finished(scan, FALSE)
  /\ UNCHANGED <<feed, queue, worker, emitting, todo, stale>>

ScanFails ==
  /\ scan.pc = "listing" /\ emit[Scanner] = None
  /\ scan' = Finished(scan, TRUE)
  /\ todo' = {}
  /\ UNCHANGED <<feed, queue, worker, emitting, stale>>

\* The resync interval or the delay of a failed scan has passed.
ScanDue ==
  /\ ~scan.due
  /\ scan' = [scan EXCEPT !.due = TRUE]
  /\ UNCHANGED <<feed, queue, worker, emitting, todo, stale>>

\* Mutant: an event makes a delayed key due at once.
MarkDirtyNow(k) ==
  /\ k \in Entries
  /\ dirty' = dirty \cup {k}
  /\ later' = SelectSeq(later, LAMBDA x : x # k)
  /\ ripe' = IF k \in Elems(later) THEN Append(ripe, k) ELSE ripe
  /\ Notify(worker)
  /\ UNCHANGED <<ready, active, delay, retrying>>

\* addLocked on a key that has an entry: no notify.
MarkDirty(k) ==
  /\ k \in Entries
  /\ dirty' = dirty \cup {k}
  /\ UNCHANGED <<ready, ripe, later, active, delay, retrying, worker, scan, full>>

\* Mutant: only the heap is searched for the key, so an active key is pushed again.
PushActive(k) ==
  /\ k \notin Pending /\ Cardinality(Entries) < Capacity
  /\ ripe' = Append(ripe, k)
  /\ dirty' = dirty \cup {k}
  /\ Notify(worker)
  /\ UNCHANGED <<ready, later, active, delay, retrying>>

\* addLocked on a new key, with a slot free.
Push(k) ==
  /\ k \notin Entries /\ Cardinality(Entries) < Capacity
  /\ ripe' = Append(ripe, k)
  /\ dirty' = dirty \cup {k}
  /\ Notify(worker)
  /\ UNCHANGED <<ready, later, active, delay, retrying>>

\* addLocked by the holder of the token, who then returns from addWait.
Admit(e) ==
  /\ admission # <<>> /\ Head(admission) = e /\ ~full
  /\ MarkDirty(emit[e]) \/ Push(emit[e])
  /\ emit' = [emit EXCEPT ![e] = None]
  /\ admission' = Tail(admission)
  /\ UNCHANGED <<feed, todo, stale>>

\* ErrOverflow: the holder sleeps until the next notify.
Overflow(e) ==
  /\ admission # <<>> /\ Head(admission) = e /\ ~full
  /\ emit[e] \notin Entries /\ Cardinality(Entries) >= Capacity
  /\ full' = TRUE
  /\ UNCHANGED <<feed, queue, worker, emit, admission, scanning, stale>>

-----------------------------------------------------------------------------
(* Workers.                                                                *)

Take(w) ==
  /\ worker[w].pc = "loop" /\ ready /\ ripe # <<>>
  /\ LET k == Head(ripe) IN
       /\ ripe' = Tail(ripe)
       /\ retrying' = IF delay[k] > 0 THEN retrying - 1 ELSE retrying
       /\ active' = active \cup {k}
       /\ dirty' = dirty \ {k}
       /\ worker' = [worker EXCEPT ![w] = Worker("acting", k)]
  /\ UNCHANGED <<feed, ready, later, delay, emitting, scanning, stale>>

\* take sleeps: with a timer for the head of the heap, or until a notify.
Sleep(w) ==
  /\ worker[w].pc = "loop" /\ ~(ready /\ ripe # <<>>)
  /\ worker' = [worker EXCEPT ![w] = IF ready /\ later # <<>> THEN Worker("timed", Head(later))
                                                              ELSE Worker("asleep", None)]
  /\ UNCHANGED <<feed, queue, emitting, scanning, stale>>

\* Mutant: the workers sleep without a timer.
ElapseUnnoticed ==
  /\ later # <<>>
  /\ later' = Tail(later)
  /\ ripe' = Append(ripe, Head(later))
  /\ UNCHANGED <<feed, ready, active, dirty, delay, retrying, worker, emitting, scanning, stale>>

\* The due time of the first delayed key passes, and the timers set for it fire.
Elapse ==
  /\ later # <<>>
  /\ later' = Tail(later)
  /\ ripe' = Append(ripe, Head(later))
  /\ worker' = [w \in Workers |-> IF worker[w] = Worker("timed", Head(later)) THEN Looping ELSE worker[w]]
  /\ UNCHANGED <<feed, ready, active, dirty, delay, retrying, emitting, scanning, stale>>

\* The action reads the authoritative state of its key.
Read(w) ==
  /\ worker[w].pc = "acting"
  /\ worker' = [worker EXCEPT ![w].pc = "fresh"]
  /\ UNCHANGED <<feed, queue, emitting, scanning, stale>>

\* finishResult, the three outcomes.  Each ends with one notify.
FinishFailed(k, f) ==
  /\ retrying' = retrying + 1
  /\ delay' = [delay EXCEPT ![k] = nextDelay(@)]
  /\ \E p \in 1 .. Len(later) + 1 : later' = InsertAt(later, p, k)
  /\ Notify(f)
  /\ UNCHANGED <<ripe, dirty>>

FinishPending(k, f) ==
  /\ delay' = [delay EXCEPT ![k] = 0]
  /\ \E p \in 1 .. Len(later) + 1 : later' = InsertAt(later, p, k)
  /\ Notify(f)
  /\ UNCHANGED <<ripe, dirty, retrying>>

\* Mutant: nobody is told that a slot is free.
FinishDoneSilently(k, f) ==
  /\ delay' = [delay EXCEPT ![k] = 0]
  /\ ripe' = IF k \in dirty THEN Append(ripe, k) ELSE ripe
  /\ worker' = f
  /\ UNCHANGED <<later, dirty, retrying, scan, full>>

FinishDone(k, f) ==
  /\ delay' = [delay EXCEPT ![k] = 0]
  /\ ripe' = IF k \in dirty THEN Append(ripe, k) ELSE ripe
  /\ Notify(f)
  /\ UNCHANGED <<later, dirty, retrying>>

\* The worker's action returns, and the worker goes back to its loop.
Return(w, pcs) ==
  /\ worker[w].pc \in pcs
  /\ active' = active \ {worker[w].key}
  /\ UNCHANGED <<feed, ready, emit, admission, todo>>

Back(w) == [worker EXCEPT ![w] = Looping]

Fail(w) == Return(w, Acting) /\ FinishFailed(worker[w].key, Back(w)) /\ UNCHANGED stale

Recheck(w) ==
  Return(w, {"fresh", "outdated"}) /\ FinishPending(worker[w].key, Back(w)) /\ UNCHANGED stale

Succeed(w) ==
  /\ Return(w, {"fresh", "outdated"}) /\ FinishDone(worker[w].key, Back(w))
  /\ stale' = IF worker[w].pc = "fresh" THEN stale \ {worker[w].key} ELSE stale

-----------------------------------------------------------------------------
\* The resource changes: its subscription reports it, and a read of it is old.
Change(k) ==
  /\ stale' = stale \cup {k}
  /\ stream' = [stream EXCEPT ![Origin[k]] = IF Origin[k] \in open THEN @ \cup {k} ELSE @]
  /\ worker' = [w \in Workers |-> IF worker[w] = Worker("fresh", k) THEN Worker("outdated", k) ELSE worker[w]]
  /\ UNCHANGED <<session, open, queue, emitting, scanning>>

Fault ==
  \/ SetupFails \/ ScanFails \/ ProcessRestart
  \/ \E s \in Sources : WatchFails(s)
  \/ \E w \in Workers : Fail(w) \/ Recheck(w)

Next ==
  \/ Start \/ SetReady \/ Join \/ Reconnect \/ ScanQuits \/ SetupFails \/ ProcessRestart
  \/ ScanBegins \/ ScanCompletes \/ ScanFails \/ ScanDue \/ Elapse
  \/ \E s \in Sources : Open(s) \/ WatchFails(s) \/ ReceiverQuits(s) \/ \E k \in Keys : Receive(s, k)
  \/ \E e \in Emitters : Admit(e) \/ Overflow(e)
  \/ \E k \in Keys : ScanEmits(k) \/ Change(k)
  \/ \E w \in Workers : WorkerQuits(w) \/ Take(w) \/ Sleep(w) \/ Read(w) \/ Fail(w) \/ Recheck(w) \/ Succeed(w)

Spec == Init /\ [][Next]_vars

\* One goroutine, one condition: each keeps running, and each timer fires.
SessionLoop == Start \/ SetReady \/ Join \/ Reconnect \/ SetupFails \/ \E s \in Sources : Open(s)
ScanLoop == ScanBegins \/ ScanCompletes \/ ScanFails \/ ScanQuits \/ \E k \in Keys : ScanEmits(k)
ReceiverLoop(s) == ReceiverQuits(s) \/ \E k \in Keys : Receive(s, k)
WorkerLoop(w) == Take(w) \/ Sleep(w) \/ Read(w) \/ Fail(w) \/ Recheck(w) \/ Succeed(w) \/ WorkerQuits(w)

Fairness ==
  /\ WF_vars(SessionLoop) /\ WF_vars(ScanLoop) /\ WF_vars(ScanDue) /\ WF_vars(Elapse)
  /\ WF_vars(\E e \in Emitters : Admit(e) \/ Overflow(e))
  /\ \A s \in Sources : WF_vars(ReceiverLoop(s))
  /\ \A w \in Workers : WF_vars(WorkerLoop(w))

FairSpec == Spec /\ Fairness

-----------------------------------------------------------------------------
\* The types of the variables; every delay is zero or within RetryMin and RetryMax.
TypeOK ==
  /\ session \in {"off", "setup", "on", "stopping"}
  /\ open \subseteq Sources /\ stream \in [Sources -> SUBSET Keys]
  /\ ready \in BOOLEAN /\ ripe \in Seq(Keys) /\ later \in Seq(Keys)
  /\ active \subseteq Keys /\ dirty \subseteq Keys
  /\ delay \in [Keys -> {0} \cup RetryMin .. RetryMax] /\ retrying \in Int
  /\ worker \in [Workers -> [pc : {"gone", "loop", "asleep", "timed"} \cup Acting, key : Keys \cup {None}]]
  /\ emit \in [Emitters -> Keys \cup {None, Gone}] /\ admission \in Seq(Emitters) /\ full \in BOOLEAN
  /\ scan \in [pc : {"gone", "wait", "asleep", "listing"}, due : BOOLEAN,
               delay : {0} \cup RetryMin .. RetryMax, active : BOOLEAN]
  /\ todo \subseteq Keys /\ stale \subseteq Keys

(* RunKeyed promises one action per key at a time.  It rests on every entry being
   either in the heap once or active, so that finishResult never meets an inactive
   key and panics, whatever the interleaving of adds, takes, interrupted actions
   and reconnects. *)
OneActionPerKey ==
  /\ \A v, w \in Workers : v # w /\ worker[v].pc \in Acting /\ worker[w].pc \in Acting
                             => worker[v].key # worker[w].key
  /\ \A w \in Workers : worker[w].pc \in Acting => worker[w].key \in active
  /\ active \cap Pending = {} /\ Elems(ripe) \cap Elems(later) = {}
  /\ \A i, j \in DOMAIN ripe : i # j => ripe[i] # ripe[j]
  /\ \A i, j \in DOMAIN later : i # j => later[i] # later[j]

(* The capacity counts queued, delayed and active keys, and a key that keeps its
   entry through retries and reconnects never pushes the queue over it. *)
CapacityHeld == Cardinality(Entries) <= Capacity

(* q.retrying, which take, finishResult and restart adjust one by one, is the
   number of keys that wait in the heap after a failure. *)
RetryingExact == retrying = Cardinality({k \in Pending : delay[k] > 0})

(* No goroutine sleeps through work: a worker asleep in take has no key to take and
   its timer is set for the first key due, an emitter asleep in addWait has no
   slot, and the scan asleep in waitReady waits for a queue that is not ready. *)
NoLostWakeup ==
  /\ \A w \in Workers :
       /\ worker[w].pc = "asleep" => ~ready \/ Pending = {}
       /\ worker[w].pc = "timed" => ripe = <<>> /\ later # <<>> /\ worker[w].key = Head(later)
  /\ full => Cardinality(Entries) >= Capacity
  /\ scan.pc = "asleep" => ~ready

\* The scan has yet to list k: it runs and has not reached k, or will run anew.
ScanOwes(k) ==
  IF scan.pc = "listing" THEN k \in todo \/ emit[Scanner] = k ELSE scan.due \/ scan.delay > 0

\* Something in the session leads to an action that reads k after its last change.
Tracked(k) ==
  \/ ScanOwes(k)
  \/ k \in stream[Origin[k]] \/ \E e \in Emitters : emit[e] = k
  \/ k \in Pending
  \/ k \in active /\ (k \in dirty \/ \E w \in Workers : worker[w].key = k /\ worker[w].pc \in {"acting", "fresh"})

(* A change is never forgotten: outside the teardown of a session, a key whose last
   change no successful action has read is still in a stream, with an emitter, in
   the queue, being acted on with its mark, or owed by a scan.  Teardown drops
   streams and emitters, and the next session's scan has to make up for it. *)
NoLostInvalidation == session # "stopping" => \A k \in stale : Tracked(k)

\* A delayed key becomes due by time alone, and only an outcome shortens its delay.
DelayStep ==
  \A k \in Keys :
    /\ k \in Elems(later) => k \in Elems(later)' \/ Elapse \/ ProcessRestart
    /\ delay'[k] < delay[k] => ProcessRestart \/ \E w \in Workers : worker[w].key = k /\ (Succeed(w) \/ Recheck(w))

(* Events, scans and reconnects cannot bypass the delay of a failed or pending key
   and do not reset its backoff; only the loss of the process does. *)
DelayKept == [][DelayStep]_vars

\* From some time on nothing fails, asks for a recheck or changes.
Quiet == <>[][~Fault /\ ~\E k \in Keys : Change(k)]_vars

(* Once failures and changes stop, every changed key is acted on successfully after
   its last change, whatever was in flight, delayed or lost before, and no emitter
   waits for ever: addWait is admitted although the queue was full of other keys. *)
Settles == Quiet => <>[](stale = {}) /\ []<>(admission = <<>>)

(* The queue's own books agree after any interleaving of workers, emitters and
   reconnects: types, one action per key, the capacity and the retry gauge. *)
QueueIsConsistent == TypeOK /\ OneActionPerKey /\ CapacityHeld /\ RetryingExact
=============================================================================
