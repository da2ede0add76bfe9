------------------------ MODULE GatewayCleanupProofs ------------------------
(***************************************************************************)
(* The end of a gateway, for any number of workload controllers and other  *)
(* owners, with or without a console: no database is left behind a recorded *)
(* cleanup, keys outlive the databases they open, and the deletion is       *)
(* published once.                                                          *)
(***************************************************************************)
EXTENDS GatewayCleanup, TLAPS

\* A database that is reserved, exists or is being removed has such a record.
Live == {"reserved", "ready", "deleting"}

\* The keys of a component are there and sealed.
Keyed(c) == ns[Home(c)] = "active" /\ secret[c] = "pinned"

\* A component is over for good: it never had a database, or it has a tombstone.
Buried(c) == binding[c] = "empty" \/ (binding[c] = "closed" /\ ledger[c] = "deleted")

\* The places of a controller that works on a deletion, and those with a component.
Removing == {"gone", "close", "drop", "erase", "bury", "complete", "observe"}
Dropping == {"close", "drop", "erase", "bury"}
Ensuring == {"load", "bind", "reserve", "create", "ready"}

RowInv ==
  /\ row.done = Owners => row.final
  /\ events = IF row.final THEN 1 ELSE 0
  /\ row.final => row.deleted
  /\ "sql" \in row.done => \A c \in Components : Buried(c)

OtherInv == \A o \in Others : view[o].pc = "work" => row.deleted

AllocInv ==
  /\ alloc.pc \in {"ensure", "remove"} => alloc.at \in Namespaces
  /\ alloc.pc \in {"remove", "observe"} => row.deleted
  /\ "sql" \in alloc.done => "sql" \in row.done
  /\ alloc.pc = "remove" /\ alloc.at \in {"gateway-state", "console-state"} => "sql" \in alloc.done

\* The database, its record, its binding and its keys agree.
StateInv(c) ==
  /\ c \in db => ledger[c] \in Live
  /\ binding[c] \in {"none", "empty"} => ledger[c] = "none"
  /\ ledger[c] \in Live => Keyed(c)

\* What a controller knows of the component it works on.
PlaceInv(w) ==
  /\ work[w].pc \in Removing => row.deleted
  /\ work[w].pc \in Ensuring \cup Dropping => work[w].at \in Components
  /\ work[w].pc = "gone" => work[w].at \in {"gateway", "sandbox"}
  /\ work[w].pc \in {"bind", "reserve"} => Keyed(work[w].at) \/ Buried(work[w].at)
  /\ work[w].pc \in {"reserve", "create", "ready"} => binding[work[w].at] \in {"bound", "closed"}
  /\ work[w].pc \in {"create", "ready"} => ledger[work[w].at] = "reserved"
  /\ work[w].pc \in {"drop", "erase", "bury"} => binding[work[w].at] = "closed"
  /\ work[w].pc \in {"erase", "bury"} => ledger[work[w].at] = "deleting"
  /\ work[w].pc = "bury" => work[w].at \notin db

\* What it has achieved: the console comes first, and a success so far covers it.
ChainInv(w) ==
  /\ work[w].pc = "complete" => work[w].at = "console" /\ Buried("console")
  /\ work[w].pc \in Dropping /\ work[w].at = "gateway" /\ work[w].ok => Buried("console")
  /\ work[w].pc = "observe" /\ work[w].ok /\ "sql" \notin work[w].done =>
       \A c \in Components : Buried(c)

\* The session lock: one controller at a time works on a database.
Exclusive ==
  \A v, w \in Workers :
    v # w /\ work[v].pc \in InSql /\ work[w].pc \in InSql => work[v].at # work[w].at

IInv ==
  /\ TypeOK /\ RowInv /\ OtherInv /\ AllocInv /\ Exclusive
  /\ \A c \in Components : StateInv(c)
  /\ \A w \in Workers : PlaceInv(w) /\ ChainInv(w)

-----------------------------------------------------------------------------
(* What the steps have in common.                                           *)

Pcs == {"idle", "load", "bind", "reserve", "report", "gone", "close", "drop", "complete", "observe"} \cup InSql
Places == Components \cup {"sandbox", "none"}
Job == [pc : Pcs, at : Places, ok : BOOLEAN, done : SUBSET Owners]

\* Controller w goes to a place, and no other controller moves.
Moved(w, pc, at, ok, done) ==
  /\ work' \in [Workers -> Job]
  /\ work'[w].pc = pc /\ work'[w].at = at /\ work'[w].ok = ok /\ work'[w].done = done
  /\ \A v \in Workers \ {w} : work'[v] = work[v]

\* What no step takes back.
Steady ==
  /\ row.deleted => row'.deleted
  /\ \A c \in Components :
       /\ Buried(c) => Buried(c)'
       /\ Keyed(c) => Keyed(c)' \/ Buried(c)'
       /\ binding[c] \in {"bound", "closed"} => binding'[c] \in {"bound", "closed"}
       /\ binding[c] = "closed" => binding'[c] = "closed"

\* The step leaves alone the database that controller v works on.
Untouched(v) ==
  /\ work'[v] = work[v]
  /\ work[v].pc \in InSql => /\ ledger'[work[v].at] = ledger[work[v].at]
                             /\ work[v].at \in db' => work[v].at \in db

LEMMA GoMoves ==
  ASSUME TypeOK, NEW w \in Workers, NEW pc \in Pcs, NEW at \in Places, Go(w, pc, at)
  PROVE  Moved(w, pc, at, work[w].ok, work[w].done)
<1>1. work \in [Workers -> Job]
  BY DEF TypeOK, Job, Pcs, Places
<1>2. work' = [work EXCEPT ![w] = [work[w] EXCEPT !.pc = pc, !.at = at]]
  BY <1>1 DEF Go, Job
<1>3. [work[w] EXCEPT !.pc = pc, !.at = at] \in Job
  BY <1>1 DEF Job
<1> QED
  BY <1>1, <1>2, <1>3 DEF Moved, Job

LEMMA ProcessMoves ==
  ASSUME TypeOK, NEW w \in Workers, NEW pc \in Pcs, NEW at \in Places, NEW ok \in BOOLEAN, NEW done \in SUBSET Owners,
         work' = [work EXCEPT ![w] = Process(pc, at, ok, done)]
  PROVE  Moved(w, pc, at, ok, done)
<1>1. work \in [Workers -> Job]
  BY DEF TypeOK, Job, Pcs, Places
<1>2. Process(pc, at, ok, done) \in Job
  BY DEF Job, Process
<1>3. Process(pc, at, ok, done).pc = pc /\ Process(pc, at, ok, done).at = at
      /\ Process(pc, at, ok, done).ok = ok /\ Process(pc, at, ok, done).done = done
  BY DEF Process
<1> QED
  BY <1>1, <1>2, <1>3 DEF Moved

LEMMA IdleMoves ==
  ASSUME TypeOK, NEW w \in Workers, work' = [work EXCEPT ![w] = Idle]
  PROVE  Moved(w, "idle", "none", FALSE, {})
<1>1. "idle" \in Pcs /\ "none" \in Places /\ FALSE \in BOOLEAN /\ {} \in SUBSET Owners
  BY DEF Pcs, Places
<1> QED
  BY <1>1, ProcessMoves DEF Idle

LEMMA DeletedMoves ==
  ASSUME TypeOK, NEW w \in Workers, NEW c \in Components, NEW ok \in BOOLEAN, AfterDeleted(w, c, ok)
  PROVE  Moved(w, IF c = "console" THEN "close" ELSE "observe", IF c = "console" THEN "gateway" ELSE "none",
               work[w].ok /\ ok, work[w].done)
<1>1. work \in [Workers -> Job]
  BY DEF TypeOK, Job, Pcs, Places
<1> DEFINE pc == IF c = "console" THEN "close" ELSE "observe"
           at == IF c = "console" THEN "gateway" ELSE "none"
<1>2. pc \in Pcs /\ at \in Places
  BY DEF Pcs, Places, Components
<1>3. (work[w].ok /\ ok) \in BOOLEAN /\ work[w].done \in SUBSET Owners
  BY <1>1 DEF Job
<1>4. work' = [work EXCEPT ![w] = Process(pc, at, work[w].ok /\ ok, work[w].done)]
  BY <1>1 DEF AfterDeleted
<1> HIDE DEF pc, at
<1>5. Moved(w, pc, at, work[w].ok /\ ok, work[w].done)
  BY <1>2, <1>3, <1>4, ProcessMoves
<1> QED
  BY <1>5 DEF pc, at

\* A controller that does not move knows what it knew.
LEMMA Frame ==
  ASSUME TypeOK, NEW v \in Workers, PlaceInv(v), ChainInv(v), Steady, Untouched(v)
  PROVE  PlaceInv(v)' /\ ChainInv(v)'
<1>1. work[v] \in Job
  BY DEF TypeOK, Job, Pcs, Places
<1>2. PlaceInv(v)'
  <2>1. (work[v].pc \in Removing => row.deleted)'
    BY DEF PlaceInv, Steady, Untouched
  <2>2. (work[v].pc \in Ensuring \cup Dropping => work[v].at \in Components)'
    BY DEF PlaceInv, Untouched
  <2>3. (work[v].pc = "gone" => work[v].at \in {"gateway", "sandbox"})'
    BY DEF PlaceInv, Untouched
  <2>4. (work[v].pc \in {"bind", "reserve"} => Keyed(work[v].at) \/ Buried(work[v].at))'
    BY DEF PlaceInv, Steady, Untouched, Ensuring
  <2>5. (work[v].pc \in {"reserve", "create", "ready"} => binding[work[v].at] \in {"bound", "closed"})'
    BY DEF PlaceInv, Steady, Untouched, Ensuring
  <2>6. (work[v].pc \in {"create", "ready"} => ledger[work[v].at] = "reserved")'
    BY DEF PlaceInv, Untouched, InSql
  <2>7. (work[v].pc \in {"drop", "erase", "bury"} => binding[work[v].at] = "closed")'
    BY DEF PlaceInv, Steady, Untouched, Dropping
  <2>8. (work[v].pc \in {"erase", "bury"} => ledger[work[v].at] = "deleting")'
    BY DEF PlaceInv, Untouched, InSql
  <2>9. (work[v].pc = "bury" => work[v].at \notin db)'
    BY DEF PlaceInv, Untouched, InSql
  <2> QED
    BY <2>1, <2>2, <2>3, <2>4, <2>5, <2>6, <2>7, <2>8, <2>9 DEF PlaceInv
<1>3. ChainInv(v)'
  BY DEF ChainInv, Steady, Untouched, Components
<1> QED
  BY <1>2, <1>3

\* RecordCleanup keeps the finalization right.
Recorded(owner, complete, prior) ==
  /\ row' \in [deleted : BOOLEAN, final : BOOLEAN, done : SUBSET Owners]
  /\ events' \in Nat /\ fresh' \subseteq fresh
  /\ row'.deleted
  /\ FinalizedOnce'
  /\ \/ row'.done = row.done
     \/ complete # prior /\ row'.done = IF complete THEN row.done \cup {owner} ELSE row.done \ {owner}

LEMMA ObserveRecords ==
  ASSUME TypeOK, FinalizedOnce, row.deleted, NEW p, NEW owner \in Owners,
         NEW complete \in BOOLEAN, NEW prior \in BOOLEAN, Observe(p, owner, complete, prior)
  PROVE  Recorded(owner, complete, prior)
<1>1. CASE UNCHANGED <<row, events>> /\ fresh' = fresh \ {p}
  BY <1>1 DEF Recorded, TypeOK, FinalizedOnce
<1>2. CASE ~(UNCHANGED <<row, events>> /\ fresh' = fresh \ {p})
  <2> DEFINE done == IF complete THEN row.done \cup {owner} ELSE row.done \ {owner}
  <2>1. complete # prior
    BY <1>2 DEF Observe
  <2>2. /\ row' = [row EXCEPT !.done = done, !.final = row.final \/ done = Owners]
        /\ events' = IF done = Owners /\ ~row.final THEN events + 1 ELSE events
        /\ fresh' = {}
    BY <1>2 DEF Observe, Record
  <2>3. done \in SUBSET Owners
    BY DEF TypeOK
  <2> HIDE DEF done
  <2>4. /\ row' \in [deleted : BOOLEAN, final : BOOLEAN, done : SUBSET Owners]
        /\ row'.deleted /\ row'.done = done /\ (row'.final <=> row.final \/ done = Owners)
    BY <2>2, <2>3 DEF TypeOK
  <2>5. events \in Nat /\ row.final \in BOOLEAN
    BY DEF TypeOK
  <2>6. events' \in Nat /\ events' = IF row'.final THEN 1 ELSE 0
    BY <2>2, <2>4, <2>5 DEF FinalizedOnce
  <2>7. FinalizedOnce'
    BY <2>4, <2>6 DEF FinalizedOnce
  <2> QED
    BY <2>1, <2>2, <2>4, <2>6, <2>7 DEF Recorded, done
<1> QED
  BY <1>1, <1>2

\* A step that leaves the row and its readers alone.
LEMMA RowKept ==
  ASSUME IInv, Steady, UNCHANGED <<row, events, alloc, view>>
  PROVE  RowInv' /\ OtherInv' /\ AllocInv'
<1>1. RowInv'
  BY DEF IInv, RowInv, Steady
<1>2. OtherInv'
  BY DEF IInv, OtherInv
<1>3. AllocInv'
  BY DEF IInv, AllocInv
<1> QED
  BY <1>1, <1>2, <1>3

\* A step that moves no controller and touches no database.
LEMMA WorkKept ==
  ASSUME IInv, Steady, UNCHANGED <<work, ledger, db>>
  PROVE  Exclusive' /\ \A v \in Workers : PlaceInv(v)' /\ ChainInv(v)'
<1>1. ASSUME NEW v \in Workers PROVE PlaceInv(v)' /\ ChainInv(v)'
  <2>1. Untouched(v)
    BY DEF Untouched
  <2> QED
    BY <2>1, Frame DEF IInv
<1>2. Exclusive'
  BY DEF IInv, Exclusive
<1> QED
  BY <1>1, <1>2

\* A step of controller w that touches no database another controller works on.
Sole(w, pc, at) ==
  \A v \in Workers \ {w} : work[v].pc \in InSql =>
    /\ ledger'[work[v].at] = ledger[work[v].at]
    /\ work[v].at \in db' => work[v].at \in db
    /\ pc \in InSql => work[v].at # at

LEMMA MoveKept ==
  ASSUME IInv, Steady, NEW w \in Workers, NEW pc, NEW at, NEW ok, NEW done,
         Moved(w, pc, at, ok, done), Sole(w, pc, at), PlaceInv(w)', ChainInv(w)'
  PROVE  Exclusive' /\ \A v \in Workers : PlaceInv(v)' /\ ChainInv(v)'
<1>1. ASSUME NEW v \in Workers, v # w PROVE PlaceInv(v)' /\ ChainInv(v)'
  <2>1. Untouched(v)
    BY <1>1 DEF Untouched, Moved, Sole
  <2> QED
    BY <2>1, Frame DEF IInv
<1>2. Exclusive'
  <2> SUFFICES ASSUME NEW u \in Workers, NEW v \in Workers, u # v, work'[u].pc \in InSql, work'[v].pc \in InSql
               PROVE  work'[u].at # work'[v].at
    BY DEF Exclusive
  <2>1. CASE u # w /\ v # w
    BY <2>1 DEF Moved, IInv, Exclusive
  <2>2. CASE u = w
    BY <2>2 DEF Moved, Sole
  <2>3. CASE v = w
    BY <2>3 DEF Moved, Sole
  <2> QED
    BY <2>1, <2>2, <2>3
<1> QED
  BY <1>1, <1>2

LEMMA InitInv == Init => IInv
<1> SUFFICES ASSUME Init PROVE IInv
  OBVIOUS
<1>1. TypeOK
  <2>1. Idle.pc = "idle" /\ Idle.at = "none" /\ Idle.ok = FALSE /\ Idle.done = {}
    BY DEF Idle, Process
  <2>2. alloc \in [pc : {"idle", "ensure", "remove", "observe"}, at : Namespaces \cup {"none"},
                ok : BOOLEAN, done : SUBSET Owners]
    BY DEF Init, Idle, Process
  <2>3. work \in [Workers -> [pc : {"idle", "load", "bind", "reserve", "report", "gone", "close", "drop",
                                 "complete", "observe"} \cup InSql,
                           at : Components \cup {"sandbox", "none"}, ok : BOOLEAN, done : SUBSET Owners]]
    BY DEF Init, Idle, Process
  <2>4. view \in [Others -> [pc : {"idle", "work"}, at : {"none"}, ok : BOOLEAN, done : SUBSET Owners]]
    BY DEF Init, Idle, Process
  <2> QED
    BY <2>2, <2>3, <2>4 DEF TypeOK, Init
<1>2. RowInv
  BY DEF Init, RowInv, Owners
<1>3. OtherInv
  BY DEF Init, OtherInv, Idle, Process
<1>4. AllocInv
  BY DEF Init, AllocInv, Idle, Process
<1>5. Exclusive
  BY DEF Init, Exclusive, Idle, Process, InSql
<1>6. \A c \in Components : StateInv(c)
  BY DEF Init, StateInv, Live
<1>7. \A w \in Workers : PlaceInv(w) /\ ChainInv(w)
  BY DEF Init, Idle, Process, PlaceInv, ChainInv, Removing, Ensuring, Dropping
<1> QED
  BY <1>1, <1>2, <1>3, <1>4, <1>5, <1>6, <1>7 DEF IInv

-----------------------------------------------------------------------------
(* The row and the other owners.                                            *)

\* A step that leaves namespaces, keys, databases and controllers alone, and no owner takes "sql" back.
LEMMA RowStep ==
  ASSUME IInv, TypeOK', FinalizedOnce', OtherInv', UNCHANGED <<alloc, work, ns, sql>>,
         row.deleted => row'.deleted,
         "sql" \in row.done => "sql" \in row'.done,
         "sql" \in row'.done => \A c \in Components : Buried(c)
  PROVE  IInv'
<1>1. Steady
  BY DEF Steady, Buried, Keyed, sql
<1>2. RowInv'
  BY DEF RowInv, FinalizedOnce, Buried, sql
<1>3. AllocInv'
  BY DEF IInv, AllocInv
<1>4. \A c \in Components : StateInv(c)'
  BY DEF IInv, StateInv, Keyed, sql
<1>5. Exclusive' /\ \A v \in Workers : PlaceInv(v)' /\ ChainInv(v)'
  BY <1>1, WorkKept DEF sql
<1> QED
  BY <1>2, <1>3, <1>4, <1>5 DEF IInv

LEMMA RowGivesFinalized == ASSUME IInv PROVE FinalizedOnce
  BY DEF IInv, RowInv, FinalizedOnce

LEMMA UpdateInv == ASSUME IInv, Update PROVE IInv'
<1>1. TypeOK' /\ FinalizedOnce' /\ OtherInv'
  BY RowGivesFinalized DEF Update, IInv, TypeOK, FinalizedOnce, OtherInv, sql
<1> QED
  BY <1>1, RowStep DEF Update, IInv, RowInv

LEMMA DeleteInv == ASSUME IInv, Delete PROVE IInv'
<1>1. /\ row' \in [deleted : BOOLEAN, final : BOOLEAN, done : SUBSET Owners]
      /\ row'.deleted /\ row'.final = row.final /\ row'.done = row.done
  BY DEF Delete, IInv, TypeOK
<1>2. TypeOK'
  BY <1>1 DEF Delete, IInv, TypeOK, sql
<1>3. FinalizedOnce'
  BY <1>1, RowGivesFinalized DEF Delete, FinalizedOnce
<1>4. OtherInv'
  BY <1>1 DEF OtherInv
<1> QED
  BY <1>1, <1>2, <1>3, <1>4, RowStep DEF Delete, IInv, RowInv

LEMMA OtherReadsInv == ASSUME IInv, NEW o \in Others, OtherReads(o) PROVE IInv'
<1>1. view' \in [Others -> [pc : {"idle", "work"}, at : {"none"}, ok : BOOLEAN, done : SUBSET Owners]]
  <2>1. Process("work", "none", FALSE, row.done \cap {o}) \in
          [pc : {"idle", "work"}, at : {"none"}, ok : BOOLEAN, done : SUBSET Owners]
    BY DEF Process, IInv, TypeOK
  <2> QED
    BY <2>1 DEF OtherReads, IInv, TypeOK
<1>2. TypeOK'
  BY <1>1 DEF OtherReads, IInv, TypeOK, sql
<1>3. FinalizedOnce' /\ OtherInv'
  BY RowGivesFinalized DEF OtherReads, FinalizedOnce, OtherInv
<1> QED
  BY <1>2, <1>3, RowStep DEF OtherReads, IInv, RowInv

LEMMA OtherObservesInv ==
  ASSUME IInv, NEW o \in Others, NEW complete \in BOOLEAN, OtherObserves(o, complete)
  PROVE  IInv'
<1>1. row.deleted
  BY DEF OtherObserves, IInv, OtherInv
<1>2. PICK prior \in BOOLEAN : prior = (o \in view[o].done)
  <2>1. (o \in view[o].done) \in BOOLEAN
    OBVIOUS
  <2> QED
    BY <2>1
<1>3. o \in Owners /\ o # "sql"
  BY CleanupAssumption DEF Owners
<1>4. Recorded(o, complete, prior)
  BY <1>1, <1>2, <1>3, ObserveRecords, RowGivesFinalized DEF OtherObserves, IInv
<1>5. view' \in [Others -> [pc : {"idle", "work"}, at : {"none"}, ok : BOOLEAN, done : SUBSET Owners]]
  BY DEF OtherObserves, IInv, TypeOK, Idle, Process
<1>6. TypeOK'
  BY <1>4, <1>5 DEF OtherObserves, IInv, TypeOK, sql, Recorded
<1>7. FinalizedOnce' /\ row'.deleted /\ OtherInv'
  BY <1>4 DEF Recorded, OtherInv
<1>8. "sql" \in row.done <=> "sql" \in row'.done
  BY <1>3, <1>4 DEF Recorded
<1> QED
  BY <1>6, <1>7, <1>8, RowStep DEF OtherObserves, IInv, RowInv

-----------------------------------------------------------------------------
(* The namespace allocation controller and Kubernetes.                      *)

Lease == [pc : {"idle", "ensure", "remove", "observe"}, at : Namespaces \cup {"none"},
          ok : BOOLEAN, done : SUBSET Owners]

\* A step that leaves the row, the databases and the workload controllers alone.
LEMMA AllocStep ==
  ASSUME IInv, TypeOK', Steady, AllocInv', \A c \in Components : StateInv(c)',
         UNCHANGED <<row, events, work, view, binding, ledger, db>>
  PROVE  IInv'
<1>1. RowInv' /\ OtherInv'
  BY DEF IInv, RowInv, OtherInv, Steady
<1>2. Exclusive' /\ \A v \in Workers : PlaceInv(v)' /\ ChainInv(v)'
  BY WorkKept
<1> QED
  BY <1>1, <1>2 DEF IInv

\* Namespaces appear and keys are sealed.
Grows ==
  /\ ns' \in [Namespaces -> {"absent", "active", "terminating"}]
  /\ secret' \in [Components -> {"none", "made", "pinned"}]
  /\ \A n \in Namespaces : ns[n] = "active" => ns'[n] = "active"
  /\ \A c \in Components : secret[c] = "pinned" => secret'[c] = "pinned"

LEMMA GrowsSteady ==
  ASSUME IInv, Grows, UNCHANGED <<row, binding, ledger, db>>
  PROVE  Steady /\ \A c \in Components : StateInv(c)'
<1>1. \A c \in Components : Home(c) \in Namespaces
  BY DEF Components, Home, Namespaces
<1>2. \A c \in Components : Keyed(c) => Keyed(c)'
  BY <1>1 DEF Keyed, Grows
<1>3. Steady
  BY <1>2 DEF Steady, Buried
<1>4. \A c \in Components : StateInv(c)'
  BY <1>2 DEF IInv, StateInv
<1> QED
  BY <1>3, <1>4

LEMMA AllocatorReadsInv == ASSUME IInv, AllocatorReads PROVE IInv'
<1> DEFINE p == Process("remove", "gateway", TRUE, row.done \cap {"allocation", "workload", "sql"})
           q == Process("ensure", "gateway-state", TRUE, {})
<1>1. /\ p \in Lease /\ p.pc = "remove" /\ p.at = "gateway" /\ p.done = row.done \cap {"allocation", "workload", "sql"}
      /\ q \in Lease /\ q.pc = "ensure" /\ q.at = "gateway-state" /\ q.done = {}
  BY DEF Process, Lease, Namespaces, IInv, TypeOK
<1>2. alloc' = IF row.deleted THEN p ELSE q
  BY DEF AllocatorReads
<1> HIDE DEF p, q
<1>3. alloc' \in Lease
  BY <1>1, <1>2
<1>4. TypeOK'
  BY <1>3 DEF AllocatorReads, IInv, TypeOK, sql, Lease
<1>5. AllocInv'
  BY <1>1, <1>2 DEF AllocatorReads, AllocInv, Namespaces
<1>6. Grows
  BY DEF AllocatorReads, Grows, sql, IInv, TypeOK
<1> QED
  BY <1>4, <1>5, <1>6, GrowsSteady, AllocStep DEF AllocatorReads, sql

LEMMA IdleAlloc ==
  ASSUME alloc' = Idle
  PROVE  alloc' \in Lease /\ AllocInv'
  BY DEF Idle, Process, Lease, AllocInv

LEMMA EnsureNamespaceInv == ASSUME IInv, EnsureNamespace PROVE IInv'
<1>1. PICK n \in Namespaces : n = alloc.at
  BY DEF EnsureNamespace, IInv, AllocInv
<1>2. AfterEnsure(n) \in Namespaces \cup {"none"}
  BY DEF AfterEnsure, Namespaces
<1>3. Grows
  <2>1. ns' = IF ns[n] = "absent" THEN [ns EXCEPT ![n] = "active"] ELSE ns
    BY <1>1 DEF EnsureNamespace
  <2>2. secret' = IF ns[n] = "active" THEN Sealed(n) ELSE secret
    BY <1>1 DEF EnsureNamespace
  <2>3. ns' \in [Namespaces -> {"absent", "active", "terminating"}] /\ \A m \in Namespaces : ns[m] = "active" => ns'[m] = "active"
    BY <2>1 DEF IInv, TypeOK
  <2>4. secret' \in [Components -> {"none", "made", "pinned"}] /\ \A c \in Components : secret[c] = "pinned" => secret'[c] = "pinned"
    BY <2>2 DEF IInv, TypeOK, Sealed
  <2> QED
    BY <2>3, <2>4 DEF Grows
<1>4. CASE alloc' = Idle
  <2>1. TypeOK'
    BY <1>3, <1>4, IdleAlloc DEF EnsureNamespace, IInv, TypeOK, Lease, Grows
  <2> QED
    BY <1>3, <1>4, <2>1, IdleAlloc, GrowsSteady, AllocStep DEF EnsureNamespace
<1>5. CASE alloc' # Idle
  <2>1. alloc' = [alloc EXCEPT !.at = AfterEnsure(n)] /\ AfterEnsure(n) # "none"
    BY <1>1, <1>5 DEF EnsureNamespace
  <2>2. alloc' \in Lease /\ alloc'.pc = "ensure" /\ alloc'.at = AfterEnsure(n) /\ alloc'.done = alloc.done
    BY <2>1, <1>2 DEF EnsureNamespace, IInv, TypeOK, Lease
  <2>3. AllocInv'
    BY <1>2, <2>1, <2>2 DEF IInv, AllocInv, EnsureNamespace
  <2>4. TypeOK'
    BY <1>3, <2>2 DEF EnsureNamespace, IInv, TypeOK, Lease, Grows
  <2> QED
    BY <1>3, <2>3, <2>4, GrowsSteady, AllocStep DEF EnsureNamespace
<1> QED
  BY <1>4, <1>5

\* Where Delete of a namespace goes on.
LEMMA AfterRemoveInv ==
  ASSUME IInv, alloc.pc = "remove", NEW gone \in BOOLEAN, alloc' = AfterRemove(gone), UNCHANGED row
  PROVE  alloc' \in Lease /\ AllocInv'
<1>1. /\ alloc.at \in Namespaces /\ alloc.done \in SUBSET Owners /\ row.deleted
      /\ "sql" \in alloc.done => "sql" \in row.done
  BY DEF IInv, AllocInv, TypeOK
<1>2. ASSUME NEW pc \in {"remove", "observe"}, NEW at \in Namespaces \cup {"none"}, NEW ok \in BOOLEAN,
             alloc' = Process(pc, at, ok, alloc.done),
             pc = "remove" => at \in Namespaces,
             pc = "remove" /\ at \in {"gateway-state", "console-state"} => "sql" \in alloc.done
      PROVE  alloc' \in Lease /\ AllocInv'
  <2>1. alloc' \in Lease /\ alloc'.pc = pc /\ alloc'.at = at /\ alloc'.done = alloc.done
    BY <1>1, <1>2 DEF Process, Lease
  <2> QED
    BY <1>1, <1>2, <2>1 DEF AllocInv
<1>3. CASE alloc.at = "gateway"
  BY <1>2, <1>3 DEF AfterRemove, Namespaces
<1>4. CASE alloc.at = "sandbox"
  <2>1. CASE gone /\ StateIsUnused
    BY <1>2, <1>4, <2>1 DEF AfterRemove, Namespaces, StateIsUnused
  <2>2. CASE ~(gone /\ StateIsUnused)
    BY <1>2, <1>4, <2>2 DEF AfterRemove, Namespaces
  <2> QED
    BY <2>1, <2>2
<1>5. CASE alloc.at = "console-state"
  <2>1. "sql" \in alloc.done
    BY <1>5 DEF IInv, AllocInv
  <2> QED
    BY <1>2, <1>5, <2>1 DEF AfterRemove, Namespaces
<1>6. CASE alloc.at = "gateway-state"
  BY <1>2, <1>6 DEF AfterRemove, Namespaces
<1> QED
  BY <1>1, <1>3, <1>4, <1>5, <1>6 DEF Namespaces

LEMMA RemoveNamespaceInv == ASSUME IInv, RemoveNamespace PROVE IInv'
<1>1. PICK n \in Namespaces : n = alloc.at
  BY DEF RemoveNamespace, IInv, AllocInv
<1>2. PICK gone \in BOOLEAN : gone = (alloc.ok /\ ns[alloc.at] = "absent")
  <2>1. (alloc.ok /\ ns[alloc.at] = "absent") \in BOOLEAN
    OBVIOUS
  <2> QED
    BY <2>1
<1>3. alloc' \in Lease /\ AllocInv'
  BY <1>2, AfterRemoveInv DEF RemoveNamespace
<1>4. ns' = IF ns[n] = "active" THEN [ns EXCEPT ![n] = "terminating"] ELSE ns
  BY <1>1 DEF RemoveNamespace
<1>5. ns' \in [Namespaces -> {"absent", "active", "terminating"}] /\ \A m \in Namespaces \ {n} : ns'[m] = ns[m]
  BY <1>4 DEF IInv, TypeOK
<1>6. \A c \in Components : Home(c) = n => Buried(c)
  <2>1. SUFFICES ASSUME NEW c \in Components, Home(c) = n PROVE Buried(c)
    OBVIOUS
  <2>2. alloc.at \in {"gateway-state", "console-state"}
    BY <1>1, <2>1 DEF Home
  <2> QED
    BY <2>2 DEF RemoveNamespace, IInv, AllocInv, RowInv
<1>7. \A c \in Components : Keyed(c) => Keyed(c)' \/ Buried(c)
  BY <1>5, <1>6 DEF Keyed, RemoveNamespace, sql, Components, Home, Namespaces
<1>8. Steady
  BY <1>7 DEF Steady, RemoveNamespace, sql, Buried
<1>9. \A c \in Components : StateInv(c)'
  <2> SUFFICES ASSUME NEW c \in Components PROVE StateInv(c)'
    OBVIOUS
  <2>1. Buried(c) => ledger[c] \notin Live
    BY DEF Buried, Live, IInv, StateInv
  <2>2. ledger[c] \in Live => Keyed(c)
    BY DEF IInv, StateInv
  <2>3. (ledger[c] \in Live => Keyed(c))'
    BY <1>7, <2>1, <2>2 DEF RemoveNamespace, sql
  <2> QED
    BY <2>3 DEF IInv, StateInv, RemoveNamespace, sql
<1>10. TypeOK'
  BY <1>3, <1>5 DEF RemoveNamespace, IInv, TypeOK, Lease, sql
<1> QED
  BY <1>3, <1>8, <1>9, <1>10, AllocStep DEF RemoveNamespace, sql

LEMMA AllocatorFailsInv == ASSUME IInv, AllocatorFails PROVE IInv'
<1>1. UNCHANGED <<row, events, work, view, ns, sql, calm>> /\ late' \subseteq Namespaces /\ fresh' \subseteq fresh
  BY DEF AllocatorFails, IInv, AllocInv, TypeOK
<1>2. alloc' \in Lease /\ AllocInv'
  <2>1. CASE alloc' = Idle
    BY <2>1, IdleAlloc
  <2>2. CASE alloc.pc = "remove" /\ alloc' = AfterRemove(FALSE)
    BY <1>1, <2>2, AfterRemoveInv
  <2>3. CASE alloc.pc = "remove" /\ alloc' = Process("observe", "none", FALSE, alloc.done)
    <3>1. alloc' \in Lease /\ alloc'.pc = "observe" /\ alloc'.done = alloc.done
      BY <2>3 DEF Process, Lease, IInv, TypeOK
    <3> QED
      BY <1>1, <2>3, <3>1 DEF AllocInv, IInv
  <2> QED
    BY <2>1, <2>2, <2>3 DEF AllocatorFails
<1>3. TypeOK'
  BY <1>1, <1>2 DEF IInv, TypeOK, sql, Lease
<1>4. Grows
  BY <1>1 DEF Grows, sql, IInv, TypeOK
<1> QED
  BY <1>1, <1>2, <1>3, <1>4, GrowsSteady, AllocStep DEF sql

LEMMA AllocatorObservesInv == ASSUME IInv, AllocatorObserves PROVE IInv'
<1>1. row.deleted
  BY DEF AllocatorObserves, IInv, AllocInv
<1>2. PICK prior \in BOOLEAN : prior = ("allocation" \in alloc.done)
  <2>1. ("allocation" \in alloc.done) \in BOOLEAN
    OBVIOUS
  <2> QED
    BY <2>1
<1>3. PICK complete \in BOOLEAN : complete = alloc.ok
  BY DEF IInv, TypeOK
<1>4. Recorded("allocation", complete, prior)
  BY <1>1, <1>2, <1>3, ObserveRecords, RowGivesFinalized DEF AllocatorObserves, IInv, Owners
<1>5. alloc' \in Lease /\ AllocInv'
  BY IdleAlloc DEF AllocatorObserves
<1>6. TypeOK'
  BY <1>4, <1>5 DEF AllocatorObserves, IInv, TypeOK, sql, Recorded, Lease
<1>7. FinalizedOnce' /\ row'.deleted /\ ("sql" \in row'.done <=> "sql" \in row.done)
  BY <1>4 DEF Recorded
<1>8. OtherInv'
  BY <1>7 DEF OtherInv
<1>9. Steady
  BY <1>7 DEF Steady, Buried, Keyed, AllocatorObserves, sql
<1>10. RowInv'
  BY <1>7 DEF IInv, RowInv, FinalizedOnce, AllocatorObserves, sql, Buried
<1>11. \A c \in Components : StateInv(c)'
  BY DEF IInv, StateInv, Keyed, AllocatorObserves, sql
<1>12. Exclusive' /\ \A v \in Workers : PlaceInv(v)' /\ ChainInv(v)'
  BY <1>9, WorkKept DEF AllocatorObserves, sql
<1> QED
  BY <1>5, <1>6, <1>8, <1>10, <1>11, <1>12 DEF IInv

LEMMA NamespaceEndsInv == ASSUME IInv, NEW n \in Namespaces, NamespaceEnds(n) PROVE IInv'
<1>1. /\ ns' \in [Namespaces -> {"absent", "active", "terminating"}]
      /\ \A m \in Namespaces : ns[m] = "active" => ns'[m] = "active"
  BY DEF NamespaceEnds, IInv, TypeOK
<1>2. /\ secret' \in [Components -> {"none", "made", "pinned"}]
      /\ \A c \in Components : Home(c) # n => secret'[c] = secret[c]
  BY DEF NamespaceEnds, IInv, TypeOK
<1>3. \A c \in Components : Keyed(c) => Keyed(c)'
  BY <1>1, <1>2 DEF Keyed, NamespaceEnds, Components, Home, Namespaces
<1>4. Steady
  BY <1>3 DEF Steady, Buried, NamespaceEnds
<1>5. \A c \in Components : StateInv(c)'
  BY <1>3 DEF IInv, StateInv, NamespaceEnds
<1>6. TypeOK'
  BY <1>1, <1>2 DEF NamespaceEnds, IInv, TypeOK
<1>7. AllocInv'
  BY DEF NamespaceEnds, IInv, AllocInv
<1> QED
  BY <1>4, <1>5, <1>6, <1>7, AllocStep DEF NamespaceEnds

LEMMA LateCreationInv == ASSUME IInv, NEW n \in Namespaces, LateCreation(n) PROVE IInv'
<1>1. Grows
  BY DEF Grows, LateCreation, sql, IInv, TypeOK
<1>2. TypeOK'
  BY <1>1 DEF Grows, LateCreation, sql, IInv, TypeOK
<1>3. AllocInv'
  BY DEF LateCreation, IInv, AllocInv
<1> QED
  BY <1>1, <1>2, <1>3, GrowsSteady, AllocStep DEF LateCreation, sql

-----------------------------------------------------------------------------
(* The workload controllers.                                                *)

\* A step of controller w that leaves the row and the namespaces alone.
LEMMA WorkerStepInv ==
  ASSUME IInv, NEW w \in Workers, NEW pc, NEW at, NEW ok, NEW done, Moved(w, pc, at, ok, done),
         TypeOK', Steady, Sole(w, pc, at), PlaceInv(w)', ChainInv(w)', \A c \in Components : StateInv(c)',
         UNCHANGED <<row, events, alloc, view>>
  PROVE  IInv'
<1>1. RowInv' /\ OtherInv' /\ AllocInv'
  BY RowKept
<1>2. Exclusive' /\ \A v \in Workers : PlaceInv(v)' /\ ChainInv(v)'
  BY MoveKept
<1> QED
  BY <1>1, <1>2 DEF IInv

\* A step of controller w that only moves it, to a place outside of SQL provisioning.
LEMMA MoveInv ==
  ASSUME IInv, NEW w \in Workers, NEW pc \in Pcs, NEW at, NEW ok, NEW done, Moved(w, pc, at, ok, done),
         pc \notin InSql, fresh' \subseteq fresh \cup {w}, PlaceInv(w)', ChainInv(w)',
         UNCHANGED <<row, events, alloc, view, ns, late, sql, calm>>
  PROVE  IInv'
<1>1. TypeOK'
  BY DEF Moved, IInv, TypeOK, sql, Job, Pcs, Places
<1>2. Steady
  BY DEF Steady, Buried, Keyed, sql
<1>3. Sole(w, pc, at)
  BY DEF Sole, sql
<1>4. \A c \in Components : StateInv(c)'
  BY DEF IInv, StateInv, Keyed, sql
<1> QED
  BY <1>1, <1>2, <1>3, <1>4, WorkerStepInv

LEMMA TypedJob == ASSUME IInv, NEW w \in Workers PROVE work[w] \in Job
  BY DEF IInv, TypeOK, Job, Pcs, Places

LEMMA WorkerReadsInv == ASSUME IInv, NEW w \in Workers, WorkerReads(w) PROVE IInv'
<1>1. CASE row.deleted
  <2>1. PICK done \in SUBSET Owners : done = row.done \cap {"workload", "sql"}
    BY DEF IInv, TypeOK
  <2>2. Moved(w, "gone", "gateway", TRUE, done)
    BY <1>1, <2>1, ProcessMoves DEF WorkerReads, IInv, Pcs, Places, Components
  <2>3. PlaceInv(w)' /\ ChainInv(w)'
    BY <1>1, <2>2 DEF WorkerReads, Moved, PlaceInv, ChainInv, Ensuring, Dropping, Removing
  <2> QED
    BY <2>2, <2>3, MoveInv DEF WorkerReads, InSql, Pcs
<1>2. CASE ~row.deleted
  <2>1. Moved(w, "load", "gateway", TRUE, {})
    BY <1>2, ProcessMoves DEF WorkerReads, IInv, Pcs, Places, Components
  <2>2. PlaceInv(w)' /\ ChainInv(w)'
    BY <1>2, <2>1 DEF WorkerReads, Moved, PlaceInv, ChainInv, Ensuring, Dropping, Removing, Components
  <2> QED
    BY <2>1, <2>2, MoveInv DEF WorkerReads, InSql, Pcs
<1> QED
  BY <1>1, <1>2

\* Places where nothing is claimed.
LEMMA RestInv ==
  ASSUME NEW w \in Workers, NEW pc \in {"idle", "report"}, NEW at, NEW ok, NEW done, Moved(w, pc, at, ok, done)
  PROVE  PlaceInv(w)' /\ ChainInv(w)'
  BY DEF Moved, PlaceInv, ChainInv, Ensuring, Dropping, Removing

LEMMA LoadInv == ASSUME IInv, NEW w \in Workers, Load(w) PROVE IInv'
<1>1. PICK c \in Components : c = work[w].at
  BY DEF Load, IInv, PlaceInv, Ensuring
<1>2. UNCHANGED <<row, fresh, events, alloc, view, ns, late, binding, completed, ledger, db, calm>>
  BY DEF Load
<1>3. /\ secret' \in [Components -> {"none", "made", "pinned"}]
      /\ \A d \in Components : secret[d] = "pinned" => secret'[d] = "pinned"
  BY <1>1 DEF Load, IInv, TypeOK
<1>4. Grows
  BY <1>2, <1>3 DEF Grows, IInv, TypeOK
<1>5. Steady /\ \A d \in Components : StateInv(d)'
  BY <1>2, <1>4, GrowsSteady
<1>6. CASE Usable(c) /\ secret[c] = "pinned"
  <2>1. Moved(w, "bind", c, work[w].ok, work[w].done)
    BY <1>1, <1>6, GoMoves DEF Load, IInv, Pcs, Places
  <2>2. Keyed(c)'
    BY <1>2, <1>3, <1>6 DEF Keyed, Usable
  <2>3. PlaceInv(w)' /\ ChainInv(w)'
    BY <2>1, <2>2 DEF Moved, PlaceInv, ChainInv, Ensuring, Dropping, Removing
  <2>4. TypeOK' /\ Sole(w, "bind", c)
    BY <1>2, <1>3, <2>1 DEF Moved, IInv, TypeOK, Job, Pcs, Places, Sole, InSql
  <2> QED
    BY <1>2, <1>5, <2>1, <2>3, <2>4, WorkerStepInv
<1>7. CASE ~(Usable(c) /\ secret[c] = "pinned")
  <2>1. Moved(w, "report", c, work[w].ok, work[w].done)
    BY <1>1, <1>7, GoMoves DEF Load, IInv, Pcs, Places
  <2>2. TypeOK' /\ Sole(w, "report", c)
    BY <1>2, <1>3, <2>1 DEF Moved, IInv, TypeOK, Job, Pcs, Places, Sole, InSql
  <2> QED
    BY <1>2, <1>5, <2>1, <2>2, RestInv, WorkerStepInv
<1> QED
  BY <1>6, <1>7

LEMMA ReportInv == ASSUME IInv, NEW w \in Workers, Report(w) PROVE IInv'
<1>1. Moved(w, "idle", "none", FALSE, {})
  BY IdleMoves DEF Report, IInv
<1>2. fresh' \subseteq fresh \cup {w}
  BY DEF Report
<1> QED
  BY <1>1, <1>2, RestInv, MoveInv DEF Report, InSql, Pcs

LEMMA BindSQLStateInv == ASSUME IInv, NEW w \in Workers, BindSQLState(w) PROVE IInv'
<1>1. PICK c \in Components : c = work[w].at
  BY DEF BindSQLState, IInv, PlaceInv, Ensuring
<1>2. UNCHANGED <<row, fresh, events, alloc, view, ns, late, secret, completed, ledger, db, calm>>
  BY DEF BindSQLState
<1> DEFINE bound == ~row.deleted /\ w \in fresh /\ binding[c] \in {"none", "bound"}
<1>3. CASE bound
  <2>1. Moved(w, "reserve", c, work[w].ok, work[w].done)
    BY <1>1, <1>3, GoMoves DEF BindSQLState, IInv, Pcs, Places
  <2>2. binding' = [binding EXCEPT ![c] = "bound"]
    BY <1>1, <1>3 DEF BindSQLState
  <2>3. /\ binding' \in [Components -> {"none", "bound", "empty", "closed"}]
        /\ binding'[c] = "bound" /\ \A d \in Components \ {c} : binding'[d] = binding[d]
    BY <2>2 DEF IInv, TypeOK
  <2>4. Steady
    BY <1>2, <1>3, <2>3 DEF Steady, Buried, Keyed
  <2>5. \A d \in Components : StateInv(d)'
    BY <1>2, <2>3 DEF IInv, StateInv, Keyed
  <2>6. Keyed(c)'
    BY <1>1, <1>2, <1>3 DEF BindSQLState, IInv, PlaceInv, Keyed, Buried
  <2>7. PlaceInv(w)' /\ ChainInv(w)'
    BY <2>1, <2>3, <2>6 DEF Moved, PlaceInv, ChainInv, Ensuring, Dropping, Removing
  <2>8. TypeOK' /\ Sole(w, "reserve", c)
    BY <1>2, <2>3, <2>1 DEF Moved, IInv, TypeOK, Job, Pcs, Places, Sole, InSql
  <2> QED
    BY <1>2, <2>1, <2>4, <2>5, <2>7, <2>8, WorkerStepInv
<1>4. CASE ~bound
  <2>1. Moved(w, "report", c, work[w].ok, work[w].done)
    BY <1>1, <1>4, GoMoves DEF BindSQLState, IInv, Pcs, Places
  <2>2. UNCHANGED binding
    BY <1>1, <1>4 DEF BindSQLState
  <2> QED
    BY <1>2, <2>1, <2>2, RestInv, MoveInv DEF InSql, Pcs, sql
<1> QED
  BY <1>3, <1>4

\* After a component's database the controller reports or turns to the console.
LEMMA EnsuredMoves ==
  ASSUME IInv, NEW w \in Workers, NEW c \in Components, AfterEnsured(w, c)
  PROVE  \E pc \in {"load", "report"}, at \in Components :
            Moved(w, pc, at, work[w].ok, work[w].done) /\ PlaceInv(w)' /\ ChainInv(w)'
<1>1. PICK pc \in {"load", "report"}, at \in Components : Go(w, pc, at)
  BY DEF AfterEnsured, Components
<1>2. Moved(w, pc, at, work[w].ok, work[w].done)
  BY <1>1, GoMoves DEF IInv, Pcs, Places
<1>3. PlaceInv(w)' /\ ChainInv(w)'
  BY <1>2 DEF Moved, PlaceInv, ChainInv, Ensuring, Dropping, Removing
<1> QED
  BY <1>2, <1>3

LEMMA ReserveInv == ASSUME IInv, NEW w \in Workers, Reserve(w) PROVE IInv'
<1>1. PICK c \in Components : c = work[w].at
  BY DEF Reserve, IInv, PlaceInv, Ensuring
<1>2. UNCHANGED <<row, fresh, events, alloc, view, ns, late, secret, binding, completed, db, calm>>
  BY DEF Reserve
<1>3. CASE Busy(w, c) \/ ledger[c] \in {"deleting", "deleted"}
  <2>1. Moved(w, "report", c, work[w].ok, work[w].done) /\ UNCHANGED ledger
    BY <1>1, <1>3, GoMoves DEF Reserve, IInv, Pcs, Places
  <2> QED
    BY <1>2, <2>1, RestInv, MoveInv DEF InSql, Pcs, sql
<1>4. CASE ~(Busy(w, c) \/ ledger[c] \in {"deleting", "deleted"}) /\ ledger[c] = "ready"
  <2>1. AfterEnsured(w, c) /\ UNCHANGED ledger
    BY <1>1, <1>4 DEF Reserve
  <2>2. PICK pc \in {"load", "report"}, at \in Components :
          Moved(w, pc, at, work[w].ok, work[w].done) /\ PlaceInv(w)' /\ ChainInv(w)'
    BY <2>1, EnsuredMoves
  <2>3. pc \in Pcs /\ pc \notin InSql
    BY DEF Pcs, InSql
  <2> QED
    BY <1>2, <2>1, <2>2, <2>3, MoveInv DEF sql
<1>5. CASE ~(Busy(w, c) \/ ledger[c] \in {"deleting", "deleted"}) /\ ledger[c] # "ready"
  <2>1. Moved(w, "create", c, work[w].ok, work[w].done)
    BY <1>1, <1>5, GoMoves DEF Reserve, IInv, Pcs, Places, InSql
  <2>2. ledger' = [ledger EXCEPT ![c] = "reserved"]
    BY <1>1, <1>5 DEF Reserve
  <2>3. /\ ledger' \in [Components -> {"none", "reserved", "ready", "deleting", "deleted"}]
        /\ ledger'[c] = "reserved" /\ \A d \in Components \ {c} : ledger'[d] = ledger[d]
    BY <2>2 DEF IInv, TypeOK
  <2>4. binding[c] \in {"bound", "closed"} /\ Keyed(c) /\ ~Buried(c)
    BY <1>1, <1>5 DEF Reserve, IInv, PlaceInv, Buried
  <2>5. Steady
    BY <1>2, <2>3, <2>4 DEF Steady, Buried, Keyed
  <2>6. \A d \in Components : StateInv(d)'
    BY <1>2, <2>3, <2>4 DEF IInv, StateInv, Keyed, Live
  <2>7. PlaceInv(w)' /\ ChainInv(w)'
    BY <1>2, <2>1, <2>3, <2>4 DEF Moved, PlaceInv, ChainInv, Ensuring, Dropping, Removing
  <2>8. TypeOK'
    BY <1>2, <2>1, <2>3 DEF Moved, IInv, TypeOK, Job, Pcs, Places
  <2>9. Sole(w, "create", c)
    <3> SUFFICES ASSUME NEW v \in Workers \ {w}, work[v].pc \in InSql
                 PROVE ledger'[work[v].at] = ledger[work[v].at] /\ work[v].at # c
      BY <1>2 DEF Sole
    <3>1. work[v].at # c
      BY <1>5 DEF Busy, Other
    <3>2. work[v].at \in Components
      BY DEF IInv, PlaceInv, InSql, Ensuring, Dropping
    <3> QED
      BY <2>3, <3>1, <3>2
  <2> QED
    BY <1>2, <2>1, <2>5, <2>6, <2>7, <2>8, <2>9, WorkerStepInv
<1> QED
  BY <1>3, <1>4, <1>5

\* A controller inside SQL provisioning is alone on its database.
LEMMA Alone ==
  ASSUME IInv, NEW w \in Workers, work[w].pc \in InSql, NEW v \in Workers \ {w}, work[v].pc \in InSql
  PROVE  work[v].at \in Components /\ work[v].at # work[w].at
  BY DEF IInv, Exclusive, PlaceInv, InSql, Ensuring, Dropping

LEMMA CreateInv == ASSUME IInv, NEW w \in Workers, Create(w) PROVE IInv'
<1>1. PICK c \in Components : c = work[w].at
  BY DEF Create, IInv, PlaceInv, Ensuring
<1>2. UNCHANGED <<row, fresh, events, alloc, view, ns, late, secret, binding, completed, ledger, calm>>
  BY DEF Create
<1>3. Moved(w, "ready", c, work[w].ok, work[w].done) /\ db' = db \cup {c}
  BY <1>1, GoMoves DEF Create, IInv, Pcs, Places, InSql
<1>4. ledger[c] = "reserved" /\ binding[c] \in {"bound", "closed"}
  BY <1>1 DEF Create, IInv, PlaceInv
<1>5. Steady
  BY <1>2 DEF Steady, Buried, Keyed
<1>6. \A d \in Components : StateInv(d)'
  BY <1>2, <1>3, <1>4 DEF IInv, StateInv, Keyed, Live
<1>7. PlaceInv(w)' /\ ChainInv(w)'
  BY <1>2, <1>3, <1>4 DEF Moved, PlaceInv, ChainInv, Ensuring, Dropping, Removing
<1>8. TypeOK'
  BY <1>2, <1>3 DEF Moved, IInv, TypeOK, Job, Pcs, Places
<1>9. Sole(w, "ready", c)
  <2>1. work[w].pc \in InSql
    BY DEF Create, InSql
  <2> QED
    BY <1>1, <1>2, <1>3, <2>1, Alone DEF Sole
<1> QED
  BY <1>2, <1>3, <1>5, <1>6, <1>7, <1>8, <1>9, WorkerStepInv

LEMMA ReadyInv == ASSUME IInv, NEW w \in Workers, Ready(w) PROVE IInv'
<1>1. PICK c \in Components : c = work[w].at
  BY DEF Ready, IInv, PlaceInv, Ensuring
<1>2. UNCHANGED <<row, fresh, events, alloc, view, ns, late, secret, binding, completed, db, calm>>
  BY DEF Ready
<1>3. PICK pc \in {"load", "report"}, at \in Components :
        Moved(w, pc, at, work[w].ok, work[w].done) /\ PlaceInv(w)' /\ ChainInv(w)'
  BY <1>1, EnsuredMoves DEF Ready
<1>4. ledger[c] = "reserved"
  BY <1>1 DEF Ready, IInv, PlaceInv
<1>5. /\ ledger' \in [Components -> {"none", "reserved", "ready", "deleting", "deleted"}]
      /\ ledger'[c] = "ready" /\ \A d \in Components \ {c} : ledger'[d] = ledger[d]
  BY <1>1 DEF Ready, IInv, TypeOK
<1>6. Steady
  BY <1>2, <1>4, <1>5 DEF Steady, Buried, Keyed
<1>7. \A d \in Components : StateInv(d)'
  BY <1>2, <1>4, <1>5 DEF IInv, StateInv, Keyed, Live
<1>8. TypeOK'
  BY <1>2, <1>3, <1>5 DEF Moved, IInv, TypeOK, Job, Pcs, Places
<1>9. Sole(w, pc, at)
  <2>1. work[w].pc \in InSql /\ pc \notin InSql
    BY DEF Ready, InSql
  <2> QED
    BY <1>1, <1>2, <1>5, <2>1, Alone DEF Sole
<1> QED
  BY <1>2, <1>3, <1>6, <1>7, <1>8, <1>9, WorkerStepInv

LEMMA GoneInv == ASSUME IInv, NEW w \in Workers, Gone(w) PROVE IInv'
<1>1. /\ row.deleted /\ work[w].at \in {"gateway", "sandbox"} /\ work[w].done \in SUBSET Owners
      /\ work \in [Workers -> Job]
  BY DEF Gone, IInv, PlaceInv, Removing, TypeOK, Job, Pcs, Places
<1>2. UNCHANGED <<row, fresh, events, alloc, view, ns, late, sql, calm>>
  BY DEF Gone
<1>3. ASSUME NEW pc \in {"gone", "observe", "close"}, NEW at \in Places, NEW ok \in BOOLEAN,
             work' = [work EXCEPT ![w] = Process(pc, at, ok, work[w].done)],
             pc = "gone" => at = "sandbox", pc = "close" => at = "console",
             pc = "observe" /\ ok => "sql" \in work[w].done
      PROVE  IInv'
  <2>1. pc \in Pcs /\ pc \notin InSql
    BY DEF Pcs, InSql
  <2>2. Moved(w, pc, at, ok, work[w].done)
    BY <1>1, <1>3, <2>1, ProcessMoves DEF IInv
  <2>3. PlaceInv(w)' /\ ChainInv(w)'
    BY <1>1, <1>2, <1>3, <2>2 DEF Moved, PlaceInv, ChainInv, Ensuring, Dropping, Removing, Components
  <2> QED
    BY <1>2, <2>1, <2>2, <2>3, MoveInv
<1>4. CASE ns[work[w].at] # "absent"
  BY <1>1, <1>3, <1>4 DEF Gone, Places
<1>5. CASE ns[work[w].at] = "absent" /\ work[w].at = "gateway"
  BY <1>1, <1>3, <1>5 DEF Gone, Places
<1>6. CASE ns[work[w].at] = "absent" /\ work[w].at # "gateway" /\ "sql" \in work[w].done
  BY <1>1, <1>3, <1>6 DEF Gone, Places
<1>7. CASE ns[work[w].at] = "absent" /\ work[w].at # "gateway" /\ "sql" \notin work[w].done
  BY <1>1, <1>3, <1>7 DEF Gone, Places, Components
<1> QED
  BY <1>4, <1>5, <1>6, <1>7

\* A component is over, or its removal failed: the gateway's turn or the end.
LEMMA DeletedPlace ==
  ASSUME IInv, NEW w \in Workers, NEW c \in Components, NEW ok \in BOOLEAN, row'.deleted,
         Moved(w, IF c = "console" THEN "close" ELSE "observe", IF c = "console" THEN "gateway" ELSE "none",
               work[w].ok /\ ok, work[w].done),
         ok => Buried(c)', c = "gateway" /\ work[w].ok => Buried("console")'
  PROVE  PlaceInv(w)' /\ ChainInv(w)'
<1>1. CASE c = "console"
  <2>1. Moved(w, "close", "gateway", work[w].ok /\ ok, work[w].done)
    BY <1>1
  <2>2. PlaceInv(w)'
    BY <2>1 DEF Moved, PlaceInv, Ensuring, Dropping, Removing, Components
  <2>3. work'[w].ok => Buried("console")'
    BY <1>1, <2>1 DEF Moved
  <2>4. ChainInv(w)'
    BY <2>1, <2>3 DEF Moved, ChainInv
  <2> QED
    BY <2>2, <2>4
<1>2. CASE c = "gateway"
  <2>1. Moved(w, "observe", "none", work[w].ok /\ ok, work[w].done)
    BY <1>2
  <2>2. PlaceInv(w)'
    BY <2>1 DEF Moved, PlaceInv, Ensuring, Dropping, Removing, Components
  <2>3. work'[w].ok => \A d \in Components : Buried(d)'
    BY <1>2, <2>1 DEF Moved, Components
  <2>4. ChainInv(w)'
    BY <2>1, <2>3 DEF Moved, ChainInv, Dropping
  <2> QED
    BY <2>2, <2>4
<1> QED
  BY <1>1, <1>2 DEF Components

\* The places after the removal of a component's database.
NextPc(c) == IF c = "console" THEN "close" ELSE "observe"
NextAt(c) == IF c = "console" THEN "gateway" ELSE "none"

LEMMA DroppedPlace ==
  ASSUME IInv, NEW w \in Workers, NEW c \in Components, row'.deleted, AfterDropped(w, c), Buried(c)',
         c = "gateway" /\ work[w].ok => Buried("console")'
  PROVE  \E pc \in {"complete", "observe"}, at \in Places, ok \in BOOLEAN :
            Moved(w, pc, at, ok, work[w].done) /\ PlaceInv(w)' /\ ChainInv(w)'
<1>1. work[w] \in Job
  BY TypedJob
<1>2. CASE c = "console"
  <2>1. Moved(w, "complete", "console", work[w].ok, work[w].done)
    BY <1>2, GoMoves DEF AfterDropped, IInv, Pcs, Places, Components
  <2>2. PlaceInv(w)' /\ ChainInv(w)'
    BY <1>2, <2>1 DEF Moved, PlaceInv, ChainInv, Ensuring, Dropping, Removing
  <2> QED
    BY <1>1, <2>1, <2>2 DEF Job, Places, Components
<1>3. CASE c = "gateway"
  <2>1. AfterDeleted(w, c, TRUE)
    BY <1>3 DEF AfterDropped
  <2>2. Moved(w, IF c = "console" THEN "close" ELSE "observe", IF c = "console" THEN "gateway" ELSE "none",
              work[w].ok /\ TRUE, work[w].done)
    BY <2>1, DeletedMoves DEF IInv
  <2>3. PlaceInv(w)' /\ ChainInv(w)'
    BY <2>2, DeletedPlace
  <2>4. Moved(w, "observe", "none", work[w].ok /\ TRUE, work[w].done)
    BY <1>3, <2>2
  <2>5. (work[w].ok /\ TRUE) \in BOOLEAN /\ "none" \in Places
    BY DEF Places
  <2> QED
    BY <2>3, <2>4, <2>5
<1> QED
  BY <1>2, <1>3 DEF Components

LEMMA CloseSQLStateInv == ASSUME IInv, NEW w \in Workers, CloseSQLState(w) PROVE IInv'
<1>1. PICK c \in Components : c = work[w].at
  BY DEF CloseSQLState, IInv, PlaceInv, Dropping
<1>2. UNCHANGED <<row, fresh, events, alloc, view, ns, late, secret, completed, ledger, db, calm>> /\ row'.deleted
  BY DEF CloseSQLState, IInv, PlaceInv, Removing
<1>3. PICK closed \in {"empty", "closed"} :
        /\ closed = IF binding[c] \in {"none", "empty"} THEN "empty" ELSE "closed"
        /\ binding' = [binding EXCEPT ![c] = closed]
        /\ IF closed = "closed" THEN Go(w, "drop", c) ELSE AfterDropped(w, c)
  BY <1>1 DEF CloseSQLState, AfterDropped
<1>4. /\ binding' \in [Components -> {"none", "bound", "empty", "closed"}]
      /\ binding'[c] = closed /\ \A d \in Components \ {c} : binding'[d] = binding[d]
  BY <1>3 DEF IInv, TypeOK
<1>5. Steady
  <2>1. binding[c] \in {"none", "bound", "empty", "closed"}
    BY DEF IInv, TypeOK
  <2> QED
    BY <1>2, <1>3, <1>4, <2>1 DEF Steady, Buried, Keyed
<1>6. \A d \in Components : StateInv(d)'
  BY <1>2, <1>3, <1>4 DEF IInv, StateInv, Keyed
<1>7. CASE closed = "closed"
  <2>1. Moved(w, "drop", c, work[w].ok, work[w].done)
    BY <1>3, <1>7, GoMoves DEF IInv, Pcs, Places
  <2>2. PlaceInv(w)'
    BY <1>2, <1>4, <1>7, <2>1 DEF Moved, PlaceInv, Ensuring, Dropping, Removing
  <2>3. ChainInv(w)'
    BY <1>1, <1>5, <2>1 DEF Moved, ChainInv, Dropping, Steady, Components, CloseSQLState, IInv
  <2>4. TypeOK' /\ Sole(w, "drop", c)
    BY <1>2, <1>4, <2>1 DEF Moved, IInv, TypeOK, Job, Pcs, Places, Sole, InSql
  <2> QED
    BY <1>2, <1>5, <1>6, <2>1, <2>2, <2>3, <2>4, WorkerStepInv
<1>8. CASE closed = "empty"
  <2>1. Buried(c)'
    BY <1>4, <1>8 DEF Buried
  <2>2. c = "gateway" /\ work[w].ok => Buried("console")'
    BY <1>1, <1>5 DEF ChainInv, Dropping, Steady, Components, CloseSQLState, IInv
  <2>3. PICK pc \in {"complete", "observe"}, at \in Places, ok \in BOOLEAN :
            Moved(w, pc, at, ok, work[w].done) /\ PlaceInv(w)' /\ ChainInv(w)'
    BY <1>2, <1>3, <1>8, <2>1, <2>2, DroppedPlace
  <2>4. TypeOK' /\ Sole(w, pc, at)
    BY <1>2, <1>4, <2>3 DEF Moved, IInv, TypeOK, Job, Pcs, Places, Sole, InSql
  <2> QED
    BY <1>2, <1>5, <1>6, <2>3, <2>4, WorkerStepInv
<1> QED
  BY <1>7, <1>8

LEMMA DropInv == ASSUME IInv, NEW w \in Workers, Drop(w) PROVE IInv'
<1>1. PICK c \in Components : c = work[w].at
  BY DEF Drop, IInv, PlaceInv, Dropping
<1>2. /\ UNCHANGED <<row, fresh, events, alloc, view, ns, late, secret, binding, completed, db, calm>> /\ row'.deleted
      /\ binding[c] = "closed"
  BY <1>1 DEF Drop, IInv, PlaceInv, Removing
<1> DEFINE known == Known(c) /\ ~Busy(w, c)
<1>3. c = "gateway" /\ work[w].ok => Buried("console")
  BY <1>1 DEF ChainInv, Dropping, Drop, IInv
<1>4. CASE ~known
  <2>1. AfterDeleted(w, c, FALSE) /\ UNCHANGED ledger
    BY <1>1, <1>4 DEF Drop
  <2>2. PICK pc, at, ok : pc = NextPc(c) /\ at = NextAt(c) /\ ok = (work[w].ok /\ FALSE)
    OBVIOUS
  <2>3. Moved(w, IF c = "console" THEN "close" ELSE "observe", IF c = "console" THEN "gateway" ELSE "none",
              work[w].ok /\ FALSE, work[w].done)
    BY <2>1, DeletedMoves DEF IInv
  <2>4. c = "gateway" /\ work[w].ok => Buried("console")'
    BY <1>2, <1>3, <2>1 DEF Buried
  <2>5. PlaceInv(w)' /\ ChainInv(w)'
    BY <1>2, <2>3, <2>4, DeletedPlace
  <2>6. Moved(w, pc, at, ok, work[w].done) /\ pc \in Pcs /\ pc \notin InSql
    BY <2>2, <2>3 DEF NextPc, NextAt, Pcs, InSql
  <2> QED
    BY <1>2, <2>1, <2>5, <2>6, MoveInv DEF sql
<1>5. CASE known
  <2>1. ledger' = [ledger EXCEPT ![c] = IF @ \in {"none", "deleted"} THEN "deleted" ELSE "deleting"]
    BY <1>1, <1>5 DEF Drop
  <2>2. /\ ledger' \in [Components -> {"none", "reserved", "ready", "deleting", "deleted"}]
        /\ ledger'[c] = IF ledger[c] \in {"none", "deleted"} THEN "deleted" ELSE "deleting"
        /\ \A d \in Components \ {c} : ledger'[d] = ledger[d]
    BY <2>1 DEF IInv, TypeOK
  <2>3. Keyed(c)
    BY <1>5 DEF Known, Keyed
  <2>4. Steady
    BY <1>2, <2>2 DEF Steady, Buried, Keyed
  <2>5. \A d \in Components : StateInv(d)'
    <3>1. ASSUME NEW d \in Components, d # c PROVE StateInv(d)'
      BY <1>2, <2>2, <3>1 DEF IInv, StateInv, Keyed
    <3>2. StateInv(c)'
      BY <1>2, <2>2, <2>3 DEF IInv, StateInv, Keyed, Live
    <3> QED
      BY <3>1, <3>2
  <2>6. c = "gateway" /\ work[w].ok => Buried("console")'
    BY <1>3, <2>4 DEF Steady, Components
  <2>7. ASSUME NEW v \in Workers \ {w}, work[v].pc \in InSql
        PROVE  ledger'[work[v].at] = ledger[work[v].at] /\ work[v].at # c
    <3>1. work[v].at # c
      BY <1>5, <2>7 DEF Busy, Other
    <3>2. work[v].at \in Components
      BY <2>7 DEF IInv, PlaceInv, InSql, Ensuring, Dropping
    <3> QED
      BY <2>2, <3>1, <3>2
  <2>8. CASE ledger[c] \in {"none", "deleted"}
    <3>1. AfterDropped(w, c)
      BY <1>1, <1>5, <2>8 DEF Drop
    <3>2. Buried(c)'
      BY <1>2, <2>2, <2>8 DEF Buried
    <3>3. PICK pc \in {"complete", "observe"}, at \in Places, ok \in BOOLEAN :
            Moved(w, pc, at, ok, work[w].done) /\ PlaceInv(w)' /\ ChainInv(w)'
      BY <1>2, <2>6, <3>1, <3>2, DroppedPlace
    <3>4. TypeOK'
      BY <1>2, <2>2, <3>3 DEF Moved, IInv, TypeOK, Job, Pcs, Places
    <3>5. Sole(w, pc, at)
      BY <1>2, <2>7 DEF Sole, InSql
    <3> QED
      BY <1>2, <2>4, <2>5, <3>3, <3>4, <3>5, WorkerStepInv
  <2>9. CASE ledger[c] \notin {"none", "deleted"}
    <3>1. Moved(w, "erase", c, work[w].ok, work[w].done)
      BY <1>1, <1>5, <2>9, GoMoves DEF Drop, IInv, Pcs, Places, InSql
    <3>2. PlaceInv(w)'
      BY <1>2, <2>2, <2>9, <3>1 DEF Moved, PlaceInv, Ensuring, Dropping, Removing
    <3>3. ChainInv(w)'
      BY <2>6, <3>1 DEF Moved, ChainInv
    <3>4. TypeOK'
      BY <1>2, <2>2, <3>1 DEF Moved, IInv, TypeOK, Job, Pcs, Places
    <3>5. Sole(w, "erase", c)
      BY <1>2, <2>7 DEF Sole
    <3> QED
      BY <1>2, <2>4, <2>5, <3>1, <3>2, <3>3, <3>4, <3>5, WorkerStepInv
  <2> QED
    BY <2>8, <2>9
<1> QED
  BY <1>4, <1>5

LEMMA EraseInv == ASSUME IInv, NEW w \in Workers, Erase(w) PROVE IInv'
<1>1. PICK c \in Components : c = work[w].at
  BY DEF Erase, IInv, PlaceInv, Dropping
<1>2. UNCHANGED <<row, fresh, events, alloc, view, ns, late, secret, binding, completed, ledger, calm>>
  BY DEF Erase
<1>3. Moved(w, "bury", c, work[w].ok, work[w].done) /\ db' = db \ {c}
  BY <1>1, GoMoves DEF Erase, IInv, Pcs, Places, InSql
<1>4. Steady
  BY <1>2 DEF Steady, Buried, Keyed
<1>5. \A d \in Components : StateInv(d)'
  BY <1>2, <1>3 DEF IInv, StateInv, Keyed
<1>6. PlaceInv(w)'
  BY <1>1, <1>2, <1>3 DEF Erase, IInv, Moved, PlaceInv, Ensuring, Dropping, Removing
<1>7. ChainInv(w)'
  BY <1>1, <1>3, <1>4 DEF Erase, IInv, Moved, ChainInv, Dropping, Steady, Components
<1>8. TypeOK'
  BY <1>2, <1>3 DEF Moved, IInv, TypeOK, Job, Pcs, Places
<1>9. Sole(w, "bury", c)
  <2>1. work[w].pc \in InSql
    BY DEF Erase, InSql
  <2> QED
    BY <1>1, <1>2, <1>3, <2>1, Alone DEF Sole
<1> QED
  BY <1>2, <1>3, <1>4, <1>5, <1>6, <1>7, <1>8, <1>9, WorkerStepInv

LEMMA BuryInv == ASSUME IInv, NEW w \in Workers, Bury(w) PROVE IInv'
<1>1. PICK c \in Components : c = work[w].at
  BY DEF Bury, IInv, PlaceInv, Dropping
<1>2. /\ UNCHANGED <<row, fresh, events, alloc, view, ns, late, secret, binding, completed, db, calm>> /\ row'.deleted
      /\ binding[c] = "closed" /\ ledger[c] = "deleting" /\ c \notin db
  BY <1>1 DEF Bury, IInv, PlaceInv, Removing
<1>3. /\ ledger' \in [Components -> {"none", "reserved", "ready", "deleting", "deleted"}]
      /\ ledger'[c] = "deleted" /\ \A d \in Components \ {c} : ledger'[d] = ledger[d]
  BY <1>1 DEF Bury, IInv, TypeOK
<1>4. Steady
  BY <1>2, <1>3 DEF Steady, Buried, Keyed
<1>5. \A d \in Components : StateInv(d)'
  BY <1>2, <1>3 DEF IInv, StateInv, Keyed, Live
<1>6. Buried(c)'
  BY <1>2, <1>3 DEF Buried
<1>7. c = "gateway" /\ work[w].ok => Buried("console")'
  BY <1>1, <1>4 DEF ChainInv, Dropping, Steady, Components, Bury, IInv
<1>8. PICK pc \in {"complete", "observe"}, at \in Places, ok \in BOOLEAN :
        Moved(w, pc, at, ok, work[w].done) /\ PlaceInv(w)' /\ ChainInv(w)'
  BY <1>1, <1>2, <1>6, <1>7, DroppedPlace DEF Bury
<1>9. TypeOK'
  BY <1>2, <1>3, <1>8 DEF Moved, IInv, TypeOK, Job, Pcs, Places
<1>10. Sole(w, pc, at)
  <2>1. work[w].pc \in InSql /\ pc \notin InSql
    BY DEF Bury, InSql
  <2> QED
    BY <1>1, <1>2, <1>3, <2>1, Alone DEF Sole
<1> QED
  BY <1>2, <1>4, <1>5, <1>8, <1>9, <1>10, WorkerStepInv

LEMMA CompleteInv == ASSUME IInv, NEW w \in Workers, CompleteConsoleSQLCleanup(w) PROVE IInv'
<1>1. /\ UNCHANGED <<row, fresh, events, alloc, view, ns, late, secret, binding, ledger, db, calm>> /\ row'.deleted
      /\ Buried("console") /\ completed' = TRUE
  BY DEF CompleteConsoleSQLCleanup, IInv, PlaceInv, ChainInv, Removing
<1>2. PICK c \in Components : c = "console"
  BY DEF Components
<1>3. Moved(w, IF c = "console" THEN "close" ELSE "observe", IF c = "console" THEN "gateway" ELSE "none",
            work[w].ok /\ TRUE, work[w].done)
  BY <1>2, DeletedMoves DEF CompleteConsoleSQLCleanup, IInv
<1>4. Buried(c)'
  BY <1>1, <1>2 DEF Buried
<1>5. PlaceInv(w)' /\ ChainInv(w)'
  BY <1>1, <1>2, <1>3, <1>4, DeletedPlace
<1>6. Steady
  BY <1>1 DEF Steady, Buried, Keyed
<1>7. \A d \in Components : StateInv(d)'
  BY <1>1 DEF IInv, StateInv, Keyed
<1>8. PICK ok : ok = (work[w].ok /\ TRUE)
  OBVIOUS
<1>9. Moved(w, "close", "gateway", ok, work[w].done)
  BY <1>2, <1>3, <1>8
<1>10. TypeOK' /\ Sole(w, "close", "gateway")
  BY <1>1, <1>9 DEF Moved, IInv, TypeOK, Job, Pcs, Places, Sole, InSql
<1> QED
  BY <1>1, <1>5, <1>6, <1>7, <1>9, <1>10, WorkerStepInv

\* SQL cleanup is recorded only when every component is over, and never taken back.
LEMMA WorkerObservesInv == ASSUME IInv, NEW w \in Workers, WorkerObserves(w) PROVE IInv'
<1>1. row.deleted /\ work[w] \in Job /\ UNCHANGED <<alloc, view, ns, late, sql, calm>>
  BY TypedJob DEF WorkerObserves, IInv, PlaceInv, Removing
<1>2. PICK owner \in Owners : owner = IF "sql" \in work[w].done THEN "workload" ELSE "sql"
  BY DEF Owners
<1>3. PICK complete \in BOOLEAN : complete = work[w].ok
  BY <1>1 DEF Job
<1>4. PICK prior \in BOOLEAN : prior = (owner \in work[w].done)
  <2>1. (owner \in work[w].done) \in BOOLEAN
    OBVIOUS
  <2> QED
    BY <2>1
<1>5. Recorded(owner, complete, prior)
  BY <1>1, <1>2, <1>3, <1>4, ObserveRecords, RowGivesFinalized DEF WorkerObserves, IInv
<1>6. Moved(w, "idle", "none", FALSE, {})
  BY IdleMoves DEF WorkerObserves, IInv
<1>7. FinalizedOnce' /\ row'.deleted
  BY <1>5 DEF Recorded
<1>8. "sql" \in row.done => "sql" \in row'.done
  BY <1>2, <1>4, <1>5 DEF Recorded
<1>9. "sql" \in row'.done => \A c \in Components : Buried(c)
  <2>1. CASE "sql" \in row.done
    BY <2>1 DEF IInv, RowInv
  <2>2. CASE "sql" \in row'.done /\ "sql" \notin row.done
    <3>1. complete /\ "sql" \notin work[w].done
      BY <1>2, <1>5, <2>2 DEF Recorded
    <3> QED
      BY <1>3, <3>1 DEF WorkerObserves, IInv, ChainInv
  <2> QED
    BY <2>1, <2>2
<1>10. Steady
  BY <1>1, <1>7 DEF Steady, Buried, Keyed, sql
<1>11. TypeOK'
  BY <1>1, <1>5, <1>6 DEF Recorded, Moved, IInv, TypeOK, Job, Pcs, Places, sql
<1>12. RowInv'
  BY <1>1, <1>7, <1>9 DEF RowInv, FinalizedOnce, Buried, sql
<1>13. OtherInv' /\ AllocInv'
  BY <1>1, <1>7, <1>8 DEF IInv, OtherInv, AllocInv
<1>14. \A c \in Components : StateInv(c)'
  BY <1>1 DEF IInv, StateInv, Keyed, sql
<1>15. Sole(w, "idle", "none")
  BY <1>1 DEF Sole, InSql, sql
<1>16. Exclusive' /\ \A v \in Workers : PlaceInv(v)' /\ ChainInv(v)'
  BY <1>6, <1>10, <1>15, RestInv, MoveKept
<1> QED
  BY <1>11, <1>12, <1>13, <1>14, <1>16 DEF IInv

LEMMA WorkerFailsInv == ASSUME IInv, NEW w \in Workers, WorkerFails(w) PROVE IInv'
<1>1. UNCHANGED <<row, events, alloc, view, ns, late, sql, calm>> /\ fresh' \subseteq fresh \cup {w} /\ work[w] \in Job
  BY TypedJob DEF WorkerFails
<1>2. CASE work' = [work EXCEPT ![w] = Idle]
  <2>1. Moved(w, "idle", "none", FALSE, {})
    BY <1>2, IdleMoves DEF IInv
  <2> QED
    BY <1>1, <2>1, RestInv, MoveInv DEF InSql, Pcs
<1>3. CASE Go(w, "report", work[w].at)
  <2>1. PICK at \in Places : at = work[w].at
    BY <1>1 DEF Job
  <2>2. Moved(w, "report", at, work[w].ok, work[w].done)
    BY <1>3, <2>1, GoMoves DEF IInv, Pcs
  <2> QED
    BY <1>1, <2>2, RestInv, MoveInv DEF InSql, Pcs
<1>4. CASE work[w].pc = "gone" /\ work' = [work EXCEPT ![w] = Process("observe", "none", FALSE, @.done)]
  <2>1. PICK done \in SUBSET Owners : done = work[w].done
    BY <1>1 DEF Job
  <2>2. Moved(w, "observe", "none", FALSE, done)
    BY <1>4, <2>1, ProcessMoves DEF IInv, Pcs, Places, TypeOK
  <2>3. PlaceInv(w)' /\ ChainInv(w)'
    BY <1>1, <1>4, <2>2 DEF Moved, IInv, PlaceInv, ChainInv, Ensuring, Dropping, Removing
  <2> QED
    BY <1>1, <2>2, <2>3, MoveInv DEF InSql, Pcs
<1>5. CASE work[w].pc \in {"close", "drop", "erase", "bury", "complete"} /\ AfterDeleted(w, work[w].at, FALSE)
  <2>1. PICK c \in Components : c = work[w].at
    BY <1>5 DEF IInv, PlaceInv, ChainInv, Dropping, Components
  <2>2. Moved(w, IF c = "console" THEN "close" ELSE "observe", IF c = "console" THEN "gateway" ELSE "none",
              work[w].ok /\ FALSE, work[w].done)
    BY <1>5, <2>1, DeletedMoves DEF IInv
  <2>3. c = "gateway" /\ work[w].ok => Buried("console")'
    BY <1>1, <1>5, <2>1 DEF IInv, ChainInv, Dropping, Buried, sql
  <2>4. row'.deleted
    BY <1>1, <1>5 DEF IInv, PlaceInv, Removing
  <2>5. PlaceInv(w)' /\ ChainInv(w)'
    BY <2>2, <2>3, <2>4, DeletedPlace
  <2>6. PICK pc, at, ok : pc = NextPc(c) /\ at = NextAt(c) /\ ok = (work[w].ok /\ FALSE)
    OBVIOUS
  <2>7. Moved(w, pc, at, ok, work[w].done) /\ pc \in Pcs /\ pc \notin InSql
    BY <2>2, <2>6 DEF NextPc, NextAt, Pcs, InSql
  <2> QED
    BY <1>1, <2>5, <2>7, MoveInv
<1> QED
  BY <1>2, <1>3, <1>4, <1>5 DEF WorkerFails

-----------------------------------------------------------------------------
LEMMA StutterInv == ASSUME IInv, UNCHANGED vars PROVE IInv'
<1>1. UNCHANGED <<row, fresh, events, alloc, work, view, ns, late, secret, binding, completed, ledger, db, calm>>
  BY DEF vars, sql
<1>2. TypeOK'
  BY <1>1 DEF IInv, TypeOK
<1>3. FinalizedOnce' /\ OtherInv'
  BY <1>1, RowGivesFinalized DEF IInv, FinalizedOnce, OtherInv
<1> QED
  BY <1>1, <1>2, <1>3, RowStep DEF IInv, RowInv, sql

LEMMA SettleInv == ASSUME IInv, Settle PROVE IInv'
<1>1. UNCHANGED <<row, fresh, events, alloc, work, view, ns, late, secret, binding, completed, ledger, db>> /\ calm' = TRUE
  BY DEF Settle, sql
<1>2. TypeOK'
  BY <1>1 DEF IInv, TypeOK
<1>3. FinalizedOnce' /\ OtherInv'
  BY <1>1, RowGivesFinalized DEF IInv, FinalizedOnce, OtherInv
<1> QED
  BY <1>1, <1>2, <1>3, RowStep DEF IInv, RowInv, sql

LEMMA StepInv == ASSUME IInv, [Next \/ Settle]_vars PROVE IInv'
<1>1. CASE Update \/ Delete
  BY <1>1, UpdateInv, DeleteInv
<1>2. CASE AllocatorStep \/ AllocatorFails
  BY <1>2, AllocatorReadsInv, EnsureNamespaceInv, RemoveNamespaceInv, AllocatorObservesInv, AllocatorFailsInv DEF AllocatorStep
<1>3. ASSUME NEW o \in Others, OtherReads(o) \/ \E complete \in BOOLEAN : OtherObserves(o, complete) PROVE IInv'
  BY <1>3, OtherReadsInv, OtherObservesInv
<1>4. ASSUME NEW n \in Namespaces, NamespaceEnds(n) \/ LateCreation(n) PROVE IInv'
  BY <1>4, NamespaceEndsInv, LateCreationInv
<1>5. ASSUME NEW w \in Workers, WorkerStep(w) PROVE IInv'
  BY <1>5, WorkerReadsInv, LoadInv, BindSQLStateInv, ReserveInv, CreateInv, ReadyInv, ReportInv, GoneInv,
     CloseSQLStateInv, DropInv, EraseInv, BuryInv, CompleteInv, WorkerObservesInv DEF WorkerStep
<1>6. ASSUME NEW w \in Workers, WorkerFails(w) PROVE IInv'
  BY <1>6, WorkerFailsInv
<1>7. CASE Settle
  BY <1>7, SettleInv
<1>8. CASE UNCHANGED vars
  BY <1>8, StutterInv
<1> QED
  BY <1>1, <1>2, <1>3, <1>4, <1>5, <1>6, <1>7, <1>8 DEF Next

LEMMA InvGives == ASSUME IInv PROVE NoOrphanDatabase /\ StateOutlivesDatabase /\ FinalizedOnce
<1>1. NoOrphanDatabase
  <2> SUFFICES ASSUME "sql" \in row.done PROVE db = {} /\ \A c \in Components : ledger[c] \in {"none", "deleted"}
    BY DEF NoOrphanDatabase
  <2>1. \A c \in Components : ledger[c] \in {"none", "deleted"} /\ c \notin db
    BY DEF IInv, RowInv, Buried, StateInv, Live
  <2> QED
    BY <2>1 DEF IInv, TypeOK
<1>2. StateOutlivesDatabase
  BY DEF StateOutlivesDatabase, IInv, StateInv, Live, Keyed
<1> QED
  BY <1>1, <1>2, RowGivesFinalized

LEMMA Inductive == Spec => []IInv
<1>1. IInv /\ [Next]_vars => IInv'
  BY StepInv
<1> QED
  BY <1>1, InitInv, PTL DEF Spec

\* Once RecordCleanup has accepted "sql" no database of the gateway or its console
\* exists or is reserved, for any number of workload controllers in any phase of an
\* ensure or a removal: the bindings and the ledger turn a late EnsureDatabase away.
THEOREM CleanupLeavesNoDatabase == Spec => []NoOrphanDatabase
<1>1. IInv => NoOrphanDatabase
  BY InvGives
<1> QED
  BY <1>1, Inductive, PTL

\* The namespace allocation controller, which removes state namespaces on a snapshot
\* of its own, never removes the keys of a database that is reserved or exists.
THEOREM KeysOutliveDatabases == Spec => []StateOutlivesDatabase
<1>1. IInv => StateOutlivesDatabase
  BY InvGives
<1> QED
  BY <1>1, Inductive, PTL

\* RecordCleanup publishes gateway.deleted once: with the observation that completes
\* the last of any set of owners, whatever is taken back and repeated afterwards.
THEOREM DeletionPublishedOnce == Spec => []FinalizedOnce
<1>1. IInv => FinalizedOnce
  BY InvGives
<1> QED
  BY <1>1, Inductive, PTL
=============================================================================
