--------------------------- MODULE GatewayCleanup ---------------------------
(***************************************************************************)
(* The end of a gateway.  Delete commits an intent; the cleanup owners then *)
(* remove what the gateway used and record it on the row under the version  *)
(* they read, and the last record finalizes the deletion.                   *)
(*                                                                         *)
(* Modelled in detail: the namespace allocation controller, the workload    *)
(* controllers with the SQL databases of the gateway and its console, their *)
(* bindings, their sealed keys in state namespaces and the provisioning     *)
(* ledger.  The other owners (accounts, identity) are seen by their records. *)
(* One gateway on one cluster: Update refuses to move it.                   *)
(***************************************************************************)
EXTENDS Naturals, FiniteSets

CONSTANTS Workers,    \* workload controller processes; two overlap when one is replaced
          Others,     \* cleanup owners without targets
          Allocator,  \* the namespace allocation controller
          Console,    \* the console is configured
          MaxLate     \* bound: creation requests nobody waits for, at one time

ASSUME CleanupAssumption ==
  /\ Console \in BOOLEAN /\ MaxLate \in Nat
  /\ Others \cap {"allocation", "workload", "sql"} = {}
  /\ Workers \cap Others = {} /\ Allocator \notin Workers \cup Others

Owners == {"allocation", "workload", "sql"} \cup Others
Components == {"gateway", "console"}
Namespaces == {"gateway", "sandbox", "gateway-state", "console-state"}
Home(c) == IF c = "gateway" THEN "gateway-state" ELSE "console-state"

VARIABLES
  row,        \* deleted_at, finalized_at and the completed observations
  fresh,      \* processes whose snapshot still has the row's version
  events,     \* "gateway.deleted" events published
  alloc,      \* the namespace allocation controller
  work,       \* the workload controllers
  view,       \* the other owners
  ns,         \* namespaces
  late,       \* namespaces with a creation request nobody waits for
  secret,     \* state Secret and marker of a component: none, made, or pinned on the namespace
  binding,    \* SQL state binding: none, bound, empty (closed without digest) or closed
  completed,  \* the console's SQL completion is recorded
  ledger,     \* the provisioning record of each database
  db,         \* databases that exist
  calm        \* from now on no request fails and no process ends

sql == <<secret, binding, completed, ledger, db>>
vars == <<row, fresh, events, alloc, work, view, ns, late, sql, calm>>

-----------------------------------------------------------------------------
Process(pc, at, ok, done) == [pc |-> pc, at |-> at, ok |-> ok, done |-> done]
Idle == Process("idle", "none", FALSE, {})

Init ==
  /\ row = [deleted |-> FALSE, final |-> FALSE, done |-> {}]
  /\ fresh = {} /\ events = 0
  /\ alloc = Idle /\ work = [w \in Workers |-> Idle] /\ view = [o \in Others |-> Idle]
  /\ ns = [n \in Namespaces |-> "absent"] /\ late = {}
  /\ secret = [c \in Components |-> "none"]
  /\ binding = [c \in Components |-> "none"] /\ completed = FALSE
  /\ ledger = [c \in Components |-> "none"] /\ db = {}
  /\ calm = FALSE

-----------------------------------------------------------------------------
(* The row.                                                                *)

\* An update of the live row: a user's patch or a controller's observation.
Update ==
  /\ ~row.deleted
  /\ fresh' = {}
  /\ UNCHANGED <<row, events, alloc, work, view, ns, late, sql, calm>>

Delete ==
  /\ ~row.deleted
  /\ row' = [row EXCEPT !.deleted = TRUE]
  /\ fresh' = {}
  /\ UNCHANGED <<events, alloc, work, view, ns, late, sql, calm>>

\* SQL cleanup is complete only with the console's own completion.
ConsoleClosed == binding["console"] \in {"bound", "closed"} => binding["console"] = "closed" /\ completed

\* Mutant: finalization is published whenever the last observation is completed.
RecordAgain(p, owner, complete) ==
  IF p \in fresh /\ (owner = "sql" /\ complete => ConsoleClosed)
  THEN LET done == IF complete THEN row.done \cup {owner} ELSE row.done \ {owner} IN
       /\ row' = [row EXCEPT !.done = done, !.final = row.final \/ done = Owners]
       /\ events' = IF done = Owners THEN events + 1 ELSE events
       /\ fresh' = {}
  ELSE UNCHANGED <<row, events>> /\ fresh' = fresh \ {p}

\* RecordCleanup by process p, which holds a snapshot and changes its observation.
Record(p, owner, complete) ==
  IF p \in fresh /\ (owner = "sql" /\ complete => ConsoleClosed)
  THEN LET done == IF complete THEN row.done \cup {owner} ELSE row.done \ {owner} IN
       /\ row' = [row EXCEPT !.done = done, !.final = row.final \/ done = Owners]
       /\ events' = IF done = Owners /\ ~row.final THEN events + 1 ELSE events
       /\ fresh' = {}
  ELSE UNCHANGED <<row, events>> /\ fresh' = fresh \ {p}

\* The end of RunObservation: nothing is written when nothing changed.
Observe(p, owner, complete, prior) ==
  IF complete = prior THEN UNCHANGED <<row, events>> /\ fresh' = fresh \ {p}
                      ELSE Record(p, owner, complete)

-----------------------------------------------------------------------------
(* Accounts and identity: the work of each owner is seen by its outcome.   *)

OtherReads(o) ==
  /\ view[o].pc = "idle" /\ row.deleted
  /\ view' = [view EXCEPT ![o] = Process("work", "none", FALSE, row.done \cap {o})]
  /\ fresh' = fresh \cup {o}
  /\ UNCHANGED <<row, events, alloc, work, ns, late, sql, calm>>

OtherObserves(o, complete) ==
  /\ view[o].pc = "work" /\ (complete \/ ~calm)
  /\ view' = [view EXCEPT ![o] = Idle]
  /\ Observe(o, o, complete, o \in view[o].done)
  /\ UNCHANGED <<alloc, work, ns, late, sql, calm>>

-----------------------------------------------------------------------------
(* The namespace allocation controller.                                    *)

\* Mutant: a finalized gateway is not looked at again.
AllocatorReadsOpen ==
  /\ alloc.pc = "idle" /\ ~row.final
  /\ alloc' = IF row.deleted
              THEN Process("remove", "gateway", TRUE, row.done \cap {"allocation", "workload", "sql"})
              ELSE Process("ensure", "gateway-state", TRUE, {})
  /\ fresh' = fresh \cup {Allocator}
  /\ UNCHANGED <<row, events, work, view, ns, late, sql, calm>>

AllocatorReads ==
  /\ alloc.pc = "idle"
  /\ alloc' = IF row.deleted
              THEN Process("remove", "gateway", TRUE, row.done \cap {"allocation", "workload", "sql"})
              ELSE Process("ensure", "gateway-state", TRUE, {})
  /\ fresh' = fresh \cup {Allocator}
  /\ UNCHANGED <<row, events, work, view, ns, late, sql, calm>>

\* The namespace after n in the order of allocation; "none" ends it.
AfterEnsure(n) ==
  CASE n = "gateway-state" -> IF Console THEN "console-state" ELSE "gateway"
    [] n = "console-state" -> "gateway"
    [] n = "gateway" -> "sandbox"
    [] n = "sandbox" -> "none"

\* Ensure ends by sealing the identity of a state Secret on its namespace.
Sealed(n) == [c \in Components |-> IF Home(c) = n /\ secret[c] = "made" THEN "pinned" ELSE secret[c]]

\* A namespace that is being deleted is an error.
EnsureNamespace ==
  /\ alloc.pc = "ensure"
  /\ LET n == alloc.at
         end == ns[n] = "terminating" \/ AfterEnsure(n) = "none" IN
       /\ ns' = IF ns[n] = "absent" THEN [ns EXCEPT ![n] = "active"] ELSE ns
       /\ secret' = IF ns[n] = "active" THEN Sealed(n) ELSE secret
       /\ alloc' = IF end THEN Idle ELSE [alloc EXCEPT !.at = AfterEnsure(n)]
       /\ fresh' = IF end THEN fresh \ {Allocator} ELSE fresh
  /\ UNCHANGED <<row, events, work, view, late, binding, completed, ledger, db, calm>>

\* Mutant: the state namespaces go with the others.
StateIsUnusedEarly == TRUE

\* Keys are removed after the snapshot shows the end of workload and databases.
StateIsUnused == {"workload", "sql"} \subseteq alloc.done

\* The place after Delete of the namespace at, when gone tells whether all so far are absent.
AfterRemove(gone) ==
  CASE alloc.at = "gateway" -> Process("remove", "sandbox", gone, alloc.done)
    [] alloc.at = "sandbox" -> IF gone /\ StateIsUnused THEN Process("remove", "console-state", TRUE, alloc.done)
                                                      ELSE Process("observe", "none", FALSE, alloc.done)
    [] alloc.at = "console-state" -> Process("remove", "gateway-state", gone, alloc.done)
    [] alloc.at = "gateway-state" -> Process("observe", "none", gone, alloc.done)

\* DeleteOwned: absent is success, everything else a request and a later look.
RemoveNamespace ==
  /\ alloc.pc = "remove"
  /\ ns' = IF ns[alloc.at] = "active" THEN [ns EXCEPT ![alloc.at] = "terminating"] ELSE ns
  /\ alloc' = AfterRemove(alloc.ok /\ ns[alloc.at] = "absent")
  /\ UNCHANGED <<row, fresh, events, work, view, late, sql, calm>>

AllocatorObserves ==
  /\ alloc.pc = "observe"
  /\ alloc' = Idle
  /\ Observe(Allocator, "allocation", alloc.ok, "allocation" \in alloc.done)
  /\ UNCHANGED <<work, view, ns, late, sql, calm>>

\* A request fails, its caller stops waiting for it, or the process ends.  The
\* sandbox is deleted although the gateway's request failed.
AllocatorFails ==
  /\ alloc.pc # "idle" /\ ~calm
  /\ \/ alloc' = Idle /\ fresh' = fresh \ {Allocator}
     \/ /\ alloc.pc = "remove"
        /\ alloc' = IF alloc.at = "gateway" THEN AfterRemove(FALSE) ELSE Process("observe", "none", FALSE, alloc.done)
        /\ UNCHANGED fresh
  /\ late' \in IF alloc.pc = "ensure" /\ ns[alloc.at] = "absent" /\ Cardinality(late) < MaxLate
               THEN {late, late \cup {alloc.at}} ELSE {late}
  /\ UNCHANGED <<row, events, work, view, ns, sql, calm>>

\* Kubernetes ends a deletion, or carries out a creation nobody waits for.
NamespaceEnds(n) ==
  /\ ns[n] = "terminating"
  /\ ns' = [ns EXCEPT ![n] = "absent"]
  /\ secret' = [c \in Components |-> IF Home(c) = n THEN "none" ELSE secret[c]]
  /\ UNCHANGED <<row, fresh, events, alloc, work, view, late, binding, completed, ledger, db, calm>>

LateCreation(n) ==
  /\ n \in late
  /\ late' = late \ {n}
  /\ ns' = IF ns[n] = "absent" THEN [ns EXCEPT ![n] = "active"] ELSE ns
  /\ UNCHANGED <<row, fresh, events, alloc, work, view, sql, calm>>

-----------------------------------------------------------------------------
(* The workload controller.                                                *)

Go(w, pc, at) == work' = [work EXCEPT ![w].pc = pc, ![w].at = at]
Other(w) == Workers \ {w}
InSql == {"create", "ready", "erase", "bury"}

\* pg_try_advisory_lock: another session works on the database.
Busy(w, c) == \E v \in Other(w) : work[v].pc \in InSql /\ work[v].at = c

WorkerReads(w) ==
  /\ work[w].pc = "idle"
  /\ work' = [work EXCEPT ![w] =
                IF row.deleted THEN Process("gone", "gateway", TRUE, row.done \cap {"workload", "sql"})
                               ELSE Process("load", "gateway", TRUE, {})]
  /\ fresh' = fresh \cup {w}
  /\ UNCHANGED <<row, events, alloc, view, ns, late, sql, calm>>

(* Ensure: the keys of a component are made and sealed, their digest is bound to
   the live row, and only then is the database reserved and created. *)

\* What the callbacks of LoadSecretState ask before any key is made or used.
Usable(c) == ns["gateway"] = "active" /\ ns[Home(c)] = "active" /\ binding[c] \in {"none", "bound"}

\* LoadSecretState with create.  The Secret and its marker are made together: without
\* the marker nothing can be sealed, and the next Load adds it.
Load(w) ==
  /\ work[w].pc = "load"
  /\ LET c == work[w].at IN
       /\ secret' = IF Usable(c) /\ secret[c] = "none" /\ binding[c] = "none" THEN [secret EXCEPT ![c] = "made"] ELSE secret
       /\ IF Usable(c) /\ secret[c] = "pinned" THEN Go(w, "bind", c) ELSE Go(w, "report", c)
  /\ UNCHANGED <<row, fresh, events, alloc, view, ns, late, binding, completed, ledger, db, calm>>

BindSQLState(w) ==
  /\ work[w].pc = "bind"
  /\ LET c == work[w].at
         bound == ~row.deleted /\ w \in fresh /\ binding[c] \in {"none", "bound"} IN
       /\ binding' = IF bound THEN [binding EXCEPT ![c] = "bound"] ELSE binding
       /\ IF bound THEN Go(w, "reserve", c) ELSE Go(w, "report", c)
  /\ UNCHANGED <<row, fresh, events, alloc, view, ns, late, secret, completed, ledger, db, calm>>

\* After the gateway's database comes the console's.
AfterEnsured(w, c) == IF c = "gateway" /\ Console THEN Go(w, "load", "console") ELSE Go(w, "report", c)

\* Mutant: the record of a deletion does not stop a late call.
ReserveAgain(w) ==
  /\ work[w].pc = "reserve"
  /\ LET c == work[w].at IN
       IF Busy(w, c) THEN Go(w, "report", c) /\ UNCHANGED ledger
       ELSE IF ledger[c] = "ready" THEN AfterEnsured(w, c) /\ UNCHANGED ledger
       ELSE Go(w, "create", c) /\ ledger' = [ledger EXCEPT ![c] = "reserved"]
  /\ UNCHANGED <<row, fresh, events, alloc, view, ns, late, secret, binding, completed, db, calm>>

\* EnsureDatabase up to the reservation
Reserve(w) ==
  /\ work[w].pc = "reserve"
  /\ LET c == work[w].at IN
       IF Busy(w, c) \/ ledger[c] \in {"deleting", "deleted"} THEN Go(w, "report", c) /\ UNCHANGED ledger
       ELSE IF ledger[c] = "ready" THEN AfterEnsured(w, c) /\ UNCHANGED ledger
       ELSE Go(w, "create", c) /\ ledger' = [ledger EXCEPT ![c] = "reserved"]
  /\ UNCHANGED <<row, fresh, events, alloc, view, ns, late, secret, binding, completed, db, calm>>

Create(w) ==
  /\ work[w].pc = "create"
  /\ db' = db \cup {work[w].at}
  /\ Go(w, "ready", work[w].at)
  /\ UNCHANGED <<row, fresh, events, alloc, view, ns, late, secret, binding, completed, ledger, calm>>

Ready(w) ==
  /\ work[w].pc = "ready"
  /\ ledger' = [ledger EXCEPT ![work[w].at] = "ready"]
  /\ AfterEnsured(w, work[w].at)
  /\ UNCHANGED <<row, fresh, events, alloc, view, ns, late, secret, binding, completed, db, calm>>

\* UpdateGateway with the version of the snapshot, unless nothing changed
Report(w) ==
  /\ work[w].pc = "report"
  /\ work' = [work EXCEPT ![w] = Idle]
  /\ fresh' \in IF w \in fresh /\ ~row.deleted THEN {{}, fresh \ {w}} ELSE {fresh \ {w}}
  /\ UNCHANGED <<row, events, alloc, view, ns, late, sql, calm>>

(* DeleteDatabase: after the workload is gone, each component's registration is
   closed and its database dropped behind a record of the deletion. *)

\* Mutant: the databases wait for the namespace with their keys as well.
GoneWithState(w) ==
  /\ work[w].pc = "gone"
  /\ work' = [work EXCEPT ![w] =
                IF ns[work[w].at] # "absent" THEN Process("observe", "none", FALSE, @.done)
                ELSE IF @.at = "gateway" THEN Process("gone", "sandbox", TRUE, @.done)
                ELSE IF @.at = "sandbox" THEN Process("gone", "gateway-state", TRUE, @.done)
                ELSE IF "sql" \in @.done THEN Process("observe", "none", TRUE, @.done)
                ELSE Process("close", "console", TRUE, @.done)]
  /\ UNCHANGED <<row, fresh, events, alloc, view, ns, late, sql, calm>>

Gone(w) ==
  /\ work[w].pc = "gone"
  /\ work' = [work EXCEPT ![w] =
                IF ns[work[w].at] # "absent" THEN Process("observe", "none", FALSE, @.done)
                ELSE IF @.at = "gateway" THEN Process("gone", "sandbox", TRUE, @.done)
                ELSE IF "sql" \in @.done THEN Process("observe", "none", TRUE, @.done)
                ELSE Process("close", "console", TRUE, @.done)]
  /\ UNCHANGED <<row, fresh, events, alloc, view, ns, late, sql, calm>>

\* A component ends, and the console's failure does not keep the gateway's from its turn.
AfterDeleted(w, c, ok) ==
  work' = [work EXCEPT ![w] =
             Process(IF c = "console" THEN "close" ELSE "observe",
                     IF c = "console" THEN "gateway" ELSE "none", @.ok /\ ok, @.done)]

CloseSQLState(w) ==
  /\ work[w].pc = "close"
  /\ LET c == work[w].at
         closed == IF binding[c] \in {"none", "empty"} THEN "empty" ELSE "closed" IN
       /\ binding' = [binding EXCEPT ![c] = closed]
       /\ IF closed = "closed" THEN Go(w, "drop", c)
          ELSE IF c = "console" THEN Go(w, "complete", c)
          ELSE AfterDeleted(w, c, TRUE)
  /\ UNCHANGED <<row, fresh, events, alloc, view, ns, late, secret, completed, ledger, db, calm>>

AfterDropped(w, c) == IF c = "console" THEN Go(w, "complete", c) ELSE AfterDeleted(w, c, TRUE)

\* The sealed keys, read without create, name the server.
Known(c) == ns[Home(c)] = "active" /\ secret[c] = "pinned"

\* DeleteDatabase records the deletion on that server before it drops anything.
Drop(w) ==
  /\ work[w].pc = "drop"
  /\ LET c == work[w].at
         known == Known(c) /\ ~Busy(w, c) IN
       /\ ledger' = IF known THEN [ledger EXCEPT ![c] = IF @ \in {"none", "deleted"} THEN "deleted" ELSE "deleting"]
                    ELSE ledger
       /\ IF ~known THEN AfterDeleted(w, c, FALSE)
          ELSE IF ledger[c] \in {"none", "deleted"} THEN AfterDropped(w, c)
          ELSE Go(w, "erase", c)
  /\ UNCHANGED <<row, fresh, events, alloc, view, ns, late, secret, binding, completed, db, calm>>

Erase(w) ==
  /\ work[w].pc = "erase"
  /\ db' = db \ {work[w].at}
  /\ Go(w, "bury", work[w].at)
  /\ UNCHANGED <<row, fresh, events, alloc, view, ns, late, secret, binding, completed, ledger, calm>>

Bury(w) ==
  /\ work[w].pc = "bury"
  /\ ledger' = [ledger EXCEPT ![work[w].at] = "deleted"]
  /\ AfterDropped(w, work[w].at)
  /\ UNCHANGED <<row, fresh, events, alloc, view, ns, late, secret, binding, completed, db, calm>>

CompleteConsoleSQLCleanup(w) ==
  /\ work[w].pc = "complete"
  /\ completed' = TRUE
  /\ AfterDeleted(w, "console", TRUE)
  /\ UNCHANGED <<row, fresh, events, alloc, view, ns, late, secret, binding, ledger, db, calm>>

\* Databases first; the workload is observed once they are recorded as gone.
WorkerObserves(w) ==
  /\ work[w].pc = "observe"
  /\ work' = [work EXCEPT ![w] = Idle]
  /\ LET owner == IF "sql" \in work[w].done THEN "workload" ELSE "sql" IN
       Observe(w, owner, work[w].ok, owner \in work[w].done)
  /\ UNCHANGED <<alloc, view, ns, late, sql, calm>>

\* A step fails or runs out of time, or the process ends.  A statement that runs on
\* in the server keeps its session's lock, as if it had ended before the failure.
WorkerFails(w) ==
  /\ work[w].pc # "idle" /\ ~calm
  /\ \/ work' = [work EXCEPT ![w] = Idle] /\ fresh' = fresh \ {w}
     \/ /\ work[w].pc \in {"load", "bind", "reserve", "create", "ready"}
        /\ Go(w, "report", work[w].at)
        /\ UNCHANGED fresh
     \/ /\ work[w].pc = "gone"
        /\ work' = [work EXCEPT ![w] = Process("observe", "none", FALSE, @.done)]
        /\ UNCHANGED fresh
     \/ /\ work[w].pc \in {"close", "drop", "erase", "bury", "complete"}
        /\ AfterDeleted(w, work[w].at, FALSE)
        /\ UNCHANGED fresh
  /\ UNCHANGED <<row, events, alloc, view, ns, late, sql, calm>>

-----------------------------------------------------------------------------
WorkerStep(w) ==
  \/ WorkerReads(w) \/ Load(w) \/ BindSQLState(w) \/ Reserve(w) \/ Create(w) \/ Ready(w) \/ Report(w)
  \/ Gone(w) \/ CloseSQLState(w) \/ Drop(w) \/ Erase(w) \/ Bury(w)
  \/ CompleteConsoleSQLCleanup(w) \/ WorkerObserves(w)

AllocatorStep == AllocatorReads \/ EnsureNamespace \/ RemoveNamespace \/ AllocatorObserves

Next ==
  \/ Update \/ Delete \/ AllocatorStep \/ AllocatorFails
  \/ \E o \in Others : OtherReads(o) \/ \E complete \in BOOLEAN : OtherObserves(o, complete)
  \/ \E n \in Namespaces : NamespaceEnds(n) \/ LateCreation(n)
  \/ \E w \in Workers : WorkerStep(w) \/ WorkerFails(w)

Spec == Init /\ [][Next]_vars

\* Failures end, or never do.  When they ended before the deletion nothing is lost by
\* saying so only afterwards.
Settle ==
  /\ row.deleted /\ ~calm /\ calm' = TRUE
  /\ UNCHANGED <<row, fresh, events, alloc, work, view, ns, late, sql>>

\* The keyed runtime acts on the gateway again and again, and Kubernetes ends deletions.
Fairness ==
  /\ WF_vars(AllocatorStep)
  /\ \A w \in Workers : WF_vars(WorkerStep(w))
  /\ \A o \in Others : WF_vars(OtherReads(o) \/ OtherObserves(o, TRUE))
  /\ \A n \in Namespaces : WF_vars(NamespaceEnds(n))

FairSpec == Init /\ [][Next \/ Settle]_vars /\ Fairness

-----------------------------------------------------------------------------
\* The types of the variables.
TypeOK ==
  /\ row \in [deleted : BOOLEAN, final : BOOLEAN, done : SUBSET Owners]
  /\ fresh \subseteq Workers \cup Others \cup {Allocator} /\ events \in Nat
  /\ alloc \in [pc : {"idle", "ensure", "remove", "observe"}, at : Namespaces \cup {"none"},
                ok : BOOLEAN, done : SUBSET Owners]
  /\ work \in [Workers -> [pc : {"idle", "load", "bind", "reserve", "report", "gone", "close", "drop",
                                 "complete", "observe"} \cup InSql,
                           at : Components \cup {"sandbox", "none"}, ok : BOOLEAN, done : SUBSET Owners]]
  /\ view \in [Others -> [pc : {"idle", "work"}, at : {"none"}, ok : BOOLEAN, done : SUBSET Owners]]
  /\ ns \in [Namespaces -> {"absent", "active", "terminating"}] /\ late \subseteq Namespaces
  /\ secret \in [Components -> {"none", "made", "pinned"}]
  /\ binding \in [Components -> {"none", "bound", "empty", "closed"}] /\ completed \in BOOLEAN
  /\ ledger \in [Components -> {"none", "reserved", "ready", "deleting", "deleted"}]
  /\ db \subseteq Components /\ calm \in BOOLEAN

(* Once SQL cleanup is recorded no database of the gateway exists or is reserved,
   whatever a controller that read the live row is still about to do. *)
NoOrphanDatabase ==
  "sql" \in row.done => db = {} /\ \A c \in Components : ledger[c] \in {"none", "deleted"}

(* A database never outlives the keys that are needed to remove it: as long as it
   is reserved or exists, its state namespace is there with the sealed Secret,
   although another controller removes namespaces on its own snapshot. *)
StateOutlivesDatabase ==
  \A c \in Components :
    c \in db \/ ledger[c] \in {"reserved", "ready", "deleting"}
      => ns[Home(c)] = "active" /\ secret[c] = "pinned"

(* The deletion is finalized by the record that completes the last owner, and
   published once, although owners may take their observation back and repeat it. *)
FinalizedOnce ==
  /\ row.done = Owners => row.final
  /\ events = IF row.final THEN 1 ELSE 0
  /\ row.final => row.deleted

(* Once failures stop a deleted gateway is finalized: the controllers, each of which
   waits for what another one removes or records, do not wait in a circle. *)
Finalizes == calm /\ row.deleted ~> row.final

(* Once failures stop a deleted gateway leaves no database and no namespace, for
   good: what a late creation brings back after the deletion was finalized is
   removed as well. *)
Nothing == db = {} /\ \A n \in Namespaces : ns[n] = "absent"
LeavesNothing == <>[](calm /\ row.deleted => Nothing)
=============================================================================
