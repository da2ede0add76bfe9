--------------------------- MODULE ServiceAccounts ---------------------------
(***************************************************************************)
(* Service accounts of one gateway: the reservation rows that the API      *)
(* keeps (internal/serviceaccounts/service.go, recovery.go, and the        *)
(* per-account half of gateway_recovery.go), the provisioner's lifecycle   *)
(* job for each account (internal/serviceaccountkeycloak and               *)
(* out/keycloak), and the Keycloak clients themselves.                     *)
(*                                                                         *)
(* A worker is one request handler or one sweep worker of any API replica. *)
(* Each database transaction is one action; a transaction that calls the   *)
(* provider is two actions, and the worker holds the gateway row lock      *)
(* between them.  The provisioner runs one lifecycle job per account at a  *)
(* time (its in-process gate), keeps running when its caller gives up, and *)
(* journals through transactions that do not take the gateway lock.  A     *)
(* request to Keycloak is sent by one action and lands by another, so it   *)
(* may land after the caller, the job and the process that sent it ended.  *)
(***************************************************************************)
EXTENDS Integers, FiniteSets

CONSTANTS
    Accounts,      \* account IDs that may be allocated
    Users,         \* users that may hold a grant on the gateway
    Handlers,      \* concurrent request handlers
    Sweepers,      \* concurrent workers of the recovery sweep
    PerCreator,    \* Limits.PerCreator
    PerGateway,    \* Limits.PerGateway
    MaxFaults,     \* bound: failures, lost replies and crashes in a behaviour
    None           \* no account, no worker

Workers == Handlers \cup Sweepers

ASSUME QuotaAssumption ==
    /\ PerCreator \in Nat \ {0}
    /\ PerGateway \in Nat \ {0}
    /\ PerCreator <= PerGateway

ASSUME BoundAssumption == MaxFaults \in Nat

ASSUME NoneAssumption == None \notin Accounts \cup Workers

ASSUME WorkerAssumption == Handlers \cap Sweepers = {}

ASSUME UserAssumption == Users # {}

VARIABLES
    gatewayDeleted,  \* the gateway row is soft deleted
    access,          \* access[u]: the strongest grant of u on the gateway
    row,             \* row[a]: the ServiceAccount row
    journal,         \* journal[a]: the sealed lifecycle record
    made,            \* made[a]: progress of the one create request of a
    client,          \* client[a]: the Keycloak client
    sent,            \* sent[a]: roles of enable requests still in flight
    late,            \* accounts with a disable request still in flight that its
                     \* job gave up
    cut,             \* history: accounts that such a request disabled, and that
                     \* no enable request has reached since
    job,             \* job[a]: the provisioner's running lifecycle call
    worker,          \* worker[w]: control state of w
    delivered,       \* accounts whose secret was returned to the creator
    faults           \* faults so far

provider == <<journal, made, client, sent, late, cut>>
vars == <<gatewayDeleted, access, row, journal, made, client, sent, late,
          cut, job, worker, delivered, faults>>

Roles == {"user", "admin"}
Grants == {"none", "viewer", "owner"}
Statuses == {"absent", "provisioning", "ready", "degraded", "revoking",
             "revoked", "expired", "error", "deleting"}
\* Now before created_time + ReclaimAfter, before expires_at, or past it.
\* MinimumExpiration (1h) exceeds ReclaimAfter (15m), so the order is total.
Ages == {"young", "old", "expired"}

Row == [status: Statuses, role: Roles, creator: Users, active: BOOLEAN,
        deleted: BOOLEAN, age: Ages]
Job == [kind: {"idle", "provision", "abort", "reconcile", "close"},
        role: Roles, by: Workers \cup {None}, tried: BOOLEAN,
        result: {"running", "ok", "failed"}]
PCs == {"idle", "reserved", "provisioning", "undo", "recover", "enforce",
        "reconciling", "closing", "purging"}
Worker == [pc: PCs, acct: Accounts \cup {None}]

Idle == [pc |-> "idle", acct |-> None]
NoJob == [kind |-> "idle", role |-> "user", by |-> None, tried |-> FALSE,
          result |-> "running"]
AbsentRow == [status |-> "absent", role |-> "user",
              creator |-> CHOOSE u \in Users : TRUE,
              active |-> FALSE, deleted |-> FALSE, age |-> "young"]

-----------------------------------------------------------------------------
\* What the code reads

Exists(a) == row[a].status # "absent" /\ ~row[a].deleted

\* allowed
Allowed(grant, role) ==
    \/ grant # "none" /\ role = "user"
    \/ grant = "owner" /\ role = "admin"

\* The gateway row lock: a worker holds it across its provider call.
Holding == {"provisioning", "reconciling", "closing"}
Unlocked == \A w \in Workers : worker[w].pc \notin Holding

\* locked: the row lock of a live gateway.
Locks == ~gatewayDeleted /\ Unlocked

ActiveOf(u) == {a \in Accounts : row[a].active /\ row[a].creator = u}
ActiveAll == {a \in Accounts : row[a].active}

\* checkAccountProviderState with cleanup = false
JournalAdmits(a) ==
    /\ ~gatewayDeleted
    /\ Exists(a)
    /\ row[a].status \in {"provisioning", "ready", "degraded"}

\* A row whose quota slot and active name are given up
Released(r, s, d) == [r EXCEPT !.active = FALSE, !.deleted = d, !.status = s]
SetStatus(a, s) == row' = [row EXCEPT ![a].status = s]
Goto(w, p) == worker' = [worker EXCEPT ![w].pc = p]
Rest(w) == worker' = [worker EXCEPT ![w] = Idle]
Fault == faults < MaxFaults /\ faults' = faults + 1
At(w, p, a) == worker[w].pc = p /\ worker[w].acct = a

\* beginClientLifecycle: the job starts only when the account's gate is free.
StartJob(a, k, r, w) ==
    /\ job[a].kind = "idle"
    /\ job' = [job EXCEPT ![a] =
                 [kind |-> k, role |-> r, by |-> w, tried |-> FALSE,
                  result |-> "running"]]
EndJob(a) == job' = [job EXCEPT ![a] = NoJob]
\* The caller stops waiting.  A finished job frees the gate; a running one
\* goes on without a caller.
LeaveJob(a) ==
    job' = [job EXCEPT ![a] = IF @.result = "running" THEN [@ EXCEPT !.by = None]
                                                      ELSE NoJob]
Answered(a, w, kinds, result) ==
    job[a].by = w /\ job[a].kind \in kinds /\ job[a].result = result

-----------------------------------------------------------------------------
\* Rows of earlier versions may be degraded with the higher role still stored.
LegacyRow(u) == [status |-> "degraded", role |-> "admin", creator |-> u,
                 active |-> TRUE, deleted |-> FALSE, age |-> "old"]

Init ==
    /\ gatewayDeleted = FALSE
    /\ access \in [Users -> Grants]
    /\ \E legacy \in SUBSET Accounts, u \in Users :
          /\ Cardinality(legacy) <= PerCreator
          /\ row = [a \in Accounts |->
                      IF a \in legacy THEN LegacyRow(u) ELSE AbsentRow]
          /\ journal = [a \in Accounts |-> IF a \in legacy THEN "open" ELSE "none"]
          /\ made = [a \in Accounts |-> IF a \in legacy THEN "yes" ELSE "no"]
          /\ client = [a \in Accounts |-> IF a \in legacy THEN "admin" ELSE "absent"]
          /\ delivered = legacy
    /\ sent = [a \in Accounts |-> {}] /\ late = {} /\ cut = {}
    /\ job = [a \in Accounts |-> NoJob]
    /\ worker = [w \in Workers |-> Idle]
    /\ faults = 0

-----------------------------------------------------------------------------
\* Create

\* First transaction: quotas are counted and the reservation is inserted
\* under the gateway lock; the row carries the stable IDs from here on.
Reserve(w, u, a, r) ==
    /\ worker[w] = Idle /\ w \in Handlers
    /\ Locks
    /\ Allowed(access[u], r)
    /\ Cardinality(ActiveOf(u)) < PerCreator
    /\ Cardinality(ActiveAll) < PerGateway
    /\ row[a].status = "absent"
    /\ row' = [row EXCEPT ![a] = [status |-> "provisioning", role |-> r,
                 creator |-> u, active |-> TRUE, deleted |-> FALSE,
                 age |-> "young"]]
    /\ worker' = [worker EXCEPT ![w] = [pc |-> "reserved", acct |-> a]]
    /\ UNCHANGED <<gatewayDeleted, access, provider, job, delivered, faults>>

\* Second transaction, up to the provider call.
CallProvision(w, a) ==
    /\ At(w, "reserved", a)
    /\ Locks /\ Exists(a) /\ row[a].status = "provisioning"
    /\ Allowed(access[row[a].creator], row[a].role)
    /\ StartJob(a, "provision", row[a].role, w)
    /\ Goto(w, "provisioning")
    /\ UNCHANGED <<gatewayDeleted, access, row, provider, delivered, faults>>

\* Second transaction when the creator lost the grant, or the gateway stopped
\* being ready (an observation this module leaves open): failCreation commits.
CreateDenied(w, a) ==
    /\ At(w, "reserved", a)
    /\ Locks /\ Exists(a) /\ row[a].status = "provisioning"
    /\ \/ ~Allowed(access[row[a].creator], row[a].role) /\ UNCHANGED faults
       \/ Fault
    /\ SetStatus(a, "error")
    /\ Goto(w, "undo")
    /\ UNCHANGED <<gatewayDeleted, access, provider, job, delivered>>

\* Second transaction when the row is gone, has left provisioning, or the
\* gateway is deleted: an error without a write.
CreateBusy(w, a) ==
    /\ At(w, "reserved", a)
    /\ \/ gatewayDeleted
       \/ Locks /\ (~Exists(a) \/ row[a].status # "provisioning")
    /\ Goto(w, "undo")
    /\ UNCHANGED <<gatewayDeleted, access, row, provider, job, delivered, faults>>

\* Mutant: the provider's error is ignored.
CreateDeliversAnyway(w, a) ==
    /\ At(w, "provisioning", a)
    /\ job[a].by = w /\ job[a].result # "running"
    /\ Allowed(access[row[a].creator], row[a].role)
    /\ SetStatus(a, "ready")
    /\ delivered' = delivered \cup {a}
    /\ EndJob(a)
    /\ Rest(w)
    /\ UNCHANGED <<gatewayDeleted, access, provider, faults>>

\* The provider answered, access is read again, the row becomes ready, the
\* commit is confirmed and the secret is returned.
CreateDelivers(w, a) ==
    /\ At(w, "provisioning", a)
    /\ Answered(a, w, {"provision"}, "ok")
    /\ Allowed(access[row[a].creator], row[a].role)
    /\ SetStatus(a, "ready")
    /\ delivered' = delivered \cup {a}
    /\ EndJob(a)
    /\ Rest(w)
    /\ UNCHANGED <<gatewayDeleted, access, provider, faults>>

\* Mutant: the secret is returned with the error.
CreateCommitLostDelivers(w, a) ==
    /\ At(w, "provisioning", a)
    /\ Answered(a, w, {"provision"}, "ok")
    /\ Fault
    /\ SetStatus(a, "ready")
    /\ delivered' = delivered \cup {a}
    /\ EndJob(a)
    /\ Goto(w, "undo")
    /\ UNCHANGED <<gatewayDeleted, access, provider>>

\* The same commit, but its result is lost: the caller sees an error.
CreateCommitLost(w, a) ==
    /\ At(w, "provisioning", a)
    /\ Answered(a, w, {"provision"}, "ok")
    /\ Fault
    /\ SetStatus(a, "ready")
    /\ EndJob(a)
    /\ Goto(w, "undo")
    /\ UNCHANGED <<gatewayDeleted, access, provider, delivered>>

\* The provider call failed, or the five seconds passed: failCreation commits.
CreateFails(w, a) ==
    /\ At(w, "provisioning", a)
    /\ \/ job[a].result = "failed" /\ UNCHANGED faults
       \/ Fault
    /\ SetStatus(a, "error")
    /\ LeaveJob(a)
    /\ Goto(w, "undo")
    /\ UNCHANGED <<gatewayDeleted, access, provider, delivered>>

\* The transaction is rolled back whatever the provider did.
CreateRolledBack(w, a) ==
    /\ At(w, "provisioning", a)
    /\ Fault
    /\ LeaveJob(a)
    /\ Goto(w, "undo")
    /\ UNCHANGED <<gatewayDeleted, access, row, provider, delivered>>

\* Compensation: a credential that was not delivered is withdrawn, then the
\* row goes through Recover.  Errors of this transaction are ignored.
Undo(w, a) ==
    /\ At(w, "undo", a)
    /\ \/ /\ Locks /\ Exists(a) /\ row[a].status \in {"provisioning", "ready"}
          /\ SetStatus(a, "error")
          /\ UNCHANGED faults
       \/ /\ \/ gatewayDeleted
             \/ Locks /\ (~Exists(a) \/ row[a].status \notin {"provisioning", "ready"})
          /\ UNCHANGED <<row, faults>>
       \/ Fault /\ UNCHANGED row
    /\ Goto(w, "recover")
    /\ UNCHANGED <<gatewayDeleted, access, provider, job, delivered>>

-----------------------------------------------------------------------------
\* Change: revoke (remove = FALSE) or delete (remove = TRUE)

\* Mutant: a revocation is accepted for a row that is being deleted.
ChangeForgetsDeletion(w, u, a, remove) ==
    /\ worker[w] = Idle /\ w \in Handlers
    /\ Locks /\ Exists(a)
    /\ \/ access[u] = "owner"
       \/ access[u] = "viewer" /\ row[a].creator = u
    /\ ~(row[a].status = "provisioning" /\ row[a].age = "young")
    /\ SetStatus(a, IF remove THEN "deleting" ELSE "revoking")
    /\ worker' = [worker EXCEPT ![w] = [pc |-> "recover", acct |-> a]]
    /\ UNCHANGED <<gatewayDeleted, access, provider, job, delivered, faults>>

Change(w, u, a, remove) ==
    /\ worker[w] = Idle /\ w \in Handlers
    /\ Locks /\ Exists(a)
    /\ \/ access[u] = "owner"
       \/ access[u] = "viewer" /\ row[a].creator = u
    /\ ~(row[a].status = "provisioning" /\ row[a].age = "young")
    /\ remove \/ row[a].status # "deleting"
    /\ IF ~remove /\ row[a].status \in {"revoked", "expired"}
         THEN UNCHANGED row
         ELSE SetStatus(a, IF remove THEN "deleting" ELSE "revoking")
    /\ worker' = [worker EXCEPT ![w] = [pc |-> "recover", acct |-> a]]
    /\ UNCHANGED <<gatewayDeleted, access, provider, job, delivered, faults>>

-----------------------------------------------------------------------------
\* Recover

\* Mutants: a status group is missing from Run.
SweepSkips(w, a, statuses) ==
    /\ worker[w] = Idle /\ w \in Sweepers
    /\ Exists(a) /\ row[a].status \notin statuses
    /\ ~(row[a].status = "provisioning" /\ row[a].age = "young")
    /\ worker' = [worker EXCEPT ![w] = [pc |-> "recover", acct |-> a]]
    /\ UNCHANGED <<gatewayDeleted, access, row, provider, job, delivered, faults>>
SweepSkipsProvisioning(w, a) == SweepSkips(w, a, {"provisioning"})
SweepSkipsRevoked(w, a) == SweepSkips(w, a, {"revoked", "expired"})
SweepSkipsDrift(w, a) == SweepSkips(w, a, {"ready"})

\* recoverTask for a live row.  The streams cover every status; the
\* provisioning stream selects only rows older than ReclaimAfter.
SweepRow(w, a) ==
    /\ worker[w] = Idle /\ w \in Sweepers
    /\ Exists(a)
    /\ ~(row[a].status = "provisioning" /\ row[a].age = "young")
    /\ worker' = [worker EXCEPT ![w] = [pc |-> "recover", acct |-> a]]
    /\ UNCHANGED <<gatewayDeleted, access, row, provider, job, delivered, faults>>

\* First transaction: pending state is stored before any external action.
RecoverMark(w, a) ==
    /\ At(w, "recover", a)
    /\ \/ /\ Locks /\ Exists(a) /\ row[a].status = "ready"
          /\ access[row[a].creator] = "none" \/ row[a].age = "expired"
          /\ SetStatus(a, "revoking")
          /\ Goto(w, "enforce")
       \/ /\ Locks /\ Exists(a) /\ row[a].status = "ready"
          /\ row[a].role = "admin" /\ access[row[a].creator] = "viewer"
          /\ row[a].age # "expired"
          /\ row' = [row EXCEPT ![a].status = "degraded", ![a].role = "user"]
          /\ Goto(w, "enforce")
       \/ /\ Locks /\ Exists(a) /\ row[a].status = "degraded"
          /\ row' = [row EXCEPT ![a].role = "user"]
          /\ Goto(w, "enforce")
       \/ /\ Locks /\ Exists(a) /\ row[a].status \notin {"ready", "degraded"}
          /\ UNCHANGED row
          /\ Goto(w, "enforce")
       \/ /\ \/ gatewayDeleted
             \/ Locks /\ ~Exists(a)
             \/ /\ Locks /\ Exists(a) /\ row[a].status = "ready"
                /\ Allowed(access[row[a].creator], row[a].role)
                /\ row[a].age # "expired"
          /\ UNCHANGED row
          /\ Rest(w)
    /\ UNCHANGED <<gatewayDeleted, access, provider, job, delivered, faults>>

Removes(a) == row[a].status \in {"error", "deleting", "provisioning"}
Keeps(a) ==
    row[a].status = "degraded" /\ access[row[a].creator] # "none" /\ row[a].age # "expired"

\* Second transaction: nothing to do, or not yet.
EnforceNothing(w, a) ==
    /\ At(w, "enforce", a)
    /\ \/ gatewayDeleted
       \/ Locks /\ \/ ~Exists(a)
                   \/ row[a].status = "ready"
                   \/ row[a].status = "provisioning" /\ row[a].age = "young"
    /\ Rest(w)
    /\ UNCHANGED <<gatewayDeleted, access, row, provider, job, delivered, faults>>

\* Second transaction of a degraded row whose creator still has access.
CallReconcile(w, a) ==
    /\ At(w, "enforce", a)
    /\ Locks /\ Exists(a) /\ Keeps(a)
    /\ StartJob(a, "reconcile",
                IF access[row[a].creator] = "owner" THEN row[a].role ELSE "user", w)
    /\ Goto(w, "reconciling")
    /\ UNCHANGED <<gatewayDeleted, access, row, provider, delivered, faults>>

ReconcileDone(w, a) ==
    /\ At(w, "reconciling", a)
    /\ Answered(a, w, {"reconcile"}, "ok")
    /\ row' = [row EXCEPT ![a].status = "ready", ![a].role = job[a].role]
    /\ EndJob(a)
    /\ Rest(w)
    /\ UNCHANGED <<gatewayDeleted, access, provider, delivered, faults>>

\* A failed reduction must not keep the old credential: commit the
\* revocation, then recurse.  The first disjunct never reached the provider
\* (no OIDC connection).
ReconcileFails(w, a) ==
    /\ \/ At(w, "enforce", a) /\ Locks /\ Exists(a) /\ Keeps(a) /\ Fault
          /\ UNCHANGED job
       \/ At(w, "reconciling", a) /\ job[a].result = "failed" /\ LeaveJob(a)
          /\ UNCHANGED faults
       \/ At(w, "reconciling", a) /\ Fault /\ LeaveJob(a)
    /\ SetStatus(a, "revoking")
    /\ Goto(w, "recover")
    /\ UNCHANGED <<gatewayDeleted, access, provider, delivered>>

\* Second transaction of every other state: Delete, or Revoke, which
\* rpcProvisioner also sends as a deletion.
CallClose(w, a) ==
    /\ At(w, "enforce", a)
    /\ Locks /\ Exists(a)
    /\ \/ row[a].status \in {"error", "deleting", "revoking", "revoked", "expired"}
       \/ row[a].status = "provisioning" /\ row[a].age # "young"
       \/ row[a].status = "degraded" /\ ~Keeps(a)
    /\ StartJob(a, "close", "user", w)
    /\ Goto(w, "closing")
    /\ UNCHANGED <<gatewayDeleted, access, row, provider, delivered, faults>>

\* The provider confirmed the deletion: the slot is released.
CloseDone(w, a) ==
    /\ At(w, "closing", a)
    /\ Answered(a, w, {"close"}, "ok")
    /\ row' = [row EXCEPT ![a] =
                 Released(row[a], IF Removes(a) THEN row[a].status
                                  ELSE IF row[a].age = "expired" THEN "expired"
                                  ELSE "revoked", Removes(a))]
    /\ EndJob(a)
    /\ Rest(w)
    /\ UNCHANGED <<gatewayDeleted, access, provider, delivered, faults>>

CloseFails(w, a) ==
    /\ worker[w].pc \in {"closing", "purging"} /\ worker[w].acct = a
    /\ Answered(a, w, {"close"}, "failed")
    /\ EndJob(a)
    /\ Rest(w)
    /\ UNCHANGED <<gatewayDeleted, access, row, provider, delivered, faults>>

\* A worker dies, or an error ends its request: its transaction is rolled back.
Abandon(w) ==
    /\ worker[w] # Idle
    /\ Fault
    /\ IF worker[w].pc \in Holding \cup {"purging"}
         THEN LeaveJob(worker[w].acct) ELSE UNCHANGED job
    /\ Rest(w)
    /\ UNCHANGED <<gatewayDeleted, access, row, provider, delivered>>

-----------------------------------------------------------------------------
\* Deleted rows, and rows and journals of a deleted gateway, without its lock

Purgeable(a) ==
    \/ gatewayDeleted /\ (row[a].status # "absent" \/ journal[a] # "none")
    \/ ~gatewayDeleted /\ row[a].deleted /\ Removes(a)

\* recoverTask for a deleted row; RecoverGatewayCleanup's visit of one account
CallPurge(w, a) ==
    /\ worker[w] = Idle /\ w \in Sweepers
    /\ Purgeable(a)
    /\ StartJob(a, "close", "user", w)
    /\ worker' = [worker EXCEPT ![w] = [pc |-> "purging", acct |-> a]]
    /\ UNCHANGED <<gatewayDeleted, access, row, provider, delivered, faults>>

\* cleanupGatewayAccount after the provider confirmed; a row that is already
\* deleted is left alone.
PurgeDone(w, a) ==
    /\ At(w, "purging", a)
    /\ Answered(a, w, {"close"}, "ok")
    /\ row' = [row EXCEPT ![a] =
                 IF Exists(a) THEN Released(row[a], "deleting", TRUE) ELSE row[a]]
    /\ EndJob(a)
    /\ Rest(w)
    /\ UNCHANGED <<gatewayDeleted, access, provider, delivered, faults>>

-----------------------------------------------------------------------------
\* The provisioner: one lifecycle job per account

Running(a, kinds) == job[a].kind \in kinds /\ job[a].result = "running"
Finish(a, result) ==
    job' = [job EXCEPT ![a] = IF @.by = None THEN NoJob ELSE [@ EXCEPT !.result = result]]

\* prepare: the allocated ID is saved before the create request.
JobJournal(a) ==
    /\ Running(a, {"provision"})
    /\ journal[a] = "none" /\ JournalAdmits(a)
    /\ journal' = [journal EXCEPT ![a] = "open"]
    /\ UNCHANGED <<gatewayDeleted, access, row, made, client, sent, late, cut, job,
                   worker, delivered, faults>>

JobCreate(a) ==
    /\ Running(a, {"provision"})
    /\ journal[a] = "open" /\ made[a] = "no"
    /\ made' = [made EXCEPT ![a] = "sent"]
    /\ UNCHANGED <<gatewayDeleted, access, row, journal, client, sent, late, cut, job,
                   worker, delivered, faults>>

\* The create was acknowledged.  A provisioning job saves the bound record and
\* the subject, each a checked journal write; then, once per job, access is
\* repaired while the client is disabled and the enable request is sent.
JobEnable(a) ==
    /\ Running(a, {"provision", "reconcile"}) /\ ~job[a].tried
    /\ journal[a] = "open" /\ made[a] = "yes"
    /\ job[a].kind = "provision" => JournalAdmits(a)
    /\ client[a] \notin {"absent", job[a].role}
    /\ client' = [client EXCEPT ![a] = "disabled"]
    /\ sent' = [sent EXCEPT ![a] = @ \cup {job[a].role}]
    /\ job' = [job EXCEPT ![a].tried = TRUE]
    /\ UNCHANGED <<gatewayDeleted, access, row, journal, made, late, cut, worker,
                   delivered, faults>>

\* Mutant: a client with some role counts as repaired.
JobSucceedsAnyRole(a) ==
    /\ Running(a, {"provision", "reconcile"})
    /\ journal[a] = "open" /\ client[a] \in Roles
    /\ Finish(a, "ok")
    /\ UNCHANGED <<gatewayDeleted, access, row, provider, worker, delivered, faults>>

JobSucceeds(a) ==
    /\ Running(a, {"provision", "reconcile"})
    /\ journal[a] = "open" /\ client[a] = job[a].role
    /\ Finish(a, "ok")
    /\ UNCHANGED <<gatewayDeleted, access, row, provider, worker, delivered, faults>>

\* A refused journal write, a closed record, a cancelled call, an enable request
\* that the last inspection does not confirm, or a fault ends the job.  A failed
\* access repair disables an enabled client, and so does the repair itself
\* before it begins: each such request is refused, answered, or given up after
\* its time.  A failed provision then closes the account.  The closing call
\* passes the gate again; here the job keeps it, or dies.  A closing call that
\* passes it later repeats what the job in between did.
Unconfirmed(a) ==
    job[a].tried /\ job[a].role \notin sent[a] /\ client[a] # job[a].role

DisablesClient(a) ==
    /\ job[a].kind \in {"provision", "reconcile"} /\ client[a] \in Roles
    /\ LET disabled == [client EXCEPT ![a] = "disabled"]
       IN  \/ client' = disabled /\ UNCHANGED late
           \/ client' \in {client, disabled} /\ late' = late \cup {a}

JobFails(a) ==
    /\ Running(a, {"provision", "abort", "reconcile", "close"})
    /\ \/ (job[a].by = None \/ Unconfirmed(a)) /\ UNCHANGED faults
       \/ /\ job[a].kind = "provision" /\ UNCHANGED faults
          /\ journal[a] = "closed" \/ ~JournalAdmits(a)
       \/ /\ job[a].kind = "reconcile" /\ UNCHANGED faults
          /\ journal[a] # "open" \/ made[a] # "yes" \/ client[a] = "absent"
       \/ Fault
    /\ IF job[a].kind = "provision"
         THEN job' = [job EXCEPT ![a].kind = "abort"]
         ELSE Finish(a, "failed")
    /\ UNCHANGED <<client, late>> \/ DisablesClient(a)
    /\ UNCHANGED <<gatewayDeleted, access, row, journal, made, sent, cut, worker,
                   delivered>>

\* prepareClose: irreversible intent is saved before the deletion.
JobClose(a) ==
    /\ Running(a, {"close", "abort"})
    /\ journal[a] # "closed"
    /\ journal' = [journal EXCEPT ![a] = "closed"]
    /\ UNCHANGED <<gatewayDeleted, access, row, made, client, sent, late, cut, job,
                   worker, delivered, faults>>

\* Mutant: the client is disabled instead of deleted.
JobDeleteDisables(a) ==
    /\ Running(a, {"close", "abort"})
    /\ journal[a] = "closed"
    /\ client' = [client EXCEPT ![a] = IF @ = "absent" THEN @ ELSE "disabled"]
    /\ Finish(a, IF job[a].kind = "abort" THEN "failed" ELSE "ok")
    /\ UNCHANGED <<gatewayDeleted, access, row, journal, made, sent, late, cut,
                   worker, delivered, faults>>

\* DeleteClient: absence of the saved ID is confirmed.
JobDelete(a) ==
    /\ Running(a, {"close", "abort"})
    /\ journal[a] = "closed"
    /\ client' = [client EXCEPT ![a] = "absent"]
    /\ Finish(a, IF job[a].kind = "abort" THEN "failed" ELSE "ok")
    /\ UNCHANGED <<gatewayDeleted, access, row, journal, made, sent, late, cut,
                   worker, delivered, faults>>

\* Keycloak applies a request, at any later time.
CreateLands(a) ==
    /\ made[a] = "sent"
    /\ made' = [made EXCEPT ![a] = "yes"]
    /\ client' = [client EXCEPT ![a] = "disabled"]
    /\ UNCHANGED <<gatewayDeleted, access, row, journal, sent, late, cut, job,
                   worker, delivered, faults>>

EnableLands(a, r) ==
    /\ r \in sent[a]
    /\ sent' = [sent EXCEPT ![a] = @ \ {r}]
    /\ client' = [client EXCEPT ![a] = IF @ = "absent" THEN @ ELSE r]
    /\ cut' = cut \ {a}
    /\ UNCHANGED <<gatewayDeleted, access, row, journal, made, late, job, worker,
                   delivered, faults>>

DisableLands(a) ==
    /\ a \in late
    /\ late' = late \ {a}
    /\ IF client[a] \in Roles
         THEN client' = [client EXCEPT ![a] = "disabled"] /\ cut' = cut \cup {a}
         ELSE UNCHANGED <<client, cut>>
    /\ UNCHANGED <<gatewayDeleted, access, row, journal, made, sent, job, worker,
                   delivered, faults>>

-----------------------------------------------------------------------------
\* The rest of the system

\* CreateGrant and DeleteGrant, under the gateway lock
ChangeGrant(u, g) ==
    /\ Locks /\ access[u] # g
    /\ access' = [access EXCEPT ![u] = g]
    /\ UNCHANGED <<gatewayDeleted, row, provider, job, worker, delivered, faults>>

\* gateways.Service.Delete: the update waits for the row lock.
DeleteGateway ==
    /\ Locks
    /\ gatewayDeleted' = TRUE
    /\ UNCHANGED <<access, row, provider, job, worker, delivered, faults>>

Tick(a) ==
    /\ Exists(a) /\ row[a].age # "expired"
    /\ row' = [row EXCEPT ![a].age = IF @ = "young" THEN "old" ELSE "expired"]
    /\ UNCHANGED <<gatewayDeleted, access, provider, job, worker, delivered, faults>>

Create(w) ==
    \/ \E u \in Users, a \in Accounts, r \in Roles : Reserve(w, u, a, r)
    \/ \E a \in Accounts :
          \/ CallProvision(w, a)
          \/ CreateDenied(w, a)
          \/ CreateBusy(w, a)
          \/ CreateDelivers(w, a)
          \/ CreateCommitLost(w, a)
          \/ CreateFails(w, a)
          \/ CreateRolledBack(w, a)
          \/ Undo(w, a)

Recover(w, a) ==
    \/ RecoverMark(w, a)
    \/ EnforceNothing(w, a)
    \/ CallReconcile(w, a)
    \/ ReconcileDone(w, a)
    \/ ReconcileFails(w, a)
    \/ CallClose(w, a)
    \/ CloseDone(w, a)
    \/ CloseFails(w, a)
    \/ PurgeDone(w, a)

Provisioner(a) ==
    \/ JobJournal(a)
    \/ JobCreate(a)
    \/ JobEnable(a)
    \/ JobSucceeds(a)
    \/ JobFails(a)
    \/ JobClose(a)
    \/ JobDelete(a)
    \/ CreateLands(a)
    \/ \E r \in Roles : EnableLands(a, r)
    \/ DisableLands(a)

Next ==
    \/ \E w \in Workers :
          \/ Create(w)
          \/ \E u \in Users, a \in Accounts, b \in BOOLEAN : Change(w, u, a, b)
          \/ \E a \in Accounts : SweepRow(w, a) \/ Recover(w, a) \/ CallPurge(w, a)
          \/ Abandon(w)
    \/ \E a \in Accounts : Provisioner(a) \/ Tick(a)
    \/ \E u \in Users, g \in Grants : ChangeGrant(u, g)
    \/ DeleteGateway

Spec == Init /\ [][Next]_vars

-----------------------------------------------------------------------------
\* Properties

TypeOK ==
    /\ gatewayDeleted \in BOOLEAN
    /\ access \in [Users -> Grants]
    /\ row \in [Accounts -> Row]
    /\ journal \in [Accounts -> {"none", "open", "closed"}]
    /\ made \in [Accounts -> {"no", "sent", "yes"}]
    /\ client \in [Accounts -> {"absent", "disabled"} \cup Roles]
    /\ sent \in [Accounts -> SUBSET Roles]
    /\ late \in SUBSET Accounts /\ cut \in SUBSET Accounts
    /\ job \in [Accounts -> Job]
    /\ worker \in [Workers -> Worker]
    /\ delivered \in SUBSET Accounts
    /\ faults \in 0 .. MaxFaults

Enabled(a) == client[a] \in Roles

\* Once Recover or gateway cleanup has released an account's quota slot (its
\* row is revoked, expired or deleted), its Keycloak client is never enabled
\* again: not by a delayed enable request, an abandoned provisioner job, a
\* delayed create, or a second worker's call.
NoAccessAfterClosure ==
    \A a \in Accounts : ~row[a].active => ~Enabled(a)

\* When the API reports an account ready with the user role, the client does
\* not hold the admin role and no request still in flight can give it back.
RoleCeiling ==
    \A a \in Accounts :
        row[a].status = "ready" /\ row[a].role = "user" =>
            client[a] # "admin" /\ "admin" \notin sent[a]

\* A secret is returned only for a reservation that was committed ready, and
\* compensation never withdraws an account whose secret was returned.
DeliveredIsCommitted ==
    \A a \in delivered : row[a].status \notin {"absent", "provisioning", "error"}

\* A ready row of a live gateway has its client, open and enabled, unless a
\* disable request that an earlier job gave up lands late and cuts it off:
\* whatever failed on the way, ready is never committed for a client that could
\* not log in when it was inspected, nothing else disables the client of a ready
\* row, and no cleanup reaches the provider before its intent is committed.
ReadyIsUsable ==
    \A a \in Accounts :
        Exists(a) /\ row[a].status = "ready" /\ ~gatewayDeleted =>
            /\ journal[a] = "open"
            /\ Enabled(a) \/ (client[a] = "disabled" /\ a \in cut)

Terminal(r) ==
    r.deleted \/ r.status \in {"revoking", "revoked", "expired", "error", "deleting"}

RowStep(a) ==
    /\ Terminal(row[a]) => Terminal(row'[a])
    /\ row[a].deleted => row'[a].deleted
    /\ row[a].status = "deleting" => row'[a].status = "deleting"
    /\ row[a].status # "absent" /\ row[a].role = "user" => row'[a].role = "user"

\* Change and Recover never re-enable: terminal intent stays, a deletion is
\* never turned into a revocation, and a role is never raised.
NeverReenabled == [][\A a \in Accounts : RowStep(a)]_vars

-----------------------------------------------------------------------------
\* Liveness

\* A worker that has begun goes on: a blocked lock or gate is released again
\* and again, so it is eventually acquired.  The sweep runs its rounds for
\* ever; the provisioner and Keycloak make progress; fifteen minutes pass.
\* Nothing is assumed of users, of grants, of expiry or of the outcome of a
\* call beyond the bound on faults: an outage ends.
Fairness ==
    /\ \A w \in Workers :
          SF_vars(\E a \in Accounts : (w \in Handlers /\ Create(w) /\ worker[w] # Idle)
                                      \/ Recover(w, a))
    /\ \A w \in Sweepers, a \in Accounts :
          SF_vars(SweepRow(w, a)) /\ SF_vars(CallPurge(w, a))
    /\ \A a \in Accounts :
          /\ WF_vars(Provisioner(a))
          /\ WF_vars(row[a].age = "young" /\ Tick(a))

FairSpec == Spec /\ Fairness

\* A reservation whose request died, and every terminal intent, is carried to
\* its end by the sweep: revoked, expired or deleted.
IntentsSettle ==
    \A a \in Accounts :
        Terminal(row[a]) \/ row[a].status = "provisioning"
          ~> row[a].deleted \/ row[a].status \in {"ready", "revoked", "expired"}

\* Once an account is terminal, its Keycloak client ends absent for good, also
\* when a create request lands after a confirmed deletion.
LateClientsRemoved ==
    \A a \in Accounts :
        <>[]Terminal(row[a]) => <>[](client[a] = "absent")

\* A creator that stays without a grant loses every account's access, and one
\* that stays below owner loses the admin role, without waiting for expiry.
AccessLossEnforced ==
    \A a \in Accounts :
        /\ <>[](access[row[a].creator] = "none") => <>[]~Enabled(a)
        /\ <>[](access[row[a].creator] # "owner") => <>[](client[a] # "admin")

\* The recovery sweep finishes what requests and crashes left behind: intents
\* are carried out, late clients removed, and lost grants enforced.
RecoveryCompletes == IntentsSettle /\ LateClientsRemoved /\ AccessLossEnforced
=============================================================================
