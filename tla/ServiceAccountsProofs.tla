------------------------ MODULE ServiceAccountsProofs ------------------------
(***************************************************************************)
(* Proofs about ServiceAccounts for every set of accounts, users and       *)
(* workers, every quota and every fault bound.                             *)
(***************************************************************************)
EXTENDS ServiceAccounts, TLAPS

\* The provider can no longer give access: the journal is closed and the
\* client is absent, or came back disabled from a late create with no enable
\* request outstanding.  No action leaves this state.
Shut(a) ==
    /\ journal[a] = "closed"
    /\ \/ client[a] = "absent"
       \/ client[a] = "disabled" /\ sent[a] = {}

\* A worker in a request names an account that was reserved.
WorkerInv ==
    \A w \in Workers : worker[w].pc # "idle" =>
        /\ worker[w].acct \in Accounts
        /\ row[worker[w].acct].status # "absent"

\* Nothing exists for an ID that was never reserved.
AbsentInv ==
    \A a \in Accounts : row[a].status = "absent" =>
        /\ ~row[a].active /\ ~row[a].deleted
        /\ journal[a] = "none" /\ made[a] = "no" /\ client[a] = "absent"
        /\ job[a].kind = "idle"

\* Enable requests follow the acknowledged create.
SentInv ==
    \A a \in Accounts : made[a] # "yes" => sent[a] = {}

\* A confirmed deletion, and a released slot, mean the provider is shut.
ClosedInv ==
    \A a \in Accounts :
        /\ job[a].kind = "close" /\ job[a].result = "ok" => Shut(a)
        /\ ~row[a].active => row[a].status = "absent" \/ Shut(a)

\* At most one worker is inside a provider call of a locked transaction.
LockInv ==
    /\ \A v, w \in Workers :
          worker[v].pc \in Holding /\ worker[w].pc \in Holding => v = w
    /\ \A w \in Workers : worker[w].pc \in Holding =>
          /\ ~gatewayDeleted
          /\ ~row[worker[w].acct].deleted
    /\ \A w \in Workers :
          /\ worker[w].pc = "provisioning" =>
                row[worker[w].acct].status = "provisioning"
          /\ worker[w].pc = "reconciling" =>
                row[worker[w].acct].status = "degraded"
          /\ worker[w].pc = "closing" =>
                row[worker[w].acct].status \notin {"absent", "ready"}
          /\ worker[w].pc = "purging" =>
                gatewayDeleted \/ row[worker[w].acct].deleted

\* Past the first transaction of Recover a degraded row has the lower role,
\* and so has the repair that the second transaction asks for.
RoleInv ==
    \A w \in Workers :
        /\ worker[w].pc \in {"enforce", "reconciling"}
             /\ row[worker[w].acct].status = "degraded" =>
                row[worker[w].acct].role = "user"
        /\ worker[w].pc = "reconciling" =>
                LET j == job[worker[w].acct]
                IN  j.kind = "reconcile" /\ j.by = w => j.role = "user"

\* One request creates an account, and has not returned its secret before it
\* ends.
CreatePCs == {"reserved", "provisioning", "undo"}
CreateInv ==
    /\ \A v, w \in Workers :
          worker[v].pc \in CreatePCs /\ worker[w].pc \in CreatePCs
             /\ worker[v].acct = worker[w].acct => v = w
    /\ \A w \in Workers : worker[w].pc \in CreatePCs => worker[w].acct \notin delivered

IInv ==
    /\ TypeOK /\ WorkerInv /\ AbsentInv /\ SentInv /\ ClosedInv /\ LockInv
    /\ RoleInv /\ CreateInv /\ DeliveredIsCommitted
-----------------------------------------------------------------------------
\* What the operators that write one field leave behind.  Records are opened
\* here once; the proofs about actions cite these facts.

LEMMA SetStatusFacts ==
  ASSUME TypeOK, NEW a \in Accounts, NEW s \in Statuses, SetStatus(a, s)
  PROVE  /\ row' \in [Accounts -> Row]
         /\ row'[a].status = s
         /\ row'[a].role = row[a].role
         /\ row'[a].active = row[a].active
         /\ row'[a].deleted = row[a].deleted
         /\ \A x \in Accounts : x # a => row'[x] = row[x]
BY DEF TypeOK, Row, SetStatus

LEMMA GotoFacts ==
  ASSUME TypeOK, NEW w \in Workers, NEW p \in PCs, Goto(w, p)
  PROVE  /\ worker' \in [Workers -> Worker]
         /\ worker'[w].pc = p
         /\ worker'[w].acct = worker[w].acct
         /\ \A x \in Workers : x # w => worker'[x] = worker[x]
BY DEF TypeOK, Worker, Goto

LEMMA RestFacts ==
  ASSUME TypeOK, NEW w \in Workers, Rest(w)
  PROVE  /\ worker' \in [Workers -> Worker]
         /\ worker'[w].pc = "idle"
         /\ \A x \in Workers : x # w => worker'[x] = worker[x]
BY DEF TypeOK, Worker, Rest, Idle, PCs

LEMMA StartJobFacts ==
  ASSUME TypeOK, NEW a \in Accounts, NEW w \in Workers, NEW r \in Roles,
         NEW k \in {"provision", "reconcile", "close"}, StartJob(a, k, r, w)
  PROVE  /\ job' \in [Accounts -> Job]
         /\ job'[a].kind = k /\ job'[a].role = r /\ job'[a].by = w
         /\ job'[a].result = "running"
         /\ \A x \in Accounts : x # a => job'[x] = job[x]
BY DEF TypeOK, Job, StartJob

LEMMA EndJobFacts ==
  ASSUME TypeOK, NEW a \in Accounts, EndJob(a)
  PROVE  /\ job' \in [Accounts -> Job]
         /\ job'[a].kind = "idle"
         /\ \A x \in Accounts : x # a => job'[x] = job[x]
BY DEF TypeOK, Job, EndJob, NoJob, Roles

LEMMA LeaveJobFacts ==
  ASSUME TypeOK, NEW a \in Accounts, LeaveJob(a)
  PROVE  /\ job' \in [Accounts -> Job]
         /\ \/ job'[a].kind = "idle"
            \/ /\ job'[a].kind = job[a].kind /\ job'[a].by = None
               /\ job'[a].role = job[a].role /\ job'[a].result = "running"
         /\ \A x \in Accounts : x # a => job'[x] = job[x]
<1>1. CASE job[a].result = "running"
  <2>1. job' = [job EXCEPT ![a] = [job[a] EXCEPT !.by = None]]
    BY <1>1 DEF LeaveJob
  <2> QED BY <1>1, <2>1 DEF TypeOK, Job
<1>2. CASE job[a].result # "running"
  <2>1. job' = [job EXCEPT ![a] = NoJob]
    BY <1>2 DEF LeaveJob
  <2> QED BY <2>1 DEF TypeOK, Job, NoJob, Roles
<1> QED BY <1>1, <1>2

LEMMA FinishFacts ==
  ASSUME TypeOK, NEW a \in Accounts, NEW res \in {"ok", "failed"}, Finish(a, res)
  PROVE  /\ job' \in [Accounts -> Job]
         /\ \/ job'[a].kind = "idle"
            \/ /\ job'[a].kind = job[a].kind /\ job'[a].by = job[a].by
               /\ job'[a].role = job[a].role /\ job'[a].result = res
         /\ \A x \in Accounts : x # a => job'[x] = job[x]
<1>1. CASE job[a].by = None
  <2>1. job' = [job EXCEPT ![a] = NoJob]
    BY <1>1 DEF Finish
  <2> QED BY <2>1 DEF TypeOK, Job, NoJob, Roles
<1>2. CASE job[a].by # None
  <2>1. job' = [job EXCEPT ![a] = [job[a] EXCEPT !.result = res]]
    BY <1>2 DEF Finish
  <2> QED BY <2>1 DEF TypeOK, Job
<1> QED BY <1>1, <1>2

LEMMA FaultFacts ==
  ASSUME TypeOK, Fault
  PROVE  faults' \in 0 .. MaxFaults
BY BoundAssumption DEF TypeOK, Fault

LEMMA ReleasedFacts ==
  ASSUME NEW r \in Row, NEW s \in Statuses, NEW d \in BOOLEAN
  PROVE  /\ Released(r, s, d) \in Row
         /\ Released(r, s, d).status = s
         /\ Released(r, s, d).role = r.role
         /\ Released(r, s, d).active = FALSE
         /\ Released(r, s, d).deleted = d
BY DEF Released, Row

\* The remaining writes of a row.
LEMMA RowTypes ==
  ASSUME TypeOK, NEW a \in Accounts
  PROVE  /\ \A u \in Users, r \in Roles :
               [row EXCEPT ![a] = [status |-> "provisioning", role |-> r,
                  creator |-> u, active |-> TRUE, deleted |-> FALSE,
                  age |-> "young"]] \in [Accounts -> Row]
         /\ \A s \in Statuses, r \in Roles :
               [row EXCEPT ![a].status = s, ![a].role = r] \in [Accounts -> Row]
         /\ \A r \in Roles : [row EXCEPT ![a].role = r] \in [Accounts -> Row]
         /\ \A g \in Ages : [row EXCEPT ![a].age = g] \in [Accounts -> Row]
<1> USE DEF TypeOK, Row
<1>1. \A u \in Users, r \in Roles :
               [row EXCEPT ![a] = [status |-> "provisioning", role |-> r,
                  creator |-> u, active |-> TRUE, deleted |-> FALSE,
                  age |-> "young"]] \in [Accounts -> Row]
  BY DEF Statuses, Ages
<1>2. \A s \in Statuses, r \in Roles :
               [row EXCEPT ![a].status = s, ![a].role = r] \in [Accounts -> Row]
  OBVIOUS
<1>3. \A r \in Roles : [row EXCEPT ![a].role = r] \in [Accounts -> Row]
  OBVIOUS
<1>4. \A g \in Ages : [row EXCEPT ![a].age = g] \in [Accounts -> Row]
  OBVIOUS
<1> QED BY <1>1, <1>2, <1>3, <1>4

LEMMA JobEnableFacts ==
  ASSUME TypeOK, NEW a \in Accounts, JobEnable(a)
  PROVE  /\ job' \in [Accounts -> Job]
         /\ \A x \in Accounts :
              /\ job'[x].kind = job[x].kind /\ job'[x].by = job[x].by
              /\ job'[x].role = job[x].role /\ job'[x].result = job[x].result
         /\ \A x \in Accounts : x # a => job'[x] = job[x]
<1>1. job' = [job EXCEPT ![a] = [job[a] EXCEPT !.tried = TRUE]]
  BY Zenon DEF JobEnable
<1>2. job \in [Accounts -> Job]
  BY DEF TypeOK
<1> QED BY <1>1, <1>2 DEF Job

LEMMA DisablesFacts ==
  ASSUME TypeOK, NEW a \in Accounts, DisablesClient(a)
  PROVE  /\ client' \in [Accounts -> {"absent", "disabled"} \cup Roles]
         /\ late' \in SUBSET Accounts
         /\ job[a].kind \in {"provision", "reconcile"} /\ client[a] \in Roles
         /\ client' = client \/ client' = [client EXCEPT ![a] = "disabled"]
<1> DEFINE disabled == [client EXCEPT ![a] = "disabled"]
<1>1. /\ job[a].kind \in {"provision", "reconcile"} /\ client[a] \in Roles
      /\ client' = client \/ client' = disabled
      /\ late' = late \/ late' = late \cup {a}
  BY Zenon DEF DisablesClient
<1>2. disabled \in [Accounts -> {"absent", "disabled"} \cup Roles]
  BY DEF TypeOK
<1> QED BY <1>1, <1>2 DEF TypeOK

LEMMA DisableLandsFacts ==
  ASSUME TypeOK, NEW a \in Accounts, DisableLands(a)
  PROVE  /\ client' \in [Accounts -> {"absent", "disabled"} \cup Roles]
         /\ late' \in SUBSET Accounts /\ cut' \in SUBSET Accounts
         /\ cut \subseteq cut'
         /\ \/ client'[a] = client[a]
            \/ client[a] \in Roles /\ client'[a] = "disabled" /\ a \in cut'
         /\ \A x \in Accounts : x # a => /\ client'[x] = client[x]
                                        /\ x \in cut' <=> x \in cut
BY DEF TypeOK, DisableLands

-----------------------------------------------------------------------------
\* Type correctness

LEMMA TypeInit == Init => TypeOK
<1> SUFFICES ASSUME Init PROVE TypeOK
  OBVIOUS
<1>1. AbsentRow \in Row /\ \A u \in Users : LegacyRow(u) \in Row
  BY UserAssumption DEF AbsentRow, LegacyRow, Row, Statuses, Roles, Ages
<1>2. NoJob \in Job /\ Idle \in Worker
  BY DEF NoJob, Job, Idle, Worker, Roles, PCs
<1>3. \E legacy \in SUBSET Accounts, u \in Users :
          /\ row = [a \in Accounts |-> IF a \in legacy THEN LegacyRow(u) ELSE AbsentRow]
          /\ journal = [a \in Accounts |-> IF a \in legacy THEN "open" ELSE "none"]
          /\ made = [a \in Accounts |-> IF a \in legacy THEN "yes" ELSE "no"]
          /\ client = [a \in Accounts |-> IF a \in legacy THEN "admin" ELSE "absent"]
          /\ delivered = legacy
  BY DEF Init
<1>4. /\ row \in [Accounts -> Row]
      /\ journal \in [Accounts -> {"none", "open", "closed"}]
      /\ made \in [Accounts -> {"no", "sent", "yes"}]
      /\ client \in [Accounts -> {"absent", "disabled"} \cup Roles]
      /\ delivered \in SUBSET Accounts
  BY <1>1, <1>3 DEF Roles
<1>5. /\ gatewayDeleted \in BOOLEAN /\ access \in [Users -> Grants]
      /\ sent \in [Accounts -> SUBSET Roles] /\ job \in [Accounts -> Job]
      /\ late \in SUBSET Accounts /\ cut \in SUBSET Accounts
      /\ worker \in [Workers -> Worker]
  BY <1>2 DEF Init
<1>6. faults \in 0 .. MaxFaults
  BY BoundAssumption DEF Init
<1> QED BY <1>4, <1>5, <1>6 DEF TypeOK

LEMMA TypeNext == TypeOK /\ WorkerInv /\ [Next]_vars => TypeOK'
<1> SUFFICES ASSUME TypeOK, WorkerInv, [Next]_vars PROVE TypeOK'
  OBVIOUS
<1> USE DEF TypeOK, provider
<1>0. CASE UNCHANGED vars
  BY <1>0 DEF vars
<1>1. ASSUME NEW w \in Workers, NEW u \in Users, NEW a \in Accounts, NEW r \in Roles, Reserve(w, u, a, r)
      PROVE  TypeOK'
  BY <1>1, RowTypes DEF Reserve, Worker, PCs
<1>2. ASSUME NEW w \in Workers, NEW a \in Accounts, CallProvision(w, a)
      PROVE  TypeOK'
  BY <1>2, GotoFacts, StartJobFacts DEF CallProvision, Row, PCs
<1>3. ASSUME NEW w \in Workers, NEW a \in Accounts, CreateDenied(w, a)
      PROVE  TypeOK'
  BY <1>3, SetStatusFacts, GotoFacts, FaultFacts DEF CreateDenied, Statuses, PCs
<1>4. ASSUME NEW w \in Workers, NEW a \in Accounts, CreateBusy(w, a)
      PROVE  TypeOK'
  BY <1>4, GotoFacts DEF CreateBusy, PCs
<1>5. ASSUME NEW w \in Workers, NEW a \in Accounts, CreateDelivers(w, a)
      PROVE  TypeOK'
  BY <1>5, SetStatusFacts, EndJobFacts, RestFacts DEF CreateDelivers, Statuses
<1>6. ASSUME NEW w \in Workers, NEW a \in Accounts, CreateCommitLost(w, a)
      PROVE  TypeOK'
  BY <1>6, SetStatusFacts, EndJobFacts, GotoFacts, FaultFacts DEF CreateCommitLost, Statuses, PCs
<1>7. ASSUME NEW w \in Workers, NEW a \in Accounts, CreateFails(w, a)
      PROVE  TypeOK'
  BY <1>7, SetStatusFacts, LeaveJobFacts, GotoFacts, FaultFacts DEF CreateFails, Statuses, PCs
<1>8. ASSUME NEW w \in Workers, NEW a \in Accounts, CreateRolledBack(w, a)
      PROVE  TypeOK'
  BY <1>8, LeaveJobFacts, GotoFacts, FaultFacts DEF CreateRolledBack, PCs
<1>9. ASSUME NEW w \in Workers, NEW a \in Accounts, Undo(w, a)
      PROVE  TypeOK'
  BY <1>9, SetStatusFacts, GotoFacts, FaultFacts DEF Undo, Statuses, PCs
<1>10. ASSUME NEW w \in Workers, NEW u \in Users, NEW a \in Accounts, NEW b \in BOOLEAN, Change(w, u, a, b)
      PROVE  TypeOK'
  BY <1>10, SetStatusFacts DEF Change, Worker, Statuses, PCs
<1>11. ASSUME NEW w \in Workers, NEW a \in Accounts, SweepRow(w, a)
      PROVE  TypeOK'
  BY <1>11 DEF SweepRow, Worker, PCs
<1>12. ASSUME NEW w \in Workers, NEW a \in Accounts, RecoverMark(w, a)
      PROVE  TypeOK'
  <2>1. row' \in [Accounts -> Row]
    <3>1. CASE SetStatus(a, "revoking")
      BY <3>1, SetStatusFacts DEF Statuses
    <3>2. CASE row' = [row EXCEPT ![a].status = "degraded", ![a].role = "user"]
      BY <3>2, RowTypes DEF Statuses, Roles
    <3>3. CASE row' = [row EXCEPT ![a].role = "user"]
      BY <3>3, RowTypes DEF Roles
    <3> QED BY <1>12, <3>1, <3>2, <3>3 DEF RecoverMark
  <2>2. worker' \in [Workers -> Worker]
    <3>1. CASE Goto(w, "enforce")
      BY <3>1, GotoFacts DEF PCs
    <3> QED BY <1>12, <3>1, RestFacts DEF RecoverMark
  <2> QED BY <1>12, <2>1, <2>2 DEF RecoverMark
<1>13. ASSUME NEW w \in Workers, NEW a \in Accounts, EnforceNothing(w, a)
      PROVE  TypeOK'
  BY <1>13, RestFacts DEF EnforceNothing
<1>14. ASSUME NEW w \in Workers, NEW a \in Accounts, CallReconcile(w, a)
      PROVE  TypeOK'
  BY <1>14, StartJobFacts, GotoFacts DEF CallReconcile, Row, Roles, PCs
<1>15. ASSUME NEW w \in Workers, NEW a \in Accounts, ReconcileDone(w, a)
      PROVE  TypeOK'
  <2>1. job[a].role \in Roles
    BY DEF Job
  <2>2. row' \in [Accounts -> Row]
    BY <1>15, <2>1, RowTypes DEF ReconcileDone, Statuses
  <2> QED BY <1>15, <2>2, EndJobFacts, RestFacts DEF ReconcileDone
<1>16. ASSUME NEW w \in Workers, NEW a \in Accounts, ReconcileFails(w, a)
      PROVE  TypeOK'
  BY <1>16, SetStatusFacts, GotoFacts, LeaveJobFacts, FaultFacts DEF ReconcileFails, Statuses, PCs
<1>17. ASSUME NEW w \in Workers, NEW a \in Accounts, CallClose(w, a)
      PROVE  TypeOK'
  BY <1>17, StartJobFacts, GotoFacts DEF CallClose, Roles, PCs
<1>18. ASSUME NEW w \in Workers, NEW a \in Accounts, CloseDone(w, a)
      PROVE  TypeOK'
  <2>1. row[a] \in Row /\ row[a].status \in Statuses /\ Removes(a) \in BOOLEAN
    BY DEF Row, Removes
  <2> DEFINE s == IF Removes(a) THEN row[a].status
                  ELSE IF row[a].age = "expired" THEN "expired" ELSE "revoked"
  <2>2. s \in Statuses
    BY <2>1 DEF Statuses
  <2>3. row' = [row EXCEPT ![a] = Released(row[a], s, Removes(a))]
    BY <1>18 DEF CloseDone
  <2> HIDE DEF s
  <2>4. row' \in [Accounts -> Row]
    BY <2>1, <2>2, <2>3, ReleasedFacts
  <2> QED BY <1>18, <2>4, EndJobFacts, RestFacts DEF CloseDone
<1>19. ASSUME NEW w \in Workers, NEW a \in Accounts, CloseFails(w, a)
      PROVE  TypeOK'
  BY <1>19, EndJobFacts, RestFacts DEF CloseFails
<1>20. ASSUME NEW w \in Workers, Abandon(w)
      PROVE  TypeOK'
  <2>1. worker[w].acct \in Accounts \/ worker[w].pc = "idle"
    BY DEF WorkerInv
  <2>2. job' \in [Accounts -> Job]
    BY <1>20, <2>1, LeaveJobFacts DEF Abandon, Holding
  <2> QED BY <1>20, <2>2, RestFacts, FaultFacts DEF Abandon
<1>21. ASSUME NEW w \in Workers, NEW a \in Accounts, CallPurge(w, a)
      PROVE  TypeOK'
  BY <1>21, StartJobFacts DEF CallPurge, Worker, Roles, PCs
<1>22. ASSUME NEW w \in Workers, NEW a \in Accounts, PurgeDone(w, a)
      PROVE  TypeOK'
  BY <1>22, ReleasedFacts, EndJobFacts, RestFacts DEF PurgeDone, Statuses
<1>23. ASSUME NEW a \in Accounts, JobJournal(a)
      PROVE  TypeOK'
  BY <1>23 DEF JobJournal
<1>24. ASSUME NEW a \in Accounts, JobCreate(a)
      PROVE  TypeOK'
  BY <1>24 DEF JobCreate
<1>25. ASSUME NEW a \in Accounts, JobEnable(a)
      PROVE  TypeOK'
  <2>1. job' \in [Accounts -> Job] /\ job[a].role \in Roles
    BY <1>25, JobEnableFacts DEF Job
  <2>2. /\ client' = [client EXCEPT ![a] = "disabled"]
        /\ sent' = [sent EXCEPT ![a] = @ \cup {job[a].role}]
        /\ UNCHANGED <<gatewayDeleted, access, row, journal, made, late, cut,
                       worker, delivered, faults>>
    BY <1>25 DEF JobEnable
  <2>3. /\ client' \in [Accounts -> {"absent", "disabled"} \cup Roles]
        /\ sent' \in [Accounts -> SUBSET Roles]
    BY <2>1, <2>2
  <2> QED BY <2>1, <2>2, <2>3
<1>26. ASSUME NEW a \in Accounts, JobSucceeds(a)
      PROVE  TypeOK'
  BY <1>26, FinishFacts DEF JobSucceeds
<1>27. ASSUME NEW a \in Accounts, JobFails(a)
      PROVE  TypeOK'
  <2>1. job' \in [Accounts -> Job]
    <3>1. CASE job[a].kind = "provision"
      <4>1. job' = [job EXCEPT ![a].kind = "abort"]
        BY <1>27, <3>1 DEF JobFails
      <4> QED BY <4>1 DEF Job
    <3>2. CASE job[a].kind # "provision"
      BY <1>27, <3>2, FinishFacts DEF JobFails
    <3> QED BY <3>1, <3>2
  <2>2. /\ client' \in [Accounts -> {"absent", "disabled"} \cup Roles]
        /\ late' \in SUBSET Accounts
    BY <1>27, DisablesFacts DEF JobFails
  <2>3. faults' \in 0 .. MaxFaults
    BY <1>27, FaultFacts DEF JobFails
  <2> QED BY <1>27, <2>1, <2>2, <2>3 DEF JobFails
<1>28. ASSUME NEW a \in Accounts, JobClose(a)
      PROVE  TypeOK'
  BY <1>28 DEF JobClose
<1>29. ASSUME NEW a \in Accounts, JobDelete(a)
      PROVE  TypeOK'
  BY <1>29, FinishFacts DEF JobDelete
<1>30. ASSUME NEW a \in Accounts, CreateLands(a)
      PROVE  TypeOK'
  BY <1>30 DEF CreateLands
<1>31. ASSUME NEW a \in Accounts, NEW r \in Roles, EnableLands(a, r)
      PROVE  TypeOK'
  BY <1>31 DEF EnableLands
<1>31d. ASSUME NEW a \in Accounts, DisableLands(a)
      PROVE  TypeOK'
  BY <1>31d, DisableLandsFacts DEF DisableLands
<1>32. ASSUME NEW u \in Users, NEW g \in Grants, ChangeGrant(u, g)
      PROVE  TypeOK'
  BY <1>32 DEF ChangeGrant
<1>33. ASSUME DeleteGateway PROVE TypeOK'
  BY <1>33 DEF DeleteGateway
<1>34. ASSUME NEW a \in Accounts, Tick(a)
      PROVE  TypeOK'
  BY <1>34, RowTypes DEF Tick, Ages
<1> QED
  BY <1>0, <1>1, <1>2, <1>3, <1>4, <1>5, <1>6, <1>7, <1>8, <1>9,
     <1>10, <1>11, <1>12, <1>13, <1>14, <1>15, <1>16, <1>17, <1>18, <1>19,
     <1>20, <1>21, <1>22, <1>23, <1>24, <1>25, <1>26, <1>27, <1>28, <1>29,
     <1>30, <1>31, <1>31d, <1>32, <1>33, <1>34
  DEF Next, Create, Recover, Provisioner

-----------------------------------------------------------------------------
\* What the actions that rewrite a whole row or job do to its fields

LEMMA MarkFacts ==
  ASSUME TypeOK, NEW w \in Workers, NEW a \in Accounts, RecoverMark(w, a)
  PROVE  /\ row'[a].active = row[a].active /\ row'[a].deleted = row[a].deleted
         /\ \/ row'[a].status = row[a].status
            \/ row[a].status = "ready" /\ row'[a].status = "revoking"
            \/ row[a].status = "ready" /\ row'[a].status = "degraded"
               /\ row'[a].role = "user"
         /\ row'[a].role \in {row[a].role, "user"}
         /\ worker'[w].pc = "enforce" /\ row'[a].status = "degraded" =>
               row'[a].role = "user"
         /\ \A x \in Accounts : x # a => row'[x] = row[x]
         /\ row' = row \/ Unlocked
         /\ \/ worker'[w].pc = "enforce" /\ worker'[w].acct = worker[w].acct
            \/ worker'[w].pc = "idle"
         /\ \A x \in Workers : x # w => worker'[x] = worker[x]
<1>1. \/ Goto(w, "enforce") /\ worker'[w].pc = "enforce"
         /\ worker'[w].acct = worker[w].acct
      \/ Rest(w) /\ worker'[w].pc = "idle" /\ row' = row
  BY GotoFacts, RestFacts DEF RecoverMark, PCs
<1>2. \A x \in Workers : x # w => worker'[x] = worker[x]
  BY <1>1, GotoFacts, RestFacts DEF PCs
<1>3. CASE SetStatus(a, "revoking") /\ row[a].status = "ready" /\ Unlocked
  BY <1>1, <1>2, <1>3, SetStatusFacts DEF Statuses
<1>4. CASE /\ row' = [row EXCEPT ![a].status = "degraded", ![a].role = "user"]
           /\ row[a].status = "ready" /\ Unlocked
  BY <1>1, <1>2, <1>4 DEF TypeOK, Row
<1>5. CASE row' = [row EXCEPT ![a].role = "user"] /\ Unlocked
  BY <1>1, <1>2, <1>5 DEF TypeOK, Row
<1>6. CASE row' = row /\ (row[a].status # "degraded" \/ Rest(w))
  BY <1>1, <1>2, <1>6, RestFacts
<1> QED BY <1>3, <1>4, <1>5, <1>6 DEF RecoverMark, Locks

LEMMA ReconcileDoneFacts ==
  ASSUME TypeOK, NEW w \in Workers, NEW a \in Accounts, ReconcileDone(w, a)
  PROVE  /\ row'[a].status = "ready" /\ row'[a].role = job[a].role
         /\ row'[a].active = row[a].active /\ row'[a].deleted = row[a].deleted
         /\ \A x \in Accounts : x # a => row'[x] = row[x]
BY DEF ReconcileDone, TypeOK, Row

LEMMA CloseDoneFacts ==
  ASSUME TypeOK, NEW w \in Workers, NEW a \in Accounts, CloseDone(w, a)
  PROVE  /\ \/ Removes(a) /\ row'[a].deleted /\ row'[a].status = row[a].status
            \/ ~Removes(a) /\ ~row'[a].deleted
               /\ row'[a].status \in {"expired", "revoked"}
         /\ row'[a].role = row[a].role /\ ~row'[a].active
         /\ \A x \in Accounts : x # a => row'[x] = row[x]
<1>1. row[a] \in Row /\ row[a].status \in Statuses
  BY DEF TypeOK, Row
<1>2. CASE Removes(a)
  <2>1. row' = [row EXCEPT ![a] = Released(row[a], row[a].status, TRUE)]
    BY <1>2 DEF CloseDone
  <2> QED BY <1>1, <1>2, <2>1 DEF TypeOK, Row, Released
<1>3. CASE ~Removes(a)
  <2> DEFINE s == IF row[a].age = "expired" THEN "expired" ELSE "revoked"
  <2>1. Removes(a) = FALSE
    BY <1>3 DEF Removes
  <2>2. row' = [row EXCEPT ![a] = Released(row[a], s, FALSE)]
    BY <2>1 DEF CloseDone
  <2> QED BY <1>1, <1>3, <2>2 DEF TypeOK, Row, Released
<1> QED BY <1>2, <1>3

LEMMA PurgeDoneFacts ==
  ASSUME TypeOK, NEW w \in Workers, NEW a \in Accounts, PurgeDone(w, a)
  PROVE  /\ \/ row'[a] = row[a] /\ ~Exists(a)
            \/ /\ Exists(a) /\ row'[a].status = "deleting"
               /\ ~row'[a].active /\ row'[a].deleted
               /\ row'[a].role = row[a].role
         /\ \A x \in Accounts : x # a => row'[x] = row[x]
<1>1. row[a] \in Row
  BY DEF TypeOK
<1>2. CASE Exists(a)
  <2>1. row' = [row EXCEPT ![a] = Released(row[a], "deleting", TRUE)]
    BY <1>2 DEF PurgeDone
  <2> QED BY <1>1, <1>2, <2>1 DEF TypeOK, Row, Released
<1>3. CASE ~Exists(a)
  <2>1. row' = [row EXCEPT ![a] = row[a]]
    BY <1>3 DEF PurgeDone
  <2> QED BY <1>3, <2>1 DEF TypeOK
<1> QED BY <1>2, <1>3

LEMMA JobFailsFacts ==
  ASSUME TypeOK, NEW a \in Accounts, JobFails(a)
  PROVE  /\ \/ job'[a].kind = "idle"
            \/ job[a].kind = "provision" /\ job'[a].kind = "abort"
            \/ /\ job[a].kind # "provision" /\ job'[a].kind = job[a].kind
               /\ job'[a].by = job[a].by /\ job'[a].role = job[a].role
               /\ job'[a].result = "failed"
         /\ job[a].kind # "idle"
         /\ \A x \in Accounts : x # a => job'[x] = job[x]
         /\ \/ client' = client
            \/ /\ client[a] # "absent" /\ client' = [client EXCEPT ![a] = "disabled"]
               /\ job[a].kind \in {"provision", "reconcile"}
<1>1. CASE job[a].kind = "provision"
  BY <1>1, DisablesFacts DEF JobFails, TypeOK, Job, Roles
<1>2. CASE job[a].kind # "provision"
  BY <1>2, FinishFacts, DisablesFacts DEF JobFails, Running, Roles
<1> QED BY <1>1, <1>2

-----------------------------------------------------------------------------
\* The inductive invariant

LEMMA InvNext == IInv /\ [Next]_vars => IInv'
<1> SUFFICES ASSUME IInv, [Next]_vars PROVE IInv'
  OBVIOUS
<1>a. TypeOK /\ TypeOK'
  BY TypeNext DEF IInv
<1>0. CASE UNCHANGED vars
  BY <1>0 DEF IInv, TypeOK, WorkerInv, AbsentInv, SentInv, ClosedInv, Shut, LockInv,
        Holding, RoleInv, CreateInv, CreatePCs, DeliveredIsCommitted, vars
<1>1. ASSUME NEW w \in Workers, NEW u \in Users, NEW a \in Accounts, NEW r \in Roles, Reserve(w, u, a, r)
      PROVE  IInv'
  <2>1. (SentInv)'
    BY <1>1 DEF IInv, SentInv, Reserve, provider
  <2>2. /\ row'[a].status = "provisioning" /\ row'[a].active /\ ~row'[a].deleted
        /\ \A x \in Accounts : x # a => row'[x] = row[x]
        /\ worker'[w].pc = "reserved" /\ worker'[w].acct = a
        /\ \A x \in Workers : x # w => worker'[x] = worker[x]
    BY <1>1, <1>a DEF Reserve, TypeOK
  <2>3. WorkerInv'
    BY <1>1, <1>a, <2>2 DEF IInv, WorkerInv, Reserve, provider, Locks,
        Unlocked, Holding, Idle, PCs
  <2>4. AbsentInv'
    BY <1>1, <1>a, <2>2 DEF IInv, AbsentInv, WorkerInv, Reserve, provider,
        Locks, Unlocked, Holding, Idle, PCs
  <2>5. ClosedInv'
    BY <1>1, <1>a, <2>2 DEF IInv, ClosedInv, Shut, AbsentInv, SentInv,
        WorkerInv, Reserve, provider, Locks, Unlocked, Holding, Idle, PCs
  <2>6. LockInv'
    BY <1>1, <1>a, <2>2 DEF IInv, LockInv, Holding, WorkerInv, Reserve,
        provider, Locks, Unlocked, Idle, PCs
  <2>7. RoleInv'
    BY <1>1, <1>a, <2>2 DEF IInv, RoleInv, WorkerInv, LockInv, Holding,
        Reserve, provider, Locks, Unlocked, Idle, PCs
  <2>8. CreateInv'
    BY <1>1, <1>a, <2>2 DEF IInv, CreateInv, CreatePCs, WorkerInv,
        DeliveredIsCommitted, Reserve, provider, Locks, Unlocked, Holding,
        Idle, PCs
  <2>9. DeliveredIsCommitted'
    BY <1>1, <1>a, <2>2 DEF IInv, DeliveredIsCommitted, LockInv, WorkerInv,
        CreateInv, CreatePCs, Holding, Reserve, provider, Locks, Unlocked,
        Idle, PCs, TypeOK
  <2> QED BY <1>a, <2>1, <2>3, <2>4, <2>5, <2>6, <2>7, <2>8, <2>9 DEF IInv
<1>2. ASSUME NEW w \in Workers, NEW a \in Accounts, CallProvision(w, a)
      PROVE  IInv'
  <2>1. (SentInv /\ DeliveredIsCommitted)'
    BY <1>2 DEF IInv, SentInv, DeliveredIsCommitted, CallProvision, provider
  <2>2. row[a].role \in Roles
    BY <1>a DEF TypeOK, Row
  <2>3. WorkerInv'
    BY <1>2, <1>a, <2>2, GotoFacts, StartJobFacts DEF IInv, WorkerInv,
        CallProvision, provider, At, Exists, Locks, Unlocked, Holding, PCs,
        Roles
  <2>4. AbsentInv'
    BY <1>2, <1>a, <2>2, GotoFacts, StartJobFacts DEF IInv, AbsentInv,
        WorkerInv, CallProvision, provider, At, Exists, Locks, Unlocked,
        Holding, PCs, Roles
  <2>5. ClosedInv'
    BY <1>2, <1>a, <2>2, GotoFacts, StartJobFacts DEF IInv, ClosedInv, Shut,
        AbsentInv, SentInv, WorkerInv, CallProvision, provider, At, Exists,
        Locks, Unlocked, Holding, PCs, Roles
  <2>6. LockInv'
    BY <1>2, <1>a, <2>2, GotoFacts, StartJobFacts DEF IInv, LockInv, Holding,
        WorkerInv, CallProvision, provider, At, Exists, Locks, Unlocked, PCs,
        Roles
  <2>7. RoleInv'
    BY <1>2, <1>a, <2>2, GotoFacts, StartJobFacts DEF IInv, RoleInv, WorkerInv,
        LockInv, Holding, CallProvision, provider, At, Exists, Locks, Unlocked,
        PCs, Roles
  <2>8. CreateInv'
    BY <1>2, <1>a, <2>2, GotoFacts, StartJobFacts DEF IInv, CreateInv,
        CreatePCs, WorkerInv, DeliveredIsCommitted, CallProvision, provider,
        At, Exists, Locks, Unlocked, Holding, PCs, Roles
  <2> QED BY <1>a, <2>1, <2>3, <2>4, <2>5, <2>6, <2>7, <2>8 DEF IInv
<1>3. ASSUME NEW w \in Workers, NEW a \in Accounts, CreateDenied(w, a)
      PROVE  IInv'
  <2>1. (SentInv)'
    BY <1>3 DEF IInv, SentInv, CreateDenied, provider
  <2>2. WorkerInv'
    BY <1>3, <1>a, SetStatusFacts, GotoFacts DEF IInv, WorkerInv, CreateDenied,
        provider, At, Exists, Locks, Unlocked, Holding, Statuses, PCs
  <2>3. AbsentInv'
    BY <1>3, <1>a, SetStatusFacts, GotoFacts DEF IInv, AbsentInv, WorkerInv,
        CreateDenied, provider, At, Exists, Locks, Unlocked, Holding, Statuses,
        PCs
  <2>4. ClosedInv'
    BY <1>3, <1>a, SetStatusFacts, GotoFacts DEF IInv, ClosedInv, Shut,
        AbsentInv, SentInv, WorkerInv, CreateDenied, provider, At, Exists,
        Locks, Unlocked, Holding, Statuses, PCs
  <2>5. LockInv'
    BY <1>3, <1>a, SetStatusFacts, GotoFacts DEF IInv, LockInv, Holding,
        WorkerInv, CreateDenied, provider, At, Exists, Locks, Unlocked,
        Statuses, PCs
  <2>6. RoleInv'
    BY <1>3, <1>a, SetStatusFacts, GotoFacts DEF IInv, RoleInv, WorkerInv,
        LockInv, Holding, CreateDenied, provider, At, Exists, Locks, Unlocked,
        Statuses, PCs
  <2>7. CreateInv'
    BY <1>3, <1>a, SetStatusFacts, GotoFacts DEF IInv, CreateInv, CreatePCs,
        WorkerInv, DeliveredIsCommitted, CreateDenied, provider, At, Exists,
        Locks, Unlocked, Holding, Statuses, PCs
  <2>8. DeliveredIsCommitted'
    BY <1>3, <1>a, SetStatusFacts, GotoFacts DEF IInv, DeliveredIsCommitted,
        LockInv, WorkerInv, CreateInv, CreatePCs, Holding, CreateDenied,
        provider, At, Exists, Locks, Unlocked, Statuses, PCs, TypeOK
  <2> QED BY <1>a, <2>1, <2>2, <2>3, <2>4, <2>5, <2>6, <2>7, <2>8 DEF IInv
<1>4. ASSUME NEW w \in Workers, NEW a \in Accounts, CreateBusy(w, a)
      PROVE  IInv'
  <2>1. (AbsentInv /\ SentInv /\ ClosedInv /\ DeliveredIsCommitted)'
    BY <1>4 DEF IInv, AbsentInv, SentInv, ClosedInv, Shut,
        DeliveredIsCommitted, CreateBusy, provider
  <2>2. WorkerInv'
    BY <1>4, <1>a, GotoFacts DEF IInv, WorkerInv, CreateBusy, provider, At,
        Exists, Locks, Unlocked, Holding, PCs
  <2>3. LockInv'
    BY <1>4, <1>a, GotoFacts DEF IInv, LockInv, Holding, WorkerInv, CreateBusy,
        provider, At, Exists, Locks, Unlocked, PCs
  <2>4. RoleInv'
    BY <1>4, <1>a, GotoFacts DEF IInv, RoleInv, WorkerInv, LockInv, Holding,
        CreateBusy, provider, At, Exists, Locks, Unlocked, PCs
  <2>5. CreateInv'
    BY <1>4, <1>a, GotoFacts DEF IInv, CreateInv, CreatePCs, WorkerInv,
        DeliveredIsCommitted, CreateBusy, provider, At, Exists, Locks,
        Unlocked, Holding, PCs
  <2> QED BY <1>a, <2>1, <2>2, <2>3, <2>4, <2>5 DEF IInv
<1>5. ASSUME NEW w \in Workers, NEW a \in Accounts, CreateDelivers(w, a)
      PROVE  IInv'
  <2>1. (SentInv)'
    BY <1>5 DEF IInv, SentInv, CreateDelivers, provider
  <2>2. WorkerInv'
    BY <1>5, <1>a, SetStatusFacts, EndJobFacts, RestFacts DEF IInv, WorkerInv,
        CreateDelivers, provider, At, Answered, Statuses
  <2>3. AbsentInv'
    BY <1>5, <1>a, SetStatusFacts, EndJobFacts, RestFacts DEF IInv, AbsentInv,
        WorkerInv, CreateDelivers, provider, At, Answered, Statuses
  <2>4. ClosedInv'
    BY <1>5, <1>a, SetStatusFacts, EndJobFacts, RestFacts DEF IInv, ClosedInv,
        Shut, AbsentInv, SentInv, WorkerInv, CreateDelivers, provider, At,
        Answered, Statuses
  <2>5. LockInv'
    BY <1>5, <1>a, SetStatusFacts, EndJobFacts, RestFacts DEF IInv, LockInv,
        Holding, WorkerInv, CreateDelivers, provider, At, Answered, Statuses
  <2>6. RoleInv'
    BY <1>5, <1>a, SetStatusFacts, EndJobFacts, RestFacts DEF IInv, RoleInv,
        WorkerInv, LockInv, Holding, CreateDelivers, provider, At, Answered,
        Statuses
  <2>7. CreateInv'
    BY <1>5, <1>a, SetStatusFacts, EndJobFacts, RestFacts DEF IInv, CreateInv,
        CreatePCs, WorkerInv, DeliveredIsCommitted, CreateDelivers, provider,
        At, Answered, Statuses
  <2>8. DeliveredIsCommitted'
    BY <1>5, <1>a, SetStatusFacts, EndJobFacts, RestFacts DEF IInv,
        DeliveredIsCommitted, LockInv, WorkerInv, CreateInv, CreatePCs,
        Holding, CreateDelivers, provider, At, Answered, Statuses, TypeOK
  <2> QED BY <1>a, <2>1, <2>2, <2>3, <2>4, <2>5, <2>6, <2>7, <2>8 DEF IInv
<1>6. ASSUME NEW w \in Workers, NEW a \in Accounts, CreateCommitLost(w, a)
      PROVE  IInv'
  <2>1. (SentInv)'
    BY <1>6 DEF IInv, SentInv, CreateCommitLost, provider
  <2>2. WorkerInv'
    BY <1>6, <1>a, SetStatusFacts, EndJobFacts, GotoFacts DEF IInv, WorkerInv,
        CreateCommitLost, provider, At, Answered, Statuses, PCs
  <2>3. AbsentInv'
    BY <1>6, <1>a, SetStatusFacts, EndJobFacts, GotoFacts DEF IInv, AbsentInv,
        WorkerInv, CreateCommitLost, provider, At, Answered, Statuses, PCs
  <2>4. ClosedInv'
    BY <1>6, <1>a, SetStatusFacts, EndJobFacts, GotoFacts DEF IInv, ClosedInv,
        Shut, AbsentInv, SentInv, WorkerInv, CreateCommitLost, provider, At,
        Answered, Statuses, PCs
  <2>5. LockInv'
    BY <1>6, <1>a, SetStatusFacts, EndJobFacts, GotoFacts DEF IInv, LockInv,
        Holding, WorkerInv, CreateCommitLost, provider, At, Answered, Statuses,
        PCs
  <2>6. RoleInv'
    BY <1>6, <1>a, SetStatusFacts, EndJobFacts, GotoFacts DEF IInv, RoleInv,
        WorkerInv, LockInv, Holding, CreateCommitLost, provider, At, Answered,
        Statuses, PCs
  <2>7. CreateInv'
    BY <1>6, <1>a, SetStatusFacts, EndJobFacts, GotoFacts DEF IInv, CreateInv,
        CreatePCs, WorkerInv, DeliveredIsCommitted, CreateCommitLost, provider,
        At, Answered, Statuses, PCs
  <2>8. DeliveredIsCommitted'
    BY <1>6, <1>a, SetStatusFacts, EndJobFacts, GotoFacts DEF IInv,
        DeliveredIsCommitted, LockInv, WorkerInv, CreateInv, CreatePCs,
        Holding, CreateCommitLost, provider, At, Answered, Statuses, PCs, TypeOK
  <2> QED BY <1>a, <2>1, <2>2, <2>3, <2>4, <2>5, <2>6, <2>7, <2>8 DEF IInv
<1>7. ASSUME NEW w \in Workers, NEW a \in Accounts, CreateFails(w, a)
      PROVE  IInv'
  <2>1. (SentInv)'
    BY <1>7 DEF IInv, SentInv, CreateFails, provider
  <2>2. WorkerInv'
    BY <1>7, <1>a, SetStatusFacts, LeaveJobFacts, GotoFacts DEF IInv,
        WorkerInv, CreateFails, provider, At, Statuses, PCs
  <2>3. AbsentInv'
    BY <1>7, <1>a, SetStatusFacts, LeaveJobFacts, GotoFacts DEF IInv,
        AbsentInv, WorkerInv, CreateFails, provider, At, Statuses, PCs
  <2>4. ClosedInv'
    BY <1>7, <1>a, SetStatusFacts, LeaveJobFacts, GotoFacts DEF IInv,
        ClosedInv, Shut, AbsentInv, SentInv, WorkerInv, CreateFails, provider,
        At, Statuses, PCs
  <2>5. LockInv'
    BY <1>7, <1>a, SetStatusFacts, LeaveJobFacts, GotoFacts DEF IInv, LockInv,
        Holding, WorkerInv, CreateFails, provider, At, Statuses, PCs
  <2>6. RoleInv'
    BY <1>7, <1>a, SetStatusFacts, LeaveJobFacts, GotoFacts DEF IInv, RoleInv,
        WorkerInv, LockInv, Holding, CreateFails, provider, At, Statuses, PCs
  <2>7. CreateInv'
    BY <1>7, <1>a, SetStatusFacts, LeaveJobFacts, GotoFacts DEF IInv,
        CreateInv, CreatePCs, WorkerInv, DeliveredIsCommitted, CreateFails,
        provider, At, Statuses, PCs
  <2>8. DeliveredIsCommitted'
    BY <1>7, <1>a, SetStatusFacts, LeaveJobFacts, GotoFacts DEF IInv,
        DeliveredIsCommitted, LockInv, WorkerInv, CreateInv, CreatePCs,
        Holding, CreateFails, provider, At, Statuses, PCs, TypeOK
  <2> QED BY <1>a, <2>1, <2>2, <2>3, <2>4, <2>5, <2>6, <2>7, <2>8 DEF IInv
<1>8. ASSUME NEW w \in Workers, NEW a \in Accounts, CreateRolledBack(w, a)
      PROVE  IInv'
  <2>1. (SentInv /\ DeliveredIsCommitted)'
    BY <1>8 DEF IInv, SentInv, DeliveredIsCommitted, CreateRolledBack, provider
  <2>2. WorkerInv'
    BY <1>8, <1>a, LeaveJobFacts, GotoFacts DEF IInv, WorkerInv,
        CreateRolledBack, provider, At, PCs
  <2>3. AbsentInv'
    BY <1>8, <1>a, LeaveJobFacts, GotoFacts DEF IInv, AbsentInv, WorkerInv,
        CreateRolledBack, provider, At, PCs
  <2>4. ClosedInv'
    BY <1>8, <1>a, LeaveJobFacts, GotoFacts DEF IInv, ClosedInv, Shut,
        AbsentInv, SentInv, WorkerInv, CreateRolledBack, provider, At, PCs
  <2>5. LockInv'
    BY <1>8, <1>a, LeaveJobFacts, GotoFacts DEF IInv, LockInv, Holding,
        WorkerInv, CreateRolledBack, provider, At, PCs
  <2>6. RoleInv'
    BY <1>8, <1>a, LeaveJobFacts, GotoFacts DEF IInv, RoleInv, WorkerInv,
        LockInv, Holding, CreateRolledBack, provider, At, PCs
  <2>7. CreateInv'
    BY <1>8, <1>a, LeaveJobFacts, GotoFacts DEF IInv, CreateInv, CreatePCs,
        WorkerInv, DeliveredIsCommitted, CreateRolledBack, provider, At, PCs
  <2> QED BY <1>a, <2>1, <2>2, <2>3, <2>4, <2>5, <2>6, <2>7 DEF IInv
<1>9. ASSUME NEW w \in Workers, NEW a \in Accounts, Undo(w, a)
      PROVE  IInv'
  <2>1. (SentInv)'
    BY <1>9 DEF IInv, SentInv, Undo, provider
  <2>2. WorkerInv'
    BY <1>9, <1>a, SetStatusFacts, GotoFacts DEF IInv, WorkerInv, Undo,
        provider, At, Exists, Locks, Unlocked, Holding, Statuses, PCs
  <2>3. AbsentInv'
    BY <1>9, <1>a, SetStatusFacts, GotoFacts DEF IInv, AbsentInv, WorkerInv,
        Undo, provider, At, Exists, Locks, Unlocked, Holding, Statuses, PCs
  <2>4. ClosedInv'
    BY <1>9, <1>a, SetStatusFacts, GotoFacts DEF IInv, ClosedInv, Shut,
        AbsentInv, SentInv, WorkerInv, Undo, provider, At, Exists, Locks,
        Unlocked, Holding, Statuses, PCs
  <2>5. LockInv'
    BY <1>9, <1>a, SetStatusFacts, GotoFacts DEF IInv, LockInv, Holding,
        WorkerInv, Undo, provider, At, Exists, Locks, Unlocked, Statuses, PCs
  <2>6. RoleInv'
    BY <1>9, <1>a, SetStatusFacts, GotoFacts DEF IInv, RoleInv, WorkerInv,
        LockInv, Holding, Undo, provider, At, Exists, Locks, Unlocked,
        Statuses, PCs
  <2>7. CreateInv'
    BY <1>9, <1>a, SetStatusFacts, GotoFacts DEF IInv, CreateInv, CreatePCs,
        WorkerInv, DeliveredIsCommitted, Undo, provider, At, Exists, Locks,
        Unlocked, Holding, Statuses, PCs
  <2>8. DeliveredIsCommitted'
    BY <1>9, <1>a, SetStatusFacts, GotoFacts DEF IInv, DeliveredIsCommitted,
        LockInv, WorkerInv, CreateInv, CreatePCs, Holding, Undo, provider, At,
        Exists, Locks, Unlocked, Statuses, PCs, TypeOK
  <2> QED BY <1>a, <2>1, <2>2, <2>3, <2>4, <2>5, <2>6, <2>7, <2>8 DEF IInv
<1>10. ASSUME NEW w \in Workers, NEW u \in Users, NEW a \in Accounts, NEW b \in BOOLEAN, Change(w, u, a, b)
      PROVE  IInv'
  <2>1. (SentInv)'
    BY <1>10 DEF IInv, SentInv, Change, provider
  <2>2. WorkerInv'
    BY <1>10, <1>a, SetStatusFacts DEF IInv, WorkerInv, Change, provider,
        Exists, Locks, Unlocked, Holding, Idle, Statuses, PCs
  <2>3. AbsentInv'
    BY <1>10, <1>a, SetStatusFacts DEF IInv, AbsentInv, WorkerInv, Change,
        provider, Exists, Locks, Unlocked, Holding, Idle, Statuses, PCs
  <2>4. ClosedInv'
    BY <1>10, <1>a, SetStatusFacts DEF IInv, ClosedInv, Shut, AbsentInv,
        SentInv, WorkerInv, Change, provider, Exists, Locks, Unlocked, Holding,
        Idle, Statuses, PCs
  <2>5. LockInv'
    BY <1>10, <1>a, SetStatusFacts DEF IInv, LockInv, Holding, WorkerInv,
        Change, provider, Exists, Locks, Unlocked, Idle, Statuses, PCs
  <2>6. RoleInv'
    BY <1>10, <1>a, SetStatusFacts DEF IInv, RoleInv, WorkerInv, LockInv,
        Holding, Change, provider, Exists, Locks, Unlocked, Idle, Statuses, PCs
  <2>7. CreateInv'
    BY <1>10, <1>a, SetStatusFacts DEF IInv, CreateInv, CreatePCs, WorkerInv,
        DeliveredIsCommitted, Change, provider, Exists, Locks, Unlocked,
        Holding, Idle, Statuses, PCs
  <2>8. DeliveredIsCommitted'
    BY <1>10, <1>a, SetStatusFacts DEF IInv, DeliveredIsCommitted, LockInv,
        WorkerInv, CreateInv, CreatePCs, Holding, Change, provider, Exists,
        Locks, Unlocked, Idle, Statuses, PCs, TypeOK
  <2> QED BY <1>a, <2>1, <2>2, <2>3, <2>4, <2>5, <2>6, <2>7, <2>8 DEF IInv
<1>11. ASSUME NEW w \in Workers, NEW a \in Accounts, SweepRow(w, a)
      PROVE  IInv'
  <2>1. (AbsentInv /\ SentInv /\ ClosedInv /\ DeliveredIsCommitted)'
    BY <1>11 DEF IInv, AbsentInv, SentInv, ClosedInv, Shut,
        DeliveredIsCommitted, SweepRow, provider
  <2>2. WorkerInv'
    BY <1>11, <1>a DEF IInv, WorkerInv, SweepRow, provider, Exists, Idle, PCs
  <2>3. LockInv'
    BY <1>11, <1>a DEF IInv, LockInv, Holding, WorkerInv, SweepRow, provider,
        Exists, Idle, PCs
  <2>4. RoleInv'
    BY <1>11, <1>a DEF IInv, RoleInv, WorkerInv, LockInv, Holding, SweepRow,
        provider, Exists, Idle, PCs
  <2>5. CreateInv'
    BY <1>11, <1>a DEF IInv, CreateInv, CreatePCs, WorkerInv,
        DeliveredIsCommitted, SweepRow, provider, Exists, Idle, PCs
  <2> QED BY <1>a, <2>1, <2>2, <2>3, <2>4, <2>5 DEF IInv
<1>12. ASSUME NEW w \in Workers, NEW a \in Accounts, RecoverMark(w, a)
      PROVE  IInv'
  <2>1. (SentInv)'
    BY <1>12 DEF IInv, SentInv, RecoverMark, provider
  <2>e. /\ worker[w].pc = "recover" /\ worker[w].acct = a
        /\ UNCHANGED <<gatewayDeleted, provider, delivered, job>>
    BY <1>12 DEF RecoverMark, At
  <2>2. WorkerInv'
    BY <1>12, <1>a, <2>e, MarkFacts DEF IInv, WorkerInv, provider, Unlocked
  <2>3. AbsentInv'
    BY <1>12, <1>a, <2>e, MarkFacts DEF IInv, AbsentInv, WorkerInv, provider,
        Unlocked
  <2>4. ClosedInv'
    BY <1>12, <1>a, <2>e, MarkFacts DEF IInv, ClosedInv, Shut, AbsentInv,
        SentInv, WorkerInv, provider, Unlocked
  <2>5. LockInv'
    BY <1>12, <1>a, <2>e, MarkFacts DEF IInv, LockInv, Holding, WorkerInv,
        provider, Unlocked
  <2>6. RoleInv'
    BY <1>12, <1>a, <2>e, MarkFacts DEF IInv, RoleInv, WorkerInv, LockInv,
        Holding, provider, Unlocked
  <2>7. CreateInv'
    BY <1>12, <1>a, <2>e, MarkFacts DEF IInv, CreateInv, CreatePCs, WorkerInv,
        DeliveredIsCommitted, provider, Unlocked
  <2>8. DeliveredIsCommitted'
    BY <1>12, <1>a, <2>e, MarkFacts DEF IInv, DeliveredIsCommitted, LockInv,
        WorkerInv, CreateInv, CreatePCs, Holding, provider, Unlocked, TypeOK
  <2> QED BY <1>a, <2>1, <2>2, <2>3, <2>4, <2>5, <2>6, <2>7, <2>8 DEF IInv
<1>13. ASSUME NEW w \in Workers, NEW a \in Accounts, EnforceNothing(w, a)
      PROVE  IInv'
  <2>1. (AbsentInv /\ SentInv /\ ClosedInv /\ DeliveredIsCommitted)'
    BY <1>13 DEF IInv, AbsentInv, SentInv, ClosedInv, Shut,
        DeliveredIsCommitted, EnforceNothing, provider
  <2>2. WorkerInv'
    BY <1>13, <1>a, RestFacts DEF IInv, WorkerInv, EnforceNothing, provider,
        At, Exists, Locks, Unlocked, Holding
  <2>3. LockInv'
    BY <1>13, <1>a, RestFacts DEF IInv, LockInv, Holding, WorkerInv,
        EnforceNothing, provider, At, Exists, Locks, Unlocked
  <2>4. RoleInv'
    BY <1>13, <1>a, RestFacts DEF IInv, RoleInv, WorkerInv, LockInv, Holding,
        EnforceNothing, provider, At, Exists, Locks, Unlocked
  <2>5. CreateInv'
    BY <1>13, <1>a, RestFacts DEF IInv, CreateInv, CreatePCs, WorkerInv,
        DeliveredIsCommitted, EnforceNothing, provider, At, Exists, Locks,
        Unlocked, Holding
  <2> QED BY <1>a, <2>1, <2>2, <2>3, <2>4, <2>5 DEF IInv
<1>14. ASSUME NEW w \in Workers, NEW a \in Accounts, CallReconcile(w, a)
      PROVE  IInv'
  <2>1. (SentInv /\ DeliveredIsCommitted)'
    BY <1>14 DEF IInv, SentInv, DeliveredIsCommitted, CallReconcile, provider
  <2>2. row[a].role \in Roles
    BY <1>a DEF TypeOK, Row
  <2>3. WorkerInv'
    BY <1>14, <1>a, <2>2, StartJobFacts, GotoFacts DEF IInv, WorkerInv,
        CallReconcile, provider, At, Exists, Locks, Unlocked, Holding, Keeps,
        PCs, Roles
  <2>4. AbsentInv'
    BY <1>14, <1>a, <2>2, StartJobFacts, GotoFacts DEF IInv, AbsentInv,
        WorkerInv, CallReconcile, provider, At, Exists, Locks, Unlocked,
        Holding, Keeps, PCs, Roles
  <2>5. ClosedInv'
    BY <1>14, <1>a, <2>2, StartJobFacts, GotoFacts DEF IInv, ClosedInv, Shut,
        AbsentInv, SentInv, WorkerInv, CallReconcile, provider, At, Exists,
        Locks, Unlocked, Holding, Keeps, PCs, Roles
  <2>6. LockInv'
    BY <1>14, <1>a, <2>2, StartJobFacts, GotoFacts DEF IInv, LockInv, Holding,
        WorkerInv, CallReconcile, provider, At, Exists, Locks, Unlocked, Keeps,
        PCs, Roles
  <2>7. RoleInv'
    BY <1>14, <1>a, <2>2, StartJobFacts, GotoFacts DEF IInv, RoleInv,
        WorkerInv, LockInv, Holding, CallReconcile, provider, At, Exists,
        Locks, Unlocked, Keeps, PCs, Roles
  <2>8. CreateInv'
    BY <1>14, <1>a, <2>2, StartJobFacts, GotoFacts DEF IInv, CreateInv,
        CreatePCs, WorkerInv, DeliveredIsCommitted, CallReconcile, provider,
        At, Exists, Locks, Unlocked, Holding, Keeps, PCs, Roles
  <2> QED BY <1>a, <2>1, <2>3, <2>4, <2>5, <2>6, <2>7, <2>8 DEF IInv
<1>15. ASSUME NEW w \in Workers, NEW a \in Accounts, ReconcileDone(w, a)
      PROVE  IInv'
  <2>1. (SentInv)'
    BY <1>15 DEF IInv, SentInv, ReconcileDone, provider
  <2>e. /\ worker[w].pc = "reconciling" /\ worker[w].acct = a
        /\ job[a].kind = "reconcile" /\ job[a].by = w /\ EndJob(a) /\ Rest(w)
        /\ UNCHANGED <<gatewayDeleted, provider, delivered>>
    BY <1>15 DEF ReconcileDone, At, Answered
  <2>2. WorkerInv'
    BY <1>15, <1>a, <2>e, ReconcileDoneFacts, EndJobFacts, RestFacts DEF IInv,
        WorkerInv, provider
  <2>3. AbsentInv'
    BY <1>15, <1>a, <2>e, ReconcileDoneFacts, EndJobFacts, RestFacts DEF IInv,
        AbsentInv, WorkerInv, provider
  <2>4. ClosedInv'
    BY <1>15, <1>a, <2>e, ReconcileDoneFacts, EndJobFacts, RestFacts DEF IInv,
        ClosedInv, Shut, AbsentInv, SentInv, WorkerInv, provider
  <2>5. LockInv'
    BY <1>15, <1>a, <2>e, ReconcileDoneFacts, EndJobFacts, RestFacts DEF IInv,
        LockInv, Holding, WorkerInv, provider
  <2>6. RoleInv'
    BY <1>15, <1>a, <2>e, ReconcileDoneFacts, EndJobFacts, RestFacts DEF IInv,
        RoleInv, WorkerInv, LockInv, Holding, provider
  <2>7. CreateInv'
    BY <1>15, <1>a, <2>e, ReconcileDoneFacts, EndJobFacts, RestFacts DEF IInv,
        CreateInv, CreatePCs, WorkerInv, DeliveredIsCommitted, provider
  <2>8. DeliveredIsCommitted'
    BY <1>15, <1>a, <2>e, ReconcileDoneFacts, EndJobFacts, RestFacts DEF IInv,
        DeliveredIsCommitted, LockInv, WorkerInv, CreateInv, CreatePCs,
        Holding, provider, TypeOK
  <2> QED BY <1>a, <2>1, <2>2, <2>3, <2>4, <2>5, <2>6, <2>7, <2>8 DEF IInv
<1>16. ASSUME NEW w \in Workers, NEW a \in Accounts, ReconcileFails(w, a)
      PROVE  IInv'
  <2>1. (SentInv)'
    BY <1>16 DEF IInv, SentInv, ReconcileFails, provider
  <2>2. WorkerInv'
    BY <1>16, <1>a, SetStatusFacts, GotoFacts, LeaveJobFacts DEF IInv,
        WorkerInv, ReconcileFails, provider, At, Exists, Locks, Unlocked,
        Holding, Keeps, Statuses, PCs
  <2>3. AbsentInv'
    BY <1>16, <1>a, SetStatusFacts, GotoFacts, LeaveJobFacts DEF IInv,
        AbsentInv, WorkerInv, ReconcileFails, provider, At, Exists, Locks,
        Unlocked, Holding, Keeps, Statuses, PCs
  <2>4. ClosedInv'
    BY <1>16, <1>a, SetStatusFacts, GotoFacts, LeaveJobFacts DEF IInv,
        ClosedInv, Shut, AbsentInv, SentInv, WorkerInv, ReconcileFails,
        provider, At, Exists, Locks, Unlocked, Holding, Keeps, Statuses, PCs
  <2>5. LockInv'
    BY <1>16, <1>a, SetStatusFacts, GotoFacts, LeaveJobFacts DEF IInv, LockInv,
        Holding, WorkerInv, ReconcileFails, provider, At, Exists, Locks,
        Unlocked, Keeps, Statuses, PCs
  <2>6. RoleInv'
    BY <1>16, <1>a, SetStatusFacts, GotoFacts, LeaveJobFacts DEF IInv, RoleInv,
        WorkerInv, LockInv, Holding, ReconcileFails, provider, At, Exists,
        Locks, Unlocked, Keeps, Statuses, PCs
  <2>7. CreateInv'
    BY <1>16, <1>a, SetStatusFacts, GotoFacts, LeaveJobFacts DEF IInv,
        CreateInv, CreatePCs, WorkerInv, DeliveredIsCommitted, ReconcileFails,
        provider, At, Exists, Locks, Unlocked, Holding, Keeps, Statuses, PCs
  <2>8. DeliveredIsCommitted'
    BY <1>16, <1>a, SetStatusFacts, GotoFacts, LeaveJobFacts DEF IInv,
        DeliveredIsCommitted, LockInv, WorkerInv, CreateInv, CreatePCs,
        Holding, ReconcileFails, provider, At, Exists, Locks, Unlocked, Keeps,
        Statuses, PCs, TypeOK
  <2> QED BY <1>a, <2>1, <2>2, <2>3, <2>4, <2>5, <2>6, <2>7, <2>8 DEF IInv
<1>17. ASSUME NEW w \in Workers, NEW a \in Accounts, CallClose(w, a)
      PROVE  IInv'
  <2>1. (SentInv /\ DeliveredIsCommitted)'
    BY <1>17 DEF IInv, SentInv, DeliveredIsCommitted, CallClose, provider
  <2>2. WorkerInv'
    BY <1>17, <1>a, StartJobFacts, GotoFacts DEF IInv, WorkerInv, CallClose,
        provider, At, Exists, Locks, Unlocked, Holding, Keeps, PCs, Roles
  <2>3. AbsentInv'
    BY <1>17, <1>a, StartJobFacts, GotoFacts DEF IInv, AbsentInv, WorkerInv,
        CallClose, provider, At, Exists, Locks, Unlocked, Holding, Keeps, PCs,
        Roles
  <2>4. ClosedInv'
    BY <1>17, <1>a, StartJobFacts, GotoFacts DEF IInv, ClosedInv, Shut,
        AbsentInv, SentInv, WorkerInv, CallClose, provider, At, Exists, Locks,
        Unlocked, Holding, Keeps, PCs, Roles
  <2>5. LockInv'
    BY <1>17, <1>a, StartJobFacts, GotoFacts DEF IInv, LockInv, Holding,
        WorkerInv, CallClose, provider, At, Exists, Locks, Unlocked, Keeps,
        PCs, Roles
  <2>6. RoleInv'
    BY <1>17, <1>a, StartJobFacts, GotoFacts DEF IInv, RoleInv, WorkerInv,
        LockInv, Holding, CallClose, provider, At, Exists, Locks, Unlocked,
        Keeps, PCs, Roles
  <2>7. CreateInv'
    BY <1>17, <1>a, StartJobFacts, GotoFacts DEF IInv, CreateInv, CreatePCs,
        WorkerInv, DeliveredIsCommitted, CallClose, provider, At, Exists,
        Locks, Unlocked, Holding, Keeps, PCs, Roles
  <2> QED BY <1>a, <2>1, <2>2, <2>3, <2>4, <2>5, <2>6, <2>7 DEF IInv
<1>18. ASSUME NEW w \in Workers, NEW a \in Accounts, CloseDone(w, a)
      PROVE  IInv'
  <2>1. (SentInv)'
    BY <1>18 DEF IInv, SentInv, CloseDone, provider
  <2>e. /\ worker[w].pc = "closing" /\ worker[w].acct = a
        /\ job[a].kind = "close" /\ job[a].result = "ok" /\ EndJob(a) /\ Rest(w)
        /\ UNCHANGED <<gatewayDeleted, provider, delivered>>
    BY <1>18 DEF CloseDone, At, Answered
  <2>2. WorkerInv'
    BY <1>18, <1>a, <2>e, CloseDoneFacts, EndJobFacts, RestFacts DEF IInv,
        WorkerInv, provider, Removes
  <2>3. AbsentInv'
    BY <1>18, <1>a, <2>e, CloseDoneFacts, EndJobFacts, RestFacts DEF IInv,
        AbsentInv, WorkerInv, provider, Removes
  <2>4. ClosedInv'
    BY <1>18, <1>a, <2>e, CloseDoneFacts, EndJobFacts, RestFacts DEF IInv,
        ClosedInv, Shut, AbsentInv, SentInv, WorkerInv, provider, Removes
  <2>5. LockInv'
    BY <1>18, <1>a, <2>e, CloseDoneFacts, EndJobFacts, RestFacts DEF IInv,
        LockInv, Holding, WorkerInv, provider, Removes
  <2>6. RoleInv'
    BY <1>18, <1>a, <2>e, CloseDoneFacts, EndJobFacts, RestFacts DEF IInv,
        RoleInv, WorkerInv, LockInv, Holding, provider, Removes
  <2>7. CreateInv'
    BY <1>18, <1>a, <2>e, CloseDoneFacts, EndJobFacts, RestFacts DEF IInv,
        CreateInv, CreatePCs, WorkerInv, DeliveredIsCommitted, provider, Removes
  <2>8. DeliveredIsCommitted'
    BY <1>18, <1>a, <2>e, CloseDoneFacts, EndJobFacts, RestFacts DEF IInv,
        DeliveredIsCommitted, LockInv, WorkerInv, CreateInv, CreatePCs,
        Holding, provider, Removes, TypeOK
  <2> QED BY <1>a, <2>1, <2>2, <2>3, <2>4, <2>5, <2>6, <2>7, <2>8 DEF IInv
<1>19. ASSUME NEW w \in Workers, NEW a \in Accounts, CloseFails(w, a)
      PROVE  IInv'
  <2>1. (SentInv /\ DeliveredIsCommitted)'
    BY <1>19 DEF IInv, SentInv, DeliveredIsCommitted, CloseFails, provider
  <2>2. WorkerInv'
    BY <1>19, <1>a, EndJobFacts, RestFacts DEF IInv, WorkerInv, CloseFails,
        provider, Answered
  <2>3. AbsentInv'
    BY <1>19, <1>a, EndJobFacts, RestFacts DEF IInv, AbsentInv, WorkerInv,
        CloseFails, provider, Answered
  <2>4. ClosedInv'
    BY <1>19, <1>a, EndJobFacts, RestFacts DEF IInv, ClosedInv, Shut,
        AbsentInv, SentInv, WorkerInv, CloseFails, provider, Answered
  <2>5. LockInv'
    BY <1>19, <1>a, EndJobFacts, RestFacts DEF IInv, LockInv, Holding,
        WorkerInv, CloseFails, provider, Answered
  <2>6. RoleInv'
    BY <1>19, <1>a, EndJobFacts, RestFacts DEF IInv, RoleInv, WorkerInv,
        LockInv, Holding, CloseFails, provider, Answered
  <2>7. CreateInv'
    BY <1>19, <1>a, EndJobFacts, RestFacts DEF IInv, CreateInv, CreatePCs,
        WorkerInv, DeliveredIsCommitted, CloseFails, provider, Answered
  <2> QED BY <1>a, <2>1, <2>2, <2>3, <2>4, <2>5, <2>6, <2>7 DEF IInv
<1>20. ASSUME NEW w \in Workers, Abandon(w)
      PROVE  IInv'
  <2>1. (SentInv /\ DeliveredIsCommitted)'
    BY <1>20 DEF IInv, SentInv, DeliveredIsCommitted, Abandon, provider
  <2>2. WorkerInv'
    BY <1>20, <1>a, LeaveJobFacts, RestFacts DEF IInv, WorkerInv, Abandon,
        provider, Holding, Idle
  <2>3. AbsentInv'
    BY <1>20, <1>a, LeaveJobFacts, RestFacts DEF IInv, AbsentInv, WorkerInv,
        Abandon, provider, Holding, Idle
  <2>4. ClosedInv'
    BY <1>20, <1>a, LeaveJobFacts, RestFacts DEF IInv, ClosedInv, Shut,
        AbsentInv, SentInv, WorkerInv, Abandon, provider, Holding, Idle
  <2>5. LockInv'
    BY <1>20, <1>a, LeaveJobFacts, RestFacts DEF IInv, LockInv, Holding,
        WorkerInv, Abandon, provider, Idle
  <2>6. RoleInv'
    BY <1>20, <1>a, LeaveJobFacts, RestFacts DEF IInv, RoleInv, WorkerInv,
        LockInv, Holding, Abandon, provider, Idle
  <2>7. CreateInv'
    BY <1>20, <1>a, LeaveJobFacts, RestFacts DEF IInv, CreateInv, CreatePCs,
        WorkerInv, DeliveredIsCommitted, Abandon, provider, Holding, Idle
  <2> QED BY <1>a, <2>1, <2>2, <2>3, <2>4, <2>5, <2>6, <2>7 DEF IInv
<1>21. ASSUME NEW w \in Workers, NEW a \in Accounts, CallPurge(w, a)
      PROVE  IInv'
  <2>1. (SentInv /\ DeliveredIsCommitted)'
    BY <1>21 DEF IInv, SentInv, DeliveredIsCommitted, CallPurge, provider
  <2>2. WorkerInv'
    BY <1>21, <1>a, StartJobFacts DEF IInv, WorkerInv, AbsentInv, CallPurge,
        provider, Idle, Removes, Purgeable, PCs, Roles
  <2>3. AbsentInv'
    BY <1>21, <1>a, StartJobFacts DEF IInv, AbsentInv, WorkerInv, CallPurge,
        provider, Idle, Removes, Purgeable, PCs, Roles
  <2>4. ClosedInv'
    BY <1>21, <1>a, StartJobFacts DEF IInv, ClosedInv, Shut, AbsentInv,
        SentInv, WorkerInv, CallPurge, provider, Idle, Removes, Purgeable, PCs,
        Roles
  <2>5. LockInv'
    BY <1>21, <1>a, StartJobFacts DEF IInv, LockInv, Holding, WorkerInv,
        CallPurge, provider, Idle, Removes, Purgeable, PCs, Roles
  <2>6. RoleInv'
    BY <1>21, <1>a, StartJobFacts DEF IInv, RoleInv, WorkerInv, LockInv,
        Holding, CallPurge, provider, Idle, Removes, Purgeable, PCs, Roles
  <2>7. CreateInv'
    BY <1>21, <1>a, StartJobFacts DEF IInv, CreateInv, CreatePCs, WorkerInv,
        DeliveredIsCommitted, CallPurge, provider, Idle, Removes, Purgeable,
        PCs, Roles
  <2> QED BY <1>a, <2>1, <2>2, <2>3, <2>4, <2>5, <2>6, <2>7 DEF IInv
<1>22. ASSUME NEW w \in Workers, NEW a \in Accounts, PurgeDone(w, a)
      PROVE  IInv'
  <2>1. (SentInv)'
    BY <1>22 DEF IInv, SentInv, PurgeDone, provider
  <2>e. /\ worker[w].pc = "purging" /\ worker[w].acct = a
        /\ job[a].kind = "close" /\ job[a].result = "ok" /\ EndJob(a) /\ Rest(w)
        /\ UNCHANGED <<gatewayDeleted, provider, delivered>>
    BY <1>22 DEF PurgeDone, At, Answered
  <2>2. WorkerInv'
    BY <1>22, <1>a, <2>e, PurgeDoneFacts, EndJobFacts, RestFacts DEF IInv,
        WorkerInv, provider, Exists
  <2>3. AbsentInv'
    BY <1>22, <1>a, <2>e, PurgeDoneFacts, EndJobFacts, RestFacts DEF IInv,
        AbsentInv, WorkerInv, provider, Exists
  <2>4. ClosedInv'
    BY <1>22, <1>a, <2>e, PurgeDoneFacts, EndJobFacts, RestFacts DEF IInv,
        ClosedInv, Shut, AbsentInv, SentInv, WorkerInv, provider, Exists
  <2>5. LockInv'
    BY <1>22, <1>a, <2>e, PurgeDoneFacts, EndJobFacts, RestFacts DEF IInv,
        LockInv, Holding, WorkerInv, provider, Exists
  <2>6. RoleInv'
    BY <1>22, <1>a, <2>e, PurgeDoneFacts, EndJobFacts, RestFacts DEF IInv,
        RoleInv, WorkerInv, LockInv, Holding, provider, Exists
  <2>7. CreateInv'
    BY <1>22, <1>a, <2>e, PurgeDoneFacts, EndJobFacts, RestFacts DEF IInv,
        CreateInv, CreatePCs, WorkerInv, DeliveredIsCommitted, provider, Exists
  <2>8. DeliveredIsCommitted'
    BY <1>22, <1>a, <2>e, PurgeDoneFacts, EndJobFacts, RestFacts DEF IInv,
        DeliveredIsCommitted, LockInv, WorkerInv, CreateInv, CreatePCs,
        Holding, provider, Exists, TypeOK
  <2> QED BY <1>a, <2>1, <2>2, <2>3, <2>4, <2>5, <2>6, <2>7, <2>8 DEF IInv
<1>23. ASSUME NEW a \in Accounts, JobJournal(a)
      PROVE  IInv'
  <2>1. (WorkerInv /\ SentInv /\ LockInv /\ RoleInv /\ CreateInv /\ DeliveredIsCommitted)'
    BY <1>23 DEF IInv, WorkerInv, SentInv, LockInv, Holding, RoleInv,
        CreateInv, CreatePCs, DeliveredIsCommitted, JobJournal, provider
  <2>2. AbsentInv'
    BY <1>23, <1>a DEF IInv, AbsentInv, WorkerInv, JobJournal, provider,
        Running, TypeOK
  <2>3. ClosedInv'
    BY <1>23, <1>a DEF IInv, ClosedInv, Shut, AbsentInv, SentInv, WorkerInv,
        JobJournal, provider, Running, TypeOK
  <2> QED BY <1>a, <2>1, <2>2, <2>3 DEF IInv
<1>24. ASSUME NEW a \in Accounts, JobCreate(a)
      PROVE  IInv'
  <2>1. (WorkerInv /\ ClosedInv /\ LockInv /\ RoleInv /\ CreateInv /\ DeliveredIsCommitted)'
    BY <1>24 DEF IInv, WorkerInv, ClosedInv, Shut, LockInv, Holding, RoleInv,
        CreateInv, CreatePCs, DeliveredIsCommitted, JobCreate, provider
  <2>2. AbsentInv'
    BY <1>24, <1>a DEF IInv, AbsentInv, WorkerInv, JobCreate, provider,
        Running, TypeOK
  <2>3. SentInv'
    BY <1>24, <1>a DEF IInv, SentInv, JobCreate, provider, Running, TypeOK
  <2> QED BY <1>a, <2>1, <2>2, <2>3 DEF IInv
<1>25. ASSUME NEW a \in Accounts, JobEnable(a)
      PROVE  IInv'
  <2>1. (WorkerInv /\ LockInv /\ RoleInv /\ CreateInv /\ DeliveredIsCommitted)'
    BY <1>25, <1>a, JobEnableFacts DEF IInv, WorkerInv, LockInv, Holding, RoleInv, CreateInv,
        CreatePCs, DeliveredIsCommitted, JobEnable, provider
  <2>2. AbsentInv'
    BY <1>25, <1>a, JobEnableFacts DEF IInv, AbsentInv, WorkerInv, JobEnable, provider,
        Running, Roles, TypeOK
  <2>3. SentInv'
    BY <1>25, <1>a, JobEnableFacts DEF IInv, SentInv, JobEnable, provider, Running, Roles,
        TypeOK
  <2>4. ClosedInv'
    BY <1>25, <1>a, JobEnableFacts DEF IInv, ClosedInv, Shut, AbsentInv, SentInv, WorkerInv,
        JobEnable, provider, Running, Roles, TypeOK
  <2> QED BY <1>a, <2>1, <2>2, <2>3, <2>4 DEF IInv
<1>26. ASSUME NEW a \in Accounts, JobSucceeds(a)
      PROVE  IInv'
  <2>1. (WorkerInv /\ SentInv /\ LockInv /\ CreateInv /\ DeliveredIsCommitted)'
    BY <1>26 DEF IInv, WorkerInv, SentInv, LockInv, Holding, CreateInv,
        CreatePCs, DeliveredIsCommitted, JobSucceeds, provider
  <2>2. AbsentInv'
    BY <1>26, <1>a, FinishFacts DEF IInv, AbsentInv, WorkerInv, JobSucceeds,
        provider, Running, TypeOK
  <2>3. ClosedInv'
    BY <1>26, <1>a, FinishFacts DEF IInv, ClosedInv, Shut, AbsentInv, SentInv,
        WorkerInv, JobSucceeds, provider, Running, TypeOK
  <2>4. RoleInv'
    BY <1>26, <1>a, FinishFacts DEF IInv, RoleInv, WorkerInv, LockInv, Holding,
        JobSucceeds, provider, Running, TypeOK
  <2> QED BY <1>a, <2>1, <2>2, <2>3, <2>4 DEF IInv
<1>27. ASSUME NEW a \in Accounts, JobFails(a)
      PROVE  IInv'
  <2>1. (WorkerInv /\ SentInv /\ LockInv /\ CreateInv /\ DeliveredIsCommitted)'
    BY <1>27 DEF IInv, WorkerInv, SentInv, LockInv, Holding, CreateInv,
        CreatePCs, DeliveredIsCommitted, JobFails, provider
  <2>2. AbsentInv'
    BY <1>27, <1>a, JobFailsFacts DEF IInv, AbsentInv, WorkerInv, JobFails,
        provider, Running, TypeOK
  <2>3. ClosedInv'
    BY <1>27, <1>a, JobFailsFacts DEF IInv, ClosedInv, Shut, AbsentInv,
        SentInv, WorkerInv, JobFails, provider, Running, TypeOK
  <2>4. RoleInv'
    BY <1>27, <1>a, JobFailsFacts DEF IInv, RoleInv, WorkerInv, LockInv,
        Holding, JobFails, provider, Running, TypeOK
  <2> QED BY <1>a, <2>1, <2>2, <2>3, <2>4 DEF IInv
<1>28. ASSUME NEW a \in Accounts, JobClose(a)
      PROVE  IInv'
  <2>1. (WorkerInv /\ SentInv /\ LockInv /\ RoleInv /\ CreateInv /\ DeliveredIsCommitted)'
    BY <1>28 DEF IInv, WorkerInv, SentInv, LockInv, Holding, RoleInv,
        CreateInv, CreatePCs, DeliveredIsCommitted, JobClose, provider
  <2>2. AbsentInv'
    BY <1>28, <1>a DEF IInv, AbsentInv, WorkerInv, JobClose, provider, Running,
        TypeOK
  <2>3. ClosedInv'
    BY <1>28, <1>a DEF IInv, ClosedInv, Shut, AbsentInv, SentInv, WorkerInv,
        JobClose, provider, Running, TypeOK
  <2> QED BY <1>a, <2>1, <2>2, <2>3 DEF IInv
<1>29. ASSUME NEW a \in Accounts, JobDelete(a)
      PROVE  IInv'
  <2>1. (WorkerInv /\ SentInv /\ LockInv /\ CreateInv /\ DeliveredIsCommitted)'
    BY <1>29 DEF IInv, WorkerInv, SentInv, LockInv, Holding, CreateInv,
        CreatePCs, DeliveredIsCommitted, JobDelete, provider
  <2>2. AbsentInv'
    BY <1>29, <1>a, FinishFacts DEF IInv, AbsentInv, WorkerInv, JobDelete,
        provider, Running, TypeOK
  <2>3. ClosedInv'
    BY <1>29, <1>a, FinishFacts DEF IInv, ClosedInv, Shut, AbsentInv, SentInv,
        WorkerInv, JobDelete, provider, Running, TypeOK
  <2>4. RoleInv'
    BY <1>29, <1>a, FinishFacts DEF IInv, RoleInv, WorkerInv, LockInv, Holding,
        JobDelete, provider, Running, TypeOK
  <2> QED BY <1>a, <2>1, <2>2, <2>3, <2>4 DEF IInv
<1>30. ASSUME NEW a \in Accounts, CreateLands(a)
      PROVE  IInv'
  <2>1. (WorkerInv /\ LockInv /\ RoleInv /\ CreateInv /\ DeliveredIsCommitted)'
    BY <1>30 DEF IInv, WorkerInv, LockInv, Holding, RoleInv, CreateInv,
        CreatePCs, DeliveredIsCommitted, CreateLands, provider
  <2>2. AbsentInv'
    BY <1>30, <1>a DEF IInv, AbsentInv, WorkerInv, CreateLands, provider, TypeOK
  <2>3. SentInv'
    BY <1>30, <1>a DEF IInv, SentInv, CreateLands, provider, TypeOK
  <2>4. ClosedInv'
    BY <1>30, <1>a DEF IInv, ClosedInv, Shut, AbsentInv, SentInv, WorkerInv,
        CreateLands, provider, TypeOK
  <2> QED BY <1>a, <2>1, <2>2, <2>3, <2>4 DEF IInv
<1>31. ASSUME NEW a \in Accounts, NEW r \in Roles, EnableLands(a, r)
      PROVE  IInv'
  <2>1. (WorkerInv /\ LockInv /\ RoleInv /\ CreateInv /\ DeliveredIsCommitted)'
    BY <1>31 DEF IInv, WorkerInv, LockInv, Holding, RoleInv, CreateInv,
        CreatePCs, DeliveredIsCommitted, EnableLands, provider
  <2>2. AbsentInv'
    BY <1>31, <1>a DEF IInv, AbsentInv, WorkerInv, EnableLands, provider, TypeOK
  <2>3. SentInv'
    BY <1>31, <1>a DEF IInv, SentInv, EnableLands, provider, TypeOK
  <2>4. ClosedInv'
    BY <1>31, <1>a DEF IInv, ClosedInv, Shut, AbsentInv, SentInv, WorkerInv,
        EnableLands, provider, TypeOK
  <2> QED BY <1>a, <2>1, <2>2, <2>3, <2>4 DEF IInv
<1>31d. ASSUME NEW a \in Accounts, DisableLands(a)
      PROVE  IInv'
  <2>1. (WorkerInv /\ SentInv /\ LockInv /\ RoleInv /\ CreateInv /\ DeliveredIsCommitted)'
    BY <1>31d DEF IInv, WorkerInv, SentInv, LockInv, Holding, RoleInv, CreateInv,
        CreatePCs, DeliveredIsCommitted, DisableLands
  <2>2. AbsentInv'
    BY <1>31d, <1>a, DisableLandsFacts DEF IInv, AbsentInv, DisableLands, Roles
  <2>3. ClosedInv'
    BY <1>31d, <1>a, DisableLandsFacts DEF IInv, ClosedInv, Shut, DisableLands, Roles
  <2> QED BY <1>a, <2>1, <2>2, <2>3 DEF IInv
<1>32. ASSUME NEW u \in Users, NEW g \in Grants, ChangeGrant(u, g)
      PROVE  IInv'
  <2>1. (WorkerInv /\ AbsentInv /\ SentInv /\ ClosedInv /\ LockInv /\ RoleInv /\ CreateInv /\
         DeliveredIsCommitted)'
    BY <1>32 DEF IInv, WorkerInv, AbsentInv, SentInv, ClosedInv, Shut, LockInv,
        Holding, RoleInv, CreateInv, CreatePCs, DeliveredIsCommitted,
        ChangeGrant, provider
  <2> QED BY <1>a, <2>1 DEF IInv
<1>33. ASSUME DeleteGateway PROVE IInv'
  <2>1. (WorkerInv /\ AbsentInv /\ SentInv /\ ClosedInv /\ RoleInv /\ CreateInv /\
         DeliveredIsCommitted)'
    BY <1>33 DEF IInv, WorkerInv, AbsentInv, SentInv, ClosedInv, Shut, RoleInv,
        CreateInv, CreatePCs, DeliveredIsCommitted, DeleteGateway, provider
  <2>2. LockInv'
    BY <1>33, <1>a DEF IInv, LockInv, Holding, WorkerInv, DeleteGateway,
        provider, Locks, Unlocked
  <2> QED BY <1>a, <2>1, <2>2 DEF IInv
<1>34. ASSUME NEW a \in Accounts, Tick(a)
      PROVE  IInv'
  <2>1. (SentInv /\ CreateInv)'
    BY <1>34 DEF IInv, SentInv, CreateInv, CreatePCs, Tick, provider
  <2>2. WorkerInv'
    BY <1>34, <1>a DEF IInv, WorkerInv, Tick, provider, Exists
  <2>3. AbsentInv'
    BY <1>34, <1>a DEF IInv, AbsentInv, WorkerInv, Tick, provider, Exists
  <2>4. ClosedInv'
    BY <1>34, <1>a DEF IInv, ClosedInv, Shut, AbsentInv, SentInv, WorkerInv,
        Tick, provider, Exists
  <2>5. LockInv'
    BY <1>34, <1>a DEF IInv, LockInv, Holding, WorkerInv, Tick, provider, Exists
  <2>6. RoleInv'
    BY <1>34, <1>a DEF IInv, RoleInv, WorkerInv, LockInv, Holding, Tick,
        provider, Exists
  <2>7. DeliveredIsCommitted'
    BY <1>34, <1>a DEF IInv, DeliveredIsCommitted, LockInv, WorkerInv,
        CreateInv, CreatePCs, Holding, Tick, provider, Exists, TypeOK
  <2> QED BY <1>a, <2>1, <2>2, <2>3, <2>4, <2>5, <2>6, <2>7 DEF IInv
<1> QED
  BY <1>0, <1>1, <1>2, <1>3, <1>4, <1>5, <1>6, <1>7, <1>8, <1>9,
     <1>10, <1>11, <1>12, <1>13, <1>14, <1>15, <1>16, <1>17, <1>18, <1>19,
     <1>20, <1>21, <1>22, <1>23, <1>24, <1>25, <1>26, <1>27, <1>28, <1>29,
     <1>30, <1>31, <1>31d, <1>32, <1>33, <1>34
  DEF Next, Create, Recover, Provisioner

LEMMA InvInit == Init => IInv
<1> SUFFICES ASSUME Init PROVE IInv
  OBVIOUS
<1>1. TypeOK
  BY TypeInit
<1>2. PICK legacy \in SUBSET Accounts, u \in Users :
          /\ row = [a \in Accounts |-> IF a \in legacy THEN LegacyRow(u) ELSE AbsentRow]
          /\ journal = [a \in Accounts |-> IF a \in legacy THEN "open" ELSE "none"]
          /\ made = [a \in Accounts |-> IF a \in legacy THEN "yes" ELSE "no"]
          /\ client = [a \in Accounts |-> IF a \in legacy THEN "admin" ELSE "absent"]
          /\ delivered = legacy
  BY DEF Init
<1>3. \A a \in Accounts :
        /\ a \in legacy => row[a].status = "degraded" /\ row[a].active
        /\ a \notin legacy => row[a].status = "absent" /\ ~row[a].active /\ ~row[a].deleted
  BY <1>2 DEF LegacyRow, AbsentRow
<1>4. \A w \in Workers : worker[w].pc = "idle"
  BY DEF Init, Idle
<1>5. \A a \in Accounts : job[a].kind = "idle" /\ sent[a] = {}
  BY DEF Init, NoJob
<1>6. WorkerInv /\ LockInv /\ RoleInv /\ CreateInv
  BY <1>4 DEF WorkerInv, LockInv, Holding, RoleInv, CreateInv, CreatePCs
<1>7. AbsentInv /\ SentInv /\ ClosedInv /\ DeliveredIsCommitted
  BY <1>2, <1>3, <1>5 DEF AbsentInv, SentInv, ClosedInv, DeliveredIsCommitted
<1> QED BY <1>1, <1>6, <1>7 DEF IInv

LEMMA InvHolds == Spec => []IInv
BY InvInit, InvNext, PTL DEF Spec

-----------------------------------------------------------------------------
\* Every value of every variable stays in its type, for every instance: the
\* handlers of Create, Change, Recover and gateway cleanup never write a row,
\* journal, job or worker state outside the ones the code knows.
THEOREM TypeCorrect == Spec => []TypeOK
<1>1. IInv => TypeOK
  BY DEF IInv
<1> QED BY <1>1, InvHolds, PTL

\* A released account never regains access, whatever late request, abandoned
\* job or second worker is still under way when cleanup confirms the deletion.
THEOREM ClosedForGood == Spec => []NoAccessAfterClosure
<1>1. IInv => NoAccessAfterClosure
  BY DEF IInv, AbsentInv, ClosedInv, Shut, NoAccessAfterClosure, Enabled, Roles
<1> QED BY <1>1, InvHolds, PTL

\* A returned secret belongs to a committed account that compensation of
\* Create never withdraws.
THEOREM SecretsAreCommitted == Spec => []DeliveredIsCommitted
<1>1. IInv => DeliveredIsCommitted
  BY DEF IInv
<1> QED BY <1>1, InvHolds, PTL

-----------------------------------------------------------------------------
\* Steps of a row

LEMMA SameRow ==
  ASSUME NEW a \in Accounts, row'[a] = row[a]
  PROVE  RowStep(a)
BY DEF RowStep, Terminal

\* A row that gets a terminal status, and is not moved out of "deleting",
\* takes a permitted step.
LEMMA TerminalRow ==
  ASSUME NEW a \in Accounts,
         row'[a].status \in {"revoking", "revoked", "expired", "error", "deleting"},
         row'[a].role = row[a].role,
         row[a].deleted => row'[a].deleted,
         row[a].status = "deleting" => row'[a].status = "deleting"
  PROVE  RowStep(a)
BY DEF RowStep, Terminal

LEMMA RowStepNext ==
  ASSUME IInv, Next, NEW b \in Accounts
  PROVE  RowStep(b)
<1>a. TypeOK
  BY DEF IInv
<1>1. CASE row' = row
  BY <1>1, SameRow
<1>2. ASSUME NEW w \in Workers, NEW u \in Users, NEW a \in Accounts, NEW r \in Roles,
             Reserve(w, u, a, r)
      PROVE  RowStep(b)
  <2>1. row[a].status = "absent" /\ ~row[a].deleted
    BY <1>2 DEF IInv, AbsentInv, Reserve
  <2>2. a # b => row'[b] = row[b]
    BY <1>2, <1>a DEF Reserve, TypeOK
  <2> QED BY <2>1, <2>2, SameRow DEF RowStep, Terminal
<1>3. ASSUME NEW w \in Workers, NEW a \in Accounts,
             CreateDenied(w, a) \/ CreateFails(w, a)
      PROVE  RowStep(b)
  <2>1. SetStatus(a, "error") /\ row[a].status = "provisioning"
    BY <1>3 DEF CreateDenied, CreateFails, IInv, LockInv, At
  <2> QED BY <1>a, <2>1, SetStatusFacts, SameRow, TerminalRow DEF Statuses
<1>4. ASSUME NEW w \in Workers, NEW a \in Accounts,
             CreateDelivers(w, a) \/ CreateCommitLost(w, a)
      PROVE  RowStep(b)
  <2>1. SetStatus(a, "ready") /\ row[a].status = "provisioning" /\ ~row[a].deleted
    BY <1>4 DEF CreateDelivers, CreateCommitLost, IInv, LockInv, Holding, At
  <2>2. row'[a].role = row[a].role /\ row'[a].status = "ready"
        /\ (a # b => row'[b] = row[b])
    BY <1>a, <2>1, SetStatusFacts DEF Statuses
  <2> QED BY <2>1, <2>2, SameRow DEF RowStep, Terminal
<1>5. ASSUME NEW w \in Workers, NEW a \in Accounts, Undo(w, a)
      PROVE  RowStep(b)
  <2>1. row' = row \/ (SetStatus(a, "error") /\ row[a].status # "deleting")
    BY <1>5 DEF Undo
  <2> QED BY <1>a, <2>1, SetStatusFacts, SameRow, TerminalRow DEF Statuses
<1>6. ASSUME NEW w \in Workers, NEW u \in Users, NEW a \in Accounts, NEW d \in BOOLEAN,
             Change(w, u, a, d)
      PROVE  RowStep(b)
  <2>1. \/ row' = row
        \/ SetStatus(a, "deleting")
        \/ SetStatus(a, "revoking") /\ row[a].status # "deleting"
    BY <1>6 DEF Change
  <2> QED BY <1>a, <2>1, SetStatusFacts, SameRow, TerminalRow DEF Statuses
<1>7. ASSUME NEW w \in Workers, NEW a \in Accounts, RecoverMark(w, a)
      PROVE  RowStep(b)
  BY <1>7, <1>a, MarkFacts, SameRow DEF RowStep, Terminal
<1>8. ASSUME NEW w \in Workers, NEW a \in Accounts, ReconcileDone(w, a)
      PROVE  RowStep(b)
  <2>1. /\ row[a].status = "degraded" /\ ~row[a].deleted /\ job[a].role = "user"
    BY <1>8 DEF ReconcileDone, At, Answered, IInv, LockInv, RoleInv, Holding
  <2> QED BY <1>8, <1>a, <2>1, ReconcileDoneFacts, SameRow DEF RowStep, Terminal
<1>9. ASSUME NEW w \in Workers, NEW a \in Accounts, ReconcileFails(w, a)
      PROVE  RowStep(b)
  <2>1. SetStatus(a, "revoking") /\ row[a].status # "deleting"
    BY <1>9 DEF ReconcileFails, Keeps, At, IInv, LockInv
  <2> QED BY <1>a, <2>1, SetStatusFacts, SameRow, TerminalRow DEF Statuses
<1>10. ASSUME NEW w \in Workers, NEW a \in Accounts, CloseDone(w, a)
      PROVE  RowStep(b)
  <2>1. ~row[a].deleted
    BY <1>10 DEF CloseDone, At, IInv, LockInv, Holding
  <2> QED BY <1>10, <1>a, <2>1, CloseDoneFacts, SameRow DEF RowStep, Terminal, Removes
<1>11. ASSUME NEW w \in Workers, NEW a \in Accounts, PurgeDone(w, a)
      PROVE  RowStep(b)
  BY <1>11, <1>a, PurgeDoneFacts, SameRow DEF RowStep, Terminal
<1>12. ASSUME NEW a \in Accounts, Tick(a)
      PROVE  RowStep(b)
  <2>1. /\ row'[a].status = row[a].status /\ row'[a].role = row[a].role
        /\ row'[a].deleted = row[a].deleted
        /\ a # b => row'[b] = row[b]
    BY <1>12, <1>a DEF Tick, TypeOK, Row
  <2> QED BY <2>1, SameRow DEF RowStep, Terminal
<1>13. ASSUME NEW w \in Workers, NEW a \in Accounts,
              \/ CallProvision(w, a) \/ CreateBusy(w, a) \/ CreateRolledBack(w, a)
              \/ SweepRow(w, a) \/ EnforceNothing(w, a) \/ CallReconcile(w, a)
              \/ CallClose(w, a) \/ CloseFails(w, a) \/ CallPurge(w, a)
       PROVE  row' = row
  BY <1>13 DEF CallProvision, CreateBusy, CreateRolledBack, SweepRow, EnforceNothing,
         CallReconcile, CallClose, CloseFails, CallPurge
<1>14. ASSUME NEW w \in Workers, Abandon(w) PROVE row' = row
  BY <1>14 DEF Abandon
<1>15. ASSUME NEW a \in Accounts, Provisioner(a) PROVE row' = row
  BY <1>15 DEF Provisioner, JobJournal, JobCreate, JobEnable, JobSucceeds, JobFails,
         JobClose, JobDelete, CreateLands, EnableLands, DisableLands, provider
<1>16. ASSUME DeleteGateway \/ \E u \in Users, g \in Grants : ChangeGrant(u, g)
       PROVE  row' = row
  BY <1>16 DEF DeleteGateway, ChangeGrant
<1> QED
  BY <1>1, <1>2, <1>3, <1>4, <1>5, <1>6, <1>7, <1>8, <1>9, <1>10, <1>11, <1>12, <1>13,
     <1>14, <1>15, <1>16
  DEF Next, Create, Recover

\* No step of any handler or sweep worker re-enables an account: terminal
\* intent and deletion are kept and the role is never raised.
THEOREM TerminalIsFinal == Spec => NeverReenabled
<1>1. IInv /\ [Next]_vars => [\A a \in Accounts : RowStep(a)]_vars
  BY RowStepNext
<1> QED BY <1>1, InvHolds, PTL DEF Spec, NeverReenabled

-----------------------------------------------------------------------------
\* The client and its role, next to IInv

\* A late disable request has cut the client off.
CutOff(a) == client[a] = "disabled" /\ a \in cut

\* What an account's status says of its client, of enable requests in flight
\* and of the provisioner's job.  A reservation is provisioned with the role of
\* its row and no other.  A degraded account is only ever reduced: nothing in
\* flight can raise it, and once its client has the lower role nothing is in
\* flight.  A ready account has no enable request under way.
AccessInv(a) ==
    /\ client[a] \in Roles => made[a] = "yes"
    /\ job[a].kind = "reconcile" => job[a].role = "user"
    /\ row[a].status = "provisioning" =>
          /\ job[a].kind # "reconcile"
          /\ job[a].kind = "provision" => job[a].role = row[a].role
          /\ client[a] \in {"absent", "disabled", row[a].role}
          /\ sent[a] \subseteq {row[a].role}
          /\ client[a] = row[a].role => sent[a] = {}
    /\ row[a].status = "degraded" =>
          /\ job[a].kind \notin {"provision", "abort"}
          /\ sent[a] \subseteq {"user"}
          /\ client[a] = "user" => sent[a] = {}
    /\ row[a].status \in {"provisioning", "degraded"}
          /\ job[a].kind \in {"provision", "reconcile"} /\ job[a].result = "ok" =>
          /\ journal[a] = "open" /\ sent[a] = {} /\ made[a] = "yes"
          /\ client[a] = job[a].role \/ CutOff(a)
    /\ row[a].status = "ready" =>
          /\ sent[a] = {} /\ made[a] = "yes"
          /\ client[a] \in {"absent", "disabled", row[a].role}
          /\ job[a].kind \in {"idle", "close"}
          /\ ~gatewayDeleted =>
                /\ journal[a] = "open" /\ job[a].kind = "idle"
                /\ client[a] = row[a].role \/ CutOff(a)

AccessInvAll == \A a \in Accounts : AccessInv(a)

\* The client, the requests in flight and the journal stay; the status stays
\* or becomes terminal; the job stays, ends, or loses its caller.
LEMMA AccessStays ==
  ASSUME NEW b \in Accounts, AccessInv(b),
         row'[b].status \in {row[b].status} \cup
             {"absent", "revoking", "revoked", "expired", "error", "deleting"},
         row'[b].role = row[b].role,
         journal'[b] = journal[b], made'[b] = made[b],
         client'[b] = client[b], sent'[b] = sent[b], b \in cut' <=> b \in cut,
         \/ job'[b].kind = "idle"
         \/ /\ job'[b].kind = job[b].kind /\ job'[b].role = job[b].role
            /\ job'[b].result = "ok" => job[b].result = "ok",
         gatewayDeleted => gatewayDeleted'
  PROVE  AccessInv(b)'
BY DEF AccessInv, CutOff

LEMMA AccessInit == Init => AccessInvAll
<1> SUFFICES ASSUME Init, NEW a \in Accounts PROVE AccessInv(a)
  BY DEF AccessInvAll
<1>1. PICK legacy \in SUBSET Accounts, u \in Users :
          /\ row = [x \in Accounts |-> IF x \in legacy THEN LegacyRow(u) ELSE AbsentRow]
          /\ made = [x \in Accounts |-> IF x \in legacy THEN "yes" ELSE "no"]
          /\ client = [x \in Accounts |-> IF x \in legacy THEN "admin" ELSE "absent"]
  BY DEF Init
<1>2. row[a].status \in {"absent", "degraded"}
  BY <1>1 DEF LegacyRow, AbsentRow
<1>3. client[a] = "absent" \/ (client[a] = "admin" /\ made[a] = "yes")
  BY <1>1
<1>4. sent[a] = {} /\ job[a] = NoJob
  BY DEF Init
<1> QED BY <1>2, <1>3, <1>4 DEF AccessInv, NoJob, Roles

\* Requests of handlers and of the sweep.
LEMMA AccessWorkers ==
  ASSUME IInv, AccessInvAll, NEW w \in Workers, NEW b \in Accounts,
         \/ Create(w)
         \/ \E u \in Users, a \in Accounts, d \in BOOLEAN : Change(w, u, a, d)
         \/ \E a \in Accounts : SweepRow(w, a) \/ Recover(w, a) \/ CallPurge(w, a)
         \/ Abandon(w)
  PROVE  AccessInv(b)'
<1>t. TypeOK /\ AccessInv(b) /\ row[b] \in Row /\ job[b] \in Job
  BY DEF IInv, AccessInvAll, TypeOK
<1>1. ASSUME NEW u \in Users, NEW a \in Accounts, NEW r \in Roles, Reserve(w, u, a, r)
      PROVE  AccessInv(b)'
  <2>1. UNCHANGED <<gatewayDeleted, provider, job>>
    BY <1>1 DEF Reserve
  <2>2. CASE a = b
    <3>1. /\ client[b] = "absent" /\ made[b] = "no" /\ job[b].kind = "idle"
          /\ sent[b] = {}
      BY <1>1, <2>2 DEF Reserve, IInv, AbsentInv, SentInv
    <3>2. row'[b].status = "provisioning" /\ row'[b].role = r
      BY <1>t, <1>1, <2>2 DEF Reserve, TypeOK
    <3> QED BY <2>1, <3>1, <3>2 DEF AccessInv, CutOff, provider, Roles
  <2>3. CASE a # b
    <3>1. row'[b] = row[b]
      BY <1>t, <1>1, <2>3 DEF Reserve, TypeOK
    <3> QED BY <1>t, <2>1, <3>1, AccessStays DEF provider
  <2> QED BY <2>2, <2>3
<1>2. ASSUME NEW a \in Accounts, CallProvision(w, a) PROVE AccessInv(b)'
  <2>1. /\ UNCHANGED <<gatewayDeleted, row, provider>>
        /\ row[a].status = "provisioning" /\ job[a].kind = "idle"
        /\ StartJob(a, "provision", row[a].role, w)
    BY <1>2 DEF CallProvision, StartJob
  <2>2. row[a].role \in Roles
    BY <1>t DEF TypeOK, Row
  <2>3. /\ job'[a].kind = "provision" /\ job'[a].role = row[a].role
        /\ job'[a].result = "running"
        /\ \A x \in Accounts : x # a => job'[x] = job[x]
    BY <1>t, <2>1, <2>2, StartJobFacts
  <2>4. CASE a = b
    BY <1>t, <2>1, <2>3, <2>4 DEF AccessInv, CutOff, provider
  <2>5. CASE a # b
    BY <1>t, <2>1, <2>3, <2>5, AccessStays DEF provider
  <2> QED BY <2>4, <2>5
<1>3. ASSUME NEW a \in Accounts, CreateDenied(w, a) \/ Undo(w, a) PROVE AccessInv(b)'
  <2>1. /\ UNCHANGED <<gatewayDeleted, provider, job>>
        /\ row' = row \/ SetStatus(a, "error")
    BY <1>3 DEF CreateDenied, Undo
  <2>2. row'[b].status \in {row[b].status, "error"} /\ row'[b].role = row[b].role
    BY <1>t, <2>1, SetStatusFacts DEF Statuses
  <2> QED BY <1>t, <2>1, <2>2, AccessStays DEF provider
<1>4. ASSUME NEW a \in Accounts,
             CreateBusy(w, a) \/ SweepRow(w, a) \/ EnforceNothing(w, a)
      PROVE  AccessInv(b)'
  <2>1. UNCHANGED <<gatewayDeleted, row, provider, job>>
    BY <1>4 DEF CreateBusy, SweepRow, EnforceNothing
  <2> QED BY <1>t, <2>1, AccessStays DEF provider
<1>5. ASSUME NEW a \in Accounts, CreateDelivers(w, a) \/ CreateCommitLost(w, a)
      PROVE  AccessInv(b)'
  <2>1. /\ UNCHANGED <<gatewayDeleted, provider>>
        /\ worker[w].pc = "provisioning" /\ worker[w].acct = a
        /\ job[a].kind = "provision" /\ job[a].result = "ok"
        /\ SetStatus(a, "ready") /\ EndJob(a)
    BY <1>5 DEF CreateDelivers, CreateCommitLost, At, Answered
  <2>2. row[a].status = "provisioning"
    BY <2>1 DEF IInv, LockInv
  <2>3. /\ row'[a].status = "ready" /\ row'[a].role = row[a].role
        /\ \A x \in Accounts : x # a => row'[x] = row[x]
    BY <1>t, <2>1, SetStatusFacts DEF Statuses
  <2>4. /\ job'[a].kind = "idle" /\ \A x \in Accounts : x # a => job'[x] = job[x]
    BY <1>t, <2>1, EndJobFacts
  <2>5. CASE a = b
    <3>1. /\ job[b].role = row[b].role /\ journal[b] = "open"
          /\ (client[b] = row[b].role \/ CutOff(b)) /\ sent[b] = {}
          /\ made[b] = "yes" /\ row[b].role \in Roles
      BY <1>t, <2>1, <2>2, <2>5 DEF AccessInv, Row
    <3> QED BY <2>1, <2>3, <2>4, <2>5, <3>1 DEF AccessInv, CutOff, provider
  <2>6. CASE a # b
    BY <1>t, <2>1, <2>3, <2>4, <2>6, AccessStays DEF provider
  <2> QED BY <2>5, <2>6
<1>6. ASSUME NEW a \in Accounts,
             CreateFails(w, a) \/ CreateRolledBack(w, a) \/ ReconcileFails(w, a)
      PROVE  AccessInv(b)'
  <2>1. /\ UNCHANGED <<gatewayDeleted, provider>>
        /\ row' = row \/ SetStatus(a, "error") \/ SetStatus(a, "revoking")
        /\ job' = job \/ LeaveJob(a)
    BY <1>6 DEF CreateFails, CreateRolledBack, ReconcileFails
  <2>2. /\ row'[b].status \in {row[b].status, "error", "revoking"}
        /\ row'[b].role = row[b].role
    BY <1>t, <2>1, SetStatusFacts DEF Statuses
  <2>3. \/ job'[b].kind = "idle"
        \/ /\ job'[b].kind = job[b].kind /\ job'[b].role = job[b].role
           /\ job'[b].result = "ok" => job[b].result = "ok"
    BY <1>t, <2>1, LeaveJobFacts
  <2> QED BY <1>t, <2>1, <2>2, <2>3, AccessStays DEF provider
<1>7. ASSUME NEW u \in Users, NEW a \in Accounts, NEW d \in BOOLEAN, Change(w, u, a, d)
      PROVE  AccessInv(b)'
  <2>1. /\ UNCHANGED <<gatewayDeleted, provider, job>>
        /\ row' = row \/ SetStatus(a, "deleting") \/ SetStatus(a, "revoking")
    BY <1>7 DEF Change
  <2>2. /\ row'[b].status \in {row[b].status, "deleting", "revoking"}
        /\ row'[b].role = row[b].role
    BY <1>t, <2>1, SetStatusFacts DEF Statuses
  <2> QED BY <1>t, <2>1, <2>2, AccessStays DEF provider
<1>8. ASSUME NEW a \in Accounts, RecoverMark(w, a) PROVE AccessInv(b)'
  <2>1. UNCHANGED <<gatewayDeleted, provider, job>>
    BY <1>8 DEF RecoverMark
  <2>2. CASE row'[b] = row[b]
    BY <1>t, <2>1, <2>2, AccessStays DEF provider
  <2>3. CASE row'[b] # row[b]
    <3>1. a = b /\ ~gatewayDeleted
      BY <1>t, <1>8, <2>3, MarkFacts DEF RecoverMark, Locks
    <3>2. \/ row[b].status = "ready" /\ row'[b].status = "revoking"
          \/ row[b].status = "ready" /\ row'[b].status = "degraded"
          \/ row[b].status = "degraded" /\ row'[b].status = "degraded"
      <4>1. row'[b].status \in {row[b].status, "revoking", "degraded"}
        BY <1>t, <1>8, <3>1, MarkFacts
      <4>2. row[b].status \in {"ready", "degraded"}
        BY <1>8, <2>3, <3>1 DEF RecoverMark
      <4>3. row'[b].status = "degraded" \/ row'[b].status = "revoking"
        BY <1>t, <1>8, <2>3, <3>1, <4>1, <4>2 DEF RecoverMark, SetStatus, TypeOK, Row
      <4> QED BY <1>t, <1>8, <3>1, <4>1, <4>2, <4>3, MarkFacts
    <3>3. row[b].role \in Roles
      BY <1>t DEF Row
    <3> QED BY <1>t, <2>1, <3>1, <3>2, <3>3 DEF AccessInv, CutOff, provider
  <2> QED BY <2>2, <2>3
<1>9. ASSUME NEW a \in Accounts, CallReconcile(w, a) PROVE AccessInv(b)'
  <2>1. /\ UNCHANGED <<gatewayDeleted, row, provider>>
        /\ row[a].status = "degraded" /\ worker[w].pc = "enforce"
        /\ worker[w].acct = a /\ job[a].kind = "idle"
    BY <1>9 DEF CallReconcile, Keeps, At, StartJob
  <2>2. row[a].role = "user"
    BY <2>1 DEF IInv, RoleInv
  <2>3. StartJob(a, "reconcile", "user", w)
    BY <1>9, <2>2 DEF CallReconcile
  <2>4. /\ job'[a].kind = "reconcile" /\ job'[a].role = "user"
        /\ job'[a].result = "running"
        /\ \A x \in Accounts : x # a => job'[x] = job[x]
    BY <1>t, <2>3, StartJobFacts DEF Roles
  <2>5. CASE a = b
    BY <1>t, <2>1, <2>4, <2>5 DEF AccessInv, CutOff, provider
  <2>6. CASE a # b
    BY <1>t, <2>1, <2>4, <2>6, AccessStays DEF provider
  <2> QED BY <2>5, <2>6
<1>10. ASSUME NEW a \in Accounts, ReconcileDone(w, a) PROVE AccessInv(b)'
  <2>1. /\ UNCHANGED <<gatewayDeleted, provider>>
        /\ worker[w].pc = "reconciling" /\ worker[w].acct = a
        /\ job[a].kind = "reconcile" /\ job[a].result = "ok" /\ EndJob(a)
    BY <1>10 DEF ReconcileDone, At, Answered
  <2>2. row[a].status = "degraded"
    BY <2>1 DEF IInv, LockInv
  <2>3. /\ row'[a].status = "ready" /\ row'[a].role = job[a].role
        /\ \A x \in Accounts : x # a => row'[x] = row[x]
    BY <1>t, <1>10, ReconcileDoneFacts
  <2>4. /\ job'[a].kind = "idle" /\ \A x \in Accounts : x # a => job'[x] = job[x]
    BY <1>t, <2>1, EndJobFacts
  <2>5. CASE a = b
    <3>1. /\ job[b].role = "user" /\ journal[b] = "open"
          /\ client[b] = "user" \/ CutOff(b)
          /\ sent[b] = {} /\ made[b] = "yes"
      BY <1>t, <2>1, <2>2, <2>5 DEF AccessInv
    <3> QED BY <2>1, <2>3, <2>4, <2>5, <3>1 DEF AccessInv, CutOff, provider
  <2>6. CASE a # b
    BY <1>t, <2>1, <2>3, <2>4, <2>6, AccessStays DEF provider
  <2> QED BY <2>5, <2>6
<1>11. ASSUME NEW a \in Accounts, CallClose(w, a) \/ CallPurge(w, a) PROVE AccessInv(b)'
  <2>1. /\ UNCHANGED <<gatewayDeleted, row, provider>>
        /\ StartJob(a, "close", "user", w) /\ job[a].kind = "idle"
        /\ row[a].status # "ready" \/ gatewayDeleted
    BY <1>11 DEF CallClose, CallPurge, StartJob, Purgeable, Removes
  <2>2. /\ job'[a].kind = "close" /\ job'[a].result = "running"
        /\ \A x \in Accounts : x # a => job'[x] = job[x]
    BY <1>t, <2>1, StartJobFacts DEF Roles
  <2>3. CASE a = b
    BY <1>t, <2>1, <2>2, <2>3 DEF AccessInv, CutOff, provider
  <2>4. CASE a # b
    BY <1>t, <2>1, <2>2, <2>4, AccessStays DEF provider
  <2> QED BY <2>3, <2>4
<1>12. ASSUME NEW a \in Accounts, CloseDone(w, a) \/ PurgeDone(w, a) \/ CloseFails(w, a)
       PROVE  AccessInv(b)'
  <2>1. UNCHANGED <<gatewayDeleted, provider>> /\ EndJob(a)
    BY <1>12 DEF CloseDone, PurgeDone, CloseFails
  <2>2. /\ row'[b].status \in {row[b].status, "revoked", "expired", "deleting"}
        /\ row'[b].role = row[b].role
    <3>1. CASE CloseDone(w, a)
      BY <1>t, <3>1, CloseDoneFacts
    <3>2. CASE PurgeDone(w, a)
      BY <1>t, <3>2, PurgeDoneFacts
    <3>3. CASE CloseFails(w, a)
      BY <3>3 DEF CloseFails
    <3> QED BY <1>12, <3>1, <3>2, <3>3
  <2>3. job'[b].kind = "idle" \/ job'[b] = job[b]
    BY <1>t, <2>1, EndJobFacts
  <2> QED BY <1>t, <2>1, <2>2, <2>3, AccessStays DEF provider
<1>13. ASSUME Abandon(w) PROVE AccessInv(b)'
  <2>1. /\ UNCHANGED <<gatewayDeleted, row, provider>>
        /\ job' = job \/ LeaveJob(worker[w].acct)
    BY <1>13 DEF Abandon
  <2>2. worker[w].acct \in Accounts
    BY <1>13 DEF Abandon, IInv, WorkerInv, TypeOK, Worker, Idle
  <2>3. \/ job'[b].kind = "idle"
        \/ /\ job'[b].kind = job[b].kind /\ job'[b].role = job[b].role
           /\ job'[b].result = "ok" => job[b].result = "ok"
    BY <1>t, <2>1, <2>2, LeaveJobFacts
  <2> QED BY <1>t, <2>1, <2>3, AccessStays DEF provider
<1> QED
  BY <1>1, <1>2, <1>3, <1>4, <1>5, <1>6, <1>7, <1>8, <1>9, <1>10, <1>11, <1>12, <1>13
  DEF Create, Recover

\* The provisioner's job and Keycloak.
LEMMA AccessProvisioner ==
  ASSUME IInv, AccessInvAll, NEW a \in Accounts, Provisioner(a), NEW b \in Accounts
  PROVE  AccessInv(b)'
<1>t. /\ TypeOK /\ AccessInv(b) /\ AccessInv(a) /\ row[a].role \in Roles
      /\ job[a].role \in Roles
  BY DEF IInv, AccessInvAll, TypeOK, Row, Job
<1>u. UNCHANGED <<gatewayDeleted, row>>
  BY DEF Provisioner, JobJournal, JobCreate, JobEnable, JobSucceeds, JobFails,
         JobClose, JobDelete, CreateLands, EnableLands, DisableLands
<1>o. ASSUME a # b PROVE AccessInv(b)'
  <2>1. /\ journal'[b] = journal[b] /\ made'[b] = made[b]
        /\ client'[b] = client[b] /\ sent'[b] = sent[b] /\ (b \in cut' <=> b \in cut)
    BY <1>t, <1>o, JobFailsFacts, DisableLandsFacts DEF TypeOK, Provisioner, JobJournal, JobCreate, JobEnable,
       JobSucceeds, JobFails, JobClose, JobDelete, CreateLands, EnableLands, DisableLands, provider
  <2>2. job'[b] = job[b]
    BY <1>t, <1>o, FinishFacts, JobFailsFacts, JobEnableFacts
    DEF Provisioner, JobJournal, JobCreate, JobEnable, JobSucceeds,
        JobClose, JobDelete, CreateLands, EnableLands, DisableLands
  <2> QED BY <1>t, <1>u, <2>1, <2>2, AccessStays
<1>1. ASSUME JobJournal(a) PROVE AccessInv(a)'
  BY <1>t, <1>u, <1>1 DEF JobJournal, Running, AccessInv, CutOff, TypeOK
<1>2. ASSUME JobCreate(a) PROVE AccessInv(a)'
  BY <1>t, <1>u, <1>2 DEF JobCreate, Running, AccessInv, CutOff, TypeOK
<1>3. ASSUME JobEnable(a) PROVE AccessInv(a)'
  <2>1. /\ job[a].kind \in {"provision", "reconcile"} /\ job[a].result = "running"
        /\ client'[a] = "disabled" /\ sent'[a] = sent[a] \cup {job[a].role}
        /\ job'[a].kind = job[a].kind /\ job'[a].role = job[a].role
        /\ job'[a].result = "running"
        /\ UNCHANGED <<journal, made>>
    BY <1>t, <1>3, JobEnableFacts DEF JobEnable, Running, TypeOK
  <2> QED BY <1>t, <1>u, <2>1 DEF AccessInv, CutOff, Roles
<1>4. ASSUME JobSucceeds(a) PROVE AccessInv(a)'
  <2>1. /\ job[a].kind \in {"provision", "reconcile"}
        /\ journal[a] = "open" /\ client[a] = job[a].role
        /\ UNCHANGED <<journal, made, client, sent, cut>> /\ Finish(a, "ok")
    BY <1>4 DEF JobSucceeds, Running, provider
  <2>2. \/ job'[a].kind = "idle"
        \/ job'[a].kind = job[a].kind /\ job'[a].role = job[a].role
    BY <1>t, <2>1, FinishFacts
  <2> QED BY <1>t, <1>u, <2>1, <2>2 DEF AccessInv, CutOff
<1>5. ASSUME JobFails(a) PROVE AccessInv(a)'
  <2>1. /\ \/ client'[a] = client[a]
           \/ /\ client'[a] = "disabled"
              /\ job[a].kind \in {"provision", "reconcile"}
        /\ UNCHANGED <<journal, made, sent, cut>>
    BY <1>t, <1>5, JobFailsFacts DEF JobFails, TypeOK
  <2>2. \/ job'[a].kind = "idle"
        \/ job[a].kind = "provision" /\ job'[a].kind = "abort"
        \/ /\ job[a].kind # "provision" /\ job'[a].kind = job[a].kind
           /\ job'[a].role = job[a].role /\ job'[a].result = "failed"
    BY <1>t, <1>5, JobFailsFacts
  <2> QED BY <1>t, <1>u, <2>1, <2>2 DEF AccessInv, CutOff, Roles
<1>6. ASSUME JobClose(a) PROVE AccessInv(a)'
  BY <1>t, <1>u, <1>6 DEF JobClose, Running, AccessInv, CutOff, TypeOK
<1>7. ASSUME JobDelete(a) PROVE AccessInv(a)'
  <2>1. /\ job[a].kind \in {"close", "abort"} /\ client'[a] = "absent"
        /\ UNCHANGED <<journal, made, sent>> /\ journal[a] = "closed"
    BY <1>t, <1>7 DEF JobDelete, Running, TypeOK
  <2>2. job'[a].kind \in {"idle", job[a].kind}
    BY <1>t, <1>7, FinishFacts DEF JobDelete
  <2>3. job'[a].kind # "provision" /\ job'[a].kind # "reconcile"
    BY <2>1, <2>2
  <2> QED BY <1>t, <1>u, <2>1, <2>2, <2>3 DEF AccessInv, CutOff, Roles
<1>8. ASSUME CreateLands(a) PROVE AccessInv(a)'
  <2>1. /\ made[a] = "sent" /\ made'[a] = "yes" /\ client'[a] = "disabled"
        /\ UNCHANGED <<journal, sent, job>>
    BY <1>t, <1>8 DEF CreateLands, TypeOK
  <2> QED BY <1>t, <1>u, <2>1 DEF AccessInv, CutOff, Roles
<1>9. ASSUME NEW r \in Roles, EnableLands(a, r) PROVE AccessInv(a)'
  <2>1. /\ r \in sent[a] /\ sent'[a] = sent[a] \ {r}
        /\ client'[a] \in {"absent", r} /\ (client[a] = "absent" <=> client'[a] = "absent")
        /\ UNCHANGED <<journal, made, job>>
    BY <1>t, <1>9 DEF EnableLands, TypeOK, Roles
  <2>2. made[a] = "yes"
    BY <1>t, <2>1 DEF IInv, SentInv, TypeOK
  <2> QED BY <1>t, <1>u, <2>1, <2>2 DEF AccessInv, CutOff, Roles
<1>9d. ASSUME DisableLands(a) PROVE AccessInv(a)'
  <2>1. /\ \/ client'[a] = client[a]
           \/ client[a] \in Roles /\ client'[a] = "disabled" /\ a \in cut'
        /\ cut \subseteq cut' /\ UNCHANGED <<journal, made, sent, job>>
    BY <1>t, <1>9d, DisableLandsFacts DEF DisableLands
  <2> QED BY <1>t, <1>u, <2>1 DEF AccessInv, CutOff, Roles
<1>10. CASE a = b
  BY <1>9d, <1>1, <1>2, <1>3, <1>4, <1>5, <1>6, <1>7, <1>8, <1>9, <1>10 DEF Provisioner
<1> QED BY <1>o, <1>10

LEMMA AccessNext == IInv /\ AccessInvAll /\ [Next]_vars => AccessInvAll'
<1> SUFFICES ASSUME IInv, AccessInvAll, [Next]_vars, NEW b \in Accounts
             PROVE  AccessInv(b)'
  BY DEF AccessInvAll
<1>t. TypeOK /\ AccessInv(b)
  BY DEF IInv, AccessInvAll
<1>1. CASE UNCHANGED vars
  BY <1>t, <1>1, AccessStays DEF vars
<1>2. ASSUME NEW a \in Accounts, Tick(a) PROVE AccessInv(b)'
  <2>1. row'[b].status = row[b].status /\ row'[b].role = row[b].role
    BY <1>t, <1>2 DEF Tick, TypeOK, Row
  <2>2. UNCHANGED <<gatewayDeleted, provider, job>>
    BY <1>2 DEF Tick
  <2> QED BY <1>t, <2>1, <2>2, AccessStays DEF provider
<1>3. ASSUME DeleteGateway \/ \E u \in Users, g \in Grants : ChangeGrant(u, g)
      PROVE  AccessInv(b)'
  <2>1. UNCHANGED <<row, provider, job>> /\ (gatewayDeleted => gatewayDeleted')
    BY <1>3 DEF DeleteGateway, ChangeGrant
  <2> QED BY <1>t, <2>1, AccessStays DEF provider
<1> QED BY <1>1, <1>2, <1>3, AccessWorkers, AccessProvisioner DEF Next

LEMMA AccessHolds == Spec => []AccessInvAll
<1> QED BY AccessInit, AccessNext, InvHolds, PTL DEF Spec

\* A ready account with the lower role cannot get the higher one, whatever
\* enable request is late and whichever job was left behind.
THEOREM RolesAreCapped == Spec => []RoleCeiling
<1>1. TypeOK /\ AccessInvAll => RoleCeiling
  BY DEF AccessInvAll, AccessInv, RoleCeiling
<1> QED BY <1>1, AccessHolds, TypeCorrect, PTL

\* An account that the API shows as ready is open and can log in, unless a disable
\* request that an earlier job gave up (disableClient, after its five seconds) is
\* applied late: no failure on the way is taken for a success, nothing else
\* disables the client of a ready row, and cleanup does not run ahead of its intent.
THEOREM ReadyMeansUsable == Spec => []ReadyIsUsable
<1>1. TypeOK /\ AccessInvAll => ReadyIsUsable
  BY DEF TypeOK, Row, AccessInvAll, AccessInv, CutOff, ReadyIsUsable, Enabled
<1> QED BY <1>1, AccessHolds, TypeCorrect, PTL
=============================================================================
