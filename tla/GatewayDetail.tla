---------------------------- MODULE GatewayDetail ----------------------------
(***************************************************************************)
(* The page of one gateway: its polled record, the bounded wait for the    *)
(* console's address, and the rename and delete dialogs of its header.     *)
(* A dialog knows only of the mutation that it sent itself: one that was   *)
(* sent on an earlier visit of the page, or from the gateway's row in the  *)
(* collection, goes on beside it, and its answer is handled like any.      *)
(*                                                                         *)
(* The control plane may publish any lifecycle at any time.  Time is       *)
(* counted from the start of the console wait, which is all the code       *)
(* compares; one tick is a part of the window, not of the poll interval.   *)
(* The page is rendered again when the record or its error changes, or by  *)
(* the user: an answer equal to the record held renders nothing.  The      *)
(* query cache (TanStack Query) is external, modelled as the page uses it. *)
(* Abstracted: labels, layout, endpoints, and OIDC parameters.             *)
(***************************************************************************)
EXTENDS Integers

CONSTANTS
  Lifecycles,   \* what the control plane publishes of a live gateway
  Opened,       \* the ones the page may be opened on
  Window,       \* ticks in gatewayConsoleReadyDeadlineMilliseconds
  MaxChanges,   \* bound: lifecycles published and mutations sent
  MaxRenames,   \* bound: renames the server accepts
  MaxMutations  \* bound: mutations under way at once

Phases == {"", "provisioning", "running", "failed", "deleting"}
Healths == {"", "healthy", "degraded"}
Lifecycle == [phase : Phases, health : Healths, routed : BOOLEAN,
              console : BOOLEAN]

ASSUME DetailAssumption ==
  /\ Lifecycles \subseteq {l \in Lifecycle : l.phase # "deleting"}
  /\ Opened \subseteq Lifecycles
  /\ Window \in Nat \ {0}
  /\ MaxChanges \in Nat
  /\ MaxRenames \in Nat
  /\ MaxMutations \in Nat

VARIABLES
  server,    \* the gateway's record at the server, or Gone
  changes,   \* lifecycles published and mutations sent so far
  data,      \* the record in the query cache
  fetch,     \* its request: state, and the record the server read for it
  failed,    \* the last request failed
  invalid,   \* the record was invalidated
  page,      \* shown, about to be left, or not mounted
  waited,    \* ticks since the tracker's start, None while there is none
  armed,     \* refetchInterval as it was last computed
  tip,       \* the console button as it was last rendered
  dialog,    \* the open dialog, and whether it reports a failure
  mutations, \* the mutations under way, by slot: kind, state, sender and the
             \* server's answer
  seen,      \* history: ticks for which the page has held a waiting record
  renamed,   \* history: the newest name an accepted rename has given
  accepted,  \* history: a deletion was accepted
  overlap,   \* history: a request left to finish had read the server before
             \* the newest of these
  undone,    \* history: the record is the answer of a rename that another
             \* accepted mutation had overtaken
  strayed    \* history: a mutation was under way beside those of the visit

query == <<data, fetch, failed, invalid>>
view == <<page, waited, armed, tip>>
past == <<accepted, overlap, undone, strayed>>
history == <<seen, renamed, past>>
vars == <<server, changes, query, view, dialog, mutations, history>>

None == -1
NoRecord == [life |-> [phase |-> "", health |-> "", routed |-> FALSE,
                       console |-> FALSE], name |-> None]
NoDialog == [kind |-> "none", failed |-> FALSE, draft |-> "same"]

\* The name in the rename dialog, once trimmed: empty, the gateway's, or new.
Drafts == {"empty", "same", "new"}
NoMutation == [kind |-> "none", state |-> "none", sender |-> "earlier",
               answer |-> NoRecord]
Slots == 1..MaxMutations
Gone == [NoRecord EXCEPT !.name = None - 1]
Record == [life : Lifecycles \cup {[l EXCEPT !.phase = "deleting"] :
                                     l \in Lifecycles},
           name : 0..MaxRenames]

-----------------------------------------------------------------------------
\* The decisions of gateway-data and gateway-connections.

States(r) == {r.life.phase, r.life.health} \ {""}

Transitional(r) ==
  \/ States(r) = {}
  \/ States(r) \cap {"provisioning", "degraded", "deleting"} # {}

AwaitingConsole(r) ==
  /\ r # NoRecord
  /\ r.life.routed /\ ~r.life.console
  /\ ~Transitional(r)
  /\ "failed" \notin States(r)

\* Mutant: the start is kept while the gateway is not waiting.
ResolveWaitKeepsStart(r, start) ==
  IF AwaitingConsole(r) /\ start = None THEN 0 ELSE start

\* resolveConsoleWaitStart, and the tracker that remembers its answer.
ResolveWait(r, start) ==
  CASE ~AwaitingConsole(r) -> None
    [] AwaitingConsole(r) /\ start = None -> 0
    [] OTHER -> start

\* Mutant: a settled gateway is not polled for its console.
NeedsPollingTransitional(r, start) == r # NoRecord /\ Transitional(r)

NeedsPolling(r, start) ==
  /\ r # NoRecord
  /\ \/ Transitional(r)
     \/ AwaitingConsole(r) /\ start # None /\ start < Window

ReadyToConnect(r) == r.life.phase = "running" /\ r.life.routed
Deleting(r) == r.life.phase = "deleting"

\* isGatewayConsolePastDeadline: a wait that has not begun is not over.
PastDeadline(start) == start # None /\ start >= Window

\* The console button of the header, with what its tooltip says.
Button(r, start) ==
  CASE ~ReadyToConnect(r) -> "none"
    [] ReadyToConnect(r) /\ r.life.console -> "open"
    [] OTHER -> IF PastDeadline(start) THEN "unavailable" ELSE "provisioning"

-----------------------------------------------------------------------------
\* The query of the page.

Idle == [state |-> "idle", read |-> NoRecord]
Sent == [state |-> "sent", read |-> NoRecord]

\* Every update of the query computes the tracker and the interval anew; the
\* header is rendered when something it uses has changed.
Observe(r, rendered) ==
  IF page = "away" THEN UNCHANGED <<waited, armed, tip, seen>>
  ELSE LET start == ResolveWait(r, waited)
       IN /\ waited' = start
          /\ armed' = NeedsPolling(r, start)
          /\ tip' = IF rendered THEN Button(r, start) ELSE tip
          /\ seen' = IF ~AwaitingConsole(r) THEN None
                     ELSE IF AwaitingConsole(data) THEN seen ELSE 0

Rendered == tip' = Button(data, waited)

\* The name in the rename dialog is compared with the name of the record, which
\* may change under it.
Redrafted(r) ==
  IF dialog.kind = "rename" /\ dialog.draft # "empty" /\ r.name # data.name
  THEN {[dialog EXCEPT !.draft = d] : d \in {"same", "new"}} ELSE {dialog}

\* A record older than what has been accepted.
Behind(r, name) == r.name < name \/ (accepted /\ ~Deleting(r))

\* refetchInterval fires.
Poll ==
  /\ page # "away" /\ armed
  /\ fetch.state = "idle"
  /\ fetch' = Sent
  /\ Observe(data, FALSE)
  /\ UNCHANGED <<server, changes, data, failed, invalid, page, dialog,
                 mutations, renamed, past>>

Read ==
  /\ fetch.state = "sent"
  /\ fetch' = [state |-> "read", read |-> server]
  /\ UNCHANGED <<server, changes, data, failed, invalid, view, dialog,
                 mutations, history>>

Answer ==
  /\ fetch.state = "read" /\ fetch.read # Gone
  /\ data' = fetch.read
  /\ fetch' = Idle
  /\ failed' = FALSE
  /\ invalid' = FALSE
  /\ Observe(fetch.read, fetch.read # data \/ failed)
  /\ dialog' \in Redrafted(fetch.read)
  /\ overlap' = (overlap /\ Behind(fetch.read, renamed))
  /\ undone' = FALSE
  /\ UNCHANGED <<server, changes, page, mutations, renamed, accepted, strayed>>

\* The request fails, or finds no gateway; the record held is kept.
Fail ==
  /\ fetch.state \in {"sent", "read"}
  /\ fetch' = Idle
  /\ failed' = TRUE
  /\ Observe(data, ~failed)
  /\ UNCHANGED <<server, changes, data, invalid, page, dialog, mutations,
                 renamed, past>>

-----------------------------------------------------------------------------
\* The page and the clock.

Tick ==
  /\ waited # None /\ waited < Window
  /\ waited' = waited + 1
  /\ seen' = seen + 1
  /\ UNCHANGED <<server, changes, query, page, armed, tip, dialog, mutations,
                 renamed, past>>

\* A menu, a tab or a notice renders the header again.
Interact ==
  /\ page = "shown" /\ data # NoRecord
  /\ Rendered
  /\ UNCHANGED <<server, changes, query, page, waited, armed, dialog,
                 mutations, history>>

\* The mutation that the visit has under way, which its dialog waits for.
Own(m) == mutations[m].state # "none" /\ mutations[m].sender = "page"

\* The page is unmounted: its request is aborted and its tracker forgotten,
\* a mutation goes on.
Leave ==
  /\ page # "away"
  /\ page' = "away"
  /\ fetch' = Idle
  /\ waited' = None /\ armed' = FALSE /\ tip' = "none"
  /\ seen' = None
  /\ dialog' = NoDialog
  /\ mutations' = [m \in Slots |-> IF Own(m)
                                   THEN [mutations[m] EXCEPT !.sender = "earlier"]
                                   ELSE mutations[m]]
  /\ strayed' = (strayed \/ \E m \in Slots : Own(m))
  /\ UNCHANGED <<server, changes, data, failed, invalid, renamed, accepted,
                 overlap, undone>>

\* The page is mounted: the record is fetched when there is none, or when it
\* is invalid or stale by its age.
Return ==
  /\ page = "away"
  /\ page' = "shown"
  /\ \E aged \in BOOLEAN :
       fetch' = IF data = NoRecord \/ invalid \/ failed \/ aged
                THEN Sent ELSE fetch
  /\ LET start == ResolveWait(data, None)
     IN /\ waited' = start
        /\ armed' = NeedsPolling(data, start)
        /\ tip' = Button(data, start)
        /\ seen' = start
  /\ UNCHANGED <<server, changes, data, failed, invalid, dialog, mutations,
                 renamed, past>>

-----------------------------------------------------------------------------
\* The dialogs of the header.

Open(kind) ==
  /\ page = "shown" /\ data # NoRecord /\ ~Deleting(data)
  /\ dialog.kind = "none"
  /\ dialog' = [NoDialog EXCEPT !.kind = kind]
  /\ Rendered
  /\ UNCHANGED <<server, changes, query, page, waited, armed, mutations,
                 history>>

\* The delete dialog is hidden while the record shows a deletion.
Visible ==
  \/ dialog.kind = "rename"
  \/ dialog.kind = "delete" /\ ~Deleting(data)

\* isPending of a dialog: of the mutation that it sent on this visit.
Pending(kind) == \E m \in Slots : Own(m) /\ mutations[m].kind = kind

\* A dialog is closed unless its mutation is under way.
Close(kind) ==
  /\ Visible /\ dialog.kind = kind /\ ~Pending(kind)
  /\ dialog' = NoDialog
  /\ Rendered
  /\ UNCHANGED <<server, changes, query, page, waited, armed, mutations,
                 history>>

CloseRename == Close("rename")
CloseDelete == Close("delete")

\* Typing in the rename dialog also takes back its notice of a failure.
EditName(draft) ==
  /\ dialog.kind = "rename" /\ ~Pending("rename")
  /\ dialog' = [dialog EXCEPT !.draft = draft, !.failed = FALSE]
  /\ UNCHANGED <<server, changes, query, view, mutations, history>>

\* The button of the rename dialog; a submitted empty name asks for one.
Submittable == ~Pending("rename") /\ dialog.draft # "same"

\* A mutation takes a free slot.
Send(kind, sender) ==
  \E m \in Slots :
    /\ \A n \in Slots : mutations[n].state = "none" => m <= n
    /\ mutations[m].state = "none"
    /\ changes < MaxChanges /\ changes' = changes + 1
    /\ mutations' = [mutations EXCEPT
         ![m] = [NoMutation EXCEPT !.kind = kind, !.state = "sent",
                                   !.sender = sender]]

Mutate ==
  /\ Send(dialog.kind, "page")
  /\ dialog' = [dialog EXCEPT !.failed = FALSE]
  /\ UNCHANGED <<server, query, view, history>>

SubmitRename ==
  /\ dialog.kind = "rename" /\ Submittable /\ dialog.draft # "empty"
  /\ Mutate

ConfirmDelete ==
  /\ Visible /\ dialog.kind = "delete" /\ ~Pending("delete")
  /\ Mutate

\* The row of the gateway in the collection has the same dialogs.
SendFromRow(kind) ==
  /\ page = "away"
  /\ Send(kind, "list")
  /\ strayed' = TRUE
  /\ UNCHANGED <<server, query, view, dialog, seen, renamed, accepted,
                 overlap, undone>>

\* A mutation has ended: its dialog is closed, if the visit sent it.
Ended(m, dialogs) ==
  /\ mutations' = [mutations EXCEPT ![m] = NoMutation]
  /\ dialog' \in IF Own(m) THEN {NoDialog} ELSE dialogs

\* The server applies a rename.
ApplyRename(m) ==
  /\ mutations[m].kind = "rename" /\ mutations[m].state = "sent"
  /\ server # Gone /\ ~Deleting(server) /\ server.name < MaxRenames
  /\ server' = [server EXCEPT !.name = @ + 1]
  /\ mutations' = [mutations EXCEPT ![m].state = "applied", ![m].answer = server']
  /\ UNCHANGED <<changes, query, view, dialog, history>>

\* onSuccess of the rename: the answer becomes the record, whatever was accepted
\* since it was sent; a request under way is left to finish.
RenameSucceeds(m) ==
  LET answer == mutations[m].answer
  IN /\ mutations[m].kind = "rename" /\ mutations[m].state = "applied"
     /\ Ended(m, Redrafted(answer))
     /\ data' = answer
     /\ failed' = FALSE
     /\ invalid' = FALSE
     /\ Observe(answer, TRUE)
     /\ renamed' = IF answer.name > renamed THEN answer.name ELSE renamed
     /\ overlap' = (fetch.state = "read" /\ Behind(fetch.read, renamed'))
     /\ undone' = Behind(answer, renamed)
     /\ UNCHANGED <<server, changes, fetch, page, accepted, strayed>>

ApplyDelete(m) ==
  /\ mutations[m].kind = "delete" /\ mutations[m].state = "sent"
  /\ server # Gone
  /\ server' = [server EXCEPT !.life.phase = "deleting"]
  /\ mutations' = [mutations EXCEPT ![m].state = "applied"]
  /\ UNCHANGED <<changes, query, view, dialog, history>>

\* The host's onDeletionAccepted leaves a mounted page for the collection, also
\* on behalf of an earlier visit; the row's only shows a notice.
Navigated(m) ==
  IF page = "away" \/ mutations[m].sender = "list" THEN page ELSE "leaving"

\* Mutant: only the collection is invalidated.
DeletionAcceptedKeepsDetail(m) ==
  /\ mutations[m].kind = "delete" /\ mutations[m].state = "applied"
  /\ Ended(m, {dialog})
  /\ accepted' = TRUE
  /\ page' = Navigated(m)
  /\ UNCHANGED <<server, changes, query, waited, armed, tip, seen, renamed,
                 overlap, undone, strayed>>

\* A request that invalidateQueries does not drop: there is no record yet.
FirstLoad == data = NoRecord /\ fetch.state # "idle"

\* onSuccess of the deletion: the host navigates to the collection, and the
\* record is invalidated, which drops a running request of a mounted page and
\* sends a new one.
DeletionAccepted(m) ==
  /\ mutations[m].kind = "delete" /\ mutations[m].state = "applied"
  /\ Ended(m, {dialog})
  /\ accepted' = TRUE
  /\ page' = Navigated(m)
  /\ invalid' = TRUE
  /\ fetch' = IF page = "away" \/ FirstLoad THEN fetch ELSE Sent
  /\ Observe(data, TRUE)
  /\ overlap' = (overlap \/ (fetch'.state = "read" /\ ~Deleting(fetch'.read)))
  /\ UNCHANGED <<server, changes, data, failed, renamed, undone, strayed>>

\* The server refuses, or the answer is lost: the dialog that asked says so.
MutationFails(m, kind) ==
  /\ mutations[m].kind = kind /\ mutations[m].state \in {"sent", "applied"}
  /\ mutations' = [mutations EXCEPT ![m] = NoMutation]
  /\ dialog' = [dialog EXCEPT !.failed = @ \/ Own(m)]
  /\ UNCHANGED <<server, changes, query, view, history>>

RenameFails(m) == MutationFails(m, "rename")
DeletionFails(m) == MutationFails(m, "delete")

-----------------------------------------------------------------------------
\* The control plane.

Publish(l) ==
  /\ server # Gone /\ ~Deleting(server)
  /\ changes < MaxChanges
  /\ l # server.life
  /\ server' = [server EXCEPT !.life = l]
  /\ changes' = changes + 1
  /\ UNCHANGED <<query, view, dialog, mutations, history>>

Remove ==
  /\ server # Gone /\ Deleting(server)
  /\ server' = Gone
  /\ UNCHANGED <<changes, query, view, dialog, mutations, history>>

Init ==
  /\ server \in {[life |-> l, name |-> 0] : l \in Opened}
  /\ changes = 0
  /\ data = NoRecord /\ fetch = Sent /\ failed = FALSE /\ invalid = FALSE
  /\ page = "shown" /\ waited = None /\ armed = FALSE /\ tip = "none"
  /\ dialog = NoDialog
  /\ mutations = [m \in Slots |-> NoMutation]
  /\ seen = None /\ renamed = 0 /\ accepted = FALSE
  /\ overlap = FALSE /\ undone = FALSE /\ strayed = FALSE

Next ==
  \/ Poll \/ Read \/ Answer \/ Fail
  \/ Tick \/ Interact \/ Leave \/ Return
  \/ \E kind \in {"rename", "delete"} : Open(kind)
  \/ CloseRename \/ CloseDelete
  \/ \E draft \in Drafts : EditName(draft)
  \/ SubmitRename \/ ConfirmDelete
  \/ \E kind \in {"rename", "delete"} : SendFromRow(kind)
  \/ \E m \in Slots : \/ ApplyRename(m) \/ RenameSucceeds(m)
                      \/ ApplyDelete(m) \/ DeletionAccepted(m)
                      \/ RenameFails(m) \/ DeletionFails(m)
  \/ \E l \in Lifecycles : Publish(l)
  \/ Remove

Spec == Init /\ [][Next]_vars

\* Time passes, timers fire while the page is in the foreground, every request
\* ends (the client aborts it after its time), and requests repeated for ever
\* are not refused for ever.
Fairness ==
  /\ WF_vars(Tick)
  /\ WF_vars(Poll)
  /\ WF_vars(Answer \/ Fail)
  /\ SF_vars(Read)
  /\ SF_vars(Answer)

FairSpec == Spec /\ Fairness

-----------------------------------------------------------------------------
\* Properties.

\* The page, its record and its dialogs hold what the code can put there.
TypeOK ==
  /\ server \in Record \cup {Gone} /\ changes \in 0..MaxChanges
  /\ data \in Record \cup {NoRecord}
  /\ fetch.state \in {"idle", "sent", "read"}
  /\ fetch.read \in Record \cup {NoRecord, Gone}
  /\ failed \in BOOLEAN /\ invalid \in BOOLEAN
  /\ page \in {"shown", "leaving", "away"}
  /\ waited \in None..Window /\ armed \in BOOLEAN
  /\ tip \in {"none", "open", "provisioning", "unavailable"}
  /\ dialog \in [kind : {"none", "rename", "delete"}, failed : BOOLEAN,
                 draft : Drafts]
  /\ mutations \in [Slots -> [kind : {"none", "rename", "delete"},
                              state : {"none", "sent", "applied"},
                              sender : {"page", "earlier", "list"},
                              answer : Record \cup {NoRecord}]]
  /\ seen \in None..Window /\ renamed \in 0..MaxRenames
  /\ accepted \in BOOLEAN /\ overlap \in BOOLEAN
  /\ undone \in BOOLEAN /\ strayed \in BOOLEAN

\* The page says that the console is unavailable only after it has held a
\* gateway that waits for it, without a break, for the whole window: a gateway
\* that was degraded or routed anew gets a full window again
\* (resolveConsoleWaitStart, useConsoleWaitTracker).
UnavailableIsEarned == tip = "unavailable" => seen = Window

\* After an accepted rename the page shows the new name, whether the gateway
\* is polled or not (setQueryData of the dialog).  Two answers are excepted,
\* each until the next one: of a request that had read the server before the
\* rename and that setQueryData does not cancel, and of another rename that was
\* under way beside those of the visit and was overtaken by a newer one.
RenameIsShown ==
  data # NoRecord /\ fetch.state = "idle" /\ ~overlap /\ ~(undone /\ strayed)
    => data.name >= renamed

\* After its deletion was accepted the gateway is never again shown as live:
\* a page that is opened on the old record is loading it anew, or says
\* that it failed to (invalidateQueries of the detail, which outlives the
\* request that leaving the page aborts).  As long as the page is not left with
\* a mutation under way, and none is sent from the collection, there is no
\* exception.  Else there are two, until the next answer: of a rename that the
\* deletion overtook, and of a first load that had read the server before it.
DeletionIsShown ==
  page # "away" /\ accepted /\ fetch.state = "idle" /\ ~failed
    => Deleting(data) \/ (strayed /\ (undone \/ overlap))

Settled(r) == r # Gone /\ ~Transitional(r)

\* A gateway whose lifecycle has settled is not polled for ever, also when its
\* console never comes (gatewayConsoleReadyDeadlineMilliseconds).
PollingEnds ==
  (changes = MaxChanges /\ Settled(server))
    ~> (~armed \/ ~Settled(server))

Acting == \E m \in Slots : mutations[m].state # "none"

Awaited ==
  /\ page = "shown" /\ AwaitingConsole(data) /\ waited < Window
  /\ fetch.state = "idle"
  /\ ReadyToConnect(server) /\ server.life.console
  /\ ~Acting

\* A console published while the page waits for it gets its button without a
\* refresh, unless the page is left, the gateway changes again, the user is
\* acting on it, or the last request of the window fails.
ConsoleArrives ==
  Awaited ~> (\/ tip = "open" \/ failed \/ page # "shown"
              \/ ~(ReadyToConnect(server) /\ server.life.console)
              \/ Acting)

\* What the server accepted from this page is what the page shows, whatever
\* polls and navigation run beside the request.
MutationsAreShown == RenameIsShown /\ DeletionIsShown

\* The wait for a console is neither endless nor in vain.
WaitIsBounded == PollingEnds /\ ConsoleArrives
=============================================================================
