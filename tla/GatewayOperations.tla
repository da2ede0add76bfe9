-------------------------- MODULE GatewayOperations --------------------------
(***************************************************************************)
(* One use of the control plane from the browser, from the page that calls *)
(* it to the server and back: execute() with its probes, the control plane *)
(* adapter that maps failures, the generated client with its shared        *)
(* request slots, its 20 second timer and its two requests for a write     *)
(* (the session for its CSRF token, then the operation), and the fan-out   *)
(* of probes with the trace sink that opens and ends spans.  The failures  *)
(* that the telemetry runtime reports to the fan-out come from the module  *)
(* that composes both.                                                     *)
(*                                                                         *)
(* A request once sent may be handled at any time, also after the browser  *)
(* has given up on it, or never.  Abstracted: bodies and schemas to what   *)
(* the checks on them decide, identifiers, timestamps, and the content of  *)
(* probes.  Not modelled: the sign-out, and the server's own retries.      *)
(***************************************************************************)
EXTENDS Integers, FiniteSets

CONSTANTS
  Calls,      \* the invocations of one page life
  Uses,       \* what they may be: functions from calls to operations
  Refusals,   \* statuses that turn a request down
  Troubles,   \* statuses after which the request may have been carried out
  Slots,      \* requests that may be active at once (16 in the client)
  PageSize,   \* rows a list asks for
  MaxLosses   \* bound: deliveries missed before the sinks hold again

\* The operations.  A query passes its abort signal, a mutation has none.
Reads == {"get", "list", "find-placements", "get-placements", "session"}
Writes == {"create-service-account", "write"}
Ops == Reads \cup Writes

ASSUME OperationsAssumption ==
  /\ IsFiniteSet(Calls)
  /\ Uses \subseteq [Calls -> Ops]
  /\ Refusals \subseteq 400..499 \ {401, 408}
  /\ Troubles \subseteq {408} \cup 500..599
  /\ Slots \in Nat \ {0}
  /\ PageSize \in Nat \ {0}
  /\ MaxLosses \in Nat

VARIABLES
  call,      \* each invocation as the browser holds it
  active,    \* activeRequests, shared by every client of the page
  wire,      \* each invocation's request: not sent, sent, or its answer
  applied,   \* the writes the server has carried out
  signedIn,  \* the browser's session is valid at the server
  ended,     \* history: that session has ended at least once
  login,     \* the page has been sent to the sign-in
  probes     \* the fan-out: spans, probes, deliveries, counted failures

vars == <<call, active, wire, applied, signedIn, ended, login, probes>>

-----------------------------------------------------------------------------
None == "none"
OK == "ok"
Codes == {"busy", "invalid_input", "cancelled", "timeout", "request_failed",
          "reauth_required", "http_error", "invalid_response",
          "response_limit"}
NoError == [code |-> None, status |-> 0]
Errors == [code : Codes, status : {0, 401} \cup Refusals \cup Troubles]
Answers == {200, 401} \cup Refusals \cup Troubles
Kinds == {"cancelled", "conflict", "denied", "not-found", "unavailable",
          "unknown"}

\* Requests and their answers share one cell per call.
NotSent == 0
Sent == 1

Idle(op) == [op |-> op, at |-> "idle", error |-> NoError, result |-> None]

Running(c) == call[c].at \in {"session", "sent", "settling"}

-----------------------------------------------------------------------------
\* Failures as the adapter maps them, and the outcome execute() publishes.

\* Mutant: the conflict test also takes the statuses above it.
gatewayFailureKindConflicts(status) ==
  CASE status \in {401, 403} -> "denied"
    [] status = 404 -> "not-found"
    [] status >= 409 -> "conflict"
    [] status = 408 -> "unavailable"
    [] OTHER -> "unknown"

gatewayFailureKind(status) ==
  CASE status \in {401, 403} -> "denied"
    [] status = 404 -> "not-found"
    [] status = 409 -> "conflict"
    [] status \in {408, 429} \/ status >= 500 -> "unavailable"
    [] OTHER -> "unknown"

\* The kinds that tell the user the request was turned down.
Definite == {"denied", "not-found", "conflict"}

\* What an operation's own check says of a well-formed page of rows.
Page == [page : 1..2, total : 0..2, items : 0..2, known : BOOLEAN]

requirePage(p, asked) == p.page = asked

ExpectedItems(total, asked) ==
  LET left == total - (asked - 1) * PageSize
  IN  IF left < 0 THEN 0 ELSE IF left > PageSize THEN PageSize ELSE left

GatewayPageFits(p, asked) ==
  requirePage(p, asked) /\ p.items = ExpectedItems(p.total, asked)

PlacementsFit(p) == requirePage(p, 1) /\ p.items = ExpectedItems(p.total, 1)

\* The clusters of the gateways shown: no more than asked, and only those.
RequestedPlacementsFit(p) ==
  /\ requirePage(p, 1)
  /\ p.total <= PageSize /\ p.items = p.total
  /\ p.known

\* What the adapter makes of a body the client has accepted: a value, or
\* "unavailable" when a row has no identifier or the page does not fit.
Accepted(op, p, identified) ==
  CASE op = "list" -> GatewayPageFits(p, 2) /\ identified
    [] op = "find-placements" -> PlacementsFit(p) /\ identified
    [] op = "get-placements" -> RequestedPlacementsFit(p) /\ identified
    [] op \in {"get", "write"} -> identified
    [] OTHER -> TRUE

-----------------------------------------------------------------------------
\* The probe fan-out.  Every sink is tried in order; a failure is counted.

Sinks == {"recent", "trace", "performance"}
Breakable == {"trace", "performance"}

\* The trace sink's map from a correlation to its spans: none, the workflow
\* span alone, or with the dependency span.  A start is projected before the
\* log record that can fail, an end after it.
Spans == {"none", "workflow", "dependency"}

Projected(span, name) ==
  CASE name = "started" -> "workflow"
    [] name = "attempted" /\ span = "workflow" -> "dependency"
    [] name = "completed" /\ span = "dependency" -> "workflow"
    [] name = "finished" -> "none"
    [] OTHER -> span

Starts == {"started", "attempted"}

Traced(span, name, broken) ==
  IF broken /\ name \notin Starts THEN span ELSE Projected(span, name)

\* Mutant: the first sink that fails keeps the probe from the later ones.
PublishedUntilFailure(p, c, name, broken) ==
  LET reached == IF "trace" \in broken THEN {"recent"} ELSE Sinks \ broken
  IN  [spans |-> [p.spans EXCEPT ![c] =
                    Traced(@, name, "trace" \in broken)],
       count |-> p.count + 1,
       delivered |-> p.delivered + Cardinality(reached),
       failures |-> p.failures + IF broken = {} THEN 0 ELSE 1]

Published(p, c, name, broken) ==
  [spans |-> [p.spans EXCEPT ![c] = Traced(@, name, "trace" \in broken)],
   count |-> p.count + 1,
   delivered |-> p.delivered + Cardinality(Sinks \ broken),
   failures |-> p.failures + Cardinality(broken)]

\* Failures found outside a publish raise the same count, without a probe.
reportDeliveryFailure(p, n) == [p EXCEPT !.failures = @ + n]

\* Deliveries of published probes that did not happen.
Missed == 3 * probes.count - probes.delivered

\* Two probes in a row; either, or both, may meet failing sinks.
PublishPair(c, first, second) ==
  \E early \in SUBSET Breakable, late \in SUBSET Breakable :
    /\ early \cup late # {} => Missed < MaxLosses
    /\ probes' = Published(Published(probes, c, first, early), c, second, late)

\* The session query does not pass through execute().
Probed(op) == op # "session"

-----------------------------------------------------------------------------
Init ==
  /\ \E use \in Uses : call = [c \in Calls |-> Idle(use[c])]
  /\ active = 0
  /\ wire = [c \in Calls |-> NotSent]
  /\ applied = {}
  /\ signedIn = TRUE
  /\ ended = FALSE
  /\ login = FALSE
  /\ probes = [spans |-> [c \in Calls |-> "none"], count |-> 0,
               delivered |-> 0, failures |-> 0]

Reject(c, code, status) ==
  [call[c] EXCEPT !.at = "settling",
                  !.error = [code |-> code, status |-> status]]

\* The client turns an input down before it sends anything: too large, too
\* deep, or with what JSON cannot hold.
InputRefused(c) == Reject(c, "invalid_input", 0)

\* A body that does not fit the contract of its operation.
InvalidResponse(c) == Reject(c, "invalid_response", 0)

TakesSlot(c) == active' = IF active >= Slots THEN active ELSE active + 1

\* Mutant: a refused call gives back a slot it never had.
GivesSlotBackAlways(c) == active' = active - 1

GivesSlotBack(c) ==
  active' = IF call[c].error.code = "busy" THEN active ELSE active - 1

\* execute() up to the first await: both start probes, then run().
Start(c) ==
  /\ call[c].at = "idle"
  /\ IF Probed(call[c].op)
     THEN PublishPair(c, "started", "attempted")
     ELSE UNCHANGED probes
  /\ TakesSlot(c)
  /\ \/ /\ active >= Slots
        /\ call' = [call EXCEPT ![c] = Reject(c, "busy", 0)]
        /\ wire' = wire
     \/ /\ active < Slots
        /\ call' = [call EXCEPT ![c] = InputRefused(c)]
        /\ wire' = wire
     \/ /\ active < Slots
        /\ call[c].op \in Writes
        /\ call' = [call EXCEPT ![c].at = "session"]
        /\ wire' = wire
     \/ /\ active < Slots
        /\ call[c].op \in Reads
        /\ call' = [call EXCEPT ![c].at = "sent"]
        /\ wire' = [wire EXCEPT ![c] = Sent]
  /\ UNCHANGED <<applied, signedIn, ended, login>>

\* A write's first request: the session, for its CSRF token.  Its handler
\* turns nobody down: it answers 200, signed in or not, or with trouble.
SessionAnswered(c) ==
  /\ call[c].at = "session"
  /\ \/ /\ signedIn
        /\ call' = [call EXCEPT ![c].at = "sent"]
        /\ wire' = [wire EXCEPT ![c] = Sent]
     \/ /\ ~signedIn
        /\ call' = [call EXCEPT ![c] = Reject(c, "reauth_required", 401)]
        /\ wire' = wire
     \/ /\ \E code \in {"request_failed", "invalid_response", "response_limit"} :
             call' = [call EXCEPT ![c] = Reject(c, code, 0)]
        /\ wire' = wire
     \/ /\ \E status \in Troubles :
             call' = [call EXCEPT ![c] = Reject(c, "http_error", status)]
        /\ wire' = wire
  /\ UNCHANGED <<active, applied, signedIn, ended, login, probes>>

\* The server, at any time after the request was sent.  It may fail with
\* the write done.
ServerHandles(c) ==
  /\ wire[c] = Sent
  /\ \E status \in Answers :
       /\ status = 401 => ~signedIn
       /\ status = 200 => signedIn \/ call[c].op = "session"
       /\ wire' = [wire EXCEPT ![c] = status]
       /\ applied' \in
            CASE call[c].op \in Reads \/ status \in Refusals \cup {401} ->
                   {applied}
              [] call[c].op \in Writes /\ status = 200 ->
                   {applied \cup {c}}
              [] OTHER -> {applied, applied \cup {c}}
  /\ UNCHANGED <<call, active, signedIn, ended, login, probes>>

SessionEnds ==
  /\ signedIn
  /\ signedIn' = FALSE
  /\ ended' = TRUE
  /\ UNCHANGED <<call, active, wire, applied, login, probes>>

\* The answer arrives whole: request(), the schema, then the adapter's check.
Deliver(c) ==
  /\ call[c].at = "sent"
  /\ wire[c] \in Answers
  /\ LET op == call[c].op
         status == wire[c]
         settled(result) == [call[c] EXCEPT !.at = "settling",
                                            !.result = result]
     IN  \/ /\ status = 200
            /\ \E p \in Page, identified \in BOOLEAN :
                 call' = [call EXCEPT ![c] =
                   settled(IF Accepted(op, p, identified)
                           THEN OK ELSE "unavailable")]
         \/ /\ status = 200
            /\ call' = [call EXCEPT ![c] = InvalidResponse(c)]
         \/ call' = [call EXCEPT ![c] = Reject(c, "response_limit", 0)]
         \/ /\ status # 200
            /\ call' = [call EXCEPT ![c] =
                 Reject(c, IF status = 401 THEN "reauth_required"
                           ELSE "http_error", status)]
  /\ UNCHANGED <<active, wire, applied, signedIn, ended, login, probes>>

\* The connection fails, before or after the server has handled the request.
RequestLost(c) ==
  /\ call[c].at = "sent"
  /\ call' = [call EXCEPT ![c] = Reject(c, "request_failed", 0)]
  /\ UNCHANGED <<active, wire, applied, signedIn, ended, login, probes>>

\* A query is cancelled through its signal.
Cancel(c) ==
  /\ call[c].at = "sent"
  /\ call[c].op \in Reads
  /\ call' = [call EXCEPT ![c] = Reject(c, "cancelled", 0)]
  /\ UNCHANGED <<active, wire, applied, signedIn, ended, login, probes>>

\* Mutant: the timer covers the operation's request only.
TimesOutWhenSent(c) ==
  /\ call[c].at = "sent"
  /\ call' = [call EXCEPT ![c] = Reject(c, "timeout", 0)]
  /\ UNCHANGED <<active, wire, applied, signedIn, ended, login, probes>>

\* One timer for both requests of a call.
TimesOut(c) ==
  /\ call[c].at \in {"session", "sent"}
  /\ call' = [call EXCEPT ![c] = Reject(c, "timeout", 0)]
  /\ UNCHANGED <<active, wire, applied, signedIn, ended, login, probes>>

\* The sign-in is asked for once the session has ended.
Login(code) == login \/ code = "reauth_required"

mapSDKFailure(c) ==
  LET e == call[c].error
  IN  [kind |-> gatewayFailureKind(e.status),
       login |-> Login(e.code)]

\* The end of run(), of the adapter and of execute(): the slot is given back,
\* the failure mapped, both completion probes published, the promise settled.
Settle(c) ==
  /\ call[c].at = "settling"
  /\ GivesSlotBack(c)
  /\ IF Probed(call[c].op)
     THEN /\ PublishPair(c, "completed", "finished")
          /\ IF call[c].error = NoError
             THEN /\ call' = [call EXCEPT ![c].at = "done"]
                  /\ login' = login
             ELSE LET failure == mapSDKFailure(c)
                  IN  /\ call' = [call EXCEPT ![c].at = "done",
                                       ![c].error = NoError,
                                       ![c].result = failure.kind]
                      /\ login' = failure.login
     ELSE /\ call' = [call EXCEPT ![c].at = "done", ![c].error = NoError,
                        ![c].result = IF @ = None THEN "unknown" ELSE @]
          /\ UNCHANGED <<probes, login>>
  /\ UNCHANGED <<wire, applied, signedIn, ended>>

Next ==
  \/ SessionEnds
  \/ \E c \in Calls :
       \/ Start(c)
       \/ SessionAnswered(c)
       \/ ServerHandles(c)
       \/ Deliver(c)
       \/ RequestLost(c)
       \/ Cancel(c)
       \/ TimesOut(c)
       \/ Settle(c)

Spec == Init /\ [][Next]_vars

\* The browser's timer fires and its promise reactions run; the server, the
\* network and the user owe nothing.
FairSpec ==
  /\ Spec
  /\ \A c \in Calls : WF_vars(TimesOut(c)) /\ WF_vars(Settle(c))

-----------------------------------------------------------------------------
\* Properties.

\* Every variable holds a value of its kind: a settled call has a result, a
\* call that was answered has sent its request.
TypeOK ==
  /\ call \in [Calls -> [op : Ops,
                         at : {"idle", "session", "sent", "settling", "done"},
                         error : Errors \cup {NoError},
                         result : Kinds \cup {None, OK}]]
  /\ active \in 0..Slots
  /\ wire \in [Calls -> {NotSent, Sent} \cup Answers]
  /\ applied \subseteq {c \in Calls : wire[c] \in Answers}
  /\ signedIn \in BOOLEAN /\ ended \in BOOLEAN /\ login \in BOOLEAN
  /\ probes.spans \in [Calls -> Spans]
  /\ \A c \in Calls : call[c].at = "done" => call[c].result # None

\* What the page is told of a write is never wrong about the server: a denial,
\* a conflict or a missing resource means that the write was not carried out
\* and never will be, and success that it was.  A write whose answer is lost,
\* late or malformed ends as "unknown" or "unavailable" (gatewayFailureKind
\* over the client's errors), although the server may have carried it out.
NoFalseAnswer ==
  \A c \in Calls :
    call[c].at = "done" /\ call[c].op \in Writes =>
      /\ call[c].result \in Definite =>
           c \notin applied /\ wire[c] # Sent
      /\ call[c].result = OK => c \in applied

\* The slots in use are those of the calls that took one and have not
\* settled, whichever way they end: no path of run() leaks a slot or gives
\* back one it did not take, which would lock the page out or lift the limit.
SlotsExact ==
  active = Cardinality({c \in Calls : Running(c) /\ call[c].error.code # "busy"})

\* The page is sent to the sign-in only if its session has ended, and always
\* once an operation was refused for that reason: a 403 must not start a loop
\* of sign-ins, and a 401 must not strand the user (mapSDKFailure).
SignInWhenEnded ==
  /\ login => ended
  /\ \A c \in Calls :
       call[c].at = "done" /\ call[c].result = "denied" =>
         login \/ wire[c] \in Refusals

\* A call that has settled leaves an entry in the trace sink's map only at
\* the price of a delivery that was missed: calls that are cancelled, time
\* out or are refused a slot end their spans like the others.
SpansAccounted ==
  Cardinality({c \in Calls : call[c].at = "done" /\ probes.spans[c] # "none"})
    <= Missed

\* Every call settles, whatever the server and the network do, because one
\* timer covers the session request and the operation (run()).
CallsSettle ==
  \A c \in Calls :
    (call[c].at \in {"session", "sent"}) ~> (call[c].at = "done")

\* What the page is told agrees with the server: of a write, and of its session.
AnswersAreTrue == NoFalseAnswer /\ SignInWhenEnded
=============================================================================
