------------------------ MODULE BrowserRuntimeProofs ------------------------
(***************************************************************************)
(* What runs beneath the pages, for any number of calls, runtimes and      *)
(* callbacks and any limits.  Of the calls to the control plane: what the  *)
(* page is told of a write and of its session is true, the count of        *)
(* request slots is exact, and probes and spans are accounted for.  Of the *)
(* telemetry runtime: losses are reported once, and its limits hold.       *)
(***************************************************************************)
EXTENDS BrowserRuntime, FiniteSetTheorems, TLAPS

\* The calls that hold a slot.
Holders == {c \in Calls : Running(c) /\ call[c].error.code # "busy"}

CallRecord ==
  [op : Ops, at : {"idle", "session", "sent", "settling", "done"},
   error : Errors \cup {NoError}, result : Kinds \cup {None, OK}]

Types ==
  /\ call \in [Calls -> CallRecord]
  /\ wire \in [Calls -> {NotSent, Sent} \cup Answers]
  /\ applied \subseteq Calls
  /\ signedIn \in BOOLEAN /\ ended \in BOOLEAN /\ login \in BOOLEAN

\* The server carries a write out only with an answer that admits it, and
\* always with a success.  It asks for a sign-in only once the session has ended.
ServerInv(c) ==
  /\ c \in applied => wire[c] \in {200} \cup Troubles
  /\ wire[c] = 200 /\ call[c].op \in Writes => c \in applied
  /\ wire[c] = 401 => ended

\* Until a call settles its record says nothing yet.
OpenInv(c) ==
  /\ call[c].at \in {"idle", "session", "sent"} =>
       call[c].error = NoError /\ call[c].result = None
  /\ call[c].at \in {"idle", "session"} => wire[c] = NotSent

\* What a settling call has been told is what the server answered, or says
\* nothing of the server.
SettlingInv(c) ==
  call[c].at = "settling" =>
    /\ call[c].error = NoError =>
         wire[c] = 200 /\ call[c].result \in {OK, "unavailable"}
    /\ call[c].error # NoError => call[c].result = None
    /\ call[c].error.status \in Refusals => wire[c] = call[c].error.status
    /\ call[c].error.status = 401 =>
         call[c].error.code = "reauth_required" /\ wire[c] \in {NotSent, 401}
    /\ call[c].error.code = "reauth_required" => ended

\* And what the page was told in the end.
DoneInv(c) ==
  call[c].at = "done" =>
    /\ call[c].result \in Definite => wire[c] \in {NotSent, 401} \cup Refusals
    /\ call[c].result = OK => wire[c] = 200
    /\ call[c].result = "denied" => login \/ wire[c] \in Refusals

SessionInv == (signedIn \/ ended) /\ (login => ended)

CallInv(c) == ServerInv(c) /\ OpenInv(c) /\ SettlingInv(c) /\ DoneInv(c)

IInv == Types /\ SessionInv /\ \A c \in Calls : CallInv(c)

-----------------------------------------------------------------------------
\* What the statuses are: answers of the server differ from the two marks of
\* a request without one, and refusals from troubles.
LEMMA Statuses ==
  /\ Refusals \subseteq Int /\ Troubles \subseteq Int
  /\ 200 \notin Refusals \cup Troubles /\ 401 \notin Refusals \cup Troubles
  /\ 0 \notin Answers /\ 1 \notin Answers /\ 0 \notin Refusals
  /\ 403 \notin Troubles /\ 404 \notin Troubles /\ 409 \notin Troubles
  /\ Refusals \cap Troubles = {}
BY OperationsAssumption DEF Answers

\* The errors the client can raise, and the failure each is mapped to: only a
\* refusal or an ended session is reported as definite.
LEMMA DefiniteKinds ==
  ASSUME NEW s \in {0, 401} \cup Refusals \cup Troubles
  PROVE  /\ gatewayFailureKind(s) \in Kinds
         /\ gatewayFailureKind(s) \in Definite => s = 401 \/ s \in Refusals
         /\ gatewayFailureKind(s) # OK
BY Statuses DEF gatewayFailureKind, Kinds, Definite, OK

LEMMA InitInv == Init => IInv
<1>1. SUFFICES ASSUME Init PROVE IInv
  OBVIOUS
<1>2. PICK use \in Uses : call = [c \in Calls |-> Idle(use[c])]
  BY <1>1 DEF Init
<1>3. use \in [Calls -> Ops]
  BY OperationsAssumption
<1>4. Types
  BY <1>1, <1>2, <1>3 DEF Init, Types, CallRecord, Idle, Kinds
<1>5. \A c \in Calls : CallInv(c)
  BY <1>1, <1>2, <1>3 DEF Init, CallInv, ServerInv, OpenInv, SettlingInv, DoneInv,
     Idle, NotSent
<1> QED
  BY <1>1, <1>4, <1>5 DEF Init, IInv, SessionInv

-----------------------------------------------------------------------------
\* A step of one call leaves what is known of the others.
LEMMA Others ==
  ASSUME NEW d \in Calls, CallInv(d), Types, Types',
         call'[d] = call[d], wire'[d] = wire[d],
         d \in applied' <=> d \in applied,
         ended => ended', login => login'
  PROVE  CallInv(d)'
BY DEF CallInv, ServerInv, OpenInv, SettlingInv, DoneInv, Types

\* A refusal of the client ends the call without a result.
LEMMA Rejected ==
  ASSUME Types, NEW c \in Calls, NEW code \in Codes,
         NEW status \in {0, 401} \cup Refusals \cup Troubles
  PROVE  /\ Reject(c, code, status) \in CallRecord
         /\ Reject(c, code, status).op = call[c].op
         /\ Reject(c, code, status).at = "settling"
         /\ Reject(c, code, status).result = call[c].result
         /\ Reject(c, code, status).error = [code |-> code, status |-> status]
<1>1. call[c] \in CallRecord
  BY DEF Types
<1>2. [code |-> code, status |-> status] \in Errors
  BY DEF Errors
<1> QED
  BY <1>1, <1>2 DEF CallRecord, Reject

LEMMA CodesDiffer == NoError.code \notin Codes /\ NoError.status = 0
BY DEF NoError, Codes, None

LEMMA StartInv ==
  ASSUME IInv, NEW c \in Calls, Start(c)
  PROVE  IInv'
<1> USE DEF NotSent, Sent
<1>1. Types /\ CallInv(c) /\ call[c].at = "idle"
  BY DEF IInv, Start
<1>2. wire[c] = NotSent /\ c \notin applied /\ call[c].error = NoError
      /\ call[c].result = None
  BY <1>1, Statuses DEF CallInv, ServerInv, OpenInv, Answers
<1>3. UNCHANGED <<applied, signedIn, ended, login>>
  BY DEF Start
<1>4. CASE \E code \in {"busy", "invalid_input"} :
             call' = [call EXCEPT ![c] = Reject(c, code, 0)] /\ wire' = wire
  <2>1. PICK code \in {"busy", "invalid_input"} :
          call' = [call EXCEPT ![c] = Reject(c, code, 0)] /\ wire' = wire
    BY <1>4
  <2>2. code \in Codes /\ code # "reauth_required"
    BY DEF Codes
  <2>3. Types'
    BY <1>1, <1>3, <2>1, <2>2, Rejected DEF Types
  <2>4. /\ call'[c].error = [code |-> code, status |-> 0]
        /\ call'[c].at = "settling" /\ call'[c].result = None
        /\ call'[c].op = call[c].op /\ wire'[c] = NotSent
    BY <1>1, <1>2, <2>1, <2>2, Rejected DEF Types
  <2>5. CallInv(c)'
    BY <1>2, <1>3, <2>2, <2>4, CodesDiffer, Statuses
       DEF CallInv, ServerInv, OpenInv, SettlingInv, DoneInv
  <2>6. \A d \in Calls \ {c} : CallInv(d)'
    BY <1>1, <1>3, <2>1, <2>3, Others DEF IInv, Types
  <2> QED
    BY <1>3, <2>3, <2>5, <2>6 DEF IInv, SessionInv
<1>5. CASE \E at \in {"session", "sent"} :
             /\ call' = [call EXCEPT ![c].at = at]
             /\ \/ at = "session" /\ wire' = wire
                \/ at = "sent" /\ wire' = [wire EXCEPT ![c] = Sent]
  <2>1. PICK at \in {"session", "sent"} :
             /\ call' = [call EXCEPT ![c].at = at]
             /\ \/ at = "session" /\ wire' = wire
                \/ at = "sent" /\ wire' = [wire EXCEPT ![c] = Sent]
    BY <1>5
  <2>2. Types'
    BY <1>1, <1>3, <2>1 DEF Types, CallRecord
  <2>3. /\ call'[c].error = NoError /\ call'[c].result = None
        /\ call'[c].at = at /\ wire'[c] = IF at = "sent" THEN Sent ELSE NotSent
    BY <1>1, <1>2, <2>1 DEF Types, CallRecord
  <2>4. CallInv(c)'
    BY <1>2, <1>3, <2>3, Statuses
       DEF CallInv, ServerInv, OpenInv, SettlingInv, DoneInv
  <2>5. \A d \in Calls \ {c} : CallInv(d)'
    BY <1>1, <1>3, <2>1, <2>2, Others DEF IInv, Types
  <2> QED
    BY <1>3, <2>2, <2>4, <2>5 DEF IInv, SessionInv
<1> QED
  BY <1>4, <1>5 DEF Start, InputRefused

\* A rejection without an answer of the server, or with the one it was given.
Founded(c, code, status) ==
  /\ code \in Codes
  /\ status \in {0, 401} \cup Refusals \cup Troubles
  /\ status \in Refusals => wire[c] = status
  /\ status = 401 => code = "reauth_required" /\ wire[c] \in {NotSent, 401}
  /\ code = "reauth_required" => ended

LEMMA RejectInv ==
  ASSUME IInv, NEW c \in Calls, NEW code, NEW status,
         Founded(c, code, status),
         call[c].at \in {"session", "sent"},
         call' = [call EXCEPT ![c] = Reject(c, code, status)],
         UNCHANGED <<wire, applied, signedIn, ended, login>>
  PROVE  IInv'
<1>0. code \in Codes /\ status \in {0, 401} \cup Refusals \cup Troubles
  BY DEF Founded
<1>1. Types /\ CallInv(c)
  BY DEF IInv
<1>2. Types'
  BY <1>0, <1>1, Rejected DEF Types
<1>3. call[c].error = NoError /\ call[c].result = None
  BY <1>1 DEF CallInv, OpenInv
<1>4. /\ call'[c].error = [code |-> code, status |-> status]
      /\ call'[c].at = "settling" /\ call'[c].result = None
      /\ call'[c].op = call[c].op
  BY <1>0, <1>1, <1>3, Rejected DEF Types
<1>5. CallInv(c)'
  BY <1>1, <1>4, CodesDiffer, Statuses
     DEF CallInv, ServerInv, OpenInv, SettlingInv, DoneInv, Founded
<1>6. \A d \in Calls \ {c} : CallInv(d)'
  BY <1>1, <1>2, Others DEF IInv, Types
<1> QED
  BY <1>2, <1>5, <1>6 DEF IInv, SessionInv

\* The same for a rejection that carries no status.
LEMMA QuietRejectInv ==
  ASSUME IInv, NEW c \in Calls, NEW code \in Codes, code # "reauth_required",
         call[c].at \in {"session", "sent"},
         call' = [call EXCEPT ![c] = Reject(c, code, 0)],
         UNCHANGED <<wire, applied, signedIn, ended, login>>
  PROVE  IInv'
<1>1. Founded(c, code, 0)
  BY Statuses DEF Founded
<1> QED
  BY <1>1, RejectInv

LEMMA SessionAnsweredInv ==
  ASSUME IInv, NEW c \in Calls, SessionAnswered(c)
  PROVE  IInv'
<1> USE DEF NotSent, Sent
<1>1. Types /\ CallInv(c) /\ SessionInv /\ call[c].at = "session"
  BY DEF IInv, SessionAnswered
<1>2. wire[c] = NotSent /\ c \notin applied /\ call[c].error = NoError
      /\ call[c].result = None
  BY <1>1, Statuses DEF CallInv, ServerInv, OpenInv, Answers
<1>3. UNCHANGED <<applied, signedIn, ended, login>>
  BY DEF SessionAnswered
<1>4. CASE /\ call' = [call EXCEPT ![c].at = "sent"]
           /\ wire' = [wire EXCEPT ![c] = Sent]
  <2>1. Types'
    BY <1>1, <1>3, <1>4 DEF Types, CallRecord
  <2>2. /\ call'[c].error = NoError /\ call'[c].result = None
        /\ call'[c].at = "sent" /\ wire'[c] = Sent
    BY <1>1, <1>2, <1>4 DEF Types, CallRecord
  <2>3. CallInv(c)'
    BY <1>2, <1>3, <2>2, Statuses
       DEF CallInv, ServerInv, OpenInv, SettlingInv, DoneInv
  <2>4. \A d \in Calls \ {c} : CallInv(d)'
    BY <1>1, <1>3, <1>4, <2>1, Others DEF IInv, Types
  <2> QED
    BY <1>1, <1>3, <2>1, <2>3, <2>4 DEF IInv, SessionInv
<1>5. CASE /\ ~signedIn
           /\ call' = [call EXCEPT ![c] = Reject(c, "reauth_required", 401)]
           /\ wire' = wire
  <2>1. UNCHANGED <<wire, applied, signedIn, ended, login>>
    BY <1>3, <1>5
  <2>2. "reauth_required" \in Codes /\ ended
    BY <1>1, <1>5 DEF Codes, SessionInv
  <2>3. Founded(c, "reauth_required", 401)
    BY <1>2, <2>2, Statuses DEF Founded
  <2>4. call[c].at \in {"session", "sent"}
    BY <1>1
  <2> QED
    BY <1>5, <2>1, <2>3, <2>4, RejectInv
<1>6. CASE /\ \E code \in {"request_failed", "invalid_response", "response_limit"} :
                call' = [call EXCEPT ![c] = Reject(c, code, 0)]
           /\ wire' = wire
  <2>1. PICK code \in {"request_failed", "invalid_response", "response_limit"} :
          call' = [call EXCEPT ![c] = Reject(c, code, 0)]
    BY <1>6
  <2>2. UNCHANGED <<wire, applied, signedIn, ended, login>>
    BY <1>3, <1>6
  <2>3. code \in Codes /\ code # "reauth_required"
    BY DEF Codes
  <2> QED
    BY <1>1, <2>1, <2>2, <2>3, QuietRejectInv
<1>7. CASE /\ \E status \in Troubles :
                call' = [call EXCEPT ![c] = Reject(c, "http_error", status)]
           /\ wire' = wire
  <2>1. PICK status \in Troubles :
          call' = [call EXCEPT ![c] = Reject(c, "http_error", status)]
    BY <1>7
  <2>2. status \notin Refusals /\ status # 401 /\ "http_error" \in Codes
    BY Statuses DEF Codes
  <2>3. UNCHANGED <<wire, applied, signedIn, ended, login>>
    BY <1>3, <1>7
  <2>4. Founded(c, "http_error", status)
    BY <2>2 DEF Founded
  <2> QED
    BY <1>1, <2>1, <2>3, <2>4, RejectInv
<1> QED
  BY <1>4, <1>5, <1>6, <1>7 DEF SessionAnswered

LEMMA ServerHandlesInv ==
  ASSUME IInv, NEW c \in Calls, ServerHandles(c)
  PROVE  IInv'
<1>1. Types /\ CallInv(c) /\ wire[c] = Sent
  BY DEF IInv, ServerHandles
<1>2. PICK status \in Answers :
        /\ status = 401 => ~signedIn
        /\ wire' = [wire EXCEPT ![c] = status]
        /\ applied' \in
             CASE call[c].op \in Reads \/ status \in Refusals \cup {401} ->
                    {applied}
               [] call[c].op \in Writes /\ status = 200 -> {applied \cup {c}}
               [] OTHER -> {applied, applied \cup {c}}
  BY DEF ServerHandles
<1>3. UNCHANGED <<call, signedIn, ended, login>>
  BY DEF ServerHandles
<1>4. c \notin applied
  BY <1>1, Statuses DEF CallInv, ServerInv, Answers, Sent
<1>5. call[c].op \in Reads \/ call[c].op \in Writes
  BY <1>1 DEF Types, CallRecord, Ops
<1>6. /\ applied' \in {applied, applied \cup {c}}
      /\ c \in applied' => status \in {200} \cup Troubles
      /\ status = 200 /\ call[c].op \in Writes => c \in applied'
  <2>1. Reads \cap Writes = {}
    BY DEF Reads, Writes
  <2>2. CASE call[c].op \in Reads \/ status \in Refusals \cup {401}
    BY <1>2, <1>4, <2>1, <2>2, Statuses
  <2>3. CASE ~(call[c].op \in Reads \/ status \in Refusals \cup {401})
    BY <1>2, <1>5, <2>3 DEF Answers
  <2> QED
    BY <2>2, <2>3
<1>7. Types'
  BY <1>1, <1>2, <1>3, <1>6 DEF Types
<1>8. call[c].at \in {"sent", "settling", "done"} /\ wire[c] # 200
      /\ wire[c] \notin {NotSent, 401} \cup Refusals
  BY <1>1, Statuses DEF CallInv, OpenInv, NotSent, Sent, Answers, Types, CallRecord
<1>9. CallInv(c)'
  <2>1. wire'[c] = status
    BY <1>1, <1>2 DEF Types
  <2>2. ServerInv(c)'
    BY <1>2, <1>3, <1>6, <2>1 DEF ServerInv, IInv, SessionInv
  <2>3. OpenInv(c)'
    BY <1>1, <1>3, <1>8 DEF CallInv, OpenInv
  <2>4. SettlingInv(c)'
    BY <1>1, <1>3, <1>8 DEF CallInv, SettlingInv
  <2>5. DoneInv(c)'
    BY <1>1, <1>3, <1>8 DEF CallInv, DoneInv
  <2> QED
    BY <2>2, <2>3, <2>4, <2>5 DEF CallInv
<1>10. \A d \in Calls \ {c} : CallInv(d)'
  BY <1>1, <1>2, <1>3, <1>6, <1>7, Others DEF IInv, Types
<1> QED
  BY <1>3, <1>7, <1>9, <1>10 DEF IInv, SessionInv

\* What an answer makes of its call.
DeliveredAs(c) ==
  \/ /\ wire[c] = 200
     /\ \E result \in {OK, "unavailable"} :
          call' = [call EXCEPT ![c] = [call[c] EXCEPT !.at = "settling",
                                                      !.result = result]]
  \/ \E code \in {"invalid_response", "response_limit"} :
       call' = [call EXCEPT ![c] = Reject(c, code, 0)]
  \/ /\ wire[c] # 200
     /\ call' = [call EXCEPT ![c] =
          Reject(c, IF wire[c] = 401 THEN "reauth_required"
                    ELSE "http_error", wire[c])]

LEMMA Delivered ==
  ASSUME NEW c \in Calls, Deliver(c)
  PROVE  DeliveredAs(c)
BY DEF Deliver, InvalidResponse, DeliveredAs

\* The answer arrives: what is told is what the server answered.
LEMMA DeliverInv ==
  ASSUME IInv, NEW c \in Calls, Deliver(c)
  PROVE  IInv'
<1>1. Types /\ CallInv(c) /\ call[c].at = "sent" /\ wire[c] \in Answers
  BY DEF IInv, Deliver
<1>2. UNCHANGED <<wire, applied, signedIn, ended, login>>
  BY DEF Deliver
<1>3. call[c].error = NoError /\ call[c].result = None
  BY <1>1 DEF CallInv, OpenInv
<1>4. CASE /\ wire[c] = 200
           /\ \E result \in {OK, "unavailable"} :
                call' = [call EXCEPT ![c] = [call[c] EXCEPT !.at = "settling",
                                                            !.result = result]]
  <2>1. PICK result \in {OK, "unavailable"} :
          call' = [call EXCEPT ![c] = [call[c] EXCEPT !.at = "settling",
                                                      !.result = result]]
    BY <1>4
  <2>2. Types'
    BY <1>1, <1>2, <2>1 DEF Types, CallRecord, Kinds
  <2>3. /\ call'[c].error = NoError /\ call'[c].result = result
        /\ call'[c].at = "settling" /\ call'[c].op = call[c].op
    BY <1>1, <1>3, <2>1 DEF Types, CallRecord
  <2>4. CallInv(c)'
    BY <1>1, <1>2, <1>4, <2>3, Statuses, CodesDiffer
       DEF CallInv, ServerInv, OpenInv, SettlingInv, DoneInv, NoError, None
  <2>5. \A d \in Calls \ {c} : CallInv(d)'
    BY <1>1, <1>2, <2>1, <2>2, Others DEF IInv, Types
  <2> QED
    BY <1>2, <2>2, <2>4, <2>5 DEF IInv, SessionInv
<1>5. CASE \E code \in {"invalid_response", "response_limit"} :
             call' = [call EXCEPT ![c] = Reject(c, code, 0)]
  <2>1. PICK code \in {"invalid_response", "response_limit"} :
          call' = [call EXCEPT ![c] = Reject(c, code, 0)]
    BY <1>5
  <2>2. code \in Codes /\ code # "reauth_required"
    BY DEF Codes
  <2> QED
    BY <1>1, <1>2, <2>1, <2>2, QuietRejectInv
<1>6. CASE /\ wire[c] # 200
           /\ call' = [call EXCEPT ![c] =
                Reject(c, IF wire[c] = 401 THEN "reauth_required"
                          ELSE "http_error", wire[c])]
  <2>1. PICK status \in Answers : status = wire[c]
    BY <1>1
  <2>2. PICK code : code = IF wire[c] = 401 THEN "reauth_required" ELSE "http_error"
    OBVIOUS
  <2>3. code \in Codes /\ (code = "reauth_required" => ended)
    BY <1>1, <2>2 DEF Codes, CallInv, ServerInv
  <2>4. Founded(c, code, status)
    BY <1>6, <2>1, <2>2, <2>3 DEF Founded, Answers
  <2>5. call' = [call EXCEPT ![c] = Reject(c, code, status)]
    BY <1>6, <2>1, <2>2
  <2>6. call[c].at \in {"session", "sent"}
    BY <1>1
  <2> QED
    BY <1>2, <2>4, <2>5, <2>6, RejectInv
<1>7. DeliveredAs(c)
  BY Delivered
<1> QED
  BY <1>4, <1>5, <1>6, <1>7 DEF DeliveredAs

\* A request that gets no answer, from the network, the page or the timer.
LEMMA UnansweredInv ==
  ASSUME IInv, NEW c \in Calls, RequestLost(c) \/ Cancel(c) \/ TimesOut(c)
  PROVE  IInv'
<1>1. PICK code \in {"request_failed", "cancelled", "timeout"} :
        call' = [call EXCEPT ![c] = Reject(c, code, 0)]
  BY DEF RequestLost, Cancel, TimesOut
<1>2. UNCHANGED <<wire, applied, signedIn, ended, login>>
  BY DEF RequestLost, Cancel, TimesOut
<1>3. call[c].at \in {"session", "sent"}
  BY DEF RequestLost, Cancel, TimesOut
<1>4. code \in Codes /\ code # "reauth_required"
  BY DEF Codes
<1> QED
  BY <1>1, <1>2, <1>3, <1>4, QuietRejectInv

\* The page is told: a result as it came, or the kind of the client's error.
LEMMA SettleInv ==
  ASSUME IInv, NEW c \in Calls, Settle(c)
  PROVE  IInv'
<1>1. Types /\ CallInv(c) /\ SessionInv /\ call[c].at = "settling"
  BY DEF IInv, Settle
<1>2. UNCHANGED <<wire, applied, signedIn, ended>>
  BY DEF Settle
<1>3. /\ call[c] \in CallRecord
      /\ wire[c] \in {NotSent, Sent} \cup Answers
  BY <1>1 DEF Types
<1>4. call[c].error = NoError =>
        wire[c] = 200 /\ call[c].result \in {OK, "unavailable"}
  BY <1>1 DEF CallInv, SettlingInv
<1>5. call[c].error # NoError =>
        /\ call[c].result = None
        /\ call[c].error.status \in {0, 401} \cup Refusals \cup Troubles
        /\ call[c].error.status \in Refusals => wire[c] = call[c].error.status
        /\ call[c].error.status = 401 =>
             /\ call[c].error.code = "reauth_required"
             /\ wire[c] \in {NotSent, 401}
        /\ call[c].error.code = "reauth_required" => ended
  BY <1>1, <1>3 DEF CallInv, SettlingInv, CallRecord, Errors
<1>6. SUFFICES ASSUME NEW result \in Kinds \cup {OK}, NEW error,
                      error \in {NoError, call[c].error},
                      call' = [call EXCEPT ![c] =
                        [call[c] EXCEPT !.at = "done", !.error = error,
                                        !.result = result]],
                      login' \in BOOLEAN, login => login', login' => ended,
                      result \in Definite =>
                        wire[c] \in {NotSent, 401} \cup Refusals,
                      result = OK => wire[c] = 200,
                      result = "denied" => login' \/ wire[c] \in Refusals
               PROVE  IInv'
  <2>1. CASE ~Probed(call[c].op)
    <3> DEFINE result == IF call[c].result = None THEN "unknown" ELSE call[c].result
    <3>1. call' = [call EXCEPT ![c] = [call[c] EXCEPT !.at = "done",
                     !.error = NoError, !.result = result]]
          /\ login' = login
      BY <1>3, <2>1 DEF Settle, CallRecord
    <3>2. result \in {"unknown", "unavailable", OK} /\ (result = OK => wire[c] = 200)
      BY <1>4, <1>5 DEF None, OK
    <3>3. result \in Kinds \cup {OK} /\ result \notin Definite /\ result # "denied"
      BY <3>2 DEF Kinds, OK, Definite
    <3> HIDE DEF result
    <3> QED
      BY <1>1, <1>6, <3>1, <3>2, <3>3 DEF Types, SessionInv
  <2>2. CASE Probed(call[c].op) /\ call[c].error = NoError
    <3> DEFINE result == call[c].result
    <3>1. call' = [call EXCEPT ![c] = [call[c] EXCEPT !.at = "done",
                     !.error = call[c].error, !.result = result]]
          /\ login' = login
      BY <1>3, <2>2 DEF Settle, CallRecord
    <3>2. result \in {"unavailable", OK} /\ wire[c] = 200
      BY <1>4, <2>2
    <3>3. result \in Kinds \cup {OK} /\ result \notin Definite /\ result # "denied"
      BY <3>2 DEF Kinds, OK, Definite
    <3> HIDE DEF result
    <3> QED
      BY <1>1, <1>6, <3>1, <3>2, <3>3 DEF Types, SessionInv
  <2>3. CASE Probed(call[c].op) /\ call[c].error # NoError
    <3> DEFINE s == call[c].error.status
               code == call[c].error.code
               result == gatewayFailureKind(s)
    <3>1. /\ call' = [call EXCEPT ![c].at = "done", ![c].error = NoError,
                       ![c].result = result]
          /\ login' = Login(code)
      BY <2>3 DEF Settle, mapSDKFailure
    <3>2. s \in {0, 401} \cup Refusals \cup Troubles
      BY <1>5, <2>3
    <3>3. /\ result \in Kinds /\ result # OK
          /\ result \in Definite => s = 401 \/ s \in Refusals
      BY <3>2, DefiniteKinds
    <3>4. /\ s \in Refusals => wire[c] = s
          /\ s = 401 => code = "reauth_required" /\ wire[c] \in {NotSent, 401}
          /\ code = "reauth_required" => ended
      BY <1>5, <2>3
    <3>5. "denied" \in Definite
      BY DEF Definite
    <3>6. login' = (login \/ code = "reauth_required")
      BY <3>1 DEF Login
    <3> HIDE DEF s, code, result
    <3>7. call' = [call EXCEPT ![c] = [call[c] EXCEPT !.at = "done",
                     !.error = NoError, !.result = result]]
      BY <1>3, <3>1 DEF CallRecord
    <3>8. /\ login' \in BOOLEAN /\ (login => login') /\ (login' => ended)
      BY <1>1, <3>4, <3>6 DEF Types, SessionInv
    <3>9. /\ result \in Definite => wire[c] \in {NotSent, 401} \cup Refusals
          /\ result = "denied" => login' \/ wire[c] \in Refusals
      BY <3>3, <3>4, <3>5, <3>6
    <3> QED
      BY <1>6, <3>3, <3>7, <3>8, <3>9
  <2> QED
    BY <2>1, <2>2, <2>3
<1>7. call'[c] = [call[c] EXCEPT !.at = "done", !.error = error, !.result = result]
  BY <1>1, <1>6 DEF Types
<1>8. /\ call'[c].at = "done" /\ call'[c].op = call[c].op
      /\ call'[c].result = result
      /\ call'[c] \in CallRecord
  <2>1. error \in Errors \cup {NoError}
    BY <1>3, <1>6 DEF CallRecord
  <2>2. result \in Kinds \cup {None, OK}
    BY <1>6
  <2> QED
    BY <1>3, <1>7, <2>1, <2>2 DEF CallRecord
<1>9. Types'
  BY <1>1, <1>2, <1>6, <1>7, <1>8 DEF Types
<1>10. CallInv(c)'
  BY <1>1, <1>2, <1>6, <1>8 DEF CallInv, ServerInv, OpenInv, SettlingInv, DoneInv
<1>11. \A d \in Calls \ {c} : CallInv(d)'
  BY <1>1, <1>2, <1>6, <1>9, Others DEF IInv, Types
<1> QED
  BY <1>1, <1>2, <1>6, <1>9, <1>10, <1>11 DEF IInv, SessionInv

\* Every step, and a step of another part.
LEMMA StepInv ==
  ASSUME IInv, Next \/ UNCHANGED callVars
  PROVE  IInv'
<1>1. CASE SessionEnds
  <2>1. Types' /\ SessionInv'
    BY <1>1 DEF SessionEnds, IInv, Types, SessionInv
  <2>2. \A c \in Calls : CallInv(c)'
    BY <1>1, <2>1, Others DEF SessionEnds, IInv
  <2> QED
    BY <2>1, <2>2 DEF IInv
<1>2. CASE UNCHANGED callVars
  <2>1. Types' /\ SessionInv'
    BY <1>2 DEF callVars, IInv, Types, SessionInv
  <2>2. \A c \in Calls : CallInv(c)'
    BY <1>2, <2>1, Others DEF callVars, IInv
  <2> QED
    BY <2>1, <2>2 DEF IInv
<1>3. ASSUME NEW c \in Calls,
             \/ Start(c) \/ SessionAnswered(c) \/ ServerHandles(c)
             \/ Deliver(c) \/ RequestLost(c) \/ Cancel(c) \/ TimesOut(c)
             \/ Settle(c)
      PROVE  IInv'
  BY <1>3, StartInv, SessionAnsweredInv, ServerHandlesInv, DeliverInv,
     UnansweredInv, SettleInv
<1> QED
  BY <1>1, <1>2, <1>3 DEF Next

\* The invariant says what the page is told.
LEMMA InvAnswers == IInv => AnswersAreTrue
<1>1. SUFFICES ASSUME IInv, NEW c \in Calls, call[c].at = "done"
               PROVE  /\ call[c].op \in Writes =>
                           /\ call[c].result \in Definite =>
                                c \notin applied /\ wire[c] # Sent
                           /\ call[c].result = OK => c \in applied
                      /\ call[c].result = "denied" => login \/ wire[c] \in Refusals
  BY DEF IInv, SessionInv, AnswersAreTrue, NoFalseAnswer, SignInWhenEnded
<1>2. ServerInv(c) /\ DoneInv(c)
  BY <1>1 DEF IInv, CallInv
<1>3. \A s \in {NotSent, 401} \cup Refusals : s \notin {200} \cup Troubles /\ s # Sent
  BY Statuses DEF NotSent, Sent, Answers
<1> QED
  BY <1>1, <1>2, <1>3 DEF ServerInv, DoneInv

-----------------------------------------------------------------------------
\* What a step of the browser's runtime is to the calls: one of theirs, or one
\* that at most reports a failure to their fan-out.
LEMMA RuntimeStep == [RuntimeNext]_runtimeVars => Next \/ UNCHANGED callVars
BY DEF RuntimeNext, runtimeVars, vars, callVars, Calling, Exporting, Metering

\* What the page is told of a write and of its session is true, whatever the
\* server, the network and the timers do (mapSDKFailure over run()).
THEOREM AnswersHold == RuntimeSpec => []AnswersAreTrue
<1>1. RuntimeInit => IInv
  BY InitInv DEF RuntimeInit
<1>2. IInv /\ [RuntimeNext]_runtimeVars => IInv'
  BY StepInv, RuntimeStep
<1> QED
  BY <1>1, <1>2, InvAnswers, PTL DEF RuntimeSpec

-----------------------------------------------------------------------------
\* The count of slots is the number of calls that hold one, within the limit.
SlotInv == active = Cardinality(Holders) /\ active \in 0..Slots

LEMMA HoldersFinite ==
  ASSUME NEW S \in SUBSET Calls
  PROVE  IsFiniteSet(S) /\ Cardinality(S) \in Nat
BY OperationsAssumption, FS_Subset, FS_CardinalityType

\* A call takes a slot when it starts, unless it finds none.
LEMMA StartSlots ==
  ASSUME IInv, SlotInv, NEW c \in Calls, Start(c)
  PROVE  SlotInv'
<1>1. Types /\ CallInv(c) /\ call[c].at = "idle"
  BY DEF IInv, Start
<1>2. call[c].error = NoError /\ c \notin Holders
  BY <1>1 DEF CallInv, OpenInv, Holders, Running
<1>3. Slots \in Nat \ {0} /\ active \in Nat
  BY OperationsAssumption DEF SlotInv
<1>4. CASE /\ active >= Slots
           /\ call' = [call EXCEPT ![c] = Reject(c, "busy", 0)]
  <2>1. call'[c].error.code = "busy" /\ \A d \in Calls \ {c} : call'[d] = call[d]
    <3>1. "busy" \in Codes
      BY DEF Codes
    <3>2. Reject(c, "busy", 0).error = [code |-> "busy", status |-> 0]
      BY <1>1, <3>1, Rejected
    <3> QED
      BY <1>1, <1>4, <3>2 DEF Types
  <2>2. Holders' = Holders
    BY <1>2, <2>1 DEF Holders, Running
  <2>3. active' = active
    BY <1>3, <1>4 DEF Start, TakesSlot
  <2> QED
    BY <1>3, <2>2, <2>3 DEF SlotInv
<1>5. CASE /\ active < Slots
           /\ \/ call' = [call EXCEPT ![c] = Reject(c, "invalid_input", 0)]
              \/ \E at \in {"session", "sent"} : call' = [call EXCEPT ![c].at = at]
  <2>1. /\ call'[c].at \in {"session", "sent", "settling"}
        /\ call'[c].error.code # "busy"
        /\ \A d \in Calls \ {c} : call'[d] = call[d]
    <3>1. CASE call' = [call EXCEPT ![c] = Reject(c, "invalid_input", 0)]
      <4>1. "invalid_input" \in Codes
        BY DEF Codes
      <4>2. /\ Reject(c, "invalid_input", 0).at = "settling"
            /\ Reject(c, "invalid_input", 0).error =
                 [code |-> "invalid_input", status |-> 0]
        BY <1>1, <4>1, Rejected
      <4> QED
        BY <1>1, <3>1, <4>2 DEF Types
    <3>2. CASE \E at \in {"session", "sent"} : call' = [call EXCEPT ![c].at = at]
      BY <1>1, <1>2, <3>2 DEF Types, CallRecord, NoError, None
    <3> QED
      BY <1>5, <3>1, <3>2
  <2>2. Holders' = Holders \cup {c}
    BY <2>1 DEF Holders, Running
  <2>3. Cardinality(Holders \cup {c}) = Cardinality(Holders) + 1
    <3>1. IsFiniteSet(Holders)
      BY HoldersFinite DEF Holders
    <3> QED
      BY <1>2, <3>1, FS_AddElement
  <2>4. active' = active + 1
    BY <1>3, <1>5 DEF Start, TakesSlot
  <2>5. active + 1 \in 0..Slots
    BY <1>3, <1>5
  <2> QED
    BY <2>2, <2>3, <2>4, <2>5 DEF SlotInv
<1> QED
  BY <1>4, <1>5 DEF Start, InputRefused

\* It keeps its slot until it settles: a rejection on the way is never "busy".
LEMMA RunningSlots ==
  ASSUME IInv, SlotInv, NEW c \in Calls,
         \/ SessionAnswered(c) \/ Deliver(c) \/ RequestLost(c) \/ Cancel(c)
         \/ TimesOut(c)
  PROVE  SlotInv'
<1>1. Types /\ CallInv(c) /\ call[c].at \in {"session", "sent"} /\ active' = active
  BY DEF IInv, SessionAnswered, Deliver, RequestLost, Cancel, TimesOut
<1>2. call[c].error = NoError
  BY <1>1 DEF CallInv, OpenInv
<1>3. CASE \E code \in Codes \ {"busy"},
             status \in {0, 401} \cup Refusals \cup Troubles :
             call' = [call EXCEPT ![c] = Reject(c, code, status)]
  <2>1. PICK code \in Codes \ {"busy"},
             status \in {0, 401} \cup Refusals \cup Troubles :
             call' = [call EXCEPT ![c] = Reject(c, code, status)]
    BY <1>3
  <2>2. /\ Reject(c, code, status).at = "settling"
        /\ Reject(c, code, status).error = [code |-> code, status |-> status]
    BY <1>1, Rejected
  <2>3. /\ call'[c].at = "settling" /\ call'[c].error.code # "busy"
        /\ \A d \in Calls \ {c} : call'[d] = call[d]
    BY <1>1, <2>1, <2>2 DEF Types
  <2>4. Holders' = Holders
    BY <1>1, <1>2, <2>3 DEF Holders, Running, NoError, None
  <2> QED
    BY <1>1, <2>4 DEF SlotInv
<1>4. CASE \/ call' = [call EXCEPT ![c].at = "sent"]
           \/ \E result \in {OK, "unavailable"} :
                call' = [call EXCEPT ![c] = [call[c] EXCEPT !.at = "settling",
                                                            !.result = result]]
  <2>1. /\ call'[c].at \in {"sent", "settling"} /\ call'[c].error = NoError
        /\ \A d \in Calls \ {c} : call'[d] = call[d]
    BY <1>1, <1>2, <1>4 DEF Types, CallRecord
  <2>2. Holders' = Holders
    BY <1>1, <1>2, <2>1 DEF Holders, Running, NoError, None
  <2> QED
    BY <1>1, <2>2 DEF SlotInv
<1>5. CASE SessionAnswered(c)
  <2>1. {"request_failed", "invalid_response", "response_limit", "http_error",
         "reauth_required"} \subseteq Codes \ {"busy"}
    BY DEF Codes
  <2> QED
    BY <1>3, <1>4, <1>5, <2>1 DEF SessionAnswered
<1>6. CASE RequestLost(c) \/ Cancel(c) \/ TimesOut(c)
  <2>1. {"request_failed", "cancelled", "timeout"} \subseteq Codes \ {"busy"}
    BY DEF Codes
  <2> QED
    BY <1>3, <1>6, <2>1 DEF RequestLost, Cancel, TimesOut
<1>7. CASE Deliver(c)
  <2>1. {"invalid_response", "response_limit", "http_error", "reauth_required"}
          \subseteq Codes \ {"busy"}
    BY DEF Codes
  <2>2. wire[c] \in Answers
    BY <1>7 DEF Deliver
  <2>3. wire[c] # 200 => wire[c] \in {0, 401} \cup Refusals \cup Troubles
    BY <2>2 DEF Answers
  <2>4. CASE \E result \in {OK, "unavailable"} :
               call' = [call EXCEPT ![c] = [call[c] EXCEPT !.at = "settling",
                                                           !.result = result]]
    BY <1>4, <2>4
  <2>5. CASE \E code \in {"invalid_response", "response_limit"} :
               call' = [call EXCEPT ![c] = Reject(c, code, 0)]
    BY <1>3, <2>1, <2>5
  <2>6. CASE /\ wire[c] # 200
             /\ call' = [call EXCEPT ![c] =
                  Reject(c, IF wire[c] = 401 THEN "reauth_required"
                            ELSE "http_error", wire[c])]
    <3>1. PICK status \in {0, 401} \cup Refusals \cup Troubles : status = wire[c]
      BY <2>3, <2>6
    <3>2. PICK code \in Codes \ {"busy"} :
            code = IF wire[c] = 401 THEN "reauth_required" ELSE "http_error"
      BY <2>1
    <3>3. call' = [call EXCEPT ![c] = Reject(c, code, status)]
      BY <2>6, <3>1, <3>2
    <3> QED
      BY <1>3, <3>3
  <2>7. DeliveredAs(c)
    BY <1>7, Delivered
  <2> QED
    BY <2>4, <2>5, <2>6, <2>7 DEF DeliveredAs
<1> QED
  BY <1>5, <1>6, <1>7

\* It gives back the slot it took, and only that.
LEMMA SettleSlots ==
  ASSUME IInv, SlotInv, NEW c \in Calls, Settle(c)
  PROVE  SlotInv'
<1>1. Types /\ call[c].at = "settling"
  BY DEF IInv, Settle
<1>2. call'[c].at = "done" /\ \A d \in Calls \ {c} : call'[d] = call[d]
  BY <1>1 DEF Settle, Types, CallRecord
<1>3. Holders' = Holders \ {c}
  BY <1>2 DEF Holders, Running
<1>4. CASE call[c].error.code = "busy"
  <2>1. Holders' = Holders
    BY <1>3, <1>4 DEF Holders
  <2>2. active' = active
    BY <1>4 DEF Settle, GivesSlotBack
  <2> QED
    BY <2>1, <2>2 DEF SlotInv
<1>5. CASE call[c].error.code # "busy"
  <2>1. IsFiniteSet(Holders) /\ c \in Holders
    BY <1>1, <1>5, HoldersFinite DEF Holders, Running
  <2>2. Cardinality(Holders \ {c}) = Cardinality(Holders) - 1
    BY <2>1, FS_RemoveElement
  <2>3. active' = active - 1
    BY <1>5 DEF Settle, GivesSlotBack
  <2>4. Cardinality(Holders \ {c}) \in Nat
    BY HoldersFinite DEF Holders
  <2>5. active - 1 \in 0..Slots
    BY <2>2, <2>4, OperationsAssumption DEF SlotInv
  <2> QED
    BY <1>3, <2>2, <2>3, <2>5 DEF SlotInv
<1> QED
  BY <1>4, <1>5

LEMMA StepSlots ==
  ASSUME IInv, SlotInv, Next \/ UNCHANGED callVars
  PROVE  SlotInv'
<1>1. CASE call' = call /\ active' = active
  BY <1>1 DEF SlotInv, Holders, Running
<1>2. ASSUME NEW c \in Calls,
             \/ Start(c) \/ SessionAnswered(c) \/ Deliver(c) \/ RequestLost(c)
             \/ Cancel(c) \/ TimesOut(c) \/ Settle(c)
      PROVE  SlotInv'
  BY <1>2, StartSlots, RunningSlots, SettleSlots
<1> QED
  BY <1>1, <1>2 DEF Next, callVars, SessionEnds, ServerHandles

\* No path of run() leaks a slot, or gives back one it did not take, and no
\* more requests are active than the client allows.
THEOREM SlotsAreExact == RuntimeSpec => [](SlotsExact /\ active \in 0..Slots)
<1>1. RuntimeInit => IInv /\ SlotInv
  <2>1. SUFFICES ASSUME RuntimeInit PROVE SlotInv
    BY InitInv DEF RuntimeInit
  <2>2. Holders = {} /\ active = 0
    BY <2>1 DEF RuntimeInit, Init, Holders, Running, Idle
  <2> QED
    BY <2>2, FS_EmptySet, OperationsAssumption DEF SlotInv
<1>2. IInv /\ SlotInv /\ [RuntimeNext]_runtimeVars => (IInv /\ SlotInv)'
  BY StepInv, StepSlots, RuntimeStep
<1>3. SlotInv => SlotsExact /\ active \in 0..Slots
  BY DEF SlotInv, SlotsExact, Holders
<1> QED
  BY <1>1, <1>2, <1>3, PTL DEF RuntimeSpec

-----------------------------------------------------------------------------
(* What the telemetry runtime loses, and its limits.                        *)

RuntimeRecord ==
  [life : {"none", "open", "closing", "resolved", "rejected"}, ratio : Nat,
   queue : Nat, send : {"idle", "session", "post", "settled"},
   owner : {"timer", "flush"}, flush : BOOLEAN, drained : BOOLEAN,
   drainFailed : BOOLEAN, stopped : BOOLEAN, made : Nat, handed : Nat,
   succeeded : Nat, dropped : Nat, reported : Nat]

\* Every record made is queued, handed over or dropped; every record that was
\* not taken and is not under way has been reported.
Balanced(r) ==
  /\ r.made = r.queue + r.handed + r.dropped
  /\ r.reported + r.succeeded + (IF InFlight(r) THEN 1 ELSE 0)
       = r.dropped + r.handed

\* A runtime that has handed over all it held takes no more.
Emptied(r) ==
  /\ r.stopped => r.drained
  /\ r.drained => r.queue = 0
  /\ r.life = "resolved" => r.stopped /\ r.send = "idle"

Live == {i \in Runtimes : tele[i].life \in {"open", "closing"}}

ExportInv ==
  /\ config \in Configs
  /\ tele \in [Runtimes -> RuntimeRecord]
  /\ \A i \in Runtimes : Balanced(tele[i]) /\ Emptied(tele[i])
  /\ instances = Cardinality(Live)
  /\ SamplingCapped

LEMMA NoReport == queueReport("export_failed") = 0 /\ queueReport("queue_full") = 1
  BY DEF queueReport

\* What losing n batches changes.
LEMMA LostFacts ==
  ASSUME NEW r \in RuntimeRecord, NEW n \in Nat
  PROVE  /\ Lost(r, n) \in RuntimeRecord
         /\ Lost(r, n) = [r EXCEPT !.reported = r.reported + n]
<1>1. n * (1 + queueReport("export_failed")) = n
  BY NoReport
<1>2. PICK m : m = r.reported + n
  OBVIOUS
<1>3. m \in Nat
  BY <1>2 DEF RuntimeRecord
<1>4. Lost(r, n) = [r EXCEPT !.reported = m]
  BY <1>1, <1>2 DEF Lost
<1> QED
  BY <1>2, <1>3, <1>4 DEF RuntimeRecord

\* What export() makes of its runtime, batch for batch.
LEMMA ExportFacts ==
  ASSUME NEW r \in RuntimeRecord, NEW n \in 0..r.queue, NEW who \in {"timer", "flush"},
         Balanced(r), NEW s \in Export(r, n, who)
  PROVE  /\ s \in RuntimeRecord /\ Balanced(s)
         /\ s.queue = r.queue - n
         /\ s.life = r.life /\ s.ratio = r.ratio
         /\ s.stopped = r.stopped /\ s.drained = r.drained
         /\ s.send = r.send \/ n > 0
<1>0. r.queue \in Nat /\ r.handed \in Nat /\ r.reported \in Nat /\ n \in Nat
      /\ r.made \in Nat /\ r.dropped \in Nat /\ r.succeeded \in Nat
  BY DEF RuntimeRecord
<1>1. PICK q, h : q = r.queue - n /\ h = r.handed + n
  OBVIOUS
<1>2. q \in Nat /\ h \in Nat
  BY <1>0, <1>1
<1>3. CASE s = [Lost(r, n) EXCEPT !.queue = @ - n, !.handed = @ + n]
  <2>1. PICK m : m = r.reported + n
    OBVIOUS
  <2>2. m \in Nat
    BY <1>0, <2>1
  <2>3. PICK l : l = Lost(r, n)
    OBVIOUS
  <2>4. l = [r EXCEPT !.reported = m] /\ l \in RuntimeRecord
    BY <2>1, <2>3, LostFacts
  <2>5. l.queue = r.queue /\ l.handed = r.handed
    BY <2>4 DEF RuntimeRecord
  <2>6. s = [l EXCEPT !.queue = q, !.handed = h]
    BY <1>1, <1>3, <2>3, <2>5
  <2>7. /\ s \in RuntimeRecord /\ s.queue = q /\ s.handed = h /\ s.reported = m
        /\ s.made = r.made /\ s.dropped = r.dropped /\ s.succeeded = r.succeeded
        /\ s.send = r.send /\ s.life = r.life /\ s.ratio = r.ratio
        /\ s.stopped = r.stopped /\ s.drained = r.drained
    BY <1>2, <2>2, <2>4, <2>6 DEF RuntimeRecord
  <2>8. InFlight(s) <=> InFlight(r)
    BY <2>7 DEF InFlight
  <2>9. Balanced(s)
    BY <1>0, <1>1, <2>1, <2>7, <2>8 DEF Balanced
  <2> QED
    BY <1>1, <2>7, <2>9
<1>4. CASE s # [Lost(r, n) EXCEPT !.queue = @ - n, !.handed = @ + n]
  <2>1. /\ r.send = "idle" /\ n # 0
        /\ s = [Lost(r, n - 1) EXCEPT !.queue = @ - n, !.handed = @ + n,
                                      !.send = "session", !.owner = who]
    BY <1>4 DEF Export
  <2>2. n - 1 \in Nat
    BY <1>0, <2>1
  <2>3. PICK m : m = r.reported + (n - 1)
    OBVIOUS
  <2>4. m \in Nat
    BY <1>0, <2>2, <2>3
  <2>5. PICK l : l = Lost(r, n - 1)
    OBVIOUS
  <2>6. l = [r EXCEPT !.reported = m] /\ l \in RuntimeRecord
    BY <2>2, <2>3, <2>5, LostFacts
  <2>7. l.queue = r.queue /\ l.handed = r.handed
    BY <2>6 DEF RuntimeRecord
  <2>8. s = [l EXCEPT !.queue = q, !.handed = h, !.send = "session", !.owner = who]
    BY <1>1, <2>1, <2>5, <2>7
  <2>9. /\ s \in RuntimeRecord /\ s.queue = q /\ s.handed = h /\ s.reported = m
        /\ s.made = r.made /\ s.dropped = r.dropped /\ s.succeeded = r.succeeded
        /\ s.send = "session" /\ s.life = r.life /\ s.ratio = r.ratio
        /\ s.stopped = r.stopped /\ s.drained = r.drained
    BY <1>2, <2>4, <2>6, <2>8 DEF RuntimeRecord
  <2>10. InFlight(s) /\ ~InFlight(r)
    BY <2>1, <2>9 DEF InFlight
  <2>11. Balanced(s)
    BY <1>0, <1>1, <2>3, <2>9, <2>10 DEF Balanced
  <2> QED
    BY <1>0, <1>1, <2>1, <2>9, <2>11
<1> QED
  BY <1>3, <1>4


\* A step of one runtime that neither opens nor closes it.
LEMMA OneRuntime ==
  ASSUME ExportInv, NEW i \in Runtimes, NEW s \in RuntimeRecord,
         Balanced(s), Emptied(s), s.ratio = tele[i].ratio,
         s.life \in {"open", "closing"} <=> tele[i].life \in {"open", "closing"},
         tele' = [tele EXCEPT ![i] = s], UNCHANGED <<config, instances>>
  PROVE  ExportInv'
<1>1. /\ tele' \in [Runtimes -> RuntimeRecord]
      /\ \A j \in Runtimes : tele'[j] = IF j = i THEN s ELSE tele[j]
  BY DEF ExportInv
<1>2. \A j \in Runtimes : Balanced(tele'[j]) /\ Emptied(tele'[j])
  BY <1>1 DEF ExportInv
<1>3. Live' = Live
  BY <1>1 DEF Live
<1>4. SamplingCapped'
  BY <1>1 DEF ExportInv, SamplingCapped
<1> QED
  BY <1>1, <1>2, <1>3, <1>4 DEF ExportInv

LEMMA CapFacts ==
  ASSUME NEW c \in Configs, NEW o \in Ratios \cup {NoOverride}
  PROVE  /\ browserSettings(c, o).ratio \in Nat
         /\ c.nodes > 0 =>
              browserSettings(c, o).ratio <= IF c.traces THEN c.ratio ELSE 0
<1>1. /\ c.nodes \in 0..2 /\ c.traces \in BOOLEAN /\ c.ratio \in 0..8 /\ o \in Nat
      /\ o < 9 \/ o = 9
  BY TelemetryAssumption DEF NoOverride
<1>2. CASE c.nodes = 0
  BY <1>1, <1>2 DEF browserSettings, NoOverride
<1>3. CASE c.nodes > 1
  BY <1>1, <1>3 DEF browserSettings
<1>4. CASE c.nodes = 1
  <2>1. PICK n : n = browserSettings(c, o).ratio
    OBVIOUS
  <2>2. n = IF ~c.traces THEN 0 ELSE IF o < c.ratio THEN o ELSE c.ratio
    BY <1>4, <2>1 DEF browserSettings
  <2>3. CASE ~c.traces
    BY <1>1, <2>1, <2>2, <2>3
  <2>4. CASE c.traces /\ o < c.ratio
    BY <1>1, <2>1, <2>2, <2>4
  <2>5. CASE c.traces /\ ~(o < c.ratio)
    BY <1>1, <2>1, <2>2, <2>5
  <2> QED
    BY <2>3, <2>4, <2>5
<1> QED
  BY <1>1, <1>2, <1>3, <1>4

LEMMA ExportInit == TelemetryInit => ExportInv
<1> SUFFICES ASSUME TelemetryInit PROVE ExportInv
  OBVIOUS
<1>1. /\ Absent \in RuntimeRecord /\ Balanced(Absent) /\ Emptied(Absent)
      /\ Absent.life = "none" /\ Absent.ratio = 0
  BY DEF Absent, RuntimeRecord, Balanced, Emptied, InFlight
<1>2. /\ tele \in [Runtimes -> RuntimeRecord] /\ config \in Configs /\ instances = 0
      /\ \A i \in Runtimes : tele[i] = Absent
  BY <1>1 DEF TelemetryInit
<1>3. Live = {}
  BY <1>1, <1>2 DEF Live
<1>4. SamplingCapped
  <2>1. config.ratio \in Nat
    BY <1>2, TelemetryAssumption
  <2> QED
    BY <1>1, <1>2, <2>1 DEF SamplingCapped
<1> QED
  BY <1>1, <1>2, <1>3, <1>4, FS_EmptySet DEF ExportInv

LEMMA LiveFinite == IsFiniteSet(Live)
  BY TelemetryAssumption, FS_Subset DEF Live

LEMMA CreateExport ==
  ASSUME ExportInv, NEW i \in Runtimes, createBrowserTelemetry(i)
  PROVE  ExportInv'
<1>1. PICK o \in Ratios \cup {NoOverride} :
        tele' = [tele EXCEPT ![i].life = "open",
                   ![i].ratio = browserSettings(config, o).ratio]
  BY DEF createBrowserTelemetry
<1>2. PICK n : n = browserSettings(config, o).ratio
  OBVIOUS
<1>3. n \in Nat /\ (config.nodes > 0 => n <= IF config.traces THEN config.ratio ELSE 0)
  BY <1>2, CapFacts DEF ExportInv
<1>4. PICK r : r = tele[i]
  OBVIOUS
<1>5. r \in RuntimeRecord /\ Balanced(r) /\ Emptied(r) /\ r.life = "none"
  BY <1>4 DEF ExportInv, createBrowserTelemetry
<1>6. PICK s : s = [r EXCEPT !.life = "open", !.ratio = n]
  OBVIOUS
<1>7. tele' = [tele EXCEPT ![i] = s]
  BY <1>1, <1>2, <1>4, <1>6 DEF ExportInv
<1>8. s \in RuntimeRecord /\ s.life = "open" /\ s.ratio = n
  BY <1>3, <1>5, <1>6 DEF RuntimeRecord
<1>9. Balanced(s) /\ Emptied(s)
  BY <1>5, <1>6 DEF RuntimeRecord, Balanced, Emptied, InFlight
<1>10. /\ tele' \in [Runtimes -> RuntimeRecord]
       /\ \A j \in Runtimes : tele'[j] = IF j = i THEN s ELSE tele[j]
  BY <1>7, <1>8 DEF ExportInv
<1>11. config' = config /\ instances' = instances + 1
  BY DEF createBrowserTelemetry
<1>12. Live' = Live \cup {i} /\ i \notin Live
  BY <1>4, <1>5, <1>8, <1>10 DEF Live
<1>13. Cardinality(Live') = Cardinality(Live) + 1
  BY <1>12, LiveFinite, FS_AddElement
<1>14. SamplingCapped'
  BY <1>3, <1>8, <1>10, <1>11 DEF ExportInv, SamplingCapped
<1> QED
  BY <1>9, <1>10, <1>11, <1>13, <1>14 DEF ExportInv

LEMMA RecordExport ==
  ASSUME ExportInv, NEW i \in Runtimes, Record(i)
  PROVE  ExportInv'
<1>1. PICK r : r = tele[i]
  OBVIOUS
<1>2. /\ r \in RuntimeRecord /\ Balanced(r) /\ Emptied(r)
      /\ r.life \in {"open", "closing"} /\ ~r.drained
      /\ UNCHANGED <<config, instances>>
  BY <1>1 DEF ExportInv, Record
<1>3. CASE tele' = [tele EXCEPT ![i] = [r EXCEPT !.made = @ + 1, !.queue = @ + 1]]
  <2>1. PICK m, q : m = r.made + 1 /\ q = r.queue + 1
    OBVIOUS
  <2>2. m \in Nat /\ q \in Nat
    BY <1>2, <2>1 DEF RuntimeRecord
  <2>3. PICK s : s = [r EXCEPT !.made = m, !.queue = q]
    OBVIOUS
  <2>4. s \in RuntimeRecord /\ s.life = r.life /\ s.ratio = r.ratio
    BY <1>2, <2>2, <2>3 DEF RuntimeRecord
  <2>5. Balanced(s) /\ Emptied(s)
    BY <1>2, <2>1, <2>3 DEF RuntimeRecord, Balanced, Emptied, InFlight
  <2>6. tele' = [tele EXCEPT ![i] = s]
    BY <1>3, <2>1, <2>3
  <2> QED
    BY <1>1, <1>2, <2>4, <2>5, <2>6, OneRuntime
<1>4. CASE tele' = [tele EXCEPT ![i] = [r EXCEPT !.made = @ + 1, !.dropped = @ + 1,
                                                 !.reported = @ + 1]]
  <2>1. PICK m, d, n : m = r.made + 1 /\ d = r.dropped + 1 /\ n = r.reported + 1
    OBVIOUS
  <2>2. m \in Nat /\ d \in Nat /\ n \in Nat
    BY <1>2, <2>1 DEF RuntimeRecord
  <2>3. PICK s : s = [r EXCEPT !.made = m, !.dropped = d, !.reported = n]
    OBVIOUS
  <2>4. s \in RuntimeRecord /\ s.life = r.life /\ s.ratio = r.ratio
    BY <1>2, <2>2, <2>3 DEF RuntimeRecord
  <2>5. Balanced(s) /\ Emptied(s)
    BY <1>2, <2>1, <2>3 DEF RuntimeRecord, Balanced, Emptied, InFlight
  <2>6. tele' = [tele EXCEPT ![i] = s]
    BY <1>4, <2>1, <2>3
  <2> QED
    BY <1>1, <1>2, <2>4, <2>5, <2>6, OneRuntime
<1> QED
  BY <1>1, <1>3, <1>4, NoReport DEF Record

LEMMA HandOver ==
  ASSUME ExportInv, NEW i \in Runtimes, ExportBatch(i) \/ forceFlush(i) \/ Drain(i)
  PROVE  ExportInv'
<1>1. PICK r : r = tele[i]
  OBVIOUS
<1>2. /\ r \in RuntimeRecord /\ Balanced(r) /\ Emptied(r) /\ r.queue \in Nat
      /\ UNCHANGED <<config, instances>>
  BY <1>1 DEF ExportInv, ExportBatch, forceFlush, Drain, RuntimeRecord
<1>3. CASE ExportBatch(i)
  <2>1. PICK s \in Export(r, 1, "timer") : tele' = [tele EXCEPT ![i] = s]
    BY <1>1, <1>3 DEF ExportBatch
  <2>2. 1 \in 0..r.queue /\ r.queue # 0
    BY <1>1, <1>2, <1>3 DEF ExportBatch
  <2>3. /\ s \in RuntimeRecord /\ Balanced(s) /\ s.life = r.life /\ s.ratio = r.ratio
        /\ s.stopped = r.stopped /\ s.drained = r.drained
    BY <1>2, <2>1, <2>2, ExportFacts
  <2>4. Emptied(s)
    BY <1>2, <2>2, <2>3 DEF Emptied
  <2> QED
    BY <1>1, <1>2, <2>1, <2>3, <2>4, OneRuntime
<1>4. CASE forceFlush(i)
  <2>1. PICK l \in Export(r, r.queue, "flush") :
          tele' = [tele EXCEPT ![i] = [l EXCEPT !.flush = TRUE]]
    BY <1>1, <1>4 DEF forceFlush
  <2>2. r.queue \in 0..r.queue /\ r.life = "open"
    BY <1>1, <1>2, <1>4 DEF forceFlush
  <2>3. /\ l \in RuntimeRecord /\ Balanced(l) /\ l.life = r.life /\ l.ratio = r.ratio
        /\ l.stopped = r.stopped /\ l.drained = r.drained /\ l.queue = 0
    BY <1>2, <2>1, <2>2, ExportFacts
  <2>4. PICK s : s = [l EXCEPT !.flush = TRUE]
    OBVIOUS
  <2>5. /\ s \in RuntimeRecord /\ s.life = r.life /\ s.ratio = r.ratio
        /\ s.stopped = r.stopped /\ s.drained = r.drained /\ s.queue = 0
    BY <2>3, <2>4 DEF RuntimeRecord
  <2>6. Balanced(s)
    BY <2>3, <2>4 DEF RuntimeRecord, Balanced, InFlight
  <2>7. Emptied(s)
    BY <1>2, <2>2, <2>5 DEF Emptied
  <2> QED
    BY <1>1, <1>2, <2>1, <2>4, <2>5, <2>6, <2>7, OneRuntime
<1>5. CASE Drain(i)
  <2>1. PICK l \in Export(r, r.queue, "flush"), failed \in BOOLEAN :
          tele' = [tele EXCEPT ![i] = [l EXCEPT !.drained = TRUE, !.drainFailed = failed]]
    <3>1. PICK l \in Export(r, r.queue, "flush") :
            tele' = [tele EXCEPT ![i] =
              [l EXCEPT !.drained = TRUE,
                        !.drainFailed = r.queue > 1 \/ (r.queue = 1 /\ ~Awaits(l, "flush"))]]
      BY <1>1, <1>5 DEF Drain
    <3>2. PICK failed \in BOOLEAN :
            failed = (r.queue > 1 \/ (r.queue = 1 /\ ~Awaits(l, "flush")))
      OBVIOUS
    <3> QED
      BY <3>1, <3>2
  <2>2. r.queue \in 0..r.queue /\ r.life = "closing"
    <3>1. r.queue \in 0..r.queue
      BY <1>2
    <3>2. r.life = "closing"
      BY <1>1, <1>5 DEF Drain
    <3> QED
      BY <3>1, <3>2
  <2>3. /\ l \in RuntimeRecord /\ Balanced(l) /\ l.life = r.life /\ l.ratio = r.ratio
        /\ l.queue = 0
    BY <1>2, <2>1, <2>2, ExportFacts
  <2>4. PICK s : s = [l EXCEPT !.drained = TRUE, !.drainFailed = failed]
    OBVIOUS
  <2>5. /\ s \in RuntimeRecord /\ s.life = r.life /\ s.ratio = r.ratio
        /\ s.drained /\ s.queue = 0
    BY <2>3, <2>4 DEF RuntimeRecord
  <2>6. Balanced(s)
    BY <2>3, <2>4 DEF RuntimeRecord, Balanced, InFlight
  <2>7. Emptied(s)
    BY <2>2, <2>5 DEF Emptied
  <2> QED
    BY <1>1, <1>2, <2>1, <2>4, <2>5, <2>6, <2>7, OneRuntime
<1> QED
  BY <1>3, <1>4, <1>5

LEMMA RequestEnds ==
  ASSUME ExportInv, NEW i \in Runtimes, ExportFails(i) \/ Deadline(i)
  PROVE  ExportInv'
<1>1. PICK r : r = tele[i]
  OBVIOUS
<1>2. /\ r \in RuntimeRecord /\ Balanced(r) /\ Emptied(r) /\ InFlight(r)
      /\ UNCHANGED <<config, instances>> /\ tele' = [tele EXCEPT ![i] = Failed(r)]
  BY <1>1 DEF ExportInv, ExportFails, Deadline
<1>3. PICK m : m = r.reported + 1
  OBVIOUS
<1>4. m \in Nat
  BY <1>2, <1>3 DEF RuntimeRecord
<1>5. PICK l : l = Lost(r, 1)
  OBVIOUS
<1>6. l = [r EXCEPT !.reported = m]
  BY <1>2, <1>3, <1>5, LostFacts
<1>7. PICK failed \in BOOLEAN : failed = (l.drainFailed \/ (r.drained /\ r.owner = "flush"))
  <2>1. l.drainFailed \in BOOLEAN
    BY <1>2, <1>6 DEF RuntimeRecord
  <2> QED
    BY <2>1
<1>8. PICK s : s = [l EXCEPT !.send = "settled", !.drainFailed = failed]
  OBVIOUS
<1>9. Failed(r) = s
  BY <1>5, <1>7, <1>8 DEF Failed
<1>10. /\ s \in RuntimeRecord /\ s.life = r.life /\ s.ratio = r.ratio
       /\ s.send = "settled" /\ s.reported = m
       /\ s.queue = r.queue /\ s.handed = r.handed /\ s.made = r.made
       /\ s.dropped = r.dropped /\ s.succeeded = r.succeeded
       /\ s.stopped = r.stopped /\ s.drained = r.drained
  BY <1>2, <1>4, <1>6, <1>7, <1>8 DEF RuntimeRecord
<1>11. ~InFlight(s)
  BY <1>10 DEF InFlight
<1>12. Balanced(s)
  BY <1>2, <1>3, <1>10, <1>11 DEF Balanced, RuntimeRecord
<1>13. Emptied(s)
  BY <1>2, <1>10 DEF Emptied, InFlight
<1> QED
  BY <1>1, <1>2, <1>9, <1>10, <1>12, <1>13, OneRuntime

LEMMA RequestMoves ==
  ASSUME ExportInv, NEW i \in Runtimes,
         \/ SessionReceived(i) \/ ExportSucceeds(i) \/ Forget(i)
         \/ FlushSettles(i) \/ shutdown(i) \/ StopExporter(i)
  PROVE  ExportInv'
<1>1. PICK r : r = tele[i]
  OBVIOUS
<1>2. /\ r \in RuntimeRecord /\ Balanced(r) /\ Emptied(r)
      /\ UNCHANGED <<config, instances>>
  BY <1>1 DEF ExportInv, SessionReceived, ExportSucceeds, Forget, FlushSettles, shutdown,
              StopExporter
<1>3. PICK s :
        /\ tele' = [tele EXCEPT ![i] = s]
        /\ \/ r.send = "session" /\ s = [r EXCEPT !.send = "post"]
           \/ r.send = "post" /\ s = [r EXCEPT !.send = "settled", !.succeeded = @ + 1]
           \/ r.send = "settled" /\ s = [r EXCEPT !.send = "idle"]
           \/ s = [r EXCEPT !.flush = FALSE]
           \/ s = r
           \/ r.life = "open" /\ s = [r EXCEPT !.life = "closing"]
           \/ r.drained /\ s = [r EXCEPT !.stopped = TRUE]
  <2>1. CASE SessionReceived(i)
    BY <1>1, <2>1 DEF SessionReceived, ExportInv
  <2>2. CASE ExportSucceeds(i)
    BY <1>1, <2>2 DEF ExportSucceeds, ExportInv
  <2>3. CASE Forget(i)
    BY <1>1, <2>3 DEF Forget, ExportInv
  <2>4. CASE FlushSettles(i)
    BY <1>1, <2>4 DEF FlushSettles, ExportInv
  <2>5. CASE shutdown(i)
    <3>1. tele' = [tele EXCEPT ![i] = [r EXCEPT !.life = IF @ = "open" THEN "closing" ELSE @]]
      BY <1>1, <2>5 DEF shutdown, ExportInv
    <3>2. r.life # "open" => [r EXCEPT !.life = r.life] = r
      BY <1>2 DEF RuntimeRecord
    <3> QED
      BY <3>1, <3>2
  <2>6. CASE StopExporter(i)
    BY <1>1, <2>6 DEF StopExporter, ExportInv
  <2> QED
    BY <2>1, <2>2, <2>3, <2>4, <2>5, <2>6
<1>4. /\ s \in RuntimeRecord /\ s.ratio = r.ratio
      /\ s.life \in {"open", "closing"} <=> r.life \in {"open", "closing"}
      /\ Balanced(s) /\ Emptied(s)
  <2>1. CASE r.send = "session" /\ s = [r EXCEPT !.send = "post"]
    BY <1>2, <2>1 DEF RuntimeRecord, Balanced, Emptied, InFlight
  <2>2. CASE r.send = "post" /\ s = [r EXCEPT !.send = "settled", !.succeeded = @ + 1]
    <3>1. PICK n : n = r.succeeded + 1
      OBVIOUS
    <3>2. n \in Nat /\ s = [r EXCEPT !.send = "settled", !.succeeded = n]
      BY <1>2, <2>2, <3>1 DEF RuntimeRecord
    <3>3. /\ s \in RuntimeRecord /\ s.life = r.life /\ s.ratio = r.ratio
          /\ s.send = "settled" /\ s.succeeded = n /\ s.reported = r.reported
          /\ s.queue = r.queue /\ s.handed = r.handed /\ s.made = r.made
          /\ s.dropped = r.dropped /\ s.stopped = r.stopped /\ s.drained = r.drained
      BY <1>2, <3>2 DEF RuntimeRecord
    <3>4. InFlight(r) /\ ~InFlight(s)
      BY <2>2, <3>3 DEF InFlight
    <3>5. Balanced(s)
      BY <1>2, <3>1, <3>3, <3>4 DEF RuntimeRecord, Balanced
    <3>6. Emptied(s)
      BY <1>2, <2>2, <3>3 DEF Emptied
    <3> QED
      BY <3>3, <3>5, <3>6
  <2>3. CASE r.send = "settled" /\ s = [r EXCEPT !.send = "idle"]
    BY <1>2, <2>3 DEF RuntimeRecord, Balanced, Emptied, InFlight
  <2>4. CASE s = [r EXCEPT !.flush = FALSE]
    BY <1>2, <2>4 DEF RuntimeRecord, Balanced, Emptied, InFlight
  <2>5. CASE s = r
    BY <1>2, <2>5
  <2>6. CASE r.life = "open" /\ s = [r EXCEPT !.life = "closing"]
    BY <1>2, <2>6 DEF RuntimeRecord, Balanced, Emptied, InFlight
  <2>7. CASE r.drained /\ s = [r EXCEPT !.stopped = TRUE]
    BY <1>2, <2>7 DEF RuntimeRecord, Balanced, Emptied, InFlight
  <2> QED
    BY <1>3, <2>1, <2>2, <2>3, <2>4, <2>5, <2>6, <2>7
<1> QED
  BY <1>1, <1>2, <1>3, <1>4, OneRuntime

LEMMA CloseExport ==
  ASSUME ExportInv, NEW i \in Runtimes, ShutdownSettles(i) \/ ShutdownGivesUp(i)
  PROVE  ExportInv'
<1>1. PICK r : r = tele[i]
  OBVIOUS
<1>2. /\ r \in RuntimeRecord /\ Balanced(r) /\ Emptied(r) /\ r.life = "closing"
      /\ config' = config /\ instances' = instances - 1
      /\ r.drainFailed \/ (r.stopped /\ r.send = "idle")
  BY <1>1 DEF ExportInv, ShutdownSettles, ShutdownGivesUp, Closed
<1>3. PICK ending : ending = IF r.drainFailed THEN "rejected" ELSE "resolved"
  OBVIOUS
<1>4. PICK s : s = [r EXCEPT !.life = ending]
  OBVIOUS
<1>5. tele' = [tele EXCEPT ![i] = s]
  BY <1>1, <1>3, <1>4 DEF ExportInv, ShutdownSettles, ShutdownGivesUp, Closed
<1>6. /\ s \in RuntimeRecord /\ s.ratio = r.ratio /\ s.life \in {"rejected", "resolved"}
      /\ s.life = "resolved" => s.stopped /\ s.send = "idle"
  BY <1>2, <1>3, <1>4 DEF RuntimeRecord
<1>7. Balanced(s) /\ Emptied(s)
  BY <1>2, <1>4, <1>6 DEF RuntimeRecord, Balanced, Emptied, InFlight
<1>8. /\ tele' \in [Runtimes -> RuntimeRecord]
      /\ \A j \in Runtimes : tele'[j] = IF j = i THEN s ELSE tele[j]
  BY <1>5, <1>6 DEF ExportInv
<1>9. Live' = Live \ {i} /\ i \in Live
  BY <1>1, <1>2, <1>6, <1>8 DEF Live
<1>10. Cardinality(Live') = Cardinality(Live) - 1
  BY <1>9, LiveFinite, FS_RemoveElement
<1>11. SamplingCapped'
  BY <1>1, <1>2, <1>6, <1>8 DEF ExportInv, SamplingCapped
<1> QED
  BY <1>2, <1>7, <1>8, <1>10, <1>11 DEF ExportInv

LEMMA ExportStep == ExportInv /\ [TelemetryNext]_exportVars => ExportInv'
<1> SUFFICES ASSUME ExportInv, [TelemetryNext]_exportVars PROVE ExportInv'
  OBVIOUS
<1>1. CASE UNCHANGED exportVars
  BY <1>1 DEF exportVars, ExportInv, Live, SamplingCapped
<1>2. CASE TelemetryNext
  <2>1. PICK i \in Runtimes :
          \/ createBrowserTelemetry(i) \/ Record(i) \/ ExportBatch(i)
          \/ SessionReceived(i) \/ ExportSucceeds(i) \/ ExportFails(i) \/ Deadline(i)
          \/ Forget(i) \/ forceFlush(i) \/ FlushSettles(i)
          \/ shutdown(i) \/ Drain(i) \/ StopExporter(i)
          \/ ShutdownSettles(i) \/ ShutdownGivesUp(i)
    BY <1>2 DEF TelemetryNext
  <2> QED
    BY <2>1, CreateExport, RecordExport, HandOver, RequestEnds, RequestMoves, CloseExport
<1> QED
  BY <1>1, <1>2

\* The invariant says what the properties say of the exporter.
LEMMA ExportProperties == ExportInv => LossesAccounted /\ InstancesExact /\ SamplingCapped
<1> SUFFICES ASSUME ExportInv PROVE LossesAccounted /\ InstancesExact
  BY DEF ExportInv
<1>1. \A i \in Runtimes : /\ tele[i].made \in Nat /\ tele[i].handed \in Nat
                          /\ tele[i].dropped \in Nat /\ tele[i].reported \in Nat
                          /\ tele[i].succeeded \in Nat
  BY DEF ExportInv, RuntimeRecord
<1>2. LossReportedOnce
  BY <1>1 DEF ExportInv, Balanced, LossReportedOnce
<1>3. ResolvedIsComplete
  BY <1>1 DEF ExportInv, Balanced, Emptied, InFlight, ResolvedIsComplete
<1> QED
  BY <1>2, <1>3 DEF ExportInv, LossesAccounted, InstancesExact, Live

-----------------------------------------------------------------------------
(* The meter: its registry, and what one collection buffers.                *)

\* The runs of a collection that have not begun have their budgets to come,
\* the one that runs what is left of its own.
Spent == IF running = Nothing THEN 0 ELSE Budget - remaining

MeterInv ==
  /\ registered \subseteq Registrations /\ IsFiniteSet(registered)
  /\ CallbacksExact
  /\ todo \subseteq Registrations /\ IsFiniteSet(todo)
  /\ Cardinality(todo) <= MaxCallbacks
  /\ running # Nothing => running \in todo
  /\ remaining \in 0..Budget /\ buffered \in Nat
  /\ buffered <= (MaxCallbacks - Cardinality(todo)) * Budget + Spent

\* Budgets add up.
LEMMA Budgets ==
  ASSUME NEW n \in Nat
  PROVE  /\ n * Budget \in Nat
         /\ (n + 1) * Budget = n * Budget + Budget
         /\ \A m \in Nat : n <= m => n * Budget <= m * Budget
  BY MeterAssumption

LEMMA MeterInitInv == MeterInit => MeterInv
<1> SUFFICES ASSUME MeterInit PROVE MeterInv
  OBVIOUS
<1>1. /\ registered = {} /\ callbackCount = 0 /\ sdk = {} /\ todo = {}
      /\ running = Nothing /\ remaining = 0 /\ buffered = 0
  BY DEF MeterInit
<1>2. IsFiniteSet({}) /\ Cardinality({}) = 0
  BY FS_EmptySet
<1>3. MaxCallbacks * Budget \in Nat
  BY MeterAssumption, Budgets
<1> QED
  BY <1>1, <1>2, <1>3, MeterAssumption DEF MeterInv, CallbacksExact, Spent

\* Callbacks come and go, one at a time, with the count and in the SDK too.
LEMMA RegistryKeeps ==
  ASSUME MeterInv, NEW g \in Registrations, UNCHANGED collectionVars,
         \/ Register(g) \/ Unregister(g)
         \/ UNCHANGED <<registered, sdk, callbackCount>>
  PROVE  MeterInv'
<1>1. CASE Register(g) /\ g \notin registered /\ callbackCount < MaxCallbacks
  <2>1. /\ registered' = registered \cup {g} /\ sdk' = sdk \cup {g}
        /\ callbackCount' = callbackCount + 1
    <3>1. callbackCount \in Nat
      BY FS_CardinalityType DEF MeterInv, CallbacksExact
    <3> QED
      BY <1>1, <3>1, MeterAssumption DEF Register
  <2>2. IsFiniteSet(registered') /\ Cardinality(registered') = Cardinality(registered) + 1
    BY <1>1, <2>1, FS_AddElement DEF MeterInv
  <2>3. Cardinality(registered) \in Nat
    BY FS_CardinalityType DEF MeterInv
  <2>4. CallbacksExact'
    BY <1>1, <2>1, <2>2, <2>3, MeterAssumption DEF MeterInv, CallbacksExact
  <2> QED
    BY <2>1, <2>2, <2>4 DEF MeterInv, collectionVars, Spent
<1>2. CASE Unregister(g)
  <2>1. /\ registered' = registered \ {g} /\ sdk' = sdk \ {g} /\ g \in registered
        /\ callbackCount' = callbackCount - 1
    BY <1>2 DEF Unregister
  <2>2. IsFiniteSet(registered') /\ Cardinality(registered') = Cardinality(registered) - 1
    BY <2>1, FS_RemoveElement DEF MeterInv
  <2>3. Cardinality(registered) \in Nat
    BY FS_CardinalityType DEF MeterInv
  <2>4. CallbacksExact'
    BY <2>1, <2>2, <2>3, MeterAssumption DEF MeterInv, CallbacksExact
  <2> QED
    BY <2>1, <2>2, <2>4 DEF MeterInv, collectionVars, Spent
<1>3. CASE UNCHANGED <<registered, sdk, callbackCount>>
  BY <1>3 DEF MeterInv, CallbacksExact, collectionVars, Spent
<1> QED
  BY <1>1, <1>2, <1>3 DEF Register

LEMMA RegistryStep ==
  ASSUME MeterInv,
         \/ \E n \in Names : createInstrument(n)
         \/ \E n \in Names, f \in Callbacks : addCallback(n, f) \/ removeCallback(n, f)
         \/ \E ns \in SUBSET Names, f \in Callbacks :
              addBatchObservableCallback(ns, f) \/ removeBatchObservableCallback(ns, f)
  PROVE  MeterInv'
<1>1. CASE \E n \in Names : createInstrument(n)
  BY <1>1 DEF createInstrument, MeterInv, CallbacksExact, collectionVars, Spent
<1>2. CASE \E n \in Names, f \in Callbacks : addCallback(n, f) \/ removeCallback(n, f)
  <2>1. PICK n \in Names, f \in Callbacks : addCallback(n, f) \/ removeCallback(n, f)
    BY <1>2
  <2>2. OfInstrument(n, f) \in Registrations
    BY DEF Registrations
  <2> QED
    BY <2>1, <2>2, RegistryKeeps DEF addCallback, removeCallback
<1>3. CASE \E ns \in SUBSET Names, f \in Callbacks :
              addBatchObservableCallback(ns, f) \/ removeBatchObservableCallback(ns, f)
  <2>1. PICK ns \in SUBSET Names, f \in Callbacks :
          addBatchObservableCallback(ns, f) \/ removeBatchObservableCallback(ns, f)
    BY <1>3
  <2>2. CASE selectedObservables(ns)
    <3>1. OfBatch(ns, f) \in Registrations
      <4>1. ns \in (SUBSET Names) \ {{}}
        BY <2>2 DEF selectedObservables
      <4> QED
        BY <4>1 DEF Registrations
    <3> QED
      BY <2>1, <2>2, <3>1, RegistryKeeps
      DEF addBatchObservableCallback, removeBatchObservableCallback
  <2>3. CASE ~selectedObservables(ns)
    BY <2>1, <2>3 DEF addBatchObservableCallback, removeBatchObservableCallback,
                      MeterInv, CallbacksExact, collectionVars, Spent
  <2> QED
    BY <2>2, <2>3
<1> QED
  BY <1>1, <1>2, <1>3

\* A collection runs its callbacks one after the other.
LEMMA CollectionStep ==
  ASSUME MeterInv,
         \/ Collect \/ RunEnds
         \/ \E g \in Registrations : Run(g)
         \/ \E n \in Names, valid \in BOOLEAN : observe(n, valid)
  PROVE  MeterInv'
<1>0. /\ Cardinality(todo) \in Nat /\ MaxCallbacks \in Nat /\ Budget \in Nat
      /\ MaxCallbacks - Cardinality(todo) \in Nat
      /\ buffered \in Nat /\ remaining \in 0..Budget
  BY FS_CardinalityType, MeterAssumption DEF MeterInv
<1>1. UNCHANGED <<registered, sdk, callbackCount>>
  BY DEF Collect, RunEnds, Run, observe, registryVars
<1>2. CallbacksExact' /\ registered' \subseteq Registrations /\ IsFiniteSet(registered')
  BY <1>1 DEF MeterInv, CallbacksExact
<1> DEFINE left == Cardinality(todo)
<1>3. PICK spent : spent = (MaxCallbacks - left) * Budget
  OBVIOUS
<1>4. spent \in Nat /\ buffered <= spent + Spent
  BY <1>0, <1>3, Budgets DEF MeterInv
<1>5. CASE Collect
  <2>1. todo' = sdk /\ running = Nothing /\ running' = Nothing /\ buffered' = 0
        /\ remaining' = remaining
    BY <1>5 DEF Collect
  <2>2. /\ todo' \subseteq Registrations /\ IsFiniteSet(todo')
        /\ Cardinality(todo') \in Nat /\ Cardinality(todo') <= MaxCallbacks
    BY <2>1, FS_CardinalityType DEF MeterInv, CallbacksExact
  <2>3. MaxCallbacks - Cardinality(todo') \in Nat
    BY <1>0, <2>2
  <2>4. (MaxCallbacks - Cardinality(todo')) * Budget \in Nat
    BY <2>3, Budgets
  <2>5. Spent' = 0
    BY <2>1 DEF Spent
  <2> QED
    BY <1>0, <1>2, <2>1, <2>2, <2>4, <2>5 DEF MeterInv
<1>6. CASE \E g \in Registrations : Run(g)
  <2>1. PICK g \in todo : running = Nothing /\ running' = g /\ remaining' = Budget
                          /\ todo' = todo /\ buffered' = buffered
    BY <1>6 DEF Run
  <2>2. Spent = 0 /\ Spent' = 0
    BY <1>0, <2>1 DEF Spent
  <2> QED
    BY <1>0, <1>2, <2>1, <2>2 DEF MeterInv
<1>7. CASE \E n \in Names, valid \in BOOLEAN : observe(n, valid)
  <2>1. /\ running # Nothing /\ running' = running /\ todo' = todo
        /\ \/ remaining > 0 /\ remaining' = remaining - 1 /\ buffered' = buffered + 1
           \/ remaining' = remaining /\ buffered' = buffered
    BY <1>7 DEF observe, Accepts
  <2>2. Spent = Budget - remaining /\ Spent' = Budget - remaining'
    BY <2>1 DEF Spent
  <2>3. /\ remaining' \in 0..Budget /\ buffered' \in Nat
        /\ buffered' <= spent + Spent'
    BY <1>0, <1>4, <2>1, <2>2
  <2> QED
    BY <1>2, <1>3, <2>1, <2>3 DEF MeterInv
<1>8. CASE RunEnds
  <2>1. /\ running # Nothing /\ running' = Nothing /\ remaining' = 0
        /\ todo' = todo \ {running} /\ buffered' = buffered
    BY <1>8 DEF RunEnds
  <2>2. running \in todo /\ IsFiniteSet(todo)
    BY <2>1 DEF MeterInv
  <2>3. IsFiniteSet(todo') /\ Cardinality(todo') = left - 1
    BY <2>1, <2>2, FS_RemoveElement
  <2>4. Cardinality(todo') \in Nat
    BY <2>3, FS_CardinalityType
  <2>5. MaxCallbacks - Cardinality(todo') = (MaxCallbacks - left) + 1
        /\ Cardinality(todo') <= MaxCallbacks
    BY <1>0, <2>3, <2>4
  <2>6. (MaxCallbacks - Cardinality(todo')) * Budget = spent + Budget
    BY <1>0, <1>3, <2>5, Budgets
  <2>7. Spent' = 0 /\ Spent = Budget - remaining
    BY <2>1 DEF Spent
  <2>8. buffered <= spent + Budget
    BY <1>0, <1>4, <2>7
  <2>9. buffered' <= (MaxCallbacks - Cardinality(todo')) * Budget + Spent'
    BY <1>0, <1>4, <2>1, <2>6, <2>7, <2>8
  <2> QED
    BY <1>0, <1>2, <2>1, <2>3, <2>5, <2>9 DEF MeterInv
<1> QED
  BY <1>5, <1>6, <1>7, <1>8

LEMMA MeterStep == MeterInv /\ [MeterNext]_meterVars => MeterInv'
<1>1. MeterInv /\ UNCHANGED meterVars => MeterInv'
  BY DEF meterVars, MeterInv, CallbacksExact, Spent
<1>2. MeterInv /\ MeterNext => MeterInv'
  BY RegistryStep, CollectionStep DEF MeterNext
<1> QED
  BY <1>1, <1>2

LEMMA MeterProperties == MeterInv => CallbacksExact /\ BufferBounded
<1> SUFFICES ASSUME MeterInv PROVE BufferBounded
  BY DEF MeterInv
<1>0. /\ Cardinality(todo) \in Nat /\ MaxCallbacks \in Nat /\ Budget \in Nat
      /\ MaxCallbacks - Cardinality(todo) \in Nat
      /\ buffered \in Nat /\ remaining \in 0..Budget
  BY FS_CardinalityType, MeterAssumption DEF MeterInv
<1>1. PICK n \in Nat : n = MaxCallbacks - Cardinality(todo)
  BY <1>0
<1>2. n * Budget \in Nat /\ buffered <= n * Budget + Spent
  BY <1>1, Budgets DEF MeterInv
<1>3. CASE running = Nothing
  <2>1. buffered <= n * Budget /\ n <= MaxCallbacks
    BY <1>0, <1>1, <1>2, <1>3 DEF Spent
  <2>2. n * Budget <= MaxCallbacks * Budget /\ MaxCallbacks * Budget \in Nat
    BY <1>0, <2>1, Budgets
  <2> QED
    BY <1>0, <1>2, <2>1, <2>2 DEF BufferBounded
<1>4. CASE running # Nothing
  <2>1. Cardinality(todo) # 0
    BY <1>4, FS_EmptySet DEF MeterInv
  <2>2. n + 1 <= MaxCallbacks /\ n + 1 \in Nat
    BY <1>0, <1>1, <2>1
  <2>3. (n + 1) * Budget <= MaxCallbacks * Budget /\ MaxCallbacks * Budget \in Nat
    BY <1>0, <2>2, Budgets
  <2>4. buffered <= n * Budget + Budget
    BY <1>0, <1>2, <1>4 DEF Spent
  <2>5. (n + 1) * Budget = n * Budget + Budget
    BY Budgets
  <2> QED
    BY <1>0, <1>2, <2>3, <2>4, <2>5 DEF BufferBounded
<1> QED
  BY <1>3, <1>4

-----------------------------------------------------------------------------
(* The probes: their deliveries, and the spans they open and end.           *)

ProbesRecord ==
  [spans : [Calls -> Spans], count : Nat, delivered : Nat, failures : Nat]

\* The deliveries of its probes that a fan-out has missed.
Short(p) == 3 * p.count - p.delivered

\* The settled calls that left a span open.
Leaked == {c \in Calls : call[c].at = "done" /\ probes.spans[c] # "none"}

\* The probes, when n failures were reported from outside: each missed
\* delivery is counted, and pays for a span that was left open at most.
ProbesInv(n) ==
  /\ probes \in ProbesRecord
  /\ Missed \in Nat
  /\ probes.failures = Missed + n
  /\ Cardinality(Leaked) <= Missed
  /\ \A c \in Calls : ~Probed(call[c].op) => probes.spans[c] = "none"

ProbeNames == {"started", "attempted", "completed", "finished"}

\* How many sinks fail.
LEMMA BrokenSinks ==
  ASSUME NEW broken \in SUBSET Breakable
  PROVE  /\ Cardinality(broken) \in {0, 1, 2}
         /\ Cardinality(Sinks \ broken) = 3 - Cardinality(broken)
         /\ broken # {} => Cardinality(broken) >= 1
<1>1. IsFiniteSet({}) /\ Cardinality({}) = 0
  BY FS_EmptySet
<1>2. Cardinality({"trace"}) = 1 /\ Cardinality({"performance"}) = 1
      /\ IsFiniteSet({"trace"})
  BY FS_Singleton
<1>3. Cardinality({"trace"} \cup {"performance"}) = 2
  BY <1>2, FS_AddElement
<1>4. \/ broken = {} \/ broken = {"trace"} \/ broken = {"performance"}
      \/ broken = {"trace"} \cup {"performance"}
  BY DEF Breakable
<1>5. Cardinality(Sinks \ broken) = 3 - Cardinality(broken)
  <2>1. /\ IsFiniteSet({"trace"} \cup {"performance"})
        /\ "recent" \notin {"trace"} \cup {"performance"}
    BY <1>2, FS_AddElement
  <2>2. Sinks = ({"trace"} \cup {"performance"}) \cup {"recent"}
    BY DEF Sinks
  <2>3. IsFiniteSet(Sinks) /\ Cardinality(Sinks) = 3
    BY <1>3, <2>1, <2>2, FS_AddElement
  <2>4. Sinks \cap broken = broken
    BY DEF Sinks, Breakable
  <2>5. Cardinality(Sinks \ broken) = Cardinality(Sinks) - Cardinality(Sinks \cap broken)
    BY <2>3, FS_Difference
  <2> QED
    BY <2>3, <2>4, <2>5
<1>6. Cardinality(broken) \in {0, 1, 2}
  BY <1>1, <1>2, <1>3, <1>4
<1> QED
  BY <1>1, <1>2, <1>3, <1>4, <1>5, <1>6

\* One probe: every sink has it, or its loss is counted; one span may move.
OneProbeMore(p, q, c, name, broken) ==
  /\ q \in ProbesRecord
  /\ Short(q) = Short(p) + Cardinality(broken)
  /\ q.failures = p.failures + Cardinality(broken)
  /\ q.spans = [p.spans EXCEPT ![c] =
                  Traced(p.spans[c], name, "trace" \in broken)]

LEMMA OneProbe ==
  ASSUME NEW p \in ProbesRecord, NEW c \in Calls,
         NEW name \in ProbeNames, NEW broken \in SUBSET Breakable
  PROVE  OneProbeMore(p, Published(p, c, name, broken), c, name, broken)
<1> DEFINE q == Published(p, c, name, broken)
<1>1. /\ p.spans \in [Calls -> Spans] /\ p.count \in Nat /\ p.failures \in Nat
      /\ p.delivered \in Nat
  BY DEF ProbesRecord
<1>2. /\ Cardinality(broken) \in {0, 1, 2}
      /\ Cardinality(Sinks \ broken) = 3 - Cardinality(broken)
  BY BrokenSinks
<1>3. Traced(p.spans[c], name, "trace" \in broken) \in Spans
  BY <1>1 DEF Traced, Projected, Spans, ProbeNames
<1>4. /\ q.spans = [p.spans EXCEPT ![c] =
                      Traced(p.spans[c], name, "trace" \in broken)]
      /\ q.count = p.count + 1
      /\ q.delivered = p.delivered + Cardinality(Sinks \ broken)
      /\ q.failures = p.failures + Cardinality(broken)
  BY DEF Published
<1>5. q.spans \in [Calls -> Spans]
  BY <1>1, <1>3, <1>4
<1>6. q.delivered \in Nat /\ q.count \in Nat /\ q.failures \in Nat
  BY <1>1, <1>2, <1>4
<1>7. q = [spans |-> q.spans, count |-> q.count, delivered |-> q.delivered,
           failures |-> q.failures]
  BY DEF Published
<1>8. q \in ProbesRecord
  BY <1>5, <1>6, <1>7 DEF ProbesRecord
<1> HIDE DEF q
<1>9. Short(q) = Short(p) + Cardinality(broken)
  BY <1>1, <1>2, <1>4, <1>6 DEF Short
<1>10. OneProbeMore(p, q, c, name, broken)
  BY <1>4, <1>8, <1>9 DEF OneProbeMore
<1> QED
  BY <1>10 DEF q

\* Two probes in a row: the other calls keep their spans, and a span stays
\* after "finished" only if a sink failed.
LEMMA TwoProbes ==
  ASSUME NEW n \in Nat, ProbesInv(n), NEW c \in Calls, NEW first \in ProbeNames,
         NEW second \in ProbeNames, PublishPair(c, first, second)
  PROVE  /\ probes' \in ProbesRecord
         /\ Missed' \in Nat /\ Missed' >= Missed
         /\ probes'.failures = Missed' + n
         /\ \A d \in Calls \ {c} : probes'.spans[d] = probes.spans[d]
         /\ second = "finished" /\ probes'.spans[c] # "none" =>
              Missed' >= Missed + 1
<1>1. PICK early \in SUBSET Breakable, late \in SUBSET Breakable :
        probes' = Published(Published(probes, c, first, early), c, second, late)
  BY DEF PublishPair
<1> DEFINE q == Published(probes, c, first, early)
<1>2. probes' = Published(q, c, second, late)
  BY <1>1
<1>3. /\ probes \in ProbesRecord /\ Short(probes) = Missed /\ Missed \in Nat
      /\ probes.failures = Missed + n
  BY DEF ProbesInv, Short, Missed
<1>4. /\ q \in ProbesRecord
      /\ Short(q) = Short(probes) + Cardinality(early)
      /\ q.failures = probes.failures + Cardinality(early)
      /\ q.spans = [probes.spans EXCEPT ![c] =
                      Traced(probes.spans[c], first, "trace" \in early)]
  <2>1. OneProbeMore(probes, q, c, first, early)
    BY <1>3, OneProbe
  <2> QED
    BY <2>1 DEF OneProbeMore
<1> HIDE DEF q
<1>5. /\ probes' \in ProbesRecord
      /\ Short(probes') = Short(q) + Cardinality(late)
      /\ probes'.failures = q.failures + Cardinality(late)
      /\ probes'.spans = [q.spans EXCEPT ![c] =
                            Traced(q.spans[c], second, "trace" \in late)]
  <2>1. OneProbeMore(q, Published(q, c, second, late), c, second, late)
    BY <1>4, OneProbe
  <2> QED
    BY <1>2, <2>1 DEF OneProbeMore
<1>6. /\ probes.spans \in [Calls -> Spans] /\ q.spans \in [Calls -> Spans]
  BY <1>3, <1>4 DEF ProbesRecord
<1>7. Cardinality(early) \in Nat /\ Cardinality(late) \in Nat
  <2>1. Cardinality(early) \in {0, 1, 2}
    BY BrokenSinks
  <2>2. Cardinality(late) \in {0, 1, 2}
    BY BrokenSinks
  <2> QED
    BY <2>1, <2>2
<1>8. Missed' = Short(probes')
  BY DEF Missed, Short
<1>9. Missed' = Missed + Cardinality(early) + Cardinality(late)
  BY <1>3, <1>4, <1>5, <1>7, <1>8
<1>10. \A d \in Calls \ {c} : probes'.spans[d] = probes.spans[d]
  BY <1>4, <1>5, <1>6
<1>11. ASSUME second = "finished", probes'.spans[c] # "none"
       PROVE  Cardinality(late) >= 1
  <2>1. probes'.spans[c] = Traced(q.spans[c], second, "trace" \in late)
    BY <1>5, <1>6
  <2>2. "trace" \in late
    BY <1>11, <2>1 DEF Traced, Projected
  <2> QED
    BY <2>2, BrokenSinks
<1>12. probes'.failures = Missed' + n
  BY <1>3, <1>4, <1>5, <1>7, <1>9
<1>13. Missed' \in Nat /\ Missed' >= Missed
  BY <1>3, <1>7, <1>9
<1>14. ASSUME second = "finished", probes'.spans[c] # "none"
       PROVE  Missed' >= Missed + 1
  BY <1>3, <1>7, <1>9, <1>11, <1>14
<1> QED
  BY <1>5, <1>10, <1>12, <1>13, <1>14

LEMMA LeakedFinite == IsFiniteSet(Leaked) /\ Cardinality(Leaked) \in Nat
BY OperationsAssumption, FS_Subset, FS_CardinalityType DEF Leaked

LEMMA ProbesInit == Init => ProbesInv(0)
<1> SUFFICES ASSUME Init PROVE ProbesInv(0)
  OBVIOUS
<1>1. probes = [spans |-> [c \in Calls |-> "none"], count |-> 0,
                delivered |-> 0, failures |-> 0]
  BY DEF Init
<1>2. probes \in ProbesRecord
  BY <1>1 DEF ProbesRecord, Spans
<1>3. Missed = 0 /\ probes.failures = 0
  BY <1>1 DEF Missed
<1>4. \A c \in Calls : probes.spans[c] = "none"
  BY <1>1
<1>5. Leaked = {}
  BY <1>4 DEF Leaked
<1> QED
  BY <1>2, <1>3, <1>4, <1>5, FS_EmptySet DEF ProbesInv

\* A step that publishes nothing and settles no call.
LEMMA QuietProbes ==
  ASSUME NEW n \in Nat, ProbesInv(n), UNCHANGED probes,
         \A d \in Calls : /\ call'[d].op = call[d].op
                          /\ call'[d].at = "done" <=> call[d].at = "done"
  PROVE  ProbesInv(n)'
<1>1. Leaked' = Leaked
  BY DEF Leaked
<1> QED
  BY <1>1 DEF ProbesInv, Missed, Probed

\* A refused or moved call is not settled yet.
LEMMA RejectProbes ==
  ASSUME NEW n \in Nat, ProbesInv(n), Types, UNCHANGED probes, NEW c \in Calls,
         call[c].at # "done", NEW code \in Codes,
         NEW status \in {0, 401} \cup Refusals \cup Troubles,
         call' = [call EXCEPT ![c] = Reject(c, code, status)]
  PROVE  ProbesInv(n)'
<1>1. /\ Reject(c, code, status).op = call[c].op
      /\ Reject(c, code, status).at = "settling"
  BY DEF Reject, Types, CallRecord
<1>2. call \in [Calls -> CallRecord]
  BY DEF Types
<1>3. \A d \in Calls : /\ call'[d].op = call[d].op
                       /\ call'[d].at = "done" <=> call[d].at = "done"
  BY <1>1, <1>2
<1> QED
  BY <1>3, QuietProbes

LEMMA StartProbes ==
  ASSUME NEW n \in Nat, ProbesInv(n), Types, NEW c \in Calls, Start(c)
  PROVE  ProbesInv(n)'
<1>0. call \in [Calls -> CallRecord] /\ call[c] \in CallRecord /\ call[c].at = "idle"
  BY DEF Start, Types
<1>1. /\ \A d \in Calls : call'[d].op = call[d].op
      /\ \A d \in Calls \ {c} : call'[d] = call[d]
      /\ call'[c].at # "done"
  <2>1. CASE \E code \in {"busy", "invalid_input"} :
               call' = [call EXCEPT ![c] = Reject(c, code, 0)]
    <3>1. PICK code \in {"busy", "invalid_input"} :
            call' = [call EXCEPT ![c] = Reject(c, code, 0)]
      BY <2>1
    <3>2. Reject(c, code, 0).op = call[c].op /\ Reject(c, code, 0).at = "settling"
      BY <1>0 DEF Reject, CallRecord
    <3> QED
      BY <1>0, <3>1, <3>2
  <2>2. CASE \E at \in {"session", "sent"} : call' = [call EXCEPT ![c].at = at]
    BY <1>0, <2>2 DEF CallRecord
  <2> QED
    BY <2>1, <2>2 DEF Start, InputRefused
<1>2. Leaked' \subseteq Leaked
      \/ ~(\A d \in Calls \ {c} : probes'.spans[d] = probes.spans[d])
  BY <1>1 DEF Leaked
<1>3. CASE Probed(call[c].op)
  <2>1. PublishPair(c, "started", "attempted")
    BY <1>3 DEF Start
  <2>2. /\ probes' \in ProbesRecord /\ probes'.failures = Missed' + n
        /\ \A d \in Calls \ {c} : probes'.spans[d] = probes.spans[d]
        /\ Missed' \in Nat /\ Missed' >= Missed
    BY <2>1, TwoProbes DEF ProbeNames
  <2>3. Leaked' \subseteq Leaked
    BY <1>2, <2>2
  <2>4. Cardinality(Leaked') \in Nat /\ Cardinality(Leaked') <= Cardinality(Leaked)
    BY <2>3, LeakedFinite, FS_Subset, FS_CardinalityType
  <2>5. Missed \in Nat
    BY DEF ProbesInv
  <2>6. Cardinality(Leaked') <= Missed'
    BY <2>2, <2>4, <2>5, LeakedFinite DEF ProbesInv
  <2>7. \A d \in Calls : ~Probed(call'[d].op) => probes'.spans[d] = "none"
    BY <1>1, <1>3, <2>2 DEF ProbesInv, Probed
  <2> QED
    BY <2>2, <2>6, <2>7 DEF ProbesInv
<1>4. CASE ~Probed(call[c].op)
  <2>1. UNCHANGED probes
    BY <1>4 DEF Start
  <2>2. \A d \in Calls : call'[d].at = "done" <=> call[d].at = "done"
    BY <1>0, <1>1
  <2> QED
    BY <1>1, <2>1, <2>2, QuietProbes
<1> QED
  BY <1>3, <1>4

LEMMA SettleProbes ==
  ASSUME NEW n \in Nat, ProbesInv(n), Types, NEW c \in Calls, Settle(c)
  PROVE  ProbesInv(n)'
<1>0. call \in [Calls -> CallRecord] /\ call[c] \in CallRecord /\ call[c].at = "settling"
  BY DEF Settle, Types
<1>1. /\ \A d \in Calls : call'[d].op = call[d].op
      /\ \A d \in Calls \ {c} : call'[d] = call[d]
  BY <1>0 DEF Settle, CallRecord, mapSDKFailure
<1>2. CASE Probed(call[c].op)
  <2>1. PublishPair(c, "completed", "finished")
    BY <1>2 DEF Settle
  <2>2. /\ probes' \in ProbesRecord /\ probes'.failures = Missed' + n
        /\ \A d \in Calls \ {c} : probes'.spans[d] = probes.spans[d]
        /\ Missed' \in Nat /\ Missed' >= Missed
        /\ probes'.spans[c] # "none" => Missed' >= Missed + 1
    BY <2>1, TwoProbes DEF ProbeNames
  <2>3. Missed \in Nat
    BY DEF ProbesInv
  <2>4. /\ Cardinality(Leaked) \in Nat /\ IsFiniteSet(Leaked)
        /\ Cardinality(Leaked) <= Missed
    BY LeakedFinite DEF ProbesInv
  <2>5. Cardinality(Leaked') <= Missed'
    <3>1. CASE probes'.spans[c] = "none"
      <4>1. Leaked' \subseteq Leaked
        BY <1>1, <2>2, <3>1 DEF Leaked
      <4>2. Cardinality(Leaked') \in Nat /\ Cardinality(Leaked') <= Cardinality(Leaked)
        BY <2>4, <4>1, FS_Subset, FS_CardinalityType
      <4> QED
        BY <2>2, <2>3, <2>4, <4>2
    <3>2. CASE probes'.spans[c] # "none"
      <4>1. Leaked' \subseteq Leaked \cup {c}
        BY <1>1, <2>2 DEF Leaked
      <4>2. /\ IsFiniteSet(Leaked \cup {c})
            /\ Cardinality(Leaked \cup {c}) <= Cardinality(Leaked) + 1
        BY <2>4, FS_AddElement
      <4>3. /\ Cardinality(Leaked') \in Nat /\ Cardinality(Leaked \cup {c}) \in Nat
            /\ Cardinality(Leaked') <= Cardinality(Leaked \cup {c})
        BY <4>1, <4>2, FS_Subset, FS_CardinalityType
      <4> QED
        BY <2>2, <2>3, <2>4, <3>2, <4>2, <4>3
    <3> QED
      BY <3>1, <3>2
  <2>6. \A d \in Calls : ~Probed(call'[d].op) => probes'.spans[d] = "none"
    BY <1>1, <1>2, <2>2 DEF ProbesInv, Probed
  <2> QED
    BY <2>2, <2>5, <2>6 DEF ProbesInv
<1>3. CASE ~Probed(call[c].op)
  <2>1. UNCHANGED probes
    BY <1>3 DEF Settle
  <2>2. probes.spans[c] = "none"
    BY <1>3 DEF ProbesInv
  <2>3. Leaked' = Leaked
    BY <1>0, <1>1, <2>1, <2>2 DEF Leaked
  <2> QED
    BY <1>1, <2>1, <2>3 DEF ProbesInv, Missed, Probed
<1> QED
  BY <1>2, <1>3

LEMMA DeliverProbes ==
  ASSUME NEW n \in Nat, ProbesInv(n), Types, NEW c \in Calls, Deliver(c)
  PROVE  ProbesInv(n)'
<1>0. call \in [Calls -> CallRecord] /\ call[c] \in CallRecord
  BY DEF Types
<1>1. call[c].at = "sent" /\ wire[c] \in Answers /\ UNCHANGED probes
  <2>1. UNCHANGED <<active, wire, applied, signedIn, ended, login, probes>>
    BY Zenon DEF Deliver
  <2>2. call[c].at = "sent" /\ wire[c] \in Answers
    BY Zenon DEF Deliver
  <2> QED
    BY <2>1, <2>2
<1>2. CASE \E result \in {OK, "unavailable"} :
             call' = [call EXCEPT ![c] = [call[c] EXCEPT !.at = "settling",
                                                         !.result = result]]
  <2>1. \A d \in Calls : /\ call'[d].op = call[d].op
                         /\ call'[d].at = "done" <=> call[d].at = "done"
    BY <1>0, <1>1, <1>2 DEF CallRecord
  <2> QED
    BY <1>1, <2>1, QuietProbes
<1>3. ASSUME NEW code \in Codes, NEW status \in {0, 401} \cup Refusals \cup Troubles,
             call' = [call EXCEPT ![c] = Reject(c, code, status)]
      PROVE  ProbesInv(n)'
  BY <1>1, <1>3, RejectProbes
<1>4. CASE \E code \in {"invalid_response", "response_limit"} :
             call' = [call EXCEPT ![c] = Reject(c, code, 0)]
  <2>1. {"invalid_response", "response_limit"} \subseteq Codes
    BY DEF Codes
  <2> QED
    BY <1>3, <1>4, <2>1
<1>5. CASE /\ wire[c] # 200
           /\ call' = [call EXCEPT ![c] =
                Reject(c, IF wire[c] = 401 THEN "reauth_required"
                          ELSE "http_error", wire[c])]
  <2>1. PICK code \in Codes :
          code = IF wire[c] = 401 THEN "reauth_required" ELSE "http_error"
    BY DEF Codes
  <2>2. wire[c] \in {0, 401} \cup Refusals \cup Troubles
    BY <1>1, <1>5 DEF Answers
  <2>3. call' = [call EXCEPT ![c] = Reject(c, code, wire[c])]
    BY <1>5, <2>1
  <2> QED
    BY <1>3, <2>2, <2>3
<1>6. DeliveredAs(c)
  BY Delivered
<1> QED
  BY <1>2, <1>4, <1>5, <1>6 DEF DeliveredAs

LEMMA ProbesStep ==
  ASSUME NEW n \in Nat, ProbesInv(n), Types, Next
  PROVE  ProbesInv(n)'
<1>2. CASE SessionEnds
  BY <1>2, QuietProbes DEF SessionEnds
<1>3. ASSUME NEW c \in Calls, Start(c) PROVE ProbesInv(n)'
  BY <1>3, StartProbes
<1>4. ASSUME NEW c \in Calls, SessionAnswered(c) PROVE ProbesInv(n)'
  <2>0. call[c].at = "session" /\ UNCHANGED probes /\ call \in [Calls -> CallRecord]
    BY <1>4 DEF SessionAnswered, Types
  <2>1. CASE call' = [call EXCEPT ![c].at = "sent"]
    <3>1. \A d \in Calls : /\ call'[d].op = call[d].op
                           /\ call'[d].at = "done" <=> call[d].at = "done"
      BY <2>0, <2>1 DEF CallRecord
    <3> QED
      BY <2>0, <3>1, QuietProbes
  <2>2. CASE \E code \in Codes, status \in {0, 401} \cup Refusals \cup Troubles :
               call' = [call EXCEPT ![c] = Reject(c, code, status)]
    BY <2>0, <2>2, RejectProbes
  <2> QED
    BY <1>4, <2>1, <2>2 DEF SessionAnswered, Codes
<1>5. ASSUME NEW c \in Calls, ServerHandles(c) PROVE ProbesInv(n)'
  BY <1>5, QuietProbes DEF ServerHandles
<1>6. ASSUME NEW c \in Calls, Deliver(c) PROVE ProbesInv(n)'
  BY <1>6, DeliverProbes
<1>7. ASSUME NEW c \in Calls, RequestLost(c) \/ Cancel(c) \/ TimesOut(c)
      PROVE  ProbesInv(n)'
  <2>1. \E code \in Codes : call' = [call EXCEPT ![c] = Reject(c, code, 0)]
    BY <1>7 DEF RequestLost, Cancel, TimesOut, Codes
  <2>2. call[c].at # "done" /\ UNCHANGED probes
    BY <1>7 DEF RequestLost, Cancel, TimesOut
  <2> QED
    BY <2>1, <2>2, RejectProbes
<1>8. ASSUME NEW c \in Calls, Settle(c) PROVE ProbesInv(n)'
  BY <1>8, SettleProbes
<1> QED
  BY <1>2, <1>3, <1>4, <1>5, <1>6, <1>7, <1>8 DEF Next

-----------------------------------------------------------------------------
(* The runtime: a step of one of its parts leaves the others, but for what  *)
(* is reported to the fan-out.                                              *)

\* The failures the fan-out was told of.
Outside == tele[GatewayRuntime].reported + invalid

LEMMA PartsStep ==
  [RuntimeNext]_runtimeVars => [TelemetryNext]_exportVars /\ [MeterNext]_meterVars
BY DEF RuntimeNext, runtimeVars, Calling, Exporting, Metering

\* The meter counts its invalid records.
LEMMA InvalidCounted ==
  ASSUME invalid \in Nat, [MeterNext]_meterVars
  PROVE  invalid' \in Nat
<1>1. CASE UNCHANGED meterVars
  BY <1>1 DEF meterVars
<1>2. CASE invalid' = invalid \/ Invalid
  BY <1>2 DEF Invalid
<1>3. ASSUME MeterNext
      PROVE  invalid' = invalid \/ Invalid
  BY <1>3 DEF MeterNext, createInstrument, addCallback, removeCallback,
     addBatchObservableCallback, removeBatchObservableCallback, Register,
     Collect, Run, observe, RunEnds
<1> QED
  BY <1>1, <1>2, <1>3

\* What the runtime or its meter reports is counted, and moves nothing else.
LEMMA ReportedProbes ==
  ASSUME NEW n \in Nat, NEW m \in Nat, ProbesInv(n), UNCHANGED callVars,
         probes' = reportDeliveryFailure(probes, m - n)
  PROVE  ProbesInv(m)'
<1>1. /\ probes \in ProbesRecord /\ Missed \in Nat
      /\ probes.failures = Missed + n /\ call' = call
  BY DEF ProbesInv, callVars
<1>2. /\ probes'.spans = probes.spans /\ probes'.count = probes.count
      /\ probes'.delivered = probes.delivered
      /\ probes'.failures = probes.failures + (m - n)
  BY <1>1 DEF reportDeliveryFailure, ProbesRecord
<1>3. probes'.failures = Missed + m /\ probes'.failures \in Nat
  BY <1>1, <1>2
<1>4. probes' \in ProbesRecord
  BY <1>1, <1>3 DEF reportDeliveryFailure, ProbesRecord
<1>5. Missed' = Missed /\ Leaked' = Leaked
  BY <1>1, <1>2 DEF Missed, Leaked
<1> QED
  BY <1>1, <1>2, <1>3, <1>4, <1>5 DEF ProbesInv, Probed

\* Every step keeps the fan-out's count in step with what it was told.
LEMMA RuntimeProbes ==
  ASSUME Types, ProbesInv(Outside), ExportInv, invalid \in Nat,
         ExportInv', invalid' \in Nat, [RuntimeNext]_runtimeVars
  PROVE  ProbesInv(Outside)'
<1>0. /\ tele[GatewayRuntime].reported \in Nat
      /\ tele'[GatewayRuntime].reported \in Nat
  BY CompositionAssumption DEF ExportInv, RuntimeRecord
<1>1. PICK n \in Nat : n = Outside
  BY <1>0 DEF Outside
<1>2. PICK m \in Nat : m = Outside'
  BY <1>0 DEF Outside
<1>3. ProbesInv(n)
  BY <1>1
<1>4. SUFFICES ProbesInv(m)'
  BY <1>2 DEF ProbesInv
<1>5. CASE UNCHANGED runtimeVars
  <2>1. Outside' = Outside /\ UNCHANGED <<call, probes>>
    BY <1>5 DEF runtimeVars, vars, exportVars, meterVars, Outside
  <2> QED
    BY <1>1, <1>2, <1>3, <2>1, QuietProbes
<1>6. CASE Calling(Next)
  <2>1. Outside' = Outside
    BY <1>6 DEF Calling, exportVars, meterVars, Outside
  <2> QED
    BY <1>1, <1>2, <1>3, <1>6, <2>1, ProbesStep DEF Calling
<1>7. CASE Exporting(TelemetryNext) \/ Metering(MeterNext)
  <2>1. /\ UNCHANGED callVars
        /\ \/ /\ invalid' = invalid
              /\ probes' = reportDeliveryFailure(probes,
                   tele'[GatewayRuntime].reported - tele[GatewayRuntime].reported)
           \/ /\ tele' = tele
              /\ probes' = reportDeliveryFailure(probes, invalid' - invalid)
    BY <1>7 DEF Exporting, Metering, meterVars, exportVars
  <2>2. /\ n = tele[GatewayRuntime].reported + invalid
        /\ m = tele'[GatewayRuntime].reported + invalid'
    BY <1>1, <1>2 DEF Outside
  <2>3. probes' = reportDeliveryFailure(probes, m - n)
    <3>1. ASSUME invalid' = invalid
          PROVE  m - n = tele'[GatewayRuntime].reported - tele[GatewayRuntime].reported
      BY <1>0, <2>2, <3>1
    <3>2. ASSUME tele' = tele
          PROVE  m - n = invalid' - invalid
      BY <1>0, <2>2, <3>2
    <3> QED
      BY <2>1, <3>1, <3>2
  <2> QED
    BY <1>3, <2>1, <2>3, ReportedProbes
<1> QED
  BY <1>5, <1>6, <1>7 DEF RuntimeNext

LEMMA ProbesProperty ==
  ASSUME ProbesInv(Outside), ExportInv, invalid \in Nat
  PROVE  ProbesAccounted
<1>1. tele[GatewayRuntime].reported \in Nat
  BY CompositionAssumption DEF ExportInv, RuntimeRecord
<1>2. FailuresAccounted
  BY <1>1 DEF ProbesInv, Outside, FailuresAccounted
<1>3. SpansAccounted
  BY DEF ProbesInv, Leaked, SpansAccounted
<1> QED
  BY <1>2, <1>3 DEF ProbesAccounted

\* deliveryFailureCount is what was missed in publishing and what the runtime
\* and its meter reported, in any order, and settled calls leave no span behind
\* that no missed delivery pays for: the invariant that a run checks, for any
\* number of calls and runtimes (the fan-out's publish and
\* reportDeliveryFailure, TraceProbeSink).
THEOREM ProbesAreAccounted == RuntimeSpec => []ProbesAccounted
<1> DEFINE All == IInv /\ ExportInv /\ invalid \in Nat /\ ProbesInv(Outside)
<1>1. RuntimeInit => All
  <2>1. SUFFICES ASSUME RuntimeInit PROVE ProbesInv(Outside) /\ invalid \in Nat
    BY InitInv, ExportInit DEF RuntimeInit
  <2>2. Outside = 0 /\ invalid = 0
    BY <2>1, CompositionAssumption DEF RuntimeInit, TelemetryInit, MeterInit, Absent, Outside
  <2> QED
    BY <2>1, <2>2, ProbesInit DEF RuntimeInit
<1>2. All /\ [RuntimeNext]_runtimeVars => All'
  BY RuntimeStep, StepInv, PartsStep, ExportStep, InvalidCounted, RuntimeProbes DEF IInv
<1>3. All => ProbesAccounted
  BY ProbesProperty
<1> QED
  BY <1>1, <1>2, <1>3, PTL DEF RuntimeSpec

\* Every record that is dropped or fails is reported exactly once, and behind a
\* shutdown that resolved every record was taken by the collector or reported
\* (the queue's enqueue, export and flush, and the runtime's shutdown).
THEOREM LossesAreAccounted == RuntimeSpec => []LossesAccounted
<1>1. RuntimeInit => ExportInv
  BY ExportInit DEF RuntimeInit
<1>2. ExportInv /\ [RuntimeNext]_runtimeVars => ExportInv'
  BY PartsStep, ExportStep
<1>3. ExportInv => LossesAccounted
  BY ExportProperties
<1> QED
  BY <1>1, <1>2, <1>3, PTL DEF RuntimeSpec

\* No use of the telemetry runtime passes its limits: on its instances, on
\* callbacks, on what one collection buffers, and on the share of traces.
THEOREM TelemetryLimitsHold == RuntimeSpec => []LimitsHold
<1>1. RuntimeInit => ExportInv /\ MeterInv
  BY ExportInit, MeterInitInv DEF RuntimeInit
<1>2. ExportInv /\ MeterInv /\ [RuntimeNext]_runtimeVars => ExportInv' /\ MeterInv'
  BY PartsStep, ExportStep, MeterStep
<1>3. ExportInv /\ MeterInv => LimitsHold
  BY ExportProperties, MeterProperties DEF LimitsHold
<1> QED
  BY <1>1, <1>2, <1>3, PTL DEF RuntimeSpec
=============================================================================
