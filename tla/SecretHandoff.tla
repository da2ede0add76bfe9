--------------------------- MODULE SecretHandoff ---------------------------
(***************************************************************************)
(* The dialog that creates a service account and hands its secret over     *)
(* once, the accounts tab that hosts it, the tabs of the gateway page and  *)
(* the blocker of the gateway route.                                       *)
(*                                                                         *)
(* React renders in two steps.  A handler queues state (st); a commit      *)
(* renders it (committed) and runs the effects that arm the guards, so the *)
(* guards follow that.  A click reaches a settled page and is committed    *)
(* before the next event; what a promise, a poll or the router queues is   *)
(* committed later.  Answers of the API, list polls, history navigation    *)
(* and reloads fall anywhere.                                              *)
(*                                                                         *)
(* Abstracted: the words of the dialog, the open/closed state of its two   *)
(* select menus, the table, and which of the other tabs is shown.          *)
(***************************************************************************)
EXTENDS Naturals

CONSTANT MaxCreates     \* bound: requests submitted in a behaviour

ASSUME MaxCreatesAssumption == MaxCreates \in Nat \ {0}

VARIABLES
  loc,         \* where the router is: the accounts tab, another tab, away
  host,        \* the accounts tab: createOpen, listed, fetching, deleting
  st,          \* the dialog's state with every queued update applied
  committed,   \* the dialog's state as last committed, with its effects
  decision,    \* pendingLeaveRef: which deferred navigation it resolves
  blocker,     \* the router's blocker
  held,        \* the location the blocker holds back
  effectDue,   \* the route's effect has not run for the current blocker
  cur,         \* the request of the mounted dialog, 0 if it sent none
  fate,        \* what became of the secret of each request
  leaving      \* the user confirmed a deferred navigation not yet made

dialog == <<st, committed, decision, cur, fate>>
router == <<loc, blocker, held, effectDue, leaving>>
dialogVars == <<loc, host, st, committed, decision, blocker, held, effectDue,
                cur, fate, leaving>>

Creates == 1..MaxCreates
Places == {"accounts", "tab", "away"}
Fields == {"name", "role", "term"}
Fates == {"unused", "sent", "refused", "shown", "saved", "given", "host",
          "early", "silent"}

-----------------------------------------------------------------------------
\* The states of the dialog.

\* The defaults of the form: a role and a term are chosen, the name is empty.
DefaultForm == {"role", "term"}

\* The schema of the form: every field is required, the description is not.
Accepts(form) == form = Fields

\* What a mounted dialog starts from.
FreshDialog == [open |-> TRUE, pending |-> FALSE, handoff |-> FALSE, ack |-> FALSE,
          confirming |-> FALSE, error |-> "none", form |-> DefaultForm]

ClosedDialog == [FreshDialog EXCEPT !.open = FALSE, !.form = {}]

\* isProtected: work that cannot be recovered once it is discarded.
Protected(d) == d.pending \/ (d.handoff /\ ~d.ack)

\* Mutant: a delivered secret does not arm the guard.
ArmedForPendingOnly == committed.open /\ committed.pending

\* leaveGuard.shouldBlock of the registered guard.  The effects that register
\* it and that copy isProtected to its ref run with the commit.
Armed == committed.open /\ Protected(committed)

\* What the modal shows: the confirmation hides the setup, which hides the
\* form.
Shows(d) == CASE ~d.open      -> "nothing"
              [] d.open /\ d.confirming -> "question"
              [] d.open /\ ~d.confirming /\ d.handoff -> "setup"
              [] OTHER -> "form"

\* No update waits for a commit and no effect for its run.
Settled == committed = st /\ ~effectDue

\* The secret of the mounted dialog, as the dialog goes: an acknowledged
\* secret is saved whatever closes the view.
Dropped(how) ==
  [c \in Creates |->
     IF c = cur /\ fate[c] \in {"sent", "shown"}
     THEN IF st.ack THEN "saved" ELSE how
     ELSE fate[c]]

\* How a secret goes that no confirmation covers.  Between a submission and
\* the commit that arms the guards nothing protects the request.
Unasked == IF committed.pending \/ committed.handoff THEN "silent" ELSE "early"

-----------------------------------------------------------------------------
\* The router (external): a navigation is held while the blocker says so.

\* The navigation completes; another tab or route unmounts the accounts tab.
\* A completed navigation resets every blocker.
Arrive(t, d, h, f) ==
  LET stays == loc = "accounts" /\ t = "accounts" IN
  /\ loc' = t
  /\ \E l \in IF stays THEN {h.listed} ELSE BOOLEAN :
       host' = [h EXCEPT !.createOpen = @ /\ stays, !.listed = l,
                         !.fetching = t = "accounts"]
  /\ st' = IF stays THEN d ELSE ClosedDialog
  /\ fate' = IF d.open /\ ~stays THEN Dropped(Unasked) ELSE f
  /\ cur' = IF stays /\ d.open THEN cur ELSE 0
  /\ decision' = IF stays /\ d.open THEN decision ELSE "none"
  /\ blocker' = "idle"
  /\ held' = t
  /\ effectDue' = FALSE
  /\ leaving' = FALSE

\* useBlocker: blocked, and the route's effect will see the new blocker.
Hold(t) ==
  /\ blocker' = "blocked"
  /\ held' = t
  /\ effectDue' = TRUE
  /\ UNCHANGED loc

\* Back, Forward or a link, at any time.
Navigate(t) ==
  /\ IF Armed
     THEN /\ Hold(t)
          /\ UNCHANGED <<host, leaving, dialog>>
     ELSE /\ Arrive(t, st, host, fate)
          /\ UNCHANGED committed

-----------------------------------------------------------------------------
\* The tab that hosts the dialog.

\* The dialog is rendered while the tab wants it and has capabilities.
Rendered(h) == loc = "accounts" /\ h.createOpen /\ h.listed /\ ~h.deleting

\* The host renders again with h.
Host(h, form) ==
  /\ host' = h
  /\ st' = IF ~Rendered(h) THEN ClosedDialog
           ELSE IF st.open THEN [st EXCEPT !.form = form] ELSE FreshDialog
  /\ fate' = IF st.open /\ ~Rendered(h) THEN Dropped("host") ELSE fate
  /\ cur' = IF st.open /\ Rendered(h) THEN cur ELSE 0
  /\ decision' = IF st.open /\ Rendered(h) THEN decision ELSE "none"
  /\ UNCHANGED router

OpenCreate ==
  /\ Settled
  /\ loc = "accounts" /\ host.listed /\ ~host.deleting /\ ~host.createOpen
  /\ Host([host EXCEPT !.createOpen = TRUE], st.form)
  /\ committed' = st'

\* The list answers, for a new key or for a poll.  Its capabilities decide
\* anew whether the role and the term that the form holds are allowed.
ListLoads ==
  /\ loc = "accounts"
  /\ ~host.deleting
  /\ \E valid \in SUBSET {"role", "term"} :
       Host([host EXCEPT !.listed = TRUE, !.fetching = FALSE],
            IF st.handoff THEN st.form ELSE (st.form \cap {"name"}) \cup valid)
  /\ UNCHANGED committed

\* The list fails.  For a key without data the previous page is kept only
\* while the request is pending.
ListFails ==
  /\ loc = "accounts"
  /\ host.fetching
  /\ \E l \in {host.listed, FALSE} :
       Host([host EXCEPT !.listed = l, !.fetching = FALSE], st.form)
  /\ UNCHANGED committed

\* A poll reports that the gateway is being deleted.
GatewayDeleting ==
  /\ loc = "accounts"
  /\ ~host.deleting
  /\ Host([host EXCEPT !.deleting = TRUE, !.createOpen = FALSE], st.form)
  /\ UNCHANGED committed

-----------------------------------------------------------------------------
\* The dialog.

\* React commits the queued state; the effects arm or disarm the guards.
Commit ==
  /\ committed # st
  /\ committed' = st
  /\ UNCHANGED <<host, st, decision, cur, fate, router>>

\* The form and its button, all off while a request is pending.
CanSubmit(d) == Shows(d) = "form" /\ ~d.pending

ChangeForm(form) ==
  /\ Settled
  /\ CanSubmit(st)
  /\ st' = [st EXCEPT !.form = form]
  /\ st' # st
  /\ committed' = st'
  /\ UNCHANGED <<host, decision, cur, fate, router>>

EditAccountName == \/ ChangeForm(st.form \cup {"name"})
            \/ ChangeForm(st.form \ {"name"})

\* A menu offers only the roles and the terms that the schema accepts.
ChooseRole == ChangeForm(st.form \cup {"role"})
ChooseTerm == ChangeForm(st.form \cup {"term"})

\* submit: the schema accepts every field, and the mutation starts.
SubmitAccount ==
  /\ Settled
  /\ CanSubmit(st)
  /\ Accepts(st.form)
  /\ \E c \in Creates :
       /\ \A b \in Creates : fate[b] = "unused" <=> b >= c
       /\ cur' = c
       /\ fate' = [fate EXCEPT ![c] = "sent"]
  /\ st' = [st EXCEPT !.pending = TRUE, !.error = "none"]
  /\ UNCHANGED <<host, committed, decision, router>>

\* The account exists: its secret is kept in this view only, and the mutation
\* stays pending until the list has been read again.
Created ==
  /\ st.open /\ cur # 0 /\ committed.pending
  /\ fate[cur] = "sent"
  /\ fate' = [fate EXCEPT ![cur] = "shown"]
  /\ st' = [st EXCEPT !.handoff = TRUE]
  /\ UNCHANGED <<host, committed, decision, cur, router>>

\* What the form reports: the server refused, or nobody knows.
Failures == {"refused", "uncertain"}

\* The request failed, or its answer was lost.
CreateFails ==
  /\ st.open /\ cur # 0 /\ committed.pending
  /\ fate[cur] = "sent"
  /\ fate' = [fate EXCEPT ![cur] = "refused"]
  /\ \E e \in Failures :
       st' = [st EXCEPT !.pending = FALSE, !.error = e]
  /\ UNCHANGED <<host, committed, decision, cur, router>>

\* onSuccess: the list was invalidated and read again.
Refreshed ==
  /\ st.open /\ st.pending /\ st.handoff
  /\ st' = [st EXCEPT !.pending = FALSE]
  /\ UNCHANGED <<host, committed, decision, cur, fate, router>>

Acknowledge ==
  /\ Settled
  /\ Shows(st) = "setup"
  /\ st' = [st EXCEPT !.ack = ~@]
  /\ committed' = st'
  /\ UNCHANGED <<host, decision, cur, fate, router>>

\* clearAndClose: the state goes and the tab stops rendering the dialog.
ClearAndClose(how) ==
  /\ st' = ClosedDialog
  /\ host' = [host EXCEPT !.createOpen = FALSE]
  /\ fate' = Dropped(how)
  /\ cur' = 0
  /\ decision' = "none"

\* The X, Escape and Cancel are off while a request is pending.
CanClose(d) == d.open /\ ~d.pending

\* requestClose.
RequestClose ==
  /\ Settled
  /\ CanClose(st)
  /\ IF st.handoff /\ ~st.ack
     THEN /\ st' = [st EXCEPT !.confirming = TRUE]
          /\ UNCHANGED <<host, decision, cur, fate>>
     ELSE ClearAndClose("silent")
  /\ committed' = st'
  /\ UNCHANGED router

Finish ==
  /\ Settled
  /\ Shows(st) = "setup" /\ st.ack
  /\ ClearAndClose("silent")
  /\ committed' = st'
  /\ UNCHANGED router

\* "Leave": the dialog is cleared and the deferred navigation resumed.  The
\* ref still protects the closing dialog, so the resumed tab change is held
\* by the blocker.  A blocker that was reset has nothing to resume.
Leave ==
  /\ Settled
  /\ Shows(st) = "question"
  /\ committed' = ClosedDialog
  /\ \/ /\ \/ decision = "none"
           \/ decision = "route" /\ blocker = "idle"
        /\ ClearAndClose("given")
        /\ UNCHANGED router
     \/ /\ decision = "route" /\ blocker = "blocked"
        /\ Arrive(held, ClosedDialog, [host EXCEPT !.createOpen = FALSE],
                  Dropped("given"))
     \/ /\ decision = "tab"
        /\ IF Armed
           THEN /\ ClearAndClose("given")
                /\ Hold("tab")
                /\ leaving' = TRUE
           ELSE Arrive("tab", ClosedDialog, [host EXCEPT !.createOpen = FALSE],
                       Dropped("given"))

\* "Return": the deferred navigation is abandoned.
Return ==
  /\ Settled
  /\ Shows(st) = "question"
  /\ st' = [st EXCEPT !.confirming = FALSE]
  /\ decision' = "none"
  /\ blocker' = IF decision = "route" THEN "idle" ELSE blocker
  /\ committed' = st'
  /\ UNCHANGED <<host, cur, fate, loc, held, effectDue, leaving>>

-----------------------------------------------------------------------------
\* The gateway page and its route.

\* changeTab: the guard defers the change, or the change is a navigation.
ChangeTab(t) ==
  /\ Settled
  /\ loc # "away" /\ t # loc
  /\ t = "accounts" => ~host.deleting
  /\ IF Armed
     THEN /\ decision' = "tab"
          /\ st' = [st EXCEPT !.confirming = TRUE]
          /\ committed' = st'
          /\ UNCHANGED <<host, cur, fate, router>>
     ELSE /\ Arrive(t, st, host, fate)
          /\ UNCHANGED committed

\* Mutant: the effect asks whether or not the guard still blocks.
RouteEffectAsks ==
  /\ effectDue
  /\ committed = st
  /\ decision' = IF st.open THEN "route" ELSE decision
  /\ st' = IF st.open THEN [st EXCEPT !.confirming = TRUE] ELSE st
  /\ effectDue' = FALSE
  /\ UNCHANGED <<host, committed, cur, fate, loc, blocker, held, leaving>>

\* The route's effect on a changed blocker, after the dialog's own effects.
\* Whatever no longer needs protection goes through.
RouteEffect ==
  /\ effectDue
  /\ committed = st
  /\ IF Armed
     THEN /\ decision' = "route"
          /\ st' = [st EXCEPT !.confirming = TRUE]
          /\ effectDue' = FALSE
          /\ UNCHANGED <<host, committed, cur, fate, loc, blocker, held, leaving>>
     ELSE /\ Arrive(held, st, host, fate)
          /\ UNCHANGED committed

\* A reload or a closed browser tab; beforeunload asks while it is armed.
Reload ==
  /\ fate' = Dropped(IF Armed THEN "given" ELSE Unasked)
  /\ st' = ClosedDialog
  /\ committed' = ClosedDialog
  /\ cur' = 0
  /\ decision' = "none"
  /\ blocker' = "idle"
  /\ effectDue' = FALSE
  /\ leaving' = FALSE
  /\ \E l \in BOOLEAN :
       host' = [host EXCEPT !.createOpen = FALSE, !.listed = l,
                            !.fetching = TRUE]
  /\ UNCHANGED <<loc, held>>

-----------------------------------------------------------------------------
DialogInit ==
  /\ loc = "accounts"
  /\ host = [createOpen |-> FALSE, listed |-> TRUE, fetching |-> FALSE,
             deleting |-> FALSE]
  /\ st = ClosedDialog
  /\ committed = ClosedDialog
  /\ decision = "none"
  /\ blocker = "idle"
  /\ held = "accounts"
  /\ effectDue = FALSE
  /\ cur = 0
  /\ fate = [c \in Creates |-> "unused"]
  /\ leaving = FALSE

DialogNext ==
  \/ OpenCreate \/ ListLoads \/ ListFails \/ GatewayDeleting
  \/ Commit \/ SubmitAccount \/ Created \/ CreateFails \/ Refreshed
  \/ Acknowledge \/ RequestClose \/ Finish \/ Leave \/ Return
  \/ RouteEffect \/ Reload
  \/ EditAccountName \/ ChooseRole \/ ChooseTerm
  \/ \E t \in {"accounts", "tab"} : ChangeTab(t)
  \/ \E t \in Places : Navigate(t)

DialogSpec == DialogInit /\ [][DialogNext]_dialogVars

-----------------------------------------------------------------------------
\* Properties.

\* The states of the dialog, its host, the router and the requests.
DialogState ==
  [open : BOOLEAN, pending : BOOLEAN, handoff : BOOLEAN, ack : BOOLEAN,
   confirming : BOOLEAN, error : {"none", "refused", "uncertain"},
   form : SUBSET Fields]

DialogTypeOK ==
  /\ loc \in Places
  /\ host \in [createOpen : BOOLEAN, listed : BOOLEAN, fetching : BOOLEAN,
               deleting : BOOLEAN]
  /\ st \in DialogState
  /\ committed \in DialogState
  /\ decision \in {"none", "tab", "route"}
  /\ blocker \in {"idle", "blocked"}
  /\ held \in Places
  /\ effectDue \in BOOLEAN
  /\ cur \in 0..MaxCreates
  /\ fate \in [Creates -> Fates]
  /\ leaving \in BOOLEAN

\* Nothing that the user waits for hangs.  The dialog, which cannot be closed
\* while a request is pending, does not stay in that state: every answer ends it,
\* a failed one too.  And a navigation the user confirmed takes place, although
\* the guard still blocks when "Leave" resumes it: the route's effect sees the
\* guard gone and lets it through.
DialogSettles == (st.pending \/ leaving) ~> (~st.pending /\ ~leaving)

\* What the dialog shows of each request, read from its state and not from
\* the record of the secret's end.
ShownPhase ==
  [c \in Creates |->
     IF c = cur /\ st.open /\ st.handoff THEN "readable"
     ELSE CASE fate[c] = "sent" -> "coming"
            [] fate[c] \in {"host", "early"} -> "unguarded"
            [] OTHER -> fate[c]]

ShownAck == [c \in Creates |-> c = cur /\ st.open /\ st.ack]

Promise == INSTANCE OneTimeSecret WITH phase <- ShownPhase, acked <- ShownAck

\* The dialog keeps the promise of a one-time secret: one uninterrupted period
\* in which it can be read, ended by an acknowledgement or knowingly.  No tab
\* change, route change, history navigation, close or reload ends it silently once
\* the submission has been rendered (isProtected, confirmLeave, useBlocker and
\* beforeunload together).
SecretShownOnce == Promise!Spec
=============================================================================
