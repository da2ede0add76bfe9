----------------------------- MODULE ConsolePages -----------------------------
(***************************************************************************)
(* Three pages of the console that share nothing but the browser: the page *)
(* that provisions a gateway, a page with commands to copy, and the        *)
(* accounts tab with the dialog that hands out a secret.  The route shows  *)
(* one of them; the others are not mounted and keep their first state (of  *)
(* the commands, the first record is then enough).                         *)
(***************************************************************************)
EXTENDS GatewayCreate, CommandBlocks, SecretHandoff

VARIABLE open   \* the page of the route: "create", "commands" or "accounts"

vars == <<open, createVars, blocksVars, dialogVars>>

Init ==
  /\ open \in {"create", "commands", "accounts"}
  /\ CreateInit /\ BlocksInit /\ DialogInit
  /\ onPage = (open = "create")
  /\ (view = "none") = (open # "commands")
  /\ open # "commands" => record = CHOOSE r \in Records : TRUE

Creating(A) == open = "create" /\ A /\ UNCHANGED <<open, blocksVars, dialogVars>>
Reading(A) == open = "commands" /\ A /\ UNCHANGED <<open, createVars, dialogVars>>
Handing(A) == open = "accounts" /\ A /\ UNCHANGED <<open, createVars, blocksVars>>

Next == Creating(CreateNext) \/ Reading(BlocksNext) \/ Handing(DialogNext)

Spec == Init /\ [][Next]_vars

\* The timer of the debounce runs out; a request ends, because the SDK ends each
\* one at its deadline; the highlighter is local and its promises are resolved;
\* React commits what is queued and runs the effects.
Fairness ==
  /\ WF_createVars(Creating(Debounce))
  /\ WF_createVars(Creating(Answer \/ Fail))
  /\ WF_blocksVars(Reading(\E b \in Blocks : HighlightDone(b)))
  /\ WF_dialogVars(Handing(Commit))
  /\ WF_dialogVars(Handing(RouteEffect))
  /\ WF_dialogVars(Handing(Created \/ CreateFails))
  /\ WF_dialogVars(Handing(Refreshed))

FairSpec == Spec /\ Fairness

\* Type invariant: of the three pages.
TypeOK == CreateTypeOK /\ BlocksTypeOK /\ DialogTypeOK

\* No page keeps its user waiting for ever: the list of clusters leaves
\* "loading", commands get highlighted, and the dialog and the navigation that it
\* deferred come to an end.
PagesSettle == LoadingEnds /\ HighlightArrives /\ DialogSettles
=============================================================================
