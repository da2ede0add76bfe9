---------------------------- MODULE GatewayCreate ----------------------------
(***************************************************************************)
(* The page that provisions a gateway: the name field, the typeahead that  *)
(* chooses a cluster, and the request.  The typeahead keeps what is typed, *)
(* what is searched, the highlighted option and the last accepted choice,  *)
(* and writes the form's cluster; its options come from a query per search *)
(* in the cache (TanStack Query, external), which outlives the page.       *)
(*                                                                         *)
(* A cluster stands for its identifier and its label, Hub for the empty    *)
(* identifier and the label of the hub.  Abstracted: the descriptions, the *)
(* hint that more clusters exist, and the wording of the field errors.     *)
(***************************************************************************)
EXTENDS Naturals, Sequences, SequencesExt

CONSTANTS
  Clusters,    \* the managed clusters
  Hub,         \* the hub: the default choice
  Null,        \* the form holds no choice
  Texts,       \* what a user types into the cluster field
  Trimmed,     \* Trimmed[t] = the normalised search of a text
  HubTexts,    \* the searches that the label of the hub contains
  Matches,     \* Matches[s] = the clusters the API may find for a search
  MaxEdits,    \* bound: texts typed
  MaxVisits    \* bound: times the page is opened

Searches == {Trimmed[t] : t \in Texts}

ASSUME CreateAssumption ==
  /\ IsFiniteSet(Clusters) /\ Hub \notin Clusters /\ Null \notin Clusters \cup {Hub}
  /\ "" \in Texts /\ Trimmed \in [Texts -> Texts] /\ Trimmed[""] = ""
  /\ HubTexts \subseteq Searches /\ "" \in HubTexts
  /\ Matches \in [Searches -> SUBSET Clusters]
  /\ MaxEdits \in Nat /\ MaxVisits \in Nat \ {0}

VARIABLES
  visit,      \* the number of the visit of the page
  onPage,     \* the page is shown
  name,       \* the name field holds a name
  box,        \* the typeahead: text, search, open, focus, accepted
  form,       \* the form's cluster
  debounced,  \* the search of the query
  cache,      \* the queries by search: data, fetch, failed
  requests,   \* the requests under way: cluster, text shown, visit
  edits       \* texts typed so far

createVars ==
  <<visit, onPage, name, box, form, debounced, cache, requests, edits>>

page == <<visit, onPage, name>>

NoFocus == 0
Absent == <<Null>>   \* no answer is cached
Placements == Clusters \cup {Hub}

Pending == \E r \in requests : r.visit = visit
Field == onPage /\ ~Pending   \* the inputs are not disabled

\* The state of the page and its typeahead when it is opened.
FreshBox == [text |-> Hub, search |-> "", open |-> FALSE, focus |-> NoFocus,
             accepted |-> Hub]

-----------------------------------------------------------------------------
\* The options.

normalizedSearch == Trimmed[box.search]
isSearchPending == normalizedSearch # debounced
query == cache[debounced]
IsPending == query.data = Absent /\ ~query.failed

\* Mutant: the answer of the previous search stays among the options.
OptionsUnguarded ==
  LET hub == IF normalizedSearch \in HubTexts THEN <<Hub>> ELSE <<>>
      found == IF query.data = Absent THEN <<>> ELSE query.data
  IN IF isSearchPending \/ IsPending THEN hub \o found \o <<"loading">>
     ELSE IF hub \o found = <<>> THEN <<"none">>
     ELSE hub \o found

\* The hub while its label contains the search, the clusters that were found
\* unless the search has moved on, and a disabled last line that says that
\* clusters are being loaded or that there are none.
Options ==
  LET hub == IF normalizedSearch \in HubTexts THEN <<Hub>> ELSE <<>>
      found == IF isSearchPending \/ query.data = Absent THEN <<>>
               ELSE query.data
  IN IF isSearchPending \/ IsPending THEN hub \o found \o <<"loading">>
     ELSE IF hub \o found = <<>> THEN <<"none">>
     ELSE hub \o found

Disabled(option) == option \in {"loading", "none"}

\* The query of a search is fetched when the page turns to it, unless it has a
\* fresh answer.
Begin(q) == [q EXCEPT !.fetch = TRUE, !.failed = @ /\ q.data # Absent]
Drop(q) == [q EXCEPT !.fetch = FALSE]
Watch(s, was) ==
  \E aged \in BOOLEAN :
    cache' = [t \in Searches |->
      CASE t = s -> IF was[t].data = Absent \/ was[t].failed \/ aged
                    THEN Begin(was[t]) ELSE was[t]
        [] t # s -> Drop(was[t])]

-----------------------------------------------------------------------------
\* The typeahead.

Closed(b) == [b EXCEPT !.open = FALSE, !.focus = NoFocus]

ChooseOption(option) ==
  IF Disabled(option) THEN UNCHANGED <<form, box>>
  ELSE /\ form' = option
       /\ box' = Closed([box EXCEPT !.text = option, !.search = "",
                                    !.accepted = option])

\* The menu stays up, and can be clicked, while a request is under way.
OnSelect(option) ==
  /\ onPage /\ box.open
  /\ option \in Range(Options)
  /\ ChooseOption(option)
  /\ UNCHANGED <<page, debounced, cache, requests, edits>>

Type(t) ==
  /\ Field /\ edits < MaxEdits
  /\ t # box.text
  /\ box' = [box EXCEPT !.text = t, !.search = t, !.focus = NoFocus,
                        !.open = TRUE]
  /\ form' = Null
  /\ edits' = edits + 1
  /\ UNCHANGED <<page, debounced, cache, requests>>

\* The clear button, which is not disabled with the field.
Clear ==
  /\ onPage /\ box.text # ""
  /\ box' = [box EXCEPT !.text = "", !.search = "", !.focus = NoFocus]
  /\ form' = Null
  /\ UNCHANGED <<page, debounced, cache, requests, edits>>

ToggleMenu ==
  /\ Field
  /\ box' = [box EXCEPT !.open = ~box.open]
  /\ UNCHANGED <<page, form, debounced, cache, requests, edits>>

ClickInput ==
  /\ Field /\ ~box.open
  /\ box' = [box EXCEPT !.open = TRUE]
  /\ UNCHANGED <<page, form, debounced, cache, requests, edits>>

\* A click outside of the menu, or Tab: what was typed stays.
CloseMenu ==
  /\ onPage /\ box.open
  /\ box' = Closed(box)
  /\ UNCHANGED <<page, form, debounced, cache, requests, edits>>

\* The next option that is not disabled, round the list from either end.
NextIndex(direction) ==
  LET n == Len(Options)
      from == IF box.focus # NoFocus THEN box.focus - 1
              ELSE IF direction = "down" THEN n - 1
              ELSE 0
      At(k) == 1 + (IF direction = "down" THEN (from + k) % n
                    ELSE (from + n * (from + 1) - k) % n)
      k0 == CHOOSE k \in 1..n : /\ ~Disabled(Options[At(k)])
                                /\ \A j \in 1..(k - 1) : Disabled(Options[At(j)])
  IN At(k0)

MoveFocus(direction) ==
  /\ Field
  /\ box' = [box EXCEPT
       !.open = TRUE,
       !.focus = IF \A i \in DOMAIN Options : Disabled(Options[i]) THEN @
                 ELSE NextIndex(direction)]
  /\ UNCHANGED <<page, form, debounced, cache, requests, edits>>

\* Escape goes back to the last accepted choice.
Escape ==
  /\ Field /\ box.open
  /\ box' = Closed([box EXCEPT !.text = box.accepted, !.search = ""])
  /\ form' = box.accepted
  /\ UNCHANGED <<page, debounced, cache, requests, edits>>

\* Enter on a highlighted option; the options may have changed, and shrunk,
\* since it was highlighted.
EnterOption ==
  /\ Field /\ box.open /\ box.focus # NoFocus
  /\ IF box.focus \in DOMAIN Options THEN ChooseOption(Options[box.focus])
     ELSE UNCHANGED <<form, box>>
  /\ UNCHANGED <<page, debounced, cache, requests, edits>>

EnterOpens ==
  /\ Field /\ ~box.open
  /\ box' = [box EXCEPT !.open = TRUE]
  /\ UNCHANGED <<page, form, debounced, cache, requests, edits>>

Debounce ==
  /\ onPage /\ isSearchPending
  /\ debounced' = normalizedSearch
  /\ Watch(normalizedSearch, cache)
  /\ UNCHANGED <<page, box, form, requests, edits>>

-----------------------------------------------------------------------------
\* The query of the placements.

Found(s) == {SetToSeq(found) : found \in SUBSET Matches[s]}

Answer ==
  /\ query.fetch
  /\ \E data \in Found(debounced) :
       cache' = [cache EXCEPT
         ![debounced] = [data |-> data, fetch |-> FALSE, failed |-> FALSE]]
  /\ UNCHANGED <<page, box, form, debounced, requests, edits>>

Fail ==
  /\ query.fetch
  /\ cache' = [cache EXCEPT ![debounced].fetch = FALSE,
                            ![debounced].failed = TRUE]
  /\ UNCHANGED <<page, box, form, debounced, requests, edits>>

\* The retry link of a failed query, and the network coming back to a stale one.
Refetch ==
  /\ onPage /\ ~query.fetch
  /\ cache' = [cache EXCEPT ![debounced] = Begin(@)]
  /\ UNCHANGED <<page, box, form, debounced, requests, edits>>

-----------------------------------------------------------------------------
\* The form.

EditName ==
  /\ Field
  /\ name' = ~name
  /\ UNCHANGED <<visit, onPage, box, form, debounced, cache, requests, edits>>

\* Mutant: no choice is read as the hub.
AcceptedDefault(cluster) == <<name, IF cluster = Null THEN Hub ELSE cluster>>

\* The schema: what is submitted of a cluster and whether it is accepted.
Accepted(cluster) == <<name /\ cluster # Null, cluster>>

\* The submit button, and Enter in a text field: in the cluster field only
\* while the menu is open and nothing is highlighted.
Submit ==
  /\ Field
  /\ Accepted(form)[1]
  /\ requests' = requests \cup
       {[cluster |-> Accepted(form)[2], text |-> box.text, visit |-> visit]}
  /\ UNCHANGED <<page, box, form, debounced, cache, edits>>

\* Leaving the page, by its cancel button or any other way, takes its state
\* but not its request.
Fresh == name' = FALSE /\ box' = FreshBox /\ form' = Hub /\ debounced' = ""

Left ==
  /\ onPage' = FALSE
  /\ Fresh
  /\ cache' = [s \in Searches |-> Drop(cache[s])]
  /\ UNCHANGED <<visit, edits>>

LeavePage ==
  /\ onPage
  /\ Left
  /\ UNCHANGED requests

\* The gateway was accepted: its record is cached, the list is invalidated and
\* the console goes to the gateway, wherever the user is by now.
Provisioned(r) ==
  /\ r \in requests
  /\ requests' = requests \ {r}
  /\ Left

ProvisionFails(r) ==
  /\ r \in requests
  /\ requests' = requests \ {r}
  /\ UNCHANGED <<page, box, form, debounced, cache, edits>>

OpenPage ==
  /\ ~onPage /\ visit < MaxVisits
  /\ visit' = visit + 1
  /\ onPage' = TRUE
  /\ Fresh
  /\ Watch("", cache)
  /\ UNCHANGED <<requests, edits>>

CreateInit ==
  /\ visit \in {0, 1} /\ onPage = (visit = 1) /\ name = FALSE
  /\ box = FreshBox /\ form = Hub /\ debounced = ""
  /\ cache = [s \in Searches |->
                [data |-> Absent, fetch |-> onPage /\ s = "", failed |-> FALSE]]
  /\ requests = {} /\ edits = 0

Browser == Debounce \/ Answer \/ Fail \/ \E r \in requests :
             Provisioned(r) \/ ProvisionFails(r)

CreateNext ==
  \/ \E option \in Placements \cup {"loading", "none"} : OnSelect(option)
  \/ \E t \in Texts : Type(t)
  \/ \E direction \in {"down", "up"} : MoveFocus(direction)
  \/ Clear \/ ToggleMenu \/ ClickInput \/ CloseMenu \/ Escape
  \/ EnterOption \/ EnterOpens
  \/ Refetch \/ EditName \/ Submit \/ LeavePage \/ OpenPage
  \/ Browser

CreateSpec == CreateInit /\ [][CreateNext]_createVars

-----------------------------------------------------------------------------
\* Type invariant.
CreateTypeOK ==
  /\ visit \in 0..MaxVisits /\ onPage \in BOOLEAN /\ name \in BOOLEAN
  /\ box \in [text : Texts \cup Placements, search : Texts, open : BOOLEAN,
              focus : Nat, accepted : Placements]
  /\ form \in Placements \cup {Null}
  /\ debounced \in Searches
  /\ \A s \in Searches :
       cache[s].data = Absent \/ Range(cache[s].data) \subseteq Matches[s]
  /\ requests \subseteq
       [cluster : Placements, text : Texts \cup Placements, visit : 1..visit]
  /\ edits \in 0..MaxEdits

\* The form's cluster is the one that the field names, and a gateway is requested
\* on the cluster that the field showed when the form was submitted: a search that
\* was left unfinished is refused, never provisioned on the default or on an
\* earlier choice.
SentAsShown ==
  /\ form # Null => box.text = form
  /\ \A r \in requests : r.text = r.cluster

\* A cluster becomes the choice only when the API found it for the search that
\* is in the field, or when Escape restores it: an answer for an earlier text is
\* never chosen from, though answers and the debounce run beside the keys.
ChosenFromSearch ==
  [][\A c \in Clusters :
       (form' = c /\ form # c) =>
         c = box.accepted \/ c \in Matches[normalizedSearch]]_createVars

\* The list of options does not stay at "loading" on the page: the debounce ends
\* and the query is answered or fails.
LoadingEnds ==
  (onPage /\ Last(Options) = "loading")
    ~> (~onPage \/ Last(Options) # "loading")
=============================================================================
