--------------------------- MODULE CollectionView ---------------------------
(***************************************************************************)
(* A collection page of the console: the gateways page and the accounts    *)
(* tab share this shape.  The URL holds the state of the table, the search *)
(* reaches the request after a debounce, every request has a query of its  *)
(* own in the cache, pages with unsettled items are polled, and an action  *)
(* on a row invalidates the collection.                                    *)
(*                                                                         *)
(* The server's history is a log of versions; a query holds the version it *)
(* was answered from.  The query cache (TanStack Query) is external and    *)
(* modelled as the pages use it.  Abstracted: the columns and labels, and  *)
(* sorting and the page size, which turn to another key as a page does.    *)
(***************************************************************************)
EXTENDS Sequences, ListState, SearchTerms

CONSTANTS
  Items,        \* the rows of the collection, as numbers in table order
  Moving,       \* the rows in transition when the page opens
  PageSize,
  Found,        \* the rows that match the non-empty search
  MaxVersions,  \* bound: changes the server makes
  MaxMoves      \* bound: changes of the table's state

ASSUME CollectionAssumption ==
  /\ Items \subseteq Nat /\ IsFiniteSet(Items)
  /\ Found \subseteq Items /\ Moving \subseteq Items
  /\ PageSize \in Nat \ {0}
  /\ MaxVersions \in Nat \ {0}
  /\ MaxMoves \in Nat

VARIABLES
  log,         \* log[v] = the server's rows at version v
  url,         \* the state of the table: page, search
  debounced,   \* the search that the request uses
  cache,       \* the queries by key: data, fetch, invalid, failed
  dialog,      \* the action dialog of a row: row, state, version applied
  known,       \* the newest version an accepted action has told the page of
  early,       \* history: queries whose first load read the server before that
               \* action and was still under way when it was accepted
  moves        \* changes of the table's state so far

vars == <<log, url, debounced, cache, dialog, known, early, moves>>

Searches == {"", "text"}
Keys == [page : 1..2, search : Searches]
Status == {"settled", "moving", "absent"}
None == 0

Version == Len(log)
Rows(v) == log[v]

\* The key of the request: the URL's state with the debounced search.
Key == [url EXCEPT !.search = debounced]

\* The rows a request is answered with: those that match, in order, cut into
\* pages.
Matching(k, rows) ==
  {i \in Items : rows[i] # "absent" /\ (k.search = "" \/ i \in Found)}

PageOf(k, rows) ==
  {i \in Matching(k, rows) :
     Cardinality({j \in Matching(k, rows) : j < i}) \div PageSize = k.page - 1}

\* The rows on the page.
Shown ==
  IF cache[Key].data = None THEN {} ELSE PageOf(Key, Rows(cache[Key].data))

\* Mutant: a failed poll ends the polling.
NeedsPollingUnlessFailed(k) ==
  /\ cache[k].data # None
  /\ ~cache[k].failed
  /\ \E i \in PageOf(k, Rows(cache[k].data)) :
       Rows(cache[k].data)[i] = "moving"

\* Some row of the page is in a transitional state.
NeedsPolling(k) ==
  /\ cache[k].data # None
  /\ \E i \in PageOf(k, Rows(cache[k].data)) :
       Rows(cache[k].data)[i] = "moving"

NoDialog == [state |-> "closed", row |-> None, applied |-> None]

\* The dialog of a row goes with its row, unless its request is under way.
Beside(rows) ==
  IF dialog.state \in {"open", "failed"} /\ dialog.row \notin rows
  THEN NoDialog ELSE dialog

Empty == [data |-> None, fetch |-> "idle", read |-> None, invalid |-> FALSE,
          failed |-> FALSE]

-----------------------------------------------------------------------------
\* The query cache.

Begin(q) == [q EXCEPT !.fetch = "sent", !.read = None]
Cancel(q) == [q EXCEPT !.fetch = "idle", !.read = None]

\* The page turns to another key: the old query loses its only observer, which
\* aborts its request; the new one is fetched when it is absent, invalid or
\* stale by its age.
Turn(old, new) ==
  IF old = new THEN UNCHANGED <<cache, dialog>>
  ELSE /\ \E aged \in BOOLEAN :
            cache' = [cache EXCEPT
              ![old] = Cancel(@),
              ![new] = IF @.data = None \/ @.invalid \/ @.failed \/ aged
                       THEN Begin(@) ELSE @]
       /\ dialog' = IF cache[new].data = None THEN dialog
                    ELSE Beside(PageOf(new, Rows(cache[new].data)))

\* The server reads the page that a request asks for.
Read(k) ==
  /\ cache[k].fetch = "sent"
  /\ cache' = [cache EXCEPT ![k].fetch = "read", ![k].read = Version]
  /\ UNCHANGED <<log, url, debounced, dialog, known, early, moves>>

Answer(k) ==
  /\ cache[k].fetch = "read"
  /\ cache' = [cache EXCEPT ![k] = [Empty EXCEPT !.data = cache[k].read]]
  /\ dialog' = Beside(PageOf(k, Rows(cache[k].read)))
  /\ early' = IF cache[k].data = None THEN early ELSE early \ {k}
  /\ UNCHANGED <<log, url, debounced, known, moves>>

\* The request fails for good; what the query held is kept.
Fail(k) ==
  /\ cache[k].fetch \in {"sent", "read"}
  /\ cache' = [cache EXCEPT ![k] = [Cancel(@) EXCEPT !.failed = TRUE]]
  /\ UNCHANGED <<log, url, debounced, dialog, known, early, moves>>

\* refetchInterval of the current query.
Poll ==
  /\ cache[Key].fetch = "idle"
  /\ NeedsPolling(Key)
  /\ cache' = [cache EXCEPT ![Key] = Begin(@)]
  /\ UNCHANGED <<log, url, debounced, dialog, known, early, moves>>

\* The refresh button, off while a request is under way, and the retry link.
Refresh ==
  /\ cache[Key].fetch = "idle"
  /\ cache' = [cache EXCEPT ![Key] = Begin(@)]
  /\ UNCHANGED <<log, url, debounced, dialog, known, early, moves>>

\* A first load that is under way: invalidateQueries drops the running request
\* of a query only when the query has data to go on with.
FirstLoad(q) == q.data = None /\ q.fetch # "idle"

\* Mutant: every running request of the page is left to finish.
InvalidatedKeepsFetch ==
  [k \in Keys |->
     LET q == [cache[k] EXCEPT !.invalid = TRUE]
     IN IF k = Key /\ q.fetch = "idle" THEN Begin(q) ELSE q]

\* invalidateQueries on the root of the collection: every query is marked, and
\* the one on the page is fetched again, its running request dropped, unless
\* that is its first load, whose answer then clears the mark.
Invalidated ==
  [k \in Keys |->
     LET q == [cache[k] EXCEPT !.invalid = TRUE]
     IN IF k = Key /\ ~FirstLoad(q) THEN Begin(q) ELSE q]

-----------------------------------------------------------------------------
\* The table.

\* The host writes the state of the table to the URL.
changeTableState(next) == url' = next /\ moves' = moves + 1

Change(next) ==
  /\ moves < MaxMoves
  /\ next # url
  /\ changeTableState(next)
  /\ Turn(Key, [next EXCEPT !.search = debounced])
  /\ UNCHANGED <<log, debounced, known, early>>

Search(s) == Change([url EXCEPT !.page = 1, !.search = s])

\* The button of a table in which nothing matches, and of the filters.
ClearFilters ==
  /\ url.search # ""
  /\ Change([page |-> 1, search |-> ""])

\* The pagination offers the pages of the total that it was answered with.
SetPage(p) ==
  /\ cache[Key].data # None
  /\ (p - 1) * PageSize < Cardinality(Matching(Key, Rows(cache[Key].data)))
  /\ Change([url EXCEPT !.page = p])

\* The debounce ends.
Debounce ==
  /\ debounced # url.search
  /\ debounced' = url.search
  /\ Turn(Key, url)
  /\ UNCHANGED <<log, url, known, early, moves>>

-----------------------------------------------------------------------------
\* An action on a row: rename, delete, revoke.

OpenAction(i) ==
  /\ dialog.state = "closed"
  /\ i \in Shown
  /\ dialog' = [state |-> "open", row |-> i, applied |-> None]
  /\ UNCHANGED <<log, url, debounced, cache, known, early, moves>>

CloseAction ==
  /\ dialog.state \in {"open", "failed"}
  /\ dialog' = NoDialog
  /\ UNCHANGED <<log, url, debounced, cache, known, early, moves>>

Confirm ==
  /\ dialog.state \in {"open", "failed"}
  /\ dialog' = [dialog EXCEPT !.state = "sent"]
  /\ UNCHANGED <<log, url, debounced, cache, known, early, moves>>

\* The server accepts: the row begins to change.
Apply ==
  /\ dialog.state = "sent"
  /\ Version < MaxVersions
  /\ Rows(Version)[dialog.row] # "absent"
  /\ log' = Append(log, [Rows(Version) EXCEPT ![dialog.row] = "moving"])
  /\ dialog' = [dialog EXCEPT !.state = "applied", !.applied = Version + 1]
  /\ UNCHANGED <<url, debounced, cache, known, early, moves>>

\* onSuccess closes the dialog and invalidates the collection.
Accepted ==
  /\ dialog.state = "applied"
  /\ dialog' = NoDialog
  /\ known' = dialog.applied
  /\ cache' = Invalidated
  /\ early' = {k \in {Key} : /\ FirstLoad(cache[k]) /\ cache[k].fetch = "read"
                            /\ cache[k].read < dialog.applied}
  /\ UNCHANGED <<log, url, debounced, moves>>

\* The action failed, or its answer was lost.
ActionFails ==
  /\ dialog.state \in {"sent", "applied"}
  /\ dialog' = [dialog EXCEPT !.state = "failed", !.applied = None]
  /\ UNCHANGED <<log, url, debounced, cache, known, early, moves>>

\* A row in transition reaches its goal.
ServerSettles(i) ==
  /\ Version < MaxVersions
  /\ Rows(Version)[i] = "moving"
  /\ \E s \in {"settled", "absent"} :
       log' = Append(log, [Rows(Version) EXCEPT ![i] = s])
  /\ UNCHANGED <<url, debounced, cache, dialog, known, early, moves>>

-----------------------------------------------------------------------------
Init ==
  /\ log = <<[i \in Items |-> IF i \in Moving THEN "moving" ELSE "settled"]>>
  /\ url = [page |-> 1, search |-> ""]
  /\ debounced = ""
  /\ cache = [[k \in Keys |-> Empty] EXCEPT
                ![[page |-> 1, search |-> ""]] = Begin(@)]
  /\ dialog = NoDialog
  /\ known = None
  /\ early = {}
  /\ moves = 0

Next ==
  \/ Read(Key) \/ Answer(Key) \/ Fail(Key) \/ Poll \/ Refresh
  \/ \E s \in Searches : Search(s)
  \/ \E p \in 1..2 : SetPage(p)
  \/ ClearFilters \/ Debounce
  \/ \E i \in Items : OpenAction(i) \/ ServerSettles(i)
  \/ CloseAction \/ Confirm \/ Apply \/ Accepted \/ ActionFails

Spec == Init /\ [][Next]_vars

\* Timers fire while the page is in the foreground, and a request that is
\* repeated for ever is not refused for ever.
Fairness ==
  /\ WF_vars(Debounce)
  /\ WF_vars(Poll)
  /\ SF_vars(Read(Key))
  /\ SF_vars(Answer(Key))

FairSpec == Spec /\ Fairness

-----------------------------------------------------------------------------
\* Properties.

\* The page, its queries and its dialog hold what the code can put there.
TypeOK ==
  /\ log \in Seq([Items -> Status]) /\ Version \in 1..MaxVersions
  /\ url \in Keys /\ debounced \in Searches
  /\ cache \in [Keys -> [data : 0..Version, fetch : {"idle", "sent", "read"},
                        read : 0..Version, invalid : BOOLEAN,
                        failed : BOOLEAN]]
  /\ dialog \in [state : {"closed", "open", "sent", "applied", "failed"},
                 row : Items \cup {None}, applied : 0..Version]
  /\ known \in 0..Version
  /\ early \subseteq Keys
  /\ moves \in 0..MaxMoves

\* Once an action has been accepted, no page is shown as current from before
\* it: whichever page or search the user has turned to, either a request is
\* under way, or the page says that loading failed, or its rows are at least as
\* new as the action (invalidateQueries against requests that were sent before
\* it).  One answer is excepted, until the next one: that of a first load which
\* had read the server before the action and which invalidateQueries leaves to
\* finish, for want of data to show instead.
AcceptedIsShown ==
  LET q == cache[Key]
  IN q.data # None /\ q.fetch = "idle" /\ ~q.failed
       => q.data >= known \/ Key \in early

\* A row shown in transition whose transition has ended at the server.
Outdated(i) ==
  LET q == cache[Key]
  IN /\ q.data # None
     /\ i \in PageOf(Key, Rows(q.data)) /\ Rows(q.data)[i] = "moving"
     /\ Rows(Version)[i] # "moving"

\* No row is shown in transition for ever: a page with one unsettled row is
\* polled until it has settled, also after failed polls (refetchInterval).
TransitionsEnd == \A i \in Items : Outdated(i) ~> ~Outdated(i)

\* The state of the gateways table survives a reload, Back and Forward: it is
\* read back from the URL that it was written to (parse and serialize of the
\* list state).
GatewayTableSurvivesReload == GatewayRoundTrips[url.page][url.search]

\* The state of the accounts table survives them too, and a parameter that
\* the previous URL held never leaks into the new state (setOrDelete).
AccountTableSurvivesReload == AccountRoundTrips[url.page][url.search]

\* A search asks the API for the rows that contain what was typed, whatever
\* quotes, wildcards and backslashes it holds: the literal of the request ends
\* where it should and none of its characters acts as a wildcard
\* (escapeIlikeLiteral and its order of replacements).
SearchIsLiteral == SearchesReadAsTyped[debounced]

\* The state of either table survives a reload, Back and Forward.
TableSurvivesReload == GatewayTableSurvivesReload /\ AccountTableSurvivesReload
=============================================================================
