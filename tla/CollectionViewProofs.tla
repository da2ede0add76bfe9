------------------------ MODULE CollectionViewProofs ------------------------
(***************************************************************************)
(* A collection page for any rows and page size, and for any bounds: what   *)
(* an accepted action has changed is never shown as it was before, but for  *)
(* the one answer that the query cache cannot drop.  What the theorem rests *)
(* on is that an old query is marked invalid for as long as it is old,      *)
(* whichever key the page has turned to meanwhile, and that only the key on *)
(* the page has a request.  Then the texts: the state of a                  *)
(* table is read back from the URL it was written to, and a search is read  *)
(* as it was typed, for every text.  Those are facts about recursive        *)
(* functions, proved by induction over texts in the form of a set.          *)
(***************************************************************************)
EXTENDS CollectionView, WellFoundedInduction, SequenceTheorems, TLAPS

\* What was answered before the newest accepted action is marked, but for the
\* first load that it could not stop.
StaleInv ==
  \A k \in Keys : cache[k].data # None /\ cache[k].data < known
                    => cache[k].invalid \/ k \in early

\* Turning to another key aborts the request of the old one.
FetchInv == \A k \in Keys \ {Key} : cache[k].fetch = "idle"

\* A request whose page was read before the action was dropped with it, unless
\* it was the first load of its query.
ReadInv ==
  \A k \in Keys : cache[k].fetch = "read"
                    => cache[k].read >= known \/ (k \in early /\ cache[k].data = None)

\* A marked query on the page is being fetched, or its request has failed.
ShownInv == cache[Key].invalid => cache[Key].fetch # "idle" \/ cache[Key].failed

IInv == TypeOK /\ StaleInv /\ FetchInv /\ ReadInv /\ ShownInv

-----------------------------------------------------------------------------
(* Types.                                                                   *)

Query == [data : 0..Version, fetch : {"idle", "sent", "read"},
          read : 0..Version, invalid : BOOLEAN, failed : BOOLEAN]
Dialog == [state : {"closed", "open", "sent", "applied", "failed"},
           row : Items \cup {None}, applied : 0..Version]

LEMMA TypeParts ==
  TypeOK <=> /\ log \in Seq([Items -> Status]) /\ Version \in 1..MaxVersions
             /\ url \in Keys /\ debounced \in Searches
             /\ cache \in [Keys -> Query]
             /\ dialog \in Dialog
             /\ known \in 0..Version
             /\ early \subseteq Keys
             /\ moves \in 0..MaxMoves
  BY DEF TypeOK, Query, Dialog

Pages == 1..2

\* A key is its page and its search.
LEMMA KeyParts ==
  /\ Keys = [page : Pages, search : Searches]
  /\ \A k \in Keys, p \in Pages : [k EXCEPT !.page = p] \in Keys
  /\ \A k \in Keys, s \in Searches : [k EXCEPT !.search = s] \in Keys
  /\ \A k, l \in Keys : k.page = l.page /\ k.search = l.search => k = l
<1>1. Keys = [page : Pages, search : Searches]
  BY DEF Keys, Pages
<1> QED
  BY <1>1

LEMMA KeyType ==
  ASSUME TypeOK
  PROVE  Key \in Keys
  BY DEF TypeOK, Key, Keys

LEMMA VersionType ==
  ASSUME TypeOK
  PROVE  Version \in Nat \ {0}
  BY CollectionAssumption DEF TypeOK

LEMMA QueryTypes ==
  ASSUME TypeOK
  PROVE  /\ Empty \in Query
         /\ \A q \in Query : Begin(q) \in Query /\ Cancel(q) \in Query
         /\ NoDialog \in Dialog
         /\ \A rows : Beside(rows) \in Dialog
<1>1. Version \in Nat /\ dialog \in Dialog
  BY VersionType, TypeParts
<1>2. Empty \in Query
  BY <1>1 DEF Query, Empty, None
<1>3. \A q \in Query : Begin(q) \in Query /\ Cancel(q) \in Query
  <2> SUFFICES ASSUME NEW q \in Query, NEW f \in {"sent", "idle"}
               PROVE  [q EXCEPT !.fetch = f, !.read = None] \in Query
    BY DEF Begin, Cancel
  <2>1. None \in 0..Version
    BY <1>1 DEF None
  <2>2. f \in {"idle", "sent", "read"}
    OBVIOUS
  <2> QED
    BY <2>1, <2>2 DEF Query
<1>4. NoDialog \in Dialog
  BY <1>1 DEF Dialog, NoDialog, None
<1>5. \A rows : Beside(rows) \in Dialog
  BY <1>1, <1>4 DEF Beside
<1> QED
  BY <1>2, <1>3, <1>4, <1>5

\* What a request that is sent or aborted leaves of its query.
LEMMA QueryFields ==
  ASSUME NEW q \in Query
  PROVE  /\ Begin(q).data = q.data /\ Begin(q).invalid = q.invalid
         /\ Begin(q).fetch = "sent"
         /\ Cancel(q).data = q.data /\ Cancel(q).invalid = q.invalid
         /\ Cancel(q).fetch = "idle"
  BY DEF Query, Begin, Cancel

\* A longer log leaves the types of what names its versions.
LEMMA Longer ==
  ASSUME TypeOK, Version' = Version + 1,
         cache' = cache, known' = known
  PROVE  /\ Query \subseteq Query' /\ Dialog \subseteq Dialog'
         /\ cache' \in [Keys -> Query'] /\ known' \in 0..Version'
  BY VersionType, TypeParts DEF Query, Dialog

-----------------------------------------------------------------------------
(* What a turn to another key does.                                         *)

LEMMA TurnFacts ==
  ASSUME IInv, NEW new \in Keys, Turn(Key, new), UNCHANGED <<log, known, early>>,
         Key' = new
  PROVE  /\ cache' \in [Keys -> Query] /\ dialog' \in Dialog
         /\ StaleInv' /\ FetchInv' /\ ReadInv' /\ ShownInv'
<1> DEFINE old == Key
<1>0. old \in Keys /\ cache \in [Keys -> Query] /\ dialog \in Dialog
  BY KeyType, TypeParts DEF IInv
<1>1. CASE old = new
  <2>1. UNCHANGED <<cache, dialog>>
    BY <1>1 DEF Turn
  <2> QED
    BY <2>1, <1>0, <1>1 DEF IInv, StaleInv, FetchInv, ReadInv, ShownInv
<1>2. CASE old # new
  <2>1. PICK aged \in BOOLEAN :
          cache' = [cache EXCEPT
              ![old] = Cancel(@),
              ![new] = IF @.data = None \/ @.invalid \/ @.failed \/ aged
                       THEN Begin(@) ELSE @]
    BY <1>2 DEF Turn
  <2>2. /\ cache'[old] = Cancel(cache[old])
        /\ cache'[new] = Begin(cache[new])
             \/ (cache'[new] = cache[new] /\ ~cache[new].invalid)
        /\ \A k \in Keys \ {old, new} : cache'[k] = cache[k]
        /\ cache' = [k \in Keys |-> cache'[k]]
    <3>1. PICK v : v = IF cache[new].data = None \/ cache[new].invalid
                            \/ cache[new].failed \/ aged
                         THEN Begin(cache[new]) ELSE cache[new]
      OBVIOUS
    <3>2. v = Begin(cache[new]) \/ (v = cache[new] /\ ~cache[new].invalid)
      <4>1. CASE cache[new].data = None \/ cache[new].invalid \/ cache[new].failed \/ aged
        BY <3>1, <4>1
      <4>2. CASE ~(cache[new].data = None \/ cache[new].invalid \/ cache[new].failed \/ aged)
        BY <3>1, <4>2
      <4> QED
        BY <4>1, <4>2
    <3>3. cache' = [cache EXCEPT ![old] = Cancel(cache[old]), ![new] = v]
      BY ONLY <2>1, <3>1
    <3>4. /\ cache'[old] = Cancel(cache[old]) /\ cache'[new] = v
          /\ \A k \in Keys \ {old, new} : cache'[k] = cache[k]
          /\ cache' = [k \in Keys |-> cache'[k]]
      <4>1. PICK c : c = Cancel(cache[old])
        OBVIOUS
      <4>2. cache' = [cache EXCEPT ![old] = c, ![new] = v]
        BY <3>3, <4>1
      <4>3. cache'[new] = v /\ cache'[old] = c
        BY <4>2, <1>0, <1>2
      <4>4. \A k \in Keys \ {old, new} : cache'[k] = cache[k]
        BY <4>2, <1>0, <1>2
      <4>5. cache' = [k \in Keys |-> cache'[k]]
        BY <4>2, <1>0, <1>2
      <4> QED
        BY <4>1, <4>3, <4>4, <4>5
    <3> QED
      BY <3>2, <3>4
  <2>3. cache' \in [Keys -> Query]
    <3>1. \A k \in Keys : cache'[k] \in Query
      BY <2>2, <1>0, QueryTypes DEF IInv
    <3> QED
      BY <3>1, <2>2
  <2>4. dialog' \in Dialog
    BY <1>0, <1>2, QueryTypes DEF Turn, IInv
  <2>5. \A k \in Keys : /\ cache'[k].data = cache[k].data
                        /\ cache'[k].invalid = cache[k].invalid
    <3> SUFFICES ASSUME NEW k \in Keys
                 PROVE  cache'[k].data = cache[k].data /\ cache'[k].invalid = cache[k].invalid
      OBVIOUS
    <3>1. cache[k] \in Query /\ cache'[k] \in {cache[k], Begin(cache[k]), Cancel(cache[k])}
      BY <2>2, <1>0
    <3> QED
      BY <3>1, QueryFields
  <2>6. StaleInv'
    BY <2>5 DEF IInv, StaleInv
  <2>7. cache'[old].fetch = "idle"
    BY <2>2, <1>0, QueryFields
  <2>8. cache'[new].fetch = "sent" \/ (cache'[new] = cache[new] /\ ~cache'[new].invalid)
    BY <2>2, <1>0, QueryFields
  <2>9. FetchInv'
    BY <2>2, <2>7 DEF IInv, FetchInv
  <2>10. ReadInv'
    BY <2>2, <2>7, <2>8 DEF IInv, ReadInv
  <2>11. ShownInv'
    BY <2>8 DEF ShownInv
  <2> QED
    BY <2>3, <2>4, <2>6, <2>9, <2>10, <2>11
<1> QED
  BY <1>1, <1>2

-----------------------------------------------------------------------------
(* The invariant is inductive.                                              *)

LEMMA InitIInv == Init => IInv
<1> SUFFICES ASSUME Init PROVE IInv
  OBVIOUS
<1> DEFINE first == [page |-> 1, search |-> ""]
<1>1. first \in Keys /\ Key = first /\ url = first /\ debounced \in Searches
  <2>1. url = first /\ debounced = ""
    BY DEF Init
  <2>2. first \in Keys
    BY DEF Keys, Searches
  <2>3. Key = first
    <3>1. Key = [first EXCEPT !.search = ""] /\ "" \in Searches
      BY <2>1 DEF Key, Searches
    <3>2. Key \in Keys /\ Key.page = first.page /\ Key.search = first.search
      BY <3>1, <2>2, KeyParts
    <3> QED
      BY <2>2, <3>2, KeyParts
  <2> QED
    BY <2>1, <2>2, <2>3 DEF Searches
<1>2. /\ log \in Seq([Items -> Status]) /\ Version = 1 /\ known = 0 /\ moves = 0
      /\ dialog = NoDialog /\ early = {}
  <2>1. PICK rows \in [Items -> Status] : log = <<rows>>
    BY DEF Init, Status
  <2>2. log \in Seq([Items -> Status]) /\ Len(log) = 1
    BY <2>1
  <2> QED
    BY <2>2 DEF Init, Version, None
<1>3. Version \in 1..MaxVersions /\ moves \in 0..MaxMoves /\ known \in 0..Version
  BY <1>2, CollectionAssumption
<1>4. Empty \in Query /\ NoDialog \in Dialog
  BY <1>2 DEF Query, Empty, None, Dialog, NoDialog
<1>5. Begin(Empty) \in Query
  BY <1>4 DEF Query, Begin, None, Empty
<1>6. cache = [k \in Keys |-> IF k = first THEN Begin(Empty) ELSE Empty]
  BY <1>1 DEF Init
<1>7. cache \in [Keys -> Query]
  BY <1>4, <1>5, <1>6
<1>8. TypeOK
  BY <1>1, <1>2, <1>3, <1>4, <1>7, TypeParts
<1>9. Empty.fetch = "idle" /\ Empty.data = None /\ ~Empty.invalid
  BY DEF Empty
<1>10. Begin(Empty).fetch = "sent" /\ Begin(Empty).data = None
  BY DEF Empty, Begin
<1>11. StaleInv /\ FetchInv /\ ReadInv /\ ShownInv
  BY <1>1, <1>6, <1>9, <1>10 DEF StaleInv, FetchInv, ReadInv, ShownInv
<1> QED
  BY <1>8, <1>11 DEF IInv

\* A step that leaves the queries, the key and what is known keeps the rest.
LEMMA Aside ==
  ASSUME IInv, TypeOK', UNCHANGED <<cache, known, early, url, debounced>>
  PROVE  IInv'
  BY DEF IInv, StaleInv, FetchInv, ReadInv, ShownInv, Key

LEMMA ReadKeeps ==
  ASSUME IInv, Read(Key)
  PROVE  IInv'
<1>0. Key \in Keys /\ cache \in [Keys -> Query] /\ Version \in Nat \ {0} /\ TypeOK
  BY KeyType, TypeParts, VersionType DEF IInv
<1>1. PICK q : q = [cache[Key] EXCEPT !.fetch = "read", !.read = Version]
  OBVIOUS
<1>2. q \in Query /\ q.read = Version /\ q.data = cache[Key].data
      /\ q.invalid = cache[Key].invalid /\ q.fetch = "read"
  <2>1. PICK p : p = cache[Key]
    OBVIOUS
  <2>2. p \in Query /\ q = [p EXCEPT !.fetch = "read", !.read = Version]
    BY <1>0, <1>1, <2>1
  <2>3. q \in Query /\ q.read = Version /\ q.fetch = "read"
    <3>1. Version \in 0..Version
      BY <1>0
    <3> QED
      BY <3>1, <2>2 DEF Query
  <2>4. q.data = p.data /\ q.invalid = p.invalid
    BY <2>2 DEF Query
  <2> QED
    BY <2>1, <2>3, <2>4
<1>3. cache' = [cache EXCEPT ![Key] = q]
  BY <1>0, <1>1 DEF Read
<1>4. UNCHANGED <<log, url, debounced, dialog, known, early, moves>>
  BY DEF Read
<1>5. Key' = Key /\ Version' = Version
  BY <1>4 DEF Key, Version
<1>6. TypeOK'
  <2>1. cache' \in [Keys -> Query']
    BY <1>0, <1>2, <1>3, <1>5 DEF Query
  <2> QED
    BY <1>0, <1>4, <2>1 DEF TypeOK, Query, Version
<1>7. known \in 0..Version
  BY <1>0, TypeParts
<1>8. StaleInv' /\ FetchInv' /\ ReadInv' /\ ShownInv'
  BY <1>0, <1>2, <1>3, <1>4, <1>5, <1>7
  DEF IInv, StaleInv, FetchInv, ReadInv, ShownInv
<1> QED
  BY <1>6, <1>8 DEF IInv

LEMMA AnswerKeeps ==
  ASSUME IInv, Answer(Key)
  PROVE  IInv'
<1>0. Key \in Keys /\ cache \in [Keys -> Query] /\ Version \in Nat \ {0} /\ TypeOK
  BY KeyType, TypeParts, VersionType DEF IInv
<1>1. PICK q : q = [Empty EXCEPT !.data = cache[Key].read]
  OBVIOUS
<1>2. q \in Query /\ q.data = cache[Key].read /\ ~q.invalid /\ q.fetch = "idle"
  BY <1>0, <1>1, QueryTypes DEF Query, Empty
<1>3. cache' = [cache EXCEPT ![Key] = q] /\ dialog' \in Dialog
  BY <1>0, <1>1, QueryTypes DEF Answer
<1>4. /\ UNCHANGED <<log, url, debounced, known, moves>>
      /\ early' = IF cache[Key].data = None THEN early ELSE early \ {Key}
  BY DEF Answer
<1>5. Key' = Key /\ Version' = Version /\ early' \subseteq Keys
  BY <1>0, <1>4 DEF Key, Version, TypeOK
<1>6. TypeOK'
  <2>1. cache' \in [Keys -> Query'] /\ dialog' \in Dialog'
    BY <1>0, <1>2, <1>3, <1>5 DEF Query, Dialog
  <2> QED
    BY <1>0, <1>4, <1>5, <2>1 DEF TypeOK, Query, Dialog, Version
<1>7. /\ known \in 0..Version /\ cache[Key].read \in Nat
      /\ cache[Key].read >= known \/ Key \in early'
      /\ early' \subseteq early /\ \A k \in early : k # Key => k \in early'
  BY <1>0, <1>4, TypeParts DEF IInv, ReadInv, Answer, Query
<1>8. StaleInv' /\ FetchInv' /\ ReadInv' /\ ShownInv'
  BY <1>0, <1>2, <1>3, <1>4, <1>5, <1>7
  DEF IInv, StaleInv, FetchInv, ReadInv, ShownInv
<1> QED
  BY <1>6, <1>8 DEF IInv

\* The other steps of the query on the page keep what it holds: they send a
\* request, or end one with a failure.
LEMMA RequestKeeps ==
  ASSUME IInv, NEW q \in Query, cache' = [cache EXCEPT ![Key] = q],
         q.data = cache[Key].data, q.invalid = cache[Key].invalid,
         q.fetch = "idle" => q.failed, q.fetch # "read",
         UNCHANGED <<log, url, debounced, dialog, known, early, moves>>
  PROVE  IInv'
<1>0. Key \in Keys /\ cache \in [Keys -> Query] /\ TypeOK
  BY KeyType, TypeParts DEF IInv
<1>1. Key' = Key /\ Version' = Version
  BY DEF Key, Version
<1>2. TypeOK'
  <2>1. cache' \in [Keys -> Query']
    BY <1>0, <1>1 DEF Query
  <2> QED
    BY <1>0, <2>1 DEF TypeOK, Query, Version
<1>3. StaleInv' /\ FetchInv' /\ ReadInv' /\ ShownInv'
  BY <1>0, <1>1 DEF IInv, StaleInv, FetchInv, ReadInv, ShownInv
<1> QED
  BY <1>2, <1>3 DEF IInv

LEMMA FetchKeeps ==
  ASSUME IInv, Fail(Key) \/ Poll \/ Refresh
  PROVE  IInv'
<1>0. Key \in Keys /\ cache \in [Keys -> Query] /\ cache[Key] \in Query /\ TypeOK
  BY KeyType, TypeParts DEF IInv
<1>1. CASE Fail(Key)
  <2>1. PICK c : c = Cancel(cache[Key])
    OBVIOUS
  <2>2. c \in Query /\ c.data = cache[Key].data /\ c.invalid = cache[Key].invalid
        /\ c.fetch = "idle"
    BY <1>0, <2>1, QueryTypes DEF Cancel, Query
  <2>3. PICK q : q = [c EXCEPT !.failed = TRUE]
    OBVIOUS
  <2>4. q \in Query /\ q.data = cache[Key].data /\ q.invalid = cache[Key].invalid
        /\ q.fetch = "idle" /\ q.failed
    BY <2>2, <2>3 DEF Query
  <2>5. /\ cache' = [cache EXCEPT ![Key] = q]
        /\ UNCHANGED <<log, url, debounced, dialog, known, early, moves>>
    BY <1>1, <1>0, <2>1, <2>3 DEF Fail
  <2> QED
    BY <2>4, <2>5, RequestKeeps
<1>2. CASE Poll \/ Refresh
  <2>1. PICK q : q = Begin(cache[Key])
    OBVIOUS
  <2>2. q \in Query /\ q.data = cache[Key].data /\ q.invalid = cache[Key].invalid
        /\ q.fetch = "sent"
    BY <1>0, <2>1, QueryTypes, QueryFields
  <2>3. /\ cache' = [cache EXCEPT ![Key] = q]
        /\ UNCHANGED <<log, url, debounced, dialog, known, early, moves>>
    BY <1>2, <1>0, <2>1 DEF Poll, Refresh
  <2> QED
    BY <2>2, <2>3, RequestKeeps
<1> QED
  BY <1>1, <1>2

LEMMA TableKeeps ==
  ASSUME IInv, NEW next \in Keys, Change(next)
  PROVE  IInv'
<1> DEFINE new == [next EXCEPT !.search = debounced]
<1>0. /\ new \in Keys /\ TypeOK
      /\ UNCHANGED <<log, debounced, known, early>> /\ url' = next
      /\ Turn(Key, new)
      /\ moves \in 0..MaxMoves /\ moves' = moves + 1 /\ moves < MaxMoves
  BY DEF IInv, TypeOK, Change, changeTableState, Keys
<1>1. Key' = new /\ Version' = Version
  BY <1>0 DEF Key, Version
<1>2. /\ cache' \in [Keys -> Query] /\ dialog' \in Dialog
      /\ StaleInv' /\ FetchInv' /\ ReadInv' /\ ShownInv'
  BY <1>0, <1>1, TurnFacts
<1>3. moves' \in 0..MaxMoves
  BY <1>0, CollectionAssumption
<1>4. TypeOK'
  BY <1>0, <1>1, <1>2, <1>3 DEF TypeOK, Query, Dialog, Version
<1> QED
  BY <1>2, <1>4 DEF IInv

LEMMA DebounceKeeps ==
  ASSUME IInv, Debounce
  PROVE  IInv'
<1>0. /\ url \in Keys /\ TypeOK
      /\ UNCHANGED <<log, url, known, early, moves>> /\ debounced' = url.search
      /\ Turn(Key, url)
  BY DEF IInv, TypeOK, Debounce
<1>1. Key' = url /\ Version' = Version /\ debounced' \in Searches
  BY <1>0 DEF Key, Keys, Version
<1>2. /\ cache' \in [Keys -> Query] /\ dialog' \in Dialog
      /\ StaleInv' /\ FetchInv' /\ ReadInv' /\ ShownInv'
  BY <1>0, <1>1, TurnFacts
<1>3. TypeOK'
  BY <1>0, <1>1, <1>2 DEF TypeOK, Query, Dialog, Version
<1> QED
  BY <1>2, <1>3 DEF IInv

\* Opening, closing and confirming the dialog, and its failure.
LEMMA DialogKeeps ==
  ASSUME IInv,
         (\E i \in Items : OpenAction(i)) \/ CloseAction \/ Confirm \/ ActionFails
  PROVE  IInv'
<1>0. dialog \in Dialog /\ TypeOK /\ Version \in Nat
  BY TypeParts, VersionType DEF IInv
<1>1. /\ UNCHANGED <<log, url, debounced, cache, known, early, moves>>
      /\ \/ \E i \in Items : dialog' = [state |-> "open", row |-> i, applied |-> None]
         \/ dialog' = NoDialog
         \/ dialog' = [dialog EXCEPT !.state = "sent"]
         \/ dialog' = [dialog EXCEPT !.state = "failed", !.applied = None]
  BY DEF OpenAction, CloseAction, Confirm, ActionFails
<1>2. dialog' \in Dialog
  <2>1. CASE \E i \in Items : dialog' = [state |-> "open", row |-> i, applied |-> None]
    BY <2>1, <1>0 DEF Dialog, None
  <2>2. CASE dialog' = NoDialog
    BY <2>2, <1>0, QueryTypes
  <2>3. CASE dialog' = [dialog EXCEPT !.state = "sent"]
    BY <2>3, <1>0 DEF Dialog
  <2>4. CASE dialog' = [dialog EXCEPT !.state = "failed", !.applied = None]
    <3>1. None \in 0..Version
      BY <1>0 DEF None
    <3> QED
      BY <2>4, <3>1, <1>0 DEF Dialog
  <2> QED
    BY <1>1, <2>1, <2>2, <2>3, <2>4
<1>3. TypeOK'
  BY <1>0, <1>1, <1>2 DEF TypeOK, Dialog, Version
<1> QED
  BY <1>1, <1>3, Aside

\* The server's changes leave the page as it was.
LEMMA ServerKeeps ==
  ASSUME IInv, Apply \/ \E i \in Items : ServerSettles(i)
  PROVE  IInv'
<1>0. dialog \in Dialog /\ TypeOK /\ Version \in Nat \ {0} /\ Version < MaxVersions
      /\ log \in Seq([Items -> Status]) /\ log[Version] \in [Items -> Status]
  <2>1. dialog \in Dialog /\ TypeOK /\ Version \in Nat \ {0} /\ log \in Seq([Items -> Status])
    BY TypeParts, VersionType DEF IInv
  <2>2. Version < MaxVersions
    BY DEF Apply, ServerSettles
  <2>3. log[Version] \in [Items -> Status]
    BY <2>1 DEF Version
  <2> QED
    BY <2>1, <2>2, <2>3
<1>1. PICK i : \E s \in Status : log' = Append(log, [log[Version] EXCEPT ![i] = s])
  <2>1. CASE Apply
    BY <2>1 DEF Apply, Rows, Status
  <2>2. CASE \E j \in Items : ServerSettles(j)
    BY <2>2 DEF ServerSettles, Rows, Status
  <2> QED
    BY <2>1, <2>2
<1>2. \A s \in Status : [log[Version] EXCEPT ![i] = s] \in [Items -> Status]
  BY <1>0
<1>3. log' \in Seq([Items -> Status]) /\ Version' = Version + 1
  <2>1. PICK rows \in [Items -> Status] : log' = Append(log, rows)
    BY <1>1, <1>2
  <2> QED
    BY <1>0, <2>1 DEF Version
<1>4. UNCHANGED <<url, debounced, cache, known, early, moves>>
  BY DEF Apply, ServerSettles
<1>5. /\ Query \subseteq Query' /\ Dialog \subseteq Dialog'
      /\ cache' \in [Keys -> Query'] /\ known' \in 0..Version'
  BY <1>0, <1>3, <1>4, Longer
<1>6. dialog' \in Dialog'
  <2>1. CASE Apply
    <3>1. PICK v : v = Version + 1
      OBVIOUS
    <3>2. v \in 0..Version' /\ dialog \in Dialog'
      BY <3>1, <1>0, <1>3, <1>5
    <3>3. dialog' = [dialog EXCEPT !.state = "applied", !.applied = v]
      BY <2>1, <3>1 DEF Apply
    <3> QED
      BY <3>2, <3>3 DEF Dialog
  <2>2. CASE \E j \in Items : ServerSettles(j)
    BY <2>2, <1>0, <1>5 DEF ServerSettles
  <2> QED
    BY <2>1, <2>2
<1>7. Version' \in 1..MaxVersions
  BY <1>0, <1>3, CollectionAssumption
<1>8. TypeOK'
  BY <1>0, <1>3, <1>4, <1>5, <1>6, <1>7 DEF TypeOK, Query, Dialog
<1> QED
  BY <1>4, <1>8, Aside

\* An accepted action marks every query and sends for the one on the page.
LEMMA AcceptedKeeps ==
  ASSUME IInv, Accepted
  PROVE  IInv'
<1>0. /\ Key \in Keys /\ cache \in [Keys -> Query] /\ TypeOK
      /\ Version \in Nat \ {0} /\ dialog.applied \in 0..Version
  BY KeyType, TypeParts, VersionType DEF IInv, Dialog
<1>1. /\ UNCHANGED <<log, url, debounced, moves>> /\ known' = dialog.applied
      /\ cache' = Invalidated /\ dialog' = NoDialog
      /\ early' = {k \in {Key} : /\ FirstLoad(cache[k]) /\ cache[k].fetch = "read"
                                /\ cache[k].read < dialog.applied}
  BY DEF Accepted
<1>2. Key' = Key /\ Version' = Version
  BY <1>1 DEF Key, Version
<1> DEFINE marked(k) == [cache[k] EXCEPT !.invalid = TRUE]
<1>3. \A k \in Keys : /\ marked(k) \in Query /\ marked(k).invalid
                      /\ marked(k).data = cache[k].data
                      /\ marked(k).read = cache[k].read
                      /\ marked(k).fetch = cache[k].fetch
                      /\ FirstLoad(marked(k)) = FirstLoad(cache[k])
  BY <1>0 DEF Query, FirstLoad
<1>4. \A q \in Query : /\ Begin(q) \in Query /\ Begin(q).data = q.data
                       /\ Begin(q).invalid = q.invalid /\ Begin(q).fetch = "sent"
  BY <1>0, QueryTypes, QueryFields
<1> HIDE DEF marked
<1>5. \A k \in Keys : cache'[k] = IF k = Key /\ ~FirstLoad(marked(k))
                                     THEN Begin(marked(k)) ELSE marked(k)
  BY <1>1 DEF Invalidated, marked
<1>6. \A k \in Keys : /\ cache'[k] \in Query /\ cache'[k].data = cache[k].data
                      /\ cache'[k].invalid
                      /\ k # Key => cache'[k].fetch = cache[k].fetch
  BY <1>3, <1>4, <1>5
<1>6a. \/ cache'[Key].fetch = "sent"
       \/ /\ cache[Key].data = None /\ cache'[Key].fetch = cache[Key].fetch
          /\ cache'[Key].read = cache[Key].read /\ FirstLoad(cache[Key])
  BY <1>0, <1>3, <1>4, <1>5 DEF FirstLoad
<1>7. cache' \in [Keys -> Query] /\ NoDialog \in Dialog /\ early' \subseteq Keys
  BY <1>0, <1>1, <1>6, QueryTypes DEF Invalidated
<1>8. TypeOK'
  BY <1>0, <1>1, <1>2, <1>7 DEF TypeOK, Query, Dialog, Version
<1>9. StaleInv'
  BY <1>6 DEF StaleInv
<1>10. FetchInv'
  BY <1>0, <1>2, <1>6 DEF IInv, FetchInv
<1>11. ReadInv'
  <2> SUFFICES ASSUME NEW k \in Keys, cache'[k].fetch = "read"
               PROVE  cache'[k].read >= known' \/ (k \in early' /\ cache'[k].data = None)
    BY DEF ReadInv
  <2>1. k = Key
    BY <1>2, <1>10 DEF FetchInv
  <2>2. /\ cache[Key].data = None /\ cache[Key].fetch = "read" /\ FirstLoad(cache[Key])
        /\ cache'[Key].read = cache[Key].read
    BY <1>6a, <2>1
  <2>3. cache[Key].read \in Nat /\ known' \in Nat
    BY <1>0, <1>1 DEF Query
  <2> QED
    BY <1>0, <1>1, <1>6, <2>1, <2>2, <2>3
<1>12. ShownInv'
  BY <1>2, <1>6a DEF ShownInv, FirstLoad
<1> QED
  BY <1>8, <1>9, <1>10, <1>11, <1>12 DEF IInv

LEMMA NextIInv == IInv /\ [Next]_vars => IInv'
<1> SUFFICES ASSUME IInv, [Next]_vars PROVE IInv'
  OBVIOUS
<1>0. url \in Keys
  BY DEF IInv, TypeOK
<1>1. CASE Read(Key)
  BY <1>1, ReadKeeps
<1>2. CASE Answer(Key)
  BY <1>2, AnswerKeeps
<1>3. CASE Fail(Key) \/ Poll \/ Refresh
  BY <1>3, FetchKeeps
<1>4. CASE (\E s \in Searches : Search(s)) \/ (\E p \in 1..2 : SetPage(p)) \/ ClearFilters
  <2>1. PICK next \in Keys : Change(next)
    <3>1. CASE \E s \in Searches : Search(s)
      <4>1. PICK s \in Searches : Search(s)
        BY <3>1
      <4>2. PICK n \in Pages : n = 1
        BY DEF Pages
      <4>3. [url EXCEPT !.page = n, !.search = s] \in Keys
        <5>1. PICK k : k = [url EXCEPT !.page = n]
          OBVIOUS
        <5>2. k \in Keys /\ [url EXCEPT !.page = n, !.search = s] = [k EXCEPT !.search = s]
          BY <5>1, <1>0, KeyParts
        <5> QED
          BY <5>2, KeyParts
      <4> QED
        BY <4>1, <4>2, <4>3 DEF Search
    <3>2. CASE \E p \in 1..2 : SetPage(p)
      <4>1. PICK p \in Pages : SetPage(p)
        BY <3>2 DEF Pages
      <4>2. [url EXCEPT !.page = p] \in Keys
        BY <1>0, KeyParts
      <4> QED
        BY <4>1, <4>2 DEF SetPage
    <3>3. CASE ClearFilters
      <4>1. [page |-> 1, search |-> ""] \in Keys
        BY DEF Keys, Searches
      <4> QED
        BY <3>3, <4>1 DEF ClearFilters
    <3> QED
      BY <1>4, <3>1, <3>2, <3>3
  <2> QED
    BY <2>1, TableKeeps
<1>5. CASE Debounce
  BY <1>5, DebounceKeeps
<1>6. CASE (\E i \in Items : OpenAction(i)) \/ CloseAction \/ Confirm \/ ActionFails
  BY <1>6, DialogKeeps
<1>7. CASE Apply \/ \E i \in Items : ServerSettles(i)
  BY <1>7, ServerKeeps
<1>8. CASE Accepted
  BY <1>8, AcceptedKeeps
<1>9. CASE UNCHANGED vars
  <2>1. TypeOK'
    BY <1>9 DEF IInv, TypeOK, vars, Version
  <2> QED
    BY <1>9, <2>1, Aside DEF vars
<1> QED
  BY <1>1, <1>2, <1>3, <1>4, <1>5, <1>6, <1>7, <1>8, <1>9 DEF Next

LEMMA Invariant == Spec => []IInv
  BY InitIInv, NextIInv, PTL DEF Spec

-----------------------------------------------------------------------------
\* Once a rename, deletion or revocation has been accepted, whichever page or
\* search the user turns to, and however requests and answers cross: the rows
\* shown as current are as new as the action (invalidateQueries on the root
\* of the collection, and the query cache's age and abort rules), but for the
\* answer of a first load that had read the server before the action and was
\* under way when it was accepted.
THEOREM AcceptedActionsAreShown == Spec => []AcceptedIsShown
<1>1. IInv => AcceptedIsShown
  <2> SUFFICES ASSUME IInv, cache[Key].data # None, cache[Key].fetch = "idle",
                      ~cache[Key].failed
               PROVE  cache[Key].data >= known \/ Key \in early
    BY DEF AcceptedIsShown
  <2>1. Key \in Keys /\ cache[Key] \in Query /\ known \in Nat /\ Version \in Nat
    BY KeyType, TypeParts, VersionType DEF IInv
  <2>2. ~cache[Key].invalid /\ cache[Key].data \in Nat
    BY <2>1 DEF IInv, ShownInv, Query
  <2> QED
    BY <2>1, <2>2 DEF IInv, StaleInv
<1> QED
  BY <1>1, Invariant, PTL

-----------------------------------------------------------------------------
(* Induction, over numbers and over texts.                                  *)

\* A set of numbers has a least one.
LEMMA LeastNumber ==
  ASSUME NEW T, T \subseteq Nat, T # {}
  PROVE  \E n \in T : \A m \in T : n <= m
<1> DEFINE R == OpToRel(<, Nat)
<1>1. IsWellFoundedOn(R, Nat)
  BY NatLessThanWellFounded
<1>2. R = {p \in Nat \X Nat : p[1] < p[2]}
  BY DEF OpToRel
<1> HIDE DEF R
<1>3. PICK n \in T : \A m \in T : ~ (<<m, n>> \in R)
  BY <1>1, WFMin
<1>4. ASSUME NEW m \in T
      PROVE  n <= m
  <2>1. n \in Nat /\ m \in Nat /\ <<m, n>> \in Nat \X Nat
    BY <1>3
  <2>2. ~ (m < n)
    BY <1>2, <1>3, <2>1
  <2> QED
    BY <2>1, <2>2
<1> QED
  BY <1>4

\* Induction over texts, the property given as a set: what the empty text is
\* in, and every text with one more character, all texts are in.
LEMMA TextInduction ==
  ASSUME NEW S, NEW A, <<>> \in A,
         \A s \in Seq(S), c \in S : s \in A => Append(s, c) \in A
  PROVE  Seq(S) \subseteq A
<1> SUFFICES ASSUME ~(Seq(S) \subseteq A)
             PROVE  FALSE
  OBVIOUS
<1> DEFINE T == {n \in Nat : \E s \in Seq(S) : Len(s) = n /\ s \notin A}
<1>1. PICK s0 \in Seq(S) : s0 \notin A
  OBVIOUS
<1>2. Len(s0) \in T
  BY <1>1
<1>3. PICK n \in T : \A m \in T : n <= m
  <2>1. T \subseteq Nat /\ T # {}
    BY <1>2
  <2> HIDE DEF T
  <2> QED
    BY <2>1, LeastNumber
<1>4. PICK s \in Seq(S) : Len(s) = n /\ s \notin A
  BY <1>3
<1>5. s # <<>>
  BY <1>4
<1>6. PICK t \in Seq(S), c \in S : s = Append(t, c)
  BY <1>5, SequenceEmptyOrAppend
<1>7. Len(s) = Len(t) + 1
  BY <1>6
<1>8. t \notin A
  BY <1>4, <1>6
<1>9. Len(t) \in T
  BY <1>8
<1>10. n <= Len(t)
  BY <1>3, <1>9
<1> QED
  BY <1>4, <1>7, <1>10

\* The same over numbers.
LEMMA NumberInduction ==
  ASSUME NEW A, 0 \in A, \A n \in Nat : n \in A => n + 1 \in A
  PROVE  Nat \subseteq A
<1> SUFFICES ASSUME ~(Nat \subseteq A)
             PROVE  FALSE
  OBVIOUS
<1>1. Nat \ A \subseteq Nat /\ Nat \ A # {}
  OBVIOUS
<1>2. PICK n \in Nat \ A : \A m \in Nat \ A : n <= m
  BY <1>1, LeastNumber
<1>3. n # 0 /\ n - 1 \in Nat /\ (n - 1) + 1 = n
  OBVIOUS
<1>4. n - 1 \in Nat \ A
  BY <1>3
<1> QED
  BY <1>2, <1>3, <1>4

-----------------------------------------------------------------------------
(* Automata that read a text from left to right: what a recursive function  *)
(* over the places of a text computes is where an automaton ends.           *)

IsAutomaton(M) == M.next \in [M.states \X M.chars -> M.states]

\* The states that M goes through, from r, along l.
IsTrace(M, r, l, g) ==
  /\ g \in [0..Len(l) -> M.states]
  /\ g[0] = r
  /\ \A i \in 1..Len(l) : g[i] = M.next[<<g[i - 1], l[i]>>]

\* The state that it ends in.
End(M, r, l) == (CHOOSE g : IsTrace(M, r, l, g))[Len(l)]

LEMMA NextType ==
  ASSUME NEW M, IsAutomaton(M), NEW r \in M.states, NEW c \in M.chars
  PROVE  M.next[<<r, c>>] \in M.states
  BY DEF IsAutomaton

\* A trace is extended by one character.
LEMMA TraceAppend ==
  ASSUME NEW M, IsAutomaton(M), NEW r \in M.states,
         NEW l \in Seq(M.chars), NEW c \in M.chars, NEW g, IsTrace(M, r, l, g)
  PROVE  \E h : /\ IsTrace(M, r, Append(l, c), h)
                /\ h[Len(l) + 1] = M.next[<<g[Len(l)], c>>]
<1> DEFINE h == [i \in 0..Len(l) + 1 |->
                   IF i = Len(l) + 1 THEN M.next[<<g[Len(l)], c>>] ELSE g[i]]
<1>1. Len(l) \in Nat /\ Len(Append(l, c)) = Len(l) + 1
  OBVIOUS
<1>2. h \in [0..Len(l) + 1 -> M.states]
  <2>1. g[Len(l)] \in M.states
    BY <1>1 DEF IsTrace
  <2>2. M.next[<<g[Len(l)], c>>] \in M.states
    BY <2>1, NextType
  <2> QED
    BY <1>1, <2>2 DEF IsTrace
<1>3. h[0] = r
  BY <1>1 DEF IsTrace
<1>4. ASSUME NEW i \in 1..Len(l) + 1
      PROVE  h[i] = M.next[<<h[i - 1], Append(l, c)[i]>>]
  <2>1. CASE i = Len(l) + 1
    <3>1. h[i] = M.next[<<g[Len(l)], c>>] /\ h[i - 1] = g[Len(l)]
      BY <1>1, <2>1
    <3>2. Append(l, c)[i] = c
      BY <1>1, <2>1
    <3> QED
      BY <3>1, <3>2
  <2>2. CASE i # Len(l) + 1
    <3>1. i \in 1..Len(l)
      BY <1>1, <2>2
    <3>2. h[i] = g[i] /\ h[i - 1] = g[i - 1]
      BY <1>1, <3>1
    <3>3. Append(l, c)[i] = l[i]
      BY <1>1, <3>1
    <3>4. g[i] = M.next[<<g[i - 1], l[i]>>]
      BY <3>1 DEF IsTrace
    <3> QED
      BY <3>2, <3>3, <3>4
  <2> QED
    BY <2>1, <2>2
<1>5. h[Len(l) + 1] = M.next[<<g[Len(l)], c>>]
  BY <1>1
<1> HIDE DEF h
<1>6. IsTrace(M, r, Append(l, c), h)
  BY <1>1, <1>2, <1>3, <1>4 DEF IsTrace
<1> QED
  BY <1>5, <1>6

\* Every text has a trace.
LEMMA TraceExists ==
  ASSUME NEW M, IsAutomaton(M), NEW r \in M.states
  PROVE  \A l \in Seq(M.chars) : \E g : IsTrace(M, r, l, g)
<1> DEFINE A == {l \in Seq(M.chars) : \E g : IsTrace(M, r, l, g)}
<1>1. <<>> \in A
  <2>1. PICK g : g = [i \in 0..0 |-> r]
    OBVIOUS
  <2>2. IsTrace(M, r, <<>>, g)
    BY <2>1 DEF IsTrace
  <2>3. <<>> \in Seq(M.chars)
    OBVIOUS
  <2> QED
    BY <2>2, <2>3
<1>2. ASSUME NEW l \in Seq(M.chars), NEW c \in M.chars, l \in A
      PROVE  Append(l, c) \in A
  <2>1. PICK g : IsTrace(M, r, l, g)
    BY <1>2
  <2>2. \E h : IsTrace(M, r, Append(l, c), h)
    BY <2>1, TraceAppend
  <2>3. Append(l, c) \in Seq(M.chars)
    OBVIOUS
  <2> QED
    BY <2>2, <2>3
<1>3. Seq(M.chars) \subseteq A
  <2> HIDE DEF A
  <2> QED
    BY <1>1, <1>2, TextInduction
<1> QED
  BY <1>3

\* There is one trace: what follows the transitions from a state of the
\* automaton for as long as it is in a state of it, is that trace.
LEMMA TraceUnique ==
  ASSUME NEW M, IsAutomaton(M), NEW r \in M.states, NEW l \in Seq(M.chars),
         NEW g, IsTrace(M, r, l, g),
         NEW h, h[0] = r,
         \A i \in 1..Len(l) :
           h[i - 1] \in M.states => h[i] = M.next[<<h[i - 1], l[i]>>]
  PROVE  h[Len(l)] = g[Len(l)]
<1> DEFINE A == {n \in Nat : n <= Len(l) => h[n] = g[n]}
<1>0. Len(l) \in Nat
  OBVIOUS
<1>1. 0 \in A
  BY DEF IsTrace
<1>2. ASSUME NEW n \in Nat, n \in A
      PROVE  n + 1 \in A
  <2>1. CASE n + 1 <= Len(l)
    <3>1. n + 1 \in 1..Len(l) /\ (n + 1) - 1 = n /\ n \in 0..Len(l)
      BY <1>0, <2>1
    <3>2. h[n] = g[n]
      BY <1>2, <3>1
    <3>3. g[n] \in M.states
      BY <3>1 DEF IsTrace
    <3>4. h[n + 1] = M.next[<<h[n], l[n + 1]>>]
      BY <3>1, <3>2, <3>3
    <3>5. g[n + 1] = M.next[<<g[n], l[n + 1]>>]
      BY <3>1 DEF IsTrace
    <3> QED
      BY <3>2, <3>4, <3>5
  <2>2. CASE ~ (n + 1 <= Len(l))
    BY <2>2
  <2> QED
    BY <2>1, <2>2
<1>3. Nat \subseteq A
  <2> HIDE DEF A
  <2> QED
    BY <1>1, <1>2, NumberInduction
<1> QED
  BY <1>0, <1>3

\* Every trace ends in that state.
LEMMA EndOfTrace ==
  ASSUME NEW M, IsAutomaton(M), NEW r \in M.states, NEW l \in Seq(M.chars),
         NEW g, IsTrace(M, r, l, g)
  PROVE  g[Len(l)] = End(M, r, l)
<1> DEFINE h == CHOOSE x : IsTrace(M, r, l, x)
<1>1. IsTrace(M, r, l, h)
  OBVIOUS
<1>2. End(M, r, l) = h[Len(l)]
  BY DEF End
<1> HIDE DEF h
<1>3. g[0] = r /\ \A i \in 1..Len(l) : g[i] = M.next[<<g[i - 1], l[i]>>]
  BY DEF IsTrace
<1>4. g[Len(l)] = h[Len(l)]
  BY <1>1, <1>3, TraceUnique
<1> QED
  BY <1>2, <1>4

\* So does a recursive definition of the states.
LEMMA EndOfRecursion ==
  ASSUME NEW M, IsAutomaton(M), NEW r \in M.states, NEW l \in Seq(M.chars),
         NEW h, h[0] = r,
         \A i \in 1..Len(l) :
           h[i - 1] \in M.states => h[i] = M.next[<<h[i - 1], l[i]>>]
  PROVE  h[Len(l)] = End(M, r, l)
<1>1. PICK g : IsTrace(M, r, l, g)
  BY TraceExists
<1>2. h[Len(l)] = g[Len(l)]
  BY <1>1, TraceUnique
<1> QED
  BY <1>1, <1>2, EndOfTrace

\* Where a text leads, character by character.
LEMMA EndEmpty ==
  ASSUME NEW M, IsAutomaton(M), NEW r \in M.states
  PROVE  End(M, r, <<>>) = r
<1>1. <<>> \in Seq(M.chars) /\ Len(<<>>) = 0
  OBVIOUS
<1>2. PICK g : IsTrace(M, r, <<>>, g)
  BY <1>1, TraceExists
<1>3. g[Len(<<>>)] = End(M, r, <<>>)
  BY <1>1, <1>2, EndOfTrace
<1> QED
  BY <1>1, <1>2, <1>3 DEF IsTrace

LEMMA EndType ==
  ASSUME NEW M, IsAutomaton(M), NEW r \in M.states, NEW l \in Seq(M.chars)
  PROVE  End(M, r, l) \in M.states
<1>1. PICK g : IsTrace(M, r, l, g)
  BY TraceExists
<1>2. g[Len(l)] = End(M, r, l)
  BY <1>1, EndOfTrace
<1> QED
  BY <1>1, <1>2 DEF IsTrace

LEMMA EndAppend ==
  ASSUME NEW M, IsAutomaton(M), NEW r \in M.states, NEW l \in Seq(M.chars),
         NEW c \in M.chars
  PROVE  End(M, r, Append(l, c)) = M.next[<<End(M, r, l), c>>]
<1>0. Append(l, c) \in Seq(M.chars) /\ Len(Append(l, c)) = Len(l) + 1
  OBVIOUS
<1>1. PICK g : IsTrace(M, r, l, g)
  BY TraceExists
<1>2. g[Len(l)] = End(M, r, l)
  BY <1>1, EndOfTrace
<1>3. PICK h : /\ IsTrace(M, r, Append(l, c), h)
               /\ h[Len(l) + 1] = M.next[<<g[Len(l)], c>>]
  BY <1>1, TraceAppend
<1>4. h[Len(Append(l, c))] = End(M, r, Append(l, c))
  BY <1>0, <1>3, EndOfTrace
<1> QED
  BY <1>0, <1>2, <1>3, <1>4

\* A text in two parts is read in two parts.
LEMMA EndConcat ==
  ASSUME NEW M, IsAutomaton(M), NEW r \in M.states, NEW l \in Seq(M.chars)
  PROVE  \A m \in Seq(M.chars) : End(M, r, l \o m) = End(M, End(M, r, l), m)
<1> DEFINE A == {m \in Seq(M.chars) :
                   End(M, r, l \o m) = End(M, End(M, r, l), m)}
<1>0. End(M, r, l) \in M.states
  BY EndType
<1>1. <<>> \in A
  <2>1. l \o <<>> = l /\ <<>> \in Seq(M.chars)
    OBVIOUS
  <2>2. End(M, End(M, r, l), <<>>) = End(M, r, l)
    BY <1>0, EndEmpty
  <2> QED
    BY <2>1, <2>2
<1>2. ASSUME NEW m \in Seq(M.chars), NEW c \in M.chars, m \in A
      PROVE  Append(m, c) \in A
  <2>1. /\ l \o m \in Seq(M.chars) /\ Append(m, c) \in Seq(M.chars)
        /\ l \o Append(m, c) = Append(l \o m, c)
    OBVIOUS
  <2>2. End(M, r, l \o m) = End(M, End(M, r, l), m)
    BY <1>2
  <2>3. End(M, r, Append(l \o m, c)) = M.next[<<End(M, r, l \o m), c>>]
    BY <2>1, EndAppend
  <2>4. End(M, End(M, r, l), Append(m, c))
          = M.next[<<End(M, End(M, r, l), m), c>>]
    BY <1>0, EndAppend
  <2>5. End(M, r, l \o Append(m, c)) = End(M, End(M, r, l), Append(m, c))
    BY <2>1, <2>2, <2>3, <2>4
  <2> QED
    BY <2>1, <2>5
<1>3. Seq(M.chars) \subseteq A
  <2> HIDE DEF A
  <2> QED
    BY <1>1, <1>2, TextInduction
<1> QED
  BY <1>3

\* Texts of one and of two characters.
LEMMA EndOne ==
  ASSUME NEW M, IsAutomaton(M), NEW r \in M.states, NEW x \in M.chars
  PROVE  End(M, r, <<x>>) = M.next[<<r, x>>]
<1>1. <<>> \in Seq(M.chars) /\ <<x>> = Append(<<>>, x)
  OBVIOUS
<1>2. End(M, r, Append(<<>>, x)) = M.next[<<End(M, r, <<>>), x>>]
  BY <1>1, EndAppend
<1> QED
  BY <1>1, <1>2, EndEmpty

LEMMA EndTwo ==
  ASSUME NEW M, IsAutomaton(M), NEW r \in M.states,
         NEW x \in M.chars, NEW y \in M.chars
  PROVE  End(M, r, <<x, y>>) = M.next[<<M.next[<<r, x>>], y>>]
<1>1. <<x>> \in Seq(M.chars) /\ <<x, y>> = Append(<<x>>, y)
  OBVIOUS
<1>2. End(M, r, Append(<<x>>, y)) = M.next[<<End(M, r, <<x>>), y>>]
  BY <1>1, EndAppend
<1> QED
  BY <1>1, <1>2, EndOne

-----------------------------------------------------------------------------
(* Replacements in a text.                                                  *)

Texts == Seq(Characters)

LEMMA TextsAssociate ==
  ASSUME NEW u \in Texts, NEW v \in Texts, NEW w \in Texts
  PROVE  (u \o v) \o w = u \o (v \o w)
  BY ConcatAssociative DEF Texts

\* What a character becomes.
Put(c, by, x) == IF x = c THEN by ELSE <<x>>

Replacing(c, by) ==
  [states |-> Texts, chars |-> Characters,
   next |-> [p \in Texts \X Characters |-> p[1] \o Put(c, by, p[2])]]

LEMMA PutType ==
  ASSUME NEW c, NEW by \in Texts, NEW x \in Characters
  PROVE  Put(c, by, x) \in Texts
  BY DEF Put, Texts

LEMMA ReplacingIsAutomaton ==
  ASSUME NEW c, NEW by \in Texts
  PROVE  /\ IsAutomaton(Replacing(c, by))
         /\ Replacing(c, by).states = Texts
         /\ Replacing(c, by).chars = Characters
         /\ \A r \in Texts, x \in Characters :
              Replacing(c, by).next[<<r, x>>] = r \o Put(c, by, x)
<1>1. ASSUME NEW r \in Texts, NEW x \in Characters
      PROVE  r \o Put(c, by, x) \in Texts
  BY PutType DEF Texts
<1> QED
  BY <1>1 DEF IsAutomaton, Replacing

\* replaceAll is the automaton that appends what each character becomes.
LEMMA ReplaceAllIsEnd ==
  ASSUME NEW c, NEW by \in Texts, NEW v \in Texts
  PROVE  replaceAll(v, c, by) = End(Replacing(c, by), <<>>, v)
<1> DEFINE P(f) == f = [i \in 0..Len(v) |->
                          IF i = 0 THEN <<>> ELSE f[i - 1] \o Put(c, by, v[i])]
           h == CHOOSE f : P(f)
           M == Replacing(c, by)
<1>1. replaceAll(v, c, by) = h[Len(v)]
  BY DEF replaceAll, Put
<1>2. /\ IsAutomaton(M) /\ M.states = Texts /\ M.chars = Characters
      /\ \A r \in Texts, x \in Characters : M.next[<<r, x>>]
           = r \o Put(c, by, x)
  BY ReplacingIsAutomaton
<1> HIDE DEF M
<1>3. <<>> \in M.states /\ v \in Seq(M.chars)
  BY <1>2 DEF Texts
<1>4. Len(v) \in Nat /\ \A i \in 1..Len(v) : v[i] \in Characters
  BY DEF Texts
<1>5. PICK g : IsTrace(M, <<>>, v, g)
  BY <1>2, <1>3, TraceExists
<1>6. g \in [0..Len(v) -> Texts] /\ g[0] = <<>>
      /\ \A i \in 1..Len(v) : g[i] = M.next[<<g[i - 1], v[i]>>]
  BY <1>2, <1>5 DEF IsTrace
<1>7. ASSUME NEW i \in 1..Len(v)
      PROVE  g[i] = g[i - 1] \o Put(c, by, v[i])
  <2>1. g[i - 1] \in Texts
    BY <1>4, <1>6
  <2> QED
    BY <1>2, <1>4, <1>6, <2>1
<1>8. P(g)
  <2> DEFINE k == [i \in 0..Len(v) |->
                     IF i = 0 THEN <<>> ELSE g[i - 1] \o Put(c, by, v[i])]
  <2>1. ASSUME NEW i \in 0..Len(v)
        PROVE  g[i] = k[i]
    <3>1. CASE i = 0
      BY <1>6, <3>1
    <3>2. CASE i # 0
      <4>1. i \in 1..Len(v)
        BY <1>4, <3>2
      <4> QED
        BY <1>7, <3>2, <4>1
    <3> QED
      BY <3>1, <3>2
  <2>2. g = k
    BY <1>6, <2>1
  <2> QED
    BY <2>2
<1>9. P(h)
  <2> HIDE DEF P
  <2> QED
    BY <1>8
<1> HIDE DEF h
<1>10. h[0] = <<>>
  BY <1>4, <1>9
<1>11. ASSUME NEW i \in 1..Len(v), h[i - 1] \in M.states
       PROVE  h[i] = M.next[<<h[i - 1], v[i]>>]
  <2>1. h[i] = h[i - 1] \o Put(c, by, v[i])
    BY <1>4, <1>9
  <2> QED
    BY <1>2, <1>4, <1>11, <2>1
<1>12. h[Len(v)] = End(M, <<>>, v)
  BY <1>2, <1>3, <1>10, <1>11, EndOfRecursion
<1> QED
  BY <1>1, <1>12 DEF M

\* A replacement goes character by character.
LEMMA ReplaceAllEmpty ==
  ASSUME NEW c, NEW by \in Texts
  PROVE  replaceAll(<<>>, c, by) = <<>>
<1>1. <<>> \in Replacing(c, by).states /\ <<>> \in Texts
  <2>1. <<>> \in Texts
    BY DEF Texts
  <2> QED
    BY <2>1, ReplacingIsAutomaton
<1>2. End(Replacing(c, by), <<>>, <<>>) = <<>>
  BY <1>1, ReplacingIsAutomaton, EndEmpty
<1> QED
  BY <1>1, <1>2, ReplaceAllIsEnd

LEMMA ReplaceAllType ==
  ASSUME NEW c, NEW by \in Texts, NEW v \in Texts
  PROVE  replaceAll(v, c, by) \in Texts
<1> DEFINE M == Replacing(c, by)
<1>1. IsAutomaton(M) /\ M.states = Texts /\ M.chars = Characters
  BY ReplacingIsAutomaton
<1>2. replaceAll(v, c, by) = End(M, <<>>, v)
  BY ReplaceAllIsEnd
<1> HIDE DEF M
<1>3. <<>> \in M.states /\ v \in Seq(M.chars)
  BY <1>1 DEF Texts
<1>4. End(M, <<>>, v) \in M.states
  BY <1>1, <1>3, EndType
<1> QED
  BY <1>1, <1>2, <1>4

LEMMA ReplaceAllAppend ==
  ASSUME NEW c, NEW by \in Texts, NEW v \in Texts, NEW x \in Characters
  PROVE  replaceAll(Append(v, x), c, by)
           = replaceAll(v, c, by) \o Put(c, by, x)
<1> DEFINE M == Replacing(c, by)
<1>1. /\ IsAutomaton(M) /\ M.states = Texts /\ M.chars = Characters
      /\ \A r \in Texts : M.next[<<r, x>>] = r \o Put(c, by, x)
  BY ReplacingIsAutomaton
<1>2. Append(v, x) \in Texts
  BY DEF Texts
<1>3. /\ replaceAll(v, c, by) = End(M, <<>>, v)
      /\ replaceAll(Append(v, x), c, by) = End(M, <<>>, Append(v, x))
  BY <1>2, ReplaceAllIsEnd
<1> HIDE DEF M
<1>4. <<>> \in M.states /\ v \in Seq(M.chars) /\ x \in M.chars
  BY <1>1 DEF Texts
<1>5. End(M, <<>>, v) \in Texts
  BY <1>3, ReplaceAllType
<1>6. End(M, <<>>, Append(v, x)) = M.next[<<End(M, <<>>, v), x>>]
  BY <1>1, <1>4, EndAppend
<1> QED
  BY <1>1, <1>3, <1>5, <1>6

\* A text in two parts is replaced in two parts.
LEMMA ReplaceAllConcat ==
  ASSUME NEW c, NEW by \in Texts, NEW v \in Texts, NEW u \in Texts
  PROVE  replaceAll(v \o u, c, by)
           = replaceAll(v, c, by) \o replaceAll(u, c, by)
<1> DEFINE A == {w \in Texts : replaceAll(v \o w, c, by)
                                 = replaceAll(v, c, by) \o replaceAll(w, c, by)}
<1>0. replaceAll(v, c, by) \in Texts
  BY ReplaceAllType
<1>1. <<>> \in A
  <2>1. v \o <<>> = v /\ <<>> \in Texts
    BY DEF Texts
  <2>2. replaceAll(v, c, by) \o <<>> = replaceAll(v, c, by)
    BY <1>0 DEF Texts
  <2>3. replaceAll(<<>>, c, by) = <<>>
    BY ReplaceAllEmpty
  <2> QED
    BY <2>1, <2>2, <2>3
<1>2. ASSUME NEW w \in Seq(Characters), NEW x \in Characters, w \in A
      PROVE  Append(w, x) \in A
  <2>1. /\ w \in Texts /\ v \o w \in Texts /\ Append(w, x) \in Texts
        /\ v \o Append(w, x) = Append(v \o w, x)
    BY DEF Texts
  <2>2. replaceAll(Append(v \o w, x), c, by)
          = replaceAll(v \o w, c, by) \o Put(c, by, x)
    BY <2>1, ReplaceAllAppend
  <2>3. replaceAll(Append(w, x), c, by) = replaceAll(w, c, by) \o Put(c, by, x)
    BY <2>1, ReplaceAllAppend
  <2>4. replaceAll(v \o w, c, by) = replaceAll(v, c, by) \o replaceAll(w, c, by)
    BY <1>2
  <2>5. replaceAll(w, c, by) \in Texts /\ Put(c, by, x) \in Texts
    BY <2>1, ReplaceAllType, PutType
  <2>6. (replaceAll(v, c, by) \o replaceAll(w, c, by)) \o Put(c, by, x)
          = replaceAll(v, c, by) \o (replaceAll(w, c, by) \o Put(c, by, x))
    BY <1>0, <2>5, TextsAssociate
  <2> QED
    BY <2>1, <2>2, <2>3, <2>4, <2>6
<1>3. Seq(Characters) \subseteq A
  <2> HIDE DEF A
  <2> QED
    BY <1>1, <1>2, TextInduction
<1> QED
  BY <1>3 DEF Texts

LEMMA ReplaceAllOne ==
  ASSUME NEW c, NEW by \in Texts, NEW x \in Characters
  PROVE  replaceAll(<<x>>, c, by) = Put(c, by, x)
<1>1. <<>> \in Texts /\ <<x>> = Append(<<>>, x)
  BY DEF Texts
<1>2. replaceAll(<<x>>, c, by) = replaceAll(<<>>, c, by) \o Put(c, by, x)
  BY <1>1, ReplaceAllAppend
<1>3. <<>> \o Put(c, by, x) = Put(c, by, x)
  BY PutType DEF Texts
<1> QED
  BY <1>2, <1>3, ReplaceAllEmpty

LEMMA ReplaceAllTwo ==
  ASSUME NEW c, NEW by \in Texts, NEW x \in Characters, NEW y \in Characters
  PROVE  replaceAll(<<x, y>>, c, by) = Put(c, by, x) \o Put(c, by, y)
<1>1. <<x>> \in Texts /\ <<x, y>> = Append(<<x>>, y)
  BY DEF Texts
<1>2. replaceAll(<<x, y>>, c, by) = replaceAll(<<x>>, c, by) \o Put(c, by, y)
  BY <1>1, ReplaceAllAppend
<1> QED
  BY <1>2, ReplaceAllOne

\* What a character of a search becomes.
Escaped(x) ==
  replaceAll(
    replaceAll(
      replaceAll(Put(Quote, <<Quote, Quote>>, x), Backslash,
                 <<Backslash, Backslash>>),
      "%", <<Backslash, "%">>),
    "_", <<Backslash, "_">>)

LEMMA CharacterFacts ==
  /\ Characters = {"a", Space, Quote, Backslash, "%", "_"}
  /\ \A x, y \in Characters : <<x, y>> \in Texts
  /\ \A x \in Characters : <<x>> \in Texts
  BY DEF Characters, Texts

\* An escaped text, with one more character.
LEMMA EscapeAppend ==
  ASSUME NEW v \in Texts, NEW x \in Characters
  PROVE  /\ escapeIlikeLiteral(v) \in Texts /\ Escaped(x) \in Texts
         /\ escapeIlikeLiteral(Append(v, x))
              = escapeIlikeLiteral(v) \o Escaped(x)
<1> DEFINE Q == <<Quote, Quote>>
           B == <<Backslash, Backslash>>
           P == <<Backslash, "%">>
           U == <<Backslash, "_">>
           v1 == replaceAll(v, Quote, Q)
           v2 == replaceAll(v1, Backslash, B)
           v3 == replaceAll(v2, "%", P)
           x1 == Put(Quote, Q, x)
           x2 == replaceAll(x1, Backslash, B)
           x3 == replaceAll(x2, "%", P)
<1>0. Q \in Texts /\ B \in Texts /\ P \in Texts /\ U \in Texts
  BY CharacterFacts
<1>1. escapeIlikeLiteral(v) = replaceAll(v3, "_", U)
      /\ escapeIlikeLiteral(Append(v, x)) =
           replaceAll(replaceAll(replaceAll(
             replaceAll(Append(v, x), Quote, Q), Backslash, B), "%", P), "_", U)
  BY DEF escapeIlikeLiteral, escapeSearchLiteral
<1>2. Escaped(x) = replaceAll(x3, "_", U)
  BY DEF Escaped
<1> HIDE DEF Q, B, P, U
<1>11. B \in Texts
  BY <1>0
<1>12. P \in Texts
  BY <1>0
<1>13. U \in Texts
  BY <1>0
<1>3. v1 \in Texts /\ x1 \in Texts
  BY <1>0, CharacterFacts, ReplaceAllType, PutType
<1>10. replaceAll(Append(v, x), Quote, Q) = v1 \o x1
  BY <1>0, ReplaceAllAppend
<1> HIDE DEF v1, x1
<1>4. v2 \in Texts /\ x2 \in Texts
  BY <1>0, <1>3, ReplaceAllType
<1>5. replaceAll(v1 \o x1, Backslash, B) = v2 \o x2
  BY <1>11, <1>3, ReplaceAllConcat
<1> HIDE DEF v2, x2
<1>6. v3 \in Texts /\ x3 \in Texts
  BY <1>0, <1>4, ReplaceAllType
<1>7. replaceAll(v2 \o x2, "%", P) = v3 \o x3
  BY <1>12, <1>4, ReplaceAllConcat
<1> HIDE DEF v3, x3
<1>8. replaceAll(v3, "_", U) \in Texts /\ replaceAll(x3, "_", U) \in Texts
  BY <1>0, <1>6, ReplaceAllType
<1>9. replaceAll(v3 \o x3, "_", U)
         = replaceAll(v3, "_", U) \o replaceAll(x3, "_", U)
  BY <1>13, <1>6, ReplaceAllConcat
<1> QED
  BY <1>1, <1>2, <1>10, <1>5, <1>7, <1>8, <1>9

\* What the four replacements make of each character: with the backslash
\* replaced before the wildcards, no character is escaped twice.
LEMMA EscapedCharacters ==
  /\ \A x \in {"a", Space} : Escaped(x) = <<x>>
  /\ Escaped(Quote) = <<Quote, Quote>>
  /\ \A x \in {Backslash, "%", "_"} : Escaped(x) = <<Backslash, x>>
<1> DEFINE Q == <<Quote, Quote>>
           B == <<Backslash, Backslash>>
           P == <<Backslash, "%">>
           U == <<Backslash, "_">>
<1>0. /\ Q \in Texts /\ B \in Texts /\ P \in Texts /\ U \in Texts
      /\ "a" \in Characters /\ Space \in Characters /\ Quote \in Characters
      /\ Backslash \in Characters /\ "%" \in Characters /\ "_" \in Characters
  BY CharacterFacts
<1>1. \A x, y : x # y => \A by : Put(y, by, x) = <<x>>
  BY DEF Put
<1>2. \A x, by : Put(x, by, x) = by
  BY DEF Put
<1>3. ASSUME NEW x \in Characters, NEW c, c # x, NEW by \in Texts
      PROVE  replaceAll(<<x>>, c, by) = <<x>>
  BY <1>1, <1>3, ReplaceAllOne
<1>4. ASSUME NEW x \in Characters, NEW by \in Texts
      PROVE  replaceAll(<<x>>, x, by) = by
  BY <1>2, ReplaceAllOne
<1>5. ASSUME NEW x \in Characters, NEW y \in Characters, NEW c, c # x, c # y,
             NEW by \in Texts
      PROVE  replaceAll(<<x, y>>, c, by) = <<x, y>>
  <2>1. replaceAll(<<x, y>>, c, by) = Put(c, by, x) \o Put(c, by, y)
    BY ReplaceAllTwo
  <2>2. Put(c, by, x) = <<x>> /\ Put(c, by, y) = <<y>>
    BY <1>1, <1>5
  <2>3. <<x>> \o <<y>> = <<x, y>>
    <3>1. <<x>> \in Seq(Characters) /\ <<x, y>> = Append(<<x>>, y)
      OBVIOUS
    <3>2. Append(<<x>>, y) = <<x>> \o <<y>>
      BY <3>1, AppendIsConcat
    <3> QED
      BY <3>1, <3>2
  <2> QED
    BY <2>1, <2>2, <2>3
<1>6. /\ Space # Quote /\ Space # Backslash /\ Quote # Backslash
      /\ \A c \in {Space, Quote, Backslash} : c # "a" /\ c # "%" /\ c # "_"
  BY DEF Space, Quote, Backslash
<1>7. \A x : Escaped(x) = replaceAll(replaceAll(replaceAll(Put(Quote, Q, x),
                            Backslash, B), "%", P), "_", U)
  BY DEF Escaped
<1> HIDE DEF Q, B, P, U
<1>8. ASSUME NEW x \in {"a", Space}
      PROVE  Escaped(x) = <<x>>
  <2>1. x \in Characters /\ x # Quote /\ x # Backslash /\ x # "%" /\ x # "_"
    BY <1>0, <1>6
  <2>2. Put(Quote, Q, x) = <<x>>
    BY <1>1, <2>1
  <2>3. /\ replaceAll(<<x>>, Backslash, B) = <<x>>
        /\ replaceAll(<<x>>, "%", P) = <<x>>
        /\ replaceAll(<<x>>, "_", U) = <<x>>
    BY <1>0, <1>3, <2>1
  <2> QED
    BY <1>7, <2>2, <2>3
<1>9. Escaped(Quote) = <<Quote, Quote>>
  <2>1. Put(Quote, Q, Quote) = <<Quote, Quote>>
    BY <1>2 DEF Q
  <2>2. /\ replaceAll(<<Quote, Quote>>, Backslash, B) = <<Quote, Quote>>
        /\ replaceAll(<<Quote, Quote>>, "%", P) = <<Quote, Quote>>
        /\ replaceAll(<<Quote, Quote>>, "_", U) = <<Quote, Quote>>
    BY <1>0, <1>5, <1>6
  <2> QED
    BY <1>7, <2>1, <2>2
<1>10. Escaped(Backslash) = <<Backslash, Backslash>>
  <2>1. Put(Quote, Q, Backslash) = <<Backslash>>
    BY <1>1, <1>6
  <2>2. replaceAll(<<Backslash>>, Backslash, B) = <<Backslash, Backslash>>
    BY <1>0, <1>4 DEF B
  <2>3. /\ replaceAll(<<Backslash, Backslash>>, "%", P)
             = <<Backslash, Backslash>>
        /\ replaceAll(<<Backslash, Backslash>>, "_", U)
             = <<Backslash, Backslash>>
    BY <1>0, <1>5, <1>6
  <2> QED
    BY <1>7, <2>1, <2>2, <2>3
<1>11. Escaped("%") = <<Backslash, "%">>
  <2>1. Put(Quote, Q, "%") = <<"%">>
    BY <1>1, <1>6
  <2>2. replaceAll(<<"%">>, Backslash, B) = <<"%">>
    BY <1>0, <1>3, <1>6
  <2>3. replaceAll(<<"%">>, "%", P) = <<Backslash, "%">>
    BY <1>0, <1>4 DEF P
  <2>4. replaceAll(<<Backslash, "%">>, "_", U) = <<Backslash, "%">>
    BY <1>0, <1>5, <1>6
  <2> QED
    BY <1>7, <2>1, <2>2, <2>3, <2>4
<1>12. Escaped("_") = <<Backslash, "_">>
  <2>1. Put(Quote, Q, "_") = <<"_">>
    BY <1>1, <1>6
  <2>2. replaceAll(<<"_">>, Backslash, B) = <<"_">>
    BY <1>0, <1>3, <1>6
  <2>3. replaceAll(<<"_">>, "%", P) = <<"_">>
    BY <1>0, <1>3, <1>6
  <2>4. replaceAll(<<"_">>, "_", U) = <<Backslash, "_">>
    BY <1>0, <1>4 DEF U
  <2> QED
    BY <1>7, <2>1, <2>2, <2>3, <2>4
<1> QED
  BY <1>8, <1>9, <1>10, <1>11, <1>12

-----------------------------------------------------------------------------
(* How the API reads a literal.                                             *)

Modes == {"before", "open", "closed", "broken"}
Lit(m, u) == [mode |-> m, value |-> u]

\* How a literal is read, character by character.
LEMMA LiteralSteps ==
  ASSUME NEW u
  PROVE  /\ LiteralStep(Lit("before", u), Quote) = Lit("open", u)
         /\ LiteralStep(Lit("open", u), Quote) = Lit("closed", u)
         /\ LiteralStep(Lit("closed", u), Quote) = Lit("open", Append(u, Quote))
         /\ LiteralStep(Lit("broken", u), Quote) = Lit("broken", u)
         /\ \A x : x # Quote =>
              /\ LiteralStep(Lit("before", u), x) = Lit("broken", u)
              /\ LiteralStep(Lit("open", u), x) = Lit("open", Append(u, x))
              /\ LiteralStep(Lit("closed", u), x) = Lit("broken", u)
              /\ LiteralStep(Lit("broken", u), x) = Lit("broken", u)
<1>1. \A m : Lit(m, u).mode = m /\ Lit(m, u).value = u
  BY DEF Lit
<1>2. \A m, n : [Lit(m, u) EXCEPT !.mode = n] = Lit(n, u)
  BY DEF Lit
<1>3. \A m, w : [Lit(m, u) EXCEPT !.value = w] = Lit(m, w)
  BY DEF Lit
<1>4. LiteralStep(Lit("before", u), Quote) = Lit("open", u)
  BY <1>1, <1>2, Zenon DEF LiteralStep
<1>5. LiteralStep(Lit("open", u), Quote) = Lit("closed", u)
  BY <1>1, <1>2, Zenon DEF LiteralStep
<1>6. LiteralStep(Lit("closed", u), Quote) = Lit("open", Append(u, Quote))
  BY <1>1, Zenon DEF LiteralStep, Lit
<1>7. LiteralStep(Lit("broken", u), Quote) = Lit("broken", u)
  BY <1>1, <1>2, Zenon DEF LiteralStep
<1>8. ASSUME NEW x, x # Quote
      PROVE  /\ LiteralStep(Lit("before", u), x) = Lit("broken", u)
             /\ LiteralStep(Lit("open", u), x) = Lit("open", Append(u, x))
             /\ LiteralStep(Lit("closed", u), x) = Lit("broken", u)
             /\ LiteralStep(Lit("broken", u), x) = Lit("broken", u)
  <2>1. LiteralStep(Lit("before", u), x) = Lit("broken", u)
    BY <1>1, <1>2, <1>8, Zenon DEF LiteralStep
  <2>2. LiteralStep(Lit("open", u), x) = Lit("open", Append(u, x))
    BY <1>1, <1>3, <1>8, Zenon DEF LiteralStep
  <2>3. LiteralStep(Lit("closed", u), x) = Lit("broken", u)
    BY <1>1, <1>2, <1>8, Zenon DEF LiteralStep
  <2>4. LiteralStep(Lit("broken", u), x) = Lit("broken", u)
    BY <1>1, <1>2, <1>8, Zenon DEF LiteralStep
  <2> QED
    BY <2>1, <2>2, <2>3, <2>4
<1> QED
  BY <1>4, <1>5, <1>6, <1>7, <1>8

-----------------------------------------------------------------------------
(* How PostgreSQL reads a pattern.                                          *)

Parts == Characters \cup {AnyText, AnyCharacter}
Pat(e, p) == [escaped |-> e, parts |-> p]

\* How a pattern is read, character by character.
LEMMA PatternSteps ==
  ASSUME NEW p
  PROVE  /\ \A x : PatternStep(Pat(TRUE, p), x) = Pat(FALSE, Append(p, x))
         /\ PatternStep(Pat(FALSE, p), Backslash) = Pat(TRUE, p)
         /\ PatternStep(Pat(FALSE, p), "%") = Pat(FALSE, Append(p, AnyText))
         /\ PatternStep(Pat(FALSE, p), "_")
              = Pat(FALSE, Append(p, AnyCharacter))
         /\ \A x : x # Backslash /\ x # "%" /\ x # "_" =>
              PatternStep(Pat(FALSE, p), x) = Pat(FALSE, Append(p, x))
<1>1. \A e : Pat(e, p).escaped = e /\ Pat(e, p).parts = p
  BY DEF Pat
<1>2. \A e, f : [Pat(e, p) EXCEPT !.escaped = f] = Pat(f, p)
  BY DEF Pat
<1>3. \A e, q : [Pat(e, p) EXCEPT !.parts = q] = Pat(e, q)
  BY DEF Pat
<1>4. Backslash # "%" /\ Backslash # "_" /\ "%" # "_"
  BY DEF Backslash
<1>5. ASSUME NEW x
      PROVE  PatternStep(Pat(TRUE, p), x) = Pat(FALSE, Append(p, x))
  BY <1>1, Zenon DEF PatternStep, Pat
<1>6. PatternStep(Pat(FALSE, p), Backslash) = Pat(TRUE, p)
  BY <1>1, <1>2, <1>4, Zenon DEF PatternStep
<1>7. \A q : [Pat(FALSE, p) EXCEPT !.parts = q] = Pat(FALSE, q)
  BY <1>3, Zenon
<1>8. ~ Pat(FALSE, p).escaped /\ Pat(FALSE, p).parts = p
  BY <1>1, Zenon
<1>9. PatternStep(Pat(FALSE, p), "%") = Pat(FALSE, Append(p, AnyText))
  BY <1>4, <1>7, <1>8, Zenon DEF PatternStep
<1>10. PatternStep(Pat(FALSE, p), "_") = Pat(FALSE, Append(p, AnyCharacter))
  BY <1>4, <1>7, <1>8, Zenon DEF PatternStep
<1>11. ASSUME NEW x, x # Backslash, x # "%", x # "_"
       PROVE  PatternStep(Pat(FALSE, p), x) = Pat(FALSE, Append(p, x))
  BY <1>7, <1>8, <1>11, Zenon DEF PatternStep
<1> QED
  BY <1>5, <1>6, <1>9, <1>10, <1>11

Literals ==
  [states |-> [mode : Modes, value : Texts], chars |-> Characters,
   next |-> [p \in [mode : Modes, value : Texts] \X Characters |->
               LiteralStep(p[1], p[2])]]

LEMMA LiteralsIsAutomaton ==
  /\ IsAutomaton(Literals)
  /\ Literals.states = [mode : Modes, value : Texts]
  /\ Literals.chars = Characters
  /\ \A r \in [mode : Modes, value : Texts], x \in Characters :
       Literals.next[<<r, x>>] = LiteralStep(r, x)
<1>1. ASSUME NEW r \in [mode : Modes, value : Texts], NEW x \in Characters
      PROVE  LiteralStep(r, x) \in [mode : Modes, value : Texts]
  <2>1. \A m \in Modes, u \in Texts : Lit(m, u)
          \in [mode : Modes, value : Texts]
    BY DEF Lit
  <2>2. r = Lit(r.mode, r.value) /\ r.mode \in Modes /\ r.value \in Texts
    BY DEF Lit
  <2>3. Append(r.value, x) \in Texts
    BY <2>2 DEF Texts
  <2>4. /\ "before" \in Modes /\ "open" \in Modes
        /\ "closed" \in Modes /\ "broken" \in Modes
    BY DEF Modes
  <2>5. CASE x = Quote
    <3>1. \/ LiteralStep(r, x) \in {Lit(m, r.value) : m \in Modes}
          \/ LiteralStep(r, x) = Lit("open", Append(r.value, x))
      BY <2>2, <2>4, <2>5, LiteralSteps DEF Modes
    <3> QED
      BY <2>1, <2>2, <2>3, <2>4, <3>1
  <2>6. CASE x # Quote
    <3>1. \/ LiteralStep(r, x) \in {Lit(m, r.value) : m \in Modes}
          \/ LiteralStep(r, x) = Lit("open", Append(r.value, x))
      BY <2>2, <2>4, <2>6, LiteralSteps DEF Modes
    <3> QED
      BY <2>1, <2>2, <2>3, <2>4, <3>1
  <2> QED
    BY <2>5, <2>6
<1> QED
  BY <1>1 DEF IsAutomaton, Literals

Patterns ==
  [states |-> [escaped : BOOLEAN, parts : Seq(Parts)], chars |-> Characters,
   next |-> [p \in [escaped : BOOLEAN, parts : Seq(Parts)] \X Characters |->
               PatternStep(p[1], p[2])]]

LEMMA PatternsIsAutomaton ==
  /\ IsAutomaton(Patterns)
  /\ Patterns.states = [escaped : BOOLEAN, parts : Seq(Parts)]
  /\ Patterns.chars = Characters
  /\ \A r \in [escaped : BOOLEAN, parts : Seq(Parts)], x \in Characters :
       Patterns.next[<<r, x>>] = PatternStep(r, x)
<1>1. ASSUME NEW r \in [escaped : BOOLEAN, parts : Seq(Parts)],
             NEW x \in Characters
      PROVE  PatternStep(r, x) \in [escaped : BOOLEAN, parts : Seq(Parts)]
  <2>1. \A e \in BOOLEAN, p \in Seq(Parts) :
          Pat(e, p) \in [escaped : BOOLEAN, parts : Seq(Parts)]
    BY DEF Pat
  <2>2. r = Pat(r.escaped, r.parts) /\ r.escaped \in BOOLEAN
        /\ r.parts \in Seq(Parts)
    BY DEF Pat
  <2>3. x \in Parts /\ AnyText \in Parts /\ AnyCharacter \in Parts
    BY DEF Parts
  <2>4. \A c \in Parts : Append(r.parts, c) \in Seq(Parts)
    BY <2>2
  <2>5. \/ PatternStep(r, x) = Pat(TRUE, r.parts)
        \/ \E c \in Parts : PatternStep(r, x) = Pat(FALSE, Append(r.parts, c))
    <3>1. CASE r.escaped = TRUE
      <4>1. r = Pat(TRUE, r.parts)
        BY <2>2, <3>1, Zenon
      <4>2. PatternStep(Pat(TRUE, r.parts), x) = Pat(FALSE, Append(r.parts, x))
        BY PatternSteps, Zenon
      <4>3. PatternStep(r, x) = Pat(FALSE, Append(r.parts, x))
        BY <4>1, <4>2, Zenon
      <4> QED
        BY <2>3, <4>3, Zenon
    <3>2. CASE r.escaped = FALSE
      <4>1. r = Pat(FALSE, r.parts)
        BY <2>2, <3>2, Zenon
      <4>2. \/ PatternStep(Pat(FALSE, r.parts), x) = Pat(TRUE, r.parts)
            \/ PatternStep(Pat(FALSE, r.parts), x)
                 = Pat(FALSE, Append(r.parts, AnyText))
            \/ PatternStep(Pat(FALSE, r.parts), x)
                 = Pat(FALSE, Append(r.parts, AnyCharacter))
            \/ PatternStep(Pat(FALSE, r.parts), x)
                 = Pat(FALSE, Append(r.parts, x))
        BY PatternSteps, Zenon
      <4>3. \/ PatternStep(r, x) = Pat(TRUE, r.parts)
            \/ PatternStep(r, x) = Pat(FALSE, Append(r.parts, AnyText))
            \/ PatternStep(r, x) = Pat(FALSE, Append(r.parts, AnyCharacter))
            \/ PatternStep(r, x) = Pat(FALSE, Append(r.parts, x))
        BY <4>1, <4>2, Zenon
      <4> QED
        BY <2>3, <4>3, Zenon
    <3>3. r.escaped = TRUE \/ r.escaped = FALSE
      BY <2>2
    <3> QED
      BY <3>1, <3>2, <3>3, Zenon
  <2> QED
    BY <2>1, <2>2, <2>4, <2>5, Zenon
<1> QED
  BY <1>1 DEF IsAutomaton, Patterns

\* The readers are those automata.
LEMMA ReadLiteralIsEnd ==
  ASSUME NEW v \in Texts
  PROVE  ReadLiteral(v) = End(Literals, [mode |-> "before", value |-> <<>>], v)
<1> DEFINE P(f) == f = [i \in 0..Len(v) |->
                          IF i = 0 THEN [mode |-> "before", value |-> <<>>]
                          ELSE LiteralStep(f[i - 1], v[i])]
           h == CHOOSE f : P(f)
           M == Literals
           r == [mode |-> "before", value |-> <<>>]
<1>1. ReadLiteral(v) = h[Len(v)]
  BY DEF ReadLiteral
<1>2. /\ IsAutomaton(M) /\ M.states = [mode : Modes, value : Texts]
      /\ M.chars = Characters
      /\ \A q \in [mode : Modes, value : Texts], x \in Characters :
           M.next[<<q, x>>] = LiteralStep(q, x)
  BY LiteralsIsAutomaton
<1> HIDE DEF M
<1>3. r \in M.states /\ v \in Seq(M.chars)
  BY <1>2 DEF Texts, Modes
<1> HIDE DEF r
<1>4. Len(v) \in Nat /\ \A i \in 1..Len(v) : v[i] \in Characters
  BY DEF Texts
<1>5. PICK g : IsTrace(M, r, v, g)
  BY <1>2, <1>3, TraceExists
<1>6. g \in [0..Len(v) -> M.states] /\ g[0] = r
      /\ \A i \in 1..Len(v) : g[i] = M.next[<<g[i - 1], v[i]>>]
  BY <1>5 DEF IsTrace
<1>7. ASSUME NEW i \in 1..Len(v)
      PROVE  g[i] = LiteralStep(g[i - 1], v[i])
  <2>1. g[i - 1] \in M.states
    BY <1>4, <1>6
  <2> QED
    BY <1>2, <1>4, <1>6, <2>1
<1>8. P(g)
  <2> DEFINE k == [i \in 0..Len(v) |->
                     IF i = 0 THEN r ELSE LiteralStep(g[i - 1], v[i])]
  <2>1. ASSUME NEW i \in 0..Len(v)
        PROVE  g[i] = k[i]
    <3>1. CASE i = 0
      BY <1>6, <3>1
    <3>2. CASE i # 0
      <4>1. i \in 1..Len(v)
        BY <1>4, <3>2
      <4> QED
        BY <1>7, <3>2, <4>1
    <3> QED
      BY <3>1, <3>2
  <2>2. g = k
    BY <1>6, <2>1
  <2> QED
    BY <2>2 DEF r
<1>9. P(h)
  <2> HIDE DEF P
  <2> QED
    BY <1>8
<1> HIDE DEF h
<1>10. h[0] = r
  BY <1>4, <1>9 DEF r
<1>11. ASSUME NEW i \in 1..Len(v), h[i - 1] \in M.states
       PROVE  h[i] = M.next[<<h[i - 1], v[i]>>]
  <2>1. h[i] = LiteralStep(h[i - 1], v[i])
    BY <1>4, <1>9
  <2> QED
    BY <1>2, <1>4, <1>11, <2>1
<1>12. IsAutomaton(M)
  BY <1>2
<1> HIDE DEF P
<1>13. h[Len(v)] = End(M, r, v)
  BY <1>3, <1>10, <1>11, <1>12, EndOfRecursion
<1> QED
  BY <1>1, <1>13 DEF M, r

LEMMA ReadPatternIsEnd ==
  ASSUME NEW v \in Texts
  PROVE  ReadPattern(v) = End(Patterns, [escaped |-> FALSE, parts |-> <<>>], v)
<1> DEFINE P(f) == f = [i \in 0..Len(v) |->
                          IF i = 0 THEN [escaped |-> FALSE, parts |-> <<>>]
                          ELSE PatternStep(f[i - 1], v[i])]
           h == CHOOSE f : P(f)
           M == Patterns
           r == [escaped |-> FALSE, parts |-> <<>>]
<1>1. ReadPattern(v) = h[Len(v)]
  BY DEF ReadPattern
<1>2. /\ IsAutomaton(M) /\ M.states = [escaped : BOOLEAN, parts : Seq(Parts)]
      /\ M.chars = Characters
      /\ \A q \in [escaped : BOOLEAN, parts : Seq(Parts)], x \in Characters :
           M.next[<<q, x>>] = PatternStep(q, x)
  BY PatternsIsAutomaton
<1> HIDE DEF M
<1>3. r \in M.states /\ v \in Seq(M.chars)
  BY <1>2 DEF Texts
<1> HIDE DEF r
<1>4. Len(v) \in Nat /\ \A i \in 1..Len(v) : v[i] \in Characters
  BY DEF Texts
<1>5. PICK g : IsTrace(M, r, v, g)
  BY <1>2, <1>3, TraceExists
<1>6. g \in [0..Len(v) -> M.states] /\ g[0] = r
      /\ \A i \in 1..Len(v) : g[i] = M.next[<<g[i - 1], v[i]>>]
  BY <1>5 DEF IsTrace
<1>7. ASSUME NEW i \in 1..Len(v)
      PROVE  g[i] = PatternStep(g[i - 1], v[i])
  <2>1. g[i - 1] \in M.states
    BY <1>4, <1>6
  <2> QED
    BY <1>2, <1>4, <1>6, <2>1
<1>8. P(g)
  <2> DEFINE k == [i \in 0..Len(v) |->
                     IF i = 0 THEN r ELSE PatternStep(g[i - 1], v[i])]
  <2>1. ASSUME NEW i \in 0..Len(v)
        PROVE  g[i] = k[i]
    <3>1. CASE i = 0
      BY <1>6, <3>1
    <3>2. CASE i # 0
      <4>1. i \in 1..Len(v)
        BY <1>4, <3>2
      <4> QED
        BY <1>7, <3>2, <4>1
    <3> QED
      BY <3>1, <3>2
  <2>2. g = k
    BY <1>6, <2>1
  <2> QED
    BY <2>2 DEF r
<1>9. P(h)
  <2> HIDE DEF P
  <2> QED
    BY <1>8
<1> HIDE DEF h
<1>10. h = [i \in 0..Len(v) |-> IF i
         = 0 THEN r ELSE PatternStep(h[i - 1], v[i])]
  BY <1>9, Zenon DEF r
<1>14. h[0] = r
  BY <1>4, <1>10
<1>11. ASSUME NEW i \in 1..Len(v), h[i - 1] \in M.states
       PROVE  h[i] = M.next[<<h[i - 1], v[i]>>]
  <2>1. h[i] = PatternStep(h[i - 1], v[i])
    BY <1>4, <1>10
  <2> QED
    BY <1>2, <1>4, <1>11, <2>1
<1>12. IsAutomaton(M)
  BY <1>2
<1> HIDE DEF P
<1>13. h[Len(v)] = End(M, r, v)
  BY <1>3, <1>14, <1>11, <1>12, EndOfRecursion
<1> QED
  BY <1>1, <1>13 DEF M, r


\* The text of a character in the pattern, once the literal is read.
InPattern(x) == IF x \in {Backslash, "%", "_"} THEN <<Backslash, x>> ELSE <<x>>

LEMMA LitTypes ==
  /\ \A m \in Modes, u \in Texts : Lit(m, u) \in Literals.states
  /\ \A e \in BOOLEAN, p \in Seq(Parts) : Pat(e, p) \in Patterns.states
<1>1. \A m \in Modes, u \in Texts : Lit(m, u) \in [mode : Modes, value : Texts]
  BY DEF Lit
<1>2. \A e \in BOOLEAN, p \in Seq(Parts) :
        Pat(e, p) \in [escaped : BOOLEAN, parts : Seq(Parts)]
  BY DEF Pat
<1> QED
  BY <1>1, <1>2, LiteralsIsAutomaton, PatternsIsAutomaton

LEMMA EmptyPattern == Pat(FALSE, <<>>) \in Patterns.states
<1>1. FALSE \in BOOLEAN /\ <<>> \in Seq(Parts)
  OBVIOUS
<1> QED
  BY <1>1, LitTypes, Zenon

\* One step of each, from the states they are in.
LEMMA LiteralNext ==
  ASSUME NEW u \in Texts, NEW x \in Characters
  PROVE  \A m \in Modes : Literals.next[<<Lit(m, u), x>>]
           = LiteralStep(Lit(m, u), x)
  BY LitTypes, LiteralsIsAutomaton

LEMMA PatternNext ==
  ASSUME NEW p \in Seq(Parts), NEW x \in Characters
  PROVE  \A e \in BOOLEAN : Patterns.next[<<Pat(e, p), x>>]
           = PatternStep(Pat(e, p), x)
  BY LitTypes, PatternsIsAutomaton

\* An open literal stays open over an escaped character.
LEMMA OpenLiteralReads ==
  ASSUME NEW u \in Texts, NEW x \in Characters
  PROVE  /\ InPattern(x) \in Texts
         /\ End(Literals, Lit("open", u), Escaped(x))
              = Lit("open", u \o InPattern(x))
<1> DEFINE M == Literals
           r == Lit("open", u)
<1>1. InPattern(x) \in Texts
  BY CharacterFacts DEF InPattern
<1>2. IsAutomaton(M) /\ M.chars = Characters
  BY LiteralsIsAutomaton
<1>3. r \in M.states
  BY LitTypes DEF Modes
<1>4. "open" \in Modes /\ "closed" \in Modes
  BY DEF Modes
<1>5. Quote \in Characters /\ Backslash \in Characters
  BY CharacterFacts
<1>6. Backslash # Quote
  BY DEF Backslash, Quote
<1>7. ASSUME NEW w \in Texts, NEW y \in Characters, y # Quote
      PROVE  M.next[<<Lit("open", w), y>>] = Lit("open", Append(w, y))
  <2>1. M.next[<<Lit("open", w), y>>] = LiteralStep(Lit("open", w), y)
    BY <1>4, LiteralNext
  <2>2. LiteralStep(Lit("open", w), y) = Lit("open", Append(w, y))
    BY <1>7, LiteralSteps
  <2> QED
    BY <2>1, <2>2
<1>8. M.next[<<r, Quote>>] = Lit("closed", u)
  <2>1. M.next[<<r, Quote>>] = LiteralStep(Lit("open", u), Quote)
    BY <1>4, <1>5, LiteralNext
  <2>2. LiteralStep(Lit("open", u), Quote) = Lit("closed", u)
    BY LiteralSteps
  <2> QED
    BY <2>1, <2>2
<1>9. M.next[<<Lit("closed", u), Quote>>] = Lit("open", Append(u, Quote))
  <2>1. M.next[<<Lit("closed", u), Quote>>]
          = LiteralStep(Lit("closed", u), Quote)
    BY <1>4, <1>5, LiteralNext
  <2>2. LiteralStep(Lit("closed", u), Quote) = Lit("open", Append(u, Quote))
    BY LiteralSteps
  <2> QED
    BY <2>1, <2>2
<1>10. \A y \in Characters : Append(u, y) = u \o <<y>>
  BY AppendIsConcat DEF Texts
<1> HIDE DEF M
<1>11. CASE x = Quote
  <2>1. Escaped(x) = <<Quote, Quote>>
    BY <1>11, EscapedCharacters
  <2>2. End(M, r, <<Quote, Quote>>) = M.next[<<M.next[<<r, Quote>>], Quote>>]
    BY <1>2, <1>3, <1>5, EndTwo
  <2>3. InPattern(x) = <<Quote>>
    BY <1>11 DEF InPattern, Quote, Backslash
  <2>4. Append(u, Quote) = u \o <<Quote>>
    BY <1>5, <1>10
  <2>5. End(M, r, Escaped(x)) = Lit("open", Append(u, Quote))
    BY <1>8, <1>9, <2>1, <2>2
  <2> QED
    BY <1>1, <2>3, <2>4, <2>5 DEF M
<1>12. CASE x \in {"a", Space}
  <2>1. Escaped(x) = <<x>>
    BY <1>12, EscapedCharacters
  <2>2. x # Quote /\ x # Backslash /\ x # "%" /\ x # "_"
    BY <1>12 DEF Quote, Space, Backslash
  <2>3. End(M, r, <<x>>) = M.next[<<r, x>>]
    BY <1>2, <1>3, EndOne
  <2>4. M.next[<<r, x>>] = Lit("open", Append(u, x))
    BY <1>7, <2>2
  <2>5. InPattern(x) = <<x>>
    BY <2>2 DEF InPattern
  <2>6. Append(u, x) = u \o <<x>>
    BY <1>10
  <2>7. End(M, r, Escaped(x)) = Lit("open", Append(u, x))
    BY <2>1, <2>3, <2>4
  <2> QED
    BY <1>1, <2>5, <2>6, <2>7 DEF M
<1>13. CASE x \in {Backslash, "%", "_"}
  <2>1. Escaped(x) = <<Backslash, x>>
    BY <1>13, EscapedCharacters
  <2>2. x # Quote
    BY <1>13 DEF Quote, Backslash
  <2>3. End(M, r, <<Backslash, x>>) = M.next[<<M.next[<<r, Backslash>>], x>>]
    BY <1>2, <1>3, <1>5, EndTwo
  <2>4. M.next[<<r, Backslash>>] = Lit("open", Append(u, Backslash))
    BY <1>5, <1>6, <1>7
  <2>5. Append(u, Backslash) \in Texts
    BY <1>5 DEF Texts
  <2>6. M.next[<<Lit("open", Append(u, Backslash)), x>>]
          = Lit("open", Append(Append(u, Backslash), x))
    BY <1>7, <2>2, <2>5
  <2>7. InPattern(x) = <<Backslash, x>>
    BY <1>13 DEF InPattern
  <2>8. Append(Append(u, Backslash), x) = u \o <<Backslash, x>>
    BY <1>5 DEF Texts
  <2>9. End(M, r, Escaped(x)) = Lit("open", Append(Append(u, Backslash), x))
    BY <2>1, <2>3, <2>4, <2>6
  <2> QED
    BY <1>1, <2>7, <2>8, <2>9 DEF M
<1>14. x = Quote \/ x \in {"a", Space} \/ x \in {Backslash, "%", "_"}
  BY DEF Characters
<1> QED
  BY <1>11, <1>12, <1>13, <1>14

\* What it then holds of the character is the character itself.
LEMMA PatternReads ==
  ASSUME NEW p \in Seq(Parts), NEW x \in Characters
  PROVE  End(Patterns, Pat(FALSE, p), InPattern(x)) = Pat(FALSE, Append(p, x))
<1> DEFINE M == Patterns
           r == Pat(FALSE, p)
<1>1. IsAutomaton(M) /\ M.chars = Characters
  BY PatternsIsAutomaton
<1>2. r \in M.states
  BY LitTypes
<1>3. Backslash \in Characters
  BY CharacterFacts
<1>4. ASSUME NEW y \in Characters
      PROVE  M.next[<<Pat(TRUE, p), y>>] = Pat(FALSE, Append(p, y))
  <2>1. M.next[<<Pat(TRUE, p), y>>] = PatternStep(Pat(TRUE, p), y)
    BY PatternNext
  <2>2. PatternStep(Pat(TRUE, p), y) = Pat(FALSE, Append(p, y))
    BY PatternSteps, Zenon
  <2> QED
    BY <2>1, <2>2, Zenon
<1>5. M.next[<<r, Backslash>>] = Pat(TRUE, p)
  <2>1. M.next[<<Pat(FALSE, p), Backslash>>]
          = PatternStep(Pat(FALSE, p), Backslash)
    BY <1>3, PatternNext
  <2>2. PatternStep(Pat(FALSE, p), Backslash) = Pat(TRUE, p)
    BY PatternSteps, Zenon
  <2> QED
    BY <2>1, <2>2, Zenon
<1>6. ASSUME x # Backslash, x # "%", x # "_"
      PROVE  M.next[<<r, x>>] = Pat(FALSE, Append(p, x))
  <2>1. M.next[<<Pat(FALSE, p), x>>] = PatternStep(Pat(FALSE, p), x)
    BY PatternNext
  <2>2. PatternStep(Pat(FALSE, p), x) = Pat(FALSE, Append(p, x))
    BY <1>6, PatternSteps, Zenon
  <2> QED
    BY <2>1, <2>2, Zenon
<1> HIDE DEF M
<1>7. CASE x \in {Backslash, "%", "_"}
  <2>1. InPattern(x) = <<Backslash, x>>
    BY <1>7 DEF InPattern
  <2> HIDE DEF r
  <2>2. End(M, r, <<Backslash, x>>) = M.next[<<M.next[<<r, Backslash>>], x>>]
    BY <1>1, <1>2, <1>3, EndTwo
  <2> QED
    BY <1>4, <1>5, <2>1, <2>2, Zenon DEF M, r
<1>8. CASE x \notin {Backslash, "%", "_"}
  <2>1. InPattern(x) = <<x>>
    BY <1>8 DEF InPattern
  <2> HIDE DEF r
  <2>2. End(M, r, <<x>>) = M.next[<<r, x>>]
    BY <1>1, <1>2, EndOne
  <2>3. x # Backslash /\ x # "%" /\ x # "_"
    BY <1>8
  <2> QED
    BY <1>6, <2>1, <2>2, <2>3, Zenon DEF M, r
<1> QED
  BY <1>7, <1>8

\* So the pattern in an open literal matches the text, as typed.
LEMMA EscapedReads ==
  ASSUME NEW w \in Texts
  PROVE  \E u \in Texts :
           /\ End(Literals, Lit("open", <<"%">>), escapeIlikeLiteral(w))
                = Lit("open", u)
           /\ End(Patterns, Pat(FALSE, <<>>), u) = Pat(FALSE, <<AnyText>> \o w)
<1> DEFINE L == Literals
           M == Patterns
           l0 == Lit("open", <<"%">>)
           p0 == Pat(FALSE, <<>>)
           After(u, p) == End(M, p0, u) = Pat(FALSE, p)
           A == {v \in Texts : \E u \in Texts :
                   /\ End(L, l0, escapeIlikeLiteral(v)) = Lit("open", u)
                   /\ After(u, <<AnyText>> \o v)}
<1>1. /\ IsAutomaton(L) /\ L.chars = Characters
      /\ IsAutomaton(M) /\ M.chars = Characters
  BY LiteralsIsAutomaton, PatternsIsAutomaton
<1>2. <<"%">> \in Texts /\ "%" \in Characters /\ "open" \in Modes
  BY CharacterFacts DEF Modes
<1>3. l0 \in L.states /\ p0 \in M.states
  BY <1>2, LitTypes, EmptyPattern
<1>4. ASSUME NEW v \in Texts
      PROVE  <<AnyText>> \o v \in Seq(Parts)
  BY DEF Texts, Parts
<1>5. <<>> \in A
  <2>1. escapeIlikeLiteral(<<>>) = <<>>
    <3>1. \A x, y \in Characters : <<x, y>> \in Texts
      BY CharacterFacts
    <3>2. \A x, y \in Characters : \A c : replaceAll(<<>>, c, <<x, y>>) = <<>>
      BY <3>1, ReplaceAllEmpty
    <3>3. Quote \in Characters /\ Backslash \in Characters
          /\ "%" \in Characters /\ "_" \in Characters
      BY CharacterFacts
    <3> QED
      BY <3>2, <3>3 DEF escapeIlikeLiteral, escapeSearchLiteral
  <2>2. End(L, l0, <<>>) = l0
    BY <1>1, <1>3, EndEmpty
  <2>3. After(<<"%">>, <<AnyText>>)
    <3>1. End(M, p0, <<"%">>) = M.next[<<p0, "%">>]
      <4> HIDE DEF M, p0
      <4> QED
        BY <1>1, <1>2, <1>3, EndOne
    <3>2. M.next[<<p0, "%">>] = PatternStep(p0, "%")
      <4>1. <<>> \in Seq(Parts)
        OBVIOUS
      <4> QED
        BY <1>2, <4>1, PatternNext
    <3>3. PatternStep(Pat(FALSE, <<>>), "%") = Pat(FALSE, Append(<<>>, AnyText))
      BY PatternSteps, Zenon
    <3>4. Append(<<>>, AnyText) = <<AnyText>>
      OBVIOUS
    <3> QED
      BY <3>1, <3>2, <3>3, <3>4, Zenon
  <2>4. <<AnyText>> \o <<>> = <<AnyText>> /\ <<>> \in Texts
    BY DEF Texts
  <2> HIDE DEF After, L
  <2> QED
    BY <1>2, <2>1, <2>2, <2>3, <2>4
<1>6. ASSUME NEW v \in Seq(Characters), NEW x \in Characters, v \in A
      PROVE  Append(v, x) \in A
  <2>1. v \in Texts /\ Append(v, x) \in Texts
    BY DEF Texts
  <2>2. PICK u \in Texts : /\ End(L, l0, escapeIlikeLiteral(v)) = Lit("open", u)
                           /\ After(u, <<AnyText>> \o v)
    BY <1>6
  <2>3. /\ escapeIlikeLiteral(v) \in Texts
        /\ Escaped(x) \in Texts
        /\ escapeIlikeLiteral(Append(v, x))
             = escapeIlikeLiteral(v) \o Escaped(x)
    BY <2>1, EscapeAppend
  <2>4. InPattern(x) \in Texts
        /\ End(L, Lit("open", u), Escaped(x)) = Lit("open", u \o InPattern(x))
    BY OpenLiteralReads
  <2>5. End(L, l0, escapeIlikeLiteral(Append(v, x)))
          = Lit("open", u \o InPattern(x))
    <3> HIDE DEF L, l0
    <3>1. escapeIlikeLiteral(v) \in Seq(L.chars) /\ Escaped(x) \in Seq(L.chars)
      BY <1>1, <2>3 DEF Texts
    <3>2. End(L, l0, escapeIlikeLiteral(v) \o Escaped(x))
            = End(L, End(L, l0, escapeIlikeLiteral(v)), Escaped(x))
      BY <1>1, <1>3, <3>1, EndConcat
    <3> QED
      BY <2>2, <2>3, <2>4, <3>2
  <2>6. u \o InPattern(x) \in Texts
    BY <2>4 DEF Texts
  <2>7. <<AnyText>> \o Append(v, x) = Append(<<AnyText>> \o v, x)
    <3>1. <<AnyText>> \in Seq(Parts) /\ v \in Seq(Parts) /\ x \in Parts
      BY DEF Parts
    <3> QED
      BY <3>1
  <2>8. After(u \o InPattern(x), Append(<<AnyText>> \o v, x))
    <3>1. End(M, Pat(FALSE, <<AnyText>> \o v), InPattern(x))
            = Pat(FALSE, Append(<<AnyText>> \o v, x))
      BY <1>4, <2>1, PatternReads
    <3>2. End(M, p0, u) = Pat(FALSE, <<AnyText>> \o v)
      BY <2>2
    <3>3. End(M, p0, u \o InPattern(x)) = End(M, End(M, p0, u), InPattern(x))
      <4> HIDE DEF M, p0
      <4>1. u \in Seq(M.chars) /\ InPattern(x) \in Seq(M.chars)
        BY <1>1, <2>4 DEF Texts
      <4> QED
        BY <1>1, <1>3, <4>1, EndConcat
    <3> QED
      BY <3>1, <3>2, <3>3, Zenon
  <2> HIDE DEF After, L, l0
  <2> QED
    BY <2>1, <2>5, <2>6, <2>7, <2>8
<1>7. Seq(Characters) \subseteq A
  <2> HIDE DEF A
  <2> QED
    BY <1>5, <1>6, TextInduction
<1>8. w \in A
  <2> HIDE DEF A
  <2> QED
    BY <1>7 DEF Texts
<1> QED
  BY <1>8

\* And the whole search finds what contains the text.
LEMMA SearchReads ==
  ASSUME NEW w \in Texts
  PROVE  LET term == ReadLiteral(<<Quote, "%">> \o escapeIlikeLiteral(w)
           \o <<"%", Quote>>)
             pattern == ReadPattern(term.value)
         IN /\ term.mode = "closed" /\ ~pattern.escaped
            /\ pattern.parts = <<AnyText>> \o w \o <<AnyText>>
<1> DEFINE L == Literals
           M == Patterns
           l0 == Lit("before", <<>>)
           p0 == Pat(FALSE, <<>>)
           esc == escapeIlikeLiteral(w)
           line == <<Quote, "%">> \o esc \o <<"%", Quote>>
<1>1. /\ IsAutomaton(L) /\ L.chars = Characters
      /\ IsAutomaton(M) /\ M.chars = Characters
  BY LiteralsIsAutomaton, PatternsIsAutomaton
<1>2. /\ "%" \in Characters /\ Quote \in Characters
      /\ "before" \in Modes /\ "open" \in Modes /\ "closed" \in Modes
      /\ <<>> \in Texts /\ <<"%">> \in Texts /\ "%" # Quote
  <2>1. <<>> \in Texts
    BY DEF Texts
  <2>2. "%" # Quote
    BY DEF Quote
  <2> QED
    BY <2>1, <2>2, CharacterFacts DEF Modes
<1>3. /\ l0 \in L.states /\ p0 \in M.states
      /\ Lit("open", <<>>) \in L.states /\ Lit("open", <<"%">>) \in L.states
  BY <1>2, LitTypes, EmptyPattern
<1>4. PICK u \in Texts : /\ End(L, Lit("open", <<"%">>), esc) = Lit("open", u)
                         /\ End(M, p0, u) = Pat(FALSE, <<AnyText>> \o w)
  BY EscapedReads
<1>5. esc \in Texts
  <2>1. \A x, y \in Characters : <<x, y>> \in Texts
    BY CharacterFacts
  <2>2. Quote \in Characters /\ Backslash \in Characters
        /\ "%" \in Characters /\ "_" \in Characters
    BY CharacterFacts
  <2>3. \A v \in Texts : \A x, y
          \in Characters : \A c : replaceAll(v, c, <<x, y>>) \in Texts
    BY <2>1, ReplaceAllType
  <2> QED
    BY <2>2, <2>3 DEF escapeIlikeLiteral, escapeSearchLiteral
<1>6. <<Quote, "%">> \in Texts /\ <<"%", Quote>> \in Texts
      /\ <<Quote, "%">> \o esc \in Texts /\ line \in Texts
  <2>1. <<Quote, "%">> \in Texts /\ <<"%", Quote>> \in Texts
    BY <1>2, CharacterFacts
  <2> HIDE DEF esc
  <2> QED
    BY <1>5, <2>1 DEF Texts
\* The literal is open after the first wildcard.
<1>7. End(L, l0, <<Quote, "%">>) = Lit("open", <<"%">>)
  <2>1. L.next[<<l0, Quote>>] = Lit("open", <<>>)
    <3>1. L.next[<<Lit("before", <<>>), Quote>>]
            = LiteralStep(Lit("before", <<>>), Quote)
      BY <1>2, LiteralNext
    <3>2. LiteralStep(Lit("before", <<>>), Quote) = Lit("open", <<>>)
      BY LiteralSteps
    <3> QED
      BY <3>1, <3>2
  <2>2. L.next[<<Lit("open", <<>>), "%">>] = Lit("open", <<"%">>)
    <3>1. L.next[<<Lit("open", <<>>), "%">>]
            = LiteralStep(Lit("open", <<>>), "%")
      BY <1>2, LiteralNext
    <3>2. LiteralStep(Lit("open", <<>>), "%") = Lit("open", Append(<<>>, "%"))
      BY <1>2, LiteralSteps
    <3>3. Append(<<>>, "%") = <<"%">>
      OBVIOUS
    <3> QED
      BY <3>1, <3>2, <3>3
  <2> HIDE DEF L, l0
  <2>3. End(L, l0, <<Quote, "%">>) = L.next[<<L.next[<<l0, Quote>>], "%">>]
    BY <1>1, <1>2, <1>3, EndTwo
  <2> QED
    BY <2>1, <2>2, <2>3
\* And closed by the last quote.
<1>8. Append(u, "%") \in Texts
  BY <1>2 DEF Texts
<1>9. End(L, Lit("open", u), <<"%", Quote>>) = Lit("closed", Append(u, "%"))
  <2>1. L.next[<<Lit("open", u), "%">>] = Lit("open", Append(u, "%"))
    <3>1. L.next[<<Lit("open", u), "%">>] = LiteralStep(Lit("open", u), "%")
      BY <1>2, LiteralNext
    <3>2. LiteralStep(Lit("open", u), "%") = Lit("open", Append(u, "%"))
      BY <1>2, LiteralSteps
    <3> QED
      BY <3>1, <3>2
  <2>2. L.next[<<Lit("open", Append(u, "%")), Quote>>]
          = Lit("closed", Append(u, "%"))
    <3>1. L.next[<<Lit("open", Append(u, "%")), Quote>>]
            = LiteralStep(Lit("open", Append(u, "%")), Quote)
      BY <1>2, <1>8, LiteralNext
    <3>2. LiteralStep(Lit("open", Append(u, "%")), Quote)
            = Lit("closed", Append(u, "%"))
      BY LiteralSteps
    <3> QED
      BY <3>1, <3>2
  <2>3. Lit("open", u) \in L.states
    BY <1>2, LitTypes
  <2> HIDE DEF L
  <2>4. End(L, Lit("open", u), <<"%", Quote>>)
          = L.next[<<L.next[<<Lit("open", u), "%">>], Quote>>]
    BY <1>1, <1>2, <2>3, EndTwo
  <2> QED
    BY <2>1, <2>2, <2>4
<1>10. ReadLiteral(line) = Lit("closed", Append(u, "%"))
  <2>1. ReadLiteral(line) = End(L, l0, line)
    BY <1>6, ReadLiteralIsEnd DEF Lit
  <2> HIDE DEF L, l0, esc
  <2>2. /\ <<Quote, "%">> \in Seq(L.chars) /\ esc \in Seq(L.chars)
        /\ <<Quote, "%">> \o esc \in Seq(L.chars) /\ <<"%", Quote>>
             \in Seq(L.chars)
    BY <1>1, <1>5, <1>6 DEF Texts
  <2>3. End(L, l0, <<Quote, "%">> \o esc)
          = End(L, End(L, l0, <<Quote, "%">>), esc)
    BY <1>1, <1>3, <2>2, EndConcat
  <2>4. End(L, l0, line)
          = End(L, End(L, l0, <<Quote, "%">> \o esc), <<"%", Quote>>)
    BY <1>1, <1>3, <2>2, EndConcat
  <2> QED
    BY <1>4, <1>7, <1>9, <2>1, <2>3, <2>4
<1>11. Lit("closed", Append(u, "%")).mode = "closed"
       /\ Lit("closed", Append(u, "%")).value = Append(u, "%")
  BY DEF Lit
\* The pattern of its value ends with the other wildcard.
<1>12. <<AnyText>> \o w \in Seq(Parts)
  BY DEF Texts, Parts
<1>13. ReadPattern(Append(u, "%"))
         = Pat(FALSE, Append(<<AnyText>> \o w, AnyText))
  <2>1. ReadPattern(Append(u, "%")) = End(M, p0, Append(u, "%"))
    BY <1>8, ReadPatternIsEnd, Zenon DEF Pat
  <2>2. End(M, p0, Append(u, "%")) = M.next[<<End(M, p0, u), "%">>]
    <3> HIDE DEF M, p0
    <3>1. u \in Seq(M.chars) /\ "%" \in M.chars
      BY <1>1, <1>2 DEF Texts
    <3> QED
      BY <1>1, <1>3, <3>1, EndAppend
  <2>3. M.next[<<Pat(FALSE, <<AnyText>> \o w), "%">>]
          = PatternStep(Pat(FALSE, <<AnyText>> \o w), "%")
    BY <1>2, <1>12, PatternNext
  <2>4. PatternStep(Pat(FALSE, <<AnyText>> \o w), "%")
          = Pat(FALSE, Append(<<AnyText>> \o w, AnyText))
    BY PatternSteps, Zenon
  <2> QED
    BY <1>4, <2>1, <2>2, <2>3, <2>4, Zenon
<1>14. \A p : ~ Pat(FALSE, p).escaped /\ Pat(FALSE, p).parts = p
  <2>1. \A p, e : Pat(e, p).escaped = e /\ Pat(e, p).parts = p
    BY DEF Pat
  <2> QED
    BY <2>1, Zenon
<1>15. Append(<<AnyText>> \o w, AnyText) = <<AnyText>> \o w \o <<AnyText>>
  <2>1. AnyText \in Parts
    BY DEF Parts
  <2> QED
    BY <1>12, <2>1, AppendIsConcat
<1>16. ~ ReadPattern(ReadLiteral(line).value).escaped
       /\ ReadPattern(ReadLiteral(line).value).parts
            = <<AnyText>> \o w \o <<AnyText>>
  BY <1>10, <1>11, <1>13, <1>14, <1>15, Zenon
<1> QED
  BY <1>10, <1>11, <1>16

\* An open identifier holds the characters written to it.
LEMMA IdentifierLiteralReads ==
  ASSUME NEW v \in Texts
  PROVE  End(Literals, Lit("open", <<>>), escapeSearchLiteral(v))
           = Lit("open", v)
<1> DEFINE L == Literals
           l0 == Lit("open", <<>>)
           Q == <<Quote, Quote>>
           A == {w \in Texts : End(L, l0, escapeSearchLiteral(w))
                  = Lit("open", w)}
<1>1. IsAutomaton(L) /\ L.chars = Characters
  BY LiteralsIsAutomaton
<1>2. <<>> \in Texts /\ "open" \in Modes /\ "closed" \in Modes
  BY DEF Texts, Modes
<1>3. l0 \in L.states
  BY <1>2, LitTypes
<1>4. Q \in Texts /\ Quote \in Characters
  BY CharacterFacts
<1>5. <<>> \in A
  <2>1. escapeSearchLiteral(<<>>) = <<>>
    BY <1>4, ReplaceAllEmpty DEF escapeSearchLiteral
  <2>2. End(L, l0, <<>>) = l0
    BY <1>1, <1>3, EndEmpty
  <2> HIDE DEF L
  <2> QED
    BY <1>2, <2>1, <2>2
<1>6. ASSUME NEW w \in Seq(Characters), NEW x \in Characters, w \in A
      PROVE  Append(w, x) \in A
  <2>1. w \in Texts /\ Append(w, x) \in Texts
    BY DEF Texts
  <2>2. escapeSearchLiteral(Append(w, x))
          = escapeSearchLiteral(w) \o Put(Quote, Q, x)
    BY <1>4, <2>1, ReplaceAllAppend DEF escapeSearchLiteral
  <2>3. escapeSearchLiteral(w) \in Texts /\ Put(Quote, Q, x) \in Texts
    BY <1>4, <2>1, ReplaceAllType, PutType DEF escapeSearchLiteral
  <2>4. End(L, l0, escapeSearchLiteral(w)) = Lit("open", w)
    BY <1>6
  <2>5. End(L, l0, escapeSearchLiteral(w) \o Put(Quote, Q, x))
          = End(L, Lit("open", w), Put(Quote, Q, x))
    <3> HIDE DEF L, l0
    <3>1. escapeSearchLiteral(w) \in Seq(L.chars) /\ Put(Quote, Q, x)
            \in Seq(L.chars)
      BY <1>1, <2>3 DEF Texts
    <3>2. End(L, l0, escapeSearchLiteral(w) \o Put(Quote, Q, x))
            = End(L, End(L, l0, escapeSearchLiteral(w)), Put(Quote, Q, x))
      BY <1>1, <1>3, <3>1, EndConcat
    <3> QED
      BY <2>4, <3>2
  <2>6. Lit("open", w) \in L.states /\ Lit("closed", w) \in L.states
    BY <1>2, <2>1, LitTypes
  <2>7. End(L, Lit("open", w), Put(Quote, Q, x)) = Lit("open", Append(w, x))
    <3>1. CASE x = Quote
      <4>1. L.next[<<Lit("open", w), Quote>>] = Lit("closed", w)
        <5>1. L.next[<<Lit("open", w), Quote>>]
                = LiteralStep(Lit("open", w), Quote)
          BY <1>2, <1>4, <2>1, LiteralNext
        <5>2. LiteralStep(Lit("open", w), Quote) = Lit("closed", w)
          BY LiteralSteps
        <5> QED
          BY <5>1, <5>2
      <4>2. L.next[<<Lit("closed", w), Quote>>] = Lit("open", Append(w, Quote))
        <5>1. L.next[<<Lit("closed", w), Quote>>]
                = LiteralStep(Lit("closed", w), Quote)
          BY <1>2, <1>4, <2>1, LiteralNext
        <5>2. LiteralStep(Lit("closed", w), Quote)
                = Lit("open", Append(w, Quote))
          BY LiteralSteps
        <5> QED
          BY <5>1, <5>2
      <4>3. Put(Quote, Q, x) = <<Quote, Quote>>
        BY <3>1 DEF Put
      <4> HIDE DEF L
      <4>4. End(L, Lit("open", w), <<Quote, Quote>>)
              = L.next[<<L.next[<<Lit("open", w), Quote>>], Quote>>]
        BY <1>1, <1>4, <2>6, EndTwo
      <4> QED
        BY <3>1, <4>1, <4>2, <4>3, <4>4
    <3>2. CASE x # Quote
      <4>1. L.next[<<Lit("open", w), x>>] = Lit("open", Append(w, x))
        <5>1. L.next[<<Lit("open", w), x>>] = LiteralStep(Lit("open", w), x)
          BY <1>2, <2>1, LiteralNext
        <5>2. LiteralStep(Lit("open", w), x) = Lit("open", Append(w, x))
          BY <3>2, LiteralSteps
        <5> QED
          BY <5>1, <5>2
      <4>2. Put(Quote, Q, x) = <<x>>
        BY <3>2 DEF Put
      <4> HIDE DEF L
      <4>3. End(L, Lit("open", w), <<x>>) = L.next[<<Lit("open", w), x>>]
        BY <1>1, <2>6, EndOne
      <4> QED
        BY <4>1, <4>2, <4>3
    <3> QED
      BY <3>1, <3>2
  <2> HIDE DEF L, l0
  <2> QED
    BY <2>1, <2>2, <2>5, <2>7
<1>7. Seq(Characters) \subseteq A
  <2> HIDE DEF A
  <2> QED
    BY <1>5, <1>6, TextInduction
<1>8. v \in A
  <2> HIDE DEF A
  <2> QED
    BY <1>7 DEF Texts
<1> QED
  BY <1>8

\* A quoted identifier names itself.
LEMMA IdentifierReads ==
  ASSUME NEW v \in Texts
  PROVE  ReadLiteral(identifierTerm(v)) = Lit("closed", v)
<1> DEFINE L == Literals
           l0 == Lit("before", <<>>)
           esc == escapeSearchLiteral(v)
           line == <<Quote>> \o esc \o <<Quote>>
<1>1. IsAutomaton(L) /\ L.chars = Characters
  BY LiteralsIsAutomaton
<1>2. /\ Quote \in Characters /\ "before" \in Modes /\ "open" \in Modes
  BY CharacterFacts DEF Modes
<1>3. <<>> \in Texts
  BY DEF Texts
<1>4. /\ l0 \in L.states /\ Lit("open", <<>>) \in L.states
      /\ Lit("open", v) \in L.states
  BY <1>2, <1>3, LitTypes
<1>5. <<Quote>> \in Texts /\ esc \in Texts
  <2>1. <<Quote>> \in Texts /\ <<Quote, Quote>> \in Texts
    BY <1>2, CharacterFacts
  <2> QED
    BY <2>1, ReplaceAllType DEF escapeSearchLiteral
<1>6. L.next[<<l0, Quote>>] = Lit("open", <<>>)
  <2>1. L.next[<<l0, Quote>>] = LiteralStep(Lit("before", <<>>), Quote)
    BY <1>2, <1>3, LiteralNext
  <2>2. LiteralStep(Lit("before", <<>>), Quote) = Lit("open", <<>>)
    BY LiteralSteps
  <2> QED
    BY <2>1, <2>2
<1>7. L.next[<<Lit("open", v), Quote>>] = Lit("closed", v)
  <2>1. L.next[<<Lit("open", v), Quote>>] = LiteralStep(Lit("open", v), Quote)
    BY <1>2, LiteralNext
  <2>2. LiteralStep(Lit("open", v), Quote) = Lit("closed", v)
    BY LiteralSteps
  <2> QED
    BY <2>1, <2>2
<1>8. End(L, Lit("open", <<>>), esc) = Lit("open", v)
  BY IdentifierLiteralReads
<1>9. identifierTerm(v) = line
  BY DEF identifierTerm
<1>10. line \in Texts
  <2> HIDE DEF esc
  <2> QED
    BY <1>5 DEF Texts
<1>11. ReadLiteral(line) = End(L, l0, line)
  BY <1>10, ReadLiteralIsEnd DEF Lit
<1> HIDE DEF L, l0, esc
<1>12. /\ <<Quote>> \in Seq(L.chars) /\ esc \in Seq(L.chars)
       /\ <<Quote>> \o esc \in Seq(L.chars)
  BY <1>1, <1>5 DEF Texts
<1>13. End(L, l0, <<Quote>> \o esc) = End(L, End(L, l0, <<Quote>>), esc)
  BY <1>1, <1>4, <1>12, EndConcat
<1>14. End(L, l0, line) = End(L, End(L, l0, <<Quote>> \o esc), <<Quote>>)
  BY <1>1, <1>4, <1>12, EndConcat
<1>15. End(L, l0, <<Quote>>) = Lit("open", <<>>)
  BY <1>1, <1>2, <1>4, <1>6, EndOne
<1>16. End(L, Lit("open", v), <<Quote>>) = Lit("closed", v)
  BY <1>1, <1>2, <1>4, <1>7, EndOne
<1> QED
  BY <1>8, <1>9, <1>11, <1>13, <1>14, <1>15, <1>16

\* What is left of a text without the space around it is a text.
LEMMA TrimType ==
  ASSUME NEW v \in Texts
  PROVE  trim(v) \in Texts
<1> DEFINE kept == {i \in DOMAIN v : v[i] # Space}
           lo == CHOOSE i \in kept : \A j \in kept : i <= j
           hi == CHOOSE i \in kept : \A j \in kept : j <= i
<1>0. Len(v) \in Nat /\ DOMAIN v = 1..Len(v)
  BY DEF Texts
<1>1. CASE kept = {}
  <2>1. trim(v) = <<>>
    BY <1>1 DEF trim
  <2> QED
    BY <2>1 DEF Texts
<1>2. CASE kept # {}
  <2>1. kept \subseteq 1..Len(v)
    BY <1>0
  <2>2. trim(v) = SubSeq(v, lo, hi)
    BY <1>2 DEF trim
  <2> HIDE DEF kept
  <2>3. lo \in kept
    <3>1. kept \subseteq Nat
      BY <2>1
    <3>2. \E i \in kept : \A j \in kept : i <= j
      BY <1>2, <3>1, LeastNumber
    <3> QED
      BY <3>2
  <2>4. hi \in kept
    <3>1. DEFINE T == {n \in Nat : \A j \in kept : j <= n}
    <3>2. Len(v) \in T
      BY <1>0, <2>1
    <3>3. PICK n \in T : \A m \in T : n <= m
      <4>1. T \subseteq Nat /\ T # {}
        BY <3>2
      <4> HIDE DEF T
      <4> QED
        BY <4>1, LeastNumber
    <3>4. n \in kept
      <4> SUFFICES ASSUME n \notin kept
                   PROVE  FALSE
        OBVIOUS
      <4>1. \A j \in kept : j <= n /\ j # n /\ j \in Nat /\ 1 <= j
        BY <1>0, <2>1, <3>3
      <4>2. n \in Nat /\ n # 0
        BY <1>2, <3>3, <4>1
      <4>3. n - 1 \in T
        BY <4>1, <4>2
      <4> QED
        BY <3>3, <4>2, <4>3
    <3>5. \A j \in kept : j <= n
      BY <3>3
    <3> QED
      BY <3>4, <3>5
  <2> HIDE DEF lo, hi
  <2>5. lo \in 1..Len(v) /\ hi \in 1..Len(v)
    BY <2>1, <2>3, <2>4
  <2>6. SubSeq(v, lo, hi) \in Texts
    BY <1>0, <2>5 DEF Texts
  <2> QED
    BY <2>2, <2>6
<1> QED
  BY <1>1, <1>2

\* Every text, however long and whatever quotes, wildcards and backslashes it
\* holds: the search that the adapter writes for it finds exactly what contains
\* the text, and the identifier it writes names it (escapeIlikeLiteral and its
\* order of replacements, escapeSearchLiteral, both terms' quotes).
THEOREM TextsReadAsTyped ==
  \A v \in Seq(Characters) : ReadsAsTyped(v)
<1> SUFFICES ASSUME NEW v \in Texts
             PROVE  ReadsAsTyped(v)
  BY DEF Texts
<1>1. trim(v) \in Texts
  BY TrimType
<1>2. trim(v) # <<>> =>
        gatewaySearch(v)
          = <<Quote, "%">> \o escapeIlikeLiteral(trim(v)) \o <<"%", Quote>>
  BY DEF gatewaySearch
<1>3. trim(v) # <<>> =>
        LET term == ReadLiteral(gatewaySearch(v))
            pattern == ReadPattern(term.value)
        IN /\ term.mode = "closed" /\ ~pattern.escaped
           /\ pattern.parts = <<AnyText>> \o trim(v) \o <<AnyText>>
  BY <1>1, <1>2, SearchReads
<1>4. ReadLiteral(identifierTerm(v)).mode = "closed"
      /\ ReadLiteral(identifierTerm(v)).value = v
  BY IdentifierReads DEF Lit
<1> QED
  BY <1>3, <1>4, Zenon DEF ReadsAsTyped

\* Without a search, and for the short texts of the runs.
LEMMA NothingTyped == gatewaySearch(<<>>) = NoSearch
<1>1. DOMAIN <<>> = {}
  OBVIOUS
<1>2. {i \in DOMAIN <<>> : <<>>[i] # Space} = {}
  BY <1>1, Zenon
<1>3. trim(<<>>) = <<>>
  BY <1>2, Zenon DEF trim
<1> QED
  BY <1>3, Zenon DEF gatewaySearch

LEMMA ShortTexts == SeqOf(Characters, MaxText) \subseteq Seq(Characters)
<1>1. ASSUME NEW m \in Nat, NEW v \in [1..m -> Characters]
      PROVE  v \in Seq(Characters)
  OBVIOUS
<1>2. \A m \in 0..MaxText : m \in Nat
  BY DEF MaxText
<1>3. \A m \in 0..MaxText : [1..m -> Characters] \subseteq Seq(Characters)
  BY <1>1, <1>2, Zenon
<1> QED
  BY <1>3, Zenon DEF SeqOf

LEMMA EverySearchReadsAsTyped ==
  ASSUME NEW s \in {"", "text"}
  PROVE  SearchesReadAsTyped[s]
  BY NothingTyped, ShortTexts, TextsReadAsTyped, Zenon DEF SearchesReadAsTyped

-----------------------------------------------------------------------------
(* The state of the tables in the URL.                                      *)

LEMMA ValuesOfTexts ==
  /\ Value("1") = 1 /\ Value("2") = 2 /\ Value("20") = 20
  /\ Value("50") = 50 /\ Value("500") = 500
  /\ Value(Absent) = 0
  BY Zenon DEF Value, Absent

LEMMA TextsOfNumbers ==
  Text(1) = "1" /\ Text(2) = "2" /\ Text(20) = "20" /\ Text(50) = "50"
  BY ValuesOfTexts DEF Text, Decimal

\* Each parameter of the gateways table is read as it was written.
LEMMA GatewayParameters ==
  /\ \A p \in {1, 2, 50} :
       pageFrom(IF p = GatewayDefaults.page THEN Absent ELSE Text(p)) = p
  /\ \A n \in {20, 50} :
       sizeFrom(IF n = GatewayDefaults.size THEN Absent ELSE Text(n)) = n
  /\ \A t \in GatewaySorts :
       sortFieldFrom(IF t = GatewayDefaults.sort THEN Absent ELSE t) = t
  /\ \A t \in {"asc", "desc"} :
       sortDirectionFrom(IF t = GatewayDefaults.direction THEN Absent ELSE t) = t
<1>1. GatewayDefaults.page = 1 /\ GatewayDefaults.size = 20
      /\ GatewayDefaults.sort = "name" /\ GatewayDefaults.direction = "asc"
  BY DEF GatewayDefaults
<1>2. Absent = "absent"
  BY DEF Absent
<1>3. \A p \in {1, 2, 50} :
        pageFrom(IF p = 1 THEN Absent ELSE Text(p)) = p
  BY <1>1, <1>2, ValuesOfTexts, TextsOfNumbers DEF pageFrom, Decimal
<1>4. \A n \in {20, 50} :
        sizeFrom(IF n = 20 THEN Absent ELSE Text(n)) = n
  BY <1>1, <1>2, ValuesOfTexts, TextsOfNumbers DEF sizeFrom, Decimal, Sizes
<1>5. \A t \in GatewaySorts : sortFieldFrom(IF t = "name" THEN Absent ELSE t) = t
  BY <1>1, <1>2 DEF sortFieldFrom, GatewaySorts
<1>6. \A t \in {"asc", "desc"} :
        sortDirectionFrom(IF t = "asc" THEN Absent ELSE t) = t
  BY <1>1, <1>2 DEF sortDirectionFrom
<1> QED
  BY <1>1, <1>3, <1>4, <1>5, <1>6

LEMMA GatewayTableReadsBack ==
  ASSUME NEW p \in {1, 2, 50}, NEW q \in {"", "text"}
  PROVE  GatewayRoundTrips[p][q]
<1> SUFFICES ASSUME NEW size \in {20, 50}, NEW sort \in GatewaySorts,
                    NEW direction \in {"asc", "desc"}
             PROVE  LET s == [page |-> p, size |-> size, q |-> q, sort |-> sort,
                              direction |-> direction]
                    IN parseGatewayListState(serializeGatewayListState(s)) = s
  BY DEF GatewayRoundTrips
<1> DEFINE s == [page |-> p, size |-> size, q |-> q, sort |-> sort,
                 direction |-> direction]
           u == serializeGatewayListState(s)
<1>1. u = [page |-> IF p = GatewayDefaults.page THEN Absent ELSE Text(p),
           size |-> IF size = GatewayDefaults.size THEN Absent ELSE Text(size),
           q |-> IF q = "" THEN Absent ELSE q,
           sort |-> IF sort = GatewayDefaults.sort THEN Absent ELSE sort,
           direction |-> IF direction = GatewayDefaults.direction THEN Absent
                         ELSE direction]
  BY DEF serializeGatewayListState
<1> HIDE DEF u
<1>2. pageFrom(u.page) = p /\ sizeFrom(u.size) = size
      /\ sortFieldFrom(u.sort) = sort /\ sortDirectionFrom(u.direction) = direction
  BY <1>1, GatewayParameters
<1>3. (IF u.q = Absent THEN GatewayDefaults.q ELSE u.q) = q
  BY <1>1 DEF Absent, GatewayDefaults
<1>4. parseGatewayListState(u) =
        [page |-> p, size |-> size, q |-> q, sort |-> sort,
         direction |-> direction]
  BY <1>2, <1>3, Zenon DEF parseGatewayListState
<1> QED
  BY <1>4, Zenon DEF u

\* The same for the accounts table, which leaves out what is the default.
LEMMA AccountParameters ==
  /\ \A old, p : p \in {1, 2, 50} =>
       positiveInteger(setOrDelete(old, Text(p), Text(AccountDefaults.page)),
                       AccountDefaults.page) = p
  /\ \A old, n : n \in {20, 50} =>
       positiveInteger(setOrDelete(old, Text(n), Text(AccountDefaults.size)),
                       AccountDefaults.size) = n
<1>1. AccountDefaults.page = 1 /\ AccountDefaults.size = 20
  BY DEF AccountDefaults
<1> QED
  BY <1>1, ValuesOfTexts, TextsOfNumbers DEF positiveInteger, setOrDelete

LEMMA SizesFit ==
  \A n \in {20, 50} : (IF n > 100 THEN 100 ELSE n) = n
  OBVIOUS

LEMMA AccountTableReadsBack ==
  ASSUME NEW p \in {1, 2, 50}, NEW q \in {"", "text"}
  PROVE  AccountRoundTrips[p][q]
<1> SUFFICES ASSUME NEW u, NEW size \in {20, 50}, NEW sort \in AccountSorts,
                    NEW order \in {"asc", "desc"},
                    NEW status \in AccountStatuses \cup {""}
             PROVE  LET s == [page |-> p, size |-> size, search |-> q,
                              sort |-> sort, order |-> order, status |-> status]
                    IN /\ serviceAccountCollectionState(writeAccountState(u, s)) = s
                       /\ writeAccountState(u, s).tab = u.tab
  BY DEF AccountRoundTrips
<1> DEFINE s == [page |-> p, size |-> size, search |-> q, sort |-> sort,
                 order |-> order, status |-> status]
           w == writeAccountState(u, s)
<1>1. w = [tab |-> u.tab,
           page |-> setOrDelete(u.page, Text(p), Text(AccountDefaults.page)),
           size |-> setOrDelete(u.size, Text(size), Text(AccountDefaults.size)),
           search |-> setOrDelete(u.search, q, AccountDefaults.search),
           sort |-> setOrDelete(u.sort, sort, AccountDefaults.sort),
           order |-> setOrDelete(u.order, order, AccountDefaults.order),
           status |-> setOrDelete(u.status, status, AccountDefaults.status)]
  BY DEF writeAccountState
<1> HIDE DEF w
<1>2. positiveInteger(w.page, AccountDefaults.page) = p
      /\ positiveInteger(w.size, AccountDefaults.size) = size
  BY <1>1, AccountParameters
<1>3. /\ (IF w.search = Absent THEN AccountDefaults.search ELSE w.search) = q
      /\ (IF w.sort \in AccountSorts THEN w.sort ELSE AccountDefaults.sort) = sort
      /\ (IF w.order = "asc" THEN "asc" ELSE AccountDefaults.order) = order
      /\ (IF w.status \in AccountStatuses THEN w.status ELSE "") = status
  BY <1>1 DEF setOrDelete, AccountDefaults, AccountSorts, AccountStatuses, Absent
<1>4. (LET n == positiveInteger(w.size, AccountDefaults.size)
       IN IF n > 100 THEN 100 ELSE n) = size
  BY <1>2, SizesFit, Zenon
<1>5. serviceAccountCollectionState(w) =
        [page |-> p, size |-> size, search |-> q, sort |-> sort,
         order |-> order, status |-> status]
  BY <1>2, <1>3, <1>4, Zenon DEF serviceAccountCollectionState
<1>6. w.tab = u.tab
  BY <1>1
<1> QED
  BY <1>5, <1>6, Zenon DEF w

-----------------------------------------------------------------------------
(* What the runs check of the texts, from the types of the page.            *)

LEMMA TypesHold == Spec => []TypeOK
<1>1. IInv => TypeOK
  BY DEF IInv
<1> QED
  BY <1>1, Invariant, PTL

\* The state of either table survives a reload, Back and Forward: whatever page
\* and search it is in, and whatever the URL held before, the URL that is
\* written is read back as that state (parse and serialize of the list state,
\* setOrDelete).
THEOREM TablesSurviveReload == Spec => []TableSurvivesReload
<1>1. TypeOK => TableSurvivesReload
  <2> SUFFICES ASSUME TypeOK
               PROVE  TableSurvivesReload
    OBVIOUS
  <2>1. url.page \in Pages /\ url.search \in Searches
    BY TypeParts, KeyParts
  <2>2. Pages \subseteq {1, 2, 50}
    BY DEF Pages
  <2>3. url.page \in {1, 2, 50} /\ url.search \in {"", "text"}
    BY <2>1, <2>2, Zenon DEF Searches
  <2> QED
    BY <2>3, GatewayTableReadsBack, AccountTableReadsBack, Zenon
       DEF TableSurvivesReload, GatewayTableSurvivesReload,
           AccountTableSurvivesReload
<1> QED
  BY <1>1, TypesHold, PTL

\* Whatever the page's request searches for reaches the API as it was typed: the
\* literal of the request ends where it should, and none of its characters
\* acts as a wildcard.
THEOREM SearchesAreLiteral == Spec => []SearchIsLiteral
<1>1. TypeOK => SearchIsLiteral
  BY TypeParts, EverySearchReadsAsTyped, Zenon DEF Searches, SearchIsLiteral
<1> QED
  BY <1>1, TypesHold, PTL
=============================================================================
