------------------------- MODULE GatewayDetailProofs -------------------------
(***************************************************************************)
(* The page of a gateway for any lifecycles, any window and any number of   *)
(* changes and renames: the console is called unavailable only after a full *)
(* wait, and what the server accepted from the page is what the page shows. *)
(***************************************************************************)
EXTENDS GatewayDetail, TLAPS

\* The tracker counts what the history counts, and only while the page is
\* mounted and holds a gateway that waits for its console.
WaitInv ==
  /\ waited = seen
  /\ page = "away" => waited = None /\ tip = "none"
  /\ page # "away" => (waited # None <=> AwaitingConsole(data))
  /\ tip = "unavailable" => waited = Window

AppliedRename(m) == mutations[m].kind = "rename" /\ mutations[m].state = "applied"
AppliedDelete(m) == mutations[m].kind = "delete" /\ mutations[m].state = "applied"

\* Nothing the page can still receive is older than the accepted name, but for
\* the request that a rename overtook and the rename that another one overtook.
NameInv ==
  /\ server # Gone => server.name >= renamed
  /\ \A m \in Slots : AppliedRename(m) =>
       /\ mutations[m].answer \in Record
       /\ server # Gone => server.name >= mutations[m].answer.name
  /\ fetch.state = "read" => fetch.read # NoRecord
  /\ fetch.state = "read" /\ fetch.read # Gone /\ ~overlap
       => fetch.read.name >= renamed
  /\ data # NoRecord /\ ~overlap /\ ~undone => data.name >= renamed

Ending(r) == r = Gone \/ Deleting(r)

\* An accepted deletion is final at the server; in every answer, but for the
\* request that it could not drop; and in the record, unless that one is marked
\* invalid or was written by a rename that had strayed.
DeletionInv ==
  /\ accepted \/ (\E m \in Slots : AppliedDelete(m)) => Ending(server)
  /\ page = "away" => fetch.state = "idle"
  /\ accepted /\ fetch.state = "read" => Ending(fetch.read) \/ (strayed /\ overlap)
  /\ accepted /\ ~Deleting(data) => invalid \/ (strayed /\ (undone \/ overlap))
  /\ DeletionIsShown

\* A visit has one mutation under way, the one of its open dialog.
OwnInv ==
  /\ \A m \in Slots : Own(m) => /\ mutations[m].kind # "none"
                                /\ mutations[m].kind = dialog.kind
  /\ \A m, n \in Slots : Own(m) /\ Own(n) => m = n
  /\ dialog.kind # "none" => data # NoRecord /\ page # "away"

\* Nothing is undone before a mutation has strayed: until then there is only
\* the one of the visit, and nothing newer than it has been accepted.
StrayInv ==
  /\ undone => strayed
  /\ ~strayed => \A m \in Slots : mutations[m].state # "none" => Own(m)
  /\ ~strayed => \A m \in Slots :
       AppliedRename(m) => mutations[m].answer.name >= renamed /\ ~accepted

IInv == TypeOK /\ WaitInv /\ NameInv /\ DeletionInv /\ OwnInv /\ StrayInv

-----------------------------------------------------------------------------
(* Types.                                                                   *)

Answers == Record \cup {NoRecord, Gone}
Ticks == None..Window
Tips == {"none", "open", "provisioning", "unavailable"}
Pages == {"shown", "leaving", "away"}
Dialog == [kind : {"none", "rename", "delete"}, failed : BOOLEAN, draft : Drafts]
Mutation == [kind : {"none", "rename", "delete"},
             state : {"none", "sent", "applied"},
             sender : {"page", "earlier", "list"},
             answer : Record \cup {NoRecord}]

ServerType == server \in Record \cup {Gone} /\ changes \in 0..MaxChanges
FetchType == fetch.state \in {"idle", "sent", "read"} /\ fetch.read \in Answers
DataType == data \in Record \cup {NoRecord} /\ failed \in BOOLEAN /\ invalid \in BOOLEAN
ViewType == /\ page \in Pages /\ waited \in Ticks /\ armed \in BOOLEAN
            /\ tip \in Tips /\ seen \in Ticks
DialogType == dialog \in Dialog
SlotType == mutations \in [Slots -> Mutation]
HistoryType == /\ renamed \in 0..MaxRenames /\ accepted \in BOOLEAN
               /\ overlap \in BOOLEAN /\ undone \in BOOLEAN /\ strayed \in BOOLEAN

LEMMA TypeParts ==
  TypeOK <=> /\ ServerType /\ FetchType /\ DataType
             /\ ViewType /\ DialogType /\ SlotType /\ HistoryType
  BY DEF TypeOK, ServerType, FetchType, DataType, ViewType, DialogType, SlotType,
         HistoryType, Answers, Ticks, Tips, Pages, Dialog, Mutation

LEMMA TickFacts ==
  /\ None \in Ticks /\ 0 \in Ticks /\ Window \in Ticks /\ 0 # None /\ Window # None
  /\ 0 # Window
  /\ \A n \in Ticks : n # None /\ n >= Window => n = Window
  /\ \A n \in Ticks : n # None /\ n < Window => n + 1 \in Ticks /\ n + 1 # None
  BY DetailAssumption DEF Ticks, None

\* A record, and what the server does to one.
LEMMA RecordFacts ==
  ASSUME NEW r \in Record
  PROVE  /\ r.name \in 0..MaxRenames /\ r # Gone /\ r # NoRecord
<1>1. r.name \in 0..MaxRenames
  BY DEF Record
<1>2. NoRecord.name = None /\ Gone.name = None - 1
  BY DEF NoRecord, Gone
<1>3. r.name # None /\ r.name # None - 1
  BY <1>1, DetailAssumption DEF None
<1> QED
  BY <1>1, <1>2, <1>3

LEMMA NewName ==
  ASSUME NEW r \in Record, r.name < MaxRenames
  PROVE  LET s == [r EXCEPT !.name = @ + 1]
         IN /\ s \in Record /\ s.name = r.name + 1
            /\ Deleting(s) <=> Deleting(r)
<1>1. PICK n : n = r.name + 1
  OBVIOUS
<1>2. n \in 0..MaxRenames
  BY <1>1, RecordFacts, DetailAssumption
<1>3. PICK s : s = [r EXCEPT !.name = n]
  OBVIOUS
<1>4. s \in Record /\ s.name = n /\ s.life = r.life
  BY <1>2, <1>3 DEF Record
<1> QED
  BY <1>1, <1>3, <1>4 DEF Deleting

LEMMA NewLife ==
  ASSUME NEW r \in Record, NEW l \in Lifecycles
  PROVE  LET s == [r EXCEPT !.life = l]
         IN s \in Record /\ s.name = r.name
  BY DEF Record

LEMMA NewDeletion ==
  ASSUME NEW r \in Record
  PROVE  LET s == [r EXCEPT !.life.phase = "deleting"]
         IN s \in Record /\ s.name = r.name /\ Deleting(s)
<1> DEFINE ended(l) == [l EXCEPT !.phase = "deleting"]
<1>1. \A l \in Lifecycle : /\ ended(l).phase = "deleting"
                           /\ ended(ended(l)) = ended(l)
  BY DEF Lifecycle
<1>2. r.life \in Lifecycles \/ \E l \in Lifecycles : r.life = ended(l)
  BY DEF Record
<1>3. PICK m : m = ended(r.life)
  OBVIOUS
<1>4. /\ m \in Lifecycles \cup {ended(l) : l \in Lifecycles}
      /\ m.phase = "deleting"
  BY <1>1, <1>2, <1>3, DetailAssumption
<1>5. PICK s : s = [r EXCEPT !.life = m]
  OBVIOUS
<1>6. s \in Record /\ s.name = r.name /\ s.life = m
  BY <1>4, <1>5 DEF Record
<1> QED
  BY <1>3, <1>4, <1>5, <1>6 DEF Deleting

LEMMA NobodyDeletes == ~Deleting(NoRecord) /\ ~Deleting(Gone)
  BY DEF NoRecord, Gone, Deleting

LEMMA GoneIsNot == Gone # NoRecord /\ Gone.name \in Int /\ NoRecord.name \in Int
<1>1. NoRecord.name = None /\ Gone.name = None - 1
  BY DEF NoRecord, Gone
<1> QED
  BY <1>1 DEF None

\* What is in the slots, when one of them changes.
LEMMA SlotFacts ==
  ASSUME SlotType, NEW m \in Slots, NEW v \in Mutation,
         mutations' = [mutations EXCEPT ![m] = v]
  PROVE  /\ SlotType'
         /\ mutations'[m] = v
         /\ \A n \in Slots : n # m => mutations'[n] = mutations[n]
  BY DEF SlotType

LEMMA NothingFacts ==
  /\ NoMutation \in Mutation /\ NoMutation.state = "none"
  /\ NoDialog \in Dialog /\ NoDialog.kind = "none"
  BY DEF NoMutation, Mutation, NoDialog, Dialog, Drafts

\* Another name on the page changes no more than the draft.
LEMMA RedraftedFacts ==
  ASSUME DialogType, NEW r, dialog' \in Redrafted(r)
  PROVE  DialogType' /\ dialog'.kind = dialog.kind
<1>1. dialog' = dialog \/ \E d \in {"same", "new"} : dialog' = [dialog EXCEPT !.draft = d]
  BY DEF Redrafted
<1>2. CASE dialog' = dialog
  BY <1>2 DEF DialogType
<1>3. CASE \E d \in {"same", "new"} : dialog' = [dialog EXCEPT !.draft = d]
  <2>1. PICK d \in Drafts : dialog' = [dialog EXCEPT !.draft = d]
    BY <1>3 DEF Drafts
  <2> QED
    BY <2>1 DEF DialogType, Dialog
<1> QED
  BY <1>1, <1>2, <1>3

\* Names of what may be held, read or answered are numbers.
LEMMA NamesAreNumbers ==
  ASSUME NEW r \in Answers
  PROVE  r.name \in Int
  BY RecordFacts, GoneIsNot, DetailAssumption DEF Answers

LEMMA ButtonFacts ==
  ASSUME NEW r, NEW n
  PROVE  /\ Button(r, n) \in Tips
         /\ Button(r, n) = "unavailable" => n # None /\ n >= Window
  BY DEF Button, Tips, PastDeadline

LEMMA PollingIsBoolean ==
  ASSUME NEW r, NEW n
  PROVE  NeedsPolling(r, n) \in BOOLEAN
  BY DEF NeedsPolling

LEMMA WaitFacts ==
  ASSUME NEW r, NEW n \in Ticks
  PROVE  /\ ResolveWait(r, n) \in Ticks
         /\ ResolveWait(r, n) # None <=> AwaitingConsole(r)
         /\ AwaitingConsole(r) /\ n # None => ResolveWait(r, n) = n
         /\ AwaitingConsole(r) /\ n = None => ResolveWait(r, n) = 0
         /\ ~AwaitingConsole(r) => ResolveWait(r, n) = None
  BY TickFacts DEF ResolveWait

-----------------------------------------------------------------------------
(* The tracker of the wait.                                                 *)

\* An update of the query by r: nothing is rendered only if r is held already.
LEMMA ObserveKeeps ==
  ASSUME ViewType, WaitInv, NEW r, NEW rendered \in BOOLEAN,
         Observe(r, rendered), data' = r, rendered \/ r = data,
         page = "away" => page' = page,
         page # "away" => page' \in Pages \ {"away"}
  PROVE  ViewType' /\ WaitInv'
<1>1. CASE page = "away"
  BY <1>1 DEF Observe, ViewType, WaitInv
<1>2. CASE page # "away"
  <2>1. PICK n : n = ResolveWait(r, waited)
    OBVIOUS
  <2>2. /\ waited' = n /\ armed' = NeedsPolling(r, n)
        /\ tip' = IF rendered THEN Button(r, n) ELSE tip
        /\ seen' = IF ~AwaitingConsole(r) THEN None
                   ELSE IF AwaitingConsole(data) THEN seen ELSE 0
    BY <1>2, <2>1 DEF Observe
  <2>3. /\ n \in Ticks /\ (n # None <=> AwaitingConsole(r))
        /\ AwaitingConsole(r) /\ waited # None => n = waited
        /\ AwaitingConsole(r) /\ waited = None => n = 0
    BY <2>1, WaitFacts DEF ViewType
  <2>4. waited = seen /\ (waited # None <=> AwaitingConsole(data))
    BY <1>2 DEF WaitInv
  <2>5. seen' = n
    BY <2>2, <2>3, <2>4
  <2>6. tip' \in Tips /\ (tip' = "unavailable" => n = Window)
    <3>1. CASE rendered
      BY <3>1, <2>2, <2>3, ButtonFacts, TickFacts
    <3>2. CASE ~rendered
      BY <3>2, <2>2, <2>3, <2>4, TickFacts DEF WaitInv, ViewType
    <3> QED
      BY <3>1, <3>2
  <2>7. armed' \in BOOLEAN
    BY <2>2, PollingIsBoolean
  <2>8. page' \in Pages /\ page' # "away"
    BY <1>2
  <2>9. AwaitingConsole(data)' <=> AwaitingConsole(r)
    BY DEF AwaitingConsole, Transitional, States
  <2> QED
    BY <2>2, <2>3, <2>5, <2>6, <2>7, <2>8, <2>9 DEF ViewType, WaitInv
<1> QED
  BY <1>1, <1>2

\* A step of the user that renders the header on the mounted page.
LEMMA RenderKeeps ==
  ASSUME ViewType, WaitInv, page # "away", Rendered,
         UNCHANGED <<data, page, waited, armed, seen>>
  PROVE  ViewType' /\ WaitInv'
<1>1. tip' \in Tips /\ (tip' = "unavailable" => waited = Window)
  BY ButtonFacts, TickFacts DEF Rendered, ViewType
<1>2. AwaitingConsole(data)' <=> AwaitingConsole(data)
  BY DEF AwaitingConsole, Transitional, States
<1> QED
  BY <1>1, <1>2 DEF ViewType, WaitInv

LEMMA ViewKept ==
  ASSUME ViewType, WaitInv, UNCHANGED <<data, view, seen>>
  PROVE  ViewType' /\ WaitInv'
  BY DEF ViewType, WaitInv, view, AwaitingConsole, Transitional, States

-----------------------------------------------------------------------------
(* The invariant is inductive.                                              *)

LEMMA Parts ==
  IInv <=> /\ ServerType /\ FetchType /\ DataType /\ ViewType /\ DialogType /\ SlotType
           /\ HistoryType /\ WaitInv /\ NameInv /\ DeletionInv /\ OwnInv /\ StrayInv
  BY TypeParts DEF IInv

LEMMA PrimedParts ==
  (IInv <=> /\ ServerType /\ FetchType /\ DataType /\ ViewType /\ DialogType /\ SlotType
            /\ HistoryType /\ WaitInv /\ NameInv /\ DeletionInv /\ OwnInv /\ StrayInv)'
  BY Parts, PTL

LEMMA InitIInv == Init => IInv
<1> SUFFICES ASSUME Init PROVE IInv
  OBVIOUS
<1>1. PICK l \in Opened : server = [life |-> l, name |-> 0]
  BY DEF Init
<1>2. server \in Record
  BY <1>1, DetailAssumption DEF Record
<1>3. ServerType /\ HistoryType
  <2>1. 0 \in 0..MaxChanges /\ 0 \in 0..MaxRenames
    BY DetailAssumption
  <2>2. changes = 0 /\ renamed = 0 /\ accepted = FALSE
        /\ overlap = FALSE /\ undone = FALSE /\ strayed = FALSE
    BY DEF Init
  <2> QED
    BY <1>2, <2>1, <2>2 DEF ServerType, HistoryType
<1>4. FetchType /\ DataType
  BY DEF FetchType, DataType, Answers, Sent, Init
<1>5. ViewType
  BY TickFacts DEF ViewType, Pages, Tips, Init
<1>6. \A m \in Slots : mutations[m] = NoMutation
  BY DEF Init
<1>7. DialogType /\ SlotType
  BY NothingFacts DEF DialogType, SlotType, Init
<1>8. ~AwaitingConsole(NoRecord)
  BY DEF AwaitingConsole
<1>9. WaitInv
  BY <1>8 DEF WaitInv, Init
<1>10. /\ \A m \in Slots : mutations[m].state = "none"
       /\ fetch.state = "sent" /\ server.name = 0
  BY <1>1, <1>6, NothingFacts DEF Init, Sent
<1>11. NameInv
  BY <1>10 DEF NameInv, AppliedRename, Init
<1>12. DeletionInv
  BY <1>10 DEF DeletionInv, DeletionIsShown, AppliedDelete, Init
<1>13. OwnInv
  BY <1>10, NothingFacts DEF OwnInv, Own, Init
<1>14. StrayInv
  BY <1>10 DEF StrayInv, AppliedRename, Init
<1> QED
  BY <1>3, <1>4, <1>5, <1>7, <1>9, <1>11, <1>12, <1>13, <1>14, Parts

\* The mutations and what they are compared with are as they were.
LEMMA SendersKept ==
  ASSUME IInv, mutations' = mutations, dialog'.kind = dialog.kind,
         data' # NoRecord \/ data' = data, page' = page,
         UNCHANGED <<renamed, accepted, strayed>>, undone' => undone
  PROVE  OwnInv' /\ StrayInv' /\ SlotType'
  BY Parts DEF OwnInv, StrayInv, SlotType, Own, AppliedRename

\* The console wait passes.
LEMMA TickKeeps ==
  ASSUME IInv, Tick
  PROVE  IInv'
<1>1. /\ waited \in Ticks /\ waited = seen /\ waited # None /\ waited < Window
      /\ waited' = waited + 1 /\ seen' = seen + 1
      /\ UNCHANGED <<server, changes, query, page, armed, tip, dialog, mutations,
                     renamed, past>>
  BY Parts DEF ViewType, WaitInv, Tick
<1>2. waited' \in Ticks /\ seen' = waited' /\ waited' # None
  BY <1>1, TickFacts
<1>3. tip # "unavailable" /\ page # "away"
  BY <1>1, TickFacts, Parts DEF WaitInv, Ticks
<1>4. ViewType'
  BY <1>1, <1>2, Parts DEF ViewType
<1>5. data' = data
  BY <1>1 DEF query
<1>6. WaitInv'
  BY <1>1, <1>2, <1>3, <1>5, Parts DEF WaitInv, AwaitingConsole, Transitional, States
<1>7. ServerType' /\ FetchType' /\ DataType' /\ DialogType' /\ HistoryType'
  BY <1>1, Parts DEF ServerType, FetchType, DataType, DialogType, HistoryType, query, past
<1>8. NameInv' /\ DeletionInv'
  BY <1>1, Parts DEF NameInv, DeletionInv, DeletionIsShown, AppliedRename, AppliedDelete, query,
                      past, Ending, Deleting
<1>9. OwnInv' /\ StrayInv' /\ SlotType'
  BY <1>1, <1>5, SendersKept DEF past
<1> QED
  BY <1>4, <1>6, <1>7, <1>8, <1>9, PrimedParts

\* Only the view, the dialog and what is sent change: no mutation is applied.
LEMMA Aside ==
  ASSUME IInv, UNCHANGED <<server, query, page, renamed, accepted, overlap, undone>>,
         ServerType', ViewType', WaitInv', DialogType', SlotType', OwnInv', StrayInv',
         strayed' \in BOOLEAN, strayed => strayed',
         \A m \in Slots : mutations'[m] = mutations[m] \/ mutations'[m].state # "applied"
  PROVE  IInv'
<1>1. FetchType' /\ DataType' /\ HistoryType'
  BY Parts DEF FetchType, DataType, HistoryType, query
<1>2. \A m \in Slots : /\ AppliedRename(m)' => AppliedRename(m) /\ mutations'[m] = mutations[m]
                       /\ AppliedDelete(m)' => AppliedDelete(m)
  BY DEF AppliedRename, AppliedDelete
<1>3. NameInv'
  BY <1>2, Parts DEF NameInv, query
<1>4. DeletionInv'
  BY <1>2, Parts DEF DeletionInv, DeletionIsShown, query, Ending, Deleting
<1> QED
  BY <1>1, <1>3, <1>4, PrimedParts

LEMMA HeaderKeeps ==
  ASSUME IInv,
         \/ Interact
         \/ \E kind \in {"rename", "delete"} : Open(kind)
         \/ CloseRename \/ CloseDelete
  PROVE  IInv'
<1>1. /\ UNCHANGED <<server, changes, query, page, waited, armed, mutations, history>>
      /\ Rendered
  BY DEF Interact, Open, CloseRename, CloseDelete, Close
<1>2. page # "away"
  BY Parts DEF Interact, Open, CloseRename, CloseDelete, Close, Visible, OwnInv
<1>3. ViewType' /\ WaitInv'
  BY <1>1, <1>2, RenderKeeps, Parts DEF query, history
<1>4. /\ dialog' \in Dialog
      /\ \A m \in Slots : Own(m) => dialog'.kind = dialog.kind
      /\ dialog'.kind # "none" => data # NoRecord
  <2>1. CASE Interact
    BY <2>1, Parts DEF Interact, DialogType, OwnInv
  <2>2. CASE \E kind \in {"rename", "delete"} : Open(kind)
    <3>1. PICK kind \in {"rename", "delete"} : Open(kind)
      BY <2>2
    <3>2. dialog' \in Dialog
      BY <3>1 DEF Open, NoDialog, Dialog, Drafts
    <3>3. data # NoRecord /\ \A m \in Slots : ~Own(m)
      BY <3>1, Parts DEF Open, OwnInv
    <3> QED
      BY <3>2, <3>3
  <2>3. CASE CloseRename \/ CloseDelete
    <3>1. PICK kind \in {"rename", "delete"} : Close(kind)
      BY <2>3 DEF CloseRename, CloseDelete
    <3>2. \A m \in Slots : ~Own(m)
      BY <3>1, Parts DEF Close, Pending, OwnInv
    <3> QED
      BY <3>1, <3>2, NothingFacts DEF Close
  <2> QED
    BY <2>1, <2>2, <2>3
<1>5. ServerType' /\ DialogType' /\ SlotType'
  BY <1>1, <1>4, Parts DEF ServerType, DialogType, SlotType
<1>6. OwnInv'
  BY <1>1, <1>2, <1>4, Parts DEF OwnInv, Own, query
<1>7. StrayInv'
  BY <1>1, Parts DEF StrayInv, Own, AppliedRename, history, past
<1>8. strayed' = strayed /\ strayed \in BOOLEAN
  BY <1>1, Parts DEF HistoryType, history, past
<1> QED
  BY <1>1, <1>3, <1>5, <1>6, <1>7, <1>8, Aside DEF history, past

\* A mutation is sent by the open dialog, or from the row in the collection.
LEMMA SendKeeps ==
  ASSUME IInv, SubmitRename \/ ConfirmDelete \/ \E k \in {"rename", "delete"} : SendFromRow(k)
  PROVE  IInv'
<1>1. PICK kind \in {"rename", "delete"}, sender \in {"page", "list"}, m \in Slots :
        /\ mutations[m].state = "none"
        /\ mutations' = [mutations EXCEPT
             ![m] = [NoMutation EXCEPT !.kind = kind, !.state = "sent", !.sender = sender]]
        /\ changes < MaxChanges /\ changes' = changes + 1
        /\ UNCHANGED <<server, query, view, seen, renamed, accepted, overlap, undone>>
        /\ \/ /\ sender = "page" /\ dialog.kind = kind /\ ~Pending(kind)
              /\ dialog' = [dialog EXCEPT !.failed = FALSE] /\ strayed' = strayed
           \/ /\ sender = "list" /\ dialog' = dialog /\ strayed' = TRUE
  <2>1. CASE SubmitRename
    <3>1. dialog.kind = "rename" /\ ~Pending("rename") /\ Mutate
      BY <2>1 DEF SubmitRename, Submittable
    <3> QED
      BY <3>1 DEF Mutate, Send, history, past
  <2>2. CASE ConfirmDelete
    <3>1. dialog.kind = "delete" /\ ~Pending("delete") /\ Mutate
      BY <2>2 DEF ConfirmDelete
    <3> QED
      BY <3>1 DEF Mutate, Send, history, past
  <2>3. CASE \E k \in {"rename", "delete"} : SendFromRow(k)
    BY <2>3 DEF SendFromRow, Send
  <2> QED
    BY <2>1, <2>2, <2>3
<1>2. PICK v : v = [NoMutation EXCEPT !.kind = kind, !.state = "sent", !.sender = sender]
  OBVIOUS
<1>3. v \in Mutation /\ v.kind = kind /\ v.state = "sent" /\ v.sender = sender
  BY <1>2 DEF NoMutation, Mutation
<1>4. /\ SlotType' /\ mutations'[m] = v
      /\ \A n \in Slots : n # m => mutations'[n] = mutations[n]
  BY <1>1, <1>2, <1>3, SlotFacts, Parts
<1>5. dialog' \in Dialog /\ dialog'.kind = dialog.kind
  BY <1>1, Parts DEF DialogType, Dialog
<1>6. ServerType' /\ DialogType'
  <2>1. changes' \in 0..MaxChanges
    BY <1>1, Parts, DetailAssumption DEF ServerType
  <2> QED
    BY <1>1, <1>5, <2>1, Parts DEF ServerType, DialogType
<1>7. ViewType' /\ WaitInv'
  BY <1>1, ViewKept, Parts DEF query
<1>8. \A n \in Slots : n # m => (Own(n)' <=> Own(n))
  BY <1>4 DEF Own
<1>9. Own(m)' => sender = "page"
  BY <1>3, <1>4 DEF Own
<1>10. sender = "page" => /\ \A n \in Slots : ~Own(n)
                          /\ Own(m)' /\ strayed' = strayed
  <2> SUFFICES ASSUME sender = "page"
               PROVE  (\A n \in Slots : ~Own(n)) /\ Own(m)' /\ strayed' = strayed
    OBVIOUS
  <2>1. dialog.kind = kind /\ ~Pending(kind) /\ strayed' = strayed
    BY <1>1
  <2>2. \A n \in Slots : ~Own(n)
    BY <2>1, Parts DEF OwnInv, Pending
  <2>3. Own(m)'
    BY <1>3, <1>4 DEF Own
  <2> QED
    BY <2>1, <2>2, <2>3
<1>11. OwnInv'
  <2>1. \A n \in Slots : Own(n)' => mutations'[n].kind # "none" /\ mutations'[n].kind = dialog'.kind
    BY <1>1, <1>3, <1>4, <1>5, <1>8, <1>9, Parts DEF OwnInv
  <2>2. \A n, o \in Slots : Own(n)' /\ Own(o)' => n = o
    BY <1>8, <1>9, <1>10, Parts DEF OwnInv
  <2>3. dialog'.kind # "none" => data' # NoRecord /\ page' # "away"
    BY <1>1, <1>5, Parts DEF OwnInv, query, view
  <2> QED
    BY <2>1, <2>2, <2>3 DEF OwnInv
<1>12. StrayInv'
  <2>1. ~strayed' => ~strayed /\ sender = "page"
    BY <1>1
  <2>2. \A n \in Slots : AppliedRename(n)' => AppliedRename(n) /\ mutations'[n] = mutations[n]
    BY <1>3, <1>4 DEF AppliedRename
  <2>3. \A n \in Slots : n # m /\ mutations'[n].state # "none" /\ Own(n) => Own(n)'
    BY <1>8
  <2>4. undone' => strayed'
    <3>1. CASE sender = "page"
      BY <1>1, <3>1, Parts DEF StrayInv
    <3>2. CASE sender = "list"
      BY <1>1, <3>2
    <3> QED
      BY <3>1, <3>2
  <2>5. ~strayed' => \A n \in Slots : mutations'[n].state # "none" => Own(n)'
    BY <1>4, <1>10, <2>1, <2>3, Parts DEF StrayInv
  <2>6. ~strayed' => \A n \in Slots :
          AppliedRename(n)' => mutations'[n].answer.name >= renamed' /\ ~accepted'
    BY <1>1, <2>1, <2>2, Parts DEF StrayInv
  <2> QED
    BY <2>4, <2>5, <2>6 DEF StrayInv
<1>13. strayed' \in BOOLEAN /\ (strayed => strayed')
  <2>1. CASE sender = "page"
    BY <1>1, <2>1, Parts DEF HistoryType
  <2>2. CASE sender = "list"
    BY <1>1, <2>2
  <2> QED
    BY <2>1, <2>2
<1>14. \A n \in Slots : mutations'[n] = mutations[n] \/ mutations'[n].state # "applied"
  BY <1>3, <1>4
<1> QED
  BY <1>1, <1>4, <1>6, <1>7, <1>11, <1>12, <1>13, <1>14, Aside DEF view

\* A mutation has ended: what is left under way was under way before, and is not
\* the visit's own, if that is the one that ended.
LEMMA EndedFacts ==
  ASSUME IInv, NEW m \in Slots, mutations[m].state # "none",
         mutations' = [mutations EXCEPT ![m] = NoMutation]
  PROVE  /\ SlotType'
         /\ \A n \in Slots : /\ mutations'[n].state # "none" => n # m /\ mutations'[n] = mutations[n]
                             /\ Own(n)' => Own(n) /\ mutations'[n] = mutations[n] /\ ~Own(m)
                             /\ AppliedRename(n)' => AppliedRename(n) /\ mutations'[n] = mutations[n]
                             /\ AppliedDelete(n)' => AppliedDelete(n)
                             /\ mutations'[n] = mutations[n] \/ mutations'[n].state # "applied"
         /\ ~strayed => \A n \in Slots : mutations'[n].state = "none"
<1>1. /\ SlotType' /\ mutations'[m] = NoMutation
      /\ \A n \in Slots : n # m => mutations'[n] = mutations[n]
  BY SlotFacts, NothingFacts, Parts
<1>2. \A n \in Slots : mutations'[n].state # "none" => n # m /\ mutations'[n] = mutations[n]
  BY <1>1, NothingFacts
<1>3. \A n \in Slots : Own(n)' => mutations'[n].state # "none"
  BY DEF Own
<1>4. \A n \in Slots : Own(n)' => n # m /\ Own(n) /\ mutations'[n] = mutations[n]
  BY <1>2, <1>3 DEF Own
<1>5. \A n \in Slots : Own(n)' => Own(n) /\ mutations'[n] = mutations[n] /\ ~Own(m)
  BY <1>4, Parts DEF OwnInv
<1>6. \A n \in Slots : /\ AppliedRename(n)' => AppliedRename(n) /\ mutations'[n] = mutations[n]
                       /\ AppliedDelete(n)' => AppliedDelete(n)
                       /\ mutations'[n] = mutations[n] \/ mutations'[n].state # "applied"
  BY <1>2 DEF AppliedRename, AppliedDelete
<1>7. ~strayed => \A n \in Slots : mutations'[n].state = "none"
  <2> SUFFICES ASSUME ~strayed, NEW n \in Slots, mutations'[n].state # "none"
               PROVE  FALSE
    OBVIOUS
  <2>1. n # m /\ mutations[n].state # "none"
    BY <1>2
  <2>2. Own(n) /\ Own(m)
    BY <2>1, Parts DEF StrayInv
  <2> QED
    BY <2>1, <2>2, Parts DEF OwnInv
<1> QED
  BY <1>1, <1>2, <1>5, <1>6, <1>7

\* Typing, and the failure of a mutation.
LEMMA EditKeeps ==
  ASSUME IInv, \E draft \in Drafts : EditName(draft)
  PROVE  IInv'
<1>1. PICK draft \in Drafts : EditName(draft)
  OBVIOUS
<1>2. UNCHANGED <<server, changes, query, view, mutations, history>>
      /\ dialog' = [dialog EXCEPT !.draft = draft, !.failed = FALSE]
  BY <1>1 DEF EditName
<1>3. dialog' \in Dialog /\ dialog'.kind = dialog.kind
  BY <1>2, Parts DEF DialogType, Dialog
<1>4. ViewType' /\ WaitInv'
  BY <1>2, ViewKept, Parts DEF query, history
<1>5. ServerType' /\ DialogType'
  BY <1>2, <1>3, Parts DEF ServerType, DialogType
<1>6. OwnInv' /\ StrayInv' /\ SlotType'
  BY <1>2, <1>3, SendersKept DEF query, view, history, past
<1>7. strayed' = strayed /\ strayed \in BOOLEAN
  BY <1>2, Parts DEF HistoryType, history, past
<1> QED
  BY <1>2, <1>4, <1>5, <1>6, <1>7, Aside DEF view, history, past

LEMMA FailureKeeps ==
  ASSUME IInv, NEW m \in Slots, RenameFails(m) \/ DeletionFails(m)
  PROVE  IInv'
<1>1. /\ UNCHANGED <<server, changes, query, view, history>>
      /\ mutations[m].state # "none"
      /\ mutations' = [mutations EXCEPT ![m] = NoMutation]
      /\ dialog' = [dialog EXCEPT !.failed = @ \/ Own(m)]
  BY DEF RenameFails, DeletionFails, MutationFails
<1>2. dialog' \in Dialog /\ dialog'.kind = dialog.kind
  <2>1. PICK f \in BOOLEAN : f = (dialog.failed \/ Own(m))
    OBVIOUS
  <2>2. dialog' = [dialog EXCEPT !.failed = f]
    BY <1>1, <2>1
  <2> QED
    BY <2>2, Parts DEF DialogType, Dialog
<1>3. ViewType' /\ WaitInv'
  BY <1>1, ViewKept, Parts DEF query, history
<1>4. ServerType' /\ DialogType' /\ SlotType'
  BY <1>1, <1>2, EndedFacts, Parts DEF ServerType, DialogType
<1>5. OwnInv'
  <2>1. \A n \in Slots : Own(n)' => Own(n) /\ mutations'[n] = mutations[n]
    BY <1>1, EndedFacts
  <2> QED
    BY <1>1, <1>2, <2>1, Parts DEF OwnInv, query, view
<1>6. strayed' = strayed /\ strayed \in BOOLEAN
      /\ UNCHANGED <<renamed, accepted, overlap, undone>>
  BY <1>1, Parts DEF HistoryType, history, past
<1>7. StrayInv'
  <2>1. ~strayed => \A n \in Slots : mutations'[n].state = "none"
    BY <1>1, EndedFacts
  <2> QED
    BY <1>6, <2>1, Parts DEF StrayInv, AppliedRename
<1>8. \A n \in Slots : mutations'[n] = mutations[n] \/ mutations'[n].state # "applied"
  BY <1>1, EndedFacts
<1> QED
  BY <1>1, <1>3, <1>4, <1>5, <1>6, <1>7, <1>8, Aside DEF view

\* The request of the page is sent or given up.
LEMMA RequestKeeps ==
  ASSUME IInv, Poll \/ Fail
  PROVE  IInv'
<1>1. /\ UNCHANGED <<server, changes, data, invalid, page, dialog, mutations,
                     renamed, past>>
      /\ fetch' \in {Sent, Idle}
      /\ fetch' = Sent => page # "away" /\ failed' = failed
      /\ fetch' = Idle => failed' = TRUE
      /\ failed' \in {failed, TRUE}
  <2>1. Sent # Idle
    BY DEF Sent, Idle
  <2>2. CASE Poll
    BY <2>1, <2>2 DEF Poll
  <2>3. CASE Fail
    BY <2>1, <2>3 DEF Fail
  <2> QED
    BY <2>2, <2>3
<1>2. PICK rendered \in BOOLEAN : Observe(data, rendered)
  BY DEF Poll, Fail
<1>3. ViewType' /\ WaitInv'
  BY <1>1, <1>2, ObserveKeeps, Parts DEF ViewType, Pages
<1>4. /\ fetch'.state \in {"idle", "sent"} /\ fetch'.read = NoRecord
      /\ fetch'.state = "idle" => failed'
      /\ page = "away" => fetch'.state = "idle"
  BY <1>1 DEF Sent, Idle
<1>5. ServerType' /\ DialogType' /\ HistoryType'
  BY <1>1, Parts DEF ServerType, DialogType, HistoryType, past
<1>6. FetchType' /\ DataType'
  BY <1>1, <1>4, Parts DEF FetchType, DataType, Answers
<1>7. NameInv'
  BY <1>1, <1>4, Parts DEF NameInv, AppliedRename, past
<1>8. DeletionInv'
  BY <1>1, <1>4, Parts DEF DeletionInv, DeletionIsShown, AppliedDelete, Ending, Deleting, past
<1>9. OwnInv' /\ StrayInv' /\ SlotType'
  BY <1>1, SendersKept DEF past
<1> QED
  BY <1>3, <1>5, <1>6, <1>7, <1>8, <1>9, PrimedParts

LEMMA ReadKeeps ==
  ASSUME IInv, Read
  PROVE  IInv'
<1>1. /\ UNCHANGED <<server, changes, data, failed, invalid, view, dialog, mutations, history>>
      /\ fetch'.state = "read" /\ fetch'.read = server /\ fetch.state = "sent"
  BY DEF Read
<1>2. ViewType' /\ WaitInv'
  BY <1>1, ViewKept, Parts DEF history
<1>3. ServerType' /\ DialogType' /\ HistoryType' /\ DataType'
  BY <1>1, Parts DEF ServerType, DialogType, HistoryType, DataType, view, history, past
<1>4. FetchType'
  BY <1>1, Parts DEF FetchType, ServerType, Answers
<1>5. NameInv'
  <2>1. server # NoRecord
    BY RecordFacts, GoneIsNot, Parts DEF ServerType
  <2> QED
    BY <1>1, <2>1, Parts DEF NameInv, AppliedRename, history, past
<1>6. DeletionInv'
  BY <1>1, Parts DEF DeletionInv, DeletionIsShown, AppliedDelete, Ending, Deleting,
                      history, past, view
<1>7. OwnInv' /\ StrayInv' /\ SlotType'
  BY <1>1, SendersKept DEF view, history, past
<1> QED
  BY <1>2, <1>3, <1>4, <1>5, <1>6, <1>7, PrimedParts

LEMMA AnswerKeeps ==
  ASSUME IInv, Answer
  PROVE  IInv'
<1>1. /\ UNCHANGED <<server, changes, page, mutations, renamed, accepted, strayed>>
      /\ fetch.state = "read" /\ fetch.read # Gone /\ data' = fetch.read
      /\ fetch' = Idle /\ failed' = FALSE /\ invalid' = FALSE
      /\ dialog' \in Redrafted(fetch.read)
      /\ overlap' = (overlap /\ Behind(fetch.read, renamed))
      /\ undone' = FALSE
  BY DEF Answer
<1>2. ViewType' /\ WaitInv'
  <2>1. PICK rendered : rendered = (fetch.read # data \/ failed)
    OBVIOUS
  <2>2. rendered \in BOOLEAN /\ (rendered \/ fetch.read = data)
    BY <2>1
  <2>3. Observe(fetch.read, rendered)
    BY <2>1 DEF Answer
  <2>4. page # "away"
    BY <1>1, Parts DEF DeletionInv
  <2> QED
    BY <1>1, <2>2, <2>3, <2>4, ObserveKeeps, Parts DEF ViewType, Pages
<1>3. ServerType'
  BY <1>1, Parts DEF ServerType
<1>4. fetch'.state = "idle" /\ fetch'.read = NoRecord
  BY <1>1 DEF Idle
<1>5. fetch.read \in Record
  BY <1>1, Parts DEF FetchType, Answers, NameInv
<1>6. FetchType' /\ DataType'
  BY <1>1, <1>4, <1>5, Parts DEF FetchType, DataType, Answers
<1>7. overlap' \in BOOLEAN
  BY <1>1
<1>8. HistoryType'
  BY <1>1, <1>7, Parts DEF HistoryType
<1>9. ~overlap' => data'.name >= renamed
  <2> SUFFICES ASSUME ~overlap'
               PROVE  fetch.read.name >= renamed
    BY <1>1
  <2>1. renamed \in 0..MaxRenames /\ fetch.read.name \in 0..MaxRenames
    BY <1>5, RecordFacts, Parts DEF HistoryType
  <2>2. ~overlap \/ ~(fetch.read.name < renamed)
    BY <1>1 DEF Behind
  <2> QED
    BY <1>1, <2>1, <2>2, Parts DEF NameInv
<1>10. NameInv'
  BY <1>1, <1>4, <1>9, Parts DEF NameInv, AppliedRename
<1>11. accepted => Deleting(data') \/ (strayed /\ overlap')
  BY <1>1, Parts DEF DeletionInv, Ending, Behind
<1>12. DeletionInv'
  BY <1>1, <1>4, <1>11, Parts DEF DeletionInv, DeletionIsShown, AppliedDelete, Ending, Deleting
<1>13. DialogType' /\ dialog'.kind = dialog.kind
  BY <1>1, RedraftedFacts, Parts
<1>14. OwnInv' /\ StrayInv' /\ SlotType'
  <2>1. data' # NoRecord
    BY <1>1, Parts DEF NameInv
  <2> QED
    BY <1>1, <1>13, <2>1, SendersKept
<1> QED
  BY <1>2, <1>3, <1>6, <1>8, <1>10, <1>12, <1>13, <1>14, PrimedParts

\* The mutation of the visit becomes one of an earlier visit.
LEMMA LeaveKeeps ==
  ASSUME IInv, Leave
  PROVE  IInv'
<1>1. /\ UNCHANGED <<server, changes, data, failed, invalid, renamed, accepted, overlap, undone>>
      /\ page' = "away" /\ fetch' = Idle /\ dialog' = NoDialog
      /\ waited' = None /\ armed' = FALSE /\ tip' = "none" /\ seen' = None
      /\ mutations' = [m \in Slots |-> IF Own(m)
                                       THEN [mutations[m] EXCEPT !.sender = "earlier"]
                                       ELSE mutations[m]]
      /\ strayed' = (strayed \/ \E m \in Slots : Own(m))
  BY DEF Leave
<1>2. fetch'.state = "idle" /\ fetch'.read = NoRecord
  BY <1>1 DEF Idle
<1>3. ViewType' /\ WaitInv'
  BY <1>1, TickFacts DEF ViewType, WaitInv, Pages, Tips
<1>4. \A m \in Slots : /\ mutations'[m] \in Mutation
                       /\ mutations'[m].kind = mutations[m].kind
                       /\ mutations'[m].state = mutations[m].state
                       /\ mutations'[m].answer = mutations[m].answer
                       /\ mutations'[m].sender # "page" \/ mutations[m].state = "none"
  <2> SUFFICES ASSUME NEW m \in Slots
               PROVE  /\ mutations'[m] \in Mutation
                      /\ mutations'[m].kind = mutations[m].kind
                      /\ mutations'[m].state = mutations[m].state
                      /\ mutations'[m].answer = mutations[m].answer
                      /\ mutations'[m].sender # "page" \/ mutations[m].state = "none"
    OBVIOUS
  <2>1. mutations[m] \in Mutation
    BY Parts DEF SlotType
  <2>2. CASE Own(m)
    <3>1. mutations'[m] = [mutations[m] EXCEPT !.sender = "earlier"]
      BY <1>1, <2>2
    <3> QED
      BY <2>1, <3>1 DEF Mutation
  <2>3. CASE ~Own(m)
    BY <1>1, <2>1, <2>3 DEF Own
  <2> QED
    BY <2>2, <2>3
<1>5. DialogType' /\ SlotType'
  <2>1. mutations' \in [Slots -> Mutation]
    BY <1>1, <1>4
  <2> QED
    BY <1>1, <2>1, NothingFacts DEF DialogType, SlotType
<1>6. \A m \in Slots : /\ ~Own(m)'
                       /\ AppliedRename(m)' <=> AppliedRename(m)
                       /\ AppliedDelete(m)' <=> AppliedDelete(m)
  BY <1>4 DEF Own, AppliedRename, AppliedDelete
<1>7. strayed' \in BOOLEAN /\ (strayed => strayed')
  BY <1>1, Parts DEF HistoryType
<1>8. ServerType' /\ HistoryType' /\ DataType'
  BY <1>1, <1>7, Parts DEF ServerType, HistoryType, DataType
<1>9. FetchType'
  BY <1>2 DEF FetchType, Answers
<1>10. NameInv'
  BY <1>1, <1>2, <1>4, <1>6, Parts DEF NameInv
<1>11. DeletionInv'
  BY <1>1, <1>2, <1>6, <1>7, Parts DEF DeletionInv, DeletionIsShown, Ending, Deleting
<1>12. OwnInv'
  BY <1>1, <1>6, NothingFacts DEF OwnInv
<1>13. StrayInv'
  <2>1. ~strayed' => ~strayed /\ \A m \in Slots : ~Own(m)
    BY <1>1
  <2>2. undone' => strayed'
    BY <1>1, <1>7, Parts DEF StrayInv
  <2>3. ~strayed' => \A m \in Slots : mutations'[m].state = "none"
    BY <1>4, <2>1, Parts DEF StrayInv
  <2> QED
    BY <2>2, <2>3 DEF StrayInv, AppliedRename
<1> QED
  BY <1>3, <1>5, <1>8, <1>9, <1>10, <1>11, <1>12, <1>13, PrimedParts

\* A page opened on an invalid record sends for it.
LEMMA ReturnKeeps ==
  ASSUME IInv, Return
  PROVE  IInv'
<1>1. /\ UNCHANGED <<server, changes, data, failed, invalid, dialog, mutations,
                     renamed, past>>
      /\ page = "away" /\ page' = "shown"
      /\ \/ fetch' = Sent
         \/ fetch' = fetch /\ ~invalid
  BY DEF Return
<1>2. PICK n : n = ResolveWait(data, None)
  OBVIOUS
<1>3. waited' = n /\ armed' = NeedsPolling(data, n) /\ tip' = Button(data, n) /\ seen' = n
  BY <1>2 DEF Return
<1>4. n \in {None, 0} /\ (n # None <=> AwaitingConsole(data))
  BY <1>2, WaitFacts, TickFacts
<1>5. ViewType'
  BY <1>1, <1>3, <1>4, ButtonFacts, TickFacts, PollingIsBoolean DEF ViewType, Pages
<1>6. tip' # "unavailable"
  <2>1. ~(0 >= Window)
    BY DetailAssumption
  <2> QED
    BY <2>1, <1>3, <1>4, ButtonFacts
<1>7. WaitInv'
  BY <1>1, <1>3, <1>4, <1>6 DEF WaitInv, AwaitingConsole, Transitional, States
<1>8. ServerType' /\ HistoryType' /\ DataType' /\ DialogType' /\ SlotType'
  BY <1>1, Parts DEF ServerType, HistoryType, DataType, DialogType, SlotType, past
<1>9. /\ fetch'.state \in {"idle", "sent"}
      /\ fetch'.state = "idle" => ~invalid
      /\ fetch'.read \in Answers
  BY <1>1, Parts DEF Sent, DeletionInv, FetchType, Answers
<1>10. FetchType'
  BY <1>9 DEF FetchType, Answers
<1>11. NameInv'
  BY <1>1, <1>9, Parts DEF NameInv, AppliedRename, past
<1>12. DeletionInv'
  BY <1>1, <1>9, Parts DEF DeletionInv, DeletionIsShown, AppliedDelete, Ending, Deleting, past
<1>13. OwnInv'
  BY <1>1, Parts DEF OwnInv, Own
<1>14. StrayInv'
  BY <1>1, Parts DEF StrayInv, Own, AppliedRename, past
<1> QED
  BY <1>5, <1>7, <1>8, <1>10, <1>11, <1>12, <1>13, <1>14, PrimedParts

\* The control plane and the server's side of a mutation.
LEMMA ServerKeeps ==
  ASSUME IInv, UNCHANGED <<query, view, dialog, history>>,
         server' \in Record \cup {Gone}, changes' \in 0..MaxChanges, SlotType',
         server' # Gone => server # Gone /\ server'.name >= server.name,
         Ending(server) => Ending(server'),
         \A m \in Slots : /\ mutations'[m].kind = mutations[m].kind
                          /\ mutations'[m].sender = mutations[m].sender
                          /\ mutations'[m].state = "none" <=> mutations[m].state = "none",
         \A m \in Slots : AppliedRename(m)' =>
           \/ AppliedRename(m) /\ mutations'[m].answer = mutations[m].answer
           \/ /\ ~Ending(server) /\ mutations'[m].answer \in Record
              /\ mutations'[m].answer.name >= server.name
              /\ server' # Gone => server'.name >= mutations'[m].answer.name,
         \A m \in Slots : AppliedDelete(m)' => AppliedDelete(m) \/ Ending(server')
  PROVE  IInv'
<1>1. ViewType' /\ WaitInv'
  BY ViewKept, Parts DEF query, history
<1>2. ServerType' /\ FetchType' /\ DataType' /\ HistoryType' /\ DialogType'
  BY Parts DEF ServerType, FetchType, DataType, HistoryType, DialogType, query, view,
               history, past
<1>3. /\ UNCHANGED <<data, fetch, failed, invalid, page, renamed, accepted, overlap,
                     undone, strayed>>
      /\ renamed \in Int
      /\ server # Gone => server.name \in Int
      /\ server' # Gone => server'.name \in Int
      /\ \A r \in Record : r.name \in Int
  BY NamesAreNumbers, Parts, DetailAssumption
     DEF Answers, ServerType, HistoryType, query, view, history, past
<1>4. NameInv'
  <2>1. server' # Gone => server'.name >= renamed
    BY <1>3, Parts DEF NameInv
  <2>2. \A m \in Slots : AppliedRename(m)' =>
          /\ mutations'[m].answer \in Record
          /\ server' # Gone => server'.name >= mutations'[m].answer.name
    BY <1>3, Parts DEF NameInv
  <2> QED
    BY <1>3, <2>1, <2>2, Parts DEF NameInv
<1>5. DeletionInv'
  <2>1. accepted \/ (\E m \in Slots : AppliedDelete(m)') => Ending(server')
    BY Parts DEF DeletionInv
  <2> QED
    BY <1>3, <2>1, Parts DEF DeletionInv, DeletionIsShown, Ending, Deleting
<1>6. \A m \in Slots : Own(m)' <=> Own(m)
  BY DEF Own
<1>7. OwnInv'
  BY <1>3, <1>6, Parts DEF OwnInv
<1>8. StrayInv'
  <2>1. \A m \in Slots : ~strayed /\ AppliedRename(m)' =>
          mutations'[m].answer.name >= renamed /\ ~accepted
    <3> SUFFICES ASSUME NEW m \in Slots, ~strayed, AppliedRename(m)'
                 PROVE  mutations'[m].answer.name >= renamed /\ ~accepted
      OBVIOUS
    <3>1. CASE AppliedRename(m) /\ mutations'[m].answer = mutations[m].answer
      BY <3>1, Parts DEF StrayInv
    <3>2. CASE /\ ~Ending(server) /\ mutations'[m].answer \in Record
               /\ mutations'[m].answer.name >= server.name
      <4>1. ~accepted /\ server # Gone /\ server.name >= renamed
        BY <3>2, Parts DEF DeletionInv, NameInv, Ending
      <4> QED
        BY <1>3, <3>2, <4>1
    <3> QED
      BY <3>1, <3>2
  <2> QED
    BY <1>3, <1>6, <2>1, Parts DEF StrayInv
<1> QED
  BY <1>1, <1>2, <1>4, <1>5, <1>7, <1>8, PrimedParts

LEMMA ApplyRenameKeeps ==
  ASSUME IInv, NEW m \in Slots, ApplyRename(m)
  PROVE  IInv'
<1>1. /\ server \in Record /\ ~Ending(server) /\ server.name < MaxRenames
      /\ UNCHANGED <<changes, query, view, dialog, history>>
      /\ server' = [server EXCEPT !.name = @ + 1]
      /\ mutations' = [mutations EXCEPT ![m].state = "applied", ![m].answer = server']
      /\ mutations[m].kind = "rename" /\ mutations[m].state = "sent"
      /\ changes \in 0..MaxChanges
  BY Parts DEF ApplyRename, ServerType, Ending
<1>2. server' \in Record /\ server'.name = server.name + 1 /\ server'.name \in Nat /\ server.name \in Nat
  BY <1>1, NewName, RecordFacts, DetailAssumption
<1>3. PICK v : v = [mutations[m] EXCEPT !.state = "applied", !.answer = server']
  OBVIOUS
<1>4. /\ v \in Mutation /\ v.kind = "rename" /\ v.state = "applied" /\ v.answer = server'
      /\ v.sender = mutations[m].sender
  BY <1>1, <1>2, <1>3, Parts DEF SlotType, Mutation
<1>5. mutations' = [mutations EXCEPT ![m] = v]
  BY <1>1, <1>3, Parts DEF SlotType
<1>6. /\ SlotType' /\ mutations'[m] = v
      /\ \A n \in Slots : n # m => mutations'[n] = mutations[n]
  BY <1>4, <1>5, SlotFacts, Parts
<1>7. \A n \in Slots : /\ mutations'[n].kind = mutations[n].kind
                       /\ mutations'[n].sender = mutations[n].sender
                       /\ mutations'[n].state = "none" <=> mutations[n].state = "none"
  BY <1>1, <1>4, <1>6
<1>8. \A n \in Slots : AppliedRename(n)' =>
        \/ AppliedRename(n) /\ mutations'[n].answer = mutations[n].answer
        \/ /\ ~Ending(server) /\ mutations'[n].answer \in Record
           /\ mutations'[n].answer.name >= server.name
           /\ server' # Gone => server'.name >= mutations'[n].answer.name
  <2>1. /\ ~Ending(server) /\ mutations'[m].answer \in Record
        /\ mutations'[m].answer.name >= server.name
        /\ server' # Gone => server'.name >= mutations'[m].answer.name
    <3>1. mutations'[m].answer = server'
      BY <1>4, <1>6
    <3>2. server'.name >= server.name /\ server'.name >= server'.name
      BY <1>2
    <3> QED
      BY <1>1, <1>2, <3>1, <3>2
  <2>2. \A n \in Slots : n # m /\ AppliedRename(n)' =>
          AppliedRename(n) /\ mutations'[n].answer = mutations[n].answer
    BY <1>6 DEF AppliedRename
  <2> QED
    BY <2>1, <2>2
<1>9. \A n \in Slots : AppliedDelete(n)' => AppliedDelete(n)
  BY <1>4, <1>6 DEF AppliedDelete
<1>10. server # Gone /\ server'.name >= server.name
  BY <1>1, <1>2 DEF Ending
<1> QED
  BY <1>1, <1>2, <1>6, <1>7, <1>8, <1>9, <1>10, ServerKeeps

LEMMA ApplyDeleteKeeps ==
  ASSUME IInv, NEW m \in Slots, ApplyDelete(m)
  PROVE  IInv'
<1>1. /\ server \in Record
      /\ UNCHANGED <<changes, query, view, dialog, history>>
      /\ server' = [server EXCEPT !.life.phase = "deleting"]
      /\ mutations' = [mutations EXCEPT ![m].state = "applied"]
      /\ mutations[m].kind = "delete" /\ mutations[m].state = "sent"
      /\ changes \in 0..MaxChanges
  BY Parts DEF ApplyDelete, ServerType
<1>2. server' \in Record /\ server'.name = server.name /\ Deleting(server')
  BY <1>1, NewDeletion
<1>3. PICK v : v = [mutations[m] EXCEPT !.state = "applied"]
  OBVIOUS
<1>4. /\ v \in Mutation /\ v.kind = "delete" /\ v.state = "applied"
      /\ v.sender = mutations[m].sender
  BY <1>1, <1>3, Parts DEF SlotType, Mutation
<1>5. mutations' = [mutations EXCEPT ![m] = v]
  BY <1>1, <1>3, Parts DEF SlotType
<1>6. /\ SlotType' /\ mutations'[m] = v
      /\ \A n \in Slots : n # m => mutations'[n] = mutations[n]
  BY <1>4, <1>5, SlotFacts, Parts
<1>7. \A n \in Slots : /\ mutations'[n].kind = mutations[n].kind
                       /\ mutations'[n].sender = mutations[n].sender
                       /\ mutations'[n].state = "none" <=> mutations[n].state = "none"
  BY <1>1, <1>4, <1>6
<1>8. \A n \in Slots : AppliedRename(n)' =>
        AppliedRename(n) /\ mutations'[n].answer = mutations[n].answer
  BY <1>4, <1>6 DEF AppliedRename
<1>9. server'.name >= server.name /\ Ending(server') /\ server # Gone
  BY <1>1, <1>2, RecordFacts, DetailAssumption DEF Ending
<1> QED
  BY <1>1, <1>2, <1>6, <1>7, <1>8, <1>9, ServerKeeps

LEMMA PublishKeeps ==
  ASSUME IInv, NEW l \in Lifecycles, Publish(l)
  PROVE  IInv'
<1>1. /\ server \in Record /\ ~Ending(server)
      /\ changes < MaxChanges /\ changes' = changes + 1 /\ changes \in 0..MaxChanges
      /\ UNCHANGED <<query, view, dialog, mutations, history>>
      /\ server' = [server EXCEPT !.life = l]
  BY Parts DEF Publish, ServerType, Ending
<1>2. server' \in Record /\ server'.name = server.name
  BY <1>1, NewLife
<1>3. changes' \in 0..MaxChanges
  BY <1>1, DetailAssumption
<1>4. server'.name >= server.name /\ server # Gone
  BY <1>1, <1>2, RecordFacts, DetailAssumption
<1>5. SlotType' /\ \A m \in Slots : /\ AppliedRename(m)' => AppliedRename(m)
                                    /\ AppliedDelete(m)' => AppliedDelete(m)
  BY <1>1, Parts DEF SlotType, AppliedRename, AppliedDelete
<1> QED
  BY <1>1, <1>2, <1>3, <1>4, <1>5, ServerKeeps

LEMMA RemoveKeeps ==
  ASSUME IInv, Remove
  PROVE  IInv'
<1>1. /\ UNCHANGED <<changes, query, view, dialog, mutations, history>>
      /\ server' = Gone /\ changes \in 0..MaxChanges
  BY Parts DEF Remove, ServerType
<1>2. SlotType' /\ \A m \in Slots : /\ AppliedRename(m)' => AppliedRename(m)
                                    /\ AppliedDelete(m)' => AppliedDelete(m)
  BY <1>1, Parts DEF SlotType, AppliedRename, AppliedDelete
<1> QED
  BY <1>1, <1>2, ServerKeeps DEF Ending

\* The answer of a rename becomes the record on the page.
LEMMA RenameSucceedsKeeps ==
  ASSUME IInv, NEW m \in Slots, RenameSucceeds(m)
  PROVE  IInv'
<1>1. PICK answer : answer = mutations[m].answer
  OBVIOUS
<1>2. /\ AppliedRename(m) /\ mutations[m].state # "none" /\ data' = answer
      /\ mutations' = [mutations EXCEPT ![m] = NoMutation]
      /\ dialog' \in IF Own(m) THEN {NoDialog} ELSE Redrafted(answer)
      /\ failed' = FALSE /\ invalid' = FALSE
      /\ Observe(answer, TRUE)
      /\ renamed' = IF answer.name > renamed THEN answer.name ELSE renamed
      /\ overlap' = (fetch.state = "read" /\ Behind(fetch.read, renamed'))
      /\ undone' = Behind(answer, renamed)
      /\ UNCHANGED <<server, changes, fetch, page, accepted, strayed>>
  BY <1>1 DEF RenameSucceeds, Ended, AppliedRename
<1>3. /\ answer \in Record /\ answer.name \in 0..MaxRenames /\ answer.name \in Int
      /\ renamed \in 0..MaxRenames /\ renamed \in Int
      /\ server # Gone => server.name \in Int /\ server.name >= answer.name
      /\ answer # NoRecord
  BY <1>1, <1>2, RecordFacts, NamesAreNumbers, Parts, DetailAssumption
     DEF NameInv, HistoryType, ServerType, Answers
<1>4. ViewType' /\ WaitInv'
  BY <1>2, ObserveKeeps, Parts DEF ViewType, Pages
<1>5. /\ DialogType' /\ dialog'.kind \in {"none", dialog.kind}
      /\ ~Own(m) => dialog'.kind = dialog.kind
  BY <1>2, NothingFacts, RedraftedFacts, Parts DEF DialogType
<1>6. /\ SlotType'
      /\ \A n \in Slots : /\ Own(n)' => Own(n) /\ mutations'[n] = mutations[n] /\ ~Own(m)
                          /\ AppliedRename(n)' => AppliedRename(n) /\ mutations'[n] = mutations[n]
                          /\ AppliedDelete(n)' => AppliedDelete(n)
      /\ ~strayed => \A n \in Slots : mutations'[n].state = "none"
  BY <1>2, EndedFacts
<1>7. ServerType' /\ FetchType' /\ DataType'
  BY <1>2, <1>3, Parts DEF ServerType, FetchType, DataType
<1>8. renamed' \in 0..MaxRenames /\ renamed' \in Int
  BY <1>2, <1>3
<1>9. overlap' \in BOOLEAN /\ undone' \in BOOLEAN
  BY <1>2 DEF Behind
<1>10. HistoryType'
  BY <1>2, <1>8, <1>9, Parts DEF HistoryType
<1>11. ~strayed => ~undone' /\ ~accepted
  <2> SUFFICES ASSUME ~strayed PROVE ~undone' /\ ~accepted
    OBVIOUS
  <2>1. answer.name >= renamed /\ ~accepted
    BY <1>1, <1>2, Parts DEF StrayInv
  <2>2. ~(answer.name < renamed)
    BY <1>3, <2>1
  <2>3. ~Behind(answer, renamed)
    BY <2>1, <2>2 DEF Behind
  <2> QED
    BY <1>2, <2>1, <2>3
<1>12. NameInv'
  <2>1. server' # Gone => server'.name >= renamed'
    BY <1>2, <1>3, Parts DEF NameInv
  <2>2. fetch.state = "read" /\ fetch.read # Gone /\ ~overlap' => fetch.read.name >= renamed'
    <3> SUFFICES ASSUME fetch.state = "read", ~overlap'
                 PROVE  fetch.read.name >= renamed'
      OBVIOUS
    <3>1. fetch.read.name \in Int
      BY NamesAreNumbers, Parts DEF FetchType
    <3>2. ~(fetch.read.name < renamed')
      BY <1>2 DEF Behind
    <3> QED
      BY <1>8, <3>1, <3>2
  <2>3. ~undone' => answer.name >= renamed'
    <3> SUFFICES ASSUME ~undone' PROVE answer.name >= renamed'
      OBVIOUS
    <3>1. ~(answer.name < renamed)
      BY <1>2 DEF Behind
    <3> QED
      BY <1>2, <1>3, <3>1
  <2>4. \A n \in Slots : AppliedRename(n)' =>
          /\ mutations'[n].answer \in Record
          /\ server # Gone => server.name >= mutations'[n].answer.name
    BY <1>6, Parts DEF NameInv
  <2>5. fetch.state = "read" => fetch.read # NoRecord
    BY Parts DEF NameInv
  <2> QED
    BY <1>2, <2>1, <2>2, <2>3, <2>4, <2>5 DEF NameInv
<1>13. DeletionInv'
  <2>1. accepted \/ (\E n \in Slots : AppliedDelete(n)') => Ending(server)
    BY <1>6, Parts DEF DeletionInv
  <2>2. accepted /\ fetch.state = "read" => Ending(fetch.read) \/ (strayed /\ overlap')
    BY <1>2, <1>11 DEF Behind, Ending
  <2>3. accepted => Deleting(data') \/ (strayed /\ undone')
    BY <1>2, <1>11 DEF Behind
  <2>4. page = "away" => fetch.state = "idle"
    BY Parts DEF DeletionInv
  <2> QED
    BY <1>2, <2>1, <2>2, <2>3, <2>4 DEF DeletionInv, DeletionIsShown, Ending, Deleting
<1>14. OwnInv'
  BY <1>2, <1>3, <1>5, <1>6, Parts DEF OwnInv
<1>15. StrayInv'
  BY <1>2, <1>6, <1>11 DEF StrayInv, AppliedRename
<1> QED
  BY <1>4, <1>5, <1>6, <1>7, <1>10, <1>12, <1>13, <1>14, <1>15, PrimedParts

\* An accepted deletion marks the record, and drops what the page had asked, but
\* for a first load: the page of the visit that sent the deletion has none.
LEMMA DeletionAcceptedKeeps ==
  ASSUME IInv, NEW m \in Slots, DeletionAccepted(m)
  PROVE  IInv'
<1>1. /\ AppliedDelete(m) /\ mutations[m].state # "none"
      /\ mutations' = [mutations EXCEPT ![m] = NoMutation]
      /\ dialog' \in IF Own(m) THEN {NoDialog} ELSE {dialog}
      /\ accepted' = TRUE /\ invalid' = TRUE
      /\ page' = Navigated(m)
      /\ fetch' = IF page = "away" \/ FirstLoad THEN fetch ELSE Sent
      /\ Observe(data, TRUE)
      /\ overlap' = (overlap \/ (fetch'.state = "read" /\ ~Deleting(fetch'.read)))
      /\ UNCHANGED <<server, changes, data, failed, renamed, undone, strayed>>
  BY DEF DeletionAccepted, Ended, AppliedDelete
<1>2. page' = "away" <=> page = "away"
  BY <1>1 DEF Navigated
<1>3. ViewType' /\ WaitInv'
  <2>1. page' \in Pages
    BY <1>1, Parts DEF Navigated, ViewType, Pages
  <2> QED
    BY <1>1, <1>2, <2>1, ObserveKeeps, Parts DEF Navigated
<1>4. /\ DialogType' /\ dialog'.kind \in {"none", dialog.kind}
      /\ ~Own(m) => dialog'.kind = dialog.kind
  BY <1>1, NothingFacts, Parts DEF DialogType
<1>5. /\ SlotType'
      /\ \A n \in Slots : /\ Own(n)' => Own(n) /\ mutations'[n] = mutations[n] /\ ~Own(m)
                          /\ AppliedRename(n)' => AppliedRename(n) /\ mutations'[n] = mutations[n]
                          /\ AppliedDelete(n)' => AppliedDelete(n)
      /\ ~strayed => \A n \in Slots : mutations'[n].state = "none"
  BY <1>1, EndedFacts
<1>6. FirstLoad => strayed
  <2> SUFFICES ASSUME data = NoRecord, ~strayed PROVE FALSE
    BY DEF FirstLoad
  <2>1. Own(m)
    BY <1>1, Parts DEF StrayInv
  <2> QED
    BY <2>1, Parts DEF OwnInv
<1>7. /\ fetch' = fetch \/ fetch' = Sent
      /\ fetch'.state = "read" => fetch' = fetch /\ strayed
      /\ page' # "away" => fetch'.state # "idle"
      /\ page' = "away" => fetch'.state = "idle"
  <2>1. Sent.state = "sent"
    BY DEF Sent
  <2>2. page = "away" => fetch.state = "idle"
    BY Parts DEF DeletionInv
  <2> QED
    BY <1>1, <1>2, <1>6, <2>1, <2>2 DEF FirstLoad
<1>8. ServerType' /\ FetchType' /\ DataType'
  BY <1>1, <1>7, Parts DEF ServerType, FetchType, DataType, Answers, Sent
<1>9. overlap' \in BOOLEAN /\ (overlap => overlap')
  BY <1>1, Parts DEF HistoryType
<1>10. HistoryType'
  BY <1>1, <1>9, Parts DEF HistoryType
<1>11. NameInv'
  BY <1>1, <1>5, <1>7, <1>9, Parts DEF NameInv
<1>12. DeletionInv'
  <2>1. Ending(server)
    BY <1>1, Parts DEF DeletionInv
  <2>2. fetch'.state = "read" => Ending(fetch'.read) \/ (strayed /\ overlap')
    BY <1>1, <1>7 DEF Ending
  <2> QED
    BY <1>1, <1>7, <2>1, <2>2 DEF DeletionInv, DeletionIsShown, Ending, Deleting
<1>13. OwnInv'
  BY <1>1, <1>2, <1>4, <1>5, Parts DEF OwnInv
<1>14. StrayInv'
  <2>1. undone => strayed
    BY Parts DEF StrayInv
  <2>2. \A n \in Slots : AppliedRename(n)' => mutations'[n].state # "none"
    BY DEF AppliedRename
  <2> QED
    BY <1>1, <1>5, <2>1, <2>2 DEF StrayInv
<1> QED
  BY <1>3, <1>4, <1>5, <1>8, <1>10, <1>11, <1>12, <1>13, <1>14, PrimedParts

LEMMA StutterKeeps ==
  ASSUME IInv, UNCHANGED vars
  PROVE  IInv'
<1>1. UNCHANGED <<server, changes, query, view, dialog, mutations, history>>
  BY DEF vars
<1>2. ViewType' /\ WaitInv'
  BY <1>1, ViewKept, Parts DEF query, history
<1>3. ServerType' /\ DialogType'
  BY <1>1, Parts DEF ServerType, DialogType
<1>4. OwnInv' /\ StrayInv' /\ SlotType'
  BY <1>1, SendersKept DEF query, view, history, past
<1>5. strayed' = strayed /\ strayed \in BOOLEAN
  BY <1>1, Parts DEF HistoryType, history, past
<1> QED
  BY <1>1, <1>2, <1>3, <1>4, <1>5, Aside DEF view, history, past

LEMMA NextIInv == IInv /\ [Next]_vars => IInv'
<1> SUFFICES ASSUME IInv, [Next]_vars PROVE IInv'
  OBVIOUS
<1>1. CASE Poll \/ Fail
  BY <1>1, RequestKeeps
<1>2. CASE Read
  BY <1>2, ReadKeeps
<1>3. CASE Answer
  BY <1>3, AnswerKeeps
<1>4. CASE Tick
  BY <1>4, TickKeeps
<1>5. CASE Interact \/ (\E kind \in {"rename", "delete"} : Open(kind)) \/ CloseRename \/ CloseDelete
  BY <1>5, HeaderKeeps
<1>6. CASE Leave
  BY <1>6, LeaveKeeps
<1>7. CASE Return
  BY <1>7, ReturnKeeps
<1>8. CASE \E draft \in Drafts : EditName(draft)
  BY <1>8, EditKeeps
<1>9. CASE SubmitRename \/ ConfirmDelete \/ \E kind \in {"rename", "delete"} : SendFromRow(kind)
  BY <1>9, SendKeeps
<1>10. CASE \E m \in Slots : ApplyRename(m)
  BY <1>10, ApplyRenameKeeps
<1>11. CASE \E m \in Slots : RenameSucceeds(m)
  BY <1>11, RenameSucceedsKeeps
<1>12. CASE \E m \in Slots : ApplyDelete(m)
  BY <1>12, ApplyDeleteKeeps
<1>13. CASE \E m \in Slots : DeletionAccepted(m)
  BY <1>13, DeletionAcceptedKeeps
<1>14. CASE \E m \in Slots : RenameFails(m) \/ DeletionFails(m)
  BY <1>14, FailureKeeps
<1>15. CASE \E l \in Lifecycles : Publish(l)
  BY <1>15, PublishKeeps
<1>16. CASE Remove
  BY <1>16, RemoveKeeps
<1>17. CASE UNCHANGED vars
  BY <1>17, StutterKeeps
<1> QED
  BY <1>1, <1>2, <1>3, <1>4, <1>5, <1>6, <1>7, <1>8, <1>9, <1>10, <1>11, <1>12, <1>13,
     <1>14, <1>15, <1>16, <1>17 DEF Next

LEMMA Invariant == Spec => []IInv
  BY InitIInv, NextIInv, PTL DEF Spec

-----------------------------------------------------------------------------
\* The page says that the console is unavailable only when it has held a
\* gateway that waits for it for the whole window without a break, whatever
\* the control plane publishes and however often the page is left and opened
\* (resolveConsoleWaitStart, useConsoleWaitTracker).
THEOREM NoConsoleIsGivenUpEarly == Spec => []UnavailableIsEarned
<1>1. IInv => UnavailableIsEarned
  BY DEF IInv, WaitInv, UnavailableIsEarned
<1> QED
  BY <1>1, Invariant, PTL

\* What the server accepted is what the page shows, with any number of mutations
\* under way, of this visit, of earlier ones and from the collection: a new name
\* and a deletion, also on a page that is opened later on the record it left
\* behind.  Until the next answer a request that was left to finish may still
\* show what it had read before, and, only once a mutation has gone on beside
\* those of the visit, a rename's late answer what another had overtaken
\* (setQueryData of the rename, invalidateQueries of the deletion).
THEOREM AcceptedMutationsAreShown == Spec => []MutationsAreShown
<1>1. IInv => MutationsAreShown
  BY DEF IInv, NameInv, DeletionInv, StrayInv, MutationsAreShown, RenameIsShown
<1> QED
  BY <1>1, Invariant, PTL
=============================================================================
