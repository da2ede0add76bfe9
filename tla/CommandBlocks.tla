---------------------------- MODULE CommandBlocks ----------------------------
(***************************************************************************)
(* The command blocks of the console.  The connection steps of a gateway   *)
(* show two commands with slots that the user edits in place: a slot's     *)
(* text lives in the DOM, its value in the page, and slots of one marker   *)
(* mirror each other in both commands.  The setup view of a service        *)
(* account shows a script and, once, the secret, with copy buttons that    *)
(* say how the copy went.  Commands are built by ShellCommands, shown      *)
(* plain at first and highlighted asynchronously.                          *)
(*                                                                         *)
(* The record behind them comes from a query that is polled, so a command  *)
(* can change, or go, at any time.  The two views are never shown together.*)
(* Abstracted: colours, the caret, which sections are expanded, whether    *)
(* the secret is masked, and the plain values, which the library copies.   *)
(***************************************************************************)
EXTENDS ShellCommands, FiniteSets

CONSTANTS
  Records,    \* the states of the record: text, absent values
  Default,    \* the first value of every slot
  Pasted,     \* what a slot reads after a keystroke or a paste
  MaxChanges, \* bound: changes of the record
  MaxWrites   \* bound: clipboard writes under way

ASSUME BlocksAssumption ==
  /\ Records \subseteq [text : Seq(Safe \cup Unsafe), absent : SUBSET Values]
  /\ Default \in Seq(Safe) /\ Pasted \subseteq Seq(Safe \cup Unsafe)
  /\ Len(Markers) = 3
  /\ MaxChanges \in Nat /\ MaxWrites \in Nat \ {0}

VARIABLES
  view,     \* the view that is open: "connect", "account" or "none"
  record,   \* the record behind it
  values,   \* the page's value of each marker
  parts,    \* what was highlighted last, by block: template, its parts
  template, \* the command of each block with markers in its slots
  jobs,     \* the templates being highlighted, by block: template, parts
  dom,      \* the texts of the slots shown, by block and place
  active,   \* the slot with the focus: block, place
  shifted,  \* history: slots that had the focus when another marker's slot,
            \* of another value, came to their place
  changes,  \* changes of the record so far
  writes,   \* clipboard writes under way: block, number
  copied,   \* the blocks whose button says "copied"
  failed,   \* the blocks whose alert says that copying failed
  outcome   \* history: how the write of a block that ended last, ended

slots == <<values, dom, active, shifted>>
feedback == <<writes, copied, failed, outcome>>
blocksVars == <<view, record, template, parts, jobs, changes, slots, feedback>>

Editable == {"setup", "sandbox"}
Blocks == {"setup", "sandbox", "script"}
Buttons == {"script", "secret"}   \* the copy buttons that report failure
NoSlot == <<"none", 0>>
None == [template |-> <<"none">>, list |-> <<>>]

providerMarker == Markers[1]
modelMarker == Markers[2]
sandboxMarker == Markers[3]
MarkerTexts == {Markers[m] : m \in DOMAIN Markers}
MarkersOf(b) == CASE b = "setup" -> <<providerMarker, modelMarker>>
                  [] b = "sandbox" -> <<sandboxMarker, modelMarker>>
                  [] b = "script" -> <<>>

\* The command of a block, with these texts in its slots.
Command(b, v, r) ==
  CASE b = "setup" ->
         buildSetupScript(r, v[providerMarker], v[modelMarker])
    [] b = "sandbox" ->
         buildSandboxCreateCommand(v[sandboxMarker], v[modelMarker])
    [] b = "script" -> buildOpenShellServiceAccountScript(Word, r)

InView(b) == view = (IF b \in Editable THEN "connect" ELSE "account")
TemplateOf(b, r) ==
  IF InView(b) THEN Command(b, [m \in MarkerTexts |-> m], r) ELSE Undefined
Mounted(b) == template[b] # Undefined

\* What the copy button of a block copies.
CopyText(b) == Command(b, values, record)

Highlighted(b, t) ==
  [template |-> t, list |-> highlightTemplate(t, MarkersOf(b))]
FieldsOf(p) == {i \in DOMAIN p.list : p.list[i].kind = "field"}
MarkerAt(b, i) == parts[b].list[i].value
Slots == UNION {{b} \X DOMAIN dom[b] : b \in Editable}

\* Parts are shown: of an editable block whatever template they are of, of a
\* script only those of the script as it is.
TakesParts(b) ==
  parts[b] # None /\ (b \in Editable \/ parts[b].template = template[b])

Shown(b) ==
  IF TakesParts(b)
  THEN FlattenSeq([i \in DOMAIN parts[b].list |->
         IF i \in DOMAIN dom[b] THEN dom[b][i] ELSE parts[b].list[i].value])
  ELSE CopyText(b)

-----------------------------------------------------------------------------
\* Highlighting and the record.

\* The effect's flag: only the highlighting of the current template is taken.
TakesJob(b, job) == job.template = template[b]

\* A slot that keeps its place keeps its text, under the focus whatever its value
\* is now, and otherwise as long as its value is the same.
NextValue(job, i) == values[job.list[i].value]
SameValue(b, i, job) == values[MarkerAt(b, i)] = NextValue(job, i)
KeepsText(b, i, job) ==
  i \in DOMAIN dom[b] /\ (<<b, i>> = active \/ SameValue(b, i, job))

\* The parts replace what is shown.  They are keyed by place.
HighlightDone(b) ==
  \E job \in jobs[b] :
    /\ jobs' = [jobs EXCEPT ![b] = @ \ {job}]
    /\ IF TakesJob(b, job)
       THEN /\ parts' = [parts EXCEPT ![b] = job]
            /\ dom' = [dom EXCEPT ![b] =
                 [i \in FieldsOf(job) |->
                    IF KeepsText(b, i, job) THEN dom[b][i] ELSE NextValue(job, i)]]
            /\ active' = IF active[1] = b /\ active[2] \notin FieldsOf(job)
                         THEN NoSlot ELSE active
            /\ shifted' =
                 {s \in shifted : s[1] = b => s[2] \in FieldsOf(job)
                                              /\ KeepsText(b, s[2], job)}
                 \cup {s \in {active} \cap ({b} \X FieldsOf(job)) :
                         ~SameValue(b, s[2], job)}
       ELSE UNCHANGED <<parts, dom, active, shifted>>
    /\ UNCHANGED <<view, record, template, values, changes, feedback>>

\* The query brings another record.  A new template is highlighted beside the
\* parts on show; without one the block goes, and its slots with it.
RecordChanges(r) ==
  /\ changes < MaxChanges /\ r # record
  /\ record' = r
  /\ changes' = changes + 1
  /\ template' = [b \in Blocks |-> TemplateOf(b, r)]
  /\ LET Gone(b) == b \in Editable /\ template'[b] = Undefined
     IN /\ jobs' = [b \in Blocks |->
             IF template'[b] \notin {Undefined, template[b]}
             THEN jobs[b] \cup {Highlighted(b, template'[b])} ELSE jobs[b]]
        /\ parts' = [b \in Blocks |-> IF Gone(b) THEN None ELSE parts[b]]
        /\ dom' = [b \in Blocks |-> IF Gone(b) THEN <<>> ELSE dom[b]]
        /\ active' = IF active # NoSlot /\ Gone(active[1]) THEN NoSlot
                     ELSE active
        /\ shifted' = {s \in shifted : ~Gone(s[1])}
  /\ UNCHANGED <<view, values, feedback>>

-----------------------------------------------------------------------------
\* The slots.

Focus(slot) ==
  /\ slot \in Slots /\ slot # active
  /\ active' = slot
  /\ UNCHANGED <<view, record, template, parts, jobs, changes, values, dom,
                 shifted, feedback>>

Blur ==
  /\ active # NoSlot
  /\ active' = NoSlot
  /\ UNCHANGED <<view, record, template, parts, jobs, changes, values, dom,
                 shifted, feedback>>

\* handleInput writes the cleaned text back into the slot.
Written(raw) == sanitizeFieldValue(raw)

\* Mutant: a value reaches only the slots of the command it was typed into.
MirrorsOwn(b, i, marker, value) ==
  b = active[1] /\ MarkerAt(b, i) = marker /\ values[marker] # value

\* The slots that the new value of a marker is pushed into.
Mirrors(b, i, marker, value) ==
  <<b, i>> # active /\ MarkerAt(b, i) = marker /\ values[marker] # value

\* A keystroke or a paste in the slot with the focus: its text, its value and,
\* after the render, the slots that mirror it.
Input(raw) ==
  /\ active # NoSlot
  /\ LET marker == MarkerAt(active[1], active[2])
         clean == sanitizeFieldValue(raw)
     IN /\ values' = [values EXCEPT ![marker] = clean]
        /\ dom' = [b \in Blocks |->
             [i \in DOMAIN dom[b] |->
                CASE <<b, i>> = active -> Written(raw)
                  [] <<b, i>> # active /\ Mirrors(b, i, marker, clean) -> clean
                  [] OTHER -> dom[b][i]]]
        /\ shifted' = {s \in shifted \ {active} :
                         ~Mirrors(s[1], s[2], marker, clean)}
  /\ UNCHANGED <<view, record, template, parts, jobs, active, changes, feedback>>

-----------------------------------------------------------------------------
\* The copy buttons of the setup view.

\* A script that is missing shows a warning and no button.
ClickCopy(b) ==
  /\ view = "account"
  /\ b = "script" => Mounted(b)
  /\ \E n \in 1..MaxWrites :
       /\ \A w \in writes : w.n # n
       /\ writes' = writes \cup {[block |-> b, n |-> n]}
  /\ UNCHANGED <<view, record, template, parts, jobs, changes, slots, copied,
                 failed, outcome>>

\* The browser ends a write, in any order; it may refuse one.
CopyEnds(w, ok) ==
  /\ w \in writes
  /\ writes' = writes \ {w}
  /\ copied' = IF ok THEN copied \cup {w.block} ELSE copied \ {w.block}
  /\ failed' = IF ok THEN failed \ {w.block} ELSE failed \cup {w.block}
  /\ outcome' = [outcome EXCEPT ![w.block] = IF ok THEN "written" ELSE "refused"]
  /\ UNCHANGED <<view, record, template, parts, jobs, changes, slots>>

TooltipHides(b) ==
  /\ b \in copied
  /\ copied' = copied \ {b}
  /\ UNCHANGED <<view, record, template, parts, jobs, changes, slots, writes,
                 failed, outcome>>

BlocksInit ==
  /\ view \in {"none", "connect", "account"}
  /\ record \in Records
  /\ values = [m \in MarkerTexts |-> Default]
  /\ parts = [b \in Blocks |-> None]
  /\ template = [b \in Blocks |-> TemplateOf(b, record)]
  /\ jobs = [b \in Blocks |->
               IF Mounted(b) THEN {Highlighted(b, template[b])} ELSE {}]
  /\ dom = [b \in Blocks |-> <<>>]
  /\ active = NoSlot /\ shifted = {}
  /\ changes = 0
  /\ writes = {} /\ copied = {} /\ failed = {}
  /\ outcome = [b \in Buttons |-> "none"]

BlocksNext ==
  \/ \E b \in Blocks : HighlightDone(b)
  \/ \E r \in Records : RecordChanges(r)
  \/ \E slot \in Slots : Focus(slot)
  \/ Blur
  \/ \E raw \in Pasted : Input(raw)
  \/ \E b \in Buttons : ClickCopy(b) \/ TooltipHides(b)
  \/ \E w \in writes, ok \in BOOLEAN : CopyEnds(w, ok)

BlocksSpec == BlocksInit /\ [][BlocksNext]_blocksVars

-----------------------------------------------------------------------------
\* Type invariant.
BlocksTypeOK ==
  /\ values \in [MarkerTexts -> Seq(Safe)]
  /\ \A b \in Blocks :
       /\ DOMAIN dom[b] = FieldsOf(parts[b])
       /\ \A i \in DOMAIN dom[b] : dom[b][i] \in Seq(Safe)
  /\ active \in Slots \cup {NoSlot} /\ shifted \subseteq Slots
  /\ changes \in 0..MaxChanges /\ Cardinality(writes) <= MaxWrites
  /\ copied \subseteq Buttons /\ failed \subseteq Buttons

\* The words that the registration of the gateway is to be read as.
AddWords ==
  LET V(v) == ValueOf(record, v)
      oidc == <<Word, V("issuer"), Word, V("client"), Word, V("audience")>>
      all == record.absent \cap {"issuer", "client", "audience"} = {}
  IN <<Word, Word, V("gateway")>> \o (IF all THEN oidc ELSE <<>>)
     \o <<V("endpoint")>>

\* Every value that the console quotes reaches the program whole, as one word,
\* whatever quotes, spaces and dollars it holds, and each flag before its value.
QuotedValuesArrive ==
  LET add == buildGatewayAddCommand(record)
      member == buildWorkspaceMembershipCommand(record.text)
  IN view # "none" =>
     /\ add # Undefined => ReadsAs(add, AddWords)
     /\ member # Undefined => ReadsAs(member, <<Word, Word, record.text, Word>>)

\* A script of a service account is offered only when no word of it is blank,
\* and both of its uses of the alias name the same gateway.
ScriptsAreComplete ==
  LET script == buildOpenShellServiceAccountScript(Word, record)
      text == record.text
      alias == text \o Word \o Word
      words == <<Word, Word, alias, Word, text, Word, text, Word, text, text,
                 Word, alias, Word>>
      exchange == buildClientCredentialsScript(record)
  IN view = "account" =>
     /\ script # Undefined =>
          ReadsAs(script, words) /\ \A i \in DOMAIN words : ~Blank(words[i])
     /\ exchange # Undefined =>
          ReadsAs(exchange, <<Word, text, Word, Word \o text, Word>>)

\* Slots of one marker agree wherever they are shown, even while the parts of an
\* old template are still on show, but for a slot that the focus kept from its
\* new value.
MirroredSlotsAgree ==
  \A s, t \in Slots \ shifted :
    MarkerAt(s[1], s[2]) = MarkerAt(t[1], t[2]) =>
      dom[s[1]][s[2]] = dom[t[1]][t[2]]

\* Whenever the parts on show are those of the current template, and always in
\* the setup view, what is shown is exactly what gets copied: markers split out
\* of the highlighted template and edited in place give, character by character,
\* the command that is built from the values.  Two things can part them: a slot
\* that the focus kept from its new value, and a value of the record that
\* contains a marker.
SettledIsCopied ==
  \A b \in Blocks :
    /\ Mounted(b)
    /\ b \in Editable => /\ parts[b] = None \/ parts[b].template = template[b]
                         /\ \A s \in shifted : s[1] # b
    /\ b = "setup" => Unmarked(buildGatewayAddCommand(record), Markers)
    => Shown(b) = CopyText(b)

\* A slot that is not empty is one word of the commands it is in, in its own
\* place, so that what is typed never reaches the shell as anything else.
FilledSlotIsAWord ==
  LET p == values[providerMarker]
      m == values[modelMarker]
      s == values[sandboxMarker]
      setup == CopyText("setup")
  IN view = "connect" /\ p # <<>> /\ m # <<>> /\ s # <<>> =>
       /\ ReadsAs(CopyText("sandbox"), <<Word, Word, s, Word, Word, m>>)
       /\ setup # Undefined =>
            ReadsAs(setup, AddWords \o <<Word, Word, p, Word>>
                                    \o <<Word, Word, p, Word, m>>)

\* The feedback of a button is that of its write that ended last: it says
\* "copied" only after the clipboard took it, and an alert stays exactly until a
\* later copy works, however the writes overtake each other.
FeedbackIsTrue ==
  \A b \in Buttons :
    /\ b \in copied => outcome[b] = "written"
    /\ b \in failed <=> outcome[b] = "refused"

\* Once the record stops changing, as the bound makes it, every command on show
\* ends up highlighted, though highlightings end in any order.
AllHighlighted ==
  \A b \in Blocks : Mounted(b) => parts[b].template = template[b]
HighlightArrives == ~AllHighlighted ~> AllHighlighted

\* A shell reads every command that the console builds as it was meant: quoted
\* values whole, scripts complete, and what is typed into a slot in its place.
CommandsReadAsMeant == QuotedValuesArrive /\ ScriptsAreComplete /\ FilledSlotIsAWord

\* What a copy button copies is what its block shows, in every block that shows
\* the value, and what the button says of the copy is true.
CopiesAreHonest == SettledIsCopied /\ MirroredSlotsAgree /\ FeedbackIsTrue
=============================================================================
