---------------------------- MODULE ShellCommands ----------------------------
(***************************************************************************)
(* The commands that the console builds for a user to paste into a shell:  *)
(* how values are quoted, how commands are put together and when they are  *)
(* withheld, how a typed value is cleaned, and how a highlighted command   *)
(* is split at its editable slots.  Pure functions of a record.            *)
(*                                                                         *)
(* A text is a sequence of characters.  A fixed word of a command is the   *)
(* word "w", and a line break is a space, as it is to the shell after a    *)
(* backslash.  Every value of a record that is not absent has the record's *)
(* text.  ShellRead is the external reference: how a shell reads a line.   *)
(***************************************************************************)
EXTENDS Naturals, Sequences, SequencesExt

CONSTANTS
  Safe,     \* the characters that need no quotes
  Unsafe,   \* the others, among them the quotes, the space and the dollar
  Markers   \* the slot markers, as a sequence of texts

Space == " "
Quote == "'"
DoubleQuote == "\""

ASSUME CommandsAssumption ==
  /\ Safe \cap Unsafe = {} /\ "w" \in Safe
  /\ {Space, Quote, DoubleQuote, "$"} \subseteq Unsafe
  /\ Markers \in Seq(Seq(Safe) \ {<<>>})
  \* They are unlike each other, and "clear of any real command text".
  /\ \A m, k \in DOMAIN Markers : m # k => ~IsPrefix(Markers[m], Markers[k])
  /\ \A m \in DOMAIN Markers : Markers[m] # <<"w">>

\* The values of a record, and what each of them is.
Values == {"gateway", "endpoint", "issuer", "client", "audience", "token"}
Word == <<"w">>
Undefined == <<"undefined">>
ValueOf(r, v) == IF v \in r.absent THEN <<>> ELSE r.text

-----------------------------------------------------------------------------
\* How a shell reads a line: outside of quotes a space ends the word, single
\* quotes hold anything, double quotes anything but an expansion, which ends
\* all that is known of the line.

Started(r) == [r EXCEPT !.started = TRUE]

ShellStep(r, c) ==
  CASE r.mode = "expanded" -> r
    [] r.mode = "single" /\ c = Quote -> [r EXCEPT !.mode = "plain"]
    [] r.mode = "single" /\ c # Quote -> [r EXCEPT !.word = Append(@, c)]
    [] r.mode \in {"plain", "double"} /\ c = "$" ->
         [r EXCEPT !.mode = "expanded"]
    [] r.mode = "double" /\ c = DoubleQuote -> [r EXCEPT !.mode = "plain"]
    [] r.mode = "double" /\ c \notin {"$", DoubleQuote} ->
         [r EXCEPT !.word = Append(@, c)]
    [] r.mode = "plain" /\ c = Quote -> [Started(r) EXCEPT !.mode = "single"]
    [] r.mode = "plain" /\ c = DoubleQuote ->
         [Started(r) EXCEPT !.mode = "double"]
    [] r.mode = "plain" /\ c = Space /\ r.started ->
         [mode |-> "plain", word |-> <<>>, started |-> FALSE,
          words |-> Append(r.words, r.word)]
    [] r.mode = "plain" /\ c = Space /\ ~r.started -> r
    [] OTHER -> [Started(r) EXCEPT !.word = Append(@, c)]

ShellRead(line) ==
  LET l == Append(line, Space)
      read[i \in 0..Len(l)] ==
        IF i = 0 THEN [mode |-> "plain", word |-> <<>>, started |-> FALSE,
                       words |-> <<>>]
        ELSE ShellStep(read[i - 1], l[i])
  IN read[Len(l)]

\* The line is read as these words: every quote closed, nothing expanded.
ReadsAs(line, words) ==
  LET r == ShellRead(line) IN r.words = words /\ r.mode = "plain"

-----------------------------------------------------------------------------
\* The texts that the commands are made of.

\* One part of a command after another.
a ++ b == a \o <<Space>> \o b

\* A text in which every character has become another text.
EachCharacter(v, to) ==
  LET done[i \in 0..Len(v)] ==
        IF i = 0 THEN <<>> ELSE done[i - 1] \o to[v[i]]
  IN done[Len(v)]

\* A quote leaves the quotes, is quoted the other way, and enters them again.
Requoted ==
  [c \in Safe \cup Unsafe |->
     IF c = Quote THEN <<Quote, DoubleQuote, Quote, DoubleQuote, Quote>>
     ELSE <<c>>]

\* Mutant: a quote inside the value is left as it is.
shellArgumentBare(v) ==
  IF v # <<>> /\ Range(v) \subseteq Safe THEN v
  ELSE <<Quote>> \o v \o <<Quote>>

shellArgument(v) ==
  IF v # <<>> /\ Range(v) \subseteq Safe THEN v
  ELSE <<Quote>> \o EachCharacter(v, Requoted) \o <<Quote>>

sanitizeFieldValue(v) ==
  EachCharacter(v, [c \in Safe \cup Unsafe |->
                      IF c \in Safe THEN <<c>> ELSE <<>>])

Blank(v) == Range(v) \subseteq {Space}

HasOidc(r) == \A v \in {"issuer", "client", "audience"} : ValueOf(r, v) # <<>>

\* The command that registers a gateway, of a gateway that is ready.
buildGatewayAddCommand(r) ==
  LET Argument(v) == shellArgument(ValueOf(r, v))
      named == Word ++ Word ++ Argument("gateway")
      oidc == Word ++ Argument("issuer") ++ Word ++ Argument("client")
              ++ Word ++ Argument("audience")
  IN IF ValueOf(r, "endpoint") = <<>> THEN Undefined
     ELSE (IF HasOidc(r) THEN named ++ oidc ELSE named) ++ Argument("endpoint")

\* Slots are written without quotes: their values were cleaned.
buildProviderCreateCommand(provider) == Word ++ Word ++ provider ++ Word
buildInferenceSetCommand(provider, model) ==
  Word ++ Word ++ provider ++ Word ++ model
buildSandboxCreateCommand(name, model) ==
  Word ++ Word ++ name ++ Word ++ Word ++ model

\* The three commands in one block, or nothing until the gateway is ready.
buildSetupScript(r, provider, model) ==
  LET add == buildGatewayAddCommand(r)
  IN IF add = Undefined THEN Undefined
     ELSE add ++ buildProviderCreateCommand(provider)
          ++ buildInferenceSetCommand(provider, model)

\* Every value of the connection of an account is there and is not blank.
hasRequiredConnectionValues(r) == \A v \in Values : ~Blank(ValueOf(r, v))

serviceAccountGatewayAlias(gateway, account) == gateway \o Word \o account

buildWorkspaceMembershipCommand(subject) ==
  IF Blank(subject) THEN Undefined
  ELSE Word ++ Word ++ shellArgument(subject) ++ Word

\* The prompt for the secret, then the registration under an alias of its own
\* and a request under that alias.
buildOpenShellServiceAccountScript(account, r) ==
  LET Argument(v) == shellArgument(ValueOf(r, v))
      alias == shellArgument(
                 serviceAccountGatewayAlias(ValueOf(r, "gateway"), account))
  IN IF ~hasRequiredConnectionValues(r) \/ Blank(account) THEN Undefined
     ELSE Word ++ Word ++ alias ++ Word ++ Argument("issuer")
          ++ Word ++ Argument("client") ++ Word ++ Argument("audience")
          ++ Argument("endpoint") ++ Word ++ alias ++ Word

\* The exchange of the secret for a token; the client is one word with its name.
buildClientCredentialsScript(r) ==
  IF ~hasRequiredConnectionValues(r) THEN Undefined
  ELSE Word ++ shellArgument(ValueOf(r, "token")) ++ Word
       ++ shellArgument(Word \o ValueOf(r, "client")) ++ Word

-----------------------------------------------------------------------------
\* Where a marker begins in a text: its first occurrence, or nowhere.
IndexOf(v, marker) ==
  LET at == {i \in 1..Len(v) : IsPrefix(marker, SubSeq(v, i, Len(v)))}
  IN IF at = {} THEN 0 ELSE CHOOSE i \in at : \A j \in at : i <= j

\* No marker occurs in a text.
Unmarked(v, markers) == \A m \in DOMAIN markers : IndexOf(v, markers[m]) = 0

\* The marker that comes first in a text, as an index of the markers.
Earliest(v, markers) ==
  LET found == {m \in DOMAIN markers : IndexOf(v, markers[m]) > 0}
      At(m) == IndexOf(v, markers[m])
  IN CHOOSE m \in found :
       \A k \in found : At(m) < At(k) \/ (At(m) = At(k) /\ m <= k)

\* One turn of the loop: the text before the next slot, and the slot.
SplitStep(s, markers) ==
  LET m == Earliest(s.rest, markers)
      at == IndexOf(s.rest, markers[m])
      before == IF at > 1
                THEN <<[kind |-> "text", value |-> SubSeq(s.rest, 1, at - 1)]>>
                ELSE <<>>
  IN CASE s.rest = <<>> -> s
       [] s.rest # <<>> /\ Unmarked(s.rest, markers) ->
            [rest |-> <<>>,
             parts |-> Append(s.parts, [kind |-> "text", value |-> s.rest])]
       [] OTHER ->
            [rest |-> SubSeq(s.rest, at + Len(markers[m]), Len(s.rest)),
             parts |-> s.parts \o before
                       \o <<[kind |-> "field", value |-> markers[m]]>>]

\* The parts of a token: the slots at the markers, the text between them.
splitOnMarkers(v, markers) ==
  LET split[i \in 0..Len(v)] ==
        IF i = 0 THEN [rest |-> v, parts |-> <<>>]
        ELSE SplitStep(split[i - 1], markers)
  IN split[Len(v)].parts

\* The tokens of the highlighter (external): cut after each space, which leaves
\* every marker in a token of its own.
Cut(tokens, c) ==
  IF tokens # <<>> /\ Last(Last(tokens)) # Space
  THEN Append(Front(tokens), Append(Last(tokens), c))
  ELSE Append(tokens, <<c>>)

Tokens(line) ==
  LET cut[i \in 0..Len(line)] ==
        IF i = 0 THEN <<>> ELSE Cut(cut[i - 1], line[i])
  IN cut[Len(line)]

\* The parts of a command: those of its tokens.
highlightTemplate(line, markers) ==
  LET tokens == Tokens(line)
  IN FlattenSeq([i \in DOMAIN tokens |-> splitOnMarkers(tokens[i], markers)])
=============================================================================
