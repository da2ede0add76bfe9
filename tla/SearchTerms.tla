----------------------------- MODULE SearchTerms -----------------------------
(***************************************************************************)
(* The search of the control plane API as the console's adapter writes it: *)
(* what the user typed becomes a quoted pattern of an ILIKE comparison, or *)
(* a quoted identifier.  ReadLiteral and ReadPattern are the external      *)
(* reference: how the API reads a quoted literal, in which two quotes are  *)
(* one, and how PostgreSQL reads the pattern in it.                        *)
(*                                                                         *)
(* A text is a sequence of characters, "a" any plain one.  Every field of  *)
(* a search is compared with the same pattern, so one comparison is kept.  *)
(***************************************************************************)
EXTENDS Naturals, Sequences, SequencesExt

Space == " "
Quote == "'"
Backslash == "\\"
Characters == {"a", Space, Quote, Backslash, "%", "_"}
NoSearch == <<"no search">>

-----------------------------------------------------------------------------
replaceAll(v, c, by) ==
  LET to[i \in 0..Len(v)] ==
        IF i = 0 THEN <<>>
        ELSE to[i - 1] \o (IF v[i] = c THEN by ELSE <<v[i]>>)
  IN to[Len(v)]

\* value.trim()
trim(v) ==
  LET kept == {i \in DOMAIN v : v[i] # Space}
  IN IF kept = {} THEN <<>>
     ELSE SubSeq(v, CHOOSE i \in kept : \A j \in kept : i <= j,
                    CHOOSE i \in kept : \A j \in kept : j <= i)

escapeSearchLiteral(v) == replaceAll(v, Quote, <<Quote, Quote>>)

\* Mutant: the backslash is escaped after the wildcards.
escapeIlikeLiteralLast(v) ==
  LET percent == replaceAll(escapeSearchLiteral(v), "%", <<Backslash, "%">>)
      both == replaceAll(percent, "_", <<Backslash, "_">>)
  IN replaceAll(both, Backslash, <<Backslash, Backslash>>)

\* The backslash first, so that the escapes of the wildcards stay single.
escapeIlikeLiteral(v) ==
  LET slashes == replaceAll(escapeSearchLiteral(v), Backslash,
                            <<Backslash, Backslash>>)
      percent == replaceAll(slashes, "%", <<Backslash, "%">>)
  IN replaceAll(percent, "_", <<Backslash, "_">>)

\* The pattern of a search, or none when nothing was typed.
gatewaySearch(v) ==
  IF trim(v) = <<>> THEN NoSearch
  ELSE <<Quote, "%">> \o escapeIlikeLiteral(trim(v)) \o <<"%", Quote>>

\* One identifier of the lookup of the clusters on show.
identifierTerm(v) == <<Quote>> \o escapeSearchLiteral(v) \o <<Quote>>

-----------------------------------------------------------------------------
\* The value of a quoted literal; "open" until it is closed, and "broken" when
\* anything follows its end.
LiteralStep(r, c) ==
  CASE r.mode = "before" /\ c = Quote -> [r EXCEPT !.mode = "open"]
    [] r.mode = "open" /\ c = Quote -> [r EXCEPT !.mode = "closed"]
    [] r.mode = "open" /\ c # Quote -> [r EXCEPT !.value = Append(@, c)]
    [] r.mode = "closed" /\ c = Quote ->
         [mode |-> "open", value |-> Append(r.value, c)]
    [] OTHER -> [r EXCEPT !.mode = "broken"]

ReadLiteral(term) ==
  LET read[i \in 0..Len(term)] ==
        IF i = 0 THEN [mode |-> "before", value |-> <<>>]
        ELSE LiteralStep(read[i - 1], term[i])
  IN read[Len(term)]

\* What a pattern matches: characters as they are, and the two wildcards.
AnyText == "any text"
AnyCharacter == "any character"
PatternStep(r, c) ==
  CASE r.escaped -> [escaped |-> FALSE, parts |-> Append(r.parts, c)]
    [] ~r.escaped /\ c = Backslash -> [r EXCEPT !.escaped = TRUE]
    [] ~r.escaped /\ c = "%" -> [r EXCEPT !.parts = Append(@, AnyText)]
    [] ~r.escaped /\ c = "_" -> [r EXCEPT !.parts = Append(@, AnyCharacter)]
    [] OTHER -> [r EXCEPT !.parts = Append(@, c)]

ReadPattern(value) ==
  LET read[i \in 0..Len(value)] ==
        IF i = 0 THEN [escaped |-> FALSE, parts |-> <<>>]
        ELSE PatternStep(read[i - 1], value[i])
  IN read[Len(value)]

\* The search of a text finds exactly what contains the text, as typed but for
\* the space around it; an identifier names itself.
ReadsAsTyped(v) ==
  LET term == ReadLiteral(gatewaySearch(v))
      pattern == ReadPattern(term.value)
      id == ReadLiteral(identifierTerm(v))
  IN /\ trim(v) # <<>> =>
          /\ term.mode = "closed" /\ ~pattern.escaped
          /\ pattern.parts = <<AnyText>> \o trim(v) \o <<AnyText>>
     /\ id.mode = "closed" /\ id.value = v

\* Whether requests with and without a search read as typed, over short texts.
MaxText == 3
SearchesReadAsTyped ==
  [s \in {"", "text"} |->
     IF s = "" THEN gatewaySearch(<<>>) = NoSearch
     ELSE \A v \in SeqOf(Characters, MaxText) : ReadsAsTyped(v)]
=============================================================================
