---------------------------- MODULE MCConsolePages ----------------------------
\* Two clusters, of which the first page of the catalog holds one and a search
\* finds the other; a blank text is no search.  Commands with every
\* character that the shell treats apart, a blank text, and records that lack a
\* value; a slot is emptied, filled, or given a space.  Between the blank text
\* and the text of four spaces, the slot of the model comes to the place of the
\* slot of the provider.
EXTENDS ConsolePages

MCTexts == {"", " ", "w"}
MCTrimmed == [t \in MCTexts |-> IF t = " " THEN "" ELSE t]
MCMatches == [s \in MCTexts \ {" "} |->
  CASE s = "" -> {"east"} [] s = "w" -> {"west"}]

MCMarkers == << <<"P", "x">>, <<"M", "x">>, <<"S", "x">> >>
MCUnsafe == {Space, Quote, DoubleQuote, "$"}
MCDefault == <<"x">>
MCPasted == {<<>>, <<"w">>, <<"w", Space>>}
MCRecords ==
  {[text |-> t, absent |-> {}] :
     t \in {<<"x">>, <<"x", Quote>>, <<DoubleQuote, "$">>, <<Space>>}}
  \cup {[text |-> <<"x", Space>>, absent |-> {"endpoint"}],
        [text |-> <<"x", Space, Space, Space, Space>>, absent |-> {"issuer"}]}
=============================================================================
