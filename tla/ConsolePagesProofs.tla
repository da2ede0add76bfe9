------------------------- MODULE ConsolePagesProofs -------------------------
(***************************************************************************)
(* The pages of the console.  The creation page, for any clusters, texts   *)
(* and searches: a gateway is requested where the field says, on a cluster *)
(* that was found for what the field held.  The commands, for any records, *)
(* values and markers: a shell reads each command as it was meant, and a   *)
(* copy button copies what its block shows and says how the copy went.     *)
(* The dialog for accounts, for any number of requests: each of its steps  *)
(* is a step of OneTimeSecret or changes nothing that OneTimeSecret speaks *)
(* of.                                                                     *)
(***************************************************************************)
EXTENDS ConsolePages, FiniteSetTheorems, WellFoundedInduction,
        SequenceTheorems, TLAPS

-----------------------------------------------------------------------------
(* Sequences and searches of the creation page.                             *)

LEMMA RangeOfConcat ==
  ASSUME NEW S, NEW s \in Seq(S), NEW t \in Seq(S)
  PROVE  s \o t \in Seq(S) /\ Range(s \o t) \subseteq Range(s) \cup Range(t)
<1>1. /\ s \o t \in Seq(S) /\ Len(s \o t) = Len(s) + Len(t)
      /\ \A i \in 1..Len(s) + Len(t) :
           (s \o t)[i] = IF i <= Len(s) THEN s[i] ELSE t[i - Len(s)]
  OBVIOUS
<1>2. /\ DOMAIN s = 1..Len(s) /\ DOMAIN t = 1..Len(t) /\ DOMAIN (s \o t) = 1..Len(s \o t)
      /\ Len(s) \in Nat /\ Len(t) \in Nat
  BY <1>1
<1>3. ASSUME NEW i \in DOMAIN (s \o t)
      PROVE  (s \o t)[i] \in Range(s) \cup Range(t)
  <2>1. CASE i <= Len(s)
    <3>1. i \in DOMAIN s /\ (s \o t)[i] = s[i]
      BY <1>1, <1>2, <2>1
    <3> QED
      BY <3>1 DEF Range
  <2>2. CASE ~(i <= Len(s))
    <3>1. i - Len(s) \in DOMAIN t /\ (s \o t)[i] = t[i - Len(s)]
      BY <1>1, <1>2, <2>2
    <3> QED
      BY <3>1 DEF Range
  <2> QED
    BY <2>1, <2>2
<1> QED
  BY <1>1, <1>3 DEF Range

LEMMA ValuesOfSeq ==
  ASSUME NEW S, NEW s \in Seq(S)
  PROVE  Range(s) \subseteq S
<1> SUFFICES ASSUME NEW i \in DOMAIN s PROVE s[i] \in S
  BY DEF Range
<1> QED
  OBVIOUS

\* What the API answers lists clusters that match the search, and nothing else.
LEMMA FoundMatches ==
  ASSUME NEW s \in Searches, NEW data \in Found(s)
  PROVE  data \in Seq(Matches[s])
<1>1. PICK found \in SUBSET Matches[s] : data = SetToSeq(found)
  BY DEF Found
<1>2. Matches[s] \subseteq Clusters /\ IsFiniteSet(Clusters)
  BY CreateAssumption
<1>3. IsFiniteSet(found)
  BY <1>1, <1>2, FS_Subset
<1>4. /\ Cardinality(found) \in Nat
      /\ \E f \in [1..Cardinality(found) -> found] : IsInjective(f)
  BY <1>3, FS_CardinalityType DEF ExistsBijection, Bijection, Injection
<1>5. data \in [1..Cardinality(found) -> found]
  BY <1>1, <1>4 DEF SetToSeq
<1>6. data \in Seq(found)
  BY <1>4, <1>5
<1> QED
  BY <1>1, <1>6

-----------------------------------------------------------------------------
(* The invariant of the creation page.                                      *)

Box == [text : Texts \cup Placements, search : Texts, open : BOOLEAN,
        focus : {box.focus}, accepted : Placements]
Query == [data : Seq(Clusters) \cup {Absent}, fetch : BOOLEAN, failed : BOOLEAN]

\* An answer belongs to its search.
CacheInv ==
  /\ debounced \in Searches
  /\ cache \in [Searches -> Query]
  /\ \A s \in Searches : cache[s].data = Absent \/ cache[s].data \in Seq(Matches[s])

\* The field and the form change together, or the form holds nothing.
ChoiceInv ==
  /\ box \in Box
  /\ form \in Placements \cup {Null}
  /\ SentAsShown

CreateInv == CacheInv /\ ChoiceInv

\* The choice is only ever what ChosenFromSearch allows.
ChosenStep ==
  \A c \in Clusters :
    (form' = c /\ form # c) => c = box.accepted \/ c \in Matches[normalizedSearch]

Good == CreateInv' /\ ChosenStep

LEMMA SearchFacts == ASSUME CreateInv PROVE normalizedSearch \in Searches
BY DEF CreateInv, ChoiceInv, Box, normalizedSearch, Searches

\* An option is the hub, one of the two lines that cannot be chosen, or a
\* cluster found for the very search in the field.
LEMMA OptionsFacts ==
  ASSUME CreateInv
  PROVE  Range(Options) \subseteq {Hub, "loading", "none"} \cup Matches[normalizedSearch]
<1> DEFINE hub == IF normalizedSearch \in HubTexts THEN <<Hub>> ELSE <<>>
           found == IF isSearchPending \/ query.data = Absent THEN <<>> ELSE query.data
           S == {Hub, "loading", "none"} \cup Matches[normalizedSearch]
<1>1. found \in Seq(Matches[normalizedSearch])
  <2>1. CASE isSearchPending \/ query.data = Absent
    <3>1. found = <<>>
      BY <2>1
    <3>2. \A T : <<>> \in Seq(T)
      OBVIOUS
    <3> QED
      BY <3>1, <3>2
  <2>2. CASE ~(isSearchPending \/ query.data = Absent)
    <3>1. query = cache[normalizedSearch] /\ normalizedSearch = debounced
      BY <2>2 DEF query, isSearchPending
    <3>2. found = query.data
      BY <2>2
    <3> HIDE DEF found
    <3> QED
      BY <2>2, <3>1, <3>2, SearchFacts DEF CreateInv, CacheInv
  <2> QED
    BY <2>1, <2>2
<1>2. hub \in Seq(S) /\ found \in Seq(S) /\ <<"loading">> \in Seq(S) /\ <<"none">> \in Seq(S)
  <2>1. Matches[normalizedSearch] \subseteq S
    OBVIOUS
  <2>2. \A T : T \subseteq S => Seq(T) \subseteq Seq(S)
    OBVIOUS
  <2>3. found \in Seq(S)
    BY <1>1, <2>1, <2>2
  <2>4. \A x \in S : <<x>> \in Seq(S)
    OBVIOUS
  <2>5. <<>> \in Seq(S)
    OBVIOUS
  <2>6. hub = <<Hub>> \/ hub = <<>>
    OBVIOUS
  <2> QED
    BY <2>3, <2>4, <2>5, <2>6
<1>3. hub \o found \in Seq(S) /\ hub \o found \o <<"loading">> \in Seq(S)
  BY <1>2
<1>4. Options \in Seq(S)
  BY <1>2, <1>3 DEF Options
<1> QED
  BY <1>4, ValuesOfSeq

-----------------------------------------------------------------------------
(* Steps that leave the queries alone.                                      *)

LEMMA CacheKept ==
  ASSUME CacheInv, UNCHANGED <<debounced, cache>>
  PROVE  CacheInv'
BY DEF CacheInv, Query

LEMMA ChooseGood ==
  ASSUME CreateInv, NEW option \in Range(Options), ChooseOption(option),
         UNCHANGED <<debounced, cache, requests>>
  PROVE  Good
<1>1. CacheInv'
  BY CacheKept DEF CreateInv
<1>2. CASE Disabled(option)
  BY <1>1, <1>2 DEF ChooseOption, CreateInv, ChoiceInv, Box, SentAsShown, Good, ChosenStep
<1>3. CASE ~Disabled(option)
  <2>1. option \in {Hub} \cup Matches[normalizedSearch]
    BY <1>3, OptionsFacts DEF Disabled
  <2>2. option \in Placements /\ Hub \notin Clusters
    BY <2>1, SearchFacts, CreateAssumption DEF Placements
  <2>3. "" \in Texts
    BY CreateAssumption
  <2>4. /\ form' = option
        /\ box' = [box EXCEPT !.text = option, !.search = "", !.accepted = option,
                              !.open = FALSE, !.focus = NoFocus]
    BY <1>3 DEF ChooseOption, Closed, CreateInv, ChoiceInv, Box
  <2>5. ChoiceInv'
    BY <2>2, <2>3, <2>4 DEF CreateInv, ChoiceInv, Box, SentAsShown
  <2> QED
    BY <1>1, <2>1, <2>2, <2>4, <2>5 DEF CreateInv, Good, ChosenStep
<1> QED
  BY <1>2, <1>3

LEMMA MenuGood ==
  ASSUME CreateInv, (\E option \in Placements \cup {"loading", "none"} : OnSelect(option)) \/ EnterOption
  PROVE  Good
<1>1. ASSUME NEW option \in Placements \cup {"loading", "none"}, OnSelect(option)
      PROVE  Good
  BY <1>1, ChooseGood DEF OnSelect
<1>2. CASE EnterOption
  <2>1. CASE box.focus \in DOMAIN Options
    <3>1. Options[box.focus] \in Range(Options)
      BY <2>1 DEF Range
    <3> QED
      BY <1>2, <2>1, <3>1, ChooseGood DEF EnterOption
  <2>2. CASE box.focus \notin DOMAIN Options
    <3>1. CacheInv'
      BY <1>2, CacheKept DEF CreateInv, EnterOption
    <3> QED
      BY <1>2, <2>2, <3>1 DEF EnterOption, CreateInv, ChoiceInv, Box, SentAsShown, Good, ChosenStep
  <2> QED
    BY <2>1, <2>2
<1> QED
  BY <1>1, <1>2

\* The choice stays with its text, is dropped, or is the accepted one.
LEMMA TurnGood ==
  ASSUME CreateInv, UNCHANGED <<debounced, cache, requests>>, box' \in Box',
         \/ form' = form /\ box'.text = box.text
         \/ form' = Null
         \/ form' = box.accepted /\ box'.text = box.accepted
  PROVE  Good
<1>1. CacheInv'
  BY CacheKept DEF CreateInv
<1>2. form' \in Placements \cup {Null} /\ SentAsShown'
  BY DEF CreateInv, ChoiceInv, Box, SentAsShown
<1>3. ChosenStep
  BY CreateAssumption DEF ChosenStep
<1> QED
  BY <1>1, <1>2, <1>3 DEF CreateInv, ChoiceInv, Good

\* What is typed, or cleared, takes the choice with it; the other keys leave
\* both, or restore both.
LEMMA FieldGood ==
  ASSUME CreateInv,
         \/ \E t \in Texts : Type(t)
         \/ \E direction \in {"down", "up"} : MoveFocus(direction)
         \/ Clear \/ ToggleMenu \/ ClickInput \/ CloseMenu \/ Escape \/ EnterOpens
  PROVE  Good
<1>1. UNCHANGED <<debounced, cache, requests>>
  BY DEF Type, MoveFocus, Clear, ToggleMenu, ClickInput, CloseMenu, Escape, EnterOpens
<1>2. Null \notin Placements /\ "" \in Texts
  BY CreateAssumption DEF Placements
<1>3. /\ box \in Box /\ box.text \in Texts \cup Placements
      /\ box.search \in Texts /\ box.accepted \in Placements
  BY DEF CreateInv, ChoiceInv, Box
<1>4. ASSUME NEW t \in Texts, Type(t)
      PROVE  box' \in Box' /\ form' = Null
  BY <1>3, <1>4 DEF Type, Box
<1>5. CASE Clear
  <2>1. box' \in Box' /\ form' = Null
    BY <1>2, <1>3, <1>5 DEF Clear, Box
  <2> QED
    BY <1>1, <2>1, TurnGood
<1>6. CASE Escape
  <2>1. box' \in Box' /\ box'.text = box.accepted /\ form' = box.accepted
    BY <1>2, <1>3, <1>6 DEF Escape, Closed, Box
  <2> QED
    BY <1>1, <2>1, TurnGood
<1>7. CASE ToggleMenu \/ ClickInput \/ CloseMenu \/ EnterOpens
  <2>1. PICK o \in BOOLEAN, f \in {box.focus, NoFocus} : box' = [box EXCEPT !.open = o, !.focus = f]
    <3>1. CASE ToggleMenu \/ ClickInput \/ EnterOpens
      <4>1. \E o \in BOOLEAN : box' = [box EXCEPT !.open = o]
        BY <1>3, <3>1 DEF ToggleMenu, ClickInput, EnterOpens, Box
      <4> QED
        BY <1>3, <4>1 DEF Box
    <3>2. CASE CloseMenu
      BY <3>2 DEF CloseMenu, Closed
    <3> QED
      BY <1>7, <3>1, <3>2
  <2>2. box' \in Box' /\ box'.text = box.text /\ form' = form
    BY <1>3, <1>7, <2>1 DEF ToggleMenu, ClickInput, CloseMenu, EnterOpens, Box
  <2> QED
    BY <1>1, <2>2, TurnGood
<1>8. ASSUME NEW direction \in {"down", "up"}, MoveFocus(direction)
      PROVE  Good
  <2>1. PICK f : box' = [box EXCEPT !.open = TRUE, !.focus = f]
    BY <1>8 DEF MoveFocus
  <2>2. box' \in Box' /\ box'.text = box.text /\ form' = form
    BY <1>3, <1>8, <2>1 DEF MoveFocus, Box
  <2> QED
    BY <1>1, <2>2, TurnGood
<1> QED
  BY <1>1, <1>4, <1>5, <1>6, <1>7, <1>8, TurnGood

\* Steps that leave the field and the choice, too.
LEMMA RequestsGood ==
  ASSUME CreateInv, EditName \/ Submit \/ \E r \in requests : ProvisionFails(r)
  PROVE  Good
<1>1. UNCHANGED <<box, form, debounced, cache>>
  BY DEF EditName, Submit, ProvisionFails
<1>2. CacheInv' /\ ChosenStep
  BY <1>1, CacheKept DEF CreateInv, ChosenStep
<1>3. CASE Submit
  <2>1. form # Null
    BY <1>3 DEF Submit, Accepted
  <2>2. requests' = requests \cup {[cluster |-> form, text |-> box.text, visit |-> visit]}
    BY <1>3 DEF Submit, Accepted
  <2> QED
    BY <1>1, <1>2, <2>1, <2>2 DEF CreateInv, ChoiceInv, Box, SentAsShown, Good
<1>4. CASE EditName \/ \E r \in requests : ProvisionFails(r)
  <2>1. requests' \subseteq requests
    BY <1>4 DEF EditName, ProvisionFails
  <2> QED
    BY <1>1, <1>2, <2>1 DEF CreateInv, ChoiceInv, Box, SentAsShown, Good
<1> QED
  BY <1>3, <1>4

-----------------------------------------------------------------------------
(* Steps of the queries and of the page.                                    *)

LEMMA WatchGood ==
  ASSUME CacheInv, NEW s \in Searches, Watch(s, cache), debounced' \in Searches
  PROVE  CacheInv'
<1>1. PICK aged \in BOOLEAN :
        cache' = [t \in Searches |->
          CASE t = s -> IF cache[t].data = Absent \/ cache[t].failed \/ aged
                        THEN Begin(cache[t]) ELSE cache[t]
            [] t # s -> Drop(cache[t])]
  BY DEF Watch
<1>2. ASSUME NEW t \in Searches
      PROVE  cache'[t] \in Query /\ cache'[t].data = cache[t].data
  BY <1>1, <1>2 DEF CacheInv, Query, Begin, Drop
<1>3. cache' \in [Searches -> Query]
  BY <1>1, <1>2
<1> QED
  BY <1>2, <1>3 DEF CacheInv

LEMMA QueryGood ==
  ASSUME CreateInv, Debounce \/ Answer \/ Fail \/ Refetch
  PROVE  Good
<1>1. UNCHANGED <<box, form, requests>>
  BY DEF Debounce, Answer, Fail, Refetch
<1>2. ChoiceInv' /\ ChosenStep
  BY <1>1 DEF CreateInv, ChoiceInv, Box, SentAsShown, ChosenStep
<1>3. CASE Debounce
  <2>1. CacheInv'
    BY <1>3, SearchFacts, WatchGood DEF Debounce, CreateInv
  <2> QED
    BY <1>2, <2>1 DEF CreateInv, Good
<1>4. CASE Answer
  <2>1. PICK data \in Found(debounced) :
          cache' = [cache EXCEPT ![debounced] = [data |-> data, fetch |-> FALSE, failed |-> FALSE]]
    BY <1>4 DEF Answer
  <2>2. debounced \in Searches /\ debounced' = debounced
    BY <1>4 DEF Answer, CreateInv, CacheInv
  <2>3. data \in Seq(Matches[debounced]) /\ Matches[debounced] \subseteq Clusters
    BY <2>2, FoundMatches, CreateAssumption
  <2>4. data \in Seq(Clusters)
    BY <2>3
  <2>5. CacheInv'
    BY <2>1, <2>2, <2>3, <2>4 DEF CreateInv, CacheInv, Query
  <2> QED
    BY <1>2, <2>5 DEF CreateInv, Good
<1>5. CASE Fail \/ Refetch
  <2>1. debounced \in Searches /\ debounced' = debounced /\ cache[debounced] \in Query
    BY <1>5 DEF Fail, Refetch, CreateInv, CacheInv
  <2>2. PICK q \in Query : q.data = cache[debounced].data /\ cache' = [cache EXCEPT ![debounced] = q]
    <3>1. CASE Fail
      <4>1. cache' = [cache EXCEPT ![debounced] = [@ EXCEPT !.fetch = FALSE, !.failed = TRUE]]
        BY <2>1, <3>1 DEF Fail, CreateInv, CacheInv, Query
      <4>2. [cache[debounced] EXCEPT !.fetch = FALSE, !.failed = TRUE] \in Query
        BY <2>1 DEF Query
      <4> QED
        BY <2>1, <4>1, <4>2 DEF Query
    <3>2. CASE Refetch
      <4>1. Begin(cache[debounced]) \in Query /\ Begin(cache[debounced]).data = cache[debounced].data
        BY <2>1 DEF Begin, Query
      <4> QED
        BY <3>2, <4>1 DEF Refetch
    <3> QED
      BY <1>5, <3>1, <3>2
  <2>3. CacheInv'
    BY <2>1, <2>2 DEF CreateInv, CacheInv
  <2> QED
    BY <1>2, <2>3 DEF CreateInv, Good
<1> QED
  BY <1>3, <1>4, <1>5

\* A page that is left or opened is as new; its requests go on.
LEMMA PageGood ==
  ASSUME CreateInv, LeavePage \/ OpenPage \/ \E r \in requests : Provisioned(r)
  PROVE  Good
<1>1. Fresh /\ requests' \subseteq requests
  BY DEF LeavePage, OpenPage, Provisioned, Left
<1>2. "" \in Texts /\ "" \in Searches /\ Hub \notin Clusters
  BY CreateAssumption DEF Searches
<1>3. ChoiceInv' /\ ChosenStep /\ debounced' \in Searches
  BY <1>1, <1>2 DEF Fresh, FreshBox, CreateInv, ChoiceInv, Box, SentAsShown, Placements, ChosenStep
<1>4. CASE OpenPage
  <2>1. CacheInv'
    BY <1>2, <1>3, <1>4, WatchGood DEF OpenPage, CreateInv
  <2> QED
    BY <1>3, <2>1 DEF CreateInv, Good
<1>5. CASE Left
  <2>1. CacheInv'
    BY <1>3, <1>5 DEF Left, Drop, CreateInv, CacheInv, Query
  <2> QED
    BY <1>3, <2>1 DEF CreateInv, Good
<1> QED
  BY <1>4, <1>5 DEF LeavePage, Provisioned

LEMMA CreateInitGood == ASSUME CreateInit PROVE CreateInv
<1>1. "" \in Texts /\ "" \in Searches
  BY CreateAssumption DEF Searches
<1>2. CacheInv
  BY <1>1 DEF CreateInit, CacheInv, Query
<1>3. ChoiceInv
  BY <1>1 DEF CreateInit, ChoiceInv, FreshBox, Box, SentAsShown, Placements
<1> QED
  BY <1>2, <1>3 DEF CreateInv

LEMMA CreateStepGood == CreateInv /\ [CreateNext]_createVars => Good
<1>1. SUFFICES ASSUME CreateInv, [CreateNext]_createVars PROVE Good
  OBVIOUS
<1>2. CASE UNCHANGED createVars
  BY <1>1, <1>2 DEF createVars, CreateInv, CacheInv, ChoiceInv, Box, Query, SentAsShown, Good, ChosenStep
<1>3. CASE (\E option \in Placements \cup {"loading", "none"} : OnSelect(option)) \/ EnterOption
  BY <1>1, <1>3, MenuGood
<1>4. CASE \/ \E t \in Texts : Type(t)
           \/ \E direction \in {"down", "up"} : MoveFocus(direction)
           \/ Clear \/ ToggleMenu \/ ClickInput \/ CloseMenu \/ Escape \/ EnterOpens
  BY <1>1, <1>4, FieldGood
<1>5. CASE EditName \/ Submit \/ \E r \in requests : ProvisionFails(r)
  BY <1>1, <1>5, RequestsGood
<1>6. CASE Debounce \/ Answer \/ Fail \/ Refetch
  BY <1>1, <1>6, QueryGood
<1>7. CASE LeavePage \/ OpenPage \/ \E r \in requests : Provisioned(r)
  BY <1>1, <1>7, PageGood
<1> QED
  BY <1>1, <1>2, <1>3, <1>4, <1>5, <1>6, <1>7 DEF CreateNext, Browser

-----------------------------------------------------------------------------
(* The pages together.                                                      *)

\* A page that is not mounted stutters.
LEMMA PagesStep ==
  [Next]_vars => [CreateNext]_createVars /\ [BlocksNext]_blocksVars /\ [DialogNext]_dialogVars
BY DEF Next, vars, Creating, Reading, Handing

LEMMA PagesStart == Init => CreateInit /\ DialogInit
BY DEF Init

\* Whatever the API has and whatever is typed, chosen, answered late or left, the
\* request for a gateway names the cluster that the field showed (the submit
\* handler and schema of the creation page), and the form holds no other choice.
THEOREM RequestsMatchTheField == Spec => []SentAsShown
<1>1. Init => CreateInv
  BY PagesStart, CreateInitGood
<1>2. CreateInv /\ [Next]_vars => CreateInv'
  BY PagesStep, CreateStepGood DEF Good
<1>3. CreateInv => SentAsShown
  BY DEF CreateInv, ChoiceInv
<1> QED
  BY <1>1, <1>2, <1>3, PTL DEF Spec

\* A cluster becomes the choice only if the API found it for the text in the
\* field, or if Escape restores it (useClusterOptions, isSearchPending): answers
\* and the debounce may come at any time.
THEOREM ChoicesAreSearched == Spec => ChosenFromSearch
<1>1. Init => CreateInv
  BY PagesStart, CreateInitGood
<1>2. CreateInv /\ [Next]_vars => CreateInv'
  BY PagesStep, CreateStepGood DEF Good
<1>3. CreateInv /\ [Next]_vars =>
        [\A c \in Clusters :
           (form' = c /\ form # c) =>
             c = box.accepted \/ c \in Matches[normalizedSearch]]_createVars
  BY PagesStep, CreateStepGood DEF Good, ChosenStep
<1> QED
  BY <1>1, <1>2, <1>3, PTL DEF Spec, ChosenFromSearch

-----------------------------------------------------------------------------
(* What a shell reads.  A reading goes over the places of a line with a      *)
(* recursive function; it is reasoned about as an automaton, by induction    *)
(* over texts in the form of a set (as in CollectionViewProofs, whose state  *)
(* and constants are another component's).                                  *)

(* Induction, over numbers and over texts.                                  *)

\* A set of numbers has a least one.
LEMMA LeastNumber ==
  ASSUME NEW T, T \subseteq Nat, T # {}
  PROVE  \E n \in T : \A m \in T : n <= m
<1> DEFINE R == OpToRel(<, Nat)
<1>1. IsWellFoundedOn(R, Nat)
  BY NatLessThanWellFounded
<1>2. R = {p \in Nat \X Nat : p[1] < p[2]}
  BY DEF OpToRel
<1> HIDE DEF R
<1>3. PICK n \in T : \A m \in T : ~ (<<m, n>> \in R)
  BY <1>1, WFMin
<1>4. ASSUME NEW m \in T
      PROVE  n <= m
  <2>1. n \in Nat /\ m \in Nat /\ <<m, n>> \in Nat \X Nat
    BY <1>3
  <2>2. ~ (m < n)
    BY <1>2, <1>3, <2>1
  <2> QED
    BY <2>1, <2>2
<1> QED
  BY <1>4

\* Induction over texts, the property given as a set: what the empty text is
\* in, and every text with one more character, all texts are in.
LEMMA TextInduction ==
  ASSUME NEW S, NEW A, <<>> \in A,
         \A s \in Seq(S), c \in S : s \in A => Append(s, c) \in A
  PROVE  Seq(S) \subseteq A
<1> SUFFICES ASSUME ~(Seq(S) \subseteq A)
             PROVE  FALSE
  OBVIOUS
<1> DEFINE T == {n \in Nat : \E s \in Seq(S) : Len(s) = n /\ s \notin A}
<1>1. PICK s0 \in Seq(S) : s0 \notin A
  OBVIOUS
<1>2. Len(s0) \in T
  BY <1>1
<1>3. PICK n \in T : \A m \in T : n <= m
  <2>1. T \subseteq Nat /\ T # {}
    BY <1>2
  <2> HIDE DEF T
  <2> QED
    BY <2>1, LeastNumber
<1>4. PICK s \in Seq(S) : Len(s) = n /\ s \notin A
  BY <1>3
<1>5. s # <<>>
  BY <1>4
<1>6. PICK t \in Seq(S), c \in S : s = Append(t, c)
  BY <1>5, SequenceEmptyOrAppend
<1>7. Len(s) = Len(t) + 1
  BY <1>6
<1>8. t \notin A
  BY <1>4, <1>6
<1>9. Len(t) \in T
  BY <1>8
<1>10. n <= Len(t)
  BY <1>3, <1>9
<1> QED
  BY <1>4, <1>7, <1>10

\* The same over numbers.
LEMMA NumberInduction ==
  ASSUME NEW A, 0 \in A, \A n \in Nat : n \in A => n + 1 \in A
  PROVE  Nat \subseteq A
<1> SUFFICES ASSUME ~(Nat \subseteq A)
             PROVE  FALSE
  OBVIOUS
<1>1. Nat \ A \subseteq Nat /\ Nat \ A # {}
  OBVIOUS
<1>2. PICK n \in Nat \ A : \A m \in Nat \ A : n <= m
  BY <1>1, LeastNumber
<1>3. n # 0 /\ n - 1 \in Nat /\ (n - 1) + 1 = n
  OBVIOUS
<1>4. n - 1 \in Nat \ A
  BY <1>3
<1> QED
  BY <1>2, <1>3, <1>4

-----------------------------------------------------------------------------
(* Automata that read a text from left to right: what a recursive function  *)
(* over the places of a text computes is where an automaton ends.           *)

IsAutomaton(M) == M.next \in [M.states \X M.chars -> M.states]

\* The states that M goes through, from r, along l.
IsTrace(M, r, l, g) ==
  /\ g \in [0..Len(l) -> M.states]
  /\ g[0] = r
  /\ \A i \in 1..Len(l) : g[i] = M.next[<<g[i - 1], l[i]>>]

\* The state that it ends in.
End(M, r, l) == (CHOOSE g : IsTrace(M, r, l, g))[Len(l)]

LEMMA NextType ==
  ASSUME NEW M, IsAutomaton(M), NEW r \in M.states, NEW c \in M.chars
  PROVE  M.next[<<r, c>>] \in M.states
  BY DEF IsAutomaton

\* A trace is extended by one character.
LEMMA TraceAppend ==
  ASSUME NEW M, IsAutomaton(M), NEW r \in M.states,
         NEW l \in Seq(M.chars), NEW c \in M.chars, NEW g, IsTrace(M, r, l, g)
  PROVE  \E h : /\ IsTrace(M, r, Append(l, c), h)
                /\ h[Len(l) + 1] = M.next[<<g[Len(l)], c>>]
<1> DEFINE h == [i \in 0..Len(l) + 1 |->
                   IF i = Len(l) + 1 THEN M.next[<<g[Len(l)], c>>] ELSE g[i]]
<1>1. Len(l) \in Nat /\ Len(Append(l, c)) = Len(l) + 1
  OBVIOUS
<1>2. h \in [0..Len(l) + 1 -> M.states]
  <2>1. g[Len(l)] \in M.states
    BY <1>1 DEF IsTrace
  <2>2. M.next[<<g[Len(l)], c>>] \in M.states
    BY <2>1, NextType
  <2> QED
    BY <1>1, <2>2 DEF IsTrace
<1>3. h[0] = r
  BY <1>1 DEF IsTrace
<1>4. ASSUME NEW i \in 1..Len(l) + 1
      PROVE  h[i] = M.next[<<h[i - 1], Append(l, c)[i]>>]
  <2>1. CASE i = Len(l) + 1
    <3>1. h[i] = M.next[<<g[Len(l)], c>>] /\ h[i - 1] = g[Len(l)]
      BY <1>1, <2>1
    <3>2. Append(l, c)[i] = c
      BY <1>1, <2>1
    <3> QED
      BY <3>1, <3>2
  <2>2. CASE i # Len(l) + 1
    <3>1. i \in 1..Len(l)
      BY <1>1, <2>2
    <3>2. h[i] = g[i] /\ h[i - 1] = g[i - 1]
      BY <1>1, <3>1
    <3>3. Append(l, c)[i] = l[i]
      BY <1>1, <3>1
    <3>4. g[i] = M.next[<<g[i - 1], l[i]>>]
      BY <3>1 DEF IsTrace
    <3> QED
      BY <3>2, <3>3, <3>4
  <2> QED
    BY <2>1, <2>2
<1>5. h[Len(l) + 1] = M.next[<<g[Len(l)], c>>]
  BY <1>1
<1> HIDE DEF h
<1>6. IsTrace(M, r, Append(l, c), h)
  BY <1>1, <1>2, <1>3, <1>4 DEF IsTrace
<1> QED
  BY <1>5, <1>6

\* Every text has a trace.
LEMMA TraceExists ==
  ASSUME NEW M, IsAutomaton(M), NEW r \in M.states
  PROVE  \A l \in Seq(M.chars) : \E g : IsTrace(M, r, l, g)
<1> DEFINE A == {l \in Seq(M.chars) : \E g : IsTrace(M, r, l, g)}
<1>1. <<>> \in A
  <2>1. PICK g : g = [i \in 0..0 |-> r]
    OBVIOUS
  <2>2. IsTrace(M, r, <<>>, g)
    BY <2>1 DEF IsTrace
  <2>3. <<>> \in Seq(M.chars)
    OBVIOUS
  <2> QED
    BY <2>2, <2>3
<1>2. ASSUME NEW l \in Seq(M.chars), NEW c \in M.chars, l \in A
      PROVE  Append(l, c) \in A
  <2>1. PICK g : IsTrace(M, r, l, g)
    BY <1>2
  <2>2. \E h : IsTrace(M, r, Append(l, c), h)
    BY <2>1, TraceAppend
  <2>3. Append(l, c) \in Seq(M.chars)
    OBVIOUS
  <2> QED
    BY <2>2, <2>3
<1>3. Seq(M.chars) \subseteq A
  <2> HIDE DEF A
  <2> QED
    BY <1>1, <1>2, TextInduction
<1> QED
  BY <1>3

\* There is one trace: what follows the transitions from a state of the
\* automaton for as long as it is in a state of it, is that trace.
LEMMA TraceUnique ==
  ASSUME NEW M, IsAutomaton(M), NEW r \in M.states, NEW l \in Seq(M.chars),
         NEW g, IsTrace(M, r, l, g),
         NEW h, h[0] = r,
         \A i \in 1..Len(l) :
           h[i - 1] \in M.states => h[i] = M.next[<<h[i - 1], l[i]>>]
  PROVE  h[Len(l)] = g[Len(l)]
<1> DEFINE A == {n \in Nat : n <= Len(l) => h[n] = g[n]}
<1>0. Len(l) \in Nat
  OBVIOUS
<1>1. 0 \in A
  BY DEF IsTrace
<1>2. ASSUME NEW n \in Nat, n \in A
      PROVE  n + 1 \in A
  <2>1. CASE n + 1 <= Len(l)
    <3>1. n + 1 \in 1..Len(l) /\ (n + 1) - 1 = n /\ n \in 0..Len(l)
      BY <1>0, <2>1
    <3>2. h[n] = g[n]
      BY <1>2, <3>1
    <3>3. g[n] \in M.states
      BY <3>1 DEF IsTrace
    <3>4. h[n + 1] = M.next[<<h[n], l[n + 1]>>]
      BY <3>1, <3>2, <3>3
    <3>5. g[n + 1] = M.next[<<g[n], l[n + 1]>>]
      BY <3>1 DEF IsTrace
    <3> QED
      BY <3>2, <3>4, <3>5
  <2>2. CASE ~ (n + 1 <= Len(l))
    BY <2>2
  <2> QED
    BY <2>1, <2>2
<1>3. Nat \subseteq A
  <2> HIDE DEF A
  <2> QED
    BY <1>1, <1>2, NumberInduction
<1> QED
  BY <1>0, <1>3

\* Every trace ends in that state.
LEMMA EndOfTrace ==
  ASSUME NEW M, IsAutomaton(M), NEW r \in M.states, NEW l \in Seq(M.chars),
         NEW g, IsTrace(M, r, l, g)
  PROVE  g[Len(l)] = End(M, r, l)
<1> DEFINE h == CHOOSE x : IsTrace(M, r, l, x)
<1>1. IsTrace(M, r, l, h)
  OBVIOUS
<1>2. End(M, r, l) = h[Len(l)]
  BY DEF End
<1> HIDE DEF h
<1>3. g[0] = r /\ \A i \in 1..Len(l) : g[i] = M.next[<<g[i - 1], l[i]>>]
  BY DEF IsTrace
<1>4. g[Len(l)] = h[Len(l)]
  BY <1>1, <1>3, TraceUnique
<1> QED
  BY <1>2, <1>4

\* So does a recursive definition of the states.
LEMMA EndOfRecursion ==
  ASSUME NEW M, IsAutomaton(M), NEW r \in M.states, NEW l \in Seq(M.chars),
         NEW h, h[0] = r,
         \A i \in 1..Len(l) :
           h[i - 1] \in M.states => h[i] = M.next[<<h[i - 1], l[i]>>]
  PROVE  h[Len(l)] = End(M, r, l)
<1>1. PICK g : IsTrace(M, r, l, g)
  BY TraceExists
<1>2. h[Len(l)] = g[Len(l)]
  BY <1>1, TraceUnique
<1> QED
  BY <1>1, <1>2, EndOfTrace

\* Where a text leads, character by character.
LEMMA EndEmpty ==
  ASSUME NEW M, IsAutomaton(M), NEW r \in M.states
  PROVE  End(M, r, <<>>) = r
<1>1. <<>> \in Seq(M.chars) /\ Len(<<>>) = 0
  OBVIOUS
<1>2. PICK g : IsTrace(M, r, <<>>, g)
  BY <1>1, TraceExists
<1>3. g[Len(<<>>)] = End(M, r, <<>>)
  BY <1>1, <1>2, EndOfTrace
<1> QED
  BY <1>1, <1>2, <1>3 DEF IsTrace

LEMMA EndType ==
  ASSUME NEW M, IsAutomaton(M), NEW r \in M.states, NEW l \in Seq(M.chars)
  PROVE  End(M, r, l) \in M.states
<1>1. PICK g : IsTrace(M, r, l, g)
  BY TraceExists
<1>2. g[Len(l)] = End(M, r, l)
  BY <1>1, EndOfTrace
<1> QED
  BY <1>1, <1>2 DEF IsTrace

LEMMA EndAppend ==
  ASSUME NEW M, IsAutomaton(M), NEW r \in M.states, NEW l \in Seq(M.chars),
         NEW c \in M.chars
  PROVE  End(M, r, Append(l, c)) = M.next[<<End(M, r, l), c>>]
<1>0. Append(l, c) \in Seq(M.chars) /\ Len(Append(l, c)) = Len(l) + 1
  OBVIOUS
<1>1. PICK g : IsTrace(M, r, l, g)
  BY TraceExists
<1>2. g[Len(l)] = End(M, r, l)
  BY <1>1, EndOfTrace
<1>3. PICK h : /\ IsTrace(M, r, Append(l, c), h)
               /\ h[Len(l) + 1] = M.next[<<g[Len(l)], c>>]
  BY <1>1, TraceAppend
<1>4. h[Len(Append(l, c))] = End(M, r, Append(l, c))
  BY <1>0, <1>3, EndOfTrace
<1> QED
  BY <1>0, <1>2, <1>3, <1>4

\* A text in two parts is read in two parts.
LEMMA EndConcat ==
  ASSUME NEW M, IsAutomaton(M), NEW r \in M.states, NEW l \in Seq(M.chars)
  PROVE  \A m \in Seq(M.chars) : End(M, r, l \o m) = End(M, End(M, r, l), m)
<1> DEFINE A == {m \in Seq(M.chars) :
                   End(M, r, l \o m) = End(M, End(M, r, l), m)}
<1>0. End(M, r, l) \in M.states
  BY EndType
<1>1. <<>> \in A
  <2>1. l \o <<>> = l /\ <<>> \in Seq(M.chars)
    OBVIOUS
  <2>2. End(M, End(M, r, l), <<>>) = End(M, r, l)
    BY <1>0, EndEmpty
  <2> QED
    BY <2>1, <2>2
<1>2. ASSUME NEW m \in Seq(M.chars), NEW c \in M.chars, m \in A
      PROVE  Append(m, c) \in A
  <2>1. /\ l \o m \in Seq(M.chars) /\ Append(m, c) \in Seq(M.chars)
        /\ l \o Append(m, c) = Append(l \o m, c)
    OBVIOUS
  <2>2. End(M, r, l \o m) = End(M, End(M, r, l), m)
    BY <1>2
  <2>3. End(M, r, Append(l \o m, c)) = M.next[<<End(M, r, l \o m), c>>]
    BY <2>1, EndAppend
  <2>4. End(M, End(M, r, l), Append(m, c))
          = M.next[<<End(M, End(M, r, l), m), c>>]
    BY <1>0, EndAppend
  <2>5. End(M, r, l \o Append(m, c)) = End(M, End(M, r, l), Append(m, c))
    BY <2>1, <2>2, <2>3, <2>4
  <2> QED
    BY <2>1, <2>5
<1>3. Seq(M.chars) \subseteq A
  <2> HIDE DEF A
  <2> QED
    BY <1>1, <1>2, TextInduction
<1> QED
  BY <1>3

\* Texts of one and of two characters.
LEMMA EndOne ==
  ASSUME NEW M, IsAutomaton(M), NEW r \in M.states, NEW x \in M.chars
  PROVE  End(M, r, <<x>>) = M.next[<<r, x>>]
<1>1. <<>> \in Seq(M.chars) /\ <<x>> = Append(<<>>, x)
  OBVIOUS
<1>2. End(M, r, Append(<<>>, x)) = M.next[<<End(M, r, <<>>), x>>]
  BY <1>1, EndAppend
<1> QED
  BY <1>1, <1>2, EndEmpty

LEMMA EndTwo ==
  ASSUME NEW M, IsAutomaton(M), NEW r \in M.states,
         NEW x \in M.chars, NEW y \in M.chars
  PROVE  End(M, r, <<x, y>>) = M.next[<<M.next[<<r, x>>], y>>]
<1>1. <<x>> \in Seq(M.chars) /\ <<x, y>> = Append(<<x>>, y)
  OBVIOUS
<1>2. End(M, r, Append(<<x>>, y)) = M.next[<<End(M, r, <<x>>), y>>]
  BY <1>1, EndAppend
<1> QED
  BY <1>1, <1>2, EndOne

-----------------------------------------------------------------------------
(* How a shell reads: one character.                                        *)

Chars == Safe \cup Unsafe
Lines == Seq(Chars)

LEMMA CharacterFacts ==
  /\ Space \in Chars /\ Quote \in Chars /\ DoubleQuote \in Chars
  /\ Safe \subseteq Chars /\ Word \in Seq(Safe)
  /\ Space # Quote /\ Space # DoubleQuote /\ Quote # DoubleQuote
  /\ Space # "$" /\ Quote # "$" /\ DoubleQuote # "$"
  /\ \A c \in Safe : c # Space /\ c # Quote /\ c # DoubleQuote /\ c # "$"
<1>1. "w" \in Safe /\ {Space, Quote, DoubleQuote, "$"} \subseteq Unsafe
      /\ Safe \cap Unsafe = {}
  BY CommandsAssumption
<1>2. Word \in Seq(Safe)
  BY <1>1 DEF Word
<1>3. /\ Space # Quote /\ Space # DoubleQuote /\ Quote # DoubleQuote
      /\ Space # "$" /\ Quote # "$" /\ DoubleQuote # "$"
  BY DEF Space, Quote, DoubleQuote
<1>4. \A c \in Safe : c \notin {Space, Quote, DoubleQuote, "$"}
  BY <1>1
<1> QED
  BY <1>1, <1>2, <1>3, <1>4 DEF Chars

ShellModes == {"plain", "single", "double", "expanded"}
Sh(m, w, s, ws) == [mode |-> m, word |-> w, started |-> s, words |-> ws]
ShellStates ==
  [mode : ShellModes, word : Lines, started : BOOLEAN, words : Seq(Lines)]

\* What a character does, mode by mode.
LEMMA ShellMoves ==
  ASSUME NEW r, NEW c
  PROVE  /\ r.mode = "expanded" => ShellStep(r, c) = r
         /\ r.mode = "single" /\ c = Quote =>
              ShellStep(r, c) = [r EXCEPT !.mode = "plain"]
         /\ r.mode = "single" /\ c # Quote =>
              ShellStep(r, c) = [r EXCEPT !.word = Append(r.word, c)]
         /\ r.mode \in {"plain", "double"} /\ c = "$" =>
              ShellStep(r, c) = [r EXCEPT !.mode = "expanded"]
         /\ r.mode = "double" /\ c = DoubleQuote =>
              ShellStep(r, c) = [r EXCEPT !.mode = "plain"]
         /\ r.mode = "double" /\ c # DoubleQuote /\ c # "$" =>
              ShellStep(r, c) = [r EXCEPT !.word = Append(r.word, c)]
         /\ r.mode = "plain" /\ c = Quote =>
              ShellStep(r, c) = [Started(r) EXCEPT !.mode = "single"]
         /\ r.mode = "plain" /\ c = DoubleQuote =>
              ShellStep(r, c) = [Started(r) EXCEPT !.mode = "double"]
         /\ r.mode = "plain" /\ c = Space /\ r.started =>
              ShellStep(r, c) = Sh("plain", <<>>, FALSE, Append(r.words, r.word))
         /\ r.mode = "plain" /\ c = Space /\ ~r.started => ShellStep(r, c) = r
         /\ r.mode = "plain" /\ c \notin {Space, Quote, DoubleQuote, "$"} =>
              ShellStep(r, c)
                = [Started(r) EXCEPT !.word = Append(Started(r).word, c)]
<1>1. /\ Space # Quote /\ Space # DoubleQuote /\ Quote # DoubleQuote
      /\ Space # "$" /\ Quote # "$" /\ DoubleQuote # "$"
  BY CharacterFacts
<1>2. /\ "plain" # "single" /\ "plain" # "double" /\ "single" # "double"
      /\ "plain" # "expanded" /\ "single" # "expanded" /\ "double" # "expanded"
  OBVIOUS
<1>3. ASSUME r.mode = "expanded"
      PROVE  ShellStep(r, c) = r
  BY <1>1, <1>2, <1>3, Zenon DEF ShellStep
<1>4. ASSUME r.mode = "single", c = Quote
      PROVE  ShellStep(r, c) = [r EXCEPT !.mode = "plain"]
  BY <1>1, <1>2, <1>4, Zenon DEF ShellStep
<1>5. ASSUME r.mode = "single", c # Quote
      PROVE  ShellStep(r, c) = [r EXCEPT !.word = Append(r.word, c)]
  BY <1>1, <1>2, <1>5, Zenon DEF ShellStep
<1>6. ASSUME r.mode \in {"plain", "double"}, c = "$"
      PROVE  ShellStep(r, c) = [r EXCEPT !.mode = "expanded"]
  BY <1>1, <1>2, <1>6, Zenon DEF ShellStep
<1>7. ASSUME r.mode = "double", c = DoubleQuote
      PROVE  ShellStep(r, c) = [r EXCEPT !.mode = "plain"]
  BY <1>1, <1>2, <1>7, Zenon DEF ShellStep
<1>8. ASSUME r.mode = "double", c # DoubleQuote, c # "$"
      PROVE  ShellStep(r, c) = [r EXCEPT !.word = Append(r.word, c)]
  BY <1>1, <1>2, <1>8, Zenon DEF ShellStep
<1>9. ASSUME r.mode = "plain", c = Quote
      PROVE  ShellStep(r, c) = [Started(r) EXCEPT !.mode = "single"]
  BY <1>1, <1>2, <1>9, Zenon DEF ShellStep
<1>10. ASSUME r.mode = "plain", c = DoubleQuote
      PROVE  ShellStep(r, c) = [Started(r) EXCEPT !.mode = "double"]
  BY <1>1, <1>2, <1>10, Zenon DEF ShellStep
<1>11. ASSUME r.mode = "plain", c = Space, r.started
      PROVE  ShellStep(r, c) = Sh("plain", <<>>, FALSE, Append(r.words, r.word))
  BY <1>1, <1>2, <1>11, Zenon DEF ShellStep, Sh
<1>12. ASSUME r.mode = "plain", c = Space, ~r.started
      PROVE  ShellStep(r, c) = r
  BY <1>1, <1>2, <1>12, Zenon DEF ShellStep
<1>13. ASSUME r.mode = "plain", c \notin {Space, Quote, DoubleQuote, "$"}
      PROVE  ShellStep(r, c) = [Started(r) EXCEPT !.word = Append(Started(r).word, c)]
  BY <1>1, <1>2, <1>13, Zenon DEF ShellStep
<1> QED
  BY <1>3, <1>4, <1>5, <1>6, <1>7, <1>8, <1>9, <1>10, <1>11, <1>12, <1>13, Zenon

LEMMA ShellStepType ==
  ASSUME NEW r \in ShellStates, NEW c \in Chars
  PROVE  ShellStep(r, c) \in ShellStates
<1>1. \A q \in ShellStates, m \in ShellModes :
        [q EXCEPT !.mode = m] \in ShellStates
  BY DEF ShellStates
<1>2. \A q \in ShellStates : [q EXCEPT !.word = Append(q.word, c)] \in ShellStates
  <2>1. \A q \in ShellStates : Append(q.word, c) \in Lines
    BY DEF ShellStates, Lines
  <2> QED
    BY <2>1 DEF ShellStates
<1>3. Started(r) \in ShellStates
  BY DEF ShellStates, Started
<1>4. Sh("plain", <<>>, FALSE, Append(r.words, r.word)) \in ShellStates
  <2>1. Append(r.words, r.word) \in Seq(Lines) /\ <<>> \in Lines
    BY DEF ShellStates, Lines
  <2> QED
    BY <2>1 DEF ShellStates, ShellModes, Sh
<1>5. {"plain", "single", "double", "expanded"} \subseteq ShellModes
  BY DEF ShellModes
<1>6. /\ [r EXCEPT !.mode = "plain"] \in ShellStates
      /\ [r EXCEPT !.mode = "expanded"] \in ShellStates
      /\ [Started(r) EXCEPT !.mode = "single"] \in ShellStates
      /\ [Started(r) EXCEPT !.mode = "double"] \in ShellStates
  BY <1>1, <1>3, <1>5
<1>7. /\ [r EXCEPT !.word = Append(r.word, c)] \in ShellStates
      /\ [Started(r) EXCEPT !.word = Append(Started(r).word, c)] \in ShellStates
  BY <1>2, <1>3
<1>8. r.mode = "plain" \/ r.mode = "single" \/ r.mode = "double"
      \/ r.mode = "expanded"
  BY DEF ShellStates, ShellModes
<1>9. \/ ShellStep(r, c) = r
      \/ ShellStep(r, c) = [r EXCEPT !.mode = "plain"]
      \/ ShellStep(r, c) = [r EXCEPT !.mode = "expanded"]
      \/ ShellStep(r, c) = [r EXCEPT !.word = Append(r.word, c)]
      \/ ShellStep(r, c) = [Started(r) EXCEPT !.mode = "single"]
      \/ ShellStep(r, c) = [Started(r) EXCEPT !.mode = "double"]
      \/ ShellStep(r, c)
           = [Started(r) EXCEPT !.word = Append(Started(r).word, c)]
      \/ ShellStep(r, c) = Sh("plain", <<>>, FALSE, Append(r.words, r.word))
  BY <1>8, ShellMoves, Zenon
<1> QED
  BY <1>4, <1>6, <1>7, <1>9, Zenon

\* What a character does, state by state.
LEMMA QuoteCloses ==
  ASSUME NEW w, NEW s, NEW ws, NEW c, c = Quote
  PROVE  ShellStep(Sh("single", w, s, ws), c)
           = Sh("plain", w, s, ws)
<1> DEFINE r == Sh("single", w, s, ws)
<1>1. r.mode = "single" /\ r.word = w
  BY DEF Sh
<1>2. [r EXCEPT !.mode = "plain"] = Sh("plain", w, s, ws)
  BY DEF Sh
<1> HIDE DEF r
<1>3. ShellStep(r, c) = [r EXCEPT !.mode = "plain"]
  BY CharacterFacts, <1>1, ShellMoves, Zenon
<1> QED
  BY <1>1, <1>2, <1>3, Zenon DEF r

LEMMA QuotesHold ==
  ASSUME NEW w, NEW s, NEW ws, NEW c, c # Quote
  PROVE  ShellStep(Sh("single", w, s, ws), c)
           = Sh("single", Append(w, c), s, ws)
<1> DEFINE r == Sh("single", w, s, ws)
<1>1. r.mode = "single" /\ r.word = w
  BY DEF Sh
<1>2. [r EXCEPT !.word = Append(w, c)] = Sh("single", Append(w, c), s, ws)
  BY DEF Sh
<1> HIDE DEF r
<1>3. ShellStep(r, c) = [r EXCEPT !.word = Append(r.word, c)]
  BY CharacterFacts, <1>1, ShellMoves, Zenon
<1> QED
  BY <1>1, <1>2, <1>3, Zenon DEF r

LEMMA DoubleQuoteCloses ==
  ASSUME NEW w, NEW s, NEW ws, NEW c, c = DoubleQuote
  PROVE  ShellStep(Sh("double", w, s, ws), c)
           = Sh("plain", w, s, ws)
<1> DEFINE r == Sh("double", w, s, ws)
<1>1. r.mode = "double" /\ r.word = w
  BY DEF Sh
<1>2. [r EXCEPT !.mode = "plain"] = Sh("plain", w, s, ws)
  BY DEF Sh
<1> HIDE DEF r
<1>3. ShellStep(r, c) = [r EXCEPT !.mode = "plain"]
  BY CharacterFacts, <1>1, ShellMoves, Zenon
<1> QED
  BY <1>1, <1>2, <1>3, Zenon DEF r

LEMMA DoubleQuotesHold ==
  ASSUME NEW w, NEW s, NEW ws, NEW c, c = Quote
  PROVE  ShellStep(Sh("double", w, s, ws), c)
           = Sh("double", Append(w, c), s, ws)
<1> DEFINE r == Sh("double", w, s, ws)
<1>1. r.mode = "double" /\ r.word = w
  BY DEF Sh
<1>2. [r EXCEPT !.word = Append(w, c)] = Sh("double", Append(w, c), s, ws)
  BY DEF Sh
<1> HIDE DEF r
<1>3. ShellStep(r, c) = [r EXCEPT !.word = Append(r.word, c)]
  BY CharacterFacts, <1>1, ShellMoves, Zenon
<1> QED
  BY <1>1, <1>2, <1>3, Zenon DEF r

LEMMA QuoteOpens ==
  ASSUME NEW w, NEW s, NEW ws, NEW c, c = Quote
  PROVE  ShellStep(Sh("plain", w, s, ws), c)
           = Sh("single", w, TRUE, ws)
<1> DEFINE r == Sh("plain", w, s, ws)
<1>1. r.mode = "plain"
  BY DEF Sh
<1>2. \A t : [r EXCEPT !.started = t] = Sh("plain", w, t, ws)
  BY DEF Sh
<1>3. \A t : Sh("plain", w, t, ws).word = w
  BY DEF Sh
<1>4. \A t : [Sh("plain", w, t, ws) EXCEPT !.mode = "single"] = Sh("single", w, t, ws)
  BY DEF Sh
<1>5. /\ Started(r).word = w
      /\ [Started(r) EXCEPT !.mode = "single"] = Sh("single", w, TRUE, ws)
  BY <1>2, <1>3, <1>4, Zenon DEF Started
<1> HIDE DEF r
<1>6. ShellStep(r, c) = [Started(r) EXCEPT !.mode = "single"]
  BY <1>1, ShellMoves, Zenon
<1> QED
  BY <1>5, <1>6, Zenon DEF r

LEMMA DoubleQuoteOpens ==
  ASSUME NEW w, NEW s, NEW ws, NEW c, c = DoubleQuote
  PROVE  ShellStep(Sh("plain", w, s, ws), c)
           = Sh("double", w, TRUE, ws)
<1> DEFINE r == Sh("plain", w, s, ws)
<1>1. r.mode = "plain"
  BY DEF Sh
<1>2. \A t : [r EXCEPT !.started = t] = Sh("plain", w, t, ws)
  BY DEF Sh
<1>3. \A t : Sh("plain", w, t, ws).word = w
  BY DEF Sh
<1>4. \A t : [Sh("plain", w, t, ws) EXCEPT !.mode = "double"] = Sh("double", w, t, ws)
  BY DEF Sh
<1>5. /\ Started(r).word = w
      /\ [Started(r) EXCEPT !.mode = "double"] = Sh("double", w, TRUE, ws)
  BY <1>2, <1>3, <1>4, Zenon DEF Started
<1> HIDE DEF r
<1>6. ShellStep(r, c) = [Started(r) EXCEPT !.mode = "double"]
  BY <1>1, ShellMoves, Zenon
<1> QED
  BY <1>5, <1>6, Zenon DEF r

LEMMA SpaceEndsWord ==
  ASSUME NEW w, NEW ws, NEW c, c = Space
  PROVE  ShellStep(Sh("plain", w, TRUE, ws), c)
           = Sh("plain", <<>>, FALSE, Append(ws, w))
<1> DEFINE r == Sh("plain", w, TRUE, ws)
<1>1. \A t : /\ Sh("plain", w, t, ws).mode = "plain"
             /\ Sh("plain", w, t, ws).started = t
             /\ Sh("plain", w, t, ws).word = w
             /\ Sh("plain", w, t, ws).words = ws
  BY DEF Sh
<1>2. r.mode = "plain" /\ r.started /\ r.word = w /\ r.words = ws
  BY <1>1, Zenon
<1> HIDE DEF r
<1>3. ShellStep(r, c) = Sh("plain", <<>>, FALSE, Append(r.words, r.word))
  BY <1>2, ShellMoves, Zenon
<1> QED
  BY <1>2, <1>3, Zenon DEF r

LEMMA LetterIsRead ==
  ASSUME NEW w, NEW s, NEW ws, NEW c, c \notin {Space, Quote, DoubleQuote, "$"}
  PROVE  ShellStep(Sh("plain", w, s, ws), c)
           = Sh("plain", Append(w, c), TRUE, ws)
<1> DEFINE r == Sh("plain", w, s, ws)
<1>1. r.mode = "plain"
  BY DEF Sh
<1>2. \A t : [r EXCEPT !.started = t] = Sh("plain", w, t, ws)
  BY DEF Sh
<1>3. \A t : Sh("plain", w, t, ws).word = w
  BY DEF Sh
<1>4. \A t : [Sh("plain", w, t, ws) EXCEPT !.word = Append(w, c)] = Sh("plain", Append(w, c), t, ws)
  BY DEF Sh
<1>5. /\ Started(r).word = w
      /\ [Started(r) EXCEPT !.word = Append(w, c)] = Sh("plain", Append(w, c), TRUE, ws)
  BY <1>2, <1>3, <1>4, Zenon DEF Started
<1> HIDE DEF r
<1>6. ShellStep(r, c) = [Started(r) EXCEPT !.word = Append(Started(r).word, c)]
  BY <1>1, ShellMoves, Zenon
<1> QED
  BY <1>5, <1>6, Zenon DEF r

-----------------------------------------------------------------------------
(* How a shell reads: a line.                                               *)

Shell ==
  [states |-> ShellStates, chars |-> Chars,
   next |-> [p \in ShellStates \X Chars |-> ShellStep(p[1], p[2])]]

LEMMA ShellIsAutomaton ==
  /\ IsAutomaton(Shell) /\ Shell.states = ShellStates /\ Shell.chars = Chars
  /\ \A q \in ShellStates, x \in Chars : Shell.next[<<q, x>>] = ShellStep(q, x)
<1>1. \A q \in ShellStates, x \in Chars : ShellStep(q, x) \in ShellStates
  BY ShellStepType
<1> QED
  BY <1>1 DEF IsAutomaton, Shell

\* The state between two words, after these words.
Ready(ws) == Sh("plain", <<>>, FALSE, ws)

LEMMA ShTypes ==
  ASSUME NEW m \in ShellModes, NEW w \in Lines, NEW ws \in Seq(Lines)
  PROVE  /\ \A s \in BOOLEAN : Sh(m, w, s, ws) \in ShellStates
         /\ Ready(ws) \in ShellStates
<1>1. \A n \in ShellModes, v \in Lines, s \in BOOLEAN :
        Sh(n, v, s, ws) \in ShellStates
  BY DEF Sh, ShellStates
<1>2. "plain" \in ShellModes /\ <<>> \in Lines
  BY DEF ShellModes, Lines
<1> QED
  BY <1>1, <1>2, Zenon DEF Ready

LEMMA ShellReadIsEnd ==
  ASSUME NEW line \in Lines
  PROVE  ShellRead(line) = End(Shell, Ready(<<>>), Append(line, Space))
<1> DEFINE l == Append(line, Space)
           P(f) == f = [i \in 0..Len(l) |->
                          IF i = 0 THEN [mode |-> "plain", word |-> <<>>,
                                         started |-> FALSE, words |-> <<>>]
                          ELSE ShellStep(f[i - 1], l[i])]
           h == CHOOSE f : P(f)
           M == Shell
           r == Ready(<<>>)
<1>1. ShellRead(line) = h[Len(l)]
  BY DEF ShellRead
<1>0. r = [mode |-> "plain", word |-> <<>>, started |-> FALSE, words |-> <<>>]
  BY Zenon DEF Ready, Sh
<1>2. /\ IsAutomaton(M) /\ M.states = ShellStates /\ M.chars = Chars
      /\ \A q \in ShellStates, x \in Chars : M.next[<<q, x>>] = ShellStep(q, x)
  BY ShellIsAutomaton
<1> HIDE DEF M
<1>3. r \in M.states /\ l \in Seq(M.chars)
  <2>1. <<>> \in Lines /\ <<>> \in Seq(Lines) /\ "plain" \in ShellModes
    BY DEF Lines, ShellModes
  <2>2. r \in ShellStates
    BY <2>1, ShTypes, Zenon
  <2>3. l \in Seq(Chars)
    BY CharacterFacts DEF Lines
  <2> QED
    BY <1>2, <2>2, <2>3
<1> HIDE DEF r, l
<1>4. Len(l) \in Nat /\ \A i \in 1..Len(l) : l[i] \in Chars
  BY <1>2, <1>3
<1>5. PICK g : IsTrace(M, r, l, g)
  BY <1>2, <1>3, TraceExists
<1>6. g \in [0..Len(l) -> M.states] /\ g[0] = r
      /\ \A i \in 1..Len(l) : g[i] = M.next[<<g[i - 1], l[i]>>]
  BY <1>5 DEF IsTrace
<1>7. ASSUME NEW i \in 1..Len(l)
      PROVE  g[i] = ShellStep(g[i - 1], l[i])
  <2>1. g[i - 1] \in M.states
    BY <1>4, <1>6
  <2> QED
    BY <1>2, <1>4, <1>6, <2>1
<1> DEFINE Q(f) == f = [i \in 0..Len(l) |->
                          IF i = 0 THEN r ELSE ShellStep(f[i - 1], l[i])]
<1>8. Q(g)
  <2> DEFINE k == [i \in 0..Len(l) |->
                     IF i = 0 THEN r ELSE ShellStep(g[i - 1], l[i])]
  <2>1. ASSUME NEW i \in 0..Len(l)
        PROVE  g[i] = k[i]
    <3>1. CASE i = 0
      BY <1>6, <3>1
    <3>2. CASE i # 0
      <4>1. i \in 1..Len(l)
        BY <1>4, <3>2
      <4> QED
        BY <1>7, <3>2, <4>1
    <3> QED
      BY <3>1, <3>2
  <2>2. g = k
    BY <1>6, <2>1
  <2> QED
    BY <2>2
<1>9. Q(h)
  <2>1. P(g)
    BY <1>0, <1>8, Zenon
  <2>2. P(h)
    <3> HIDE DEF P
    <3> QED
      BY <2>1
  <2> HIDE DEF h
  <2> QED
    BY <1>0, <2>2, Zenon
<1> HIDE DEF h, P
<1>10. h[0] = r
  BY <1>4, <1>9
<1>11. ASSUME NEW i \in 1..Len(l), h[i - 1] \in M.states
       PROVE  h[i] = M.next[<<h[i - 1], l[i]>>]
  <2>1. h[i] = ShellStep(h[i - 1], l[i])
    BY <1>4, <1>9
  <2> QED
    BY <1>2, <1>4, <1>11, <2>1
<1> HIDE DEF Q
<1>12. h[Len(l)] = End(M, r, l)
  BY <1>2, <1>3, <1>10, <1>11, EndOfRecursion
<1> QED
  BY <1>1, <1>12 DEF M, r, l

-----------------------------------------------------------------------------
(* A text in which every character becomes another text.                    *)

Writing(to) ==
  [states |-> Lines, chars |-> Chars,
   next |-> [p \in Lines \X Chars |-> p[1] \o to[p[2]]]]

LEMMA WritingIsAutomaton ==
  ASSUME NEW to \in [Chars -> Lines]
  PROVE  /\ IsAutomaton(Writing(to))
         /\ Writing(to).states = Lines /\ Writing(to).chars = Chars
         /\ \A r \in Lines, x \in Chars : Writing(to).next[<<r, x>>] = r \o to[x]
<1>1. \A r \in Lines, x \in Chars : r \o to[x] \in Lines
  BY DEF Lines
<1> QED
  BY <1>1 DEF IsAutomaton, Writing

LEMMA EachCharacterIsEnd ==
  ASSUME NEW to \in [Chars -> Lines], NEW v \in Lines
  PROVE  EachCharacter(v, to) = End(Writing(to), <<>>, v)
<1> DEFINE P(f) == f = [i \in 0..Len(v) |->
                          IF i = 0 THEN <<>> ELSE f[i - 1] \o to[v[i]]]
           h == CHOOSE f : P(f)
           M == Writing(to)
<1>1. EachCharacter(v, to) = h[Len(v)]
  BY DEF EachCharacter
<1>2. /\ IsAutomaton(M) /\ M.states = Lines /\ M.chars = Chars
      /\ \A r \in Lines, x \in Chars : M.next[<<r, x>>] = r \o to[x]
  BY WritingIsAutomaton
<1> HIDE DEF M
<1>3. <<>> \in M.states /\ v \in Seq(M.chars)
  BY <1>2 DEF Lines
<1>4. Len(v) \in Nat /\ \A i \in 1..Len(v) : v[i] \in Chars
  BY DEF Lines
<1>5. PICK g : IsTrace(M, <<>>, v, g)
  BY <1>2, <1>3, TraceExists
<1>6. g \in [0..Len(v) -> Lines] /\ g[0] = <<>>
      /\ \A i \in 1..Len(v) : g[i] = M.next[<<g[i - 1], v[i]>>]
  BY <1>2, <1>5 DEF IsTrace
<1>7. ASSUME NEW i \in 1..Len(v)
      PROVE  g[i] = g[i - 1] \o to[v[i]]
  <2>1. g[i - 1] \in Lines
    BY <1>4, <1>6
  <2> QED
    BY <1>2, <1>4, <1>6, <2>1
<1>8. P(g)
  <2> DEFINE k == [i \in 0..Len(v) |->
                     IF i = 0 THEN <<>> ELSE g[i - 1] \o to[v[i]]]
  <2>1. ASSUME NEW i \in 0..Len(v)
        PROVE  g[i] = k[i]
    <3>1. CASE i = 0
      BY <1>6, <3>1
    <3>2. CASE i # 0
      <4>1. i \in 1..Len(v)
        BY <1>4, <3>2
      <4> QED
        BY <1>7, <3>2, <4>1
    <3> QED
      BY <3>1, <3>2
  <2>2. g = k
    BY <1>6, <2>1
  <2> QED
    BY <2>2
<1>9. P(h)
  <2> HIDE DEF P
  <2> QED
    BY <1>8
<1> HIDE DEF h
<1>10. h[0] = <<>>
  BY <1>4, <1>9
<1>11. ASSUME NEW i \in 1..Len(v), h[i - 1] \in M.states
       PROVE  h[i] = M.next[<<h[i - 1], v[i]>>]
  <2>1. i \in 0..Len(v) /\ i # 0
    BY <1>4
  <2>2. h[i] = h[i - 1] \o to[v[i]]
    BY <1>9, <2>1, Zenon
  <2> QED
    BY <1>2, <1>4, <1>11, <2>2
<1>12. h[Len(v)] = End(M, <<>>, v)
  BY <1>2, <1>3, <1>10, <1>11, EndOfRecursion
<1> QED
  BY <1>1, <1>12 DEF M

LEMMA EachCharacterEmpty ==
  ASSUME NEW to \in [Chars -> Lines]
  PROVE  EachCharacter(<<>>, to) = <<>>
<1>1. <<>> \in Writing(to).states /\ <<>> \in Lines
  <2>1. <<>> \in Lines
    BY DEF Lines
  <2> QED
    BY <2>1, WritingIsAutomaton
<1>2. End(Writing(to), <<>>, <<>>) = <<>>
  BY <1>1, WritingIsAutomaton, EndEmpty
<1> QED
  BY <1>1, <1>2, EachCharacterIsEnd

LEMMA EachCharacterType ==
  ASSUME NEW to \in [Chars -> Lines], NEW v \in Lines
  PROVE  EachCharacter(v, to) \in Lines
<1> DEFINE M == Writing(to)
<1>1. IsAutomaton(M) /\ M.states = Lines /\ M.chars = Chars
  BY WritingIsAutomaton
<1>2. EachCharacter(v, to) = End(M, <<>>, v)
  BY EachCharacterIsEnd
<1> HIDE DEF M
<1>3. <<>> \in M.states /\ v \in Seq(M.chars)
  BY <1>1 DEF Lines
<1>4. End(M, <<>>, v) \in M.states
  BY <1>1, <1>3, EndType
<1> QED
  BY <1>1, <1>2, <1>4

LEMMA EachCharacterAppend ==
  ASSUME NEW to \in [Chars -> Lines], NEW v \in Lines, NEW x \in Chars
  PROVE  EachCharacter(Append(v, x), to) = EachCharacter(v, to) \o to[x]
<1> DEFINE M == Writing(to)
<1>1. /\ IsAutomaton(M) /\ M.states = Lines /\ M.chars = Chars
      /\ \A r \in Lines : M.next[<<r, x>>] = r \o to[x]
  BY WritingIsAutomaton
<1>2. Append(v, x) \in Lines
  BY DEF Lines
<1>3. /\ EachCharacter(v, to) = End(M, <<>>, v)
      /\ EachCharacter(Append(v, x), to) = End(M, <<>>, Append(v, x))
  BY <1>2, EachCharacterIsEnd
<1> HIDE DEF M
<1>4. <<>> \in M.states /\ v \in Seq(M.chars) /\ x \in M.chars
  BY <1>1 DEF Lines
<1>5. End(M, <<>>, v) \in Lines
  BY <1>3, EachCharacterType
<1>6. End(M, <<>>, Append(v, x)) = M.next[<<End(M, <<>>, v), x>>]
  BY <1>1, <1>4, EndAppend
<1> QED
  BY <1>1, <1>3, <1>5, <1>6

\* What is typed is cleaned.
LEMMA CleanedIsSafe ==
  ASSUME NEW v \in Lines
  PROVE  sanitizeFieldValue(v) \in Seq(Safe)
<1> DEFINE to == [c \in Safe \cup Unsafe |-> IF c \in Safe THEN <<c>> ELSE <<>>]
           A == {u \in Lines : EachCharacter(u, to) \in Seq(Safe)}
<1>1. to \in [Chars -> Lines] /\ \A c \in Chars : to[c] \in Seq(Safe)
  <2>1. Safe \subseteq Chars /\ \A s \in Seq(Safe) : s \in Lines
    BY CharacterFacts DEF Lines
  <2>2. ASSUME NEW c \in Chars
        PROVE  (IF c \in Safe THEN <<c>> ELSE <<>>) \in Seq(Safe)
    <3>1. CASE c \in Safe
      BY <3>1
    <3>2. CASE c \notin Safe
      BY <3>2
    <3> QED
      BY <3>1, <3>2
  <2> QED
    BY <2>1, <2>2 DEF Chars
<1>2. sanitizeFieldValue(v) = EachCharacter(v, to)
  BY DEF sanitizeFieldValue
<1> HIDE DEF to
<1>3. <<>> \in A
  <2>1. EachCharacter(<<>>, to) = <<>>
    BY <1>1, EachCharacterEmpty
  <2>2. <<>> \in Lines /\ <<>> \in Seq(Safe)
    BY DEF Lines
  <2> QED
    BY <2>1, <2>2
<1>4. ASSUME NEW u \in Lines, NEW x \in Chars, u \in A
      PROVE  Append(u, x) \in A
  <2>1. EachCharacter(Append(u, x), to) = EachCharacter(u, to) \o to[x]
    BY <1>1, EachCharacterAppend
  <2>2. EachCharacter(u, to) \in Seq(Safe) /\ to[x] \in Seq(Safe)
    BY <1>1, <1>4
  <2>3. EachCharacter(u, to) \o to[x] \in Seq(Safe)
    BY <2>2
  <2>4. Append(u, x) \in Lines
    BY DEF Lines
  <2> QED
    BY <2>1, <2>3, <2>4
<1>5. Lines \subseteq A
  <2> HIDE DEF A
  <2> QED
    BY <1>3, <1>4, TextInduction DEF Lines
<1> QED
  BY <1>2, <1>5

-----------------------------------------------------------------------------
(* What lines are read as, wherever they stand.                             *)

Reads(l, words) ==
  /\ l \in Lines /\ words \in Seq(Lines)
  /\ \A b \in Seq(Lines) :
       End(Shell, Ready(b), Append(l, Space)) = Ready(b \o words)

LEMMA ReadsReadsAs ==
  ASSUME NEW l, NEW words, Reads(l, words)
  PROVE  ReadsAs(l, words)
<1>1. <<>> \in Seq(Lines) /\ <<>> \o words = words
  BY DEF Reads
<1>2. ShellRead(l) = Ready(words)
  <2>1. ShellRead(l) = End(Shell, Ready(<<>>), Append(l, Space))
    BY ShellReadIsEnd DEF Reads
  <2>2. End(Shell, Ready(<<>>), Append(l, Space)) = Ready(<<>> \o words)
    BY <1>1 DEF Reads
  <2> QED
    BY <1>1, <2>1, <2>2
<1>3. \A s : /\ Sh("plain", <<>>, s, words).words = words
             /\ Sh("plain", <<>>, s, words).mode = "plain"
  BY DEF Sh
<1>4. Ready(words).words = words /\ Ready(words).mode = "plain"
  BY <1>3, Zenon DEF Ready
<1> QED
  BY <1>2, <1>4, Zenon DEF ReadsAs

\* One part after another.
LEMMA ReadsTogether ==
  ASSUME NEW l, NEW words, Reads(l, words), NEW m, NEW more, Reads(m, more)
  PROVE  Reads(l ++ m, words \o more)
<1>1. /\ l \in Lines /\ m \in Lines
      /\ words \in Seq(Lines) /\ more \in Seq(Lines)
  BY DEF Reads
<1>2. Space \in Chars
  BY CharacterFacts
<1>3. /\ l ++ m \in Lines
      /\ Append(l, Space) \in Lines /\ Append(m, Space) \in Lines
      /\ Append(l ++ m, Space) = Append(l, Space) \o Append(m, Space)
  <2>1. l ++ m = (l \o <<Space>>) \o m
    BY DEF ++
  <2>2. Append(l, Space) = l \o <<Space>>
    BY AppendIsConcat
  <2>3. Append(l, Space) \in Lines /\ Append(m, Space) \in Lines
    BY <1>1, <1>2 DEF Lines
  <2>4. ASSUME NEW k \in Seq(Chars), NEW n \in Seq(Chars), NEW c \in Chars
        PROVE  k \o n \in Seq(Chars) /\ Append(k \o n, c) = k \o Append(n, c)
    OBVIOUS
  <2>5. /\ Append(l, Space) \o m \in Lines
        /\ Append(Append(l, Space) \o m, Space)
             = Append(l, Space) \o Append(m, Space)
    BY <1>1, <1>2, <2>3, <2>4 DEF Lines
  <2> QED
    BY <2>1, <2>2, <2>3, <2>5
<1>4. words \o more \in Seq(Lines)
  BY <1>1
<1>5. ASSUME NEW b \in Seq(Lines)
      PROVE  End(Shell, Ready(b), Append(l ++ m, Space)) = Ready(b \o (words \o more))
  <2>1. /\ b \o words \in Seq(Lines)
        /\ b \o (words \o more) = (b \o words) \o more
    BY <1>1
  <2>2. End(Shell, Ready(b), Append(l, Space)) = Ready(b \o words)
    BY DEF Reads
  <2>3. End(Shell, Ready(b \o words), Append(m, Space)) = Ready((b \o words) \o more)
    BY <2>1 DEF Reads
  <2>4. /\ IsAutomaton(Shell) /\ Shell.states = ShellStates /\ Shell.chars = Chars
    BY ShellIsAutomaton
  <2>5. Ready(b) \in Shell.states
    <3>1. "plain" \in ShellModes /\ <<>> \in Lines
      BY DEF ShellModes, Lines
    <3> QED
      BY <2>4, <3>1, ShTypes
  <2>6. Append(l, Space) \in Seq(Shell.chars) /\ Append(m, Space) \in Seq(Shell.chars)
    BY <1>3, <2>4 DEF Lines
  <2>7. End(Shell, Ready(b), Append(l, Space) \o Append(m, Space))
          = End(Shell, End(Shell, Ready(b), Append(l, Space)), Append(m, Space))
    BY <2>4, <2>5, <2>6, EndConcat
  <2> QED
    BY <1>3, <2>1, <2>2, <2>3, <2>7
<1> QED
  BY <1>3, <1>4, <1>5, Zenon DEF Reads

\* A word ends where a space comes.
LEMMA WordEnds ==
  ASSUME NEW l \in Lines, NEW v \in Lines,
         \A b \in Seq(Lines) : End(Shell, Ready(b), l) = Sh("plain", v, TRUE, b)
  PROVE  Reads(l, <<v>>)
<1>1. IsAutomaton(Shell) /\ Shell.states = ShellStates /\ Shell.chars = Chars
  BY ShellIsAutomaton
<1>2. Space \in Shell.chars /\ l \in Seq(Shell.chars)
  BY <1>1, CharacterFacts DEF Lines
<1>3. "plain" \in ShellModes /\ <<>> \in Lines /\ TRUE \in BOOLEAN
  BY DEF ShellModes, Lines
<1>4. ASSUME NEW b \in Seq(Lines)
      PROVE  End(Shell, Ready(b), Append(l, Space)) = Ready(b \o <<v>>)
  <2>1. Ready(b) \in Shell.states
    BY <1>1, <1>3, ShTypes
  <2>2. End(Shell, Ready(b), Append(l, Space))
          = Shell.next[<<End(Shell, Ready(b), l), Space>>]
    BY <1>1, <1>2, <2>1, EndAppend
  <2>3. End(Shell, Ready(b), l) = Sh("plain", v, TRUE, b)
    OBVIOUS
  <2>4. Sh("plain", v, TRUE, b) \in ShellStates
    BY <1>3, ShTypes, Zenon
  <2>5. \A q \in ShellStates : Shell.next[<<q, Space>>] = ShellStep(q, Space)
    BY <1>1, <1>2, ShellIsAutomaton
  <2>6. ShellStep(Sh("plain", v, TRUE, b), Space)
          = Sh("plain", <<>>, FALSE, Append(b, v))
    BY SpaceEndsWord, Zenon
  <2>7. Append(b, v) = b \o <<v>>
    BY AppendIsConcat
  <2> QED
    BY <2>2, <2>3, <2>4, <2>5, <2>6, <2>7, Zenon DEF Ready
<1>5. <<v>> \in Seq(Lines)
  OBVIOUS
<1> QED
  BY <1>4, <1>5, Zenon DEF Reads

\* A text of safe characters is read as it is.
LEMMA SafeReads ==
  ASSUME NEW v \in Seq(Safe), v # <<>>
  PROVE  Reads(v, <<v>>)
<1>1. /\ IsAutomaton(Shell) /\ Shell.states = ShellStates /\ Shell.chars = Chars
      /\ \A q \in ShellStates, x \in Chars : Shell.next[<<q, x>>] = ShellStep(q, x)
  BY ShellIsAutomaton
<1>2. "plain" \in ShellModes /\ <<>> \in Lines /\ TRUE \in BOOLEAN
  BY DEF ShellModes, Lines
<1>3. \A u \in Seq(Safe) : u \in Lines /\ u \in Seq(Shell.chars)
  BY <1>1, CharacterFacts DEF Lines
<1>4. ASSUME NEW b \in Seq(Lines)
      PROVE  End(Shell, Ready(b), v) = Sh("plain", v, TRUE, b)
  <2> DEFINE A == {u \in Seq(Safe) : IF u = <<>> THEN TRUE ELSE
                     End(Shell, Ready(b), u) = Sh("plain", u, TRUE, b)}
  <2>1. <<>> \in A
    OBVIOUS
  <2>2. Ready(b) \in Shell.states /\ Ready(b) \in ShellStates
    BY <1>1, <1>2, ShTypes
  <2>3. End(Shell, Ready(b), <<>>) = Ready(b)
    BY <1>1, <2>2, EndEmpty
  <2>4. ASSUME NEW u \in Seq(Safe), NEW x \in Safe, u \in A
        PROVE  Append(u, x) \in A
    <3>1. x \in Chars /\ x \in Shell.chars /\ x \notin {Space, Quote, DoubleQuote, "$"}
      BY <1>1, CharacterFacts
    <3>2. End(Shell, Ready(b), Append(u, x))
            = Shell.next[<<End(Shell, Ready(b), u), x>>]
      BY <1>1, <1>3, <2>2, <3>1, EndAppend
    <3>3. PICK s \in BOOLEAN : End(Shell, Ready(b), u) = Sh("plain", u, s, b)
      <4>1. CASE u = <<>>
        BY <2>3, <4>1, Zenon DEF Ready
      <4>2. CASE u # <<>>
        BY <2>4, <4>2, Zenon
      <4> QED
        BY <4>1, <4>2
    <3>4. Sh("plain", u, s, b) \in ShellStates
      BY <1>2, <1>3, ShTypes
    <3>5. Shell.next[<<Sh("plain", u, s, b), x>>] = ShellStep(Sh("plain", u, s, b), x)
      BY <1>1, <3>1, <3>4
    <3>6. ShellStep(Sh("plain", u, s, b), x) = Sh("plain", Append(u, x), TRUE, b)
      BY <3>1, LetterIsRead, Zenon
    <3>7. End(Shell, Ready(b), Append(u, x)) = Sh("plain", Append(u, x), TRUE, b)
      BY <3>2, <3>3, <3>5, <3>6, Zenon
    <3>8. Append(u, x) \in Seq(Safe)
      OBVIOUS
    <3> QED
      BY <3>7, <3>8, Zenon
  <2>5. Seq(Safe) \subseteq A
    <3> HIDE DEF A
    <3> QED
      BY <2>1, <2>4, TextInduction
  <2> QED
    BY <2>5, Zenon
<1> QED
  BY <1>3, <1>4, WordEnds, Zenon

LEMMA FiveCharacters ==
  ASSUME NEW S, NEW a \in S, NEW b \in S
  PROVE  Append(Append(Append(Append(Append(<<>>, a), b), a), b), a)
           = <<a, b, a, b, a>>
<1>1. <<a>> = Append(<<>>, a)
  OBVIOUS
<1>2. <<a>> \in Seq(S) /\ <<a, b>> = Append(<<a>>, b)
  OBVIOUS
<1>3. <<a, b>> \in Seq(S) /\ <<a, b, a>> = Append(<<a, b>>, a)
  OBVIOUS
<1>4. <<a, b, a>> \in Seq(S) /\ <<a, b, a, b>> = Append(<<a, b, a>>, b)
  OBVIOUS
<1>5. /\ <<a, b, a, b>> \in Seq(S)
      /\ <<a, b, a, b, a>> = Append(<<a, b, a, b>>, a)
  OBVIOUS
<1> QED
  BY <1>1, <1>2, <1>3, <1>4, <1>5, Zenon

\* What the quotes hold is read as it is, a quote among it too.
LEMMA RequotedHolds ==
  ASSUME NEW u \in Lines, NEW b \in Seq(Lines), NEW x \in Chars
  PROVE  End(Shell, Sh("single", u, TRUE, b), Requoted[x])
           = Sh("single", Append(u, x), TRUE, b)
<1>1. /\ IsAutomaton(Shell) /\ Shell.states = ShellStates /\ Shell.chars = Chars
      /\ \A q \in ShellStates, y \in Chars : Shell.next[<<q, y>>] = ShellStep(q, y)
  BY ShellIsAutomaton
<1>2. {"plain", "single", "double"} \subseteq ShellModes /\ TRUE \in BOOLEAN
  BY DEF ShellModes
<1>3. Append(u, x) \in Lines
  BY DEF Lines
<1>4. \A m \in ShellModes, w \in Lines : Sh(m, w, TRUE, b) \in ShellStates
  BY <1>2, ShTypes
<1>5. CASE x # Quote
  <2>1. Requoted[x] = <<x>>
    BY <1>5 DEF Requoted, Chars
  <2>2. Sh("single", u, TRUE, b) \in ShellStates
    BY <1>2, <1>4
  <2>3. End(Shell, Sh("single", u, TRUE, b), <<x>>)
          = Shell.next[<<Sh("single", u, TRUE, b), x>>]
    BY <1>1, <2>2, EndOne
  <2>4. ShellStep(Sh("single", u, TRUE, b), x) = Sh("single", Append(u, x), TRUE, b)
    BY <1>5, QuotesHold, Zenon
  <2> QED
    BY <1>1, <2>1, <2>2, <2>3, <2>4
<1>6. CASE x = Quote
  <2> DEFINE r == Sh("single", u, TRUE, b)
             r1 == Sh("plain", u, TRUE, b)
             r2 == Sh("double", u, TRUE, b)
             r3 == Sh("double", Append(u, x), TRUE, b)
             r4 == Sh("plain", Append(u, x), TRUE, b)
             r5 == Sh("single", Append(u, x), TRUE, b)
  <2>1. Requoted[x] = <<x, DoubleQuote, x, DoubleQuote, x>>
    BY <1>6 DEF Requoted, Chars
  <2>2. /\ r \in ShellStates /\ r1 \in ShellStates /\ r2 \in ShellStates
        /\ r3 \in ShellStates /\ r4 \in ShellStates
    BY <1>2, <1>3, <1>4
  <2>3. ShellStep(r, x) = r1
    BY <1>6, QuoteCloses, Zenon
  <2>4. ShellStep(r1, DoubleQuote) = r2
    BY DoubleQuoteOpens, Zenon
  <2>5. ShellStep(r2, x) = r3
    BY <1>6, DoubleQuotesHold, Zenon
  <2>6. ShellStep(r3, DoubleQuote) = r4
    BY DoubleQuoteCloses, Zenon
  <2>7. ShellStep(r4, x) = r5
    BY <1>6, QuoteOpens, Zenon
  <2> HIDE DEF r, r1, r2, r3, r4, r5
  <2>8. DoubleQuote \in Chars
    BY CharacterFacts
  <2>9. ASSUME NEW l \in Seq(Chars), NEW q \in ShellStates, NEW c \in Chars,
               End(Shell, r, l) = q
        PROVE  /\ Append(l, c) \in Seq(Chars)
               /\ End(Shell, r, Append(l, c)) = ShellStep(q, c)
    <3>1. End(Shell, r, Append(l, c)) = Shell.next[<<q, c>>]
      BY <1>1, <2>2, <2>9, EndAppend
    <3> QED
      BY <1>1, <3>1
  <2> DEFINE l0 == <<>>
             l1 == Append(l0, x)
             l2 == Append(l1, DoubleQuote)
             l3 == Append(l2, x)
             l4 == Append(l3, DoubleQuote)
             l5 == Append(l4, x)
  <2>10. l5 = <<x, DoubleQuote, x, DoubleQuote, x>>
    BY <2>8, FiveCharacters
  <2>11. l0 \in Seq(Chars) /\ End(Shell, r, l0) = r
    BY <1>1, <2>2, EndEmpty
  <2> HIDE DEF l0
  <2>12. l1 \in Seq(Chars) /\ End(Shell, r, l1) = r1
    BY <2>2, <2>3, <2>9, <2>11
  <2> HIDE DEF l1
  <2>13. l2 \in Seq(Chars) /\ End(Shell, r, l2) = r2
    BY <2>2, <2>4, <2>8, <2>9, <2>12
  <2> HIDE DEF l2
  <2>14. l3 \in Seq(Chars) /\ End(Shell, r, l3) = r3
    BY <2>2, <2>5, <2>9, <2>13
  <2> HIDE DEF l3
  <2>15. l4 \in Seq(Chars) /\ End(Shell, r, l4) = r4
    BY <2>2, <2>6, <2>8, <2>9, <2>14
  <2> HIDE DEF l4
  <2>16. End(Shell, r, l5) = r5
    BY <2>2, <2>7, <2>9, <2>15
  <2> QED
    BY <2>1, <2>10, <2>16 DEF r, r5
<1> QED
  BY <1>5, <1>6

LEMMA RequotedType == Requoted \in [Chars -> Lines]
<1>1. Quote \in Chars /\ DoubleQuote \in Chars
  BY CharacterFacts
<1>2. <<Quote, DoubleQuote, Quote, DoubleQuote, Quote>> \in Lines
  BY <1>1 DEF Lines
<1>3. \A c \in Chars : <<c>> \in Lines
  BY DEF Lines
<1> QED
  BY <1>2, <1>3 DEF Requoted, Chars

LEMMA QuotedReads ==
  ASSUME NEW v \in Lines
  PROVE  Reads(<<Quote>> \o EachCharacter(v, Requoted) \o <<Quote>>, <<v>>)
<1>1. /\ IsAutomaton(Shell) /\ Shell.states = ShellStates /\ Shell.chars = Chars
      /\ \A q \in ShellStates, y \in Chars : Shell.next[<<q, y>>] = ShellStep(q, y)
  BY ShellIsAutomaton
<1>2. /\ "plain" \in ShellModes /\ "single" \in ShellModes
      /\ <<>> \in Lines /\ TRUE \in BOOLEAN
  BY DEF ShellModes, Lines
<1>3. Quote \in Chars /\ <<Quote>> \in Seq(Chars)
  BY CharacterFacts
<1>4. \A u \in Lines : EachCharacter(u, Requoted) \in Seq(Chars)
  BY EachCharacterType, RequotedType DEF Lines
<1>5. \A x \in Chars : Requoted[x] \in Seq(Chars)
  BY RequotedType DEF Lines
<1>6. ASSUME NEW s \in Seq(Chars), NEW t \in Seq(Chars), NEW k \in Seq(Chars)
      PROVE  s \o t \in Seq(Chars) /\ s \o (t \o k) = (s \o t) \o k
  OBVIOUS
<1>7. ASSUME NEW b \in Seq(Lines)
      PROVE  End(Shell, Ready(b), <<Quote>> \o EachCharacter(v, Requoted) \o <<Quote>>)
               = Sh("plain", v, TRUE, b)
  <2> DEFINE A == {u \in Lines :
                     End(Shell, Ready(b), <<Quote>> \o EachCharacter(u, Requoted))
                       = Sh("single", u, TRUE, b)}
  <2>1. /\ Ready(b) \in ShellStates
        /\ \A u \in Lines : Sh("single", u, TRUE, b) \in ShellStates
    BY <1>2, ShTypes
  <2>2. <<>> \in A
    <3>1. EachCharacter(<<>>, Requoted) = <<>>
      BY RequotedType, EachCharacterEmpty
    <3>2. <<Quote>> \o <<>> = <<Quote>>
      OBVIOUS
    <3>3. End(Shell, Ready(b), <<Quote>>) = Shell.next[<<Ready(b), Quote>>]
      BY <1>1, <1>3, <2>1, EndOne
    <3>4. Shell.next[<<Ready(b), Quote>>] = ShellStep(Ready(b), Quote)
      BY <1>1, <1>3, <2>1
    <3>5. ShellStep(Ready(b), Quote) = Sh("single", <<>>, TRUE, b)
      BY QuoteOpens, Zenon DEF Ready
    <3>6. End(Shell, Ready(b), <<Quote>> \o EachCharacter(<<>>, Requoted))
            = Sh("single", <<>>, TRUE, b)
      BY <3>1, <3>2, <3>3, <3>4, <3>5
    <3> QED
      BY <1>2, <3>6
  <2>3. ASSUME NEW u \in Lines, NEW x \in Chars, u \in A
        PROVE  Append(u, x) \in A
    <3> DEFINE k == EachCharacter(u, Requoted)
               l == <<Quote>> \o k
    <3>1. EachCharacter(Append(u, x), Requoted) = k \o Requoted[x]
      BY RequotedType, EachCharacterAppend
    <3>2. k \in Seq(Chars)
      BY <1>4
    <3>3. End(Shell, Ready(b), l) = Sh("single", u, TRUE, b)
      BY <2>3
    <3> HIDE DEF k
    <3>4. l \in Seq(Chars) /\ <<Quote>> \o (k \o Requoted[x]) = l \o Requoted[x]
      BY <1>3, <1>5, <1>6, <3>2
    <3> HIDE DEF l
    <3>5. End(Shell, Ready(b), l \o Requoted[x])
            = End(Shell, End(Shell, Ready(b), l), Requoted[x])
      BY <1>1, <1>5, <2>1, <3>4, EndConcat
    <3>6. End(Shell, Sh("single", u, TRUE, b), Requoted[x])
            = Sh("single", Append(u, x), TRUE, b)
      BY RequotedHolds
    <3>7. End(Shell, Ready(b), <<Quote>> \o EachCharacter(Append(u, x), Requoted))
            = Sh("single", Append(u, x), TRUE, b)
      BY <3>1, <3>3, <3>4, <3>5, <3>6
    <3>8. Append(u, x) \in Lines
      BY DEF Lines
    <3> QED
      BY <3>7, <3>8
  <2>4. v \in A
    <3> HIDE DEF A
    <3>1. Lines \subseteq A
      BY <2>2, <2>3, TextInduction DEF Lines
    <3> QED
      BY <3>1
  <2> DEFINE l == <<Quote>> \o EachCharacter(v, Requoted)
  <2>5. l \in Seq(Chars) /\ End(Shell, Ready(b), l) = Sh("single", v, TRUE, b)
    BY <1>3, <1>4, <1>6, <2>4
  <2> HIDE DEF l
  <2>6. l \o <<Quote>> = Append(l, Quote)
    BY AppendIsConcat
  <2>7. End(Shell, Ready(b), Append(l, Quote))
          = Shell.next[<<End(Shell, Ready(b), l), Quote>>]
    BY <1>1, <1>3, <2>1, <2>5, EndAppend
  <2>8. Shell.next[<<Sh("single", v, TRUE, b), Quote>>]
          = ShellStep(Sh("single", v, TRUE, b), Quote)
    BY <1>1, <1>3, <2>1
  <2>9. ShellStep(Sh("single", v, TRUE, b), Quote) = Sh("plain", v, TRUE, b)
    BY QuoteCloses, Zenon
  <2> QED
    BY <2>5, <2>6, <2>7, <2>8, <2>9, Zenon DEF l
<1>8. <<Quote>> \o EachCharacter(v, Requoted) \o <<Quote>> \in Lines
  BY <1>3, <1>4, <1>6 DEF Lines
<1> QED
  BY <1>7, <1>8, WordEnds, Zenon

\* So is every value, quoted or not.
LEMMA ArgumentReads ==
  ASSUME NEW v \in Lines
  PROVE  Reads(shellArgument(v), <<v>>)
<1>1. CASE v # <<>> /\ Range(v) \subseteq Safe
  <2>1. v \in Seq(Chars)
    BY DEF Lines
  <2>2. \A i \in 1..Len(v) : v[i] \in Safe
    BY <1>1, <2>1 DEF Range
  <2>3. v \in Seq(Safe)
    BY <2>1, <2>2
  <2> QED
    BY <1>1, <2>3, SafeReads, Zenon DEF shellArgument
<1>2. CASE ~ (v # <<>> /\ Range(v) \subseteq Safe)
  BY <1>2, QuotedReads, Zenon DEF shellArgument
<1> QED
  BY <1>1, <1>2

-----------------------------------------------------------------------------
(* The commands of a record.                                                *)

\* One more word.
LEMMA ReadsMore ==
  ASSUME NEW l, NEW words, Reads(l, words), NEW m, NEW w, Reads(m, <<w>>)
  PROVE  Reads(l ++ m, Append(words, w))
<1>1. Append(words, w) = words \o <<w>>
  BY AppendIsConcat DEF Reads
<1> QED
  BY <1>1, ReadsTogether

LEMMA WordReads == Reads(Word, <<Word>>)
<1>1. Word \in Seq(Safe) /\ Word # <<>>
  BY CharacterFacts DEF Word
<1> QED
  BY <1>1, SafeReads

\* The parts that the registration of a gateway is made of.
LEMMA NamedReads ==
  ASSUME NEW t \in Lines, NEW q, Reads(q, <<t>>)
  PROVE  Reads(Word ++ Word ++ q,
               <<Word, Word, t>>)
<1> DEFINE c1 == Word
           c2 == c1 ++ Word
           c3 == c2 ++ q
<1>1. Reads(c1, <<Word>>)
  BY WordReads
<1>0. Word \in Lines
  BY WordReads DEF Reads
<1> HIDE DEF c1
<1>2. Reads(c2, <<Word, Word>>)
  <2>1. <<Word>> \in Seq(Lines)
        /\ <<Word, Word>> = Append(<<Word>>, Word)
    BY <1>0
  <2> QED
    BY <1>1, <2>1, WordReads, ReadsMore
<1> HIDE DEF c2
<1>3. Reads(c3, <<Word, Word, t>>)
  <2>1. <<Word, Word>> \in Seq(Lines)
        /\ <<Word, Word, t>> = Append(<<Word, Word>>, t)
    BY <1>0
  <2> QED
    BY <1>2, <2>1, ReadsMore
<1> HIDE DEF c3
<1> QED
  BY <1>3, Zenon DEF c1, c2, c3

LEMMA OidcReads ==
  ASSUME NEW x \in Lines, NEW i, Reads(i, <<x>>),
         NEW y \in Lines, NEW k, Reads(k, <<y>>),
         NEW z \in Lines, NEW a, Reads(a, <<z>>)
  PROVE  Reads(Word ++ i ++ Word ++ k ++ Word ++ a,
               <<Word, x, Word, y, Word, z>>)
<1> DEFINE c1 == Word
           c2 == c1 ++ i
           c3 == c2 ++ Word
           c4 == c3 ++ k
           c5 == c4 ++ Word
           c6 == c5 ++ a
<1>1. Reads(c1, <<Word>>)
  BY WordReads
<1>0. Word \in Lines
  BY WordReads DEF Reads
<1> HIDE DEF c1
<1>2. Reads(c2, <<Word, x>>)
  <2>1. <<Word>> \in Seq(Lines)
        /\ <<Word, x>> = Append(<<Word>>, x)
    BY <1>0
  <2> QED
    BY <1>1, <2>1, ReadsMore
<1> HIDE DEF c2
<1>3. Reads(c3, <<Word, x, Word>>)
  <2>1. <<Word, x>> \in Seq(Lines)
        /\ <<Word, x, Word>> = Append(<<Word, x>>, Word)
    BY <1>0
  <2> QED
    BY <1>2, <2>1, WordReads, ReadsMore
<1> HIDE DEF c3
<1>4. Reads(c4, <<Word, x, Word, y>>)
  <2>1. <<Word, x, Word>> \in Seq(Lines)
        /\ <<Word, x, Word, y>> = Append(<<Word, x, Word>>, y)
    BY <1>0
  <2> QED
    BY <1>3, <2>1, ReadsMore
<1> HIDE DEF c4
<1>5. Reads(c5, <<Word, x, Word, y, Word>>)
  <2>1. <<Word, x, Word, y>> \in Seq(Lines)
        /\ <<Word, x, Word, y, Word>> = Append(<<Word, x, Word, y>>, Word)
    BY <1>0
  <2> QED
    BY <1>4, <2>1, WordReads, ReadsMore
<1> HIDE DEF c5
<1>6. Reads(c6, <<Word, x, Word, y, Word, z>>)
  <2>1. <<Word, x, Word, y, Word>> \in Seq(Lines)
        /\ <<Word, x, Word, y, Word, z>> = Append(<<Word, x, Word, y, Word>>, z)
    BY <1>0
  <2> QED
    BY <1>5, <2>1, ReadsMore
<1> HIDE DEF c6
<1> QED
  BY <1>6, Zenon DEF c1, c2, c3, c4, c5, c6

\* The other commands, of any texts that are read as one word.
LEMMA MemberReads ==
  ASSUME NEW t \in Lines, NEW q, Reads(q, <<t>>)
  PROVE  Reads(Word ++ Word ++ q ++ Word,
               <<Word, Word, t, Word>>)
<1> DEFINE c1 == Word
           c2 == c1 ++ Word
           c3 == c2 ++ q
           c4 == c3 ++ Word
<1>1. Reads(c1, <<Word>>)
  BY WordReads
<1>0. Word \in Lines
  BY WordReads DEF Reads
<1> HIDE DEF c1
<1>2. Reads(c2, <<Word, Word>>)
  <2>1. <<Word>> \in Seq(Lines)
        /\ <<Word, Word>> = Append(<<Word>>, Word)
    BY <1>0
  <2> QED
    BY <1>1, <2>1, WordReads, ReadsMore
<1> HIDE DEF c2
<1>3. Reads(c3, <<Word, Word, t>>)
  <2>1. <<Word, Word>> \in Seq(Lines)
        /\ <<Word, Word, t>> = Append(<<Word, Word>>, t)
    BY <1>0
  <2> QED
    BY <1>2, <2>1, ReadsMore
<1> HIDE DEF c3
<1>4. Reads(c4, <<Word, Word, t, Word>>)
  <2>1. <<Word, Word, t>> \in Seq(Lines)
        /\ <<Word, Word, t, Word>> = Append(<<Word, Word, t>>, Word)
    BY <1>0
  <2> QED
    BY <1>3, <2>1, WordReads, ReadsMore
<1> HIDE DEF c4
<1> QED
  BY <1>4, Zenon DEF c1, c2, c3, c4

LEMMA ExchangeReads ==
  ASSUME NEW t \in Lines, NEW q, Reads(q, <<t>>),
         NEW x \in Lines, NEW k, Reads(k, <<x>>)
  PROVE  Reads(Word ++ q ++ Word ++ k ++ Word,
               <<Word, t, Word, x, Word>>)
<1> DEFINE c1 == Word
           c2 == c1 ++ q
           c3 == c2 ++ Word
           c4 == c3 ++ k
           c5 == c4 ++ Word
<1>1. Reads(c1, <<Word>>)
  BY WordReads
<1>0. Word \in Lines
  BY WordReads DEF Reads
<1> HIDE DEF c1
<1>2. Reads(c2, <<Word, t>>)
  <2>1. <<Word>> \in Seq(Lines)
        /\ <<Word, t>> = Append(<<Word>>, t)
    BY <1>0
  <2> QED
    BY <1>1, <2>1, ReadsMore
<1> HIDE DEF c2
<1>3. Reads(c3, <<Word, t, Word>>)
  <2>1. <<Word, t>> \in Seq(Lines)
        /\ <<Word, t, Word>> = Append(<<Word, t>>, Word)
    BY <1>0
  <2> QED
    BY <1>2, <2>1, WordReads, ReadsMore
<1> HIDE DEF c3
<1>4. Reads(c4, <<Word, t, Word, x>>)
  <2>1. <<Word, t, Word>> \in Seq(Lines)
        /\ <<Word, t, Word, x>> = Append(<<Word, t, Word>>, x)
    BY <1>0
  <2> QED
    BY <1>3, <2>1, ReadsMore
<1> HIDE DEF c4
<1>5. Reads(c5, <<Word, t, Word, x, Word>>)
  <2>1. <<Word, t, Word, x>> \in Seq(Lines)
        /\ <<Word, t, Word, x, Word>> = Append(<<Word, t, Word, x>>, Word)
    BY <1>0
  <2> QED
    BY <1>4, <2>1, WordReads, ReadsMore
<1> HIDE DEF c5
<1> QED
  BY <1>5, Zenon DEF c1, c2, c3, c4, c5

LEMMA SlotsRead ==
  ASSUME NEW s \in Lines, NEW p, Reads(p, <<s>>),
         NEW t \in Lines, NEW m, Reads(m, <<t>>)
  PROVE  Reads(Word ++ Word ++ p ++ Word ++ Word ++ m,
               <<Word, Word, s, Word, Word, t>>)
<1> DEFINE c1 == Word
           c2 == c1 ++ Word
           c3 == c2 ++ p
           c4 == c3 ++ Word
           c5 == c4 ++ Word
           c6 == c5 ++ m
<1>1. Reads(c1, <<Word>>)
  BY WordReads
<1>0. Word \in Lines
  BY WordReads DEF Reads
<1> HIDE DEF c1
<1>2. Reads(c2, <<Word, Word>>)
  <2>1. <<Word>> \in Seq(Lines)
        /\ <<Word, Word>> = Append(<<Word>>, Word)
    BY <1>0
  <2> QED
    BY <1>1, <2>1, WordReads, ReadsMore
<1> HIDE DEF c2
<1>3. Reads(c3, <<Word, Word, s>>)
  <2>1. <<Word, Word>> \in Seq(Lines)
        /\ <<Word, Word, s>> = Append(<<Word, Word>>, s)
    BY <1>0
  <2> QED
    BY <1>2, <2>1, ReadsMore
<1> HIDE DEF c3
<1>4. Reads(c4, <<Word, Word, s, Word>>)
  <2>1. <<Word, Word, s>> \in Seq(Lines)
        /\ <<Word, Word, s, Word>> = Append(<<Word, Word, s>>, Word)
    BY <1>0
  <2> QED
    BY <1>3, <2>1, WordReads, ReadsMore
<1> HIDE DEF c4
<1>5. Reads(c5, <<Word, Word, s, Word, Word>>)
  <2>1. <<Word, Word, s, Word>> \in Seq(Lines)
        /\ <<Word, Word, s, Word, Word>> = Append(<<Word, Word, s, Word>>, Word)
    BY <1>0
  <2> QED
    BY <1>4, <2>1, WordReads, ReadsMore
<1> HIDE DEF c5
<1>6. Reads(c6, <<Word, Word, s, Word, Word, t>>)
  <2>1. <<Word, Word, s, Word, Word>> \in Seq(Lines)
        /\ <<Word, Word, s, Word, Word, t>> = Append(<<Word, Word, s, Word, Word>>, t)
    BY <1>0
  <2> QED
    BY <1>5, <2>1, ReadsMore
<1> HIDE DEF c6
<1> QED
  BY <1>6, Zenon DEF c1, c2, c3, c4, c5, c6

LEMMA ModelReads ==
  ASSUME NEW s \in Lines, NEW p, Reads(p, <<s>>),
         NEW t \in Lines, NEW m, Reads(m, <<t>>)
  PROVE  Reads(Word ++ Word ++ p ++ Word ++ m,
               <<Word, Word, s, Word, t>>)
<1> DEFINE c1 == Word
           c2 == c1 ++ Word
           c3 == c2 ++ p
           c4 == c3 ++ Word
           c5 == c4 ++ m
<1>1. Reads(c1, <<Word>>)
  BY WordReads
<1>0. Word \in Lines
  BY WordReads DEF Reads
<1> HIDE DEF c1
<1>2. Reads(c2, <<Word, Word>>)
  <2>1. <<Word>> \in Seq(Lines)
        /\ <<Word, Word>> = Append(<<Word>>, Word)
    BY <1>0
  <2> QED
    BY <1>1, <2>1, WordReads, ReadsMore
<1> HIDE DEF c2
<1>3. Reads(c3, <<Word, Word, s>>)
  <2>1. <<Word, Word>> \in Seq(Lines)
        /\ <<Word, Word, s>> = Append(<<Word, Word>>, s)
    BY <1>0
  <2> QED
    BY <1>2, <2>1, ReadsMore
<1> HIDE DEF c3
<1>4. Reads(c4, <<Word, Word, s, Word>>)
  <2>1. <<Word, Word, s>> \in Seq(Lines)
        /\ <<Word, Word, s, Word>> = Append(<<Word, Word, s>>, Word)
    BY <1>0
  <2> QED
    BY <1>3, <2>1, WordReads, ReadsMore
<1> HIDE DEF c4
<1>5. Reads(c5, <<Word, Word, s, Word, t>>)
  <2>1. <<Word, Word, s, Word>> \in Seq(Lines)
        /\ <<Word, Word, s, Word, t>> = Append(<<Word, Word, s, Word>>, t)
    BY <1>0
  <2> QED
    BY <1>4, <2>1, ReadsMore
<1> HIDE DEF c5
<1> QED
  BY <1>5, Zenon DEF c1, c2, c3, c4, c5

LEMMA ScriptReads ==
  ASSUME NEW x \in Lines, NEW a, Reads(a, <<x>>),
         NEW t \in Lines, NEW q, Reads(q, <<t>>)
  PROVE  Reads(Word ++ Word ++ a ++ Word ++ q ++ Word ++ q ++ Word ++ q ++ q ++ Word ++ a ++ Word,
               <<Word, Word, x, Word, t, Word, t, Word, t, t, Word, x, Word>>)
<1> DEFINE c1 == Word
           c2 == c1 ++ Word
           c3 == c2 ++ a
           c4 == c3 ++ Word
           c5 == c4 ++ q
           c6 == c5 ++ Word
           c7 == c6 ++ q
           c8 == c7 ++ Word
           c9 == c8 ++ q
           c10 == c9 ++ q
           c11 == c10 ++ Word
           c12 == c11 ++ a
           c13 == c12 ++ Word
<1>1. Reads(c1, <<Word>>)
  BY WordReads
<1>0. Word \in Lines
  BY WordReads DEF Reads
<1> HIDE DEF c1
<1>2. Reads(c2, <<Word, Word>>)
  <2>1. <<Word>> \in Seq(Lines)
        /\ <<Word, Word>> = Append(<<Word>>, Word)
    BY <1>0
  <2> QED
    BY <1>1, <2>1, WordReads, ReadsMore
<1> HIDE DEF c2
<1>3. Reads(c3, <<Word, Word, x>>)
  <2>1. <<Word, Word>> \in Seq(Lines)
        /\ <<Word, Word, x>> = Append(<<Word, Word>>, x)
    BY <1>0
  <2> QED
    BY <1>2, <2>1, ReadsMore
<1> HIDE DEF c3
<1>4. Reads(c4, <<Word, Word, x, Word>>)
  <2>1. <<Word, Word, x>> \in Seq(Lines)
        /\ <<Word, Word, x, Word>> = Append(<<Word, Word, x>>, Word)
    BY <1>0
  <2> QED
    BY <1>3, <2>1, WordReads, ReadsMore
<1> HIDE DEF c4
<1>5. Reads(c5, <<Word, Word, x, Word, t>>)
  <2>1. <<Word, Word, x, Word>> \in Seq(Lines)
        /\ <<Word, Word, x, Word, t>> = Append(<<Word, Word, x, Word>>, t)
    BY <1>0
  <2> QED
    BY <1>4, <2>1, ReadsMore
<1> HIDE DEF c5
<1>6. Reads(c6, <<Word, Word, x, Word, t, Word>>)
  <2>1. <<Word, Word, x, Word, t>> \in Seq(Lines)
        /\ <<Word, Word, x, Word, t, Word>> = Append(<<Word, Word, x, Word, t>>, Word)
    BY <1>0
  <2> QED
    BY <1>5, <2>1, WordReads, ReadsMore
<1> HIDE DEF c6
<1>7. Reads(c7, <<Word, Word, x, Word, t, Word, t>>)
  <2>1. <<Word, Word, x, Word, t, Word>> \in Seq(Lines)
        /\ <<Word, Word, x, Word, t, Word, t>> = Append(<<Word, Word, x, Word, t, Word>>, t)
    BY <1>0
  <2> QED
    BY <1>6, <2>1, ReadsMore
<1> HIDE DEF c7
<1>8. Reads(c8, <<Word, Word, x, Word, t, Word, t, Word>>)
  <2>1. <<Word, Word, x, Word, t, Word, t>> \in Seq(Lines)
        /\ <<Word, Word, x, Word, t, Word, t, Word>> = Append(<<Word, Word, x, Word, t, Word, t>>, Word)
    BY <1>0
  <2> QED
    BY <1>7, <2>1, WordReads, ReadsMore
<1> HIDE DEF c8
<1>9. Reads(c9, <<Word, Word, x, Word, t, Word, t, Word, t>>)
  <2>1. <<Word, Word, x, Word, t, Word, t, Word>> \in Seq(Lines)
        /\ <<Word, Word, x, Word, t, Word, t, Word, t>> = Append(<<Word, Word, x, Word, t, Word, t, Word>>, t)
    BY <1>0
  <2> QED
    BY <1>8, <2>1, ReadsMore
<1> HIDE DEF c9
<1>10. Reads(c10, <<Word, Word, x, Word, t, Word, t, Word, t, t>>)
  <2>1. <<Word, Word, x, Word, t, Word, t, Word, t>> \in Seq(Lines)
        /\ <<Word, Word, x, Word, t, Word, t, Word, t, t>> = Append(<<Word, Word, x, Word, t, Word, t, Word, t>>, t)
    BY <1>0
  <2> QED
    BY <1>9, <2>1, ReadsMore
<1> HIDE DEF c10
<1>11. Reads(c11, <<Word, Word, x, Word, t, Word, t, Word, t, t, Word>>)
  <2>1. <<Word, Word, x, Word, t, Word, t, Word, t, t>> \in Seq(Lines)
        /\ <<Word, Word, x, Word, t, Word, t, Word, t, t, Word>> = Append(<<Word, Word, x, Word, t, Word, t, Word, t, t>>, Word)
    BY <1>0
  <2> QED
    BY <1>10, <2>1, WordReads, ReadsMore
<1> HIDE DEF c11
<1>12. Reads(c12, <<Word, Word, x, Word, t, Word, t, Word, t, t, Word, x>>)
  <2>1. <<Word, Word, x, Word, t, Word, t, Word, t, t, Word>> \in Seq(Lines)
        /\ <<Word, Word, x, Word, t, Word, t, Word, t, t, Word, x>> = Append(<<Word, Word, x, Word, t, Word, t, Word, t, t, Word>>, x)
    BY <1>0
  <2> QED
    BY <1>11, <2>1, ReadsMore
<1> HIDE DEF c12
<1>13. Reads(c13, <<Word, Word, x, Word, t, Word, t, Word, t, t, Word, x, Word>>)
  <2>1. <<Word, Word, x, Word, t, Word, t, Word, t, t, Word, x>> \in Seq(Lines)
        /\ <<Word, Word, x, Word, t, Word, t, Word, t, t, Word, x, Word>> = Append(<<Word, Word, x, Word, t, Word, t, Word, t, t, Word, x>>, Word)
    BY <1>0
  <2> QED
    BY <1>12, <2>1, WordReads, ReadsMore
<1> HIDE DEF c13
<1> QED
  BY <1>13, Zenon DEF c1, c2, c3, c4, c5, c6, c7, c8, c9, c10, c11, c12, c13

-----------------------------------------------------------------------------
(* The invariant: what the record and the slots may hold.                    *)

TextsInv == record \in Records /\ values \in [MarkerTexts -> Seq(Safe)]

LEMMA MarkersAreTexts ==
  {providerMarker, modelMarker, sandboxMarker} \subseteq MarkerTexts
<1>1. Markers \in Seq(Seq(Safe) \ {<<>>}) /\ Len(Markers) = 3
  BY CommandsAssumption, BlocksAssumption
<1>2. 1 \in DOMAIN Markers /\ 2 \in DOMAIN Markers /\ 3 \in DOMAIN Markers
  BY <1>1
<1> QED
  BY <1>2 DEF MarkerTexts, providerMarker, modelMarker, sandboxMarker

LEMMA TextsStart == ASSUME BlocksInit PROVE TextsInv
  BY BlocksAssumption DEF BlocksInit, TextsInv

LEMMA TextsStep == ASSUME TextsInv, [BlocksNext]_blocksVars PROVE TextsInv'
<1>1. ASSUME NEW b \in Blocks, HighlightDone(b)
      PROVE  TextsInv'
  BY <1>1 DEF HighlightDone, TextsInv
<1>2. ASSUME NEW r \in Records, RecordChanges(r)
      PROVE  TextsInv'
  BY <1>2 DEF RecordChanges, TextsInv
<1>3. ASSUME NEW slot, Focus(slot)
      PROVE  TextsInv'
  BY <1>3 DEF Focus, TextsInv
<1>4. ASSUME Blur
      PROVE  TextsInv'
  BY <1>4 DEF Blur, TextsInv
<1>5. ASSUME NEW raw \in Pasted, Input(raw)
      PROVE  TextsInv'
  <2>1. raw \in Lines
    BY BlocksAssumption DEF Lines, Chars
  <2>2. sanitizeFieldValue(raw) \in Seq(Safe)
    BY <2>1, CleanedIsSafe
  <2>3. PICK m : values' = [values EXCEPT ![m] = sanitizeFieldValue(raw)]
    BY <1>5 DEF Input
  <2>4. record' = record
    BY <1>5 DEF Input
  <2> QED
    BY <2>2, <2>3, <2>4 DEF TextsInv
<1>6. ASSUME NEW b \in Buttons, ClickCopy(b) \/ TooltipHides(b)
      PROVE  TextsInv'
  BY <1>6 DEF ClickCopy, TooltipHides, slots, TextsInv
<1>7. ASSUME NEW w, NEW ok, CopyEnds(w, ok)
      PROVE  TextsInv'
  BY <1>7 DEF CopyEnds, slots, TextsInv
<1>8. ASSUME UNCHANGED blocksVars
      PROVE  TextsInv'
  BY <1>8 DEF blocksVars, slots, TextsInv
<1> QED
  BY <1>1, <1>2, <1>3, <1>4, <1>5, <1>6, <1>7, <1>8 DEF BlocksNext

-----------------------------------------------------------------------------
(* Under it, every command is read as it was meant.                         *)

LEMMA ValueFacts ==
  ASSUME TextsInv
  PROVE  /\ record.text \in Lines
         /\ \A v : ValueOf(record, v) \in Lines
         /\ \A v : ValueOf(record, v) # <<>> =>
                     v \notin record.absent /\ ValueOf(record, v) = record.text
<1>1. record.text \in Lines
  BY BlocksAssumption DEF TextsInv, Lines, Chars
<1>2. <<>> \in Lines
  BY DEF Lines
<1> QED
  BY <1>1, <1>2 DEF ValueOf

\* The registration of the gateway.
LEMMA AddReads ==
  ASSUME TextsInv, buildGatewayAddCommand(record) # Undefined
  PROVE  Reads(buildGatewayAddCommand(record), AddWords)
<1> DEFINE V(v) == ValueOf(record, v)
           named == Word ++ Word ++ shellArgument(V("gateway"))
           oidc == Word ++ shellArgument(V("issuer")) ++ Word
                   ++ shellArgument(V("client")) ++ Word
                   ++ shellArgument(V("audience"))
           last == shellArgument(V("endpoint"))
           flags == <<Word, V("issuer"), Word, V("client"), Word, V("audience")>>
           all == record.absent \cap {"issuer", "client", "audience"} = {}
<1>1. \A v : V(v) \in Lines /\ Reads(shellArgument(V(v)), <<V(v)>>)
  BY ValueFacts, ArgumentReads
<1>2. Reads(named, <<Word, Word, V("gateway")>>)
  BY <1>1, NamedReads
<1>3. Reads(oidc, flags)
  BY <1>1, OidcReads
<1>4. Reads(last, <<V("endpoint")>>)
  BY <1>1
<1>5. V("endpoint") # <<>>
  BY Zenon DEF buildGatewayAddCommand
<1>6. HasOidc(record) <=> all
  <2>1. record.text # <<>>
    BY <1>5, ValueFacts
  <2>2. \A v : V(v) # <<>> <=> v \notin record.absent
    BY <2>1 DEF ValueOf
  <2> QED
    BY <2>2 DEF HasOidc
<1>7. buildGatewayAddCommand(record)
        = (IF HasOidc(record) THEN named ++ oidc ELSE named) ++ last
  BY <1>5, Zenon DEF buildGatewayAddCommand
<1>8. AddWords = <<Word, Word, V("gateway")>> \o (IF all THEN flags ELSE <<>>)
                 \o <<V("endpoint")>>
  BY Zenon DEF AddWords
<1> HIDE DEF V, named, oidc, last, flags, all
<1>9. CASE all
  <2>1. Reads(named ++ oidc, <<Word, Word, V("gateway")>> \o flags)
    BY <1>2, <1>3, ReadsTogether
  <2>2. Reads((named ++ oidc) ++ last,
              (<<Word, Word, V("gateway")>> \o flags) \o <<V("endpoint")>>)
    BY <1>4, <2>1, ReadsTogether
  <2> QED
    BY <1>6, <1>7, <1>8, <1>9, <2>2
<1>10. CASE ~all
  <2>1. Reads(named ++ last, <<Word, Word, V("gateway")>> \o <<V("endpoint")>>)
    BY <1>2, <1>4, ReadsTogether
  <2>2. <<Word, Word, V("gateway")>> \o <<>> = <<Word, Word, V("gateway")>>
    BY <1>2 DEF Reads
  <2> QED
    BY <1>6, <1>7, <1>8, <1>10, <2>1, <2>2
<1> QED
  BY <1>9, <1>10

\* The commands of values that the console quotes.
LEMMA QuotedValuesGood == ASSUME TextsInv PROVE QuotedValuesArrive
<1> DEFINE add == buildGatewayAddCommand(record)
           member == buildWorkspaceMembershipCommand(record.text)
           words == <<Word, Word, record.text, Word>>
<1>1. ASSUME add # Undefined
      PROVE  ReadsAs(add, AddWords)
  BY <1>1, AddReads, ReadsReadsAs
<1>2. ASSUME member # Undefined
      PROVE  ReadsAs(member, words)
  <2>1. member = Word ++ Word ++ shellArgument(record.text) ++ Word
    BY <1>2, Zenon DEF buildWorkspaceMembershipCommand
  <2>2. Reads(shellArgument(record.text), <<record.text>>) /\ record.text \in Lines
    BY ValueFacts, ArgumentReads
  <2> HIDE DEF member
  <2>3. Reads(Word ++ Word ++ shellArgument(record.text) ++ Word, words)
    BY <2>2, MemberReads
  <2> QED
    BY <2>1, <2>3, ReadsReadsAs
<1> QED
  BY <1>1, <1>2, Zenon DEF QuotedValuesArrive

\* The scripts of an account.
LEMMA ScriptsGood == ASSUME TextsInv PROVE ScriptsAreComplete
<1> DEFINE script == buildOpenShellServiceAccountScript(Word, record)
           text == record.text
           alias == text \o Word \o Word
           words == <<Word, Word, alias, Word, text, Word, text, Word, text, text,
                      Word, alias, Word>>
           exchange == buildClientCredentialsScript(record)
           client == Word \o text
<1>1. text \in Lines /\ Word \in Lines /\ Word \in Seq(Safe)
  BY ValueFacts, WordReads, CharacterFacts DEF Reads
<1>2. alias \in Lines /\ client \in Lines
  BY <1>1 DEF Lines
<1>3. /\ Reads(shellArgument(text), <<text>>)
      /\ Reads(shellArgument(alias), <<alias>>)
      /\ Reads(shellArgument(client), <<client>>)
  BY <1>1, <1>2, ArgumentReads
<1>4. ASSUME hasRequiredConnectionValues(record)
      PROVE  ~Blank(text) /\ \A v \in Values : ValueOf(record, v) = text
  <2>1. Blank(<<>>)
    BY DEF Blank, Range
  <2>2. \A v \in Values : ~Blank(ValueOf(record, v))
    BY <1>4, Zenon DEF hasRequiredConnectionValues
  <2>3. \A v \in Values : ValueOf(record, v) # <<>>
    BY <2>1, <2>2, Zenon
  <2>4. \A v \in Values : ValueOf(record, v) = text
    BY <2>3, ValueFacts
  <2>5. "gateway" \in Values
    BY DEF Values
  <2> QED
    BY <2>2, <2>4, <2>5
<1>5. /\ "gateway" \in Values /\ "issuer" \in Values /\ "client" \in Values
      /\ "audience" \in Values /\ "endpoint" \in Values /\ "token" \in Values
  BY DEF Values
<1>6. ASSUME script # Undefined
      PROVE  ReadsAs(script, words) /\ \A i \in DOMAIN words : ~Blank(words[i])
  <2>1. hasRequiredConnectionValues(record)
    BY <1>6, Zenon DEF buildOpenShellServiceAccountScript
  <2>2. ~Blank(text) /\ \A v \in Values : ValueOf(record, v) = text
    BY <1>4, <2>1
  <2>3. serviceAccountGatewayAlias(ValueOf(record, "gateway"), Word) = alias
    BY <1>5, <2>2, Zenon DEF serviceAccountGatewayAlias
  <2> DEFINE q == shellArgument(text)
             a == shellArgument(alias)
  <2>4. script = Word ++ Word ++ a ++ Word ++ q ++ Word ++ q ++ Word ++ q
                 ++ q ++ Word ++ a ++ Word
    BY <1>5, <1>6, <2>2, <2>3, Zenon DEF buildOpenShellServiceAccountScript
  <2> HIDE DEF script, q, a, alias, text
  <2>5. Reads(Word ++ Word ++ a ++ Word ++ q ++ Word ++ q ++ Word ++ q
                ++ q ++ Word ++ a ++ Word, words)
    BY <1>1, <1>2, <1>3, ScriptReads DEF q, a
  <2>6. ReadsAs(script, words)
    BY <2>4, <2>5, ReadsReadsAs
  <2>7. ~Blank(Word) /\ ~Blank(alias)
    <3>1. "w" # Space
      BY DEF Space
    <3>2. "w" \in Range(Word)
      BY DEF Word, Range
    <3>3. "w" \in Range(alias)
      <4>1. alias \in Seq(Chars) /\ Len(alias) \in DOMAIN alias /\ alias[Len(alias)] = "w"
        BY <1>1 DEF alias, Word, Lines
      <4> QED
        BY <4>1 DEF Range
    <3> QED
      BY <3>1, <3>2, <3>3 DEF Blank
  <2>8. \A i \in DOMAIN words : words[i] \in {Word, alias, text}
    OBVIOUS
  <2> QED
    BY <2>2, <2>6, <2>7, <2>8
<1>7. ASSUME exchange # Undefined
      PROVE  ReadsAs(exchange, <<Word, text, Word, client, Word>>)
  <2>1. hasRequiredConnectionValues(record)
    BY <1>7, Zenon DEF buildClientCredentialsScript
  <2>2. \A v \in Values : ValueOf(record, v) = text
    BY <1>4, <2>1
  <2>3. exchange = Word ++ shellArgument(text) ++ Word ++ shellArgument(client) ++ Word
    BY <1>5, <2>1, <2>2, Zenon DEF buildClientCredentialsScript
  <2> HIDE DEF exchange, text, client
  <2>4. Reads(Word ++ shellArgument(text) ++ Word ++ shellArgument(client) ++ Word,
              <<Word, text, Word, client, Word>>)
    BY <1>1, <1>2, <1>3, ExchangeReads
  <2> QED
    BY <2>3, <2>4, ReadsReadsAs
<1> QED
  BY <1>6, <1>7, Zenon DEF ScriptsAreComplete

\* The commands with slots.
LEMMA SlotsGood == ASSUME TextsInv PROVE FilledSlotIsAWord
<1> DEFINE p == values[providerMarker]
           m == values[modelMarker]
           s == values[sandboxMarker]
           setup == CopyText("setup")
<1>1. ASSUME p # <<>>, m # <<>>, s # <<>>
      PROVE  /\ ReadsAs(CopyText("sandbox"), <<Word, Word, s, Word, Word, m>>)
             /\ setup # Undefined =>
                  ReadsAs(setup, AddWords \o <<Word, Word, p, Word>>
                                          \o <<Word, Word, p, Word, m>>)
  <2>1. p \in Seq(Safe) /\ m \in Seq(Safe) /\ s \in Seq(Safe)
    BY MarkersAreTexts DEF TextsInv
  <2>2. Reads(p, <<p>>) /\ Reads(m, <<m>>) /\ Reads(s, <<s>>)
    BY <1>1, <2>1, SafeReads
  <2>3. p \in Lines /\ m \in Lines /\ s \in Lines
    BY <2>2 DEF Reads
  <2>4. CopyText("sandbox") = Word ++ Word ++ s ++ Word ++ Word ++ m
    BY Zenon DEF CopyText, Command, buildSandboxCreateCommand
  <2>5. setup = buildSetupScript(record, p, m)
    BY Zenon DEF CopyText, Command
  <2> HIDE DEF p, m, s, setup
  <2>6. Reads(Word ++ Word ++ s ++ Word ++ Word ++ m,
              <<Word, Word, s, Word, Word, m>>)
    BY <2>2, <2>3, SlotsRead
  <2>7. ASSUME setup # Undefined
        PROVE  ReadsAs(setup, AddWords \o <<Word, Word, p, Word>>
                                       \o <<Word, Word, p, Word, m>>)
    <3> DEFINE add == buildGatewayAddCommand(record)
               create == Word ++ Word ++ p ++ Word
               infer == Word ++ Word ++ p ++ Word ++ m
    <3>1. add # Undefined
      BY <2>5, <2>7, Zenon DEF buildSetupScript
    <3>2. setup = add ++ create ++ infer
      BY <2>5, <3>1, Zenon DEF buildSetupScript, buildProviderCreateCommand,
                               buildInferenceSetCommand
    <3>3. Reads(add, AddWords)
      BY <3>1, AddReads
    <3>4. Reads(create, <<Word, Word, p, Word>>)
      BY <2>2, <2>3, MemberReads
    <3>5. Reads(infer, <<Word, Word, p, Word, m>>)
      BY <2>2, <2>3, ModelReads
    <3> HIDE DEF add, create, infer
    <3>6. Reads(add ++ create, AddWords \o <<Word, Word, p, Word>>)
      BY <3>3, <3>4, ReadsTogether
    <3>7. Reads(add ++ create ++ infer, AddWords \o <<Word, Word, p, Word>>
                                                 \o <<Word, Word, p, Word, m>>)
      BY <3>5, <3>6, ReadsTogether
    <3> QED
      BY <3>2, <3>7, ReadsReadsAs
  <2> QED
    BY <2>4, <2>6, <2>7, ReadsReadsAs
<1> QED
  BY <1>1, Zenon DEF FilledSlotIsAWord

\* Whatever characters a value is of, quotes and dollars among them, the quoted
\* value is one word of a shell, and that word is the value (shellArgument).
THEOREM ArgumentsArriveWhole ==
  \A v \in Seq(Safe \cup Unsafe) : ReadsAs(shellArgument(v), <<v>>)
  BY ArgumentReads, ReadsReadsAs DEF Lines, Chars

\* For every record and everything that is typed or pasted into a slot, a shell
\* reads each command that the console offers as it was meant: quoted values
\* whole, scripts complete, and slots in their place (buildGatewayAddCommand,
\* buildOpenShellServiceAccountScript, buildSetupScript, handleInput).
THEOREM CommandsAreReadRight == Spec => []CommandsReadAsMeant
<1>1. Init => TextsInv
  BY TextsStart DEF Init
<1>2. TextsInv /\ [Next]_vars => TextsInv'
  BY PagesStep, TextsStep
<1>3. TextsInv => CommandsReadAsMeant
  BY QuotedValuesGood, ScriptsGood, SlotsGood DEF CommandsReadAsMeant
<1> QED
  BY <1>1, <1>2, <1>3, PTL DEF Spec

-----------------------------------------------------------------------------
(* The copy buttons of the commands.                                        *)

FeedbackInv ==
  /\ writes \subseteq [block : Buttons, n : Nat]
  /\ outcome \in [Buttons -> {"none", "written", "refused"}]
  /\ FeedbackIsTrue

LEMMA FeedbackStart == ASSUME BlocksInit PROVE FeedbackInv
BY DEF BlocksInit, FeedbackInv, FeedbackIsTrue

LEMMA FeedbackStep == ASSUME FeedbackInv, [BlocksNext]_blocksVars PROVE FeedbackInv'
<1> USE DEF FeedbackInv, FeedbackIsTrue
<1>1. CASE UNCHANGED feedback
  BY <1>1 DEF feedback
<1>2. ASSUME NEW b \in Buttons, ClickCopy(b)
      PROVE  FeedbackInv'
  <2>1. PICK n \in 1..MaxWrites : writes' = writes \cup {[block |-> b, n |-> n]}
    BY <1>2 DEF ClickCopy
  <2>2. n \in Nat
    BY <2>1, BlocksAssumption
  <2> QED
    BY <1>2, <2>1, <2>2 DEF ClickCopy
<1>3. ASSUME NEW w \in writes, NEW ok \in BOOLEAN, CopyEnds(w, ok)
      PROVE  FeedbackInv'
  <2>1. w.block \in Buttons
    OBVIOUS
  <2>2. CASE ok
    BY <1>3, <2>1, <2>2 DEF CopyEnds
  <2>3. CASE ~ok
    BY <1>3, <2>1, <2>3 DEF CopyEnds
  <2> QED
    BY <2>2, <2>3
<1>4. ASSUME NEW b \in Buttons, TooltipHides(b)
      PROVE  FeedbackInv'
  BY <1>4 DEF TooltipHides
<1>5. CASE \/ \E b \in Blocks : HighlightDone(b)
           \/ \E r \in Records : RecordChanges(r)
           \/ \E slot \in Slots : Focus(slot)
           \/ Blur
           \/ \E raw \in Pasted : Input(raw)
           \/ UNCHANGED blocksVars
  <2>1. UNCHANGED feedback
    BY <1>5 DEF HighlightDone, RecordChanges, Focus, Blur, Input, blocksVars
  <2> QED
    BY <1>1, <2>1
<1> QED
  BY <1>2, <1>3, <1>4, <1>5 DEF BlocksNext

\* However the clipboard writes of the setup view overtake each other, "copied" and
\* the alert say what became of the one that ended last (copyScript,
\* copyClientSecret): the part of CopiesAreHonest that is not about the commands.
THEOREM ButtonsSayWhatHappened == Spec => []FeedbackIsTrue
<1>1. Init => FeedbackInv
  BY FeedbackStart DEF Init
<1>2. FeedbackInv /\ [Next]_vars => FeedbackInv'
  BY PagesStep, FeedbackStep
<1>3. FeedbackInv => FeedbackIsTrue
  BY DEF FeedbackInv
<1> QED
  BY <1>1, <1>2, <1>3, PTL DEF Spec

-----------------------------------------------------------------------------
(* Sequences, whatever they hold.                                            *)

\* How sequences are put together, with nothing known of what they hold.
LEMMA SequenceFacts ==
  ASSUME NEW S
  PROVE  /\ <<>> \in Seq(S)
         /\ \A a \in Seq(S) : a \o <<>> = a /\ <<>> \o a = a
         /\ \A a, b \in Seq(S) : a \o b \in Seq(S)
         /\ \A a, b, c \in Seq(S) : (a \o b) \o c = a \o (b \o c)
         /\ \A a \in Seq(S), x \in S :
              /\ Append(a, x) \in Seq(S) /\ Append(a, x) # <<>>
              /\ Append(a, x) = a \o <<x>> /\ <<x>> \in Seq(S)
         /\ \A a, b \in Seq(S), x \in S : Append(a \o b, x) = a \o Append(b, x)
<1>1. \A a \in Seq(S), x \in S : Append(a, x) # <<>>
  <2> TAKE a \in Seq(S), x \in S
  <2>1. Len(Append(a, x)) = Len(a) + 1 /\ Len(a) \in Nat /\ Len(<<>>) = 0
    OBVIOUS
  <2> QED
    BY <2>1
<1>2. \A a, b \in Seq(S), x \in S : Append(a \o b, x) = a \o Append(b, x)
  OBVIOUS
<1>3. \A a, b, c \in Seq(S) : (a \o b) \o c = a \o (b \o c)
  OBVIOUS
<1>4. \A a \in Seq(S), x \in S : Append(a, x) = a \o <<x>>
  OBVIOUS
<1>5. \A a, b \in Seq(S) : a \o b \in Seq(S)
  OBVIOUS
<1>6. \A a \in Seq(S) : a \o <<>> = a /\ <<>> \o a = a
  OBVIOUS
<1>7. \A a \in Seq(S), x \in S : Append(a, x) \in Seq(S) /\ <<x>> \in Seq(S)
  OBVIOUS
<1>8. <<>> \in Seq(S)
  OBVIOUS
<1> QED
  BY <1>1, <1>2, <1>3, <1>4, <1>5, <1>6, <1>7, <1>8, Zenon

LEMMA LineFacts ==
  /\ <<>> \in Lines
  /\ \A a \in Lines : a \o <<>> = a /\ <<>> \o a = a
  /\ \A a, b \in Lines : a \o b \in Lines
  /\ \A a, b, c \in Lines : (a \o b) \o c = a \o (b \o c)
  /\ \A a \in Lines, x \in Chars :
       /\ Append(a, x) \in Lines /\ Append(a, x) # <<>>
       /\ Append(a, x) = a \o <<x>> /\ <<x>> \in Lines
  /\ \A a, b \in Lines, x \in Chars : Append(a \o b, x) = a \o Append(b, x)
  BY SequenceFacts DEF Lines

-----------------------------------------------------------------------------
(* Texts put one after another.                                             *)

Joining(S) ==
  [states |-> Seq(S), chars |-> Seq(S),
   next |-> [p \in Seq(S) \X Seq(S) |-> p[1] \o p[2]]]

LEMMA JoiningIsAutomaton ==
  ASSUME NEW S
  PROVE  /\ IsAutomaton(Joining(S))
         /\ Joining(S).states = Seq(S) /\ Joining(S).chars = Seq(S)
         /\ \A r \in Seq(S), x \in Seq(S) : Joining(S).next[<<r, x>>] = r \o x
<1>1. \A r \in Seq(S), x \in Seq(S) : r \o x \in Seq(S)
  OBVIOUS
<1> QED
  BY <1>1 DEF IsAutomaton, Joining

\* FlattenSeq is a recursive function over places too.
LEMMA FlattenIsEnd ==
  ASSUME NEW S, NEW s \in Seq(Seq(S))
  PROVE  FlattenSeq(s) = End(Joining(S), <<>>, s)
<1> DEFINE M == Joining(S)
<1>1. /\ IsAutomaton(M) /\ M.states = Seq(S) /\ M.chars = Seq(S)
      /\ \A r \in Seq(S), x \in Seq(S) : M.next[<<r, x>>] = r \o x
  BY JoiningIsAutomaton
<1> HIDE DEF M
<1>2. <<>> \in M.states /\ s \in Seq(M.chars)
  BY <1>1
<1>3. Len(s) \in Nat /\ \A i \in 1..Len(s) : s[i] \in Seq(S)
  OBVIOUS
<1>4. CASE s = <<>>
  <2>1. FlattenSeq(s) = s
    BY <1>4 DEF FlattenSeq
  <2>2. End(M, <<>>, <<>>) = <<>>
    BY <1>1, <1>2, EndEmpty
  <2> QED
    BY <1>4, <2>1, <2>2 DEF M
<1>5. CASE s # <<>>
  <2> DEFINE P(f) == f = [i \in 1..Len(s) |->
                            IF i = 1 THEN s[i] ELSE f[i - 1] \o s[i]]
             h == CHOOSE f : P(f)
  <2>1. Len(s) \in Nat /\ Len(s) >= 1 /\ Len(s) # 0
    BY <1>5
  <2>2. FlattenSeq(s) = h[Len(s)]
    BY <2>1 DEF FlattenSeq
  <2>3. PICK g : IsTrace(M, <<>>, s, g)
    BY <1>1, <1>2, TraceExists
  <2>4. g \in [0..Len(s) -> Seq(S)] /\ g[0] = <<>>
        /\ \A i \in 1..Len(s) : g[i] = M.next[<<g[i - 1], s[i]>>]
    BY <1>1, <2>3 DEF IsTrace
  <2>5. ASSUME NEW i \in 1..Len(s)
        PROVE  g[i] = g[i - 1] \o s[i]
    <3>0. i - 1 \in 0..Len(s)
      BY <1>3
    <3>1. g[i - 1] \in Seq(S) /\ s[i] \in Seq(S)
      BY <1>3, <2>4, <3>0, Zenon
    <3>2. M.next[<<g[i - 1], s[i]>>] = g[i - 1] \o s[i]
      BY <1>1, <3>1, Zenon
    <3> QED
      BY <2>4, <3>2, Zenon
  <2> DEFINE g1 == [i \in 1..Len(s) |-> g[i]]
  <2>6. P(g1)
    <3>1. ASSUME NEW i \in 1..Len(s)
          PROVE  g1[i] = IF i = 1 THEN s[i] ELSE g1[i - 1] \o s[i]
      <4>1. CASE i = 1
        <5>1. g[i - 1] = <<>> /\ s[i] \in Seq(S)
          BY <1>3, <2>4, <4>1
        <5>2. <<>> \o s[i] = s[i]
          BY <5>1
        <5>3. g[i] = s[i]
          BY <2>5, <5>1, <5>2, Zenon
        <5> QED
          BY <4>1, <5>3
      <4>2. CASE i # 1
        <5>1. i - 1 \in 1..Len(s)
          BY <1>3, <4>2
        <5> QED
          BY <2>5, <4>2, <5>1
      <4> QED
        BY <4>1, <4>2
    <3> QED
      BY <3>1
  <2>7. P(h)
    <3> HIDE DEF P, g1
    <3> QED
      BY <2>6
  <2> HIDE DEF h
  <2> DEFINE k == [i \in 0..Len(s) |-> IF i = 0 THEN <<>> ELSE h[i]]
  <2>8. k[0] = <<>> /\ k[Len(s)] = h[Len(s)]
    BY <2>1
  <2>9. ASSUME NEW i \in 1..Len(s), k[i - 1] \in M.states
        PROVE  k[i] = M.next[<<k[i - 1], s[i]>>]
    <3>1. k[i] = k[i - 1] \o s[i]
      <4>1. CASE i = 1
        <5>1. h[i] = s[i]
          BY <2>7, <4>1
        <5>2. k[i] = h[i] /\ k[i - 1] = <<>>
          BY <1>3, <4>1
        <5>3. <<>> \o s[i] = s[i]
          BY <1>3
        <5> QED
          BY <5>1, <5>2, <5>3
      <4>2. CASE i # 1
        <5>1. i - 1 \in 1..Len(s)
          BY <1>3, <4>2
        <5>2. k[i] = h[i] /\ k[i - 1] = h[i - 1]
          BY <1>3, <5>1
        <5>3. h[i] = h[i - 1] \o s[i]
          BY <2>7, <4>2
        <5> QED
          BY <5>2, <5>3
      <4> QED
        BY <4>1, <4>2
    <3>2. k[i - 1] \in Seq(S) /\ s[i] \in Seq(S)
      BY <1>1, <1>3, <2>9
    <3>3. M.next[<<k[i - 1], s[i]>>] = k[i - 1] \o s[i]
      BY <1>1, <3>2, Zenon
    <3> QED
      BY <3>1, <3>3, Zenon
  <2> HIDE DEF k
  <2>10. k[Len(s)] = End(M, <<>>, s)
    BY <1>1, <1>2, <2>8, <2>9, EndOfRecursion
  <2> QED
    BY <2>2, <2>8, <2>10 DEF M
<1> QED
  BY <1>4, <1>5

LEMMA FlattenFacts ==
  ASSUME NEW S
  PROVE  /\ FlattenSeq(<<>>) = <<>>
         /\ \A s \in Seq(Seq(S)) : FlattenSeq(s) \in Seq(S)
         /\ \A s \in Seq(Seq(S)), x \in Seq(S) :
              FlattenSeq(Append(s, x)) = FlattenSeq(s) \o x
         /\ \A x \in Seq(S) : FlattenSeq(<<x>>) = x
<1> DEFINE M == Joining(S)
<1>1. /\ IsAutomaton(M) /\ M.states = Seq(S) /\ M.chars = Seq(S)
      /\ \A r \in Seq(S), x \in Seq(S) : M.next[<<r, x>>] = r \o x
  BY JoiningIsAutomaton
<1>2. \A s \in Seq(Seq(S)) : FlattenSeq(s) = End(M, <<>>, s)
  BY FlattenIsEnd
<1> HIDE DEF M
<1>3. <<>> \in M.states
  BY <1>1
<1>4. FlattenSeq(<<>>) = <<>>
  BY DEF FlattenSeq
<1>5. ASSUME NEW s \in Seq(Seq(S))
      PROVE  FlattenSeq(s) \in Seq(S)
  <2>1. End(M, <<>>, s) \in M.states
    BY <1>1, <1>3, EndType
  <2> QED
    BY <1>1, <1>2, <2>1, Zenon
<1>6. ASSUME NEW s \in Seq(Seq(S)), NEW x \in Seq(S)
      PROVE  FlattenSeq(Append(s, x)) = FlattenSeq(s) \o x
  <2>1. Append(s, x) \in Seq(Seq(S))
    OBVIOUS
  <2>2. End(M, <<>>, Append(s, x)) = M.next[<<End(M, <<>>, s), x>>]
    <3>1. s \in Seq(M.chars) /\ x \in M.chars
      BY <1>1, Zenon
    <3>2. IsAutomaton(M) /\ <<>> \in M.states
      BY <1>1, <1>3
    <3> QED
      BY <3>1, <3>2, EndAppend
  <2>3. FlattenSeq(s) \in Seq(S) /\ End(M, <<>>, s) = FlattenSeq(s)
    BY <1>2, <1>5, Zenon
  <2>4. M.next[<<FlattenSeq(s), x>>] = FlattenSeq(s) \o x
    BY <1>1, <2>3, Zenon
  <2> QED
    BY <1>2, <2>1, <2>2, <2>3, <2>4, Zenon
<1>7. ASSUME NEW x \in Seq(S)
      PROVE  FlattenSeq(<<x>>) = x
  <2>1. <<>> \in Seq(Seq(S)) /\ <<x>> = Append(<<>>, x) /\ <<>> \o x = x
    OBVIOUS
  <2> QED
    BY <1>4, <1>6, <2>1
<1> QED
  BY <1>4, <1>5, <1>6, <1>7

LEMMA FlattenConcat ==
  ASSUME NEW S, NEW s \in Seq(Seq(S)), NEW t \in Seq(Seq(S))
  PROVE  FlattenSeq(s \o t) = FlattenSeq(s) \o FlattenSeq(t)
<1> DEFINE A == {u \in Seq(Seq(S)) :
                   FlattenSeq(s \o u) = FlattenSeq(s) \o FlattenSeq(u)}
<1>1. <<>> \in A
  <2>1. s \o <<>> = s /\ <<>> \in Seq(Seq(S))
    OBVIOUS
  <2>2. FlattenSeq(s) \o <<>> = FlattenSeq(s)
    BY FlattenFacts
  <2> QED
    BY <2>1, <2>2, FlattenFacts
<1>2. ASSUME NEW u \in Seq(Seq(S)), NEW x \in Seq(S), u \in A
      PROVE  Append(u, x) \in A
  <2>1. /\ s \o u \in Seq(Seq(S)) /\ Append(u, x) \in Seq(Seq(S))
        /\ s \o Append(u, x) = Append(s \o u, x)
    OBVIOUS
  <2>2. /\ FlattenSeq(s) \in Seq(S) /\ FlattenSeq(u) \in Seq(S)
        /\ FlattenSeq(Append(s \o u, x)) = FlattenSeq(s \o u) \o x
        /\ FlattenSeq(Append(u, x)) = FlattenSeq(u) \o x
    BY <2>1, FlattenFacts
  <2>3. FlattenSeq(s \o u) = FlattenSeq(s) \o FlattenSeq(u)
    BY <1>2
  <2>4. \A a, b, c \in Seq(S) : (a \o b) \o c = a \o (b \o c)
    OBVIOUS
  <2>5. FlattenSeq(s \o Append(u, x)) = FlattenSeq(s) \o FlattenSeq(Append(u, x))
    <3>1. (FlattenSeq(s) \o FlattenSeq(u)) \o x
            = FlattenSeq(s) \o (FlattenSeq(u) \o x)
      BY <2>2, <2>4, Zenon
    <3> QED
      BY <2>1, <2>2, <2>3, <3>1, Zenon
  <2> QED
    BY <2>1, <2>5
<1>3. Seq(Seq(S)) \subseteq A
  <2> HIDE DEF A
  <2> QED
    BY <1>1, <1>2, TextInduction
<1> QED
  BY <1>3

-----------------------------------------------------------------------------
(* The tokens of a line.                                                    *)

Token == Lines \ {<<>>}

\* The last token and what is before it.
LEMMA FrontAndLast ==
  ASSUME NEW S, NEW s \in Seq(S), s # <<>>
  PROVE  /\ Front(s) \in Seq(S) /\ Last(s) \in S
         /\ s = Append(Front(s), Last(s)) /\ s = Front(s) \o <<Last(s)>>
<1>1. PICK t \in Seq(S), x \in S : s = Append(t, x)
  BY SequenceEmptyOrAppend
<1>2. Len(s) = Len(t) + 1 /\ Len(t) \in Nat /\ s[Len(s)] = x
  BY <1>1
<1>3. SubSeq(s, 1, Len(s) - 1) = t
  BY <1>1, <1>2
<1>4. Front(s) = t /\ Last(s) = x
  BY <1>2, <1>3 DEF Front, Last
<1>5. Append(t, x) = t \o <<x>>
  OBVIOUS
<1> QED
  BY <1>1, <1>4, <1>5

LEMMA FrontOfAppend ==
  ASSUME NEW S, NEW t \in Seq(S), NEW x \in S
  PROVE  Front(Append(t, x)) = t /\ Last(Append(t, x)) = x
<1> DEFINE s == Append(t, x)
<1>1. Len(s) = Len(t) + 1 /\ Len(t) \in Nat /\ s[Len(s)] = x
  OBVIOUS
<1>2. SubSeq(s, 1, Len(s) - 1) = t
  BY <1>1
<1> QED
  BY <1>1, <1>2 DEF Front, Last

LEMMA TokenFacts ==
  /\ <<>> \in Seq(Token)
  /\ \A a \in Seq(Token) : a \o <<>> = a /\ <<>> \o a = a
  /\ \A a, b \in Seq(Token) : a \o b \in Seq(Token)
  /\ \A a \in Seq(Token), x \in Token :
       /\ Append(a, x) \in Seq(Token) /\ Append(a, x) # <<>>
       /\ Append(a, x) = a \o <<x>> /\ <<x>> \in Seq(Token)
       /\ Front(Append(a, x)) = a /\ Last(Append(a, x)) = x
  /\ \A a, b \in Seq(Token), x \in Token :
       Append(a \o b, x) = a \o Append(b, x)
<1>1. \A a \in Seq(Token), x \in Token :
        Front(Append(a, x)) = a /\ Last(Append(a, x)) = x
  BY FrontOfAppend
<1>2. /\ <<>> \in Seq(Token)
      /\ \A a \in Seq(Token) : a \o <<>> = a /\ <<>> \o a = a
      /\ \A a, b \in Seq(Token) : a \o b \in Seq(Token)
      /\ \A a \in Seq(Token), x \in Token :
           /\ Append(a, x) \in Seq(Token) /\ Append(a, x) # <<>>
           /\ Append(a, x) = a \o <<x>> /\ <<x>> \in Seq(Token)
      /\ \A a, b \in Seq(Token), x \in Token :
           Append(a \o b, x) = a \o Append(b, x)
  BY SequenceFacts
<1> QED
  BY <1>1, <1>2, Zenon

Cutting ==
  [states |-> Seq(Token), chars |-> Chars,
   next |-> [p \in Seq(Token) \X Chars |-> Cut(p[1], p[2])]]

LEMMA CutFacts ==
  ASSUME NEW t \in Seq(Token), NEW x \in Chars
  PROVE  /\ Cut(t, x) \in Seq(Token)
         /\ t # <<>> /\ Last(Last(t)) # Space =>
              Cut(t, x) = Append(Front(t), Append(Last(t), x))
         /\ t = <<>> \/ Last(Last(t)) = Space =>
              Cut(t, x) = Append(t, <<x>>)
<1>1. <<x>> \in Token /\ \A l \in Token : Append(l, x) \in Token
  BY DEF Token, Lines
<1>2. CASE t # <<>> /\ Last(Last(t)) # Space
  <2>1. Cut(t, x) = Append(Front(t), Append(Last(t), x))
    BY <1>2, Zenon DEF Cut
  <2>2. Front(t) \in Seq(Token) /\ Last(t) \in Token
    BY <1>2, FrontAndLast, Zenon
  <2>3. Append(Last(t), x) \in Token
    BY <1>1, <2>2, Zenon
  <2>4. Append(Front(t), Append(Last(t), x)) \in Seq(Token)
    BY <2>2, <2>3
  <2> QED
    BY <1>2, <2>1, <2>4, Zenon
<1>3. CASE ~(t # <<>> /\ Last(Last(t)) # Space)
  <2>1. Cut(t, x) = Append(t, <<x>>)
    BY <1>3, Zenon DEF Cut
  <2>2. Append(t, <<x>>) \in Seq(Token)
    BY <1>1
  <2> QED
    BY <1>3, <2>1, <2>2, Zenon
<1> QED
  BY <1>2, <1>3

LEMMA CuttingIsAutomaton ==
  /\ IsAutomaton(Cutting)
  /\ Cutting.states = Seq(Token) /\ Cutting.chars = Chars
  /\ \A t \in Seq(Token), x \in Chars : Cutting.next[<<t, x>>] = Cut(t, x)
<1>1. \A t \in Seq(Token), x \in Chars : Cut(t, x) \in Seq(Token)
  BY CutFacts
<1> QED
  BY <1>1 DEF IsAutomaton, Cutting

LEMMA TokensIsEnd ==
  ASSUME NEW l \in Lines
  PROVE  Tokens(l) = End(Cutting, <<>>, l)
<1> DEFINE P(f) == f = [i \in 0..Len(l) |->
                          IF i = 0 THEN <<>> ELSE Cut(f[i - 1], l[i])]
           h == CHOOSE f : P(f)
           M == Cutting
<1>1. Tokens(l) = h[Len(l)]
  BY DEF Tokens
<1>2. /\ IsAutomaton(M) /\ M.states = Seq(Token) /\ M.chars = Chars
      /\ \A t \in Seq(Token), x \in Chars : M.next[<<t, x>>] = Cut(t, x)
  BY CuttingIsAutomaton
<1> HIDE DEF M
<1>3. <<>> \in M.states /\ l \in Seq(M.chars)
  BY <1>2 DEF Lines
<1>4. Len(l) \in Nat /\ \A i \in 1..Len(l) : l[i] \in Chars
  BY DEF Lines
<1>5. PICK g : IsTrace(M, <<>>, l, g)
  BY <1>2, <1>3, TraceExists
<1>6. g \in [0..Len(l) -> Seq(Token)] /\ g[0] = <<>>
      /\ \A i \in 1..Len(l) : g[i] = M.next[<<g[i - 1], l[i]>>]
  BY <1>2, <1>5 DEF IsTrace
<1>7. ASSUME NEW i \in 1..Len(l)
      PROVE  g[i] = Cut(g[i - 1], l[i])
  <2>0. i - 1 \in 0..Len(l)
    BY <1>4
  <2>1. g[i - 1] \in Seq(Token) /\ l[i] \in Chars
    BY <1>4, <1>6, <2>0, Zenon
  <2>2. M.next[<<g[i - 1], l[i]>>] = Cut(g[i - 1], l[i])
    BY <1>2, <2>1, Zenon
  <2> QED
    BY <1>6, <2>2, Zenon
<1>8. P(g)
  <2>1. ASSUME NEW i \in 0..Len(l)
        PROVE  g[i] = IF i = 0 THEN <<>> ELSE Cut(g[i - 1], l[i])
    <3>1. CASE i = 0
      BY <1>6, <3>1
    <3>2. CASE i # 0
      <4>1. i \in 1..Len(l)
        BY <1>4, <3>2
      <4> QED
        BY <1>7, <3>2, <4>1, Zenon
    <3> QED
      BY <3>1, <3>2
  <2> QED
    BY <1>6, <2>1
<1>9. P(h)
  <2> HIDE DEF P
  <2> QED
    BY <1>8
<1> HIDE DEF h
<1>10. h[0] = <<>>
  BY <1>4, <1>9
<1>11. ASSUME NEW i \in 1..Len(l), h[i - 1] \in M.states
       PROVE  h[i] = M.next[<<h[i - 1], l[i]>>]
  <2>1. i \in 0..Len(l) /\ i # 0
    BY <1>4
  <2>2. h[i] = Cut(h[i - 1], l[i])
    BY <1>9, <2>1, Zenon
  <2>3. h[i - 1] \in Seq(Token) /\ l[i] \in Chars
    BY <1>2, <1>4, <1>11
  <2>4. M.next[<<h[i - 1], l[i]>>] = Cut(h[i - 1], l[i])
    BY <1>2, <2>3, Zenon
  <2> QED
    BY <2>2, <2>4, Zenon
<1>12. h[Len(l)] = End(M, <<>>, l)
  BY <1>2, <1>3, <1>10, <1>11, EndOfRecursion
<1> QED
  BY <1>1, <1>12 DEF M

LEMMA TokensFacts ==
  /\ Tokens(<<>>) = <<>>
  /\ \A l \in Lines : Tokens(l) \in Seq(Token)
  /\ \A l \in Lines, x \in Chars : Tokens(Append(l, x)) = Cut(Tokens(l), x)
<1>1. /\ IsAutomaton(Cutting) /\ Cutting.states = Seq(Token)
      /\ Cutting.chars = Chars
      /\ \A t \in Seq(Token), x \in Chars : Cutting.next[<<t, x>>] = Cut(t, x)
  BY CuttingIsAutomaton
<1>2. /\ <<>> \in Cutting.states /\ <<>> \in Lines
      /\ \A l \in Lines : l \in Seq(Cutting.chars)
  BY <1>1 DEF Lines
<1>3. Tokens(<<>>) = <<>>
  BY <1>1, <1>2, TokensIsEnd, EndEmpty
<1>4. ASSUME NEW l \in Lines
      PROVE  Tokens(l) \in Seq(Token)
  <2>1. End(Cutting, <<>>, l) \in Cutting.states
    BY <1>1, <1>2, EndType
  <2> QED
    BY <1>1, <2>1, TokensIsEnd, Zenon
<1>5. ASSUME NEW l \in Lines, NEW x \in Chars
      PROVE  Tokens(Append(l, x)) = Cut(Tokens(l), x)
  <2>1. Append(l, x) \in Lines /\ l \in Seq(Cutting.chars) /\ x \in Cutting.chars
    BY <1>1, <1>2 DEF Lines
  <2>2. End(Cutting, <<>>, Append(l, x)) = Cutting.next[<<End(Cutting, <<>>, l), x>>]
    <3>1. IsAutomaton(Cutting) /\ <<>> \in Cutting.states
      BY <1>1, <1>2
    <3> QED
      BY <2>1, <3>1, EndAppend
  <2>3. Tokens(Append(l, x)) = Cutting.next[<<Tokens(l), x>>]
    BY <2>1, <2>2, TokensIsEnd
  <2>4. Cutting.next[<<Tokens(l), x>>] = Cut(Tokens(l), x)
    BY <1>1, <1>4, Zenon
  <2> QED
    BY <2>3, <2>4, Zenon
<1> QED
  BY <1>3, <1>4, <1>5

\* After a space the tokens of what follows are cut by themselves.
LEMMA TokensAfterSpace ==
  ASSUME NEW a \in Lines, NEW b \in Lines
  PROVE  Tokens(Append(a, Space) \o b)
           = Tokens(Append(a, Space)) \o Tokens(b)
<1> DEFINE as == Append(a, Space)
           T == Tokens(as)
           A == {u \in Lines : Tokens(as \o u) = T \o Tokens(u)}
<1>1. Space \in Chars /\ as \in Lines
  BY CharacterFacts DEF Lines
<1>2. T \in Seq(Token) /\ T # <<>> /\ Last(Last(T)) = Space
  <2>1. Tokens(a) \in Seq(Token) /\ T = Cut(Tokens(a), Space)
    BY <1>1, TokensFacts
  <2>2. CASE Tokens(a) # <<>> /\ Last(Last(Tokens(a))) # Space
    <3> DEFINE F == Front(Tokens(a))
               L == Last(Tokens(a))
    <3>1. F \in Seq(Token) /\ L \in Token
      BY <2>1, <2>2, FrontAndLast
    <3>2. T = Append(F, Append(L, Space))
      BY <1>1, <2>1, <2>2, CutFacts, Zenon
    <3> HIDE DEF F, L
    <3>3. Append(L, Space) \in Token /\ Last(Append(L, Space)) = Space
      <4>1. L \in Seq(Chars)
        BY <3>1 DEF Token, Lines
      <4> QED
        BY <1>1, <4>1, FrontOfAppend DEF Token, Lines
    <3>4. Last(T) = Append(L, Space) /\ T \in Seq(Token) /\ T # <<>>
      <4>1. \A y \in Token : /\ Append(F, y) \in Seq(Token)
                             /\ Append(F, y) # <<>> /\ Last(Append(F, y)) = y
        BY <3>1, TokenFacts, Zenon
      <4> QED
        BY <3>2, <3>3, <4>1, Zenon
    <3> QED
      BY <3>3, <3>4, Zenon
  <2>3. CASE ~(Tokens(a) # <<>> /\ Last(Last(Tokens(a))) # Space)
    <3>1. T = Append(Tokens(a), <<Space>>)
      BY <1>1, <2>1, <2>3, CutFacts, Zenon
    <3>2. <<Space>> \in Token /\ Last(<<Space>>) = Space
      BY <1>1 DEF Token, Lines, Last
    <3>3. Last(T) = <<Space>> /\ T \in Seq(Token) /\ T # <<>>
      <4>1. \A y \in Token : /\ Append(Tokens(a), y) \in Seq(Token)
                             /\ Append(Tokens(a), y) # <<>>
                             /\ Last(Append(Tokens(a), y)) = y
        BY <2>1, TokenFacts, Zenon
      <4> QED
        BY <3>1, <3>2, <4>1, Zenon
    <3> QED
      BY <3>2, <3>3, Zenon
  <2> QED
    BY <2>2, <2>3
<1> HIDE DEF as, T
<1>3. <<>> \in A
  <2>1. as \o <<>> = as /\ T \o <<>> = T /\ <<>> \in Lines
    BY <1>1, <1>2 DEF Lines
  <2> QED
    BY <2>1, TokensFacts DEF T
<1>4. ASSUME NEW u \in Lines, NEW x \in Chars, u \in A
      PROVE  Append(u, x) \in A
  <2>0. <<x>> \in Token
    BY DEF Token, Lines
  <2> DEFINE U == Tokens(u)
  <2>1. /\ as \o u \in Lines /\ Append(u, x) \in Lines
        /\ as \o Append(u, x) = Append(as \o u, x)
    BY <1>1, LineFacts, Zenon
  <2>2. /\ U \in Seq(Token) /\ Tokens(as \o u) = T \o U
        /\ Tokens(Append(u, x)) = Cut(U, x)
        /\ Tokens(Append(as \o u, x)) = Cut(T \o U, x)
    BY <1>4, <2>1, TokensFacts
  <2> HIDE DEF U
  <2>3. T \o U \in Seq(Token) /\ T \o U # <<>>
    BY <1>2, <2>2
  <2>4. Cut(T \o U, x) = T \o Cut(U, x)
    <3>1. CASE U = <<>>
      <4>1. T \o U = T
        BY <1>2, <3>1
      <4>2. Cut(T, x) = Append(T, <<x>>) /\ Cut(U, x) = <<<<x>>>>
        <5>1. Cut(U, x) = Append(<<>>, <<x>>)
          BY <2>2, <3>1, CutFacts, Zenon
        <5>2. Append(<<>>, <<x>>) = <<<<x>>>>
          OBVIOUS
        <5> QED
          BY <1>2, <5>1, <5>2, CutFacts, Zenon
      <4>3. Append(T, <<x>>) = T \o <<<<x>>>>
        BY <1>2, <2>0, TokenFacts, Zenon
      <4> QED
        BY <4>1, <4>2, <4>3, Zenon
    <3>2. CASE U # <<>>
      <4> DEFINE F == Front(U)
                 L == Last(U)
      <4>1. F \in Seq(Token) /\ L \in Token /\ U = Append(F, L)
        BY <2>2, <3>2, FrontAndLast
      <4> HIDE DEF F, L
      <4>2. T \o U = Append(T \o F, L) /\ T \o F \in Seq(Token)
        BY <1>2, <4>1, TokenFacts, Zenon
      <4>3. Front(T \o U) = T \o F /\ Last(T \o U) = L
        <5>1. \A t \in Seq(Token) : Front(Append(t, L)) = t /\ Last(Append(t, L)) = L
          BY <4>1, TokenFacts, Zenon
        <5> QED
          BY <4>2, <5>1, Zenon
      <4>4. CASE Last(L) # Space
        <5>1. Cut(T \o U, x) = Append(T \o F, Append(L, x))
          BY <2>3, <4>3, <4>4, CutFacts, Zenon
        <5>2. Cut(U, x) = Append(F, Append(L, x))
          BY <2>2, <3>2, <4>4, CutFacts, Zenon DEF F, L
        <5>3. Append(L, x) \in Token
          BY <4>1, LineFacts DEF Token
        <5>4. \A y \in Token : Append(T \o F, y) = T \o Append(F, y)
          BY <1>2, <4>1, TokenFacts, Zenon
        <5> QED
          BY <5>1, <5>2, <5>3, <5>4, Zenon
      <4>5. CASE Last(L) = Space
        <5>1. Cut(T \o U, x) = Append(T \o U, <<x>>)
          BY <2>3, <4>3, <4>5, CutFacts, Zenon
        <5>2. Cut(U, x) = Append(U, <<x>>)
          BY <2>2, <4>5, CutFacts, Zenon DEF L
        <5>3. <<x>> \in Token
          BY DEF Token, Lines
        <5>4. Append(T \o U, <<x>>) = T \o Append(U, <<x>>)
          BY <1>2, <2>2, <5>3, TokenFacts, Zenon
        <5> QED
          BY <5>1, <5>2, <5>4, Zenon
      <4> QED
        BY <4>4, <4>5
    <3> QED
      BY <3>1, <3>2
  <2>5. Tokens(as \o Append(u, x)) = T \o Tokens(Append(u, x))
    BY <2>1, <2>2, <2>4, Zenon
  <2> QED
    BY <2>1, <2>5
<1>5. Lines \subseteq A
  <2> HIDE DEF A
  <2> QED
    BY <1>3, <1>4, TextInduction DEF Lines
<1> QED
  BY <1>5 DEF as, T

-----------------------------------------------------------------------------
(* Where a marker is in a text.                                             *)

Occurs(v, m, i) ==
  /\ i \in 1..Len(v) /\ i + Len(m) - 1 <= Len(v)
  /\ \A j \in 1..Len(m) : v[i + j - 1] = m[j]

LEMMA PrefixOccurs ==
  ASSUME NEW v \in Lines, NEW m \in Lines, NEW i \in 1..Len(v)
  PROVE  IsPrefix(m, SubSeq(v, i, Len(v))) <=> Occurs(v, m, i)
<1> DEFINE w == SubSeq(v, i, Len(v))
<1>1. Len(v) \in Nat /\ Len(m) \in Nat /\ i \in Nat
  BY DEF Lines
<1>2. /\ w \in Seq(Chars) /\ Len(w) = Len(v) - i + 1
      /\ \A j \in 1..Len(w) : w[j] = v[i + j - 1]
  BY <1>1 DEF Lines
<1> HIDE DEF w
<1>3. SubSeq(m, 1, Len(m)) = m
  BY DEF Lines
<1>4. CASE Len(m) <= Len(w)
  <2> DEFINE x == SubSeq(w, 1, Len(m))
  <2>1. /\ x \in Seq(Chars) /\ Len(x) = Len(m)
        /\ \A j \in 1..Len(m) : x[j] = w[j]
    BY <1>1, <1>2, <1>4
  <2> HIDE DEF x
  <2>2. m = x <=> \A j \in 1..Len(m) : m[j] = x[j]
    BY <2>1 DEF Lines
  <2>3. IsPrefix(m, w) <=> m = x
    BY <1>3, <1>4 DEF IsPrefix, x
  <2>4. \A j \in 1..Len(m) : x[j] = v[i + j - 1]
    BY <1>1, <1>2, <1>4, <2>1
  <2>5. i + Len(m) - 1 <= Len(v)
    BY <1>1, <1>2, <1>4
  <2>6. (\A j \in 1..Len(m) : m[j] = x[j]) <=> Occurs(v, m, i)
    BY <2>4, <2>5 DEF Occurs
  <2> QED
    BY <2>2, <2>3, <2>6 DEF w
<1>5. CASE ~(Len(m) <= Len(w))
  <2>1. ~(i + Len(m) - 1 <= Len(v))
    BY <1>1, <1>2, <1>5
  <2> QED
    BY <1>5, <2>1 DEF IsPrefix, Occurs, w
<1> QED
  BY <1>4, <1>5

LEMMA IndexOfFacts ==
  ASSUME NEW v \in Lines, NEW m \in Lines
  PROVE  /\ IndexOf(v, m) \in 0..Len(v)
         /\ IndexOf(v, m) = 0 <=> \A i : ~Occurs(v, m, i)
         /\ IndexOf(v, m) # 0 => Occurs(v, m, IndexOf(v, m))
         /\ \A i : Occurs(v, m, i) => IndexOf(v, m) # 0 /\ IndexOf(v, m) <= i
<1> DEFINE at == {i \in 1..Len(v) : IsPrefix(m, SubSeq(v, i, Len(v)))}
           least == CHOOSE i \in at : \A j \in at : i <= j
<1>1. IndexOf(v, m) = IF at = {} THEN 0 ELSE least
  BY DEF IndexOf
<1>2. Len(v) \in Nat
  BY DEF Lines
<1>3. \A i : i \in at <=> Occurs(v, m, i)
  BY PrefixOccurs DEF Occurs
<1>4. at \subseteq 1..Len(v)
  OBVIOUS
<1>5. at # {} => least \in at /\ \A j \in at : least <= j
  <2> SUFFICES ASSUME at # {} PROVE least \in at /\ \A j \in at : least <= j
    OBVIOUS
  <2>1. at \subseteq Nat
    BY <1>2
  <2> HIDE DEF at
  <2>2. \E i \in at : \A j \in at : i <= j
    BY <2>1, LeastNumber
  <2> QED
    BY <2>2
<1> HIDE DEF at, least
<1>6. CASE at = {}
  BY <1>1, <1>2, <1>3, <1>6
<1>7. CASE at # {}
  <2>1. IndexOf(v, m) = least
    BY <1>1, <1>7
  <2>2. least \in 1..Len(v)
    BY <1>4, <1>5, <1>7
  <2>3. least # 0 /\ least \in 0..Len(v)
    BY <1>2, <2>2
  <2> QED
    BY <1>2, <1>3, <1>5, <1>7, <2>1, <2>2, <2>3
<1> QED
  BY <1>6, <1>7

\* A list of markers as the commands have it: each is a text without spaces,
\* and none begins another one.
MarkerList(ms) ==
  /\ ms \in Seq(Seq(Safe) \ {<<>>})
  /\ \A a, b \in DOMAIN ms : a # b => ~IsPrefix(ms[a], ms[b])

LEMMA MarkerFacts ==
  ASSUME NEW ms, MarkerList(ms), NEW k \in DOMAIN ms
  PROVE  /\ ms[k] \in Seq(Safe) /\ ms[k] \in Lines /\ ms[k] # <<>>
         /\ Len(ms[k]) \in Nat /\ Len(ms[k]) >= 1
         /\ \A j \in 1..Len(ms[k]) : ms[k][j] \in Safe
<1>1. ms[k] \in Seq(Safe) /\ ms[k] # <<>>
  BY DEF MarkerList
<1>2. Safe \subseteq Chars
  BY CharacterFacts
<1> QED
  BY <1>1, <1>2 DEF Lines

LEMMA UnmarkedMeans ==
  ASSUME NEW ms, MarkerList(ms), NEW v \in Lines
  PROVE  Unmarked(v, ms) <=> \A k \in DOMAIN ms : \A i : ~Occurs(v, ms[k], i)
  BY MarkerFacts, IndexOfFacts DEF Unmarked

\* A part of an unmarked text is unmarked.
LEMMA UnmarkedParts ==
  ASSUME NEW ms, MarkerList(ms), NEW u \in Lines, NEW w \in Lines,
         Unmarked(u \o w, ms)
  PROVE  Unmarked(u, ms) /\ Unmarked(w, ms)
<1> DEFINE v == u \o w
<1>1. /\ v \in Lines /\ Len(v) = Len(u) + Len(w)
      /\ Len(u) \in Nat /\ Len(w) \in Nat
      /\ \A i \in 1..Len(u) : v[i] = u[i]
      /\ \A i \in 1..Len(w) : v[Len(u) + i] = w[i]
  <2>1. /\ v \in Lines /\ Len(v) = Len(u) + Len(w)
        /\ Len(u) \in Nat /\ Len(w) \in Nat
        /\ \A i \in 1..Len(u) + Len(w) :
             v[i] = IF i <= Len(u) THEN u[i] ELSE w[i - Len(u)]
    BY DEF Lines
  <2> HIDE DEF v
  <2> QED
    BY <2>1
<1>2. \A k \in DOMAIN ms : \A i : ~Occurs(v, ms[k], i)
  BY <1>1, UnmarkedMeans
<1> HIDE DEF v
<1>3. ASSUME NEW k \in DOMAIN ms, NEW i, Occurs(u, ms[k], i)
      PROVE  FALSE
  <2> DEFINE m == ms[k]
  <2>1. Len(m) \in Nat /\ i \in 1..Len(u) /\ i + Len(m) - 1 <= Len(u)
    BY <1>3, MarkerFacts DEF Occurs
  <2>2. ASSUME NEW j \in 1..Len(m)
        PROVE  v[i + j - 1] = m[j]
    <3>1. i + j - 1 \in 1..Len(u)
      BY <1>1, <2>1
    <3> QED
      BY <1>1, <1>3, <3>1 DEF Occurs
  <2>3. Occurs(v, m, i)
    BY <1>1, <2>1, <2>2 DEF Occurs
  <2> QED
    BY <1>2, <2>3
<1>4. ASSUME NEW k \in DOMAIN ms, NEW i, Occurs(w, ms[k], i)
      PROVE  FALSE
  <2> DEFINE m == ms[k]
             n == Len(u) + i
  <2>1. Len(m) \in Nat /\ i \in 1..Len(w) /\ i + Len(m) - 1 <= Len(w)
    BY <1>4, MarkerFacts DEF Occurs
  <2>2. ASSUME NEW j \in 1..Len(m)
        PROVE  v[n + j - 1] = m[j]
    <3>1. i + j - 1 \in 1..Len(w) /\ n + j - 1 = Len(u) + (i + j - 1)
      BY <1>1, <2>1
    <3>2. w[i + j - 1] = m[j]
      BY <1>4 DEF Occurs
    <3>3. v[Len(u) + (i + j - 1)] = w[i + j - 1]
      BY <1>1, <3>1
    <3> QED
      BY <3>1, <3>2, <3>3
  <2>3. n \in 1..Len(v) /\ n + Len(m) - 1 <= Len(v)
    BY <1>1, <2>1
  <2> HIDE DEF n
  <2>4. Occurs(v, m, n)
    BY <2>2, <2>3 DEF Occurs
  <2> QED
    BY <1>2, <2>4
<1> QED
  BY <1>3, <1>4, UnmarkedMeans

\* No marker comes about when a space is put after a text.
LEMMA UnmarkedBeforeSpace ==
  ASSUME NEW ms, MarkerList(ms), NEW u \in Lines, Unmarked(u, ms)
  PROVE  Unmarked(Append(u, Space), ms)
<1> DEFINE v == Append(u, Space)
<1>1. /\ v \in Lines /\ Len(v) = Len(u) + 1 /\ Len(u) \in Nat
      /\ v[Len(u) + 1] = Space /\ \A i \in 1..Len(u) : v[i] = u[i]
  BY CharacterFacts DEF Lines
<1> HIDE DEF v
<1>2. ASSUME NEW k \in DOMAIN ms, NEW i, Occurs(v, ms[k], i)
      PROVE  FALSE
  <2> DEFINE m == ms[k]
  <2>1. /\ Len(m) \in Nat /\ Len(m) >= 1 /\ i \in 1..Len(v)
        /\ i + Len(m) - 1 <= Len(v) /\ \A j \in 1..Len(m) : m[j] \in Safe
    BY <1>2, MarkerFacts DEF Occurs
  <2>2. \A j \in 1..Len(m) : v[i + j - 1] = m[j]
    BY <1>2 DEF Occurs
  <2> HIDE DEF m
  <2>3. CASE i + Len(m) - 1 = Len(v)
    <3>1. Len(m) \in 1..Len(m) /\ i + Len(m) - 1 = Len(u) + 1
      BY <1>1, <2>1, <2>3
    <3>2. m[Len(m)] = Space
      BY <1>1, <2>2, <3>1
    <3> QED
      BY <2>1, <3>1, <3>2, CharacterFacts
  <2>4. CASE i + Len(m) - 1 # Len(v)
    <3>1. i \in 1..Len(u) /\ i + Len(m) - 1 <= Len(u)
      BY <1>1, <2>1, <2>4
    <3>2. ASSUME NEW j \in 1..Len(m)
          PROVE  u[i + j - 1] = m[j]
      <4>1. i + j - 1 \in 1..Len(u)
        BY <1>1, <2>1, <3>1
      <4> QED
        BY <1>1, <2>2, <4>1
    <3>3. Occurs(u, m, i)
      BY <3>1, <3>2 DEF Occurs
    <3> QED
      BY <3>3, UnmarkedMeans DEF m
  <2> QED
    BY <2>3, <2>4
<1> QED
  BY <1>1, <1>2, UnmarkedMeans DEF v

LEMMA SpaceIsUnmarked ==
  ASSUME NEW ms, MarkerList(ms)
  PROVE  Unmarked(<<Space>>, ms)
<1>1. <<>> \in Lines /\ <<Space>> = Append(<<>>, Space) /\ Len(<<>>) = 0
  BY DEF Lines
<1>2. Unmarked(<<>>, ms)
  <2>1. \A m, i : ~Occurs(<<>>, m, i)
    BY <1>1 DEF Occurs
  <2> QED
    BY <1>1, <2>1, UnmarkedMeans
<1> QED
  BY <1>1, <1>2, UnmarkedBeforeSpace

LEMMA WordIsUnmarked ==
  ASSUME NEW ms, MarkerList(ms), \A k \in DOMAIN ms : ms[k] # Word
  PROVE  Unmarked(Word, ms)
<1>1. Word \in Lines /\ Len(Word) = 1 /\ Word[1] = "w"
  BY CharacterFacts DEF Word, Lines
<1>2. ASSUME NEW k \in DOMAIN ms, NEW i, Occurs(Word, ms[k], i)
      PROVE  FALSE
  <2> DEFINE m == ms[k]
  <2>1. m \in Seq(Safe) /\ Len(m) \in Nat /\ Len(m) >= 1 /\ m # Word
    BY MarkerFacts
  <2>2. /\ i = 1 /\ 1 + Len(m) - 1 <= 1
        /\ \A j \in 1..Len(m) : Word[i + j - 1] = m[j]
    BY <1>1, <1>2 DEF Occurs
  <2> HIDE DEF m
  <2>3. Len(m) = 1
    <3>1. Len(m) \in Nat /\ Len(m) >= 1 /\ 1 + Len(m) - 1 <= 1
      BY <2>1, <2>2, Zenon
    <3> QED
      BY <3>1
  <2>4. m[1] = "w"
    BY <1>1, <2>2, <2>3
  <2>5. m = <<"w">>
    BY <2>1, <2>3, <2>4
  <2> QED
    BY <2>1, <2>5 DEF Word, m
<1> QED
  BY <1>1, <1>2, UnmarkedMeans

-----------------------------------------------------------------------------
(* The parts of a token.                                                    *)

TextPart(v) == [kind |-> "text", value |-> v]
FieldPart(m) == [kind |-> "field", value |-> m]
PartsOf(ms) == {TextPart(v) : v \in Lines} \cup {FieldPart(ms[k]) : k \in DOMAIN ms}

SplitStates(ms) == [rest : Lines, parts : Seq(PartsOf(ms))]
Splitting(ms) ==
  [states |-> SplitStates(ms), chars |-> Chars,
   next |-> [p \in SplitStates(ms) \X Chars |-> SplitStep(p[1], ms)]]

\* The marker that the loop takes.
LEMMA EarliestFacts ==
  ASSUME NEW ms, MarkerList(ms), NEW v \in Lines, ~Unmarked(v, ms)
  PROVE  /\ Earliest(v, ms) \in DOMAIN ms
         /\ IndexOf(v, ms[Earliest(v, ms)]) \in 1..Len(v)
         /\ \A k \in DOMAIN ms :
              IndexOf(v, ms[k]) = 0
                \/ IndexOf(v, ms[Earliest(v, ms)]) <= IndexOf(v, ms[k])
<1> DEFINE at == [k \in DOMAIN ms |-> IndexOf(v, ms[k])]
           found == {k \in DOMAIN ms : IndexOf(v, ms[k]) > 0}
           places == {at[k] : k \in found}
           best(e) == \A k \in found : at[e] < at[k] \/ (at[e] = at[k] /\ e <= k)
<1>1. Len(v) \in Nat /\ \A k \in DOMAIN ms : k \in Nat
  BY DEF Lines, MarkerList
<1>2. \A k \in DOMAIN ms : at[k] = IndexOf(v, ms[k]) /\ at[k] \in 0..Len(v)
  BY MarkerFacts, IndexOfFacts
<1>3. found # {}
  <2>1. PICK k \in DOMAIN ms : IndexOf(v, ms[k]) # 0
    BY DEF Unmarked
  <2>2. IndexOf(v, ms[k]) \in 0..Len(v)
    BY <1>2
  <2>3. IndexOf(v, ms[k]) > 0
    BY <1>1, <2>1, <2>2
  <2> QED
    BY <2>3
<1>4. \E e \in found : best(e)
  <2>1. places \subseteq Nat /\ places # {}
    BY <1>1, <1>2, <1>3
  <2> HIDE DEF places
  <2>2. PICK n \in places : \A m \in places : n <= m
    BY <2>1, LeastNumber
  <2> DEFINE first == {k \in found : at[k] = n}
  <2>3. first \subseteq Nat /\ first # {}
    BY <1>1, <2>2 DEF places
  <2>4. PICK e \in first : \A k \in first : e <= k
    <3> HIDE DEF first
    <3> QED
      BY <2>3, LeastNumber
  <2>5. ASSUME NEW k \in found
        PROVE  at[e] < at[k] \/ (at[e] = at[k] /\ e <= k)
    <3>1. at[e] = n /\ n <= at[k] /\ n \in Nat /\ at[k] \in Nat
      BY <1>1, <1>2, <2>1, <2>2, <2>4 DEF places
    <3>2. at[k] = n => e <= k
      BY <2>4
    <3> QED
      BY <3>1, <3>2
  <2> QED
    BY <2>4, <2>5
<1>5. Earliest(v, ms) = CHOOSE e \in found : best(e)
  BY DEF Earliest
<1>6. Earliest(v, ms) \in found /\ best(Earliest(v, ms))
  <2> DEFINE e0 == CHOOSE e \in found : best(e)
  <2>1. e0 \in found /\ best(e0)
    <3> HIDE DEF found, best
    <3> QED
      BY <1>4
  <2> HIDE DEF found, best, e0
  <2> QED
    BY <1>5, <2>1 DEF e0
<1> DEFINE e == Earliest(v, ms)
<1>7. e \in DOMAIN ms /\ IndexOf(v, ms[e]) > 0
  BY <1>6
<1> HIDE DEF e
<1>8. ASSUME NEW k \in DOMAIN ms, IndexOf(v, ms[k]) # 0
      PROVE  IndexOf(v, ms[e]) <= IndexOf(v, ms[k])
  <2>1. k \in found
    BY <1>1, <1>2, <1>8
  <2>2. at[e] <= at[k]
    BY <1>1, <1>2, <1>6, <1>7, <2>1 DEF e
  <2> QED
    BY <1>2, <1>7, <2>2
<1>9. IndexOf(v, ms[e]) \in 1..Len(v)
  BY <1>1, <1>2, <1>7
<1> QED
  BY <1>7, <1>8, <1>9 DEF e

\* One turn of the loop.
MarkerFound(v, ms) == ms[Earliest(v, ms)]
MarkerFoundAt(v, ms) == IndexOf(v, MarkerFound(v, ms))
Before(v, ms) ==
  IF MarkerFoundAt(v, ms) > 1 THEN <<TextPart(SubSeq(v, 1, MarkerFoundAt(v, ms) - 1))>>
  ELSE <<>>
After(v, ms) == SubSeq(v, MarkerFoundAt(v, ms) + Len(MarkerFound(v, ms)), Len(v))

LEMMA SplitCases ==
  ASSUME NEW ms, NEW s
  PROVE  /\ s.rest = <<>> => SplitStep(s, ms) = s
         /\ s.rest # <<>> /\ Unmarked(s.rest, ms) =>
              SplitStep(s, ms)
                = [rest |-> <<>>, parts |-> Append(s.parts, TextPart(s.rest))]
         /\ s.rest # <<>> /\ ~Unmarked(s.rest, ms) =>
              SplitStep(s, ms)
                = [rest |-> After(s.rest, ms),
                   parts |-> s.parts \o Before(s.rest, ms)
                             \o <<FieldPart(MarkerFound(s.rest, ms))>>]
<1>1. CASE s.rest = <<>>
  BY <1>1 DEF SplitStep
<1>2. CASE s.rest # <<>> /\ Unmarked(s.rest, ms)
  BY <1>2 DEF SplitStep, TextPart
<1>3. CASE s.rest # <<>> /\ ~Unmarked(s.rest, ms)
  BY <1>3 DEF SplitStep, TextPart, FieldPart, MarkerFound, MarkerFoundAt, Before, After
<1> QED
  BY <1>1, <1>2, <1>3

LEMMA SplitStepType ==
  ASSUME NEW ms, MarkerList(ms), NEW s \in SplitStates(ms)
  PROVE  SplitStep(s, ms) \in SplitStates(ms)
<1> DEFINE v == s.rest
           m == MarkerFound(v, ms)
           at == MarkerFoundAt(v, ms)
           P == PartsOf(ms)
<1>1. v \in Lines /\ s.parts \in Seq(P)
  BY DEF SplitStates
<1>2. /\ \A r \in Lines, p \in Seq(P) : [rest |-> r, parts |-> p] \in SplitStates(ms)
      /\ \A u \in Lines : TextPart(u) \in P
      /\ \A k \in DOMAIN ms : FieldPart(ms[k]) \in P
      /\ <<>> \in Lines
  BY DEF SplitStates, PartsOf, Lines
<1>3. CASE v = <<>>
  <2>1. SplitStep(s, ms) = s
    BY <1>3, SplitCases
  <2> QED
    BY <2>1
<1>4. CASE v # <<>> /\ Unmarked(v, ms)
  <2>1. SplitStep(s, ms) = [rest |-> <<>>, parts |-> Append(s.parts, TextPart(v))]
    BY <1>4, SplitCases
  <2> HIDE DEF P
  <2>2. \A u \in Lines : Append(s.parts, TextPart(u)) \in Seq(P)
    BY <1>1, <1>2
  <2> QED
    BY <1>1, <1>2, <2>1, <2>2, Zenon
<1>5. CASE v # <<>> /\ ~Unmarked(v, ms)
  <2> DEFINE rest == After(v, ms)
             before == Before(v, ms)
  <2>1. SplitStep(s, ms) = [rest |-> rest,
                            parts |-> s.parts \o before \o <<FieldPart(m)>>]
    BY <1>5, SplitCases
  <2>2. Earliest(v, ms) \in DOMAIN ms /\ at \in 1..Len(v)
    BY <1>1, <1>5, EarliestFacts DEF MarkerFound, MarkerFoundAt
  <2>3. Len(m) \in Nat /\ Len(m) >= 1
    BY <2>2, MarkerFacts DEF MarkerFound
  <2> HIDE DEF v, m, at, P
  <2>4. rest \in Lines /\ (at > 1 => SubSeq(v, 1, at - 1) \in Lines)
    <3>1. Len(v) \in Nat /\ v \in Seq(Chars)
      BY <1>1 DEF Lines
    <3> QED
      BY <2>2, <2>3, <3>1 DEF Lines, After, at, m
  <2>5. before \in Seq(P) /\ <<FieldPart(m)>> \in Seq(P)
    <3>1. \A p \in P : <<p>> \in Seq(P)
      OBVIOUS
    <3>2. FieldPart(m) \in P
      BY <1>2, <2>2 DEF m, MarkerFound
    <3>3. CASE at > 1
      <4>1. TextPart(SubSeq(v, 1, at - 1)) \in P
        BY <1>2, <2>4, <3>3, Zenon
      <4>2. before = <<TextPart(SubSeq(v, 1, at - 1))>>
        BY <3>3 DEF Before, at
      <4> QED
        BY <3>1, <3>2, <4>1, <4>2, Zenon
    <3>4. CASE ~(at > 1)
      <4>1. before = <<>> /\ <<>> \in Seq(P)
        BY <3>4 DEF Before, at
      <4> QED
        BY <3>1, <3>2, <4>1, Zenon
    <3> QED
      BY <3>3, <3>4
  <2> HIDE DEF rest, before
  <2>6. s.parts \o before \o <<FieldPart(m)>> \in Seq(P)
    <3>1. \A a, b \in Seq(P) : a \o b \in Seq(P)
      OBVIOUS
    <3> QED
      BY <1>1, <2>5, <3>1, Zenon
  <2> QED
    BY <1>2, <2>1, <2>4, <2>6, Zenon DEF P
<1> QED
  BY <1>3, <1>4, <1>5

LEMMA SplittingIsAutomaton ==
  ASSUME NEW ms, MarkerList(ms)
  PROVE  /\ IsAutomaton(Splitting(ms))
         /\ Splitting(ms).states = SplitStates(ms) /\ Splitting(ms).chars = Chars
         /\ \A s \in SplitStates(ms), x \in Chars :
              Splitting(ms).next[<<s, x>>] = SplitStep(s, ms)
<1>1. \A s \in SplitStates(ms), x \in Chars : SplitStep(s, ms) \in SplitStates(ms)
  BY SplitStepType
<1> QED
  BY <1>1 DEF IsAutomaton, Splitting

\* The loop begins with the whole token and no parts.
SplitStart(v) == [rest |-> v, parts |-> <<>>]

LEMMA SplitIsEnd ==
  ASSUME NEW ms, MarkerList(ms), NEW v \in Lines
  PROVE  /\ SplitStart(v) \in SplitStates(ms)
         /\ splitOnMarkers(v, ms) = End(Splitting(ms), SplitStart(v), v).parts
<1> DEFINE S == SplitStart(v)
           P(f) == f = [i \in 0..Len(v) |->
                          IF i = 0 THEN S ELSE SplitStep(f[i - 1], ms)]
           h == CHOOSE f : P(f)
           M == Splitting(ms)
<1>1. splitOnMarkers(v, ms) = h[Len(v)].parts
  BY DEF splitOnMarkers, SplitStart
<1>2. /\ IsAutomaton(M) /\ M.states = SplitStates(ms) /\ M.chars = Chars
      /\ \A s \in SplitStates(ms), x \in Chars : M.next[<<s, x>>] = SplitStep(s, ms)
  BY SplittingIsAutomaton
<1>3. S \in SplitStates(ms)
  <2>1. <<>> \in Seq(PartsOf(ms))
    OBVIOUS
  <2> QED
    BY <2>1 DEF SplitStates, SplitStart
<1> HIDE DEF M, S
<1>4. S \in M.states /\ v \in Seq(M.chars)
  BY <1>2, <1>3 DEF Lines
<1>5. Len(v) \in Nat /\ \A i \in 1..Len(v) : v[i] \in Chars
  BY DEF Lines
<1>6. PICK g : IsTrace(M, S, v, g)
  BY <1>2, <1>4, TraceExists
<1>7. g \in [0..Len(v) -> SplitStates(ms)] /\ g[0] = S
      /\ \A i \in 1..Len(v) : g[i] = M.next[<<g[i - 1], v[i]>>]
  BY <1>2, <1>6 DEF IsTrace
<1>8. ASSUME NEW i \in 1..Len(v)
      PROVE  g[i] = SplitStep(g[i - 1], ms)
  <2>0. i - 1 \in 0..Len(v)
    BY <1>5
  <2>1. g[i - 1] \in SplitStates(ms) /\ v[i] \in Chars
    BY <1>5, <1>7, <2>0, Zenon
  <2>2. M.next[<<g[i - 1], v[i]>>] = SplitStep(g[i - 1], ms)
    BY <1>2, <2>1, Zenon
  <2> QED
    BY <1>7, <2>2, Zenon
<1>9. P(g)
  <2>1. ASSUME NEW i \in 0..Len(v)
        PROVE  g[i] = IF i = 0 THEN S ELSE SplitStep(g[i - 1], ms)
    <3>1. CASE i = 0
      BY <1>7, <3>1
    <3>2. CASE i # 0
      <4>1. i \in 1..Len(v)
        BY <1>5, <3>2
      <4> QED
        BY <1>8, <3>2, <4>1, Zenon
    <3> QED
      BY <3>1, <3>2
  <2> QED
    BY <1>7, <2>1
<1>10. P(h)
  <2> HIDE DEF P
  <2> QED
    BY <1>9
<1> HIDE DEF h
<1>11. h[0] = S
  BY <1>5, <1>10
<1>12. ASSUME NEW i \in 1..Len(v), h[i - 1] \in M.states
       PROVE  h[i] = M.next[<<h[i - 1], v[i]>>]
  <2>1. i \in 0..Len(v) /\ i # 0
    BY <1>5
  <2>2. h[i] = SplitStep(h[i - 1], ms)
    BY <1>10, <2>1, Zenon
  <2>3. h[i - 1] \in SplitStates(ms) /\ v[i] \in Chars
    BY <1>2, <1>5, <1>12
  <2>4. M.next[<<h[i - 1], v[i]>>] = SplitStep(h[i - 1], ms)
    BY <1>2, <2>3, Zenon
  <2> QED
    BY <2>2, <2>4, Zenon
<1>13. h[Len(v)] = End(M, S, v)
  BY <1>2, <1>4, <1>11, <1>12, EndOfRecursion
<1> QED
  BY <1>1, <1>3, <1>13 DEF M, S

LEMMA SplitType ==
  ASSUME NEW ms, MarkerList(ms), NEW v \in Lines
  PROVE  splitOnMarkers(v, ms) \in Seq(PartsOf(ms))
<1> DEFINE M == Splitting(ms)
<1>1. IsAutomaton(M) /\ M.states = SplitStates(ms) /\ M.chars = Chars
  BY SplittingIsAutomaton
<1>2. /\ SplitStart(v) \in SplitStates(ms)
      /\ splitOnMarkers(v, ms) = End(M, SplitStart(v), v).parts
  BY SplitIsEnd
<1> HIDE DEF M
<1>3. SplitStart(v) \in M.states /\ v \in Seq(M.chars)
  BY <1>1, <1>2 DEF Lines
<1>4. End(M, SplitStart(v), v) \in SplitStates(ms)
  BY <1>1, <1>3, EndType
<1> QED
  BY <1>2, <1>4 DEF SplitStates

\* Two things in a row.
LEMMA PairOf ==
  ASSUME NEW a, NEW b
  PROVE  Append(<<a>>, b) = <<a, b>>
<1> DEFINE S == {a, b}
           p == Append(<<a>>, b)
           q == <<a, b>>
<1>1. a \in S /\ b \in S
  OBVIOUS
<1> HIDE DEF S
<1>2. p \in Seq(S) /\ Len(p) = 2 /\ p[1] = a /\ p[2] = b
  BY <1>1
<1>3. q \in Seq(S) /\ Len(q) = 2 /\ q[1] = a /\ q[2] = b
  BY <1>1
<1> HIDE DEF p, q
<1>4. p = q
  BY <1>2, <1>3
<1> QED
  BY <1>4 DEF p, q

\* The first of a sequence, and the rest.
LEMMA HeadFirst ==
  ASSUME NEW S, NEW s \in Seq(S), s # <<>>
  PROVE  \E x \in S, w \in Seq(S) : s = <<x>> \o w /\ Len(w) = Len(s) - 1
<1> DEFINE w == Tail(s)
<1>1. Len(s) \in Nat /\ Len(s) >= 1 /\ s[1] \in S
  OBVIOUS
<1>2. w \in Seq(S) /\ Len(w) = Len(s) - 1 /\ \A i \in 1..Len(w) : w[i] = s[i + 1]
  BY <1>1
<1> HIDE DEF w
<1>3. /\ <<s[1]>> \o w \in Seq(S) /\ Len(<<s[1]>> \o w) = Len(s)
      /\ \A i \in 1..Len(s) : (<<s[1]>> \o w)[i] = IF i = 1 THEN s[1] ELSE w[i - 1]
  BY <1>1, <1>2
<1>4. \A i \in 1..Len(s) : (<<s[1]>> \o w)[i] = s[i]
  BY <1>1, <1>2, <1>3
<1>5. s = <<s[1]>> \o w
  <2> DEFINE t == <<s[1]>> \o w
  <2>1. t \in Seq(S) /\ Len(s) = Len(t) /\ \A i \in 1..Len(s) : s[i] = t[i]
    BY <1>3, <1>4
  <2> HIDE DEF t
  <2>2. s = t
    BY <2>1, SeqEqual
  <2> QED
    BY <2>2 DEF t
<1> QED
  BY <1>1, <1>2, <1>5

\* The loop has ended when nothing is left.
LEMMA SplitStays ==
  ASSUME NEW ms, MarkerList(ms), NEW s \in SplitStates(ms), s.rest = <<>>
  PROVE  \A l \in Lines : End(Splitting(ms), s, l) = s
<1> DEFINE M == Splitting(ms)
           A == {l \in Lines : End(M, s, l) = s}
<1>1. /\ IsAutomaton(M) /\ M.states = SplitStates(ms) /\ M.chars = Chars
      /\ \A x \in Chars : M.next[<<s, x>>] = SplitStep(s, ms)
  BY SplittingIsAutomaton
<1>2. SplitStep(s, ms) = s
  BY SplitCases
<1> HIDE DEF M
<1>3. s \in M.states
  BY <1>1
<1>4. <<>> \in A
  BY <1>1, <1>3, EndEmpty, LineFacts
<1>5. ASSUME NEW l \in Lines, NEW x \in Chars, l \in A
      PROVE  Append(l, x) \in A
  <2>1. l \in Seq(M.chars) /\ x \in M.chars
    BY <1>1 DEF Lines
  <2>2. End(M, s, Append(l, x)) = M.next[<<End(M, s, l), x>>]
    BY <1>1, <1>3, <2>1, EndAppend
  <2>3. End(M, s, Append(l, x)) = s
    BY <1>1, <1>2, <1>5, <2>2
  <2> QED
    BY <2>3, LineFacts
<1>6. Lines \subseteq A
  <2> HIDE DEF A
  <2> QED
    BY <1>4, <1>5, TextInduction DEF Lines
<1> QED
  BY <1>6 DEF M

\* What one turn of the loop leaves to the others.
LEMMA SplitTurn ==
  ASSUME NEW ms, MarkerList(ms), NEW s \in SplitStates(ms),
         NEW x \in Chars, NEW w \in Lines
  PROVE  /\ SplitStep(s, ms) \in SplitStates(ms)
         /\ End(Splitting(ms), s, <<x>> \o w)
              = End(Splitting(ms), SplitStep(s, ms), w)
<1> DEFINE M == Splitting(ms)
<1>1. /\ IsAutomaton(M) /\ M.states = SplitStates(ms) /\ M.chars = Chars
      /\ M.next[<<s, x>>] = SplitStep(s, ms)
  BY SplittingIsAutomaton
<1> HIDE DEF M
<1>2. s \in M.states /\ x \in M.chars /\ <<x>> \in Seq(M.chars) /\ w \in Seq(M.chars)
  BY <1>1 DEF Lines
<1>3. End(M, s, <<x>> \o w) = End(M, End(M, s, <<x>>), w)
  BY <1>1, <1>2, EndConcat
<1>4. End(M, s, <<x>>) = SplitStep(s, ms)
  BY <1>1, <1>2, EndOne
<1> QED
  BY <1>3, <1>4, SplitStepType DEF M

\* A token without markers is one part, its text.
LEMMA SplitUnmarked ==
  ASSUME NEW ms, MarkerList(ms), NEW v \in Token, Unmarked(v, ms)
  PROVE  splitOnMarkers(v, ms) = <<TextPart(v)>>
<1>1. v \in Lines /\ v # <<>>
  BY DEF Token
<1>2. PICK x \in Chars, w \in Lines : v = <<x>> \o w
  BY <1>1, HeadFirst DEF Lines
<1> DEFINE S == SplitStart(v)
           T == SplitStep(S, ms)
<1>3. S \in SplitStates(ms) /\ splitOnMarkers(v, ms) = End(Splitting(ms), S, v).parts
  BY <1>1, SplitIsEnd
<1>4. S.rest = v /\ S.parts = <<>>
  BY DEF SplitStart
<1> HIDE DEF S
<1>5. T = [rest |-> <<>>, parts |-> Append(<<>>, TextPart(v))]
  BY <1>1, <1>4, SplitCases
<1> HIDE DEF T
<1>6. T \in SplitStates(ms) /\ End(Splitting(ms), S, v) = End(Splitting(ms), T, w)
  BY <1>2, <1>3, SplitTurn DEF T
<1>7. T.rest = <<>> /\ T.parts = <<TextPart(v)>>
  BY <1>5
<1>8. End(Splitting(ms), T, w) = T
  BY <1>6, <1>7, SplitStays
<1> QED
  BY <1>3, <1>6, <1>7, <1>8

\* A marker, alone or before a space, is found as itself.
LEMMA MarkerComesFirst ==
  ASSUME NEW ms, MarkerList(ms), NEW k \in DOMAIN ms,
         NEW v \in {ms[k], Append(ms[k], Space)}
  PROVE  /\ v \in Lines /\ v # <<>> /\ ~Unmarked(v, ms)
         /\ MarkerFound(v, ms) = ms[k] /\ MarkerFoundAt(v, ms) = 1
<1> DEFINE m == ms[k]
<1>1. /\ m \in Lines /\ Len(m) \in Nat /\ Len(m) >= 1 /\ m # <<>>
      /\ Space \in Chars /\ Space \notin Safe
  BY MarkerFacts, CharacterFacts
<1>2. /\ v \in Lines /\ Len(v) \in {Len(m), Len(m) + 1}
      /\ \A j \in 1..Len(m) : v[j] = m[j]
      /\ Len(v) = Len(m) + 1 => v[Len(m) + 1] = Space
  <2>1. CASE v = ms[k]
    BY <1>1, <2>1
  <2>2. CASE v = Append(ms[k], Space)
    <3>1. m \in Seq(Chars)
      BY <1>1 DEF Lines
    <3> HIDE DEF m
    <3>2. /\ Append(m, Space) \in Seq(Chars) /\ Len(Append(m, Space)) = Len(m) + 1
          /\ \A j \in 1..Len(m) : Append(m, Space)[j] = m[j]
          /\ Append(m, Space)[Len(m) + 1] = Space
      BY <1>1, <3>1
    <3> QED
      BY <2>2, <3>2 DEF m, Lines
  <2> QED
    BY <2>1, <2>2
<1> HIDE DEF m
<1>3. Len(v) \in Nat /\ Len(v) >= 1 /\ v # <<>>
  BY <1>1, <1>2
<1>4. Occurs(v, m, 1)
  BY <1>1, <1>2, <1>3 DEF Occurs
<1>5. ASSUME NEW e \in DOMAIN ms, Occurs(v, ms[e], 1)
      PROVE  e = k
  <2> DEFINE n == ms[e]
  <2>1. /\ n \in Lines /\ Len(n) \in Nat /\ Len(n) >= 1
        /\ \A j \in 1..Len(n) : n[j] \in Safe
    BY MarkerFacts
  <2>2. Len(n) <= Len(v) /\ \A j \in 1..Len(n) : v[1 + j - 1] = n[j]
    BY <1>5, <2>1 DEF Occurs
  <2> HIDE DEF n
  <2>3. \A j \in 1..Len(n) : v[j] = n[j]
    BY <2>1, <2>2
  <2>4. Len(n) <= Len(m)
    <3> SUFFICES ASSUME ~(Len(n) <= Len(m)) PROVE FALSE
      OBVIOUS
    <3>1. Len(v) = Len(m) + 1 /\ Len(n) = Len(m) + 1
      BY <1>1, <1>2, <2>1, <2>2
    <3>2. n[Len(m) + 1] = Space /\ Len(m) + 1 \in 1..Len(n)
      BY <1>1, <1>2, <2>1, <2>3, <3>1
    <3> QED
      BY <1>1, <2>1, <3>2
  <2>5. \A j \in 1..Len(n) : m[j] = n[j]
    BY <1>1, <1>2, <2>1, <2>3, <2>4
  <2>6. Occurs(m, n, 1)
    BY <1>1, <2>1, <2>4, <2>5 DEF Occurs
  <2>7. SubSeq(m, 1, Len(m)) = m /\ 1 \in 1..Len(m)
    BY <1>1 DEF Lines
  <2>8. IsPrefix(n, m)
    BY <1>1, <2>1, <2>6, <2>7, PrefixOccurs
  <2> QED
    BY <2>8 DEF MarkerList, m, n
<1>6. IndexOf(v, m) # 0 /\ IndexOf(v, m) <= 1
  BY <1>1, <1>2, <1>4, IndexOfFacts
<1>7. ~Unmarked(v, ms)
  BY <1>6 DEF Unmarked, m
<1> DEFINE e == Earliest(v, ms)
<1>8. /\ e \in DOMAIN ms /\ IndexOf(v, ms[e]) \in 1..Len(v)
      /\ IndexOf(v, ms[e]) <= IndexOf(v, m)
  BY <1>2, <1>6, <1>7, EarliestFacts DEF m
<1> HIDE DEF e
<1>9. IndexOf(v, ms[e]) = 1
  <2>1. IndexOf(v, m) \in 0..Len(v)
    BY <1>1, <1>2, IndexOfFacts
  <2> QED
    BY <1>3, <1>6, <1>8, <2>1
<1>10. Occurs(v, ms[e], 1)
  BY <1>2, <1>8, <1>9, IndexOfFacts, MarkerFacts
<1>11. e = k
  BY <1>5, <1>8, <1>10
<1> QED
  BY <1>2, <1>3, <1>7, <1>9, <1>11 DEF e, m, MarkerFound, MarkerFoundAt

\* A marker, alone or before a space, is one slot.
LEMMA SplitMarker ==
  ASSUME NEW ms, MarkerList(ms), NEW k \in DOMAIN ms
  PROVE  /\ splitOnMarkers(ms[k], ms) = <<FieldPart(ms[k])>>
         /\ splitOnMarkers(Append(ms[k], Space), ms)
              = <<FieldPart(ms[k]), TextPart(<<Space>>)>>
<1> DEFINE m == ms[k]
           M == Splitting(ms)
<1>1. m \in Lines /\ Len(m) \in Nat /\ Len(m) >= 1 /\ m # <<>> /\ Space \in Chars
  BY MarkerFacts, CharacterFacts
<1>2. ASSUME NEW v \in {m, Append(m, Space)}
      PROVE  /\ v \in Lines /\ v # <<>> /\ SplitStart(v) \in SplitStates(ms)
             /\ splitOnMarkers(v, ms) = End(M, SplitStart(v), v).parts
             /\ SplitStep(SplitStart(v), ms)
                  = [rest |-> SubSeq(v, 1 + Len(m), Len(v)), parts |-> <<FieldPart(m)>>]
  <2>1. /\ v \in Lines /\ v # <<>> /\ ~Unmarked(v, ms)
        /\ MarkerFound(v, ms) = m /\ MarkerFoundAt(v, ms) = 1
    BY <1>2, MarkerComesFirst
  <2>2. After(v, ms) = SubSeq(v, 1 + Len(m), Len(v)) /\ Before(v, ms) = <<>>
    BY <2>1 DEF After, Before
  <2> HIDE DEF m
  <2>3. <<>> \o <<>> \o <<FieldPart(m)>> = <<FieldPart(m)>>
    OBVIOUS
  <2> DEFINE S == SplitStart(v)
  <2>4. S.rest = v /\ S.parts = <<>>
    BY DEF SplitStart
  <2> HIDE DEF S
  <2>5. SplitStep(S, ms)
          = [rest |-> After(S.rest, ms),
             parts |-> S.parts \o Before(S.rest, ms)
                       \o <<FieldPart(MarkerFound(S.rest, ms))>>]
    <3>1. S.rest # <<>> /\ ~Unmarked(S.rest, ms)
      BY <2>1, <2>4
    <3> QED
      BY <3>1, SplitCases, Zenon
  <2>6. SplitStep(S, ms)
          = [rest |-> SubSeq(v, 1 + Len(m), Len(v)), parts |-> <<FieldPart(m)>>]
    BY <2>1, <2>2, <2>3, <2>4, <2>5, Zenon
  <2> QED
    BY <2>1, <2>6, SplitIsEnd DEF S
<1>3. splitOnMarkers(m, ms) = <<FieldPart(m)>>
  <2> DEFINE T == SplitStep(SplitStart(m), ms)
  <2>1. T = [rest |-> SubSeq(m, 1 + Len(m), Len(m)), parts |-> <<FieldPart(m)>>]
    BY <1>2
  <2>2. SubSeq(m, 1 + Len(m), Len(m)) = <<>>
    BY <1>1 DEF Lines
  <2>3. T.rest = <<>> /\ T.parts = <<FieldPart(m)>>
    BY <2>1, <2>2
  <2>4. PICK x \in Chars, w \in Lines : m = <<x>> \o w
    BY <1>1, HeadFirst DEF Lines
  <2>5. SplitStart(m) \in SplitStates(ms)
    BY <1>2
  <2>6. T \in SplitStates(ms) /\ End(M, SplitStart(m), <<x>> \o w) = End(M, T, w)
    BY <2>5, SplitTurn
  <2> HIDE DEF T
  <2>7. End(M, T, w) = T
    BY <2>3, <2>6, SplitStays
  <2>8. splitOnMarkers(m, ms) = End(M, SplitStart(m), m).parts
    BY <1>2
  <2> HIDE DEF m, M
  <2> QED
    BY <2>3, <2>4, <2>6, <2>7, <2>8
<1>4. splitOnMarkers(Append(m, Space), ms) = <<FieldPart(m), TextPart(<<Space>>)>>
  <2> DEFINE v == Append(m, Space)
             T == SplitStep(SplitStart(v), ms)
             U == SplitStep(T, ms)
  <2>1. /\ v \in Lines /\ SplitStart(v) \in SplitStates(ms)
        /\ splitOnMarkers(v, ms) = End(M, SplitStart(v), v).parts
        /\ T = [rest |-> SubSeq(v, 1 + Len(m), Len(v)), parts |-> <<FieldPart(m)>>]
    BY <1>2
  <2>2. SubSeq(v, 1 + Len(m), Len(v)) = <<Space>> /\ Len(v) = Len(m) + 1
    <3> HIDE DEF m
    <3>1. /\ v \in Seq(Chars) /\ Len(v) = Len(m) + 1 /\ v[Len(m) + 1] = Space
      BY <1>1 DEF Lines
    <3> DEFINE n == Len(m) + 1
    <3>2. n \in 1..Len(v) /\ Len(v) = n /\ v[n] = Space /\ 1 + Len(m) = n /\ n \in Nat
      BY <1>1, <3>1
    <3> HIDE DEF v, n
    <3>3. /\ SubSeq(v, n, n) \in Seq(Chars) /\ Len(SubSeq(v, n, n)) = 1
          /\ SubSeq(v, n, n)[1] = v[n]
      BY <3>1, <3>2
    <3>4. \A q \in Seq(Chars) : Len(q) = 1 => q = <<q[1]>>
      OBVIOUS
    <3>5. SubSeq(v, n, n) = <<Space>>
      BY <3>2, <3>3, <3>4
    <3> QED
      BY <3>1, <3>2, <3>5
  <2> HIDE DEF v, T
  <2>3. T.rest = <<Space>> /\ T.parts = <<FieldPart(m)>>
    BY <2>1, <2>2
  <2>4. U = [rest |-> <<>>, parts |-> Append(<<FieldPart(m)>>, TextPart(<<Space>>))]
    <3>1. T.rest # <<>> /\ Unmarked(T.rest, ms)
      <4>1. <<Space>> # <<>>
        OBVIOUS
      <4> QED
        BY <2>3, <4>1, SpaceIsUnmarked
    <3>2. U = [rest |-> <<>>, parts |-> Append(T.parts, TextPart(T.rest))]
      BY <3>1, SplitCases, Zenon
    <3> QED
      BY <2>3, <3>2, Zenon
  <2> HIDE DEF U
  <2>5. U.rest = <<>> /\ U.parts = <<FieldPart(m), TextPart(<<Space>>)>>
    <3> DEFINE a == FieldPart(m)
               c == TextPart(<<Space>>)
    <3>1. U.rest = <<>> /\ U.parts = Append(<<a>>, c)
      BY <2>4
    <3> HIDE DEF a, c
    <3>2. Append(<<a>>, c) = <<a, c>>
      BY PairOf
    <3> QED
      BY <3>1, <3>2 DEF a, c
  <2>6. PICK x \in Chars, w \in Lines : v = <<x>> \o w /\ Len(w) = Len(v) - 1
    <3>1. v # <<>> /\ v \in Seq(Chars)
      BY <2>1, <2>2, <1>1 DEF Lines
    <3> QED
      BY <3>1, HeadFirst DEF Lines
  <2>7. PICK y \in Chars, z \in Lines : w = <<y>> \o z
    <3>1. w # <<>> /\ w \in Seq(Chars)
      BY <2>2, <2>6, <1>1 DEF Lines
    <3> QED
      BY <3>1, HeadFirst DEF Lines
  <2>8. T \in SplitStates(ms) /\ End(M, SplitStart(v), <<x>> \o w) = End(M, T, w)
    BY <2>1, SplitTurn DEF T
  <2>9. U \in SplitStates(ms) /\ End(M, T, <<y>> \o z) = End(M, U, z)
    BY <2>8, SplitTurn DEF U
  <2>10. End(M, U, z) = U
    BY <2>5, <2>9, SplitStays
  <2> HIDE DEF M
  <2> QED
    BY <2>1, <2>5, <2>6, <2>7, <2>8, <2>9, <2>10 DEF v
<1> QED
  BY <1>3, <1>4

-----------------------------------------------------------------------------
(* What the parts of a command show.                                        *)

\* A sequence with each of its things mapped.
Mapped(f, l) == [i \in DOMAIN l |-> f[l[i]]]

Takes(f, S, T) == f \in [S -> T]

LEMMA MappedFacts ==
  ASSUME NEW S, NEW T, NEW f, Takes(f, S, T)
  PROVE  /\ Mapped(f, <<>>) = <<>>
         /\ \A l \in Seq(S) : Mapped(f, l) \in Seq(T)
         /\ \A x \in S : Mapped(f, <<x>>) = <<f[x]>>
         /\ \A k, l \in Seq(S) : Mapped(f, k \o l) = Mapped(f, k) \o Mapped(f, l)
<1>0. f \in [S -> T]
  BY DEF Takes
<1>1. \A l \in Seq(S) :
        /\ Mapped(f, l) \in Seq(T) /\ Len(Mapped(f, l)) = Len(l)
        /\ \A i \in 1..Len(l) : Mapped(f, l)[i] = f[l[i]]
  <2> TAKE l \in Seq(S)
  <2>1. Len(l) \in Nat /\ DOMAIN l = 1..Len(l) /\ \A i \in 1..Len(l) : l[i] \in S
    OBVIOUS
  <2> DEFINE n == Len(l)
  <2>2. \A i \in 1..n : f[l[i]] \in T
    BY <1>0, <2>1
  <2>3. Mapped(f, l) = [i \in 1..n |-> f[l[i]]]
    BY <2>1 DEF Mapped
  <2>4. Mapped(f, l) \in [1..n -> T]
    BY <2>2, <2>3
  <2>5. n \in Nat /\ DOMAIN Mapped(f, l) = 1..n
    BY <2>1, <2>3
  <2>6. Mapped(f, l) \in Seq(T) /\ Len(Mapped(f, l)) = n
    BY <2>4, <2>5
  <2> QED
    BY <2>3, <2>6
<1>2. Mapped(f, <<>>) = <<>>
  <2>1. <<>> \in Seq(S) /\ Len(<<>>) = 0
    OBVIOUS
  <2>2. Mapped(f, <<>>) \in Seq(T) /\ Len(Mapped(f, <<>>)) = 0
    BY <1>1, <2>1
  <2> QED
    BY <2>2
<1>3. ASSUME NEW x \in S
      PROVE  Mapped(f, <<x>>) = <<f[x]>>
  <2>1. <<x>> \in Seq(S) /\ Len(<<x>>) = 1 /\ <<x>>[1] = x /\ f[x] \in T
    BY <1>0
  <2> DEFINE y == <<x>>
             m == Mapped(f, y)
  <2>2. m \in Seq(T) /\ Len(m) = 1 /\ m[1] = f[x]
    <3>1. y \in Seq(S) /\ Len(y) = 1 /\ y[1] = x
      BY <2>1
    <3> HIDE DEF y
    <3>2. 1 \in 1..Len(y)
      BY <3>1
    <3> QED
      BY <1>1, <3>1, <3>2
  <2> HIDE DEF m
  <2>3. m = <<f[x]>>
    BY <2>1, <2>2
  <2> QED
    BY <2>3 DEF m
<1>4. ASSUME NEW k \in Seq(S), NEW l \in Seq(S)
      PROVE  Mapped(f, k \o l) = Mapped(f, k) \o Mapped(f, l)
  <2> DEFINE a == Mapped(f, k)
             b == Mapped(f, l)
             c == Mapped(f, k \o l)
  <2>1. /\ k \o l \in Seq(S) /\ Len(k \o l) = Len(k) + Len(l)
        /\ Len(k) \in Nat /\ Len(l) \in Nat
        /\ \A i \in 1..Len(k) + Len(l) :
             (k \o l)[i] = IF i <= Len(k) THEN k[i] ELSE l[i - Len(k)]
    OBVIOUS
  <2>2. /\ a \in Seq(T) /\ Len(a) = Len(k) /\ \A i \in 1..Len(k) : a[i] = f[k[i]]
        /\ b \in Seq(T) /\ Len(b) = Len(l) /\ \A i \in 1..Len(l) : b[i] = f[l[i]]
        /\ c \in Seq(T) /\ Len(c) = Len(k) + Len(l)
        /\ \A i \in 1..Len(k) + Len(l) : c[i] = f[(k \o l)[i]]
    BY <1>1, <2>1
  <2> HIDE DEF a, b, c
  <2>3. /\ a \o b \in Seq(T) /\ Len(a \o b) = Len(k) + Len(l)
        /\ \A i \in 1..Len(k) + Len(l) :
             (a \o b)[i] = IF i <= Len(k) THEN a[i] ELSE b[i - Len(k)]
    <3>1. \A p, q \in Seq(T) :
            /\ p \o q \in Seq(T) /\ Len(p \o q) = Len(p) + Len(q)
            /\ \A i \in 1..Len(p) + Len(q) :
                 (p \o q)[i] = IF i <= Len(p) THEN p[i] ELSE q[i - Len(p)]
      OBVIOUS
    <3>2. /\ a \o b \in Seq(T) /\ Len(a \o b) = Len(a) + Len(b)
          /\ \A i \in 1..Len(a) + Len(b) :
               (a \o b)[i] = IF i <= Len(a) THEN a[i] ELSE b[i - Len(a)]
      BY <2>2, <3>1, Zenon
    <3> QED
      BY <2>2, <3>2, Zenon
  <2>4. ASSUME NEW i \in 1..Len(k) + Len(l)
        PROVE  c[i] = (a \o b)[i]
    <3>1. CASE i <= Len(k)
      <4>1. i \in 1..Len(k)
        BY <2>1, <3>1
      <4> QED
        BY <2>1, <2>2, <2>3, <3>1, <4>1
    <3>2. CASE ~(i <= Len(k))
      <4>1. i - Len(k) \in 1..Len(l)
        BY <2>1, <3>2
      <4>2. c[i] = f[(k \o l)[i]] /\ (k \o l)[i] = l[i - Len(k)]
        BY <2>1, <2>2, <3>2, Zenon
      <4>3. (a \o b)[i] = b[i - Len(k)]
        BY <2>3, <3>2, Zenon
      <4>4. b[i - Len(k)] = f[l[i - Len(k)]]
        BY <2>2, <4>1, Zenon
      <4> QED
        BY <4>2, <4>3, <4>4, Zenon
    <3> QED
      BY <3>1, <3>2
  <2>5. c = a \o b
    BY <2>2, <2>3, <2>4
  <2> QED
    BY <2>5 DEF a, b, c
<1> QED
  BY <1>1, <1>2, <1>3, <1>4

\* The slots have texts.
Assigns(ms, v) == \A k \in DOMAIN ms : v[ms[k]] \in Seq(Safe)

TextOf(p, v) == IF p.kind = "field" THEN v[p.value] ELSE p.value

\* The text of parts, with these texts in the slots.
ShownParts(list, v) == FlattenSeq([i \in DOMAIN list |-> TextOf(list[i], v)])

LEMMA PartsFacts ==
  ASSUME NEW ms, MarkerList(ms), NEW v, Assigns(ms, v)
  PROVE  /\ \A u \in Lines : TextPart(u) \in PartsOf(ms) /\ TextOf(TextPart(u), v) = u
         /\ \A k \in DOMAIN ms : /\ FieldPart(ms[k]) \in PartsOf(ms)
                                 /\ TextOf(FieldPart(ms[k]), v) = v[ms[k]]
         /\ \A p \in PartsOf(ms) : TextOf(p, v) \in Lines
<1>1. \A k \in DOMAIN ms : v[ms[k]] \in Lines
  <2>1. Seq(Safe) \subseteq Lines
    BY CharacterFacts DEF Lines
  <2> QED
    BY <2>1 DEF Assigns
<1>2. \A u \in Lines : TextPart(u) \in PartsOf(ms) /\ TextOf(TextPart(u), v) = u
  BY DEF PartsOf, TextPart, TextOf
<1>3. \A k \in DOMAIN ms : /\ FieldPart(ms[k]) \in PartsOf(ms)
                           /\ TextOf(FieldPart(ms[k]), v) = v[ms[k]]
  BY DEF PartsOf, FieldPart, TextOf
<1>4. \A p \in PartsOf(ms) : \/ \E u \in Lines : p = TextPart(u)
                             \/ \E k \in DOMAIN ms : p = FieldPart(ms[k])
  BY DEF PartsOf
<1> QED
  BY <1>1, <1>2, <1>3, <1>4

LEMMA ShownPartsFacts ==
  ASSUME NEW ms, MarkerList(ms), NEW v, Assigns(ms, v)
  PROVE  /\ ShownParts(<<>>, v) = <<>>
         /\ \A l \in Seq(PartsOf(ms)) : ShownParts(l, v) \in Lines
         /\ \A p \in PartsOf(ms) : ShownParts(<<p>>, v) = TextOf(p, v)
         /\ \A k, l \in Seq(PartsOf(ms)) :
              ShownParts(k \o l, v) = ShownParts(k, v) \o ShownParts(l, v)
<1> DEFINE P == PartsOf(ms)
           f == [p \in P |-> TextOf(p, v)]
<1>1. f \in [P -> Lines]
  BY PartsFacts
<1>2. \A l \in Seq(P) : ShownParts(l, v) = FlattenSeq(Mapped(f, l))
  <2> TAKE l \in Seq(P)
  <2> HIDE DEF P
  <2>1. \A i \in DOMAIN l : l[i] \in P
    OBVIOUS
  <2>2. Mapped(f, l) = [i \in DOMAIN l |-> TextOf(l[i], v)]
    BY <2>1 DEF Mapped
  <2> QED
    BY <2>2 DEF ShownParts
<1>3. \A p \in P : f[p] = TextOf(p, v)
  OBVIOUS
<1> HIDE DEF f, P
<1>4. /\ Mapped(f, <<>>) = <<>>
      /\ \A l \in Seq(P) : Mapped(f, l) \in Seq(Seq(Chars))
      /\ \A x \in P : Mapped(f, <<x>>) = <<f[x]>>
      /\ \A k, l \in Seq(P) : Mapped(f, k \o l) = Mapped(f, k) \o Mapped(f, l)
  <2>1. Takes(f, P, Seq(Chars))
    BY <1>1 DEF Lines, Takes
  <2> QED
    BY <2>1, MappedFacts
<1>5. /\ <<>> \in Seq(P) /\ \A p \in P : <<p>> \in Seq(P)
      /\ \A k, l \in Seq(P) : k \o l \in Seq(P)
  BY SequenceFacts
<1>6. ShownParts(<<>>, v) = <<>>
  BY <1>2, <1>4, <1>5, FlattenFacts
<1>7. \A l \in Seq(P) : ShownParts(l, v) \in Lines
  BY <1>2, <1>4, FlattenFacts DEF Lines
<1>8. ASSUME NEW p \in P
      PROVE  ShownParts(<<p>>, v) = TextOf(p, v)
  <2>1. f[p] \in Seq(Chars)
    BY <1>1 DEF Lines
  <2>2. FlattenSeq(<<f[p]>>) = f[p]
    BY <2>1, FlattenFacts
  <2> QED
    BY <1>2, <1>3, <1>4, <1>5, <2>2
<1>9. ASSUME NEW k \in Seq(P), NEW l \in Seq(P)
      PROVE  ShownParts(k \o l, v) = ShownParts(k, v) \o ShownParts(l, v)
  <2>1. Mapped(f, k) \in Seq(Seq(Chars)) /\ Mapped(f, l) \in Seq(Seq(Chars))
    BY <1>4
  <2>2. FlattenSeq(Mapped(f, k) \o Mapped(f, l))
          = FlattenSeq(Mapped(f, k)) \o FlattenSeq(Mapped(f, l))
    BY <2>1, FlattenConcat
  <2> QED
    BY <1>2, <1>4, <1>5, <2>2, Zenon
<1> QED
  BY <1>6, <1>7, <1>8, <1>9 DEF P

\* The parts of tokens, and what they show.
PartsOfTokens(ts, ms) ==
  FlattenSeq([i \in DOMAIN ts |-> splitOnMarkers(ts[i], ms)])
ShownTokens(ts, ms, v) == ShownParts(PartsOfTokens(ts, ms), v)
ShownLine(l, ms, v) == ShownParts(highlightTemplate(l, ms), v)

LEMMA PartsOfTokensFacts ==
  ASSUME NEW ms, MarkerList(ms)
  PROVE  /\ PartsOfTokens(<<>>, ms) = <<>>
         /\ \A ts \in Seq(Token) : PartsOfTokens(ts, ms) \in Seq(PartsOf(ms))
         /\ \A t \in Token : PartsOfTokens(<<t>>, ms) = splitOnMarkers(t, ms)
         /\ \A ts, us \in Seq(Token) :
              PartsOfTokens(ts \o us, ms)
                = PartsOfTokens(ts, ms) \o PartsOfTokens(us, ms)
<1> DEFINE P == PartsOf(ms)
           f == [t \in Token |-> splitOnMarkers(t, ms)]
<1>1. f \in [Token -> Seq(P)]
  BY SplitType DEF Token
<1>2. \A l \in Seq(Token) : PartsOfTokens(l, ms) = FlattenSeq(Mapped(f, l))
  <2> TAKE l \in Seq(Token)
  <2>1. \A i \in DOMAIN l : l[i] \in Token
    OBVIOUS
  <2>2. Mapped(f, l) = [i \in DOMAIN l |-> splitOnMarkers(l[i], ms)]
    BY <2>1 DEF Mapped
  <2> QED
    BY <2>2 DEF PartsOfTokens
<1>3. \A t \in Token : f[t] = splitOnMarkers(t, ms)
  OBVIOUS
<1> HIDE DEF f, P
<1>4. /\ Mapped(f, <<>>) = <<>>
      /\ \A l \in Seq(Token) : Mapped(f, l) \in Seq(Seq(P))
      /\ \A x \in Token : Mapped(f, <<x>>) = <<f[x]>>
      /\ \A k, l \in Seq(Token) :
           Mapped(f, k \o l) = Mapped(f, k) \o Mapped(f, l)
  <2>1. Takes(f, Token, Seq(P))
    BY <1>1 DEF Takes
  <2> QED
    BY <2>1, MappedFacts
<1>5. /\ <<>> \in Seq(Token) /\ \A t \in Token : <<t>> \in Seq(Token)
      /\ \A k, l \in Seq(Token) : k \o l \in Seq(Token)
  BY SequenceFacts
<1>6. PartsOfTokens(<<>>, ms) = <<>>
  BY <1>2, <1>4, <1>5, FlattenFacts
<1>7. \A l \in Seq(Token) : PartsOfTokens(l, ms) \in Seq(P)
  BY <1>2, <1>4, FlattenFacts
<1>8. ASSUME NEW t \in Token
      PROVE  PartsOfTokens(<<t>>, ms) = splitOnMarkers(t, ms)
  <2>1. f[t] \in Seq(P)
    BY <1>1
  <2>2. FlattenSeq(<<f[t]>>) = f[t]
    BY <2>1, FlattenFacts
  <2> QED
    BY <1>2, <1>3, <1>4, <1>5, <2>2
<1>9. ASSUME NEW k \in Seq(Token), NEW l \in Seq(Token)
      PROVE  PartsOfTokens(k \o l, ms) = PartsOfTokens(k, ms) \o PartsOfTokens(l, ms)
  <2>1. Mapped(f, k) \in Seq(Seq(P)) /\ Mapped(f, l) \in Seq(Seq(P))
    BY <1>4
  <2>2. FlattenSeq(Mapped(f, k) \o Mapped(f, l))
          = FlattenSeq(Mapped(f, k)) \o FlattenSeq(Mapped(f, l))
    BY <2>1, FlattenConcat
  <2> QED
    BY <1>2, <1>4, <1>5, <2>2, Zenon
<1> QED
  BY <1>6, <1>7, <1>8, <1>9 DEF P

LEMMA HighlightIsParts ==
  ASSUME NEW ms, NEW l
  PROVE  highlightTemplate(l, ms) = PartsOfTokens(Tokens(l), ms)
  BY DEF highlightTemplate, PartsOfTokens

LEMMA ShownFacts ==
  ASSUME NEW ms, MarkerList(ms), NEW v, Assigns(ms, v)
  PROVE  /\ \A ts \in Seq(Token) : ShownTokens(ts, ms, v) \in Lines
         /\ ShownTokens(<<>>, ms, v) = <<>>
         /\ \A t \in Token :
              ShownTokens(<<t>>, ms, v) = ShownParts(splitOnMarkers(t, ms), v)
         /\ \A ts, us \in Seq(Token) :
              ShownTokens(ts \o us, ms, v)
                = ShownTokens(ts, ms, v) \o ShownTokens(us, ms, v)
         /\ \A l \in Lines : ShownLine(l, ms, v) = ShownTokens(Tokens(l), ms, v)
<1>1. \A l \in Lines : ShownLine(l, ms, v) = ShownTokens(Tokens(l), ms, v)
  BY HighlightIsParts DEF ShownLine, ShownTokens
<1>2. /\ PartsOfTokens(<<>>, ms) = <<>>
      /\ \A ts \in Seq(Token) : PartsOfTokens(ts, ms) \in Seq(PartsOf(ms))
      /\ \A t \in Token : PartsOfTokens(<<t>>, ms) = splitOnMarkers(t, ms)
      /\ \A ts, us \in Seq(Token) :
           PartsOfTokens(ts \o us, ms)
             = PartsOfTokens(ts, ms) \o PartsOfTokens(us, ms)
  BY PartsOfTokensFacts
<1>3. /\ ShownParts(<<>>, v) = <<>>
      /\ \A l \in Seq(PartsOf(ms)) : ShownParts(l, v) \in Lines
      /\ \A k, l \in Seq(PartsOf(ms)) :
           ShownParts(k \o l, v) = ShownParts(k, v) \o ShownParts(l, v)
  BY ShownPartsFacts
<1>4. \A ts \in Seq(Token) : ShownTokens(ts, ms, v) \in Lines
  BY <1>2, <1>3, Zenon DEF ShownTokens
<1>5. ShownTokens(<<>>, ms, v) = <<>>
  BY <1>2, <1>3, Zenon DEF ShownTokens
<1>6. \A t \in Token :
        ShownTokens(<<t>>, ms, v) = ShownParts(splitOnMarkers(t, ms), v)
  BY <1>2, Zenon DEF ShownTokens
<1>7. \A ts, us \in Seq(Token) :
        ShownTokens(ts \o us, ms, v)
          = ShownTokens(ts, ms, v) \o ShownTokens(us, ms, v)
  BY <1>2, <1>3, Zenon DEF ShownTokens
<1> QED
  BY <1>1, <1>4, <1>5, <1>6, <1>7

-----------------------------------------------------------------------------
(* What a command shows.                                                    *)

\* The tokens of a line, put together, are the line.
LEMMA TokensFlatten ==
  ASSUME NEW l \in Lines
  PROVE  FlattenSeq(Tokens(l)) = l
<1> DEFINE A == {u \in Lines : FlattenSeq(Tokens(u)) = u}
<1>0. Seq(Token) \subseteq Seq(Seq(Chars))
  BY DEF Token, Lines
<1>1. <<>> \in A
  BY TokensFacts, FlattenFacts, LineFacts
<1>2. ASSUME NEW u \in Lines, NEW x \in Chars, u \in A
      PROVE  Append(u, x) \in A
  <2> DEFINE t == Tokens(u)
  <2>1. /\ t \in Seq(Token) /\ Tokens(Append(u, x)) = Cut(t, x)
        /\ FlattenSeq(t) = u
    BY <1>2, TokensFacts
  <2> HIDE DEF t
  <2>2. CASE t # <<>> /\ Last(Last(t)) # Space
    <3>1. Cut(t, x) = Append(Front(t), Append(Last(t), x))
      BY <2>1, <2>2, CutFacts
    <3>2. /\ Front(t) \in Seq(Token) /\ Last(t) \in Token
          /\ t = Append(Front(t), Last(t))
      BY <2>1, <2>2, FrontAndLast
    <3>3. /\ Front(t) \in Seq(Seq(Chars)) /\ Last(t) \in Seq(Chars)
          /\ Last(t) \in Lines
      BY <1>0, <3>2 DEF Token, Lines
    <3>4. Append(Last(t), x) \in Seq(Chars)
      BY <3>3
    <3>5. /\ FlattenSeq(t) = FlattenSeq(Front(t)) \o Last(t)
          /\ FlattenSeq(Cut(t, x)) = FlattenSeq(Front(t)) \o Append(Last(t), x)
          /\ FlattenSeq(Front(t)) \in Lines
      <4>1. FlattenSeq(Append(Front(t), Last(t))) = FlattenSeq(Front(t)) \o Last(t)
        BY <3>3, FlattenFacts
      <4>2. FlattenSeq(Append(Front(t), Append(Last(t), x)))
              = FlattenSeq(Front(t)) \o Append(Last(t), x)
        BY <3>3, <3>4, FlattenFacts
      <4>3. FlattenSeq(Front(t)) \in Seq(Chars)
        BY <3>3, FlattenFacts
      <4> QED
        BY <3>1, <3>2, <4>1, <4>2, <4>3 DEF Lines
    <3>6. FlattenSeq(Cut(t, x)) = Append(u, x)
      BY <2>1, <3>3, <3>5, LineFacts
    <3> QED
      BY <2>1, <3>6, LineFacts
  <2>3. CASE t = <<>> \/ Last(Last(t)) = Space
    <3>1. Cut(t, x) = Append(t, <<x>>)
      BY <2>1, <2>3, CutFacts
    <3>2. t \in Seq(Seq(Chars)) /\ <<x>> \in Seq(Chars)
      BY <1>0, <2>1
    <3>3. FlattenSeq(Append(t, <<x>>)) = FlattenSeq(t) \o <<x>>
      BY <3>2, FlattenFacts
    <3>4. FlattenSeq(Cut(t, x)) = Append(u, x)
      BY <2>1, <3>1, <3>3, LineFacts
    <3> QED
      BY <2>1, <3>4, LineFacts
  <2> QED
    BY <2>2, <2>3
<1>3. Lines \subseteq A
  <2> HIDE DEF A
  <2> QED
    BY <1>1, <1>2, TextInduction DEF Lines
<1> QED
  BY <1>3

\* A line without markers shows itself.
LEMMA UnmarkedShowsItself ==
  ASSUME NEW ms, MarkerList(ms), NEW v, Assigns(ms, v), NEW l \in Lines,
         Unmarked(l, ms)
  PROVE  ShownLine(l, ms, v) = l
<1> DEFINE sh(ts) == ShownTokens(ts, ms, v)
           A == {u \in Lines : Unmarked(u, ms) => sh(Tokens(u)) = u}
<1>1. /\ \A ts \in Seq(Token) : sh(ts) \in Lines
      /\ sh(<<>>) = <<>>
      /\ \A ts, us \in Seq(Token) : sh(ts \o us) = sh(ts) \o sh(us)
  BY ShownFacts
<1>2. ASSUME NEW t \in Token, Unmarked(t, ms)
      PROVE  sh(<<t>>) = t
  <2>1. splitOnMarkers(t, ms) = <<TextPart(t)>> /\ t \in Lines
    BY <1>2, SplitUnmarked DEF Token
  <2>2. sh(<<t>>) = ShownParts(<<TextPart(t)>>, v)
    BY <2>1, ShownFacts
  <2>3. TextPart(t) \in PartsOf(ms) /\ TextOf(TextPart(t), v) = t
    BY <2>1, PartsFacts
  <2> QED
    BY <2>2, <2>3, ShownPartsFacts
<1> HIDE DEF sh
<1>3. <<>> \in A
  BY <1>1, TokensFacts, LineFacts
<1>4. ASSUME NEW u \in Lines, NEW x \in Chars, u \in A
      PROVE  Append(u, x) \in A
  <2> SUFFICES ASSUME Unmarked(Append(u, x), ms)
               PROVE  sh(Tokens(Append(u, x))) = Append(u, x)
    BY LineFacts
  <2> DEFINE t == Tokens(u)
  <2>1. /\ t \in Seq(Token) /\ Tokens(Append(u, x)) = Cut(t, x)
        /\ FlattenSeq(t) = u
    BY TokensFacts, TokensFlatten
  <2>2. <<x>> \in Lines /\ Append(u, x) = u \o <<x>>
    BY LineFacts
  <2>3. Unmarked(u, ms) /\ Unmarked(<<x>>, ms)
    BY <2>2, UnmarkedParts
  <2>4. sh(t) = u
    BY <1>4, <2>3
  <2> HIDE DEF t
  <2>5. CASE t # <<>> /\ Last(Last(t)) # Space
    <3> DEFINE f == Front(t)
               k == Last(t)
               kx == Append(k, x)
    <3>1. Cut(t, x) = Append(f, kx) /\ Append(f, kx) \in Seq(Token)
      BY <2>1, <2>5, CutFacts
    <3>2. /\ f \in Seq(Token) /\ k \in Token /\ t = f \o <<k>> /\ t = Append(f, k)
      BY <2>1, <2>5, FrontAndLast
    <3> HIDE DEF f, k
    <3>3. k \in Lines /\ kx \in Lines /\ kx \in Token
      BY <3>2, LineFacts DEF Token
    <3>4. FlattenSeq(f) \in Lines /\ u = FlattenSeq(f) \o k
      <4>1. f \in Seq(Seq(Chars)) /\ k \in Seq(Chars)
        BY <3>2 DEF Token, Lines
      <4>2. FlattenSeq(f) \in Seq(Chars) /\ FlattenSeq(Append(f, k)) = FlattenSeq(f) \o k
        BY <4>1, FlattenFacts
      <4> QED
        BY <2>1, <3>2, <4>2 DEF Lines
    <3>5. Append(u, x) = FlattenSeq(f) \o kx
      BY <3>3, <3>4, LineFacts
    <3> HIDE DEF kx
    <3>6. Unmarked(k, ms) /\ Unmarked(kx, ms)
      BY <2>3, <3>3, <3>4, <3>5, UnmarkedParts
    <3>7. sh(<<k>>) = k /\ sh(<<kx>>) = kx
      BY <1>2, <3>2, <3>3, <3>6
    <3>8. sh(f \o <<k>>) = sh(f) \o sh(<<k>>) /\ sh(f) \in Lines
      BY <1>1, <3>2, TokenFacts
    <3>9. sh(f) \o k = u
      BY <2>4, <3>2, <3>7, <3>8
    <3>10. Append(f, kx) = f \o <<kx>> /\ <<kx>> \in Seq(Token)
      BY <3>2, <3>3, TokenFacts
    <3>11. sh(Append(f, kx)) = sh(f) \o kx
      BY <1>1, <3>2, <3>7, <3>10
    <3>12. sh(f) \o Append(k, x) = Append(sh(f) \o k, x)
      BY <3>3, <3>8, LineFacts
    <3> QED
      BY <2>1, <3>1, <3>9, <3>11, <3>12 DEF kx
  <2>6. CASE t = <<>> \/ Last(Last(t)) = Space
    <3>1. Cut(t, x) = Append(t, <<x>>)
      BY <2>1, <2>6, CutFacts
    <3>2. <<x>> \in Token
      BY <2>2, LineFacts DEF Token
    <3>3. Append(t, <<x>>) = t \o <<<<x>>>> /\ <<<<x>>>> \in Seq(Token)
      BY <2>1, <3>2, TokenFacts
    <3>4. sh(<<<<x>>>>) = <<x>>
      BY <1>2, <2>3, <3>2
    <3>5. sh(t \o <<<<x>>>>) = sh(t) \o sh(<<<<x>>>>)
      BY <1>1, <2>1, <3>3
    <3> QED
      BY <2>1, <2>2, <2>4, <3>1, <3>3, <3>4, <3>5
  <2> QED
    BY <2>5, <2>6
<1>5. Lines \subseteq A
  <2> HIDE DEF A
  <2> QED
    BY <1>3, <1>4, TextInduction DEF Lines
<1> QED
  BY <1>5, ShownFacts DEF sh

\* A text without spaces is a token, also before a space.
LEMMA WordTokens ==
  ASSUME NEW t \in Seq(Safe), t # <<>>
  PROVE  Tokens(t) = <<t>> /\ Tokens(Append(t, Space)) = <<Append(t, Space)>>
<1> DEFINE A == {u \in Seq(Safe) : u # <<>> => Tokens(u) = <<u>>}
<1>0. /\ Safe \subseteq Chars /\ Space \in Chars /\ Seq(Safe) \subseteq Lines
      /\ \A c \in Safe : c # Space
  BY CharacterFacts DEF Lines
<1>1. ASSUME NEW u \in Seq(Safe), u # <<>>, Tokens(u) = <<u>>, NEW x \in Chars
      PROVE  Tokens(Append(u, x)) = <<Append(u, x)>>
  <2>1. u \in Lines /\ u \in Token /\ Append(u, x) \in Token
    BY <1>0, <1>1, LineFacts DEF Token
  <2>2. /\ <<u>> = Append(<<>>, u) /\ <<u>> # <<>> /\ <<u>> \in Seq(Token)
        /\ <<Append(u, x)>> = Append(<<>>, Append(u, x)) /\ <<>> \in Seq(Token)
    BY <2>1, TokenFacts
  <2>3. Front(<<u>>) = <<>> /\ Last(<<u>>) = u
    BY <2>1, <2>2, FrontOfAppend, Zenon
  <2>4. Last(u) # Space
    BY <1>0, <1>1, FrontAndLast
  <2>5. Cut(<<u>>, x) = Append(Front(<<u>>), Append(Last(<<u>>), x))
    BY <2>2, <2>3, <2>4, CutFacts, Zenon
  <2>6. Tokens(Append(u, x)) = Cut(<<u>>, x)
    BY <1>1, <2>1, TokensFacts
  <2> QED
    BY <2>2, <2>3, <2>5, <2>6, Zenon
<1>2. <<>> \in A
  BY SequenceFacts
<1>3. ASSUME NEW u \in Seq(Safe), NEW x \in Safe, u \in A
      PROVE  Append(u, x) \in A
  <2>1. CASE u = <<>>
    <3>1. Append(u, x) = <<x>> /\ Append(u, x) \in Seq(Safe)
      BY <2>1
    <3>2. Tokens(Append(u, x)) = Cut(<<>>, x)
      <4>1. u \in Lines /\ x \in Chars
        BY <1>0
      <4>2. Tokens(Append(u, x)) = Cut(Tokens(u), x)
        BY <4>1, TokensFacts, Zenon
      <4> QED
        BY <2>1, <4>2, TokensFacts, Zenon
    <3>3. Cut(<<>>, x) = Append(<<>>, <<x>>)
      BY <1>0, CutFacts, TokenFacts
    <3>4. Append(<<>>, <<x>>) = <<<<x>>>>
      <4>1. <<x>> \in Token
        BY <1>0, LineFacts DEF Token
      <4> QED
        BY <4>1, TokenFacts
    <3> QED
      BY <3>1, <3>2, <3>3, <3>4
  <2>2. CASE u # <<>>
    <3>1. Tokens(Append(u, x)) = <<Append(u, x)>>
      BY <1>0, <1>1, <1>3, <2>2
    <3>2. Append(u, x) \in Seq(Safe)
      OBVIOUS
    <3> QED
      BY <3>1, <3>2
  <2> QED
    BY <2>1, <2>2
<1>4. Seq(Safe) \subseteq A
  <2> HIDE DEF A
  <2> QED
    BY <1>2, <1>3, TextInduction
<1>5. Tokens(t) = <<t>>
  BY <1>4
<1> QED
  BY <1>0, <1>1, <1>5

\* A piece of a command shows this text, also before a space.
ShowsAs(a, ms, v, shown) ==
  /\ a \in Lines /\ shown \in Lines
  /\ ShownLine(a, ms, v) = shown
  /\ ShownLine(Append(a, Space), ms, v) = Append(shown, Space)

\* Pieces show their texts one after the other.
LEMMA TogetherShow ==
  ASSUME NEW ms, MarkerList(ms), NEW v, Assigns(ms, v),
         NEW a, NEW x, NEW b, NEW y, ShowsAs(a, ms, v, x), ShowsAs(b, ms, v, y)
  PROVE  ShowsAs(a ++ b, ms, v, x ++ y)
<1> DEFINE sh(l) == ShownLine(l, ms, v)
<1>1. /\ a \in Lines /\ b \in Lines /\ x \in Lines /\ y \in Lines /\ Space \in Chars
      /\ Append(a, Space) \in Lines /\ Append(b, Space) \in Lines
      /\ Append(x, Space) \in Lines
  BY CharacterFacts, LineFacts DEF ShowsAs
<1>2. ASSUME NEW p \in Lines, NEW q \in Lines
      PROVE  /\ p ++ q = Append(p, Space) \o q /\ p ++ q \in Lines
             /\ Append(p ++ q, Space) = Append(p, Space) \o Append(q, Space)
  <2>1. p ++ q = (p \o <<Space>>) \o q
    BY DEF ++
  <2>2. Append(p, Space) = p \o <<Space>> /\ Append(p, Space) \in Lines
    BY <1>1, LineFacts
  <2>3. p ++ q = Append(p, Space) \o q
    BY <2>1, <2>2, Zenon
  <2>4. Append(p, Space) \o q \in Lines
    BY <2>2, LineFacts, Zenon
  <2>5. Append(Append(p, Space) \o q, Space) = Append(p, Space) \o Append(q, Space)
    <3>1. ASSUME NEW c \in Lines, NEW d \in Lines
          PROVE  Append(c \o d, Space) = c \o Append(d, Space)
      <4>1. Space \in Chars
        BY <1>1
      <4> HIDE DEF Space
      <4> QED
        BY <4>1, LineFacts
    <3> QED
      BY <2>2, <3>1, Zenon
  <2> QED
    BY <2>3, <2>4, <2>5, Zenon
<1>3. ASSUME NEW q \in Lines
      PROVE  sh(Append(a, Space) \o q) = sh(Append(a, Space)) \o sh(q)
  <2>1. Tokens(Append(a, Space) \o q) = Tokens(Append(a, Space)) \o Tokens(q)
    BY <1>1, TokensAfterSpace
  <2>2. Append(a, Space) \o q \in Lines
    BY <1>1, LineFacts
  <2>3. /\ Tokens(Append(a, Space)) \in Seq(Token) /\ Tokens(q) \in Seq(Token)
    BY <1>1, TokensFacts
  <2>4. /\ \A l \in Lines : sh(l) = ShownTokens(Tokens(l), ms, v)
        /\ \A ts, us \in Seq(Token) :
             ShownTokens(ts \o us, ms, v)
               = ShownTokens(ts, ms, v) \o ShownTokens(us, ms, v)
    BY ShownFacts
  <2> DEFINE p == Append(a, Space)
             shownOf(ts) == ShownTokens(ts, ms, v)
  <2>5. /\ sh(p \o q) = shownOf(Tokens(p \o q))
        /\ sh(p) = shownOf(Tokens(p)) /\ sh(q) = shownOf(Tokens(q))
    BY <1>1, <2>2, <2>4
  <2>6. shownOf(Tokens(p) \o Tokens(q)) = shownOf(Tokens(p)) \o shownOf(Tokens(q))
    BY <2>3, <2>4
  <2> HIDE DEF sh, shownOf, p
  <2> QED
    BY <2>1, <2>5, <2>6, Zenon DEF p
<1>4. /\ sh(Append(a, Space)) = Append(x, Space)
      /\ sh(b) = y /\ sh(Append(b, Space)) = Append(y, Space)
  BY DEF ShowsAs
<1>5. sh(a ++ b) = x ++ y
  <2>1. sh(a ++ b) = sh(Append(a, Space)) \o sh(b)
    BY <1>1, <1>2, <1>3
  <2> HIDE DEF sh
  <2> QED
    BY <1>1, <1>2, <1>4, <2>1
<1>6. sh(Append(a ++ b, Space)) = Append(x ++ y, Space)
  <2>1. sh(Append(a ++ b, Space)) = sh(Append(a, Space)) \o sh(Append(b, Space))
    BY <1>1, <1>2, <1>3
  <2>2. Append(x ++ y, Space) = Append(x, Space) \o Append(y, Space)
    BY <1>1, <1>2
  <2> HIDE DEF sh
  <2> QED
    BY <1>4, <2>1, <2>2, Zenon
<1>7. a ++ b \in Lines /\ x ++ y \in Lines
  BY <1>1, <1>2
<1> QED
  BY <1>5, <1>6, <1>7 DEF ShowsAs

LEMMA UnmarkedShows ==
  ASSUME NEW ms, MarkerList(ms), NEW v, Assigns(ms, v), NEW l \in Lines,
         Unmarked(l, ms)
  PROVE  ShowsAs(l, ms, v, l)
<1>1. Append(l, Space) \in Lines /\ Unmarked(Append(l, Space), ms)
  BY CharacterFacts, LineFacts, UnmarkedBeforeSpace
<1> QED
  BY <1>1, UnmarkedShowsItself DEF ShowsAs

LEMMA MarkerShows ==
  ASSUME NEW ms, MarkerList(ms), NEW v, Assigns(ms, v), NEW k \in DOMAIN ms
  PROVE  ShowsAs(ms[k], ms, v, v[ms[k]])
<1> DEFINE m == ms[k]
           ts == <<Space>>
<1>1. /\ m \in Seq(Safe) /\ m # <<>> /\ m \in Lines /\ Space \in Chars
      /\ v[m] \in Lines /\ Append(m, Space) \in Lines
      /\ ts \in Lines /\ Append(v[m], Space) = v[m] \o ts
      /\ m \in Token /\ Append(m, Space) \in Token
  <2>1. m \in Seq(Safe) /\ m # <<>> /\ m \in Lines /\ Space \in Chars
    BY MarkerFacts, CharacterFacts
  <2>2. v[m] \in Lines
    BY CharacterFacts DEF Assigns, Lines
  <2> QED
    BY <2>1, <2>2, LineFacts DEF Token
<1>2. /\ Tokens(m) = <<m>> /\ Tokens(Append(m, Space)) = <<Append(m, Space)>>
  BY <1>1, WordTokens
<1>3. /\ splitOnMarkers(m, ms) = <<FieldPart(m)>>
      /\ splitOnMarkers(Append(m, Space), ms) = <<FieldPart(m), TextPart(ts)>>
  BY SplitMarker
<1>4. /\ FieldPart(m) \in PartsOf(ms) /\ TextOf(FieldPart(m), v) = v[m]
      /\ TextPart(ts) \in PartsOf(ms) /\ TextOf(TextPart(ts), v) = ts
  BY <1>1, PartsFacts
<1>5. /\ ShownLine(m, ms, v) = ShownParts(splitOnMarkers(m, ms), v)
      /\ ShownLine(Append(m, Space), ms, v)
           = ShownParts(splitOnMarkers(Append(m, Space), ms), v)
  <2>1. /\ \A t \in Token :
             ShownTokens(<<t>>, ms, v) = ShownParts(splitOnMarkers(t, ms), v)
        /\ \A l \in Lines : ShownLine(l, ms, v) = ShownTokens(Tokens(l), ms, v)
    BY ShownFacts
  <2> HIDE DEF m
  <2> QED
    BY <1>1, <1>2, <2>1, Zenon
<1> DEFINE p == FieldPart(m)
           q == TextPart(ts)
<1> HIDE DEF m, ts, p, q
<1>6. /\ ShownParts(<<p>>, v) = v[m] /\ ShownParts(<<q>>, v) = ts
  BY <1>4, ShownPartsFacts DEF p, q
<1>7. ShownParts(<<p, q>>, v) = v[m] \o ts
  <2>1. <<p>> \in Seq(PartsOf(ms)) /\ <<q>> \in Seq(PartsOf(ms))
    BY <1>4, SequenceFacts DEF p, q
  <2>2. ShownParts(<<p>> \o <<q>>, v) = ShownParts(<<p>>, v) \o ShownParts(<<q>>, v)
    BY <2>1, ShownPartsFacts
  <2>3. <<p>> \o <<q>> = <<p, q>>
    <3>1. Append(<<p>>, q) = <<p>> \o <<q>>
      BY <1>4, <2>1, SequenceFacts DEF p, q
    <3> QED
      BY <3>1, PairOf
  <2> QED
    BY <1>6, <2>2, <2>3
<1>8. /\ ShownLine(m, ms, v) = v[m]
      /\ ShownLine(Append(m, Space), ms, v) = Append(v[m], Space)
  BY <1>1, <1>3, <1>5, <1>6, <1>7 DEF p, q
<1> QED
  BY <1>1, <1>8 DEF ShowsAs, m

-----------------------------------------------------------------------------
(* What the commands show.                                                  *)

\* The markers of a block.
LEMMA MarkersOfFacts ==
  ASSUME NEW b \in Blocks
  PROVE  /\ MarkerList(MarkersOf(b))
         /\ \A k \in DOMAIN MarkersOf(b) :
              /\ MarkersOf(b)[k] \in MarkerTexts /\ MarkersOf(b)[k] # Word
              /\ \E m \in DOMAIN Markers : MarkersOf(b)[k] = Markers[m]
<1> DEFINE T == Seq(Safe) \ {<<>>}
<1>1. /\ Markers \in Seq(T) /\ Len(Markers) = 3
      /\ \A m, k \in DOMAIN Markers : m # k => ~IsPrefix(Markers[m], Markers[k])
      /\ \A m \in DOMAIN Markers : Markers[m] # Word
  BY CommandsAssumption, BlocksAssumption DEF Word
<1> HIDE DEF T
<1>2. /\ DOMAIN Markers = {1, 2, 3}
      /\ \A m \in {1, 2, 3} : Markers[m] \in T
  BY <1>1
<1>3. \A m \in {1, 2, 3} : Markers[m] \in MarkerTexts /\ Markers[m] # Word
  BY <1>1, <1>2 DEF MarkerTexts
<1>4. ASSUME NEW i \in {1, 2, 3}, NEW j \in {1, 2, 3}, i # j
      PROVE  /\ <<Markers[i], Markers[j]>> \in Seq(T)
             /\ DOMAIN <<Markers[i], Markers[j]>> = {1, 2}
             /\ MarkerList(<<Markers[i], Markers[j]>>)
             /\ <<Markers[i], Markers[j]>>[1] = Markers[i]
             /\ <<Markers[i], Markers[j]>>[2] = Markers[j]
  <2> DEFINE a == Markers[i]
             c == Markers[j]
  <2>1. a \in T /\ c \in T /\ ~IsPrefix(a, c) /\ ~IsPrefix(c, a)
    BY <1>1, <1>2, <1>4
  <2> HIDE DEF a, c
  <2>2. <<a, c>> \in Seq(T) /\ DOMAIN <<a, c>> = {1, 2}
        /\ <<a, c>>[1] = a /\ <<a, c>>[2] = c
    BY <2>1
  <2>3. \A k, l \in DOMAIN <<a, c>> : k # l => ~IsPrefix(<<a, c>>[k], <<a, c>>[l])
    BY <2>1, <2>2
  <2>4. MarkerList(<<a, c>>)
    BY <2>2, <2>3 DEF MarkerList, T
  <2> QED
    BY <2>2, <2>4 DEF a, c
<1>5. CASE b = "setup"
  <2>1. MarkersOf(b) = <<Markers[1], Markers[2]>>
    BY <1>5 DEF MarkersOf, providerMarker, modelMarker
  <2> QED
    BY <1>2, <1>3, <1>4, <2>1
<1>6. CASE b = "sandbox"
  <2>1. MarkersOf(b) = <<Markers[3], Markers[2]>>
    BY <1>6 DEF MarkersOf, sandboxMarker, modelMarker
  <2> QED
    BY <1>2, <1>3, <1>4, <2>1
<1>7. CASE b = "script"
  <2>1. MarkersOf(b) = <<>>
    BY <1>7 DEF MarkersOf
  <2>2. <<>> \in Seq(Seq(Safe) \ {<<>>}) /\ DOMAIN <<>> = {}
    OBVIOUS
  <2> QED
    BY <2>1, <2>2 DEF MarkerList
<1> QED
  BY <1>5, <1>6, <1>7 DEF Blocks

LEMMA ValuesAssign ==
  ASSUME NEW b \in Blocks, NEW v \in [MarkerTexts -> Seq(Safe)]
  PROVE  Assigns(MarkersOf(b), v)
  BY MarkersOfFacts DEF Assigns

LEMMA WordShows ==
  ASSUME NEW b \in Blocks, NEW v \in [MarkerTexts -> Seq(Safe)]
  PROVE  ShowsAs(Word, MarkersOf(b), v, Word)
<1>1. Word \in Lines
  BY CharacterFacts DEF Lines
<1>2. Unmarked(Word, MarkersOf(b))
  BY MarkersOfFacts, WordIsUnmarked
<1> QED
  BY <1>1, <1>2, MarkersOfFacts, ValuesAssign, UnmarkedShows

\* Every slot of a block has its marker.
LEMMA SlotShows ==
  ASSUME NEW b \in Blocks, NEW v \in [MarkerTexts -> Seq(Safe)],
         NEW k \in DOMAIN MarkersOf(b)
  PROVE  ShowsAs(MarkersOf(b)[k], MarkersOf(b), v, v[MarkersOf(b)[k]])
  BY MarkersOfFacts, ValuesAssign, MarkerShows

LEMMA SandboxShows ==
  ASSUME NEW v \in [MarkerTexts -> Seq(Safe)]
  PROVE  ShowsAs(buildSandboxCreateCommand(sandboxMarker, modelMarker),
               MarkersOf("sandbox"), v,
               buildSandboxCreateCommand(v[sandboxMarker], v[modelMarker]))
<1> DEFINE ms == MarkersOf("sandbox")
           S(a, x) == ShowsAs(a, ms, v, x)
           n == sandboxMarker
           m == modelMarker
<1>1. /\ ms = <<n, m>> /\ 1 \in DOMAIN ms /\ 2 \in DOMAIN ms
      /\ ms[1] = n /\ ms[2] = m
  BY DEF MarkersOf
<1>2. \A a, x, c, y : S(a, x) /\ S(c, y) => S(a ++ c, x ++ y)
  BY MarkersOfFacts, ValuesAssign, TogetherShow DEF Blocks
<1>3. S(Word, Word)
  BY WordShows DEF Blocks
<1>4. S(n, v[n]) /\ S(m, v[m])
  <2>1. "sandbox" \in Blocks
    BY DEF Blocks
  <2> QED
    BY <1>1, <2>1, SlotShows, Zenon
<1> HIDE DEF S, ms, n, m
<1>5. S(Word ++ Word ++ n ++ Word ++ Word ++ m,
        Word ++ Word ++ v[n] ++ Word ++ Word ++ v[m])
  BY <1>2, <1>3, <1>4, Zenon
<1> QED
  BY <1>5 DEF S, ms, n, m, buildSandboxCreateCommand

LEMMA SetupShows ==
  ASSUME NEW v \in [MarkerTexts -> Seq(Safe)], NEW r,
         buildGatewayAddCommand(r) # Undefined,
         buildGatewayAddCommand(r) \in Lines,
         Unmarked(buildGatewayAddCommand(r), Markers)
  PROVE  ShowsAs(buildSetupScript(r, providerMarker, modelMarker),
               MarkersOf("setup"), v,
               buildSetupScript(r, v[providerMarker], v[modelMarker]))
<1> DEFINE ms == MarkersOf("setup")
           S(a, x) == ShowsAs(a, ms, v, x)
           add == buildGatewayAddCommand(r)
           n == providerMarker
           m == modelMarker
<1>1. /\ ms = <<n, m>> /\ 1 \in DOMAIN ms /\ 2 \in DOMAIN ms
      /\ ms[1] = n /\ ms[2] = m
  BY DEF MarkersOf
<1>2. \A a, x, c, y : S(a, x) /\ S(c, y) => S(a ++ c, x ++ y)
  BY MarkersOfFacts, ValuesAssign, TogetherShow DEF Blocks
<1>3. S(Word, Word)
  BY WordShows DEF Blocks
<1>4. S(n, v[n]) /\ S(m, v[m])
  <2>1. "setup" \in Blocks
    BY DEF Blocks
  <2> QED
    BY <1>1, <2>1, SlotShows, Zenon
<1>5. S(add, add)
  <2>1. "setup" \in Blocks
    BY DEF Blocks
  <2>2. Unmarked(add, ms)
    BY <2>1, MarkersOfFacts DEF Unmarked
  <2> QED
    BY <2>1, <2>2, MarkersOfFacts, ValuesAssign, UnmarkedShows
<1>6. \A p, q : buildSetupScript(r, p, q)
                  = add ++ (Word ++ Word ++ p ++ Word)
                    ++ (Word ++ Word ++ p ++ Word ++ q)
  BY Zenon DEF buildSetupScript, buildProviderCreateCommand, buildInferenceSetCommand
<1> HIDE DEF S, ms, n, m, add
<1>7. S(Word ++ Word ++ n ++ Word, Word ++ Word ++ v[n] ++ Word)
  BY <1>2, <1>3, <1>4, Zenon
<1>8. S(Word ++ Word ++ n ++ Word ++ m, Word ++ Word ++ v[n] ++ Word ++ v[m])
  BY <1>2, <1>4, <1>7, Zenon
<1>9. S(add ++ (Word ++ Word ++ n ++ Word) ++ (Word ++ Word ++ n ++ Word ++ m),
        add ++ (Word ++ Word ++ v[n] ++ Word)
          ++ (Word ++ Word ++ v[n] ++ Word ++ v[m]))
  BY <1>2, <1>5, <1>7, <1>8, Zenon
<1>10. S(buildSetupScript(r, n, m), buildSetupScript(r, v[n], v[m]))
  BY <1>6, <1>9, Zenon
<1> QED
  BY <1>10 DEF S, ms, n, m

\* Every command is a line.
LEMMA TogetherIsLine == \A a, b \in Lines : a ++ b \in Lines
<1>1. <<Space>> \in Lines
  BY CharacterFacts DEF Lines
<1> QED
  BY <1>1, LineFacts DEF ++

LEMMA CommandIsLine ==
  ASSUME NEW r \in Records, NEW b \in Blocks, NEW v \in [MarkerTexts -> Seq(Safe)],
         Command(b, v, r) # Undefined
  PROVE  Command(b, v, r) \in Lines
<1> DEFINE A(n) == shellArgument(ValueOf(r, n))
           add == buildGatewayAddCommand(r)
           p == v[providerMarker]
           m == v[modelMarker]
           s == v[sandboxMarker]
<1>1. /\ Word \in Lines /\ p \in Lines /\ m \in Lines /\ s \in Lines
  BY MarkersAreTexts, CharacterFacts DEF Lines
<1>2. \A n : ValueOf(r, n) \in Lines
  <2>1. r.text \in Lines /\ <<>> \in Lines
    BY BlocksAssumption DEF Lines, Chars
  <2> QED
    BY <2>1 DEF ValueOf
<1>3. \A x \in Lines : shellArgument(x) \in Lines
  BY ArgumentReads DEF Reads
<1>4. \A n : A(n) \in Lines
  BY <1>2, <1>3
<1>5. \A x, y \in Lines : x ++ y \in Lines
  BY TogetherIsLine
<1> HIDE DEF A
<1>6. ASSUME add # Undefined PROVE add \in Lines
  <2> DEFINE named == Word ++ Word ++ A("gateway")
             oidc == Word ++ A("issuer") ++ Word ++ A("client") ++ Word ++ A("audience")
  <2>1. add = (IF HasOidc(r) THEN named ++ oidc ELSE named) ++ A("endpoint")
    BY <1>6, Zenon DEF buildGatewayAddCommand, A
  <2>2. named \in Lines /\ oidc \in Lines
    BY <1>1, <1>4, <1>5, Zenon
  <2> HIDE DEF add, named, oidc
  <2>3. (IF HasOidc(r) THEN named ++ oidc ELSE named) \in Lines
    BY <1>5, <2>2
  <2> HIDE DEF HasOidc
  <2> QED
    BY <1>4, <1>5, <2>1, <2>3, Zenon
<1> HIDE DEF p, m, s
<1>7. CASE b = "setup"
  <2>1. Command(b, v, r) = buildSetupScript(r, p, m)
    BY <1>7 DEF Command, p, m
  <2>2. add # Undefined
    BY <2>1, Zenon DEF buildSetupScript, add
  <2>3. add \in Lines
    BY <1>6, <2>2
  <2>4. buildSetupScript(r, p, m)
          = add ++ (Word ++ Word ++ p ++ Word) ++ (Word ++ Word ++ p ++ Word ++ m)
    BY <2>2, Zenon DEF buildSetupScript, buildProviderCreateCommand,
                       buildInferenceSetCommand, add
  <2> HIDE DEF add
  <2>5. /\ Word ++ Word ++ p ++ Word \in Lines
        /\ Word ++ Word ++ p ++ Word ++ m \in Lines
    BY <1>1, <1>5, Zenon
  <2> QED
    BY <1>5, <2>1, <2>3, <2>4, <2>5, Zenon
<1>8. CASE b = "sandbox"
  <2>1. Command(b, v, r) = Word ++ Word ++ s ++ Word ++ Word ++ m
    BY <1>8 DEF Command, buildSandboxCreateCommand, s, m
  <2>2. Word ++ Word ++ s \in Lines
    BY <1>1, <1>5, Zenon
  <2>3. Word ++ Word ++ s ++ Word ++ Word ++ m \in Lines
    BY <1>1, <1>5, <2>2, Zenon
  <2> QED
    BY <2>1, <2>3
<1>9. CASE b = "script"
  <2>1. Command(b, v, r) = buildOpenShellServiceAccountScript(Word, r)
    BY <1>9 DEF Command
  <2> DEFINE alias == shellArgument(serviceAccountGatewayAlias(ValueOf(r, "gateway"), Word))
  <2>2. buildOpenShellServiceAccountScript(Word, r)
          = Word ++ Word ++ alias ++ Word ++ A("issuer") ++ Word ++ A("client")
            ++ Word ++ A("audience") ++ A("endpoint") ++ Word ++ alias ++ Word
    BY <2>1, Zenon DEF buildOpenShellServiceAccountScript, A
  <2>3. alias \in Lines
    <3>1. serviceAccountGatewayAlias(ValueOf(r, "gateway"), Word) \in Lines
      BY <1>1, <1>2, LineFacts DEF serviceAccountGatewayAlias
    <3> QED
      BY <1>3, <3>1
  <2> HIDE DEF alias
  <2>4. Word ++ Word ++ alias ++ Word ++ A("issuer") \in Lines
    BY <1>1, <1>4, <1>5, <2>3, Zenon
  <2>5. Word ++ Word ++ alias ++ Word ++ A("issuer") ++ Word ++ A("client")
          ++ Word ++ A("audience") \in Lines
    BY <1>1, <1>4, <1>5, <2>4, Zenon
  <2>6. Word ++ Word ++ alias ++ Word ++ A("issuer") ++ Word ++ A("client")
          ++ Word ++ A("audience") ++ A("endpoint") ++ Word ++ alias ++ Word \in Lines
    BY <1>1, <1>4, <1>5, <2>3, <2>5, Zenon
  <2> QED
    BY <2>1, <2>2, <2>6
<1> QED
  BY <1>7, <1>8, <1>9 DEF Blocks

\* The parts of a command, with the values in its slots, show the command of
\* these values.
LEMMA CommandShows ==
  ASSUME TextsInv, NEW b \in Blocks, NEW T,
         T = Command(b, [m \in MarkerTexts |-> m], record), T # Undefined,
         b = "setup" => Unmarked(buildGatewayAddCommand(record), Markers)
  PROVE  ShownLine(T, MarkersOf(b), values) = Command(b, values, record)
<1> DEFINE id == [m \in MarkerTexts |-> m]
<1>1. /\ id[providerMarker] = providerMarker /\ id[modelMarker] = modelMarker
      /\ id[sandboxMarker] = sandboxMarker
  BY MarkersAreTexts
<1>2. values \in [MarkerTexts -> Seq(Safe)]
  BY DEF TextsInv
<1> HIDE DEF id
<1>3. CASE b = "setup"
  <2>1. T = buildSetupScript(record, providerMarker, modelMarker)
    BY <1>1, <1>3 DEF Command, id
  <2>2. buildGatewayAddCommand(record) # Undefined
    BY <2>1, Zenon DEF buildSetupScript
  <2>3. buildGatewayAddCommand(record) \in Lines
    BY <2>2, AddReads DEF Reads
  <2>4. Command(b, values, record)
          = buildSetupScript(record, values[providerMarker], values[modelMarker])
    BY <1>3 DEF Command
  <2> QED
    BY <1>2, <1>3, <2>1, <2>2, <2>3, <2>4, SetupShows DEF ShowsAs
<1>4. CASE b = "sandbox"
  <2>1. T = buildSandboxCreateCommand(sandboxMarker, modelMarker)
    BY <1>1, <1>4 DEF Command, id
  <2>2. Command(b, values, record)
          = buildSandboxCreateCommand(values[sandboxMarker], values[modelMarker])
    BY <1>4 DEF Command
  <2> QED
    BY <1>2, <1>4, <2>1, <2>2, SandboxShows DEF ShowsAs
<1>5. CASE b = "script"
  <2>1. /\ T = buildOpenShellServiceAccountScript(Word, record)
        /\ Command(b, values, record) = T
    BY <1>5 DEF Command, id
  <2>2. T \in Lines
    BY <1>2, <1>5, <2>1, CommandIsLine DEF TextsInv
  <2>3. Unmarked(T, MarkersOf(b))
    BY <1>5 DEF MarkersOf, Unmarked
  <2>4. ShowsAs(T, MarkersOf(b), values, T)
    BY <1>2, <2>2, <2>3, MarkersOfFacts, ValuesAssign, UnmarkedShows
  <2> QED
    BY <2>1, <2>4 DEF ShowsAs
<1> QED
  BY <1>3, <1>4, <1>5 DEF Blocks

LEMMA TemplateIsLine ==
  ASSUME NEW r \in Records, NEW b \in Blocks, TemplateOf(b, r) # Undefined
  PROVE  TemplateOf(b, r) \in Lines
<1> DEFINE id == [m \in MarkerTexts |-> m]
<1>1. TemplateOf(b, r) = Command(b, id, r)
  BY Zenon DEF TemplateOf
<1>2. id \in [MarkerTexts -> Seq(Safe)]
  <2>1. Markers \in Seq(Seq(Safe) \ {<<>>})
    BY CommandsAssumption
  <2>2. \A k \in DOMAIN Markers : Markers[k] \in Seq(Safe)
    BY <2>1
  <2>3. MarkerTexts \subseteq Seq(Safe)
    BY <2>2 DEF MarkerTexts
  <2> QED
    BY <2>3
<1> HIDE DEF id
<1> QED
  BY <1>1, <1>2, CommandIsLine

LEMMA HighlightType ==
  ASSUME NEW ms, MarkerList(ms), NEW l \in Lines
  PROVE  highlightTemplate(l, ms) \in Seq(PartsOf(ms))
  BY TokensFacts, PartsOfTokensFacts, HighlightIsParts

-----------------------------------------------------------------------------
(* The invariant of the blocks: what is shown are parts of a command, and a  *)
(* slot has the value of its marker unless the focus kept it from that.      *)

IsHighlight(b, p) == \E t \in Lines : p = Highlighted(b, t)

BlockParts ==
  /\ template = [b \in Blocks |-> TemplateOf(b, record)]
  /\ DOMAIN parts = Blocks /\ DOMAIN jobs = Blocks
  /\ \A b \in Blocks : /\ parts[b] = None \/ IsHighlight(b, parts[b])
                       /\ \A job \in jobs[b] : IsHighlight(b, job)

SlotsFit ==
  /\ DOMAIN dom = Blocks
  /\ \A b \in Blocks : DOMAIN dom[b] = FieldsOf(parts[b])
  /\ active \in Slots \cup {NoSlot} /\ shifted \subseteq Slots

SlotsHold ==
  \A b \in Blocks : \A i \in DOMAIN dom[b] :
    <<b, i>> \notin shifted => dom[b][i] = values[MarkerAt(b, i)]

CopyInv == TextsInv /\ BlockParts /\ SlotsFit /\ SlotsHold

LEMMA HighlightFacts ==
  ASSUME NEW b \in Blocks, NEW p, IsHighlight(b, p)
  PROVE  \A i \in FieldsOf(p) : p.list[i].value \in MarkerTexts
<1> DEFINE ms == MarkersOf(b)
<1>1. PICK t \in Lines : p = Highlighted(b, t)
  BY DEF IsHighlight
<1>2. p.list = highlightTemplate(t, ms)
  BY <1>1 DEF Highlighted
<1>3. MarkerList(ms) /\ \A k \in DOMAIN ms : ms[k] \in MarkerTexts
  BY MarkersOfFacts
<1>4. p.list \in Seq(PartsOf(ms))
  BY <1>2, <1>3, HighlightType
<1> HIDE DEF ms
<1>5. \A i \in DOMAIN p.list : p.list[i] \in PartsOf(ms)
  BY <1>4
<1>6. \A q \in PartsOf(ms) : q.kind = "field" => q.value \in MarkerTexts
  BY <1>3 DEF PartsOf, TextPart, FieldPart
<1> QED
  BY <1>5, <1>6 DEF FieldsOf

LEMMA NoneFacts == FieldsOf(None) = {} /\ None.list = <<>> /\ DOMAIN <<>> = {}
  BY DEF FieldsOf, None

LEMMA SlotMarkers ==
  ASSUME BlockParts, NEW b \in Blocks, NEW i \in FieldsOf(parts[b])
  PROVE  MarkerAt(b, i) \in MarkerTexts
  BY HighlightFacts, NoneFacts DEF BlockParts, MarkerAt

\* The slots of a block that is shown, and no others.
LEMMA SlotFacts ==
  ASSUME SlotsFit
  PROVE  /\ \A s \in Slots : /\ s[1] \in Editable /\ s[1] \in Blocks
                             /\ s[2] \in DOMAIN dom[s[1]] /\ s = <<s[1], s[2]>>
         /\ \A b \in Editable : \A i \in DOMAIN dom[b] : <<b, i>> \in Slots
         /\ \A b \in Blocks : b # NoSlot[1]
<1>1. Editable \subseteq Blocks
  BY DEF Editable, Blocks
<1>2. \A s \in Slots : /\ s[1] \in Editable /\ s[2] \in DOMAIN dom[s[1]]
                       /\ s = <<s[1], s[2]>>
  BY DEF Slots
<1>3. \A b \in Editable : \A i \in DOMAIN dom[b] : <<b, i>> \in Slots
  BY DEF Slots
<1>4. \A b \in Blocks : b # NoSlot[1]
  BY DEF Blocks, NoSlot
<1> QED
  BY <1>1, <1>2, <1>3, <1>4

LEMMA CopyStart == ASSUME BlocksInit PROVE CopyInv
<1>1. TextsInv
  BY TextsStart
<1>2. BlockParts
  <2>1. /\ template = [b \in Blocks |-> TemplateOf(b, record)]
        /\ parts = [b \in Blocks |-> None]
        /\ jobs = [b \in Blocks |->
                     IF Mounted(b) THEN {Highlighted(b, template[b])} ELSE {}]
    BY DEF BlocksInit
  <2>2. ASSUME NEW b \in Blocks, NEW job \in jobs[b]
        PROVE  IsHighlight(b, job)
    <3>1. Mounted(b) /\ job = Highlighted(b, template[b])
      BY <2>1, <2>2
    <3>2. template[b] \in Lines
      BY <1>1, <2>1, <3>1, TemplateIsLine DEF Mounted, TextsInv
    <3> QED
      BY <3>1, <3>2 DEF IsHighlight
  <2> QED
    BY <2>1, <2>2 DEF BlockParts
<1>3. /\ dom = [b \in Blocks |-> <<>>] /\ parts = [b \in Blocks |-> None]
      /\ active = NoSlot /\ shifted = {}
  BY DEF BlocksInit
<1>4. SlotsFit
  BY <1>3, NoneFacts DEF SlotsFit
<1>5. SlotsHold
  BY <1>3, NoneFacts DEF SlotsHold
<1> QED
  BY <1>1, <1>2, <1>4, <1>5 DEF CopyInv

\* A step that leaves the slots and the parts alone.
LEMMA CopyKept ==
  ASSUME CopyInv, TextsInv',
         UNCHANGED <<view, record, template, parts, jobs, values, dom, shifted>>,
         active' \in Slots \cup {NoSlot}
  PROVE  CopyInv'
<1>1. /\ view' = view /\ record' = record /\ template' = template /\ parts' = parts
      /\ jobs' = jobs /\ values' = values /\ dom' = dom /\ shifted' = shifted
  OBVIOUS
<1>2. BlockParts'
  <2>1. \A b \in Blocks : TemplateOf(b, record)' = TemplateOf(b, record)
    BY <1>1 DEF TemplateOf, InView
  <2>2. BlockParts
    BY DEF CopyInv
  <2>3. template' = [b \in Blocks |-> TemplateOf(b, record)']
    BY <1>1, <2>1, <2>2 DEF BlockParts
  <2> QED
    BY <1>1, <2>2, <2>3 DEF BlockParts
<1>3. SlotsFit' /\ SlotsHold'
  BY <1>1 DEF CopyInv, SlotsFit, SlotsHold, Slots, MarkerAt
<1> QED
  BY <1>2, <1>3 DEF CopyInv

LEMMA HighlightDoneCopies ==
  ASSUME CopyInv, TextsInv', NEW b \in Blocks, HighlightDone(b)
  PROVE  CopyInv'
<1>1. PICK job \in jobs[b] :
        /\ jobs' = [jobs EXCEPT ![b] = @ \ {job}]
        /\ IF TakesJob(b, job)
           THEN /\ parts' = [parts EXCEPT ![b] = job]
                /\ dom' = [dom EXCEPT ![b] =
                     [i \in FieldsOf(job) |->
                        IF KeepsText(b, i, job) THEN dom[b][i] ELSE NextValue(job, i)]]
                /\ active' = IF active[1] = b /\ active[2] \notin FieldsOf(job)
                             THEN NoSlot ELSE active
                /\ shifted' =
                     {s \in shifted : s[1] = b => s[2] \in FieldsOf(job)
                                                  /\ KeepsText(b, s[2], job)}
                     \cup {s \in {active} \cap ({b} \X FieldsOf(job)) :
                             ~SameValue(b, s[2], job)}
           ELSE UNCHANGED <<parts, dom, active, shifted>>
  BY DEF HighlightDone
<1>2. view' = view /\ record' = record /\ template' = template /\ values' = values
  BY DEF HighlightDone
<1>3. /\ TextsInv /\ BlockParts /\ SlotsFit /\ SlotsHold
      /\ DOMAIN parts = Blocks /\ DOMAIN jobs = Blocks /\ DOMAIN dom = Blocks
      /\ IsHighlight(b, job)
  BY DEF CopyInv, BlockParts, SlotsFit
<1>4. \A c \in Blocks : TemplateOf(c, record)' = TemplateOf(c, record)
  BY <1>2 DEF TemplateOf, InView
<1>5. template' = [c \in Blocks |-> TemplateOf(c, record)']
  BY <1>2, <1>3, <1>4 DEF BlockParts
<1>6. DOMAIN jobs' = Blocks /\ \A c \in Blocks : jobs'[c] \subseteq jobs[c]
  BY <1>1, <1>3
<1>7. CASE ~TakesJob(b, job)
  <2>1. parts' = parts /\ dom' = dom /\ active' = active /\ shifted' = shifted
    BY <1>1, <1>7
  <2>2. BlockParts'
    BY <1>3, <1>5, <1>6, <2>1 DEF BlockParts
  <2>3. SlotsFit' /\ SlotsHold'
    BY <1>2, <1>3, <2>1 DEF SlotsFit, SlotsHold, Slots, MarkerAt
  <2> QED
    BY <2>2, <2>3 DEF CopyInv
<1>8. CASE TakesJob(b, job)
  <2> DEFINE F == FieldsOf(job)
             text(i) == IF KeepsText(b, i, job) THEN dom[b][i] ELSE NextValue(job, i)
  <2>1. /\ parts' = [parts EXCEPT ![b] = job]
        /\ dom' = [dom EXCEPT ![b] = [i \in F |-> text(i)]]
        /\ active' = IF active[1] = b /\ active[2] \notin F THEN NoSlot ELSE active
        /\ shifted' = {s \in shifted : s[1] = b => s[2] \in F /\ KeepsText(b, s[2], job)}
                      \cup {s \in {active} \cap ({b} \X F) : ~SameValue(b, s[2], job)}
    BY <1>1, <1>8
  <2>2. BlockParts'
    BY <1>3, <1>5, <1>6, <2>1 DEF BlockParts
  <2>3. /\ parts'[b] = job /\ dom'[b] = [i \in F |-> text(i)] /\ DOMAIN dom' = Blocks
        /\ \A c \in Blocks : c # b => parts'[c] = parts[c] /\ dom'[c] = dom[c]
    BY <1>3, <2>1
  <2>4. DOMAIN dom'[b] = F /\ \A i \in F : dom'[b][i] = text(i)
    BY <2>3
  <2> HIDE DEF text
  <2>5. \A c \in Blocks : DOMAIN dom'[c] = FieldsOf(parts[c])'
    <3>1. \A c \in Blocks : FieldsOf(parts[c])' = FieldsOf(parts'[c])
      BY DEF FieldsOf
    <3> QED
      BY <1>3, <2>3, <2>4, <3>1 DEF SlotsFit
  <2>6. \A s \in Slots : (s[1] = b => s[2] \in F) => s \in Slots'
    <3>1. ASSUME NEW s \in Slots, s[1] = b => s[2] \in F
          PROVE  s[1] \in Editable /\ s[2] \in DOMAIN dom'[s[1]] /\ s = <<s[1], s[2]>>
      BY <1>3, <2>3, <2>4, <3>1, SlotFacts
    <3> QED
      BY <3>1 DEF Slots
  <2>7. active' \in Slots' \cup {NoSlot}
    BY <1>3, <2>1, <2>6 DEF SlotsFit
  <2>8. shifted' \subseteq Slots'
    <3>1. ASSUME NEW s \in shifted' PROVE s \in Slots /\ (s[1] = b => s[2] \in F)
      <4>1. CASE s \in shifted /\ (s[1] = b => s[2] \in F)
        BY <1>3, <4>1 DEF SlotsFit
      <4>2. CASE s = active /\ s \in {b} \X F
        <5>1. s[1] = b /\ s[2] \in F
          BY <4>2
        <5>2. s # NoSlot
          BY <1>3, <5>1, SlotFacts
        <5> QED
          BY <1>3, <4>2, <5>1, <5>2 DEF SlotsFit
      <4> QED
        BY <2>1, <3>1, <4>1, <4>2
    <3> QED
      BY <2>6, <3>1
  <2>9. SlotsFit'
    BY <2>3, <2>5, <2>7, <2>8 DEF SlotsFit
  <2>10. ASSUME NEW c \in Blocks, NEW i \in DOMAIN dom'[c], <<c, i>> \notin shifted'
         PROVE  dom'[c][i] = values'[MarkerAt(c, i)']
    <3>1. CASE c # b
      <4>1. <<c, i>> \notin shifted
        BY <2>1, <2>10, <3>1
      <4>2. dom[c][i] = values[MarkerAt(c, i)] /\ i \in DOMAIN dom[c]
        BY <1>3, <2>3, <2>10, <3>1, <4>1 DEF SlotsHold
      <4> QED
        BY <1>2, <2>3, <3>1, <4>2 DEF MarkerAt
    <3>2. CASE c = b
      <4>1. i \in F /\ dom'[c][i] = text(i)
        BY <2>4, <2>10, <3>2
      <4>2. MarkerAt(c, i)' = job.list[i].value
        BY <2>3, <3>2 DEF MarkerAt
      <4>3. values'[MarkerAt(c, i)'] = NextValue(job, i)
        BY <1>2, <4>2 DEF NextValue
      <4>4. CASE ~KeepsText(b, i, job)
        BY <4>1, <4>3, <4>4 DEF text
      <4>5. CASE KeepsText(b, i, job)
        <5>1. <<b, i>> \notin shifted
          BY <2>1, <2>10, <3>2, <4>1, <4>5
        <5>2. SameValue(b, i, job)
          <6>1. CASE <<b, i>> = active
            <7>1. <<b, i>> \in {active} \cap ({b} \X F)
              BY <4>1, <6>1
            <7> QED
              BY <2>1, <2>10, <3>2, <7>1
          <6>2. CASE <<b, i>> # active
            BY <4>5, <6>2 DEF KeepsText
          <6> QED
            BY <6>1, <6>2
        <5>3. i \in DOMAIN dom[b] /\ text(i) = dom[b][i]
          BY <4>5 DEF KeepsText, text
        <5>4. dom[b][i] = values[MarkerAt(b, i)]
          BY <1>3, <5>1, <5>3 DEF SlotsHold
        <5> QED
          BY <4>1, <4>3, <5>2, <5>3, <5>4 DEF SameValue
      <4> QED
        BY <4>4, <4>5
    <3> QED
      BY <3>1, <3>2
  <2>11. SlotsHold'
    BY <2>10 DEF SlotsHold
  <2> QED
    BY <2>2, <2>9, <2>11 DEF CopyInv
<1> QED
  BY <1>7, <1>8

LEMMA RecordChangesCopies ==
  ASSUME CopyInv, TextsInv', NEW r \in Records, RecordChanges(r)
  PROVE  CopyInv'
<1> DEFINE Gone(b) == b \in Editable /\ template'[b] = Undefined
<1>1. /\ record' = r /\ view' = view /\ values' = values
      /\ template' = [b \in Blocks |-> TemplateOf(b, r)]
      /\ jobs' = [b \in Blocks |->
             IF template'[b] \notin {Undefined, template[b]}
             THEN jobs[b] \cup {Highlighted(b, template'[b])} ELSE jobs[b]]
      /\ parts' = [b \in Blocks |-> IF Gone(b) THEN None ELSE parts[b]]
      /\ dom' = [b \in Blocks |-> IF Gone(b) THEN <<>> ELSE dom[b]]
      /\ active' = IF active # NoSlot /\ Gone(active[1]) THEN NoSlot ELSE active
      /\ shifted' = {s \in shifted : ~Gone(s[1])}
  BY DEF RecordChanges
<1>2. TextsInv /\ BlockParts /\ SlotsFit /\ SlotsHold
  BY DEF CopyInv
<1>3. \A b \in Blocks : TemplateOf(b, record)' = TemplateOf(b, r)
  BY <1>1 DEF TemplateOf, InView
<1>4. template' = [b \in Blocks |-> TemplateOf(b, record)']
  BY <1>1, <1>3
<1>5. ASSUME NEW b \in Blocks, NEW job \in jobs'[b]
      PROVE  IsHighlight(b, job)
  <2>1. CASE job \in jobs[b]
    BY <1>2, <2>1 DEF BlockParts
  <2>2. CASE job \notin jobs[b]
    <3>1. job = Highlighted(b, template'[b]) /\ template'[b] # Undefined
      BY <1>1, <1>5, <2>2
    <3>2. template'[b] \in Lines
      BY <1>1, <3>1, TemplateIsLine
    <3> QED
      BY <3>1, <3>2 DEF IsHighlight
  <2> QED
    BY <2>1, <2>2
<1> HIDE DEF Gone
<1>6. BlockParts'
  <2>1. \A b \in Blocks : parts'[b] = None \/ IsHighlight(b, parts'[b])
    BY <1>1, <1>2 DEF BlockParts
  <2>2. DOMAIN parts' = Blocks /\ DOMAIN jobs' = Blocks
    BY <1>1
  <2> QED
    BY <1>4, <1>5, <2>1, <2>2 DEF BlockParts
<1>7. /\ DOMAIN dom' = Blocks
      /\ \A b \in Blocks : /\ Gone(b) => parts'[b] = None /\ dom'[b] = <<>>
                           /\ ~Gone(b) => parts'[b] = parts[b] /\ dom'[b] = dom[b]
  BY <1>1
<1>8. SlotsFit'
  <2>1. \A b \in Blocks : DOMAIN dom'[b] = FieldsOf(parts[b])'
    <3>1. \A b \in Blocks : FieldsOf(parts[b])' = FieldsOf(parts'[b])
      BY DEF FieldsOf
    <3> QED
      BY <1>2, <1>7, <3>1, NoneFacts DEF SlotsFit
  <2>2. \A s \in Slots : ~Gone(s[1]) => s \in Slots'
    <3>1. ASSUME NEW s \in Slots, ~Gone(s[1])
          PROVE  s[1] \in Editable /\ s[2] \in DOMAIN dom'[s[1]] /\ s = <<s[1], s[2]>>
      BY <1>2, <1>7, <3>1, SlotFacts
    <3> QED
      BY <3>1 DEF Slots
  <2>3. active' \in Slots' \cup {NoSlot}
    BY <1>1, <1>2, <2>2 DEF SlotsFit
  <2>4. shifted' \subseteq Slots'
    BY <1>1, <1>2, <2>2 DEF SlotsFit
  <2> QED
    BY <1>7, <2>1, <2>3, <2>4 DEF SlotsFit
<1>9. SlotsHold'
  <2>1. ASSUME NEW b \in Blocks, NEW i \in DOMAIN dom'[b], <<b, i>> \notin shifted'
        PROVE  dom'[b][i] = values'[MarkerAt(b, i)']
    <3>1. ~Gone(b)
      BY <1>7, <2>1, NoneFacts
    <3>2. <<b, i>> \notin shifted
      BY <1>1, <2>1, <3>1
    <3>3. dom[b][i] = values[MarkerAt(b, i)] /\ parts'[b] = parts[b] /\ dom'[b] = dom[b]
      BY <1>2, <1>7, <2>1, <3>1, <3>2 DEF SlotsHold
    <3> QED
      BY <1>1, <3>3 DEF MarkerAt
  <2> QED
    BY <2>1 DEF SlotsHold
<1> QED
  BY <1>6, <1>8, <1>9 DEF CopyInv

LEMMA InputCopies ==
  ASSUME CopyInv, TextsInv', NEW raw \in Pasted, Input(raw)
  PROVE  CopyInv'
<1> DEFINE marker == MarkerAt(active[1], active[2])
           clean == sanitizeFieldValue(raw)
           text(b, i) == CASE <<b, i>> = active -> Written(raw)
                           [] <<b, i>> # active /\ Mirrors(b, i, marker, clean) -> clean
                           [] OTHER -> dom[b][i]
<1>1. /\ active # NoSlot /\ values' = [values EXCEPT ![marker] = clean]
      /\ dom' = [b \in Blocks |-> [i \in DOMAIN dom[b] |-> text(b, i)]]
      /\ shifted' = {s \in shifted \ {active} : ~Mirrors(s[1], s[2], marker, clean)}
      /\ view' = view /\ record' = record /\ template' = template /\ parts' = parts
      /\ jobs' = jobs /\ active' = active
  BY DEF Input
<1>2. TextsInv /\ BlockParts /\ SlotsFit /\ SlotsHold
  BY DEF CopyInv
<1>3. BlockParts'
  <2>1. \A b \in Blocks : TemplateOf(b, record)' = TemplateOf(b, record)
    BY <1>1 DEF TemplateOf, InView
  <2>2. template' = [b \in Blocks |-> TemplateOf(b, record)']
    BY <1>1, <1>2, <2>1 DEF BlockParts
  <2> QED
    BY <1>1, <1>2, <2>2 DEF BlockParts
<1> HIDE DEF text
<1>4. /\ DOMAIN dom' = Blocks
      /\ \A b \in Blocks : /\ DOMAIN dom'[b] = DOMAIN dom[b]
                           /\ \A i \in DOMAIN dom[b] : dom'[b][i] = text(b, i)
  BY <1>1
<1>5. Slots' = Slots
  <2>1. \A b \in Editable : DOMAIN dom'[b] = DOMAIN dom[b]
    BY <1>4 DEF Editable, Blocks
  <2> QED
    BY <2>1 DEF Slots
<1>6. SlotsFit'
  <2>1. shifted' \subseteq Slots'
    BY <1>1, <1>2, <1>5 DEF SlotsFit
  <2>2. \A b \in Blocks : FieldsOf(parts[b])' = FieldsOf(parts[b])
    BY <1>1 DEF FieldsOf
  <2>3. active' \in Slots' \cup {NoSlot}
    BY <1>1, <1>2, <1>5 DEF SlotsFit
  <2> QED
    BY <1>2, <1>4, <2>1, <2>2, <2>3 DEF SlotsFit
<1>7. marker \in MarkerTexts
  <2>1. active \in Slots
    BY <1>1, <1>2 DEF SlotsFit
  <2>2. active[1] \in Blocks /\ active[2] \in FieldsOf(parts[active[1]])
    BY <1>2, <2>1, SlotFacts DEF SlotsFit
  <2> QED
    BY <1>2, <2>2, SlotMarkers
<1>8. /\ values'[marker] = clean
      /\ \A m \in MarkerTexts : m # marker => values'[m] = values[m]
  BY <1>1, <1>2, <1>7 DEF TextsInv
<1>9. ASSUME NEW b \in Blocks, NEW i \in DOMAIN dom'[b], <<b, i>> \notin shifted'
      PROVE  dom'[b][i] = values'[MarkerAt(b, i)']
  <2> DEFINE own == MarkerAt(b, i)
  <2>1. i \in DOMAIN dom[b] /\ dom'[b][i] = text(b, i) /\ i \in FieldsOf(parts[b])
    BY <1>2, <1>4, <1>9 DEF SlotsFit
  <2>2. MarkerAt(b, i)' = own /\ own \in MarkerTexts
    BY <1>1, <1>2, <2>1, SlotMarkers DEF MarkerAt
  <2> HIDE DEF clean
  <2>3. CASE <<b, i>> = active
    <3>1. own = marker
      BY <2>3
    <3>2. text(b, i) = clean
      BY <2>3 DEF text, Written, clean
    <3> QED
      BY <1>8, <2>1, <2>2, <3>1, <3>2
  <2>4. CASE <<b, i>> # active /\ Mirrors(b, i, marker, clean)
    <3>1. own = marker
      BY <2>4 DEF Mirrors
    <3>2. text(b, i) = clean
      BY <2>4 DEF text
    <3> QED
      BY <1>8, <2>1, <2>2, <3>1, <3>2
  <2>5. CASE <<b, i>> # active /\ ~Mirrors(b, i, marker, clean)
    <3>1. text(b, i) = dom[b][i]
      BY <2>5 DEF text
    <3>2. <<b, i>> \notin shifted
      <4>1. <<b, i>>[1] = b /\ <<b, i>>[2] = i
        OBVIOUS
      <4> QED
        BY <1>1, <1>9, <2>5, <4>1
    <3>3. dom[b][i] = values[own]
      BY <1>2, <2>1, <3>2 DEF SlotsHold
    <3>4. own = marker => values[marker] = clean
      BY <2>5 DEF Mirrors
    <3> HIDE DEF marker, own
    <3> QED
      BY <1>8, <2>1, <2>2, <3>1, <3>3, <3>4
  <2> QED
    BY <2>3, <2>4, <2>5
<1>10. SlotsHold'
  BY <1>9 DEF SlotsHold
<1> QED
  BY <1>3, <1>6, <1>10 DEF CopyInv

LEMMA CopyStep == ASSUME CopyInv, [BlocksNext]_blocksVars PROVE CopyInv'
<1>0. TextsInv' /\ active \in Slots \cup {NoSlot} /\ NoSlot \in Slots \cup {NoSlot}
  BY TextsStep DEF CopyInv, SlotsFit
<1>1. ASSUME NEW b \in Blocks, HighlightDone(b)
      PROVE  CopyInv'
  BY <1>0, <1>1, HighlightDoneCopies
<1>2. ASSUME NEW r \in Records, RecordChanges(r)
      PROVE  CopyInv'
  BY <1>0, <1>2, RecordChangesCopies
<1>3. ASSUME NEW slot \in Slots, Focus(slot)
      PROVE  CopyInv'
  BY <1>0, <1>3, CopyKept DEF Focus
<1>4. ASSUME Blur
      PROVE  CopyInv'
  BY <1>0, <1>4, CopyKept DEF Blur
<1>5. ASSUME NEW raw \in Pasted, Input(raw)
      PROVE  CopyInv'
  BY <1>0, <1>5, InputCopies
<1>6. ASSUME NEW b \in Buttons, ClickCopy(b) \/ TooltipHides(b)
      PROVE  CopyInv'
  <2>1. /\ UNCHANGED <<view, record, template, parts, jobs, values, dom, shifted>>
        /\ active' = active
    BY <1>6 DEF ClickCopy, TooltipHides, slots
  <2> QED
    BY <1>0, <2>1, CopyKept
<1>7. ASSUME NEW w, NEW ok, CopyEnds(w, ok)
      PROVE  CopyInv'
  <2>1. /\ UNCHANGED <<view, record, template, parts, jobs, values, dom, shifted>>
        /\ active' = active
    BY <1>7 DEF CopyEnds, slots
  <2> QED
    BY <1>0, <2>1, CopyKept
<1>8. ASSUME UNCHANGED blocksVars
      PROVE  CopyInv'
  <2>1. /\ UNCHANGED <<view, record, template, parts, jobs, values, dom, shifted>>
        /\ active' = active
    BY <1>8 DEF blocksVars, slots
  <2> QED
    BY <1>0, <2>1, CopyKept
<1> QED
  BY <1>1, <1>2, <1>3, <1>4, <1>5, <1>6, <1>7, <1>8 DEF BlocksNext

-----------------------------------------------------------------------------
(* Under it, a copy button copies what its block shows.                      *)

LEMMA MirrorsGood == ASSUME CopyInv PROVE MirroredSlotsAgree
<1>1. ASSUME NEW s \in Slots \ shifted
      PROVE  dom[s[1]][s[2]] = values[MarkerAt(s[1], s[2])]
  <2>1. s[1] \in Blocks /\ s[2] \in DOMAIN dom[s[1]] /\ s = <<s[1], s[2]>>
    BY SlotFacts DEF CopyInv
  <2>2. <<s[1], s[2]>> \notin shifted
    BY <2>1
  <2> QED
    BY <2>1, <2>2 DEF CopyInv, SlotsHold
<1> QED
  BY <1>1 DEF MirroredSlotsAgree

LEMMA SettledGood == ASSUME CopyInv PROVE SettledIsCopied
<1> SUFFICES ASSUME NEW b \in Blocks, Mounted(b),
                    b \in Editable =>
                      /\ parts[b] = None \/ parts[b].template = template[b]
                      /\ \A s \in shifted : s[1] # b,
                    b = "setup" => Unmarked(buildGatewayAddCommand(record), Markers)
             PROVE  Shown(b) = CopyText(b)
  BY DEF SettledIsCopied
<1>1. CASE ~TakesParts(b)
  BY <1>1 DEF Shown
<1>2. CASE TakesParts(b)
  <2> DEFINE list == parts[b].list
  <2>1. parts[b] # None /\ parts[b].template = template[b]
    BY <1>2 DEF TakesParts
  <2>2. PICK t \in Lines : parts[b] = Highlighted(b, t)
    BY <2>1 DEF CopyInv, BlockParts, IsHighlight
  <2>3. t = template[b] /\ list = highlightTemplate(t, MarkersOf(b))
    BY <2>1, <2>2 DEF Highlighted
  <2>4. t = Command(b, [m \in MarkerTexts |-> m], record) /\ t # Undefined
    BY <2>3, Zenon DEF CopyInv, BlockParts, Mounted, TemplateOf
  <2>5. ShownLine(t, MarkersOf(b), values) = CopyText(b)
    BY <2>4, CommandShows DEF CopyInv, CopyText
  <2>6. DOMAIN dom[b] = {i \in DOMAIN list : list[i].kind = "field"}
    BY DEF CopyInv, SlotsFit, FieldsOf
  <2>7. \A i \in DOMAIN dom[b] : <<b, i>> \notin shifted
    <3>1. \A s \in shifted : s[1] # b
      BY SlotFacts DEF CopyInv, SlotsFit
    <3> QED
      BY <3>1
  <2>8. \A i \in DOMAIN dom[b] : dom[b][i] = values[list[i].value]
    BY <2>7 DEF CopyInv, SlotsHold, MarkerAt
  <2>9. Shown(b) = FlattenSeq([i \in DOMAIN list |->
                     IF i \in DOMAIN dom[b] THEN dom[b][i] ELSE list[i].value])
    BY <1>2 DEF Shown
  <2> HIDE DEF list
  <2>10. [i \in DOMAIN list |-> IF i \in DOMAIN dom[b] THEN dom[b][i] ELSE list[i].value]
           = [i \in DOMAIN list |-> TextOf(list[i], values)]
    BY <2>6, <2>8 DEF TextOf
  <2>11. Shown(b) = ShownLine(t, MarkersOf(b), values)
    BY <2>3, <2>9, <2>10 DEF ShownLine, ShownParts
  <2> QED
    BY <2>5, <2>11
<1> QED
  BY <1>1, <1>2

\* Whatever is polled, highlighted, focused, typed and pasted, a copy button copies
\* what its block shows, slots of one marker agree, and what the buttons say of a
\* copy is true (EditableCommand, useHighlightedParts, copyScript).
THEOREM CopiesAreWhatIsShown == Spec => []CopiesAreHonest
<1>1. Init => CopyInv /\ FeedbackInv
  BY CopyStart, FeedbackStart DEF Init
<1>2. CopyInv /\ FeedbackInv /\ [Next]_vars => (CopyInv /\ FeedbackInv)'
  BY PagesStep, CopyStep, FeedbackStep
<1>3. CopyInv /\ FeedbackInv => CopiesAreHonest
  BY SettledGood, MirrorsGood DEF CopiesAreHonest, FeedbackInv
<1> QED
  BY <1>1, <1>2, <1>3, PTL DEF Spec

-----------------------------------------------------------------------------
(* The dialog.                                                              *)

\* A request whose secret may still be read.
Alive(c) == fate[c] \in {"sent", "shown"}

\* The only request that is alive belongs to the mounted dialog, whose state tells how far it is.
CurrentInv ==
  /\ ~st.open => st = ClosedDialog /\ cur = 0
  /\ \A c \in Creates : Alive(c) => c = cur
  /\ cur = 0 => ~st.pending /\ ~st.handoff
  /\ cur # 0 => /\ fate[cur] = "sent" <=> st.pending /\ ~st.handoff
                /\ fate[cur] = "shown" <=> st.handoff
  /\ st.ack => st.handoff

\* The guards that are armed are those of the mounted dialog, as soon as it has sent a request.
GuardInv == cur # 0 => committed.open /\ committed.ack = st.ack

HandoffInv == DialogTypeOK /\ CurrentInv /\ GuardInv

-----------------------------------------------------------------------------
(* What the promise sees of a state.                                        *)

\* The phase of a request, by what became of it.
Read(f) == CASE f = "sent" -> "coming"
             [] f = "shown" -> "readable"
             [] f \in {"host", "early"} -> "unguarded"
             [] OTHER -> f

LEMMA PhaseIsRead == HandoffInv => ShownPhase = [c \in Creates |-> Read(fate[c])]
<1> SUFFICES ASSUME HandoffInv, NEW c \in Creates
             PROVE  (IF c = cur /\ st.open /\ st.handoff THEN "readable"
                     ELSE CASE fate[c] = "sent" -> "coming"
                            [] fate[c] \in {"host", "early"} -> "unguarded"
                            [] OTHER -> fate[c]) = Read(fate[c])
  BY DEF ShownPhase
<1>1. c # 0 /\ MaxCreates \in Nat
  BY MaxCreatesAssumption DEF Creates
<1>2. CASE c = cur /\ st.open /\ st.handoff
  <2>1. fate[c] = "shown"
    BY <1>1, <1>2 DEF HandoffInv, CurrentInv
  <2> QED
    BY <1>2, <2>1 DEF Read
<1>3. CASE ~(c = cur /\ st.open /\ st.handoff)
  <2>1. fate[c] # "shown"
    BY <1>1, <1>3 DEF HandoffInv, CurrentInv, Alive
  <2> QED
    BY <1>3, <2>1 DEF Read
<1> QED
  BY <1>2, <1>3

LEMMA AckIsHeld == HandoffInv => ShownAck = [c \in Creates |-> c = cur /\ st.ack]
<1> SUFFICES ASSUME HandoffInv, NEW c \in Creates
             PROVE  (c = cur /\ st.open /\ st.ack) = (c = cur /\ st.ack)
  BY DEF ShownAck
<1>1. c = cur => st.open
  BY MaxCreatesAssumption DEF Creates, HandoffInv, CurrentInv
<1> QED
  BY <1>1

LEMMA NextPhaseIsRead == (HandoffInv => ShownPhase = [c \in Creates |-> Read(fate[c])])'
  BY PhaseIsRead, PTL

LEMMA NextAckIsHeld == (HandoffInv => ShownAck = [c \in Creates |-> c = cur /\ st.ack])'
  BY AckIsHeld, PTL

\* A request whose fate changes changes its phase, and no other one does.
LEMMA PhaseMoves ==
  ASSUME HandoffInv, HandoffInv', NEW b \in Creates, NEW f, fate' = [fate EXCEPT ![b] = f]
  PROVE  ShownPhase' = [ShownPhase EXCEPT ![b] = Read(f)]
<1>1. ShownPhase = [d \in Creates |-> Read(fate[d])]
  BY PhaseIsRead
<1>2. ShownPhase' = [d \in Creates |-> Read(fate'[d])]
  BY NextPhaseIsRead DEF Read
<1>3. fate \in [Creates -> Fates]
  BY DEF HandoffInv, DialogTypeOK
<1>4. \A d \in Creates : fate'[d] = IF d = b THEN f ELSE fate[d]
  BY <1>3
<1>5. \A d \in Creates : Read(fate'[d]) = IF d = b THEN Read(f) ELSE Read(fate[d])
  BY <1>4
<1> QED
  BY <1>1, <1>2, <1>5

LEMMA AckMoves ==
  ASSUME HandoffInv, HandoffInv'
  PROVE  /\ ShownAck = [c \in Creates |-> c = cur /\ st.ack]
         /\ ShownAck' = [c \in Creates |-> c = cur' /\ st'.ack]
  BY AckIsHeld, NextAckIsHeld

-----------------------------------------------------------------------------
(* Two kinds of steps that the promise does not see, or sees as an end.     *)

\* The dialog stays what it is for the promise, or is mounted.
Kept ==
  /\ cur' = cur /\ fate' = fate
  /\ st'.pending = st.pending /\ st'.handoff = st.handoff /\ st'.ack = st.ack
  /\ st.open => st'.open
  /\ ~st'.open => st' = ClosedDialog

\* The dialog is gone.
Ended(how) ==
  /\ st' = ClosedDialog /\ cur' = 0 /\ fate' = Dropped(how)
  /\ cur # 0 /\ Alive(cur) /\ ~st.ack => how # "silent"

Ways == {"given", "host", "early", "silent"}

LEMMA ClosedFacts ==
  /\ ClosedDialog \in DialogState
  /\ ~ClosedDialog.open /\ ~ClosedDialog.pending /\ ~ClosedDialog.handoff /\ ~ClosedDialog.ack
  /\ ~ClosedDialog.confirming
  BY DEF ClosedDialog, FreshDialog, DialogState, DefaultForm, Fields

LEMMA FreshFacts ==
  /\ FreshDialog \in DialogState
  /\ FreshDialog.open /\ ~FreshDialog.pending /\ ~FreshDialog.handoff /\ ~FreshDialog.ack
  BY DEF FreshDialog, DialogState, DefaultForm, Fields

LEMMA DroppedFacts ==
  ASSUME HandoffInv, NEW how \in Ways
  PROVE  /\ Dropped(how) \in [Creates -> Fates]
         /\ cur = 0 \/ ~Alive(cur) => Dropped(how) = fate
         /\ cur # 0 /\ Alive(cur) =>
              /\ cur \in Creates
              /\ Dropped(how) = [fate EXCEPT ![cur] = IF st.ack THEN "saved" ELSE how]
<1>1. fate \in [Creates -> Fates] /\ cur \in 0 .. MaxCreates /\ MaxCreates \in Nat
  BY MaxCreatesAssumption DEF HandoffInv, DialogTypeOK
<1>2. "saved" \in Fates /\ how \in Fates
  BY DEF Fates, Ways
<1>3. Dropped(how) \in [Creates -> Fates]
  BY <1>1, <1>2 DEF Dropped
<1>4. cur = 0 \/ ~Alive(cur) => Dropped(how) = fate
  BY <1>1 DEF Dropped, Alive, Creates
<1>5. cur # 0 => cur \in Creates
  BY <1>1 DEF Creates
<1>6. cur # 0 /\ Alive(cur) => Dropped(how) = [fate EXCEPT ![cur] = IF st.ack THEN "saved" ELSE how]
  BY <1>1, <1>5 DEF Dropped, Alive
<1> QED
  BY <1>3, <1>4, <1>5, <1>6

LEMMA KeptInv ==
  ASSUME HandoffInv, Kept, DialogTypeOK', GuardInv'
  PROVE  HandoffInv'
<1>1. CurrentInv'
  <2>1. ~st'.open => st' = ClosedDialog /\ cur' = 0
    BY DEF Kept, HandoffInv, CurrentInv
  <2> QED
    BY <2>1 DEF Kept, HandoffInv, CurrentInv, Alive
<1> QED
  BY <1>1 DEF HandoffInv

LEMMA EndedInv ==
  ASSUME HandoffInv, NEW how \in Ways, Ended(how), DialogTypeOK'
  PROVE  HandoffInv'
<1>1. \A c \in Creates : fate'[c] \notin {"sent", "shown"}
  BY DEF Ended, Dropped, HandoffInv, CurrentInv, Alive, Ways
<1>2. CurrentInv'
  BY <1>1, ClosedFacts DEF Ended, CurrentInv, Alive
<1>3. GuardInv'
  BY DEF Ended, GuardInv
<1> QED
  BY <1>2, <1>3 DEF HandoffInv

PromiseStep == [Promise!Next]_<<ShownPhase, ShownAck>>

LEMMA KeptStep == ASSUME HandoffInv, HandoffInv', Kept PROVE PromiseStep
<1>1. ShownPhase' = ShownPhase
  BY PhaseIsRead, NextPhaseIsRead DEF Kept
<1>2. ShownAck' = ShownAck
  BY AckMoves DEF Kept
<1> QED
  BY <1>1, <1>2 DEF PromiseStep

LEMMA EndedStep == ASSUME HandoffInv, HandoffInv', NEW how \in Ways, Ended(how) PROVE PromiseStep
<1>1. /\ ShownPhase = [c \in Creates |-> Read(fate[c])]
      /\ ShownAck = [c \in Creates |-> c = cur /\ st.ack]
      /\ ShownAck' = [c \in Creates |-> c = cur' /\ st'.ack]
  BY PhaseIsRead, AckMoves
<1>2. \A c \in Creates : c # 0
  BY MaxCreatesAssumption DEF Creates
<1>3. ShownAck' = [c \in Creates |-> FALSE]
  BY <1>1, <1>2, ClosedFacts DEF Ended
<1>4. CASE cur = 0 \/ ~Alive(cur)
  <2>1. fate' = fate
    BY <1>4, DroppedFacts DEF Ended
  <2>2. ShownPhase' = ShownPhase
    BY <1>1, <2>1, NextPhaseIsRead
  <2>3. ~st.ack
    BY <1>4 DEF HandoffInv, CurrentInv, Alive
  <2>4. ShownAck' = ShownAck
    BY <1>1, <1>3, <2>3
  <2> QED
    BY <2>2, <2>4 DEF PromiseStep
<1>5. CASE cur # 0 /\ Alive(cur) /\ st.ack
  <2>1. PICK c \in Creates : c = cur
    BY <1>5, DroppedFacts
  <2>2. fate' = [fate EXCEPT ![c] = "saved"]
    BY <1>5, <2>1, DroppedFacts DEF Ended
  <2>3. ShownPhase' = [ShownPhase EXCEPT ![c] = Read("saved")]
    BY <2>2, PhaseMoves
  <2>4. fate[c] = "shown"
    BY <1>5, <2>1 DEF HandoffInv, CurrentInv
  <2>5. ShownPhase[c] = "readable" /\ Read("saved") = "saved"
    BY <1>1, <2>4 DEF Read
  <2>6. ShownAck[c] /\ ShownAck' = [ShownAck EXCEPT ![c] = FALSE]
    BY <1>1, <1>3, <1>5, <2>1
  <2>7. Promise!Save(c)
    BY <2>3, <2>5, <2>6 DEF Promise!Save
  <2> QED
    BY <2>7 DEF PromiseStep, Promise!Next
<1>6. CASE cur # 0 /\ Alive(cur) /\ ~st.ack
  <2>1. PICK c \in Creates : c = cur
    BY <1>6, DroppedFacts
  <2>2. fate' = [fate EXCEPT ![c] = how]
    BY <1>6, <2>1, DroppedFacts DEF Ended
  <2>3. ShownPhase' = [ShownPhase EXCEPT ![c] = Read(how)]
    BY <2>2, PhaseMoves
  <2>4. Read(how) \in {"given", "unguarded"}
    BY <1>6 DEF Ended, Ways, Read
  <2>5. ShownPhase[c] \in {"coming", "readable"}
    BY <1>1, <1>6, <2>1 DEF Read, Alive
  <2>6. ~ShownAck[c] /\ ShownAck' = ShownAck
    BY <1>1, <1>3, <1>6
  <2>7. Promise!Lose(c, "given") \/ Promise!Lose(c, "unguarded")
    BY <2>3, <2>4, <2>5, <2>6 DEF Promise!Lose
  <2> QED
    BY <2>7 DEF PromiseStep, Promise!Next
<1> QED
  BY <1>4, <1>5, <1>6

LEMMA KeptGood == ASSUME HandoffInv, Kept, DialogTypeOK', GuardInv' PROVE HandoffInv' /\ PromiseStep
  BY KeptInv, KeptStep

LEMMA EndedGood == ASSUME HandoffInv, NEW how \in Ways, Ended(how), DialogTypeOK' PROVE HandoffInv' /\ PromiseStep
  BY EndedInv, EndedStep

-----------------------------------------------------------------------------
(* The router, the host and the dialog.                                     *)

HostState == [createOpen : BOOLEAN, listed : BOOLEAN, fetching : BOOLEAN, deleting : BOOLEAN]

\* What a confirmation does not cover goes unguarded, never silently.
LEMMA UnaskedIsEarly ==
  ASSUME HandoffInv, ~Armed, cur # 0, Alive(cur), ~st.ack
  PROVE  Unasked = "early"
  BY DEF Armed, Protected, Unasked, HandoffInv, GuardInv

\* A navigation that the guards let through.
LEMMA PassesGood ==
  ASSUME HandoffInv, ~Armed, NEW t \in Places, Arrive(t, st, host, fate), UNCHANGED committed
  PROVE  HandoffInv' /\ PromiseStep
<1> DEFINE stays == loc = "accounts" /\ t = "accounts"
<1>1. host \in HostState /\ st \in DialogState /\ ClosedDialog \in DialogState /\ committed \in DialogState
      /\ decision \in {"none", "tab", "route"} /\ fate \in [Creates -> Fates] /\ cur \in 0 .. MaxCreates
  BY ClosedFacts DEF HandoffInv, DialogTypeOK, HostState
<1>2. host' \in HostState
  BY <1>1 DEF Arrive, HostState
<1>3. /\ loc' = t /\ blocker' = "idle" /\ held' = t /\ effectDue' = FALSE /\ leaving' = FALSE
      /\ st' = IF stays THEN st ELSE ClosedDialog
      /\ fate' = IF st.open /\ ~stays THEN Dropped(Unasked) ELSE fate
      /\ cur' = IF stays /\ st.open THEN cur ELSE 0
      /\ decision' = IF stays /\ st.open THEN decision ELSE "none"
  BY DEF Arrive
<1> HIDE DEF stays
<1>4. PICK how \in Ways : how = Unasked
  BY DEF Unasked, Ways
<1>5. DialogTypeOK'
  <2>1. st' \in DialogState /\ decision' \in {"none", "tab", "route"}
    BY <1>1, <1>3
  <2>2. fate' \in [Creates -> Fates]
    BY <1>1, <1>3, <1>4, DroppedFacts
  <2>3. cur' \in 0 .. MaxCreates
    BY <1>1, <1>3, MaxCreatesAssumption
  <2> QED
    BY <1>1, <1>2, <1>3, <2>1, <2>2, <2>3 DEF DialogTypeOK, HostState
<1>6. CASE st.open /\ ~stays
  <2>1. Ended(how)
    BY <1>3, <1>4, <1>6, UnaskedIsEarly DEF Ended
  <2> QED
    BY <1>5, <2>1, EndedGood
<1>7. CASE ~st.open \/ stays
  <2>1. Kept
    <3>1. fate' = fate /\ cur' = cur
      BY <1>3, <1>7 DEF HandoffInv, CurrentInv
    <3>2. st' = st
      BY <1>3, <1>7 DEF HandoffInv, CurrentInv
    <3>3. ~st.open => st = ClosedDialog
      BY DEF HandoffInv, CurrentInv
    <3> QED
      BY <3>1, <3>2, <3>3 DEF Kept
  <2>2. GuardInv'
    <3>1. cur' = 0 \/ (cur' = cur /\ st' = st)
      BY <1>3
    <3> QED
      BY <3>1 DEF HandoffInv, GuardInv
  <2> QED
    BY <1>5, <2>1, <2>2, KeptGood
<1> QED
  BY <1>6, <1>7

LEMMA NavigateGood == ASSUME HandoffInv, NEW t \in Places, Navigate(t) PROVE HandoffInv' /\ PromiseStep
<1>1. CASE Armed
  <2>1. Hold(t) /\ UNCHANGED <<host, leaving, dialog>>
    BY <1>1 DEF Navigate
  <2>2. DialogTypeOK'
    BY <2>1 DEF Hold, dialog, HandoffInv, DialogTypeOK
  <2>3. Kept /\ GuardInv'
    BY <2>1 DEF Kept, dialog, HandoffInv, CurrentInv, GuardInv
  <2> QED
    BY <2>2, <2>3, KeptGood
<1>2. CASE ~Armed
  BY <1>2, PassesGood DEF Navigate
<1> QED
  BY <1>1, <1>2

\* The host renders again.
LEMMA HostGood ==
  ASSUME HandoffInv, NEW h \in HostState, NEW fields \in SUBSET Fields, Host(h, fields),
         \/ UNCHANGED committed
         \/ committed' = st'
  PROVE  HandoffInv' /\ PromiseStep
<1>1. /\ host' = h
      /\ st' = IF ~Rendered(h) THEN ClosedDialog
               ELSE IF st.open THEN [st EXCEPT !.form = fields] ELSE FreshDialog
      /\ fate' = IF st.open /\ ~Rendered(h) THEN Dropped("host") ELSE fate
      /\ cur' = IF st.open /\ Rendered(h) THEN cur ELSE 0
      /\ decision' = IF st.open /\ Rendered(h) THEN decision ELSE "none"
      /\ UNCHANGED <<loc, blocker, held, effectDue, leaving>>
  BY DEF Host, router
<1>2. st \in DialogState /\ committed \in DialogState /\ fate \in [Creates -> Fates] /\ cur \in 0 .. MaxCreates
  BY DEF HandoffInv, DialogTypeOK
<1>3. PICK s : s = [st EXCEPT !.form = fields]
  OBVIOUS
<1>4. s \in DialogState /\ s.open = st.open /\ s.pending = st.pending /\ s.handoff = st.handoff /\ s.ack = st.ack
  BY <1>2, <1>3 DEF DialogState
<1>5. "host" \in Ways
  BY DEF Ways
<1>6. DialogTypeOK'
  <2>1. st' \in DialogState
    BY <1>1, <1>3, <1>4, ClosedFacts, FreshFacts
  <2>2. fate' \in [Creates -> Fates]
    BY <1>1, <1>2, <1>5, DroppedFacts
  <2>3. cur' \in 0 .. MaxCreates
    BY <1>1, <1>2, MaxCreatesAssumption
  <2> QED
    BY <1>1, <1>2, <2>1, <2>2, <2>3 DEF HandoffInv, DialogTypeOK, HostState
<1>7. CASE st.open /\ ~Rendered(h)
  <2>1. Ended("host")
    BY <1>1, <1>7 DEF Ended
  <2> QED
    BY <1>5, <1>6, <2>1, EndedGood
<1>8. CASE st.open /\ Rendered(h)
  <2>1. st' = s /\ cur' = cur /\ fate' = fate
    BY <1>1, <1>3, <1>8
  <2>2. Kept
    BY <1>4, <1>8, <2>1 DEF Kept
  <2>3. GuardInv'
    BY <1>4, <1>8, <2>1 DEF HandoffInv, GuardInv
  <2> QED
    BY <1>6, <2>2, <2>3, KeptGood
<1>9. CASE ~st.open
  <2>1. st = ClosedDialog /\ cur = 0
    BY <1>9 DEF HandoffInv, CurrentInv
  <2>2. fate' = fate /\ cur' = 0 /\ st' \in {ClosedDialog, FreshDialog}
    BY <1>1, <1>9
  <2>3. Kept
    <3>1. ~st.pending /\ ~st.handoff /\ ~st.ack
      BY <2>1, ClosedFacts
    <3>2. st.pending = FALSE /\ st.handoff = FALSE /\ st.ack = FALSE
      BY <1>2, <3>1 DEF DialogState
    <3>3. CASE st' = ClosedDialog
      BY <1>9, <2>1, <2>2, <3>3 DEF Kept
    <3>4. CASE st' = FreshDialog
      <4>1. st'.open /\ st'.pending = FALSE /\ st'.handoff = FALSE /\ st'.ack = FALSE
        BY <3>4 DEF FreshDialog
      <4> QED
        BY <1>9, <2>1, <2>2, <3>2, <4>1 DEF Kept
    <3> QED
      BY <2>2, <3>3, <3>4
  <2>4. GuardInv'
    BY <2>2 DEF GuardInv
  <2> QED
    BY <1>6, <2>3, <2>4, KeptGood
<1> QED
  BY <1>7, <1>8, <1>9

LEMMA HostStepsGood ==
  ASSUME HandoffInv, OpenCreate \/ ListLoads \/ ListFails \/ GatewayDeleting
  PROVE  HandoffInv' /\ PromiseStep
<1>1. host \in HostState /\ st.form \in SUBSET Fields
  BY DEF HandoffInv, DialogTypeOK, HostState, DialogState
<1>2. CASE OpenCreate
  <2>1. PICK h : h = [host EXCEPT !.createOpen = TRUE]
    OBVIOUS
  <2>2. h \in HostState
    BY <1>1, <2>1 DEF HostState
  <2>3. Host(h, st.form) /\ committed' = st'
    BY <1>2, <2>1 DEF OpenCreate
  <2> QED
    BY <1>1, <2>2, <2>3, HostGood
<1>3. CASE ListLoads
  <2>1. PICK valid \in SUBSET {"role", "term"} :
          Host([host EXCEPT !.listed = TRUE, !.fetching = FALSE],
               IF st.handoff THEN st.form ELSE (st.form \cap {"name"}) \cup valid)
    BY <1>3 DEF ListLoads
  <2>2. PICK h, fields : /\ h = [host EXCEPT !.listed = TRUE, !.fetching = FALSE]
                       /\ fields = IF st.handoff THEN st.form ELSE (st.form \cap {"name"}) \cup valid
    OBVIOUS
  <2>3. h \in HostState /\ fields \in SUBSET Fields
    BY <1>1, <2>2 DEF HostState, Fields
  <2> QED
    BY <1>3, <2>1, <2>2, <2>3, HostGood DEF ListLoads
<1>4. CASE ListFails
  <2>1. PICK l \in BOOLEAN : Host([host EXCEPT !.listed = l, !.fetching = FALSE], st.form)
    BY <1>1, <1>4 DEF ListFails, HostState
  <2>2. PICK h : h = [host EXCEPT !.listed = l, !.fetching = FALSE]
    OBVIOUS
  <2>3. h \in HostState
    BY <1>1, <2>2 DEF HostState
  <2> QED
    BY <1>1, <1>4, <2>1, <2>2, <2>3, HostGood DEF ListFails
<1>5. CASE GatewayDeleting
  <2>1. PICK h : h = [host EXCEPT !.deleting = TRUE, !.createOpen = FALSE]
    OBVIOUS
  <2>2. h \in HostState
    BY <1>1, <2>1 DEF HostState
  <2> QED
    BY <1>1, <1>5, <2>1, <2>2, HostGood DEF GatewayDeleting
<1> QED
  BY <1>2, <1>3, <1>4, <1>5

LEMMA CommitGood == ASSUME HandoffInv, Commit PROVE HandoffInv' /\ PromiseStep
<1>1. UNCHANGED <<host, st, decision, cur, fate, loc, blocker, held, effectDue, leaving>> /\ committed' = st
  BY DEF Commit, router
<1>2. DialogTypeOK'
  BY <1>1 DEF HandoffInv, DialogTypeOK
<1>3. Kept /\ GuardInv'
  BY <1>1 DEF Kept, HandoffInv, CurrentInv, GuardInv
<1> QED
  BY <1>2, <1>3, KeptGood

\* A step of the open dialog that only changes its form, its question or its error.
LEMMA InnerGood ==
  ASSUME HandoffInv, NEW s \in DialogState, st' = s,
         s.open = st.open, s.pending = st.pending, s.handoff = st.handoff, s.ack = st.ack, st.open,
         committed' = st' \/ (committed = st /\ UNCHANGED committed),
         decision' \in {"none", "tab", "route"}, blocker' \in {"idle", "blocked"}, effectDue' \in BOOLEAN,
         UNCHANGED <<host, cur, fate, loc, held, leaving>>
  PROVE  HandoffInv' /\ PromiseStep
<1>1. DialogTypeOK'
  BY DEF HandoffInv, DialogTypeOK
<1>2. Kept
  BY DEF Kept
<1>3. GuardInv'
  BY DEF HandoffInv, GuardInv
<1> QED
  BY <1>1, <1>2, <1>3, KeptGood

LEMMA ChangeFormGood == ASSUME HandoffInv, NEW fields \in SUBSET Fields, ChangeForm(fields) PROVE HandoffInv' /\ PromiseStep
<1>1. PICK s : s = [st EXCEPT !.form = fields]
  OBVIOUS
<1>2. s \in DialogState /\ s.open = st.open /\ s.pending = st.pending /\ s.handoff = st.handoff /\ s.ack = st.ack
  BY <1>1 DEF HandoffInv, DialogTypeOK, DialogState
<1>3. st.open
  BY DEF ChangeForm, CanSubmit, Shows
<1>4. st' = s /\ committed' = st' /\ UNCHANGED <<host, decision, cur, fate, loc, blocker, held, effectDue, leaving>>
  BY <1>1 DEF ChangeForm, router
<1> QED
  BY <1>2, <1>3, <1>4, InnerGood DEF HandoffInv, DialogTypeOK

LEMMA FormGood == ASSUME HandoffInv, EditAccountName \/ ChooseRole \/ ChooseTerm PROVE HandoffInv' /\ PromiseStep
<1>1. st.form \in SUBSET Fields
  BY DEF HandoffInv, DialogTypeOK, DialogState
<1>2. /\ st.form \cup {"name"} \in SUBSET Fields /\ st.form \ {"name"} \in SUBSET Fields
      /\ st.form \cup {"role"} \in SUBSET Fields /\ st.form \cup {"term"} \in SUBSET Fields
  BY <1>1 DEF Fields
<1> QED
  BY <1>2, ChangeFormGood DEF EditAccountName, ChooseRole, ChooseTerm

LEMMA ReturnGood == ASSUME HandoffInv, Return PROVE HandoffInv' /\ PromiseStep
<1>1. PICK s : s = [st EXCEPT !.confirming = FALSE]
  OBVIOUS
<1>2. s \in DialogState /\ s.open = st.open /\ s.pending = st.pending /\ s.handoff = st.handoff /\ s.ack = st.ack
  BY <1>1 DEF HandoffInv, DialogTypeOK, DialogState
<1>3. st.open
  BY DEF Return, Shows
<1>4. /\ st' = s /\ committed' = st' /\ decision' = "none" /\ blocker' \in {"idle", blocker}
      /\ UNCHANGED <<host, cur, fate, loc, held, effectDue, leaving>>
  BY <1>1 DEF Return
<1> QED
  BY <1>2, <1>3, <1>4, InnerGood DEF HandoffInv, DialogTypeOK

LEMMA ChangeTabGood == ASSUME HandoffInv, NEW t \in {"accounts", "tab"}, ChangeTab(t) PROVE HandoffInv' /\ PromiseStep
<1>1. CASE Armed
  <2>1. PICK s : s = [st EXCEPT !.confirming = TRUE]
    OBVIOUS
  <2>2. s \in DialogState /\ s.open = st.open /\ s.pending = st.pending /\ s.handoff = st.handoff /\ s.ack = st.ack
    BY <2>1 DEF HandoffInv, DialogTypeOK, DialogState
  <2>3. st.open
    BY <1>1 DEF Armed, ChangeTab, Settled
  <2>4. /\ st' = s /\ committed' = st' /\ decision' = "tab"
        /\ UNCHANGED <<host, cur, fate, loc, blocker, held, effectDue, leaving>>
    BY <1>1, <2>1 DEF ChangeTab, router
  <2> QED
    BY <2>2, <2>3, <2>4, InnerGood DEF HandoffInv, DialogTypeOK
<1>2. CASE ~Armed
  BY <1>2, PassesGood DEF ChangeTab, Places
<1> QED
  BY <1>1, <1>2

LEMMA RouteEffectGood == ASSUME HandoffInv, RouteEffect PROVE HandoffInv' /\ PromiseStep
<1>1. CASE Armed
  <2>1. PICK s : s = [st EXCEPT !.confirming = TRUE]
    OBVIOUS
  <2>2. s \in DialogState /\ s.open = st.open /\ s.pending = st.pending /\ s.handoff = st.handoff /\ s.ack = st.ack
    BY <2>1 DEF HandoffInv, DialogTypeOK, DialogState
  <2>3. st.open
    BY <1>1 DEF Armed, RouteEffect
  <2>4. /\ st' = s /\ committed = st /\ decision' = "route" /\ effectDue' = FALSE
        /\ UNCHANGED <<host, committed, cur, fate, loc, blocker, held, leaving>>
    BY <1>1, <2>1 DEF RouteEffect
  <2> QED
    BY <2>2, <2>3, <2>4, InnerGood DEF HandoffInv, DialogTypeOK
<1>2. CASE ~Armed
  BY <1>2, PassesGood DEF RouteEffect, HandoffInv, DialogTypeOK
<1> QED
  BY <1>1, <1>2

LEMMA ReloadGood == ASSUME HandoffInv, Reload PROVE HandoffInv' /\ PromiseStep
<1>1. PICK how \in Ways : how = IF Armed THEN "given" ELSE Unasked
  BY DEF Unasked, Ways
<1>2. Ended(how)
  BY <1>1, UnaskedIsEarly DEF Reload, Ended
<1>3. host' \in HostState
  BY DEF Reload, HandoffInv, DialogTypeOK, HostState
<1>4. fate' \in [Creates -> Fates]
  BY <1>1, DroppedFacts DEF Reload
<1>5. DialogTypeOK'
  <2>1. st' \in DialogState /\ committed' \in DialogState
    BY ClosedFacts DEF Reload
  <2>2. cur' \in 0 .. MaxCreates
    BY MaxCreatesAssumption DEF Reload
  <2>3. decision' \in {"none", "tab", "route"} /\ blocker' \in {"idle", "blocked"}
        /\ effectDue' \in BOOLEAN /\ leaving' \in BOOLEAN
    BY DEF Reload
  <2>4. loc' \in Places /\ held' \in Places
    BY DEF Reload, HandoffInv, DialogTypeOK
  <2> QED
    BY <1>3, <1>4, <2>1, <2>2, <2>3, <2>4 DEF DialogTypeOK, HostState
<1> QED
  BY <1>2, <1>5, EndedGood

\* The dialog is cleared.
LEMMA ClearedGood ==
  ASSUME HandoffInv, NEW how \in Ways, Ended(how), decision' = "none", committed' \in DialogState,
         UNCHANGED loc, blocker' \in {"idle", "blocked"}, held' \in Places, effectDue' \in BOOLEAN, leaving' \in BOOLEAN,
         host' = [host EXCEPT !.createOpen = FALSE]
  PROVE  HandoffInv' /\ PromiseStep
<1>1. host' \in HostState
  BY DEF HandoffInv, DialogTypeOK, HostState
<1>2. fate' \in [Creates -> Fates] /\ st' \in DialogState /\ cur' \in 0 .. MaxCreates
  BY DroppedFacts, ClosedFacts, MaxCreatesAssumption DEF Ended
<1>3. DialogTypeOK'
  BY <1>1, <1>2 DEF HandoffInv, DialogTypeOK, HostState
<1> QED
  BY <1>3, EndedGood

LEMMA RequestCloseGood == ASSUME HandoffInv, RequestClose PROVE HandoffInv' /\ PromiseStep
<1>1. CASE st.handoff /\ ~st.ack
  <2>1. PICK s : s = [st EXCEPT !.confirming = TRUE]
    OBVIOUS
  <2>2. s \in DialogState /\ s.open = st.open /\ s.pending = st.pending /\ s.handoff = st.handoff /\ s.ack = st.ack
    BY <2>1 DEF HandoffInv, DialogTypeOK, DialogState
  <2>3. st.open /\ st' = s /\ committed' = st' /\ UNCHANGED <<host, decision, cur, fate, loc, blocker, held, effectDue, leaving>>
    BY <1>1, <2>1 DEF RequestClose, CanClose, router
  <2> QED
    BY <2>2, <2>3, InnerGood DEF HandoffInv, DialogTypeOK
<1>2. CASE ~(st.handoff /\ ~st.ack)
  <2>1. ClearAndClose("silent") /\ committed' = st' /\ UNCHANGED <<loc, blocker, held, effectDue, leaving>> /\ ~st.pending
    BY <1>2 DEF RequestClose, CanClose, router
  <2>2. cur # 0 /\ Alive(cur) => st.ack
    BY <1>2, <2>1 DEF HandoffInv, CurrentInv, Alive
  <2>3. "silent" \in Ways /\ Ended("silent")
    BY <2>1, <2>2 DEF Ended, ClearAndClose, Ways
  <2> QED
    BY <2>1, <2>3, ClearedGood, ClosedFacts DEF ClearAndClose, HandoffInv, DialogTypeOK
<1> QED
  BY <1>1, <1>2

LEMMA FinishGood == ASSUME HandoffInv, Finish PROVE HandoffInv' /\ PromiseStep
<1>1. ClearAndClose("silent") /\ committed' = st' /\ UNCHANGED <<loc, blocker, held, effectDue, leaving>> /\ st.ack
  BY DEF Finish, router
<1>2. "silent" \in Ways /\ Ended("silent")
  BY <1>1 DEF Ended, ClearAndClose, Ways
<1> QED
  BY <1>1, <1>2, ClearedGood, ClosedFacts DEF ClearAndClose, HandoffInv, DialogTypeOK

\* "Leave" resumes a navigation at once.
LEMMA LeavesGood ==
  ASSUME HandoffInv, NEW t \in Places,
         Arrive(t, ClosedDialog, [host EXCEPT !.createOpen = FALSE], Dropped("given")), committed' = ClosedDialog
  PROVE  HandoffInv' /\ PromiseStep
<1>1. "given" \in Ways /\ Ended("given")
  BY ClosedFacts DEF Arrive, Ended, Ways
<1>2. PICK h : h = [host EXCEPT !.createOpen = FALSE]
  OBVIOUS
<1>3. h \in HostState
  BY <1>2 DEF HandoffInv, DialogTypeOK, HostState
<1>4. Arrive(t, ClosedDialog, h, Dropped("given"))
  BY <1>2
<1>5. host' \in HostState
  BY <1>3, <1>4 DEF Arrive, HostState
<1>6. fate' \in [Creates -> Fates]
  BY <1>1, DroppedFacts DEF Ended
<1>7. DialogTypeOK'
  <2>1. st' \in DialogState /\ committed' \in DialogState
    BY <1>1, ClosedFacts DEF Ended
  <2>2. cur' \in 0 .. MaxCreates
    BY <1>1, MaxCreatesAssumption DEF Ended
  <2>3. decision' \in {"none", "tab", "route"} /\ blocker' \in {"idle", "blocked"}
        /\ effectDue' \in BOOLEAN /\ leaving' \in BOOLEAN
    BY <1>4, ClosedFacts DEF Arrive
  <2>4. loc' \in Places /\ held' \in Places
    BY <1>4 DEF Arrive
  <2> QED
    BY <1>5, <1>6, <2>1, <2>2, <2>3, <2>4 DEF DialogTypeOK, HostState
<1> QED
  BY <1>1, <1>7, EndedGood

LEMMA LeaveGood == ASSUME HandoffInv, Leave PROVE HandoffInv' /\ PromiseStep
<1>1. committed' = ClosedDialog /\ committed' \in DialogState /\ "given" \in Ways /\ "tab" \in Places
  BY ClosedFacts DEF Leave, Ways, Places
<1>2. CASE ClearAndClose("given") /\ UNCHANGED router
  <2>1. Ended("given")
    BY <1>2 DEF Ended, ClearAndClose
  <2> QED
    BY <1>1, <1>2, <2>1, ClearedGood DEF ClearAndClose, HandoffInv, DialogTypeOK, router
<1>3. CASE Arrive(held, ClosedDialog, [host EXCEPT !.createOpen = FALSE], Dropped("given"))
  <2>1. PICK t \in Places : t = held
    BY DEF HandoffInv, DialogTypeOK
  <2> QED
    BY <1>1, <1>3, <2>1, LeavesGood
<1>4. CASE ClearAndClose("given") /\ Hold("tab") /\ leaving' = TRUE
  <2>1. Ended("given")
    BY <1>4 DEF Ended, ClearAndClose
  <2> QED
    BY <1>1, <1>4, <2>1, ClearedGood DEF ClearAndClose, Hold, HandoffInv, DialogTypeOK
<1>5. CASE Arrive("tab", ClosedDialog, [host EXCEPT !.createOpen = FALSE], Dropped("given"))
  BY <1>1, <1>5, LeavesGood
<1> QED
  BY <1>2, <1>3, <1>4, <1>5 DEF Leave
-----------------------------------------------------------------------------
(* The request and its secret.                                              *)

\* The step of a request that is alive or becomes so.
LEMMA RequestTyped ==
  ASSUME HandoffInv, NEW c \in Creates, NEW f \in Fates, fate' = [fate EXCEPT ![c] = f], cur' = c,
         st' \in DialogState, committed' \in DialogState, UNCHANGED <<host, decision, loc, blocker, held, effectDue, leaving>>
  PROVE  DialogTypeOK'
<1>1. fate' \in [Creates -> Fates]
  BY DEF HandoffInv, DialogTypeOK
<1>2. cur' \in 0 .. MaxCreates
  BY MaxCreatesAssumption DEF Creates
<1> QED
  BY <1>1, <1>2 DEF HandoffInv, DialogTypeOK

LEMMA SubmitGood == ASSUME HandoffInv, SubmitAccount PROVE HandoffInv' /\ PromiseStep
<1>1. PICK c \in Creates : /\ \A b \in Creates : fate[b] = "unused" <=> b >= c
                           /\ cur' = c
                           /\ fate' = [fate EXCEPT ![c] = "sent"]
  BY DEF SubmitAccount
<1>2. PICK s : s = [st EXCEPT !.pending = TRUE, !.error = "none"]
  OBVIOUS
<1>3. /\ s \in DialogState /\ s.open = st.open /\ s.handoff = st.handoff /\ s.ack = st.ack
      /\ s.pending = TRUE
  BY <1>2 DEF HandoffInv, DialogTypeOK, DialogState
<1>4. /\ st' = s /\ committed = st /\ committed' = committed
      /\ UNCHANGED <<host, decision, loc, blocker, held, effectDue, leaving>>
  BY <1>2 DEF SubmitAccount, Settled, router
<1>5. st.open /\ ~st.pending /\ ~st.handoff /\ ~st.ack
  BY DEF SubmitAccount, CanSubmit, Shows, HandoffInv, CurrentInv
<1>6. fate[c] = "unused" /\ fate \in [Creates -> Fates] /\ c # 0
  BY <1>1, MaxCreatesAssumption DEF HandoffInv, DialogTypeOK, Creates
<1>7. \A d \in Creates : ~Alive(d)
  <2>1. \A d \in Creates : Alive(d) => d = cur /\ cur # 0
    BY MaxCreatesAssumption DEF HandoffInv, CurrentInv, Creates
  <2> QED
    BY <1>5, <2>1 DEF HandoffInv, CurrentInv, Alive
<1>8. DialogTypeOK'
  BY <1>1, <1>3, <1>4, RequestTyped DEF HandoffInv, DialogTypeOK, Fates
<1>9. \A d \in Creates : fate'[d] = IF d = c THEN "sent" ELSE fate[d]
  BY <1>1, <1>6
<1>10. CurrentInv'
  BY <1>1, <1>3, <1>4, <1>5, <1>6, <1>7, <1>9 DEF CurrentInv, Alive
<1>11. GuardInv'
  BY <1>3, <1>4, <1>5 DEF GuardInv
<1>12. HandoffInv'
  BY <1>8, <1>10, <1>11 DEF HandoffInv
<1>13. ShownPhase[c] = "unused" /\ ShownPhase' = [ShownPhase EXCEPT ![c] = "coming"]
  <2>1. ShownPhase' = [ShownPhase EXCEPT ![c] = Read("sent")]
    BY <1>1, <1>12, PhaseMoves
  <2> QED
    BY <1>6, <2>1, PhaseIsRead DEF Read
<1>14. ShownAck' = ShownAck
  BY <1>3, <1>4, <1>5, <1>12, AckMoves
<1>15. Promise!Request(c)
  BY <1>13, <1>14 DEF Promise!Request
<1> QED
  BY <1>12, <1>15 DEF PromiseStep, Promise!Next

LEMMA CreatedGood == ASSUME HandoffInv, Created PROVE HandoffInv' /\ PromiseStep
<1>1. PICK c \in Creates : c = cur
  BY DEF Created, HandoffInv, DialogTypeOK, Creates
<1>2. PICK s : s = [st EXCEPT !.handoff = TRUE]
  OBVIOUS
<1>3. /\ s \in DialogState /\ s.open = st.open /\ s.pending = st.pending /\ s.ack = st.ack
      /\ s.handoff = TRUE
  BY <1>2 DEF HandoffInv, DialogTypeOK, DialogState
<1>4. /\ st' = s /\ cur' = cur /\ committed' = committed /\ st.open /\ cur # 0 /\ fate[c] = "sent"
      /\ fate' = [fate EXCEPT ![c] = "shown"]
      /\ UNCHANGED <<host, decision, loc, blocker, held, effectDue, leaving>>
  BY <1>1, <1>2 DEF Created, router
<1>5. ~st.handoff /\ ~st.ack
  BY <1>1, <1>4 DEF HandoffInv, CurrentInv
<1>6. fate \in [Creates -> Fates]
  BY DEF HandoffInv, DialogTypeOK
<1>7. DialogTypeOK'
  BY <1>1, <1>3, <1>4, RequestTyped DEF HandoffInv, DialogTypeOK, Fates
<1>8. \A d \in Creates : fate'[d] = IF d = c THEN "shown" ELSE fate[d]
  BY <1>4, <1>6
<1>9. CurrentInv'
  BY <1>1, <1>3, <1>4, <1>5, <1>8 DEF HandoffInv, CurrentInv, Alive
<1>10. GuardInv'
  BY <1>3, <1>4 DEF HandoffInv, GuardInv
<1>11. HandoffInv'
  BY <1>7, <1>9, <1>10 DEF HandoffInv
<1>12. ShownPhase[c] = "coming" /\ ShownPhase' = [ShownPhase EXCEPT ![c] = "readable"]
  <2>1. ShownPhase' = [ShownPhase EXCEPT ![c] = Read("shown")]
    BY <1>4, <1>11, PhaseMoves
  <2>2. Read("shown") = "readable" /\ Read("sent") = "coming"
    BY DEF Read
  <2> QED
    BY <1>4, <2>1, <2>2, PhaseIsRead
<1>13. ShownAck' = ShownAck
  BY <1>3, <1>4, <1>11, AckMoves
<1>14. Promise!Deliver(c)
  BY <1>12, <1>13 DEF Promise!Deliver
<1> QED
  BY <1>11, <1>14 DEF PromiseStep, Promise!Next

LEMMA CreateFailsGood == ASSUME HandoffInv, CreateFails PROVE HandoffInv' /\ PromiseStep
<1>1. PICK c \in Creates : c = cur
  BY DEF CreateFails, HandoffInv, DialogTypeOK, Creates
<1>2. PICK e \in Failures : st' = [st EXCEPT !.pending = FALSE, !.error = e]
  BY DEF CreateFails
<1>3. /\ st' \in DialogState /\ st'.open = st.open /\ st'.handoff = st.handoff /\ st'.ack = st.ack
      /\ st'.pending = FALSE
  BY <1>2 DEF HandoffInv, DialogTypeOK, DialogState, Failures
<1>4. /\ cur' = cur /\ committed' = committed /\ st.open /\ cur # 0 /\ fate[c] = "sent"
      /\ fate' = [fate EXCEPT ![c] = "refused"]
      /\ UNCHANGED <<host, decision, loc, blocker, held, effectDue, leaving>>
  BY <1>1 DEF CreateFails, router
<1>5. ~st.handoff /\ ~st.ack
  BY <1>1, <1>4 DEF HandoffInv, CurrentInv
<1>6. fate \in [Creates -> Fates]
  BY DEF HandoffInv, DialogTypeOK
<1>7. DialogTypeOK'
  BY <1>1, <1>3, <1>4, RequestTyped DEF HandoffInv, DialogTypeOK, Fates
<1>8. \A d \in Creates : fate'[d] = IF d = c THEN "refused" ELSE fate[d]
  BY <1>4, <1>6
<1>9. CurrentInv'
  BY <1>1, <1>3, <1>4, <1>5, <1>8 DEF HandoffInv, CurrentInv, Alive
<1>10. GuardInv'
  BY <1>3, <1>4 DEF HandoffInv, GuardInv
<1>11. HandoffInv'
  BY <1>7, <1>9, <1>10 DEF HandoffInv
<1>12. ShownPhase[c] = "coming" /\ ShownPhase' = [ShownPhase EXCEPT ![c] = "refused"]
  <2>1. ShownPhase' = [ShownPhase EXCEPT ![c] = Read("refused")]
    BY <1>4, <1>11, PhaseMoves
  <2>2. Read("refused") = "refused" /\ Read("sent") = "coming"
    BY DEF Read
  <2> QED
    BY <1>4, <2>1, <2>2, PhaseIsRead
<1>13. ShownAck' = ShownAck
  BY <1>3, <1>4, <1>11, AckMoves
<1>14. Promise!Refuse(c)
  BY <1>12, <1>13 DEF Promise!Refuse
<1> QED
  BY <1>11, <1>14 DEF PromiseStep, Promise!Next

LEMMA RefreshedGood == ASSUME HandoffInv, Refreshed PROVE HandoffInv' /\ PromiseStep
<1>1. /\ st' = [st EXCEPT !.pending = FALSE] /\ st.handoff /\ st.open
      /\ UNCHANGED <<host, committed, decision, cur, fate, loc, blocker, held, effectDue, leaving>>
  BY DEF Refreshed, router
<1>2. /\ st' \in DialogState /\ st'.open = st.open /\ st'.handoff = st.handoff /\ st'.ack = st.ack
      /\ st'.pending = FALSE
  BY <1>1 DEF HandoffInv, DialogTypeOK, DialogState
<1>3. DialogTypeOK'
  BY <1>1, <1>2 DEF HandoffInv, DialogTypeOK
<1>4. CurrentInv'
  BY <1>1, <1>2 DEF HandoffInv, CurrentInv, Alive
<1>5. GuardInv'
  BY <1>1, <1>2 DEF HandoffInv, GuardInv
<1>6. HandoffInv'
  BY <1>3, <1>4, <1>5 DEF HandoffInv
<1>7. ShownPhase' = ShownPhase
  BY <1>1, <1>6, PhaseIsRead, NextPhaseIsRead
<1>8. ShownAck' = ShownAck
  BY <1>1, <1>2, <1>6, AckMoves
<1> QED
  BY <1>6, <1>7, <1>8 DEF PromiseStep

LEMMA AcknowledgeGood == ASSUME HandoffInv, Acknowledge PROVE HandoffInv' /\ PromiseStep
<1>1. /\ st' = [st EXCEPT !.ack = ~@] /\ st.handoff /\ st.open /\ committed' = st' /\ committed = st
      /\ UNCHANGED <<host, decision, cur, fate, loc, blocker, held, effectDue, leaving>>
  BY DEF Acknowledge, Shows, Settled, router
<1>2. (~st.ack) \in BOOLEAN
  OBVIOUS
<1>3. /\ st' \in DialogState /\ st'.open = st.open /\ st'.handoff = st.handoff
      /\ st'.pending = st.pending /\ st'.ack = ~st.ack
  BY <1>1, <1>2 DEF HandoffInv, DialogTypeOK, DialogState
<1>4. PICK c \in Creates : c = cur
  BY <1>1 DEF HandoffInv, CurrentInv, DialogTypeOK, Creates
<1>5. DialogTypeOK'
  BY <1>1, <1>3 DEF HandoffInv, DialogTypeOK
<1>6. CurrentInv'
  BY <1>1, <1>3 DEF HandoffInv, CurrentInv, Alive
<1>7. GuardInv'
  BY <1>1, <1>3 DEF HandoffInv, GuardInv
<1>8. HandoffInv'
  BY <1>5, <1>6, <1>7 DEF HandoffInv
<1>9. ShownPhase' = ShownPhase
  BY <1>1, <1>8, PhaseIsRead, NextPhaseIsRead
<1>10. ShownPhase[c] = "readable"
  <2>1. fate[c] = "shown" /\ Read("shown") = "readable"
    BY <1>1, <1>4, MaxCreatesAssumption DEF HandoffInv, CurrentInv, Read, Creates
  <2> QED
    BY <2>1, PhaseIsRead
<1>11. ShownAck' = [ShownAck EXCEPT ![c] = ~ShownAck[c]]
  BY <1>1, <1>3, <1>4, <1>8, AckMoves
<1>12. Promise!Tick(c)
  BY <1>9, <1>10, <1>11 DEF Promise!Tick
<1> QED
  BY <1>8, <1>12 DEF PromiseStep, Promise!Next

-----------------------------------------------------------------------------
(* The refinement.                                                          *)

LEMMA InitGood == ASSUME DialogInit PROVE HandoffInv /\ Promise!Init
<1>1. DialogTypeOK
  <2>1. host \in HostState
    BY DEF DialogInit, HostState
  <2>2. fate \in [Creates -> Fates] /\ cur \in 0 .. MaxCreates
    BY MaxCreatesAssumption DEF DialogInit, Fates
  <2> QED
    BY <2>1, <2>2, ClosedFacts DEF DialogInit, DialogTypeOK, HostState, Places
<1>2. CurrentInv /\ GuardInv
  BY ClosedFacts DEF DialogInit, CurrentInv, GuardInv, Alive
<1>3. HandoffInv
  BY <1>1, <1>2 DEF HandoffInv
<1>4. ShownPhase = [c \in Creates |-> "unused"]
  BY <1>3, PhaseIsRead DEF DialogInit, Read
<1>5. ShownAck = [c \in Creates |-> FALSE]
  BY <1>3, AckIsHeld, ClosedFacts DEF DialogInit
<1> QED
  BY <1>3, <1>4, <1>5 DEF Promise!Init

LEMMA StutterGood == ASSUME HandoffInv, UNCHANGED dialogVars PROVE HandoffInv' /\ PromiseStep
<1>1. DialogTypeOK' /\ Kept /\ GuardInv'
  BY DEF dialogVars, HandoffInv, DialogTypeOK, CurrentInv, GuardInv, Kept
<1> QED
  BY <1>1, KeptGood

LEMMA StepGood == HandoffInv /\ [DialogNext]_dialogVars => HandoffInv' /\ PromiseStep
<1> SUFFICES ASSUME HandoffInv, [DialogNext]_dialogVars
             PROVE  HandoffInv' /\ PromiseStep
  OBVIOUS
<1>1. CASE OpenCreate \/ ListLoads \/ ListFails \/ GatewayDeleting
  BY <1>1, HostStepsGood
<1>2. CASE Commit
  BY <1>2, CommitGood
<1>3. CASE SubmitAccount
  BY <1>3, SubmitGood
<1>4. CASE Created
  BY <1>4, CreatedGood
<1>5. CASE CreateFails
  BY <1>5, CreateFailsGood
<1>6. CASE Refreshed
  BY <1>6, RefreshedGood
<1>7. CASE Acknowledge
  BY <1>7, AcknowledgeGood
<1>8. CASE RequestClose
  BY <1>8, RequestCloseGood
<1>9. CASE Finish
  BY <1>9, FinishGood
<1>10. CASE Leave
  BY <1>10, LeaveGood
<1>11. CASE Return
  BY <1>11, ReturnGood
<1>12. CASE RouteEffect
  BY <1>12, RouteEffectGood
<1>13. CASE Reload
  BY <1>13, ReloadGood
<1>14. CASE EditAccountName \/ ChooseRole \/ ChooseTerm
  BY <1>14, FormGood
<1>15. CASE \E t \in {"accounts", "tab"} : ChangeTab(t)
  BY <1>15, ChangeTabGood
<1>16. CASE \E t \in Places : Navigate(t)
  BY <1>16, NavigateGood
<1>17. CASE UNCHANGED dialogVars
  BY <1>17, StutterGood
<1> QED
  BY <1>1, <1>2, <1>3, <1>4, <1>5, <1>6, <1>7, <1>8, <1>9, <1>10, <1>11, <1>12, <1>13, <1>14, <1>15,
     <1>16, <1>17 DEF DialogNext

\* Every behaviour of the dialog, its host and the router keeps the promise of a
\* one-time secret (isProtected, confirmLeave, useBlocker, beforeunload): a secret
\* is read in one period, and ends saved, given up by a confirmed choice, or in one
\* of the two gaps that no guard covers, whatever the number of requests.
THEOREM SecretIsHandedOverOnce == Spec => SecretShownOnce
<1>1. Init => HandoffInv /\ Promise!Init
  BY PagesStart, InitGood
<1>2. HandoffInv /\ [Next]_vars => HandoffInv' /\ [Promise!Next]_<<ShownPhase, ShownAck>>
  BY PagesStep, StepGood DEF PromiseStep
<1> QED
  BY <1>1, <1>2, PTL DEF Spec, SecretShownOnce, Promise!Spec
=============================================================================
