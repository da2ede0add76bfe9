SPECIFICATION FairSpec
CONSTANTS
  Clusters = {"east", "west"}
  Hub = "hub"
  Null = "null"
  Texts <- MCTexts
  Trimmed <- MCTrimmed
  HubTexts = {""}
  Matches <- MCMatches
  MaxEdits = 1
  MaxVisits = 2
  Safe = {"w", "x", "P", "M", "S"}
  Unsafe <- MCUnsafe
  Markers <- MCMarkers
  Records <- MCRecords
  Default <- MCDefault
  Pasted <- MCPasted
  MaxChanges = 1
  MaxWrites = 2
  MaxCreates = 2
INVARIANTS SentAsShown CommandsReadAsMeant CopiesAreHonest
PROPERTIES ChosenFromSearch PagesSettle SecretShownOnce
CHECK_DEADLOCK FALSE
