----------------------------- MODULE BoundedMeter -----------------------------
(***************************************************************************)
(* The meter that the browser's telemetry runtime hands to applications:   *)
(* a limit on instruments, one on the callbacks of observable instruments  *)
(* and of batches together, and a budget of observations for each run of a *)
(* callback, because the SDK buffers what callbacks observe before it      *)
(* applies limits of its own.                                              *)
(*                                                                         *)
(* The SDK runs, in a collection, the callbacks registered when it starts; *)
(* a callback may add and remove callbacks while it runs.  Instruments are *)
(* observable.  Not modelled: callbacks that observe after they returned.  *)
(***************************************************************************)
EXTENDS Naturals, FiniteSets

CONSTANTS
  Names,           \* names of instruments
  Callbacks,       \* the application's functions
  MaxInstruments,  \* 32 in the code
  MaxCallbacks,    \* 32
  Budget,          \* 32 observations
  MaxInvalid       \* bound: reports of invalid records

ASSUME MeterAssumption ==
  {MaxInstruments, MaxCallbacks, Budget, MaxInvalid} \subseteq Nat

VARIABLES
  instruments,    \* the instruments created
  registered,     \* callbacks (of one instrument) and batches (of several)
  callbackCount,  \* the code's count of both
  sdk,            \* what the SDK holds
  todo,           \* callbacks the collection under way has still to run
  running,        \* the callback that runs, if any
  remaining,      \* its budget
  buffered,       \* observations the SDK holds of this collection
  invalid         \* invalid records reported

meterVars == <<instruments, registered, callbackCount, sdk, todo, running,
               remaining, buffered, invalid>>

registryVars == <<instruments, registered, callbackCount, sdk>>
collectionVars == <<todo, running, remaining, buffered>>

-----------------------------------------------------------------------------
\* A callback of an instrument, and one of a batch with its selection as a set.
OfInstrument(n, f) == [kind |-> "callback", of |-> {n}, run |-> f]
OfBatch(ns, f) == [kind |-> "batch", of |-> ns, run |-> f]
Registrations ==
  {OfInstrument(n, f) : n \in Names, f \in Callbacks} \cup
  {OfBatch(ns, f) : ns \in (SUBSET Names) \ {{}}, f \in Callbacks}
Nothing == [kind |-> "none", of |-> {}, run |-> "none"]

Invalid == invalid < MaxInvalid /\ invalid' = invalid + 1

\* Lookups of observables that this meter made; a batch of others is invalid.
selectedObservables(ns) == ns # {} /\ ns \subseteq instruments

MeterInit ==
  /\ instruments = {} /\ registered = {} /\ callbackCount = 0 /\ sdk = {}
  /\ todo = {} /\ running = Nothing /\ remaining = 0 /\ buffered = 0
  /\ invalid = 0

createInstrument(n) ==
  /\ \/ /\ n \in instruments \/ Cardinality(instruments) < MaxInstruments
        /\ instruments' = instruments \cup {n}
        /\ invalid' = invalid
     \/ /\ n \notin instruments /\ Cardinality(instruments) >= MaxInstruments
        /\ Invalid
        /\ instruments' = instruments
  /\ UNCHANGED <<registered, callbackCount, sdk, collectionVars>>

\* What is already there is left, what would pass the limit is refused.
Register(g) ==
  \/ /\ g \notin registered /\ callbackCount < MaxCallbacks
     /\ registered' = registered \cup {g}
     /\ sdk' = sdk \cup {g}
     /\ callbackCount' = callbackCount + 1
     /\ invalid' = invalid
  \/ /\ g \notin registered /\ callbackCount >= MaxCallbacks
     /\ Invalid
     /\ UNCHANGED <<registered, sdk, callbackCount>>

addCallback(n, f) ==
  /\ n \in instruments
  /\ Register(OfInstrument(n, f))
  /\ UNCHANGED <<instruments, collectionVars>>

addBatchObservableCallback(ns, f) ==
  /\ \/ /\ selectedObservables(ns)
        /\ Register(OfBatch(ns, f))
     \/ /\ ~selectedObservables(ns)
        /\ Invalid
        /\ UNCHANGED <<registered, sdk, callbackCount>>
  /\ UNCHANGED <<instruments, collectionVars>>

Unregister(g) ==
  /\ g \in registered
  /\ registered' = registered \ {g}
  /\ sdk' = sdk \ {g}
  /\ callbackCount' = callbackCount - 1

removeCallback(n, f) ==
  /\ n \in instruments
  /\ Unregister(OfInstrument(n, f))
  /\ UNCHANGED <<instruments, collectionVars, invalid>>

removeBatchObservableCallback(ns, f) ==
  /\ selectedObservables(ns)
  /\ Unregister(OfBatch(ns, f))
  /\ UNCHANGED <<instruments, collectionVars, invalid>>

-----------------------------------------------------------------------------
\* A collection by the SDK.
Collect ==
  /\ running = Nothing /\ todo = {} /\ sdk # {}
  /\ todo' = sdk
  /\ buffered' = 0
  /\ UNCHANGED <<registryVars, running, remaining, invalid>>

\* The wrapper gives each run a budget of its own.
Run(g) ==
  /\ running = Nothing /\ g \in todo
  /\ running' = g
  /\ remaining' = Budget
  /\ UNCHANGED <<registryVars, todo, buffered, invalid>>

\* A point of a selected instrument, within the budget.
Accepts(valid, n) == valid /\ n \in running.of /\ remaining > 0

observe(n, valid) ==
  /\ running # Nothing
  /\ \/ /\ Accepts(valid, n)
        /\ remaining' = remaining - 1
        /\ buffered' = buffered + 1
        /\ invalid' = invalid
     \/ /\ ~Accepts(valid, n)
        /\ Invalid
        /\ UNCHANGED <<remaining, buffered>>
  /\ UNCHANGED <<registryVars, todo, running>>

RunEnds ==
  /\ running # Nothing
  /\ running' = Nothing
  /\ remaining' = 0
  /\ todo' = todo \ {running}
  /\ UNCHANGED <<registryVars, buffered, invalid>>

MeterNext ==
  \/ \E n \in Names : createInstrument(n)
  \/ \E n \in Names, f \in Callbacks : addCallback(n, f) \/ removeCallback(n, f)
  \/ \E ns \in SUBSET Names, f \in Callbacks :
       addBatchObservableCallback(ns, f) \/ removeBatchObservableCallback(ns, f)
  \/ Collect
  \/ \E g \in Registrations : Run(g)
  \/ \E n \in Names, valid \in BOOLEAN : observe(n, valid)
  \/ RunEnds

-----------------------------------------------------------------------------
\* Properties.

MeterTypeOK ==
  /\ instruments \subseteq Names /\ Cardinality(instruments) <= MaxInstruments
  /\ registered \subseteq Registrations /\ sdk \subseteq Registrations
  /\ todo \subseteq Registrations
  /\ running \in Registrations \cup {Nothing}
  /\ callbackCount \in Nat /\ remaining <= Budget /\ buffered \in Nat

\* The count that limits callbacks is that of what is registered, with the
\* SDK as with the wrapper, through any order of adding and removing, twice or
\* what was never there: it neither locks applications out nor lifts the limit.
CallbacksExact ==
  /\ callbackCount = Cardinality(registered)
  /\ sdk = registered
  /\ callbackCount <= MaxCallbacks

\* What one collection makes the SDK buffer is bounded, whatever callbacks
\* observe, add and remove while it runs: the aim of observationBudget.
BufferBounded == buffered <= MaxCallbacks * Budget
=============================================================================
