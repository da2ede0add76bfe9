---------------------------- MODULE BrowserRuntime ----------------------------
(***************************************************************************)
(* What runs beneath the pages of the console in one browser: the calls to *)
(* the control plane with their probes, and the telemetry runtime with its *)
(* exporter and its meter.  The composition creates one runtime for the    *)
(* calls.  What that runtime and its meter report as lost or invalid goes  *)
(* to the fan-out of the calls' probes, which counts it with the failures  *)
(* of its own sinks; the spans of the probes are among its records.        *)
(*                                                                         *)
(* The parts interleave freely.  A behaviour follows some of them, the     *)
(* others keep their first state; together they are bounded more narrowly. *)
(***************************************************************************)
EXTENDS GatewayOperations, TelemetryExport, BoundedMeter

CONSTANTS
  GatewayRuntime,  \* the runtime of gateway-composition.ts
  Together,        \* the sets of parts a behaviour may follow
  JointUses,       \* bound: the uses where parts are joined
  JointConfigs,    \* bound: the configurations there
  JointCalls,      \* bound: the calls that may begin there
  JointRuntimes,   \* bound: the runtimes that may be created there
  JointRecords,    \* bound: records made there
  JointCallbacks   \* bound: callbacks registered there

Parts == {"calls", "export", "meter"}

ASSUME CompositionAssumption ==
  /\ GatewayRuntime \in Runtimes
  /\ Together \subseteq SUBSET Parts

VARIABLE parts   \* the parts the behaviour follows

runtimeVars == <<parts, vars, exportVars, meterVars>>
callVars == <<call, active, wire, applied, signedIn, ended, login>>

Joint == Cardinality(parts) > 1

RuntimeInit ==
  /\ parts \in Together
  /\ Init /\ TelemetryInit /\ MeterInit
  /\ "calls" \notin parts =>
       call = [c \in Calls |-> Idle((CHOOSE use \in Uses : TRUE)[c])]
  /\ "export" \notin parts => config = NoConfig
  /\ Joint => config \in JointConfigs
             /\ \E use \in JointUses : \A c \in Calls : call[c].op = use[c]

\* The composition creates its runtime before it has operations or a meter.
Composed == "export" \in parts => tele[GatewayRuntime].life # "none"

Narrow ==
  Joint =>
    /\ \A c \in Calls : call[c].at = "idle" \/ c \in JointCalls
    /\ \A i \in Runtimes : tele[i].life = "none" \/ i \in JointRuntimes
    /\ Cardinality(Made) <= JointRecords
    /\ callbackCount <= JointCallbacks

Calling(A) ==
  /\ "calls" \in parts
  /\ Composed
  /\ A
  /\ UNCHANGED <<parts, exportVars, meterVars>>

\* What the composition's runtime reports goes to the fan-out.
Exporting(A) ==
  /\ "export" \in parts
  /\ A
  /\ probes' = reportDeliveryFailure(probes,
                 tele'[GatewayRuntime].reported - tele[GatewayRuntime].reported)
  /\ UNCHANGED <<parts, callVars, meterVars>>

Metering(A) ==
  /\ "meter" \in parts
  /\ Composed
  /\ A
  /\ probes' = reportDeliveryFailure(probes, invalid' - invalid)
  /\ UNCHANGED <<parts, callVars, exportVars>>

RuntimeNext ==
  /\ Calling(Next) \/ Exporting(TelemetryNext) \/ Metering(MeterNext)
  /\ Narrow'

RuntimeSpec == RuntimeInit /\ [][RuntimeNext]_runtimeVars

\* The browser's timers run out and its promise reactions run; the server, the
\* network and the user owe nothing.
RuntimeFairSpec ==
  /\ RuntimeSpec
  /\ \A c \in Calls :
       WF_vars(Calling(TimesOut(c))) /\ WF_vars(Calling(Settle(c)))
  /\ \A i \in Runtimes : WF_exportVars(Exporting(TelemetryProgress(i)))

\* Type invariant: of the three parts.
RuntimeTypeOK == TypeOK /\ TelemetryTypeOK /\ MeterTypeOK

\* deliveryFailureCount is the number of deliveries of probes that did not
\* happen, of losses that the composition's runtime reported, and of invalid
\* records of its meter, in whatever order they come: a sink that throws keeps
\* no other sink from a probe, and a late report is neither lost nor counted
\* twice (the fan-out's publish and reportDeliveryFailure).
FailuresAccounted ==
  probes.failures = Missed + tele[GatewayRuntime].reported + invalid

\* Probes and spans are delivered and ended, or their loss is counted.
ProbesAccounted == FailuresAccounted /\ SpansAccounted

\* The limits of the telemetry runtime hold under any use: on instances,
\* callbacks, observations, and the share of traces.
LimitsHold == InstancesExact /\ CallbacksExact /\ BufferBounded /\ SamplingCapped

\* One deadline covers a session request and what follows it, so every call
\* and every shutdown settles whatever the server does.
DeadlinesHold == CallsSettle /\ ShutdownEnds
=============================================================================
