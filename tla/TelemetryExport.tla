--------------------------- MODULE TelemetryExport ---------------------------
(***************************************************************************)
(* The export of spans by the browser's telemetry runtime: the instances   *)
(* of a page and their limit, the exporter of one signal with its single   *)
(* pending request and its five second deadline, the flush that a hidden   *)
(* page triggers, the shutdown, and the reports of what was lost.          *)
(*                                                                         *)
(* The batch processor is OpenTelemetry's.  It queues records up to a      *)
(* limit, exports one batch at a time when its timer runs out, and every   *)
(* batch at once in a flush.  One record stands for a batch; the signals   *)
(* differ in nothing else.  A batch may be rejected in part: it is lost.   *)
(***************************************************************************)
EXTENDS Naturals, FiniteSets

CONSTANTS
  Runtimes,      \* the calls of createBrowserTelemetry of one page
  MaxInstances,  \* instances that may be live at once (4)
  MaxQueue,      \* records the processor holds (256)
  Configs,       \* what the page's runtime configuration may be
  Ratios,        \* sample ratios, in units
  MaxRecords     \* bound: the records of the page

VARIABLES
  config,     \* the page's meta elements: none, unreadable, or settings
  instances,  \* the live instances, as the module counts them
  tele        \* each runtime

exportVars == <<config, instances, tele>>

-----------------------------------------------------------------------------
NoConfig == [nodes |-> 0, traces |-> FALSE, ratio |-> 0]
Unreadable == [nodes |-> 2, traces |-> FALSE, ratio |-> 0]
NoOverride == 9

ASSUME TelemetryAssumption ==
  /\ IsFiniteSet(Runtimes)
  /\ MaxInstances \in Nat \ {0} /\ MaxQueue \in Nat \ {0} /\ MaxRecords \in Nat
  /\ Ratios \subseteq 0..(NoOverride - 1)
  /\ Configs \subseteq [nodes : 0..2, traces : BOOLEAN, ratio : 0..(NoOverride - 1)]

browserSettings(c, override) ==
  CASE c.nodes = 0 /\ override = NoOverride -> [traces |-> FALSE, ratio |-> 0]
    [] c.nodes = 0 /\ override # NoOverride -> [traces |-> TRUE, ratio |-> override]
    [] c.nodes > 1 -> [traces |-> FALSE, ratio |-> 0]
    [] OTHER -> [traces |-> c.traces,
                 ratio |-> IF ~c.traces THEN 0
                           ELSE IF override < c.ratio THEN override
                           ELSE c.ratio]

\* Reports of the processor's own meter: of its losses, those of the queue.
\* Mutant: the meter reports what the exporter reports as well.
queueReportAll(reason) == 1

queueReport(reason) == IF reason = "queue_full" THEN 1 ELSE 0

-----------------------------------------------------------------------------
Absent == [life |-> "none", ratio |-> 0, queue |-> 0, send |-> "idle",
           owner |-> "timer", flush |-> FALSE, drained |-> FALSE,
           drainFailed |-> FALSE, stopped |-> FALSE, made |-> 0,
           handed |-> 0, succeeded |-> 0, dropped |-> 0, reported |-> 0]

\* The records made so far, numbered for each runtime.
Made == {p \in Runtimes \X (1..MaxRecords) : p[2] <= tele[p[1]].made}

InFlight(r) == r.send \in {"session", "post"}
Awaits(r, who) == InFlight(r) /\ r.owner = who
Settled(r) == r.life \in {"resolved", "rejected"}

\* finish(FAILED) of n batches: the exporter reports each one, and the
\* processor's meter counts it.
Lost(r, n) ==
  [r EXCEPT !.reported = @ + n * (1 + queueReport("export_failed"))]

\* export() of n batches one after the other.  One is taken at most, when
\* none is pending and the exporter is not stopped; a batch that is too large
\* is refused like one that comes too early.
Export(r, n, who) ==
  {[Lost(r, n) EXCEPT !.queue = @ - n, !.handed = @ + n]} \cup
  (IF r.stopped \/ r.send # "idle" \/ n = 0 THEN {}
   ELSE {[Lost(r, n - 1) EXCEPT !.queue = @ - n, !.handed = @ + n,
                                !.send = "session", !.owner = who]})

TelemetryInit ==
  /\ config \in Configs
  /\ instances = 0
  /\ tele = [i \in Runtimes |-> Absent]

createBrowserTelemetry(i) ==
  /\ tele[i].life = "none"
  /\ instances < MaxInstances
  /\ instances' = instances + 1
  /\ \E override \in Ratios \cup {NoOverride} :
       tele' = [tele EXCEPT ![i].life = "open",
                  ![i].ratio = browserSettings(config, override).ratio]
  /\ config' = config

\* A sampled span ends.  The processor keeps it while it has room and has not
\* been shut down.
Record(i) ==
  LET r == tele[i]
  IN /\ r.life \in {"open", "closing"}
     /\ ~r.drained
     /\ r.ratio > 0
     /\ Cardinality(Made) < MaxRecords
     /\ tele' = [tele EXCEPT ![i] =
          IF r.queue < MaxQueue
          THEN [r EXCEPT !.made = @ + 1, !.queue = @ + 1]
          ELSE [r EXCEPT !.made = @ + 1, !.dropped = @ + 1,
                         !.reported = @ + queueReport("queue_full")]]
     /\ UNCHANGED <<config, instances>>

\* The processor's timer runs out; it awaits the batch before it sets the next.
ExportBatch(i) ==
  /\ tele[i].queue > 0
  /\ ~Awaits(tele[i], "timer")
  /\ \E r \in Export(tele[i], 1, "timer") : tele' = [tele EXCEPT ![i] = r]
  /\ UNCHANGED <<config, instances>>

\* The session allows the upload: the batch is posted.
SessionReceived(i) ==
  /\ tele[i].send = "session"
  /\ tele' = [tele EXCEPT ![i].send = "post"]
  /\ UNCHANGED <<config, instances>>

\* The collector has taken the whole batch.
ExportSucceeds(i) ==
  /\ tele[i].send = "post"
  /\ tele' = [tele EXCEPT ![i].send = "settled", ![i].succeeded = @ + 1]
  /\ UNCHANGED <<config, instances>>

Failed(r) ==
  [Lost(r, 1) EXCEPT !.send = "settled",
                     !.drainFailed = @ \/ (r.drained /\ r.owner = "flush")]

\* Either request fails, or its answer is not what it must be.
ExportFails(i) ==
  /\ InFlight(tele[i])
  /\ tele' = [tele EXCEPT ![i] = Failed(tele[i])]
  /\ UNCHANGED <<config, instances>>

\* One deadline for both requests.
Deadline(i) ==
  /\ InFlight(tele[i])
  /\ tele' = [tele EXCEPT ![i] = Failed(tele[i])]
  /\ UNCHANGED <<config, instances>>

\* The task leaves pending, a turn after it called the processor back.
Forget(i) ==
  /\ tele[i].send = "settled"
  /\ tele' = [tele EXCEPT ![i].send = "idle"]
  /\ UNCHANGED <<config, instances>>

\* forceFlush(), also for a hidden page: one flush at a time.
forceFlush(i) ==
  /\ tele[i].life = "open"
  /\ ~tele[i].flush
  /\ \E r \in Export(tele[i], tele[i].queue, "flush") :
       tele' = [tele EXCEPT ![i] = [r EXCEPT !.flush = TRUE]]
  /\ UNCHANGED <<config, instances>>

FlushSettles(i) ==
  /\ tele[i].flush
  /\ ~Awaits(tele[i], "flush")
  /\ tele' = [tele EXCEPT ![i].flush = FALSE]
  /\ UNCHANGED <<config, instances>>

\* Mutant: every call starts a shutdown.
shutdownAgain(i) ==
  /\ tele[i].life # "none"
  /\ tele' = [tele EXCEPT ![i].life = "closing"]
  /\ UNCHANGED <<config, instances>>

\* The first call starts the shutdown, the later ones share it.
shutdown(i) ==
  /\ tele[i].life # "none"
  /\ tele' = [tele EXCEPT ![i].life = IF @ = "open" THEN "closing" ELSE @]
  /\ UNCHANGED <<config, instances>>

\* Once a flush has ended, the processor hands over what it still holds.
Drain(i) ==
  LET n == tele[i].queue
  IN /\ tele[i].life = "closing"
     /\ ~tele[i].flush
     /\ ~tele[i].drained
     /\ \E r \in Export(tele[i], n, "flush") :
          tele' = [tele EXCEPT ![i] =
            [r EXCEPT !.drained = TRUE,
                      !.drainFailed = n > 1 \/ (n = 1 /\ ~Awaits(r, "flush"))]]
     /\ UNCHANGED <<config, instances>>

\* The exporter is stopped when the processor's own batches have ended.
StopExporter(i) ==
  /\ tele[i].life = "closing"
  /\ tele[i].drained
  /\ ~tele[i].stopped
  /\ ~Awaits(tele[i], "flush")
  /\ tele' = [tele EXCEPT ![i].stopped = TRUE]
  /\ UNCHANGED <<config, instances>>

Closed(i) ==
  /\ tele' = [tele EXCEPT ![i].life =
                IF tele[i].drainFailed THEN "rejected" ELSE "resolved"]
  /\ instances' = instances - 1
  /\ config' = config

\* The exporter waits for what is pending.
ShutdownSettles(i) ==
  /\ tele[i].life = "closing"
  /\ tele[i].stopped
  /\ tele[i].send = "idle"
  /\ Closed(i)

\* A processor that lost a batch may give up before it stops the exporter.
ShutdownGivesUp(i) ==
  /\ tele[i].life = "closing"
  /\ tele[i].drainFailed
  /\ ~tele[i].stopped
  /\ Closed(i)

TelemetryNext ==
  \E i \in Runtimes :
    \/ createBrowserTelemetry(i) \/ Record(i) \/ ExportBatch(i)
    \/ SessionReceived(i) \/ ExportSucceeds(i) \/ ExportFails(i) \/ Deadline(i)
    \/ Forget(i) \/ forceFlush(i) \/ FlushSettles(i)
    \/ shutdown(i) \/ Drain(i) \/ StopExporter(i)
    \/ ShutdownSettles(i) \/ ShutdownGivesUp(i)

\* Timers run out and promise reactions run.
TelemetryProgress(i) ==
  Deadline(i) \/ Forget(i) \/ FlushSettles(i) \/ Drain(i) \/ StopExporter(i)
    \/ ShutdownSettles(i)

-----------------------------------------------------------------------------
\* Properties.

TelemetryTypeOK ==
  /\ config \in Configs
  /\ instances \in 0..MaxInstances
  /\ \A i \in Runtimes :
       LET r == tele[i]
       IN /\ r.life \in {"none", "open", "closing", "resolved", "rejected"}
          /\ r.queue \in 0..MaxQueue
          /\ r.send \in {"idle", "session", "post", "settled"}
          /\ r.owner \in {"timer", "flush"}
          /\ {r.made, r.handed, r.succeeded, r.dropped} \subseteq 0..MaxRecords

\* Every record that does not reach the collector is reported, and once:
\* a full queue by the processor's meter, a failed batch by the exporter
\* alone (finish, healthMeter and queueReport share the work), however the
\* timer, a flush and the shutdown hand batches over.
LossReportedOnce ==
  \A i \in Runtimes :
    LET r == tele[i]
        failed == r.handed - r.succeeded - (IF InFlight(r) THEN 1 ELSE 0)
    IN r.reported = r.dropped + failed

\* The count that limits the instances is that of the runtimes created and not
\* yet shut down: repeated calls of shutdown() give a place back once, and a
\* shutdown that fails gives it back too.
InstancesExact ==
  instances = Cardinality({i \in Runtimes : tele[i].life \in {"open", "closing"}})

\* A shutdown that resolves has told the truth: no request is under way, and
\* every record made was taken by the collector or reported as lost.
ResolvedIsComplete ==
  \A i \in Runtimes :
    tele[i].life = "resolved" =>
      /\ ~InFlight(tele[i])
      /\ tele[i].made = tele[i].succeeded + tele[i].reported

\* An application may ask for fewer spans than the page's configuration
\* allows, never for more, and a configuration that cannot be read allows
\* none (browserSettings).
SamplingCapped ==
  \A i \in Runtimes :
    config.nodes > 0 =>
      tele[i].ratio <= IF config.traces THEN config.ratio ELSE 0

\* A shutdown settles, whatever the server does with the requests that are
\* under way: the deadline ends each of them, and so a flush.
ShutdownEnds ==
  \A i \in Runtimes : tele[i].life = "closing" ~> Settled(tele[i])

\* No record is lost unnoticed, counted twice, or behind a shutdown that resolved.
LossesAccounted == LossReportedOnce /\ ResolvedIsComplete
=============================================================================
