# A verification development for kcover

kcover watches the training jobs of a Kubernetes cluster. A controller, of which
several processes run and one leads, restarts jobs whose pods fail and takes bad
nodes out of scheduling; an agent on each node checks the node and hands over the
reports that preflight runs leave there. This directory holds TLA+ modules of
that program, the TLC configurations that check them, and TLAPS proofs.
`PROJECT.json` lists the parts of the program, the runs, a mutant for every
property, the source lines behind every definition, the hazards and the findings.

## 1. The system

| part | source | state | operations |
|---|---|---|---|
| container error rule | `pkg/detector/pod` | none | a pod update becomes an event if a container has terminated with an error |
| pod observer | `pkg/podobserver` | informer, goroutine | start, stop, initial list, add, update, publish |
| Event sink, transport | `pkg/events` | channel of one event, queue, two goroutines | record an event; filter, forward, stop |
| recovery controller | `pkg/recovery` | ledger (a ConfigMap), aggregator, label cache | one goroutine: events, reports, ticker |
| restart ledger | `pkg/recovery/job_restart_ledger.go` | last restart per job | `allowRestart`, a read-modify-write with retries |
| slow node aggregator | `pkg/preflight/slow_node_aggregator.go` | incomplete report collections | add a report, sweep |
| slow node detection | `pkg/preflight/slow_node_detection.go` | none | the verdict on a complete collection |
| report parser, validation | `pkg/preflight/report_*.go` | none | compact, wrap, validate, extract a report |
| report publisher | `pkg/preflight/report_publisher.go` | pending reports, rate-limited queue, worker | submit, write, retry, start, stop |
| report watcher | `pkg/preflight/report_transport.go` | informer, channel of 128 | start with a sync timeout, forward, stop |
| report collector | `cmd/agent/preflight_rule.go` | files on the node's disk | reconcile a pod whose preflight has ended |
| node detector | `pkg/detector/node` | timer, channel of one event | daily check, record |
| quarantine of nodes | `pkg/kube/kube.go` | Node objects | `TaintNodeUnschedulable`, a read-modify-write |
| controller and agent apps | `cmd/` | components, mutex, lease | start, roll back, stop, leader election |

How they interact:

* The pod detector, the transport, the recovery controller and the report watcher
  run in the leading controller. The detector *records* a Kubernetes Event, the
  transport *watches* Events and passes them on, so every failure takes a way
  through the API server, where it survives the process and is replayed to the
  next leader for three minutes.
* The recovery controller takes one event or report at a time. For a failed pod it
  looks at labels and restart policy, asks the ledger, and deletes the job's pods.
  The training operator creates them anew under the same names.
* A preflight report goes from a file through collector, publisher, API server,
  watcher and aggregator to a verdict; slow nodes are cordoned and tainted.
* The agent's daily check becomes a node Event, which cordons its node.

What is hard: reads and writes of API objects that others write at the same time;
a leader deposed in the middle of them; answers lost after a write was applied;
events observed twice, late, out of order and again by the next leader; retries
that must neither forget nor repeat; channels that are closed while others send;
report collections that are incomplete, late, or mixed with those of another run.

For each part, what makes it correct:

* ledger: no restart of a job within the window of a call that was granted one, none
  granted and forgotten, no job suppressed for longer than its window;
* recovery: a restart only for a failure, and not for what a restart sets off itself;
  one for every failure;
* transport: each event at most once, none lost while it runs, and nobody left to
  send when its channel is closed;
* controller process: what is started is stopped, by Stop or by the rollback of
  Start; a leader does not idle, a process whose lease or context is gone ends;
* aggregator: a verdict from one run's reports only, one for every complete run,
  no collection that stays for ever; detection: the documented verdict;
* payload: agent and controller agree on what a report says;
* publisher, collector and agent: what a pod reported is stored, whatever happens
  to the agent, under its own run, and is observed once; SIGTERM ends the agent;
* daily check: a GPU is judged by its own last reading, the next check is the next;
* quarantine: each finding marks its node once, and nobody's change is undone.

## 2. Modules

| module | models | composed with |
|---|---|---|
| `RestartThrottle` | abstract: a job is granted a restart `Spacing` after the call granted before it began | refined by `JobRestartLedger` |
| `RestartWindow` | what `allowRestart` computes from the ledger's data and a time | extended by the next two |
| `JobRestartLedger` | `allowRestart` in several processes | `MCJobRestartLedger`, `JobRestartLedgerProofs` |
| `PodRecovery` | failure, observation, Event, decision, graceful deletion, changes of leader | `MCPodRecovery`, `PodRecoveryProofs` |
| `KubeEventTransport` | channel, queue, forwarder, Stop | `KubeEventTransportProofs` |
| `ControllerLifecycle` | the controller's process: election, Start, rollback, Stop, the goroutines of its four components | extends `KubeEventTransport`; `ControllerLifecycleProofs` |
| `SlowNodeDetection` | `detectSlowNodes`, and what its comment says | |
| `PreflightPayload` | `CompactReport`, `reconcile`, `validateReport`, `extractNodeReport` | |
| `PreflightVerdict` | a workload's reports from the texts on its nodes to the verdict | extends `PreflightPayload`, an instance of `SlowNodeDetection`; `MCJudgements`, `JudgementsProofs` |
| `SlowNodeAggregator` | `AddReportForWorkload`, sweep, replay | extends `SlowNodeDetection`; `MCSlowNodeAggregator`, `SlowNodeAggregatorProofs` |
| `MetaXChecks` | the daily check: its timer, its tools, their parsers and verdicts | `MCJudgements`, `JudgementsProofs` |
| `MCJudgements` | instance of both: a behaviour is about one workload or one node's checks | extends `PreflightVerdict`, `MetaXChecks` |
| `ReportPublisher` | the publisher, its work queue and `WriteReport` | |
| `ReportCollection` | one agent: preflight pods, report files, collector, publisher, garbage collection, exit and restart | extends `ReportPublisher`; `MCReportCollection`, `ReportCollectionProofs` |
| `NodeMarking` | abstract: marking a node is one step, for which there is cause | refined by the next |
| `NodeQuarantine` | daily checks, verdicts, `TaintNodeUnschedulable` | `NodeQuarantineProofs` |

State and actions correspond to the code as follows.

* **JobRestartLedger.** `data` is the ConfigMap's data, `call[c]` what process `c`
  holds in the local variables of `allowRestart`, `current` the processes whose copy
  still has the resourceVersion. An action is one request of the call, its outcome
  and all that follows up to the next request: not found, denied or free after the
  Get; created, already existing, updated, conflict; an error, with the write
  applied or not. Time passes under the request's ten-second deadline.
* **PodRecovery.** `noticed` holds what the rule has seen and the sink has not yet
  recorded, `lastEvent` the Events in the cluster, `queue` what the transport has
  forwarded, `calls[t]` where `onPodError` is in the process that leads in term `t`:
  a deposed leader may finish the call it is in. `AskLedger` is the ledger's reading of
  the clock; its requests, which come any time later, are one step, as no write comes
  between a Get and the Update that is accepted (`JobRestartLedger`), and the step
  judges and records with the time that was read. Deletion is graceful: `RestartJob`
  sets `goneBy`, the pods stay until `Gone`, their containers may be seen to end with an
  error before that (`Stopped`), and only then are they created anew. `broken` and
  `lost` are history. Queues are sets, since the transport keeps no order.
* **KubeEventTransport.** One program counter per goroutine and one for Stop;
  `select` is one action per case, the default case only if no other is ready.
* **ControllerLifecycle.** `starter` and `stopper` are the two calls that contend for
  `mutex`; `started` is the field, `halting` the component whose Stop is under way.
  The variables of the transport are its own, and every step of the process is a
  step of the transport or leaves it alone. `loop` is the recovery controller's
  goroutine: busy while it handles what it took. What it does with an event is in
  `PodRecovery` and `NodeQuarantine`, with a report in `SlowNodeAggregator`.
* **SlowNodeAggregator.** `AddReportForWorkload` runs under the mutex and is one
  action with six outcomes; the sweep is another. `verdicts` and `givenUp`
  are history.
* **ReportPublisher.** client-go's work queue is modelled by its dirty and
  processing sets, the queue, and the keys that wait for their back-off.
* **ReportCollection.** All pods have the workload's name and the rank in common,
  hence the file; `run[p]` is the UID under which the pod's report is stored, and
  `ReportOf` what else tells reports apart. A `PreflightReport` belongs to the pod
  it was submitted for: `pendingOwner`, `heldOwner` and `objectOwner` follow that
  reference from the publisher's map through the worker's hand to the cluster. The
  preflight container is not in `src/`; it opens its file, writes it and ends, or ends
  without having done so. `lost` is history, see below.
* **MetaXChecks.** The goroutine of the detector: the timer fires (`due`), the node
  has GPUs or the check is skipped, `check` runs its tools in their order up to the
  first that fails, and the timer is set from the clock as it is then. `outputs` is
  what the tools print, each output a sequence of lines that are a header, a reading
  or something else; a parser reads one line a step, with `parsed` for its local
  variables. The parsers of temperatures, ECC counts and port states are one loop.
* **NodeQuarantine.** As in the ledger, `current` stands for the resourceVersion.
  `node[n].other` is a taint of another owner, `intended[n]` what that owner set. The
  refinement mapping to `NodeMarking` is the identity but for `due`, how often there
  is cause yet to cordon a node: findings, and two for each change of leader, less
  the cordons that were done.
* **PreflightVerdict.** `submissions` are the texts that preflight left on the nodes
  of a workload, each with the pod it is read for. Three steps, each over all reports:
  the agents collect what `reconcile` accepts; the aggregator reads what
  `validateReport` and `extractNodeReport` accept; a complete collection is judged.
  What happens to reports one by one, delayed or repeated, is in other modules.
* **PreflightPayload.** A report's text is a record of the fields the code looks
  at, each with the values the code tells apart. Bandwidths are compared with the
  threshold, not computed.

## 3. Runs

Each passing run has a mutant per property: a plausible slip in the code that TLC
finds with the same configuration. The runs named as violations show where the
code does other than a comment, the README or a test says.

| run | shows | bounds, and why they are enough |
|---|---|---|
| `JobRestartLedger` | grants are remembered, stamps not ahead of the clocks, live stamps survive; refines `RestartThrottle` with the window less clock skew, from the beginning of the granted call | two processes, a third would meet the same two copies; two jobs, for pruning. The code's values in units of ten seconds, window 3 and timeout 1; three attempts of its five, which take as long as the window, are all that two processes can use up on two jobs. Time up to two windows |
| `PodRecovery` | pods are deleted for a new failure or a replayed Event only; a broken job is answered | one worker, two failures and a change of leader with a call under way; or two workers of one job, two failures, one failed request, and one observation that waits while another is answered (both at once is beyond TLC in five minutes). Window 4, grace 1, delay 1, so just wide enough; Events as old as the window are replayed, older ones not. Clocks agree here; the theorem has them differ |
| `PodRecoveryStaleEvent` | *violation:* the next leader restarts a healthy job for an old Event | one worker, one failure, one change of leader; window and age of Events as in the code |
| `PodRecoveryTerminating` | *violation:* under one leader, the end of a container that a restart has stopped restarts the healthy job again | one or two workers, one failure; window and grace period of thirty seconds |
| `ControllerLifecycle` | no event lost or doubled; nothing runs after Stop; events and reports get through; no idle leader; the process ends | two events and two reports for channels of one: one fills the channel, the next takes the queue or blocks; with and without election |
| `KubeEventTransportPanic` | *violation:* the informer's callback sends on the closed channel | two events |
| `SlowNodeAggregator` | verdicts of one run only; complete runs judged; collections end | eight reports of two workloads: two runs, a changed layout, an odd size; timeout of two; one change of leader |
| `Judgements` | compacting keeps the verdict, the watcher takes what agents send, reports fit the detection; the documented verdict without fail-fast nodes, nobody missed with them; a node is judged by its own last readings; the next check is the next | 20342 single reports: wrapping or one batch odd, or two batches. 53217 sets of reports of four nodes and three batches: each node fail-fast, or with any batches failed, the first also with batches skipped, left out or without its own IP. One tool's output odd, of up to four lines on two devices, so that a header, a reading and a second header of the same device occur in every order (`OddOnce`: in the first check). A day of four units, checks that begin by the time 7 and take up to 5, longer than a day |
| `SlowNodeDetectionDistorted` | *violation:* a fail-fast node makes another node slow on one failed batch | the same sets of reports, no daily check |
| `ReportCollection` | nothing accepted is forgotten, one observation per creation; what a pod reported is stored; SIGTERM ends the agent | two pods of one run (a retried pod), one restart of the agent, one garbage collection; or two pods of two runs, the second's report refused for good, under an agent that goes on (`Calm`: both at once is beyond TLC in five minutes) |
| `ReportCollectionMixed` | *violation:* the text of an earlier run is stored as a report of the new one | two pods of two runs |
| `NodeQuarantine` | marking a node is as good as atomic: implements `NodeMarking`, so another owner's taint is kept; a finding cordons its node once, and a change of leader repeats no more than an Event and a verdict; findings are answered | one node, two processes, two findings, two writes by others, one failed request, a change of leader in the middle of a call |

Deadlock is checked for the ledger, where a call can always begin. Elsewhere the
system may stop: the process ends, all reports are judged, or a bound is reached.

**Fairness.** Goroutines are scheduled (weak fairness of their steps). The loop of
the recovery controller picks among ready channels at random, so an event that is
there again and again is taken: strong fairness of `Take` (`PodRecovery`). A write that is tried
again and again is answered some time (strong fairness of `WorkerWrites`, per report,
in `ReportCollection`; without it nothing can be said of a retry loop), and an agent
that has exited is started again by its DaemonSet. `ControllerLifecycle` assumes less:
the process does not stand still while one of its goroutines can go on
(`WF(Alive /\ Progress)`); its waits end, for the wait for the cache has a timeout
and requests have deadlines. Bounded events and reports make that enough. A free lease is
taken by another process. Nothing is assumed of the environment: failures, faults,
SIGTERM, changes of leader, crashes, pods and late reports need not happen. `SlowNodeAggregator`
assumes that time passes and the ticker fires.

**What the code does not promise.** This shows in how properties are
qualified, rather than in runs of their own:

* `allowRestart` reads the clock once, before its first request
  (`job_restart_ledger.go:42`), and records that time however long its requests take:
  five attempts of ten seconds (`kube.go:21`) against a window of thirty
  (`recovery.go:46`). The window runs from the *beginning* of the call that was granted,
  and that is what `ThrottleSpec` says (`Spacing <- TTL - MaxSkew`). Of the time between
  two *answers* nothing can be said: a grant that comes at the end of a slow call may
  be followed at once by the next.
* A restart deletes gracefully, and what it stops ends with an error like any other
  container. `HealthyJobLeftAlone` holds if that is over when the window is
  (`WideWindow`, see below); `PodRecoveryTerminating` shows what happens if not. It also
  excepts Events that a new leader replays (`PodRecoveryStaleEvent`).
* The agent refuses a report whose threshold is not a string or of whose batches one is
  not an object (`report_event.go:106-112`, `142-145`), also that of a node that has failed
  fast, which the aggregator would take without a look at either (`report_parser.go:26-28`).
  Such a report is not submitted, and its workload is never complete:
  `CompactionKeepsVerdict` says that these are the only ones lost (`Refused`).
* A failure within the window of the last restart is denied and forgotten
  (`recovery.go:97-99`). Nothing comes back to it when the window ends, so
  `BrokenJobAnswered` takes a denial for an answer.
* The detector looks at the pod's label (`pod_status.go:75`). A job that is
  labelled as the repository's `README.md:103-106` says, and whose pods are not, is
  not recovered; `CoveredJobs` are those whose pods carry the label.
* After a creation whose answer was lost the retry is told that the report exists,
  and no observation is recorded (`report_publisher.go:146`): `ObservedOnce` says at
  most one. Likewise a report that arrives between a timeout and the sweep goes with
  its collection (`slow_node_aggregator.go:155-157`): `DeliveredRunsJudged` excepts
  the workloads of which a collection was given up.
* A stored report goes with the pod that was the first to be submitted for it. A
  later pod of the run with the same text, which is what fail-fast nodes write, is
  told that its report exists and loses it with the other pod, until its status
  changes again; and the next pod overwrites the file of one that has ended, so that
  an agent that comes back too late, or that ends with the report accepted but not
  written, does not find it again. `ReportReachesCluster` excepts these pods (`lost`).
* After SIGTERM the publisher's queue is shut down at once (`report_publisher.go:97-100`),
  while its state stays `running` until the collector has been stopped. `Submit` then
  accepts reports and drops them; the next agent's collector finds them in their files.
* `finish` deletes whatever is pending under the key (`report_publisher.go:153-158`),
  also what was submitted after the write it follows. As long as the object is there
  nothing is missing; if the cluster collects it in between, that submission is lost.
  `accepted` does not count it (`Overtaken`), and the pod counts as `lost`.
* The recovery controller may be one event or report behind when its context ends;
  what is then in the channels is not handled by this process but replayed to the
  next leader (`BrokenJobAnswered`, `FindingAnswered`).

**What the environment is assumed to do.** Clocks differ by a constant of at most
`MaxSkew` in the ledger; in `PodRecovery` by anything up to it, each time one is read.
There an observation is answered within `MaxDelay`, a deleted pod is gone within
`Grace`, and `HealthyJobLeftAlone` needs `Grace + 2 * MaxDelay + MaxSkew < TTL`: the call
that restarts may take `MaxDelay` to delete the pods, they `Grace` to be gone, and the
observation of their end `MaxDelay` to reach the ledger. The code's window is 30 seconds
and it bounds single requests to ten, so this is about the load of the API server and
about containers that end soon when they are told to, not something the code enforces.
One that uses all of Kubernetes' default grace period of 30 seconds breaks it. Nobody deletes the ledger's
ConfigMap or writes entries into it that do not parse. A request that the client
gave up is either applied by then or never. Two nodes of a workload do not report
the same IP. A report file that is being written cannot be parsed until it is whole.
SIGTERM does not meet an agent that has not started its publisher. A check of the
node does not hang.

## 4. Proofs

| theorem | statement |
|---|---|
| `JobRestartLedgerProofs!TypeCorrect` | `Spec => []TypeOK` |
| `GrantsRemembered`, `NoStampAhead` | `[]LedgerRemembersGrants`, `[]SuppressionBounded` |
| `NoLiveStampLost` | `Spec => LiveStampsSurvive` |
| `LedgerThrottles` | `Spec => ThrottleSpec`: the ledger implements `RestartThrottle` with `Spacing <- TTL - MaxSkew` |
| `PodRecoveryProofs!TypeCorrect` | `Spec => []TypeOK` |
| `HealthyLeftAlone` | `Spec => HealthyJobLeftAlone`, if `Grace + 2 * MaxDelay + MaxSkew < TTL`, for any leaders and failing requests |
| `ReportCollectionProofs!OneObservation` | `Spec => []ObservedOnce`, of the publisher alone |
| `NoneForgotten` | `Spec => []AcceptedNotForgotten`, of the publisher alone |
| `CollectionImplementsPublisher` | `CollectionSpec => Spec`: agent and pods use the publisher as its module allows |
| `NothingForgottenByAgent` | `CollectionSpec => [](ObservedOnce /\ AcceptedNotForgotten)` |
| `CollectionTypes` | `CollectionSpec => []CollectionTypeOK` |
| `OwnedByItsRun` | `CollectionSpec => []OwnerOfItsRun`: a report belongs to a pod of the run it is filed under |
| `KubeEventTransportProofs!EachEventOnce`, `NothingLost` | `[]AtMostOnce`, `[]NothingLostWhileRunning` |
| `TransportTypes` | `[]TypeOK` |
| `ControllerLifecycleProofs!LifecycleImplementsTransport` | `LifecycleSpec => Spec`: the process uses its transport as its module allows |
| `EventsSafeInProcess` | hence the transport's two properties, in the process |
| `NothingLeftRunning` | `[]NothingRunsAfterStop` |
| `LifecycleTypes` | `LifecycleSpec => []LifecycleTypeOK` |
| `NodeQuarantineProofs!OthersTaintKept` | `Spec => []OtherOwnersTaintKept` |
| `OneCordonPerFinding`, `QuarantineTypes` | `[]CordonedOncePerFinding`, `[]TypeOK` |
| `QuarantineImplementsMarking` | `Spec => MarkingSpec`: the quarantine implements `NodeMarking` |
| `SlowNodeAggregatorProofs!OneRunPerVerdict` | `Spec => []VerdictsFromOneRun` |
| `CleanRunsJudged`, `AggregatorTypes` | `[]DeliveredRunsJudged`, `[]TypeOK` |
| `JudgementsProofs!NobodyIsMissed` | `Documented \subseteq DetectSlowNodes`, for any reports with batches in range |
| `ExactVerdict` | `DetectSlowNodes = Documented`, if moreover none of them is fail-fast |
| `VerdictOnWhatWasWritten`, `SidesAgree`, `TakenReportsFit` | `VerdictSpec => []CompactionKeepsVerdict`, `[]WatcherTakesWhatAgentsSend`, `[]AggregatedReportsFit` |
| `VerdictExact`, `VerdictMissesNobody` | `VerdictSpec => []ExactWithoutFailFast`, `[]NobodyMissed` |
| `JudgedByOwnReadings` | `CheckSpec => []NodeJudgedByOwnReadings` |
| `TimerSetToNext` | `CheckSpec => []NextCheckIsNext` |

They hold for every value of the constants that satisfies the modules' named
assumptions, in particular for any number of processes, jobs, pods, reports and nodes. Every
safety property of every passing run is among them.

*Ledger.* The properties are not inductive. The invariant `IInv` adds that a pending
call began at some time up to now (`CallsTimed`); that a caller in `current` holds the
data as they are and found its own job's window over (`CopiesCurrent`); that there are no
stamps before the ConfigMap exists; and that a grant's stamp is no earlier than the
beginning of its call (`GrantsTimed`). A write is then accepted only from a copy that
is current, so it prunes what is over and overwrites nothing else
(`RecordedKeepsLive`). Refinement follows: a granted restart is in the ledger with its
stamp or a later one until the window is over, so the next grant is `TTL - MaxSkew`
after the beginning of its call (`GrantSpaced`). How long calls take does not matter.

*Pod recovery.* A deletion has a record in the ledger of the time its call read. What it
sets off is an `Aftermath` of that record: pods that are gone, and observations made,
no later than `MaxDelay + Grace` after it. Every observation in flight is a replay, of
a job that is broken still, or of an aftermath (`Explained`). The last kind asks the
ledger no later than `MaxDelay` after it was made and with a clock at most `MaxSkew`
fast, hence within the window of the record, which no write for another job can
have pruned by then (`Protected`): it is denied. So whoever may delete holds the record and
is of one of the other kinds (`RestartJustified`), and is the only one
(`OneRestartAtATime`), which keeps the job broken until the pods are deleted
(`DeleteStep`).

*Transport.* The places of an event (queue, channel, received, the hands of the two
goroutines) are pairwise disjoint and hold it once (`Apart`), nothing is anywhere
before it is handled, and the goroutines hold an event exactly between taking and
passing it on (`Holding`). `Appended` and `TakenFirst` say what a send and a receive
do to the places. The queue is shut only when the context is done, so nothing is
dropped before (`Kept`).

*Controller process.* Who holds the mutex follows from where Start and Stop are
(`Locked`), a stopped app starts nothing (`Stopping`), and every component that was
launched is counted in `started`, is being stopped, is the watcher that Start still
waits for, or has ended (`Accounted`); what has ended does not begin again.

*Agent.* A step of the composition is a step of the publisher or leaves it alone;
where the agent is tells where the publisher is (`Phases`). A key names the run it is
filed under, and the pod that it is submitted for is of that run; the publisher's
map, the worker's hand and the cluster keep that pod as long as they keep the report
(`Owned`), so what is stored is collected with pods of its own run only
(`OwnerOfItsRun`). That is what the code does get right where `ReportCollectionMixed`
shows that the *text* may be another run's.

*Publisher.* The invariant says where a pending key is: dirty, processed, or
waiting for its back-off, unless the queue was shut down; and that a report that
is announced, or about to be, is in the cluster. That the
queue is as long as the set of its keys is large needs the invariant that it holds no
key twice and none that is being processed (`Alone`).

*Quarantine.* As in the ledger: a copy that carries the resourceVersion shows the
other owner's taint as it is (`CopiesCurrent`), and only such a copy is written
back, by a deposed leader too. That a finding cordons once is a count (`Budget`): the
cordons done, what waits at the agent or in the leader's queue, and the calls in
progress, those of deposed leaders included, are together no more than the findings
and two for each change of leader. While there is no leader those two are in reserve
(`Reserved`); the next leader finds at most an Event and a verdict per node for them.
Both together give the refinement of `NodeMarking`: the update that is accepted finds
the Node as its copy shows it, hence writes what `Mark` writes, and as its call is
counted in the budget there is cause for it (`UpdateMarks`); every other step of a
call is a stutter (`MarkingStutters`).

*Aggregator.* A collection that the table holds is of one run and lacks a report
(`CollectionOK`), so the report that fills it fills it exactly; and of a clean run
that was not given up the table holds what was handed over, until the whole run is
judged (`NothingDropped`). The set of reports is assumed to be finite.

*Judgement.* Who failed in every expected batch is in the intersection over the failed
batches, and there are as many failed batches as expected ones only if they are the
same (`ThroughoutIsCommon`, `TooFewBatches`). That needs batches in range, which
`extractBatchResult` checks (`report_parser.go:137-139`) and `ExtractedIsFit` shows of
every report that is taken, of whatever size.

*From text to verdict.* `VerdictInv` says of each stage what the ones before it have
left. Compacting loses nothing that is read (`CompactedReadsAlike`), the watcher
refuses nothing that was collected (`CollectedIsValid`), so what is taken is what was
written but for what the agents have refused (`ReadAsWritten`); its size gives at least
one expected batch, and its batches are in range (`JudgedWell`), so the two theorems on
the judgement apply.

*Daily check.* The invariant of a parser is about the lines it has read: it is still
going if and only if all of their readings say something of a named device, it stands
below the device it remembers, and it has of each device that device's last reading
(`ReadUpTo`, kept by `LineByLine`; `ListedUpTo` for the list of GPUs). At the end
of the output that is what the definition of `Fit` asks for (`PassesRightly`), and a
tool is reached only if those before it have found nothing (`CheckInv`, `ToolDecides`).
The proof is by a state machine that reads one line a step because induction over
the length of an output is out of the prover's reach, and an invariant is not.

*Timer.* Times of the same remainder are a whole number of days apart (`Apart`), so
between the two nearest scheduled instants there is none (`NextIsNext`). The schedule
is in wall-clock time, without changes to daylight saving.

Left to TLC: liveness under fairness (`BrokenJobAnswered`, `CollectionsEnd`,
`FindingAnswered`, `ReportReachesCluster`, `AgentStops`, `EventsReachController`,
`ReportsJudged`, `NoIdleLeader`, `ProcessEnds`), which the prover does not do. What a
recursive definition computes would be out of its reach too, and the modules have none.

## 5. Not modelled

* Configuration (`pkg/agentconfig`, flags, clients), names, formats and logs; the
  default node detector, which does nothing; declarations.
* client-go's event broadcaster, which merges and limits Events.
* The cache of job labels (`job.go`), and jobs whose labels change.
* The part of `onNodeError` that restarts jobs: no event that passes the transport's
  filter reaches it. `ntpSyncCheck`, whose call is commented out. The rollback of
  `agentApp.Start` and a failing `build` of the controller's components: none of the
  steps they guard can fail in this program.
* A forced deletion of a pod, and pods that the training operator deletes itself.
* The node detector's Stop while a check or the send of its event is under way:
  `MetaXChecks` has the timer and the check, `NodeQuarantine` the event and the end of
  the agent.
* The aggregator's sweep within `ControllerLifecycle`: the ticker's turn of the loop
  changes nothing that module has, and is a step of `SlowNodeAggregator`.

## 6. Plan

1. Done: the modules above, in the order ledger, recovery, detection, aggregator,
   transport, publisher, quarantine, payload, daily check, collection, lifecycle.
2. Done: proofs of all safety properties that the runs check, and of the refinements.
3. From file to cordoned node: `ReportCollection` of several nodes composed with the
   watcher, `SlowNodeAggregator` and `NodeQuarantine`, against the abstract
   specification that a run's slow nodes are marked while its pods are there.
4. Job labels that change, with the cache of `job.go`, in `PodRecovery`.
5. Abstract specifications of the aggregator (a verdict per complete run) and of the
   transport (a bag of events, each passed on once), and proofs that they are implemented.
