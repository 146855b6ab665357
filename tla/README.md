# praetor: a TLA+ model of the control plane and the device agent

praetor runs processes on network devices. Users write
`DeviceProcessDeployment` objects; a controller makes one `DeviceProcess` per
matching `NetworkSwitch`; a gateway serves each device its processes and writes
back what the device reports; an agent on the device makes systemd run them.
This directory models the three programs and the agent's artifact fetcher,
model-checks them on small instances with TLC, and proves their safety
properties for all sizes with TLAPS.

## 1. The system

| part | state | operations | interacts with |
|---|---|---|---|
| gateway (`src/gateway/server.go`) | `lastSeen`, `lastReport`, `heartbeatHints` in memory; DeviceProcess status in the API server; an informer cache | `handleReport`, `handleConnect`, `handleDesired`, `stalenessLoop` | agents (HTTP), API server (cached reads, status patches with optimistic lock) |
| controller (`src/controller/reconcilers/…`) | work queue, informer caches; DeviceProcesses and deployment status in the API server | watch handlers, `Reconcile` (`applyDeviceProcess`, `cleanupStale`, `updateStatus`) | API server (cached reads; switches read live; server-side apply, delete, merge patch) |
| agent (`src/agent/main.go`) | `lastETag`, `lastDesired`, `managed`; the state file; unit and environment files; two tickers and a back-off | `pollDesired`, `reconcile`, `sendReport`, start from the state file; the loop `run` around them | gateway (HTTP), systemd, fetcher |
| systemd backend (`src/agent/systemd/manager.go`) | unit files, loaded definitions, processes, enabled units | write and remove files, `systemctl` commands | systemd (external) |
| OCI fetcher (`src/agent/artifact_oci.go`) | per digest a directory with lock, temporary directories, `rootfs`, `meta.json` and READY | `Ensure`, `extractLayer` | registry (external), agent |
| conditions (`src/pkg/conditions`) | a list of conditions | `SetCondition`, in place | gateway, controller |

What makes it hard: the gateway's goroutines share maps and objects and read
caches that lag; it runs in several replicas and may restart; a patch can fail
after it was carried out; loops end half way at the first error. The
controller works from caches, merges differences into statuses that have moved
on, and meets deployments that were deleted and created again. The agent may
be killed between any two effects, each of its commands may fail, and processes
die by themselves; an old agent process and its successor may meet in the
fetcher's directory. `PROJECT.json` lists each hazard with its line.

## 2. Modules

| module | what it is |
|---|---|
| `Gateway` | the gateway: any number of replicas, concurrent requests, devices and processes |
| `Controller` | the controller, for one deployment name |
| `Systemd` | operators: what the backend's calls do to units |
| `Agent` | the agent's passes, on top of `Systemd` |
| `AgentLoop` | the loop around the passes, in seconds |
| `ArtifactStore` | what the fetcher promises its callers |
| `OciFetcher` | the fetcher, which implements `ArtifactStore` |
| `MCGateway`, `MCController`, `MCAgent`, `MCAgentLoop`, `MCOciFetcher` | the instances that TLC checks |
| `GatewayProofs`, `ControllerProofs`, `ControllerRestProofs`, `AgentProofs`, `AgentLoopProofs`, `OciFetcherProofs` | theorems and their proofs |
| `AgentItemProofs`, `AgentPassProofs` | the invariant behind `AgentProofs` and the lemmas on the agent's actions, each module extending the one before |

How they fit together: `Gateway` decides by the age of the last report whether
a device is stale, and `AgentLoop` shows how old that report can get (its
`silence` is compared with the same threshold). `Controller` writes the specs
that `Agent` is served as `desired`, and reads the status that `Gateway` writes
(its action `Report`). `Agent` calls the fetcher, which succeeds or fails
(class `"oci"`, fault `"artifact"`) and whose success means what
`ArtifactStore` says.

Definitions whose name ends in `_Something` after the name of another
definition are its faulty variants. No specification uses them; each exists to
show that a property fails when the code has the fault it describes.

### Gateway

A `job` is a goroutine (an HTTP handler, or the staleness loop of a replica)
between two accesses to shared state; its `pc` says what comes next. The
methods that take the mutex are one action each (`RecordHeartbeat`,
`RecordReport`, …), and so is every call to the API server, so that
other goroutines run in between, as they do in the code.

* Time. The code only compares elapsed times with
  `heartbeat * staleMultiplier`, so a timestamp is an age that saturates above
  the largest threshold. All tests are `> threshold`, which saturation keeps.
* Objects. A copy (in a cache, or held by a handler) is a status and one bit:
  whether its resourceVersion is still current. `PatchAccepted` is the
  optimistic lock. `CacheSync` is the watch.
* Status. Phase, `AgentConnected`, `ProcessStarted` and `Healthy`. Fields that
  are left out (PID, start time, hashes, artifact progress) may make a status
  differ that looks the same here, so `ObserveGet` may patch in that case too.
* Observations. A process runs, is stopped, or could not be reconciled. `PhaseOf`
  and `LiftedPhase` are the two places where `updateStatusForObservation` sets the
  phase: from the error and `ProcessStarted` (518-530), and again, from pending to
  running, for a healthy process (552-557). The agent sends `Healthy` equal to
  `ProcessStarted`, and an error only with a process that is not started
  (`src/agent/main.go:420-456` and the error paths before it). `PhaseAgrees`
  depends on that: the gateway itself would turn a process reported as healthy and
  not started into a running one.
* Failures. `PatchFails` covers a call that failed, carried out or not.
  `Restart` empties the maps and fills the cache. `Delete` and `Create` are the
  controller's.

Left out: authentication, request parsing, bad requests, Kubernetes events, and
the items of the desired answer (they are `desired` in `Agent`). The default
interval is positive (`ConstantsAssumption`), so the second fallback of
`normalizeHeartbeat` (746-748), for a configured interval of zero, is not taken.

### Controller

Every object is a nonempty sequence of versions: the first is in the informer
cache, the last in the API server, those in between are watch events under way.
`MaxLag` bounds its length. Deployments and DeviceProcesses are read from the
cache. NetworkSwitches are unstructured, which the client does not cache, so
`Begin` lists them live while their events still travel through the watch.

`Begin` is the head of `Reconcile` up to the list of switches; then one step
per applied process, the list of `cleanupStale`, one step per deletion, and
`updateStatus`. `CallFails` ends it anywhere with the request queued again.
`Base` is the object the status patch is computed against: `updateStatus`
copies the status struct but not its array of conditions, and `SetCondition`
overwrites entries in that array, so existing conditions have already changed
in the base. `MergePatch` applies the difference to whatever the server has.

Switches have a role label, which changes, and a site label, which does not. A
selector asks for nothing, for the role (three kinds, one of them unsupported)
or for the site. `selectorLabelKeys` is the index of deployments by the keys of
their selectors, through which `RequestFor` finds them, and `Applied` copies the
role to the process.

One deployment name (with successive UIDs), and one process per device:
`deviceProcessName` is taken to be injective.

One controller process runs at a time, and it works on one request for a
deployment at a time. The first is assumed: `src/controller/main.go` asks for no
leader election, and although `src/config/manager/manager.yaml` has one replica,
a rolling update may run two for a moment. `TouchesOnlyOwn` and the properties of
the controller at rest say nothing of that moment.

Left out: `upsertWithoutSSA` (248-283), which is only used with a server that does
not support server-side apply; a selector that `LabelSelectorAsSelector` rejects
(146-149), with which `Reconcile` fails again and again and changes nothing; and
errors of the lists in `requestsForNetworkSwitch` (434-440, 444-447), which are
logged and skipped: these read the informer cache through its own index, which
fails only before the cache has started.

### Agent and Systemd

`pass` is the reconcile pass under way. Each effect on the host is one action,
so that `Crash` and `Reboot` can fall between any two of them. A spec is a value
with the unit text and environment it renders to and a class: it runs, it runs
from an OCI artifact, it cannot be rendered, or it is for another backend. The
spec hash and the ETag stand for what they are hashes of. `recent` holds the
keys acted upon in the last 5 s (`shouldAttemptAction`). `faults` records which
kinds of fault have happened, so that an invariant can say which it tolerates.

`Systemd` is what the commands do: a process runs with the definition last
loaded and the environment file at launch, `start` leaves a running unit
alone, `enable` and `disable` reload all units. This part is external and
follows systemd's manual.

Simplifications: a unit that is active without a PID counts as not running
(the code restarts it rather than starting it); a command that cannot be
resolved inside the artifact takes the same path as a failed download; a failed
poll changes nothing and is not a step; a report that fails may have arrived at
the gateway, which makes no difference to the agent. A failed report in the very
first pass ends the process (`run` returns the error), which is the fault `exit`.

A new process reads the state file (`LoadState`). When the file is empty, cannot
be read or cannot be parsed (`src/agent/main.go:112-114`, 684-712), the agent logs
an error at most and starts with an empty managed set; this is the fault `load`,
which counts as two, the end of the old process and the unreadable file. The file
may be readable again later (`saved` is kept) or be lost for good; in either case
the next successful save replaces it.

### AgentLoop

The loop of `run` with the code's own durations: polls every 5 s, requests that
end after 10 s, a back-off of 2, 4, 8, 16 and 30 s with up to 1 s of jitter, and
the restart of the process 2 s after a first poll that failed (`RestartSec` of
the unit in `src/Dockerfile.agent`). The gateway goes away and comes back at any
second; a request that was under way then may fail at any time up to its limit.
Time passes only when nothing is due. A ticker is the time to its next tick and
the one tick its channel holds; `Reset` does not take a tick out of it, as in
the Go version of `go.mod`. `silence` is the age of the last report as the
gateway sees it. Assumed are the time a gateway that is up takes to answer
(`MaxAnswer`), the time of a pass (`MaxWork`), and time between two outages for a
request that hangs, the longest back-off and a round (`Recovery`). `Tolerated` is
an outage short enough for the interval and the factor (`ToleratedAssumption`).

### ArtifactStore and OciFetcher

`OciFetcher` is `Ensure` for one digest, called again and again by several
processes of one host. Every file operation is a step: the lock, the check of
READY and `rootfs`, up to three downloads, each entry of the tar, the removal of
an old `rootfs` entry by entry, the rename, the two writes. A process may die, or
an operation fail, at each of them; a failed write may have created its file.
A download that ends with an error or with another digest than was asked for is
`CopyFails`. Every error after the temporary directory was made removes it
(`RemoveTemp`), and that removal may fail too (`MaxStuck` of them).
Entries are directories, files with a size, the root itself (skipped) or entries
that are refused. `ArtifactStore` is the promise: one caller installs at a time,
success is told only when the artifact is there, and once there it stays. The
refinement maps a call to `idle`, `asking` (waiting or checking) or `installing`
(from the decision to download on), and `available` to READY beside a complete
`rootfs`. `Refines` is that specification.

## 3. What TLC checks

| run | bounds | shows |
|---|---|---|
| `gateway_safety` | 1 handler for reports, connects and polls, 1 more for polls, 1 process that is reported running, stopped or failed, 1 fault (API error or restart) | `SeenIsBacked`: polls alone never make a device seen. `DisconnectKeepsObservation`: a stale list never undoes an observation. `PhaseAgrees`: phase and conditions agree, whatever the order of observations, connects and sweeps. `TypeOK`: at most three tries |
| `gateway_live` | 1 request, 1 process that is stopped, reports recur or stop, 1 fault (API error or deletion) | `ReportingReconnects`, `StaysConnected`. `SilentDisconnected`: a device that stops reporting but may poll ends up disconnected |
| `agent_faults` | 1 key, 5 specs, 14 kinds of fault, 2 of them, 2 changes | `RunsWhatItReports`: what is reported as started runs the reported spec. `UnitsTracked`: nothing on the host is forgotten. `TypeOK`: the ETag belongs to lastDesired |
| `agent_live` | 1 key, 4 specs, 9 kinds of fault, 2 of them, 2 changes | `Converges`: the last spec ends up running and reported. `DeletedGone`: after deletion nothing is left. `KeepsRunning`, `SavedDeletedGone`: what holds in spite of crashes and reboots |
| `loop_time` | interval 15 s, factor 3, answers and passes within 1 s, outages at any second | `ShortOutageUnnoticed`: an outage of up to 14 s never makes the agent stale. `BackInTime`: 44 s after any outage it reports at its normal pace. `TypeOK`: the back-off has its five values |
| `fetcher_artifact` | 2 processes, artifacts of up to 3 entries, limits of 2 entries and 1 byte, 1 death, 3 failures, 1 failed removal | `ReadyIsComplete`, `SizeWithinLimit`, `LitterAccounted` (a temporary directory is left only by a death or a removal that fails), `NoNewDownload`, `Refines` (it implements `ArtifactStore`), `EveryoneAnswered` |
| `controller_sync` | 1 device, 3 selectors (role exists, unsupported, site), 2 roles, 2 UIDs, 2 changes, 1 fault, lag 1 | `TouchesOnlyOwn`: Reconcile touches only what its deployment may. `AffectedIsQueued`. `EventuallyInSync`: processes, their specs and their role labels become those of the deployment. `RestsInSync`: when nothing is left to do they are |
| `controller_counts` | 2 devices, 2 selectors, 1 change, 1 report, lag 1 | `CountsSettle`. `RestsCounted`: when nothing is left to do the counts are right. `TypeOK`: counts stay non-negative |

Why these bounds: between them the runs take every action. Two requests are the
least for a race between handlers; with the staleness loop they are three
goroutines on one object. `Takes` lets the second one of `gateway_safety` only
poll: two handlers that both send the three observations have more than ten
million states. The stale threshold is one tick, so fresh, at the
limit and stale all occur. With one version of lag a Reconcile that began with
the old deployment still runs when the new one of the same name exists; the
proofs have any lag. Two faults of the agent let a failure meet the repair of another one.
Artifacts of three entries exceed both limits of the fetcher, at the limit and
one above; three failures exhaust its attempts. One device or key is enough
where the code treats them apart (the gateway's maps are keyed by device, and a
process belongs to one device). What the runs do not reach: several processes of
one device in one sweep, two keys whose commands reload each other's units, two
faults of the gateway in one behaviour, a deletion between two requests, two
reports in flight at once, a configured interval other than the
constant of the source, several replicas, empty label values. The proofs of
section 4 cover these for the safety properties, not for the liveness ones.

The numbers of `loop_time` are sharp: with `Tolerated = 15` TLC finds an outage
of 15 s after which the agent is stale, and with `Recovery = 43` one after which
it is not yet back. Both are the first values that the assumptions of the module
exclude, so these ask for no more than is needed there.

All runs but those of the controller check for deadlock. A controller with
nothing queued and users who have used up their changes really stops.

Fairness. Gateway: handlers, sweeps, watches and the clock go on (goroutines
and tickers); agents and failures owe nothing, except in `gateway_live`,
where the premise is that an agent that has not gone silent keeps sending
reports; strong fairness is needed because a request finds the handler busy in
between. It says nothing of a device that is silent for good. Agent: the loop
goes on, as its tickers keep firing and a service manager starts it again, and
time passes. Controller: queued requests are worked on, watches deliver, garbage is
collected. Fetcher: a call goes on, the agent calls again in its next pass, and
who waits for the lock gets it at some time (strong fairness: between two calls a
process waits for its next poll, so the lock is free again and again). The loop
needs no fairness: its properties bound times. Faults are bounded by a budget
rather than by fairness, so each liveness property says: once faults stop,
however they fell.

### Where the code does less than it says

Each of these runs has the expected outcome "violation"; `PROJECT.json` quotes
the line that says otherwise.

| run | behaviour |
|---|---|
| `gateway_restart` | after a restart of the gateway, a device that was silent before it stays connected for ever |
| `agent_crashspec` | killed between writing the new files and the restart, the agent never restarts the unit and reports the new hash with the old process |
| `loop_ticker` | every poll restarts the heartbeat ticker, so an interval above 5 s never elapses: an agent without processes is silent |
| `controller_conditions` | `Available` and `Progressing` are written once and never change |

Other properties hold only with an exception, written into the property or
into the faults of its run. Each exception is needed: without it TLC finds a
counterexample.

* `RunsWhatItReports` and `Converges` exclude a failed daemon-reload
  (`src/agent/main.go:388`): it is logged, the old definition runs, and the new
  spec is reported. Adding `"reload"` to `FaultKinds` of `agent_live` shows it.
  `DeletedGone` shares that run and so is not checked with failing reloads.
* `UnitsTracked` and `DeletedGone` exclude a failed stop or removal
  (`src/agent/main.go:488`): the key leaves the managed set all the same and
  nothing retries. Adding `"stop"` or `"remove"` to `agent_live` shows it.
* `UnitsTracked`, `Converges` and `DeletedGone` exclude a lost state
  (`StateLost`): a unit started but not yet saved (`src/agent/main.go:507`) is
  forgotten if its resource is deleted meanwhile. Dropping the premise shows it;
  `KeepsRunning` has no such premise.
* `SavedDeletedGone` excludes only a state file that could not be read
  (`"load"`, `src/agent/main.go:112`): the new process does not know the units of
  the old one, and if their resources are gone by then nobody removes them.
  Dropping the last disjunct shows it.
* `AffectedIsQueued` excludes a label added or removed with an empty value,
  which `changedLabelKeys` takes for no change; `RestsInSync` and `RestsCounted`
  have the same premise, and `controller_sync` has no empty label values because
  `EventuallyInSync` fails for the same reason. Adding
  `""` to `LabelValue` and dropping the last conjunct of the premise shows it.
* `EventuallyInSync` does not ask for the role label under a selector on the
  site alone: a new role queues nothing then (`changedLabelKeys` finds no key of
  the selector) and the label copied to the process stays the old one. Dropping
  that exception in `InSync` shows it.
* `StaysConnected` is checked for a single gateway process. Replicas do not
  share their heartbeats, so one may mark a device that reports to another.
* With a configured interval other than 15 s, a poll before the first report
  stores 15 s for the device (`src/gateway/server.go:381`). The runs give both
  constants the same value.

## 4. What is proved

All theorems are for every value of the constants that satisfies the named
assumption of the module: `ConstantsAssumption`, `ControllerAssumption`,
`AgentAssumption`, `FetcherAssumption`. They only give the constants their
types (finitely many devices in `Controller`, whose cardinalities are counted;
names that are not also used as markers), so numbers of devices, processes,
replicas, specs, changes, faults and versions of lag are arbitrary. The three
assumptions of `AgentLoop` relate times, as described below.

| module | theorems |
|---|---|
| `GatewayProofs` | `TypeCorrect`: `[]TypeOK`; `PhaseConsistent`: `[]PhaseAgrees`; `HeartbeatsBacked`: `[]SeenIsBacked`; `DisconnectSafe`: `DisconnectKeepsObservation` |
| `ControllerProofs` | `TypeCorrect`: `[]TypeOK`; `TouchesOwn`: `TouchesOnlyOwn` |
| `ControllerRestProofs` | `AffectedQueued`: `AffectedIsQueued`; `RestIsSync`: `[]RestsInSync`; `RestIsCounted`: `[]RestsCounted` |
| `AgentProofs` | `TypeCorrect`: `[]TypeOK`; `ReportsTrue`: `[]RunsWhatItReports`; `NothingForgotten`: `[]UnitsTracked` |
| `AgentLoopProofs` | `LoopTyped`: `[]TypeOK`; `ShortOutages`: `[]ShortOutageUnnoticed`; `BackAtPace`: `[]BackInTime` |
| `OciFetcherProofs` | `TypeCorrect`: `[]TypeOK`; `ReadyComplete`: `[]ReadyIsComplete`; `SizeBounded`: `[]SizeWithinLimit`; `LitterBounded`: `[]LitterAccounted`; `DownloadedOnce`: `NoNewDownload`; `Refinement`: `Refines` |

In each module the properties are not inductive alone and follow from an
invariant (`IInv`, `RestInv` or `LoopInv`), with one lemma per action and a few
lemmas on what a kind of step leaves alone.

*Gateway.* `IInv` adds `Copies`, that a copy whose resourceVersion is current
equals the object, so an accepted patch was computed from the object's own
status; and `Backed`, that a poll found eligible is of a device with a report,
which stays true until the heartbeat is recorded because only a restart, which
also ends the poll, forgets reports. `DisconnectSafe` follows because only
`MarkProcess` writes a disconnected status, and by `Copies` it does so from the
object itself.

*Controller.* `IInv` orders UIDs: along the versions of the deployment and of
the owners of each process they do not decrease, apart from gaps where an object
is gone, and no process has an owner newer than the deployment that Reconcile
works on or that any cached version would let it work on. So the deployment of a
Reconcile under way is at least as new as every owner it can meet. For deletions,
a process in the list of `cleanupStale` has that very owner or is gone. Counts
are non-negative since the one difference is clamped.

*The controller at rest.* `EventuallyInSync` and `CountsSettle` are liveness
properties, but what could be wrong in them is safety: that the controller stops
too early, because an event was filtered out, or because a request was used up
by a Reconcile that worked from old caches. `RestInv` excludes this. Either a
request is queued or will be, since the watch of the deployment or of a process
has something to deliver (`Pending`), or each device is accounted for: its
process is right (`Served`), or the Reconcile under way works on the current
deployment and will come to the device (`Coming`), or a change of its switch
that the handlers react to is still to be delivered (`Told`). Likewise the
counts: they are right, or Reconcile has the current deployment and the matching
devices, or some switch is yet to be told of. The steps that could break it are
`Begin`, which takes the request: if nothing is left to deliver then its caches
are current; the writes, which are events to deliver or change nothing; a change
of a switch that the handlers ignore, which by `Untold` makes no difference to
the deployment; and `UpdateStatus`: a patch that changes nothing means that the
counts were right, although the conditions of its base were overwritten
(`PatchedCounts`). That the controller does come to rest is left to TLC.

*Agent.* `IInv` has three parts. `PassInv` is what a pass consists of at each
point: the item in hand has no result yet, a unit in the removal loop is not in
`managedNow`, and `saved` equals `managed` unless a save or a load failed. `Kept` holds
while no state was lost and no stop or removal failed: whatever is not clean is
managed, in `managedNow` or in hand, a unit without a file has nothing else
either, and in the removal loop everything that was passed over is clean, so that
`Commit` forgets nothing. `Sound` holds while no state was lost and no reload or
stop failed: a loaded definition that is not the file's, and a process that was
not started from the files as they are, belong to the item in hand at a point
where a reload, a restart or a stop is still to come. An item with a result is
not in hand, so what it runs is what its files say, and these are the files of
the reported spec. Both parts are implications from the faults so far, which only
grow. Deaths and restarts by systemd touch a unit at any point of a pass; they
keep `Sound` because a restart uses the loaded definition, which `Sound` knows.

*Fetcher.* `IInv` says who holds the lock, that READY is absent from the decision
to download until it is written, and that the temporary directory holds exactly
what has been read so far. `SizeInv` adds that the bytes counted so far are the
sum of the entries read and within the limit, and that meta.json has this sum
from the moment READY can follow. The sum is not a recursive function but a
sequence of partial sums that starts at zero and ends at the total (`HasSize`),
which reading one entry extends by one, so no induction is needed. For the
refinement, each step is the abstract step its
mapping names or changes nothing there; that `available` stays true comes from
the second part.

*AgentLoop.* `LoopInv` counts seconds, for every interval, factor, answer time
and time of a pass. `Normal` bounds `silence` by the place the loop has reached
in its round since the last report. After an outage this bound is lost and
another takes its place: `Within(x)`, the next report arrives within x seconds if
the gateway stays up. A second lowers x by one and no other step raises it, so at
the end of an outage x is fixed: the rest of a request that hangs, the back-off
it is answered with, the next tick, and a round. With the longest back-off this
sum is below `Recovery`, which gives `BackInTime`. For `ShortOutageUnnoticed` the
invariant also bounds the back-off during an outage (`Outage`): since each one is
slept off before the next error doubles it, it is at most two seconds more than
the outage has lasted so far. `ToleratedAssumption` is this sum, taken at the
last second of the outage, against the gateway's threshold.

Only model-checked, and why:

* the liveness properties, which need fairness and `ENABLED`;
* what the runs that end in a violation show, which are counterexamples.

Every invariant and every action property of a passing run is the subject of a
theorem.

## 5. Not modelled

* Text: rendering of units, environment files (`src/agent/envfile.go`) and
  arguments, event texts, logs. `UnitOf` and `EnvOf` are arbitrary functions, so
  nothing is claimed about what the text says. HTTP, JSON, tokens, flags and
  generated code.
* Names. `sanitizedBase` and `deviceProcessName` are functions on characters
  with hashes and are taken to be injective. Both join their parts with a dash, so
  they are not for all names; `PROJECT.json` lists this as a hazard.
* Parsing of `systemctl show`, PIDs, start times and health of observations
  beyond "started" and "ready": carried from agent to status unchanged.
* Power failures that bring back older files. What was written survives, in the
  order in which it was written, as it does when a process dies; `Reboot` is an
  orderly or sudden reboot that keeps the disk. The code syncs nothing to disk,
  neither in the fetcher nor in `writeFileAtomic` (`src/agent/main.go:714-738`), so
  a file system may undo writes or leave an empty file behind a rename. An empty
  state file is the fault `load`; an older state file or older unit files are not
  modelled.
* The whole chain from a deployment to its counts in one state machine. The parts
  meet only through objects in the API server and two requests, and each module
  has its neighbours' effects as environment actions (`Report` in `Controller`,
  `Delete` and `Create` in `Gateway`, `Change` in `Agent`, outages in
  `AgentLoop`) that allow more than the neighbour does; the product of their
  states is out of TLC's reach at sizes where each part is interesting.
* Agreement of several gateway replicas on who is stale: the code does not have
  it.
