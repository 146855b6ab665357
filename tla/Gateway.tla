------------------------------- MODULE Gateway -------------------------------
(***************************************************************************)
(* The device gateway (src/gateway/server.go): what it remembers of its    *)
(* devices, the HTTP handlers, the staleness loop, and the status it       *)
(* writes to DeviceProcess objects through optimistic-lock patches.        *)
(*                                                                         *)
(* Time.  The code compares elapsed times with heartbeat * staleMultiplier *)
(* and does nothing else with them, so a timestamp is modelled by its AGE, *)
(* a number of ticks that saturates just above the largest threshold.      *)
(*                                                                         *)
(* Objects.  mgr.GetClient() reads from the informer cache of the gateway  *)
(* process.  A copy of an object, in a cache or in the hands of a handler, *)
(* is its status and whether its resourceVersion is still the current one. *)
(***************************************************************************)
EXTENDS Integers, FiniteSets

CONSTANTS
    Device,            \* device names
    Proc,              \* DeviceProcess names
    DeviceOf,          \* spec.deviceRef.name of each DeviceProcess
    Replica,           \* gateway processes
    Handler,           \* HTTP requests being served at the same time
    ReplicaOf,         \* the gateway process that serves each of them
    DefaultInterval,   \* --default-heartbeat-seconds, in ticks
    HintConst,         \* the constant defaultHeartbeatSeconds, in ticks
    StaleMultiplier,   \* --stale-multiplier
    Sent,              \* bound: the observations agents send
    Takes,             \* bound: the kinds of request each of Handler takes
    Flaky,             \* bound: the devices whose agent may stop reporting
    MaxRestarts,       \* bound: restarts of gateway processes
    MaxErrors,         \* bound: API calls that fail
    MaxChurn,          \* bound: objects deleted
    MaxFaults          \* bound: the three together

ASSUME ConstantsAssumption ==
    /\ DeviceOf \in [Proc -> Device]
    /\ ReplicaOf \in [Handler -> Replica]
    /\ Handler \cap Replica = {}
    /\ "controller" \notin Handler \cup Replica
    /\ DefaultInterval \in Nat \ {0}
    /\ HintConst \in Nat \ {0}
    /\ StaleMultiplier \in Nat \ {0}
    /\ Sent \subseteq {"running", "stopped", "error"}
    /\ Takes \in [Handler -> SUBSET {"report", "connect", "desired"}]
    /\ Flaky \subseteq Device
    /\ {MaxRestarts, MaxErrors, MaxChurn, MaxFaults} \subseteq Nat

VARIABLES
    lastSeen,     \* Gateway.lastSeen: age of the last heartbeat, or Never
    lastReport,   \* Gateway.lastReport: age of the last report, or Never
    hints,        \* Gateway.heartbeatHints, 0 when the map has no entry
    api,          \* the API server's DeviceProcess objects
    cache,        \* each gateway process's informer cache of them
    job,          \* the handlers, and the staleness loop of each replica
    reporting,    \* the devices whose agent still sends reports
    spent         \* how much of each bound is used up

vars == <<lastSeen, lastReport, hints, api, cache, job, reporting, spent>>
memory == <<lastSeen, lastReport, hints>>

(***************************************************************************)
(* Ages and thresholds.                                                    *)
(***************************************************************************)
Never == -1
Larger(a, b) == IF a > b THEN a ELSE b
AgeCap == StaleMultiplier * Larger(DefaultInterval, HintConst) + 1
Age == Never .. AgeCap
Older(age) == IF age = Never \/ age = AgeCap THEN age ELSE age + 1

normalizeHeartbeat(hb) == IF hb <= 0 THEN DefaultInterval ELSE hb

StaleAfter(hb) == hb * StaleMultiplier

(***************************************************************************)
(* DeviceProcess status, as far as the gateway and the controller read it. *)
(* A condition is "True", "False" or "None" when the list has no such      *)
(* entry.  Absent stands for an object that does not exist.                *)
(***************************************************************************)
Condition == {"None", "True", "False"}
Object == [phase: {"absent", "", "Pending", "Running", "Failed"},
           connected: Condition, started: Condition, healthy: Condition]
NewObject == [phase |-> "", connected |-> "None", started |-> "None", healthy |-> "None"]
Absent == [NewObject EXCEPT !.phase = "absent"]

Copy == [status: Object, current: BOOLEAN]

(***************************************************************************)
(* The observations an agent sends of one process: it runs, it does not,   *)
(* or reconciling it failed.  Every path of the agent's reconcile sets     *)
(* ProcessStarted and sets Healthy to the same value, and an error goes    *)
(* with "not started"; "None" would stand for a nil pointer.               *)
(***************************************************************************)
Observation == {"running", "stopped", "error"}
ProcessStarted(obs) == IF obs = "running" THEN "True" ELSE "False"
Healthy(obs) == ProcessStarted(obs)
HasErrorMessage(obs) == obs = "error"

setAgentConnected(status, value) == [status EXCEPT !.connected = value]

\* What markDeviceConnected ("True") and markDeviceDisconnected ("False")
\* change in the status they listed; the latter also fills in an empty phase.
Marked(status, value) ==
    LET st == setAgentConnected(status, value)
    IN  IF value = "False" /\ st.phase = "" THEN [st EXCEPT !.phase = "Pending"] ELSE st

\* The status that updateStatusForObservation computes from the one it read:
\* a condition stays as it is when its field is nil, the phase follows from
\* the error and ProcessStarted, and Healthy lifts a pending process to
\* running.
PhaseOf(obs) ==
    CASE HasErrorMessage(obs)                                     -> "Failed"
      [] ~HasErrorMessage(obs) /\ ProcessStarted(obs) = "True"    -> "Running"
      [] OTHER                                                    -> "Pending"
LiftedPhase(phase, obs) ==
    IF Healthy(obs) = "True" /\ phase = "Pending" THEN "Running" ELSE phase
SetUnlessNil(old, new) == IF new = "None" THEN old ELSE new

Observed_PhaseKept(status, obs) ==
    [setAgentConnected(status, "True") EXCEPT
        !.started = SetUnlessNil(@, ProcessStarted(obs)),
        !.healthy = SetUnlessNil(@, Healthy(obs)),
        !.phase = LiftedPhase(IF @ = "" THEN PhaseOf(obs) ELSE @, obs)]
Observed_NotConnected(status, obs) ==
    [status EXCEPT
        !.started = SetUnlessNil(@, ProcessStarted(obs)),
        !.healthy = SetUnlessNil(@, Healthy(obs)),
        !.phase = LiftedPhase(PhaseOf(obs), obs)]
Observed(status, obs) ==
    [setAgentConnected(status, "True") EXCEPT
        !.started = SetUnlessNil(@, ProcessStarted(obs)),
        !.healthy = SetUnlessNil(@, Healthy(obs)),
        !.phase = LiftedPhase(PhaseOf(obs), obs)]

(***************************************************************************)
(* Handlers.  A job is a goroutine between two accesses to shared state:   *)
(*   pc     what it does next                                              *)
(*   dev    the device it serves                                           *)
(*   hb     the heartbeat interval it has read                             *)
(*   connect whether markDeviceConnected will be called (isStale)          *)
(*   held   the copies of objects it has listed or read                    *)
(*   todo   the listed processes it still has to mark                      *)
(*   obs    the observations it still has to apply                         *)
(*   tries  patches of the current observation that met a conflict         *)
(*   stale  the devices a sweep found stale and has not visited yet        *)
(***************************************************************************)
MaxAttempts == 3
NoDevice == "none"
Worker == Handler \cup Replica
Home(w) == IF w \in Replica THEN w ELSE ReplicaOf[w]

NoCopy == [status |-> Absent, current |-> FALSE]
NoCopies == [p \in Proc |-> NoCopy]
NoObs == [p \in Proc |-> "none"]
Idle == [pc |-> "idle", dev |-> NoDevice, hb |-> DefaultInterval, connect |-> FALSE,
         held |-> NoCopies, todo |-> {}, obs |-> NoObs, tries |-> 0, stale |-> {}]

ProcsOf(d) == {p \in Proc : DeviceOf[p] = d}
Unapplied(w) == {p \in Proc : job[w].obs[p] # "none"}

\* A job that an error ends: a handler answers 500 and is gone; a sweep logs
\* the error and goes on with the next stale device.
Aborted(w) == IF w \in Handler THEN Idle
              ELSE [Idle EXCEPT !.pc = "visit", !.stale = job[w].stale]

Init ==
    /\ lastSeen = [g \in Replica |-> [d \in Device |-> Never]]
    /\ lastReport = [g \in Replica |-> [d \in Device |-> Never]]
    /\ hints = [g \in Replica |-> [d \in Device |-> 0]]
    /\ api = [p \in Proc |-> NewObject]
    /\ cache = [g \in Replica |-> [p \in Proc |-> [status |-> NewObject, current |-> TRUE]]]
    /\ job = [w \in Worker |-> Idle]
    /\ reporting = Device
    /\ spent = [restarts |-> 0, errors |-> 0, churn |-> 0]

FaultsLeft == spent.restarts + spent.errors + spent.churn < MaxFaults

(***************************************************************************)
(* handleReport and handleConnect.                                         *)
(***************************************************************************)

\* lastSeenAndHeartbeat, and the staleness test made with what it returns.
ReportStart(h, d, obs) ==
    LET g == ReplicaOf[h]
        hb == normalizeHeartbeat(hints[g][d])
    IN  /\ job[h].pc = "idle"
        /\ d \in reporting
        /\ job' = [job EXCEPT ![h] =
                      [Idle EXCEPT !.pc = "heartbeat", !.dev = d, !.hb = hb, !.obs = obs,
                          !.connect = lastSeen[g][d] = Never \/ lastSeen[g][d] > StaleAfter(hb)]]
        /\ UNCHANGED <<memory, api, cache, reporting, spent>>

\* handleConnect marks the device connected whatever it knows of it.
ConnectStart(h, d) ==
    /\ job[h].pc = "idle"
    /\ d \in reporting
    /\ job' = [job EXCEPT ![h] =
                  [Idle EXCEPT !.pc = "heartbeat", !.dev = d, !.connect = TRUE,
                      !.hb = normalizeHeartbeat(hints[ReplicaOf[h]][d])]]
    /\ UNCHANGED <<memory, api, cache, reporting, spent>>

\* recordHeartbeat, from a report, a connect, or an eligible desired poll.
RecordHeartbeat(h) ==
    LET g == ReplicaOf[h]
        d == job[h].dev
    IN  /\ job[h].pc \in {"heartbeat", "eligible"}
        /\ lastSeen' = [lastSeen EXCEPT ![g][d] = 0]
        /\ hints' = [hints EXCEPT ![g][d] = job[h].hb]
        /\ job' = IF job[h].pc = "heartbeat" THEN [job EXCEPT ![h].pc = "report", ![h].hb = DefaultInterval]
                                             ELSE [job EXCEPT ![h] = Idle]
        /\ UNCHANGED <<lastReport, api, cache, reporting, spent>>

RecordReport(h) ==
    /\ job[h].pc = "report"
    /\ lastReport' = [lastReport EXCEPT ![ReplicaOf[h]][job[h].dev] = 0]
    /\ job' = [job EXCEPT ![h].pc = IF job[h].connect THEN "list" ELSE "observe",
                          ![h].connect = FALSE]
    /\ UNCHANGED <<lastSeen, hints, api, cache, reporting, spent>>

(***************************************************************************)
(* Writing to the API server.  A status patch carries the resourceVersion  *)
(* of the copy it was computed from, and a merge patch replaces the whole  *)
(* list of conditions by the one of that copy.                             *)
(***************************************************************************)
PatchAccepted_NoLock(p, copy) == api[p] # Absent
PatchAccepted(p, copy) == copy.current /\ api[p] # Absent

Outdated(copies, p) == [copies EXCEPT ![p].current = FALSE]

\* Object p becomes obj; every copy of it is out of date; w goes on as next.
Write(w, p, obj, next) ==
    /\ api' = [api EXCEPT ![p] = obj]
    /\ cache' = [g \in Replica |-> Outdated(cache[g], p)]
    /\ job' = [x \in Worker |->
                  IF x = w THEN next ELSE [job[x] EXCEPT !.held = Outdated(job[x].held, p)]]

\* The call fails with an error other than a conflict or not-found; the
\* server may have carried it out all the same (a lost answer).
PatchFails(w, p, obj) ==
    /\ spent.errors < MaxErrors /\ FaultsLeft
    /\ spent' = [spent EXCEPT !.errors = @ + 1]
    /\ \/ /\ job' = [job EXCEPT ![w] = Aborted(w)]
          /\ UNCHANGED <<api, cache>>
       \/ /\ PatchAccepted(p, job[w].held[p])
          /\ Write(w, p, obj, Aborted(w))

(***************************************************************************)
(* markDeviceConnected and markDeviceDisconnected.                         *)
(***************************************************************************)
MarkList(w) ==
    LET listed == {p \in ProcsOf(job[w].dev) : cache[Home(w)][p].status # Absent}
    IN  /\ job[w].pc = "list"
        /\ job' = [job EXCEPT ![w].pc = "mark", ![w].todo = listed,
                      ![w].held = [p \in Proc |-> IF p \in listed THEN cache[Home(w)][p] ELSE NoCopy]]
        /\ UNCHANGED <<memory, api, cache, reporting, spent>>

MarkValue(w) == IF w \in Replica THEN "False" ELSE "True"

\* One iteration of the loop over the listed processes.
MarkProcess(w, p) ==
    LET copy == job[w].held[p]
        new  == Marked(copy.status, MarkValue(w))
        rest == [job[w] EXCEPT !.todo = @ \ {p}, !.held = [@ EXCEPT ![p] = NoCopy]]
    IN  /\ job[w].pc = "mark"
        /\ p \in job[w].todo
        /\ \/ /\ copy.status.connected = MarkValue(w)
              /\ job' = [job EXCEPT ![w] = rest]
              /\ UNCHANGED <<api, cache, spent>>
           \/ /\ copy.status.connected # MarkValue(w)
              /\ \/ /\ PatchAccepted(p, copy)
                    /\ Write(w, p, new, rest)
                    /\ UNCHANGED spent
                 \/ /\ ~PatchAccepted(p, copy)
                    /\ job' = [job EXCEPT ![w] = Aborted(w)]
                    /\ UNCHANGED <<api, cache, spent>>
                 \/ PatchFails(w, p, new)
        /\ UNCHANGED <<memory, reporting>>

\* The loop is over: markDeviceConnected records the report once more.
MarkDone(w) ==
    /\ job[w].pc = "mark"
    /\ job[w].todo = {}
    /\ \/ /\ w \in Handler
          /\ lastReport' = [lastReport EXCEPT ![ReplicaOf[w]][job[w].dev] = 0]
          /\ job' = [job EXCEPT ![w].pc = "observe"]
       \/ /\ w \in Replica
          /\ job' = [job EXCEPT ![w] = [Idle EXCEPT !.pc = "visit", !.stale = job[w].stale]]
          /\ UNCHANGED lastReport
    /\ UNCHANGED <<lastSeen, hints, api, cache, reporting, spent>>

(***************************************************************************)
(* updateStatusForObservation, and the loop over a report's observations.  *)
(***************************************************************************)

reflectDeepEqualStatus(before, after) == before = after

\* Get, and the comparison that leaves an unchanged status alone.  A status
\* that is the same in this model may still differ in the fields left out of
\* it (PID, start time, spec hash, artifact progress), and is then patched.
ObserveGet(h, p) ==
    LET copy == cache[ReplicaOf[h]][p]
    IN  /\ job[h].pc = "observe"
        /\ p \in Unapplied(h)
        /\ \/ /\ \/ copy.status = Absent
                 \/ reflectDeepEqualStatus(copy.status, Observed(copy.status, job[h].obs[p]))
              /\ job' = [job EXCEPT ![h].obs[p] = "none", ![h].tries = 0]
           \/ /\ copy.status # Absent
              /\ job' = [job EXCEPT ![h].pc = "patch", ![h].todo = {p}, ![h].held[p] = copy]
        /\ UNCHANGED <<memory, api, cache, reporting, spent>>

\* The patch: a conflict is retried from the Get, up to MaxAttempts times.
RetryConflict_OnceMore(tries) == tries + 1 <= MaxAttempts
RetryConflict(tries) == tries + 1 < MaxAttempts

ObservePatch(h, p) ==
    LET copy == job[h].held[p]
        new  == Observed(copy.status, job[h].obs[p])
        back == [job[h] EXCEPT !.pc = "observe", !.todo = {}, !.held = NoCopies]
        done == [back EXCEPT !.obs = [@ EXCEPT ![p] = "none"], !.tries = 0]
    IN  /\ job[h].pc = "patch"
        /\ p \in job[h].todo
        /\ \/ /\ PatchAccepted(p, copy)
              /\ Write(h, p, new, done)
              /\ UNCHANGED spent
           \/ /\ ~PatchAccepted(p, copy)
              /\ job' = [job EXCEPT ![h] =
                            CASE api[p] = Absent             -> done
                              [] api[p] # Absent /\ RetryConflict(job[h].tries)
                                                             -> [back EXCEPT !.tries = @ + 1]
                              [] OTHER                       -> Idle]
              /\ UNCHANGED <<api, cache, spent>>
           \/ PatchFails(h, p, new)
        /\ UNCHANGED <<memory, reporting>>

ReportDone(h) ==
    /\ job[h].pc = "observe"
    /\ Unapplied(h) = {}
    /\ job' = [job EXCEPT ![h] = Idle]
    /\ UNCHANGED <<memory, api, cache, reporting, spent>>

(***************************************************************************)
(* handleDesired: computeDesired settles the heartbeat hint, and           *)
(* recordDesiredHeartbeatIfEligible may count the poll as a heartbeat.     *)
(* Which items are served is the subject of module Agent.                  *)
(***************************************************************************)
computeDesiredHint(hint) == IF hint > 0 THEN hint ELSE HintConst

DesiredStart(h, d) ==
    LET g == ReplicaOf[h]
    IN  /\ job[h].pc = "idle"
        /\ hints' = [hints EXCEPT ![g][d] = computeDesiredHint(@)]
        /\ job' = [job EXCEPT ![h] = [Idle EXCEPT !.pc = "desired", !.dev = d]]
        /\ UNCHANGED <<lastSeen, lastReport, api, cache, reporting, spent>>

\* A poll counts when this process has had a report that is not stale.
Eligible_NoReport(g, d, hb) == lastReport[g][d] <= StaleAfter(hb)
Eligible_AnyReport(g, d, hb) == lastReport[g][d] # Never
Eligible(g, d, hb) == lastReport[g][d] # Never /\ lastReport[g][d] <= StaleAfter(hb)

DesiredCheck(h) ==
    LET g == ReplicaOf[h]
        d == job[h].dev
        hb == normalizeHeartbeat(hints[g][d])
    IN  /\ job[h].pc = "desired"
        /\ job' = [job EXCEPT ![h] =
                      IF Eligible(g, d, hb)
                      THEN [job[h] EXCEPT !.pc = "eligible", !.hb = hb] ELSE Idle]
        /\ UNCHANGED <<memory, api, cache, reporting, spent>>

(***************************************************************************)
(* The staleness loop: markStaleDevices works on a snapshot of lastSeen.   *)
(***************************************************************************)
StaleDevices_Early(g) ==
    {d \in Device : lastSeen[g][d] >= StaleAfter(normalizeHeartbeat(hints[g][d]))}
StaleDevices(g) ==
    {d \in Device : lastSeen[g][d] > StaleAfter(normalizeHeartbeat(hints[g][d]))}

SweepStart(g) ==
    /\ job[g].pc = "idle"
    /\ StaleDevices(g) # {}
    /\ job' = [job EXCEPT ![g] = [Idle EXCEPT !.pc = "visit", !.stale = StaleDevices(g)]]
    /\ UNCHANGED <<memory, api, cache, reporting, spent>>

SweepVisit(g) ==
    /\ job[g].pc = "visit"
    /\ \/ \E d \in job[g].stale :
             job' = [job EXCEPT ![g].pc = "list", ![g].dev = d, ![g].stale = @ \ {d}]
       \/ /\ job[g].stale = {}
          /\ job' = [job EXCEPT ![g] = Idle]
    /\ UNCHANGED <<memory, api, cache, reporting, spent>>

(***************************************************************************)
(* The environment.                                                        *)
(***************************************************************************)
Tick ==
    /\ lastSeen' = [g \in Replica |-> [d \in Device |-> Older(lastSeen[g][d])]]
    /\ lastReport' = [g \in Replica |-> [d \in Device |-> Older(lastReport[g][d])]]
    /\ <<lastSeen, lastReport>>' # <<lastSeen, lastReport>>
    /\ UNCHANGED <<hints, api, cache, job, reporting, spent>>

\* A watch event reaches a gateway process.
CacheSync(g, p) ==
    /\ ~cache[g][p].current
    /\ cache' = [cache EXCEPT ![g][p] = [status |-> api[p], current |-> TRUE]]
    /\ UNCHANGED <<memory, api, job, reporting, spent>>

\* A gateway process restarts: the maps made by New are empty, its requests
\* are lost, and its caches are filled before it serves.
Restart(g) ==
    /\ spent.restarts < MaxRestarts /\ FaultsLeft
    /\ spent' = [spent EXCEPT !.restarts = @ + 1]
    /\ lastSeen' = [lastSeen EXCEPT ![g] = [d \in Device |-> Never]]
    /\ lastReport' = [lastReport EXCEPT ![g] = [d \in Device |-> Never]]
    /\ hints' = [hints EXCEPT ![g] = [d \in Device |-> 0]]
    /\ cache' = [cache EXCEPT ![g] = [p \in Proc |-> [status |-> api[p], current |-> TRUE]]]
    /\ job' = [w \in Worker |-> IF Home(w) = g THEN Idle ELSE job[w]]
    /\ UNCHANGED <<api, reporting>>

\* The controller deletes and creates DeviceProcess objects.
Delete(p) ==
    /\ api[p] # Absent
    /\ spent.churn < MaxChurn /\ FaultsLeft
    /\ spent' = [spent EXCEPT !.churn = @ + 1]
    /\ Write("controller", p, Absent, Idle)
    /\ UNCHANGED <<memory, reporting>>

Create(p) ==
    /\ api[p] = Absent
    /\ Write("controller", p, NewObject, Idle)
    /\ UNCHANGED <<memory, reporting, spent>>

\* The agent of a device stops sending reports (it may go on polling), or
\* comes back.
StopReporting(d) ==
    /\ d \in reporting \cap Flaky
    /\ reporting' = reporting \ {d}
    /\ UNCHANGED <<memory, api, cache, job, spent>>

ResumeReporting(d) ==
    /\ d \notin reporting
    /\ reporting' = reporting \cup {d}
    /\ UNCHANGED <<memory, api, cache, job, spent>>

\* The agent observes every process it was told to run, or sends none
\* (a heartbeat).
ReportObservations(d) ==
    {NoObs} \cup {o \in [Proc -> Sent \cup {"none"}] :
                    \A p \in Proc : o[p] = "none" <=> DeviceOf[p] # d}

Request(h) ==
    \E d \in Device :
        \/ "report" \in Takes[h] /\ \E obs \in ReportObservations(d) : ReportStart(h, d, obs)
        \/ "connect" \in Takes[h] /\ ConnectStart(h, d)
        \/ "desired" \in Takes[h] /\ DesiredStart(h, d)

Serve(h) ==
    \/ RecordHeartbeat(h) \/ RecordReport(h) \/ DesiredCheck(h) \/ ReportDone(h)
    \/ \E p \in Proc : ObserveGet(h, p) \/ ObservePatch(h, p)

Mark(w) == MarkList(w) \/ MarkDone(w) \/ \E p \in Proc : MarkProcess(w, p)

Sweep(g) == SweepStart(g) \/ SweepVisit(g)

Environment ==
    \/ Tick
    \/ \E g \in Replica : Restart(g) \/ \E p \in Proc : CacheSync(g, p)
    \/ \E p \in Proc : Delete(p) \/ Create(p)
    \/ \E d \in Device : StopReporting(d) \/ ResumeReporting(d)

Next ==
    \/ \E h \in Handler : Request(h) \/ Serve(h)
    \/ \E g \in Replica : Sweep(g)
    \/ \E w \in Worker : Mark(w)
    \/ Environment

Spec == Init /\ [][Next]_vars

(***************************************************************************)
(* Fairness.  net/http serves each request in a goroutine of its own,      *)
(* stalenessLoop's ticker keeps firing, informers deliver watch events and *)
(* clocks advance.  Nothing obliges agents, the controller or failures.    *)
(***************************************************************************)
Fairness ==
    /\ \A h \in Handler : WF_vars(Serve(h))
    /\ \A w \in Worker : WF_vars(Mark(w))
    /\ \A g \in Replica : WF_vars(Sweep(g))
    /\ \A g \in Replica, p \in Proc : WF_vars(CacheSync(g, p))
    /\ WF_vars(Tick)

FairSpec == Spec /\ Fairness

(***************************************************************************)
(* Properties.                                                             *)
(***************************************************************************)
Job == [pc: {"idle", "heartbeat", "report", "list", "mark", "observe", "patch",
             "desired", "eligible", "visit"},
        dev: Device \cup {NoDevice},
        hb: Nat \ {0},
        connect: BOOLEAN,
        held: [Proc -> Copy],
        todo: SUBSET Proc,
        obs: [Proc -> Observation \cup {"none"}],
        tries: 0 .. MaxAttempts - 1,
        stale: SUBSET Device]

\* Every variable keeps its shape: ages stay within their cap, a job holds at
\* most MaxAttempts - 1 failed tries, and no bound is overdrawn.
TypeOK ==
    /\ lastSeen \in [Replica -> [Device -> Age]]
    /\ lastReport \in [Replica -> [Device -> Age]]
    /\ hints \in [Replica -> [Device -> Nat]]
    /\ api \in [Proc -> Object]
    /\ cache \in [Replica -> [Proc -> Copy]]
    /\ job \in [Worker -> Job]
    /\ reporting \in SUBSET Device
    /\ spent \in [restarts: 0 .. MaxRestarts, errors: 0 .. MaxErrors, churn: 0 .. MaxChurn]

\* A device is in lastSeen only because it has sent a report to this process:
\* desired polls alone never get it there (recordDesiredHeartbeatIfEligible,
\* "devices ... when they only read desired state without sending reports").
\* Between recordHeartbeat and recordReport of the first report, its handler
\* is the witness.
SeenIsBacked ==
    \A g \in Replica, d \in Device :
        lastSeen[g][d] # Never =>
            \/ lastReport[g][d] # Never
            \/ \E h \in Handler : ReplicaOf[h] = g /\ job[h].dev = d /\ job[h].pc = "report"

\* Phase and conditions never contradict each other ("avoid inconsistencies
\* like Running + ProcessStarted=false"), in whatever order reports, connects
\* and sweeps reach the object.
PhaseAgreesWith(obj) ==
    /\ obj.phase = "Running" <=> obj.started = "True"
    /\ obj.healthy = obj.started
    /\ obj.phase = "Failed" => obj.started = "False"
    /\ obj.phase \in {"", "absent"} => obj.started = "None"

PhaseAgrees == \A p \in Proc : PhaseAgreesWith(api[p])

\* Marking a device disconnected, from a list that may be out of date, never
\* undoes an observation: ProcessStarted, Healthy and a phase that was set
\* stay as they are (markDeviceDisconnected against a concurrent
\* updateStatusForObservation).
DisconnectKeepsObservation ==
    [][\A p \in Proc :
        (api[p] # Absent /\ api'[p].connected = "False") =>
            /\ api'[p].started = api[p].started
            /\ api'[p].healthy = api[p].healthy
            /\ api'[p].phase # api[p].phase => api[p].phase = ""]_vars

\* A device that stops reporting for good is marked disconnected and stays
\* so, although its agent may go on polling desired state: stale detection of
\* stalenessLoop and recordDesiredHeartbeatIfEligible.
SilentDisconnected ==
    \A d \in Device :
        <>[](d \notin reporting) => \A p \in ProcsOf(d) : <>[](api[p].connected # "True")

\* Reports that observe every process keep arriving from each device.
ReportsOf(d) ==
    \E h \in Handler, obs \in ReportObservations(d) \ {NoObs} :
        "report" \in Takes[h] /\ ReportStart(h, d, obs)

ReportingSpec == FairSpec /\ \A d \in Device : SF_vars(ReportsOf(d))

\* A device that keeps reporting its processes, on time or late, is again and
\* again connected on all of them, whatever sweeps, conflicts, failed patches
\* and outdated caches came before (handleReport).
ReportingReconnects ==
    \A d \in Device :
        <>[](d \in reporting) =>
            \A p \in ProcsOf(d) : []<>(api[p].connected = "True" \/ api[p] = Absent)

\* A device that some gateway process always sees in time ends up connected
\* for good: "device stale (no recent reports)" is not written about it any
\* more (handleReport against markStaleDevices).
SeenInTime(d) ==
    \E g \in Replica : lastSeen[g][d] \in 0 .. StaleAfter(normalizeHeartbeat(hints[g][d]))
StaysConnected ==
    \A d \in Device :
        <>[]SeenInTime(d) =>
            \A p \in ProcsOf(d) : <>[](api[p].connected = "True" \/ api[p] = Absent)
==============================================================================
