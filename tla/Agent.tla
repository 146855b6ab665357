-------------------------------- MODULE Agent --------------------------------
(***************************************************************************)
(* The device agent (src/agent/main.go): one reconcile pass after another, *)
(* each from a poll of the gateway's desired state to a report, with the   *)
(* systemd units, files and state file it changes on the way.  The agent   *)
(* is one goroutine; it may crash between any two of its effects, calls    *)
(* may fail, processes may end by themselves, and the desired state may    *)
(* change at any time.                                                     *)
(*                                                                         *)
(* A spec is a value with the unit text and environment it renders to; the *)
(* spec hash and the ETag (a hash of names, generations and spec hashes)   *)
(* are represented by what they are hashes of.  Unit names of different    *)
(* keys are taken to be different.                                         *)
(***************************************************************************)
EXTENDS Systemd, FiniteSets

CONSTANTS
    ProcessSpec,   \* the specs a DeviceProcess may have
    UnitOf, EnvOf, \* what renderUnitFiles makes of them
    Class,         \* "run"; "oci": runs from an OCI artifact; "invalid":
                   \* renderUnitFiles fails; "foreign": backend not systemd
    FaultKinds,    \* bound: the kinds of fault that happen
    MaxFaults,     \* bound: how many of them happen
    MaxChanges     \* bound: changes of the desired state

NoSpec == "no spec"

ASSUME AgentAssumption ==
    /\ UnitOf \in [ProcessSpec -> UnitText]
    /\ EnvOf \in [ProcessSpec -> EnvText]
    /\ Class \in [ProcessSpec -> {"run", "oci", "invalid", "foreign"}]
    /\ None \notin UnitText \cup EnvText \cup Key /\ NoSpec \notin ProcessSpec
    /\ {MaxFaults, MaxChanges} \subseteq Nat

VARIABLES
    desired,      \* the spec the gateway serves for each key, or NoSpec
    lastETag,     \* agent.lastETag
    lastDesired,  \* agent.lastDesired
    managed,      \* agent.managed: per key, in the map or not and LastActionSpecHash
    saved,        \* the state file
    recent,       \* the keys acted upon less than 5 s ago (LastActionAt)
    pass,         \* the reconcile pass under way
    host,         \* the systemd units
    reported,     \* the last observation that reached the gateway
    faults,       \* history: the kinds of fault that have happened
    left          \* what is left of each bound

vars == <<desired, lastETag, lastDesired, managed, saved, recent, pass, host, reported, faults, left>>

(***************************************************************************)
(* managedItem: In says whether the map has the key.                       *)
(***************************************************************************)
Managed == [in: BOOLEAN, action: ProcessSpec \cup {NoSpec}]
Unmanaged == [in |-> FALSE, action |-> NoSpec]
NothingManaged == [k \in Key |-> Unmanaged]

carryManaged(m) == [m EXCEPT !.in = TRUE]
markAction(m, s) == [m EXCEPT !.action = s]
shouldAttemptAction_Once(m, k, s) == m.action = NoSpec \/ m.action # s
shouldAttemptAction(m, k, s) == m.action = NoSpec \/ m.action # s \/ k \notin recent

(***************************************************************************)
(* A pass: its items, the ones still to reconcile, the item in hand with   *)
(* its entry for managedNow, the removals still to make, the observations  *)
(* so far, and whether it is the first pass of the agent process.          *)
(***************************************************************************)
NoItems == [k \in Key |-> NoSpec]
NoObservations == [k \in Key |-> "none"]
NoPass == [pc |-> "idle", items |-> NoItems, todo |-> {}, key |-> None, entry |-> Unmanaged,
           unitChanged |-> FALSE, envChanged |-> FALSE, now |-> NothingManaged,
           obs |-> NoObservations, first |-> FALSE]

NoETag == <<>>
ETag(items) == <<items>>

Present(items) == {k \in Key : items[k] # NoSpec}
Item == pass.items[pass.key]
Entry == managed[pass.key]

Init ==
    /\ desired \in [Key -> ProcessSpec \cup {NoSpec}]
    /\ lastETag = NoETag
    /\ lastDesired = NoItems
    /\ managed = NothingManaged
    /\ saved = NothingManaged
    /\ recent = {}
    /\ pass = NoPass
    /\ host = [k \in Key |-> NoService]
    /\ reported = [k \in Key |-> [spec |-> NoSpec, obs |-> "none"]]
    /\ faults = {}
    /\ left = [faults |-> MaxFaults, changes |-> MaxChanges]

\* A call fails; two things fail at once.
Fault(kind) ==
    /\ kind \in FaultKinds
    /\ left.faults > 0
    /\ faults' = faults \cup {kind}
    /\ left' = [left EXCEPT !.faults = @ - 1]
TwoFaults(kind, other) ==
    /\ {kind, other} \subseteq FaultKinds
    /\ left.faults > 1
    /\ faults' = faults \cup {kind, other}
    /\ left' = [left EXCEPT !.faults = @ - 2]
NoFault == UNCHANGED <<faults, left>>

agentMemory == <<lastETag, lastDesired, managed, saved>>

\* The pass goes on at pc; what the item in hand is found to be is appended
\* to the observations and its entry to managedNow (appendAndContinue).
GoTo(pc) == pass' = [pass EXCEPT !.pc = pc]
AppendObservation_ForgetsFailed(obs, entry) ==
    pass' = [pass EXCEPT !.pc = "next", !.key = None, !.entry = Unmanaged, !.unitChanged = FALSE,
                !.envChanged = FALSE, !.obs[pass.key] = obs,
                !.now[pass.key] = IF obs = "error" THEN Unmanaged ELSE entry]
AppendObservation(obs, entry) ==
    pass' = [pass EXCEPT !.pc = "next", !.key = None, !.entry = Unmanaged, !.unitChanged = FALSE,
                !.envChanged = FALSE, !.obs[pass.key] = obs, !.now[pass.key] = entry]

(***************************************************************************)
(* pollDesired: 200 replaces lastDesired, 304 reconciles it again.         *)
(***************************************************************************)
Poll_KeepsDesired ==
    LET items == IF lastETag = ETag(desired) THEN lastDesired ELSE desired
    IN  /\ pass.pc = "idle"
        /\ lastETag' = ETag(desired)
        /\ pass' = [NoPass EXCEPT !.pc = "next", !.items = items, !.todo = Present(items),
                                  !.first = lastETag = NoETag]
        /\ UNCHANGED <<desired, lastDesired, managed, saved, recent, host, reported>>
        /\ NoFault
Poll ==
    LET items == IF lastETag = ETag(desired) THEN lastDesired ELSE desired
    IN  /\ pass.pc = "idle"
        /\ lastETag' = ETag(desired)
        /\ lastDesired' = items
        /\ pass' = [NoPass EXCEPT !.pc = "next", !.items = items, !.todo = Present(items),
                                  !.first = lastETag = NoETag]
        /\ UNCHANGED <<desired, managed, saved, recent, host, reported>>
        /\ NoFault

(***************************************************************************)
(* reconcile, one item: up to the rendered files.                          *)
(***************************************************************************)
TakeItem(k) ==
    LET s == pass.items[k]
        taken == [pass EXCEPT !.todo = @ \ {k}, !.key = k, !.entry = carryManaged(managed[k])]
    IN  /\ pass.pc = "next"
        /\ k \in pass.todo
        /\ \/ /\ Class[s] = "foreign"
              /\ pass' = [pass EXCEPT !.todo = @ \ {k}, !.obs[k] = "stopped",
                                      !.now[k] = carryManaged(managed[k])]
              /\ NoFault
           \/ /\ Class[s] \in {"run", "oci"}
              /\ pass' = [taken EXCEPT !.pc = "unit"]
              /\ NoFault
           \/ /\ Class[s] = "oci"
              /\ Fault("artifact")
              /\ pass' = [taken EXCEPT !.pc = "fail"]
           \/ /\ Class[s] = "invalid"
              /\ pass' = [taken EXCEPT !.pc = "invalid"]
              /\ NoFault
        /\ UNCHANGED <<desired, agentMemory, recent, host, reported>>

EnsureUnit ==
    /\ pass.pc = "unit"
    /\ \/ /\ host' = WriteUnit(host, pass.key, UnitOf[Item])
          /\ pass' = [pass EXCEPT !.pc = "env", !.unitChanged = host[pass.key].unit # UnitOf[Item]]
          /\ NoFault
       \/ /\ Fault("write")
          /\ GoTo("fail")
          /\ UNCHANGED host
    /\ UNCHANGED <<desired, agentMemory, recent, reported>>

EnsureEnv ==
    /\ pass.pc = "env"
    /\ \/ /\ host' = WriteEnv(host, pass.key, EnvOf[Item])
          /\ pass' = [pass EXCEPT !.pc = IF pass.unitChanged THEN "reload" ELSE "act",
                                  !.envChanged = host[pass.key].env # EnvOf[Item]]
          /\ NoFault
       \/ /\ Fault("write")
          /\ GoTo("fail")
          /\ UNCHANGED host
    /\ UNCHANGED <<desired, agentMemory, recent, reported>>

\* A failed daemon-reload is logged and nothing else.
Reload ==
    /\ pass.pc = "reload"
    /\ GoTo("act")
    /\ \/ host' = DaemonReload(host) /\ NoFault
       \/ Fault("reload") /\ UNCHANGED host
    /\ UNCHANGED <<desired, agentMemory, recent, reported>>

(***************************************************************************)
(* reconcile, one item: the systemctl commands.  A command that fails may  *)
(* leave the unit as it was or have done part of its work.                 *)
(***************************************************************************)
ActionDone(pc) ==
    /\ pass' = [pass EXCEPT !.pc = pc, !.entry = markAction(pass.entry, Item)]
    /\ recent' = recent \cup {pass.key}

\* enable --now, for a unit the agent did not manage before this pass.
ActStart ==
    /\ pass.pc = "act"
    /\ ~Entry.in
    /\ \/ /\ host' = EnableAndStart(host, pass.key)
          /\ ActionDone("show")
          /\ NoFault
       \/ /\ Fault("start")
          /\ host' \in {host, [host EXCEPT ![pass.key].enabled = TRUE]}
          /\ GoTo("fail")
          /\ UNCHANGED recent
    /\ UNCHANGED <<desired, agentMemory, reported>>

\* restart, for a managed unit whose files changed.
FilesChanged_UnitOnly == pass.unitChanged
FilesChanged == pass.unitChanged \/ pass.envChanged

ActRestart ==
    /\ pass.pc = "act"
    /\ Entry.in
    /\ FilesChanged
    /\ \/ /\ host' = Restart(host, pass.key)
          /\ ActionDone("show")
          /\ NoFault
       \/ /\ Fault("start")
          /\ host' \in {host, [host EXCEPT ![pass.key] = Stopped(@)]}
          /\ GoTo("fail")
          /\ UNCHANGED recent
    /\ UNCHANGED <<desired, agentMemory, reported>>

ActNone ==
    /\ pass.pc = "act"
    /\ Entry.in
    /\ ~FilesChanged
    /\ GoTo("show")
    /\ UNCHANGED <<desired, agentMemory, recent, host, reported>>
    /\ NoFault

\* show, and what follows from it: an active unit is reported as started; any
\* other one is started again, unless it was acted upon just now.
Show ==
    LET up == Running(host[pass.key])
    IN  /\ pass.pc = "show"
        /\ \/ /\ Fault("show")
              /\ AppendObservation("error", pass.entry)
           \/ /\ up \/ ~shouldAttemptAction(pass.entry, pass.key, Item)
              /\ AppendObservation(IF up THEN "running" ELSE "stopped", pass.entry)
              /\ NoFault
           \/ /\ ~up /\ shouldAttemptAction(pass.entry, pass.key, Item)
              /\ GoTo("drift")
              /\ NoFault
        /\ UNCHANGED <<desired, agentMemory, recent, host, reported>>

\* The action is marked whether or not it succeeds.
Drift ==
    /\ pass.pc = "drift"
    /\ \/ /\ host' = EnableAndStart(host, pass.key)
          /\ ActionDone("reshow")
          /\ NoFault
       \/ /\ Fault("start")
          /\ host' \in {host, [host EXCEPT ![pass.key].enabled = TRUE]}
          /\ ActionDone("fail")
    /\ UNCHANGED <<desired, agentMemory, reported>>

\* A failed second show leaves no pid and no state, so "not started" with an
\* error message.
Reshow ==
    /\ pass.pc = "reshow"
    /\ \/ /\ Fault("show")
          /\ AppendObservation("error", pass.entry)
       \/ /\ AppendObservation(IF Running(host[pass.key]) THEN "running" ELSE "stopped", pass.entry)
          /\ NoFault
    /\ UNCHANGED <<desired, agentMemory, recent, host, reported>>

\* stopAndDisableQuiet: a unit without a file is left alone without an error.
QuietStop(k) == IF Exists(host[k]) THEN StopAndDisable(host, k) ELSE host

\* The common end of every failure: stop, with the result ignored, and report
\* the error.
Fail ==
    /\ pass.pc = "fail"
    /\ AppendObservation("error", pass.entry)
    /\ \/ host' = QuietStop(pass.key) /\ NoFault
       \/ Fault("stop") /\ UNCHANGED host
    /\ UNCHANGED <<desired, agentMemory, recent, reported>>

(***************************************************************************)
(* reconcile, an item whose files cannot be rendered: stop, then remove    *)
(* the files, and reload if both are gone.                                 *)
(***************************************************************************)
InvalidStop ==
    /\ pass.pc = "invalid"
    /\ GoTo("discard")
    /\ \/ host' = QuietStop(pass.key) /\ NoFault
       \/ Fault("stop") /\ UNCHANGED host
    /\ UNCHANGED <<desired, agentMemory, recent, reported>>

\* RemoveUnitWithDetails removes the unit file first; an error at either file
\* ends it there.
RemoveFails(k) ==
    /\ Fault("remove")
    /\ host' \in {host, RemoveUnitFile(host, k)}

InvalidRemove ==
    /\ pass.pc = "discard"
    /\ \/ /\ host' = RemoveFiles(host, pass.key)
          /\ IF Exists(host[pass.key]) THEN GoTo("discarded")
                                       ELSE AppendObservation("error", pass.entry)
          /\ NoFault
       \/ /\ RemoveFails(pass.key)
          /\ AppendObservation("error", pass.entry)
    /\ UNCHANGED <<desired, agentMemory, recent, reported>>

InvalidReload ==
    /\ pass.pc = "discarded"
    /\ AppendObservation("error", pass.entry)
    /\ \/ host' = DaemonReload(host) /\ NoFault
       \/ Fault("reload") /\ UNCHANGED host
    /\ UNCHANGED <<desired, agentMemory, recent, reported>>

(***************************************************************************)
(* reconcile, the units that are managed but no longer desired.  Errors    *)
(* are logged; the unit leaves the managed set all the same.               *)
(***************************************************************************)
Obsolete_ActedUpon == {k \in Key : managed[k].in /\ managed[k].action # NoSpec /\ ~pass.now[k].in}
Obsolete == {k \in Key : managed[k].in /\ ~pass.now[k].in}

RemovalsStart_SavesFirst ==
    /\ pass.pc = "next"
    /\ pass.todo = {}
    /\ pass' = [pass EXCEPT !.pc = "removals", !.todo = Obsolete]
    /\ saved' = pass.now
    /\ UNCHANGED <<desired, lastETag, lastDesired, managed, recent, host, reported>>
    /\ NoFault
RemovalsStart ==
    /\ pass.pc = "next"
    /\ pass.todo = {}
    /\ pass' = [pass EXCEPT !.pc = "removals", !.todo = Obsolete]
    /\ UNCHANGED <<desired, agentMemory, recent, host, reported>>
    /\ NoFault

RemovalStop(k) ==
    /\ pass.pc = "removals"
    /\ k \in pass.todo
    /\ pass' = [pass EXCEPT !.pc = "remove", !.key = k, !.todo = @ \ {k}]
    /\ \/ host' = QuietStop(k) /\ NoFault
       \/ Fault("stop") /\ UNCHANGED host
    /\ UNCHANGED <<desired, agentMemory, recent, reported>>

RemovalFiles ==
    /\ pass.pc = "remove"
    /\ \/ host' = RemoveFiles(host, pass.key) /\ NoFault
       \/ RemoveFails(pass.key)
    /\ pass' = IF host'[pass.key].unit # host[pass.key].unit
               THEN [pass EXCEPT !.pc = "removed"] ELSE [pass EXCEPT !.pc = "removals", !.key = None]
    /\ UNCHANGED <<desired, agentMemory, recent, reported>>

RemovalReload ==
    /\ pass.pc = "removed"
    /\ pass' = [pass EXCEPT !.pc = "removals", !.key = None]
    /\ \/ host' = DaemonReload(host) /\ NoFault
       \/ Fault("reload") /\ UNCHANGED host
    /\ UNCHANGED <<desired, agentMemory, recent, reported>>

(***************************************************************************)
(* The end of a pass: managed becomes managedNow, the state file is        *)
(* replaced by a rename (an error is logged), and the observations, if     *)
(* any, are sent.                                                          *)
(***************************************************************************)
Commit ==
    /\ pass.pc = "removals"
    /\ pass.todo = {}
    /\ managed' = pass.now
    /\ \/ saved' = pass.now /\ NoFault
       \/ Fault("persist") /\ UNCHANGED saved
    /\ IF Present(pass.items) = {} THEN pass' = NoPass ELSE GoTo("send")
    /\ UNCHANGED <<desired, lastETag, lastDesired, recent, host, reported>>

\* loadState.  When the state file cannot be read or parsed, the error is
\* logged and the agent goes on with nothing managed; an empty file is not
\* even an error.  The file is then damaged, or it stays as it is until the
\* next pass replaces it.
LoadState(kind) ==
    \/ /\ Fault(kind)
       /\ managed' = saved
       /\ UNCHANGED saved
    \/ /\ TwoFaults(kind, "load")
       /\ managed' = NothingManaged
       /\ saved' \in {saved, NothingManaged}

\* The agent process ends, by a fault of this kind, and is started again: only
\* the state file is left of what it knew.  LastActionAt may be older in the
\* file than in memory.
RestartAgent(kind) ==
    /\ LoadState(kind)
    /\ lastETag' = NoETag
    /\ lastDesired' = NoItems
    /\ recent' \in SUBSET recent
    /\ pass' = NoPass
    /\ UNCHANGED <<desired, reported>>

\* run retries after a failed report, except in the first pass, whose error
\* ends the process.
SendReport ==
    /\ pass.pc = "send"
    /\ \/ /\ pass' = NoPass
          /\ reported' = [k \in Key |->
                           IF pass.obs[k] = "none" THEN reported[k]
                           ELSE [spec |-> pass.items[k], obs |-> pass.obs[k]]]
          /\ UNCHANGED <<desired, agentMemory, recent>>
          /\ NoFault
       \/ /\ ~pass.first
          /\ Fault("report")
          /\ pass' = NoPass
          /\ UNCHANGED <<desired, agentMemory, recent, reported>>
       \/ /\ pass.first
          /\ RestartAgent("exit")
    /\ UNCHANGED host

(***************************************************************************)
(* The environment.                                                        *)
(***************************************************************************)

Crash ==
    /\ RestartAgent("crash")
    /\ UNCHANGED host

Reboot ==
    /\ RestartAgent("reboot")
    /\ host' = [k \in Key |-> Boot(host[k])]

\* A process ends by itself; systemd may start it again (Restart=).
Die(k) ==
    /\ Running(host[k])
    /\ Fault("death")
    /\ host' = [host EXCEPT ![k] = [Stopped(@) EXCEPT !.died = TRUE]]
    /\ UNCHANGED <<desired, agentMemory, recent, pass, reported>>

SystemdRestarts(k) ==
    /\ host[k].died
    /\ Restartable(host[k])
    /\ host' = [host EXCEPT ![k] = Launched(@)]
    /\ UNCHANGED <<desired, agentMemory, recent, pass, reported>>
    /\ NoFault

\* A DeviceProcess is created, changed or deleted.
Change(k, s) ==
    /\ desired[k] # s
    /\ left.changes > 0
    /\ left' = [left EXCEPT !.changes = @ - 1]
    /\ desired' = [desired EXCEPT ![k] = s]
    /\ UNCHANGED <<agentMemory, recent, pass, host, reported, faults>>

\* Five seconds have passed since the last action on k.
Elapse(k) ==
    /\ k \in recent
    /\ recent' = recent \ {k}
    /\ UNCHANGED <<desired, agentMemory, pass, host, reported>>
    /\ NoFault

AgentStep ==
    \/ Poll \/ EnsureUnit \/ EnsureEnv \/ Reload \/ ActStart \/ ActRestart \/ ActNone
    \/ Show \/ Drift \/ Reshow \/ Fail \/ InvalidStop \/ InvalidRemove \/ InvalidReload
    \/ RemovalsStart \/ RemovalFiles \/ RemovalReload \/ Commit \/ SendReport
    \/ \E k \in Key : TakeItem(k) \/ RemovalStop(k)

Environment ==
    \/ Crash \/ Reboot
    \/ \E k \in Key : Die(k) \/ SystemdRestarts(k) \/ Elapse(k)
    \/ \E k \in Key, s \in ProcessSpec \cup {NoSpec} : Change(k, s)

Next == AgentStep \/ Environment

Spec == Init /\ [][Next]_vars

\* The agent's loop goes on (its tickers keep firing and it is restarted
\* after a crash), and time passes.  Faults and changes need not
\* happen.
FairSpec == Spec /\ WF_vars(AgentStep) /\ \A k \in Key : WF_vars(Elapse(k))

(***************************************************************************)
(* Properties.                                                             *)
(***************************************************************************)
Pass == [pc: {"idle", "next", "unit", "env", "reload", "act", "show", "drift", "reshow", "fail",
              "invalid", "discard", "discarded", "removals", "remove", "removed", "send"},
         items: [Key -> ProcessSpec \cup {NoSpec}], todo: SUBSET Key, key: Key \cup {None},
         entry: Managed, unitChanged: BOOLEAN, envChanged: BOOLEAN, now: [Key -> Managed],
         obs: [Key -> {"none", "running", "stopped", "error"}], first: BOOLEAN]

\* Every variable keeps its shape.
TypeOK ==
    /\ desired \in [Key -> ProcessSpec \cup {NoSpec}]
    /\ lastDesired \in [Key -> ProcessSpec \cup {NoSpec}]
    /\ lastETag \in {NoETag, ETag(lastDesired)}
    /\ managed \in [Key -> Managed]
    /\ saved \in [Key -> Managed]
    /\ recent \in SUBSET Key
    /\ pass \in Pass
    /\ host \in [Key -> Service]
    /\ reported \in [Key -> [spec: ProcessSpec \cup {NoSpec},
                              obs: {"none", "running", "stopped", "error"}]]
    /\ faults \in SUBSET FaultKinds
    /\ left \in [faults: 0 .. MaxFaults, changes: 0 .. MaxChanges]

Runs(k, s) == host[k].procUnit = UnitOf[s] /\ host[k].procEnv = EnvOf[s]

\* The agent was started again from a state file that may be behind, or that
\* it could not load.
StateLost ==
    faults \cap {"crash", "reboot", "load"} # {} \/ {"persist", "exit"} \subseteq faults

\* A process that a pass reports as started runs the very unit text and
\* environment of the spec whose hash is reported with it, not those of an
\* earlier spec.  It needs that no state was lost and that no reload and no
\* stop failed; failed writes, starts, restarts, shows, downloads, saves and
\* reports do not break it, and neither does the exit of the agent after a
\* failed first report (reconcile).
RunsWhatItReports ==
    ~StateLost /\ faults \cap {"reload", "stop"} = {} =>
        \A k \in Key :
            pass.obs[k] = "running" /\ Running(host[k]) => Runs(k, pass.items[k])

\* Whatever the agent has left on the host, files, an enabled unit or a
\* process, belongs to a key it still manages, so that a later pass can remove
\* it.  It needs that no state was lost and that no stop and no removal
\* failed (the removal loop of reconcile, managedNow).
UnitsTracked ==
    ~StateLost /\ faults \cap {"stop", "remove"} = {} =>
        \A k \in Key :
            ~Clean(host[k]) => managed[k].in \/ pass.now[k].in \/ pass.key = k

\* What is desired of a key, and whether the host and the gateway agree.
Wanted(k) == desired[k] # NoSpec /\ Class[desired[k]] \in {"run", "oci"}
Settled(k) == Runs(k, desired[k]) /\ reported[k] = [spec |-> desired[k], obs |-> "running"]

\* The number of changes is bounded, so that the desired state is constant
\* from some time on; the next properties are about that time.

\* DaemonSet semantics: as long as a runnable resource exists, its process is
\* running again and again, whatever crashes, reboots and failures came
\* before (the drift correction of reconcile).
KeepsRunning == \A k \in Key : []<>(Wanted(k) => Running(host[k]))

\* Once the spec of a key no longer changes, its process ends up running that
\* spec, and is reported so (reconcile, sendReport), if no state was lost.
Converges == <>[]\A k \in Key : Wanted(k) /\ ~StateLost => Settled(k)

\* README.md: the agent executes the commanded process and reports the spec
\* hash with it.  As Converges, also when the agent crashed on the way.
ConvergesAfterCrash == <>[]\A k \in Key : Wanted(k) => Settled(k)

\* Once a resource is deleted for good, its unit is stopped and disabled and
\* its files are removed (the removal loop of reconcile), if no state was lost.
DeletedGone == <>[]\A k \in Key : desired[k] = NoSpec /\ ~StateLost => Clean(host[k])

\* A unit that is in the state file is removed after its resource is deleted,
\* unless that is created again, even if the agent crashes or the device
\* reboots in the middle of it: the key leaves the state file only after the
\* removal.  It needs that the file can be loaded at every start: after a
\* failed load the next pass overwrites it, and the unit is forgotten.
SavedDeletedGone ==
    \A k \in Key :
        saved[k].in /\ desired[k] = NoSpec
            ~> Clean(host[k]) \/ desired[k] # NoSpec \/ "load" \in faults
==============================================================================
