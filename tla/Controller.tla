------------------------------ MODULE Controller ------------------------------
(***************************************************************************)
(* The DeviceProcessDeployment controller                                  *)
(* (src/controller/reconcilers/deviceprocessdeployment_controller.go): the *)
(* watches that queue a deployment, and Reconcile, which makes one         *)
(* DeviceProcess per matching NetworkSwitch, deletes the others and writes *)
(* the deployment's status.                                                *)
(*                                                                         *)
(* The model follows one deployment name; its object may be deleted and    *)
(* created again with another UID.  There is one process per device.       *)
(* Switches carry two labels: "role", which changes, and "site", which is  *)
(* always there and never does.                                            *)
(*                                                                         *)
(* An object is the sequence of its versions that the watch has yet to     *)
(* deliver, after the one it delivered last: the first is in the informer  *)
(* cache, the last in the API server.  Deployments and DeviceProcesses are *)
(* read from the cache; NetworkSwitches, being unstructured, are listed    *)
(* from the API server.                                                    *)
(***************************************************************************)
EXTENDS Integers, FiniteSets, Sequences

CONSTANTS
    Device,       \* NetworkSwitch names
    Template,     \* pod-like templates of the deployment
    Selector,     \* subset of SelectorKind
    LabelValue,   \* values of the role label; "equals" asks for "tor"
    MaxUid,       \* bound: deployments created under the name
    MaxChanges,   \* bound: changes of the deployment and of the switches
    MaxReports,   \* bound: status changes made by the gateway
    MaxFaults,    \* bound: API errors and controller restarts
    MaxEvents,    \* bound: all of the above together
    MaxLag        \* bound: versions of an object its watch is behind

\* No requirement at all, three on the role label, one on the site label.
SelectorKind == {"all", "exists", "equals", "unsupported", "site"}

ASSUME ControllerAssumption ==
    /\ IsFiniteSet(Device)
    /\ Selector \subseteq SelectorKind
    /\ {MaxUid, MaxChanges, MaxReports, MaxFaults, MaxEvents, MaxLag} \subseteq Nat

VARIABLES
    switch,       \* each NetworkSwitch: its role, Unset, or NoSwitch
    dep,          \* the deployment
    dp,           \* the DeviceProcess of each device
    queued,       \* whether the deployment is in the work queue
    rec,          \* the Reconcile under way
    used          \* how much of each bound is used up

vars == <<switch, dep, dp, queued, rec, used>>

Cached(versions) == Head(versions)
Live(versions) == versions[Len(versions)]

\* A write makes a new version, unless it changes nothing.
Writable(versions) == Len(versions) <= MaxLag
Written(versions, object) ==
    IF object = Live(versions) THEN versions ELSE Append(versions, object)

\* The objects as the cache and as the API server have them.
depSeen == Cached(dep)
dpSeen == [d \in Device |-> Cached(dp[d])]
depNow == Live(dep)
dpNow == [d \in Device |-> Live(dp[d])]
switchNow == [d \in Device |-> Live(switch[d])]

Unset == "unset"
NoSwitch == "no switch"
SwitchState == LabelValue \cup {Unset, NoSwitch}

Cond == {"None", "True", "False"}
NoStatus == [observedGeneration |-> 0, desired |-> 0, current |-> 0, updated |-> 0,
             available |-> 0, unavailable |-> 0, Available |-> "None", Progressing |-> "None"]
NoTemplate == "no template"
NoDeployment == [uid |-> 0, generation |-> 0, template |-> NoTemplate,
                 selector |-> "unsupported", status |-> NoStatus]

\* A DeviceProcess: UID of its controller (also its UID label; 0 if there is
\* no such object), the role copied from its switch, its spec, and of its
\* status the observed spec and whether isProcessReady holds.
NoProcess == [owner |-> 0, role |-> Unset, spec |-> NoTemplate, observed |-> NoTemplate,
              ready |-> FALSE]

\* What Reconcile works from: the deployment, the switches it listed (devices)
\* and their roles, and what is left of the loop it is in.
NoReconcile == [pc |-> "idle", dep |-> NoDeployment, devices |-> {},
                role |-> [d \in Device |-> Unset], todo |-> {}]

Init ==
    /\ \E value \in [Device -> SwitchState] : switch = [d \in Device |-> <<value[d]>>]
    /\ dep = <<NoDeployment>>
    /\ dp = [d \in Device |-> <<NoProcess>>]
    /\ queued = FALSE
    /\ rec = NoReconcile
    /\ used = [uid |-> 0, changes |-> 0, reports |-> 0, faults |-> 0]

Spend(bound, limit) ==
    /\ used[bound] < limit
    /\ used.uid + used.changes + used.reports + used.faults < MaxEvents
    /\ used' = [used EXCEPT ![bound] = @ + 1]

(***************************************************************************)
(* Selectors and the watch on NetworkSwitches.                             *)
(***************************************************************************)
Supported(sel) == sel # "unsupported"

\* LabelSelectorAsSelector, on the labels of a switch.
Matches(sel, value) ==
    /\ value # NoSwitch
    /\ CASE sel = "all"    -> TRUE
         [] sel = "exists" -> value # Unset
         [] sel = "equals" -> value = "tor"
         [] sel = "site"   -> TRUE
         [] OTHER          -> value = Unset

\* selectorLabelKeys: the keys a deployment is indexed under.
AllKey == "allSelectorIndexKey"
selectorLabelKeys(sel) ==
    CASE sel = "all"  -> {AllKey}
      [] sel = "site" -> {"site"}
      [] OTHER        -> {"role"}

\* Reading a label of a Go map: a missing key reads as the empty string.
Lookup(value) == IF value = Unset THEN "" ELSE value

changedLabelKeys(old, new) == IF Lookup(old) # Lookup(new) THEN {"role"} ELSE {}
LabelKeys(value) == IF value = Unset THEN {"site"} ELSE {"role", "site"}

\* requestsForNetworkSwitch: the deployment is found through the index on its
\* selector's keys and must match the labels.
RequestFor(value, keys) ==
    /\ depSeen.uid # 0
    /\ selectorLabelKeys(depSeen.selector) \cap (keys \cup {AllKey}) # {}
    /\ Matches(depSeen.selector, value)

\* The handlers for a switch that is created, deleted or updated.
SwitchRequests_NewOnly(old, new) ==
    CASE old = NoSwitch -> RequestFor(new, LabelKeys(new))
      [] new = NoSwitch -> RequestFor(old, LabelKeys(old))
      [] OTHER -> changedLabelKeys(old, new) # {} /\ RequestFor(new, changedLabelKeys(old, new))
SwitchRequests(old, new) ==
    CASE old = NoSwitch -> RequestFor(new, LabelKeys(new))
      [] new = NoSwitch -> RequestFor(old, LabelKeys(old))
      [] OTHER -> LET keys == changedLabelKeys(old, new)
                  IN  keys # {} /\ (RequestFor(old, keys) \/ RequestFor(new, keys))

SwitchEvent(d) ==
    /\ Len(switch[d]) > 1
    /\ switch' = [switch EXCEPT ![d] = Tail(@)]
    /\ queued' = (queued \/ SwitchRequests(switch[d][1], switch[d][2]))
    /\ UNCHANGED <<dep, dp, rec, used>>

\* For(deployment) and Owns(DeviceProcess) queue on every event.
DeploymentEvent ==
    /\ Len(dep) > 1
    /\ dep' = Tail(dep)
    /\ queued' = TRUE
    /\ UNCHANGED <<switch, dp, rec, used>>

ProcessEvent_NotOwned(d) ==
    /\ Len(dp[d]) > 1
    /\ dp' = [dp EXCEPT ![d] = Tail(@)]
    /\ UNCHANGED <<switch, dep, queued, rec, used>>
ProcessEvent(d) ==
    /\ Len(dp[d]) > 1
    /\ dp' = [dp EXCEPT ![d] = Tail(@)]
    /\ queued' = TRUE
    /\ UNCHANGED <<switch, dep, rec, used>>

(***************************************************************************)
(* Reconcile.                                                              *)
(***************************************************************************)
Matching(sel) == {d \in Device : Matches(sel, switchNow[d])}

Begin ==
    /\ queued
    /\ rec.pc = "idle"
    /\ queued' = FALSE
    /\ rec' = IF depSeen.uid = 0 \/ ~Supported(depSeen.selector) THEN NoReconcile
              ELSE LET devices == Matching(depSeen.selector)
                   IN  [pc |-> "apply", dep |-> depSeen, devices |-> devices,
                        role |-> [d \in Device |-> IF d \in devices THEN switchNow[d] ELSE Unset],
                        todo |-> devices]
    /\ UNCHANGED <<switch, dep, dp, used>>

\* A call fails: Reconcile returns the error and the request is queued again
\* (after a minute if the NetworkSwitch kind is missing).  A failing list of
\* switches is Begin followed by this.
CallFails ==
    /\ rec.pc # "idle"
    /\ Spend("faults", MaxFaults)
    /\ rec' = NoReconcile
    /\ queued' = TRUE
    /\ UNCHANGED <<switch, dep, dp>>

\* selectedDeviceLabels: the keys of the selector, and always role, type and
\* rack; a label the switch lacks is not copied.
\* applyDeviceProcess: server-side apply of these labels, the controller
\* reference and the spec; the status of an existing object stays.
Applied(process, deployment, role) ==
    [process EXCEPT !.owner = deployment.uid, !.role = role, !.spec = deployment.template]

Apply(d) ==
    /\ rec.pc = "apply"
    /\ d \in rec.todo
    /\ Writable(dp[d])
    /\ dp' = [dp EXCEPT ![d] = Written(@, Applied(Live(@), rec.dep, rec.role[d]))]
    /\ rec' = [rec EXCEPT !.todo = @ \ {d}]
    /\ UNCHANGED <<switch, dep, queued, used>>

\* cleanupStale: list the processes that carry the deployment's name, and
\* keep those to delete.
Stale_AnyOwner(d) == dpSeen[d].owner # 0 /\ d \notin rec.devices
Stale(d) == dpSeen[d].owner # 0 /\ d \notin rec.devices /\ dpSeen[d].owner = rec.dep.uid

CleanupList ==
    /\ rec.pc = "apply"
    /\ rec.todo = {}
    /\ rec' = [rec EXCEPT !.pc = "cleanup", !.todo = {d \in Device : Stale(d)}]
    /\ UNCHANGED <<switch, dep, dp, queued, used>>

\* Delete by name; an object that is already gone is skipped.
CleanupDelete(d) ==
    /\ rec.pc = "cleanup"
    /\ d \in rec.todo
    /\ Writable(dp[d])
    /\ dp' = [dp EXCEPT ![d] = Written(@, NoProcess)]
    /\ rec' = [rec EXCEPT !.todo = @ \ {d}]
    /\ UNCHANGED <<switch, dep, queued, used>>

(***************************************************************************)
(* updateStatus.  The counts come from the cached processes.               *)
(***************************************************************************)
Listed == {d \in Device : dpSeen[d].owner # 0}
NewStatus_Unclamped ==
    LET desired == Cardinality(rec.devices)
        available == Cardinality({d \in Listed : dpSeen[d].ready})
    IN  [NoStatus EXCEPT !.desired = desired, !.available = available,
                         !.unavailable = desired - available]
NewStatus ==
    LET desired == Cardinality(rec.devices)
        updated == Cardinality({d \in Listed \cap rec.devices : dpSeen[d].observed = rec.dep.template})
        available == Cardinality({d \in Listed : dpSeen[d].ready})
    IN  [observedGeneration |-> rec.dep.generation, desired |-> desired, current |-> Cardinality(Listed),
         updated |-> updated, available |-> available,
         unavailable |-> IF desired > available THEN desired - available ELSE 0,
         Available |-> IF desired # 0 /\ available = desired THEN "True" ELSE "False",
         Progressing |-> IF desired # 0 /\ (updated < desired \/ available < desired)
                         THEN "True" ELSE "False"]

\* status := deployment.Status copies the struct but shares the array of
\* conditions: SetCondition overwrites an existing condition in the object
\* that the patch is then computed against.  Base is that object.
Base(status, new) ==
    IF status.Available = "None" THEN status
    ELSE [status EXCEPT !.Available = new.Available, !.Progressing = new.Progressing]

\* A merge patch sets the fields that differ from the base; nothing is sent
\* when none does.  The patch of a deployment that is gone fails.
MergePatch(target, base, new) ==
    [f \in DOMAIN NoStatus |-> IF new[f] # base[f] THEN new[f] ELSE target[f]]

UpdateStatus ==
    /\ rec.pc = "cleanup"
    /\ rec.todo = {}
    /\ rec' = NoReconcile
    /\ LET base == Base(rec.dep.status, NewStatus)
       IN  \/ /\ depNow.uid # 0
              /\ Writable(dep)
              /\ dep' = Written(dep, [depNow EXCEPT !.status = MergePatch(@, base, NewStatus)])
              /\ UNCHANGED queued
           \/ /\ depNow.uid = 0
              /\ queued' = (queued \/ NewStatus # base)
              /\ UNCHANGED dep
    /\ UNCHANGED <<switch, dp, used>>

\* The controller restarts: caches are filled and every deployment is queued.
RestartController ==
    /\ Spend("faults", MaxFaults)
    /\ rec' = NoReconcile
    /\ switch' = [d \in Device |-> <<switchNow[d]>>]
    /\ dep' = <<depNow>>
    /\ dp' = [d \in Device |-> <<dpNow[d]>>]
    /\ queued' = TRUE

(***************************************************************************)
(* The environment: users, the gateway and the garbage collector.          *)
(***************************************************************************)
CreateDeployment(t, sel) ==
    /\ depNow.uid = 0
    /\ Writable(dep)
    /\ Spend("uid", MaxUid)
    /\ dep' = Append(dep, [uid |-> used.uid + 1, generation |-> 1, template |-> t,
                           selector |-> sel, status |-> NoStatus])
    /\ UNCHANGED <<switch, dp, queued, rec>>

ChangeDeployment(t, sel) ==
    /\ depNow.uid # 0
    /\ <<t, sel>> # <<depNow.template, depNow.selector>>
    /\ Writable(dep)
    /\ Spend("changes", MaxChanges)
    /\ dep' = Append(dep, [depNow EXCEPT !.generation = @ + 1, !.template = t, !.selector = sel])
    /\ UNCHANGED <<switch, dp, queued, rec>>

DeleteDeployment ==
    /\ depNow.uid # 0
    /\ Writable(dep)
    /\ Spend("changes", MaxChanges)
    /\ dep' = Append(dep, NoDeployment)
    /\ UNCHANGED <<switch, dp, queued, rec>>

ChangeSwitch(d, value) ==
    /\ switchNow[d] # value
    /\ Writable(switch[d])
    /\ Spend("changes", MaxChanges)
    /\ switch' = [switch EXCEPT ![d] = Append(@, value)]
    /\ UNCHANGED <<dep, dp, queued, rec>>

RemoveProcess(d) ==
    /\ dpNow[d].owner # 0
    /\ Writable(dp[d])
    /\ dp' = [dp EXCEPT ![d] = Append(@, NoProcess)]
    /\ UNCHANGED <<switch, dep, queued, rec>>

DeleteProcess(d) == Spend("changes", MaxChanges) /\ RemoveProcess(d)

\* The gateway writes what the agent reports, of the current or of an earlier
\* spec, or that it is disconnected.
Report(d, t, ready) ==
    /\ dpNow[d].owner # 0
    /\ Writable(dp[d])
    /\ Spend("reports", MaxReports)
    /\ dp' = [dp EXCEPT ![d] = Written(@, [dpNow[d] EXCEPT !.observed = t, !.ready = ready])]
    /\ UNCHANGED <<switch, dep, queued, rec>>

\* Kubernetes deletes a process whose controller is gone.
CollectGarbage(d) ==
    /\ dpNow[d].owner # depNow.uid
    /\ RemoveProcess(d)
    /\ UNCHANGED used

Reconcile ==
    \/ Begin
    \/ CleanupList
    \/ UpdateStatus
    \/ \E d \in Device : Apply(d) \/ CleanupDelete(d)

Environment ==
    \/ \E t \in Template, sel \in Selector : CreateDeployment(t, sel) \/ ChangeDeployment(t, sel)
    \/ DeleteDeployment
    \/ \E d \in Device, value \in SwitchState : ChangeSwitch(d, value)
    \/ \E d \in Device : DeleteProcess(d) \/ CollectGarbage(d)
    \/ \E d \in Device, t \in Template, ready \in BOOLEAN : Report(d, t, ready)

Next ==
    \/ Reconcile
    \/ CallFails
    \/ RestartController
    \/ DeploymentEvent
    \/ \E d \in Device : SwitchEvent(d) \/ ProcessEvent(d)
    \/ Environment

Spec == Init /\ [][Next]_vars

\* Queued requests are worked on, watches deliver, and the garbage collector
\* runs; users, failures and restarts owe nothing.
Fairness ==
    /\ WF_vars(Reconcile)
    /\ WF_vars(DeploymentEvent)
    /\ \A d \in Device :
          /\ WF_vars(SwitchEvent(d))
          /\ WF_vars(ProcessEvent(d))
          /\ WF_vars(CollectGarbage(d))

FairSpec == Spec /\ Fairness

(***************************************************************************)
(* Properties.                                                             *)
(***************************************************************************)
Status == [observedGeneration : Nat, desired : Nat, current : Nat, updated : Nat,
           available : Nat, unavailable : Nat, Available : Cond, Progressing : Cond]
Deployment == [uid : Nat, generation : Nat, template : Template \cup {NoTemplate},
               selector : Selector \cup {"unsupported"}, status : Status]
Versions(S) == Seq(S) \ {<<>>}
Process == [owner : Nat, role : LabelValue \cup {Unset}, spec : Template \cup {NoTemplate},
            observed : Template \cup {NoTemplate}, ready : BOOLEAN]

\* Every variable keeps its type; in particular no count of the status ever
\* goes below zero (updateStatus clamps numberUnavailable, for there can be
\* more ready processes than matching devices).
TypeOK ==
    /\ switch \in [Device -> Versions(SwitchState)]
    /\ dep \in Versions(Deployment)
    /\ dp \in [Device -> Versions(Process)]
    /\ queued \in BOOLEAN
    /\ rec \in [pc : {"idle", "apply", "cleanup"}, dep : Deployment,
                devices : SUBSET Device, role : [Device -> LabelValue \cup {Unset}], todo : SUBSET Device]
    /\ used \in [{"uid", "changes", "reports", "faults"} -> Nat]

\* Reconcile works from caches that lag: it never takes a DeviceProcess from
\* a deployment created later under the same name, and cleanupStale never
\* deletes one that its own deployment does not control at that moment.
TouchesOnlyOwn ==
    [][\A d \in Device :
         rec.pc # "idle" /\ rec' # rec /\ dpNow'[d] # dpNow[d] =>
            /\ dpNow[d].owner <= rec.dep.uid
            /\ dpNow'[d].owner = 0 => dpNow[d].owner = rec.dep.uid]_vars

\* The processes the deployment asks for: one for each matching switch, of
\* the current template, controlled by this deployment and, where the role is
\* what the selector asks about, or nothing is, labelled with the role of its
\* switch.  A selector on another label alone is not told of a new role.
InSync ==
    \A d \in Device :
        IF Matches(depNow.selector, switchNow[d])
        THEN /\ dpNow[d].owner = depNow.uid
             /\ dpNow[d].spec = depNow.template
             /\ depNow.selector # "site" => dpNow[d].role = switchNow[d]
        ELSE dpNow[d].owner = 0

\* Once users leave the objects alone, the processes become and stay those
\* of the deployment (or none, when it is deleted), whatever order watch
\* events, Reconcile, garbage collection, API errors and restarts come in.
\* Reconcile skips deployments whose selector is unsupported.
EventuallyInSync ==
    <>[](CASE depNow.uid = 0              -> \A d \in Device : dpNow[d].owner = 0
           [] Supported(depNow.selector) -> InSync
           [] OTHER                      -> TRUE)

\* The counts of the status are those of the processes.
CountsRight ==
    LET matching == Matching(depNow.selector)
        available == {d \in matching : dpNow[d].ready}
    IN  /\ depNow.status.observedGeneration = depNow.generation
        /\ depNow.status.desired = Cardinality(matching)
        /\ depNow.status.current = Cardinality(matching)
        /\ depNow.status.updated =
                Cardinality({d \in matching : dpNow[d].observed = depNow.template})
        /\ depNow.status.available = Cardinality(available)
        /\ depNow.status.unavailable = Cardinality(matching \ available)

\* Merge patches are computed against a cached status and carry only the
\* differences, and still the counts become those of the processes.
CountsSettle == <>[](depNow.uid # 0 /\ Supported(depNow.selector) => CountsRight)

\* Nothing is left to do: no request is queued or worked on, every watch has
\* delivered, and nothing waits for the garbage collector.
Quiet ==
    /\ ~queued /\ rec.pc = "idle" /\ Len(dep) = 1
    /\ \A d \in Device : /\ Len(switch[d]) = 1 /\ Len(dp[d]) = 1
                         /\ dpNow[d].owner \in {0, depNow.uid}

\* The controller never comes to rest before its work is done: when it has
\* nothing left to do for a supported deployment, the processes are those the
\* deployment asks for, whatever was changed, written, delivered and failed in
\* whatever order.  So no event that matters is dropped and no request is
\* used up by a Reconcile that worked from caches that were behind.  Labels
\* with empty values are excepted, as in AffectedIsQueued.
RestsInSync ==
    "" \notin LabelValue /\ Quiet /\ depNow.uid # 0 /\ Supported(depNow.selector) => InSync

\* Nor before the counts of its status are right.
RestsCounted ==
    "" \notin LabelValue /\ Quiet /\ depNow.uid # 0 /\ Supported(depNow.selector) => CountsRight

\* README.md: the controller aggregates rollout conditions.  The Available
\* condition comes to agree with the counts of the same status.
ConditionsSettle ==
    <>[](depNow.uid # 0 /\ Supported(depNow.selector) =>
            (depNow.status.Available = "True") =
                (depNow.status.desired # 0 /\ depNow.status.available = depNow.status.desired))

\* When the watch delivers a switch that starts or stops matching the
\* deployment, the deployment is queued: nothing else would tell Reconcile.
\* The one exception is a label that is added or removed with an empty value,
\* which changedLabelKeys takes for no change.
AffectedIsQueued ==
    [][\A d \in Device :
         LET old == Cached(switch[d])
             new == Cached(switch[d]')
         IN  /\ depSeen.uid # 0
             /\ Supported(depSeen.selector)
             /\ Matches(depSeen.selector, old) # Matches(depSeen.selector, new)
             /\ {old, new} # {Unset, ""}
             => queued']_vars
==============================================================================
