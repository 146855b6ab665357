------------------------ MODULE ControllerRestProofs -------------------------
(***************************************************************************)
(* Proofs that no event the controller needs is lost, for any devices,     *)
(* labels and lag: the watch on switches queues what it must, and when     *)
(* nothing is left to do the processes and the counts are right.           *)
(***************************************************************************)
EXTENDS ControllerProofs

(***************************************************************************)
(* The watch on switches.                                                  *)
(***************************************************************************)
\* The filters of the watch let every change through that matters.
LEMMA RequestsEnough ==
    ASSUME NEW old, NEW new, depSeen.uid # 0, depSeen.selector \in SelectorKind,
           Supported(depSeen.selector), {old, new} # {Unset, ""},
           Matches(depSeen.selector, old) # Matches(depSeen.selector, new)
    PROVE  SwitchRequests(old, new)
<1> DEFINE sel == depSeen.selector
<1>1. sel \in {"all", "exists", "equals", "site"}
    BY Zenon DEF SelectorKind, Supported
<1>2. CASE old = NoSwitch
    <2>1. Matches(sel, new)
        BY <1>2, Zenon DEF Matches
    <2>2. selectorLabelKeys(sel) \cap (LabelKeys(new) \cup {AllKey}) # {}
        BY <1>1, <2>1, Zenon DEF Matches, selectorLabelKeys, LabelKeys, AllKey, Unset
    <2> QED
        BY <1>2, <2>1, <2>2, Zenon DEF SwitchRequests, RequestFor
<1>3. CASE new = NoSwitch /\ old # NoSwitch
    <2>1. Matches(sel, old)
        BY <1>3, Zenon DEF Matches
    <2>2. selectorLabelKeys(sel) \cap (LabelKeys(old) \cup {AllKey}) # {}
        BY <1>1, <2>1, Zenon DEF Matches, selectorLabelKeys, LabelKeys, AllKey, Unset
    <2> QED
        BY <1>3, <2>1, <2>2, Zenon DEF SwitchRequests, RequestFor
<1>4. CASE old # NoSwitch /\ new # NoSwitch
    <2>1. sel \in {"exists", "equals"}
        BY <1>1, <1>4, Zenon DEF Matches
    <2>2. Lookup(old) # Lookup(new)
        BY <2>1, <1>4, Zenon DEF Matches, Lookup, Unset
    <2>3. changedLabelKeys(old, new) = {"role"}
        BY <2>2, Zenon DEF changedLabelKeys
    <2>4. "role" \in selectorLabelKeys(sel) \cap (changedLabelKeys(old, new) \cup {AllKey})
        BY <2>1, <2>3, Zenon DEF selectorLabelKeys
    <2>5. Matches(sel, old) \/ Matches(sel, new)
        BY Zenon DEF Matches
    <2> QED
        BY <1>4, <2>3, <2>4, <2>5, Zenon DEF SwitchRequests, RequestFor
<1> QED
    BY <1>2, <1>3, <1>4, Zenon

AffectedStep ==
    \A d \in Device :
         LET old == Cached(switch[d])
             new == Cached(switch[d]')
         IN  /\ depSeen.uid # 0
             /\ Supported(depSeen.selector)
             /\ Matches(depSeen.selector, old) # Matches(depSeen.selector, new)
             /\ {old, new} # {Unset, ""}
             => queued'

\* Only SwitchEvent changes what the cache has of a switch and may have to
\* queue.
LEMMA NextAffected == IInv /\ [Next]_vars => AffectedStep
<1> SUFFICES ASSUME IInv, [Next]_vars, NEW e \in Device,
                    depSeen.uid # 0, Supported(depSeen.selector),
                    Matches(depSeen.selector, Cached(switch[e])) # Matches(depSeen.selector, Cached(switch'[e])),
                    {Cached(switch[e]), Cached(switch'[e])} # {Unset, ""}
             PROVE  queued'
    BY Zenon DEF AffectedStep
<1>1. switch \in [Device -> Versions(SwitchState)]
    BY Zenon DEF IInv, TypeOK
<1>2. Cached(switch'[e]) # Cached(switch[e])
    BY Zenon
<1>3. ASSUME NEW d \in Device, NEW value \in SwitchState, ChangeSwitch(d, value)
      PROVE  FALSE
    <2>1. Cached(Append(switch[d], value)) = Cached(switch[d])
        <3>1. switch[d] \in Versions(SwitchState)
            BY <1>1, Zenon
        <3> QED
            BY <3>1, AppendKeepsCached, Zenon
    <2> QED
        BY <1>1, <1>2, <1>3, <2>1, Zenon DEF ChangeSwitch
<1>4. ASSUME NEW d \in Device, SwitchEvent(d)
      PROVE  queued'
    <2>1. e = d
        BY <1>1, <1>2, <1>4, Zenon DEF SwitchEvent
    <2>2. switch[d] \in Versions(SwitchState) /\ Len(switch[d]) > 1 /\ switch'[d] = Tail(switch[d])
        BY <1>1, <1>4, Zenon DEF SwitchEvent
    <2>3. Cached(switch[d]) = switch[d][1] /\ Cached(switch'[d]) = switch[d][2]
        BY <2>2, VersionFacts, TailFacts, Zenon
    <2>4. depSeen.selector \in SelectorKind
        <3>1. depSeen.selector \in Selector \cup {"unsupported"}
            BY NowTypes, Zenon DEF IInv, Deployment
        <3> QED
            BY <3>1, ControllerAssumption, Zenon DEF SelectorKind
    <2>5. SwitchRequests(switch[d][1], switch[d][2])
        BY <2>1, <2>3, <2>4, RequestsEnough, Zenon
    <2> QED
        BY <1>4, <2>5, Zenon DEF SwitchEvent
<1>5. CASE RestartController
    BY <1>5, Zenon DEF RestartController
<1>6. CASE Reconcile \/ CallFails \/ DeploymentEvent \/ UNCHANGED vars
    BY <1>2, <1>6, Zenon DEF Reconcile, Begin, CleanupList, UpdateStatus, Apply, CleanupDelete, CallFails,
                      DeploymentEvent, vars
<1>7. CASE \E d \in Device : ProcessEvent(d)
    BY <1>2, <1>7, Zenon DEF ProcessEvent
<1>8. CASE Environment
    BY <1>2, <1>3, <1>8, Zenon DEF Environment, CreateDeployment, ChangeDeployment, DeleteDeployment,
                            DeleteProcess, CollectGarbage, RemoveProcess, Report
<1> QED
    BY <1>4, <1>5, <1>6, <1>7, <1>8, Zenon DEF Next

\* Whatever the labels, a switch that starts or stops matching queues the
\* deployment when the watch delivers it, empty label values apart.
THEOREM AffectedQueued == Spec => AffectedIsQueued
<1>1. IInv /\ [Next]_vars => [AffectedStep]_vars
    BY NextAffected
<1>2. Spec => [][AffectedStep]_vars
    BY <1>1, Invariance, PTL DEF Spec
<1> QED
    BY <1>2 DEF AffectedIsQueued, AffectedStep

(***************************************************************************)
(* The controller at rest.                                                 *)
(*                                                                         *)
(* While a request is queued, or will be because the watch of the          *)
(* deployment or of a process has something to deliver, nothing needs to   *)
(* hold: Reconcile starts anew.  Otherwise both caches are current, and    *)
(* for each device its process is right, or the Reconcile under way will   *)
(* see to it, or the watch on its switch will queue the deployment.        *)
(***************************************************************************)
Delivered == Len(dep) = 1 /\ \A d \in Device : Len(dp[d]) = 1
Pending == queued \/ ~Delivered

Follows(versions, u, v) == \E i \in 1 .. Len(versions) - 1 : versions[i] = u /\ versions[i + 1] = v
Told(d) == \E u, v \in SwitchState : Follows(switch[d], u, v) /\ SwitchRequests(u, v)

Wanted(d) == Matches(depNow.selector, switchNow[d])

\* A process of another deployment is left to the garbage collector.
Served(d) ==
    IF Wanted(d)
    THEN /\ dpNow[d].owner = depNow.uid /\ dpNow[d].spec = depNow.template
         /\ depNow.selector # "site" => dpNow[d].role = switchNow[d]
    ELSE dpNow[d].owner # depNow.uid

\* Reconcile works on the deployment as it is and will come to this device.
Coming(d) ==
    /\ rec.dep = depNow
    /\ IF Wanted(d)
       THEN /\ rec.pc = "apply" /\ d \in rec.todo
            /\ depNow.selector # "site" => rec.role[d] = switchNow[d]
       ELSE \/ rec.pc = "apply" /\ d \notin rec.devices
            \/ rec.pc = "cleanup" /\ d \in rec.todo

\* The counts that updateStatus computes from current caches.
Present == {d \in Device : dpNow[d].owner # 0}
Counted(status, devices) ==
    /\ status.observedGeneration = depNow.generation
    /\ status.desired = Cardinality(devices)
    /\ status.current = Cardinality(Present)
    /\ status.updated =
            Cardinality({d \in Present \cap devices : dpNow[d].observed = depNow.template})
    /\ status.available = Cardinality({d \in Present : dpNow[d].ready})
    /\ status.unavailable = IF status.desired > status.available
                            THEN status.desired - status.available ELSE 0

CountsComing ==
    IF rec.pc = "idle" THEN Counted(depNow.status, Matching(depNow.selector))
    ELSE rec.dep = depNow /\ rec.devices = Matching(depNow.selector)

\* Deployments that the controller serves, with labels that are not empty.
Active == "" \notin LabelValue /\ depNow.uid # 0 /\ Supported(depNow.selector)

Settled ==
    /\ \A d \in Device : Told(d) \/ Served(d) \/ Coming(d)
    /\ CountsComing \/ \E d \in Device : Told(d)

\* The inductive invariant.
RestInv == Active => Pending \/ Settled

\* What is delivered is in the cache.
LEMMA Current ==
    ASSUME TypeOK, Delivered
    PROVE  depSeen = depNow /\ \A d \in Device : dpSeen[d] = dpNow[d]
<1>1. dep \in Versions(Deployment) /\ \A d \in Device : dp[d] \in Versions(Process)
    BY DEF TypeOK
<1>2. depNow = dep[Len(dep)] /\ depSeen = dep[1]
    BY <1>1, VersionFacts, Zenon DEF depNow, depSeen
<1>3. \A d \in Device : dpNow[d] = dp[d][Len(dp[d])] /\ dpSeen[d] = dp[d][1]
    BY <1>1, VersionFacts, NowTypes, Zenon
<1> QED
    BY <1>2, <1>3, Zenon DEF Delivered

\* What is added is not.
LEMMA AppendPends ==
    ASSUME NEW S, NEW s \in Versions(S), NEW x \in S
    PROVE  Len(Append(s, x)) # 1
<1>1. Len(Append(s, x)) = Len(s) + 1
    BY AppendFacts, Zenon
<1>2. Len(s) \in Nat /\ Len(s) > 0
    BY VersionFacts, Zenon
<1> QED
    BY <1>1, <1>2

\* A change of a switch of which the deployment is not told makes no
\* difference to it.
LEMMA Untold ==
    ASSUME NEW u \in SwitchState, NEW v \in SwitchState, TypeOK, "" \notin LabelValue,
           depSeen.uid # 0, Supported(depSeen.selector), ~SwitchRequests(u, v)
    PROVE  /\ Matches(depSeen.selector, u) = Matches(depSeen.selector, v)
           /\ Matches(depSeen.selector, u) /\ depSeen.selector # "site" => u = v
<1> DEFINE sel == depSeen.selector
<1>1. sel \in SelectorKind
    <2>1. sel \in Selector \cup {"unsupported"}
        BY NowTypes, Zenon DEF Deployment
    <2> QED
        BY <2>1, ControllerAssumption, Zenon DEF SelectorKind
<1>2. "" \notin SwitchState
    BY Zenon DEF SwitchState, Unset, NoSwitch
<1>3. {u, v} # {Unset, ""}
    BY <1>2, Zenon
<1>4. Matches(sel, u) = Matches(sel, v)
    BY <1>1, <1>3, RequestsEnough, Zenon
<1>5. ASSUME Matches(sel, u), sel # "site" PROVE u = v
    <2>1. u # NoSwitch /\ v # NoSwitch /\ Matches(sel, v)
        BY <1>4, <1>5, Zenon DEF Matches
    <2>2. selectorLabelKeys(sel) \in {{AllKey}, {"role"}}
        BY <1>5, Zenon DEF selectorLabelKeys
    <2>3. RequestFor(v, {"role"})
        BY <2>1, <2>2, Zenon DEF RequestFor
    <2>4. changedLabelKeys(u, v) = {}
        BY <2>1, <2>3, Zenon DEF SwitchRequests, changedLabelKeys
    <2>5. Lookup(u) = Lookup(v)
        BY <2>4, Zenon DEF changedLabelKeys
    <2> QED
        BY <1>2, <2>5, Zenon DEF Lookup
<1> QED
    BY <1>4, <1>5, Zenon

(***************************************************************************)
(* Steps.  A step that leaves something pending needs no more; the others  *)
(* write neither the deployment nor a process.                             *)
(***************************************************************************)
\* What has to be shown of a step that leaves nothing pending.
LEMMA RestStep ==
    ASSUME TypeOK, RestInv, UNCHANGED <<dep, dp>>, ~Pending', queued => queued',
           Active /\ Settled => Settled'
    PROVE  RestInv'
<1>1. UNCHANGED <<Active>>
    BY Zenon DEF Active, depNow
<1>2. ~Pending
    BY Zenon DEF Pending, Delivered
<1> QED
    BY <1>1, <1>2, Zenon DEF RestInv

\* What depends on the objects only stays with them.
LEMMA SameObjects ==
    ASSUME UNCHANGED <<dep, dp>>
    PROVE  UNCHANGED <<depNow, depSeen, dpNow, dpSeen, Present>>
<1>1. UNCHANGED <<depNow, depSeen, dpNow, dpSeen>>
    BY Zenon DEF depNow, depSeen, dpNow, dpSeen
<1> QED
    BY <1>1, Zenon DEF Present

\* So does what else depends on the switches only.
LEMMA SameSwitches ==
    ASSUME UNCHANGED <<dep, dp, switch>>
    PROVE  /\ UNCHANGED <<switchNow, Matching(depNow.selector)>>
           /\ \A d \in Device : UNCHANGED <<Told(d), Wanted(d), Served(d)>>
           /\ UNCHANGED Counted(depNow.status, Matching(depNow.selector))
<1>1. UNCHANGED <<depNow, depSeen, dpNow, dpSeen, Present>>
    BY SameObjects, Zenon
<1>2. UNCHANGED switchNow
    BY Zenon DEF switchNow
<1>3. UNCHANGED Matching(depNow.selector)
    BY <1>1, <1>2, Zenon DEF Matching
<1>4. ASSUME NEW d \in Device PROVE UNCHANGED <<Told(d), Wanted(d), Served(d)>>
    <2>1. UNCHANGED Wanted(d)
        BY <1>1, <1>2, Zenon DEF Wanted
    <2>2. UNCHANGED Served(d)
        BY <1>1, <1>2, <2>1, Zenon DEF Served
    <2>3. \A u, v : SwitchRequests(u, v)' = SwitchRequests(u, v)
        BY <1>1, Zenon DEF SwitchRequests, RequestFor
    <2>4. UNCHANGED Told(d)
        BY <2>3, Zenon DEF Told
    <2> QED
        BY <2>1, <2>2, <2>4
<1>5. UNCHANGED Counted(depNow.status, Matching(depNow.selector))
    BY <1>1, <1>3, Zenon DEF Counted
<1> QED
    BY <1>2, <1>3, <1>4, <1>5

\* CleanupList takes up every process that is not wanted and is the
\* deployment's own, for the cache is current.
LEMMA CleanupListRests == ASSUME TypeOK, RestInv, CleanupList PROVE RestInv'
<1>1. CASE Pending'
    BY <1>1, Zenon DEF RestInv
<1>2. CASE ~Pending'
    <2>1. UNCHANGED <<dep, dp, switch, queued>> /\ rec.pc = "apply" /\ rec.todo = {}
        BY Zenon DEF CleanupList
    <2>2. /\ rec'.pc = "cleanup" /\ rec'.dep = rec.dep /\ rec'.devices = rec.devices
          /\ rec'.todo = {d \in Device : Stale(d)}
        BY DEF CleanupList, TypeOK
    <2>3. Delivered
        BY <1>2, <2>1, Zenon DEF Pending, Delivered
    <2>4. \A d \in Device : dpSeen[d] = dpNow[d]
        BY <2>3, Current, Zenon
    <2>5. UNCHANGED depNow
        BY <2>1, SameObjects, Zenon
    <2>6. SUFFICES ASSUME Active, Settled PROVE Settled'
        BY <1>2, <2>1, RestStep, Zenon
    <2>7. ASSUME NEW d \in Device, Coming(d) PROVE Coming(d)' \/ Served(d)'
        <3>1. rec.dep = depNow /\ ~Wanted(d) /\ d \notin rec.devices
            BY <2>1, <2>7, Zenon DEF Coming
        <3>2. CASE dpNow[d].owner = depNow.uid
            <4>1. Stale(d)
                BY <2>4, <2>6, <3>1, <3>2, Zenon DEF Stale, Active
            <4>2. ~Wanted(d)'
                BY <2>1, <3>1, SameSwitches, Zenon
            <4> QED
                BY <2>2, <2>5, <3>1, <4>1, <4>2, Zenon DEF Coming
        <3>3. CASE dpNow[d].owner # depNow.uid
            <4>1. Served(d)
                BY <3>1, <3>3, Zenon DEF Served
            <4> QED
                BY <2>1, <4>1, SameSwitches, Zenon
        <3> QED
            BY <3>2, <3>3, Zenon
    <2>8. CountsComing => CountsComing'
        <3>1. CountsComing => rec.dep = depNow /\ rec.devices = Matching(depNow.selector)
            BY <2>1, Zenon DEF CountsComing
        <3>2. rec'.pc # "idle"
            BY <2>2
        <3> QED
            BY <2>1, <2>2, <2>5, <3>1, <3>2, SameSwitches, Zenon DEF CountsComing
    <2> QED
        BY <2>1, <2>6, <2>7, <2>8, SameSwitches, Zenon DEF Settled
<1> QED
    BY <1>1, <1>2, Zenon

\* A process that is added is yet to be delivered.
LEMMA ProcessPends ==
    ASSUME TypeOK, NEW d \in Device, NEW x \in Process, dp' = [dp EXCEPT ![d] = Append(dp[d], x)]
    PROVE  Pending'
<1>1. dp \in [Device -> Versions(Process)] /\ dp[d] \in Versions(Process)
    BY DEF TypeOK
<1>2. dp'[d] = Append(dp[d], x)
    BY <1>1, Zenon
<1>3. Len(dp'[d]) # 1
    BY <1>1, <1>2, AppendPends, Zenon
<1> QED
    BY <1>3, Zenon DEF Pending, Delivered

\* A process that is written and leaves nothing to deliver was so before.
LEMMA ProcessSame ==
    ASSUME TypeOK, NEW d \in Device, NEW x \in Process,
           dp' = [dp EXCEPT ![d] = Written(dp[d], x)], ~Pending'
    PROVE  dp' = dp /\ x = dpNow[d]
<1>1. dp \in [Device -> Versions(Process)] /\ dpNow[d] = Live(dp[d])
    BY NowTypes DEF TypeOK
<1>2. CASE x = dpNow[d]
    <2>1. Written(dp[d], x) = dp[d]
        BY <1>1, <1>2, Zenon DEF Written
    <2> QED
        BY <1>1, <1>2, <2>1, Zenon
<1>3. CASE x # dpNow[d]
    <2>1. Written(dp[d], x) = Append(dp[d], x)
        BY <1>1, <1>3, Zenon DEF Written
    <2> QED
        BY <2>1, ProcessPends, Zenon
<1> QED
    BY <1>2, <1>3, Zenon

\* What applyDeviceProcess sets.
LEMMA AppliedFields ==
    ASSUME NEW process \in Process, NEW deployment \in Deployment, NEW role \in LabelValue \cup {Unset}
    PROVE  /\ Applied(process, deployment, role).owner = deployment.uid
           /\ Applied(process, deployment, role).spec = deployment.template
           /\ Applied(process, deployment, role).role = role
    BY Zenon DEF Applied, Process, Deployment

\* Reconcile takes d from its list, if this brings its process in order.
LEMMA TakenRests ==
    ASSUME TypeOK, RestInv, NEW d \in Device, UNCHANGED <<dep, dp, switch, queued>>, ~Pending',
           rec.pc # "idle", rec' = [rec EXCEPT !.todo = rec.todo \ {d}], Coming(d) => Coming(d)' \/ Served(d)
    PROVE  RestInv'
<1>1. /\ rec'.pc = rec.pc /\ rec'.dep = rec.dep /\ rec'.devices = rec.devices
      /\ rec'.role = rec.role /\ rec'.todo = rec.todo \ {d}
    BY DEF TypeOK
<1>2. UNCHANGED depNow
    BY SameObjects, Zenon
<1>3. SUFFICES ASSUME Active, Settled PROVE Settled'
    BY RestStep, Zenon
<1>4. ASSUME NEW e \in Device, e # d, Coming(e) PROVE Coming(e)'
    <2>1. Wanted(e)' = Wanted(e) /\ switchNow' = switchNow
        BY SameSwitches, Zenon
    <2>2. e \in rec'.todo <=> e \in rec.todo
        BY <1>1, <1>4, Zenon
    <2> QED
        BY <1>1, <1>2, <1>4, <2>1, <2>2, Zenon DEF Coming
<1>5. CountsComing => CountsComing'
    BY <1>1, <1>2, SameSwitches, Zenon DEF CountsComing
<1>6. \A e \in Device : /\ Told(e)' = Told(e)
                        /\ Served(e)' = Served(e)
    BY SameSwitches, Zenon
<1>7. ASSUME NEW e \in Device, Told(e) \/ Served(e) \/ Coming(e)
      PROVE  Told(e)' \/ Served(e)' \/ Coming(e)'
    <2>1. CASE e = d
        BY <1>6, <1>7, <2>1, Zenon
    <2>2. CASE e # d
        BY <1>4, <1>6, <1>7, <2>2, Zenon
    <2> QED
        BY <2>1, <2>2, Zenon
<1>8. CountsComing' \/ \E e \in Device : Told(e)'
    BY <1>3, <1>5, <1>6, Zenon DEF Settled
<1> QED
    BY <1>3, <1>7, <1>8, Zenon DEF Settled

\* Either the process is written, or it was as applyDeviceProcess wants it.
LEMMA ApplyRests == ASSUME TypeOK, RestInv, NEW d \in Device, Apply(d) PROVE RestInv'
<1> DEFINE x == Applied(Live(dp[d]), rec.dep, rec.role[d])
<1>1. /\ rec.pc = "apply" /\ rec' = [rec EXCEPT !.todo = rec.todo \ {d}]
      /\ dp' = [dp EXCEPT ![d] = Written(dp[d], x)]
      /\ UNCHANGED <<switch, dep, queued, used>>
    BY DEF Apply
<1>2. Live(dp[d]) \in Process /\ rec.dep \in Deployment /\ rec.role[d] \in LabelValue \cup {Unset}
    BY NowTypes DEF TypeOK
<1>3. x \in Process /\ x.owner = rec.dep.uid /\ x.spec = rec.dep.template /\ x.role = rec.role[d]
    BY <1>2, AppliedType, AppliedFields
<1> HIDE DEF x
<1>4. CASE Pending'
    BY <1>4, Zenon DEF RestInv
<1>5. CASE ~Pending'
    <2>1. dp' = dp /\ x = dpNow[d]
        BY <1>1, <1>3, <1>5, ProcessSame, Zenon
    <2>2. ASSUME Coming(d), Wanted(d) PROVE Served(d)
        BY <1>3, <2>1, <2>2, Zenon DEF Coming, Served
    <2>3. ASSUME Coming(d), ~Wanted(d) PROVE Coming(d)'
        <3>1. rec'.pc = "apply" /\ rec'.dep = rec.dep /\ rec'.devices = rec.devices
            BY <1>1 DEF TypeOK
        <3>2. rec.dep = depNow /\ d \notin rec.devices
            BY <1>1, <2>3, Zenon DEF Coming
        <3>3. ~Wanted(d)' /\ UNCHANGED depNow
            BY <1>1, <2>1, <2>3, SameSwitches, SameObjects, Zenon
        <3> QED
            BY <3>1, <3>2, <3>3, Zenon DEF Coming
    <2>4. rec.pc # "idle"
        BY <1>1
    <2> QED
        BY <1>1, <1>5, <2>1, <2>2, <2>3, <2>4, TakenRests, Zenon
<1> QED
    BY <1>4, <1>5, Zenon

\* Either the process is deleted, or it was gone.
LEMMA CleanupDeleteRests == ASSUME TypeOK, RestInv, NEW d \in Device, CleanupDelete(d) PROVE RestInv'
<1>1. /\ rec.pc = "cleanup" /\ rec' = [rec EXCEPT !.todo = rec.todo \ {d}]
      /\ dp' = [dp EXCEPT ![d] = Written(dp[d], NoProcess)]
      /\ UNCHANGED <<switch, dep, queued, used>>
    BY DEF CleanupDelete
<1>2. CASE Pending' \/ ~Active
    <2>1. ~Active => ~Active'
        BY <1>1, Zenon DEF Active, depNow
    <2> QED
        BY <1>2, <2>1, Zenon DEF RestInv
<1>3. CASE ~Pending' /\ Active
    <2>1. dp' = dp /\ NoProcess = dpNow[d] /\ NoProcess.owner = 0
        BY <1>1, <1>3, ProcessSame, ConstantTypes, Zenon
    <2>2. rec.pc # "idle" /\ rec.pc # "apply"
        BY <1>1
    <2>3. ASSUME Coming(d) PROVE Served(d)
        <3>1. ~Wanted(d)
            BY <2>2, <2>3, Zenon DEF Coming
        <3> QED
            BY <1>3, <2>1, <3>1, Zenon DEF Served, Active
    <2> QED
        BY <1>1, <1>3, <2>1, <2>2, <2>3, TakenRests, Zenon
<1> QED
    BY <1>2, <1>3, Zenon

\* A step that changes neither an object nor what Reconcile is at.
LEMMA NothingChanged == ASSUME TypeOK, RestInv, UNCHANGED <<dep, dp, switch, queued, rec>> PROVE RestInv'
<1>1. UNCHANGED <<depNow, switchNow, Matching(depNow.selector)>>
    BY SameObjects, SameSwitches, Zenon
<1>2. UNCHANGED <<Pending, Active>>
    BY <1>1, Zenon DEF Pending, Delivered, Active
<1>3. \A d \in Device : UNCHANGED <<Told(d), Wanted(d), Served(d)>>
    BY SameSwitches, Zenon
<1>4. \A d \in Device : UNCHANGED Coming(d)
    BY <1>1, <1>3, Zenon DEF Coming
<1>5. UNCHANGED CountsComing
    BY <1>1, SameSwitches, Zenon DEF CountsComing
<1>6. Settled => Settled'
    BY <1>3, <1>4, <1>5, Zenon DEF Settled
<1> QED
    BY <1>2, <1>6, Zenon DEF RestInv

\* A report of the gateway is delivered, or changes nothing.
LEMMA ReportRests ==
    ASSUME TypeOK, RestInv, NEW d \in Device, NEW t \in Template, NEW ready \in BOOLEAN,
           Report(d, t, ready)
    PROVE  RestInv'
<1> DEFINE x == [dpNow[d] EXCEPT !.observed = t, !.ready = ready]
<1>1. dp' = [dp EXCEPT ![d] = Written(dp[d], x)] /\ UNCHANGED <<switch, dep, queued, rec>>
    BY DEF Report
<1>2. x \in Process
    <2>1. dpNow[d] \in Process
        BY NowTypes
    <2> QED
        BY <2>1, Zenon DEF Process
<1> HIDE DEF x
<1>3. CASE Pending'
    BY <1>3, Zenon DEF RestInv
<1>4. CASE ~Pending'
    <2>1. dp' = dp
        BY <1>1, <1>2, <1>4, ProcessSame, Zenon
    <2> QED
        BY <1>1, <2>1, NothingChanged, Zenon
<1> QED
    BY <1>3, <1>4, Zenon

\* Reconcile starts from current caches, or something is yet to be delivered.
LEMMA BeginRests == ASSUME TypeOK, RestInv, Begin PROVE RestInv'
<1>1. UNCHANGED <<dep, dp, switch>>
    BY Zenon DEF Begin
<1>2. UNCHANGED <<depNow, depSeen, switchNow, Matching(depNow.selector)>>
    BY <1>1, SameObjects, SameSwitches, Zenon
<1>3. CASE Pending' \/ ~Active
    <2>1. ~Active => ~Active'
        BY <1>2, Zenon DEF Active
    <2> QED
        BY <1>3, <2>1, Zenon DEF RestInv
<1>4. CASE ~Pending' /\ Active
    <2>1. depSeen = depNow
        <3>1. Delivered
            BY <1>1, <1>4, Zenon DEF Pending, Delivered
        <3> QED
            BY <3>1, Current, Zenon
    <2> DEFINE devices == Matching(depNow.selector)
    <2>2. rec' = [pc |-> "apply", dep |-> depNow, devices |-> devices,
                  role |-> [d \in Device |-> IF d \in devices THEN switchNow[d] ELSE Unset],
                  todo |-> devices]
        BY <1>4, <2>1, Zenon DEF Begin, Active
    <2>3. /\ rec'.pc = "apply" /\ rec'.pc # "idle" /\ rec'.dep = depNow
          /\ rec'.devices = devices /\ rec'.todo = devices
          /\ \A d \in devices : rec'.role[d] = switchNow[d]
        <3>1. devices \subseteq Device
            BY Zenon DEF Matching
        <3> HIDE DEF devices
        <3> QED
            BY <2>2, <3>1
    <2>4. ASSUME NEW d \in Device PROVE Coming(d)'
        <3>1. Wanted(d)' <=> d \in devices
            BY <1>2, Zenon DEF Wanted, Matching
        <3> HIDE DEF devices
        <3> QED
            BY <1>2, <2>3, <3>1, Zenon DEF Coming
    <2>5. CountsComing'
        BY <1>2, <2>3, Zenon DEF CountsComing
    <2> QED
        BY <2>4, <2>5, Zenon DEF Settled, RestInv
<1> QED
    BY <1>3, <1>4, Zenon

\* A deployment that is added is yet to be delivered.
LEMMA DeploymentPends ==
    ASSUME TypeOK, NEW x \in Deployment, dep' = Append(dep, x)
    PROVE  Pending'
<1>1. dep \in Versions(Deployment)
    BY DEF TypeOK
<1>2. Len(dep') # 1
    BY <1>1, AppendPends, Zenon
<1> QED
    BY <1>2, Zenon DEF Pending, Delivered

\* A merge patch against the current status that changes nothing means that
\* the counts were right, although the base shares the conditions.
LEMMA PatchedCounts ==
    ASSUME NEW status \in Status, NEW new \in Status,
           status = MergePatch(status, Base(status, new), new)
    PROVE  /\ status.observedGeneration = new.observedGeneration
           /\ status.desired = new.desired /\ status.current = new.current
           /\ status.updated = new.updated /\ status.available = new.available
           /\ status.unavailable = new.unavailable
<1> DEFINE base == Base(status, new)
<1>1. /\ base.observedGeneration = status.observedGeneration
      /\ base.desired = status.desired /\ base.current = status.current
      /\ base.updated = status.updated /\ base.available = status.available
      /\ base.unavailable = status.unavailable
    BY DEF Base, Status
<1> HIDE DEF base
<1>2. \A f \in DOMAIN NoStatus : status[f] = IF new[f] # base[f] THEN new[f] ELSE status[f]
    BY Zenon DEF MergePatch, base
<1>3. DOMAIN NoStatus = {"observedGeneration", "desired", "current", "updated", "available",
                         "unavailable", "Available", "Progressing"}
    BY DEF NoStatus
<1> QED
    BY <1>1, <1>2, <1>3

\* What updateStatus counts when the caches are current.
LEMMA NewCounted ==
    ASSUME rec.dep = depNow, \A d \in Device : dpSeen[d] = dpNow[d]
    PROVE  Counted(NewStatus, rec.devices)
<1>1. Listed = Present
    BY Zenon DEF Listed, Present
<1>2. {d \in Listed \cap rec.devices : dpSeen[d].observed = rec.dep.template}
        = {d \in Present \cap rec.devices : dpNow[d].observed = depNow.template}
    BY <1>1, Zenon DEF Present
<1>3. {d \in Listed : dpSeen[d].ready} = {d \in Present : dpNow[d].ready}
    BY <1>1, Zenon DEF Present
<1> DEFINE desired == Cardinality(rec.devices)
           current == Cardinality(Listed)
           updated == Cardinality({d \in Listed \cap rec.devices : dpSeen[d].observed = rec.dep.template})
           available == Cardinality({d \in Listed : dpSeen[d].ready})
<1>4. NewStatus = [observedGeneration |-> rec.dep.generation, desired |-> desired, current |-> current,
         updated |-> updated, available |-> available,
         unavailable |-> IF desired > available THEN desired - available ELSE 0,
         Available |-> IF desired # 0 /\ available = desired THEN "True" ELSE "False",
         Progressing |-> IF desired # 0 /\ (updated < desired \/ available < desired)
                         THEN "True" ELSE "False"]
    BY DEF NewStatus
<1>5. /\ current = Cardinality(Present)
      /\ updated = Cardinality({d \in Present \cap rec.devices : dpNow[d].observed = depNow.template})
      /\ available = Cardinality({d \in Present : dpNow[d].ready})
    BY <1>1, <1>2, <1>3, Zenon
<1> HIDE DEF current, updated, available, desired
<1>6. /\ NewStatus.observedGeneration = depNow.generation
      /\ NewStatus.desired = desired /\ NewStatus.current = current
      /\ NewStatus.updated = updated /\ NewStatus.available = available
      /\ NewStatus.unavailable = IF desired > available THEN desired - available ELSE 0
    BY <1>4
<1> QED
    BY <1>5, <1>6, Zenon DEF Counted, desired

\* Reconcile ends with the processes in order, and either writes a status or
\* finds the counts right.
LEMMA UpdateStatusRests == ASSUME TypeOK, RestInv, UpdateStatus PROVE RestInv'
<1> DEFINE base == Base(rec.dep.status, NewStatus)
           patched == MergePatch(depNow.status, base, NewStatus)
           x == [depNow EXCEPT !.status = patched]
<1>1. /\ rec.pc = "cleanup" /\ rec.todo = {} /\ rec' = NoReconcile
      /\ UNCHANGED <<switch, dp, used>>
    BY DEF UpdateStatus
<1>2. \/ depNow.uid # 0 /\ dep' = Written(dep, x) /\ UNCHANGED queued
      \/ depNow.uid = 0 /\ UNCHANGED dep
    BY DEF UpdateStatus
<1>3. depNow \in Deployment /\ depNow.status \in Status /\ rec.dep.status \in Status /\ NewStatus \in Status
    BY NowTypes, NewStatusType DEF TypeOK, Deployment
<1>4. x \in Deployment /\ x.status = patched
    <2>1. patched \in Status
        BY <1>3, PatchType
    <2> HIDE DEF patched
    <2> QED
        BY <1>3, <2>1 DEF Deployment
<1> HIDE DEF x
<1>5. CASE Pending'
    BY <1>5, Zenon DEF RestInv
<1>6. CASE UNCHANGED dep /\ depNow.uid = 0
    <2>1. ~Active'
        BY <1>6, Zenon DEF Active, depNow
    <2> QED
        BY <2>1, Zenon DEF RestInv
<1>7. CASE ~Pending' /\ depNow.uid # 0
    <2>1. dep' = Written(dep, x) /\ UNCHANGED queued
        BY <1>2, <1>7, Zenon
    <2>2. dep' = dep /\ x = depNow
        <3>1. CASE x = depNow
            BY <2>1, <3>1, Zenon DEF Written, depNow
        <3>2. CASE x # depNow
            <4>1. dep' = Append(dep, x)
                BY <2>1, <3>2, Zenon DEF Written, depNow
            <4> QED
                BY <1>4, <1>7, <4>1, DeploymentPends, Zenon
        <3> QED
            BY <3>1, <3>2, Zenon
    <2>3. rec'.pc = "idle" /\ rec.pc # "apply" /\ rec.pc # "idle"
        BY <1>1, ConstantTypes
    <2>4. SUFFICES ASSUME Active, Settled PROVE Settled'
        BY <1>1, <1>7, <2>1, <2>2, RestStep, Zenon
    <2>5. \A d \in Device : ~Coming(d)
        BY <1>1, <2>3, Zenon DEF Coming
    <2>6. \A d \in Device : Told(d)' \/ Served(d)'
        BY <1>1, <2>2, <2>4, <2>5, SameSwitches, Zenon DEF Settled
    <2>7. ASSUME CountsComing PROVE CountsComing'
        <3>1. rec.dep = depNow /\ rec.devices = Matching(depNow.selector)
            BY <2>3, <2>7, Zenon DEF CountsComing
        <3>2. \A d \in Device : dpSeen[d] = dpNow[d]
            <4>1. Delivered
                BY <1>1, <1>7, <2>2, Zenon DEF Pending, Delivered
            <4> QED
                BY <4>1, Current, Zenon
        <3>3. Counted(NewStatus, Matching(depNow.selector))
            BY <3>1, <3>2, NewCounted, Zenon
        <3>4. depNow.status = MergePatch(depNow.status, Base(depNow.status, NewStatus), NewStatus)
            BY <1>4, <2>2, <3>1, Zenon
        <3>5. Counted(depNow.status, Matching(depNow.selector))
            <4> PICK status \in Status, new \in Status : status = depNow.status /\ new = NewStatus
                BY <1>3, Zenon
            <4>1. status = MergePatch(status, Base(status, new), new)
                BY <3>4, Zenon
            <4>2. /\ status.observedGeneration = new.observedGeneration
                  /\ status.desired = new.desired /\ status.current = new.current
                  /\ status.updated = new.updated /\ status.available = new.available
                  /\ status.unavailable = new.unavailable
                BY <4>1, PatchedCounts, Zenon
            <4>3. Counted(new, Matching(depNow.selector))
                BY <3>3, Zenon
            <4>4. Counted(status, Matching(depNow.selector))
                BY <4>2, <4>3, Zenon DEF Counted
            <4> QED
                BY <4>4, Zenon
        <3>6. Counted(depNow.status, Matching(depNow.selector))'
            BY <1>1, <2>2, <3>5, SameSwitches, Zenon
        <3> QED
            BY <2>3, <3>6, Zenon DEF CountsComing
    <2> QED
        BY <1>1, <2>2, <2>4, <2>6, <2>7, SameSwitches, Zenon DEF Settled
<1> QED
    BY <1>2, <1>5, <1>6, <1>7, Zenon

(***************************************************************************)
(* Steps of the switches.                                                  *)
(***************************************************************************)
\* An event that is delivered leaves the later changes to be delivered.
LEMMA FollowsTail ==
    ASSUME NEW s \in Versions(SwitchState), Len(s) > 1, NEW u, NEW v,
           Follows(s, u, v), ~(u = s[1] /\ v = s[2])
    PROVE  Follows(Tail(s), u, v)
<1>1. PICK i \in 1 .. Len(s) - 1 : s[i] = u /\ s[i + 1] = v
    BY Zenon DEF Follows
<1>2. Len(s) \in Nat /\ Len(Tail(s)) = Len(s) - 1 /\ \A j \in 1 .. Len(s) - 1 : Tail(s)[j] = s[j + 1]
    BY VersionFacts, TailFacts
<1>3. i # 1
    <2>1. 1 + 1 = 2
        OBVIOUS
    <2> QED
        BY <1>1, <2>1, Zenon
<1>4. PICK j \in 1 .. Len(s) - 2 : j + 1 = i /\ (j + 1) + 1 = i + 1
    <2>1. i - 1 \in 1 .. Len(s) - 2 /\ (i - 1) + 1 = i /\ ((i - 1) + 1) + 1 = i + 1
        BY <1>1, <1>2, <1>3
    <2> QED
        BY <2>1
<1>5. j \in 1 .. Len(s) - 1 /\ j + 1 \in 1 .. Len(s) - 1 /\ j \in 1 .. Len(Tail(s)) - 1
    BY <1>2, <1>4
<1>6. Tail(s)[j] = u /\ Tail(s)[j + 1] = v
    BY <1>1, <1>2, <1>4, <1>5, Zenon
<1> QED
    BY <1>5, <1>6, Zenon DEF Follows

\* A change is added to those to be delivered.
LEMMA FollowsAppend ==
    ASSUME NEW s \in Versions(SwitchState), NEW x \in SwitchState
    PROVE  /\ Follows(Append(s, x), Live(s), x)
           /\ \A u, v : Follows(s, u, v) => Follows(Append(s, x), u, v)
<1>1. /\ Len(Append(s, x)) = Len(s) + 1 /\ \A i \in 1 .. Len(s) : Append(s, x)[i] = s[i]
      /\ Append(s, x)[Len(s) + 1] = x
    BY AppendFacts
<1>2. Len(s) \in Nat /\ Len(s) > 0 /\ Live(s) = s[Len(s)]
    BY VersionFacts, Zenon
<1>3. /\ Len(s) \in 1 .. Len(s) /\ Len(s) \in 1 .. Len(Append(s, x)) - 1
      /\ \A i \in 1 .. Len(s) - 1 : /\ i \in 1 .. Len(s) /\ i + 1 \in 1 .. Len(s)
                                    /\ i \in 1 .. Len(Append(s, x)) - 1
    BY <1>1, <1>2
<1>4. Follows(Append(s, x), Live(s), x)
    BY <1>1, <1>2, <1>3, Zenon DEF Follows
<1>5. ASSUME NEW u, NEW v, Follows(s, u, v) PROVE Follows(Append(s, x), u, v)
    BY <1>1, <1>3, <1>5, Zenon DEF Follows
<1> QED
    BY <1>4, <1>5, Zenon

\* Whom a switch concerns depends on the deployment in the cache.
LEMMA SameRequests ==
    ASSUME UNCHANGED <<dep, dp>>
    PROVE  \A u, v : SwitchRequests(u, v)' = SwitchRequests(u, v)
<1>1. UNCHANGED depSeen
    BY SameObjects, Zenon
<1> QED
    BY <1>1, Zenon DEF SwitchRequests, RequestFor

\* An event of a switch that queues nothing was not one to tell of.
LEMMA SwitchEventRests == ASSUME TypeOK, RestInv, NEW d \in Device, SwitchEvent(d) PROVE RestInv'
<1>1. /\ Len(switch[d]) > 1 /\ switch' = [switch EXCEPT ![d] = Tail(switch[d])]
      /\ queued' = (queued \/ SwitchRequests(switch[d][1], switch[d][2]))
      /\ UNCHANGED <<dep, dp, rec, used>>
    BY DEF SwitchEvent
<1>2. switch \in [Device -> Versions(SwitchState)] /\ switch[d] \in Versions(SwitchState)
    BY DEF TypeOK
<1>3. CASE Pending'
    BY <1>3, Zenon DEF RestInv
<1>4. CASE ~Pending'
    <2>1. ~SwitchRequests(switch[d][1], switch[d][2]) /\ (queued => queued')
        BY <1>1, <1>4, Zenon DEF Pending
    <2>2. switchNow' = switchNow
        <3>1. Live(Tail(switch[d])) = Live(switch[d])
            BY <1>1, <1>2, TailFacts, Zenon
        <3>2. \A e \in Device : Live(switch'[e]) = Live(switch[e])
            BY <1>1, <1>2, <3>1, Zenon
        <3> QED
            BY <3>2, Zenon DEF switchNow
    <2>3. UNCHANGED <<depNow, dpNow, Present>>
        BY <1>1, SameObjects, Zenon
    <2>4. UNCHANGED Matching(depNow.selector)
        BY <2>2, <2>3, Zenon DEF Matching
    <2>5. ASSUME NEW e \in Device, Told(e) PROVE Told(e)'
        <3>1. PICK u \in SwitchState, v \in SwitchState : Follows(switch[e], u, v) /\ SwitchRequests(u, v)
            BY <2>5, Zenon DEF Told
        <3>2. Follows(switch'[e], u, v)
            <4>1. CASE e = d
                <5>1. ~(u = switch[d][1] /\ v = switch[d][2])
                    BY <2>1, <3>1, Zenon
                <5>2. Follows(Tail(switch[d]), u, v)
                    BY <1>1, <1>2, <3>1, <4>1, <5>1, FollowsTail, Zenon
                <5> QED
                    BY <1>1, <1>2, <4>1, <5>2, Zenon
            <4>2. CASE e # d
                BY <1>1, <1>2, <3>1, <4>2, Zenon
            <4> QED
                BY <4>1, <4>2, Zenon
        <3> QED
            BY <1>1, <3>1, <3>2, SameRequests, Zenon DEF Told
    <2>6. \A e \in Device : UNCHANGED <<Served(e), Coming(e)>>
        <3>1. \A e \in Device : UNCHANGED Wanted(e)
            BY <2>2, <2>3, Zenon DEF Wanted
        <3>2. \A e \in Device : UNCHANGED Served(e)
            BY <2>2, <2>3, <3>1, Zenon DEF Served
        <3>3. \A e \in Device : UNCHANGED Coming(e)
            BY <1>1, <2>2, <2>3, <3>1, Zenon DEF Coming
        <3> QED
            BY <3>2, <3>3, Zenon
    <2>7. UNCHANGED CountsComing
        BY <1>1, <2>3, <2>4, Zenon DEF CountsComing, Counted
    <2>8. Settled => Settled'
        BY <2>5, <2>6, <2>7, Zenon DEF Settled
    <2> QED
        BY <1>1, <1>4, <2>1, <2>8, RestStep, Zenon
<1> QED
    BY <1>3, <1>4, Zenon

\* A change that makes no difference to the deployment leaves everything as it
\* is; of any other the deployment will be told.
LEMMA ChangeSwitchRests ==
    ASSUME TypeOK, RestInv, NEW d \in Device, NEW value \in SwitchState, ChangeSwitch(d, value)
    PROVE  RestInv'
<1>1. /\ switchNow[d] # value /\ switch' = [switch EXCEPT ![d] = Append(switch[d], value)]
      /\ UNCHANGED <<dep, dp, queued, rec>>
    BY DEF ChangeSwitch
<1>2. /\ switch \in [Device -> Versions(SwitchState)] /\ switch[d] \in Versions(SwitchState)
      /\ switchNow[d] = Live(switch[d]) /\ switchNow[d] \in SwitchState
    BY NowTypes DEF TypeOK
<1>3. UNCHANGED <<depNow, depSeen, dpNow, Present>>
    BY <1>1, SameObjects, Zenon
<1>4. switchNow'[d] = value /\ \A e \in Device : e # d => switchNow'[e] = switchNow[e]
    <2>1. Live(Append(switch[d], value)) = value
        BY <1>2, AppendFacts
    <2>2. Live(switch'[d]) = value /\ \A e \in Device : e # d => Live(switch'[e]) = Live(switch[e])
        BY <1>1, <1>2, <2>1, Zenon
    <2> QED
        BY <2>2, Zenon DEF switchNow
<1>5. ASSUME NEW e \in Device, Told(e) PROVE Told(e)'
    <2>1. PICK u \in SwitchState, v \in SwitchState : Follows(switch[e], u, v) /\ SwitchRequests(u, v)
        BY <1>5, Zenon DEF Told
    <2>2. Follows(switch'[e], u, v)
        <3>1. CASE e = d
            <4>1. Follows(Append(switch[d], value), u, v)
                BY <1>2, <2>1, <3>1, FollowsAppend, Zenon
            <4> QED
                BY <1>1, <1>2, <3>1, <4>1, Zenon
        <3>2. CASE e # d
            BY <1>1, <1>2, <2>1, <3>2, Zenon
        <3> QED
            BY <3>1, <3>2, Zenon
    <2> QED
        BY <1>1, <2>1, <2>2, SameRequests, Zenon DEF Told
<1>6. ASSUME NEW e \in Device, Wanted(e)' = Wanted(e),
             Wanted(e) /\ depNow.selector # "site" => switchNow'[e] = switchNow[e]
      PROVE  (Served(e) => Served(e)') /\ (Coming(e) => Coming(e)')
    <2>1. Served(e) => Served(e)'
        BY <1>3, <1>6, Zenon DEF Served
    <2>2. Coming(e) => Coming(e)'
        BY <1>1, <1>3, <1>6, Zenon DEF Coming
    <2> QED
        BY <2>1, <2>2, Zenon
<1>7. ASSUME NEW e \in Device, e # d PROVE (Served(e) => Served(e)') /\ (Coming(e) => Coming(e)')
    <2>1. Wanted(e)' = Wanted(e) /\ switchNow'[e] = switchNow[e]
        BY <1>3, <1>4, <1>7, Zenon DEF Wanted
    <2> QED
        BY <1>6, <2>1, Zenon
<1>8. CASE Pending' \/ ~Active
    <2>1. ~Active => ~Active'
        BY <1>3, Zenon DEF Active
    <2> QED
        BY <1>8, <2>1, Zenon DEF RestInv
<1>9. CASE ~Pending' /\ Active
    <2>1. SUFFICES ASSUME Settled PROVE Settled'
        BY <1>1, <1>9, RestStep, Zenon
    <2>2. CASE SwitchRequests(switchNow[d], value)
        <3>1. Follows(switch'[d], switchNow[d], value)
            <4>1. Follows(Append(switch[d], value), switchNow[d], value)
                BY <1>2, FollowsAppend, Zenon
            <4> QED
                BY <1>1, <1>2, <4>1, Zenon
        <3>2. Told(d)'
            BY <1>1, <1>2, <2>2, <3>1, SameRequests, Zenon DEF Told
        <3>3. \A e \in Device : Told(e)' \/ Served(e)' \/ Coming(e)'
            BY <1>5, <1>7, <2>1, <3>2, Zenon DEF Settled
        <3> QED
            BY <3>2, <3>3, Zenon DEF Settled
    <2>3. CASE ~SwitchRequests(switchNow[d], value)
        <3>1. depSeen = depNow
            <4>1. Delivered
                BY <1>1, <1>9, Zenon DEF Pending, Delivered
            <4> QED
                BY <4>1, Current, Zenon
        <3>2. /\ "" \notin LabelValue /\ depSeen.uid # 0 /\ Supported(depSeen.selector)
            BY <1>9, <3>1, Zenon DEF Active
        <3>3. PICK old \in SwitchState : old = switchNow[d]
            BY <1>2, Zenon
        <3>4. /\ Matches(depNow.selector, old) = Matches(depNow.selector, value)
              /\ Matches(depNow.selector, old) /\ depNow.selector # "site" => old = value
            <4>1. ~SwitchRequests(old, value)
                BY <2>3, <3>3, Zenon
            <4>2. /\ Matches(depSeen.selector, old) = Matches(depSeen.selector, value)
                  /\ Matches(depSeen.selector, old) /\ depSeen.selector # "site" => old = value
                BY <3>2, <4>1, Untold, Zenon
            <4> QED
                BY <3>1, <4>2, Zenon
        <3>5. Wanted(d)' = Wanted(d) /\ (Wanted(d) => depNow.selector = "site")
            BY <1>1, <1>3, <1>4, <3>3, <3>4, Zenon DEF Wanted
        <3>6. (Served(d) => Served(d)') /\ (Coming(d) => Coming(d)')
            BY <1>6, <3>5, Zenon
        <3>7. \A e \in Device : Wanted(e)' = Wanted(e)
            BY <1>3, <1>4, <3>5, Zenon DEF Wanted
        <3>8. UNCHANGED Matching(depNow.selector)
            BY <1>3, <3>7, Zenon DEF Matching, Wanted
        <3>9. UNCHANGED CountsComing
            BY <1>1, <1>3, <3>8, Zenon DEF CountsComing, Counted
        <3>10. \A e \in Device : Told(e)' \/ Served(e)' \/ Coming(e)'
            BY <1>5, <1>7, <2>1, <3>6, Zenon DEF Settled
        <3> QED
            BY <1>5, <2>1, <3>9, <3>10, Zenon DEF Settled
    <2> QED
        BY <2>2, <2>3, Zenon
<1> QED
    BY <1>8, <1>9, Zenon

(***************************************************************************)
(* The invariant, and the controller at rest.                              *)
(***************************************************************************)
\* There is no deployment at the start.
LEMMA InitRests == Init => RestInv
<1> SUFFICES ASSUME Init PROVE RestInv
    OBVIOUS
<1>1. dep = <<NoDeployment>>
    BY DEF Init
<1>2. depNow = NoDeployment
    BY <1>1 DEF depNow, Live
<1> QED
    BY <1>2, ConstantTypes, Zenon DEF RestInv, Active

\* Every step keeps the invariant, one action after another.
LEMMA NextRests == IInv /\ RestInv /\ [Next]_vars => RestInv'
<1> SUFFICES ASSUME TypeOK, RestInv, [Next]_vars PROVE RestInv'
    BY DEF IInv
<1>1. Pending' => RestInv'
    BY Zenon DEF RestInv
<1>2. queued' = TRUE => RestInv'
    BY <1>1, Zenon DEF Pending
<1>3. CASE UNCHANGED vars
    BY <1>3, NothingChanged DEF vars
<1>4. CASE Reconcile
    BY <1>4, BeginRests, CleanupListRests, UpdateStatusRests, ApplyRests, CleanupDeleteRests, Zenon
       DEF Reconcile
<1>5. CASE Environment
    <2>1. ASSUME NEW t \in Template, NEW sel \in Selector, CreateDeployment(t, sel) PROVE Pending'
        <3> DEFINE x == [uid |-> used.uid + 1, generation |-> 1, template |-> t,
                         selector |-> sel, status |-> NoStatus]
        <3>1. dep' = Append(dep, x)
            BY <2>1, Zenon DEF CreateDeployment
        <3>2. x \in Deployment
            <4>1. used.uid + 1 \in Nat /\ 1 \in Nat
                BY NowTypes
            <4> QED
                BY <4>1, ConstantTypes, Zenon DEF Deployment
        <3> HIDE DEF x
        <3> QED
            BY <3>1, <3>2, DeploymentPends, Zenon
    <2>2. ASSUME NEW t \in Template, NEW sel \in Selector, ChangeDeployment(t, sel) PROVE Pending'
        <3> DEFINE x == [depNow EXCEPT !.generation = depNow.generation + 1, !.template = t,
                                       !.selector = sel]
        <3>1. dep' = Append(dep, x)
            BY <2>2 DEF ChangeDeployment
        <3>2. x \in Deployment
            <4>1. depNow \in Deployment
                BY NowTypes
            <4> QED
                BY <4>1, ChangedType, Zenon
        <3> HIDE DEF x
        <3> QED
            BY <3>1, <3>2, DeploymentPends, Zenon
    <2>3. DeleteDeployment => Pending'
        BY ConstantTypes, DeploymentPends, Zenon DEF DeleteDeployment
    <2>4. ASSUME NEW d \in Device, RemoveProcess(d) PROVE Pending'
        <3>1. dp' = [dp EXCEPT ![d] = Append(dp[d], NoProcess)]
            BY <2>4 DEF RemoveProcess
        <3> QED
            BY <3>1, ConstantTypes, ProcessPends, Zenon
    <2>5. \A d \in Device : DeleteProcess(d) \/ CollectGarbage(d) => Pending'
        BY <2>4, Zenon DEF DeleteProcess, CollectGarbage
    <2> QED
        BY <1>1, <1>5, <2>1, <2>2, <2>3, <2>5, ChangeSwitchRests, ReportRests, Zenon DEF Environment
<1>6. CASE CallFails \/ RestartController \/ DeploymentEvent \/ \E d \in Device : ProcessEvent(d)
    BY <1>2, <1>6, Zenon DEF CallFails, RestartController, DeploymentEvent, ProcessEvent
<1>7. CASE \E d \in Device : SwitchEvent(d)
    BY <1>7, SwitchEventRests, Zenon
<1> QED
    BY <1>3, <1>4, <1>5, <1>6, <1>7, Zenon DEF Next

\* At rest no process waits for an event or for a Reconcile.
LEMMA AtRest ==
    ASSUME TypeOK, RestInv, Quiet, Active
    PROVE  InSync /\ Counted(depNow.status, Matching(depNow.selector))
<1>1. ~Pending /\ rec.pc = "idle"
    BY Zenon DEF Quiet, Pending, Delivered
<1>2. rec.pc # "apply" /\ rec.pc # "cleanup"
    BY <1>1
<1>3. ASSUME NEW d \in Device PROVE ~Told(d) /\ ~Coming(d)
    <2>1. Len(switch[d]) = 1
        BY Zenon DEF Quiet
    <2>2. 1 .. Len(switch[d]) - 1 = {}
        BY <2>1
    <2> QED
        BY <1>2, <2>2, Zenon DEF Told, Follows, Coming
<1>4. Settled
    BY <1>1, Zenon DEF RestInv
<1>5. \A d \in Device : Served(d)
    BY <1>3, <1>4, Zenon DEF Settled
<1>6. \A d \in Device : dpNow[d].owner \in {0, depNow.uid}
    BY Zenon DEF Quiet
<1>7. InSync
    BY <1>5, <1>6, Zenon DEF InSync, Served, Wanted
<1>8. Counted(depNow.status, Matching(depNow.selector))
    BY <1>1, <1>3, <1>4, Zenon DEF Settled, CountsComing
<1> QED
    BY <1>7, <1>8

\* Counting the processes that are there counts the devices that match.
LEMMA CountsAtRest ==
    ASSUME InSync, depNow.uid # 0, Counted(depNow.status, Matching(depNow.selector))
    PROVE  CountsRight
<1> DEFINE matching == Matching(depNow.selector)
           available == {d \in matching : dpNow[d].ready}
           status == depNow.status
<1>1. Present = matching
    BY Zenon DEF Present, Matching, InSync
<1>2. matching \cap matching = matching
    OBVIOUS
<1>3. IsFiniteSet(matching) /\ matching \subseteq Device
    <2>1. matching \in SUBSET Device
        BY Zenon DEF Matching
    <2> QED
        BY <2>1, ControllerAssumption, FS_Subset, Zenon
<1>4. /\ status.observedGeneration = depNow.generation
      /\ status.desired = Cardinality(matching) /\ status.current = Cardinality(matching)
      /\ status.updated = Cardinality({d \in matching : dpNow[d].observed = depNow.template})
      /\ status.available = Cardinality(available)
      /\ status.unavailable = IF status.desired > status.available
                              THEN status.desired - status.available ELSE 0
    BY <1>1, <1>2, Zenon DEF Counted
<1>5. status.unavailable = Cardinality(matching \ available)
    <2>1. available \in SUBSET matching /\ matching \cap available = available
        BY Zenon
    <2> HIDE DEF available, matching
    <2>2. Cardinality(matching) \in Nat /\ Cardinality(available) \in Nat
        BY <1>3, <2>1, CountType
    <2>3. Cardinality(available) <= Cardinality(matching)
        BY <1>3, <2>1, FS_Subset, Zenon
    <2>4. Cardinality(matching \ available) = Cardinality(matching) - Cardinality(available)
        BY <1>3, <2>1, FS_Difference, Zenon
    <2> QED
        BY <1>4, <2>2, <2>3, <2>4
<1> QED
    BY <1>4, <1>5, Zenon DEF CountsRight

\* Nothing that the deployment needs is lost, in any reachable state of the
\* controller.
THEOREM RestInvariance == Spec => [](IInv /\ RestInv)
<1>1. Init => IInv /\ RestInv
    BY InitIInv, InitRests
<1>2. IInv /\ RestInv /\ [Next]_vars => IInv' /\ RestInv'
    BY NextIInv, NextRests
<1> QED
    BY <1>1, <1>2, PTL DEF Spec

\* When the controller has nothing left to do, the processes are those the
\* deployment asks for, for any devices, selectors, lag of the watches and
\* order of events (Reconcile and the handlers of the watches).
THEOREM RestIsSync == Spec => []RestsInSync
<1>1. IInv /\ RestInv => RestsInSync
    BY AtRest, Zenon DEF IInv, RestsInSync, Active
<1> QED
    BY <1>1, RestInvariance, PTL

\* And the counts of its status are those of the processes, although each was
\* written as a patch against a cached status (updateStatus).
THEOREM RestIsCounted == Spec => []RestsCounted
<1>1. IInv /\ RestInv => RestsCounted
    BY AtRest, CountsAtRest, Zenon DEF IInv, RestsCounted, Active
<1> QED
    BY <1>1, RestInvariance, PTL
==============================================================================
