-------------------------- MODULE ControllerProofs ---------------------------
(***************************************************************************)
(* Proofs about Controller for any devices, templates, selectors, label    *)
(* values and bounds, in particular for watches that lag any number of     *)
(* versions and names that are used any number of times.                   *)
(*                                                                         *)
(* TouchesOnlyOwn needs the order of UIDs: along the versions of the       *)
(* deployment and of a process UIDs do not decrease, except that objects   *)
(* may be gone in between, and no process belongs to a deployment newer    *)
(* than the one Reconcile works on or could start to work on.              *)
(***************************************************************************)
EXTENDS Controller, FiniteSetTheorems, TLAPS

\* The versions of the deployment: UIDs in order, none above top.
UidsInOrder(versions, top) ==
    /\ \A i \in 1 .. Len(versions) : versions[i].uid <= top
    /\ \A i, j \in 1 .. Len(versions) :
          i < j /\ versions[i].uid # 0 /\ versions[j].uid # 0 => versions[i].uid <= versions[j].uid

\* The owners of a process in its versions: in order, none above top.  One
\* without an owner is not there at all.
OwnersInOrder(versions, top) ==
    /\ \A i \in 1 .. Len(versions) : versions[i].owner <= top
    /\ \A i \in 1 .. Len(versions) : versions[i].owner = 0 => versions[i] = NoProcess
    /\ \A i, j \in 1 .. Len(versions) :
          i < j /\ versions[i].owner # 0 /\ versions[j].owner # 0
             => versions[i].owner <= versions[j].owner

\* uid does not exceed that of any deployment that Reconcile may work on.
Before(uid, versions) == \A i \in 1 .. Len(versions) : versions[i].uid # 0 => uid <= versions[i].uid

OwnersBefore(process, versions) == \A i \in 1 .. Len(process) : Before(process[i].owner, versions)
OwnersUpTo(process, uid) == \A i \in 1 .. Len(process) : process[i].owner <= uid

OrderInv ==
    /\ UidsInOrder(dep, used.uid)
    /\ \A d \in Device : OwnersInOrder(dp[d], used.uid) /\ OwnersBefore(dp[d], dep)

RecInv ==
    rec.pc # "idle" =>
        /\ rec.dep.uid <= used.uid /\ rec.dep.uid # 0
        /\ Before(rec.dep.uid, dep)
        /\ \A d \in Device : OwnersUpTo(dp[d], rec.dep.uid)

\* What is about to be deleted belongs to the deployment or is gone already.
CleanupInv ==
    rec.pc = "cleanup" => \A d \in rec.todo : dpNow[d].owner \in {0, rec.dep.uid}

IInv == TypeOK /\ OrderInv /\ RecInv /\ CleanupInv

(***************************************************************************)
(* Versions.                                                               *)
(***************************************************************************)
\* The cache has the first version of an object, the API server the last.
LEMMA VersionFacts ==
    ASSUME NEW S, NEW s \in Versions(S)
    PROVE  /\ Len(s) \in Nat /\ Len(s) > 0
           /\ \A i \in 1 .. Len(s) : s[i] \in S
           /\ Cached(s) = s[1] /\ Cached(s) \in S
           /\ Live(s) = s[Len(s)] /\ Live(s) \in S
           /\ <<Live(s)>> \in Versions(S) /\ Len(<<Live(s)>>) = 1 /\ <<Live(s)>>[1] = Live(s)
<1>1. s \in Seq(S) /\ s # <<>>
    BY DEF Versions
<1>2. Len(s) \in Nat /\ Len(s) > 0 /\ \A i \in 1 .. Len(s) : s[i] \in S
    BY <1>1
<1>3. Cached(s) = s[1] /\ Live(s) = s[Len(s)]
    BY <1>1 DEF Cached, Live
<1>4. s[1] \in S /\ s[Len(s)] \in S
    BY <1>2
<1>5. <<Live(s)>> \in Seq(S) /\ <<Live(s)>> # <<>>
    BY <1>3, <1>4
<1> QED
    BY <1>2, <1>3, <1>4, <1>5 DEF Versions

\* Appending a version changes what is live and nothing before it.
LEMMA AppendFacts ==
    ASSUME NEW S, NEW s \in Versions(S), NEW x \in S
    PROVE  /\ Append(s, x) \in Versions(S)
           /\ Len(Append(s, x)) = Len(s) + 1
           /\ \A i \in 1 .. Len(s) : Append(s, x)[i] = s[i]
           /\ Append(s, x)[Len(s) + 1] = x
           /\ Live(Append(s, x)) = x
           /\ Cached(Append(s, x)) = Cached(s)
<1>1. s \in Seq(S) /\ s # <<>> /\ Len(s) \in Nat /\ Len(s) > 0
    BY VersionFacts DEF Versions
<1>2. /\ Append(s, x) \in Seq(S) /\ Len(Append(s, x)) = Len(s) + 1
      /\ \A i \in 1 .. Len(s) : Append(s, x)[i] = s[i]
      /\ Append(s, x)[Len(s) + 1] = x
    BY <1>1
<1>3. Append(s, x) # <<>>
    BY <1>1, <1>2
<1>4. Append(s, x) \in Versions(S)
    BY <1>2, <1>3 DEF Versions
<1>5. Cached(Append(s, x)) = Append(s, x)[1] /\ Cached(s) = s[1]
    BY <1>4, VersionFacts, Zenon
<1> QED
    BY <1>1, <1>2, <1>4, <1>5 DEF Live

\* In particular not what the cache has.
LEMMA AppendKeepsCached ==
    \A s \in Versions(SwitchState), x \in SwitchState : Cached(Append(s, x)) = Cached(s)
    BY AppendFacts

\* A watch event drops the oldest version and leaves the live one.
LEMMA TailFacts ==
    ASSUME NEW S, NEW s \in Versions(S), Len(s) > 1
    PROVE  /\ Tail(s) \in Versions(S)
           /\ Len(Tail(s)) = Len(s) - 1
           /\ \A i \in 1 .. Len(s) - 1 : Tail(s)[i] = s[i + 1]
           /\ Live(Tail(s)) = Live(s)
           /\ Cached(Tail(s)) = s[2]
<1>1. s \in Seq(S) /\ s # <<>> /\ Len(s) \in Nat
    BY VersionFacts DEF Versions
<1>2. /\ Tail(s) \in Seq(S) /\ Len(Tail(s)) = Len(s) - 1
      /\ \A i \in 1 .. Len(s) - 1 : Tail(s)[i] = s[i + 1]
    BY <1>1
<1>3. Tail(s) # <<>>
    <2>1. Len(Tail(s)) # 0
        BY <1>1, <1>2, SMTT(30)
    <2> QED
        BY <2>1
<1>4. Tail(s) \in Versions(S)
    BY <1>2, <1>3 DEF Versions
<1>5. Cached(Tail(s)) = Tail(s)[1]
    BY <1>4, VersionFacts, Zenon
<1> QED
    BY <1>1, <1>2, <1>4, <1>5 DEF Live

\* A write appends a version or, if nothing changes, does nothing.
LEMMA WrittenFacts ==
    ASSUME NEW S, NEW s \in Versions(S), NEW x \in S
    PROVE  /\ Written(s, x) \in Versions(S)
           /\ Live(Written(s, x)) = x
           /\ Written(s, x) = s \/ Written(s, x) = Append(s, x)
    BY AppendFacts DEF Written

(***************************************************************************)
(* The orders survive the steps of a watch and of the API server.          *)
(***************************************************************************)
\* The fields that are compared are numbers.
LEMMA FieldTypes ==
    /\ \A x \in Deployment : x.uid \in Nat
    /\ \A x \in Process : x.owner \in Nat
    BY DEF Deployment, Process

\* A deployment with the newest UID so far, or none, keeps the order of UIDs.
LEMMA DepAppend ==
    ASSUME NEW s \in Versions(Deployment), NEW x \in Deployment,
           NEW top \in Nat, NEW newTop \in Nat, top <= newTop,
           UidsInOrder(s, top), x.uid <= newTop,
           x.uid # 0 => \A i \in 1 .. Len(s) : s[i].uid <= x.uid
    PROVE  UidsInOrder(Append(s, x), newTop)
<1>1. /\ Len(Append(s, x)) = Len(s) + 1
      /\ \A i \in 1 .. Len(s) : Append(s, x)[i] = s[i]
      /\ Append(s, x)[Len(s) + 1] = x
    BY AppendFacts
<1>2. Len(s) \in Nat /\ x.uid \in Nat /\ \A i \in 1 .. Len(s) : s[i].uid \in Nat
    BY VersionFacts, FieldTypes, Zenon
<1> QED
    BY <1>1, <1>2 DEF UidsInOrder

\* So does a watch event of the deployment.
LEMMA DepTail ==
    ASSUME NEW s \in Versions(Deployment), Len(s) > 1, NEW top \in Nat, UidsInOrder(s, top)
    PROVE  UidsInOrder(Tail(s), top)
<1>1. /\ Len(s) \in Nat /\ Len(Tail(s)) = Len(s) - 1
      /\ \A i \in 1 .. Len(s) - 1 : Tail(s)[i] = s[i + 1]
    BY TailFacts, VersionFacts
<1>2. \A i \in 1 .. Len(s) - 1 : i + 1 \in 1 .. Len(s)
    BY <1>1
<1> QED
    BY <1>1, <1>2 DEF UidsInOrder

\* A process of an owner that is not older than its predecessors keeps the
\* order of owners.
LEMMA DpAppend ==
    ASSUME NEW s \in Versions(Process), NEW x \in Process, NEW top \in Nat,
           OwnersInOrder(s, top), x.owner <= top, x.owner = 0 => x = NoProcess,
           x.owner # 0 => \A i \in 1 .. Len(s) : s[i].owner <= x.owner
    PROVE  OwnersInOrder(Append(s, x), top)
<1>1. /\ Len(Append(s, x)) = Len(s) + 1
      /\ \A i \in 1 .. Len(s) : Append(s, x)[i] = s[i]
      /\ Append(s, x)[Len(s) + 1] = x
    BY AppendFacts
<1>2. Len(s) \in Nat /\ x.owner \in Nat /\ \A i \in 1 .. Len(s) : s[i].owner \in Nat
    BY VersionFacts, FieldTypes, Zenon
<1> QED
    BY <1>1, <1>2 DEF OwnersInOrder

\* So does a watch event of the process.
LEMMA DpTail ==
    ASSUME NEW s \in Versions(Process), Len(s) > 1, NEW top \in Nat, OwnersInOrder(s, top)
    PROVE  OwnersInOrder(Tail(s), top)
<1>1. /\ Len(s) \in Nat /\ Len(Tail(s)) = Len(s) - 1
      /\ \A i \in 1 .. Len(s) - 1 : Tail(s)[i] = s[i + 1]
    BY TailFacts, VersionFacts
<1>2. \A i \in 1 .. Len(s) - 1 : i + 1 \in 1 .. Len(s)
    BY <1>1
<1> QED
    BY <1>1, <1>2 DEF OwnersInOrder

\* All versions of the deployment are at most as old as the last one that is there.
LEMMA LiveIsNewest ==
    ASSUME NEW s \in Versions(Deployment), NEW top \in Nat, UidsInOrder(s, top), Live(s).uid # 0
    PROVE  \A i \in 1 .. Len(s) : s[i].uid <= Live(s).uid
<1>1. /\ Len(s) \in Nat /\ Len(s) > 0 /\ Live(s) = s[Len(s)]
      /\ \A i \in 1 .. Len(s) : s[i].uid \in Nat
    BY VersionFacts, FieldTypes, Zenon
<1> QED
    BY <1>1 DEF UidsInOrder

(***************************************************************************)
(* Types of the values that are written.                                   *)
(***************************************************************************)
Used == [{"uid", "changes", "reports", "faults"} -> Nat]
Rec == [pc : {"idle", "apply", "cleanup"}, dep : Deployment, devices : SUBSET Device,
        role : [Device -> LabelValue \cup {Unset}], todo : SUBSET Device]

\* A bound that is used up stays a number, and UIDs only grow.
LEMMA SpendFacts ==
    ASSUME TypeOK, NEW bound \in {"uid", "changes", "reports", "faults"}, NEW limit \in Nat,
           Spend(bound, limit)
    PROVE  /\ used' \in Used
           /\ used'.uid = IF bound = "uid" THEN used.uid + 1 ELSE used.uid
           /\ used.uid \in Nat /\ used'.uid \in Nat
    BY DEF TypeOK, Spend, Used

\* The constant records have the types of their variables.
LEMMA ConstantTypes ==
    /\ NoStatus \in Status /\ NoDeployment \in Deployment /\ NoProcess \in Process
    /\ NoReconcile \in Rec
    /\ NoDeployment.uid = 0 /\ NoProcess.owner = 0 /\ NoReconcile.pc = "idle"
<1>1. NoStatus \in Status
    BY DEF NoStatus, Status, Cond
<1>2. NoDeployment \in Deployment /\ NoDeployment.uid = 0
    BY <1>1 DEF NoDeployment, Deployment
<1>3. NoProcess \in Process /\ NoProcess.owner = 0
    BY DEF NoProcess, Process
<1>4. NoReconcile \in Rec /\ NoReconcile.pc = "idle"
    BY <1>2 DEF NoReconcile, Rec
<1> QED
    BY <1>1, <1>2, <1>3, <1>4

\* What the cache and the API server have is typed.
LEMMA NowTypes ==
    ASSUME TypeOK
    PROVE  /\ depNow \in Deployment /\ depSeen \in Deployment
           /\ depNow.uid \in Nat /\ depSeen.uid \in Nat
           /\ \A d \in Device : /\ dpNow[d] = Live(dp[d]) /\ dpSeen[d] = Cached(dp[d])
                                /\ dpNow[d] \in Process /\ dpSeen[d] \in Process
                                /\ dpNow[d].owner \in Nat /\ dpSeen[d].owner \in Nat
           /\ \A d \in Device : switchNow[d] = Live(switch[d]) /\ switchNow[d] \in SwitchState
           /\ used.uid \in Nat /\ rec.dep.uid \in Nat
<1>1. /\ dep \in Versions(Deployment)
      /\ \A d \in Device : dp[d] \in Versions(Process) /\ switch[d] \in Versions(SwitchState)
      /\ used.uid \in Nat /\ rec.dep \in Deployment
    BY DEF TypeOK
<1>2. depNow \in Deployment /\ depSeen \in Deployment
    BY <1>1, VersionFacts, Zenon DEF depNow, depSeen
<1>3. \A d \in Device : Live(dp[d]) \in Process /\ Cached(dp[d]) \in Process /\ Live(switch[d]) \in SwitchState
    BY <1>1, VersionFacts, Zenon
<1>4. \A d \in Device : dpNow[d] = Live(dp[d]) /\ dpSeen[d] = Cached(dp[d]) /\ switchNow[d] = Live(switch[d])
    BY DEF dpNow, dpSeen, switchNow
<1> QED
    BY <1>1, <1>2, <1>3, <1>4, FieldTypes

\* Counts of devices are natural numbers.
LEMMA CountType == ASSUME NEW S, S \subseteq Device PROVE Cardinality(S) \in Nat
    BY ControllerAssumption, FS_Subset, FS_CardinalityType

\* No count that updateStatus computes is negative.
LEMMA NewStatusType == TypeOK => NewStatus \in Status
<1> SUFFICES ASSUME TypeOK PROVE NewStatus \in Status
    OBVIOUS
<1> DEFINE desired == Cardinality(rec.devices)
           updated == Cardinality({d \in Listed \cap rec.devices : dpSeen[d].observed = rec.dep.template})
           available == Cardinality({d \in Listed : dpSeen[d].ready})
           current == Cardinality(Listed)
<1>1. rec.devices \subseteq Device /\ rec.dep.generation \in Nat
    BY DEF TypeOK, Deployment
<1>2. desired \in Nat /\ current \in Nat
    BY <1>1, CountType DEF Listed
<1>3. updated \in Nat
    <2>1. {d \in Listed \cap rec.devices : dpSeen[d].observed = rec.dep.template} \subseteq Device
        BY DEF Listed
    <2> QED
        BY <2>1, CountType
<1>4. available \in Nat
    <2>1. {d \in Listed : dpSeen[d].ready} \subseteq Device
        BY DEF Listed
    <2> QED
        BY <2>1, CountType
<1>5. NewStatus = [observedGeneration |-> rec.dep.generation, desired |-> desired, current |-> current,
         updated |-> updated, available |-> available,
         unavailable |-> IF desired > available THEN desired - available ELSE 0,
         Available |-> IF desired # 0 /\ available = desired THEN "True" ELSE "False",
         Progressing |-> IF desired # 0 /\ (updated < desired \/ available < desired)
                         THEN "True" ELSE "False"]
    BY DEF NewStatus
<1> HIDE DEF desired, updated, available, current
<1>6. (IF desired > available THEN desired - available ELSE 0) \in Nat
    BY <1>2, <1>4
<1> QED
    BY <1>1, <1>2, <1>3, <1>4, <1>5, <1>6 DEF Status, Cond

\* Merging two statuses gives a status.
LEMMA PatchType ==
    ASSUME NEW target \in Status, NEW status \in Status, NEW new \in Status
    PROVE  MergePatch(target, Base(status, new), new) \in Status
    BY DEF MergePatch, Base, Status, NoStatus

\* An applied process is a process.
LEMMA AppliedType ==
    ASSUME NEW process \in Process, NEW deployment \in Deployment, NEW role \in LabelValue \cup {Unset}
    PROVE  /\ Applied(process, deployment, role) \in Process
           /\ Applied(process, deployment, role).owner = deployment.uid
    BY Zenon DEF Applied, Process, Deployment

(***************************************************************************)
(* What a step does to the orders, by the kind of step.                    *)
(***************************************************************************)
Orders == OrderInv /\ RecInv /\ CleanupInv

\* Neither the deployment nor a process changes, and Reconcile goes on with
\* fewer devices or ends.
LEMMA NothingWritten ==
    ASSUME IInv, UNCHANGED <<dep, dp>>, used'.uid = used.uid,
           \/ rec'.pc = "idle"
           \/ rec'.pc = rec.pc /\ rec'.dep = rec.dep /\ rec'.todo \subseteq rec.todo
    PROVE  Orders'
<1>1. dpNow' = dpNow
    BY DEF dpNow
<1>2. OrderInv'
    BY DEF IInv, OrderInv
<1>3. RecInv'
    BY DEF IInv, RecInv
<1>4. CleanupInv'
    BY <1>1 DEF IInv, CleanupInv
<1> QED
    BY <1>2, <1>3, <1>4 DEF Orders

\* A version of a process is added that belongs to nobody, to the owner it
\* had, or to the deployment that Reconcile works on.
LEMMA ProcessAppended ==
    ASSUME IInv, NEW d \in Device, NEW x \in Process,
           dp' = [dp EXCEPT ![d] = Append(dp[d], x)], dep' = dep, used'.uid = used.uid,
           x.owner = 0 => x = NoProcess,
           rec'.pc = rec.pc, rec'.dep = rec.dep, rec'.todo \subseteq rec.todo,
           \/ x.owner = 0
           \/ x.owner = dpNow[d].owner
           \/ rec.pc # "idle" /\ x.owner = rec.dep.uid
    PROVE  Orders'
<1>1. /\ dp[d] \in Versions(Process) /\ dp \in [Device -> Versions(Process)]
      /\ dep \in Versions(Deployment) /\ used.uid \in Nat /\ rec.dep.uid \in Nat
      /\ x.owner \in Nat /\ rec.todo \subseteq Device
    BY NowTypes, FieldTypes DEF IInv, TypeOK
<1>2. /\ dp'[d] = Append(dp[d], x)
      /\ \A e \in Device : e # d => dp'[e] = dp[e]
    BY <1>1
<1>3. /\ Len(dp'[d]) = Len(dp[d]) + 1 /\ dp'[d][Len(dp[d]) + 1] = x
      /\ \A i \in 1 .. Len(dp[d]) : dp'[d][i] = dp[d][i]
      /\ Live(dp'[d]) = x
    BY <1>1, <1>2, AppendFacts
<1>4. /\ Len(dp[d]) \in Nat /\ Len(dp[d]) > 0 /\ dpNow[d] = dp[d][Len(dp[d])]
      /\ \A i \in 1 .. Len(dp[d]) : dp[d][i].owner \in Nat
    BY <1>1, VersionFacts, NowTypes, FieldTypes, Zenon DEF IInv
<1>5. x.owner # 0 => \A i \in 1 .. Len(dp[d]) : dp[d][i].owner <= x.owner
    <2>1. CASE x.owner = dpNow[d].owner
        BY <2>1, <1>4 DEF IInv, OrderInv, OwnersInOrder
    <2>2. CASE rec.pc # "idle" /\ x.owner = rec.dep.uid
        BY <2>2 DEF IInv, RecInv, OwnersUpTo
    <2> QED
        BY <2>1, <2>2
<1>6. x.owner <= used.uid
    <2>1. CASE x.owner = dpNow[d].owner
        BY <2>1, <1>4 DEF IInv, OrderInv, OwnersInOrder
    <2>2. CASE rec.pc # "idle" /\ x.owner = rec.dep.uid
        BY <2>2 DEF IInv, RecInv
    <2> QED
        BY <2>1, <2>2, <1>1
<1>7. Before(x.owner, dep)
    <2>1. CASE x.owner = dpNow[d].owner
        BY <2>1, <1>4 DEF IInv, OrderInv, OwnersBefore
    <2>2. CASE rec.pc # "idle" /\ x.owner = rec.dep.uid
        BY <2>2 DEF IInv, RecInv
    <2>3. CASE x.owner = 0
        <3>1. \A i \in 1 .. Len(dep) : dep[i].uid \in Nat
            BY <1>1, VersionFacts, FieldTypes, Zenon
        <3> QED
            BY <2>3, <3>1 DEF Before
    <2> QED
        BY <2>1, <2>2, <2>3
<1>8. rec.pc # "idle" => x.owner <= rec.dep.uid
    <2>1. CASE x.owner = dpNow[d].owner
        BY <2>1, <1>4 DEF IInv, RecInv, OwnersUpTo
    <2> QED
        BY <2>1, <1>1
<1>9. OrderInv'
    <2>1. OwnersInOrder(dp'[d], used.uid)
        BY <1>1, <1>2, <1>5, <1>6, DpAppend DEF IInv, OrderInv
    <2>2. OwnersBefore(dp'[d], dep)
        BY <1>3, <1>4, <1>7 DEF IInv, OrderInv, OwnersBefore
    <2> QED
        BY <1>2, <2>1, <2>2 DEF IInv, OrderInv
<1>10. RecInv'
    <2>1. rec.pc # "idle" => OwnersUpTo(dp'[d], rec.dep.uid)
        BY <1>3, <1>4, <1>8 DEF IInv, RecInv, OwnersUpTo
    <2> QED
        BY <1>2, <2>1 DEF IInv, RecInv
<1>11. CleanupInv'
    <2> SUFFICES ASSUME rec.pc = "cleanup", NEW e \in rec.todo
                 PROVE  dpNow'[e].owner \in {0, rec.dep.uid}
        BY DEF CleanupInv
    <2>1. e \in Device /\ dpNow'[e] = Live(dp'[e]) /\ dpNow[e] = Live(dp[e])
        BY <1>1 DEF dpNow
    <2>2. dpNow[e].owner \in {0, rec.dep.uid}
        BY DEF IInv, CleanupInv
    <2> QED
        BY <1>2, <1>3, <2>1, <2>2
<1> QED
    BY <1>9, <1>10, <1>11 DEF Orders

\* A version of the deployment is added: it is gone, or it is the one that
\* was there, or it is newer than all so far.
LEMMA DeploymentAppended ==
    ASSUME IInv, NEW x \in Deployment, dep' = Append(dep, x), dp' = dp,
           used'.uid \in Nat, used.uid <= used'.uid, x.uid <= used'.uid,
           x.uid # 0 => x.uid = depNow.uid \/ used.uid < x.uid,
           rec' = rec \/ rec' = NoReconcile
    PROVE  Orders'
<1>1. /\ dep \in Versions(Deployment) /\ used.uid \in Nat /\ rec.dep.uid \in Nat /\ x.uid \in Nat
      /\ \A d \in Device : dp[d] \in Versions(Process)
    BY NowTypes, FieldTypes DEF IInv, TypeOK
<1>2. /\ Len(dep') = Len(dep) + 1 /\ dep'[Len(dep) + 1] = x
      /\ \A i \in 1 .. Len(dep) : dep'[i] = dep[i]
    BY <1>1, AppendFacts
<1>3. /\ Len(dep) \in Nat /\ Len(dep) > 0 /\ depNow = dep[Len(dep)]
      /\ \A i \in 1 .. Len(dep) : dep[i].uid \in Nat
    BY <1>1, VersionFacts, FieldTypes, Zenon DEF depNow
<1>4. \A d \in Device : \A i \in 1 .. Len(dp[d]) : dp[d][i].owner \in Nat
    BY <1>1, VersionFacts, FieldTypes, Zenon
<1>5. x.uid # 0 => \A i \in 1 .. Len(dep) : dep[i].uid <= x.uid
    <2>1. CASE x.uid = depNow.uid /\ x.uid # 0
        BY <2>1, <1>1, LiveIsNewest DEF depNow, IInv, OrderInv
    <2>2. CASE used.uid < x.uid
        BY <2>2, <1>1, <1>3 DEF IInv, OrderInv, UidsInOrder
    <2> QED
        BY <2>1, <2>2
<1>6. UidsInOrder(dep', used'.uid)
    BY <1>1, <1>5, DepAppend DEF IInv, OrderInv
<1>7. ASSUME NEW n \in Nat, Before(n, dep), n <= used.uid
      PROVE  Before(n, dep')
    <2>1. x.uid # 0 => n <= x.uid
        <3>1. CASE x.uid = depNow.uid /\ x.uid # 0
            BY <3>1, <1>3, <1>7 DEF Before
        <3>2. CASE used.uid < x.uid
            BY <3>2, <1>1, <1>7
        <3> QED
            BY <3>1, <3>2
    <2> QED
        BY <2>1, <1>2, <1>3, <1>7 DEF Before
<1>8. \A d \in Device : OwnersInOrder(dp[d], used'.uid) /\ OwnersBefore(dp[d], dep')
    <2> SUFFICES ASSUME NEW d \in Device
                 PROVE  OwnersInOrder(dp[d], used'.uid) /\ OwnersBefore(dp[d], dep')
        OBVIOUS
    <2>1. OwnersInOrder(dp[d], used.uid) /\ OwnersBefore(dp[d], dep)
        BY DEF IInv, OrderInv
    <2>2. OwnersInOrder(dp[d], used'.uid)
        BY <2>1, <1>1, <1>4 DEF OwnersInOrder
    <2>3. \A i \in 1 .. Len(dp[d]) : Before(dp[d][i].owner, dep')
        BY <2>1, <1>4, <1>7 DEF OwnersInOrder, OwnersBefore
    <2> QED
        BY <2>2, <2>3 DEF OwnersBefore
<1>9. OrderInv'
    BY <1>6, <1>8 DEF OrderInv
<1>10. RecInv' /\ CleanupInv'
    <2>1. CASE rec' = NoReconcile
        BY <2>1, ConstantTypes DEF RecInv, CleanupInv
    <2>2. CASE rec' = rec
        <3>1. RecInv'
            BY <2>2, <1>1, <1>7 DEF IInv, RecInv
        <3>2. dpNow' = dpNow
            BY DEF dpNow
        <3> QED
            BY <2>2, <3>1, <3>2 DEF IInv, CleanupInv
    <2> QED
        BY <2>1, <2>2
<1> QED
    BY <1>9, <1>10 DEF Orders

(***************************************************************************)
(* The watches and the restart.                                            *)
(***************************************************************************)
\* The watch delivers a switch.
LEMMA SwitchEventKeeps == ASSUME IInv, NEW d \in Device, SwitchEvent(d) PROVE IInv'
<1>1. TypeOK'
    <2>1. switch[d] \in Versions(SwitchState) /\ Len(switch[d]) > 1
        BY DEF IInv, TypeOK, SwitchEvent
    <2>2. Tail(switch[d]) \in Versions(SwitchState)
        BY <2>1, TailFacts
    <2>3. switch' \in [Device -> Versions(SwitchState)]
        BY <2>2 DEF IInv, TypeOK, SwitchEvent
    <2>4. queued' \in BOOLEAN
        <3>1. SwitchRequests(switch[d][1], switch[d][2]) \in BOOLEAN
            BY Zenon DEF SwitchRequests, RequestFor
        <3> QED
            BY <3>1 DEF IInv, TypeOK, SwitchEvent
    <2> QED
        BY <2>3, <2>4 DEF IInv, TypeOK, SwitchEvent
<1>2. Orders'
    BY NothingWritten DEF SwitchEvent
<1> QED
    BY <1>1, <1>2 DEF IInv, Orders

\* The watch delivers a deployment: the cache never goes back to an older UID.
LEMMA DeploymentEventKeeps == ASSUME IInv, DeploymentEvent PROVE IInv'
<1>1. /\ dep \in Versions(Deployment) /\ Len(dep) > 1 /\ dep' = Tail(dep) /\ queued' = TRUE
      /\ UNCHANGED <<switch, dp, rec, used>>
    BY DEF IInv, TypeOK, DeploymentEvent
<1>2. /\ dep' \in Versions(Deployment) /\ Len(dep') = Len(dep) - 1 /\ Len(dep) \in Nat
      /\ \A i \in 1 .. Len(dep') : dep'[i] = dep[i + 1] /\ i + 1 \in 1 .. Len(dep)
    <2>1. Len(dep) \in Nat
        BY <1>1, VersionFacts
    <2> QED
        BY <1>1, <2>1, TailFacts
<1>3. TypeOK'
    BY <1>1, <1>2 DEF IInv, TypeOK
<1>4. \A n : Before(n, dep) => Before(n, dep')
    BY <1>2 DEF Before
<1>5. OrderInv'
    <2>1. UidsInOrder(dep', used.uid)
        BY <1>1, DepTail, NowTypes DEF IInv, OrderInv
    <2> QED
        BY <1>1, <1>4, <2>1 DEF IInv, OrderInv, OwnersBefore
<1>6. RecInv'
    BY <1>1, <1>4 DEF IInv, RecInv
<1>7. CleanupInv'
    <2>1. dpNow' = dpNow
        BY <1>1 DEF dpNow
    <2> QED
        BY <1>1, <2>1 DEF IInv, CleanupInv
<1> QED
    BY <1>3, <1>5, <1>6, <1>7 DEF IInv

\* The watch delivers a process.
LEMMA ProcessEventKeeps == ASSUME IInv, NEW d \in Device, ProcessEvent(d) PROVE IInv'
<1>1. /\ dp \in [Device -> Versions(Process)] /\ dp[d] \in Versions(Process) /\ Len(dp[d]) > 1
      /\ dp' = [dp EXCEPT ![d] = Tail(dp[d])] /\ queued' = TRUE
      /\ UNCHANGED <<switch, dep, rec, used>>
    BY DEF IInv, TypeOK, ProcessEvent
<1>2. dp'[d] = Tail(dp[d]) /\ \A e \in Device : e # d => dp'[e] = dp[e]
    BY <1>1
<1>3. /\ dp'[d] \in Versions(Process) /\ Live(dp'[d]) = Live(dp[d])
      /\ \A i \in 1 .. Len(dp'[d]) : dp'[d][i] = dp[d][i + 1] /\ i + 1 \in 1 .. Len(dp[d])
    <2>1. Len(dp[d]) \in Nat
        BY <1>1, VersionFacts
    <2> QED
        BY <1>1, <1>2, <2>1, TailFacts
<1>4. TypeOK'
    <2>1. dp' \in [Device -> Versions(Process)]
        BY <1>1, <1>2, <1>3
    <2> QED
        BY <1>1, <2>1 DEF IInv, TypeOK
<1>5. OrderInv'
    <2>1. OwnersInOrder(dp'[d], used.uid)
        BY <1>1, <1>2, DpTail, NowTypes DEF IInv, OrderInv
    <2>2. OwnersBefore(dp'[d], dep)
        BY <1>3 DEF IInv, OrderInv, OwnersBefore
    <2> QED
        BY <1>1, <1>2, <2>1, <2>2 DEF IInv, OrderInv
<1>6. RecInv'
    <2>1. rec.pc # "idle" => OwnersUpTo(dp'[d], rec.dep.uid)
        BY <1>3 DEF IInv, RecInv, OwnersUpTo
    <2> QED
        BY <1>1, <1>2, <2>1 DEF IInv, RecInv
<1>7. CleanupInv'
    <2>1. dpNow' = dpNow
        BY <1>2, <1>3 DEF dpNow
    <2> QED
        BY <1>1, <2>1 DEF IInv, CleanupInv
<1> QED
    BY <1>4, <1>5, <1>6, <1>7 DEF IInv

\* After a restart the caches hold the live objects.
LEMMA RestartControllerKeeps == ASSUME IInv, RestartController PROVE IInv'
<1>1. /\ used' \in Used /\ used'.uid = used.uid /\ used.uid \in Nat
    BY SpendFacts, ControllerAssumption DEF IInv, RestartController
<1>2. /\ rec' = NoReconcile /\ queued' = TRUE /\ dep' = <<Live(dep)>>
      /\ switch' = [d \in Device |-> <<Live(switch[d])>>]
      /\ dp' = [d \in Device |-> <<Live(dp[d])>>]
    BY DEF RestartController, switchNow, depNow, dpNow
<1>3. /\ dep \in Versions(Deployment)
      /\ \A d \in Device : dp[d] \in Versions(Process) /\ switch[d] \in Versions(SwitchState)
    BY DEF IInv, TypeOK
<1>4. TypeOK'
    <2>1. dep' \in Versions(Deployment)
        BY <1>2, <1>3, VersionFacts
    <2>2. dp' \in [Device -> Versions(Process)]
        BY <1>2, <1>3, VersionFacts
    <2>3. switch' \in [Device -> Versions(SwitchState)]
        BY <1>2, <1>3, VersionFacts
    <2> QED
        BY <1>1, <1>2, <2>1, <2>2, <2>3, ConstantTypes DEF TypeOK, Used, Rec
<1>5. /\ Len(dep') = 1 /\ dep'[1] = dep[Len(dep)] /\ Len(dep) \in 1 .. Len(dep)
      /\ dep'[1].uid \in Nat
    <2>1. Len(dep) \in Nat /\ Len(dep) > 0 /\ Live(dep) = dep[Len(dep)] /\ Live(dep).uid \in Nat
        BY <1>3, VersionFacts, FieldTypes, Zenon
    <2> QED
        BY <1>2, <2>1
<1>6. \A d \in Device : /\ Len(dp'[d]) = 1 /\ dp'[d][1] = dp[d][Len(dp[d])]
                        /\ Len(dp[d]) \in 1 .. Len(dp[d]) /\ dp'[d][1].owner \in Nat
    <2> SUFFICES ASSUME NEW d \in Device
                 PROVE  /\ Len(dp'[d]) = 1 /\ dp'[d][1] = dp[d][Len(dp[d])]
                        /\ Len(dp[d]) \in 1 .. Len(dp[d]) /\ dp'[d][1].owner \in Nat
        OBVIOUS
    <2>1. /\ Len(dp[d]) \in Nat /\ Len(dp[d]) > 0 /\ Live(dp[d]) = dp[d][Len(dp[d])]
          /\ Live(dp[d]).owner \in Nat
        BY <1>3, VersionFacts, FieldTypes, Zenon
    <2> QED
        BY <1>2, <2>1
<1>7. OrderInv'
    <2>1. UidsInOrder(dep', used.uid)
        BY <1>5 DEF IInv, OrderInv, UidsInOrder
    <2>2. \A d \in Device : OwnersInOrder(dp'[d], used.uid)
        BY <1>6 DEF IInv, OrderInv, OwnersInOrder
    <2>3. \A d \in Device : OwnersBefore(dp'[d], dep')
        BY <1>5, <1>6, SMTT(30) DEF IInv, OrderInv, OwnersBefore, Before
    <2> QED
        BY <1>1, <2>1, <2>2, <2>3 DEF OrderInv
<1>8. RecInv' /\ CleanupInv'
    BY <1>2, ConstantTypes DEF RecInv, CleanupInv
<1> QED
    BY <1>4, <1>7, <1>8 DEF IInv

(***************************************************************************)
(* Reconcile.                                                              *)
(***************************************************************************)
\* Reconcile starts with the cached deployment, and no process has a newer owner.
LEMMA BeginKeeps == ASSUME IInv, Begin PROVE IInv'
<1>1. /\ queued' = FALSE /\ UNCHANGED <<switch, dep, dp, used>>
      /\ \/ rec' = NoReconcile
         \/ /\ rec'.pc = "apply" /\ rec'.dep = depSeen /\ depSeen.uid # 0
            /\ rec' \in Rec
    <2> DEFINE devices == Matching(depSeen.selector)
               role == [d \in Device |-> IF d \in devices THEN switchNow[d] ELSE Unset]
    <2>1. /\ queued' = FALSE /\ UNCHANGED <<switch, dep, dp, used>>
          /\ \/ rec' = NoReconcile
             \/ depSeen.uid # 0 /\ rec' = [pc |-> "apply", dep |-> depSeen, devices |-> devices,
                                           role |-> role, todo |-> devices]
        BY DEF Begin
    <2>2. devices \subseteq Device /\ depSeen \in Deployment
        BY NowTypes DEF IInv, Matching
    <2>3. role \in [Device -> LabelValue \cup {Unset}]
        <3>1. \A d \in devices : switchNow[d] \in SwitchState /\ switchNow[d] # NoSwitch
            BY NowTypes DEF IInv, Matching, Matches
        <3> QED
            BY <3>1 DEF SwitchState
    <2> HIDE DEF devices, role
    <2> QED
        BY <2>1, <2>2, <2>3 DEF Rec
<1>2. TypeOK'
    BY <1>1, ConstantTypes, Zenon DEF IInv, TypeOK, Rec
<1>3. Orders'
    <2>1. CASE rec' = NoReconcile
        BY <1>1, <2>1, ConstantTypes, NothingWritten
    <2>2. CASE rec'.pc = "apply" /\ rec'.dep = depSeen /\ depSeen.uid # 0
        <3>1. /\ Len(dep) \in Nat /\ Len(dep) > 0 /\ depSeen = dep[1]
              /\ \A i \in 1 .. Len(dep) : dep[i].uid \in Nat
            BY VersionFacts, FieldTypes, Zenon DEF IInv, TypeOK, depSeen
        <3>2. depSeen.uid <= used.uid /\ Before(depSeen.uid, dep)
            BY <2>2, <3>1 DEF IInv, OrderInv, UidsInOrder, Before
        <3>3. \A d \in Device : OwnersUpTo(dp[d], depSeen.uid)
            BY <2>2, <3>1 DEF IInv, OrderInv, OwnersBefore, Before, OwnersUpTo
        <3>4. RecInv' /\ CleanupInv'
            BY <1>1, <2>2, <3>2, <3>3 DEF RecInv, CleanupInv
        <3> QED
            BY <1>1, <3>4 DEF IInv, OrderInv, Orders
    <2> QED
        BY <1>1, <2>1, <2>2
<1> QED
    BY <1>2, <1>3 DEF IInv, Orders

\* An error ends Reconcile and leaves the objects alone.
LEMMA CallFailsKeeps == ASSUME IInv, CallFails PROVE IInv'
<1>1. used' \in Used /\ used'.uid = used.uid
    BY SpendFacts, ControllerAssumption DEF IInv, CallFails
<1>2. rec' = NoReconcile /\ queued' = TRUE /\ UNCHANGED <<switch, dep, dp>>
    BY DEF CallFails
<1>3. TypeOK'
    BY <1>1, <1>2, ConstantTypes DEF IInv, TypeOK, Rec, Used
<1>4. Orders'
    BY <1>1, <1>2, ConstantTypes, NothingWritten
<1> QED
    BY <1>3, <1>4 DEF IInv, Orders

\* The type of the processes after one of them is written.
LEMMA ProcessWrittenType ==
    ASSUME TypeOK, NEW d \in Device, NEW x \in Process,
           dp' = [dp EXCEPT ![d] = Written(dp[d], x)] \/ dp' = [dp EXCEPT ![d] = Append(dp[d], x)]
    PROVE  dp' \in [Device -> Versions(Process)]
<1>1. dp \in [Device -> Versions(Process)] /\ dp[d] \in Versions(Process)
    BY DEF TypeOK
<1>2. Written(dp[d], x) \in Versions(Process) /\ Append(dp[d], x) \in Versions(Process)
    BY <1>1, WrittenFacts, AppendFacts
<1> QED
    BY <1>1, <1>2, Zenon

\* As ProcessAppended, for a write that may change nothing.
LEMMA ProcessWritten ==
    ASSUME IInv, NEW d \in Device, NEW x \in Process,
           dp' = [dp EXCEPT ![d] = Written(dp[d], x)], dep' = dep, used'.uid = used.uid,
           x.owner = 0 => x = NoProcess,
           rec'.pc = rec.pc, rec'.dep = rec.dep, rec'.todo \subseteq rec.todo,
           \/ x.owner = 0
           \/ x.owner = dpNow[d].owner
           \/ rec.pc # "idle" /\ x.owner = rec.dep.uid
    PROVE  Orders'
<1>1. dp \in [Device -> Versions(Process)] /\ dp[d] \in Versions(Process)
    BY DEF IInv, TypeOK
<1>2. Written(dp[d], x) = dp[d] \/ Written(dp[d], x) = Append(dp[d], x)
    BY <1>1, WrittenFacts
<1>3. CASE Written(dp[d], x) = dp[d]
    <2>1. dp' = dp
        BY <1>1, <1>3
    <2> QED
        BY <2>1, NothingWritten
<1>4. CASE Written(dp[d], x) = Append(dp[d], x)
    <2>1. dp' = [dp EXCEPT ![d] = Append(dp[d], x)]
        BY <1>4
    <2> QED
        BY <2>1, ProcessAppended, Zenon
<1> QED
    BY <1>2, <1>3, <1>4

\* The applied process belongs to the deployment Reconcile works on, the newest
\* so far.
LEMMA ApplyKeeps == ASSUME IInv, NEW d \in Device, Apply(d) PROVE IInv'
<1> DEFINE x == Applied(Live(dp[d]), rec.dep, rec.role[d])
<1>1. /\ rec.pc = "apply" /\ rec' = [rec EXCEPT !.todo = rec.todo \ {d}]
      /\ dp' = [dp EXCEPT ![d] = Written(dp[d], x)]
      /\ UNCHANGED <<switch, dep, queued, used>>
    BY DEF Apply
<1>2. x \in Process /\ x.owner = rec.dep.uid /\ x.owner # 0
    <2>1. Live(dp[d]) \in Process /\ rec.dep \in Deployment /\ rec.role[d] \in LabelValue \cup {Unset}
        BY NowTypes DEF IInv, TypeOK
    <2>2. rec.dep.uid # 0
        BY <1>1 DEF IInv, RecInv
    <2> QED
        BY <2>1, <2>2, AppliedType
<1> HIDE DEF x
<1>3. rec \in Rec
    BY DEF IInv, TypeOK, Rec
<1>4. rec' \in Rec /\ rec'.pc = rec.pc /\ rec'.dep = rec.dep /\ rec'.todo \subseteq rec.todo
    BY <1>1, <1>3 DEF Rec
<1>5. TypeOK'
    BY <1>1, <1>2, <1>4, ProcessWrittenType, Zenon DEF IInv, TypeOK, Rec
<1>6. Orders'
    BY <1>1, <1>2, <1>4, ProcessWritten, Zenon
<1> QED
    BY <1>5, <1>6 DEF IInv, Orders

\* A deleted process has no owner.
LEMMA CleanupDeleteKeeps == ASSUME IInv, NEW d \in Device, CleanupDelete(d) PROVE IInv'
<1>1. /\ rec.pc = "cleanup" /\ rec' = [rec EXCEPT !.todo = rec.todo \ {d}]
      /\ dp' = [dp EXCEPT ![d] = Written(dp[d], NoProcess)]
      /\ UNCHANGED <<switch, dep, queued, used>>
    BY DEF CleanupDelete
<1>2. NoProcess \in Process /\ NoProcess.owner = 0
    BY ConstantTypes
<1>3. rec \in Rec
    BY DEF IInv, TypeOK, Rec
<1>4. rec' \in Rec /\ rec'.pc = rec.pc /\ rec'.dep = rec.dep /\ rec'.todo \subseteq rec.todo
    BY <1>1, <1>3 DEF Rec
<1>5. TypeOK'
    BY <1>1, <1>2, <1>4, ProcessWrittenType, Zenon DEF IInv, TypeOK, Rec
<1>6. Orders'
    BY <1>1, <1>2, <1>4, ProcessWritten, Zenon
<1> QED
    BY <1>5, <1>6 DEF IInv, Orders

\* The step the argument turns on: a process that the cache shows as owned by
\* this deployment can since only have been deleted, not handed to another.
LEMMA CleanupListKeeps == ASSUME IInv, CleanupList PROVE IInv'
<1>1. /\ rec.pc = "apply" /\ rec' = [rec EXCEPT !.pc = "cleanup", !.todo = {d \in Device : Stale(d)}]
      /\ UNCHANGED <<switch, dep, dp, queued, used>>
    BY DEF CleanupList
<1>2. rec \in Rec
    BY DEF IInv, TypeOK, Rec
<1>3. /\ rec' \in Rec /\ rec'.pc = "cleanup" /\ rec'.dep = rec.dep
      /\ rec'.todo = {d \in Device : Stale(d)}
    BY <1>1, <1>2, Zenon DEF Rec
<1>4. TypeOK'
    BY <1>1, <1>3, Zenon DEF IInv, TypeOK, Rec
<1>5. OrderInv' /\ RecInv'
    BY <1>1, <1>3 DEF IInv, OrderInv, RecInv
<1>6. CleanupInv'
    <2> SUFFICES ASSUME NEW d \in Device, Stale(d)
                 PROVE  dpNow[d].owner \in {0, rec.dep.uid}
        BY <1>1, <1>3 DEF CleanupInv, dpNow
    <2>1. /\ Len(dp[d]) \in Nat /\ Len(dp[d]) > 0
          /\ dpNow[d] = dp[d][Len(dp[d])] /\ dpSeen[d] = dp[d][1]
          /\ \A i \in 1 .. Len(dp[d]) : dp[d][i].owner \in Nat
        <3>1. dp[d] \in Versions(Process)
            BY DEF IInv, TypeOK
        <3>2. dpNow[d] = Live(dp[d]) /\ dpSeen[d] = Cached(dp[d])
            BY NowTypes DEF IInv
        <3> QED
            BY <3>1, <3>2, VersionFacts, FieldTypes, Zenon
    <2>2. dpSeen[d].owner = rec.dep.uid /\ dpSeen[d].owner # 0
        BY DEF Stale
    <2>3. dpNow[d].owner <= rec.dep.uid
        BY <1>1, <2>1 DEF IInv, RecInv, OwnersUpTo
    <2>4. dpNow[d].owner # 0 => dpSeen[d].owner <= dpNow[d].owner
        BY <2>1, <2>2 DEF IInv, OrderInv, OwnersInOrder
    <2>5. dpNow[d].owner \in Nat /\ rec.dep.uid \in Nat
        BY NowTypes DEF IInv
    <2> QED
        BY <2>2, <2>3, <2>4, <2>5
<1> QED
    BY <1>4, <1>5, <1>6 DEF IInv

\* The status patch leaves the UID alone.
LEMMA UpdateStatusKeeps == ASSUME IInv, UpdateStatus PROVE IInv'
<1> DEFINE base == Base(rec.dep.status, NewStatus)
           x == [depNow EXCEPT !.status = MergePatch(depNow.status, base, NewStatus)]
<1>1. rec' = NoReconcile /\ UNCHANGED <<switch, dp, used>>
    BY DEF UpdateStatus
<1>2. \/ depNow.uid # 0 /\ dep' = Written(dep, x) /\ UNCHANGED queued
      \/ queued' = (queued \/ NewStatus # base) /\ UNCHANGED dep
    BY DEF UpdateStatus
<1>3. x \in Deployment /\ x.uid = depNow.uid
    <2>1. depNow \in Deployment /\ depNow.status \in Status /\ rec.dep.status \in Status
        BY NowTypes DEF IInv, TypeOK, Deployment
    <2>2. MergePatch(depNow.status, base, NewStatus) \in Status
        BY <2>1, NewStatusType, PatchType DEF IInv
    <2> QED
        BY <2>1, <2>2 DEF Deployment
<1> HIDE DEF x, base
<1>4. dep \in Versions(Deployment) /\ used.uid \in Nat
    BY NowTypes DEF IInv, TypeOK
<1>5. dep' = dep \/ dep' = Append(dep, x)
    BY <1>2, <1>3, <1>4, WrittenFacts
<1>6. TypeOK'
    <2>1. dep' \in Versions(Deployment)
        BY <1>3, <1>4, <1>5, AppendFacts, Zenon
    <2>2. queued' \in BOOLEAN
        BY <1>2, Zenon DEF IInv, TypeOK
    <2> QED
        BY <1>1, <2>1, <2>2, ConstantTypes DEF IInv, TypeOK, Rec
<1>7. Orders'
    <2>1. CASE dep' = dep
        BY <1>1, <2>1, ConstantTypes, NothingWritten
    <2>2. CASE dep' = Append(dep, x)
        <3>1. depNow.uid <= used.uid
            <4>1. Len(dep) \in Nat /\ Len(dep) > 0 /\ depNow = dep[Len(dep)]
                BY <1>4, VersionFacts, Zenon DEF depNow
            <4> QED
                BY <4>1 DEF IInv, OrderInv, UidsInOrder
        <3> QED
            BY <1>1, <1>3, <1>4, <2>2, <3>1, DeploymentAppended
    <2> QED
        BY <1>5, <2>1, <2>2
<1> QED
    BY <1>6, <1>7 DEF IInv, Orders

(***************************************************************************)
(* The environment.                                                        *)
(***************************************************************************)
\* UIDs of the deployment are below the next one.
LEMMA LiveUidBound == ASSUME IInv PROVE depNow.uid <= used.uid
<1>1. Len(dep) \in Nat /\ Len(dep) > 0 /\ depNow = dep[Len(dep)]
    BY VersionFacts, Zenon DEF IInv, TypeOK, depNow
<1> QED
    BY <1>1 DEF IInv, OrderInv, UidsInOrder

\* A user's change of the deployment.
LEMMA DeploymentChanged ==
    ASSUME IInv, NEW x \in Deployment, dep' = Append(dep, x), UNCHANGED <<switch, dp, queued, rec>>,
           NEW bound \in {"uid", "changes"}, NEW limit \in Nat, Spend(bound, limit),
           x.uid \in {0, depNow.uid} \/ (bound = "uid" /\ x.uid = used.uid + 1)
    PROVE  IInv'
<1>1. /\ used' \in Used /\ used.uid \in Nat /\ used'.uid \in Nat /\ used.uid <= used'.uid
      /\ bound = "uid" => used'.uid = used.uid + 1
    BY SpendFacts DEF IInv
<1>2. TypeOK'
    BY <1>1, AppendFacts DEF IInv, TypeOK, Used
<1>3. x.uid <= used'.uid
    BY <1>1, LiveUidBound, NowTypes DEF IInv
<1>4. x.uid # 0 => x.uid = depNow.uid \/ used.uid < x.uid
    BY <1>1
<1>5. Orders'
    BY <1>1, <1>3, <1>4, DeploymentAppended
<1> QED
    BY <1>2, <1>5 DEF IInv, Orders

\* A new deployment has a UID above all others.
LEMMA CreateDeploymentKeeps ==
    ASSUME IInv, NEW t \in Template, NEW sel \in Selector, CreateDeployment(t, sel)
    PROVE  IInv'
<1> DEFINE x == [uid |-> used.uid + 1, generation |-> 1, template |-> t, selector |-> sel,
                 status |-> NoStatus]
<1>1. x \in Deployment /\ x.uid = used.uid + 1
    <2>1. used.uid + 1 \in Nat
        BY NowTypes DEF IInv
    <2>2. NoStatus \in Status
        BY ConstantTypes
    <2>3. QED
        BY <2>1, <2>2 DEF Deployment
<1>2. dep' = Append(dep, x) /\ Spend("uid", MaxUid) /\ UNCHANGED <<switch, dp, queued, rec>>
    BY DEF CreateDeployment
<1> HIDE DEF x
<1> QED
    BY <1>1, <1>2, DeploymentChanged, ControllerAssumption

\* A changed deployment is a deployment.
LEMMA ChangedType ==
    ASSUME NEW a \in Deployment, NEW t \in Template, NEW sel \in Selector
    PROVE  LET x == [a EXCEPT !.generation = a.generation + 1, !.template = t, !.selector = sel]
           IN  x \in Deployment /\ x.uid = a.uid
<1> DEFINE b == [a EXCEPT !.generation = a.generation + 1]
           c == [b EXCEPT !.template = t]
           x == [c EXCEPT !.selector = sel]
<1>1. a.generation + 1 \in Nat
    BY DEF Deployment
<1>2. b \in Deployment /\ b.uid = a.uid
    BY <1>1 DEF Deployment
<1>3. c \in Deployment /\ c.uid = b.uid
    <2> HIDE DEF b
    <2> QED
        BY <1>2 DEF Deployment
<1>4. x \in Deployment /\ x.uid = c.uid
    <2> HIDE DEF c
    <2> QED
        BY <1>3 DEF Deployment
<1> QED
    BY <1>2, <1>3, <1>4

\* A change of the deployment keeps its UID.
LEMMA ChangeDeploymentKeeps ==
    ASSUME IInv, NEW t \in Template, NEW sel \in Selector, ChangeDeployment(t, sel)
    PROVE  IInv'
<1> DEFINE x == [depNow EXCEPT !.generation = depNow.generation + 1, !.template = t, !.selector = sel]
<1>1. x \in Deployment /\ x.uid = depNow.uid
    <2>1. depNow \in Deployment
        BY NowTypes DEF IInv
    <2> QED
        BY <2>1, ChangedType, Zenon
<1>2. dep' = Append(dep, x) /\ Spend("changes", MaxChanges) /\ UNCHANGED <<switch, dp, queued, rec>>
    BY DEF ChangeDeployment
<1> HIDE DEF x
<1> QED
    BY <1>1, <1>2, DeploymentChanged, ControllerAssumption

\* A deleted deployment has no UID.
LEMMA DeleteDeploymentKeeps == ASSUME IInv, DeleteDeployment PROVE IInv'
    BY ConstantTypes, DeploymentChanged, ControllerAssumption DEF DeleteDeployment

\* Switches have no part in the order of UIDs.
LEMMA ChangeSwitchKeeps ==
    ASSUME IInv, NEW d \in Device, NEW value \in SwitchState, ChangeSwitch(d, value)
    PROVE  IInv'
<1>1. /\ switch' = [switch EXCEPT ![d] = Append(switch[d], value)] /\ Spend("changes", MaxChanges)
      /\ UNCHANGED <<dep, dp, queued, rec>>
    BY DEF ChangeSwitch
<1>2. used' \in Used /\ used'.uid = used.uid
    BY <1>1, SpendFacts, ControllerAssumption DEF IInv
<1>3. TypeOK'
    <2>1. switch \in [Device -> Versions(SwitchState)] /\ switch[d] \in Versions(SwitchState)
        BY DEF IInv, TypeOK
    <2>2. Append(switch[d], value) \in Versions(SwitchState)
        BY <2>1, AppendFacts
    <2>3. switch' \in [Device -> Versions(SwitchState)]
        BY <1>1, <2>1, <2>2
    <2> QED
        BY <1>1, <1>2, <2>3 DEF IInv, TypeOK, Used
<1>4. Orders'
    BY <1>1, <1>2, NothingWritten
<1> QED
    BY <1>3, <1>4 DEF IInv, Orders

\* A process deleted by a user or the garbage collector has no owner.
LEMMA RemoveProcessKeeps ==
    ASSUME IInv, NEW d \in Device, RemoveProcess(d), used' \in Used, used'.uid = used.uid
    PROVE  IInv'
<1>1. dp' = [dp EXCEPT ![d] = Append(dp[d], NoProcess)] /\ UNCHANGED <<switch, dep, queued, rec>>
    BY DEF RemoveProcess
<1>2. TypeOK'
    BY <1>1, ConstantTypes, ProcessWrittenType, Zenon DEF IInv, TypeOK, Used
<1>3. Orders'
    BY <1>1, ConstantTypes, ProcessAppended, Zenon
<1> QED
    BY <1>2, <1>3 DEF IInv, Orders

\* A report of the gateway keeps the owner of a process.
LEMMA ReportKeeps ==
    ASSUME IInv, NEW d \in Device, NEW t \in Template, NEW ready \in BOOLEAN, Report(d, t, ready)
    PROVE  IInv'
<1> DEFINE x == [dpNow[d] EXCEPT !.observed = t, !.ready = ready]
<1>1. /\ dp' = [dp EXCEPT ![d] = Written(dp[d], x)] /\ Spend("reports", MaxReports)
      /\ UNCHANGED <<switch, dep, queued, rec>>
    BY DEF Report
<1>2. x \in Process /\ x.owner = dpNow[d].owner /\ x.owner # 0
    <2>1. dpNow[d] \in Process /\ dpNow[d].owner # 0
        BY NowTypes DEF IInv, Report
    <2> QED
        BY <2>1, Zenon DEF Process
<1> HIDE DEF x
<1>3. used' \in Used /\ used'.uid = used.uid
    BY <1>1, SpendFacts, ControllerAssumption DEF IInv
<1>4. TypeOK'
    BY <1>1, <1>2, <1>3, ProcessWrittenType, Zenon DEF IInv, TypeOK, Used
<1>5. Orders'
    BY <1>1, <1>2, <1>3, ProcessWritten, Zenon
<1> QED
    BY <1>4, <1>5 DEF IInv, Orders

(***************************************************************************)
(* The invariant.                                                          *)
(***************************************************************************)
\* There is nothing at the start.
LEMMA InitIInv == Init => IInv
<1> SUFFICES ASSUME Init PROVE IInv
    OBVIOUS
<1>1. /\ dep = <<NoDeployment>> /\ dp = [d \in Device |-> <<NoProcess>>] /\ rec = NoReconcile
      /\ queued = FALSE /\ used = [uid |-> 0, changes |-> 0, reports |-> 0, faults |-> 0]
    BY DEF Init
<1>2. TypeOK
    <2>1. PICK value \in [Device -> SwitchState] : switch = [d \in Device |-> <<value[d]>>]
        BY DEF Init
    <2>2. \A d \in Device : <<value[d]>> \in Versions(SwitchState)
        BY DEF Versions
    <2>3. switch \in [Device -> Versions(SwitchState)]
        BY <2>1, <2>2
    <2>4. <<NoDeployment>> \in Versions(Deployment) /\ <<NoProcess>> \in Versions(Process)
        BY ConstantTypes DEF Versions
    <2>5. used \in Used
        BY <1>1 DEF Used
    <2>6. dep \in Versions(Deployment) /\ dp \in [Device -> Versions(Process)]
        BY <1>1, <2>4, Zenon
    <2>7. rec \in Rec /\ queued \in BOOLEAN
        BY <1>1, ConstantTypes, Zenon
    <2> QED
        BY <2>3, <2>5, <2>6, <2>7 DEF TypeOK, Rec, Used
<1>3. Len(dep) = 1 /\ dep[1].uid = 0
    BY <1>1, ConstantTypes
<1>4. \A d \in Device : Len(dp[d]) = 1 /\ dp[d][1].owner = 0
    BY <1>1, ConstantTypes
<1>5. OrderInv
    BY <1>1, <1>3, <1>4 DEF OrderInv, UidsInOrder, OwnersInOrder, OwnersBefore, Before
<1>6. RecInv /\ CleanupInv
    BY <1>1, ConstantTypes DEF RecInv, CleanupInv
<1> QED
    BY <1>2, <1>5, <1>6 DEF IInv

\* Every step keeps the invariant, one action after another.
LEMMA NextIInv == IInv /\ [Next]_vars => IInv'
<1> SUFFICES ASSUME IInv, [Next]_vars PROVE IInv'
    OBVIOUS
<1>1. CASE UNCHANGED vars
    <2>1. TypeOK'
        BY <1>1 DEF IInv, TypeOK, vars
    <2>2. Orders'
        BY <1>1, NothingWritten DEF vars
    <2> QED
        BY <2>1, <2>2 DEF IInv, Orders
<1>2. CASE Reconcile
    BY <1>2, BeginKeeps, CleanupListKeeps, UpdateStatusKeeps, ApplyKeeps, CleanupDeleteKeeps DEF Reconcile
<1>3. CASE Environment
    <2>1. \A d \in Device : DeleteProcess(d) => IInv'
        BY SpendFacts, RemoveProcessKeeps, ControllerAssumption DEF DeleteProcess, IInv
    <2>2. \A d \in Device : CollectGarbage(d) => IInv'
        BY RemoveProcessKeeps DEF CollectGarbage, IInv, TypeOK, Used
    <2> QED
        BY <1>3, <2>1, <2>2, CreateDeploymentKeeps, ChangeDeploymentKeeps, DeleteDeploymentKeeps,
           ChangeSwitchKeeps, ReportKeeps DEF Environment
<1> QED
    BY <1>1, <1>2, <1>3, CallFailsKeeps, RestartControllerKeeps, DeploymentEventKeeps,
       SwitchEventKeeps, ProcessEventKeeps DEF Next

\* The order of UIDs and owners holds in every reachable state of the
\* controller.
THEOREM Invariance == Spec => []IInv
    BY InitIInv, NextIInv, PTL DEF Spec

\* Every variable of the controller keeps its type, so that no count of a
\* deployment's status goes below zero (the clamp in updateStatus).
THEOREM TypeCorrect == Spec => []TypeOK
<1>1. IInv => TypeOK
    BY DEF IInv
<1> QED
    BY <1>1, Invariance, PTL

(***************************************************************************)
(* Reconcile and the processes of other deployments.                       *)
(***************************************************************************)
TouchesOwnStep ==
    \A d \in Device :
        rec.pc # "idle" /\ rec' # rec /\ dpNow'[d] # dpNow[d] =>
            /\ dpNow[d].owner <= rec.dep.uid
            /\ dpNow'[d].owner = 0 => dpNow[d].owner = rec.dep.uid

\* A step of Reconcile that writes a process.
LEMMA TouchesOwnWrite ==
    ASSUME IInv, NEW d \in Device, Apply(d) \/ CleanupDelete(d), rec.pc # "idle",
           NEW e \in Device, dpNow'[e] # dpNow[e]
    PROVE  /\ dpNow[e].owner <= rec.dep.uid
           /\ dpNow'[e].owner = 0 => dpNow[e].owner = rec.dep.uid
<1>1. /\ dp \in [Device -> Versions(Process)] /\ dp[d] \in Versions(Process)
      /\ dpNow[d] = Live(dp[d]) /\ dpNow[d] \in Process
      /\ dpNow[d].owner \in Nat /\ rec.dep.uid \in Nat
    BY NowTypes, Zenon DEF IInv, TypeOK
<1>2. e = d
    <2>1. \A f \in Device : f # d => dp'[f] = dp[f]
        BY <1>1 DEF Apply, CleanupDelete
    <2> QED
        BY <2>1 DEF dpNow
<1>3. dpNow[d].owner <= rec.dep.uid /\ (dpNow[d].owner = 0 => dpNow[d] = NoProcess)
    <2>1. Len(dp[d]) \in Nat /\ Len(dp[d]) > 0 /\ dpNow[d] = dp[d][Len(dp[d])]
        BY <1>1, VersionFacts, Zenon
    <2>2. dpNow[d].owner <= rec.dep.uid
        BY <2>1 DEF IInv, RecInv, OwnersUpTo
    <2>3. dpNow[d].owner = 0 => dpNow[d] = NoProcess
        BY <2>1 DEF IInv, OrderInv, OwnersInOrder
    <2> QED
        BY <2>2, <2>3
<1>4. CASE Apply(d)
    <2> DEFINE x == Applied(Live(dp[d]), rec.dep, rec.role[d])
    <2>1. x \in Process /\ x.owner = rec.dep.uid
        <3>1. rec.dep \in Deployment /\ rec.role[d] \in LabelValue \cup {Unset}
            BY DEF IInv, TypeOK
        <3> QED
            BY <1>1, <3>1, AppliedType
    <2>2. dp'[d] = Written(dp[d], x)
        BY <1>1, <1>4 DEF Apply
    <2> HIDE DEF x
    <2>3. dpNow'[d] = x
        BY <1>1, <2>1, <2>2, WrittenFacts DEF dpNow
    <2> QED
        BY <1>1, <1>2, <1>3, <2>1, <2>3
<1>5. CASE CleanupDelete(d)
    <2>1. dpNow[d].owner \in {0, rec.dep.uid}
        BY <1>5 DEF CleanupDelete, IInv, CleanupInv
    <2>2. dp'[d] = Written(dp[d], NoProcess)
        BY <1>1, <1>5 DEF CleanupDelete
    <2>3. dpNow'[d] = NoProcess
        BY <1>1, <2>2, ConstantTypes, WrittenFacts DEF dpNow
    <2>4. dpNow[d].owner # 0
        BY <1>2, <1>3, <2>3
    <2> QED
        BY <1>2, <1>3, <2>1, <2>4
<1> QED
    BY <1>4, <1>5

\* Only Apply and CleanupDelete change a process and the reconcile together.
LEMMA NextTouchesOwn == IInv /\ [Next]_vars => TouchesOwnStep
<1> SUFFICES ASSUME IInv, [Next]_vars, NEW e \in Device,
                    rec.pc # "idle", rec' # rec, dpNow'[e] # dpNow[e]
             PROVE  /\ dpNow[e].owner <= rec.dep.uid
                    /\ dpNow'[e].owner = 0 => dpNow[e].owner = rec.dep.uid
    BY DEF TouchesOwnStep
<1>1. dp' # dp
    BY DEF dpNow
<1>2. ~RestartController
    <2> SUFFICES ASSUME RestartController PROVE dpNow'[e] = dpNow[e]
        OBVIOUS
    <2>1. dp'[e] = <<dpNow[e]>>
        BY DEF RestartController
    <2>2. dpNow'[e] = Live(dp'[e])
        BY DEF dpNow
    <2>3. \A v : Live(<<v>>) = v
        BY DEF Live
    <2> QED
        BY <2>1, <2>2, <2>3
<1>3. ~Environment
    BY Zenon DEF Environment, CreateDeployment, ChangeDeployment, DeleteDeployment, ChangeSwitch,
           DeleteProcess, CollectGarbage, RemoveProcess, Report
<1>4. \E d \in Device : Apply(d) \/ CleanupDelete(d)
    BY <1>1, <1>2, <1>3 DEF Next, vars, Reconcile, Begin, CleanupList, UpdateStatus, CallFails,
                            DeploymentEvent, SwitchEvent, ProcessEvent
<1> QED
    BY <1>4, TouchesOwnWrite

\* However far the caches lag and however often a deployment of this name is
\* deleted and created again, Reconcile takes no process from a newer
\* deployment, and cleanupStale deletes only those of its own.
THEOREM TouchesOwn == Spec => TouchesOnlyOwn
<1>1. IInv /\ [Next]_vars => [TouchesOwnStep]_vars
    BY NextTouchesOwn
<1>2. Spec => [][TouchesOwnStep]_vars
    BY <1>1, Invariance, PTL DEF Spec
<1> QED
    BY <1>2 DEF TouchesOnlyOwn, TouchesOwnStep
==============================================================================
