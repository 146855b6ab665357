--------------------------- MODULE AgentPassProofs ---------------------------
(***************************************************************************)
(* The actions of module Agent that start a pass, take an item, remove what *)
(* is no longer desired and end the pass keep IInv.                        *)
(***************************************************************************)
EXTENDS AgentItemProofs

(***************************************************************************)
(* The actions between items.                                              *)
(***************************************************************************)
\* What is known when no item is in hand.
LEMMA Between ==
    ASSUME IInv, pass.pc \notin ItemPc \cup RemovalPc
    PROVE  /\ TypeOK /\ PassInv /\ pass \in Pass /\ host \in Hosts /\ pass.key = None /\ None \notin Key
           /\ managed \in [Key -> Managed] /\ saved \in [Key -> Managed]
           /\ Keeping => Kept
           /\ Faithful => Sound
  BY AgentAssumption DEF IInv, TypeOK, PassInv, Hosts, KeptInv, SoundInv

\* NoPass is a pass with nothing in it.
LEMMA NoPassFields ==
    /\ NoPass \in Pass /\ NoPass.pc = "idle" /\ NoPass.key = None /\ NoPass.todo = {}
    /\ NoPass.now \in [Key -> Managed] /\ NoPass.obs \in [Key -> Observations]
    /\ \A k \in Key : ~NoPass.now[k].in /\ NoPass.obs[k] = "none"
  <1>1. Unmanaged \in Managed BY DEF Unmanaged, Managed
  <1>2. NothingManaged \in [Key -> Managed] /\ \A k \in Key : ~NothingManaged[k].in
    BY <1>1 DEF NothingManaged, Unmanaged
  <1>3. NoItems \in [Key -> ProcessSpec \cup {NoSpec}] BY DEF NoItems
  <1>4. NoObservations \in [Key -> Observations] /\ \A k \in Key : NoObservations[k] = "none"
    BY DEF NoObservations, Observations
  <1> QED BY <1>1, <1>2, <1>3, <1>4 DEF NoPass, Pass, Observations

\* A poll starts a pass in which everything is to be done.
LEMMA PollStep == ASSUME IInv, Poll PROVE IInv'
  <1> DEFINE items == IF lastETag = ETag(desired) THEN lastDesired ELSE desired
  <1>1. /\ pass.pc = "idle" /\ lastETag' = ETag(desired) /\ lastDesired' = items
        /\ pass' = [NoPass EXCEPT !.pc = "next", !.items = items, !.todo = Present(items),
                                  !.first = lastETag = NoETag]
        /\ UNCHANGED <<desired, managed, saved, recent, host, reported, faults, left>>
    BY DEF Poll, NoFault
  <1>2. /\ TypeOK /\ PassInv /\ host \in Hosts /\ pass.key = None /\ None \notin Key
        /\ Keeping => Kept
        /\ Faithful => Sound
    BY <1>1, Between DEF ItemPc, RemovalPc, Acting
  <1>3. items \in [Key -> ProcessSpec \cup {NoSpec}] BY <1>2 DEF TypeOK
  <1>4. /\ pass' \in Pass /\ pass'.pc = "next" /\ pass'.key = None /\ pass'.items = items
        /\ pass'.todo = Present(items) /\ pass'.now = NoPass.now /\ pass'.obs = NoPass.obs
    <2>1. Present(items) \subseteq Key BY DEF Present
    <2> HIDE DEF items
    <2> QED BY <1>1, <1>3, <2>1, NoPassFields, Zenon DEF Pass
  <1>5. \A k \in Present(items) : items[k] \in ProcessSpec BY <1>3 DEF Present
  <1>6. ETag(desired) = ETag(items)
    <2>1. CASE lastETag = ETag(desired)
      <3>1. lastETag \in {NoETag, ETag(lastDesired)} BY <1>2 DEF TypeOK
      <3>2. ETag(desired) # NoETag BY DEF ETag, NoETag
      <3> QED BY <2>1, <3>1, <3>2
    <2> QED BY <2>1
  <1>7. TypeOK' BY <1>1, <1>2, <1>3, <1>4, <1>6 DEF TypeOK
  <1> HIDE DEF items
  <1>8. Present(items) \subseteq Key BY DEF Present
  <1>9. PassInv'
    BY <1>1, <1>2, <1>4, <1>5, <1>8, NoPassFields DEF PassInv, ItemPc, RemovalPc, Acting
  <1>10. pass = NoPass BY <1>1, <1>2 DEF PassInv
  <1>11. Keeping' => Keeping /\ Kept'
    BY <1>1, <1>2, <1>4, <1>10, NoPassFields DEF Keeping, StateLost, Kept, RemovalPc, Acting
  <1>12. Faithful' => Faithful /\ Sound'
    <2>1. Faithful' => Faithful BY <1>1 DEF Faithful, StateLost
    <2>2. Sound => Sound'
      <3>1. ASSUME Sound, NEW k \in Key
            PROVE  /\ ~Idle(host[k]) => managed[k].in /\ host[k].unit # None
                   /\ host[k].unit = None \/ host[k].loaded \in {None, host[k].unit}
                   /\ Running(host[k]) => Fresh(host[k])
        BY <1>2, <1>10, <3>1, NoPassFields DEF Sound
      <3> QED BY <1>1, <1>4, <3>1, NoPassFields DEF Sound, RemovalPc, Acting
    <2> QED BY <1>2, <2>1, <2>2
  <1> QED BY <1>7, <1>9, <1>11, <1>12 DEF IInv, KeptInv, SoundInv

\* An item of another backend is passed over with its entry; any other one is
\* taken in hand.
LEMMA TakeItemStep == ASSUME IInv, NEW k \in Key, TakeItem(k) PROVE IInv'
  <1> DEFINE taken == [pass EXCEPT !.todo = @ \ {k}, !.key = k, !.entry = carryManaged(managed[k])]
             over == [pass EXCEPT !.todo = @ \ {k}, !.obs[k] = "stopped",
                                  !.now[k] = carryManaged(managed[k])]
  <1>1. /\ pass.pc = "next" /\ k \in pass.todo
        /\ UNCHANGED <<desired, agentMemory, recent, host, reported>>
    BY DEF TakeItem
  <1>2. /\ TypeOK /\ PassInv /\ pass \in Pass /\ host \in Hosts /\ pass.key = None /\ None \notin Key
        /\ managed \in [Key -> Managed]
        /\ Keeping => Kept
        /\ Faithful => Sound
    BY <1>1, Between DEF ItemPc, RemovalPc, Acting
  <1>3. FaultsGrow /\ (Keeping' => Keeping) /\ (Faithful' => Faithful)
    BY <1>2, FaultType, Monotone DEF TakeItem, Fault
  <1>4. carryManaged(managed[k]) \in Managed /\ carryManaged(managed[k]).in
    BY <1>2, Zenon DEF carryManaged, Managed
  <1>5. /\ managed' = managed /\ saved' = saved /\ host' = host
        /\ pass.now \in [Key -> Managed] /\ pass.obs \in [Key -> Observations]
        /\ pass.todo \subseteq Key /\ pass.items \in [Key -> ProcessSpec \cup {NoSpec}]
        /\ pass.items[k] \in ProcessSpec /\ ~pass.now[k].in /\ pass.obs[k] # "running"
    BY <1>1, <1>2 DEF agentMemory, Pass, Observations, PassInv
  <1>6. CASE pass' = over
    <2> DEFINE c == carryManaged(managed[k])
               p == [pass EXCEPT !.todo = pass.todo \ {k}]
               q == [p EXCEPT !.obs = [pass.obs EXCEPT ![k] = "stopped"]]
               r == [q EXCEPT !.now = [pass.now EXCEPT ![k] = c]]
    <2>1. /\ p \in Pass /\ p.pc = "next" /\ p.key = None /\ p.items = pass.items
          /\ p.todo = pass.todo \ {k} /\ p.now = pass.now /\ p.obs = pass.obs
      BY <1>1, <1>2 DEF Pass
    <2>2. /\ [pass.obs EXCEPT ![k] = "stopped"] \in [Key -> Observations]
          /\ [pass.now EXCEPT ![k] = c] \in [Key -> Managed]
      BY <1>4, <1>5 DEF Observations
    <2>3. pass' = r
      <3>1. pass' = [[p EXCEPT !.obs[k] = "stopped"] EXCEPT !.now[k] = c] BY <1>6
      <3>2. [p EXCEPT !.obs[k] = "stopped"] = q BY <2>1
      <3>3. q.now = pass.now BY <2>1, <2>2 DEF Pass, Observations
      <3> QED BY <3>1, <3>2, <3>3
    <2> HIDE DEF p
    <2>4. /\ q \in Pass /\ q.pc = "next" /\ q.key = None /\ q.items = pass.items
          /\ q.todo = pass.todo \ {k} /\ q.obs = [pass.obs EXCEPT ![k] = "stopped"]
      BY <2>1, <2>2 DEF Pass, Observations
    <2> HIDE DEF q
    <2>5. /\ r \in Pass /\ r.pc = "next" /\ r.key = None /\ r.items = pass.items
          /\ r.todo = pass.todo \ {k} /\ r.obs = [pass.obs EXCEPT ![k] = "stopped"]
          /\ r.now = [pass.now EXCEPT ![k] = c]
      BY <2>2, <2>4 DEF Pass
    <2> HIDE DEF r
    <2>6. /\ pass'.now[k].in /\ pass'.obs[k] = "stopped"
          /\ \A j \in Key \ {k} : pass'.now[j] = pass.now[j] /\ pass'.obs[j] = pass.obs[j]
      BY <1>4, <1>5, <2>3, <2>5
    <2>7. TypeOK' BY <1>1, <1>2, <1>3, <2>3, <2>5 DEF TypeOK, agentMemory, FaultsGrow, ETag, NoETag
    <2>8. PassInv'
      BY <1>1, <1>2, <1>3, <1>5, <2>3, <2>5, <2>6
      DEF PassInv, ItemPc, RemovalPc, Acting, FaultsGrow
    <2>9. Kept => Kept'
      BY <1>1, <1>2, <1>5, <2>3, <2>5, <2>6 DEF Kept, RemovalPc, Acting
    <2>10. ASSUME Sound PROVE Sound'
      <3>1. /\ pass'.pc = "next" /\ pass'.key = None /\ pass'.items = pass.items
            /\ host' = host /\ managed' = managed
        BY <1>5, <2>3, <2>5
      <3>2. \A j \in Key : /\ pass.now[j].in => pass'.now[j].in
                           /\ pass'.obs[j] = "running" => pass.obs[j] = "running"
        BY <2>6
      <3>3. ~LoadedBehind /\ ~ProcessBehind BY <1>1 DEF LoadedBehind, ProcessBehind
      <3>4. pass'.pc \notin {"discard", "discarded", "removals", "unit", "env", "reload", "act"}
                            \cup RemovalPc \cup Acting
        BY <3>1 DEF RemovalPc, Acting
      <3>5. /\ \A j \in Key : ~Idle(host[j]) => managed[j].in \/ pass'.now[j].in
            /\ \A j \in Key : ~Idle(host[j]) => host[j].unit # None
        BY <1>2, <2>10, <3>2, Zenon DEF Sound
      <3>6. /\ \A j \in Key : host[j].unit = None \/ host[j].loaded \in {None, host[j].unit}
            /\ \A j \in Key : Running(host[j]) => Fresh(host[j])
        BY <2>10, <3>3, Zenon DEF Sound
      <3>7. \A j \in Key : pass.obs[j] = "running" =>
                host[j].unit = UnitOf[pass.items[j]] /\ host[j].env = EnvOf[pass.items[j]]
        BY <2>10, Zenon DEF Sound
      <3>8. \A j \in Key : pass'.obs[j] = "running" =>
                host[j].unit = UnitOf[pass'.items[j]] /\ host[j].env = EnvOf[pass'.items[j]]
        BY <3>1, <3>2, <3>7
      <3> QED BY <3>1, <3>4, <3>5, <3>6, <3>8, Zenon DEF Sound
    <2> QED BY <1>2, <1>3, <2>7, <2>8, <2>9, <2>10 DEF IInv, KeptInv, SoundInv
  <1>7. ASSUME NEW pc \in {"unit", "fail", "invalid"}, pass' = [taken EXCEPT !.pc = pc]
        PROVE  IInv'
    <2>1. /\ pass' \in Pass /\ pass'.pc = pc /\ pass'.key = k /\ pass'.items = pass.items
          /\ pass'.todo = pass.todo \ {k} /\ pass'.now = pass.now /\ pass'.obs = pass.obs
          /\ pass'.entry.in
      BY <1>2, <1>4, <1>7, Zenon DEF Pass
    <2>2. TypeOK' BY <1>1, <1>2, <1>3, <2>1 DEF TypeOK, agentMemory, FaultsGrow, ETag, NoETag
    <2>4. PassInv'
      BY <1>1, <1>2, <1>3, <1>5, <2>1
      DEF PassInv, ItemPc, RemovalPc, Acting, FaultsGrow
    <2>5. Kept => Kept'
      BY <1>1, <1>2, <1>5, <2>1 DEF Kept, RemovalPc, Acting
    <2>6. ASSUME Sound PROVE Sound'
      <3>1. /\ pass'.pc \in {"unit", "fail", "invalid"} /\ pass'.key = k /\ pass'.items = pass.items
            /\ pass'.now = pass.now /\ pass'.obs = pass.obs
            /\ host' = host /\ managed' = managed
        BY <1>5, <1>7, <2>1
      <3>2. Entry' = managed[k] /\ ~pass.now[k].in BY <1>5, <3>1 DEF Entry
      <3>3. ~LoadedBehind /\ ~ProcessBehind BY <1>1 DEF LoadedBehind, ProcessBehind
      <3> QED BY <1>2, <2>6, <3>1, <3>2, <3>3, Zenon DEF Sound, RemovalPc, Acting
    <2> QED BY <1>2, <1>3, <2>2, <2>4, <2>5, <2>6 DEF IInv, KeptInv, SoundInv
  <1> QED BY <1>6, <1>7 DEF TakeItem

\* When all items are done, a unit that managedNow lacks and the removal loop
\* will not visit is not a managed one.
LEMMA RemovalsStartStep == ASSUME IInv, RemovalsStart PROVE IInv'
  <1>1. /\ pass.pc = "next" /\ pass.todo = {}
        /\ pass' = [pass EXCEPT !.pc = "removals", !.todo = Obsolete]
        /\ UNCHANGED <<desired, agentMemory, recent, host, reported, faults, left>>
    BY DEF RemovalsStart, NoFault
  <1>2. /\ TypeOK /\ PassInv /\ pass \in Pass /\ host \in Hosts /\ pass.key = None /\ None \notin Key
        /\ Keeping => Kept
        /\ Faithful => Sound
    BY <1>1, Between DEF ItemPc, RemovalPc, Acting
  <1>3. /\ Obsolete \subseteq Key /\ \A k \in Obsolete : ~pass.now[k].in
        /\ \A k \in Key \ Obsolete : ~pass.now[k].in => ~managed[k].in
    BY DEF Obsolete
  <1>4. /\ pass' \in Pass /\ pass'.pc = "removals" /\ pass'.key = None /\ pass'.items = pass.items
        /\ pass'.todo = Obsolete /\ pass'.now = pass.now /\ pass'.obs = pass.obs
    BY <1>1, <1>2, <1>3, Zenon DEF Pass
  <1>5. managed' = managed /\ saved' = saved /\ host' = host /\ faults' = faults BY <1>1 DEF agentMemory
  <1>6. TypeOK' BY <1>1, <1>2, <1>4 DEF TypeOK, agentMemory, ETag, NoETag
  <1>7. PassInv' BY <1>2, <1>3, <1>4, <1>5 DEF PassInv, ItemPc, RemovalPc, Acting
  <1>8. Kept => Kept' BY <1>1, <1>2, <1>3, <1>4, <1>5 DEF Kept, RemovalPc, Acting
  <1>9. Sound => Sound'
    BY <1>1, <1>2, <1>3, <1>4, <1>5 DEF Sound, RemovalPc, Acting, LoadedBehind, ProcessBehind
  <1>10. (Keeping' => Keeping) /\ (Faithful' => Faithful) BY <1>5 DEF Keeping, Faithful, StateLost
  <1> QED BY <1>2, <1>6, <1>7, <1>8, <1>9, <1>10 DEF IInv, KeptInv, SoundInv

\* The unit to remove is stopped, unless a fault is recorded.
LEMMA RemovalStopStep == ASSUME IInv, NEW k \in Key, RemovalStop(k) PROVE IInv'
  <1>1. /\ pass.pc = "removals" /\ k \in pass.todo
        /\ pass' = [pass EXCEPT !.pc = "remove", !.key = k, !.todo = @ \ {k}]
        /\ UNCHANGED <<desired, agentMemory, recent, reported>>
    BY DEF RemovalStop
  <1>2. /\ TypeOK /\ PassInv /\ pass \in Pass /\ host \in Hosts /\ pass.key = None /\ None \notin Key
        /\ Keeping => Kept
        /\ Faithful => Sound
    BY <1>1, Between DEF ItemPc, RemovalPc, Acting
  <1>3. FaultsGrow /\ (Keeping' => Keeping) /\ (Faithful' => Faithful)
    BY <1>2, FaultType, Monotone DEF RemovalStop, Fault
  <1>4. /\ pass' \in Pass /\ pass'.pc = "remove" /\ pass'.key = k /\ pass'.items = pass.items
        /\ pass'.todo = pass.todo \ {k} /\ pass'.now = pass.now /\ pass'.obs = pass.obs
    BY <1>1, <1>2, Zenon DEF Pass
  <1>5. managed' = managed /\ saved' = saved /\ ~pass.now[k].in /\ pass.obs[k] # "running"
    BY <1>1, <1>2 DEF agentMemory, PassInv
  <1>6. /\ host' \in Hosts /\ OthersKept(k)
        /\ Keeping' \/ Faithful' =>
             /\ host'[k].unit = host[k].unit
             /\ host[k].unit = None => host' = host
             /\ host[k].unit # None => Idle(host'[k]) /\ ~host'[k].enabled /\ host'[k].loaded = host[k].unit
    <2>1. CASE host' = QuietStop(k) BY <1>2, <2>1, StoppedUnit
    <2>2. CASE Fault("stop") /\ UNCHANGED host
      BY <1>2, <2>2 DEF OthersKept, SameUnit, Fault, Keeping, Faithful
    <2> QED BY <2>1, <2>2 DEF RemovalStop
  <1>7. TypeOK' BY <1>1, <1>2, <1>3, <1>4, <1>6 DEF TypeOK, agentMemory, FaultsGrow, Hosts, ETag, NoETag
  <1>8. PassInv'
    BY <1>1, <1>2, <1>3, <1>4, <1>5 DEF PassInv, ItemPc, RemovalPc, Acting, FaultsGrow
  <1>9. ASSUME Keeping' PROVE Kept'
    <2>1. \A j \in Key \ {k} : /\ Clean(host'[j]) <=> Clean(host[j])
                               /\ Idle(host'[j]) <=> Idle(host[j])
                               /\ host'[j].unit = host[j].unit
      BY <1>6 DEF OthersKept, SameUnit, Clean, Idle, Running
    <2>2. Kept BY <1>2, <1>3, <1>9
    <2>3. /\ Idle(host'[k]) /\ ~host'[k].enabled
          /\ host'[k].unit = None => Clean(host'[k])
      BY <1>6, <1>9, <2>2 DEF Kept, Clean
    <2> QED BY <1>1, <1>2, <1>4, <1>5, <2>1, <2>2, <2>3 DEF Kept, RemovalPc, Acting
  <1>10. ASSUME Faithful' PROVE Sound'
    <2>1. \A j \in Key \ {k} : /\ Running(host'[j]) <=> Running(host[j])
                               /\ Idle(host'[j]) <=> Idle(host[j])
                               /\ Fresh(host'[j]) <=> Fresh(host[j])
                               /\ host'[j].unit = host[j].unit /\ host'[j].env = host[j].env
                               /\ host'[j].loaded = host[j].loaded
                                  \/ (host[j].unit # None => host'[j].loaded = host[j].unit)
      BY <1>6 DEF OthersKept, SameUnit, Fresh, Idle, Running
    <2>2. Sound BY <1>2, <1>3, <1>10
    <2>3. /\ Idle(host'[k]) /\ ~Running(host'[k])
          /\ host'[k].unit = None \/ host'[k].loaded \in {None, host'[k].unit}
      BY <1>2, <1>6, <1>10, <2>2 DEF Sound, Idle
    <2> QED BY <1>1, <1>2, <1>4, <1>5, <2>1, <2>2, <2>3
            DEF Sound, RemovalPc, Acting
  <1> QED BY <1>7, <1>8, <1>9, <1>10 DEF IInv, KeptInv, SoundInv

\* What is known of the unit in the removal loop.
LEMMA InRemoval ==
    ASSUME IInv, pass.pc \in RemovalPc
    PROVE  /\ TypeOK /\ PassInv /\ pass \in Pass /\ host \in Hosts
           /\ pass.key \in Key /\ host[pass.key] \in Service /\ None \notin Key
           /\ ~pass.now[pass.key].in /\ pass.obs[pass.key] # "running"
           /\ Keeping => Kept
           /\ Faithful => Sound
  BY AgentAssumption DEF IInv, TypeOK, PassInv, Hosts, KeptInv, SoundInv, RemovalPc

\* The files of the stopped unit go.
LEMMA RemovalFilesStep == ASSUME IInv, RemovalFiles PROVE IInv'
  <1> DEFINE k == pass.key
  <1>1. /\ pass.pc = "remove" /\ pass.pc \in RemovalPc
        /\ pass' = IF host'[k].unit # host[k].unit
                   THEN [pass EXCEPT !.pc = "removed"] ELSE [pass EXCEPT !.pc = "removals", !.key = None]
        /\ UNCHANGED <<desired, agentMemory, recent, reported>>
    BY DEF RemovalFiles, RemovalPc
  <1>2. /\ TypeOK /\ PassInv /\ pass \in Pass /\ host \in Hosts
        /\ k \in Key /\ host[k] \in Service /\ None \notin Key
        /\ ~pass.now[k].in /\ pass.obs[k] # "running"
        /\ Keeping => Kept
        /\ Faithful => Sound
    BY <1>1, InRemoval
  <1>3. FaultsGrow /\ (Keeping' => Keeping) /\ (Faithful' => Faithful)
    BY <1>2, FaultType, Monotone DEF RemovalFiles, RemoveFails, Fault
  <1>4. /\ pass' \in Pass /\ pass'.items = pass.items /\ pass'.todo = pass.todo
        /\ pass'.now = pass.now /\ pass'.obs = pass.obs
        /\ \/ pass'.pc = "removed" /\ pass'.key = k
           \/ pass'.pc = "removals" /\ pass'.key = None
    BY <1>1, <1>2, Zenon DEF Pass
  <1>5. /\ host' \in Hosts /\ \A j \in Key \ {k} : host'[j] = host[j]
        /\ SameProcess(host'[k], host[k])
        /\ host'[k].unit \in {None, host[k].unit}
        /\ host' = RemoveFiles(host, k) => host'[k].unit = None /\ host'[k].env = None
    BY <1>2, RemovedFiles DEF RemovalFiles, RemoveFails
  <1>6. Keeping' => host' = RemoveFiles(host, k)
    BY DEF RemovalFiles, RemoveFails, Fault, Keeping
  <1>7. managed' = managed /\ saved' = saved BY <1>1 DEF agentMemory
  <1>8. TypeOK' BY <1>1, <1>2, <1>3, <1>4, <1>5 DEF TypeOK, agentMemory, FaultsGrow, Hosts, ETag, NoETag
  <1>9. pass.todo \subseteq Key BY <1>2 DEF Pass
  <1>10. PassInv'
    BY <1>1, <1>2, <1>3, <1>4, <1>7, <1>9 DEF PassInv, ItemPc, RemovalPc, Acting, FaultsGrow
  <1>11. ASSUME Keeping' PROVE Kept'
    <2>1. Kept BY <1>2, <1>3, <1>11
    <2>2. Clean(host'[k]) /\ Idle(host'[k])
      BY <1>1, <1>5, <1>6, <1>11, <2>1 DEF Kept, SameProcess, Clean, Idle, Running
    <2> QED BY <1>1, <1>2, <1>4, <1>5, <1>7, <2>1, <2>2 DEF Kept, RemovalPc, Acting
  <1>12. ASSUME Faithful' PROVE Sound'
    <2>1. Sound BY <1>2, <1>3, <1>12
    <2>2. /\ Idle(host'[k]) /\ ~Running(host'[k])
          /\ host'[k].unit = None \/ host'[k].loaded \in {None, host'[k].unit}
      BY <1>1, <1>2, <1>5, <2>1 DEF Sound, SameProcess, Idle, Running, RemovalPc, LoadedBehind
    <2>3. ~LoadedBehind /\ ~ProcessBehind BY <1>1 DEF LoadedBehind, ProcessBehind
    <2>4. \A j \in Key \ {k} : host'[j] = host[j] BY <1>5
    <2>5. pass'.pc \in {"removed", "removals"} /\ pass'.key \in {k, None}
      BY <1>4
    <2>6. \A j \in Key : Idle(host[j]) => Idle(host'[j]) BY <2>2, <2>4, Zenon
    <2>7. ASSUME NEW j \in Key, ~Idle(host'[j])
          PROVE  host'[j].unit # None /\ (managed[j].in \/ pass.now[j].in)
      <3>1. j # k /\ host'[j] = host[j] /\ ~Idle(host[j]) BY <2>2, <2>4, <2>7, Zenon
      <3>2. host[j].unit # None /\ (managed[j].in \/ pass.now[j].in \/ pass.key = j)
        BY <2>1, <3>1, Zenon DEF Sound
      <3> QED BY <3>1, <3>2, Zenon
    <2>8. \A j \in Key : ~pass.now[j].in /\ j \notin pass.todo => Idle(host'[j])
      BY <1>1, <2>1, <2>2, <2>6, Zenon DEF Sound
    <2>9. \A j \in Key :
             /\ host'[j].unit = None \/ host'[j].loaded \in {None, host'[j].unit}
             /\ Running(host'[j]) => Fresh(host'[j])
      BY <2>1, <2>2, <2>3, <2>4, Zenon DEF Sound
    <2>10. \A j \in Key : pass.obs[j] = "running" =>
             host'[j].unit = UnitOf[pass.items[j]] /\ host'[j].env = EnvOf[pass.items[j]]
      BY <1>2, <2>1, <2>4, Zenon DEF Sound
    <2>11. pass'.pc = "removed" => pass'.key = k BY <1>4
    <2>12. pass'.pc \notin {"discard", "discarded", "remove", "unit", "env", "reload"} \cup Acting
      BY <2>5 DEF Acting
    <2>13. pass'.pc \in {"discard", "discarded"} \cup RemovalPc => Idle(host'[pass'.key])
      BY <2>2, <2>11, <2>12, Zenon DEF RemovalPc
    <2>14. "act" \in Acting BY DEF Acting
    <2> QED BY <1>4, <1>7, <2>7, <2>8, <2>9, <2>10, <2>12, <2>13, <2>14, Zenon DEF Sound
  <1> QED BY <1>8, <1>10, <1>11, <1>12 DEF IInv, KeptInv, SoundInv

\* What is left of the removed unit is forgotten by systemd.
LEMMA RemovalReloadStep == ASSUME IInv, RemovalReload PROVE IInv'
  <1> DEFINE k == pass.key
  <1>1. /\ pass.pc = "removed" /\ pass.pc \in RemovalPc
        /\ pass' = [pass EXCEPT !.pc = "removals", !.key = None]
        /\ UNCHANGED <<desired, agentMemory, recent, reported>>
    BY DEF RemovalReload, RemovalPc
  <1>2. /\ TypeOK /\ PassInv /\ pass \in Pass /\ host \in Hosts
        /\ k \in Key /\ host[k] \in Service /\ None \notin Key
        /\ ~pass.now[k].in /\ pass.obs[k] # "running"
        /\ Keeping => Kept
        /\ Faithful => Sound
    BY <1>1, InRemoval
  <1>3. FaultsGrow /\ (Keeping' => Keeping) /\ (Faithful' => Faithful)
    BY <1>2, FaultType, Monotone DEF RemovalReload, Fault
  <1>4. /\ pass' \in Pass /\ pass'.pc = "removals" /\ pass'.key = None /\ pass'.items = pass.items
        /\ pass'.todo = pass.todo /\ pass'.now = pass.now /\ pass'.obs = pass.obs
    BY <1>1, <1>2, Zenon DEF Pass
  <1>5. /\ host' \in Hosts
        /\ \A j \in Key : /\ SameUnit(host'[j], host[j])
                          /\ \/ host'[j].loaded = host[j].loaded
                             \/ host[j].unit # None => host'[j].loaded = host[j].unit
    BY <1>2, ReloadFields DEF RemovalReload, SameUnit
  <1>6. managed' = managed /\ saved' = saved BY <1>1 DEF agentMemory
  <1>7. TypeOK' BY <1>1, <1>2, <1>3, <1>4, <1>5 DEF TypeOK, agentMemory, FaultsGrow, Hosts, ETag, NoETag
  <1>8. pass.todo \subseteq Key BY <1>2 DEF Pass
  <1>9. PassInv'
    BY <1>1, <1>2, <1>3, <1>4, <1>6, <1>8 DEF PassInv, ItemPc, RemovalPc, Acting, FaultsGrow
  <1>10. \A j \in Key : /\ Clean(host'[j]) <=> Clean(host[j])
                        /\ Running(host'[j]) <=> Running(host[j])
                        /\ Idle(host'[j]) <=> Idle(host[j])
                        /\ Fresh(host'[j]) <=> Fresh(host[j])
                        /\ host'[j].unit = host[j].unit /\ host'[j].env = host[j].env
    BY <1>5 DEF SameUnit, Clean, Idle, Running, Fresh
  <1>11. Kept => Kept' BY <1>1, <1>2, <1>4, <1>6, <1>10 DEF Kept, RemovalPc, Acting
  <1>12. Sound => Sound'
    BY <1>1, <1>2, <1>4, <1>5, <1>6, <1>10 DEF Sound, RemovalPc, Acting, LoadedBehind, ProcessBehind
  <1> QED BY <1>2, <1>3, <1>7, <1>9, <1>11, <1>12 DEF IInv, KeptInv, SoundInv

\* managed becomes managedNow: what it drops has been removed.
LEMMA CommitStep == ASSUME IInv, Commit PROVE IInv'
  <1>1. /\ pass.pc = "removals" /\ pass.todo = {} /\ managed' = pass.now
        /\ saved' = pass.now \/ ("persist" \in faults' /\ saved' = saved)
        /\ pass' = NoPass \/ pass' = [pass EXCEPT !.pc = "send"]
        /\ UNCHANGED <<desired, lastETag, lastDesired, recent, host, reported>>
    BY DEF Commit, GoTo, Fault
  <1>2. /\ TypeOK /\ PassInv /\ pass \in Pass /\ host \in Hosts /\ pass.key = None /\ None \notin Key
        /\ Keeping => Kept
        /\ Faithful => Sound
    BY <1>1, Between DEF ItemPc, RemovalPc, Acting
  <1>3. FaultsGrow /\ (Keeping' => Keeping) /\ (Faithful' => Faithful)
    BY <1>2, FaultType, Monotone DEF Commit, Fault
  <1>4. /\ pass' \in Pass /\ pass'.key = None /\ pass'.todo = {}
        /\ \/ pass' = NoPass /\ pass'.pc = "idle" /\ \A k \in Key : pass'.obs[k] = "none"
           \/ pass'.pc = "send" /\ pass'.items = pass.items /\ pass'.now = pass.now /\ pass'.obs = pass.obs
    <2>1. CASE pass' = NoPass BY <2>1, NoPassFields
    <2>2. CASE pass' = [pass EXCEPT !.pc = "send"] BY <1>1, <1>2, <2>2 DEF Pass
    <2> QED BY <1>1, <2>1, <2>2
  <1>5. pass.now \in [Key -> Managed] BY <1>2 DEF Pass
  <1>6. TypeOK' BY <1>1, <1>2, <1>3, <1>4, <1>5 DEF TypeOK, FaultsGrow, Hosts, ETag, NoETag
  <1>7. PassInv' BY <1>1, <1>2, <1>3, <1>4 DEF PassInv, ItemPc, RemovalPc, Acting
  <1>8. Kept => Kept' BY <1>1, <1>2, <1>4 DEF Kept, RemovalPc, Acting
  <1>9. Sound => Sound'
    BY <1>1, <1>2, <1>4 DEF Sound, RemovalPc, Acting, LoadedBehind, ProcessBehind
  <1> QED BY <1>2, <1>3, <1>6, <1>7, <1>8, <1>9 DEF IInv, KeptInv, SoundInv

\* Where a pass ends or is lost, the invariant is about managed alone.
LEMMA PassOver ==
    ASSUME IInv, pass' = NoPass, UNCHANGED desired,
           managed' \in [Key -> Managed], saved' \in [Key -> Managed],
           lastETag' \in {NoETag, ETag(lastDesired')},
           lastDesired' \in [Key -> ProcessSpec \cup {NoSpec}],
           recent' \in SUBSET Key,
           reported' \in [Key -> [spec: ProcessSpec \cup {NoSpec}, obs: Observations]],
           host' \in Hosts, FaultsGrow,
           \/ pass.pc = "send" /\ managed' = managed /\ host' = host
           \/ StateLost',
           \/ saved' = saved /\ managed' \in {managed, saved}
           \/ "load" \in faults'
    PROVE  IInv'
  <1>1. /\ TypeOK /\ PassInv /\ host \in Hosts /\ None \notin Key
        /\ Keeping => Kept
        /\ Faithful => Sound
    BY AgentAssumption DEF IInv, KeptInv, SoundInv, TypeOK, Hosts
  <1>2. /\ pass' \in Pass /\ pass'.pc = "idle" /\ pass'.key = None /\ pass'.todo = {}
        /\ \A k \in Key : pass'.obs[k] = "none" /\ ~pass'.now[k].in
    BY NoPassFields
  <1>3. TypeOK' BY <1>1, <1>2 DEF TypeOK, FaultsGrow, Hosts, Observations
  <1>4. PassInv' BY <1>1, <1>2 DEF PassInv, ItemPc, RemovalPc, Acting, FaultsGrow
  <1>5. Keeping' \/ Faithful' =>
          pass.pc = "send" /\ managed' = managed /\ host' = host /\ pass.now = managed /\ pass.key = None
    BY <1>1 DEF Keeping, Faithful, PassInv, ItemPc, RemovalPc, Acting
  <1>6. (Keeping' => Keeping) /\ (Faithful' => Faithful) BY Monotone
  <1>7. ASSUME Keeping' PROVE Kept'
    BY <1>1, <1>2, <1>5, <1>6, <1>7 DEF Kept, RemovalPc, Acting
  <1>8. ASSUME Faithful' PROVE Sound'
    <2>1. Sound BY <1>1, <1>6, <1>8
    <2>2. /\ pass.pc = "send" /\ managed' = managed /\ host' = host
          /\ pass.now = managed /\ pass.key = None
      BY <1>5, <1>8
    <2>3. ~LoadedBehind /\ ~ProcessBehind BY <2>2 DEF LoadedBehind, ProcessBehind
    <2>4. /\ \A k \in Key : ~Idle(host[k]) => managed[k].in
          /\ \A k \in Key : ~Idle(host[k]) => host[k].unit # None
      BY <1>1, <2>1, <2>2, Zenon DEF Sound
    <2>5. /\ \A k \in Key : host[k].unit = None \/ host[k].loaded \in {None, host[k].unit}
          /\ \A k \in Key : Running(host[k]) => Fresh(host[k])
      BY <2>1, <2>3, Zenon DEF Sound
    <2>6. pass'.pc \notin {"discard", "discarded", "removals", "unit", "env", "reload", "act"}
                          \cup RemovalPc \cup Acting
      BY <1>2 DEF RemovalPc, Acting
    <2>7. \A k \in Key : pass'.obs[k] # "running"
      BY <1>2
    <2> QED BY <2>2, <2>4, <2>5, <2>6, <2>7, Zenon DEF Sound
  <1> QED BY <1>3, <1>4, <1>7, <1>8 DEF IInv, KeptInv, SoundInv

\* What a new agent process starts from.
LEMMA RestartFacts ==
    ASSUME TypeOK, NEW kind, RestartAgent(kind)
    PROVE  /\ pass' = NoPass /\ UNCHANGED desired
           /\ managed' \in [Key -> Managed] /\ saved' \in [Key -> Managed]
           /\ (saved' = saved /\ managed' = saved) \/ "load" \in faults'
           /\ kind \in faults' /\ FaultsGrow
           /\ lastETag' = NoETag /\ lastDesired' \in [Key -> ProcessSpec \cup {NoSpec}]
           /\ recent' \in SUBSET Key
           /\ reported' \in [Key -> [spec: ProcessSpec \cup {NoSpec}, obs: Observations]]
  <1>1. NothingManaged \in [Key -> Managed] BY DEF NothingManaged, Unmanaged, Managed
  <1>2. CASE Fault(kind) /\ managed' = saved /\ UNCHANGED saved
    <2>1. FaultsGrow /\ kind \in faults' BY <1>2, FaultType DEF Fault
    <2> QED BY <1>2, <2>1 DEF RestartAgent, TypeOK, NoItems, Observations
  <1>3. CASE /\ TwoFaults(kind, "load")
             /\ managed' = NothingManaged /\ saved' \in {saved, NothingManaged}
    <2>1. FaultsGrow /\ {kind, "load"} \subseteq faults'
      BY <1>3, AgentAssumption DEF TwoFaults, TypeOK, FaultsGrow
    <2> QED BY <1>1, <1>3, <2>1 DEF RestartAgent, TypeOK, NoItems, Observations
  <1> QED BY <1>2, <1>3 DEF RestartAgent, LoadState

\* The report ends the pass; if that ends the agent too, the state file has
\* what the pass saved, or it counts as lost.
LEMMA SendReportStep == ASSUME IInv, SendReport PROVE IInv'
  <1>1. TypeOK /\ pass \in Pass /\ host \in Hosts BY DEF IInv, TypeOK, Hosts
  <1>2. FaultsGrow BY <1>1, FaultType, RestartFacts DEF SendReport, Fault
  <1>3. pass.pc = "send" /\ host' = host BY DEF SendReport
  <1>4. CASE UNCHANGED <<desired, agentMemory, recent>> /\ pass' = NoPass
    <2>1. reported' \in [Key -> [spec: ProcessSpec \cup {NoSpec}, obs: Observations]]
      BY <1>1, <1>4 DEF SendReport, TypeOK, Pass, Observations, RestartAgent
    <2> QED BY <1>1, <1>2, <1>3, <1>4, <2>1, PassOver DEF agentMemory, TypeOK
  <1>5. CASE RestartAgent("exit")
    <2>1. /\ (saved' = saved /\ managed' = saved) \/ "load" \in faults'
          /\ "exit" \in faults' /\ faults \subseteq faults'
      BY <1>1, <1>5, RestartFacts DEF FaultsGrow
    <2>2. managed' = managed \/ StateLost'
      BY <2>1 DEF IInv, PassInv, StateLost
    <2> QED BY <1>1, <1>2, <1>3, <1>5, <2>1, <2>2, PassOver, RestartFacts
  <1> QED BY <1>4, <1>5 DEF SendReport

=============================================================================
