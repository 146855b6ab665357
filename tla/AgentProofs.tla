----------------------------- MODULE AgentProofs -----------------------------
(***************************************************************************)
(* TypeOK, RunsWhatItReports and UnitsTracked of module Agent, for any     *)
(* number of processes and specs and any number of faults: items that end  *)
(* in an error, the environment and the initial states, and the theorems   *)
(* that follow from IInv.                                                  *)
(***************************************************************************)
EXTENDS AgentPassProofs

(***************************************************************************)
(* The steps that end an item in an error, after a failure or for a spec   *)
(* that cannot be rendered.                                                *)
(***************************************************************************)
\* Every failure ends with the unit stopped, so that nothing old runs.
LEMMA FailStep == ASSUME IInv, Fail PROVE IInv'
  <1> DEFINE k == pass.key
  <1>1. /\ pass.pc = "fail" /\ pass.pc \in ItemPc /\ AppendObservation("error", pass.entry)
        /\ UNCHANGED <<desired, agentMemory, recent, reported>>
    BY DEF Fail, ItemPc
  <1>2. /\ TypeOK /\ host \in Hosts /\ k \in Key
        /\ Keeping => Kept /\ KeptItem
        /\ Faithful => Sound /\ SoundItem
    BY <1>1, InHand
  <1>3. FaultsGrow /\ (Keeping' => Keeping) /\ (Faithful' => Faithful)
    BY <1>2, FaultType, Monotone DEF Fail, Fault
  <1>4. /\ host' \in Hosts /\ OthersKept(k)
        /\ Keeping' => (host'[k].unit = None => Clean(host'[k]) /\ Idle(host'[k]))
        /\ Faithful' => (/\ ~Idle(host'[k]) => host'[k].unit # None
                         /\ host'[k].unit = None \/ host'[k].loaded \in {None, host'[k].unit}
                         /\ Running(host'[k]) => Fresh(host'[k]))
    <2>1. CASE host' = QuietStop(k)
      <3>1. /\ host' \in Hosts /\ OthersKept(k) /\ host'[k].unit = host[k].unit
            /\ host[k].unit = None => host' = host
            /\ host[k].unit # None => Idle(host'[k]) /\ ~host'[k].enabled /\ host'[k].loaded = host[k].unit
        BY <1>2, <2>1, StoppedUnit
      <3>2. Keeping' => (host'[k].unit = None => Clean(host'[k]) /\ Idle(host'[k]))
        BY <1>2, <1>3, <3>1 DEF KeptItem
      <3>3. Faithful' => (/\ ~Idle(host'[k]) => host'[k].unit # None
                          /\ host'[k].unit = None \/ host'[k].loaded \in {None, host'[k].unit}
                          /\ Running(host'[k]) => Fresh(host'[k]))
        BY <1>2, <1>3, <3>1 DEF SoundItem, Idle
      <3> QED BY <3>1, <3>2, <3>3
    <2>2. CASE Fault("stop") /\ UNCHANGED host
      BY <1>2, <2>2 DEF OthersKept, SameUnit, Fault, Keeping, Faithful
    <2> QED BY <2>1, <2>2 DEF Fail
  <1> QED BY <1>1, <1>3, <1>4, EndStep DEF Observations

\* The unit of a spec that cannot be rendered is stopped before its files go.
LEMMA InvalidStopStep == ASSUME IInv, InvalidStop PROVE IInv'
  <1> DEFINE k == pass.key
  <1>1. /\ pass.pc = "invalid" /\ pass.pc \in ItemPc /\ GoTo("discard")
        /\ UNCHANGED <<desired, agentMemory, recent, reported>>
    BY DEF InvalidStop, ItemPc
  <1>2. /\ TypeOK /\ pass \in Pass /\ host \in Hosts /\ k \in Key /\ pass.entry.in
        /\ Keeping => Kept /\ KeptItem
        /\ Faithful => Sound /\ SoundItem
    BY <1>1, InHand
  <1>3. FaultsGrow /\ (Keeping' => Keeping) /\ (Faithful' => Faithful)
    BY <1>2, FaultType, Monotone DEF InvalidStop, Fault
  <1>4. pass' \in Pass /\ SamePass /\ pass'.pc = "discard" /\ pass'.entry.in
    BY <1>1, <1>2, GoToFields DEF ItemPc
  <1>5. pass'.key = k /\ Item' = Item /\ recent' \in SUBSET Key
    BY <1>1, <1>2, <1>4 DEF SamePass, Item, TypeOK
  <1>6. host' \in Hosts /\ OthersKept(k) /\ (Keeping' => KeptItem') /\ (Faithful' => SoundItem')
    <2>1. CASE host' = QuietStop(k)
      <3>1. /\ host' \in Hosts /\ OthersKept(k) /\ host'[k].unit = host[k].unit
            /\ host[k].unit = None => host' = host
            /\ host[k].unit # None => Idle(host'[k]) /\ ~host'[k].enabled /\ host'[k].loaded = host[k].unit
        BY <1>2, <2>1, StoppedUnit
      <3>2. Keeping' => KeptItem'
        BY <1>1, <1>2, <1>3, <1>4, <1>5, <3>1 DEF KeptItem, Acting, Clean
      <3>3. Faithful' => SoundItem'
        BY <1>1, <1>2, <1>3, <1>4, <1>5, <3>1 DEF SoundItem, Idle, Acting
      <3> QED BY <3>1, <3>2, <3>3
    <2>2. CASE Fault("stop") /\ UNCHANGED host
      BY <1>2, <2>2 DEF OthersKept, SameUnit, Fault, Keeping, Faithful
    <2> QED BY <2>1, <2>2 DEF InvalidStop
  <1> QED BY <1>1, <1>3, <1>4, <1>5, <1>6, ItemStep DEF ItemPc

\* The files of an idle unit go; a removal that fails ends the item as well.
LEMMA InvalidRemoveStep == ASSUME IInv, InvalidRemove PROVE IInv'
  <1> DEFINE k == pass.key
  <1>1. /\ pass.pc = "discard" /\ pass.pc \in ItemPc
        /\ UNCHANGED <<desired, agentMemory, recent, reported>>
    BY DEF InvalidRemove, ItemPc
  <1>2. /\ TypeOK /\ pass \in Pass /\ host \in Hosts /\ k \in Key /\ pass.entry.in
        /\ Keeping => Kept /\ KeptItem
        /\ Faithful => Sound /\ SoundItem
    BY <1>1, InHand
  <1>3. FaultsGrow /\ (Keeping' => Keeping) /\ (Faithful' => Faithful)
    BY <1>2, FaultType, Monotone DEF InvalidRemove, RemoveFails, Fault
  <1>4. host' = RemoveFiles(host, k) \/ host' \in {host, RemoveUnitFile(host, k)}
    BY DEF InvalidRemove, RemoveFails
  <1>5. /\ host' \in Hosts /\ \A j \in Key \ {k} : host'[j] = host[j]
        /\ SameProcess(host'[k], host[k])
        /\ host'[k].unit \in {None, host[k].unit}
        /\ host' = RemoveFiles(host, k) => host'[k].unit = None /\ host'[k].env = None
    BY <1>2, <1>4, RemovedFiles
  <1>6. OthersKept(k) /\ recent' \in SUBSET Key BY <1>1, <1>2, <1>5 DEF OthersKept, SameUnit, TypeOK
  <1>7. Keeping' => host' = RemoveFiles(host, k)
    BY DEF InvalidRemove, RemoveFails, Fault, Keeping
  <1>8. Keeping' => Clean(host'[k]) /\ Idle(host'[k])
    BY <1>1, <1>2, <1>3, <1>5, <1>7 DEF KeptItem, SameProcess, Clean, Idle, Running
  <1>9. Faithful' => Idle(host'[k]) /\ (host'[k].unit = None \/ host'[k].loaded \in {None, host'[k].unit})
    BY <1>1, <1>2, <1>3, <1>5 DEF SoundItem, SameProcess, Idle, Running, LoadedBehind
  <1>10. CASE AppendObservation("error", pass.entry)
    <2>1. "error" \in Observations BY DEF Observations
    <2> QED BY <1>1, <1>3, <1>5, <1>6, <1>8, <1>9, <1>10, <2>1, EndStep DEF Idle
  <1>11. CASE GoTo("discarded") /\ host' = RemoveFiles(host, k)
    <2>1. pass' \in Pass /\ SamePass /\ pass'.pc = "discarded" /\ pass'.entry.in
      BY <1>2, <1>11, GoToFields DEF ItemPc
    <2>2. pass'.key = k BY <2>1 DEF SamePass
    <2>3. Keeping' => KeptItem' BY <1>8, <2>1, <2>2 DEF KeptItem, Acting
    <2>4. Faithful' => SoundItem'
      BY <1>9, <2>1, <2>2 DEF SoundItem, Idle, Acting
    <2> QED BY <1>1, <1>3, <1>5, <1>6, <2>1, <2>3, <2>4, ItemStep DEF ItemPc
  <1> QED BY <1>10, <1>11 DEF InvalidRemove

\* The reload after the removal concerns no process.
LEMMA InvalidReloadStep == ASSUME IInv, InvalidReload PROVE IInv'
  <1> DEFINE k == pass.key
  <1>1. /\ pass.pc = "discarded" /\ pass.pc \in ItemPc /\ AppendObservation("error", pass.entry)
        /\ UNCHANGED <<desired, agentMemory, recent, reported>>
    BY DEF InvalidReload, ItemPc
  <1>2. /\ TypeOK /\ host \in Hosts /\ k \in Key
        /\ Keeping => Kept /\ KeptItem
        /\ Faithful => Sound /\ SoundItem
    BY <1>1, InHand
  <1>3. FaultsGrow /\ (Keeping' => Keeping) /\ (Faithful' => Faithful)
    BY <1>2, FaultType, Monotone DEF InvalidReload, Fault
  <1>4. /\ host' \in Hosts /\ OthersKept(k) /\ SameUnit(host'[k], host[k])
        /\ host'[k].loaded = host[k].loaded \/ (host[k].unit # None => host'[k].loaded = host[k].unit)
    <2>1. CASE host' = DaemonReload(host) BY <1>2, <2>1, ReloadFields DEF OthersKept
    <2>2. CASE UNCHANGED host BY <1>2, <2>2 DEF OthersKept, SameUnit
    <2> QED BY <2>1, <2>2 DEF InvalidReload
  <1>5. Keeping' => (host'[k].unit = None => Clean(host'[k]) /\ Idle(host'[k]))
    BY <1>2, <1>3, <1>4 DEF KeptItem, SameUnit, Clean, Idle, Running
  <1>6. Faithful' => Idle(host'[k]) /\ (host'[k].unit = None \/ host'[k].loaded \in {None, host'[k].unit})
    BY <1>1, <1>2, <1>3, <1>4 DEF SoundItem, SameUnit, Idle, Running, LoadedBehind
  <1>7. "error" \in Observations BY DEF Observations
  <1> QED BY <1>1, <1>3, <1>4, <1>5, <1>6, <1>7, EndStep DEF Idle

(***************************************************************************)
(* The environment.                                                        *)
(***************************************************************************)
\* After a crash nothing is claimed but the shape of the state.
LEMMA CrashStep == ASSUME IInv, Crash PROVE IInv'
  <1>1. TypeOK /\ host' \in Hosts BY DEF IInv, TypeOK, Hosts, Crash
  <1>2. RestartAgent("crash") BY DEF Crash
  <1>3. StateLost' BY <1>1, <1>2, RestartFacts DEF StateLost
  <1> QED BY <1>1, <1>2, <1>3, PassOver, RestartFacts

\* Nor after a reboot, which starts the enabled units.
LEMMA RebootStep == ASSUME IInv, Reboot PROVE IInv'
  <1>1. TypeOK /\ host \in Hosts BY DEF IInv, TypeOK, Hosts
  <1>2. host' \in Hosts BY <1>1, UnitTypes DEF Reboot, Hosts
  <1>3. RestartAgent("reboot") BY DEF Reboot
  <1>4. StateLost' BY <1>1, <1>3, RestartFacts DEF StateLost
  <1> QED BY <1>1, <1>2, <1>3, <1>4, PassOver, RestartFacts

\* A change of one unit from outside, a death or a restart by systemd, keeps
\* the invariant if the unit was and is not idle and what it runs is no older
\* than before.
LEMMA UnitStep ==
    ASSUME IInv, NEW k \in Key, host' \in Hosts, FaultsGrow,
           \A j \in Key \ {k} : host'[j] = host[j],
           ~Idle(host[k]), ~Idle(host'[k]),
           host'[k].unit = host[k].unit, host'[k].env = host[k].env,
           Running(host'[k]) => host'[k].procUnit = Definition(host[k]) /\ host'[k].procEnv = host[k].env,
           host'[k].loaded \in {host[k].loaded, Definition(host[k])},
           UNCHANGED <<desired, agentMemory, recent, pass, reported>>
    PROVE  IInv'
  <1>1. /\ TypeOK /\ PassInv
        /\ Keeping => Kept
        /\ Faithful => Sound
    BY DEF IInv, KeptInv, SoundInv
  <1>2. TypeOK' BY <1>1 DEF TypeOK, agentMemory, FaultsGrow, Hosts, ETag, NoETag
  <1>3. PassInv' BY <1>1, Zenon DEF PassInv, agentMemory, FaultsGrow, ItemPc, RemovalPc, Acting
  <1>4. (Keeping' => Keeping) /\ (Faithful' => Faithful) BY Monotone
  <1>5. pass.pc \in ItemPc \cup RemovalPc => pass.key \in Key BY <1>1 DEF PassInv
  <1>6. \A j \in Key : /\ host'[j].unit = host[j].unit /\ host'[j].env = host[j].env
                       /\ j = k \/ host'[j] = host[j]
    OBVIOUS
  <1>7. ASSUME Kept PROVE Kept'
    <2>1. ~Clean(host[k]) /\ ~Clean(host'[k]) /\ host[k].unit # None BY <1>7 DEF Kept, Clean
    <2>2. k # pass.key \/ pass.pc \notin {"discard", "remove", "removed"} BY <1>7, <2>1 DEF Kept
    <2> QED BY <1>5, <1>6, <1>7, <2>1, <2>2 DEF Kept, agentMemory, ItemPc, RemovalPc, Acting
  <1>8. ASSUME Sound PROVE Sound'
    <2>1. host[k].unit # None /\ (managed[k].in \/ pass.now[k].in \/ pass.key = k) BY <1>8 DEF Sound
    <2>2. host'[k].loaded \in {None, host'[k].unit} \/ (pass.key = k /\ LoadedBehind)
      BY <1>8, <2>1 DEF Sound, Definition
    <2>3. Running(host'[k]) => Fresh(host'[k]) \/ (pass.key = k /\ ProcessBehind)
      BY <1>8, <2>1 DEF Sound, Definition, Fresh, ProcessBehind
    <2>4. (LoadedBehind' <=> LoadedBehind) /\ (ProcessBehind' <=> ProcessBehind)
      BY DEF LoadedBehind, ProcessBehind, FilesChanged
    <2>5. Item' = Item /\ Entry' = Entry BY DEF Item, Entry, agentMemory
    <2>6. managed' = managed /\ pass' = pass BY DEF agentMemory
    <2>7. \A j \in Key : Idle(host[j]) => host'[j] = host[j] BY <1>6, Zenon
    <2>8. \A j \in Key : ~Idle(host'[j]) =>
             host'[j].unit # None /\ (managed[j].in \/ pass.now[j].in \/ pass.key = j)
      BY <1>6, <1>8, <2>7 DEF Sound
    <2>9. /\ pass.pc \in {"discard", "discarded"} \cup RemovalPc => Idle(host'[pass.key])
          /\ pass.pc \in {"removals"} \cup RemovalPc =>
                \A j \in Key \ (pass.todo \cup {pass.key}) : ~pass.now[j].in => Idle(host'[j])
          /\ pass.pc \in {"unit", "env", "reload", "act"} /\ ~Entry.in => Idle(host'[pass.key])
      BY <1>5, <1>8, <2>7 DEF Sound, ItemPc, Acting
    <2>10. /\ pass.pc \in {"env", "reload"} \cup Acting => host'[pass.key].unit = UnitOf[Item]
           /\ pass.pc \in {"reload"} \cup Acting => host'[pass.key].env = EnvOf[Item]
      BY <1>5, <1>6, <1>8, Zenon DEF Sound, ItemPc, Acting
    <2>11. \A j \in Key : \/ host'[j].unit = None \/ host'[j].loaded \in {None, host'[j].unit}
                          \/ (pass.key = j /\ LoadedBehind)
      BY <1>6, <1>8, <2>2, Zenon DEF Sound
    <2>12. \A j \in Key : Running(host'[j]) => Fresh(host'[j]) \/ (pass.key = j /\ ProcessBehind)
      BY <1>6, <1>8, <2>3, Zenon DEF Sound
    <2>13. \A j \in Key : pass.obs[j] = "running" =>
              host'[j].unit = UnitOf[pass.items[j]] /\ host'[j].env = EnvOf[pass.items[j]]
      BY <1>6, <1>8 DEF Sound
    <2> QED BY <2>4, <2>5, <2>6, <2>8, <2>9, <2>10, <2>11, <2>12, <2>13 DEF Sound
  <1> QED BY <1>1, <1>2, <1>3, <1>4, <1>7, <1>8 DEF IInv, KeptInv, SoundInv

\* A process that died is still one to account for.
LEMMA DieStep == ASSUME IInv, NEW k \in Key, Die(k) PROVE IInv'
  <1> DEFINE s == [Stopped(host[k]) EXCEPT !.died = TRUE]
  <1>1. TypeOK /\ host \in Hosts /\ host[k] \in Service BY DEF IInv, TypeOK, Hosts
  <1>2. Stopped(host[k]) \in Service BY <1>1, UnitTypes
  <1>3. s \in Service BY <1>2, UnitTypes, Zenon
  <1>4. /\ s.unit = host[k].unit /\ s.env = host[k].env /\ s.loaded = host[k].loaded
        /\ ~Running(s) /\ ~Idle(s)
    BY <1>1 DEF Service, Stopped, Running, Idle
  <1>5. host' = [host EXCEPT ![k] = s] /\ Running(host[k]) BY DEF Die
  <1> HIDE DEF s
  <1>6. host' \in Hosts /\ host'[k] = s /\ \A j \in Key \ {k} : host'[j] = host[j]
    BY <1>1, <1>3, <1>5 DEF Hosts
  <1>7. FaultsGrow BY <1>1, FaultType DEF Die, Fault
  <1>8. ~Idle(host[k]) BY <1>5 DEF Idle
  <1> QED BY <1>4, <1>6, <1>7, <1>8, UnitStep, Zenon DEF Die

\* systemd starts it from the definition it has.
LEMMA SystemdRestartsStep == ASSUME IInv, NEW k \in Key, SystemdRestarts(k) PROVE IInv'
  <1> DEFINE s == Launched(host[k])
  <1>1. TypeOK /\ host \in Hosts /\ host[k] \in Service BY DEF IInv, TypeOK, Hosts
  <1>2. s \in Service BY <1>1, UnitTypes
  <1>3. /\ s.unit = host[k].unit /\ s.env = host[k].env /\ s.loaded = Definition(host[k])
        /\ s.procUnit = Definition(host[k]) /\ s.procEnv = host[k].env
    BY <1>1 DEF Service, Launched
  <1>4. host' = [host EXCEPT ![k] = s] /\ Definition(host[k]) # None /\ ~Idle(host[k])
    BY DEF SystemdRestarts, Restartable, Idle
  <1>5. ~Idle(s) BY <1>3, <1>4 DEF Idle, Running
  <1> HIDE DEF s
  <1>6. host' \in Hosts /\ host'[k] = s /\ \A j \in Key \ {k} : host'[j] = host[j]
    BY <1>1, <1>2, <1>4 DEF Hosts
  <1>7. FaultsGrow BY <1>1, FaultType DEF SystemdRestarts
  <1> QED BY <1>3, <1>4, <1>5, <1>6, <1>7, UnitStep, Zenon DEF SystemdRestarts

\* Steps that only change what is desired, the clock or the bounds.
LEMMA OutsideStep ==
    ASSUME IInv, UNCHANGED <<agentMemory, pass, host, reported, faults>>,
           desired' \in [Key -> ProcessSpec \cup {NoSpec}], recent' \in SUBSET Key,
           left' \in [faults: 0 .. MaxFaults, changes: 0 .. MaxChanges]
    PROVE  IInv'
  <1>1. TypeOK' BY DEF IInv, TypeOK, agentMemory, ETag, NoETag
  <1>2. PassInv' BY DEF IInv, PassInv, agentMemory, ItemPc, RemovalPc, Acting
  <1>3. KeptInv' BY DEF IInv, KeptInv, Kept, Keeping, StateLost, agentMemory, RemovalPc, Acting
  <1>4. SoundInv'
    <2>1. /\ Item' = Item /\ Entry' = Entry /\ managed' = managed
          /\ LoadedBehind' = LoadedBehind /\ ProcessBehind' = ProcessBehind
      BY DEF Item, Entry, LoadedBehind, ProcessBehind, FilesChanged, agentMemory
    <2> QED BY <2>1, Zenon DEF IInv, SoundInv, Sound, Faithful, StateLost, RemovalPc, Acting
  <1> QED BY <1>1, <1>2, <1>3, <1>4 DEF IInv

\* A resource is created, changed or deleted.
LEMMA ChangeStep ==
    ASSUME IInv, NEW k \in Key, NEW s \in ProcessSpec \cup {NoSpec}, Change(k, s) PROVE IInv'
  <1>1. desired' \in [Key -> ProcessSpec \cup {NoSpec}] /\ recent' \in SUBSET Key
    BY DEF Change, IInv, TypeOK
  <1>2. left' \in [faults: 0 .. MaxFaults, changes: 0 .. MaxChanges]
    BY AgentAssumption DEF Change, IInv, TypeOK
  <1> QED BY <1>1, <1>2, OutsideStep DEF Change

\* Time passes.
LEMMA ElapseStep == ASSUME IInv, NEW k \in Key, Elapse(k) PROVE IInv'
  <1>1. /\ desired' \in [Key -> ProcessSpec \cup {NoSpec}] /\ recent' \in SUBSET Key
        /\ left' \in [faults: 0 .. MaxFaults, changes: 0 .. MaxChanges]
    BY DEF Elapse, NoFault, IInv, TypeOK
  <1> QED BY <1>1, OutsideStep DEF Elapse, NoFault

(***************************************************************************)
(* The theorems.                                                           *)
(***************************************************************************)
\* Nothing is managed and nothing runs when the agent is first started.
LEMMA InitInv == Init => IInv
  <1> SUFFICES ASSUME Init PROVE IInv OBVIOUS
  <1>1. NoService \in Service /\ Clean(NoService) /\ Idle(NoService)
    BY DEF NoService, Service, Clean, Idle, Running
  <1>2. host \in Hosts /\ \A k \in Key : Clean(host[k]) /\ Idle(host[k]) /\ host[k].unit = None
    BY <1>1 DEF Init, Hosts, Clean
  <1>3. /\ managed = NothingManaged /\ saved = NothingManaged /\ NothingManaged \in [Key -> Managed]
        /\ NoItems \in [Key -> ProcessSpec \cup {NoSpec}] /\ pass = NoPass
    BY DEF Init, NothingManaged, Unmanaged, Managed, NoItems
  <1>4. TypeOK BY <1>2, <1>3, NoPassFields, AgentAssumption DEF Init, TypeOK, Hosts
  <1>5. PassInv BY <1>3, NoPassFields DEF PassInv, ItemPc, RemovalPc, Acting
  <1>6. Kept BY <1>2, <1>3, NoPassFields DEF Kept, RemovalPc, Acting
  <1>7. Sound BY <1>2, <1>3, NoPassFields, Zenon DEF Sound, Idle, RemovalPc, Acting
  <1> QED BY <1>4, <1>5, <1>6, <1>7 DEF IInv, KeptInv, SoundInv

\* Every step of the agent keeps the invariant, one action after another.
LEMMA AgentStepInv == ASSUME IInv, AgentStep PROVE IInv'
  <1>1. CASE Poll BY <1>1, PollStep
  <1>2. CASE EnsureUnit BY <1>2, EnsureUnitStep
  <1>3. CASE EnsureEnv BY <1>3, EnsureEnvStep
  <1>4. CASE Reload BY <1>4, ReloadStep
  <1>5. CASE ActStart BY <1>5, ActStartStep
  <1>6. CASE ActRestart BY <1>6, ActRestartStep
  <1>7. CASE ActNone BY <1>7, ActNoneStep
  <1>8. CASE Show BY <1>8, ShowStep
  <1>9. CASE Drift BY <1>9, DriftStep
  <1>10. CASE Reshow BY <1>10, ReshowStep
  <1>11. CASE Fail BY <1>11, FailStep
  <1>12. CASE InvalidStop BY <1>12, InvalidStopStep
  <1>13. CASE InvalidRemove BY <1>13, InvalidRemoveStep
  <1>14. CASE InvalidReload BY <1>14, InvalidReloadStep
  <1>15. CASE RemovalsStart BY <1>15, RemovalsStartStep
  <1>16. CASE RemovalFiles BY <1>16, RemovalFilesStep
  <1>17. CASE RemovalReload BY <1>17, RemovalReloadStep
  <1>18. CASE Commit BY <1>18, CommitStep
  <1>19. CASE SendReport BY <1>19, SendReportStep
  <1>20. ASSUME NEW k \in Key, TakeItem(k) PROVE IInv' BY <1>20, TakeItemStep
  <1>21. ASSUME NEW k \in Key, RemovalStop(k) PROVE IInv' BY <1>21, RemovalStopStep
  <1> QED BY <1>1, <1>2, <1>3, <1>4, <1>5, <1>6, <1>7, <1>8, <1>9, <1>10, <1>11, <1>12, <1>13,
             <1>14, <1>15, <1>16, <1>17, <1>18, <1>19, <1>20, <1>21 DEF AgentStep

\* So does every step of the environment.
LEMMA EnvironmentInv == ASSUME IInv, Environment PROVE IInv'
  <1>1. CASE Crash BY <1>1, CrashStep
  <1>2. CASE Reboot BY <1>2, RebootStep
  <1>3. ASSUME NEW k \in Key, Die(k) PROVE IInv' BY <1>3, DieStep
  <1>4. ASSUME NEW k \in Key, SystemdRestarts(k) PROVE IInv' BY <1>4, SystemdRestartsStep
  <1>5. ASSUME NEW k \in Key, Elapse(k) PROVE IInv' BY <1>5, ElapseStep
  <1>6. ASSUME NEW k \in Key, NEW s \in ProcessSpec \cup {NoSpec}, Change(k, s) PROVE IInv'
    BY <1>6, ChangeStep
  <1> QED BY <1>1, <1>2, <1>3, <1>4, <1>5, <1>6 DEF Environment

\* The invariant of the reconcile pass holds in every reachable state.
THEOREM Invariance == Spec => []IInv
  <1>1. IInv /\ UNCHANGED vars => IInv'
    <2> SUFFICES ASSUME IInv, UNCHANGED vars PROVE IInv' OBVIOUS
    <2>1. /\ desired' \in [Key -> ProcessSpec \cup {NoSpec}] /\ recent' \in SUBSET Key
          /\ left' \in [faults: 0 .. MaxFaults, changes: 0 .. MaxChanges]
      BY DEF vars, IInv, TypeOK
    <2> QED BY <2>1, OutsideStep DEF vars, agentMemory
  <1>2. IInv /\ [Next]_vars => IInv' BY <1>1, AgentStepInv, EnvironmentInv DEF Next
  <1> QED BY <1>2, InitInv, PTL DEF Spec

\* Every variable of the agent and its host keeps its shape.
THEOREM TypeCorrect == Spec => []TypeOK
  <1>1. IInv => TypeOK BY DEF IInv
  <1> QED BY <1>1, Invariance, PTL

\* A process reported as started runs the unit text and environment of the
\* reported spec, whatever is lost, delayed or fails other than the state, a
\* reload or a stop: the item has its result, so it is not the one in hand,
\* and what runs was started from the files as they are (reconcile).
THEOREM ReportsTrue == Spec => []RunsWhatItReports
  <1>1. ASSUME IInv PROVE RunsWhatItReports
    <2> SUFFICES ASSUME Faithful, NEW k \in Key, pass.obs[k] = "running", Running(host[k])
                 PROVE  Runs(k, pass.items[k])
      BY DEF RunsWhatItReports, Faithful
    <2>1. Sound /\ PassInv BY <1>1 DEF IInv, SoundInv
    <2>2. host[k].unit = UnitOf[pass.items[k]] /\ host[k].env = EnvOf[pass.items[k]]
      BY <2>1 DEF Sound
    <2>3. ~(pass.key = k /\ ProcessBehind)
      BY <2>1 DEF PassInv, ProcessBehind, LoadedBehind, ItemPc, Acting
    <2>4. Fresh(host[k]) BY <2>1, <2>3 DEF Sound
    <2> QED BY <2>2, <2>4 DEF Fresh, Runs
  <1> QED BY <1>1, Invariance, PTL

\* Whatever the agent leaves on the host belongs to a key it still manages,
\* unless state was lost or a stop or a removal failed (the removal loop and
\* managedNow of reconcile).
THEOREM NothingForgotten == Spec => []UnitsTracked
  <1>1. ASSUME IInv PROVE UnitsTracked
    BY <1>1 DEF IInv, KeptInv, Keeping, Kept, UnitsTracked
  <1> QED BY <1>1, Invariance, PTL
==============================================================================
