--------------------------- MODULE AgentItemProofs ---------------------------
(***************************************************************************)
(* The inductive invariant of module Agent, what the proofs of its actions *)
(* have in common, and the proofs for the actions on the item in hand, up  *)
(* to its result or its failure.                                           *)
(*                                                                         *)
(* The invariant has three parts on top of TypeOK: what a pass is made of  *)
(* wherever it stands, what its units have in common as long as nothing is *)
(* forgotten, and as long as nothing stale is left running.                *)
(***************************************************************************)
EXTENDS Agent, TLAPS

(***************************************************************************)
(* The pass.                                                               *)
(***************************************************************************)
Acting == {"act", "show", "drift", "reshow"}
ItemPc == {"unit", "env", "reload", "fail", "invalid", "discard", "discarded"} \cup Acting
RemovalPc == {"remove", "removed"}

\* The item in hand is a desired one without a result so far, and its entry
\* is there to be kept; a unit in the removal loop is not in managedNow.
PassInv ==
    /\ pass.pc \in ItemPc =>
          /\ pass.key \in Key /\ pass.items[pass.key] \in ProcessSpec
          /\ pass.entry.in /\ pass.obs[pass.key] # "running"
    /\ pass.pc \in RemovalPc => pass.key \in Key /\ ~pass.now[pass.key].in
    /\ pass.pc \notin ItemPc \cup RemovalPc => pass.key = None
    /\ pass.key \notin pass.todo
    /\ pass.pc \in {"next"} \cup ItemPc => \A k \in pass.todo : pass.items[k] \in ProcessSpec
    /\ \A k \in pass.todo : ~pass.now[k].in /\ pass.obs[k] # "running"
    /\ \A k \in Key : pass.obs[k] = "running" => pass.now[k].in
    /\ pass.pc = "reload" => pass.unitChanged
    /\ pass.pc = "idle" => pass = NoPass
    /\ pass.pc = "send" => managed = pass.now
    /\ faults \cap {"persist", "load"} = {} => saved = managed

(***************************************************************************)
(* Nothing is forgotten.  Before the removal loop ends, whatever it will   *)
(* not visit and managedNow does not have is clean already.                *)
(***************************************************************************)
Idle(s) == ~Running(s) /\ ~s.died

Keeping == ~StateLost /\ faults \cap {"stop", "remove"} = {}

Kept ==
    /\ \A k \in Key : ~Clean(host[k]) => managed[k].in \/ pass.now[k].in \/ pass.key = k
    /\ \A k \in Key : host[k].unit = None => Clean(host[k]) /\ Idle(host[k])
    /\ pass.pc \in {"env", "reload"} \cup Acting => host[pass.key].unit # None
    /\ pass.pc \in {"discard", "remove"} => Idle(host[pass.key]) /\ ~host[pass.key].enabled
    /\ pass.pc = "removed" => Clean(host[pass.key])
    /\ pass.pc \in {"removals"} \cup RemovalPc =>
          \A k \in Key \ (pass.todo \cup {pass.key}) : ~pass.now[k].in => Clean(host[k])

KeptInv == Keeping => Kept

(***************************************************************************)
(* Nothing stale runs.  A definition that is not the unit file's, and a    *)
(* process that was not started from the files as they are, belong to the  *)
(* item in hand, and a reload, a restart or a stop of it is still to come. *)
(***************************************************************************)
Fresh(s) == s.procUnit = s.unit /\ s.procEnv = s.env

Faithful == ~StateLost /\ faults \cap {"reload", "stop"} = {}

\* Whether the loaded definition, or the process, of the item in hand may be
\* an old one.
LoadedBehind == pass.pc \in {"reload", "fail"} \/ (pass.pc = "env" /\ pass.unitChanged)
ProcessBehind == LoadedBehind \/ (pass.pc = "act" /\ FilesChanged)

Sound ==
    /\ \A k \in Key : ~Idle(host[k]) => managed[k].in \/ pass.now[k].in \/ pass.key = k
    /\ \A k \in Key : ~Idle(host[k]) => host[k].unit # None
    /\ pass.pc \in {"discard", "discarded"} \cup RemovalPc => Idle(host[pass.key])
    /\ pass.pc \in {"removals"} \cup RemovalPc =>
          \A k \in Key \ (pass.todo \cup {pass.key}) : ~pass.now[k].in => Idle(host[k])
    /\ pass.pc \in {"unit", "env", "reload", "act"} /\ ~Entry.in => Idle(host[pass.key])
    /\ pass.pc \in {"env", "reload"} \cup Acting => host[pass.key].unit = UnitOf[Item]
    /\ pass.pc \in {"reload"} \cup Acting => host[pass.key].env = EnvOf[Item]
    /\ \A k \in Key : host[k].unit = None \/ host[k].loaded \in {None, host[k].unit}
                      \/ (pass.key = k /\ LoadedBehind)
    /\ \A k \in Key : Running(host[k]) => Fresh(host[k]) \/ (pass.key = k /\ ProcessBehind)
    /\ \A k \in Key : pass.obs[k] = "running" =>
          host[k].unit = UnitOf[pass.items[k]] /\ host[k].env = EnvOf[pass.items[k]]

SoundInv == Faithful => Sound

IInv == TypeOK /\ PassInv /\ KeptInv /\ SoundInv

(***************************************************************************)
(* What the backend's calls do to units, field by field.                   *)
(***************************************************************************)
Hosts == [Key -> Service]

\* Everything of a unit but its loaded definition is the same.
SameUnit(r, s) ==
    /\ r.unit = s.unit /\ r.env = s.env
    /\ r.procUnit = s.procUnit /\ r.procEnv = s.procEnv
    /\ r.died = s.died /\ r.enabled = s.enabled

\* No operation on a unit leaves the type of units.
LEMMA UnitTypes ==
    ASSUME NEW s \in Service
    PROVE  /\ Stopped(s) \in Service /\ Launched(s) \in Service /\ Started(s) \in Service
           /\ Reloaded(s) \in Service /\ Boot(s) \in Service
           /\ \A b \in BOOLEAN : [s EXCEPT !.enabled = b] \in Service
           /\ \A b \in BOOLEAN : [s EXCEPT !.died = b] \in Service
  <1>1. Stopped(s) \in Service BY Zenon DEF Service, Stopped
  <1>2. Definition(s) \in UnitText \cup {None} BY DEF Service, Definition
  <1>3. Launched(s) \in Service BY <1>2, Zenon DEF Service, Launched
  <1>4. Started(s) \in Service BY <1>3 DEF Started
  <1>5. Reloaded(s) \in Service BY DEF Service, Reloaded
  <1>6. /\ \A b \in BOOLEAN : [s EXCEPT !.enabled = b] \in Service
        /\ \A b \in BOOLEAN : [s EXCEPT !.died = b] \in Service
    BY DEF Service
  <1>7. Boot(s) \in Service
    <2>1. [Stopped(s) EXCEPT !.loaded = s.unit] \in Service BY <1>1 DEF Service
    <2>2. Definition([Stopped(s) EXCEPT !.loaded = s.unit]) \in UnitText \cup {None}
      BY <2>1 DEF Service, Definition
    <2>3. Launched([Stopped(s) EXCEPT !.loaded = s.unit]) \in Service
      BY <2>1, <2>2, Zenon DEF Service, Launched
    <2> QED BY <2>1, <2>3 DEF Boot
  <1> QED BY <1>1, <1>3, <1>4, <1>5, <1>6, <1>7

\* A reload changes loaded definitions only, to those of the files.
LEMMA ReloadFields ==
    ASSUME NEW h \in Hosts
    PROVE  /\ DaemonReload(h) \in Hosts
           /\ \A j \in Key : /\ SameUnit(DaemonReload(h)[j], h[j])
                             /\ h[j].unit # None => DaemonReload(h)[j].loaded = h[j].unit
  <1>1. \A j \in Key : h[j] \in Service /\ Reloaded(h[j]) \in Service BY UnitTypes DEF Hosts
  <1>2. DaemonReload(h) \in Hosts BY <1>1 DEF Hosts, DaemonReload
  <1>3. ASSUME NEW j \in Key
        PROVE  SameUnit(DaemonReload(h)[j], h[j]) /\ (h[j].unit # None => DaemonReload(h)[j].loaded = h[j].unit)
    BY <1>1 DEF DaemonReload, Reloaded, SameUnit, Service
  <1> QED BY <1>2, <1>3

\* After enable --now the unit is enabled and runs: what ran before, or what
\* its files say.
LEMMA StartFields ==
    ASSUME NEW h \in Hosts, NEW k \in Key
    PROVE  /\ EnableAndStart(h, k) \in Hosts
           /\ \A j \in Key \ {k} :
                /\ SameUnit(EnableAndStart(h, k)[j], h[j])
                /\ h[j].unit # None => EnableAndStart(h, k)[j].loaded = h[j].unit
           /\ LET r == EnableAndStart(h, k)[k] IN
                /\ r.unit = h[k].unit /\ r.env = h[k].env /\ r.enabled
                /\ h[k].unit # None => r.loaded = h[k].unit
                /\ Running(h[k]) => /\ r.procUnit = h[k].procUnit /\ r.procEnv = h[k].procEnv
                                    /\ r.died = h[k].died
                /\ ~Running(h[k]) /\ h[k].unit # None => Fresh(r) /\ ~r.died
  <1> DEFINE d == DaemonReload(h)
  <1>1. d \in Hosts /\ SameUnit(d[k], h[k]) /\ (h[k].unit # None => d[k].loaded = h[k].unit)
    BY ReloadFields
  <1>2. d[k] \in Service /\ Started(d[k]) \in Service BY <1>1, UnitTypes DEF Hosts
  <1>3. [Started(d[k]) EXCEPT !.enabled = TRUE] \in Service BY <1>2, UnitTypes, Zenon
  <1>4. EnableAndStart(h, k) = [d EXCEPT ![k] = [Started(d[k]) EXCEPT !.enabled = TRUE]]
    BY DEF EnableAndStart
  <1>5. EnableAndStart(h, k) \in Hosts BY <1>1, <1>3, <1>4 DEF Hosts
  <1>6. \A j \in Key \ {k} : EnableAndStart(h, k)[j] = d[j] BY <1>1, <1>4 DEF Hosts
  <1>7. EnableAndStart(h, k)[k] = [Started(d[k]) EXCEPT !.enabled = TRUE] BY <1>1, <1>4 DEF Hosts
  <1>8. LET r == [Started(d[k]) EXCEPT !.enabled = TRUE] IN
          /\ r.unit = d[k].unit /\ r.env = d[k].env /\ r.enabled
          /\ d[k].unit # None /\ d[k].loaded = d[k].unit => r.loaded = d[k].unit
          /\ Running(d[k]) => /\ r.procUnit = d[k].procUnit /\ r.procEnv = d[k].procEnv
                              /\ r.died = d[k].died
          /\ ~Running(d[k]) /\ d[k].unit # None /\ d[k].loaded = d[k].unit => Fresh(r) /\ ~r.died
    BY <1>2, ZenonT(30) DEF Started, Launched, Definition, Running, Fresh, Service
  <1> QED BY <1>1, <1>5, <1>6, <1>7, <1>8, ReloadFields DEF SameUnit, Running

\* A restart runs the loaded definition, or else the file's, with the
\* environment file.
LEMMA RestartFields ==
    ASSUME NEW h \in Hosts, NEW k \in Key
    PROVE  /\ Restart(h, k) \in Hosts
           /\ \A j \in Key \ {k} : Restart(h, k)[j] = h[j]
           /\ LET r == Restart(h, k)[k] IN
                /\ r.unit = h[k].unit /\ r.env = h[k].env /\ r.enabled = h[k].enabled /\ ~r.died
                /\ r.loaded = Definition(h[k]) /\ r.procUnit = Definition(h[k]) /\ r.procEnv = h[k].env
  <1>1. h[k] \in Service /\ Launched(h[k]) \in Service BY UnitTypes DEF Hosts
  <1>2. Restart(h, k) \in Hosts /\ Restart(h, k)[k] = Launched(h[k]) BY <1>1 DEF Restart, Hosts
  <1>3. \A j \in Key \ {k} : Restart(h, k)[j] = h[j] BY DEF Restart, Hosts
  <1>4. LET r == Launched(h[k]) IN
          /\ r.unit = h[k].unit /\ r.env = h[k].env /\ r.enabled = h[k].enabled /\ ~r.died
          /\ r.loaded = Definition(h[k]) /\ r.procUnit = Definition(h[k]) /\ r.procEnv = h[k].env
    BY <1>1 DEF Launched, Service
  <1> QED BY <1>2, <1>3, <1>4

\* stopAndDisableQuiet stops and disables a unit that has a file and leaves
\* any other one alone.
LEMMA QuietStopFields ==
    ASSUME host \in Hosts, NEW k \in Key
    PROVE  /\ QuietStop(k) \in Hosts
           /\ host[k].unit = None => QuietStop(k) = host
           /\ host[k].unit # None =>
                /\ \A j \in Key \ {k} :
                     /\ SameUnit(QuietStop(k)[j], host[j])
                     /\ host[j].unit # None => QuietStop(k)[j].loaded = host[j].unit
                /\ LET r == QuietStop(k)[k] IN
                     /\ r.unit = host[k].unit /\ r.env = host[k].env /\ r.loaded = r.unit
                     /\ Idle(r) /\ ~r.enabled
  <1> DEFINE s == [Stopped(host[k]) EXCEPT !.enabled = FALSE]
             h == [host EXCEPT ![k] = s]
  <1>1. host[k] \in Service /\ Stopped(host[k]) \in Service BY UnitTypes DEF Hosts
  <1>2. s \in Service BY <1>1, UnitTypes, Zenon
  <1>3. h \in Hosts /\ h[k] = s /\ \A j \in Key \ {k} : h[j] = host[j] BY <1>2 DEF Hosts
  <1>4. /\ DaemonReload(h) \in Hosts
        /\ \A j \in Key : /\ SameUnit(DaemonReload(h)[j], h[j])
                          /\ h[j].unit # None => DaemonReload(h)[j].loaded = h[j].unit
    BY <1>3, ReloadFields, Zenon
  <1>5. s.unit = host[k].unit /\ s.env = host[k].env /\ Idle(s) /\ ~s.enabled
    BY <1>1 DEF Stopped, Idle, Running, Service
  <1>6. StopAndDisable(host, k) = DaemonReload(h) BY DEF StopAndDisable
  <1>7. host[k].unit # None => QuietStop(k) = DaemonReload(h) BY <1>6 DEF QuietStop, Exists
  <1>8. host[k].unit = None => QuietStop(k) = host BY DEF QuietStop, Exists
  <1> HIDE DEF s, h
  <1>9. QuietStop(k) \in Hosts BY <1>4, <1>7, <1>8
  <1> QED BY <1>3, <1>4, <1>5, <1>7, <1>8, <1>9 DEF SameUnit, Idle, Running

\* Everything of a unit but its two files is the same.
SameProcess(r, s) ==
    /\ r.loaded = s.loaded /\ r.procUnit = s.procUnit /\ r.procEnv = s.procEnv
    /\ r.died = s.died /\ r.enabled = s.enabled

\* A file is written for one unit, and nothing else changes.
LEMMA FileFields ==
    ASSUME NEW h \in Hosts, NEW k \in Key, NEW u \in UnitText, NEW e \in EnvText
    PROVE  /\ WriteUnit(h, k, u) \in Hosts /\ WriteEnv(h, k, e) \in Hosts
           /\ \A j \in Key \ {k} : WriteUnit(h, k, u)[j] = h[j] /\ WriteEnv(h, k, e)[j] = h[j]
           /\ LET r == WriteUnit(h, k, u)[k] IN r.unit = u /\ r.env = h[k].env /\ SameProcess(r, h[k])
           /\ LET r == WriteEnv(h, k, e)[k] IN r.unit = h[k].unit /\ r.env = e /\ SameProcess(r, h[k])
  <1> DEFINE a == [h[k] EXCEPT !.unit = u]
             b == [h[k] EXCEPT !.env = e]
  <1>1. h[k] \in Service BY DEF Hosts
  <1>2. a \in Service /\ b \in Service BY <1>1 DEF Service
  <1>3. /\ a.unit = u /\ a.env = h[k].env /\ SameProcess(a, h[k])
        /\ b.unit = h[k].unit /\ b.env = e /\ SameProcess(b, h[k])
    BY <1>1 DEF Service, SameProcess
  <1>4. WriteUnit(h, k, u) = [h EXCEPT ![k] = a] BY DEF WriteUnit
  <1>5. WriteEnv(h, k, e) = [h EXCEPT ![k] = b] BY DEF WriteEnv
  <1> HIDE DEF a, b
  <1> QED BY <1>2, <1>3, <1>4, <1>5 DEF Hosts

\* What a removal of files, whole or failed, leaves of a unit.
LEMMA RemovedFiles ==
    ASSUME host \in Hosts, NEW k \in Key,
           host' = RemoveFiles(host, k) \/ host' \in {host, RemoveUnitFile(host, k)}
    PROVE  /\ host' \in Hosts /\ \A j \in Key \ {k} : host'[j] = host[j]
           /\ SameProcess(host'[k], host[k])
           /\ host'[k].unit \in {None, host[k].unit}
           /\ host' = RemoveFiles(host, k) => host'[k].unit = None /\ host'[k].env = None
  <1> DEFINE d == [host[k] EXCEPT !.unit = None]
             c == [d EXCEPT !.env = None]
  <1>1. host[k] \in Service BY DEF Hosts
  <1>2. c \in Service /\ d \in Service BY <1>1, Zenon DEF Service
  <1>3. /\ c.unit = None /\ c.env = None /\ SameProcess(c, host[k])
        /\ d.unit = None /\ SameProcess(d, host[k])
    BY <1>1 DEF Service, SameProcess
  <1>4. RemoveUnitFile(host, k) = [host EXCEPT ![k] = d] BY DEF RemoveUnitFile
  <1>5. RemoveFiles(host, k) = [host EXCEPT ![k] = c]
    <2>1. RemoveFiles(host, k) = [[host EXCEPT ![k] = d] EXCEPT ![k].env = None] BY DEF RemoveFiles
    <2>2. [host EXCEPT ![k] = d][k] = d BY DEF Hosts
    <2>3. RemoveFiles(host, k) = [[host EXCEPT ![k] = d] EXCEPT ![k] = c] BY <2>1, <2>2, Zenon
    <2> QED BY <2>3, Zenon DEF Hosts
  <1> HIDE DEF c, d
  <1> QED BY <1>2, <1>3, <1>4, <1>5 DEF Hosts, SameProcess

(***************************************************************************)
(* The pass and its type.                                                  *)
(***************************************************************************)
Observations == {"none", "running", "stopped", "error"}

\* The parts of a pass that a step within an item leaves alone.
SamePass ==
    /\ pass'.items = pass.items /\ pass'.todo = pass.todo /\ pass'.key = pass.key
    /\ pass'.now = pass.now /\ pass'.obs = pass.obs

\* appendAndContinue gives the item in hand its result and lets go of it.
LEMMA AppendFields ==
    ASSUME pass \in Pass, pass.key \in Key, NEW o \in Observations, NEW e \in Managed,
           AppendObservation(o, e)
    PROVE  /\ pass' \in Pass /\ pass'.pc = "next" /\ pass'.key = None
           /\ pass'.items = pass.items /\ pass'.todo = pass.todo
           /\ pass'.now = [pass.now EXCEPT ![pass.key] = e]
           /\ pass'.obs = [pass.obs EXCEPT ![pass.key] = o]
  <1> DEFINE p == [pass EXCEPT !.pc = "next", !.key = None, !.entry = Unmanaged,
                               !.unitChanged = FALSE, !.envChanged = FALSE]
             q == [p EXCEPT !.obs = [pass.obs EXCEPT ![pass.key] = o]]
             r == [q EXCEPT !.now = [pass.now EXCEPT ![pass.key] = e]]
  <1>1. Unmanaged \in Managed BY DEF Unmanaged, Managed
  <1>2. /\ p \in Pass /\ p.pc = "next" /\ p.key = None /\ p.items = pass.items
        /\ p.todo = pass.todo /\ p.now = pass.now /\ p.obs = pass.obs
    BY <1>1, Zenon DEF Pass
  <1>3. /\ [pass.obs EXCEPT ![pass.key] = o] \in [Key -> Observations]
        /\ [pass.now EXCEPT ![pass.key] = e] \in [Key -> Managed]
    BY DEF Pass, Observations
  <1>4. pass' = r
    <2>1. pass' = [[p EXCEPT !.obs[pass.key] = o] EXCEPT !.now[pass.key] = e]
      BY DEF AppendObservation
    <2>2. [p EXCEPT !.obs[pass.key] = o] = q BY <1>2
    <2>3. q.now = pass.now BY <1>2, <1>3 DEF Pass, Observations
    <2> QED BY <2>1, <2>2, <2>3
  <1> HIDE DEF p
  <1>5. /\ q \in Pass /\ q.pc = "next" /\ q.key = None /\ q.items = pass.items
        /\ q.todo = pass.todo /\ q.obs = [pass.obs EXCEPT ![pass.key] = o]
    BY <1>2, <1>3 DEF Pass, Observations
  <1> HIDE DEF q
  <1>6. /\ r \in Pass /\ r.pc = "next" /\ r.key = None /\ r.items = pass.items /\ r.todo = pass.todo
        /\ r.now = [pass.now EXCEPT ![pass.key] = e] /\ r.obs = [pass.obs EXCEPT ![pass.key] = o]
    BY <1>3, <1>5 DEF Pass
  <1> QED BY <1>4, <1>6

FaultsGrow ==
    /\ faults' \in SUBSET FaultKinds /\ faults \subseteq faults'
    /\ left' \in [faults: 0 .. MaxFaults, changes: 0 .. MaxChanges]

\* Faults are remembered and their budget stays one.
LEMMA FaultType ==
    ASSUME TypeOK, NoFault \/ \E kind \in FaultKinds : Fault(kind)
    PROVE  FaultsGrow
  <1>1. CASE NoFault BY <1>1 DEF NoFault, TypeOK, FaultsGrow
  <1>2. ASSUME NEW kind \in FaultKinds, Fault(kind)
        PROVE  FaultsGrow
    BY <1>2, AgentAssumption DEF Fault, TypeOK, FaultsGrow
  <1> QED BY <1>1, <1>2

\* A step within an item keeps the pass in order.
LEMMA WithinItem ==
    ASSUME TypeOK, PassInv, pass.pc \in ItemPc,
           pass' \in Pass, SamePass, pass'.pc \in ItemPc, pass'.entry.in,
           pass'.pc = "reload" => pass'.unitChanged,
           UNCHANGED <<desired, agentMemory, reported>>,
           recent' \in SUBSET Key, host' \in Hosts, FaultsGrow
    PROVE  TypeOK' /\ PassInv'
  <1>1. TypeOK' BY DEF TypeOK, agentMemory, Hosts, FaultsGrow, ETag, NoETag
  <1>2. PassInv'
    BY DEF PassInv, SamePass, ItemPc, RemovalPc, Acting, agentMemory, FaultsGrow, NoPass
  <1> QED BY <1>1, <1>2

\* The item in hand has the result o.
Ended(o) ==
    /\ pass'.pc = "next" /\ pass'.key = None /\ pass'.now[pass.key].in
    /\ \A j \in Key \ {pass.key} : pass'.now[j] = pass.now[j] /\ pass'.obs[j] = pass.obs[j]
    /\ pass'.obs[pass.key] = o /\ pass'.items = pass.items /\ pass'.todo = pass.todo

\* So does the end of an item.
LEMMA ItemEnds ==
    ASSUME TypeOK, PassInv, pass.pc \in ItemPc, NEW o \in Observations,
           AppendObservation(o, pass.entry),
           UNCHANGED <<desired, agentMemory, recent, reported>>,
           host' \in Hosts, FaultsGrow
    PROVE  TypeOK' /\ PassInv' /\ Ended(o)
  <1>1. pass \in Pass /\ pass.key \in Key /\ pass.entry \in Managed /\ pass.entry.in
        /\ pass.now \in [Key -> Managed] /\ pass.obs \in [Key -> Observations]
    BY DEF TypeOK, PassInv, Pass, Observations
  <1>2. /\ pass' \in Pass /\ pass'.pc = "next" /\ pass'.key = None
        /\ pass'.items = pass.items /\ pass'.todo = pass.todo
        /\ pass'.now = [pass.now EXCEPT ![pass.key] = pass.entry]
        /\ pass'.obs = [pass.obs EXCEPT ![pass.key] = o]
    BY <1>1, AppendFields
  <1>3. /\ pass'.now[pass.key] = pass.entry /\ pass'.obs[pass.key] = o
        /\ \A j \in Key \ {pass.key} : pass'.now[j] = pass.now[j] /\ pass'.obs[j] = pass.obs[j]
    BY <1>1, <1>2
  <1>4. TypeOK' BY <1>2 DEF TypeOK, agentMemory, Hosts, FaultsGrow, ETag, NoETag
  <1>5. None \notin Key /\ pass.todo \subseteq Key BY AgentAssumption DEF TypeOK, Pass
  <1>6. PassInv'
    BY <1>1, <1>2, <1>3, <1>5 DEF PassInv, ItemPc, RemovalPc, Acting, agentMemory, FaultsGrow
  <1> QED BY <1>1, <1>2, <1>3, <1>4, <1>6 DEF Ended

\* GoTo keeps everything but where the pass stands.
LEMMA GoToFields ==
    ASSUME pass \in Pass, NEW pc, GoTo(pc),
           pc \in ItemPc \cup RemovalPc \cup {"idle", "next", "removals", "send"}
    PROVE  /\ pass' \in Pass /\ pass'.pc = pc /\ SamePass /\ pass'.entry = pass.entry
           /\ pass'.unitChanged = pass.unitChanged /\ pass'.envChanged = pass.envChanged
  BY DEF GoTo, Pass, SamePass, ItemPc, Acting, RemovalPc

(***************************************************************************)
(* Steps within an item and at its end, for the units.                     *)
(***************************************************************************)
\* What Kept and Sound say of the item in hand.
KeptItem ==
    LET s == host[pass.key] IN
    /\ s.unit = None => Clean(s) /\ Idle(s)
    /\ pass.pc \in {"env", "reload"} \cup Acting => s.unit # None
    /\ pass.pc = "discard" => Idle(s) /\ ~s.enabled

SoundItem ==
    LET s == host[pass.key] IN
    /\ ~Idle(s) => s.unit # None
    /\ pass.pc \in {"discard", "discarded"} => Idle(s)
    /\ pass.pc \in {"unit", "env", "reload", "act"} /\ ~Entry.in => Idle(s)
    /\ pass.pc \in {"env", "reload"} \cup Acting => s.unit = UnitOf[Item]
    /\ pass.pc \in {"reload"} \cup Acting => s.env = EnvOf[Item]
    /\ s.unit = None \/ s.loaded \in {None, s.unit} \/ LoadedBehind
    /\ Running(s) => Fresh(s) \/ ProcessBehind

\* The other units are at most reloaded.
OthersKept(k) ==
    \A j \in Key \ {k} :
        /\ SameUnit(host'[j], host[j])
        /\ host'[j].loaded = host[j].loaded \/ (host[j].unit # None => host'[j].loaded = host[j].unit)

\* A premise about the faults so far was true before if it is true now.
LEMMA Monotone ==
    ASSUME FaultsGrow
    PROVE  (Keeping' => Keeping) /\ (Faithful' => Faithful)
  BY DEF FaultsGrow, Keeping, Faithful, StateLost

\* A step within an item that is right for its unit is right for all.
LEMMA WithinItemKept ==
    ASSUME TypeOK, PassInv, pass.pc \in ItemPc, Kept, SamePass, pass'.pc \in ItemPc,
           managed' = managed, OthersKept(pass.key), KeptItem'
    PROVE  Kept'
  <1>1. pass.key \in Key BY DEF PassInv
  <1>2. \A j \in Key \ {pass.key} : /\ Clean(host'[j]) <=> Clean(host[j])
                                    /\ Idle(host'[j]) <=> Idle(host[j])
                                    /\ host'[j].unit = host[j].unit
    BY DEF OthersKept, SameUnit, Clean, Idle, Running
  <1> QED BY <1>1, <1>2 DEF Kept, KeptItem, SamePass, ItemPc, RemovalPc, Acting

\* The same for Sound.
LEMMA WithinItemSound ==
    ASSUME TypeOK, PassInv, pass.pc \in ItemPc, Sound, SamePass, pass'.pc \in ItemPc,
           managed' = managed, OthersKept(pass.key), SoundItem'
    PROVE  Sound'
  <1>1. pass.key \in Key /\ pass.obs[pass.key] # "running" BY DEF PassInv
  <1>2. \A j \in Key \ {pass.key} : /\ Running(host'[j]) <=> Running(host[j])
                                    /\ Idle(host'[j]) <=> Idle(host[j])
                                    /\ Fresh(host'[j]) <=> Fresh(host[j])
                                    /\ host'[j].unit = host[j].unit /\ host'[j].env = host[j].env
                                    /\ host'[j].loaded = host[j].loaded
                                       \/ (host[j].unit # None => host'[j].loaded = host[j].unit)
    BY DEF OthersKept, SameUnit, Fresh, Idle, Running
  <1>3. pass'.key = pass.key /\ pass'.obs = pass.obs /\ pass'.items = pass.items /\ pass'.now = pass.now
    BY DEF SamePass
  <1>4. Entry' = managed[pass.key] /\ Item' = Item BY <1>3 DEF Entry, Item
  <1>5. ASSUME NEW k \in Key
        PROVE  host'[k].unit = None \/ host'[k].loaded \in {None, host'[k].unit}
               \/ (pass'.key = k /\ LoadedBehind')
    <2>1. CASE k = pass.key BY <1>3, <2>1, Zenon DEF SoundItem
    <2>2. CASE k # pass.key
      <3>1. host[k].unit = None \/ host[k].loaded \in {None, host[k].unit} BY <2>2, Zenon DEF Sound
      <3> QED BY <1>2, <2>2, <3>1
    <2> QED BY <2>1, <2>2, Zenon
  <1>6. \A k \in Key : Running(host'[k]) => Fresh(host'[k]) \/ (pass'.key = k /\ ProcessBehind')
    BY <1>1, <1>2, <1>3, Zenon DEF Sound, SoundItem
  <1>7. \A k \in Key : pass'.obs[k] = "running" =>
          host'[k].unit = UnitOf[pass'.items[k]] /\ host'[k].env = EnvOf[pass'.items[k]]
    BY <1>1, <1>2, <1>3 DEF Sound
  <1>8. \A k \in Key : ~Idle(host'[k]) => /\ managed'[k].in \/ pass'.now[k].in \/ pass'.key = k
                                          /\ host'[k].unit # None
    BY <1>1, <1>2, <1>3 DEF Sound, SoundItem
  <1> QED BY <1>4, <1>5, <1>6, <1>7, <1>8 DEF Sound, SoundItem, ItemPc, RemovalPc, Acting

\* An item may end with its unit untouched or clean.
LEMMA ItemEndsKept ==
    ASSUME TypeOK, PassInv, pass.pc \in ItemPc, Kept, NEW o, Ended(o),
           managed' = managed, OthersKept(pass.key),
           host'[pass.key].unit = None => Clean(host'[pass.key]) /\ Idle(host'[pass.key])
    PROVE  Kept'
  <1>1. pass.key \in Key BY DEF PassInv
  <1>2. \A j \in Key \ {pass.key} : /\ Clean(host'[j]) <=> Clean(host[j])
                                    /\ Idle(host'[j]) <=> Idle(host[j])
                                    /\ host'[j].unit = host[j].unit
    BY DEF OthersKept, SameUnit, Clean, Idle, Running
  <1> QED BY <1>1, <1>2 DEF Kept, Ended, ItemPc, RemovalPc, Acting

\* An item may end with nothing old left, and with the files of its spec if
\* its process is reported as started.
LEMMA ItemEndsSound ==
    ASSUME TypeOK, PassInv, pass.pc \in ItemPc, Sound, NEW o, Ended(o),
           managed' = managed, OthersKept(pass.key),
           ~Idle(host'[pass.key]) => host'[pass.key].unit # None,
           host'[pass.key].unit = None \/ host'[pass.key].loaded \in {None, host'[pass.key].unit},
           Running(host'[pass.key]) => Fresh(host'[pass.key]),
           o = "running" => host'[pass.key].unit = UnitOf[Item] /\ host'[pass.key].env = EnvOf[Item]
    PROVE  Sound'
  <1>1. pass.key \in Key BY DEF PassInv
  <1>2. \A j \in Key \ {pass.key} : /\ Running(host'[j]) <=> Running(host[j])
                                    /\ Idle(host'[j]) <=> Idle(host[j])
                                    /\ Fresh(host'[j]) <=> Fresh(host[j])
                                    /\ host'[j].unit = host[j].unit /\ host'[j].env = host[j].env
                                    /\ host'[j].loaded = host[j].loaded
                                       \/ (host[j].unit # None => host'[j].loaded = host[j].unit)
    BY DEF OthersKept, SameUnit, Fresh, Idle, Running
  <1>3. \A k \in Key : host'[k].unit = None \/ host'[k].loaded \in {None, host'[k].unit}
    BY <1>1, <1>2 DEF Sound
  <1>4. \A k \in Key : Running(host'[k]) => Fresh(host'[k]) BY <1>1, <1>2 DEF Sound
  <1>5. \A k \in Key : pass'.obs[k] = "running" =>
          host'[k].unit = UnitOf[pass'.items[k]] /\ host'[k].env = EnvOf[pass'.items[k]]
    BY <1>1, <1>2 DEF Sound, Ended, Item
  <1>6. \A k \in Key : ~Idle(host'[k]) => /\ managed'[k].in \/ pass'.now[k].in \/ pass'.key = k
                                          /\ host'[k].unit # None
    BY <1>1, <1>2 DEF Sound, Ended
  <1> QED BY <1>3, <1>4, <1>5, <1>6, Zenon DEF Sound, Ended, RemovalPc, Acting

\* What is known of the item in hand.
LEMMA InHand ==
    ASSUME IInv, pass.pc \in ItemPc
    PROVE  /\ TypeOK /\ PassInv /\ pass \in Pass /\ host \in Hosts
           /\ pass.key \in Key /\ host[pass.key] \in Service /\ pass.entry \in Managed /\ pass.entry.in
           /\ Item \in ProcessSpec /\ UnitOf[Item] \in UnitText /\ EnvOf[Item] \in EnvText
           /\ UnitOf[Item] # None /\ EnvOf[Item] # None
           /\ Keeping => Kept /\ KeptItem
           /\ Faithful => Sound /\ SoundItem
  <1>1. /\ TypeOK /\ PassInv /\ pass \in Pass /\ host \in Hosts
        /\ pass.key \in Key /\ host[pass.key] \in Service /\ pass.entry \in Managed /\ pass.entry.in
        /\ Item \in ProcessSpec
    BY DEF IInv, TypeOK, PassInv, Pass, Hosts, Item
  <1>2. UnitOf[Item] \in UnitText /\ EnvOf[Item] \in EnvText /\ UnitOf[Item] # None /\ EnvOf[Item] # None
    BY <1>1, AgentAssumption
  <1>3. Kept => KeptItem BY <1>1, Zenon DEF Kept, KeptItem
  <1>4. Sound => SoundItem BY <1>1, Zenon DEF Sound, SoundItem
  <1> QED BY <1>1, <1>2, <1>3, <1>4 DEF IInv, KeptInv, SoundInv

\* A step within an item is right if it is right for its unit.
LEMMA ItemStep ==
    ASSUME IInv, pass.pc \in ItemPc, pass' \in Pass, SamePass, pass'.pc \in ItemPc,
           pass'.entry.in, pass'.pc = "reload" => pass'.unitChanged,
           UNCHANGED <<desired, agentMemory, reported>>, recent' \in SUBSET Key, FaultsGrow,
           host' \in Hosts, OthersKept(pass.key),
           Keeping' => KeptItem', Faithful' => SoundItem'
    PROVE  IInv'
  <1>1. TypeOK /\ PassInv /\ KeptInv /\ SoundInv /\ managed' = managed BY DEF IInv, agentMemory
  <1>2. TypeOK' /\ PassInv' BY <1>1, WithinItem
  <1>3. (Keeping' => Keeping) /\ (Faithful' => Faithful) BY Monotone
  <1>4. ASSUME Keeping' PROVE Kept'
    BY <1>1, <1>3, <1>4, WithinItemKept DEF KeptInv
  <1>5. ASSUME Faithful' PROVE Sound'
    BY <1>1, <1>3, <1>5, WithinItemSound DEF SoundInv
  <1> QED BY <1>2, <1>4, <1>5 DEF IInv, KeptInv, SoundInv

\* A failure leaves the files alone; whatever else it leaves will be stopped.
LEMMA FailureStep ==
    ASSUME IInv, pass.pc \in ItemPc, pass' \in Pass, SamePass, pass'.pc = "fail",
           pass'.entry.in,
           UNCHANGED <<desired, agentMemory, reported>>, recent' \in SUBSET Key, FaultsGrow,
           host' \in Hosts, OthersKept(pass.key),
           host'[pass.key].unit = host[pass.key].unit,
           host[pass.key].unit = None => host' = host
    PROVE  IInv'
  <1>1. /\ pass.key \in Key
        /\ Keeping => Kept /\ KeptItem
        /\ Faithful => Sound /\ SoundItem
    BY InHand
  <1>2. (Keeping' => Keeping) /\ (Faithful' => Faithful) BY Monotone
  <1>3. pass'.key = pass.key BY DEF SamePass
  <1>4. ASSUME Keeping' PROVE KeptItem'
    BY <1>1, <1>2, <1>3, <1>4 DEF KeptItem, Acting
  <1>5. ASSUME Faithful' PROVE SoundItem'
    BY <1>1, <1>2, <1>3, <1>5 DEF SoundItem, LoadedBehind, ProcessBehind, Acting
  <1> QED BY <1>4, <1>5, ItemStep DEF ItemPc

\* The end of an item is right if it leaves nothing old of its unit.
LEMMA EndStep ==
    ASSUME IInv, pass.pc \in ItemPc, NEW o \in Observations, AppendObservation(o, pass.entry),
           UNCHANGED <<desired, agentMemory, recent, reported>>, FaultsGrow,
           host' \in Hosts, OthersKept(pass.key),
           Keeping' => (host'[pass.key].unit = None => Clean(host'[pass.key]) /\ Idle(host'[pass.key])),
           Faithful' =>
             LET r == host'[pass.key] IN
             /\ ~Idle(r) => r.unit # None
             /\ r.unit = None \/ r.loaded \in {None, r.unit}
             /\ Running(r) => Fresh(r)
             /\ o = "running" => r.unit = UnitOf[Item] /\ r.env = EnvOf[Item]
    PROVE  IInv'
  <1>1. TypeOK /\ PassInv /\ KeptInv /\ SoundInv /\ managed' = managed BY DEF IInv, agentMemory
  <1>2. TypeOK' /\ PassInv' /\ Ended(o) BY <1>1, ItemEnds
  <1>3. (Keeping' => Keeping) /\ (Faithful' => Faithful) BY Monotone
  <1>4. ASSUME Keeping' PROVE Kept'
    BY <1>1, <1>2, <1>3, <1>4, ItemEndsKept DEF KeptInv
  <1>5. ASSUME Faithful' PROVE Sound'
    BY <1>1, <1>2, <1>3, <1>5, ItemEndsSound DEF SoundInv
  <1> QED BY <1>2, <1>4, <1>5 DEF IInv, KeptInv, SoundInv

(***************************************************************************)
(* The actions of an item.                                                 *)
(***************************************************************************)
\* Writing the unit file: an old definition, or process, is of an item whose
\* unit has changed.
LEMMA EnsureUnitStep == ASSUME IInv, EnsureUnit PROVE IInv'
  <1> DEFINE k == pass.key
  <1>1. pass.pc = "unit" /\ pass.pc \in ItemPc /\ UNCHANGED <<desired, agentMemory, recent, reported>>
    BY DEF EnsureUnit, ItemPc
  <1>2. /\ TypeOK /\ pass \in Pass /\ host \in Hosts
        /\ k \in Key /\ host[k] \in Service /\ pass.entry \in Managed /\ pass.entry.in
        /\ UnitOf[Item] \in UnitText /\ UnitOf[Item] # None /\ EnvOf[Item] \in EnvText
        /\ Faithful => Sound /\ SoundItem
    BY <1>1, InHand
  <1>3. managed' = managed /\ recent' \in SUBSET Key BY <1>1, <1>2 DEF agentMemory, TypeOK
  <1>4. CASE /\ host' = WriteUnit(host, k, UnitOf[Item])
             /\ pass' = [pass EXCEPT !.pc = "env", !.unitChanged = host[k].unit # UnitOf[Item]]
             /\ NoFault
    <2>1. /\ pass' \in Pass /\ SamePass /\ pass'.pc = "env" /\ pass'.entry = pass.entry
          /\ pass'.unitChanged = (host[k].unit # UnitOf[Item])
      BY <1>2, <1>4, Zenon DEF Pass, SamePass
    <2>2. /\ host' \in Hosts /\ OthersKept(k)
          /\ host'[k].unit = UnitOf[Item] /\ host'[k].env = host[k].env /\ SameProcess(host'[k], host[k])
      BY <1>2, <1>4, FileFields DEF OthersKept, SameUnit
    <2>3. FaultsGrow /\ (Faithful' => Faithful) BY <1>2, <1>4, FaultType, Monotone
    <2>4. pass'.key = k /\ Item' = Item /\ Entry' = Entry BY <1>3, <2>1 DEF SamePass, Item, Entry
    <2>5. KeptItem' BY <1>2, <2>1, <2>2, <2>4 DEF KeptItem
    <2>6. Faithful' => SoundItem'
      BY <1>1, <1>2, <2>1, <2>2, <2>3, <2>4, ZenonT(30)
      DEF SoundItem, SameProcess, Idle, Running, Fresh, LoadedBehind, ProcessBehind, Acting
    <2> QED BY <1>1, <1>2, <1>3, <2>1, <2>2, <2>3, <2>5, <2>6, ItemStep DEF ItemPc
  <1>5. CASE Fault("write") /\ GoTo("fail") /\ UNCHANGED host
    <2>1. pass' \in Pass /\ SamePass /\ pass'.pc = "fail" /\ pass'.entry = pass.entry
      BY <1>2, <1>5, GoToFields DEF ItemPc
    <2>2. FaultsGrow /\ OthersKept(k) BY <1>2, <1>5, FaultType DEF Fault, OthersKept, SameUnit
    <2> QED BY <1>1, <1>2, <1>3, <1>5, <2>1, <2>2, FailureStep
  <1> QED BY <1>4, <1>5 DEF EnsureUnit

\* Writing the environment file: a changed one makes the process an old one.
LEMMA EnsureEnvStep == ASSUME IInv, EnsureEnv PROVE IInv'
  <1> DEFINE k == pass.key
  <1>1. pass.pc = "env" /\ pass.pc \in ItemPc /\ UNCHANGED <<desired, agentMemory, recent, reported>>
    BY DEF EnsureEnv, ItemPc
  <1>2. /\ TypeOK /\ pass \in Pass /\ host \in Hosts
        /\ k \in Key /\ host[k] \in Service /\ pass.entry \in Managed /\ pass.entry.in
        /\ UnitOf[Item] \in UnitText /\ EnvOf[Item] \in EnvText
        /\ Keeping => Kept /\ KeptItem
        /\ Faithful => Sound /\ SoundItem
    BY <1>1, InHand
  <1>3. managed' = managed /\ recent' \in SUBSET Key BY <1>1, <1>2 DEF agentMemory, TypeOK
  <1>4. CASE /\ host' = WriteEnv(host, k, EnvOf[Item])
             /\ pass' = [pass EXCEPT !.pc = IF pass.unitChanged THEN "reload" ELSE "act",
                                     !.envChanged = host[k].env # EnvOf[Item]]
             /\ NoFault
    <2>1. /\ pass' \in Pass /\ SamePass /\ pass'.entry = pass.entry
          /\ pass'.pc = IF pass.unitChanged THEN "reload" ELSE "act"
          /\ pass'.unitChanged = pass.unitChanged
          /\ pass'.envChanged = (host[k].env # EnvOf[Item])
      BY <1>2, <1>4, Zenon DEF Pass, SamePass
    <2>2. /\ host' \in Hosts /\ OthersKept(k)
          /\ host'[k].unit = host[k].unit /\ host'[k].env = EnvOf[Item] /\ SameProcess(host'[k], host[k])
      BY <1>2, <1>4, FileFields DEF OthersKept, SameUnit
    <2>3. FaultsGrow /\ (Keeping' => Keeping) /\ (Faithful' => Faithful)
      BY <1>2, <1>4, FaultType, Monotone
    <2>4. pass'.key = k /\ Item' = Item /\ Entry' = Entry BY <1>3, <2>1 DEF SamePass, Item, Entry
    <2>5. Keeping' => KeptItem' BY <1>1, <1>2, <2>1, <2>2, <2>3, <2>4 DEF KeptItem
    <2>6. Faithful' => SoundItem'
      BY <1>1, <1>2, <2>1, <2>2, <2>3, <2>4, ZenonT(30)
      DEF SoundItem, SameProcess, Idle, Running, Fresh, LoadedBehind, ProcessBehind, FilesChanged, Acting
    <2> QED BY <1>1, <1>2, <1>3, <2>1, <2>2, <2>3, <2>5, <2>6, ItemStep DEF ItemPc, Acting
  <1>5. CASE Fault("write") /\ GoTo("fail") /\ UNCHANGED host
    <2>1. pass' \in Pass /\ SamePass /\ pass'.pc = "fail" /\ pass'.entry = pass.entry
      BY <1>2, <1>5, GoToFields DEF ItemPc
    <2>2. FaultsGrow /\ OthersKept(k) BY <1>2, <1>5, FaultType DEF Fault, OthersKept, SameUnit
    <2> QED BY <1>1, <1>2, <1>3, <1>5, <2>1, <2>2, FailureStep
  <1> QED BY <1>4, <1>5 DEF EnsureEnv

\* The reload brings the loaded definition up to the unit file.
LEMMA ReloadStep == ASSUME IInv, Reload PROVE IInv'
  <1> DEFINE k == pass.key
  <1>1. pass.pc = "reload" /\ pass.pc \in ItemPc /\ UNCHANGED <<desired, agentMemory, recent, reported>>
    BY DEF Reload, ItemPc
  <1>2. /\ TypeOK /\ PassInv /\ pass \in Pass /\ host \in Hosts
        /\ k \in Key /\ host[k] \in Service /\ pass.entry \in Managed /\ pass.entry.in
        /\ UnitOf[Item] # None
        /\ Keeping => Kept /\ KeptItem
        /\ Faithful => Sound /\ SoundItem
    BY <1>1, InHand
  <1>3. managed' = managed /\ recent' \in SUBSET Key BY <1>1, <1>2 DEF agentMemory, TypeOK
  <1>4. /\ pass' \in Pass /\ SamePass /\ pass'.pc = "act" /\ pass'.entry = pass.entry
        /\ pass'.unitChanged
    BY <1>1, <1>2, GoToFields DEF Reload, ItemPc, Acting, PassInv
  <1>5. FaultsGrow /\ (Keeping' => Keeping) /\ (Faithful' => Faithful)
    BY <1>2, FaultType, Monotone DEF Reload, Fault
  <1>6. /\ host' \in Hosts /\ OthersKept(k) /\ SameUnit(host'[k], host[k])
        /\ Faithful' => (host[k].unit # None => host'[k].loaded = host[k].unit)
    <2>1. CASE host' = DaemonReload(host) BY <1>2, <2>1, ReloadFields DEF OthersKept
    <2>2. CASE Fault("reload") /\ UNCHANGED host
      BY <1>2, <2>2 DEF OthersKept, SameUnit, Fault, Faithful
    <2> QED BY <2>1, <2>2 DEF Reload
  <1>7. pass'.key = k /\ Item' = Item /\ Entry' = Entry BY <1>3, <1>4 DEF SamePass, Item, Entry
  <1>8. Keeping' => KeptItem'
    BY <1>1, <1>2, <1>4, <1>5, <1>6, <1>7, Zenon DEF KeptItem, SameUnit
  <1>9. Faithful' => SoundItem'
    BY <1>1, <1>2, <1>4, <1>5, <1>6, <1>7, Zenon
    DEF SoundItem, SameUnit, Idle, Running, Fresh, LoadedBehind, ProcessBehind, FilesChanged, Acting
  <1> QED BY <1>1, <1>2, <1>3, <1>4, <1>5, <1>6, <1>8, <1>9, ItemStep DEF ItemPc, Acting

\* Marking an action keeps the item in hand.
LEMMA ActionFields ==
    ASSUME IInv, pass.pc \in ItemPc, NEW pc \in ItemPc, ActionDone(pc)
    PROVE  /\ pass' \in Pass /\ SamePass /\ pass'.pc = pc /\ pass'.entry.in
           /\ pass'.unitChanged = pass.unitChanged /\ recent' \in SUBSET Key
  <1>1. /\ TypeOK /\ pass \in Pass /\ pass.key \in Key /\ Item \in ProcessSpec
        /\ pass.entry \in Managed /\ pass.entry.in
    BY InHand
  <1>2. markAction(pass.entry, Item) \in Managed /\ markAction(pass.entry, Item).in
    BY <1>1 DEF markAction, Managed
  <1>3. pc \in {"idle", "next", "unit", "env", "reload", "act", "show", "drift", "reshow", "fail",
                "invalid", "discard", "discarded", "removals", "remove", "removed", "send"}
    BY DEF ItemPc, Acting
  <1> QED BY <1>1, <1>2, <1>3, Zenon DEF ActionDone, Pass, SamePass, TypeOK

\* A start that fails may have enabled the unit.
LEMMA StartFailsFields ==
    ASSUME host \in Hosts, NEW k \in Key, host' \in {host, [host EXCEPT ![k].enabled = TRUE]}
    PROVE  host' \in Hosts /\ OthersKept(k) /\ host'[k].unit = host[k].unit
  <1>1. host[k] \in Service /\ [host[k] EXCEPT !.enabled = TRUE] \in Service BY UnitTypes, Zenon DEF Hosts
  <1>2. [host[k] EXCEPT !.enabled = TRUE].unit = host[k].unit BY <1>1 DEF Service
  <1>3. host' = host \/ host' = [host EXCEPT ![k] = [host[k] EXCEPT !.enabled = TRUE]] OBVIOUS
  <1>4. host' \in Hosts /\ host'[k].unit = host[k].unit /\ \A j \in Key \ {k} : host'[j] = host[j]
    BY <1>1, <1>2, <1>3, Zenon DEF Hosts
  <1> QED BY <1>4 DEF OthersKept, SameUnit

\* A unit the agent did not manage is not running, so that enable --now runs
\* the files as they are.
LEMMA ActStartStep == ASSUME IInv, ActStart PROVE IInv'
  <1> DEFINE k == pass.key
  <1>1. /\ pass.pc = "act" /\ pass.pc \in ItemPc /\ ~Entry.in
        /\ UNCHANGED <<desired, agentMemory, reported>>
    BY DEF ActStart, ItemPc, Acting
  <1>2. /\ TypeOK /\ pass \in Pass /\ host \in Hosts
        /\ k \in Key /\ host[k] \in Service /\ pass.entry \in Managed /\ pass.entry.in
        /\ UnitOf[Item] # None
        /\ Keeping => Kept /\ KeptItem
        /\ Faithful => Sound /\ SoundItem
    BY <1>1, InHand, Zenon
  <1>3. managed' = managed BY <1>1 DEF agentMemory
  <1>4. CASE host' = EnableAndStart(host, k) /\ ActionDone("show") /\ NoFault
    <2>1. /\ pass' \in Pass /\ SamePass /\ pass'.pc = "show" /\ pass'.entry.in
          /\ recent' \in SUBSET Key
      BY <1>1, <1>4, ActionFields, Zenon DEF ItemPc, Acting
    <2>2. FaultsGrow /\ (Keeping' => Keeping) /\ (Faithful' => Faithful)
      BY <1>2, <1>4, FaultType, Monotone
    <2>3. /\ host' \in Hosts /\ OthersKept(k)
          /\ host'[k].unit = host[k].unit /\ host'[k].env = host[k].env
          /\ host[k].unit # None => host'[k].loaded = host[k].unit
          /\ ~Running(host[k]) /\ host[k].unit # None => Fresh(host'[k]) /\ ~host'[k].died
      BY <1>2, <1>4, StartFields, Zenon DEF OthersKept
    <2>4. pass'.key = k /\ Item' = Item BY <2>1 DEF SamePass, Item
    <2>5. Keeping' => KeptItem' BY <1>1, <1>2, <2>1, <2>2, <2>3, <2>4, Zenon DEF KeptItem, Acting
    <2>6. Faithful' => SoundItem'
      BY <1>1, <1>2, <2>1, <2>2, <2>3, <2>4, Zenon DEF SoundItem, Idle, Acting
    <2> QED BY <1>1, <2>1, <2>2, <2>3, <2>5, <2>6, ItemStep, Zenon DEF ItemPc, Acting
  <1>5. CASE /\ Fault("start") /\ GoTo("fail") /\ UNCHANGED recent
             /\ host' \in {host, [host EXCEPT ![k].enabled = TRUE]}
    <2>1. pass' \in Pass /\ SamePass /\ pass'.pc = "fail" /\ pass'.entry.in
      BY <1>2, <1>5, GoToFields DEF ItemPc
    <2>2. FaultsGrow /\ (Keeping' => Keeping) /\ (Faithful' => Faithful)
      BY <1>2, <1>5, FaultType, Monotone DEF Fault
    <2>3. host' \in Hosts /\ OthersKept(k) /\ host'[k].unit = host[k].unit
      BY <1>2, <1>5, StartFailsFields
    <2>4. recent' \in SUBSET Key BY <1>2, <1>5 DEF TypeOK
    <2>5. pass'.key = k /\ Item' = Item BY <2>1 DEF SamePass, Item
    <2>6. Keeping' => KeptItem' BY <1>1, <1>2, <2>1, <2>2, <2>3, <2>5, Zenon DEF KeptItem, Acting
    <2>7. Faithful' => SoundItem'
      BY <1>1, <1>2, <2>1, <2>2, <2>3, <2>5, Zenon DEF SoundItem, LoadedBehind, ProcessBehind, Acting
    <2> QED BY <1>1, <2>1, <2>2, <2>3, <2>4, <2>6, <2>7, ItemStep, Zenon DEF ItemPc
  <1> QED BY <1>4, <1>5 DEF ActStart

\* The definition is up to the unit file by now, so that a restart runs the
\* files as they are.
LEMMA ActRestartStep == ASSUME IInv, ActRestart PROVE IInv'
  <1> DEFINE k == pass.key
  <1>1. /\ pass.pc = "act" /\ pass.pc \in ItemPc /\ Entry.in
        /\ UNCHANGED <<desired, agentMemory, reported>>
    BY DEF ActRestart, ItemPc, Acting
  <1>2. /\ TypeOK /\ pass \in Pass /\ host \in Hosts
        /\ k \in Key /\ host[k] \in Service /\ pass.entry \in Managed /\ pass.entry.in
        /\ UnitOf[Item] # None
        /\ Keeping => Kept /\ KeptItem
        /\ Faithful => Sound /\ SoundItem
    BY <1>1, InHand
  <1>3. managed' = managed BY <1>1 DEF agentMemory
  <1>4. CASE host' = Restart(host, k) /\ ActionDone("show") /\ NoFault
    <2>1. /\ pass' \in Pass /\ SamePass /\ pass'.pc = "show" /\ pass'.entry.in
          /\ recent' \in SUBSET Key
      BY <1>1, <1>4, ActionFields DEF ItemPc, Acting
    <2>2. FaultsGrow /\ (Keeping' => Keeping) /\ (Faithful' => Faithful)
      BY <1>2, <1>4, FaultType, Monotone
    <2>3. /\ host' \in Hosts /\ \A j \in Key \ {k} : host'[j] = host[j]
          /\ host'[k].unit = host[k].unit /\ host'[k].env = host[k].env
          /\ host'[k].loaded = Definition(host[k]) /\ host'[k].procUnit = Definition(host[k])
          /\ host'[k].procEnv = host[k].env
      BY <1>2, <1>4, RestartFields
    <2>4. pass'.key = k /\ Item' = Item BY <2>1 DEF SamePass, Item
    <2>5. Keeping' => KeptItem' BY <1>1, <1>2, <2>1, <2>2, <2>3, <2>4, Zenon DEF KeptItem, Acting
    <2>6. Faithful' => Definition(host[k]) = host[k].unit /\ host[k].unit # None
      BY <1>1, <1>2, <2>2 DEF SoundItem, Definition, LoadedBehind, Acting
    <2>7. Faithful' => SoundItem'
      BY <1>1, <1>2, <2>1, <2>2, <2>3, <2>4, <2>6, Zenon DEF SoundItem, Idle, Fresh, Acting
    <2>8. OthersKept(k) BY <2>3 DEF OthersKept, SameUnit
    <2> QED BY <1>1, <2>1, <2>2, <2>3, <2>5, <2>7, <2>8, ItemStep DEF ItemPc, Acting
  <1>5. CASE /\ Fault("start") /\ GoTo("fail") /\ UNCHANGED recent
             /\ host' \in {host, [host EXCEPT ![k] = Stopped(@)]}
    <2>1. pass' \in Pass /\ SamePass /\ pass'.pc = "fail" /\ pass'.entry.in
      BY <1>2, <1>5, GoToFields DEF ItemPc
    <2>2. FaultsGrow /\ (Keeping' => Keeping) /\ (Faithful' => Faithful)
      BY <1>2, <1>5, FaultType, Monotone DEF Fault
    <2>3. Stopped(host[k]) \in Service /\ Stopped(host[k]).unit = host[k].unit
      <3>1. Stopped(host[k]) \in Service BY <1>2, UnitTypes
      <3>2. Stopped(host[k]).unit = host[k].unit BY <1>2 DEF Stopped, Service
      <3> QED BY <3>1, <3>2
    <2>4. host' \in Hosts /\ host'[k].unit = host[k].unit /\ \A j \in Key \ {k} : host'[j] = host[j]
      BY <1>2, <1>5, <2>3 DEF Hosts
    <2>5. recent' \in SUBSET Key /\ OthersKept(k) BY <1>2, <1>5, <2>4 DEF TypeOK, OthersKept, SameUnit
    <2>6. pass'.key = k /\ Item' = Item BY <2>1 DEF SamePass, Item
    <2>7. Keeping' => KeptItem' BY <1>1, <1>2, <2>1, <2>2, <2>4, <2>6 DEF KeptItem, Acting
    <2>8. Faithful' => SoundItem'
      BY <1>1, <1>2, <2>1, <2>2, <2>4, <2>6, Zenon DEF SoundItem, LoadedBehind, ProcessBehind, Acting
    <2> QED BY <1>1, <2>1, <2>2, <2>4, <2>5, <2>7, <2>8, ItemStep DEF ItemPc
  <1> QED BY <1>4, <1>5 DEF ActRestart

\* With unchanged files, what runs is what the files say.
LEMMA ActNoneStep == ASSUME IInv, ActNone PROVE IInv'
  <1> DEFINE k == pass.key
  <1>1. /\ pass.pc = "act" /\ pass.pc \in ItemPc /\ ~FilesChanged /\ host' = host
        /\ UNCHANGED <<desired, agentMemory, recent, reported>> /\ GoTo("show") /\ NoFault
    BY DEF ActNone, ItemPc, Acting
  <1>2. /\ TypeOK /\ pass \in Pass /\ host \in Hosts /\ k \in Key /\ pass.entry.in
        /\ Keeping => Kept /\ KeptItem
        /\ Faithful => Sound /\ SoundItem
    BY <1>1, InHand
  <1>3. pass' \in Pass /\ SamePass /\ pass'.pc = "show" /\ pass'.entry.in
    BY <1>1, <1>2, GoToFields DEF ItemPc, Acting
  <1>4. /\ FaultsGrow /\ (Keeping' => Keeping) /\ (Faithful' => Faithful)
        /\ recent' \in SUBSET Key /\ OthersKept(k)
    BY <1>1, <1>2, FaultType, Monotone, Zenon DEF TypeOK, OthersKept, SameUnit
  <1>5. pass'.key = k /\ Item' = Item BY <1>3 DEF SamePass, Item
  <1>6. Keeping' => KeptItem' BY <1>1, <1>2, <1>3, <1>4, <1>5, Zenon DEF KeptItem, Acting
  <1>7. Faithful' => SoundItem'
    BY <1>1, <1>2, <1>3, <1>4, <1>5, Zenon DEF SoundItem, LoadedBehind, ProcessBehind, Acting
  <1> QED BY <1>1, <1>2, <1>3, <1>4, <1>6, <1>7, ItemStep DEF ItemPc, Acting

\* An item that ends with the host as it is.
LEMMA ShowEnds ==
    ASSUME IInv, pass.pc \in {"show", "reshow"}, NEW o \in Observations,
           AppendObservation(o, pass.entry), UNCHANGED <<desired, agentMemory, recent, host, reported>>,
           FaultsGrow
    PROVE  IInv'
  <1> DEFINE k == pass.key
  <1>1. pass.pc \in ItemPc BY DEF ItemPc, Acting
  <1>2. /\ host \in Hosts /\ k \in Key /\ host' = host
        /\ Keeping => Kept /\ KeptItem
        /\ Faithful => Sound /\ SoundItem
    BY <1>1, InHand
  <1>3. (Keeping' => Keeping) /\ (Faithful' => Faithful) /\ OthersKept(k)
    BY <1>2, Monotone DEF OthersKept, SameUnit
  <1>4. Keeping' => (host'[k].unit = None => Clean(host'[k]) /\ Idle(host'[k]))
    BY <1>2, <1>3, Zenon DEF KeptItem
  <1>5. Faithful' =>
          LET r == host'[k] IN
          /\ ~Idle(r) => r.unit # None
          /\ r.unit = None \/ r.loaded \in {None, r.unit}
          /\ Running(r) => Fresh(r)
          /\ o = "running" => r.unit = UnitOf[Item] /\ r.env = EnvOf[Item]
    BY <1>2, <1>3, Zenon DEF SoundItem, LoadedBehind, ProcessBehind, Acting
  <1> QED BY <1>1, <1>2, <1>3, <1>4, <1>5, EndStep, Zenon

\* show decides what is reported, from units that have nothing old.
LEMMA ShowStep == ASSUME IInv, Show PROVE IInv'
  <1> DEFINE k == pass.key
  <1>1. /\ pass.pc = "show" /\ pass.pc \in ItemPc
        /\ UNCHANGED <<desired, agentMemory, recent, host, reported>>
    BY DEF Show, ItemPc, Acting
  <1>2. /\ TypeOK /\ pass \in Pass /\ host \in Hosts /\ k \in Key /\ pass.entry.in
        /\ Keeping => Kept /\ KeptItem
        /\ Faithful => Sound /\ SoundItem
    BY <1>1, InHand
  <1>3. FaultsGrow BY <1>2, FaultType DEF Show, Fault
  <1>4. CASE AppendObservation("error", pass.entry)
    BY <1>1, <1>3, <1>4, ShowEnds DEF Observations
  <1>5. CASE AppendObservation(IF Running(host[k]) THEN "running" ELSE "stopped", pass.entry)
    BY <1>1, <1>3, <1>5, ShowEnds DEF Observations
  <1>6. CASE GoTo("drift")
    <2>1. pass' \in Pass /\ SamePass /\ pass'.pc = "drift" /\ pass'.entry.in
      BY <1>2, <1>6, GoToFields DEF ItemPc, Acting
    <2>2. /\ (Keeping' => Keeping) /\ (Faithful' => Faithful)
          /\ recent' \in SUBSET Key /\ OthersKept(k)
      BY <1>1, <1>2, <1>3, Monotone, Zenon DEF TypeOK, OthersKept, SameUnit
    <2>3. pass'.key = k /\ Item' = Item BY <2>1 DEF SamePass, Item
    <2>4. Keeping' => KeptItem' BY <1>1, <1>2, <2>1, <2>2, <2>3 DEF KeptItem, Acting
    <2>5. Faithful' => SoundItem'
      BY <1>1, <1>2, <2>1, <2>2, <2>3, Zenon DEF SoundItem, LoadedBehind, ProcessBehind, Acting
    <2> QED BY <1>1, <1>2, <1>3, <2>1, <2>2, <2>4, <2>5, ItemStep DEF ItemPc, Acting
  <1> QED BY <1>4, <1>5, <1>6, Zenon DEF Show

\* As ShowStep, after the drift correction.
LEMMA ReshowStep == ASSUME IInv, Reshow PROVE IInv'
  <1>1. /\ pass.pc = "reshow" /\ UNCHANGED <<desired, agentMemory, recent, host, reported>>
    BY DEF Reshow
  <1>2. FaultsGrow BY FaultType DEF IInv, Reshow, Fault
  <1>3. CASE AppendObservation("error", pass.entry)
    BY <1>1, <1>2, <1>3, ShowEnds DEF Observations
  <1>4. CASE AppendObservation(IF Running(host[pass.key]) THEN "running" ELSE "stopped", pass.entry)
    BY <1>1, <1>2, <1>4, ShowEnds DEF Observations
  <1> QED BY <1>3, <1>4 DEF Reshow

\* The drift correction starts the files as they are, or finds them running.
LEMMA DriftStep == ASSUME IInv, Drift PROVE IInv'
  <1> DEFINE k == pass.key
  <1>1. pass.pc = "drift" /\ pass.pc \in ItemPc /\ UNCHANGED <<desired, agentMemory, reported>>
    BY DEF Drift, ItemPc, Acting
  <1>2. /\ TypeOK /\ pass \in Pass /\ host \in Hosts /\ k \in Key
        /\ UnitOf[Item] # None
        /\ Keeping => Kept /\ KeptItem
        /\ Faithful => Sound /\ SoundItem
    BY <1>1, InHand
  <1>3. FaultsGrow /\ (Keeping' => Keeping) /\ (Faithful' => Faithful)
    BY <1>2, FaultType, Monotone DEF Drift, Fault
  <1>4. CASE host' = EnableAndStart(host, k) /\ ActionDone("reshow")
    <2>1. /\ pass' \in Pass /\ SamePass /\ pass'.pc = "reshow" /\ pass'.entry.in
          /\ recent' \in SUBSET Key
      BY <1>1, <1>4, ActionFields DEF ItemPc, Acting
    <2>2. /\ host' \in Hosts /\ OthersKept(k)
          /\ host'[k].unit = host[k].unit /\ host'[k].env = host[k].env
          /\ host[k].unit # None => host'[k].loaded = host[k].unit
          /\ Running(host[k]) => host'[k].procUnit = host[k].procUnit /\ host'[k].procEnv = host[k].procEnv
          /\ ~Running(host[k]) /\ host[k].unit # None => Fresh(host'[k]) /\ ~host'[k].died
      BY <1>2, <1>4, StartFields, Zenon DEF OthersKept
    <2>3. pass'.key = k /\ Item' = Item BY <2>1 DEF SamePass, Item
    <2>4. Keeping' => KeptItem' BY <1>1, <1>2, <1>3, <2>1, <2>2, <2>3, Zenon DEF KeptItem, Acting
    <2>5. Faithful' => SoundItem'
      BY <1>1, <1>2, <1>3, <2>1, <2>2, <2>3, Zenon
      DEF SoundItem, Idle, Fresh, LoadedBehind, ProcessBehind, Acting
    <2> QED BY <1>1, <1>3, <2>1, <2>2, <2>4, <2>5, ItemStep, Zenon DEF ItemPc, Acting
  <1>5. CASE ActionDone("fail") /\ host' \in {host, [host EXCEPT ![k].enabled = TRUE]}
    <2>1. /\ pass' \in Pass /\ SamePass /\ pass'.pc = "fail" /\ pass'.entry.in
          /\ recent' \in SUBSET Key
      BY <1>1, <1>5, ActionFields DEF ItemPc
    <2>2. host' \in Hosts /\ OthersKept(k) /\ host'[k].unit = host[k].unit
      BY <1>2, <1>5, StartFailsFields
    <2>3. pass'.key = k /\ Item' = Item BY <2>1 DEF SamePass, Item
    <2>4. Keeping' => KeptItem' BY <1>1, <1>2, <1>3, <2>1, <2>2, <2>3 DEF KeptItem, Acting
    <2>5. Faithful' => SoundItem'
      BY <1>1, <1>2, <1>3, <2>1, <2>2, <2>3, Zenon DEF SoundItem, LoadedBehind, ProcessBehind, Acting
    <2> QED BY <1>1, <1>3, <2>1, <2>2, <2>4, <2>5, ItemStep, Zenon DEF ItemPc
  <1> QED BY <1>4, <1>5 DEF Drift

\* What a quiet stop leaves of the unit and of the others.
LEMMA StoppedUnit ==
    ASSUME host \in Hosts, NEW k \in Key, host' = QuietStop(k)
    PROVE  /\ host' \in Hosts /\ OthersKept(k) /\ host'[k].unit = host[k].unit
           /\ host[k].unit = None => host' = host
           /\ host[k].unit # None => Idle(host'[k]) /\ ~host'[k].enabled /\ host'[k].loaded = host[k].unit
  <1>1. CASE host[k].unit = None BY <1>1, QuietStopFields, Zenon DEF OthersKept, SameUnit
  <1>2. CASE host[k].unit # None BY <1>2, QuietStopFields, Zenon DEF OthersKept
  <1> QED BY <1>1, <1>2
=============================================================================
