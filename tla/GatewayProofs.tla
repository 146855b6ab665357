---------------------------- MODULE GatewayProofs ----------------------------
(***************************************************************************)
(* Proofs about module Gateway, for any devices, processes, replicas and   *)
(* concurrent requests.                                                    *)
(*                                                                         *)
(* The invariants are not inductive as they stand.  What they lack is      *)
(*   - Copies: a copy whose resourceVersion is current has the object's    *)
(*     status, so a patch that the server accepts was computed from it;    *)
(*   - Backed: a desired poll that was found eligible is of a device that  *)
(*     has reported, and still is when the heartbeat is recorded.          *)
(***************************************************************************)
EXTENDS Gateway, TLAPS

CopiesOf(copies, objects) == \A p \in Proc : copies[p].current => copies[p].status = objects[p]

Copies ==
    /\ \A g \in Replica : CopiesOf(cache[g], api)
    /\ \A w \in Worker : CopiesOf(job[w].held, api)

Backed ==
    \A h \in Handler :
        /\ job[h].pc \in {"desired", "eligible"} => job[h].dev \in Device
        /\ job[h].pc = "eligible" => lastReport[ReplicaOf[h]][job[h].dev] # Never

IInv == TypeOK /\ Copies /\ PhaseAgrees /\ Backed /\ SeenIsBacked

(***************************************************************************)
(* Facts about constants and operators.                                    *)
(***************************************************************************)

\* The cap on ages is a positive number.
LEMMA AgeCapPositive == AgeCap \in Nat /\ AgeCap > 0
<1>1. Larger(DefaultInterval, HintConst) \in Nat \ {0}
  BY ConstantsAssumption DEF Larger
<1>2. \A m, n \in Nat : m * n \in Nat
  OBVIOUS
<1> QED
  BY <1>1, <1>2, ConstantsAssumption DEF AgeCap

\* A timestamp taken now is an age, and ages keep their range as time passes.
LEMMA AgeFacts == /\ 0 \in Age
                  /\ Never \in Age
                  /\ \A a \in Age : Older(a) \in Age /\ (Older(a) = Never <=> a = Never)
  BY AgeCapPositive DEF Age, Never, Older

\* Every goroutine belongs to one gateway process.
LEMMA HomeIsReplica == \A w \in Worker : Home(w) \in Replica
  BY ConstantsAssumption DEF Worker, Home

\* The objects and copies named in the model have their types.
LEMMA ObjectFacts == NewObject \in Object /\ Absent \in Object /\ NoCopy \in Copy
  BY Zenon DEF NewObject, Absent, NoCopy, Object, Condition, Copy

\* An idle goroutine is a well-formed job.
LEMMA IdleIsJob == Idle \in Job
<1>1. NoCopies \in [Proc -> Copy]
  BY ObjectFacts DEF NoCopies
<1>2. NoObs \in [Proc -> Observation \cup {"none"}]
  BY DEF NoObs
<1> QED
  BY <1>1, <1>2, ConstantsAssumption DEF Idle, Job, MaxAttempts

\* Whatever status it starts from, an observation leaves phase and
\* conditions in agreement.
LEMMA ObservedAgrees ==
  ASSUME NEW status \in Object, NEW obs
  PROVE  /\ Observed(status, obs) \in Object
         /\ PhaseAgreesWith(Observed(status, obs))
         /\ Observed(status, obs).connected = "True"
<1>1. Observed(status, obs) =
           [status EXCEPT !.connected = "True",
               !.started = IF obs = "running" THEN "True" ELSE "False",
               !.healthy = IF obs = "running" THEN "True" ELSE "False",
               !.phase = CASE obs = "error" -> "Failed" [] obs = "running" -> "Running"
                           [] OTHER -> "Pending"]
  BY DEF Observed, setAgentConnected, SetUnlessNil, LiftedPhase, PhaseOf, HasErrorMessage,
         ProcessStarted, Healthy, Observation, Object, Condition
<1> QED
  BY <1>1, Zenon DEF Object, Condition, PhaseAgreesWith

\* Marking a device changes AgentConnected, and the phase only if it is empty.
LEMMA MarkedKeeps ==
  ASSUME NEW status \in Object, NEW value \in {"True", "False"}
  PROVE  LET new == Marked(status, value)
         IN  /\ new \in Object
             /\ new.connected = value
             /\ new.started = status.started
             /\ new.healthy = status.healthy
             /\ new.phase # status.phase => status.phase = "" /\ new.phase = "Pending"
  BY Zenon DEF Marked, setAgentConnected, Object, Condition

\* Marking a device keeps phase and conditions in agreement.
LEMMA MarkedAgrees ==
  ASSUME NEW status \in Object, NEW value \in {"True", "False"}, PhaseAgreesWith(status)
  PROVE  PhaseAgreesWith(Marked(status, value))
<1>1. Marked(status, value).started = status.started
  BY MarkedKeeps, Zenon
<1>2. Marked(status, value).healthy = status.healthy
  BY MarkedKeeps, Zenon
<1>3. Marked(status, value).phase # status.phase =>
         status.phase = "" /\ Marked(status, value).phase = "Pending"
  BY MarkedKeeps, Zenon
<1> QED
  BY <1>1, <1>2, <1>3, Zenon DEF PhaseAgreesWith

(***************************************************************************)
(* What the steps have in common.                                          *)
(***************************************************************************)

\* A step that neither makes a device seen, nor forgets a report, nor takes
\* a handler out of "report" or into a desired poll keeps the heartbeats
\* backed by reports.
LEMMA BackedFrame ==
  ASSUME TypeOK, Backed, SeenIsBacked,
         \A g \in Replica, d \in Device : lastSeen'[g][d] # Never => lastSeen[g][d] # Never,
         \A g \in Replica, d \in Device : lastReport[g][d] # Never => lastReport'[g][d] # Never,
         \A h \in Handler : job[h].pc = "report" =>
                               job'[h].pc = "report" /\ job'[h].dev = job[h].dev,
         \A h \in Handler : job'[h].pc \in {"desired", "eligible"} =>
                               job'[h].pc = job[h].pc /\ job'[h].dev = job[h].dev
  PROVE  Backed' /\ SeenIsBacked'
<1>1. Backed'
  <2> SUFFICES ASSUME NEW h \in Handler, job'[h].pc \in {"desired", "eligible"}
               PROVE  /\ job'[h].dev \in Device
                      /\ job'[h].pc = "eligible" =>
                            lastReport'[ReplicaOf[h]][job'[h].dev] # Never
    BY DEF Backed
  <2>1. ReplicaOf[h] \in Replica
    BY ConstantsAssumption
  <2> QED
    BY <2>1 DEF Backed
<1>2. SeenIsBacked'
  <2> SUFFICES ASSUME NEW g \in Replica, NEW d \in Device, lastSeen'[g][d] # Never
               PROVE  \/ lastReport'[g][d] # Never
                      \/ \E h \in Handler : /\ ReplicaOf[h] = g
                                             /\ job'[h].dev = d
                                             /\ job'[h].pc = "report"
    BY DEF SeenIsBacked
  <2>1. CASE lastReport[g][d] # Never
    BY <2>1
  <2>2. CASE \E h \in Handler : ReplicaOf[h] = g /\ job[h].dev = d /\ job[h].pc = "report"
    BY <2>2
  <2> QED
    BY <2>1, <2>2 DEF SeenIsBacked
<1> QED
  BY <1>1, <1>2

\* A goroutine w goes on as next: the other jobs stay.
LEMMA JobStep ==
  ASSUME TypeOK, NEW w \in Worker, NEW next \in Job, job' = [job EXCEPT ![w] = next]
  PROVE  /\ job' \in [Worker -> Job]
         /\ job'[w] = next
         /\ \A x \in Worker \ {w} : job'[x] = job[x]
  BY DEF TypeOK

\* A write leaves every copy that claims to be current equal to its object,
\* and the program counters of the other goroutines alone.
LEMMA WriteStep ==
  ASSUME TypeOK, Copies, NEW w, NEW p \in Proc, NEW obj \in Object, NEW next \in Job,
         ~next.held[p].current, CopiesOf(next.held, api), Write(w, p, obj, next)
  PROVE  /\ api' \in [Proc -> Object]
         /\ cache' \in [Replica -> [Proc -> Copy]]
         /\ job' \in [Worker -> Job]
         /\ Copies'
         /\ api'[p] = obj
         /\ \A q \in Proc \ {p} : api'[q] = api[q]
         /\ \A x \in Worker : x # w => job'[x].pc = job[x].pc /\ job'[x].dev = job[x].dev
         /\ w \in Worker => job'[w] = next
<1> USE DEF TypeOK
<1>1. api' \in [Proc -> Object] /\ api'[p] = obj /\ \A q \in Proc \ {p} : api'[q] = api[q]
  BY DEF Write
<1>2. ASSUME NEW copies \in [Proc -> Copy], CopiesOf(copies, api)
      PROVE  /\ Outdated(copies, p) \in [Proc -> Copy]
             /\ CopiesOf(Outdated(copies, p), api')
  BY <1>1, <1>2, Zenon DEF Outdated, Copy, CopiesOf
<1>3. cache' \in [Replica -> [Proc -> Copy]] /\ \A g \in Replica : CopiesOf(cache'[g], api')
  BY <1>2, Zenon DEF Write, Copies
<1>4. \A x \in Worker : x # w =>
         /\ job'[x] \in Job
         /\ CopiesOf(job'[x].held, api')
         /\ job'[x].pc = job[x].pc
         /\ job'[x].dev = job[x].dev
  <2> SUFFICES ASSUME NEW x \in Worker, x # w
               PROVE  /\ job'[x] \in Job
                      /\ CopiesOf(job'[x].held, api')
                      /\ job'[x].pc = job[x].pc
                      /\ job'[x].dev = job[x].dev
    OBVIOUS
  <2>1. job'[x] = [job[x] EXCEPT !.held = Outdated(job[x].held, p)]
    BY DEF Write
  <2>2. job[x] \in Job
    OBVIOUS
  <2>3. Outdated(job[x].held, p) \in [Proc -> Copy] /\ CopiesOf(Outdated(job[x].held, p), api')
    BY <1>2, <2>2 DEF Copies, Job
  <2> QED
    BY <2>1, <2>2, <2>3, ZenonT(30) DEF Job
<1>5. w \in Worker => job'[w] = next
  BY DEF Write
<1>6. CopiesOf(next.held, api')
  BY <1>1 DEF CopiesOf
<1>7. job' \in [Worker -> Job]
  BY <1>4, <1>5, Zenon DEF Write
<1>8. Copies'
  BY <1>3, <1>4, <1>5, <1>6 DEF Copies
<1> QED
  BY <1>1, <1>3, <1>4, <1>5, <1>7, <1>8

\* A goroutine goes on without writing to the API server.
LEMMA LocalStep ==
  ASSUME IInv, NEW w \in Worker, NEW next \in Job, CopiesOf(next.held, api),
         job' = [job EXCEPT ![w] = next], UNCHANGED <<api, cache>>
  PROVE  /\ job' \in [Worker -> Job]
         /\ job'[w] = next
         /\ \A x \in Worker \ {w} : job'[x] = job[x]
         /\ Copies'
         /\ PhaseAgrees'
<1>1. /\ job' \in [Worker -> Job]
      /\ job'[w] = next
      /\ \A x \in Worker \ {w} : job'[x] = job[x]
  BY JobStep, Zenon DEF IInv
<1>2. Copies'
  BY <1>1 DEF IInv, Copies, CopiesOf
<1>3. PhaseAgrees'
  BY DEF IInv, PhaseAgrees
<1> QED
  BY <1>1, <1>2, <1>3

\* A goroutine that holds no copies holds no outdated ones.
LEMMA IdleHolds == CopiesOf(Idle.held, api) /\ CopiesOf(NoCopies, api)
  BY DEF Idle, NoCopies, NoCopy, CopiesOf

\* The type of spent, in TypeOK.
Spent == [restarts: 0 .. MaxRestarts, errors: 0 .. MaxErrors, churn: 0 .. MaxChurn]

\* Using up one more unit of a bound keeps within it.
LEMMA SpentFacts ==
  ASSUME TypeOK
  PROVE  /\ spent \in Spent
         /\ spent.restarts < MaxRestarts => [spent EXCEPT !.restarts = @ + 1] \in Spent
         /\ spent.errors < MaxErrors => [spent EXCEPT !.errors = @ + 1] \in Spent
         /\ spent.churn < MaxChurn => [spent EXCEPT !.churn = @ + 1] \in Spent
<1>1. MaxRestarts \in Nat /\ MaxErrors \in Nat /\ MaxChurn \in Nat
  BY ConstantsAssumption
<1>2. \A m \in Nat : \A n \in 0 .. m : n < m => n + 1 \in 0 .. m
  OBVIOUS
<1>3. spent \in Spent
  BY DEF TypeOK, Spent
<1> QED
  BY <1>1, <1>2, <1>3 DEF Spent

\* A step of one goroutine that touches neither the gateway's memory nor the
\* API server, does not leave "report" and does not go on with a desired poll.
LEMMA QuietStep ==
  ASSUME IInv, NEW w \in Worker, NEW next \in Job, CopiesOf(next.held, api),
         job' = [job EXCEPT ![w] = next], UNCHANGED <<memory, api, cache, reporting>>,
         spent' \in Spent, job[w].pc # "report", next.pc \notin {"desired", "eligible"}
  PROVE  IInv'
<1>1. /\ job' \in [Worker -> Job]
      /\ job'[w] = next
      /\ \A x \in Worker \ {w} : job'[x] = job[x]
      /\ Copies'
      /\ PhaseAgrees'
  BY LocalStep, Zenon
<1>2. TypeOK'
  BY <1>1 DEF IInv, TypeOK, memory, Spent
<1>3. Backed' /\ SeenIsBacked'
  BY <1>1, BackedFrame DEF IInv, memory, Worker
<1> QED
  BY <1>1, <1>2, <1>3 DEF IInv

\* An HTTP handler is a goroutine of the process it is served by.
LEMMA HandlerFacts == \A h \in Handler : h \in Worker /\ ReplicaOf[h] \in Replica /\ Home(h) = ReplicaOf[h]
  BY ConstantsAssumption DEF Worker, Home

\* The interval that a handler reads is positive.
LEMMA HeartbeatPositive ==
  ASSUME TypeOK, NEW g \in Replica, NEW d \in Device
  PROVE  normalizeHeartbeat(hints[g][d]) \in Nat \ {0}
  BY ConstantsAssumption DEF TypeOK, normalizeHeartbeat

(***************************************************************************)
(* Each action preserves the inductive invariant: first the steps that     *)
(* only move a goroutine.                                                  *)
(***************************************************************************)
\* The start of handleReport keeps the invariant.
LEMMA ReportStartKeeps ==
  ASSUME IInv, NEW h \in Handler, NEW d \in Device,
         NEW obs \in [Proc -> Observation \cup {"none"}], ReportStart(h, d, obs)
  PROVE  IInv'
<1> DEFINE hb == normalizeHeartbeat(hints[ReplicaOf[h]][d])
           next == [Idle EXCEPT !.pc = "heartbeat", !.dev = d, !.hb = hb, !.obs = obs,
                       !.connect = lastSeen[ReplicaOf[h]][d] = Never
                                   \/ lastSeen[ReplicaOf[h]][d] > StaleAfter(hb)]
<1>1. hb \in Nat \ {0}
  BY HandlerFacts, HeartbeatPositive DEF IInv
<1>2. next \in Job /\ next.held = Idle.held /\ next.pc = "heartbeat"
  BY <1>1, IdleIsJob, Zenon DEF Job, Idle
<1>3. /\ job' = [job EXCEPT ![h] = next]
      /\ job[h].pc = "idle"
      /\ UNCHANGED <<memory, api, cache, reporting, spent>>
  BY DEF ReportStart
<1> HIDE DEF next
<1> QED
  BY <1>2, <1>3, HandlerFacts, IdleHolds, QuietStep, Zenon DEF IInv, TypeOK, Spent

\* The start of handleConnect keeps the invariant.
LEMMA ConnectStartKeeps ==
  ASSUME IInv, NEW h \in Handler, NEW d \in Device, ConnectStart(h, d)
  PROVE  IInv'
<1> DEFINE hb == normalizeHeartbeat(hints[ReplicaOf[h]][d])
           next == [Idle EXCEPT !.pc = "heartbeat", !.dev = d, !.connect = TRUE, !.hb = hb]
<1>1. hb \in Nat \ {0}
  BY HandlerFacts, HeartbeatPositive DEF IInv
<1>2. next \in Job /\ next.held = Idle.held /\ next.pc = "heartbeat"
  BY <1>1, IdleIsJob, Zenon DEF Job, Idle
<1>3. /\ job' = [job EXCEPT ![h] = next]
      /\ job[h].pc = "idle"
      /\ UNCHANGED <<memory, api, cache, reporting, spent>>
  BY DEF ConnectStart
<1> HIDE DEF next
<1> QED
  BY <1>2, <1>3, HandlerFacts, IdleHolds, QuietStep, Zenon DEF IInv, TypeOK, Spent

\* listDeviceProcesses takes copies from a cache that is right about
\* which of its copies are current.
LEMMA MarkListKeeps ==
  ASSUME IInv, NEW w \in Worker, MarkList(w)
  PROVE  IInv'
<1> DEFINE listed == {p \in ProcsOf(job[w].dev) : cache[Home(w)][p].status # Absent}
           copies == [p \in Proc |-> IF p \in listed THEN cache[Home(w)][p] ELSE NoCopy]
           next == [job[w] EXCEPT !.pc = "mark", !.todo = listed, !.held = copies]
<1>1. listed \in SUBSET Proc
  BY DEF ProcsOf
<1>2. cache[Home(w)] \in [Proc -> Copy] /\ CopiesOf(cache[Home(w)], api)
  BY HomeIsReplica DEF IInv, TypeOK, Copies
<1>3. copies \in [Proc -> Copy] /\ CopiesOf(copies, api)
  BY <1>2, ObjectFacts DEF CopiesOf, NoCopy
<1>4. job' = [job EXCEPT ![w].pc = "mark", ![w].todo = listed, ![w].held = copies]
  BY Zenon DEF MarkList
<1>5. /\ job[w].pc = "list"
      /\ UNCHANGED <<memory, api, cache, reporting, spent>>
  BY Zenon DEF MarkList
<1> HIDE DEF listed, copies
<1>6. job[w] \in Job /\ job \in [Worker -> Job]
  BY DEF IInv, TypeOK
<1>7. next \in Job /\ next.held = copies /\ next.pc = "mark" /\ job' = [job EXCEPT ![w] = next]
  BY <1>1, <1>3, <1>4, <1>6, Zenon DEF Job
<1> HIDE DEF next
<1> QED
  BY <1>3, <1>5, <1>7, QuietStep, Zenon DEF IInv, TypeOK, Spent

\* The Get of updateStatusForObservation keeps the invariant.
LEMMA ObserveGetKeeps ==
  ASSUME IInv, NEW h \in Handler, NEW p \in Proc, ObserveGet(h, p)
  PROVE  IInv'
<1> DEFINE copy == cache[ReplicaOf[h]][p]
           skip == [job[h] EXCEPT !.obs = [@ EXCEPT ![p] = "none"], !.tries = 0]
           go == [job[h] EXCEPT !.pc = "patch", !.todo = {p}, !.held = [@ EXCEPT ![p] = copy]]
<1>1. job[h] \in Job /\ job \in [Worker -> Job] /\ h \in Worker /\ CopiesOf(job[h].held, api)
  BY HandlerFacts DEF IInv, TypeOK, Copies
<1>2. copy \in Copy /\ (copy.current => copy.status = api[p])
  BY HandlerFacts DEF IInv, TypeOK, Copies, CopiesOf
<1>3. job[h].pc = "observe" /\ UNCHANGED <<memory, api, cache, reporting, spent>>
  BY DEF ObserveGet
<1>4. \/ job' = [job EXCEPT ![h].obs[p] = "none", ![h].tries = 0]
      \/ job' = [job EXCEPT ![h].pc = "patch", ![h].todo = {p}, ![h].held[p] = copy]
  BY DEF ObserveGet
<1> HIDE DEF copy
<1>7. job' = [job EXCEPT ![h] = skip] \/ job' = [job EXCEPT ![h] = go]
  BY <1>1, <1>4, Zenon DEF Job
<1>8. skip \in Job /\ skip.pc = job[h].pc /\ skip.held = job[h].held
  <2>1. [job[h].obs EXCEPT ![p] = "none"] \in [Proc -> Observation \cup {"none"}]
    BY <1>1 DEF Job
  <2>2. 0 \in 0 .. MaxAttempts - 1
    BY DEF MaxAttempts
  <2> DEFINE obs == [job[h].obs EXCEPT ![p] = "none"]
  <2> HIDE DEF obs
  <2>3. [job[h] EXCEPT !.obs = obs, !.tries = 0] \in Job
    BY <1>1, <2>1, <2>2, Zenon DEF Job, obs
  <2> QED
    BY <1>1, <2>3 DEF Job, obs
<1>5. go \in Job /\ go.pc = "patch" /\ go.held = [job[h].held EXCEPT ![p] = copy]
  BY <1>1, <1>2, Zenon DEF Job
<1>6. CopiesOf(go.held, api)
  BY <1>1, <1>2, <1>5 DEF CopiesOf, Job
<1> HIDE DEF skip, go
<1> QED
  BY <1>1, <1>3, <1>5, <1>6, <1>7, <1>8, QuietStep DEF IInv, TypeOK, Spent

\* The end of handleReport keeps the invariant.
LEMMA ReportDoneKeeps ==
  ASSUME IInv, NEW h \in Handler, ReportDone(h)
  PROVE  IInv'
<1>1. Idle.pc = "idle"
  BY DEF Idle
<1> QED
  BY <1>1, HandlerFacts, IdleIsJob, IdleHolds, QuietStep, Zenon DEF ReportDone, IInv, TypeOK, Spent

\* The snapshot of markStaleDevices keeps the invariant.
LEMMA SweepStartKeeps ==
  ASSUME IInv, NEW g \in Replica, SweepStart(g)
  PROVE  IInv'
<1> DEFINE next == [Idle EXCEPT !.pc = "visit", !.stale = StaleDevices(g)]
<1>1. next \in Job /\ next.held = Idle.held /\ next.pc = "visit"
  <2>1. StaleDevices(g) \in SUBSET Device
    BY DEF StaleDevices
  <2> QED
    BY <2>1, IdleIsJob, Zenon DEF Job, Idle
<1>2. job' = [job EXCEPT ![g] = next] /\ job[g].pc = "idle"
  BY DEF SweepStart
<1>3. UNCHANGED <<memory, api, cache, reporting, spent>> /\ g \in Worker
  BY DEF SweepStart, Worker
<1> HIDE DEF next
<1> QED
  BY <1>1, <1>2, <1>3, IdleHolds, QuietStep, Zenon DEF IInv, TypeOK, Spent

\* The loop of markStaleDevices keeps the invariant.
LEMMA SweepVisitKeeps ==
  ASSUME IInv, NEW g \in Replica, SweepVisit(g)
  PROVE  IInv'
<1>1. /\ g \in Worker
      /\ job[g] \in Job
      /\ job \in [Worker -> Job]
      /\ CopiesOf(job[g].held, api)
  BY DEF Worker, IInv, TypeOK, Copies
<1>2. job[g].pc = "visit" /\ UNCHANGED <<memory, api, cache, reporting, spent>>
  BY Zenon DEF SweepVisit
<1>3. ASSUME NEW d \in job[g].stale,
             job' = [job EXCEPT ![g].pc = "list", ![g].dev = d, ![g].stale = @ \ {d}]
      PROVE  IInv'
  <2> DEFINE next == [job[g] EXCEPT !.pc = "list", !.dev = d, !.stale = @ \ {d}]
  <2>1. /\ next \in Job
        /\ next.pc = "list"
        /\ next.held = job[g].held
        /\ job' = [job EXCEPT ![g] = next]
    BY <1>1, <1>3 DEF Job
  <2> HIDE DEF next
  <2> QED
    BY <1>1, <1>2, <2>1, QuietStep, Zenon DEF IInv, TypeOK, Spent
<1>4. CASE job' = [job EXCEPT ![g] = Idle]
  <2>1. Idle.pc = "idle"
    BY DEF Idle
  <2> QED
    BY <1>1, <1>2, <1>4, <2>1, IdleIsJob, IdleHolds, QuietStep, Zenon DEF IInv, TypeOK, Spent
<1> QED
  BY <1>3, <1>4, Zenon DEF SweepVisit

(***************************************************************************)
(* Steps that change what the gateway remembers.                           *)
(***************************************************************************)
\* recordHeartbeat makes a device seen that is backed by a report, or by
\* the handler that is about to record one.
LEMMA RecordHeartbeatKeeps ==
  ASSUME IInv, NEW h \in Handler, RecordHeartbeat(h)
  PROVE  IInv'
<1> DEFINE g == ReplicaOf[h]
           d == job[h].dev
           next == IF job[h].pc = "heartbeat"
                   THEN [job[h] EXCEPT !.pc = "report", !.hb = DefaultInterval] ELSE Idle
<1>1. /\ h \in Worker
      /\ g \in Replica
      /\ job[h] \in Job
      /\ job \in [Worker -> Job]
      /\ CopiesOf(job[h].held, api)
  BY HandlerFacts DEF IInv, TypeOK, Copies
<1>2. /\ job[h].pc \in {"heartbeat", "eligible"}
      /\ lastSeen' = [lastSeen EXCEPT ![g][d] = 0]
      /\ hints' = [hints EXCEPT ![g][d] = job[h].hb]
      /\ UNCHANGED <<lastReport, api, cache, reporting, spent>>
  BY DEF RecordHeartbeat
<1>3. job' = [job EXCEPT ![h] = next]
  <2>1. job' = IF job[h].pc = "heartbeat"
               THEN [job EXCEPT ![h].pc = "report", ![h].hb = DefaultInterval]
               ELSE [job EXCEPT ![h] = Idle]
    BY DEF RecordHeartbeat
  <2> QED
    BY <1>1, <2>1, Zenon DEF Job
<1>4. next \in Job /\ CopiesOf(next.held, api)
  BY <1>1, IdleIsJob, IdleHolds, ConstantsAssumption, Zenon DEF Job
<1>5. /\ job[h].pc = "heartbeat" => next.pc = "report" /\ next.dev = d
      /\ job[h].pc # "heartbeat" => next.pc = "idle"
  BY <1>1 DEF Job, Idle
<1> HIDE DEF next, g
<1>6. /\ job' \in [Worker -> Job]
      /\ job'[h] = next
      /\ \A x \in Worker \ {h} : job'[x] = job[x]
      /\ Copies'
      /\ PhaseAgrees'
  BY <1>1, <1>2, <1>3, <1>4, LocalStep, Zenon
<1>7. lastSeen' \in [Replica -> [Device -> Age]] /\ hints' \in [Replica -> [Device -> Nat]]
  BY <1>1, <1>2, AgeFacts, Zenon DEF IInv, TypeOK, Job
<1>8. TypeOK'
  BY <1>2, <1>6, <1>7 DEF IInv, TypeOK
<1>9. Backed'
  BY <1>2, <1>5, <1>6 DEF IInv, Backed, Worker
<1>10. SeenIsBacked'
  <2> SUFFICES ASSUME NEW g2 \in Replica, NEW d2 \in Device, lastSeen'[g2][d2] # Never
               PROVE  \/ lastReport'[g2][d2] # Never
                      \/ \E x \in Handler : /\ ReplicaOf[x] = g2
                                             /\ job'[x].dev = d2
                                             /\ job'[x].pc = "report"
    BY DEF SeenIsBacked
  <2>1. CASE g2 = g /\ d2 = d
    <3>1. CASE job[h].pc = "heartbeat"
      BY <1>5, <1>6, <2>1, <3>1 DEF g
    <3>2. CASE job[h].pc = "eligible"
      BY <1>2, <2>1, <3>2 DEF IInv, Backed, g
    <3> QED
      BY <1>2, <3>1, <3>2
  <2>2. CASE ~(g2 = g /\ d2 = d)
    <3>1. lastSeen[g2][d2] # Never
      BY <1>1, <1>2, <2>2 DEF IInv, TypeOK
    <3>2. CASE lastReport[g2][d2] # Never
      BY <1>2, <3>2
    <3>3. ASSUME NEW x \in Handler, ReplicaOf[x] = g2, job[x].dev = d2, job[x].pc = "report"
          PROVE  ReplicaOf[x] = g2 /\ job'[x].dev = d2 /\ job'[x].pc = "report"
      BY <1>2, <1>6, <3>3 DEF Worker
    <3> QED
      BY <3>1, <3>2, <3>3 DEF IInv, SeenIsBacked
  <2> QED
    BY <2>1, <2>2
<1> QED
  BY <1>6, <1>8, <1>9, <1>10 DEF IInv

\* Recording a report makes lastReport known for the handler's device, so the
\* handler may stop being the witness.
LEMMA ReportRecorded ==
  ASSUME IInv, NEW h \in Handler, NEW next \in Job, CopiesOf(next.held, api),
         next.pc \notin {"desired", "eligible"},
         lastReport' = [lastReport EXCEPT ![ReplicaOf[h]][job[h].dev] = 0],
         job' = [job EXCEPT ![h] = next],
         UNCHANGED <<lastSeen, hints, api, cache, reporting, spent>>
  PROVE  IInv'
<1> DEFINE g == ReplicaOf[h]
           d == job[h].dev
<1>1. h \in Worker /\ g \in Replica
  BY HandlerFacts
<1>2. /\ job' \in [Worker -> Job]
      /\ job'[h] = next
      /\ \A x \in Worker \ {h} : job'[x] = job[x]
      /\ Copies'
      /\ PhaseAgrees'
  BY <1>1, LocalStep, Zenon
<1>3. lastReport' \in [Replica -> [Device -> Age]]
  BY <1>1, AgeFacts, Zenon DEF IInv, TypeOK
<1>4. TypeOK'
  BY <1>2, <1>3 DEF IInv, TypeOK
<1>5. \A g2 \in Replica, d2 \in Device :
         /\ lastReport[g2][d2] # Never => lastReport'[g2][d2] # Never
         /\ g2 = g /\ d2 = d => lastReport'[g2][d2] # Never
  BY <1>1 DEF IInv, TypeOK, Never
<1>6. Backed'
  BY <1>2, <1>5, HandlerFacts DEF IInv, Backed
<1>7. SeenIsBacked'
  <2> SUFFICES ASSUME NEW g2 \in Replica, NEW d2 \in Device, lastSeen'[g2][d2] # Never
               PROVE  \/ lastReport'[g2][d2] # Never
                      \/ \E x \in Handler : /\ ReplicaOf[x] = g2
                                             /\ job'[x].dev = d2
                                             /\ job'[x].pc = "report"
    BY DEF SeenIsBacked
  <2>1. CASE lastReport[g2][d2] # Never
    BY <1>5, <2>1
  <2>2. ASSUME NEW x \in Handler, ReplicaOf[x] = g2, job[x].dev = d2, job[x].pc = "report"
        PROVE  \/ lastReport'[g2][d2] # Never
               \/ ReplicaOf[x] = g2 /\ job'[x].dev = d2 /\ job'[x].pc = "report"
    BY <1>2, <1>5, <2>2, HandlerFacts
  <2> QED
    BY <2>1, <2>2 DEF IInv, SeenIsBacked
<1> QED
  BY <1>2, <1>4, <1>6, <1>7 DEF IInv

\* recordReport keeps the invariant: the report is now the witness.
LEMMA RecordReportKeeps ==
  ASSUME IInv, NEW h \in Handler, RecordReport(h)
  PROVE  IInv'
<1> DEFINE pc == IF job[h].connect THEN "list" ELSE "observe"
           next == [job[h] EXCEPT !.pc = pc, !.connect = FALSE]
<1>1. job[h] \in Job /\ job \in [Worker -> Job] /\ h \in Worker /\ CopiesOf(job[h].held, api)
  BY HandlerFacts DEF IInv, TypeOK, Copies
<1>2. pc \in {"list", "observe"}
  OBVIOUS
<1>3. job' = [job EXCEPT ![h].pc = pc, ![h].connect = FALSE]
  BY DEF RecordReport
<1>4. /\ lastReport' = [lastReport EXCEPT ![ReplicaOf[h]][job[h].dev] = 0]
      /\ UNCHANGED <<lastSeen, hints, api, cache, reporting, spent>>
  BY DEF RecordReport
<1> HIDE DEF pc
<1>5. /\ next \in Job
      /\ next.held = job[h].held
      /\ next.pc = pc
      /\ job' = [job EXCEPT ![h] = next]
  BY <1>1, <1>2, <1>3, Zenon DEF Job
<1> HIDE DEF next
<1> QED
  BY <1>1, <1>2, <1>4, <1>5, ReportRecorded, Zenon

\* The end of markDeviceConnected or markDeviceDisconnected keeps the
\* invariant.
LEMMA MarkDoneKeeps ==
  ASSUME IInv, NEW w \in Worker, MarkDone(w)
  PROVE  IInv'
<1>1. job[w] \in Job /\ job \in [Worker -> Job] /\ CopiesOf(job[w].held, api)
  BY DEF IInv, TypeOK, Copies
<1>2. job[w].pc = "mark" /\ UNCHANGED <<lastSeen, hints, api, cache, reporting, spent>>
  BY DEF MarkDone
<1>3. ASSUME w \in Handler,
             lastReport' = [lastReport EXCEPT ![ReplicaOf[w]][job[w].dev] = 0],
             job' = [job EXCEPT ![w].pc = "observe"]
      PROVE  IInv'
  <2> DEFINE next == [job[w] EXCEPT !.pc = "observe"]
  <2>1. /\ next \in Job
        /\ next.held = job[w].held
        /\ next.pc = "observe"
        /\ job' = [job EXCEPT ![w] = next]
    BY <1>1, <1>3, Zenon DEF Job
  <2> HIDE DEF next
  <2> QED
    BY <1>1, <1>2, <1>3, <2>1, ReportRecorded, Zenon
<1>4. ASSUME job' = [job EXCEPT ![w] = [Idle EXCEPT !.pc = "visit", !.stale = job[w].stale]],
             UNCHANGED lastReport
      PROVE  IInv'
  <2> DEFINE next == [Idle EXCEPT !.pc = "visit", !.stale = job[w].stale]
  <2>1. next \in Job /\ next.held = Idle.held /\ next.pc = "visit"
    BY <1>1, IdleIsJob, Zenon DEF Job, Idle
  <2> HIDE DEF next
  <2>2. job' = [job EXCEPT ![w] = next]
    BY <1>4 DEF next
  <2> QED
    BY <1>2, <1>4, <2>1, <2>2, IdleHolds, QuietStep, Zenon DEF IInv, TypeOK, Spent, memory
<1> QED
  BY <1>3, <1>4 DEF MarkDone

\* computeDesired changes the hint only.
LEMMA DesiredStartKeeps ==
  ASSUME IInv, NEW h \in Handler, NEW d \in Device, DesiredStart(h, d)
  PROVE  IInv'
<1> DEFINE g == ReplicaOf[h]
           next == [Idle EXCEPT !.pc = "desired", !.dev = d]
<1>1. next \in Job /\ next.held = Idle.held /\ next.pc = "desired" /\ next.dev = d
  BY IdleIsJob, Zenon DEF Job, Idle
<1>2. /\ job' = [job EXCEPT ![h] = next]
      /\ job[h].pc = "idle"
      /\ hints' = [hints EXCEPT ![g][d] = computeDesiredHint(@)]
      /\ UNCHANGED <<lastSeen, lastReport, api, cache, reporting, spent>>
  BY DEF DesiredStart
<1>3. h \in Worker /\ g \in Replica
  BY HandlerFacts
<1> HIDE DEF next, g
<1>4. /\ job' \in [Worker -> Job]
      /\ job'[h] = next
      /\ \A x \in Worker \ {h} : job'[x] = job[x]
      /\ Copies'
      /\ PhaseAgrees'
  BY <1>1, <1>2, <1>3, IdleHolds, LocalStep, Zenon
<1>5. hints' \in [Replica -> [Device -> Nat]]
  BY <1>2, <1>3, ConstantsAssumption DEF IInv, TypeOK, computeDesiredHint
<1>6. TypeOK'
  BY <1>2, <1>4, <1>5 DEF IInv, TypeOK
<1>7. Backed'
  BY <1>1, <1>2, <1>4, HandlerFacts DEF IInv, Backed
<1>8. SeenIsBacked'
  <2>1. \A x \in Handler : job[x].pc = "report" => job'[x] = job[x]
    BY <1>2, <1>4, HandlerFacts
  <2> QED
    BY <1>2, <2>1 DEF IInv, SeenIsBacked
<1> QED
  BY <1>4, <1>6, <1>7, <1>8 DEF IInv

\* recordDesiredHeartbeatIfEligible goes on only for a device that has
\* reported.
LEMMA DesiredCheckKeeps ==
  ASSUME IInv, NEW h \in Handler, DesiredCheck(h)
  PROVE  IInv'
<1> DEFINE g == ReplicaOf[h]
           d == job[h].dev
           hb == normalizeHeartbeat(hints[g][d])
           next == [job[h] EXCEPT !.pc = "eligible", !.hb = hb]
<1>1. job[h] \in Job /\ job \in [Worker -> Job] /\ h \in Worker /\ CopiesOf(job[h].held, api)
  BY HandlerFacts DEF IInv, TypeOK, Copies
<1>2. job[h].pc = "desired" /\ UNCHANGED <<memory, api, cache, reporting, spent>>
  BY DEF DesiredCheck
<1>3. g \in Replica /\ d \in Device
  BY <1>2, HandlerFacts DEF IInv, Backed
<1>4. hb \in Nat \ {0}
  BY <1>3, HeartbeatPositive DEF IInv
<1>5. CASE job' = [job EXCEPT ![h] = next] /\ Eligible(g, d, hb)
  <2> HIDE DEF hb
  <2>1. next \in Job /\ next.held = job[h].held /\ next.pc = "eligible" /\ next.dev = d
    BY <1>1, <1>4, Zenon DEF Job
  <2> HIDE DEF next
  <2>2. /\ job' \in [Worker -> Job]
        /\ job'[h] = next
        /\ \A x \in Worker \ {h} : job'[x] = job[x]
        /\ Copies'
        /\ PhaseAgrees'
    BY <1>1, <1>2, <1>5, <2>1, LocalStep, Zenon
  <2>3. TypeOK'
    BY <1>2, <2>2 DEF IInv, TypeOK, memory
  <2>4. lastReport[g][d] # Never
    BY <1>5 DEF Eligible
  <2>5. Backed'
    BY <1>2, <1>3, <2>1, <2>2, <2>4, HandlerFacts DEF IInv, Backed, memory
  <2>6. \A x \in Handler : job[x].pc = "report" => job'[x] = job[x]
    BY <1>2, <2>2, HandlerFacts
  <2>7. SeenIsBacked'
    BY <1>2, <2>6 DEF IInv, SeenIsBacked, memory
  <2> QED
    BY <2>2, <2>3, <2>5, <2>7 DEF IInv
<1>6. CASE job' = [job EXCEPT ![h] = Idle]
  <2>1. Idle.pc = "idle"
    BY DEF Idle
  <2> QED
    BY <1>1, <1>2, <1>6, <2>1, IdleIsJob, IdleHolds, QuietStep, Zenon DEF IInv, TypeOK, Spent
<1> QED
  BY <1>5, <1>6, Zenon DEF DesiredCheck

(***************************************************************************)
(* Steps of the environment.                                               *)
(***************************************************************************)
\* The passing of time makes no timestamp appear or disappear.
LEMMA TickKeeps ==
  ASSUME IInv, Tick
  PROVE  IInv'
<1>1. /\ lastSeen' = [g \in Replica |-> [d \in Device |-> Older(lastSeen[g][d])]]
      /\ lastReport' = [g \in Replica |-> [d \in Device |-> Older(lastReport[g][d])]]
      /\ UNCHANGED <<hints, api, cache, job, reporting, spent>>
  BY Zenon DEF Tick
<1>2. TypeOK'
  BY <1>1, AgeFacts DEF IInv, TypeOK
<1>3. \A g \in Replica, d \in Device :
         /\ lastSeen'[g][d] # Never => lastSeen[g][d] # Never
         /\ lastReport[g][d] # Never => lastReport'[g][d] # Never
  BY <1>1, AgeFacts DEF IInv, TypeOK
<1>4. Backed' /\ SeenIsBacked'
  BY <1>1, <1>3, BackedFrame DEF IInv
<1>5. Copies' /\ PhaseAgrees'
  BY <1>1 DEF IInv, Copies, CopiesOf, PhaseAgrees
<1> QED
  BY <1>2, <1>4, <1>5 DEF IInv

\* A copy read from the API server at this moment.
LEMMA FreshCopy ==
  ASSUME TypeOK, NEW p \in Proc
  PROVE  [status |-> api[p], current |-> TRUE] \in Copy
  BY DEF TypeOK, Copy

\* A watch event brings a current copy.
LEMMA CacheSyncKeeps ==
  ASSUME IInv, NEW g \in Replica, NEW p \in Proc, CacheSync(g, p)
  PROVE  IInv'
<1>1. /\ cache' = [cache EXCEPT ![g][p] = [status |-> api[p], current |-> TRUE]]
      /\ UNCHANGED <<memory, api, job, reporting, spent>>
  BY DEF CacheSync
<1>2. TypeOK'
  BY <1>1, FreshCopy DEF IInv, TypeOK, memory
<1>3. Copies'
  BY <1>1 DEF IInv, TypeOK, Copies, CopiesOf
<1>4. PhaseAgrees' /\ Backed' /\ SeenIsBacked'
  BY <1>1 DEF IInv, PhaseAgrees, Backed, SeenIsBacked, memory
<1> QED
  BY <1>2, <1>3, <1>4 DEF IInv

\* A restart of one gateway process leaves the others alone.
LEMMA RestartKeeps ==
  ASSUME IInv, NEW g \in Replica, Restart(g)
  PROVE  IInv'
<1>1. spent.restarts < MaxRestarts /\ spent' = [spent EXCEPT !.restarts = @ + 1]
  BY DEF Restart
<1>2. /\ lastSeen' = [lastSeen EXCEPT ![g] = [d \in Device |-> Never]]
      /\ lastReport' = [lastReport EXCEPT ![g] = [d \in Device |-> Never]]
      /\ hints' = [hints EXCEPT ![g] = [d \in Device |-> 0]]
      /\ cache' = [cache EXCEPT ![g] = [p \in Proc |-> [status |-> api[p], current |-> TRUE]]]
      /\ job' = [w \in Worker |-> IF Home(w) = g THEN Idle ELSE job[w]]
      /\ UNCHANGED <<api, reporting>>
  BY DEF Restart
<1>3. spent' \in Spent
  BY <1>1, SpentFacts DEF IInv
<1>4. cache' \in [Replica -> [Proc -> Copy]]
  BY <1>2, FreshCopy DEF IInv, TypeOK
<1>5. TypeOK'
  BY <1>2, <1>3, <1>4, AgeFacts, IdleIsJob DEF IInv, TypeOK, Spent
<1>6. Copies'
  BY <1>2, IdleHolds, Zenon DEF IInv, TypeOK, Copies, CopiesOf
<1>7. Idle.pc = "idle"
  BY DEF Idle
<1>8. Backed'
  BY <1>2, <1>7, HandlerFacts DEF IInv, TypeOK, Backed
<1>9. SeenIsBacked'
  <2> SUFFICES ASSUME NEW g2 \in Replica, NEW d \in Device, lastSeen'[g2][d] # Never
               PROVE  \/ lastReport'[g2][d] # Never
                      \/ \E x \in Handler : /\ ReplicaOf[x] = g2
                                             /\ job'[x].dev = d
                                             /\ job'[x].pc = "report"
    BY DEF SeenIsBacked
  <2>1. g2 # g /\ lastSeen[g2][d] # Never /\ lastReport'[g2][d] = lastReport[g2][d]
    BY <1>2 DEF IInv, TypeOK
  <2>2. \A x \in Handler : ReplicaOf[x] = g2 => job'[x] = job[x]
    BY <1>2, <2>1, HandlerFacts
  <2> QED
    BY <2>1, <2>2 DEF IInv, SeenIsBacked
<1>10. PhaseAgrees'
  BY <1>2 DEF IInv, PhaseAgrees
<1> QED
  BY <1>5, <1>6, <1>8, <1>9, <1>10 DEF IInv

\* Agents that stop or resume reporting change nothing in the gateway.
LEMMA ReportingKeeps ==
  ASSUME IInv, NEW d \in Device, StopReporting(d) \/ ResumeReporting(d)
  PROVE  IInv'
<1>1. reporting' \in SUBSET Device /\ UNCHANGED <<memory, api, cache, job, spent>>
  BY DEF IInv, TypeOK, StopReporting, ResumeReporting
<1>2. TypeOK'
  BY <1>1, SMTT(30) DEF IInv, TypeOK, memory
<1>3. Copies' /\ PhaseAgrees'
  BY <1>1 DEF IInv, Copies, CopiesOf, PhaseAgrees
<1>4. Backed' /\ SeenIsBacked'
  BY <1>1 DEF IInv, Backed, SeenIsBacked, memory
<1> QED
  BY <1>2, <1>3, <1>4 DEF IInv

(***************************************************************************)
(* Steps that write to the API server.                                     *)
(***************************************************************************)
\* An accepted write of a well-formed object that agrees with itself keeps
\* the invariant: all other copies are out of date.
LEMMA WriteKeeps ==
  ASSUME IInv, NEW w, NEW p \in Proc, NEW obj \in Object, PhaseAgreesWith(obj),
         NEW next \in Job, ~next.held[p].current, CopiesOf(next.held, api),
         Write(w, p, obj, next), UNCHANGED <<memory, reporting>>, spent' \in Spent,
         w \in Handler => job[w].pc # "report" /\ next.pc \notin {"desired", "eligible"}
  PROVE  IInv'
<1>1. /\ api' \in [Proc -> Object]
      /\ cache' \in [Replica -> [Proc -> Copy]]
      /\ job' \in [Worker -> Job]
      /\ Copies'
      /\ api'[p] = obj
      /\ \A q \in Proc \ {p} : api'[q] = api[q]
      /\ \A x \in Worker : x # w => job'[x].pc = job[x].pc /\ job'[x].dev = job[x].dev
      /\ w \in Worker => job'[w] = next
  BY WriteStep, SMTT(30) DEF IInv
<1>2. TypeOK'
  BY <1>1, Zenon DEF IInv, TypeOK, memory, Spent
<1>3. PhaseAgrees'
  BY <1>1, Zenon DEF IInv, PhaseAgrees
<1>4. \A h \in Handler :
         /\ job[h].pc = "report" => job'[h].pc = "report" /\ job'[h].dev = job[h].dev
         /\ job'[h].pc \in {"desired", "eligible"} =>
               job'[h].pc = job[h].pc /\ job'[h].dev = job[h].dev
  BY <1>1, HandlerFacts
<1>5. Backed' /\ SeenIsBacked'
  BY <1>4, BackedFrame DEF IInv, memory
<1> QED
  BY <1>1, <1>2, <1>3, <1>5, Zenon DEF IInv

\* A goroutine that an error ends is a well-formed job without copies.
LEMMA AbortedIsJob ==
  ASSUME TypeOK, NEW w \in Worker
  PROVE  /\ Aborted(w) \in Job
         /\ Aborted(w).held = Idle.held
         /\ Aborted(w).pc \notin {"desired", "eligible"}
<1>1. job[w] \in Job
  BY DEF TypeOK
<1> QED
  BY <1>1, IdleIsJob, Zenon DEF Aborted, Job, Idle

\* A failing patch, carried out or not.
LEMMA PatchFailsKeeps ==
  ASSUME IInv, NEW w \in Worker, NEW p \in Proc, NEW obj \in Object,
         PatchAccepted(p, job[w].held[p]) => PhaseAgreesWith(obj),
         job[w].pc # "report", PatchFails(w, p, obj), UNCHANGED <<memory, reporting>>
  PROVE  IInv'
<1>1. spent' \in Spent
  BY SpentFacts DEF PatchFails, IInv
<1>2. /\ Aborted(w) \in Job
      /\ CopiesOf(Aborted(w).held, api)
      /\ ~Aborted(w).held[p].current
      /\ Aborted(w).pc \notin {"desired", "eligible"}
  <2>1. /\ Aborted(w) \in Job
        /\ Aborted(w).held = Idle.held
        /\ Aborted(w).pc \notin {"desired", "eligible"}
    BY AbortedIsJob DEF IInv
  <2>2. CopiesOf(Idle.held, api)
    BY IdleHolds
  <2>3. ~Idle.held[p].current
    BY DEF Idle, NoCopies, NoCopy
  <2> QED
    BY <2>1, <2>2, <2>3
<1>3. CASE job' = [job EXCEPT ![w] = Aborted(w)] /\ UNCHANGED <<api, cache>>
  BY <1>1, <1>2, <1>3, QuietStep, Zenon
<1>4. CASE PatchAccepted(p, job[w].held[p]) /\ Write(w, p, obj, Aborted(w))
  BY <1>1, <1>2, <1>4, WriteKeeps, Zenon
<1> QED
  BY <1>3, <1>4 DEF PatchFails

\* One iteration of markDeviceConnected or markDeviceDisconnected keeps the
\* invariant.
LEMMA MarkProcessKeeps ==
  ASSUME IInv, NEW w \in Worker, NEW p \in Proc, MarkProcess(w, p)
  PROVE  IInv'
<1> DEFINE copy == job[w].held[p]
           value == MarkValue(w)
           new == Marked(copy.status, value)
           held == [job[w].held EXCEPT ![p] = NoCopy]
           rest == [job[w] EXCEPT !.todo = @ \ {p}, !.held = held]
<1>1. /\ job[w] \in Job
      /\ job \in [Worker -> Job]
      /\ copy \in Copy
      /\ copy.status \in Object
      /\ value \in {"True", "False"}
      /\ CopiesOf(job[w].held, api)
  BY DEF IInv, TypeOK, Copies, Job, Copy, MarkValue
<1>2. job[w].pc = "mark" /\ UNCHANGED <<memory, reporting>>
  BY DEF MarkProcess
<1>3. held \in [Proc -> Copy] /\ CopiesOf(held, api) /\ ~held[p].current
  BY <1>1, ObjectFacts DEF Job, CopiesOf, NoCopy
<1>4. rest \in Job /\ rest.held = held /\ rest.pc = "mark"
  <2> HIDE DEF held
  <2> QED
    BY <1>1, <1>2, <1>3, Zenon DEF Job
<1>5. new \in Object
  BY <1>1, MarkedKeeps, Zenon
<1>6. PatchAccepted(p, copy) => PhaseAgreesWith(new)
  <2> SUFFICES ASSUME PatchAccepted(p, copy)
               PROVE  PhaseAgreesWith(new)
    OBVIOUS
  <2>1. copy.status = api[p]
    BY <1>1 DEF PatchAccepted, CopiesOf
  <2> QED
    BY <1>1, <2>1, MarkedAgrees DEF IInv, PhaseAgrees
<1>7. \/ job' = [job EXCEPT ![w] = rest] /\ UNCHANGED <<api, cache, spent>>
      \/ PatchAccepted(p, copy) /\ Write(w, p, new, rest) /\ UNCHANGED spent
      \/ job' = [job EXCEPT ![w] = Aborted(w)] /\ UNCHANGED <<api, cache, spent>>
      \/ PatchFails(w, p, new)
  BY DEF MarkProcess
<1> HIDE DEF copy, value, new, held, rest
<1>8. CASE job' = [job EXCEPT ![w] = rest] /\ UNCHANGED <<api, cache, spent>>
  BY <1>2, <1>3, <1>4, <1>8, QuietStep, SpentFacts, Zenon DEF IInv
<1>9. CASE PatchAccepted(p, copy) /\ Write(w, p, new, rest) /\ UNCHANGED spent
  BY <1>2, <1>3, <1>4, <1>5, <1>6, <1>9, WriteKeeps, SpentFacts, Zenon DEF IInv
<1>10. CASE job' = [job EXCEPT ![w] = Aborted(w)] /\ UNCHANGED <<api, cache, spent>>
  BY <1>2, <1>10, AbortedIsJob, IdleHolds, QuietStep, SpentFacts, Zenon DEF IInv
<1>11. CASE PatchFails(w, p, new)
  BY <1>2, <1>5, <1>6, <1>11, PatchFailsKeeps DEF copy
<1> QED
  BY <1>7, <1>8, <1>9, <1>10, <1>11

\* The patch of updateStatusForObservation, its retries included, keeps
\* the invariant.
LEMMA ObservePatchKeeps ==
  ASSUME IInv, NEW h \in Handler, NEW p \in Proc, ObservePatch(h, p)
  PROVE  IInv'
<1> DEFINE copy == job[h].held[p]
           new == Observed(copy.status, job[h].obs[p])
           back == [job[h] EXCEPT !.pc = "observe", !.todo = {}, !.held = NoCopies]
           done == [back EXCEPT !.obs = [@ EXCEPT ![p] = "none"], !.tries = 0]
           again == [back EXCEPT !.tries = @ + 1]
<1>1. /\ h \in Worker
      /\ job[h] \in Job
      /\ job \in [Worker -> Job]
      /\ copy.status \in Object
  BY HandlerFacts DEF IInv, TypeOK, Job, Copy
<1>2. job[h].pc = "patch" /\ UNCHANGED <<memory, reporting>>
  BY DEF ObservePatch
<1>3. NoCopies \in [Proc -> Copy] /\ ~NoCopies[p].current /\ CopiesOf(NoCopies, api)
  BY ObjectFacts, IdleHolds, Zenon DEF NoCopies, NoCopy
<1>4. /\ back \in Job
      /\ back.held = NoCopies
      /\ back.pc = "observe"
      /\ back.tries = job[h].tries
      /\ back.obs = job[h].obs
  BY <1>1, <1>3, Zenon DEF Job
<1>5. done \in Job /\ done.held = NoCopies /\ done.pc = "observe"
  <2>1. [back.obs EXCEPT ![p] = "none"] \in [Proc -> Observation \cup {"none"}]
    BY <1>4, Zenon DEF Job
  <2>2. 0 \in 0 .. MaxAttempts - 1
    BY DEF MaxAttempts
  <2> DEFINE obs == [back.obs EXCEPT ![p] = "none"]
  <2> HIDE DEF obs, back
  <2>3. [back EXCEPT !.obs = obs, !.tries = 0] \in Job
    BY <1>4, <2>1, <2>2, Zenon DEF Job, obs
  <2> QED
    BY <1>4, <2>3 DEF Job, obs
<1>6. /\ RetryConflict(job[h].tries) => again \in Job
      /\ again.held = NoCopies
      /\ again.pc = "observe"
  <2>1. RetryConflict(job[h].tries) => job[h].tries + 1 \in 0 .. MaxAttempts - 1
    BY <1>1 DEF RetryConflict, MaxAttempts, Job
  <2> HIDE DEF back
  <2> QED
    BY <1>4, <2>1 DEF Job
<1>7. new \in Object /\ PhaseAgreesWith(new)
  BY <1>1, ObservedAgrees
<1>8. \/ Write(h, p, new, done) /\ UNCHANGED spent
      \/ /\ \/ job' = [job EXCEPT ![h] = done]
            \/ RetryConflict(job[h].tries) /\ job' = [job EXCEPT ![h] = again]
            \/ job' = [job EXCEPT ![h] = Idle]
         /\ UNCHANGED <<api, cache, spent>>
      \/ PatchFails(h, p, new)
  BY DEF ObservePatch
<1>9. Idle.pc = "idle" /\ spent \in Spent
  BY SpentFacts DEF Idle, IInv
<1> HIDE DEF copy, new, back, done, again
<1>10. CASE Write(h, p, new, done) /\ UNCHANGED spent
  BY <1>2, <1>3, <1>5, <1>7, <1>9, <1>10, WriteKeeps
<1>11. CASE job' = [job EXCEPT ![h] = done] /\ UNCHANGED <<api, cache, spent>>
  BY <1>1, <1>2, <1>3, <1>5, <1>9, <1>11, QuietStep, Zenon
<1>12. CASE /\ RetryConflict(job[h].tries)
            /\ job' = [job EXCEPT ![h] = again]
            /\ UNCHANGED <<api, cache, spent>>
  BY <1>1, <1>2, <1>3, <1>6, <1>9, <1>12, QuietStep, Zenon
<1>13. CASE job' = [job EXCEPT ![h] = Idle] /\ UNCHANGED <<api, cache, spent>>
  BY <1>1, <1>2, <1>9, <1>13, IdleIsJob, IdleHolds, QuietStep, Zenon
<1>14. CASE PatchFails(h, p, new)
  BY <1>1, <1>2, <1>7, <1>14, PatchFailsKeeps
<1> QED
  BY <1>8, <1>10, <1>11, <1>12, <1>13, <1>14

\* The controller is not one of the gateway's goroutines.
LEMMA ControllerWriteKeeps ==
  ASSUME IInv, NEW p \in Proc, Delete(p) \/ Create(p)
  PROVE  IInv'
<1>1. "controller" \notin Handler
  BY ConstantsAssumption
<1>2. PhaseAgreesWith(NewObject) /\ PhaseAgreesWith(Absent)
  BY DEF PhaseAgreesWith, NewObject, Absent
<1>3. ~Idle.held[p].current
  BY DEF Idle, NoCopies, NoCopy
<1>4. spent' \in Spent /\ UNCHANGED <<memory, reporting>>
  BY SpentFacts DEF IInv, Delete, Create
<1>5. \/ Write("controller", p, Absent, Idle)
      \/ Write("controller", p, NewObject, Idle)
  BY DEF Delete, Create
<1> QED
  BY <1>1, <1>2, <1>3, <1>4, <1>5, ObjectFacts, IdleIsJob, IdleHolds, WriteKeeps

(***************************************************************************)
(* The inductive invariant.                                                *)
(***************************************************************************)
\* The invariant holds when the gateway processes have started.
LEMMA InitIInv == Init => IInv
<1> SUFFICES ASSUME Init PROVE IInv
  OBVIOUS
<1>1. spent \in Spent
  BY ConstantsAssumption DEF Init, Spent
<1>2. cache \in [Replica -> [Proc -> Copy]]
  BY ObjectFacts DEF Init, Copy
<1>3. TypeOK
  BY <1>1, <1>2, AgeFacts, ObjectFacts, IdleIsJob, Zenon DEF Init, TypeOK, Spent
<1>4. Copies
  BY IdleHolds DEF Init, Copies, CopiesOf
<1>5. PhaseAgrees
  BY Zenon DEF Init, PhaseAgrees, PhaseAgreesWith, NewObject
<1>6. \A h \in Handler : job[h].pc = "idle"
  BY HandlerFacts DEF Init, Idle
<1>7. Backed /\ SeenIsBacked
  BY <1>6 DEF Init, Backed, SeenIsBacked
<1> QED
  BY <1>3, <1>4, <1>5, <1>7 DEF IInv

\* Every step keeps the invariant.
LEMMA NextIInv == IInv /\ [Next]_vars => IInv'
<1> SUFFICES ASSUME IInv, [Next]_vars PROVE IInv'
  OBVIOUS
<1>1. ASSUME NEW h \in Handler, Request(h) PROVE IInv'
  <2>1. \A d \in Device : ReportObservations(d) \subseteq [Proc -> Observation \cup {"none"}]
    BY ConstantsAssumption, Zenon DEF ReportObservations, Observation, NoObs
  <2> QED
    BY <1>1, <2>1, ReportStartKeeps, ConnectStartKeeps, DesiredStartKeeps DEF Request
<1>2. ASSUME NEW h \in Handler, Serve(h) PROVE IInv'
  BY <1>2, RecordHeartbeatKeeps, RecordReportKeeps, DesiredCheckKeeps, ReportDoneKeeps,
     ObserveGetKeeps, ObservePatchKeeps DEF Serve
<1>3. ASSUME NEW g \in Replica, Sweep(g) PROVE IInv'
  BY <1>3, SweepStartKeeps, SweepVisitKeeps DEF Sweep
<1>4. ASSUME NEW w \in Worker, Mark(w) PROVE IInv'
  BY <1>4, MarkListKeeps, MarkDoneKeeps, MarkProcessKeeps DEF Mark
<1>5. CASE Environment
  BY <1>5, TickKeeps, RestartKeeps, CacheSyncKeeps, ControllerWriteKeeps, ReportingKeeps
     DEF Environment
<1>6. CASE UNCHANGED vars
  <2>1. TypeOK'
    BY <1>6 DEF vars, IInv, TypeOK
  <2>2. Copies'
    BY <1>6 DEF vars, IInv, Copies, CopiesOf
  <2>3. PhaseAgrees'
    BY <1>6 DEF vars, IInv, PhaseAgrees
  <2>4. Backed'
    BY <1>6 DEF vars, IInv, Backed
  <2>5. SeenIsBacked'
    BY <1>6 DEF vars, IInv, SeenIsBacked
  <2> QED
    BY <2>1, <2>2, <2>3, <2>4, <2>5 DEF IInv
<1> QED
  BY <1>1, <1>2, <1>3, <1>4, <1>5, <1>6 DEF Next

\* The inductive invariant holds of every behaviour of the gateway.
LEMMA AlwaysIInv == Spec => []IInv
<1> QED
  BY InitIInv, NextIInv, PTL DEF Spec

(***************************************************************************)
(* Only MarkProcess writes "False" to AgentConnected, and it does so from  *)
(* the object's own status.                                                *)
(***************************************************************************)
KeepsObservation ==
    \A p \in Proc :
        (api[p] # Absent /\ api'[p].connected = "False") =>
            /\ api'[p].started = api[p].started
            /\ api'[p].healthy = api[p].healthy
            /\ api'[p].phase # api[p].phase => api[p].phase = ""

\* A write changes one object.
LEMMA WrittenOnly ==
  ASSUME TypeOK, NEW w, NEW p \in Proc, NEW obj, NEW next, Write(w, p, obj, next)
  PROVE  api'[p] = obj /\ \A q \in Proc \ {p} : api'[q] = api[q]
  BY DEF Write, TypeOK

\* An observation never writes a disconnected status.
LEMMA ObserveKeepsObservation ==
  ASSUME IInv, NEW h \in Handler, NEW p \in Proc, ObservePatch(h, p)
  PROVE  KeepsObservation
<1> DEFINE new == Observed(job[h].held[p].status, job[h].obs[p])
<1>1. job[h].held[p].status \in Object
  BY HandlerFacts DEF IInv, TypeOK, Job, Copy
<1>2. new.connected = "True"
  BY <1>1, ObservedAgrees
<1>3. UNCHANGED api \/ \E next : Write(h, p, new, next)
  BY DEF ObservePatch, PatchFails
<1> HIDE DEF new
<1>4. ASSUME NEW next, Write(h, p, new, next) PROVE KeepsObservation
  <2>1. api'[p] = new /\ \A q \in Proc \ {p} : api'[q] = api[q]
    BY <1>4, WrittenOnly DEF IInv
  <2>2. api'[p].connected # "False"
    BY <1>2, <2>1
  <2> QED
    BY <2>1, <2>2, Zenon DEF KeepsObservation
<1> QED
  BY <1>3, <1>4, Zenon DEF KeepsObservation

\* A mark that the server accepts was computed from the object's own
\* status, and keeps its observation.
LEMMA MarkKeepsObservation ==
  ASSUME IInv, NEW w \in Worker, NEW p \in Proc, MarkProcess(w, p)
  PROVE  KeepsObservation
<1> DEFINE copy == job[w].held[p]
           new == Marked(copy.status, MarkValue(w))
<1>1. copy.status \in Object /\ CopiesOf(job[w].held, api) /\ MarkValue(w) \in {"True", "False"}
  BY DEF IInv, TypeOK, Copies, Job, Copy, MarkValue
<1>2. UNCHANGED api \/ (PatchAccepted(p, copy) /\ \E next : Write(w, p, new, next))
  BY DEF MarkProcess, PatchFails
<1>3. ASSUME PatchAccepted(p, copy), NEW next, Write(w, p, new, next) PROVE KeepsObservation
  <2>1. copy.status = api[p]
    BY <1>1, <1>3, Zenon DEF PatchAccepted, CopiesOf
  <2>2. /\ new.started = copy.status.started
        /\ new.healthy = copy.status.healthy
        /\ new.phase # copy.status.phase => copy.status.phase = ""
    <3> HIDE DEF copy
    <3> QED
      BY <1>1, MarkedKeeps, Zenon
  <2>3. /\ new.started = api[p].started
        /\ new.healthy = api[p].healthy
        /\ new.phase # api[p].phase => api[p].phase = ""
    BY <2>1, <2>2, Zenon
  <2>4. api'[p] = new /\ \A q \in Proc \ {p} : api'[q] = api[q]
    BY <1>3, WrittenOnly DEF IInv
  <2> HIDE DEF new
  <2> QED
    BY <2>3, <2>4, Zenon DEF KeepsObservation
<1> QED
  BY <1>2, <1>3, Zenon DEF KeepsObservation

\* The controller's creations and deletions write no disconnected status.
LEMMA ControllerKeepsObservation ==
  ASSUME IInv, NEW p \in Proc, Delete(p) \/ Create(p)
  PROVE  KeepsObservation
<1>1. Absent.connected = "None"
  BY DEF Absent, NewObject
<1>2. \/ Write("controller", p, Absent, Idle)
      \/ api[p] = Absent /\ Write("controller", p, NewObject, Idle)
  BY DEF Delete, Create
<1> QED
  BY <1>1, <1>2, WrittenOnly, ZenonT(30) DEF KeepsObservation, IInv

\* No step undoes an observation by marking the device disconnected.
LEMMA NextKeepsObservation == IInv /\ [Next]_vars => KeepsObservation
<1> SUFFICES ASSUME IInv, [Next]_vars PROVE KeepsObservation
  OBVIOUS
<1>1. CASE UNCHANGED api
  BY <1>1 DEF KeepsObservation
<1>2. ASSUME NEW h \in Handler, Request(h) \/ Serve(h) PROVE KeepsObservation
  BY <1>1, <1>2, ObserveKeepsObservation, Zenon DEF Request, Serve, ReportStart, ConnectStart,
     DesiredStart, RecordHeartbeat, RecordReport, DesiredCheck, ReportDone, ObserveGet
<1>3. ASSUME NEW g \in Replica, Sweep(g) PROVE KeepsObservation
  BY <1>1, <1>3, Zenon DEF Sweep, SweepStart, SweepVisit
<1>4. ASSUME NEW w \in Worker, Mark(w) PROVE KeepsObservation
  BY <1>1, <1>4, MarkKeepsObservation, Zenon DEF Mark, MarkList, MarkDone
<1>5. CASE Environment
  BY <1>1, <1>5, ControllerKeepsObservation DEF Environment, Tick, Restart, CacheSync,
     StopReporting, ResumeReporting
<1>6. CASE UNCHANGED vars
  BY <1>1, <1>6 DEF vars
<1> QED
  BY <1>2, <1>3, <1>4, <1>5, <1>6 DEF Next

(***************************************************************************)
(* The theorems.                                                           *)
(***************************************************************************)

\* Variables keep their types; conflicts are retried fewer than MaxAttempts
\* times and ages stay in range (updateStatusForObservation, markStaleDevices).
THEOREM TypeCorrect == Spec => []TypeOK
<1>1. IInv => TypeOK
  BY DEF IInv
<1> QED
  BY <1>1, AlwaysIInv, PTL

\* Phase and conditions of a DeviceProcess never contradict each other,
\* however many handlers, sweeps and replicas write it (updateStatusForObservation,
\* markDeviceConnected, markDeviceDisconnected).
THEOREM PhaseConsistent == Spec => []PhaseAgrees
<1>1. IInv => PhaseAgrees
  BY DEF IInv
<1> QED
  BY <1>1, AlwaysIInv, PTL

\* Desired polls alone never make a device seen
\* (recordDesiredHeartbeatIfEligible, recordHeartbeat, recordReport).
THEOREM HeartbeatsBacked == Spec => []SeenIsBacked
<1>1. IInv => SeenIsBacked
  BY DEF IInv
<1> QED
  BY <1>1, AlwaysIInv, PTL

\* Marking a device disconnected never undoes an observation
\* (markDeviceDisconnected and its optimistic lock).
THEOREM DisconnectSafe == Spec => DisconnectKeepsObservation
<1>1. IInv /\ [Next]_vars => [KeepsObservation]_vars
  BY NextKeepsObservation
<1>2. Spec => [][KeepsObservation]_vars
  BY <1>1, AlwaysIInv, PTL DEF Spec
<1> QED
  BY <1>2 DEF DisconnectKeepsObservation, KeepsObservation
==============================================================================
