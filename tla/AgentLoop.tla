------------------------------ MODULE AgentLoop ------------------------------
(***************************************************************************)
(* The main loop of the agent in real time (run, sleepWithJitter and       *)
(* nextBackoff of src/agent/main.go): its two tickers, the time limit of a *)
(* request, the back-off after an error, and the end of the process when   *)
(* the first poll fails.  What a pass does to the host is module Agent;    *)
(* here it takes some time.                                                *)
(*                                                                         *)
(* The gateway cannot be reached, or answers with errors, for any time.    *)
(* silence counts the seconds since its last report from this agent, which *)
(* markStaleDevices (module Gateway) compares with StaleAfter.             *)
(*                                                                         *)
(* Time passes in seconds, and only when nothing can be done at once.      *)
(***************************************************************************)
EXTENDS Integers

CONSTANTS
    Hint,              \* the gateway's heartbeat interval, sent with desired
    StaleMultiplier,   \* the gateway's factor from the interval to staleness
    MaxAnswer,         \* assumption: a gateway that is up answers in this time
    MaxWork,           \* assumption: a pass over the processes takes this time
    Tolerated,         \* a longer outage is a long one
    Recovery           \* assumption: there is this much time between outages

\* Durations of the code, in seconds.
DesiredPeriod == 5
Timeout == 10
FirstBackoff == 2
maxBackoff == 30
RestartSec == 2
StaleAfter == StaleMultiplier * Hint

ASSUME LoopAssumption ==
    /\ {Hint, StaleMultiplier, MaxAnswer, MaxWork, Tolerated, Recovery} \subseteq Nat
    /\ Hint > 0 /\ MaxAnswer <= Timeout

\* A poll, a pass and a report, if nothing fails, and with the tick before them.
Round == 2 * MaxAnswer + MaxWork
Pace == DesiredPeriod + Round

Backoffs == {2, 4, 8, 16, 30}

\* Between two outages there is time for a request that hangs, the longest
\* back-off and a round.
ASSUME RecoveryAssumption == Recovery >= Timeout + maxBackoff + 1 + Round

\* Back-offs that double from two seconds are at most two seconds longer than
\* the outage has lasted.  A tolerated outage is one that leaves time for the
\* one that follows an error at its end; for a request that it hits in its last
\* second, hangs, and is backed off; and for a tick.
ASSUME ToleratedAssumption ==
    /\ \A b \in Backoffs : b <= Tolerated + 2 => Pace + Tolerated + b + 1 + Round <= StaleAfter
    /\ \A b \in Backoffs : b <= Tolerated + 1 => Pace + Tolerated - 1 + Timeout + b + 1 + Round <= StaleAfter
    /\ Pace + Tolerated + DesiredPeriod + Round <= StaleAfter

VARIABLES
    managing,   \* whether passes yield observations
    loop,       \* where the loop is: for how long (or how long still), whether
                \* an outage hit the request, whether it is the first poll
    desired,    \* desiredTicker: seconds to the next tick, a tick in the channel
    heart,      \* heartbeatTicker
    backoff,
    gateway,    \* whether it is up, for how long, and whether it recovers from a
                \* long outage
    silence     \* seconds since the gateway's last report from this agent

tickers == <<desired, heart>>
vars == <<managing, loop, tickers, backoff, gateway, silence>>

Least(a, b) == IF a < b THEN a ELSE b

NewTicker(period) == [left |-> period, due |-> FALSE]

At(at, t, first) == [at |-> at, t |-> t, hit |-> FALSE, first |-> first]

\* A predecessor has just reported and the process starts with its first poll.
Init ==
    /\ managing \in BOOLEAN
    /\ loop = At("get", 0, TRUE)
    /\ desired = NewTicker(DesiredPeriod)
    /\ heart = NewTicker(Hint)
    /\ backoff = FirstBackoff
    /\ gateway = [up |-> TRUE, for |-> Recovery, long |-> FALSE]
    /\ silence = 0

(***************************************************************************)
(* The end of a poll or of a heartbeat.                                    *)
(***************************************************************************)
nextBackoff_Uncapped(current) == current * 2
nextBackoff(current) == Least(current * 2, maxBackoff)

\* A first poll makes the tickers, any other success resets the heartbeat's;
\* Reset leaves a tick that is already in the channel.
Succeeds_KeepsBackoff ==
    /\ loop' = At("wait", 0, FALSE)
    /\ backoff' = IF loop.first THEN FirstBackoff ELSE backoff
    /\ desired' = IF loop.first THEN NewTicker(DesiredPeriod) ELSE desired
    /\ heart' = IF loop.first THEN NewTicker(Hint) ELSE [heart EXCEPT !.left = Hint]
Succeeds ==
    /\ loop' = At("wait", 0, FALSE)
    /\ backoff' = FirstBackoff
    /\ desired' = IF loop.first THEN NewTicker(DesiredPeriod) ELSE desired
    /\ heart' = IF loop.first THEN NewTicker(Hint) ELSE [heart EXCEPT !.left = Hint]

\* sleepWithJitter: up to a second more.
Sleeps(time) == \E jitter \in {0, 1} : loop' = At("sleep", time + jitter, FALSE)

\* An error of the first poll ends the process, any other one is slept off.
Fails ==
    /\ \/ loop.first /\ loop' = At("exited", RestartSec, TRUE) /\ UNCHANGED backoff
       \/ ~loop.first /\ Sleeps(backoff) /\ backoff' = nextBackoff(backoff)
    /\ UNCHANGED tickers

(***************************************************************************)
(* The loop.                                                               *)
(***************************************************************************)
Requests == {"get", "post", "beat"}

\* One of the cases of the select, at random if both have a tick.
TakeDesired ==
    /\ loop.at = "wait"
    /\ desired.due
    /\ desired' = [desired EXCEPT !.due = FALSE]
    /\ loop' = At("get", 0, FALSE)
    /\ UNCHANGED <<managing, heart, backoff, gateway, silence>>

TakeHeartbeat ==
    /\ loop.at = "wait"
    /\ heart.due
    /\ heart' = [heart EXCEPT !.due = FALSE]
    /\ loop' = At("beat", 0, FALSE)
    /\ UNCHANGED <<managing, desired, backoff, gateway, silence>>

\* fetchDesired returns and the pass begins.
DesiredArrives ==
    /\ loop.at = "get"
    /\ gateway.up
    /\ loop' = At("work", 0, loop.first)
    /\ UNCHANGED <<managing, tickers, backoff, gateway, silence>>

\* The pass ends: a report follows if there is anything to report.
Reconciled ==
    /\ loop.at = "work"
    /\ IF managing THEN loop' = At("post", 0, loop.first) /\ UNCHANGED <<tickers, backoff>>
                   ELSE Succeeds
    /\ UNCHANGED <<managing, gateway, silence>>

ReportArrives ==
    /\ loop.at \in {"post", "beat"}
    /\ gateway.up
    /\ silence' = 0
    /\ Succeeds
    /\ UNCHANGED <<managing, gateway>>

\* A request in flight when the gateway went away may fail at any time, also
\* after it is back.
RequestFails ==
    /\ loop.at \in Requests
    /\ loop.hit \/ ~gateway.up
    /\ Fails
    /\ UNCHANGED <<managing, gateway, silence>>

Wakes ==
    /\ loop.at = "sleep"
    /\ loop.t = 0
    /\ loop' = At("wait", 0, FALSE)
    /\ UNCHANGED <<managing, tickers, backoff, gateway, silence>>

\* Restart=always of the agent's own unit.
Restarts ==
    /\ loop.at = "exited"
    /\ loop.t = 0
    /\ loop' = At("get", 0, TRUE)
    /\ UNCHANGED <<managing, tickers, backoff, gateway, silence>>

(***************************************************************************)
(* The environment.                                                        *)
(***************************************************************************)
GatewayFails ==
    /\ gateway.up
    /\ gateway.for = Recovery
    /\ gateway' = [up |-> FALSE, for |-> 0, long |-> FALSE]
    /\ UNCHANGED <<managing, loop, tickers, backoff, silence>>

GatewayReturns ==
    /\ ~gateway.up
    /\ gateway' = [up |-> TRUE, for |-> 0, long |-> gateway.for > Tolerated]
    /\ UNCHANGED <<managing, loop, tickers, backoff, silence>>

\* A channel holds one tick; further ones are dropped.
Ticked(ticker, period) ==
    IF ticker.left = 1 THEN [left |-> period, due |-> TRUE] ELSE [ticker EXCEPT !.left = @ - 1]

TimeLimit ==
    CASE loop.at = "work" -> MaxWork
      [] loop.at \in Requests -> IF loop.hit \/ ~gateway.up THEN Timeout ELSE MaxAnswer

Urgent ==
    \/ loop.at = "wait" /\ (desired.due \/ heart.due)
    \/ loop.at \in {"sleep", "exited"} /\ loop.t = 0
    \/ loop.at \in Requests \cup {"work"} /\ loop.t >= TimeLimit

Tick ==
    /\ ~Urgent
    /\ loop' = CASE loop.at = "wait" -> loop
                 [] loop.at \in {"sleep", "exited"} -> [loop EXCEPT !.t = @ - 1]
                 [] OTHER -> [loop EXCEPT !.t = @ + 1, !.hit = loop.at \in Requests /\ (@ \/ ~gateway.up)]
    /\ IF loop.first THEN UNCHANGED tickers
                     ELSE desired' = Ticked(desired, DesiredPeriod) /\ heart' = Ticked(heart, Hint)
    /\ gateway' = IF gateway.up
                  THEN [gateway EXCEPT !.for = Least(@ + 1, Recovery), !.long = @ /\ gateway.for + 1 < Recovery]
                  ELSE [gateway EXCEPT !.for = Least(@ + 1, Tolerated + 1)]
    /\ silence' = Least(silence + 1, StaleAfter + 1)
    /\ UNCHANGED <<managing, backoff>>

Next ==
    \/ TakeDesired \/ TakeHeartbeat \/ DesiredArrives \/ Reconciled \/ ReportArrives
    \/ RequestFails \/ Wakes \/ Restarts \/ GatewayFails \/ GatewayReturns \/ Tick

Spec == Init /\ [][Next]_vars

(***************************************************************************)
(* Properties.                                                             *)
(***************************************************************************)
\* Every variable keeps its type; nothing takes longer than it may, and the
\* back-off takes its five values only.
TypeOK ==
    /\ managing \in BOOLEAN
    /\ loop \in [at : Requests \cup {"work", "wait", "sleep", "exited"},
                 t : Nat, hit : BOOLEAN, first : BOOLEAN]
    /\ loop.t <= CASE loop.at = "work" -> MaxWork
                   [] loop.at = "wait" -> 0
                   [] loop.at = "sleep" -> maxBackoff + 1
                   [] loop.at = "exited" -> RestartSec
                   [] OTHER -> Timeout
    /\ desired \in [left : 1 .. DesiredPeriod, due : BOOLEAN]
    /\ heart \in [left : 1 .. Hint, due : BOOLEAN]
    /\ backoff \in Backoffs
    /\ gateway \in [up : BOOLEAN, for : Nat, long : BOOLEAN]
    /\ gateway.for <= IF gateway.up THEN Recovery ELSE Tolerated + 1
    /\ silence \in 0 .. StaleAfter + 1

\* An agent with processes is not stale for the gateway (README.md: 3 x 15 s)
\* after an outage of at most Tolerated seconds, whatever its requests were
\* doing when it began and however long it backs off afterwards.
ShortOutageUnnoticed == managing /\ silence > StaleAfter =>
    gateway.long \/ (~gateway.up /\ gateway.for > Tolerated)

\* However long an outage was, Recovery seconds after it the agent reports
\* at its normal pace again: a request that hangs and the longest back-off
\* fit in this time, and a success takes the back-off to two seconds again.
BackInTime == managing /\ gateway.up /\ gateway.for = Recovery =>
    silence <= Pace

\* The comment in run, "Adjust heartbeat ticker if desired interval changed":
\* with an unchanged interval the ticker runs on until it fires.
HeartbeatRunsOn ==
    [][~loop.first /\ heart'.left > heart.left => heart' = Ticked(heart, Hint)]_vars
==============================================================================
