--------------------------- MODULE AgentLoopProofs ---------------------------
(***************************************************************************)
(* For every heartbeat interval, staleness factor and time that answers    *)
(* and passes take: the types of AgentLoop, that an outage the constants   *)
(* tolerate goes unnoticed, and that the agent is back in time.            *)
(*                                                                         *)
(* The invariant counts seconds.  While nothing fails, silence is bounded  *)
(* by the place the loop has reached in its round.  After an outage a      *)
(* bound on the time to the next report takes over (Within), which a       *)
(* second lowers by one and no other step raises; what it starts from      *)
(* depends on the back-off, which an outage raises no faster than it       *)
(* lasts.                                                                  *)
(***************************************************************************)
EXTENDS AgentLoop, TLAPS

\* How long the loop waits for the next tick of the poll.
ToTick == IF desired.due THEN 0 ELSE desired.left

\* The last report got through and no request has failed since.
Normal ==
    /\ loop.at \notin {"sleep", "exited"} /\ ~loop.hit /\ backoff = FirstBackoff
    /\ loop.at = "wait" => silence + ToTick <= DesiredPeriod
    /\ loop.at \in {"get", "beat"} => silence <= DesiredPeriod + loop.t
    /\ loop.at = "work" => silence <= DesiredPeriod + MaxAnswer + loop.t
    /\ loop.at = "post" => silence <= DesiredPeriod + MaxAnswer + MaxWork + loop.t

\* The next report arrives within this many seconds if the gateway stays up.
Within(seconds) ==
    /\ loop.at = "wait" => ToTick + Round <= seconds
    /\ loop.at = "get" => Round - loop.t <= seconds
    /\ loop.at = "work" => MaxWork - loop.t + MaxAnswer <= seconds
    /\ loop.at \in {"post", "beat"} => MaxAnswer - loop.t <= seconds
    /\ loop.at \in {"sleep", "exited"} => loop.t + Round <= seconds
    /\ loop.at = "sleep" => ToTick + Round <= seconds
    /\ loop.hit /\ loop.first => Timeout - loop.t + RestartSec + Round <= seconds
    /\ loop.hit /\ ~loop.first => /\ Timeout - loop.t + backoff + 1 + Round <= seconds
                                  /\ ToTick + Round <= seconds

\* With the gateway up, reports arrive at their pace, or the next one is on
\* its way: in time for the recovery and, if the outage was short, for the
\* gateway.
Serving ==
    \/ Normal
    \/ /\ Within(Timeout + maxBackoff + Round - gateway.for)
       /\ ~gateway.long => Within(StaleAfter - silence)

\* In a tolerated outage the back-off has grown with the time it has lasted.
Outage ==
    gateway.for <= Tolerated =>
        /\ silence <= Pace + gateway.for
        /\ loop.hit => gateway.for >= 1
        /\ IF loop.at = "sleep"
           THEN /\ silence + loop.t + Round <= StaleAfter
                /\ backoff <= gateway.for + loop.t + 2
           ELSE backoff = FirstBackoff \/ backoff + loop.t <= gateway.for + 2

\* A request that an outage hit has waited; one that none hit is answered in
\* time.  Only the first pass and its end come before the loop, and before any
\* back-off.
Progress ==
    /\ loop.hit => loop.at \in Requests /\ loop.t >= 1
    /\ loop.at \in Requests /\ ~loop.hit => loop.t <= MaxAnswer
    /\ loop.first => loop.at \in {"get", "work", "post", "exited"} /\ backoff = FirstBackoff
    /\ loop.at = "exited" => loop.first

\* The inductive invariant.
LoopInv ==
    /\ TypeOK
    /\ Progress
    /\ managing => IF gateway.up THEN Serving ELSE Outage

(***************************************************************************)
(* The constants.                                                          *)
(***************************************************************************)
\* Durations are numbers, and those of the code have their values.
LEMMA Durations ==
    /\ Hint \in Nat /\ Hint > 0 /\ MaxAnswer \in Nat /\ MaxWork \in Nat
    /\ Tolerated \in Nat /\ Recovery \in Nat /\ StaleAfter \in Nat /\ MaxAnswer <= Timeout
    /\ DesiredPeriod = 5 /\ Timeout = 10 /\ FirstBackoff = 2 /\ maxBackoff = 30 /\ RestartSec = 2
    /\ Round \in Nat /\ Round = MaxAnswer + MaxAnswer + MaxWork /\ Pace = DesiredPeriod + Round
<1>1. /\ Hint \in Nat /\ Hint > 0 /\ MaxAnswer \in Nat /\ MaxWork \in Nat
      /\ Tolerated \in Nat /\ Recovery \in Nat /\ StaleMultiplier \in Nat /\ MaxAnswer <= Timeout
    BY LoopAssumption
<1>2. StaleAfter \in Nat
    BY <1>1 DEF StaleAfter
<1>3. QED
    BY <1>1, <1>2 DEF DesiredPeriod, Timeout, FirstBackoff, maxBackoff, RestartSec, Round, Pace

\* nextBackoff takes each back-off to the next one, which is at most twice it.
LEMMA NextBackoff ==
    ASSUME NEW b \in Backoffs
    PROVE  /\ nextBackoff(b) \in Backoffs /\ b \in 2 .. 30
           /\ nextBackoff(b) <= b + b /\ nextBackoff(b) \in 2 .. 30
BY DEF Backoffs, nextBackoff, Least, maxBackoff

\* A ticker counts down; when it fires a tick is due.
LEMMA TickedTicker ==
    ASSUME NEW period \in Nat, period > 0,
           NEW ticker \in [left : 1 .. period, due : BOOLEAN]
    PROVE  /\ Ticked(ticker, period) \in [left : 1 .. period, due : BOOLEAN]
           /\ ticker.due => Ticked(ticker, period).due
           /\ ~Ticked(ticker, period).due => Ticked(ticker, period).left = ticker.left - 1
BY DEF Ticked

(***************************************************************************)
(* Types.                                                                  *)
(***************************************************************************)
Places == Requests \cup {"work", "wait", "sleep", "exited"}

\* How long the loop may be in a place.
Limit(at) == CASE at = "work" -> MaxWork
               [] at = "wait" -> 0
               [] at = "sleep" -> maxBackoff + 1
               [] at = "exited" -> RestartSec
               [] OTHER -> Timeout

\* The type of the loop.
WellTimed(l) ==
    /\ l \in [at : Places, t : Nat, hit : BOOLEAN, first : BOOLEAN]
    /\ l.t <= Limit(l.at)

\* The types are those of TypeOK.
LEMMA LoopType == TypeOK => WellTimed(loop)
BY DEF TypeOK, WellTimed, Places, Limit

\* Places have limits that are numbers.
LEMMA LimitNat == \A at \in Places : Limit(at) \in Nat
BY Durations DEF Limit, Places, Requests

\* A second does not change what a loop is.
LEMMA SecondLater ==
    ASSUME NEW l \in [at : Places, t : Nat, hit : BOOLEAN, first : BOOLEAN], NEW h \in BOOLEAN
    PROVE  [l EXCEPT !.t = @ + 1, !.hit = h] \in [at : Places, t : Nat, hit : BOOLEAN, first : BOOLEAN]
<1> DEFINE R == [at : Places, t : Nat, hit : BOOLEAN, first : BOOLEAN]
           m == [l EXCEPT !.t = @ + 1]
<1>1. m \in R
    OBVIOUS
<1>2. ASSUME NEW n \in R PROVE [n EXCEPT !.hit = h] \in R
    OBVIOUS
<1>3. [l EXCEPT !.t = @ + 1, !.hit = h] = [m EXCEPT !.hit = h]
    OBVIOUS
<1> HIDE DEF m, R
<1>4. [m EXCEPT !.hit = h] \in R
    BY <1>1, <1>2
<1>5. QED
    BY <1>3, <1>4 DEF R

\* A loop that enters a place is well-timed.
LEMMA Entered ==
    ASSUME NEW at \in Places, NEW t \in Nat, NEW first \in BOOLEAN, t <= Limit(at)
    PROVE  WellTimed(At(at, t, first))
BY DEF WellTimed, At

\* The places that steps enter.
LEMMA Entering ==
    /\ \A at \in Requests \cup {"work", "wait"}, first \in BOOLEAN : WellTimed(At(at, 0, first))
    /\ WellTimed(At("exited", RestartSec, TRUE))
    /\ \A t \in 0 .. 31 : WellTimed(At("sleep", t, FALSE))
<1>1. Requests \cup {"work", "wait"} \subseteq Places /\ {"sleep", "exited"} \subseteq Places
    BY DEF Places
<1>2. \A at \in Places : 0 <= Limit(at)
    BY LimitNat
<1>3. RestartSec \in Nat /\ RestartSec <= Limit("exited")
    BY Durations DEF Limit
<1>4. \A t \in 0 .. 31 : t \in Nat /\ t <= Limit("sleep")
    BY Durations DEF Limit
<1>5. QED
    BY <1>1, <1>2, <1>3, <1>4, Entered, Zenon

\* The tickers and the back-off keep their types when a request succeeds.
LEMMA SucceedsType ==
    ASSUME TypeOK, Succeeds
    PROVE  /\ loop' = At("wait", 0, FALSE)
           /\ desired' \in [left : 1 .. DesiredPeriod, due : BOOLEAN]
           /\ heart' \in [left : 1 .. Hint, due : BOOLEAN]
           /\ backoff' = FirstBackoff
BY Durations DEF TypeOK, Succeeds, NewTicker

\* What a request that fails leaves behind.
LEMMA FailsType ==
    ASSUME TypeOK, Fails
    PROVE  /\ UNCHANGED <<desired, heart>>
           /\ backoff' \in Backoffs
           /\ \/ /\ loop.first /\ backoff' = backoff
                 /\ loop' = At("exited", RestartSec, TRUE)
              \/ /\ ~loop.first /\ backoff' = nextBackoff(backoff)
                 /\ \E t \in Nat : backoff <= t /\ t <= backoff + 1 /\ loop' = At("sleep", t, FALSE)
<1>1. backoff \in Backoffs /\ backoff \in 2 .. 30 /\ nextBackoff(backoff) \in Backoffs
    BY NextBackoff DEF TypeOK
<1>2. \A jitter \in {0, 1} : /\ backoff + jitter \in Nat
                             /\ backoff <= backoff + jitter /\ backoff + jitter <= backoff + 1
    BY <1>1
<1>3. CASE loop.first
    BY <1>1, <1>3 DEF Fails, tickers
<1>4. CASE ~loop.first
    <2>1. PICK jitter \in {0, 1} : loop' = At("sleep", backoff + jitter, FALSE)
        BY <1>4, Zenon DEF Fails, Sleeps
    <2>2. QED
        BY <1>1, <1>2, <1>4, <2>1, Zenon DEF Fails, tickers
<1>5. QED
    BY <1>3, <1>4, Zenon

\* A second keeps the types: nothing is left to do beyond its time.
LEMMA TickType == ASSUME TypeOK, Tick PROVE TypeOK'
<1> USE Durations
<1>1. WellTimed(loop)
    BY LoopType
<1>2. WellTimed(loop')
    <2>1. CASE loop.at = "wait"
        BY <1>1, <2>1 DEF Tick
    <2>2. CASE loop.at \in {"sleep", "exited"}
        <3>1. loop.t > 0
            BY <1>1, <2>2 DEF Tick, Urgent, WellTimed
        <3>2. loop' = [loop EXCEPT !.t = @ - 1]
            BY <2>2 DEF Tick
        <3>3. QED
            BY <1>1, <2>2, <3>1, <3>2 DEF WellTimed, Limit
    <2>3. CASE loop.at \in Requests \cup {"work"}
        <3>1. loop.t < TimeLimit
            BY <1>1, <2>3 DEF Tick, Urgent, TimeLimit, Requests, WellTimed
        <3>2. TimeLimit <= Limit(loop.at) /\ TimeLimit \in Nat
            BY <2>3 DEF TimeLimit, Limit, Requests
        <3>3. PICK h \in BOOLEAN : loop' = [loop EXCEPT !.t = @ + 1, !.hit = h]
            <4>1. loop' = [loop EXCEPT !.t = @ + 1, !.hit = loop.at \in Requests /\ (@ \/ ~gateway.up)]
                BY <2>3 DEF Tick, Requests
            <4>2. QED
                BY <4>1, Zenon
        <3>4. loop' \in [at : Places, t : Nat, hit : BOOLEAN, first : BOOLEAN]
            BY <1>1, <3>3, SecondLater, Zenon DEF WellTimed
        <3>5. loop'.at = loop.at /\ loop'.t = loop.t + 1 /\ loop.t \in Nat /\ Limit(loop.at) \in Nat
            BY <1>1, <3>3, LimitNat DEF WellTimed
        <3>6. loop.t + 1 <= Limit(loop.at)
            BY <3>1, <3>2, <3>5
        <3>7. QED
            BY <3>4, <3>5, <3>6 DEF WellTimed
    <2>4. QED
        BY <1>1, <2>1, <2>2, <2>3 DEF WellTimed, Places
<1>3. /\ desired' \in [left : 1 .. DesiredPeriod, due : BOOLEAN]
      /\ heart' \in [left : 1 .. Hint, due : BOOLEAN]
    <2>1. /\ desired \in [left : 1 .. DesiredPeriod, due : BOOLEAN]
          /\ heart \in [left : 1 .. Hint, due : BOOLEAN]
        BY DEF TypeOK
    <2>2. CASE loop.first
        BY <2>1, <2>2 DEF Tick, tickers
    <2>3. CASE ~loop.first
        <3>1. desired' = Ticked(desired, DesiredPeriod) /\ heart' = Ticked(heart, Hint)
            BY <2>3 DEF Tick
        <3>2. DesiredPeriod \in Nat /\ DesiredPeriod > 0
            OBVIOUS
        <3>3. QED
            BY <2>1, <3>1, <3>2, TickedTicker, Zenon
    <2>4. QED
        BY <2>2, <2>3
<1>4. gateway' \in [up : BOOLEAN, for : Nat, long : BOOLEAN]
    <2>1. gateway \in [up : BOOLEAN, for : Nat, long : BOOLEAN]
        BY DEF TypeOK
    <2>2. PICK n \in Nat, l \in BOOLEAN : gateway' = [gateway EXCEPT !.for = n, !.long = l]
        <3>1. CASE gateway.up
            <4>1. Least(gateway.for + 1, Recovery) \in Nat
                BY <2>1 DEF Least
            <4>2. (gateway.long /\ gateway.for + 1 < Recovery) \in BOOLEAN
                BY Zenon
            <4>3. QED
                BY <3>1, <4>1, <4>2, Zenon DEF Tick
        <3>2. CASE ~gateway.up
            <4>1. Least(gateway.for + 1, Tolerated + 1) \in Nat
                BY <2>1 DEF Least
            <4>2. gateway' = [gateway EXCEPT !.for = Least(gateway.for + 1, Tolerated + 1)]
                BY <3>2 DEF Tick
            <4>3. gateway' = [gateway EXCEPT !.for = Least(gateway.for + 1, Tolerated + 1), !.long = gateway.long]
                BY <2>1, <4>2, Zenon
            <4>4. gateway.long \in BOOLEAN
                BY <2>1
            <4>5. QED
                BY <4>1, <4>3, <4>4, Zenon
        <3>3. QED
            BY <3>1, <3>2, Zenon
    <2>3. QED
        BY <2>1, <2>2, Zenon
<1>5. gateway'.for <= IF gateway'.up THEN Recovery ELSE Tolerated + 1
    BY DEF TypeOK, Tick, Least
<1>6. silence' \in 0 .. StaleAfter + 1
    BY DEF TypeOK, Tick, Least
<1>7. managing' \in BOOLEAN /\ backoff' \in Backoffs
    BY DEF TypeOK, Tick
<1>8. QED
    BY <1>2, <1>3, <1>4, <1>5, <1>6, <1>7 DEF TypeOK, WellTimed, Places, Limit

\* Every step keeps the types.
LEMMA TypeKept == TypeOK /\ [Next]_vars => TypeOK'
<1> SUFFICES ASSUME TypeOK, [Next]_vars PROVE TypeOK'
    OBVIOUS
<1> USE Durations
<1>1. WellTimed(loop)
    BY LoopType
<1>2. ASSUME /\ WellTimed(loop')
             /\ desired' \in [left : 1 .. DesiredPeriod, due : BOOLEAN]
             /\ heart' \in [left : 1 .. Hint, due : BOOLEAN]
             /\ backoff' \in Backoffs
             /\ UNCHANGED <<managing, gateway>> /\ silence' \in {silence, 0}
      PROVE  TypeOK'
    BY <1>2 DEF TypeOK, WellTimed, Places, Limit
<1>3. CASE UNCHANGED vars
    BY <1>3, <1>1 DEF vars, tickers, TypeOK
<1>4. CASE TakeDesired
    BY <1>2, <1>4, Entering, Zenon DEF TakeDesired, TypeOK, Requests
<1>5. CASE TakeHeartbeat
    BY <1>2, <1>5, Entering, Zenon DEF TakeHeartbeat, TypeOK, Requests
<1>6. CASE DesiredArrives
    BY <1>2, <1>6, Entering DEF DesiredArrives, TypeOK, tickers
<1>7. ASSUME Succeeds, UNCHANGED <<managing, gateway>>, silence' \in {silence, 0} PROVE TypeOK'
    <2>1. FirstBackoff \in Backoffs
        BY DEF Backoffs
    <2>2. QED
        BY <1>2, <1>7, <2>1, SucceedsType, Entering, Zenon
<1>8. CASE Reconciled
    <2>1. CASE managing
        BY <1>2, <1>8, <2>1, Entering DEF Reconciled, TypeOK, tickers, Requests
    <2>2. CASE ~managing
        BY <1>7, <1>8, <2>2 DEF Reconciled
    <2>3. QED
        BY <2>1, <2>2
<1>9. CASE ReportArrives
    BY <1>7, <1>9 DEF ReportArrives
<1>10. CASE RequestFails
    <2>1. Fails /\ UNCHANGED <<managing, gateway, silence>>
        BY <1>10 DEF RequestFails
    <2>2. backoff \in 2 .. 30
        BY NextBackoff DEF TypeOK
    <2>3. WellTimed(loop')
        <3>1. CASE loop' = At("exited", RestartSec, TRUE)
            BY <3>1, Entering, Zenon
        <3>2. ASSUME NEW t \in Nat, t <= backoff + 1, loop' = At("sleep", t, FALSE) PROVE WellTimed(loop')
            <4>1. t \in 0 .. 31
                BY <2>2, <3>2
            <4>2. QED
                BY <3>2, <4>1, Entering, Zenon
        <3>3. QED
            BY <2>1, <3>1, <3>2, FailsType, Zenon
    <2>4. QED
        BY <1>2, <2>1, <2>3, FailsType, Zenon DEF TypeOK
<1>11. CASE Wakes
    BY <1>2, <1>11, Entering, Zenon DEF Wakes, TypeOK, tickers
<1>12. CASE Restarts
    BY <1>2, <1>12, Entering, Zenon DEF Restarts, TypeOK, tickers, Requests
<1>13. CASE GatewayFails
    BY <1>13 DEF GatewayFails, TypeOK, tickers
<1>14. CASE GatewayReturns
    BY <1>14 DEF GatewayReturns, TypeOK, tickers
<1>15. QED
    BY <1>3, <1>4, <1>5, <1>6, <1>8, <1>9, <1>10, <1>11, <1>12, <1>13, <1>14, TickType DEF Next

(***************************************************************************)
(* Steps that take no time.                                                *)
(***************************************************************************)
\* The numbers of a state.
LEMMA Numbers ==
    ASSUME TypeOK
    PROVE  /\ loop.t \in Nat /\ loop.at \in Requests \cup {"work", "wait", "sleep", "exited"}
           /\ loop.at \in Requests => loop.t <= Timeout
           /\ loop.at = "work" => loop.t <= MaxWork
           /\ loop.at = "sleep" => loop.t <= maxBackoff + 1
           /\ loop.at = "exited" => loop.t <= RestartSec
           /\ loop.at = "wait" => loop.t = 0
           /\ ToTick \in 0 .. DesiredPeriod /\ (desired.due => ToTick = 0)
           /\ backoff \in Backoffs /\ backoff \in 2 .. 30
           /\ gateway.for \in Nat /\ silence \in Nat
<1>1. WellTimed(loop) /\ backoff \in Backoffs /\ backoff \in 2 .. 30
    BY LoopType, NextBackoff DEF TypeOK
<1>2. /\ loop.t \in Nat /\ loop.at \in Requests \cup {"work", "wait", "sleep", "exited"}
      /\ loop.at \in Requests => loop.t <= Timeout
      /\ loop.at = "work" => loop.t <= MaxWork
      /\ loop.at = "sleep" => loop.t <= maxBackoff + 1
      /\ loop.at = "exited" => loop.t <= RestartSec
      /\ loop.at = "wait" => loop.t = 0
    BY <1>1, Durations DEF WellTimed, Limit, Places, Requests
<1>3. ToTick \in 0 .. DesiredPeriod /\ (desired.due => ToTick = 0)
    BY Durations DEF TypeOK, ToTick
<1>4. gateway.for \in Nat /\ silence \in Nat
    BY Durations DEF TypeOK
<1>5. QED
    BY <1>1, <1>2, <1>3, <1>4

\* A step that takes no time keeps the invariant if it brings no report later.
LEMMA InstantKeeps ==
    ASSUME LoopInv, TypeOK', Progress', UNCHANGED <<managing, gateway, silence>>,
           managing /\ gateway.up /\ Normal => Normal',
           managing /\ gateway.up => \A x \in Int : Within(x) => Within(x)',
           managing /\ ~gateway.up /\ Outage => Outage'
    PROVE  LoopInv'
<1>1. CASE ~managing
    BY <1>1 DEF LoopInv
<1>2. CASE managing /\ gateway.up
    <2>1. /\ Timeout + maxBackoff + Round - gateway.for \in Int
          /\ StaleAfter - silence \in Int
        BY Durations, Numbers DEF LoopInv
    <2>2. Serving'
        <3>1. Serving
            BY <1>2 DEF LoopInv
        <3>2. QED
            BY <1>2, <2>1, <3>1, Zenon DEF Serving
    <2>3. QED
        BY <1>2, <2>2 DEF LoopInv
<1>3. CASE managing /\ ~gateway.up
    BY <1>3 DEF LoopInv
<1>4. QED
    BY <1>1, <1>2, <1>3

\* A tick that is taken begins a poll or a heartbeat.
LEMMA TakeKeeps == ASSUME LoopInv, TypeOK', TakeDesired \/ TakeHeartbeat PROVE LoopInv'
<1> USE Durations
<1>1. /\ loop.at = "wait" /\ loop.t = 0 /\ ~loop.first
      /\ loop'.at \in {"get", "beat"} /\ loop'.t = 0 /\ ~loop'.hit /\ ~loop'.first
      /\ UNCHANGED <<managing, gateway, silence, backoff>>
    BY Numbers DEF LoopInv, Progress, TakeDesired, TakeHeartbeat, At
<1>2. Progress'
    BY <1>1 DEF Progress, Requests
<1>3. Normal => Normal'
    BY <1>1, Numbers DEF Normal, LoopInv
<1>4. \A x \in Int : Within(x) => Within(x)'
    BY <1>1, Numbers DEF Within, LoopInv
<1>5. Outage => Outage'
    BY <1>1 DEF Outage
<1>6. QED
    BY <1>1, <1>2, <1>3, <1>4, <1>5, InstantKeeps

\* An answer begins a pass.
LEMMA DesiredArrivesKeeps == ASSUME LoopInv, TypeOK', DesiredArrives PROVE LoopInv'
<1> USE Durations
<1>1. /\ loop.at = "get" /\ gateway.up /\ loop'.at = "work" /\ loop'.t = 0 /\ ~loop'.hit
      /\ loop'.first = loop.first /\ UNCHANGED <<managing, gateway, silence, backoff>>
    BY DEF DesiredArrives, At
<1>2. Progress' /\ loop.t <= Timeout /\ loop.t \in Nat /\ (~loop.hit => loop.t <= MaxAnswer)
    BY <1>1, Numbers DEF LoopInv, Progress, Requests
<1>3. Normal => Normal'
    BY <1>1, <1>2, Numbers DEF Normal, LoopInv
<1>4. \A x \in Int : Within(x) => Within(x)'
    BY <1>1, <1>2, Numbers DEF Within, LoopInv
<1>5. QED
    BY <1>1, <1>2, <1>3, <1>4, InstantKeeps

\* A pass ends.
LEMMA ReconciledKeeps == ASSUME LoopInv, TypeOK', Reconciled PROVE LoopInv'
<1> USE Durations
<1>1. loop.at = "work" /\ UNCHANGED <<managing, gateway, silence>>
    BY DEF Reconciled
<1>2. CASE managing
    <2>1. /\ loop'.at = "post" /\ loop'.t = 0 /\ ~loop'.hit /\ loop'.first = loop.first
          /\ UNCHANGED backoff
        BY <1>2 DEF Reconciled, At
    <2>2. Progress' /\ loop.t <= MaxWork /\ loop.t \in Nat
        BY <1>1, <2>1, Numbers DEF LoopInv, Progress, Requests
    <2>3. Normal => Normal'
        BY <1>1, <2>1, <2>2, Numbers DEF Normal, LoopInv
    <2>4. \A x \in Int : Within(x) => Within(x)'
        BY <1>1, <2>1, <2>2, Numbers DEF Within, LoopInv
    <2>5. Outage => Outage'
        BY <1>1, <2>1, <2>2, Numbers DEF Outage, LoopInv
    <2>6. QED
        BY <1>1, <2>2, <2>3, <2>4, <2>5, InstantKeeps
<1>3. CASE ~managing
    BY <1>1, <1>3 DEF Reconciled, Succeeds, At, LoopInv, Progress, Requests
<1>4. QED
    BY <1>2, <1>3

\* A report that arrives is the beginning of a new round.
LEMMA ReportArrivesKeeps == ASSUME LoopInv, TypeOK', ReportArrives PROVE LoopInv'
<1> USE Durations
<1>1. /\ gateway.up /\ UNCHANGED <<managing, gateway>> /\ silence' = 0
      /\ loop'.at = "wait" /\ loop'.t = 0 /\ ~loop'.hit /\ ~loop'.first /\ backoff' = FirstBackoff
    BY DEF ReportArrives, Succeeds, At
<1>2. Progress'
    BY <1>1 DEF Progress, Requests
<1>3. ToTick' \in 0 .. 5
    BY DEF TypeOK, ToTick
<1>4. Normal'
    <2>1. silence' + ToTick' <= DesiredPeriod
        <3>1. silence' = 0
            BY <1>1
        <3>2. \A n \in 0 .. 5 : 0 + n <= DesiredPeriod
            OBVIOUS
        <3>3. QED
            BY <1>3, <3>1, <3>2, Zenon
    <2>2. QED
        BY <1>1, <2>1, Zenon DEF Normal
<1>5. QED
    BY <1>1, <1>2, <1>4 DEF LoopInv, Serving

\* An error ends the process or is slept off, which the bound has counted in.
LEMMA RequestFailsKeeps == ASSUME LoopInv, TypeOK', RequestFails PROVE LoopInv'
<1> USE Durations
<1>2. loop.hit \/ ~gateway.up
    BY DEF RequestFails
<1>3. Fails /\ TypeOK /\ loop.at \in Requests /\ loop.at # "sleep" /\ UNCHANGED <<managing, gateway, silence>>
    BY DEF RequestFails, LoopInv, Requests
<1>4. Normal => ~gateway.up
    BY <1>2 DEF Normal
<1>5. CASE loop.first
    <2>1. /\ loop'.at = "exited" /\ loop'.t = RestartSec /\ ~loop'.hit /\ loop'.first /\ backoff' = backoff
        BY <1>3, <1>5, FailsType DEF At
    <2>2. Progress'
        BY <1>5, <2>1 DEF LoopInv, Progress, Requests
    <2>3. gateway.up => \A x \in Int : Within(x) => Within(x)'
        BY <1>2, <1>3, <1>5, <2>1, Numbers DEF Within, Requests
    <2>4. Outage => Outage'
        BY <1>3, <1>5, <2>1, Numbers DEF Outage, LoopInv, Progress
    <2>5. QED
        BY <1>3, <1>4, <2>2, <2>3, <2>4, InstantKeeps
<1>6. CASE ~loop.first
    <2>1. PICK t \in Nat : /\ backoff <= t /\ t <= backoff + 1 /\ loop' = At("sleep", t, FALSE)
                           /\ backoff' = nextBackoff(backoff)
        BY <1>3, <1>6, FailsType, Zenon
    <2>2. loop'.at = "sleep" /\ loop'.t = t /\ ~loop'.hit /\ ~loop'.first
        BY <2>1 DEF At
    <2>3. Progress'
        BY <2>2 DEF Progress, Requests
    <2>4. ToTick' = ToTick
        BY <1>3, FailsType DEF ToTick
    <2>5. gateway.up => \A x \in Int : Within(x) => Within(x)'
        <3> SUFFICES ASSUME gateway.up, NEW x \in Int, Within(x)
                     PROVE  t + Round <= x /\ ToTick + Round <= x
            BY <2>2, <2>4, Zenon DEF Within
        <3>1. Timeout - loop.t + backoff + 1 + Round <= x /\ ToTick + Round <= x
            BY <1>2, <1>6 DEF Within
        <3>2. QED
            BY <1>3, <2>1, <3>1, Numbers
    <2>6. Outage => Outage'
        <3> SUFFICES ASSUME Outage, gateway.for <= Tolerated
                     PROVE  /\ silence <= Pace + gateway.for
                            /\ silence + t + Round <= StaleAfter
                            /\ backoff' <= gateway.for + t + 2
            BY <1>3, <2>2 DEF Outage
        <3>1. silence <= Pace + gateway.for /\ backoff <= gateway.for + 2
            BY <1>3, Numbers DEF Outage
        <3>2. backoff' <= backoff + backoff /\ backoff' \in 2 .. 30
            BY <1>3, <2>1, Numbers, NextBackoff
        <3>3. Pace + Tolerated + backoff + 1 + Round <= StaleAfter
            BY <1>3, <3>1, Numbers, ToleratedAssumption
        <3>4. QED
            BY <1>3, <2>1, <3>1, <3>2, <3>3, Numbers
    <2>7. QED
        BY <1>3, <1>4, <2>3, <2>5, <2>6, InstantKeeps
<1>7. QED
    BY <1>5, <1>6

\* The end of a sleep, or a restart.
LEMMA WakesKeeps == ASSUME LoopInv, TypeOK', Wakes \/ Restarts PROVE LoopInv'
<1> USE Durations
<1>1. /\ loop.t = 0 /\ ~loop.hit /\ UNCHANGED <<managing, gateway, silence, backoff, desired>>
      /\ loop'.t = 0 /\ ~loop'.hit
      /\ \/ loop.at = "sleep" /\ ~loop.first /\ loop'.at = "wait" /\ ~loop'.first
         \/ loop.at = "exited" /\ loop'.at = "get" /\ loop'.first
    BY DEF Wakes, Restarts, At, tickers, LoopInv, Progress, Requests
<1>2. Progress'
    BY <1>1 DEF LoopInv, Progress, Requests
<1>3. ~Normal /\ ToTick' = ToTick
    BY <1>1 DEF Normal, ToTick
<1>4. \A x \in Int : Within(x) => Within(x)'
    BY <1>1, <1>3, Numbers DEF Within, LoopInv
<1>5. Outage => Outage'
    BY <1>1, Numbers DEF Outage, LoopInv
<1>6. QED
    BY <1>1, <1>2, <1>3, <1>4, <1>5, InstantKeeps

(***************************************************************************)
(* The gateway and time.                                                   *)
(***************************************************************************)
\* An outage begins when reports arrive at their pace.
LEMMA GatewayFailsKeeps == ASSUME LoopInv, TypeOK', GatewayFails PROVE LoopInv'
<1> USE Durations
<1>1. /\ gateway.up /\ gateway.for = Recovery /\ ~gateway'.up /\ gateway'.for = 0
      /\ UNCHANGED <<managing, loop, backoff, silence>>
    BY DEF GatewayFails
<1>2. Progress'
    BY <1>1 DEF LoopInv, Progress
<1>3. ASSUME managing PROVE Outage'
    <2>1. ~Within(Timeout + maxBackoff + Round - gateway.for)
        BY <1>1, Numbers, RecoveryAssumption DEF Within, LoopInv, Progress, Requests
    <2>2. Normal
        BY <1>1, <1>3, <2>1 DEF LoopInv, Serving
    <2>3. silence <= Pace
        BY <2>2, Numbers DEF Normal, LoopInv, Progress, Requests
    <2>4. QED
        BY <1>1, <2>2, <2>3, Numbers DEF Normal, Outage, LoopInv
<1>4. QED
    BY <1>1, <1>2, <1>3 DEF LoopInv

\* At the end of an outage the next report is not far: the time to it is that
\* of a request that hangs, of the back-off and of a round.
LEMMA GatewayReturnsKeeps == ASSUME LoopInv, TypeOK', GatewayReturns PROVE LoopInv'
<1> USE Durations
<1>1. /\ ~gateway.up /\ gateway'.up /\ gateway'.for = 0 /\ (~gateway'.long => gateway.for <= Tolerated)
      /\ UNCHANGED <<managing, loop, backoff, silence, desired>>
    <2>1. gateway'.long = (gateway.for > Tolerated)
        BY Zenon DEF GatewayReturns
    <2>2. ~(gateway.for > Tolerated) => gateway.for <= Tolerated
        BY Numbers DEF LoopInv
    <2>3. QED
        BY <2>1, <2>2, Zenon DEF GatewayReturns, tickers
<1>2. Progress'
    BY <1>1 DEF LoopInv, Progress
<1>3. ASSUME managing PROVE Serving'
    <2>1. Within(Timeout + maxBackoff + Round)
        BY Numbers DEF Within, LoopInv, Progress, Requests
    <2>2. ASSUME gateway.for <= Tolerated PROVE Within(StaleAfter - silence)
        <3>1. silence <= Pace + gateway.for /\ silence + ToTick + Round <= StaleAfter
            BY <1>1, <1>3, <2>2, Numbers, ToleratedAssumption DEF LoopInv, Outage
        <3>2. loop.at = "sleep" => silence + loop.t + Round <= StaleAfter
            BY <1>1, <1>3, <2>2 DEF LoopInv, Outage
        <3>3. silence + 5 + Round <= StaleAfter
            BY <2>2, <3>1, Numbers, ToleratedAssumption DEF LoopInv
        <3>4. ASSUME loop.hit
              PROVE  silence + Timeout - loop.t + backoff + 1 + Round <= StaleAfter
            <4>1. loop.t >= 1 /\ loop.at # "sleep"
                BY <3>4 DEF LoopInv, Progress, Requests
            <4>2. backoff = 2 \/ backoff + loop.t <= gateway.for + 2
                BY <1>1, <1>3, <2>2, <4>1 DEF LoopInv, Outage
            <4>3. backoff <= Tolerated + 1 /\ backoff \in Backoffs
                BY <1>1, <1>3, <2>2, <3>4, <4>1, <4>2, Numbers DEF LoopInv, Outage
            <4>4. Pace + Tolerated - 1 + Timeout + backoff + 1 + Round <= StaleAfter
                BY <4>3, ToleratedAssumption
            <4>5. QED
                BY <2>2, <3>1, <4>1, <4>4, Numbers DEF LoopInv
        <3>5. QED
            BY <3>1, <3>2, <3>3, <3>4, Numbers DEF Within, LoopInv, Progress, Requests
    <2>3. QED
        BY <1>1, <2>1, <2>2 DEF Serving, Within, ToTick
<1>4. QED
    BY <1>1, <1>2, <1>3 DEF LoopInv

\* What a second does to the loop and to the ticker of the poll.
LEMMA Second ==
    ASSUME LoopInv, Tick
    PROVE  /\ UNCHANGED <<managing, backoff>> /\ gateway'.up = gateway.up
           /\ loop'.at = loop.at /\ loop'.first = loop.first
           /\ loop.at = "wait" => loop'.t = loop.t /\ ~loop'.hit /\ ~desired.due
           /\ loop.at \in {"sleep", "exited"} => loop.t > 0 /\ loop'.t = loop.t - 1 /\ ~loop'.hit
           /\ loop.at = "work" => loop.t < MaxWork /\ loop'.t = loop.t + 1 /\ ~loop'.hit
           /\ loop.at \in Requests =>
                 /\ loop'.t = loop.t + 1
                 /\ loop.t < Timeout
                 /\ loop'.hit <=> loop.hit \/ ~gateway.up
                 /\ ~loop'.hit => loop.t < MaxAnswer
           /\ silence' \in Nat /\ silence' <= silence + 1
           /\ silence <= StaleAfter => silence' = silence + 1
<1> USE Durations
<1>1. TypeOK /\ Progress /\ UNCHANGED <<managing, backoff>> /\ gateway'.up = gateway.up
    BY DEF LoopInv, Tick, TypeOK
<1>2. /\ silence' \in Nat /\ silence' <= silence + 1
      /\ silence <= StaleAfter => silence' = silence + 1
    BY <1>1, Numbers DEF Tick, Least
<1>3. loop \in [at : Places, t : Nat, hit : BOOLEAN, first : BOOLEAN]
    BY <1>1, LoopType DEF WellTimed
<1>4. CASE loop.at = "wait"
    BY <1>1, <1>2, <1>3, <1>4 DEF Tick, Urgent, Progress, Requests
<1>5. CASE loop.at \in {"sleep", "exited"}
    <2>1. loop.t > 0 /\ ~loop.hit /\ loop' = [loop EXCEPT !.t = @ - 1]
        BY <1>1, <1>3, <1>5 DEF Tick, Urgent, Progress, Requests
    <2>2. QED
        BY <1>1, <1>2, <1>3, <1>5, <2>1 DEF Requests
<1>6. CASE loop.at \in Requests \cup {"work"}
    <2>1. loop' = [loop EXCEPT !.t = @ + 1, !.hit = loop.at \in Requests /\ (@ \/ ~gateway.up)]
        BY <1>6 DEF Tick, Requests
    <2>2. /\ loop'.at = loop.at /\ loop'.first = loop.first /\ loop'.t = loop.t + 1
          /\ loop'.hit <=> loop.at \in Requests /\ (loop.hit \/ ~gateway.up)
        BY <1>3, <2>1, Zenon
    <2>3. loop.t < TimeLimit
        BY <1>3, <1>6 DEF Tick, Urgent, TimeLimit, Requests
    <2>4. CASE loop.at = "work"
        BY <1>1, <1>2, <2>2, <2>3, <2>4 DEF TimeLimit, Requests
    <2>5. CASE loop.at \in Requests
        <3>1. loop.t < IF loop.hit \/ ~gateway.up THEN Timeout ELSE MaxAnswer
            BY <2>3, <2>5 DEF TimeLimit, Requests
        <3>2. QED
            BY <1>1, <1>2, <1>3, <2>2, <2>5, <3>1 DEF Requests
    <2>6. QED
        BY <1>6, <2>4, <2>5
<1>7. QED
    BY <1>3, <1>4, <1>5, <1>6 DEF Places

\* The ticker of the poll comes a second closer once it exists.
LEMMA TickCloser ==
    ASSUME LoopInv, Tick, ~loop.first
    PROVE  \E n \in Nat : ToTick' = n /\ (IF ToTick = 0 THEN n = 0 ELSE n = ToTick - 1)
<1>1. /\ DesiredPeriod \in Nat /\ DesiredPeriod > 0
      /\ desired \in [left : 1 .. DesiredPeriod, due : BOOLEAN]
    BY Durations DEF LoopInv, TypeOK
<1>2. desired' = Ticked(desired, DesiredPeriod)
    BY DEF Tick
<1>3. CASE desired.due
    <2>1. desired'.due
        BY <1>1, <1>2, <1>3, TickedTicker
    <2>2. QED
        BY <1>3, <2>1 DEF ToTick
<1>4. CASE ~desired.due /\ desired.left = 1
    <2>1. desired'.due
        BY <1>2, <1>4 DEF Ticked
    <2>2. QED
        BY <1>4, <2>1 DEF ToTick
<1>5. CASE ~desired.due /\ desired.left # 1
    <2>1. ~desired'.due /\ desired'.left = desired.left - 1 /\ desired.left - 1 \in Nat
        BY <1>1, <1>2, <1>5 DEF Ticked
    <2>2. QED
        BY <1>1, <1>5, <2>1 DEF ToTick
<1>6. QED
    BY <1>3, <1>4, <1>5

\* A second later the next report is a second closer.
LEMMA WithinSecond ==
    ASSUME LoopInv, Tick, gateway.up, NEW x \in Int, Within(x)
    PROVE  x >= 1 /\ Within(x - 1)'
<1> USE Durations
<1>1. TypeOK /\ Progress
    BY DEF LoopInv
<1>2. CASE loop.first
    <2>1. loop.at \in {"get", "work", "post", "exited"} /\ loop'.first
        BY <1>1, <1>2, Second, Zenon DEF Progress
    <2>2. QED
        BY <1>1, <1>2, <2>1, Second, Numbers DEF Within, Requests
<1>3. CASE ~loop.first
    <2>1. PICK n \in Nat : ToTick' = n /\ (IF ToTick = 0 THEN n = 0 ELSE n = ToTick - 1)
        BY <1>3, TickCloser
    <2>2. loop.at # "exited" /\ ~loop'.first
        BY <1>1, <1>3, Second DEF Progress
    <2>3. CASE loop.at = "wait"
        <3>1. ToTick > 0
            BY <1>1, <2>3, Second DEF TypeOK, ToTick
        <3>2. QED
            BY <1>1, <2>1, <2>2, <2>3, <3>1, Second, Numbers DEF Within, Requests
    <2>4. CASE loop.at \in {"sleep", "work"}
        BY <1>1, <2>1, <2>2, <2>4, Second, Numbers DEF Within, Requests
    <2>5. CASE loop.at \in Requests
        BY <1>1, <1>3, <2>1, <2>2, <2>5, Second, Numbers DEF Within, Requests
    <2>6. QED
        BY <1>1, <2>2, <2>3, <2>4, <2>5, Numbers
<1>4. QED
    BY <1>2, <1>3

\* While nothing fails, silence grows with the place in the round.
LEMMA NormalSecond == ASSUME LoopInv, Tick, gateway.up, Normal PROVE Normal'
<1> USE Durations
<1>1. TypeOK /\ Progress
    BY DEF LoopInv
<1>2. CASE loop.at = "wait"
    <2>1. ~loop.first
        BY <1>1, <1>2 DEF Progress
    <2>2. PICK n \in Nat : ToTick' = n /\ (IF ToTick = 0 THEN n = 0 ELSE n = ToTick - 1)
        BY <2>1, TickCloser
    <2>3. ToTick > 0
        BY <1>1, <1>2, Second DEF TypeOK, ToTick
    <2>4. QED
        BY <1>1, <1>2, <2>2, <2>3, Second, Numbers DEF Normal, Requests
<1>3. CASE loop.at # "wait"
    BY <1>1, <1>3, Second, Numbers DEF Normal, Requests
<1>4. QED
    BY <1>2, <1>3

\* A second with the gateway up.
LEMMA ServingSecond == ASSUME LoopInv, Tick, gateway.up, Serving PROVE Serving'
<1> USE Durations
<1>1. CASE Normal
    BY <1>1, NormalSecond DEF Serving
<1>2. CASE ~Normal
    <2>1. /\ TypeOK /\ gateway.for \in Nat /\ silence \in Nat
          /\ Recovery >= Timeout + maxBackoff + Round + 1
        BY Numbers, RecoveryAssumption DEF LoopInv
    <2>2. PICK x \in Int : x = Timeout + maxBackoff + Round - gateway.for
        BY <2>1
    <2>3. PICK y \in Int : y = StaleAfter - silence
        BY <2>1
    <2>4. Within(x) /\ (~gateway.long => Within(y))
        BY <1>2, <2>2, <2>3, Zenon DEF Serving
    <2>5. x >= 1 /\ Within(x - 1)'
        BY <2>4, WithinSecond
    <2>6. gateway.for + 1 < Recovery
        BY <2>1, <2>2, <2>5
    <2>7. gateway'.for = gateway.for + 1 /\ (gateway.long => gateway'.long)
        BY <2>1, <2>6 DEF Tick, Least, TypeOK
    <2>8. x - 1 = Timeout + maxBackoff + Round - gateway'.for
        BY <2>1, <2>2, <2>7
    <2>9. ASSUME ~gateway'.long PROVE Within(y - 1)' /\ y - 1 = StaleAfter - silence'
        <3>1. y >= 1 /\ Within(y - 1)'
            BY <2>4, <2>7, <2>9, WithinSecond
        <3>2. silence' = silence + 1
            BY <2>1, <2>3, <3>1, Second
        <3>3. QED
            BY <2>1, <2>3, <3>1, <3>2
    <2>10. QED
        BY <2>5, <2>8, <2>9, Zenon DEF Serving
<1>3. QED
    BY <1>1, <1>2

\* A second of an outage.
LEMMA OutageSecond == ASSUME LoopInv, Tick, ~gateway.up, Outage PROVE Outage'
<1> USE Durations
<1>1. TypeOK /\ Progress
    BY DEF LoopInv
<1>2. gateway'.for = Least(gateway.for + 1, Tolerated + 1)
    BY <1>1 DEF Tick, TypeOK
<1>3. ASSUME gateway'.for <= Tolerated
      PROVE  gateway'.for = gateway.for + 1 /\ gateway.for <= Tolerated
    BY <1>1, <1>2, <1>3, Numbers DEF Least
<1>4. CASE loop.at = "sleep"
    BY <1>1, <1>3, <1>4, Second, Numbers DEF Outage
<1>5. CASE loop.at # "sleep"
    BY <1>1, <1>3, <1>5, Second, Numbers DEF Outage
<1>6. QED
    BY <1>4, <1>5

\* Time keeps the invariant.
LEMMA TickKeeps == ASSUME LoopInv, TypeOK', Tick PROVE LoopInv'
<1>1. Progress'
    BY Durations, Second, Numbers DEF LoopInv, Progress, Requests
<1>2. CASE gateway.up
    <2>1. gateway'.up /\ managing' = managing
        BY <1>2, Second, Zenon
    <2>2. managing => Serving'
        BY <1>2, ServingSecond DEF LoopInv
    <2>3. QED
        BY <1>1, <2>1, <2>2, Zenon DEF LoopInv
<1>3. CASE ~gateway.up
    <2>1. ~gateway'.up /\ managing' = managing
        BY <1>3, Second
    <2>2. managing => Outage'
        BY <1>3, OutageSecond DEF LoopInv
    <2>3. QED
        BY <1>1, <2>1, <2>2, Zenon DEF LoopInv
<1>4. QED
    BY <1>2, <1>3

(***************************************************************************)
(* Theorems.                                                               *)
(***************************************************************************)
\* The process starts at its pace.
LEMMA InitInv == Init => LoopInv
<1> SUFFICES ASSUME Init PROVE LoopInv
    OBVIOUS
<1> USE Durations
<1>1. /\ loop.at = "get" /\ loop.t = 0 /\ ~loop.hit /\ loop.first /\ backoff = FirstBackoff
      /\ gateway.up /\ silence = 0
    BY DEF Init, At
<1>2. WellTimed(loop)
    BY Entering, Zenon DEF Init, Requests
<1>3. TypeOK
    <2>1. backoff \in Backoffs /\ managing \in BOOLEAN
        BY DEF Init, Backoffs
    <2>2. /\ desired \in [left : 1 .. DesiredPeriod, due : BOOLEAN]
          /\ heart \in [left : 1 .. Hint, due : BOOLEAN]
        BY DEF Init, NewTicker
    <2>3. gateway \in [up : BOOLEAN, for : Nat, long : BOOLEAN] /\ gateway.for = Recovery
        BY DEF Init
    <2>4. QED
        BY <1>1, <1>2, <2>1, <2>2, <2>3 DEF TypeOK, WellTimed, Places, Limit
<1>4. Progress
    BY <1>1 DEF Progress, Requests
<1>5. Normal
    BY <1>1 DEF Normal
<1>6. QED
    BY <1>1, <1>3, <1>4, <1>5 DEF LoopInv, Serving

\* Every step keeps the invariant.
LEMMA NextInv == LoopInv /\ [Next]_vars => LoopInv'
<1> SUFFICES ASSUME LoopInv, [Next]_vars PROVE LoopInv'
    OBVIOUS
<1>1. TypeOK'
    BY TypeKept DEF LoopInv
<1>2. CASE UNCHANGED vars
    BY <1>1, <1>2, Zenon DEF vars, tickers, LoopInv, Progress, Serving, Normal, Within, ToTick, Outage
<1>3. QED
    BY <1>1, <1>2, TakeKeeps, DesiredArrivesKeeps, ReconciledKeeps, ReportArrivesKeeps,
       RequestFailsKeeps, WakesKeeps, GatewayFailsKeeps, GatewayReturnsKeeps, TickKeeps DEF Next

\* The invariant holds in every state of the loop.
LEMMA LoopInvariance == Spec => []LoopInv
BY InitInv, NextInv, PTL DEF Spec

\* Every variable of the loop keeps its type, no place takes longer than it
\* may and the back-off takes its five values, for all constants.
THEOREM LoopTyped == Spec => []TypeOK
<1>1. LoopInv => TypeOK
    BY DEF LoopInv
<1>2. QED
    BY <1>1, LoopInvariance, PTL

\* For every interval, factor and duration that leave room for it, an agent
\* with processes is not stale after an outage of up to Tolerated seconds,
\* however run, sleepWithJitter and nextBackoff were hit by it.
THEOREM ShortOutages == Spec => []ShortOutageUnnoticed
<1>1. LoopInv => ShortOutageUnnoticed
    <2> SUFFICES ASSUME LoopInv, managing, silence > StaleAfter, ~gateway.long,
                        gateway.up \/ gateway.for <= Tolerated
                 PROVE  FALSE
        BY Durations, Numbers DEF ShortOutageUnnoticed, LoopInv
    <2> USE Durations
    <2>1. TypeOK /\ Progress /\ Pace + Tolerated <= StaleAfter
        BY ToleratedAssumption DEF LoopInv
    <2>2. CASE gateway.up /\ Normal
        BY <2>1, <2>2, Numbers DEF Normal, Progress, Requests
    <2>3. CASE gateway.up /\ ~Normal
        <3>1. Within(StaleAfter - silence)
            BY <2>3 DEF LoopInv, Serving
        <3>2. QED
            BY <2>1, <3>1, Numbers DEF Within, Progress, Requests
    <2>4. CASE ~gateway.up
        BY <2>1, <2>4, Numbers DEF LoopInv, Outage
    <2>5. QED
        BY <2>2, <2>3, <2>4
<1>2. QED
    BY <1>1, LoopInvariance, PTL

\* However long an outage was, after the time for a request that hangs, the
\* longest back-off and a round the agent reports at its pace again.
THEOREM BackAtPace == Spec => []BackInTime
<1>1. LoopInv => BackInTime
    <2> SUFFICES ASSUME LoopInv, managing, gateway.up, gateway.for = Recovery PROVE silence <= Pace
        BY DEF BackInTime
    <2> USE Durations
    <2>1. TypeOK /\ Progress /\ Serving
        BY DEF LoopInv
    <2>2. ~Within(Timeout + maxBackoff + Round - gateway.for)
        BY <2>1, Numbers, RecoveryAssumption DEF Within, Progress, Requests
    <2>3. Normal
        BY <2>1, <2>2 DEF Serving
    <2>4. QED
        BY <2>1, <2>3, Numbers DEF Normal, Progress, Requests
<1>2. QED
    BY <1>1, LoopInvariance, PTL
==============================================================================
