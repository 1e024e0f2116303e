------------------------------ MODULE TimeSync -------------------------------
(***************************************************************************)
(* How both processors learn the main computer's time (application/p1 and  *)
(* p2/app_timeSync.c, target/stm32f4/systemTime.c): a request of P2 passes *)
(* P1 on its way to the main computer, whose answer passes P1 on its way   *)
(* to P2.  Each notes when it sent a request and takes an answer for the   *)
(* answer to the last one.                                                 *)
(*                                                                         *)
(* The time of the main computer is the time.  The clock of a processor    *)
(* starts Ahead[p] ahead of it, does not wrap, and is slow: a prescaler of *)
(* N divides by N + 1, so one microsecond in Divider is not counted.       *)
(* Frames keep their order and can be lost.                                *)
(***************************************************************************)
EXTENDS Integers, Sequences

CONSTANTS
  Ahead,         \* of each processor, at the start
  Divider,       \* TIM_PSC + 1, and one more than the clocks it counts in a microsecond: 85
  MaxTries,      \* the requests without an answer after which time is not synced, for 10
  MaxTime,       \* bounds: how long it goes on,
  MaxRequests    \* and how many requests there are

Processors == {"P1", "P2"}
Links == {"P2toP1", "P1toMain", "mainToP1", "P1toP2"}

VARIABLES
  now,
  clock,     \* TIM_CNT and g_systemTimeHighPart,
  prescaler, \* and how far the count below them is
  frames,    \* on each link; of an answer: the time in it
  begun,     \* startTimeMeasurementUS
  ping,      \* lastPingUS
  diff,      \* g_timeDiffUS
  synced,    \* g_timeIsSync
  tries,     \* syncTries
  \* history, in the time of the main computer (and of a frame, when each
  \* processor sent the request):
  asked,     \* when each sent its last request,
  round,     \* and of its last answer: when it came, when the request it answers
             \* was sent, and the one it was taken to answer
  requests   \* bound

times == <<now, clock, prescaler>>
vars == <<times, frames, begun, ping, diff, synced, tries, asked, round, requests>>

Round == [end : 0 .. now, sent : 0 .. now, taken : 0 .. now]

Init ==
  /\ now = 0
  /\ clock = Ahead /\ prescaler \in [Processors -> 0 .. Divider - 1]
  /\ frames = [l \in Links |-> <<>>]
  /\ begun = [p \in Processors |-> 0]
  /\ ping = [p \in Processors |-> 0] /\ diff = [p \in Processors |-> 0]
  /\ synced = [p \in Processors |-> FALSE]
  /\ tries = [p \in Processors |-> 0]
  /\ asked = [p \in Processors |-> 0]
  /\ round = [p \in Processors |-> [end |-> 0, sent |-> 0, taken |-> 0]]
  /\ requests = 0

-------------------------------------------------------------------------------
\* getSystemTimeUS
SystemTime(p) == clock[p]

TypeOK ==
  /\ now \in 0 .. MaxTime
  /\ clock \in [Processors -> Int] /\ prescaler \in [Processors -> 0 .. Divider - 1]
  /\ \A l \in Links : frames[l] \in Seq([sent : [Processors -> 0 .. now], time : 0 .. now])
  /\ \A p \in Processors : begun[p] <= SystemTime(p)
  /\ ping \in [Processors -> Nat] /\ diff \in [Processors -> Int]
  /\ synced \in [Processors -> BOOLEAN]
  /\ tries \in [Processors -> 0 .. MaxTries]
  /\ asked \in [Processors -> 0 .. now] /\ round \in [Processors -> Round]
  /\ requests \in 0 .. MaxRequests

\* What a processor does when it sends or passes on a request,
Asks(p) ==
  /\ begun' = [begun EXCEPT ![p] = SystemTime(p)]
  /\ tries' = [tries EXCEPT ![p] = IF @ + 1 >= MaxTries THEN MaxTries ELSE @ + 1]
  /\ synced' = [synced EXCEPT ![p] = @ /\ tries[p] + 1 < MaxTries]
  /\ asked' = [asked EXCEPT ![p] = now]
  /\ UNCHANGED <<times, ping, diff, round>>

\* and with an answer: setCurrentTimeDiffUS and timeSetSync.
MutantLearns(p, answer) ==
  LET half == (SystemTime(p) - begun[p]) \div 2
  IN /\ ping' = [ping EXCEPT ![p] = half]
     /\ diff' = [diff EXCEPT ![p] = answer.time - half - SystemTime(p)]
     /\ synced' = [synced EXCEPT ![p] = TRUE]
     /\ tries' = [tries EXCEPT ![p] = 0]
     /\ round' = [round EXCEPT ![p] =
                    [end |-> now, sent |-> answer.sent[p], taken |-> asked[p]]]
     /\ UNCHANGED <<times, begun, asked, requests>>

Learns(p, answer) ==
  LET half == (SystemTime(p) - begun[p]) \div 2
  IN /\ ping' = [ping EXCEPT ![p] = half]
     /\ diff' = [diff EXCEPT ![p] = answer.time + half - SystemTime(p)]
     /\ synced' = [synced EXCEPT ![p] = TRUE]
     /\ tries' = [tries EXCEPT ![p] = 0]
     /\ round' = [round EXCEPT ![p] =
                    [end |-> now, sent |-> answer.sent[p], taken |-> asked[p]]]
     /\ UNCHANGED <<times, begun, asked, requests>>

\* A frame is taken from one link and, unless it goes no further, put on another.
Sent(to, frame) == frames' = [frames EXCEPT ![to] = Append(@, frame)]
PassedOn(from, to, frame) ==
  /\ frames[from] # <<>>
  /\ frames' = [l \in Links |-> IF l = from THEN Tail(frames[l])
                                ELSE IF l = to THEN Append(frames[l], frame) ELSE frames[l]]

-------------------------------------------------------------------------------
\* onTriggerTimeSync of P2, every 100 ms
OnTriggerTimeSync ==
  /\ requests < MaxRequests
  /\ Sent("P2toP1", [sent |-> [p \in Processors |-> now], time |-> 0])
  /\ Asks("P2")
  /\ requests' = requests + 1

\* timeSyncEndpoint of P1, for a packet of P2 and for one of the main computer
RequestPassesP1 ==
  /\ frames["P2toP1"] # <<>>
  /\ PassedOn("P2toP1", "P1toMain", [Head(frames["P2toP1"]) EXCEPT !.sent["P1"] = now])
  /\ Asks("P1")
  /\ UNCHANGED requests

AnswerPassesP1 ==
  /\ frames["mainToP1"] # <<>>
  /\ LET answer == Head(frames["mainToP1"])
     IN PassedOn("mainToP1", "P1toP2", answer) /\ Learns("P1", answer)

\* timeSyncEndpoint of P2
AnswerReachesP2 ==
  /\ frames["P1toP2"] # <<>>
  /\ PassedOn("P1toP2", "nowhere", Head(frames["P1toP2"]))
  /\ Learns("P2", Head(frames["P1toP2"]))

\* The main computer answers with its time.
MainAnswers ==
  /\ frames["P1toMain"] # <<>>
  /\ PassedOn("P1toMain", "mainToP1", [Head(frames["P1toMain"]) EXCEPT !.time = now])
  /\ UNCHANGED <<times, begun, ping, diff, synced, tries, asked, round, requests>>

\* The links lose a frame.
Lose(l) ==
  /\ PassedOn(l, "nowhere", <<>>)
  /\ UNCHANGED <<times, begun, ping, diff, synced, tries, asked, round, requests>>

\* A microsecond passes, in which the prescaler gets Divider - 1 clocks.
Tick ==
  /\ now < MaxTime
  /\ now' = now + 1
  /\ clock' = [p \in Processors |-> IF prescaler[p] = 0 THEN clock[p] ELSE clock[p] + 1]
  /\ prescaler' = [p \in Processors |->
                     IF prescaler[p] = 0 THEN Divider - 1 ELSE prescaler[p] - 1]
  /\ UNCHANGED <<frames, begun, ping, diff, synced, tries, asked, round, requests>>

\* (Behind the bound nothing is modelled.)
TimeIsUp == now = MaxTime /\ UNCHANGED vars

Next ==
  \/ OnTriggerTimeSync \/ RequestPassesP1 \/ MainAnswers \/ AnswerPassesP1 \/ AnswerReachesP2
  \/ \E l \in Links : Lose(l)
  \/ Tick \/ TimeIsUp

Spec == Init /\ [][Next]_vars

-------------------------------------------------------------------------------
\* convertToSyncUS(getSystemTimeUS()), less the time it is
ErrorOf(p) == SystemTime(p) + diff[p] - now

\* What a clock loses in some time, at most.
Drift(length) == length \div Divider + 1

\* The time of a processor that says it is synced is never ahead by more than the
\* ping it tells the others, which is half a round trip, and behind by no more
\* than the way of the request it was told the time for can explain and what its
\* slow clock has lost since the answer came - however long the way of the
\* request was compared to the answer's, whatever was lost before, and also if it
\* has taken the answer to one request for the answer to a later one. If it has
\* not, it is behind by half a round trip, and by what the clock has lost since
\* the request (and the microsecond the halving drops).
SyncedWithinPing ==
  \A p \in Processors :
    synced[p] =>
      /\ ErrorOf(p) <= ping[p]
      /\ ErrorOf(p) >= ping[p] - (round[p].end - round[p].sent) - Drift(now - round[p].end)
      /\ round[p].sent = round[p].taken =>
           ErrorOf(p) >= -(ping[p] + 1) - Drift(now - round[p].sent)
===============================================================================
