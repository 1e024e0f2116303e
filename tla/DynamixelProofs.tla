--------------------------- MODULE DynamixelProofs ---------------------------
(***************************************************************************)
(* Theorems about Dynamixel, for every number of ports, every size of the  *)
(* queues and all requests, with interrupts between any two steps of the   *)
(* timer's loop and of its clients.                                        *)
(***************************************************************************)
EXTENDS Dynamixel, WellFoundedInduction, TLAPS

\* What the invariants say of one port. A port that is not idle, or whose timeout
\* is registered or under way, carries out a job or has carried out one, and it needs an answer if the port waits for one; the port sends exactly
\* while its UART does; the driver is idle when the port is, or the next job
\* would not be sent.
PortOK(p) ==
  /\ g_phyState[p] # "IDLE" \/ timeout[p] \/ timingOut = p => g_currentTransactions[p] \in Jobs
  /\ g_phyState[p] = "RX" => g_currentTransactions[p].answer
  /\ tx[p] <=> g_phyState[p] = "TX"
  /\ g_phyState[p] = "IDLE" => rtxMode[p] = "IDLE"
  /\ g_phyState[p] = "RX" => timeout[p] \/ timingOut = p
  /\ g_phyState[p] = "IDLE" /\ (\E q \in Priorities : jobs[q][p] # <<>>) =>
       \/ \E context \in Contexts : adding[context] # NULL /\ p \in adding[context].ports
       \/ ending = p

\* addJob puts the job into queues of ports that it triggers.
PutsAreTriggered ==
  \A context \in Contexts :
    adding[context] # NULL => adding[context].puts \subseteq adding[context].ports

\* The inductive invariant.
IInv ==
  /\ TypeOK
  /\ PutsAreTriggered
  /\ \A p \in Ports : PortOK(p)

-----------------------------------------------------------------------------
\* Sets of naturals have a least element, which addJob takes next.
LEMMA LeastElement ==
  ASSUME NEW T, T \subseteq Nat, T # {}
  PROVE  \E x \in T : \A y \in T : x <= y
<1> DEFINE R == {ss \in Nat \X Nat : ss[1] < ss[2]}
<1>1. IsWellFoundedOn(R, Nat)
  BY NatLessThanWellFounded DEF OpToRel
<1>2. PICK x \in T : \A y \in T : ~(<<y, x>> \in R)
  BY <1>1, WFMin
<1>3. ASSUME NEW y \in T PROVE x <= y
  <2>1. x \in Nat /\ y \in Nat
    OBVIOUS
  <2>2. <<y, x>> \in Nat \X Nat
    BY <2>1
  <2>3. y < x => <<y, x>> \in R
    BY <2>2
  <2>. QED  BY <1>2, <2>1, <2>3
<1>. QED  BY <1>3

\* The next port of addJob's loop is one of them.
LEMMA NextPut ==
  ASSUME NEW puts \in SUBSET Ports, puts # {}
  PROVE  (CHOOSE x \in puts : \A y \in puts : x <= y) \in puts
<1>1. puts \subseteq Nat
  BY DynamixelAssumption DEF Ports
<1>. QED  BY <1>1, LeastElement

\* What a job is.
LEMMA JobsType ==
  /\ Jobs \subseteq [answer : BOOLEAN, callback : BOOLEAN]
  /\ NULL \notin Jobs
  BY DynamixelAssumption DEF Jobs

\* What triggerTransmission does to the queues and the ports.
LEMMA TriggerTypes ==
  ASSUME TypeOK, NEW ports \in SUBSET Ports,
         NEW phy \in [Ports -> {"IDLE", "RX", "TX"}],
         NEW mode \in [Ports -> {"IDLE", "RECEIVING", "TRANSMITTING"}],
         NEW send \in [Ports -> BOOLEAN],
         Trigger(ports, phy, mode, send)
  PROVE  /\ jobs' \in [Priorities -> [Ports -> Seq(Jobs)]]
         /\ \A q \in Priorities, p \in Ports : Len(jobs'[q][p]) <= QueueSize
         /\ g_currentTransactions' \in [Ports -> Jobs \cup {NULL}]
         /\ g_phyState' \in [Ports -> {"IDLE", "RX", "TX"}]
         /\ rtxMode' \in [Ports -> {"IDLE", "RECEIVING", "TRANSMITTING"}]
         /\ tx' \in [Ports -> BOOLEAN]
<1> DEFINE started == Started(ports, phy)
<1>1. \A p \in started : /\ NextPriority(p) \in Priorities
                         /\ jobs[NextPriority(p)][p] \in Seq(Jobs)
                         /\ jobs[NextPriority(p)][p] # <<>>
  BY DEF TypeOK, Started, NextPriority, Priorities
<1>2. \A p \in started : Head(jobs[NextPriority(p)][p]) \in Jobs
  BY <1>1
<1>3. \A q \in Priorities, p \in Ports : /\ jobs[q][p] \in Seq(Jobs)
                                        /\ Len(jobs[q][p]) <= QueueSize
  BY DEF TypeOK
<1>4. QueueSize \in Nat
  BY DynamixelAssumption
<1>5. \A q \in Priorities, p \in Ports :
        p \in started /\ q = NextPriority(p) =>
          /\ Tail(jobs[q][p]) \in Seq(Jobs)
          /\ Len(Tail(jobs[q][p])) <= QueueSize
  <2>1. ASSUME NEW s \in Seq(Jobs), Len(s) <= QueueSize, s # <<>>
        PROVE  Tail(s) \in Seq(Jobs) /\ Len(Tail(s)) <= QueueSize
    BY <2>1, <1>4
  <2>. QED  BY <1>1, <1>3, <2>1
<1>6. jobs' = [q \in Priorities |-> [p \in Ports |->
        IF p \in started /\ q = NextPriority(p) THEN Tail(jobs[q][p]) ELSE jobs[q][p]]]
  BY DEF Trigger
<1>7. \A q \in Priorities, p \in Ports : jobs'[q][p] \in Seq(Jobs) /\ Len(jobs'[q][p]) <= QueueSize
  BY <1>3, <1>5, <1>6
<1>8. jobs' \in [Priorities -> [Ports -> Seq(Jobs)]]
  BY <1>6, <1>7
<1>9. g_currentTransactions' \in [Ports -> Jobs \cup {NULL}]
  BY <1>2 DEF Trigger, TypeOK
<1>10. /\ g_phyState' \in [Ports -> {"IDLE", "RX", "TX"}]
       /\ rtxMode' \in [Ports -> {"IDLE", "RECEIVING", "TRANSMITTING"}]
       /\ tx' \in [Ports -> BOOLEAN]
  BY DEF Trigger, PhySend
<1>. QED  BY <1>7, <1>8, <1>9, <1>10

\* A port that triggerTransmission starts was idle and sends a job,
LEMMA TriggerStarts ==
  ASSUME TypeOK, NEW ports \in SUBSET Ports,
         NEW phy, NEW mode, NEW send,
         Trigger(ports, phy, mode, send),
         NEW p \in Started(ports, phy)
  PROVE  /\ p \in ports
         /\ g_phyState'[p] = "TX"
         /\ g_currentTransactions'[p] \in Jobs
<1>1. /\ p \in ports
      /\ jobs[NextPriority(p)][p] \in Seq(Jobs) /\ jobs[NextPriority(p)][p] # <<>>
  BY DEF TypeOK, Started, NextPriority, Priorities
<1>2. Head(jobs[NextPriority(p)][p]) \in Jobs
  BY <1>1
<1>. QED  BY <1>1, <1>2 DEF Trigger

\* and one that is idle and that it does not start has no job.
LEMMA TriggerLeaves ==
  ASSUME NEW ports, NEW phy, NEW p \in ports \ Started(ports, phy)
  PROVE  phy[p] = "IDLE" => \A q \in Priorities : jobs[q][p] = <<>>
  BY DEF Started, NextPriority, Priorities

-----------------------------------------------------------------------------
\* A port of which a step changes nothing that the invariant speaks of.
LEMMA SamePort ==
  ASSUME NEW p \in Ports, PortOK(p),
         g_phyState'[p] = g_phyState[p],
         g_currentTransactions'[p] = g_currentTransactions[p],
         timeout'[p] = timeout[p],
         tx'[p] = tx[p],
         rtxMode'[p] = "IDLE" \/ rtxMode'[p] = rtxMode[p],
         timingOut' = timingOut,
         \A q \in Priorities : jobs'[q][p] = jobs[q][p],
         ending = p => ending' = p,
         \A context \in Contexts :
           adding[context] # NULL /\ p \in adding[context].ports =>
             adding'[context] # NULL /\ p \in adding'[context].ports
  PROVE  PortOK(p)'
  BY DEF PortOK

\* Begin keeps the invariant.
LEMMA BeginIInv ==
  ASSUME IInv, NEW context \in Contexts, Begin(context)
  PROVE  IInv'
<1>1. PICK r \in Requests :
        adding' = [adding EXCEPT ![context] =
          [job |-> r.job, priority |-> r.priority, ports |-> r.ports, puts |-> r.ports]]
  BY DEF Begin
<1>2. [job |-> r.job, priority |-> r.priority, ports |-> r.ports, puts |-> r.ports] \in Adding
  BY DynamixelAssumption DEF Adding, Jobs
<1>3. TypeOK'
  BY <1>1, <1>2 DEF IInv, TypeOK, Begin, phyVars, timeoutVars
<1>4. PutsAreTriggered'
  BY <1>1 DEF IInv, TypeOK, PutsAreTriggered
<1>5. ASSUME NEW p \in Ports PROVE PortOK(p)'
  <2>1. \A c \in Contexts : adding[c] # NULL => adding'[c] = adding[c]
    BY <1>1 DEF IInv, TypeOK, Begin
  <2>. QED  BY <2>1, SamePort DEF IInv, Begin, phyVars, timeoutVars
<1>. QED  BY <1>3, <1>4, <1>5 DEF IInv

\* Put keeps the invariant.
LEMMA PutIInv ==
  ASSUME IInv, NEW context \in Contexts, Put(context)
  PROVE  IInv'
<1> DEFINE a == adding[context]
           next == CHOOSE x \in a.puts : \A y \in a.puts : x <= y
<1>1. /\ a \in Adding /\ a # NULL
      /\ a.puts # {} /\ a.puts \in SUBSET Ports
      /\ a.job \in Jobs /\ a.priority \in Priorities
  BY DEF IInv, TypeOK, Put, Adding
<1>2. next \in a.puts /\ next \in Ports
  BY <1>1, NextPut
<1>3. /\ jobs' = IF Room(a.priority, next)
                   THEN [jobs EXCEPT ![a.priority][next] = Append(@, a.job)] ELSE jobs
      /\ adding' = [adding EXCEPT ![context].puts = @ \ {next}]
      /\ UNCHANGED <<g_currentTransactions, g_phyState, phyVars, timeoutVars, ending>>
      /\ called' = NULL
  BY DEF Put
<1>4. /\ adding' \in [Contexts -> Adding \cup {NULL}]
      /\ adding'[context] \in Adding /\ adding'[context] # NULL
      /\ adding'[context].ports = a.ports
      /\ adding'[context].puts \subseteq a.puts
      /\ \A c \in Contexts : c # context => adding'[c] = adding[c]
  <2>1. adding'[context] = [a EXCEPT !.puts = @ \ {next}]
    BY <1>3 DEF IInv, TypeOK
  <2>2. adding'[context] \in Adding
    BY <2>1, <1>1 DEF Adding
  <2>. QED  BY <2>1, <2>2, <1>1, <1>3, DynamixelAssumption DEF IInv, TypeOK, Adding
<1>5. \A q \in Priorities, p \in Ports :
        \/ jobs'[q][p] = jobs[q][p]
        \/ /\ p = next
           /\ jobs'[q][p] = Append(jobs[q][p], a.job) /\ Len(jobs[q][p]) < QueueSize
  BY <1>1, <1>2, <1>3 DEF IInv, TypeOK, Room
<1>6. TypeOK'
  <2>1. /\ jobs \in [Priorities -> [Ports -> Seq(Jobs)]]
        /\ \A q \in Priorities, p \in Ports : Len(jobs[q][p]) <= QueueSize
    BY DEF IInv, TypeOK
  <2>2. ASSUME NEW s \in Seq(Jobs), Len(s) < QueueSize
        PROVE  Append(s, a.job) \in Seq(Jobs) /\ Len(Append(s, a.job)) <= QueueSize
    BY <2>2, <1>1, DynamixelAssumption
  <2>3. /\ jobs' \in [Priorities -> [Ports -> Seq(Jobs)]]
        /\ \A q \in Priorities, p \in Ports : Len(jobs'[q][p]) <= QueueSize
    <3>1. CASE ~Room(a.priority, next)
      BY <3>1, <2>1, <1>3
    <3>2. CASE Room(a.priority, next)
      <4> DEFINE row == [jobs[a.priority] EXCEPT ![next] = Append(@, a.job)]
      <4>1. jobs[a.priority] \in [Ports -> Seq(Jobs)] /\ jobs[a.priority][next] \in Seq(Jobs)
        BY <2>1, <1>1, <1>2
      <4>2. row \in [Ports -> Seq(Jobs)] /\ \A p \in Ports : Len(row[p]) <= QueueSize
        BY <4>1, <2>1, <2>2, <3>2, <1>1, <1>2 DEF Room
      <4>3. jobs' = [jobs EXCEPT ![a.priority] = row]
        BY <3>2, <1>3
      <4>. HIDE DEF row
      <4>. QED  BY <4>2, <4>3, <2>1, <1>1
    <3>. QED  BY <3>1, <3>2
  <2>. QED  BY <2>3, <1>3, <1>4 DEF IInv, TypeOK, phyVars, timeoutVars
<1>7. PutsAreTriggered'
  BY <1>1, <1>4 DEF IInv, PutsAreTriggered
<1>8. ASSUME NEW p \in Ports PROVE PortOK(p)'
  <2>1. \A c \in Contexts : adding[c] # NULL =>
          adding'[c] # NULL /\ adding'[c].ports = adding[c].ports
    BY <1>1, <1>4
  <2>2. CASE p # next
    BY <2>1, <2>2, <1>3, <1>5, SamePort DEF IInv, phyVars, timeoutVars
  <2>3. CASE p = next
    <3>1. p \in adding'[context].ports /\ adding'[context] # NULL
      BY <2>3, <1>1, <1>2, <1>4 DEF IInv, PutsAreTriggered
    <3>. QED  BY <3>1, <1>3 DEF IInv, PortOK, phyVars, timeoutVars
  <2>. QED  BY <2>2, <2>3
<1>. QED  BY <1>6, <1>7, <1>8 DEF IInv

\* TriggerAfterPuts keeps the invariant.
LEMMA TriggerAfterPutsIInv ==
  ASSUME IInv, NEW context \in Contexts, TriggerAfterPuts(context)
  PROVE  IInv'
<1> DEFINE ports == adding[context].ports
<1>1. /\ TypeOK /\ ports \in SUBSET Ports
      /\ Trigger(ports, g_phyState, rtxMode, tx)
      /\ adding' = [adding EXCEPT ![context] = NULL]
      /\ UNCHANGED <<rx, rxPending, timeoutVars, ending>>
      /\ called' = NULL
  BY DEF IInv, TypeOK, TriggerAfterPuts, Adding
<1>2. adding' \in [Contexts -> Adding \cup {NULL}]
  BY <1>1 DEF TypeOK
<1>3. TypeOK'
  <2>1. /\ g_phyState \in [Ports -> {"IDLE", "RX", "TX"}]
        /\ rtxMode \in [Ports -> {"IDLE", "RECEIVING", "TRANSMITTING"}]
        /\ tx \in [Ports -> BOOLEAN]
    BY <1>1 DEF TypeOK
  <2>2. /\ jobs' \in [Priorities -> [Ports -> Seq(Jobs)]]
        /\ \A q \in Priorities, p \in Ports : Len(jobs'[q][p]) <= QueueSize
        /\ g_currentTransactions' \in [Ports -> Jobs \cup {NULL}]
        /\ g_phyState' \in [Ports -> {"IDLE", "RX", "TX"}]
        /\ rtxMode' \in [Ports -> {"IDLE", "RECEIVING", "TRANSMITTING"}]
        /\ tx' \in [Ports -> BOOLEAN]
    BY <1>1, <2>1, TriggerTypes
  <2>. QED  BY <1>1, <1>2, <2>2 DEF TypeOK, timeoutVars
<1>4. PutsAreTriggered'
  BY <1>1 DEF IInv, TypeOK, PutsAreTriggered
<1>5. ASSUME NEW p \in Ports PROVE PortOK(p)'
  <2>1. PortOK(p)
    BY DEF IInv
  <2>2. CASE p \in Started(ports, g_phyState)
    <3>1. g_phyState'[p] = "TX" /\ g_currentTransactions'[p] \in Jobs
      BY <1>1, <2>2, TriggerStarts
    <3>2. g_phyState[p] = "IDLE" /\ rtxMode[p] = "IDLE"
      BY <2>1, <2>2 DEF Started, PortOK
    <3>3. tx'[p]
      BY <1>1, <2>2, <3>2 DEF Trigger, PhySend
    <3>. QED  BY <1>1, <3>1, <3>3 DEF PortOK, timeoutVars
  <2>3. CASE p \notin Started(ports, g_phyState)
    <3>1. /\ g_phyState'[p] = g_phyState[p]
          /\ g_currentTransactions'[p] = g_currentTransactions[p]
          /\ rtxMode'[p] = rtxMode[p]
          /\ tx'[p] = tx[p]
          /\ \A q \in Priorities : jobs'[q][p] = jobs[q][p]
      BY <1>1, <2>3 DEF TypeOK, Trigger, PhySend
    <3>2. \A c \in Contexts \ {context} : adding'[c] = adding[c]
      BY <1>1 DEF TypeOK
    <3>3. CASE p \in ports /\ g_phyState[p] = "IDLE"
      <4>1. \A q \in Priorities : jobs[q][p] = <<>>
        BY <2>3, <3>3, TriggerLeaves
      <4>. QED  BY <1>1, <2>1, <3>1, <3>3, <4>1 DEF PortOK, timeoutVars
    <3>4. CASE p \notin ports
      BY <1>1, <2>1, <3>1, <3>2, <3>4 DEF PortOK, timeoutVars
    <3>5. CASE g_phyState[p] # "IDLE"
      BY <1>1, <2>1, <3>1, <3>5 DEF PortOK, timeoutVars
    <3>. QED  BY <3>3, <3>4, <3>5
  <2>. QED  BY <2>2, <2>3
<1>. QED  BY <1>3, <1>4, <1>5 DEF IInv

\* UartIsr keeps the invariant.
LEMMA UartIsrIInv ==
  ASSUME IInv, NEW p \in Ports, UartIsr(p)
  PROVE  IInv'
<1>1. g_phyState[p] = "TX" /\ g_currentTransactions[p] \in Jobs
  BY DEF IInv, PortOK, UartIsr
<1>2. TypeOK'
  BY <1>1 DEF IInv, TypeOK, UartIsr, TransmittComplete, PhyReceive
<1>3. PutsAreTriggered'
  BY DEF IInv, PutsAreTriggered, UartIsr
<1>4. ASSUME NEW x \in Ports PROVE PortOK(x)'
  <2>1. CASE x # p
    <3>1. /\ g_phyState'[x] = g_phyState[x] /\ timeout'[x] = timeout[x]
          /\ tx'[x] = tx[x] /\ rtxMode'[x] = rtxMode[x]
          /\ ending = NULL
      BY <2>1 DEF IInv, TypeOK, UartIsr, TransmittComplete, PhyReceive, MayRun
    <3>2. PortOK(x) /\ ending # x
      BY <3>1, DynamixelAssumption DEF IInv
    <3>. QED  BY <3>1, <3>2, SamePort DEF UartIsr
  <2>2. CASE x = p
    <3>1. tx'[x] = FALSE /\ g_currentTransactions'[x] \in Jobs
      BY <1>1, <2>2 DEF IInv, TypeOK, UartIsr
    <3>2. CASE g_currentTransactions[p].answer
      <4>1. g_phyState'[x] = "RX" /\ timeout'[x]
        BY <2>2, <3>2 DEF IInv, TypeOK, UartIsr, TransmittComplete
      <4>. QED  BY <2>2, <3>1, <3>2, <4>1 DEF PortOK, UartIsr
    <3>3. CASE ~g_currentTransactions[p].answer
      <4>1. g_phyState'[x] = "IDLE" /\ rtxMode'[x] = "IDLE" /\ ending' = x
        BY <2>2, <3>3 DEF IInv, TypeOK, UartIsr, TransmittComplete
      <4>. QED  BY <3>1, <4>1 DEF PortOK
    <3>. QED  BY <3>2, <3>3
  <2>. QED  BY <2>1, <2>2
<1>. QED  BY <1>2, <1>3, <1>4 DEF IInv

\* Answer keeps the invariant.
LEMMA AnswerIInv ==
  ASSUME IInv, NEW p \in Ports, Answer(p)
  PROVE  IInv'
<1>1. TypeOK'
  BY DEF IInv, TypeOK, Answer, timeoutVars
<1>2. PutsAreTriggered'
  BY DEF IInv, PutsAreTriggered, Answer
<1>3. \A x \in Ports : PortOK(x)'
  BY SamePort DEF IInv, Answer, timeoutVars
<1>. QED  BY <1>1, <1>2, <1>3 DEF IInv

\* DmaIsr keeps the invariant.
LEMMA DmaIsrIInv ==
  ASSUME IInv, NEW p \in Ports, DmaIsr(p)
  PROVE  IInv'
<1>1. g_phyState[p] = "RX" => g_currentTransactions[p] \in Jobs
  BY DEF IInv, PortOK
<1>2. TypeOK'
  <2>1. called' \in [port : Ports, job : Jobs, success : BOOLEAN] \cup {NULL}
    <3>1. g_phyState[p] = "RX" =>
            [port |-> p, job |-> g_currentTransactions[p], success |-> TRUE]
              \in [port : Ports, job : Jobs, success : BOOLEAN]
      BY <1>1
    <3>2. CASE rx[p] = "valid"
      <4>1. CASE g_phyState[p] = "RX" /\ g_currentTransactions[p].callback
        BY <3>1, <3>2, <4>1 DEF DmaIsr, ReceiveComplete, ReceptionComplete
      <4>2. CASE ~(g_phyState[p] = "RX" /\ g_currentTransactions[p].callback)
        BY <3>2, <4>2 DEF DmaIsr, ReceiveComplete, ReceptionComplete
      <4>. QED  BY <4>1, <4>2
    <3>3. CASE rx[p] # "valid"
      BY <3>3 DEF DmaIsr, ReceiveComplete, ReceptionComplete
    <3>. QED  BY <3>2, <3>3
  <2>2. /\ timeout' \in [Ports -> BOOLEAN]
        /\ g_phyState' \in [Ports -> {"IDLE", "RX", "TX"}]
        /\ ending' \in Ports \cup {NULL}
        /\ rx' \in [Ports -> {"off", "on", "valid", "broken"}]
    BY DEF IInv, TypeOK, DmaIsr, ReceiveComplete, ReceptionComplete
  <2>. QED  BY <2>1, <2>2 DEF IInv, TypeOK, DmaIsr
<1>3. PutsAreTriggered'
  BY DEF IInv, PutsAreTriggered, DmaIsr
<1>4. ASSUME NEW x \in Ports PROVE PortOK(x)'
  <2>1. ending = NULL /\ ending # x
    BY DynamixelAssumption DEF DmaIsr, MayRun
  <2>2. PortOK(x)
    BY DEF IInv
  <2>3. CASE \/ x # p
             \/ rx[p] # "valid"
             \/ g_phyState[p] # "RX"
    <3>1. g_phyState'[x] = g_phyState[x] /\ timeout'[x] = timeout[x]
      BY <2>3 DEF IInv, TypeOK, DmaIsr, ReceiveComplete, ReceptionComplete
    <3>2. rtxMode'[x] = "IDLE" \/ rtxMode'[x] = rtxMode[x]
      BY DEF IInv, TypeOK, DmaIsr
    <3>. QED  BY <2>1, <2>2, <3>1, <3>2, SamePort DEF DmaIsr
  <2>4. CASE x = p /\ rx[p] = "valid" /\ g_phyState[p] = "RX"
    <3>1. g_phyState'[x] = "IDLE" /\ timeout'[x] = FALSE /\ rtxMode'[x] = "IDLE" /\ ending' = x
      BY <2>4 DEF IInv, TypeOK, DmaIsr, ReceiveComplete, ReceptionComplete
    <3>. QED  BY <2>2, <2>4, <3>1 DEF PortOK, DmaIsr
  <2>. QED  BY <2>3, <2>4
<1>. QED  BY <1>2, <1>3, <1>4 DEF IInv

\* TriggerAtEnd keeps the invariant.
LEMMA TriggerAtEndIInv ==
  ASSUME IInv, TriggerAtEnd
  PROVE  IInv'
<1>1. /\ TypeOK /\ ending \in Ports
      /\ Trigger({ending}, g_phyState, rtxMode, tx)
      /\ ending' = NULL
      /\ UNCHANGED <<rx, rxPending, timeoutVars, adding>>
      /\ called' = NULL
  BY DEF IInv, TypeOK, TriggerAtEnd
<1>2. /\ g_phyState \in [Ports -> {"IDLE", "RX", "TX"}]
      /\ rtxMode \in [Ports -> {"IDLE", "RECEIVING", "TRANSMITTING"}]
      /\ tx \in [Ports -> BOOLEAN]
      /\ {ending} \in SUBSET Ports
  BY <1>1 DEF TypeOK
<1>3. TypeOK'
  <2>1. /\ jobs' \in [Priorities -> [Ports -> Seq(Jobs)]]
        /\ \A q \in Priorities, p \in Ports : Len(jobs'[q][p]) <= QueueSize
        /\ g_currentTransactions' \in [Ports -> Jobs \cup {NULL}]
        /\ g_phyState' \in [Ports -> {"IDLE", "RX", "TX"}]
        /\ rtxMode' \in [Ports -> {"IDLE", "RECEIVING", "TRANSMITTING"}]
        /\ tx' \in [Ports -> BOOLEAN]
    BY <1>1, <1>2, TriggerTypes
  <2>. QED  BY <1>1, <2>1 DEF TypeOK, timeoutVars
<1>4. PutsAreTriggered'
  BY <1>1 DEF IInv, PutsAreTriggered
<1>5. ASSUME NEW p \in Ports PROVE PortOK(p)'
  <2>1. PortOK(p)
    BY DEF IInv
  <2>2. CASE p \in Started({ending}, g_phyState)
    <3>1. g_phyState'[p] = "TX" /\ g_currentTransactions'[p] \in Jobs
      BY <1>1, <2>2, TriggerStarts
    <3>2. g_phyState[p] = "IDLE" /\ rtxMode[p] = "IDLE"
      BY <2>1, <2>2 DEF Started, PortOK
    <3>3. tx'[p]
      BY <1>1, <2>2, <3>2 DEF Trigger, PhySend
    <3>. QED  BY <3>1, <3>3 DEF PortOK, timeoutVars
  <2>3. CASE p \notin Started({ending}, g_phyState)
    <3>1. /\ g_phyState'[p] = g_phyState[p]
          /\ g_currentTransactions'[p] = g_currentTransactions[p]
          /\ rtxMode'[p] = rtxMode[p]
          /\ tx'[p] = tx[p]
          /\ \A q \in Priorities : jobs'[q][p] = jobs[q][p]
      BY <1>1, <2>3 DEF TypeOK, Trigger, PhySend
    <3>2. p = ending /\ g_phyState[p] = "IDLE" => \A q \in Priorities : jobs[q][p] = <<>>
      BY <2>3, TriggerLeaves
    <3>. QED  BY <1>1, <2>1, <3>1, <3>2 DEF PortOK, timeoutVars
  <2>. QED  BY <2>2, <2>3
<1>. QED  BY <1>3, <1>4, <1>5 DEF IInv

\* Expire keeps the invariant.
LEMMA ExpireIInv ==
  ASSUME IInv, NEW p \in Ports, Expire(p)
  PROVE  IInv'
<1>1. g_currentTransactions[p] \in Jobs /\ timingOut = NULL /\ ending = NULL
  BY DEF IInv, PortOK, Expire, InTimer, MayRun
<1>2. TypeOK'
  BY <1>1 DEF IInv, TypeOK, Expire, phyVars, timeoutVars
<1>3. PutsAreTriggered'
  BY DEF IInv, PutsAreTriggered, Expire
<1>4. ASSUME NEW x \in Ports PROVE PortOK(x)'
  <2>1. x # p => timeout'[x] = timeout[x]
    BY DEF IInv, TypeOK, Expire
  <2>2. x = p => ~timeout'[x] /\ timingOut' = x
    BY DEF IInv, TypeOK, Expire
  <2>3. timingOut # x /\ PortOK(x)
    BY <1>1, DynamixelAssumption DEF IInv
  <2>. QED  BY <1>1, <2>1, <2>2, <2>3 DEF PortOK, Expire, phyVars, timeoutVars
<1>. QED  BY <1>2, <1>3, <1>4 DEF IInv

\* TellTimeout keeps the invariant.
LEMMA TellTimeoutIInv ==
  ASSUME IInv, TellTimeout
  PROVE  IInv'
<1>1. timingOut \in Ports /\ g_currentTransactions[timingOut] \in Jobs
  BY DEF IInv, TypeOK, PortOK, TellTimeout
<1>2. TypeOK'
  BY <1>1 DEF IInv, TypeOK, TellTimeout, phyVars
<1>3. PutsAreTriggered'
  BY DEF IInv, PutsAreTriggered, TellTimeout
<1>4. \A p \in Ports : PortOK(p)'
  BY SamePort DEF IInv, TellTimeout, phyVars
<1>. QED  BY <1>2, <1>3, <1>4 DEF IInv

\* Reset keeps the invariant.
LEMMA ResetIInv ==
  ASSUME IInv, Reset
  PROVE  IInv'
<1> DEFINE p == timingOut
           phy == [g_phyState EXCEPT ![p] = "IDLE"]
           mode == [rtxMode EXCEPT ![p] = "IDLE"]
           send == [tx EXCEPT ![p] = FALSE]
<1>1. /\ TypeOK /\ p \in Ports /\ ending = NULL
      /\ Trigger({p}, phy, mode, send)
      /\ rx' = [rx EXCEPT ![p] = "off"]
      /\ timingOut' = NULL /\ told' = FALSE
      /\ UNCHANGED <<rxPending, timeout, adding, ending>>
      /\ called' = NULL
  BY DEF IInv, TypeOK, Reset, ResetMode, MayRun
<1>2. /\ phy \in [Ports -> {"IDLE", "RX", "TX"}]
      /\ mode \in [Ports -> {"IDLE", "RECEIVING", "TRANSMITTING"}]
      /\ send \in [Ports -> BOOLEAN]
      /\ phy[p] = "IDLE" /\ mode[p] = "IDLE" /\ send[p] = FALSE
      /\ \A x \in Ports \ {p} :
           phy[x] = g_phyState[x] /\ mode[x] = rtxMode[x] /\ send[x] = tx[x]
      /\ {p} \in SUBSET Ports
  BY <1>1 DEF TypeOK
<1> HIDE DEF phy, mode, send
<1>3. TypeOK'
  <2>1. /\ jobs' \in [Priorities -> [Ports -> Seq(Jobs)]]
        /\ \A q \in Priorities, x \in Ports : Len(jobs'[q][x]) <= QueueSize
        /\ g_currentTransactions' \in [Ports -> Jobs \cup {NULL}]
        /\ g_phyState' \in [Ports -> {"IDLE", "RX", "TX"}]
        /\ rtxMode' \in [Ports -> {"IDLE", "RECEIVING", "TRANSMITTING"}]
        /\ tx' \in [Ports -> BOOLEAN]
    BY <1>1, <1>2, TriggerTypes
  <2>. QED  BY <1>1, <2>1 DEF TypeOK
<1>4. PutsAreTriggered'
  BY <1>1 DEF IInv, PutsAreTriggered
<1>5. ASSUME NEW x \in Ports PROVE PortOK(x)'
  <2>1. PortOK(x) /\ (p = x \/ timingOut # x)
    BY DEF IInv
  <2>2. CASE x \in Started({p}, phy)
    <3>1. x = p /\ g_phyState'[x] = "TX" /\ g_currentTransactions'[x] \in Jobs
      BY <1>1, <2>2, TriggerStarts
    <3>2. tx'[x]
      BY <1>1, <1>2, <2>2, <3>1 DEF Trigger, PhySend
    <3>. QED  BY <3>1, <3>2 DEF PortOK
  <2>3. CASE x \notin Started({p}, phy)
    <3>1. /\ g_phyState'[x] = phy[x]
          /\ g_currentTransactions'[x] = g_currentTransactions[x]
          /\ rtxMode'[x] = mode[x]
          /\ tx'[x] = send[x]
          /\ \A q \in Priorities : jobs'[q][x] = jobs[q][x]
      BY <1>1, <1>2, <2>3 DEF TypeOK, Trigger, PhySend
    <3>2. CASE x = p
      <4>1. \A q \in Priorities : jobs[q][x] = <<>>
        BY <1>2, <2>3, <3>2, TriggerLeaves
      <4>. QED  BY <1>1, <1>2, <2>1, <3>1, <3>2, <4>1 DEF PortOK
    <3>3. CASE x # p
      <4>1. timingOut' # x
        BY <1>1, DynamixelAssumption
      <4>. QED  BY <1>1, <1>2, <2>1, <3>1, <3>3, <4>1 DEF PortOK
    <3>. QED  BY <3>2, <3>3
  <2>. QED  BY <2>2, <2>3
<1>. QED  BY <1>3, <1>4, <1>5 DEF IInv

-----------------------------------------------------------------------------
\* At the start the invariant holds.
LEMMA InitIInv == Init => IInv
<1> SUFFICES ASSUME Init PROVE IInv
  OBVIOUS
<1>1. TypeOK
  <2>1. \A q \in Priorities, p \in Ports : jobs[q][p] = <<>>
    BY DEF Init
  <2>2. QueueSize \in Nat
    BY DynamixelAssumption
  <2>3. /\ jobs \in [Priorities -> [Ports -> Seq(Jobs)]]
        /\ \A q \in Priorities, p \in Ports : Len(jobs[q][p]) <= QueueSize
    BY <2>1, <2>2 DEF Init
  <2>4. told \in BOOLEAN
    BY Zenon DEF Init
  <2>. QED  BY <2>3, <2>4 DEF Init, PhyInit, TypeOK
<1>2. PutsAreTriggered
  BY DEF Init, PutsAreTriggered
<1>3. ASSUME NEW p \in Ports PROVE PortOK(p)
  BY DynamixelAssumption DEF Init, PhyInit, PortOK
<1>. QED  BY <1>1, <1>2, <1>3 DEF IInv

\* Every step keeps the invariant.
LEMMA NextIInv == IInv /\ [Next]_vars => IInv'
<1> SUFFICES ASSUME IInv, [Next]_vars PROVE IInv'
  OBVIOUS
<1>1. ASSUME NEW context \in Contexts, AddJob(context) PROVE IInv'
  BY <1>1, BeginIInv, PutIInv, TriggerAfterPutsIInv DEF AddJob
<1>2. ASSUME NEW p \in Ports, UartIsr(p) \/ Answer(p) \/ DmaIsr(p) \/ Expire(p) PROVE IInv'
  BY <1>2, UartIsrIInv, AnswerIInv, DmaIsrIInv, ExpireIInv
<1>3. CASE UNCHANGED vars
  BY <1>3 DEF IInv, TypeOK, PutsAreTriggered, PortOK, vars, phyVars, timeoutVars
<1>. QED  BY <1>1, <1>2, <1>3, TriggerAtEndIInv, TellTimeoutIInv, ResetIInv DEF Next

\* Every state of every behaviour satisfies the inductive invariant.
THEOREM Invariance == Spec => []IInv
  BY InitIInv, NextIInv, PTL DEF Spec

\* Every job in a queue or under way is one that a user has asked for, no queue
\* holds more than it has room for, and a callback is called for such a job.
THEOREM TypeCorrect == Spec => []TypeOK
<1>1. IInv => TypeOK
  BY DEF IInv
<1>. QED  BY <1>1, Invariance, PTL

\* A port that sends will be told of the end, and one that waits for an answer
\* will be timed out, with any number of ports and whatever interrupts the timer's
\* loop and a timeout under way.
THEOREM NoPortHangs == Spec => []NeverHangs
<1>1. IInv => NeverHangs
  BY DEF IInv, PortOK, NeverHangs
<1>. QED  BY <1>1, Invariance, PTL

\* Jobs wait at an idle port only while someone is about to trigger it, whatever
\* interrupts the calls of addJob that put them there.
THEOREM JobsAreTriggered == Spec => []NoJobForgotten
<1>1. IInv => NoJobForgotten
  BY DEF IInv, PortOK, NoJobForgotten
<1>. QED  BY <1>1, Invariance, PTL

-----------------------------------------------------------------------------
\* The jobs are carried out as JobService promises.

\* The job that the port carries out and its timeout, as Dynamixel maps them to
\* JobService.
Serving(p) ==
  IF g_phyState[p] = "IDLE" \/ (timingOut = p /\ told /\ ~Overtaken(p))
    THEN NULL ELSE g_currentTransactions[p]

Timeout(p) ==
  IF Overtaken(p) THEN "overtaken" ELSE IF timingOut = p THEN "under way" ELSE "none"

\* The initial states are those of the promise.
LEMMA InitService == Init => Service!Init
  BY DynamixelAssumption DEF Init, Overtaken, Service!Init, Service!Priorities, Priorities

\* No port's timeout is overtaken by this step.
NoneIsOvertaken == \A p \in Ports : Overtaken(p)' => Overtaken(p)

\* Only an answer at p, whose timeout is under way, overtakes one.
OvertakenAt(p) == \A x \in Ports : Overtaken(x)' => Overtaken(x) \/ (x = p /\ timingOut = p)

\* The first in the words of JobService,
LEMMA NoneOvertakenStep ==
  ASSUME NoneIsOvertaken
  PROVE  Service!NoneOvertaken
  BY DEF NoneIsOvertaken, Service!NoneOvertaken

\* and the second.
LEMMA OvertakenAtStep ==
  ASSUME NEW p \in Ports, OvertakenAt(p)
  PROVE  Service!OvertakenAtMost(p)
  BY DEF OvertakenAt, Service!OvertakenAtMost

\* A step that neither accepts, starts nor ends a job.
LEMMA QuietStep ==
  ASSUME called' = NULL, jobs' = jobs,
         \A p \in Ports : Serving(p)' = Serving(p),
         NoneIsOvertaken
  PROVE  Service!Next
<1>1. Service!NoneOvertaken
  BY NoneOvertakenStep
<1>. QED  BY <1>1 DEF Serving, Service!Next, Service!Quiet

\* Between two timeouts nobody has been told of one.
ToldInTimeout == timingOut = NULL => ~told

\* It is so at the start
LEMMA ToldInit == Init => ToldInTimeout
  BY DEF Init, ToldInTimeout

\* and every step keeps it.
LEMMA ToldNext ==
  ASSUME TypeOK, ToldInTimeout, [Next]_vars
  PROVE  ToldInTimeout'
<1>1. ASSUME NEW context \in Contexts, AddJob(context)
      PROVE  ToldInTimeout'
  BY <1>1 DEF AddJob, Begin, Put, TriggerAfterPuts, timeoutVars, ToldInTimeout
<1>2. ASSUME NEW p \in Ports, UartIsr(p) \/ Answer(p) \/ DmaIsr(p)
      PROVE  ToldInTimeout'
  BY <1>2 DEF UartIsr, Answer, DmaIsr, timeoutVars, ToldInTimeout
<1>3. ASSUME NEW p \in Ports, Expire(p)
      PROVE  ToldInTimeout'
  BY <1>3, DynamixelAssumption DEF Expire, ToldInTimeout
<1>4. CASE TriggerAtEnd
  BY <1>4 DEF TriggerAtEnd, timeoutVars, ToldInTimeout
<1>5. CASE TellTimeout
  BY <1>5 DEF TellTimeout, ToldInTimeout
<1>6. CASE Reset
  BY <1>6 DEF Reset, ToldInTimeout
<1>7. CASE UNCHANGED vars
  BY <1>7 DEF vars, timeoutVars, ToldInTimeout
<1>. QED  BY <1>1, <1>2, <1>3, <1>4, <1>5, <1>6, <1>7 DEF Next

\* triggerTransmission starts the head of a queue at every port it starts.
LEMMA TriggerStep ==
  ASSUME TypeOK, NEW ports \in SUBSET Ports,
         NEW phy, NEW mode, NEW send, Trigger(ports, phy, mode, send),
         called' = NULL, NoneIsOvertaken,
         \A p \in Started(ports, phy) : Serving(p) = NULL \/ Overtaken(p),
         \A p \in Ports \ Started(ports, phy) : Serving(p)' = Serving(p)
  PROVE  Service!Next
<1>1. PICK started \in SUBSET Ports : started = Started(ports, phy)
  BY DEF Started
<1>2. CASE started = {}
  <2>1. jobs' = jobs
    BY <1>1, <1>2 DEF TypeOK, Trigger
  <2>. QED  BY <1>1, <1>2, <2>1, QuietStep
<1>3. CASE started # {}
  <2>1. PICK from \in [started -> Priorities] : \A p \in started : from[p] = NextPriority(p)
    <3>1. [p \in started |-> NextPriority(p)] \in [started -> Priorities]
      BY DEF NextPriority, Priorities
    <3>. QED  BY <3>1
  <2>2. \A p \in started : Service!Starts(p, from[p])
    BY <1>1, <2>1 DEF Started, NextPriority, Service!Starts
  <2>3. jobs' = [q \in Priorities |-> [p \in Ports |->
                   IF p \in started /\ from[p] = q THEN Tail(jobs[q][p]) ELSE jobs[q][p]]]
    BY <1>1, <2>1 DEF Trigger
  <2>4. \A p \in started : /\ g_phyState'[p] = "TX"
                           /\ g_currentTransactions'[p] = Head(jobs[from[p]][p])
    BY <1>1, <2>1 DEF Trigger
  <2>5. \A p \in Ports : Serving(p)' = IF p \in started THEN Head(jobs[from[p]][p]) ELSE Serving(p)
    BY <1>1, <2>4 DEF Serving, Overtaken
  <2>6. [p \in Ports |-> Serving(p)'] = [p \in Ports |->
           IF p \in started THEN Head(jobs[from[p]][p]) ELSE [x \in Ports |-> Serving(x)][p]]
    BY <2>5
  <2>7. \A p \in started : [x \in Ports |-> Serving(x)][p] = NULL \/ Overtaken(p)
    BY <1>1
  <2>8. Service!NoneOvertaken
    BY NoneOvertakenStep
  <2>9. Service!Start(started)
    BY <1>3, <2>1, <2>2, <2>3, <2>6, <2>7, <2>8
    DEF Serving, Service!Start, Service!Priorities, Priorities
  <2>. QED  BY <1>1, <2>9 DEF Service!Next
<1>. QED  BY <1>2, <1>3

\* A step that changes neither the state of the ports nor their timeouts.
LEMMA SameService ==
  ASSUME UNCHANGED <<g_currentTransactions, g_phyState, timeoutVars>>
  PROVE  /\ \A p \in Ports : Serving(p)' = Serving(p)
         /\ NoneIsOvertaken
  BY DEF timeoutVars, Serving, Overtaken, NoneIsOvertaken

\* A job that is put into a queue is accepted.
LEMMA AcceptStep ==
  ASSUME IInv, NEW context \in Contexts, Put(context)
  PROVE  Service!Next
<1> DEFINE a == adding[context]
           next == CHOOSE x \in a.puts : \A y \in a.puts : x <= y
<1>1. /\ a.priority \in Priorities /\ a.job \in Jobs
      /\ next \in Ports
  <2>1. a \in Adding /\ a.puts # {}
    BY DEF IInv, TypeOK, Put
  <2>2. a.puts \in SUBSET Ports /\ a.puts # {}
    BY <2>1 DEF Adding
  <2>. QED  BY <2>1, <2>2, NextPut DEF Adding
<1>2. /\ jobs' = IF Room(a.priority, next)
                   THEN [jobs EXCEPT ![a.priority][next] = Append(@, a.job)] ELSE jobs
      /\ UNCHANGED <<g_currentTransactions, g_phyState, timeoutVars>>
      /\ called' = NULL
  BY DEF Put
<1> HIDE DEF a, next
<1>3. CASE Room(a.priority, next)
  <2>1. Service!Accept(next)
    BY <1>1, <1>2, <1>3
    DEF timeoutVars, Overtaken, Service!Accept, Service!Priorities, Priorities
  <2>. QED  BY <1>1, <2>1 DEF Service!Next
<1>4. CASE ~Room(a.priority, next)
  BY <1>2, <1>4, SameService, QuietStep
<1>. QED  BY <1>3, <1>4

\* The end of a transaction: nothing is served at the port any more.
LEMMA FinishStep ==
  ASSUME NEW p \in Ports, Serving(p) # NULL,
         Serving(p)' = NULL,
         \A x \in Ports \ {p} : Serving(x)' = Serving(x),
         jobs' = jobs,
         NEW ok \in BOOLEAN,
         called' = IF Serving(p).answer /\ Serving(p).callback
                     THEN [port |-> p, job |-> Serving(p), success |-> ok] ELSE NULL,
         IF ok THEN OvertakenAt(p) ELSE NoneIsOvertaken
  PROVE  Service!Next
<1> DEFINE current == [x \in Ports |-> Serving(x)]
<1>1. current[p] = Serving(p)
  OBVIOUS
<1>2. [x \in Ports |-> Serving(x)'] = [current EXCEPT ![p] = NULL]
  <2>1. \A x \in Ports : Serving(x)' = IF x = p THEN NULL ELSE Serving(x)
    OBVIOUS
  <2>2. [current EXCEPT ![p] = NULL] = [x \in Ports |-> IF x = p THEN NULL ELSE Serving(x)]
    OBVIOUS
  <2>. QED  BY <2>1, <2>2
<1>3. IF ok THEN Service!OvertakenAtMost(p) ELSE Service!NoneOvertaken
  BY NoneOvertakenStep, OvertakenAtStep
<1>4. Service!Finish(p)
  BY <1>1, <1>2, <1>3 DEF Serving, Service!Finish
<1>. QED  BY <1>4 DEF Service!Next

\* The same for a port that is reset when its timeout was overtaken.
LEMMA DropStep ==
  ASSUME NEW p \in Ports, Overtaken(p),
         Serving(p)' = NULL,
         \A x \in Ports \ {p} : Serving(x)' = Serving(x),
         jobs' = jobs, called' = NULL, NoneIsOvertaken
  PROVE  Service!Next
<1> DEFINE current == [x \in Ports |-> Serving(x)]
<1>1. [x \in Ports |-> Serving(x)'] = [current EXCEPT ![p] = NULL]
  <2>1. \A x \in Ports : Serving(x)' = IF x = p THEN NULL ELSE Serving(x)
    OBVIOUS
  <2>2. [current EXCEPT ![p] = NULL] = [x \in Ports |-> IF x = p THEN NULL ELSE Serving(x)]
    OBVIOUS
  <2>. QED  BY <2>1, <2>2
<1>2. Service!NoneOvertaken
  BY NoneOvertakenStep
<1>3. Service!Drop(p)
  BY <1>1, <1>2 DEF Serving, Service!Drop
<1>. QED  BY <1>3 DEF Service!Next

\* triggerTransmission in addJob and at the end of the handlers.
LEMMA TriggerIdleStep ==
  ASSUME IInv, NEW ports \in SUBSET Ports, Trigger(ports, g_phyState, rtxMode, tx),
         called' = NULL, UNCHANGED timeoutVars
  PROVE  Service!Next
<1>1. TypeOK
  BY DEF IInv
<1>2. \A p \in Started(ports, g_phyState) :
        Serving(p) = NULL /\ g_phyState[p] = "IDLE" /\ p \in Ports
  BY DEF Started, Serving
<1>3. \A p \in Ports : g_phyState'[p] =
        IF p \in Started(ports, g_phyState) THEN "TX" ELSE g_phyState[p]
  BY DEF Trigger
<1>4. \A p \in Ports \ Started(ports, g_phyState) : Serving(p)' = Serving(p)
  BY DEF Trigger, Serving, Overtaken, timeoutVars
<1>5. NoneIsOvertaken
  BY <1>2, <1>3 DEF NoneIsOvertaken, Overtaken, timeoutVars
<1>. QED  BY <1>1, <1>2, <1>4, <1>5, TriggerStep

\* The end of a transmission ends a job that needs no answer.
LEMMA UartIsrStep ==
  ASSUME IInv, NEW p \in Ports, UartIsr(p)
  PROVE  Service!Next
<1>1. /\ TypeOK /\ g_phyState[p] = "TX" /\ g_currentTransactions[p] \in Jobs
      /\ Serving(p) = g_currentTransactions[p]
  BY DEF IInv, PortOK, UartIsr, Serving, Overtaken
<1>2. /\ jobs' = jobs /\ called' = NULL /\ g_currentTransactions' = g_currentTransactions
      /\ timingOut' = timingOut /\ told' = told
  BY DEF UartIsr
<1>3. \A x \in Ports \ {p} : g_phyState'[x] = g_phyState[x] /\ timeout'[x] = timeout[x]
  BY <1>1 DEF TypeOK, UartIsr, TransmittComplete
<1>4. \A x \in Ports \ {p} : Serving(x)' = Serving(x) /\ (Overtaken(x)' <=> Overtaken(x))
  BY <1>2, <1>3 DEF Serving, Overtaken
<1>5. CASE g_currentTransactions[p].answer
  <2>1. g_phyState'[p] = "RX" /\ timeout'[p]
    BY <1>1, <1>5 DEF TypeOK, UartIsr, TransmittComplete
  <2>2. Serving(p)' = Serving(p) /\ (Overtaken(p)' => Overtaken(p))
    BY <1>1, <1>2, <2>1 DEF Serving, Overtaken
  <2>. QED  BY <1>2, <1>4, <2>2, QuietStep DEF NoneIsOvertaken
<1>6. CASE ~g_currentTransactions[p].answer
  <2>1. g_phyState'[p] = "IDLE" /\ timeout'[p] = timeout[p]
    BY <1>1, <1>6 DEF TypeOK, UartIsr, TransmittComplete
  <2>2. Serving(p)' = NULL /\ (Overtaken(p)' => Overtaken(p))
    BY <1>1, <1>2, <2>1 DEF Serving, Overtaken
  <2>3. NoneIsOvertaken
    BY <1>4, <2>2 DEF NoneIsOvertaken
  <2>. QED  BY <1>1, <1>2, <1>4, <1>6, <2>2, <2>3, FinishStep, JobsType
<1>. QED  BY <1>5, <1>6

\* An answer ends the job of its port, or comes after a timeout has ended it.
LEMMA DmaIsrStep ==
  ASSUME IInv, NEW p \in Ports, DmaIsr(p)
  PROVE  Service!Next
<1>1. TypeOK /\ PortOK(p)
  BY DEF IInv
<1>2. /\ jobs' = jobs /\ g_currentTransactions' = g_currentTransactions
      /\ timingOut' = timingOut /\ told' = told
  BY DEF DmaIsr
<1>3. CASE rx[p] = "valid" /\ g_phyState[p] = "RX"
  <2> DEFINE job == g_currentTransactions[p]
  <2>1. job \in Jobs /\ job.answer
    BY <1>1, <1>3 DEF PortOK
  <2>2. /\ g_phyState' = [g_phyState EXCEPT ![p] = "IDLE"]
        /\ timeout' = [timeout EXCEPT ![p] = FALSE]
        /\ called' = IF job.callback THEN [port |-> p, job |-> job, success |-> TRUE] ELSE NULL
    BY <1>3 DEF DmaIsr, ReceiveComplete, ReceptionComplete
  <2>3. \A x \in Ports \ {p} : Serving(x)' = Serving(x) /\ (Overtaken(x)' <=> Overtaken(x))
    BY <1>1, <1>2, <2>2 DEF TypeOK, Serving, Overtaken
  <2>4. g_phyState'[p] = "IDLE" /\ ~timeout'[p] /\ Serving(p)' = NULL
    BY <1>1, <2>2 DEF TypeOK, Serving
  <2>5. Overtaken(p)' <=> timingOut = p
    BY <1>2, <2>4 DEF Overtaken
  <2>6. OvertakenAt(p)
    BY <2>3, <2>5 DEF OvertakenAt
  <2>7. CASE Serving(p) # NULL
    <3>1. Serving(p) = job
      BY <2>7 DEF Serving
    <3>. QED  BY <1>2, <2>1, <2>2, <2>3, <2>4, <2>6, <2>7, <3>1, FinishStep
  <2>8. CASE Serving(p) = NULL
    <3>1. timingOut = p /\ ~Overtaken(p)
      BY <1>3, <2>1, <2>8, JobsType DEF Serving
    <3>2. Timeout(p) = "under way" /\ Timeout(p)' = "overtaken"
      BY <1>2, <2>5, <3>1 DEF Timeout
    <3>3. \A x \in Ports : Serving(x)' = Serving(x)
      BY <2>3, <2>4, <2>8
    <3>4. Service!OvertakenAtMost(p)
      BY <2>6, OvertakenAtStep
    <3>5. \E j \in Jobs : called' \in {NULL, [port |-> p, job |-> j, success |-> TRUE]}
      BY <2>1, <2>2
    <3>6. Service!Answered(p)
      BY <1>2, <2>8, <3>2, <3>3, <3>4, <3>5 DEF Serving, Timeout, Service!Answered
    <3>. QED  BY <3>6 DEF Service!Next
  <2>. QED  BY <2>7, <2>8
<1>4. CASE rx[p] # "valid" \/ g_phyState[p] # "RX"
  <2>1. called' = NULL /\ UNCHANGED <<g_currentTransactions, g_phyState, timeoutVars>>
    BY <1>2, <1>4 DEF DmaIsr, ReceiveComplete, ReceptionComplete, timeoutVars
  <2>. QED  BY <1>2, <2>1, SameService, QuietStep
<1>. QED  BY <1>3, <1>4

\* The timer's loop takes the timeout of a port that waits for an answer, or one
\* that is overtaken already.
LEMMA ExpireStep ==
  ASSUME IInv, ToldInTimeout, NEW p \in Ports, Expire(p)
  PROVE  Service!Next
<1>1. /\ TypeOK /\ timingOut = NULL /\ timingOut' = p /\ timingOut # p
      /\ timeout[p] /\ timeout' = [timeout EXCEPT ![p] = FALSE]
      /\ ~told /\ told' = told
      /\ jobs' = jobs /\ called' = NULL
      /\ UNCHANGED <<g_currentTransactions, g_phyState>>
  BY DynamixelAssumption DEF IInv, Expire, InTimer, ToldInTimeout
<1>2. timeout'[p] = FALSE /\ \A x \in Ports \ {p} : timeout'[x] = timeout[x]
  BY <1>1 DEF TypeOK
<1>3. \A x \in Ports : Serving(x)' = Serving(x)
  BY <1>1 DEF Serving
<1>4. ASSUME NEW x \in Ports PROVE Overtaken(x)' => Overtaken(x)
  <2>1. timingOut # x
    BY <1>1, DynamixelAssumption
  <2>. QED  BY <1>1, <1>2, <2>1 DEF Overtaken
<1>. QED  BY <1>1, <1>3, <1>4, QuietStep DEF NoneIsOvertaken

\* It ends the job of the port, or tells a user again.
LEMMA TellTimeoutStep ==
  ASSUME IInv, TellTimeout
  PROVE  Service!Next
<1>0. PICK p \in Ports : p = timingOut
  BY DEF IInv, TypeOK, TellTimeout
<1>j. PICK job \in Jobs : job = g_currentTransactions[p]
  BY <1>0 DEF IInv, PortOK
<1>1. /\ p \in Ports /\ job \in Jobs
      /\ g_phyState[p] = "RX" => job.answer
  BY <1>0, <1>j DEF IInv, PortOK
<1>2. /\ ~told /\ told' = TRUE /\ timeout' = timeout /\ timingOut' = timingOut
      /\ jobs' = jobs /\ UNCHANGED <<g_currentTransactions, g_phyState>>
      /\ called' = IF job.callback THEN [port |-> p, job |-> job, success |-> FALSE] ELSE NULL
  BY <1>0, <1>j DEF TellTimeout
<1>3. \A x \in Ports : Overtaken(x)' <=> Overtaken(x)
  BY <1>2 DEF Overtaken
<1>4. NoneIsOvertaken
  BY <1>3 DEF NoneIsOvertaken
<1>5. \A x \in Ports \ {p} : Serving(x)' = Serving(x)
  BY <1>0, <1>2, <1>3 DEF Serving
<1>6. CASE ~Overtaken(p)
  <2>1. g_phyState[p] = "RX"
    BY <1>0, <1>6 DEF Overtaken
  <2>2. Serving(p) = job /\ Serving(p)' = NULL
    BY <1>0, <1>j, <1>1, <1>2, <1>3, <1>6, <2>1 DEF Serving
  <2>. QED  BY <1>1, <1>2, <1>4, <1>5, <2>1, <2>2, FinishStep, JobsType
<1>7. CASE Overtaken(p)
  <2>1. \A x \in Ports : Serving(x)' = Serving(x)
    BY <1>1, <1>2, <1>3, <1>5, <1>7 DEF Serving
  <2>2. CASE job.callback
    <3>1. Service!NoneOvertaken
      BY <1>4, NoneOvertakenStep
    <3>2. Service!Again(p)
      BY <1>1, <1>2, <1>7, <2>1, <2>2, <3>1 DEF Serving, Service!Again
    <3>. QED  BY <1>1, <3>2 DEF Service!Next
  <2>3. CASE ~job.callback
    BY <1>2, <1>4, <2>1, <2>3, QuietStep
  <2>. QED  BY <2>2, <2>3
<1>. QED  BY <1>6, <1>7

\* The reset of a port starts its next job, and drops one that still runs.
LEMMA ResetStep ==
  ASSUME IInv, Reset
  PROVE  Service!Next
<1>0. PICK p \in Ports : p = timingOut
  BY DEF IInv, TypeOK, Reset
<1> DEFINE phy == [g_phyState EXCEPT ![p] = "IDLE"]
           started == Started({p}, phy)
<1>1. /\ TypeOK /\ p \in Ports /\ {p} \in SUBSET Ports /\ told
      /\ Trigger({p}, phy, ResetMode(p), [tx EXCEPT ![p] = FALSE])
      /\ called' = NULL /\ timingOut' = NULL /\ timeout' = timeout
  BY <1>0 DEF IInv, TypeOK, Reset
<1>2. \A x \in Ports : timingOut' # x
  BY <1>1, DynamixelAssumption
<1>3. phy[p] = "IDLE" /\ \A x \in Ports \ {p} : phy[x] = g_phyState[x]
  BY <1>1 DEF TypeOK
<1>4. started \subseteq {p}
  BY DEF Started
<1>5. \A x \in Ports : g_phyState'[x] = IF x \in started THEN "TX" ELSE phy[x]
  BY <1>1 DEF Trigger
<1>6. \A x \in Ports \ started : g_currentTransactions'[x] = g_currentTransactions[x]
  BY <1>1 DEF Trigger
<1>7. \A x \in Ports \ {p} : Serving(x)' = Serving(x) /\ (Overtaken(x)' <=> Overtaken(x))
  BY <1>0, <1>1, <1>2, <1>3, <1>4, <1>5, <1>6 DEF Serving, Overtaken
<1>8. Serving(p) = NULL \/ Overtaken(p)
  BY <1>0, <1>1 DEF Serving
<1>9. Overtaken(p)' => Overtaken(p)
  BY <1>0, <1>1, <1>2 DEF Overtaken
<1>10. NoneIsOvertaken
  BY <1>7, <1>9 DEF NoneIsOvertaken
<1> HIDE DEF phy
<1>11. CASE p \in started
  <2>1. \A x \in started : Serving(x) = NULL \/ Overtaken(x)
    BY <1>4, <1>8
  <2>2. \A x \in Ports \ started : Serving(x)' = Serving(x)
    BY <1>7, <1>11
  <2>. QED  BY <1>1, <1>10, <2>1, <2>2, TriggerStep
<1>12. CASE p \notin started
  <2>1. started = {}
    BY <1>4, <1>12
  <2>2. jobs' = jobs
    BY <1>1, <2>1 DEF TypeOK, Trigger
  <2>3. Serving(p)' = NULL
    BY <1>1, <1>3, <1>5, <1>12 DEF Serving
  <2>4. CASE Overtaken(p)
    BY <1>1, <1>7, <1>10, <2>2, <2>3, <2>4, DropStep
  <2>5. CASE ~Overtaken(p)
    BY <1>1, <1>7, <1>8, <1>10, <2>2, <2>3, <2>5, QuietStep
  <2>. QED  BY <2>4, <2>5
<1>. QED  BY <1>11, <1>12

\* Every step is one of the promise, or changes nothing that it speaks of.
LEMMA NextService ==
  ASSUME IInv, ToldInTimeout, [Next]_vars
  PROVE  [Service!Next]_(Service!vars)
<1>1. ASSUME NEW context \in Contexts, Begin(context)
      PROVE  Service!Next
  BY <1>1, SameService, QuietStep DEF Begin
<1>2. ASSUME NEW context \in Contexts, TriggerAfterPuts(context)
      PROVE  Service!Next
  <2>1. adding[context].ports \in SUBSET Ports
    BY <1>2 DEF IInv, TypeOK, Adding, TriggerAfterPuts
  <2>. QED  BY <1>2, <2>1, TriggerIdleStep DEF TriggerAfterPuts
<1>3. CASE TriggerAtEnd
  <2>1. {ending} \in SUBSET Ports
    BY <1>3 DEF IInv, TypeOK, TriggerAtEnd
  <2>. QED  BY <1>3, <2>1, TriggerIdleStep DEF TriggerAtEnd
<1>4. ASSUME NEW p \in Ports, Answer(p)
      PROVE  Service!Next
  BY <1>4, SameService, QuietStep DEF Answer
<1>5. CASE UNCHANGED vars
  BY <1>5 DEF vars, timeoutVars, Overtaken, Service!vars
<1>. QED
  BY <1>1, <1>2, <1>3, <1>4, <1>5, AcceptStep, UartIsrStep, DmaIsrStep, ExpireStep,
     TellTimeoutStep, ResetStep
  DEF Next, AddJob

\* The jobs of a port are carried out one at a time, those of high priority
\* first and in the order in which they were accepted, and the callback of a job
\* is called once, whichever way the calls of addJob, the interrupts and the
\* timeouts interleave; all but the callbacks of a port whose answer comes while
\* its timeout is under way, and of the job such a timeout then drops.
THEOREM BusCarriesOutJobs == Spec => JobServiceSpec
<1> DEFINE I == IInv /\ ToldInTimeout
<1>1. Init => I
  BY InitIInv, ToldInit
<1>2. I /\ [Next]_vars => I'
  BY NextIInv, ToldNext DEF IInv
<1>3. I /\ [Next]_vars => [Service!Next]_(Service!vars)
  BY NextService
<1> HIDE DEF I
<1>. QED  BY <1>1, <1>2, <1>3, InitService, PTL DEF Spec, JobServiceSpec, Service!Spec

===============================================================================
