---------------------------- MODULE PartsProofs -----------------------------
(***************************************************************************)
(* Theorems of parts of MCParts. Of the link to the main computer, what    *)
(* TxRingProofs and RxRingProofs prove of its two halves, carried to the   *)
(* composition that a run checks. Of the watchdog of the IMU, the time,    *)
(* the I2C bus, the calibrations, the sound, the buttons, the reader of    *)
(* the motors, the commands to them, the framed protocol and the four      *)
(* boards in their line, the inductive invariant of the part and the       *)
(* properties that follow from it: each is about one part, and PartSteps   *)
(* says that a step of the composition is one of the part that was chosen, *)
(* or none.                                                                *)
(***************************************************************************)
EXTENDS MCParts, TLAPS, SequenceTheorems

Tx == INSTANCE TxRingProofs WITH
  Size <- TxSize, Lengths <- TxLengths, Gated <- TRUE
Rx == INSTANCE RxRingProofs WITH
  Size <- RxSize, pending <- rxPending, handler <- rxHandler, received <- receivedByte,
  arrived <- bytesArrived, handed <- bytesHanded

partVars == <<part, protocol, mainLink, mainRx, route, i2c, reader, commands, sound,
              buttons, calibration, time, watch, filter, startup>>

-----------------------------------------------------------------------------
\* The sizes of the rings are what TxRing and RxRing assume.
LEMMA RingsAssumed == Tx!RingAssumption /\ Rx!RingAssumption
  BY RingsAssumption DEF Tx!RingAssumption, Rx!RingAssumption

\* The steps of the composition are steps of the ring that was chosen.
LEMMA TxInit == Init => Tx!Init
  BY DEF Init, MainLink!Init, Tx!Init

\* (A step of it, whichever part was chosen, is one of this ring or leaves it alone.)
LEMMA TxNext ==
  ASSUME part = "mainLink", [Next]_partVars
  PROVE  [Tx!Next]_(Tx!vars) /\ UNCHANGED part
<1>1. CASE MainLink!Next /\ UNCHANGED part
  <2>1. MainLink!Store => Tx!Store
    BY DEF MainLink!Store, MainLink!Least, MainLink!Room, MainLink!Plus, MainLink!Wrapped,
           Tx!Store, Tx!Least, Tx!Room, Tx!Plus, Tx!Wrapped
  <2>2. MainLink!TriggerTransmission => Tx!TriggerTransmission
    BY DEF MainLink!TriggerTransmission, MainLink!Trigger, MainLink!Least, MainLink!fifo,
           Tx!TriggerTransmission, Tx!Trigger, Tx!Least, Tx!fifo
  <2>3. MainLink!DmaIsr => Tx!DmaIsr
    BY DEF MainLink!DmaIsr, MainLink!Trigger, MainLink!Least, MainLink!Wrapped,
           Tx!DmaIsr, Tx!Trigger, Tx!Least, Tx!Wrapped
  <2>4. MainLink!Send => Tx!Send
    BY DEF MainLink!Send, MainLink!fifo, Tx!Send, Tx!fifo
  <2>5. MainLink!SendByte => Tx!SendByte
    BY DEF MainLink!SendByte, MainLink!fifo, MainLink!Plus, Tx!SendByte, Tx!fifo, Tx!Plus
  <2>6. (MainLink!Heard => Tx!Heard) /\ (MainLink!OnCommunicationTimeout => Tx!OnCommunicationTimeout)
    BY DEF MainLink!Heard, MainLink!OnCommunicationTimeout, MainLink!fifo,
           Tx!Heard, Tx!OnCommunicationTimeout, Tx!fifo
  <2>. QED  BY <1>1, <2>1, <2>2, <2>3, <2>4, <2>5, <2>6 DEF MainLink!Next, Tx!Next
<1>2. CASE UNCHANGED mainLink /\ UNCHANGED part
  BY <1>2 DEF mainLink, Tx!vars, Tx!fifo
<1>. QED  BY <1>1, <1>2 DEF Next, partVars

\* The same of the reception ring, at the start
LEMMA RxInit == Init => Rx!Init
  BY DEF Init, MainRx!Init, MainRx!Index, Rx!Init, Rx!Index

\* and at every step.
LEMMA RxNext ==
  ASSUME part = "mainRx", [Next]_partVars
  PROVE  [Rx!Next]_(Rx!vars) /\ UNCHANGED part
<1>1. CASE MainRx!Next /\ UNCHANGED part
  <2>1. MainRx!Arrive => Rx!Arrive
    BY DEF MainRx!Arrive, MainRx!Behind, MainRx!Next2, Rx!Arrive, Rx!Behind, Rx!Next2
  <2>2. (MainRx!Enter => Rx!Enter) /\ (MainRx!ReadByte => Rx!ReadByte) /\ (MainRx!Leave => Rx!Leave)
    BY DEF MainRx!Enter, MainRx!ReadByte, MainRx!Leave, Rx!Enter, Rx!ReadByte, Rx!Leave
  <2>3. MainRx!Hand => Rx!Hand
    BY DEF MainRx!Hand, MainRx!Next2, Rx!Hand, Rx!Next2
  <2>. QED  BY <1>1, <2>1, <2>2, <2>3 DEF MainRx!Next, Rx!Next
<1>2. CASE UNCHANGED mainRx /\ UNCHANGED part
  BY <1>2 DEF mainRx, Rx!vars
<1>. QED  BY <1>1, <1>2 DEF Next, partVars

-----------------------------------------------------------------------------
\* The part is chosen once.
LEMMA PartStays == [Next]_partVars => part' = part
  BY DEF Next, partVars

\* The bytes on the link to the main computer stay in their order, whatever the
\* sizes of the rings: what phySendFunction1 stores is what the DMA sends, and
\* what the DMA receives is what usart1_isr hands on, with none left behind.
THEOREM LinkKeepsOrder == Spec => []BytesInOrder
<1>1. Spec => [](part = "mainLink" => MainLink!BytesInOrder)
  <2>1. Tx!Spec => []Tx!BytesInOrder
    BY RingsAssumed, Tx!SentAsStored
  <2>2. part = "mainLink" /\ [Next]_partVars => [Tx!Next]_(Tx!vars)
    BY TxNext
  <2>3. Tx!BytesInOrder => MainLink!BytesInOrder
    BY DEF Tx!BytesInOrder, Tx!Wrapped, Tx!Plus,
           MainLink!BytesInOrder, MainLink!Wrapped, MainLink!Plus
  <2>4. part = "mainLink" /\ [Next]_partVars => (part = "mainLink")'
    BY PartStays
  <2>5. ~(part = "mainLink") /\ [Next]_partVars => ~(part = "mainLink")'
    BY PartStays
  <2>. QED  BY <2>1, <2>2, <2>3, <2>4, <2>5, TxInit, PTL DEF Spec, Tx!Spec, partVars
<1>2. Spec => [](part = "mainRx" => MainRx!BytesInOrder)
  <2>1. Rx!Spec => []Rx!BytesInOrder
    BY RingsAssumed, Rx!HandedAsArrived
  <2>2. part = "mainRx" /\ [Next]_partVars => [Rx!Next]_(Rx!vars)
    BY RxNext
  <2>3. Rx!BytesInOrder => MainRx!BytesInOrder
    BY DEF Rx!BytesInOrder, MainRx!BytesInOrder
  <2>4. part = "mainRx" /\ [Next]_partVars => (part = "mainRx")'
    BY PartStays
  <2>5. ~(part = "mainRx") /\ [Next]_partVars => ~(part = "mainRx")'
    BY PartStays
  <2>. QED  BY <2>1, <2>2, <2>3, <2>4, <2>5, RxInit, PTL DEF Spec, Rx!Spec, partVars
<1>3. BytesInOrder <=> /\ part = "mainLink" => MainLink!BytesInOrder
                       /\ part = "mainRx" => MainRx!BytesInOrder
  BY DEF BytesInOrder
<1>. QED  BY <1>1, <1>2, <1>3, PTL

\* Whoever waits for room in the ring of the link to the main computer does not
\* wait for a DMA that has nothing to do, whatever the size of the ring.
THEOREM LinkIsServed == Spec => []RingIsServed
<1>1. Tx!Spec => []Tx!RingIsServed
  BY RingsAssumed, Tx!RingIsAlwaysServed
<1>2. part = "mainLink" /\ [Next]_partVars => [Tx!Next]_(Tx!vars)
  BY TxNext
<1>3. Tx!RingIsServed => MainLink!RingIsServed
  BY DEF Tx!RingIsServed, MainLink!RingIsServed
<1>4. part = "mainLink" /\ [Next]_partVars => (part = "mainLink")'
  BY PartStays
<1>5. ~(part = "mainLink") /\ [Next]_partVars => ~(part = "mainLink")'
  BY PartStays
<1>6. RingIsServed <=> (part = "mainLink" => MainLink!RingIsServed)
  BY DEF RingIsServed
<1>. QED  BY <1>1, <1>2, <1>3, <1>4, <1>5, <1>6, TxInit, PTL DEF Spec, Tx!Spec, partVars

-----------------------------------------------------------------------------
\* A step of the composition is one of the part that was chosen.
LEMMA PartSteps ==
  ASSUME [Next]_partVars
  PROVE  /\ part' = part
         /\ part = "protocol" => [Protocol!Next]_protocol
         /\ part = "route" => [Route!Next]_route
         /\ part = "i2c" => [Bus!Next]_i2c
         /\ part = "reader" => [Reader!Next]_reader
         /\ part = "commands" => [Commands!Next]_commands
         /\ part = "sound" => [Music!Next]_sound
         /\ part = "buttons" => [Keys!Next]_buttons
         /\ part = "calibration" => [Imu!Next]_calibration
         /\ part = "time" => [Time!Next]_time
         /\ part = "watch" => [Watch!Next]_watch
  BY DEF Next, partVars

-----------------------------------------------------------------------------
\* While messages say that a sensor does not work, the reset is as far away as
\* the last of them is recent.
PutOff ==
  /\ countdown = NULL \/ countdown \in Nat \ {0}
  /\ flags # {} => countdown # NULL /\ silent = WatchInterval - countdown
  /\ Watch!ResetAfterRecovery

\* The watchdog of the IMU (imu.c) resets P2 only when the sensors were found to work
\* again or no message has been sent for all of the interval, however long that is.
THEOREM WatchRescuesNobody == Spec => []ResetAfterRecovery
<1> DEFINE I == part = "watch" => PutOff
<1>1. Init => I
  BY DEF Init, Watch!Init, PutOff, Watch!ResetAfterRecovery
<1>2. I /\ [Next]_partVars => I'
  <2> SUFFICES ASSUME part = "watch", PutOff, Watch!Next
               PROVE  PutOff'
    <3>1. CASE UNCHANGED watch /\ PutOff
      BY <3>1 DEF watch, PutOff, Watch!ResetAfterRecovery
    <3>. QED  BY <3>1, PartSteps
  <2>1. ASSUME NEW s \in Watch!Sensors, NEW same \in BOOLEAN, Watch!OnSample(s, same)
        PROVE  PutOff'
    BY <2>1 DEF Watch!OnSample, PutOff, Watch!ResetAfterRecovery
  <2>2. CASE Watch!Send
    BY <2>2, WatchAssumption DEF Watch!Send, Watch!Registered, PutOff, Watch!ResetAfterRecovery
  <2>3. CASE Watch!Tick
    BY <2>3, WatchAssumption DEF Watch!Tick, Watch!Started, PutOff, Watch!ResetAfterRecovery
  <2>. QED  BY <2>1, <2>2, <2>3 DEF Watch!Next
<1>3. I => ResetAfterRecovery
  BY DEF PutOff, ResetAfterRecovery
<1>. QED  BY <1>1, <1>2, <1>3, PTL DEF Spec, partVars

-----------------------------------------------------------------------------
\* What is known of the time: a clock has counted all of the microseconds since
\* some moment but those the prescaler has swallowed - one in Divider, and one
\* more if the count has just begun (Swallowed: so many of so much time).
Swallowed(p, skipped, length) == Divider * skipped <= length + prescaler[p]

\* A processor has noted when it sent its request, by its clock.
Noted(p) ==
  /\ clock[p] - begun[p] <= now - asked[p]
  /\ Swallowed(p, (now - asked[p]) - (clock[p] - begun[p]), now - asked[p])

Behind == {"P1toMain", "mainToP1", "P1toP2"}
Answers == {"mainToP1", "P1toP2"}

TimedFrame == [sent : [Time!Processors -> Nat], time : Nat]

\* A frame on a link was noted by those it has passed; the time in an answer is
\* not before its request and not after now.
FramesAreTimely ==
  \A l \in Time!Links : \A i \in 1 .. Len(frames[l]) :
    /\ Noted("P2") /\ (l \in Behind => Noted("P1"))
    /\ \A p \in Time!Processors : frames[l][i].sent[p] <= now
    /\ l \in Answers => /\ frames[l][i].time <= now
                        /\ \A p \in Time!Processors : frames[l][i].sent[p] <= frames[l][i].time

TimesOK ==
  /\ now \in Nat
  /\ clock \in [Time!Processors -> Int]
  /\ prescaler \in [Time!Processors -> 0 .. Divider - 1]
  /\ frames = [l \in Time!Links |-> frames[l]]
  /\ \A l \in Time!Links : frames[l] \in Seq(TimedFrame)
  /\ begun \in [Time!Processors -> Int]
  /\ ping \in [Time!Processors -> Int] /\ diff \in [Time!Processors -> Int]
  /\ synced \in [Time!Processors -> BOOLEAN]
  /\ asked \in [Time!Processors -> Nat] /\ \A p \in Time!Processors : asked[p] <= now
  /\ round \in [Time!Processors -> [end : Nat, sent : Nat, taken : Nat]]
  /\ \A p \in Time!Processors : round[p].end <= now /\ round[p].sent <= now

\* SyncedWithinPing with the count of the prescaler instead of the bound on it
IsClose(p) ==
  LET error == clock[p] + diff[p] - now
  IN /\ error <= ping[p]
     /\ Swallowed(p, ping[p] - (round[p].end - round[p].sent) - error, now - round[p].end)
     /\ round[p].sent = round[p].taken =>
          Swallowed(p, -(ping[p] + 1) - error, now - round[p].sent)

TimeInv ==
  /\ TimesOK
  /\ FramesAreTimely
  /\ \A p \in Time!Processors : synced[p] => IsClose(p)

\* Losing no more than the count says is losing no more than Drift.
LEMMA SwallowedIsDrift ==
  ASSUME TimesOK, NEW p \in Time!Processors, NEW skipped \in Int, NEW length \in Nat,
         Swallowed(p, skipped, length)
  PROVE  skipped <= Time!Drift(length)
<1> DEFINE q == length \div Divider
<1>1. Divider \in Nat \ {0} /\ prescaler[p] \in 0 .. Divider - 1
  BY TimeAssumption DEF TimesOK
<1>2. q \in Nat /\ length < Divider * (q + 1)
  BY <1>1
<1> HIDE DEF q
<1>3. Divider * skipped < Divider * (q + 1) + Divider
  BY <1>1, <1>2 DEF Swallowed
<1>4. ASSUME skipped >= q + 2 PROVE FALSE
  <2> DEFINE d == skipped - (q + 2)
  <2>1. d \in Nat
    BY <1>2, <1>4
  <2>2. skipped = q + 2 + d
    BY <1>2
  <2> HIDE DEF d
  <2>3. Divider * d \in Nat
    BY <1>1, <2>1
  <2>4. Divider * skipped = Divider * (q + 1) + Divider + Divider * d
    BY <1>1, <1>2, <2>1, <2>2
  <2>5. Divider * (q + 1) \in Int
    BY <1>1, <1>2
  <2>. QED  BY <1>1, <1>3, <2>3, <2>4, <2>5
<1>. QED  BY <1>2, <1>4 DEF Time!Drift, q

\* As time passes the count of the prescaler goes on: a microsecond that the clock
\* does not count is paid for with those before.
LEMMA SwallowsOneInDivider ==
  ASSUME TimesOK, Time!Tick, NEW p \in Time!Processors,
         NEW skipped \in Int, NEW next \in Int, NEW length \in Int, Swallowed(p, skipped, length),
         next = skipped + 1 - (clock'[p] - clock[p])
  PROVE  Divider * next <= (length + 1) + prescaler'[p]
<1>1. /\ Divider \in Nat \ {0, 1} /\ prescaler[p] \in 0 .. Divider - 1 /\ clock[p] \in Int
      /\ Divider * skipped <= length + prescaler[p]
  BY TimeAssumption DEF TimesOK, Swallowed
<1>2. /\ clock'[p] = IF prescaler[p] = 0 THEN clock[p] ELSE clock[p] + 1
      /\ prescaler'[p] = IF prescaler[p] = 0 THEN Divider - 1 ELSE prescaler[p] - 1
  BY DEF Time!Tick
<1>3. Divider * skipped \in Int /\ Divider * (skipped + 1) = Divider * skipped + Divider
  BY <1>1
<1>4. CASE prescaler[p] = 0
  <2>1. next = skipped + 1 /\ prescaler'[p] = Divider - 1
    BY <1>1, <1>2, <1>4
  <2>. QED  BY <1>1, <1>3, <1>4, <2>1
<1>5. CASE prescaler[p] # 0
  <2>1. next = skipped /\ prescaler'[p] = prescaler[p] - 1
    BY <1>1, <1>2, <1>5
  <2>. QED  BY <1>1, <1>3, <2>1
<1>. QED  BY <1>4, <1>5

\* Frames have moved: each is one that was on its link, or the one put there.
Moved(to, frame) ==
  /\ frames' = [l \in Time!Links |-> frames'[l]]
  /\ \A l \in Time!Links : frames'[l] \in Seq(TimedFrame)
  /\ \A l \in Time!Links : \A i \in 1 .. Len(frames'[l]) :
       \/ \E j \in 1 .. Len(frames[l]) : frames'[l][i] = frames[l][j]
       \/ l = to /\ frames'[l][i] = frame

\* A frame is taken from the head of one link and goes behind the others of another,
\* or nowhere: each frame there is one that was there, or the one put.
LEMMA FramesMove ==
  ASSUME TimesOK, NEW from \in Time!Links, NEW to \in Time!Links \cup {"nowhere"}, to # from,
         NEW frame, to \in Time!Links => frame \in TimedFrame,
         Time!PassedOn(from, to, frame)
  PROVE  Moved(to, frame)
<1>0. \A l \in Time!Links : frames[l] \in Seq(TimedFrame)
  BY DEF TimesOK
<1>1. /\ frames[from] # <<>>
      /\ frames' = [l \in Time!Links |-> IF l = from THEN Tail(frames[l])
                       ELSE IF l = to THEN Append(frames[l], frame) ELSE frames[l]]
  BY DEF Time!PassedOn
<1>2. /\ frames'[from] = Tail(frames[from])
      /\ to \in Time!Links => frames'[to] = Append(frames[to], frame)
      /\ \A l \in Time!Links \ {from, to} : frames'[l] = frames[l]
  BY <1>1
<1>3. /\ Len(frames[from]) \in Nat \ {0} /\ Head(frames[from]) = frames[from][1]
      /\ Head(frames[from]) \in TimedFrame /\ frames'[from] \in Seq(TimedFrame)
      /\ Len(frames'[from]) = Len(frames[from]) - 1
      /\ \A i \in 1 .. Len(frames'[from]) : frames'[from][i] = frames[from][i + 1]
  BY <1>0, <1>1, <1>2
<1>4. ASSUME to \in Time!Links
      PROVE  /\ frames'[to] \in Seq(TimedFrame) /\ Len(frames'[to]) = Len(frames[to]) + 1
             /\ \A i \in 1 .. Len(frames[to]) : frames'[to][i] = frames[to][i]
             /\ frames'[to][Len(frames[to]) + 1] = frame
             /\ Len(frames[to]) \in Nat
  <2>1. frame \in TimedFrame /\ frames[to] \in Seq(TimedFrame)
    BY <1>0, <1>4
  <2>2. frames'[to] = Append(frames[to], frame)
    BY <1>2, <1>4
  <2>. QED  BY <2>1, <2>2
<1>5. \A l \in Time!Links : Len(frames[l]) \in Nat
  BY <1>0
<1>6. frames' = [l \in Time!Links |-> frames'[l]]
  BY <1>1
<1>7. \A l \in Time!Links : frames'[l] \in Seq(TimedFrame)
  BY <1>0, <1>2, <1>3, <1>4
<1>8. ASSUME NEW l \in Time!Links, NEW i \in 1 .. Len(frames'[l])
      PROVE  \/ \E j \in 1 .. Len(frames[l]) : frames'[l][i] = frames[l][j]
             \/ l = to /\ frames'[l][i] = frame
  <2>1. CASE l = from
    <3>1. i + 1 \in 1 .. Len(frames[l]) /\ frames'[l][i] = frames[l][i + 1]
      BY <2>1, <1>3, <1>5
    <3>. QED  BY <3>1
  <2>2. CASE l = to
    BY <2>2, <1>4, <1>5
  <2>3. CASE l # from /\ l # to
    BY <2>3, <1>2, <1>5
  <2>. QED  BY <2>1, <2>2, <2>3
<1>. QED  BY <1>6, <1>7, <1>8 DEF Moved

\* The frame that is taken is one of its link.
LEMMA HeadIsThere ==
  ASSUME TimesOK, NEW from \in Time!Links, frames[from] # <<>>
  PROVE  /\ Head(frames[from]) = frames[from][1] /\ 1 \in 1 .. Len(frames[from])
         /\ Head(frames[from]) \in TimedFrame
<1>1. frames[from] \in Seq(TimedFrame)
  BY DEF TimesOK
<1>. QED  BY <1>1

\* Frames that have moved are timely if the one put somewhere is.
LEMMA TimelyMoves ==
  ASSUME TimesOK, FramesAreTimely, NEW to, NEW frame, Moved(to, frame),
         now' = now, Noted("P1") => Noted("P1")', Noted("P2") => Noted("P2")',
         to \in Time!Links =>
           /\ Noted("P2")' /\ (to \in Behind => Noted("P1")')
           /\ \A p \in Time!Processors : frame.sent[p] <= now
           /\ to \in Answers => /\ frame.time <= now
                                /\ \A p \in Time!Processors : frame.sent[p] <= frame.time
  PROVE  FramesAreTimely'
<1> SUFFICES ASSUME NEW l \in Time!Links, NEW i \in 1 .. Len(frames'[l])
             PROVE  /\ Noted("P2")' /\ (l \in Behind => Noted("P1")')
                    /\ \A p \in Time!Processors : frames'[l][i].sent[p] <= now
                    /\ l \in Answers =>
                         /\ frames'[l][i].time <= now
                         /\ \A p \in Time!Processors : frames'[l][i].sent[p] <= frames'[l][i].time
  BY DEF FramesAreTimely
<1>1. CASE l = to /\ frames'[l][i] = frame
  BY <1>1
<1>2. ASSUME NEW j \in 1 .. Len(frames[l]), frames'[l][i] = frames[l][j]
      PROVE  /\ Noted("P2")' /\ (l \in Behind => Noted("P1")')
             /\ \A p \in Time!Processors : frames'[l][i].sent[p] <= now
             /\ l \in Answers =>
                  /\ frames'[l][i].time <= now
                  /\ \A p \in Time!Processors : frames'[l][i].sent[p] <= frames'[l][i].time
  BY <1>2 DEF FramesAreTimely
<1>. QED  BY <1>1, <1>2 DEF Moved

\* A request is noted at once, and what was noted of the others stays so.
LEMMA AsksAnew ==
  ASSUME TimesOK, \A q \in Time!Processors : synced[q] => IsClose(q),
         NEW p \in Time!Processors, Time!Asks(p)
  PROVE  /\ Noted(p)' /\ \A q \in Time!Processors : Noted(q) => Noted(q)'
         /\ begun' \in [Time!Processors -> Int] /\ asked' \in [Time!Processors -> Nat]
         /\ \A q \in Time!Processors : asked'[q] <= now
         /\ synced' \in [Time!Processors -> BOOLEAN]
         /\ \A q \in Time!Processors : synced'[q] => IsClose(q)'
         /\ UNCHANGED <<now, clock, prescaler, ping, diff, round>>
<1>1. /\ begun' = [begun EXCEPT ![p] = clock[p]] /\ asked' = [asked EXCEPT ![p] = now]
      /\ UNCHANGED <<now, clock, prescaler, ping, diff, round>>
  BY DEF Time!Asks, Time!times, Time!SystemTime
<1>2. synced' \in [Time!Processors -> BOOLEAN] /\ \A q \in Time!Processors : synced'[q] => synced[q]
  <2>1. synced' = [synced EXCEPT ![p] = @ /\ tries[p] + 1 < MaxTries]
    BY DEF Time!Asks
  <2> DEFINE still == synced[p] /\ tries[p] + 1 < MaxTries
  <2>2. still \in BOOLEAN /\ (still => synced[p]) /\ synced' = [synced EXCEPT ![p] = still]
    BY <2>1 DEF TimesOK
  <2> HIDE DEF still
  <2>. QED  BY <2>2 DEF TimesOK
<1>3. /\ now \in Nat /\ clock[p] \in Int /\ Divider \in Nat /\ prescaler[p] \in 0 .. Divider - 1
      /\ begun \in [Time!Processors -> Int] /\ asked \in [Time!Processors -> Nat]
      /\ \A q \in Time!Processors : asked[q] <= now
  BY TimeAssumption DEF TimesOK
<1>4. begun'[p] = clock[p] /\ asked'[p] = now
  BY <1>1, <1>3
<1>5. Noted(p)'
  <2>1. Divider * 0 = 0 /\ (now - now) - (clock[p] - clock[p]) = 0 /\ now - now = 0
    BY <1>3
  <2>. QED  BY <1>1, <1>3, <1>4, <2>1 DEF Noted, Swallowed
<1>6. ASSUME NEW q \in Time!Processors, Noted(q) PROVE Noted(q)'
  <2>1. CASE q = p
    BY <1>5, <2>1
  <2>2. CASE q # p
    <3>1. begun'[q] = begun[q] /\ asked'[q] = asked[q]
      BY <1>1, <1>3, <2>2
    <3>. QED  BY <1>1, <1>6, <3>1 DEF Noted, Swallowed
  <2>. QED  BY <2>1, <2>2
<1>7. begun' \in [Time!Processors -> Int] /\ asked' \in [Time!Processors -> Nat]
  BY <1>1, <1>3
<1>8. ASSUME NEW q \in Time!Processors PROVE asked'[q] <= now
  BY <1>1, <1>3
<1>9. ASSUME NEW q \in Time!Processors, synced'[q] PROVE IsClose(q)'
  <2>1. IsClose(q)
    BY <1>2, <1>9
  <2>. QED  BY <1>1, <2>1 DEF IsClose, Swallowed
<1>. QED  BY <1>1, <1>2, <1>5, <1>6, <1>7, <1>8, <1>9

\* An answer leaves a processor close to the time, by the way of the request it
\* answers, and by half of it if that is the one it was taken to answer.
LEMMA LearnsClosely ==
  ASSUME TimesOK, \A q \in Time!Processors : synced[q] => IsClose(q),
         NEW p \in Time!Processors, Noted(p), NEW answer \in TimedFrame,
         answer.time <= now, answer.sent[p] <= answer.time, Time!Learns(p, answer)
  PROVE  /\ ping' \in [Time!Processors -> Int] /\ diff' \in [Time!Processors -> Int]
         /\ synced' \in [Time!Processors -> BOOLEAN]
         /\ round' \in [Time!Processors -> [end : Nat, sent : Nat, taken : Nat]]
         /\ \A q \in Time!Processors : round'[q].end <= now /\ round'[q].sent <= now
         /\ \A q \in Time!Processors : synced'[q] => IsClose(q)'
         /\ UNCHANGED <<now, clock, prescaler, begun, asked>>
<1> DEFINE half == (clock[p] - begun[p]) \div 2
           d == answer.time + half - clock[p]
           r == [end |-> now, sent |-> answer.sent[p], taken |-> asked[p]]
<1>1. /\ ping' = [ping EXCEPT ![p] = half] /\ diff' = [diff EXCEPT ![p] = d]
      /\ synced' = [synced EXCEPT ![p] = TRUE] /\ round' = [round EXCEPT ![p] = r]
      /\ UNCHANGED <<now, clock, prescaler, begun, asked>>
  <2>1. ping' = [ping EXCEPT ![p] = half]
    BY DEF Time!Learns, Time!SystemTime
  <2>2. diff' = [diff EXCEPT ![p] = d]
    BY DEF Time!Learns, Time!SystemTime
  <2>3. round' = [round EXCEPT ![p] = r]
    BY DEF Time!Learns
  <2>4. synced' = [synced EXCEPT ![p] = TRUE] /\ UNCHANGED <<now, clock, prescaler, begun, asked>>
    BY DEF Time!Learns, Time!times
  <2>. QED  BY <2>1, <2>2, <2>3, <2>4
<1>2. /\ now \in Nat /\ clock[p] \in Int /\ Divider \in Nat \ {0, 1}
      /\ prescaler[p] \in 0 .. Divider - 1
      /\ begun[p] \in Int /\ asked[p] \in Nat /\ asked[p] <= now
      /\ answer.time \in Nat /\ answer.sent[p] \in Nat
  BY TimeAssumption DEF TimesOK, TimedFrame
<1>3. half \in Int /\ d \in Int /\ clock[p] - begun[p] <= 2 * half + 1 /\ 2 * half <= clock[p] - begun[p]
  BY <1>2
<1>4. r \in [end : Nat, sent : Nat, taken : Nat] /\ r.end = now /\ r.sent = answer.sent[p]
      /\ r.taken = asked[p] /\ r.sent <= now
  BY <1>2
<1> HIDE DEF half, r
<1>5. /\ ping' \in [Time!Processors -> Int] /\ diff' \in [Time!Processors -> Int]
      /\ synced' \in [Time!Processors -> BOOLEAN]
      /\ round' \in [Time!Processors -> [end : Nat, sent : Nat, taken : Nat]]
  BY <1>1, <1>3, <1>4 DEF TimesOK
<1>6. ASSUME NEW q \in Time!Processors PROVE round'[q].end <= now /\ round'[q].sent <= now
  <2>1. CASE q = p
    <3>1. round'[q] = r
      BY <1>1, <2>1 DEF TimesOK
    <3>. QED  BY <1>2, <1>4, <3>1
  <2>2. CASE q # p
    <3>1. round'[q] = round[q]
      BY <1>1, <2>2 DEF TimesOK
    <3>. QED  BY <3>1 DEF TimesOK
  <2>. QED  BY <2>1, <2>2
<1>7. clock[p] + d - now = answer.time + half - now
  BY <1>2, <1>3
<1> HIDE DEF d
<1>8. IsClose(p)'
  <2>1. /\ ping'[p] = half /\ diff'[p] = d /\ round'[p] = r
        /\ clock'[p] = clock[p] /\ now' = now /\ prescaler'[p] = prescaler[p]
    BY <1>1 DEF TimesOK
  <2> DEFINE e == clock[p] + d - now
             skipped == (now - asked[p]) - (clock[p] - begun[p])
  <2>2. e = answer.time + half - now /\ e \in Int /\ skipped \in Int
    BY <1>2, <1>3, <1>7
  <2>3. skipped >= 0 /\ Divider * skipped <= (now - asked[p]) + prescaler[p]
    BY <1>2 DEF Noted, Swallowed
  <2> HIDE DEF e
  <2>4. e <= half
    BY <1>2, <1>3, <2>2
  <2>5. Divider * (half - (now - answer.sent[p]) - e) <= (now - now) + prescaler[p]
    <3> DEFINE k == half - (now - answer.sent[p]) - e
    <3>1. k \in Int /\ k <= 0
      BY <1>2, <1>3, <2>2
    <3> HIDE DEF k
    <3>2. Divider * k <= 0
      BY <1>2, <3>1
    <3>3. now - now = 0 /\ Divider * k \in Int
      BY <1>2, <3>1
    <3>4. Divider * k <= (now - now) + prescaler[p]
      BY <1>2, <3>2, <3>3
    <3>. QED  BY <3>4 DEF k
  <2>6. ASSUME answer.sent[p] = asked[p]
        PROVE  Divider * (-(half + 1) - e) <= (now - answer.sent[p]) + prescaler[p]
    <3> DEFINE k == -(half + 1) - e
    <3>1. k \in Int /\ k <= skipped
      BY <1>2, <1>3, <2>2, <2>6
    <3> HIDE DEF k, skipped
    <3>2. Divider * k <= Divider * skipped
      <4>1. skipped - k \in Nat
        BY <2>2, <3>1
      <4>2. Divider * (skipped - k) \in Nat /\ Divider * (skipped - k) = Divider * skipped - Divider * k
        BY <1>2, <2>2, <3>1, <4>1
      <4>3. Divider * skipped \in Int /\ Divider * k \in Int
        BY <1>2, <2>2, <3>1
      <4>. QED  BY <4>2, <4>3
    <3>3. Divider * skipped \in Int /\ Divider * k \in Int
      BY <1>2, <2>2, <3>1
    <3>4. Divider * k <= (now - asked[p]) + prescaler[p]
      BY <1>2, <2>3, <3>2, <3>3
    <3>. QED  BY <2>6, <3>4 DEF k
  <2>. QED  BY <1>4, <2>1, <2>4, <2>5, <2>6 DEF IsClose, Swallowed, e
<1>9. ASSUME NEW q \in Time!Processors, synced'[q] PROVE IsClose(q)'
  <2>1. CASE q = p
    BY <1>8, <2>1
  <2>2. CASE q # p
    <3>1. /\ ping'[q] = ping[q] /\ diff'[q] = diff[q] /\ round'[q] = round[q] /\ synced[q]
      BY <1>1, <1>9, <2>2 DEF TimesOK
    <3>2. IsClose(q)
      BY <3>1
    <3>. QED  BY <1>1, <3>1, <3>2 DEF IsClose, Swallowed
  <2>. QED  BY <2>1, <2>2
<1>. QED  BY <1>1, <1>5, <1>6, <1>9

-----------------------------------------------------------------------------
\* Nothing is known of the time at first.
LEMMA TimeStarts == Time!Init => TimeInv
<1> SUFFICES ASSUME Time!Init PROVE TimeInv
  OBVIOUS
<1>1. \A l \in Time!Links : frames[l] = <<>> /\ 1 .. Len(frames[l]) = {}
  BY DEF Time!Init
<1>2. TimesOK
  <2>1. clock \in [Time!Processors -> Int]
    BY TimeAssumption DEF Time!Init, Time!Processors
  <2>2. round \in [Time!Processors -> [end : Nat, sent : Nat, taken : Nat]]
        /\ \A p \in Time!Processors : round[p].end <= now /\ round[p].sent <= now
    BY DEF Time!Init
  <2>. QED  BY <1>1, <2>1, <2>2 DEF Time!Init, TimesOK
<1>3. FramesAreTimely
  BY <1>1 DEF FramesAreTimely
<1>4. \A p \in Time!Processors : ~synced[p]
  BY DEF Time!Init
<1>. QED  BY <1>2, <1>3, <1>4 DEF TimeInv

\* Whatever a processor asks, answers, passes on or loses, TimeInv goes on.
LEMMA TimeGoesOn == TimeInv /\ [Time!Next]_time => TimeInv'
<1> SUFFICES ASSUME TimeInv, [Time!Next]_time PROVE TimeInv'
  OBVIOUS
<1> USE DEF TimeInv
<1>0. /\ {"P2toP1", "P1toMain", "mainToP1", "P1toP2"} = Time!Links /\ "nowhere" \notin Time!Links
      /\ Time!Processors = {"P1", "P2"} /\ now \in Nat
  BY DEF Time!Links, Time!Processors, TimesOK
<1>1. CASE Time!OnTriggerTimeSync
  <2> DEFINE request == [sent |-> [p \in Time!Processors |-> now], time |-> 0]
  <2>1. frames' = [frames EXCEPT !["P2toP1"] = Append(@, request)] /\ Time!Asks("P2")
    BY <1>1 DEF Time!OnTriggerTimeSync, Time!Sent
  <2>2. request \in TimedFrame /\ \A p \in Time!Processors : request.sent[p] = now
    BY <1>0 DEF TimedFrame
  <2> HIDE DEF request
  <2>3. Moved("P2toP1", request)
    <3>1. \A l \in Time!Links : frames[l] \in Seq(TimedFrame)
      BY DEF TimesOK
    <3>2. frames' = [l \in Time!Links |-> IF l = "P2toP1" THEN Append(frames[l], request) ELSE frames[l]]
      BY <1>0, <2>1 DEF TimesOK
    <3>3. ASSUME NEW l \in Time!Links
          PROVE  /\ frames'[l] \in Seq(TimedFrame)
                 /\ \A i \in 1 .. Len(frames'[l]) :
                       \/ \E j \in 1 .. Len(frames[l]) : frames'[l][i] = frames[l][j]
                       \/ l = "P2toP1" /\ frames'[l][i] = request
      <4>1. CASE l = "P2toP1"
        <5>1. frames'[l] = Append(frames[l], request) /\ frames[l] \in Seq(TimedFrame)
          BY <3>1, <3>2, <4>1
        <5>2. /\ frames'[l] \in Seq(TimedFrame) /\ Len(frames'[l]) = Len(frames[l]) + 1
              /\ \A i \in 1 .. Len(frames[l]) : frames'[l][i] = frames[l][i]
              /\ frames'[l][Len(frames[l]) + 1] = request /\ Len(frames[l]) \in Nat
          BY <2>2, <5>1
        <5>3. ASSUME NEW i \in 1 .. Len(frames'[l])
              PROVE  \/ i \in 1 .. Len(frames[l]) /\ frames'[l][i] = frames[l][i]
                     \/ frames'[l][i] = request
          <6> DEFINE n == Len(frames[l])
          <6>1. n \in Nat /\ i \in 1 .. n + 1
            BY <5>2
          <6> HIDE DEF n
          <6>2. i \in 1 .. n \/ i = n + 1
            BY <6>1
          <6>3. CASE i = n + 1
            <7>1. i = Len(frames[l]) + 1
              BY <6>3 DEF n
            <7>. QED  BY <5>2, <7>1
          <6>4. CASE i \in 1 .. n
            <7>1. i \in 1 .. Len(frames[l])
              BY <6>4 DEF n
            <7>. QED  BY <5>2, <7>1
          <6>. QED  BY <6>2, <6>3, <6>4
        <5>. QED  BY <4>1, <5>2, <5>3
      <4>2. CASE l # "P2toP1"
        <5>1. frames'[l] = frames[l] /\ frames[l] \in Seq(TimedFrame)
          BY <3>1, <3>2, <4>2
        <5>. QED  BY <5>1
      <4>. QED  BY <4>1, <4>2
    <3>4. frames' = [l \in Time!Links |-> frames'[l]]
      BY <3>2
    <3>. QED  BY <3>3, <3>4 DEF Moved
  <2>4. /\ Noted("P2")' /\ (Noted("P1") => Noted("P1")')
        /\ begun' \in [Time!Processors -> Int] /\ asked' \in [Time!Processors -> Nat]
        /\ \A q \in Time!Processors : asked'[q] <= now
        /\ synced' \in [Time!Processors -> BOOLEAN]
        /\ \A q \in Time!Processors : synced'[q] => IsClose(q)'
        /\ UNCHANGED <<now, clock, prescaler, ping, diff, round>>
    BY <1>0, <2>1, AsksAnew
  <2>5. FramesAreTimely'
    BY <1>0, <2>2, <2>3, <2>4, TimelyMoves DEF Behind, Answers
  <2>6. TimesOK'
    BY <2>3, <2>4 DEF TimesOK, Moved
  <2>. QED  BY <2>4, <2>5, <2>6
<1>2. CASE Time!RequestPassesP1
  <2> DEFINE request == [Head(frames["P2toP1"]) EXCEPT !.sent["P1"] = now]
  <2>1. Time!PassedOn("P2toP1", "P1toMain", request) /\ Time!Asks("P1") /\ frames["P2toP1"] # <<>>
    BY <1>2 DEF Time!RequestPassesP1
  <2>2. /\ Head(frames["P2toP1"]) \in TimedFrame /\ Noted("P2")
        /\ \A p \in Time!Processors : Head(frames["P2toP1"]).sent[p] <= now
    BY <1>0, <2>1, HeadIsThere DEF FramesAreTimely
  <2>3. request \in TimedFrame /\ \A p \in Time!Processors : request.sent[p] <= now
    BY <1>0, <2>2 DEF TimedFrame
  <2> HIDE DEF request
  <2>4. Moved("P1toMain", request)
    BY <1>0, <2>1, <2>3, FramesMove
  <2>5. /\ Noted("P1")' /\ Noted("P2")'
        /\ begun' \in [Time!Processors -> Int] /\ asked' \in [Time!Processors -> Nat]
        /\ \A q \in Time!Processors : asked'[q] <= now
        /\ synced' \in [Time!Processors -> BOOLEAN]
        /\ \A q \in Time!Processors : synced'[q] => IsClose(q)'
        /\ UNCHANGED <<now, clock, prescaler, ping, diff, round>>
    BY <1>0, <2>1, <2>2, AsksAnew
  <2>6. FramesAreTimely'
    BY <1>0, <2>3, <2>4, <2>5, TimelyMoves DEF Behind, Answers
  <2>7. TimesOK'
    BY <2>4, <2>5 DEF TimesOK, Moved
  <2>. QED  BY <2>5, <2>6, <2>7
<1>3. CASE Time!MainAnswers
  <2> DEFINE answer == [Head(frames["P1toMain"]) EXCEPT !.time = now]
  <2>1. /\ Time!PassedOn("P1toMain", "mainToP1", answer) /\ frames["P1toMain"] # <<>>
        /\ UNCHANGED <<now, clock, prescaler, begun, ping, diff, synced, asked, round>>
    BY <1>3 DEF Time!MainAnswers, Time!times
  <2>2. /\ Head(frames["P1toMain"]) \in TimedFrame /\ Noted("P2") /\ Noted("P1")
        /\ \A p \in Time!Processors : Head(frames["P1toMain"]).sent[p] <= now
    BY <1>0, <2>1, HeadIsThere DEF FramesAreTimely, Behind
  <2>3. answer \in TimedFrame /\ answer.time = now /\ \A p \in Time!Processors : answer.sent[p] <= now
    BY <1>0, <2>2 DEF TimedFrame
  <2> HIDE DEF answer
  <2>4. Moved("mainToP1", answer)
    BY <1>0, <2>1, <2>3, FramesMove
  <2>5. \A p \in Time!Processors : (Noted(p) => Noted(p)') /\ (IsClose(p) => IsClose(p)')
    BY <2>1 DEF Noted, IsClose, Swallowed
  <2>6. FramesAreTimely'
    BY <1>0, <2>1, <2>2, <2>3, <2>4, <2>5, TimelyMoves DEF Behind, Answers
  <2>7. TimesOK'
    BY <2>1, <2>4 DEF TimesOK, Moved
  <2>. QED  BY <2>1, <2>5, <2>6, <2>7
<1>4. ASSUME NEW l \in Time!Links, Time!Lose(l) PROVE TimeInv'
  <2>1. /\ Time!PassedOn(l, "nowhere", <<>>)
        /\ UNCHANGED <<now, clock, prescaler, begun, ping, diff, synced, asked, round>>
    BY <1>4 DEF Time!Lose, Time!times
  <2>2. Moved("nowhere", <<>>)
    BY <1>0, <2>1, FramesMove
  <2>3. \A p \in Time!Processors : (Noted(p) => Noted(p)') /\ (IsClose(p) => IsClose(p)')
    BY <2>1 DEF Noted, IsClose, Swallowed
  <2>4. FramesAreTimely'
    BY <1>0, <2>1, <2>2, <2>3, TimelyMoves
  <2>5. TimesOK'
    BY <2>1, <2>2 DEF TimesOK, Moved
  <2>. QED  BY <2>1, <2>3, <2>4, <2>5
<1>5. ASSUME NEW p \in Time!Processors, NEW from \in Answers, NEW to \in Answers \cup {"nowhere"},
             to # from, frames[from] # <<>>, Time!PassedOn(from, to, Head(frames[from])),
             Time!Learns(p, Head(frames[from]))
      PROVE  TimeInv'
  <2> DEFINE answer == Head(frames[from])
  <2>1. from \in Time!Links /\ to \in Time!Links \cup {"nowhere"} /\ from \in Behind
    BY <1>0 DEF Answers, Behind
  <2>2. /\ answer \in TimedFrame /\ Noted("P2") /\ Noted("P1") /\ answer.time <= now
        /\ \A q \in Time!Processors : answer.sent[q] <= now /\ answer.sent[q] <= answer.time
    BY <1>0, <1>5, <2>1, HeadIsThere DEF FramesAreTimely
  <2>3. Time!PassedOn(from, to, answer) /\ Time!Learns(p, answer) /\ Noted(p)
    BY <1>0, <1>5, <2>2
  <2> HIDE DEF answer
  <2>4. Moved(to, answer)
    BY <1>5, <2>1, <2>2, <2>3, FramesMove
  <2>5. /\ ping' \in [Time!Processors -> Int] /\ diff' \in [Time!Processors -> Int]
        /\ synced' \in [Time!Processors -> BOOLEAN]
        /\ round' \in [Time!Processors -> [end : Nat, sent : Nat, taken : Nat]]
        /\ \A q \in Time!Processors : round'[q].end <= now /\ round'[q].sent <= now
        /\ \A q \in Time!Processors : synced'[q] => IsClose(q)'
        /\ UNCHANGED <<now, clock, prescaler, begun, asked>>
    BY <2>2, <2>3, LearnsClosely
  <2>6. \A q \in Time!Processors : Noted(q) => Noted(q)'
    BY <2>5 DEF Noted, Swallowed
  <2>7. FramesAreTimely'
    BY <1>0, <2>1, <2>2, <2>4, <2>5, <2>6, TimelyMoves
  <2>8. TimesOK'
    BY <2>4, <2>5 DEF TimesOK, Moved
  <2>. QED  BY <2>5, <2>7, <2>8
<1>6. CASE Time!AnswerPassesP1
  BY <1>0, <1>5, <1>6 DEF Time!AnswerPassesP1, Answers
<1>7. CASE Time!AnswerReachesP2
  BY <1>0, <1>5, <1>7 DEF Time!AnswerReachesP2, Answers
<1>8. CASE Time!Tick
  <2>1. /\ now' = now + 1
        /\ UNCHANGED <<frames, begun, ping, diff, synced, asked, round>>
        /\ clock' = [p \in Time!Processors |-> clock'[p]]
        /\ prescaler' = [p \in Time!Processors |-> prescaler'[p]]
    BY <1>8 DEF Time!Tick
  <2>2. ASSUME NEW p \in Time!Processors PROVE prescaler'[p] \in 0 .. Divider - 1 /\ clock'[p] \in Int
    <3>1. clock[p] \in Int /\ prescaler[p] \in 0 .. Divider - 1 /\ Divider \in Nat \ {0, 1}
      BY TimeAssumption DEF TimesOK
    <3>2. /\ clock'[p] = IF prescaler[p] = 0 THEN clock[p] ELSE clock[p] + 1
          /\ prescaler'[p] = IF prescaler[p] = 0 THEN Divider - 1 ELSE prescaler[p] - 1
      BY <1>8 DEF Time!Tick
    <3>. QED  BY <3>1, <3>2
  <2>3. TimesOK'
    <3>1. \A p \in Time!Processors : asked[p] <= now + 1 /\ round[p].end <= now + 1 /\ round[p].sent <= now + 1
      BY DEF TimesOK
    <3>2. clock' \in [Time!Processors -> Int] /\ prescaler' \in [Time!Processors -> 0 .. Divider - 1]
      BY <2>1, <2>2
    <3>. QED  BY <2>1, <3>1, <3>2 DEF TimesOK
  <2>4. ASSUME NEW p \in Time!Processors, Noted(p) PROVE Noted(p)'
    <3> DEFINE skipped == (now - asked[p]) - (clock[p] - begun[p])
               next == (now' - asked[p]) - (clock'[p] - begun[p])
    <3>1. /\ now \in Nat /\ asked[p] \in Nat /\ clock[p] \in Int /\ begun[p] \in Int
          /\ begun'[p] = begun[p] /\ asked'[p] = asked[p] /\ clock'[p] \in Int
          /\ clock'[p] <= clock[p] + 1
      <4>1. clock'[p] = IF prescaler[p] = 0 THEN clock[p] ELSE clock[p] + 1
        BY <1>8 DEF Time!Tick
      <4>. QED  BY <2>1, <4>1 DEF TimesOK
    <3>2. skipped \in Int /\ next \in Int /\ next = skipped + 1 - (clock'[p] - clock[p])
      BY <2>1, <3>1
    <3>3. Swallowed(p, skipped, now - asked[p]) /\ now - asked[p] \in Int
      BY <2>4, <3>1 DEF Noted
    <3> HIDE DEF skipped, next
    <3>4. Divider * next <= ((now - asked[p]) + 1) + prescaler'[p]
      BY <1>8, <3>2, <3>3, SwallowsOneInDivider
    <3>5. (now - asked[p]) + 1 = now' - asked[p]
      BY <2>1, <3>1
    <3>6. clock'[p] - begun[p] <= now' - asked[p]
      BY <2>1, <2>4, <3>1 DEF Noted
    <3>. QED  BY <3>1, <3>4, <3>5, <3>6 DEF Noted, Swallowed, next
  <2>5. ASSUME NEW p \in Time!Processors, IsClose(p) PROVE IsClose(p)'
    <3> DEFINE error == clock[p] + diff[p] - now
               later == clock'[p] + diff[p] - now'
    <3>1. /\ now \in Nat /\ now' = now + 1 /\ clock[p] \in Int /\ clock'[p] \in Int /\ diff[p] \in Int
          /\ ping[p] \in Int /\ clock'[p] <= clock[p] + 1 /\ round[p].end \in Nat
          /\ round[p].sent \in Nat
          /\ ping'[p] = ping[p] /\ diff'[p] = diff[p] /\ round'[p] = round[p]
      <4>1. clock'[p] = IF prescaler[p] = 0 THEN clock[p] ELSE clock[p] + 1
        BY <1>8 DEF Time!Tick
      <4>2. round[p] \in [end : Nat, sent : Nat, taken : Nat]
        BY DEF TimesOK
      <4>. QED  BY <2>1, <4>1, <4>2 DEF TimesOK
    <3>2. /\ error \in Int /\ later \in Int /\ error <= ping[p]
          /\ Swallowed(p, ping[p] - (round[p].end - round[p].sent) - error, now - round[p].end)
          /\ round[p].sent = round[p].taken =>
               Swallowed(p, -(ping[p] + 1) - error, now - round[p].sent)
      BY <2>5, <3>1 DEF IsClose
    <3>3. later <= error /\ error - later = 1 - (clock'[p] - clock[p])
      BY <3>1
    <3>4. clock'[p] + diff'[p] - now' = later
      BY <3>1
    <3> HIDE DEF error, later
    <3>5. Divider * (ping[p] - (round[p].end - round[p].sent) - later)
            <= (now' - round[p].end) + prescaler'[p]
      <4> DEFINE skipped == ping[p] - (round[p].end - round[p].sent) - error
                 next == ping[p] - (round[p].end - round[p].sent) - later
      <4>1. skipped \in Int /\ next \in Int /\ next = skipped + 1 - (clock'[p] - clock[p])
        BY <3>1, <3>2, <3>3
      <4>2. Swallowed(p, skipped, now - round[p].end) /\ now - round[p].end \in Int
        BY <3>1, <3>2
      <4> HIDE DEF skipped, next
      <4>3. Divider * next <= ((now - round[p].end) + 1) + prescaler'[p]
        BY <1>8, <4>1, <4>2, SwallowsOneInDivider
      <4>4. (now - round[p].end) + 1 = now' - round[p].end
        BY <3>1
      <4>. QED  BY <4>3, <4>4 DEF next
    <3>6. ASSUME round[p].sent = round[p].taken
          PROVE  Divider * (-(ping[p] + 1) - later) <= (now' - round[p].sent) + prescaler'[p]
      <4> DEFINE skipped == -(ping[p] + 1) - error
                 next == -(ping[p] + 1) - later
      <4>1. skipped \in Int /\ next \in Int /\ next = skipped + 1 - (clock'[p] - clock[p])
        BY <3>1, <3>2, <3>3
      <4>2. Swallowed(p, skipped, now - round[p].sent) /\ now - round[p].sent \in Int
        BY <3>1, <3>2, <3>6
      <4> HIDE DEF skipped, next
      <4>3. Divider * next <= ((now - round[p].sent) + 1) + prescaler'[p]
        BY <1>8, <4>1, <4>2, SwallowsOneInDivider
      <4>4. (now - round[p].sent) + 1 = now' - round[p].sent
        BY <3>1
      <4>. QED  BY <4>3, <4>4 DEF next
    <3>7. later <= ping[p]
      BY <3>1, <3>2, <3>3
    <3>. QED  BY <3>1, <3>4, <3>5, <3>6, <3>7 DEF IsClose, Swallowed
  <2>6. FramesAreTimely'
    <3>1. \A l \in Time!Links : \A i \in 1 .. Len(frames[l]) :
            frames[l][i] \in TimedFrame
      BY DEF TimesOK
    <3>2. \A l \in Time!Links : \A i \in 1 .. Len(frames[l]) :
            \A p \in Time!Processors : frames[l][i].sent[p] \in Nat /\ frames[l][i].time \in Nat
      BY <3>1 DEF TimedFrame
    <3>. QED  BY <1>0, <2>1, <2>4, <3>2 DEF FramesAreTimely
  <2>. QED  BY <2>1, <2>3, <2>4, <2>5, <2>6
<1>9. CASE UNCHANGED time
  <2>1. UNCHANGED <<now, clock, prescaler, frames, begun, ping, diff, synced, asked, round>>
    BY <1>9 DEF time
  <2>2. \A p \in Time!Processors : (Noted(p) <=> Noted(p)') /\ (IsClose(p) <=> IsClose(p)')
    BY <2>1 DEF Noted, IsClose, Swallowed
  <2>3. TimesOK' /\ FramesAreTimely'
    BY <1>0, <2>1, <2>2 DEF TimesOK, FramesAreTimely
  <2>. QED  BY <2>1, <2>2, <2>3
<1>10. Time!TimeIsUp => UNCHANGED time
  BY DEF Time!TimeIsUp, Time!vars, Time!times, time
<1>. QED  BY <1>1, <1>2, <1>3, <1>4, <1>6, <1>7, <1>8, <1>9, <1>10 DEF Time!Next

\* A processor that says its time is synced is ahead by half a round trip at most
\* and behind by what the way of the request and the slow clock explain, however far
\* ahead its clock began, whatever the prescaler, however long the frames wait and
\* however many requests there are (app_timeSync.c, systemTime.c).
THEOREM ClocksAreWithinPing == Spec => []SyncedWithinPing
<1> DEFINE I == part = "time" => TimeInv
<1>1. Init => I
  BY TimeStarts DEF Init
<1>2. I /\ [Next]_partVars => I'
  BY PartSteps, TimeGoesOn
<1>3. TimeInv => Time!SyncedWithinPing
  <2> SUFFICES ASSUME TimeInv, NEW p \in Time!Processors, synced[p]
               PROVE  /\ Time!ErrorOf(p) <= ping[p]
                      /\ Time!ErrorOf(p) >= ping[p] - (round[p].end - round[p].sent)
                                              - Time!Drift(now - round[p].end)
                      /\ round[p].sent = round[p].taken =>
                           Time!ErrorOf(p) >= -(ping[p] + 1) - Time!Drift(now - round[p].sent)
    BY DEF Time!SyncedWithinPing
  <2> DEFINE e == clock[p] + diff[p] - now
  <2>1. Time!ErrorOf(p) = e
    BY DEF Time!ErrorOf, Time!SystemTime
  <2>2. round[p] \in [end : Nat, sent : Nat, taken : Nat]
    BY DEF TimeInv, TimesOK
  <2>3. /\ TimesOK /\ now \in Nat /\ e \in Int /\ ping[p] \in Int
        /\ round[p].end \in Nat /\ round[p].sent \in Nat
        /\ now - round[p].end \in Nat /\ now - round[p].sent \in Nat
    <3>1. TimesOK
      BY DEF TimeInv
    <3>2. /\ now \in Nat /\ clock[p] \in Int /\ diff[p] \in Int /\ ping[p] \in Int
          /\ round[p].end <= now /\ round[p].sent <= now
      BY <3>1 DEF TimesOK
    <3>3. round[p].end \in Nat /\ round[p].sent \in Nat
      BY <2>2
    <3>. QED  BY <3>1, <3>2, <3>3
  <2>4. /\ e <= ping[p]
        /\ Swallowed(p, ping[p] - (round[p].end - round[p].sent) - e, now - round[p].end)
        /\ round[p].sent = round[p].taken => Swallowed(p, -(ping[p] + 1) - e, now - round[p].sent)
    BY DEF TimeInv, IsClose
  <2> HIDE DEF e
  <2>5. \A length \in Nat : Time!Drift(length) \in Int
    BY TimeAssumption DEF Time!Drift
  <2>6. ping[p] - (round[p].end - round[p].sent) - e <= Time!Drift(now - round[p].end)
    <3>1. ping[p] - (round[p].end - round[p].sent) - e \in Int
      BY <2>3
    <3>. QED  BY <2>3, <2>4, <3>1, SwallowedIsDrift
  <2>7. ASSUME round[p].sent = round[p].taken
        PROVE  -(ping[p] + 1) - e <= Time!Drift(now - round[p].sent)
    <3>1. -(ping[p] + 1) - e \in Int
      BY <2>3
    <3>. QED  BY <2>3, <2>4, <2>7, <3>1, SwallowedIsDrift
  <2>. QED  BY <2>1, <2>3, <2>4, <2>5, <2>6, <2>7
<1>4. I => SyncedWithinPing
  BY <1>3 DEF SyncedWithinPing
<1>. QED  BY <1>1, <1>2, <1>4, PTL DEF Spec, partVars

-----------------------------------------------------------------------------
\* The I2C bus between two steps of it: a transaction is on the bus unless the
\* state is idle, and its bytes have been counted right.
BusRecord ==
  [jobs : Seq(Bus!Transaction), current : Bus!Transaction, tx_sent : 0 .. 2,
   rx_reveived : 0 .. 3, state : Bus!States, enabled : BOOLEAN, under : BOOLEAN, bytes : 0 .. 2,
   outcome : {"none", "done", "incomplete", "failed", "forgotten"}]

BusOK(b) ==
  /\ b \in BusRecord
  /\ Len(b.jobs) <= TransactionQueue
  /\ b.under <=> b.state # "IDLE"
  /\ b.under => b.rx_reveived = b.bytes /\ b.bytes < 2
  /\ b.state \in {"RX_SWAP", "ADDR_RX_PENDING", "RX"} => b.current.rx # 0
  /\ b.outcome \in {"none", "done", "failed"}

Client ==
  [todo : Seq(Bus!Transaction), put : BOOLEAN, check : BOOLEAN, success : BOOLEAN]

PollOK(client) == client \in Client /\ (client.put => client.todo # <<>>)

BusInv ==
  /\ BusOK(bus)
  /\ poll = NULL \/ PollOK(poll)
  /\ ready \subseteq Bus!Devices
  /\ ct \in 0 .. Patience

\* The steps of the state machine
LEMMA QuietIsOK ==
  ASSUME NEW b, BusOK(b)
  PROVE  BusOK(Bus!Quiet(b))
  BY DEF BusOK, Bus!Quiet, BusRecord, Bus!States

\* A transaction ends, done or failed, with the bus idle.
LEMMA EndedIsOK ==
  ASSUME NEW b, BusOK(b), NEW how \in {"done", "failed"}
  PROVE  BusOK(Bus!Ended(b, how)) /\ Bus!Ended(b, how).state = "IDLE"
  BY DEF BusOK, Bus!Ended, BusRecord, Bus!States

\* The reset of a bus that hangs ends the transaction that hung.
LEMMA ResetIsOK ==
  ASSUME NEW b, BusOK(b)
  PROVE  BusOK(Bus!ForceReset(b))
<1>1. BusOK(Bus!Ended(b, "failed"))
  BY EndedIsOK
<1>. QED  BY <1>1 DEF BusOK, Bus!ForceReset, BusRecord

\* The next transaction begins when none is under way.
LEMMA TriggeredIsOK ==
  ASSUME NEW b, BusOK(b)
  PROVE  BusOK(Bus!Triggered(b))
<1>1. CASE b.state = "IDLE" /\ b.jobs # <<>>
  <2>1. Head(b.jobs) \in Bus!Transaction /\ Tail(b.jobs) \in Seq(Bus!Transaction)
    BY <1>1 DEF BusOK, BusRecord
  <2>2. Len(Tail(b.jobs)) <= TransactionQueue
    BY <1>1, BusAssumption DEF BusOK, BusRecord
  <2> DEFINE c == Bus!Start(b)
  <2>3. b \in BusRecord /\ ~b.under /\ b.outcome \in {"none", "done", "failed"}
    BY <1>1 DEF BusOK
  <2>4. c \in BusRecord
    <3>2. b.outcome \in {"none", "done", "incomplete", "failed", "forgotten"}
      BY <2>3
    <3>. QED  BY <2>1, <2>3, <3>2 DEF BusRecord, Bus!States, Bus!Start
  <2>5. /\ c.jobs = Tail(b.jobs) /\ c.state = "SC_PENDING" /\ c.under /\ c.bytes = 0
        /\ c.rx_reveived = 0 /\ c.outcome = b.outcome
    BY <2>3 DEF BusRecord, Bus!Start
  <2> HIDE DEF c
  <2>6. BusOK(c)
    BY <2>2, <2>3, <2>4, <2>5 DEF BusOK
  <2>7. BusOK(Bus!Start(b))
    BY <2>6 DEF c
  <2>. QED  BY <1>1, <2>7 DEF Bus!Triggered
<1>2. CASE ~(b.state = "IDLE" /\ b.jobs # <<>>)
  BY <1>2 DEF Bus!Triggered
<1>. QED  BY <1>1, <1>2

\* A byte arrives: the transaction ends with the second, having counted both.
LEMMA ReceiveIsOK ==
  ASSUME NEW b, BusOK(b), b.state = "RX"
  PROVE  BusOK(Bus!Receive(b))
<1> DEFINE c == [b EXCEPT !.rx_reveived = (@ + 1) % 4, !.bytes = IF @ < 2 THEN @ + 1 ELSE @]
<1>1. /\ b \in BusRecord /\ b.under /\ b.rx_reveived = b.bytes /\ b.bytes \in {0, 1}
      /\ b.current \in Bus!Transaction /\ b.current.rx = 2
  BY DEF BusOK, BusRecord, Bus!Transaction
<1>2. /\ c \in BusRecord /\ c.rx_reveived = b.bytes + 1 /\ c.bytes = b.bytes + 1
      /\ c.current.rx = 2 /\ c.under /\ c.state = "RX" /\ c.jobs = b.jobs
      /\ c.outcome = b.outcome
  <2>1. c = [b EXCEPT !.rx_reveived = b.bytes + 1, !.bytes = b.bytes + 1]
    <3>1. b.bytes < 2 /\ (b.bytes + 1) % 4 = b.bytes + 1
      BY <1>1
    <3>. QED  BY <1>1, <3>1 DEF BusRecord
  <2>2. b.bytes + 1 \in 0 .. 2 /\ b.bytes + 1 \in 0 .. 3
    BY <1>1
  <2> HIDE DEF c
  <2>. QED  BY <1>1, <2>1, <2>2 DEF BusRecord, BusOK
<1> HIDE DEF c
<1>3. CASE c.rx_reveived = c.current.rx
  <2>1. Bus!Receive(b) = Bus!Ended(c, "done")
    BY <1>1, <1>2, <1>3 DEF Bus!Receive, c
  <2>2. BusOK(Bus!Ended(c, "done"))
    BY <1>2 DEF BusOK, Bus!Ended, BusRecord, Bus!States
  <2>. QED  BY <2>1, <2>2
<1>4. CASE c.rx_reveived # c.current.rx
  <2>1. Bus!Receive(b) = c
    BY <1>4 DEF Bus!Receive, c
  <2>2. BusOK(c)
    BY <1>1, <1>2, <1>4 DEF BusOK
  <2>. QED  BY <2>1, <2>2
<1>. QED  BY <1>3, <1>4

\* Whatever the bus reports, the handler leaves the transaction under way or ended.
LEMMA HandledIsOK ==
  ASSUME NEW b, BusOK(b), NEW status \in BOOLEAN, NEW af \in BOOLEAN
  PROVE  BusOK(Bus!Handled(b, status, af))
<1>1. b.state \in Bus!States
  BY DEF BusOK, BusRecord
<1>2. CASE b.state = "SC_PENDING"
  <2>1. BusOK([b EXCEPT !.state = "ADDR_TX_PENDING"])
    BY <1>2 DEF BusOK, BusRecord, Bus!States
  <2>. QED  BY <1>2, <2>1, EndedIsOK DEF Bus!Handled
<1>3. CASE b.state = "ADDR_TX_PENDING"
  <2>1. BusOK([b EXCEPT !.state = "TX"])
    BY <1>3 DEF BusOK, BusRecord, Bus!States
  <2>. QED  BY <1>3, <2>1, EndedIsOK DEF Bus!Handled
<1>4. CASE b.state = "TX" /\ b.tx_sent < b.current.tx
  <2>1. b.tx_sent + 1 \in 0 .. 2
    BY <1>4 DEF BusOK, BusRecord, Bus!Transaction
  <2>2. BusOK([b EXCEPT !.state = "TX", !.tx_sent = b.tx_sent + 1])
    BY <1>4, <2>1 DEF BusOK, BusRecord, Bus!States
  <2> DEFINE d == [b EXCEPT !.state = "TX", !.tx_sent = @ + 1]
  <2>3. BusOK(d)
    BY <2>2 DEF BusOK, BusRecord
  <2>4. ~(b.tx_sent >= b.current.tx)
    BY <1>4 DEF BusOK, BusRecord, Bus!Transaction
  <2>5. status => Bus!Handled(b, status, af) = d
    BY <1>4, <2>4 DEF Bus!Handled
  <2>6. ~status => Bus!Handled(b, status, af) = b
    BY <1>4, <2>4 DEF Bus!Handled
  <2> HIDE DEF d
  <2>. QED  BY <2>3, <2>5, <2>6
<1>5. CASE b.state = "TX" /\ ~(b.tx_sent < b.current.tx)
  <2>1. b.tx_sent >= b.current.tx
    BY <1>5 DEF BusOK, BusRecord, Bus!Transaction
  <2>2. b.current.rx # 0 => BusOK([b EXCEPT !.state = "RX_SWAP"])
    BY <1>5 DEF BusOK, BusRecord, Bus!States
  <2>3. BusOK(Bus!ReadOrDone(b))
    BY <2>2, EndedIsOK DEF Bus!ReadOrDone
  <2>. QED  BY <1>5, <2>1, <2>3 DEF Bus!Handled
<1>6. CASE b.state = "RX_SWAP"
  <2>1. BusOK([b EXCEPT !.state = "ADDR_RX_PENDING"])
    BY <1>6 DEF BusOK, BusRecord, Bus!States
  <2>. QED  BY <1>6, <2>1 DEF Bus!Handled
<1>7. CASE b.state = "ADDR_RX_PENDING"
  <2>1. BusOK([b EXCEPT !.state = "RX"])
    BY <1>7 DEF BusOK, BusRecord, Bus!States
  <2>. QED  BY <1>7, <2>1 DEF Bus!Handled
<1>8. CASE b.state = "RX"
  BY <1>8, ReceiveIsOK DEF Bus!Handled
<1>9. CASE b.state = "IDLE"
  <2>1. BusOK([b EXCEPT !.enabled = FALSE])
    BY <1>9 DEF BusOK, BusRecord
  <2>. QED  BY <1>9, <2>1 DEF Bus!Handled
<1>. QED  BY <1>1, <1>2, <1>3, <1>4, <1>5, <1>6, <1>7, <1>8, <1>9 DEF Bus!States

\* The clients of the timer, when they begin
LEMMA SetupIsOK ==
  ASSUME NEW device \in Bus!Devices
  PROVE  PollOK(Bus!SetupSensor(device))
<1>1. Bus!WriteTo(device) \in Bus!Transaction /\ Bus!ReadFrom(device) \in Bus!Transaction
  BY DEF Bus!WriteTo, Bus!ReadFrom, Bus!Transaction
<1>. QED  BY <1>1 DEF PollOK, Bus!SetupSensor, Bus!Client, Client

\* A poll that reads a sensor asks for a whole transaction.
LEMMA ReadIsOK ==
  ASSUME NEW device \in Bus!Devices, NEW check \in BOOLEAN
  PROVE  PollOK(Bus!Client(<<Bus!ReadFrom(device)>>, check))
<1>1. Bus!ReadFrom(device) \in Bus!Transaction
  BY DEF Bus!ReadFrom, Bus!Transaction
<1>. QED  BY <1>1 DEF PollOK, Bus!Client, Client

\* The bus begins with no transaction ended wrongly.
LEMMA BusStarts == Bus!Init => BusInv
<1> SUFFICES ASSUME Bus!Init PROVE BusInv
  OBVIOUS
<1>1. BusOK(bus)
  BY BusAssumption DEF Bus!Init, BusOK, BusRecord, Bus!States, Bus!Transaction, Bus!ReadFrom, Bus!Devices
<1>2. poll = NULL /\ ready = {} /\ ct \in 0 .. Patience
  BY BusAssumption DEF Bus!Init
<1>. QED  BY <1>1, <1>2 DEF BusInv

\* Handlers, polls and resets leave the bus as BusInv says.
LEMMA BusGoesOn == BusInv /\ [Bus!Next]_i2c => BusInv'
<1> SUFFICES ASSUME BusInv, [Bus!Next]_i2c PROVE BusInv'
  OBVIOUS
<1> USE DEF BusInv
<1>0. BusOK(Bus!Quiet(bus))
  BY QuietIsOK
<1>1. ASSUME NEW device \in Bus!Devices, Bus!FirstInitSensor(device) PROVE BusInv'
  <2>1. PollOK(poll')
    BY <1>1, SetupIsOK DEF Bus!FirstInitSensor
  <2>. QED  BY <1>1, <2>1 DEF Bus!FirstInitSensor
<1>2. CASE Bus!PollData
  <2>1. PollOK(poll')
    BY <1>2, ReadIsOK DEF Bus!PollData, Bus!Devices
  <2>. QED  BY <1>2, <2>1 DEF Bus!PollData
<1>3. CASE Bus!PollMagData
  <2>1. PollOK(poll')
    BY <1>3, ReadIsOK DEF Bus!PollMagData, Bus!Devices
  <2>. QED  BY <1>3, <2>1 DEF Bus!PollMagData
<1>4. CASE Bus!PollDataChecks
  <2>1. bus' = bus \/ bus' = Bus!ForceReset(Bus!Quiet(bus))
    BY <1>4 DEF Bus!PollDataChecks
  <2>2. BusOK(bus')
    BY <1>0, <2>1, ResetIsOK
  <2>3. poll' = NULL \/ PollOK(poll')
    BY <1>4, SetupIsOK DEF Bus!PollDataChecks, Bus!Devices
  <2>4. ready' = ready /\ ct' \in 0 .. Patience
    BY <1>4, BusAssumption DEF Bus!PollDataChecks
  <2>. QED  BY <2>2, <2>3, <2>4
<1>5. CASE Bus!TransactPut
  <2>1. poll \in Client /\ poll.todo # <<>> /\ UNCHANGED <<ready, ct>>
    BY <1>5 DEF Bus!TransactPut, PollOK
  <2>2. Head(poll.todo) \in Bus!Transaction
    BY <2>1 DEF Client
  <2>3. BusOK(bus')
    <3> DEFINE b == Bus!Quiet(bus)
               c == [b EXCEPT !.jobs = Append(@, Head(poll.todo))]
    <3>1. bus' = b \/ (Len(bus.jobs) < TransactionQueue /\ bus' = c)
      <4>1. Bus!HasRoom(bus) => bus' = c
        BY <1>5 DEF Bus!TransactPut
      <4>2. ~Bus!HasRoom(bus) => bus' = b
        BY <1>5 DEF Bus!TransactPut
      <4>3. Bus!HasRoom(bus) <=> Len(bus.jobs) < TransactionQueue
        BY DEF Bus!HasRoom
      <4> HIDE DEF b, c
      <4>. QED  BY <4>1, <4>2, <4>3
    <3>2. b.jobs = bus.jobs
      BY DEF Bus!Quiet, BusOK, BusRecord
    <3> HIDE DEF b
    <3>3. ASSUME Len(bus.jobs) < TransactionQueue PROVE BusOK(c)
      <4>1. b.jobs \in Seq(Bus!Transaction)
        BY <1>0 DEF BusOK, BusRecord, b
      <4>2. /\ Append(b.jobs, Head(poll.todo)) \in Seq(Bus!Transaction)
            /\ Len(Append(b.jobs, Head(poll.todo))) <= TransactionQueue
        BY <2>2, <3>2, <3>3, <4>1, BusAssumption
      <4>. QED  BY <1>0, <4>2 DEF BusOK, BusRecord, b
    <3>. QED  BY <1>0, <3>1, <3>3 DEF b
  <2>4. PollOK(poll')
    <3>1. PICK room \in BOOLEAN : poll' = [poll EXCEPT !.put = TRUE, !.success = room]
      <4>1. Bus!HasRoom(bus) \in BOOLEAN
        BY DEF Bus!HasRoom
      <4>. QED  BY <1>5, <4>1 DEF Bus!TransactPut
    <3>. QED  BY <2>1, <3>1 DEF Client, PollOK
  <2>. QED  BY <2>1, <2>3, <2>4
<1>6. CASE Bus!TransactTrigger
  <2>1. BusOK(bus')
    BY <1>0, <1>6, TriggeredIsOK DEF Bus!TransactTrigger
  <2>2. poll' = NULL \/ PollOK(poll')
    <3>1. poll \in Client /\ poll.todo # <<>>
      BY <1>6 DEF Bus!TransactTrigger, PollOK
    <3>2. Tail(poll.todo) \in Seq(Bus!Transaction)
      BY <3>1 DEF Client
    <3>3. poll' = NULL \/ poll' = [poll EXCEPT !.put = FALSE, !.todo = Tail(poll.todo)]
      BY <1>6 DEF Bus!TransactTrigger
    <3>. QED  BY <3>1, <3>2, <3>3 DEF Client, PollOK
  <2>. QED  BY <1>6, <2>1, <2>2 DEF Bus!TransactTrigger
<1>7. CASE Bus!EvIsr
  <2>1. PICK status \in BOOLEAN, af \in BOOLEAN :
          bus' = Bus!Triggered(Bus!Handled(Bus!Quiet(bus), status, af))
    BY <1>7 DEF Bus!EvIsr
  <2>. QED  BY <1>0, <1>7, <2>1, HandledIsOK, TriggeredIsOK DEF Bus!EvIsr
<1>8. CASE Bus!ErIsr
  BY <1>0, <1>8, EndedIsOK, ResetIsOK, TriggeredIsOK DEF Bus!ErIsr
<1>9. CASE UNCHANGED i2c
  BY <1>9 DEF i2c
<1>. QED
  BY <1>1, <1>2, <1>3, <1>4, <1>5, <1>6, <1>7, <1>8, <1>9 DEF Bus!Next

\* A transaction that was begun ends before the next one begins, and a read that is
\* done has all of its bytes, whatever the length of the queue and the patience of
\* the poll (i2c_1.c, i2c_sensors.c).
THEOREM TransactionsAllEnd == Spec => []TransactionsEnd
<1> DEFINE I == part = "i2c" => BusInv
<1>1. Init => I
  BY BusStarts DEF Init
<1>2. I /\ [Next]_partVars => I'
  BY PartSteps, BusGoesOn
<1>3. I => TransactionsEnd
  BY DEF TransactionsEnd, Bus!TransactionsEnd, BusInv, BusOK
<1>. QED  BY <1>1, <1>2, <1>3, PTL DEF Spec, partVars

-----------------------------------------------------------------------------
\* The flash holds what was to be saved, or the beginning of it if a restart has
\* cut off the writing; P2 begins with what it finds there.
Calibrated ==
  /\ saved \in Imu!Calibrations
  /\ sector.data = saved /\ sector.written \in 0 .. Imu!Whole
  /\ sector = [data |-> sector.data, written |-> sector.written]
  /\ saving \in BOOLEAN /\ (at = "reset" => ~saving)
  /\ ~saving => \/ cut
                \/ sector.written = Imu!Whole
                \/ at = "reset" /\ sector.written = 0 /\ saved = Imu!Default
  /\ ram \in Imu!Calibrations
  /\ at = "configured" => \/ Imu!Found /\ ~saving /\ ram = Imu!Recorded
                          \/ ram = Imu!Default /\ saved = Imu!Default

\* There is a number in a record that is not whole, and it is not one.
LEMMA HalfARecord ==
  ASSUME saved \in Imu!Calibrations, sector.data = saved, sector.written \in 0 .. Imu!Whole
  PROVE  /\ sector.written = Imu!Whole => Imu!Recorded = saved
         /\ sector.written # Imu!Whole => \E f \in 1 .. Imu!Count : Imu!IsNaN(Imu!Recorded[f])
         /\ Imu!Recorded \in Imu!Calibrations
<1>1. Imu!Count = 4 /\ Imu!Whole = 10
  BY DEF Imu!Count, Imu!Whole
<1>2. ASSUME sector.written = Imu!Whole PROVE Imu!Recorded = saved
  BY <1>1, <1>2 DEF Imu!Recorded, Imu!Calibrations
<1>3. ASSUME sector.written # Imu!Whole PROVE Imu!IsNaN(Imu!Recorded[4])
  BY <1>1, <1>3 DEF Imu!Recorded, Imu!IsNaN
<1>4. Imu!Recorded \in Imu!Calibrations
  BY <1>1 DEF Imu!Recorded, Imu!Calibrations, Imu!Odd
<1>. QED  BY <1>1, <1>2, <1>3, <1>4

\* The default calibrations are a record of numbers.
LEMMA DefaultIsNumbers ==
  /\ Imu!Default \in Imu!Calibrations
  /\ \A f \in 1 .. Imu!Count : ~Imu!IsNaN(Imu!Default[f])
  BY CalibrationAssumption DEF Imu!Default, Imu!Calibrations, Imu!IsNaN, Imu!Count

\* A save begins, with calibrations that differ from those in the flash.
LEMMA SaveBegins ==
  ASSUME Calibrated, NEW c \in Imu!Calibrations, Imu!Update(c), ~saving,
         at' = "running" \/ (at' = "configured" /\ c = Imu!Current), at' = "running" => at = "running"
  PROVE  Calibrated'
<1>1. ram' = c
  BY DEF Imu!Update
<1>2. CASE Imu!NeedsUpdate(c)
  <2>1. /\ saving' = TRUE /\ saved' = c /\ cut' = FALSE
        /\ sector' = [data |-> c, written |-> 0]
    BY <1>2 DEF Imu!Update, Imu!EraseSector
  <2>2. 0 \in 0 .. Imu!Whole
    BY DEF Imu!Whole, Imu!Count
  <2>3. at' = "configured" => c = Imu!Default
    BY <1>2 DEF Imu!NeedsUpdate, Imu!Current
  <2>. QED  BY <1>1, <2>1, <2>2, <2>3 DEF Calibrated, Imu!Calibrations, Imu!Count
<1>3. CASE ~Imu!NeedsUpdate(c)
  <2>1. UNCHANGED <<saving, sector, saved, cut>>
    BY <1>3 DEF Imu!Update
  <2>2. Imu!Found /\ Imu!Recorded = c
    BY <1>3 DEF Imu!NeedsUpdate
  <2>3. Imu!Found' /\ Imu!Recorded' = c
    BY <2>1, <2>2 DEF Imu!Found, Imu!Recorded
  <2>4. cut \/ sector.written = Imu!Whole
    BY <2>2 DEF Calibrated, Imu!Found
  <2>. QED  BY <1>1, <2>1, <2>3, <2>4 DEF Calibrated, Imu!Calibrations, Imu!Count, Imu!Whole
<1>. QED  BY <1>2, <1>3

\* P2 leaves the factory with the defaults in its memory and in its flash.
LEMMA CalibratedAtFirst == Imu!Init => Calibrated
<1> SUFFICES ASSUME Imu!Init PROVE Calibrated
  OBVIOUS
<1>1. /\ ram = Imu!Default /\ saved = Imu!Default /\ at = "reset" /\ saving = FALSE
      /\ sector = [data |-> Imu!Default, written |-> 0]
  BY DEF Imu!Init
<1>2. 0 \in 0 .. Imu!Whole
  BY DEF Imu!Whole, Imu!Count
<1>. QED  BY <1>1, <1>2, DefaultIsNumbers DEF Calibrated

\* Learning, saving, cutting a save off and starting again leave it so.
LEMMA StaysCalibrated == Calibrated /\ [Imu!Next]_calibration => Calibrated'
<1> SUFFICES ASSUME Calibrated, [Imu!Next]_calibration PROVE Calibrated'
  OBVIOUS
<1>0. \A f \in {"gyro", "mag", "offset", "R"}, value \in CalibrationValues \cup Imu!Odd :
        Imu!With(f, value) \in Imu!Calibrations
  BY DEF Imu!With, Imu!Calibrations, Calibrated
<1>a. "default" \in CalibrationValues /\ {"sum", "quotient"} \subseteq Imu!Odd
  BY CalibrationAssumption DEF Imu!Odd
<1>b. ASSUME UNCHANGED <<sector, at, saving, saved, cut>>, at = "running",
             ram' \in Imu!Calibrations
      PROVE  Calibrated'
  BY <1>b DEF Calibrated, Imu!Calibrations, Imu!Whole, Imu!Count
<1>1. CASE Imu!ConfigurationInit
  <2>1. Imu!Current \in Imu!Calibrations
    BY HalfARecord, DefaultIsNumbers DEF Imu!Current, Calibrated
  <2>. QED  BY <1>1, <2>1, SaveBegins DEF Imu!ConfigurationInit, Calibrated
<1>2. CASE Imu!LoadDefaultValues
  <2>1. ram' \in Imu!Calibrations /\ at' = "running"
    BY <1>2, DefaultIsNumbers DEF Imu!LoadDefaultValues, Calibrated
  <2>2. UNCHANGED <<sector, saving, saved, cut>> /\ at = "configured"
    BY <1>2 DEF Imu!LoadDefaultValues
  <2>. QED  BY <2>1, <2>2 DEF Calibrated, Imu!Calibrations, Imu!Whole, Imu!Count
<1>3. CASE Imu!WriteWordsToFlash
  <2>1. saving /\ at # "reset" /\ UNCHANGED <<ram, at, saved, cut>>
    BY <1>3 DEF Imu!WriteWordsToFlash, Calibrated
  <2>2. at = "configured" => ram = Imu!Default /\ saved = Imu!Default
    BY <2>1 DEF Calibrated
  <2>3. CASE sector.written < Imu!Whole
    <3>1. /\ sector' = [data |-> sector.data, written |-> sector.written + 1]
          /\ saving' = saving
      BY <1>3, <2>3 DEF Imu!WriteWordsToFlash, Imu!ProgramHalfWord, Calibrated
    <3>2. sector.written + 1 \in 0 .. Imu!Whole
      BY <2>3 DEF Calibrated, Imu!Whole, Imu!Count
    <3>. QED  BY <2>1, <2>2, <3>1, <3>2 DEF Calibrated, Imu!Calibrations, Imu!Whole, Imu!Count, Imu!Default
  <2>4. CASE ~(sector.written < Imu!Whole)
    <3>1. sector' = sector /\ saving' = FALSE
      BY <1>3, <2>4 DEF Imu!WriteWordsToFlash
    <3>2. sector.written = Imu!Whole
      BY <2>4 DEF Calibrated, Imu!Whole, Imu!Count
    <3>. QED  BY <2>1, <2>2, <3>1, <3>2 DEF Calibrated, Imu!Calibrations, Imu!Whole, Imu!Count, Imu!Default
  <2>. QED  BY <2>3, <2>4
<1>4. CASE Imu!Restart
  <2>1. /\ at' = "reset" /\ saving' = FALSE /\ ram' = Imu!Default /\ UNCHANGED <<sector, saved>>
        /\ cut' = (cut \/ (saving /\ sector.written < Imu!Whole))
    BY <1>4 DEF Imu!Restart
  <2>2. \/ cut' \/ sector.written = Imu!Whole
        \/ sector.written = 0 /\ saved = Imu!Default
    <3>1. CASE saving /\ sector.written < Imu!Whole
      BY <2>1, <3>1
    <3>2. CASE saving /\ ~(sector.written < Imu!Whole)
      BY <3>2 DEF Calibrated, Imu!Whole, Imu!Count
    <3>3. CASE ~saving
      BY <2>1, <3>3 DEF Calibrated
    <3>. QED  BY <3>1, <3>2, <3>3
  <2>. QED  BY <2>1, <2>2, DefaultIsNumbers DEF Calibrated, Imu!Calibrations, Imu!Whole, Imu!Count, Imu!Default
<1>5. CASE Imu!StartGyroCalibration
  BY <1>0, <1>5, <1>a, <1>b DEF Imu!StartGyroCalibration, Imu!Running, Imu!Kept
<1>6. CASE Imu!RunGyroCalibration
  BY <1>0, <1>6, <1>a, <1>b DEF Imu!RunGyroCalibration, Imu!Running, Imu!Kept
<1>7. CASE Imu!SetMagCalibration(1) \/ Imu!SetMagCalibration(0)
  BY <1>7, <1>b DEF Imu!SetMagCalibration, Imu!Running, Imu!Kept, Calibrated
<1>8. ASSUME NEW value \in CalibrationValues,
             Imu!RunMagCalibration(value) \/ Imu!StartOffsetCalibration(value)
               \/ Imu!RunOffsetCalibration(value)
      PROVE  Calibrated'
  BY <1>0, <1>8, <1>b DEF Imu!RunMagCalibration, Imu!StartOffsetCalibration,
       Imu!RunOffsetCalibration, Imu!Running, Imu!Kept
<1>9. ASSUME NEW value \in CalibrationValues,
             Imu!StopGyroCalibration(value) \/ Imu!StopOffsetCalibration(value)
               \/ Imu!SetParameters(value)
      PROVE  Calibrated'
  <2>1. at = "running" /\ at' = at /\ ~saving
    BY <1>9 DEF Imu!StopGyroCalibration, Imu!StopOffsetCalibration, Imu!SetParameters, Imu!Running
  <2>2. PICK c \in Imu!Calibrations : Imu!Update(c)
    <3>1. CASE Imu!StopGyroCalibration(value)
      <4> DEFINE v == IF gyro = "sampled" THEN value ELSE "quotient"
      <4>1. v \in CalibrationValues \cup Imu!Odd
        BY <1>a
      <4>2. Imu!With("gyro", v) \in Imu!Calibrations
        BY <1>0, <4>1
      <4>. QED  BY <3>1, <4>2 DEF Imu!StopGyroCalibration
    <3>2. CASE Imu!StopOffsetCalibration(value) \/ Imu!SetParameters(value)
      BY <1>0, <3>2 DEF Imu!StopOffsetCalibration, Imu!SetParameters
    <3>. QED  BY <1>9, <3>1, <3>2
  <2>. QED  BY <2>1, <2>2, SaveBegins
<1>10. CASE UNCHANGED calibration
  BY <1>10 DEF calibration, Calibrated, Imu!Calibrations, Imu!Whole, Imu!Count, Imu!Found, Imu!Recorded, Imu!Default
<1>. QED  BY <1>1, <1>2, <1>3, <1>4, <1>5, <1>6, <1>7, <1>8, <1>9, <1>10 DEF Imu!Next

\* Whatever step of a save a restart cuts off, P2 comes up with calibrations that
\* belong together and are numbers, whatever numbers the calibrations come to.
THEOREM RestartsFindCalibrations == Spec => CalibrationsAreWhole
<1> DEFINE I == part = "calibration" => Calibrated
           A == \/ ram' = Imu!Default /\ (cut \/ \E f \in 1 .. Imu!Count : Imu!IsNaN(saved[f]))
                \/ ram' = saved /\ \A f \in 1 .. Imu!Count : ~Imu!IsNaN(saved[f])
<1>1. Init => I
  BY CalibratedAtFirst DEF Init
<1>2. I /\ [Next]_partVars => I'
  BY PartSteps, StaysCalibrated
<1>3. I /\ [Next]_partVars => [Imu!LoadDefaultValues => A]_(Imu!vars)
  <2>1. CASE part = "calibration" /\ Calibrated /\ Imu!LoadDefaultValues
    <3>1. /\ at = "configured" /\ ~saving
          /\ ram' = IF \E f \in 1 .. Imu!Count : Imu!IsNaN(ram[f]) THEN Imu!Default ELSE ram
      BY <2>1 DEF Imu!LoadDefaultValues
    <3>2. CASE Imu!Found /\ ram = Imu!Recorded
      <4>1. CASE sector.written = Imu!Whole
        BY <2>1, <3>1, <3>2, <4>1, HalfARecord DEF Calibrated
      <4>2. CASE sector.written # Imu!Whole
        BY <2>1, <3>1, <3>2, <4>2, HalfARecord DEF Calibrated
      <4>. QED  BY <4>1, <4>2
    <3>3. CASE ram = Imu!Default /\ saved = Imu!Default
      BY <3>1, <3>3, DefaultIsNumbers
    <3>. QED  BY <2>1, <3>1, <3>2, <3>3 DEF Calibrated
  <2>2. ASSUME [Next]_partVars, part # "calibration" PROVE UNCHANGED Imu!vars
    BY <2>2 DEF Next, partVars, calibration, Imu!vars
  <2>. QED  BY <2>1, <2>2
<1>. QED  BY <1>1, <1>2, <1>3, PTL DEF Spec, partVars, CalibrationsAreWhole, Imu!CalibrationsAreWhole

-----------------------------------------------------------------------------
\* Where a theme is: how many of its notes have been sounded goes with the index
\* and with the callbacks that are left, or with the step of playTheme. (Both
\* callbacks may be registered, one of them for the theme before.)
ThemeAt ==
  /\ step.theme = NULL =>
       IF "onTimerAfterDuration" \in callbacks THEN due = g_themeIndex + 1 /\ due <= g_musicNotesCnt
       ELSE IF "playNextNote" \in callbacks THEN due = g_themeIndex /\ due <= g_musicNotesCnt
       ELSE due = g_musicNotesCnt
  /\ step.theme # NULL =>
       /\ g_themeIndex = 0
       /\ step.at \in {"ptr", "count", "check", "sound", "register"}
       /\ due = IF step.at = "register" THEN 1 ELSE 0
       /\ step.at \in {"check", "sound", "register"} => 1 <= g_musicNotesCnt

\* Whoever has made the first channel sound will silence it.
ChannelAt ==
  /\ tones[1] = "note" => "onTimerAfterDuration" \in callbacks \/ step.at = "register"
  /\ tones[1] = "alarm" => /\ "onTimer" \in callbacks \/ "alarm" \in struck
                           /\ step.at = "unregister" => "alarm" \in struck

Themes ==
  /\ g_themeIndex \in Nat /\ g_musicNotesCnt \in Nat /\ due \in Nat
  /\ step \in [at : {"idle", "ptr", "count", "check", "sound", "end", "register", "unregister"},
               theme : Music!Beeps \cup {NULL}]
  /\ step.at \in {"idle", "unregister"} => step.theme = NULL
  /\ step.at \in {"ptr", "count", "check", "sound", "end", "register"} => step.theme # NULL
  /\ tones \in [1 .. 2 -> {"none", "note", "alarm"}]
  /\ "theme" \notin struck => ThemeAt
  /\ ChannelAt

\* A theme has a note at least.
LEMMA NotesOfThemes == \A theme \in Music!Beeps : Music!Notes(theme) \in Nat \ {0}
  BY DEF Music!Beeps, Music!Notes

\* The theme of the start is played when the sound is set up.
LEMMA ThemesBegin == Music!Init => Themes
<1> SUFFICES ASSUME Music!Init PROVE Themes
  OBVIOUS
<1>1. /\ g_themeIndex = 0 /\ g_musicNotesCnt = 7 /\ due = 1 /\ tones = [c \in 1 .. 2 |-> "note"]
      /\ callbacks = {"onTimerAfterDuration"} /\ step = [at |-> "idle", theme |-> NULL]
  BY DEF Music!Init, Music!Idle, Music!Notes
<1>. QED  BY <1>1 DEF Themes, ThemeAt, ChannelAt

\* Beeps, notes and the timer's calls leave one callback to play the theme.
LEMMA ThemesGoOn == Themes /\ [Music!Next]_sound => Themes'
<1> SUFFICES ASSUME Themes, [Music!Next]_sound PROVE Themes'
  OBVIOUS
<1> USE DEF Themes, ThemeAt, ChannelAt
<1>1. CASE Music!OnTimerAfterDuration
  <2>1. /\ "onTimerAfterDuration" \in callbacks
        /\ tones' = [c \in 1 .. 2 |-> "none"]
        /\ g_themeIndex' = g_themeIndex + 1
        /\ callbacks' = (callbacks \ {"onTimerAfterDuration"}) \cup {"playNextNote"}
        /\ "theme" \notin struck' => "theme" \notin struck /\ step.theme = NULL
        /\ UNCHANGED <<g_musicNotesCnt, due, step>>
    BY <1>1 DEF Music!OnTimerAfterDuration, Music!Fires, Music!SetFreq, Music!Interrupts, Music!Rest
  <2>. QED  BY <2>1
<1>2. CASE Music!PlayNextNote
  <2>1. /\ "playNextNote" \in callbacks
        /\ "theme" \notin struck' => "theme" \notin struck /\ step.theme = NULL
        /\ "alarm" \in struck => "alarm" \in struck'
        /\ UNCHANGED <<g_musicNotesCnt, step>>
    BY <1>2 DEF Music!PlayNextNote, Music!Fires, Music!Interrupts, Music!Rest
  <2>2. CASE g_themeIndex >= g_musicNotesCnt
    <3>1. /\ g_themeIndex' = 0 /\ tones' = [c \in 1 .. 2 |-> "none"] /\ due' = due
          /\ callbacks' = callbacks \ {"playNextNote"}
      BY <1>2, <2>2 DEF Music!PlayNextNote, Music!SetFreq
    <3>. QED  BY <2>1, <2>2, <3>1
  <2>3. CASE ~(g_themeIndex >= g_musicNotesCnt)
    <3>1. /\ g_themeIndex' = g_themeIndex /\ tones' = [c \in 1 .. 2 |-> "note"]
          /\ callbacks' = (callbacks \ {"playNextNote"}) \cup {"onTimerAfterDuration"}
          /\ due' = IF g_themeIndex = due THEN due + 1 ELSE due
      BY <1>2, <2>3 DEF Music!PlayNextNote, Music!SetFreq, Music!Counted
    <3>. QED  BY <2>1, <2>3, <3>1
  <2>. QED  BY <2>2, <2>3
<1>3. CASE Music!OnTimer
  <2>1. /\ "onTimer" \in callbacks /\ tones' = [c \in 1 .. 2 |-> "alarm"]
        /\ "theme" \notin struck' => "theme" \notin struck
        /\ step.at = "unregister" => "alarm" \in struck'
        /\ UNCHANGED <<g_themeIndex, g_musicNotesCnt, callbacks, due, step>>
    BY <1>3 DEF Music!OnTimer, Music!Fires, Music!Interrupts, Music!Rest
  <2>. QED  BY <2>1
<1>4. ASSUME NEW theme \in Music!Beeps, Music!PlayTheme(theme) PROVE Themes'
  <2>1. theme # NULL
    BY SoundAssumption
  <2>2. /\ step = [at |-> "idle", theme |-> NULL] /\ step' = [at |-> "ptr", theme |-> theme]
        /\ g_themeIndex' = 0 /\ due' = 0 /\ struck' = struck \ {"theme"}
        /\ UNCHANGED <<g_musicNotesCnt, callbacks, tones>>
    BY <1>4 DEF Music!PlayTheme, Music!Idle
  <2>. QED  BY <2>1, <2>2
<1>5. CASE Music!ThemePtr
  <2>1. /\ step.at = "ptr" /\ step' = [step EXCEPT !.at = "count"]
        /\ UNCHANGED <<g_themeIndex, g_musicNotesCnt, callbacks, tones, due, struck>>
    BY <1>5 DEF Music!ThemePtr, Music!At
  <2>. QED  BY <2>1
<1>6. CASE Music!ThemeCount
  <2>1. /\ step.at = "count" /\ step' = [step EXCEPT !.at = "check"]
        /\ g_musicNotesCnt' = Music!Notes(step.theme)
        /\ UNCHANGED <<g_themeIndex, callbacks, tones, due, struck>>
    BY <1>6 DEF Music!ThemeCount, Music!At
  <2>2. g_musicNotesCnt' \in Nat \ {0}
    BY <2>1, NotesOfThemes
  <2>. QED  BY <2>1, <2>2
<1>7. CASE Music!CheckIndex
  <2>1. /\ step.at = "check"
        /\ step' = [step EXCEPT !.at = IF g_themeIndex >= g_musicNotesCnt THEN "end" ELSE "sound"]
        /\ g_themeIndex' = IF g_themeIndex >= g_musicNotesCnt THEN 0 ELSE g_themeIndex
        /\ UNCHANGED <<g_musicNotesCnt, callbacks, tones, due, struck>>
    BY <1>7 DEF Music!CheckIndex, Music!At
  <2>2. CASE g_themeIndex >= g_musicNotesCnt
    <3>1. step' = [step EXCEPT !.at = "end"] /\ g_themeIndex' = 0
      BY <2>1, <2>2
    <3>2. "theme" \in struck
      BY <2>1, <2>2
    <3>. QED  BY <2>1, <3>1, <3>2
  <2>3. CASE ~(g_themeIndex >= g_musicNotesCnt)
    <3>1. step' = [step EXCEPT !.at = "sound"] /\ g_themeIndex' = g_themeIndex
      BY <2>1, <2>3
    <3>. QED  BY <2>1, <3>1
  <2>. QED  BY <2>2, <2>3
<1>8. CASE Music!EndTheme
  <2>1. /\ step.at = "end" /\ step' = [at |-> "idle", theme |-> NULL]
        /\ tones' = [c \in 1 .. 2 |-> "none"]
        /\ UNCHANGED <<g_themeIndex, g_musicNotesCnt, callbacks, due, struck>>
    BY <1>8 DEF Music!EndTheme, Music!At, Music!SetFreq, Music!Idle
  <2>2. "theme" \in struck
    BY <2>1
  <2>. QED  BY <2>1, <2>2
<1>9. CASE Music!SoundNote
  <2>1. /\ step.at = "sound" /\ step' = [step EXCEPT !.at = "register"]
        /\ tones' = [c \in 1 .. 2 |-> "note"]
        /\ due' = IF g_themeIndex = due THEN due + 1 ELSE due
        /\ UNCHANGED <<g_themeIndex, g_musicNotesCnt, callbacks, struck>>
    BY <1>9 DEF Music!SoundNote, Music!At, Music!SetFreq, Music!Counted
  <2>. QED  BY <2>1
<1>10. CASE Music!RegisterOff
  <2>1. /\ step.at = "register" /\ step' = [at |-> "idle", theme |-> NULL]
        /\ callbacks' = callbacks \cup {"onTimerAfterDuration"}
        /\ UNCHANGED <<g_themeIndex, g_musicNotesCnt, tones, due, struck>>
    BY <1>10 DEF Music!RegisterOff, Music!At, Music!Register, Music!Idle
  <2>. QED  BY <2>1
<1>11. CASE Music!OnLowVoltage
  <2>1. /\ step = [at |-> "idle", theme |-> NULL]
        /\ callbacks' = callbacks \cup {"onTimer"}
        /\ UNCHANGED <<g_themeIndex, g_musicNotesCnt, tones, step, due, struck>>
    BY <1>11 DEF Music!OnLowVoltage, Music!Register, Music!Idle
  <2>. QED  BY <2>1
<1>12. CASE Music!OnGoodVoltage
  <2>1. /\ step = [at |-> "idle", theme |-> NULL]
        /\ step' = [step EXCEPT !.at = "unregister"]
        /\ tones' = [tones EXCEPT ![1] = "none"]
        /\ struck' = struck \ {"alarm"}
        /\ UNCHANGED <<g_themeIndex, g_musicNotesCnt, callbacks, due>>
    BY <1>12 DEF Music!OnGoodVoltage, Music!Idle
  <2>2. /\ step' = [at |-> "unregister", theme |-> NULL]
        /\ tones' \in [1 .. 2 -> {"none", "note", "alarm"}] /\ tones'[1] = "none"
    BY <2>1
  <2>. QED  BY <2>1, <2>2
<1>13. CASE Music!Unregister
  <2>1. /\ step.at = "unregister" /\ step' = [at |-> "idle", theme |-> NULL]
        /\ callbacks' = callbacks \ {"onTimer"}
        /\ UNCHANGED <<g_themeIndex, g_musicNotesCnt, tones, due, struck>>
    BY <1>13 DEF Music!Unregister, Music!At, Music!Idle
  <2>. QED  BY <2>1
<1>14. CASE UNCHANGED sound
  BY <1>14 DEF sound
<1>. QED  BY <1>1, <1>2, <1>3, <1>4, <1>5, <1>6, <1>7, <1>8, <1>9, <1>10, <1>11, <1>12,
             <1>13, <1>14 DEF Music!Next

\* A theme is played to its last note and leaves the channel silent, whatever it
\* has cut short: of the callbacks that play it, one is left until the last note
\* has been sounded.
THEOREM ThemesEnd == Spec => []ThemesAreWhole
<1> DEFINE I == part = "sound" => Themes
<1>1. Init => I
  BY ThemesBegin DEF Init
<1>2. I /\ [Next]_partVars => I'
  BY PartSteps, ThemesGoOn
<1>3. I => ThemesAreWhole
  <2> SUFFICES ASSUME Themes, callbacks = {}, step = [at |-> "idle", theme |-> NULL]
               PROVE  /\ "theme" \notin struck => due = g_musicNotesCnt
                      /\ "alarm" \notin struck => tones[1] = "none"
    BY DEF ThemesAreWhole, Music!ThemesAreWhole, Music!Idle
  <2>. QED  BY DEF Themes, ThemeAt, ChannelAt
<1>. QED  BY <1>1, <1>2, <1>3, PTL DEF Spec, partVars

-----------------------------------------------------------------------------
\* While no old mask has been written back: who listens and is not set up can be
\* heard unless an evaluation is to come, and what is believed of a button is
\* true, will be by what the evaluation has read, or will be asked for again.
Heard ==
  \A b \in UserButtons : Keys!Listening(b) /\ setup.button # b /\ ~evaluationDue /\ portRead = NULL
                           => Keys!Ear(b) \subseteq imr

Believed ==
  \A b \in UserButtons \ missed : Keys!Listening(b) /\ ~evaluationDue =>
    /\ portRead = NULL => (b \in states <=> b \in pressed)
    /\ portRead # NULL => (b \in portRead <=> b \in pressed)

SetupOK ==
  /\ setup = [at |-> setup.at, button |-> setup.button, config |-> setup.config, mask |-> setup.mask]
  /\ setup.config \in Keys!Configs
  /\ setup.at = "done" => setup = Keys!Done
  /\ setup.at # "done" => setup.button \in missed /\ setup.button \in UserButtons
  /\ setup.at \in {"ear", "ear_written"} => configs[setup.button] = setup.config

ButtonsInv ==
  /\ configs \in [UserButtons -> Keys!Configs]
  /\ masked \in BOOLEAN /\ evaluationDue \in BOOLEAN
  /\ pressed \subseteq UserButtons
  /\ SetupOK
  /\ ~masked => Heard /\ Believed

\* A listening button has an ear, which is one of its own pins.
LEMMA Ears ==
  ASSUME NEW b, NEW config
  PROVE  /\ config \in {"LED_ON_LISTENING", "LED_OFF_LISTENING"} => Keys!EarOf(b, config) # {}
         /\ Keys!EarOf(b, config) \subseteq Keys!PinsOf(b)
         /\ config = "OFF" => Keys!EarOf(b, config) = {}
<1>1. CASE config = "LED_ON_LISTENING"
  <2>1. <<b, "K">> \in Keys!EarOf(b, config) /\ Keys!EarOf(b, config) \subseteq {<<b, "K">>}
    BY <1>1 DEF Keys!EarOf
  <2>. QED  BY <1>1, <2>1 DEF Keys!PinsOf
<1>2. CASE config = "LED_OFF_LISTENING"
  <2>1. <<b, "A">> \in Keys!EarOf(b, config) /\ Keys!EarOf(b, config) \subseteq {<<b, "A">>}
    BY <1>2 DEF Keys!EarOf
  <2>. QED  BY <1>2, <2>1 DEF Keys!PinsOf
<1>3. CASE config \notin {"LED_ON_LISTENING", "LED_OFF_LISTENING"}
  <2>1. Keys!EarOf(b, config) = {}
    BY <1>3 DEF Keys!EarOf
  <2>. QED  BY <1>3, <2>1
<1>. QED  BY <1>1, <1>2, <1>3

\* At first every button listens, none is pressed and all are unmasked.
LEMMA ButtonsBegin == Keys!Init => ButtonsInv
<1> SUFFICES ASSUME Keys!Init PROVE ButtonsInv
  OBVIOUS
<1>1. /\ configs = [b \in UserButtons |-> "LED_ON_LISTENING"] /\ pressed = {} /\ states = {}
      /\ imr = UNION {Keys!EarOf(b, "LED_ON_LISTENING") : b \in UserButtons}
      /\ setup = Keys!Done /\ evaluationDue = FALSE /\ portRead = NULL /\ masked = FALSE
  BY DEF Keys!Init
<1>2. SetupOK
  BY <1>1 DEF SetupOK, Keys!Done, Keys!Configs
<1>3. Heard /\ Believed
  BY <1>1 DEF Heard, Believed, Keys!Ear
<1>. QED  BY <1>1, <1>2, <1>3 DEF ButtonsInv, Keys!Configs

\* An edge of a button: it is heard, or it is the one whose setup misses it, or an
\* evaluation comes.
LEMMA EdgesAreHeard ==
  ASSUME ButtonsInv, ~masked, NEW b \in UserButtons, Keys!Edge(b)
  PROVE  ButtonsInv'
<1>1. /\ UNCHANGED <<configs, states, portRead, setup, masked>>
      /\ \A c : c # b => (c \in pressed' <=> c \in pressed) /\ (c \in missed' <=> c \in missed)
  BY DEF Keys!Edge
<1>2. evaluationDue' \in BOOLEAN /\ (evaluationDue => evaluationDue')
  BY DEF Keys!Edge, Keys!OnButtonPressed, ButtonsInv
<1>3. setup.button = b => b \in missed'
  BY DEF Keys!Edge
<1>4. SetupOK'
  BY <1>1, <1>3 DEF SetupOK, ButtonsInv
<1>5. ~evaluationDue' => imr' = imr /\ imr \cap Keys!PinsOf(b) = {}
  BY DEF Keys!Edge, Keys!OnButtonPressed
<1>6. Heard'
  BY <1>1, <1>2, <1>5 DEF Heard, ButtonsInv, Keys!Listening, Keys!Ear
<1>7. ASSUME ~evaluationDue', b \notin missed', Keys!Listening(b) PROVE FALSE
  <2>1. /\ imr \cap Keys!PinsOf(b) = {} /\ ~evaluationDue
    BY <1>2, <1>5, <1>7
  <2>2. imr \cap Keys!Ear(b) = {} /\ Keys!Ear(b) # {}
    <3>1. configs[b] \in {"LED_ON_LISTENING", "LED_OFF_LISTENING"}
      BY <1>7 DEF ButtonsInv, Keys!Configs, Keys!Listening
    <3>. QED  BY <2>1, <3>1, Ears DEF Keys!Ear
  <2>3. setup.button # b /\ portRead = NULL
    BY <1>7, <2>1, <2>2 DEF Keys!Edge
  <2>4. Keys!Ear(b) \subseteq imr
    BY <1>7, <2>1, <2>3 DEF ButtonsInv, Heard
  <2>. QED  BY <2>2, <2>4
<1>8. Believed'
  <2> SUFFICES ASSUME NEW c \in UserButtons, c \notin missed', Keys!Listening(c), ~evaluationDue'
               PROVE  /\ portRead = NULL => (c \in states <=> c \in pressed')
                      /\ portRead # NULL => (c \in portRead <=> c \in pressed')
    BY <1>1 DEF Believed, Keys!Listening
  <2>1. c # b
    BY <1>7
  <2>. QED  BY <1>1, <1>2, <2>1 DEF ButtonsInv, Believed
<1>. QED  BY <1>1, <1>2, <1>4, <1>6, <1>8 DEF ButtonsInv

\* The evaluation that reads the port and the one that tells of it
LEMMA EvaluationTells ==
  ASSUME ButtonsInv, ~masked, Keys!EvaluationReads \/ Keys!ButtonEvaluation
  PROVE  ButtonsInv'
<1>1. CASE Keys!EvaluationReads
  <2>1. /\ evaluationDue' = FALSE /\ portRead' = pressed
        /\ UNCHANGED <<configs, pressed, states, imr, setup, missed, masked>>
    BY <1>1 DEF Keys!EvaluationReads
  <2>2. SetupOK'
    BY <2>1 DEF SetupOK, ButtonsInv
  <2>3. portRead' # NULL
    BY <2>1, ButtonsAssumption DEF ButtonsInv
  <2>. QED  BY <2>1, <2>2, <2>3 DEF ButtonsInv, Heard, Believed, Keys!Listening
<1>2. CASE Keys!ButtonEvaluation
  <2>1. /\ portRead # NULL /\ portRead' = NULL
        /\ states' = (states \ Keys!ListeningNow) \cup (portRead \cap Keys!ListeningNow)
        /\ imr' = imr \cup UNION {Keys!Ear(b) : b \in Keys!ListeningNow}
        /\ UNCHANGED <<configs, pressed, evaluationDue, setup, missed, masked>>
    BY <1>2 DEF Keys!ButtonEvaluation
  <2>2. SetupOK'
    BY <2>1 DEF SetupOK, ButtonsInv
  <2>3. \A b \in UserButtons : Keys!Listening(b) => b \in Keys!ListeningNow /\ Keys!Ear(b) \subseteq imr'
    BY <2>1 DEF Keys!ListeningNow
  <2>4. Heard'
    BY <2>1, <2>3 DEF Heard, Keys!Listening, Keys!Ear
  <2>5. Believed'
    BY <2>1, <2>3 DEF Believed, ButtonsInv, Keys!Listening
  <2>. QED  BY <2>1, <2>2, <2>4, <2>5 DEF ButtonsInv
<1>. QED  BY <1>1, <1>2

\* A mask is written back: it has the ears of the others, or it was an old one.
LEMMA MasksAreWritten ==
  ASSUME ButtonsInv, ~masked, NEW mask, Keys!WriteMask(mask), UNCHANGED configs,
         portRead = NULL, setup.at # "done", SetupOK',
         \A b \in UserButtons : \A p : <<b, p>> \in setup.mask /\ b # setup.button => <<b, p>> \in mask,
         \/ setup'.button = setup.button
         \/ Keys!EarOf(setup.button, configs[setup.button]) \subseteq mask
  PROVE  ButtonsInv'
<1>1. /\ imr' = mask /\ UNCHANGED <<configs, pressed, states, evaluationDue, portRead, missed>>
      /\ masked' \in BOOLEAN /\ (~masked' => imr \subseteq setup.mask)
  BY DEF Keys!WriteMask
<1>2. ASSUME ~masked' PROVE Heard'
  <2> SUFFICES ASSUME NEW b \in UserButtons, Keys!Listening(b), setup'.button # b, ~evaluationDue
               PROVE  Keys!Ear(b) \subseteq mask
    BY <1>1 DEF Heard, Keys!Listening, Keys!Ear
  <2>1. CASE setup.button = b
    BY <2>1 DEF Keys!Ear
  <2>2. CASE setup.button # b
    <3>1. Keys!Ear(b) \subseteq setup.mask
      BY <1>1, <1>2, <2>2 DEF ButtonsInv, Heard
    <3>. QED  BY <2>2, <3>1 DEF Keys!Ear, Keys!EarOf
  <2>. QED  BY <2>1, <2>2
<1>3. Believed'
  BY <1>1 DEF Believed, ButtonsInv, Keys!Listening
<1>. QED  BY <1>1, <1>2, <1>3 DEF ButtonsInv

\* The setup of a button, in its two steps, which an interrupt may come between
LEMMA SetupGoesOn ==
  ASSUME ButtonsInv, ~masked, Keys!Setup
  PROVE  ButtonsInv'
<1>1. ASSUME NEW b \in Adjusted, NEW config \in Keys!Configs, Keys!SetupButton(b, config)
      PROVE  ButtonsInv'
  <2>1. /\ portRead = NULL /\ setup = Keys!Done
        /\ setup' = [at |-> "A", button |-> b, config |-> config, mask |-> {}]
        /\ missed' = missed \cup {b}
        /\ UNCHANGED <<configs, pressed, states, imr, evaluationDue, portRead, masked>>
    BY <1>1 DEF Keys!SetupButton
  <2>2. SetupOK'
    BY <2>1, ButtonsAssumption DEF SetupOK
  <2>3. \A c \in UserButtons : setup.button # c
    BY <2>1, ButtonsAssumption DEF Keys!Done
  <2>. QED  BY <2>1, <2>2, <2>3 DEF ButtonsInv, Heard, Believed, Keys!Listening, Keys!Ear
<1>2. CASE Keys!ReadMask
  <2>1. /\ setup.at \in {"A", "K", "ear"}
        /\ setup' = [setup EXCEPT !.at = Keys!Written(setup.at), !.mask = imr]
        /\ UNCHANGED <<configs, pressed, states, imr, evaluationDue, portRead, missed, masked>>
    BY <1>2 DEF Keys!ReadMask
  <2>2. /\ setup' = [at |-> Keys!Written(setup.at), button |-> setup.button,
                     config |-> setup.config, mask |-> imr]
        /\ Keys!Written(setup.at) # "done"
        /\ Keys!Written(setup.at) \in {"ear", "ear_written"} => setup.at = "ear"
    BY <2>1 DEF ButtonsInv, SetupOK, Keys!Written
  <2>3. SetupOK'
    BY <2>1, <2>2 DEF ButtonsInv, SetupOK
  <2>. QED  BY <2>1, <2>2, <2>3 DEF ButtonsInv, Heard, Believed, Keys!Listening, Keys!Ear
<1>3. CASE Keys!DisableA
  <2>1. /\ portRead = NULL /\ setup.at = "A_written" /\ UNCHANGED configs
        /\ setup' = [setup EXCEPT !.at = "K", !.mask = {}]
        /\ Keys!WriteMask(setup.mask \ {<<setup.button, "A">>})
    BY <1>3 DEF Keys!DisableA, Keys!Main
  <2>2. setup' = [at |-> "K", button |-> setup.button, config |-> setup.config, mask |-> {}]
    BY <2>1 DEF ButtonsInv, SetupOK
  <2>3. SetupOK'
    BY <2>1, <2>2 DEF ButtonsInv, SetupOK, Keys!WriteMask
  <2>. QED  BY <2>1, <2>2, <2>3, MasksAreWritten
<1>4. CASE Keys!DisableK
  <2>1. /\ portRead = NULL /\ setup.at = "K_written" /\ UNCHANGED configs
        /\ setup' = [setup EXCEPT !.at = "config", !.mask = {}]
        /\ Keys!WriteMask(setup.mask \ {<<setup.button, "K">>})
    BY <1>4 DEF Keys!DisableK, Keys!Main
  <2>2. setup' = [at |-> "config", button |-> setup.button, config |-> setup.config, mask |-> {}]
    BY <2>1 DEF ButtonsInv, SetupOK
  <2>3. SetupOK'
    BY <2>1, <2>2 DEF ButtonsInv, SetupOK, Keys!WriteMask
  <2>. QED  BY <2>1, <2>2, <2>3, MasksAreWritten
<1>5. CASE Keys!EnableEar
  <2>1. /\ portRead = NULL /\ setup.at = "ear_written" /\ UNCHANGED configs
        /\ setup' = Keys!Done
        /\ Keys!WriteMask(setup.mask \cup Keys!EarOf(setup.button, setup.config))
    BY <1>5 DEF Keys!EnableEar, Keys!Main
  <2>2. SetupOK'
    BY <2>1 DEF SetupOK, Keys!Done, Keys!Configs
  <2>3. setup.config = configs[setup.button]
    BY <2>1 DEF ButtonsInv, SetupOK
  <2>. QED  BY <2>1, <2>2, <2>3, MasksAreWritten
<1>6. CASE Keys!Configure
  <2>1. /\ portRead = NULL /\ setup.at = "config"
        /\ configs' = [configs EXCEPT ![setup.button] = setup.config]
        /\ UNCHANGED <<pressed, states, imr, evaluationDue, portRead, missed, masked>>
    BY <1>6 DEF Keys!Configure, Keys!Main
  <2>2. setup.button \in UserButtons /\ setup.button \in missed /\ setup.config \in Keys!Configs
    BY <2>1 DEF ButtonsInv, SetupOK
  <2>3. /\ configs' \in [UserButtons -> Keys!Configs] /\ configs'[setup.button] = setup.config
        /\ \A b \in UserButtons : b # setup.button => configs'[b] = configs[b]
    BY <2>1, <2>2 DEF ButtonsInv
  <2>4. SetupOK' /\ (setup'.button = setup.button \/ setup.config = "OFF")
    <3>1. CASE setup.config = "OFF"
      <4>1. setup' = Keys!Done
        BY <1>6, <3>1 DEF Keys!Configure, Keys!Main
      <4>. QED  BY <3>1, <4>1 DEF SetupOK, Keys!Done, Keys!Configs
    <3>2. CASE setup.config # "OFF"
      <4>1. setup' = [setup EXCEPT !.at = "ear", !.mask = {}]
        BY <1>6, <3>2 DEF Keys!Configure, Keys!Main
      <4>2. setup' = [at |-> "ear", button |-> setup.button, config |-> setup.config, mask |-> {}]
        BY <4>1 DEF ButtonsInv, SetupOK
      <4>. QED  BY <2>1, <2>2, <2>3, <4>2 DEF SetupOK
    <3>. QED  BY <3>1, <3>2
  <2>5. Heard'
    BY <2>1, <2>3, <2>4 DEF ButtonsInv, Heard, Keys!Listening, Keys!Ear
  <2>6. Believed'
    BY <2>1, <2>2, <2>3 DEF ButtonsInv, Believed, Keys!Listening
  <2>. QED  BY <2>1, <2>3, <2>4, <2>5, <2>6 DEF ButtonsInv
<1>. QED  BY <1>1, <1>2, <1>3, <1>4, <1>5, <1>6 DEF Keys!Setup

\* What the other boards believe of a listening button is true once nothing is
\* pending, however many buttons there are and whatever interrupts what: a button
\* that cannot be heard is one an evaluation will unmask.
THEOREM NoEdgeIsSwallowed == Spec => []EdgesAreReported
<1> DEFINE I == part = "buttons" => ButtonsInv
<1>1. Init => I
  BY ButtonsBegin DEF Init
<1>2. I /\ [Next]_partVars => I'
  <2>1. ASSUME ButtonsInv, [Keys!Next]_buttons PROVE ButtonsInv'
    <3>1. CASE UNCHANGED buttons
      BY <2>1, <3>1 DEF buttons, ButtonsInv, SetupOK, Heard, Believed, Keys!Listening, Keys!Ear
    <3>2. CASE ~masked /\ (Keys!Handlers \/ Keys!Setup)
      BY <2>1, <3>2, EdgesAreHeard, EvaluationTells, SetupGoesOn DEF Keys!Handlers
    <3>. QED  BY <2>1, <3>1, <3>2 DEF Keys!Next, Keys!MaskIsOld, Keys!vars, buttons
  <2>. QED  BY <2>1, PartSteps
<1>3. I => EdgesAreReported
  <2>1. \A b \in UserButtons : Keys!Done.button # b
    BY ButtonsAssumption DEF Keys!Done
  <2>. QED  BY <2>1 DEF EdgesAreReported, Keys!EdgesAreReported, ButtonsInv, Believed
<1>. QED  BY <1>1, <1>2, <1>3, PTL DEF Spec, partVars

-----------------------------------------------------------------------------
\* What the last reads of a motor have told: nothing, and it is lost; or its
\* position, and since then as many reads have failed as are counted.
AllFailed(s, adjusted, failed) ==
  /\ \A k \in 1 .. Len(s) : s[k] = NULL
  /\ adjusted = Reader!Width - 1
  /\ failed = IF Len(s) < MaxFailures THEN Len(s) ELSE MaxFailures - 1

ToldBy(k, s, adjusted, failed) ==
  /\ s[k] = adjusted
  /\ \A j \in k + 1 .. Len(s) : s[j] = NULL
  /\ failed = Len(s) - k

Told(s, adjusted, failed) ==
  /\ s \in Seq(Int \cup {NULL}) /\ Len(s) <= MaxFailures
  /\ adjusted \in Int
  /\ \/ AllFailed(s, adjusted, failed)
     \/ \E k \in 1 .. Len(s) : ToldBy(k, s, adjusted, failed)

ReaderInv ==
  /\ positions = [m \in ReadMotors |-> positions[m]]
  /\ failures = [m \in ReadMotors |-> failures[m]]
  /\ seen = [m \in ReadMotors |-> seen[m]]
  /\ idleValues \in [ReadMotors -> Int]
  /\ \A m \in ReadMotors : Told(seen[m], positions[m].adjusted, failures[m])
  /\ push # NULL /\ ~touched => /\ push.motor \in ReadMotors
                                /\ push.low = positions[push.motor].adjusted % Base
  /\ touched \in BOOLEAN
  /\ Reader!PositionsAreRecent

Kept(s) == IF Len(s) > MaxFailures THEN Tail(s) ELSE s

\* What another read makes of the history
LEMMA ReadsAreKept ==
  ASSUME NEW s \in Seq(Int \cup {NULL}), Len(s) <= MaxFailures, NEW outcome \in Int \cup {NULL}
  PROVE  LET t == Kept(Append(s, outcome)) IN
         /\ t \in Seq(Int \cup {NULL}) /\ Len(t) <= MaxFailures
         /\ Len(s) < MaxFailures =>
              /\ Len(t) = Len(s) + 1
              /\ \A k \in 1 .. Len(s) : t[k] = s[k]
         /\ Len(s) = MaxFailures =>
              /\ Len(t) = Len(s)
              /\ \A k \in 1 .. Len(s) - 1 : t[k] = s[k + 1]
         /\ t[Len(t)] = outcome /\ Len(t) \in Nat \ {0}
<1> DEFINE a == Append(s, outcome)
<1>1. /\ a \in Seq(Int \cup {NULL}) /\ Len(a) = Len(s) + 1 /\ a[Len(s) + 1] = outcome
      /\ \A k \in 1 .. Len(s) : a[k] = s[k]
  OBVIOUS
<1>2. Len(s) \in Nat /\ MaxFailures \in Nat \ {0}
  BY ReaderAssumption
<1> HIDE DEF a
<1>3. CASE Len(s) < MaxFailures
  <2>1. Kept(a) = a
    BY <1>1, <1>2, <1>3 DEF Kept
  <2>. QED  BY <1>1, <1>2, <1>3, <2>1 DEF a
<1>4. CASE Len(s) = MaxFailures
  <2>1. Kept(a) = Tail(a)
    BY <1>1, <1>2, <1>4 DEF Kept
  <2>2. /\ Tail(a) \in Seq(Int \cup {NULL}) /\ Len(Tail(a)) = Len(s)
        /\ \A k \in 1 .. Len(s) : Tail(a)[k] = a[k + 1]
    BY <1>1, <1>2, <1>4
  <2>. QED  BY <1>1, <1>2, <1>4, <2>1, <2>2 DEF a
<1>. QED  BY <1>2, <1>3, <1>4

\* A motor answers: the newest of its reads is the position told.
LEMMA AnswersTell ==
  ASSUME NEW s, NEW adjusted, NEW failed, Told(s, adjusted, failed), NEW value \in Int
  PROVE  Told(Kept(Append(s, value)), value, 0)
<1> DEFINE t == Kept(Append(s, value))
<1>1. /\ t \in Seq(Int \cup {NULL}) /\ Len(t) <= MaxFailures
      /\ t[Len(t)] = value /\ Len(t) \in Nat \ {0}
  BY ReadsAreKept DEF Told
<1> HIDE DEF t
<1>2. ToldBy(Len(t), t, value, 0) /\ Len(t) \in 1 .. Len(t)
  BY <1>1 DEF ToldBy
<1>3. Told(t, value, 0)
  BY <1>1, <1>2 DEF Told
<1>. QED  BY <1>3 DEF t

\* A motor does not answer: one more read without an answer, or lost after the last
\* of them.
LEMMA FailuresAreCounted ==
  ASSUME NEW s, NEW adjusted, NEW failed, Told(s, adjusted, failed)
  PROVE  /\ failed >= MaxFailures - 1 => Told(Kept(Append(s, NULL)), Reader!Width - 1, failed)
         /\ ~(failed >= MaxFailures - 1) => Told(Kept(Append(s, NULL)), adjusted, failed + 1)
<1> DEFINE t == Kept(Append(s, NULL))
<1>0. s \in Seq(Int \cup {NULL}) /\ Len(s) <= MaxFailures /\ adjusted \in Int
  BY DEF Told
<1>1. /\ t \in Seq(Int \cup {NULL}) /\ Len(t) <= MaxFailures
      /\ Len(s) < MaxFailures => Len(t) = Len(s) + 1 /\ \A k \in 1 .. Len(s) : t[k] = s[k]
      /\ Len(s) = MaxFailures => Len(t) = Len(s) /\ \A k \in 1 .. Len(s) - 1 : t[k] = s[k + 1]
      /\ t[Len(t)] = NULL /\ Len(t) \in Nat \ {0}
  BY <1>0, ReadsAreKept
<1>2. Len(s) \in Nat /\ MaxFailures \in Nat \ {0} /\ Reader!Width - 1 \in Int
  BY <1>0, ReaderAssumption DEF Reader!Width
<1> HIDE DEF t
<1>3. CASE AllFailed(s, adjusted, failed)
  <2>1. \A k \in 1 .. Len(t) : t[k] = NULL
    BY <1>0, <1>1, <1>2, <1>3 DEF AllFailed
  <2>2. /\ failed >= MaxFailures - 1 => AllFailed(t, Reader!Width - 1, failed)
        /\ ~(failed >= MaxFailures - 1) => AllFailed(t, adjusted, failed + 1)
    BY <1>0, <1>1, <1>2, <1>3, <2>1 DEF AllFailed
  <2>. QED  BY <1>0, <1>1, <1>2, <2>2 DEF Told, t
<1>4. ASSUME NEW k \in 1 .. Len(s), ToldBy(k, s, adjusted, failed)
      PROVE  /\ failed >= MaxFailures - 1 => Told(t, Reader!Width - 1, failed)
             /\ ~(failed >= MaxFailures - 1) => Told(t, adjusted, failed + 1)
  <2>1. CASE failed >= MaxFailures - 1
    <3>1. k = 1 /\ Len(s) = MaxFailures /\ failed = MaxFailures - 1
      BY <1>0, <1>2, <1>4, <2>1 DEF ToldBy
    <3>2. \A j \in 1 .. Len(t) : t[j] = NULL
      BY <1>1, <1>2, <1>4, <3>1 DEF ToldBy
    <3>3. AllFailed(t, Reader!Width - 1, failed)
      BY <1>1, <1>2, <3>1, <3>2 DEF AllFailed
    <3>. QED  BY <1>1, <1>2, <2>1, <3>3 DEF Told
  <2>2. CASE ~(failed >= MaxFailures - 1)
    <3>1. PICK i \in 1 .. Len(t) : ToldBy(i, t, adjusted, failed + 1)
      <4>1. CASE Len(s) < MaxFailures
        <5>1. ToldBy(k, t, adjusted, failed + 1)
          BY <1>1, <1>2, <1>4, <4>1 DEF ToldBy
        <5>. QED  BY <1>1, <1>2, <4>1, <5>1
      <4>2. CASE Len(s) = MaxFailures
        <5>1. k - 1 \in 1 .. Len(t)
          BY <1>1, <1>2, <1>4, <2>2, <4>2 DEF ToldBy
        <5>2. t[k - 1] = s[k]
          BY <1>1, <1>2, <4>2, <5>1
        <5>3. \A j \in k .. Len(t) : t[j] = NULL
          BY <1>1, <1>2, <1>4, <4>2 DEF ToldBy
        <5>4. ToldBy(k - 1, t, adjusted, failed + 1)
          BY <1>1, <1>2, <1>4, <4>2, <5>2, <5>3 DEF ToldBy
        <5>. QED  BY <5>1, <5>4
      <4>. QED  BY <1>0, <1>2, <4>1, <4>2
    <3>. QED  BY <1>0, <1>1, <2>2, <3>1 DEF Told
  <2>. QED  BY <2>1, <2>2
<1>. QED  BY <1>3, <1>4 DEF Told, t

\* What is known of a motor is what its position says.
LEMMA KnownIsTold ==
  ASSUME ReaderInv, NEW m \in ReadMotors
  PROVE  Reader!Known(m) = positions[m].adjusted
<1> DEFINE s == seen[m]
           told == {k \in DOMAIN s : s[k] # NULL}
           a == positions[m].adjusted
<1>0. Told(s, a, failures[m])
  BY DEF ReaderInv
<1>1. Reader!Known(m) = IF told = {} THEN Reader!Width - 1 ELSE s[Reader!Max(told)]
  BY DEF Reader!Known
<1>2. s \in Seq(Int \cup {NULL}) /\ DOMAIN s = 1 .. Len(s) /\ Len(s) \in Nat /\ a \in Int
  BY <1>0 DEF Told
<1>3. CASE AllFailed(s, a, failures[m])
  <2>1. told = {} /\ a = Reader!Width - 1
    BY <1>2, <1>3 DEF AllFailed
  <2>. QED  BY <1>1, <2>1
<1>4. ASSUME NEW k \in 1 .. Len(s), ToldBy(k, s, a, failures[m]) PROVE Reader!Known(m) = a
  <2>1. s[k] = a /\ \A j \in k + 1 .. Len(s) : s[j] = NULL
    BY <1>4 DEF ToldBy
  <2>2. k \in told
    BY <1>2, <2>1, WatchAssumption
  <2>3. \A j \in told : k >= j
    BY <1>2, <2>1
  <2>4. told \subseteq Int
    BY <1>2
  <2> HIDE DEF told
  <2>5. Reader!Max(told) = k
    <3>1. Reader!Max(told) = CHOOSE x \in told : \A y \in told : x >= y
      BY DEF Reader!Max
    <3>2. Reader!Max(told) \in told /\ \A y \in told : Reader!Max(told) >= y
      BY <2>2, <2>3, <3>1, Zenon
    <3>3. PICK x : x = Reader!Max(told)
      OBVIOUS
    <3>4. x \in Int /\ k \in Int /\ k >= x /\ x >= k
      BY <2>2, <2>3, <2>4, <3>2, <3>3, Zenon
    <3>5. x = k
      BY <3>4
    <3>. QED  BY <3>3, <3>5
  <2>. QED  BY <1>1, <2>1, <2>2, <2>5
<1>. QED  BY <1>0, <1>3, <1>4 DEF Told

\* Nothing has been read at first, and the position told is the one of a lost motor.
LEMMA ReaderStarts == Reader!Init => ReaderInv
<1> SUFFICES ASSUME Reader!Init PROVE ReaderInv
  OBVIOUS
<1>1. /\ positions = [m \in ReadMotors |-> [adjusted |-> Reader!Width - 1, raw |-> 0]]
      /\ failures = [m \in ReadMotors |-> 0] /\ seen = [m \in ReadMotors |-> <<>>]
      /\ idleValues = [m \in ReadMotors |-> ReadMiddle]
      /\ push = NULL /\ touched = FALSE /\ pushed = NULL
  BY DEF Reader!Init
<1>2. Told(<<>>, Reader!Width - 1, 0)
  <2>1. Reader!Width - 1 \in Int
    BY ReaderAssumption DEF Reader!Width
  <2>. QED  BY <2>1, ReaderAssumption DEF Told, AllFailed
<1>. QED  BY <1>1, <1>2, ReaderAssumption DEF ReaderInv, Reader!PositionsAreRecent

\* A read of a motor has ended: what the others have told stays.
LEMMA ReadEnds ==
  ASSUME ReaderInv, NEW m \in ReadMotors, NEW outcome, Reader!Ended(m, outcome),
         NEW adjusted, NEW raw, NEW failed,
         positions' = [positions EXCEPT ![m] = [adjusted |-> adjusted, raw |-> raw]]
           \/ (positions' = positions /\ adjusted = positions[m].adjusted),
         failures' = [failures EXCEPT ![m] = failed]
           \/ (failures' = failures /\ failed = failures[m]),
         Told(Kept(Append(seen[m], outcome)), adjusted, failed)
  PROVE  ReaderInv'
<1>1. /\ seen' = [seen EXCEPT ![m] = Kept(Append(seen[m], outcome))]
      /\ touched' = (touched \/ (push # NULL /\ push.motor = m))
      /\ UNCHANGED <<idleValues, push, pushed>>
  BY DEF Reader!Ended, Kept, ReaderInv
<1>2. /\ seen' = [n \in ReadMotors |-> seen'[n]] /\ seen'[m] = Kept(Append(seen[m], outcome))
      /\ positions' = [n \in ReadMotors |-> positions'[n]] /\ positions'[m].adjusted = adjusted
      /\ failures' = [n \in ReadMotors |-> failures'[n]] /\ failures'[m] = failed
  BY <1>1 DEF ReaderInv
<1>3. \A n \in ReadMotors : n # m => /\ seen'[n] = seen[n] /\ positions'[n] = positions[n]
                                     /\ failures'[n] = failures[n]
  BY <1>1 DEF ReaderInv
<1>4. \A n \in ReadMotors : Told(seen'[n], positions'[n].adjusted, failures'[n])
  BY <1>2, <1>3 DEF ReaderInv
<1>5. push' # NULL /\ ~touched' => /\ push'.motor \in ReadMotors
                                   /\ push'.low = positions'[push'.motor].adjusted % Base
  BY <1>1, <1>3 DEF ReaderInv
<1>. QED  BY <1>1, <1>2, <1>4, <1>5 DEF ReaderInv, Reader!PositionsAreRecent

\* Reads, their failures, offsets and pushes leave each motor where its reads tell.
LEMMA ReaderGoesOn == ReaderInv /\ [Reader!Next]_reader => ReaderInv'
<1> SUFFICES ASSUME ReaderInv, [Reader!Next]_reader PROVE ReaderInv'
  OBVIOUS
<1>1. CASE Reader!OnReadMotors
  <2>1. UNCHANGED <<positions, failures, idleValues, push, seen, touched, pushed>>
    BY <1>1 DEF Reader!OnReadMotors
  <2>. QED  BY <2>1 DEF ReaderInv, Reader!PositionsAreRecent
<1>2. ASSUME NEW m \in ReadMotors, NEW value \in RawPositions, Reader!OnMotorRead(m, value)
      PROVE  ReaderInv'
  <2> DEFINE v == Reader!RemoveOffsets(m, value)
  <2>1. v \in Int
    <3>1. value \in Int /\ idleValues[m] \in Int /\ ReadMiddle \in Int /\ Base \in Nat \ {0}
      BY ReaderAssumption DEF ReaderInv
    <3>2. Reader!Width \in Nat \ {0}
      BY <3>1 DEF Reader!Width
    <3>. QED  BY <3>1, <3>2 DEF Reader!RemoveOffsets
  <2>2. /\ positions' = [positions EXCEPT ![m] = [adjusted |-> v, raw |-> value]]
        /\ failures' = [failures EXCEPT ![m] = 0]
        /\ Reader!Ended(m, v)
    BY <1>2 DEF Reader!OnMotorRead
  <2> HIDE DEF v
  <2>3. Told(Kept(Append(seen[m], v)), v, 0)
    BY <2>1, AnswersTell DEF ReaderInv
  <2>. QED  BY <2>2, <2>3, ReadEnds
<1>3. ASSUME NEW m \in ReadMotors, Reader!OnMotorNotRead(m) PROVE ReaderInv'
  <2>1. Told(seen[m], positions[m].adjusted, failures[m]) /\ Reader!Ended(m, NULL)
    BY <1>3 DEF ReaderInv, Reader!OnMotorNotRead
  <2>2. CASE failures[m] >= MaxFailures - 1
    <3>1. /\ positions' = [positions EXCEPT ![m] = [adjusted |-> Reader!Width - 1, raw |-> Reader!Width - 1]]
          /\ failures' = failures
      BY <1>3, <2>2 DEF Reader!OnMotorNotRead
    <3>2. Told(Kept(Append(seen[m], NULL)), Reader!Width - 1, failures[m])
      BY <2>1, <2>2, FailuresAreCounted
    <3>. QED  BY <2>1, <3>1, <3>2, ReadEnds
  <2>3. CASE ~(failures[m] >= MaxFailures - 1)
    <3>1. failures' = [failures EXCEPT ![m] = failures[m] + 1] /\ positions' = positions
      BY <1>3, <2>3 DEF Reader!OnMotorNotRead
    <3>2. Told(Kept(Append(seen[m], NULL)), positions[m].adjusted, failures[m] + 1)
      BY <2>1, <2>3, FailuresAreCounted
    <3>. QED  BY <2>1, <3>1, <3>2, ReadEnds
  <2>. QED  BY <2>2, <2>3
<1>4. ASSUME NEW m \in ReadMotors, Reader!OnOddAnswer(m) PROVE ReaderInv'
  <2>1. UNCHANGED <<positions, failures, idleValues, push, seen, touched, pushed>>
    BY <1>4 DEF Reader!OnOddAnswer
  <2>. QED  BY <2>1 DEF ReaderInv, Reader!PositionsAreRecent
<1>5. ASSUME NEW m \in ReadMotors, NEW value \in ReadIdleValues, Reader!SetIdleValues(m, value)
      PROVE  ReaderInv'
  <2>1. /\ idleValues' = [idleValues EXCEPT ![m] = value]
        /\ UNCHANGED <<positions, failures, push, seen, touched, pushed>>
    BY <1>5 DEF Reader!SetIdleValues
  <2>2. idleValues' \in [ReadMotors -> Int]
    BY <2>1, ReaderAssumption DEF ReaderInv
  <2>. QED  BY <2>1, <2>2 DEF ReaderInv, Reader!PositionsAreRecent
<1>6. ASSUME NEW m \in ReadMotors, Reader!PushLow(m) PROVE ReaderInv'
  <2>1. /\ push' = [motor |-> m, low |-> positions[m].adjusted % Base] /\ touched' = FALSE
        /\ UNCHANGED <<positions, failures, idleValues, seen, pushed>>
    BY <1>6 DEF Reader!PushLow
  <2>. QED  BY <2>1 DEF ReaderInv, Reader!PositionsAreRecent
<1>7. CASE Reader!PushHigh
  <2>1. push # NULL /\ push' = NULL /\ UNCHANGED <<positions, failures, idleValues, seen, touched>>
    BY <1>7 DEF Reader!PushHigh
  <2>2. Reader!PositionsAreRecent'
    <3>1. CASE touched
      <4>1. pushed' = NULL
        BY <1>7, <3>1 DEF Reader!PushHigh
      <4>. QED  BY <4>1 DEF Reader!PositionsAreRecent
    <3>2. CASE ~touched
      <4> DEFINE a == positions[push.motor].adjusted
      <4>1. push.motor \in ReadMotors /\ push.low = a % Base
        BY <2>1, <3>2 DEF ReaderInv
      <4>2. pushed' = [motor |-> push.motor, value |-> push.low + Base * (a \div Base),
                       known |-> Reader!Known(push.motor)]
        BY <1>7, <3>2 DEF Reader!PushHigh
      <4>3. a \in Int /\ Base \in Nat \ {0}
        BY <4>1, ReaderAssumption DEF ReaderInv, Told
      <4>4. Reader!Known(push.motor) = a
        BY <4>1, KnownIsTold
      <4> HIDE DEF a
      <4>5. (a % Base) + Base * (a \div Base) = a
        BY <4>3
      <4>. QED  BY <4>1, <4>2, <4>4, <4>5 DEF Reader!PositionsAreRecent
    <3>. QED  BY <3>1, <3>2
  <2>. QED  BY <2>1, <2>2 DEF ReaderInv
<1>8. CASE UNCHANGED reader
  BY <1>8 DEF reader, ReaderInv, Reader!PositionsAreRecent
<1>. QED  BY <1>1, <1>2, <1>3, <1>4, <1>5, <1>6, <1>7, <1>8 DEF Reader!Next

\* The main computer is told where a motor was by the newest of its last reads,
\* and that it is lost when none of them has been answered, however many there are.
THEOREM MotorsAreWhereTold == Spec => []PositionsAreRecent
<1> DEFINE I == part = "reader" => ReaderInv
<1>1. Init => I
  BY ReaderStarts DEF Init
<1>2. I /\ [Next]_partVars => I'
  BY PartSteps, ReaderGoesOn
<1>3. I => PositionsAreRecent
  BY DEF ReaderInv, PositionsAreRecent
<1>. QED  BY <1>1, <1>2, <1>3, PTL DEF Spec, partVars

-----------------------------------------------------------------------------
\* A value fits what is meant by it if it is the goal or, where the offset was
\* added, if the offset makes one of the other.
Offset(i, m) == i[m] - GoalMiddle
Fits(i, m, value, meant) ==
  meant # NULL => IF meant.raised THEN meant.goal = (value - Offset(i, m)) % GoalWidth
                  ELSE meant.goal = value

\* An answer fits what is meant if it is what comes back, with the offset still in
\* it when questions were mixed.
Back(i, m, meant) ==
  IF meant.raised THEN meant.goal ELSE (meant.goal - Offset(i, m)) % GoalWidth
AnswerFits(i, r) ==
  r.meant # NULL =>
    \/ r.value = Back(i, r.motor, r.meant)
    \/ r.mixed /\ r.value = (Back(i, r.motor, r.meant) + Offset(i, r.motor)) % GoalWidth

MotorState ==
  [goal : Commands!Position, meant : Commands!Meaning \cup {NULL},
   registered : Commands!Order \cup {NULL}]

MotorFits(i, m, r) ==
  /\ r \in MotorState
  /\ Fits(i, m, r.goal, r.meant)
  /\ r.registered # NULL => /\ r.registered.motor = m
                            /\ Fits(i, m, r.registered.value, r.registered.meant)

AnyJob ==
  [kind : {"write", "register", "action", "read"}, orders : SUBSET Commands!Order,
   motor : GoalMotors \cup {254, NULL}, register : Commands!Registers \cup {NULL}]

JobFits(i, job) ==
  /\ job \in AnyJob
  /\ job.kind = "read" => job.motor \in GoalMotors \cup {254}
  /\ \A o \in job.orders : Fits(i, o.motor, o.value, o.meant)

JobsFit(i, js) ==
  /\ js \in [Commands!Ports -> Seq(AnyJob)]
  /\ \A p \in Commands!Ports : \A k \in 1 .. Len(js[p]) : JobFits(i, js[p][k])

\* Reads of one register, which is the one answers are looked at with
OneRegister(js, register) ==
  \A p \in Commands!Ports : \A k \in 1 .. Len(js[p]) :
    js[p][k].kind = "read" => register = NULL \/ js[p][k].register = register

Message == [motor : GoalMotors, value : Int, meant : Commands!Meaning \cup {NULL}, mixed : BOOLEAN]

MessagesFit(i, ms) == ms \in Seq(Message) /\ \A k \in 1 .. Len(ms) : AnswerFits(i, ms[k])

CommandsInv ==
  /\ idle \in [GoalMotors -> Int]
  /\ JobsFit(idle, jobs)
  /\ motor = [m \in GoalMotors |-> motor[m]]
  /\ \A m \in GoalMotors : MotorFits(idle, m, motor[m])
  /\ MessagesFit(idle, messages)
  /\ mixed \in BOOLEAN
  /\ ~mixed => OneRegister(jobs, currentRegister)

\* Remainders: there is only one,
LEMMA OneRemainder ==
  ASSUME NEW w \in Nat \ {0}, NEW q \in Int, NEW r \in 0 .. w - 1, NEW a \in Int, a = w * q + r
  PROVE  a % w = r
<1>1. PICK p \in Int : \E s \in 0 .. w - 1 : a = w * p + s /\ s = a % w
  <2>1. a = w * (a \div w) + (a % w) /\ a \div w \in Int /\ a % w \in 0 .. w - 1
    OBVIOUS
  <2>. QED  BY <2>1
<1>0. PICK s \in 0 .. w - 1 : a = w * p + s /\ s = a % w
  BY <1>1
<1>2. w * (q - p) = s - r
  <2>1. w * (q - p) = w * q - w * p
    OBVIOUS
  <2>. QED  BY <1>0, <2>1
<1>3. CASE q - p >= 1
  <2>1. w * (q - p) >= w
    BY <1>3
  <2>. QED  BY <1>2, <2>1
<1>4. CASE q - p <= -1
  <2>1. w * (q - p) <= -w
    BY <1>4
  <2>. QED  BY <1>2, <2>1
<1>5. CASE q = p
  <2>1. q - p = 0 /\ w * 0 = 0
    BY <1>5
  <2>2. s - r = 0
    BY <1>2, <2>1
  <2>3. s = r
    BY <2>2
  <2>4. s = a % w
    BY <1>0
  <2>. QED  BY <2>3, <2>4, Zenon
<1>. QED  BY <1>3, <1>4, <1>5

\* and an offset may be removed from it instead.
LEMMA OffsetOfRemainder ==
  ASSUME NEW w \in Nat \ {0}, NEW x \in Int, NEW d \in Int
  PROVE  ((x % w) - d) % w = (x - d) % w
<1>1. PICK q \in Int : x % w = x - w * q
  <2>1. x = w * (x \div w) + (x % w) /\ x \div w \in Int /\ x % w \in Int
    OBVIOUS
  <2> DEFINE q == x \div w
             z == x % w
  <2>2. x = w * q + z /\ q \in Int /\ z \in Int
    BY <2>1
  <2> HIDE DEF q, z
  <2>3. w * q \in Int /\ z = x - w * q
    BY <2>2
  <2>. QED  BY <2>2, <2>3 DEF z
<1>2. PICK p \in Int, r \in 0 .. w - 1 : x - d = w * p + r /\ r = (x - d) % w
  <2> DEFINE y == x - d
  <2>1. y \in Int
    OBVIOUS
  <2> HIDE DEF y
  <2>2. y = w * (y \div w) + (y % w) /\ y \div w \in Int /\ y % w \in 0 .. w - 1
    BY <2>1
  <2>. QED  BY <2>2 DEF y
<1>3. (x % w) - d = w * (p - q) + r
  <2>1. w * (p - q) = w * p - w * q
    OBVIOUS
  <2>2. w * p \in Int /\ w * q \in Int
    OBVIOUS
  <2>. QED  BY <1>1, <1>2, <2>1, <2>2
<1> DEFINE a == (x % w) - d
<1>4. a \in Int /\ p - q \in Int /\ a = w * (p - q) + r
  BY <1>3
<1> HIDE DEF a
<1>5. a % w = r
  BY <1>4, OneRemainder
<1>. QED  BY <1>2, <1>5 DEF a

\* The remainder of what is below the width is itself.
LEMMA SmallRemainder ==
  ASSUME NEW w \in Nat \ {0}, NEW v \in 0 .. w - 1
  PROVE  v % w = v
<1>1. v = w * 0 + v
  OBVIOUS
<1>. QED  BY <1>1, OneRemainder

\* How far a motor's idle value is from the middle
LEMMA OffsetsAreIntegers ==
  ASSUME NEW i \in [GoalMotors -> Int], NEW m \in GoalMotors
  PROVE  Offset(i, m) \in Int
  BY CommandsAssumption DEF Offset

\* What addOffsets makes of a goal is an order that means the goal.
LEMMA RaisedFits ==
  ASSUME idle \in [GoalMotors -> Int], NEW m \in GoalMotors, NEW value \in Commands!Position
  PROVE  /\ Commands!Raised(m, value) \in Commands!Order
         /\ Fits(idle, m, Commands!Raised(m, value).value, Commands!Raised(m, value).meant)
         /\ Commands!Raised(m, value).motor = m
<1> DEFINE d == Offset(idle, m)
<1>1. d \in Int /\ GoalWidth \in Nat \ {0} /\ value \in 0 .. GoalWidth - 1 /\ value \in Int
  BY OffsetsAreIntegers, CommandsAssumption DEF Commands!Position
<1>2. Commands!Raised(m, value) = [motor |-> m, value |-> (value + d) % GoalWidth,
                                   meant |-> [goal |-> value, raised |-> TRUE]]
  BY DEF Commands!Raised, Commands!AddOffsets, Offset
<1> HIDE DEF d
<1>3. (value + d) % GoalWidth \in 0 .. GoalWidth - 1
  BY <1>1
<1>4. (((value + d) % GoalWidth) - d) % GoalWidth = value
  <2>1. value + d \in Int /\ (value + d) - d = value
    BY <1>1
  <2>. QED  BY <1>1, <2>1, OffsetOfRemainder, SmallRemainder
<1>5. Commands!Raised(m, value) \in Commands!Order
  BY <1>1, <1>2, <1>3 DEF Commands!Order, Commands!Meaning
<1>. QED  BY <1>2, <1>4, <1>5 DEF Fits, d

\* An order raised by the offset and one that is not differ by the offset.
LEMMA OrderFits ==
  ASSUME idle \in [GoalMotors -> Int], NEW m \in GoalMotors, NEW x \in Int, NEW y \in Int,
         x - Offset(idle, m) = y
  PROVE  Fits(idle, m, x % GoalWidth, [goal |-> y % GoalWidth, raised |-> TRUE])
<1> DEFINE d == Offset(idle, m)
<1>1. d \in Int /\ GoalWidth \in Nat \ {0}
  BY OffsetsAreIntegers, CommandsAssumption
<1> HIDE DEF d
<1>2. ((x % GoalWidth) - d) % GoalWidth = (x - d) % GoalWidth
  BY <1>1, OffsetOfRemainder
<1>. QED  BY <1>2 DEF Fits, d

\* What is sent as it is means itself.
LEMMA AsSentFits ==
  ASSUME idle \in [GoalMotors -> Int], NEW m \in GoalMotors, NEW value \in Commands!Position
  PROVE  /\ Commands!AsSent(m, value) \in Commands!Order
         /\ Fits(idle, m, Commands!AsSent(m, value).value, Commands!AsSent(m, value).meant)
         /\ Commands!AsSent(m, value).motor = m
<1> DEFINE raised == idle[m] = GoalMiddle
<1>1. /\ GoalWidth \in Nat \ {0} /\ value \in 0 .. GoalWidth - 1 /\ value \in Int
      /\ GoalMiddle \in Int
  BY CommandsAssumption DEF Commands!Position
<1>2. Commands!AsSent(m, value) = [motor |-> m, value |-> value,
                                   meant |-> [goal |-> value, raised |-> raised]]
  BY DEF Commands!AsSent
<1>3. raised \in BOOLEAN
  OBVIOUS
<1>4. raised => (value - Offset(idle, m)) % GoalWidth = value
  <2>1. raised => value - Offset(idle, m) = value
    BY <1>1 DEF Offset
  <2>. QED  BY <1>1, <2>1, SmallRemainder
<1> HIDE DEF raised
<1>5. Commands!AsSent(m, value) \in Commands!Order
  BY <1>1, <1>2, <1>3 DEF Commands!Order, Commands!Meaning
<1>. QED  BY <1>2, <1>4, <1>5 DEF Fits

\* Jobs are put into the queues that have room
LEMMA QueuedFits ==
  ASSUME NEW i, NEW js, JobsFit(i, js), NEW job, JobFits(i, job), NEW ports
  PROVE  JobsFit(i, Commands!Queued(js, job, ports))
<1> DEFINE t == Commands!Queued(js, job, ports)
<1>1. t = [p \in Commands!Ports |->
             IF p \in ports /\ Len(js[p]) < JobQueue THEN Append(js[p], job) ELSE js[p]]
  BY DEF Commands!Queued
<1>2. ASSUME NEW p \in Commands!Ports
      PROVE  /\ t[p] \in Seq(AnyJob)
             /\ \A k \in 1 .. Len(t[p]) : JobFits(i, t[p][k])
  <2>1. js[p] \in Seq(AnyJob) /\ \A k \in 1 .. Len(js[p]) : JobFits(i, js[p][k])
    BY DEF JobsFit
  <2>2. job \in AnyJob
    BY DEF JobFits
  <2>3. t[p] = Append(js[p], job) \/ t[p] = js[p]
    BY <1>1
  <2> HIDE DEF t
  <2>4. CASE t[p] = js[p]
    BY <2>1, <2>4
  <2>5. CASE t[p] = Append(js[p], job)
    <3> DEFINE a == Append(js[p], job)
    <3>1. /\ a \in Seq(AnyJob) /\ Len(a) = Len(js[p]) + 1 /\ Len(js[p]) \in Nat
          /\ a[Len(js[p]) + 1] = job /\ \A k \in 1 .. Len(js[p]) : a[k] = js[p][k]
      BY <2>1, <2>2
    <3> HIDE DEF a
    <3>2. \A k \in 1 .. Len(a) : JobFits(i, a[k])
      <4> SUFFICES ASSUME NEW k \in 1 .. Len(a) PROVE JobFits(i, a[k])
        OBVIOUS
      <4>1. k \in 1 .. Len(js[p]) \/ k = Len(js[p]) + 1
        BY <3>1
      <4>. QED  BY <2>1, <3>1, <4>1
    <3>. QED  BY <2>5, <3>1, <3>2 DEF a
  <2>. QED  BY <2>3, <2>4, <2>5
<1>3. t \in [Commands!Ports -> Seq(AnyJob)]
  <2>1. t = [p \in Commands!Ports |-> t[p]]
    BY <1>1
  <2> HIDE DEF t
  <2>. QED  BY <1>2, <2>1
<1> HIDE DEF t
<1>4. JobsFit(i, t)
  BY <1>2, <1>3 DEF JobsFit
<1>. QED  BY <1>4 DEF t

\* and the questions among them are of the register of this one.
LEMMA QueuedOfOne ==
  ASSUME NEW i, NEW js, JobsFit(i, js), NEW register, OneRegister(js, register), NEW job, NEW ports,
         job.kind = "read" => job.register = register
  PROVE  OneRegister(Commands!Queued(js, job, ports), register)
<1> DEFINE t == Commands!Queued(js, job, ports)
<1>1. t = [p \in Commands!Ports |->
             IF p \in ports /\ Len(js[p]) < JobQueue THEN Append(js[p], job) ELSE js[p]]
  BY DEF Commands!Queued
<1>2. ASSUME NEW p \in Commands!Ports
      PROVE  \A k \in 1 .. Len(t[p]) :
               t[p][k].kind = "read" => register = NULL \/ t[p][k].register = register
  <2>1. /\ js[p] \in Seq(AnyJob)
        /\ \A k \in 1 .. Len(js[p]) :
             js[p][k].kind = "read" => register = NULL \/ js[p][k].register = register
    BY DEF JobsFit, OneRegister
  <2>2. t[p] = Append(js[p], job) \/ t[p] = js[p]
    BY <1>1
  <2> HIDE DEF t
  <2>3. CASE t[p] = js[p]
    BY <2>1, <2>3
  <2>4. CASE t[p] = Append(js[p], job)
    <3> DEFINE a == Append(js[p], job)
    <3>1. /\ Len(a) = Len(js[p]) + 1 /\ Len(js[p]) \in Nat
          /\ a[Len(js[p]) + 1] = job /\ \A k \in 1 .. Len(js[p]) : a[k] = js[p][k]
      BY <2>1
    <3> HIDE DEF a
    <3>2. ASSUME NEW k \in 1 .. Len(a), a[k].kind = "read"
          PROVE  register = NULL \/ a[k].register = register
      <4>1. k \in 1 .. Len(js[p]) \/ k = Len(js[p]) + 1
        BY <3>1
      <4>. QED  BY <2>1, <3>1, <3>2, <4>1
    <3>. QED  BY <2>4, <3>2 DEF a
  <2>. QED  BY <2>2, <2>3, <2>4
<1> HIDE DEF t
<1>3. OneRegister(t, register)
  BY <1>2 DEF OneRegister
<1>. QED  BY <1>3 DEF t

\* A job that writes orders that fit is one that fits, and no question.
LEMMA WriteFits ==
  ASSUME NEW i, NEW kind \in {"write", "register", "action"}, NEW orders \in SUBSET Commands!Order,
         \A o \in orders : Fits(i, o.motor, o.value, o.meant)
  PROVE  /\ JobFits(i, Commands!Write(kind, orders))
         /\ Commands!Write(kind, orders).kind # "read"
  BY DEF Commands!Write, JobFits, AnyJob

\* Only the queues have changed, by a job that is not a question: what is asked
\* for goes on as before.
LEMMA CommandIsQueued ==
  ASSUME CommandsInv, NEW job, JobFits(idle, job), job.kind # "read", NEW ports,
         NEW js, JobsFit(idle, js), ~mixed => OneRegister(js, currentRegister)
  PROVE  /\ JobsFit(idle, Commands!Queued(js, job, ports))
         /\ ~mixed => OneRegister(Commands!Queued(js, job, ports), currentRegister)
  BY QueuedFits, QueuedOfOne

\* When the queues still fit and nothing else has changed, the invariant goes on.
LEMMA QueuesHaveChanged ==
  ASSUME CommandsInv, UNCHANGED <<idle, currentRegister, motor, messages, mixed>>,
         JobsFit(idle, jobs'), ~mixed => OneRegister(jobs', currentRegister)
  PROVE  CommandsInv'
  BY DEF CommandsInv

\* A read in a queue is among the reads of the queues.
LEMMA QuestionsAreReads ==
  ASSUME NEW js, NEW p \in Commands!Ports, NEW k \in DOMAIN js[p], js[p][k].kind = "read"
  PROVE  <<p, k>> \in Commands!Reads(js)
<1> DEFINE mine == {<<p, l>> : l \in {l \in DOMAIN js[p] : js[p][l].kind = "read"}}
<1>1. <<p, k>> \in mine
  OBVIOUS
<1>2. mine \in {{<<q, l>> : l \in {l \in DOMAIN js[q] : js[q][l].kind = "read"}} : q \in Commands!Ports}
  BY Zenon
<1> HIDE DEF mine
<1>3. <<p, k>> \in UNION {{<<q, l>> : l \in {l \in DOMAIN js[q] : js[q][l].kind = "read"}}
                         : q \in Commands!Ports}
  BY <1>1, <1>2
<1>. QED  BY <1>3 DEF Commands!Reads

\* The first job of a queue is done
LEMMA DoneFits ==
  ASSUME CommandsInv, NEW p \in Commands!Ports, jobs[p] # <<>>, Commands!Done(p)
  PROVE  /\ JobsFit(idle, jobs') /\ mixed' \in BOOLEAN
         /\ ~mixed' => OneRegister(jobs', currentRegister)
         /\ Head(jobs[p]) = jobs[p][1] /\ JobFits(idle, Head(jobs[p]))
         /\ ~mixed /\ Head(jobs[p]).kind = "read" =>
              currentRegister = NULL \/ Head(jobs[p]).register = currentRegister
<1> DEFINE t == Tail(jobs[p])
<1>1. /\ jobs[p] \in Seq(AnyJob) /\ Len(jobs[p]) \in Nat \ {0} /\ 1 \in 1 .. Len(jobs[p])
      /\ \A k \in 1 .. Len(jobs[p]) : JobFits(idle, jobs[p][k])
      /\ Head(jobs[p]) = jobs[p][1]
  BY DEF CommandsInv, JobsFit
<1>2. /\ t \in Seq(AnyJob) /\ Len(t) = Len(jobs[p]) - 1
      /\ \A k \in 1 .. Len(t) : t[k] = jobs[p][k + 1] /\ k + 1 \in 1 .. Len(jobs[p])
  BY <1>1
<1> HIDE DEF t
<1>3. /\ jobs' = [jobs EXCEPT ![p] = t]
      /\ mixed' = (mixed /\ Commands!Reads(jobs') # {})
  BY DEF Commands!Done, t
<1>4. /\ jobs' \in [Commands!Ports -> Seq(AnyJob)]
      /\ jobs'[p] = t /\ \A q \in Commands!Ports : q # p => jobs'[q] = jobs[q]
  BY <1>2, <1>3 DEF CommandsInv, JobsFit
<1>5. \A q \in Commands!Ports : \A k \in 1 .. Len(jobs'[q]) :
        JobFits(idle, jobs'[q][k]) /\ \E l \in 1 .. Len(jobs[q]) : jobs'[q][k] = jobs[q][l]
  <2>1. \A k \in 1 .. Len(t) :
          JobFits(idle, t[k]) /\ \E l \in 1 .. Len(jobs[p]) : t[k] = jobs[p][l]
    BY <1>1, <1>2
  <2>2. \A q \in Commands!Ports : \A k \in 1 .. Len(jobs[q]) : JobFits(idle, jobs[q][k])
    BY DEF CommandsInv, JobsFit
  <2>. QED  BY <1>4, <2>1, <2>2
<1>6. JobsFit(idle, jobs')
  BY <1>4, <1>5 DEF JobsFit
<1>7. ASSUME ~mixed' PROVE OneRegister(jobs', currentRegister)
  <2>1. CASE ~mixed
    BY <1>5, <2>1 DEF CommandsInv, OneRegister
  <2>2. CASE mixed
    <3>1. Commands!Reads(jobs') = {}
      BY <1>3, <1>7, <2>2
    <3>2. \A q \in Commands!Ports : \A k \in DOMAIN jobs'[q] : jobs'[q][k].kind # "read"
      BY <3>1, QuestionsAreReads
    <3>3. \A q \in Commands!Ports : DOMAIN jobs'[q] = 1 .. Len(jobs'[q])
      BY <1>4
    <3>. QED  BY <3>2, <3>3 DEF OneRegister
  <2>. QED  BY <2>1, <2>2
<1>8. mixed' \in BOOLEAN
  BY <1>3 DEF CommandsInv
<1>9. ~mixed /\ Head(jobs[p]).kind = "read" =>
        currentRegister = NULL \/ Head(jobs[p]).register = currentRegister
  BY <1>1 DEF CommandsInv, OneRegister
<1>. QED  BY <1>1, <1>6, <1>7, <1>8, <1>9

\* The queues are empty at first and no motor has an offset.
LEMMA CommandsBegin == Commands!Init => CommandsInv
<1> SUFFICES ASSUME Commands!Init PROVE CommandsInv
  OBVIOUS
<1>1. /\ idle = [m \in GoalMotors |-> GoalMiddle] /\ currentRegister = "other"
      /\ jobs = [p \in Commands!Ports |-> <<>>]
      /\ motor = [m \in GoalMotors |-> [goal |-> 0, meant |-> [goal |-> 0, raised |-> TRUE], registered |-> NULL]]
      /\ messages = <<>> /\ mixed = FALSE
  BY DEF Commands!Init
<1>2. idle \in [GoalMotors -> Int]
  BY <1>1, CommandsAssumption
<1>3. JobsFit(idle, jobs) /\ OneRegister(jobs, currentRegister)
  BY <1>1 DEF JobsFit, OneRegister
<1>4. ASSUME NEW m \in GoalMotors PROVE MotorFits(idle, m, motor[m])
  <2>1. motor[m] = [goal |-> 0, meant |-> [goal |-> 0, raised |-> TRUE], registered |-> NULL]
    BY <1>1
  <2>2. 0 \in Commands!Position
    BY CommandsAssumption DEF Commands!Position
  <2>3. Fits(idle, m, 0, [goal |-> 0, raised |-> TRUE])
    <3>1. Offset(idle, m) = 0
      BY <1>1, CommandsAssumption DEF Offset
    <3>2. 0 % GoalWidth = 0
      BY CommandsAssumption, SmallRemainder
    <3>. QED  BY <3>1, <3>2 DEF Fits
  <2>4. [goal |-> 0, raised |-> TRUE] \in Commands!Meaning
    BY <2>2 DEF Commands!Meaning, Commands!Position
  <2>. QED  BY <2>1, <2>2, <2>3, <2>4 DEF MotorFits, MotorState
<1>5. MessagesFit(idle, messages)
  BY <1>1 DEF MessagesFit
<1>6. motor = [m \in GoalMotors |-> motor[m]] /\ mixed \in BOOLEAN
  BY <1>1
<1>. QED  BY <1>2, <1>3, <1>4, <1>5, <1>6 DEF CommandsInv

\* The commands that only put something into the queues
LEMMA CommandsAreQueued ==
  ASSUME CommandsInv,
         \/ Commands!WriteMotorValues \/ Commands!InitializeMotors \/ Commands!PerformIdlePose
         \/ \E m \in GoalMotors, value \in Goals : Commands!ForwardSyncWrite(m, value)
         \/ \E dest \in GoalMotors \cup {254} :
              \/ \E kind \in {"write", "register"}, value \in Goals :
                   Commands!ForwardWrite(kind, dest, value)
              \/ Commands!ForwardAction(dest)
  PROVE  CommandsInv'
<1>0. /\ idle \in [GoalMotors -> Int] /\ JobsFit(idle, jobs)
      /\ ~mixed => OneRegister(jobs, currentRegister)
      /\ Goals \subseteq Commands!Position /\ Commands!Position \subseteq Int
      /\ GoalWidth \in Nat \ {0} /\ GoalMiddle \in Int /\ Lifted \in Int
  BY CommandsAssumption DEF CommandsInv, Commands!Position
<1>p. \A v \in Goals : v \in Commands!Position
  BY <1>0
<1>r. \A m \in GoalMotors, v \in Commands!Position :
        /\ Commands!Raised(m, v) \in Commands!Order
        /\ Fits(idle, m, Commands!Raised(m, v).value, Commands!Raised(m, v).meant)
        /\ Commands!Raised(m, v).motor = m
  BY <1>0, RaisedFits
<1>q. ASSUME NEW job, JobFits(idle, job), job.kind # "read", NEW ports,
             jobs' = Commands!Queued(jobs, job, ports),
             UNCHANGED <<idle, currentRegister, motor, messages, mixed>>
      PROVE  CommandsInv'
  <2>1. /\ JobsFit(idle, jobs') /\ (~mixed => OneRegister(jobs', currentRegister))
    BY <1>0, <1>q, CommandIsQueued
  <2>. QED  BY <1>q, <2>1, QueuesHaveChanged
<1>w. \A kind \in {"write", "register", "action"} : \A os \in SUBSET Commands!Order :
        (\A o \in os : Fits(idle, o.motor, o.value, o.meant))
          => JobFits(idle, Commands!Write(kind, os)) /\ Commands!Write(kind, os).kind # "read"
  BY WriteFits
<1>1. CASE Commands!WriteMotorValues
  <2>1. PICK inRange \in SUBSET GoalMotors, goal \in [GoalMotors -> Goals] :
          /\ jobs' = [p \in Commands!Ports |->
               Commands!Queued(jobs, Commands!Write("write",
                 {Commands!Raised(m, goal[m]) : m \in {n \in inRange : Commands!PortOf(n) = p}}), {p})[p]]
          /\ UNCHANGED <<idle, currentRegister, motor, messages, mixed>>
    BY <1>1 DEF Commands!WriteMotorValues
  <2> DEFINE job(p) == Commands!Write("write",
               {Commands!Raised(m, goal[m]) : m \in {n \in inRange : Commands!PortOf(n) = p}})
             t(p) == Commands!Queued(jobs, job(p), {p})
  <2>2. \A p : JobFits(idle, job(p)) /\ job(p).kind # "read"
    <3> SUFFICES ASSUME NEW p PROVE JobFits(idle, job(p)) /\ job(p).kind # "read"
      OBVIOUS
    <3> DEFINE orders == {Commands!Raised(m, goal[m]) : m \in {n \in inRange : Commands!PortOf(n) = p}}
    <3>1. \A o \in orders : o \in Commands!Order /\ Fits(idle, o.motor, o.value, o.meant)
      <4>1. ASSUME NEW m \in GoalMotors, NEW o, o = Commands!Raised(m, goal[m])
            PROVE  o \in Commands!Order /\ Fits(idle, o.motor, o.value, o.meant)
        <5>1. goal[m] \in Goals
          BY <2>1
        <5>2. goal[m] \in Commands!Position
          BY <1>p, <5>1
        <5>. QED  BY <1>r, <4>1, <5>2
      <4>. QED  BY <4>1
    <3> HIDE DEF orders
    <3>2. JobFits(idle, Commands!Write("write", orders)) /\ Commands!Write("write", orders).kind # "read"
      BY <3>1, WriteFits
    <3>. QED  BY <3>2 DEF orders
  <2>3. jobs' = [p \in Commands!Ports |-> t(p)[p]]
    BY <2>1
  <2> HIDE DEF job
  <2>4. \A p : JobsFit(idle, t(p)) /\ (~mixed => OneRegister(t(p), currentRegister))
    BY <1>0, <2>2, CommandIsQueued
  <2> HIDE DEF t
  <2>5. JobsFit(idle, jobs')
    BY <2>3, <2>4 DEF JobsFit
  <2>6. ~mixed => OneRegister(jobs', currentRegister)
    BY <2>3, <2>4 DEF OneRegister
  <2>. QED  BY <2>1, <2>5, <2>6, QueuesHaveChanged
<1>2. CASE Commands!InitializeMotors
  <2> DEFINE job == Commands!Write("write", {})
             more(js) == Commands!Queued(js, job, Commands!Ports)
             OK(js) == JobsFit(idle, js) /\ (~mixed => OneRegister(js, currentRegister))
  <2>1. JobFits(idle, job) /\ job.kind # "read"
    BY WriteFits
  <2>2. jobs' = more(more(more(more(jobs)))) /\ UNCHANGED <<idle, currentRegister, motor, messages, mixed>>
    BY <1>2 DEF Commands!InitializeMotors
  <2> HIDE DEF job
  <2>3. ASSUME NEW js, OK(js) PROVE OK(more(js))
    BY <2>1, <2>3, CommandIsQueued
  <2>4. OK(jobs)
    BY <1>0
  <2> HIDE DEF OK, more
  <2>5. OK(jobs')
    BY <2>2, <2>3, <2>4
  <2>. QED  BY <2>2, <2>5, QueuesHaveChanged DEF OK
<1>3. CASE Commands!PerformIdlePose
  <2> DEFINE lifted(m) == IF m = 5 THEN -Lifted ELSE IF m = 6 THEN Lifted ELSE 0
             order(m) == [motor |-> m, value |-> (idle[m] + lifted(m)) % GoalWidth,
                          meant |-> [goal |-> (GoalMiddle + lifted(m)) % GoalWidth, raised |-> TRUE]]
             orders == {order(m) : m \in GoalMotors}
             speeds == Commands!Queued(jobs, Commands!Write("write", {}), Commands!Ports)
  <2>1. /\ jobs' = Commands!Queued(speeds, Commands!Write("write", orders), Commands!Ports)
        /\ UNCHANGED <<idle, currentRegister, motor, messages, mixed>>
    BY <1>3 DEF Commands!PerformIdlePose
  <2>2. ASSUME NEW m \in GoalMotors
        PROVE  order(m) \in Commands!Order /\ Fits(idle, m, order(m).value, order(m).meant)
    <3>1. lifted(m) \in Int
      BY <1>0
    <3> DEFINE l == lifted(m)
               x == idle[m] + l
               y == GoalMiddle + l
    <3>2. order(m) = [motor |-> m, value |-> x % GoalWidth,
                      meant |-> [goal |-> y % GoalWidth, raised |-> TRUE]]
      OBVIOUS
    <3> HIDE DEF l, lifted, order
    <3>3. x \in Int /\ y \in Int /\ x - Offset(idle, m) = y
      <4>1. idle[m] \in Int /\ l \in Int /\ GoalMiddle \in Int
        BY <1>0, <3>1 DEF l
      <4>. QED  BY <4>1 DEF Offset
    <3> HIDE DEF x, y
    <3>4. x % GoalWidth \in Commands!Position /\ y % GoalWidth \in Commands!Position
      BY <1>0, <3>3 DEF Commands!Position
    <3>5. Fits(idle, m, x % GoalWidth, [goal |-> y % GoalWidth, raised |-> TRUE])
      BY <1>0, <3>3, OrderFits
    <3>6. order(m) \in Commands!Order
      BY <3>2, <3>4 DEF Commands!Order, Commands!Position, Commands!Meaning
    <3>. QED  BY <3>2, <3>5, <3>6
  <2>3. /\ orders \in SUBSET Commands!Order
        /\ \A o \in orders : Fits(idle, o.motor, o.value, o.meant)
    <3>1. \A m \in GoalMotors : order(m).motor = m
      OBVIOUS
    <3> HIDE DEF order
    <3>. QED  BY <2>2, <3>1
  <2> HIDE DEF orders
  <2>4. /\ JobFits(idle, Commands!Write("write", {})) /\ Commands!Write("write", {}).kind # "read"
        /\ JobFits(idle, Commands!Write("write", orders)) /\ Commands!Write("write", orders).kind # "read"
    BY <2>3, WriteFits
  <2>5. JobsFit(idle, speeds) /\ (~mixed => OneRegister(speeds, currentRegister))
    BY <1>0, <2>4, CommandIsQueued
  <2> HIDE DEF speeds
  <2>6. JobsFit(idle, jobs') /\ (~mixed => OneRegister(jobs', currentRegister))
    BY <2>1, <2>4, <2>5, CommandIsQueued
  <2>. QED  BY <2>1, <2>6, QueuesHaveChanged
<1>4. ASSUME NEW m \in GoalMotors, NEW value \in Goals, Commands!ForwardSyncWrite(m, value)
      PROVE  CommandsInv'
  <2>1. PICK written \in IF idle[m] = GoalMiddle THEN {value} ELSE Goals :
          /\ jobs' = Commands!Queued(jobs, Commands!Write("write",
               {[motor |-> m, value |-> written,
                 meant |-> IF idle[m] = GoalMiddle THEN [goal |-> value, raised |-> TRUE]
                           ELSE NULL]}), Commands!Ports)
          /\ UNCHANGED <<idle, currentRegister, motor, messages, mixed>>
    BY <1>4 DEF Commands!ForwardSyncWrite
  <2> DEFINE o == [motor |-> m, value |-> written,
                   meant |-> IF idle[m] = GoalMiddle THEN [goal |-> value, raised |-> TRUE] ELSE NULL]
  <2>2. o \in Commands!Order
    <3>1. value \in 0 .. GoalWidth - 1 /\ written \in 0 .. GoalWidth - 1
      BY <1>0, <2>1 DEF Commands!Position
    <3>. QED  BY <3>1 DEF Commands!Order, Commands!Meaning
  <2>3. Fits(idle, m, o.value, o.meant)
    <3>1. CASE idle[m] = GoalMiddle
      <4>1. /\ o.value = value /\ o.meant = [goal |-> value, raised |-> TRUE]
            /\ value \in 0 .. GoalWidth - 1 /\ value \in Int
        BY <1>0, <2>1, <3>1 DEF Commands!Position
      <4>2. value - Offset(idle, m) = value /\ value % GoalWidth = value
        BY <1>0, <3>1, <4>1, SmallRemainder DEF Offset
      <4>. QED  BY <4>1, <4>2 DEF Fits
    <3>2. CASE idle[m] # GoalMiddle
      BY <3>2 DEF Fits
    <3>. QED  BY <3>1, <3>2
  <2>4. o.motor = m
    OBVIOUS
  <2> HIDE DEF o
  <2>5. JobFits(idle, Commands!Write("write", {o})) /\ Commands!Write("write", {o}).kind # "read"
    BY <2>2, <2>3, <2>4, WriteFits
  <2>6. jobs' = Commands!Queued(jobs, Commands!Write("write", {o}), Commands!Ports)
    BY <2>1 DEF o
  <2>. QED  BY <1>q, <2>1, <2>5, <2>6
<1>5. ASSUME NEW dest \in GoalMotors \cup {254}, NEW kind \in {"write", "register"}, NEW value \in Goals,
             Commands!ForwardWrite(kind, dest, value)
      PROVE  CommandsInv'
  <2> DEFINE one(m) == Commands!AsSent(m, value)
             orders == IF dest = 254 THEN {one(m) : m \in GoalMotors}
                       ELSE {Commands!Raised(dest, value)}
  <2>1. /\ jobs' = Commands!Queued(jobs, Commands!Write(kind, orders), Commands!DestPorts(dest))
        /\ UNCHANGED <<idle, currentRegister, motor, messages, mixed>>
    BY <1>5 DEF Commands!ForwardWrite, Commands!All
  <2>2. value \in Commands!Position /\ value \in Int
    BY <1>0
  <2>3. ASSUME NEW m \in GoalMotors
        PROVE  one(m) \in Commands!Order /\ Fits(idle, m, one(m).value, one(m).meant)
    BY <1>0, <2>2, AsSentFits
  <2>4. \A m \in GoalMotors : one(m).motor = m
    BY <1>0, <2>2, AsSentFits
  <2> HIDE DEF one
  <2>5. orders \in SUBSET Commands!Order /\ \A o \in orders : Fits(idle, o.motor, o.value, o.meant)
    <3>1. CASE dest = 254
      BY <2>3, <2>4, <3>1
    <3>2. CASE dest # 254
      BY <1>0, <2>2, <3>2, RaisedFits
    <3>. QED  BY <3>1, <3>2
  <2> HIDE DEF orders
  <2>6. JobFits(idle, Commands!Write(kind, orders)) /\ Commands!Write(kind, orders).kind # "read"
    <3>1. kind \in {"write", "register", "action"}
      OBVIOUS
    <3>2. PICK os \in SUBSET Commands!Order : os = orders
      BY <2>5
    <3>3. \A o \in os : Fits(idle, o.motor, o.value, o.meant)
      BY <2>5, <3>2
    <3>4. JobFits(idle, Commands!Write(kind, os)) /\ Commands!Write(kind, os).kind # "read"
      BY <1>w, <3>1, <3>3
    <3>. QED  BY <3>2, <3>4
  <2>. QED  BY <1>q, <2>1, <2>6
<1>6. ASSUME NEW dest \in GoalMotors \cup {254}, Commands!ForwardAction(dest) PROVE CommandsInv'
  <2>1. JobFits(idle, Commands!Write("action", {})) /\ Commands!Write("action", {}).kind # "read"
    BY WriteFits
  <2>. QED  BY <1>6, <1>q, <2>1 DEF Commands!ForwardAction
<1>. QED  BY <1>1, <1>2, <1>3, <1>4, <1>5, <1>6

\* A question is put into the queues, with its register.
LEMMA QuestionIsQueued ==
  ASSUME CommandsInv, NEW dest \in GoalMotors \cup {254}, NEW register \in Commands!Registers,
         Commands!ForwardRead(dest, register)
  PROVE  CommandsInv'
<1> DEFINE job == Commands!Read(dest, register)
<1>1. /\ currentRegister' = register
      /\ jobs' = Commands!Queued(jobs, job, Commands!DestPorts(dest))
      /\ UNCHANGED <<idle, motor, messages>>
      /\ mixed' \in BOOLEAN
  BY DEF Commands!ForwardRead, CommandsInv
<1>0. ~mixed' => \A r \in Commands!Reads(jobs) : jobs[r[1]][r[2]].register = register
  <2> DEFINE other(r) == jobs[r[1]][r[2]].register # register
             differs == \E r \in Commands!Reads(jobs) : other(r)
  <2>1. mixed' = (mixed \/ differs)
    BY DEF Commands!ForwardRead
  <2>2. ~differs => \A r \in Commands!Reads(jobs) : jobs[r[1]][r[2]].register = register
    <3>1. \A r : ~other(r) => jobs[r[1]][r[2]].register = register
      OBVIOUS
    <3> HIDE DEF other
    <3>2. ASSUME ~differs, NEW r \in Commands!Reads(jobs) PROVE ~other(r)
      BY <3>2
    <3>. QED  BY <3>1, <3>2
  <2> HIDE DEF differs
  <2>3. ~mixed' => ~differs
    BY <2>1
  <2>. QED  BY <2>2, <2>3, Zenon
<1>2. JobFits(idle, job) /\ job.kind = "read" /\ job.register = register
  BY DEF Commands!Read, JobFits, AnyJob
<1> HIDE DEF job
<1>3. JobsFit(idle, jobs)
  BY DEF CommandsInv
<1>4. JobsFit(idle, jobs')
  BY <1>1, <1>2, <1>3, QueuedFits
<1>5. ASSUME ~mixed' PROVE OneRegister(jobs', register)
  <2>1. \A r \in Commands!Reads(jobs) : jobs[r[1]][r[2]].register = register
    BY <1>0, <1>5
  <2>2. \A p \in Commands!Ports : jobs[p] \in Seq(AnyJob)
    BY <1>3 DEF JobsFit
  <2>3. ASSUME NEW p \in Commands!Ports, NEW k \in 1 .. Len(jobs[p]), jobs[p][k].kind = "read"
        PROVE  jobs[p][k].register = register
    <3>1. k \in DOMAIN jobs[p]
      BY <2>2
    <3>2. <<p, k>> \in Commands!Reads(jobs)
      BY <2>3, <3>1, QuestionsAreReads
    <3>3. <<p, k>>[1] = p /\ <<p, k>>[2] = k
      OBVIOUS
    <3>. QED  BY <2>1, <3>2, <3>3
  <2>4. OneRegister(jobs, register)
    BY <2>3 DEF OneRegister
  <2>. QED  BY <1>1, <1>2, <1>3, <2>4, QueuedOfOne
<1>. QED  BY <1>1, <1>4, <1>5 DEF CommandsInv

\* What was meant under another offset means nothing now.
LEMMA IdleValueChanges ==
  ASSUME CommandsInv, NEW m \in GoalMotors, NEW value \in GoalIdleValues,
         Commands!SetIdleValues(m, value)
  PROVE  CommandsInv'
<1> DEFINE forgotten(o) == IF o.motor = m THEN [o EXCEPT !.meant = NULL] ELSE o
<1>1. /\ idle' = [idle EXCEPT ![m] = value]
      /\ motor' = [motor EXCEPT ![m] =
           [motor[m] EXCEPT !.meant = NULL,
              !.registered = IF motor[m].registered = NULL THEN NULL ELSE forgotten(motor[m].registered)]]
      /\ jobs' = [p \in Commands!Ports |-> [k \in DOMAIN jobs[p] |->
                    [jobs[p][k] EXCEPT !.orders = {forgotten(o) : o \in jobs[p][k].orders}]]]
      /\ messages' = [k \in DOMAIN messages |->
           IF messages[k].motor = m THEN [messages[k] EXCEPT !.meant = NULL] ELSE messages[k]]
      /\ UNCHANGED <<currentRegister, mixed>>
  <2>1. motor' = [motor EXCEPT ![m] =
           [motor[m] EXCEPT !.meant = NULL,
              !.registered = IF motor[m].registered = NULL THEN NULL ELSE forgotten(motor[m].registered)]]
    <3>1. motor' = [motor EXCEPT ![m].meant = NULL,
                      ![m].registered = IF @ = NULL THEN NULL ELSE forgotten(@)]
      BY Zenon DEF Commands!SetIdleValues
    <3>2. motor[m] \in MotorState
      BY DEF CommandsInv, MotorFits
    <3>. QED  BY <3>1, <3>2 DEF MotorState
  <2>2. jobs' = [p \in Commands!Ports |-> [k \in DOMAIN jobs[p] |->
                    [jobs[p][k] EXCEPT !.orders = {forgotten(o) : o \in jobs[p][k].orders}]]]
    BY Zenon DEF Commands!SetIdleValues
  <2>. QED  BY <2>1, <2>2 DEF Commands!SetIdleValues
<1>2. idle' \in [GoalMotors -> Int] /\ \A n \in GoalMotors : n # m => idle'[n] = idle[n]
  BY <1>1, CommandsAssumption DEF CommandsInv
<1>3. ASSUME NEW n, n # m, n \in GoalMotors, NEW v, NEW meant, Fits(idle, n, v, meant)
      PROVE  Fits(idle', n, v, meant)
  BY <1>2, <1>3 DEF Fits, Offset
<1>4. ASSUME NEW o \in Commands!Order
      PROVE  /\ forgotten(o) \in Commands!Order /\ forgotten(o).motor = o.motor
             /\ Fits(idle, o.motor, o.value, o.meant) =>
                  Fits(idle', o.motor, forgotten(o).value, forgotten(o).meant)
  <2>1. CASE o.motor = m
    <3>1. forgotten(o) = [o EXCEPT !.meant = NULL]
      BY <2>1
    <3>2. /\ forgotten(o) \in Commands!Order /\ forgotten(o).motor = o.motor
          /\ forgotten(o).meant = NULL
      BY <3>1 DEF Commands!Order
    <3>. QED  BY <3>2 DEF Fits
  <2>2. CASE o.motor # m
    <3>1. forgotten(o) = o /\ o.motor \in GoalMotors
      BY <2>2 DEF Commands!Order
    <3>. QED  BY <1>3, <2>2, <3>1
  <2>. QED  BY <2>1, <2>2
<1> HIDE DEF forgotten
<1>5. ASSUME NEW job, JobFits(idle, job), NEW new,
             new = [job EXCEPT !.orders = {forgotten(o) : o \in job.orders}]
      PROVE  JobFits(idle', new) /\ new.kind = job.kind /\ new.register = job.register
  <2>1. job \in AnyJob /\ \A o \in job.orders : o \in Commands!Order
    BY <1>5 DEF JobFits, AnyJob
  <2>2. \A o \in job.orders : Fits(idle, o.motor, o.value, o.meant)
    BY <1>5 DEF JobFits
  <2> DEFINE orders == {forgotten(o) : o \in job.orders}
  <2>3. /\ orders \in SUBSET Commands!Order
        /\ \A o \in orders : Fits(idle', o.motor, o.value, o.meant)
    <3>1. \A o \in job.orders : forgotten(o) \in Commands!Order
      BY <1>4, <2>1
    <3>2. \A o \in job.orders : Fits(idle', forgotten(o).motor, forgotten(o).value, forgotten(o).meant)
      BY <1>4, <2>1, <2>2
    <3>. QED  BY <3>1, <3>2
  <2>4. new = [job EXCEPT !.orders = orders]
    BY <1>5
  <2> HIDE DEF orders
  <2>5. /\ new \in AnyJob /\ new.orders = orders /\ new.kind = job.kind
        /\ new.motor = job.motor /\ new.register = job.register
    BY <2>1, <2>3, <2>4 DEF AnyJob
  <2>6. new.kind = "read" => new.motor \in GoalMotors \cup {254}
    BY <1>5, <2>5 DEF JobFits
  <2>. QED  BY <2>3, <2>5, <2>6 DEF JobFits
<1>6. ASSUME NEW p \in Commands!Ports
      PROVE  /\ jobs'[p] \in Seq(AnyJob) /\ Len(jobs'[p]) = Len(jobs[p])
             /\ \A k \in 1 .. Len(jobs[p]) : /\ JobFits(idle', jobs'[p][k])
                                             /\ jobs'[p][k].kind = jobs[p][k].kind
                                             /\ jobs'[p][k].register = jobs[p][k].register
  <2>1. /\ jobs[p] \in Seq(AnyJob) /\ DOMAIN jobs[p] = 1 .. Len(jobs[p]) /\ Len(jobs[p]) \in Nat
        /\ \A k \in 1 .. Len(jobs[p]) : JobFits(idle, jobs[p][k])
    BY DEF CommandsInv, JobsFit
  <2>2. jobs'[p] = [k \in 1 .. Len(jobs[p]) |->
                      [jobs[p][k] EXCEPT !.orders = {forgotten(o) : o \in jobs[p][k].orders}]]
    BY <1>1, <2>1
  <2>3. \A k \in 1 .. Len(jobs[p]) :
          jobs'[p][k] = [jobs[p][k] EXCEPT !.orders = {forgotten(o) : o \in jobs[p][k].orders}]
    BY <2>2
  <2>4. \A k \in 1 .. Len(jobs[p]) : /\ JobFits(idle', jobs'[p][k])
                                     /\ jobs'[p][k].kind = jobs[p][k].kind
                                     /\ jobs'[p][k].register = jobs[p][k].register
    BY <1>5, <2>1, <2>3
  <2>5. \A k \in 1 .. Len(jobs[p]) : jobs'[p][k] \in AnyJob
    BY <2>4 DEF JobFits
  <2>6. jobs'[p] = [k \in 1 .. Len(jobs[p]) |-> jobs'[p][k]]
    BY <2>2
  <2>7. jobs'[p] \in Seq(AnyJob) /\ Len(jobs'[p]) = Len(jobs[p])
    <3>1. PICK t : t = jobs'[p]
      OBVIOUS
    <3>2. t = [k \in 1 .. Len(jobs[p]) |-> t[k]] /\ \A k \in 1 .. Len(jobs[p]) : t[k] \in AnyJob
      BY <2>5, <2>6, <3>1
    <3>3. PICK n \in Nat : n = Len(jobs[p])
      BY <2>1
    <3>4. t \in [1 .. n -> AnyJob]
      BY <3>2, <3>3
    <3>5. t \in Seq(AnyJob) /\ Len(t) = n
      BY <3>4
    <3>. QED  BY <3>1, <3>3, <3>5
  <2>. QED  BY <2>4, <2>7
<1>7. JobsFit(idle', jobs')
  <2>1. jobs' \in [Commands!Ports -> Seq(AnyJob)]
    <3>1. jobs' = [p \in Commands!Ports |-> jobs'[p]]
      BY <1>1
    <3>. QED  BY <1>6, <3>1
  <2>. QED  BY <1>6, <2>1 DEF JobsFit
<1>8. ~mixed' => OneRegister(jobs', currentRegister')
  BY <1>1, <1>6 DEF CommandsInv, OneRegister
<1>9. ASSUME NEW n \in GoalMotors PROVE MotorFits(idle', n, motor'[n])
  <2>0. MotorFits(idle, n, motor[n])
    BY DEF CommandsInv
  <2>1. CASE n # m
    <3>1. motor'[n] = motor[n]
      BY <1>1, <2>1 DEF CommandsInv
    <3>. QED  BY <1>3, <2>0, <2>1, <3>1 DEF MotorFits
  <2>2. CASE n = m
    <3> DEFINE r == motor[m].registered
               s == IF r = NULL THEN NULL ELSE forgotten(r)
    <3>1. motor'[n] = [motor[m] EXCEPT !.meant = NULL, !.registered = s]
      BY <1>1, <2>2 DEF CommandsInv
    <3>2. r # NULL => r \in Commands!Order /\ r.motor = m /\ Fits(idle, m, r.value, r.meant)
      BY <2>0, <2>2 DEF MotorFits, MotorState
    <3>3. s \in Commands!Order \cup {NULL} /\ (s # NULL => s.motor = m /\ Fits(idle', m, s.value, s.meant))
      BY <1>4, <3>2
    <3> HIDE DEF r, s
    <3>4. motor[m] \in MotorState
      BY <2>0, <2>2 DEF MotorFits
    <3>5. /\ motor'[n] \in MotorState /\ motor'[n].meant = NULL /\ motor'[n].registered = s
      BY <3>1, <3>3, <3>4 DEF MotorState
    <3>. QED  BY <2>2, <3>3, <3>5 DEF MotorFits, Fits
  <2>. QED  BY <2>1, <2>2
<1>10. MessagesFit(idle', messages')
  <2>1. messages \in Seq(Message) /\ DOMAIN messages = 1 .. Len(messages) /\ Len(messages) \in Nat
    BY DEF CommandsInv, MessagesFit
  <2>2. \A k \in 1 .. Len(messages) : messages[k] \in Message /\ AnswerFits(idle, messages[k])
    BY <2>1 DEF CommandsInv, MessagesFit
  <2>3. messages' = [k \in 1 .. Len(messages) |-> messages'[k]]
    BY <1>1, <2>1
  <2>4. ASSUME NEW k \in 1 .. Len(messages)
        PROVE  messages'[k] \in Message /\ AnswerFits(idle', messages'[k])
    <3>1. \/ messages'[k] = [messages[k] EXCEPT !.meant = NULL]
          \/ messages'[k] = messages[k] /\ messages[k].motor # m
      BY <1>1, <2>1
    <3>2. CASE messages'[k] = [messages[k] EXCEPT !.meant = NULL]
      <4>1. messages'[k] \in Message /\ messages'[k].meant = NULL
        BY <2>2, <3>2 DEF Message
      <4>. QED  BY <4>1 DEF AnswerFits
    <3>3. CASE messages'[k] = messages[k] /\ messages[k].motor # m
      <4>1. messages[k].motor \in GoalMotors
        BY <2>2 DEF Message
      <4>2. Offset(idle', messages[k].motor) = Offset(idle, messages[k].motor)
        BY <1>2, <3>3, <4>1 DEF Offset
      <4>. QED  BY <2>2, <3>3, <4>2 DEF AnswerFits, Back
    <3>. QED  BY <3>1, <3>2, <3>3
  <2>5. messages' \in Seq(Message) /\ Len(messages') = Len(messages)
    BY <2>1, <2>3, <2>4
  <2>. QED  BY <2>4, <2>5 DEF MessagesFit
<1>11. motor' = [n \in GoalMotors |-> motor'[n]]
  BY <1>1 DEF CommandsInv
<1>12. mixed' \in BOOLEAN
  BY <1>1 DEF CommandsInv
<1>. QED  BY <1>2, <1>7, <1>8, <1>9, <1>10, <1>11, <1>12 DEF CommandsInv

\* The motors do what they are told: each of them takes an order that fits it, or
\* none.
LEMMA OrdersAreTaken ==
  ASSUME CommandsInv, NEW p \in Commands!Ports, Commands!Written(p)
  PROVE  CommandsInv'
<1> DEFINE job == Head(jobs[p])
           mine(m) == {o \in job.orders : o.motor = m /\ Commands!PortOf(m) = p}
           first(m) == CHOOSE o \in mine(m) : TRUE
<1>1. jobs[p] # <<>> /\ Commands!Done(p) /\ UNCHANGED <<idle, currentRegister, messages>>
  BY DEF Commands!Written
<1>2. /\ JobsFit(idle, jobs') /\ mixed' \in BOOLEAN
      /\ ~mixed' => OneRegister(jobs', currentRegister)
      /\ JobFits(idle, job)
  BY <1>1, DoneFits
<1>3. PICK deaf :
        motor' = [m \in GoalMotors |->
          CASE m = deaf -> motor[m]
            [] m # deaf /\ job.kind = "register" /\ mine(m) # {} ->
                 [motor[m] EXCEPT !.registered = first(m)]
            [] m # deaf /\ job.kind = "write" /\ mine(m) # {} ->
                 [motor[m] EXCEPT !.goal = first(m).value, !.meant = first(m).meant]
            [] m # deaf /\ job.kind = "action" /\ Commands!PortOf(m) = p /\ motor[m].registered # NULL ->
                 [goal |-> motor[m].registered.value, meant |-> motor[m].registered.meant,
                  registered |-> NULL]
            [] OTHER -> motor[m]]
  BY Zenon DEF Commands!Written
<1>4. ASSUME NEW m \in GoalMotors, mine(m) # {}
      PROVE  /\ first(m) \in Commands!Order /\ first(m).motor = m
             /\ Fits(idle, m, first(m).value, first(m).meant)
  <2>1. first(m) \in mine(m)
    BY <1>4
  <2>2. job.orders \in SUBSET Commands!Order
    BY <1>2 DEF JobFits, AnyJob
  <2> HIDE DEF job, first
  <2>3. first(m) \in job.orders /\ first(m).motor = m
    BY <2>1
  <2>. QED  BY <1>2, <2>2, <2>3 DEF JobFits
<1>5. ASSUME NEW m \in GoalMotors PROVE MotorFits(idle, m, motor'[m])
  <2>0. MotorFits(idle, m, motor[m]) /\ motor[m] \in MotorState
    BY DEF CommandsInv, MotorFits
  <2> DEFINE r == motor[m].registered
  <2>1. \/ motor'[m] = motor[m]
        \/ mine(m) # {} /\ motor'[m] = [motor[m] EXCEPT !.registered = first(m)]
        \/ mine(m) # {} /\ motor'[m] = [motor[m] EXCEPT !.goal = first(m).value, !.meant = first(m).meant]
        \/ r # NULL /\ motor'[m] = [goal |-> r.value, meant |-> r.meant, registered |-> NULL]
    <3> HIDE DEF mine, first, job
    <3>. QED  BY <1>3
  <2>2. r # NULL => r \in Commands!Order /\ r.motor = m /\ Fits(idle, m, r.value, r.meant)
    BY <2>0 DEF MotorFits, MotorState
  <2> HIDE DEF mine, first, job, r
  <2>3. CASE mine(m) # {} /\ motor'[m] = [motor[m] EXCEPT !.registered = first(m)]
    <3>1. /\ motor'[m] \in MotorState /\ motor'[m].registered = first(m)
          /\ motor'[m].goal = motor[m].goal /\ motor'[m].meant = motor[m].meant
      BY <1>4, <2>0, <2>3 DEF MotorState
    <3>. QED  BY <1>4, <2>0, <2>3, <3>1 DEF MotorFits
  <2>4. CASE mine(m) # {} /\ motor'[m] = [motor[m] EXCEPT !.goal = first(m).value, !.meant = first(m).meant]
    <3>1. first(m).value \in Commands!Position /\ first(m).meant \in Commands!Meaning \cup {NULL}
      BY <1>4, <2>4 DEF Commands!Order, Commands!Position
    <3>2. /\ motor'[m] \in MotorState /\ motor'[m].registered = motor[m].registered
          /\ motor'[m].goal = first(m).value /\ motor'[m].meant = first(m).meant
      BY <2>0, <2>4, <3>1 DEF MotorState
    <3>. QED  BY <1>4, <2>0, <2>4, <3>2 DEF MotorFits
  <2>5. CASE r # NULL /\ motor'[m] = [goal |-> r.value, meant |-> r.meant, registered |-> NULL]
    <3>1. r.value \in Commands!Position /\ r.meant \in Commands!Meaning \cup {NULL}
      BY <2>2, <2>5 DEF Commands!Order, Commands!Position
    <3>2. /\ motor'[m] \in MotorState /\ motor'[m].registered = NULL
          /\ motor'[m].goal = r.value /\ motor'[m].meant = r.meant
      BY <2>5, <3>1 DEF MotorState
    <3>. QED  BY <2>2, <2>5, <3>2 DEF MotorFits
  <2>. QED  BY <2>0, <2>1, <2>3, <2>4, <2>5
<1>6. motor' = [m \in GoalMotors |-> motor'[m]]
  <2> HIDE DEF mine, first, job
  <2>. QED  BY <1>3
<1> HIDE DEF mine, first, job
<1>. QED  BY <1>1, <1>2, <1>5, <1>6 DEF CommandsInv

\* An answer is what was meant, unless questions of different registers are mixed.
LEMMA AnswersAreMeant ==
  ASSUME CommandsInv, NEW p \in Commands!Ports,
         Commands!OnMotorRead(p) \/ Commands!OnMotorNotRead(p)
  PROVE  CommandsInv'
<1>1. /\ jobs[p] # <<>> /\ Commands!Done(p) /\ Head(jobs[p]).kind = "read"
      /\ currentRegister' = NULL /\ UNCHANGED <<idle, motor>>
  BY DEF Commands!OnMotorRead, Commands!OnMotorNotRead
<1>2. /\ JobsFit(idle, jobs') /\ mixed' \in BOOLEAN
      /\ JobFits(idle, Head(jobs[p]))
      /\ ~mixed => currentRegister = NULL \/ Head(jobs[p]).register = currentRegister
  BY <1>1, DoneFits
<1>3. OneRegister(jobs', currentRegister')
  BY <1>1 DEF OneRegister
<1>4. MessagesFit(idle', messages')
  <2>0. messages \in Seq(Message) /\ \A k \in 1 .. Len(messages) : AnswerFits(idle, messages[k])
    BY DEF CommandsInv, MessagesFit
  <2>1. CASE UNCHANGED messages
    BY <1>1, <2>1 DEF CommandsInv
  <2>2. CASE ~UNCHANGED messages
    <3> DEFINE m == Head(jobs[p]).motor
               d == Offset(idle, m)
               v == motor[m].goal
               meant == motor[m].meant
               adjusted == IF currentRegister = "goal" THEN Commands!RemoveOffsets(m, v) ELSE v
               told == [motor |-> m, value |-> adjusted, meant |-> meant, mixed |-> mixed]
    <3>1. /\ m # 254 /\ currentRegister # NULL /\ Head(jobs[p]).register = "goal"
          /\ Commands!Posted(told)
      BY <2>2 DEF Commands!OnMotorRead, Commands!OnMotorNotRead, Commands!All
    <3>2. m \in GoalMotors
      BY <1>1, <1>2, <3>1 DEF JobFits
    <3>3. MotorFits(idle, m, motor[m]) /\ motor[m] \in MotorState
      BY <3>2 DEF CommandsInv, MotorFits
    <3>4. /\ v \in 0 .. GoalWidth - 1 /\ v \in Int /\ meant \in Commands!Meaning \cup {NULL}
          /\ Fits(idle, m, v, meant) /\ GoalWidth \in Nat \ {0}
      BY <3>3, CommandsAssumption DEF MotorState, MotorFits, Commands!Position
    <3>5. d \in Int /\ Commands!RemoveOffsets(m, v) = (v - d) % GoalWidth
      BY <3>2, OffsetsAreIntegers DEF CommandsInv, Commands!RemoveOffsets, Offset
    <3>6. /\ told.motor = m /\ told.value = adjusted /\ told.meant = meant /\ told.mixed = mixed
          /\ adjusted = (v - d) % GoalWidth \/ (adjusted = v /\ currentRegister # "goal")
      BY <3>5
    <3>7. currentRegister # "goal" => mixed
      BY <1>2, <3>1
    <3>8. told \in Message
      <4>1. mixed \in BOOLEAN
        BY DEF CommandsInv
      <4>2. (v - d) % GoalWidth \in Int
        <5>1. v - d \in Int
          BY <3>4, <3>5
        <5> HIDE DEF v, d
        <5>. QED  BY <3>4, <5>1
      <4>3. adjusted \in Int
        BY <3>4, <3>6, <4>2
      <4> HIDE DEF adjusted, v, d, meant, m
      <4>. QED  BY <3>2, <3>4, <4>1, <4>3 DEF Message
    <3> HIDE DEF told, adjusted, m, v, d, meant
    <3>9. meant # NULL => Back(idle, m, meant) = (v - d) % GoalWidth
      BY <3>4 DEF Back, Fits, d
    <3>10. (((v - d) % GoalWidth) + d) % GoalWidth = v
      <4>1. v - d \in Int /\ -d \in Int /\ (v - d) - (-d) = v
        BY <3>4, <3>5
      <4>2. (v - d) % GoalWidth \in Int
        BY <3>4, <4>1
      <4> DEFINE a == (v - d) % GoalWidth
                 b == v - d
                 c == -d
      <4>3. (a - c) % GoalWidth = (b - c) % GoalWidth
        <5>1. b \in Int /\ c \in Int /\ a = b % GoalWidth
          BY <4>1
        <5> HIDE DEF b, c
        <5>2. ((b % GoalWidth) - c) % GoalWidth = (b - c) % GoalWidth
          BY <3>4, <5>1, OffsetOfRemainder
        <5>. QED  BY <5>1, <5>2, Zenon
      <4>4. a - c = a + d /\ b - c = v
        BY <3>4, <3>5, <4>2
      <4>5. v % GoalWidth = v
        BY <3>4, SmallRemainder
      <4>6. a - c = a + d /\ b - c = v
        BY <4>4
      <4> HIDE DEF a, b, c
      <4>7. (a + d) % GoalWidth = v
        BY <4>3, <4>5, <4>6
      <4>. QED  BY <4>7 DEF a
    <3>11. AnswerFits(idle, told)
      BY <3>6, <3>7, <3>9, <3>10 DEF AnswerFits, d
    <3>12. messages' = Append(messages, told)
      BY <2>2, <3>1 DEF Commands!Posted
    <3>13. /\ messages' \in Seq(Message) /\ Len(messages') = Len(messages) + 1
           /\ Len(messages) \in Nat
           /\ messages'[Len(messages) + 1] = told
           /\ \A k \in 1 .. Len(messages) : messages'[k] = messages[k]
      BY <2>0, <3>8, <3>12
    <3>14. \A k \in 1 .. Len(messages') : AnswerFits(idle, messages'[k])
      <4> SUFFICES ASSUME NEW k \in 1 .. Len(messages') PROVE AnswerFits(idle, messages'[k])
        OBVIOUS
      <4>1. k \in 1 .. Len(messages) \/ k = Len(messages) + 1
        BY <3>13
      <4>. QED  BY <2>0, <3>11, <3>13, <4>1
    <3>. QED  BY <1>1, <3>13, <3>14 DEF MessagesFit
  <2>. QED  BY <2>1, <2>2
<1>. QED  BY <1>1, <1>2, <1>3, <1>4 DEF CommandsInv

\* Goals, questions, offsets and the jobs that are done leave CommandsInv as it is.
LEMMA CommandsGoOn == CommandsInv /\ [Commands!Next]_commands => CommandsInv'
<1> SUFFICES ASSUME CommandsInv, [Commands!Next]_commands PROVE CommandsInv'
  OBVIOUS
<1>1. CASE Commands!OnForwardMotorReadMsg
  <2>1. /\ messages # <<>> /\ messages' = Tail(messages)
        /\ UNCHANGED <<idle, currentRegister, jobs, motor, mixed>>
    BY <1>1 DEF Commands!OnForwardMotorReadMsg
  <2>2. messages \in Seq(Message) /\ \A k \in 1 .. Len(messages) : AnswerFits(idle, messages[k])
    BY DEF CommandsInv, MessagesFit
  <2>3. /\ messages' \in Seq(Message)
        /\ \A k \in 1 .. Len(messages') : k + 1 \in 1 .. Len(messages) /\ messages'[k] = messages[k + 1]
    BY <2>1, <2>2
  <2>4. MessagesFit(idle, messages')
    BY <2>2, <2>3 DEF MessagesFit
  <2>. QED  BY <2>1, <2>4 DEF CommandsInv
<1>2. CASE UNCHANGED commands
  BY <1>2 DEF commands, CommandsInv
<1>3. ASSUME NEW m \in GoalMotors, NEW value \in GoalIdleValues, Commands!SetIdleValues(m, value)
      PROVE  CommandsInv'
  BY <1>3, IdleValueChanges
<1>4. ASSUME NEW dest \in GoalMotors \cup {254}, NEW register \in Commands!Registers,
             Commands!ForwardRead(dest, register)
      PROVE  CommandsInv'
  BY <1>4, QuestionIsQueued
<1>5. ASSUME NEW p \in Commands!Ports,
             Commands!Written(p) \/ Commands!OnMotorRead(p) \/ Commands!OnMotorNotRead(p)
      PROVE  CommandsInv'
  BY <1>5, OrdersAreTaken, AnswersAreMeant
<1>6. ASSUME \/ Commands!WriteMotorValues \/ Commands!InitializeMotors \/ Commands!PerformIdlePose
             \/ \E m \in GoalMotors, value \in Goals : Commands!ForwardSyncWrite(m, value)
             \/ \E dest \in GoalMotors \cup {254} :
                  \/ \E kind \in {"write", "register"}, value \in Goals :
                       Commands!ForwardWrite(kind, dest, value)
                  \/ Commands!ForwardAction(dest)
      PROVE  CommandsInv'
  BY <1>6, CommandsAreQueued
<1>. QED  BY <1>1, <1>2, <1>3, <1>4, <1>5, <1>6 DEF Commands!Next, Commands!All

\* Messages that fit are read back as they were meant.
LEMMA FittingAnswersAreReadBack == CommandsInv => Commands!ReadsBackWhatWasMeant
<1> SUFFICES ASSUME CommandsInv, NEW k \in DOMAIN messages, messages[k].meant # NULL
             PROVE  LET back == IF messages[k].meant.raised THEN messages[k].meant.goal
                                ELSE Commands!RemoveOffsets(messages[k].motor, messages[k].meant.goal)
                    IN \/ messages[k].value = back
                       \/ messages[k].mixed /\ messages[k].value = Commands!AddOffsets(messages[k].motor, back)
  BY DEF Commands!ReadsBackWhatWasMeant
<1>1. k \in 1 .. Len(messages) /\ AnswerFits(idle, messages[k])
  BY DEF CommandsInv, MessagesFit
<1>. QED  BY <1>1 DEF AnswerFits, Back, Offset, Commands!RemoveOffsets, Commands!AddOffsets

\* A goal that the main computer reads back is the one it has set by a write to the
\* motor, a registered write or the array of all goals, and a goal set by a write to
\* all motors comes back less the offset that was not added; an answer to a question
\* that was mixed with others is off by the offset at most. This is so whatever the
\* motors, their offsets and the width of a position. (Not of goals set under another
\* offset, or by a SYNC_WRITE while there is one.)
THEOREM GoalsAreReadBack == Spec => []ReadsBackWhatWasMeant
<1> DEFINE I == part = "commands" => CommandsInv
<1>1. Init => I
  BY CommandsBegin DEF Init
<1>2. I /\ [Next]_partVars => I'
  BY PartSteps, CommandsGoOn
<1>3. I => ReadsBackWhatWasMeant
  BY FittingAnswersAreReadBack DEF ReadsBackWhatWasMeant
<1>. QED  BY <1>1, <1>2, <1>3, PTL DEF Spec, partVars


-----------------------------------------------------------------------------
\* The framed protocol: the n-th of what a frame carries,
Carried(frame, n) == IF n = 1 THEN frame.id ELSE frame.payload[n - 1]

\* how many bytes that are before the checksum,
Length(frame) == Len(frame.payload) + 1

\* and what the sender is doing.
FrameUnderWay == [frame : FramesSent, at : Nat, escaped : BOOLEAN, checkSum : 0 .. 255]

SenderOK ==
  sending = NULL \/
    /\ sending \in FrameUnderWay
    /\ sending.at <= Length(sending.frame) + 2
    /\ sending.escaped => /\ sending.at \in 1 .. Length(sending.frame) + 1
                          /\ sending.at = Length(sending.frame) + 1 => Protocol!Symbol # 240
    /\ sending.at = Length(sending.frame) + 2 => sending.checkSum = 0
    /\ sending.at = 0 => history.fault = "none"

Receivers ==
  [buffer : BOOLEAN, mode : {"unknown", "payload", "escaped", "end"},
   received : Seq(0 .. 255), checkSum : 0 .. 255]

ReceiverOK == receiveState \in Receivers /\ Len(receiveState.received) <= MaxPacketLen

Posts == [frame : [id : 0 .. 255, payload : Seq(0 .. 255)], queued : BOOLEAN]

HistoryOK ==
  history \in [faults : 0 .. MaxFaults, inRow : 0 .. 2, fault : {"none", "wrong", "other"},
               over : FramesSent \cup {NULL}]

\* The header has been sent.
InFrame == sending # NULL /\ sending.at >= 1

\* Once a frame was begun that nothing has happened to yet, or if nothing has ever
\* happened, the receiver takes a byte for an escaped one only if it is one.
InStep ==
  history.faults = 0 \/ history.inRow >= 1 \/ (InFrame /\ history.fault = "none") =>
    /\ receiveState.mode = "escaped" => sending # NULL /\ sending.escaped
    /\ sending # NULL /\ sending.escaped => receiveState.mode # "payload"

\* Nothing has happened to this frame and to the one before, or a wrong byte in it is all.
Clean == history.fault = "none" /\ (history.faults = 0 \/ history.inRow >= 1)
OneWrong == history.fault = "wrong" /\ history.faults = 1

\* Then the receiver has what was sent of the frame, and its sum is the sender's but for
\* the wrong byte; or it has given the frame up.
HasSent ==
  /\ sending.at <= MaxPacketLen =>
       /\ receiveState.buffer /\ Len(receiveState.received) = sending.at - 1
       /\ receiveState.mode = IF sending.escaped THEN "escaped" ELSE "payload"
       /\ receiveState.checkSum = sending.checkSum <=> Clean
       /\ Clean => \A n \in 1 .. sending.at - 1 :
            n <= Length(sending.frame) => receiveState.received[n] = Carried(sending.frame, n)
  /\ sending.at > MaxPacketLen =>
       \/ Protocol!BeginsInside(sending.frame)
       \/ /\ receiveState.buffer /\ Len(receiveState.received) >= MaxPacketLen
          /\ receiveState.mode # "escaped"

ProtocolInv ==
  /\ SenderOK /\ ReceiverOK /\ HistoryOK /\ posted \in Posts \cup {NULL}
  /\ InStep
  /\ InFrame /\ (Clean \/ OneWrong) => HasSent
  /\ Protocol!FramesFollowNoise /\ Protocol!WrongByteIsCaught

\* What is in a sequence.
LEMMA MemberOf ==
  ASSUME NEW S, NEW s \in Seq(S), NEW i \in 1 .. Len(s)
  PROVE  s[i] \in S
  OBVIOUS

\* A place of the frame under way and its symbol.
LEMMA SymbolIs ==
  ASSUME SenderOK, sending # NULL
  PROVE  /\ sending.frame \in FramesSent /\ sending.at \in Nat /\ sending.escaped \in BOOLEAN
         /\ sending.checkSum \in 0 .. 255 /\ Length(sending.frame) \in Nat \ {0}
         /\ sending.at \in 0 .. Length(sending.frame) + 2
         /\ sending.at = 0 => Protocol!Symbol = 240
         /\ sending.at \in 1 .. Length(sending.frame) =>
              Protocol!Symbol = Carried(sending.frame, sending.at)
         /\ sending.at = Length(sending.frame) + 1 =>
              Protocol!Symbol = (256 - sending.checkSum) % 256
         /\ sending.at = Length(sending.frame) + 2 => Protocol!Symbol = 15
         /\ Protocol!Symbol \in 0 .. 255
<1>1. /\ sending.frame \in FramesSent /\ sending.at \in Nat /\ sending.escaped \in BOOLEAN
      /\ sending.checkSum \in 0 .. 255 /\ sending.at <= Length(sending.frame) + 2
  BY DEF SenderOK, FrameUnderWay
<1>2. sending.frame.id \in 0 .. 255 /\ sending.frame.payload \in Seq(0 .. 255)
  BY <1>1, ProtocolAssumption
<1>3. Len(sending.frame.payload) \in Nat /\ Length(sending.frame) = Len(sending.frame.payload) + 1
  BY <1>2 DEF Length
<1>4. sending.at \in 0 .. Length(sending.frame) + 2
  BY <1>1, <1>3
<1>5. sending.at = 0 => Protocol!Symbol = 240
  BY <1>3 DEF Protocol!Symbol, Protocol!BEGINNING
<1>6. sending.at = 1 => Protocol!Symbol = sending.frame.id
  BY <1>3 DEF Protocol!Symbol
<1>7. ASSUME sending.at \in 2 .. Length(sending.frame)
      PROVE  /\ Protocol!Symbol = sending.frame.payload[sending.at - 1]
             /\ sending.frame.payload[sending.at - 1] \in 0 .. 255
  <2>1. sending.at \in 2 .. Len(sending.frame.payload) + 1 /\ sending.at # 0 /\ sending.at # 1
    BY <1>1, <1>3, <1>7
  <2>2. Protocol!Symbol = sending.frame.payload[sending.at - 1]
    BY <1>3, <2>1 DEF Protocol!Symbol
  <2>3. sending.at - 1 \in 1 .. Len(sending.frame.payload)
    BY <1>1, <1>3, <2>1
  <2>4. sending.frame.payload[sending.at - 1] \in 0 .. 255
    BY <1>2, <2>3, MemberOf
  <2>. QED  BY <2>2, <2>4
<1>8. sending.at = Length(sending.frame) + 1 => Protocol!Symbol = (256 - sending.checkSum) % 256
  BY <1>1, <1>3 DEF Protocol!Symbol
<1>9. sending.at = Length(sending.frame) + 2 => Protocol!Symbol = 15
  BY <1>1, <1>3 DEF Protocol!Symbol, Protocol!END
<1>10. (256 - sending.checkSum) % 256 \in 0 .. 255
  BY <1>1
<1>11. sending.at \in 1 .. Length(sending.frame) =>
         Protocol!Symbol = Carried(sending.frame, sending.at)
  BY <1>3, <1>6, <1>7 DEF Carried
<1>12. Protocol!Symbol \in 0 .. 255
  <2>1. CASE sending.at = 0
    BY <2>1, <1>5
  <2>2. CASE sending.at = 1
    BY <2>2, <1>2, <1>6
  <2>3. CASE sending.at \in 2 .. Length(sending.frame)
    BY <2>3, <1>7
  <2>4. CASE sending.at = Length(sending.frame) + 1
    BY <2>4, <1>8, <1>10
  <2>5. CASE sending.at = Length(sending.frame) + 2
    BY <2>5, <1>9
  <2>6. \/ sending.at = 0 \/ sending.at = 1 \/ sending.at \in 2 .. Length(sending.frame)
        \/ sending.at = Length(sending.frame) + 1 \/ sending.at = Length(sending.frame) + 2
    BY <1>1, <1>3, <1>4
  <2>. QED  BY <2>1, <2>2, <2>3, <2>4, <2>5, <2>6
<1>. QED  BY <1>1, <1>3, <1>4, <1>5, <1>8, <1>9, <1>11, <1>12

\* What goes on the line: an ESCAPE only before what it escapes, a BEGINNING or an END
\* that is not escaped only at the ends of the frame.
LEMMA NextByteIs ==
  ASSUME SenderOK, sending # NULL
  PROVE  /\ Protocol!NextByte \in 0 .. 255
         /\ Protocol!MustEscape => Protocol!NextByte = 60 /\ ~sending.escaped
                                   /\ sending.at \in 1 .. Length(sending.frame) + 1
         /\ ~Protocol!MustEscape => Protocol!NextByte = Protocol!Symbol
         /\ ~Protocol!MustEscape /\ ~sending.escaped
              /\ sending.at \in 1 .. Length(sending.frame) + 1 =>
              Protocol!NextByte \notin {240, 15, 60}
<1>1. Length(sending.frame) = Len(sending.frame.payload) + 1 /\ Length(sending.frame) \in Nat
  BY SymbolIs DEF Length
<1>2. Len(sending.frame.payload) \in Nat
  <2>1. sending.frame.payload \in Seq(0 .. 255)
    BY ProtocolAssumption, SymbolIs
  <2>. QED  BY <2>1
<1>. QED  BY <1>1, <1>2, SymbolIs DEF Protocol!NextByte, Protocol!MustEscape, Protocol!Control,
             Protocol!BEGINNING, Protocol!END, Protocol!ESCAPE

\* A sum is a byte.
LEMMA ByteSum == \A a, b \in 0 .. 255 : (a + b) % 256 \in 0 .. 255
  OBVIOUS

\* The sender goes on to the byte that was escaped, to the next place, or ends.
LEMMA SenderMoves ==
  ASSUME SenderOK, sending # NULL, sending' = Protocol!Sent
  PROVE  /\ Protocol!MustEscape =>
              /\ InFrame' /\ sending'.escaped /\ sending'.at = sending.at
              /\ sending'.frame = sending.frame
              /\ sending'.checkSum = (sending.checkSum + 60) % 256
         /\ ~Protocol!MustEscape /\ sending.at = Length(sending.frame) + 2 => sending' = NULL
         /\ ~Protocol!MustEscape /\ sending.at # Length(sending.frame) + 2 =>
              /\ InFrame' /\ ~sending'.escaped /\ sending'.at = sending.at + 1
              /\ sending'.frame = sending.frame
              /\ sending'.checkSum = IF sending.at = 0 THEN 0
                                     ELSE (sending.checkSum + Protocol!NextByte) % 256
         /\ SenderOK'
<1> DEFINE sum == IF sending.at = 0 THEN 0 ELSE (sending.checkSum + Protocol!NextByte) % 256
<1>0. sending \in FrameUnderWay
  BY DEF SenderOK
<1>1. Length(sending.frame) = Len(sending.frame.payload) + 1 /\ Length(sending.frame) \in Nat
  BY SymbolIs DEF Length
<1>2. sum \in 0 .. 255
  <2>1. sending.checkSum \in 0 .. 255 /\ Protocol!NextByte \in 0 .. 255
    BY SymbolIs, NextByteIs
  <2>2. (sending.checkSum + Protocol!NextByte) % 256 \in 0 .. 255
    BY <2>1, ByteSum
  <2>. QED  BY <2>2
<1>3. NULL \notin FrameUnderWay
  BY ProtocolAssumption DEF FrameUnderWay
<1>4. sending' = IF Protocol!MustEscape
                   THEN [sending EXCEPT !.escaped = TRUE, !.checkSum = sum]
                 ELSE IF sending.at = Length(sending.frame) + 2
                   THEN NULL
                 ELSE [sending EXCEPT !.at = @ + 1, !.escaped = FALSE, !.checkSum = sum]
  <2>1. (sending.at = Len(sending.frame.payload) + 3) <=> (sending.at = Length(sending.frame) + 2)
    BY <1>1, SymbolIs, ProtocolAssumption
  <2>. QED  BY <2>1 DEF Protocol!Sent
<1> HIDE DEF sum
<1>5. CASE Protocol!MustEscape
  <2>1. sending' = [sending EXCEPT !.escaped = TRUE, !.checkSum = sum]
    BY <1>4, <1>5
  <2>2. /\ sending' \in FrameUnderWay /\ sending'.escaped = TRUE /\ sending'.checkSum = sum
        /\ sending'.at = sending.at /\ sending'.frame = sending.frame
    BY <1>0, <1>2, <2>1 DEF FrameUnderWay
  <2>3. sending.at \in 1 .. Length(sending.frame) + 1 /\ Protocol!NextByte = 60
    BY <1>5, NextByteIs
  <2>4. sum = (sending.checkSum + 60) % 256
    BY <2>3, <1>1, SymbolIs DEF sum
  <2>5. InFrame'
    BY <1>1, <1>3, <2>2, <2>3 DEF InFrame
  <2>6. sending.at = Length(sending.frame) + 1 => Protocol!Symbol' # 240
    <3>1. SUFFICES ASSUME sending.at = Length(sending.frame) + 1 PROVE Protocol!Symbol' # 240
      OBVIOUS
    <3>2. Protocol!Symbol = (256 - sending.checkSum) % 256 /\ sending.checkSum \in 0 .. 255
      BY <3>1, SymbolIs
    <3>3. (256 - sending.checkSum) % 256 \in {240, 15, 60}
      BY <1>5, <3>2 DEF Protocol!MustEscape, Protocol!Control, Protocol!BEGINNING, Protocol!END,
                        Protocol!ESCAPE
    <3>4. sending.checkSum \in {16, 241, 196}
      BY <3>2, <3>3
    <3>5. sum \in {76, 45, 0}
      BY <2>4, <3>4
    <3>6. Protocol!Symbol' = (256 - sum) % 256
      BY <1>1, <2>2, <3>1, SymbolIs DEF Protocol!Symbol, Length
    <3>. QED  BY <3>5, <3>6
  <2>7. SenderOK'
    BY <1>1, <2>2, <2>3, <2>6, SymbolIs DEF SenderOK, Length
  <2>. QED  BY <1>5, <2>2, <2>4, <2>5, <2>7
<1>6. CASE ~Protocol!MustEscape /\ sending.at = Length(sending.frame) + 2
  <2>1. sending' = NULL
    BY <1>4, <1>6
  <2>. QED  BY <1>6, <2>1 DEF SenderOK
<1>7. CASE ~Protocol!MustEscape /\ sending.at # Length(sending.frame) + 2
  <2>1. sending' = [sending EXCEPT !.at = @ + 1, !.escaped = FALSE, !.checkSum = sum]
    BY <1>4, <1>7
  <2>2. /\ sending' \in FrameUnderWay /\ sending'.escaped = FALSE /\ sending'.checkSum = sum
        /\ sending'.at = sending.at + 1 /\ sending'.frame = sending.frame
    <3>1. sending.at + 1 \in Nat
      BY SymbolIs
    <3>. QED  BY <1>0, <1>2, <2>1, <3>1 DEF FrameUnderWay
  <2>3. InFrame'
    BY <1>3, <2>2, SymbolIs DEF InFrame
  <2>4. sending.at \in Nat /\ sending.at <= Length(sending.frame) + 1
    BY <1>1, <1>7, SymbolIs
  <2>5. sending.at = Length(sending.frame) + 1 => sum = 0
    <3>1. SUFFICES ASSUME sending.at = Length(sending.frame) + 1 PROVE sum = 0
      OBVIOUS
    <3>2. Protocol!NextByte = (256 - sending.checkSum) % 256 /\ sending.checkSum \in 0 .. 255
      BY <1>7, <3>1, SymbolIs, NextByteIs
    <3>3. sum = (sending.checkSum + Protocol!NextByte) % 256
      BY <1>1, <3>1 DEF sum
    <3>. QED  BY <3>2, <3>3
  <2>6. SenderOK'
    BY <1>1, <2>2, <2>4, <2>5 DEF SenderOK, Length
  <2>. QED  BY <1>7, <2>2, <2>3, <2>6 DEF sum
<1>. QED  BY <1>5, <1>6, <1>7

\* What a byte does to the receiver, if it does not complete a frame.
ByteTaken(r, b, q) ==
  /\ q \in Receivers /\ Len(q.received) <= MaxPacketLen /\ q.buffer = r.buffer
  /\ r.mode # "escaped" /\ b = 240 =>
       q.mode = "payload" /\ q.received = <<>> /\ q.checkSum = 0
  /\ ~(r.mode # "escaped" /\ b = 240) /\ Len(r.received) >= MaxPacketLen =>
       q.mode = "unknown" /\ q.received = r.received
  /\ r.mode # "escaped" /\ b = 15 => q.mode \in {"unknown", "end"}
  /\ r.mode = "payload" /\ Len(r.received) < MaxPacketLen /\ b = 60 =>
       /\ q.mode = "escaped" /\ q.received = r.received
       /\ q.checkSum = (r.checkSum + b) % 256
  /\ Len(r.received) < MaxPacketLen
       /\ (r.mode = "escaped" \/ (r.mode = "payload" /\ b \notin {240, 15, 60})) =>
       /\ q.mode = "payload" /\ q.received = Append(r.received, b)
       /\ q.checkSum = (r.checkSum + b) % 256
  /\ r.mode \in {"unknown", "end"} /\ b # 240 => q.mode \in {"unknown", "end"}
  /\ r.mode = "escaped" => q.mode # "escaped"
  /\ q.mode = "escaped" => r.mode = "payload" /\ b = 60

\* ReceiveByte does that.
LEMMA ByteIsTaken ==
  ASSUME NEW r \in Receivers, Len(r.received) <= MaxPacketLen, NEW b \in 0 .. 255, NEW q,
         q = Protocol!ReceiveByte(r, b)
  PROVE  ByteTaken(r, b, q)
<1>1. /\ r.buffer \in BOOLEAN /\ r.mode \in {"unknown", "payload", "escaped", "end"}
      /\ r.received \in Seq(0 .. 255) /\ r.checkSum \in 0 .. 255 /\ Len(r.received) \in Nat
      /\ MaxPacketLen \in Nat
  BY ProtocolAssumption DEF Receivers
<1>2. (r.checkSum + b) % 256 \in 0 .. 255
  BY <1>1, ByteSum
<1>3. /\ Append(r.received, b) \in Seq(0 .. 255)
      /\ Len(Append(r.received, b)) = Len(r.received) + 1
  BY <1>1, AppendProperties
<1>4. <<>> \in Seq(0 .. 255) /\ Len(<<>>) = 0 /\ 0 \in 0 .. 255
  OBVIOUS
<1>8. "payload" \in {"unknown", "payload", "escaped", "end"} /\ "escaped" \in {"unknown", "payload", "escaped", "end"}
  OBVIOUS
<1>5. CASE r.mode # "escaped" /\ b = 240
  <2>1. q = [r EXCEPT !.mode = "payload", !.checkSum = 0, !.received = <<>>]
    <3>1. Protocol!Begins(r, b) /\ ~Protocol!Ends(r, b)
      BY <1>5 DEF Protocol!Begins, Protocol!BEGINNING, Protocol!Ends, Protocol!END
    <3>. QED  BY <3>1 DEF Protocol!ReceiveByte
  <2>2. /\ q \in Receivers /\ q.buffer = r.buffer /\ q.mode = "payload" /\ q.received = <<>>
        /\ q.checkSum = 0
    <3>1. PICK m \in {"unknown", "payload", "escaped", "end"}, c \in 0 .. 255, s \in Seq(0 .. 255) :
           m = "payload" /\ c = 0 /\ s = <<>>
      BY <1>4, <1>8
    <3>2. q = [r EXCEPT !.mode = m, !.checkSum = c, !.received = s]
      BY <2>1, <3>1 DEF Receivers
    <3>3. /\ q \in Receivers /\ q.buffer = r.buffer /\ q.mode = m /\ q.received = s
          /\ q.checkSum = c
      BY <3>2 DEF Receivers
    <3>. QED  BY <3>1, <3>3
  <2>. QED  BY <1>1, <1>4, <1>5, <2>2 DEF ByteTaken
<1>6. CASE ~(r.mode # "escaped" /\ b = 240) /\ Len(r.received) >= MaxPacketLen
  <2>1. q = [r EXCEPT !.mode = "unknown"]
    BY <1>6 DEF Protocol!ReceiveByte, Protocol!Begins, Protocol!TooLong, Protocol!Ends,
                Protocol!BEGINNING
  <2>2. /\ q \in Receivers /\ q.buffer = r.buffer /\ q.mode = "unknown" /\ q.received = r.received
    BY <1>1, <2>1 DEF Receivers
  <2>. QED  BY <1>1, <1>6, <2>2 DEF ByteTaken
<1>7. CASE ~(r.mode # "escaped" /\ b = 240) /\ Len(r.received) < MaxPacketLen
  <2>0. ~Protocol!Begins(r, b) /\ ~Protocol!TooLong(r)
    BY <1>1, <1>7 DEF Protocol!Begins, Protocol!TooLong, Protocol!BEGINNING
  <2>1. CASE r.mode # "escaped" /\ b = 15
    <3> DEFINE m == IF r.checkSum = 0 THEN "unknown" ELSE "end"
    <3>1. q = [r EXCEPT !.mode = m, !.checkSum = 0, !.received = <<>>]
      BY <2>0, <2>1 DEF Protocol!ReceiveByte, Protocol!Ends, Protocol!END
    <3>2. /\ q \in Receivers /\ q.buffer = r.buffer /\ q.mode \in {"unknown", "end"}
          /\ q.received = <<>>
      <4>1. m \in {"unknown", "end"}
        OBVIOUS
      <4> HIDE DEF m
      <4>2. PICK c \in 0 .. 255, s \in Seq(0 .. 255) : c = 0 /\ s = <<>>
        BY <1>4
      <4>3. q = [r EXCEPT !.mode = m, !.checkSum = c, !.received = s]
        BY <3>1, <4>2
      <4>4. /\ q \in Receivers /\ q.buffer = r.buffer /\ q.mode = m /\ q.received = s
        BY <4>1, <4>3 DEF Receivers
      <4>. QED  BY <4>1, <4>2, <4>4
    <3>. QED  BY <1>1, <1>4, <1>7, <2>1, <3>2 DEF ByteTaken
  <2>2. CASE ~(r.mode # "escaped" /\ b = 15)
    <3>0. q = Protocol!Store(r, b)
      BY <2>0, <2>2 DEF Protocol!ReceiveByte, Protocol!Ends, Protocol!END
    <3>1. CASE r.mode = "payload" /\ b = 60
      <4>1. q = [[r EXCEPT !.checkSum = (@ + b) % 256] EXCEPT !.mode = "escaped"]
        BY <3>0, <3>1 DEF Protocol!Store, Protocol!ESCAPE
      <4>2. /\ q \in Receivers /\ q.buffer = r.buffer /\ q.mode = "escaped"
            /\ q.received = r.received /\ q.checkSum = (r.checkSum + b) % 256
        <5>1. PICK m \in {"unknown", "payload", "escaped", "end"}, c \in 0 .. 255, s \in Seq(0 .. 255) :
               m = "escaped" /\ c = (r.checkSum + b) % 256 /\ s = r.received
          BY <1>1, <1>2, <1>8
        <5>2. q = [r EXCEPT !.mode = m, !.checkSum = c, !.received = s]
          BY <4>1, <5>1 DEF Receivers
        <5>3. /\ q \in Receivers /\ q.buffer = r.buffer /\ q.mode = m /\ q.received = s
              /\ q.checkSum = c
          BY <5>2 DEF Receivers
        <5>. QED  BY <5>1, <5>3
      <4>. QED  BY <1>1, <1>7, <3>1, <4>2 DEF ByteTaken
    <3>2. CASE r.mode = "escaped" \/ (r.mode = "payload" /\ b # 60)
      <4>1. q = [[r EXCEPT !.checkSum = (@ + b) % 256] EXCEPT
                   !.mode = "payload", !.received = Append(@, b)]
        BY <3>0, <3>2 DEF Protocol!Store, Protocol!ESCAPE
      <4>2. /\ q \in Receivers /\ q.buffer = r.buffer /\ q.mode = "payload"
            /\ q.received = Append(r.received, b) /\ q.checkSum = (r.checkSum + b) % 256
        <5>1. PICK m \in {"unknown", "payload", "escaped", "end"}, c \in 0 .. 255, s \in Seq(0 .. 255) :
               m = "payload" /\ c = (r.checkSum + b) % 256 /\ s = Append(r.received, b)
          BY <1>1, <1>2, <1>3, <1>8
        <5>2. q = [r EXCEPT !.mode = m, !.checkSum = c, !.received = s]
          BY <4>1, <5>1 DEF Receivers
        <5>3. /\ q \in Receivers /\ q.buffer = r.buffer /\ q.mode = m /\ q.received = s
              /\ q.checkSum = c
          BY <5>2 DEF Receivers
        <5>. QED  BY <5>1, <5>3
      <4>. QED  BY <1>1, <1>3, <1>7, <2>2, <3>2, <4>2 DEF ByteTaken
    <3>3. CASE r.mode = "unknown"
      <4>1. q = [r EXCEPT !.checkSum = (@ + b) % 256]
        BY <3>0, <3>3 DEF Protocol!Store
      <4>2. /\ q \in Receivers /\ q.buffer = r.buffer /\ q.mode = "unknown"
            /\ q.received = r.received
        BY <1>1, <1>2, <3>3, <4>1 DEF Receivers
      <4>. QED  BY <1>1, <1>7, <2>2, <3>3, <4>2 DEF ByteTaken
    <3>4. CASE r.mode = "end"
      <4>1. q = r
        BY <3>0, <3>4 DEF Protocol!Store
      <4>. QED  BY <1>1, <1>7, <2>2, <3>4, <4>1 DEF ByteTaken
    <3>5. r.mode = "payload" \/ r.mode = "escaped" \/ r.mode = "unknown" \/ r.mode = "end"
      BY <1>1
    <3>. QED  BY <3>1, <3>2, <3>3, <3>4, <3>5
  <2>. QED  BY <2>1, <2>2
<1>. QED  BY <1>1, <1>5, <1>6, <1>7

\* What a sequence has between its first and its last member.
LEMMA InnerIs ==
  ASSUME NEW S, NEW s \in Seq(S), Len(s) >= 2
  PROVE  /\ SubSeq(s, 2, Len(s) - 1) \in Seq(S)
         /\ Len(SubSeq(s, 2, Len(s) - 1)) = Len(s) - 2
         /\ \A i \in 1 .. Len(s) - 2 : SubSeq(s, 2, Len(s) - 1)[i] = s[i + 1]
<1>1. PICK n \in Nat : n = Len(s)
  OBVIOUS
<1>. QED  BY <1>1, SubSeqProperties

\* A receiver without a buffer knows of no frame; it gets one, or waits on.
LEMMA BufferIsReset ==
  ASSUME NEW r \in Receivers, NEW fetched \in BOOLEAN
  PROVE  /\ Protocol!ResetBuffer(r, fetched) \in Receivers
         /\ Protocol!ResetBuffer(r, fetched).mode = "unknown"
         /\ Protocol!ResetBuffer(r, fetched).received = <<>>
         /\ Protocol!ResetBuffer(r, fetched).buffer = (r.buffer \/ fetched)
<1>1. r.buffer \in BOOLEAN
  BY DEF Receivers
<1>2. PICK f \in BOOLEAN, m \in {"unknown", "payload", "escaped", "end"}, c \in 0 .. 255,
           s \in Seq(0 .. 255) : f = (r.buffer \/ fetched) /\ m = "unknown" /\ c = 0 /\ s = <<>>
  <2>1. /\ <<>> \in Seq(0 .. 255) /\ 0 \in 0 .. 255
        /\ "unknown" \in {"unknown", "payload", "escaped", "end"}
    OBVIOUS
  <2>2. (r.buffer \/ fetched) \in BOOLEAN
    OBVIOUS
  <2>. QED  BY <2>1, <2>2, Zenon
<1>3. Protocol!ResetBuffer(r, fetched) = [buffer |-> f, mode |-> m, received |-> s, checkSum |-> c]
  BY <1>2, Zenon DEF Protocol!ResetBuffer
<1>4. [buffer |-> f, mode |-> m, received |-> s, checkSum |-> c] \in Receivers
  BY DEF Receivers
<1>. QED  BY <1>2, <1>3, <1>4

\* What a byte does to the receiver and what is handed on.
LEMMA ByteArrives ==
  ASSUME ReceiverOK, NEW b \in 0 .. 255, Protocol!Receive(b)
  PROVE  /\ ReceiverOK' /\ posted' \in Posts \cup {NULL}
         /\ receiveState.buffer /\ Protocol!Accepts(receiveState, b) =>
              /\ posted' # NULL /\ posted'.frame = Protocol!Received(receiveState)
              /\ receiveState'.mode = "unknown"
         /\ receiveState.buffer /\ ~Protocol!Accepts(receiveState, b) =>
              posted' = NULL /\ ByteTaken(receiveState, b, receiveState')
         /\ ~receiveState.buffer =>
              /\ posted' = NULL
              /\ \/ ~receiveState'.buffer /\ receiveState'.mode = "unknown"
                 \/ \E r \in Receivers : r.mode = "unknown" /\ ByteTaken(r, b, receiveState')
<1>1. receiveState \in Receivers /\ Len(receiveState.received) <= MaxPacketLen
      /\ receiveState.buffer \in BOOLEAN /\ MaxPacketLen \in Nat
  BY ProtocolAssumption DEF ReceiverOK, Receivers
<1>2. PICK fetched \in BOOLEAN, queued \in BOOLEAN :
        LET r == IF receiveState.buffer THEN receiveState
                 ELSE Protocol!ResetBuffer(receiveState, fetched)
        IN IF ~r.buffer
             THEN receiveState' = r /\ posted' = NULL
             ELSE IF Protocol!Accepts(r, b)
               THEN /\ posted' = [frame |-> Protocol!Received(r), queued |-> queued]
                    /\ receiveState' = Protocol!ResetBuffer([r EXCEPT !.buffer = ~queued], fetched)
               ELSE receiveState' = Protocol!ReceiveByte(r, b) /\ posted' = NULL
  BY Zenon DEF Protocol!Receive
<1>3. CASE receiveState.buffer /\ Protocol!Accepts(receiveState, b)
  <2>1. /\ posted' = [frame |-> Protocol!Received(receiveState), queued |-> queued]
        /\ receiveState' =
             Protocol!ResetBuffer([receiveState EXCEPT !.buffer = ~queued], fetched)
    BY <1>2, <1>3, Zenon
  <2>2. [receiveState EXCEPT !.buffer = ~queued] \in Receivers
    BY <1>1 DEF Receivers
  <2>3. ReceiverOK' /\ receiveState'.mode = "unknown"
    <3>1. /\ receiveState' \in Receivers /\ receiveState'.mode = "unknown"
          /\ receiveState'.received = <<>>
      BY <2>1, <2>2, BufferIsReset, Zenon
    <3>2. Len(<<>>) <= MaxPacketLen
      BY <1>1
    <3>. QED  BY <3>1, <3>2 DEF ReceiverOK
  <2>4. posted' \in Posts
    <3>1. receiveState.received \in Seq(0 .. 255) /\ Len(receiveState.received) >= 2
      BY <1>1, <1>3 DEF Protocol!Accepts, Receivers
    <3>2. receiveState.received[1] \in 0 .. 255
      <4>1. 1 \in 1 .. Len(receiveState.received)
        BY <3>1
      <4>. QED  BY <3>1, <4>1, MemberOf, Zenon
    <3>3. SubSeq(receiveState.received, 2, Len(receiveState.received) - 1) \in Seq(0 .. 255)
      BY <3>1, InnerIs
    <3>4. Protocol!Received(receiveState) \in [id : 0 .. 255, payload : Seq(0 .. 255)]
      BY <3>2, <3>3 DEF Protocol!Received
    <3>. QED  BY <2>1, <3>4 DEF Posts
  <2>5. posted' # NULL /\ posted'.frame = Protocol!Received(receiveState)
    BY <2>1, <2>4, ProtocolAssumption DEF Posts
  <2>. QED  BY <1>3, <2>3, <2>4, <2>5
<1>4. CASE receiveState.buffer /\ ~Protocol!Accepts(receiveState, b)
  <2>1. receiveState' = Protocol!ReceiveByte(receiveState, b) /\ posted' = NULL
    BY <1>2, <1>4, Zenon
  <2>2. ByteTaken(receiveState, b, receiveState')
    BY <1>1, <2>1, ByteIsTaken
  <2>3. ReceiverOK'
    BY <2>2 DEF ByteTaken, ReceiverOK
  <2>. QED  BY <1>4, <2>1, <2>2, <2>3
<1>5. CASE ~receiveState.buffer
  <2> DEFINE r == Protocol!ResetBuffer(receiveState, fetched)
  <2>1. /\ r \in Receivers /\ r.mode = "unknown" /\ r.received = <<>> /\ r.buffer \in BOOLEAN
    BY <1>1, BufferIsReset
  <2>2. Len(r.received) = 0 /\ Len(r.received) <= MaxPacketLen
    BY <1>1, <2>1
  <2>3. ~Protocol!Accepts(r, b)
    BY <2>2 DEF Protocol!Accepts
  <2>4. \/ ~r.buffer /\ receiveState' = r /\ posted' = NULL
        \/ r.buffer /\ receiveState' = Protocol!ReceiveByte(r, b) /\ posted' = NULL
    BY <1>2, <1>5, <2>3, Zenon
  <2> HIDE DEF r
  <2>5. CASE ~r.buffer /\ receiveState' = r /\ posted' = NULL
    BY <1>5, <2>1, <2>2, <2>5 DEF ReceiverOK
  <2>6. CASE r.buffer /\ receiveState' = Protocol!ReceiveByte(r, b) /\ posted' = NULL
    <3>1. ByteTaken(r, b, receiveState')
      BY <2>1, <2>2, <2>6, ByteIsTaken
    <3>2. ReceiverOK'
      BY <3>1 DEF ByteTaken, ReceiverOK
    <3>. QED  BY <1>5, <2>1, <2>6, <3>1, <3>2
  <2>. QED  BY <2>4, <2>5, <2>6
<1>. QED  BY <1>1, <1>3, <1>4, <1>5

\* The assumption, of the numbers.
LEMMA SizesAreNumbers == MaxPacketLen \in Nat \ {0} /\ MaxFaults \in Nat
  BY ProtocolAssumption

\* What is recorded of a byte to which "fault" has happened.
LEMMA HistoryGoesOn ==
  ASSUME HistoryOK, SenderOK, sending # NULL, sending' = Protocol!Sent,
         NEW fault \in {"none", "wrong", "other"}, history' = Protocol!Recorded(fault),
         fault # "none" => history.faults < MaxFaults
  PROVE  /\ HistoryOK'
         /\ history'.faults = history.faults + (IF fault = "none" THEN 0 ELSE 1)
         /\ history'.fault = "none" =>
              /\ fault = "none" /\ history.fault = "none"
              /\ receiveState'.buffer \/ posted' # NULL
         /\ history'.fault = "wrong" =>
              /\ receiveState'.buffer \/ posted' # NULL
              /\ \/ fault = "none" /\ history.fault = "wrong"
                 \/ fault = "wrong" /\ history.fault = "none"
         /\ history'.inRow >= 1 =>
              history'.fault = "none" /\ (history.inRow >= 1 \/ sending' = NULL)
         /\ sending' # NULL /\ history'.inRow >= 1 => history.inRow >= 1
         /\ history'.inRow = 2 => history.inRow >= 1
         /\ history'.over = IF sending' = NULL THEN sending.frame ELSE NULL
<1> DEFINE unseen == ~receiveState'.buffer /\ posted' = NULL
           newFault == IF fault = "none" /\ ~unseen THEN history.fault
                  ELSE IF fault = "wrong" /\ history.fault = "none" /\ ~unseen THEN "wrong"
                  ELSE "other"
           row == IF newFault # "none" THEN 0
                  ELSE IF sending' = NULL /\ history.inRow < 2 THEN history.inRow + 1
                  ELSE history.inRow
           count1 == history.faults + (IF fault = "none" THEN 0 ELSE 1)
           over == IF sending' = NULL THEN sending.frame ELSE NULL
<1>1. history' = [faults |-> count1, inRow |-> row, fault |-> newFault, over |-> over]
  BY DEF Protocol!Recorded
<1>2. /\ history.faults \in 0 .. MaxFaults /\ history.inRow \in 0 .. 2
      /\ history.fault \in {"none", "wrong", "other"} /\ MaxFaults \in Nat
  BY ProtocolAssumption DEF HistoryOK
<1>3. count1 \in 0 .. MaxFaults
  BY <1>2
<1>4. newFault \in {"none", "wrong", "other"}
  BY <1>2
<1>5. row \in 0 .. 2
  <2> HIDE DEF newFault
  <2>. QED  BY <1>2
<1>6. over \in FramesSent \cup {NULL}
  BY SymbolIs
<1>7. /\ newFault = "none" => fault = "none" /\ history.fault = "none" /\ ~unseen
      /\ newFault = "wrong" => /\ ~unseen
                          /\ \/ fault = "none" /\ history.fault = "wrong"
                             \/ fault = "wrong" /\ history.fault = "none"
  BY <1>2
<1>8. /\ row >= 1 => newFault = "none" /\ (history.inRow >= 1 \/ sending' = NULL)
      /\ sending' # NULL /\ row >= 1 => history.inRow >= 1
      /\ row = 2 => history.inRow >= 1
  <2> HIDE DEF newFault
  <2>. QED  BY <1>2
<1> HIDE DEF count1, row, newFault, over
<1>9. /\ history'.faults = count1 /\ history'.inRow = row /\ history'.fault = newFault
      /\ history'.over = over
  BY <1>1
<1>10. HistoryOK'
  BY <1>1, <1>3, <1>4, <1>5, <1>6 DEF HistoryOK
<1>. QED  BY <1>7, <1>8, <1>9, <1>10 DEF count1, over

\* A byte that arrives as it was sent leaves the receiver in step.
LEMMA StaysInStep ==
  ASSUME ProtocolInv, Protocol!Deliver
  PROVE  InStep'
<1>1. /\ sending # NULL /\ Protocol!Receive(Protocol!NextByte) /\ sending' = Protocol!Sent
      /\ history' = Protocol!Recorded("none")
  BY DEF Protocol!Deliver
<1>2. SenderOK /\ ReceiverOK /\ HistoryOK /\ InStep
  BY DEF ProtocolInv
<1>3. Protocol!NextByte \in 0 .. 255
  BY <1>1, <1>2, NextByteIs
<1>4. PICK b \in 0 .. 255 : b = Protocol!NextByte
  BY <1>3
<1>5. Protocol!Receive(b)
  BY <1>1, <1>4
<1>6. /\ sending'.at >= 1 \/ sending' = NULL
      /\ history'.faults = 0 => history.faults = 0
      /\ history'.fault = "none" => history.fault = "none"
      /\ history'.inRow >= 1 =>
           history.fault = "none" /\ (history.inRow >= 1 \/ sending' = NULL)
  <2>1. history.faults \in Nat
    BY <1>2 DEF HistoryOK
  <2>. QED  BY <1>1, <1>2, <2>1, HistoryGoesOn, SenderMoves DEF InFrame
<1>7. SUFFICES ASSUME history'.faults = 0 \/ history'.inRow >= 1 \/ (InFrame' /\ history'.fault = "none")
               PROVE  /\ receiveState'.mode = "escaped" => sending' # NULL /\ sending'.escaped
                      /\ sending' # NULL /\ sending'.escaped => receiveState'.mode # "payload"
  BY DEF InStep
<1>8. /\ sending.at \in Nat /\ Length(sending.frame) \in Nat \ {0} /\ sending.escaped \in BOOLEAN
      /\ sending.at \in 0 .. Length(sending.frame) + 2
  BY <1>1, <1>2, SymbolIs
<1>9. receiveState'.mode = "escaped" => receiveState.mode = "payload" /\ b = 60
  <2>1. \A r : ByteTaken(r, b, receiveState') /\ receiveState'.mode = "escaped" =>
               r.mode = "payload" /\ b = 60
    BY DEF ByteTaken
  <2>2. \/ receiveState'.mode = "unknown"
        \/ ByteTaken(receiveState, b, receiveState')
        \/ \E r \in Receivers : r.mode = "unknown" /\ ByteTaken(r, b, receiveState')
    BY <1>2, <1>5, ByteArrives
  <2>. QED  BY <2>1, <2>2
<1>10. CASE sending.at = 0
  <2>1. b = 240 /\ ~Protocol!MustEscape
    BY <1>1, <1>2, <1>4, <1>8, <1>10, SymbolIs, NextByteIs
  <2>2. ~sending'.escaped
    BY <1>1, <1>2, <1>8, <1>10, <2>1, SenderMoves
  <2>. QED  BY <1>9, <2>1, <2>2
<1>11. CASE sending.at # 0
  <2>1. InFrame
    BY <1>1, <1>8, <1>11 DEF InFrame
  <2>2. /\ receiveState.mode = "escaped" => sending.escaped
        /\ sending.escaped => receiveState.mode # "payload"
    BY <1>1, <1>2, <1>6, <1>7, <2>1 DEF InStep
  <2>3. ASSUME receiveState'.mode = "escaped"
        PROVE  sending' # NULL /\ sending'.escaped
    <3>1. b = 60 /\ ~sending.escaped
      BY <1>9, <2>2, <2>3
    <3>2. Protocol!MustEscape
      BY <1>1, <1>2, <1>4, <1>8, <1>11, <3>1, SymbolIs, NextByteIs
    <3>. QED  BY <1>1, <1>2, <3>2, SenderMoves DEF InFrame
  <2>4. ASSUME sending' # NULL, sending'.escaped
        PROVE  receiveState'.mode # "payload"
    <3>1. Protocol!MustEscape
      BY <1>1, <1>2, <2>4, SenderMoves
    <3>2. b = 60 /\ ~sending.escaped
      BY <1>1, <1>2, <1>4, <3>1, NextByteIs
    <3>3. receiveState.mode \in {"unknown", "payload", "end"}
      BY <1>2, <2>2, <3>2 DEF ReceiverOK, Receivers
    <3>4. Len(receiveState.received) \in Nat /\ MaxPacketLen \in Nat
      <4>1. receiveState.received \in Seq(0 .. 255)
        BY <1>2 DEF ReceiverOK, Receivers
      <4>. QED  BY <4>1, SizesAreNumbers
    <3>5. ASSUME NEW r, ByteTaken(r, b, receiveState'), r.mode \in {"unknown", "payload", "end"},
                 r.mode = "payload" => Len(r.received) \in Nat
          PROVE  receiveState'.mode # "payload"
      BY <3>2, <3>4, <3>5 DEF ByteTaken
    <3>6. \/ receiveState'.mode = "unknown"
          \/ ByteTaken(receiveState, b, receiveState')
          \/ \E r \in Receivers : r.mode = "unknown" /\ ByteTaken(r, b, receiveState')
      BY <1>2, <1>5, ByteArrives
    <3>. QED  BY <3>3, <3>4, <3>5, <3>6
  <2>. QED  BY <2>3, <2>4
<1>. QED  BY <1>10, <1>11

\* The next byte, or another one where neither is a control character.
Plain(b) ==
  \/ b = Protocol!NextByte
  \/ b \notin {240, 15, 60} /\ Protocol!NextByte \notin {240, 15, 60}

\* As long as there is room the receiver takes a byte of the frame for what it is.
LEMMA ByteIsStored ==
  ASSUME SenderOK, ReceiverOK, sending # NULL, sending.at \in 1 .. Length(sending.frame) + 1,
         receiveState.buffer, Len(receiveState.received) = sending.at - 1,
         sending.at <= MaxPacketLen,
         receiveState.mode = IF sending.escaped THEN "escaped" ELSE "payload",
         NEW b \in 0 .. 255, Plain(b), Protocol!Receive(b), sending' = Protocol!Sent
  PROVE  /\ posted' = NULL /\ receiveState'.buffer /\ InFrame'
         /\ receiveState'.checkSum = (receiveState.checkSum + b) % 256
         /\ Len(receiveState'.received) = sending'.at - 1
         /\ receiveState'.mode = IF sending'.escaped THEN "escaped" ELSE "payload"
         /\ \A n \in 1 .. sending.at - 1 : receiveState'.received[n] = receiveState.received[n]
         /\ ~Protocol!MustEscape => receiveState'.received[sending.at] = b
<1>1. /\ Length(sending.frame) \in Nat /\ sending.at \in Nat /\ sending.escaped \in BOOLEAN
      /\ Len(receiveState.received) < MaxPacketLen
  BY SymbolIs, SizesAreNumbers
<1>2. receiveState \in Receivers /\ receiveState.received \in Seq(0 .. 255)
  BY DEF ReceiverOK, Receivers
<1>3. CASE Protocol!MustEscape
  <2>1. b = 60 /\ ~sending.escaped
    BY <1>3, NextByteIs DEF Plain
  <2>2. ~Protocol!Accepts(receiveState, b)
    BY <2>1 DEF Protocol!Accepts, Protocol!Ends, Protocol!END
  <2>3. posted' = NULL /\ ByteTaken(receiveState, b, receiveState')
    BY <2>2, ByteArrives
  <2>4. /\ receiveState'.mode = "escaped" /\ receiveState'.received = receiveState.received
        /\ receiveState'.checkSum = (receiveState.checkSum + b) % 256 /\ receiveState'.buffer
    BY <1>1, <2>1, <2>3 DEF ByteTaken
  <2>5. InFrame' /\ sending'.escaped /\ sending'.at = sending.at
    BY <1>3, SenderMoves
  <2>. QED  BY <1>3, <2>3, <2>4, <2>5
<1>4. CASE ~Protocol!MustEscape
  <2>1. sending.at # Length(sending.frame) + 2
    BY <1>1
  <2>2. InFrame' /\ ~sending'.escaped /\ sending'.at = sending.at + 1
    BY <1>4, <2>1, SenderMoves
  <2>3. ~sending.escaped => b \notin {240, 15, 60}
    <3>1. ~sending.escaped => Protocol!NextByte \notin {240, 15, 60}
      BY <1>4, NextByteIs
    <3>. QED  BY <3>1 DEF Plain
  <2>4. ~Protocol!Accepts(receiveState, b)
    BY <2>3 DEF Protocol!Accepts, Protocol!Ends, Protocol!END
  <2>5. posted' = NULL /\ ByteTaken(receiveState, b, receiveState')
    BY <2>4, ByteArrives
  <2>6. receiveState.mode = "escaped" \/ (receiveState.mode = "payload" /\ b \notin {240, 15, 60})
    BY <2>3
  <2>7. /\ receiveState'.mode = "payload"
        /\ receiveState'.received = Append(receiveState.received, b)
        /\ receiveState'.checkSum = (receiveState.checkSum + b) % 256 /\ receiveState'.buffer
    BY <1>1, <2>5, <2>6 DEF ByteTaken
  <2>8. /\ Len(Append(receiveState.received, b)) = Len(receiveState.received) + 1
        /\ \A n \in 1 .. Len(receiveState.received) :
             Append(receiveState.received, b)[n] = receiveState.received[n]
        /\ Append(receiveState.received, b)[Len(receiveState.received) + 1] = b
    BY <1>2, AppendProperties
  <2>. QED  BY <1>1, <1>4, <2>2, <2>5, <2>7, <2>8
<1>. QED  BY <1>3, <1>4

\* A frame that was given up is not begun again, unless it has a BEGINNING.
LEMMA GivenUpForGood ==
  ASSUME SenderOK, ReceiverOK, sending # NULL, sending.at >= 1, sending.at > MaxPacketLen,
         ~Protocol!BeginsInside(sending.frame), receiveState.buffer,
         Len(receiveState.received) >= MaxPacketLen, receiveState.mode # "escaped",
         NEW b \in 0 .. 255, Plain(b), Protocol!Receive(b)
  PROVE  /\ posted' = NULL /\ receiveState'.buffer
         /\ Len(receiveState'.received) >= MaxPacketLen /\ receiveState'.mode # "escaped"
<1>1. /\ Length(sending.frame) \in Nat \ {0} /\ sending.at \in Nat /\ sending.escaped \in BOOLEAN
      /\ sending.at \in 0 .. Length(sending.frame) + 2 /\ MaxPacketLen \in Nat \ {0}
  BY SymbolIs, SizesAreNumbers
<1>2. ~Protocol!Accepts(receiveState, b)
  BY DEF Protocol!Accepts, Protocol!TooLong
<1>3. posted' = NULL /\ ByteTaken(receiveState, b, receiveState')
  BY <1>2, ByteArrives
<1>4. b # 240
  <2> SUFFICES ASSUME b = 240 PROVE FALSE
    OBVIOUS
  <2>1. Protocol!NextByte = 240
    BY DEF Plain
  <2>2. ~Protocol!MustEscape /\ Protocol!Symbol = 240
    BY <2>1, NextByteIs
  <2>3. sending.at # Length(sending.frame) + 2
    BY <2>2, SymbolIs
  <2>4. sending.at \in 1 .. Length(sending.frame) + 1
    BY <1>1, <2>3
  <2>5. sending.escaped
    BY <2>1, <2>2, <2>4, NextByteIs
  <2>6. sending.at # Length(sending.frame) + 1
    BY <2>2, <2>5 DEF SenderOK
  <2>7. Carried(sending.frame, sending.at) = 240 /\ sending.at \in 2 .. Length(sending.frame)
    BY <1>1, <2>2, <2>4, <2>6, SymbolIs
  <2>8. sending.frame.payload[sending.at - 1] = 240
    BY <1>1, <2>7 DEF Carried
  <2>9. sending.at - 1 \in MaxPacketLen .. Len(sending.frame.payload)
    <3>1. Len(sending.frame.payload) \in Nat
      <4>1. sending.frame.payload \in Seq(0 .. 255)
        BY SymbolIs, ProtocolAssumption
      <4>. QED  BY <4>1
    <3>. QED  BY <1>1, <2>7, <3>1 DEF Length
  <2>. QED  BY <2>8, <2>9 DEF Protocol!BeginsInside, Protocol!BEGINNING
<1>. QED  BY <1>3, <1>4 DEF ByteTaken

\* Sums of bytes that differ still do after the same byte, and so do equal ones after
\* two bytes that differ.
SumOf(s, b) == (s + b) % 256

LEMMA SumsDiffer ==
  \A s, t, b \in 0 .. 255 : s # t => SumOf(s, b) # SumOf(t, b) /\ SumOf(b, s) # SumOf(b, t)
<1>1. \A s, b \in 0 .. 255 : SumOf(s, b) = s + b \/ SumOf(s, b) = s + b - 256
  <2>. TAKE s, b \in 0 .. 255
  <2>1. CASE s + b < 256
    BY <2>1 DEF SumOf
  <2>2. CASE s + b >= 256
    BY <2>2 DEF SumOf
  <2>. QED  BY <2>1, <2>2
<1>2. ASSUME NEW s \in 0 .. 255, NEW t \in 0 .. 255, NEW b \in 0 .. 255, s # t
      PROVE  SumOf(s, b) # SumOf(t, b) /\ SumOf(b, s) # SumOf(b, t)
  <2>1. SumOf(s, b) = s + b \/ SumOf(s, b) = s + b - 256
    BY <1>1
  <2>2. SumOf(t, b) = t + b \/ SumOf(t, b) = t + b - 256
    BY <1>1
  <2>3. SumOf(s, b) = SumOf(b, s) /\ SumOf(t, b) = SumOf(b, t)
    BY DEF SumOf
  <2>4. SumOf(s, b) # SumOf(t, b)
    BY <1>2, <2>1, <2>2
  <2>. QED  BY <2>3, <2>4
<1>. QED  BY <1>2

\* A byte that arrives as it was sent leaves the receiver with what was sent,
LEMMA DeliveredIsHad ==
  ASSUME ProtocolInv, Protocol!Deliver, InFrame', Clean' \/ OneWrong'
  PROVE  HasSent'
<1>1. /\ sending # NULL /\ Protocol!Receive(Protocol!NextByte) /\ sending' = Protocol!Sent
      /\ history' = Protocol!Recorded("none")
  BY DEF Protocol!Deliver
<1>2. SenderOK /\ ReceiverOK /\ HistoryOK /\ InStep
  BY DEF ProtocolInv
<1>3. PICK b \in 0 .. 255 : b = Protocol!NextByte
  BY <1>1, <1>2, NextByteIs
<1>4. Protocol!Receive(b) /\ Plain(b)
  BY <1>1, <1>3 DEF Plain
<1>5. /\ Clean' => Clean
      /\ OneWrong' => OneWrong
      /\ receiveState'.buffer \/ posted' # NULL
  <2>1. history.faults \in Nat
    BY <1>2 DEF HistoryOK
  <2>2. sending' # NULL
    BY DEF InFrame
  <2>. QED  BY <1>1, <1>2, <2>1, <2>2, HistoryGoesOn DEF Clean, OneWrong
<1>6. /\ sending.at \in Nat /\ Length(sending.frame) \in Nat \ {0} /\ sending.escaped \in BOOLEAN
      /\ sending.at \in 0 .. Length(sending.frame) + 2 /\ sending.checkSum \in 0 .. 255
      /\ MaxPacketLen \in Nat \ {0}
  BY <1>1, <1>2, SymbolIs, SizesAreNumbers
<1>8. ~(Clean /\ OneWrong) /\ ~(Clean' /\ OneWrong')
  BY DEF Clean, OneWrong
<1>9. CASE sending.at = 0
  <2>1. b = 240 /\ ~Protocol!MustEscape
    BY <1>1, <1>2, <1>3, <1>6, <1>9, SymbolIs, NextByteIs
  <2>2. /\ sending'.at = 1 /\ ~sending'.escaped /\ sending'.checkSum = 0
    BY <1>1, <1>2, <1>6, <1>9, <2>1, SenderMoves
  <2>3. Clean /\ Clean'
    BY <1>1, <1>2, <1>5, <1>9 DEF SenderOK, OneWrong
  <2>4. receiveState.mode # "escaped"
    BY <1>1, <1>2, <1>6, <1>9, <2>3 DEF InStep, Clean, SenderOK
  <2>5. ~Protocol!Accepts(receiveState, b)
    BY <2>1 DEF Protocol!Accepts, Protocol!Ends, Protocol!END
  <2>6. /\ receiveState'.buffer /\ receiveState'.mode = "payload" /\ receiveState'.checkSum = 0
        /\ receiveState'.received = <<>>
    <3>1. \A r : r.mode # "escaped" /\ ByteTaken(r, b, receiveState') =>
            /\ receiveState'.mode = "payload" /\ receiveState'.checkSum = 0
            /\ receiveState'.received = <<>>
      BY <2>1 DEF ByteTaken
    <3>2. posted' = NULL /\ receiveState'.buffer
      BY <1>2, <1>4, <1>5, <2>5, ByteArrives
    <3>3. \/ ByteTaken(receiveState, b, receiveState')
          \/ \E r \in Receivers : r.mode = "unknown" /\ ByteTaken(r, b, receiveState')
      BY <1>2, <1>4, <2>5, <3>2, ByteArrives
    <3>. QED  BY <2>4, <3>1, <3>2, <3>3
  <2>7. Len(<<>>) = 0
    OBVIOUS
  <2>. QED  BY <1>6, <2>2, <2>3, <2>6, <2>7 DEF HasSent
<1>10. CASE sending.at # 0 /\ sending.at <= MaxPacketLen
  <2>1. InFrame /\ HasSent /\ (Clean \/ OneWrong)
    BY <1>1, <1>5, <1>6, <1>10 DEF InFrame, ProtocolInv
  <2>2. /\ receiveState.buffer /\ Len(receiveState.received) = sending.at - 1
        /\ receiveState.mode = IF sending.escaped THEN "escaped" ELSE "payload"
        /\ receiveState.checkSum = sending.checkSum <=> Clean
        /\ Clean => \A n \in 1 .. sending.at - 1 :
             n <= Length(sending.frame) => receiveState.received[n] = Carried(sending.frame, n)
    BY <1>10, <2>1 DEF HasSent
  <2>3. sending.at \in 1 .. Length(sending.frame) + 1
    <3>1. sending.at # Length(sending.frame) + 2
      <4>1. SUFFICES ASSUME sending.at = Length(sending.frame) + 2 PROVE FALSE
        OBVIOUS
      <4>2. ~Protocol!MustEscape
        BY <1>1, <1>2, <1>6, <4>1, NextByteIs
      <4>. QED  BY <1>1, <1>2, <4>1, <4>2, SenderMoves DEF InFrame
    <3>. QED  BY <1>6, <1>10, <3>1
  <2>4. /\ receiveState'.buffer
        /\ receiveState'.checkSum = (receiveState.checkSum + b) % 256
        /\ Len(receiveState'.received) = sending'.at - 1
        /\ receiveState'.mode = IF sending'.escaped THEN "escaped" ELSE "payload"
        /\ \A n \in 1 .. sending.at - 1 : receiveState'.received[n] = receiveState.received[n]
        /\ ~Protocol!MustEscape => receiveState'.received[sending.at] = b
    BY <1>1, <1>2, <1>4, <1>10, <2>2, <2>3, ByteIsStored
  <2>5. /\ sending'.frame = sending.frame /\ sending'.checkSum = (sending.checkSum + b) % 256
        /\ sending'.at \in Nat
        /\ Protocol!MustEscape => sending'.at = sending.at /\ sending'.escaped
        /\ ~Protocol!MustEscape => sending'.at = sending.at + 1 /\ ~sending'.escaped
    <3>1. CASE Protocol!MustEscape
      BY <1>1, <1>2, <1>3, <1>6, <3>1, SenderMoves, NextByteIs
    <3>2. CASE ~Protocol!MustEscape
      BY <1>1, <1>2, <1>3, <1>6, <2>3, <3>2, SenderMoves
    <3>. QED  BY <3>1, <3>2
  <2>6. receiveState'.checkSum = sending'.checkSum <=> Clean'
    <3>1. CASE Clean'
      BY <1>5, <2>2, <2>4, <2>5, <3>1
    <3>2. CASE ~Clean'
      <4>1. ~Clean
        BY <1>5, <1>8, <3>2
      <4>2. PICK s \in 0 .. 255, t \in 0 .. 255 :
              s = sending.checkSum /\ t = receiveState.checkSum
        BY <1>2, <1>6 DEF ReceiverOK, Receivers
      <4>3. s # t
        BY <2>2, <4>1, <4>2
      <4>4. SumOf(s, b) # SumOf(t, b)
        BY <4>3, SumsDiffer
      <4>5. receiveState'.checkSum = SumOf(t, b) /\ sending'.checkSum = SumOf(s, b)
        BY <2>4, <2>5, <4>2 DEF SumOf
      <4>. QED  BY <3>2, <4>4, <4>5
    <3>. QED  BY <3>1, <3>2
  <2>7. ASSUME Clean', NEW n \in 1 .. sending'.at - 1, n <= Length(sending.frame)
        PROVE  receiveState'.received[n] = Carried(sending.frame, n)
    <3>1. CASE n \in 1 .. sending.at - 1
      BY <1>5, <2>2, <2>4, <2>7, <3>1
    <3>2. CASE n \notin 1 .. sending.at - 1
      <4>1. n = sending.at /\ ~Protocol!MustEscape
        BY <1>6, <2>5, <2>7, <3>2
      <4>2. b = Carried(sending.frame, n)
        BY <1>1, <1>2, <1>3, <2>3, <2>7, <4>1, SymbolIs, NextByteIs
      <4>. QED  BY <2>4, <4>1, <4>2
    <3>. QED  BY <3>1, <3>2
  <2>8. ASSUME sending'.at > MaxPacketLen
        PROVE  Len(receiveState'.received) >= MaxPacketLen /\ receiveState'.mode # "escaped"
    <3>1. ~Protocol!MustEscape
      BY <1>6, <1>10, <2>5, <2>8
    <3>. QED  BY <1>6, <1>10, <2>4, <2>5, <2>8, <3>1
  <2>. QED  BY <2>4, <2>5, <2>6, <2>7, <2>8 DEF HasSent
<1>11. CASE sending.at # 0 /\ sending.at > MaxPacketLen
  <2>1. InFrame /\ HasSent
    BY <1>1, <1>5, <1>6, <1>11 DEF InFrame, ProtocolInv
  <2>2. sending'.frame = sending.frame /\ sending'.at \in Nat /\ sending'.at > MaxPacketLen
    BY <1>1, <1>2, <1>6, <1>11, SenderMoves DEF InFrame
  <2>3. CASE Protocol!BeginsInside(sending.frame)
    <3>1. Protocol!BeginsInside(sending'.frame)
      BY <2>2, <2>3
    <3>. QED  BY <1>6, <2>2, <3>1 DEF HasSent
  <2>4. CASE ~Protocol!BeginsInside(sending.frame)
    <3>0. /\ receiveState.buffer /\ Len(receiveState.received) >= MaxPacketLen
          /\ receiveState.mode # "escaped" /\ sending.at >= 1
      BY <1>6, <1>11, <2>1, <2>4 DEF HasSent
    <3>1. /\ receiveState'.buffer /\ Len(receiveState'.received) >= MaxPacketLen
          /\ receiveState'.mode # "escaped"
      BY <1>1, <1>2, <1>4, <1>11, <2>4, <3>0, GivenUpForGood
    <3>. QED  BY <1>6, <2>2, <3>1 DEF HasSent
  <2>. QED  BY <2>3, <2>4
<1>. QED  BY <1>6, <1>9, <1>10, <1>11

\* and so does the first byte that arrives as another one, but for the sum.
LEMMA AlteredIsHad ==
  ASSUME ProtocolInv, sending # NULL, sending' = Protocol!Sent, InFrame', Clean' \/ OneWrong',
         NEW fault \in {"wrong", "other"}, history' = Protocol!Recorded(fault),
         history.faults < MaxFaults, NEW b \in 0 .. 255,
         b # Protocol!NextByte, Protocol!Receive(b),
         b \notin {240, 15, 60}, Protocol!NextByte \notin {240, 15, 60}
  PROVE  HasSent'
<1>2. SenderOK /\ ReceiverOK /\ HistoryOK
  BY DEF ProtocolInv
<1>5. Clean /\ OneWrong' /\ ~Clean' /\ (receiveState'.buffer \/ posted' # NULL)
  <2>1. history.faults \in Nat
    BY <1>2 DEF HistoryOK
  <2>. QED  BY <1>2, <2>1, HistoryGoesOn DEF Clean, OneWrong
<1>6. /\ sending.at \in Nat /\ Length(sending.frame) \in Nat \ {0} /\ sending.escaped \in BOOLEAN
      /\ sending.at \in 0 .. Length(sending.frame) + 2 /\ sending.checkSum \in 0 .. 255
      /\ MaxPacketLen \in Nat \ {0}
  BY <1>2, SymbolIs, SizesAreNumbers
<1>7. Protocol!NextByte \in 0 .. 255 /\ ~Protocol!MustEscape /\ Plain(b)
  BY <1>2, NextByteIs DEF Plain
<1>8. sending.at \in 1 .. Length(sending.frame) + 1
  <2>1. sending.at # 0 /\ sending.at # Length(sending.frame) + 2
    BY <1>2, <1>7, SymbolIs, NextByteIs
  <2>. QED  BY <1>6, <2>1
<1>9. InFrame /\ HasSent
  BY <1>5, <1>6, <1>8 DEF InFrame, ProtocolInv
<1>10. /\ sending'.frame = sending.frame /\ sending'.at = sending.at + 1 /\ ~sending'.escaped
       /\ sending'.checkSum = (sending.checkSum + Protocol!NextByte) % 256
  BY <1>2, <1>6, <1>7, <1>8, SenderMoves
<1>11. CASE sending.at <= MaxPacketLen
  <2>2. /\ receiveState.buffer /\ Len(receiveState.received) = sending.at - 1
        /\ receiveState.mode = IF sending.escaped THEN "escaped" ELSE "payload"
        /\ receiveState.checkSum = sending.checkSum
    BY <1>5, <1>9, <1>11 DEF HasSent
  <2>4. /\ receiveState'.buffer
        /\ receiveState'.checkSum = (receiveState.checkSum + b) % 256
        /\ Len(receiveState'.received) = sending'.at - 1
        /\ receiveState'.mode = IF sending'.escaped THEN "escaped" ELSE "payload"
    BY <1>2, <1>7, <1>8, <1>11, <2>2, ByteIsStored
  <2>6. receiveState'.checkSum # sending'.checkSum
    <3>1. PICK s \in 0 .. 255, n \in 0 .. 255 : s = sending.checkSum /\ n = Protocol!NextByte
      BY <1>6, <1>7
    <3>2. SumOf(s, b) # SumOf(s, n)
      BY <3>1, SumsDiffer
    <3>3. receiveState'.checkSum = SumOf(s, b)
      BY <2>2, <2>4, <3>1 DEF SumOf
    <3>4. sending'.checkSum = SumOf(s, n)
      BY <1>10, <3>1 DEF SumOf
    <3>. QED  BY <3>2, <3>3, <3>4
  <2>8. sending'.at > MaxPacketLen =>
          Len(receiveState'.received) >= MaxPacketLen /\ receiveState'.mode # "escaped"
    BY <1>6, <1>10, <1>11, <2>4
  <2>. QED  BY <1>5, <2>4, <2>6, <2>8 DEF HasSent
<1>12. CASE sending.at > MaxPacketLen
  <2>1. CASE Protocol!BeginsInside(sending.frame)
    <3>1. Protocol!BeginsInside(sending'.frame)
      BY <1>10, <2>1
    <3>. QED  BY <1>6, <1>10, <1>12, <3>1 DEF HasSent
  <2>2. CASE ~Protocol!BeginsInside(sending.frame)
    <3>0. /\ receiveState.buffer /\ Len(receiveState.received) >= MaxPacketLen
          /\ receiveState.mode # "escaped" /\ sending.at >= 1
      BY <1>6, <1>8, <1>9, <1>12, <2>2 DEF HasSent
    <3>1. /\ receiveState'.buffer /\ Len(receiveState'.received) >= MaxPacketLen
          /\ receiveState'.mode # "escaped"
      BY <1>2, <1>7, <1>12, <2>2, <3>0, GivenUpForGood
    <3>. QED  BY <1>6, <1>10, <1>12, <3>1 DEF HasSent
  <2>. QED  BY <2>1, <2>2
<1>. QED  BY <1>6, <1>11, <1>12

\* What is handed on when all of a frame has been received is the frame.
LEMMA FrameIsReceived ==
  ASSUME NEW frame \in FramesSent, NEW received \in Seq(0 .. 255),
         Len(received) = Length(frame) + 1,
         \A n \in 1 .. Length(frame) : received[n] = Carried(frame, n)
  PROVE  [id |-> received[1], payload |-> SubSeq(received, 2, Len(received) - 1)] = frame
<1>1. frame.payload \in Seq(0 .. 255) /\ frame = [id |-> frame.id, payload |-> frame.payload]
  BY ProtocolAssumption
<1>2. Len(frame.payload) \in Nat /\ Length(frame) = Len(frame.payload) + 1
  BY <1>1 DEF Length
<1> DEFINE inner == SubSeq(received, 2, Len(received) - 1)
<1>3. /\ inner \in Seq(0 .. 255) /\ Len(inner) = Len(received) - 2
      /\ \A i \in 1 .. Len(received) - 2 : inner[i] = received[i + 1]
  <2>1. Len(received) >= 2
    BY <1>2
  <2>. QED  BY <2>1, InnerIs
<1> HIDE DEF inner
<1>4. Len(inner) = Len(frame.payload)
  BY <1>2, <1>3
<1>5. ASSUME NEW i \in 1 .. Len(frame.payload)
      PROVE  inner[i] = frame.payload[i]
  <2>1. /\ i + 1 \in 1 .. Length(frame) /\ i + 1 # 1 /\ i + 1 - 1 = i
        /\ i \in 1 .. Len(received) - 2
    BY <1>2
  <2>2. inner[i] = received[i + 1]
    BY <1>3, <2>1
  <2>3. received[i + 1] = Carried(frame, i + 1)
    BY <2>1
  <2>4. Carried(frame, i + 1) = frame.payload[i]
    BY <2>1 DEF Carried
  <2>. QED  BY <2>2, <2>3, <2>4
<1>6. inner = frame.payload
  BY <1>1, <1>3, <1>4, <1>5, SeqEqual
<1>7. received[1] = frame.id
  <2>1. 1 \in 1 .. Length(frame)
    BY <1>2
  <2>2. received[1] = Carried(frame, 1)
    BY <2>1
  <2>. QED  BY <2>2 DEF Carried
<1>. QED  BY <1>1, <1>6, <1>7 DEF inner

\* The last byte of a frame: what the receiver has of it is handed on or not.
LEMMA EndIsJudged ==
  ASSUME ProtocolInv, Protocol!Deliver
  PROVE  Protocol!FramesFollowNoise' /\ Protocol!WrongByteIsCaught'
<1>1. /\ sending # NULL /\ Protocol!Receive(Protocol!NextByte) /\ sending' = Protocol!Sent
      /\ history' = Protocol!Recorded("none")
  BY DEF Protocol!Deliver
<1>2. SenderOK /\ ReceiverOK /\ HistoryOK
  BY DEF ProtocolInv
<1>3. CASE sending' # NULL
  <2>1. history'.over = NULL
    BY <1>1, <1>2, <1>3, HistoryGoesOn
  <2>. QED  BY <2>1 DEF Protocol!FramesFollowNoise, Protocol!WrongByteIsCaught
<1>4. CASE sending' = NULL
  <2>1. sending.at = Length(sending.frame) + 2 /\ ~Protocol!MustEscape
    BY <1>1, <1>2, <1>4, SenderMoves DEF InFrame
  <2>2. /\ Length(sending.frame) \in Nat \ {0} /\ MaxPacketLen \in Nat \ {0}
        /\ sending.frame \in FramesSent /\ sending.escaped \in BOOLEAN
    BY <1>1, <1>2, SymbolIs, SizesAreNumbers
  <2>3. PICK b \in 0 .. 255 : b = 15 /\ b = Protocol!NextByte
    BY <1>1, <1>2, <2>1, SymbolIs, NextByteIs
  <2>4. Protocol!Receive(b) /\ Plain(b)
    BY <1>1, <2>3 DEF Plain
  <2>5. ~sending.escaped /\ sending.checkSum = 0 /\ InFrame
    BY <1>1, <1>2, <2>1, <2>2 DEF SenderOK, InFrame
  <2>6. history'.over = sending.frame
    BY <1>1, <1>2, <1>4, HistoryGoesOn
  <2>7. ASSUME Clean \/ OneWrong, sending.at > MaxPacketLen
        PROVE  posted' = NULL \/ Protocol!BeginsInside(sending.frame)
    <3>1. SUFFICES ASSUME ~Protocol!BeginsInside(sending.frame) PROVE posted' = NULL
      OBVIOUS
    <3>2. /\ receiveState.buffer /\ Len(receiveState.received) >= MaxPacketLen
          /\ receiveState.mode # "escaped"
      BY <2>5, <2>7, <3>1 DEF ProtocolInv, HasSent
    <3>3. sending.at >= 1
      BY <2>1, <2>2
    <3>. QED  BY <1>1, <1>2, <2>4, <2>7, <3>1, <3>2, <3>3, GivenUpForGood
  <2>8. ASSUME Clean \/ OneWrong, sending.at <= MaxPacketLen
        PROVE  /\ receiveState.buffer /\ receiveState.mode = "payload"
               /\ Len(receiveState.received) = Length(sending.frame) + 1
               /\ receiveState.checkSum = 0 <=> Clean
               /\ Clean => \A n \in 1 .. Length(sending.frame) :
                    receiveState.received[n] = Carried(sending.frame, n)
    <3>1. HasSent
      BY <2>5, <2>8 DEF ProtocolInv
    <3>2. /\ receiveState.buffer /\ Len(receiveState.received) = sending.at - 1
          /\ receiveState.mode = IF sending.escaped THEN "escaped" ELSE "payload"
          /\ receiveState.checkSum = sending.checkSum <=> Clean
          /\ Clean => \A n \in 1 .. sending.at - 1 :
               n <= Length(sending.frame) => receiveState.received[n] = Carried(sending.frame, n)
      BY <2>8, <3>1 DEF HasSent
    <3>3. sending.at - 1 = Length(sending.frame) + 1
      BY <2>1, <2>2
    <3>4. \A n \in 1 .. Length(sending.frame) : n \in 1 .. sending.at - 1 /\ n <= Length(sending.frame)
      BY <2>2, <3>3
    <3>. QED  BY <2>5, <3>2, <3>3, <3>4
  <2>9. Protocol!Fits(sending.frame) <=> sending.at <= MaxPacketLen
    <3>1. Len(sending.frame.payload) \in Nat
      <4>1. sending.frame.payload \in Seq(0 .. 255)
        BY <2>2, ProtocolAssumption
      <4>. QED  BY <4>1
    <3>. QED  BY <2>1, <2>2, <3>1 DEF Protocol!Fits, Length
  <2>10. Protocol!FramesFollowNoise'
    <3>1. SUFFICES ASSUME history'.inRow = 2 \/ (history'.inRow = 1 /\ history'.faults = 0)
                   PROVE  /\ Protocol!Fits(sending.frame) =>
                               posted' # NULL /\ posted'.frame = sending.frame
                          /\ ~Protocol!Fits(sending.frame) =>
                               posted' = NULL \/ Protocol!BeginsInside(sending.frame)
      BY <2>6 DEF Protocol!FramesFollowNoise, Protocol!Fits, Protocol!BeginsInside
    <3>2. Clean
      <4>1. history.faults \in Nat /\ history'.inRow \in Nat
        <5>1. HistoryOK'
          BY <1>1, <1>2, HistoryGoesOn
        <5>. QED  BY <1>2, <5>1 DEF HistoryOK
      <4>. QED  BY <1>1, <1>2, <3>1, <4>1, HistoryGoesOn DEF Clean
    <3>3. ASSUME Protocol!Fits(sending.frame)
          PROVE  posted' # NULL /\ posted'.frame = sending.frame
      <4>1. /\ receiveState.buffer /\ receiveState.mode = "payload"
            /\ Len(receiveState.received) = Length(sending.frame) + 1
            /\ receiveState.checkSum = 0
            /\ \A n \in 1 .. Length(sending.frame) :
                 receiveState.received[n] = Carried(sending.frame, n)
        BY <2>8, <2>9, <3>2, <3>3
      <4>2. Len(receiveState.received) < MaxPacketLen /\ Len(receiveState.received) >= 2
        BY <2>1, <2>2, <2>9, <3>3, <4>1
      <4>3. Protocol!Accepts(receiveState, b)
        BY <2>2, <2>3, <4>1, <4>2 DEF Protocol!Accepts, Protocol!Ends, Protocol!TooLong, Protocol!END
      <4>4. posted' # NULL /\ posted'.frame = Protocol!Received(receiveState)
        BY <1>2, <2>4, <4>1, <4>3, ByteArrives
      <4>5. receiveState.received \in Seq(0 .. 255)
        BY <1>2 DEF ReceiverOK, Receivers
      <4>6. Protocol!Received(receiveState) = sending.frame
        BY <2>2, <4>1, <4>5, FrameIsReceived DEF Protocol!Received
      <4>. QED  BY <4>4, <4>6
    <3>4. ASSUME ~Protocol!Fits(sending.frame)
          PROVE  posted' = NULL \/ Protocol!BeginsInside(sending.frame)
      BY <2>1, <2>2, <2>7, <2>9, <3>2, <3>4
    <3>. QED  BY <3>3, <3>4
  <2>11. Protocol!WrongByteIsCaught'
    <3>1. SUFFICES ASSUME history'.fault = "wrong", history'.faults = 1
                   PROVE  posted' = NULL \/ Protocol!BeginsInside(sending.frame)
      BY <2>6 DEF Protocol!WrongByteIsCaught, Protocol!BeginsInside
    <3>2. OneWrong /\ ~Clean
      <4>1. history.faults \in Nat
        BY <1>2 DEF HistoryOK
      <4>. QED  BY <1>1, <1>2, <3>1, <4>1, HistoryGoesOn DEF OneWrong, Clean
    <3>3. CASE sending.at <= MaxPacketLen
      <4>1. receiveState.buffer /\ receiveState.checkSum # 0
        BY <2>8, <3>2, <3>3
      <4>2. ~Protocol!Accepts(receiveState, b)
        BY <4>1 DEF Protocol!Accepts
      <4>. QED  BY <1>2, <2>4, <4>1, <4>2, ByteArrives
    <3>4. CASE ~(sending.at <= MaxPacketLen)
      BY <2>1, <2>2, <2>7, <3>2, <3>4
    <3>. QED  BY <3>3, <3>4
  <2>. QED  BY <2>10, <2>11
<1>. QED  BY <1>3, <1>4

\* All bytes but those that arrive as they were sent leave no frame without a fault.
LEMMA FaultIsKept ==
  ASSUME ProtocolInv, sending # NULL, sending' = Protocol!Sent,
         NEW fault \in {"wrong", "other"}, history' = Protocol!Recorded(fault),
         history.faults < MaxFaults
  PROVE  /\ HistoryOK' /\ InStep' /\ ~Clean'
         /\ Protocol!FramesFollowNoise'
         /\ fault = "other" => Protocol!WrongByteIsCaught' /\ ~OneWrong'
         /\ OneWrong' => history.fault = "none" /\ history.faults = 0
<1>1. SenderOK /\ HistoryOK /\ history.faults \in Nat
  BY DEF ProtocolInv, HistoryOK
<1>2. /\ HistoryOK' /\ history'.faults = history.faults + 1 /\ history'.fault # "none"
      /\ history'.inRow \in Nat /\ ~(history'.inRow >= 1)
      /\ history'.fault = "wrong" => fault = "wrong" /\ history.fault = "none"
  <2>1. HistoryOK'
    BY <1>1, HistoryGoesOn
  <2>2. history'.inRow \in Nat
    BY <2>1 DEF HistoryOK
  <2>. QED  BY <1>1, <2>1, <2>2, HistoryGoesOn
<1>3. InStep' /\ ~Clean'
  BY <1>1, <1>2 DEF InStep, Clean
<1>4. Protocol!FramesFollowNoise'
  BY <1>2 DEF Protocol!FramesFollowNoise
<1>5. fault = "other" => Protocol!WrongByteIsCaught' /\ ~OneWrong'
  BY <1>2 DEF Protocol!WrongByteIsCaught, OneWrong
<1>6. OneWrong' => history.fault = "none" /\ history.faults = 0
  BY <1>1, <1>2 DEF OneWrong
<1>. QED  BY <1>2, <1>3, <1>4, <1>5, <1>6

\* The sender, the line and the receiver keep in step, or recover.
LEMMA ProtocolGoesOn == ProtocolInv /\ [Protocol!Next]_protocol => ProtocolInv'
<1> SUFFICES ASSUME ProtocolInv, [Protocol!Next]_protocol PROVE ProtocolInv'
  OBVIOUS
<1>0. SenderOK /\ ReceiverOK /\ HistoryOK /\ InStep /\ posted \in Posts \cup {NULL}
  BY DEF ProtocolInv
<1>1. CASE Protocol!Send
  <2>1. PICK frame \in FramesSent :
          /\ sending = NULL /\ posted' = NULL /\ receiveState' = receiveState
          /\ sending' = [frame |-> frame, at |-> 0, escaped |-> FALSE, checkSum |-> 0]
          /\ history' = [history EXCEPT !.fault = "none", !.over = NULL]
    BY <1>1 DEF Protocol!Send
  <2>2. /\ sending' \in FrameUnderWay /\ sending'.at = 0 /\ ~sending'.escaped
        /\ sending'.frame = frame
    BY <2>1 DEF FrameUnderWay
  <2>3. Length(frame) \in Nat
    <3>1. frame.payload \in Seq(0 .. 255)
      BY ProtocolAssumption
    <3>. QED  BY <3>1 DEF Length
  <2>4. /\ HistoryOK' /\ history'.fault = "none" /\ history'.over = NULL
        /\ history'.faults = history.faults /\ history'.inRow = history.inRow
    BY <1>0, <2>1 DEF HistoryOK
  <2>5. SenderOK'
    BY <2>2, <2>3, <2>4 DEF SenderOK, Length
  <2>6. ~InFrame'
    BY <2>2 DEF InFrame
  <2>7. InStep'
    BY <1>0, <2>1, <2>2, <2>4, <2>6 DEF InStep
  <2>8. Protocol!FramesFollowNoise' /\ Protocol!WrongByteIsCaught'
    BY <2>4 DEF Protocol!FramesFollowNoise, Protocol!WrongByteIsCaught
  <2>9. ReceiverOK' /\ posted' \in Posts \cup {NULL}
    BY <1>0, <2>1 DEF ReceiverOK
  <2>. QED  BY <2>4, <2>5, <2>6, <2>7, <2>8, <2>9 DEF ProtocolInv
<1>2. CASE Protocol!Deliver
  <2>1. /\ sending # NULL /\ Protocol!Receive(Protocol!NextByte) /\ sending' = Protocol!Sent
        /\ history' = Protocol!Recorded("none")
    BY <1>2 DEF Protocol!Deliver
  <2>2. Protocol!NextByte \in 0 .. 255
    BY <1>0, <2>1, NextByteIs
  <2>3. ReceiverOK' /\ posted' \in Posts \cup {NULL}
    BY <1>0, <2>1, <2>2, ByteArrives
  <2>4. SenderOK' /\ HistoryOK'
    BY <1>0, <2>1, SenderMoves, HistoryGoesOn
  <2>5. InStep'
    BY <1>2, StaysInStep
  <2>6. InFrame' /\ (Clean' \/ OneWrong') => HasSent'
    BY <1>2, DeliveredIsHad
  <2>7. Protocol!FramesFollowNoise' /\ Protocol!WrongByteIsCaught'
    BY <1>2, EndIsJudged
  <2>. QED  BY <2>3, <2>4, <2>5, <2>6, <2>7 DEF ProtocolInv
<1>3. CASE Protocol!Lose
  <2>1. /\ sending # NULL /\ history.faults < MaxFaults /\ posted' = NULL
        /\ sending' = Protocol!Sent /\ receiveState' = receiveState
        /\ history' = Protocol!Recorded("other")
    BY <1>3 DEF Protocol!Lose
  <2>2. SenderOK'
    BY <1>0, <2>1, SenderMoves
  <2>3. /\ HistoryOK' /\ InStep' /\ ~Clean' /\ ~OneWrong'
        /\ Protocol!FramesFollowNoise' /\ Protocol!WrongByteIsCaught'
    BY <2>1, FaultIsKept
  <2>4. ReceiverOK' /\ posted' \in Posts \cup {NULL}
    BY <1>0, <2>1 DEF ReceiverOK
  <2>. QED  BY <2>2, <2>3, <2>4 DEF ProtocolInv
<1>4. CASE Protocol!Alter
  <2>0. /\ sending # NULL /\ history.faults < MaxFaults /\ sending' = Protocol!Sent
        /\ \E b \in Protocol!Altered :
             /\ Protocol!Receive(b)
             /\ history' = Protocol!Recorded(
                  IF {b, Protocol!NextByte} \cap {240, 15, 60} = {} THEN "wrong" ELSE "other")
    BY <1>4 DEF Protocol!Alter, Protocol!Control, Protocol!BEGINNING, Protocol!END, Protocol!ESCAPE
  <2>1. PICK b \in 0 .. 255, fault \in {"wrong", "other"} :
          /\ Protocol!Receive(b) /\ history' = Protocol!Recorded(fault)
          /\ fault = "wrong" => /\ b \notin {240, 15, 60} /\ Protocol!NextByte \notin {240, 15, 60}
                                /\ b # Protocol!NextByte
    <3>1. PICK b \in Protocol!Altered :
             /\ Protocol!Receive(b)
             /\ history' = Protocol!Recorded(
                  IF {b, Protocol!NextByte} \cap {240, 15, 60} = {} THEN "wrong" ELSE "other")
      BY <2>0
    <3>4. b \in 0 .. 255 /\ b # Protocol!NextByte
      <4>1. Protocol!NextByte \in 0 .. 255
        BY <1>0, <2>0, NextByteIs
      <4>2. \A d \in Differences : (Protocol!NextByte + d) % 256 \in 0 .. 255
        <5>1. ASSUME NEW d \in Differences PROVE (Protocol!NextByte + d) % 256 \in 0 .. 255
          <6>1. PICK n \in 0 .. 255 : n = Protocol!NextByte
            BY <4>1
          <6>2. PICK e \in 1 .. 255 : e = d
            BY ProtocolAssumption
          <6>3. (n + e) % 256 \in 0 .. 255
            OBVIOUS
          <6>. QED  BY <6>1, <6>2, <6>3
        <5>. QED  BY <5>1
      <4>. QED  BY <3>1, <4>2 DEF Protocol!Altered, Protocol!Control, Protocol!BEGINNING,
                   Protocol!END, Protocol!ESCAPE
    <3>2. CASE {b, Protocol!NextByte} \cap {240, 15, 60} = {}
      <4>1. b \notin {240, 15, 60} /\ Protocol!NextByte \notin {240, 15, 60}
        BY <3>2
      <4>2. history' = Protocol!Recorded("wrong")
        BY <3>1, <3>2, Zenon
      <4>. QED  BY <3>1, <3>4, <4>1, <4>2
    <3>3. CASE {b, Protocol!NextByte} \cap {240, 15, 60} # {}
      <4>1. history' = Protocol!Recorded("other")
        BY <3>1, <3>3, Zenon
      <4>. QED  BY <3>1, <3>4, <4>1
    <3>. QED  BY <3>2, <3>3
  <2>3. ReceiverOK' /\ posted' \in Posts \cup {NULL}
    BY <1>0, <2>1, ByteArrives
  <2>4. SenderOK'
    BY <1>0, <2>0, SenderMoves
  <2>5. HistoryOK' /\ InStep' /\ ~Clean' /\ Protocol!FramesFollowNoise'
    BY <2>0, <2>1, FaultIsKept
  <2>6. InFrame' /\ (Clean' \/ OneWrong') => HasSent'
    <3>1. SUFFICES ASSUME InFrame', OneWrong' PROVE HasSent'
      BY <2>5
    <3>2. fault = "wrong"
      BY <2>0, <2>1, <3>1, FaultIsKept
    <3>. QED  BY <2>0, <2>1, <3>1, <3>2, AlteredIsHad
  <2>7. Protocol!WrongByteIsCaught'
    <3>1. CASE fault = "other"
      BY <2>0, <2>1, <3>1, FaultIsKept
    <3>2. CASE fault = "wrong"
      <4>1. sending.at # Length(sending.frame) + 2
        BY <1>0, <2>0, <2>1, <3>2, SymbolIs, NextByteIs
      <4>2. sending' # NULL
        BY <1>0, <2>0, <4>1, SenderMoves DEF InFrame
      <4>3. history'.over = NULL
        BY <1>0, <2>0, <2>1, <4>2, HistoryGoesOn
      <4>. QED  BY <4>3 DEF Protocol!WrongByteIsCaught
    <3>. QED  BY <3>1, <3>2
  <2>. QED  BY <2>3, <2>4, <2>5, <2>6, <2>7 DEF ProtocolInv
<1>5. CASE UNCHANGED protocol
  <2>1. /\ sending' = sending /\ receiveState' = receiveState /\ posted' = posted
        /\ history' = history
    BY <1>5 DEF protocol
  <2>2. SenderOK'
    BY <1>0, <2>1 DEF SenderOK, Protocol!Symbol
  <2>3. ReceiverOK' /\ HistoryOK'
    BY <1>0, <2>1 DEF ReceiverOK, HistoryOK
  <2>4. posted' \in Posts \cup {NULL}
    BY <1>0, <2>1
  <2>5. InStep'
    BY <1>0, <2>1 DEF InStep, InFrame
  <2>6. InFrame' /\ (Clean' \/ OneWrong') => HasSent'
    <3>1. InFrame' = InFrame /\ Clean' = Clean /\ OneWrong' = OneWrong
      BY <2>1 DEF InFrame, Clean, OneWrong
    <3>2. HasSent' = HasSent
      BY <2>1 DEF HasSent, Clean
    <3>. QED  BY <3>1, <3>2 DEF ProtocolInv
  <2>7. Protocol!FramesFollowNoise' /\ Protocol!WrongByteIsCaught'
    BY <2>1 DEF ProtocolInv, Protocol!FramesFollowNoise, Protocol!WrongByteIsCaught
  <2>. QED  BY <2>2, <2>3, <2>4, <2>5, <2>6, <2>7 DEF ProtocolInv
<1>. QED  BY <1>1, <1>2, <1>3, <1>4, <1>5 DEF Protocol!Next

\* At first nothing has been sent.
LEMMA ProtocolBegins == Protocol!Init => ProtocolInv
<1> SUFFICES ASSUME Protocol!Init PROVE ProtocolInv
  OBVIOUS
<1>1. PICK buffer \in BOOLEAN :
        receiveState = [buffer |-> buffer, mode |-> "unknown", received |-> <<>>, checkSum |-> 0]
  BY DEF Protocol!Init
<1>2. /\ sending = NULL /\ posted = NULL
      /\ history = [faults |-> 0, inRow |-> 0, fault |-> "none", over |-> NULL]
  BY DEF Protocol!Init
<1>3. SenderOK /\ ~InFrame
  BY <1>2 DEF SenderOK, InFrame
<1>4. receiveState \in Receivers
  <2>1. PICK s \in Seq(0 .. 255), c \in 0 .. 255, m \in {"unknown", "payload", "escaped", "end"} :
          s = <<>> /\ c = 0 /\ m = "unknown"
    <3>1. /\ <<>> \in Seq(0 .. 255) /\ 0 \in 0 .. 255
          /\ "unknown" \in {"unknown", "payload", "escaped", "end"}
      OBVIOUS
    <3>. QED  BY <3>1, Zenon
  <2>2. receiveState = [buffer |-> buffer, mode |-> m, received |-> s, checkSum |-> c]
    BY <1>1, <2>1, Zenon
  <2>. QED  BY <2>2 DEF Receivers
<1>5. receiveState.mode = "unknown" /\ receiveState.received = <<>> /\ Len(<<>>) = 0
  BY <1>1
<1>6. ReceiverOK /\ InStep
  BY <1>4, <1>5, SizesAreNumbers DEF ReceiverOK, InStep
<1>7. HistoryOK
  <2>1. 0 \in 0 .. MaxFaults
    BY SizesAreNumbers
  <2>. QED  BY <1>2, <2>1 DEF HistoryOK
<1>8. Protocol!FramesFollowNoise /\ Protocol!WrongByteIsCaught
  BY <1>2 DEF Protocol!FramesFollowNoise, Protocol!WrongByteIsCaught
<1>. QED  BY <1>2, <1>3, <1>6, <1>7, <1>8 DEF ProtocolInv

\* Of a frame that is sent on a line which may lose or alter any bytes of any frames
\* before it, whatever the frames, their bytes and the size of a packet: the second
\* that arrives whole, or the first if nothing has happened before, is handed on as
\* it was sent if it fits into a packet.
THEOREM FramesAreFound == Spec => []FramesFollowNoise
<1> DEFINE I == part = "protocol" => ProtocolInv
<1>1. Init => I
  BY ProtocolBegins DEF Init
<1>2. I /\ [Next]_partVars => I'
  BY PartSteps, ProtocolGoesOn
<1>3. I => FramesFollowNoise
  BY DEF ProtocolInv, FramesFollowNoise
<1>. QED  BY <1>1, <1>2, <1>3, PTL DEF Spec, partVars

\* The sum finds any byte that arrives as any other one, if neither is a control
\* character and nothing else has happened to the frames: that frame is not handed on.
THEOREM SumFindsWrongByte == Spec => []WrongByteIsCaught
<1> DEFINE I == part = "protocol" => ProtocolInv
<1>1. Init => I
  BY ProtocolBegins DEF Init
<1>2. I /\ [Next]_partVars => I'
  BY PartSteps, ProtocolGoesOn
<1>3. I => WrongByteIsCaught
  BY DEF ProtocolInv, WrongByteIsCaught
<1>. QED  BY <1>1, <1>2, <1>3, PTL DEF Spec, partVars

-----------------------------------------------------------------------------
\* The frames of the boards: p is between a, from where a frame comes, and c.
Onward(a, p, c) ==
  \/ Route!Position(a) <= Route!Position(p) /\ Route!Position(p) <= Route!Position(c)
  \/ Route!Position(a) >= Route!Position(p) /\ Route!Position(p) >= Route!Position(c)

\* f will be handed to the board c because of the entry e in the queue of p: it is in e
\* and has p or others behind p to reach, or it is the answer to what is in e. (A message
\* of another board will be broadcast as one of P1's own.)
Answered(e, p) == [endpoint |-> "answer", id |-> e.frame.id, from |-> p]
Bound(p, e, c, f) ==
  \/ /\ f = e.frame /\ c \in Route!Intended(f) /\ Onward(f.from, p, c)
     /\ e.kind = "packet" \/ f.from = p
  \/ e.kind = "packet" /\ e.frame.endpoint = "rpc" /\ f = Answered(e, p) /\ c = e.frame.from

\* f is for c, and was sent.
Due(c, f) == c \in Route!Intended(f) /\ (f.endpoint = "answer" \/ f \in sentFrames)

\* Who sends what.
MaySend(f) ==
  \/ f.endpoint = "proxy" /\ f.from \in {"main", "power", "P1"}
  \/ f.endpoint \in {"command", "rpc"} /\ f.from \in {"main", "power"}
  \/ f.endpoint = "imu" /\ f.from \in {"main", "P2"}

\* The interface by which frames from a come to p.
Side(p, a) ==
  IF p = "P1" THEN (IF a = "main" THEN 1 ELSE 0) ELSE (IF a = "power" THEN 2 ELSE 0)

\* What can be in the queue of p: packets that came on the right interface, requests from the
\* neighbour only, and messages that the proxy of P1 waits for.
EntryOK(p, e) ==
  /\ e.frame \in Route!Frame /\ MaySend(e.frame)
  /\ e.kind = "packet" =>
       /\ e.frame.from # p /\ e.interface = Side(p, e.frame.from)
       /\ e.frame.endpoint = "rpc" => e.frame.from = IF p = "P1" THEN "main" ELSE "power"
       /\ e.frame \in sentFrames \cup echoed
  /\ e.kind # "packet" =>
       /\ e.kind = "message" /\ p = "P1" /\ e.frame.endpoint = "proxy"
       /\ e.frame.from = p => e.frame \in sentFrames

WaitsAt(p, n, c, f) == n \in 1 .. Len(queue[p]) /\ Bound(p, queue[p][n], c, f)

\* A frame has arrived where it is for, or is in one place from where it will, or was lost.
FrameOK(c, f) ==
  /\ arrived[<<c, f>>] \in {0, 1}
  /\ arrived[<<c, f>>] = 1 => Due(c, f)
  /\ \A p \in Route!Processors, n \in Nat : WaitsAt(p, n, c, f) =>
       /\ Due(c, f) /\ arrived[<<c, f>>] = 0
       /\ \A r \in Route!Processors, m \in Nat : WaitsAt(r, m, c, f) => r = p /\ m = n
  /\ ~lost /\ Due(c, f) =>
       \/ arrived[<<c, f>>] = 1
       \/ \E p \in Route!Processors, n \in Nat : WaitsAt(p, n, c, f)

RouteTypes ==
  /\ queue \in [Route!Processors -> Seq(Route!Entry)]
  /\ arrived \in [Route!Boards \X Route!Frame -> Nat]
  /\ sentFrames \subseteq Route!Frame /\ \A f \in sentFrames : MaySend(f)
  /\ echoed \subseteq Route!Frame /\ \A f \in echoed : f.endpoint = "proxy" /\ f.from = "P1"
  /\ lost \in BOOLEAN

RouteInv ==
  /\ RouteTypes
  /\ \A p \in Route!Processors : \A n \in 1 .. Len(queue[p]) : EntryOK(p, queue[p][n])
  /\ \A c \in Route!Boards, f \in Route!Frame : f \notin echoed => FrameOK(c, f)

\* The boards in their line.
LEMMA BoardsAre ==
  /\ Route!Processors = {"P1", "P2"} /\ Route!Boards = {"P1", "P2", "main", "power"}
  /\ Route!Position("main") = 1 /\ Route!Position("P1") = 2
  /\ Route!Position("P2") = 3 /\ Route!Position("power") = 4
  BY DEF Route!Processors, Route!Boards, Route!Position

\* The fields of a frame, and which frames are the same.
LEMMA FrameFields ==
  ASSUME NEW f \in Route!Frame
  PROVE  /\ f = [endpoint |-> f.endpoint, id |-> f.id, from |-> f.from]
         /\ f.endpoint \in {"proxy", "command", "imu", "rpc", "answer"}
         /\ f.from \in Route!Boards
         /\ f.endpoint = "proxy" => f.id \in Broadcasts
         /\ f.endpoint \in {"command", "imu"} => f.id = 0
         /\ f.endpoint = "rpc" => f.id \in Calls \cup SilentCalls \cup Probes
         /\ f.endpoint = "answer" => f.id \in Calls \cup Probes /\ f.from \in Route!Processors
  BY BoardsAre DEF Route!Frame

\* Whom a frame is for, by its endpoint.
LEMMA IntendedIs ==
  ASSUME NEW f \in Route!Frame
  PROVE  /\ Route!Intended(f) \subseteq Route!Boards
         /\ f.endpoint = "proxy" => Route!Intended(f) =
              ({"main", "power"} \cup {b \in {"P1", "P2"} : f.id \in Route!Known(b)}) \ {f.from}
         /\ f.endpoint = "command" => Route!Intended(f) = {"main", "power"} \ {f.from}
         /\ f.endpoint = "imu" => Route!Intended(f) = IF f.from = "main" THEN {"P2"} ELSE {"main"}
         /\ f.endpoint = "rpc" => Route!Intended(f) = Route!NextTo(f.from) \cap {"P1", "P2"}
         /\ f.endpoint = "answer" => Route!Intended(f) =
              {b \in Route!NextTo(f.from) :
                 [endpoint |-> "rpc", id |-> f.id, from |-> b] \in sentFrames}
         /\ Route!NextTo("main") = {"P1"} /\ Route!NextTo("power") = {"P2"}
         /\ Route!NextTo("P1") = {"main", "P2"} /\ Route!NextTo("P2") = {"P1", "power"}
<1>1. /\ f.endpoint = "proxy" => Route!Intended(f) =
           ({"main", "power"} \cup {b \in {"P1", "P2"} : f.id \in Route!Known(b)}) \ {f.from}
      /\ f.endpoint = "command" => Route!Intended(f) = {"main", "power"} \ {f.from}
      /\ f.endpoint = "imu" => Route!Intended(f) = IF f.from = "main" THEN {"P2"} ELSE {"main"}
      /\ f.endpoint = "rpc" => Route!Intended(f) = Route!NextTo(f.from) \cap {"P1", "P2"}
      /\ f.endpoint = "answer" => Route!Intended(f) =
           {b \in Route!NextTo(f.from) :
              [endpoint |-> "rpc", id |-> f.id, from |-> b] \in sentFrames}
  BY BoardsAre DEF Route!Intended
<1>2. /\ Route!NextTo("main") = {"P1"} /\ Route!NextTo("power") = {"P2"}
      /\ Route!NextTo("P1") = {"main", "P2"} /\ Route!NextTo("P2") = {"P1", "power"}
      /\ \A a : Route!NextTo(a) \subseteq Route!Boards
  BY BoardsAre DEF Route!NextTo
<1>3. Route!Intended(f) \subseteq Route!Boards
  BY <1>1, <1>2, FrameFields, BoardsAre
<1>. QED  BY <1>1, <1>2, <1>3

\* Who hears what b sends on the interfaces is.
Hearers(b, is) == {e.board : e \in Route!Neighbours(b, is)}

LEMMA HearersAre ==
  /\ Hearers("main", {0}) = {"P1"} /\ Hearers("power", {0}) = {"P2"}
  /\ Hearers("P1", {0}) = {"P2"} /\ Hearers("P1", {1}) = {"main"}
  /\ Hearers("P1", Route!Interfaces["P1"]) = {"P2", "main"}
  /\ Hearers("P1", Route!Interfaces["P1"] \ {0}) = {"main"}
  /\ Hearers("P1", Route!Interfaces["P1"] \ {1}) = {"P2"}
  /\ Hearers("P2", {0}) = {"P1"} /\ Hearers("P2", {2}) = {"power"}
  /\ Hearers("P2", Route!Interfaces["P2"] \ {0}) = {"power"}
  /\ Hearers("P2", Route!Interfaces["P2"] \ {2}) = {"P1"}
<1>1. /\ Route!Interfaces["main"] = {0} /\ Route!Interfaces["power"] = {0}
      /\ Route!Interfaces["P1"] = {0, 1} /\ Route!Interfaces["P2"] = {0, 2}
  BY DEF Route!Interfaces
<1>2. /\ Route!Cable("P1", 0) = [board |-> "P2", interface |-> 0]
      /\ Route!Cable("P1", 1) = [board |-> "main", interface |-> 0]
      /\ Route!Cable("P2", 0) = [board |-> "P1", interface |-> 0]
      /\ Route!Cable("P2", 2) = [board |-> "power", interface |-> 0]
      /\ Route!Cable("main", 0) = [board |-> "P1", interface |-> 1]
      /\ Route!Cable("power", 0) = [board |-> "P2", interface |-> 2]
  BY DEF Route!Cable
<1>3. \A b, is : Hearers(b, is) = {Route!Cable(b, i).board : i \in is \cap Route!Interfaces[b]}
  BY DEF Hearers, Route!Neighbours
<1>. QED  BY <1>1, <1>2, <1>3

\* They get it on the side where b is.
LEMMA EndsAre ==
  ASSUME NEW b \in Route!Boards, NEW is, NEW e \in Route!Neighbours(b, is)
  PROVE  /\ e.board \in Hearers(b, is) /\ e.board \in Route!Boards
         /\ e.board \in Route!Processors => e.interface = Side(e.board, b) /\ e.interface \in 0 .. 2
<1>1. /\ Route!Interfaces["main"] = {0} /\ Route!Interfaces["power"] = {0}
      /\ Route!Interfaces["P1"] = {0, 1} /\ Route!Interfaces["P2"] = {0, 2}
  BY DEF Route!Interfaces
<1>2. /\ Route!Cable("P1", 0) = [board |-> "P2", interface |-> 0]
      /\ Route!Cable("P1", 1) = [board |-> "main", interface |-> 0]
      /\ Route!Cable("P2", 0) = [board |-> "P1", interface |-> 0]
      /\ Route!Cable("P2", 2) = [board |-> "power", interface |-> 0]
      /\ Route!Cable("main", 0) = [board |-> "P1", interface |-> 1]
      /\ Route!Cable("power", 0) = [board |-> "P2", interface |-> 2]
  BY DEF Route!Cable
<1>3. PICK i \in is \cap Route!Interfaces[b] : e = Route!Cable(b, i)
  BY DEF Route!Neighbours
<1>. QED  BY <1>1, <1>2, <1>3, BoardsAre DEF Side, Hearers

\* What is sent lies behind what is in the queues, or was handed to an outer board, with those
\* in R: some of those who hear it; if nothing is lost, all.
SentTo(R, b, is, f, q, a, unposted) ==
  /\ \A p \in Route!Processors :
       queue'[p] = IF p \in R THEN Append(q[p], Route!Packet(f, Side(p, b))) ELSE q[p]
  /\ queue' \in [Route!Processors -> Seq(Route!Entry)]
  /\ arrived' \in [Route!Boards \X Route!Frame -> Nat]
  /\ \A c \in Route!Boards, g \in Route!Frame : arrived'[<<c, g>>] =
       IF g = f /\ c \in R \ Route!Processors THEN a[<<c, g>>] + 1 ELSE a[<<c, g>>]
  /\ lost' \in BOOLEAN /\ (lost => lost')
  /\ ~lost' => ~unposted /\ R = Hearers(b, is)

LEMMA SentOn ==
  ASSUME NEW b \in Route!Boards, NEW is, NEW f \in Route!Frame,
         NEW q \in [Route!Processors -> Seq(Route!Entry)],
         NEW a \in [Route!Boards \X Route!Frame -> Nat],
         NEW unposted, RouteTypes, Route!SendOn(b, is, f, q, a, unposted)
  PROVE  \E R \in SUBSET Hearers(b, is) : SentTo(R, b, is, f, q, a, unposted)
<1>1. PICK reached \in SUBSET Route!Neighbours(b, is) :
        /\ queue' = Route!Queued(q, f, reached)
        /\ arrived' = Route!Counted(a, f, {e.board : e \in reached} \ Route!Processors)
        /\ lost' = (lost \/ unposted \/ reached # Route!Neighbours(b, is))
  BY DEF Route!SendOn
<1> DEFINE R == {e.board : e \in reached}
<1>2. R \in SUBSET Hearers(b, is)
  BY <1>1 DEF Hearers
<1>3. ASSUME NEW p \in Route!Processors
      PROVE  /\ queue'[p] = IF p \in R THEN Append(q[p], Route!Packet(f, Side(p, b))) ELSE q[p]
             /\ queue'[p] \in Seq(Route!Entry)
  <2>1. queue'[p] = IF \E e \in reached : e.board = p
          THEN Append(q[p], Route!Packet(f, (CHOOSE e \in reached : e.board = p).interface))
          ELSE q[p]
    BY <1>1 DEF Route!Queued
  <2>2. CASE p \in R
    <3>1. \E e \in reached : e.board = p
      BY <2>2
    <3> DEFINE e == CHOOSE e \in reached : e.board = p
    <3>2. e \in reached /\ e.board = p
      BY <3>1
    <3> HIDE DEF e
    <3>3. e.interface = Side(p, b) /\ e.interface \in 0 .. 2
      BY <3>2, EndsAre
    <3>4. Route!Packet(f, Side(p, b)) \in Route!Entry
      BY <3>3 DEF Route!Packet, Route!Entry
    <3>5. queue'[p] = Append(q[p], Route!Packet(f, Side(p, b)))
      BY <2>1, <3>1, <3>3 DEF e
    <3>. QED  BY <2>2, <3>4, <3>5
  <2>3. CASE p \notin R
    BY <2>1, <2>3
  <2>. QED  BY <2>2, <2>3
<1>4. queue' \in [Route!Processors -> Seq(Route!Entry)]
  BY <1>1, <1>3 DEF Route!Queued
<1>5. /\ arrived' \in [Route!Boards \X Route!Frame -> Nat]
      /\ \A c \in Route!Boards, g \in Route!Frame : arrived'[<<c, g>>] =
           IF g = f /\ c \in R \ Route!Processors THEN a[<<c, g>>] + 1 ELSE a[<<c, g>>]
  BY <1>1 DEF Route!Counted
<1>6. lost' \in BOOLEAN /\ (lost => lost') /\ (~lost' => ~unposted /\ R = Hearers(b, is))
  BY <1>1 DEF Hearers, RouteTypes
<1>7. SentTo(R, b, is, f, q, a, unposted)
  BY <1>3, <1>4, <1>5, <1>6 DEF SentTo
<1>. QED  BY <1>2, <1>7

\* As long as nobody sends anything new, the same is due, and an entry is bound for the same.
LEMMA SameIsDue ==
  ASSUME sentFrames' = sentFrames
  PROVE  /\ \A c, f : Due(c, f)' <=> Due(c, f)
         /\ \A p, n, c, f : WaitsAt(p, n, c, f)' <=>
              n \in 1 .. Len(queue'[p]) /\ Bound(p, queue'[p][n], c, f)
<1>1. \A f : Route!Intended(f)' = Route!Intended(f)
  BY DEF Route!Intended
<1>. QED  BY <1>1 DEF Due, WaitsAt, Bound

\* What a frame needs when p has taken the head from its queue: if it was bound for c by that
\* entry, c has been handed it now (here), or it is behind the queue of the other one (there),
\* or something is lost.
LEMMA FrameMoves ==
  ASSUME RouteInv, RouteTypes',
         NEW p \in Route!Processors, NEW o \in Route!Processors, o # p, queue[p] # <<>>,
         NEW c \in Route!Boards, NEW f \in Route!Frame, f \notin echoed,
         NEW here \in BOOLEAN, NEW there \in BOOLEAN, sentFrames' = sentFrames,
         arrived'[<<c, f>>] = arrived[<<c, f>>] + (IF here THEN 1 ELSE 0),
         \A n \in 1 .. Len(queue'[p]) :
           \/ n + 1 \in 1 .. Len(queue[p]) /\ queue'[p][n] = queue[p][n + 1]
           \/ ~Bound(p, queue'[p][n], c, f),
         \A n \in 2 .. Len(queue[p]) :
           n - 1 \in 1 .. Len(queue'[p]) /\ queue'[p][n - 1] = queue[p][n],
         \A n \in 1 .. Len(queue[o]) : n \in 1 .. Len(queue'[o]) /\ queue'[o][n] = queue[o][n],
         \A n \in 1 .. Len(queue'[o]) :
           \/ n \in 1 .. Len(queue[o])
           \/ n = Len(queue[o]) + 1 /\ (Bound(o, queue'[o][n], c, f) => there),
         there => Len(queue[o]) + 1 \in 1 .. Len(queue'[o])
                  /\ Bound(o, queue'[o][Len(queue[o]) + 1], c, f),
         here \/ there => Bound(p, Head(queue[p]), c, f),
         ~(here /\ there),
         lost => lost',
         ~lost' /\ Bound(p, Head(queue[p]), c, f) => here \/ there
  PROVE  FrameOK(c, f)'
<1>1. FrameOK(c, f)
  BY DEF RouteInv
<1>2. /\ \A r : queue[r] = queue[r]
      /\ queue[p] \in Seq(Route!Entry) /\ queue[o] \in Seq(Route!Entry)
      /\ queue'[p] \in Seq(Route!Entry) /\ queue'[o] \in Seq(Route!Entry)
  BY DEF RouteInv, RouteTypes
<1>3. /\ Len(queue[p]) \in Nat \ {0} /\ Len(queue[o]) \in Nat
      /\ Len(queue'[p]) \in Nat /\ Len(queue'[o]) \in Nat
      /\ Head(queue[p]) = queue[p][1]
  BY <1>2
<1>4. Bound(p, Head(queue[p]), c, f) <=> WaitsAt(p, 1, c, f)
  BY <1>3 DEF WaitsAt
<1>5. \A r \in Route!Processors : r = p \/ r = o
  BY BoardsAre
<1>6. ASSUME NEW r \in Route!Processors, NEW n \in Nat, WaitsAt(r, n, c, f)'
      PROVE  \/ r = p /\ WaitsAt(p, n + 1, c, f) /\ n + 1 # 1
             \/ r = o /\ WaitsAt(o, n, c, f)
             \/ r = o /\ n = Len(queue[o]) + 1 /\ there
  <2>1. n \in 1 .. Len(queue'[r]) /\ Bound(r, queue'[r][n], c, f)
    BY <1>6, SameIsDue
  <2>2. CASE r = p
    BY <1>3, <2>1, <2>2 DEF WaitsAt
  <2>3. CASE r = o
    BY <1>3, <2>1, <2>3 DEF WaitsAt
  <2>. QED  BY <1>5, <2>2, <2>3
<1>7. ASSUME NEW r \in Route!Processors, NEW n \in Nat, WaitsAt(r, n, c, f)
      PROVE  \/ r = p /\ n = 1
             \/ r = p /\ n - 1 \in Nat /\ WaitsAt(p, n - 1, c, f)'
             \/ r = o /\ WaitsAt(o, n, c, f)'
  <2>1. n \in 1 .. Len(queue[r]) /\ Bound(r, queue[r][n], c, f)
    BY <1>7 DEF WaitsAt
  <2>2. CASE r = p /\ n # 1
    <3>1. n \in 2 .. Len(queue[p]) /\ n - 1 \in Nat
      BY <1>3, <2>1, <2>2
    <3>2. n - 1 \in 1 .. Len(queue'[p]) /\ Bound(p, queue'[p][n - 1], c, f)
      BY <2>1, <2>2, <3>1
    <3>. QED  BY <2>2, <3>1, <3>2, SameIsDue
  <2>3. CASE r = o
    BY <2>1, <2>3, SameIsDue
  <2>. QED  BY <1>5, <2>2, <2>3
<1>8. (Due(c, f)' <=> Due(c, f)) /\ arrived[<<c, f>>] \in {0, 1}
  BY <1>1, SameIsDue DEF FrameOK
<1>9. CASE WaitsAt(p, 1, c, f)
  <2>1. /\ Due(c, f) /\ arrived[<<c, f>>] = 0
        /\ \A r \in Route!Processors, n \in Nat : WaitsAt(r, n, c, f) => r = p /\ n = 1
    BY <1>1, <1>9 DEF FrameOK
  <2>2. \A r \in Route!Processors, n \in Nat : WaitsAt(r, n, c, f)' =>
          r = o /\ n = Len(queue[o]) + 1 /\ there
    <3>1. ASSUME NEW r \in Route!Processors, NEW n \in Nat, WaitsAt(r, n, c, f)'
          PROVE  r = o /\ n = Len(queue[o]) + 1 /\ there
      <4>1. n + 1 \in Nat
        OBVIOUS
      <4>. QED  BY <1>6, <2>1, <3>1, <4>1
    <3>. QED  BY <3>1
  <2>3. ASSUME there
        PROVE  \E r \in Route!Processors, n \in Nat : WaitsAt(r, n, c, f)'
    <3>1. PICK n \in Nat : n = Len(queue[o]) + 1
      BY <1>3
    <3>2. n \in 1 .. Len(queue'[o]) /\ Bound(o, queue'[o][n], c, f)
      BY <2>3, <3>1
    <3>3. WaitsAt(o, n, c, f)'
      BY <3>2, SameIsDue
    <3>. QED  BY <3>3
  <2>4. arrived'[<<c, f>>] = IF here THEN 1 ELSE 0
    BY <2>1
  <2>. QED  BY <1>4, <1>8, <1>9, <2>1, <2>2, <2>3, <2>4 DEF FrameOK
<1>10. CASE ~WaitsAt(p, 1, c, f)
  <2>1. ~here /\ ~there /\ arrived'[<<c, f>>] = arrived[<<c, f>>]
    BY <1>4, <1>8, <1>10
  <2>2. ASSUME NEW r \in Route!Processors, NEW n \in Nat, WaitsAt(r, n, c, f)'
        PROVE  /\ Due(c, f) /\ arrived[<<c, f>>] = 0
               /\ \A s \in Route!Processors, m \in Nat : WaitsAt(s, m, c, f)' => s = r /\ m = n
    <3>1. PICK k \in Nat : WaitsAt(r, k, c, f) /\ k = IF r = p THEN n + 1 ELSE n
      BY <1>5, <1>6, <2>1, <2>2
    <3>2. ASSUME NEW s \in Route!Processors, NEW m \in Nat, WaitsAt(s, m, c, f)'
          PROVE  s = r /\ m = n
      <4>1. PICK j \in Nat : WaitsAt(s, j, c, f) /\ j = IF s = p THEN m + 1 ELSE m
        BY <1>5, <1>6, <2>1, <3>2
      <4>2. s = r /\ j = k
        BY <1>1, <3>1, <4>1 DEF FrameOK
      <4>. QED  BY <3>1, <4>1, <4>2
    <3>. QED  BY <1>1, <3>1, <3>2 DEF FrameOK
  <2>3. ASSUME NEW r \in Route!Processors, NEW n \in Nat, WaitsAt(r, n, c, f)
        PROVE  \E s \in Route!Processors, m \in Nat : WaitsAt(s, m, c, f)'
    BY <1>7, <1>10, <2>3
  <2>. QED  BY <1>1, <1>8, <2>1, <2>2, <2>3 DEF FrameOK
<1>. QED  BY <1>9, <1>10

\* On the way away from where it comes, f goes from p to the outer board or to the other
\* processor o, and stays at p if it is for p.
Beyond(p, f, c) == c \in Route!Intended(f) /\ Onward(f.from, p, c)

Floods(p, f, is) ==
  /\ f.endpoint \in {"proxy"} \cup Route!Passed(p)
  /\ \/ f.from # p /\ is = Route!Interfaces[p] \ {Side(p, f.from)}
     \/ f.from = p /\ f.endpoint = "proxy" /\ is = Route!Interfaces[p]

LEMMA FloodsOn ==
  ASSUME NEW p \in Route!Processors, NEW o \in Route!Processors, o # p,
         NEW f \in Route!Frame, MaySend(f), NEW is, Floods(p, f, is)
  PROVE  /\ \A c \in Route!Boards :
              /\ c \in Hearers(p, is) \ Route!Processors => Beyond(p, f, c)
              /\ o \in Hearers(p, is) /\ Beyond(o, f, c) =>
                   Beyond(p, f, c) /\ c # p /\ c \notin Hearers(p, is) \ Route!Processors
              /\ Beyond(p, f, c) =>
                   \/ c = p
                   \/ c \in Hearers(p, is) \ Route!Processors
                   \/ o \in Hearers(p, is) /\ Beyond(o, f, c)
         /\ Beyond(p, f, p) <=> f.endpoint = "proxy" /\ f.id \in Route!Known(p) /\ f.from # p
         /\ o \in Hearers(p, is) => Side(o, p) = Side(o, f.from) /\ f.from # o
         /\ f.endpoint # "rpc" /\ f.endpoint # "answer" /\ p \notin Hearers(p, is)
<1>1. /\ f.endpoint \in {"proxy", "command", "imu"} /\ (f.endpoint = "imu" => p = "P1")
      /\ f.from \in {"main", "power", "P1", "P2"}
  BY BoardsAre, FrameFields DEF Floods, Route!Passed
<1>2. Hearers(p, is) =
        CASE f.from = p -> {o, "main"}
          [] p = "P1" /\ f.from = "main" -> {"P2"}
          [] p = "P1" /\ f.from # "main" /\ f.from # p -> {"main"}
          [] p = "P2" /\ f.from = "power" -> {"P1"}
          [] p = "P2" /\ f.from # "power" /\ f.from # p -> {"power"}
  BY <1>1, HearersAre, BoardsAre DEF Floods, MaySend, Side
<1>3. (p = "P1" /\ o = "P2") \/ (p = "P2" /\ o = "P1")
  BY BoardsAre
<1>4. \A c \in Route!Boards :
        /\ Onward("main", "P1", c) <=> c # "main"
        /\ Onward("P1", "P1", c)
        /\ Onward("P2", "P1", c) <=> c \in {"P1", "main"}
        /\ Onward("power", "P1", c) <=> c \in {"P1", "main"}
        /\ Onward("main", "P2", c) <=> c \in {"P2", "power"}
        /\ Onward("P1", "P2", c) <=> c \in {"P2", "power"}
        /\ Onward("P2", "P2", c)
        /\ Onward("power", "P2", c) <=> c # "power"
  <2>. TAKE c \in Route!Boards
  <2>1. CASE c = "main"
    BY <2>1, BoardsAre DEF Onward
  <2>2. CASE c = "P1"
    BY <2>2, BoardsAre DEF Onward
  <2>3. CASE c = "P2"
    BY <2>3, BoardsAre DEF Onward
  <2>4. CASE c = "power"
    BY <2>4, BoardsAre DEF Onward
  <2>. QED  BY <2>1, <2>2, <2>3, <2>4, BoardsAre
<1>5. CASE f.endpoint = "proxy"
  <2>1. Route!Intended(f) =
          ({"main", "power"} \cup {b \in {"P1", "P2"} : f.id \in Route!Known(b)}) \ {f.from}
    BY <1>5, IntendedIs
  <2>2. CASE p = "P1" /\ f.from = "P1"
    BY <1>2, <1>3, <1>4, <1>5, <2>1, <2>2, BoardsAre DEF Beyond, Side
  <2>3. CASE p = "P1" /\ f.from = "main"
    BY <1>2, <1>3, <1>4, <1>5, <2>1, <2>3, BoardsAre DEF Beyond, Side
  <2>4. CASE p = "P1" /\ f.from = "power"
    BY <1>2, <1>3, <1>4, <1>5, <2>1, <2>4, BoardsAre DEF Beyond, Side
  <2>5. CASE p = "P2" /\ f.from \in {"main", "P1"}
    BY <1>2, <1>3, <1>4, <1>5, <2>1, <2>5, BoardsAre DEF Beyond, Side
  <2>6. CASE p = "P2" /\ f.from = "power"
    BY <1>2, <1>3, <1>4, <1>5, <2>1, <2>6, BoardsAre DEF Beyond, Side
  <2>. QED  BY <1>1, <1>3, <1>5, <2>2, <2>3, <2>4, <2>5, <2>6 DEF MaySend
<1>6. CASE f.endpoint = "command"
  <2>1. Route!Intended(f) = {"main", "power"} \ {f.from} /\ f.from \in {"main", "power"}
    BY <1>6, IntendedIs DEF MaySend
  <2>. QED  BY <1>1, <1>2, <1>3, <1>4, <1>6, <2>1, BoardsAre DEF Beyond, Side
<1>7. CASE f.endpoint = "imu"
  <2>1. /\ Route!Intended(f) = (IF f.from = "main" THEN {"P2"} ELSE {"main"})
        /\ f.from \in {"main", "P2"}
    BY <1>7, IntendedIs DEF MaySend
  <2>. QED  BY <1>1, <1>2, <1>3, <1>4, <1>7, <2>1, BoardsAre DEF Beyond, Side
<1>. QED  BY <1>1, <1>5, <1>6, <1>7

\* Sequences after their head was taken, and with one more.
LEMMA TakenAndPut ==
  ASSUME NEW s \in Seq(Route!Entry), NEW m \in Route!Entry
  PROVE  /\ Append(s, m) \in Seq(Route!Entry) /\ Len(Append(s, m)) = Len(s) + 1
         /\ \A n \in 1 .. Len(s) : Append(s, m)[n] = s[n]
         /\ Append(s, m)[Len(s) + 1] = m /\ Len(s) \in Nat
         /\ s # <<>> =>
              /\ Head(s) \in Route!Entry /\ Tail(s) \in Seq(Route!Entry)
              /\ Len(s) \in Nat \ {0} /\ Len(Tail(s)) = Len(s) - 1
              /\ Head(s) = s[1] /\ \A n \in 1 .. Len(Tail(s)) : Tail(s)[n] = s[n + 1]
<1>1. /\ Append(s, m) \in Seq(Route!Entry) /\ Len(Append(s, m)) = Len(s) + 1
      /\ \A n \in 1 .. Len(s) : Append(s, m)[n] = s[n]
      /\ Append(s, m)[Len(s) + 1] = m /\ Len(s) \in Nat
  BY AppendProperties
<1>2. ASSUME s # <<>>
      PROVE  /\ Head(s) \in Route!Entry /\ Tail(s) \in Seq(Route!Entry)
             /\ Len(s) \in Nat \ {0} /\ Len(Tail(s)) = Len(s) - 1
             /\ Head(s) = s[1] /\ \A n \in 1 .. Len(Tail(s)) : Tail(s)[n] = s[n + 1]
  BY <1>2, HeadTailProperties, EmptySeq
<1>. QED  BY <1>1, <1>2

\* What p takes from its queue and puts behind it.
Took(p, mine) ==
  \/ mine = Tail(queue[p])
  \/ \E m \in Route!Entry :
       /\ mine = Append(Tail(queue[p]), m) /\ EntryOK(p, m)
       /\ m.kind = "message" /\ m.frame.from # p

LEMMA TookIs ==
  ASSUME RouteInv, NEW p \in Route!Processors, queue[p] # <<>>, NEW mine, Took(p, mine)
  PROVE  /\ mine \in Seq(Route!Entry)
         /\ \A n \in 1 .. Len(mine) :
              \/ n + 1 \in 1 .. Len(queue[p]) /\ mine[n] = queue[p][n + 1]
              \/ /\ \A c, f : ~Bound(p, mine[n], c, f)
                 /\ EntryOK(p, mine[n])
         /\ \A n \in 2 .. Len(queue[p]) : n - 1 \in 1 .. Len(mine) /\ mine[n - 1] = queue[p][n]
         /\ Head(queue[p]) \in Route!Entry /\ EntryOK(p, Head(queue[p]))
<1>1. PICK s \in Seq(Route!Entry) : s = queue[p] /\ s # <<>>
  BY DEF RouteInv, RouteTypes
<1>2. /\ Head(s) \in Route!Entry /\ Tail(s) \in Seq(Route!Entry)
      /\ Len(s) \in Nat \ {0} /\ Len(Tail(s)) = Len(s) - 1
      /\ Head(s) = s[1] /\ \A n \in 1 .. Len(Tail(s)) : Tail(s)[n] = s[n + 1]
  <2>1. Head(s) \in Route!Entry
    BY <1>1, HeadTailProperties
  <2>. QED  BY <1>1, <2>1, TakenAndPut
<1>3. EntryOK(p, Head(queue[p]))
  BY <1>1, <1>2 DEF RouteInv
<1>4. PICK t \in Seq(Route!Entry) : t = Tail(s)
  BY <1>2
<1>5. CASE mine = Tail(queue[p])
  BY <1>1, <1>2, <1>3, <1>5
<1>6. CASE mine # Tail(queue[p])
  <2>1. PICK m \in Route!Entry : /\ mine = Append(Tail(queue[p]), m) /\ EntryOK(p, m)
                                 /\ m.kind = "message" /\ m.frame.from # p
    BY <1>6 DEF Took
  <2>2. mine = Append(t, m)
    BY <1>1, <1>4, <2>1
  <2>3. /\ mine \in Seq(Route!Entry) /\ Len(mine) = Len(t) + 1
        /\ \A n \in 1 .. Len(t) : mine[n] = t[n]
        /\ mine[Len(t) + 1] = m /\ Len(t) = Len(s) - 1
    BY <1>2, <1>4, <2>2, TakenAndPut
  <2>4. \A c, f : ~Bound(p, m, c, f)
    BY <2>1 DEF Bound
  <2>5. ASSUME NEW n \in 1 .. Len(mine)
        PROVE  \/ n + 1 \in 1 .. Len(queue[p]) /\ mine[n] = queue[p][n + 1]
               \/ (\A c, f : ~Bound(p, mine[n], c, f)) /\ EntryOK(p, mine[n])
    <3>1. CASE n \in 1 .. Len(t)
      BY <1>1, <1>2, <1>4, <2>3, <3>1
    <3>2. CASE n \notin 1 .. Len(t)
      <4>1. n = Len(t) + 1
        BY <1>2, <2>3, <3>2
      <4>. QED  BY <2>1, <2>3, <2>4, <4>1
    <3>. QED  BY <3>1, <3>2
  <2>6. \A n \in 2 .. Len(queue[p]) : n - 1 \in 1 .. Len(mine) /\ mine[n - 1] = queue[p][n]
    <3>1. ASSUME NEW n \in 2 .. Len(s) PROVE n - 1 \in 1 .. Len(mine) /\ mine[n - 1] = s[n]
      <4>1. n - 1 \in 1 .. Len(t) /\ (n - 1) + 1 = n /\ n - 1 \in 1 .. Len(mine)
        BY <1>2, <2>3
      <4>2. mine[n - 1] = t[n - 1] /\ t[n - 1] = s[(n - 1) + 1]
        BY <1>2, <1>4, <2>3, <4>1
      <4>. QED  BY <4>1, <4>2
    <3>. QED  BY <1>1, <3>1
  <2>. QED  BY <1>1, <1>2, <1>3, <2>3, <2>5, <2>6
<1>. QED  BY <1>5, <1>6

\* What can be in a queue still can when more was sent.
LEMMA EntriesStay ==
  ASSUME sentFrames \subseteq sentFrames', echoed \subseteq echoed'
  PROVE  \A p, e : EntryOK(p, e) => EntryOK(p, e)'
  BY DEF EntryOK

\* What has to hold of a frame when p has taken the head of its queue and has put a
\* packet, if put, behind the queue of o.
HeadMoved(p, o, put, packet, c, f) ==
  LET here == arrived'[<<c, f>>] # arrived[<<c, f>>]
      there == put /\ Bound(o, packet, c, f)
  IN /\ arrived'[<<c, f>>] \in {arrived[<<c, f>>], arrived[<<c, f>>] + 1}
     /\ here \/ there => Bound(p, Head(queue[p]), c, f)
     /\ ~(here /\ there)
     /\ ~lost' /\ Bound(p, Head(queue[p]), c, f) => here \/ there

LEMMA QueuesMove ==
  ASSUME RouteInv, RouteTypes',
         NEW p \in Route!Processors, NEW o \in Route!Processors, o # p, queue[p] # <<>>,
         Took(p, queue'[p]), NEW put \in BOOLEAN, NEW packet \in Route!Entry,
         queue'[o] = IF put THEN Append(queue[o], packet) ELSE queue[o],
         put => EntryOK(o, packet)',
         sentFrames' = sentFrames, echoed \subseteq echoed', lost => lost',
         \A c \in Route!Boards, f \in Route!Frame :
           f \notin echoed' => HeadMoved(p, o, put, packet, c, f)
  PROVE  RouteInv'
<1>1. /\ \A n \in 1 .. Len(queue'[p]) :
           \/ n + 1 \in 1 .. Len(queue[p]) /\ queue'[p][n] = queue[p][n + 1]
           \/ /\ \A c, f : ~Bound(p, queue'[p][n], c, f)
              /\ EntryOK(p, queue'[p][n])
      /\ \A n \in 2 .. Len(queue[p]) : n - 1 \in 1 .. Len(queue'[p]) /\ queue'[p][n - 1] = queue[p][n]
  BY TookIs
<1>2. PICK s \in Seq(Route!Entry) : s = queue[o] /\ Len(s) \in Nat
  BY DEF RouteInv, RouteTypes
<1>3. /\ Len(Append(s, packet)) = Len(s) + 1 /\ Append(s, packet)[Len(s) + 1] = packet
      /\ \A n \in 1 .. Len(s) : Append(s, packet)[n] = s[n]
  BY TakenAndPut
<1>4. /\ \A n \in 1 .. Len(queue[o]) : n \in 1 .. Len(queue'[o]) /\ queue'[o][n] = queue[o][n]
      /\ \A n \in 1 .. Len(queue'[o]) :
           \/ n \in 1 .. Len(queue[o])
           \/ n = Len(queue[o]) + 1 /\ queue'[o][n] = packet /\ put
      /\ put => Len(queue[o]) + 1 \in 1 .. Len(queue'[o]) /\ queue'[o][Len(queue[o]) + 1] = packet
  <2>1. CASE put
    BY <1>2, <1>3, <2>1
  <2>2. CASE ~put
    BY <1>2, <2>2
  <2>. QED  BY <2>1, <2>2
<1>5. \A r, e : EntryOK(r, e) => EntryOK(r, e)'
  BY EntriesStay
<1>6. \A r \in Route!Processors : r = p \/ r = o
  BY BoardsAre
<1>7. ASSUME NEW r \in Route!Processors, NEW n \in 1 .. Len(queue'[r])
      PROVE  EntryOK(r, queue[r][n])'
  <2>1. CASE r = p
    <3>1. PICK e : e = queue'[p][n] /\ EntryOK(p, e)
      BY <1>1, <1>7, <2>1 DEF RouteInv
    <3>2. EntryOK(p, e)'
      BY <1>5, <3>1
    <3>. QED  BY <2>1, <3>1, <3>2
  <2>2. CASE r = o /\ n \in 1 .. Len(queue[o])
    <3>1. PICK e : e = queue'[o][n] /\ EntryOK(o, e)
      BY <1>4, <1>7, <2>2 DEF RouteInv
    <3>2. EntryOK(o, e)'
      BY <1>5, <3>1
    <3>. QED  BY <2>2, <3>1, <3>2
  <2>3. CASE r = o /\ n \notin 1 .. Len(queue[o])
    <3>1. put /\ queue'[o][n] = packet
      BY <1>4, <1>7, <2>3
    <3>. QED  BY <2>3, <3>1
  <2>. QED  BY <1>6, <2>1, <2>2, <2>3
<1>8. ASSUME NEW c \in Route!Boards, NEW f \in Route!Frame, f \notin echoed'
      PROVE  FrameOK(c, f)'
  <2>1. HeadMoved(p, o, put, packet, c, f) /\ f \notin echoed
    BY <1>8
  <2>2. PICK here \in BOOLEAN, there \in BOOLEAN :
          /\ here <=> arrived'[<<c, f>>] # arrived[<<c, f>>]
          /\ there <=> put /\ Bound(o, packet, c, f)
    <3>1. /\ (arrived'[<<c, f>>] # arrived[<<c, f>>]) \in BOOLEAN
          /\ (put /\ Bound(o, packet, c, f)) \in BOOLEAN
      OBVIOUS
    <3>. QED  BY <3>1
  <2>3. /\ arrived'[<<c, f>>] = arrived[<<c, f>>] + (IF here THEN 1 ELSE 0)
        /\ here \/ there => Bound(p, Head(queue[p]), c, f)
        /\ ~(here /\ there)
        /\ ~lost' /\ Bound(p, Head(queue[p]), c, f) => here \/ there
    <3>1. arrived[<<c, f>>] \in Nat
      BY DEF RouteInv, RouteTypes
    <3>. QED  BY <2>1, <2>2, <3>1 DEF HeadMoved
  <2>4. /\ \A n \in 1 .. Len(queue'[p]) :
             \/ n + 1 \in 1 .. Len(queue[p]) /\ queue'[p][n] = queue[p][n + 1]
             \/ ~Bound(p, queue'[p][n], c, f)
        /\ \A n \in 1 .. Len(queue'[o]) :
             \/ n \in 1 .. Len(queue[o])
             \/ n = Len(queue[o]) + 1 /\ (Bound(o, queue'[o][n], c, f) => there)
        /\ there => Len(queue[o]) + 1 \in 1 .. Len(queue'[o])
                    /\ Bound(o, queue'[o][Len(queue[o]) + 1], c, f)
    BY <1>1, <1>4, <2>2
  <2>5. \A n \in 2 .. Len(queue[p]) : n - 1 \in 1 .. Len(queue'[p]) /\ queue'[p][n - 1] = queue[p][n]
    BY <1>1
  <2>6. \A n \in 1 .. Len(queue[o]) : n \in 1 .. Len(queue'[o]) /\ queue'[o][n] = queue[o][n]
    BY <1>4
  <2>. QED  BY <2>1, <2>3, <2>4, <2>5, <2>6, FrameMoves
<1>. QED  BY <1>7, <1>8 DEF RouteInv

\* What an entry is bound for if it is no request.
LEMMA BoundIs ==
  ASSUME NEW p, NEW e, e.frame.endpoint # "rpc", e.kind = "packet" \/ e.frame.from = p
  PROVE  \A c, f : Bound(p, e, c, f) <=> f = e.frame /\ Beyond(p, f, c)
  BY DEF Bound, Beyond

\* p has taken and put, which left its queue as mine, and was handed f if known.
LeftWith(q, p, mine) == q = [queue EXCEPT ![p] = mine]
HandedTo(a, known, f, p) == a = IF known THEN Route!Counted(arrived, f, {p}) ELSE arrived

\* If it is for p there was room for its message, or not.
Posted(p, f, unposted, known) == Beyond(p, f, p) /\ ~unposted => known

\* A packet, or a message of its own, that p sends on.
LEMMA FloodGoesOn ==
  ASSUME RouteInv, NEW p \in Route!Processors, NEW o \in Route!Processors, o # p,
         queue[p] # <<>>, NEW f \in Route!Frame, f = Head(queue[p]).frame,
         Head(queue[p]).kind = "packet" \/ f.from = p, NEW is, Floods(p, f, is),
         NEW mine, Took(p, mine), NEW q, LeftWith(q, p, mine),
         NEW known \in BOOLEAN, known => Beyond(p, f, p),
         NEW unposted, Posted(p, f, unposted, known),
         NEW a, HandedTo(a, known, f, p),
         Route!SendOn(p, is, f, q, a, unposted), sentFrames' = sentFrames, echoed' = echoed
  PROVE  RouteInv'
<1>1. RouteTypes /\ EntryOK(p, Head(queue[p])) /\ mine \in Seq(Route!Entry)
  BY TookIs DEF RouteInv
<1>2. /\ queue \in [Route!Processors -> Seq(Route!Entry)]
      /\ q \in [Route!Processors -> Seq(Route!Entry)] /\ q[p] = mine /\ q[o] = queue[o]
      /\ p \in Route!Boards /\ lost \in BOOLEAN
  BY <1>1, BoardsAre DEF RouteTypes, LeftWith
<1>3. /\ a \in [Route!Boards \X Route!Frame -> Nat]
      /\ \A c \in Route!Boards, g \in Route!Frame : a[<<c, g>>] =
           IF known /\ c = p /\ g = f THEN arrived[<<c, g>>] + 1 ELSE arrived[<<c, g>>]
  <2>1. arrived \in [Route!Boards \X Route!Frame -> Nat]
    BY <1>1 DEF RouteTypes
  <2>2. CASE known
    BY <2>1, <2>2 DEF Route!Counted, HandedTo
  <2>3. CASE ~known
    BY <2>1, <2>3 DEF HandedTo
  <2>. QED  BY <2>2, <2>3
<1>4. PICK R \in SUBSET Hearers(p, is) : SentTo(R, p, is, f, q, a, unposted)
  <2>1. p \in Route!Boards /\ f \in Route!Frame /\ RouteTypes
    BY <1>1, <1>2
  <2>2. q \in [Route!Processors -> Seq(Route!Entry)]
    BY <1>2
  <2>3. a \in [Route!Boards \X Route!Frame -> Nat]
    BY <1>3
  <2>4. Route!SendOn(p, is, f, q, a, unposted)
    OBVIOUS
  <2>. HIDE DEF SentTo
  <2>. QED  BY <2>1, <2>2, <2>3, <2>4, SentOn
<1>15. /\ \A r \in Route!Processors :
             queue'[r] = IF r \in R THEN Append(q[r], Route!Packet(f, Side(r, p))) ELSE q[r]
       /\ queue' \in [Route!Processors -> Seq(Route!Entry)]
       /\ arrived' \in [Route!Boards \X Route!Frame -> Nat]
       /\ \A c \in Route!Boards, g \in Route!Frame : arrived'[<<c, g>>] =
             IF g = f /\ c \in R \ Route!Processors THEN a[<<c, g>>] + 1 ELSE a[<<c, g>>]
       /\ lost' \in BOOLEAN /\ (lost => lost')
       /\ ~lost' => ~unposted /\ R = Hearers(p, is)
  BY <1>4 DEF SentTo
<1>5. MaySend(f)
  BY <1>1 DEF EntryOK
<1>6. /\ \A c \in Route!Boards :
           /\ c \in Hearers(p, is) \ Route!Processors => Beyond(p, f, c)
           /\ o \in Hearers(p, is) /\ Beyond(o, f, c) =>
                Beyond(p, f, c) /\ c # p /\ c \notin Hearers(p, is) \ Route!Processors
           /\ Beyond(p, f, c) =>
                \/ c = p
                \/ c \in Hearers(p, is) \ Route!Processors
                \/ o \in Hearers(p, is) /\ Beyond(o, f, c)
      /\ o \in Hearers(p, is) => Side(o, p) = Side(o, f.from) /\ f.from # o
      /\ f.endpoint # "rpc" /\ p \notin Hearers(p, is)
  BY <1>5, FloodsOn
<1>7. Side(o, p) \in 0 .. 2
  BY DEF Side
<1>8. PICK packet \in Route!Entry : packet = Route!Packet(f, Side(o, p))
  BY <1>7 DEF Route!Packet, Route!Entry
<1>9. packet.kind = "packet" /\ packet.frame = f /\ packet.interface = Side(o, p)
  BY <1>8 DEF Route!Packet
<1>10. PICK put \in BOOLEAN : put <=> o \in R
  OBVIOUS
<1>11. /\ Took(p, queue'[p])
       /\ queue'[o] = IF put THEN Append(queue[o], packet) ELSE queue[o]
  BY <1>2, <1>15, <1>6, <1>8, <1>10
<1>12. put => EntryOK(o, packet)'
  <2>1. SUFFICES ASSUME put PROVE EntryOK(o, packet)'
    OBVIOUS
  <2>2. f \in sentFrames \cup echoed
    BY <1>1 DEF EntryOK
  <2>3. packet.interface = Side(o, f.from) /\ f.from # o
    BY <1>6, <1>9, <1>10, <2>1
  <2>. QED  BY <1>5, <1>6, <1>9, <2>2, <2>3 DEF EntryOK
<1>13. RouteTypes'
  BY <1>1, <1>15 DEF RouteTypes
<1>14. ASSUME NEW c \in Route!Boards, NEW g \in Route!Frame
       PROVE  HeadMoved(p, o, put, packet, c, g)
  <2>1. /\ Bound(p, Head(queue[p]), c, g) <=> g = f /\ Beyond(p, g, c)
        /\ Bound(o, packet, c, g) <=> g = f /\ Beyond(o, g, c)
    BY <1>6, <1>9, BoundIs
  <2>2. arrived[<<c, g>>] \in Nat
    BY <1>1 DEF RouteTypes
  <2>3. /\ arrived'[<<c, g>>] = arrived[<<c, g>>] + (IF g = f /\ ((known /\ c = p) \/ c \in R \ Route!Processors)
                                                     THEN 1 ELSE 0)
    <3>1. ~(c = p /\ c \in R \ Route!Processors)
      OBVIOUS
    <3>2. arrived'[<<c, g>>] = IF g = f /\ c \in R \ Route!Processors
                                 THEN a[<<c, g>>] + 1 ELSE a[<<c, g>>]
      BY <1>15
    <3>3. a[<<c, g>>] = IF known /\ c = p /\ g = f THEN arrived[<<c, g>>] + 1
                                                   ELSE arrived[<<c, g>>]
      BY <1>3
    <3>. QED  BY <2>2, <3>1, <3>2, <3>3
  <2>4. CASE g = f
    BY <1>15, <1>6, <1>10, <2>1, <2>2, <2>3, <2>4 DEF HeadMoved, Posted
  <2>5. CASE g # f
    BY <1>15, <1>6, <1>10, <2>1, <2>2, <2>3, <2>5 DEF HeadMoved, Posted
  <2>. QED  BY <2>4, <2>5
<1>. QED  BY <1>15, <1>11, <1>12, <1>13, <1>14, QueuesMove

\* A message of P1's own goes out on every interface.
LEMMA OwnMessage ==
  ASSUME RouteInv, NEW p \in Route!Processors, NEW o \in Route!Processors, o # p,
         queue[p] # <<>>, Head(queue[p]).kind = "message", Head(queue[p]).frame.from = p,
         NEW q, LeftWith(q, p, Tail(queue[p])), sentFrames' = sentFrames,
         Route!MsgCallback(p, Head(queue[p]), q)
  PROVE  RouteInv'
<1>1. Took(p, Tail(queue[p]))
  BY DEF Took
<1>2. PICK e \in Route!Entry : e = Head(queue[p]) /\ EntryOK(p, e)
  BY <1>1, TookIs
<1>3. PICK f \in Route!Frame : f = e.frame /\ MaySend(f) /\ f.endpoint = "proxy" /\ f.from = p
  BY <1>2 DEF EntryOK
<1>4. [f EXCEPT !.from = p] = f
  BY <1>3, FrameFields
<1>5. Route!SendOn(p, Route!Interfaces[p], f, q, arrived, FALSE) /\ echoed' = echoed
  BY <1>2, <1>3, <1>4 DEF Route!MsgCallback
<1>6. Floods(p, f, Route!Interfaces[p])
  BY <1>3 DEF Floods
<1>7. ~Beyond(p, f, p)
  BY <1>3, <1>6, FloodsOn
<1>8. HandedTo(arrived, FALSE, f, p) /\ Posted(p, f, FALSE, FALSE)
  BY <1>7 DEF HandedTo, Posted
<1>. QED  BY <1>1, <1>2, <1>3, <1>5, <1>6, <1>7, <1>8, FloodGoesOn

\* A message of another board goes out again, as one of P1.
LEMMA EchoedMessage ==
  ASSUME RouteInv, NEW p \in Route!Processors, NEW o \in Route!Processors, o # p,
         queue[p] # <<>>, Head(queue[p]).kind = "message", Head(queue[p]).frame.from # p,
         NEW q, LeftWith(q, p, Tail(queue[p])), sentFrames' = sentFrames,
         Route!MsgCallback(p, Head(queue[p]), q)
  PROVE  RouteInv'
<1>1. Took(p, Tail(queue[p])) /\ RouteTypes
  BY DEF Took, RouteInv
<1>2. Tail(queue[p]) \in Seq(Route!Entry)
  BY <1>1, TookIs
<1>3. PICK e \in Route!Entry : e = Head(queue[p]) /\ EntryOK(p, e)
  BY <1>1, TookIs
<1>4. /\ p = "P1" /\ o = "P2" /\ e.frame \in Route!Frame /\ e.frame.endpoint = "proxy"
      /\ e.kind = "message" /\ e.frame.from # p
  BY <1>3, BoardsAre DEF EntryOK
<1>5. PICK f : f = [e.frame EXCEPT !.from = p]
  OBVIOUS
<1>6. f.endpoint = "proxy" /\ f.from = "P1" /\ f \in Route!Frame
  <2>1. PICK g \in Route!Frame : g = e.frame
    BY <1>4
  <2>2. /\ g = [endpoint |-> g.endpoint, id |-> g.id, from |-> g.from]
        /\ g.endpoint = "proxy" /\ g.id \in Broadcasts
    BY <1>4, <2>1, FrameFields
  <2>3. f = [endpoint |-> "proxy", id |-> g.id, from |-> "P1"]
    BY <1>4, <1>5, <2>1, <2>2
  <2>. QED  BY <2>2, <2>3, BoardsAre DEF Route!Frame
<1>7. /\ Route!SendOn(p, Route!Interfaces[p], f, q, arrived, FALSE)
      /\ echoed' = echoed \cup {f}
  BY <1>3, <1>4, <1>5 DEF Route!MsgCallback
<1>8. /\ queue \in [Route!Processors -> Seq(Route!Entry)]
      /\ q \in [Route!Processors -> Seq(Route!Entry)]
      /\ q[p] = Tail(queue[p]) /\ q[o] = queue[o]
      /\ arrived \in [Route!Boards \X Route!Frame -> Nat] /\ p \in Route!Boards
  BY <1>1, <1>2, BoardsAre DEF RouteTypes, LeftWith
<1>9. PICK R \in SUBSET Hearers(p, Route!Interfaces[p]) :
        SentTo(R, p, Route!Interfaces[p], f, q, arrived, FALSE)
  BY <1>1, <1>6, <1>7, <1>8, SentOn
<1>10. /\ \A r \in Route!Processors :
             queue'[r] = IF r \in R THEN Append(q[r], Route!Packet(f, Side(r, p))) ELSE q[r]
       /\ queue' \in [Route!Processors -> Seq(Route!Entry)]
       /\ arrived' \in [Route!Boards \X Route!Frame -> Nat]
       /\ \A c \in Route!Boards, g \in Route!Frame : arrived'[<<c, g>>] =
             IF g = f /\ c \in R \ Route!Processors THEN arrived[<<c, g>>] + 1
                                                  ELSE arrived[<<c, g>>]
       /\ lost' \in BOOLEAN /\ (lost => lost')
  BY <1>9 DEF SentTo
<1>20. Side(o, p) \in 0 .. 2
  BY DEF Side
<1>11. PICK packet \in Route!Entry : packet = Route!Packet(f, Side(o, p))
  BY <1>6, <1>20 DEF Route!Packet, Route!Entry
<1>12. packet.kind = "packet" /\ packet.frame = f /\ packet.interface = Side(o, p)
  BY <1>11 DEF Route!Packet
<1>13. PICK put \in BOOLEAN : put <=> o \in R
  OBVIOUS
<1>14. p \notin R
  BY <1>4, <1>9, HearersAre
<1>15. /\ Took(p, queue'[p])
       /\ queue'[o] = IF put THEN Append(queue[o], packet) ELSE queue[o]
  BY <1>1, <1>8, <1>10, <1>11, <1>13, <1>14
<1>16. EntryOK(o, packet)'
  BY <1>4, <1>6, <1>7, <1>12 DEF EntryOK, MaySend
<1>17. RouteTypes'
  BY <1>1, <1>6, <1>7, <1>10 DEF RouteTypes
<1>18. ASSUME NEW c \in Route!Boards, NEW g \in Route!Frame, g \notin echoed'
       PROVE  HeadMoved(p, o, put, packet, c, g)
  <2>1. g # f
    BY <1>7, <1>18
  <2>2. arrived'[<<c, g>>] = arrived[<<c, g>>]
    BY <1>10, <2>1
  <2>3. ~Bound(o, packet, c, g)
    BY <1>6, <1>12, <2>1 DEF Bound
  <2>4. ~Bound(p, Head(queue[p]), c, g)
    BY <1>3, <1>4 DEF Bound
  <2>. QED  BY <2>2, <2>3, <2>4 DEF HeadMoved
<1>19. echoed \subseteq echoed' /\ (lost => lost')
  BY <1>7, <1>10
<1>. QED  BY <1>15, <1>16, <1>17, <1>18, <1>19, QueuesMove

\* What came for others goes on, away from where it came.
LEMMA PassedOn ==
  ASSUME RouteInv, NEW p \in Route!Processors, NEW o \in Route!Processors, o # p,
         queue[p] # <<>>, Head(queue[p]).kind = "packet",
         Head(queue[p]).frame.endpoint \in Route!Passed(p),
         NEW q, LeftWith(q, p, Tail(queue[p])), sentFrames' = sentFrames,
         Route!Proxy(p, Head(queue[p]), q)
  PROVE  RouteInv'
<1>1. Took(p, Tail(queue[p]))
  BY DEF Took
<1>2. PICK e \in Route!Entry : e = Head(queue[p]) /\ EntryOK(p, e)
  BY <1>1, TookIs
<1>3. PICK f \in Route!Frame : /\ f = e.frame /\ MaySend(f) /\ f.endpoint \in Route!Passed(p)
                               /\ f.from # p /\ e.interface = Side(p, f.from)
  BY <1>2 DEF EntryOK
<1>4. PICK is : is = Route!Interfaces[p] \ {Side(p, f.from)}
  OBVIOUS
<1>5. Route!SendOn(p, is, f, q, arrived, FALSE) /\ echoed' = echoed
  BY <1>2, <1>3, <1>4 DEF Route!Proxy
<1>6. Floods(p, f, is)
  BY <1>3, <1>4 DEF Floods
<1>7. ~Beyond(p, f, p)
  <2>1. f.endpoint # "proxy"
    BY <1>3 DEF Route!Passed
  <2>. QED  BY <1>3, <1>6, <2>1, FloodsOn
<1>8. HandedTo(arrived, FALSE, f, p) /\ Posted(p, f, FALSE, FALSE)
  BY <1>7 DEF HandedTo, Posted
<1>. QED  BY <1>1, <1>2, <1>3, <1>5, <1>6, <1>7, <1>8, FloodGoesOn

\* A message for the processor is posted, behind its queue if it is registered.
LEMMA CameIn ==
  ASSUME RouteInv, NEW p \in Route!Processors, NEW o \in Route!Processors, o # p,
         queue[p] # <<>>, Head(queue[p]).kind = "packet",
         Head(queue[p]).frame.endpoint = "proxy",
         NEW q, LeftWith(q, p, Tail(queue[p])), sentFrames' = sentFrames,
         Route!IncommingEndpoint(p, Head(queue[p]), q)
  PROVE  RouteInv'
<1>1. Took(p, Tail(queue[p])) /\ RouteTypes
  BY DEF Took, RouteInv
<1>2. Tail(queue[p]) \in Seq(Route!Entry)
  BY <1>1, TookIs
<1>3. PICK e \in Route!Entry : e = Head(queue[p]) /\ EntryOK(p, e)
  BY <1>1, TookIs
<1>4. PICK f \in Route!Frame : /\ f = e.frame /\ MaySend(f) /\ f.endpoint = "proxy"
                               /\ f.from # p /\ e.interface = Side(p, f.from)
  BY <1>3 DEF EntryOK
<1>5. PICK is : is = Route!Interfaces[p] \ {Side(p, f.from)}
  OBVIOUS
<1>6. Floods(p, f, is)
  BY <1>4, <1>5 DEF Floods
<1>7. Beyond(p, f, p) <=> f.id \in Route!Known(p)
  BY <1>4, <1>6, FloodsOn
<1>8. PICK accepted \in BOOLEAN :
        Route!SendOn(p, is, f,
          IF f.id \in Route!Known(p) /\ accepted /\ f.id \in Route!Registered(p)
            THEN [q EXCEPT ![p] = Append(@, [e EXCEPT !.kind = "message"])] ELSE q,
          IF f.id \in Route!Known(p) /\ accepted THEN Route!Counted(arrived, f, {p}) ELSE arrived,
          ~accepted) /\ echoed' = echoed
  BY <1>3, <1>4, <1>5 DEF Route!IncommingEndpoint
<1>9. PICK known \in BOOLEAN : known <=> f.id \in Route!Known(p) /\ accepted
  OBVIOUS
<1>10. PICK unposted : unposted = ~accepted
  OBVIOUS
<1>11. PICK m : m = [e EXCEPT !.kind = "message"]
  OBVIOUS
<1>12. m \in Route!Entry /\ m.kind = "message" /\ m.frame = f
  <2>1. e = [kind |-> e.kind, frame |-> f, interface |-> e.interface] /\ e.interface \in 0 .. 2
    BY <1>4 DEF Route!Entry
  <2>2. m = [kind |-> "message", frame |-> f, interface |-> e.interface]
    BY <1>11, <2>1
  <2>. QED  BY <2>1, <2>2 DEF Route!Entry
<1>13. PICK mine : mine = IF known /\ f.id \in Route!Registered(p)
                            THEN Append(Tail(queue[p]), m) ELSE Tail(queue[p])
  OBVIOUS
<1>14. PICK r : r = IF known /\ f.id \in Route!Registered(p) THEN [q EXCEPT ![p] = Append(@, m)]
                                                             ELSE q
  OBVIOUS
<1>15. PICK a : a = IF known THEN Route!Counted(arrived, f, {p}) ELSE arrived
  OBVIOUS
<1>16. Took(p, mine)
  <2>1. CASE known /\ f.id \in Route!Registered(p)
    <3>1. p = "P1"
      BY <2>1, BoardsAre DEF Route!Registered
    <3>2. EntryOK(p, m)
      BY <1>4, <1>12, <3>1 DEF EntryOK
    <3>. QED  BY <1>4, <1>12, <1>13, <2>1, <3>2 DEF Took
  <2>2. CASE ~(known /\ f.id \in Route!Registered(p))
    BY <1>1, <1>13, <2>2
  <2>. QED  BY <2>1, <2>2
<1>17. LeftWith(r, p, mine)
  <2>1. queue \in [Route!Processors -> Seq(Route!Entry)]
    BY <1>1 DEF RouteTypes
  <2>2. CASE known /\ f.id \in Route!Registered(p)
    BY <1>13, <1>14, <2>1, <2>2 DEF LeftWith
  <2>3. CASE ~(known /\ f.id \in Route!Registered(p))
    BY <1>13, <1>14, <2>1, <2>3 DEF LeftWith
  <2>. QED  BY <2>2, <2>3
<1>18. HandedTo(a, known, f, p)
  BY <1>15 DEF HandedTo
<1>19. Posted(p, f, unposted, known) /\ (known => Beyond(p, f, p))
  BY <1>7, <1>9, <1>10 DEF Posted
<1>20. Route!SendOn(p, is, f, r, a, unposted) /\ echoed' = echoed
  <2>1. CASE known /\ f.id \in Route!Registered(p)
    BY <1>8, <1>9, <1>10, <1>11, <1>14, <1>15, <2>1
  <2>2. CASE known /\ f.id \notin Route!Registered(p)
    BY <1>8, <1>9, <1>10, <1>11, <1>14, <1>15, <2>2
  <2>3. CASE ~known
    BY <1>8, <1>9, <1>10, <1>11, <1>14, <1>15, <2>3
  <2>. QED  BY <2>1, <2>2, <2>3
<1>. QED  BY <1>3, <1>4, <1>6, <1>16, <1>17, <1>18, <1>19, <1>20, FloodGoesOn

\* What ends at p: it was bound for nobody else, or for whom it has reached at once.
LEMMA EndsHere ==
  ASSUME RouteInv, RouteTypes', NEW p \in Route!Processors, queue[p] # <<>>,
         \A r \in Route!Processors : queue'[r] = IF r = p THEN Tail(queue[p]) ELSE queue[r],
         sentFrames' = sentFrames, echoed' = echoed, lost => lost',
         \A c \in Route!Boards, g \in Route!Frame :
           \/ /\ arrived'[<<c, g>>] = arrived[<<c, g>>] + 1
              /\ Bound(p, Head(queue[p]), c, g)
           \/ /\ arrived'[<<c, g>>] = arrived[<<c, g>>]
              /\ lost' \/ ~Bound(p, Head(queue[p]), c, g)
  PROVE  RouteInv'
<1>1. PICK o \in Route!Processors : o # p
  BY BoardsAre
<1>2. Took(p, Tail(queue[p]))
  BY DEF Took
<1>3. Head(queue[p]) \in Route!Entry
  BY <1>2, TookIs
<1>4. Took(p, queue'[p]) /\ queue'[o] = IF FALSE THEN Append(queue[o], Head(queue[p])) ELSE queue[o]
  BY <1>1, <1>2
<1>5. ASSUME NEW c \in Route!Boards, NEW g \in Route!Frame
      PROVE  HeadMoved(p, o, FALSE, Head(queue[p]), c, g)
  <2>1. arrived[<<c, g>>] \in Nat
    BY DEF RouteInv, RouteTypes
  <2>2. CASE /\ arrived'[<<c, g>>] = arrived[<<c, g>>] + 1
             /\ Bound(p, Head(queue[p]), c, g)
    BY <2>1, <2>2 DEF HeadMoved
  <2>3. CASE /\ arrived'[<<c, g>>] = arrived[<<c, g>>]
             /\ lost' \/ ~Bound(p, Head(queue[p]), c, g)
    BY <2>1, <2>3 DEF HeadMoved
  <2>. QED  BY <2>2, <2>3
<1>6. echoed \subseteq echoed'
  OBVIOUS
<1>. QED  BY <1>1, <1>3, <1>4, <1>5, <1>6, QueuesMove

\* What p has an endpoint of its own for.
LEMMA CameHere ==
  ASSUME RouteInv, NEW p \in Route!Processors, queue[p] # <<>>,
         Head(queue[p]).kind = "packet",
         Head(queue[p]).frame.endpoint \in {"imu", "command"} \ Route!Passed(p),
         queue' = [queue EXCEPT ![p] = Tail(queue[p])],
         arrived' = Route!Counted(arrived, Head(queue[p]).frame, {p}),
         sentFrames' = sentFrames, echoed' = echoed, lost' = lost
  PROVE  RouteInv'
<1>1. Took(p, Tail(queue[p])) /\ RouteTypes
  BY DEF Took, RouteInv
<1>2. Tail(queue[p]) \in Seq(Route!Entry)
  BY <1>1, TookIs
<1>3. PICK e \in Route!Entry : e = Head(queue[p]) /\ EntryOK(p, e)
  BY <1>1, TookIs
<1>4. PICK f \in Route!Frame : /\ f = e.frame /\ f.endpoint = "imu" /\ f.from = "main"
                               /\ p = "P2"
  BY <1>3, BoardsAre DEF EntryOK, MaySend, Route!Passed
<1>5. Route!Intended(f) = {"P2"}
  BY <1>4, IntendedIs
<1>6. Onward("main", "P2", "P2")
  BY BoardsAre DEF Onward
<1>7. \A c, g : Bound(p, e, c, g) <=> g = f /\ c = p
  BY <1>3, <1>4, <1>5, <1>6 DEF Bound
<1>8. queue \in [Route!Processors -> Seq(Route!Entry)] /\ arrived \in [Route!Boards \X Route!Frame -> Nat]
  BY <1>1 DEF RouteTypes
<1>9. /\ arrived' \in [Route!Boards \X Route!Frame -> Nat]
      /\ \A c \in Route!Boards, g \in Route!Frame : arrived'[<<c, g>>] =
           IF g = f /\ c = p THEN arrived[<<c, g>>] + 1 ELSE arrived[<<c, g>>]
  BY <1>3, <1>4, <1>8 DEF Route!Counted
<1>10. RouteTypes'
  BY <1>1, <1>2, <1>8, <1>9 DEF RouteTypes
<1>11. \A c \in Route!Boards, g \in Route!Frame :
         \/ arrived'[<<c, g>>] = arrived[<<c, g>>] + 1 /\ Bound(p, Head(queue[p]), c, g)
         \/ arrived'[<<c, g>>] = arrived[<<c, g>>] /\ ~Bound(p, Head(queue[p]), c, g)
  BY <1>3, <1>7, <1>9
<1>12. \A r \in Route!Processors : queue'[r] = IF r = p THEN Tail(queue[p]) ELSE queue[r]
  BY <1>8
<1>. QED  BY <1>10, <1>11, <1>12, EndsHere

\* What a request at p is bound for: p, and who asks is bound to hear the answer.
RequestAt(p, e) ==
  /\ \A c, g : Bound(p, e, c, g) <=>
         (g = e.frame /\ c = p) \/ (g = Answered(e, p) /\ c = e.frame.from)
  /\ Hearers(p, {e.interface}) = {e.frame.from}
  /\ e.frame.from \in Route!Boards \ Route!Processors /\ e.frame # Answered(e, p)
  /\ e.frame \in Route!Frame /\ e.frame.id \in Calls \cup SilentCalls \cup Probes

LEMMA RequestIs ==
  ASSUME NEW p \in Route!Processors, NEW e \in Route!Entry, EntryOK(p, e), e.kind = "packet",
         e.frame.endpoint = "rpc"
  PROVE  RequestAt(p, e)
<1>1. PICK f \in Route!Frame : f = e.frame /\ f.endpoint = "rpc"
  BY DEF EntryOK
<1>2. \/ p = "P1" /\ f.from = "main" /\ e.interface = 1
      \/ p = "P2" /\ f.from = "power" /\ e.interface = 2
  BY <1>1, BoardsAre DEF EntryOK, Side
<1>3. Route!Intended(f) = {p}
  <2>1. Route!Intended(f) = Route!NextTo(f.from) \cap {"P1", "P2"}
    BY <1>1, IntendedIs
  <2>2. Route!NextTo("main") = {"P1"} /\ Route!NextTo("power") = {"P2"}
    BY <1>1, IntendedIs
  <2>. QED  BY <1>2, <2>1, <2>2
<1>4. Onward(f.from, p, p)
  BY <1>2, BoardsAre DEF Onward
<1>5. \A c, g : Bound(p, e, c, g) <=> (g = f /\ c = p) \/ (g = Answered(e, p) /\ c = f.from)
  BY <1>1, <1>3, <1>4 DEF Bound
<1>6. f # Answered(e, p)
  BY <1>1 DEF Answered
<1>7. Hearers(p, {e.interface}) = {f.from}
  BY <1>2, HearersAre
<1>8. f.id \in Calls \cup SilentCalls \cup Probes
  BY <1>1, FrameFields
<1>9. f.from \in Route!Boards \ Route!Processors
  BY <1>2, BoardsAre
<1>10. \A c, g : Bound(p, e, c, g) <=>
         (g = e.frame /\ c = p) \/ (g = Answered(e, p) /\ c = e.frame.from)
  BY <1>1, <1>5
<1>. QED  BY <1>1, <1>6, <1>7, <1>8, <1>9, <1>10 DEF RequestAt

\* A request nobody waits for an answer to.
LEMMA SilentRequest ==
  ASSUME RouteInv, NEW p \in Route!Processors, queue[p] # <<>>,
         Head(queue[p]).kind = "packet", Head(queue[p]).frame.endpoint = "rpc",
         Head(queue[p]).frame.id \in SilentCalls,
         queue' = [queue EXCEPT ![p] = Tail(queue[p])],
         arrived' = Route!Counted(arrived, Head(queue[p]).frame, {p}),
         sentFrames' = sentFrames, echoed' = echoed, lost' = lost
  PROVE  RouteInv'
<1>1. Took(p, Tail(queue[p])) /\ RouteTypes
  BY DEF Took, RouteInv
<1>2. Tail(queue[p]) \in Seq(Route!Entry)
  BY <1>1, TookIs
<1>3. PICK e \in Route!Entry : e = Head(queue[p]) /\ EntryOK(p, e)
  BY <1>1, TookIs
<1>4. /\ \A c, g : Bound(p, e, c, g) <=>
         (g = e.frame /\ c = p) \/ (g = Answered(e, p) /\ c = e.frame.from)
      /\ e.frame \in Route!Frame
  <2>1. e \in Route!Entry /\ EntryOK(p, e) /\ e.kind = "packet" /\ e.frame.endpoint = "rpc"
    BY <1>3
  <2>2. RequestAt(p, e)
    BY <2>1, RequestIs
  <2>. QED  BY <2>2 DEF RequestAt
<1>5. Answered(e, p) \notin Route!Frame
  <2>1. ASSUME NEW g \in Route!Frame, g = Answered(e, p) PROVE FALSE
    <3>1. g.endpoint = "answer" /\ g.id = e.frame.id
      BY <2>1 DEF Answered
    <3>2. g.id \in Calls \cup Probes
      BY <3>1, FrameFields
    <3>. QED  BY <1>3, <3>1, <3>2, RoutesAssumption
  <2>. QED  BY <2>1
<1>6. queue \in [Route!Processors -> Seq(Route!Entry)] /\ arrived \in [Route!Boards \X Route!Frame -> Nat]
  BY <1>1 DEF RouteTypes
<1>7. PICK f : f = e.frame
  OBVIOUS
<1>8. /\ arrived' \in [Route!Boards \X Route!Frame -> Nat]
      /\ \A c \in Route!Boards, g \in Route!Frame : arrived'[<<c, g>>] =
           IF g = f /\ c = p THEN arrived[<<c, g>>] + 1 ELSE arrived[<<c, g>>]
  BY <1>3, <1>6, <1>7 DEF Route!Counted
<1>9. RouteTypes'
  BY <1>1, <1>2, <1>6, <1>8 DEF RouteTypes
<1>10. \A c \in Route!Boards, g \in Route!Frame :
         \/ arrived'[<<c, g>>] = arrived[<<c, g>>] + 1 /\ Bound(p, Head(queue[p]), c, g)
         \/ arrived'[<<c, g>>] = arrived[<<c, g>>] /\ ~Bound(p, Head(queue[p]), c, g)
  <2>1. ASSUME NEW c \in Route!Boards, NEW g \in Route!Frame
        PROVE  Bound(p, e, c, g) <=> g = f /\ c = p
    BY <1>4, <1>5, <1>7
  <2>2. \A c \in Route!Boards, g \in Route!Frame :
          Bound(p, Head(queue[p]), c, g) <=> g = f /\ c = p
    BY <1>3, <2>1
  <2>. QED  BY <1>8, <2>2
<1>11. \A r \in Route!Processors : queue'[r] = IF r = p THEN Tail(queue[p]) ELSE queue[r]
  BY <1>6
<1>. QED  BY <1>9, <1>10, <1>11, EndsHere

\* A request whose answer goes back at once.
LEMMA AnsweredRequest ==
  ASSUME RouteInv, NEW p \in Route!Processors, queue[p] # <<>>,
         Head(queue[p]).kind = "packet", Head(queue[p]).frame.endpoint = "rpc",
         Head(queue[p]).frame.id \in Calls \cup Probes,
         NEW q, LeftWith(q, p, Tail(queue[p])), Route!Answer(p, Head(queue[p]), q),
         sentFrames' = sentFrames, echoed' = echoed
  PROVE  RouteInv'
<1>1. Took(p, Tail(queue[p])) /\ RouteTypes
  BY DEF Took, RouteInv
<1>2. Tail(queue[p]) \in Seq(Route!Entry)
  BY <1>1, TookIs
<1>3. PICK e \in Route!Entry : e = Head(queue[p]) /\ EntryOK(p, e)
  BY <1>1, TookIs
<1>4. /\ \A c, g : Bound(p, e, c, g) <=>
         (g = e.frame /\ c = p) \/ (g = Answered(e, p) /\ c = e.frame.from)
      /\ Hearers(p, {e.interface}) = {e.frame.from}
      /\ e.frame.from \in Route!Boards \ Route!Processors /\ e.frame # Answered(e, p)
      /\ e.frame \in Route!Frame
  <2>1. e \in Route!Entry /\ EntryOK(p, e) /\ e.kind = "packet" /\ e.frame.endpoint = "rpc"
    BY <1>3
  <2>2. RequestAt(p, e)
    BY <2>1, RequestIs
  <2>. QED  BY <2>2 DEF RequestAt
<1>5. PICK f \in Route!Frame : f = e.frame
  BY <1>4
<1>6. PICK answer \in Route!Frame : answer = Answered(e, p)
  BY <1>3 DEF Answered, Route!Frame
<1>7. PICK a : a = Route!Counted(arrived, f, {p})
  OBVIOUS
<1>8. Route!SendOn(p, {e.interface}, answer, q, a, FALSE)
  BY <1>3, <1>5, <1>6, <1>7 DEF Route!Answer, Answered
<1>9. /\ queue \in [Route!Processors -> Seq(Route!Entry)]
      /\ q \in [Route!Processors -> Seq(Route!Entry)] /\ p \in Route!Boards
      /\ \A r \in Route!Processors : q[r] = IF r = p THEN Tail(queue[p]) ELSE queue[r]
  BY <1>1, <1>2, BoardsAre DEF RouteTypes, LeftWith
<1>10. /\ a \in [Route!Boards \X Route!Frame -> Nat]
       /\ \A c \in Route!Boards, g \in Route!Frame : a[<<c, g>>] =
            IF g = f /\ c = p THEN arrived[<<c, g>>] + 1 ELSE arrived[<<c, g>>]
  <2>1. arrived \in [Route!Boards \X Route!Frame -> Nat]
    BY <1>1 DEF RouteTypes
  <2>. QED  BY <1>7, <2>1 DEF Route!Counted
<1>11. PICK R \in SUBSET Hearers(p, {e.interface}) :
         SentTo(R, p, {e.interface}, answer, q, a, FALSE)
  BY <1>1, <1>8, <1>9, <1>10, SentOn
<1>12. /\ \A r \in Route!Processors :
             queue'[r] = IF r \in R THEN Append(q[r], Route!Packet(answer, Side(r, p))) ELSE q[r]
       /\ queue' \in [Route!Processors -> Seq(Route!Entry)]
       /\ arrived' \in [Route!Boards \X Route!Frame -> Nat]
       /\ \A c \in Route!Boards, g \in Route!Frame : arrived'[<<c, g>>] =
             IF g = answer /\ c \in R \ Route!Processors THEN a[<<c, g>>] + 1 ELSE a[<<c, g>>]
       /\ lost' \in BOOLEAN /\ (lost => lost')
       /\ ~lost' => R = Hearers(p, {e.interface})
  BY <1>11 DEF SentTo
<1>13. /\ \A r \in R : r = e.frame.from /\ r \notin Route!Processors
       /\ ~lost' => e.frame.from \in R
  BY <1>4, <1>11, <1>12
<1>14. \A r \in Route!Processors : queue'[r] = IF r = p THEN Tail(queue[p]) ELSE queue[r]
  BY <1>9, <1>12, <1>13
<1>15. RouteTypes'
  BY <1>1, <1>12 DEF RouteTypes
<1>16. ASSUME NEW c \in Route!Boards, NEW g \in Route!Frame
       PROVE  \/ arrived'[<<c, g>>] = arrived[<<c, g>>] + 1 /\ Bound(p, Head(queue[p]), c, g)
              \/ /\ arrived'[<<c, g>>] = arrived[<<c, g>>]
                 /\ lost' \/ ~Bound(p, Head(queue[p]), c, g)
  <2>1. /\ a[<<c, g>>] = IF g = f /\ c = p THEN arrived[<<c, g>>] + 1 ELSE arrived[<<c, g>>]
        /\ arrived'[<<c, g>>] =
             IF g = answer /\ c \in R \ Route!Processors THEN a[<<c, g>>] + 1 ELSE a[<<c, g>>]
    BY <1>10, <1>12
  <2>2. Bound(p, Head(queue[p]), c, g) <=> (g = f /\ c = p) \/ (g = answer /\ c = e.frame.from)
    <3>1. Bound(p, e, c, g) <=> (g = f /\ c = p) \/ (g = answer /\ c = e.frame.from)
      BY <1>4, <1>5, <1>6
    <3>. QED  BY <1>3, <3>1
  <2>3. f # answer
    BY <1>4, <1>5, <1>6
  <2>4. CASE g = f
    BY <2>1, <2>2, <2>3, <2>4
  <2>5. CASE g = answer
    BY <1>13, <2>1, <2>2, <2>3, <2>5
  <2>6. CASE g # f /\ g # answer
    BY <2>1, <2>2, <2>6
  <2>. QED  BY <2>4, <2>5, <2>6
<1>. QED  BY <1>12, <1>14, <1>15, <1>16, EndsHere

\* Whatever p pumps.
LEMMA Dispatched ==
  ASSUME RouteInv, NEW p \in Route!Processors, Route!Dispatch(p)
  PROVE  RouteInv'
<1>1. PICK o \in Route!Processors : o # p
  BY BoardsAre
<1>2. PICK e : e = Head(queue[p])
  OBVIOUS
<1>3. PICK q : q = [queue EXCEPT ![p] = Tail(queue[p])]
  OBVIOUS
<1>4. queue[p] # <<>> /\ sentFrames' = sentFrames
  BY DEF Route!Dispatch
<1>5. \/ e.kind = "message" /\ Route!MsgCallback(p, e, q)
      \/ e.kind = "packet" /\ e.frame.endpoint = "proxy" /\ Route!IncommingEndpoint(p, e, q)
      \/ e.kind = "packet" /\ e.frame.endpoint \in Route!Passed(p) /\ Route!Proxy(p, e, q)
      \/ e.kind = "packet" /\ e.frame.endpoint = "rpc" /\ Route!RpcEndPoint(p, e, q)
      \/ /\ e.kind = "packet" /\ e.frame.endpoint \in {"imu", "command"} \ Route!Passed(p)
         /\ Route!OwnEndpoint(p, e, q)
  BY <1>2, <1>3 DEF Route!Dispatch
<1>6. LeftWith(q, p, Tail(queue[p]))
  BY <1>3 DEF LeftWith
<1>7. CASE e.kind = "message" /\ Route!MsgCallback(p, e, q)
  BY <1>1, <1>2, <1>4, <1>6, <1>7, OwnMessage, EchoedMessage
<1>8. CASE e.kind = "packet" /\ e.frame.endpoint = "proxy" /\ Route!IncommingEndpoint(p, e, q)
  BY <1>1, <1>2, <1>4, <1>6, <1>8, CameIn
<1>9. CASE e.kind = "packet" /\ e.frame.endpoint \in Route!Passed(p) /\ Route!Proxy(p, e, q)
  BY <1>1, <1>2, <1>4, <1>6, <1>9, PassedOn
<1>10. CASE e.kind = "packet" /\ e.frame.endpoint = "rpc" /\ Route!RpcEndPoint(p, e, q)
  <2>1. /\ echoed' = echoed
        /\ \/ e.frame.id \in Calls \cup Probes /\ Route!Answer(p, e, q)
           \/ /\ e.frame.id \in SilentCalls /\ queue' = q /\ lost' = lost
              /\ arrived' = Route!Counted(arrived, e.frame, {p})
    BY <1>10 DEF Route!RpcEndPoint, Route!RpcProbeFunction
  <2>2. CASE e.frame.id \in Calls \cup Probes /\ Route!Answer(p, e, q)
    BY <1>2, <1>4, <1>6, <1>10, <2>1, <2>2, AnsweredRequest
  <2>3. CASE /\ e.frame.id \in SilentCalls /\ queue' = q /\ lost' = lost
             /\ arrived' = Route!Counted(arrived, e.frame, {p})
    BY <1>2, <1>3, <1>4, <1>10, <2>1, <2>3, SilentRequest
  <2>. QED  BY <2>1, <2>2, <2>3
<1>11. CASE /\ e.kind = "packet" /\ e.frame.endpoint \in {"imu", "command"} \ Route!Passed(p)
            /\ Route!OwnEndpoint(p, e, q)
  <2>1. /\ queue' = q /\ arrived' = Route!Counted(arrived, e.frame, {p})
        /\ lost' = lost /\ echoed' = echoed
    BY <1>11 DEF Route!OwnEndpoint
  <2>. QED  BY <1>2, <1>3, <1>4, <1>11, <2>1, CameHere
<1>. QED  BY <1>5, <1>7, <1>8, <1>9, <1>10, <1>11

\* Whom a frame is for changes only for answers.
LEMMA SameIntended ==
  /\ \A f : f.endpoint # "answer" => Route!Intended(f)' = Route!Intended(f)
  /\ \A p, e : EntryOK(p, e) => \A c, f : Bound(p, e, c, f)' <=> Bound(p, e, c, f)
<1>1. \A f : f.endpoint # "answer" => Route!Intended(f)' = Route!Intended(f)
  BY DEF Route!Intended
<1>2. ASSUME NEW p, NEW e, EntryOK(p, e), NEW c, NEW f
      PROVE  Bound(p, e, c, f)' <=> Bound(p, e, c, f)
  <2>1. e.frame.endpoint # "answer"
    BY <1>2 DEF EntryOK, MaySend
  <2>2. Route!Intended(e.frame)' = Route!Intended(e.frame)
    BY <1>1, <2>1
  <2>. QED  BY <2>2 DEF Bound
<1>. QED  BY <1>1, <1>2

\* What is sent anew, and lies behind the queue of r if put, is due where it is bound
\* for, and was not before.
Starts(r, m, c, g) ==
  /\ Due(c, g)' <=> Due(c, g) \/ Bound(r, m, c, g)'
  /\ Bound(r, m, c, g)' => ~Due(c, g)

LEMMA FrameStarts ==
  ASSUME RouteInv, NEW r \in Route!Processors, NEW put \in BOOLEAN, NEW m \in Route!Entry,
         \A x \in Route!Processors :
           queue'[x] = IF x = r /\ put THEN Append(queue[x], m) ELSE queue[x],
         NEW c \in Route!Boards, NEW g \in Route!Frame, g \notin echoed,
         arrived'[<<c, g>>] = arrived[<<c, g>>], lost => lost', ~lost' => put,
         Starts(r, m, c, g)
  PROVE  FrameOK(c, g)'
<1>1. FrameOK(c, g) /\ RouteTypes
  BY DEF RouteInv
<1>2. PICK s \in Seq(Route!Entry) : s = queue[r] /\ Len(s) \in Nat
  BY <1>1 DEF RouteTypes
<1>3. /\ Len(Append(s, m)) = Len(s) + 1 /\ Append(s, m)[Len(s) + 1] = m
      /\ \A n \in 1 .. Len(s) : Append(s, m)[n] = s[n]
  BY TakenAndPut
<1>4. PICK last \in Nat : last = Len(s) + 1
  BY <1>2
<1>5. ASSUME NEW x \in Route!Processors, NEW n \in Nat
      PROVE  WaitsAt(x, n, c, g)' <=>
               WaitsAt(x, n, c, g) \/ (x = r /\ n = last /\ put /\ Bound(r, m, c, g)')
  <2>1. WaitsAt(x, n, c, g)' <=> n \in 1 .. Len(queue'[x]) /\ Bound(x, queue[x][n], c, g)'
    BY DEF WaitsAt
  <2>2. WaitsAt(x, n, c, g) <=> n \in 1 .. Len(queue[x]) /\ Bound(x, queue[x][n], c, g)
    BY DEF WaitsAt
  <2>3. ASSUME n \in 1 .. Len(queue[x]), queue'[x][n] = queue[x][n]
        PROVE  Bound(x, queue[x][n], c, g)' <=> Bound(x, queue[x][n], c, g)
    <3>1. PICK e : e = queue[x][n] /\ EntryOK(x, e)
      BY <2>3 DEF RouteInv
    <3>2. Bound(x, e, c, g)' <=> Bound(x, e, c, g)
      BY <3>1, SameIntended
    <3>. QED  BY <2>3, <3>1, <3>2
  <2>4. CASE x = r /\ put
    <3>1. queue'[x] = Append(s, m) /\ queue[x] = s
      BY <1>2, <2>4
    <3>2. CASE n \in 1 .. Len(s)
      <4>1. n \in 1 .. Len(queue'[x]) /\ n \in 1 .. Len(queue[x]) /\ n # last
            /\ queue'[x][n] = queue[x][n]
        BY <1>2, <1>3, <1>4, <3>1, <3>2
      <4>. QED  BY <2>1, <2>2, <2>3, <4>1
    <3>3. CASE n = last
      <4>1. n \in 1 .. Len(queue'[x]) /\ n \notin 1 .. Len(queue[x]) /\ queue'[x][n] = m
        BY <1>2, <1>3, <1>4, <3>1, <3>3
      <4>2. Bound(x, queue[x][n], c, g)' <=> Bound(r, m, c, g)'
        BY <2>4, <4>1
      <4>. QED  BY <2>1, <2>2, <2>4, <3>3, <4>1, <4>2
    <3>4. CASE n \notin 1 .. Len(s) /\ n # last
      <4>1. n \notin 1 .. Len(queue'[x]) /\ n \notin 1 .. Len(queue[x])
        BY <1>2, <1>3, <1>4, <3>1, <3>4
      <4>. QED  BY <2>1, <2>2, <3>4, <4>1
    <3>. QED  BY <3>2, <3>3, <3>4
  <2>5. CASE ~(x = r /\ put)
    <3>1. queue'[x] = queue[x]
      BY <2>5
    <3>2. n \in 1 .. Len(queue[x]) => queue'[x][n] = queue[x][n]
      BY <3>1
    <3>. QED  BY <2>1, <2>2, <2>3, <2>5, <3>1, <3>2
  <2>. QED  BY <2>4, <2>5
<1>6. PICK new \in BOOLEAN : new <=> Bound(r, m, c, g)'
  OBVIOUS
<1>7. (Due(c, g)' <=> Due(c, g) \/ new) /\ (new => ~Due(c, g))
  BY <1>6 DEF Starts
<1>8. \A x \in Route!Processors, n \in Nat :
        WaitsAt(x, n, c, g)' <=> WaitsAt(x, n, c, g) \/ (x = r /\ n = last /\ put /\ new)
  BY <1>5, <1>6
<1>9. CASE new
  <2>1. /\ arrived'[<<c, g>>] = 0 /\ Due(c, g)'
        /\ \A x \in Route!Processors, n \in Nat : ~WaitsAt(x, n, c, g)
    BY <1>1, <1>7, <1>9 DEF FrameOK
  <2>2. /\ \A x \in Route!Processors, n \in Nat :
             WaitsAt(x, n, c, g)' <=> x = r /\ n = last /\ put
        /\ put => WaitsAt(r, last, c, g)'
    BY <1>4, <1>8, <1>9, <2>1
  <2>. QED  BY <2>1, <2>2, <1>4 DEF FrameOK
<1>10. CASE ~new
  <2>1. /\ Due(c, g)' <=> Due(c, g)
        /\ \A x \in Route!Processors, n \in Nat : WaitsAt(x, n, c, g)' <=> WaitsAt(x, n, c, g)
    BY <1>7, <1>8, <1>10
  <2>. QED  BY <1>1, <2>1 DEF FrameOK
<1>. QED  BY <1>9, <1>10

\* The processor that has a frame of b first.
First(b) == IF b = "power" THEN "P2" ELSE "P1"

LEMMA FirstIs ==
  ASSUME NEW f \in Route!Frame, MaySend(f)
  PROVE  /\ \A c \in Route!Intended(f) : Onward(f.from, First(f.from), c)
         /\ f.endpoint = "rpc" => f.from \in {"main", "power"}
         /\ f.endpoint # "answer"
<1>1. f.endpoint # "answer" /\ (f.endpoint = "rpc" => f.from \in {"main", "power"})
      /\ (f.endpoint = "imu" => f.from \in {"main", "P2"})
      /\ (f.endpoint # "imu" => f.from \in {"main", "P1", "power"})
  BY DEF MaySend
<1>2. \A c \in Route!Boards :
        /\ c # "main" => Onward("main", "P1", c)
        /\ Onward("P1", "P1", c)
        /\ c # "power" => Onward("power", "P2", c)
        /\ c = "main" => Onward("P2", "P1", c)
  <2>. TAKE c \in Route!Boards
  <2>1. CASE c = "main"
    BY <2>1, BoardsAre DEF Onward
  <2>2. CASE c = "P1"
    BY <2>2, BoardsAre DEF Onward
  <2>3. CASE c = "P2"
    BY <2>3, BoardsAre DEF Onward
  <2>4. CASE c = "power"
    BY <2>4, BoardsAre DEF Onward
  <2>. QED  BY <2>1, <2>2, <2>3, <2>4, BoardsAre
<1>3. /\ Route!Intended(f) \subseteq Route!Boards
      /\ f.from = "main" => "main" \notin Route!Intended(f)
      /\ f.from = "power" => "power" \notin Route!Intended(f)
      /\ f.from = "P2" => Route!Intended(f) = {"main"}
  <2>1. CASE f.endpoint = "proxy"
    BY <1>1, <2>1, IntendedIs
  <2>2. CASE f.endpoint = "command"
    BY <1>1, <2>2, IntendedIs
  <2>3. CASE f.endpoint = "imu"
    BY <1>1, <2>3, IntendedIs
  <2>4. CASE f.endpoint = "rpc"
    BY <1>1, <2>4, IntendedIs
  <2>. QED  BY <1>1, <2>1, <2>2, <2>3, <2>4, FrameFields
<1>4. f.from \in {"main", "P1", "P2", "power"}
  BY BoardsAre, FrameFields
<1>5. ASSUME NEW c \in Route!Intended(f) PROVE Onward(f.from, First(f.from), c)
  <2>1. c \in Route!Boards
    BY <1>3
  <2>2. CASE f.from = "main"
    BY <1>2, <1>3, <2>1, <2>2 DEF First
  <2>3. CASE f.from = "P1"
    BY <1>2, <2>1, <2>3 DEF First
  <2>4. CASE f.from = "P2"
    BY <1>2, <1>3, <2>1, <2>4 DEF First
  <2>5. CASE f.from = "power"
    BY <1>2, <1>3, <2>1, <2>5 DEF First
  <2>. QED  BY <1>4, <2>2, <2>3, <2>4, <2>5
<1>. QED  BY <1>1, <1>5

\* What is sent anew is due where it is bound for: the frame, and the answer to it.
LEMMA NewIsDue ==
  ASSUME NEW f \in Route!Frame, MaySend(f), f \notin sentFrames,
         sentFrames' = sentFrames \cup {f}, NEW r, r = First(f.from),
         NEW m, m.frame = f, m.kind = "packet" \/ f.from = r,
         f.endpoint = "rpc" => m.kind = "packet",
         NEW c \in Route!Boards, NEW g \in Route!Frame
  PROVE  Starts(r, m, c, g)
<1>1. CASE g.endpoint = "answer"
  <2>1. /\ Route!Intended(g) = {b \in Route!NextTo(g.from) :
             [endpoint |-> "rpc", id |-> g.id, from |-> b] \in sentFrames}
        /\ Route!Intended(g)' = {b \in Route!NextTo(g.from) :
             [endpoint |-> "rpc", id |-> g.id, from |-> b] \in sentFrames'}
    BY <1>1 DEF Route!Intended
  <2>2. PICK ask : ask = [endpoint |-> "rpc", id |-> g.id, from |-> c]
    OBVIOUS
  <2>3. /\ Due(c, g) <=> c \in Route!NextTo(g.from) /\ ask \in sentFrames
        /\ Due(c, g)' <=> c \in Route!NextTo(g.from) /\ (ask \in sentFrames \/ ask = f)
    BY <1>1, <2>1, <2>2 DEF Due
  <2>4. ask = f <=> f.endpoint = "rpc" /\ f.id = g.id /\ f.from = c
    <3>1. f = [endpoint |-> f.endpoint, id |-> f.id, from |-> f.from]
      BY FrameFields
    <3>. QED  BY <2>2, <3>1
  <2>5. g = [endpoint |-> "answer", id |-> f.id, from |-> r] <=> g.id = f.id /\ g.from = r
    <3>1. g = [endpoint |-> "answer", id |-> g.id, from |-> g.from]
      BY <1>1, FrameFields
    <3>. QED  BY <3>1
  <2>6. g # f
    BY <1>1, FirstIs
  <2>7. Bound(r, m, c, g)' <=> f.endpoint = "rpc" /\ g.id = f.id /\ g.from = r /\ c = f.from
    BY <2>5, <2>6 DEF Bound, Answered
  <2>8. ASSUME f.endpoint = "rpc", c = f.from
        PROVE  c \in Route!NextTo(g.from) <=> g.from = r
    <3>1. g.from \in {"P1", "P2"}
      BY <1>1, FrameFields, BoardsAre
    <3>2. Route!NextTo("P1") = {"main", "P2"} /\ Route!NextTo("P2") = {"P1", "power"}
      BY IntendedIs
    <3>3. f.from \in {"main", "power"}
      BY <2>8, FirstIs
    <3>4. CASE f.from = "main"
      BY <2>8, <3>1, <3>2, <3>4 DEF First
    <3>5. CASE f.from = "power"
      BY <2>8, <3>1, <3>2, <3>5 DEF First
    <3>. QED  BY <3>3, <3>4, <3>5
  <2>9. Bound(r, m, c, g)' <=> c \in Route!NextTo(g.from) /\ ask = f
    BY <2>4, <2>7, <2>8
  <2>10. Bound(r, m, c, g)' => ~Due(c, g)
    BY <2>3, <2>9
  <2>. QED  BY <2>3, <2>9, <2>10 DEF Starts
<1>2. CASE g.endpoint # "answer"
  <2>1. Route!Intended(g)' = Route!Intended(g)
    BY <1>2, SameIntended
  <2>2. /\ Due(c, g) <=> c \in Route!Intended(g) /\ g \in sentFrames
        /\ Due(c, g)' <=> c \in Route!Intended(g) /\ (g \in sentFrames \/ g = f)
    BY <1>2, <2>1 DEF Due
  <2>3. g # [endpoint |-> "answer", id |-> f.id, from |-> r]
    BY <1>2
  <2>4. Bound(r, m, c, g)' <=> g = f /\ c \in Route!Intended(g) /\ Onward(g.from, r, c)
    BY <2>1, <2>3 DEF Bound, Answered
  <2>5. Bound(r, m, c, g)' <=> g = f /\ c \in Route!Intended(g)
    BY <2>4, FirstIs
  <2>6. Bound(r, m, c, g)' => ~Due(c, g)
    BY <2>2, <2>5
  <2>. QED  BY <2>2, <2>5, <2>6 DEF Starts
<1>. QED  BY <1>1, <1>2

\* A board has something to say.
LEMMA Originated ==
  ASSUME RouteInv, NEW b \in Route!Boards, NEW f \in Route!Frame, Route!Originate(b, f)
  PROVE  RouteInv'
<1>1. RouteTypes
  BY DEF RouteInv
<1>2. /\ f \notin sentFrames /\ f.from = b /\ f.endpoint # "answer"
      /\ b = "P1" => f.endpoint = "proxy"
      /\ b = "P2" => f.endpoint = "imu"
      /\ b = "power" => f.endpoint # "imu"
      /\ sentFrames' = sentFrames \cup {f} /\ echoed' = echoed
  BY BoardsAre DEF Route!Originate
<1>3. MaySend(f)
  BY <1>2, FrameFields, BoardsAre DEF MaySend
<1>4. PICK r \in Route!Processors : r = First(b)
  BY BoardsAre DEF First
<1>5. PICK put \in BOOLEAN, m \in Route!Entry :
        /\ \A x \in Route!Processors :
             queue'[x] = IF x = r /\ put THEN Append(queue[x], m) ELSE queue[x]
        /\ queue' \in [Route!Processors -> Seq(Route!Entry)]
        /\ arrived' = arrived /\ lost' \in BOOLEAN /\ (lost => lost') /\ (~lost' => put)
        /\ m.frame = f /\ m.interface = Side(r, b)
        /\ m.kind = IF b = "P1" THEN "message" ELSE "packet"
  <2>1. CASE b = "P1"
    <3>8. PICK side \in 0 .. 2, k \in {"packet", "message"} : side = 0 /\ k = "message"
      BY 0 \in 0 .. 2, "message" \in {"packet", "message"}, Zenon
    <3>9. [kind |-> k, frame |-> f, interface |-> side] \in Route!Entry
      BY DEF Route!Entry
    <3>1. PICK m \in Route!Entry : m = [kind |-> "message", frame |-> f, interface |-> 0]
      BY <3>8, <3>9
    <3>2. /\ queue' = [queue EXCEPT !["P1"] = Append(@, m)]
          /\ arrived' = arrived /\ lost' = lost
      BY <2>1, <3>1 DEF Route!Originate
    <3>3. r = "P1" /\ Side(r, b) = 0
      BY <1>4, <2>1 DEF First, Side
    <3>4. /\ queue \in [Route!Processors -> Seq(Route!Entry)] /\ lost \in BOOLEAN
          /\ queue[r] \in Seq(Route!Entry)
      BY <1>1 DEF RouteTypes
    <3>5. Append(queue[r], m) \in Seq(Route!Entry)
      BY <3>4, TakenAndPut
    <3>6. /\ \A x \in Route!Processors :
               queue'[x] = IF x = r /\ TRUE THEN Append(queue[x], m) ELSE queue[x]
          /\ queue' \in [Route!Processors -> Seq(Route!Entry)]
      BY <3>2, <3>3, <3>4, <3>5
    <3>7. m.frame = f /\ m.interface = Side(r, b) /\ m.kind = "message"
      BY <3>1, <3>3
    <3>. QED  BY <2>1, <3>2, <3>4, <3>6, <3>7
  <2>2. CASE b # "P1"
    <3>1. Route!SendOn(b, {0}, f, queue, arrived, FALSE)
      BY <2>2 DEF Route!Originate
    <3>2. /\ queue \in [Route!Processors -> Seq(Route!Entry)]
          /\ arrived \in [Route!Boards \X Route!Frame -> Nat]
      BY <1>1 DEF RouteTypes
    <3>3. PICK R \in SUBSET Hearers(b, {0}) : SentTo(R, b, {0}, f, queue, arrived, FALSE)
      BY <1>1, <3>1, <3>2, SentOn
    <3>4. Hearers(b, {0}) = {r}
      BY <1>4, <2>2, HearersAre, BoardsAre DEF First
    <3>5. /\ \A x \in Route!Processors :
               queue'[x] = IF x \in R THEN Append(queue[x], Route!Packet(f, Side(x, b)))
                                      ELSE queue[x]
          /\ queue' \in [Route!Processors -> Seq(Route!Entry)]
          /\ arrived' \in [Route!Boards \X Route!Frame -> Nat]
          /\ \A c \in Route!Boards, g \in Route!Frame : arrived'[<<c, g>>] =
               IF g = f /\ c \in R \ Route!Processors THEN arrived[<<c, g>>] + 1
                                                     ELSE arrived[<<c, g>>]
          /\ lost' \in BOOLEAN /\ (lost => lost')
          /\ ~lost' => R = Hearers(b, {0})
      BY <3>3 DEF SentTo
    <3>6. arrived' = arrived
      <4>1. R \ Route!Processors = {}
        BY <3>3, <3>4
      <4>2. \A c \in Route!Boards, g \in Route!Frame : arrived'[<<c, g>>] = arrived[<<c, g>>]
        BY <3>5, <4>1
      <4>3. \A x \in Route!Boards \X Route!Frame : arrived'[x] = arrived[x]
        BY <4>2
      <4>. QED  BY <3>2, <3>5, <4>3
    <3>7. Side(r, b) \in 0 .. 2
      BY DEF Side
    <3>8. PICK m \in Route!Entry : m = Route!Packet(f, Side(r, b))
      BY <3>7 DEF Route!Packet, Route!Entry
    <3>9. m.frame = f /\ m.interface = Side(r, b) /\ m.kind = "packet"
      BY <3>8 DEF Route!Packet
    <3>10. PICK put \in BOOLEAN : put <=> r \in R
      OBVIOUS
    <3>11. /\ \A x \in Route!Processors :
                queue'[x] = IF x = r /\ put THEN Append(queue[x], m) ELSE queue[x]
           /\ ~lost' => put
      BY <3>3, <3>4, <3>5, <3>8, <3>10
    <3>. QED  BY <2>2, <3>5, <3>6, <3>9, <3>11
  <2>. QED  BY <2>1, <2>2
<1>6. \A c \in Route!Boards, g \in Route!Frame : Starts(r, m, c, g)
  <2>. TAKE c \in Route!Boards, g \in Route!Frame
  <2>1. r = First(f.from) /\ m.frame = f
    BY <1>2, <1>4, <1>5
  <2>2. /\ m.kind = "packet" \/ f.from = r
        /\ f.endpoint = "rpc" => m.kind = "packet"
    BY <1>2, <1>4, <1>5 DEF First
  <2>. QED  BY <1>2, <1>3, <2>1, <2>2, NewIsDue
<1>7. EntryOK(r, m)'
  <2>1. \/ b = "main" /\ r = "P1"
        \/ b = "P1" /\ r = "P1"
        \/ b = "P2" /\ r = "P1"
        \/ b = "power" /\ r = "P2"
    BY <1>4, BoardsAre DEF First
  <2>2. f \in sentFrames' /\ m.frame = f /\ m.interface = Side(r, f.from)
        /\ m.kind = (IF b = "P1" THEN "message" ELSE "packet")
    BY <1>2, <1>5
  <2>3. f.endpoint = "rpc" => b \in {"main", "power"}
    BY <1>2, <1>3, FirstIs
  <2>. QED  BY <1>2, <1>3, <2>1, <2>2, <2>3 DEF EntryOK
<1>8. RouteTypes'
  BY <1>1, <1>2, <1>3, <1>5 DEF RouteTypes
<1>9. ASSUME NEW x \in Route!Processors, NEW n \in 1 .. Len(queue'[x])
      PROVE  EntryOK(x, queue[x][n])'
  <2>1. \A y, e : EntryOK(y, e) => EntryOK(y, e)'
    BY <1>2, EntriesStay
  <2>2. PICK s \in Seq(Route!Entry) : s = queue[x] /\ Len(s) \in Nat
    BY <1>1 DEF RouteTypes
  <2>3. /\ Len(Append(s, m)) = Len(s) + 1 /\ Append(s, m)[Len(s) + 1] = m
        /\ \A k \in 1 .. Len(s) : Append(s, m)[k] = s[k]
    BY TakenAndPut
  <2>4. \/ n \in 1 .. Len(s) /\ queue'[x][n] = s[n]
        \/ x = r /\ queue'[x][n] = m
    <3>1. CASE x = r /\ put
      BY <1>5, <1>9, <2>2, <2>3, <3>1
    <3>2. CASE ~(x = r /\ put)
      BY <1>5, <1>9, <2>2, <3>2
    <3>. QED  BY <3>1, <3>2
  <2>5. CASE n \in 1 .. Len(s) /\ queue'[x][n] = s[n]
    <3>1. PICK e : e = s[n] /\ EntryOK(x, e)
      BY <2>2, <2>5 DEF RouteInv
    <3>2. EntryOK(x, e)'
      BY <2>1, <3>1
    <3>. QED  BY <2>5, <3>1, <3>2
  <2>6. CASE x = r /\ queue'[x][n] = m
    BY <1>7, <2>6
  <2>. QED  BY <2>4, <2>5, <2>6
<1>10. ASSUME NEW c \in Route!Boards, NEW g \in Route!Frame, g \notin echoed'
       PROVE  FrameOK(c, g)'
  <2>1. g \notin echoed /\ arrived'[<<c, g>>] = arrived[<<c, g>>] /\ Starts(r, m, c, g)
    BY <1>2, <1>5, <1>6, <1>10
  <2>. QED  BY <1>5, <2>1, FrameStarts
<1>. QED  BY <1>8, <1>9, <1>10 DEF RouteInv

\* Nothing has been sent at first.
LEMMA RouteBegins == Route!Init => RouteInv
<1> SUFFICES ASSUME Route!Init PROVE RouteInv
  OBVIOUS
<1>1. /\ queue = [p \in Route!Processors |-> <<>>]
      /\ arrived = [a \in Route!Boards \X Route!Frame |-> 0]
      /\ sentFrames = {} /\ echoed = {} /\ lost = FALSE
  BY DEF Route!Init
<1>2. \A p \in Route!Processors : queue[p] = <<>> /\ Len(queue[p]) = 0
  BY <1>1
<1>3. RouteTypes
  <2>1. <<>> \in Seq(Route!Entry) /\ 0 \in Nat
    OBVIOUS
  <2>2. /\ queue \in [Route!Processors -> Seq(Route!Entry)]
        /\ arrived \in [Route!Boards \X Route!Frame -> Nat]
    BY <1>1, <2>1
  <2>3. /\ sentFrames \subseteq Route!Frame /\ \A f \in sentFrames : MaySend(f)
        /\ echoed \subseteq Route!Frame /\ \A f \in echoed : f.endpoint = "proxy" /\ f.from = "P1"
        /\ lost \in BOOLEAN
    BY <1>1
  <2>. QED  BY <2>2, <2>3 DEF RouteTypes
<1>4. ASSUME NEW c \in Route!Boards, NEW f \in Route!Frame PROVE FrameOK(c, f)
  <2>1. ~Due(c, f)
    <3>1. f \notin sentFrames
      BY <1>1
    <3>2. f.endpoint = "answer" => c \notin Route!Intended(f)
      BY <1>1, IntendedIs
    <3>. QED  BY <3>1, <3>2 DEF Due
  <2>2. arrived[<<c, f>>] = 0
    BY <1>1
  <2>3. \A p \in Route!Processors, n \in Nat : ~WaitsAt(p, n, c, f)
    BY <1>2 DEF WaitsAt
  <2>. QED  BY <2>1, <2>2, <2>3 DEF FrameOK
<1>. QED  BY <1>2, <1>3, <1>4 DEF RouteInv

\* Every step of the boards.
LEMMA RouteGoesOn ==
  ASSUME RouteInv, [Route!Next]_route
  PROVE  RouteInv'
<1>1. CASE \E b \in Route!Boards, f \in Route!Frame : Route!Originate(b, f)
  BY <1>1, Originated
<1>2. CASE \E p \in Route!Processors : Route!Dispatch(p)
  BY <1>2, Dispatched
<1>3. CASE UNCHANGED route
  <2>1. /\ queue' = queue /\ arrived' = arrived /\ sentFrames' = sentFrames
        /\ echoed' = echoed /\ lost' = lost
    BY <1>3 DEF route
  <2>2. /\ \A c, f : Due(c, f)' <=> Due(c, f)
        /\ \A p, n, c, f : WaitsAt(p, n, c, f)' <=> WaitsAt(p, n, c, f)
    BY <2>1, SameIsDue DEF WaitsAt
  <2>3. RouteTypes'
    BY <2>1 DEF RouteInv, RouteTypes
  <2>4. \A p, e : EntryOK(p, e) => EntryOK(p, e)'
    BY <2>1, EntriesStay
  <2>5. \A p \in Route!Processors : \A n \in 1 .. Len(queue'[p]) : EntryOK(p, queue[p][n])'
    <3>1. ASSUME NEW p \in Route!Processors, NEW n \in 1 .. Len(queue'[p])
          PROVE  EntryOK(p, queue[p][n])'
      <4>1. PICK e : e = queue[p][n] /\ EntryOK(p, e)
        BY <2>1, <3>1 DEF RouteInv
      <4>2. EntryOK(p, e)'
        BY <2>4, <4>1
      <4>. QED  BY <2>1, <4>1, <4>2
    <3>. QED  BY <3>1
  <2>6. \A c \in Route!Boards, f \in Route!Frame : f \notin echoed' => FrameOK(c, f)'
    BY <2>1, <2>2 DEF RouteInv, FrameOK
  <2>. QED  BY <2>3, <2>5, <2>6 DEF RouteInv
<1>. QED  BY <1>1, <1>2, <1>3 DEF Route!Next, Route!PumpsIdle, Route!vars, route

\* What is where it is for.
LEMMA RoutedRight == RouteInv => Route!DeliveredAsIntended
<1> SUFFICES ASSUME RouteInv, NEW f \in Route!Frame, NEW b \in Route!Boards, f \notin echoed,
                    NEW copies, copies = IF Due(b, f) THEN 1 ELSE 0
             PROVE  /\ arrived[<<b, f>>] <= copies
                    /\ Route!Idle /\ ~lost => arrived[<<b, f>>] = copies
  BY Zenon DEF Route!DeliveredAsIntended, Due
<1>1. FrameOK(b, f)
  BY DEF RouteInv
<1>2. arrived[<<b, f>>] <= copies
  BY <1>1 DEF FrameOK
<1>3. ASSUME Route!Idle PROVE \A p \in Route!Processors, n \in Nat : ~WaitsAt(p, n, b, f)
  BY <1>3 DEF Route!Idle, WaitsAt
<1>. QED  BY <1>1, <1>2, <1>3 DEF FrameOK

\* A frame is handed once to every board it is for and to no other, and to every one of
\* them before the queues are empty unless something is lost, however many frames the
\* boards send, whatever calls and messages there are (the messages of others that P1
\* broadcasts as its own go round once more): the proxies of both processors
\* flood, but away from where a frame comes from.
THEOREM EveryFrameArrives == Spec => []DeliveredAsIntended
<1> DEFINE I == part = "route" => RouteInv
<1>1. Init => I
  BY RouteBegins DEF Init
<1>2. I /\ [Next]_partVars => I'
  BY PartSteps, RouteGoesOn
<1>3. I => DeliveredAsIntended
  BY RoutedRight DEF DeliveredAsIntended
<1>. QED  BY <1>1, <1>2, <1>3, PTL DEF Spec, partVars

===============================================================================
