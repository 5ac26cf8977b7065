---------------------------- MODULE RadioProofs ----------------------------
(***************************************************************************)
(* For every queue length and any number of frames: the queue keeps its    *)
(* order, a frame holds the sender for a bounded time and the recovery of  *)
(* the transceiver is lost in no other way than two known ones.            *)
(***************************************************************************)
EXTENDS Radio, TLAPS

\* What a frame may have used of its time, by where the sender is.
HeldSoFar ==
    /\ pc = "recv" => age = 0
    /\ pc = "begin" => age <= 8 * i
    /\ pc = "switch" => retry \in 1..ModeTries /\ age + wait + retry <= 8 * i + 3
    /\ pc = "start" => age <= 8 * i + 2
    /\ pc = "txdone" => age + wait <= 8 * i + 4
    /\ pc = "ack" => i < Retries /\ age + wait <= 8 * i + 8

\* No frame bears a number that is yet to be given.
Numbered ==
    /\ cur.n <= made
    /\ \A k \in 1..Len(queue) : queue[k].n <= made

\* A transceiver recorded as receiving does not send, but for a copy that is
\* being started.
NotSending == ubRFState = "rx" /\ ~Starting => chip \in {"rx", "off"}

RInv == TypeOK /\ HeldSoFar /\ Numbered /\ QueueOrder /\ NotSending /\ RecoveryArmed

\* The lengths of the waits.
USE DEF TxWait, AckWait, SendTime, ModeWait, ModeTries, Retries, Stopped

\* The queue and the frame in hand, together.
QueueOK ==
    /\ made \in 0..MaxFrames
    /\ queue \in Seq(Frame) /\ Len(queue) <= QLen
    /\ cur \in Frame
    /\ Numbered /\ QueueOrder

\* The queue as it was, and perhaps a number given to a frame that was dropped.
LEMMA QueueKept ==
    ASSUME RInv, made' \in made..MaxFrames, UNCHANGED <<queue, cur>> PROVE QueueOK'
<1>1. made \in Nat /\ made' \in 0..MaxFrames /\ made <= made'
  BY RadioAssumption DEF RInv, TypeOK
<1>2. cur \in Frame /\ \A k \in 1..Len(queue) : queue[k] \in Frame
  BY DEF RInv, TypeOK
<1>3. cur.n \in Nat /\ \A k \in 1..Len(queue) : queue[k].n \in Nat
  BY <1>2, RadioAssumption DEF Frame
<1>4. Numbered'
  <2>1. cur'.n <= made'
    BY <1>1, <1>3 DEF RInv, Numbered
  <2>2. ASSUME NEW k \in 1..Len(queue) PROVE queue[k].n <= made'
    BY <1>1, <1>3 DEF RInv, Numbered
  <2> QED BY <2>1, <2>2 DEF Numbered
<1>5. QueueOrder'
  BY DEF RInv, QueueOrder
<1> QED BY <1>1, <1>4, <1>5 DEF QueueOK, RInv, TypeOK

\* A report at the tail is the latest of all.
LEMMA ReportStep ==
    ASSUME RInv, NEW a \in BOOLEAN, GatewayEnqueue(a) PROVE QueueOK'
<1> DEFINE f == [reply |-> FALSE, ack |-> a, n |-> made + 1]
<1>0. /\ made \in Nat /\ made < MaxFrames /\ made' = made + 1 /\ cur' = cur
      /\ made' \in 0..MaxFrames
  BY RadioAssumption DEF GatewayEnqueue, Made, sendVars, RInv, TypeOK
<1>1. f \in Frame /\ ~f.reply /\ f.n = made + 1
  BY <1>0 DEF Frame
<1>2. CASE queue' = queue
  BY <1>0, <1>2, QueueKept
<1>3. CASE Len(queue) < QLen /\ queue' = Append(queue, f)
  <2>1. queue \in Seq(Frame) /\ cur \in Frame
    BY DEF RInv, TypeOK
  <2>2. /\ queue' \in Seq(Frame) /\ Len(queue') = Len(queue) + 1
        /\ \A k \in 1..Len(queue) : queue'[k] = queue[k]
        /\ queue'[Len(queue) + 1] = f
    BY <1>1, <1>3, <2>1
  <2>3. \A k \in 1..Len(queue) : queue[k] \in Frame
    BY <2>1
  <2>4. \A k \in 1..Len(queue') : k \in 1..Len(queue) \/ k = Len(queue) + 1
    BY <2>1, <2>2
  <2>5. Numbered'
    <3>1. cur.n \in Nat /\ cur.n <= made
      BY <2>1, RadioAssumption DEF RInv, Numbered, Frame
    <3>2. ASSUME NEW k \in 1..Len(queue') PROVE queue'[k].n <= made + 1
      <4>1. CASE k \in 1..Len(queue)
        <5>1. queue[k].n <= made /\ queue[k].n \in Nat
          BY <4>1, <2>3, RadioAssumption DEF RInv, Numbered, Frame
        <5> QED BY <4>1, <5>1, <2>2, <1>0
      <4>2. CASE k = Len(queue) + 1
        BY <4>2, <1>0, <1>1, <2>2
      <4> QED BY <4>1, <4>2, <2>4
    <3> QED BY <3>1, <3>2, <1>0 DEF Numbered
  <2>6. QueueOrder'
    <3>1. ASSUME NEW k \in 1..Len(queue'), NEW l \in 1..Len(queue'), k < l
          PROVE  /\ queue'[l].reply => queue'[k].reply
                 /\ ~queue'[k].reply => queue'[k].n < queue'[l].n
      <4>1. k \in 1..Len(queue)
        BY <3>1, <2>1, <2>2
      <4>2. CASE l \in 1..Len(queue)
        BY <3>1, <4>1, <4>2, <2>2 DEF RInv, QueueOrder
      <4>3. CASE l = Len(queue) + 1
        <5>1. queue[k].n <= made /\ queue[k].n \in Nat
          BY <4>1, <2>3, RadioAssumption DEF RInv, Numbered, Frame
        <5> QED BY <4>1, <4>3, <5>1, <2>2, <1>0, <1>1
      <4> QED BY <4>2, <4>3, <2>4
    <3>2. ASSUME NEW k \in 1..Len(queue'), ~cur.reply, ~queue'[k].reply
          PROVE  cur.n < queue'[k].n
      <4>1. CASE k \in 1..Len(queue)
        BY <3>2, <4>1, <2>2 DEF RInv, QueueOrder
      <4>2. CASE k = Len(queue) + 1
        <5>1. cur.n <= made /\ cur.n \in Nat
          BY <2>1, RadioAssumption DEF RInv, Numbered, Frame
        <5> QED BY <4>2, <5>1, <2>2, <1>0, <1>1
      <4> QED BY <4>1, <4>2, <2>4
    <3> QED BY <3>1, <3>2, <1>0 DEF QueueOrder
  <2> QED BY <1>0, <1>3, <2>1, <2>2, <2>5, <2>6, RadioAssumption DEF QueueOK
<1> QED BY <1>0, <1>2, <1>3 DEF GatewayEnqueue

\* A reply at the head goes before all.
LEMMA ReplyStep == ASSUME RInv, RadioEnqueue PROVE QueueOK'
<1> DEFINE f == [reply |-> TRUE, ack |-> FALSE, n |-> made + 1]
<1>0. /\ made \in Nat /\ made < MaxFrames /\ made' = made + 1 /\ cur' = cur
      /\ made' \in 0..MaxFrames
  BY RadioAssumption DEF RadioEnqueue, Made, sendVars, RInv, TypeOK
<1>1. f \in Frame /\ f.reply /\ f.n = made + 1
  BY <1>0 DEF Frame
<1>2. CASE queue' = queue
  BY <1>0, <1>2, QueueKept
<1>3. CASE Len(queue) < QLen /\ queue' = <<f>> \o queue
  <2>1. queue \in Seq(Frame) /\ cur \in Frame
    BY DEF RInv, TypeOK
  <2>2. /\ queue' \in Seq(Frame) /\ Len(queue') = Len(queue) + 1
        /\ queue'[1] = f
        /\ \A k \in 2..Len(queue') : k - 1 \in 1..Len(queue) /\ queue'[k] = queue[k - 1]
    BY <1>1, <1>3, <2>1
  <2>3. \A k \in 1..Len(queue) : queue[k] \in Frame
    BY <2>1
  <2>4. \A k \in 1..Len(queue') : k = 1 \/ k \in 2..Len(queue')
    BY <2>1, <2>2
  <2>5. Numbered'
    <3>1. cur.n \in Nat /\ cur.n <= made
      BY <2>1, RadioAssumption DEF RInv, Numbered, Frame
    <3>2. ASSUME NEW k \in 1..Len(queue') PROVE queue'[k].n <= made + 1
      <4>1. CASE k = 1
        BY <4>1, <1>0, <1>1, <2>2
      <4>2. CASE k \in 2..Len(queue')
        <5>1. queue[k - 1].n <= made /\ queue[k - 1].n \in Nat
          BY <4>2, <2>2, <2>3, RadioAssumption DEF RInv, Numbered, Frame
        <5> QED BY <4>2, <5>1, <2>2, <1>0
      <4> QED BY <4>1, <4>2, <2>4
    <3> QED BY <3>1, <3>2, <1>0 DEF Numbered
  <2>6. QueueOrder'
    <3>1. ASSUME NEW k \in 1..Len(queue'), NEW l \in 1..Len(queue'), k < l
          PROVE  /\ queue'[l].reply => queue'[k].reply
                 /\ ~queue'[k].reply => queue'[k].n < queue'[l].n
      <4>1. CASE k = 1
        BY <4>1, <1>1, <2>2
      <4>2. CASE k \in 2..Len(queue')
        <5>1. l \in 2..Len(queue') /\ k - 1 < l - 1
          BY <3>1, <4>2, <2>1, <2>2
        <5>2. /\ k - 1 \in 1..Len(queue) /\ l - 1 \in 1..Len(queue)
              /\ queue'[k] = queue[k - 1] /\ queue'[l] = queue[l - 1]
          BY <4>2, <5>1, <2>2
        <5> QED BY <5>1, <5>2 DEF RInv, QueueOrder
      <4> QED BY <4>1, <4>2, <2>4
    <3>2. ASSUME NEW k \in 1..Len(queue'), ~cur.reply, ~queue'[k].reply
          PROVE  cur.n < queue'[k].n
      <4>1. k \in 2..Len(queue')
        BY <3>2, <1>1, <2>2, <2>4
      <4> QED BY <3>2, <4>1, <2>2 DEF RInv, QueueOrder
    <3> QED BY <3>1, <3>2, <1>0 DEF QueueOrder
  <2> QED BY <1>0, <1>3, <2>1, <2>2, <2>5, <2>6, RadioAssumption DEF QueueOK
<1> QED BY <1>0, <1>2, <1>3 DEF RadioEnqueue

\* Taking the head leaves what comes after it.
LEMMA TakeStep == ASSUME RInv, Take PROVE QueueOK'
<1>1. queue \in Seq(Frame) /\ queue # <<>> /\ made' = made
  BY DEF RInv, TypeOK, Take
<1>2. /\ queue' \in Seq(Frame) /\ Len(queue') = Len(queue) - 1 /\ Len(queue) >= 1
      /\ cur' = queue[1] /\ cur' \in Frame
      /\ \A k \in 1..Len(queue') : k + 1 \in 1..Len(queue) /\ 1 < k + 1 /\ queue'[k] = queue[k + 1]
  BY <1>1 DEF Take
<1>3. Numbered'
  <2>1. 1 \in 1..Len(queue)
    BY <1>1, <1>2
  <2> QED BY <1>1, <1>2, <2>1 DEF RInv, Numbered
<1>4. QueueOrder'
  <2>1. ASSUME NEW k \in 1..Len(queue'), NEW l \in 1..Len(queue'), k < l
        PROVE  /\ queue'[l].reply => queue'[k].reply
               /\ ~queue'[k].reply => queue'[k].n < queue'[l].n
    <3>1. /\ k + 1 < l + 1 /\ k + 1 \in 1..Len(queue) /\ l + 1 \in 1..Len(queue)
          /\ queue'[k] = queue[k + 1] /\ queue'[l] = queue[l + 1]
      BY <2>1, <1>2
    <3> QED BY <3>1 DEF RInv, QueueOrder
  <2>2. ASSUME NEW k \in 1..Len(queue'), ~cur'.reply, ~queue'[k].reply
        PROVE  cur'.n < queue'[k].n
    <3>1. 1 \in 1..Len(queue)
      BY <1>1, <1>2
    <3> QED BY <2>2, <3>1, <1>2 DEF RInv, QueueOrder
  <2> QED BY <2>1, <2>2 DEF QueueOrder
<1>5. Len(queue') <= QLen /\ made' \in 0..MaxFrames
  BY <1>1, <1>2, RadioAssumption DEF RInv, TypeOK
<1> QED BY <1>2, <1>3, <1>4, <1>5 DEF QueueOK

\* The rest of the invariant, which says nothing of the frames.
RestOK ==
    /\ pc \in {"recv", "begin", "switch", "start", "txdone", "ack"}
    /\ i \in 0..Retries /\ wait \in 0..AckWait /\ retry \in 0..ModeTries /\ age \in Nat
    /\ rf \in {"irq", "rx"}
    /\ ubRFState \in {"rx", "off", "tx_xtalwait", "tx_shortpreamble", "tx_packet", "tx_waitdone"}
    /\ chip \in {"rx", "tx", "tail", "off"}
    /\ timer \in Stopped..SendTime
    /\ HeldSoFar /\ NotSending /\ RecoveryArmed

FlagsOK == ackSem \in BOOLEAN /\ txSem \in BOOLEAN /\ masked \in BOOLEAN

LEMMA Parts == RInv <=> QueueOK /\ RestOK /\ FlagsOK
BY DEF RInv, TypeOK, QueueOK, RestOK, FlagsOK

LEMMA RadioInit == Init => RInv
<1> SUFFICES ASSUME Init PROVE RInv
  OBVIOUS
<1>1. RestOK
  BY DEF Init, RestOK, HeldSoFar,
              NotSending, RecoveryArmed, Listening, Starting, GaveUp, Crossed
<1>2. FlagsOK
  BY DEF Init, FlagsOK
<1>3. /\ queue = <<>> /\ queue \in Seq(Frame) /\ Len(queue) = 0 /\ made = 0
      /\ cur \in Frame /\ cur.n = 0
  BY RadioAssumption DEF Init, Frame
<1>4. Numbered /\ QueueOrder
  BY <1>3 DEF Numbered, QueueOrder
<1>5. made \in 0..MaxFrames /\ Len(queue) <= QLen
  BY <1>3, RadioAssumption
<1> QED BY <1>1, <1>2, <1>3, <1>4, <1>5, Parts DEF QueueOK

\* The completions and the masks are only set and cleared.
LEMMA FlagsStep == ASSUME FlagsOK, [Next]_vars PROVE FlagsOK'
<1> USE DEF FlagsOK, ClearFlags, chipVars
<1>1. CASE RadioEnqueue \/ \E a \in BOOLEAN : GatewayEnqueue(a)
  BY <1>1 DEF RadioEnqueue, GatewayEnqueue
<1>2. CASE Sender
  BY <1>2 DEF Sender, Take, Begin, ModeSet, ModeFailed, Start, TxDone, Acked, Resend
<1>3. CASE Interrupts \/ SendTimeout \/ Tick
  BY <1>3 DEF Interrupts, Receive, Continue, XtalReady, FifoFree, RadioDone, Other, SendTimeout,
              Tick, AX5043Receiver_Continuous, AX5043SetOperationMode_RX
<1>4. CASE UNCHANGED vars
  BY <1>4 DEF vars
<1> QED BY <1>1, <1>2, <1>3, <1>4 DEF Next

\* One action of the sender at a time.
LEMMA SenderStep == ASSUME RestOK, Sender PROVE RestOK'
<1> USE DEF RestOK, HeldSoFar, ClearFlags, chipVars, queueVars,
            NotSending, RecoveryArmed, Listening, Starting, GaveUp, Crossed
<1>1. CASE Take   BY <1>1 DEF Take
<1>2. CASE Begin  BY <1>2 DEF Begin
<1>3. CASE Start  BY <1>3 DEF Start
<1>4. CASE TxDone
  <2>1. CASE cur.ack /\ i < Retries      BY <1>4, <2>1 DEF TxDone
  <2>2. CASE ~(cur.ack /\ i < Retries)   BY <1>4, <2>2 DEF TxDone
  <2> QED BY <2>1, <2>2
<1>5. CASE Acked  BY <1>5 DEF Acked
<1>6. CASE Resend BY <1>6 DEF Resend
<1>7. CASE ModeSet BY <1>7 DEF ModeSet
<1>8. CASE ModeFailed
  <2>1. CASE retry > 1     BY <1>8, <2>1 DEF ModeFailed
  <2>2. CASE ~(retry > 1)  BY <1>8, <2>2 DEF ModeFailed
  <2> QED BY <2>1, <2>2
<1> QED BY <1>1, <1>2, <1>3, <1>4, <1>5, <1>6, <1>7, <1>8 DEF Sender

\* The interrupts, the timer and time.
LEMMA ChipStep == ASSUME RestOK, Interrupts \/ SendTimeout \/ Tick PROVE RestOK'
<1> USE DEF RestOK, HeldSoFar, chipVars, sendVars, Interrupt,
            AX5043Receiver_Continuous, AX5043SetOperationMode_RX, NotSending, RecoveryArmed, Listening, Starting, GaveUp, Crossed
<1>1. CASE Receive   BY <1>1 DEF Receive
<1>2. CASE Continue  BY <1>2 DEF Continue
<1>3. CASE XtalReady BY <1>3 DEF XtalReady
<1>4. CASE FifoFree  BY <1>4 DEF FifoFree
<1>5. CASE RadioDone BY <1>5 DEF RadioDone
<1>6. CASE SendTimeout BY <1>6 DEF SendTimeout
<1>7. CASE Tick
  <2>1. CASE pc = "recv"    BY <1>7, <2>1 DEF Tick
  <2>2. CASE pc = "txdone"  BY <1>7, <2>2 DEF Tick
  <2>3. CASE pc = "ack"     BY <1>7, <2>3 DEF Tick
  <2>4. CASE pc = "switch"  BY <1>7, <2>4 DEF Tick
  <2> QED BY <1>7, <2>1, <2>2, <2>3, <2>4 DEF Tick
<1>8. CASE Other BY <1>8 DEF Other
<1> QED BY <1>1, <1>2, <1>3, <1>4, <1>5, <1>6, <1>7, <1>8 DEF Interrupts

\* Every step keeps the invariant.
LEMMA RadioNext == RInv /\ [Next]_vars => RInv'
<1> SUFFICES ASSUME RInv, [Next]_vars PROVE RInv'
  OBVIOUS
<1>0. RestOK /\ FlagsOK /\ FlagsOK'
  BY Parts, FlagsStep
<1>6. made \in made..MaxFrames
  BY RadioAssumption DEF RInv, TypeOK
<1>1. CASE RadioEnqueue
  <2>1. RestOK'
    BY <1>0, <1>1 DEF RadioEnqueue, sendVars, chipVars, RestOK, HeldSoFar,
              NotSending, RecoveryArmed, Listening, Starting, GaveUp, Crossed
  <2> QED BY <1>0, <1>1, <2>1, ReplyStep, Parts, PTL
<1>2. CASE \E a \in BOOLEAN : GatewayEnqueue(a)
  <2>1. RestOK'
    BY <1>0, <1>2 DEF GatewayEnqueue, sendVars, chipVars, RestOK, HeldSoFar,
              NotSending, RecoveryArmed, Listening, Starting, GaveUp, Crossed
  <2>2. QueueOK'
    BY <1>2, ReportStep
  <2> QED BY <1>0, <2>1, <2>2, Parts, PTL
<1>3. CASE Sender
  <2>1. RestOK'
    BY <1>0, <1>3, SenderStep
  <2>2. QueueOK'
    <3>1. Take \/ UNCHANGED <<made, queue, cur>>
      BY <1>3 DEF Sender, Begin, ModeSet, ModeFailed, Start, TxDone, Acked, Resend, queueVars
    <3> QED BY <3>1, <1>6, TakeStep, QueueKept
  <2> QED BY <1>0, <2>1, <2>2, Parts, PTL
<1>4. CASE Interrupts \/ SendTimeout \/ Tick
  <2>1. RestOK'
    BY <1>0, <1>4, ChipStep
  <2>2. UNCHANGED <<made, queue, cur>>
    BY <1>4 DEF Interrupts, Receive, Continue, XtalReady, FifoFree, RadioDone, Other,
                SendTimeout, Tick, queueVars, sendVars
  <2>3. QueueOK'
    BY <1>6, <2>2, QueueKept
  <2> QED BY <1>0, <2>1, <2>3, Parts, PTL
<1>5. CASE UNCHANGED vars
  <2>1. RestOK' /\ UNCHANGED <<made, queue, cur>>
    BY <1>0, <1>5 DEF vars, queueVars, sendVars, chipVars, RestOK, HeldSoFar,
              NotSending, RecoveryArmed, Listening, Starting, GaveUp, Crossed
  <2>2. QueueOK'
    BY <1>6, <2>1, QueueKept
  <2> QED BY <1>0, <2>1, <2>2, Parts, PTL
<1> QED BY <1>1, <1>2, <1>3, <1>4, <1>5 DEF Next

\* The types of Radio, the time used so far, the numbers, the order of
\* rf_en_mq and the timer of the transceiver hold together in every state.
THEOREM RadioInvariance == Spec => []RInv
BY RadioInit, RadioNext, PTL DEF Spec

\* Type correctness of the send path (Radio_Encoder.c, Radio_433.c): rf_en_mq
\* never exceeds its length, and no retry count or wait leaves its range.
THEOREM RadioTypes == Spec => []TypeOK
BY RadioInvariance, PTL DEF RInv

\* No frame holds rf_encode_entry longer than its four transmissions, two
\* attempts of AX5043SetOperationMode_TX before each, and three waits, whatever
\* modes, interrupts and answers come or do not.
THEOREM FrameTime == Spec => []HoldBounded
<1>1. RInv => HoldBounded
  BY DEF RInv, TypeOK, HeldSoFar, HoldBounded
<1> QED BY <1>1, RadioInvariance, PTL

\* Replies before reports and reports in order, for a queue of any length:
\* rt_mq_urgent and rt_mq_send on rf_en_mq.
THEOREM FramesInOrder == Spec => []QueueOrder
<1>1. RInv => QueueOrder
  BY DEF RInv
<1> QED BY <1>1, RadioInvariance, PTL

\* No interleaving of radio_send, rf_433_task and the timer leaves the
\* transceiver deaf with nothing under way to bring it back, but for a receive
\* mode given up (Radio_Common.c:121) and a receiver turned on under a copy.
THEOREM DeafOnlyIf == Spec => []RecoveryArmed
<1>1. RInv => RecoveryArmed
  BY DEF RInv
<1> QED BY <1>1, RadioInvariance, PTL
=============================================================================
