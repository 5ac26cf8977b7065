------------------------------- MODULE Radio -------------------------------
(***************************************************************************)
(* The radio: the queue of frames, the thread radio_send that transmits    *)
(* and retries them (radio/Radio_Encoder.c), the thread rf_433_task that   *)
(* serves the transceiver's interrupts and the timer that restarts it      *)
(* (radio/Radio_433.c, radio/Radio_Common.c).                              *)
(*                                                                         *)
(* rf_433_task runs above radio_send, so a handler is one step for it,     *)
(* except where it may block: the flash lock, inside rf433_rx_callback.    *)
(* The timer thread runs above both.  One tick is 100 ms.                  *)
(***************************************************************************)
EXTENDS Integers, Sequences

CONSTANTS
    QLen,       \* length of rf_en_mq
    MaxFrames   \* bound: frames made in one behaviour

ASSUME RadioAssumption == QLen \in Nat \ {0} /\ MaxFrames \in Nat

TxWait    == 2  \* wait for the end of a transmission, 200 ms
AckWait   == 4  \* wait for the gateway's answer, 400 ms
SendTime  == 10 \* rf_433_send_timer, 1000 ms
ModeWait  == 1  \* one attempt at a mode of the transceiver, twice 50 ms
ModeTries == 2  \* attempts at a mode: retry starts at 3 and 0 ends it
Retries   == 3
Stopped   == -1

\* A reply answers a unit and asks for no answer; a report goes to the gateway.
Frame == [reply : BOOLEAN, ack : BOOLEAN, n : 0..MaxFrames]

VARIABLES
    made,       \* frames made so far
    queue,      \* rf_en_mq
    pc,         \* where radio_send is
    cur,        \* Send_Data
    i,          \* copies of Send_Data sent again
    wait,       \* ticks left of the wait radio_send is in
    retry,      \* attempts at the transmit mode left, this one included
    age,        \* ticks since Send_Data was taken
    ackSem,     \* rf_ack_sem is completed
    txSem,      \* rf_txdone_sem is completed
    rf,         \* rf_433_task waits for an interrupt, or is inside a receive
    ubRFState,  \* the driver's state
    chip,       \* the transceiver: receiving, sending, done but still busy, or
                \* in no mode at all
    masked,     \* both of its interrupt masks are 0
    timer       \* ticks left of rf_433_send_timer

queueVars == <<made, queue>>
sendVars  == <<pc, cur, i, wait, retry, age>>
chipVars  == <<ubRFState, chip, masked, timer>>
vars == <<queueVars, sendVars, ackSem, txSem, rf, chipVars>>

Init ==
    /\ made = 0 /\ queue = <<>>
    /\ pc = "recv" /\ cur = [reply |-> TRUE, ack |-> FALSE, n |-> 0]
    /\ i = 0 /\ wait = 0 /\ retry = 0 /\ age = 0
    /\ ackSem = FALSE /\ txSem = FALSE
    /\ rf = "irq" /\ ubRFState = "rx" /\ chip = "rx" /\ masked = FALSE
    /\ timer = Stopped

-----------------------------------------------------------------------------
(***************************************************************************)
(* Any thread makes a frame.  A full queue drops it: the result of         *)
(* rt_mq_send and rt_mq_urgent is not looked at.                           *)
(***************************************************************************)
Made == made < MaxFrames /\ made' = made + 1

\* Faulty: the reply at the tail.
RadioEnqueue_Send ==
    /\ Made
    /\ queue' = IF Len(queue) < QLen
                THEN Append(queue, [reply |-> TRUE, ack |-> FALSE, n |-> made'])
                ELSE queue
    /\ UNCHANGED <<sendVars, ackSem, txSem, rf, chipVars>>

\* rt_mq_urgent: at the head, the latest reply first.
RadioEnqueue ==
    /\ Made
    /\ queue' = IF Len(queue) < QLen
                THEN <<[reply |-> TRUE, ack |-> FALSE, n |-> made']>> \o queue
                ELSE queue
    /\ UNCHANGED <<sendVars, ackSem, txSem, rf, chipVars>>

\* Faulty: the limit of the queue left out.
GatewayEnqueue_Unlimited(a) ==
    /\ Made
    /\ queue' = Append(queue, [reply |-> FALSE, ack |-> a, n |-> made'])
    /\ UNCHANGED <<sendVars, ackSem, txSem, rf, chipVars>>

\* The three enqueues to the gateway (sync, warning, control), once there is
\* one: rt_mq_send.
GatewayEnqueue(a) ==
    /\ Made
    /\ queue' = IF Len(queue) < QLen
                THEN Append(queue, [reply |-> FALSE, ack |-> a, n |-> made'])
                ELSE queue
    /\ UNCHANGED <<sendVars, ackSem, txSem, rf, chipVars>>

-----------------------------------------------------------------------------
(***************************************************************************)
(* radio_send.                                                             *)
(***************************************************************************)
ClearFlags == ackSem' = FALSE /\ txSem' = FALSE

\* rt_mq_recv, and the flags cleared before the first copy.
Take ==
    /\ pc = "recv" /\ queue # <<>>
    /\ cur' = Head(queue) /\ queue' = Tail(queue)
    /\ pc' = "begin" /\ i' = 0
    /\ ClearFlags
    /\ UNCHANGED <<made, wait, retry, age, rf, chipVars>>

\* transmit_packet_task: interrupts masked, and the first attempt of
\* AX5043SetOperationMode_TX, which takes the transceiver out of its mode.
Begin ==
    /\ pc = "begin" /\ pc' = "switch"
    /\ retry' = ModeTries /\ wait' = ModeWait
    /\ chip' = "off" /\ masked' = TRUE
    /\ UNCHANGED <<queueVars, cur, i, age, ackSem, txSem, rf, ubRFState, timer>>

\* The mode comes up within the attempt.  svmodem tells the modem's on from
\* off and not a transmitter from a receiver: one turned on meanwhile by
\* another thread passes for it.
ModeSet ==
    /\ pc = "switch" /\ pc' = "start" /\ wait' = 0
    /\ chip' \in {"tx"} \cup ({chip} \cap {"rx"})
    /\ UNCHANGED <<queueVars, cur, i, retry, age, ackSem, txSem, rf, ubRFState, masked, timer>>

\* It does not: rf_restart, and another attempt; after the last one the copy
\* is started on a transceiver in no mode.
ModeFailed ==
    /\ pc = "switch" /\ wait = 0
    /\ ubRFState' = "off" /\ chip' = "off" /\ masked' = TRUE
    /\ retry' = retry - 1
    /\ IF retry > 1 THEN pc' = pc /\ wait' = ModeWait ELSE pc' = "start" /\ wait' = 0
    /\ UNCHANGED <<queueVars, cur, i, age, ackSem, txSem, rf, timer>>

\* Faulty: the timer not started.
Start_Untimed ==
    /\ pc = "start" /\ pc' = "txdone" /\ wait' = TxWait
    /\ ubRFState' = "tx_xtalwait" /\ masked' = FALSE
    /\ UNCHANGED <<queueVars, cur, i, retry, age, ackSem, txSem, rf, chip, timer>>

\* The rest of it: the state, the interrupt, the timer; then the wait.
Start ==
    /\ pc = "start" /\ pc' = "txdone" /\ wait' = TxWait
    /\ ubRFState' = "tx_xtalwait" /\ masked' = FALSE /\ timer' = SendTime
    /\ UNCHANGED <<queueVars, cur, i, retry, age, ackSem, txSem, rf, chip>>

\* Faulty: one retry too many.
TxDone_Off ==
    /\ pc = "txdone" /\ (txSem \/ wait = 0)
    /\ txSem' = FALSE
    /\ IF cur.ack /\ i <= Retries
       THEN pc' = "ack" /\ wait' = AckWait /\ UNCHANGED age
       ELSE pc' = "recv" /\ wait' = 0 /\ age' = 0
    /\ UNCHANGED <<queueVars, cur, i, retry, ackSem, rf, chipVars>>

\* The wait ends with the completion or with time, and either way the next
\* thing is the answer, if one is asked for and a retry is left.
TxDone ==
    /\ pc = "txdone" /\ (txSem \/ wait = 0)
    /\ txSem' = FALSE
    /\ IF cur.ack /\ i < Retries
       THEN pc' = "ack" /\ wait' = AckWait /\ UNCHANGED age
       ELSE pc' = "recv" /\ wait' = 0 /\ age' = 0
    /\ UNCHANGED <<queueVars, cur, i, retry, ackSem, rf, chipVars>>

Acked ==
    /\ pc = "ack" /\ ackSem
    /\ pc' = "recv" /\ wait' = 0 /\ age' = 0 /\ ackSem' = FALSE
    /\ UNCHANGED <<queueVars, cur, i, retry, txSem, rf, chipVars>>

\* No answer in time: another copy.  An answer that comes after the timeout
\* but before the thread runs again is cleared with the flag.
Resend ==
    /\ pc = "ack" /\ wait = 0
    /\ pc' = "begin" /\ i' = i + 1
    /\ ClearFlags
    /\ UNCHANGED <<queueVars, cur, wait, retry, age, rf, chipVars>>

Sender == Take \/ Begin \/ ModeSet \/ ModeFailed \/ Start \/ TxDone \/ Acked \/ Resend

-----------------------------------------------------------------------------
(***************************************************************************)
(* rf_433_task: an interrupt is served by the driver's state.              *)
(***************************************************************************)
Interrupt(s) == rf = "irq" /\ ubRFState = s /\ ~masked

\* The receive mode comes up, or is given up after its attempts and restarts.
AX5043SetOperationMode_RX == chip' \in {"rx", "off"}

\* The state says receiving either way.
AX5043Receiver_Continuous ==
    AX5043SetOperationMode_RX /\ ubRFState' = "rx" /\ masked' = FALSE

\* ReceiveData and rf433_rx_callback: the gateway's answer (command 7), or
\* another frame, whose handler makes frames and may wait for the flash lock.
\* The answer names no frame, so it may be that of an earlier copy or frame.
Receive ==
    /\ Interrupt("rx") /\ chip = "rx"
    /\ rf' = "rx"
    /\ ackSem' \in {ackSem, TRUE}
    /\ UNCHANGED <<queueVars, sendVars, txSem, chipVars>>

\* The end of a receive: back to receiving, even when radio_send started a
\* copy meanwhile.
Continue ==
    /\ rf = "rx" /\ rf' = "irq"
    /\ AX5043Receiver_Continuous
    /\ UNCHANGED <<queueVars, sendVars, ackSem, txSem, timer>>

\* The crystal is ready: TransmitData writes preamble and sync word.  Without
\* room for them it leaves a state in which interrupts are only masked (Other).
XtalReady ==
    /\ Interrupt("tx_xtalwait")
    /\ ubRFState' \in {"tx_packet", "tx_shortpreamble"}
    /\ UNCHANGED <<queueVars, sendVars, ackSem, txSem, rf, chip, masked, timer>>

\* Room in the fifo: the packet is written and committed.
FifoFree ==
    /\ Interrupt("tx_packet")
    /\ ubRFState' = "tx_waitdone"
    /\ UNCHANGED <<queueVars, sendVars, ackSem, txSem, rf, chip, masked, timer>>

\* Done.  The timer is stopped and radio_send told before RADIOSTATE is read;
\* if the radio is still busy, the state stays and another interrupt is
\* relied upon.  The event is the same for a frame sent and a frame received.
RadioDone ==
    /\ Interrupt("tx_waitdone") /\ chip # "off"
    /\ timer' = Stopped /\ txSem' = TRUE
    /\ \/ chip' = (IF chip = "rx" THEN "rx" ELSE "tail") /\ UNCHANGED <<ubRFState, masked>>
       \/ AX5043Receiver_Continuous
    /\ UNCHANGED <<queueVars, sendVars, ackSem, rf>>

\* An interrupt in any other state.
Other ==
    /\ Interrupt("tx_shortpreamble")
    /\ masked' = TRUE
    /\ UNCHANGED <<queueVars, sendVars, ackSem, txSem, rf, ubRFState, chip, timer>>

Interrupts == Receive \/ Continue \/ XtalReady \/ FifoFree \/ RadioDone \/ Other

-----------------------------------------------------------------------------
\* Faulty: the timer started again instead of the transceiver.
SendTimeout_Rearm ==
    /\ timer = 0
    /\ timer' = IF ubRFState # "rx" THEN SendTime ELSE Stopped
    /\ UNCHANGED <<queueVars, sendVars, ackSem, txSem, rf, ubRFState, chip, masked>>

\* rf_433_send_timer_callback: rf_restart and back to receiving.
SendTimeout ==
    /\ timer = 0 /\ timer' = Stopped
    /\ IF ubRFState # "rx"
       THEN AX5043Receiver_Continuous ELSE UNCHANGED <<ubRFState, chip, masked>>
    /\ UNCHANGED <<queueVars, sendVars, ackSem, txSem, rf>>

\* 100 ms pass: not while something is due, and radio_send takes no time
\* between its waits and its attempts at a mode.
Tick ==
    /\ timer # 0
    /\ \/ pc = "recv" /\ queue = <<>>
       \/ pc = "switch" /\ wait > 0
       \/ pc = "txdone" /\ ~txSem /\ wait > 0
       \/ pc = "ack" /\ ~ackSem /\ wait > 0
    /\ timer' = IF timer > 0 THEN timer - 1 ELSE timer
    /\ IF pc = "recv" THEN UNCHANGED <<wait, age>>
       ELSE wait' = wait - 1 /\ age' = age + 1
    /\ UNCHANGED <<queueVars, pc, cur, i, retry, ackSem, txSem, rf, ubRFState, chip, masked>>

Next ==
    \/ RadioEnqueue \/ \E a \in BOOLEAN : GatewayEnqueue(a)
    \/ Sender \/ Interrupts \/ SendTimeout \/ Tick

Spec == Init /\ [][Next]_vars

\* The threads run and time passes.  The transceiver owes no interrupt, except
\* that of a radio that was still busy when it reported done.
FairSpec ==
    /\ Spec
    /\ WF_vars(Sender) /\ WF_vars(Continue) /\ WF_vars(SendTimeout) /\ WF_vars(Tick)
    /\ WF_vars(RadioDone /\ chip = "tail" /\ ubRFState' = "rx")

-----------------------------------------------------------------------------
TypeOK ==
    /\ made \in 0..MaxFrames
    /\ queue \in Seq(Frame) /\ Len(queue) <= QLen
    /\ pc \in {"recv", "begin", "switch", "start", "txdone", "ack"}
    /\ cur \in Frame
    /\ i \in 0..Retries /\ wait \in 0..AckWait /\ retry \in 0..ModeTries /\ age \in Nat
    /\ ackSem \in BOOLEAN /\ txSem \in BOOLEAN
    /\ rf \in {"irq", "rx"}
    /\ ubRFState \in {"rx", "off", "tx_xtalwait", "tx_shortpreamble", "tx_packet", "tx_waitdone"}
    /\ chip \in {"rx", "tx", "tail", "off"} /\ masked \in BOOLEAN
    /\ timer \in Stopped..SendTime

\* A frame holds the sender for four transmissions, each with two attempts at
\* the transmit mode before it, and three waits for an answer at most: 2.8 s
\* of rf_encode_entry's and AX5043SetOperationMode_TX's own waiting, whatever
\* the transceiver and the gateway do.
HoldBounded ==
    age <= (Retries + 1) * (ModeTries * ModeWait + TxWait) + Retries * AckWait

\* Replies to units go out before every report, and reports in the order they
\* were made, the one being sent included: an alarm never reaches the gateway
\* after the report that it is over.  rt_mq_urgent against rt_mq_send, at any
\* filling of the queue.
QueueOrder ==
    /\ \A k, l \in 1..Len(queue) : k < l =>
         /\ queue[l].reply => queue[k].reply
         /\ ~queue[k].reply => queue[k].n < queue[l].n
    /\ \A k \in 1..Len(queue) :
         ~cur.reply /\ ~queue[k].reply => cur.n < queue[k].n

Listening == ubRFState = "rx" /\ chip = "rx"

\* radio_send is between masking the interrupts and starting a copy.
Starting == pc \in {"switch", "start"}

\* AX5043SetOperationMode_RX gave up: the state says receiving, nobody does.
GaveUp == ubRFState = "rx" /\ chip = "off" /\ ~Starting

\* The receiver was turned on under a copy being started, and the end of a
\* frame received was taken for the end of the copy.
Crossed == ubRFState = "tx_waitdone" /\ chip = "rx"

\* A transceiver that is not listening is on its way back: the timer of
\* rf_433_send_timer runs, or the radio reported done while busy and owes an
\* interrupt, or radio_send is about to start a copy.  In two cases nothing
\* is under way and only the next frame brings it back: the receive mode was
\* given up, or a frame received ended the wait for a copy.
RecoveryArmed ==
    \/ Listening \/ timer # Stopped \/ chip = "tail" \/ Starting
    \/ GaveUp \/ Crossed

\* After the traffic the unit listens again whichever interrupts were lost,
\* unless it ends in one of those two cases.
ListensAgain == ~Listening ~> (Listening \/ GaveUp \/ Crossed)
=============================================================================
