---------------------------- MODULE DmaProxyTest ----------------------------
(***************************************************************************)
(* The user space application (linux-user-space-dma/Software/User/         *)
(* dma-proxy-test.c) running on the driver: a transmit and a receive       *)
(* thread, each with one channel, and the stream that loops the transmit   *)
(* channel back to the receive channel.  Every ioctl of the application is *)
(* the ioctl of DmaProxy, step by step.                                    *)
(*                                                                         *)
(* A buffer is abstracted to the first word of the verify pattern, which   *)
(* identifies the transfer.  The stream is external.                       *)
(***************************************************************************)
EXTENDS DmaProxy, Sequences

CONSTANTS
  TX_BUFFER_COUNT, RX_BUFFER_COUNT, BUFFER_INCREMENT,
  Transfers,    \* num_transfers of the command line
  StreamDepth,  \* transfers the stream between the channels can hold
  LateStop,     \* control C may also come close to the end of the run
  SlowFor       \* threads whose transfers may take longer than the timer

ASSUME TestAssumption ==
  /\ Threads = {"tx", "rx"} /\ Channels = Threads
  /\ FileOf = [t \in Threads |-> t]
  /\ {TX_BUFFER_COUNT, RX_BUFFER_COUNT, BUFFER_INCREMENT, Transfers, StreamDepth}
       \subseteq Nat \ {0}
  /\ TX_BUFFER_COUNT % BUFFER_INCREMENT = 0 /\ RX_BUFFER_COUNT % BUFFER_INCREMENT = 0
  /\ 0 .. TX_BUFFER_COUNT - 1 \subseteq Buffers /\ 0 .. RX_BUFFER_COUNT - 1 \subseteq Buffers
  /\ LateStop \in BOOLEAN /\ SlowFor \subseteq Threads

BufferCount == [tx |-> TX_BUFFER_COUNT, rx |-> RX_BUFFER_COUNT]

VARIABLES
  num_transfers,      \* shared by both threads, written by tx_thread
  stop,               \* set by the signal handler
  stop_in_progress,   \* local to tx_thread
  at,                 \* where a thread is in tx_thread / rx_thread
  buffer_id, in_progress_count,
  counter,            \* counter of tx_thread, rx_counter of rx_thread
  word,               \* the first word of a channel buffer
  stream,             \* transfers on their way from tx to rx
  overslept           \* history: a timer fired while the system could move

appVars == <<num_transfers, stop, stop_in_progress, at, buffer_id, in_progress_count,
             counter, word, stream, overslept>>
allVars == <<vars, appVars>>

InitApp(stage) ==
  /\ Init
  /\ num_transfers = Transfers
  /\ stop = FALSE /\ stop_in_progress = FALSE
  /\ at = [t \in Threads |-> stage]
  /\ buffer_id = [t \in Threads |-> 0]
  /\ in_progress_count = [t \in Threads |-> 0]
  /\ counter = [t \in Threads |-> 0]
  /\ word = [t \in Threads |-> [b \in Buffers |-> 0]]
  /\ stream = <<>>
  /\ overslept = FALSE

InitTest == InitApp("starting")

\* sigint.  Without LateStop it comes early enough for RX_BUFFER_COUNT more
\* transfers to be needed anyway, whenever tx_thread looks at it.
SigInt ==
  /\ ~stop
  /\ LateStop \/ counter["tx"] + 1 + RX_BUFFER_COUNT <= num_transfers
  /\ stop' = TRUE
  /\ UNCHANGED <<vars, num_transfers, stop_in_progress, at, buffer_id, in_progress_count,
                 counter, word, stream, overslept>>

-----------------------------------------------------------------------------
(* Common to both threads                                                  *)

Move(t, p) == at' = [at EXCEPT ![t] = p]
\* Not treating the buffers as a circular list.
AdvanceUnwrapped(t) == buffer_id' = [buffer_id EXCEPT ![t] = @ + BUFFER_INCREMENT]
Advance(t) ==
  buffer_id' = [buffer_id EXCEPT ![t] = (@ + BUFFER_INCREMENT) % BufferCount[t]]

\* The first loop: start every buffer, the transmit ones with their pattern.
StartBuffer(t) ==
  /\ at[t] = "starting"
  /\ Ioctl(t, "START_XFER", buffer_id[t])
  /\ word' = [word EXCEPT ![t][buffer_id[t]] = IF t = "tx" THEN in_progress_count[t] ELSE @]
  /\ Move(t, "started")
  /\ UNCHANGED <<num_transfers, stop, stop_in_progress, buffer_id, in_progress_count,
                 counter, stream, overslept>>

\* The end of an iteration of that loop, once the ioctl has returned.
Started(t) ==
  LET n == in_progress_count[t] + 1
      next == buffer_id[t] + BUFFER_INCREMENT
      more == n < num_transfers /\ next < BufferCount[t]
  IN
  /\ at[t] = "started" /\ pc[t] = "user"
  /\ in_progress_count' = [in_progress_count EXCEPT ![t] = n]
  /\ buffer_id' = [buffer_id EXCEPT ![t] = IF more THEN next ELSE 0]
  /\ Move(t, IF more THEN "starting" ELSE "finish")
  /\ UNCHANGED <<vars, num_transfers, stop, stop_in_progress, counter, word, stream, overslept>>

\* The buffer polled with a call that does not wait for it.
FinishWithoutWaiting(t) ==
  /\ at[t] = "finish"
  /\ Ioctl(t, "SHOW_BUFLEN", buffer_id[t])
  /\ Move(t, "finished")
  /\ UNCHANGED <<num_transfers, stop, stop_in_progress, buffer_id, in_progress_count,
                 counter, word, stream, overslept>>

Finish(t) ==
  /\ at[t] = "finish"
  /\ Ioctl(t, "FINISH_XFER", buffer_id[t])
  /\ Move(t, "finished")
  /\ UNCHANGED <<num_transfers, stop, stop_in_progress, buffer_id, in_progress_count,
                 counter, word, stream, overslept>>

-----------------------------------------------------------------------------
(* tx_thread after FINISH_XFER.  A transfer error is printed, no more.     *)

\* Every iteration looks at stop, and the count moves on with it.
ExpectedWithoutLatch(n) == IF stop THEN n + RX_BUFFER_COUNT ELSE num_transfers

\* num_transfers after the test of stop, with n transfers finished.
Expected(n) == IF stop /\ ~stop_in_progress THEN n + RX_BUFFER_COUNT ELSE num_transfers

\* The word of the next transfer, one too far with several buffers in use.
PatternOffByOne(n) == TX_BUFFER_COUNT \div BUFFER_INCREMENT + n

Pattern(n) == (TX_BUFFER_COUNT \div BUFFER_INCREMENT - 1) + n

TxFinished ==
  LET n == counter["tx"] + 1
      left == in_progress_count["tx"] - 1
      b == buffer_id["tx"]
  IN
  /\ at["tx"] = "finished" /\ pc["tx"] = "user"
  /\ counter' = [counter EXCEPT !["tx"] = n]
  /\ IF n >= num_transfers
     THEN /\ in_progress_count' = [in_progress_count EXCEPT !["tx"] = left]
          /\ Move("tx", "exited")
          /\ UNCHANGED <<vars, num_transfers, stop_in_progress, buffer_id, word>>
     ELSE /\ num_transfers' = Expected(n)
          /\ stop_in_progress' = (stop \/ stop_in_progress)
          /\ Advance("tx")
          /\ Move("tx", "finish")
          /\ IF n + left >= Expected(n)
             THEN /\ in_progress_count' = [in_progress_count EXCEPT !["tx"] = left]
                  /\ UNCHANGED <<vars, word>>
             ELSE /\ word' = [word EXCEPT !["tx"][b] = Pattern(n)]
                  /\ Ioctl("tx", "START_XFER", b)
                  /\ UNCHANGED in_progress_count
  /\ UNCHANGED <<stop, stream, overslept>>

-----------------------------------------------------------------------------
(* rx_thread after FINISH_XFER.  It reads num_transfers twice, and         *)
(* tx_thread may write it in between.                                      *)

\* exit(1) takes the transmit thread with it; an ioctl that is under way
\* still runs to its end in the kernel.
RxError ==
  /\ at["rx"] = "finished" /\ pc["rx"] = "user"
  /\ status["rx"][buffer_id["rx"]] # "NO_ERROR"
  /\ at' = [t \in Threads |-> "aborted"]
  /\ UNCHANGED <<vars, num_transfers, stop, stop_in_progress, buffer_id, in_progress_count,
                 counter, word, stream, overslept>>

RxFinished ==
  /\ at["rx"] = "finished" /\ pc["rx"] = "user"
  /\ status["rx"][buffer_id["rx"]] = "NO_ERROR"
  /\ in_progress_count' = [in_progress_count EXCEPT !["rx"] = @ - 1]
  /\ counter' = [counter EXCEPT !["rx"] = @ + 1]
  /\ Move("rx", IF counter'["rx"] >= num_transfers THEN "exited" ELSE "restart")
  /\ UNCHANGED <<vars, num_transfers, stop, stop_in_progress, buffer_id, word, stream, overslept>>

\* Restarting without regard to the transfers that are still expected.
RxRestartAlways ==
  /\ at["rx"] = "restart"
  /\ Ioctl("rx", "START_XFER", buffer_id["rx"])
  /\ in_progress_count' = [in_progress_count EXCEPT !["rx"] = @ + 1]
  /\ Advance("rx")
  /\ Move("rx", "finish")
  /\ UNCHANGED <<num_transfers, stop, stop_in_progress, counter, word, stream, overslept>>

RxRestart ==
  /\ at["rx"] = "restart"
  /\ IF counter["rx"] + in_progress_count["rx"] >= num_transfers
     THEN UNCHANGED <<vars, in_progress_count>>
     ELSE /\ Ioctl("rx", "START_XFER", buffer_id["rx"])
          /\ in_progress_count' = [in_progress_count EXCEPT !["rx"] = @ + 1]
  /\ Advance("rx")
  /\ Move("rx", "finish")
  /\ UNCHANGED <<num_transfers, stop, stop_in_progress, counter, word, stream, overslept>>

-----------------------------------------------------------------------------
(* The loopback stream, external, and the time-scale of the driver's       *)
(* timer: three seconds are enough for everything that can happen without  *)
(* it, so it fires only when nothing else in the system can move; except   *)
(* for the threads of SlowFor, whose timer may fire at any time.           *)

TxRoom == armed["tx"] /\ Len(stream) < StreamDepth
RxData == armed["rx"] /\ stream # <<>>

Transmit ==
  /\ TxRoom /\ Complete("tx")
  /\ \E d \in inflight["tx"] \ inflight'["tx"] : stream' = Append(stream, word["tx"][d.bd])
  /\ UNCHANGED <<num_transfers, stop, stop_in_progress, at, buffer_id, in_progress_count,
                 counter, word, overslept>>

Receive ==
  /\ RxData /\ Complete("rx")
  /\ \E d \in inflight["rx"] \ inflight'["rx"] :
       word' = [word EXCEPT !["rx"][d.bd] = Head(stream)]
  /\ stream' = Tail(stream)
  /\ UNCHANGED <<num_transfers, stop, stop_in_progress, at, buffer_id, in_progress_count,
                 counter, overslept>>

Ended(t) == at[t] \in {"absent", "exited", "aborted", "test"} /\ pc[t] = "user"

Stalled ==
  /\ ~TxRoom /\ ~RxData
  /\ \A c \in Channels : callbacks[c] = {}
  /\ \A t \in Threads : Ended(t) \/ (pc[t] = "sleep" /\ done[Chan(t)][bd[t]] = 0)

Driver(t) ==
  /\ Step(t)
  /\ Expire(t) => Stalled \/ t \in SlowFor
  /\ overslept' = (overslept \/ (Expire(t) /\ ~Stalled))
  /\ UNCHANGED <<num_transfers, stop, stop_in_progress, at, buffer_id, in_progress_count,
                 counter, word, stream>>
Tasklet(c) == Callback(c) /\ UNCHANGED appVars

Thread(t) == StartBuffer(t) \/ Started(t) \/ Finish(t)
Rx == RxError \/ RxFinished \/ RxRestart
Hardware == Transmit \/ Receive

Quit == (\A t \in Threads : Ended(t)) /\ UNCHANGED allVars

NextTest ==
  \/ SigInt
  \/ \E t \in Threads : Thread(t) \/ Driver(t)
  \/ TxFinished \/ Rx
  \/ Hardware
  \/ \E c \in Channels : Tasklet(c)
  \/ Quit

\* Both threads are scheduled, the hardware moves data while it can.
SpecTest ==
  /\ InitTest /\ [][NextTest]_allVars
  /\ \A t \in Threads : WF_allVars(Thread(t)) /\ WF_allVars(Driver(t))
  /\ WF_allVars(TxFinished) /\ WF_allVars(Rx)
  /\ WF_allVars(Transmit) /\ WF_allVars(Receive)
  /\ \A c \in Channels : WF_allVars(Tasklet(c))

-----------------------------------------------------------------------------
\* "absent", "scheduled" and "test" are those of DmaProxyDevice.
Stages == {"starting", "started", "finish", "finished", "restart", "exited", "aborted",
           "absent", "scheduled", "test"}

TypeOKTest ==
  /\ TypeOK
  /\ num_transfers \in Nat
  /\ stop \in BOOLEAN /\ stop_in_progress \in BOOLEAN
  /\ at \in [Threads -> Stages]
  /\ buffer_id \in [Threads -> Buffers]
  /\ in_progress_count \in [Threads -> Nat]
  /\ counter \in [Threads -> Nat]
  /\ word \in [Threads -> [Buffers -> Nat]]
  /\ stream \in Seq(Nat) /\ Len(stream) <= StreamDepth
  /\ overslept \in BOOLEAN

(***************************************************************************)
(* "exit gracefully letting all transfers queued up be completed ...       *)
(* without leaving transfers in progress which is unrecoverable": while    *)
(* the hardware keeps up no thread aborts, and when both have exited       *)
(* neither channel has a transfer in flight and the stream is empty.       *)
(***************************************************************************)
GracefulShutdown ==
  /\ ~overslept => \A t \in Threads : at[t] # "aborted"
  /\ (\A t \in Threads : at[t] = "exited") =>
       stream = <<>> /\ \A c \in Channels : inflight[c] = {}

(***************************************************************************)
(* The verify check of rx_thread: the transfer finished as the n-th is the *)
(* n-th that was sent, through the circular reuse of the buffers of both   *)
(* channels.                                                               *)
(***************************************************************************)
VerifyInOrder ==
  at["rx"] = "finished" /\ pc["rx"] = "user" /\ status["rx"][buffer_id["rx"]] = "NO_ERROR"
    => word["rx"][buffer_id["rx"]] = counter["rx"]

(***************************************************************************)
(* Zero copy: the application writes a transmit buffer only while the      *)
(* engine has no descriptor for it.                                        *)
(***************************************************************************)
NoWriteInFlight ==
  [][\A b \in Buffers : word'["tx"][b] # word["tx"][b] => ~InFlight("tx", b)]_allVars

(***************************************************************************)
(* Both threads end, with or without a control C.                          *)
(***************************************************************************)
Terminates == (\E t \in Threads : ~Ended(t)) ~> (\A t \in Threads : Ended(t))
=============================================================================
