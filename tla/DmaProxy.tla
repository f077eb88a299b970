------------------------------ MODULE DmaProxy ------------------------------
(***************************************************************************)
(* The ioctl interface of the Linux DMA proxy driver                       *)
(* (linux-user-space-dma/Software/Kernel/dma-proxy.c) over the dmaengine   *)
(* it is a client of.                                                      *)
(*                                                                         *)
(* A thread that issues an ioctl walks through start_transfer and          *)
(* wait_for_transfer one step at a time: between two steps the engine may  *)
(* finish a descriptor (its interrupt), run a completion callback (its     *)
(* tasklet), and other threads may be anywhere in their own ioctl.  Each   *)
(* step ends where the next one touches state somebody else can change.    *)
(*                                                                         *)
(* The engine (cookies, descriptors in flight, callbacks) is external: it  *)
(* is modelled from how the driver uses it.  Transfer lengths and contents *)
(* are left out, and so is the wrap of the 32-bit cookie.                  *)
(***************************************************************************)
EXTENDS Integers, FiniteSets

CONSTANTS
  Threads,        \* threads of control that call ioctl
  Channels,       \* the channels of the proxy, one character device each
  Buffers,        \* 0 .. BUFFER_COUNT - 1, indices into pBufferTable / pBdTable
  FileOf,         \* the channel whose device file a thread has open
  GarbageDone,    \* what a completion that was never initialised may hold
  PrepCanFail,    \* device_prep_slave_sg may return NULL
  SubmitCanFail,  \* dmaengine_submit may return an error cookie
  MaxSubmits      \* bound on the transfers a channel is asked to start

ASSUME BuffersAssumption == Buffers \subseteq Nat /\ 0 \in Buffers
ASSUME FileOfAssumption == FileOf \in [Threads -> Channels]
ASSUME EngineAssumption ==
  /\ GarbageDone \subseteq Nat /\ GarbageDone # {}
  /\ PrepCanFail \in BOOLEAN /\ SubmitCanFail \in BOOLEAN
  /\ MaxSubmits \in Nat

\* The way the test application uses the driver: one thread per device file.
Exclusive == \A s, t \in Threads : FileOf[s] = FileOf[t] => s = t

Commands == {"START_XFER", "FINISH_XFER", "XFER", "SHOW_BUFLEN"}
Statuses == {"NO_ERROR", "BUSY", "TIMEOUT", "ERROR"}   \* enum proxy_status
Locations == {"user", "start", "init", "submit", "issue", "wait", "sleep",
              "check", "report"}
Claims == {"none", "failed", "owed", "taken"}
SubmitError == -1
Descriptors == [bd : Buffers, cookie : Nat]

VARIABLES
  bdindex,    \* pChannel->bdindex, one per channel, shared by its callers
  status,     \* pBufferTable[bd].status, mapped into user space
  cookie,     \* pBdTable[bd].cookie
  done,       \* pBdTable[bd].cmp.done
  used,       \* engine: the last cookie it handed out
  completed,  \* engine: the last cookie it completed
  inflight,   \* engine: descriptors submitted and not completed
  armed,      \* engine: it is processing its queue
  callbacks,  \* engine: completed descriptors whose callback has not run
  pc,         \* where a thread is in ioctl; "user" is outside
  cmd,        \* the command of its ioctl
  bd,         \* the local variable bdindex of start_/wait_for_transfer
  timedout,   \* wait_for_completion_timeout returned 0
  txstatus,   \* what dma_async_is_tx_complete returned
  claim       \* history: what became of the latest start of a buffer

driverVars == <<bdindex, status, cookie, done>>
engineVars == <<used, completed, inflight, armed, callbacks>>
threadVars == <<pc, cmd, bd, timedout, txstatus>>
vars == <<driverVars, engineVars, threadVars, claim>>

Chan(t) == FileOf[t]
InFlight(c, b) == \E d \in inflight[c] : d.bd = b
CallbackPending(c, b) == \E d \in callbacks[c] : d.bd = b

(***************************************************************************)
(* devm_kmalloc does not clear pBdTable: a completion nobody initialised   *)
(* holds garbage.  (A garbage wait queue can also hang the caller; that is *)
(* outside the model.)  dmam_alloc_coherent clears pBufferTable, so status *)
(* starts as PROXY_NO_ERROR.                                               *)
(***************************************************************************)
Init ==
  /\ bdindex = [c \in Channels |-> 0]
  /\ status = [c \in Channels |-> [b \in Buffers |-> "NO_ERROR"]]
  /\ cookie = [c \in Channels |-> [b \in Buffers |-> 0]]
  /\ done \in [Channels -> [Buffers -> GarbageDone]]
  /\ used = [c \in Channels |-> 0]
  /\ completed = [c \in Channels |-> 0]
  /\ inflight = [c \in Channels |-> {}]
  /\ armed = [c \in Channels |-> FALSE]
  /\ callbacks = [c \in Channels |-> {}]
  /\ pc = [t \in Threads |-> "user"]
  /\ cmd = [t \in Threads |-> "SHOW_BUFLEN"]
  /\ bd = [t \in Threads |-> 0]
  /\ timedout = [t \in Threads |-> FALSE]
  /\ txstatus = [t \in Threads |-> "COMPLETE"]
  /\ claim = [c \in Channels |-> [b \in Buffers |-> "none"]]

-----------------------------------------------------------------------------
(* ioctl: the entry, up to the switch on the command                       *)

FirstStep(k) ==
  CASE k \in {"START_XFER", "XFER"} -> "start"
    [] k = "FINISH_XFER" -> "wait"
    [] k = "SHOW_BUFLEN" -> "user"

\* The index is copied into the channel, not into a local.  The bound keeps
\* the number of transfers finite; a caller past it may still finish them.
Ioctl(t, k, b) ==
  /\ pc[t] = "user"
  /\ k \in {"START_XFER", "XFER"} => used[Chan(t)] < MaxSubmits
  /\ bdindex' = [bdindex EXCEPT ![Chan(t)] = b]
  /\ cmd' = [cmd EXCEPT ![t] = k]
  /\ pc' = [pc EXCEPT ![t] = FirstStep(k)]
  /\ UNCHANGED <<status, cookie, done, engineVars, bd, timedout, txstatus, claim>>

\* copy_from_user fails: it clears what it could not copy, ioctl returns -EINVAL.
IoctlFault(t) ==
  /\ pc[t] = "user"
  /\ bdindex' = [bdindex EXCEPT ![Chan(t)] = 0]
  /\ UNCHANGED <<status, cookie, done, engineVars, threadVars, claim>>

-----------------------------------------------------------------------------
(* start_transfer                                                          *)

\* Where start_transfer returns to: XFER goes on to wait, with the channel's
\* bdindex read again.
AfterStart(t) == IF cmd[t] = "XFER" THEN "wait" ELSE "user"

\* The local copy of bdindex, and device_prep_slave_sg.  When it returns NULL
\* the driver prints and goes on: completion and cookie keep their old values.
Prepare(t) ==
  LET c == Chan(t) IN
  LET b == bdindex[c] IN
  /\ pc[t] = "start"
  /\ bd' = [bd EXCEPT ![t] = b]
  /\ \/ /\ pc' = [pc EXCEPT ![t] = "init"]
        /\ claim' = [claim EXCEPT ![c][b] = "none"]
     \/ /\ PrepCanFail
        /\ pc' = [pc EXCEPT ![t] = AfterStart(t)]
        /\ claim' = [claim EXCEPT ![c][b] = "failed"]
  /\ UNCHANGED <<driverVars, engineVars, cmd, timedout, txstatus>>

\* The init_completion call: nothing has happened yet.
InitCompletion(t) ==
  /\ pc[t] = "init"
  /\ done' = [done EXCEPT ![Chan(t)][bd[t]] = 0]
  /\ pc' = [pc EXCEPT ![t] = "submit"]
  /\ UNCHANGED <<bdindex, status, cookie, engineVars, cmd, bd, timedout, txstatus, claim>>

\* dmaengine_submit queues the descriptor and its cookie is stored; an error
\* cookie is stored as well, and start_transfer returns.
Submit(t) ==
  LET c == Chan(t) IN
  /\ pc[t] = "submit"
  /\ \/ /\ used' = [used EXCEPT ![c] = @ + 1]
        /\ inflight' = [inflight EXCEPT ![c] = @ \cup {[bd |-> bd[t], cookie |-> used'[c]]}]
        /\ cookie' = [cookie EXCEPT ![c][bd[t]] = used'[c]]
        /\ claim' = [claim EXCEPT ![c][bd[t]] = "owed"]
        /\ pc' = [pc EXCEPT ![t] = "issue"]
     \/ /\ SubmitCanFail
        /\ cookie' = [cookie EXCEPT ![c][bd[t]] = SubmitError]
        /\ claim' = [claim EXCEPT ![c][bd[t]] = "failed"]
        /\ pc' = [pc EXCEPT ![t] = AfterStart(t)]
        /\ UNCHANGED <<used, inflight>>
  /\ UNCHANGED <<bdindex, status, done, completed, armed, callbacks, cmd, bd,
                 timedout, txstatus>>

\* A wrong order: the completion initialised after the transfer is submitted.
IssueThenInit(t) ==
  /\ pc[t] = "issue"
  /\ armed' = [armed EXCEPT ![Chan(t)] = inflight[Chan(t)] # {}]
  /\ done' = [done EXCEPT ![Chan(t)][bd[t]] = 0]
  /\ pc' = [pc EXCEPT ![t] = AfterStart(t)]
  /\ UNCHANGED <<bdindex, status, cookie, used, completed, inflight, callbacks, cmd, bd,
                 timedout, txstatus, claim>>

\* dma_async_issue_pending
Issue(t) ==
  /\ pc[t] = "issue"
  /\ armed' = [armed EXCEPT ![Chan(t)] = inflight[Chan(t)] # {}]
  /\ pc' = [pc EXCEPT ![t] = AfterStart(t)]
  /\ UNCHANGED <<driverVars, used, completed, inflight, callbacks, cmd, bd,
                 timedout, txstatus, claim>>

-----------------------------------------------------------------------------
(* wait_for_transfer                                                       *)

\* Without the report that the wait has begun.
WaitWithoutBusy(t) ==
  LET b == bdindex[Chan(t)] IN
  /\ pc[t] = "wait"
  /\ bd' = [bd EXCEPT ![t] = b]
  /\ pc' = [pc EXCEPT ![t] = "sleep"]
  /\ UNCHANGED <<driverVars, engineVars, cmd, timedout, txstatus, claim>>

Wait(t) ==
  LET b == bdindex[Chan(t)] IN
  /\ pc[t] = "wait"
  /\ bd' = [bd EXCEPT ![t] = b]
  /\ status' = [status EXCEPT ![Chan(t)][b] = "BUSY"]
  /\ pc' = [pc EXCEPT ![t] = "sleep"]
  /\ UNCHANGED <<bdindex, cookie, done, engineVars, cmd, timedout, txstatus, claim>>

\* Not waiting for complete(): the caller goes on at once.
WakeAtOnce(t) ==
  LET c == Chan(t) IN
  /\ pc[t] = "sleep"
  /\ done' = [done EXCEPT ![c][bd[t]] = @ - 1]
  /\ claim' = [claim EXCEPT ![c][bd[t]] = IF @ = "owed" THEN "taken" ELSE @]
  /\ timedout' = [timedout EXCEPT ![t] = FALSE]
  /\ pc' = [pc EXCEPT ![t] = "check"]
  /\ UNCHANGED <<bdindex, status, cookie, engineVars, cmd, bd, txstatus>>

\* complete() ran: the wait consumes one completion.
Wake(t) ==
  LET c == Chan(t) IN
  /\ pc[t] = "sleep" /\ done[c][bd[t]] > 0
  /\ done' = [done EXCEPT ![c][bd[t]] = @ - 1]
  /\ claim' = [claim EXCEPT ![c][bd[t]] = IF @ = "owed" THEN "taken" ELSE @]
  /\ timedout' = [timedout EXCEPT ![t] = FALSE]
  /\ pc' = [pc EXCEPT ![t] = "check"]
  /\ UNCHANGED <<bdindex, status, cookie, engineVars, cmd, bd, txstatus>>

\* A wait without a timer: wait_for_completion.
NeverExpire(t) == FALSE /\ UNCHANGED vars

\* The 3000 ms timer, however fast or slow the engine is.  A completion that
\* is there when it fires wins.
Expire(t) ==
  /\ pc[t] = "sleep" /\ done[Chan(t)][bd[t]] = 0
  /\ timedout' = [timedout EXCEPT ![t] = TRUE]
  /\ pc' = [pc EXCEPT ![t] = "check"]
  /\ UNCHANGED <<driverVars, engineVars, cmd, bd, txstatus, claim>>

\* dma_async_is_complete: cookies completed so far, or never handed out.
TxComplete(c, k) == k <= completed[c] \/ k > used[c]

Check(t) ==
  LET c == Chan(t) IN
  /\ pc[t] = "check"
  /\ txstatus' = [txstatus EXCEPT ![t] =
       IF TxComplete(c, cookie[c][bd[t]]) THEN "COMPLETE" ELSE "IN_PROGRESS"]
  /\ pc' = [pc EXCEPT ![t] = "report"]
  /\ UNCHANGED <<driverVars, engineVars, cmd, bd, timedout, claim>>

\* The status of the engine ignored, the completion alone trusted.
VerdictOfWait(t) == IF timedout[t] THEN "TIMEOUT" ELSE "NO_ERROR"

Verdict(t) ==
  IF timedout[t] THEN "TIMEOUT"
  ELSE IF txstatus[t] # "COMPLETE" THEN "ERROR" ELSE "NO_ERROR"

Report(t) ==
  /\ pc[t] = "report"
  /\ status' = [status EXCEPT ![Chan(t)][bd[t]] = Verdict(t)]
  /\ pc' = [pc EXCEPT ![t] = "user"]
  /\ UNCHANGED <<bdindex, cookie, done, engineVars, cmd, bd, timedout, txstatus, claim>>

-----------------------------------------------------------------------------
(* The engine, external to the driver.  Descriptors complete in the order  *)
(* they were submitted; one that was submitted while the engine is busy is *)
(* processed without another issue_pending.                                *)

Oldest(S) == {d \in S : \A e \in S : d.cookie <= e.cookie}

Complete(c) ==
  /\ armed[c]
  /\ \E d \in Oldest(inflight[c]) :
       /\ inflight' = [inflight EXCEPT ![c] = @ \ {d}]
       /\ callbacks' = [callbacks EXCEPT ![c] = @ \cup {d}]
       /\ completed' = [completed EXCEPT ![c] = d.cookie]
  /\ armed' = [armed EXCEPT ![c] = inflight'[c] # {}]
  /\ UNCHANGED <<driverVars, used, threadVars, claim>>

\* sync_callback, from the engine's tasklet.
Callback(c) ==
  /\ \E d \in Oldest(callbacks[c]) :
       /\ callbacks' = [callbacks EXCEPT ![c] = @ \ {d}]
       /\ done' = [done EXCEPT ![c][d.bd] = @ + 1]
  /\ UNCHANGED <<bdindex, status, cookie, used, completed, inflight, armed, threadVars, claim>>

-----------------------------------------------------------------------------
Step(t) ==
  \/ Prepare(t) \/ InitCompletion(t) \/ Submit(t) \/ Issue(t)
  \/ Wait(t) \/ Wake(t) \/ Expire(t) \/ Check(t) \/ Report(t)

Call(t) ==
  \/ \E k \in Commands, b \in Buffers : Ioctl(t, k, b)
  \/ IoctlFault(t)

Engine(c) == Complete(c) \/ Callback(c)

Next ==
  \/ \E t \in Threads : Call(t) \/ Step(t)
  \/ \E c \in Channels : Engine(c)

\* The kernel runs a thread that is inside ioctl, and its timer fires.  Nothing
\* obliges the engine to make progress.
Spec == Init /\ [][Next]_vars
FairSpec == Spec /\ \A t \in Threads : WF_vars(Step(t))

-----------------------------------------------------------------------------
TypeOK ==
  /\ bdindex \in [Channels -> Buffers]
  /\ status \in [Channels -> [Buffers -> Statuses]]
  /\ cookie \in [Channels -> [Buffers -> Nat \cup {SubmitError}]]
  /\ done \in [Channels -> [Buffers -> Nat]]
  /\ used \in [Channels -> Nat]
  /\ completed \in [Channels -> Nat]
  /\ inflight \in [Channels -> SUBSET Descriptors]
  /\ armed \in [Channels -> BOOLEAN]
  /\ callbacks \in [Channels -> SUBSET Descriptors]
  /\ pc \in [Threads -> Locations]
  /\ cmd \in [Threads -> Commands]
  /\ bd \in [Threads -> Buffers]
  /\ timedout \in [Threads -> BOOLEAN]
  /\ txstatus \in [Threads -> {"COMPLETE", "IN_PROGRESS"}]
  /\ claim \in [Channels -> [Buffers -> Claims]]

(***************************************************************************)
(* wait_for_transfer is about to report PROXY_NO_ERROR for a buffer only   *)
(* when the engine holds no descriptor for that buffer any more, neither   *)
(* of the transfer waited for nor of an earlier one that had timed out:    *)
(* user space may then reuse the memory.  Needs one thread per channel,    *)
(* and a latest start of the buffer that dmaengine_submit did not refuse.  *)
(***************************************************************************)
NoErrorQuiescent ==
  \A t \in Threads :
    /\ pc[t] = "report"
    /\ Verdict(t) = "NO_ERROR"
    /\ cookie[Chan(t)][bd[t]] # SubmitError
    => ~InFlight(Chan(t), bd[t])

(***************************************************************************)
(* A completion is never lost: while the latest start of a buffer has not  *)
(* been waited for, its wake-up is recorded in the completion or still to  *)
(* come from the engine.  This is what "Initialize the completion for the  *)
(* transfer and before using it" is for; broken, FINISH_XFER would report  *)
(* PROXY_TIMEOUT for a transfer that was done.                             *)
(***************************************************************************)
NoLostCompletion ==
  \A c \in Channels, b \in Buffers :
    claim[c][b] = "owed" => done[c][b] > 0 \/ InFlight(c, b) \/ CallbackPending(c, b)

(***************************************************************************)
(* XFER "performs the DMA transfer on the specified channel blocking til   *)
(* it completes": it does not report PROXY_NO_ERROR when the transfer it   *)
(* was asked for was never handed to the engine.                           *)
(***************************************************************************)
XferPerforms ==
  \A t \in Threads :
    pc[t] = "report" /\ cmd[t] = "XFER" /\ Verdict(t) = "NO_ERROR"
      => claim[Chan(t)][bd[t]] # "failed"

(***************************************************************************)
(* "An input argument which specifies a channel buffer number (0 - N) to   *)
(* be used for the transfer is required": the buffer an XFER waits for is  *)
(* the buffer it started.                                                  *)
(***************************************************************************)
XferOneBuffer ==
  [][\A t \in Threads :
       pc[t] = "wait" /\ cmd[t] = "XFER" /\ pc'[t] = "sleep" => bd'[t] = bd[t]]_vars

(***************************************************************************)
(* The driver implements TransferService: the engine owns a buffer while a *)
(* descriptor for it is in flight, an error cookie is a refusal, and the   *)
(* status word is the answer.  Every PROXY_NO_ERROR a step of the driver   *)
(* writes is an answer the service allows.                                 *)
(***************************************************************************)
Owner == [c \in Channels |-> [b \in Buffers |-> IF InFlight(c, b) THEN "device" ELSE "user"]]
Latest ==
  [c \in Channels |->
     [b \in Buffers |-> IF cookie[c][b] = SubmitError THEN "refused" ELSE "accepted"]]

Service == INSTANCE TransferService WITH
  owner <- Owner, latest <- Latest, result <- status

ImplementsService == Service!Spec

(***************************************************************************)
(* Every ioctl returns, whatever the engine does or fails to do: the only  *)
(* wait has a timer.                                                       *)
(***************************************************************************)
IoctlReturns == \A t \in Threads : pc[t] # "user" ~> pc[t] = "user"
=============================================================================
