------------------------------- MODULE PlmIpi -------------------------------
(***************************************************************************)
(* The IPI messaging demonstration of Versal (plm-r5-a72-ipi): a user      *)
(* module of the PLM, a bare-metal program on an R5 and a Linux program on *)
(* the A72 pass trip counters around, each side adding one.                *)
(*                                                                         *)
(* The PLM sends its counter for the R5 every MSG_PERIOD_MS and does not   *)
(* wait; the R5 is woken by a callback and answers with a command of its   *)
(* own, for which it does wait.  Between the PLM and the A72 one side      *)
(* sends requests, which one is a choice of the build: the A72, which      *)
(* spins for the acknowledgement, or the PLM, which polls for it in later  *)
(* passes of its task.                                                     *)
(*                                                                         *)
(* The PLM runs one task at a time to its end, but not while the others    *)
(* stand still.  The IPI hardware, the command dispatcher of the xplmi     *)
(* library and XilMailbox are external.  The Linux program may be killed   *)
(* and started again at any moment.                                        *)
(***************************************************************************)
EXTENDS Integers

CONSTANTS
  Setups,        \* the builds considered: is PLM_2_A72_UNIDIRECT defined,
                 \*   which programs are started, are there failures or restarts?
  Range,         \* 2^32, the range of a word
  Passes,        \* MSG_PERIOD_MS / TASK_PERIOD_MS
  MaxFailures,   \* bound on the calls of UserTask that fail
  MaxRestarts    \* bound on the restarts of the Linux program

ASSUME SetupsAssumption ==
  Setups \subseteq [plmSends : BOOLEAN, r5 : BOOLEAN, a72 : BOOLEAN, faults : BOOLEAN]
ASSUME BoundsAssumption ==
  Range \in Nat \ {0} /\ Passes \in Nat \ {0} /\ MaxFailures \in Nat /\ MaxRestarts \in Nat

Cpus == {"r5", "a72"}
Words == 0 .. Range - 1
Plus(word, n) == (word + n) % Range

VARIABLES
  setup,       \* which of them this is
  plm,         \* what the PLM is at; "idle" between two tasks
  source,      \* the sender of the command it handles, and its payload, then
  payload,     \*   that of the response; locals, reset when the PLM is done
  trip,        \* TripCounter
  pass,        \* ExecutionCount, modulo Passes
  waiting,     \* Waiting
  r5,          \* where main of the R5 is
  isr,         \* where the mailbox interrupt on the R5 is
  recvDone,    \* RecvDone
  errorStatus, \* ErrorStatus
  request,     \* RequestBuffer of the R5: the counter in it
  a72,         \* where the Linux program is
  counter,     \* trip_counter, or val, which is local to the handler
  (*************************************************************************)
  (* The hardware, for each of the CPUs: the buffers of the exchange that  *)
  (* the PLM begins and of the one that the CPU begins, each with the bit  *)
  (* that its sender observes and its receiver is interrupted by.          *)
  (*************************************************************************)
  plmReq, plmResp, plmIrq,
  cpuReq, cpuResp, cpuIrq,
  (*************************************************************************)
  (* History of the exchange, read by the properties only.                 *)
  (*************************************************************************)
  failures,    \* calls of UserTask that failed
  misread,     \* a response could not be read, or was read before there was one
  answered,    \* the A72 has answered the PLM
  restarts,    \* of the Linux program
  stale        \* responses it took for a command of its own that were not

taskVars == <<trip, pass, waiting>>
plmVars == <<plm, source, payload, taskVars>>
r5Vars == <<r5, isr, recvDone, errorStatus, request>>
a72Vars == <<a72, counter>>
fromPlm == <<plmReq, plmResp, plmIrq>>
fromCpu == <<cpuReq, cpuResp, cpuIrq>>
plmHistory == <<failures, misread>>
a72History == <<answered, restarts, stale>>
vars == <<setup, plmVars, r5Vars, a72Vars, fromPlm, fromCpu, plmHistory, a72History>>

plmSends == setup.plmSends

TaskPlaces == {"r5write", "r5trigger", "a72write", "a72trigger", "poll", "read"}
CommandPlaces == {"process", "respond", "acknowledge"}
R5Places == {"send", "trigger", "blocked", "response", "reset", "spin", "receive", "stopped"}
Sending == {"write", "trigger", "spin", "result"}
Handling == {"handler", "clear"}
A72Places == {"off", "start", "ready"} \union Sending \union Handling

(***************************************************************************)
(* The PLM sends before it loads the R5: the R5's request buffer holds the *)
(* initial counter.  Nobody has written the other buffers; it matters for  *)
(* the one that the PLM reads.                                             *)
(***************************************************************************)
Init ==
  /\ setup \in Setups
  /\ r5 = IF setup.r5 THEN "send" ELSE "stopped"
  /\ a72 = IF setup.a72 THEN "start" ELSE "off"
  /\ \E w \in Words : (plmSends \/ w = 0) /\ plmResp = [c \in Cpus |-> w]
  /\ plm = "idle" /\ source = "r5" /\ payload = 0
  /\ trip = [c \in Cpus |-> 0] /\ pass = 0 /\ waiting = FALSE
  /\ isr = "off" /\ recvDone = 0 /\ errorStatus = 0 /\ request = 0
  /\ counter = 0
  /\ plmReq = [c \in Cpus |-> 0]
  /\ plmIrq = [c \in Cpus |-> 0]
  /\ cpuReq = [c \in Cpus |-> 0]
  /\ cpuResp = [c \in Cpus |-> 0]
  /\ cpuIrq = [c \in Cpus |-> 0]
  /\ failures = 0 /\ misread = 0 /\ answered = 0 /\ restarts = 0 /\ stale = 0

----------------------------------------------------------------------------
(***************************************************************************)
(* The PLM: UserTask.                                                      *)
(***************************************************************************)
\* Mistake: a pass without a message is not counted.
EndPassUncounted ==
  /\ plm' = "idle"
  /\ pass' = IF pass = 0 THEN 1 % Passes ELSE pass

EndPass ==
  /\ plm' = "idle"
  /\ pass' = (pass + 1) % Passes

\* The scheduler runs the task.
UserTask ==
  /\ plm = "idle"
  /\ \/ pass = 0 /\ plm' = "r5write" /\ UNCHANGED pass
     \/ pass # 0 /\ waiting /\ plm' = "poll" /\ UNCHANGED pass
     \/ pass # 0 /\ ~waiting /\ EndPass
  /\ UNCHANGED <<setup, source, payload, trip, waiting, r5Vars, a72Vars,
                 fromPlm, fromCpu, plmHistory, a72History>>

\* What a step of UserTask leaves alone.
TaskStep == UNCHANGED <<setup, source, payload, r5Vars, a72Vars, fromCpu, a72History>>

\* XPlmi_IpiWrite or XPlmi_IpiTrigger reports a failure, which is printed.
Fails == setup.faults /\ failures < MaxFailures /\ failures' = failures + 1
Succeeds == failures' = failures

WriteTo(c) ==
  \/ Succeeds /\ plmReq' = [plmReq EXCEPT ![c] = trip[c]]
  \/ Fails /\ plmReq' = plmReq

WriteR5 ==
  /\ plm = "r5write" /\ plm' = "r5trigger"
  /\ WriteTo("r5")
  /\ TaskStep /\ UNCHANGED <<taskVars, plmResp, plmIrq, misread>>

TriggerCpu(c) ==
  \/ Succeeds /\ plmIrq' = [plmIrq EXCEPT ![c] = 1]
  \/ Fails /\ plmIrq' = plmIrq

TriggerR5 ==
  /\ plm = "r5trigger"
  /\ TriggerCpu("r5")
  /\ \/ plmSends /\ plm' = "a72write" /\ UNCHANGED pass
     \/ ~plmSends /\ EndPass
  /\ TaskStep /\ UNCHANGED <<trip, waiting, plmReq, plmResp, misread>>

WriteA72 ==
  /\ plm = "a72write" /\ plm' = "a72trigger"
  /\ WriteTo("a72")
  /\ TaskStep /\ UNCHANGED <<taskVars, plmResp, plmIrq, misread>>

TriggerA72 ==
  /\ plm = "a72trigger" /\ plm' = "poll"
  /\ TriggerCpu("a72")
  /\ waiting' = TRUE
  /\ TaskStep /\ UNCHANGED <<trip, pass, plmReq, plmResp, misread>>

PollForAck ==
  /\ plm = "poll"
  /\ \/ plmIrq["a72"] = 0 /\ plm' = "read" /\ UNCHANGED pass
     \/ plmIrq["a72"] = 1 /\ EndPass
  /\ TaskStep /\ UNCHANGED <<trip, waiting, fromPlm, plmHistory>>

\* Mistake: the counter is not incremented.
ReadResponseOnly ==
  /\ plm = "read"
  /\ Succeeds /\ trip' = [trip EXCEPT !["a72"] = plmResp["a72"]]
  /\ waiting' = FALSE
  /\ EndPass
  /\ TaskStep /\ UNCHANGED <<fromPlm, misread>>

\* The counter is incremented whether or not the response could be read.
ReadResponse ==
  /\ plm = "read"
  /\ \/ /\ Succeeds /\ misread' = IF answered = 1 THEN misread ELSE 1
        /\ trip' = [trip EXCEPT !["a72"] = Plus(plmResp["a72"], 1)]
     \/ /\ Fails /\ misread' = 1
        /\ trip' = [trip EXCEPT !["a72"] = Plus(@, 1)]
  /\ waiting' = FALSE
  /\ EndPass
  /\ TaskStep /\ UNCHANGED fromPlm

----------------------------------------------------------------------------
(***************************************************************************)
(* The PLM: a command.  The dispatcher reads the request, calls            *)
(* ProcessCmd, writes the response and acknowledges the interrupt.         *)
(***************************************************************************)
FetchCommand(c) ==
  /\ plm = "idle" /\ cpuIrq[c] = 1
  /\ source' = c /\ payload' = cpuReq[c]
  /\ plm' = "process"
  /\ UNCHANGED <<setup, taskVars, r5Vars, a72Vars, fromPlm, fromCpu, plmHistory, a72History>>

\* Mistake: the PLM's own counter is incremented, not the one received.
ProcessOwnCounter ==
  /\ plm = "process" /\ plm' = "respond"
  /\ trip' = [trip EXCEPT ![source] = Plus(@, 1)]
  /\ payload' = Plus(payload, 1)
  /\ UNCHANGED <<setup, source, pass, waiting, r5Vars, a72Vars, fromPlm, fromCpu,
                 plmHistory, a72History>>

ProcessCmd ==
  /\ plm = "process" /\ plm' = "respond"
  /\ trip' = [trip EXCEPT ![source] = Plus(payload, 1)]
  /\ payload' = Plus(payload, 1)
  /\ UNCHANGED <<setup, source, pass, waiting, r5Vars, a72Vars, fromPlm, fromCpu,
                 plmHistory, a72History>>

Respond ==
  /\ plm = "respond" /\ plm' = "acknowledge"
  /\ cpuResp' = [cpuResp EXCEPT ![source] = payload]
  /\ UNCHANGED <<setup, source, payload, taskVars, r5Vars, a72Vars, fromPlm, cpuReq, cpuIrq,
                 plmHistory, a72History>>

Acknowledge ==
  /\ plm = "acknowledge" /\ plm' = "idle"
  /\ cpuIrq' = [cpuIrq EXCEPT ![source] = 0]
  /\ source' = "r5" /\ payload' = 0
  /\ UNCHANGED <<setup, taskVars, r5Vars, a72Vars, fromPlm, cpuReq, cpuResp,
                 plmHistory, a72History>>

----------------------------------------------------------------------------
(***************************************************************************)
(* The R5.  Its main program stands still while the interrupt is served.   *)
(***************************************************************************)
R5Only ==
  UNCHANGED <<setup, plmVars, a72Vars, plmReq, plmResp, cpuResp, plmHistory, a72History>>

\* XMailbox_SendData, which writes the command, in whose place in the buffer
\* there is no counter now, ...
SendCommand ==
  /\ r5 = "send" /\ isr = "off" /\ r5' = "trigger"
  /\ cpuReq' = [cpuReq EXCEPT !["r5"] = Plus(request, 1)]
  /\ request' = 0
  /\ R5Only /\ UNCHANGED <<isr, recvDone, errorStatus, plmIrq, cpuIrq>>

\* ... triggers the interrupt ...
TriggerPlm ==
  /\ r5 = "trigger" /\ isr = "off" /\ r5' = "blocked"
  /\ cpuIrq' = [cpuIrq EXCEPT !["r5"] = 1]
  /\ R5Only /\ UNCHANGED <<isr, recvDone, errorStatus, request, plmIrq, cpuReq>>

\* ... and blocks until it is acknowledged.
Unblock ==
  /\ r5 = "blocked" /\ isr = "off" /\ cpuIrq["r5"] = 0 /\ r5' = "response"
  /\ R5Only /\ UNCHANGED <<isr, recvDone, errorStatus, request, plmIrq, cpuReq, cpuIrq>>

\* Only the status word of the response is looked at, and printed.
ReceiveResponse ==
  /\ r5 = "response" /\ isr = "off" /\ r5' = "reset"
  /\ R5Only /\ UNCHANGED <<isr, recvDone, errorStatus, request, plmIrq, cpuReq, cpuIrq>>

\* RequestBuffer[0] holds the command word here, which is not 0.
ResetFlags ==
  /\ r5 = "reset" /\ isr = "off" /\ r5' = "spin"
  /\ recvDone' = 0 /\ errorStatus' = 0
  /\ R5Only /\ UNCHANGED <<isr, request, plmIrq, cpuReq, cpuIrq>>

Awake ==
  /\ r5 = "spin" /\ isr = "off" /\ r5' = "receive"
  /\ recvDone = 1 \/ errorStatus = 1
  /\ R5Only /\ UNCHANGED <<isr, recvDone, errorStatus, request, plmIrq, cpuReq, cpuIrq>>

ReceiveRequest ==
  /\ r5 = "receive" /\ isr = "off" /\ r5' = "send"
  /\ request' = plmReq["r5"]
  /\ R5Only /\ UNCHANGED <<isr, recvDone, errorStatus, plmIrq, cpuReq, cpuIrq>>

\* A call of the mailbox fails, or its blocking times out: main returns.
R5Stops ==
  /\ r5 \in {"send", "blocked", "response", "receive"} /\ isr = "off" /\ r5' = "stopped"
  /\ R5Only /\ UNCHANGED <<isr, recvDone, errorStatus, request, plmIrq, cpuReq, cpuIrq>>

\* Mistake: the completions are counted.
DoneHandlerCounts ==
  /\ isr = "off" /\ plmIrq["r5"] = 1 /\ isr' = "clear"
  /\ recvDone' = recvDone + 1
  /\ R5Only /\ UNCHANGED <<r5, errorStatus, request, plmIrq, cpuReq, cpuIrq>>

\* The interrupt: the callback, then the library clears the bit.
DoneHandler ==
  /\ isr = "off" /\ plmIrq["r5"] = 1 /\ isr' = "clear"
  /\ recvDone' = 1
  /\ R5Only /\ UNCHANGED <<r5, errorStatus, request, plmIrq, cpuReq, cpuIrq>>

ClearInterrupt ==
  /\ isr = "clear" /\ isr' = "off"
  /\ plmIrq' = [plmIrq EXCEPT !["r5"] = 0]
  /\ R5Only /\ UNCHANGED <<r5, recvDone, errorStatus, request, cpuReq, cpuIrq>>

ErrorHandler ==
  /\ isr = "off" /\ errorStatus = 0 /\ errorStatus' = 1
  /\ R5Only /\ UNCHANGED <<r5, isr, recvDone, request, plmIrq, cpuReq, cpuIrq>>

R5Main ==
  SendCommand \/ TriggerPlm \/ Unblock \/ ReceiveResponse \/ ResetFlags \/ Awake \/ ReceiveRequest
R5Interrupt == DoneHandler \/ ClearInterrupt

----------------------------------------------------------------------------
(***************************************************************************)
(* The A72.                                                                *)
(***************************************************************************)
A72Only == UNCHANGED <<setup, plmVars, r5Vars, plmReq, cpuResp, plmHistory>>

\* init_ipi, and main up to its loop; no interrupt is cleared.
StartA72 ==
  /\ a72 = "start"
  /\ a72' = IF plmSends THEN "ready" ELSE "write"
  /\ counter' = 0
  /\ A72Only /\ UNCHANGED <<plmResp, plmIrq, cpuReq, cpuIrq, a72History>>

\* send_ipi_msg(trip_counter + 1); the command word is always the same.
WriteCommand ==
  /\ a72 = "write" /\ a72' = "trigger"
  /\ cpuReq' = [cpuReq EXCEPT !["a72"] = Plus(counter, 1)]
  /\ A72Only /\ UNCHANGED <<counter, plmResp, plmIrq, cpuIrq, a72History>>

TriggerCommand ==
  /\ a72 = "trigger" /\ a72' = "spin"
  /\ cpuIrq' = [cpuIrq EXCEPT !["a72"] = 1]
  /\ A72Only /\ UNCHANGED <<counter, plmResp, plmIrq, cpuReq, a72History>>

\* Mistakes: the wait is left out, or waits for an interrupt in return.
NotObserved == TRUE
InterruptInReturn == plmIrq["a72"] = 1

Observed == cpuIrq["a72"] = 0

SpinEnds ==
  /\ a72 = "spin" /\ a72' = "result"
  /\ Observed
  /\ A72Only /\ UNCHANGED <<counter, plmResp, plmIrq, cpuReq, cpuIrq, a72History>>

TakeResult ==
  /\ a72 = "result" /\ a72' = "write"
  /\ counter' = cpuResp["a72"]
  /\ stale' = IF cpuResp["a72"] = Plus(counter, 2) THEN stale ELSE stale + 1
  /\ A72Only /\ UNCHANGED <<plmResp, plmIrq, cpuReq, cpuIrq, answered, restarts>>

\* Mistake: the interrupt is cleared before the response is written.
HandlerReadAndClear ==
  /\ a72 = "ready" /\ plmIrq["a72"] = 1 /\ a72' = "handler"
  /\ counter' = plmReq["a72"]
  /\ plmIrq' = [plmIrq EXCEPT !["a72"] = 0]
  /\ A72Only /\ UNCHANGED <<plmResp, cpuReq, cpuIrq, a72History>>

\* _ipi_irq_handler.
HandlerRead ==
  /\ a72 = "ready" /\ plmIrq["a72"] = 1 /\ a72' = "handler"
  /\ counter' = plmReq["a72"]
  /\ A72Only /\ UNCHANGED <<plmResp, plmIrq, cpuReq, cpuIrq, a72History>>

HandlerAnswer ==
  /\ a72 = "handler" /\ a72' = "clear"
  /\ plmResp' = [plmResp EXCEPT !["a72"] = Plus(counter, 1)]
  /\ answered' = 1
  /\ A72Only /\ UNCHANGED <<counter, plmIrq, cpuReq, cpuIrq, restarts, stale>>

HandlerClear ==
  /\ a72 = "clear" /\ a72' = "ready"
  /\ plmIrq' = [plmIrq EXCEPT !["a72"] = 0]
  /\ counter' = 0
  /\ A72Only /\ UNCHANGED <<plmResp, cpuReq, cpuIrq, a72History>>

\* The process is killed; what it has triggered stays triggered.
Killed ==
  /\ a72 \notin {"off", "start"} /\ a72' = "start"
  /\ setup.faults /\ restarts < MaxRestarts /\ restarts' = restarts + 1
  /\ counter' = 0
  /\ A72Only /\ UNCHANGED <<plmResp, plmIrq, cpuReq, cpuIrq, answered, stale>>

A72Sender == WriteCommand \/ TriggerCommand \/ SpinEnds \/ TakeResult
A72Handler == HandlerRead \/ HandlerAnswer \/ HandlerClear
A72Main == StartA72 \/ A72Sender \/ A72Handler

----------------------------------------------------------------------------
TaskRest == WriteR5 \/ TriggerR5 \/ WriteA72 \/ TriggerA72 \/ PollForAck \/ ReadResponse
CommandRest == ProcessCmd \/ Respond \/ Acknowledge

Plm == UserTask \/ TaskRest \/ (\E c \in Cpus : FetchCommand(c)) \/ CommandRest
R5 == R5Main \/ R5Interrupt \/ ErrorHandler \/ R5Stops
A72 == A72Main \/ Killed

Next == Plm \/ R5 \/ A72

Spec == Init /\ [][Next]_vars

(***************************************************************************)
(* The PLM finishes what it has begun and gets round to the periodic task  *)
(* and to each pending command; the two programs and the interrupt of the  *)
(* R5 go on.                                                               *)
(***************************************************************************)
Fairness ==
  /\ WF_vars(TaskRest \/ CommandRest) /\ SF_vars(UserTask)
  /\ \A c \in Cpus : SF_vars(FetchCommand(c))
  /\ SF_vars(R5Main) /\ WF_vars(R5Interrupt)
  /\ WF_vars(A72Main)

FairSpec == Spec /\ Fairness

----------------------------------------------------------------------------
(***************************************************************************)
(* The type invariant; a trip counter stays a word.                        *)
(***************************************************************************)
TypeOK ==
  /\ setup \in Setups /\ waiting \in BOOLEAN /\ misread \in {0, 1} /\ answered \in {0, 1}
  /\ plm \in {"idle"} \union TaskPlaces \union CommandPlaces
  /\ source \in Cpus /\ payload \in Words
  /\ trip \in [Cpus -> Words] /\ pass \in 0 .. Passes - 1
  /\ r5 \in R5Places /\ isr \in {"off", "clear"}
  /\ recvDone \in {0, 1} /\ errorStatus \in {0, 1} /\ request \in Words
  /\ a72 \in A72Places /\ counter \in Words
  /\ plmReq \in [Cpus -> Words] /\ plmResp \in [Cpus -> Words] /\ plmIrq \in [Cpus -> {0, 1}]
  /\ cpuReq \in [Cpus -> Words] /\ cpuResp \in [Cpus -> Words] /\ cpuIrq \in [Cpus -> {0, 1}]
  /\ failures \in 0 .. MaxFailures /\ restarts \in 0 .. MaxRestarts /\ stale \in Nat

(***************************************************************************)
(* The counter that goes round between the PLM and the R5 advances by the  *)
(* two increments of a whole trip or stays: a message that is read twice,  *)
(* overwritten before it is read, not sent although the call failed, or    *)
(* read after an error interrupt neither sets it back nor lets it jump     *)
(* (user_ipi_demo.c lines 59-63, 147-151; xilmailbox_example.c 77-109).    *)
(***************************************************************************)
R5TripForward == [][trip'["r5"] \in {trip["r5"], Plus(trip["r5"], 2)}]_vars

(***************************************************************************)
(* The same for the counter that the PLM sends to the A72, although it is  *)
(* sent again while the handler may be anywhere, or killed there, and      *)
(* although a write or a trigger may fail; but not once a response could   *)
(* not be read, or was before there was one (user_ipi_demo.c lines         *)
(* 217-249).                                                               *)
(***************************************************************************)
A72TripForward ==
  [][plmSends /\ misread' = 0 => trip'["a72"] \in {trip["a72"], Plus(trip["a72"], 2)}]_vars

(***************************************************************************)
(* As long as none of its calls has failed, the PLM only takes a response  *)
(* that answers the counter it has sent (user_ipi_demo.c lines 236-249).   *)
(***************************************************************************)
AnswerGenuine ==
  [][waiting /\ ~waiting' /\ failures' = 0 => trip'["a72"] = Plus(trip["a72"], 2)]_vars

(***************************************************************************)
(* The other way round, when the clear of the PLM's interrupt says that    *)
(* the response is valid, it is the one to this very command, except once  *)
(* after each restart of the program (libmetal-linux-ipi-demo.c lines      *)
(* 153-178).                                                               *)
(***************************************************************************)
StaleBounded == stale <= restarts

(***************************************************************************)
(* However wake-ups are lost, the counter of the R5 goes on for ever,      *)
(* unless the R5 has stopped.                                              *)
(***************************************************************************)
R5TripGoesOn == []<><<trip'["r5"] # trip["r5"]>>_vars \/ <>(r5 = "stopped")

(***************************************************************************)
(* The spin of the A72, which has no timeout, ends, although the PLM has   *)
(* its task and the commands of the R5 to run as well                      *)
(* (libmetal-linux-ipi-demo.c lines 166-174).                              *)
(***************************************************************************)
SenderReleased == a72 = "spin" ~> a72 # "spin"
=============================================================================
