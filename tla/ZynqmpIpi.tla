----------------------------- MODULE ZynqmpIpi -----------------------------
(***************************************************************************)
(* The IPI messaging demonstration of Zynq UltraScale+                     *)
(* (zynqmp-ipi-messaging/Software).  Every five seconds the PMU firmware   *)
(* module sends a counter to each of the other processors in turn and      *)
(* polls for the acknowledgement; each processor copies the request to its *)
(* response buffer from an interrupt and then clears the interrupt, which  *)
(* is the acknowledgement.                                                 *)
(*                                                                         *)
(* The PMU gives up a poll after 100 tries, and nothing tells the other    *)
(* side: the handler of the missed message may run, or still be running,   *)
(* when the next message is written to the same buffer.                    *)
(*                                                                         *)
(* The five responders run four programs with one handler: read, respond,  *)
(* clear.  The one on RPU1 uses XMailbox, whose calls may fail and make it *)
(* return without a response.  The IPI hardware is external: a request and *)
(* a response buffer per pair of processors and an interrupt bit, which    *)
(* the sender sees as "observation" and the receiver as "status".          *)
(***************************************************************************)
EXTENDS Integers

CONSTANTS
  Channels,    \* CHANNELS: channel[] is indexed 1 .. Channels here
  Mailboxes,   \* the channels answered through XMailbox (RPU1)
  RespRange,   \* 2^16: a response is compared modulo RespRange
  MaxRounds,   \* bound on cnt
  MaxFaults    \* bound on the timeouts and errors of each channel, and of the PMU

ASSUME ChannelsAssumption == Channels \in Nat \ {0} /\ Mailboxes \subseteq 1 .. Channels
ASSUME RangesAssumption == RespRange \in Nat \ {0} /\ MaxRounds \in Nat /\ MaxFaults \in Nat

Idx == 1 .. Channels
Words == 0 .. MaxRounds          \* what the buffers are seen to hold
LowHalf(word) == word % RespRange

VARIABLES
  cnt,        \* cnt of the PMU module
  init,       \* channel[].init
  pc,         \* where XPfw_SendIpi is; "idle" between two of its runs
  idx,        \* its loop variable
  initMsg,    \* the processor's message to the PMU is pending
  req,        \* request buffer, PMU to processor
  resp,       \* response buffer
  irq,        \* status bit of the processor, observation bit of the PMU
  at,         \* where the processor is
  tmp,        \* TmpBufPtr of its handler
  (*************************************************************************)
  (* History of the exchange, read by the properties only.                 *)
  (*************************************************************************)
  sent,       \* the channels triggered in this round
  received,   \* the channels whose response was accepted in this round
  handled,    \* a handler has read the message last written to the channel
  timeouts,   \* polls of the channel given up
  errors,     \* handlers of the channel that returned without a response
  invalid,    \* responses rejected although the counter was in range
  calls       \* PMU library calls that failed

pmuVars == <<cnt, init, pc, idx, initMsg>>
ipiVars == <<req, resp, irq>>
cpuVars == <<at, tmp>>
roundVars == <<sent, received>>
faultVars == <<timeouts, errors, invalid, calls>>
vars == <<pmuVars, ipiVars, cpuVars, roundVars, handled, faultVars>>

Locations == {"idle", "write", "trigger", "poll", "read"}
Handling == {"read", "respond", "clear"}
Places == {"off", "enabled", "wfi"} \union Handling

(***************************************************************************)
(* The message buffers are RAM nobody clears; a request is only read after *)
(* it has been written, so only the response is left open.                 *)
(***************************************************************************)
Init ==
  /\ cnt = 0 /\ pc = "idle" /\ idx = 1
  /\ init = [i \in Idx |-> 0]
  /\ initMsg = [i \in Idx |-> "none"]
  /\ req = [i \in Idx |-> 0]
  /\ resp \in [Idx -> Words]
  /\ irq = [i \in Idx |-> 0]
  /\ at = [i \in Idx |-> "off"]
  /\ tmp = [i \in Idx |-> 0]
  /\ sent = {} /\ received = {}
  /\ handled = [i \in Idx |-> 0]
  /\ timeouts = [i \in Idx |-> 0]
  /\ errors = [i \in Idx |-> 0]
  /\ invalid = [i \in Idx |-> 0]
  /\ calls = 0

----------------------------------------------------------------------------
(***************************************************************************)
(* The PMU.                                                                *)
(***************************************************************************)

\* Mutant: the loop stops one short, the last channel is never initialised.
IpiHandlerShort(i) ==
  /\ initMsg[i] = "pending"
  /\ initMsg' = [initMsg EXCEPT ![i] = "taken"]
  /\ init' = IF i < Channels THEN [init EXCEPT ![i] = 1] ELSE init
  /\ UNCHANGED <<cnt, pc, idx, ipiVars, cpuVars, roundVars, handled, faultVars>>

\* The initialisation message of processor i reaches the module's IpiHandler,
\* at any moment: it runs from the PMU's interrupt.
IpiHandler(i) ==
  /\ initMsg[i] = "pending"
  /\ initMsg' = [initMsg EXCEPT ![i] = "taken"]
  /\ init' = [init EXCEPT ![i] = 1]
  /\ UNCHANGED <<cnt, pc, idx, ipiVars, cpuVars, roundVars, handled, faultVars>>

AllInit == \A i \in Idx : init[i] = 1

\* The scheduler runs XPfw_SendIpi, which starts on the first channel.
StartRound ==
  /\ pc = "idle" /\ AllInit
  /\ cnt < MaxRounds
  /\ pc' = "write" /\ idx' = 1
  /\ sent' = {} /\ received' = {}
  /\ UNCHANGED <<cnt, init, initMsg, ipiVars, cpuVars, handled, faultVars>>

\* It returns at once when a channel is not initialised.  (Here also when
\* the bound on rounds is reached.)
SkipRound ==
  /\ pc = "idle"
  /\ \/ ~AllInit
     \/ cnt = MaxRounds
  /\ UNCHANGED vars

WriteMessage ==
  /\ pc = "write"
  /\ req' = [req EXCEPT ![idx] = cnt]
  /\ handled' = [handled EXCEPT ![idx] = 0]
  /\ pc' = "trigger"
  /\ UNCHANGED <<cnt, init, idx, initMsg, resp, irq, cpuVars, roundVars, faultVars>>

Trigger ==
  /\ pc = "trigger"
  /\ irq' = [irq EXCEPT ![idx] = 1]
  /\ sent' = sent \union {idx}
  /\ pc' = "poll"
  /\ UNCHANGED <<cnt, init, idx, initMsg, req, resp, cpuVars, received, handled, faultVars>>

PollForAck ==
  /\ pc = "poll" /\ irq[idx] = 0
  /\ pc' = "read"
  /\ UNCHANGED <<cnt, init, idx, initMsg, ipiVars, cpuVars, roundVars, handled, faultVars>>

\* break, or the end of the loop; then cnt++.
EndRound ==
  /\ pc' = "idle" /\ idx' = 1
  /\ cnt' = cnt + 1

PollTimeout ==
  /\ pc = "poll" /\ irq[idx] = 1
  /\ timeouts[idx] < MaxFaults
  /\ timeouts' = [timeouts EXCEPT ![idx] = @ + 1]
  /\ EndRound
  /\ UNCHANGED <<init, initMsg, ipiVars, cpuVars, roundVars, handled, errors, invalid, calls>>

\* Mutant: the response is not compared.
AnyAnswer(i) == i \in Idx

Answers(i) == LowHalf(resp[i]) = cnt

\* Mutant: the loop runs one channel too far.
AdvanceBeyond ==
  IF idx <= Channels
  THEN idx' = idx + 1 /\ pc' = "write" /\ UNCHANGED cnt
  ELSE EndRound

AdvanceChannel ==
  IF idx < Channels
  THEN idx' = idx + 1 /\ pc' = "write" /\ UNCHANGED cnt
  ELSE EndRound

\* XPfw_IpiReadResponse and the comparison.
Accept ==
  /\ pc = "read" /\ Answers(idx)
  /\ received' = received \union {idx}
  /\ AdvanceChannel
  /\ UNCHANGED <<init, initMsg, ipiVars, cpuVars, sent, handled, faultVars>>

Reject ==
  /\ pc = "read" /\ ~Answers(idx)
  /\ invalid' = [invalid EXCEPT ![idx] = IF cnt < RespRange THEN @ + 1 ELSE @]
  /\ EndRound
  /\ UNCHANGED <<init, initMsg, ipiVars, cpuVars, roundVars, handled, timeouts, errors, calls>>

\* XPfw_IpiWriteMessage, XPfw_IpiTrigger or XPfw_IpiReadResponse fails.
CallFails ==
  /\ pc \in {"write", "trigger", "read"}
  /\ calls < MaxFaults
  /\ calls' = calls + 1
  /\ EndRound
  /\ UNCHANGED <<init, initMsg, ipiVars, cpuVars, roundVars, handled, timeouts, errors, invalid>>

\* A step of a run of XPfw_SendIpi that has begun.
SendIpi == WriteMessage \/ Trigger \/ PollForAck \/ Accept \/ Reject

----------------------------------------------------------------------------
(***************************************************************************)
(* The other processors.                                                   *)
(***************************************************************************)

\* main enables the interrupt, and clears what is pending, ...
EnableIpi(i) ==
  /\ at[i] = "off"
  /\ irq' = [irq EXCEPT ![i] = 0]
  /\ at' = [at EXCEPT ![i] = "enabled"]
  /\ UNCHANGED <<pmuVars, req, resp, tmp, roundVars, handled, faultVars>>

\* ... then introduces itself to the PMU and waits for interrupts.
SendInit(i) ==
  /\ at[i] = "enabled"
  /\ initMsg' = [initMsg EXCEPT ![i] = "pending"]
  /\ at' = [at EXCEPT ![i] = "wfi"]
  /\ UNCHANGED <<cnt, init, pc, idx, ipiVars, tmp, roundVars, handled, faultVars>>

HandlerEnter(i) ==
  /\ at[i] = "wfi" /\ irq[i] = 1
  /\ at' = [at EXCEPT ![i] = "read"]
  /\ UNCHANGED <<pmuVars, ipiVars, tmp, roundVars, handled, faultVars>>

\* Mutant: the interrupt is cleared before the response is written.
HandlerReadAndClear(i) ==
  /\ at[i] = "read"
  /\ tmp' = [tmp EXCEPT ![i] = req[i]]
  /\ irq' = [irq EXCEPT ![i] = 0]
  /\ handled' = [handled EXCEPT ![i] = 1]
  /\ at' = [at EXCEPT ![i] = "respond"]
  /\ UNCHANGED <<pmuVars, req, resp, roundVars, faultVars>>

HandlerRead(i) ==
  /\ at[i] = "read"
  /\ tmp' = [tmp EXCEPT ![i] = req[i]]
  /\ handled' = [handled EXCEPT ![i] = 1]
  /\ at' = [at EXCEPT ![i] = "respond"]
  /\ UNCHANGED <<pmuVars, ipiVars, roundVars, faultVars>>

HandlerRespond(i) ==
  /\ at[i] = "respond"
  /\ resp' = [resp EXCEPT ![i] = tmp[i]]
  /\ at' = [at EXCEPT ![i] = "clear"]
  /\ UNCHANGED <<pmuVars, req, irq, tmp, roundVars, handled, faultVars>>

HandlerClear(i) ==
  /\ at[i] = "clear"
  /\ irq' = [irq EXCEPT ![i] = 0]
  /\ at' = [at EXCEPT ![i] = "wfi"]
  /\ UNCHANGED <<pmuVars, req, resp, tmp, roundVars, handled, faultVars>>

\* XMailbox_Recv or XMailbox_SendData fails: MailboxHandler returns and the
\* library still clears the interrupt.
MailboxFails(i) ==
  /\ i \in Mailboxes
  /\ at[i] \in {"read", "respond"}
  /\ errors[i] < MaxFaults
  /\ errors' = [errors EXCEPT ![i] = @ + 1]
  /\ at' = [at EXCEPT ![i] = "clear"]
  /\ UNCHANGED <<pmuVars, ipiVars, tmp, roundVars, handled, timeouts, invalid, calls>>

Handler(i) == HandlerEnter(i) \/ HandlerRead(i) \/ HandlerRespond(i) \/ HandlerClear(i)
Boot(i) == EnableIpi(i) \/ SendInit(i)

----------------------------------------------------------------------------
Pmu == StartRound \/ SkipRound \/ SendIpi \/ PollTimeout \/ CallFails
Processor(i) == IpiHandler(i) \/ Boot(i) \/ Handler(i) \/ MailboxFails(i)

Next == Pmu \/ \E i \in Idx : Processor(i)

Spec == Init /\ [][Next]_vars

(***************************************************************************)
(* The PMU's scheduler and its code go on, and so do the processors'.      *)
(***************************************************************************)
Fairness ==
  /\ WF_vars(StartRound) /\ WF_vars(SendIpi)
  /\ \A i \in Idx : WF_vars(IpiHandler(i)) /\ WF_vars(Boot(i)) /\ WF_vars(Handler(i))

FairSpec == Spec /\ Fairness

----------------------------------------------------------------------------
(***************************************************************************)
(* The variables have their types: cnt stays in its bound and idx inside   *)
(* channel[].                                                              *)
(***************************************************************************)
TypeOK ==
  /\ cnt \in Words /\ pc \in Locations /\ idx \in Idx
  /\ init \in [Idx -> {0, 1}]
  /\ initMsg \in [Idx -> {"none", "pending", "taken"}]
  /\ req \in [Idx -> Words] /\ resp \in [Idx -> Words] /\ tmp \in [Idx -> Words]
  /\ irq \in [Idx -> {0, 1}] /\ handled \in [Idx -> {0, 1}]
  /\ at \in [Idx -> Places]
  /\ sent \subseteq Idx /\ received \subseteq Idx
  /\ timeouts \in [Idx -> Nat] /\ errors \in [Idx -> Nat] /\ invalid \in [Idx -> Nat]
  /\ calls \in Nat

(***************************************************************************)
(* "Received message number cnt" is only said of a channel whose processor *)
(* has read this very message, however late the handlers of earlier        *)
(* messages run: an answer left over from before a timeout never passes    *)
(* the comparison.  (A mailbox that acknowledged without responding leaves *)
(* the response to whatever is in the buffer.)                             *)
(***************************************************************************)
ReceivedGenuine == \A i \in received : errors[i] = 0 => handled[i] = 1

(***************************************************************************)
(* A late handler spoils at most one later message: as long as the counter *)
(* is in range, every rejected response of a channel is paid for by a      *)
(* timeout or a failed handler of the same channel.                        *)
(***************************************************************************)
RejectsBounded == \A i \in Idx : invalid[i] <= timeouts[i] + errors[i]

(***************************************************************************)
(* "Send IPI Message to each channel": a run of XPfw_SendIpi in which      *)
(* nothing has ever gone wrong triggers every channel.                     *)
(***************************************************************************)
NothingFailed == calls = 0 /\ \A i \in Idx : timeouts[i] = 0 /\ errors[i] = 0
EachChannelSent == (pc = "idle" /\ cnt > 0 /\ NothingFailed) => sent = Idx

(***************************************************************************)
(* The processors introduce themselves, the rounds begin and none of them  *)
(* hangs: the counter reaches its bound.                                   *)
(***************************************************************************)
RoundsProceed == <>(cnt = MaxRounds)
=============================================================================
