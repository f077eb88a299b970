-------------------------- MODULE ZynqmpIpiProofs --------------------------
(***************************************************************************)
(* Proofs about ZynqmpIpi, for every number of channels, rounds, timeouts  *)
(* and failed calls.                                                       *)
(***************************************************************************)
EXTENDS ZynqmpIpi, TLAPS

(***************************************************************************)
(* The low half of a number is never above it, and is the number itself    *)
(* when it is in range.                                                    *)
(***************************************************************************)
LEMMA LowHalfSmall ==
  ASSUME NEW w \in Nat
  PROVE  /\ LowHalf(w) \in Nat /\ LowHalf(w) <= w
         /\ w < RespRange => LowHalf(w) = w
BY RangesAssumption DEF LowHalf

(***************************************************************************)
(* TypeOK is inductive together with the bound under which a round starts. *)
(***************************************************************************)
TypeInv == TypeOK /\ (pc # "idle" => cnt < MaxRounds)

(***************************************************************************)
(* The end of a round leaves the loop variables and the counter in range.  *)
(***************************************************************************)
LEMMA EndOfRound ==
  ASSUME TypeInv, pc # "idle", EndRound
  PROVE  cnt' \in Words /\ pc' = "idle" /\ idx' \in Idx
<1>1. cnt' \in Words /\ pc' = "idle"
  BY RangesAssumption DEF TypeInv, TypeOK, EndRound, Words
<1>2. idx' \in Idx
  BY ChannelsAssumption DEF EndRound, Idx
<1> QED BY <1>1, <1>2

(***************************************************************************)
(* A counter of one channel stays a counter when it goes up by one.        *)
(***************************************************************************)
LEMMA CountUp ==
  ASSUME NEW f \in [Idx -> Nat], NEW i \in Idx
  PROVE  [f EXCEPT ![i] = @ + 1] \in [Idx -> Nat]
OBVIOUS

(***************************************************************************)
(* Every step keeps the types.                                             *)
(***************************************************************************)
LEMMA TypeStep == TypeInv /\ [Next]_vars => TypeInv'
<1> SUFFICES ASSUME TypeInv, [Next]_vars PROVE TypeInv'
  OBVIOUS
<1> USE ChannelsAssumption, RangesAssumption
    DEF TypeInv, TypeOK, Idx, Words, Locations, Places, Handling,
        pmuVars, ipiVars, cpuVars, roundVars, faultVars
<1>1. CASE UNCHANGED vars
  BY <1>1 DEF vars
<1>2. CASE Pmu
  <2>1. CASE StartRound BY <2>1 DEF StartRound
  <2>2. CASE SkipRound BY <2>2 DEF SkipRound, vars
  <2>3. CASE WriteMessage BY <2>3 DEF WriteMessage
  <2>4. CASE Trigger BY <2>4 DEF Trigger
  <2>5. CASE PollForAck BY <2>5 DEF PollForAck
  <2>6. CASE Accept
    <3>1. CASE idx < Channels
      <4>1. idx' \in Idx /\ pc' = "write" /\ cnt' = cnt
        BY <2>6, <3>1 DEF Accept, AdvanceChannel
      <4> QED BY <2>6, <4>1 DEF Accept
    <3>2. CASE ~(idx < Channels) BY <2>6, <3>2, EndOfRound DEF Accept, AdvanceChannel
    <3> QED BY <3>1, <3>2
  <2>7. CASE Reject
    <3>1. invalid' \in [Idx -> Nat]
      <4>1. CASE cnt < RespRange BY <2>7, <4>1, CountUp DEF Reject
      <4>2. CASE ~(cnt < RespRange) BY <2>7, <4>2 DEF Reject
      <4> QED BY <4>1, <4>2
    <3> QED BY <2>7, <3>1, EndOfRound DEF Reject
  <2>8. CASE PollTimeout
    <3>1. timeouts' \in [Idx -> Nat]
      BY <2>8, CountUp DEF PollTimeout
    <3> QED BY <2>8, <3>1, EndOfRound DEF PollTimeout
  <2>9. CASE CallFails
    <3>1. calls' \in Nat /\ pc # "idle"
      BY <2>9 DEF CallFails
    <3> QED BY <2>9, <3>1, EndOfRound DEF CallFails
  <2> QED
    BY <1>2, <2>1, <2>2, <2>3, <2>4, <2>5, <2>6, <2>7, <2>8, <2>9 DEF Pmu, SendIpi
<1>3. ASSUME NEW i \in Idx, Processor(i) PROVE TypeInv'
  <2>1. CASE IpiHandler(i) BY <2>1 DEF IpiHandler
  <2>2. CASE Boot(i) BY <2>2 DEF Boot, EnableIpi, SendInit
  <2>3. CASE HandlerEnter(i) BY <2>3 DEF HandlerEnter
  <2>4. CASE HandlerRead(i) BY <2>4 DEF HandlerRead
  <2>5. CASE HandlerRespond(i) BY <2>5 DEF HandlerRespond
  <2>6. CASE HandlerClear(i) BY <2>6 DEF HandlerClear
  <2>7. CASE MailboxFails(i)
    <3>1. errors' \in [Idx -> Nat]
      BY <2>7, CountUp DEF MailboxFails
    <3> QED BY <2>7, <3>1 DEF MailboxFails
  <2> QED
    BY <1>3, <2>1, <2>2, <2>3, <2>4, <2>5, <2>6, <2>7 DEF Processor, Handler
<1> QED
  BY <1>1, <1>2, <1>3 DEF Next

(***************************************************************************)
(* Type correctness of the exchange, for every value of the constants.     *)
(***************************************************************************)
THEOREM TypeCorrect == Spec => []TypeOK
<1>1. Init => TypeInv
  BY ChannelsAssumption, RangesAssumption
  DEF Init, TypeInv, TypeOK, Idx, Words, Locations, Places, Handling
<1>2. TypeInv => TypeOK
  BY DEF TypeInv
<1> QED
  BY <1>1, <1>2, TypeStep, PTL DEF Spec

(***************************************************************************)
(* How the two sides of channel j stand to each other.  A handler that is  *)
(* in progress has its interrupt pending; a processor that is not ready    *)
(* has not been heard of; the request of the round is in the buffer until  *)
(* the PMU moves on; and the channels already served are quiet.            *)
(***************************************************************************)
Control(j) ==
  /\ at[j] \in Handling => irq[j] = 1
  /\ at[j] \in {"off", "enabled"} => initMsg[j] = "none" /\ init[j] = 0
  /\ pc # "idle" => init[j] = 1
  /\ idx = j /\ pc \in {"trigger", "poll", "read"} => req[j] = cnt
  /\ idx = j /\ pc = "read" => irq[j] = 0
  /\ pc # "idle" /\ j < idx => irq[j] = 0

ControlInv == \A j \in Idx : Control(j)

(***************************************************************************)
(* Every step keeps Control.                                               *)
(***************************************************************************)
LEMMA ControlStep == TypeInv /\ ControlInv /\ [Next]_vars => ControlInv'
<1> SUFFICES ASSUME TypeInv, ControlInv, [Next]_vars, NEW j \in Idx
             PROVE  Control(j)'
  BY DEF ControlInv
<1> USE DEF TypeInv, TypeOK, Handling, pmuVars, ipiVars, cpuVars, roundVars
<1>0. Control(j) /\ Control(idx)
  BY DEF ControlInv
<1> USE <1>0 DEF Control
<1>1. CASE UNCHANGED vars
  BY <1>1 DEF vars
<1>2. CASE Pmu
  <2>1. CASE StartRound
    <3>1. init[j] = 1 /\ ~(j < idx')
      BY <2>1 DEF StartRound, AllInit, Idx
    <3> QED BY <2>1, <3>1 DEF StartRound
  <2>2. CASE SkipRound BY <2>2 DEF SkipRound, vars
  <2>3. CASE WriteMessage BY <2>3 DEF WriteMessage
  <2>4. CASE Trigger
    <3>1. idx \in Int /\ j \in Int
      BY ChannelsAssumption DEF Idx
    <3> QED BY <2>4, <3>1 DEF Trigger
  <2>5. CASE PollForAck BY <2>5 DEF PollForAck
  <2>6. CASE Accept
    <3>1. CASE idx < Channels
      <4>1. /\ idx' = idx + 1 /\ pc' = "write" /\ cnt' = cnt
            /\ UNCHANGED <<init, initMsg, req, irq, at>>
        BY <2>6, <3>1 DEF Accept, AdvanceChannel
      <4>2. j < idx' => j < idx \/ j = idx
        BY <4>1, ChannelsAssumption DEF Idx
      <4>3. pc = "read"
        BY <2>6 DEF Accept
      <4> QED BY <4>1, <4>2, <4>3
    <3>2. CASE ~(idx < Channels) BY <2>6, <3>2 DEF Accept, AdvanceChannel, EndRound
    <3> QED BY <3>1, <3>2
  <2>7. CASE Reject BY <2>7 DEF Reject, EndRound
  <2>8. CASE PollTimeout BY <2>8 DEF PollTimeout, EndRound
  <2>9. CASE CallFails BY <2>9 DEF CallFails, EndRound
  <2> QED
    BY <1>2, <2>1, <2>2, <2>3, <2>4, <2>5, <2>6, <2>7, <2>8, <2>9 DEF Pmu, SendIpi
<1>3. ASSUME NEW i \in Idx, Processor(i) PROVE Control(j)'
  <2>1. CASE IpiHandler(i) BY <2>1 DEF IpiHandler
  <2>2. CASE EnableIpi(i) BY <2>2 DEF EnableIpi
  <2>3. CASE SendInit(i) BY <2>3 DEF SendInit
  <2>4. CASE HandlerEnter(i) BY <2>4 DEF HandlerEnter
  <2>5. CASE HandlerRead(i) BY <2>5 DEF HandlerRead
  <2>6. CASE HandlerRespond(i) BY <2>6 DEF HandlerRespond
  <2>7. CASE HandlerClear(i) BY <2>7 DEF HandlerClear
  <2>8. CASE MailboxFails(i) BY <2>8 DEF MailboxFails
  <2> QED
    BY <1>3, <2>1, <2>2, <2>3, <2>4, <2>5, <2>6, <2>7, <2>8 DEF Processor, Handler, Boot
<1> QED
  BY <1>1, <1>2, <1>3 DEF Next

(***************************************************************************)
(* TypeInv and Control hold throughout.                                    *)
(***************************************************************************)
LEMMA ControlHolds == Spec => [](TypeInv /\ ControlInv)
<1>1. Init => TypeInv
  BY ChannelsAssumption, RangesAssumption
  DEF Init, TypeInv, TypeOK, Idx, Words, Locations, Places, Handling
<1>2. Init => ControlInv
  BY DEF Init, ControlInv, Control, Handling
<1> QED
  BY <1>1, <1>2, TypeStep, ControlStep, PTL DEF Spec

(***************************************************************************)
(* What channel j still owes.  A rejected response has to be paid for, so  *)
(* wherever one may come from, a timeout or an error must be left over:    *)
(* an interrupt pending outside the poll, a handler that read before the   *)
(* message was written, an acknowledgement without the response.           *)
(***************************************************************************)
Owing(j) == invalid[j] < timeouts[j] + errors[j]

Debt(j) ==
  /\ invalid[j] <= timeouts[j] + errors[j]
  /\ irq[j] = 1 /\ ~(pc = "poll" /\ idx = j) => Owing(j)
  /\ irq[j] = 1 /\ pc = "poll" /\ idx = j =>
        \/ Owing(j)
        \/ at[j] \in {"wfi", "read"}
        \/ at[j] = "respond" /\ tmp[j] = cnt
        \/ at[j] = "clear" /\ resp[j] = cnt
  /\ irq[j] = 0 /\ pc \in {"poll", "read"} /\ idx = j => Owing(j) \/ resp[j] = cnt

DebtInv == \A j \in Idx : Debt(j)

(***************************************************************************)
(* Every step keeps the accounts.                                          *)
(***************************************************************************)
LEMMA DebtStep ==
  TypeInv /\ ControlInv /\ DebtInv /\ [Next]_vars => DebtInv'
<1> SUFFICES ASSUME TypeInv, ControlInv, DebtInv, [Next]_vars, NEW j \in Idx
             PROVE  Debt(j)'
  BY DEF DebtInv
<1>0. Debt(j) /\ Control(j)
  BY DEF DebtInv, ControlInv
<1>t. /\ timeouts[j] \in Nat /\ errors[j] \in Nat /\ invalid[j] \in Nat
      /\ irq[j] \in {0, 1} /\ at[j] \in Places /\ cnt \in Nat /\ idx \in Idx
      /\ irq \in [Idx -> {0, 1}] /\ at \in [Idx -> Places]
      /\ tmp \in [Idx -> Words] /\ resp \in [Idx -> Words]
      /\ invalid \in [Idx -> Nat] /\ timeouts \in [Idx -> Nat] /\ errors \in [Idx -> Nat]
  BY RangesAssumption DEF TypeInv, TypeOK, Words
<1> USE <1>0, <1>t DEF Debt, Owing, Control, Places, Handling,
                       pmuVars, ipiVars, cpuVars, roundVars
<1>1. CASE UNCHANGED vars
  BY <1>1 DEF vars, faultVars
<1>2. CASE Pmu
  <2>1. CASE StartRound BY <2>1 DEF StartRound, faultVars
  <2>2. CASE SkipRound BY <2>2 DEF SkipRound, vars, faultVars
  <2>3. CASE WriteMessage BY <2>3 DEF WriteMessage, faultVars
  <2>4. CASE Trigger BY <2>4 DEF Trigger, faultVars
  <2>5. CASE PollForAck BY <2>5 DEF PollForAck, faultVars
  <2>6. CASE Accept
    <3>1. pc = "read" /\ pc' \in {"write", "idle"}
          /\ UNCHANGED <<irq, at, timeouts, errors, invalid>>
      BY <2>6 DEF Accept, AdvanceChannel, EndRound, faultVars
    <3> QED BY <3>1
  <2>7. CASE Reject
    <3>1. pc = "read" /\ pc' = "idle" /\ UNCHANGED <<irq, at, timeouts, errors>>
      BY <2>7 DEF Reject, EndRound
    <3>2. CASE j = idx /\ cnt < RespRange
      <4>1. resp[j] # cnt
        BY <2>7, <3>2, LowHalfSmall DEF Reject, Answers
      <4>2. irq[j] = 0 /\ Owing(j)
        BY <3>1, <3>2, <4>1
      <4>3. invalid'[j] = invalid[j] + 1
        BY <2>7, <3>2 DEF Reject
      <4> QED BY <3>1, <4>2, <4>3
    <3>3. CASE ~(j = idx /\ cnt < RespRange)
      <4>1. invalid'[j] = invalid[j]
        BY <2>7, <3>3 DEF Reject
      <4> QED BY <3>1, <4>1
    <3> QED BY <3>2, <3>3
  <2>8. CASE PollTimeout BY <2>8 DEF PollTimeout, EndRound
  <2>9. CASE CallFails BY <2>9 DEF CallFails, EndRound
  <2> QED
    BY <1>2, <2>1, <2>2, <2>3, <2>4, <2>5, <2>6, <2>7, <2>8, <2>9 DEF Pmu, SendIpi
<1>3. ASSUME NEW i \in Idx, Processor(i) PROVE Debt(j)'
  <2>1. CASE IpiHandler(i) BY <2>1 DEF IpiHandler, faultVars
  <2>2. CASE EnableIpi(i) BY <2>2 DEF EnableIpi, faultVars
  <2>3. CASE SendInit(i) BY <2>3 DEF SendInit, faultVars
  <2>4. CASE HandlerEnter(i) BY <2>4 DEF HandlerEnter, faultVars
  <2>5. CASE HandlerRead(i) BY <2>5 DEF HandlerRead, faultVars
  <2>6. CASE HandlerRespond(i) BY <2>6 DEF HandlerRespond, faultVars
  <2>7. CASE HandlerClear(i) BY <2>7 DEF HandlerClear, faultVars
  <2>8. CASE MailboxFails(i) BY <2>8 DEF MailboxFails
  <2> QED
    BY <1>3, <2>1, <2>2, <2>3, <2>4, <2>5, <2>6, <2>7, <2>8 DEF Processor, Handler, Boot
<1> QED
  BY <1>1, <1>2, <1>3 DEF Next

(***************************************************************************)
(* A late handler spoils at most one later message: every rejected         *)
(* response in range is paid for by a timeout or an error of its channel.  *)
(***************************************************************************)
THEOREM Rejects == Spec => []RejectsBounded
<1>1. Init => DebtInv
  BY DEF Init, DebtInv, Debt, Owing
<1>2. DebtInv => RejectsBounded
  BY DEF DebtInv, Debt, RejectsBounded
<1> QED
  BY <1>1, <1>2, ControlHolds, DebtStep, PTL DEF Spec

(***************************************************************************)
(* Whatever channel j holds that does not come from the message of this    *)
(* round is older than cnt, unless a mailbox error let the buffer go out   *)
(* unwritten.  Current(j): the message of this round has been written and  *)
(* a handler has read it since.                                            *)
(***************************************************************************)
Written(j) == idx = j /\ pc \in {"trigger", "poll", "read"}
Current(j) == Written(j) /\ handled[j] = 1

Age(j) ==
  /\ req[j] <= cnt /\ tmp[j] <= cnt
  /\ irq[j] = 1 /\ ~Written(j) => req[j] < cnt
  /\ at[j] = "respond" /\ ~Current(j) => tmp[j] < cnt
  /\ errors[j] = 0 /\ at[j] = "clear" => resp[j] <= cnt
  /\ errors[j] = 0 /\ at[j] = "clear" /\ ~Current(j) => resp[j] < cnt
  /\ errors[j] = 0 /\ irq[j] = 0 /\ idx = j /\ pc \in {"poll", "read"} =>
        handled[j] = 1 \/ resp[j] < cnt
  /\ pc # "idle" /\ j \in received => j < idx
  /\ j \in received /\ errors[j] = 0 => handled[j] = 1

AgeInv == \A j \in Idx : Age(j)

(***************************************************************************)
(* Every step keeps the ages.                                              *)
(***************************************************************************)
LEMMA AgeStep ==
  TypeInv /\ ControlInv /\ AgeInv /\ [Next]_vars => AgeInv'
<1> SUFFICES ASSUME TypeInv, ControlInv, AgeInv, [Next]_vars, NEW j \in Idx
             PROVE  Age(j)'
  BY DEF AgeInv
<1>0. Age(j) /\ Control(j) /\ Control(idx)
  BY DEF AgeInv, ControlInv, TypeInv, TypeOK
<1>w. /\ cnt \in Nat /\ idx \in Int /\ j \in Int
      /\ \A w \in Words : w \in Nat
  BY RangesAssumption, ChannelsAssumption DEF TypeInv, TypeOK, Words, Idx
<1>t. /\ req[j] \in Nat /\ tmp[j] \in Nat /\ resp[j] \in Nat /\ errors[j] \in Nat
      /\ irq[j] \in {0, 1} /\ at[j] \in Places /\ cnt \in Nat /\ idx \in Int /\ j \in Int
      /\ idx \in Idx /\ pc \in Locations /\ handled[j] \in {0, 1}
      /\ irq \in [Idx -> {0, 1}] /\ at \in [Idx -> Places] /\ handled \in [Idx -> {0, 1}]
      /\ tmp \in [Idx -> Words] /\ resp \in [Idx -> Words] /\ req \in [Idx -> Words]
      /\ errors \in [Idx -> Nat]
  BY <1>w DEF TypeInv, TypeOK
<1> USE <1>0, <1>t DEF Age, Written, Current, Control, Places, Handling, Locations,
                       pmuVars, ipiVars, cpuVars, roundVars, faultVars
<1>1. CASE UNCHANGED vars
  BY <1>1 DEF vars
<1>2. CASE Pmu
  <2>1. CASE StartRound BY <2>1 DEF StartRound
  <2>2. CASE SkipRound BY <2>2 DEF SkipRound, vars
  <2>3. CASE WriteMessage BY <2>3 DEF WriteMessage
  <2>4. CASE Trigger BY <2>4 DEF Trigger
  <2>5. CASE PollForAck BY <2>5 DEF PollForAck
  <2>6. CASE Accept
    <3>1. j = idx /\ errors[j] = 0 => handled[j] = 1
      BY <2>6, LowHalfSmall DEF Accept, Answers
    <3>2. /\ pc = "read" /\ irq[idx] = 0 /\ received' = received \union {idx}
          /\ UNCHANGED <<req, resp, irq, at, tmp, handled, errors>>
      BY <2>6 DEF Accept
    <3>3. CASE idx < Channels
      <4>1. idx' = idx + 1 /\ pc' = "write" /\ cnt' = cnt
        BY <2>6, <3>3 DEF Accept, AdvanceChannel
      <4> QED BY <3>1, <3>2, <4>1
    <3>4. CASE ~(idx < Channels)
      <4>1. pc' = "idle" /\ cnt' = cnt + 1
        BY <2>6, <3>4 DEF Accept, AdvanceChannel, EndRound
      <4> QED BY <3>1, <3>2, <4>1
    <3> QED BY <3>3, <3>4
  <2>7. CASE Reject BY <2>7 DEF Reject, EndRound
  <2>8. CASE PollTimeout BY <2>8 DEF PollTimeout, EndRound
  <2>9. CASE CallFails BY <2>9 DEF CallFails, EndRound
  <2> QED
    BY <1>2, <2>1, <2>2, <2>3, <2>4, <2>5, <2>6, <2>7, <2>8, <2>9 DEF Pmu, SendIpi
<1>3. ASSUME NEW i \in Idx, Processor(i) PROVE Age(j)'
  <2>1. CASE IpiHandler(i) BY <2>1 DEF IpiHandler
  <2>2. CASE EnableIpi(i) BY <2>2 DEF EnableIpi
  <2>3. CASE SendInit(i) BY <2>3 DEF SendInit
  <2>4. CASE HandlerEnter(i) BY <2>4 DEF HandlerEnter
  <2>5. CASE HandlerRead(i) BY <2>5 DEF HandlerRead
  <2>6. CASE HandlerRespond(i) BY <2>6 DEF HandlerRespond
  <2>7. CASE HandlerClear(i) BY <2>7 DEF HandlerClear
  <2>8. CASE MailboxFails(i) BY <2>8 DEF MailboxFails
  <2> QED
    BY <1>3, <2>1, <2>2, <2>3, <2>4, <2>5, <2>6, <2>7, <2>8 DEF Processor, Handler, Boot
<1> QED
  BY <1>1, <1>2, <1>3 DEF Next

(***************************************************************************)
(* The PMU only accepts a response to the message it has just sent, except *)
(* from a mailbox that failed.                                             *)
(***************************************************************************)
THEOREM Genuine == Spec => []ReceivedGenuine
<1>1. Init => AgeInv
  BY DEF Init, AgeInv, Age, Written, Current
<1>2. TypeInv /\ AgeInv => ReceivedGenuine
  BY DEF AgeInv, Age, ReceivedGenuine, TypeInv, TypeOK
<1> QED
  BY <1>1, <1>2, ControlHolds, AgeStep, PTL DEF Spec
(***************************************************************************)
(* How far a round has come in which, as in every one before, nothing went *)
(* wrong: the channels before idx have been served, and after the round    *)
(* all of them.                                                            *)
(***************************************************************************)
EachChannelReceived == (pc = "idle" /\ cnt > 0 /\ NothingFailed) => received = Idx

RoundInv ==
  NothingFailed /\ cnt <= RespRange =>
    /\ pc # "idle" => received = 1 .. idx - 1
    /\ pc \in {"write", "trigger"} => sent = 1 .. idx - 1
    /\ pc \in {"poll", "read"} => sent = 1 .. idx
    /\ EachChannelSent /\ EachChannelReceived

(***************************************************************************)
(* Every step keeps it.  A round ends early only after a failed call, a    *)
(* timeout, or a rejected response; and while the counter is in range the  *)
(* last one needs a failure, too.                                          *)
(***************************************************************************)
LEMMA RoundStep ==
  TypeInv /\ RoundInv /\ DebtInv' /\ TypeInv' /\ [Next]_vars => RoundInv'
<1> SUFFICES ASSUME TypeInv, RoundInv, DebtInv', TypeInv', [Next]_vars,
                    NothingFailed', cnt' <= RespRange
             PROVE  RoundInv'
  BY DEF RoundInv
<1>0. /\ cnt \in Nat /\ idx \in Idx /\ idx \in Nat /\ 1 <= idx /\ idx <= Channels
      /\ Channels \in Nat \ {0} /\ RespRange \in Nat /\ Idx = 1 .. Channels
      /\ calls \in Nat
      /\ \A i \in Idx : timeouts[i] \in Nat /\ errors[i] \in Nat /\ invalid[i] \in Nat
  <2>1. /\ Channels \in Nat \ {0} /\ RespRange \in Nat /\ MaxRounds \in Nat
        /\ Idx = 1 .. Channels
    BY ChannelsAssumption, RangesAssumption DEF Idx
  <2>2. cnt \in Nat
    BY <2>1 DEF TypeInv, TypeOK, Words
  <2>3. idx \in Idx /\ idx \in Nat /\ 1 <= idx /\ idx <= Channels
    BY <2>1 DEF TypeInv, TypeOK
  <2>4. /\ calls \in Nat
        /\ \A i \in Idx : timeouts[i] \in Nat /\ errors[i] \in Nat /\ invalid[i] \in Nat
    BY DEF TypeInv, TypeOK
  <2> QED BY <2>1, <2>2, <2>3, <2>4
<1> USE DEF RoundInv, EachChannelSent, EachChannelReceived
<1>1. ASSUME UNCHANGED <<calls, timeouts, errors>> PROVE NothingFailed
  BY <1>1 DEF NothingFailed
<1> USE DEF pmuVars, ipiVars, cpuVars, roundVars, faultVars
<1>2. CASE UNCHANGED vars
  BY <1>1, <1>2 DEF vars
<1>3. CASE StartRound
  BY <1>1, <1>3 DEF StartRound
<1>4. CASE WriteMessage
  BY <1>1, <1>4 DEF WriteMessage
<1>5. CASE Trigger
  <2>1. 1 .. idx = (1 .. idx - 1) \union {idx}
    BY <1>0
  <2> QED BY <1>1, <1>5, <2>1 DEF Trigger
<1>6. CASE PollForAck
  BY <1>1, <1>6 DEF PollForAck
<1>7. CASE Accept
  <2>1. /\ pc = "read" /\ received' = received \union {idx}
        /\ UNCHANGED <<sent, calls, timeouts, errors>>
    BY <1>7 DEF Accept
  <2>2. cnt' = cnt \/ cnt' = cnt + 1
    BY <1>7 DEF Accept, AdvanceChannel, EndRound
  <2>3. NothingFailed /\ cnt <= RespRange
    BY <1>0, <1>1, <2>1, <2>2
  <2>4. sent' = 1 .. idx /\ received' = 1 .. idx
    <3>1. 1 .. idx = (1 .. idx - 1) \union {idx}
      BY <1>0
    <3> QED BY <2>1, <2>3, <3>1
  <2>5. CASE idx < Channels
    <3>1. idx' = idx + 1 /\ pc' = "write"
      BY <1>7, <2>5 DEF Accept, AdvanceChannel
    <3>2. idx' - 1 = idx
      BY <1>0, <3>1
    <3> QED BY <2>4, <3>1, <3>2
  <2>6. CASE ~(idx < Channels)
    <3>1. pc' = "idle" /\ idx = Channels
      BY <1>0, <1>7, <2>6 DEF Accept, AdvanceChannel, EndRound
    <3> QED BY <1>0, <2>4, <3>1
  <2> QED BY <2>5, <2>6
<1>8. CASE Reject
  <2>1. cnt' = cnt + 1 /\ UNCHANGED <<timeouts, errors>>
    BY <1>8 DEF Reject, EndRound
  <2>2. cnt < RespRange
    BY <1>0, <2>1
  <2>3. invalid'[idx] = invalid[idx] + 1
    BY <1>0, <1>8, <2>2 DEF Reject, TypeInv, TypeOK
  <2>4. timeouts'[idx] = 0 /\ errors'[idx] = 0
    BY <1>0 DEF NothingFailed
  <2>5. invalid'[idx] <= timeouts'[idx] + errors'[idx]
    BY <1>0 DEF DebtInv, Debt
  <2> QED BY <1>0, <2>3, <2>4, <2>5
<1>9. CASE PollTimeout
  <2>1. timeouts'[idx] = timeouts[idx] + 1
    BY <1>0, <1>9 DEF PollTimeout, TypeInv, TypeOK
  <2> QED BY <1>0, <2>1 DEF NothingFailed
<1>10. CASE CallFails
  <2>1. calls' = calls + 1
    BY <1>10 DEF CallFails
  <2> QED BY <1>0, <2>1 DEF NothingFailed
<1>11. ASSUME NEW i \in Idx, Processor(i) PROVE RoundInv'
  <2>1. CASE MailboxFails(i)
    <3>1. errors'[i] = errors[i] + 1
      BY <2>1 DEF MailboxFails, TypeInv, TypeOK
    <3> QED BY <1>0, <3>1 DEF NothingFailed
  <2>2. CASE ~MailboxFails(i)
    BY <1>1, <1>11, <2>2 DEF Processor, IpiHandler, Boot, EnableIpi, SendInit, Handler,
       HandlerEnter, HandlerRead, HandlerRespond, HandlerClear
  <2> QED BY <2>1, <2>2
<1> QED BY <1>2, <1>3, <1>4, <1>5, <1>6, <1>7, <1>8, <1>9, <1>10, <1>11
        DEF Next, Pmu, SkipRound, SendIpi

(***************************************************************************)
(* "Send IPI Message to each channel": as long as the counter is in the    *)
(* range that is compared, a round in which nothing goes wrong sends to    *)
(* every channel and accepts the response of every channel.                *)
(***************************************************************************)
THEOREM EachServed ==
  Spec => [](cnt <= RespRange => EachChannelSent /\ EachChannelReceived)
<1>1. Init => DebtInv /\ RoundInv
  BY DEF Init, DebtInv, Debt, Owing, RoundInv, EachChannelSent, EachChannelReceived
<1>2. TypeInv /\ RoundInv => (cnt <= RespRange => EachChannelSent /\ EachChannelReceived)
  BY DEF RoundInv, EachChannelSent, EachChannelReceived
<1> QED
  BY <1>1, <1>2, ControlHolds, DebtStep, RoundStep, PTL DEF Spec
=============================================================================
