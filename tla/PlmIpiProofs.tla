---------------------------- MODULE PlmIpiProofs ----------------------------
(***************************************************************************)
(* Proofs about PlmIpi, for all setups and bounds.                         *)
(***************************************************************************)
EXTENDS PlmIpi, TLAPS

(***************************************************************************)
(* A sum is a word, and two increments are one by two.                     *)
(***************************************************************************)
LEMMA PlusWord == ASSUME NEW w \in Words, NEW n \in Nat PROVE Plus(w, n) \in Words
  BY BoundsAssumption DEF Words, Plus

LEMMA PlusTwice == ASSUME NEW w \in Words PROVE Plus(Plus(w, 1), 1) = Plus(w, 2)
<1>1. CASE w + 1 < Range
  <2>1. Plus(w, 1) = w + 1
    BY <1>1, BoundsAssumption DEF Words, Plus
  <2> QED BY <2>1 DEF Words, Plus
<1>2. CASE w + 1 = Range
  <2>1. Plus(w, 1) = 0
    BY <1>2, BoundsAssumption DEF Words, Plus
  <2>2. (Range + 1) % Range = 1 % Range
    BY BoundsAssumption
  <2> QED BY <1>2, <2>1, <2>2 DEF Words, Plus
<1> QED BY <1>1, <1>2, BoundsAssumption DEF Words

(***************************************************************************)
(* Every step keeps the types.                                             *)
(***************************************************************************)
LEMMA TypeStep == TypeOK /\ [Next]_vars => TypeOK'
<1> SUFFICES ASSUME TypeOK, [Next]_vars PROVE TypeOK'
  OBVIOUS
<1>w. \A w \in Words : Plus(w, 1) \in Words /\ Plus(w, 2) \in Words
  BY PlusWord
<1>m. (pass + 1) % Passes \in 0 .. Passes - 1
  BY BoundsAssumption DEF TypeOK
<1>p. /\ Cpus = {"r5", "a72"} /\ 0 \in Words
      /\ MaxFailures \in Nat /\ MaxRestarts \in Nat
  BY BoundsAssumption DEF Words, Cpus
<1> USE <1>w, <1>m, <1>p DEF TypeOK, TaskPlaces, CommandPlaces, R5Places, A72Places,
  Sending, Handling, taskVars, plmVars, r5Vars, a72Vars, fromPlm, fromCpu, plmHistory,
  a72History
<1>0. CASE UNCHANGED vars
  BY <1>0 DEF vars
<1>1. CASE UserTask
  BY <1>1 DEF UserTask, EndPass
<1>2. CASE WriteR5
  BY <1>2 DEF WriteR5, TaskStep, WriteTo, Fails, Succeeds
<1>3. CASE TriggerR5
  BY <1>3 DEF TriggerR5, TaskStep, TriggerCpu, Fails, Succeeds, EndPass
<1>4. CASE WriteA72
  BY <1>4 DEF WriteA72, TaskStep, WriteTo, Fails, Succeeds
<1>5. CASE TriggerA72
  BY <1>5 DEF TriggerA72, TaskStep, TriggerCpu, Fails, Succeeds
<1>6. CASE PollForAck
  BY <1>6 DEF PollForAck, TaskStep, EndPass
<1>7. CASE ReadResponse
  <2>1. misread' \in {0, 1} /\ waiting' \in BOOLEAN
    BY <1>7 DEF ReadResponse
  <2>4. failures' \in 0 .. MaxFailures
    <3>1. failures' = failures \/ (failures < MaxFailures /\ failures' = failures + 1)
      BY <1>7, Zenon DEF ReadResponse, Fails, Succeeds
    <3> QED BY <3>1
  <2>2. trip' \in [Cpus -> Words]
    BY <1>7 DEF ReadResponse
  <2>3. plm' = "idle" /\ pass' \in 0 .. Passes - 1
    BY <1>7 DEF ReadResponse, EndPass
  <2> QED
    BY <1>7, <2>1, <2>2, <2>3, <2>4 DEF ReadResponse, TaskStep
<1>8. ASSUME NEW c \in Cpus, FetchCommand(c) PROVE TypeOK'
  BY <1>8 DEF FetchCommand
<1>9. CASE ProcessCmd
  BY <1>9 DEF ProcessCmd
<1>10. CASE Respond
  BY <1>10 DEF Respond
<1>11. CASE Acknowledge
  BY <1>11 DEF Acknowledge
<1>12. CASE SendCommand
  BY <1>12 DEF SendCommand, R5Only
<1>13. CASE TriggerPlm
  BY <1>13 DEF TriggerPlm, R5Only
<1>14. CASE Unblock
  BY <1>14 DEF Unblock, R5Only
<1>15. CASE ReceiveResponse
  BY <1>15 DEF ReceiveResponse, R5Only
<1>16. CASE ResetFlags
  BY <1>16 DEF ResetFlags, R5Only
<1>17. CASE Awake
  BY <1>17 DEF Awake, R5Only
<1>18. CASE ReceiveRequest
  BY <1>18 DEF ReceiveRequest, R5Only
<1>19. CASE DoneHandler
  BY <1>19 DEF DoneHandler, R5Only
<1>20. CASE ClearInterrupt
  BY <1>20 DEF ClearInterrupt, R5Only
<1>21. CASE ErrorHandler
  BY <1>21 DEF ErrorHandler, R5Only
<1>22. CASE R5Stops
  BY <1>22 DEF R5Stops, R5Only
<1>23. CASE StartA72
  BY <1>23 DEF StartA72, A72Only
<1>24. CASE WriteCommand
  BY <1>24 DEF WriteCommand, A72Only
<1>25. CASE TriggerCommand
  BY <1>25 DEF TriggerCommand, A72Only
<1>26. CASE SpinEnds
  BY <1>26 DEF SpinEnds, A72Only, Observed
<1>27. CASE TakeResult
  BY <1>27 DEF TakeResult, A72Only
<1>28. CASE HandlerRead
  BY <1>28 DEF HandlerRead, A72Only
<1>29. CASE HandlerAnswer
  BY <1>29 DEF HandlerAnswer, A72Only
<1>30. CASE HandlerClear
  BY <1>30 DEF HandlerClear, A72Only
<1>31. CASE Killed
  BY <1>31 DEF Killed, A72Only
<1> QED
  BY <1>0, <1>1, <1>2, <1>3, <1>4, <1>5, <1>6, <1>7, <1>8, <1>9, <1>10, <1>11, <1>12, <1>13,
     <1>14, <1>15, <1>16, <1>17, <1>18, <1>19, <1>20, <1>21, <1>22, <1>23, <1>24, <1>25,
     <1>26, <1>27, <1>28, <1>29, <1>30, <1>31
  DEF Next, Plm, R5, A72, TaskRest, CommandRest, R5Main, R5Interrupt, A72Main, A72Sender,
     A72Handler

(***************************************************************************)
(* They are right at first.                                                *)
(***************************************************************************)
LEMMA InitType == Init => TypeOK
<1> SUFFICES ASSUME Init PROVE TypeOK
  OBVIOUS
<1>1. 0 \in Words /\ 0 \in 0 .. Passes - 1 /\ 0 \in 0 .. MaxFailures /\ 0 \in 0 .. MaxRestarts
  BY BoundsAssumption DEF Words
<1>2. plmResp \in [Cpus -> Words]
  BY DEF Init
<1>3. r5 \in R5Places /\ a72 \in A72Places
  BY DEF Init, R5Places, A72Places
<1> QED
  BY <1>1, <1>2, <1>3 DEF Init, TypeOK, Cpus

(***************************************************************************)
(* The variables keep their types, for all setups and bounds.              *)
(***************************************************************************)
THEOREM TypeCorrect == Spec => []TypeOK
  BY InitType, TypeStep, PTL DEF Spec

(***************************************************************************)
(* What the other processors leave alone.                                  *)
(***************************************************************************)
LEMMA R5Frame ==
  TypeOK /\ R5 =>
    /\ UNCHANGED <<setup, plmVars, a72Vars, plmReq, plmResp, cpuResp, plmHistory, a72History>>
    /\ plmIrq'["a72"] = plmIrq["a72"] /\ cpuReq'["a72"] = cpuReq["a72"]
    /\ cpuIrq'["a72"] = cpuIrq["a72"]
  BY DEF TypeOK, R5, R5Main, R5Interrupt, R5Only, Cpus, SendCommand, TriggerPlm, Unblock,
     ReceiveResponse, ResetFlags, Awake, ReceiveRequest, DoneHandler, ClearInterrupt,
     ErrorHandler, R5Stops

LEMMA A72Frame ==
  TypeOK /\ A72 =>
    /\ UNCHANGED <<setup, plmVars, r5Vars, plmReq, cpuResp, plmHistory>>
    /\ plmIrq'["r5"] = plmIrq["r5"] /\ cpuReq'["r5"] = cpuReq["r5"]
    /\ cpuIrq'["r5"] = cpuIrq["r5"]
  BY DEF TypeOK, A72, A72Main, A72Sender, A72Handler, A72Only, Cpus, StartA72, WriteCommand,
     TriggerCommand, SpinEnds, TakeResult, HandlerRead, HandlerAnswer, HandlerClear, Killed

(***************************************************************************)
(* What the proofs use of the types, and of sums.                          *)
(***************************************************************************)
LEMMA Typing ==
  TypeOK =>
    /\ trip \in [Cpus -> Words] /\ plmReq \in [Cpus -> Words] /\ plmResp \in [Cpus -> Words]
    /\ plmIrq \in [Cpus -> {0, 1}] /\ cpuReq \in [Cpus -> Words] /\ cpuIrq \in [Cpus -> {0, 1}]
    /\ cpuResp \in [Cpus -> Words] /\ Cpus = {"r5", "a72"} /\ source \in Cpus
    /\ request \in Words /\ counter \in Words /\ payload \in Words
  BY DEF TypeOK, Cpus

LEMMA Sums ==
  \A w \in Words :
    Plus(w, 1) \in Words /\ Plus(w, 2) \in Words /\ Plus(Plus(w, 1), 1) = Plus(w, 2)
  BY PlusWord, PlusTwice

(***************************************************************************)
(* Who takes part in the exchange with the A72, and what a command that    *)
(* the PLM is busy with says about its interrupt.                          *)
(***************************************************************************)
ModeInv ==
  /\ waiting \/ plm \in {"a72write", "a72trigger", "poll", "read"} => plmSends
  /\ plmSends => a72 \notin Sending /\ cpuIrq["a72"] = 0
  /\ ~plmSends => a72 \notin {"ready"} \union Handling
  /\ plm \in CommandPlaces => cpuIrq[source] = 1

(***************************************************************************)
(* The R5.  Near: the request buffer is at most a trip behind TripCounter. *)
(* Recent(q): q was in the buffer, and TripCounter has not changed since.  *)
(* The command that the R5 has sent carries such a q.                      *)
(***************************************************************************)
Near(c) == trip[c] \in {plmReq[c], Plus(plmReq[c], 2)}
Recent(c, q) == plmReq[c] \in {q, trip[c]} /\ trip[c] \in {q, Plus(q, 2)}
RecentlySent == \E q \in Words : cpuReq["r5"] = Plus(q, 1) /\ Recent("r5", q)
Processed == source = "r5" /\ plm \in {"respond", "acknowledge"}

R5Inv ==
  /\ Near("r5")
  /\ r5 \in {"send", "trigger", "response", "reset", "spin", "receive"} => cpuIrq["r5"] = 0
  /\ r5 = "send" => Recent("r5", request)
  /\ r5 = "trigger" => RecentlySent
  /\ cpuIrq["r5"] = 1 /\ ~Processed => RecentlySent
  /\ plm = "process" /\ source = "r5" => payload = cpuReq["r5"]

(***************************************************************************)
(* The A72 as receiver.  Its handler works on a counter that was in the    *)
(* buffer, and TripCounter stands still as long as it does, because the    *)
(* interrupt stays pending.  The response is that to the counter before,   *)
(* or to the present one, and then that is the one in the buffer.          *)
(***************************************************************************)
ReceiverInv ==
  plmSends =>
    /\ a72 \in Handling => plmIrq["a72"] = 1
    /\ plm = "read" => plmIrq["a72"] = 0
    /\ misread = 0 =>
         /\ Near("a72")
         /\ a72 = "handler" => Recent("a72", counter)
         /\ answered = 1 =>
              \/ Plus(plmResp["a72"], 1) = trip["a72"]
              \/ Plus(plmResp["a72"], 1) = Plus(trip["a72"], 2) /\ plmReq["a72"] = trip["a72"]

(***************************************************************************)
(* The same while no call has failed: what is pending is the counter, and  *)
(* what is no longer pending has been answered.                            *)
(***************************************************************************)
AnswerInv ==
  plmSends /\ failures = 0 =>
    /\ waiting \/ plm = "a72trigger" => plmReq["a72"] = trip["a72"]
    /\ plm \in {"poll", "read"} \/ plmIrq["a72"] = 1 => waiting
    /\ a72 = "handler" => counter = trip["a72"]
    /\ a72 = "clear" => plmResp["a72"] = Plus(trip["a72"], 1)
    /\ waiting /\ plmIrq["a72"] = 0 => plmResp["a72"] = Plus(trip["a72"], 1)

(***************************************************************************)
(* The A72 as sender.  When it begins with an interrupt still pending, it  *)
(* has a stale response left over for it; otherwise what it spins for      *)
(* leads, step by step of the PLM, to the response to its counter.         *)
(***************************************************************************)
Leading ==
  IF cpuIrq["a72"] = 0 \/ (source = "a72" /\ plm = "acknowledge")
  THEN cpuResp["a72"] = Plus(counter, 2)
  ELSE /\ cpuReq["a72"] = Plus(counter, 1)
       /\ source = "a72" /\ plm = "process" => payload = Plus(counter, 1)
       /\ source = "a72" /\ plm = "respond" => payload = Plus(counter, 2)

SenderInv ==
  /\ stale <= restarts
  /\ stale = restarts =>
       /\ a72 \in {"off", "start", "write", "trigger"} => cpuIrq["a72"] = 0
       /\ a72 \in {"spin", "result"} => Leading
  /\ a72 = "trigger" => cpuReq["a72"] = Plus(counter, 1)
  /\ a72 = "result" => cpuIrq["a72"] = 0

(***************************************************************************)
(* Every step keeps ModeInv.                                               *)
(***************************************************************************)
LEMMA ModeStep == TypeOK /\ ModeInv /\ [Next]_vars => ModeInv'
<1> SUFFICES ASSUME TypeOK, ModeInv, [Next]_vars PROVE ModeInv'
  OBVIOUS
<1> USE Typing, Sums
<1> USE DEF ModeInv, CommandPlaces, Sending, Handling, plmSends, taskVars, plmVars, r5Vars,
  a72Vars, fromPlm, fromCpu, plmHistory, a72History
<1>0. CASE UNCHANGED vars
  BY <1>0 DEF vars, taskVars, plmVars, r5Vars, a72Vars, fromPlm, fromCpu, plmHistory,
     a72History
<1>1. CASE UserTask
  BY <1>1 DEF UserTask, EndPass
<1>2. CASE WriteR5
  BY <1>2 DEF WriteR5, TaskStep, WriteTo, Fails, Succeeds
<1>3. CASE TriggerR5
  BY <1>3 DEF TriggerR5, TaskStep, TriggerCpu, Fails, Succeeds, EndPass
<1>4. CASE WriteA72
  BY <1>4 DEF WriteA72, TaskStep, WriteTo, Fails, Succeeds
<1>5. CASE TriggerA72
  BY <1>5 DEF TriggerA72, TaskStep, TriggerCpu, Fails, Succeeds
<1>6. CASE PollForAck
  BY <1>6 DEF PollForAck, TaskStep, EndPass
<1>7. CASE ReadResponse
  BY <1>7 DEF ReadResponse, TaskStep, Fails, Succeeds, EndPass
<1>8. ASSUME NEW c \in Cpus, FetchCommand(c) PROVE ModeInv'
  BY <1>8 DEF FetchCommand
<1>9. CASE ProcessCmd
  BY <1>9 DEF ProcessCmd
<1>10. CASE Respond
  BY <1>10 DEF Respond
<1>11. CASE Acknowledge
  BY <1>11 DEF Acknowledge
<1>12. CASE SendCommand
  BY <1>12 DEF SendCommand, R5Only
<1>13. CASE TriggerPlm
  BY <1>13 DEF TriggerPlm, R5Only
<1>14. CASE Unblock
  BY <1>14 DEF Unblock, R5Only
<1>15. CASE ReceiveResponse
  BY <1>15 DEF ReceiveResponse, R5Only
<1>16. CASE ResetFlags
  BY <1>16 DEF ResetFlags, R5Only
<1>17. CASE Awake
  BY <1>17 DEF Awake, R5Only
<1>18. CASE ReceiveRequest
  BY <1>18 DEF ReceiveRequest, R5Only
<1>19. CASE DoneHandler
  BY <1>19 DEF DoneHandler, R5Only
<1>20. CASE ClearInterrupt
  BY <1>20 DEF ClearInterrupt, R5Only
<1>21. CASE ErrorHandler
  BY <1>21 DEF ErrorHandler, R5Only
<1>22. CASE R5Stops
  BY <1>22 DEF R5Stops, R5Only
<1>23. CASE StartA72
  BY <1>23 DEF StartA72, A72Only
<1>24. CASE WriteCommand
  BY <1>24 DEF WriteCommand, A72Only
<1>25. CASE TriggerCommand
  BY <1>25 DEF TriggerCommand, A72Only
<1>26. CASE SpinEnds
  BY <1>26 DEF SpinEnds, A72Only, Observed
<1>27. CASE TakeResult
  BY <1>27 DEF TakeResult, A72Only
<1>28. CASE HandlerRead
  BY <1>28 DEF HandlerRead, A72Only
<1>29. CASE HandlerAnswer
  BY <1>29 DEF HandlerAnswer, A72Only
<1>30. CASE HandlerClear
  BY <1>30 DEF HandlerClear, A72Only
<1>31. CASE Killed
  BY <1>31 DEF Killed, A72Only
<1> QED
  BY <1>0, <1>1, <1>2, <1>3, <1>4, <1>5, <1>6, <1>7, <1>8, <1>9, <1>10, <1>11, <1>12, <1>13,
     <1>14, <1>15, <1>16, <1>17, <1>18, <1>19, <1>20, <1>21, <1>22, <1>23, <1>24, <1>25,
     <1>26, <1>27, <1>28, <1>29, <1>30, <1>31
  DEF Next, Plm, TaskRest, CommandRest, R5, R5Main, R5Interrupt, A72, A72Main, A72Sender,
     A72Handler

(***************************************************************************)
(* Every step keeps R5Inv.                                                 *)
(***************************************************************************)
LEMMA R5Step == TypeOK /\ ModeInv /\ R5Inv /\ [Next]_vars => R5Inv'
<1> SUFFICES ASSUME TypeOK, ModeInv, R5Inv, [Next]_vars PROVE R5Inv'
  OBVIOUS
<1> USE Typing, Sums
<1> USE DEF R5Inv, ModeInv, Near, Recent, RecentlySent, Processed, CommandPlaces, taskVars,
  plmVars, r5Vars, a72Vars, fromPlm, fromCpu, plmHistory, a72History
<1>0. CASE UNCHANGED vars
  BY <1>0 DEF vars, taskVars, plmVars, r5Vars, a72Vars, fromPlm, fromCpu, plmHistory,
     a72History
<1>1. CASE UserTask
  BY <1>1 DEF UserTask, EndPass
<1>2. CASE WriteR5
  BY <1>2 DEF WriteR5, TaskStep, WriteTo, Fails, Succeeds
<1>3. CASE TriggerR5
  BY <1>3 DEF TriggerR5, TaskStep, TriggerCpu, Fails, Succeeds, EndPass
<1>4. CASE WriteA72
  BY <1>4 DEF WriteA72, TaskStep, WriteTo, Fails, Succeeds
<1>5. CASE TriggerA72
  BY <1>5 DEF TriggerA72, TaskStep, TriggerCpu, Fails, Succeeds
<1>6. CASE PollForAck
  BY <1>6 DEF PollForAck, TaskStep, EndPass
<1>7. CASE ReadResponse
  BY <1>7 DEF ReadResponse, TaskStep, Fails, Succeeds, EndPass
<1>8. ASSUME NEW c \in Cpus, FetchCommand(c) PROVE R5Inv'
  BY <1>8 DEF FetchCommand
<1>9. CASE ProcessCmd
  BY <1>9 DEF ProcessCmd
<1>10. CASE Respond
  BY <1>10 DEF Respond
<1>11. CASE Acknowledge
  BY <1>11 DEF Acknowledge
<1>12. CASE SendCommand
  BY <1>12 DEF SendCommand, R5Only
<1>13. CASE TriggerPlm
  BY <1>13 DEF TriggerPlm, R5Only
<1>14. CASE Unblock
  BY <1>14 DEF Unblock, R5Only
<1>15. CASE ReceiveResponse
  BY <1>15 DEF ReceiveResponse, R5Only
<1>16. CASE ResetFlags
  BY <1>16 DEF ResetFlags, R5Only
<1>17. CASE Awake
  BY <1>17 DEF Awake, R5Only
<1>18. CASE ReceiveRequest
  BY <1>18 DEF ReceiveRequest, R5Only
<1>19. CASE DoneHandler
  BY <1>19 DEF DoneHandler, R5Only
<1>20. CASE ClearInterrupt
  BY <1>20 DEF ClearInterrupt, R5Only
<1>21. CASE ErrorHandler
  BY <1>21 DEF ErrorHandler, R5Only
<1>22. CASE R5Stops
  BY <1>22 DEF R5Stops, R5Only
<1>23. CASE A72
  BY <1>23, A72Frame DEF taskVars, plmVars, r5Vars, a72Vars, fromPlm, fromCpu, plmHistory,
     a72History
<1> QED
  BY <1>0, <1>1, <1>2, <1>3, <1>4, <1>5, <1>6, <1>7, <1>8, <1>9, <1>10, <1>11, <1>12, <1>13,
     <1>14, <1>15, <1>16, <1>17, <1>18, <1>19, <1>20, <1>21, <1>22, <1>23
  DEF Next, Plm, TaskRest, CommandRest, R5, R5Main, R5Interrupt

(***************************************************************************)
(* Every step keeps ReceiverInv.                                           *)
(***************************************************************************)
LEMMA ReceiverStep == TypeOK /\ ModeInv /\ ReceiverInv /\ [Next]_vars => ReceiverInv'
<1> SUFFICES ASSUME TypeOK, ModeInv, ReceiverInv, [Next]_vars PROVE ReceiverInv'
  OBVIOUS
<1> USE Typing, Sums
<1> USE DEF ReceiverInv, ModeInv, Near, Recent, CommandPlaces, Sending, Handling, plmSends,
  taskVars, plmVars, r5Vars, a72Vars, fromPlm, fromCpu, plmHistory, a72History
<1>0. CASE UNCHANGED vars
  BY <1>0 DEF vars, taskVars, plmVars, r5Vars, a72Vars, fromPlm, fromCpu, plmHistory,
     a72History
<1>1. CASE UserTask
  BY <1>1 DEF UserTask, EndPass
<1>2. CASE WriteR5
  BY <1>2 DEF WriteR5, TaskStep, WriteTo, Fails, Succeeds
<1>3. CASE TriggerR5
  BY <1>3 DEF TriggerR5, TaskStep, TriggerCpu, Fails, Succeeds, EndPass
<1>4. CASE WriteA72
  BY <1>4 DEF WriteA72, TaskStep, WriteTo, Fails, Succeeds
<1>5. CASE TriggerA72
  BY <1>5 DEF TriggerA72, TaskStep, TriggerCpu, Fails, Succeeds
<1>6. CASE PollForAck
  BY <1>6 DEF PollForAck, TaskStep, EndPass
<1>7. CASE ReadResponse
  BY <1>7 DEF ReadResponse, TaskStep, Fails, Succeeds, EndPass
<1>8. ASSUME NEW c \in Cpus, FetchCommand(c) PROVE ReceiverInv'
  BY <1>8 DEF FetchCommand
<1>9. CASE ProcessCmd
  BY <1>9 DEF ProcessCmd
<1>10. CASE Respond
  BY <1>10 DEF Respond
<1>11. CASE Acknowledge
  BY <1>11 DEF Acknowledge
<1>12. CASE R5
  BY <1>12, R5Frame DEF taskVars, plmVars, r5Vars, a72Vars, fromPlm, fromCpu, plmHistory,
     a72History
<1>13. CASE StartA72
  BY <1>13 DEF StartA72, A72Only
<1>14. CASE WriteCommand
  BY <1>14 DEF WriteCommand, A72Only
<1>15. CASE TriggerCommand
  BY <1>15 DEF TriggerCommand, A72Only
<1>16. CASE SpinEnds
  BY <1>16 DEF SpinEnds, A72Only, Observed
<1>17. CASE TakeResult
  BY <1>17 DEF TakeResult, A72Only
<1>18. CASE HandlerRead
  BY <1>18 DEF HandlerRead, A72Only
<1>19. CASE HandlerAnswer
  BY <1>19 DEF HandlerAnswer, A72Only
<1>20. CASE HandlerClear
  BY <1>20 DEF HandlerClear, A72Only
<1>21. CASE Killed
  BY <1>21 DEF Killed, A72Only
<1> QED
  BY <1>0, <1>1, <1>2, <1>3, <1>4, <1>5, <1>6, <1>7, <1>8, <1>9, <1>10, <1>11, <1>12, <1>13,
     <1>14, <1>15, <1>16, <1>17, <1>18, <1>19, <1>20, <1>21
  DEF Next, Plm, TaskRest, CommandRest, A72, A72Main, A72Sender, A72Handler

(***************************************************************************)
(* Every step keeps AnswerInv.                                             *)
(***************************************************************************)
LEMMA AnswerStep == TypeOK /\ ModeInv /\ ReceiverInv /\ AnswerInv /\ [Next]_vars => AnswerInv'
<1> SUFFICES ASSUME TypeOK, ModeInv, ReceiverInv, AnswerInv, [Next]_vars PROVE AnswerInv'
  OBVIOUS
<1> USE Typing, Sums
<1>s. failures \in Nat
  BY BoundsAssumption DEF TypeOK
<1> USE <1>s
<1> USE DEF AnswerInv, ReceiverInv, ModeInv, CommandPlaces, Sending, Handling, plmSends,
  taskVars, plmVars, r5Vars, a72Vars, fromPlm, fromCpu, plmHistory, a72History
<1>0. CASE UNCHANGED vars
  BY <1>0 DEF vars, taskVars, plmVars, r5Vars, a72Vars, fromPlm, fromCpu, plmHistory,
     a72History
<1>1. CASE UserTask
  BY <1>1 DEF UserTask, EndPass
<1>2. CASE WriteR5
  BY <1>2 DEF WriteR5, TaskStep, WriteTo, Fails, Succeeds
<1>3. CASE TriggerR5
  BY <1>3 DEF TriggerR5, TaskStep, TriggerCpu, Fails, Succeeds, EndPass
<1>4. CASE WriteA72
  BY <1>4 DEF WriteA72, TaskStep, WriteTo, Fails, Succeeds
<1>5. CASE TriggerA72
  BY <1>5 DEF TriggerA72, TaskStep, TriggerCpu, Fails, Succeeds
<1>6. CASE PollForAck
  BY <1>6 DEF PollForAck, TaskStep, EndPass
<1>7. CASE ReadResponse
  BY <1>7 DEF ReadResponse, TaskStep, Fails, Succeeds, EndPass
<1>8. ASSUME NEW c \in Cpus, FetchCommand(c) PROVE AnswerInv'
  BY <1>8 DEF FetchCommand
<1>9. CASE ProcessCmd
  BY <1>9 DEF ProcessCmd
<1>10. CASE Respond
  BY <1>10 DEF Respond
<1>11. CASE Acknowledge
  BY <1>11 DEF Acknowledge
<1>12. CASE R5
  BY <1>12, R5Frame DEF taskVars, plmVars, r5Vars, a72Vars, fromPlm, fromCpu, plmHistory,
     a72History
<1>13. CASE StartA72
  BY <1>13 DEF StartA72, A72Only
<1>14. CASE WriteCommand
  BY <1>14 DEF WriteCommand, A72Only
<1>15. CASE TriggerCommand
  BY <1>15 DEF TriggerCommand, A72Only
<1>16. CASE SpinEnds
  BY <1>16 DEF SpinEnds, A72Only, Observed
<1>17. CASE TakeResult
  BY <1>17 DEF TakeResult, A72Only
<1>18. CASE HandlerRead
  BY <1>18 DEF HandlerRead, A72Only
<1>19. CASE HandlerAnswer
  BY <1>19 DEF HandlerAnswer, A72Only
<1>20. CASE HandlerClear
  BY <1>20 DEF HandlerClear, A72Only
<1>21. CASE Killed
  BY <1>21 DEF Killed, A72Only
<1> QED
  BY <1>0, <1>1, <1>2, <1>3, <1>4, <1>5, <1>6, <1>7, <1>8, <1>9, <1>10, <1>11, <1>12, <1>13,
     <1>14, <1>15, <1>16, <1>17, <1>18, <1>19, <1>20, <1>21
  DEF Next, Plm, TaskRest, CommandRest, A72, A72Main, A72Sender, A72Handler

(***************************************************************************)
(* Every step keeps SenderInv.                                             *)
(***************************************************************************)
LEMMA SenderStep == TypeOK /\ ModeInv /\ SenderInv /\ [Next]_vars => SenderInv'
<1> SUFFICES ASSUME TypeOK, ModeInv, SenderInv, [Next]_vars PROVE SenderInv'
  OBVIOUS
<1> USE Typing, Sums
<1>s. restarts \in Nat /\ stale \in Nat
  BY BoundsAssumption DEF TypeOK
<1> USE <1>s
<1> USE DEF SenderInv, Leading, ModeInv, CommandPlaces, Sending, Handling, plmSends,
  taskVars, plmVars, r5Vars, a72Vars, fromPlm, fromCpu, plmHistory, a72History
<1>0. CASE UNCHANGED vars
  BY <1>0 DEF vars, taskVars, plmVars, r5Vars, a72Vars, fromPlm, fromCpu, plmHistory,
     a72History
<1>1. CASE UserTask
  BY <1>1 DEF UserTask, EndPass
<1>2. CASE WriteR5
  BY <1>2 DEF WriteR5, TaskStep, WriteTo, Fails, Succeeds
<1>3. CASE TriggerR5
  BY <1>3 DEF TriggerR5, TaskStep, TriggerCpu, Fails, Succeeds, EndPass
<1>4. CASE WriteA72
  BY <1>4 DEF WriteA72, TaskStep, WriteTo, Fails, Succeeds
<1>5. CASE TriggerA72
  BY <1>5 DEF TriggerA72, TaskStep, TriggerCpu, Fails, Succeeds
<1>6. CASE PollForAck
  BY <1>6 DEF PollForAck, TaskStep, EndPass
<1>7. CASE ReadResponse
  BY <1>7 DEF ReadResponse, TaskStep, Fails, Succeeds, EndPass
<1>8. ASSUME NEW c \in Cpus, FetchCommand(c) PROVE SenderInv'
  BY <1>8 DEF FetchCommand
<1>9. CASE ProcessCmd
  BY <1>9 DEF ProcessCmd
<1>10. CASE Respond
  BY <1>10 DEF Respond
<1>11. CASE Acknowledge
  BY <1>11 DEF Acknowledge
<1>12. CASE R5
  BY <1>12, R5Frame DEF taskVars, plmVars, r5Vars, a72Vars, fromPlm, fromCpu, plmHistory,
     a72History
<1>13. CASE StartA72
  BY <1>13 DEF StartA72, A72Only
<1>14. CASE WriteCommand
  BY <1>14 DEF WriteCommand, A72Only
<1>15. CASE TriggerCommand
  BY <1>15 DEF TriggerCommand, A72Only
<1>16. CASE SpinEnds
  BY <1>16 DEF SpinEnds, A72Only, Observed
<1>17. CASE TakeResult
  BY <1>17 DEF TakeResult, A72Only
<1>18. CASE HandlerRead
  BY <1>18 DEF HandlerRead, A72Only
<1>19. CASE HandlerAnswer
  BY <1>19 DEF HandlerAnswer, A72Only
<1>20. CASE HandlerClear
  BY <1>20 DEF HandlerClear, A72Only
<1>21. CASE Killed
  BY <1>21 DEF Killed, A72Only
<1> QED
  BY <1>0, <1>1, <1>2, <1>3, <1>4, <1>5, <1>6, <1>7, <1>8, <1>9, <1>10, <1>11, <1>12, <1>13,
     <1>14, <1>15, <1>16, <1>17, <1>18, <1>19, <1>20, <1>21
  DEF Next, Plm, TaskRest, CommandRest, A72, A72Main, A72Sender, A72Handler

(***************************************************************************)
(* All of it together.                                                     *)
(***************************************************************************)
IInv == TypeOK /\ ModeInv /\ R5Inv /\ ReceiverInv /\ AnswerInv /\ SenderInv

LEMMA Invariance == Spec => []IInv
<1>1. ASSUME Init PROVE IInv
  <2>t. TypeOK
    BY <1>1, InitType
  <2>1. ModeInv
    BY <1>1 DEF Init, ModeInv, plmSends, Sending, Handling, CommandPlaces, Cpus
  <2>2. R5Inv
    BY <1>1 DEF Init, R5Inv, Near, Recent, Cpus
  <2>3. ReceiverInv
    BY <1>1 DEF Init, ReceiverInv, Near, Handling, Cpus
  <2>4. AnswerInv
    BY <1>1 DEF Init, AnswerInv, Cpus
  <2>5. SenderInv
    BY <1>1 DEF Init, SenderInv, Cpus
  <2> QED
    BY <2>t, <2>1, <2>2, <2>3, <2>4, <2>5 DEF IInv
<1>2. IInv /\ [Next]_vars => IInv'
  BY TypeStep, ModeStep, R5Step, ReceiverStep, AnswerStep, SenderStep DEF IInv
<1> QED BY <1>1, <1>2, PTL DEF Spec

(***************************************************************************)
(* The counter that goes round between the PLM and the R5 advances by two  *)
(* or stays, whatever is overwritten, read twice or fails: only ProcessCmd *)
(* changes it, and the command carries a counter that is Recent.           *)
(***************************************************************************)
THEOREM R5Forward == Spec => R5TripForward
<1>1. ASSUME IInv, [Next]_vars PROVE trip'["r5"] \in {trip["r5"], Plus(trip["r5"], 2)}
  <2>1. CASE trip'["r5"] = trip["r5"]
    BY <2>1
  <2>2. CASE ProcessCmd /\ source = "r5"
    <3>1. PICK q \in Words : cpuReq["r5"] = Plus(q, 1) /\ Recent("r5", q)
      BY <1>1, <2>2 DEF IInv, R5Inv, ModeInv, ProcessCmd, Processed, RecentlySent,
         CommandPlaces
    <3>2. trip'["r5"] = Plus(q, 2)
      BY <1>1, <2>2, <3>1, PlusTwice DEF IInv, TypeOK, R5Inv, ProcessCmd, Cpus
    <3> QED BY <3>1, <3>2 DEF Recent
  <2>3. trip'["r5"] = trip["r5"] \/ (ProcessCmd /\ source = "r5")
    <3>t. trip \in [Cpus -> Words] /\ Cpus = {"r5", "a72"} /\ source \in Cpus
      BY <1>1 DEF IInv, TypeOK, Cpus
    <3>0. CASE UNCHANGED vars
      BY <3>0 DEF vars, plmVars, taskVars
    <3>1. CASE UserTask
      BY <3>1 DEF UserTask
    <3>2. CASE TaskRest
      BY <3>2, <3>t DEF TaskRest, WriteR5, TriggerR5, WriteA72, TriggerA72, PollForAck,
         ReadResponse, taskVars
    <3>3. ASSUME NEW c \in Cpus, FetchCommand(c) PROVE trip' = trip
      BY <3>3 DEF FetchCommand, taskVars
    <3>4. CASE CommandRest
      BY <3>4, <3>t DEF CommandRest, ProcessCmd, Respond, Acknowledge, taskVars
    <3>5. CASE R5 \/ A72
      BY <1>1, <3>5, R5Frame, A72Frame DEF IInv, plmVars, taskVars
    <3> QED BY <1>1, <3>0, <3>1, <3>2, <3>3, <3>4, <3>5 DEF Next, Plm
  <2> QED BY <2>1, <2>2, <2>3
<1> QED BY <1>1, Invariance, PTL DEF R5TripForward, Spec

(***************************************************************************)
(* What changes the counter that the PLM sends to the A72.                 *)
(***************************************************************************)
LEMMA OnlyReadResponse ==
  IInv /\ [Next]_vars /\ plmSends =>
    ReadResponse \/ (trip'["a72"] = trip["a72"] /\ (waiting => waiting'))
<1> SUFFICES ASSUME IInv, [Next]_vars, plmSends, ~ReadResponse
             PROVE trip'["a72"] = trip["a72"] /\ (waiting => waiting')
  OBVIOUS
<1>t. trip \in [Cpus -> Words] /\ Cpus = {"r5", "a72"} /\ source \in Cpus
  BY DEF IInv, TypeOK, Cpus
<1>0. CASE UNCHANGED vars
  BY <1>0 DEF vars, plmVars, taskVars
<1>1. CASE UserTask
  BY <1>1 DEF UserTask
<1>2. CASE TaskRest
  BY <1>2 DEF TaskRest, WriteR5, TriggerR5, WriteA72, TriggerA72, PollForAck, taskVars
<1>3. ASSUME NEW c \in Cpus, FetchCommand(c) PROVE trip' = trip /\ waiting' = waiting
  BY <1>3 DEF FetchCommand, taskVars
<1>4. CASE ProcessCmd
  BY <1>4, <1>t DEF IInv, ModeInv, ProcessCmd, CommandPlaces
<1>5. CASE Respond \/ Acknowledge
  BY <1>5 DEF Respond, Acknowledge, taskVars
<1>6. CASE R5 \/ A72
  BY <1>6, R5Frame, A72Frame DEF IInv, plmVars, taskVars
<1> QED BY <1>0, <1>1, <1>2, <1>3, <1>4, <1>5, <1>6 DEF Next, Plm, CommandRest

(***************************************************************************)
(* The counter sent to the A72 advances by two or stays until a response   *)
(* cannot be read, or is read before there is one.                         *)
(***************************************************************************)
THEOREM A72Forward == Spec => A72TripForward
<1>1. ASSUME IInv, [Next]_vars, plmSends, misread' = 0
      PROVE  trip'["a72"] \in {trip["a72"], Plus(trip["a72"], 2)}
  <2>1. CASE trip'["a72"] = trip["a72"]
    BY <2>1
  <2>2. CASE ReadResponse
    <3>1. misread = 0 /\ answered = 1 /\ trip' = [trip EXCEPT !["a72"] = Plus(plmResp["a72"], 1)]
      BY <1>1, <2>2 DEF ReadResponse, IInv, TypeOK
    <3>2. trip'["a72"] = Plus(plmResp["a72"], 1)
      BY <1>1, <3>1 DEF IInv, TypeOK, Cpus
    <3> QED BY <1>1, <3>1, <3>2 DEF IInv, ReceiverInv
  <2> QED BY <1>1, <2>1, <2>2, OnlyReadResponse
<1> QED BY <1>1, Invariance, PTL DEF A72TripForward, Spec

(***************************************************************************)
(* As long as no call has failed, the PLM takes only a response to the     *)
(* counter it has sent.                                                    *)
(***************************************************************************)
THEOREM Genuine == Spec => AnswerGenuine
<1>1. ASSUME IInv, [Next]_vars, waiting, ~waiting', failures' = 0
      PROVE  trip'["a72"] = Plus(trip["a72"], 2)
  <2>1. plmSends
    BY <1>1 DEF IInv, ModeInv
  <2>2. ReadResponse
    BY <1>1, <2>1, OnlyReadResponse
  <2>3. /\ trip \in [Cpus -> Words] /\ Cpus = {"r5", "a72"}
        /\ failures \in Nat
    BY <1>1, BoundsAssumption DEF IInv, TypeOK, Cpus
  <2>4. failures = 0 /\ trip'["a72"] = Plus(plmResp["a72"], 1)
    BY <1>1, <2>2, <2>3 DEF ReadResponse, Succeeds, Fails
  <2>5. plmResp["a72"] = Plus(trip["a72"], 1)
    BY <1>1, <2>1, <2>2, <2>4 DEF IInv, AnswerInv, ReceiverInv, ReadResponse
  <2> QED BY <2>3, <2>4, <2>5, PlusTwice
<1> QED BY <1>1, Invariance, PTL DEF AnswerGenuine, Spec

(***************************************************************************)
(* The A72 takes at most one stale response for each restart.              *)
(***************************************************************************)
THEOREM StaleFew == Spec => []StaleBounded
<1>1. IInv => StaleBounded
  BY DEF IInv, SenderInv, StaleBounded
<1> QED BY <1>1, Invariance, PTL
=============================================================================
