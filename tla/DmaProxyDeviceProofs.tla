------------------------- MODULE DmaProxyDeviceProofs -------------------------
(***************************************************************************)
(* Proofs about DmaProxyDevice: the memory of a channel outlives every     *)
(* transfer into it, and a probe that gets past class_create starts from   *)
(* nothing, for every number of buffers and transfers, every speed of the  *)
(* stream and the timers, and a control C at any moment.                   *)
(***************************************************************************)
EXTENDS DmaProxyDevice, TLAPS

AppStages == {"starting", "started", "finish", "finished", "restart", "exited", "aborted"}

\* The channels that the loop over channel_count has passed.
Passed == IF created = 0 THEN {} ELSE IF created = 1 THEN {"tx"} ELSE {"tx", "rx"}

Engaged(c) == inflight[c] # {} \/ callbacks[c] # {}

\* As much of the types as the argument needs.
ShapeInv ==
  /\ pc \in [Threads -> Locations] /\ at \in [Threads -> Stages]
  /\ inflight = [c \in Channels |-> inflight[c]]
  /\ callbacks = [c \in Channels |-> callbacks[c]]
  /\ load \in Loads /\ created \in {0, 1, 2}
  /\ load \in {"request", "publish", "memory", "release"} => created \in {0, 1}
  /\ internal_test \in BOOLEAN
  /\ main \in {"none", "open", "running", "lost"}
  /\ nodes \subseteq Channels /\ requested \subseteq Channels
  /\ memory \subseteq Channels /\ opened \subseteq Channels

\* What probe has built and remove has taken down, place by place; where there
\* is no class, there is nothing.
LoadInv ==
  /\ load \in {"out", "class", "region", "failed"} => memory = {}
  /\ load \in {"request", "publish", "memory"} => memory = Passed
  /\ load \in {"test", "bound", "exit", "release", "destroy"} => memory = Channels
  /\ "class" \notin kept =>
       load \in {"out", "class", "failed", "free"} /\ nodes = {} /\ requested = {}
  /\ load = "region" => nodes = {} /\ requested = {}
  /\ load \in {"class", "region", "exit"} => created = 0
  /\ load \in {"release", "destroy"} => nodes = {}
  /\ load = "release" => requested \cap Passed = {}
  /\ load = "destroy" => requested = {}
  /\ load = "test" => internal_test

\* The engine has work only between the end of a probe and the release.
EngineInv ==
  \A c \in Channels : Engaged(c) =>
    /\ load \in {"test", "bound", "exit", "release"}
    /\ load = "release" => c \notin Passed

\* The application and the internal test are not there together, and an
\* application that has got as far as its last file runs on a bound driver.
MainInv ==
  /\ main # "none" => ~internal_test
  /\ main \in {"open", "lost"} => Idle
  /\ main = "none" => opened = {}
  /\ main = "running" => load = "bound" /\ opened = Channels
  /\ main = "open" /\ "rx" \in opened => load = "bound"
  /\ main = "lost" => early

\* A thread inside an ioctl keeps the driver bound.
ThreadInv ==
  \A t \in Threads :
    /\ at[t] \in AppStages => main = "running"
    /\ at[t] = "absent" => pc[t] = "user"
    /\ at[t] = "scheduled" \/ pc[t] # "user" => load \in {"test", "bound"}
    /\ at[t] \in {"scheduled", "test"} =>
         internal_test /\ load \in {"test", "bound", "exit", "release", "destroy", "free"}

IInv == ShapeInv /\ LoadInv /\ EngineInv /\ MainInv /\ ThreadInv

----------------------------------------------------------------------------
(***************************************************************************)
(* There are the two channels, created in this order.                      *)
(***************************************************************************)
LEMMA Names ==
  /\ Len(names) = 2 /\ names[1] = "tx" /\ names[2] = "rx"
  /\ Channels = {"tx", "rx"} /\ Threads = {"tx", "rx"}
BY TestAssumption DEF names

\* What a step of the driver, the application or the hardware does to what the
\* life of the driver depends on.
Effect ==
  /\ \A c \in Channels : Engaged(c)' => Engaged(c) \/ \E t \in Threads : pc[t] # "user"
  /\ \A t \in Threads :
       at'[t] = at[t] \/ (at'[t] \in AppStages /\ \E s \in Threads : at[s] \in AppStages)
  /\ \A t \in Threads : pc'[t] # "user" => pc[t] # "user" \/ at[t] \in AppStages
  /\ pc' \in [Threads -> Locations] /\ at' \in [Threads -> Stages]
  /\ inflight' = [c \in Channels |-> inflight'[c]]
  /\ callbacks' = [c \in Channels |-> callbacks'[c]]

(***************************************************************************)
(* A step inside the driver is one of a thread inside ioctl; only a        *)
(* submission gives the engine work.                                       *)
(***************************************************************************)
LEMMA StepEffect ==
  ASSUME ShapeInv, NEW t \in Threads, Step(t), UNCHANGED at
  PROVE  Effect
<1>1. pc[t] # "user"
  BY DEF Step, Prepare, InitCompletion, Submit, Issue, Wait, Wake, Expire, Check, Report
<1>2. pc' \in [Threads -> Locations] /\ \A s \in Threads \ {t} : pc'[s] = pc[s]
  BY DEF Step, Prepare, InitCompletion, Submit, Issue, Wait, Wake, Expire, Check, Report,
         AfterStart, ShapeInv, Locations
<1>3. callbacks' = callbacks
  BY DEF Step, Prepare, InitCompletion, Submit, Issue, Wait, Wake, Expire, Check, Report,
         engineVars
<1>4. inflight' = [c \in Channels |-> inflight'[c]]
  BY DEF Step, Prepare, InitCompletion, Submit, Issue, Wait, Wake, Expire, Check, Report,
         engineVars, ShapeInv
<1> QED BY <1>1, <1>2, <1>3, <1>4 DEF Effect, ShapeInv

(***************************************************************************)
(* An ioctl is called by a thread of the application.                      *)
(***************************************************************************)
LEMMA IoctlEffect ==
  ASSUME ShapeInv, NEW t \in Threads, NEW k \in {"START_XFER", "FINISH_XFER"}, NEW b,
         Ioctl(t, k, b)
  PROVE  /\ pc' \in [Threads -> Locations]
         /\ \A s \in Threads : pc'[s] # "user" => pc[s] # "user" \/ s = t
         /\ UNCHANGED <<inflight, callbacks>>
BY DEF Ioctl, FirstStep, ShapeInv, Locations, engineVars

(***************************************************************************)
(* The engine completes what it has.                                       *)
(***************************************************************************)
LEMMA EngineEffect ==
  ASSUME ShapeInv, NEW c \in Channels, Complete(c) \/ Callback(c), UNCHANGED at
  PROVE  Effect
<1>1. UNCHANGED pc
  BY DEF Complete, Callback, threadVars
<1>2. Engaged(c)
  BY DEF Complete, Callback, Oldest, Engaged
<1>3. /\ inflight' = [d \in Channels |-> inflight'[d]]
      /\ callbacks' = [d \in Channels |-> callbacks'[d]]
      /\ \A d \in Channels \ {c} : inflight'[d] = inflight[d] /\ callbacks'[d] = callbacks[d]
  BY DEF Complete, Callback, ShapeInv
<1> QED BY <1>1, <1>2, <1>3 DEF Effect, Engaged, ShapeInv

(***************************************************************************)
(* Whatever runs while the driver is there: the application moves only     *)
(* itself, and calls the driver only from its own stages.                  *)
(***************************************************************************)
LEMMA RunningEffect == ShapeInv /\ Running => Effect
<1> SUFFICES ASSUME ShapeInv, Running PROVE Effect
  OBVIOUS
<1> USE DEF Move
<1>1. CASE SigInt
  BY <1>1 DEF SigInt, vars, engineVars, threadVars, Effect, Engaged, ShapeInv
<1>2. ASSUME NEW t \in Threads, Thread(t) PROVE Effect
  <2>1. CASE StartBuffer(t)
    <3>1. Ioctl(t, "START_XFER", buffer_id[t]) /\ at[t] = "starting"
          /\ at' = [at EXCEPT ![t] = "started"]
      BY <2>1 DEF StartBuffer
    <3> QED BY <3>1, IoctlEffect DEF Effect, Engaged, ShapeInv, AppStages, Stages
  <2>2. CASE Started(t)
    BY <2>2 DEF Started, vars, engineVars, threadVars, Effect, Engaged, ShapeInv,
                AppStages, Stages
  <2>3. CASE Finish(t)
    <3>1. Ioctl(t, "FINISH_XFER", buffer_id[t]) /\ at[t] = "finish"
          /\ at' = [at EXCEPT ![t] = "finished"]
      BY <2>3 DEF Finish
    <3> QED BY <3>1, IoctlEffect DEF Effect, Engaged, ShapeInv, AppStages, Stages
  <2> QED BY <1>2, <2>1, <2>2, <2>3 DEF Thread
<1>3. ASSUME NEW t \in Threads, Driver(t) PROVE Effect
  BY <1>3, StepEffect DEF Driver
<1>4. CASE TxFinished
  <2>0. "tx" \in Threads
    BY Names
  <2>1. /\ at["tx"] = "finished"
        /\ \/ at' = [at EXCEPT !["tx"] = "exited"]
           \/ at' = [at EXCEPT !["tx"] = "finish"]
        /\ UNCHANGED vars \/ Ioctl("tx", "START_XFER", buffer_id["tx"])
    BY <1>4 DEF TxFinished
  <2>2. CASE UNCHANGED vars
    BY <2>0, <2>1, <2>2 DEF vars, engineVars, threadVars, Effect, Engaged, ShapeInv,
                            AppStages, Stages
  <2>3. CASE Ioctl("tx", "START_XFER", buffer_id["tx"])
    BY <2>0, <2>1, <2>3, IoctlEffect DEF Effect, Engaged, ShapeInv, AppStages, Stages
  <2> QED BY <2>1, <2>2, <2>3
<1>5. CASE Rx
  <2>0. "rx" \in Threads
    BY Names
  <2>1. CASE RxError
    BY <2>0, <2>1 DEF RxError, vars, engineVars, threadVars, Effect, Engaged, ShapeInv,
                      AppStages, Stages
  <2>2. CASE RxFinished
    BY <2>0, <2>2 DEF RxFinished, vars, engineVars, threadVars, Effect, Engaged, ShapeInv,
                      AppStages, Stages
  <2>3. CASE RxRestart
    <3>1. /\ at["rx"] = "restart" /\ at' = [at EXCEPT !["rx"] = "finish"]
          /\ UNCHANGED vars \/ Ioctl("rx", "START_XFER", buffer_id["rx"])
      BY <2>3 DEF RxRestart
    <3>2. CASE UNCHANGED vars
      BY <2>0, <3>1, <3>2 DEF vars, engineVars, threadVars, Effect, Engaged, ShapeInv,
                              AppStages, Stages
    <3>3. CASE Ioctl("rx", "START_XFER", buffer_id["rx"])
      BY <2>0, <3>1, <3>3, IoctlEffect DEF Effect, Engaged, ShapeInv, AppStages, Stages
    <3> QED BY <3>1, <3>2, <3>3
  <2> QED BY <1>5, <2>1, <2>2, <2>3 DEF Rx
<1>6. CASE Hardware
  <2>1. "tx" \in Channels /\ "rx" \in Channels
    BY Names
  <2> QED BY <1>6, <2>1, EngineEffect DEF Hardware, Transmit, Receive
<1>7. ASSUME NEW c \in Channels, Tasklet(c) PROVE Effect
  BY <1>7, EngineEffect DEF Tasklet, appVars
<1> QED BY <1>1, <1>2, <1>3, <1>4, <1>5, <1>6, <1>7 DEF Running

(***************************************************************************)
(* While the life of the driver stands still, the invariant is kept.       *)
(***************************************************************************)
LEMMA AloneKeeps == IInv /\ Alone(Running) => IInv'
<1> SUFFICES ASSUME IInv, Alone(Running) PROVE IInv'
  OBVIOUS
<1>1. Effect
  BY RunningEffect DEF IInv, Alone
<1>2. UNCHANGED <<load, created, internal_test, kept, nodes, requested, memory>>
      /\ UNCHANGED <<main, opened, early>>
  BY DEF Alone, deviceVars, lifeVars, mainVars
<1>3. ASSUME NEW t \in Threads, at[t] \in AppStages
      PROVE  main = "running" /\ load = "bound"
  BY <1>3 DEF IInv, ThreadInv, MainInv
<1>4. ASSUME NEW t \in Threads, pc[t] # "user" PROVE load \in {"test", "bound"}
  BY <1>4 DEF IInv, ThreadInv
<1>5. ShapeInv'
  BY <1>1, <1>2 DEF Effect, IInv, ShapeInv
<1>6. LoadInv'
  BY <1>2 DEF IInv, LoadInv, Passed
<1>7. EngineInv'
  <2> SUFFICES ASSUME NEW c \in Channels, Engaged(c)'
               PROVE  /\ load \in {"test", "bound", "exit", "release"}
                      /\ load = "release" => c \notin Passed
    BY <1>2 DEF EngineInv, Passed
  <2>1. CASE Engaged(c)
    BY <2>1 DEF IInv, EngineInv
  <2>2. CASE \E t \in Threads : pc[t] # "user"
    BY <2>2, <1>4
  <2> QED BY <1>1, <2>1, <2>2 DEF Effect
<1>8. MainInv'
  <2>1. CASE main \in {"open", "lost"}
    <3>1. Idle
      BY <2>1 DEF IInv, MainInv
    <3>2. at' = at
      BY <1>1, <3>1 DEF Effect, Idle, AppStages, IInv, ShapeInv
    <3> QED BY <1>2, <3>2, <3>1 DEF IInv, MainInv, Idle
  <2>2. CASE main \notin {"open", "lost"}
    BY <2>2, <1>2 DEF IInv, MainInv
  <2> QED BY <2>1, <2>2
<1>9. ThreadInv'
  <2> SUFFICES ASSUME NEW t \in Threads
               PROVE  /\ at'[t] \in AppStages => main = "running"
                      /\ at'[t] = "absent" => pc'[t] = "user"
                      /\ at'[t] = "scheduled" \/ pc'[t] # "user" => load \in {"test", "bound"}
                      /\ at'[t] \in {"scheduled", "test"} =>
                           internal_test
                           /\ load \in {"test", "bound", "exit", "release", "destroy", "free"}
    BY <1>2 DEF ThreadInv
  <2>1. CASE at'[t] = at[t]
    BY <2>1, <1>1, <1>3, <1>4 DEF Effect, IInv, ThreadInv, AppStages
  <2>2. CASE at'[t] \in AppStages /\ \E s \in Threads : at[s] \in AppStages
    BY <2>2, <1>3 DEF AppStages
  <2> QED BY <1>1, <2>1, <2>2 DEF Effect
<1> QED BY <1>5, <1>6, <1>7, <1>8, <1>9 DEF IInv

----------------------------------------------------------------------------
(***************************************************************************)
(* Loading.  A probe builds on nothing; when it is refused something, the  *)
(* class remains as the sign of whatever else does.                        *)
(***************************************************************************)
LEMMA ProbeKeeps == IInv /\ (Insmod \/ ProbeFails \/ Probe) => IInv'
<1> SUFFICES ASSUME IInv, Insmod \/ ProbeFails \/ Probe PROVE IInv'
  OBVIOUS
<1> USE DEF IInv, ShapeInv, LoadInv, EngineInv, MainInv, ThreadInv, Engaged, Idle, Passed, Loads
<1>1. CASE Insmod
  BY <1>1 DEF Insmod, allVars, appVars, vars, engineVars, threadVars, mainVars
<1>2. CASE ProbeFails
  BY <1>2 DEF ProbeFails, allVars, appVars, vars, engineVars, threadVars, mainVars
<1>3. CASE CreateClass
  BY <1>3 DEF CreateClass, allVars, appVars, vars, engineVars, threadVars, mainVars
<1>4. CASE AllocRegion
  BY <1>4 DEF AllocRegion, allVars, appVars, vars, engineVars, threadVars, mainVars
<1>5. CASE RequestChannel
  BY <1>5, Names DEF RequestChannel, This, allVars, appVars, vars, engineVars, threadVars, mainVars
<1>6. CASE Publish
  BY <1>6, Names DEF Publish, This, allVars, appVars, vars, engineVars, threadVars, mainVars
<1>7. CASE Allocate
  BY <1>7, Names DEF Allocate, This, engineVars, threadVars, mainVars
<1>8. CASE Test
  BY <1>8, Names DEF Test, Transfer, Locations, Stages, AppStages, engineVars, deviceVars,
                     lifeVars, mainVars
<1>9. CASE TestTransmit
  BY <1>9, Names DEF TestTransmit, Transfer, Locations, Stages, AppStages, engineVars,
                     deviceVars, lifeVars, mainVars
<1>10. CASE TestDone
  BY <1>10 DEF TestDone, allVars, appVars, vars, engineVars, threadVars, mainVars
<1> QED BY <1>1, <1>2, <1>3, <1>4, <1>5, <1>6, <1>7, <1>8, <1>9, <1>10 DEF Probe

(***************************************************************************)
(* Removing.  Nobody is inside the driver any more, and each channel's     *)
(* transfers end before it is released.                                    *)
(***************************************************************************)
LEMMA RemoveKeeps == IInv /\ Remove => IInv'
<1> SUFFICES ASSUME IInv, Remove PROVE IInv'
  OBVIOUS
<1> USE DEF IInv, ShapeInv, LoadInv, EngineInv, MainInv, ThreadInv, Engaged, Idle, Passed, Loads
<1>1. CASE Rmmod
  BY <1>1, Names DEF Rmmod, allVars, appVars, vars, engineVars, threadVars, mainVars
<1>2. CASE RmmodFailed
  BY <1>2 DEF RmmodFailed, allVars, appVars, vars, engineVars, threadVars, mainVars
<1>3. CASE ExitDevices
  BY <1>3 DEF ExitDevices, allVars, appVars, vars, engineVars, threadVars, mainVars
<1>4. CASE ReleaseChannel
  <2>1. /\ load = "release" /\ created \in {0, 1} /\ created' = created + 1
        /\ This = (IF created = 0 THEN "tx" ELSE "rx") /\ This \in Channels
        /\ load' = (IF created = 0 THEN "release" ELSE "destroy")
        /\ requested' = requested \ {This}
        /\ inflight' = [inflight EXCEPT ![This] = {}]
        /\ callbacks' = [callbacks EXCEPT ![This] = {}]
        /\ UNCHANGED <<pc, at, internal_test, kept, nodes, memory, main, opened, early>>
    BY <1>4, Names DEF ReleaseChannel, This, AfterRelease, threadVars, mainVars
  <2>2. ShapeInv'
    <3>1. /\ inflight' = [c \in Channels |-> inflight'[c]]
          /\ callbacks' = [c \in Channels |-> callbacks'[c]]
      BY <2>1
    <3>2. load' \in Loads /\ created' \in {0, 1, 2}
          /\ (load' \in {"request", "publish", "memory", "release"} => created' \in {0, 1})
      BY <2>1
    <3> QED BY <2>1, <3>1, <3>2
  <2>3. LoadInv'
    BY <2>1, Names
  <2>4. EngineInv'
    BY <2>1, Names
  <2>5. MainInv' /\ ThreadInv'
    BY <2>1
  <2> QED BY <2>2, <2>3, <2>4, <2>5
<1>5. CASE Destroy
  BY <1>5 DEF Destroy, allVars, appVars, vars, engineVars, threadVars, mainVars
<1>6. CASE Free
  BY <1>6 DEF Free, Stages, AppStages, vars, engineVars, threadVars, mainVars
<1> QED BY <1>1, <1>2, <1>3, <1>4, <1>5, <1>6 DEF Remove

(***************************************************************************)
(* The application's main.                                                 *)
(***************************************************************************)
LEMMA MainKeeps == IInv /\ Main => IInv'
<1> SUFFICES ASSUME IInv, Main PROVE IInv'
  OBVIOUS
<1> USE DEF IInv, ShapeInv, LoadInv, EngineInv, MainInv, ThreadInv, Engaged, Idle, Passed, Loads
<1>1. CASE Start
  BY <1>1, Names DEF Start, allVars, appVars, vars, engineVars, threadVars, lifeVars
<1>2. CASE Open
  BY <1>2, Names DEF Open, Wanted, Leaving, allVars, appVars, vars, engineVars, threadVars,
                     lifeVars
<1>3. CASE OpenFails
  BY <1>3 DEF OpenFails, allVars, appVars, vars, engineVars, threadVars, lifeVars
<1>4. CASE LostEnds
  BY <1>4 DEF LostEnds, allVars, appVars, vars, engineVars, threadVars, lifeVars
<1>5. CASE SetupThreads
  BY <1>5, Names DEF SetupThreads, Stages, AppStages, vars, engineVars, threadVars, lifeVars
<1>6. CASE Close
  BY <1>6 DEF Close, Ended, Stages, AppStages, vars, engineVars, threadVars, lifeVars
<1> QED BY <1>1, <1>2, <1>3, <1>4, <1>5, <1>6 DEF Main

----------------------------------------------------------------------------
(***************************************************************************)
(* The invariant holds before the first load, and every step keeps it.     *)
(***************************************************************************)
LEMMA InitInv == InitDevice => IInv
<1> SUFFICES ASSUME InitDevice PROVE IInv
  OBVIOUS
<1>1. /\ load = "out" /\ created = 0 /\ internal_test = FALSE
      /\ kept = {} /\ nodes = {} /\ requested = {} /\ memory = {}
      /\ main = "none" /\ opened = {} /\ early = FALSE
  BY DEF InitDevice
<1>2. at = [t \in Threads |-> "absent"] /\ pc = [t \in Threads |-> "user"]
  BY DEF InitDevice, InitApp, Init
<1>3. inflight = [c \in Channels |-> {}] /\ callbacks = [c \in Channels |-> {}]
  BY DEF InitDevice, InitApp, Init
<1>4. ShapeInv
  BY <1>1, <1>2, <1>3 DEF ShapeInv, Loads, Locations, Stages
<1>5. LoadInv /\ MainInv
  BY <1>1 DEF LoadInv, MainInv, Passed
<1>6. EngineInv
  BY <1>3 DEF EngineInv, Engaged
<1>7. ThreadInv
  BY <1>2 DEF ThreadInv, AppStages
<1> QED BY <1>4, <1>5, <1>6, <1>7 DEF IInv

(***************************************************************************)
(* The invariant that the theorems below follow from: what probe has built *)
(* and remove has taken down at each of their places, whom the engine can  *)
(* be working for, and where the application and its threads can then be.  *)
(***************************************************************************)
THEOREM Invariance == SpecDevice => []IInv
<1>1. IInv /\ [NextDevice]_systemVars => IInv'
  <2> SUFFICES ASSUME IInv, [NextDevice]_systemVars PROVE IInv'
    OBVIOUS
  <2>1. CASE UNCHANGED systemVars
    BY <2>1 DEF systemVars, allVars, appVars, vars, engineVars, threadVars, deviceVars, lifeVars,
       mainVars, IInv, ShapeInv, LoadInv, EngineInv, MainInv, ThreadInv, Engaged, Idle, Passed
  <2> QED BY <2>1, ProbeKeeps, RemoveKeeps, MainKeeps, AloneKeeps DEF NextDevice
<1> QED BY <1>1, InitInv, PTL DEF SpecDevice

(***************************************************************************)
(* The engine has a descriptor only for memory that is there, a running    *)
(* application keeps its memory, and one that finds none was early.        *)
(***************************************************************************)
THEOREM Memory == SpecDevice => []MemoryLive
<1>1. IInv => MemoryLive
  <2> SUFFICES ASSUME IInv PROVE MemoryLive
    OBVIOUS
  <2>1. ASSUME NEW c \in Channels, inflight[c] # {} PROVE c \in memory
    <3>1. load \in {"test", "bound", "exit", "release"}
      BY <2>1 DEF IInv, EngineInv, Engaged
    <3> QED BY <3>1 DEF IInv, LoadInv
  <2>2. main = "running" => memory = Channels
    BY DEF IInv, MainInv, LoadInv
  <2>3. main = "lost" => early
    BY DEF IInv, MainInv
  <2> QED BY <2>1, <2>2, <2>3 DEF MemoryLive
<1> QED BY <1>1, Invariance, PTL

(***************************************************************************)
(* A probe that gets past class_create finds nothing of an earlier driver. *)
(***************************************************************************)
THEOREM Fresh == SpecDevice => []FreshStart
<1>1. IInv => FreshStart
  BY DEF IInv, LoadInv, EngineInv, Engaged, FreshStart
<1> QED BY <1>1, Invariance, PTL
=============================================================================
