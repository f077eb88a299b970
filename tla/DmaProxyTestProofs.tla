-------------------------- MODULE DmaProxyTestProofs --------------------------
(***************************************************************************)
(* Proofs about DmaProxyTest as DmaProxyDevice runs it: the application    *)
(* shuts down gracefully, verifies in order and writes no buffer that is   *)
(* in flight, for every number of receive buffers and transfers and every  *)
(* depth of the stream.                                                    *)
(***************************************************************************)
EXTENDS DmaProxyProofs, DmaProxyDeviceProofs

(***************************************************************************)
(* The application as dma-proxy.h configures it, an engine that refuses    *)
(* nothing, a control C that leaves RX_BUFFER_COUNT transfers to be done,  *)
(* and hardware that only a receive transfer may have to wait for.         *)
(***************************************************************************)
AsShipped ==
  /\ TX_BUFFER_COUNT = 1 /\ BUFFER_INCREMENT = 1
  /\ PrepCanFail = FALSE /\ SubmitCanFail = FALSE
  /\ LateStop = FALSE /\ "tx" \notin SlowFor

----------------------------------------------------------------------------
(* The names of the argument.  A thread and its channel have one name.     *)

Starting(t) == pc[t] \in {"start", "init", "submit"}

\* The buffer that the ioctl of a thread works on.
Target(t) == IF pc[t] \in {"start", "wait"} THEN bdindex[t] ELSE bd[t]

\* The transfers a thread has asked for, the one it is starting included.
Begun(t) == IF Starting(t) THEN used[t] + 1 ELSE used[t]

\* The buffers as a circular list, from the one to be finished next.
After(t, b) == IF b + 1 = BufferCount[t] THEN 0 ELSE b + 1
First(t) ==
  IF at[t] \in {"starting", "started"} THEN 0
  ELSE IF at[t] = "restart" THEN After(t, buffer_id[t]) ELSE buffer_id[t]
Distance(f, n, b) == IF b >= f THEN b - f ELSE b - f + n
Offset(t, b) == Distance(First(t), BufferCount[t], b)

\* The descriptors the engine has for a channel.
Held(c) == inflight[c] \cup callbacks[c]

----------------------------------------------------------------------------
(* The invariant, for one thread and its channel                           *)

\* Where an ioctl can be while the thread is at a place of its loop.
PlaceInv(t) ==
  /\ at[t] \in AppStages \ {"aborted"}
  /\ at[t] \in {"starting", "restart", "exited"} => pc[t] = "user"
  /\ at[t] \in {"started", "finish"} => pc[t] \in {"user", "start", "init", "submit", "issue"}
  /\ at[t] = "finished" => pc[t] \in {"user", "wait", "sleep", "check", "report"}
  /\ at[t] = "finished" /\ pc[t] # "user" => Target(t) = buffer_id[t]
  /\ Starting(t) \/ pc[t] = "issue" => cmd[t] # "XFER"

\* The engine has the descriptor of every transfer that has begun and is not
\* complete, and of nothing else; a buffer that is owed a completion has it,
\* or its descriptor is with the engine.
QueueInv(c) ==
  /\ completed[c] <= used[c]
  /\ \A d \in inflight[c] : completed[c] < d.cookie /\ d.cookie <= used[c]
  /\ \A d, e \in inflight[c] : d.cookie = e.cookie => d = e
  /\ \A d \in callbacks[c] : d.cookie <= completed[c]
  /\ \A k \in Nat : completed[c] < k /\ k <= used[c] => \E d \in inflight[c] : d.cookie = k
  /\ \A d \in Held(c) :
       cookie[c][d.bd] = d.cookie /\ claim[c][d.bd] = "owed" /\ done[c][d.bd] = 0
  /\ \A b \in Buffers : claim[c][b] = "owed" =>
       /\ completed[c] < cookie[c][b] => \E d \in inflight[c] : d.bd = b
       /\ done[c][b] = 0 => \E d \in Held(c) : d.bd = b
  /\ \A b \in Buffers : claim[c][b] = "taken" => cookie[c][b] <= completed[c]

ArmedInv(t) ==
  /\ armed[t] => inflight[t] # {}
  /\ inflight[t] # {} => armed[t] \/ pc[t] = "issue"

\* A buffer that is being started is the one after those in progress, and the
\* engine has nothing of it.
LaunchInv(t) ==
  Starting(t) =>
    /\ Target(t) < BufferCount[t]
    /\ Offset(t, Target(t)) = used[t] - counter[t]
    /\ \A d \in Held(t) : d.bd # Target(t)
    /\ pc[t] # "start" => claim[t][Target(t)] = "none"
    /\ pc[t] = "submit" => done[t][Target(t)] = 0

\* The transfers in progress, in the order of the circular list.
OutstandingInv(t) ==
  \A b \in Buffers : b < BufferCount[t] /\ Offset(t, b) < used[t] - counter[t] =>
    /\ cookie[t][b] = counter[t] + 1 + Offset(t, b)
    /\ \/ claim[t][b] = "owed"
       \/ /\ claim[t][b] = "taken"
          /\ b = buffer_id[t] /\ at[t] = "finished" /\ pc[t] \in {"check", "report", "user"}

\* The other buffers are owed nothing.
RestInv(t) ==
  \A b \in Buffers : b < BufferCount[t] /\ ~(Offset(t, b) < used[t] - counter[t]) =>
    claim[t][b] # "owed"

\* What the wait for a buffer has found out.  Only a receive transfer that was
\* too slow is given up.
Acknowledged(t) == claim[t][buffer_id[t]] = "taken"
GivenUp(t) == t = "rx" /\ overslept
WaitInv(t) ==
  at[t] = "finished" =>
    /\ pc[t] \in {"wait", "sleep"} => claim[t][buffer_id[t]] = "owed"
    /\ pc[t] \in {"check", "report"} => IF timedout[t] THEN GivenUp(t) ELSE Acknowledged(t)
    /\ pc[t] = "report" /\ ~timedout[t] => txstatus[t] = "COMPLETE"
    /\ pc[t] = "user" =>
         IF status[t][buffer_id[t]] = "NO_ERROR" THEN Acknowledged(t) ELSE GivenUp(t)

\* How far a thread is.  It keeps all its buffers in progress, as long as it
\* does not ask for more transfers than are wanted.
CountInv(t) ==
  LET n == BufferCount[t]  p == in_progress_count[t] IN
  /\ buffer_id[t] < n
  /\ Begun(t) = counter[t] + p + IF at[t] = "started" THEN 1 ELSE 0
  /\ Begun(t) <= num_transfers
  /\ counter[t] <= completed[t]
  /\ at[t] \in {"starting", "started"} => counter[t] = 0 /\ p = buffer_id[t]
  /\ at[t] = "starting" => p < num_transfers
  /\ at[t] \in {"finish", "finished"} =>
       1 <= p /\ p <= n /\ (p = n \/ counter[t] + p = num_transfers)
  /\ at[t] = "restart" =>
       /\ t = "rx" /\ counter[t] < num_transfers
       /\ p <= n - 1 /\ (p = n - 1 \/ counter[t] + p = num_transfers)
  /\ at[t] = "exited" => counter[t] = num_transfers

ChannelInv(t) ==
  /\ PlaceInv(t) /\ QueueInv(t) /\ ArmedInv(t) /\ LaunchInv(t) /\ OutstandingInv(t)
  /\ RestInv(t) /\ WaitInv(t)

\* The pattern is on its way: a transfer carries its number, less one, from
\* the transmit buffer through the stream to the receive buffer.
PatternInv ==
  /\ \A d \in inflight["tx"] : word["tx"][d.bd] = d.cookie - 1
  /\ Starting("tx") => word["tx"][Target("tx")] = used["tx"]
  /\ Len(stream) = completed["tx"] - completed["rx"]
  /\ \A i \in 1 .. Len(stream) : stream[i] = completed["rx"] + i - 1
  /\ \A b \in Buffers :
       claim["rx"][b] \in {"owed", "taken"} /\ cookie["rx"][b] <= completed["rx"]
         => word["rx"][b] = cookie["rx"][b] - 1

\* A control C that tx_thread has not seen yet came in time.
StopInv == stop /\ ~stop_in_progress => counter["tx"] + 1 + RX_BUFFER_COUNT <= num_transfers

LiveInv ==
  /\ \A t \in Threads : ChannelInv(t)
  /\ \A t \in Threads : CountInv(t)
  /\ PatternInv /\ StopInv

AppInv ==
  /\ \A t \in Threads : at[t] \in AppStages
  /\ at["tx"] = "aborted" <=> at["rx"] = "aborted"
  /\ at["rx"] = "aborted" => overslept
  /\ at["rx"] # "aborted" => LiveInv

----------------------------------------------------------------------------
(* Outside the application.                                                *)

\* A channel that no transfer was submitted to has nothing, not even a claim
\* of an earlier application.
Unused(c) ==
  /\ completed[c] = 0 /\ inflight[c] = {} /\ callbacks[c] = {} /\ ~armed[c]
  /\ c = "tx" => stream = <<>>
  /\ c \in memory /\ load \notin {"release", "destroy", "free"} =>
       \A b \in Buffers : claim[c][b] = "none"

\* The application finds its channels unused, and its variables are at their
\* initial values until it runs.
UnusedInv ==
  /\ \A c \in Channels : used[c] = 0 => Unused(c)
  /\ main = "open" => \A c \in Channels : used[c] = 0
  /\ main # "running" =>
       /\ num_transfers = Transfers /\ ~stop /\ ~stop_in_progress
       /\ \A t \in Threads : buffer_id[t] = 0 /\ in_progress_count[t] = 0 /\ counter[t] = 0

\* The types that IInv does not need.
LifeTypeOK == kept \subseteq {"class", "region"} /\ early \in BOOLEAN

TestInv ==
  /\ IInv /\ TypeOKTest /\ LifeTypeOK /\ UnusedInv
  /\ main = "running" => AppInv

----------------------------------------------------------------------------
(***************************************************************************)
(* What the assumptions say: two threads, each with the channel of its     *)
(* name to itself, and their buffers.                                      *)
(***************************************************************************)
LEMMA Setting ==
  /\ Threads = {"tx", "rx"} /\ Channels = Threads /\ Exclusive
  /\ \A t \in Threads : FileOf[t] = t
  /\ RX_BUFFER_COUNT \in Nat \ {0} /\ Transfers \in Nat \ {0} /\ StreamDepth \in Nat \ {0}
  /\ BufferCount["tx"] = TX_BUFFER_COUNT /\ BufferCount["rx"] = RX_BUFFER_COUNT
  /\ \A t \in Threads : BufferCount[t] \in Nat \ {0}
  /\ \A t \in Threads : \A b \in Nat : b < BufferCount[t] => b \in Buffers
  /\ Buffers \subseteq Nat /\ 0 \in Buffers
<1>1. /\ Threads = {"tx", "rx"} /\ Channels = Threads /\ Exclusive
      /\ \A t \in Threads : FileOf[t] = t
  BY TestAssumption DEF Exclusive
<1>2. /\ TX_BUFFER_COUNT \in Nat \ {0} /\ RX_BUFFER_COUNT \in Nat \ {0}
      /\ Transfers \in Nat \ {0} /\ StreamDepth \in Nat \ {0}
  BY TestAssumption
<1>3. BufferCount["tx"] = TX_BUFFER_COUNT /\ BufferCount["rx"] = RX_BUFFER_COUNT
  BY DEF BufferCount
<1>4. /\ \A b \in Nat : b < TX_BUFFER_COUNT => b \in Buffers
      /\ \A b \in Nat : b < RX_BUFFER_COUNT => b \in Buffers
  BY <1>2, TestAssumption
<1> QED BY <1>1, <1>2, <1>3, <1>4, BuffersAssumption

(***************************************************************************)
(* The types of what belongs to one thread.                                *)
(***************************************************************************)
LEMMA Entries ==
  ASSUME TypeOK, NEW t \in Threads
  PROVE  /\ bdindex[t] \in Buffers /\ bd[t] \in Buffers /\ Target(t) \in Buffers
         /\ used[t] \in Nat /\ completed[t] \in Nat
         /\ \A b \in Buffers :
              /\ cookie[t][b] \in Int /\ done[t][b] \in Nat /\ claim[t][b] \in Claims
         /\ \A d \in Held(t) : d.bd \in Buffers /\ d.cookie \in Nat
         /\ inflight[t] \subseteq Held(t) /\ callbacks[t] \subseteq Held(t)
<1>1. t \in Channels
  BY Setting
<1>2. bdindex[t] \in Buffers /\ bd[t] \in Buffers /\ Target(t) \in Buffers
  BY <1>1 DEF TypeOK, Target
<1>3. used[t] \in Nat /\ completed[t] \in Nat
  BY <1>1 DEF TypeOK
<1>4. \A b \in Buffers : cookie[t][b] \in Int
  BY <1>1 DEF TypeOK, SubmitError
<1>5. \A b \in Buffers : done[t][b] \in Nat /\ claim[t][b] \in Claims
  BY <1>1 DEF TypeOK
<1>6. inflight[t] \subseteq Descriptors /\ callbacks[t] \subseteq Descriptors
  BY <1>1 DEF TypeOK
<1>7. \A d \in Held(t) : d.bd \in Buffers /\ d.cookie \in Nat
  BY <1>6 DEF Held, Descriptors
<1> QED BY <1>2, <1>3, <1>4, <1>5, <1>7 DEF Held

----------------------------------------------------------------------------
(* One thread and its channel, through an ioctl.                           *)

\* Nothing of a thread's ioctl and of its channel changes.
SameChannel(s) ==
  /\ pc'[s] = pc[s] /\ cmd'[s] = cmd[s] /\ bd'[s] = bd[s] /\ bdindex'[s] = bdindex[s]
  /\ timedout'[s] = timedout[s] /\ txstatus'[s] = txstatus[s]
  /\ status'[s] = status[s] /\ cookie'[s] = cookie[s] /\ done'[s] = done[s]
  /\ claim'[s] = claim[s] /\ inflight'[s] = inflight[s] /\ callbacks'[s] = callbacks[s]
  /\ armed'[s] = armed[s] /\ used'[s] = used[s] /\ completed'[s] = completed[s]

SamePlace(s) ==
  at'[s] = at[s] /\ buffer_id'[s] = buffer_id[s] /\ counter'[s] = counter[s]

(***************************************************************************)
(* Whatever does not touch a thread and its channel keeps what is known of *)
(* them.                                                                   *)
(***************************************************************************)
LEMMA ChannelFrame ==
  ASSUME NEW s \in Threads, SameChannel(s), SamePlace(s), overslept => overslept',
         ChannelInv(s)
  PROVE  ChannelInv(s)'
<1> USE DEF SameChannel, SamePlace, Held, Starting, Target, First, After, Offset
<1>1. PlaceInv(s)'
  BY DEF ChannelInv, PlaceInv
<1>2. QueueInv(s)'
  BY DEF ChannelInv, QueueInv
<1>3. ArmedInv(s)'
  BY DEF ChannelInv, ArmedInv
<1>4. LaunchInv(s)'
  BY DEF ChannelInv, LaunchInv
<1>5. OutstandingInv(s)'
  BY DEF ChannelInv, OutstandingInv
<1>6. RestInv(s)'
  BY DEF ChannelInv, RestInv
<1>7. WaitInv(s)'
  BY DEF ChannelInv, WaitInv, Acknowledged, GivenUp
<1> QED BY <1>1, <1>2, <1>3, <1>4, <1>5, <1>6, <1>7 DEF ChannelInv

(***************************************************************************)
(* The other thread of the application and its channel are left alone.     *)
(***************************************************************************)
LEMMA OtherChannel ==
  ASSUME TypeOK, NEW s \in Threads, NEW t \in Threads, s # t, Call(t) \/ Step(t)
  PROVE  SameChannel(s)
<1>1. /\ s \in Channels /\ t \in Channels /\ FileOf[s] = s /\ FileOf[t] = t
      /\ Exclusive
  BY Setting
<1>2. callbacks' = callbacks /\ completed' = completed
  BY DEF Call, Ioctl, IoctlFault, Step, Prepare, InitCompletion, Submit, Issue, Wait, Wake,
         Expire, Check, Report, engineVars
<1>3. cmd'[s] = cmd[s]
  BY DEF Call, Ioctl, IoctlFault, Step, Prepare, InitCompletion, Submit, Issue, Wait, Wake,
         Expire, Check, Report, threadVars, TypeOK
<1>4. bdindex'[s] = bdindex[s]
  BY <1>1 DEF Call, Ioctl, IoctlFault, Step, Prepare, InitCompletion, Submit, Issue, Wait, Wake,
         Expire, Check, Report, driverVars, TypeOK, Chan
<1>5. used'[s] = used[s]
  BY <1>1 DEF Call, Ioctl, IoctlFault, Step, Prepare, InitCompletion, Submit, Issue, Wait, Wake,
         Expire, Check, Report, engineVars, TypeOK, Chan
<1>6. armed'[s] = armed[s]
  BY <1>1 DEF Call, Ioctl, IoctlFault, Step, Prepare, InitCompletion, Submit, Issue, Wait, Wake,
         Expire, Check, Report, engineVars, TypeOK, Chan
<1> QED BY <1>1, <1>2, <1>3, <1>4, <1>5, <1>6, Isolation DEF SameChannel

(***************************************************************************)
(* The distance of a buffer from the first one.                            *)
(***************************************************************************)
LEMMA OffsetRange ==
  ASSUME TypeOKTest, NEW t \in Threads, CountInv(t), NEW b \in Nat, b < BufferCount[t]
  PROVE  Offset(t, b) \in Nat /\ Offset(t, b) < BufferCount[t]
<1>1. /\ BufferCount[t] \in Nat \ {0} /\ buffer_id[t] \in Nat
      /\ buffer_id[t] < BufferCount[t]
  BY Setting DEF TypeOKTest, CountInv
<1>2. First(t) \in Nat /\ First(t) < BufferCount[t]
  BY <1>1 DEF First, After
<1> QED BY <1>1, <1>2 DEF Offset, Distance

(***************************************************************************)
(* Two buffers of the circular list at the same distance from the first    *)
(* are one buffer.                                                         *)
(***************************************************************************)
LEMMA OffsetUnique ==
  ASSUME TypeOKTest, NEW t \in Threads, CountInv(t),
         NEW a \in Nat, NEW b \in Nat, a < BufferCount[t], b < BufferCount[t],
         Offset(t, a) = Offset(t, b)
  PROVE  a = b
<1>1. /\ BufferCount[t] \in Nat \ {0} /\ buffer_id[t] \in Nat
      /\ buffer_id[t] < BufferCount[t]
  BY Setting DEF TypeOKTest, CountInv
<1>2. First(t) \in Nat /\ First(t) < BufferCount[t]
  BY <1>1 DEF First, After
<1> QED BY <1>1, <1>2 DEF Offset, Distance

\* What the steps of an ioctl leave to the application.
InsideIoctl ==
  /\ UNCHANGED <<num_transfers, stop, stop_in_progress, at, buffer_id, in_progress_count,
                 counter, word, stream>>
  /\ overslept => overslept'

(***************************************************************************)
(* Prepare: a buffer that is started again is forgotten first; the engine  *)
(* has no descriptor that could miss the claim.                            *)
(***************************************************************************)
LEMMA PrepareKeepsChannel ==
  ASSUME AsShipped, TypeOKTest, NEW t \in Threads, ChannelInv(t), CountInv(t), InsideIoctl,
         Prepare(t)
  PROVE  ChannelInv(t)'
<1> SUFFICES ASSUME NEW b \in Buffers, b = Target(t) PROVE ChannelInv(t)'
  BY Entries DEF TypeOKTest
<1>0. TypeOK /\ t \in Channels /\ FileOf[t] = t /\ b \in Nat
  BY Setting DEF TypeOKTest
<1>1. /\ pc[t] = "start" /\ b = bdindex[t] /\ pc'[t] = "init" /\ bd'[t] = b
      /\ claim'[t] = [claim[t] EXCEPT ![b] = "none"]
  <2>1. pc[t] = "start" /\ b = bdindex[t]
    BY <1>0 DEF Prepare, Target
  <2>2. /\ pc' = [pc EXCEPT ![t] = "init"] /\ bd' = [bd EXCEPT ![t] = b]
        /\ claim' = [claim EXCEPT ![t][b] = "none"]
    BY <1>0, <2>1 DEF Prepare, AsShipped, Chan
  <2> QED BY <1>0, <2>1, <2>2 DEF TypeOK
<1>2. UNCHANGED <<driverVars, engineVars, cmd, timedout, txstatus, at, buffer_id, counter>>
  BY DEF Prepare, InsideIoctl
<1>3. \A y \in Buffers : claim'[t][y] = IF y = b THEN "none" ELSE claim[t][y]
  BY <1>0, <1>1 DEF TypeOK
<1>4. /\ b < BufferCount[t] /\ Offset(t, b) = used[t] - counter[t]
      /\ \A d \in Held(t) : d.bd # b
  BY <1>1 DEF ChannelInv, LaunchInv, Starting
<1>5. \A d \in Held(t) : d.bd \in Buffers
  BY <1>0, Entries
<1>6. Target(t)' = b
  BY <1>1 DEF Target
<1>7. at[t] # "finished" /\ at[t] \notin {"starting", "restart", "exited"} /\ cmd[t] # "XFER"
  BY <1>1 DEF ChannelInv, PlaceInv, Starting
<1> USE DEF driverVars, engineVars
<1>8. PlaceInv(t)'
  BY <1>1, <1>2, <1>7 DEF ChannelInv, PlaceInv
<1>9. QueueInv(t)'
  BY <1>2, <1>3, <1>4, <1>5 DEF ChannelInv, QueueInv, Held
<1>10. ArmedInv(t)'
  BY <1>1, <1>2 DEF ChannelInv, ArmedInv
<1>11. LaunchInv(t)'
  <2>1. Offset(t, b)' = Offset(t, b) /\ Held(t)' = Held(t)
    BY <1>2 DEF Offset, First, After, Held
  <2>2. claim'[t][b] = "none" /\ pc'[t] = "init"
    BY <1>0, <1>1, <1>3
  <2> QED BY <1>2, <1>4, <1>6, <2>1, <2>2 DEF LaunchInv, Offset
<1>12. OutstandingInv(t)'
  <2> SUFFICES ASSUME NEW y \in Buffers, y < BufferCount[t], Offset(t, y) < used[t] - counter[t]
               PROVE  /\ cookie[t][y] = counter[t] + 1 + Offset(t, y)
                      /\ claim'[t][y] = "owed"
    BY <1>2 DEF OutstandingInv, Offset, First, After
  <2>1. y # b
    BY <1>4, Entries, <1>0 DEF TypeOKTest
  <2> QED BY <1>1, <1>3, <2>1 DEF ChannelInv, OutstandingInv
<1>13. RestInv(t)'
  BY <1>2, <1>3 DEF ChannelInv, RestInv, Offset, First, After
<1>14. WaitInv(t)'
  BY <1>2, <1>7 DEF WaitInv
<1> QED BY <1>8, <1>9, <1>10, <1>11, <1>12, <1>13, <1>14 DEF ChannelInv

(***************************************************************************)
(* InitCompletion: the completion is cleared when nothing can be lost.     *)
(***************************************************************************)
LEMMA InitCompletionKeepsChannel ==
  ASSUME AsShipped, TypeOKTest, NEW t \in Threads, ChannelInv(t), CountInv(t), InsideIoctl,
         InitCompletion(t)
  PROVE  ChannelInv(t)'
<1> SUFFICES ASSUME NEW b \in Buffers, b = Target(t) PROVE ChannelInv(t)'
  BY Entries DEF TypeOKTest
<1>0. TypeOK /\ t \in Channels /\ FileOf[t] = t /\ b \in Nat
  BY Setting DEF TypeOKTest
<1>1. /\ pc[t] = "init" /\ b = bd[t] /\ pc'[t] = "submit" /\ bd'[t] = b
      /\ done'[t] = [done[t] EXCEPT ![b] = 0]
  BY <1>0 DEF InitCompletion, Target, Chan, TypeOK
<1>2. UNCHANGED <<bdindex, status, cookie, engineVars, cmd, timedout, txstatus, claim,
                  at, buffer_id, counter>>
  BY DEF InitCompletion, InsideIoctl
<1>3. \A y \in Buffers : done'[t][y] = IF y = b THEN 0 ELSE done[t][y]
  BY <1>0, <1>1 DEF TypeOK
<1>4. /\ b < BufferCount[t] /\ Offset(t, b) = used[t] - counter[t]
      /\ \A d \in Held(t) : d.bd # b
      /\ claim[t][b] = "none"
  BY <1>1 DEF ChannelInv, LaunchInv, Starting
<1>5. \A d \in Held(t) : d.bd \in Buffers
  BY <1>0, Entries
<1>6. Target(t)' = b
  BY <1>1 DEF Target
<1>7. at[t] # "finished" /\ at[t] \notin {"starting", "restart", "exited"} /\ cmd[t] # "XFER"
  BY <1>1 DEF ChannelInv, PlaceInv, Starting
<1> USE DEF engineVars
<1>8. PlaceInv(t)'
  BY <1>1, <1>2, <1>7 DEF ChannelInv, PlaceInv
<1>9. QueueInv(t)'
  BY <1>2, <1>3, <1>4, <1>5 DEF ChannelInv, QueueInv, Held
<1>10. ArmedInv(t)'
  BY <1>1, <1>2 DEF ChannelInv, ArmedInv
<1>11. LaunchInv(t)'
  <2>1. Offset(t, b)' = Offset(t, b) /\ Held(t)' = Held(t)
    BY <1>2 DEF Offset, First, After, Held
  <2>2. done'[t][b] = 0
    BY <1>0, <1>3
  <2> QED BY <1>2, <1>4, <1>6, <2>1, <2>2 DEF LaunchInv, Offset
<1>12. OutstandingInv(t)'
  BY <1>1, <1>2, <1>7 DEF ChannelInv, OutstandingInv, Offset, First, After
<1>13. RestInv(t)'
  BY <1>1, <1>2, <1>7 DEF ChannelInv, RestInv, Offset, First, After
<1>14. WaitInv(t)'
  BY <1>2, <1>7 DEF WaitInv
<1> QED BY <1>8, <1>9, <1>10, <1>11, <1>12, <1>13, <1>14 DEF ChannelInv

(***************************************************************************)
(* Submit: the next cookie goes to the next buffer of the circular list.   *)
(***************************************************************************)
LEMMA SubmitKeepsChannel ==
  ASSUME AsShipped, TypeOKTest, NEW t \in Threads, ChannelInv(t), CountInv(t), InsideIoctl,
         Submit(t)
  PROVE  ChannelInv(t)'
<1> SUFFICES ASSUME NEW b \in Buffers, b = Target(t) PROVE ChannelInv(t)'
  BY Entries DEF TypeOKTest
<1>0. TypeOK /\ t \in Channels /\ FileOf[t] = t /\ b \in Nat
  BY Setting DEF TypeOKTest
<1>1. pc[t] = "submit" /\ b = bd[t]
  BY <1>0 DEF Submit, Target
<1>2. UNCHANGED <<bdindex, status, done, completed, armed, callbacks, cmd, bd, timedout, txstatus,
                  at, buffer_id, counter>>
  BY DEF Submit, InsideIoctl
<1> DEFINE n == [bd |-> b, cookie |-> used[t] + 1]
<1>3. /\ used' = [used EXCEPT ![t] = used[t] + 1]
      /\ inflight' = [inflight EXCEPT ![t] = inflight[t] \cup {[bd |-> b, cookie |-> used'[t]]}]
      /\ cookie' = [cookie EXCEPT ![t][b] = used'[t]]
      /\ claim' = [claim EXCEPT ![t][b] = "owed"]
      /\ pc' = [pc EXCEPT ![t] = "issue"]
  BY <1>0, <1>1 DEF Submit, AsShipped, Chan
<1>4. pc'[t] = "issue" /\ used'[t] = used[t] + 1
  BY <1>0, <1>3 DEF TypeOK
<1>5. n.bd = b /\ n.cookie = used[t] + 1
  OBVIOUS
<1>6. inflight'[t] = inflight[t] \cup {n}
  BY <1>0, <1>3, <1>4 DEF TypeOK
<1>7. \A y \in Buffers : /\ cookie'[t][y] = IF y = b THEN used[t] + 1 ELSE cookie[t][y]
                         /\ claim'[t][y] = IF y = b THEN "owed" ELSE claim[t][y]
  BY <1>0, <1>3, <1>4 DEF TypeOK
<1>8. /\ b < BufferCount[t] /\ Offset(t, b) = used[t] - counter[t]
      /\ \A d \in Held(t) : d.bd # b
      /\ claim[t][b] = "none" /\ done[t][b] = 0
  BY <1>1 DEF ChannelInv, LaunchInv, Starting
<1>9. /\ \A d \in Held(t) : d.bd \in Buffers /\ d.cookie \in Nat
      /\ used[t] \in Nat /\ completed[t] \in Nat /\ counter[t] \in Nat
  BY <1>0, Entries DEF TypeOKTest
<1>10. at[t] # "finished" /\ at[t] \notin {"starting", "restart", "exited"} /\ cmd[t] # "XFER"
  BY <1>1 DEF ChannelInv, PlaceInv, Starting
<1> HIDE DEF n
<1>11. PlaceInv(t)'
  BY <1>2, <1>4, <1>10 DEF ChannelInv, PlaceInv
<1>12. QueueInv(t)'
  <2>1. completed[t] <= used[t] + 1
    BY <1>9 DEF ChannelInv, QueueInv
  <2>2. \A d \in inflight'[t] : completed[t] < d.cookie /\ d.cookie <= used[t] + 1
    BY <1>5, <1>6, <1>9 DEF ChannelInv, QueueInv, Held
  <2>3. \A k \in Nat : completed[t] < k /\ k <= used[t] + 1 => \E d \in inflight'[t] : d.cookie = k
    BY <1>5, <1>6, <1>9 DEF ChannelInv, QueueInv
  <2>4. \A d \in Held(t)' : d \in Held(t) \/ d = n
    BY <1>2, <1>6 DEF Held
  <2>5. \A d \in Held(t)' :
          cookie'[t][d.bd] = d.cookie /\ claim'[t][d.bd] = "owed" /\ done[t][d.bd] = 0
    BY <1>5, <1>7, <1>8, <1>9, <2>4 DEF ChannelInv, QueueInv
  <2>6. ASSUME NEW y \in Buffers, claim'[t][y] = "owed"
        PROVE  /\ completed[t] < cookie'[t][y] => \E d \in inflight'[t] : d.bd = y
               /\ done[t][y] = 0 => \E d \in Held(t)' : d.bd = y
    <3>1. CASE y = b
      BY <1>5, <1>6, <3>1 DEF Held
    <3>2. CASE y # b
      BY <1>2, <1>6, <1>7, <2>6, <3>2 DEF ChannelInv, QueueInv, Held
    <3> QED BY <3>1, <3>2
  <2>7. \A d \in callbacks[t] : d.cookie <= completed[t]
    BY DEF ChannelInv, QueueInv
  <2>8. \A d, e \in inflight'[t] : d.cookie = e.cookie => d = e
    BY <1>5, <1>6, <1>9 DEF ChannelInv, QueueInv, Held
  <2>9. \A y \in Buffers : claim'[t][y] = "taken" => cookie'[t][y] <= completed[t]
    BY <1>7 DEF ChannelInv, QueueInv
  <2> QED BY <1>2, <1>4, <2>1, <2>2, <2>3, <2>5, <2>6, <2>7, <2>8, <2>9 DEF QueueInv
<1>13. ArmedInv(t)'
  BY <1>4, <1>6 DEF ArmedInv
<1>14. LaunchInv(t)'
  BY <1>4 DEF LaunchInv, Starting
<1>15. OutstandingInv(t)'
  <2> SUFFICES \A y \in Buffers :
                 y < BufferCount[t] /\ Offset(t, y) < (used[t] + 1) - counter[t] =>
                   cookie'[t][y] = counter[t] + 1 + Offset(t, y) /\ claim'[t][y] = "owed"
    <3>1. /\ First(t)' = First(t) /\ counter'[t] = counter[t] /\ used'[t] = used[t] + 1
      BY <1>2, <1>4 DEF First, After
    <3> QED BY <3>1 DEF OutstandingInv, Offset
  <2> SUFFICES ASSUME NEW y \in Buffers, y < BufferCount[t],
                      Offset(t, y) < (used[t] + 1) - counter[t]
               PROVE  cookie'[t][y] = counter[t] + 1 + Offset(t, y) /\ claim'[t][y] = "owed"
    OBVIOUS
  <2>0. y \in Nat /\ Offset(t, y) \in Nat
    BY Setting, OffsetRange
  <2>1. CASE y = b
    BY <1>7, <1>8, <1>9, <2>1
  <2>2. CASE y # b
    <3>1. Offset(t, y) # Offset(t, b)
      BY <1>0, <1>8, <2>0, <2>2, OffsetUnique
    <3>2. Offset(t, y) < used[t] - counter[t]
      BY <1>8, <1>9, <2>0, <3>1
    <3> QED BY <1>7, <1>10, <2>2, <3>2 DEF ChannelInv, OutstandingInv
  <2> QED BY <2>1, <2>2
<1>16. RestInv(t)'
  <2> SUFFICES \A y \in Buffers :
                 y < BufferCount[t] /\ ~(Offset(t, y) < (used[t] + 1) - counter[t]) =>
                   claim'[t][y] # "owed"
    <3>1. /\ First(t)' = First(t) /\ counter'[t] = counter[t] /\ used'[t] = used[t] + 1
      BY <1>2, <1>4 DEF First, After
    <3> QED BY <3>1 DEF RestInv, Offset
  <2> SUFFICES ASSUME NEW y \in Buffers, y < BufferCount[t],
                      ~(Offset(t, y) < (used[t] + 1) - counter[t])
               PROVE  claim'[t][y] # "owed"
    OBVIOUS
  <2>1. Offset(t, y) \in Nat
    BY Setting, OffsetRange
  <2>2. y # b
    BY <1>8, <1>9, <2>1
  <2>3. ~(Offset(t, y) < used[t] - counter[t])
    BY <1>9, <2>1
  <2> QED BY <1>7, <2>2, <2>3 DEF ChannelInv, RestInv
<1>17. WaitInv(t)'
  BY <1>2, <1>10 DEF WaitInv
<1> QED BY <1>11, <1>12, <1>13, <1>14, <1>15, <1>16, <1>17 DEF ChannelInv

(***************************************************************************)
(* Issue: the engine is at work.                                           *)
(***************************************************************************)
LEMMA IssueKeepsChannel ==
  ASSUME AsShipped, TypeOKTest, NEW t \in Threads, ChannelInv(t), CountInv(t), InsideIoctl,
         Issue(t)
  PROVE  ChannelInv(t)'
<1>0. TypeOK /\ t \in Channels /\ FileOf[t] = t
  BY Setting DEF TypeOKTest
<1>1. /\ pc[t] = "issue"
      /\ UNCHANGED <<driverVars, used, completed, inflight, callbacks, cmd, bd, timedout, txstatus,
                     claim, at, buffer_id, counter>>
      /\ armed' = [armed EXCEPT ![t] = inflight[t] # {}]
      /\ pc' = [pc EXCEPT ![t] = AfterStart(t)]
  BY <1>0 DEF Issue, InsideIoctl, Chan
<1>2. at[t] # "finished" /\ at[t] \notin {"starting", "restart", "exited"} /\ cmd[t] # "XFER"
  BY <1>1 DEF ChannelInv, PlaceInv
<1>3. pc'[t] = "user" /\ armed'[t] = (inflight[t] # {})
  BY <1>0, <1>1, <1>2 DEF TypeOK, AfterStart
<1> USE DEF driverVars
<1>4. PlaceInv(t)'
  BY <1>1, <1>2, <1>3 DEF ChannelInv, PlaceInv, Starting
<1>5. QueueInv(t)'
  BY <1>1 DEF ChannelInv, QueueInv, Held
<1>6. ArmedInv(t)'
  BY <1>1, <1>3 DEF ArmedInv
<1>7. LaunchInv(t)'
  BY <1>3 DEF LaunchInv, Starting
<1>8. OutstandingInv(t)'
  BY <1>1, <1>2 DEF ChannelInv, OutstandingInv, Offset, First, After
<1>9. RestInv(t)'
  BY <1>1, <1>2 DEF ChannelInv, RestInv, Offset, First, After
<1>10. WaitInv(t)'
  BY <1>1, <1>2 DEF WaitInv
<1> QED BY <1>4, <1>5, <1>6, <1>7, <1>8, <1>9, <1>10 DEF ChannelInv

(***************************************************************************)
(* A thread that waits has called FINISH_XFER for its current buffer.      *)
(***************************************************************************)
LEMMA Waiting ==
  ASSUME TypeOKTest, NEW t \in Threads, ChannelInv(t),
         pc[t] \in {"wait", "sleep", "check", "report"}
  PROVE  at[t] = "finished" /\ Target(t) = buffer_id[t] /\ buffer_id[t] \in Buffers
BY DEF ChannelInv, PlaceInv, AppStages, TypeOKTest

(***************************************************************************)
(* Wait: the status is written where nobody looks yet.                     *)
(***************************************************************************)
LEMMA WaitKeepsChannel ==
  ASSUME TypeOKTest, NEW t \in Threads, ChannelInv(t), CountInv(t), InsideIoctl, Wait(t)
  PROVE  ChannelInv(t)'
<1>0. TypeOK /\ t \in Channels /\ FileOf[t] = t
  BY Setting DEF TypeOKTest
<1>1. /\ pc[t] = "wait"
      /\ UNCHANGED <<bdindex, cookie, done, engineVars, cmd, timedout, txstatus, claim,
                     at, buffer_id, counter>>
      /\ bd' = [bd EXCEPT ![t] = bdindex[t]] /\ pc' = [pc EXCEPT ![t] = "sleep"]
  BY <1>0 DEF Wait, InsideIoctl, Chan
<1>2. at[t] = "finished" /\ bdindex[t] = buffer_id[t]
  BY <1>1, Waiting DEF Target
<1>3. pc'[t] = "sleep" /\ bd'[t] = buffer_id[t] /\ buffer_id'[t] = buffer_id[t]
  BY <1>0, <1>1, <1>2 DEF TypeOK
<1> USE DEF engineVars
<1>4. PlaceInv(t)'
  BY <1>1, <1>2, <1>3 DEF ChannelInv, PlaceInv, Starting, Target
<1>5. QueueInv(t)'
  BY <1>1 DEF ChannelInv, QueueInv, Held
<1>6. ArmedInv(t)'
  BY <1>1, <1>3 DEF ChannelInv, ArmedInv
<1>7. LaunchInv(t)'
  BY <1>3 DEF LaunchInv, Starting
<1>8. OutstandingInv(t)'
  BY <1>1, <1>2 DEF ChannelInv, OutstandingInv, Offset, First, After
<1>9. RestInv(t)'
  BY <1>1, <1>2 DEF ChannelInv, RestInv, Offset, First, After
<1>10. WaitInv(t)'
  BY <1>1, <1>3 DEF ChannelInv, WaitInv
<1> QED BY <1>4, <1>5, <1>6, <1>7, <1>8, <1>9, <1>10 DEF ChannelInv

(***************************************************************************)
(* Wake: a completion that is there is that of the buffer's descriptor, so *)
(* the cookie of the buffer is complete.                                   *)
(***************************************************************************)
LEMMA WakeKeepsChannel ==
  ASSUME TypeOKTest, NEW t \in Threads, ChannelInv(t), CountInv(t), InsideIoctl, Wake(t)
  PROVE  ChannelInv(t)'
<1> SUFFICES ASSUME NEW b \in Buffers, b = buffer_id[t] PROVE ChannelInv(t)'
  BY DEF TypeOKTest
<1>0. TypeOK /\ t \in Channels /\ FileOf[t] = t
  BY Setting DEF TypeOKTest
<1>1. pc[t] = "sleep"
  BY DEF Wake
<1>2. at[t] = "finished" /\ bd[t] = b
  BY <1>1, Waiting DEF Target
<1>3. /\ done[t][b] > 0 /\ claim[t][b] = "owed"
      /\ UNCHANGED <<bdindex, status, cookie, engineVars, cmd, bd, txstatus, at, buffer_id, counter>>
      /\ done' = [done EXCEPT ![t][b] = done[t][b] - 1]
      /\ claim' = [claim EXCEPT ![t][b] = "taken"]
      /\ timedout' = [timedout EXCEPT ![t] = FALSE] /\ pc' = [pc EXCEPT ![t] = "check"]
  <2>1. claim[t][b] = "owed"
    BY <1>1, <1>2 DEF ChannelInv, WaitInv
  <2> QED BY <1>0, <1>2, <2>1 DEF Wake, InsideIoctl, Chan
<1>4. /\ pc'[t] = "check" /\ timedout'[t] = FALSE
      /\ \A y \in Buffers : /\ claim'[t][y] = IF y = b THEN "taken" ELSE claim[t][y]
                            /\ y # b => done'[t][y] = done[t][y]
  BY <1>0, <1>3 DEF TypeOK
<1>5. \A d \in Held(t) : d.bd \in Buffers /\ d.bd # b
  <2>1. \A d \in Held(t) : d.bd \in Buffers
    BY <1>0, Entries
  <2>2. \A d \in Held(t) : done[t][d.bd] = 0
    BY DEF ChannelInv, QueueInv
  <2> QED BY <1>3, <2>1, <2>2
<1>6. cookie[t][b] <= completed[t]
  <2>1. ~(completed[t] < cookie[t][b])
    BY <1>3, <1>5 DEF ChannelInv, QueueInv, Held
  <2> QED BY <1>0, <2>1, Entries
<1> USE DEF engineVars
<1>7. PlaceInv(t)'
  BY <1>2, <1>3, <1>4 DEF ChannelInv, PlaceInv, Starting, Target
<1>8. QueueInv(t)'
  BY <1>3, <1>4, <1>5, <1>6 DEF ChannelInv, QueueInv, Held
<1>9. ArmedInv(t)'
  BY <1>1, <1>3, <1>4 DEF ChannelInv, ArmedInv
<1>10. LaunchInv(t)'
  BY <1>4 DEF LaunchInv, Starting
<1>11. OutstandingInv(t)'
  <2>1. First(t)' = First(t) /\ buffer_id'[t] = b /\ at'[t] = "finished"
    BY <1>2, <1>3 DEF First, After
  <2>2. \A y \in Buffers : y < BufferCount[t] /\ Offset(t, y) < used[t] - counter[t] =>
          /\ cookie[t][y] = counter[t] + 1 + Offset(t, y)
          /\ claim'[t][y] = "owed" \/ (claim'[t][y] = "taken" /\ y = b)
    BY <1>1, <1>4 DEF ChannelInv, OutstandingInv
  <2> QED BY <1>3, <1>4, <2>1, <2>2 DEF OutstandingInv, Offset
<1>12. RestInv(t)'
  BY <1>2, <1>3, <1>4 DEF ChannelInv, RestInv, Offset, First, After
<1>13. WaitInv(t)'
  BY <1>3, <1>4 DEF WaitInv, Acknowledged
<1> QED BY <1>7, <1>8, <1>9, <1>10, <1>11, <1>12, <1>13 DEF ChannelInv

(***************************************************************************)
(* Expire: the transfer is given up, and nothing is known of it.           *)
(***************************************************************************)
LEMMA ExpireKeepsChannel ==
  ASSUME TypeOKTest, NEW t \in Threads, ChannelInv(t), CountInv(t), InsideIoctl, Expire(t),
         GivenUp(t)'
  PROVE  ChannelInv(t)'
<1>0. TypeOK /\ t \in Channels /\ FileOf[t] = t
  BY Setting DEF TypeOKTest
<1>1. /\ pc[t] = "sleep"
      /\ UNCHANGED <<driverVars, engineVars, cmd, bd, txstatus, claim, at, buffer_id, counter>>
      /\ timedout' = [timedout EXCEPT ![t] = TRUE] /\ pc' = [pc EXCEPT ![t] = "check"]
  BY DEF Expire, InsideIoctl
<1>2. at[t] = "finished" /\ Target(t) = buffer_id[t]
  BY <1>1, Waiting
<1>3. pc'[t] = "check" /\ timedout'[t] = TRUE
  BY <1>0, <1>1 DEF TypeOK
<1> USE DEF engineVars, driverVars
<1>4. PlaceInv(t)'
  BY <1>1, <1>2, <1>3 DEF ChannelInv, PlaceInv, Starting, Target
<1>5. QueueInv(t)'
  BY <1>1 DEF ChannelInv, QueueInv, Held
<1>6. ArmedInv(t)'
  BY <1>1, <1>3 DEF ChannelInv, ArmedInv
<1>7. LaunchInv(t)'
  BY <1>3 DEF LaunchInv, Starting
<1>8. OutstandingInv(t)'
  BY <1>1, <1>2, <1>3 DEF ChannelInv, OutstandingInv, Offset, First, After
<1>9. RestInv(t)'
  BY <1>1, <1>2, <1>3 DEF ChannelInv, RestInv, Offset, First, After
<1>10. WaitInv(t)'
  BY <1>1, <1>3 DEF WaitInv
<1> QED BY <1>4, <1>5, <1>6, <1>7, <1>8, <1>9, <1>10 DEF ChannelInv

(***************************************************************************)
(* Check: a cookie found complete stays complete.                          *)
(***************************************************************************)
LEMMA CheckKeepsChannel ==
  ASSUME TypeOKTest, NEW t \in Threads, ChannelInv(t), CountInv(t), InsideIoctl, Check(t)
  PROVE  ChannelInv(t)'
<1>0. TypeOK /\ t \in Channels /\ FileOf[t] = t
  BY Setting DEF TypeOKTest
<1>1. /\ pc[t] = "check"
      /\ UNCHANGED <<driverVars, engineVars, cmd, bd, timedout, claim, at, buffer_id, counter>>
      /\ pc' = [pc EXCEPT ![t] = "report"]
  BY DEF Check, InsideIoctl
<1>2. at[t] = "finished" /\ bd[t] = buffer_id[t]
  BY <1>1, Waiting DEF Target
<1>3. pc'[t] = "report"
  BY <1>0, <1>1 DEF TypeOK
<1>4. txstatus'[t] = IF TxComplete(t, cookie[t][buffer_id[t]]) THEN "COMPLETE" ELSE "IN_PROGRESS"
  BY <1>0, <1>2 DEF Check, Chan, TypeOK
<1> USE DEF engineVars, driverVars
<1>5. PlaceInv(t)'
  BY <1>1, <1>2, <1>3 DEF ChannelInv, PlaceInv, Starting, Target
<1>6. QueueInv(t)'
  BY <1>1 DEF ChannelInv, QueueInv, Held
<1>7. ArmedInv(t)'
  BY <1>1, <1>3 DEF ChannelInv, ArmedInv
<1>8. LaunchInv(t)'
  BY <1>3 DEF LaunchInv, Starting
<1>9. OutstandingInv(t)'
  BY <1>1, <1>2, <1>3 DEF ChannelInv, OutstandingInv, Offset, First, After
<1>10. RestInv(t)'
  BY <1>1, <1>2, <1>3 DEF ChannelInv, RestInv, Offset, First, After
<1>11. WaitInv(t)'
  <2>1. IF timedout[t] THEN GivenUp(t) ELSE Acknowledged(t)
    BY <1>1, <1>2 DEF ChannelInv, WaitInv
  <2>2. Acknowledged(t) => txstatus'[t] = "COMPLETE"
    BY <1>2, <1>4 DEF Acknowledged, TxComplete, ChannelInv, QueueInv, TypeOKTest
  <2>3. (Acknowledged(t) => Acknowledged(t)') /\ (GivenUp(t) => GivenUp(t)')
    BY <1>1 DEF Acknowledged, GivenUp, InsideIoctl
  <2> QED BY <1>1, <1>3, <2>1, <2>2, <2>3 DEF WaitInv
<1> QED BY <1>5, <1>6, <1>7, <1>8, <1>9, <1>10, <1>11 DEF ChannelInv

(***************************************************************************)
(* Report: the status tells the application what the wait has found.       *)
(***************************************************************************)
LEMMA ReportKeepsChannel ==
  ASSUME TypeOKTest, NEW t \in Threads, ChannelInv(t), CountInv(t), InsideIoctl, Report(t)
  PROVE  ChannelInv(t)'
<1>0. TypeOK /\ t \in Channels /\ FileOf[t] = t
  BY Setting DEF TypeOKTest
<1>1. /\ pc[t] = "report"
      /\ UNCHANGED <<bdindex, cookie, done, engineVars, cmd, bd, timedout, txstatus, claim,
                     at, buffer_id, counter>>
      /\ pc' = [pc EXCEPT ![t] = "user"]
  BY DEF Report, InsideIoctl
<1>2. at[t] = "finished" /\ bd[t] = buffer_id[t] /\ buffer_id[t] \in Buffers
  BY <1>1, Waiting DEF Target
<1>3. pc'[t] = "user"
  BY <1>0, <1>1 DEF TypeOK
<1>4. status'[t][buffer_id[t]] = Verdict(t)
  BY <1>0, <1>2 DEF Report, Chan, TypeOK
<1> USE DEF engineVars
<1>5. PlaceInv(t)'
  BY <1>1, <1>2, <1>3 DEF ChannelInv, PlaceInv, Starting
<1>6. QueueInv(t)'
  BY <1>1 DEF ChannelInv, QueueInv, Held
<1>7. ArmedInv(t)'
  BY <1>1, <1>3 DEF ChannelInv, ArmedInv
<1>8. LaunchInv(t)'
  BY <1>3 DEF LaunchInv, Starting
<1>9. OutstandingInv(t)'
  BY <1>1, <1>2, <1>3 DEF ChannelInv, OutstandingInv, Offset, First, After
<1>10. RestInv(t)'
  BY <1>1, <1>2, <1>3 DEF ChannelInv, RestInv, Offset, First, After
<1>11. WaitInv(t)'
  <2>1. IF timedout[t] THEN GivenUp(t) ELSE Acknowledged(t)
    BY <1>1, <1>2 DEF ChannelInv, WaitInv
  <2>2. ~timedout[t] => txstatus[t] = "COMPLETE"
    BY <1>1, <1>2 DEF ChannelInv, WaitInv
  <2>3. IF timedout[t] THEN Verdict(t) = "TIMEOUT" ELSE Verdict(t) = "NO_ERROR"
    BY <2>2 DEF Verdict
  <2>4. (Acknowledged(t) => Acknowledged(t)') /\ (GivenUp(t) => GivenUp(t)')
    BY <1>1 DEF Acknowledged, GivenUp, InsideIoctl
  <2> QED BY <1>1, <1>3, <1>4, <2>1, <2>3, <2>4 DEF WaitInv
<1> QED BY <1>5, <1>6, <1>7, <1>8, <1>9, <1>10, <1>11 DEF ChannelInv

----------------------------------------------------------------------------
(* The engine and a channel.                                               *)

(***************************************************************************)
(* The engine completes the transfers of a channel one by one.             *)
(***************************************************************************)
LEMMA CompleteNext ==
  ASSUME TypeOKTest, NEW c \in Threads, ChannelInv(c), Complete(c)
  PROVE  \E d \in inflight[c] :
           /\ d.cookie = completed[c] + 1 /\ completed'[c] = completed[c] + 1
           /\ inflight'[c] = inflight[c] \ {d} /\ callbacks'[c] = callbacks[c] \cup {d}
           /\ armed'[c] = (inflight'[c] # {})
           /\ UNCHANGED <<driverVars, used, threadVars, claim>>
<1>0. TypeOK /\ c \in Channels
  BY Setting DEF TypeOKTest
<1>1. PICK d \in inflight[c] :
        /\ \A e \in inflight[c] : d.cookie <= e.cookie
        /\ inflight' = [inflight EXCEPT ![c] = inflight[c] \ {d}]
        /\ callbacks' = [callbacks EXCEPT ![c] = callbacks[c] \cup {d}]
        /\ completed' = [completed EXCEPT ![c] = d.cookie]
  BY DEF Complete, Oldest
<1>2. completed[c] < d.cookie /\ d.cookie <= used[c] /\ d.cookie \in Nat /\ completed[c] \in Nat
  BY <1>0, Entries DEF ChannelInv, QueueInv
<1>3. PICK e \in inflight[c] : e.cookie = completed[c] + 1
  BY <1>0, <1>2, Entries DEF ChannelInv, QueueInv
<1>4. d.cookie = completed[c] + 1
  BY <1>1, <1>2, <1>3
<1>5. /\ completed'[c] = d.cookie /\ inflight'[c] = inflight[c] \ {d}
      /\ callbacks'[c] = callbacks[c] \cup {d}
  BY <1>0, <1>1 DEF TypeOK
<1>6. armed' = [armed EXCEPT ![c] = inflight'[c] # {}]
      /\ UNCHANGED <<driverVars, used, threadVars, claim>>
  BY DEF Complete
<1>7. armed'[c] = (inflight'[c] # {})
  BY <1>0, <1>6 DEF TypeOK
<1> QED BY <1>4, <1>5, <1>6, <1>7

(***************************************************************************)
(* A completed descriptor waits for its callback.                          *)
(***************************************************************************)
LEMMA CompleteKeepsChannel ==
  ASSUME TypeOKTest, NEW c \in Threads, ChannelInv(c), Complete(c), SamePlace(c),
         overslept => overslept'
  PROVE  ChannelInv(c)'
<1>0. TypeOK /\ c \in Channels
  BY Setting DEF TypeOKTest
<1>1. PICK d \in inflight[c] :
        /\ d.cookie = completed[c] + 1 /\ completed'[c] = completed[c] + 1
        /\ inflight'[c] = inflight[c] \ {d} /\ callbacks'[c] = callbacks[c] \cup {d}
        /\ armed'[c] = (inflight'[c] # {})
        /\ UNCHANGED <<driverVars, used, threadVars, claim>>
  BY CompleteNext
<1>2. /\ completed[c] \in Nat /\ used[c] \in Nat
      /\ \A e \in Held(c) : e.bd \in Buffers /\ e.cookie \in Nat
      /\ \A y \in Buffers : cookie[c][y] \in Int
  BY <1>0, Entries
<1>3. Held(c)' = Held(c)
  BY <1>1 DEF Held
<1> USE DEF driverVars, threadVars, SamePlace
<1>4. PlaceInv(c)'
  BY <1>1 DEF ChannelInv, PlaceInv, Starting, Target
<1>5. QueueInv(c)'
  <2>1. completed[c] + 1 <= used[c]
    BY <1>1 DEF ChannelInv, QueueInv
  <2>2. \A e \in inflight'[c] : e.cookie # d.cookie
    BY <1>1 DEF ChannelInv, QueueInv
  <2>3. \A e \in inflight'[c] : completed[c] + 1 < e.cookie /\ e.cookie <= used[c]
    BY <1>1, <1>2, <2>2 DEF ChannelInv, QueueInv, Held
  <2>4. \A e \in callbacks'[c] : e.cookie <= completed[c] + 1
    BY <1>1, <1>2 DEF ChannelInv, QueueInv, Held
  <2>5. \A k \in Nat : completed[c] + 1 < k /\ k <= used[c] => \E e \in inflight'[c] : e.cookie = k
    BY <1>1, <1>2 DEF ChannelInv, QueueInv
  <2>6. ASSUME NEW y \in Buffers, claim[c][y] = "owed", completed[c] + 1 < cookie[c][y]
        PROVE  \E e \in inflight'[c] : e.bd = y
    <3>1. PICK e \in inflight[c] : e.bd = y
      BY <1>2, <2>6 DEF ChannelInv, QueueInv
    <3>2. e.cookie = cookie[c][y]
      BY <3>1 DEF ChannelInv, QueueInv, Held
    <3> QED BY <1>1, <1>2, <2>6, <3>1, <3>2
  <2>7. \A y \in Buffers : claim[c][y] = "taken" => cookie[c][y] <= completed[c] + 1
    BY <1>2 DEF ChannelInv, QueueInv
  <2> QED BY <1>1, <1>3, <2>1, <2>3, <2>4, <2>5, <2>6, <2>7 DEF ChannelInv, QueueInv
<1>6. ArmedInv(c)'
  BY <1>1 DEF ArmedInv
<1>7. LaunchInv(c)'
  BY <1>1, <1>3 DEF ChannelInv, LaunchInv, Starting, Target, Offset, First, After
<1>8. OutstandingInv(c)'
  BY <1>1 DEF ChannelInv, OutstandingInv, Offset, First, After
<1>9. RestInv(c)'
  BY <1>1 DEF ChannelInv, RestInv, Offset, First, After
<1>10. WaitInv(c)'
  <2>1. Acknowledged(c) /\ at[c] = "finished" => Acknowledged(c)'
    BY <1>1 DEF Acknowledged
  <2>2. GivenUp(c) => GivenUp(c)'
    BY DEF GivenUp
  <2> QED BY <1>1, <2>1, <2>2 DEF ChannelInv, WaitInv
<1> QED BY <1>4, <1>5, <1>6, <1>7, <1>8, <1>9, <1>10 DEF ChannelInv

(***************************************************************************)
(* A callback gives the buffer its one completion.                         *)
(***************************************************************************)
LEMMA CallbackKeepsChannel ==
  ASSUME TypeOKTest, NEW c \in Threads, ChannelInv(c), Callback(c), SamePlace(c),
         overslept => overslept'
  PROVE  ChannelInv(c)'
<1>0. TypeOK /\ c \in Channels
  BY Setting DEF TypeOKTest
<1>1. PICK d \in callbacks[c] :
        /\ callbacks' = [callbacks EXCEPT ![c] = callbacks[c] \ {d}]
        /\ done' = [done EXCEPT ![c][d.bd] = done[c][d.bd] + 1]
  BY DEF Callback, Oldest
<1>2. /\ UNCHANGED <<bdindex, status, cookie, used, completed, inflight, armed, threadVars, claim>>
      /\ callbacks'[c] = callbacks[c] \ {d}
  BY <1>0, <1>1 DEF Callback, TypeOK
<1>3. /\ completed[c] \in Nat /\ used[c] \in Nat
      /\ \A e \in Held(c) : e.bd \in Buffers /\ e.cookie \in Nat
      /\ \A y \in Buffers : done[c][y] \in Nat
  BY <1>0, Entries
<1>4. \A y \in Buffers : done'[c][y] = IF y = d.bd THEN done[c][y] + 1 ELSE done[c][y]
  BY <1>0, <1>1, <1>3 DEF TypeOK, Held
<1>5. \A e \in Held(c)' : e \in Held(c) /\ e.bd # d.bd
  <2> SUFFICES ASSUME NEW e \in Held(c)', e.bd = d.bd PROVE FALSE
    BY <1>2 DEF Held
  <2>1. e \in Held(c) /\ (e # d \/ e \in inflight[c])
    BY <1>2 DEF Held
  <2>2. e.cookie = d.cookie
    BY <1>2, <2>1 DEF ChannelInv, QueueInv, Held
  <2>3. e \notin inflight[c]
    BY <1>3, <2>2 DEF ChannelInv, QueueInv, Held
  <2>4. e \in Descriptors /\ d \in Descriptors
    BY <1>0, <2>1, <2>3 DEF Held, TypeOK
  <2> QED BY <2>1, <2>2, <2>3, <2>4 DEF Descriptors
<1> USE DEF threadVars, SamePlace
<1>6. PlaceInv(c)'
  BY <1>2 DEF ChannelInv, PlaceInv, Starting, Target
<1>7. QueueInv(c)'
  <2>1. \A e \in Held(c)' :
          cookie[c][e.bd] = e.cookie /\ claim[c][e.bd] = "owed" /\ done'[c][e.bd] = 0
    BY <1>3, <1>4, <1>5 DEF ChannelInv, QueueInv
  <2>2. ASSUME NEW y \in Buffers, claim[c][y] = "owed", done'[c][y] = 0
        PROVE  \E e \in Held(c)' : e.bd = y
    <3>1. y # d.bd /\ done[c][y] = 0
      BY <1>3, <1>4, <2>2
    <3>2. PICK e \in Held(c) : e.bd = y
      BY <2>2, <3>1 DEF ChannelInv, QueueInv
    <3> QED BY <1>2, <3>1, <3>2 DEF Held
  <2> QED BY <1>2, <2>1, <2>2 DEF ChannelInv, QueueInv
<1>8. ArmedInv(c)'
  BY <1>2 DEF ChannelInv, ArmedInv
<1>9. LaunchInv(c)'
  <2>1. Starting(c) => \A e \in Held(c) : e.bd # Target(c)
    BY DEF ChannelInv, LaunchInv
  <2>2. Starting(c) => d.bd # Target(c)
    BY <2>1 DEF Held
  <2>3. Starting(c) => Target(c) \in Buffers
    BY <1>0, Entries
  <2>4. /\ Starting(c)' = Starting(c) /\ Target(c)' = Target(c) /\ First(c)' = First(c)
        /\ counter'[c] = counter[c] /\ pc'[c] = pc[c]
    BY <1>2 DEF Starting, Target, First, After
  <2>5. Starting(c) => done'[c][Target(c)] = done[c][Target(c)]
    BY <1>4, <2>2, <2>3
  <2> QED BY <1>2, <1>5, <2>1, <2>4, <2>5 DEF ChannelInv, LaunchInv, Offset
<1>10. OutstandingInv(c)'
  BY <1>2 DEF ChannelInv, OutstandingInv, Offset, First, After
<1>11. RestInv(c)'
  BY <1>2 DEF ChannelInv, RestInv, Offset, First, After
<1>12. WaitInv(c)'
  BY <1>2 DEF ChannelInv, WaitInv, Acknowledged, GivenUp
<1> QED BY <1>6, <1>7, <1>8, <1>9, <1>10, <1>11, <1>12 DEF ChannelInv

(***************************************************************************)
(* The engine leaves the other channel alone.                              *)
(***************************************************************************)
LEMMA EngineOtherChannel ==
  ASSUME TypeOK, NEW s \in Threads, NEW c \in Threads, s # c, Complete(c) \/ Callback(c)
  PROVE  SameChannel(s)
<1>0. s \in Channels /\ c \in Channels
  BY Setting
<1>1. CASE Complete(c)
  <2>1. PICK d \in inflight[c] :
          /\ inflight' = [inflight EXCEPT ![c] = inflight[c] \ {d}]
          /\ callbacks' = [callbacks EXCEPT ![c] = callbacks[c] \cup {d}]
          /\ completed' = [completed EXCEPT ![c] = d.cookie]
    BY <1>1 DEF Complete, Oldest
  <2>2. /\ armed' = [armed EXCEPT ![c] = inflight'[c] # {}]
        /\ UNCHANGED <<driverVars, used, threadVars, claim>>
    BY <1>1 DEF Complete
  <2> QED BY <1>0, <2>1, <2>2 DEF SameChannel, TypeOK, driverVars, threadVars
<1>2. CASE Callback(c)
  <2>1. PICK d \in callbacks[c] :
          /\ callbacks' = [callbacks EXCEPT ![c] = callbacks[c] \ {d}]
          /\ done' = [done EXCEPT ![c][d.bd] = done[c][d.bd] + 1]
          /\ UNCHANGED <<bdindex, status, cookie, used, completed, inflight, armed, threadVars, claim>>
    BY <1>2 DEF Callback, Oldest
  <2> QED BY <1>0, <2>1 DEF SameChannel, TypeOK, threadVars
<1> QED BY <1>1, <1>2
----------------------------------------------------------------------------
(* The timer.                                                              *)

(***************************************************************************)
(* A thread that sleeps with nothing left to be called back has a transfer *)
(* at the engine; one that has exited has none, and has done them all.     *)
(***************************************************************************)
LEMMA AtRest ==
  ASSUME TypeOKTest, NEW s \in Threads, ChannelInv(s), CountInv(s)
  PROVE  /\ callbacks[s] = {} /\ pc[s] = "sleep" /\ done[s][bd[s]] = 0 => inflight[s] # {} /\ armed[s]
         /\ Ended(s) => completed[s] = num_transfers
         /\ completed[s] <= num_transfers
         /\ \A d \in inflight[s] : completed[s] < d.cookie /\ d.cookie <= num_transfers
<1>0. TypeOK /\ s \in Channels /\ FileOf[s] = s
  BY Setting DEF TypeOKTest
<1>1. /\ used[s] \in Nat /\ completed[s] \in Nat /\ counter[s] \in Nat
      /\ in_progress_count[s] \in Nat /\ num_transfers \in Nat
      /\ \A d \in inflight[s] : d.cookie \in Nat
  BY <1>0, Entries DEF TypeOKTest
<1>2. Begun(s) \in Nat /\ used[s] <= Begun(s) /\ Begun(s) <= num_transfers
  BY <1>1 DEF Begun, CountInv
<1>3. completed[s] <= used[s] /\ \A d \in inflight[s] : completed[s] < d.cookie /\ d.cookie <= used[s]
  BY DEF ChannelInv, QueueInv
<1>4. ASSUME callbacks[s] = {}, pc[s] = "sleep", done[s][bd[s]] = 0 PROVE inflight[s] # {} /\ armed[s]
  <2>1. at[s] = "finished" /\ bd[s] = buffer_id[s] /\ buffer_id[s] \in Buffers
    BY <1>4, Waiting DEF Target
  <2>2. claim[s][buffer_id[s]] = "owed"
    BY <1>4, <2>1 DEF ChannelInv, WaitInv
  <2>3. inflight[s] # {}
    BY <1>4, <2>1, <2>2 DEF ChannelInv, QueueInv, Held
  <2> QED BY <1>4, <2>3 DEF ChannelInv, ArmedInv
<1>5. ASSUME Ended(s) PROVE completed[s] = num_transfers
  <2>1. at[s] = "exited"
    BY <1>5 DEF Ended, ChannelInv, PlaceInv, AppStages
  <2>2. counter[s] = num_transfers /\ counter[s] <= completed[s]
    BY <2>1 DEF CountInv
  <2> QED BY <1>1, <1>2, <1>3, <2>2
<1> QED BY <1>1, <1>2, <1>3, <1>4, <1>5

(***************************************************************************)
(* The system never stalls: a sleeping thread always has somebody else     *)
(* that can move, so a timer that waits for everybody else never fires.    *)
(***************************************************************************)
LEMMA NotStalled ==
  ASSUME TypeOKTest, LiveInv, NEW t \in Threads, pc[t] = "sleep", done[t][bd[t]] = 0
  PROVE  ~Stalled
<1> SUFFICES ASSUME Stalled PROVE FALSE
  OBVIOUS
<1>0. /\ TypeOK /\ Threads = {"tx", "rx"} /\ Channels = Threads
      /\ StreamDepth \in Nat \ {0} /\ \A s \in Threads : FileOf[s] = s
  BY Setting DEF TypeOKTest
<1>1. \A s \in Threads :
        /\ pc[s] = "sleep" /\ done[s][bd[s]] = 0 => inflight[s] # {} /\ armed[s]
        /\ Ended(s) => completed[s] = num_transfers
        /\ completed[s] <= num_transfers
        /\ \A d \in inflight[s] : completed[s] < d.cookie /\ d.cookie <= num_transfers
  BY <1>0, AtRest DEF LiveInv, Stalled
<1>2. \A s \in Threads : Ended(s) \/ (inflight[s] # {} /\ armed[s])
  BY <1>0, <1>1 DEF Stalled, Chan
<1>3. /\ Len(stream) = completed["tx"] - completed["rx"] /\ num_transfers \in Nat
      /\ stream \in Seq(Nat) /\ Len(stream) \in Nat
  BY DEF LiveInv, PatternInv, TypeOKTest
<1>4. completed["tx"] \in Nat /\ completed["rx"] \in Nat
  BY <1>0, Entries
<1>5. /\ armed["tx"] => ~(Len(stream) < StreamDepth)
      /\ armed["rx"] => Len(stream) = 0
  BY <1>3 DEF Stalled, TxRoom, RxData
<1>6. CASE t = "tx"
  <2>1. armed["tx"] /\ ~armed["rx"]
    BY <1>0, <1>1, <1>5, <1>6
  <2>2. completed["rx"] = num_transfers
    BY <1>0, <1>1, <1>2, <2>1
  <2> QED BY <1>0, <1>1, <1>3, <1>4, <1>5, <2>1, <2>2
<1>7. CASE t = "rx"
  <2>1. inflight["rx"] # {} /\ armed["rx"] /\ ~armed["tx"]
    BY <1>0, <1>1, <1>5, <1>7
  <2>2. completed["tx"] = num_transfers
    BY <1>0, <1>1, <1>2, <2>1
  <2>3. completed["rx"] = num_transfers
    BY <1>3, <1>4, <1>5, <2>1, <2>2
  <2>4. PICK d \in inflight["rx"] : TRUE
    BY <2>1
  <2>5. d.cookie \in Nat
    BY <1>0, Entries
  <2> QED BY <1>0, <1>1, <1>3, <2>3, <2>4, <2>5
<1> QED BY <1>0, <1>6, <1>7

(***************************************************************************)
(* So only a slow receive transfer is given up.                            *)
(***************************************************************************)
LEMMA ExpireGivesUp ==
  ASSUME AsShipped, TypeOKTest, LiveInv, NEW t \in Threads, Driver(t), Expire(t)
  PROVE  GivenUp(t)'
<1>1. FileOf[t] = t
  BY Setting
<1>2. ~Stalled
  BY <1>1, NotStalled DEF Expire, Chan
<1>3. t \in SlowFor
  BY <1>2 DEF Driver
<1>4. t = "rx"
  BY <1>3, Setting DEF AsShipped
<1> QED BY <1>2, <1>4 DEF Driver, GivenUp
----------------------------------------------------------------------------
(* A step inside the driver.                                               *)

(***************************************************************************)
(* What a step of an ioctl does to the numbers of the transfers: only      *)
(* Submit hands the engine a descriptor, that of the transfer it counts;   *)
(* and no step lets a claim on a complete transfer appear from nothing.    *)
(***************************************************************************)
LEMMA StepNumbers ==
  ASSUME AsShipped, TypeOK, NEW t \in Threads, QueueInv(t), Step(t),
         Starting(t) \/ pc[t] = "issue" => cmd[t] # "XFER"
  PROVE  /\ completed' = completed /\ Begun(t)' = Begun(t)
         /\ Starting(t)' => Starting(t) /\ Target(t)' = Target(t) /\ used'[t] = used[t]
         /\ \A d \in inflight'[t] : d \in inflight[t] \/
              (Starting(t) /\ d.bd = Target(t) /\ d.cookie = used[t] + 1)
         /\ \A b \in Buffers :
              claim'[t][b] \in {"owed", "taken"} /\ cookie'[t][b] <= completed[t] =>
                claim[t][b] \in {"owed", "taken"} /\ cookie'[t][b] = cookie[t][b]
<1>0. /\ TypeOK /\ t \in Channels /\ FileOf[t] = t /\ Target(t) \in Buffers
      /\ used[t] \in Nat /\ completed[t] \in Nat /\ completed[t] <= used[t]
  BY Setting, Entries DEF QueueInv
<1>1. CASE Prepare(t)
  <2>1. /\ pc[t] = "start" /\ bd' = [bd EXCEPT ![t] = bdindex[t]]
        /\ pc' = [pc EXCEPT ![t] = "init"]
        /\ claim' = [claim EXCEPT ![t][bdindex[t]] = "none"]
        /\ UNCHANGED <<driverVars, engineVars>>
    BY <1>0, <1>1 DEF Prepare, AsShipped, Chan
  <2>2. pc'[t] = "init" /\ bd'[t] = bdindex[t]
    BY <1>0, <2>1 DEF TypeOK
  <2>3. \A b \in Buffers : claim'[t][b] = IF b = bdindex[t] THEN "none" ELSE claim[t][b]
    BY <1>0, <2>1 DEF TypeOK
  <2> QED BY <2>1, <2>2, <2>3 DEF Starting, Target, Begun, driverVars, engineVars
<1>2. CASE InitCompletion(t)
  <2>1. /\ pc[t] = "init" /\ pc' = [pc EXCEPT ![t] = "submit"]
        /\ UNCHANGED <<bdindex, cookie, engineVars, bd, claim>>
    BY <1>2 DEF InitCompletion
  <2>2. pc'[t] = "submit"
    BY <1>0, <2>1 DEF TypeOK
  <2> QED BY <2>1, <2>2 DEF Starting, Target, Begun, engineVars
<1>3. CASE Submit(t)
  <2> SUFFICES ASSUME NEW b \in Buffers, b = bd[t]
               PROVE  /\ completed' = completed /\ Begun(t)' = Begun(t)
                      /\ ~Starting(t)'
                      /\ \A d \in inflight'[t] : d \in inflight[t] \/
                           (Starting(t) /\ d.bd = Target(t) /\ d.cookie = used[t] + 1)
                      /\ \A y \in Buffers :
                           claim'[t][y] \in {"owed", "taken"} /\ cookie'[t][y] <= completed[t] =>
                             claim[t][y] \in {"owed", "taken"} /\ cookie'[t][y] = cookie[t][y]
    BY Entries
  <2>1. /\ pc[t] = "submit" /\ completed' = completed
        /\ used' = [used EXCEPT ![t] = used[t] + 1]
        /\ inflight' = [inflight EXCEPT ![t] = inflight[t] \cup {[bd |-> b, cookie |-> used'[t]]}]
        /\ cookie' = [cookie EXCEPT ![t][b] = used'[t]]
        /\ claim' = [claim EXCEPT ![t][b] = "owed"]
        /\ pc' = [pc EXCEPT ![t] = "issue"]
    BY <1>0, <1>3 DEF Submit, AsShipped, Chan
  <2>2. pc'[t] = "issue" /\ used'[t] = used[t] + 1
    BY <1>0, <2>1 DEF TypeOK
  <2>3. inflight'[t] = inflight[t] \cup {[bd |-> b, cookie |-> used[t] + 1]}
    BY <1>0, <2>1, <2>2 DEF TypeOK
  <2>4. \A y \in Buffers : /\ cookie'[t][y] = IF y = b THEN used[t] + 1 ELSE cookie[t][y]
                           /\ claim'[t][y] = IF y = b THEN "owed" ELSE claim[t][y]
    BY <1>0, <2>1, <2>2 DEF TypeOK
  <2>5. Starting(t) /\ ~Starting(t)' /\ Target(t) = b
    BY <2>1, <2>2 DEF Starting, Target
  <2>6. Begun(t)' = Begun(t)
    BY <2>2, <2>5 DEF Begun
  <2>7. \A d \in inflight'[t] : d \in inflight[t] \/ (d.bd = b /\ d.cookie = used[t] + 1)
    BY <2>3
  <2>8. ~(used[t] + 1 <= completed[t])
    BY <1>0
  <2> QED BY <2>1, <2>4, <2>5, <2>6, <2>7, <2>8
<1>4. CASE Issue(t)
  <2>1. /\ pc[t] = "issue" /\ pc' = [pc EXCEPT ![t] = AfterStart(t)]
        /\ UNCHANGED <<driverVars, used, completed, inflight, claim>>
    BY <1>4 DEF Issue
  <2>2. pc'[t] = "user"
    BY <1>0, <2>1 DEF TypeOK, AfterStart
  <2> QED BY <2>1, <2>2 DEF Starting, Begun, driverVars
<1>5. CASE Wait(t) \/ Expire(t) \/ Check(t) \/ Report(t)
  <2>1. /\ pc[t] \in {"wait", "sleep", "check", "report"}
        /\ \E l \in {"sleep", "check", "report", "user"} : pc' = [pc EXCEPT ![t] = l]
        /\ UNCHANGED <<cookie, engineVars, claim>>
    BY <1>5 DEF Wait, Expire, Check, Report, driverVars
  <2>2. pc'[t] \notin {"start", "init", "submit"}
    BY <1>0, <2>1 DEF TypeOK
  <2> QED BY <2>1, <2>2 DEF Starting, Begun, engineVars
<1>6. CASE Wake(t)
  <2>1. /\ pc[t] = "sleep" /\ pc' = [pc EXCEPT ![t] = "check"]
        /\ claim' = [claim EXCEPT ![t][bd[t]] = IF @ = "owed" THEN "taken" ELSE @]
        /\ UNCHANGED <<cookie, engineVars>>
    BY <1>0, <1>6 DEF Wake, Chan
  <2>2. pc'[t] = "check"
    BY <1>0, <2>1 DEF TypeOK
  <2>3. \A b \in Buffers : claim'[t][b] = claim[t][b] \/ claim[t][b] = "owed"
    BY <1>0, <2>1 DEF TypeOK
  <2> QED BY <2>1, <2>2, <2>3 DEF Starting, Begun, engineVars
<1> QED BY <1>1, <1>2, <1>3, <1>4, <1>5, <1>6 DEF Step

(***************************************************************************)
(* How far a thread is depends on the driver through two counts only.      *)
(***************************************************************************)
LEMMA CountFrame ==
  ASSUME TypeOKTest, NEW s \in Threads, CountInv(s), SamePlace(s),
         in_progress_count'[s] = in_progress_count[s], num_transfers' = num_transfers,
         Begun(s)' = Begun(s), completed'[s] \in Nat, completed[s] <= completed'[s]
  PROVE  CountInv(s)'
<1>1. completed[s] \in Nat /\ counter[s] \in Nat
  BY Setting, Entries DEF TypeOKTest
<1>2. counter[s] <= completed'[s]
  BY <1>1 DEF CountInv
<1> HIDE DEF Begun
<1> QED BY <1>2 DEF CountInv, SamePlace

(***************************************************************************)
(* A step of an ioctl keeps everything.                                    *)
(***************************************************************************)
LEMMA DriverKeeps ==
  ASSUME AsShipped, TypeOKTest, LiveInv, NEW t \in Threads, Driver(t)
  PROVE  LiveInv'
<1>0. /\ TypeOK /\ Threads = {"tx", "rx"} /\ Channels = Threads
      /\ "tx" \in Threads /\ "rx" \in Threads
  BY Setting DEF TypeOKTest
<1>1. ChannelInv(t) /\ CountInv(t) /\ PatternInv /\ StopInv
  BY DEF LiveInv
<1>2. Step(t) /\ InsideIoctl
  BY DEF Driver, InsideIoctl
<1>3. ASSUME NEW s \in Threads, s # t PROVE SameChannel(s)
  BY <1>0, <1>2, <1>3, OtherChannel
<1>4. ChannelInv(t)'
  <2>1. Expire(t) => GivenUp(t)'
    BY ExpireGivesUp
  <2> QED BY <1>1, <1>2, <2>1, PrepareKeepsChannel, InitCompletionKeepsChannel,
             SubmitKeepsChannel, IssueKeepsChannel, WaitKeepsChannel, WakeKeepsChannel,
             ExpireKeepsChannel, CheckKeepsChannel, ReportKeepsChannel DEF Step
<1>5. \A s \in Threads : SamePlace(s)
  BY <1>2 DEF InsideIoctl, SamePlace
<1>6. \A s \in Threads : ChannelInv(s)'
  BY <1>2, <1>3, <1>4, <1>5, ChannelFrame DEF LiveInv, InsideIoctl
<1>7. /\ completed' = completed /\ Begun(t)' = Begun(t)
      /\ Starting(t)' => Starting(t) /\ Target(t)' = Target(t) /\ used'[t] = used[t]
      /\ \A d \in inflight'[t] : d \in inflight[t] \/
           (Starting(t) /\ d.bd = Target(t) /\ d.cookie = used[t] + 1)
      /\ \A b \in Buffers :
           claim'[t][b] \in {"owed", "taken"} /\ cookie'[t][b] <= completed[t] =>
             claim[t][b] \in {"owed", "taken"} /\ cookie'[t][b] = cookie[t][b]
  BY <1>0, <1>1, <1>2, StepNumbers DEF ChannelInv, PlaceInv
<1>8. ASSUME NEW s \in Threads PROVE CountInv(s)'
  <2>1. Begun(s)' = Begun(s)
    <3>1. CASE s = t
      BY <1>7, <3>1
    <3>2. CASE s # t
      BY <1>3, <3>2 DEF SameChannel, Begun, Starting
    <3> QED BY <3>1, <3>2
  <2>2. completed'[s] \in Nat /\ completed[s] <= completed'[s]
    BY <1>0, <1>7, Entries
  <2> QED BY <1>2, <1>5, <2>1, <2>2, CountFrame DEF LiveInv, InsideIoctl
<1>9. PatternInv'
  <2>0. UNCHANGED <<word, stream, completed>>
    BY <1>2, <1>7 DEF InsideIoctl
  <2>1. /\ \A d \in inflight'["tx"] : word["tx"][d.bd] = d.cookie - 1
        /\ Starting("tx")' => word["tx"][Target("tx")'] = used'["tx"]
    <3>1. CASE t = "tx"
      <4>1. used["tx"] \in Nat
        BY <1>0, Entries
      <4>2. ASSUME NEW d \in inflight'["tx"] PROVE word["tx"][d.bd] = d.cookie - 1
        <5>1. CASE d \in inflight["tx"]
          BY <1>1, <5>1 DEF PatternInv
        <5>2. CASE Starting("tx") /\ d.bd = Target("tx") /\ d.cookie = used["tx"] + 1
          BY <1>1, <4>1, <5>2 DEF PatternInv
        <5> QED BY <1>7, <3>1, <5>1, <5>2
      <4> QED BY <1>1, <1>7, <3>1, <4>2 DEF PatternInv
    <3>2. CASE t # "tx"
      BY <1>0, <1>1, <1>3, <3>2 DEF PatternInv, SameChannel, Starting, Target
    <3> QED BY <3>1, <3>2
  <2>2. ASSUME NEW b \in Buffers,
               claim'["rx"][b] \in {"owed", "taken"}, cookie'["rx"][b] <= completed["rx"]
        PROVE  word["rx"][b] = cookie'["rx"][b] - 1
    <3>1. claim["rx"][b] \in {"owed", "taken"} /\ cookie'["rx"][b] = cookie["rx"][b]
      <4>1. CASE t = "rx"
        BY <1>7, <2>2, <4>1
      <4>2. CASE t # "rx"
        BY <1>0, <1>3, <2>2, <4>2 DEF SameChannel
      <4> QED BY <4>1, <4>2
    <3> QED BY <1>1, <2>2, <3>1 DEF PatternInv
  <2>3. PatternInv
    BY <1>1
  <2> QED BY <2>0, <2>1, <2>2, <2>3 DEF PatternInv
<1>10. StopInv'
  BY <1>1, <1>2 DEF StopInv, InsideIoctl
<1> QED BY <1>6, <1>8, <1>9, <1>10 DEF LiveInv
(***************************************************************************)
(* What the engine leaves to the application.                              *)
(***************************************************************************)
OutsideEngine ==
  UNCHANGED <<num_transfers, stop, stop_in_progress, at, buffer_id, in_progress_count, counter,
              overslept>>

(***************************************************************************)
(* A step of the engine keeps all but the pattern.                         *)
(***************************************************************************)
LEMMA EngineKeeps ==
  ASSUME TypeOKTest, LiveInv, NEW c \in Threads, Complete(c) \/ Callback(c), OutsideEngine
  PROVE  /\ \A s \in Threads : ChannelInv(s)' /\ CountInv(s)'
         /\ StopInv'
         /\ \A s \in Threads : s # c => SameChannel(s)
         /\ UNCHANGED <<used, pc, bd, bdindex, claim, cookie>>
<1>0. TypeOK /\ ChannelInv(c)
  BY DEF TypeOKTest, LiveInv
<1>1. \A s \in Threads : SamePlace(s)
  BY DEF OutsideEngine, SamePlace
<1>2. \A s \in Threads : s # c => SameChannel(s)
  BY <1>0, EngineOtherChannel
<1>3. UNCHANGED <<used, pc, bd, bdindex, claim, cookie>>
  BY DEF Complete, Callback, driverVars, threadVars
<1>4. ChannelInv(c)'
  BY <1>0, <1>1, CompleteKeepsChannel, CallbackKeepsChannel DEF OutsideEngine
<1>5. \A s \in Threads : ChannelInv(s)'
  BY <1>1, <1>2, <1>4, ChannelFrame DEF LiveInv, OutsideEngine
<1>6. ASSUME NEW s \in Threads PROVE CountInv(s)'
  <2>1. completed[s] \in Nat
    BY <1>0, Entries
  <2>2. completed'[s] = completed[s] \/ completed'[s] = completed[s] + 1
    <3>1. CASE s = c
      BY <1>0, <3>1, CompleteNext DEF Callback
    <3>2. CASE s # c
      BY <1>2, <3>2 DEF SameChannel
    <3> QED BY <3>1, <3>2
  <2>3. completed'[s] \in Nat /\ completed[s] <= completed'[s]
    BY <2>1, <2>2
  <2>4. Begun(s)' = Begun(s)
    BY <1>3 DEF Begun, Starting
  <2> QED BY <1>1, <2>3, <2>4, CountFrame DEF LiveInv, OutsideEngine
<1>7. StopInv'
  BY DEF LiveInv, StopInv, OutsideEngine
<1> QED BY <1>2, <1>3, <1>5, <1>6, <1>7

(***************************************************************************)
(* A callback does not touch the data.                                     *)
(***************************************************************************)
LEMMA TaskletKeeps ==
  ASSUME TypeOKTest, LiveInv, NEW c \in Threads, Tasklet(c)
  PROVE  LiveInv'
<1>1. Callback(c) /\ OutsideEngine /\ UNCHANGED <<word, stream>>
  BY DEF Tasklet, appVars, OutsideEngine
<1>2. UNCHANGED <<completed, inflight>>
  BY <1>1 DEF Callback
<1>3. /\ \A s \in Threads : ChannelInv(s)' /\ CountInv(s)'
      /\ StopInv' /\ UNCHANGED <<used, pc, bd, bdindex, claim, cookie>>
  BY <1>1, EngineKeeps
<1>4. PatternInv'
  BY <1>1, <1>2, <1>3 DEF LiveInv, PatternInv, Starting, Target
<1> QED BY <1>3, <1>4 DEF LiveInv

(***************************************************************************)
(* The engine moves the word of the oldest transmit transfer to the end of *)
(* the stream.                                                             *)
(***************************************************************************)
LEMMA TransmitKeeps ==
  ASSUME TypeOKTest, LiveInv, Transmit
  PROVE  LiveInv'
<1>0. /\ TypeOK /\ "tx" \in Threads /\ "rx" \in Threads /\ "tx" # "rx"
      /\ ChannelInv("tx") /\ PatternInv
  BY Setting DEF TypeOKTest, LiveInv
<1>1. Complete("tx") /\ OutsideEngine /\ UNCHANGED word
  BY DEF Transmit, OutsideEngine
<1>2. PICK d \in inflight["tx"] :
        /\ d.cookie = completed["tx"] + 1 /\ completed'["tx"] = completed["tx"] + 1
        /\ inflight'["tx"] = inflight["tx"] \ {d}
  BY <1>0, <1>1, CompleteNext
<1>3. /\ \A s \in Threads : ChannelInv(s)' /\ CountInv(s)'
      /\ StopInv' /\ UNCHANGED <<used, pc, bd, bdindex, claim, cookie>>
      /\ SameChannel("rx")
  BY <1>0, <1>1, EngineKeeps
<1>4. /\ completed["tx"] \in Nat /\ completed["rx"] \in Nat
      /\ stream \in Seq(Nat) /\ Len(stream) \in Nat
      /\ completed'["rx"] = completed["rx"]
  BY <1>0, <1>3, Entries DEF TypeOKTest, SameChannel
<1>oldest. word["tx"][d.bd] = completed["tx"]
  <2>1. word["tx"][d.bd] = d.cookie - 1
    BY <1>0 DEF PatternInv
  <2> QED BY <1>2, <1>4, <2>1
<1>5. stream' = Append(stream, completed["tx"])
  BY <1>2, <1>oldest DEF Transmit
<1>6. PatternInv'
  <2>1. \A e \in inflight'["tx"] : word["tx"][e.bd] = e.cookie - 1
    BY <1>0, <1>2 DEF PatternInv
  <2>2. Starting("tx")' => word["tx"][Target("tx")'] = used["tx"]
    BY <1>0, <1>3 DEF PatternInv, Starting, Target
  <2>3. Len(stream') = completed'["tx"] - completed'["rx"]
    BY <1>0, <1>2, <1>4, <1>5 DEF PatternInv
  <2>4. ASSUME NEW i \in 1 .. Len(stream') PROVE stream'[i] = completed["rx"] + i - 1
    <3>1. CASE i <= Len(stream)
      BY <1>0, <1>4, <1>5, <3>1 DEF PatternInv
    <3>2. CASE i = Len(stream) + 1
      BY <1>0, <1>4, <1>5, <3>2 DEF PatternInv
    <3> QED BY <1>4, <1>5, <3>1, <3>2
  <2> QED BY <1>0, <1>1, <1>3, <1>4, <2>1, <2>2, <2>3, <2>4 DEF PatternInv
<1> QED BY <1>3, <1>6 DEF LiveInv

(***************************************************************************)
(* The engine moves the first word of the stream to the buffer of the      *)
(* oldest receive transfer.                                                *)
(***************************************************************************)
LEMMA ReceiveKeeps ==
  ASSUME TypeOKTest, LiveInv, Receive
  PROVE  LiveInv'
<1>0. /\ TypeOK /\ "tx" \in Threads /\ "rx" \in Threads /\ "tx" # "rx"
      /\ ChannelInv("rx") /\ PatternInv
  BY Setting DEF TypeOKTest, LiveInv
<1>1. Complete("rx") /\ OutsideEngine /\ stream # <<>> /\ stream' = Tail(stream)
  BY DEF Receive, RxData, OutsideEngine
<1>2. PICK d \in inflight["rx"] :
        /\ d.cookie = completed["rx"] + 1 /\ completed'["rx"] = completed["rx"] + 1
        /\ inflight'["rx"] = inflight["rx"] \ {d}
  BY <1>0, <1>1, CompleteNext
<1>3. /\ \A s \in Threads : ChannelInv(s)' /\ CountInv(s)'
      /\ StopInv' /\ UNCHANGED <<used, pc, bd, bdindex, claim, cookie>>
      /\ SameChannel("tx")
  BY <1>0, <1>1, EngineKeeps
<1>4. /\ completed["tx"] \in Nat /\ completed["rx"] \in Nat
      /\ stream \in Seq(Nat) /\ Len(stream) \in Nat \ {0}
      /\ completed'["tx"] = completed["tx"]
      /\ d.bd \in Buffers
      /\ \A b \in Buffers : cookie["rx"][b] \in Int
  BY <1>0, <1>1, <1>2, <1>3, Entries DEF TypeOKTest, SameChannel
<1>5. Head(stream) = completed["rx"]
  BY <1>0, <1>4 DEF PatternInv
<1>6. word' = [word EXCEPT !["rx"][d.bd] = completed["rx"]]
  BY <1>2, <1>5 DEF Receive
<1>7. /\ word'["tx"] = word["tx"]
      /\ \A b \in Buffers : word'["rx"][b] = IF b = d.bd THEN completed["rx"] ELSE word["rx"][b]
  BY <1>0, <1>6 DEF TypeOKTest
<1>8. PatternInv'
  <2>1. \A e \in inflight'["tx"] : word'["tx"][e.bd] = e.cookie - 1
    BY <1>0, <1>3, <1>7 DEF PatternInv, SameChannel
  <2>2. Starting("tx")' => word'["tx"][Target("tx")'] = used["tx"]
    BY <1>0, <1>3, <1>7 DEF PatternInv, Starting, Target
  <2>3. Len(stream') = completed'["tx"] - completed'["rx"]
    BY <1>0, <1>1, <1>2, <1>4 DEF PatternInv
  <2>4. ASSUME NEW i \in 1 .. Len(stream') PROVE stream'[i] = (completed["rx"] + 1) + i - 1
    <3>1. i \in Nat /\ stream'[i] = stream[i + 1] /\ i + 1 \in 1 .. Len(stream)
      BY <1>1, <1>4
    <3>2. stream[i + 1] = completed["rx"] + (i + 1) - 1
      BY <1>0, <3>1 DEF PatternInv
    <3> QED BY <1>4, <3>1, <3>2
  <2>5. ASSUME NEW b \in Buffers,
               claim["rx"][b] \in {"owed", "taken"}, cookie["rx"][b] <= completed["rx"] + 1
        PROVE  word'["rx"][b] = cookie["rx"][b] - 1
    <3>1. CASE b = d.bd
      <4>1. cookie["rx"][b] = completed["rx"] + 1
        BY <1>0, <1>2, <3>1 DEF ChannelInv, QueueInv, Held
      <4> QED BY <1>4, <1>7, <3>1, <4>1
    <3>2. CASE b # d.bd /\ cookie["rx"][b] <= completed["rx"]
      BY <1>0, <1>7, <2>5, <3>2 DEF PatternInv
    <3>3. CASE b # d.bd /\ cookie["rx"][b] = completed["rx"] + 1
      <4>1. claim["rx"][b] = "owed"
        BY <1>0, <1>4, <2>5, <3>3 DEF ChannelInv, QueueInv
      <4>2. PICK e \in inflight["rx"] : e.bd = b
        BY <1>0, <1>4, <3>3, <4>1 DEF ChannelInv, QueueInv
      <4>3. e.cookie = d.cookie
        BY <1>0, <1>2, <3>3, <4>2 DEF ChannelInv, QueueInv, Held
      <4> QED BY <1>0, <3>3, <4>2, <4>3 DEF ChannelInv, QueueInv
    <3> QED BY <1>4, <2>5, <3>1, <3>2, <3>3
  <2> QED BY <1>0, <1>2, <1>3, <2>1, <2>2, <2>3, <2>4, <2>5 DEF PatternInv
<1> QED BY <1>3, <1>8 DEF LiveInv
----------------------------------------------------------------------------
(* The application.                                                        *)

(***************************************************************************)
(* The call of an ioctl.                                                   *)
(***************************************************************************)
LEMMA IoctlCall ==
  ASSUME TypeOK, NEW t \in Threads, NEW k \in {"START_XFER", "FINISH_XFER"},
         NEW b \in Buffers, Ioctl(t, k, b)
  PROVE  /\ pc[t] = "user" /\ pc'[t] = (IF k = "START_XFER" THEN "start" ELSE "wait")
         /\ cmd'[t] = k /\ bdindex'[t] = b
         /\ UNCHANGED <<status, cookie, done, engineVars, bd, timedout, txstatus, claim>>
         /\ \A s \in Threads : s # t => SameChannel(s)
<1>1. t \in Channels /\ FileOf[t] = t
  BY Setting
<1>2. /\ pc[t] = "user" /\ pc' = [pc EXCEPT ![t] = FirstStep(k)]
      /\ cmd' = [cmd EXCEPT ![t] = k] /\ bdindex' = [bdindex EXCEPT ![t] = b]
      /\ UNCHANGED <<status, cookie, done, engineVars, bd, timedout, txstatus, claim>>
  BY <1>1 DEF Ioctl, Chan
<1>3. FirstStep(k) = IF k = "START_XFER" THEN "start" ELSE "wait"
  BY DEF FirstStep
<1>4. Call(t)
  BY DEF Call, Commands
<1>5. \A s \in Threads : s # t => SameChannel(s)
  BY <1>4, OtherChannel
<1> QED BY <1>1, <1>2, <1>3, <1>5 DEF TypeOK

(***************************************************************************)
(* A thread starts the buffer that follows those in progress.              *)
(***************************************************************************)
LEMMA LaunchKeepsChannel ==
  ASSUME TypeOKTest, NEW t \in Threads, ChannelInv(t), NEW b \in Buffers,
         Ioctl(t, "START_XFER", b), at'[t] \in {"started", "finish"},
         b < BufferCount[t], claim[t][b] # "owed", Offset(t, b)' = used[t] - counter'[t],
         OutstandingInv(t)', RestInv(t)'
  PROVE  ChannelInv(t)'
<1>0. TypeOK
  BY DEF TypeOKTest
<1>1. /\ pc[t] = "user" /\ pc'[t] = "start" /\ cmd'[t] = "START_XFER" /\ bdindex'[t] = b
      /\ UNCHANGED <<status, cookie, done, engineVars, bd, timedout, txstatus, claim>>
  BY <1>0, IoctlCall
<1> USE DEF engineVars
<1>2. PlaceInv(t)'
  BY <1>1 DEF PlaceInv, AppStages
<1>3. QueueInv(t)'
  BY <1>1 DEF ChannelInv, QueueInv, Held
<1>4. ArmedInv(t)'
  BY <1>1 DEF ChannelInv, ArmedInv
<1>5. LaunchInv(t)'
  <2>1. Target(t)' = b
    BY <1>1 DEF Target
  <2>2. \A d \in Held(t)' : d.bd # b
    BY <1>1 DEF ChannelInv, QueueInv, Held
  <2> QED BY <1>1, <2>1, <2>2 DEF LaunchInv, Offset
<1>6. WaitInv(t)'
  BY DEF WaitInv
<1> QED BY <1>2, <1>3, <1>4, <1>5, <1>6 DEF ChannelInv

(***************************************************************************)
(* A thread goes from one place to another between its ioctls.             *)
(***************************************************************************)
LEMMA MoveKeepsChannel ==
  ASSUME TypeOKTest, NEW t \in Threads, ChannelInv(t), UNCHANGED vars, pc[t] = "user",
         at'[t] \in {"starting", "finish", "restart", "exited"},
         OutstandingInv(t)', RestInv(t)'
  PROVE  ChannelInv(t)'
<1> USE DEF vars, driverVars, engineVars, threadVars
<1>1. PlaceInv(t)'
  BY DEF PlaceInv, AppStages, Starting
<1>2. QueueInv(t)'
  BY DEF ChannelInv, QueueInv, Held
<1>3. ArmedInv(t)'
  BY DEF ChannelInv, ArmedInv
<1>4. LaunchInv(t)'
  BY DEF LaunchInv, Starting
<1>5. WaitInv(t)'
  BY DEF WaitInv
<1> QED BY <1>1, <1>2, <1>3, <1>4, <1>5 DEF ChannelInv

(***************************************************************************)
(* The same buffers are in progress, whatever else a thread does.          *)
(***************************************************************************)
LEMMA SameOutstanding ==
  ASSUME NEW t \in Threads, OutstandingInv(t), RestInv(t), at[t] # "finished",
         First(t)' = First(t), counter'[t] = counter[t], used'[t] = used[t],
         claim'[t] = claim[t], cookie'[t] = cookie[t]
  PROVE  OutstandingInv(t)' /\ RestInv(t)'
BY DEF OutstandingInv, RestInv, Offset

(***************************************************************************)
(* A step of one thread is nothing to the other.                           *)
(***************************************************************************)
LEMMA OtherKeeps ==
  ASSUME TypeOKTest, NEW s \in Threads, ChannelInv(s), CountInv(s), SameChannel(s),
         SamePlace(s), in_progress_count'[s] = in_progress_count[s],
         num_transfers' = num_transfers, overslept' = overslept
  PROVE  ChannelInv(s)' /\ CountInv(s)'
<1>1. ChannelInv(s)'
  BY ChannelFrame
<1>2. Begun(s)' = Begun(s)
  BY DEF SameChannel, Begun, Starting
<1>3. completed'[s] \in Nat /\ completed[s] <= completed'[s]
  BY Entries DEF SameChannel, TypeOKTest
<1>4. CountInv(s)'
  BY <1>2, <1>3, CountFrame
<1> QED BY <1>1, <1>4

(***************************************************************************)
(* The numbers of a thread.                                                *)
(***************************************************************************)
LEMMA Numbers ==
  ASSUME TypeOKTest, NEW t \in Threads, ChannelInv(t)
  PROVE  /\ used[t] \in Nat /\ completed[t] \in Nat /\ counter[t] \in Nat
         /\ in_progress_count[t] \in Nat /\ num_transfers \in Nat
         /\ buffer_id[t] \in Buffers /\ buffer_id[t] \in Nat
         /\ BufferCount[t] \in Nat \ {0}
         /\ pc[t] = "user" => Begun(t) = used[t]
         /\ completed[t] <= used[t]
BY Setting, Entries DEF TypeOKTest, Begun, Starting, ChannelInv, QueueInv

(***************************************************************************)
(* The control C comes in time.                                            *)
(***************************************************************************)
LEMMA SigIntKeeps ==
  ASSUME AsShipped, TypeOKTest, LiveInv, SigInt
  PROVE  LiveInv'
<1>1. /\ UNCHANGED <<vars, num_transfers, stop_in_progress, at, buffer_id, in_progress_count,
                     counter, word, stream, overslept>>
      /\ counter["tx"] + 1 + RX_BUFFER_COUNT <= num_transfers
  BY DEF SigInt, AsShipped
<1>2. \A s \in Threads : SameChannel(s) /\ SamePlace(s)
  BY <1>1 DEF SameChannel, SamePlace, vars, driverVars, engineVars, threadVars
<1>3. \A s \in Threads : ChannelInv(s)' /\ CountInv(s)'
  BY <1>1, <1>2, OtherKeeps DEF LiveInv
<1>4. PatternInv'
  BY <1>1 DEF LiveInv, PatternInv, Starting, Target, vars, driverVars, engineVars, threadVars
<1>5. StopInv'
  BY <1>1 DEF StopInv
<1> QED BY <1>3, <1>4, <1>5 DEF LiveInv

(***************************************************************************)
(* The first loop: the buffers are started in order, the transmit buffers  *)
(* with the numbers of their transfers.                                    *)
(***************************************************************************)
LEMMA StartBufferKeeps ==
  ASSUME TypeOKTest, LiveInv, NEW t \in Threads, StartBuffer(t)
  PROVE  LiveInv'
<1> SUFFICES ASSUME NEW b \in Buffers, b = buffer_id[t] PROVE LiveInv'
  BY DEF TypeOKTest
<1>0. /\ TypeOK /\ "tx" \in Threads /\ "rx" \in Threads
      /\ ChannelInv(t) /\ CountInv(t) /\ PatternInv /\ StopInv
  BY Setting DEF TypeOKTest, LiveInv
<1>1. /\ at[t] = "starting" /\ Ioctl(t, "START_XFER", b)
      /\ word' = [word EXCEPT ![t][b] = IF t = "tx" THEN in_progress_count[t] ELSE word[t][b]]
      /\ at' = [at EXCEPT ![t] = "started"]
      /\ UNCHANGED <<num_transfers, stop, stop_in_progress, buffer_id, in_progress_count,
                     counter, stream, overslept>>
  BY DEF StartBuffer, Move
<1>2. /\ pc[t] = "user" /\ pc'[t] = "start" /\ cmd'[t] = "START_XFER" /\ bdindex'[t] = b
      /\ UNCHANGED <<status, cookie, done, engineVars, bd, timedout, txstatus, claim>>
      /\ \A s \in Threads : s # t => SameChannel(s)
  BY <1>0, <1>1, IoctlCall
<1>3. at'[t] = "started" /\ \A s \in Threads : s # t => at'[s] = at[s]
  BY <1>1 DEF TypeOKTest
<1>4. /\ used[t] \in Nat /\ counter[t] = 0 /\ in_progress_count[t] = b /\ used[t] = b
      /\ b \in Nat /\ b < BufferCount[t] /\ BufferCount[t] \in Nat /\ b < num_transfers
  BY <1>0, <1>1, <1>2, Numbers DEF CountInv
<1>5. First(t) = 0 /\ First(t)' = 0 /\ Offset(t, b) = b /\ Offset(t, b)' = b
  BY <1>1, <1>3, <1>4 DEF First, Offset, Distance
<1> USE DEF engineVars
<1>6. ChannelInv(t)'
  <2>1. OutstandingInv(t)' /\ RestInv(t)'
    BY <1>0, <1>1, <1>2, <1>5, SameOutstanding DEF ChannelInv
  <2>2. claim[t][b] # "owed"
    BY <1>0, <1>4, <1>5 DEF ChannelInv, RestInv
  <2> QED BY <1>0, <1>1, <1>3, <1>4, <1>5, <2>1, <2>2, LaunchKeepsChannel
<1>7. CountInv(t)'
  <2>1. Begun(t)' = b + 1
    BY <1>2, <1>4 DEF Begun, Starting
  <2>2. /\ buffer_id'[t] = b /\ in_progress_count'[t] = b /\ counter'[t] = 0
        /\ num_transfers' = num_transfers /\ counter'[t] <= completed'[t]
    BY <1>0, <1>1, <1>2, <1>4 DEF CountInv
  <2>3. num_transfers \in Nat
    BY DEF TypeOKTest
  <2> QED BY <1>3, <1>4, <2>1, <2>2, <2>3 DEF CountInv
<1>8. ASSUME NEW s \in Threads, s # t PROVE ChannelInv(s)' /\ CountInv(s)'
  BY <1>1, <1>2, <1>3, <1>8, OtherKeeps DEF LiveInv, SamePlace
<1>9. PatternInv'
  <2>1. CASE t = "tx"
    <3>1. \A y \in Buffers : word'["tx"][y] = IF y = b THEN used["tx"] ELSE word["tx"][y]
      BY <1>1, <1>4, <2>1 DEF TypeOKTest
    <3>2. word'["rx"] = word["rx"]
      BY <1>0, <1>1, <2>1 DEF TypeOKTest
    <3>3. \A d \in inflight'["tx"] : d.bd \in Buffers /\ d.bd # b
      <4>1. LaunchInv(t)' /\ Target(t)' = b
        BY <1>2, <1>6 DEF ChannelInv, Target
      <4>2. \A d \in inflight["tx"] : d.bd \in Buffers
        BY <1>0, Entries
      <4> QED BY <1>2, <2>1, <4>1, <4>2 DEF LaunchInv, Starting, Held
    <3>4. Target("tx")' = b
      BY <1>2, <2>1 DEF Target
    <3> QED BY <1>0, <1>1, <1>2, <3>1, <3>2, <3>3, <3>4 DEF PatternInv
  <2>2. CASE t = "rx"
    <3>1. word' = word
      BY <1>1, <2>2 DEF TypeOKTest
    <3> QED BY <1>0, <1>1, <1>2, <2>2, <3>1 DEF PatternInv, SameChannel, Starting, Target
  <2> QED BY <2>1, <2>2, Setting
<1>10. StopInv'
  BY <1>0, <1>1 DEF StopInv
<1> QED BY <1>6, <1>7, <1>8, <1>9, <1>10 DEF LiveInv
(***************************************************************************)
(* The end of an iteration of the first loop.                              *)
(***************************************************************************)
LEMMA StartedKeeps ==
  ASSUME AsShipped, TypeOKTest, LiveInv, NEW t \in Threads, Started(t)
  PROVE  LiveInv'
<1>0. ChannelInv(t) /\ CountInv(t) /\ PatternInv /\ StopInv
  BY DEF LiveInv
<1> DEFINE p == in_progress_count[t]
           more == p + 1 < num_transfers /\ p + 1 < BufferCount[t]
<1>1. /\ at[t] = "started" /\ pc[t] = "user" /\ UNCHANGED vars
      /\ UNCHANGED <<num_transfers, stop, stop_in_progress, counter, word, stream, overslept>>
  BY DEF Started
<1>2. /\ p \in Nat /\ counter[t] = 0 /\ buffer_id[t] = p /\ used[t] = p + 1
      /\ num_transfers \in Nat /\ BufferCount[t] \in Nat
      /\ p < BufferCount[t] /\ p + 1 <= num_transfers
  BY <1>0, <1>1, Numbers DEF CountInv
<1>3. /\ in_progress_count' = [in_progress_count EXCEPT ![t] = p + 1]
      /\ buffer_id' = [buffer_id EXCEPT ![t] = IF more THEN p + 1 ELSE 0]
      /\ at' = [at EXCEPT ![t] = IF more THEN "starting" ELSE "finish"]
  BY <1>2 DEF Started, Move, AsShipped
<1> HIDE DEF more
<1>4. /\ in_progress_count'[t] = p + 1
      /\ buffer_id'[t] = (IF more THEN p + 1 ELSE 0)
      /\ at'[t] = (IF more THEN "starting" ELSE "finish")
      /\ \A s \in Threads : s # t =>
           SamePlace(s) /\ in_progress_count'[s] = in_progress_count[s]
  BY <1>1, <1>3 DEF TypeOKTest, SamePlace
<1>5. First(t) = 0 /\ First(t)' = 0
  BY <1>1, <1>4 DEF First
<1>6. \A s \in Threads : SameChannel(s)
  BY <1>1 DEF SameChannel, vars, driverVars, engineVars, threadVars
<1>7. ChannelInv(t)'
  <2>1. OutstandingInv(t)' /\ RestInv(t)'
    BY <1>0, <1>1, <1>5, <1>6, SameOutstanding DEF ChannelInv, SameChannel
  <2> QED BY <1>0, <1>1, <1>4, <2>1, MoveKeepsChannel
<1>8. CountInv(t)'
  <2>1. Begun(t)' = p + 1 /\ counter'[t] = 0 /\ counter'[t] <= completed'[t]
    BY <1>0, <1>1, <1>2, <1>6 DEF Begun, Starting, SameChannel, CountInv
  <2>2. CASE more
    BY <1>1, <1>2, <1>4, <2>1, <2>2 DEF CountInv, more
  <2>3. CASE ~more
    BY <1>1, <1>2, <1>4, <2>1, <2>3 DEF CountInv, more
  <2> QED BY <2>2, <2>3
<1>9. ASSUME NEW s \in Threads, s # t PROVE ChannelInv(s)' /\ CountInv(s)'
  BY <1>1, <1>4, <1>6, <1>9, OtherKeeps DEF LiveInv
<1>10. PatternInv' /\ StopInv'
  BY <1>0, <1>1 DEF PatternInv, StopInv, Starting, Target, vars, driverVars, engineVars, threadVars
<1> QED BY <1>7, <1>8, <1>9, <1>10 DEF LiveInv

(***************************************************************************)
(* FINISH_XFER is called for the first of the buffers in progress.         *)
(***************************************************************************)
LEMMA FinishKeeps ==
  ASSUME TypeOKTest, LiveInv, NEW t \in Threads, Finish(t)
  PROVE  LiveInv'
<1> SUFFICES ASSUME NEW b \in Buffers, b = buffer_id[t] PROVE LiveInv'
  BY DEF TypeOKTest
<1>0. TypeOK /\ ChannelInv(t) /\ CountInv(t) /\ PatternInv /\ StopInv
  BY DEF LiveInv, TypeOKTest
<1>1. /\ at[t] = "finish" /\ Ioctl(t, "FINISH_XFER", b)
      /\ at' = [at EXCEPT ![t] = "finished"]
      /\ UNCHANGED <<num_transfers, stop, stop_in_progress, buffer_id, in_progress_count,
                     counter, word, stream, overslept>>
  BY DEF Finish, Move
<1>2. /\ pc[t] = "user" /\ pc'[t] = "wait" /\ cmd'[t] = "FINISH_XFER" /\ bdindex'[t] = b
      /\ UNCHANGED <<status, cookie, done, engineVars, bd, timedout, txstatus, claim>>
      /\ \A s \in Threads : s # t => SameChannel(s)
  BY <1>0, <1>1, IoctlCall
<1>3. at'[t] = "finished" /\ \A s \in Threads : s # t => at'[s] = at[s]
  BY <1>1 DEF TypeOKTest
<1>4. /\ used[t] \in Nat /\ counter[t] \in Nat /\ in_progress_count[t] \in Nat
      /\ b \in Nat /\ b < BufferCount[t] /\ 0 < used[t] - counter[t]
  BY <1>0, <1>1, <1>2, Numbers DEF CountInv
<1>5. First(t) = b /\ First(t)' = b /\ Offset(t, b) = 0
  BY <1>1, <1>3, <1>4 DEF First, Offset, Distance
<1>6. claim[t][b] = "owed"
  BY <1>0, <1>1, <1>4, <1>5 DEF ChannelInv, OutstandingInv
<1> USE DEF engineVars
<1>7. ChannelInv(t)'
  <2>1. OutstandingInv(t)' /\ RestInv(t)'
    BY <1>0, <1>1, <1>2, <1>5, SameOutstanding DEF ChannelInv
  <2>2. PlaceInv(t)'
    BY <1>1, <1>2, <1>3 DEF PlaceInv, AppStages, Starting, Target
  <2>3. QueueInv(t)'
    BY <1>0, <1>2 DEF ChannelInv, QueueInv, Held
  <2>4. ArmedInv(t)'
    BY <1>0, <1>2 DEF ChannelInv, ArmedInv
  <2>5. LaunchInv(t)'
    BY <1>2 DEF LaunchInv, Starting
  <2>6. WaitInv(t)'
    BY <1>1, <1>2, <1>3, <1>6 DEF WaitInv
  <2> QED BY <2>1, <2>2, <2>3, <2>4, <2>5, <2>6 DEF ChannelInv
<1>8. CountInv(t)'
  <2>1. Begun(t)' = Begun(t)
    BY <1>2 DEF Begun, Starting
  <2> HIDE DEF Begun
  <2> QED BY <1>0, <1>1, <1>2, <1>3, <2>1 DEF CountInv
<1>9. ASSUME NEW s \in Threads, s # t PROVE ChannelInv(s)' /\ CountInv(s)'
  BY <1>1, <1>2, <1>3, <1>9, OtherKeeps DEF LiveInv, SamePlace
<1>10. PatternInv'
  <2>1. Starting("tx")' => Starting("tx") /\ Target("tx")' = Target("tx")
    <3>1. CASE t = "tx"
      BY <1>2, <3>1 DEF Starting
    <3>2. CASE t # "tx"
      BY <1>2, <3>2, Setting DEF SameChannel, Starting, Target
    <3> QED BY <3>1, <3>2
  <2> QED BY <1>0, <1>1, <1>2, <2>1 DEF PatternInv
<1>11. StopInv'
  BY <1>0, <1>1 DEF StopInv
<1> QED BY <1>7, <1>8, <1>9, <1>10, <1>11 DEF LiveInv

(***************************************************************************)
(* A thread that finds no error has the first of its buffers back; tx      *)
(* always does.                                                            *)
(***************************************************************************)
LEMMA HeadFinished ==
  ASSUME TypeOKTest, NEW t \in Threads, ChannelInv(t), CountInv(t),
         at[t] = "finished", pc[t] = "user",
         status[t][buffer_id[t]] = "NO_ERROR" \/ t = "tx"
  PROVE  /\ claim[t][buffer_id[t]] = "taken"
         /\ cookie[t][buffer_id[t]] = counter[t] + 1
         /\ counter[t] + 1 <= completed[t]
         /\ First(t) = buffer_id[t]
<1> SUFFICES ASSUME NEW b \in Buffers, b = buffer_id[t]
             PROVE  /\ claim[t][b] = "taken" /\ cookie[t][b] = counter[t] + 1
                    /\ counter[t] + 1 <= completed[t] /\ First(t) = b
  BY DEF TypeOKTest
<1>1. claim[t][b] = "taken"
  BY DEF ChannelInv, WaitInv, GivenUp, Acknowledged
<1>2. First(t) = b
  BY DEF First
<1>3. /\ used[t] \in Nat /\ counter[t] \in Nat /\ in_progress_count[t] \in Nat
      /\ b \in Nat /\ b < BufferCount[t] /\ 0 < used[t] - counter[t]
  BY Numbers DEF CountInv
<1>4. Offset(t, b) = 0
  BY <1>2, <1>3 DEF Offset, Distance
<1>5. cookie[t][b] = counter[t] + 1
  BY <1>3, <1>4 DEF ChannelInv, OutstandingInv
<1>6. counter[t] + 1 <= completed[t]
  BY <1>1, <1>5 DEF ChannelInv, QueueInv
<1> QED BY <1>1, <1>2, <1>5, <1>6
(***************************************************************************)
(* tx_thread has one buffer: it is the whole circular list, and when it is *)
(* finished everything that was asked for is.                              *)
(***************************************************************************)
LEMMA OneBuffer ==
  ASSUME AsShipped, TypeOKTest, LiveInv, at["tx"] = "finished", pc["tx"] = "user"
  PROVE  /\ "tx" \in Threads /\ BufferCount["tx"] = 1 /\ buffer_id["tx"] = 0
         /\ in_progress_count["tx"] = 1
         /\ counter["tx"] \in Nat /\ num_transfers \in Nat
         /\ used["tx"] = counter["tx"] + 1 /\ counter["tx"] + 1 <= num_transfers
         /\ counter["tx"] + 1 <= completed["tx"] /\ completed["tx"] <= used["tx"]
         /\ claim["tx"][0] = "taken"
<1>0. "tx" \in Threads /\ ChannelInv("tx") /\ CountInv("tx")
  BY Setting DEF LiveInv
<1>1. BufferCount["tx"] = 1
  BY Setting DEF AsShipped
<1>2. /\ used["tx"] \in Nat /\ counter["tx"] \in Nat /\ in_progress_count["tx"] \in Nat
      /\ buffer_id["tx"] \in Nat /\ num_transfers \in Nat
      /\ Begun("tx") = used["tx"] /\ completed["tx"] <= used["tx"]
  BY <1>0, Numbers
<1>3. buffer_id["tx"] = 0 /\ in_progress_count["tx"] = 1
  BY <1>0, <1>1, <1>2 DEF CountInv
<1>4. used["tx"] = counter["tx"] + 1 /\ counter["tx"] + 1 <= num_transfers
  BY <1>0, <1>2, <1>3 DEF CountInv
<1>5. claim["tx"][0] = "taken" /\ counter["tx"] + 1 <= completed["tx"]
  BY <1>0, <1>3, HeadFinished
<1> QED BY <1>0, <1>1, <1>2, <1>3, <1>4, <1>5

(***************************************************************************)
(* When the counts of the one buffer are even, no buffer is in progress.   *)
(***************************************************************************)
LEMMA NoneOutstanding ==
  ASSUME AsShipped, "tx" \in Threads, Buffers \subseteq Nat, BufferCount["tx"] = 1,
         First("tx")' = 0, used["tx"]' - counter["tx"]' = 0, claim["tx"][0]' # "owed"
  PROVE  OutstandingInv("tx")' /\ RestInv("tx")' /\ Offset("tx", 0)' = 0
<1>1. \A b \in Buffers : b < 1 => b = 0
  OBVIOUS
<1>2. Offset("tx", 0)' = 0
  BY DEF Offset, Distance
<1>3. OutstandingInv("tx")'
  BY <1>1, <1>2 DEF OutstandingInv
<1>4. RestInv("tx")'
  BY <1>1, <1>2 DEF RestInv
<1> QED BY <1>2, <1>3, <1>4

(***************************************************************************)
(* tx_thread has finished all the transfers that are wanted.               *)
(***************************************************************************)
LEMMA TxExits ==
  ASSUME AsShipped, TypeOKTest, LiveInv, TxFinished, counter["tx"] + 1 >= num_transfers
  PROVE  LiveInv'
<1>0. ChannelInv("tx") /\ CountInv("tx") /\ PatternInv /\ StopInv /\ Buffers \subseteq Nat
      /\ RX_BUFFER_COUNT \in Nat \ {0}
  BY Setting DEF LiveInv
<1>1. /\ "tx" \in Threads /\ BufferCount["tx"] = 1 /\ buffer_id["tx"] = 0
      /\ in_progress_count["tx"] = 1
      /\ counter["tx"] \in Nat /\ num_transfers \in Nat
      /\ used["tx"] = counter["tx"] + 1 /\ counter["tx"] + 1 <= num_transfers
      /\ counter["tx"] + 1 <= completed["tx"]
      /\ claim["tx"][0] = "taken"
  BY OneBuffer DEF TxFinished
<1>2. /\ at["tx"] = "finished" /\ pc["tx"] = "user"
      /\ counter' = [counter EXCEPT !["tx"] = counter["tx"] + 1]
      /\ in_progress_count' = [in_progress_count EXCEPT !["tx"] = in_progress_count["tx"] - 1]
      /\ at' = [at EXCEPT !["tx"] = "exited"]
      /\ UNCHANGED <<vars, num_transfers, stop_in_progress, buffer_id, word, stop, stream,
                     overslept>>
  BY DEF TxFinished, Move
<1>3. /\ counter'["tx"] = counter["tx"] + 1 /\ in_progress_count'["tx"] = 0
      /\ at'["tx"] = "exited"
      /\ \A s \in Threads : s # "tx" =>
           SamePlace(s) /\ in_progress_count'[s] = in_progress_count[s]
  BY <1>1, <1>2 DEF TypeOKTest, SamePlace
<1>4. \A s \in Threads : SameChannel(s)
  BY <1>2 DEF SameChannel, vars, driverVars, engineVars, threadVars
<1>5. ChannelInv("tx")'
  <2>1. First("tx")' = 0
    BY <1>1, <1>2, <1>3 DEF First
  <2>2. used'["tx"] - counter'["tx"] = 0 /\ claim'["tx"][0] # "owed"
    BY <1>1, <1>3, <1>4 DEF SameChannel
  <2>3. OutstandingInv("tx")' /\ RestInv("tx")'
    BY <1>0, <1>1, <2>1, <2>2, NoneOutstanding
  <2> QED BY <1>0, <1>1, <1>2, <1>3, <2>3, MoveKeepsChannel
<1>6. CountInv("tx")'
  <2>1. Begun("tx")' = counter["tx"] + 1
    BY <1>1, <1>2, <1>4 DEF Begun, Starting, SameChannel
  <2>2. completed'["tx"] = completed["tx"] /\ buffer_id'["tx"] = 0
    BY <1>1, <1>2, <1>4 DEF SameChannel
  <2> QED BY <1>1, <1>2, <1>3, <2>1, <2>2 DEF CountInv
<1>7. ASSUME NEW s \in Threads, s # "tx" PROVE ChannelInv(s)' /\ CountInv(s)'
  BY <1>2, <1>3, <1>4, <1>7, OtherKeeps DEF LiveInv
<1>8. PatternInv'
  BY <1>0, <1>2 DEF PatternInv, Starting, Target, vars, driverVars, engineVars, threadVars
<1>9. StopInv'
  <2>1. ~(counter["tx"] + 1 + RX_BUFFER_COUNT <= num_transfers)
    BY <1>0, <1>1
  <2> QED BY <1>0, <1>2, <2>1 DEF StopInv
<1> QED BY <1>5, <1>6, <1>7, <1>8, <1>9 DEF LiveInv

(***************************************************************************)
(* rx_thread has not begun more than RX_BUFFER_COUNT transfers beyond      *)
(* those tx_thread has asked for, and is not past the new end.             *)
(***************************************************************************)
LEMMA NewTarget ==
  ASSUME AsShipped, TypeOKTest, LiveInv, at["tx"] = "finished", pc["tx"] = "user",
         SameChannel("rx"), SamePlace("rx"),
         in_progress_count'["rx"] = in_progress_count["rx"],
         counter["tx"] + 1 < num_transfers, num_transfers' <= num_transfers,
         num_transfers' = counter["tx"] + 1 + RX_BUFFER_COUNT
  PROVE  CountInv("rx")'
<1> DEFINE c == counter["rx"]
           p == in_progress_count["rx"]
           n == counter["tx"] + 1
<1>0. "tx" \in Threads /\ "rx" \in Threads /\ CountInv("rx") /\ BufferCount["rx"] = RX_BUFFER_COUNT
  BY Setting DEF LiveInv
<1>1. /\ c \in Nat /\ p \in Nat /\ num_transfers \in Nat /\ completed["rx"] \in Nat
      /\ buffer_id["rx"] \in Nat /\ RX_BUFFER_COUNT \in Nat \ {0} /\ completed["tx"] \in Nat
  BY <1>0, Numbers DEF LiveInv
<1>2. n \in Nat /\ completed["tx"] <= n
  BY OneBuffer
<1>3. c <= n
  <2>1. completed["rx"] <= completed["tx"]
    <3>1. Len(stream) \in Nat /\ Len(stream) = completed["tx"] - completed["rx"]
      BY DEF LiveInv, PatternInv, TypeOKTest
    <3> QED BY <1>1, <3>1
  <2>2. c <= completed["rx"]
    BY <1>0 DEF CountInv
  <2> QED BY <1>1, <1>2, <2>1, <2>2
<1>4. Begun("rx")' = Begun("rx")
  BY DEF SameChannel, Begun, Starting
<1>5. completed'["rx"] = completed["rx"]
  BY DEF SameChannel
<1>6. CountInv("rx")
  BY <1>0
<1>7. p + (IF at["rx"] = "started" THEN 1 ELSE 0) <= RX_BUFFER_COUNT
  <2>1. /\ at["rx"] \in {"starting", "started", "finish", "finished", "restart", "exited"}
        /\ Begun("rx") = c + p + IF at["rx"] = "started" THEN 1 ELSE 0
        /\ Begun("rx") <= num_transfers
    BY <1>0, <1>6 DEF CountInv, LiveInv, ChannelInv, PlaceInv, AppStages
  <2>2. CASE at["rx"] \in {"starting", "started"}
    BY <1>0, <1>1, <1>6, <2>2 DEF CountInv
  <2>3. CASE at["rx"] \in {"finish", "finished", "restart"}
    BY <1>0, <1>1, <1>6, <2>3 DEF CountInv
  <2>4. CASE at["rx"] = "exited"
    <3>1. c = num_transfers
      BY <1>6, <2>4 DEF CountInv
    <3> QED BY <1>1, <1>2, <1>3, <3>1
  <2> QED BY <2>1, <2>2, <2>3, <2>4
<1>8. at["rx"] # "exited"
  <2>1. at["rx"] = "exited" => c = num_transfers
    BY <1>6 DEF CountInv
  <2> QED BY <1>1, <1>2, <1>3, <2>1
<1>9. Begun("rx") = c + p + (IF at["rx"] = "started" THEN 1 ELSE 0)
  BY <1>6 DEF CountInv
<1>10. Begun("rx") <= n + RX_BUFFER_COUNT
  BY <1>1, <1>2, <1>3, <1>7, <1>9
<1>11. /\ at["rx"] = "starting" => p < n + RX_BUFFER_COUNT
       /\ at["rx"] \in {"finish", "finished"} =>
            /\ 1 <= p /\ p <= RX_BUFFER_COUNT
            /\ p = RX_BUFFER_COUNT \/ c + p = n + RX_BUFFER_COUNT
       /\ at["rx"] = "restart" =>
            /\ c < n + RX_BUFFER_COUNT /\ p <= RX_BUFFER_COUNT - 1
            /\ p = RX_BUFFER_COUNT - 1 \/ c + p = n + RX_BUFFER_COUNT
  <2>1. CASE at["rx"] = "starting"
    BY <1>0, <1>1, <1>2, <1>6, <2>1 DEF CountInv
  <2>2. CASE at["rx"] \in {"finish", "finished"}
    <3>1. 1 <= p /\ p <= RX_BUFFER_COUNT /\ (p = RX_BUFFER_COUNT \/ c + p = num_transfers)
      BY <1>0, <1>6, <2>2 DEF CountInv
    <3> QED BY <1>1, <1>2, <1>3, <2>2, <3>1
  <2>3. CASE at["rx"] = "restart"
    <3>1. p <= RX_BUFFER_COUNT - 1 /\ (p = RX_BUFFER_COUNT - 1 \/ c + p = num_transfers)
      BY <1>0, <1>6, <2>3 DEF CountInv
    <3> QED BY <1>1, <1>2, <1>3, <2>3, <3>1
  <2> QED BY <2>1, <2>2, <2>3
<1> HIDE DEF Begun
<1> QED BY <1>0, <1>4, <1>5, <1>6, <1>8, <1>9, <1>10, <1>11 DEF CountInv, SamePlace
(***************************************************************************)
(* tx_thread starts its buffer again.  When it has just seen a control C,  *)
(* it goes on for RX_BUFFER_COUNT transfers, those rx_thread waits for.    *)
(***************************************************************************)
LEMMA TxGoesOn ==
  ASSUME AsShipped, TypeOKTest, LiveInv, TxFinished, counter["tx"] + 1 < num_transfers
  PROVE  LiveInv'
<1> DEFINE n == counter["tx"] + 1
<1>0. /\ ChannelInv("tx") /\ CountInv("tx") /\ PatternInv /\ StopInv /\ TypeOK
      /\ Buffers \subseteq Nat /\ 0 \in Buffers /\ RX_BUFFER_COUNT \in Nat \ {0}
      /\ "rx" \in Threads /\ Threads = {"tx", "rx"}
  BY Setting DEF LiveInv, TypeOKTest
<1>1. /\ "tx" \in Threads /\ BufferCount["tx"] = 1 /\ buffer_id["tx"] = 0
      /\ in_progress_count["tx"] = 1
      /\ counter["tx"] \in Nat /\ num_transfers \in Nat
      /\ used["tx"] = n /\ n <= completed["tx"] /\ claim["tx"][0] = "taken"
  BY OneBuffer DEF TxFinished
<1>2. /\ stop /\ ~stop_in_progress => Expected(n) = n + RX_BUFFER_COUNT
      /\ ~(stop /\ ~stop_in_progress) => Expected(n) = num_transfers
      /\ n < Expected(n) /\ Expected(n) <= num_transfers /\ Expected(n) \in Nat
  BY <1>0, <1>1 DEF Expected, StopInv
<1>3. /\ at["tx"] = "finished" /\ pc["tx"] = "user"
      /\ counter' = [counter EXCEPT !["tx"] = n]
      /\ num_transfers' = Expected(n) /\ stop_in_progress' = (stop \/ stop_in_progress)
      /\ buffer_id' = [buffer_id EXCEPT !["tx"] = 0]
      /\ at' = [at EXCEPT !["tx"] = "finish"]
      /\ word' = [word EXCEPT !["tx"][0] = n]
      /\ Ioctl("tx", "START_XFER", 0)
      /\ UNCHANGED <<in_progress_count, stop, stream, overslept>>
  <2>1. ~(n >= num_transfers) /\ ~(n + (in_progress_count["tx"] - 1) >= Expected(n))
    BY <1>1, <1>2
  <2>2. Pattern(n) = n
    BY <1>1 DEF Pattern, AsShipped
  <2>3. Advance("tx") => buffer_id' = [buffer_id EXCEPT !["tx"] = 0]
    BY <1>1 DEF Advance, AsShipped
  <2> QED BY <1>1, <2>1, <2>2, <2>3 DEF TxFinished, Move
<1> HIDE DEF n
<1>4. /\ pc'["tx"] = "start" /\ bdindex'["tx"] = 0
      /\ UNCHANGED <<status, cookie, done, engineVars, bd, timedout, txstatus, claim>>
      /\ SameChannel("rx")
  BY <1>0, <1>1, <1>3, IoctlCall
<1>5. /\ counter'["tx"] = n /\ buffer_id'["tx"] = 0 /\ at'["tx"] = "finish"
      /\ SamePlace("rx")
  BY <1>0, <1>1, <1>3 DEF TypeOKTest, SamePlace
<1> USE DEF engineVars
<1>6. n \in Nat
  BY <1>1 DEF n
<1>7. ChannelInv("tx")'
  <2>1. First("tx")' = 0
    BY <1>5 DEF First
  <2>2. used'["tx"] - counter'["tx"] = 0 /\ claim'["tx"][0] # "owed"
    BY <1>1, <1>4, <1>5, <1>6
  <2>3. OutstandingInv("tx")' /\ RestInv("tx")' /\ Offset("tx", 0)' = 0
    BY <1>0, <1>1, <2>1, <2>2, NoneOutstanding
  <2>4. Offset("tx", 0)' = used["tx"] - counter'["tx"]
    BY <1>1, <1>5, <1>6, <2>3
  <2> QED BY <1>0, <1>1, <1>3, <1>5, <2>3, <2>4, LaunchKeepsChannel
<1>8. CountInv("tx")'
  <2>1. Begun("tx")' = n + 1
    BY <1>1, <1>4 DEF Begun, Starting
  <2>2. completed'["tx"] = completed["tx"] /\ in_progress_count'["tx"] = 1
    BY <1>1, <1>3, <1>4
  <2>3. n + 1 <= num_transfers'
    BY <1>2, <1>3, <1>6
  <2> QED BY <1>1, <1>5, <1>6, <2>1, <2>2, <2>3 DEF CountInv
<1>9. ChannelInv("rx")' /\ CountInv("rx")'
  <2>0. ChannelInv("rx") /\ CountInv("rx")
    BY <1>0 DEF LiveInv
  <2>1. CASE stop /\ ~stop_in_progress
    <3>1. ChannelInv("rx")'
      BY <1>0, <1>3, <1>4, <1>5, <2>0, ChannelFrame
    <3>2. CountInv("rx")'
      <4>1. counter["tx"] + 1 < num_transfers /\ num_transfers' <= num_transfers
            /\ num_transfers' = counter["tx"] + 1 + RX_BUFFER_COUNT
        BY <1>2, <1>3, <2>1 DEF n
      <4> QED BY <1>3, <1>4, <1>5, <4>1, NewTarget
    <3> QED BY <3>1, <3>2
  <2>2. CASE ~(stop /\ ~stop_in_progress)
    BY <1>0, <1>2, <1>3, <1>4, <1>5, <2>0, <2>2, OtherKeeps
  <2> QED BY <2>1, <2>2
<1>10. PatternInv'
  <2>1. /\ word'["tx"][0] = n /\ word'["rx"] = word["rx"]
        /\ \A y \in Buffers : y # 0 => word'["tx"][y] = word["tx"][y]
    BY <1>0, <1>1, <1>3 DEF TypeOKTest
  <2>2. \A d \in inflight["tx"] : d.bd \in Buffers /\ d.bd # 0
    <3>1. \A d \in inflight["tx"] : d.bd \in Buffers
      BY <1>0, <1>1, Entries
    <3>2. \A d \in inflight["tx"] : claim["tx"][d.bd] = "owed"
      BY <1>0 DEF ChannelInv, QueueInv, Held
    <3> QED BY <1>1, <3>1, <3>2
  <2>3. Target("tx")' = 0
    BY <1>4 DEF Target
  <2> QED BY <1>0, <1>1, <1>3, <1>4, <2>1, <2>2, <2>3 DEF PatternInv
<1>11. StopInv'
  BY <1>3 DEF StopInv
<1> QED BY <1>0, <1>7, <1>8, <1>9, <1>10, <1>11 DEF LiveInv

(***************************************************************************)
(* The circular list seen from the buffer after the first.                 *)
(***************************************************************************)
LEMMA AfterDistance ==
  ASSUME NEW n \in Nat \ {0}, NEW f \in Nat, f < n, NEW y \in Nat, y < n,
         NEW g, g = (IF f + 1 = n THEN 0 ELSE f + 1)
  PROVE  Distance(g, n, y) = IF y = f THEN n - 1 ELSE Distance(f, n, y) - 1
BY DEF Distance

(***************************************************************************)
(* rx_thread has finished the first of its buffers.                        *)
(***************************************************************************)
LEMMA RxFinishedKeeps ==
  ASSUME TypeOKTest, LiveInv, RxFinished
  PROVE  LiveInv'
<1> SUFFICES ASSUME NEW b \in Buffers, b = buffer_id["rx"] PROVE LiveInv'
  BY Setting DEF TypeOKTest
<1> DEFINE c == counter["rx"]
           p == in_progress_count["rx"]
           n == BufferCount["rx"]
           over == c + 1 >= num_transfers
<1>0. /\ ChannelInv("rx") /\ CountInv("rx") /\ PatternInv /\ StopInv
      /\ "rx" \in Threads /\ "tx" \in Threads
      /\ \A y \in Buffers : y \in Nat
  BY Setting DEF LiveInv
<1>1. /\ at["rx"] = "finished" /\ pc["rx"] = "user" /\ status["rx"][b] = "NO_ERROR"
      /\ in_progress_count' = [in_progress_count EXCEPT !["rx"] = p - 1]
      /\ counter' = [counter EXCEPT !["rx"] = c + 1]
      /\ UNCHANGED <<vars, num_transfers, stop, stop_in_progress, buffer_id, word, stream,
                     overslept>>
  BY DEF RxFinished
<1>2. /\ c \in Nat /\ p \in Nat /\ n \in Nat \ {0} /\ num_transfers \in Nat /\ b \in Nat
      /\ b < n /\ used["rx"] = c + p /\ c + p <= num_transfers
      /\ 1 <= p /\ p <= n /\ (p = n \/ c + p = num_transfers)
  BY <1>0, <1>1, Numbers DEF CountInv
<1>3. counter'["rx"] = c + 1 /\ in_progress_count'["rx"] = p - 1
  BY <1>0, <1>1 DEF TypeOKTest
<1>4. at' = [at EXCEPT !["rx"] = IF over THEN "exited" ELSE "restart"]
  BY <1>3 DEF RxFinished, Move
<1>5. /\ at'["rx"] = (IF over THEN "exited" ELSE "restart")
      /\ \A s \in Threads : s # "rx" =>
           SamePlace(s) /\ in_progress_count'[s] = in_progress_count[s]
  BY <1>0, <1>1, <1>4 DEF TypeOKTest, SamePlace
<1>6. \A s \in Threads : SameChannel(s)
  BY <1>1 DEF SameChannel, vars, driverVars, engineVars, threadVars
<1>7. claim["rx"][b] = "taken" /\ c + 1 <= completed["rx"] /\ First("rx") = b
  BY <1>0, <1>1, HeadFinished
<1>8. First("rx")' = IF over THEN b ELSE IF b + 1 = n THEN 0 ELSE b + 1
  BY <1>1, <1>5 DEF First, After
<1> HIDE DEF over
<1>9. \A y \in Buffers : y < n =>
        /\ Offset("rx", y) \in Nat
        /\ Offset("rx", y)' =
             IF over THEN Offset("rx", y)
             ELSE IF y = b THEN n - 1 ELSE Offset("rx", y) - 1
        /\ y = b <=> Offset("rx", y) = 0
  <2> SUFFICES ASSUME NEW y \in Buffers, y < n
               PROVE  /\ Offset("rx", y) \in Nat
                      /\ Offset("rx", y)' =
                           IF over THEN Offset("rx", y)
                           ELSE IF y = b THEN n - 1 ELSE Offset("rx", y) - 1
                      /\ y = b <=> Offset("rx", y) = 0
    OBVIOUS
  <2>0. y \in Nat
    BY <1>0
  <2>1. Offset("rx", y) = Distance(b, n, y)
    BY <1>7 DEF Offset
  <2>2. Distance(b, n, y) \in Nat /\ (y = b <=> Distance(b, n, y) = 0)
    BY <1>2, <2>0 DEF Distance
  <2>3. CASE over
    BY <1>8, <2>1, <2>2, <2>3 DEF Offset
  <2>4. CASE ~over
    <3>1. Offset("rx", y)' = Distance(IF b + 1 = n THEN 0 ELSE b + 1, n, y)
      BY <1>8, <2>4 DEF Offset
    <3>2. Distance(IF b + 1 = n THEN 0 ELSE b + 1, n, y) =
            IF y = b THEN n - 1 ELSE Distance(b, n, y) - 1
      BY <1>2, <2>0, AfterDistance
    <3> QED BY <2>1, <2>2, <2>4, <3>1, <3>2
  <2> QED BY <2>3, <2>4
<1>10. over => p = 1
  BY <1>2 DEF over
<1>11. ChannelInv("rx")'
  <2>1. OutstandingInv("rx")'
    <3> SUFFICES ASSUME NEW y \in Buffers, y < n, Offset("rx", y)' < p - 1
                 PROVE  cookie["rx"][y] = c + 2 + Offset("rx", y)' /\ claim["rx"][y] = "owed"
      <4>1. /\ used'["rx"] - counter'["rx"] = p - 1
            /\ claim'["rx"] = claim["rx"] /\ cookie'["rx"] = cookie["rx"]
        BY <1>0, <1>2, <1>3, <1>6 DEF SameChannel
      <4>2. counter'["rx"] + 1 = c + 2
        BY <1>2, <1>3
      <4> HIDE DEF c, p
      <4> QED BY <4>1, <4>2 DEF OutstandingInv
    <3>1. ~over /\ y # b
      BY <1>2, <1>9, <1>10
    <3>2. Offset("rx", y)' = Offset("rx", y) - 1 /\ Offset("rx", y) \in Nat
      BY <1>9, <3>1
    <3>3. Offset("rx", y) < used["rx"] - counter["rx"]
      BY <1>2, <3>2
    <3>4. cookie["rx"][y] = c + 1 + Offset("rx", y) /\ claim["rx"][y] = "owed"
      BY <1>0, <3>1, <3>3 DEF ChannelInv, OutstandingInv
    <3> QED BY <1>2, <3>2, <3>4
  <2>2. RestInv("rx")'
    <3> SUFFICES ASSUME NEW y \in Buffers, y < n, ~(Offset("rx", y)' < p - 1)
                 PROVE  claim["rx"][y] # "owed"
      <4>1. used'["rx"] - counter'["rx"] = p - 1 /\ claim'["rx"] = claim["rx"]
        BY <1>0, <1>2, <1>3, <1>6 DEF SameChannel
      <4> HIDE DEF c, p
      <4> QED BY <4>1 DEF RestInv
    <3>1. CASE y = b
      BY <1>7, <3>1
    <3>2. CASE y # b
      <4>1. ~(Offset("rx", y) < used["rx"] - counter["rx"])
        <5>1. Offset("rx", y) \in Nat /\ Offset("rx", y) # 0
          BY <1>9, <3>2
        <5>2. CASE over
          BY <1>2, <1>10, <5>1, <5>2
        <5>3. CASE ~over
          <6>1. Offset("rx", y)' = Offset("rx", y) - 1
            BY <1>9, <3>2, <5>3
          <6> QED BY <1>2, <5>1, <6>1
        <5> QED BY <5>2, <5>3
      <4> QED BY <1>0, <4>1 DEF ChannelInv, RestInv
    <3> QED BY <3>1, <3>2
  <2> QED BY <1>0, <1>1, <1>5, <2>1, <2>2, MoveKeepsChannel
<1>12. CountInv("rx")'
  <2>1. Begun("rx")' = c + p
    BY <1>0, <1>1, <1>2, <1>6 DEF Begun, Starting, SameChannel
  <2>2. /\ completed'["rx"] = completed["rx"] /\ buffer_id'["rx"] = b
        /\ num_transfers' = num_transfers
    BY <1>0, <1>1, <1>6 DEF SameChannel
  <2>3. CASE over
    BY <1>2, <1>3, <1>5, <1>7, <2>1, <2>2, <2>3 DEF CountInv, over
  <2>4. CASE ~over
    BY <1>2, <1>3, <1>5, <1>7, <2>1, <2>2, <2>4 DEF CountInv, over
  <2> QED BY <2>3, <2>4
<1>13. ASSUME NEW s \in Threads, s # "rx" PROVE ChannelInv(s)' /\ CountInv(s)'
  BY <1>1, <1>5, <1>6, <1>13, OtherKeeps DEF LiveInv
<1>14. PatternInv'
  BY <1>0, <1>1 DEF PatternInv, Starting, Target, vars, driverVars, engineVars, threadVars
<1>15. StopInv'
  BY <1>0, <1>1 DEF StopInv, TypeOKTest
<1> QED BY <1>11, <1>12, <1>13, <1>14, <1>15 DEF LiveInv
(***************************************************************************)
(* rx_thread starts the buffer again that it has finished, now the last of *)
(* the circular list, if more transfers are wanted than are in progress.   *)
(***************************************************************************)
LEMMA RxRestartKeeps ==
  ASSUME AsShipped, TypeOKTest, LiveInv, RxRestart
  PROVE  LiveInv'
<1> SUFFICES ASSUME NEW b \in Buffers, b = buffer_id["rx"] PROVE LiveInv'
  BY Setting DEF TypeOKTest
<1> DEFINE c == counter["rx"]
           p == in_progress_count["rx"]
           n == BufferCount["rx"]
           g == IF b + 1 = n THEN 0 ELSE b + 1
<1>0. /\ ChannelInv("rx") /\ CountInv("rx") /\ PatternInv /\ StopInv /\ TypeOK
      /\ "rx" \in Threads /\ "tx" \in Threads
  BY Setting DEF LiveInv, TypeOKTest
<1>1. /\ at["rx"] = "restart" /\ at' = [at EXCEPT !["rx"] = "finish"]
      /\ UNCHANGED <<num_transfers, stop, stop_in_progress, counter, word, stream, overslept>>
  BY DEF RxRestart, Move
<1>2. pc["rx"] = "user"
  BY <1>0, <1>1 DEF ChannelInv, PlaceInv
<1>3. /\ c \in Nat /\ p \in Nat /\ n \in Nat \ {0} /\ num_transfers \in Nat /\ b \in Nat
      /\ b < n /\ used["rx"] = c + p /\ c + p <= num_transfers
      /\ c < num_transfers /\ p <= n - 1 /\ (p = n - 1 \/ c + p = num_transfers)
      /\ c <= completed["rx"]
  BY <1>0, <1>1, <1>2, Numbers DEF CountInv
<1>4. (b + 1) % n = g
  BY <1>3
<1>5. buffer_id' = [buffer_id EXCEPT !["rx"] = g]
  BY <1>4 DEF RxRestart, Advance, AsShipped
<1> HIDE DEF g
<1>6. /\ at'["rx"] = "finish" /\ buffer_id'["rx"] = g
      /\ \A s \in Threads : s # "rx" => SamePlace(s)
  BY <1>0, <1>1, <1>5 DEF TypeOKTest, SamePlace
<1>7. First("rx") = g /\ First("rx")' = g
  BY <1>1, <1>6 DEF First, After, g
<1>8. g < n
  BY <1>3 DEF g
<1>9. Offset("rx", b) = n - 1 /\ Offset("rx", b)' = n - 1
  BY <1>3, <1>7, AfterDistance DEF Offset, g
<1>10. CASE c + p >= num_transfers
  <2>1. UNCHANGED <<vars, in_progress_count>>
    BY <1>10 DEF RxRestart
  <2>2. \A s \in Threads : SameChannel(s)
    BY <2>1 DEF SameChannel, vars, driverVars, engineVars, threadVars
  <2>3. ChannelInv("rx")'
    <3>1. OutstandingInv("rx")' /\ RestInv("rx")'
      BY <1>0, <1>1, <1>7, <2>2, SameOutstanding DEF ChannelInv, SameChannel
    <3> QED BY <1>0, <1>2, <1>6, <2>1, <3>1, MoveKeepsChannel
  <2>4. CountInv("rx")'
    <3>1. Begun("rx")' = c + p
      BY <1>0, <1>2, <1>3, <2>1, <2>2 DEF Begun, Starting, SameChannel
    <3>2. /\ completed'["rx"] = completed["rx"] /\ num_transfers' = num_transfers
          /\ counter'["rx"] = c /\ in_progress_count'["rx"] = p
      BY <1>0, <1>1, <2>1, <2>2 DEF SameChannel
    <3> QED BY <1>3, <1>6, <1>8, <1>10, <3>1, <3>2 DEF CountInv
  <2>5. ASSUME NEW s \in Threads, s # "rx" PROVE ChannelInv(s)' /\ CountInv(s)'
    BY <1>1, <1>6, <2>1, <2>2, <2>5, OtherKeeps DEF LiveInv
  <2>6. PatternInv'
    BY <1>0, <1>1, <2>1 DEF PatternInv, Starting, Target, vars, driverVars, engineVars, threadVars
  <2>7. StopInv'
    BY <1>0, <1>1 DEF StopInv
  <2> QED BY <2>3, <2>4, <2>5, <2>6, <2>7 DEF LiveInv
<1>11. CASE c + p < num_transfers
  <2>1. /\ Ioctl("rx", "START_XFER", b)
        /\ in_progress_count' = [in_progress_count EXCEPT !["rx"] = p + 1]
    BY <1>3, <1>11 DEF RxRestart
  <2>2. /\ pc'["rx"] = "start"
        /\ UNCHANGED <<status, cookie, done, engineVars, bd, timedout, txstatus, claim>>
        /\ \A s \in Threads : s # "rx" => SameChannel(s)
    BY <1>0, <2>1, IoctlCall
  <2>3. /\ in_progress_count'["rx"] = p + 1
        /\ \A s \in Threads : s # "rx" => in_progress_count'[s] = in_progress_count[s]
    BY <1>0, <2>1 DEF TypeOKTest
  <2>4. p = n - 1
    BY <1>3, <1>11
  <2> USE DEF engineVars
  <2>5. ChannelInv("rx")'
    <3>1. OutstandingInv("rx")' /\ RestInv("rx")'
      BY <1>0, <1>1, <1>7, <2>2, SameOutstanding DEF ChannelInv
    <3>2. claim["rx"][b] # "owed"
      <4>1. ~(Offset("rx", b) < used["rx"] - counter["rx"])
        BY <1>3, <1>9, <2>4
      <4> QED BY <1>0, <1>3, <4>1 DEF ChannelInv, RestInv
    <3>3. Offset("rx", b)' = used["rx"] - counter'["rx"]
      BY <1>1, <1>3, <1>9, <2>4
    <3> QED BY <1>0, <1>3, <1>6, <2>1, <3>1, <3>2, <3>3, LaunchKeepsChannel
  <2>6. CountInv("rx")'
    <3>1. Begun("rx")' = c + p + 1
      BY <1>0, <1>3, <2>2 DEF Begun, Starting
    <3>2. /\ completed'["rx"] = completed["rx"] /\ num_transfers' = num_transfers
          /\ counter'["rx"] = c
      BY <1>1, <2>2
    <3> QED BY <1>3, <1>6, <1>8, <1>11, <2>3, <2>4, <3>1, <3>2 DEF CountInv
  <2>7. ASSUME NEW s \in Threads, s # "rx" PROVE ChannelInv(s)' /\ CountInv(s)'
    BY <1>1, <1>6, <2>2, <2>3, <2>7, OtherKeeps DEF LiveInv
  <2>8. PatternInv'
    BY <1>0, <1>1, <2>2 DEF PatternInv, SameChannel, Starting, Target
  <2>9. StopInv'
    BY <1>0, <1>1 DEF StopInv
  <2> QED BY <2>5, <2>6, <2>7, <2>8, <2>9 DEF LiveInv
<1> QED BY <1>3, <1>10, <1>11

(***************************************************************************)
(* Only rx_thread gives up, and only after a timer that was too early.     *)
(***************************************************************************)
LEMMA RxErrorAborts ==
  ASSUME TypeOKTest, LiveInv, RxError
  PROVE  overslept' /\ \A t \in Threads : at'[t] = "aborted"
<1>1. "rx" \in Threads /\ ChannelInv("rx")
  BY Setting DEF LiveInv
<1>2. GivenUp("rx")
  BY <1>1 DEF RxError, ChannelInv, WaitInv
<1> QED BY <1>2 DEF RxError, GivenUp

(***************************************************************************)
(* Whatever runs keeps the application going.                              *)
(***************************************************************************)
LEMMA RunningKeepsLive ==
  ASSUME AsShipped, TypeOKTest, LiveInv, Running
  PROVE  LiveInv' \/ (overslept' /\ \A t \in Threads : at'[t] = "aborted")
<1>1. Channels = Threads /\ counter["tx"] \in Nat /\ num_transfers \in Nat
  BY Setting DEF TypeOKTest
<1>2. ASSUME NEW t \in Threads, Thread(t) PROVE LiveInv'
  BY <1>2, StartBufferKeeps, StartedKeeps, FinishKeeps DEF Thread
<1>3. ASSUME NEW t \in Threads, Driver(t) PROVE LiveInv'
  BY <1>3, DriverKeeps
<1>4. CASE TxFinished
  <2>1. CASE counter["tx"] + 1 >= num_transfers
    BY <1>4, <2>1, TxExits
  <2>2. CASE counter["tx"] + 1 < num_transfers
    BY <1>4, <2>2, TxGoesOn
  <2> QED BY <1>1, <2>1, <2>2
<1>5. CASE Rx
  BY <1>5, RxErrorAborts, RxFinishedKeeps, RxRestartKeeps DEF Rx
<1>6. CASE Hardware
  BY <1>6, TransmitKeeps, ReceiveKeeps DEF Hardware
<1>7. ASSUME NEW c \in Channels, Tasklet(c) PROVE LiveInv'
  BY <1>1, <1>7, TaskletKeeps
<1>8. CASE SigInt
  BY <1>8, SigIntKeeps
<1> QED BY <1>2, <1>3, <1>4, <1>5, <1>6, <1>7, <1>8 DEF Running
----------------------------------------------------------------------------
(* Types.                                                                  *)

(***************************************************************************)
(* The indices of the buffers stay in their range.                         *)
(***************************************************************************)
LEMMA AdvanceType ==
  ASSUME AsShipped, TypeOKTest, NEW t \in Threads, Advance(t)
  PROVE  buffer_id' \in [Threads -> Buffers]
<1>1. /\ BufferCount[t] \in Nat \ {0} /\ buffer_id[t] \in Nat
      /\ \A b \in Nat : b < BufferCount[t] => b \in Buffers
  BY Setting DEF TypeOKTest
<1>2. buffer_id' = [buffer_id EXCEPT ![t] = (buffer_id[t] + 1) % BufferCount[t]]
  BY DEF Advance, AsShipped
<1>3. (buffer_id[t] + 1) % BufferCount[t] \in Nat
      /\ (buffer_id[t] + 1) % BufferCount[t] < BufferCount[t]
  BY <1>1
<1>4. (buffer_id[t] + 1) % BufferCount[t] \in Buffers
  BY <1>1, <1>3
<1> QED BY <1>2, <1>4 DEF TypeOKTest

\* Type correctness of what belongs to the application.
AppTypeOK ==
  /\ num_transfers \in Nat
  /\ stop \in BOOLEAN /\ stop_in_progress \in BOOLEAN
  /\ at \in [Threads -> Stages]
  /\ buffer_id \in [Threads -> Buffers]
  /\ in_progress_count \in [Threads -> Nat]
  /\ counter \in [Threads -> Nat]
  /\ word \in [Threads -> [Buffers -> Nat]]
  /\ stream \in Seq(Nat) /\ Len(stream) <= StreamDepth
  /\ overslept \in BOOLEAN

(***************************************************************************)
(* The steps of the threads keep the types of the application; a thread    *)
(* that has finished a buffer has one in progress.                         *)
(***************************************************************************)
LEMMA AppTypes ==
  ASSUME AsShipped, TypeOKTest, Running,
         \A t \in Threads : at[t] = "finished" => 1 <= in_progress_count[t]
  PROVE  AppTypeOK'
<1>0. /\ "tx" \in Threads /\ "rx" \in Threads /\ TypeOK /\ AppTypeOK /\ Threads = {"tx", "rx"}
      /\ Channels = Threads /\ RX_BUFFER_COUNT \in Nat /\ StreamDepth \in Nat
  BY Setting DEF TypeOKTest, AppTypeOK
<1>1. CASE SigInt
  BY <1>0, <1>1 DEF SigInt, AppTypeOK
<1>2. ASSUME NEW t \in Threads, StartBuffer(t) PROVE AppTypeOK'
  <2>1. /\ word' = [word EXCEPT ![t][buffer_id[t]] =
                      IF t = "tx" THEN in_progress_count[t] ELSE word[t][buffer_id[t]]]
        /\ at' = [at EXCEPT ![t] = "started"]
        /\ UNCHANGED <<num_transfers, stop, stop_in_progress, buffer_id, in_progress_count,
                       counter, stream, overslept>>
    BY <1>2 DEF StartBuffer, Move
  <2>2. word' \in [Threads -> [Buffers -> Nat]]
    BY <1>0, <2>1 DEF AppTypeOK
  <2> QED BY <1>0, <2>1, <2>2 DEF AppTypeOK, Stages
<1>3. ASSUME NEW t \in Threads, Started(t) PROVE AppTypeOK'
  <2> DEFINE p == in_progress_count[t] + 1
             next == buffer_id[t] + 1
             more == p < num_transfers /\ next < BufferCount[t]
  <2>1. /\ in_progress_count' = [in_progress_count EXCEPT ![t] = p]
        /\ buffer_id' = [buffer_id EXCEPT ![t] = IF more THEN next ELSE 0]
        /\ at' = [at EXCEPT ![t] = IF more THEN "starting" ELSE "finish"]
        /\ UNCHANGED <<num_transfers, stop, stop_in_progress, counter, word, stream, overslept>>
    BY <1>3 DEF Started, Move, AsShipped
  <2>2. p \in Nat /\ next \in Nat
    <3>1. in_progress_count[t] \in Nat /\ buffer_id[t] \in Buffers
      BY <1>0 DEF AppTypeOK
    <3>2. buffer_id[t] \in Nat
      BY <3>1, Setting
    <3> QED BY <3>1, <3>2
  <2>3. (IF more THEN next ELSE 0) \in Buffers
    BY <2>2, Setting
  <2> HIDE DEF p, next, more
  <2>4. /\ buffer_id' \in [Threads -> Buffers] /\ in_progress_count' \in [Threads -> Nat]
        /\ at' \in [Threads -> Stages]
    BY <1>0, <2>1, <2>2, <2>3 DEF AppTypeOK, Stages
  <2> QED BY <1>0, <2>1, <2>4 DEF AppTypeOK
<1>4. ASSUME NEW t \in Threads, Finish(t) PROVE AppTypeOK'
  BY <1>0, <1>4 DEF Finish, Move, AppTypeOK, Stages
<1>5. ASSUME NEW t \in Threads, Driver(t) PROVE AppTypeOK'
  <2>1. overslept' \in BOOLEAN
    BY <1>5 DEF Driver
  <2> QED BY <1>0, <1>5, <2>1 DEF Driver, AppTypeOK
<1>6. CASE TxFinished
  <2> DEFINE n == counter["tx"] + 1
             left == in_progress_count["tx"] - 1
             b == buffer_id["tx"]
  <2>1. n \in Nat /\ left \in Nat /\ Expected(n) \in Nat
    BY <1>0, <1>6 DEF TxFinished, AppTypeOK, Expected
  <2>2. Pattern(n) = n
    BY <2>1 DEF Pattern, AsShipped
  <2>3. /\ counter' = [counter EXCEPT !["tx"] = n]
        /\ \/ in_progress_count' = [in_progress_count EXCEPT !["tx"] = left]
           \/ UNCHANGED in_progress_count
        /\ UNCHANGED <<stop, stream, overslept>>
        /\ at' = [at EXCEPT !["tx"] = "exited"] \/ at' = [at EXCEPT !["tx"] = "finish"]
        /\ UNCHANGED num_transfers \/ num_transfers' = Expected(n)
        /\ UNCHANGED stop_in_progress \/ stop_in_progress' = (stop \/ stop_in_progress)
        /\ UNCHANGED buffer_id \/ Advance("tx")
        /\ UNCHANGED word \/ word' = [word EXCEPT !["tx"][b] = n]
    BY <1>6, <2>2 DEF TxFinished, Move
  <2> HIDE DEF n, left, b
  <2>buffer. b \in Buffers
    BY <1>0 DEF AppTypeOK, b
  <2>4. counter' \in [Threads -> Nat] /\ in_progress_count' \in [Threads -> Nat]
    BY <1>0, <2>1, <2>3 DEF AppTypeOK
  <2>5. buffer_id' \in [Threads -> Buffers]
    BY <1>0, <2>3, AdvanceType DEF AppTypeOK
  <2>6. word' \in [Threads -> [Buffers -> Nat]]
    <3>1. CASE UNCHANGED word
      BY <1>0, <3>1 DEF AppTypeOK
    <3>2. CASE word' = [word EXCEPT !["tx"][b] = n]
      BY <1>0, <2>1, <2>buffer, <3>2 DEF AppTypeOK
    <3> QED BY <2>3, <3>1, <3>2
  <2>7. at' \in [Threads -> Stages]
    BY <1>0, <2>3 DEF AppTypeOK, Stages
  <2> QED BY <1>0, <2>1, <2>3, <2>4, <2>5, <2>6, <2>7 DEF AppTypeOK
<1>7. CASE RxError
  BY <1>0, <1>7 DEF RxError, AppTypeOK, Stages
<1>8. CASE RxFinished
  <2>1. /\ in_progress_count' = [in_progress_count EXCEPT !["rx"] = in_progress_count["rx"] - 1]
        /\ counter' = [counter EXCEPT !["rx"] = counter["rx"] + 1]
        /\ at' = [at EXCEPT !["rx"] = "exited"] \/ at' = [at EXCEPT !["rx"] = "restart"]
        /\ UNCHANGED <<num_transfers, stop, stop_in_progress, buffer_id, word, stream, overslept>>
    BY <1>8 DEF RxFinished, Move
  <2>2. in_progress_count["rx"] - 1 \in Nat /\ counter["rx"] + 1 \in Nat
    BY <1>0, <1>8 DEF RxFinished, AppTypeOK
  <2> QED BY <1>0, <2>1, <2>2 DEF AppTypeOK, Stages
<1>9. CASE RxRestart
  <2>1. /\ UNCHANGED in_progress_count \/
           in_progress_count' = [in_progress_count EXCEPT !["rx"] = in_progress_count["rx"] + 1]
        /\ Advance("rx") /\ at' = [at EXCEPT !["rx"] = "finish"]
        /\ UNCHANGED <<num_transfers, stop, stop_in_progress, counter, word, stream, overslept>>
    BY <1>9 DEF RxRestart, Move
  <2>2. in_progress_count["rx"] + 1 \in Nat
    BY <1>0 DEF AppTypeOK
  <2>3. buffer_id' \in [Threads -> Buffers]
    BY <1>0, <2>1, AdvanceType
  <2> QED BY <1>0, <2>1, <2>2, <2>3 DEF AppTypeOK, Stages
<1>10. CASE Transmit
  <2>1. PICK d \in inflight["tx"] : stream' = Append(stream, word["tx"][d.bd])
    BY <1>10 DEF Transmit
  <2>2. d.bd \in Buffers
    BY <1>0, Entries
  <2>3. word["tx"][d.bd] \in Nat /\ stream \in Seq(Nat) /\ Len(stream) < StreamDepth
    BY <1>0, <1>10, <2>2 DEF AppTypeOK, Transmit, TxRoom
  <2>4. stream' \in Seq(Nat) /\ Len(stream') <= StreamDepth
    BY <1>0, <2>1, <2>3
  <2> QED BY <1>0, <1>10, <2>4 DEF Transmit, AppTypeOK
<1>11. CASE Receive
  <2>1. PICK d \in inflight["rx"] : word' = [word EXCEPT !["rx"][d.bd] = Head(stream)]
    BY <1>11 DEF Receive
  <2>2. stream \in Seq(Nat) /\ stream # <<>> /\ stream' = Tail(stream) /\ Len(stream) <= StreamDepth
    BY <1>0, <1>11 DEF AppTypeOK, Receive, RxData
  <2>3. Head(stream) \in Nat /\ stream' \in Seq(Nat) /\ Len(stream') <= StreamDepth
    BY <1>0, <2>2
  <2>4. word' \in [Threads -> [Buffers -> Nat]]
    BY <1>0, <2>1, <2>3 DEF AppTypeOK
  <2> QED BY <1>0, <1>11, <2>3, <2>4 DEF Receive, AppTypeOK
<1>12. ASSUME NEW c \in Channels, Tasklet(c) PROVE AppTypeOK'
  BY <1>0, <1>12 DEF Tasklet, appVars, AppTypeOK
<1> QED BY <1>1, <1>2, <1>3, <1>4, <1>5, <1>6, <1>7, <1>8, <1>9, <1>10, <1>11, <1>12
        DEF Running, Thread, Rx, Hardware

(***************************************************************************)
(* What runs is a step of DmaProxy.                                        *)
(***************************************************************************)
LEMMA RunningIsNext ==
  ASSUME TypeOKTest, Running
  PROVE  [Next]_vars
<1>0. Channels = Threads /\ \A t \in Threads : buffer_id[t] \in Buffers
  BY Setting DEF TypeOKTest
<1>1. \A t \in Threads : \A k \in {"START_XFER", "FINISH_XFER"} :
        Ioctl(t, k, buffer_id[t]) => Next
  BY <1>0 DEF Next, Call, Commands
<1>2. "tx" \in Threads /\ "rx" \in Threads
  BY Setting
<1>3. CASE SigInt
  BY <1>3 DEF SigInt
<1>4. ASSUME NEW t \in Threads, Thread(t) PROVE [Next]_vars
  BY <1>1, <1>4 DEF Thread, StartBuffer, Started, Finish
<1>5. ASSUME NEW t \in Threads, Driver(t) PROVE [Next]_vars
  BY <1>5 DEF Driver, Next
<1>6. CASE TxFinished
  BY <1>1, <1>2, <1>6 DEF TxFinished
<1>7. CASE Rx
  BY <1>1, <1>2, <1>7 DEF Rx, RxError, RxFinished, RxRestart
<1>8. CASE Hardware
  BY <1>0, <1>2, <1>8 DEF Hardware, Transmit, Receive, Next, Engine
<1>9. ASSUME NEW c \in Channels, Tasklet(c) PROVE [Next]_vars
  BY <1>9 DEF Tasklet, Next, Engine
<1> QED BY <1>3, <1>4, <1>5, <1>6, <1>7, <1>8, <1>9 DEF Running
\* The steps of the life of the driver that touch nothing of what is typed in
\* DmaProxyTest.
Elsewhere ==
  \/ Insmod \/ ProbeFails \/ CreateClass \/ AllocRegion \/ RequestChannel \/ Publish \/ TestDone
  \/ Rmmod \/ RmmodFailed \/ ExitDevices \/ Destroy
  \/ Start \/ Open \/ OpenFails \/ LostEnds

(***************************************************************************)
(* They touch nothing of it.                                               *)
(***************************************************************************)
LEMMA ElsewhereFrame ==
  ASSUME Elsewhere
  PROVE  UNCHANGED allVars
BY DEF Elsewhere, Insmod, ProbeFails, CreateClass, AllocRegion, RequestChannel, Publish, TestDone,
       Rmmod, RmmodFailed, ExitDevices, Destroy, Start, Open, OpenFails, LostEnds

(***************************************************************************)
(* The life of the driver keeps the types of everything else.              *)
(***************************************************************************)
LEMMA LifeTypes ==
  ASSUME IInv, TypeOKTest, Insmod \/ ProbeFails \/ Probe \/ Remove \/ Main
  PROVE  TypeOKTest'
<1>0. /\ TypeOK /\ "tx" \in Threads /\ "rx" \in Threads /\ Channels = Threads /\ 0 \in Buffers
      /\ Threads = {"tx", "rx"} /\ StreamDepth \in Nat /\ Transfers \in Nat
  BY Setting DEF TypeOKTest
<1>1. CASE Elsewhere
  BY <1>1, ElsewhereFrame DEF allVars, appVars, vars, driverVars, engineVars, threadVars,
                              TypeOKTest, TypeOK
<1>2. CASE Allocate
  <2> SUFFICES ASSUME NEW c \in Channels, c = This PROVE TypeOKTest'
    BY <1>2, Names DEF Allocate, This, IInv, ShapeInv
  <2>1. /\ bdindex' = [bdindex EXCEPT ![c] = 0]
        /\ status' = [status EXCEPT ![c] = [b \in Buffers |-> "NO_ERROR"]]
        /\ cookie' = [cookie EXCEPT ![c] = [b \in Buffers |-> 0]]
        /\ claim' = [claim EXCEPT ![c] = [b \in Buffers |-> "none"]]
        /\ word' = [word EXCEPT ![c] = [b \in Buffers |-> 0]]
        /\ UNCHANGED <<engineVars, threadVars, num_transfers, stop, stop_in_progress, at,
                       buffer_id, in_progress_count, counter, stream, overslept>>
    BY <1>2 DEF Allocate
  <2>2. PICK garbage \in [Buffers -> GarbageDone] : done' = [done EXCEPT ![c] = garbage]
    BY <1>2 DEF Allocate
  <2>3. garbage \in [Buffers -> Nat]
    BY <2>2, EngineAssumption
  <2>4. bdindex' \in [Channels -> Buffers] /\ done' \in [Channels -> [Buffers -> Nat]]
    BY <1>0, <2>1, <2>2, <2>3 DEF TypeOK
  <2>5. /\ status' \in [Channels -> [Buffers -> Statuses]]
        /\ cookie' \in [Channels -> [Buffers -> Nat \cup {SubmitError}]]
        /\ claim' \in [Channels -> [Buffers -> Claims]]
        /\ word' \in [Threads -> [Buffers -> Nat]]
    BY <1>0, <2>1 DEF TypeOK, TypeOKTest, Statuses, Claims
  <2>6. TypeOK'
    BY <1>0, <2>1, <2>4, <2>5 DEF TypeOK, engineVars, threadVars
  <2> QED BY <2>1, <2>5, <2>6 DEF TypeOKTest
<1>3. CASE Test \/ TestTransmit
  <2>1. /\ bdindex' = [bdindex EXCEPT !["tx"] = 0]
        /\ \E t \in Threads : Transfer(t)
        /\ UNCHANGED <<status, cookie, done, engineVars, bd, timedout, txstatus, claim,
                       num_transfers, stop, stop_in_progress, buffer_id, in_progress_count,
                       counter, word, stream, overslept>>
    BY <1>0, <1>3 DEF Test, TestTransmit
  <2>2. at' \in [Threads -> Stages]
    <3>1. CASE Test
      BY <1>0, <3>1 DEF Test, TypeOKTest, Stages
    <3>2. CASE TestTransmit
      BY <1>0, <3>2 DEF TestTransmit, TypeOKTest, Stages
    <3> QED BY <1>3, <3>1, <3>2
  <2>3. TypeOK'
    BY <1>0, <2>1 DEF TypeOK, Transfer, engineVars, Locations, Commands
  <2> QED BY <2>1, <2>2, <2>3 DEF TypeOKTest
<1>4. CASE ReleaseChannel
  <2>1. This \in Channels
    BY <1>4, Names DEF ReleaseChannel, This, IInv, ShapeInv
  <2>2. /\ used' = [used EXCEPT ![This] = 0] /\ completed' = [completed EXCEPT ![This] = 0]
        /\ inflight' = [inflight EXCEPT ![This] = {}]
        /\ armed' = [armed EXCEPT ![This] = FALSE]
        /\ callbacks' = [callbacks EXCEPT ![This] = {}]
        /\ stream' = <<>>
        /\ UNCHANGED <<driverVars, threadVars, claim, num_transfers, stop, stop_in_progress, at,
                       buffer_id, in_progress_count, counter, word, overslept>>
    BY <1>4 DEF ReleaseChannel
  <2>3. used' \in [Channels -> Nat] /\ completed' \in [Channels -> Nat]
    BY <1>0, <2>1, <2>2 DEF TypeOK
  <2>4. /\ inflight' \in [Channels -> SUBSET Descriptors]
        /\ callbacks' \in [Channels -> SUBSET Descriptors]
        /\ armed' \in [Channels -> BOOLEAN]
    BY <1>0, <2>1, <2>2 DEF TypeOK
  <2>5. TypeOK'
    BY <1>0, <2>2, <2>3, <2>4 DEF TypeOK, driverVars, threadVars
  <2>6. stream' \in Seq(Nat) /\ Len(stream') <= StreamDepth
    BY <1>0, <2>2
  <2> QED BY <2>2, <2>5, <2>6 DEF TypeOKTest
<1>5. CASE Free \/ SetupThreads
  <2>1. TypeOK'
    BY <1>0, <1>5 DEF Free, SetupThreads, vars, driverVars, engineVars, threadVars, TypeOK
  <2> QED BY <1>5, <2>1 DEF Free, SetupThreads, TypeOKTest, Stages
<1>6. CASE Close
  <2>1. TypeOK'
    BY <1>0, <1>6 DEF Close, vars, driverVars, engineVars, threadVars, TypeOK
  <2> QED BY <1>0, <1>6, <2>1 DEF Close, TypeOKTest, Stages
<1> QED BY <1>1, <1>2, <1>3, <1>4, <1>5, <1>6 DEF Elsewhere, Probe, Remove, Main

(***************************************************************************)
(* The class, the region and the history keep their types.                 *)
(***************************************************************************)
LEMMA LifeTypeStep ==
  ASSUME LifeTypeOK, NextDevice
  PROVE  LifeTypeOK'
<1> USE DEF LifeTypeOK
<1>1. CASE Insmod \/ ProbeFails
  BY <1>1 DEF Insmod, ProbeFails, mainVars
<1>2. CASE Probe
  BY <1>2 DEF Probe, CreateClass, AllocRegion, RequestChannel, Publish, Allocate, Test,
              TestTransmit, TestDone, mainVars, deviceVars, lifeVars
<1>3. CASE Remove
  BY <1>3 DEF Remove, Rmmod, RmmodFailed, ExitDevices, ReleaseChannel, Destroy, Free, mainVars
<1>4. CASE Main
  BY <1>4 DEF Main, Start, Open, OpenFails, LostEnds, SetupThreads, Close, lifeVars
<1>5. CASE Alone(Running)
  BY <1>5 DEF Alone, deviceVars, lifeVars, mainVars
<1> QED BY <1>1, <1>2, <1>3, <1>4, <1>5 DEF NextDevice
----------------------------------------------------------------------------
(* Outside the application.                                                *)

(***************************************************************************)
(* A step of an ioctl that submits nothing leaves an unused channel as it  *)
(* is.                                                                     *)
(***************************************************************************)
LEMMA StepUnused ==
  ASSUME AsShipped, TypeOK, NEW t \in Threads, Step(t), NEW c \in Channels, used'[c] = 0
  PROVE  /\ used[c] = 0 /\ completed' = completed /\ callbacks' = callbacks
         /\ inflight'[c] = inflight[c]
         /\ inflight[c] = {} /\ ~armed[c] => ~armed'[c]
         /\ \A b \in Buffers : claim[c][b] = "none" => claim'[c][b] = "none"
<1>0. /\ Channels = Threads /\ FileOf[t] = t /\ used[t] \in Nat
      /\ \A b \in Buffers : claim[t][b] \in Claims
  BY Setting, Entries
<1>1. completed' = completed /\ callbacks' = callbacks
  BY DEF Step, Prepare, InitCompletion, Submit, Issue, Wait, Wake, Expire, Check, Report, engineVars
<1>2. CASE c # t
  BY <1>0, <1>1, <1>2, OtherChannel DEF SameChannel
<1>3. CASE c = t
  <2>1. CASE Prepare(t)
    <3>1. /\ claim' = [claim EXCEPT ![t][bdindex[t]] = "none"]
          /\ UNCHANGED <<driverVars, engineVars>>
      BY <1>0, <2>1 DEF Prepare, AsShipped, Chan
    <3> QED BY <1>0, <1>1, <1>3, <3>1 DEF engineVars, TypeOK
  <2>2. CASE Submit(t)
    <3>1. used' = [used EXCEPT ![t] = used[t] + 1]
      BY <1>0, <2>2 DEF Submit, AsShipped, Chan
    <3>2. used'[t] = used[t] + 1
      BY <1>0, <3>1 DEF TypeOK
    <3> QED BY <1>0, <1>3, <3>2
  <2>3. CASE Issue(t)
    <3>1. /\ UNCHANGED <<used, inflight, claim>>
          /\ armed' = [armed EXCEPT ![t] = inflight[t] # {}]
      BY <1>0, <2>3 DEF Issue, Chan
    <3> QED BY <1>0, <1>1, <1>3, <3>1 DEF TypeOK
  <2>4. CASE Wake(t)
    <3>1. /\ UNCHANGED engineVars
          /\ claim' = [claim EXCEPT ![t][bd[t]] = IF claim[t][bd[t]] = "owed" THEN "taken" ELSE claim[t][bd[t]]]
      BY <1>0, <2>4 DEF Wake, Chan
    <3> QED BY <1>0, <1>1, <1>3, <3>1 DEF engineVars, TypeOK
  <2>5. CASE InitCompletion(t) \/ Wait(t) \/ Expire(t) \/ Check(t) \/ Report(t)
    <3>1. UNCHANGED <<engineVars, claim>>
      BY <2>5 DEF InitCompletion, Wait, Expire, Check, Report
    <3> QED BY <1>1, <3>1 DEF engineVars
  <2> QED BY <2>1, <2>2, <2>3, <2>4, <2>5 DEF Step
<1> QED BY <1>2, <1>3

(***************************************************************************)
(* What runs leaves an unused channel unused, or uses it.                  *)
(***************************************************************************)
LEMMA RunningUnused ==
  ASSUME AsShipped, IInv, TypeOKTest, \A c \in Channels : used[c] = 0 => Unused(c),
         Alone(Running), NEW c \in Channels, used'[c] = 0
  PROVE  used[c] = 0 /\ Unused(c)'
<1>0. /\ TypeOK /\ Channels = Threads /\ Threads = {"tx", "rx"}
      /\ load' = load /\ memory' = memory
  BY Setting DEF TypeOKTest, Alone, deviceVars, lifeVars
<1>1. CASE UNCHANGED <<engineVars, claim, stream>>
  BY <1>0, <1>1 DEF engineVars, Unused
<1>2. ASSUME NEW t \in Threads, Thread(t) PROVE UNCHANGED <<engineVars, claim, stream>>
  BY <1>2 DEF Thread, StartBuffer, Started, Finish, Ioctl, vars
<1>3. CASE SigInt \/ TxFinished \/ Rx
  BY <1>1, <1>3 DEF SigInt, TxFinished, Rx, RxError, RxFinished, RxRestart, Ioctl, vars
<1>4. ASSUME NEW t \in Threads, Driver(t) PROVE used[c] = 0 /\ Unused(c)'
  <2>1. Step(t) /\ UNCHANGED stream
    BY <1>4 DEF Driver
  <2>2. /\ used[c] = 0 /\ completed' = completed /\ callbacks' = callbacks
        /\ inflight'[c] = inflight[c]
        /\ inflight[c] = {} /\ ~armed[c] => ~armed'[c]
        /\ \A b \in Buffers : claim[c][b] = "none" => claim'[c][b] = "none"
    BY <1>0, <2>1, StepUnused
  <2> QED BY <1>0, <2>1, <2>2 DEF Unused
<1>5. ASSUME NEW s \in Threads, Complete(s) \/ Callback(s),
             s = "tx" \/ stream' = stream \/ RxData
      PROVE  used[c] = 0 /\ Unused(c)'
  <2>1. UNCHANGED <<used, claim>>
    BY <1>5 DEF Complete, Callback
  <2>2. Unused(c)
    BY <2>1
  <2>3. inflight[s] # {} \/ callbacks[s] # {}
    BY <1>5 DEF Complete, Callback, Oldest
  <2>4. s # c
    BY <2>2, <2>3 DEF Unused
  <2>5. SameChannel(c)
    BY <1>0, <1>5, <2>4, EngineOtherChannel
  <2>6. c = "tx" => stream' = <<>>
    BY <1>5, <2>2, <2>4 DEF Unused, RxData
  <2> QED BY <1>0, <2>1, <2>2, <2>5, <2>6 DEF Unused, SameChannel
<1>6. CASE Transmit
  BY <1>0, <1>5, <1>6 DEF Transmit
<1>7. CASE Receive
  BY <1>0, <1>5, <1>7 DEF Receive
<1>8. ASSUME NEW s \in Channels, Tasklet(s) PROVE used[c] = 0 /\ Unused(c)'
  BY <1>0, <1>5, <1>8 DEF Tasklet, appVars
<1> QED BY <1>1, <1>2, <1>3, <1>4, <1>6, <1>7, <1>8 DEF Alone, Running, Hardware

(***************************************************************************)
(* The life of the driver leaves an unused channel unused; and allocating  *)
(* its memory forgets the claims of an earlier application.                *)
(***************************************************************************)
LEMMA LifeUnused ==
  ASSUME IInv, TypeOKTest, \A c \in Channels : used[c] = 0 => Unused(c),
         Insmod \/ ProbeFails \/ Probe \/ Remove \/ Main,
         NEW c \in Channels, used'[c] = 0
  PROVE  Unused(c)'
<1>0. /\ TypeOK /\ Channels = Threads /\ Threads = {"tx", "rx"}
      /\ \A d \in Channels : \A b \in Buffers : claim[d][b] \in Claims
  BY Setting, Entries DEF TypeOKTest
<1>1. ASSUME UNCHANGED <<engineVars, claim, stream>>,
             c \in memory' /\ load' \notin {"release", "destroy", "free"} =>
               c \in memory /\ load \notin {"release", "destroy", "free"}
      PROVE  Unused(c)'
  BY <1>1 DEF engineVars, Unused
<1>2. CASE Insmod \/ ProbeFails \/ (Probe /\ ~Allocate)
  <2>1. UNCHANGED <<engineVars, claim, stream>>
    BY <1>2 DEF Insmod, ProbeFails, Probe, CreateClass, AllocRegion, RequestChannel, Publish,
                Test, TestTransmit, TestDone, allVars, appVars, vars
  <2>2. memory' = memory \/ memory' = {}
    BY <1>2 DEF Insmod, ProbeFails, Probe, CreateClass, AllocRegion, RequestChannel, Publish,
                Test, TestTransmit, TestDone, deviceVars, lifeVars
  <2>3. load \notin {"release", "destroy", "free"} \/ load' = load
    BY <1>2 DEF Insmod, ProbeFails, Probe, CreateClass, AllocRegion, RequestChannel, Publish,
                Test, TestTransmit, TestDone, deviceVars, lifeVars
  <2> QED BY <1>1, <2>1, <2>2, <2>3
<1>3. CASE Allocate
  <2> SUFFICES ASSUME NEW s \in Channels, s = This PROVE Unused(c)'
    BY <1>3, Names DEF Allocate, This, IInv, ShapeInv
  <2>1. /\ load = "memory" /\ memory' = memory \cup {s}
        /\ claim' = [claim EXCEPT ![s] = [b \in Buffers |-> "none"]]
        /\ UNCHANGED <<engineVars, stream>>
    BY <1>3 DEF Allocate
  <2>2. Unused(c)
    BY <2>1 DEF engineVars
  <2>3. c \in memory' => \A b \in Buffers : claim'[c][b] = "none"
    <3>1. CASE c = s
      BY <1>0, <2>1, <3>1 DEF TypeOK
    <3>2. CASE c # s
      BY <1>0, <2>1, <2>2, <3>2 DEF TypeOK, Unused
    <3> QED BY <3>1, <3>2
  <2> QED BY <2>1, <2>2, <2>3 DEF Unused, engineVars
<1>4. CASE Remove /\ ~ReleaseChannel
  <2>1. UNCHANGED <<engineVars, claim, stream>>
    BY <1>4 DEF Remove, Rmmod, RmmodFailed, ExitDevices, Destroy, Free, allVars, appVars, vars
  <2>2. memory' = memory \/ memory' = {}
    BY <1>4 DEF Remove, Rmmod, RmmodFailed, ExitDevices, Destroy, Free
  <2>3. \/ load \notin {"release", "destroy", "free"}
        \/ load' \in {"release", "destroy", "free"} \/ memory' = {}
    BY <1>4 DEF Remove, Rmmod, RmmodFailed, ExitDevices, Destroy, Free
  <2> QED BY <1>1, <2>1, <2>2, <2>3
<1>5. CASE ReleaseChannel
  <2> SUFFICES ASSUME NEW s \in Channels, s = This PROVE Unused(c)'
    BY <1>5, Names DEF ReleaseChannel, This, IInv, ShapeInv
  <2>1. /\ used' = [used EXCEPT ![s] = 0] /\ completed' = [completed EXCEPT ![s] = 0]
        /\ inflight' = [inflight EXCEPT ![s] = {}]
        /\ armed' = [armed EXCEPT ![s] = FALSE]
        /\ callbacks' = [callbacks EXCEPT ![s] = {}]
        /\ stream' = <<>> /\ load' \in {"release", "destroy"}
    BY <1>5 DEF ReleaseChannel, AfterRelease
  <2>2. CASE c = s
    BY <1>0, <2>1, <2>2 DEF Unused, TypeOK
  <2>3. CASE c # s
    <3>1. used[c] = 0
      BY <1>0, <2>1, <2>3 DEF TypeOK
    <3> QED BY <1>0, <2>1, <2>3, <3>1 DEF Unused, TypeOK
  <2> QED BY <2>2, <2>3
<1>6. CASE Main
  <2>1. UNCHANGED <<engineVars, claim, stream, load, memory>>
    BY <1>6 DEF Main, Start, Open, OpenFails, LostEnds, SetupThreads, Close, lifeVars, allVars,
                appVars, vars
  <2> QED BY <1>1, <2>1
<1> QED BY <1>2, <1>3, <1>4, <1>5, <1>6

(***************************************************************************)
(* Until the application runs, none of its steps is possible; and before   *)
(* it has opened its files, no step of the driver is.                      *)
(***************************************************************************)
LEMMA NotRunning ==
  ASSUME IInv, TypeOKTest, main # "running", Alone(Running)
  PROVE  /\ UNCHANGED <<num_transfers, stop, stop_in_progress, buffer_id, in_progress_count, counter>>
         /\ main = "open" /\ (\A c \in Channels : inflight[c] = {} /\ callbacks[c] = {}) => FALSE
<1>0. Threads = {"tx", "rx"} /\ Channels = Threads
  BY Setting
<1>1. \A t \in Threads : at[t] \notin AppStages
  BY DEF IInv, ThreadInv
<1>2. ~SigInt \/ main # "running"
  OBVIOUS
<1>3. \A t \in Threads : ~Thread(t)
  BY <1>1 DEF Thread, StartBuffer, Started, Finish, AppStages
<1>4. ~TxFinished /\ ~Rx
  BY <1>0, <1>1 DEF TxFinished, Rx, RxError, RxFinished, RxRestart, AppStages
<1>5. (\E t \in Threads : Driver(t)) \/ Hardware \/ \E c \in Channels : Tasklet(c)
  BY <1>3, <1>4 DEF Alone, Running
<1>6. UNCHANGED <<num_transfers, stop, stop_in_progress, buffer_id, in_progress_count, counter>>
  BY <1>5 DEF Driver, Hardware, Transmit, Receive, Tasklet, appVars
<1>7. ASSUME main = "open", \A c \in Channels : inflight[c] = {} /\ callbacks[c] = {}
      PROVE  FALSE
  <2>1. \A t \in Threads : pc[t] = "user"
    BY <1>7 DEF IInv, MainInv, ThreadInv, Idle
  <2>2. \A t \in Threads : ~Driver(t)
    BY <2>1 DEF Driver, Step, Prepare, InitCompletion, Submit, Issue, Wait, Wake, Expire, Check,
                Report
  <2>3. \A c \in Channels : ~Complete(c) /\ ~Callback(c)
    BY <1>7 DEF Complete, Callback, Oldest
  <2> QED BY <1>0, <1>5, <2>2, <2>3 DEF Hardware, Transmit, Receive, Tasklet
<1> QED BY <1>6, <1>7

(***************************************************************************)
(* What is known outside the application is kept.                          *)
(***************************************************************************)
LEMMA UnusedStep ==
  ASSUME AsShipped, IInv, TypeOKTest, UnusedInv, NextDevice
  PROVE  UnusedInv'
<1>0. \A c \in Channels : used[c] = 0 => Unused(c)
  BY DEF UnusedInv
<1>1. \A c \in Channels : used'[c] = 0 => Unused(c)'
  BY <1>0, RunningUnused, LifeUnused DEF NextDevice
<1>2. ASSUME main' = "open" PROVE \A c \in Channels : used'[c] = 0
  <2>1. CASE Alone(Running)
    <3>1. main = "open"
      BY <1>2, <2>1 DEF Alone, deviceVars, mainVars
    <3>2. \A c \in Channels : inflight[c] = {} /\ callbacks[c] = {}
      BY <3>1 DEF UnusedInv, Unused
    <3> QED BY <2>1, <3>1, <3>2, NotRunning
  <2>2. CASE ReleaseChannel
    <3>1. main = "open"
      BY <1>2, <2>2 DEF ReleaseChannel, mainVars
    <3>2. \A c \in Channels : used[c] = 0 /\ used \in [Channels -> Nat]
      BY <3>1 DEF UnusedInv, TypeOKTest, TypeOK
    <3> QED BY <2>2, <3>2 DEF ReleaseChannel
  <2>3. CASE Insmod \/ ProbeFails \/ Probe \/ (Remove /\ ~ReleaseChannel)
    <3>1. UNCHANGED <<used, main>>
      BY <2>3 DEF Insmod, ProbeFails, Probe, CreateClass, AllocRegion, RequestChannel, Publish,
                  Allocate, Test, TestTransmit, TestDone, Remove, Rmmod, RmmodFailed, ExitDevices,
                  Destroy, Free, deviceVars, mainVars, allVars, appVars, vars, engineVars
    <3> QED BY <1>2, <3>1 DEF UnusedInv
  <2>4. CASE Main
    <3>1. UNCHANGED used
      BY <2>4 DEF Main, Start, Open, OpenFails, LostEnds, SetupThreads, Close, allVars, appVars,
                  vars, engineVars
    <3>2. main = "open" \/ \A c \in Channels : used[c] = 0
      BY <1>2, <2>4 DEF Main, Start, Open, OpenFails, LostEnds, SetupThreads, Close
    <3> QED BY <3>1, <3>2 DEF UnusedInv
  <2> QED BY <2>1, <2>2, <2>3, <2>4 DEF NextDevice
<1>3. ASSUME main' # "running"
      PROVE  /\ num_transfers' = Transfers /\ ~stop' /\ ~stop_in_progress'
             /\ \A t \in Threads :
                  buffer_id'[t] = 0 /\ in_progress_count'[t] = 0 /\ counter'[t] = 0
  <2>1. CASE Close
    BY <2>1 DEF Close
  <2>2. CASE ~Close
    <3>1. main # "running"
      BY <1>3, <2>2 DEF NextDevice, Alone, Insmod, ProbeFails, Probe, CreateClass, AllocRegion,
                        RequestChannel, Publish,
                        Allocate, Test, TestTransmit, TestDone, Remove, Rmmod, RmmodFailed,
                        ExitDevices, ReleaseChannel, Destroy, Free, Main, Start, Open, OpenFails,
                        LostEnds, SetupThreads, deviceVars, mainVars
    <3>2. UNCHANGED <<num_transfers, stop, stop_in_progress, buffer_id, in_progress_count, counter>>
      <4>1. CASE Alone(Running)
        BY <3>1, <4>1, NotRunning
      <4>2. CASE Insmod \/ ProbeFails \/ Probe
        BY <4>2 DEF Insmod, ProbeFails, Probe, CreateClass, AllocRegion, RequestChannel, Publish,
                    Allocate, Test, TestTransmit, TestDone, allVars, appVars
      <4>3. CASE Remove
        BY <4>3 DEF Remove, Rmmod, RmmodFailed, ExitDevices, ReleaseChannel, Destroy, Free, allVars,
                    appVars
      <4>4. CASE Main
        BY <2>2, <4>4 DEF Main, Start, Open, OpenFails, LostEnds, SetupThreads, allVars, appVars
      <4> QED BY <4>1, <4>2, <4>3, <4>4 DEF NextDevice
    <3> QED BY <3>1, <3>2 DEF UnusedInv
  <2> QED BY <2>1, <2>2
<1> QED BY <1>1, <1>2, <1>3 DEF UnusedInv
----------------------------------------------------------------------------
(* The whole invariant.                                                    *)

(***************************************************************************)
(* setup_threads finds everything as the threads expect it.                *)
(***************************************************************************)
LEMMA SetupStarts ==
  ASSUME AsShipped, IInv, TypeOKTest, UnusedInv, SetupThreads
  PROVE  LiveInv'
<1>0. /\ TypeOK /\ Channels = Threads /\ Threads = {"tx", "rx"} /\ Transfers \in Nat \ {0}
      /\ \A t \in Threads : BufferCount[t] \in Nat \ {0}
      /\ Buffers \subseteq Nat
  BY Setting DEF TypeOKTest
<1>1. /\ main = "open" /\ opened = Channels
      /\ at' = [t \in Threads |-> "starting"]
      /\ UNCHANGED <<vars, num_transfers, stop, stop_in_progress, buffer_id, in_progress_count,
                     counter, word, stream, overslept>>
  BY DEF SetupThreads
<1>2. load = "bound" /\ memory = Channels
  BY <1>0, <1>1 DEF IInv, MainInv, LoadInv
<1>3. \A t \in Threads : pc[t] = "user"
  BY <1>1 DEF IInv, MainInv, ThreadInv, Idle
<1>4. \A t \in Threads :
        /\ used[t] = 0 /\ completed[t] = 0 /\ inflight[t] = {} /\ callbacks[t] = {} /\ ~armed[t]
        /\ \A b \in Buffers : claim[t][b] = "none"
  BY <1>0, <1>1, <1>2 DEF UnusedInv, Unused
<1>5. /\ stream = <<>> /\ num_transfers = Transfers /\ ~stop
      /\ \A t \in Threads : buffer_id[t] = 0 /\ in_progress_count[t] = 0 /\ counter[t] = 0
  BY <1>0, <1>1, <1>4 DEF UnusedInv, Unused
<1> USE DEF vars, driverVars, engineVars, threadVars
<1>6. ASSUME NEW t \in Threads PROVE ChannelInv(t)'
  <2>0. Held(t)' = {}
    BY <1>1, <1>4 DEF Held
  <2>1. PlaceInv(t)'
    BY <1>1, <1>3 DEF PlaceInv, AppStages, Starting
  <2>2. QueueInv(t)'
    BY <1>1, <1>4, <2>0 DEF QueueInv
  <2>3. ArmedInv(t)' /\ LaunchInv(t)' /\ WaitInv(t)'
    BY <1>1, <1>3, <1>4 DEF ArmedInv, LaunchInv, WaitInv, Starting
  <2>4. First(t)' = 0
    BY <1>1 DEF First
  <2>5. \A b \in Buffers : Offset(t, b)' = b
    BY <1>0, <2>4 DEF Offset, Distance
  <2>6. OutstandingInv(t)'
    BY <1>0, <1>1, <1>4, <1>5, <2>5 DEF OutstandingInv
  <2>7. RestInv(t)'
    BY <1>1, <1>4 DEF RestInv
  <2> QED BY <2>1, <2>2, <2>3, <2>6, <2>7 DEF ChannelInv
<1>7. ASSUME NEW t \in Threads PROVE CountInv(t)'
  <2>1. Begun(t)' = 0
    BY <1>1, <1>3, <1>4 DEF Begun, Starting
  <2>2. /\ buffer_id'[t] = 0 /\ in_progress_count'[t] = 0 /\ counter'[t] = 0
        /\ completed'[t] = 0 /\ num_transfers' = Transfers /\ at'[t] = "starting"
    BY <1>1, <1>4, <1>5
  <2> QED BY <1>0, <2>1, <2>2 DEF CountInv
<1>8. PatternInv'
  <2>1. inflight'["tx"] = {} /\ ~Starting("tx")' /\ completed'["tx"] = 0 /\ completed'["rx"] = 0
    BY <1>0, <1>1, <1>3, <1>4 DEF Starting
  <2>2. \A b \in Buffers : claim'["rx"][b] = "none"
    BY <1>0, <1>1, <1>4
  <2>3. Len(stream') = 0
    BY <1>1, <1>5
  <2> QED BY <2>1, <2>2, <2>3 DEF PatternInv
<1>9. StopInv'
  BY <1>1, <1>5 DEF StopInv
<1> QED BY <1>6, <1>7, <1>8, <1>9 DEF LiveInv

(***************************************************************************)
(* The life of the driver stands still while the application runs.         *)
(***************************************************************************)
LEMMA WhileRunning ==
  ASSUME IInv, NextDevice, main = "running", main' = "running"
  PROVE  Alone(Running)
<1>1. load = "bound" /\ opened = Channels /\ Channels = {"tx", "rx"}
  BY Names DEF IInv, MainInv
<1>2. \A t \in Threads : at[t] # "scheduled"
  BY DEF IInv, MainInv, ThreadInv
<1>3. ~Insmod /\ ~ProbeFails /\ ~Probe
  BY <1>1, <1>2, Names DEF Insmod, ProbeFails, Probe, CreateClass, AllocRegion, RequestChannel,
                           Publish, Allocate, Test, TestTransmit, TestDone
<1>4. ~Remove
  BY <1>1 DEF Remove, Rmmod, RmmodFailed, ExitDevices, ReleaseChannel, Destroy, Free
<1>5. ~Main
  BY DEF Main, Start, Open, OpenFails, LostEnds, SetupThreads, Close
<1> QED BY <1>3, <1>4, <1>5 DEF NextDevice

(***************************************************************************)
(* When exit(1) has ended the threads, their ioctls and the hardware go    *)
(* on.                                                                     *)
(***************************************************************************)
LEMMA AbortedKeeps ==
  ASSUME TypeOKTest, \A t \in Threads : at[t] = "aborted", overslept, Running
  PROVE  UNCHANGED at /\ overslept'
<1>0. "tx" \in Threads /\ "rx" \in Threads
  BY Setting
<1>1. (\A t \in Threads : ~Thread(t)) /\ ~TxFinished /\ ~Rx
  BY <1>0 DEF Thread, StartBuffer, Started, Finish, TxFinished, Rx, RxError, RxFinished, RxRestart
<1> QED BY <1>1 DEF Running, SigInt, Driver, Hardware, Transmit, Receive, Tasklet, appVars

(***************************************************************************)
(* What is known of the application is kept, from its start to its end.    *)
(***************************************************************************)
LEMMA AppStep ==
  ASSUME AsShipped, TestInv, NextDevice, main' = "running"
  PROVE  AppInv'
<1>0. Threads = {"tx", "rx"} /\ at \in [Threads -> Stages]
  BY Setting DEF TestInv, TypeOKTest
<1>1. LiveInv' => AppInv'
  BY <1>0 DEF AppInv, LiveInv, ChannelInv, PlaceInv
<1>2. ASSUME overslept', \A t \in Threads : at'[t] = "aborted" PROVE AppInv'
  BY <1>0, <1>2 DEF AppInv, AppStages
<1>3. CASE main # "running"
  <2>1. SetupThreads
    BY <1>3 DEF NextDevice, Alone, Insmod, ProbeFails, Probe, CreateClass, AllocRegion,
                RequestChannel, Publish, Allocate, Test, TestTransmit, TestDone, Remove, Rmmod,
                RmmodFailed, ExitDevices, ReleaseChannel, Destroy, Free, Main, Start, Open,
                OpenFails, LostEnds, Close, deviceVars, mainVars
  <2> QED BY <1>1, <2>1, SetupStarts DEF TestInv
<1>4. CASE main = "running"
  <2>1. Running /\ AppInv /\ TypeOKTest
    BY <1>4, WhileRunning DEF TestInv, Alone
  <2>2. CASE at["rx"] = "aborted"
    <3>1. \A t \in Threads : at[t] = "aborted"
      BY <1>0, <2>1, <2>2 DEF AppInv
    <3>2. UNCHANGED at /\ overslept'
      BY <2>1, <2>2, <3>1, AbortedKeeps DEF AppInv
    <3> QED BY <1>2, <3>1, <3>2
  <2>3. CASE at["rx"] # "aborted"
    <3>1. LiveInv
      BY <2>1, <2>3 DEF AppInv
    <3> QED BY <1>1, <1>2, <2>1, <3>1, RunningKeepsLive
  <2> QED BY <2>2, <2>3
<1> QED BY <1>3, <1>4

(***************************************************************************)
(* A thread that has finished a buffer runs, and has one in progress.      *)
(***************************************************************************)
LEMMA FinishedInProgress ==
  ASSUME TestInv, NEW t \in Threads, at[t] = "finished"
  PROVE  1 <= in_progress_count[t]
<1>1. main = "running"
  BY DEF TestInv, IInv, ThreadInv, AppStages
<1>2. at["rx"] # "aborted"
  BY Setting, <1>1 DEF TestInv, AppInv
<1>3. CountInv(t)
  BY <1>1, <1>2 DEF TestInv, AppInv, LiveInv
<1> QED BY <1>3 DEF CountInv

(***************************************************************************)
(* Every step keeps the invariant.                                         *)
(***************************************************************************)
LEMMA TestStep ==
  ASSUME AsShipped, TestInv, [NextDevice]_systemVars
  PROVE  TestInv'
<1>1. CASE UNCHANGED systemVars
  <2>1. IInv'
    BY <1>1 DEF systemVars, allVars, appVars, vars, engineVars, threadVars, deviceVars, lifeVars,
       mainVars, TestInv, IInv, ShapeInv, LoadInv, EngineInv, MainInv, ThreadInv, Engaged, Idle,
       Passed
  <2>2. TypeOKTest' /\ LifeTypeOK'
    BY <1>1 DEF systemVars, allVars, appVars, vars, driverVars, engineVars, threadVars, deviceVars,
       lifeVars, mainVars, TestInv, TypeOKTest, TypeOK, LifeTypeOK
  <2>3. UnusedInv'
    BY <1>1 DEF systemVars, allVars, appVars, vars, engineVars, deviceVars, lifeVars, mainVars,
       TestInv, UnusedInv, Unused
  <2>4. ASSUME main' = "running" PROVE AppInv'
    <3>1. /\ main = "running" /\ UNCHANGED <<vars, num_transfers, stop, stop_in_progress, at,
                    buffer_id, in_progress_count, counter, word, stream, overslept>>
      BY <1>1, <2>4 DEF systemVars, allVars, appVars, deviceVars, mainVars
    <3>2. AppInv /\ TypeOKTest
      BY <3>1 DEF TestInv
    <3>3. LiveInv => LiveInv'
      <4> SUFFICES ASSUME LiveInv PROVE LiveInv'
        OBVIOUS
      <4>1. \A s \in Threads : SameChannel(s) /\ SamePlace(s)
        BY <3>1 DEF SameChannel, SamePlace, vars, driverVars, engineVars, threadVars
      <4>2. \A s \in Threads : ChannelInv(s)' /\ CountInv(s)'
        BY <3>1, <3>2, <4>1, OtherKeeps DEF LiveInv
      <4>3. PatternInv' /\ StopInv'
        BY <3>1 DEF LiveInv, PatternInv, StopInv, Starting, Target, vars, driverVars, engineVars,
                    threadVars
      <4> QED BY <4>2, <4>3 DEF LiveInv
    <3> QED BY <3>1, <3>2, <3>3 DEF AppInv
  <2> QED BY <2>1, <2>2, <2>3, <2>4 DEF TestInv
<1>2. CASE NextDevice
  <2>1. IInv /\ TypeOKTest /\ LifeTypeOK /\ UnusedInv
    BY DEF TestInv
  <2>2. IInv'
    BY <1>2, <2>1, ProbeKeeps, RemoveKeeps, MainKeeps, AloneKeeps DEF NextDevice
  <2>3. TypeOKTest'
    <3>1. CASE Alone(Running)
      <4>1. Running /\ TypeOK
        BY <2>1, <3>1 DEF Alone, TypeOKTest
      <4>2. AppTypeOK'
        BY <2>1, <4>1, AppTypes, FinishedInProgress
      <4>3. TypeOK'
        BY <2>1, <4>1, RunningIsNext, TypeStep
      <4> QED BY <4>2, <4>3 DEF AppTypeOK, TypeOKTest
    <3>2. CASE ~Alone(Running)
      BY <1>2, <2>1, <3>2, LifeTypes DEF NextDevice
    <3> QED BY <3>1, <3>2
  <2>4. LifeTypeOK'
    BY <1>2, <2>1, LifeTypeStep
  <2>5. UnusedInv'
    BY <1>2, <2>1, UnusedStep
  <2>6. main' = "running" => AppInv'
    BY <1>2, AppStep
  <2> QED BY <2>2, <2>3, <2>4, <2>5, <2>6 DEF TestInv
<1> QED BY <1>1, <1>2

(***************************************************************************)
(* The invariant holds before the first load.                              *)
(***************************************************************************)
LEMMA TestInit ==
  ASSUME InitDevice
  PROVE  TestInv
<1>0. /\ Threads = {"tx", "rx"} /\ Channels = Threads /\ 0 \in Buffers
      /\ Transfers \in Nat /\ StreamDepth \in Nat
  BY Setting
<1>1. Init /\ num_transfers = Transfers /\ stop = FALSE /\ stop_in_progress = FALSE
      /\ at = [t \in Threads |-> "absent"]
      /\ buffer_id = [t \in Threads |-> 0] /\ in_progress_count = [t \in Threads |-> 0]
      /\ counter = [t \in Threads |-> 0] /\ word = [t \in Threads |-> [b \in Buffers |-> 0]]
      /\ stream = <<>> /\ overslept = FALSE
  BY DEF InitDevice, InitApp
<1>2. main = "none" /\ kept = {} /\ early = FALSE /\ memory = {}
  BY DEF InitDevice
<1>3. TypeOK
  <2>1. done \in [Channels -> [Buffers -> Nat]]
    <3>1. done \in [Channels -> [Buffers -> GarbageDone]]
      BY <1>1 DEF Init
    <3> QED BY <3>1, EngineAssumption
  <2> QED BY <1>0, <1>1, <2>1 DEF Init, TypeOK, Statuses, Locations, Commands, Claims
<1>4. TypeOKTest
  <2>1. at \in [Threads -> Stages]
    BY <1>1 DEF Stages
  <2>2. buffer_id \in [Threads -> Buffers] /\ in_progress_count \in [Threads -> Nat]
        /\ counter \in [Threads -> Nat]
    BY <1>0, <1>1
  <2>3. word \in [Threads -> [Buffers -> Nat]]
    BY <1>1
  <2>4. stream \in Seq(Nat) /\ Len(stream) <= StreamDepth
    BY <1>0, <1>1
  <2> QED BY <1>0, <1>1, <1>3, <2>1, <2>2, <2>3, <2>4 DEF TypeOKTest
<1>5. UnusedInv
  BY <1>0, <1>1, <1>2 DEF UnusedInv, Unused, Init
<1> QED BY <1>2, <1>4, <1>5, InitInv DEF TestInv, LifeTypeOK
----------------------------------------------------------------------------
(* The theorems.                                                           *)

(***************************************************************************)
(* The inductive invariant of the application on its driver: where each    *)
(* thread is, what its channel and the engine have, what the buffers and   *)
(* the stream carry, and what an application finds when it starts.         *)
(***************************************************************************)
THEOREM TestInvariance == AsShipped => (SpecDevice => []TestInv)
<1> SUFFICES ASSUME AsShipped PROVE SpecDevice => []TestInv
  OBVIOUS
<1>1. TestInv /\ [NextDevice]_systemVars => TestInv'
  BY TestStep
<1> QED BY <1>1, TestInit, PTL DEF SpecDevice

(***************************************************************************)
(* Every variable of the driver and of the application keeps its type: the *)
(* indices of the buffers stay within the circular lists, the counts do    *)
(* not go below zero, and the stream holds no more than it has room for.   *)
(***************************************************************************)
THEOREM TypeCorrectDevice == AsShipped => (SpecDevice => []TypeOKDevice)
<1> SUFFICES ASSUME AsShipped PROVE SpecDevice => []TypeOKDevice
  OBVIOUS
<1>1. TestInv => TypeOKDevice
  <2> SUFFICES ASSUME TestInv PROVE TypeOKDevice
    OBVIOUS
  <2>1. Len(names) = 2
    BY Names
  <2>2. /\ created \in 0 .. Len(names)
        /\ load \in {"request", "publish", "memory", "release"} => created < Len(names)
    BY <2>1 DEF TestInv, IInv, ShapeInv
  <2> QED BY <2>2 DEF TypeOKDevice, TestInv, IInv, ShapeInv, LifeTypeOK
<1> QED BY <1>1, TestInvariance, PTL

(***************************************************************************)
(* A thread that is in its loop belongs to a running application, whose    *)
(* threads and channels are as LiveInv says.                               *)
(***************************************************************************)
LEMMA InItsLoop ==
  ASSUME TestInv, NEW t \in Threads, at[t] \in AppStages \ {"aborted"}
  PROVE  LiveInv /\ TypeOKTest
<1>1. main = "running" /\ TypeOKTest
  BY DEF TestInv, IInv, ThreadInv
<1>2. at["rx"] # "aborted"
  BY Setting, <1>1 DEF TestInv, AppInv
<1> QED BY <1>1, <1>2 DEF TestInv, AppInv

(***************************************************************************)
(* "exit gracefully letting all transfers queued up be completed": no      *)
(* thread gives up while the hardware keeps up, and two threads that have  *)
(* exited leave nothing with the engine and nothing in the stream, with or *)
(* without a control C.                                                    *)
(***************************************************************************)
THEOREM Graceful == AsShipped => (SpecDevice => []GracefulShutdown)
<1> SUFFICES ASSUME AsShipped PROVE SpecDevice => []GracefulShutdown
  OBVIOUS
<1>1. TestInv => GracefulShutdown
  <2> SUFFICES ASSUME TestInv PROVE GracefulShutdown
    OBVIOUS
  <2>0. Threads = {"tx", "rx"} /\ Channels = Threads
    BY Setting
  <2>1. ASSUME NEW t \in Threads, at[t] = "aborted" PROVE overslept
    BY <2>0, <2>1 DEF TestInv, IInv, ThreadInv, AppStages, AppInv
  <2>2. ASSUME \A t \in Threads : at[t] = "exited"
        PROVE  stream = <<>> /\ \A c \in Channels : inflight[c] = {}
    <3>1. LiveInv /\ TypeOKTest
      BY <2>0, <2>2, InItsLoop DEF AppStages
    <3>2. ASSUME NEW t \in Threads PROVE completed[t] = num_transfers /\ inflight[t] = {}
      <4>1. ChannelInv(t) /\ CountInv(t)
        BY <3>1 DEF LiveInv
      <4>2. Ended(t)
        BY <2>2, <4>1 DEF Ended, ChannelInv, PlaceInv
      <4>3. /\ completed[t] = num_transfers
            /\ \A d \in inflight[t] : completed[t] < d.cookie /\ d.cookie <= num_transfers
        BY <3>1, <4>1, <4>2, AtRest
      <4>4. num_transfers \in Nat /\ \A d \in inflight[t] : d.cookie \in Nat
        BY <3>1, Entries DEF TypeOKTest
      <4> QED BY <4>3, <4>4
    <3>3. Len(stream) = 0
      <4>1. Len(stream) = completed["tx"] - completed["rx"] /\ num_transfers \in Nat
        BY <3>1 DEF LiveInv, PatternInv, TypeOKTest
      <4> QED BY <2>0, <3>2, <4>1
    <3>4. stream = <<>>
      BY <3>1, <3>3 DEF TypeOKTest
    <3> QED BY <2>0, <3>2, <3>4
  <2> QED BY <2>1, <2>2 DEF GracefulShutdown
<1> QED BY <1>1, TestInvariance, PTL

(***************************************************************************)
(* The verify check of rx_thread never fails: the transfer it finishes as  *)
(* the n-th carries the pattern of the n-th that was sent.                 *)
(***************************************************************************)
THEOREM VerifyOrder == AsShipped => (SpecDevice => []VerifyInOrder)
<1> SUFFICES ASSUME AsShipped PROVE SpecDevice => []VerifyInOrder
  OBVIOUS
<1>1. TestInv => VerifyInOrder
  <2> SUFFICES ASSUME TestInv, at["rx"] = "finished", pc["rx"] = "user",
                      status["rx"][buffer_id["rx"]] = "NO_ERROR"
               PROVE  word["rx"][buffer_id["rx"]] = counter["rx"]
    BY DEF VerifyInOrder
  <2>1. "rx" \in Threads
    BY Setting
  <2>2. LiveInv /\ TypeOKTest
    BY <2>1, InItsLoop DEF AppStages
  <2> SUFFICES ASSUME NEW b \in Buffers, b = buffer_id["rx"]
               PROVE  word["rx"][b] = counter["rx"]
    BY <2>1, <2>2 DEF TypeOKTest
  <2>3. /\ claim["rx"][b] = "taken" /\ cookie["rx"][b] = counter["rx"] + 1
        /\ counter["rx"] + 1 <= completed["rx"]
    BY <2>1, <2>2, HeadFinished DEF LiveInv
  <2>4. word["rx"][b] = cookie["rx"][b] - 1
    BY <2>2, <2>3 DEF LiveInv, PatternInv
  <2>5. counter["rx"] \in Nat
    BY <2>1, <2>2 DEF TypeOKTest
  <2> QED BY <2>3, <2>4, <2>5
<1> QED BY <1>1, TestInvariance, PTL

(***************************************************************************)
(* The engine has no descriptor of a buffer that is owed nothing.          *)
(***************************************************************************)
LEMMA NotOwed ==
  ASSUME LiveInv, NEW c \in Threads, NEW b \in Buffers, claim[c][b] # "owed"
  PROVE  ~InFlight(c, b)
BY DEF LiveInv, ChannelInv, QueueInv, Held, InFlight

(***************************************************************************)
(* Whoever writes a transmit buffer finds it free: tx_thread in its first  *)
(* loop and after FINISH_XFER, and probe.                                  *)
(***************************************************************************)
LEMMA WriteStep ==
  ASSUME AsShipped, TestInv, [NextDevice]_systemVars, NEW b \in Buffers,
         word'["tx"][b] # word["tx"][b]
  PROVE  ~InFlight("tx", b)
<1>0. "tx" \in Threads /\ "rx" \in Threads /\ "tx" \in Channels /\ Channels = Threads
  BY Setting
<1>1. word \in [Threads -> [Buffers -> Nat]]
  BY DEF TestInv, TypeOKTest
<1>2. CASE Allocate
  <2>1. inflight["tx"] = {}
    BY <1>0, <1>2 DEF Allocate, TestInv, IInv, EngineInv, Engaged
  <2> QED BY <2>1 DEF InFlight
<1>3. ASSUME NEW t \in Threads, StartBuffer(t) PROVE ~InFlight("tx", b)
  <2>1. LiveInv /\ TypeOKTest
    BY <1>3, InItsLoop DEF StartBuffer, AppStages
  <2>2. t = "tx" /\ b = buffer_id["tx"]
    BY <1>0, <1>1, <1>3 DEF StartBuffer
  <2>3. ChannelInv("tx") /\ CountInv("tx") /\ at["tx"] = "starting" /\ pc["tx"] = "user"
    BY <1>0, <1>3, <2>1, <2>2 DEF LiveInv, StartBuffer, Ioctl
  <2>4. /\ used["tx"] \in Nat /\ counter["tx"] = 0 /\ used["tx"] = b
        /\ b \in Nat /\ b < BufferCount["tx"]
    BY <1>0, <2>1, <2>2, <2>3, Numbers DEF CountInv
  <2>5. Offset("tx", b) = b
    BY <2>3, <2>4 DEF First, Offset, Distance
  <2>6. claim["tx"][b] # "owed"
    BY <2>3, <2>4, <2>5 DEF ChannelInv, RestInv
  <2> QED BY <1>0, <2>1, <2>6, NotOwed
<1>4. CASE TxFinished
  <2>1. LiveInv /\ TypeOKTest
    BY <1>0, <1>4, InItsLoop DEF TxFinished, AppStages
  <2>2. b = buffer_id["tx"]
    BY <1>0, <1>1, <1>4 DEF TxFinished
  <2>3. claim["tx"][b] = "taken"
    BY <1>4, <2>1, <2>2, OneBuffer DEF TxFinished
  <2> QED BY <1>0, <2>1, <2>3, NotOwed
<1>5. CASE Running /\ ~TxFinished /\ \A t \in Threads : ~StartBuffer(t)
  <2>1. word'["tx"] = word["tx"]
    BY <1>0, <1>1, <1>5 DEF Running, SigInt, Thread, Started, Finish, Driver, Rx, RxError,
       RxFinished, RxRestart, Hardware, Transmit, Receive, Tasklet, appVars
  <2> QED BY <2>1
<1>6. CASE [NextDevice]_systemVars /\ ~Running /\ ~Allocate
  <2>1. word' = word
    BY <1>6 DEF NextDevice, Alone, Insmod, ProbeFails, Probe, CreateClass, AllocRegion,
       RequestChannel, Publish, Test, TestTransmit, TestDone, Remove, Rmmod, RmmodFailed,
       ExitDevices, ReleaseChannel, Destroy, Free, Main, Start, Open, OpenFails, LostEnds,
       SetupThreads, Close, systemVars, allVars, appVars
  <2> QED BY <2>1
<1> QED BY <1>2, <1>3, <1>4, <1>5, <1>6

(***************************************************************************)
(* Zero copy: the application, and probe, write a transmit buffer only     *)
(* while the engine has no descriptor for it.                              *)
(***************************************************************************)
THEOREM NoWrite == AsShipped => (SpecDevice => NoWriteInFlight)
<1> SUFFICES ASSUME AsShipped PROVE SpecDevice => NoWriteInFlight
  OBVIOUS
<1>1. TestInv /\ [NextDevice]_systemVars
        => [\A b \in Buffers : word'["tx"][b] # word["tx"][b] => ~InFlight("tx", b)]_allVars
  BY WriteStep
<1> QED BY <1>1, TestInvariance, PTL DEF SpecDevice, NoWriteInFlight
=============================================================================
