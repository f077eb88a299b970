--------------------------- MODULE DmaProxyProofs ---------------------------
(***************************************************************************)
(* Proofs about DmaProxy, for every number of threads, channels, buffers   *)
(* and transfers: its invariants, that it implements TransferService, and  *)
(* what an XFER can rely on when nobody else has the device open.          *)
(***************************************************************************)
EXTENDS DmaProxy, TLAPS

(***************************************************************************)
(* A table of buffers keeps its type when one entry of one channel is      *)
(* replaced by a value of the right set.                                   *)
(***************************************************************************)
LEMMA TableUpdate ==
  ASSUME NEW S, NEW f \in [Channels -> [Buffers -> S]],
         NEW c \in Channels, NEW b \in Buffers, NEW v \in S
  PROVE  [f EXCEPT ![c][b] = v] \in [Channels -> [Buffers -> S]]
OBVIOUS

(***************************************************************************)
(* The same for a table of one value per channel.                          *)
(***************************************************************************)
LEMMA RowUpdate ==
  ASSUME NEW S, NEW f \in [Channels -> S], NEW c \in Channels, NEW v \in S
  PROVE  [f EXCEPT ![c] = v] \in [Channels -> S]
OBVIOUS

(***************************************************************************)
(* A thread inside ioctl works on an existing channel and buffer.          *)
(***************************************************************************)
LEMMA Places ==
  ASSUME TypeOK, NEW t \in Threads
  PROVE  /\ FileOf[t] \in Channels
         /\ bd[t] \in Buffers
         /\ bdindex[FileOf[t]] \in Buffers
BY FileOfAssumption DEF TypeOK

(***************************************************************************)
(* Every step keeps the types: completions never go below zero, and the    *)
(* descriptors in flight are descriptors of existing buffers.              *)
(***************************************************************************)
LEMMA TypeStep ==
  ASSUME TypeOK, [Next]_vars PROVE TypeOK'
<1> USE DEF Chan, driverVars, engineVars, threadVars
<1>1. CASE UNCHANGED vars
  BY <1>1 DEF vars, TypeOK
<1>2. ASSUME NEW t \in Threads, Call(t) PROVE TypeOK'
  <2>1. ASSUME NEW k \in Commands, NEW b \in Buffers, Ioctl(t, k, b) PROVE TypeOK'
    BY <2>1 DEF Ioctl, FirstStep, Commands, Locations, TypeOK
  <2>2. CASE IoctlFault(t)
    BY <2>2, BuffersAssumption DEF IoctlFault, TypeOK
  <2> QED BY <1>2, <2>1, <2>2 DEF Call
<1>3. ASSUME NEW t \in Threads, Step(t) PROVE TypeOK'
  <2> DEFINE c == FileOf[t]
  <2>0. c \in Channels /\ bd[t] \in Buffers /\ bdindex[c] \in Buffers
    BY Places
  <2> HIDE DEF c
  <2>1. CASE Prepare(t)
    <3>1. claim \in [Channels -> [Buffers -> Claims]]
      BY DEF TypeOK
    <3>2. PICK v \in Claims : claim' = [claim EXCEPT ![c][bdindex[c]] = v]
      BY <2>1 DEF Prepare, Claims, c
    <3>3. claim' \in [Channels -> [Buffers -> Claims]]
      BY <2>0, <3>1, <3>2, TableUpdate
    <3> QED BY <2>0, <2>1, <3>3 DEF Prepare, AfterStart, Locations, TypeOK, c
  <2>2. CASE InitCompletion(t)
    BY <2>2 DEF InitCompletion, Locations, TypeOK
  <2>3. CASE Submit(t)
    <3>1. used[c] + 1 \in Nat
      BY <2>0 DEF TypeOK
    <3>2. \/ used' = [used EXCEPT ![c] = used[c] + 1]
          \/ used' = used
      BY <2>3 DEF Submit, c
    <3>3. used' \in [Channels -> Nat] /\ used'[c] \in Nat
      BY <2>0, <3>1, <3>2 DEF TypeOK
    <3>4. [bd |-> bd[t], cookie |-> used'[c]] \in Descriptors
      BY <2>0, <3>3 DEF Descriptors
    <3> DEFINE S == inflight[c] \cup {[bd |-> bd[t], cookie |-> used'[c]]}
    <3>5. S \in SUBSET Descriptors /\ inflight \in [Channels -> SUBSET Descriptors]
      BY <2>0, <3>4 DEF TypeOK
    <3>14. inflight' = [inflight EXCEPT ![c] = S] \/ inflight' = inflight
      BY <2>3 DEF Submit, c
    <3> HIDE DEF S
    <3>6. inflight' \in [Channels -> SUBSET Descriptors]
      BY <2>0, <3>5, <3>14, RowUpdate
    <3>7. PICK k \in Nat \cup {SubmitError} :
            cookie' = [cookie EXCEPT ![c][bd[t]] = k]
      BY <2>3, <3>3 DEF Submit, c
    <3>8. cookie \in [Channels -> [Buffers -> Nat \cup {SubmitError}]]
      BY DEF TypeOK
    <3>9. cookie' \in [Channels -> [Buffers -> Nat \cup {SubmitError}]]
      BY <2>0, <3>3, <3>7, <3>8, TableUpdate
    <3>10. PICK v \in Claims : claim' = [claim EXCEPT ![c][bd[t]] = v]
      BY <2>3 DEF Submit, Claims, c
    <3>11. claim \in [Channels -> [Buffers -> Claims]]
      BY DEF TypeOK
    <3>12. claim' \in [Channels -> [Buffers -> Claims]]
      BY <2>0, <3>10, <3>11, TableUpdate
    <3>13. pc' \in [Threads -> Locations]
      BY <2>3 DEF Submit, AfterStart, Locations, TypeOK
    <3> QED BY <2>3, <3>3, <3>6, <3>9, <3>12, <3>13 DEF Submit, TypeOK
  <2>4. CASE Issue(t)
    BY <2>4 DEF Issue, AfterStart, Locations, TypeOK
  <2>5. CASE Wait(t)
    BY <2>5, <2>0 DEF Wait, Locations, Statuses, TypeOK, c
  <2>6. CASE Wake(t)
    <3>1. done[c][bd[t]] \in Nat /\ done[c][bd[t]] > 0
      BY <2>0, <2>6 DEF Wake, TypeOK, c
    <3>2. done' = [done EXCEPT ![c][bd[t]] = done[c][bd[t]] - 1]
      BY <2>6 DEF Wake, c
    <3>3. done[c][bd[t]] - 1 \in Nat /\ done \in [Channels -> [Buffers -> Nat]]
      BY <3>1 DEF TypeOK
    <3>4. done' \in [Channels -> [Buffers -> Nat]]
      BY <2>0, <3>2, <3>3, TableUpdate
    <3> DEFINE v == IF claim[c][bd[t]] = "owed" THEN "taken" ELSE claim[c][bd[t]]
    <3>5. claim' = [claim EXCEPT ![c][bd[t]] = v]
      BY <2>6 DEF Wake, c
    <3>6. v \in Claims /\ claim \in [Channels -> [Buffers -> Claims]]
      BY <2>0 DEF TypeOK, Claims
    <3> HIDE DEF v
    <3>7. claim' \in [Channels -> [Buffers -> Claims]]
      BY <2>0, <3>5, <3>6, TableUpdate
    <3> QED BY <2>6, <3>4, <3>7 DEF Wake, Locations, TypeOK
  <2>7. CASE Expire(t)
    BY <2>7 DEF Expire, Locations, TypeOK
  <2>8. CASE Check(t)
    BY <2>8 DEF Check, Locations, TypeOK
  <2>9. CASE Report(t)
    BY <2>9 DEF Report, Verdict, Locations, Statuses, TypeOK
  <2> QED BY <1>3, <2>1, <2>2, <2>3, <2>4, <2>5, <2>6, <2>7, <2>8, <2>9 DEF Step
<1>4. ASSUME NEW c \in Channels, Engine(c) PROVE TypeOK'
  <2>1. CASE Complete(c)
    BY <2>1 DEF Complete, Oldest, Descriptors, TypeOK
  <2>2. CASE Callback(c)
    <3>1. PICK d \in callbacks[c] :
            /\ callbacks' = [callbacks EXCEPT ![c] = callbacks[c] \ {d}]
            /\ done' = [done EXCEPT ![c][d.bd] = done[c][d.bd] + 1]
      BY <2>2 DEF Callback, Oldest
    <3>2. d.bd \in Buffers /\ done \in [Channels -> [Buffers -> Nat]]
      BY <3>1 DEF Descriptors, TypeOK
    <3>3. done[c][d.bd] + 1 \in Nat
      BY <3>2
    <3>4. done' \in [Channels -> [Buffers -> Nat]]
      BY <3>1, <3>2, <3>3, TableUpdate
    <3> QED BY <2>2, <3>1, <3>4 DEF Callback, TypeOK
  <2> QED BY <1>4, <2>1, <2>2 DEF Engine
<1> QED BY <1>1, <1>2, <1>3, <1>4 DEF Next

(***************************************************************************)
(* The variables keep their types: completions never go below zero, and    *)
(* the descriptors in flight are descriptors of existing buffers.          *)
(***************************************************************************)
THEOREM TypeCorrect == Spec => []TypeOK
<1>1. Init => TypeOK
  <2> SUFFICES ASSUME Init PROVE TypeOK
    OBVIOUS
  <2>1. done \in [Channels -> [Buffers -> Nat]]
    BY EngineAssumption DEF Init
  <2>2. /\ inflight \in [Channels -> SUBSET Descriptors]
        /\ callbacks \in [Channels -> SUBSET Descriptors]
    BY DEF Init
  <2> QED
    BY <2>1, <2>2, BuffersAssumption
    DEF Init, TypeOK, Statuses, Locations, Commands, Claims, SubmitError
<1>2. TypeOK /\ [Next]_vars => TypeOK'
  BY TypeStep
<1> QED BY <1>1, <1>2, PTL DEF Spec

-----------------------------------------------------------------------------
(* What makes NoErrorQuiescent inductive: the cookies of the descriptors   *)
(* in flight lie between the last one completed and the one the driver has *)
(* on record for the buffer.                                               *)

CookieOrder ==
  \A c \in Channels :
    /\ completed[c] <= used[c]
    /\ \A d \in inflight[c] :
         /\ completed[c] < d.cookie /\ d.cookie <= used[c]
         /\ \A e \in inflight[c] : d.cookie = e.cookie => d = e

LatestCookie ==
  \A c \in Channels : \A d \in inflight[c] :
    cookie[c][d.bd] # SubmitError =>
      d.cookie <= cookie[c][d.bd] /\ cookie[c][d.bd] <= used[c]

QuiescentStatus ==
  \A t \in Threads :
    /\ pc[t] = "report"
    /\ txstatus[t] = "COMPLETE"
    /\ cookie[Chan(t)][bd[t]] # SubmitError
    => ~InFlight(Chan(t), bd[t])

CookieInv == CookieOrder /\ LatestCookie

(* What makes NoLostCompletion inductive: a start forgets the transfer     *)
(* before it until its own descriptor is submitted.                        *)
StartForgets ==
  \A t \in Threads : pc[t] \in {"init", "submit"} => claim[Chan(t)][bd[t]] = "none"

(* What the refinement needs besides: a waiting thread has said so.        *)
WaitingIsBusy ==
  \A t \in Threads : pc[t] \in {"sleep", "check", "report"} => status[Chan(t)][bd[t]] = "BUSY"

(***************************************************************************)
(* The cookie order is inductive: only dmaengine_submit and the completion *)
(* of the oldest descriptor touch it.                                      *)
(***************************************************************************)
LEMMA CookieStep ==
  ASSUME TypeOK, CookieInv, [Next]_vars PROVE CookieInv'
<1> USE DEF driverVars, engineVars, threadVars
<1>1. ASSUME UNCHANGED <<cookie, used, completed, inflight>> PROVE CookieInv'
  BY <1>1 DEF CookieInv, CookieOrder, LatestCookie
<1>2. /\ \A x \in Channels : completed[x] \in Nat /\ used[x] \in Nat
      /\ \A x \in Channels : \A d \in inflight[x] : d.bd \in Buffers /\ d.cookie \in Nat
      /\ \A x \in Channels, y \in Buffers : cookie[x][y] \in Nat \cup {SubmitError}
  BY DEF TypeOK, Descriptors
<1>3. ASSUME NEW t \in Threads, Submit(t) PROVE CookieInv'
  <2> DEFINE c == FileOf[t]
  <2> DEFINE b == bd[t]
  <2>1. c \in Channels /\ b \in Buffers
    BY Places
  <2>2. completed' = completed
    BY <1>3 DEF Submit
  <2>3. CASE UNCHANGED <<used, inflight>> /\ cookie' = [cookie EXCEPT ![c][b] = SubmitError]
    <3>1. CookieOrder'
      BY <2>2, <2>3 DEF CookieInv, CookieOrder
    <3>2. \A x \in Channels, y \in Buffers :
            cookie'[x][y] = cookie[x][y] \/ cookie'[x][y] = SubmitError
      BY <2>1, <2>3 DEF TypeOK
    <3>3. LatestCookie'
      BY <1>2, <2>3, <3>2 DEF CookieInv, LatestCookie
    <3> QED BY <3>1, <3>3 DEF CookieInv
  <2>4. ASSUME used' = [used EXCEPT ![c] = used[c] + 1],
               inflight' = [inflight EXCEPT ![c] =
                              inflight[c] \cup {[bd |-> b, cookie |-> used'[c]]}],
               cookie' = [cookie EXCEPT ![c][b] = used'[c]]
        PROVE  CookieInv'
    <3> DEFINE n == [bd |-> b, cookie |-> used[c] + 1]
    <3>1. n.bd = b /\ n.cookie = used[c] + 1
      OBVIOUS
    <3>2. \A x \in Channels : used'[x] = IF x = c THEN used[x] + 1 ELSE used[x]
      BY <2>1, <2>4 DEF TypeOK
    <3>3. \A x \in Channels : inflight'[x] = IF x = c THEN inflight[x] \cup {n} ELSE inflight[x]
      BY <2>1, <2>4, <3>2 DEF TypeOK
    <3>4. \A x \in Channels, y \in Buffers :
            cookie'[x][y] = IF x = c /\ y = b THEN used[c] + 1 ELSE cookie[x][y]
      BY <2>1, <2>4, <3>2 DEF TypeOK
    <3> HIDE DEF n, c, b
    <3>5. CookieOrder'
      <4> SUFFICES ASSUME NEW x \in Channels
                   PROVE  /\ completed[x] <= used'[x]
                          /\ \A d \in inflight'[x] :
                               /\ completed[x] < d.cookie /\ d.cookie <= used'[x]
                               /\ \A e \in inflight'[x] : d.cookie = e.cookie => d = e
        BY <2>2 DEF CookieOrder
      <4>1. /\ completed[x] <= used[x]
            /\ \A d \in inflight[x] :
                 /\ completed[x] < d.cookie /\ d.cookie <= used[x]
                 /\ \A e \in inflight[x] : d.cookie = e.cookie => d = e
        BY DEF CookieInv, CookieOrder
      <4>2. CASE x # c
        BY <3>2, <3>3, <4>1, <4>2
      <4>3. CASE x = c
        <5>1. used[x] \in Nat /\ completed[x] \in Nat /\ used'[x] = used[x] + 1
          BY <1>2, <3>2, <4>3
        <5>2. \A d \in inflight'[x] : d \in inflight[x] \/ d = n
          BY <3>3, <4>3
        <5>3. n.cookie = used[x] + 1
          BY <3>1, <4>3
        <5>4. ASSUME NEW d \in inflight'[x]
              PROVE  completed[x] < d.cookie /\ d.cookie <= used'[x]
          BY <1>2, <4>1, <5>1, <5>2, <5>3
        <5>5. ASSUME NEW d \in inflight'[x], NEW e \in inflight'[x], d.cookie = e.cookie
              PROVE  d = e
          <6>1. \A f \in inflight[x] : f.cookie \in Nat /\ f.cookie # n.cookie
            BY <1>2, <4>1, <5>1, <5>3
          <6> QED BY <4>1, <5>2, <5>5, <6>1
        <5>6. completed[x] <= used'[x]
          BY <4>1, <5>1
        <5> QED BY <5>4, <5>5, <5>6
      <4> QED BY <4>2, <4>3
    <3>6. LatestCookie'
      <4> SUFFICES ASSUME NEW x \in Channels, NEW d \in inflight'[x],
                          cookie'[x][d.bd] # SubmitError
                   PROVE  d.cookie <= cookie'[x][d.bd] /\ cookie'[x][d.bd] <= used'[x]
        BY DEF LatestCookie
      <4>1. CASE x # c
        <5>1. d \in inflight[x] /\ used'[x] = used[x]
          BY <3>2, <3>3, <4>1
        <5>2. cookie'[x][d.bd] = cookie[x][d.bd]
          BY <1>2, <3>4, <4>1, <5>1
        <5> QED BY <5>1, <5>2 DEF CookieInv, LatestCookie
      <4>2. CASE x = c /\ d = n
        BY <1>2, <2>1, <3>1, <3>2, <3>4, <4>2
      <4>3. CASE x = c /\ d \in inflight[c]
        <5>1. d.bd \in Buffers /\ d.cookie \in Nat /\ used[c] \in Nat /\ d.cookie <= used[c]
          BY <1>2, <2>1, <4>3 DEF CookieInv, CookieOrder
        <5>2. CASE d.bd = b
          BY <2>1, <3>2, <3>4, <4>3, <5>1, <5>2
        <5>3. CASE d.bd # b
          <6>1. cookie'[x][d.bd] = cookie[c][d.bd] /\ used'[x] = used[c] + 1
            BY <2>1, <3>2, <3>4, <4>3, <5>1, <5>3
          <6>2. cookie[c][d.bd] \in Nat
            BY <1>2, <2>1, <5>1, <6>1
          <6> QED BY <2>1, <4>3, <5>1, <6>1, <6>2 DEF CookieInv, LatestCookie
        <5> QED BY <5>2, <5>3
      <4> QED BY <3>3, <4>1, <4>2, <4>3
    <3> QED BY <3>5, <3>6 DEF CookieInv
  <2> QED BY <1>3, <2>3, <2>4 DEF Submit, Chan
<1>4. ASSUME NEW c \in Channels, Complete(c) PROVE CookieInv'
  <2>1. PICK d \in inflight[c] :
          /\ \A e \in inflight[c] : d.cookie <= e.cookie
          /\ inflight' = [inflight EXCEPT ![c] = inflight[c] \ {d}]
          /\ completed' = [completed EXCEPT ![c] = d.cookie]
    BY <1>4 DEF Complete, Oldest
  <2>2. used' = used /\ cookie' = cookie
    BY <1>4 DEF Complete
  <2>3. \A x \in Channels : inflight'[x] = IF x = c THEN inflight[x] \ {d} ELSE inflight[x]
    BY <2>1 DEF TypeOK
  <2>4. \A x \in Channels : completed'[x] = IF x = c THEN d.cookie ELSE completed[x]
    BY <2>1 DEF TypeOK
  <2>5. CookieOrder'
    <3> SUFFICES ASSUME NEW x \in Channels
                 PROVE  /\ completed'[x] <= used[x]
                        /\ \A f \in inflight'[x] :
                             /\ completed'[x] < f.cookie /\ f.cookie <= used[x]
                             /\ \A e \in inflight'[x] : f.cookie = e.cookie => f = e
      BY <2>2 DEF CookieOrder
    <3>1. /\ completed[x] <= used[x]
          /\ \A f \in inflight[x] :
               /\ completed[x] < f.cookie /\ f.cookie <= used[x]
               /\ \A e \in inflight[x] : f.cookie = e.cookie => f = e
      BY DEF CookieInv, CookieOrder
    <3>2. CASE x # c
      BY <2>3, <2>4, <3>1, <3>2
    <3>3. CASE x = c
      <4>1. completed'[x] = d.cookie /\ d \in inflight[x]
        BY <2>1, <2>4, <3>3
      <4>2. \A f \in inflight'[x] : f \in inflight[x] /\ f # d
        BY <2>3, <3>3
      <4>3. \A f \in inflight[x] : f.cookie \in Nat /\ d.cookie <= f.cookie
        BY <1>2, <2>1, <3>3
      <4>4. ASSUME NEW f \in inflight'[x] PROVE d.cookie < f.cookie
        <5>1. f.cookie # d.cookie
          BY <3>1, <4>1, <4>2
        <5> QED BY <4>1, <4>2, <4>3, <5>1
      <4> QED BY <3>1, <4>1, <4>2, <4>4
    <3> QED BY <3>2, <3>3
  <2>6. LatestCookie'
    BY <2>2, <2>3 DEF CookieInv, LatestCookie
  <2> QED BY <2>5, <2>6 DEF CookieInv
<1>5. CASE UNCHANGED vars
  BY <1>1, <1>5 DEF vars
<1>6. ASSUME NEW t \in Threads, Call(t) PROVE CookieInv'
  BY <1>1, <1>6 DEF Call, Ioctl, IoctlFault
<1>7. ASSUME NEW t \in Threads, Step(t) PROVE CookieInv'
  BY <1>1, <1>3, <1>7
  DEF Step, Prepare, InitCompletion, Issue, Wait, Wake, Expire, Check, Report
<1>8. ASSUME NEW c \in Channels, Engine(c) PROVE CookieInv'
  BY <1>1, <1>4, <1>8 DEF Engine, Callback
<1> QED BY <1>5, <1>6, <1>7, <1>8 DEF Next

-----------------------------------------------------------------------------
(***************************************************************************)
(* A step of one thread leaves every other thread, and the channel that    *)
(* thread has open, alone: this is what one thread per device file buys.   *)
(***************************************************************************)
LEMMA Isolation ==
  ASSUME Exclusive, TypeOK, NEW s \in Threads, NEW t \in Threads, s # t, Call(t) \/ Step(t)
  PROVE  /\ pc'[s] = pc[s] /\ bd'[s] = bd[s]
         /\ timedout'[s] = timedout[s] /\ txstatus'[s] = txstatus[s]
         /\ status'[FileOf[s]] = status[FileOf[s]]
         /\ cookie'[FileOf[s]] = cookie[FileOf[s]]
         /\ done'[FileOf[s]] = done[FileOf[s]]
         /\ claim'[FileOf[s]] = claim[FileOf[s]]
         /\ inflight'[FileOf[s]] = inflight[FileOf[s]]
<1>1. FileOf[s] \in Channels /\ FileOf[t] \in Channels /\ FileOf[s] # FileOf[t]
  BY FileOfAssumption DEF Exclusive
<1> USE <1>1 DEF TypeOK, Chan, driverVars, engineVars, threadVars
<1>2. ASSUME NEW k \in Commands, NEW b \in Buffers, Ioctl(t, k, b) PROVE pc'[s] = pc[s]
  BY <1>2 DEF Ioctl
<1>3. CASE Call(t)
  BY <1>2, <1>3 DEF Call, Ioctl, IoctlFault
<1>4. CASE Prepare(t)
  BY <1>4 DEF Prepare
<1>5. CASE InitCompletion(t)
  BY <1>5 DEF InitCompletion
<1>6. CASE Submit(t)
  BY <1>6 DEF Submit
<1>7. CASE Issue(t)
  BY <1>7 DEF Issue
<1>8. CASE Wait(t)
  BY <1>8 DEF Wait
<1>9. CASE Wake(t)
  BY <1>9 DEF Wake
<1>10. CASE Expire(t)
  BY <1>10 DEF Expire
<1>11. CASE Check(t)
  BY <1>11 DEF Check
<1>12. CASE Report(t)
  BY <1>12 DEF Report
<1> QED
  BY <1>3, <1>4, <1>5, <1>6, <1>7, <1>8, <1>9, <1>10, <1>11, <1>12 DEF Step

(***************************************************************************)
(* The engine only takes descriptors away, and never touches a thread, a   *)
(* cookie, a status word or the history.                                   *)
(***************************************************************************)
LEMMA EngineSteps ==
  ASSUME TypeOK, NEW c \in Channels, Engine(c)
  PROVE  /\ UNCHANGED <<threadVars, bdindex, status, cookie, used, claim>>
         /\ \A x \in Channels : inflight'[x] \subseteq inflight[x]
<1>1. CASE Complete(c)
  <2>1. PICK d \in inflight[c] : inflight' = [inflight EXCEPT ![c] = inflight[c] \ {d}]
    BY <1>1 DEF Complete, Oldest
  <2>2. \A x \in Channels : inflight'[x] \subseteq inflight[x]
    BY <2>1 DEF TypeOK
  <2> QED BY <1>1, <2>2 DEF Complete, driverVars, threadVars
<1>2. CASE Callback(c)
  BY <1>2 DEF Callback, threadVars
<1> QED BY <1>1, <1>2 DEF Engine

(***************************************************************************)
(* A thread that found its cookie complete has nothing in flight for the   *)
(* buffer, by the order of the cookies, and keeps it so: only the thread   *)
(* itself could submit another transfer.                                   *)
(***************************************************************************)
LEMMA QuiescentStep ==
  ASSUME Exclusive, TypeOK, CookieInv, QuiescentStatus, [Next]_vars
  PROVE  QuiescentStatus'
<1> SUFFICES ASSUME NEW s \in Threads,
                    pc'[s] = "report", txstatus'[s] = "COMPLETE",
                    cookie'[FileOf[s]][bd'[s]] # SubmitError
             PROVE  \A d \in inflight'[FileOf[s]] : d.bd # bd'[s]
  BY DEF QuiescentStatus, InFlight, Chan
<1>0. FileOf[s] \in Channels /\ bd[s] \in Buffers
  BY Places
<1>1. ASSUME pc'[s] = pc[s], txstatus'[s] = txstatus[s], bd'[s] = bd[s],
             cookie'[FileOf[s]] = cookie[FileOf[s]],
             inflight'[FileOf[s]] \subseteq inflight[FileOf[s]]
      PROVE  \A d \in inflight'[FileOf[s]] : d.bd # bd'[s]
  BY <1>1 DEF QuiescentStatus, InFlight, Chan
<1>2. CASE UNCHANGED vars
  BY <1>1, <1>2 DEF vars, driverVars, engineVars, threadVars
<1>3. ASSUME NEW c \in Channels, Engine(c)
      PROVE  \A d \in inflight'[FileOf[s]] : d.bd # bd'[s]
  BY <1>0, <1>1, <1>3, EngineSteps DEF threadVars
<1>4. ASSUME NEW t \in Threads, t # s, Call(t) \/ Step(t)
      PROVE  \A d \in inflight'[FileOf[s]] : d.bd # bd'[s]
  BY <1>1, <1>4, Isolation
<1>5. ASSUME Call(s) \/ Step(s)
      PROVE  \A d \in inflight'[FileOf[s]] : d.bd # bd'[s]
  <2>1. Check(s)
    <3>1. CASE Call(s)
      BY <3>1 DEF Call, Ioctl, IoctlFault, FirstStep, Commands, threadVars, TypeOK
    <3>2. CASE Step(s)
      BY <3>2 DEF Step, Prepare, InitCompletion, Submit, Issue, Wait, Wake, Expire, Report,
                  AfterStart, TypeOK
    <3> QED BY <1>5, <3>1, <3>2
  <2>2. UNCHANGED <<cookie, inflight, bd>>
    BY <2>1 DEF Check, driverVars, engineVars
  <2>3. TxComplete(FileOf[s], cookie[FileOf[s]][bd[s]])
    BY <2>1 DEF Check, TypeOK, Chan
  <2>4. SUFFICES ASSUME NEW d \in inflight[FileOf[s]], d.bd = bd[s] PROVE FALSE
    BY <2>2
  <2>5. /\ completed[FileOf[s]] < d.cookie
        /\ d.cookie <= cookie[FileOf[s]][bd[s]]
        /\ cookie[FileOf[s]][bd[s]] <= used[FileOf[s]]
    BY <1>0, <2>2, <2>4 DEF CookieInv, CookieOrder, LatestCookie
  <2>6. /\ completed[FileOf[s]] \in Nat /\ used[FileOf[s]] \in Nat /\ d.cookie \in Nat
        /\ cookie[FileOf[s]][bd[s]] \in Int
    BY <1>0, <2>4 DEF TypeOK, Descriptors, SubmitError
  <2> QED BY <2>3, <2>5, <2>6 DEF TxComplete
<1> QED BY <1>2, <1>3, <1>4, <1>5 DEF Next

(***************************************************************************)
(* With one thread per device file, PROXY_NO_ERROR is only reported for a  *)
(* buffer the engine is done with (unless the engine had refused the last  *)
(* start of the buffer).                                                   *)
(***************************************************************************)
THEOREM Quiescence == Exclusive => (Spec => []NoErrorQuiescent)
<1> SUFFICES ASSUME Exclusive PROVE Spec => []NoErrorQuiescent
  OBVIOUS
<1>1. Init => CookieInv /\ QuiescentStatus
  BY DEF Init, CookieInv, CookieOrder, LatestCookie, QuiescentStatus
<1>2. TypeOK /\ CookieInv /\ QuiescentStatus /\ [Next]_vars
        => CookieInv' /\ QuiescentStatus'
  BY CookieStep, QuiescentStep
<1>3. TypeOK /\ QuiescentStatus => NoErrorQuiescent
  BY DEF TypeOK, QuiescentStatus, NoErrorQuiescent, Verdict
<1> QED BY <1>1, <1>2, <1>3, TypeCorrect, PTL DEF Spec

-----------------------------------------------------------------------------
(***************************************************************************)
(* A thread between init_completion and dmaengine_submit has forgotten the *)
(* transfer before.                                                        *)
(***************************************************************************)
LEMMA StartForgetsStep ==
  ASSUME Exclusive, TypeOK, StartForgets, [Next]_vars
  PROVE  StartForgets'
<1> SUFFICES ASSUME NEW s \in Threads, pc'[s] \in {"init", "submit"}
             PROVE  claim'[FileOf[s]][bd'[s]] = "none"
  BY DEF StartForgets, Chan
<1>0. FileOf[s] \in Channels /\ bd[s] \in Buffers /\ bdindex[FileOf[s]] \in Buffers
  BY Places
<1>1. ASSUME pc'[s] = pc[s], bd'[s] = bd[s], claim'[FileOf[s]] = claim[FileOf[s]]
      PROVE  claim'[FileOf[s]][bd'[s]] = "none"
  BY <1>1 DEF StartForgets, Chan
<1>2. CASE UNCHANGED vars
  BY <1>1, <1>2 DEF vars, threadVars
<1>3. ASSUME NEW c \in Channels, Engine(c) PROVE claim'[FileOf[s]][bd'[s]] = "none"
  BY <1>1, <1>3, EngineSteps DEF threadVars
<1>4. ASSUME NEW t \in Threads, t # s, Call(t) \/ Step(t)
      PROVE  claim'[FileOf[s]][bd'[s]] = "none"
  BY <1>1, <1>4, Isolation
<1>5. CASE Call(s)
  BY <1>1, <1>5 DEF Call, Ioctl, IoctlFault, FirstStep, Commands, threadVars, TypeOK
<1>6. CASE Prepare(s)
  BY <1>0, <1>6 DEF Prepare, AfterStart, TypeOK, Chan
<1>7. CASE InitCompletion(s)
  BY <1>7 DEF InitCompletion, StartForgets, Chan
<1>8. CASE Step(s) /\ ~Prepare(s) /\ ~InitCompletion(s)
  BY <1>8 DEF Step, Submit, Issue, Wait, Wake, Expire, Check, Report, AfterStart, TypeOK
<1> QED BY <1>2, <1>3, <1>4, <1>5, <1>6, <1>7, <1>8 DEF Next, Step

(***************************************************************************)
(* The wake-up of an awaited transfer is where it should be: nobody clears *)
(* the completion while it is owed, and a callback leaves the engine only  *)
(* into the completion.                                                    *)
(***************************************************************************)
LEMMA NoLostCompletionStep ==
  ASSUME Exclusive, TypeOK, StartForgets, NoLostCompletion, [Next]_vars
  PROVE  NoLostCompletion'
<1> SUFFICES ASSUME NEW c \in Channels, NEW b \in Buffers, claim'[c][b] = "owed"
             PROVE  \/ done'[c][b] > 0
                    \/ \E d \in inflight'[c] : d.bd = b
                    \/ \E d \in callbacks'[c] : d.bd = b
  BY DEF NoLostCompletion, InFlight, CallbackPending
<1> DEFINE Goal == \/ done'[c][b] > 0
                   \/ \E d \in inflight'[c] : d.bd = b
                   \/ \E d \in callbacks'[c] : d.bd = b
<1>1. claim[c][b] = "owed" => \/ done[c][b] > 0
                              \/ \E d \in inflight[c] : d.bd = b
                              \/ \E d \in callbacks[c] : d.bd = b
  BY DEF NoLostCompletion, InFlight, CallbackPending
<1> USE DEF driverVars, engineVars, threadVars, Chan
<1>2. CASE UNCHANGED <<claim, done, inflight, callbacks>>
  BY <1>1, <1>2
<1>3. ASSUME NEW t \in Threads, Prepare(t) PROVE Goal
  <2>1. FileOf[t] \in Channels /\ bdindex[FileOf[t]] \in Buffers
    BY Places
  <2>2. PICK v \in {"none", "failed"} :
          claim' = [claim EXCEPT ![FileOf[t]][bdindex[FileOf[t]]] = v]
    BY <1>3 DEF Prepare
  <2>3. claim[c][b] = "owed"
    BY <2>1, <2>2 DEF TypeOK
  <2> QED BY <1>1, <1>3, <2>3 DEF Prepare
<1>4. ASSUME NEW t \in Threads, InitCompletion(t) PROVE Goal
  <2>1. claim[FileOf[t]][bd[t]] = "none" /\ claim' = claim
    BY <1>4 DEF InitCompletion, StartForgets
  <2>2. done'[c][b] = done[c][b]
    BY <1>4, <2>1, Places DEF InitCompletion, TypeOK
  <2> QED BY <1>1, <1>4, <2>1, <2>2 DEF InitCompletion
<1>5. ASSUME NEW t \in Threads, Submit(t) PROVE Goal
  <2>1. FileOf[t] \in Channels /\ bd[t] \in Buffers
    BY Places
  <2>2. done' = done /\ callbacks' = callbacks
    BY <1>5 DEF Submit
  <2>3. ASSUME NEW n, claim' = [claim EXCEPT ![FileOf[t]][bd[t]] = "owed"],
               inflight' = [inflight EXCEPT ![FileOf[t]] = inflight[FileOf[t]] \cup {n}],
               n.bd = bd[t]
        PROVE  Goal
    <3>1. inflight[c] \subseteq inflight'[c]
      BY <2>1, <2>3 DEF TypeOK
    <3>2. CASE claim[c][b] = "owed"
      BY <1>1, <2>2, <3>1, <3>2
    <3>3. CASE claim[c][b] # "owed"
      <4>1. c = FileOf[t] /\ b = bd[t]
        BY <2>1, <2>3, <3>3 DEF TypeOK
      <4>2. n \in inflight'[c]
        BY <2>1, <2>3, <4>1 DEF TypeOK
      <4> QED BY <2>3, <4>1, <4>2
    <3> QED BY <3>2, <3>3
  <2>4. ASSUME claim' = [claim EXCEPT ![FileOf[t]][bd[t]] = "failed"], inflight' = inflight
        PROVE  Goal
    <3>1. claim[c][b] = "owed"
      BY <2>1, <2>4 DEF TypeOK
    <3> QED BY <1>1, <2>2, <2>4, <3>1
  <2>5. CASE claim' = [claim EXCEPT ![FileOf[t]][bd[t]] = "failed"] /\ inflight' = inflight
    BY <2>4, <2>5
  <2> DEFINE new == [bd |-> bd[t], cookie |-> used'[FileOf[t]]]
  <2>6. CASE /\ claim' = [claim EXCEPT ![FileOf[t]][bd[t]] = "owed"]
             /\ inflight' = [inflight EXCEPT ![FileOf[t]] = inflight[FileOf[t]] \cup {new}]
    <3>1. new.bd = bd[t]
      OBVIOUS
    <3> HIDE DEF new
    <3> QED BY <2>3, <2>6, <3>1
  <2> QED BY <1>5, <2>5, <2>6 DEF Submit
<1>6. ASSUME NEW t \in Threads, Wake(t) PROVE Goal
  <2>1. FileOf[t] \in Channels /\ bd[t] \in Buffers
    BY Places
  <2>2. CASE c = FileOf[t] /\ b = bd[t]
    <3>1. claim'[c][b] # "owed"
      BY <1>6, <2>1, <2>2 DEF Wake, TypeOK
    <3> QED BY <3>1
  <2>3. CASE ~(c = FileOf[t] /\ b = bd[t])
    <3>1. claim'[c][b] = claim[c][b] /\ done'[c][b] = done[c][b]
      BY <1>6, <2>1, <2>3 DEF Wake, TypeOK
    <3> QED BY <1>1, <1>6, <3>1 DEF Wake
  <2> QED BY <2>2, <2>3
<1>7. ASSUME NEW x \in Channels, Complete(x) PROVE Goal
  <2>1. PICK d \in inflight[x] :
          /\ inflight' = [inflight EXCEPT ![x] = inflight[x] \ {d}]
          /\ callbacks' = [callbacks EXCEPT ![x] = callbacks[x] \cup {d}]
    BY <1>7 DEF Complete, Oldest
  <2>2. done' = done /\ claim' = claim
    BY <1>7 DEF Complete
  <2>3. inflight[c] \cup callbacks[c] \subseteq inflight'[c] \cup callbacks'[c]
    BY <2>1 DEF TypeOK
  <2> QED BY <1>1, <2>2, <2>3
<1>8. ASSUME NEW x \in Channels, Callback(x) PROVE Goal
  <2>1. PICK d \in callbacks[x] :
          /\ callbacks' = [callbacks EXCEPT ![x] = callbacks[x] \ {d}]
          /\ done' = [done EXCEPT ![x][d.bd] = done[x][d.bd] + 1]
    BY <1>8 DEF Callback, Oldest
  <2>2. d.bd \in Buffers
    BY <2>1 DEF TypeOK, Descriptors
  <2>3. inflight' = inflight /\ claim' = claim
    BY <1>8 DEF Callback
  <2>4. done[c][b] \in Nat
    BY DEF TypeOK
  <2>5. CASE c = x /\ b = d.bd
    <3>1. done'[c][b] = done[c][b] + 1
      BY <2>1, <2>2, <2>5 DEF TypeOK
    <3> QED BY <2>4, <3>1
  <2>6. CASE ~(c = x /\ b = d.bd)
    <3>1. done'[c][b] = done[c][b]
      BY <2>1, <2>2, <2>6 DEF TypeOK
    <3>2. \A e \in callbacks[c] : e.bd = b => e \in callbacks'[c]
      BY <2>1, <2>6 DEF TypeOK
    <3> QED BY <1>1, <2>3, <3>1, <3>2
  <2> QED BY <2>5, <2>6
<1>9. CASE UNCHANGED vars
  BY <1>2, <1>9 DEF vars
<1>10. ASSUME NEW t \in Threads, Call(t) PROVE Goal
  BY <1>2, <1>10 DEF Call, Ioctl, IoctlFault
<1>11. ASSUME NEW t \in Threads, Step(t) PROVE Goal
  <2>1. CASE Issue(t) \/ Wait(t) \/ Expire(t) \/ Check(t) \/ Report(t)
    BY <1>2, <2>1 DEF Issue, Wait, Expire, Check, Report
  <2> QED BY <1>3, <1>4, <1>5, <1>6, <1>11, <2>1 DEF Step
<1> QED BY <1>7, <1>8, <1>9, <1>10, <1>11 DEF Next, Engine

(***************************************************************************)
(* With one thread per device file, no completion is lost.                 *)
(***************************************************************************)
THEOREM CompletionKept == Exclusive => (Spec => []NoLostCompletion)
<1> SUFFICES ASSUME Exclusive PROVE Spec => []NoLostCompletion
  OBVIOUS
<1>1. Init => StartForgets /\ NoLostCompletion
  BY DEF Init, StartForgets, NoLostCompletion
<1>2. TypeOK /\ StartForgets /\ NoLostCompletion /\ [Next]_vars
        => StartForgets' /\ NoLostCompletion'
  BY StartForgetsStep, NoLostCompletionStep
<1> QED BY <1>1, <1>2, TypeCorrect, PTL DEF Spec

-----------------------------------------------------------------------------
(* The driver implements TransferService.                                  *)


(***************************************************************************)
(* Two tables are equal when they agree on every entry; so a table that    *)
(* differs from another in one entry is that other one, updated.           *)
(***************************************************************************)
LEMMA TableEqual ==
  ASSUME NEW S, NEW f \in [Channels -> [Buffers -> S]], NEW g \in [Channels -> [Buffers -> S]],
         \A x \in Channels, y \in Buffers : g[x][y] = f[x][y]
  PROVE  g = f
<1>1. \A x \in Channels : g[x] = f[x]
  OBVIOUS
<1> QED BY <1>1

LEMMA TableChanged ==
  ASSUME NEW S, NEW f \in [Channels -> [Buffers -> S]], NEW g \in [Channels -> [Buffers -> S]],
         NEW c \in Channels, NEW b \in Buffers, NEW v \in S,
         \A x \in Channels, y \in Buffers : g[x][y] = IF x = c /\ y = b THEN v ELSE f[x][y]
  PROVE  g = [f EXCEPT ![c][b] = v]
<1> DEFINE h == [f EXCEPT ![c][b] = v]
<1>1. h \in [Channels -> [Buffers -> S]]
  BY TableUpdate
<1>2. \A x \in Channels, y \in Buffers : h[x][y] = IF x = c /\ y = b THEN v ELSE f[x][y]
  OBVIOUS
<1> HIDE DEF h
<1>3. \A x \in Channels, y \in Buffers : g[x][y] = h[x][y]
  BY <1>2
<1>4. g = h
  BY <1>1, <1>3, TableEqual
<1> QED BY <1>4 DEF h

Owners == {"user", "device"}
Answers == {"accepted", "refused"}

(***************************************************************************)
(* The mapped variables, entry by entry, now and after a step.             *)
(***************************************************************************)
LEMMA Mapped ==
  /\ Owner \in [Channels -> [Buffers -> Owners]]
  /\ Owner' \in [Channels -> [Buffers -> Owners]]
  /\ Latest \in [Channels -> [Buffers -> Answers]]
  /\ Latest' \in [Channels -> [Buffers -> Answers]]
BY DEF Owner, Latest, Owners, Answers, InFlight

LEMMA OwnerEntry ==
  ASSUME NEW c \in Channels, NEW b \in Buffers
  PROVE  /\ Owner[c][b] = IF \E d \in inflight[c] : d.bd = b THEN "device" ELSE "user"
         /\ Owner'[c][b] = IF \E d \in inflight'[c] : d.bd = b THEN "device" ELSE "user"
BY DEF Owner, InFlight

LEMMA LatestEntry ==
  ASSUME NEW c \in Channels, NEW b \in Buffers
  PROVE  /\ Latest[c][b] = IF cookie[c][b] = SubmitError THEN "refused" ELSE "accepted"
         /\ Latest'[c][b] = IF cookie'[c][b] = SubmitError THEN "refused" ELSE "accepted"
BY DEF Latest

(***************************************************************************)
(* What does not touch the engine's queue, a cookie or a status word is a  *)
(* stutter of the service.                                                 *)
(***************************************************************************)
LEMMA StutterStep ==
  ASSUME UNCHANGED <<inflight, cookie, status>> PROVE UNCHANGED Service!vars
BY DEF Service!vars, Owner, Latest, InFlight

(***************************************************************************)
(* A waiting thread has reported PROXY_BUSY and nobody else has written    *)
(* the status of its buffer since.                                         *)
(***************************************************************************)
LEMMA WaitingIsBusyStep ==
  ASSUME Exclusive, TypeOK, WaitingIsBusy, [Next]_vars
  PROVE  WaitingIsBusy'
<1> SUFFICES ASSUME NEW s \in Threads, pc'[s] \in {"sleep", "check", "report"}
             PROVE  status'[FileOf[s]][bd'[s]] = "BUSY"
  BY DEF WaitingIsBusy, Chan
<1>0. FileOf[s] \in Channels /\ bd[s] \in Buffers /\ bdindex[FileOf[s]] \in Buffers
  BY Places
<1>1. ASSUME pc'[s] = pc[s], bd'[s] = bd[s], status'[FileOf[s]] = status[FileOf[s]]
      PROVE  status'[FileOf[s]][bd'[s]] = "BUSY"
  BY <1>1 DEF WaitingIsBusy, Chan
<1>2. CASE UNCHANGED vars
  BY <1>1, <1>2 DEF vars, driverVars, threadVars
<1>3. ASSUME NEW c \in Channels, Engine(c) PROVE status'[FileOf[s]][bd'[s]] = "BUSY"
  BY <1>1, <1>3, EngineSteps DEF threadVars
<1>4. ASSUME NEW t \in Threads, t # s, Call(t) \/ Step(t)
      PROVE  status'[FileOf[s]][bd'[s]] = "BUSY"
  BY <1>1, <1>4, Isolation
<1>5. CASE Call(s)
  BY <1>1, <1>5 DEF Call, Ioctl, IoctlFault, FirstStep, Commands, threadVars, TypeOK
<1>6. CASE Wait(s)
  BY <1>0, <1>6 DEF Wait, TypeOK, Chan
<1>7. CASE Wake(s) \/ Expire(s) \/ Check(s)
  BY <1>7 DEF Wake, Expire, Check, WaitingIsBusy, driverVars, Chan
<1>8. CASE Step(s) /\ ~Wait(s) /\ ~(Wake(s) \/ Expire(s) \/ Check(s))
  BY <1>8 DEF Step, Prepare, InitCompletion, Submit, Issue, Report, AfterStart, TypeOK
<1> QED BY <1>2, <1>3, <1>4, <1>5, <1>6, <1>7, <1>8 DEF Next

(***************************************************************************)
(* dmaengine_submit hands the buffer over, or is refused.                  *)
(***************************************************************************)
LEMMA SubmitRefines ==
  ASSUME TypeOK, NEW t \in Threads, Submit(t) PROVE [Service!Next]_(Service!vars)
<1> DEFINE c == FileOf[t]
<1> DEFINE b == bd[t]
<1>1. c \in Channels /\ b \in Buffers /\ used[c] \in Nat
  BY Places DEF TypeOK
<1>2. status' = status
  BY DEF Submit
<1>3. ASSUME used' = [used EXCEPT ![c] = used[c] + 1],
             inflight' = [inflight EXCEPT ![c] =
                            inflight[c] \cup {[bd |-> b, cookie |-> used'[c]]}],
             cookie' = [cookie EXCEPT ![c][b] = used'[c]]
      PROVE  Service!Accept(c, b)
  <2> DEFINE n == [bd |-> b, cookie |-> used'[c]]
  <2>1. n.bd = b /\ used'[c] # SubmitError
    BY <1>1, <1>3 DEF TypeOK, SubmitError
  <2>2. inflight' = [inflight EXCEPT ![c] = inflight[c] \cup {n}]
    BY <1>3
  <2> HIDE DEF n, c, b
  <2>3. \A x \in Channels, y \in Buffers :
          (\E d \in inflight'[x] : d.bd = y) <=> (x = c /\ y = b) \/ (\E d \in inflight[x] : d.bd = y)
    BY <1>1, <2>1, <2>2 DEF TypeOK
  <2>4. \A x \in Channels, y \in Buffers :
          cookie'[x][y] = IF x = c /\ y = b THEN used'[c] ELSE cookie[x][y]
    BY <1>1, <1>3 DEF TypeOK
  <2>5. Owner' = [Owner EXCEPT ![c][b] = "device"]
    <3>1. \A x \in Channels, y \in Buffers :
            Owner'[x][y] = IF x = c /\ y = b THEN "device" ELSE Owner[x][y]
      BY <2>3, OwnerEntry
    <3>2. "device" \in Owners
      BY DEF Owners
    <3> QED BY <1>1, <3>1, <3>2, Mapped, TableChanged
  <2>6. Latest' = [Latest EXCEPT ![c][b] = "accepted"]
    <3>1. ASSUME NEW x \in Channels, NEW y \in Buffers
          PROVE  Latest'[x][y] = IF x = c /\ y = b THEN "accepted" ELSE Latest[x][y]
      BY <2>1, <2>4, LatestEntry
    <3>2. "accepted" \in Answers
      BY DEF Answers
    <3> QED BY <1>1, <3>1, <3>2, Mapped, TableChanged
  <2> QED BY <1>2, <2>5, <2>6 DEF Service!Accept
<1>4. ASSUME inflight' = inflight, cookie' = [cookie EXCEPT ![c][b] = SubmitError]
      PROVE  Service!Refuse(c, b)
  <2> HIDE DEF c, b
  <2>1. \A x \in Channels, y \in Buffers :
          cookie'[x][y] = IF x = c /\ y = b THEN SubmitError ELSE cookie[x][y]
    BY <1>1, <1>4 DEF TypeOK
  <2>2. Owner' = Owner
    BY <1>4 DEF Owner, InFlight
  <2>3. ASSUME NEW x \in Channels, NEW y \in Buffers
        PROVE  Latest'[x][y] = IF x = c /\ y = b THEN "refused" ELSE Latest[x][y]
    BY <2>1, LatestEntry
  <2>4. "refused" \in Answers
    BY DEF Answers
  <2>5. Latest' = [Latest EXCEPT ![c][b] = "refused"]
    BY <1>1, <2>3, <2>4, Mapped, TableChanged
  <2> QED BY <1>2, <2>2, <2>5 DEF Service!Refuse
<1> QED BY <1>1, <1>3, <1>4 DEF Submit, Chan, Service!Next

(***************************************************************************)
(* The completion of a descriptor gives the buffer back, unless a later    *)
(* transfer of the same buffer is in flight as well.                       *)
(***************************************************************************)
LEMMA CompleteRefines ==
  ASSUME TypeOK, NEW c \in Channels, Complete(c) PROVE [Service!Next]_(Service!vars)
<1>1. PICK d \in inflight[c] : inflight' = [inflight EXCEPT ![c] = inflight[c] \ {d}]
  BY DEF Complete, Oldest
<1>2. d.bd \in Buffers
  BY <1>1 DEF TypeOK, Descriptors
<1>3. status' = status /\ cookie' = cookie
  BY DEF Complete, driverVars
<1>4. Latest' = Latest
  BY <1>3 DEF Latest
<1>5. \A x \in Channels, y \in Buffers :
        (x # c \/ y # d.bd) =>
          ((\E e \in inflight'[x] : e.bd = y) <=> (\E e \in inflight[x] : e.bd = y))
  BY <1>1 DEF TypeOK
<1>6. CASE \E e \in inflight'[c] : e.bd = d.bd
  <2>1. \A x \in Channels, y \in Buffers :
          (\E e \in inflight'[x] : e.bd = y) <=> (\E e \in inflight[x] : e.bd = y)
    BY <1>1, <1>5, <1>6
  <2>3. ASSUME NEW x \in Channels, NEW y \in Buffers PROVE Owner'[x][y] = Owner[x][y]
    BY <2>1, OwnerEntry
  <2>2. Owner' = Owner
    BY <2>3, Mapped, TableEqual
  <2> QED BY <1>3, <1>4, <2>2 DEF Service!vars
<1>7. CASE ~\E e \in inflight'[c] : e.bd = d.bd
  <2>1. ASSUME NEW x \in Channels, NEW y \in Buffers
        PROVE  Owner'[x][y] = IF x = c /\ y = d.bd THEN "user" ELSE Owner[x][y]
    BY <1>5, <1>7, OwnerEntry
  <2>2. "user" \in Owners
    BY DEF Owners
  <2>3. Owner' = [Owner EXCEPT ![c][d.bd] = "user"]
    BY <1>2, <2>1, <2>2, Mapped, TableChanged
  <2>4. Owner[c][d.bd] = "device"
    BY <1>1, <1>2, OwnerEntry
  <2> QED BY <1>2, <1>3, <1>4, <2>3, <2>4 DEF Service!Release, Service!Next
<1> QED BY <1>6, <1>7

(***************************************************************************)
(* The report is an answer of the service: the thread is waiting, and it   *)
(* says PROXY_NO_ERROR only for a buffer given back or refused.            *)
(***************************************************************************)
LEMMA ReportRefines ==
  ASSUME TypeOK, NoErrorQuiescent, WaitingIsBusy, NEW t \in Threads, Report(t)
  PROVE  [Service!Next]_(Service!vars)
<1> DEFINE c == FileOf[t]
<1> DEFINE b == bd[t]
<1>1. c \in Channels /\ b \in Buffers
  BY Places
<1>2. status[c][b] = "BUSY" /\ pc[t] = "report"
  BY DEF Report, WaitingIsBusy, Chan
<1>3. Verdict(t) \in {"NO_ERROR", "TIMEOUT", "ERROR"}
  BY DEF Verdict
<1>4. status' = [status EXCEPT ![c][b] = Verdict(t)]
  BY DEF Report, Chan
<1>5. Owner' = Owner /\ Latest' = Latest
  BY DEF Report, Owner, Latest, InFlight, engineVars
<1>6. Verdict(t) = "NO_ERROR" => Owner[c][b] = "user" \/ Latest[c][b] = "refused"
  BY <1>1, <1>2, OwnerEntry, LatestEntry DEF NoErrorQuiescent, InFlight, Chan
<1>7. Service!Answer(c, b)
  BY <1>2, <1>3, <1>4, <1>5, <1>6 DEF Service!Answer
<1> QED BY <1>1, <1>7 DEF Service!Next

(***************************************************************************)
(* With one thread per device file, the driver implements the service.     *)
(***************************************************************************)
THEOREM Refinement == Exclusive => (Spec => ImplementsService)
<1> SUFFICES ASSUME Exclusive PROVE Spec => ImplementsService
  OBVIOUS
<1>1. Init => Service!Init /\ WaitingIsBusy
  <2> SUFFICES ASSUME Init PROVE Service!Init /\ WaitingIsBusy
    OBVIOUS
  <2>1. Owner = [c \in Channels |-> [b \in Buffers |-> "user"]]
    BY DEF Init, Owner, InFlight
  <2>2. Latest = [c \in Channels |-> [b \in Buffers |-> "accepted"]]
    BY DEF Init, Latest, SubmitError
  <2> QED BY <2>1, <2>2 DEF Init, Service!Init, WaitingIsBusy
<1>2. TypeOK /\ WaitingIsBusy /\ [Next]_vars => WaitingIsBusy'
  BY WaitingIsBusyStep
<1>3. TypeOK /\ NoErrorQuiescent /\ WaitingIsBusy /\ [Next]_vars
        => [Service!Next]_(Service!vars)
  <2> SUFFICES ASSUME TypeOK, NoErrorQuiescent, WaitingIsBusy, [Next]_vars
               PROVE  [Service!Next]_(Service!vars)
    OBVIOUS
  <2>1. CASE UNCHANGED vars
    BY <2>1, StutterStep DEF vars, driverVars, engineVars
  <2>2. ASSUME NEW t \in Threads, Call(t) PROVE [Service!Next]_(Service!vars)
    BY <2>2, StutterStep DEF Call, Ioctl, IoctlFault, engineVars
  <2>3. ASSUME NEW t \in Threads, Wait(t) PROVE [Service!Next]_(Service!vars)
    <3>1. FileOf[t] \in Channels /\ bdindex[FileOf[t]] \in Buffers
      BY Places
    <3>2. Owner' = Owner /\ Latest' = Latest
      BY <2>3 DEF Wait, Owner, Latest, InFlight, engineVars
    <3>3. Service!AwaitTransfer(FileOf[t], bdindex[FileOf[t]])
      BY <2>3, <3>2 DEF Wait, Chan, Service!AwaitTransfer
    <3> QED BY <3>1, <3>3 DEF Service!Next
  <2>4. ASSUME NEW t \in Threads, Step(t) PROVE [Service!Next]_(Service!vars)
    <3>1. CASE Submit(t)
      BY <3>1, SubmitRefines
    <3>2. CASE Wait(t)
      BY <3>2, <2>3
    <3>3. CASE Report(t)
      BY <3>3, ReportRefines
    <3>4. CASE Step(t) /\ ~Submit(t) /\ ~Wait(t) /\ ~Report(t)
      BY <3>4, StutterStep
      DEF Step, Prepare, InitCompletion, Issue, Wake, Expire, Check, driverVars, engineVars
    <3> QED BY <2>4, <3>1, <3>2, <3>3, <3>4
  <2>5. ASSUME NEW c \in Channels, Engine(c) PROVE [Service!Next]_(Service!vars)
    <3>1. CASE Complete(c)
      BY <3>1, CompleteRefines
    <3>2. CASE Callback(c)
      BY <3>2, StutterStep DEF Callback
    <3> QED BY <2>5, <3>1, <3>2 DEF Engine
  <2> QED BY <2>1, <2>2, <2>4, <2>5 DEF Next
<1> QED
  BY <1>1, <1>2, <1>3, TypeCorrect, Quiescence, PTL
  DEF Spec, ImplementsService, Service!Spec
-----------------------------------------------------------------------------
(* An XFER on a device that no other thread has open.                      *)

(* A cookie on record has been handed out.                                 *)
Recorded == \A c \in Channels, b \in Buffers : cookie[c][b] <= used[c]

(* The buffer that was started is the one that is waited for, the wait     *)
(* takes the completion of this very start, unless it was refused, and the *)
(* cookie found complete is that of this start.                            *)
XferPlace(t) ==
  LET c == Chan(t)  b == bd[t] IN
  /\ pc[t] \in {"init", "submit", "issue"} \/ (pc[t] = "wait" /\ cmd[t] = "XFER")
       => b = bdindex[c]
  /\ pc[t] = "issue" => claim[c][b] = "owed"
  /\ cmd[t] = "XFER" /\ pc[t] \in {"wait", "sleep"} => claim[c][b] \in {"failed", "owed"}
  /\ cmd[t] = "XFER" /\ pc[t] \in {"check", "report"} /\ ~timedout[t]
       => claim[c][b] \in {"failed", "taken"}
  /\ pc[t] = "report" /\ txstatus[t] = "COMPLETE" => cookie[c][b] <= completed[c]

XferInv == Recorded /\ \A t \in Threads : XferPlace(t)

\* "Perform the DMA transfer on the specified channel blocking til it
\* completes" (dma-proxy.c line 449): an XFER that is about to report
\* PROXY_NO_ERROR has taken the completion of the transfer it started, and the
\* engine has completed that one; or the engine had refused it.
XferComplete ==
  \A t \in Threads :
    pc[t] = "report" /\ cmd[t] = "XFER" /\ Verdict(t) = "NO_ERROR" =>
      \/ claim[Chan(t)][bd[t]] = "failed"
      \/ claim[Chan(t)][bd[t]] = "taken" /\ cookie[Chan(t)][bd[t]] <= completed[Chan(t)]

(***************************************************************************)
(* A step of another thread leaves the command of a thread and the buffer  *)
(* index of its channel alone, too, and completes nothing.                 *)
(***************************************************************************)
LEMMA CommandKept ==
  ASSUME Exclusive, TypeOK, NEW s \in Threads, NEW t \in Threads, s # t, Call(t) \/ Step(t)
  PROVE  /\ cmd'[s] = cmd[s] /\ bdindex'[FileOf[s]] = bdindex[FileOf[s]]
         /\ completed' = completed
<1>1. FileOf[s] \in Channels /\ FileOf[t] \in Channels /\ FileOf[s] # FileOf[t]
  BY FileOfAssumption DEF Exclusive
<1>2. cmd'[s] = cmd[s]
  BY DEF Call, Ioctl, IoctlFault, Step, Prepare, InitCompletion, Submit, Issue, Wait, Wake,
         Expire, Check, Report, threadVars, TypeOK
<1>3. bdindex'[FileOf[s]] = bdindex[FileOf[s]]
  BY <1>1 DEF Call, Ioctl, IoctlFault, Step, Prepare, InitCompletion, Submit, Issue, Wait, Wake,
         Expire, Check, Report, driverVars, TypeOK, Chan
<1>4. completed' = completed
  BY DEF Call, Ioctl, IoctlFault, Step, Prepare, InitCompletion, Submit, Issue, Wait, Wake,
         Expire, Check, Report, engineVars
<1> QED BY <1>2, <1>3, <1>4

(***************************************************************************)
(* No cookie on record is beyond the last one handed out.                  *)
(***************************************************************************)
LEMMA RecordedStep ==
  ASSUME TypeOK, Recorded, [Next]_vars
  PROVE  Recorded'
<1>1. ASSUME UNCHANGED <<cookie, used>> PROVE Recorded'
  BY <1>1 DEF Recorded
<1>2. ASSUME NEW t \in Threads, Submit(t) PROVE Recorded'
  <2>0. /\ FileOf[t] \in Channels /\ bd[t] \in Buffers
        /\ \A c \in Channels : used[c] \in Nat
        /\ \A c \in Channels, b \in Buffers : cookie[c][b] \in Int
    BY Places DEF TypeOK, SubmitError
  <2>1. CASE /\ used' = [used EXCEPT ![FileOf[t]] = used[FileOf[t]] + 1]
             /\ cookie' = [cookie EXCEPT ![FileOf[t]][bd[t]] = used'[FileOf[t]]]
    <3>1. \A c \in Channels : used'[c] = IF c = FileOf[t] THEN used[c] + 1 ELSE used[c]
      BY <2>0, <2>1 DEF TypeOK
    <3>2. \A c \in Channels, b \in Buffers :
            cookie'[c][b] = IF c = FileOf[t] /\ b = bd[t] THEN used'[c] ELSE cookie[c][b]
      BY <2>0, <2>1 DEF TypeOK
    <3> QED BY <2>0, <3>1, <3>2 DEF Recorded
  <2>2. CASE used' = used /\ cookie' = [cookie EXCEPT ![FileOf[t]][bd[t]] = SubmitError]
    <3>1. \A c \in Channels, b \in Buffers :
            cookie'[c][b] = SubmitError \/ cookie'[c][b] = cookie[c][b]
      BY <2>0, <2>2 DEF TypeOK
    <3> QED BY <2>0, <2>2, <3>1 DEF Recorded, SubmitError
  <2> QED BY <1>2, <2>1, <2>2 DEF Submit, Chan
<1>3. CASE UNCHANGED vars
  BY <1>1, <1>3 DEF vars, driverVars, engineVars
<1>4. ASSUME NEW t \in Threads, Call(t) \/ Step(t) PROVE Recorded'
  BY <1>1, <1>2, <1>4 DEF Call, Ioctl, IoctlFault, Step, Prepare, InitCompletion, Issue, Wait,
     Wake, Expire, Check, Report, driverVars, engineVars
<1>5. ASSUME NEW c \in Channels, Engine(c) PROVE Recorded'
  BY <1>1, <1>5, EngineSteps
<1> QED BY <1>3, <1>4, <1>5 DEF Next

(***************************************************************************)
(* A completion only moves the last completed cookie on.                   *)
(***************************************************************************)
LEMMA CompletedGrows ==
  ASSUME TypeOK, CookieInv, NEW x \in Channels, Engine(x), NEW c \in Channels
  PROVE  completed[c] <= completed'[c] /\ completed'[c] \in Nat /\ completed[c] \in Nat
<1>0. completed[c] \in Nat
  BY DEF TypeOK
<1>1. CASE Complete(x)
  <2>1. PICK d \in inflight[x] : completed' = [completed EXCEPT ![x] = d.cookie]
    BY <1>1 DEF Complete, Oldest
  <2>2. d.cookie \in Nat /\ completed[x] < d.cookie
    BY DEF TypeOK, Descriptors, CookieInv, CookieOrder
  <2>3. completed'[c] = IF c = x THEN d.cookie ELSE completed[c]
    BY <2>1 DEF TypeOK
  <2> QED BY <1>0, <2>2, <2>3
<1>2. CASE Callback(x)
  BY <1>0, <1>2 DEF Callback
<1> QED BY <1>1, <1>2 DEF Engine
(***************************************************************************)
(* What is known of a thread inside an XFER survives every step: others do *)
(* not touch its channel, the engine only completes more, and each step of *)
(* its own establishes what the next place needs.                          *)
(***************************************************************************)
LEMMA XferStep ==
  ASSUME Exclusive, TypeOK, CookieInv, XferInv, [Next]_vars
  PROVE  XferInv'
<1>0. Recorded' /\ Recorded
  BY RecordedStep DEF XferInv
<1> SUFFICES ASSUME NEW s \in Threads PROVE XferPlace(s)'
  BY <1>0 DEF XferInv
<1>1. /\ FileOf[s] \in Channels /\ bd[s] \in Buffers /\ bdindex[FileOf[s]] \in Buffers
      /\ XferPlace(s)
  BY Places DEF XferInv
<1>2. CASE UNCHANGED vars
  BY <1>1, <1>2 DEF XferPlace, vars, driverVars, engineVars, threadVars, Chan
<1>3. ASSUME NEW t \in Threads, t # s, Call(t) \/ Step(t) PROVE XferPlace(s)'
  BY <1>1, <1>3, Isolation, CommandKept DEF XferPlace, Chan
<1>4. ASSUME NEW x \in Channels, Engine(x) PROVE XferPlace(s)'
  <2>1. UNCHANGED <<pc, cmd, bd, timedout, txstatus, bdindex, cookie, claim>>
    BY <1>4, EngineSteps DEF threadVars
  <2>2. /\ completed[FileOf[s]] <= completed'[FileOf[s]]
        /\ completed'[FileOf[s]] \in Nat /\ completed[FileOf[s]] \in Nat
        /\ cookie[FileOf[s]][bd[s]] \in Int
    BY <1>1, <1>4, CompletedGrows DEF TypeOK, SubmitError
  <2> QED BY <1>1, <2>1, <2>2 DEF XferPlace, Chan
<1>5. CASE Call(s)
  <2>1. pc'[s] \in {"user", "start", "wait"} /\ (pc'[s] = "wait" => cmd'[s] # "XFER")
    BY <1>5 DEF Call, Ioctl, IoctlFault, FirstStep, Commands, threadVars, TypeOK
  <2> QED BY <2>1 DEF XferPlace, Chan
<1>6. CASE Prepare(s)
  <2>1. /\ bd'[s] = bdindex'[FileOf[s]]
        /\ pc'[s] = "init" \/ (pc'[s] \in {"wait", "user"} /\ claim'[FileOf[s]][bd'[s]] = "failed")
    BY <1>1, <1>6 DEF Prepare, AfterStart, TypeOK, Chan, driverVars
  <2> QED BY <2>1 DEF XferPlace, Chan
<1>7. CASE InitCompletion(s)
  <2>1. pc'[s] = "submit" /\ UNCHANGED <<bd, bdindex>> /\ pc[s] = "init"
    BY <1>7 DEF InitCompletion, TypeOK
  <2> QED BY <1>1, <2>1 DEF XferPlace, Chan
<1>8. CASE Submit(s)
  <2>1. UNCHANGED <<bd, bdindex, cmd>> /\ pc[s] = "submit"
    BY <1>8 DEF Submit
  <2>2. \/ pc'[s] = "issue" /\ claim'[FileOf[s]][bd[s]] = "owed"
        \/ pc'[s] \in {"wait", "user"} /\ claim'[FileOf[s]][bd[s]] = "failed"
    BY <1>1, <1>8 DEF Submit, AfterStart, TypeOK, Chan
  <2> QED BY <1>1, <2>1, <2>2 DEF XferPlace, Chan
<1>9. CASE Issue(s)
  <2>1. /\ UNCHANGED <<bd, bdindex, cmd, claim>> /\ pc[s] = "issue"
        /\ pc'[s] \in {"wait", "user"}
    BY <1>9 DEF Issue, AfterStart, TypeOK, driverVars
  <2> QED BY <1>1, <2>1 DEF XferPlace, Chan
<1>10. CASE Wait(s)
  <2>1. /\ bd'[s] = bdindex[FileOf[s]] /\ UNCHANGED <<bdindex, cmd, claim>>
        /\ pc[s] = "wait" /\ pc'[s] = "sleep"
    BY <1>1, <1>10 DEF Wait, TypeOK, Chan
  <2> QED BY <1>1, <2>1 DEF XferPlace, Chan
<1>11. CASE Wake(s)
  <2>1. /\ UNCHANGED <<bd, cmd>> /\ pc[s] = "sleep" /\ pc'[s] = "check"
        /\ claim'[FileOf[s]][bd[s]] =
             IF claim[FileOf[s]][bd[s]] = "owed" THEN "taken" ELSE claim[FileOf[s]][bd[s]]
    BY <1>1, <1>11 DEF Wake, TypeOK, Chan
  <2> QED BY <1>1, <2>1 DEF XferPlace, Chan
<1>12. CASE Expire(s)
  <2>1. pc'[s] = "check" /\ timedout'[s] = TRUE
    BY <1>12 DEF Expire, TypeOK
  <2> QED BY <2>1 DEF XferPlace, Chan
<1>13. CASE Check(s)
  <2>1. /\ UNCHANGED <<bd, cmd, claim, cookie, completed, used, timedout>>
        /\ pc[s] = "check" /\ pc'[s] = "report"
        /\ txstatus'[s] = "COMPLETE" => TxComplete(FileOf[s], cookie[FileOf[s]][bd[s]])
    BY <1>13 DEF Check, TypeOK, Chan, driverVars, engineVars
  <2>2. cookie[FileOf[s]][bd[s]] <= used[FileOf[s]]
    BY <1>0, <1>1 DEF Recorded
  <2>3. used[FileOf[s]] \in Nat /\ cookie[FileOf[s]][bd[s]] \in Int
    BY <1>1 DEF TypeOK, SubmitError
  <2> QED BY <1>1, <2>1, <2>2, <2>3 DEF XferPlace, Chan, TxComplete
<1>14. CASE Report(s)
  <2>1. pc'[s] = "user"
    BY <1>14 DEF Report, TypeOK
  <2> QED BY <2>1 DEF XferPlace, Chan
<1> QED BY <1>2, <1>3, <1>4, <1>5, <1>6, <1>7, <1>8, <1>9, <1>10, <1>11, <1>12, <1>13, <1>14
        DEF Next, Step

(***************************************************************************)
(* The invariant of the XFER, with the order of the cookies it rests on.   *)
(***************************************************************************)
LEMMA XferInvariance == Exclusive => (Spec => [](CookieInv /\ XferInv))
<1> SUFFICES ASSUME Exclusive PROVE Spec => [](CookieInv /\ XferInv)
  OBVIOUS
<1>1. Init => CookieInv /\ XferInv
  BY BuffersAssumption, FileOfAssumption
  DEF Init, CookieInv, CookieOrder, LatestCookie, XferInv, XferPlace, Recorded, Chan
<1>2. TypeOK /\ CookieInv /\ XferInv /\ [Next]_vars => CookieInv' /\ XferInv'
  BY CookieStep, XferStep
<1> QED BY <1>1, <1>2, TypeCorrect, PTL DEF Spec

(***************************************************************************)
(* With one thread per device file, an XFER that reports PROXY_NO_ERROR    *)
(* has done its transfer, unless the engine had refused it: what goes      *)
(* wrong without a check of the refusal is all that goes wrong.            *)
(***************************************************************************)
THEOREM XferCompletes == Exclusive => (Spec => []XferComplete)
<1> SUFFICES ASSUME Exclusive PROVE Spec => []XferComplete
  OBVIOUS
<1>1. XferInv => XferComplete
  BY DEF XferInv, XferPlace, XferComplete, Verdict, Chan
<1> QED BY <1>1, XferInvariance, PTL

(***************************************************************************)
(* With one thread per device file, the buffer an XFER waits for is the    *)
(* one it started, although bdindex is read twice.                         *)
(***************************************************************************)
THEOREM XferSameBuffer == Exclusive => (Spec => XferOneBuffer)
<1> SUFFICES ASSUME Exclusive PROVE Spec => XferOneBuffer
  OBVIOUS
<1>1. TypeOK /\ XferInv /\ [Next]_vars
        => [\A t \in Threads :
              pc[t] = "wait" /\ cmd[t] = "XFER" /\ pc'[t] = "sleep" => bd'[t] = bd[t]]_vars
  <2> SUFFICES ASSUME TypeOK, XferInv, Next, NEW s \in Threads,
                      pc[s] = "wait", cmd[s] = "XFER", pc'[s] = "sleep"
               PROVE  bd'[s] = bd[s]
    OBVIOUS
  <2>1. FileOf[s] \in Channels /\ bd[s] = bdindex[FileOf[s]]
    BY Places DEF XferInv, XferPlace, Chan
  <2>2. ASSUME NEW c \in Channels, Engine(c) PROVE FALSE
    BY <2>2, EngineSteps DEF threadVars
  <2>3. ASSUME NEW t \in Threads, t # s, Call(t) \/ Step(t) PROVE FALSE
    BY <2>3, Isolation
  <2>4. CASE Call(s)
    BY <2>4 DEF Call, Ioctl, IoctlFault
  <2>5. CASE Step(s)
    <3>1. Wait(s)
      BY <2>5 DEF Step, Prepare, InitCompletion, Submit, Issue, Wake, Expire, Check, Report
    <3> QED BY <2>1, <3>1 DEF Wait, TypeOK, Chan
  <2> QED BY <2>2, <2>3, <2>4, <2>5 DEF Next
<1> QED BY <1>1, TypeCorrect, XferInvariance, PTL DEF Spec, XferOneBuffer
=============================================================================
