---------------------------- MODULE DmaProxyDevice ----------------------------
(***************************************************************************)
(* The life of the DMA proxy driver: probe with create_channel and the     *)
(* internal test, remove, and the main function of the application that    *)
(* opens the device files, composed with the driver's ioctls, the threads  *)
(* of the application and the stream of DmaProxyTest.                      *)
(*                                                                         *)
(* A probe may be refused anything and returns without undoing what it has *)
(* done; the managed memory alone is freed by the kernel.  It is tried     *)
(* again when the module is loaded anew, or when it was deferred because   *)
(* the DMA engine had no driver yet.                                       *)
(*                                                                         *)
(* The kernel around the driver is external: a class has a name of its     *)
(* own, a module with an open file is not removed, one that is being       *)
(* removed is not opened, and a released channel is idle.                  *)
(*                                                                         *)
(* Bounds: the application is run once while a driver is loaded, and not   *)
(* on one that was loaded for its internal test.  Assumed: no one removes  *)
(* the driver while the work of the internal test is queued or waits,      *)
(* which remove would not wait for.                                        *)
(***************************************************************************)
EXTENDS DmaProxyTest

\* dma-names of the device tree, in the order TX_CHANNEL, RX_CHANNEL.
names == <<"tx", "rx">>

VARIABLES
  load,           \* where the module is in probe or remove
  created,        \* the loops over channel_count, in probe and in remove
  internal_test,  \* the module parameter
  kept,           \* the class and the region of device numbers that exist
  nodes,          \* channels with a character device and a node in /dev
  requested,      \* channels requested from the DMA engine
  memory,         \* channels with their buffers and their table
  main,           \* where main of the application is, "none" when not run
  opened,         \* the device files it has open
  early           \* history: it opened one before or after the driver was bound

lifeVars == <<load, created, internal_test, kept, nodes, requested, memory>>
mainVars == <<main, opened, early>>
deviceVars == <<lifeVars, mainVars>>
systemVars == <<allVars, deviceVars>>

InitDevice ==
  /\ InitApp("absent")
  /\ load = "out" /\ created = 0 /\ internal_test = FALSE
  /\ kept = {} /\ nodes = {} /\ requested = {} /\ memory = {}
  /\ main = "none" /\ opened = {} /\ early = FALSE

Idle == \A t \in Threads : at[t] = "absent"
This == names[created + 1]

-----------------------------------------------------------------------------
(* probe                                                                   *)

\* insmod, or a probe that had failed is tried again.
Insmod ==
  /\ load \in {"out", "failed"}
  /\ load' = "class" /\ created' = 0
  /\ internal_test' \in IF main = "none" THEN BOOLEAN ELSE {FALSE}
  /\ UNCHANGED <<allVars, kept, nodes, requested, memory, mainVars>>

\* Something is refused, from the first allocation to the last.
ProbeFails ==
  /\ load \in {"class", "region", "request", "publish", "memory"}
  /\ load' = "failed" /\ internal_test' = FALSE
  /\ memory' = {}
  /\ UNCHANGED <<allVars, created, kept, nodes, requested, mainVars>>

CreateClass ==
  /\ load = "class" /\ "class" \notin kept
  /\ load' = "region" /\ kept' = kept \cup {"class"}
  /\ UNCHANGED <<allVars, created, internal_test, nodes, requested, memory, mainVars>>

AllocRegion ==
  /\ load = "region"
  /\ load' = "request" /\ kept' = kept \cup {"region"}
  /\ UNCHANGED <<allVars, created, internal_test, nodes, requested, memory, mainVars>>

\* create_channel, which publishes the device before it has its buffers.
RequestChannel ==
  /\ load = "request"
  /\ load' = "publish" /\ requested' = requested \cup {This}
  /\ UNCHANGED <<allVars, created, internal_test, kept, nodes, memory, mainVars>>

Publish ==
  /\ load = "publish"
  /\ load' = "memory" /\ nodes' = nodes \cup {This}
  /\ UNCHANGED <<allVars, created, internal_test, kept, requested, memory, mainVars>>

\* The buffers are cleared, the table of descriptors is not, as in Init.
Allocate ==
  /\ load = "memory"
  /\ memory' = memory \cup {This}
  /\ bdindex' = [bdindex EXCEPT ![This] = 0]
  /\ status' = [status EXCEPT ![This] = [b \in Buffers |-> "NO_ERROR"]]
  /\ cookie' = [cookie EXCEPT ![This] = [b \in Buffers |-> 0]]
  /\ \E garbage \in [Buffers -> GarbageDone] : done' = [done EXCEPT ![This] = garbage]
  /\ claim' = [claim EXCEPT ![This] = [b \in Buffers |-> "none"]]
  /\ word' = [word EXCEPT ![This] = [b \in Buffers |-> 0]]
  /\ created' = created + 1
  /\ load' = IF created' < Len(names) THEN "request"
             ELSE IF internal_test THEN "test" ELSE "bound"
  /\ UNCHANGED <<engineVars, threadVars, num_transfers, stop, stop_in_progress, at, buffer_id,
                 in_progress_count, counter, stream, overslept, internal_test, kept, nodes,
                 requested, mainVars>>

\* start_transfer and wait_for_transfer of buffer 0, as XFER does them.
Transfer(t) == cmd' = [cmd EXCEPT ![t] = "XFER"] /\ pc' = [pc EXCEPT ![t] = "start"]

\* test queues the work that transmits, and receives.
Test ==
  /\ load = "test" /\ Idle
  /\ at' = [at EXCEPT !["tx"] = "scheduled", !["rx"] = "test"]
  /\ bdindex' = [bdindex EXCEPT !["tx"] = 0]
  /\ Transfer("rx")
  /\ UNCHANGED <<status, cookie, done, engineVars, bd, timedout, txstatus, claim,
                 num_transfers, stop, stop_in_progress, buffer_id, in_progress_count, counter,
                 word, stream, overslept, deviceVars>>

\* tx_test
TestTransmit ==
  /\ at["tx"] = "scheduled"
  /\ at' = [at EXCEPT !["tx"] = "test"]
  /\ bdindex' = [bdindex EXCEPT !["tx"] = 0]
  /\ Transfer("tx")
  /\ UNCHANGED <<status, cookie, done, engineVars, bd, timedout, txstatus, claim,
                 num_transfers, stop, stop_in_progress, buffer_id, in_progress_count, counter,
                 word, stream, overslept, deviceVars>>

\* Whatever the comparison of the buffers says, probe succeeds.
TestDone ==
  /\ load = "test" /\ at["rx"] = "test" /\ pc["rx"] = "user"
  /\ load' = "bound"
  /\ UNCHANGED <<allVars, created, internal_test, kept, nodes, requested, memory, mainVars>>

Probe ==
  \/ CreateClass \/ AllocRegion
  \/ RequestChannel \/ Publish \/ Allocate
  \/ Test \/ TestTransmit \/ TestDone

-----------------------------------------------------------------------------
(* remove                                                                  *)

\* rmmod of a driver that is bound; that the work of the internal test is over
\* is an assumption.
Rmmod ==
  /\ load = "bound" /\ opened = {}
  /\ \A t \in Threads : pc[t] = "user" /\ at[t] # "scheduled"
  /\ load' = "exit" /\ created' = 0
  /\ UNCHANGED <<allVars, internal_test, kept, nodes, requested, memory, mainVars>>

\* Of one whose probe failed: remove is not called.
RmmodFailed ==
  /\ load = "failed" /\ opened = {}
  /\ load' = "out"
  /\ UNCHANGED <<allVars, created, internal_test, kept, nodes, requested, memory, mainVars>>

\* As the comment before that loop has it: the last channel separately.
ExitAllButLast ==
  /\ load = "exit"
  /\ load' = "release" /\ nodes' = nodes \ {names[1]}
  /\ UNCHANGED <<allVars, created, internal_test, kept, requested, memory, mainVars>>

\* cdevice_exit for every channel.
ExitDevices ==
  /\ load = "exit"
  /\ load' = "release" /\ nodes' = {}
  /\ UNCHANGED <<allVars, created, internal_test, kept, requested, memory, mainVars>>

AfterRelease == IF created + 1 < Len(names) THEN "release" ELSE "destroy"

\* dma_release_channel alone.
ReleaseRunning ==
  /\ load = "release"
  /\ requested' = requested \ {This}
  /\ created' = created + 1 /\ load' = AfterRelease
  /\ UNCHANGED <<allVars, internal_test, kept, nodes, memory, mainVars>>

\* device_terminate_all and dma_release_channel: the engine forgets the
\* channel, and the data on its way between the two is dropped.
ReleaseChannel ==
  /\ load = "release"
  /\ requested' = requested \ {This}
  /\ used' = [used EXCEPT ![This] = 0] /\ completed' = [completed EXCEPT ![This] = 0]
  /\ inflight' = [inflight EXCEPT ![This] = {}]
  /\ armed' = [armed EXCEPT ![This] = FALSE]
  /\ callbacks' = [callbacks EXCEPT ![This] = {}]
  /\ stream' = <<>>
  /\ created' = created + 1 /\ load' = AfterRelease
  /\ UNCHANGED <<driverVars, threadVars, claim, num_transfers, stop, stop_in_progress, at,
                 buffer_id, in_progress_count, counter, word, overslept, internal_test, kept,
                 nodes, memory, mainVars>>

\* class_destroy and unregister_chrdev_region.
Destroy ==
  /\ load = "destroy"
  /\ load' = "free" /\ kept' = {}
  /\ UNCHANGED <<allVars, created, internal_test, nodes, requested, memory, mainVars>>

\* The kernel frees what is managed, after remove has returned.
Free ==
  /\ load = "free"
  /\ load' = "out" /\ memory' = {} /\ internal_test' = FALSE
  /\ at' = [t \in Threads |-> "absent"]
  /\ overslept' = FALSE
  /\ UNCHANGED <<vars, num_transfers, stop, stop_in_progress, buffer_id, in_progress_count,
                 counter, word, stream, created, kept, nodes, requested, mainVars>>

Remove == Rmmod \/ RmmodFailed \/ ExitDevices \/ ReleaseChannel \/ Destroy \/ Free

-----------------------------------------------------------------------------
(* main of the application                                                 *)

Leaving == load \in {"exit", "release", "destroy", "free"}

\* Someone runs the application, whether or not there is a driver.
Start ==
  /\ main = "none" /\ Idle /\ ~internal_test
  /\ \A c \in Channels : used[c] = 0
  /\ main' = "open" /\ early' = FALSE
  /\ UNCHANGED <<allVars, lifeVars, opened>>

\* The file to be opened next.
Wanted == IF names[1] \in opened THEN names[2] ELSE names[1]

\* open and mmap.  The memory of a channel that has none cannot be mapped; what
\* such a program does is not followed any further ("lost").
Open ==
  /\ main = "open" /\ opened # Channels
  /\ Wanted \in nodes /\ ~Leaving
  /\ opened' = opened \cup {Wanted}
  /\ main' = IF Wanted \in memory THEN "open" ELSE "lost"
  /\ early' = (early \/ load # "bound")
  /\ UNCHANGED <<allVars, lifeVars>>

OpenFails ==
  /\ main = "open" /\ opened # Channels
  /\ Wanted \notin nodes \/ Leaving
  /\ main' = "none" /\ opened' = {}
  /\ UNCHANGED <<allVars, lifeVars, early>>

LostEnds ==
  /\ main = "lost"
  /\ main' = "none" /\ opened' = {}
  /\ UNCHANGED <<allVars, lifeVars, early>>

SetupThreads ==
  /\ main = "open" /\ opened = Channels
  /\ main' = "running"
  /\ at' = [t \in Threads |-> "starting"]
  /\ UNCHANGED <<vars, num_transfers, stop, stop_in_progress, buffer_id, in_progress_count,
                 counter, word, stream, overslept, lifeVars, opened, early>>

\* Both threads are joined, or exit(1) has ended them; the files are closed,
\* which does nothing to the transfers (release), and the process is gone.
Close ==
  /\ main = "running" /\ \A t \in Threads : Ended(t)
  /\ main' = "none" /\ opened' = {}
  /\ num_transfers' = Transfers
  /\ stop' = FALSE /\ stop_in_progress' = FALSE
  /\ at' = [t \in Threads |-> "absent"]
  /\ buffer_id' = [t \in Threads |-> 0]
  /\ in_progress_count' = [t \in Threads |-> 0]
  /\ counter' = [t \in Threads |-> 0]
  /\ overslept' = FALSE
  /\ UNCHANGED <<vars, word, stream, lifeVars, early>>

Main == Start \/ Open \/ OpenFails \/ LostEnds \/ SetupThreads \/ Close

-----------------------------------------------------------------------------
Alone(A) == A /\ UNCHANGED deviceVars

Running ==
  \/ main = "running" /\ SigInt
  \/ \E t \in Threads : Thread(t) \/ Driver(t)
  \/ TxFinished \/ Rx
  \/ Hardware
  \/ \E c \in Channels : Tasklet(c)

NextDevice ==
  \/ Insmod \/ ProbeFails \/ Probe
  \/ Remove
  \/ Main
  \/ Alone(Running)

\* The threads and the hardware as in DmaProxyTest, and the queued work is run.
\* Nobody has to load, use or remove the driver.
SpecDevice ==
  /\ InitDevice /\ [][NextDevice]_systemVars
  /\ \A t \in Threads : WF_systemVars(Alone(Thread(t))) /\ WF_systemVars(Alone(Driver(t)))
  /\ WF_systemVars(Alone(TxFinished)) /\ WF_systemVars(Alone(Rx))
  /\ WF_systemVars(Alone(Transmit)) /\ WF_systemVars(Alone(Receive))
  /\ \A c \in Channels : WF_systemVars(Alone(Tasklet(c)))
  /\ WF_systemVars(TestTransmit)

-----------------------------------------------------------------------------
Loads == {"out", "class", "region", "request", "publish", "memory", "test", "bound",
          "failed", "exit", "release", "destroy", "free"}

\* Type correctness: the loops stay within the channels, and there are no
\* buffers without a device and no device without an engine.
TypeOKDevice ==
  /\ TypeOKTest
  /\ load \in Loads
  /\ created \in 0 .. Len(names)
  /\ load \in {"request", "publish", "memory", "release"} => created < Len(names)
  /\ internal_test \in BOOLEAN /\ early \in BOOLEAN
  /\ kept \subseteq {"class", "region"}
  /\ nodes \subseteq Channels /\ requested \subseteq Channels /\ memory \subseteq Channels
  /\ main \in {"none", "open", "running", "lost"}
  /\ opened \subseteq Channels

(***************************************************************************)
(* The engine never has a descriptor for a channel whose memory has been   *)
(* freed, although release leaves the transfers of a dead application      *)
(* running and nothing tells remove of them (line 780 of dma-proxy.c); a   *)
(* running application keeps its memory; and an application finds none     *)
(* only when it has opened a file while probe was at work, or after a      *)
(* probe that failed (lines 576, 737).                                     *)
(***************************************************************************)
MemoryLive ==
  /\ \A c \in Channels : inflight[c] # {} => c \in memory
  /\ main = "running" => memory = Channels
  /\ main = "lost" => early

(***************************************************************************)
(* A probe that gets past class_create finds nothing of an earlier driver: *)
(* no device node, no channel, no transfer and no callback.  Remove has    *)
(* taken everything down, or a probe has failed half-way and the class it  *)
(* left makes every later one fail before it can touch what is left.       *)
(***************************************************************************)
FreshStart ==
  load = "region" =>
    /\ nodes = {} /\ requested = {} /\ memory = {}
    /\ \A c \in Channels : inflight[c] = {} /\ callbacks[c] = {}
=============================================================================
