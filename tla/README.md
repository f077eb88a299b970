# Verification of software-prototypes

TLA+ models of the programs in this repository, the TLC runs that check them on small
instances, and proofs, checked by TLAPS, of the results that matter most.

The repository is a collection of independent prototypes for Zynq-7000, Zynq UltraScale+
and Versal devices. What they have in common is concurrency with hardware or with other
processors: DMA engines, inter-processor interrupts, caches, buses. That is what the
models are about.

## The system

| part | state it keeps | operations | what is hard |
|---|---|---|---|
| DMA proxy driver (`linux-user-space-dma/Software/Kernel/dma-proxy.c`) | per channel: the shared `bdindex`, per buffer a completion, a cookie and the user-visible status word; nodes, channels, memory and class of a probe | `ioctl` START/FINISH/XFER/SHOW_BUFLEN, callback of the engine, `probe`, `remove` | callbacks and timeouts against callers; refused preparations and submissions; buffers restarted while in flight; a probe refused half-way; memory freed under a transfer |
| DMA proxy test (`.../User/dma-proxy-test.c`) | two threads with circular buffers and counters, shared `num_transfers`, `stop` | start, finish and restart transfers; control C | the two threads must stop at matching counts |
| ZynqMP IPI messaging (`zynqmp-ipi-messaging/Software`) | IPI request/response buffers, trigger/status bits, the PMU's `cnt` | PMU sends to each processor in turn and polls for the answer, the others answer from their interrupt | time-out against a late answer; counter wrapping past the 16 bits compared |
| Versal PLM/R5/A72 IPI (`plm-r5-a72-ipi`) | IPI message buffers, `RecvDone` and `RequestBuffer` of the R5, status bits | PLM task every second, command handler, R5 echo loop, A72 interrupt handler and sender | one message buffer per sender, no acknowledgement in one direction; lost wake-ups |
| Cache coherency tests (`versal-cache-coherency`, `zynqmp-cache-coherency`) | cache lines and memory of two buffers, per-master coherency settings | write, flush, DMA copy, copy by the RPU, compare | dirty lines against masters that do or do not snoop |
| Zynq-7000 FSBL image mover (`zynq-7000-tips-tricks/fsbl`) | boot header, partition headers, one set of global attribute flags | walk the partition table, move, checksum, authenticate, decrypt, hand off | flags carried from one partition to the next; skipped partitions on a warm reboot; execute in place |
| Zynq-7000 SSBL (`zynq-7000-tips-tricks/ssbl`) | OCM mapping | remap, copy, hand off | the code runs from memory it remaps |
| Si5381 programming (`zcu670-si5381`) | cached page and slave address of the I2C registers | paged register writes and reads, programming sequence | the cache against a partially failed write |
| OP-TEE patches (`optee/patches`) | TA session of U-Boot, the TA's counter | open, invoke, close | a session used although opening failed |
| Hardware block designs, register tables, prebuilt images | none that runs | | |

What makes each part correct:

* DMA proxy: `PROXY_NO_ERROR` means that the engine is done with the buffer; a timeout
  means that the transfer was not done; every ioctl returns; an ioctl works on the buffer
  it was given.
* DMA proxy device: no transfer outlives its memory; a probe never builds on what another
  one has left; an application finds either the whole driver or none.
* Test application: data arrives in order; no buffer is written while in flight; after the
  last transfer, or a control C, nothing is left in the hardware.
* IPI messaging: an answer is accepted only if it answers the request just sent; every
  channel is served; a missed answer does not spoil the later ones.
* Cache coherency: a coherent master reads what the processor last wrote, even if it is
  only in the cache; a read-back sees what the master wrote, and no eviction undoes it.
* FSBL: every partition is loaded where its header says, checked as its header says, and
  control goes to the first processing-system partition.
* Si5381: every register write reaches the page it is meant for, the configuration waits
  for the device to settle, and success means that the device is configured, whatever an
  earlier call left behind.

## Modules

| module | models | kind |
|---|---|---|
| `TransferService` | what the driver promises: who owns a buffer, what its status may say | abstract specification |
| `DmaProxy` | the ioctl interface of `dma-proxy.c` over an external dmaengine | specification |
| `DmaProxyProofs` | type correctness, `NoErrorQuiescent`, `NoLostCompletion`, `DmaProxy` implements `TransferService`, what an XFER can rely on | proofs |
| `DmaProxyTest` | `dma-proxy-test.c` composed with `DmaProxy` and the loopback stream | specification |
| `DmaProxyDevice` | probe, internal test and remove of `dma-proxy.c` and `main` of `dma-proxy-test.c`, composed with `DmaProxyTest` | specification |
| `DmaProxyDeviceProofs` | `MemoryLive`, `FreshStart` | proofs |
| `DmaProxyTestProofs` | type correctness of the application on its driver, `GracefulShutdown`, `VerifyInOrder`, `NoWriteInFlight` | proofs |
| `ZynqmpIpi` | `xpfw_mod_custom.c` and the five responders over the IPI hardware | specification |
| `ZynqmpIpiProofs` | type correctness, `ReceivedGenuine`, `RejectsBounded`, and up to which counter every channel is served | proofs |
| `FsblLoader` | `LoadBootImage` and everything it calls in `image_mover.c` | specification |
| `Ssbl` | `ssbl_main.c` composed with `FsblLoader` | specification |
| `FsblLoaderProofs` | type correctness, the five safety properties of the loader, what it leaves encrypted without DDR, and `XipRuns` of `Ssbl` | proofs |
| `PlmIpi` | `user_ipi_demo.c`, `xilmailbox_example.c` and `libmetal-linux-ipi-demo.c` over the IPI hardware | specification |
| `PlmIpiProofs` | type correctness and the four safety properties of the trips | proofs |
| `SharedMemory` | one memory without caches | abstract specification |
| `Coherency` | `main_a72.c`, `main_a53.c` and both `main_r5.c` over the cache, the interconnect and the DMA engines | specification |
| `CoherencyProofs` | type correctness, `ReadbackGenuine`, `Coherency` implements `SharedMemory` | proofs |
| `ClockProgram` | a table of registers stored in order in a device that has to settle | abstract specification |
| `Si5381` | `Si5381A-programming.c` over an I2C bus that fails and a device that is reset | specification |
| `Si5381Proofs` | type correctness, `SuccessConfigured`, `FailureExplained`, `Si5381` implements `ClockProgram` | proofs |
| `MCDmaProxy`, `MCDmaProxyTest`, `MCDmaProxyDevice`, `MCZynqmpIpi`, `MCFsbl`, `MCPlmIpi`, `MCSi5381` | instances for TLC | |

### DmaProxy

A thread inside `ioctl` is at one of the locations of `pc`; each action is the code from
one access of shared state to the next:

    user -> start -> init -> submit -> issue -> (wait) -> sleep -> check -> report -> user

`Ioctl` is the entry with `copy_from_user` into the channel's `bdindex`, `Prepare` reads
that index into a local and calls `device_prep_slave_sg`, then `InitCompletion`, `Submit`
(which may be refused: the error cookie is stored and `start_transfer` returns), `Issue`.
`Wait` reads the index again and writes `PROXY_BUSY`; `Wake` and `Expire` are the two ends
of `wait_for_completion_timeout`; `Check` asks for the state of the cookie; `Report` writes
the verdict. `START_XFER` leaves after `issue`, `FINISH_XFER` enters at `wait`. A killed
process leaves nothing but its transfers behind, because `release` does nothing: the next
process is the same thread, calling again.

The engine is external: cookies count up, descriptors complete in order once
`issue_pending` has run (a descriptor submitted while the engine is busy needs no further
one), and the callback of a completed descriptor runs at some later time. A negative
cookie reads as complete, as `dma_async_is_complete` computes it. The wrap of the 32-bit
cookie is left out. `claim` is a history variable for the properties only.

`dma_proxy` checks one thread that owns its channel (`Exclusive`, as in the test
application), since channels share nothing, with two buffers and three starts: enough for
two transfers of one buffer in flight at once and a third that is refused. Fairness is
assumed for the threads only (the kernel runs them, and their timer fires); `IoctlReturns`
therefore holds whatever the engine does.

Findings: `dma_proxy_refused` (an XFER that was never started reports success) and
`dma_proxy_shared` (two callers of one device share the index).

### DmaProxyTest

Extends `DmaProxy`; the application's actions conjoin `Ioctl` with their own bookkeeping
and wait for `pc = "user"` to go on. `Started` is the end of an iteration of the first
loop of either thread; `TxFinished` is the body of `tx_thread`'s second loop, which is the
only writer of `num_transfers`; `rx_thread`'s is cut in two, `RxFinished` and `RxRestart`,
because it reads `num_transfers` twice. `exit(1)` is `RxError`. Contents of a buffer are
the first word of the verify pattern.

Assumptions: the stream holds `StreamDepth` transfers; three seconds are longer than
anything that can happen without the timer (`Stalled`), except for the threads in
`SlowFor`. `dma_test` lets receive transfers be slow. With slow transmit transfers the
code refills a buffer that is in flight (it only prints the error). The scheduler, the
hardware and the tasklets are assumed weakly fair. `dma_test` takes a control C only while
at least `RX_BUFFER_COUNT` transfers remain. One transmit buffer is what the code is shipped
with; three receive buffers are the least with which `buffer_id` wraps while two others are
in flight, and six transfers use each of them twice.

Finding: `dma_test_late_stop`, with the application alone (`SpecTest`), takes the control C
later than that; the receive thread then waits for a transfer it never started.

### DmaProxyDevice

The application runs on a driver that somebody has loaded and that somebody will remove.
`load` is the place of the module, in probe above and in remove below:

    out -> class -> region -> request -> publish -> memory -> (request or) (test ->) bound
    bound -> exit -> release -> (release or) destroy -> free -> out

`request`, `publish` and `memory` are the three things `create_channel` does for one channel,
and `created` counts the channels of the loop. `ProbeFails` is any refusal on the way: the
code returns without undoing anything, and the kernel frees the managed memory. From `failed`
the probe is tried again (`Insmod`: the module is loaded anew, or the probe was deferred), and
`RmmodFailed` unloads the module without calling remove. `kept`, `nodes`, `requested` and
`memory` are what exists; none of the first three goes away before remove. `Test` and
`TestTransmit` are the internal test: probe itself and a queued work, each with one transfer
step by step as in `DmaProxy`. `ReleaseChannel` is `device_terminate_all` and
`dma_release_channel`; `Free` is what the kernel does when remove has returned.

`main` of the application is `none -> open -> running -> none`. `Open` is `open` and `mmap` of
one file, at any moment of a probe too. A program that maps the memory of a channel that has
none yet is `lost`, whatever it does then. `SetupThreads` starts the threads of
`DmaProxyTest`, and `Close` is the end of the process, by way of `main` or of `exit(1)`; it
does not touch the transfers, as `release` does not.

The kernel around the driver is external: a class name exists once (so `class_create` fails as
long as an earlier class is left); the `owner` in `dm_fops` keeps the module while a file is
open; a module that is being removed is not opened; releasing a channel waits for its
callbacks.

Bounds: the application runs once while a driver is loaded, and not on one that was loaded for
its internal test, which leaves descriptors and counters behind that would only add states;
everything else (loading, failing, testing, removing) repeats without bound. Assumed: nobody
removes the driver while the work of the internal test is queued or waiting; remove would
free what it works on. Left out: a device tree node without `dma-names` (probe returns 0 with
the class unset, and remove destroys it), two nodes at once (the second `class_create` finds
the name taken, so that the driver supports one node, whatever the comment at line 54 says),
unbinding through sysfs.

What `FreshStart` shows is worth a remark: nothing in a failed probe is undone, and it is only
the class, created first and left behind, that keeps every later probe, the deferred one
included, from building on leaked channels and nodes. The price is that a probe that failed
once past `class_create` never succeeds again before the system is restarted.

### Si5381

A call of `ProgramSi5381` goes through `driver -> mux` and then, for the identifier, for each
entry of the table and for each entry of the configuration once more, through

    page -> register -> (delay ->) next entry                     writing
    page -> register -> receive -> check -> next entry            reading

`phase` says which of the three it is and `index` which entry. `SetPage` and `KeepPage` are the
two branches of `WriteSi538xRegister`; `LastPage` is its static variable, which outlives the
call. A transfer is done, or is reported as failed, and then the device may have taken it
(`late`) or not (`lost`). After a failed read of the identifier the code goes on to compare
the buffer, which may hold the right bytes. The device has one page register and a file of
registers; `Reset` may hit it at any moment, and `Restart` the processor. The busy flag of the
driver is assumed to clear (lines 79-82 poll it without a limit). The one slave address makes
`LastSlaveAddr` redundant.

Of the table, the preamble and the postamble are literal and the configuration between them is
the parameter `Configuration`; `ConfigurationAssumption` states what was read off the four
headers: 833 entries of pages 0 to 12, each for a register of its own that neither preamble
nor postamble writes, none with the low byte of the page command. (The 7M68 header lacks the
braces of its preamble entries and its last `#endif`; it does not compile as it is. Its
addresses are as in the others.)

`si5381` takes four entries on three pages, one of which is page 0, where the identifier is;
transfers fail, the device and the processor are reset without bound. Every property is about
what the steps of a call may do, and needs no fairness.

`FailureExplained` is the weak point of the cached page, stated exactly. After a page command
that reached the device and was reported as failed, `LastPage` is not what the device has.
The next call reads the identifier from page 0 and so repairs that, unless `LastPage` is 0:
then no page command is sent, the identifier is read from the wrong page, and the call fails,
as does every retry, until the program restarts or the device is reset. `SuccessConfigured`
is the other half: the call cannot wrongly succeed, because the identifier is found on page 0
only.

### ZynqmpIpi

`XPfw_SendIpi` is cut where it touches what it shares with a processor:

    idle -> write -> trigger -> poll -> read -> write (next channel) or idle

`StartRound` is the scheduler calling it every five seconds, with the early return as long
as a channel has not sent its own first message (`IpiHandler`, `Boot`). `PollTimeout` is
the poll giving up after 100 tries, at any moment of the processor's handling. A processor
is `off -> enabled -> wfi`, and from an interrupt `read -> respond -> clear`; the four
programs on the five processors differ in the XMailbox of RPU1, whose failing calls make
the handler return early (`Mailboxes`). The buffers and the bit that the sender sees as
observation and the receiver as status are the external hardware.

`zynqmp_ipi` has two channels, one of them behind XMailbox: channels share nothing but the
order in which they are served. `RespRange` stands for 2^16, so that the last of the four
rounds is beyond what the comparison of line 83 can match; two timeouts and two errors per
channel allow a handler to be overtaken and the next one, too. Weakly fair are the PMU's
scheduler, interrupts and programs; a failure, a timeout or an error never has to occur.

Finding: `zynqmp_ipi_range` (after 65535 rounds only the first channel is sent anything).

### FsblLoader and Ssbl

`pc` is the place in `LoadBootImage`. Until the loop it is `headers` and `rsa`, in the loop
`walk` and `attributes`; then a partition goes through `Stages`, in the order of the code.
`Applies` says for each stage whether the flags make the code do it; `Skip` passes a stage
that does not apply. The flags are those of the C file, global as there: nothing but
`Bitstream`, `Application` and `Attributes` writes them.

Addresses are the ranges that the code compares with (`Loads`, `Execs`) and one place in
memory per partition; place 0 is the temporary area below the DDR start. That partitions
overlap each other is left to whoever builds the image, except for the temporary area. A
content is the partition it comes from, its form (`cipher`, `plain`, or `garbage` when
plain data has been decrypted) and whether it is intact. `Read` may alter what it delivers
when the boot condition says so; a check accepts exactly the intact image in the form in
which it was signed. `FallBack` is the end of a boot: `FsblFallback` does not return.

`Ssbl` goes on where the FSBL, without DDR, hands off to a partition in high OCM: it copies
the data from one pointer and jumps to the other. An unwritten pointer leads to partition 0.

`fsbl` takes every pair of 31 headers (all combinations of attributes, altered images, and
the headers that leave the loop or a partition early), 256 images for execution in place, a
full and an empty table, each under ten boot conditions. Pairs are enough for a flag that
is carried to the next partition; the images for execution in place have up to four
partitions, with a bitstream before or behind the SSBL in half of them. The latter kind is
what `XipRuns` leaves out: the loop ends at the bitstream with a message, and the SSBL starts
with pointers that nobody has written. The loader is sequential, so that weak fairness of its steps is all that
`BootEnds` needs: every boot ends in a hand off or a fallback, and an image for execution in
place ends where its code starts.

Finding: `fsbl_no_ddr` (without DDR, a protected and encrypted application that is moved to
memory is decrypted at its address in the flash, not in memory).

### PlmIpi

The PLM is `idle` or in one run of its periodic task or of a command, which it does not
interrupt; the other processors go on meanwhile:

    idle -> r5write -> r5trigger -> (a72write -> a72trigger ->) poll -> (read ->) idle
    idle -> process -> respond -> acknowledge -> idle

`UserTask` starts the task. `pass` is `ExecutionCount` modulo `Passes` (`MSG_PERIOD_MS /
TASK_PERIOD_MS`): in pass 0 the messages are sent, in the others only the poll is done, and
only while `Waiting`. Every write, trigger or read may fail (`Fails`); the code prints that
and goes on. `FetchCommand`, `Respond` and `Acknowledge` are the dispatcher of the library
around `ProcessCmd`.

The R5 runs `send -> trigger -> blocked -> response -> reset -> spin -> receive` and again
`send`; `isr` is its mailbox interrupt, during which `main` stands still. Between the end
of one exchange and `ResetFlags` an interrupt may come and be forgotten. `R5Stops` is
`main` returning after a failure. The A72 is the sender, `write -> trigger -> spin ->
result`, or the receiver, `ready -> handler -> clear`, depending on the build
(`PLM_2_A72_UNIDIRECT`), and may be killed and started again anywhere.

Each exchange has a request buffer, a response buffer and a bit: `plmReq`, `plmResp` and
`plmIrq` where the PLM begins, `cpuReq`, `cpuResp` and `cpuIrq` where the other one does.
Only the counter of a message is kept of its contents. Assumed: the PLM has sent its first
counter before the R5 is loaded (the images are started after the PLM's modules), so that
the R5's request buffer holds a counter; the response buffer may hold anything.

`plm_ipi`: `Range = 6` stands for 2^32, so that a counter wraps after three trips (a trip
adds two); two passes are one with and one without a message. One failure and one restart.
`MCSetups` runs each exchange of both builds with these faults, and all three processors
together without. Channels share the PLM only, and the proofs cover every combination.

Fairness: strong for `UserTask` and for each command, because both are tasks in the queue of
the PLM, which gets to each of them; strong for the program of the R5, which its interrupts
may hold up again and again but, each being finite, not for ever; weak for what has begun
and for the A72. Failures, restarts and the end of the R5 never have to happen.

Not claimed, because the code does not ensure it: that the PLM ever takes the answer of the
A72 (it polls after triggering again, so the answer can always come between the last poll
of a period and the next trigger), and that counters keep their parity once a response could
not be read.

### Coherency

The APU goes once through `snoop -> configure` and then, for each entry of `Tests`, through

    init -> flushsrc -> flushdst -> dirty -> start -> wait -> readback

`init` and `dirty` are loops over the bytes of the buffers. In all tests but the last,
`StartDma` gives the copy to a DMA engine and `DmaDone` waits for it. In the last one,
`TriggerIpi` asks the RPU, and the poll ends with an answer (`PollForAck`) or without
(`PollTimeout`, at any moment: the number of tries is not a time); the code ignores which.
The RPU starts by itself, `boot -> configure -> enabled -> loop`, while the tests run. Its
handler is `HandlerEnter`, the copy and `HandlerClear`; `ClearExisting` clears what is
pending after interrupts have been enabled, so that it races the handler.

External are the cache, with one line per buffer that may be fetched or evicted at any
moment, and the interconnect: `Needed` lists what the hardware requires of each master on
each board before its accesses snoop the cache (snooping and outer cacheable memory, the
AXI attributes, a secure master, the route through the CCI, the request of the LPD DMA for
coherent accesses, the RPU's own cache off). A master that lacks one of them reads and
writes memory under the cache. What the program sets is in `EnableSnoop`, the
`...Configuration` definitions, `StartDma` and `DisableCache`. A copy is done byte after
byte; the contents of the message, the variant for OCM, `EL1_TESTAPP` and the empty abort
handler are left out.

`coherency` runs both boards with buffers of three bytes, which is enough for a first, a
middle and a last one; memory holds 0 or 170 before. `ImplementsSharedMemory` fails as soon
as one setting of any master is missing. Weakly fair are the APU and the DMA engines; the
RPU need not run at all for `Terminates`, and `CopyArrives` takes its fairness as an
assumption. Two things it shows are of the code: `ReadbackGenuine` has to allow 0xFF
when the poll has timed out or the RPU has cleared the request, since nothing tells these
from a copy that was made; and after a timeout the copy arrives when `main` has returned.

## What is proved

Every safety and action property that a passing run checks is also a theorem. The theorems
hold for every value of the constants; some of those about the DMA proxy have a hypothesis
about them that is part of the statement. `Exclusive` says that no two threads have the same device file
open, as in the test application; `AsShipped` is explained with the theorems that need it. The
five findings have counterparts here: what holds in spite of them, and exactly how far.

| finding | the run refutes | what holds instead |
|---|---|---|
| `dma_proxy_refused` | an XFER without error is done | `XferCompletes`: it is, unless the engine refused that very transfer |
| `dma_proxy_shared` | an XFER waits for the buffer it started | `XferSameBuffer`: it does when nobody else has the device open |
| `dma_test_late_stop` | control C leaves nothing behind | `Graceful`: it does when at least `RX_BUFFER_COUNT` transfers remain |
| `zynqmp_ipi_range` | every channel is sent to | `EachServed`: it is, until the counter leaves 16 bits |
| `fsbl_no_ddr` | what is moved to memory is in the clear | `DecryptionLimit`: it is, unless it is encrypted and protected, and then never |

* `TypeCorrect`: `Spec => []TypeOK`.
* `Quiescence`: `Exclusive => (Spec => []NoErrorQuiescent)`. The invariant that makes it
  inductive is `CookieInv /\ QuiescentStatus`: every descriptor in flight has a cookie
  above the last one completed and not above the one recorded for its buffer. So when the
  recorded cookie is complete, nothing is in flight for the buffer. The argument does not
  use the completion at all: it is the cookie check after the wait that makes
  `PROXY_NO_ERROR` safe. `Exclusive` is needed so that nobody submits between the check
  and the report (`Isolation`).
* `CompletionKept`: `Exclusive => (Spec => []NoLostCompletion)`, with `StartForgets`
  (between `init_completion` and `dmaengine_submit` no earlier transfer is claimed).
* `Refinement`: `Exclusive => (Spec => ImplementsService)`, from `Quiescence` and
  `WaitingIsBusy`; submission maps to `Accept` or `Refuse`, the completion of the last
  descriptor of a buffer to `Release`, the report to `Answer`, the rest to stuttering.
* `XferCompletes`: `Exclusive => (Spec => []XferComplete)`. `XferPlace` follows an XFER through
  its places: the buffer it has started is the one it waits for; once submitted, that buffer is
  owed a completion, and after the sleep, unless the timer ended it, this XFER has taken it; the
  cookie that `Check` has found complete is one the engine has handed out (`Recorded`) and
  completed. Where the engine refused the transfer none of this is claimed, and
  `dma_proxy_refused` shows why.
* `XferSameBuffer`: `Exclusive => (Spec => XferOneBuffer)`, an action property: `bdindex` is read
  a second time before the wait, and finds what the first reading found.

* `ZynqmpIpiProofs!TypeCorrect`, from `TypeInv`, which adds that the PMU is beyond `idle`
  only with `cnt` in its bound.
* `Genuine`: `Spec => []ReceivedGenuine`. `ControlInv` ties each channel's interrupt bit and
  the place of its handler to the PMU's place: a handler runs only while the bit is set,
  the bits of the channels already served in this round are clear, and the buffer polled
  for holds `cnt`. `AgeInv` says that whatever a channel holds that does not come from a
  reading of this round's message is older than `cnt`; so it cannot pass the comparison.
* `Rejects`: `Spec => []RejectsBounded`. `DebtInv`: wherever a response could come from that
  is not the current one (an interrupt pending outside the poll, a handler that has read an
  earlier message, an acknowledgement without response), a timeout or an error of the
  channel has not been used up by a rejection yet.
* `EachServed`: `Spec => [](cnt <= RespRange => EachChannelSent /\ EachChannelReceived)`. `RoundInv`
  says how far `XPfw_SendIpi` is in its round and what the channels before that place have sent
  and received; a response is accepted, and the loop goes on, because by `DebtInv` nothing but
  a timeout or an error could have put another one there. Beyond `RespRange` the comparison
  with 16 bits fails, and so does the round (`zynqmp_ipi_range`).
* `FsblLoaderProofs`: `TypeCorrect`, `InClearAlways`, `Intact`, `GoodAccepted`, `Handoff`
  and `Bounce`, for every table, build and boot condition. The invariant `IInv` follows a
  partition through its stages: `FlagInv` (past `attributes` the flags are those of the
  current header, whatever was there before), `MoveInv` (after the move, what lies at
  `Place` is the partition, encrypted exactly if it is protected and still to be
  decrypted), `CheckedInv` (past its check it is intact), then, for the partitions behind
  the loop, `LoadedInv`, `FabricInv`, `ExecInv`, `ApplicationInv`, and `StatusInv` for the
  reason of a fallback. `FlagInv` is why one set of global flags suffices.
  `Xip`: `BootSpec => []XipRuns`. `LoopInv` says that the loop is inside the table and knows of
  an application only when it has met one, `PointerInv` that the two pointers are those of the
  text and the data as soon as these have been seen and that such a boot does not leave the
  loop before its end, `FlashInv` that what is protected was found intact in the flash, and
  `SsblInv` that the SSBL uses the pointers as the loader left them.
  `DecryptionLimit` and `MovedUnlessBoth` are about the build without DDR, of which `MoveInv` says
  nothing: `RamInv` adds that from the move on an application that runs from memory is there in
  its final form, `Stored`, because the decryption after the checks works on the flash. That form
  is encrypted exactly if the header asks for both encryption and a check.

* `PlmIpiProofs`: `TypeCorrect`, `R5Forward` (`R5TripForward`), `A72Forward`
  (`A72TripForward`), `Genuine` (`AnswerGenuine`) and `StaleFew` (`StaleBounded`), for every
  word size, period, number of failures and of restarts. The core is `Near` and `Recent`:
  the buffer is at most one trip behind the PLM's counter, and whatever a receiver holds was
  in the buffer and the counter has not moved on by more than the trip it causes.
  `R5Inv` carries this through the places where the R5 keeps the counter (its request, the
  command buffer, the PLM's payload), `ReceiverInv` through the handler and the response
  buffer; `AnswerInv` is the sharper statement while nothing has failed; `SenderInv` says
  that a sender either has a stale response left over or spins for its own (`Leading`).
  `ModeInv` separates the two builds.

* `CoherencyProofs`: `TypeCorrect`, `Readback` (`ReadbackGenuine`) and `Refinement`
  (`ImplementsSharedMemory`), for both boards and buffers of every size. `IInv` is the type
  invariant with `SettingsInv` (at each place of the APU, what has been set; and what runs
  while a copy does), `CacheInv` (a clean line holds what is in memory) and `BufferInv` (how
  far, at each place, the buffers that the APU sees hold the pattern, zeros or 0xFF).
  `Snoops` follows: whoever copies is coherent. So `ViewStep`: fetches, evictions and
  flushes leave what is seen alone, and a store changes one byte of it for everybody. A
  loop's iteration and a store of the copy map to `Store`, a load of the copy and
  the read-back to `Load`, all else to `Continue`.

* `DmaProxyDeviceProofs`: `Memory` (`MemoryLive`) and `Fresh` (`FreshStart`), for every number
  of buffers and transfers, every speed of the stream and of the timers, and a control C at
  any moment. `LoadInv` says, place by place, what probe has built and remove has taken down,
  and that without a class there is nothing; `EngineInv` that the engine has work only between
  the end of a probe and the release of the channel; `MainInv` that an application that has
  got as far as its last file runs on a bound driver; `ThreadInv` that a thread inside an
  ioctl keeps the driver bound. `Effect` is all that these invariants need to know of a step of
  the driver, of the application or of the hardware (`RunningEffect`), so that the proof does
  not depend on what the ioctls compute.

* `DmaProxyTestProofs`: `TypeCorrectDevice` (`TypeOKDevice`), `Graceful` (`GracefulShutdown`),
  `VerifyOrder` (`VerifyInOrder`) and `NoWrite` (`NoWriteInFlight`), of
  the application on a driver that is loaded, tested and removed (`SpecDevice`), for every number
  of buffers, receive buffers and transfers and every depth of the stream. All of them are
  proved from one inductive invariant, `TestInv` (theorem `TestInvariance`), which for each thread
  and its channel consists of
  - `PlaceInv`: where an ioctl can be while the thread is at a place of its loop;
  - `QueueInv`, `ArmedInv`: the engine has a descriptor for every transfer that has begun and is
    not complete, and for nothing else, and a buffer that is owed a completion has it already or
    its descriptor is with the engine;
  - `LaunchInv`, `OutstandingInv`, `RestInv`: the buffers as a circular list from the one to be
    finished next. The k-th of them carries the k-th transfer that is not finished, the one
    being started is the first that carries none, and the others are owed nothing;
  - `WaitInv`: a wait ends without error exactly if it has taken the completion;
  - `CountInv`: a thread keeps all its buffers in progress until as many transfers as are wanted
    have begun, and never begins more;

  and, over both threads, of `PatternInv` (a transfer carries its number, less one, on its way
  from the transmit buffer through the stream to the receive buffer, in order) and `StopInv` (a
  control C that `tx_thread` has not seen yet came early enough), and, when no application runs,
  of `UnusedInv` (what an application finds when it starts, the internal test of probe included).

  `AsShipped` is what the proof needs to know of the configuration. One transmit buffer and
  an increment of one are what `dma-proxy.h` defines (lines 29 and 31). With two transmit
  buffers TLC finds `GracefulShutdown` violated: at a control C `tx_thread` counts from the
  transfers it has finished, while the engine is done with one more of its buffers already and
  `rx_thread` has begun a receive transfer beyond the new `num_transfers`, which is left in
  flight. An engine that refuses nothing: a refusal ends
  in `dma_proxy_refused`. A control C in time: else `dma_test_late_stop`. And transmit
  transfers that do not outlast their timer: else the code refills a buffer that is in
  flight, and only prints the error. Receive transfers may be slow.

* `Si5381Proofs`: `TypeCorrect`, `Configured` (`SuccessConfigured`), `Explained`
  (`FailureExplained`) and `Refinement` (`ImplementsProgram`), for every configuration. `PageInv`
  relates `LastPage` to the page of the device: they are equal while registers are written,
  unless the device was reset in this call; before the identifier is read they may differ, and
  `ReadInv` says that the right bytes were read on page 0. `StoreInv` is the part of the table
  that the device holds. An entry is written to `Addressed(Low(Target))`, which is its own
  address exactly because of `PageInv`.

Only model-checked is liveness: `IoctlReturns`, the two properties called `Terminates`,
`RoundsProceed`, `BootEnds`, `R5TripGoesOn`, `SenderReleased` and `CopyArrives`. Fairness and
ENABLED are out of the prover's reach.

## Plan

All modules of the plan are written: `DmaProxy`, `TransferService`, `DmaProxyTest`,
`ZynqmpIpi`, `FsblLoader`, `Ssbl`, `PlmIpi`, `Coherency`, `Si5381` and `DmaProxyDevice`. Of the
properties that the runs check, those of safety are proved. Still worth doing: an abstract
specification of a loopback application that `DmaProxyTest` implements, on top of
`DmaProxyTestProofs`, and one of the boot sequence for `FsblLoader`.

## Not modelled

* The OP-TEE and U-Boot patches. They are differences to other projects, whose sources are not
  here: the configuration of a platform, a device tree, and a trusted application with one
  command that is called in sequence.
* Tcl block designs, boot scripts and prebuilt images, which have no behaviour in this
  repository. The register tables of the Si5381 are data; of them the model takes what
  `ConfigurationAssumption` states.
* Within the parts modelled: printing, argument parsing and measuring of time; the cases named
  as left out in the sections above.
