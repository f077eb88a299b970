----------------------------- MODULE Coherency ------------------------------
(***************************************************************************)
(* The coherency tests of Versal and ZynqMP (versal-cache-coherency,       *)
(* zynqmp-cache-coherency).  The APU runs one test after the other: it     *)
(* fills two buffers and flushes them, makes the destination dirty in its  *)
(* cache again, has a master copy the source to the destination, and reads *)
(* the destination back.  The masters are DMA engines, which the APU waits *)
(* for, and in the last test the RPU, which copies in the handler of an    *)
(* IPI, and for which the APU polls a limited time only.                   *)
(*                                                                         *)
(* What the APU's cache and the interconnect do is external.  A cache line *)
(* holds a buffer.  Lines are fetched and evicted at any moment.  Accesses *)
(* of a master snoop the cache only if all that the hardware needs for it  *)
(* has been set; otherwise they go to memory.  A copy is done byte after   *)
(* byte.                                                                   *)
(***************************************************************************)
EXTENDS Integers, Sequences

CONSTANTS
  Boards,      \* of "versal" and "zynqmp"
  ByteCount,   \* BUFFER_BYTESIZE
  Residue      \* what the memory may hold before the program starts

ASSUME BoardsAssumption == Boards \subseteq {"versal", "zynqmp"}
ASSUME BytesAssumption == ByteCount \in Nat \ {0} /\ Residue \subseteq 0 .. 255

Buffers == {"src", "dst"}
Bytes == 0 .. ByteCount - 1
Values == 0 .. 255

VARIABLES
  board,      \* which board this is
  apu,        \* where main of the APU is
  test,       \* the test it is at
  index,      \* Index of its loops
  readback,   \* what it has read back last
  settings,   \* what has been set, of which master
  memory,     \* the contents of the buffers in memory ...
  cache,      \*   ... and of the APU's cache lines for them
  copier,     \* where the copy that the test is about is
  position,   \* the byte it is at
  beat,       \* the value it carries
  irq,        \* the IPI: triggered by the APU, cleared by the RPU
  rpu,        \* where main of the RPU is
  lost        \* the RPU has cleared the IPI without having served it

settingVars == <<board, settings>>
apuVars == <<apu, test, index, readback>>
dataVars == <<memory, cache>>
copyVars == <<copier, position, beat>>
rpuVars == <<irq, rpu, lost>>
vars == <<settingVars, apuVars, dataVars, copyVars, rpuVars>>

T(m, p) == [master |-> m, pattern |-> p]

Tests ==
  IF board = "versal"
  THEN <<T("fpd", 54), T("lpd", 55), T("cci0", 56), T("cci1", 57), T("adma", 165), T("rpu", 90)>>
  ELSE <<T("fpd", 54), T("lpd", 55), T("adma", 165), T("rpu", 90)>>

Master == Tests[test].master
Pattern == Tests[test].pattern
DirtyPattern == 255

----------------------------------------------------------------------------
(***************************************************************************)
(* What each master needs on either board to snoop the cache.              *)
(***************************************************************************)
Of(m, names) == {<<m, n>> : n \in names}

Named(names, condition) == IF condition THEN names ELSE {}

Needed(m) ==
  Of("apu", {"snoop", "outer"}) \union
  Of(m, Named({"attributes"}, m # "rpu")
        \union Named({"secure"}, m = "adma" \/ (board = "versal" /\ m \in {"fpd", "lpd"}))
        \union Named({"routed"}, m = "rpu" \/ (board = "versal" /\ m \in {"lpd", "adma"}))
        \union Named({"coherent"}, m = "adma")
        \union Named({"uncached"}, m = "rpu"))

Coherent(m) == Needed(m) \subseteq settings

OnVersal(names) == Named(names, board = "versal")

FpdCdmaConfiguration == Of("fpd", {"attributes"} \union OnVersal({"secure"}))
LpdCdmaConfiguration == Of("lpd", {"attributes"} \union OnVersal({"secure", "routed"}))
CciCdmaConfiguration ==
  Of("cci0", OnVersal({"attributes"})) \union Of("cci1", OnVersal({"attributes"}))

\* Mistake: the LPD DMA is not routed through the CCI.
LpdDmaUnrouted == Of("adma", {"attributes", "secure"})

LpdDmaConfiguration == Of("adma", {"attributes", "secure"} \union OnVersal({"routed"}))
RpuConfiguration == Of("rpu", {"routed"})

----------------------------------------------------------------------------
(***************************************************************************)
(* The cache and the accesses to the buffers.                              *)
(***************************************************************************)
NoLine == [state |-> "none", data |-> [i \in Bytes |-> 0]]
Line(s, d) == [state |-> s, data |-> d]
Cached(b) == cache[b].state # "none"

\* What the APU sees.
View(b) == IF Cached(b) THEN cache[b].data ELSE memory[b]

WriteBack(b) ==
  /\ memory' = IF cache[b].state = "dirty" THEN [memory EXCEPT ![b] = cache[b].data] ELSE memory
  /\ cache' = [cache EXCEPT ![b] = NoLine]

Fetched(b) == IF Cached(b) THEN cache ELSE [cache EXCEPT ![b] = Line("clean", memory[b])]

Written(b, i, v) == Line("dirty", [View(b) EXCEPT ![i] = v])

LoadBy(m, b) == IF Coherent(m) THEN View(b) ELSE memory[b]

StoreBy(m, b, i, v) ==
  /\ memory' = [memory EXCEPT ![b] = [LoadBy(m, b) EXCEPT ![i] = v]]
  /\ cache' = IF Coherent(m) THEN [cache EXCEPT ![b] = NoLine] ELSE cache

Fetch(b) ==
  /\ ~Cached(b) /\ cache' = Fetched(b)
  /\ UNCHANGED <<settingVars, apuVars, memory, copyVars, rpuVars>>

Evict(b) ==
  /\ Cached(b) /\ WriteBack(b)
  /\ UNCHANGED <<settingVars, apuVars, copyVars, rpuVars>>

Init ==
  /\ board \in Boards
  /\ apu = "snoop" /\ test = 1 /\ index = 0 /\ readback = 0
  /\ settings = {}
  /\ memory \in [Buffers -> [Bytes -> Residue]]
  /\ cache = [b \in Buffers |-> NoLine]
  /\ copier = "idle" /\ position = 0 /\ beat = 0
  /\ irq = 0 /\ rpu = "boot" /\ lost = FALSE

----------------------------------------------------------------------------
(***************************************************************************)
(* The APU.                                                                *)
(***************************************************************************)
EnableSnoop ==
  /\ apu = "snoop" /\ apu' = "configure"
  /\ settings' = settings \union Of("apu", {"snoop", "outer"})
  /\ UNCHANGED <<board, test, index, readback, dataVars, copyVars, rpuVars>>

Configure ==
  /\ apu = "configure" /\ apu' = "init"
  /\ settings' = settings \union FpdCdmaConfiguration \union LpdCdmaConfiguration
       \union CciCdmaConfiguration \union LpdDmaConfiguration \union RpuConfiguration
  /\ UNCHANGED <<board, test, index, readback, dataVars, copyVars, rpuVars>>

\* Mistake: one byte too far.
LoopOnTooFar(place) ==
  IF index < ByteCount THEN apu' = apu /\ index' = index + 1 ELSE apu' = place /\ index' = 0

\* The loop goes on to the next byte or is left.
LoopOn(place) ==
  IF index + 1 < ByteCount THEN apu' = apu /\ index' = index + 1 ELSE apu' = place /\ index' = 0

\* initBuffers.
InitByte ==
  /\ apu = "init" /\ LoopOn("flushsrc")
  /\ cache' = [cache EXCEPT !["src"] = Written("src", index, Pattern),
                            !["dst"] = Written("dst", index, 0)]
  /\ UNCHANGED <<settingVars, test, readback, memory, copyVars, rpuVars>>

FlushSource ==
  /\ apu = "flushsrc" /\ apu' = "flushdst"
  /\ WriteBack("src")
  /\ UNCHANGED <<settingVars, test, index, readback, copyVars, rpuVars>>

FlushDestination ==
  /\ apu = "flushdst" /\ apu' = "dirty"
  /\ WriteBack("dst")
  /\ UNCHANGED <<settingVars, test, index, readback, copyVars, rpuVars>>

WriteCache ==
  /\ apu = "dirty" /\ LoopOn("start")
  /\ cache' = [cache EXCEPT !["dst"] = Written("dst", index, DirtyPattern)]
  /\ UNCHANGED <<settingVars, test, readback, memory, copyVars, rpuVars>>

\* The transfer of the LPD DMA asks for coherent accesses itself.
StartDma ==
  /\ apu = "start" /\ Master # "rpu" /\ apu' = "wait"
  /\ settings' = settings \union Of("adma", Named({"coherent"}, Master = "adma"))
  /\ copier' = "load" /\ position' = 0
  /\ UNCHANGED <<board, test, index, readback, dataVars, beat, rpuVars>>

TriggerIpi ==
  /\ apu = "start" /\ Master = "rpu" /\ apu' = "wait"
  /\ irq' = 1
  /\ UNCHANGED <<settingVars, test, index, readback, dataVars, copyVars, rpu, lost>>

ApuWaits == UNCHANGED <<settingVars, test, index, readback, dataVars, copyVars, rpuVars>>

DmaDone ==
  /\ apu = "wait" /\ Master # "rpu" /\ apu' = "readback"
  /\ copier = "idle"
  /\ ApuWaits

PollForAck ==
  /\ apu = "wait" /\ Master = "rpu" /\ apu' = "readback"
  /\ irq = 0
  /\ ApuWaits

\* Mistake: there is no end to the poll.
PollForever == FALSE /\ ApuWaits

PollTimeout ==
  /\ apu = "wait" /\ Master = "rpu" /\ apu' = "readback"
  /\ irq = 1
  /\ ApuWaits

ReadBack ==
  /\ apu = "readback"
  /\ readback' = View("dst")[0]
  /\ cache' = Fetched("dst")
  /\ \/ test < Len(Tests) /\ test' = test + 1 /\ apu' = "init"
     \/ test = Len(Tests) /\ apu' = "done" /\ UNCHANGED test
  /\ UNCHANGED <<settingVars, index, memory, copyVars, rpuVars>>

----------------------------------------------------------------------------
(***************************************************************************)
(* The copy, by a DMA engine or by the loop in the RPU's handler.          *)
(***************************************************************************)
CopyLoad ==
  /\ copier = "load" /\ copier' = "store"
  /\ beat' = LoadBy(Master, "src")[position]
  /\ UNCHANGED <<settingVars, apuVars, dataVars, position, rpuVars>>

CopyStore ==
  /\ copier = "store"
  /\ StoreBy(Master, "dst", position, beat)
  /\ position' = position + 1
  /\ copier' = IF position + 1 < ByteCount THEN "load"
               ELSE IF Master = "rpu" THEN "clear" ELSE "idle"
  /\ UNCHANGED <<settingVars, apuVars, beat, rpuVars>>

(***************************************************************************)
(* The RPU.  Its start-up races the tests; the handler interrupts it.      *)
(***************************************************************************)
InHandler == Master = "rpu" /\ copier # "idle"

DisableCache ==
  /\ rpu = "boot" /\ rpu' = "configure"
  /\ settings' = settings \union Of("rpu", {"uncached"})
  /\ UNCHANGED <<board, apuVars, dataVars, copyVars, irq, lost>>

EnableIpi ==
  /\ rpu = "configure" /\ rpu' = "enabled"
  /\ UNCHANGED <<settingVars, apuVars, dataVars, copyVars, irq, lost>>

\* What is pending is dropped, and the APU takes that for an answer.
ClearExisting ==
  /\ rpu = "enabled" /\ ~InHandler /\ rpu' = "loop"
  /\ lost' = (lost \/ irq = 1)
  /\ irq' = 0
  /\ UNCHANGED <<settingVars, apuVars, dataVars, copyVars>>

\* Mistake: the handler clears the IPI first.
HandlerEnterAndClear ==
  /\ rpu \in {"enabled", "loop"} /\ ~InHandler /\ irq = 1
  /\ copier' = "load" /\ position' = 0
  /\ irq' = 0
  /\ UNCHANGED <<settingVars, apuVars, dataVars, beat, rpu, lost>>

HandlerEnter ==
  /\ rpu \in {"enabled", "loop"} /\ ~InHandler /\ irq = 1
  /\ copier' = "load" /\ position' = 0
  /\ UNCHANGED <<settingVars, apuVars, dataVars, beat, rpuVars>>

\* Mistake: the handler forgets to clear it.
HandlerReturnOnly ==
  /\ copier = "clear" /\ copier' = "idle"
  /\ UNCHANGED <<settingVars, apuVars, dataVars, position, beat, rpuVars>>

HandlerClear ==
  /\ copier = "clear" /\ copier' = "idle"
  /\ irq' = 0
  /\ UNCHANGED <<settingVars, apuVars, dataVars, position, beat, rpu, lost>>

----------------------------------------------------------------------------
Apu ==
  \/ EnableSnoop \/ Configure \/ InitByte \/ FlushSource \/ FlushDestination \/ WriteCache
  \/ StartDma \/ TriggerIpi \/ DmaDone \/ PollForAck \/ PollTimeout \/ ReadBack
Copy == CopyLoad \/ CopyStore
RpuMain == DisableCache \/ EnableIpi \/ ClearExisting
Handler == HandlerEnter \/ HandlerClear

Next == Apu \/ Copy \/ RpuMain \/ Handler \/ (\E b \in Buffers : Fetch(b) \/ Evict(b))

Spec == Init /\ [][Next]_vars

\* The DMA engines do what they have been told; the RPU need not even run.
Dma == Master # "rpu" /\ Copy
Rpu == RpuMain \/ Handler \/ (Master = "rpu" /\ Copy)
FairSpec == Spec /\ WF_vars(Apu) /\ WF_vars(Dma)

----------------------------------------------------------------------------
(***************************************************************************)
(* The type invariant; loops and copies stay in the buffers.               *)
(***************************************************************************)
TypeOK ==
  /\ board \in Boards
  /\ apu \in {"snoop", "configure", "init", "flushsrc", "flushdst", "dirty", "start", "wait",
              "readback", "done"}
  /\ test \in 1 .. Len(Tests) /\ index \in Bytes /\ readback \in Values
  /\ settings \subseteq {"apu", "fpd", "lpd", "cci0", "cci1", "adma", "rpu"} \X
       {"snoop", "outer", "attributes", "secure", "routed", "coherent", "uncached"}
  /\ memory \in [Buffers -> [Bytes -> Values]]
  /\ cache \in [Buffers -> [state : {"none", "clean", "dirty"}, data : [Bytes -> Values]]]
  /\ copier \in {"idle", "load", "store", "clear"}
  /\ position \in 0 .. ByteCount /\ beat \in Values
  /\ copier \in {"load", "store"} => position \in Bytes
  /\ irq \in {0, 1} /\ rpu \in {"boot", "configure", "enabled", "loop"} /\ lost \in BOOLEAN

(***************************************************************************)
(* The masters see one memory: although the destination is dirty in the    *)
(* cache when the copy begins, and lines come and go at any moment, each   *)
(* byte that is stored replaces the one before for everybody, and none     *)
(* comes back (main_a72.c lines 178-294, main_a53.c lines 123-205).        *)
(***************************************************************************)
Intent ==
  LET Store(b, i, v) == [buffer |-> b, byte |-> i, value |-> v]
  IN  IF apu = "init" THEN {Store("src", index, Pattern), Store("dst", index, 0)}
      ELSE IF apu = "dirty" THEN {Store("dst", index, DirtyPattern)}
      ELSE IF copier = "store" THEN {Store("dst", position, beat)}
      ELSE {}

Shared == INSTANCE SharedMemory WITH
  Readers <- {"apu", "copier"},
  memory <- [b \in Buffers |-> View(b)],
  intent <- Intent,
  latch <- [r \in {"apu", "copier"} |-> IF r = "apu" THEN readback ELSE beat]

ImplementsSharedMemory == Shared!Spec

(***************************************************************************)
(* What a test reads back is the pattern of that test, except when the RPU *)
(* is late, or has dropped the request while it was starting up; and even  *)
(* then it is what the APU has written last, never the 0 that is under it  *)
(* in memory (main_a72.c lines 202-206, 288-294).                          *)
(***************************************************************************)
Answered == Master # "rpu" \/ (irq = 0 /\ ~lost)

ReadbackGenuine ==
  [][apu = "readback" /\ apu' # "readback" =>
       readback' \in {Pattern} \union (IF Answered THEN {} ELSE {DirtyPattern})]_vars

(***************************************************************************)
(* All tests come to an end, even if the RPU does not run.                 *)
(***************************************************************************)
Terminates == <>(apu = "done")

(***************************************************************************)
(* If it does, its copy arrives, however long after the poll was given up, *)
(* and stays, unless the request was dropped; and the IPI is cleared.      *)
(***************************************************************************)
CopyArrives ==
  WF_vars(Rpu) => <>[](irq = 0 /\ (lost \/ \A i \in Bytes : View("dst")[i] = Pattern))
=============================================================================
