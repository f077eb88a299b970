-------------------------- MODULE CoherencyProofs ---------------------------
(***************************************************************************)
(* Proofs about Coherency, for buffers of every size and both boards.      *)
(***************************************************************************)
EXTENDS Coherency, TLAPS

Masters == {"fpd", "lpd", "cci0", "cci1", "adma", "rpu"}

(***************************************************************************)
(* The tests: the RPU's is the last.                                       *)
(***************************************************************************)
LEMMA TestsOK ==
  board \in Boards =>
    /\ Len(Tests) \in Nat \ {0}
    /\ \A t \in 1 .. Len(Tests) :
         /\ Tests[t].master \in Masters /\ Tests[t].pattern \in Values
         /\ Tests[t].master = "rpu" <=> t = Len(Tests)
<1> SUFFICES ASSUME board \in Boards
             PROVE  /\ Len(Tests) \in Nat \ {0}
                    /\ \A t \in 1 .. Len(Tests) :
                         /\ Tests[t].master \in Masters /\ Tests[t].pattern \in Values
                         /\ Tests[t].master = "rpu" <=> t = Len(Tests)
  OBVIOUS
<1>1. CASE board = "versal"
  <2>1. Len(Tests) = 6
    BY <1>1 DEF Tests
  <2>2. /\ Tests[1] = T("fpd", 54) /\ Tests[2] = T("lpd", 55) /\ Tests[3] = T("cci0", 56)
        /\ Tests[4] = T("cci1", 57) /\ Tests[5] = T("adma", 165) /\ Tests[6] = T("rpu", 90)
    BY <1>1 DEF Tests
  <2>3. \A t \in 1 .. 6 : t = 1 \/ t = 2 \/ t = 3 \/ t = 4 \/ t = 5 \/ t = 6
    OBVIOUS
  <2> QED BY <2>1, <2>2, <2>3 DEF T, Masters, Values
<1>2. CASE board = "zynqmp"
  <2>1. Len(Tests) = 4
    BY <1>2 DEF Tests
  <2>2. /\ Tests[1] = T("fpd", 54) /\ Tests[2] = T("lpd", 55)
        /\ Tests[3] = T("adma", 165) /\ Tests[4] = T("rpu", 90)
    BY <1>2 DEF Tests
  <2>3. \A t \in 1 .. 4 : t = 1 \/ t = 2 \/ t = 3 \/ t = 4
    OBVIOUS
  <2> QED BY <2>1, <2>2, <2>3 DEF T, Masters, Values
<1> QED BY <1>1, <1>2, BoardsAssumption

LEMMA TestOK ==
  TypeOK => /\ Master \in Masters /\ Pattern \in Values
            /\ Master = "rpu" <=> test = Len(Tests)
            /\ Len(Tests) \in Nat \ {0}
  BY TestsOK DEF TypeOK, Master, Pattern

(***************************************************************************)
(* While the test does not change, what it is about does not.              *)
(***************************************************************************)
LEMMA SameTest ==
  board' = board /\ test' = test => Tests' = Tests /\ Master' = Master /\ Pattern' = Pattern
  BY DEF Tests, Master, Pattern

----------------------------------------------------------------------------
(***************************************************************************)
(* The cache: types of the contents, and of what the accesses make of it.  *)
(***************************************************************************)
DataOK ==
  /\ memory \in [Buffers -> [Bytes -> Values]]
  /\ cache \in [Buffers -> [state : {"none", "clean", "dirty"}, data : [Bytes -> Values]]]

LEMMA NoLineOK == NoLine \in [state : {"none", "clean", "dirty"}, data : [Bytes -> Values]]
  BY DEF NoLine, Values

LEMMA ViewOK == ASSUME DataOK, NEW b \in Buffers PROVE View(b) \in [Bytes -> Values]
  BY DEF DataOK, View

LEMMA ViewsOK ==
  DataOK => \A b \in Buffers : View(b) \in [Bytes -> Values]
  BY ViewOK

LEMMA LineOK ==
  ASSUME NEW s \in {"none", "clean", "dirty"}, NEW d \in [Bytes -> Values]
  PROVE  Line(s, d) \in [state : {"none", "clean", "dirty"}, data : [Bytes -> Values]]
  BY DEF Line

LEMMA WrittenOK ==
  ASSUME DataOK, NEW b \in Buffers, NEW i \in Bytes, NEW v \in Values
  PROVE  Written(b, i, v) \in [state : {"none", "clean", "dirty"}, data : [Bytes -> Values]]
<1>1. [View(b) EXCEPT ![i] = v] \in [Bytes -> Values]
  BY ViewOK
<1> QED BY <1>1, LineOK DEF Written

(***************************************************************************)
(* A clean line holds what is in memory.                                   *)
(***************************************************************************)
CacheInv == \A b \in Buffers : cache[b].state = "clean" => cache[b].data = memory[b]

SameView == \A b \in Buffers : View(b)' = View(b)

\* The one byte that is changed in what the APU sees.
Changed(b, i, v) ==
  \A c \in Buffers : View(c)' = IF c = b THEN [View(b) EXCEPT ![i] = v] ELSE View(c)

LEMMA WriteBackKeeps ==
  ASSUME DataOK, CacheInv, NEW b \in Buffers, WriteBack(b)
  PROVE  DataOK' /\ CacheInv' /\ SameView
<1> USE NoLineOK
<1>1. CASE cache[b].state = "dirty"
  <2>1. memory' = [memory EXCEPT ![b] = cache[b].data] /\ cache' = [cache EXCEPT ![b] = NoLine]
    BY <1>1 DEF WriteBack
  <2>2. DataOK'
    BY <2>1 DEF DataOK
  <2>3. \A c \in Buffers : memory'[c] = (IF c = b THEN cache[b].data ELSE memory[c])
                        /\ cache'[c] = (IF c = b THEN NoLine ELSE cache[c])
    BY <2>1 DEF DataOK
  <2> QED BY <1>1, <2>2, <2>3 DEF CacheInv, SameView, View, Cached, NoLine
<1>2. CASE cache[b].state # "dirty"
  <2>1. memory' = memory /\ cache' = [cache EXCEPT ![b] = NoLine]
    BY <1>2 DEF WriteBack
  <2>2. DataOK'
    BY <2>1 DEF DataOK
  <2>3. \A c \in Buffers : cache'[c] = (IF c = b THEN NoLine ELSE cache[c])
    BY <2>1 DEF DataOK
  <2>4. cache[b].state \in {"none", "clean"}
    BY <1>2 DEF DataOK
  <2> QED BY <2>1, <2>2, <2>3, <2>4 DEF CacheInv, SameView, View, Cached, NoLine
<1> QED BY <1>1, <1>2

LEMMA FetchedKeeps ==
  ASSUME DataOK, CacheInv, NEW b \in Buffers, cache' = Fetched(b), memory' = memory
  PROVE  DataOK' /\ CacheInv' /\ SameView
<1>1. CASE Cached(b)
  BY <1>1 DEF Fetched, DataOK, CacheInv, SameView, View, Cached
<1>2. CASE ~Cached(b)
  <2>1. cache' = [cache EXCEPT ![b] = Line("clean", memory[b])]
    BY <1>2 DEF Fetched
  <2>2. Line("clean", memory[b]) \in [state : {"none", "clean", "dirty"}, data : [Bytes -> Values]]
    BY LineOK DEF DataOK
  <2>3. DataOK'
    BY <2>1, <2>2 DEF DataOK
  <2>4. \A c \in Buffers : cache'[c] = (IF c = b THEN Line("clean", memory[b]) ELSE cache[c])
    BY <2>1 DEF DataOK
  <2> QED BY <1>2, <2>3, <2>4 DEF CacheInv, SameView, View, Cached, Line
<1> QED BY <1>1, <1>2

LEMMA WrittenChanges ==
  ASSUME DataOK, CacheInv, NEW b \in Buffers, NEW i \in Bytes, NEW v \in Values,
         cache' = [cache EXCEPT ![b] = Written(b, i, v)], memory' = memory
  PROVE  DataOK' /\ CacheInv' /\ Changed(b, i, v)
<1>1. DataOK'
  BY WrittenOK DEF DataOK
<1>2. \A c \in Buffers : cache'[c] = (IF c = b THEN Written(b, i, v) ELSE cache[c])
  BY DEF DataOK
<1> QED BY <1>1, <1>2 DEF CacheInv, Changed, View, Cached, Written, Line

LEMMA StoreChanges ==
  ASSUME DataOK, CacheInv, NEW m, Coherent(m), NEW b \in Buffers, NEW i \in Bytes,
         NEW v \in Values, StoreBy(m, b, i, v)
  PROVE  DataOK' /\ CacheInv' /\ Changed(b, i, v)
<1>1. /\ memory' = [memory EXCEPT ![b] = [View(b) EXCEPT ![i] = v]]
      /\ cache' = [cache EXCEPT ![b] = NoLine]
  BY DEF StoreBy, LoadBy
<1>2. [View(b) EXCEPT ![i] = v] \in [Bytes -> Values]
  BY ViewOK
<1>3. DataOK'
  BY <1>1, <1>2, NoLineOK DEF DataOK
<1>4. \A c \in Buffers :
        /\ memory'[c] = (IF c = b THEN [View(b) EXCEPT ![i] = v] ELSE memory[c])
        /\ cache'[c] = (IF c = b THEN NoLine ELSE cache[c])
  BY <1>1 DEF DataOK
<1> QED BY <1>3, <1>4 DEF CacheInv, Changed, View, Cached, NoLine

(***************************************************************************)
(* initBuffers writes to both buffers.                                     *)
(***************************************************************************)
LEMMA InitByteChanges ==
  ASSUME TypeOK, DataOK, CacheInv, InitByte
  PROVE  /\ DataOK' /\ CacheInv'
         /\ View("src")' = [View("src") EXCEPT ![index] = Pattern]
         /\ View("dst")' = [View("dst") EXCEPT ![index] = 0]
<1>1. index \in Bytes /\ Pattern \in Values /\ 0 \in Values
  <2>1. index \in Bytes
    BY DEF TypeOK
  <2>2. Pattern \in Values
    BY TestOK
  <2>3. 0 \in Values
    BY DEF Values
  <2> QED BY <2>1, <2>2, <2>3
<1>2. /\ Written("src", index, Pattern)
           \in [state : {"none", "clean", "dirty"}, data : [Bytes -> Values]]
      /\ Written("dst", index, 0)
           \in [state : {"none", "clean", "dirty"}, data : [Bytes -> Values]]
  BY <1>1, WrittenOK DEF Buffers
<1>3. DataOK'
  BY <1>2 DEF InitByte, DataOK
<1>4. cache'["src"] = Written("src", index, Pattern) /\ cache'["dst"] = Written("dst", index, 0)
      /\ memory' = memory
  BY DEF InitByte, DataOK, Buffers
<1> QED BY <1>3, <1>4 DEF CacheInv, View, Cached, Written, Line, Buffers
----------------------------------------------------------------------------
(***************************************************************************)
(* The types.  Every action keeps those of what it touches.                *)
(***************************************************************************)
LEMMA TypeData == TypeOK => DataOK
  BY DEF TypeOK, DataOK

ControlOK ==
  /\ board \in Boards
  /\ apu \in {"snoop", "configure", "init", "flushsrc", "flushdst", "dirty", "start", "wait",
              "readback", "done"}
  /\ test \in 1 .. Len(Tests) /\ index \in Bytes /\ readback \in Values

SettingsOK ==
  settings \subseteq {"apu", "fpd", "lpd", "cci0", "cci1", "adma", "rpu"} \X
       {"snoop", "outer", "attributes", "secure", "routed", "coherent", "uncached"}

CopyOK ==
  /\ copier \in {"idle", "load", "store", "clear"}
  /\ position \in 0 .. ByteCount /\ beat \in Values
  /\ copier \in {"load", "store"} => position \in Bytes

RpuOK == irq \in {0, 1} /\ rpu \in {"boot", "configure", "enabled", "loop"} /\ lost \in BOOLEAN

LEMMA TypeParts == TypeOK <=> ControlOK /\ SettingsOK /\ DataOK /\ CopyOK /\ RpuOK
  BY DEF TypeOK, ControlOK, SettingsOK, DataOK, CopyOK, RpuOK

LEMMA LoopOK ==
  ASSUME NEW p \in {"flushsrc", "start"}, index \in Bytes, LoopOn(p)
  PROVE  index' \in Bytes /\ apu' \in {apu, p}
  BY BytesAssumption DEF LoopOn, Bytes

LEMMA ControlStep == TypeOK /\ [Next]_vars => ControlOK'
<1> SUFFICES ASSUME TypeOK, [Next]_vars PROVE ControlOK'
  OBVIOUS
<1>c. ControlOK
  BY TypeParts
<1>1. CASE UNCHANGED <<board, apuVars>>
  BY <1>1, <1>c DEF apuVars, ControlOK, Tests
<1>2. CASE InitByte
  BY <1>2, <1>c, LoopOK DEF InitByte, settingVars, ControlOK, Tests
<1>3. CASE WriteCache
  BY <1>3, <1>c, LoopOK DEF WriteCache, settingVars, ControlOK, Tests
<1>4. CASE ReadBack
  <2>1. View("dst") \in [Bytes -> Values] /\ 0 \in Bytes
    BY TypeData, ViewOK, BytesAssumption DEF Buffers, Bytes
  <2>2. readback' \in Values
    BY <1>4, <2>1 DEF ReadBack
  <2>3. board' = board /\ Tests' = Tests /\ index' = index
    BY <1>4 DEF ReadBack, settingVars, Tests
  <2>4. test' \in 1 .. Len(Tests) /\ apu' \in {"init", "done"}
    BY <1>4, <1>c, TestOK DEF ReadBack, ControlOK
  <2> QED BY <1>c, <2>2, <2>3, <2>4 DEF ControlOK
<1>5. CASE UNCHANGED <<board, test, index, readback>>
           /\ apu' \in {"configure", "init", "flushdst", "dirty", "wait", "readback"}
  BY <1>5, <1>c DEF ControlOK, Tests
<1> QED
  BY <1>1, <1>2, <1>3, <1>4, <1>5
  DEF Next, Apu, Copy, RpuMain, Handler, vars, EnableSnoop, Configure, FlushSource,
     FlushDestination, StartDma, TriggerIpi, DmaDone, PollForAck, PollTimeout, ApuWaits,
     CopyLoad, CopyStore, DisableCache, EnableIpi, ClearExisting, HandlerEnter, HandlerClear,
     Fetch, Evict, settingVars, apuVars

LEMMA SettingsStep == SettingsOK /\ [Next]_vars => SettingsOK'
<1> SUFFICES ASSUME SettingsOK, [Next]_vars PROVE SettingsOK'
  OBVIOUS
<1>1. CASE settings' = settings
  BY <1>1 DEF SettingsOK
<1>2. CASE EnableSnoop \/ StartDma \/ DisableCache
  BY <1>2 DEF EnableSnoop, StartDma, DisableCache, SettingsOK, Of, Named
<1>3. CASE Configure
  BY <1>3 DEF Configure, SettingsOK, Of, FpdCdmaConfiguration, LpdCdmaConfiguration,
     CciCdmaConfiguration, LpdDmaConfiguration, RpuConfiguration, OnVersal, Named
<1> QED
  BY <1>1, <1>2, <1>3
  DEF Next, Apu, Copy, RpuMain, Handler, vars, InitByte, WriteCache, ReadBack, FlushSource,
     FlushDestination, TriggerIpi, DmaDone, PollForAck, PollTimeout, ApuWaits,
     CopyLoad, CopyStore, EnableIpi, ClearExisting, HandlerEnter, HandlerClear,
     Fetch, Evict, settingVars

LEMMA RpuStep == RpuOK /\ [Next]_vars => RpuOK'
  BY DEF RpuOK, Next, Apu, Copy, RpuMain, Handler, vars, EnableSnoop, Configure, InitByte,
     WriteCache, ReadBack, FlushSource, FlushDestination, StartDma, TriggerIpi, DmaDone,
     PollForAck, PollTimeout, ApuWaits, CopyLoad, CopyStore, DisableCache, EnableIpi,
     ClearExisting, HandlerEnter, HandlerClear, Fetch, Evict, rpuVars

LEMMA CopyStep == DataOK /\ CopyOK /\ [Next]_vars => CopyOK'
<1> SUFFICES ASSUME DataOK, CopyOK, [Next]_vars PROVE CopyOK'
  OBVIOUS
<1>b. 0 \in Bytes /\ Bytes = 0 .. ByteCount - 1 /\ ByteCount \in Nat \ {0}
  BY BytesAssumption DEF Bytes
<1>1. CASE UNCHANGED copyVars
  BY <1>1 DEF copyVars, CopyOK
<1>2. CASE StartDma \/ HandlerEnter
  BY <1>2, <1>b DEF StartDma, HandlerEnter, CopyOK
<1>3. CASE CopyLoad
  <2>1. View("src") \in [Bytes -> Values] /\ memory["src"] \in [Bytes -> Values]
    BY ViewOK DEF DataOK, Buffers
  <2>2. beat' \in Values
    BY <1>3, <2>1 DEF CopyLoad, LoadBy, CopyOK
  <2> QED BY <1>3, <2>2 DEF CopyLoad, CopyOK
<1>4. CASE CopyStore
  BY <1>4, <1>b DEF CopyStore, CopyOK
<1>5. CASE HandlerClear
  BY <1>5 DEF HandlerClear, CopyOK
<1> QED
  BY <1>1, <1>2, <1>3, <1>4, <1>5
  DEF Next, Apu, Copy, RpuMain, Handler, vars, EnableSnoop, Configure, InitByte, WriteCache,
     ReadBack, FlushSource, FlushDestination, TriggerIpi, DmaDone, PollForAck, PollTimeout,
     ApuWaits, DisableCache, EnableIpi, ClearExisting, Fetch, Evict, copyVars

----------------------------------------------------------------------------
(***************************************************************************)
(* What has been set at each place: a master that copies snoops the cache. *)
(***************************************************************************)
SettingsInv ==
  /\ apu # "snoop" => Of("apu", {"snoop", "outer"}) \subseteq settings
  /\ apu \notin {"snoop", "configure"} =>
       /\ FpdCdmaConfiguration \subseteq settings /\ LpdCdmaConfiguration \subseteq settings
       /\ CciCdmaConfiguration \subseteq settings /\ LpdDmaConfiguration \subseteq settings
       /\ RpuConfiguration \subseteq settings
  /\ rpu # "boot" => Of("rpu", {"uncached"}) \subseteq settings
  /\ copier # "idle" =>
       /\ apu \in {"wait", "readback", "done"}
       /\ Master = "adma" => Of("adma", {"coherent"}) \subseteq settings
       /\ Master = "rpu" => irq = 1 /\ ~lost /\ rpu \in {"enabled", "loop"}
       /\ Master # "rpu" => apu = "wait"
  /\ irq = 1 => Master = "rpu" /\ apu \in {"wait", "readback", "done"}
  /\ lost => Master = "rpu" /\ apu \in {"wait", "readback", "done"} /\ irq = 0 /\ rpu = "loop"
  /\ apu = "done" => Master = "rpu"

LEMMA Snoops == TypeOK /\ SettingsInv /\ copier # "idle" => Coherent(Master)
<1> SUFFICES ASSUME TypeOK, SettingsInv, copier # "idle" PROVE Needed(Master) \subseteq settings
  BY DEF Coherent
<1>1. /\ Of("apu", {"snoop", "outer"}) \subseteq settings
      /\ FpdCdmaConfiguration \subseteq settings /\ LpdCdmaConfiguration \subseteq settings
      /\ CciCdmaConfiguration \subseteq settings /\ LpdDmaConfiguration \subseteq settings
      /\ RpuConfiguration \subseteq settings
      /\ Master = "adma" => Of("adma", {"coherent"}) \subseteq settings
      /\ Master = "rpu" => Of("rpu", {"uncached"}) \subseteq settings
  BY DEF SettingsInv
<1>2. board \in {"versal", "zynqmp"} /\ Master \in Masters
  BY TestOK, BoardsAssumption DEF TypeOK
<1>3. board = "zynqmp" => Master \notin {"cci0", "cci1"}
  <2> SUFFICES ASSUME board = "zynqmp" PROVE Master \notin {"cci0", "cci1"}
    OBVIOUS
  <2>1. Len(Tests) = 4 /\ test \in {1, 2, 3, 4}
    BY DEF Tests, TypeOK
  <2> QED BY <2>1 DEF Tests, T, Master
<1> USE DEF Of, Named, OnVersal, FpdCdmaConfiguration, LpdCdmaConfiguration, CciCdmaConfiguration,
  LpdDmaConfiguration, RpuConfiguration, Needed, Masters
<1>4. CASE Master = "fpd"
  BY <1>1, <1>2, <1>4
<1>5. CASE Master = "lpd"
  BY <1>1, <1>2, <1>5
<1>6. CASE Master \in {"cci0", "cci1"}
  BY <1>1, <1>2, <1>3, <1>6
<1>7. CASE Master = "adma"
  BY <1>1, <1>2, <1>7
<1>8. CASE Master = "rpu"
  BY <1>1, <1>2, <1>8
<1> QED BY <1>2, <1>4, <1>5, <1>6, <1>7, <1>8

LEMMA SettingsInvStep == TypeOK /\ SettingsInv /\ [Next]_vars => SettingsInv'
<1> SUFFICES ASSUME TypeOK, SettingsInv, [Next]_vars PROVE SettingsInv'
  OBVIOUS
<1>t. /\ irq \in {0, 1} /\ lost \in BOOLEAN /\ (Master = "rpu" <=> test = Len(Tests))
      /\ board' = board
  BY TestOK DEF TypeOK, Next, Apu, Copy, RpuMain, Handler, vars, EnableSnoop, Configure,
     InitByte, WriteCache, ReadBack, FlushSource, FlushDestination, StartDma, TriggerIpi,
     DmaDone, PollForAck, PollTimeout, ApuWaits, CopyLoad, CopyStore, DisableCache, EnableIpi,
     ClearExisting, HandlerEnter, HandlerClear, Fetch, Evict, settingVars
<1>n. /\ Of("apu", {"snoop", "outer"})' = Of("apu", {"snoop", "outer"})
      /\ FpdCdmaConfiguration' = FpdCdmaConfiguration
      /\ LpdCdmaConfiguration' = LpdCdmaConfiguration
      /\ CciCdmaConfiguration' = CciCdmaConfiguration
      /\ LpdDmaConfiguration' = LpdDmaConfiguration
      /\ RpuConfiguration' = RpuConfiguration
      /\ Of("rpu", {"uncached"})' = Of("rpu", {"uncached"})
      /\ Of("adma", {"coherent"})' = Of("adma", {"coherent"})
  BY <1>t DEF Of, FpdCdmaConfiguration, LpdCdmaConfiguration, CciCdmaConfiguration,
     LpdDmaConfiguration, RpuConfiguration, OnVersal, Named
<1>m. test' = test => Master' = Master
  BY <1>t, SameTest
<1>s. settings \subseteq settings'
  BY DEF Next, Apu, Copy, RpuMain, Handler, vars, EnableSnoop, Configure,
     InitByte, WriteCache, ReadBack, FlushSource, FlushDestination, StartDma, TriggerIpi,
     DmaDone, PollForAck, PollTimeout, ApuWaits, CopyLoad, CopyStore, DisableCache, EnableIpi,
     ClearExisting, HandlerEnter, HandlerClear, Fetch, Evict, settingVars
<1> USE <1>n, <1>m, <1>s DEF SettingsInv, settingVars, apuVars, dataVars, copyVars, rpuVars
<1>0. CASE UNCHANGED vars
  BY <1>0 DEF vars
<1>1. CASE EnableSnoop
  BY <1>1 DEF EnableSnoop
<1>2. CASE Configure
  BY <1>2 DEF Configure
<1>3. CASE InitByte
  BY <1>3 DEF InitByte, LoopOn
<1>4. CASE FlushSource
  BY <1>4 DEF FlushSource
<1>5. CASE FlushDestination
  BY <1>5 DEF FlushDestination
<1>6. CASE WriteCache
  BY <1>6 DEF WriteCache, LoopOn
<1>7. CASE StartDma
  BY <1>7 DEF StartDma, Named
<1>8. CASE TriggerIpi
  BY <1>8 DEF TriggerIpi
<1>9. CASE DmaDone
  BY <1>9 DEF DmaDone, ApuWaits
<1>10. CASE PollForAck
  BY <1>10 DEF PollForAck, ApuWaits
<1>11. CASE PollTimeout
  BY <1>11 DEF PollTimeout, ApuWaits
<1>12. CASE ReadBack
  <2>1. CASE test = Len(Tests)
    BY <1>12, <1>t, <2>1 DEF ReadBack
  <2>2. CASE test # Len(Tests)
    BY <1>12, <1>t, <2>2 DEF ReadBack
  <2> QED BY <2>1, <2>2
<1>13. CASE CopyLoad
  BY <1>13 DEF CopyLoad
<1>14. CASE CopyStore
  BY <1>14 DEF CopyStore
<1>15. CASE DisableCache
  BY <1>15 DEF DisableCache
<1>16. CASE EnableIpi
  BY <1>16 DEF EnableIpi
<1>17. CASE ClearExisting
  BY <1>17, <1>t DEF ClearExisting, InHandler
<1>18. CASE HandlerEnter
  BY <1>18 DEF HandlerEnter, InHandler
<1>19. CASE HandlerClear
  BY <1>19 DEF HandlerClear
<1>20. ASSUME NEW b \in Buffers, Fetch(b) \/ Evict(b) PROVE SettingsInv'
  BY <1>20 DEF Fetch, Evict
<1> QED
  BY <1>0, <1>1, <1>2, <1>3, <1>4, <1>5, <1>6, <1>7, <1>8, <1>9, <1>10, <1>11, <1>12, <1>13,
     <1>14, <1>15, <1>16, <1>17, <1>18, <1>19, <1>20
  DEF Next, Apu, Copy, RpuMain, Handler

----------------------------------------------------------------------------
(***************************************************************************)
(* What each step does to what the APU sees: nothing, except the stores of *)
(* the program.                                                            *)
(***************************************************************************)
LEMMA ViewStep ==
  ASSUME TypeOK, SettingsInv, CacheInv, [Next]_vars
  PROVE  /\ DataOK' /\ CacheInv'
         /\ InitByte => /\ View("src")' = [View("src") EXCEPT ![index] = Pattern]
                        /\ View("dst")' = [View("dst") EXCEPT ![index] = 0]
         /\ WriteCache => Changed("dst", index, DirtyPattern)
         /\ CopyStore => Changed("dst", position, beat)
         /\ InitByte \/ WriteCache \/ CopyStore \/ SameView
<1>d. DataOK
  BY TypeData
<1>1. InitByte =>
        /\ DataOK' /\ CacheInv'
        /\ View("src")' = [View("src") EXCEPT ![index] = Pattern]
        /\ View("dst")' = [View("dst") EXCEPT ![index] = 0]
  BY <1>d, InitByteChanges
<1>2. WriteCache => DataOK' /\ CacheInv' /\ Changed("dst", index, DirtyPattern)
  <2>1. "dst" \in Buffers /\ DirtyPattern \in Values
    BY DEF Buffers, DirtyPattern, Values
  <2>2. index \in Bytes
    BY DEF TypeOK
  <2> QED BY <1>d, <2>1, <2>2, WrittenChanges DEF WriteCache
<1>3. CopyStore => DataOK' /\ CacheInv' /\ Changed("dst", position, beat)
  <2> SUFFICES ASSUME CopyStore PROVE DataOK' /\ CacheInv' /\ Changed("dst", position, beat)
    OBVIOUS
  <2>1. Coherent(Master)
    BY Snoops DEF CopyStore
  <2>2. "dst" \in Buffers /\ position \in Bytes /\ beat \in Values
    BY DEF Buffers, TypeOK, CopyStore
  <2>3. StoreBy(Master, "dst", position, beat)
    BY DEF CopyStore
  <2> QED BY <1>d, <2>1, <2>2, <2>3, StoreChanges
<1>4. FlushSource \/ FlushDestination => DataOK' /\ CacheInv' /\ SameView
  BY <1>d, WriteBackKeeps DEF FlushSource, FlushDestination, Buffers
<1>5. ReadBack => DataOK' /\ CacheInv' /\ SameView
  BY <1>d, FetchedKeeps DEF ReadBack, Buffers
<1>6. ASSUME NEW b \in Buffers, Fetch(b) \/ Evict(b) PROVE DataOK' /\ CacheInv' /\ SameView
  BY <1>6, <1>d, FetchedKeeps, WriteBackKeeps DEF Fetch, Evict
<1>7. UNCHANGED dataVars => DataOK' /\ CacheInv' /\ SameView
  BY <1>d DEF dataVars, DataOK, CacheInv, SameView, View, Cached
<1>8. \/ InitByte \/ WriteCache \/ CopyStore \/ FlushSource \/ FlushDestination \/ ReadBack
      \/ (\E b \in Buffers : Fetch(b) \/ Evict(b)) \/ UNCHANGED dataVars
  BY DEF Next, Apu, Copy, RpuMain, Handler, vars, EnableSnoop, Configure, StartDma,
     TriggerIpi, DmaDone, PollForAck, PollTimeout, ApuWaits, CopyLoad, DisableCache, EnableIpi,
     ClearExisting, HandlerEnter, HandlerClear
<1>9. ~(InitByte /\ (WriteCache \/ CopyStore)) /\ ~(WriteCache /\ CopyStore)
  BY DEF InitByte, WriteCache, CopyStore, SettingsInv
<1> QED
  BY <1>1, <1>2, <1>3, <1>4, <1>5, <1>6, <1>7, <1>8, <1>9

LEMMA TypeStep == TypeOK /\ SettingsInv /\ CacheInv /\ [Next]_vars => TypeOK'
<1> SUFFICES ASSUME TypeOK, SettingsInv, CacheInv, [Next]_vars PROVE TypeOK'
  OBVIOUS
<1>1. ControlOK' /\ SettingsOK' /\ DataOK' /\ CopyOK' /\ RpuOK'
  BY TypeParts, ControlStep, SettingsStep, ViewStep, CopyStep, RpuStep
<1> QED BY <1>1 DEF TypeOK, ControlOK, SettingsOK, DataOK, CopyOK, RpuOK

(***************************************************************************)
(* What the buffers hold at each place: the source its pattern from        *)
(* initBuffers on; the destination what the copy has got to.               *)
(***************************************************************************)
SourceIs == \A i \in Bytes : View("src")[i] = Pattern
DestinationIs(n, v, w) == \A i \in Bytes : View("dst")[i] = IF i < n THEN v ELSE w

BufferInv ==
  /\ apu \notin {"init", "dirty"} => index = 0
  /\ apu = "init" => \A i \in Bytes : i < index => View("src")[i] = Pattern
  /\ apu \notin {"snoop", "configure", "init"} => SourceIs
  /\ apu = "dirty" => \A i \in Bytes : i < index => View("dst")[i] = DirtyPattern
  /\ apu = "start" => DestinationIs(0, Pattern, DirtyPattern)
  /\ apu \in {"wait", "readback", "done"} =>
       /\ copier \in {"load", "store"} => DestinationIs(position, Pattern, DirtyPattern)
       /\ copier = "store" => beat = Pattern
       /\ copier = "clear" => DestinationIs(ByteCount, Pattern, DirtyPattern)
       /\ copier = "idle" =>
            DestinationIs(IF Answered THEN ByteCount ELSE 0, Pattern, DirtyPattern)

LEMMA BufferStep ==
  ASSUME TypeOK, SettingsInv, CacheInv, BufferInv, [Next]_vars
  PROVE  BufferInv'
<1>b. /\ ByteCount \in Nat \ {0} /\ Bytes = 0 .. ByteCount - 1 /\ "src" \in Buffers
      /\ "dst" \in Buffers /\ "src" # "dst"
  BY BytesAssumption DEF Bytes, Buffers
<1>d. View("src") \in [Bytes -> Values] /\ View("dst") \in [Bytes -> Values]
  BY <1>b, TypeData, ViewOK
<1>m. board' = board /\ test' = test => Master' = Master /\ Pattern' = Pattern
  BY SameTest
<1>v. /\ InitByte => /\ View("src")' = [View("src") EXCEPT ![index] = Pattern]
                     /\ View("dst")' = [View("dst") EXCEPT ![index] = 0]
      /\ WriteCache => /\ View("src")' = View("src")
                       /\ View("dst")' = [View("dst") EXCEPT ![index] = DirtyPattern]
      /\ CopyStore => /\ View("src")' = View("src")
                      /\ View("dst")' = [View("dst") EXCEPT ![position] = beat]
      /\ \/ InitByte \/ WriteCache \/ CopyStore
         \/ View("src")' = View("src") /\ View("dst")' = View("dst")
  BY <1>b, ViewStep DEF Changed, SameView
<1>p. position \in 0 .. ByteCount /\ index \in Bytes /\ irq \in {0, 1} /\ lost \in BOOLEAN
      /\ (copier \in {"load", "store"} => position \in Bytes)
      /\ copier \in {"idle", "load", "store", "clear"}
  BY DEF TypeOK
<1>1. CASE InitByte
  <2>1. View("src")' = [View("src") EXCEPT ![index] = Pattern] /\ Pattern' = Pattern
    BY <1>1, <1>v, <1>m DEF InitByte, settingVars
  <2>2. CASE index + 1 < ByteCount
    BY <1>1, <1>b, <1>d, <1>p, <2>1, <2>2 DEF InitByte, LoopOn, BufferInv
  <2>3. CASE ~(index + 1 < ByteCount)
    BY <1>1, <1>b, <1>d, <1>p, <2>1, <2>3 DEF InitByte, LoopOn, BufferInv, SourceIs
  <2> QED BY <2>2, <2>3
<1>2. CASE WriteCache
  <2>1. /\ View("src")' = View("src") /\ Pattern' = Pattern
        /\ View("dst")' = [View("dst") EXCEPT ![index] = DirtyPattern]
    BY <1>2, <1>v, <1>m DEF WriteCache, settingVars
  <2>2. CASE index + 1 < ByteCount
    BY <1>2, <1>b, <1>d, <1>p, <2>1, <2>2 DEF WriteCache, LoopOn, BufferInv, SourceIs, DirtyPattern
  <2>3. CASE ~(index + 1 < ByteCount)
    BY <1>2, <1>b, <1>d, <1>p, <2>1, <2>3
    DEF WriteCache, LoopOn, BufferInv, SourceIs, DestinationIs, DirtyPattern
  <2> QED BY <2>2, <2>3
<1>3. CASE CopyStore
  <2>1. /\ View("src")' = View("src") /\ Pattern' = Pattern /\ Master' = Master
        /\ View("dst")' = [View("dst") EXCEPT ![position] = beat]
    BY <1>3, <1>v, <1>m DEF CopyStore, settingVars, apuVars
  <2>2. /\ apu \in {"wait", "readback", "done"} /\ beat = Pattern /\ position \in Bytes
        /\ DestinationIs(position, Pattern, DirtyPattern)
    BY <1>3, <1>p DEF CopyStore, SettingsInv, BufferInv
  <2>3. \A i \in Bytes : View("dst")'[i] = IF i < position + 1 THEN Pattern ELSE DirtyPattern
    BY <1>b, <1>d, <1>3, <2>1, <2>2 DEF CopyStore, DestinationIs, DirtyPattern
  <2>4. /\ apu' = apu /\ index' = index /\ position' = position + 1
        /\ copier' = IF position + 1 < ByteCount THEN "load"
                      ELSE IF Master = "rpu" THEN "clear" ELSE "idle"
    BY <1>3 DEF CopyStore, apuVars
  <2>5. index' = 0 /\ SourceIs'
    BY <1>3, <2>1, <2>2, <2>4 DEF BufferInv, SourceIs
  <2>6. CASE position + 1 < ByteCount
    BY <2>1, <2>2, <2>3, <2>4, <2>5, <2>6 DEF BufferInv, DestinationIs, DirtyPattern
  <2>7. CASE position + 1 = ByteCount
    <3>1. \A i \in Bytes : View("dst")'[i] = Pattern
      BY <1>b, <2>3, <2>7
    <3>2. \A i \in Bytes : i < ByteCount
      BY <1>b
    <3>3. copier' \in {"clear", "idle"} /\ (copier' = "idle" => Answered')
      BY <2>1, <2>4, <2>7 DEF Answered
    <3> QED BY <2>1, <2>2, <2>4, <2>5, <3>1, <3>2, <3>3 DEF BufferInv, DestinationIs, DirtyPattern
  <2> QED BY <1>b, <2>2, <2>6, <2>7
<1>s. CASE ~InitByte /\ ~WriteCache /\ ~CopyStore
  <2>v. View("src")' = View("src") /\ View("dst")' = View("dst")
    BY <1>v, <1>s
  <2>t. apu = "done" => test = Len(Tests)
    BY TestOK DEF SettingsInv
  <2> USE <1>m, <1>p, <1>b, <2>v DEF BufferInv, SourceIs, DestinationIs, Answered, settingVars, apuVars,
    dataVars, copyVars, rpuVars
  <2>0. CASE UNCHANGED vars
    BY <2>0 DEF vars
  <2>1. CASE EnableSnoop \/ Configure \/ FlushSource \/ FlushDestination
    BY <2>1 DEF EnableSnoop, Configure, FlushSource, FlushDestination
  <2>2. CASE StartDma
    BY <2>2 DEF StartDma
  <2>3. CASE TriggerIpi
    <3>1. copier = "idle" /\ copier' = "idle" /\ ~Answered'
      BY <2>3 DEF TriggerIpi, SettingsInv
    <3> QED BY <2>3, <3>1 DEF TriggerIpi
  <2>4. CASE DmaDone \/ PollForAck \/ PollTimeout
    BY <2>4 DEF DmaDone, PollForAck, PollTimeout, ApuWaits
  <2>5. CASE ReadBack
    <3>1. CASE test < Len(Tests)
      <4>1. apu' = "init" /\ index' = 0
        BY <2>5, <3>1, TestOK DEF ReadBack, TypeOK
      <4> QED BY <4>1
    <3>2. CASE ~(test < Len(Tests))
      BY <2>5, <3>2 DEF ReadBack
    <3> QED BY <3>1, <3>2
  <2>6. CASE CopyLoad
    <3>1. beat' = View("src")[position] /\ position \in Bytes
      BY <2>6, Snoops DEF CopyLoad, LoadBy
    <3>2. apu \in {"wait", "readback", "done"}
      BY <2>6 DEF CopyLoad, SettingsInv
    <3>3. beat' = Pattern
      BY <3>1, <3>2
    <3> QED BY <2>6, <3>3 DEF CopyLoad
  <2>7. CASE DisableCache \/ EnableIpi
    BY <2>7 DEF DisableCache, EnableIpi
  <2>8. CASE ClearExisting
    <3>1. /\ apu' = apu /\ Master' = Master /\ copier' = copier /\ index' = index
          /\ position' = position /\ beat' = beat /\ Pattern' = Pattern
      BY <2>8 DEF ClearExisting
    <3>2. Answered' <=> Answered
      <4>1. ~lost /\ irq' = 0 /\ lost' = (lost \/ irq = 1)
        BY <2>8 DEF ClearExisting, SettingsInv
      <4>2. CASE irq = 1
        <5>1. lost' /\ Master = "rpu"
          BY <4>1, <4>2 DEF SettingsInv
        <5> QED BY <3>1, <4>2, <5>1
      <4>3. CASE irq = 0
        <5>1. ~lost'
          BY <4>1, <4>3
        <5> QED BY <4>1, <4>3, <5>1
      <4> QED BY <4>2, <4>3
    <3> QED BY <3>1, <3>2
  <2>9. CASE HandlerEnter
    <3>1. Master = "rpu" /\ apu \in {"wait", "readback", "done"} /\ copier = "idle" /\ ~Answered
      BY <2>9 DEF HandlerEnter, InHandler, SettingsInv
    <3> QED BY <2>9, <3>1 DEF HandlerEnter
  <2>10. CASE HandlerClear
    <3>1. apu \in {"wait", "readback", "done"} /\ DestinationIs(ByteCount, Pattern, DirtyPattern)
      BY <2>10 DEF HandlerClear, SettingsInv
    <3>2. Answered' /\ copier' = "idle"
      BY <2>10 DEF HandlerClear, SettingsInv
    <3> QED BY <2>10, <3>1, <3>2 DEF HandlerClear
  <2>11. ASSUME NEW b \in Buffers, Fetch(b) \/ Evict(b) PROVE BufferInv'
    BY <2>11 DEF Fetch, Evict
  <2> QED
    BY <1>s, <2>0, <2>1, <2>2, <2>3, <2>4, <2>5, <2>6, <2>7, <2>8, <2>9, <2>10, <2>11
    DEF Next, Apu, Copy, RpuMain, Handler
<1> QED BY <1>1, <1>2, <1>3, <1>s

----------------------------------------------------------------------------
IInv == TypeOK /\ SettingsInv /\ CacheInv /\ BufferInv

LEMMA Invariance == Spec => []IInv
<1>1. ASSUME Init PROVE IInv
  <2>1. ControlOK /\ SettingsOK /\ CopyOK /\ RpuOK
    <3>1. Len(Tests) \in Nat \ {0}
      BY <1>1, TestsOK DEF Init
    <3>2. 1 \in 1 .. Len(Tests) /\ 0 \in Bytes /\ 0 \in Values /\ 0 \in 0 .. ByteCount
      BY <3>1, BytesAssumption DEF Bytes, Values
    <3> QED BY <1>1, <3>2 DEF Init, ControlOK, SettingsOK, CopyOK, RpuOK
  <2>2. DataOK
    <3>1. [Bytes -> Residue] \subseteq [Bytes -> Values]
      BY BytesAssumption DEF Values
    <3>2. memory \in [Buffers -> [Bytes -> Values]]
      BY <1>1, <3>1 DEF Init
    <3> QED BY <1>1, <3>2, NoLineOK DEF Init, DataOK
  <2>3. SettingsInv /\ BufferInv
    BY <1>1 DEF Init, SettingsInv, BufferInv
  <2>4. CacheInv
    BY <1>1 DEF Init, CacheInv, NoLine
  <2> QED BY <2>1, <2>2, <2>3, <2>4, TypeParts DEF IInv
<1>2. IInv /\ [Next]_vars => IInv'
  BY TypeStep, SettingsInvStep, ViewStep, BufferStep DEF IInv
<1> QED BY <1>1, <1>2, PTL DEF Spec

(***************************************************************************)
(* The variables keep their types, whatever the size of the buffers.       *)
(***************************************************************************)
THEOREM TypeCorrect == Spec => []TypeOK
  BY Invariance, PTL DEF IInv

(***************************************************************************)
(* What is read back is the pattern, or, as long as the RPU has not        *)
(* answered, still what the APU has written: BufferInv says it of all      *)
(* bytes.                                                                  *)
(***************************************************************************)
THEOREM Readback == Spec => ReadbackGenuine
<1>1. ASSUME IInv, [Next]_vars, apu = "readback", apu' # "readback"
      PROVE  readback' \in {Pattern} \union (IF Answered THEN {} ELSE {DirtyPattern})
  <2>1. ReadBack
    BY <1>1 DEF Next, Apu, Copy, RpuMain, Handler, vars, EnableSnoop, Configure, InitByte,
       WriteCache, FlushSource, FlushDestination, StartDma, TriggerIpi, DmaDone, PollForAck,
       PollTimeout, CopyLoad, CopyStore, DisableCache, EnableIpi, ClearExisting, HandlerEnter,
       HandlerClear, Fetch, Evict, apuVars
  <2>2. readback' = View("dst")[0] /\ 0 \in Bytes /\ 0 < ByteCount
    BY <2>1, BytesAssumption DEF ReadBack, Bytes
  <2>3. CASE copier = "idle"
    <3>1. DestinationIs(IF Answered THEN ByteCount ELSE 0, Pattern, DirtyPattern)
      BY <1>1, <2>3 DEF IInv, BufferInv
    <3>2. CASE Answered
      BY <2>2, <3>1, <3>2 DEF DestinationIs
    <3>3. CASE ~Answered
      BY <2>2, <3>1, <3>3 DEF DestinationIs
    <3> QED BY <3>2, <3>3
  <2>4. CASE copier # "idle"
    <3>1. ~Answered
      BY <1>1, <2>4 DEF IInv, SettingsInv, Answered
    <3>2. View("dst")[0] \in {Pattern, DirtyPattern}
      BY <1>1, <2>2, <2>4, BytesAssumption DEF IInv, BufferInv, TypeOK, DestinationIs
    <3> QED BY <2>2, <3>1, <3>2
  <2> QED BY <2>3, <2>4
<1> QED BY <1>1, Invariance, PTL DEF ReadbackGenuine, Spec

----------------------------------------------------------------------------
(***************************************************************************)
(* The refinement.  Mapped memory, stores to come, and values loaded.      *)
(***************************************************************************)
Seen == [b \in Buffers |-> View(b)]
Readers == {"apu", "copier"}
Loaded == [r \in Readers |-> IF r = "apu" THEN readback ELSE beat]

LEMMA SeenOK == DataOK => Seen \in [Buffers -> [Bytes -> Values]]
  BY ViewsOK DEF Seen

LEMMA SeenSame == SameView => Seen' = Seen
  BY DEF SameView, Seen

LEMMA IntentOK == TypeOK => Intent \subseteq Shared!Stores
<1> SUFFICES ASSUME TypeOK PROVE Intent \subseteq Shared!Stores
  OBVIOUS
<1>1. /\ "src" \in Buffers /\ "dst" \in Buffers
      /\ Pattern \in Values /\ DirtyPattern \in Values /\ 0 \in Values
  <2>1. "src" \in Buffers /\ "dst" \in Buffers
    BY DEF Buffers
  <2>2. Pattern \in Values
    BY TestOK
  <2>3. DirtyPattern \in Values /\ 0 \in Values
    BY DEF DirtyPattern, Values
  <2> QED BY <2>1, <2>2, <2>3
<1>2. index \in Bytes /\ beat \in Values /\ (copier = "store" => position \in Bytes)
  BY DEF TypeOK
<1> QED BY <1>1, <1>2 DEF Intent, Shared!Stores

LEMMA Continues ==
  ASSUME TypeOK', Seen' = Seen, Loaded' = Loaded, Intent = {} \/ Intent' = Intent
  PROVE  [Shared!Next]_(Shared!vars)
<1>1. Intent' \subseteq Shared!Stores
  <2>1. (TypeOK => Intent \subseteq Shared!Stores)'
    BY IntentOK, PTL
  <2> QED BY <2>1 DEF Shared!Stores
<1>2. Shared!Continue
  BY <1>1 DEF Shared!Continue, Shared!Keep, Seen, Loaded, Readers
<1> QED BY <1>2 DEF Shared!Next

\* A store of one byte, as WriteCache and the copy do it.
LEMMA StoresOne ==
  ASSUME TypeOK, TypeOK', Loaded' = Loaded, NEW b \in Buffers, NEW i \in Bytes, NEW v \in Values,
         Intent = {[buffer |-> b, byte |-> i, value |-> v]}, Changed(b, i, v)
  PROVE  Shared!Store
<1>1. Seen \in [Buffers -> [Bytes -> Values]] /\ Seen' \in [Buffers -> [Bytes -> Values]]
  <2>1. (TypeOK => Seen \in [Buffers -> [Bytes -> Values]])'
    BY TypeData, SeenOK, PTL
  <2> QED BY <2>1, TypeData, SeenOK
<1>2. Intent' \subseteq Shared!Stores
  <2>1. (TypeOK => Intent \subseteq Shared!Stores)'
    BY IntentOK, PTL
  <2> QED BY <2>1 DEF Shared!Stores
<1>3. \A c \in Buffers, j \in Bytes :
        Shared!After(c, j) = IF c = b /\ j = i THEN {v} ELSE {}
  <2> TAKE c \in Buffers, j \in Bytes
  <2> DEFINE s == [buffer |-> b, byte |-> i, value |-> v]
             about == {t \in Intent : t.buffer = c /\ t.byte = j}
  <2>1. s.buffer = b /\ s.byte = i /\ s.value = v
    OBVIOUS
  <2>2. Intent = {s} /\ Shared!After(c, j) = {t.value : t \in about}
    BY DEF Shared!After
  <2> HIDE DEF s
  <2>3. CASE c = b /\ j = i
    <3>1. about = {s}
      BY <2>1, <2>2, <2>3
    <3> HIDE DEF about
    <3> QED BY <2>1, <2>2, <2>3, <3>1
  <2>4. CASE ~(c = b /\ j = i)
    <3>1. about = {}
      BY <2>1, <2>2, <2>4
    <3> HIDE DEF about
    <3> QED BY <2>2, <2>4, <3>1
  <2> QED BY <2>3, <2>4
<1>4. \A c \in Buffers, j \in Bytes :
        Seen'[c][j] = IF c = b /\ j = i THEN v ELSE Seen[c][j]
  BY <1>1 DEF Changed, Seen
<1> QED
  BY <1>1, <1>2, <1>3, <1>4 DEF Shared!Store, Seen, Loaded, Readers

\* The two stores of initBuffers.
LEMMA StoresTwo ==
  ASSUME TypeOK, TypeOK', DataOK, CacheInv, InitByte
  PROVE  Shared!Store
<1> DEFINE s == [buffer |-> "src", byte |-> index, value |-> Pattern]
           d == [buffer |-> "dst", byte |-> index, value |-> 0]
<1>1. Seen \in [Buffers -> [Bytes -> Values]] /\ Seen' \in [Buffers -> [Bytes -> Values]]
  <2>1. (TypeOK => Seen \in [Buffers -> [Bytes -> Values]])'
    BY TypeData, SeenOK, PTL
  <2> QED BY <2>1, SeenOK
<1>2. Intent' \subseteq Shared!Stores
  <2>1. (TypeOK => Intent \subseteq Shared!Stores)'
    BY IntentOK, PTL
  <2> QED BY <2>1 DEF Shared!Stores
<1>3. Intent = {s, d}
  BY DEF Intent, InitByte
<1>4. /\ s.buffer = "src" /\ s.byte = index /\ s.value = Pattern
      /\ d.buffer = "dst" /\ d.byte = index /\ d.value = 0
  OBVIOUS
<1>5. Seen'["src"] = [Seen["src"] EXCEPT ![index] = Pattern]
      /\ Seen'["dst"] = [Seen["dst"] EXCEPT ![index] = 0]
  BY InitByteChanges DEF Seen, Buffers
<1>6. index \in Bytes /\ Buffers = {"src", "dst"} /\ "src" # "dst"
  BY DEF TypeOK, Buffers
<1> HIDE DEF s, d
<1>7. \A c \in Buffers, j \in Bytes :
        IF Shared!After(c, j) = {} THEN Seen'[c][j] = Seen[c][j]
        ELSE Seen'[c][j] \in Shared!After(c, j)
  <2> TAKE c \in Buffers, j \in Bytes
  <2> DEFINE about == {t \in Intent : t.buffer = c /\ t.byte = j}
  <2>1. Shared!After(c, j) = {t.value : t \in about}
    BY DEF Shared!After
  <2>2. CASE j # index
    <3>1. about = {}
      BY <1>3, <1>4, <2>2
    <3> HIDE DEF about
    <3>2. Seen'[c][j] = Seen[c][j]
      BY <1>1, <1>5, <1>6, <2>2
    <3>3. Shared!After(c, j) = {}
      BY <2>1, <3>1
    <3> QED BY <3>2, <3>3
  <2>3. CASE j = index /\ c = "src"
    <3>1. s \in about
      BY <1>3, <1>4, <2>3
    <3> HIDE DEF about
    <3>2. Seen'[c][j] = s.value
      BY <1>1, <1>4, <1>5, <1>6, <2>3
    <3>3. s.value \in Shared!After(c, j)
      BY <2>1, <3>1
    <3> QED BY <3>2, <3>3
  <2>4. CASE j = index /\ c = "dst"
    <3>1. d \in about
      BY <1>3, <1>4, <2>4
    <3> HIDE DEF about
    <3>2. Seen'[c][j] = d.value
      BY <1>1, <1>4, <1>5, <1>6, <2>4
    <3>3. d.value \in Shared!After(c, j)
      BY <2>1, <3>1
    <3> QED BY <3>2, <3>3
  <2> QED BY <1>6, <2>2, <2>3, <2>4
<1>8. Loaded' = Loaded
  BY DEF InitByte, Loaded, copyVars
<1> QED
  BY <1>1, <1>2, <1>3, <1>7, <1>8 DEF Shared!Store, Seen, Loaded, Readers

(***************************************************************************)
(* The programs, their masters and the cache implement the shared memory:  *)
(* a step is a store, a load, or leaves alone what is seen, because what   *)
(* copies snoops, and what is clean is in memory.                          *)
(***************************************************************************)
LEMMA SharedStep == IInv /\ IInv' /\ [Next]_vars => [Shared!Next]_(Shared!vars)
<1> SUFFICES ASSUME IInv, IInv', [Next]_vars PROVE [Shared!Next]_(Shared!vars)
  OBVIOUS
<1>i. TypeOK /\ TypeOK' /\ DataOK /\ SettingsInv /\ CacheInv
  BY TypeData DEF IInv
<1>b. "src" \in Buffers /\ "dst" \in Buffers /\ 0 \in Bytes
  BY BytesAssumption DEF Buffers, Bytes
<1>t. board' = board /\ test' = test => Pattern' = Pattern
  BY SameTest
<1>v. InitByte \/ WriteCache \/ CopyStore \/ Seen' = Seen
  BY <1>i, ViewStep, SeenSame
<1>1. CASE InitByte
  BY <1>1, <1>i, StoresTwo DEF Shared!Next
<1>2. CASE WriteCache
  <2>1. Changed("dst", index, DirtyPattern) /\ index \in Bytes /\ DirtyPattern \in Values
    BY <1>2, <1>i, ViewStep DEF TypeOK, DirtyPattern, Values
  <2>2. Intent = {[buffer |-> "dst", byte |-> index, value |-> DirtyPattern]}
    BY <1>2 DEF WriteCache, Intent
  <2>3. Loaded' = Loaded
    BY <1>2 DEF WriteCache, Loaded, copyVars
  <2> QED BY <1>i, <1>b, <2>1, <2>2, <2>3, StoresOne DEF Shared!Next
<1>3. CASE CopyStore
  <2>1. Changed("dst", position, beat) /\ position \in Bytes /\ beat \in Values
    BY <1>3, <1>i, ViewStep DEF TypeOK, CopyStore
  <2>2. Intent = {[buffer |-> "dst", byte |-> position, value |-> beat]}
    BY <1>3, <1>i DEF CopyStore, Intent, SettingsInv
  <2>3. Loaded' = Loaded
    BY <1>3 DEF CopyStore, Loaded, apuVars
  <2> QED BY <1>i, <1>b, <2>1, <2>2, <2>3, StoresOne DEF Shared!Next
<1>s. CASE ~InitByte /\ ~WriteCache /\ ~CopyStore
  <2>1. CASE ReadBack
    <3>1. Intent = {} \/ Intent' = Intent
      <4>1. CASE copier = "store"
        <5>1. apu' = "done" /\ Master = "rpu"
          BY <1>i, <2>1, <4>1, TestOK DEF ReadBack, SettingsInv
        <5> QED BY <2>1, <5>1 DEF ReadBack, Intent, copyVars
      <4>2. CASE copier # "store"
        BY <2>1, <4>2 DEF ReadBack, Intent
      <4> QED BY <4>1, <4>2
    <3>2. Intent' \subseteq Shared!Stores
      <4>1. (TypeOK => Intent \subseteq Shared!Stores)'
        BY IntentOK, PTL
      <4> QED BY <1>i, <4>1 DEF Shared!Stores
    <3>3. Loaded' = [Loaded EXCEPT !["apu"] = Seen["dst"][0]]
      BY <1>b, <2>1 DEF ReadBack, Loaded, Readers, Seen, copyVars
    <3>4. Shared!Load("apu", "dst", 0)
      BY <1>s, <1>v, <3>1, <3>2, <3>3 DEF Shared!Load, Shared!Keep, Seen, Loaded, Readers
    <3> QED BY <1>b, <3>4 DEF Shared!Next, Readers
  <2>2. CASE CopyLoad
    <3>1. Intent = {}
      BY <1>i, <2>2 DEF CopyLoad, Intent, SettingsInv
    <3>2. Intent' \subseteq Shared!Stores
      <4>1. (TypeOK => Intent \subseteq Shared!Stores)'
        BY IntentOK, PTL
      <4> QED BY <1>i, <4>1 DEF Shared!Stores
    <3>3. position \in Bytes /\ beat' = View("src")[position]
      BY <1>i, <2>2, Snoops DEF CopyLoad, LoadBy, TypeOK
    <3>4. PICK i \in Bytes : i = position
      BY <3>3
    <3>5. Loaded' = [Loaded EXCEPT !["copier"] = Seen["src"][i]]
      BY <1>b, <2>2, <3>3, <3>4 DEF CopyLoad, Loaded, Readers, Seen, apuVars
    <3>6. Shared!Load("copier", "src", i)
      BY <1>s, <1>v, <3>1, <3>2, <3>5 DEF Shared!Load, Shared!Keep, Seen, Loaded, Readers
    <3> QED BY <1>b, <3>6 DEF Shared!Next, Readers
  <2>3. CASE ~ReadBack /\ ~CopyLoad
    <3>1. readback' = readback /\ beat' = beat /\ (Intent = {} \/ Intent' = Intent)
      BY <1>i, <1>t, <1>s, <2>3
      DEF Next, Apu, Copy, RpuMain, Handler, vars, EnableSnoop, Configure, FlushSource,
        FlushDestination, StartDma, TriggerIpi, DmaDone, PollForAck, PollTimeout, ApuWaits,
        DisableCache, EnableIpi, ClearExisting, HandlerEnter, HandlerClear, Fetch, Evict,
        Intent, SettingsInv, settingVars, apuVars, copyVars, InHandler
    <3>2. Loaded' = Loaded
      BY <3>1 DEF Loaded
    <3> QED BY <1>i, <1>s, <1>v, <3>1, <3>2, Continues
  <2> QED BY <2>1, <2>2, <2>3
<1> QED BY <1>1, <1>2, <1>3, <1>s

THEOREM Refinement == Spec => ImplementsSharedMemory
<1>1. ASSUME Init, IInv PROVE Shared!Init
  <2>1. Seen \in [Buffers -> [Bytes -> Values]] /\ Intent \subseteq Shared!Stores
    BY <1>1, TypeData, SeenOK, IntentOK DEF IInv
  <2>2. Loaded \in [Readers -> Values]
    BY <1>1 DEF IInv, TypeOK, Loaded
  <2> QED BY <2>1, <2>2 DEF Shared!Init, Seen, Loaded, Readers
<1> QED
  BY <1>1, SharedStep, Invariance, PTL DEF Spec, ImplementsSharedMemory, Shared!Spec
=============================================================================
