------------------------------- MODULE Si5381 -------------------------------
(***************************************************************************)
(* Programming the Si5381 clock device over I2C (zcu670-si5381): a table   *)
(* of registers is written through a page register, after an identifier    *)
(* was read, and most of it is read back.                                  *)
(*                                                                         *)
(* WriteSi538xRegister remembers the page it set last for as long as the   *)
(* program runs, across calls of ProgramSi5381, and sends a page command   *)
(* only for another one.  The device may be reset or transfers may fail,   *)
(* and a transfer may fail although it reached the device.  Programming is *)
(* called again and again, and the processor may be restarted.             *)
(*                                                                         *)
(* The device and the I2C driver are external: a register holds what was   *)
(* written to it, and the busy bit is assumed to clear (lines 79-82).  One *)
(* slave address is ever passed, so LastSlaveAddr follows LastPage.        *)
(***************************************************************************)
EXTENDS Integers, Sequences

CONSTANTS
  Configuration,  \* the entries between preamble and postamble of the table
  PREAMBLE_SIZE,
  POSTAMBLE_SIZE,
  Default         \* what a register holds after a reset

PAGE_CMD == 1
PART_NUM_CMD == 2

Bytes == 0 .. 255
Words == 0 .. 65535

Page(address) == (address \div 256) % 256
Low(address) == address % 256

Entries == [address : Words, value : Bytes]
Entry(a, v) == [address |-> a, value |-> v]
Preamble == <<Entry(\h0B24, \hC0), Entry(\h0B25, \h04), Entry(\h0540, \h01)>>
Postamble ==
  <<Entry(\h0514, \h01), Entry(\h001C, \h01), Entry(\h0540, \h00),
    Entry(\h0B24, \hC3), Entry(\h0B25, \h06)>>
Registers == Preamble \o Configuration \o Postamble
Count == Len(Registers)

Addresses == {Registers[i].address : i \in 1 .. Count}

(***************************************************************************)
(* What the four header files have in common: the preamble and postamble   *)
(* above and, between them, registers that occur once, none of them a page *)
(* command.                                                                *)
(***************************************************************************)
ASSUME ConfigurationAssumption ==
  /\ Configuration \in Seq(Entries)
  /\ Configuration # <<>>
  /\ \A i \in 1 .. Len(Configuration) :
       /\ Low(Configuration[i].address) # PAGE_CMD
       /\ \A j \in 1 .. Count :
            Configuration[i].address = Registers[j].address => j = i + Len(Preamble)
ASSUME SizesAssumption == PREAMBLE_SIZE = Len(Preamble) /\ POSTAMBLE_SIZE = Len(Postamble)
ASSUME DefaultAssumption == Default \in Bytes

VARIABLES
  at,         \* where the call of ProgramSi5381 is, "idle" when there is none
  phase,      \* what it is at: "id", "write" or "verify"
  index,      \* i + 1, into Registers
  LastPage,   \* static in WriteSi538xRegister
  matches,    \* whether ReadBuffer has the bytes that it is compared with
  result,     \* what the latest call returned, or "running"
  (*************************************************************************)
  (* The device: the page and the register that it is addressed at.        *)
  (*************************************************************************)
  page, pointer, registers,
  (*************************************************************************)
  (* What happened since the call began, for the properties.               *)
  (*************************************************************************)
  settled,    \* the delay after the preamble
  misread,    \* a message about a readback failure
  faults      \* "failed" transfers, a "reset" of the device

device == <<page, pointer, registers>>
history == <<settled, misread, faults>>
vars == <<at, phase, index, LastPage, matches, result, device, history>>

Init ==
  /\ at = "idle" /\ phase = "id" /\ index = 1 /\ result = "none"
  /\ LastPage = -1 /\ matches = FALSE
  /\ page \in {Page(a) : a \in Addresses} /\ pointer = 0
  /\ registers = [a \in Addresses |-> Default]
  /\ settled = FALSE /\ misread = FALSE /\ faults = {}

----------------------------------------------------------------------------
\* How a polled transfer ends: reported as done, or as failed, which it may
\* have done before or after the device took it.
Transfers == {"done", "lost", "late"}

\* The register that WriteSi538xRegister or ReadSi538xRegister is called for.
Target == IF phase = "id" THEN PART_NUM_CMD ELSE Registers[index].address

Return(status) == at' = "idle" /\ result' = status

\* Every failure ends the call, except that the status of reading the
\* identifier is not looked at (lines 208-210).
Failed ==
  /\ IF phase = "id" THEN at' = "check" /\ UNCHANGED result ELSE Return("FAILURE")
  /\ faults' = faults \cup {"failed"}

Proceed(place) == at' = place /\ UNCHANGED <<result, faults>>

Call ==
  /\ at = "idle"
  /\ at' = "driver" /\ phase' = "id" /\ index' = 1 /\ result' = "running"
  /\ matches' = FALSE /\ settled' = FALSE /\ misread' = FALSE /\ faults' = {}
  /\ UNCHANGED <<LastPage, device>>

\* XIicPs_LookupConfig, XIicPs_CfgInitialize and XIicPs_SetSClk, and then the
\* command to the multiplexer on the board.
SetUp(place, next) ==
  /\ at = place
  /\ \/ Proceed(next)
     \/ Return("FAILURE") /\ faults' = faults \cup {"failed"}
  /\ UNCHANGED <<phase, index, LastPage, matches, device, settled, misread>>

InitDriver == SetUp("driver", "mux")
SetMux == SetUp("mux", "page")

PageAbove == Page(Target) > LastPage
PageNeeded == Page(Target) # LastPage

SetPage ==
  /\ at = "page" /\ PageNeeded
  /\ \E t \in Transfers :
       /\ page' = IF t = "lost" THEN page ELSE Page(Target)
       /\ pointer' = IF t = "lost" THEN pointer ELSE PAGE_CMD
       /\ LastPage' = IF t = "done" THEN Page(Target) ELSE LastPage
       /\ IF t = "done" THEN Proceed("register") ELSE Failed
  /\ UNCHANGED <<phase, index, matches, registers, settled, misread>>

KeepPage ==
  /\ at = "page" /\ ~PageNeeded
  /\ Proceed("register")
  /\ UNCHANGED <<phase, index, LastPage, matches, device, settled, misread>>

\* The register of the device that is addressed, which need not be Target.
Addressed(low) == 256 * page + low

Stored(value) == [a \in Addresses |-> IF a = Addressed(Low(Target)) THEN value ELSE registers[a]]

NextEntryBeyond ==
  IF phase = "write" /\ index > Count
  THEN phase' = "verify" /\ index' = PREAMBLE_SIZE + 1 /\ at' = "page" /\ UNCHANGED result
  ELSE IF phase = "verify" /\ index >= Count - POSTAMBLE_SIZE
  THEN Return("SUCCESS") /\ UNCHANGED <<phase, index>>
  ELSE index' = index + 1 /\ at' = "page" /\ UNCHANGED <<phase, result>>

\* What the loops do after an entry; the second one starts over behind the
\* preamble and ends before the postamble.
NextEntry ==
  IF phase = "write" /\ index = Count
  THEN phase' = "verify" /\ index' = PREAMBLE_SIZE + 1 /\ at' = "page" /\ UNCHANGED result
  ELSE IF phase = "verify" /\ index >= Count - POSTAMBLE_SIZE
  THEN Return("SUCCESS") /\ UNCHANGED <<phase, index>>
  ELSE index' = index + 1 /\ at' = "page" /\ UNCHANGED <<phase, result>>

SendRegisterUnchecked ==
  /\ at = "register"
  /\ \E t \in Transfers :
       /\ IF t = "lost"
          THEN UNCHANGED <<pointer, registers>>
          ELSE /\ pointer' = Low(Target)
               /\ registers' = IF phase = "write" THEN Stored(Registers[index].value) ELSE registers
       /\ IF phase # "write" THEN Proceed("receive") /\ UNCHANGED <<phase, index>>
          ELSE IF index = PREAMBLE_SIZE THEN Proceed("delay") /\ UNCHANGED <<phase, index>>
          ELSE NextEntry /\ UNCHANGED faults
  /\ UNCHANGED <<LastPage, matches, page, settled, misread>>

\* The register address, with the value when there is one to write.
SendRegister ==
  /\ at = "register"
  /\ \E t \in Transfers :
       /\ IF t = "lost"
          THEN UNCHANGED <<pointer, registers>>
          ELSE /\ pointer' = Low(Target)
               /\ registers' = IF phase = "write" THEN Stored(Registers[index].value) ELSE registers
       /\ IF t # "done" THEN Failed /\ UNCHANGED <<phase, index>>
          ELSE IF phase # "write" THEN Proceed("receive") /\ UNCHANGED <<phase, index>>
          ELSE IF index = PREAMBLE_SIZE THEN Proceed("delay") /\ UNCHANGED <<phase, index>>
          ELSE NextEntry /\ UNCHANGED faults
  /\ UNCHANGED <<LastPage, matches, page, settled, misread>>

\* usleep(625 * ONE_MS_IN_USEC), the time that a calibration may take.
Delay ==
  /\ at = "delay"
  /\ settled' = TRUE /\ NextEntry
  /\ UNCHANGED <<LastPage, matches, device, misread, faults>>

\* Whether the device delivers what is expected: the identifier is on page 0
\* only, and of a register that is not in the table anything may be read.
Delivers(expected) ==
  IF phase = "id"
  THEN expected = (page = 0 /\ pointer = PART_NUM_CMD)
  ELSE Addressed(pointer) \in Addresses =>
         expected = (registers[Addressed(pointer)] = Registers[index].value)

Receive ==
  /\ at = "receive"
  /\ \E t \in Transfers :
       /\ IF t = "lost" THEN UNCHANGED matches ELSE matches' \in {m \in BOOLEAN : Delivers(m)}
       /\ IF t = "done" THEN Proceed("check") ELSE Failed
  /\ UNCHANGED <<phase, index, LastPage, device, settled, misread>>

CheckIdPassed ==
  /\ at = "check" /\ phase = "id"
  /\ phase' = "write" /\ at' = "page"
  /\ UNCHANGED <<index, LastPage, matches, result, device, history>>

CheckId ==
  /\ at = "check" /\ phase = "id"
  /\ IF matches THEN phase' = "write" /\ at' = "page" /\ UNCHANGED result
                ELSE Return("FAILURE") /\ UNCHANGED phase
  /\ UNCHANGED <<index, LastPage, matches, device, history>>

\* A value that differs is worth a message only.
CheckRegister ==
  /\ at = "check" /\ phase = "verify"
  /\ misread' = (misread \/ ~matches)
  /\ NextEntry
  /\ UNCHANGED <<LastPage, matches, device, settled, faults>>

----------------------------------------------------------------------------
\* The device is reset by its pin or its supply.
Reset ==
  /\ page' = 0 /\ pointer' = 0
  /\ registers' = [a \in Addresses |-> Default]
  /\ faults' = faults \cup {"reset"}
  /\ UNCHANGED <<at, phase, index, LastPage, matches, result, settled, misread>>

\* The processor restarts with its program; the device does not.
Restart ==
  /\ at' = "idle" /\ phase' = "id" /\ index' = 1 /\ result' = "none"
  /\ LastPage' = -1 /\ matches' = FALSE
  /\ settled' = FALSE /\ misread' = FALSE /\ faults' = {}
  /\ UNCHANGED device

Step ==
  \/ InitDriver \/ SetMux
  \/ SetPage \/ KeepPage \/ SendRegister \/ Receive
  \/ Delay \/ CheckId \/ CheckRegister
Next == Call \/ Step \/ Reset \/ Restart

Spec == Init /\ [][Next]_vars

----------------------------------------------------------------------------
Places == {"idle", "driver", "mux", "page", "register", "delay", "receive", "check"}

\* Type correctness: the loops stay in the table, and no call is both over and
\* without a result.
TypeOK ==
  /\ at \in Places /\ phase \in {"id", "write", "verify"} /\ index \in 1 .. Count
  /\ LastPage \in Bytes \cup {-1} /\ page \in Bytes /\ pointer \in Bytes
  /\ matches \in BOOLEAN /\ settled \in BOOLEAN /\ misread \in BOOLEAN
  /\ result \in {"none", "running", "SUCCESS", "FAILURE"}
  /\ at # "idle" <=> result = "running"
  /\ registers \in [Addresses -> Bytes]
  /\ faults \subseteq {"failed", "reset"}

\* The postamble sets three registers of the preamble once more.
Final(i) == \A j \in i + 1 .. Count : Registers[j].address # Registers[i].address

\* When ProgramSi5381 returns XST_SUCCESS, every register has the value that
\* the table gives it last, whatever failed in earlier calls and wherever
\* they left the device and LastPage; and no readback differed.  The exception
\* is a reset of the device since the call began, which the code may not see.
SuccessConfigured ==
  result = "SUCCESS" /\ "reset" \notin faults =>
    /\ ~misread
    /\ \A i \in 1 .. Count : Final(i) => registers[Registers[i].address] = Registers[i].value

\* A call in which nothing goes wrong fails for one reason only: an earlier
\* call has left the device on another page than LastPage says, and LastPage
\* is the page of the identifier, so that no page command is sent.  Every
\* other page that LastPage has wrong is repaired by reading the identifier.
FailureExplained ==
  result = "FAILURE" /\ faults = {} => LastPage = 0 /\ page # 0

\* The entries stored, for the abstract program.
Written ==
  CASE phase = "id" -> 0
    [] phase = "write" -> IF at = "delay" THEN index ELSE index - 1
    [] phase = "verify" -> Count

Program ==
  INSTANCE ClockProgram WITH
    Table <- Registers, Settling <- Len(Preamble), stored <- Written,
    outcome <- result, upset <- "reset" \in faults

\* The writes through the page register store the table in its order, each
\* entry in the register it names, the ones after the preamble only when the
\* device has settled; and success is returned only after the last.
ImplementsProgram == Program!Init /\ [][Program!Next]_Program!vars
=============================================================================
