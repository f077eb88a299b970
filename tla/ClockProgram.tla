---------------------------- MODULE ClockProgram ----------------------------
(***************************************************************************)
(* What programming a clock device promises, without pages, transfers or   *)
(* caches: the entries of a table are stored in their order, each in the   *)
(* register it names; the ones after the preamble wait until the device    *)
(* has settled; and success means that all of them were stored.  Nothing   *)
(* is promised of the registers once the device has been reset meanwhile.  *)
(***************************************************************************)
EXTENDS Naturals, Sequences

CONSTANTS
  Table,      \* the entries, each an address and a value
  Settling,   \* the number of entries after which the device must settle
  Bytes

VARIABLES
  registers,  \* the register file of the device
  stored,     \* the number of entries stored
  settled,    \* whether the device has settled
  outcome,    \* of the attempt: "none", "running", "SUCCESS" or "FAILURE"
  upset       \* whether the device was reset since the attempt began

vars == <<registers, stored, settled, outcome, upset>>

Addresses == {Table[i].address : i \in 1 .. Len(Table)}
RegisterFiles == [Addresses -> Bytes]

Fresh(o) == stored' = 0 /\ settled' = FALSE /\ outcome' = o /\ upset' = FALSE

Init ==
  /\ registers \in RegisterFiles
  /\ stored = 0 /\ settled = FALSE /\ outcome = "none" /\ upset = FALSE

Begin == outcome # "running" /\ Fresh("running") /\ UNCHANGED registers

\* The effect of storing the next entry, when its turn has come.
StoreNext ==
  /\ stored < Len(Table)
  /\ stored < Settling \/ settled
  /\ registers' = [registers EXCEPT ![Table[stored + 1].address] = Table[stored + 1].value]

AnyRegisters == registers' \in RegisterFiles

Store ==
  /\ outcome = "running" /\ stored < Len(Table)
  /\ IF upset THEN AnyRegisters ELSE StoreNext
  /\ stored' = stored + 1
  /\ UNCHANGED <<settled, outcome, upset>>

Settle ==
  /\ outcome = "running" /\ stored = Settling /\ settled' = TRUE
  /\ UNCHANGED <<registers, stored, outcome, upset>>

Succeed ==
  /\ outcome = "running" /\ stored = Len(Table)
  /\ outcome' = "SUCCESS"
  /\ UNCHANGED <<registers, stored, settled, upset>>

\* The failure may be that of a store that took place.
Fail ==
  /\ outcome = "running"
  /\ outcome' = "FAILURE"
  /\ UNCHANGED registers \/ IF upset THEN AnyRegisters ELSE StoreNext
  /\ UNCHANGED <<stored, settled, upset>>

\* The device is reset, and the caller restarted.
Upset == AnyRegisters /\ upset' = TRUE /\ UNCHANGED <<stored, settled, outcome>>
Abandon == Fresh("none") /\ UNCHANGED registers

Next == Begin \/ Store \/ Settle \/ Succeed \/ Fail \/ Upset \/ Abandon
Spec == Init /\ [][Next]_vars
=============================================================================
