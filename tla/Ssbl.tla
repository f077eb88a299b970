-------------------------------- MODULE Ssbl --------------------------------
(***************************************************************************)
(* The second stage boot loader of systems without DDR                     *)
(* (zynq-7000-tips-tricks/ssbl), composed with the FSBL that loads it: the *)
(* FSBL verifies the application in the flash and leaves two pointers in   *)
(* OCM; the SSBL, which runs from high OCM, copies the application's data  *)
(* from the one and jumps to the other.  FsblHandoff is external.          *)
(***************************************************************************)
EXTENDS FsblLoader

VARIABLES
  ssblPc,   \* where main of ssbl_main.c is
  ocm,      \* what its copy loop has put at OCM_HIGH_ADDR
  entered   \* the partition SsblHandoffExit jumped to

ssblVars == <<ssblPc, ocm, entered>>
allVars == <<vars, ssblVars>>

SsblInit == ssblPc = "off" /\ ocm = Nothing /\ entered = 0

\* The FSBL hands off to a partition in high OCM.
SsblStart ==
  /\ pc = "done" /\ exec > 0 /\ ssblPc = "off"
  /\ ~boot.ddr /\ table[exec].load = "ocmhigh"
  /\ ssblPc' = "copy"
  /\ UNCHANGED <<vars, ocm, entered>>

FlashAt(n) ==
  [part |-> n, form |-> IF table[n].enc THEN "cipher" ELSE "plain", intact |-> table[n].intact]

\* LOW_OCM_SIZE bytes, whatever the pointer; partition 0 stands for what an
\* unwritten one leads to.
CopyData ==
  /\ ssblPc = "copy"
  /\ \E c \in Read(FlashAt(dataPtr)) : ocm' = c
  /\ ssblPc' = "handoff"
  /\ UNCHANGED <<vars, entered>>

SsblHandoffExit ==
  /\ ssblPc = "handoff"
  /\ entered' = handoffPtr
  /\ ssblPc' = "app"
  /\ UNCHANGED <<vars, ocm>>

SsblNext == SsblStart \/ CopyData \/ SsblHandoffExit

BootInit == Init /\ SsblInit
BootNext == (Next /\ UNCHANGED ssblVars) \/ SsblNext
\* Both are sequential programs: as long as they can go on, they do.
BootSpec == BootInit /\ [][BootNext]_allVars /\ WF_allVars(BootNext)

----------------------------------------------------------------------------
\* An image for execution in place, as the comments at lines 505-509, 524-529
\* and 534-540 of image_mover.c describe it: the SSBL for high OCM, then the
\* text that runs from the flash and the data that belongs into OCM.  Bitstreams
\* come first: one behind the SSBL ends the loop with a message only (lines
\* 371-378), and the SSBL would find nothing in the pointers.
Applications == {n \in 1 .. count - 1 : table[n].fsbl /\ table[n].type = "ps"}
XipImage(ssbl, text, data) ==
  /\ Applications = {ssbl, text, data} /\ ssbl < text /\ ssbl < data
  /\ \A n \in 1 .. count - 1 : table[n].fsbl /\ table[n].type = "pl" => n < ssbl
  /\ table[ssbl].load = "ocmhigh" /\ table[ssbl].exec = "ram"
  /\ table[text].load = "qspi" /\ table[text].exec = "qspi"
  /\ table[data].load = "ocm" /\ table[data].exec = "zero"
  /\ \A n \in {ssbl, text, data} : ~table[n].enc

\* The application of such an image runs with its own text and its own data,
\* and only when each protected part is as it was built, although the FSBL
\* verifies them one by one and the SSBL knows them from two words of OCM
\* alone (lines 510-532 of image_mover.c, 78-85 of ssbl_main.c).
XipRuns ==
  ssblPc = "app" =>
    \A s, t, d \in 1 .. MaxPart - 1 :
      XipImage(s, t, d) =>
        /\ exec = s /\ entered = t /\ ocm.part = d
        /\ \A n \in {s, t, d} : IsProtected(table[n]) /\ ~boot.readErrors => table[n].intact

\* Every boot ends, in the fallback or with LoadBootImage returning, although
\* two continue statements leave the loop early (lines 355-363, 380-388); and
\* without DDR the boot of such an image goes on into its application.  The
\* exception is a certificate that cannot be read, whose error code
\* LoadBootImage returns as an address (line 260 of image_mover.c).
StartsInPlace == ~boot.ddr /\ \E s, t, d \in 1 .. MaxPart - 1 : XipImage(s, t, d)
BootEnds ==
  <>(\/ pc = "fallback"
     \/ pc = "done" /\ (StartsInPlace => ssblPc = "app" \/ exec = Failure))
=============================================================================
