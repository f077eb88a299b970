----------------------------- MODULE FsblLoader -----------------------------
(***************************************************************************)
(* The image mover of the Zynq-7000 first stage boot loader                *)
(* (zynq-7000-tips-tricks/fsbl/image_mover.c): LoadBootImage walks the     *)
(* partition headers of the boot image, moves each partition to where its  *)
(* header says, checks, authenticates and decrypts it, programs bitstreams *)
(* into the PL and returns the address to hand off to.                     *)
(*                                                                         *)
(* The partition attributes are kept in global flags that PartitionMove    *)
(* and the later stages read.  Two builds are modelled: with DDR, where a  *)
(* protected partition is checked after it has been moved, and without,    *)
(* where it is checked in the linear flash and may run from there.         *)
(*                                                                         *)
(* Addresses are abstracted to the ranges the code distinguishes, contents *)
(* to which partition they come from, whether they are still encrypted and *)
(* whether they are intact.  The drivers (MoveImage, PCAP), the hooks and  *)
(* FsblFallback, which never returns, are external.  Builds for MMC and    *)
(* silicon before 3.0 are left out.                                        *)
(***************************************************************************)
EXTENDS Integers, Sequences, FiniteSetsExt

CONSTANTS
  MaxPart,   \* MAX_PARTITION_NUMBER
  Images,    \* the partition tables considered
  Boots      \* the builds and boot conditions considered

(***************************************************************************)
(* A header: "last" marks the end of the table, "bad" is one that          *)
(* ValidateHeader refuses.  The type is the one attribute that the file's  *)
(* comment restricts: a partition is either an executable or a bitstream.  *)
(***************************************************************************)
Loads == {"zero", "low", "ddr", "plram", "qspi", "ocm", "ocmhigh"}
Execs == {"zero", "ram", "qspi"}
Headers ==
  [header : {"good", "bad", "last"}, type : {"ps", "pl"}, fsbl : BOOLEAN,
   enc : BOOLEAN, md5 : BOOLEAN, rsa : BOOLEAN,
   load : Loads, exec : Execs, intact : BOOLEAN]

Conditions ==
  [ddr : BOOLEAN,         \* XPAR_PS7_DDR_0_S_AXI_BASEADDR
   linear : BOOLEAN,      \* LinearBootDeviceFlag
   warm : BOOLEAN,        \* the CPU watchdog caused the reset
   encOnly : BOOLEAN,     \* EFUSE_SEC_EN
   fuse : {"blown", "clear", "simulated"},   \* RSA enable; RSA_WITHOUT_EFUSES
   rsaSupport : BOOLEAN,   \* RSA_SUPPORT
   readErrors : BOOLEAN]   \* a read of the boot device may fail or deliver
                           \*   altered data

ASSUME PartAssumption == MaxPart \in Nat \ {0, 1}
ASSUME ImagesAssumption ==
  \A t \in Images : t \in [0 .. MaxPart - 1 -> Headers]
ASSUME BootsAssumption ==
  \A b \in Boots : b \in Conditions /\ (~b.ddr => b.linear)

Forms == {"none", "cipher", "plain", "garbage"}
Contents == [part : 0 .. MaxPart - 1, form : Forms, intact : BOOLEAN]
Nothing == [part |-> 0, form |-> "none", intact |-> TRUE]

Temp == 0                  \* DDR_TEMP_START_ADDR; place n is partition n's
Places == 0 .. MaxPart - 1

VARIABLES
  table,        \* PartitionHeader, and the image it describes
  boot,         \* the conditions of this boot
  pc,           \* the stage LoadBootImage is at
  count,        \* PartitionCount
  num,          \* PartitionNum
  flag,         \* the partition flags, by their first word in lower case
  bitstream,    \* BitstreamFlag
  application,  \* ApplicationFlag
  execFlag,     \* ExecAddrFlag
  exec,         \* ExecAddress: the partition it belongs to, 0, or Failure
  mem,          \* what each place in memory holds
  fabric,       \* what the PL holds
  dataPtr,      \* FLASH_DATA_PTR_ADDR and HANDOFF_PTR_ADDR: the partition
  handoffPtr,   \*   pointed to, or 0 when nobody wrote them
  status        \* what OutputStatus was called with

loopVars == <<count, num>>
flagVars == <<flag, bitstream, application, execFlag, exec>>
memVars == <<mem, fabric>>
ptrVars == <<dataPtr, handoffPtr>>
vars == <<table, boot, pc, loopVars, flagVars, memVars, ptrVars, status>>

Failure == -1    \* XST_FAILURE, returned as if it were an address

Flags == [pl : {0, 1}, ps : {0, 1}, encrypted : {0, 1}, checksum : {0, 1}, signed : {0, 1}]
Bit(b) == IF b THEN 1 ELSE 0

\* What is done with a partition, in this order.
Stages == <<"before", "pointers", "copy", "pcap", "load", "checksum",
            "authenticate", "decrypt", "program", "after", "next">>
StageSet == {Stages[k] : k \in DOMAIN Stages}
Following(s) == Stages[1 + CHOOSE k \in DOMAIN Stages : Stages[k] = s]

Init ==
  /\ table \in Images /\ boot \in Boots
  /\ pc = "headers"
  /\ count = 0 /\ num = 1
  /\ flag = [pl |-> 0, ps |-> 0, encrypted |-> 0, checksum |-> 0, signed |-> 0]
  /\ bitstream = 0 /\ application = 0
  /\ execFlag = 0 /\ exec = 0
  /\ mem = [p \in Places |-> Nothing]
  /\ fabric = Nothing
  /\ dataPtr = 0 /\ handoffPtr = 0
  /\ status = "none"

\* OutputStatus and FsblFallback: nothing is read any more after it.
FallBack(code) ==
  /\ pc' = "fallback" /\ status' = code
  /\ UNCHANGED <<table, boot, loopVars, flagVars, memVars, ptrVars>>

----------------------------------------------------------------------------
(***************************************************************************)
(* The headers.                                                            *)
(***************************************************************************)
IsLastPartition(h) == h.header = "last"
ValidateHeader(h) == h.header = "good"

GetPartitionCount ==
  LET ends == {k \in DOMAIN table : IsLastPartition(table[k])}
  IN IF ends = {} THEN MaxPart ELSE Min(ends)

\* Mistake: a table without an end is accepted.
CountInRange == GetPartitionCount \in 2 .. MaxPart
CountValid == GetPartitionCount \in 2 .. MaxPart - 1

GetPartitionHeaderInfo ==
  /\ pc = "headers"
  /\ CountValid
  /\ count' = GetPartitionCount
  /\ pc' = IF boot.fuse = "clear" THEN "walk" ELSE "rsa"
  /\ UNCHANGED <<table, boot, num, flagVars, memVars, ptrVars, status>>

\* A count out of range, or a read that fails.
HeaderInfoFails ==
  /\ pc = "headers"
  /\ boot.readErrors \/ ~CountValid
  /\ FallBack("GET_HEADER_INFO_FAIL")

\* Without blown fuses the certificate is fetched here; if that fails the
\* function returns XST_FAILURE.
CertificateFails ==
  /\ pc = "rsa" /\ boot.fuse = "simulated" /\ boot.readErrors
  /\ pc' = "done" /\ exec' = Failure
  /\ UNCHANGED <<table, boot, loopVars, flag, bitstream, application, execFlag,
                 memVars, ptrVars, status>>

\* GetNAuthImageHeader; it uses the temporary area before any partition does.
AuthenticateHeaders ==
  /\ pc = "rsa" /\ boot.rsaSupport
  /\ pc' = "walk"
  /\ UNCHANGED <<table, boot, loopVars, flagVars, memVars, ptrVars, status>>

HeaderAuthenticationFails ==
  /\ pc = "rsa"
  /\ FallBack(IF boot.rsaSupport THEN "GET_HEADER_INFO_FAIL" ELSE "RSA_SUPPORT_NOT_ENABLED_FAIL")

----------------------------------------------------------------------------
(***************************************************************************)
(* The loop over the partitions, up to the hook before the download.       *)
(***************************************************************************)
Hdr == table[num]

WalkEnds ==
  /\ pc = "walk" /\ num >= count
  /\ pc' = "done"
  /\ UNCHANGED <<table, boot, loopVars, flagVars, memVars, ptrVars, status>>

AtHeader == pc = "walk" /\ num < count
AtPartition == AtHeader /\ ValidateHeader(Hdr) /\ Hdr.fsbl

BadHeader == AtHeader /\ ~ValidateHeader(Hdr) /\ FallBack("INVALID_HEADER_FAIL")

\* Mistake: the number is not incremented before the continue.
SkipForeignAgain ==
  /\ AtHeader /\ ValidateHeader(Hdr) /\ ~Hdr.fsbl
  /\ UNCHANGED vars

\* The owner is not the FSBL.
SkipForeign ==
  /\ AtHeader /\ ValidateHeader(Hdr) /\ ~Hdr.fsbl
  /\ num' = num + 1
  /\ UNCHANGED <<table, boot, pc, count, flagVars, memVars, ptrVars, status>>

\* Mistake: only a second bitstream is refused.
TooLateForSecond == application = 1 /\ bitstream = 1
TooLate == application = 1

\* A bitstream: too late after an application, not wanted after a warm reset.
Bitstream ==
  /\ AtPartition /\ Hdr.type = "pl"
  /\ flag' = [flag EXCEPT !.pl = 1, !.ps = 0]
  /\ \/ TooLate /\ pc' = "done" /\ bitstream' = 1 /\ UNCHANGED num
     \/ ~TooLate /\ boot.warm /\ bitstream' = 0 /\ num' = num + 1 /\ UNCHANGED pc
     \/ ~TooLate /\ ~boot.warm /\ bitstream' = 1 /\ pc' = "attributes" /\ UNCHANGED num
  /\ UNCHANGED <<table, boot, count, application, execFlag, exec, memVars, ptrVars, status>>

Application ==
  /\ AtPartition /\ Hdr.type = "ps"
  /\ flag' = [flag EXCEPT !.ps = 1, !.pl = 0]
  /\ application' = 1
  /\ pc' = "attributes"
  /\ UNCHANGED <<table, boot, loopVars, bitstream, execFlag, exec, memVars, ptrVars, status>>

BelowDdr == boot.ddr /\ flag.ps = 1 /\ Hdr.load \in {"zero", "low"}
BeyondDdr == boot.ddr /\ flag.ps = 1 /\ Hdr.load \in {"plram", "qspi", "ocm", "ocmhigh"}

\* Mistake: the flags are set, but never cleared.
StickyFlags == [flag EXCEPT !.encrypted = IF Hdr.enc THEN 1 ELSE @,
                            !.checksum = IF Hdr.md5 THEN 1 ELSE @,
                            !.signed = IF Hdr.rsa THEN 1 ELSE @]
AttributeFlags == [flag EXCEPT !.encrypted = Bit(Hdr.enc), !.checksum = Bit(Hdr.md5),
                               !.signed = Bit(Hdr.rsa)]

\* Mistake: every application sets the address.
AnyApplication == flag.ps = 1
FirstApplication == flag.ps = 1 /\ execFlag = 0

\* The attributes of the header, the load address, the execution address of
\* the first application.
Attributes ==
  /\ pc = "attributes"
  /\ ~(boot.encOnly /\ ~Hdr.enc)
  /\ flag' = AttributeFlags
  /\ \/ /\ BelowDdr /\ Hdr.load = "zero" /\ ~Hdr.rsa /\ ~Hdr.enc
        /\ pc' = "done"
        /\ UNCHANGED <<execFlag, exec>>
     \/ /\ ~BelowDdr /\ ~BeyondDdr
        /\ pc' = "before"
        /\ IF FirstApplication
           THEN execFlag' = 1 /\ exec' = (IF Hdr.exec = "zero" THEN 0 ELSE num)
           ELSE UNCHANGED <<execFlag, exec>>
  /\ UNCHANGED <<table, boot, loopVars, bitstream, application, memVars, ptrVars, status>>

EncryptionMissing ==
  /\ pc = "attributes" /\ boot.encOnly /\ ~Hdr.enc
  /\ FallBack("PARTITION_LOAD_FAIL")

InvalidLoadAddress ==
  /\ pc = "attributes" /\ ~(boot.encOnly /\ ~Hdr.enc)
  /\ BelowDdr \/ BeyondDdr
  /\ ~(Hdr.load = "zero" /\ ~Hdr.rsa /\ ~Hdr.enc)
  /\ FallBack("INVALID_LOAD_ADDRESS_FAIL")

----------------------------------------------------------------------------
(***************************************************************************)
(* Moving, checking and programming the partition, stage by stage.         *)
(***************************************************************************)
Protected == flag.signed = 1 \/ flag.checksum = 1

\* Without DDR only what does not run from, or belongs to, the flash moves.
Moves ==
  \/ boot.ddr
  \/ flag.pl = 1 /\ flag.signed = 0
  \/ flag.pl = 0 /\ (Hdr.exec = "ram" \/ (Hdr.exec = "zero" /\ Hdr.load \in {"ocmhigh", "plram"}))

\* Mistake: the exception is made for signed partitions only.
SecureUnlessSigned == flag.encrypted = 1 /\ ~(flag.ps = 1 /\ flag.signed = 1)

\* Protected partitions of the PS are moved as they are.
SecureTransfer == flag.encrypted = 1 /\ ~(flag.ps = 1 /\ Protected)

\* The PCAP moves what the CPU has not, and decrypts what it has.
ByPcap ==
  \/ boot.linear /\ flag.pl = 1 /\ Protected
  \/ boot.linear /\ flag.ps = 1
  \/ ~boot.linear /\ flag.ps = 1 /\ SecureTransfer

Applies ==
  [before |-> flag.pl = 1,
   pointers |-> ~boot.ddr,
   copy |-> Moves /\ ~boot.linear,
   pcap |-> Moves /\ ByPcap,
   load |-> Moves /\ flag.pl = 1 /\ ~Protected,
   checksum |-> flag.checksum = 1,
   authenticate |-> flag.signed = 1,
   decrypt |-> Protected /\ flag.encrypted = 1 /\ flag.ps = 1,
   program |-> Protected /\ flag.pl = 1,
   after |-> flag.pl = 1,
   next |-> TRUE]

At(s) == pc = s /\ Applies[s]

\* The rest of an action of stage pc, but for memory and the pointers.
Advance ==
  /\ pc' = Following(pc)
  /\ UNCHANGED <<table, boot, loopVars, flagVars, status>>

Skip ==
  /\ pc \in StageSet /\ ~Applies[pc]
  /\ Advance /\ UNCHANGED <<memVars, ptrVars>>

\* A PL partition goes through the temporary area.
Place == IF flag.pl = 1 THEN Temp ELSE num

InFlash ==
  [part |-> num, form |-> IF Hdr.enc THEN "cipher" ELSE "plain", intact |-> Hdr.intact]

Read(c) == {c} \cup (IF boot.readErrors THEN {[c EXCEPT !.intact = FALSE]} ELSE {})

Decrypted(c) == [c EXCEPT !.form = IF @ = "cipher" THEN "plain" ELSE "garbage"]

BeforeHook == At("before") /\ Advance /\ UNCHANGED <<memVars, ptrVars>>
AfterHook == At("after") /\ Advance /\ UNCHANGED <<memVars, ptrVars>>

\* Mistake: a later partition clears the pointer.
PointerReset(p, here) == IF here THEN num ELSE 0
Pointer(p, here) == IF here THEN num ELSE p

\* The addresses the second stage boot loader needs.
SetPointers ==
  /\ At("pointers")
  /\ handoffPtr' = Pointer(handoffPtr, Hdr.exec = "qspi")
  /\ dataPtr' = Pointer(dataPtr, flag.ps = 1 /\ Hdr.load = "ocm")
  /\ Advance /\ UNCHANGED memVars

\* MoveImage.
Copy ==
  /\ At("copy")
  /\ \E c \in Read(InFlash) : mem' = [mem EXCEPT ![Place] = c]
  /\ Advance /\ UNCHANGED <<fabric, ptrVars>>

\* PcapDataTransfer, from the flash or in place.
Transfer ==
  /\ At("pcap")
  /\ \E c \in (IF boot.linear THEN Read(InFlash) ELSE {mem[Place]}) :
       mem' = [mem EXCEPT ![Place] = IF SecureTransfer /\ flag.pl = 0 THEN Decrypted(c) ELSE c]
  /\ Advance /\ UNCHANGED <<fabric, ptrVars>>

\* PcapLoadPartition.
Programmed(c) == IF flag.encrypted = 1 THEN Decrypted(c) ELSE c

LoadFabric ==
  /\ At("load")
  /\ \E c \in (IF boot.linear THEN Read(InFlash) ELSE {mem[Place]}) : fabric' = Programmed(c)
  /\ Advance /\ UNCHANGED <<mem, ptrVars>>

\* Mistake: the flash is checked instead of the copy.
AlwaysFlash == Read(InFlash)

\* What lies at PartitionStartAddr: the copy, or without DDR the flash.
AtStartAddr == IF boot.ddr THEN {mem[Place]} ELSE Read(InFlash)

\* Checksum and signature were made of the image as it is in the flash.
Matches(c) == c.intact /\ c.part = num /\ c.form = InFlash.form

ValidatePartition ==
  /\ At("checksum")
  /\ \E c \in AtStartAddr : Matches(c)
  /\ Advance /\ UNCHANGED <<memVars, ptrVars>>

ChecksumFails ==
  /\ At("checksum")
  /\ boot.readErrors \/ \E c \in AtStartAddr : ~Matches(c)
  /\ FallBack("PARTITION_CHECKSUM_FAIL")

AuthenticatePartition ==
  /\ At("authenticate") /\ boot.rsaSupport
  /\ \E c \in AtStartAddr : Matches(c)
  /\ Advance /\ UNCHANGED <<memVars, ptrVars>>

AuthenticationFails ==
  /\ At("authenticate") /\ boot.rsaSupport
  /\ \E c \in AtStartAddr : ~Matches(c)
  /\ FallBack("AUTHENTICATION_FAIL")

NoRsaSupport ==
  /\ At("authenticate") /\ ~boot.rsaSupport
  /\ FallBack("RSA_SUPPORT_NOT_ENABLED_FAIL")

\* In place: without DDR that is the flash, which a write does not change.
DecryptPartition ==
  /\ At("decrypt")
  /\ mem' = IF boot.ddr THEN [mem EXCEPT ![num] = Decrypted(@)] ELSE mem
  /\ Advance /\ UNCHANGED <<fabric, ptrVars>>

ProgramFabric ==
  /\ At("program")
  /\ \E c \in AtStartAddr : fabric' = Programmed(c)
  /\ Advance /\ UNCHANGED <<mem, ptrVars>>

\* A driver or a hook reports a failure.
CallFails ==
  \E s \in {"before", "copy", "pcap", "load", "decrypt", "program", "after"} :
    /\ At(s)
    /\ s = "copy" => boot.readErrors
    /\ FallBack([before |-> "FSBL_BEFORE_BSTREAM_HOOK_FAIL", copy |-> "PARTITION_MOVE_FAIL",
                 pcap |-> "PARTITION_MOVE_FAIL", load |-> "PARTITION_MOVE_FAIL",
                 decrypt |-> "DECRYPTION_FAIL", program |-> "BITSTREAM_DOWNLOAD_FAIL",
                 after |-> "FSBL_AFTER_BSTREAM_HOOK_FAIL"][s])

NextPartition ==
  /\ At("next")
  /\ num' = num + 1
  /\ pc' = "walk"
  /\ UNCHANGED <<table, boot, count, flagVars, memVars, ptrVars, status>>

----------------------------------------------------------------------------
ReadHeaders ==
  GetPartitionHeaderInfo \/ HeaderInfoFails \/ CertificateFails
  \/ AuthenticateHeaders \/ HeaderAuthenticationFails

Walk ==
  WalkEnds \/ BadHeader \/ SkipForeign \/ Bitstream \/ Application
  \/ Attributes \/ EncryptionMissing \/ InvalidLoadAddress \/ NextPartition

PartitionMove == Copy \/ Transfer \/ LoadFabric

CheckPartition ==
  ValidatePartition \/ ChecksumFails \/ AuthenticatePartition \/ AuthenticationFails
  \/ NoRsaSupport \/ DecryptPartition \/ ProgramFabric

Next ==
  ReadHeaders \/ Walk \/ BeforeHook \/ SetPointers \/ PartitionMove \/ CheckPartition
  \/ AfterHook \/ CallFails \/ Skip

Spec == Init /\ [][Next]_vars

----------------------------------------------------------------------------
(***************************************************************************)
(* Properties.                                                             *)
(***************************************************************************)

\* The type invariant: the loop never leaves the table, the globals and the
\* stages stay in their ranges.
TypeOK ==
  /\ table \in [0 .. MaxPart - 1 -> Headers] /\ boot \in Conditions
  /\ pc \in {"headers", "rsa", "walk", "attributes", "done", "fallback"} \cup StageSet
  /\ count \in 0 .. MaxPart - 1 /\ num \in 1 .. MaxPart - 1
  /\ pc \in StageSet \cup {"attributes"} => num < count
  /\ flag \in Flags
  /\ bitstream \in {0, 1} /\ application \in {0, 1} /\ execFlag \in {0, 1}
  /\ exec \in {Failure} \cup Places
  /\ mem \in [Places -> Contents] /\ fabric \in Contents
  /\ dataPtr \in Places /\ handoffPtr \in Places

\* The applications that the loop has dealt with.
Loaded == {n \in 1 .. num - 1 : table[n].fsbl /\ table[n].type = "ps"}
IsProtected(h) == h.rsa \/ h.md5
InClear(n) == mem[n].part = n /\ mem[n].form = "plain"

\* With DDR, every application that has been dealt with lies decrypted, once
\* and not twice, at its load address, and the PL never holds a bitstream that
\* is still encrypted: PartitionMove and the stages after it share the work by
\* flags (lines 1223-1247, 624-652).
LoadedInClear ==
  /\ boot.ddr => \A n \in Loaded : InClear(n)
  /\ fabric.form \in {"none", "plain"}

\* The same for every application that is moved to memory, in both builds:
\* comments at lines 624-626 and 1239-1242.
MovedInClear == \A n \in Loaded : boot.ddr \/ table[n].exec = "ram" => InClear(n)

\* With DDR, a protected partition that is in use is intact even when a read of
\* the boot device has altered it: it is checked where it is used (lines
\* 555-622), after the last read.
ProtectedIntact ==
  boot.ddr =>
    /\ \A n \in Loaded : IsProtected(table[n]) => mem[n].intact
    /\ fabric.form # "none" /\ IsProtected(table[fabric.part]) => fabric.intact

\* No partition that is as it was built is refused by its checksum or its
\* signature: what is checked is always the form that was signed, although the
\* move and the decryption are elsewhere (lines 571-622, 1223-1247).
GoodImageAccepted ==
  status \in {"PARTITION_CHECKSUM_FAIL", "AUTHENTICATION_FAIL"} /\ ~boot.readErrors
    => ~table[num].intact

\* LoadBootImage returns the address of the first application, and only when
\* that has been loaded: neither a break out of the loop nor a partition for
\* someone else makes it return one that has not (lines 447-474, 667-673).
HandoffSound ==
  pc = "done" /\ exec > 0 =>
    /\ exec \in Loaded /\ \A n \in Loaded : exec <= n
    /\ boot.ddr => InClear(exec)
    /\ boot.ddr /\ IsProtected(table[exec]) => mem[exec].intact

\* The temporary area in low DDR, where an application may lie, is not written
\* any more after the first application (lines 371-378).
BounceSafe == [][mem'[Temp] # mem[Temp] => Loaded = {}]_vars

=============================================================================
