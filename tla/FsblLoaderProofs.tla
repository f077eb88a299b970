-------------------------- MODULE FsblLoaderProofs --------------------------
(***************************************************************************)
(* Proofs about FsblLoader, and about Ssbl that goes on where it ends, for *)
(* every table of partitions, every build and every boot condition.        *)
(***************************************************************************)
EXTENDS Ssbl, TLAPS

USE PartAssumption, ImagesAssumption, BootsAssumption DEF Places, Temp

\* The stages follow each other within the sequence.
LEMMA StageFollows == \A s \in StageSet \ {"next"} : Following(s) \in StageSet
<1> SUFFICES ASSUME NEW s \in StageSet, s # "next" PROVE Following(s) \in StageSet
  OBVIOUS
<1> DEFINE k == CHOOSE j \in DOMAIN Stages : Stages[j] = s
<1>1. DOMAIN Stages = 1 .. 11
  BY DEF Stages
<1>2. \E j \in DOMAIN Stages : Stages[j] = s
  BY DEF StageSet
<1>3. k \in 1 .. 11 /\ Stages[k] = s
  BY <1>1, <1>2
<1>4. Stages[11] = "next"
  BY DEF Stages
<1> QED BY <1>1, <1>3, <1>4 DEF Following, StageSet

\* The names of the stages.
LEMMA StageNames ==
  StageSet = {"before", "pointers", "copy", "pcap", "load", "checksum",
              "authenticate", "decrypt", "program", "after", "next"}
<1>1. DOMAIN Stages = 1 .. 11
  BY DEF Stages
<1> QED BY <1>1 DEF StageSet, Stages

\* Sets of the types, and what each of the conversions gives.
LEMMA Types ==
  /\ \A b \in BOOLEAN : Bit(b) \in {0, 1}
  /\ TypeOK => InFlash \in Contents
  /\ \A c \in Contents : TypeOK => Read(c) \subseteq Contents
  /\ \A c \in Contents : Decrypted(c) \in Contents
<1>1. \A b \in BOOLEAN : Bit(b) \in {0, 1}
  BY DEF Bit
<1>2. TypeOK => InFlash \in Contents
  BY DEF TypeOK, InFlash, Hdr, Headers, Contents, Forms
<1>3. \A c \in Contents : TypeOK => Read(c) \subseteq Contents
  BY DEF TypeOK, Read, Contents, Forms
<1>4. \A c \in Contents : Decrypted(c) \in Contents
  BY DEF Decrypted, Contents, Forms
<1> QED BY <1>1, <1>2, <1>3, <1>4

LEMMA TypeInit == Init => TypeOK
<1> SUFFICES ASSUME Init PROVE TypeOK
  OBVIOUS
<1>1. table \in [0 .. MaxPart - 1 -> Headers] /\ boot \in Conditions
  BY DEF Init
<1>2. Nothing \in Contents
  BY DEF Nothing, Contents, Forms
<1>3. flag \in Flags
  BY DEF Init, Flags
<1> QED BY <1>1, <1>2, <1>3, StageNames DEF Init, TypeOK, Failure

\* What each kind of step leaves alone keeps its type.
LEMMA AdvanceType ==
  ASSUME TypeOK, Advance, pc \in StageSet, pc # "next", ptrVars' \in Places \X Places,
         mem' \in [Places -> Contents], fabric' \in Contents
  PROVE  TypeOK'
<1>1. pc' \in StageSet
  BY StageFollows DEF Advance
<1> QED BY <1>1 DEF TypeOK, Advance, loopVars, flagVars, ptrVars

LEMMA FallBackType == ASSUME TypeOK, NEW c, FallBack(c) PROVE TypeOK'
BY DEF TypeOK, FallBack, loopVars, flagVars, memVars, ptrVars, StageSet, Stages

\* The steps that read the headers.
LEMMA HeadersType ==
  ASSUME TypeOK, ReadHeaders PROVE TypeOK'
<1>1. CASE GetPartitionHeaderInfo
  BY <1>1, StageNames DEF GetPartitionHeaderInfo, CountValid, TypeOK, flagVars, memVars, ptrVars
<1>2. CASE HeaderInfoFails
  BY <1>2, FallBackType DEF HeaderInfoFails
<1>3. CASE CertificateFails
  BY <1>3, StageNames DEF CertificateFails, TypeOK, loopVars, memVars, ptrVars
<1>4. CASE AuthenticateHeaders
  BY <1>4, StageNames DEF AuthenticateHeaders, TypeOK, loopVars, flagVars, memVars, ptrVars
<1>5. CASE HeaderAuthenticationFails
  BY <1>5, FallBackType DEF HeaderAuthenticationFails
<1> QED BY <1>1, <1>2, <1>3, <1>4, <1>5 DEF ReadHeaders

\* The steps of the loop.
LEMMA WalkType ==
  ASSUME TypeOK, Walk PROVE TypeOK'
<1> USE StageNames
<1>1. CASE WalkEnds
  BY <1>1 DEF WalkEnds, TypeOK, loopVars, flagVars, memVars, ptrVars
<1>2. CASE BadHeader
  BY <1>2, FallBackType DEF BadHeader
<1>3. CASE SkipForeign
  BY <1>3 DEF SkipForeign, AtHeader, TypeOK, flagVars, memVars, ptrVars
<1>4. CASE Bitstream
  <2>1. flag' \in Flags
    BY <1>4 DEF Bitstream, TypeOK, Flags
  <2>2. /\ bitstream' \in {0, 1} /\ num' \in 1 .. MaxPart - 1
        /\ pc' \in {"done", "walk", "attributes"} /\ (pc' = "attributes" => num' < count)
    BY <1>4 DEF Bitstream, AtPartition, AtHeader, TypeOK
  <2> QED BY <1>4, <2>1, <2>2 DEF Bitstream, TypeOK, memVars, ptrVars
<1>5. CASE Application
  <2>1. flag' \in Flags
    BY <1>5 DEF Application, TypeOK, Flags
  <2> QED BY <1>5, <2>1 DEF Application, AtPartition, AtHeader, TypeOK, loopVars, memVars, ptrVars
<1>6. CASE Attributes
  <2>1. flag' \in Flags
    <3>1. Bit(Hdr.enc) \in {0, 1} /\ Bit(Hdr.md5) \in {0, 1} /\ Bit(Hdr.rsa) \in {0, 1}
      BY DEF Bit
    <3>2. AttributeFlags \in Flags
      BY <3>1 DEF AttributeFlags, Flags, TypeOK
    <3> QED BY <1>6, <3>2 DEF Attributes
  <2>2. execFlag' \in {0, 1} /\ exec' \in {Failure} \cup Places /\ pc' \in {"done", "before"}
    BY <1>6 DEF Attributes, TypeOK
  <2> QED BY <1>6, <2>1, <2>2 DEF Attributes, TypeOK, loopVars, memVars, ptrVars
<1>7. CASE EncryptionMissing
  BY <1>7, FallBackType DEF EncryptionMissing
<1>8. CASE InvalidLoadAddress
  BY <1>8, FallBackType DEF InvalidLoadAddress
<1>9. CASE NextPartition
  BY <1>9 DEF NextPartition, At, TypeOK, flagVars, memVars, ptrVars
<1> QED BY <1>1, <1>2, <1>3, <1>4, <1>5, <1>6, <1>7, <1>8, <1>9 DEF Walk

\* The stages.
LEMMA StagesType ==
  ASSUME TypeOK,
         BeforeHook \/ SetPointers \/ PartitionMove \/ CheckPartition \/ AfterHook
           \/ CallFails \/ Skip
  PROVE  TypeOK'
<1> USE StageNames
<1>1. /\ mem \in [Places -> Contents] /\ fabric \in Contents /\ ptrVars \in Places \X Places
      /\ Place \in Places /\ num \in Places
  BY DEF TypeOK, ptrVars, Place
<1>2. AtStartAddr \subseteq Contents /\ Read(InFlash) \subseteq Contents
  BY <1>1, Types DEF AtStartAddr
<1>3. \A c \in Contents : Programmed(c) \in Contents /\ Decrypted(c) \in Contents
  BY Types DEF Programmed
<1>4. CASE BeforeHook \/ AfterHook
  BY <1>4, <1>1, AdvanceType DEF BeforeHook, AfterHook, At, memVars, ptrVars
<1>5. CASE SetPointers
  BY <1>5, <1>1, AdvanceType DEF SetPointers, Pointer, At, memVars, ptrVars
<1>6. CASE Copy
  BY <1>6, <1>1, <1>2, AdvanceType DEF Copy, At, ptrVars
<1>7. CASE Transfer
  <2>1. mem' \in [Places -> Contents]
    BY <1>7, <1>1, <1>2, <1>3 DEF Transfer
  <2> QED BY <1>7, <1>1, <2>1, AdvanceType DEF Transfer, At, ptrVars
<1>8. CASE LoadFabric
  <2>1. fabric' \in Contents
    BY <1>8, <1>1, <1>2, <1>3 DEF LoadFabric
  <2> QED BY <1>8, <1>1, <2>1, AdvanceType DEF LoadFabric, At, ptrVars
<1>9. CASE CheckPartition
  <2>1. CASE ValidatePartition \/ AuthenticatePartition
    BY <2>1, <1>1, AdvanceType DEF ValidatePartition, AuthenticatePartition, At, memVars, ptrVars
  <2>2. CASE ChecksumFails \/ AuthenticationFails \/ NoRsaSupport
    BY <2>2, FallBackType DEF ChecksumFails, AuthenticationFails, NoRsaSupport
  <2>3. CASE DecryptPartition
    <3>1. mem' \in [Places -> Contents]
      BY <2>3, <1>1, <1>3 DEF DecryptPartition
    <3> QED BY <2>3, <1>1, <3>1, AdvanceType DEF DecryptPartition, At, ptrVars
  <2>4. CASE ProgramFabric
    <3>1. fabric' \in Contents
      BY <2>4, <1>2, <1>3 DEF ProgramFabric
    <3> QED BY <2>4, <1>1, <3>1, AdvanceType DEF ProgramFabric, At, ptrVars
  <2> QED BY <1>9, <2>1, <2>2, <2>3, <2>4 DEF CheckPartition
<1>10. CASE CallFails
  BY <1>10, FallBackType DEF CallFails
<1>11. CASE Skip
  <2>1. pc # "next"
    BY <1>11 DEF Skip, Applies
  <2> QED BY <1>11, <1>1, <2>1, AdvanceType DEF Skip, memVars, ptrVars
<1> QED
  BY <1>4, <1>5, <1>6, <1>7, <1>8, <1>9, <1>10, <1>11 DEF PartitionMove

LEMMA TypeStep == TypeOK /\ [Next]_vars => TypeOK'
<1> SUFFICES ASSUME TypeOK, [Next]_vars PROVE TypeOK'
  OBVIOUS
<1>1. CASE Next
  BY <1>1, HeadersType, WalkType, StagesType DEF Next
<1>2. CASE UNCHANGED vars
  BY <1>2 DEF vars, TypeOK, loopVars, flagVars, memVars, ptrVars
<1> QED BY <1>1, <1>2

\* The loop never leaves the table of partition headers, and the globals keep
\* their ranges, for every table, build and boot condition.
THEOREM TypeCorrect == Spec => []TypeOK
BY TypeInit, TypeStep, PTL DEF Spec

----------------------------------------------------------------------------
(***************************************************************************)
(* The inductive invariant: what the flags say of the header, what the     *)
(* stages up to pc have made of the partition at its place, what they have *)
(* left behind of the earlier partitions, and where exec points.           *)
(***************************************************************************)
Faithful(c) ==
  c.part = num /\ c.form = InFlash.form /\ (boot.readErrors \/ c.intact = InFlash.intact)
Raw == Faithful(mem[Place])

FlagInv ==
  /\ pc \in StageSet \cup {"attributes"} =>
       Hdr.fsbl /\ flag.ps = Bit(Hdr.type = "ps") /\ flag.pl = 1 - flag.ps
  /\ pc \in StageSet => /\ flag.encrypted = Bit(Hdr.enc)
                        /\ flag.checksum = Bit(Hdr.md5) /\ flag.signed = Bit(Hdr.rsa)
  /\ ~boot.ddr => boot.linear

MoveInv ==
  boot.ddr =>
    /\ pc = "pcap" /\ ~boot.linear => Raw
    /\ pc = "load" /\ flag.pl = 1 /\ ~boot.linear => Raw
    /\ pc \in {"load", "checksum", "authenticate", "decrypt"} /\ Protected => Raw
    /\ pc \in {"program", "after", "next"} /\ flag.pl = 1 /\ Protected => Raw
    /\ pc \in {"load", "checksum", "authenticate", "decrypt"} /\ flag.ps = 1 /\ ~Protected => InClear(num)
    /\ pc \in {"program", "after", "next"} /\ flag.ps = 1 => InClear(num)

CheckedInv ==
  boot.ddr =>
    /\ pc \in {"authenticate", "decrypt", "program", "after", "next"} /\ flag.checksum = 1
         => mem[Place].intact
    /\ pc \in {"decrypt", "program", "after", "next"} /\ flag.signed = 1 => mem[Place].intact

LoadedInv ==
  boot.ddr => \A n \in Loaded : InClear(n) /\ (IsProtected(table[n]) => mem[n].intact)

FabricInv ==
  /\ fabric.form \in {"none", "plain"}
  /\ boot.ddr /\ fabric.form # "none" /\ IsProtected(table[fabric.part]) => fabric.intact

ExecInv ==
  /\ execFlag = 0 => exec \in {0, Failure} /\ Loaded = {}
  /\ pc \in StageSet /\ flag.ps = 1 => execFlag = 1
  /\ exec > 0 => \/ exec \in Loaded
                 \/ pc \in StageSet \cup {"fallback"} /\ exec = num
  /\ exec > 0 /\ pc \in StageSet /\ exec = num => flag.ps = 1
  /\ exec > 0 => \A n \in Loaded : exec <= n

ApplicationInv ==
  /\ application = 0 => Loaded = {}
  /\ pc \in StageSet \cup {"attributes"} /\ flag.pl = 1 => application = 0
  /\ pc \in StageSet \cup {"attributes"} /\ flag.ps = 1 => application = 1

StatusInv == GoodImageAccepted /\ (pc # "fallback" => status = "none")

IInv ==
  /\ TypeOK /\ FlagInv /\ MoveInv /\ CheckedInv
  /\ LoadedInv /\ FabricInv /\ ExecInv /\ ApplicationInv /\ StatusInv

LEMMA NextStage ==
  /\ Following("before") = "pointers" /\ Following("pointers") = "copy"
  /\ Following("copy") = "pcap" /\ Following("pcap") = "load"
  /\ Following("load") = "checksum" /\ Following("checksum") = "authenticate"
  /\ Following("authenticate") = "decrypt" /\ Following("decrypt") = "program"
  /\ Following("program") = "after" /\ Following("after") = "next"
<1>1. DOMAIN Stages = 1 .. 11
  BY DEF Stages
<1>2. \A j, k \in 1 .. 11 : Stages[j] = Stages[k] => j = k
  BY DEF Stages
<1>3. \A k \in 1 .. 10 : Following(Stages[k]) = Stages[1 + k]
  <2> SUFFICES ASSUME NEW k \in 1 .. 10 PROVE Following(Stages[k]) = Stages[1 + k]
    OBVIOUS
  <2>1. (CHOOSE j \in DOMAIN Stages : Stages[j] = Stages[k]) = k
    BY <1>1, <1>2
  <2> QED BY <2>1 DEF Following
<1> QED BY <1>3 DEF Stages

\* A step of a stage goes on to the next one, or falls back.
LEMMA StageStep ==
  ASSUME TypeOK,
         BeforeHook \/ SetPointers \/ PartitionMove \/ CheckPartition \/ AfterHook
           \/ CallFails \/ Skip
  PROVE  /\ pc \in StageSet
         /\ (Advance /\ pc # "next" /\ pc' \in StageSet) \/ \E c : FallBack(c)
<1> USE StageNames, StageFollows
<1>1. CASE BeforeHook \/ AfterHook \/ SetPointers
  BY <1>1 DEF BeforeHook, AfterHook, SetPointers, At, Advance
<1>2. CASE PartitionMove
  BY <1>2 DEF PartitionMove, Copy, Transfer, LoadFabric, At, Advance
<1>3. CASE CheckPartition
  <2>1. CASE ValidatePartition \/ AuthenticatePartition \/ DecryptPartition \/ ProgramFabric
    BY <2>1 DEF ValidatePartition, AuthenticatePartition, DecryptPartition, ProgramFabric, At, Advance
  <2>2. CASE ChecksumFails \/ AuthenticationFails \/ NoRsaSupport
    BY <2>2 DEF ChecksumFails, AuthenticationFails, NoRsaSupport, At
  <2> QED BY <1>3, <2>1, <2>2 DEF CheckPartition
<1>4. CASE CallFails
  BY <1>4 DEF CallFails, At
<1>5. CASE Skip
  <2>1. pc # "next"
    BY <1>5 DEF Skip, Applies
  <2> QED BY <1>5, <2>1 DEF Skip, Advance
<1> QED BY <1>1, <1>2, <1>3, <1>4, <1>5

\* When each of the stages that matter here applies.
LEMMA StageConditions ==
  /\ Applies["copy"] <=> (Moves /\ ~boot.linear)
  /\ Applies["pcap"] <=> (Moves /\ ByPcap)
  /\ Applies["load"] <=> (Moves /\ flag.pl = 1 /\ ~Protected)
  /\ Applies["checksum"] <=> flag.checksum = 1
  /\ Applies["authenticate"] <=> flag.signed = 1
  /\ Applies["decrypt"] <=> (Protected /\ flag.encrypted = 1 /\ flag.ps = 1)
  /\ Applies["program"] <=> (Protected /\ flag.pl = 1)
<1>1. Applies["copy"] <=> (Moves /\ ~boot.linear)
  BY DEF Applies
<1>2. Applies["pcap"] <=> (Moves /\ ByPcap)
  BY DEF Applies
<1>3. Applies["load"] <=> (Moves /\ flag.pl = 1 /\ ~Protected)
  BY DEF Applies
<1>4. Applies["checksum"] <=> flag.checksum = 1
  BY DEF Applies
<1>5. Applies["authenticate"] <=> flag.signed = 1
  BY DEF Applies
<1>6. Applies["decrypt"] <=> (Protected /\ flag.encrypted = 1 /\ flag.ps = 1)
  BY DEF Applies
<1>7. Applies["program"] <=> (Protected /\ flag.pl = 1)
  BY DEF Applies
<1> QED BY <1>1, <1>2, <1>3, <1>4, <1>5, <1>6, <1>7

\* The flags are those of the header at num.
LEMMA FlagStep == ASSUME IInv, [Next]_vars PROVE FlagInv'
<1> USE StageNames DEF IInv
<1>1. CASE ReadHeaders
  BY <1>1 DEF ReadHeaders, GetPartitionHeaderInfo, HeaderInfoFails, CertificateFails,
     AuthenticateHeaders, HeaderAuthenticationFails, FallBack, FlagInv
<1>2. CASE Walk
  <2>1. CASE Attributes
    BY <2>1 DEF Attributes, AttributeFlags, FlagInv, Hdr, TypeOK, Flags, loopVars
  <2>2. CASE Bitstream
    BY <2>2 DEF Bitstream, AtPartition, AtHeader, FlagInv, Hdr, Bit, TypeOK, Flags
  <2>3. CASE Application
    BY <2>3 DEF Application, AtPartition, AtHeader, FlagInv, Hdr, Bit, TypeOK, Flags, loopVars
  <2>4. CASE WalkEnds \/ SkipForeign \/ NextPartition
    BY <2>4 DEF WalkEnds, SkipForeign, NextPartition, AtHeader, FlagInv
  <2>5. CASE BadHeader \/ EncryptionMissing \/ InvalidLoadAddress
    BY <2>5 DEF BadHeader, EncryptionMissing, InvalidLoadAddress, FallBack, FlagInv
  <2> QED BY <1>2, <2>1, <2>2, <2>3, <2>4, <2>5 DEF Walk
<1>3. CASE Next /\ ~ReadHeaders /\ ~Walk
  BY <1>3, StageStep DEF Next, Advance, FallBack, FlagInv, Hdr, loopVars, flagVars
<1>4. CASE UNCHANGED vars
  BY <1>4 DEF vars, FlagInv, Hdr, loopVars, flagVars
<1> QED BY <1>1, <1>2, <1>3, <1>4 DEF Next

\* Which partitions have been dealt with: one more after NextPartition, when it
\* is an application, and none more otherwise.
LEMMA LoadedStep ==
  ASSUME IInv, [Next]_vars
  PROVE  Loaded' = IF NextPartition /\ flag.ps = 1 THEN Loaded \cup {num} ELSE Loaded
<1> USE StageNames DEF IInv
<1>1. num \in 1 .. MaxPart - 1
  BY DEF TypeOK
<1>2. CASE ReadHeaders
  BY <1>2 DEF ReadHeaders, GetPartitionHeaderInfo, HeaderInfoFails, CertificateFails,
     AuthenticateHeaders, HeaderAuthenticationFails, FallBack, Loaded, loopVars, NextPartition, At
<1>3. CASE NextPartition
  <2>1. Hdr.fsbl /\ (flag.ps = 1 <=> Hdr.type = "ps")
    BY <1>3 DEF NextPartition, At, FlagInv, Bit
  <2>2. num' - 1 = num /\ table' = table
    BY <1>1, <1>3 DEF NextPartition
  <2>3. Loaded' = {n \in 1 .. num : table[n].fsbl /\ table[n].type = "ps"}
    BY <2>2 DEF Loaded
  <2> QED BY <1>1, <1>3, <2>1, <2>3 DEF Loaded, Hdr
<1>4. CASE SkipForeign \/ Bitstream
  <2>1. table' = table /\ pc = "walk"
    BY <1>4 DEF SkipForeign, Bitstream, AtPartition, AtHeader
  <2>2. CASE num' = num
    BY <2>1, <2>2 DEF Loaded, NextPartition, At
  <2>3. CASE num' = num + 1 /\ ~(Hdr.fsbl /\ Hdr.type = "ps")
    <3>1. Loaded' = {n \in 1 .. num : table[n].fsbl /\ table[n].type = "ps"}
      BY <1>1, <2>1, <2>3 DEF Loaded
    <3> QED BY <1>1, <2>1, <2>3, <3>1 DEF Loaded, Hdr, NextPartition, At
  <2> QED BY <1>4, <2>2, <2>3 DEF SkipForeign, Bitstream, AtPartition
<1>5. CASE Walk /\ ~NextPartition /\ ~SkipForeign /\ ~Bitstream
  BY <1>5 DEF Walk, WalkEnds, BadHeader, Application, Attributes, EncryptionMissing,
     InvalidLoadAddress, FallBack, Loaded, loopVars
<1>6. CASE Next /\ ~ReadHeaders /\ ~Walk
  BY <1>6, StageStep DEF Next, Advance, FallBack, Loaded, loopVars, Walk
<1>7. CASE UNCHANGED vars
  BY <1>1, <1>7 DEF vars, Loaded, loopVars, NextPartition
<1> QED BY <1>2, <1>3, <1>4, <1>5, <1>6, <1>7 DEF Next

LEMMA ApplicationStep == ASSUME IInv, [Next]_vars PROVE ApplicationInv'
<1> USE StageNames, LoadedStep DEF IInv
<1>1. CASE ReadHeaders
  BY <1>1 DEF ReadHeaders, GetPartitionHeaderInfo, HeaderInfoFails, CertificateFails,
     AuthenticateHeaders, HeaderAuthenticationFails, FallBack, ApplicationInv, flagVars, NextPartition, At
<1>2. CASE NextPartition
  BY <1>2 DEF NextPartition, At, ApplicationInv, flagVars
<1>3. CASE Bitstream
  BY <1>3 DEF Bitstream, AtPartition, AtHeader, ApplicationInv, TooLate, NextPartition, At, TypeOK, Flags
<1>4. CASE Application
  BY <1>4 DEF Application, AtPartition, AtHeader, ApplicationInv, NextPartition, At, TypeOK, Flags
<1>5. CASE Attributes
  BY <1>5 DEF Attributes, AttributeFlags, ApplicationInv, NextPartition, At, TypeOK, Flags
<1>6. CASE WalkEnds \/ SkipForeign \/ BadHeader \/ EncryptionMissing \/ InvalidLoadAddress
  BY <1>6 DEF WalkEnds, SkipForeign, BadHeader, EncryptionMissing, InvalidLoadAddress, AtHeader,
     FallBack, ApplicationInv, NextPartition, At, flagVars
<1>7. CASE Next /\ ~ReadHeaders /\ ~Walk
  BY <1>7, StageStep DEF Next, Walk, Advance, FallBack, ApplicationInv, flagVars
<1>8. CASE UNCHANGED vars
  BY <1>8 DEF vars, ApplicationInv, Loaded, loopVars, flagVars
<1> QED BY <1>1, <1>2, <1>3, <1>4, <1>5, <1>6, <1>7, <1>8 DEF Next, Walk

\* The execution address is that of the first application.
LEMMA ExecStep == ASSUME IInv, [Next]_vars PROVE ExecInv'
<1> USE StageNames, LoadedStep DEF IInv
<1>0. /\ num \in 1 .. MaxPart - 1 /\ exec \in {Failure} \cup Places /\ execFlag \in {0, 1}
      /\ Failure = -1 /\ Loaded \subseteq 1 .. num - 1
  BY DEF TypeOK, Failure, Loaded
<1>1. CASE ReadHeaders
  <2>1. pc \notin StageSet /\ ~NextPartition /\ pc # "fallback"
    BY <1>1 DEF ReadHeaders, GetPartitionHeaderInfo, HeaderInfoFails, CertificateFails,
       AuthenticateHeaders, HeaderAuthenticationFails, NextPartition, At
  <2>2. /\ execFlag' = execFlag /\ Loaded' = Loaded /\ pc' \notin StageSet
        /\ exec' = exec \/ exec' = Failure
    BY <1>1, <2>1 DEF ReadHeaders, GetPartitionHeaderInfo, HeaderInfoFails, CertificateFails,
       AuthenticateHeaders, HeaderAuthenticationFails, FallBack, flagVars
  <2> QED BY <1>0, <2>1, <2>2 DEF ExecInv
<1>2. CASE NextPartition
  <2>1. pc = "next" /\ pc' = "walk" /\ num' = num + 1 /\ exec' = exec /\ execFlag' = execFlag
    BY <1>2 DEF NextPartition, At, flagVars
  <2>2. CASE flag.ps = 1
    <3>1. Loaded' = Loaded \cup {num} /\ execFlag' = 1
      BY <1>2, <2>1, <2>2 DEF ExecInv
    <3>2. exec > 0 => exec \in Loaded' /\ exec <= num
      BY <1>0, <2>1, <3>1 DEF ExecInv
    <3> QED BY <1>0, <2>1, <3>1, <3>2 DEF ExecInv
  <2>3. CASE flag.ps # 1
    <3>1. Loaded' = Loaded
      BY <1>2, <2>3
    <3> QED BY <1>0, <2>1, <2>3, <3>1 DEF ExecInv
  <2> QED BY <2>2, <2>3
<1>3. CASE Bitstream \/ Application
  BY <1>0, <1>3 DEF Bitstream, Application, AtPartition, AtHeader, ExecInv, NextPartition, At
<1>4. CASE Attributes
  BY <1>0, <1>4 DEF Attributes, AttributeFlags, FirstApplication, ExecInv, NextPartition, At, TypeOK,
     Flags, loopVars
<1>5. CASE WalkEnds \/ SkipForeign \/ BadHeader \/ EncryptionMissing \/ InvalidLoadAddress
  BY <1>0, <1>5 DEF WalkEnds, SkipForeign, BadHeader, EncryptionMissing, InvalidLoadAddress, AtHeader,
     FallBack, ExecInv, NextPartition, At, flagVars, loopVars
<1>6. CASE Next /\ ~ReadHeaders /\ ~Walk
  BY <1>0, <1>6, StageStep DEF Next, Walk, Advance, FallBack, ExecInv, flagVars, loopVars
<1>7. CASE UNCHANGED vars
  BY <1>7 DEF vars, ExecInv, Loaded, loopVars, flagVars
<1> QED BY <1>1, <1>2, <1>3, <1>4, <1>5, <1>6, <1>7 DEF Next, Walk

\* Only the actions that move or decrypt change memory, and only at Place.
LEMMA MemoryStep ==
  ASSUME IInv, [Next]_vars
  PROVE  /\ mem' # mem => /\ Copy \/ Transfer \/ (DecryptPartition /\ flag.ps = 1)
                          /\ \A p \in Places : p # Place => mem'[p] = mem[p]
         /\ Loaded \subseteq 1 .. num - 1
<1> USE StageNames DEF IInv
<1>1. mem \in [Places -> Contents] /\ Loaded \subseteq 1 .. num - 1
  BY DEF TypeOK, Loaded
<1>2. CASE Copy \/ Transfer
  <2>1. \E c : mem' = [mem EXCEPT ![Place] = c]
    BY <1>2 DEF Copy, Transfer
  <2> QED BY <1>1, <1>2, <2>1
<1>3. CASE DecryptPartition
  <2>1. flag.ps = 1 /\ pc = "decrypt"
    BY <1>3, StageConditions DEF DecryptPartition, At
  <2>2. Place = num
    BY <2>1 DEF FlagInv, Place
  <2> QED BY <1>1, <1>3, <2>1, <2>2 DEF DecryptPartition
<1>4. CASE ReadHeaders
  BY <1>1, <1>4 DEF ReadHeaders, GetPartitionHeaderInfo, HeaderInfoFails, CertificateFails,
     AuthenticateHeaders, HeaderAuthenticationFails, FallBack, memVars
<1>5. CASE Walk
  BY <1>1, <1>5 DEF Walk, WalkEnds, BadHeader, SkipForeign, Bitstream, Application, Attributes,
     EncryptionMissing, InvalidLoadAddress, NextPartition, FallBack, memVars
<1>6. CASE BeforeHook \/ AfterHook \/ SetPointers \/ CallFails \/ Skip \/ LoadFabric
  BY <1>1, <1>6 DEF BeforeHook, AfterHook, SetPointers, CallFails, Skip, LoadFabric, FallBack, memVars
<1>7. CASE CheckPartition /\ ~DecryptPartition
  BY <1>1, <1>7 DEF CheckPartition, ValidatePartition, ChecksumFails, AuthenticatePartition,
     AuthenticationFails, NoRsaSupport, ProgramFabric, FallBack, memVars
<1>8. CASE UNCHANGED vars
  BY <1>1, <1>8 DEF vars, memVars
<1> QED BY <1>2, <1>3, <1>4, <1>5, <1>6, <1>7, <1>8 DEF Next, PartitionMove

\* What a step from one stage to another does, by stage.
LEMMA StageActions ==
  ASSUME IInv, Next, pc' \in StageSet, pc' # "before"
  PROVE  /\ Advance /\ pc \in StageSet \ {"next"}
         /\ pc = "copy" => Copy \/ (~Applies["copy"] /\ UNCHANGED memVars)
         /\ pc = "pcap" => Transfer \/ (~Applies["pcap"] /\ UNCHANGED memVars)
         /\ pc = "load" => LoadFabric \/ (~Applies["load"] /\ UNCHANGED memVars)
         /\ pc = "checksum" => UNCHANGED memVars /\ (Applies["checksum"] => ValidatePartition)
         /\ pc = "authenticate" =>
              UNCHANGED memVars /\ (Applies["authenticate"] => AuthenticatePartition)
         /\ pc = "decrypt" => DecryptPartition \/ (~Applies["decrypt"] /\ UNCHANGED memVars)
         /\ pc = "program" => ProgramFabric \/ (~Applies["program"] /\ UNCHANGED memVars)
         /\ pc \in {"before", "pointers", "after"} => UNCHANGED memVars
<1> USE StageNames DEF IInv
<1>1. ~ReadHeaders
  BY DEF ReadHeaders, GetPartitionHeaderInfo, HeaderInfoFails, CertificateFails,
     AuthenticateHeaders, HeaderAuthenticationFails, FallBack
<1>2. ~Walk
  BY DEF Walk, WalkEnds, BadHeader, SkipForeign, Bitstream, Application, Attributes,
     EncryptionMissing, InvalidLoadAddress, NextPartition, FallBack, AtPartition, AtHeader
<1>3. ~\E c : FallBack(c)
  BY DEF FallBack
<1>4. Advance /\ pc \in StageSet \ {"next"}
  BY <1>1, <1>2, <1>3, StageStep DEF Next
<1>5. BeforeHook \/ SetPointers \/ PartitionMove \/ AfterHook \/ Skip
      \/ ValidatePartition \/ AuthenticatePartition \/ DecryptPartition \/ ProgramFabric
  BY <1>1, <1>2, <1>3 DEF Next, CheckPartition, ChecksumFails, AuthenticationFails, NoRsaSupport, CallFails
<1>6. CASE BeforeHook \/ SetPointers \/ AfterHook
  BY <1>4, <1>6 DEF BeforeHook, SetPointers, AfterHook, At, memVars
<1>7. CASE PartitionMove
  BY <1>4, <1>7 DEF PartitionMove, Copy, Transfer, LoadFabric, At
<1>8. CASE Skip
  BY <1>4, <1>8 DEF Skip
<1>9. CASE ValidatePartition \/ AuthenticatePartition
  BY <1>4, <1>9 DEF ValidatePartition, AuthenticatePartition, At
<1>10. CASE DecryptPartition \/ ProgramFabric
  BY <1>4, <1>10 DEF DecryptPartition, ProgramFabric, At
<1> QED BY <1>5, <1>6, <1>7, <1>8, <1>9, <1>10

\* What a stage leaves alone.
LEMMA SameHeader ==
  ASSUME TypeOK, Advance
  PROVE  /\ Place' = Place /\ InFlash' = InFlash /\ (Protected' <=> Protected)
         /\ num' = num /\ boot' = boot /\ flag' = flag /\ table' = table
BY DEF Advance, loopVars, flagVars, Place, InFlash, Hdr, Protected

\* The kinds of a partition that is being moved.
LEMMA Kinds ==
  ASSUME IInv, pc \in StageSet
  PROVE  /\ \/ flag.ps = 1 /\ flag.pl = 0 /\ Place = num
            \/ flag.ps = 0 /\ flag.pl = 1 /\ Place = Temp
         /\ Place \in Places /\ num \in Places /\ num > 0
         /\ InFlash.part = num /\ InFlash.intact \in BOOLEAN
         /\ InFlash.form = IF flag.encrypted = 1 THEN "cipher" ELSE "plain"
         /\ flag.encrypted \in {0, 1} /\ flag.checksum \in {0, 1} /\ flag.signed \in {0, 1}
         /\ mem \in [Places -> Contents] /\ fabric \in Contents
<1> USE StageNames DEF IInv
<1>1. /\ num \in Places /\ num > 0 /\ mem \in [Places -> Contents] /\ fabric \in Contents
      /\ flag.encrypted \in {0, 1} /\ flag.checksum \in {0, 1} /\ flag.signed \in {0, 1}
      /\ flag.ps \in {0, 1}
  BY DEF TypeOK, Flags
<1>2. flag.pl = 1 - flag.ps /\ flag.encrypted = Bit(Hdr.enc)
  BY DEF FlagInv
<1>3. InFlash.part = num /\ InFlash.intact \in BOOLEAN
  BY Types DEF InFlash, Contents
<1>4. InFlash.form = IF flag.encrypted = 1 THEN "cipher" ELSE "plain"
  BY <1>2 DEF InFlash, Bit
<1> QED BY <1>1, <1>2, <1>3, <1>4 DEF Place

\* Reading, decrypting and programming, by their form.
LEMMA Conversions ==
  /\ \A c \in Read(InFlash) : /\ c.part = InFlash.part /\ c.form = InFlash.form
                              /\ boot.readErrors \/ c.intact = InFlash.intact
  /\ \A c \in Contents : /\ Decrypted(c).part = c.part /\ Decrypted(c).intact = c.intact
                         /\ c.form = "cipher" => Decrypted(c).form = "plain"
  /\ \A c \in Contents : /\ Programmed(c).part = c.part /\ Programmed(c).intact = c.intact
                         /\ c.form = (IF flag.encrypted = 1 THEN "cipher" ELSE "plain")
                              => Programmed(c).form = "plain"
<1>1. \A c \in Read(InFlash) : /\ c.part = InFlash.part /\ c.form = InFlash.form
                               /\ boot.readErrors \/ c.intact = InFlash.intact
  BY DEF Read, InFlash
<1>2. \A c \in Contents : /\ Decrypted(c).part = c.part /\ Decrypted(c).intact = c.intact
                          /\ c.form = "cipher" => Decrypted(c).form = "plain"
  BY DEF Decrypted, Contents
<1> QED BY <1>1, <1>2 DEF Programmed

\* What has become of the partition at its place, stage by stage.
LEMMA MoveStep == ASSUME IInv, [Next]_vars PROVE MoveInv'
<1> USE StageNames, NextStage DEF IInv
<1>1. CASE pc' \notin StageSet \/ pc' = "before"
  BY <1>1 DEF MoveInv
<1>2. CASE UNCHANGED vars
  BY <1>2 DEF vars, loopVars, flagVars, memVars, MoveInv, Raw, InClear, Place, Protected, InFlash, Hdr, Faithful
<1>3. CASE Next /\ pc' \in StageSet /\ pc' # "before"
  <2>1. /\ pc \in StageSet \ {"next"} /\ pc' = Following(pc)
        /\ Place' = Place /\ InFlash' = InFlash /\ (Protected' <=> Protected)
        /\ num' = num /\ boot' = boot /\ flag' = flag
    BY <1>3, StageActions, SameHeader DEF Advance
  <2> SUFFICES ASSUME boot.ddr PROVE MoveInv'
    BY <2>1 DEF MoveInv
  <2>2. Moves
    BY DEF Moves
  <2>3. /\ Raw' <=> Faithful(mem'[Place])
        /\ InClear(num)' <=> (mem'[num].part = num /\ mem'[num].form = "plain")
    BY <2>1 DEF Raw, Faithful, InClear
  <2> HIDE DEF IInv
  <2>4. CASE pc \in {"before", "pointers"}
    BY <2>1, <2>4 DEF MoveInv
  <2>5. CASE pc = "copy"
    <3>1. ~boot.linear => Copy
      BY <1>3, <2>2, <2>5, StageActions, StageConditions
    <3>2. Copy => Raw'
      BY <2>1, <2>3, <2>5, Kinds, Conversions DEF Copy, Faithful
    <3> QED BY <2>1, <2>5, <3>1, <3>2 DEF MoveInv
  <2>6. CASE pc = "pcap"
    <3>1. Transfer => \E c : /\ Faithful(c) /\ c \in Contents
                            /\ mem'[Place] = IF SecureTransfer /\ flag.pl = 0 THEN Decrypted(c) ELSE c
      <4>1. Transfer => \E c \in (IF boot.linear THEN Read(InFlash) ELSE {mem[Place]}) :
              mem'[Place] = IF SecureTransfer /\ flag.pl = 0 THEN Decrypted(c) ELSE c
        BY <2>1, Kinds DEF Transfer
      <4>2. \A c \in Read(InFlash) : c \in Contents /\ Faithful(c)
        BY <2>1, Kinds, Types, Conversions DEF IInv, Faithful
      <4>3. ~boot.linear => mem[Place] \in Contents /\ Faithful(mem[Place])
        BY <2>1, <2>6, Kinds DEF MoveInv, Raw, IInv
      <4> QED BY <4>1, <4>2, <4>3
    <3>2. Transfer => /\ Protected => Raw'
                      /\ flag.pl = 1 => Raw'
                      /\ flag.ps = 1 /\ ~Protected => InClear(num)'
      BY <2>1, <2>3, <3>1, Kinds, Conversions DEF SecureTransfer, Faithful
    <3>3. ~Transfer => UNCHANGED mem /\ ~ByPcap
      BY <1>3, <2>2, <2>6, StageActions, StageConditions DEF memVars
    <3>4. UNCHANGED mem /\ ~boot.linear => Raw'
      BY <2>3, <2>6 DEF MoveInv, Raw, IInv
    <3>5. ~Transfer => /\ Protected => Raw'
                       /\ flag.pl = 1 /\ ~boot.linear => Raw'
                       /\ flag.ps = 1 /\ ~Protected => InClear(num)'
      BY <2>1, <2>3, <3>3, <3>4, Kinds DEF ByPcap, SecureTransfer, Raw, Faithful
    <3> QED BY <2>1, <2>6, <3>2, <3>5 DEF MoveInv
  <2>7. CASE pc \in {"load", "checksum", "authenticate", "program", "after"}
    <3>1. UNCHANGED mem
      BY <1>3, <2>7, StageActions DEF LoadFabric, ProgramFabric, memVars
    <3> QED BY <2>1, <2>3, <2>7, <3>1 DEF MoveInv, Raw, InClear, IInv
  <2>8. CASE pc = "decrypt"
    <3>1. CASE DecryptPartition
      <4>1. flag.ps = 1 /\ flag.encrypted = 1 /\ Protected
        BY <2>8, <3>1, StageConditions DEF DecryptPartition, At
      <4>2. mem[num] \in Contents /\ mem[num].part = num /\ mem[num].form = "cipher"
        BY <2>1, <2>8, <4>1, Kinds DEF MoveInv, Raw, Faithful, IInv
      <4>3. mem'[num] = Decrypted(mem[num])
        BY <2>1, <3>1, Kinds DEF DecryptPartition
      <4> QED BY <2>1, <2>3, <2>8, <4>1, <4>2, <4>3, Kinds, Conversions DEF MoveInv
    <3>2. CASE ~Applies["decrypt"] /\ UNCHANGED mem
      <4>1. ~(Protected /\ flag.encrypted = 1 /\ flag.ps = 1)
        BY <3>2, StageConditions
      <4> QED BY <2>1, <2>3, <2>8, <3>2, <4>1, Kinds DEF MoveInv, Raw, Faithful, InClear, IInv
    <3> QED BY <1>3, <2>8, <3>1, <3>2, StageActions DEF memVars
  <2> QED BY <2>1, <2>4, <2>5, <2>6, <2>7, <2>8
<1> QED BY <1>1, <1>2, <1>3

LEMMA CheckedStep == ASSUME IInv, [Next]_vars PROVE CheckedInv'
<1> USE StageNames, NextStage DEF IInv
<1>1. CASE pc' \notin StageSet \/ pc' = "before"
  BY <1>1 DEF CheckedInv
<1>2. CASE UNCHANGED vars
  BY <1>2 DEF vars, loopVars, flagVars, memVars, CheckedInv, Place
<1>3. CASE Next /\ pc' \in StageSet /\ pc' # "before"
  <2>1. /\ pc \in StageSet \ {"next"} /\ pc' = Following(pc)
        /\ Place' = Place /\ boot' = boot /\ flag' = flag
    BY <1>3, StageActions, SameHeader DEF Advance
  <2> SUFFICES ASSUME boot.ddr PROVE CheckedInv'
    BY <2>1 DEF CheckedInv
  <2> HIDE DEF IInv
  <2>2. CASE pc \in {"before", "pointers", "copy", "pcap", "load"}
    BY <2>1, <2>2 DEF CheckedInv
  <2>3. CASE pc = "checksum"
    <3>1. UNCHANGED mem /\ (flag.checksum = 1 => mem[Place].intact)
      BY <1>3, <2>3, StageActions, StageConditions DEF ValidatePartition, AtStartAddr, Matches, memVars
    <3> QED BY <2>1, <2>3, <3>1 DEF CheckedInv
  <2>4. CASE pc = "authenticate"
    <3>1. UNCHANGED mem /\ (flag.signed = 1 => mem[Place].intact)
      BY <1>3, <2>4, StageActions, StageConditions DEF AuthenticatePartition, AtStartAddr, Matches, memVars
    <3> QED BY <2>1, <2>4, <3>1 DEF CheckedInv, IInv
  <2>5. CASE pc = "decrypt"
    <3>1. mem'[Place].intact = mem[Place].intact
      <4>1. CASE DecryptPartition
        <5>1. Place = num
          BY <2>1, <2>5, <4>1, Kinds, StageConditions DEF DecryptPartition, At
        <5>2. mem'[num] = Decrypted(mem[num]) /\ mem[num] \in Contents
          BY <2>1, <4>1, Kinds DEF DecryptPartition
        <5> QED BY <5>1, <5>2, Conversions
      <4>2. CASE UNCHANGED mem
        BY <4>2
      <4> QED BY <1>3, <2>5, <4>1, <4>2, StageActions DEF memVars
    <3> QED BY <2>1, <2>5, <3>1 DEF CheckedInv, IInv
  <2>6. CASE pc \in {"program", "after"}
    <3>1. UNCHANGED mem
      BY <1>3, <2>6, StageActions DEF ProgramFabric, memVars
    <3> QED BY <2>1, <2>6, <3>1 DEF CheckedInv, IInv
  <2> QED BY <2>1, <2>2, <2>3, <2>4, <2>5, <2>6
<1> QED BY <1>1, <1>2, <1>3

LEMMA BootStep == ASSUME [Next]_vars PROVE UNCHANGED <<table, boot>>
<1>1. CASE Next
  BY <1>1 DEF Next, ReadHeaders, GetPartitionHeaderInfo, HeaderInfoFails, CertificateFails,
     AuthenticateHeaders, HeaderAuthenticationFails, Walk, WalkEnds, BadHeader, SkipForeign,
     Bitstream, Application, Attributes, EncryptionMissing, InvalidLoadAddress, NextPartition,
     BeforeHook, SetPointers, PartitionMove, Copy, Transfer, LoadFabric, CheckPartition,
     ValidatePartition, ChecksumFails, AuthenticatePartition, AuthenticationFails, NoRsaSupport,
     DecryptPartition, ProgramFabric, AfterHook, CallFails, Skip, Advance, FallBack
<1>2. CASE UNCHANGED vars
  BY <1>2 DEF vars
<1> QED BY <1>1, <1>2

\* The checks that a header calls for, and the flags that were made of it.
LEMMA ProtectedFlags ==
  ASSUME IInv, pc \in StageSet
  PROVE  IsProtected(table[num]) <=> flag.signed = 1 \/ flag.checksum = 1
BY DEF IInv, FlagInv, IsProtected, Hdr, Bit

LEMMA LoadedInvStep == ASSUME IInv, [Next]_vars PROVE LoadedInv'
<1> USE StageNames DEF IInv
<1> SUFFICES ASSUME boot.ddr, NEW n \in Loaded'
             PROVE  InClear(n)' /\ (IsProtected(table[n]) => mem'[n].intact)
  BY BootStep DEF LoadedInv
<1>1. Loaded \subseteq 1 .. num - 1 /\ num \in 1 .. MaxPart - 1
  BY MemoryStep DEF TypeOK
<1> HIDE DEF IInv
<1>2. CASE n \in Loaded
  <2>1. InClear(n) /\ (IsProtected(table[n]) => mem[n].intact)
    BY <1>2 DEF LoadedInv, IInv
  <2>2. n # Place /\ n \in Places
    BY <1>1, <1>2 DEF Place
  <2>3. mem'[n] = mem[n]
    BY <2>2, MemoryStep
  <2> QED BY <2>1, <2>3 DEF InClear
<1>3. CASE n \notin Loaded
  <2>1. NextPartition /\ flag.ps = 1 /\ n = num
    BY <1>3, LoadedStep
  <2>2. pc = "next" /\ UNCHANGED mem
    BY <2>1 DEF NextPartition, At, memVars
  <2>3. Place = num
    BY <2>1, <2>2, Kinds
  <2>4. InClear(num)
    BY <2>1, <2>2 DEF MoveInv, IInv
  <2>5. IsProtected(table[num]) => mem[num].intact
    BY <2>2, <2>3, ProtectedFlags DEF CheckedInv, IInv
  <2> QED BY <2>1, <2>2, <2>4, <2>5 DEF InClear
<1> QED BY <1>2, <1>3

LEMMA FabricStep == ASSUME IInv, [Next]_vars PROVE FabricInv'
<1> USE StageNames
<1>1. CASE LoadFabric \/ ProgramFabric
  <2>1. pc \in {"load", "program"} /\ flag.pl = 1
        /\ (pc = "load" => ~Protected) /\ (pc = "program" => Protected)
    BY <1>1, StageConditions DEF LoadFabric, ProgramFabric, At
  <2>2. \A c \in Read(InFlash) : c \in Contents /\ c.part = num /\ c.form = InFlash.form
    BY <2>1, Kinds, Types, Conversions DEF IInv
  <2>3. ~boot.ddr => boot.linear
    BY DEF IInv, FlagInv
  <2>4. Raw => mem[Place] \in Contents /\ mem[Place].part = num /\ mem[Place].form = InFlash.form
    BY <2>1, Kinds DEF Raw, Faithful
  <2>5. PICK c : /\ fabric' = Programmed(c) /\ c \in Contents /\ c.part = num /\ c.form = InFlash.form
                 /\ pc = "program" /\ boot.ddr => c = mem[Place]
    <3>1. CASE LoadFabric
      <4>1. pc = "load" /\ (~boot.linear => Raw)
        BY <2>1, <2>3, <3>1 DEF LoadFabric, At, IInv, MoveInv
      <4> QED BY <2>2, <2>4, <3>1, <4>1 DEF LoadFabric
    <3>2. CASE ProgramFabric
      <4>1. pc = "program" /\ (boot.ddr => Raw)
        BY <2>1, <3>2 DEF ProgramFabric, At, IInv, MoveInv
      <4> QED BY <2>2, <2>4, <3>2, <4>1 DEF ProgramFabric, AtStartAddr
    <3> QED BY <1>1, <3>1, <3>2
  <2>6. fabric'.form = "plain" /\ fabric'.part = num /\ fabric'.intact = c.intact
    BY <2>1, <2>5, Kinds, Conversions
  <2>7. pc = "load" => ~IsProtected(table[num])
    BY <2>1, ProtectedFlags DEF Protected
  <2>8. pc = "program" /\ boot.ddr => c.intact
    BY <2>1, <2>5 DEF IInv, CheckedInv, Protected
  <2> QED BY <2>1, <2>6, <2>7, <2>8, BootStep DEF FabricInv
<1>2. CASE ~LoadFabric /\ ~ProgramFabric
  <2>1. UNCHANGED fabric
    <3>1. CASE Next
      BY <1>2, <3>1 DEF Next, ReadHeaders, GetPartitionHeaderInfo, HeaderInfoFails, CertificateFails,
         AuthenticateHeaders, HeaderAuthenticationFails, Walk, WalkEnds, BadHeader, SkipForeign,
         Bitstream, Application, Attributes, EncryptionMissing, InvalidLoadAddress, NextPartition,
         BeforeHook, SetPointers, PartitionMove, Copy, Transfer, CheckPartition,
         ValidatePartition, ChecksumFails, AuthenticatePartition, AuthenticationFails, NoRsaSupport,
         DecryptPartition, AfterHook, CallFails, Skip, FallBack, memVars
    <3>2. CASE UNCHANGED vars
      BY <3>2 DEF vars, memVars
    <3> QED BY <3>1, <3>2
  <2> QED BY <2>1, BootStep DEF FabricInv, IInv
<1> QED BY <1>1, <1>2

\* A check fails only on a partition that is altered in the flash.
LEMMA StatusStep == ASSUME IInv, [Next]_vars PROVE StatusInv'
<1> USE StageNames
<1>1. CASE ChecksumFails \/ AuthenticationFails
  <2>1. /\ pc \in {"checksum", "authenticate"} /\ Protected /\ num' = num
        /\ \/ boot.readErrors
           \/ \E c \in AtStartAddr : ~Matches(c)
        /\ pc' = "fallback"
    BY <1>1, StageConditions DEF ChecksumFails, AuthenticationFails, At, FallBack, Protected, loopVars
  <2>2. ~boot.readErrors => \A c \in AtStartAddr : Faithful(c)
    BY <2>1 DEF AtStartAddr, Read, Faithful, IInv, MoveInv, Raw, InFlash
  <2>3. InFlash.intact = table[num].intact
    BY DEF InFlash, Hdr
  <2>4. ~boot.readErrors => ~table[num].intact
    BY <2>1, <2>2, <2>3 DEF Faithful, Matches
  <2> QED BY <2>1, <2>4, BootStep DEF StatusInv, GoodImageAccepted
<1>2. CASE \E c : FallBack(c) /\ c \notin {"PARTITION_CHECKSUM_FAIL", "AUTHENTICATION_FAIL"}
  BY <1>2 DEF FallBack, StatusInv, GoodImageAccepted
<1>3. CASE pc # "fallback" /\ UNCHANGED status
  BY <1>3 DEF IInv, StatusInv, GoodImageAccepted
<1>4. CASE UNCHANGED vars
  BY <1>4 DEF vars, loopVars, IInv, StatusInv, GoodImageAccepted
<1>5. CASE Next /\ ~ChecksumFails /\ ~AuthenticationFails
  <2>1. CASE ReadHeaders
    BY <1>2, <1>3, <2>1 DEF ReadHeaders, GetPartitionHeaderInfo, HeaderInfoFails, CertificateFails,
       AuthenticateHeaders, HeaderAuthenticationFails
  <2>2. CASE Walk
    BY <1>2, <1>3, <2>2 DEF Walk, WalkEnds, BadHeader, SkipForeign, Bitstream, Application,
       Attributes, EncryptionMissing, InvalidLoadAddress, NextPartition, AtPartition, AtHeader, At
  <2>3. CASE NoRsaSupport
    BY <1>2, <2>3 DEF NoRsaSupport
  <2>4. CASE CallFails
    <3>1. PICK s \in {"before", "copy", "pcap", "load", "decrypt", "program", "after"} :
            FallBack([before |-> "FSBL_BEFORE_BSTREAM_HOOK_FAIL", copy |-> "PARTITION_MOVE_FAIL",
                      pcap |-> "PARTITION_MOVE_FAIL", load |-> "PARTITION_MOVE_FAIL",
                      decrypt |-> "DECRYPTION_FAIL", program |-> "BITSTREAM_DOWNLOAD_FAIL",
                      after |-> "FSBL_AFTER_BSTREAM_HOOK_FAIL"][s])
      BY <2>4 DEF CallFails
    <3> QED BY <1>2, <3>1
  <2>5. CASE BeforeHook \/ SetPointers \/ PartitionMove \/ AfterHook \/ Skip
             \/ ValidatePartition \/ AuthenticatePartition \/ DecryptPartition \/ ProgramFabric
    BY <1>3, <2>5 DEF BeforeHook, SetPointers, PartitionMove, Copy, Transfer, LoadFabric, AfterHook,
       Skip, ValidatePartition, AuthenticatePartition, DecryptPartition, ProgramFabric, Advance, At
  <2> QED BY <1>5, <2>1, <2>2, <2>3, <2>4, <2>5 DEF Next, CheckPartition
<1> QED BY <1>1, <1>4, <1>5

LEMMA IInvInit == Init => IInv
<1> SUFFICES ASSUME Init PROVE IInv
  OBVIOUS
<1>1. /\ TypeOK /\ Loaded = {} /\ pc = "headers" /\ fabric.form = "none" /\ exec = 0 /\ status = "none"
      /\ (~boot.ddr => boot.linear)
  BY TypeInit DEF Init, Loaded, Nothing
<1> QED BY <1>1, StageNames DEF IInv, FlagInv, MoveInv, CheckedInv, LoadedInv, FabricInv, ExecInv,
        ApplicationInv, StatusInv, GoodImageAccepted

LEMMA IInvStep == IInv /\ [Next]_vars => IInv'
<1> SUFFICES ASSUME IInv, [Next]_vars PROVE IInv'
  OBVIOUS
<1>1. TypeOK'
  BY TypeStep DEF IInv
<1> QED BY <1>1, FlagStep, MoveStep, CheckedStep, LoadedInvStep, FabricStep, ExecStep, ApplicationStep,
        StatusStep DEF IInv

LEMMA Invariant == Spec => []IInv
BY IInvInit, IInvStep, PTL DEF Spec

----------------------------------------------------------------------------
\* Every application that has been dealt with lies decrypted at its load address
\* and the PL holds no encrypted bitstream, for every table, build and boot.
THEOREM InClearAlways == Spec => []LoadedInClear
<1>1. IInv => LoadedInClear
  BY DEF IInv, LoadedInv, FabricInv, LoadedInClear
<1> QED BY <1>1, Invariant, PTL

\* With DDR, a protected partition in use is intact whatever the boot device
\* delivered when it was read.
THEOREM Intact == Spec => []ProtectedIntact
<1>1. IInv => ProtectedIntact
  BY DEF IInv, LoadedInv, FabricInv, ProtectedIntact
<1> QED BY <1>1, Invariant, PTL

\* No partition that is as it was built fails its checksum or its signature.
THEOREM GoodAccepted == Spec => []GoodImageAccepted
<1>1. IInv => GoodImageAccepted
  BY DEF IInv, StatusInv
<1> QED BY <1>1, Invariant, PTL

\* The address LoadBootImage returns is that of the first application, loaded.
THEOREM Handoff == Spec => []HandoffSound
<1>1. IInv => HandoffSound
  BY StageNames DEF IInv, ExecInv, LoadedInv, HandoffSound
<1> QED BY <1>1, Invariant, PTL

\* The temporary area is not written after the first application.
THEOREM Bounce == Spec => BounceSafe
<1>1. IInv /\ [Next]_vars => [mem'[Temp] # mem[Temp] => Loaded = {}]_vars
  <2> SUFFICES ASSUME IInv, [Next]_vars, mem'[Temp] # mem[Temp] PROVE Loaded = {}
    OBVIOUS
  <2>1. Temp \in Places /\ mem' # mem
    OBVIOUS
  <2>2. Temp = Place /\ pc \in StageSet
    BY <2>1, MemoryStep, StageNames DEF Copy, Transfer, DecryptPartition, At
  <2>3. flag.pl = 1
    BY <2>2, Kinds
  <2> QED BY <2>2, <2>3 DEF IInv, ApplicationInv
<1> QED BY <1>1, Invariant, PTL DEF Spec, BounceSafe

----------------------------------------------------------------------------
(***************************************************************************)
(* Without DDR: what the loop has done for an image that is executed in    *)
(* place, and what the SSBL makes of it.                                   *)
(***************************************************************************)
PastPointers == {"copy", "pcap", "load", "checksum", "authenticate", "decrypt", "program",
                 "after", "next"}
Seen(n) == n < num \/ (n = num /\ pc \in PastPointers)

\* The loop is inside the table, and knows of an application only when it has
\* met one.
LoopInv ==
  /\ pc = "headers" => count = 0 /\ num = 1 /\ application = 0
  /\ count = 0 \/ num <= count
  /\ application = 1 =>
       \E n \in 1 .. MaxPart - 1 :
         n <= num /\ n < count /\ table[n].fsbl /\ table[n].type = "ps"

\* The pointers are those of the partitions seen, and the loop is not left
\* before its end.
PointerInv ==
  ~boot.ddr => \A s, t, d \in 1 .. MaxPart - 1 : XipImage(s, t, d) =>
    /\ Seen(t) => handoffPtr = t
    /\ Seen(d) => dataPtr = d
    /\ pc = "done" /\ exec > 0 => num = count

\* What is protected was checked in the flash.
FlashInv ==
  ~boot.ddr /\ ~boot.readErrors =>
    /\ pc \in {"authenticate", "decrypt", "program", "after", "next"} /\ flag.checksum = 1
         => Hdr.intact
    /\ pc \in {"decrypt", "program", "after", "next"} /\ flag.signed = 1 => Hdr.intact
    /\ \A n \in Loaded : IsProtected(table[n]) => table[n].intact

SsblInv ==
  /\ ssblPc # "off" => pc = "done" /\ exec > 0 /\ ~boot.ddr
  /\ ssblPc \in {"handoff", "app"} => ocm.part = dataPtr
  /\ ssblPc = "app" => entered = handoffPtr

XInv == IInv /\ LoopInv /\ PointerInv /\ FlashInv

\* The pointers are written at one stage, which applies to every partition.
LEMMA PointerStep ==
  ASSUME IInv, [Next]_vars, ~boot.ddr
  PROVE  /\ SetPointers \/ UNCHANGED ptrVars
         /\ pc = "pointers" /\ pc' \in PastPointers => SetPointers
<1> USE StageNames DEF IInv
<1>1. CASE ReadHeaders
  BY <1>1 DEF ReadHeaders, GetPartitionHeaderInfo, HeaderInfoFails, CertificateFails,
     AuthenticateHeaders, HeaderAuthenticationFails, FallBack, PastPointers
<1>2. CASE Walk
  BY <1>2 DEF Walk, WalkEnds, BadHeader, SkipForeign, Bitstream, Application, Attributes,
     EncryptionMissing, InvalidLoadAddress, NextPartition, FallBack, AtPartition, AtHeader,
     At, PastPointers
<1>3. CASE BeforeHook \/ AfterHook
  BY <1>3 DEF BeforeHook, AfterHook, At
<1>4. CASE SetPointers
  BY <1>4
<1>5. CASE PartitionMove
  BY <1>5 DEF PartitionMove, Copy, Transfer, LoadFabric, At
<1>6. CASE ValidatePartition \/ AuthenticatePartition \/ DecryptPartition \/ ProgramFabric
  BY <1>6 DEF ValidatePartition, AuthenticatePartition, DecryptPartition, ProgramFabric, At
<1>7. CASE ChecksumFails \/ AuthenticationFails \/ NoRsaSupport \/ CallFails
  BY <1>7 DEF ChecksumFails, AuthenticationFails, NoRsaSupport, CallFails, FallBack, PastPointers
<1>8. CASE Skip
  <2>1. Applies["pointers"]
    BY DEF Applies
  <2> QED BY <1>8, <2>1 DEF Skip
<1>9. CASE UNCHANGED vars
  BY <1>9 DEF vars, PastPointers
<1> QED BY <1>1, <1>2, <1>3, <1>4, <1>5, <1>6, <1>7, <1>8, <1>9 DEF Next, CheckPartition

\* How the loop moves: how num, count and application change, and why.
LEMMA LoopStep ==
  ASSUME IInv, Next
  PROVE  \/ pc = "headers" /\ pc' # "done" /\ num' = num /\ application' = application
            /\ pc' # "headers" /\ pc' \notin StageSet
            /\ (count' = count \/ count' \in 2 .. MaxPart - 1)
         \/ /\ pc # "headers" /\ pc' # "headers" /\ count' = count
            /\ \/ NextPartition /\ application' = application
               \/ SkipForeign /\ application' = application
               \/ Bitstream /\ application' = application
               \/ num' = num /\ Application
               \/ num' = num /\ application' = application
<1> USE StageNames DEF IInv
<1>1. CASE ReadHeaders
  BY <1>1 DEF ReadHeaders, GetPartitionHeaderInfo, HeaderInfoFails, CertificateFails,
     AuthenticateHeaders, HeaderAuthenticationFails, FallBack, loopVars, flagVars, CountValid
<1>2. CASE Walk
  BY <1>2 DEF Walk, WalkEnds, BadHeader, SkipForeign, Bitstream, Application, Attributes,
     EncryptionMissing, InvalidLoadAddress, NextPartition, FallBack, AtPartition, AtHeader,
     At, loopVars, flagVars
<1>3. CASE ~ReadHeaders /\ ~Walk
  <2>1. pc \in StageSet /\ ((Advance /\ pc' \in StageSet) \/ \E c : FallBack(c))
    BY <1>3, StageStep DEF Next
  <2> QED BY <2>1 DEF Advance, FallBack, loopVars, flagVars
<1> QED BY <1>1, <1>2, <1>3

LEMMA LoopInvStep == ASSUME IInv, LoopInv, [Next]_vars PROVE LoopInv'
<1>0. /\ num \in 1 .. MaxPart - 1 /\ count \in 0 .. MaxPart - 1
      /\ pc \in StageSet => num < count
      /\ table' = table
  BY BootStep DEF IInv, TypeOK
<1>1. CASE UNCHANGED vars
  BY <1>1 DEF vars, loopVars, flagVars, LoopInv
<1>2. CASE pc = "headers" /\ Next
  <2>1. /\ pc' # "headers" /\ num' = 1 /\ application' = 0
        /\ count' = 0 \/ count' \in 2 .. MaxPart - 1
    BY <1>2, LoopStep DEF LoopInv
  <2> QED BY <2>1 DEF LoopInv
<1>3. CASE pc # "headers" /\ Next
  <2>1. /\ pc' # "headers" /\ count' = count
        /\ \/ NextPartition /\ application' = application
           \/ SkipForeign /\ application' = application
           \/ Bitstream /\ application' = application
           \/ num' = num /\ Application
           \/ num' = num /\ application' = application
    BY <1>3, LoopStep
  <2>2. num' = num \/ (num' = num + 1 /\ num < count)
    BY <1>0, <2>1, StageNames DEF NextPartition, At, SkipForeign, Bitstream, AtPartition, AtHeader
  <2>3. CASE Application
    <3>1. num < count /\ table[num].fsbl /\ table[num].type = "ps" /\ num' = num
      BY <2>3 DEF Application, AtPartition, AtHeader, Hdr, loopVars
    <3> QED BY <1>0, <2>1, <3>1 DEF LoopInv
  <2>4. CASE application' = application
    <3>1. count' = 0 \/ num' <= count'
      BY <1>0, <2>1, <2>2 DEF LoopInv
    <3>2. ASSUME application' = 1
          PROVE \E n \in 1 .. MaxPart - 1 :
                  n <= num' /\ n < count' /\ table'[n].fsbl /\ table'[n].type = "ps"
      <4>1. PICK n \in 1 .. MaxPart - 1 :
              n <= num /\ n < count /\ table[n].fsbl /\ table[n].type = "ps"
        BY <3>2, <2>4 DEF LoopInv
      <4>2. n <= num'
        BY <1>0, <2>2, <4>1
      <4> QED BY <1>0, <2>1, <4>1, <4>2
    <3> QED BY <2>1, <3>1, <3>2 DEF LoopInv
  <2> QED BY <2>1, <2>3, <2>4
<1> QED BY <1>1, <1>2, <1>3

\* What an image for execution in place says of the partition at num.
LEMMA XipPartition ==
  ASSUME IInv, NEW s \in 1 .. MaxPart - 1, NEW t \in 1 .. MaxPart - 1, NEW d \in 1 .. MaxPart - 1,
         XipImage(s, t, d), num < count, Hdr.fsbl
  PROVE  /\ Hdr.type = "pl" => num < t /\ num < d
         /\ Hdr.type = "ps" => /\ num \in {s, t, d}
                               /\ Hdr.exec = "qspi" <=> num = t
                               /\ Hdr.load = "ocm" <=> num = d
<1>1. num \in 1 .. count - 1 /\ num \in 1 .. MaxPart - 1 /\ count \in 0 .. MaxPart - 1
  BY DEF IInv, TypeOK
<1>2. ASSUME Hdr.type = "pl" PROVE num < t /\ num < d
  <2>1. num < s /\ s < t /\ s < d
    BY <1>1, <1>2 DEF XipImage, Hdr
  <2> QED BY <1>1, <2>1
<1>3. ASSUME Hdr.type = "ps" PROVE num \in {s, t, d}
  BY <1>1, <1>3 DEF XipImage, Applications, Hdr
<1>4. /\ table[s].exec = "ram" /\ table[t].exec = "qspi" /\ table[d].exec = "zero"
      /\ table[s].load = "ocmhigh" /\ table[t].load = "qspi" /\ table[d].load = "ocm"
  BY DEF XipImage
<1> QED BY <1>2, <1>3, <1>4 DEF Hdr

LEMMA PointerInvStep == ASSUME IInv, LoopInv, PointerInv, [Next]_vars PROVE PointerInv'
<1> SUFFICES ASSUME ~boot.ddr,
                    NEW s \in 1 .. MaxPart - 1, NEW t \in 1 .. MaxPart - 1, NEW d \in 1 .. MaxPart - 1,
                    XipImage(s, t, d)'
             PROVE  /\ Seen(t)' => handoffPtr' = t
                    /\ Seen(d)' => dataPtr' = d
                    /\ pc' = "done" /\ exec' > 0 => num' = count'
  BY BootStep DEF PointerInv
<1>0. /\ num \in 1 .. MaxPart - 1 /\ count \in 0 .. MaxPart - 1
      /\ pc \in StageSet \cup {"attributes"} => num < count
      /\ table' = table /\ s < t /\ s < d
  BY BootStep DEF IInv, TypeOK, XipImage
<1>1. CASE UNCHANGED vars
  <2>1. XipImage(s, t, d)
    BY <1>1 DEF vars, loopVars, XipImage, Applications
  <2> QED BY <1>1, <2>1 DEF vars, loopVars, flagVars, ptrVars, PointerInv, Seen
<1>2. CASE pc = "headers" /\ Next
  <2>1. pc' # "done" /\ num' = 1 /\ pc' \notin StageSet
    BY <1>2, LoopStep DEF LoopInv
  <2> QED BY <1>0, <2>1, StageNames DEF Seen, PastPointers
<1>3. CASE pc # "headers" /\ Next
  <2>1. count' = count
    BY <1>3, LoopStep
  <2>2. XipImage(s, t, d)
    BY <1>0, <2>1 DEF XipImage, Applications
  <2>3. /\ Seen(t) => handoffPtr = t
        /\ Seen(d) => dataPtr = d
    BY <2>2 DEF PointerInv
  <2>4. count > 1 /\ t < count /\ d < count
        /\ table[t].fsbl /\ table[t].type = "ps" /\ table[d].fsbl /\ table[d].type = "ps"
    <3>1. s \in Applications /\ t \in Applications /\ d \in Applications
      BY <2>2 DEF XipImage
    <3> QED BY <1>0, <3>1 DEF Applications
  <2>5. CASE SetPointers
    <3>1. /\ pc = "pointers" /\ num' = num /\ num < count /\ Hdr.fsbl
          /\ flag.ps = Bit(Hdr.type = "ps") /\ Hdr.type \in {"ps", "pl"}
      BY <1>0, <2>5, StageNames DEF SetPointers, At, Advance, loopVars, IInv, FlagInv, TypeOK, Hdr,
         Headers
    <3>2. /\ handoffPtr' = IF Hdr.exec = "qspi" THEN num ELSE handoffPtr
          /\ dataPtr' = IF flag.ps = 1 /\ Hdr.load = "ocm" THEN num ELSE dataPtr
          /\ pc' = "copy"
      BY <2>5, <3>1, NextStage DEF SetPointers, Pointer, Advance
    <3>3. \A n : Seen(n)' <=> n < num \/ n = num
      BY <3>1, <3>2 DEF Seen, PastPointers
    <3>4. \A n : n < num => Seen(n)
      BY DEF Seen
    <3>5. /\ Hdr.type = "pl" => num < t /\ num < d
          /\ Hdr.type = "ps" => (Hdr.exec = "qspi" <=> num = t) /\ (Hdr.load = "ocm" <=> num = d)
      BY <2>2, <3>1, XipPartition
    <3>6. Seen(t)' => handoffPtr' = t
      BY <1>0, <2>3, <3>1, <3>2, <3>3, <3>4, <3>5
    <3>7. Seen(d)' => dataPtr' = d
      BY <1>0, <2>3, <3>1, <3>2, <3>3, <3>4, <3>5 DEF Bit
    <3> QED BY <3>2, <3>6, <3>7
  <2>6. CASE ~SetPointers
    <3>1. UNCHANGED <<dataPtr, handoffPtr>> /\ (pc = "pointers" => pc' \notin PastPointers)
      BY <1>3, <2>6, PointerStep DEF ptrVars
    <3>2. \/ NextPartition \/ SkipForeign \/ Bitstream
          \/ num' = num
      BY <1>3, LoopStep
    <3>3. CASE num' = num
      <4>1. pc' \in PastPointers => pc \in PastPointers
        <5>1. CASE ReadHeaders \/ Walk
          BY <5>1 DEF ReadHeaders, GetPartitionHeaderInfo, HeaderInfoFails, CertificateFails,
             AuthenticateHeaders, HeaderAuthenticationFails, FallBack, Walk, WalkEnds, BadHeader,
             SkipForeign, Bitstream, Application, Attributes, EncryptionMissing,
             InvalidLoadAddress, NextPartition, AtPartition, AtHeader, PastPointers
        <5>2. CASE ~ReadHeaders /\ ~Walk
          <6>1. pc \in StageSet /\ ((pc' = Following(pc) /\ pc # "next") \/ pc' = "fallback")
            BY <1>3, <5>2, StageStep DEF Next, Advance, FallBack, IInv
          <6> QED BY <3>1, <6>1, StageNames, NextStage DEF PastPointers
        <5> QED BY <5>1, <5>2
      <4>2. \A n : Seen(n)' => Seen(n)
        BY <3>3, <4>1 DEF Seen
      <4>3. pc' = "done" /\ exec' > 0 => num' = count'
        <5> SUFFICES ASSUME pc' = "done", exec' > 0 PROVE num = count
          BY <2>1, <3>3
        <5>1. CertificateFails \/ WalkEnds \/ Bitstream \/ Attributes
          <6>1. CASE ReadHeaders
            BY <6>1 DEF ReadHeaders, GetPartitionHeaderInfo, HeaderInfoFails, AuthenticateHeaders,
               HeaderAuthenticationFails, FallBack
          <6>2. CASE Walk
            BY <6>2 DEF Walk, BadHeader, SkipForeign, Application, EncryptionMissing,
               InvalidLoadAddress, NextPartition, AtPartition, AtHeader, FallBack
          <6>3. CASE ~ReadHeaders /\ ~Walk
            BY <1>3, <6>3, StageStep, StageNames DEF Next, Advance, FallBack, IInv
          <6> QED BY <6>1, <6>2, <6>3
        <5>2. CASE CertificateFails
          BY <5>2 DEF CertificateFails, Failure
        <5>3. CASE WalkEnds
          BY <1>0, <2>4, <5>3 DEF WalkEnds, LoopInv
        <5>4. CASE Attributes
          BY <5>4 DEF Attributes, BelowDdr
        <5>5. CASE Bitstream
          <6>1. application = 1 /\ Hdr.type = "pl" /\ Hdr.fsbl /\ num < count
            BY <5>5 DEF Bitstream, TooLate, AtPartition, AtHeader
          <6>2. PICK n \in 1 .. MaxPart - 1 :
                  n <= num /\ n < count /\ table[n].fsbl /\ table[n].type = "ps"
            BY <6>1 DEF LoopInv
          <6>3. n \in {s, t, d}
            BY <1>0, <2>2, <6>2 DEF XipImage, Applications
          <6>4. num < s
            BY <1>0, <2>2, <6>1 DEF XipImage, Hdr
          <6> QED BY <1>0, <6>2, <6>3, <6>4
        <5> QED BY <5>1, <5>2, <5>3, <5>4, <5>5
      <4> QED BY <2>3, <3>1, <4>2, <4>3
    <3>4. CASE num' # num
      <4>1. /\ num' = num + 1 /\ pc' \notin PastPointers /\ pc' # "done"
            /\ pc \in PastPointers \/ ~(Hdr.fsbl /\ Hdr.type = "ps")
        BY <3>2, <3>4 DEF NextPartition, At, SkipForeign, Bitstream, AtPartition, AtHeader,
           PastPointers
      <4>2. ASSUME NEW n \in 1 .. MaxPart - 1, table[n].fsbl /\ table[n].type = "ps", Seen(n)'
            PROVE  Seen(n)
        <5>1. n < num + 1
          BY <4>1, <4>2 DEF Seen
        <5>2. n < num \/ (n = num /\ pc \in PastPointers)
          BY <1>0, <4>1, <4>2, <5>1 DEF Hdr
        <5> QED BY <5>2 DEF Seen
      <4> QED BY <2>3, <2>4, <3>1, <4>1, <4>2
    <3> QED BY <3>3, <3>4
  <2> QED BY <2>5, <2>6
<1> QED BY <1>1, <1>2, <1>3

LEMMA FlashInvStep == ASSUME IInv, FlashInv, [Next]_vars PROVE FlashInv'
<1> SUFFICES ASSUME ~boot.ddr, ~boot.readErrors
             PROVE  /\ pc' \in {"authenticate", "decrypt", "program", "after", "next"}
                         /\ flag'.checksum = 1 => Hdr'.intact
                    /\ pc' \in {"decrypt", "program", "after", "next"} /\ flag'.signed = 1
                         => Hdr'.intact
                    /\ \A n \in Loaded' : IsProtected(table[n]) => table[n].intact
  BY BootStep DEF FlashInv, IsProtected
<1>1. \A n \in Loaded' : IsProtected(table[n]) => table[n].intact
  <2> SUFFICES ASSUME NEW n \in Loaded', IsProtected(table[n]) PROVE table[n].intact
    OBVIOUS
  <2>1. CASE n \in Loaded
    BY <2>1 DEF FlashInv
  <2>2. CASE n \notin Loaded
    <3>1. NextPartition /\ n = num
      BY <2>2, LoadedStep
    <3>2. pc = "next"
      BY <3>1 DEF NextPartition, At
    <3>3. flag.signed = 1 \/ flag.checksum = 1
      BY <3>1, <3>2, ProtectedFlags, StageNames
    <3> QED BY <3>1, <3>2, <3>3 DEF FlashInv, Hdr
  <2> QED BY <2>1, <2>2
<1>2. CASE UNCHANGED vars
  BY <1>1, <1>2 DEF vars, loopVars, flagVars, FlashInv, Hdr
<1>3. CASE pc' \notin {"authenticate", "decrypt", "program", "after", "next"}
  BY <1>1, <1>3
<1>4. CASE Next /\ pc' \in {"authenticate", "decrypt", "program", "after", "next"}
  <2>1. /\ Advance /\ pc \in StageSet \ {"next"} /\ pc' = Following(pc)
        /\ pc = "checksum" => (flag.checksum = 1 => ValidatePartition)
        /\ pc = "authenticate" => (flag.signed = 1 => AuthenticatePartition)
    BY <1>4, StageNames, StageActions, StageConditions DEF Advance
  <2>2. flag' = flag /\ Hdr' = Hdr
    BY <2>1 DEF Advance, flagVars, loopVars, Hdr
  <2>3. ASSUME ValidatePartition \/ AuthenticatePartition PROVE Hdr.intact
    <3>1. PICK c \in Read(InFlash) : c.intact
      BY <2>3 DEF ValidatePartition, AuthenticatePartition, AtStartAddr, Matches
    <3>2. c = InFlash
      BY <3>1 DEF Read
    <3> QED BY <3>1, <3>2 DEF InFlash
  <2>4. pc \in {"checksum", "authenticate", "decrypt", "program", "after"}
    BY <1>4, <2>1, StageNames, NextStage
  <2>5. pc = "checksum" => pc' = "authenticate"
    BY <2>1, NextStage
  <2> QED BY <1>1, <2>1, <2>2, <2>3, <2>4, <2>5 DEF FlashInv
<1> QED BY <1>2, <1>3, <1>4

LEMMA XInvInit == BootInit => XInv /\ SsblInv
<1> SUFFICES ASSUME BootInit PROVE XInv /\ SsblInv
  OBVIOUS
<1>1. IInv
  BY IInvInit DEF BootInit
<1>2. /\ pc = "headers" /\ count = 0 /\ num = 1 /\ application = 0 /\ Loaded = {} /\ ssblPc = "off"
  BY DEF BootInit, Init, SsblInit, Loaded
<1>3. ASSUME NEW s \in 1 .. MaxPart - 1, NEW t, NEW d, XipImage(s, t, d) PROVE FALSE
  <2>1. s \in 1 .. 0 - 1
    BY <1>2, <1>3 DEF XipImage, Applications
  <2> QED BY <2>1
<1> QED BY <1>1, <1>2, <1>3 DEF XInv, LoopInv, PointerInv, FlashInv, SsblInv

\* The loader does nothing any more when it has returned, and the SSBL does
\* nothing to what the loader has done.
LEMMA SsblStep == ASSUME XInv, SsblInv, [BootNext]_allVars PROVE [Next]_vars /\ SsblInv'
<1>1. CASE Next /\ UNCHANGED ssblVars
  <2>1. pc # "done"
    <3>1. CASE ReadHeaders \/ Walk
      BY <3>1, StageNames DEF ReadHeaders, GetPartitionHeaderInfo, HeaderInfoFails,
         CertificateFails, AuthenticateHeaders, HeaderAuthenticationFails, Walk, WalkEnds,
         BadHeader, SkipForeign, Bitstream, Application, Attributes, EncryptionMissing,
         InvalidLoadAddress, NextPartition, AtPartition, AtHeader, At
    <3>2. CASE ~ReadHeaders /\ ~Walk
      BY <1>1, <3>2, StageStep, StageNames DEF Next, XInv, IInv
    <3> QED BY <3>1, <3>2
  <2> QED BY <1>1, <2>1 DEF SsblInv, ssblVars
<1>2. CASE SsblStart
  BY <1>2 DEF SsblStart, SsblInv, vars, flagVars, ptrVars
<1>3. CASE CopyData
  <2>1. \A c \in Read(FlashAt(dataPtr)) : c.part = dataPtr
    BY DEF Read, FlashAt
  <2> QED BY <1>3, <2>1 DEF CopyData, SsblInv, vars, flagVars, ptrVars
<1>4. CASE SsblHandoffExit
  BY <1>4 DEF SsblHandoffExit, SsblInv, vars, flagVars, ptrVars
<1>5. CASE UNCHANGED allVars
  BY <1>5 DEF allVars, ssblVars, vars, flagVars, ptrVars, SsblInv
<1> QED BY <1>1, <1>2, <1>3, <1>4, <1>5 DEF BootNext, SsblNext

LEMMA XInvStep == XInv /\ SsblInv /\ [BootNext]_allVars => (XInv /\ SsblInv)'
<1> SUFFICES ASSUME XInv, SsblInv, [BootNext]_allVars PROVE XInv' /\ SsblInv'
  OBVIOUS
<1>1. [Next]_vars /\ SsblInv'
  BY SsblStep
<1>2. IInv /\ LoopInv /\ PointerInv /\ FlashInv
  BY DEF XInv
<1> QED BY <1>1, <1>2, IInvStep, LoopInvStep, PointerInvStep, FlashInvStep DEF XInv

\* An application executed in place runs with its own text and its own data,
\* and each protected part is as it was built, for every table and boot.
THEOREM Xip == BootSpec => []XipRuns
<1>1. XInv /\ SsblInv => XipRuns
  <2> SUFFICES ASSUME XInv, SsblInv, ssblPc = "app",
                      NEW s \in 1 .. MaxPart - 1, NEW t \in 1 .. MaxPart - 1,
                      NEW d \in 1 .. MaxPart - 1, XipImage(s, t, d)
               PROVE  /\ exec = s /\ entered = t /\ ocm.part = d
                      /\ \A n \in {s, t, d} :
                           IsProtected(table[n]) /\ ~boot.readErrors => table[n].intact
    BY DEF XipRuns
  <2>1. /\ pc = "done" /\ exec > 0 /\ ~boot.ddr
        /\ ocm.part = dataPtr /\ entered = handoffPtr
    BY DEF SsblInv
  <2>2. num = count /\ (Seen(t) => handoffPtr = t) /\ (Seen(d) => dataPtr = d)
    BY <2>1 DEF XInv, PointerInv
  <2>3. num \in 1 .. MaxPart - 1 /\ pc \notin StageSet
    BY <2>1, StageNames DEF XInv, IInv, TypeOK
  <2>4. Loaded = {s, t, d} /\ s < t /\ s < d
    BY <2>2 DEF XipImage, Applications, Loaded
  <2>5. t < num /\ d < num
    BY <2>3, <2>4 DEF Loaded
  <2>6. exec = s
    <3>1. exec \in Loaded /\ \A n \in Loaded : exec <= n
      BY <2>1, <2>3 DEF XInv, IInv, ExecInv
    <3> QED BY <2>4, <3>1
  <2>7. \A n \in {s, t, d} : IsProtected(table[n]) /\ ~boot.readErrors => table[n].intact
    BY <2>1, <2>4 DEF XInv, FlashInv
  <2> QED BY <2>1, <2>2, <2>5, <2>6, <2>7 DEF Seen
<1> QED BY <1>1, XInvInit, XInvStep, PTL DEF BootSpec
----------------------------------------------------------------------------
(***************************************************************************)
(* Without DDR: what lies at the load address of an application that runs  *)
(* from memory.  A read from the linear flash brings it there at stage     *)
(* "pcap", and no later stage touches it: the decryption of a protected    *)
(* partition works on the flash (lines 1239-1242, 624-636).                *)
(***************************************************************************)
LeftEncrypted(n) == ~boot.ddr /\ table[n].enc /\ IsProtected(table[n])
Stored(n) == mem[n].part = n /\ mem[n].form = IF LeftEncrypted(n) THEN "cipher" ELSE "plain"

RamInv ==
  ~boot.ddr =>
    /\ pc \in {"load", "checksum", "authenticate", "decrypt", "program", "after", "next"}
         /\ flag.ps = 1 /\ Hdr.exec = "ram" => Stored(num)
    /\ \A n \in Loaded : table[n].exec = "ram" => Stored(n)

\* Without DDR, no application of the image is both encrypted and protected.
OneAtATime == boot.ddr \/ \A n \in Loaded : ~(table[n].enc /\ IsProtected(table[n]))

LEMMA RamStep == ASSUME IInv, RamInv, [Next]_vars PROVE RamInv'
<1> USE StageNames, NextStage
<1> SUFFICES ASSUME ~boot.ddr PROVE RamInv'
  BY BootStep DEF RamInv
<1>0. boot.linear /\ num \in 1 .. MaxPart - 1 /\ Loaded \subseteq 1 .. num - 1
  BY MemoryStep DEF IInv, FlagInv, TypeOK
<1>1. \A n \in Loaded' : table[n].exec = "ram" => Stored(n)'
  <2> SUFFICES ASSUME NEW n \in Loaded', table[n].exec = "ram" PROVE Stored(n)'
    OBVIOUS
  <2>1. n \in Places /\ (LeftEncrypted(n)' <=> LeftEncrypted(n))
    <3>1. num' \in 1 .. MaxPart - 1
      BY TypeStep DEF IInv, TypeOK
    <3>2. n \in Places
      BY <3>1 DEF Loaded
    <3> QED BY <3>2, BootStep DEF LeftEncrypted, IsProtected
  <2>2. CASE n \in Loaded
    <3>1. mem'[n] = mem[n]
      BY <1>0, <2>1, <2>2, MemoryStep DEF Place
    <3> QED BY <2>1, <2>2, <3>1 DEF RamInv, Stored
  <2>3. CASE n \notin Loaded
    <3>1. NextPartition /\ flag.ps = 1 /\ n = num
      BY <2>3, LoadedStep
    <3>2. pc = "next" /\ UNCHANGED mem
      BY <3>1 DEF NextPartition, At, memVars
    <3> QED BY <2>1, <3>1, <3>2 DEF RamInv, Stored, Hdr
  <2> QED BY <2>2, <2>3
<1> SUFFICES ASSUME pc' \in {"load", "checksum", "authenticate", "decrypt", "program", "after", "next"},
                    flag'.ps = 1, Hdr'.exec = "ram"
             PROVE  Stored(num)'
  BY <1>1, BootStep DEF RamInv
<1>2. CASE UNCHANGED vars
  BY <1>2 DEF vars, loopVars, flagVars, memVars, RamInv, Stored, LeftEncrypted, Hdr
<1>3. CASE Next
  <2>1. /\ pc \in StageSet \ {"next"} /\ pc' = Following(pc) /\ Place' = Place
        /\ num' = num /\ boot' = boot /\ flag' = flag /\ table' = table
    BY <1>3, StageActions, SameHeader DEF Advance, IInv
  <2>2. /\ pc \in {"pcap", "load", "checksum", "authenticate", "decrypt", "program", "after"}
        /\ flag.ps = 1 /\ flag.pl = 0 /\ Place = num /\ Hdr.exec = "ram"
        /\ (LeftEncrypted(num)' <=> LeftEncrypted(num))
    BY <2>1, Kinds DEF Hdr, LeftEncrypted, IsProtected
  <2>3. CASE pc = "pcap"
    <3>1. Moves /\ ByPcap
      BY <1>0, <2>2 DEF Moves, ByPcap
    <3>2. Transfer
      BY <1>3, <2>3, <3>1, StageActions, StageConditions
    <3>3. PICK c \in Read(InFlash) : mem'[num] = IF SecureTransfer THEN Decrypted(c) ELSE c
      BY <1>0, <2>1, <2>2, <3>2, Kinds DEF Transfer
    <3>4. /\ c \in Contents /\ c.part = num
          /\ c.form = IF flag.encrypted = 1 THEN "cipher" ELSE "plain"
      BY <2>1, Kinds, Types, Conversions DEF IInv
    <3>5. /\ flag.encrypted = 1 <=> table[num].enc
          /\ Protected <=> IsProtected(table[num])
      BY <2>1, ProtectedFlags DEF IInv, FlagInv, Hdr, Bit, Protected
    <3>6. CASE SecureTransfer
      <4>1. mem'[num].part = num /\ mem'[num].form = "plain" /\ ~LeftEncrypted(num)
        BY <2>2, <3>3, <3>4, <3>5, <3>6, Conversions DEF SecureTransfer, LeftEncrypted
      <4> QED BY <2>1, <2>2, <4>1 DEF Stored
    <3>7. CASE ~SecureTransfer
      <4>1. LeftEncrypted(num) <=> flag.encrypted = 1
        BY <2>2, <3>5, <3>7 DEF SecureTransfer, LeftEncrypted
      <4> QED BY <2>1, <2>2, <3>3, <3>4, <3>7, <4>1 DEF Stored
    <3> QED BY <3>6, <3>7
  <2>4. CASE pc \in {"load", "checksum", "authenticate", "decrypt", "program", "after"}
    <3>1. UNCHANGED mem
      BY <1>3, <2>4, StageActions DEF LoadFabric, ProgramFabric, DecryptPartition, memVars
    <3> QED BY <2>1, <2>2, <2>4, <3>1 DEF RamInv, Stored
  <2> QED BY <2>2, <2>3, <2>4
<1> QED BY <1>2, <1>3

\* For every table, build and boot, an application that runs from memory lies
\* there decrypted, with one exception: without DDR, one that is encrypted and
\* also signed or checked is still encrypted when the loop has dealt with it,
\* always, because the move leaves the decryption to DecryptPartition, which
\* finds the flash at the address it is given.
THEOREM DecryptionLimit ==
  Spec => [](\A n \in Loaded : boot.ddr \/ table[n].exec = "ram" => Stored(n))
<1>1. Init => RamInv
  <2> SUFFICES ASSUME Init PROVE Loaded = {} /\ pc = "headers"
    BY StageNames DEF RamInv
  <2> QED BY DEF Init, Loaded
<1>2. IInv /\ RamInv /\ [Next]_vars => RamInv'
  BY RamStep
<1>3. IInv /\ RamInv => \A n \in Loaded : boot.ddr \/ table[n].exec = "ram" => Stored(n)
  <2> SUFFICES ASSUME IInv, RamInv, NEW n \in Loaded, boot.ddr \/ table[n].exec = "ram"
               PROVE  Stored(n)
    OBVIOUS
  <2>1. CASE boot.ddr
    BY <2>1 DEF IInv, LoadedInv, InClear, Stored, LeftEncrypted
  <2>2. CASE ~boot.ddr
    BY <2>2 DEF RamInv
  <2> QED BY <2>1, <2>2
<1> QED BY <1>1, <1>2, <1>3, Invariant, PTL DEF Spec

\* So without DDR everything that is moved lies in the clear as long as no
\* application is both encrypted and protected.
THEOREM MovedUnlessBoth == Spec => [](OneAtATime => MovedInClear)
<1> DEFINE Limit == \A n \in Loaded : boot.ddr \/ table[n].exec = "ram" => Stored(n)
<1>1. Limit => (OneAtATime => MovedInClear)
  BY DEF OneAtATime, MovedInClear, Stored, LeftEncrypted, InClear
<1> HIDE DEF Limit
<1>2. Spec => []Limit
  BY DecryptionLimit DEF Limit
<1> QED BY <1>1, <1>2, PTL
=============================================================================
