---------------------------- MODULE Si5381Proofs ----------------------------
(***************************************************************************)
(* Proofs about Si5381, for every configuration between the preamble and   *)
(* the postamble.                                                          *)
(***************************************************************************)
EXTENDS Si5381, TLAPS

\* The type and length of a concatenation, and where the elements of the
\* middle one of three sequences are in it.
LEMMA ConcatenationType ==
  ASSUME NEW S, NEW s \in Seq(S), NEW t \in Seq(S), NEW u \in Seq(S)
  PROVE  s \o t \o u \in Seq(S)
OBVIOUS

LEMMA ConcatenationLen ==
  ASSUME NEW S, NEW s \in Seq(S), NEW t \in Seq(S), NEW u \in Seq(S)
  PROVE  Len(s \o t \o u) = Len(s) + Len(t) + Len(u)
<1>1. s \o t \in Seq(S) /\ Len(s \o t) = Len(s) + Len(t)
  OBVIOUS
<1> QED BY <1>1

LEMMA ConcatenationMiddle ==
  ASSUME NEW S, NEW s \in Seq(S), NEW t \in Seq(S), NEW u \in Seq(S)
  PROVE  \A i \in 1 .. Len(t) : (s \o t \o u)[i + Len(s)] = t[i]
<1>1. /\ s \o t \in Seq(S) /\ Len(s \o t) = Len(s) + Len(t)
      /\ \A i \in 1 .. Len(t) : (s \o t)[i + Len(s)] = t[i]
  OBVIOUS
<1>2. ASSUME NEW v \in Seq(S)
      PROVE  \A i \in 1 .. Len(v) : (v \o u)[i] = v[i]
  OBVIOUS
<1> QED BY <1>1, <1>2

LEMMA TableParts ==
  ASSUME Preamble \in Seq(Entries), Configuration \in Seq(Entries), Postamble \in Seq(Entries)
  PROVE  /\ Registers \in Seq(Entries)
         /\ Count = Len(Preamble) + Len(Configuration) + Len(Postamble)
         /\ \A i \in 1 .. Len(Configuration) :
              Registers[i + Len(Preamble)] = Configuration[i]
<1>1. Preamble \o Configuration \o Postamble \in Seq(Entries)
  BY ConcatenationType, Zenon
<1>2. Len(Preamble \o Configuration \o Postamble)
        = Len(Preamble) + Len(Configuration) + Len(Postamble)
  <2>1. \A s, t, u \in Seq(Entries) : Len(s \o t \o u) = Len(s) + Len(t) + Len(u)
    BY ConcatenationLen
  <2> QED BY <2>1, Zenon
<1>3. \A i \in 1 .. Len(Configuration) :
        (Preamble \o Configuration \o Postamble)[i + Len(Preamble)] = Configuration[i]
  BY ConcatenationMiddle, Zenon
<1> QED BY <1>1, <1>2, <1>3 DEF Registers, Count

\* The table is a sequence of entries, and each entry of the configuration is
\* the only one for its address.
LEMMA TableFacts ==
  /\ Count \in Nat /\ Count > PREAMBLE_SIZE + POSTAMBLE_SIZE
  /\ PREAMBLE_SIZE = 3 /\ POSTAMBLE_SIZE = 5 /\ Len(Preamble) = 3
  /\ \A i \in 1 .. Count : Registers[i] \in Entries
  /\ \A i \in PREAMBLE_SIZE + 1 .. Count - POSTAMBLE_SIZE :
       \A j \in 1 .. Count : Registers[i].address = Registers[j].address => j = i
<1> DEFINE n == Len(Configuration)
<1>1. Preamble \in Seq(Entries) /\ Len(Preamble) = 3
  BY DEF Preamble, Entry, Entries, Words, Bytes
<1>2. Postamble \in Seq(Entries) /\ Len(Postamble) = 5
  BY DEF Postamble, Entry, Entries, Words, Bytes
<1>3. Configuration \in Seq(Entries) /\ n \in Nat /\ n > 0
  BY ConfigurationAssumption
<1>4. /\ Registers \in Seq(Entries) /\ Count = n + 8
      /\ \A i \in 1 .. n : Registers[i + 3] = Configuration[i]
  <2>1. Configuration \in Seq(Entries)
    BY <1>3
  <2> QED BY <1>1, <1>2, <1>3, <2>1, TableParts
<1>5. PREAMBLE_SIZE = 3 /\ POSTAMBLE_SIZE = 5
  BY <1>1, <1>2, SizesAssumption
<1>6. ASSUME NEW i \in PREAMBLE_SIZE + 1 .. Count - POSTAMBLE_SIZE,
             NEW j \in 1 .. Count, Registers[i].address = Registers[j].address
      PROVE  j = i
  <2>1. i - 3 \in 1 .. n /\ Registers[i] = Configuration[i - 3]
    BY <1>3, <1>4, <1>5
  <2> QED BY <2>1, <1>1, <1>6, ConfigurationAssumption
<1>7. \A i \in 1 .. Count : Registers[i] \in Entries
  BY <1>4 DEF Count
<1>8. Count \in Nat /\ Count > PREAMBLE_SIZE + POSTAMBLE_SIZE
  BY <1>3, <1>4, <1>5
<1> QED BY <1>1, <1>5, <1>6, <1>7, <1>8

\* An address is its page and its register on that page.
LEMMA AddressSplits ==
  ASSUME NEW a \in Words
  PROVE  Page(a) \in Bytes /\ Low(a) \in Bytes /\ 256 * Page(a) + Low(a) = a
<1> DEFINE p == a \div 256
<1>1. p \in Int /\ 0 <= p /\ p < 256 /\ 256 * p + (a % 256) = a
  <2>1. a \in Int /\ 0 <= a /\ a < 65536
    BY DEF Words
  <2> QED BY <2>1
<1>2. p % 256 = p
  <2> HIDE DEF p
  <2> QED BY <1>1
<1>3. a % 256 \in Bytes
  BY DEF Words, Bytes
<1> QED BY <1>1, <1>2, <1>3 DEF Page, Low, Bytes

(***************************************************************************)
(* The inductive invariant.  What a loop is at:                            *)
(***************************************************************************)
PlaceInv ==
  /\ at = "delay" => phase = "write" /\ index = PREAMBLE_SIZE
  /\ at \in {"receive", "check"} => phase # "write"
  /\ at \in {"driver", "mux"} => phase = "id"
  /\ phase = "id" => index = 1
  /\ phase = "verify" => index \in PREAMBLE_SIZE + 1 .. Count - POSTAMBLE_SIZE
  /\ result = "SUCCESS" => phase = "verify"
  /\ at # "idle" /\ phase = "write" /\ index > PREAMBLE_SIZE => settled

\* The device has not been reset since the call began.
Calm == "reset" \notin faults

\* Once the identifier was read, LastPage is right as long as the call lasts:
\* the identifier is delivered by page 0 only, after LastPage became 0.
PageInv ==
  /\ at \in {"register", "receive"} => LastPage = Page(Target)
  /\ phase = "id" /\ at \notin {"check", "idle"} => ~matches
  /\ Calm /\ at # "idle" /\ phase # "id" => page = LastPage
  /\ Calm /\ at = "check" /\ phase = "id" /\ matches => page = 0 /\ LastPage = 0

\* What is received is that of the register that was asked for; without any
\* fault another identifier is one from another page.
ReadInv ==
  /\ Calm /\ at = "receive" => pointer = Low(Target)
  /\ at = "check" /\ phase = "id" /\ faults = {} /\ ~matches => LastPage = 0 /\ page # 0
  /\ FailureExplained

\* The entries written so far are in the registers, unless a later one has
\* the same address; and those read back were right.
LastOf(i, n) == \A j \in i + 1 .. n : Registers[j].address # Registers[i].address
Holds(n) ==
  \A i \in 1 .. n : LastOf(i, n) => registers[Registers[i].address] = Registers[i].value
StoreInv ==
  Calm /\ (at # "idle" \/ result = "SUCCESS") =>
    /\ Holds(Written)
    /\ at = "check" /\ phase = "verify" => matches
    /\ ~misread

IInv == TypeOK /\ PlaceInv /\ PageInv /\ ReadInv /\ StoreInv

----------------------------------------------------------------------------
LEMMA TargetFacts ==
  ASSUME index \in 1 .. Count
  PROVE  /\ Page(Target) \in Bytes /\ Low(Target) \in Bytes
         /\ 256 * Page(Target) + Low(Target) = Target
         /\ phase = "id" => Page(Target) = 0 /\ Low(Target) = PART_NUM_CMD
         /\ phase # "id" => Target = Registers[index].address
<1>1. Target \in Words
  <2>1. PART_NUM_CMD \in Words
    BY DEF PART_NUM_CMD, Words
  <2>2. Registers[index].address \in Words
    BY TableFacts DEF Entries
  <2> QED BY <2>1, <2>2 DEF Target
<1>2. Page(PART_NUM_CMD) = 0 /\ Low(PART_NUM_CMD) = PART_NUM_CMD
  BY DEF Page, Low, PART_NUM_CMD
<1> QED BY <1>1, <1>2, AddressSplits DEF Target

(***************************************************************************)
(* Types and places.                                                       *)
(***************************************************************************)
LEMMA InitInv == Init => IInv
<1> SUFFICES ASSUME Init PROVE IInv
  OBVIOUS
<1>1. Addresses \subseteq Words /\ \A a \in Words : Page(a) \in Bytes
  BY TableFacts, AddressSplits DEF Addresses, Entries
<1>2. TypeOK
  <2>1. registers \in [Addresses -> Bytes]
    BY DefaultAssumption DEF Init
  <2>2. page \in Bytes
    BY <1>1 DEF Init
  <2>3. pointer \in Bytes /\ LastPage \in Bytes \cup {-1}
    BY DEF Init, Bytes
  <2>4. /\ matches \in BOOLEAN /\ settled \in BOOLEAN /\ misread \in BOOLEAN
        /\ faults \subseteq {"failed", "reset"}
    BY DEF Init
  <2> QED BY <2>1, <2>2, <2>3, <2>4, TableFacts DEF Init, TypeOK, Places
<1>3. PlaceInv /\ PageInv /\ ReadInv
  BY DEF Init, PlaceInv, PageInv, ReadInv, FailureExplained
<1>4. StoreInv
  BY DEF Init, StoreInv
<1> QED BY <1>2, <1>3, <1>4 DEF IInv

\* The next entry stays in the table, and the second loop between preamble
\* and postamble.
LEMMA NextEntryPlaces ==
  ASSUME TypeOK, PlaceInv, NextEntry, phase # "id", result = "running"
  PROVE  /\ index' \in 1 .. Count
         /\ phase' \in {"write", "verify"}
         /\ phase' = "verify" => index' \in PREAMBLE_SIZE + 1 .. Count - POSTAMBLE_SIZE
         /\ phase' = "write" => index' = index + 1 /\ phase = "write"
         /\ \/ at' = "page" /\ result' = "running"
            \/ at' = "idle" /\ result' = "SUCCESS" /\ phase' = "verify"
BY TableFacts DEF TypeOK, PlaceInv, NextEntry, Return

LEMMA TypeStep == TypeOK /\ PlaceInv /\ [Next]_vars => TypeOK' /\ PlaceInv'
<1> SUFFICES ASSUME TypeOK, PlaceInv, [Next]_vars PROVE TypeOK' /\ PlaceInv'
  OBVIOUS
<1>t. /\ Count \in Nat /\ Count > 8 /\ PREAMBLE_SIZE = 3 /\ POSTAMBLE_SIZE = 5
      /\ Page(Target) \in Bytes /\ Low(Target) \in Bytes
  BY TableFacts, TargetFacts DEF TypeOK
<1> USE DEF TypeOK, PlaceInv, Places, device, history
<1>0. CASE UNCHANGED vars
  BY <1>0 DEF vars
<1>1. CASE Call
  <2>1. /\ matches' \in BOOLEAN /\ settled' \in BOOLEAN /\ misread' \in BOOLEAN
        /\ faults' \subseteq {"failed", "reset"}
    BY <1>1 DEF Call
  <2> QED BY <1>1, <1>t, <2>1 DEF Call
<1>2. CASE InitDriver
  BY <1>2, <1>t DEF InitDriver, SetUp, Proceed, Return
<1>3. CASE SetMux
  BY <1>3, <1>t DEF SetMux, SetUp, Proceed, Return
<1>4. CASE SetPage
  <2> PICK t \in Transfers :
        /\ page' = IF t = "lost" THEN page ELSE Page(Target)
        /\ pointer' = IF t = "lost" THEN pointer ELSE PAGE_CMD
        /\ LastPage' = IF t = "done" THEN Page(Target) ELSE LastPage
        /\ IF t = "done" THEN Proceed("register") ELSE Failed
    BY <1>4 DEF SetPage
  <2>1. page' \in Bytes /\ pointer' \in Bytes /\ LastPage' \in Bytes \cup {-1}
    BY <1>t DEF PAGE_CMD, Bytes
  <2> QED BY <1>4, <1>t, <2>1 DEF SetPage, Proceed, Failed, Return
<1>5. CASE KeepPage
  BY <1>5, <1>t DEF KeepPage, Proceed
<1>6. CASE SendRegister
  <2> PICK t \in Transfers :
        /\ IF t = "lost"
           THEN UNCHANGED <<pointer, registers>>
           ELSE /\ pointer' = Low(Target)
                /\ registers' = IF phase = "write" THEN Stored(Registers[index].value) ELSE registers
        /\ IF t # "done" THEN Failed /\ UNCHANGED <<phase, index>>
           ELSE IF phase # "write" THEN Proceed("receive") /\ UNCHANGED <<phase, index>>
           ELSE IF index = PREAMBLE_SIZE THEN Proceed("delay") /\ UNCHANGED <<phase, index>>
           ELSE NextEntry /\ UNCHANGED faults
    BY <1>6 DEF SendRegister
  <2>1. registers' \in [Addresses -> Bytes]
    <3>1. Registers[index].value \in Bytes
      BY TableFacts DEF Entries
    <3> QED BY <3>1 DEF Stored
  <2>2. pointer' \in Bytes
    BY <1>t
  <2>3. CASE t # "done"
    BY <1>6, <1>t, <2>1, <2>2, <2>3 DEF SendRegister, Failed, Return
  <2>4. CASE t = "done" /\ (phase # "write" \/ index = PREAMBLE_SIZE)
    BY <1>6, <1>t, <2>1, <2>2, <2>4 DEF SendRegister, Proceed
  <2>5. CASE t = "done" /\ phase = "write" /\ index # PREAMBLE_SIZE
    <3>1. NextEntry /\ result = "running" /\ UNCHANGED faults
      BY <1>6, <2>5 DEF SendRegister
    <3> QED BY <1>6, <1>t, <2>1, <2>2, <2>5, <3>1, NextEntryPlaces DEF SendRegister
  <2> QED BY <2>3, <2>4, <2>5
<1>7. CASE Receive
  <2>1. matches' \in BOOLEAN
    BY <1>7 DEF Receive
  <2> QED BY <1>7, <1>t, <2>1 DEF Receive, Proceed, Failed, Return
<1>8. CASE Delay
  BY <1>8, <1>t, NextEntryPlaces DEF Delay
<1>9. CASE CheckId
  BY <1>9, <1>t DEF CheckId, Return
<1>10. CASE CheckRegister
  <2>1. misread' \in BOOLEAN
    BY <1>10 DEF CheckRegister
  <2> QED BY <1>10, <1>t, <2>1, NextEntryPlaces DEF CheckRegister
<1>11. CASE Reset
  <2>1. registers' \in [Addresses -> Bytes]
    BY <1>11, DefaultAssumption DEF Reset
  <2>2. page' \in Bytes /\ pointer' \in Bytes
    BY <1>11 DEF Reset, Bytes
  <2> QED BY <1>11, <1>t, <2>1, <2>2 DEF Reset
<1>12. CASE Restart
  <2>1. /\ matches' \in BOOLEAN /\ settled' \in BOOLEAN /\ misread' \in BOOLEAN
        /\ faults' \subseteq {"failed", "reset"}
    BY <1>12 DEF Restart
  <2> QED BY <1>12, <1>t, <2>1 DEF Restart
<1> QED BY <1>0, <1>1, <1>2, <1>3, <1>4, <1>5, <1>6, <1>7, <1>8, <1>9, <1>10, <1>11, <1>12
  DEF Next, Step

(***************************************************************************)
(* The page of the device and LastPage.                                    *)
(***************************************************************************)
\* A transfer that failed in the first phase leads to the check.
LEMMA FailedPlaces ==
  ASSUME Failed
  PROVE  /\ at' = IF phase = "id" THEN "check" ELSE "idle"
         /\ faults' = faults \cup {"failed"}
         /\ result' = IF phase = "id" THEN result ELSE "FAILURE"
BY DEF Failed, Return

LEMMA PageStep ==
  TypeOK /\ PlaceInv /\ PageInv /\ [Next]_vars => PageInv'
<1> SUFFICES ASSUME TypeOK, PlaceInv, PageInv, [Next]_vars PROVE PageInv'
  OBVIOUS
<1>t. /\ phase = "id" => Page(Target) = 0
      /\ result = "running" <=> at # "idle"
  BY TargetFacts DEF TypeOK
<1>s. ASSUME UNCHANGED <<phase, index>> PROVE Target' = Target
  BY <1>s DEF Target
<1> USE DEF PageInv, PlaceInv, device, history, Calm
<1>0. CASE UNCHANGED vars
  BY <1>0, <1>s DEF vars
<1>1. CASE Call
  BY <1>1 DEF Call
<1>2. CASE InitDriver
  BY <1>2 DEF InitDriver, SetUp, Proceed, Return
<1>3. CASE SetMux
  BY <1>3 DEF SetMux, SetUp, Proceed, Return
<1>4. CASE SetPage
  <2> PICK t \in Transfers :
        /\ page' = IF t = "lost" THEN page ELSE Page(Target)
        /\ pointer' = IF t = "lost" THEN pointer ELSE PAGE_CMD
        /\ LastPage' = IF t = "done" THEN Page(Target) ELSE LastPage
        /\ IF t = "done" THEN Proceed("register") ELSE Failed
    BY <1>4 DEF SetPage
  <2>1. CASE t = "done"
    BY <1>4, <1>s, <2>1 DEF SetPage, Proceed
  <2>2. CASE t # "done"
    BY <1>4, <1>s, <2>2, FailedPlaces DEF SetPage
  <2> QED BY <2>1, <2>2
<1>5. CASE KeepPage
  BY <1>5, <1>s DEF KeepPage, Proceed, PageNeeded
<1>6. CASE SendRegister
  <2> PICK t \in Transfers :
        /\ IF t # "done" THEN Failed /\ UNCHANGED <<phase, index>>
           ELSE IF phase # "write" THEN Proceed("receive") /\ UNCHANGED <<phase, index>>
           ELSE IF index = PREAMBLE_SIZE THEN Proceed("delay") /\ UNCHANGED <<phase, index>>
           ELSE NextEntry /\ UNCHANGED faults
    BY <1>6 DEF SendRegister
  <2>3. CASE t # "done"
    BY <1>6, <1>s, <2>3, FailedPlaces DEF SendRegister
  <2>4. CASE t = "done" /\ (phase # "write" \/ index = PREAMBLE_SIZE)
    BY <1>6, <1>s, <2>4 DEF SendRegister, Proceed
  <2>5. CASE t = "done" /\ phase = "write" /\ index # PREAMBLE_SIZE
    <3>1. NextEntry /\ result = "running" /\ UNCHANGED faults
      BY <1>6, <1>t, <2>5 DEF SendRegister
    <3> QED BY <1>6, <2>5, <3>1, NextEntryPlaces DEF SendRegister
  <2> QED BY <2>3, <2>4, <2>5
<1>7. CASE Receive
  <2> PICK t \in Transfers :
        /\ IF t = "lost" THEN UNCHANGED matches ELSE matches' \in {m \in BOOLEAN : Delivers(m)}
        /\ IF t = "done" THEN Proceed("check") ELSE Failed
    BY <1>7 DEF Receive
  <2>1. UNCHANGED <<phase, index, LastPage, page>> /\ at' \in {"check", "idle"}
    BY <1>7, FailedPlaces DEF Receive, Proceed
  <2>2. phase # "id" /\ at' # "idle" => page' = LastPage' \/ ~Calm'
    BY <1>7, <2>1, FailedPlaces DEF Receive, Proceed
  <2>3. phase = "id" /\ matches' => page = 0 /\ LastPage = 0
    BY <1>7, <1>t DEF Receive, Delivers
  <2> QED BY <2>1, <2>2, <2>3
<1>8. CASE Delay
  BY <1>8, <1>t, NextEntryPlaces DEF Delay
<1>9. CASE CheckId
  BY <1>9 DEF CheckId, Return
<1>10. CASE CheckRegister
  BY <1>10, <1>t, NextEntryPlaces DEF CheckRegister
<1>11. CASE Reset
  BY <1>11, <1>s DEF Reset
<1>12. CASE Restart
  BY <1>12 DEF Restart
<1> QED BY <1>0, <1>1, <1>2, <1>3, <1>4, <1>5, <1>6, <1>7, <1>8, <1>9, <1>10, <1>11, <1>12
  DEF Next, Step

(***************************************************************************)
(* What is read.                                                           *)
(***************************************************************************)
LEMMA ReadStep ==
  TypeOK /\ PlaceInv /\ PageInv /\ ReadInv /\ [Next]_vars => ReadInv'
<1> SUFFICES ASSUME TypeOK, PlaceInv, PageInv, ReadInv, [Next]_vars PROVE ReadInv'
  OBVIOUS
<1>t. /\ phase = "id" => Page(Target) = 0 /\ Low(Target) = PART_NUM_CMD
      /\ result = "running" <=> at # "idle"
  BY TargetFacts DEF TypeOK
<1>s. ASSUME UNCHANGED <<phase, index>> PROVE Target' = Target
  BY <1>s DEF Target
<1> USE DEF ReadInv, FailureExplained, PlaceInv, device, history, Calm
<1>0. CASE UNCHANGED vars
  BY <1>0, <1>s DEF vars
<1>1. CASE Call
  BY <1>1 DEF Call
<1>2. CASE InitDriver
  BY <1>2, <1>t DEF InitDriver, SetUp, Proceed, Return
<1>3. CASE SetMux
  BY <1>3, <1>t DEF SetMux, SetUp, Proceed, Return
<1>4. CASE SetPage
  <2>1. (at' = "register" /\ result' = "running") \/ faults' # {}
    BY <1>4, <1>t, FailedPlaces DEF SetPage, Proceed
  <2>2. at' \in {"register", "check", "idle"}
    BY <1>4, FailedPlaces DEF SetPage, Proceed
  <2> QED BY <2>1, <2>2
<1>5. CASE KeepPage
  BY <1>5, <1>t DEF KeepPage, Proceed
<1>6. CASE SendRegister
  <2> PICK t \in Transfers :
        /\ IF t = "lost"
           THEN UNCHANGED <<pointer, registers>>
           ELSE /\ pointer' = Low(Target)
                /\ registers' = IF phase = "write" THEN Stored(Registers[index].value) ELSE registers
        /\ IF t # "done" THEN Failed /\ UNCHANGED <<phase, index>>
           ELSE IF phase # "write" THEN Proceed("receive") /\ UNCHANGED <<phase, index>>
           ELSE IF index = PREAMBLE_SIZE THEN Proceed("delay") /\ UNCHANGED <<phase, index>>
           ELSE NextEntry /\ UNCHANGED faults
    BY <1>6 DEF SendRegister
  <2>3. CASE t # "done"
    BY <2>3, FailedPlaces
  <2>4. CASE t = "done" /\ (phase # "write" \/ index = PREAMBLE_SIZE)
    BY <1>6, <1>s, <1>t, <2>4 DEF SendRegister, Proceed, Transfers
  <2>5. CASE t = "done" /\ phase = "write" /\ index # PREAMBLE_SIZE
    <3>1. NextEntry /\ result = "running" /\ UNCHANGED faults
      BY <1>6, <1>t, <2>5 DEF SendRegister
    <3> QED BY <2>5, <3>1, NextEntryPlaces
  <2> QED BY <2>3, <2>4, <2>5
<1>7. CASE Receive
  <2> PICK t \in Transfers :
        /\ IF t = "lost" THEN UNCHANGED matches ELSE matches' \in {m \in BOOLEAN : Delivers(m)}
        /\ IF t = "done" THEN Proceed("check") ELSE Failed
    BY <1>7 DEF Receive
  <2>1. CASE t # "done"
    BY <2>1, FailedPlaces
  <2>2. CASE t = "done"
    <3>1. /\ UNCHANGED <<phase, index, LastPage, page, pointer, faults>>
          /\ at' = "check" /\ result' = "running" /\ Delivers(matches')
      BY <1>7, <1>t, <2>2 DEF Receive, Proceed, Transfers
    <3>2. ASSUME phase = "id", faults = {}, ~matches' PROVE LastPage = 0 /\ page # 0
      <4>1. LastPage = 0 /\ pointer = PART_NUM_CMD
        BY <1>7, <1>t, <3>2 DEF Receive, PageInv
      <4> QED BY <3>1, <3>2, <4>1 DEF Delivers
    <3> QED BY <3>1, <3>2
  <2> QED BY <2>1, <2>2
<1>8. CASE Delay
  BY <1>8, <1>t, NextEntryPlaces DEF Delay
<1>9. CASE CheckId
  BY <1>9, <1>t DEF CheckId, Return
<1>10. CASE CheckRegister
  BY <1>10, <1>t, NextEntryPlaces DEF CheckRegister
<1>11. CASE Reset
  BY <1>11 DEF Reset
<1>12. CASE Restart
  BY <1>12 DEF Restart
<1> QED BY <1>0, <1>1, <1>2, <1>3, <1>4, <1>5, <1>6, <1>7, <1>8, <1>9, <1>10, <1>11, <1>12
  DEF Next, Step

(***************************************************************************)
(* What is written.                                                        *)
(***************************************************************************)
LEMMA WrittenFacts ==
  ASSUME TypeOK
  PROVE  /\ Written \in 0 .. Count
         /\ phase = "id" => Written = 0
         /\ phase = "write" => Written = IF at = "delay" THEN index ELSE index - 1
         /\ phase = "verify" => Written = Count
BY TableFacts DEF TypeOK, Written

\* The address at which the device stores or reads is the one asked for.
LEMMA AddressedTarget ==
  ASSUME TypeOK, PageInv, Calm, phase # "id", at \in {"register", "receive"}
  PROVE  /\ Addressed(Low(Target)) = Registers[index].address
         /\ Registers[index].address \in Addresses
<1>1. page = Page(Target)
  BY DEF PageInv
<1>2. index \in 1 .. Count
  BY DEF TypeOK
<1> QED BY <1>1, <1>2, TargetFacts DEF Addressed, Addresses

\* Storing an entry at its address adds it to those that are held.
LEMMA HoldsMore ==
  ASSUME TypeOK, index \in 1 .. Count, Holds(index - 1),
         Addressed(Low(Target)) = Registers[index].address,
         registers' = Stored(Registers[index].value)
  PROVE  \A i \in 1 .. index : LastOf(i, index) =>
           registers'[Registers[i].address] = Registers[i].value
<1> SUFFICES ASSUME NEW i \in 1 .. index, LastOf(i, index)
             PROVE  registers'[Registers[i].address] = Registers[i].value
  OBVIOUS
<1>1. Registers[i].address \in Addresses
  BY TableFacts DEF Addresses
<1>2. CASE i = index
  BY <1>1, <1>2 DEF Stored
<1>3. CASE i # index
  <2>1. i \in 1 .. index - 1 /\ LastOf(i, index - 1)
    BY <1>3 DEF LastOf
  <2>2. Registers[index].address # Registers[i].address
    BY <1>3 DEF LastOf
  <2> QED BY <1>1, <2>1, <2>2 DEF Holds, Stored
<1> QED BY <1>2, <1>3

\* Where the next entry leaves the number of entries written.
LEMMA NextEntryWritten ==
  ASSUME TypeOK, PlaceInv, TypeOK', NextEntry, phase # "id", result = "running",
         IF phase = "write" THEN at \in {"register", "delay"} ELSE at = "check"
  PROVE  Written' = IF at = "register" THEN index ELSE Written
<1>1. PREAMBLE_SIZE = 3 /\ Count \in Nat /\ Count > 8
  BY TableFacts
<1> QED BY <1>1, WrittenFacts, NextEntryPlaces DEF TypeOK, PlaceInv, NextEntry, Return, Written

\* A step that leaves the registers and what was written alone, and neither
\* checks nor ends anything that was not so before.
LEMMA StoreSame ==
  ASSUME StoreInv, UNCHANGED registers, Written' = Written, Calm' => Calm,
         Calm' /\ (at' # "idle" \/ result' = "SUCCESS") =>
           /\ at # "idle" \/ result = "SUCCESS"
           /\ at' = "check" /\ phase' = "verify" => matches'
           /\ ~misread'
  PROVE  StoreInv'
BY DEF StoreInv, Holds, LastOf

LEMMA StoreStep ==
  IInv /\ [Next]_vars => StoreInv'
<1> SUFFICES ASSUME TypeOK, PlaceInv, PageInv, ReadInv, StoreInv, [Next]_vars PROVE StoreInv'
  BY DEF IInv
<1>n. TypeOK' /\ PlaceInv'
  BY TypeStep
<1>w. /\ phase = "id" => Written = 0
      /\ phase = "write" => Written = IF at = "delay" THEN index ELSE index - 1
      /\ phase = "verify" => Written = Count
  BY WrittenFacts
<1>v. /\ phase' = "id" => Written' = 0
      /\ phase' = "write" => Written' = IF at' = "delay" THEN index' ELSE index' - 1
      /\ phase' = "verify" => Written' = Count
  BY <1>n DEF TypeOK, Written
<1>t. /\ result = "running" <=> at # "idle"
      /\ phase \in {"id", "write", "verify"} /\ index \in 1 .. Count
      /\ PREAMBLE_SIZE = 3 /\ Count \in Nat /\ Count > 8
  BY TableFacts DEF TypeOK
<1>f. ASSUME Failed, UNCHANGED <<phase, index, misread>>, at # "idle" PROVE StoreInv'
  <2>1. CASE phase = "id"
    <3>1. Written' = 0 /\ phase' # "verify" /\ (Calm' => ~misread')
      BY <1>f, <1>v, <2>1, FailedPlaces DEF StoreInv, Calm
    <3> QED BY <3>1 DEF StoreInv, Holds
  <2>2. CASE phase # "id"
    BY <1>f, <2>2, FailedPlaces DEF StoreInv
  <2> QED BY <2>1, <2>2
<1> USE DEF device, history, Calm
<1>0. CASE UNCHANGED vars
  <2>1. Written' = Written
    BY <1>0 DEF vars, Written
  <2> QED BY <1>0, <2>1, StoreSame DEF vars, StoreInv
<1>1. CASE Call
  <2>1. Written' = 0 /\ at' = "driver" /\ misread' = FALSE
    BY <1>1, <1>v DEF Call
  <2> QED BY <2>1 DEF StoreInv, Holds
<1>2. CASE InitDriver
  BY <1>2, <1>t, <1>w, <1>v, StoreSame DEF InitDriver, SetUp, Proceed, Return, StoreInv, PlaceInv
<1>3. CASE SetMux
  BY <1>3, <1>t, <1>w, <1>v, StoreSame DEF SetMux, SetUp, Proceed, Return, StoreInv, PlaceInv
<1>4. CASE SetPage
  <2>1. at = "page" /\ UNCHANGED <<phase, index, registers, misread>>
    BY <1>4 DEF SetPage
  <2>2. CASE Failed
    BY <1>f, <2>1, <2>2
  <2>3. CASE Proceed("register")
    <3>1. Written' = Written
      BY <1>t, <1>w, <1>v, <2>1, <2>3 DEF Proceed
    <3> QED BY <2>1, <2>3, <3>1, StoreSame DEF Proceed, StoreInv
  <2> QED BY <1>4, <2>2, <2>3 DEF SetPage
<1>5. CASE KeepPage
  <2>1. Written' = Written
    BY <1>5, <1>t, <1>w, <1>v DEF KeepPage, Proceed
  <2> QED BY <1>5, <2>1, StoreSame DEF KeepPage, Proceed, StoreInv
<1>6. CASE SendRegister
  <2>a. at = "register" /\ UNCHANGED <<LastPage, matches, page, settled, misread>>
    BY <1>6 DEF SendRegister
  <2> PICK t \in Transfers :
        /\ IF t = "lost"
           THEN UNCHANGED <<pointer, registers>>
           ELSE /\ pointer' = Low(Target)
                /\ registers' = IF phase = "write" THEN Stored(Registers[index].value) ELSE registers
        /\ IF t # "done" THEN Failed /\ UNCHANGED <<phase, index>>
           ELSE IF phase # "write" THEN Proceed("receive") /\ UNCHANGED <<phase, index>>
           ELSE IF index = PREAMBLE_SIZE THEN Proceed("delay") /\ UNCHANGED <<phase, index>>
           ELSE NextEntry /\ UNCHANGED faults
    BY <1>6 DEF SendRegister
  <2>1. CASE t # "done"
    BY <1>f, <2>a, <2>1
  <2>2. CASE t = "done" /\ phase # "write"
    <3>1. Proceed("receive") /\ UNCHANGED <<phase, index, registers>>
      BY <2>2
    <3>2. Written' = Written
      BY <1>t, <1>w, <1>v, <2>2, <3>1
    <3> QED BY <2>a, <3>1, <3>2, StoreSame DEF Proceed, StoreInv
  <2>3. CASE t = "done" /\ phase = "write"
    <3>1. /\ registers' = Stored(Registers[index].value) /\ UNCHANGED faults
          /\ \/ NextEntry
             \/ Proceed("delay") /\ UNCHANGED <<phase, index>>
      BY <2>3 DEF Proceed
    <3>2. Written' = index /\ (at' # "check")
      <4>1. CASE NextEntry
        BY <1>n, <1>t, <2>a, <2>3, <3>1, <4>1, NextEntryWritten, NextEntryPlaces
      <4>2. CASE Proceed("delay") /\ UNCHANGED <<phase, index>>
        BY <1>v, <2>3, <4>2 DEF Proceed
      <4> QED BY <3>1, <4>1, <4>2
    <3>3. SUFFICES ASSUME Calm PROVE StoreInv'
      BY <3>1 DEF StoreInv
    <3>4. Written = index - 1 /\ Holds(index - 1) /\ ~misread
      BY <1>w, <2>a, <2>3, <3>3 DEF StoreInv
    <3>5. Addressed(Low(Target)) = Registers[index].address
      BY <2>a, <2>3, <3>3, AddressedTarget
    <3>6. \A i \in 1 .. index : LastOf(i, index) =>
            registers'[Registers[i].address] = Registers[i].value
      BY <1>t, <3>1, <3>4, <3>5, HoldsMore
    <3> QED BY <2>a, <3>2, <3>4, <3>6 DEF StoreInv, Holds, LastOf
  <2> QED BY <2>1, <2>2, <2>3
<1>7. CASE Receive
  <2>a. at = "receive" /\ UNCHANGED <<phase, index, LastPage, device, settled, misread>>
    BY <1>7 DEF Receive
  <2> PICK t \in Transfers :
        /\ IF t = "lost" THEN UNCHANGED matches ELSE matches' \in {m \in BOOLEAN : Delivers(m)}
        /\ IF t = "done" THEN Proceed("check") ELSE Failed
    BY <1>7 DEF Receive
  <2>1. CASE t # "done"
    BY <1>f, <2>a, <2>1
  <2>2. CASE t = "done"
    <3>1. Proceed("check") /\ matches' \in BOOLEAN /\ Delivers(matches')
      BY <2>2 DEF Transfers
    <3>2. Written' = Written
      BY <1>t, <1>w, <1>v, <2>a, <3>1 DEF Proceed
    <3>3. ASSUME Calm, phase = "verify" PROVE matches'
      <4>1. /\ Addressed(pointer) = Registers[index].address
            /\ Registers[index].address \in Addresses
        BY <2>a, <3>3, AddressedTarget DEF ReadInv
      <4>2. Holds(Count)
        BY <1>w, <2>a, <3>3 DEF StoreInv
      <4>3. index \in PREAMBLE_SIZE + 1 .. Count - POSTAMBLE_SIZE
        BY <3>3 DEF PlaceInv
      <4>4. LastOf(index, Count)
        BY <1>t, <4>3, TableFacts DEF LastOf
      <4>5. registers[Registers[index].address] = Registers[index].value
        BY <1>t, <4>2, <4>4 DEF Holds
      <4> QED BY <3>1, <3>3, <4>1, <4>5 DEF Delivers
    <3> QED BY <2>a, <3>1, <3>2, <3>3, StoreSame DEF Proceed, StoreInv
  <2> QED BY <2>1, <2>2
<1>8. CASE Delay
  <2>1. Written' = Written /\ at' # "check" /\ phase = "write"
    BY <1>8, <1>n, <1>t, NextEntryWritten, NextEntryPlaces DEF Delay, PlaceInv
  <2> QED BY <1>8, <2>1, StoreSame DEF Delay, StoreInv
<1>9. CASE CheckId
  <2>1. Written' = 0
    BY <1>9, <1>t, <1>v DEF CheckId, Return, PlaceInv
  <2> QED BY <1>9, <2>1 DEF CheckId, Return, StoreInv, Holds
<1>10. CASE CheckRegister
  <2>1. /\ at = "check" /\ phase = "verify" /\ NextEntry
        /\ misread' = (misread \/ ~matches) /\ UNCHANGED <<registers, faults>>
    BY <1>10 DEF CheckRegister
  <2>2. Written' = Written /\ at' # "check"
    BY <1>n, <1>t, <2>1, NextEntryWritten, NextEntryPlaces
  <2>3. Calm => ~misread'
    BY <2>1 DEF StoreInv
  <2> QED BY <2>1, <2>2, <2>3, StoreSame
<1>11. CASE Reset
  BY <1>11 DEF Reset, StoreInv
<1>12. CASE Restart
  BY <1>12 DEF Restart, StoreInv
<1> QED BY <1>0, <1>1, <1>2, <1>3, <1>4, <1>5, <1>6, <1>7, <1>8, <1>9, <1>10, <1>11, <1>12
  DEF Next, Step

(***************************************************************************)
(* The properties.                                                         *)
(***************************************************************************)
\* The inductive invariant holds in every run, whatever the configuration.
THEOREM Invariance == Spec => []IInv
<1>1. IInv /\ [Next]_vars => IInv'
  BY TypeStep, PageStep, ReadStep, StoreStep DEF IInv
<1> QED BY <1>1, InitInv, PTL DEF Spec

\* Type correctness, which has both loops stay in the table.
THEOREM TypeCorrect == Spec => []TypeOK
<1>1. IInv => TypeOK
  BY DEF IInv
<1> QED BY <1>1, Invariance, PTL

\* Success means that every register has the value the table gives it last,
\* after any history of failures, resets and restarts before the call.
THEOREM Configured == Spec => []SuccessConfigured
<1>1. IInv => SuccessConfigured
  <2> SUFFICES ASSUME IInv, result = "SUCCESS", Calm
               PROVE  /\ ~misread
                      /\ \A i \in 1 .. Count : Final(i) =>
                           registers[Registers[i].address] = Registers[i].value
    BY DEF SuccessConfigured, Calm
  <2>1. Written = Count
    BY WrittenFacts DEF IInv, PlaceInv
  <2>2. Holds(Count) /\ ~misread
    BY <2>1 DEF IInv, StoreInv
  <2> QED BY <2>2 DEF Holds, LastOf, Final
<1> QED BY <1>1, Invariance, PTL

\* A call in which nothing goes wrong fails only with LastPage = 0 and the
\* device on another page.
THEOREM Explained == Spec => []FailureExplained
<1>1. IInv => FailureExplained
  BY DEF IInv, ReadInv
<1> QED BY <1>1, Invariance, PTL

(***************************************************************************)
(* The refinement.                                                         *)
(***************************************************************************)
LEMMA ProgramInit == Init => Program!Init
<1> SUFFICES ASSUME Init PROVE Program!Init
  OBVIOUS
<1>1. IInv
  BY InitInv
<1>2. registers \in Program!RegisterFiles
  BY <1>1 DEF IInv, TypeOK, Addresses, Count, Program!RegisterFiles, Program!Addresses
<1>3. Written = 0
  BY <1>1, WrittenFacts DEF Init, IInv
<1> QED BY <1>2, <1>3 DEF Init, Program!Init

\* Steps that the abstract program does not see, and failures that left the
\* registers alone.
LEMMA Unseen ==
  ASSUME UNCHANGED <<registers, settled, result>>, Written' = Written, Calm' = Calm
  PROVE  UNCHANGED Program!vars
BY DEF Program!vars, Calm

LEMMA PlainFailure ==
  ASSUME TypeOK, TypeOK', Failed, UNCHANGED <<phase, index, registers, settled>>,
         at \notin {"idle", "delay"}
  PROVE  [Program!Next]_Program!vars
<1>1. Written' = Written /\ Calm' = Calm
  BY FailedPlaces DEF TypeOK, Written, Calm
<1>2. CASE phase = "id"
  BY <1>1, <1>2, Unseen, FailedPlaces
<1>3. CASE phase # "id"
  <2>1. Program!Fail
    BY <1>1, <1>3, FailedPlaces DEF Program!Fail, TypeOK, Calm
  <2> QED BY <2>1 DEF Program!Next
<1> QED BY <1>2, <1>3

\* Storing an entry of the table is the abstract program's next store.
LEMMA StoresNext ==
  ASSUME IInv, at = "register", phase = "write",
         registers' = Stored(Registers[index].value)
  PROVE  IF "reset" \in faults THEN registers' \in Program!RegisterFiles ELSE Program!StoreNext
<1>1. Written = index - 1 /\ index \in 1 .. Count /\ Count = Len(Registers)
  BY WrittenFacts DEF IInv, TypeOK, Count
<1>2. registers' \in [Addresses -> Bytes]
  <2>1. Registers[index].value \in Bytes
    BY <1>1, TableFacts DEF Entries
  <2> QED BY <2>1 DEF Stored, IInv, TypeOK
<1>3. CASE "reset" \in faults
  BY <1>2, <1>3 DEF Program!RegisterFiles, Program!Addresses, Addresses, Count
<1>4. CASE "reset" \notin faults
  <2>1. Addressed(Low(Target)) = Registers[index].address
    BY <1>4, AddressedTarget DEF IInv, Calm
  <2>2. registers' = [registers EXCEPT ![Registers[index].address] = Registers[index].value]
    BY <2>1 DEF Stored, IInv, TypeOK
  <2>3. Written < Len(Registers) /\ Written + 1 = index
    BY <1>1, TableFacts
  <2>4. Written < Len(Preamble) \/ settled
    BY <1>1, TableFacts DEF IInv, PlaceInv
  <2> QED BY <1>4, <2>2, <2>3, <2>4 DEF Program!StoreNext
<1> QED BY <1>3, <1>4

LEMMA ProgramStep == IInv /\ IInv' /\ [Next]_vars => [Program!Next]_Program!vars
<1> SUFFICES ASSUME IInv, IInv', [Next]_vars PROVE [Program!Next]_Program!vars
  OBVIOUS
<1>t. /\ TypeOK /\ TypeOK' /\ PlaceInv
      /\ result = "running" <=> at # "idle"
      /\ phase \in {"id", "write", "verify"} /\ index \in 1 .. Count
      /\ PREAMBLE_SIZE = 3 /\ Len(Preamble) = 3 /\ Count \in Nat /\ Count > 8
      /\ Len(Registers) = Count
  BY TableFacts DEF IInv, TypeOK, Count
<1>w. /\ phase = "id" => Written = 0
      /\ phase = "write" => Written = IF at = "delay" THEN index ELSE index - 1
      /\ phase = "verify" => Written = Count
  BY <1>t, WrittenFacts
<1>v. /\ phase' = "id" => Written' = 0
      /\ phase' = "write" => Written' = IF at' = "delay" THEN index' ELSE index' - 1
      /\ phase' = "verify" => Written' = Count
  BY <1>t DEF TypeOK, Written
<1> USE DEF device, history, Calm
<1>0. CASE UNCHANGED vars
  <2>1. Written' = Written
    BY <1>0 DEF vars, Written
  <2> QED BY <1>0, <2>1, Unseen DEF vars
<1>1. CASE Call
  <2>1. Program!Begin
    BY <1>1, <1>t, <1>v DEF Call, Program!Begin, Program!Fresh
  <2> QED BY <2>1 DEF Program!Next
<1>2. CASE InitDriver \/ SetMux
  <2>1. /\ UNCHANGED <<phase, index, registers, settled>> /\ Written' = Written
        /\ at \in {"driver", "mux"} /\ result = "running"
        /\ \/ UNCHANGED <<result, faults>>
           \/ result' = "FAILURE" /\ faults' = faults \cup {"failed"}
    BY <1>2, <1>t, <1>w, <1>v DEF InitDriver, SetMux, SetUp, Proceed, Return, PlaceInv
  <2>2. CASE UNCHANGED <<result, faults>>
    BY <2>1, <2>2, Unseen
  <2>3. CASE result' = "FAILURE" /\ faults' = faults \cup {"failed"}
    <3>1. Program!Fail
      BY <2>1, <2>3 DEF Program!Fail
    <3> QED BY <3>1 DEF Program!Next
  <2> QED BY <2>1, <2>2, <2>3
<1>4. CASE SetPage
  <2>1. at = "page" /\ UNCHANGED <<phase, index, registers, settled>>
    BY <1>4 DEF SetPage
  <2>2. CASE Failed
    BY <1>t, <2>1, <2>2, PlainFailure
  <2>3. CASE Proceed("register")
    <3>1. Written' = Written
      BY <1>t, <1>w, <1>v, <2>1, <2>3 DEF Proceed
    <3> QED BY <2>1, <2>3, <3>1, Unseen DEF Proceed
  <2> QED BY <1>4, <2>2, <2>3 DEF SetPage
<1>5. CASE KeepPage
  <2>1. Written' = Written
    BY <1>5, <1>t, <1>w, <1>v DEF KeepPage, Proceed
  <2> QED BY <1>5, <2>1, Unseen DEF KeepPage, Proceed
<1>6. CASE SendRegister
  <2>a. at = "register" /\ UNCHANGED <<settled>>
    BY <1>6 DEF SendRegister
  <2> PICK t \in Transfers :
        /\ IF t = "lost"
           THEN UNCHANGED <<pointer, registers>>
           ELSE /\ pointer' = Low(Target)
                /\ registers' = IF phase = "write" THEN Stored(Registers[index].value) ELSE registers
        /\ IF t # "done" THEN Failed /\ UNCHANGED <<phase, index>>
           ELSE IF phase # "write" THEN Proceed("receive") /\ UNCHANGED <<phase, index>>
           ELSE IF index = PREAMBLE_SIZE THEN Proceed("delay") /\ UNCHANGED <<phase, index>>
           ELSE NextEntry /\ UNCHANGED faults
    BY <1>6 DEF SendRegister
  <2>1. CASE t # "done" /\ UNCHANGED registers
    BY <1>t, <2>a, <2>1, PlainFailure
  <2>2. CASE t # "done" /\ phase = "write" /\ registers' = Stored(Registers[index].value)
    <3>1. IF "reset" \in faults THEN registers' \in Program!RegisterFiles ELSE Program!StoreNext
      BY <2>a, <2>2, StoresNext
    <3>2. /\ result' = "FAILURE" /\ faults' = faults \cup {"failed"}
          /\ Written' = Written /\ result = "running"
      BY <1>t, <1>w, <1>v, <2>a, <2>2, FailedPlaces
    <3>3. Program!Fail
      BY <2>a, <3>1, <3>2 DEF Program!Fail, Program!AnyRegisters
    <3> QED BY <3>3 DEF Program!Next
  <2>3. CASE t = "done" /\ phase # "write"
    <3>1. Proceed("receive") /\ UNCHANGED <<phase, index, registers>>
      BY <2>3
    <3>2. Written' = Written
      BY <1>t, <1>w, <1>v, <2>3, <3>1
    <3> QED BY <2>a, <3>1, <3>2, Unseen DEF Proceed
  <2>4. CASE t = "done" /\ phase = "write"
    <3>1. /\ registers' = Stored(Registers[index].value) /\ UNCHANGED faults
          /\ \/ NextEntry
             \/ Proceed("delay") /\ UNCHANGED <<phase, index>>
      BY <2>4 DEF Proceed
    <3>2. IF "reset" \in faults THEN registers' \in Program!RegisterFiles ELSE Program!StoreNext
      BY <2>a, <2>4, <3>1, StoresNext
    <3>3. Written' = index /\ result' = result
      <4>1. CASE NextEntry
        <5>1. Written' = index
          BY <1>t, <2>a, <2>4, <4>1, NextEntryWritten
        <5>2. result' = result
          BY <1>t, <2>a, <2>4, <4>1 DEF NextEntry
        <5> QED BY <5>1, <5>2
      <4>2. CASE Proceed("delay") /\ UNCHANGED <<phase, index>>
        BY <1>v, <2>4, <4>2 DEF Proceed
      <4> QED BY <3>1, <4>1, <4>2
    <3>4. Written = index - 1 /\ result = "running"
      BY <1>t, <1>w, <2>a, <2>4
    <3>5. Program!Store
      BY <1>t, <2>a, <3>1, <3>2, <3>3, <3>4 DEF Program!Store, Program!AnyRegisters
    <3> QED BY <3>5 DEF Program!Next
  <2> QED BY <2>1, <2>2, <2>3, <2>4
<1>7. CASE Receive
  <2>1. at = "receive" /\ UNCHANGED <<phase, index, registers, settled>>
    BY <1>7 DEF Receive
  <2>2. CASE Failed
    BY <1>t, <2>1, <2>2, PlainFailure
  <2>3. CASE Proceed("check")
    <3>1. Written' = Written
      BY <1>t, <1>w, <1>v, <2>1, <2>3 DEF Proceed
    <3> QED BY <2>1, <2>3, <3>1, Unseen DEF Proceed
  <2> QED BY <1>7, <2>2, <2>3 DEF Receive
<1>8. CASE Delay
  <2>1. /\ at = "delay" /\ phase = "write" /\ index = Len(Preamble) /\ NextEntry
        /\ settled' = TRUE /\ UNCHANGED <<registers, faults>>
    BY <1>8, <1>t DEF Delay, PlaceInv
  <2>2. Written' = Written /\ Written = Len(Preamble)
    BY <1>t, <1>w, <2>1, NextEntryWritten
  <2>3. result = "running" /\ result' = result
    BY <1>t, <2>1 DEF NextEntry
  <2>4. Program!Settle
    BY <2>1, <2>2, <2>3 DEF Program!Settle
  <2> QED BY <2>4 DEF Program!Next
<1>9. CASE CheckId
  <2>1. Written' = 0 /\ Written = 0 /\ result = "running" /\ UNCHANGED <<registers, settled, faults>>
    BY <1>9, <1>t, <1>w, <1>v DEF CheckId, Return, PlaceInv
  <2>2. CASE UNCHANGED result
    BY <2>1, <2>2, Unseen
  <2>3. CASE result' = "FAILURE"
    <3>1. Program!Fail
      BY <2>1, <2>3 DEF Program!Fail
    <3> QED BY <3>1 DEF Program!Next
  <2> QED BY <1>9, <2>2, <2>3 DEF CheckId, Return
<1>10. CASE CheckRegister
  <2>1. /\ at = "check" /\ phase = "verify" /\ NextEntry
        /\ UNCHANGED <<registers, settled, faults>>
    BY <1>10 DEF CheckRegister
  <2>2. Written' = Written /\ Written = Count /\ result = "running"
    BY <1>t, <1>w, <2>1, NextEntryWritten
  <2>3. CASE UNCHANGED result
    BY <2>1, <2>2, <2>3, Unseen
  <2>4. CASE result' = "SUCCESS"
    <3>1. Program!Succeed
      BY <1>t, <2>1, <2>2, <2>4 DEF Program!Succeed
    <3> QED BY <3>1 DEF Program!Next
  <2> QED BY <1>t, <2>1, <2>2, <2>3, <2>4, NextEntryPlaces
<1>11. CASE Reset
  <2>1. registers' \in Program!RegisterFiles
    BY <1>t DEF TypeOK, Addresses, Count, Program!RegisterFiles, Program!Addresses
  <2>2. Written' = Written
    BY <1>11, <1>t, <1>w, <1>v DEF Reset
  <2>3. Program!Upset
    BY <1>11, <2>1, <2>2 DEF Reset, Program!Upset, Program!AnyRegisters
  <2> QED BY <2>3 DEF Program!Next
<1>12. CASE Restart
  <2>1. Program!Abandon
    BY <1>12, <1>v DEF Restart, Program!Abandon, Program!Fresh
  <2> QED BY <2>1 DEF Program!Next
<1> QED BY <1>0, <1>1, <1>2, <1>4, <1>5, <1>6, <1>7, <1>8, <1>9, <1>10, <1>11, <1>12
  DEF Next, Step

\* Every step of the paged writes is one of the abstract program or invisible
\* to it, for every configuration.
THEOREM Refinement == Spec => ImplementsProgram
<1> QED BY ProgramInit, ProgramStep, Invariance, PTL DEF Spec, ImplementsProgram
=============================================================================
