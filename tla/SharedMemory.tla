---------------------------- MODULE SharedMemory ----------------------------
(***************************************************************************)
(* The memory as all masters should see it: without caches and ports.      *)
(* What is about to be stored is stored, once, before anybody goes on, and *)
(* a load delivers what was stored last.                                   *)
(***************************************************************************)
CONSTANTS Buffers, Bytes, Values, Readers

VARIABLES
  memory,   \* the contents of the buffers
  intent,   \* the stores that the writer is about to do, all at once
  latch     \* what each reader has loaded last

vars == <<memory, intent, latch>>

Stores == [buffer : Buffers, byte : Bytes, value : Values]

Init ==
  /\ memory \in [Buffers -> [Bytes -> Values]]
  /\ intent \subseteq Stores
  /\ latch \in [Readers -> Values]

After(b, i) ==
  {s.value : s \in {t \in intent : t.buffer = b /\ t.byte = i}}

Store ==
  /\ intent # {}
  /\ memory' \in [Buffers -> [Bytes -> Values]]
  /\ \A b \in Buffers, i \in Bytes :
       IF After(b, i) = {} THEN memory'[b][i] = memory[b][i] ELSE memory'[b][i] \in After(b, i)
  /\ intent' \subseteq Stores
  /\ UNCHANGED latch

\* A writer does not give up what it is about to store.
Keep == intent = {} \/ intent' = intent

Load(r, b, i) ==
  /\ latch' = [latch EXCEPT ![r] = memory[b][i]]
  /\ Keep /\ intent' \subseteq Stores
  /\ UNCHANGED memory

Continue ==
  /\ Keep /\ intent' \subseteq Stores
  /\ UNCHANGED <<memory, latch>>

Next == Store \/ Continue \/ (\E r \in Readers, b \in Buffers, i \in Bytes : Load(r, b, i))

Spec == Init /\ [][Next]_vars
=============================================================================
