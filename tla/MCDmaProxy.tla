----------------------------- MODULE MCDmaProxy -----------------------------
(***************************************************************************)
(* Instances of DmaProxy for TLC: one thread with a channel of its own, as *)
(* in the test application, and two threads that opened the same device.   *)
(***************************************************************************)
EXTENDS DmaProxy

MCBuffers == {0, 1}
MCOwnFile == [t \in {"app"} |-> "tx"]
MCOneFile == [t \in {"app", "other"} |-> "tx"]
=============================================================================
