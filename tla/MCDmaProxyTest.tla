--------------------------- MODULE MCDmaProxyTest ---------------------------
(***************************************************************************)
(* Instances of DmaProxyTest for TLC: one transmit buffer and more receive *)
(* buffers, as the application is shipped.                                 *)
(***************************************************************************)
EXTENDS DmaProxyTest

MCBuffers == 0 .. 2
MCFileOf == [t \in {"tx", "rx"} |-> t]
=============================================================================
