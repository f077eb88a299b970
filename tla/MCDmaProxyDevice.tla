-------------------------- MODULE MCDmaProxyDevice --------------------------
(***************************************************************************)
(* An instance of DmaProxyDevice for TLC, with the application as in       *)
(* MCDmaProxyTest.                                                         *)
(***************************************************************************)
EXTENDS DmaProxyDevice

MCBuffers == 0 .. 2
MCFileOf == [t \in {"tx", "rx"} |-> t]
=============================================================================
