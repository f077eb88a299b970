-------------------------- MODULE TransferService --------------------------
(***************************************************************************)
(* What the DMA proxy promises to the owner of a channel, without cookies, *)
(* completions, callbacks or timers: who may touch a channel buffer, and   *)
(* what the status word of the buffer may say.                             *)
(***************************************************************************)
CONSTANTS Channels, Buffers

VARIABLES
  owner,    \* "device" while the engine may read or write the buffer
  latest,   \* whether the engine took the latest start of the buffer
  result    \* the status word user space reads

vars == <<owner, latest, result>>

Init ==
  /\ owner = [c \in Channels |-> [b \in Buffers |-> "user"]]
  /\ latest = [c \in Channels |-> [b \in Buffers |-> "accepted"]]
  /\ result = [c \in Channels |-> [b \in Buffers |-> "NO_ERROR"]]

\* A start hands the buffer over, even one that is handed over already.
Accept(c, b) ==
  /\ owner' = [owner EXCEPT ![c][b] = "device"]
  /\ latest' = [latest EXCEPT ![c][b] = "accepted"]
  /\ UNCHANGED result

Refuse(c, b) ==
  /\ latest' = [latest EXCEPT ![c][b] = "refused"]
  /\ UNCHANGED <<owner, result>>

\* The device gives the buffer back.
Release(c, b) ==
  /\ owner[c][b] = "device"
  /\ owner' = [owner EXCEPT ![c][b] = "user"]
  /\ UNCHANGED <<latest, result>>

AwaitTransfer(c, b) ==
  /\ result' = [result EXCEPT ![c][b] = "BUSY"]
  /\ UNCHANGED <<owner, latest>>

\* Success is reported only for a buffer that is the user's again.
Answer(c, b) ==
  /\ result[c][b] = "BUSY"
  /\ \E r \in {"NO_ERROR", "TIMEOUT", "ERROR"} :
       /\ r = "NO_ERROR" => owner[c][b] = "user" \/ latest[c][b] = "refused"
       /\ result' = [result EXCEPT ![c][b] = r]
  /\ UNCHANGED <<owner, latest>>

Next ==
  \E c \in Channels, b \in Buffers :
    \/ Accept(c, b) \/ Refuse(c, b) \/ Release(c, b)
    \/ AwaitTransfer(c, b) \/ Answer(c, b)

Spec == Init /\ [][Next]_vars
=============================================================================
