----------------------------- MODULE ByteStream -----------------------------
(***************************************************************************)
(* What a stream promises for the bytes it sends: they are queued by the   *)
(* application, handed to the transport once each and in order, and        *)
(* released once the transport says the peer has them.  Bytes are numbered *)
(* by their position in the stream.                                        *)
(***************************************************************************)
EXTENDS Naturals

VARIABLES
  queued,  \* bytes the application has given to the stream
  sent,    \* bytes handed to the transport
  acked    \* bytes released

vars == <<queued, sent, acked>>

Init == queued = 0 /\ sent = 0 /\ acked = 0

Queue == queued' >= queued /\ UNCHANGED <<sent, acked>>

Send == sent < sent' /\ sent' <= queued /\ UNCHANGED <<queued, acked>>

Ack == acked <= acked' /\ acked' <= sent /\ UNCHANGED <<queued, sent>>

Next == Queue \/ Send \/ Ack

Spec == Init /\ [][Next]_vars
=============================================================================
