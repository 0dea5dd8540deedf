---------------------------- MODULE PacketChannel ----------------------------
(***************************************************************************)
(* What one direction of a connection promises: whole packets arrive, in   *)
(* the order in which they were sent, each at most once.  A connection may *)
(* end at any time, so some of the last ones may never arrive.             *)
(***************************************************************************)
EXTENDS Naturals, Sequences

CONSTANT Packet

VARIABLES
    sent,       \* every packet that a sender has begun to send
    received    \* every packet that has been delivered

CInit == sent = << >> /\ received = << >>

Send ==
    /\ \E p \in Packet : sent' = Append(sent, p)
    /\ UNCHANGED received

Receive ==
    /\ Len(received) < Len(sent)
    /\ received' = Append(received, sent[Len(received) + 1])
    /\ UNCHANGED sent

CSpec == CInit /\ [][Send \/ Receive]_<<sent, received>>
=============================================================================
