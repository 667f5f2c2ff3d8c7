--------------------------- MODULE PacketChannel ---------------------------
(***************************************************************************)
(* What the layers above CMOOSCommObject rely on: packets, that is lists   *)
(* of messages, arrive whole, unchanged and in the order they were sent,   *)
(* until the connection breaks; then what is under way may be lost, and    *)
(* nothing arrives that was not sent.                                      *)
(***************************************************************************)
EXTENDS Sequences

CONSTANT Packets
VARIABLES underWay, received, broken

ChannelInit == underWay = <<>> /\ received = <<>> /\ broken = FALSE

SendPacket(p) == /\ ~broken
                 /\ underWay' = Append(underWay, p)
                 /\ UNCHANGED <<received, broken>>

ReceivePacket == /\ underWay # <<>>
                 /\ received' = Append(received, Head(underWay))
                 /\ underWay' = Tail(underWay)
                 /\ UNCHANGED broken

Break == broken' = TRUE /\ UNCHANGED <<underWay, received>>

ChannelNext == (\E p \in Packets : SendPacket(p)) \/ ReceivePacket \/ Break

ChannelSpec == ChannelInit /\ [][ChannelNext]_<<underWay, received, broken>>
============================================================================
