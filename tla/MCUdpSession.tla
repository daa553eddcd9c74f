----------------------------- MODULE MCUdpSession -----------------------------
(* Instances of UdpSession for TLC, with the checksums of what it writes.  *)
EXTENDS UdpSession, Checksum

CONSTANT MaxData     \* bound: bytes of data in a packet

\* Every datagram and every segment that finalize_packet_udp and
\* finalize_packet_tcp leave, however long and whatever the checksum field held
\* before, is one that a receiver accepts, and no datagram has checksum zero,
\* which would mean that it has none.  (It says nothing of the state: TLC need
\* look at it only where a session begins.)
ChecksumsVerify ==
    pc = "init" => \A p \in BuiltPackets(MaxData) :
        /\ Verifies(finalize_packet_tcp(p))
        /\ Verifies(finalize_packet_udp(p))
        /\ finalize_packet_udp(p).check # 0
=============================================================================
