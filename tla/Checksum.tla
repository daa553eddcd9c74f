------------------------------- MODULE Checksum -------------------------------
(***************************************************************************)
(* The checksums that finalize_packet_udp and finalize_packet_tcp write    *)
(* into the packets for the client, against RFC 1071: a packet is good if  *)
(* the ones' complement sum of its words, checksum included, is all ones.  *)
(*                                                                         *)
(* A byte has Base values, so that a word has Base^2 and the 32-bit sum    *)
(* Base^4.  Of the headers only the fields that the algorithm treats on    *)
(* their own are kept: the length, the checksum, one word of addresses.    *)
(***************************************************************************)
EXTENDS Integers, Sequences

CONSTANT Base

ASSUME BaseAssumption == Base \in Nat /\ Base > 1

Byte == 0..(Base - 1)
WordLimit == Base * Base
SumLimit == WordLimit * WordLimit

-----------------------------------------------------------------------------
(* CheckSum.cpp.                                                           *)

\* The i-th word of a buffer; a last odd byte is a high byte.
WordLow(buf, i) ==                            \* mutant: a last odd byte is a low byte
    IF 2 * i <= Len(buf) THEN buf[2 * i - 1] * Base + buf[2 * i] ELSE buf[2 * i - 1]
Word(buf, i) == buf[2 * i - 1] * Base + IF 2 * i <= Len(buf) THEN buf[2 * i] ELSE 0
WordCount(buf) == (Len(buf) + 1) \div 2

CalSum(buf) ==
    LET sum[i \in 0..WordCount(buf)] ==
            IF i = 0 THEN 0 ELSE (sum[i - 1] + Word(buf, i)) % SumLimit
    IN sum[WordCount(buf)]

\* ckSum = (ckSum >> 16) + (ckSum & 0xffff); ckSum += ckSum >> 16
Folded(s) == (s \div WordLimit) + (s % WordLimit)
Fold(s) == Folded(s) + (Folded(s) \div WordLimit)

\* (uint16_t)~ckSum
Complement(s) == (SumLimit - 1 - s) % WordLimit

\* Packets: tot_len is the IP header's length of what follows it, len the UDP
\* header's.
Bytes(w) == <<w \div Base, w % Base>>
Header(p) == Bytes(p.len) \o Bytes(p.check)
Transport(p) == Header(p) \o p.data
PseudoHead(p) == Bytes(p.addr) \o Bytes(p.proto) \o Bytes(p.tot_len)
IpHeader(p) == PseudoHead(p) \o Bytes(p.ip_sum)

\* cksumIp, cksumTcp and cksumUdp, of a packet whose checksum they set to zero
\* first.
cksumIp(p) == Complement(Fold(CalSum(IpHeader([p EXCEPT !.ip_sum = 0]))))
TransportSum(p) ==
    LET q == [p EXCEPT !.check = 0]
    IN (CalSum(PseudoHead(q)) + CalSum(SubSeq(Transport(q), 1, q.tot_len))) % SumLimit
cksumTcp(p) == Complement(Fold(TransportSum(p)))
NotZero(c) == IF c = 0 THEN WordLimit - 1 ELSE c
cksumUdp(p) == NotZero(Complement(Fold(TransportSum(p))))

-----------------------------------------------------------------------------
(* utils.cxx.                                                              *)

\* The length first, since the sum runs over as many bytes as it says.
FinalizeIp(p) ==
    LET q == [p EXCEPT !.tot_len = Len(Transport(p))]
    IN [q EXCEPT !.ip_sum = cksumIp(q)]
SetUdpLength(p) == [p EXCEPT !.len = Len(p.data) + 4]
finalize_packet_tcp(p) ==
    LET q == FinalizeIp(p) IN [q EXCEPT !.check = cksumTcp(q)]
finalize_packet_udp(p) ==
    LET q == SetUdpLength(FinalizeIp(p)) IN [q EXCEPT !.check = cksumUdp(q)]

-----------------------------------------------------------------------------
(* The reference: addition with the carry brought around.                  *)

OnesAdd(a, b) == IF a + b >= WordLimit THEN a + b - WordLimit + 1 ELSE a + b
Padded(buf) == IF Len(buf) % 2 = 0 THEN buf ELSE Append(buf, 0)
OnesSum(buf) ==
    LET b == Padded(buf)
        sum[i \in 0..(Len(b) \div 2)] ==
            IF i = 0 THEN 0 ELSE OnesAdd(sum[i - 1], b[2 * i - 1] * Base + b[2 * i])
    IN sum[Len(b) \div 2]

Verifies(p) ==
    /\ OnesSum(IpHeader(p)) = WordLimit - 1
    /\ OnesSum(PseudoHead(p) \o Transport(p)) = WordLimit - 1

-----------------------------------------------------------------------------
(* What is checked, over packets of up to n bytes of data as the builders  *)
(* leave them: with the length of the bare headers, and with whatever was  *)
(* in memory for the checksums that they do not set.                       *)

BuiltPackets(n) ==
    [addr : 0..(WordLimit - 1), proto : {1}, tot_len : {4}, len : {0},
     ip_sum : {0, WordLimit - 1}, check : {0, 1, WordLimit - 1},
     data : UNION {[1..k -> Byte] : k \in 0..n}]
=============================================================================
