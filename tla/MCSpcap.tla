------------------------------ MODULE MCSpcap -------------------------------
(* Small instances of Spcap for TLC.                                       *)
EXTENDS SpcapInv

Packet(len, caplen) == [len |-> len, caplen |-> caplen]

\* Empty, small, and one that crosses the end of a super-sector and was cut short.
MCPackets == {Packet(0, 0), Packet(1, 1), Packet(3, 2)}
=============================================================================
