---------------------------- MODULE MCPacketConn ----------------------------
(***************************************************************************)
(* Instances of PacketConn for TLC, and what a comment says of its reads   *)
(* that the code does not keep: a run refutes the property below.          *)
(***************************************************************************)
EXTENDS PacketConn

\* An IPv4 address in both its forms, and an IPv6 one.
MCIPs == {<<1>>, <<0, "ffff", 1>>, <<1, "zero", 1>>}
AllKinds == {"udp", "packet", "unixgram"}
OnlyDialed == {"udp"}

-----------------------------------------------------------------------------
\* A receive that took bytes returns "the source address of the message"
\* (conn.wasip1.udp.go, ReadMsgUDP), and no error.
SenderIsReported ==
  last.took.len > 0 /\ last.n > 0 /\ last.op # "Read" =>
    last.err = "ok" /\ Same(last.addr, last.took.from)
=============================================================================
