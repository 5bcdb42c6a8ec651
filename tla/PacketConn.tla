----------------------------- MODULE PacketConn -----------------------------
(***************************************************************************)
(* A datagram socket of the guest.  It is a UDPConn that was dialed        *)
(* ("udp"), or what ListenPacket returns: a packetConn on UDP ("packet")   *)
(* or on a unix name ("unixgram"), behind an interface that has ReadFrom   *)
(* and WriteTo but no Read and Write.                                      *)
(*                                                                         *)
(* Reads run in goroutines, which yield while they wait; a write runs      *)
(* without a pause.  Datagrams come from elsewhere, at any time, as long   *)
(* as the host has room.  The host's socket outlives Close: the shutdown   *)
(* that Close asks for is an error there, and nothing closes it.           *)
(*                                                                         *)
(* Abstracted: a datagram is its source, its length and a number.  A read  *)
(* that is told EAGAIN or EINTR yields and calls again, a stuttering step  *)
(* here.  unixgram datagrams come from an unnamed socket.                  *)
(***************************************************************************)
EXTENDS Address

CONSTANTS
  Kinds,       \* which of the three
  Readers,     \* goroutines that read
  IPs,         \* addresses of others, as a guest may write them
  Sizes,       \* sizes of datagrams and of the buffers of reads
  Queue,       \* datagrams that the host holds
  MaxArrived,  \* bounds on the datagrams that come
  MaxSent      \* and go

ASSUME PacketConnAssumption ==
  /\ Kinds \subseteq {"udp", "packet", "unixgram"}
  /\ \A ip \in IPs : ip = <<ip[1]>> \/ ip = <<ip[1], ip[2], ip[3]>>
  /\ Sizes \subseteq Nat /\ {Queue, MaxArrived, MaxSent} \subseteq Nat

VARIABLES
  kind,        \* which it is
  family,      \* fd.family, the host's number
  peer,        \* fd.raddr of a UDPConn
  fd,          \* whether conn.fd is set
  disconnected,\* fd.disconnected
  inbox,       \* datagrams that the host holds
  arrived,     \* all that ever came
  taken,       \* those that a read took
  refused,     \* an error waits on the host's socket: a datagram met no one
  sent,        \* the datagrams that the host sent, and where each was asked to go
  rd,          \* what each reader is doing
  last,        \* how the last call of a reader or writer ended
  panic        \* a nil dereference has ended the guest

vars == <<kind, family, peer, fd, disconnected, inbox, arrived, taken, refused, sent, rd,
          last, panic>>
socket == <<kind, family, peer>>
inward == <<inbox, arrived, taken>>

UDP(ip) == Addr("udp", ip, 1, <<>>)
Others == {UDP(ip) : ip \in IPs}
Unix == Addr("unix", <<>>, 0, <<"@">>)

\* What a read returns: a count, an address and an error; took is the datagram it took.
NoDatagram == [id |-> 0, from |-> NoAddr, len |-> 0]
Result(op, n, addr, err, took) ==
  [op |-> op, n |-> n, addr |-> addr, err |-> err, took |-> took]
Idle == [op |-> "idle", size |-> 0]
Reads == {"Read", "ReadFrom", "ReadFromUDPAddrPort", "ReadMsgUDP"}

\* The dialer's family is that of the address; a listener's is that of its own.
Init ==
  /\ kind \in Kinds
  /\ family \in IF kind = "unixgram" THEN {HostAF.UNIX} ELSE {HostAF.INET, HostAF.INET6}
  /\ peer \in IF kind = "udp" THEN {a \in Others : NetaddrAFFamily(a) = family} ELSE {NoAddr}
  /\ fd = TRUE /\ disconnected = FALSE
  /\ inbox = <<>> /\ arrived = <<>> /\ taken = <<>> /\ refused = FALSE
  /\ sent = <<>>
  /\ rd = [r \in Readers |-> Idle]
  /\ last = Result("none", 0, NoAddr, "ok", NoDatagram)
  /\ panic = FALSE

-----------------------------------------------------------------------------
(* The host's socket.                                                      *)

\* Its native address, whatever form the guest would give it.
NativeOf(a) == UnixSockaddr(NetaddrToRaw(NetaddrAFFamily(a), a))

Senders ==
  CASE kind = "udp" -> {NativeOf(peer)}
    [] kind = "packet" -> {NativeOf(a) : a \in {b \in Others : NetaddrAFFamily(b) = family}}
    [] OTHER -> {Addr("unix", <<>>, 0, <<>>)}

Arrive ==
  /\ ~panic /\ Len(inbox) < Queue /\ Len(arrived) < MaxArrived
  /\ \E from \in Senders, len \in Sizes :
       LET d == [id |-> Len(arrived) + 1, from |-> from, len |-> len] IN
       inbox' = Append(inbox, d) /\ arrived' = Append(arrived, d)
  /\ UNCHANGED <<socket, fd, disconnected, taken, refused, sent, rd, last, panic>>

\* An ICMP error comes back for what a connected socket sent.
PeerRefuses ==
  /\ ~panic /\ kind = "udp" /\ sent # <<>>
  /\ refused' = TRUE
  /\ UNCHANGED <<socket, fd, disconnected, inward, sent, rd, last, panic>>

\* SocketRecvFrom writes a pointer of its own in place of the address: eight bytes,
\* aligned, so that the first two are the number of no family.  It writes nothing when
\* the sender has no name.
PointerFamily == 16
SourceWritten(from) ==
  [ZeroRaw EXCEPT !.family = IF from.kind = "unix" THEN 0 ELSE PointerFamily]

-----------------------------------------------------------------------------
(* Reading.                                                                *)

\* UDPConn checks c.ok(); packetConn takes c.conn.fd as it is.
CallRead(r) ==
  /\ ~panic /\ rd[r] = Idle
  /\ \E op \in IF kind = "udp" THEN Reads ELSE {"ReadFrom"}, size \in Sizes :
       IF fd THEN rd' = [rd EXCEPT ![r] = [op |-> op, size |-> size]] /\ UNCHANGED <<last, panic>>
       ELSE /\ panic' = (kind # "udp")
            /\ last' = IF kind # "udp" THEN last ELSE Result(op, 0, NoAddr, "EINVAL", NoDatagram)
            /\ UNCHANGED rd
  /\ UNCHANGED <<socket, fd, disconnected, inward, refused, sent>>

\* What the callers of readMsg make of the raw address: UDPAddr, Netipaddrport, or for
\* a packetConn NetUnix when its own address is no UDP address.
readFrom(raw) == UDPAddr(raw)
readFromAddrPort(raw) == Netipaddrport(raw)
readMsgUDP(raw) == Netipaddrport(raw)
ReadMsgUDPAddrPort(raw) == Netipaddrport(raw)
ReadMsgUnix(raw) == NetUnix(raw)
Source(op, raw) ==
  CASE kind = "packet" -> ReadMsgUDPAddrPort(raw)
    [] kind = "unixgram" -> ReadMsgUnix(raw)
    [] op = "ReadFrom" -> readFrom(raw)
    [] op = "ReadFromUDPAddrPort" -> readFromAddrPort(raw)
    [] OTHER -> readMsgUDP(raw)

\* A read of one datagram ends: no bytes are the end of file, Read looks at no address,
\* and an address that means nothing is ENOTSUP.
Ends(op, n, raw, d) ==
  IF n = 0 THEN Result(op, 0, NoAddr, "EOF", d)
  ELSE IF op = "Read" THEN Result(op, n, NoAddr, "ok", d)
  ELSE IF Source(op, raw) = NoAddr
       THEN Result(op, IF kind = "udp" THEN n ELSE 0, NoAddr, "ENOTSUP", d)
  ELSE Result(op, n, Source(op, raw), "ok", d)

\* UDPConn wraps an error with c.fd.net; Read wraps all but the end of file.
Wraps(op, err) == kind = "udp" /\ err # "ok" /\ ~(op = "Read" /\ err = "EOF")

Returns(r, res) ==
  /\ rd' = [rd EXCEPT ![r] = Idle]
  /\ panic' = (~fd /\ Wraps(res.op, res.err))
  /\ last' = IF panic' THEN last ELSE res

AtMost(a, b) == IF a <= b THEN a ELSE b

\* readMsg has a datagram; what does not fit the buffer is lost.
Receive_SkipsEmpty(r) ==                                 \* mutant: an empty one is read over
  /\ ~panic /\ rd[r] # Idle /\ ~refused /\ inbox # <<>>
  /\ inbox' = Tail(inbox)
  /\ LET d == Head(inbox) IN
       IF d.len = 0 THEN UNCHANGED <<rd, last, panic, taken>>
       ELSE /\ taken' = Append(taken, d)
            /\ Returns(r, Ends(rd[r].op, AtMost(d.len, rd[r].size), SourceWritten(d.from), d))
  /\ UNCHANGED <<socket, fd, disconnected, arrived, refused, sent>>
Receive(r) ==
  /\ ~panic /\ rd[r] # Idle /\ ~refused /\ inbox # <<>>
  /\ inbox' = Tail(inbox) /\ taken' = Append(taken, Head(inbox))
  /\ LET d == Head(inbox) IN
       Returns(r, Ends(rd[r].op, AtMost(d.len, rd[r].size), SourceWritten(d.from), d))
  /\ UNCHANGED <<socket, fd, disconnected, arrived, refused, sent>>

\* An error of the host is no reason to call again.
ReceiveFails(r) ==
  /\ ~panic /\ rd[r] # Idle /\ refused
  /\ refused' = FALSE
  /\ Returns(r, Result(rd[r].op, IF rd[r].op = "Read" THEN -1 ELSE 0, NoAddr, "ECONNREFUSED",
                       NoDatagram))
  /\ UNCHANGED <<socket, fd, disconnected, inward, sent>>

-----------------------------------------------------------------------------
(* Writing.                                                                *)

\* One sendmsg.  The host takes the address as the socket's family says it is, refuses
\* port 0, and may have no room.
Wrote(err) == last' = Result("Write", 0, NoAddr, err, NoDatagram) /\ UNCHANGED panic
Send(raw, asked) ==
  LET to == UnixSockaddr(raw) IN
  IF to.port = 0 THEN Wrote("EINVAL") /\ UNCHANGED <<sent, refused>>
  ELSE IF refused THEN refused' = FALSE /\ Wrote("ECONNREFUSED") /\ UNCHANGED sent
  ELSE \/ Wrote("EAGAIN") /\ UNCHANGED <<sent, refused>>
       \/ /\ sent' = Append(sent, [asked |-> asked, to |-> to])
          /\ Wrote("ok") /\ UNCHANGED refused

NotSent(err) == Wrote(err) /\ UNCHANGED <<sent, refused>>

\* conn.Write, to the address that InitConnection encoded.
Write == Send(NetaddrToRaw(family, peer), peer)

\* UDPConn.WriteTo, WriteToUDP, WriteToUDPAddrPort: not to a connected socket, and it
\* is connected until Close; then there must be an address.
writeTo(a) ==
  IF ~disconnected THEN NotSent("ErrWriteToConnected")
  ELSE IF a = NoAddr THEN NotSent("errMissingAddress")
  ELSE Send(NetaddrToRaw(family, a), a)
writeToAddrPort(a) ==
  IF ~disconnected THEN NotSent("ErrWriteToConnected")
  ELSE IF a = NoAddr THEN NotSent("errMissingAddress")
  ELSE Send(NetipAddrPortToRaw(family, a.ip, a.port), a)

\* WriteMsgUDP: with an address or without, a connected socket is the wrong one.
Dereference == panic' = TRUE /\ UNCHANGED <<last, sent, refused>>
writeMsg_Unchecked(a) ==                                 \* mutant: no address is not an error
  IF ~disconnected /\ a # NoAddr THEN NotSent("ErrWriteToConnected")
  ELSE IF a = NoAddr THEN Dereference
  ELSE Send(NetaddrToRaw(family, a), a)
writeMsg(a) ==
  IF ~disconnected /\ a # NoAddr THEN NotSent("ErrWriteToConnected")
  ELSE IF ~disconnected /\ a = NoAddr THEN NotSent("errMissingAddress")
  ELSE IF a = NoAddr THEN Dereference
  ELSE Send(NetaddrToRaw(family, a), a)

\* WriteMsgUDPAddrPort: no address passes, as sixteen zero bytes and port 0.
writeMsgAddrPort_Anyone(a) ==                            \* mutant: the first check left out
  IF disconnected /\ a = NoAddr THEN NotSent("errMissingAddress")
  ELSE Send(NetipAddrPortToRaw(family, a.ip, a.port), a)
writeMsgAddrPort(a) ==
  IF ~disconnected /\ a # NoAddr THEN NotSent("ErrWriteToConnected")
  ELSE IF disconnected /\ a = NoAddr THEN NotSent("errMissingAddress")
  ELSE Send(NetipAddrPortToRaw(family, a.ip, a.port), a)

UDPWrite ==
  \E a \in Others \cup {NoAddr, Unix} :
    IF ~fd \/ a = Unix THEN NotSent("EINVAL")
    ELSE writeTo(a) \/ writeToAddrPort(a) \/ writeMsg(a) \/ writeMsgAddrPort(a)
         \/ (a = peer /\ Write)

\* packetConn.WriteTo: the address must be of the kind of the socket's own, which a
\* unixgram socket does not have; a nil *net.UDPAddr is of the kind, as sixteen zero bytes
\* and port 0.  After Close it has none at all.
PacketWrite ==
  \E a \in Others \cup {Unix, NoAddr} :
    IF ~fd THEN Dereference
    ELSE IF kind = "packet" /\ a # Unix
         THEN Send(NetipAddrPortToRaw(family, a.ip, a.port), a)
    ELSE NotSent("address type mismatch")

CallWrite ==
  /\ ~panic /\ Len(sent) < MaxSent
  /\ IF kind = "udp" THEN UDPWrite ELSE PacketWrite
  /\ UNCHANGED <<socket, fd, disconnected, inward, rd>>

\* The option's level is the type of the socket, 2 here, which no datagram socket knows.
SetDeadline ==
  /\ ~panic /\ NotSent(IF fd THEN "ENOPROTOOPT" ELSE "EINVAL")
  /\ UNCHANGED <<socket, fd, disconnected, inward, rd>>

Close_StillConnected ==                                  \* mutant: only the reference goes
  /\ ~panic
  /\ fd' = FALSE
  /\ last' = Result("Close", 0, NoAddr, "EINVAL", NoDatagram)
  /\ UNCHANGED <<socket, disconnected, inward, refused, sent, rd, panic>>
Close ==
  /\ ~panic
  /\ fd' = FALSE /\ disconnected' = TRUE
  /\ last' = Result("Close", 0, NoAddr, "EINVAL", NoDatagram)
  /\ UNCHANGED <<socket, inward, refused, sent, rd, panic>>

-----------------------------------------------------------------------------
Reading(r) == CallRead(r) \/ Receive(r) \/ ReceiveFails(r)

Next ==
  \/ \E r \in Readers : Reading(r)
  \/ Arrive \/ PeerRefuses
  \/ CallWrite \/ SetDeadline \/ Close

Spec == Init /\ [][Next]_vars

-----------------------------------------------------------------------------
(* Properties.                                                             *)

TypeOK ==
  /\ kind \in Kinds /\ family \in {HostAF[f] : f \in DOMAIN HostAF}
  /\ peer \in Others \cup {NoAddr}
  /\ fd \in BOOLEAN /\ disconnected = ~fd
  /\ Len(inbox) <= Queue /\ Len(arrived) <= MaxArrived /\ Len(sent) <= MaxSent
  /\ refused \in BOOLEAN /\ panic \in BOOLEAN
  /\ rd \in [Readers -> {Idle} \cup [op : Reads, size : Sizes]]

\* Every datagram that came is taken by exactly one read, in order, or still waits,
\* with any number of readers and whatever their errors.
EachTakenOnce == arrived = taken \o inbox

\* A datagram goes to the address it was given, in either form of an IPv4 address, if
\* that is an address of the socket's family.
SentAsAsked ==
  \A i \in 1..Len(sent) :
    NetaddrAFFamily(sent[i].asked) = family => Same(sent[i].to, sent[i].asked)

\* What a dialed socket sends goes to whom it dialed.
OnlyToPeer == kind = "udp" => \A i \in 1..Len(sent) : Same(sent[i].to, peer)

\* A nil dereference needs a Close before, and a call of the right age: every call of a
\* UDPConn begins with c.ok(), so that it takes a read that waited when Close came; on a
\* packetConn such a read ends without, and it takes a call made after Close.
PanicNeedsClose ==
  [][panic' # panic =>
       /\ ~fd
       /\ kind = "udp" <=> \E r \in Readers : rd[r] # Idle /\ rd'[r] = Idle]_vars
=============================================================================
