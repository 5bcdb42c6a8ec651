-------------------------- MODULE PacketConnProofs --------------------------
(***************************************************************************)
(* Theorems about a datagram socket, for any readers, addresses of others, *)
(* sizes and bounds.                                                       *)
(***************************************************************************)
EXTENDS PacketConn, SequenceTheorems, TLAPS

-----------------------------------------------------------------------------
(* The codec: an address of the family that the host reads by.             *)

LEMMA FamilyNumbers == AF.UNIX = 1 /\ AF.INET = 2 /\ AF.INET6 = 10
  BY DEF AF, WASI, DetermineHostAFFamily

LEMMA OthersAre ==
  ASSUME NEW a \in Others
  PROVE  /\ a.kind = "udp" /\ a.port = 1 /\ a.name = <<>>
         /\ a.ip = <<a.ip[1]>> \/ a.ip = <<a.ip[1], a.ip[2], a.ip[3]>>
  BY PacketConnAssumption DEF Others, UDP, Addr

LEMMA IPLengths ==
  ASSUME NEW a \in Others
  PROVE  Len(a.ip) \in {1, 3} /\ a.ip # <<>>
<1>1. \A x : Len(<<x>>) = 1
  OBVIOUS
<1>2. \A x, y, z : Len(<<x, y, z>>) = 3
  OBVIOUS
<1>3. Len(<<>>) = 0
  OBVIOUS
<1>4. Len(a.ip) = 1 \/ Len(a.ip) = 3
  <2>1. CASE a.ip = <<a.ip[1]>>
    BY <1>1, <2>1
  <2>2. CASE a.ip = <<a.ip[1], a.ip[2], a.ip[3]>>
    BY <1>2, <2>2
  <2>3. QED
    BY <2>1, <2>2, OthersAre
<1>5. QED
  BY <1>3, <1>4

\* The two encoders agree on the address of somebody else.
LEMMA Encoders ==
  ASSUME NEW a \in Others, NEW f
  PROVE  NetaddrToRaw(f, a) = NetipAddrPortToRaw(f, a.ip, a.port)
<1>1. Len(a.ip) \in {1, 3} /\ a.ip # <<>>
  BY IPLengths
<1>2. a.kind # "unix"
  BY OthersAre
<1>3. CASE To4(a.ip) # <<>>
  BY <1>2, <1>3 DEF NetaddrToRaw, NetipAddrPortToRaw
<1>4. CASE To4(a.ip) = <<>>
  <2>1. Len(a.ip) = 3
    BY <1>1, <1>4 DEF To4
  <2>2. QED
    BY <1>1, <1>2, <1>4, <2>1 DEF NetaddrToRaw, NetipAddrPortToRaw
<1>5. QED
  BY <1>3, <1>4

\* The host reads back the address that the guest wrote, when it reads by the family
\* that the guest would give it: in either form of an IPv4 address.
LEMMA Codec ==
  ASSUME NEW a \in Others
  PROVE  Same(UnixSockaddr(NetaddrToRaw(NetaddrAFFamily(a), a)), a)
<1>1. a.kind = "udp" /\ a.name = <<>>
  BY OthersAre
<1>2. CASE To4(a.ip) # <<>>
  <2> DEFINE w == To4(a.ip)[1]
             to == UnixSockaddr(NetaddrToRaw(NetaddrAFFamily(a), a))
  <2>1. To4(a.ip) = <<w>> /\ Len(To4(a.ip)) = 1
    BY <1>2, OthersAre DEF To4
  <2>2. NetaddrAFFamily(a) = 2
    BY <1>1, <1>2, FamilyNumbers DEF NetaddrAFFamily
  <2>3. NetaddrToRaw(2, a) = Raw(2, To4(a.ip), a.port, <<>>)
    BY <1>1, <1>2 DEF NetaddrToRaw
  <2>4. /\ NetaddrToRaw(2, a).family = 2 /\ NetaddrToRaw(2, a).port = a.port
        /\ NetaddrToRaw(2, a).bytes = <<w, "zero", 0>>
    BY <2>1, <2>3 DEF Raw
  <2>5. to = Addr("inet", <<w>>, a.port, <<>>)
    BY <2>2, <2>4 DEF UnixSockaddr, Layout, HostAF
  <2>6. To4(<<w>>) = <<w>>
    BY DEF To4
  <2>7. QED
    BY <1>1, <2>1, <2>5, <2>6 DEF Same, Addr
<1>3. CASE To4(a.ip) = <<>>
  <2>1. Len(a.ip) = 3
    BY <1>3, IPLengths DEF To4
  <2>2. NetaddrAFFamily(a) = 10
    BY <1>1, <1>3, FamilyNumbers DEF NetaddrAFFamily
  <2>3. NetaddrToRaw(10, a) = Raw(10, a.ip, a.port, <<>>)
    BY <1>1, <1>3, <2>1 DEF NetaddrToRaw
  <2>4. /\ NetaddrToRaw(10, a).family = 10 /\ NetaddrToRaw(10, a).port = a.port
        /\ NetaddrToRaw(10, a).bytes = a.ip
    BY <2>1, <2>3 DEF Raw
  <2>5. UnixSockaddr(NetaddrToRaw(NetaddrAFFamily(a), a)) = Addr("inet6", a.ip, a.port, <<>>)
    BY <2>2, <2>4 DEF UnixSockaddr, Layout, HostAF
  <2>6. QED
    BY <1>1, <2>5 DEF Same, Addr
<1>4. QED
  BY <1>2, <1>3

\* No address is written with port 0, which the host refuses.
LEMMA NoAddrHasNoPort ==
  ASSUME NEW f
  PROVE  UnixSockaddr(NetipAddrPortToRaw(f, NoAddr.ip, NoAddr.port)).port = 0
<1>1. NoAddr.ip = <<>> /\ NoAddr.port = 0 /\ To4(<<>>) = <<>>
  BY DEF NoAddr, Addr, To4
<1>2. NetipAddrPortToRaw(f, NoAddr.ip, NoAddr.port) = Raw(f, ZeroIP, 0, <<>>)
  BY <1>1 DEF NetipAddrPortToRaw
<1>3. Raw(f, ZeroIP, 0, <<>>).port = 0
  BY DEF Raw
<1>4. QED
  BY <1>1, <1>2, <1>3 DEF UnixSockaddr, Layout, Addr, NoAddr

-----------------------------------------------------------------------------
(* The inductive invariant.                                                *)

\* What the host holds, what came and what went.
Datagram == [id : Nat, from : Senders, len : Sizes]
Target == {UnixSockaddr(NetaddrToRaw(family, a)) : a \in Others}
Typed ==
  /\ inbox \in Seq(Datagram) /\ arrived \in Seq(Datagram) /\ taken \in Seq(Datagram)
  /\ sent \in Seq([asked : Others, to : Target])

\* dialAddr takes the family from the address.
PeerOfFamily == kind = "udp" => peer \in Others /\ NetaddrAFFamily(peer) = family

IInv == /\ TypeOK /\ Typed /\ PeerOfFamily
        /\ EachTakenOnce /\ SentAsAsked /\ OnlyToPeer

LEMMA InitInv == Init => IInv
<1> SUFFICES ASSUME Init PROVE IInv
  OBVIOUS
<1>1. TypeOK
  <2>1. family \in {HostAF[f] : f \in DOMAIN HostAF}
    BY DEF Init, HostAF
  <2>2. Len(inbox) = 0 /\ Len(arrived) = 0 /\ Len(sent) = 0
    BY DEF Init
  <2>3. peer \in Others \cup {NoAddr} /\ kind \in Kinds
    BY DEF Init
  <2>4. rd \in [Readers -> {Idle} \cup [op : Reads, size : Sizes]]
    BY DEF Init
  <2>5. Len(inbox) <= Queue /\ Len(arrived) <= MaxArrived /\ Len(sent) <= MaxSent
    BY <2>2, PacketConnAssumption
  <2>6. fd \in BOOLEAN /\ disconnected = ~fd /\ refused \in BOOLEAN /\ panic \in BOOLEAN
    BY DEF Init
  <2>7. QED
    BY <2>1, <2>3, <2>4, <2>5, <2>6 DEF TypeOK
<1>2. Typed
  BY DEF Init, Typed
<1>3. PeerOfFamily
  BY DEF Init, PeerOfFamily
<1>4. EachTakenOnce
  BY DEF Init, EachTakenOnce
<1>5. SentAsAsked /\ OnlyToPeer
  BY DEF Init, SentAsAsked, OnlyToPeer
<1>6. QED
  BY <1>1, <1>2, <1>3, <1>4, <1>5 DEF IInv

\* The socket's kind, family and peer never change, nor what they give.
LEMMA SocketKept ==
  ASSUME [Next]_vars
  PROVE  UNCHANGED socket /\ Senders' = Senders /\ Target' = Target
<1>1. UNCHANGED socket
  BY DEF Next, Reading, CallRead, Receive, ReceiveFails, Arrive, PeerRefuses, CallWrite,
         SetDeadline, Close, vars, socket
<1>2. QED
  BY <1>1 DEF socket, Senders, Target

-----------------------------------------------------------------------------
(* Writing.                                                                *)

LEMMA SendStep ==
  ASSUME NEW raw, NEW asked, Send(raw, asked)
  PROVE  /\ UNCHANGED panic
         /\ refused' = refused \/ refused' = FALSE
         /\ \/ UNCHANGED sent
            \/ /\ UnixSockaddr(raw).port # 0
               /\ sent' = Append(sent, [asked |-> asked, to |-> UnixSockaddr(raw)])
  BY DEF Send, Wrote

\* One datagram more, to somebody else and as it was asked; a dialed socket's to its peer.
Goes(asked) ==
  /\ asked \in Others /\ fd
  /\ kind = "udp" => asked = peer
  /\ sent' = Append(sent, [asked |-> asked, to |-> UnixSockaddr(NetaddrToRaw(family, asked))])

LEMMA NotSentStep ==
  ASSUME NEW err, NotSent(err)
  PROVE  UNCHANGED <<panic, sent, refused>>
  BY DEF NotSent, Wrote

LEMMA UDPWriteStep ==
  ASSUME IInv, kind = "udp", UDPWrite
  PROVE  /\ UNCHANGED panic /\ (refused' = refused \/ refused' = FALSE)
         /\ UNCHANGED sent \/ Goes(peer)
<1>1. PICK a \in Others \cup {NoAddr, Unix} :
        \/ NotSent("EINVAL")
        \/ fd /\ (writeTo(a) \/ writeToAddrPort(a) \/ writeMsg(a) \/ writeMsgAddrPort(a)
                  \/ Write)
  BY DEF UDPWrite
<1>2. fd => ~disconnected
  BY DEF IInv, TypeOK
<1>3. CASE \E err : NotSent(err)
  BY <1>3, NotSentStep
<1>4. ASSUME fd, writeTo(a) \/ writeToAddrPort(a) \/ writeMsg(a)
      PROVE  \E err : NotSent(err)
  BY <1>2, <1>4 DEF writeTo, writeToAddrPort, writeMsg
<1>5. CASE fd /\ writeMsgAddrPort(a)
  <2>1. CASE a = NoAddr
    <3>1. Send(NetipAddrPortToRaw(family, a.ip, a.port), a)
      BY <1>2, <1>5, <2>1 DEF writeMsgAddrPort
    <3>2. QED
      BY <2>1, <3>1, SendStep, NoAddrHasNoPort
  <2>2. CASE a # NoAddr
    <3>1. NotSent("ErrWriteToConnected")
      BY <1>2, <1>5, <2>2 DEF writeMsgAddrPort
    <3>2. QED
      BY <3>1, <1>3
  <2>3. QED
    BY <2>1, <2>2
<1>6. CASE fd /\ Write
  <2>1. peer \in Others
    BY DEF IInv, PeerOfFamily
  <2>2. QED
    BY <1>6, <2>1, SendStep DEF Write, Goes
<1>7. QED
  BY <1>1, <1>3, <1>4, <1>5, <1>6

LEMMA PacketWriteStep ==
  ASSUME IInv, kind # "udp", PacketWrite
  PROVE  /\ (UNCHANGED panic \/ (panic' = TRUE /\ ~fd))
         /\ (refused' = refused \/ refused' = FALSE)
         /\ UNCHANGED sent \/ \E asked \in Others : Goes(asked)
<1>1. PICK a \in Others \cup {Unix, NoAddr} :
        \/ ~fd /\ Dereference
        \/ fd /\ a # Unix /\ Send(NetipAddrPortToRaw(family, a.ip, a.port), a)
        \/ NotSent("address type mismatch")
  BY DEF PacketWrite
<1>2. CASE ~fd /\ Dereference
  BY <1>2 DEF Dereference
<1>3. CASE NotSent("address type mismatch")
  BY <1>3, NotSentStep
<1>4. CASE fd /\ a = NoAddr /\ Send(NetipAddrPortToRaw(family, a.ip, a.port), a)
  BY <1>4, SendStep, NoAddrHasNoPort
<1>5. CASE fd /\ a \in Others /\ Send(NetipAddrPortToRaw(family, a.ip, a.port), a)
  <2>1. a \in Others
    BY <1>5
  <2>2. NetaddrToRaw(family, a) = NetipAddrPortToRaw(family, a.ip, a.port)
    BY <2>1, Encoders
  <2>3. QED
    BY <1>5, <2>1, <2>2, SendStep DEF Goes
<1>6. QED
  BY <1>1, <1>2, <1>3, <1>4, <1>5

-----------------------------------------------------------------------------
(* Every step keeps the invariant.                                         *)

\* A step that sends nothing leaves what is known of the socket and of what was sent.
LEMMA NothingSent ==
  ASSUME IInv, [Next]_vars, UNCHANGED sent
  PROVE  /\ PeerOfFamily' /\ SentAsAsked' /\ OnlyToPeer'
         /\ sent' \in Seq([asked : Others, to : Target'])
         /\ kind' \in Kinds /\ family' \in {HostAF[f] : f \in DOMAIN HostAF}
         /\ peer' \in Others \cup {NoAddr} /\ Len(sent') <= MaxSent
  BY SocketKept DEF IInv, TypeOK, Typed, PeerOfFamily, SentAsAsked, OnlyToPeer, socket

\* The rest of TypeOK, for such a step.
Inward ==
  /\ inbox \in Seq(Datagram) /\ arrived \in Seq(Datagram) /\ taken \in Seq(Datagram)
  /\ Len(inbox) <= Queue /\ Len(arrived) <= MaxArrived
  /\ EachTakenOnce
Flags ==
  /\ fd \in BOOLEAN /\ disconnected = ~fd /\ refused \in BOOLEAN /\ panic \in BOOLEAN
ReaderTypes == rd \in [Readers -> {Idle} \cup [op : Reads, size : Sizes]]

LEMMA Parts == IInv => Inward /\ Flags /\ ReaderTypes
  BY DEF IInv, TypeOK, Typed, Inward, Flags, ReaderTypes

LEMMA Together ==
  ASSUME IInv, [Next]_vars, UNCHANGED sent, Inward', Flags', ReaderTypes'
  PROVE  IInv'
<1>1. /\ PeerOfFamily' /\ SentAsAsked' /\ OnlyToPeer'
      /\ sent' \in Seq([asked : Others, to : Target'])
      /\ kind' \in Kinds /\ family' \in {HostAF[f] : f \in DOMAIN HostAF}
      /\ peer' \in Others \cup {NoAddr} /\ Len(sent') <= MaxSent
  BY NothingSent
<1>2. Typed'
  BY <1>1 DEF Inward, Typed
<1>3. TypeOK'
  BY <1>1 DEF Inward, Flags, ReaderTypes, TypeOK
<1>4. EachTakenOnce'
  BY DEF Inward, Flags
<1>5. QED
  BY <1>1, <1>2, <1>3, <1>4 DEF IInv

LEMMA InwardKept == ASSUME [Next]_vars, Inward, UNCHANGED inward PROVE Inward'
  BY SocketKept DEF Inward, inward, EachTakenOnce, Datagram

\* The first datagram that waits becomes the last one that was taken.
LEMMA TakeFirst ==
  ASSUME NEW S, NEW q \in Seq(S), NEW t \in Seq(S), q # <<>>
  PROVE  /\ Tail(q) \in Seq(S) /\ Append(t, Head(q)) \in Seq(S)
         /\ Append(t, Head(q)) \o Tail(q) = t \o q
         /\ Len(Tail(q)) <= Len(q)
<1>1. Head(q) \in S /\ Tail(q) \in Seq(S) /\ Len(Tail(q)) = Len(q) - 1
  BY HeadTailProperties
<1>2. Append(t, Head(q)) \in Seq(S) /\ Len(q) \in Nat
  BY <1>1, AppendProperties, LenProperties
<1>3. Append(t, Head(q)) \o Tail(q) = t \o q
  BY <1>1
<1>4. QED
  BY <1>1, <1>2, <1>3

LEMMA ReturnsStep ==
  ASSUME IInv, NEW r \in Readers, NEW res, Returns(r, res)
  PROVE  ReaderTypes' /\ panic' \in BOOLEAN
<1>1. ReaderTypes'
  BY Parts DEF Returns, ReaderTypes
<1>2. panic' = (~fd /\ Wraps(res.op, res.err))
  BY DEF Returns
<1>3. QED
  BY <1>1, <1>2

LEMMA CallReadStep ==
  ASSUME IInv, [Next]_vars, NEW r \in Readers, CallRead(r)
  PROVE  IInv'
<1>1. PICK op \in IF kind = "udp" THEN Reads ELSE {"ReadFrom"}, size \in Sizes :
        \/ fd /\ rd' = [rd EXCEPT ![r] = [op |-> op, size |-> size]] /\ UNCHANGED panic
        \/ ~fd /\ (panic' = (kind # "udp")) /\ UNCHANGED rd
  BY DEF CallRead
<1>2. op \in Reads
  BY DEF Reads
<1>3. ReaderTypes'
  BY <1>1, <1>2, Parts DEF ReaderTypes
<1>4. UNCHANGED fd /\ UNCHANGED disconnected /\ UNCHANGED refused
      /\ UNCHANGED inward /\ UNCHANGED sent
  BY DEF CallRead
<1>5. Flags'
  <2>1. CASE fd
    BY <1>1, <1>4, <2>1, Parts DEF Flags
  <2>2. CASE ~fd
    <3>1. panic' \in BOOLEAN
      BY <1>1, <2>2
    <3>2. QED
      BY <1>4, <2>2, <3>1, Parts DEF Flags
  <2>3. QED
    BY <2>1, <2>2
<1>6. QED
  BY <1>3, <1>4, <1>5, Parts, InwardKept, Together

LEMMA ReceiveStep ==
  ASSUME IInv, [Next]_vars, NEW r \in Readers, Receive(r)
  PROVE  IInv'
<1>1. /\ inbox # <<>> /\ inbox' = Tail(inbox) /\ taken' = Append(taken, Head(inbox))
      /\ UNCHANGED arrived /\ UNCHANGED sent
  BY DEF Receive
<1>2. UNCHANGED fd /\ UNCHANGED disconnected /\ UNCHANGED refused
  BY DEF Receive
<1>3. \E res : Returns(r, res)
  BY DEF Receive
<1>4. ReaderTypes' /\ panic' \in BOOLEAN
  BY <1>3, ReturnsStep
<1>5. Flags'
  BY <1>2, <1>4, Parts DEF Flags
<1>6. Inward'
  <2>1. inbox' \in Seq(Datagram) /\ taken' \in Seq(Datagram) /\ taken' \o inbox' = taken \o inbox
        /\ Len(inbox') <= Len(inbox)
    BY <1>1, Parts, TakeFirst DEF Inward
  <2>2. Len(inbox') <= Queue
    BY <1>1, <2>1, Parts, PacketConnAssumption, LenProperties DEF Inward
  <2>3. Datagram' = Datagram
    BY SocketKept DEF Datagram
  <2>4. QED
    BY <1>1, <2>1, <2>2, <2>3, Parts DEF Inward, EachTakenOnce
<1>7. QED
  BY <1>1, <1>4, <1>5, <1>6, Together

LEMMA ReceiveFailsStep ==
  ASSUME IInv, [Next]_vars, NEW r \in Readers, ReceiveFails(r)
  PROVE  IInv'
<1>1. UNCHANGED fd /\ UNCHANGED disconnected /\ UNCHANGED inward /\ UNCHANGED sent
      /\ refused' = FALSE
  BY DEF ReceiveFails
<1>2. \E res : Returns(r, res)
  BY DEF ReceiveFails
<1>3. ReaderTypes' /\ panic' \in BOOLEAN
  BY <1>2, ReturnsStep
<1>4. Flags'
  BY <1>1, <1>3, Parts DEF Flags
<1>5. QED
  BY <1>1, <1>3, <1>4, Parts, InwardKept, Together

LEMMA ArriveStep ==
  ASSUME IInv, [Next]_vars, Arrive
  PROVE  IInv'
<1>1. PICK from \in Senders, len \in Sizes :
        LET d == [id |-> Len(arrived) + 1, from |-> from, len |-> len]
        IN  inbox' = Append(inbox, d) /\ arrived' = Append(arrived, d)
  BY DEF Arrive
<1> DEFINE d == [id |-> Len(arrived) + 1, from |-> from, len |-> len]
<1>2. UNCHANGED fd /\ UNCHANGED disconnected /\ UNCHANGED refused /\ UNCHANGED panic
      /\ UNCHANGED rd /\ UNCHANGED sent /\ UNCHANGED taken
      /\ Len(inbox) < Queue /\ Len(arrived) < MaxArrived
  BY DEF Arrive
<1>3. d \in Datagram
  BY Parts, LenProperties DEF Datagram, Inward
<1>4. /\ inbox' \in Seq(Datagram) /\ arrived' \in Seq(Datagram)
      /\ Len(inbox') = Len(inbox) + 1 /\ Len(arrived') = Len(arrived) + 1
      /\ Len(inbox) \in Nat /\ Len(arrived) \in Nat
  BY <1>1, <1>3, Parts, AppendProperties, LenProperties DEF Inward
<1>5. arrived' = taken' \o inbox'
  <2> HIDE DEF d
  <2>1. taken \in Seq(Datagram) /\ inbox \in Seq(Datagram) /\ arrived = taken \o inbox
    BY Parts DEF Inward, EachTakenOnce
  <2>2. Append(taken \o inbox, d) = taken \o Append(inbox, d)
    BY <1>3, <2>1
  <2>3. QED
    BY <1>1, <1>2, <2>1, <2>2 DEF d
<1>6. Inward'
  <2>1. Len(inbox') <= Queue /\ Len(arrived') <= MaxArrived
    BY <1>2, <1>4, PacketConnAssumption
  <2>2. Datagram' = Datagram
    BY SocketKept DEF Datagram
  <2>3. taken' \in Seq(Datagram)
    BY <1>2, Parts DEF Inward
  <2>4. QED
    BY <1>4, <1>5, <2>1, <2>2, <2>3 DEF Inward, EachTakenOnce
<1>7. Flags' /\ ReaderTypes'
  BY <1>2, Parts DEF Flags, ReaderTypes
<1>8. QED
  BY <1>2, <1>6, <1>7, Together

LEMMA PeerRefusesStep ==
  ASSUME IInv, [Next]_vars, PeerRefuses
  PROVE  IInv'
<1>1. UNCHANGED fd /\ UNCHANGED disconnected /\ UNCHANGED panic /\ UNCHANGED rd
      /\ UNCHANGED sent /\ UNCHANGED inward /\ refused' = TRUE
  BY DEF PeerRefuses
<1>2. Flags' /\ ReaderTypes'
  BY <1>1, Parts DEF Flags, ReaderTypes
<1>3. QED
  BY <1>1, <1>2, Parts, InwardKept, Together

LEMMA SetDeadlineStep ==
  ASSUME IInv, [Next]_vars, SetDeadline
  PROVE  IInv'
<1>1. UNCHANGED fd /\ UNCHANGED disconnected /\ UNCHANGED rd /\ UNCHANGED inward
  BY DEF SetDeadline
<1>2. UNCHANGED panic /\ UNCHANGED sent /\ UNCHANGED refused
  BY NotSentStep DEF SetDeadline
<1>3. Flags' /\ ReaderTypes'
  BY <1>1, <1>2, Parts DEF Flags, ReaderTypes
<1>4. QED
  BY <1>1, <1>2, <1>3, Parts, InwardKept, Together

LEMMA CloseStep ==
  ASSUME IInv, [Next]_vars, Close
  PROVE  IInv'
<1>1. UNCHANGED panic /\ UNCHANGED rd /\ UNCHANGED inward /\ UNCHANGED sent
      /\ UNCHANGED refused /\ fd' = FALSE /\ disconnected' = TRUE
  BY DEF Close
<1>2. Flags' /\ ReaderTypes'
  BY <1>1, Parts DEF Flags, ReaderTypes
<1>3. QED
  BY <1>1, <1>2, Parts, InwardKept, Together

\* What one datagram more does to the conjuncts about what was sent.
LEMMA GoesStep ==
  ASSUME IInv, [Next]_vars, NEW asked, Goes(asked), Len(sent) < MaxSent
  PROVE  /\ sent' \in Seq([asked : Others, to : Target']) /\ Len(sent') <= MaxSent
         /\ SentAsAsked' /\ OnlyToPeer'
<1> DEFINE to == UnixSockaddr(NetaddrToRaw(family, asked))
           S == [asked : Others, to : Target]
           new == [asked |-> asked, to |-> to]
<1>1. asked \in Others /\ sent' = Append(sent, new) /\ (kind = "udp" => asked = peer)
  BY DEF Goes
<1>2. new \in S
  BY <1>1 DEF Target
<1>3. sent \in Seq(S)
  BY DEF IInv, Typed
<1>4. NetaddrAFFamily(asked) = family => Same(to, asked)
  BY <1>1, Codec
<1>5. UNCHANGED kind /\ UNCHANGED family /\ UNCHANGED peer /\ Target' = Target
  BY SocketKept DEF socket
<1>6. kind = "udp" => peer \in Others /\ NetaddrAFFamily(peer) = family
  BY DEF IInv, PeerOfFamily
<1>7. new.asked = asked /\ new.to = to
  OBVIOUS
<1> HIDE DEF S, new, to
<1>8. Len(sent) \in Nat /\ sent' \in Seq(S) /\ Len(sent') = Len(sent) + 1
  BY <1>1, <1>2, <1>3, AppendProperties, LenProperties
<1>9. /\ \A i \in 1..Len(sent) : sent'[i] = sent[i]
      /\ sent'[Len(sent) + 1] = new
  BY <1>1, <1>2, <1>3, AppendProperties
<1>10. Len(sent') <= MaxSent
  BY <1>8, PacketConnAssumption
<1>11. sent' \in Seq([asked : Others, to : Target'])
  BY <1>5, <1>8 DEF S
<1>12. \A i \in 1..Len(sent') : i \in 1..Len(sent) \/ i = Len(sent) + 1
  BY <1>8
<1>13. SentAsAsked'
  <2> SUFFICES ASSUME NEW i \in 1..Len(sent'), NetaddrAFFamily(sent'[i].asked) = family
               PROVE  Same(sent'[i].to, sent'[i].asked)
    BY <1>5 DEF SentAsAsked
  <2>1. CASE i \in 1..Len(sent)
    BY <2>1, <1>9 DEF IInv, SentAsAsked
  <2>2. CASE i = Len(sent) + 1
    BY <2>2, <1>4, <1>7, <1>9
  <2>3. QED
    BY <2>1, <2>2, <1>12
<1>14. OnlyToPeer'
  <2> SUFFICES ASSUME kind = "udp", NEW i \in 1..Len(sent')
               PROVE  Same(sent'[i].to, peer)
    BY <1>5 DEF OnlyToPeer
  <2>1. CASE i \in 1..Len(sent)
    BY <2>1, <1>9 DEF IInv, OnlyToPeer
  <2>2. CASE i = Len(sent) + 1
    BY <2>2, <1>1, <1>4, <1>6, <1>7, <1>9
  <2>3. QED
    BY <2>1, <2>2, <1>12
<1>15. QED
  BY <1>10, <1>11, <1>13, <1>14

LEMMA CallWriteStep ==
  ASSUME IInv, [Next]_vars, CallWrite
  PROVE  IInv'
<1>1. UNCHANGED fd /\ UNCHANGED disconnected /\ UNCHANGED inward /\ UNCHANGED rd
      /\ Len(sent) < MaxSent
  BY DEF CallWrite
<1>2. /\ UNCHANGED panic \/ (panic' = TRUE /\ ~fd)
      /\ refused' = refused \/ refused' = FALSE
      /\ UNCHANGED sent \/ \E asked : Goes(asked)
  <2>1. CASE kind = "udp"
    BY <2>1, UDPWriteStep DEF CallWrite
  <2>2. CASE kind # "udp"
    BY <2>2, PacketWriteStep DEF CallWrite
  <2>3. QED
    BY <2>1, <2>2
<1>3. Inward' /\ ReaderTypes'
  BY <1>1, Parts, InwardKept DEF ReaderTypes
<1>4. Flags'
  <2>1. panic' \in BOOLEAN /\ refused' \in BOOLEAN
    BY <1>2, Parts DEF Flags
  <2>2. QED
    BY <1>1, <2>1, Parts DEF Flags
<1>5. CASE UNCHANGED sent
  BY <1>3, <1>4, <1>5, Together
<1>6. CASE \E asked : Goes(asked)
  <2>1. /\ sent' \in Seq([asked : Others, to : Target']) /\ Len(sent') <= MaxSent
        /\ SentAsAsked' /\ OnlyToPeer'
    BY <1>1, <1>6, GoesStep
  <2>2. /\ PeerOfFamily' /\ kind' \in Kinds /\ family' \in {HostAF[f] : f \in DOMAIN HostAF}
        /\ peer' \in Others \cup {NoAddr}
    BY SocketKept DEF IInv, TypeOK, PeerOfFamily, socket
  <2>3. Typed'
    BY <1>3, <2>1 DEF Inward, Typed
  <2>4. TypeOK'
    BY <1>3, <1>4, <2>1, <2>2 DEF Inward, Flags, ReaderTypes, TypeOK
  <2>5. EachTakenOnce'
    BY <1>3, <1>4 DEF Inward, Flags
  <2>6. QED
    BY <2>1, <2>2, <2>3, <2>4, <2>5 DEF IInv
<1>7. QED
  BY <1>2, <1>5, <1>6

LEMMA NextInv == IInv /\ [Next]_vars => IInv'
<1> SUFFICES ASSUME IInv, [Next]_vars PROVE IInv'
  OBVIOUS
<1>1. ASSUME NEW r \in Readers, Reading(r) PROVE IInv'
  BY <1>1, CallReadStep, ReceiveStep, ReceiveFailsStep DEF Reading
<1>2. CASE Arrive
  BY <1>2, ArriveStep
<1>3. CASE PeerRefuses
  BY <1>3, PeerRefusesStep
<1>4. CASE CallWrite
  BY <1>4, CallWriteStep
<1>5. CASE SetDeadline
  BY <1>5, SetDeadlineStep
<1>6. CASE Close
  BY <1>6, CloseStep
<1>7. CASE UNCHANGED vars
  <2>1. UNCHANGED sent /\ UNCHANGED inward
    BY <1>7 DEF vars, inward
  <2>2. Flags' /\ ReaderTypes'
    BY <1>7, Parts DEF vars, Flags, ReaderTypes
  <2>3. QED
    BY <2>1, <2>2, Parts, InwardKept, Together
<1>8. QED
  BY <1>1, <1>2, <1>3, <1>4, <1>5, <1>6, <1>7 DEF Next

-----------------------------------------------------------------------------
(* The theorems.                                                           *)

\* The invariant holds in every state of every behaviour.
THEOREM Invariance == Spec => []IInv
  BY InitInv, NextInv, PTL DEF Spec

\* Every variable has its type, and the bounds on the queues are kept: Close clears the
\* reference and marks the socket disconnected in one step.
THEOREM TypeCorrect == Spec => []TypeOK
<1>1. IInv => TypeOK
  BY DEF IInv
<1>2. QED
  BY <1>1, Invariance, PTL

\* Readers that share the socket lose no datagram to each other and take none twice,
\* in the order in which readMsg was answered, closed socket or not.
THEOREM TakenOnce == Spec => []EachTakenOnce
<1>1. IInv => EachTakenOnce
  BY DEF IInv
<1>2. QED
  BY <1>1, Invariance, PTL

\* The sockaddr that the guest encodes is read by the host as the address that was
\* asked for, for every address of the socket's family and by every way of writing.
THEOREM SentRight == Spec => []SentAsAsked
<1>1. IInv => SentAsAsked
  BY DEF IInv
<1>2. QED
  BY <1>1, Invariance, PTL

\* No call of a dialed socket, before or after its Close, sends to anyone but its peer.
THEOREM ToPeer == Spec => []OnlyToPeer
<1>1. IInv => OnlyToPeer
  BY DEF IInv
<1>2. QED
  BY <1>1, Invariance, PTL

LEMMA PanicOfRead ==
  ASSUME IInv, NEW r \in Readers, Reading(r), panic' # panic
  PROVE  /\ ~fd
         /\ kind = "udp" <=> \E s \in Readers : rd[s] # Idle /\ rd'[s] = Idle
<1>1. rd \in [Readers -> {Idle} \cup [op : Reads, size : Sizes]] /\ panic \in BOOLEAN
  BY DEF IInv, TypeOK
<1>2. CASE CallRead(r)
  <2>1. ~fd /\ panic' = (kind # "udp") /\ UNCHANGED rd /\ ~panic
    BY <1>2 DEF CallRead
  <2>2. kind # "udp"
    BY <1>1, <2>1
  <2>3. QED
    BY <2>1, <2>2
<1>3. ASSUME rd[r] # Idle, NEW res, Returns(r, res), ~panic
      PROVE  /\ ~fd /\ kind = "udp" /\ rd'[r] = Idle
  <2>1. panic' = (~fd /\ Wraps(res.op, res.err)) /\ rd'[r] = Idle
    BY <1>1, <1>3 DEF Returns
  <2>2. panic'
    BY <1>1, <1>3, <2>1
  <2>3. QED
    BY <2>1, <2>2 DEF Wraps
<1>4. CASE Receive(r)
  <2>1. rd[r] # Idle /\ ~panic /\ \E res : Returns(r, res)
    BY <1>4 DEF Receive
  <2>2. QED
    BY <1>3, <2>1
<1>5. CASE ReceiveFails(r)
  <2>1. rd[r] # Idle /\ ~panic /\ \E res : Returns(r, res)
    BY <1>5 DEF ReceiveFails
  <2>2. QED
    BY <1>3, <2>1
<1>6. QED
  BY <1>2, <1>4, <1>5 DEF Reading

LEMMA PanicOfWrite ==
  ASSUME IInv, CallWrite, panic' # panic
  PROVE  ~fd /\ kind # "udp" /\ UNCHANGED rd
<1>1. UNCHANGED rd
  BY DEF CallWrite
<1>2. kind # "udp"
  BY UDPWriteStep DEF CallWrite
<1>3. ~fd
  BY <1>2, PacketWriteStep DEF CallWrite
<1>4. QED
  BY <1>1, <1>2, <1>3

\* Only a call of a closed socket dereferences nil: of a UDPConn a read that was waiting
\* when Close came, of a packetConn one that was made after it.
THEOREM PanicSafe == Spec => PanicNeedsClose
<1> DEFINE A == panic' # panic =>
                  /\ ~fd
                  /\ kind = "udp" <=> \E r \in Readers : rd[r] # Idle /\ rd'[r] = Idle
<1>1. IInv /\ [Next]_vars => [A]_vars
  <2> SUFFICES ASSUME IInv, Next, panic' # panic PROVE A
    BY DEF vars
  <2>1. ASSUME NEW r \in Readers, Reading(r) PROVE A
    BY <2>1, PanicOfRead
  <2>2. CASE CallWrite
    BY <2>2, PanicOfWrite
  <2>3. ~(Arrive \/ PeerRefuses \/ SetDeadline \/ Close)
    BY NotSentStep DEF Arrive, PeerRefuses, SetDeadline, Close
  <2>4. QED
    BY <2>1, <2>2, <2>3 DEF Next
<1>2. QED
  BY <1>1, Invariance, PTL DEF Spec, PanicNeedsClose
=============================================================================
