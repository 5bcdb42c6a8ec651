------------------------------ MODULE HostCall ------------------------------
(***************************************************************************)
(* The host functions that a guest's sockets are made of: each action is   *)
(* one call by the guest, from its wrapper to the system call of the host  *)
(* and back.  A wrapper passes pointers into the guest's memory; a region  *)
(* that is outside it is in bad, and every access to it fails.             *)
(*                                                                         *)
(* A call answers with a number, call.told, and may fill results.  In a    *)
(* native build there is no guest: the same wrappers call functions of the *)
(* same names in their own program, with its memory and its numbers.       *)
(*                                                                         *)
(* Abstracted: stream sockets, between sockets of the guest or to services *)
(* on the host, bytes as counts (Conn has their order); datagrams are in   *)
(* PacketConn.  No host function closes a socket.  A unix name is the      *)
(* sequence of its bytes, a byte being a string of one character; elements *)
(* "." and ".." of a path are left out, and so are links.                  *)
(***************************************************************************)
EXTENDS Address, Errno, SequencesExt

CONSTANTS
  MaxFd,       \* descriptors that the host gives out
  Binds,       \* net.Addrs that the guest binds
  Dials,       \* and those that it connects to
  Services,    \* unix names on the host where a program listens
  FSPrefixes,  \* host and guest prefixes of unix names, in order
  SunPath,     \* the host refuses a unix name of this length or more
  Backlog,     \* connections that wait for Accept
  Room,        \* bytes that the host holds on the way to one side
  Slots,       \* addresses that fit the guest's buffer for a lookup (8)
  MaxIPs       \* addresses that the host finds for a name

Fds == 1..MaxFd

ASSUME HostCallAssumption ==
  /\ SunPath \in Nat /\ SunPath <= NameBuf
  /\ {MaxFd, Backlog, Room, Slots, MaxIPs} \subseteq Nat /\ Slots > 0

\* A net.TCPAddr, or a net.UnixAddr.
StreamAddr(a) ==
  \/ /\ a = Addr("tcp", a.ip, a.port, <<>>) /\ a.port \in Nat
     /\ a.ip = <<a.ip[1]>> \/ a.ip = <<a.ip[1], a.ip[2], a.ip[3]>>
  \/ a = Addr("unix", <<>>, 0, a.name) /\ a.name \in Seq(STRING)

\* Left out: a unix bind without a name, for which the host picks one, and a dial to
\* no particular address, which goes to this machine.
Anywhere(sa) == sa.ip \in {<<0>>, ZeroIP}
ASSUME NamesAssumption ==
  /\ \A a \in Binds \cup Dials : StreamAddr(a)
  /\ \A a \in Binds : a.kind = "unix" => a.name # <<>>
  /\ \A a \in Dials : ~Anywhere(a) /\ a.ip # <<0, "ffff", 0>>
  /\ FSPrefixes \in Seq([guest : Seq(STRING), host : Seq(STRING)])

VARIABLES
  build,       \* "guest" or "native"
  kind,        \* the family of the sockets: those of two families do not meet
  sock,        \* the host's sockets
  known,       \* the descriptors that the guest was told
  user,        \* what the guest asked to bind and to connect each to
  call         \* the last call

vars == <<build, kind, sock, known, user, call>>

Families == [inet |-> HostAF.INET, inet6 |-> HostAF.INET6, unix |-> HostAF.UNIX]
Unused == [st |-> "free", fam |-> "none", local |-> NoAddr, peer |-> NoAddr,
           mate |-> 0, out |-> 0, shut |-> {}, pend |-> <<>>, waits |-> TRUE]
Unnamed(fam) == Addr(fam, IF fam = "unix" THEN <<>> ELSE <<0>>, 0, <<>>)
NoCall == [op |-> "none", fd |-> 0, bad |-> {}, host |-> "ok", told |-> 0,
           net |-> "", addr |-> NoAddr, n |-> 0, moved |-> 0, found |-> <<>>, ips |-> <<>>]

Init ==
  /\ build \in {"guest", "native"} /\ kind \in DOMAIN Families
  /\ sock = [f \in Fds |-> Unused]
  /\ known = {}
  /\ user = [f \in Fds |-> [bound |-> NoAddr, dialed |-> NoAddr]]
  /\ call = NoCall

-----------------------------------------------------------------------------
(* Memory and answers.                                                     *)

\* The guest's memory answers a request outside it with FALSE, ffi with EFAULT.
InMemory(bad, region) == region \notin bad
Fault == Untranslated("EFAULT")

\* vectorread reads the vector, then each buffer of it.
VectorRead(bad) == InMemory(bad, "data")
vectorread_Table(bad) == InMemory(bad, "iovs")            \* mutant: the buffers not checked
vectorread(bad) == InMemory(bad, "iovs") /\ VectorRead(bad)

\* The answer to an error of the host: a native function translates nothing.
Told(err) == IF build = "native" THEN Errno(err) ELSE TranslateErrno(err)
Numbers == IF build = "native" THEN Host ELSE Guest

\* A native program's pointers are its own.
Bads(regions) == IF build = "native" THEN {{}} ELSE SUBSET regions

\* An input could not be read: nothing was asked of the host.
Refuse(op, fd, bad) ==
  /\ call' = [NoCall EXCEPT !.op = op, !.fd = fd, !.bad = bad, !.host = "EFAULT",
                            !.told = TranslateErrno("EFAULT")]
  /\ UNCHANGED <<sock, known, user>>

\* An answer without results.
Reply(op, fd, bad, err) ==
  call' = [NoCall EXCEPT !.op = op, !.fd = fd, !.bad = bad, !.host = err, !.told = Told(err)]

\* One with results, in the region "result": EFAULT when it cannot be written.
ReplyWith(op, fd, bad, err, addr, n, moved) ==
  call' = [NoCall EXCEPT !.op = op, !.fd = fd, !.bad = bad, !.host = err, !.addr = addr,
             !.n = n, !.moved = moved,
             !.told = IF err = "ok" /\ ~InMemory(bad, "result") THEN TranslateErrno("EFAULT")
                      ELSE Told(err)]

\* A panic of a host function ends the guest.
Alive == call.told # Panic

-----------------------------------------------------------------------------
(* Unix names.                                                             *)

\* filepath.Join: slashes that follow one another become one, and the last goes.
Squeezed(name) ==
  FoldLeft(LAMBDA s, b : IF b = "/" /\ s # <<>> /\ Last(s) = "/" THEN s ELSE Append(s, b),
           <<>>, name)
Clean(name) ==
  LET s == Squeezed(name) IN IF Len(s) > 1 /\ Last(s) = "/" THEN Front(s) ELSE s
Join(dir, rest) == IF dir = <<>> THEN Clean(rest) ELSE Clean(dir \o <<"/">> \o rest)

\* fsremap.Remap: the loop over the prefixes keeps the last of the longest.
Best_Last(name) ==                                       \* mutant: the length is not compared
  FoldLeft(LAMBDA best, m : IF IsPrefix(m.guest, name) THEN m ELSE best,
           [guest |-> <<>>, host |-> <<>>], FSPrefixes)
Best(name) ==
  FoldLeft(LAMBDA best, m :
             IF IsPrefix(m.guest, name) /\ Len(m.guest) >= Len(best.guest) THEN m ELSE best,
           [guest |-> <<>>, host |-> <<>>], FSPrefixes)
Rest(name, prefix) == SubSeq(name, Len(prefix) + 1, Len(name))
Remap(name) == Join(Best(name).host, Rest(name, Best(name).guest))

\* network.Connect remaps a unix name, sock_connect of a native build does not.
Target(sa) ==
  IF sa.kind = "unix" /\ build = "guest" THEN [sa EXCEPT !.name = Remap(sa.name)] ELSE sa

-----------------------------------------------------------------------------
(* Open, Bind, Listen.                                                     *)

Free == {f \in Fds : sock[f].st = "free"}
NewFd == CHOOSE f \in Free : \A g \in Free : f <= g

\* The descriptor is written before the error is looked at, -1 for a failure.  Only a
\* guest's socket is opened with SOCK_NONBLOCK; Accept sets it in neither build.  A call
\* that would wait in the host is left out.
Ends(fd, err) == sock[fd].waits => err \notin {"EAGAIN", "EINPROGRESS"}
SocketOpen(fam, bad) ==
  LET err == IF Free = {} THEN "EMFILE" ELSE "ok" IN
  /\ IF err = "ok"
     THEN /\ sock' = [sock EXCEPT ![NewFd] = [Unused EXCEPT !.st = "open", !.fam = fam,
                                    !.local = Unnamed(fam), !.waits = (build = "native")]]
          /\ known' = IF InMemory(bad, "result") THEN known \cup {NewFd} ELSE known
     ELSE UNCHANGED <<sock, known>>
  /\ UNCHANGED user
  /\ call' = [NoCall EXCEPT !.op = "open", !.bad = bad, !.host = err,
                !.fd = IF err = "ok" THEN NewFd ELSE 0,
                !.told = IF InMemory(bad, "result") THEN Told(err) ELSE Fault]

\* A wrapper encodes for the family of its socket, which the dialer and the listener
\* took from the same address.
Encoded(fd, a) == NetaddrToRaw(Families[sock[fd].fam], a)
Fits(fd, a) == NetaddrAFFamily(a) = Families[sock[fd].fam]

\* Whether a socket with this local name takes what is sent to that address.
Meets(local, to) ==
  /\ local.kind = to.kind /\ local.port = to.port /\ local.name = to.name
  /\ local.ip = to.ip \/ Anywhere(local)

\* Errors of a path, and of a directory that gets a new entry.
PathErrors == {"EACCES", "ELOOP", "ENOENT", "ENOTDIR", "EROFS"}
MakeErrors == PathErrors \cup {"EPERM", "ENOSPC", "EIO"}

\* What a bind may name a socket: for port 0 the host picks a port that nobody has.
Asked(sa) == sa.kind = "unix" \/ sa.port # 0
Ephemeral == 101..(100 + MaxFd)
Held(sa) ==
  \E g \in Fds : /\ sock[g].st \notin {"free", "open"}
                 /\ (Meets(sock[g].local, sa) \/ Meets(sa, sock[g].local))
FreeNames(sa) ==
  {n \in IF Asked(sa) THEN {sa} ELSE {[sa EXCEPT !.port = p] : p \in Ephemeral} : ~Held(n)}
GivenName(sa) == CHOOSE n \in FreeNames(sa) : TRUE

BindErrors(fd, sa) ==
  IF sock[fd].st # "open" \/ Len(sa.name) >= SunPath THEN {"EINVAL"}
  ELSE IF FreeNames(sa) = {} THEN {"EADDRINUSE"}
  ELSE IF sa.kind = "unix" THEN {"ok", "EADDRINUSE"} \cup MakeErrors
  ELSE {"ok", "EADDRINUSE", "EADDRNOTAVAIL", "EACCES"}

SocketBind_Remapped(fd, a, bad) ==                       \* mutant: remapped, as by Connect
  /\ Fits(fd, a) /\ InMemory(bad, "addr")
  /\ LET sa == Target(UnixSockaddr(Encoded(fd, a))) IN
     \E err \in BindErrors(fd, sa) :
       /\ Reply("bind", fd, bad, err)
       /\ IF err = "ok"
          THEN /\ sock' = [sock EXCEPT ![fd].st = "bound", ![fd].local = GivenName(sa)]
               /\ user' = [user EXCEPT ![fd].bound = a]
          ELSE UNCHANGED <<sock, user>>
  /\ UNCHANGED known

\* network.Bind takes a unix name as it is.
SocketBind(fd, a, bad) ==
  /\ Fits(fd, a)
  /\ IF ~InMemory(bad, "addr") THEN Refuse("bind", fd, bad)
     ELSE LET sa == UnixSockaddr(Encoded(fd, a)) IN
          \E err \in BindErrors(fd, sa) :
            /\ Reply("bind", fd, bad, err)
            /\ IF err = "ok"
               THEN /\ sock' = [sock EXCEPT ![fd].st = "bound", ![fd].local = GivenName(sa)]
                    /\ user' = [user EXCEPT ![fd].bound = a]
               ELSE UNCHANGED <<sock, user>>
            /\ UNCHANGED known

SocketListen(fd) ==
  LET err == IF sock[fd].st \in {"bound", "listening"} THEN "ok" ELSE "EINVAL" IN
  /\ sock[fd].fam = "unix" \/ sock[fd].st # "open"   \* left out: the host binds it itself
  /\ Reply("listen", fd, {}, err)
  /\ sock' = IF err = "ok" THEN [sock EXCEPT ![fd].st = "listening"] ELSE sock
  /\ UNCHANGED <<known, user>>

-----------------------------------------------------------------------------
(* Connect.                                                                *)

Listening(to) == {g \in Fds : sock[g].st = "listening" /\ Meets(sock[g].local, to)}

ConnectErrors(fd, to) ==
  IF sock[fd].st = "connected" THEN {"EISCONN"}
  ELSE IF sock[fd].st = "listening" \/ Len(to.name) >= SunPath THEN {"EINVAL"}
  ELSE IF to.name \in Services THEN {"ok"}
  ELSE IF Listening(to) # {} THEN
       CASE \E g \in Listening(to) : Len(sock[g].pend) >= Backlog ->
              IF to.kind = "unix" THEN {"EAGAIN"} ELSE {}
         [] OTHER -> IF to.kind = "unix" THEN {"ok"} ELSE {"ok", "EINPROGRESS"}
  ELSE IF to.kind # "unix" THEN {"ECONNREFUSED", "ENETUNREACH"}
  ELSE {"ECONNREFUSED"} \cup IF \A g \in Fds : sock[g].local # to THEN PathErrors ELSE {}

\* An IP socket without a name gets a port of its own.
Local(fd, to) ==
  IF sock[fd].st = "bound" \/ to.kind = "unix" THEN sock[fd].local
  ELSE Addr(to.kind, to.ip, 100 + MaxFd + fd, <<>>)

SocketConnect(fd, a, bad) ==
  /\ Fits(fd, a)
  /\ ~(sock[fd].st = "bound" /\ Anywhere(sock[fd].local))   \* left out: the host picks an IP
  /\ IF ~InMemory(bad, "addr") THEN Refuse("connect", fd, bad)
     ELSE LET to == Target(UnixSockaddr(Encoded(fd, a))) IN
          \E err \in ConnectErrors(fd, to) :
            /\ Ends(fd, err)
            /\ Reply("connect", fd, bad, err)
            /\ IF err \in {"ok", "EINPROGRESS"}
               THEN /\ sock' = [g \in Fds |->
                         IF g = fd THEN [sock[fd] EXCEPT !.st = "connected", !.peer = to,
                                                         !.local = Local(fd, to)]
                         ELSE IF g \in Listening(to) /\ to.name \notin Services
                              THEN [sock[g] EXCEPT !.pend = Append(@, fd)] ELSE sock[g]]
                    /\ user' = [user EXCEPT ![fd].dialed = a]
               ELSE UNCHANGED <<sock, user>>
            /\ UNCHANGED known

\* The failed write of an address is ignored, that of the descriptor is not.
Answered_Neither(bad) == TRUE                            \* mutant: neither is looked at
Answered(bad) == InMemory(bad, "result")

AcceptError(fd) ==
  IF sock[fd].st # "listening" THEN "EINVAL"
  ELSE IF sock[fd].pend = <<>> THEN "EAGAIN"
  ELSE IF Free = {} THEN "EMFILE" ELSE "ok"

\* The guest's view of a native address: an address of the kind it fills in.
View(fam, sa) == setnetaddr(IF fam = "unix" THEN "unix" ELSE "tcp", rawtosockaddr(Sockaddr(sa)))

SocketAccept(fd, bad) ==
  LET err == AcceptError(fd)
      c == Head(sock[fd].pend) IN
  /\ Ends(fd, err)
  /\ IF err # "ok" THEN Reply("accept", fd, bad, err) /\ UNCHANGED <<sock, known>>
     ELSE /\ sock' = [sock EXCEPT
                ![fd].pend = Tail(@), ![c].mate = NewFd,
                ![NewFd] = [Unused EXCEPT !.st = "connected", !.fam = sock[fd].fam, !.mate = c,
                                          !.local = sock[c].peer, !.peer = sock[c].local]]
          /\ known' = IF InMemory(bad, "result") THEN known \cup {NewFd} ELSE known
          /\ call' = [NoCall EXCEPT !.op = "accept", !.fd = NewFd, !.bad = bad,
                !.addr = IF InMemory(bad, "addr") THEN View(sock[fd].fam, sock[c].local)
                                                   ELSE NoAddr,
                !.told = IF Answered(bad) THEN Told("ok") ELSE TranslateErrno("EFAULT")]
  /\ UNCHANGED user

-----------------------------------------------------------------------------
(* Names.                                                                  *)

\* A native function writes its pointer to the address, not the address.
Pointer == Addr("pointer", <<>>, 0, <<>>)
Name(fd, sa) == IF build = "native" THEN Pointer ELSE View(sock[fd].fam, sa)

SocketLocalAddr(fd, bad) ==
  /\ ReplyWith("localaddr", fd, bad, "ok", Name(fd, sock[fd].local), 0, 0)
  /\ UNCHANGED <<sock, known, user>>

SocketPeerAddr(fd, bad) ==
  LET err == IF sock[fd].st = "connected" THEN "ok" ELSE "ENOTCONN" IN
  /\ ReplyWith("peeraddr", fd, bad, err,
               IF err = "ok" THEN Name(fd, sock[fd].peer) ELSE NoAddr, 0, 0)
  /\ UNCHANGED <<sock, known, user>>

-----------------------------------------------------------------------------
(* Bytes.                                                                  *)

\* A native send gives the address of a unix socket too, which the host refuses.
NativeSendError(fd) == IF sock[fd].st = "connected" THEN "EISCONN" ELSE "EOPNOTSUPP"
SendError(fd) ==
  IF build = "native" /\ sock[fd].fam = "unix" THEN NativeSendError(fd)
  ELSE IF sock[fd].st # "connected" THEN IF sock[fd].fam = "unix" THEN "ENOTCONN" ELSE "EPIPE"
  ELSE IF "wr" \in sock[fd].shut
          \/ (sock[fd].mate # 0 /\ sock[fd].fam = "unix" /\ "rd" \in sock[sock[fd].mate].shut)
       THEN "EPIPE"
  ELSE IF sock[fd].out >= Room THEN "EAGAIN" ELSE "ok"

\* Without the address for a unix socket (network.SendTo).
SocketSendTo(fd, size, bad) ==
  IF ~vectorread(bad) \/ ~InMemory(bad, "addr") THEN Refuse("sendto", fd, bad)
  ELSE LET err == SendError(fd)
           n == IF err # "ok" THEN 0 ELSE IF size <= Room - sock[fd].out THEN size
                ELSE Room - sock[fd].out IN
       /\ Ends(fd, err)
       /\ sock' = [sock EXCEPT ![fd].out = @ + n]
       /\ ReplyWith("sendto", fd, bad, err, NoAddr, IF InMemory(bad, "result") THEN n ELSE 0, n)
       /\ UNCHANGED <<known, user>>

RecvError(fd) ==
  IF sock[fd].st # "connected" THEN IF sock[fd].fam = "unix" THEN "EINVAL" ELSE "ENOTCONN"
  ELSE IF "rd" \in sock[fd].shut THEN "ok"
  ELSE IF sock[fd].mate = 0 \/ (sock[sock[fd].mate].out = 0 /\ "wr" \notin sock[sock[fd].mate].shut)
       THEN "EAGAIN" ELSE "ok"

\* A native receive calls again by itself.
CallsAgain(err) == build = "native" /\ err \in {"EAGAIN", "EINTR"}

\* The address of a sender is a pointer here too: written for a unix peer that has a
\* name, to a buffer that Read does not look at.
SocketRecvFrom(fd, size, bad) ==
  IF ~vectorread(bad) THEN Refuse("recvfrom", fd, bad)
  ELSE LET err == RecvError(fd)
           m == sock[fd].mate
           n == IF err # "ok" \/ m = 0 THEN 0
                ELSE IF size <= sock[m].out THEN size ELSE sock[m].out
           named == n > 0 /\ sock[m].local.name # <<>>
           whole == InMemory(bad, "result") /\ (named => InMemory(bad, "addr")) IN
       /\ Ends(fd, err) /\ ~CallsAgain(err)
       /\ sock' = IF n > 0 THEN [sock EXCEPT ![m].out = @ - n] ELSE sock
       /\ ReplyWith("recvfrom", fd, IF whole THEN bad \ {"addr"} ELSE {"result"}, err,
                    IF named THEN Pointer ELSE NoAddr, IF whole THEN n ELSE 0, n)
       /\ UNCHANGED <<known, user>>

\* The host's numbers: 0, 1, 2 end reading, writing and both, which the guest asks of
\* connections only.
SocketShutdown(fd, how) ==
  LET err == IF how \in 0..2 THEN "ok" ELSE "EINVAL" IN
  /\ sock[fd].st = "connected" \/ how \notin 0..2
  /\ Reply("shutdown", fd, {}, err)
  /\ sock' = IF err # "ok" THEN sock
             ELSE [sock EXCEPT ![fd].shut = @ \cup CASE how = 0 -> {"rd"} [] how = 1 -> {"wr"}
                                                     [] OTHER -> {"rd", "wr"}]
  /\ UNCHANGED <<known, user>>

-----------------------------------------------------------------------------
(* Options.                                                                *)

\* The host reads a timeval or an int, by the option; a native function reads an int
\* for SO_RCVTIMEO, which is too short.
IntOptErrors == {"ok", "ENOPROTOOPT", "EINVAL", "EOPNOTSUPP"}
NativeSetOptErrors(opt) == IF opt = "timeout" THEN {"EINVAL"} ELSE IntOptErrors
SetOptErrors(opt) ==
  IF build = "native" THEN NativeSetOptErrors(opt)
  ELSE IF opt = "timeout" THEN {"ok", "EDOM"} ELSE IntOptErrors

\* SO_LINGER and SO_BINDTODEVICE cannot be read back from a guest.
NativeGetOptErrors == {"ok", "ENOPROTOOPT"}
GetOptErrors(opt) ==
  IF opt = "linger" /\ build = "guest" THEN {"EOPNOTSUPP"} ELSE NativeGetOptErrors

\* SetReuseAddress and SetSockoptBroadcast mean to let two errors pass, but the err that
\* they test is not the one they got: they report none.
Reported(opt, told) == IF opt = "reuse" THEN Numbers.ok ELSE told

SocketSetOpt(fd, opt, bad) ==
  IF ~InMemory(bad, "value") THEN Refuse("setopt", fd, bad)
  ELSE \E err \in SetOptErrors(opt) :
         /\ ReplyWith(opt, fd, {}, err, NoAddr, Reported(opt, Told(err)), 0)
         /\ UNCHANGED <<sock, known, user>>

SocketGetOpt(fd, opt, bad) ==
  IF ~InMemory(bad, "value") THEN Refuse("getopt", fd, bad)
  ELSE \E err \in GetOptErrors(opt) :
         /\ ReplyWith("getopt", fd, {}, err, NoAddr, 0, 0)
         /\ UNCHANGED <<sock, known, user>>

-----------------------------------------------------------------------------
(* Lookups.                                                                *)

networkip(network) ==
  CASE network \in {"tcp", "udp"} -> "ip" [] network \in {"tcp4", "udp4"} -> "ip4"
    [] network \in {"tcp6", "udp6"} -> "ip6" [] OTHER -> ""
netaddr(network, ip, port) ==
  IF network \in {"tcp", "tcp4", "tcp6"} THEN Addr("tcp", ip, port, <<>>)
  ELSE IF network \in {"udp", "udp4", "udp6"} THEN Addr("udp", ip, port, <<>>) ELSE NoAddr

\* The address of no host name: everybody for a listener, this machine for a dial.
EmptyHost(op, network) ==
  LET w == IF op = "listen" THEN 0 ELSE 1 IN
  IF networkip(network) = "ip6" THEN <<0, "zero", w>> ELSE <<0, "ffff", w>>

\* The host's addresses go to the guest as sixteen bytes each (To16), as many as its
\* buffer of maxlen bytes has room for, and then the number of bytes.
IPv6len == 16
To16(ip) == IF Len(ip) = 1 THEN <<0, "ffff", ip[1]>> ELSE ip
Reslength_Whole(found, maxlen) == Len(found)             \* mutant: the size forgotten
Reslength(found, maxlen) ==
  IF Len(found) * IPv6len > maxlen THEN maxlen \div IPv6len ELSE Len(found)
Written(found, maxlen) == [i \in 1..Reslength(found, maxlen) |-> To16(found[i])]
Bytes(buf) == Len(buf) * IPv6len

\* ResolveAddrip walks over them from byte 0 on, sixteen at a time, while i < reslength.
Walk(network, buf, reslength) ==
  [j \in 1..((reslength + IPv6len - 1) \div IPv6len) |-> netaddr(network, buf[j], 1)]

\* What the host finds for a name: the addresses of the family that is asked for, or
\* those of both.
IsIPv4(network, i) ==
  networkip(network) = "ip4" \/ (networkip(network) = "ip" /\ i % 2 = 1)
Found(network, k) == [i \in 1..k |-> IF IsIPv4(network, i) THEN <<i>> ELSE <<i, "zero", i>>]

\* A failed lookup is the host's EINVAL.  A native function writes a pointer to the
\* addresses where the first should be.
AddrIP(network, bad) ==
  \/ call' = [NoCall EXCEPT !.op = "addrip", !.host = "lookup", !.told = Untranslated("EINVAL")]
  \/ \E k \in 1..MaxIPs :
       LET buf == Written(Found(network, k), Slots * IPv6len) IN
       call' = [NoCall EXCEPT !.op = "addrip", !.bad = bad, !.net = network,
         !.found = Found(network, k),
         !.ips = IF ~InMemory(bad, "result") THEN <<>>
                 ELSE IF build = "native" THEN <<Pointer>> ELSE Walk(network, buf, Bytes(buf)),
         !.told = IF InMemory(bad, "result") THEN Guest.ok ELSE TranslateErrno("EFAULT")]

\* ResolveAddrip asks the host for a name only.
SocketAddrIP(op, network, host, bad) ==
  IF host = ""
  THEN /\ call' = [NoCall EXCEPT !.op = "addrip", !.net = network,
                     !.found = <<EmptyHost(op, network)>>,
                     !.ips = <<netaddr(network, EmptyHost(op, network), 1)>>]
       /\ UNCHANGED <<sock, known, user>>
  ELSE IF ~InMemory(bad, "addr") THEN Refuse("addrip", 0, bad)
  ELSE AddrIP(network, bad) /\ UNCHANGED <<sock, known, user>>

\* A lookup that fails without a timeout is no error that Errno knows.
SocketAddrPort(bad) ==
  IF ~InMemory(bad, "addr") THEN Refuse("addrport", 0, bad)
  ELSE \E err \in {"ok", "timeout", "other"} :
         /\ ReplyWith("addrport", 0, bad, err, NoAddr, 0, 0)
         /\ UNCHANGED <<sock, known, user>>

\* ResolvePort asks the host for a service that is no number.
ResolvePort(service, bad) ==
  IF service = "number"
  THEN call' = [NoCall EXCEPT !.op = "addrport", !.n = 1] /\ UNCHANGED <<sock, known, user>>
  ELSE SocketAddrPort(bad)

-----------------------------------------------------------------------------
Nets == {"tcp", "tcp4", "tcp6", "udp4"}
Opts == {"timeout", "linger", "reuse"}

\* The exports of the host module.
OnSocket(fd) ==
  \/ \E a \in Binds, bad \in Bads({"addr"}) : SocketBind(fd, a, bad)
  \/ \E a \in Dials, bad \in Bads({"addr"}) : SocketConnect(fd, a, bad)
  \/ SocketListen(fd)
  \/ \E bad \in Bads({"addr", "result"}) : SocketAccept(fd, bad)
  \/ \E bad \in Bads({"result"}) : SocketLocalAddr(fd, bad) \/ SocketPeerAddr(fd, bad)
  \/ \E size \in 1..Room, bad \in Bads({"iovs", "data", "addr", "result"}) :
        Cardinality(bad) <= 1 /\ (SocketSendTo(fd, size, bad) \/ SocketRecvFrom(fd, size, bad))
  \/ \E how \in 1..3 : SocketShutdown(fd, how)   \* what the wrappers pass
  \/ /\ sock[fd].st = "open"
     /\ \E opt \in Opts, bad \in Bads({"value"}) :
          SocketSetOpt(fd, opt, bad) \/ SocketGetOpt(fd, opt, bad)

Lookup ==
  \/ \E op \in {"listen", "dial"}, network \in Nets, host \in {"", "name"},
       bad \in Bads({"addr", "result"}) : SocketAddrIP(op, network, host, bad)
  \/ \E service \in {"number", "name"}, bad \in Bads({"addr", "result"}) : ResolvePort(service, bad)

\* A call that failed or only asked has changed nothing but call: what may follow it
\* is what could have come in its place.
Changing ==
  /\ call.host \in {"ok", "EINPROGRESS"}
  /\ call.op \notin {"localaddr", "peeraddr", "getopt", "addrip", "addrport"} \cup Opts

\* Bounds: nothing follows a call that changed nothing, and since options and lookups
\* do not depend on what sockets do, there is an option of a new socket and a lookup
\* before the first only.
Next ==
  /\ Alive /\ Changing
  /\ UNCHANGED <<build, kind>>
  /\ \/ \E bad \in Bads({"result"}) : SocketOpen(kind, bad)
     \/ \E fd \in known : OnSocket(fd)
     \/ known = {} /\ Lookup

Spec == Init /\ [][Next]_vars

-----------------------------------------------------------------------------
(* Properties.                                                             *)

\* Every variable keeps its type; in particular each connection waits in one queue.
TypeOK ==
  /\ build \in {"guest", "native"} /\ kind \in DOMAIN Families
  /\ known \subseteq {f \in Fds : sock[f].st # "free"}
  /\ \A f \in Fds :
       /\ sock[f].st \in {"free", "open", "bound", "listening", "connected"}
       /\ sock[f].fam \in DOMAIN Families \cup {"none"}
       /\ sock[f].mate \in Fds \cup {0} /\ sock[f].out \in 0..Room
       /\ Len(sock[f].pend) <= Backlog /\ ToSet(sock[f].pend) \subseteq Fds
       /\ \A g \in Fds \ {f} : ToSet(sock[f].pend) \cap ToSet(sock[g].pend) = {}
       /\ sock[f].shut \subseteq {"rd", "wr"} /\ sock[f].waits \in BOOLEAN
  /\ call.told \in Nat \cup {Panic}

\* An error number that the guest's code branches on (Accept, Read and readMsg call
\* again, dialAddr waits or has connected) reaches it exactly when the host gave that
\* error, or one of its namesakes: the errors that the table lacks and whose numbers are
\* those the guest branches on.
Branches == {"EAGAIN", "EINTR", "EINPROGRESS", "EISCONN"}
BranchMeansItsError ==
  \A e \in Branches :
    call.told = Numbers[e]
      <=> call.host = e \/ (build # "native" /\ call.host \in Namesakes(e))

\* A call that succeeds has told the guest all it did: the descriptor of a socket
\* it made, and every byte it moved.
SuccessIsWhole ==
  call.told = Guest.ok =>
    /\ call.op \in {"open", "accept"} => call.fd \in known
    /\ call.op \in {"sendto", "recvfrom"} => call.n = call.moved

\* getsockname gives back the address that the guest bound, whatever form its IP had,
\* through both codecs, the host and back, and for the port 0 the one that the host
\* picked: a name is never cut to another path, a port never lost.
BoundNameIsKept ==
  build = "guest" /\ call.op = "localaddr" /\ call.told = Guest.ok /\ user[call.fd].bound # NoAddr
    => LET asked == user[call.fd].bound IN
       /\ Same(call.addr, IF Asked(asked) THEN asked
                          ELSE [asked EXCEPT !.port = sock[call.fd].local.port])
       /\ asked.kind = "tcp" => call.addr.port # 0

\* What a name means to the code: a native build takes it as it is.  A guest's is
\* cleaned, and where FSPrefixes begin it (as bytes: "/test" begins "/testing" too) the
\* longest of them, the last of several, is replaced by its host's directory.
Covering(name) == {i \in 1..Len(FSPrefixes) : IsPrefix(FSPrefixes[i].guest, name)}
Reaches(asked, met) ==
  IF build = "native" THEN met = asked
  ELSE IF Covering(asked) = {} THEN met = Clean(asked)
  ELSE \E i \in Covering(asked) :
         /\ \A j \in Covering(asked) : Len(FSPrefixes[j].guest) <= Len(FSPrefixes[i].guest)
         /\ met = Join(FSPrefixes[i].host, Rest(asked, FSPrefixes[i].guest))

\* A connected unix socket has the peer that its name means.
DialReachesItsName ==
  \A f \in Fds :
    LET asked == user[f].dialed.name IN
    asked # <<>> /\ Len(asked) <= NameBuf => Reaches(asked, sock[f].peer.name)

\* Who waits to be accepted dialed a name that means the one its listener bound.  The
\* listener's is a path of the host as it stands, under no FSPrefix: a guest reaches
\* its own listener by the name it bound only where no prefix begins that name.
DialMeetsItsBinder ==
  \A g \in Fds : \A f \in ToSet(sock[g].pend) :
    LET asked == user[f].dialed.name IN
    asked # <<>> /\ Len(asked) <= NameBuf => Reaches(asked, user[g].bound.name)

\* The two ends of a connection name each other: what one is told of its peer is what
\* the other is told of itself.
EndsNameEachOther ==
  (call.op = "accept" \/ (call.op = "peeraddr" /\ build = "guest"))
       /\ call.told = Guest.ok /\ call.bad = {} /\ sock[call.fd].mate # 0
    => LET end == sock[sock[call.fd].mate].local IN
       Same(call.addr, IF end.kind = "unix" /\ end.name = <<>> THEN [end EXCEPT !.name = <<"@">>]
                       ELSE end)

\* A lookup gives the guest the addresses that the host found, in their order and as
\* many as its buffer holds, and each still opens a socket of its own family.
LookupKeepsOrder ==
  call.op = "addrip" /\ call.told = Guest.ok /\ build = "guest" =>
    /\ Len(call.ips) = IF Len(call.found) <= Slots THEN Len(call.found) ELSE Slots
    /\ \A i \in 1..Len(call.ips) :
         LET found == netaddr(call.net, call.found[i], 1) IN
         /\ Same(call.ips[i], found)
         /\ NetaddrAFFamily(call.ips[i]) = NetaddrAFFamily(found)

\* A pointer outside the guest's memory stops a call before it changes the host: only
\* results that cannot be written are an error after the fact.
Inputs(op) == CASE op \in {"bind", "connect"} -> {"addr"}
                [] op = "sendto" -> {"iovs", "data", "addr"}
                [] op = "recvfrom" -> {"iovs", "data"} [] OTHER -> {}
InputsFirst ==
  [][call'.bad \cap Inputs(call'.op) # {} => UNCHANGED <<sock, known, user>>]_vars
=============================================================================
