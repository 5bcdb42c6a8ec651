------------------------------ MODULE Address ------------------------------
(***************************************************************************)
(* Socket addresses on their way between a net.Addr of the guest, the      *)
(* RawSocketAddress in its memory and a unix.Sockaddr of the host.         *)
(*                                                                         *)
(* An IP address is a tuple: <<w>> has four bytes, <<h, m, t>> has sixteen *)
(* (its first four, the middle eight, its last four), and is IPv4-mapped   *)
(* when h = 0 and m = "ffff".  A raw address is read through the layout of *)
(* its family, whichever layout it was written with: both put the port and *)
(* then the IP's bytes at the same place, in a buffer of zeros.  A unix    *)
(* name is a sequence of bytes.  Zones are left out: every conversion to   *)
(* the host drops them.                                                    *)
(***************************************************************************)
EXTENDS Integers, Sequences

CONSTANT NameBuf     \* the length of a name that a raw address can hold (122)

ASSUME AddressAssumption == NameBuf \in Nat \ {0}

\* The address families: numbers of WASI, and what the host calls them.
WASI == [UNIX |-> 1, INET |-> 2, INET6 |-> 3]
DetermineHostAFFamily(wasi) ==
  CASE wasi = 3 -> 10 [] wasi = 2 -> 2 [] wasi = 1 -> 1 [] OTHER -> 0
AF == [f \in DOMAIN WASI |-> DetermineHostAFFamily(WASI[f])]

\* net.IP.To4, <<>> standing for nil.
To4(ip) ==
  IF Len(ip) = 1 THEN ip
  ELSE IF Len(ip) = 3 /\ ip[1] = 0 /\ ip[2] = "ffff" THEN <<ip[3]>> ELSE <<>>

\* A net.Addr of the guest, and a unix.Sockaddr (kind "inet", "inet6" or "unix").
Addr(kind, ip, port, name) == [kind |-> kind, ip |-> ip, port |-> port, name |-> name]
NoAddr == Addr("none", <<>>, 0, <<>>)

\* addressany.Sockaddr copies itself into a zeroed buffer of 126 bytes, its own family
\* and type (four bytes) before the address: a name is cut where those leave no room.
Raw(family, ip, port, name) ==
  [family |-> family, port |-> port,
   bytes |-> IF Len(ip) = 1 THEN <<ip[1], "zero", 0>> ELSE ip,
   name |-> SubSeq(name, 1, IF Len(name) <= NameBuf THEN Len(name) ELSE NameBuf)]
ZeroIP == <<0, "zero", 0>>
ZeroRaw == Raw(0, ZeroIP, 0, <<>>)
NoRaw == Raw(-1, ZeroIP, 0, <<>>)     \* an error instead

-----------------------------------------------------------------------------
(* The guest's side.                                                       *)

\* The family is the caller's, the layout is the address's.
NetaddrToRaw_As16(family, addr) ==               \* mutant: To4 forgotten
  IF addr.kind = "unix" THEN Raw(family, ZeroIP, 0, addr.name)
  ELSE IF Len(addr.ip) = 3 THEN Raw(family, addr.ip, addr.port, <<>>)
  ELSE NoRaw
NetaddrToRaw(family, addr) ==
  IF addr.kind = "unix" THEN Raw(family, ZeroIP, 0, addr.name)
  ELSE IF To4(addr.ip) # <<>> THEN Raw(family, To4(addr.ip), addr.port, <<>>)
  ELSE IF Len(addr.ip) = 3 THEN Raw(family, addr.ip, addr.port, <<>>)
  ELSE NoRaw

\* An invalid AddrPort is written as sixteen zero bytes.
NetipAddrPortToRaw_As16(family, ip, port) ==     \* mutant: Is4In6 forgotten
  IF Len(ip) = 1 THEN Raw(family, ip, port, <<>>)
  ELSE Raw(family, IF ip = <<>> THEN ZeroIP ELSE ip, port, <<>>)
NetipAddrPortToRaw(family, ip, port) ==
  IF To4(ip) # <<>> THEN Raw(family, To4(ip), port, <<>>)
  ELSE Raw(family, IF ip = <<>> THEN ZeroIP ELSE ip, port, <<>>)

NetaddrAFFamily(addr) ==
  IF addr.kind = "unix" THEN AF.UNIX
  ELSE IF addr.kind \in {"tcp", "udp", "ip"} /\ To4(addr.ip) = <<>> THEN AF.INET6
  ELSE AF.INET

\* Which layout a family means; NoAddr where the code says ENOTSUP.
Layout(families, raw) ==
  CASE raw.family = families.INET  -> Addr("inet", <<raw.bytes[1]>>, raw.port, <<>>)
    [] raw.family = families.INET6 -> Addr("inet6", raw.bytes, raw.port, <<>>)
    [] raw.family = families.UNIX  -> Addr("unix", <<>>, 0, raw.name)
    [] OTHER -> NoAddr

\* The guest asked the host for its families when it started.
rawtosockaddr(raw) == Layout(AF, raw)

\* Each of these reads what it knows, and answers NoAddr (EINVAL, nil) to the rest.
As(kind, kinds, sa) ==
  IF sa.kind \in kinds THEN Addr(kind, sa.ip, sa.port, sa.name) ELSE NoAddr
NetUnix(raw)       == As("unix", {"unix"}, rawtosockaddr(raw))
UDPAddr(raw)       == As("udp", {"inet"}, rawtosockaddr(raw))
Netipaddrport(raw) == As("udp", {"inet", "inet6"}, rawtosockaddr(raw))
tcpNetAddr(sa)  == As("tcp", {"inet", "inet6"}, sa)
udpNetAddr(sa)  == As("udp", {"inet", "inet6"}, sa)
ipNetAddr(sa)   == [As("ip", {"inet", "inet6"}, sa) EXCEPT !.port = 0]
unixNetAddr(sa) == As("unix", {"unix"}, sa)

\* The kind of an address that is filled in decides how the host's answer is read.
setnetaddr(kind, sa) ==
  CASE kind = "tcp" -> tcpNetAddr(sa) [] kind = "udp" -> udpNetAddr(sa)
    [] kind = "ip" -> ipNetAddr(sa) [] kind = "unix" -> unixNetAddr(sa)
    [] OTHER -> NoAddr

-----------------------------------------------------------------------------
(* The host's side.                                                        *)

HostAF == [UNIX |-> 1, INET |-> 2, INET6 |-> 10]
UnixSockaddr(raw) == Layout(HostAF, raw)

\* An unnamed unix socket is "@" to the guest.
Sockaddr_NoPort(sa) ==                            \* mutant: the port is left out
  CASE sa.kind = "inet"  -> Raw(HostAF.INET, sa.ip, 0, <<>>)
    [] sa.kind = "inet6" -> Raw(HostAF.INET6, sa.ip, sa.port, <<>>)
    [] sa.kind = "unix"  -> Raw(HostAF.UNIX, ZeroIP, 0, IF sa.name = <<>> THEN <<"@">> ELSE sa.name)
    [] OTHER -> NoRaw
Sockaddr(sa) ==
  CASE sa.kind = "inet"  -> Raw(HostAF.INET, sa.ip, sa.port, <<>>)
    [] sa.kind = "inet6" -> Raw(HostAF.INET6, sa.ip, sa.port, <<>>)
    [] sa.kind = "unix"  -> Raw(HostAF.UNIX, ZeroIP, 0, IF sa.name = <<>> THEN <<"@">> ELSE sa.name)
    [] OTHER -> NoRaw

\* Two addresses that mean the same: net.IP.Equal, and ports and names.
Same(a, b) ==
  /\ a.port = b.port /\ a.name = b.name
  /\ a.ip = b.ip \/ (To4(a.ip) # <<>> /\ To4(a.ip) = To4(b.ip))
=============================================================================
