--------------------------- MODULE HostNameProofs ---------------------------
(***************************************************************************)
(* Theorems about the names of the host's sockets, for any addresses that  *)
(* the guest binds and dials, any prefixes and any host: what a socket is  *)
(* called on its way through both codecs, the host and back.               *)
(***************************************************************************)
EXTENDS HostCallProofs

-----------------------------------------------------------------------------
(* The codecs.                                                             *)

\* An address as the host has it for a socket of family k.
NamedAs(k, sa) ==
  /\ sa.kind = k
  /\ \/ /\ k = "unix" /\ sa.ip = <<>> /\ sa.port = 0
        /\ sa.name \in Seq(STRING) /\ Len(sa.name) <= NameBuf
     \/ k = "inet" /\ sa.ip = <<sa.ip[1]>> /\ sa.name = <<>>
     \/ k = "inet6" /\ sa.ip = <<sa.ip[1], sa.ip[2], sa.ip[3]>> /\ sa.name = <<>>

LEMMA FamilyNumbers ==
  /\ AF.UNIX = 1 /\ AF.INET = 2 /\ AF.INET6 = 10
  /\ HostAF.UNIX = 1 /\ HostAF.INET = 2 /\ HostAF.INET6 = 10
  /\ Families["unix"] = 1 /\ Families["inet"] = 2 /\ Families["inet6"] = 10
  /\ DOMAIN Families = {"unix", "inet", "inet6"}
  BY DEF AF, WASI, DetermineHostAFFamily, HostAF, Families

LEMMA FamilyOfNumber ==
  ASSUME NEW k \in DOMAIN Families
  PROVE  /\ k \in {"unix", "inet", "inet6"}
         /\ Families[k] = 1 => k = "unix"
         /\ Families[k] = 2 => k = "inet"
         /\ Families[k] = 10 => k = "inet6"
  BY FamilyNumbers DEF Families

LEMMA TupleLengths ==
  /\ \A x : Len(<<x>>) = 1 /\ <<x>>[1] = x
  /\ \A x, y, z : Len(<<x, y, z>>) = 3
  /\ Len(<<>>) = 0
  OBVIOUS

\* A raw address holds as much of a name as fits.
Kept(name) == SubSeq(name, 1, IF Len(name) <= NameBuf THEN Len(name) ELSE NameBuf)

LEMMA KeptName ==
  ASSUME NEW T, NEW name \in Seq(T)
  PROVE  /\ Kept(name) \in Seq(T) /\ Len(Kept(name)) <= NameBuf
         /\ Len(name) <= NameBuf => Kept(name) = name
         /\ Len(Kept(name)) < NameBuf => Kept(name) = name
<1> DEFINE n == IF Len(name) <= NameBuf THEN Len(name) ELSE NameBuf
<1>1. Len(name) \in Nat /\ NameBuf \in Nat
  BY LenProperties, AddressAssumption
<1>2. n \in Nat /\ n <= Len(name) /\ n <= NameBuf
  BY <1>1
<1>3. Kept(name) = SubSeq(name, 1, n)
  BY DEF Kept
<1>4. \A i \in 1..n : name[i] \in T
  BY <1>1, <1>2, ElementOfSeq
<1> HIDE DEF n
<1>5. Kept(name) \in Seq(T) /\ Len(Kept(name)) = IF 1 <= n THEN n - 1 + 1 ELSE 0
  BY <1>2, <1>3, <1>4, SubSeqProperties
<1>6. Len(Kept(name)) = n
  BY <1>2, <1>5
<1>7. n = Len(name) => Kept(name) = name
  BY <1>3, SubSeqFull
<1>8. Len(name) <= NameBuf => n = Len(name)
  BY DEF n
<1>9. n < NameBuf => n = Len(name)
  BY <1>1 DEF n
<1>10. QED
  BY <1>2, <1>5, <1>6, <1>7, <1>8, <1>9

LEMMA UnixEncoded ==
  ASSUME NEW a, a.kind = "unix"
  PROVE  UnixSockaddr(NetaddrToRaw(1, a)) = Addr("unix", <<>>, 0, Kept(a.name))
<1>1. NetaddrToRaw(1, a) = Raw(1, ZeroIP, 0, a.name)
  BY DEF NetaddrToRaw
<1>2. NetaddrToRaw(1, a).family = 1 /\ NetaddrToRaw(1, a).name = Kept(a.name)
  BY <1>1 DEF Raw, Kept
<1>3. QED
  BY <1>2, FamilyNumbers DEF UnixSockaddr, Layout

LEMMA IPv4Encoded ==
  ASSUME NEW a, a.kind = "tcp", To4(a.ip) = <<To4(a.ip)[1]>>
  PROVE  UnixSockaddr(NetaddrToRaw(2, a)) = Addr("inet", To4(a.ip), a.port, <<>>)
<1> DEFINE ip == To4(a.ip)
<1>1. ip # <<>> /\ Len(ip) = 1
  BY TupleLengths
<1>2. NetaddrToRaw(2, a) = Raw(2, ip, a.port, <<>>)
  BY <1>1 DEF NetaddrToRaw
<1> HIDE DEF ip
<1>3. /\ NetaddrToRaw(2, a).family = 2 /\ NetaddrToRaw(2, a).port = a.port
      /\ NetaddrToRaw(2, a).bytes = <<ip[1], "zero", 0>>
  BY <1>1, <1>2 DEF Raw
<1>4. UnixSockaddr(NetaddrToRaw(2, a)) = Addr("inet", <<ip[1]>>, a.port, <<>>)
  BY <1>3, FamilyNumbers DEF UnixSockaddr, Layout
<1>5. QED
  BY <1>4 DEF ip

LEMMA IPv6Encoded ==
  ASSUME NEW a, a.kind = "tcp", To4(a.ip) = <<>>, Len(a.ip) = 3
  PROVE  UnixSockaddr(NetaddrToRaw(10, a)) = Addr("inet6", a.ip, a.port, <<>>)
<1>1. NetaddrToRaw(10, a) = Raw(10, a.ip, a.port, <<>>)
  BY DEF NetaddrToRaw
<1>2. /\ NetaddrToRaw(10, a).family = 10 /\ NetaddrToRaw(10, a).port = a.port
      /\ NetaddrToRaw(10, a).bytes = a.ip
  BY <1>1 DEF Raw
<1>3. QED
  BY <1>2, FamilyNumbers DEF UnixSockaddr, Layout

LEMMA To4Forms ==
  ASSUME NEW ip, ip = <<ip[1]>> \/ ip = <<ip[1], ip[2], ip[3]>>
  PROVE  \/ To4(ip) = <<To4(ip)[1]>>
         \/ To4(ip) = <<>> /\ Len(ip) = 3 /\ ip = <<ip[1], ip[2], ip[3]>>
<1>1. CASE ip = <<ip[1]>>
  <2>1. PICK x : ip = <<x>>
    BY <1>1
  <2>2. Len(<<x>>) = 1
    BY TupleLengths
  <2>3. To4(<<x>>) = <<x>>
    BY <2>2 DEF To4
  <2>4. To4(<<x>>) = <<To4(<<x>>)[1]>>
    BY <2>3
  <2>5. QED
    BY <2>1, <2>4, Zenon
<1>2. CASE ip = <<ip[1], ip[2], ip[3]>>
  <2>1. PICK x, y, z : ip = <<x, y, z>>
    BY <1>2
  <2>2. Len(<<x, y, z>>) = 3
    BY TupleLengths
  <2>3. Len(ip) = 3
    BY <2>1, <2>2, Zenon
  <2>4. To4(ip) = IF ip[1] = 0 /\ ip[2] = "ffff" THEN <<ip[3]>> ELSE <<>>
    BY <2>3 DEF To4
  <2>5. CASE ip[1] = 0 /\ ip[2] = "ffff"
    BY <2>4, <2>5
  <2>6. CASE ~(ip[1] = 0 /\ ip[2] = "ffff")
    <3>1. To4(ip) = <<>>
      BY <2>4, <2>6
    <3>2. QED
      BY <1>2, <2>3, <3>1, Zenon
  <2>7. QED
    BY <2>5, <2>6
<1>3. QED
  BY <1>1, <1>2

\* What the host gets of an address whose family is that of the socket.
Native(k, a) == UnixSockaddr(NetaddrToRaw(Families[k], a))

LEMMA StreamForms ==
  ASSUME NEW a, StreamAddr(a)
  PROVE  \/ /\ a.kind = "tcp" /\ a.name = <<>>
            /\ a.ip = <<a.ip[1]>> \/ a.ip = <<a.ip[1], a.ip[2], a.ip[3]>>
         \/ a.kind = "unix" /\ a.ip = <<>> /\ a.port = 0 /\ a.name \in Seq(STRING)
<1>1. CASE /\ a = Addr("tcp", a.ip, a.port, <<>>)
           /\ a.ip = <<a.ip[1]>> \/ a.ip = <<a.ip[1], a.ip[2], a.ip[3]>>
  <2>1. a.kind = "tcp" /\ a.name = <<>>
    BY <1>1 DEF Addr
  <2>2. QED
    BY <1>1, <2>1
<1>2. CASE a = Addr("unix", <<>>, 0, a.name) /\ a.name \in Seq(STRING)
  <2>1. a.kind = "unix" /\ a.ip = <<>> /\ a.port = 0
    BY <1>2 DEF Addr
  <2>2. QED
    BY <1>2, <2>1
<1>3. QED
  BY <1>1, <1>2 DEF StreamAddr

LEMMA NativeForms ==
  ASSUME NEW k \in DOMAIN Families, NEW a, StreamAddr(a), NetaddrAFFamily(a) = Families[k]
  PROVE  \/ /\ k = "unix" /\ a.kind = "unix" /\ a.name \in Seq(STRING)
            /\ Native(k, a) = Addr("unix", <<>>, 0, Kept(a.name))
         \/ /\ k = "inet" /\ a.kind = "tcp" /\ To4(a.ip) = <<To4(a.ip)[1]>>
            /\ Native(k, a) = Addr("inet", To4(a.ip), a.port, <<>>)
         \/ /\ k = "inet6" /\ a.kind = "tcp" /\ a.ip = <<a.ip[1], a.ip[2], a.ip[3]>>
            /\ Native(k, a) = Addr("inet6", a.ip, a.port, <<>>)
<1>1. CASE a.kind = "unix"
  <2>1. NetaddrAFFamily(a) = 1
    BY <1>1, FamilyNumbers DEF NetaddrAFFamily
  <2>2. k = "unix"
    BY <2>1, FamilyOfNumber
  <2>3. QED
    BY <1>1, <2>2, FamilyNumbers, UnixEncoded, StreamForms DEF Native
<1>2. CASE a.kind = "tcp" /\ To4(a.ip) = <<To4(a.ip)[1]>>
  <2>1. To4(a.ip) # <<>>
    BY <1>2, TupleLengths
  <2>2. NetaddrAFFamily(a) = 2
    BY <1>2, <2>1, FamilyNumbers DEF NetaddrAFFamily
  <2>3. k = "inet"
    BY <2>2, FamilyOfNumber
  <2>4. QED
    BY <1>2, <2>3, FamilyNumbers, IPv4Encoded DEF Native
<1>3. CASE /\ a.kind = "tcp" /\ To4(a.ip) = <<>>
           /\ Len(a.ip) = 3 /\ a.ip = <<a.ip[1], a.ip[2], a.ip[3]>>
  <2>1. NetaddrAFFamily(a) = 10
    BY <1>3, FamilyNumbers DEF NetaddrAFFamily
  <2>2. k = "inet6"
    BY <2>1, FamilyOfNumber
  <2>3. QED
    BY <1>3, <2>2, FamilyNumbers, IPv6Encoded DEF Native
<1>4. QED
  BY <1>1, <1>2, <1>3, To4Forms, StreamForms

LEMMA NativeNamed ==
  ASSUME NEW k \in DOMAIN Families, NEW a, StreamAddr(a), NetaddrAFFamily(a) = Families[k]
  PROVE  NamedAs(k, Native(k, a))
<1>1. CASE /\ k = "unix" /\ a.name \in Seq(STRING)
           /\ Native(k, a) = Addr("unix", <<>>, 0, Kept(a.name))
  BY <1>1, KeptName DEF NamedAs, Addr
<1>2. CASE k = "inet" /\ To4(a.ip) = <<To4(a.ip)[1]>>
           /\ Native(k, a) = Addr("inet", To4(a.ip), a.port, <<>>)
  BY <1>2 DEF NamedAs, Addr
<1>3. CASE k = "inet6" /\ a.ip = <<a.ip[1], a.ip[2], a.ip[3]>>
           /\ Native(k, a) = Addr("inet6", a.ip, a.port, <<>>)
  BY <1>3 DEF NamedAs, Addr
<1>4. QED
  BY <1>1, <1>2, <1>3, NativeForms

-----------------------------------------------------------------------------
(* The way back.                                                           *)

\* What the guest calls a socket that the host has under sa.
Seen(sa) == IF sa.kind = "unix" /\ sa.name = <<>> THEN [sa EXCEPT !.name = <<"@">>] ELSE sa

LEMMA UnixViewed ==
  ASSUME NEW sa, NamedAs("unix", sa)
  PROVE  View("unix", sa) = Addr("unix", <<>>, 0, IF sa.name = <<>> THEN <<"@">> ELSE sa.name)
<1> DEFINE name == IF sa.name = <<>> THEN <<"@">> ELSE sa.name
           T == STRING \cup {"@"}
<1>1. sa.kind = "unix" /\ sa.name \in Seq(STRING) /\ Len(sa.name) <= NameBuf
  BY DEF NamedAs
<1>2. name \in Seq(T) /\ Len(name) <= NameBuf
  <2>1. <<"@">> \in Seq(T) /\ Len(<<"@">>) = 1
    OBVIOUS
  <2>2. NameBuf \in Nat \ {0}
    BY AddressAssumption
  <2>3. 1 <= NameBuf
    BY <2>2
  <2>4. sa.name \in Seq(T)
    BY <1>1, SeqMonotonic
  <2>5. QED
    BY <1>1, <2>1, <2>3, <2>4
<1>3. Sockaddr(sa) = Raw(1, ZeroIP, 0, name)
  <2>1. Sockaddr(sa) = Raw(HostAF.UNIX, ZeroIP, 0, name)
    BY <1>1 DEF Sockaddr
  <2>2. QED
    BY <2>1, FamilyNumbers
<1> HIDE DEF name
<1>4. Sockaddr(sa).family = 1 /\ Sockaddr(sa).name = Kept(name)
  <2>1. \A n : Raw(1, ZeroIP, 0, n).family = 1 /\ Raw(1, ZeroIP, 0, n).name = Kept(n)
    BY DEF Raw, Kept
  <2>2. QED
    BY <1>3, <2>1, Zenon
<1>5. Kept(name) = name
  BY <1>2, KeptName
<1>6. rawtosockaddr(Sockaddr(sa)) = Addr("unix", <<>>, 0, name)
  BY <1>4, <1>5, FamilyNumbers DEF rawtosockaddr, Layout
<1>7. View("unix", sa) = Addr("unix", <<>>, 0, name)
  BY <1>6 DEF View, setnetaddr, unixNetAddr, As, Addr
<1>8. QED
  BY <1>7 DEF name

LEMMA IPv4Viewed ==
  ASSUME NEW sa, NamedAs("inet", sa)
  PROVE  View("inet", sa) = Addr("tcp", sa.ip, sa.port, <<>>)
<1>1. sa.kind = "inet" /\ sa.ip = <<sa.ip[1]>> /\ Len(sa.ip) = 1
  BY TupleLengths DEF NamedAs
<1>2. Sockaddr(sa) = Raw(2, sa.ip, sa.port, <<>>)
  BY <1>1, FamilyNumbers DEF Sockaddr
<1>3. /\ Sockaddr(sa).family = 2 /\ Sockaddr(sa).port = sa.port
      /\ Sockaddr(sa).bytes = <<sa.ip[1], "zero", 0>>
  BY <1>1, <1>2 DEF Raw
<1>4. rawtosockaddr(Sockaddr(sa)) = Addr("inet", <<sa.ip[1]>>, sa.port, <<>>)
  BY <1>3, FamilyNumbers DEF rawtosockaddr, Layout
<1>5. View("inet", sa) = Addr("tcp", <<sa.ip[1]>>, sa.port, <<>>)
  BY <1>4 DEF View, setnetaddr, tcpNetAddr, As, Addr
<1>6. QED
  BY <1>1, <1>5

LEMMA IPv6Viewed ==
  ASSUME NEW sa, NamedAs("inet6", sa)
  PROVE  View("inet6", sa) = Addr("tcp", sa.ip, sa.port, <<>>)
<1>1. sa.kind = "inet6" /\ sa.ip = <<sa.ip[1], sa.ip[2], sa.ip[3]>>
  BY DEF NamedAs
<1>2. Len(sa.ip) = 3
  BY <1>1, TupleLengths
<1>3. Sockaddr(sa) = Raw(10, sa.ip, sa.port, <<>>)
  BY <1>1, FamilyNumbers DEF Sockaddr
<1>4. Sockaddr(sa).family = 10 /\ Sockaddr(sa).port = sa.port /\ Sockaddr(sa).bytes = sa.ip
  BY <1>2, <1>3 DEF Raw
<1>5. rawtosockaddr(Sockaddr(sa)) = Addr("inet6", sa.ip, sa.port, <<>>)
  BY <1>4, FamilyNumbers DEF rawtosockaddr, Layout
<1>6. QED
  BY <1>5 DEF View, setnetaddr, tcpNetAddr, As, Addr

\* The guest is told the address that the host has.
LEMMA ViewIsSame ==
  ASSUME NEW k \in DOMAIN Families, NEW sa, NamedAs(k, sa)
  PROVE  Same(View(k, sa), Seen(sa))
<1>1. CASE k = "unix"
  <2>1. View(k, sa) = Addr("unix", <<>>, 0, IF sa.name = <<>> THEN <<"@">> ELSE sa.name)
    BY <1>1, UnixViewed
  <2>2. sa.kind = "unix" /\ sa.ip = <<>> /\ sa.port = 0
    BY <1>1 DEF NamedAs
  <2>3. QED
    BY <2>1, <2>2 DEF Same, Seen, Addr
<1>2. CASE k \in {"inet", "inet6"}
  <2>1. View(k, sa) = Addr("tcp", sa.ip, sa.port, <<>>)
    BY <1>2, IPv4Viewed, IPv6Viewed
  <2>2. sa.kind # "unix" /\ sa.name = <<>>
    BY <1>2 DEF NamedAs
  <2>3. QED
    BY <2>1, <2>2 DEF Same, Seen, Addr
<1>3. QED
  BY <1>1, <1>2, FamilyOfNumber

\* It is told the address that it gave, when the host has taken all of it.
THEOREM RoundTrip ==
  ASSUME NEW k \in DOMAIN Families, NEW a, StreamAddr(a), NetaddrAFFamily(a) = Families[k],
         a.kind = "unix" => a.name # <<>> /\ Len(Native(k, a).name) < NameBuf
  PROVE  Same(View(k, Native(k, a)), a)
<1> DEFINE sa == Native(k, a)
<1>1. NamedAs(k, sa)
  BY NativeNamed
<1>2. CASE k = "unix" /\ a.kind = "unix" /\ a.name \in Seq(STRING)
           /\ sa = Addr("unix", <<>>, 0, Kept(a.name))
  <2>1. sa.name = Kept(a.name)
    BY <1>2 DEF Addr
  <2>2. sa.name = a.name /\ a.name # <<>>
    BY <1>2, <2>1, KeptName
  <2>3. View(k, sa) = Addr("unix", <<>>, 0, a.name)
    BY <1>1, <1>2, <2>2, UnixViewed
  <2>4. a.ip = <<>> /\ a.port = 0
    BY <1>2, StreamForms
  <2>5. QED
    BY <2>3, <2>4 DEF Same, Addr
<1>3. CASE k = "inet" /\ a.kind = "tcp" /\ To4(a.ip) = <<To4(a.ip)[1]>>
           /\ sa = Addr("inet", To4(a.ip), a.port, <<>>)
  <2>1. View(k, sa) = Addr("tcp", sa.ip, sa.port, <<>>)
    BY <1>1, <1>3, IPv4Viewed
  <2>2. View(k, sa) = Addr("tcp", To4(a.ip), a.port, <<>>)
    BY <1>3, <2>1 DEF Addr
  <2>3. To4(a.ip) # <<>> /\ To4(To4(a.ip)) = To4(a.ip)
    <3>1. Len(To4(a.ip)) = 1 /\ To4(a.ip) # <<>>
      BY <1>3, TupleLengths
    <3>2. \A ip : Len(ip) = 1 => To4(ip) = ip
      BY DEF To4
    <3>3. QED
      BY <3>1, <3>2
  <2>4. a.name = <<>>
    BY <1>3, StreamForms
  <2>5. QED
    BY <2>2, <2>3, <2>4 DEF Same, Addr
<1>4. CASE k = "inet6" /\ a.kind = "tcp" /\ sa = Addr("inet6", a.ip, a.port, <<>>)
  <2>1. View(k, sa) = Addr("tcp", sa.ip, sa.port, <<>>)
    BY <1>1, <1>4, IPv6Viewed
  <2>2. View(k, sa) = Addr("tcp", a.ip, a.port, <<>>)
    BY <1>4, <2>1 DEF Addr
  <2>3. a.name = <<>>
    BY <1>4, StreamForms
  <2>4. QED
    BY <2>2, <2>3 DEF Same, Addr
<1>5. QED
  BY <1>2, <1>3, <1>4, NativeForms

-----------------------------------------------------------------------------
(* The prefixes.                                                           *)

\* Induction over the numbers, for a set of them.
LEMMA Induction ==
  ASSUME NEW S, 0 \in S, \A n \in Nat : n \in S => n + 1 \in S
  PROVE  Nat \subseteq S
<1> SUFFICES ASSUME Nat \ S # {} PROVE FALSE
  OBVIOUS
<1>1. PICK n \in Nat \ S : \A m \in Nat \ S : <<m, n>> \notin OpToRel(<, Nat)
  BY NatLessThanWellFounded, WFMin
<1>2. n \in Nat /\ n # 0 /\ n - 1 \in Nat /\ n - 1 < n
  <2>1. n \in Nat /\ n \notin S
    OBVIOUS
  <2>2. n # 0
    BY <2>1
  <2>3. QED
    BY <2>1, <2>2
<1>3. n - 1 \notin S
  <2>1. (n - 1) + 1 = n
    BY <1>2
  <2>2. QED
    BY <1>1, <1>2, <2>1
<1>4. <<n - 1, n>> \in OpToRel(<, Nat)
  BY <1>2 DEF OpToRel
<1>5. QED
  BY <1>1, <1>2, <1>3, <1>4

\* One turn of the loop over the prefixes, and what it starts with.
Longer(name, best, m) ==
  IF IsPrefix(m.guest, name) /\ Len(m.guest) >= Len(best.guest) THEN m ELSE best
NoPrefix == [guest |-> <<>>, host |-> <<>>]

\* The fold is a function over sets of turns: what the last of them makes of the others.
Turn(name, fold, s) ==
  IF s = {} THEN NoPrefix ELSE Longer(name, fold[s \ {Max(s)}], FSPrefixes[Max(s)])
IsFold(name, fold, n) == fold = [s \in SUBSET (1..n) |-> Turn(name, fold, s)]

LEMMA BestIsFold ==
  ASSUME NEW name
  PROVE  Best(name) =
           (CHOOSE fold : fold = [s \in SUBSET (DOMAIN FSPrefixes) |-> Turn(name, fold, s)])
             [DOMAIN FSPrefixes]
  BY DEF Best, FoldLeft, MapThenFoldSet, Turn, Longer, NoPrefix

\* The largest of a set of numbers that has its bound in it.
LEMMA MaxIsBound ==
  ASSUME NEW n \in Nat, NEW s \in SUBSET (1..n), n \in s
  PROVE  Max(s) = n
<1>1. \A y \in s : n >= y
  OBVIOUS
<1>2. \A x \in s : (\A y \in s : x >= y) => x = n
  OBVIOUS
<1>3. QED
  BY <1>1, <1>2 DEF Max

\* There is such a function for any number of turns.
LEMMA FoldExists ==
  ASSUME NEW name, NEW n \in Nat
  PROVE  \E fold : IsFold(name, fold, n)
<1> DEFINE S == {k \in Nat : \E fold : IsFold(name, fold, k)}
<1>1. 0 \in S
  <2> DEFINE f == [s \in SUBSET (1..0) |-> NoPrefix]
  <2>1. \A s \in SUBSET (1..0) : s = {}
    OBVIOUS
  <2>2. \A s \in SUBSET (1..0) : Turn(name, f, s) = NoPrefix
    BY <2>1 DEF Turn
  <2>3. f = [s \in SUBSET (1..0) |-> Turn(name, f, s)]
    BY <2>2
  <2> HIDE DEF f
  <2>4. QED
    BY <2>3 DEF IsFold
<1>2. ASSUME NEW k \in Nat, k \in S PROVE k + 1 \in S
  <2>1. PICK f : IsFold(name, f, k)
    BY <1>2
  <2> DEFINE last(s) == Longer(name, f[s \ {k + 1}], FSPrefixes[k + 1])
             g == [s \in SUBSET (1..(k + 1)) |-> IF k + 1 \in s THEN last(s) ELSE f[s]]
  <2>2. ASSUME NEW s \in SUBSET (1..(k + 1)) PROVE g[s] = Turn(name, g, s)
    <3>1. CASE k + 1 \in s
      <4>1. Max(s) = k + 1 /\ s # {}
        BY <3>1, MaxIsBound
      <4>2. s \ {k + 1} \in SUBSET (1..(k + 1)) /\ k + 1 \notin s \ {k + 1}
        OBVIOUS
      <4>3. g[s \ {k + 1}] = f[s \ {k + 1}]
        BY <4>2
      <4>4. g[s] = last(s)
        BY <3>1
      <4> HIDE DEF g
      <4>5. QED
        BY <4>1, <4>3, <4>4 DEF Turn
    <3>2. CASE k + 1 \notin s
      <4>1. s \in SUBSET (1..k)
        BY <3>2
      <4>2. g[s] = f[s]
        BY <3>2
      <4>3. f[s] = Turn(name, f, s)
        BY <2>1, <4>1 DEF IsFold
      <4>4. s # {} => g[s \ {Max(s)}] = f[s \ {Max(s)}]
        BY <3>2
      <4> HIDE DEF g
      <4>5. QED
        BY <4>2, <4>3, <4>4 DEF Turn
    <3>3. QED
      BY <3>1, <3>2
  <2>3. g = [s \in SUBSET (1..(k + 1)) |-> Turn(name, g, s)]
    <3>1. g = [s \in SUBSET (1..(k + 1)) |-> g[s]]
      OBVIOUS
    <3> HIDE DEF g
    <3>2. QED
      BY <2>2, <3>1
  <2> HIDE DEF g
  <2>4. QED
    BY <2>3 DEF IsFold
<1>3. Nat \subseteq S
  <2> HIDE DEF S
  <2>1. QED
    BY <1>1, <1>2, Induction
<1>4. QED
  BY <1>3

LEMMA PrefixTypes ==
  /\ Len(FSPrefixes) \in Nat /\ DOMAIN FSPrefixes = 1..Len(FSPrefixes)
  /\ \A i \in 1..Len(FSPrefixes) :
       /\ FSPrefixes[i].guest \in Seq(STRING) /\ Len(FSPrefixes[i].guest) \in Nat
       /\ FSPrefixes[i].host \in Seq(STRING)
<1>1. FSPrefixes \in Seq([guest : Seq(STRING), host : Seq(STRING)])
  BY NamesAssumption
<1>2. Len(FSPrefixes) \in Nat /\ DOMAIN FSPrefixes = 1..Len(FSPrefixes)
  BY <1>1, LenProperties
<1>3. ASSUME NEW i \in 1..Len(FSPrefixes)
      PROVE  FSPrefixes[i].guest \in Seq(STRING) /\ FSPrefixes[i].host \in Seq(STRING)
  <2>1. FSPrefixes[i] \in [guest : Seq(STRING), host : Seq(STRING)]
    BY <1>1, ElementOfSeq
  <2>2. QED
    BY <2>1
<1>4. QED
  BY <1>2, <1>3, LenProperties

\* The loop ends with the last of the longest prefixes that cover the name, or with none.
Longest(name, i) ==
  \A j \in Covering(name) : Len(FSPrefixes[j].guest) <= Len(FSPrefixes[i].guest)

LEMMA BestIsLongest ==
  ASSUME NEW name
  PROVE  \/ Covering(name) = {} /\ Best(name) = NoPrefix
         \/ \E i \in Covering(name) : Best(name) = FSPrefixes[i] /\ Longest(name, i)
<1> DEFINE N == Len(FSPrefixes)
           fold == CHOOSE f : f = [s \in SUBSET (1..N) |-> Turn(name, f, s)]
           turns(n) == {i \in 1..n : IsPrefix(FSPrefixes[i].guest, name)}
           Picked(n) == \/ turns(n) = {} /\ fold[1..n] = NoPrefix
                      \/ \E i \in turns(n) :
                           /\ fold[1..n] = FSPrefixes[i]
                           /\ \A j \in turns(n) :
                                Len(FSPrefixes[j].guest) <= Len(FSPrefixes[i].guest)
           S == {n \in Nat : n <= N => Picked(n)}
<1>1. N \in Nat
  BY PrefixTypes
<1>2. fold = [s \in SUBSET (1..N) |-> Turn(name, fold, s)]
  <2>1. \E f : f = [s \in SUBSET (1..N) |-> Turn(name, f, s)]
    BY <1>1, FoldExists DEF IsFold
  <2>2. QED
    BY <2>1
<1>3. Best(name) = fold[1..N]
  BY BestIsFold, PrefixTypes
<1> HIDE DEF fold
<1>4. 0 \in S
  <2>1. 1..0 = {} /\ {} \in SUBSET (1..N)
    OBVIOUS
  <2>2. fold[{}] = NoPrefix
    BY <1>2, <2>1 DEF Turn
  <2>3. QED
    BY <2>1, <2>2
<1>5. ASSUME NEW n \in Nat, n \in S PROVE n + 1 \in S
  <2> SUFFICES ASSUME n + 1 <= N PROVE Picked(n + 1)
    OBVIOUS
  <2> DEFINE m == FSPrefixes[n + 1]
             best == fold[1..n]
  <2>1. n + 1 \in 1..N /\ n <= N
    BY <1>1
  <2>2. Picked(n)
    BY <1>5, <2>1
  <2>3. fold[1..(n + 1)] = Longer(name, best, m)
    <3>1. 1..(n + 1) \in SUBSET (1..N) /\ 1..(n + 1) # {} /\ n + 1 \in 1..(n + 1)
      <4>1. n + 1 \in 1..(n + 1)
        OBVIOUS
      <4>2. ASSUME NEW x \in 1..(n + 1) PROVE x \in 1..N
        BY <1>1, <2>1
      <4>3. QED
        BY <4>1, <4>2
    <3>2. Max(1..(n + 1)) = n + 1
      BY <3>1, MaxIsBound
    <3>3. (1..(n + 1)) \ {n + 1} = 1..n
      OBVIOUS
    <3>4. fold[1..(n + 1)] = Turn(name, fold, 1..(n + 1))
      BY <1>2, <3>1
    <3>5. QED
      BY <3>1, <3>2, <3>3, <3>4 DEF Turn
  <2>4. Len(m.guest) \in Nat /\ \A i \in 1..n : Len(FSPrefixes[i].guest) \in Nat
    BY <1>1, <2>1, PrefixTypes
  <2>5. turns(n + 1) = IF IsPrefix(m.guest, name) THEN turns(n) \cup {n + 1} ELSE turns(n)
    OBVIOUS
  <2>6. Len(NoPrefix.guest) = 0
    BY DEF NoPrefix
  <2> DEFINE lens(i) == Len(FSPrefixes[i].guest)
  <2>7. Len(m.guest) = lens(n + 1)
    OBVIOUS
  <2>8. CASE ~IsPrefix(m.guest, name)
    <3>1. turns(n + 1) = turns(n) /\ fold[1..(n + 1)] = best
      BY <2>3, <2>5, <2>8 DEF Longer
    <3>2. QED
      BY <2>2, <3>1
  <2>9. CASE IsPrefix(m.guest, name) /\ turns(n) = {} /\ best = NoPrefix
    <3>1. turns(n + 1) = {n + 1} /\ fold[1..(n + 1)] = m
      BY <2>3, <2>4, <2>5, <2>6, <2>9 DEF Longer
    <3>2. lens(n + 1) <= lens(n + 1)
      BY <2>4, <2>7
    <3> HIDE DEF turns
    <3>3. n + 1 \in turns(n + 1) /\ \A j \in turns(n + 1) : j = n + 1
      BY <3>1
    <3>4. QED
      BY <3>1, <3>2, <3>3
  <2>10. ASSUME IsPrefix(m.guest, name), NEW i \in turns(n), best = FSPrefixes[i],
                \A j \in turns(n) : lens(j) <= lens(i)
         PROVE  Picked(n + 1)
    <3>1. lens(i) \in Nat /\ \A j \in turns(n) : lens(j) \in Nat
      BY <2>4
    <3>2. turns(n + 1) = turns(n) \cup {n + 1}
      BY <2>5, <2>10
    <3>3. CASE lens(n + 1) >= lens(i)
      <4>1. fold[1..(n + 1)] = m
        BY <2>3, <2>10, <3>3 DEF Longer
      <4> HIDE DEF turns
      <4>2. ASSUME NEW j \in turns(n + 1) PROVE lens(j) <= lens(n + 1)
        <5>1. lens(n + 1) \in Nat
          BY <2>4, <2>7
        <5>2. CASE j = n + 1
          BY <5>1, <5>2
        <5>3. CASE j \in turns(n)
          <6>1. lens(j) <= lens(i) /\ lens(j) \in Nat /\ lens(i) \in Nat
            BY <2>10, <3>1, <5>3
          <6> HIDE DEF lens
          <6>2. QED
            BY <3>3, <5>1, <6>1
        <5>4. QED
          BY <3>2, <5>2, <5>3
      <4>3. QED
        BY <3>2, <4>1, <4>2
    <3>4. CASE ~(lens(n + 1) >= lens(i))
      <4>1. fold[1..(n + 1)] = best
        BY <2>3, <2>10, <3>4 DEF Longer
      <4> HIDE DEF turns
      <4>2. ASSUME NEW j \in turns(n + 1) PROVE lens(j) <= lens(i)
        <5>1. lens(n + 1) \in Nat
          BY <2>4, <2>7
        <5>2. CASE j = n + 1
          BY <3>1, <3>4, <5>1, <5>2
        <5>3. CASE j \in turns(n)
          BY <2>10, <5>3
        <5>4. QED
          BY <3>2, <5>2, <5>3
      <4>3. QED
        BY <2>10, <3>2, <4>1, <4>2
    <3>5. QED
      BY <3>3, <3>4
  <2>11. QED
    BY <2>2, <2>8, <2>9, <2>10
<1>6. Nat \subseteq S
  <2> HIDE DEF S
  <2>1. QED
    BY <1>4, <1>5, Induction
<1>7. Picked(N)
  BY <1>1, <1>6
<1>8. turns(N) = Covering(name)
  BY DEF Covering
<1>9. QED
  BY <1>3, <1>7, <1>8 DEF Longest

\* Remap cleans a name that no prefix begins; another goes, but for the bytes of a longest
\* one that does, under that one's host, even where the prefix ends inside an element.
THEOREM RemapReaches ==
  ASSUME NEW name \in Seq(STRING)
  PROVE  IF Covering(name) = {} THEN Remap(name) = Clean(name)
         ELSE \E i \in Covering(name) :
                /\ Longest(name, i)
                /\ Remap(name) = Join(FSPrefixes[i].host, Rest(name, FSPrefixes[i].guest))
<1>1. CASE Covering(name) = {}
  <2>1. Best(name).host = <<>> /\ Best(name).guest = <<>> /\ Len(<<>>) + 1 = 1
    BY <1>1, BestIsLongest DEF NoPrefix
  <2>2. Rest(name, Best(name).guest) = name
    BY <2>1, SubSeqFull DEF Rest
  <2>3. Remap(name) = Clean(name)
    BY <2>1, <2>2 DEF Remap, Join
  <2>4. QED
    BY <1>1, <2>3
<1>2. CASE Covering(name) # {}
  <2>1. PICK i \in Covering(name) : Best(name) = FSPrefixes[i] /\ Longest(name, i)
    BY <1>2, BestIsLongest
  <2>2. QED
    BY <1>2, <2>1 DEF Remap
<1>3. QED
  BY <1>1, <1>2

-----------------------------------------------------------------------------
(* The invariant: what a socket is called, by whom it was asked, and who   *)
(* is at the other end.                                                    *)

NoUser == [bound |-> NoAddr, dialed |-> NoAddr]

\* A socket r and what its user asked, u.  An unused one was asked nothing, a named one
\* has a name of its family.
Placed(r, u) ==
  /\ u = [bound |-> u.bound, dialed |-> u.dialed]
  /\ r.st = "free" => u = NoUser
  /\ r.st # "free" => r.fam = kind
  /\ r.st = "open" => r.local = Unnamed(kind)
  /\ r.st \notin {"free", "open"} => NamedAs(kind, r.local)
  /\ r.st # "listening" => r.pend = <<>>
  /\ r.st \in Bound => u.bound # NoAddr

\* What a bind to sa calls a socket: sa, or a port of the host's choice.
GivenTo(sa, name) ==
  IF Asked(sa) THEN name = sa ELSE \E p \in Ephemeral : name = [sa EXCEPT !.port = p]

\* It keeps the name that it was bound to, and the peer that it was connected to.
BoundTo(r, u) ==
  u.bound # NoAddr =>
    /\ r.st \notin {"free", "open"}
    /\ u.bound \in Binds /\ NetaddrAFFamily(u.bound) = Families[kind]
    /\ GivenTo(Native(kind, u.bound), r.local) /\ Len(r.local.name) < SunPath
DialedTo(r, u) ==
  u.dialed # NoAddr =>
    /\ r.st = "connected"
    /\ u.dialed \in Dials /\ NetaddrAFFamily(u.dialed) = Families[kind]
    /\ r.peer = Target(Native(kind, u.dialed))
One(r, u) == Placed(r, u) /\ BoundTo(r, u) /\ DialedTo(r, u)

\* Two ends have each other's name, and who waits in a queue has dialed one that its
\* listener takes.
Paired(f) ==
  sock[f].mate # 0 =>
    /\ sock[f].st = "connected" /\ sock[sock[f].mate].st = "connected"
    /\ sock[f].peer = sock[sock[f].mate].local
Queued(f) ==
  \A i \in 1..Len(sock[f].pend) :
    Meets(sock[f].local, sock[sock[f].pend[i]].peer) /\ NamedAs(kind, sock[sock[f].pend[i]].peer)

NInv ==
  /\ DOMAIN user = Fds
  /\ \A f \in Fds : One(sock[f], user[f]) /\ Paired(f) /\ Queued(f)

-----------------------------------------------------------------------------
(* Each call keeps it.                                                     *)

Frozen == UNCHANGED kind /\ UNCHANGED build

\* A family and a build are for ever.
LEMMA OneAt ==
  ASSUME Frozen, NEW f, NEW r, NEW u, sock'[f] = r, user'[f] = u, One(r, u)
  PROVE  One(sock[f], user[f])'
<1>1. Placed(sock[f], user[f])'
  BY DEF Frozen, One, Placed, NamedAs, Bound
<1>2. BoundTo(sock[f], user[f])'
  BY DEF Frozen, One, BoundTo, Native, GivenTo, Asked, Ephemeral
<1>3. DialedTo(sock[f], user[f])'
  BY DEF Frozen, One, DialedTo, Native, Target
<1>4. QED
  BY <1>1, <1>2, <1>3 DEF One

\* Names of connected sockets stay, so do the ends of the connections that there were.
LEMMA PairsKept ==
  ASSUME TInv, NInv, NEW f \in Fds, sock'[f].mate = sock[f].mate,
         \A g \in Fds : sock[g].st = "connected" =>
           /\ sock'[g].st = "connected"
           /\ sock'[g].local = sock[g].local /\ sock'[g].peer = sock[g].peer
  PROVE  Paired(f)'
<1> SUFFICES ASSUME sock[f].mate # 0
             PROVE  /\ sock'[f].st = "connected" /\ sock'[sock[f].mate].st = "connected"
                    /\ sock'[f].peer = sock'[sock[f].mate].local
  BY DEF Paired
<1>1. sock[f].mate \in Fds
  BY DEF TInv, Sockets, Socket
<1>2. /\ sock[f].st = "connected" /\ sock[sock[f].mate].st = "connected"
      /\ sock[f].peer = sock[sock[f].mate].local
  BY DEF NInv, Paired
<1>3. QED
  BY <1>1, <1>2

\* A queue that stays, or loses its first, still has the name of its listener.
LEMMA QueueStays ==
  ASSUME TInv, NInv, Frozen, NEW f \in Fds,
         sock'[f].pend = <<>> \/ sock'[f].local = sock[f].local,
         \A i \in 1..Len(sock'[f].pend) :
           \E j \in 1..Len(sock[f].pend) : sock'[f].pend[i] = sock[f].pend[j],
         \A g \in Fds : sock[g].st = "connected" => sock'[g].peer = sock[g].peer
  PROVE  Queued(f)'
<1> SUFFICES ASSUME NEW i \in 1..Len(sock'[f].pend)
             PROVE  /\ Meets(sock'[f].local, sock'[sock'[f].pend[i]].peer)
                    /\ NamedAs(kind, sock'[sock'[f].pend[i]].peer)
  BY DEF Queued, Frozen, Meets, Anywhere, ZeroIP, NamedAs
<1>1. PICK j \in 1..Len(sock[f].pend) : sock'[f].pend[i] = sock[f].pend[j]
  OBVIOUS
<1>2. sock[f].pend[j] \in Fds /\ sock[sock[f].pend[j]].st = "connected"
  <2>1. sock[f].pend \in Seq(Fds)
    BY DEF TInv, Sockets, Socket
  <2>2. QED
    BY <2>1, ElementOfSeq DEF TInv, Waiting
<1>3. /\ Meets(sock[f].local, sock[sock[f].pend[j]].peer)
      /\ NamedAs(kind, sock[sock[f].pend[j]].peer)
  BY DEF NInv, Queued
<1>4. sock'[f].pend # <<>>
  OBVIOUS
<1>5. QED
  BY <1>1, <1>2, <1>3, <1>4

\* The calls that name and queue nobody.
Unnaming ==
  \A f \in Fds :
    /\ sock'[f].fam = sock[f].fam /\ sock'[f].local = sock[f].local
    /\ sock'[f].peer = sock[f].peer /\ sock'[f].mate = sock[f].mate
    /\ sock'[f].pend = sock[f].pend
    /\ sock'[f].st = sock[f].st \/ (sock[f].st = "bound" /\ sock'[f].st = "listening")

LEMMA UnnamingN ==
  ASSUME TInv, NInv, Frozen, UNCHANGED user, Unnaming
  PROVE  NInv'
<1> SUFFICES ASSUME NEW f \in Fds
             PROVE  One(sock[f], user[f])' /\ Paired(f)' /\ Queued(f)'
  BY DEF NInv, Fds
<1>1. One(sock'[f], user[f])
  <2>1. One(sock[f], user[f])
    BY DEF NInv
  <2>2. Placed(sock'[f], user[f])
    BY <2>1 DEF One, Placed, Unnaming, Bound
  <2>3. BoundTo(sock'[f], user[f])
    BY <2>1 DEF One, BoundTo, Unnaming
  <2>4. DialedTo(sock'[f], user[f])
    BY <2>1 DEF One, DialedTo, Unnaming
  <2>5. QED
    BY <2>2, <2>3, <2>4 DEF One
<1>2. One(sock[f], user[f])'
  BY <1>1, OneAt
<1>3. Paired(f)'
  BY PairsKept DEF Unnaming
<1>4. Queued(f)'
  BY QueueStays DEF Unnaming
<1>5. QED
  BY <1>2, <1>3, <1>4

LEMMA UnchangedN ==
  ASSUME TInv, NInv, Frozen, UNCHANGED user, UNCHANGED sock
  PROVE  NInv'
  BY UnnamingN DEF Unnaming

\* One socket that nobody waits for gets a name; the others stay.
LEMMA OneNamed ==
  ASSUME TInv, NInv, Frozen, NEW fd \in Fds, sock[fd].st \in {"free", "open"}, NEW r, NEW u,
         sock' = [sock EXCEPT ![fd] = r], DOMAIN user' = Fds, user'[fd] = u,
         \A f \in Fds : f # fd => user'[f] = user[f],
         One(r, u), r.mate = sock[fd].mate, r.pend = <<>>
  PROVE  NInv'
<1>1. DOMAIN sock = Fds
  BY DEF TInv, Sockets
<1>2. /\ sock'[fd] = r /\ user'[fd] = u /\ DOMAIN user' = Fds
      /\ \A f \in Fds : f # fd => sock'[f] = sock[f] /\ user'[f] = user[f]
  BY <1>1
<1> SUFFICES ASSUME NEW f \in Fds
             PROVE  One(sock[f], user[f])' /\ Paired(f)' /\ Queued(f)'
  BY <1>2 DEF NInv, Fds
<1>3. One(sock'[f], user'[f])
  BY <1>2 DEF NInv
<1>4. One(sock[f], user[f])'
  BY <1>3, OneAt
<1>5. \A g \in Fds : sock[g].st = "connected" => sock'[g] = sock[g]
  BY <1>2
<1>6. Paired(f)'
  BY <1>2, <1>5, PairsKept
<1>7. Queued(f)'
  <2>1. CASE f = fd
    <3>1. sock'[f].pend = <<>> /\ Len(<<>>) = 0
      BY <1>2, <2>1
    <3>2. QED
      BY <3>1 DEF Queued
  <2>2. CASE f # fd
    BY <1>2, <1>5, <2>2, QueueStays
  <2>3. QED
    BY <2>1, <2>2
<1>8. QED
  BY <1>4, <1>6, <1>7

LEMMA SocketOpenN ==
  ASSUME TInv, NInv, Frozen, kind \in DOMAIN Families, NEW bad, SocketOpen(kind, bad)
  PROVE  NInv'
<1>1. UNCHANGED user
  BY DEF SocketOpen
<1>2. CASE Free = {}
  <2>1. UNCHANGED sock
    BY <1>2 DEF SocketOpen
  <2>2. QED
    BY <1>1, <2>1, UnchangedN
<1>3. CASE Free # {}
  <2> DEFINE r == [Unused EXCEPT !.st = "open", !.fam = kind, !.local = Unnamed(kind),
                                 !.waits = (build = "native")]
             u == user[NewFd]
  <2>1. NewFd \in Fds /\ sock[NewFd].st = "free"
    BY <1>3, NewFdFree DEF Free
  <2>2. sock' = [sock EXCEPT ![NewFd] = r]
    BY <1>3 DEF SocketOpen
  <2>3. r.st = "open" /\ r.fam = kind /\ r.local = Unnamed(kind) /\ r.mate = 0 /\ r.pend = <<>>
    BY DEF Unused
  <2>4. sock[NewFd].mate = 0 /\ u = NoUser
    BY <2>1 DEF NInv, One, Placed, Paired
  <2> HIDE DEF r
  <2>5. One(r, u)
    <3>1. NoUser.bound = NoAddr /\ NoUser.dialed = NoAddr
      BY DEF NoUser
    <3>2. Placed(r, u)
      BY <2>3, <2>4, <3>1 DEF Placed, NoUser, Bound
    <3>3. QED
      BY <2>4, <3>1, <3>2 DEF One, BoundTo, DialedTo
  <2>6. DOMAIN user' = Fds /\ user'[NewFd] = u /\ \A f \in Fds : user'[f] = user[f]
    BY <1>1 DEF NInv
  <2> HIDE DEF u
  <2>7. QED
    BY <2>1, <2>2, <2>3, <2>4, <2>5, <2>6, OneNamed
<1>4. QED
  BY <1>2, <1>3

LEMMA NamedLength ==
  ASSUME NEW k, NEW sa, NamedAs(k, sa)
  PROVE  Len(sa.name) \in Nat
<1>1. sa.name \in Seq(STRING) \/ sa.name = <<>>
  BY DEF NamedAs
<1>2. \A s \in Seq(STRING) : Len(s) \in Nat
  BY LenProperties
<1>3. QED
  BY <1>1, <1>2, TupleLengths

\* A bind that succeeds has found a name, of the family that was asked for.
LEMMA BindGives ==
  ASSUME NEW k \in DOMAIN Families, NEW sa, NamedAs(k, sa), NEW fd, "ok" \in BindErrors(fd, sa),
         NEW kd, NEW ip, NEW port, NEW nm, sa = Addr(kd, ip, port, nm)
  PROVE  /\ GivenTo(sa, GivenName(sa)) /\ NamedAs(k, GivenName(sa))
         /\ GivenName(sa).name = sa.name /\ Len(sa.name) < SunPath /\ sock[fd].st = "open"
<1>1. sock[fd].st = "open" /\ ~(Len(sa.name) >= SunPath) /\ FreeNames(sa) # {}
  BY DEF BindErrors
<1>2. Len(sa.name) < SunPath
  BY <1>1, NamedLength, HostCallAssumption
<1>3. GivenName(sa) \in FreeNames(sa)
  BY <1>1 DEF GivenName
<1>4. PICK n : n = GivenName(sa)
  OBVIOUS
<1>5. CASE Asked(sa)
  <2>1. n = sa
    BY <1>3, <1>4, <1>5 DEF FreeNames
  <2>2. QED
    BY <1>1, <1>2, <1>4, <1>5, <2>1 DEF GivenTo
<1>6. CASE ~Asked(sa)
  <2>1. PICK p \in Ephemeral : n = [sa EXCEPT !.port = p]
    BY <1>3, <1>4, <1>6 DEF FreeNames
  <2>2. n = Addr(kd, ip, p, nm)
    BY <2>1 DEF Addr
  <2>3. sa.kind = kd /\ sa.ip = ip /\ sa.name = nm /\ kd # "unix"
    BY <1>6 DEF Asked, Addr
  <2>4. NamedAs(k, n) /\ n.name = sa.name
    BY <2>2, <2>3 DEF NamedAs, Addr
  <2>5. GivenTo(sa, n)
    BY <1>6, <2>1 DEF GivenTo
  <2>6. QED
    BY <1>1, <1>2, <1>4, <2>4, <2>5
<1>7. QED
  BY <1>5, <1>6

LEMMA SocketBindN ==
  ASSUME TInv, NInv, Frozen, kind \in DOMAIN Families, NEW fd \in Fds, NEW a \in Binds, NEW bad,
         SocketBind(fd, a, bad)
  PROVE  NInv'
<1>1. CASE UNCHANGED sock /\ UNCHANGED user
  BY <1>1, UnchangedN
<1>2. CASE ~(UNCHANGED sock /\ UNCHANGED user)
  <2> DEFINE sa == UnixSockaddr(Encoded(fd, a))
             n == GivenName(sa)
             r == [sock[fd] EXCEPT !.st = "bound", !.local = n]
             u == [user[fd] EXCEPT !.bound = a]
  <2>1. /\ "ok" \in BindErrors(fd, sa)
        /\ sock' = [sock EXCEPT ![fd].st = "bound", ![fd].local = n]
        /\ user' = [user EXCEPT ![fd].bound = a]
    BY <1>2 DEF SocketBind, Refuse
  <2>2. sock[fd].st = "open"
    BY <2>1 DEF BindErrors
  <2>3. One(sock[fd], user[fd]) /\ sock[fd].fam = kind
    BY <2>2 DEF NInv, One, Placed
  <2>4. sa = Native(kind, a) /\ NetaddrAFFamily(a) = Families[kind] /\ StreamAddr(a)
    BY <2>3, NamesAssumption DEF SocketBind, Fits, Encoded, Native
  <2>5. a # NoAddr
    BY <2>4 DEF StreamAddr, NoAddr, Addr
  <2>6. /\ GivenTo(Native(kind, a), n) /\ NamedAs(kind, n) /\ Len(n.name) < SunPath
    <3>1. \E kd, ip, port, nm : Native(kind, a) = Addr(kd, ip, port, nm)
      BY <2>4, NativeForms
    <3> HIDE DEF sa
    <3>2. QED
      BY <2>1, <2>4, <3>1, NativeNamed, BindGives
  <2> HIDE DEF sa, n
  <2>7. sock[fd] \in Socket(sock[fd]) /\ DOMAIN sock = Fds /\ DOMAIN user = Fds
    BY DEF TInv, Sockets, NInv
  <2>8. /\ r.st = "bound" /\ r.local = n /\ r.fam = kind /\ r.pend = <<>>
        /\ r.mate = sock[fd].mate
    BY <2>2, <2>3, <2>7 DEF Socket, One, Placed
  <2>9. u = [bound |-> a, dialed |-> NoAddr]
    <3>1. user[fd] = [bound |-> user[fd].bound, dialed |-> user[fd].dialed]
      BY <2>3 DEF One, Placed
    <3>2. user[fd].dialed = NoAddr
      BY <2>2, <2>3 DEF One, DialedTo
    <3>3. QED
      BY <3>1, <3>2
  <2>10. /\ sock' = [sock EXCEPT ![fd] = r] /\ DOMAIN user' = Fds /\ user'[fd] = u
         /\ \A f \in Fds : f # fd => user'[f] = user[f]
    BY <2>1, <2>7
  <2> HIDE DEF r, u
  <2>11. Placed(r, u)
    BY <2>5, <2>6, <2>8, <2>9 DEF Placed
  <2>12. BoundTo(r, u)
    BY <2>4, <2>6, <2>8, <2>9 DEF BoundTo
  <2>13. DialedTo(r, u)
    BY <2>9 DEF DialedTo
  <2>14. QED
    BY <2>2, <2>8, <2>10, <2>11, <2>12, <2>13, OneNamed DEF One
<1>3. QED
  BY <1>1, <1>2

LEMMA SocketListenN ==
  ASSUME TInv, NInv, Frozen, NEW fd \in Fds, SocketListen(fd)
  PROVE  NInv'
<1>1. UNCHANGED user
  BY DEF SocketListen
<1>2. CASE UNCHANGED sock
  BY <1>1, <1>2, UnchangedN
<1>3. CASE ~UNCHANGED sock
  <2>1. sock[fd].st \in {"bound", "listening"} /\ sock' = [sock EXCEPT ![fd].st = "listening"]
    BY <1>3 DEF SocketListen
  <2>2. sock[fd] \in Socket(sock[fd]) /\ DOMAIN sock = Fds
    BY DEF TInv, Sockets
  <2>3. sock'[fd] = [sock[fd] EXCEPT !.st = "listening"] /\ \A f \in Fds \ {fd} : sock'[f] = sock[f]
    BY <2>1, <2>2
  <2>4. Unnaming
    BY <2>1, <2>2, <2>3 DEF Unnaming, Socket
  <2>5. QED
    BY <1>1, <2>4, UnnamingN
<1>4. QED
  BY <1>2, <1>3

\* Bytes and shutdowns.
LEMMA FieldOnly ==
  ASSUME TInv, NInv, Frozen, UNCHANGED user, NEW fd \in Fds, NEW x,
         \/ sock' = [sock EXCEPT ![fd].out = x]
         \/ sock' = [sock EXCEPT ![fd].shut = x]
  PROVE  NInv'
<1>1. sock[fd] \in Socket(sock[fd]) /\ DOMAIN sock = Fds
  BY DEF TInv, Sockets
<1>2. /\ sock'[fd] = [sock[fd] EXCEPT !.out = x] \/ sock'[fd] = [sock[fd] EXCEPT !.shut = x]
      /\ \A f \in Fds \ {fd} : sock'[f] = sock[f]
  BY <1>1
<1>3. Unnaming
  BY <1>1, <1>2 DEF Unnaming, Socket
<1>4. QED
  BY <1>3, UnnamingN

LEMMA SocketSendToN ==
  ASSUME TInv, NInv, Frozen, NEW fd \in Fds, NEW size, NEW bad, SocketSendTo(fd, size, bad)
  PROVE  NInv'
<1>1. UNCHANGED user
  BY DEF SocketSendTo, Refuse
<1>2. UNCHANGED sock \/ \E n : sock' = [sock EXCEPT ![fd].out = @ + n]
  BY DEF SocketSendTo, Refuse
<1>3. UNCHANGED sock \/ \E x : sock' = [sock EXCEPT ![fd].out = x]
  BY <1>2
<1>4. QED
  BY <1>1, <1>3, UnchangedN, FieldOnly

LEMMA SocketRecvFromN ==
  ASSUME TInv, NInv, Frozen, NEW fd \in Fds, NEW size \in 1..Room, NEW bad,
         SocketRecvFrom(fd, size, bad)
  PROVE  NInv'
<1>1. UNCHANGED user
  BY DEF SocketRecvFrom, Refuse
<1>2. CASE UNCHANGED sock
  BY <1>1, <1>2, UnchangedN
<1>3. CASE ~UNCHANGED sock
  <2> DEFINE m == sock[fd].mate
  <2>1. PICK n : m # 0 /\ sock' = [sock EXCEPT ![m].out = @ - n]
    <3>1. PICK n : sock' = IF n > 0 /\ m # 0 THEN [sock EXCEPT ![m].out = @ - n] ELSE sock
      BY <1>3 DEF SocketRecvFrom, Refuse
    <3>2. QED
      BY <1>3, <3>1
  <2>2. m \in Fds
    BY <2>1 DEF TInv, Sockets, Socket
  <2> HIDE DEF m
  <2>3. QED
    BY <1>1, <2>1, <2>2, FieldOnly
<1>4. QED
  BY <1>2, <1>3

LEMMA SocketShutdownN ==
  ASSUME TInv, NInv, Frozen, NEW fd \in Fds, NEW how, SocketShutdown(fd, how)
  PROVE  NInv'
<1>1. UNCHANGED user
  BY DEF SocketShutdown
<1>2. UNCHANGED sock \/ \E x : sock' = [sock EXCEPT ![fd].shut = x]
  BY DEF SocketShutdown
<1>3. QED
  BY <1>1, <1>2, UnchangedN, FieldOnly

\* Where a connect goes, and what its socket is called from then on.
LEMMA TargetNamed ==
  ASSUME NInv, NEW fd \in Fds, sock[fd].st \in {"open", "bound"}, kind \in DOMAIN Families,
         NEW sa, NamedAs(kind, sa)
  PROVE  NamedAs(kind, Local(fd, Target(sa)))
<1>1. Placed(sock[fd], user[fd])
  BY DEF NInv, One
<1>2. CASE sock[fd].st = "bound"
  BY <1>1, <1>2 DEF Placed, Local
<1>3. CASE sock[fd].st = "open" /\ kind = "unix"
  <2>1. Target(sa).kind = "unix" /\ sock[fd].local = Unnamed("unix")
    BY <1>1, <1>3 DEF Placed, Target, NamedAs
  <2>2. Local(fd, Target(sa)) = Addr("unix", <<>>, 0, <<>>)
    BY <2>1 DEF Local, Unnamed
  <2>3. <<>> \in Seq(STRING) /\ Len(<<>>) <= NameBuf
    BY TupleLengths, AddressAssumption
  <2>4. QED
    BY <1>3, <2>2, <2>3 DEF NamedAs, Addr
<1>4. CASE sock[fd].st = "open" /\ kind # "unix"
  <2>1. sa.kind = kind /\ Target(sa) = sa
    BY <1>4 DEF NamedAs, Target
  <2>2. Local(fd, Target(sa)) = Addr(kind, sa.ip, 100 + MaxFd + fd, <<>>)
    BY <1>4, <2>1 DEF Local
  <2>3. QED
    BY <1>4, <2>2 DEF NamedAs, Addr
<1>5. QED
  BY <1>2, <1>3, <1>4

\* Who is met is called like the listener, so its name is one of the family.
LEMMA MetNamed ==
  ASSUME NEW k, NEW sa, NamedAs(k, sa), NEW local, NamedAs(k, local), Meets(local, Target(sa)),
         NEW kd, NEW ip, NEW port, NEW nm, sa = Addr(kd, ip, port, nm)
  PROVE  NamedAs(k, Target(sa))
<1>1. CASE k = "unix"
  <2>1. sa.kind = "unix" /\ sa.ip = <<>> /\ sa.port = 0
    BY <1>1 DEF NamedAs
  <2>2. PICK m : Target(sa) = Addr("unix", <<>>, 0, m)
    BY <2>1 DEF Target, Addr
  <2>3. local.name = m /\ local.name \in Seq(STRING) /\ Len(local.name) <= NameBuf
    BY <1>1, <2>2 DEF Meets, NamedAs, Addr
  <2>4. QED
    BY <1>1, <2>2, <2>3 DEF NamedAs, Addr
<1>2. CASE k # "unix"
  BY <1>2 DEF NamedAs, Target
<1>3. QED
  BY <1>1, <1>2

LEMMA SocketConnectN ==
  ASSUME TInv, NInv, Frozen, kind \in DOMAIN Families, NEW fd \in known, NEW a \in Dials, NEW bad,
         SocketConnect(fd, a, bad)
  PROVE  NInv'
<1>1. fd \in Fds /\ sock[fd].st # "free"
  BY DEF TInv, Known
<1>2. CASE UNCHANGED sock /\ UNCHANGED user
  BY <1>2, UnchangedN
<1>3. CASE ~(UNCHANGED sock /\ UNCHANGED user)
  <2>1. PICK to : to = Target(UnixSockaddr(Encoded(fd, a)))
    OBVIOUS
  <2>2. Connects(fd, to) /\ user' = [user EXCEPT ![fd].dialed = a] /\ Fits(fd, a)
    BY <1>1, <1>3, <2>1, ConnectMoves
  <2>3. \A g \in Fds : sock[g] \in Socket(sock[g])
    BY DEF TInv, Sockets
  <2>4. sock[fd].st \in {"open", "bound"}
    BY <1>1, <2>2, <2>3 DEF Connects, Socket, States
  <2>5. One(sock[fd], user[fd]) /\ sock[fd].fam = kind /\ sock[fd].pend = <<>>
    BY <1>1, <2>4 DEF NInv, One, Placed
  <2>6. to = Target(Native(kind, a)) /\ NetaddrAFFamily(a) = Families[kind] /\ StreamAddr(a)
    BY <2>1, <2>2, <2>5, NamesAssumption DEF Fits, Encoded, Native
  <2>7. NamedAs(kind, Local(fd, to))
    BY <1>1, <2>4, <2>6, NativeNamed, TargetNamed
  <2> DEFINE Q == Queues(to)
             u == [user[fd] EXCEPT !.dialed = a]
  <2>8. \A g \in Q : /\ g \in Fds /\ g # fd /\ sock[g].st = "listening"
                    /\ Meets(sock[g].local, to) /\ NamedAs(kind, to)
    <3>1. ASSUME NEW g \in Q
          PROVE  g \in Fds /\ g # fd /\ sock[g].st = "listening" /\ Meets(sock[g].local, to)
      BY <2>4 DEF Queues, Listening
    <3>2. ASSUME NEW g \in Q PROVE NamedAs(kind, to)
      <4>1. NamedAs(kind, sock[g].local)
        BY <3>1 DEF NInv, One, Placed
      <4>2. \E kd, ip, port, nm : Native(kind, a) = Addr(kd, ip, port, nm)
        BY <2>6, NativeForms
      <4>3. QED
        BY <2>6, <3>1, <4>1, <4>2, NativeNamed, MetNamed
    <3>3. QED
      BY <3>1, <3>2
  <2>9. sock' = [g \in Fds |->
          IF g = fd THEN [sock[fd] EXCEPT !.st = "connected", !.peer = to, !.local = Local(fd, to)]
          ELSE IF g \in Q THEN [sock[g] EXCEPT !.pend = Append(@, fd)] ELSE sock[g]]
    BY <2>2 DEF Connects
  <2> HIDE DEF Q
  <2>10. /\ sock'[fd].st = "connected" /\ sock'[fd].peer = to /\ sock'[fd].local = Local(fd, to)
         /\ sock'[fd].fam = kind /\ sock'[fd].mate = sock[fd].mate /\ sock'[fd].pend = <<>>
    BY <1>1, <2>3, <2>5, <2>9 DEF Socket
  <2>11. ASSUME NEW g \in Q
         PROVE  /\ sock'[g].st = "listening" /\ sock'[g].local = sock[g].local
                /\ sock'[g].fam = sock[g].fam
                /\ sock'[g].peer = sock[g].peer /\ sock'[g].mate = sock[g].mate
                /\ sock'[g].pend = Append(sock[g].pend, fd)
    <3>1. sock'[g] = [sock[g] EXCEPT !.pend = Append(sock[g].pend, fd)]
      BY <2>8, <2>9
    <3>2. QED
      BY <2>3, <2>8, <3>1 DEF Socket
  <2>12. \A g \in Fds : g # fd /\ g \notin Q => sock'[g] = sock[g]
    BY <2>9
  <2>13. DOMAIN user' = Fds /\ user'[fd] = u /\ \A g \in Fds : g # fd => user'[g] = user[g]
    BY <1>1, <2>2 DEF NInv
  <2>14. u = [bound |-> user[fd].bound, dialed |-> a]
    BY <2>5 DEF One, Placed
  <2> HIDE DEF u
  <2>15. ASSUME NEW g \in Fds PROVE One(sock[g], user[g])'
    <3>1. CASE g = fd
      <4>1. Placed(sock'[fd], u)
        BY <2>7, <2>10, <2>14 DEF Placed, Bound
      <4>2. BoundTo(sock'[fd], u)
        BY <2>4, <2>5, <2>10, <2>14 DEF One, BoundTo, Local
      <4>3. DialedTo(sock'[fd], u)
        BY <2>6, <2>10, <2>14 DEF DialedTo
      <4>4. QED
        BY <2>13, <3>1, <4>1, <4>2, <4>3, OneAt DEF One
    <3>2. CASE g \in Q
      <4>1. One(sock[g], user[g]) /\ user'[g] = user[g]
        BY <2>8, <2>13, <3>2 DEF NInv
      <4>2. Placed(sock'[g], user[g])
        BY <2>8, <2>11, <3>2, <4>1 DEF One, Placed, Bound
      <4>3. BoundTo(sock'[g], user[g])
        BY <2>8, <2>11, <3>2, <4>1 DEF One, BoundTo
      <4>4. DialedTo(sock'[g], user[g])
        BY <2>8, <2>11, <3>2, <4>1 DEF One, DialedTo
      <4>5. QED
        BY <4>1, <4>2, <4>3, <4>4, OneAt DEF One
    <3>3. CASE g # fd /\ g \notin Q
      <4>1. One(sock'[g], user'[g])
        BY <2>12, <2>13, <3>3 DEF NInv
      <4>2. QED
        BY <4>1, OneAt
    <3>4. QED
      BY <3>1, <3>2, <3>3
  <2>16. \A g \in Fds : sock[g].st = "connected" => sock'[g] = sock[g]
    BY <2>4, <2>8, <2>12
  <2>17. \A g \in Fds : Paired(g)'
    <3>1. \A g \in Fds : sock'[g].mate = sock[g].mate
      BY <2>10, <2>11, <2>12
    <3>2. QED
      BY <2>16, <3>1, PairsKept
  <2>18. ASSUME NEW g \in Fds PROVE Queued(g)'
    <3>1. CASE g = fd
      <4>1. Len(sock'[g].pend) = 0
        BY <2>10, <3>1, TupleLengths
      <4>2. QED
        BY <4>1 DEF Queued
    <3>2. CASE g \in Q
      <4> SUFFICES ASSUME NEW i \in 1..Len(sock'[g].pend)
                   PROVE  /\ Meets(sock[g].local, sock'[sock'[g].pend[i]].peer)
                          /\ NamedAs(kind, sock'[sock'[g].pend[i]].peer)
        BY <2>11, <3>2 DEF Queued, Frozen, Meets, Anywhere, ZeroIP, NamedAs
      <4>1. /\ sock[g].pend \in Seq(Fds) /\ Len(sock[g].pend) \in Nat
            /\ sock'[g].pend = Append(sock[g].pend, fd)
        BY <2>3, <2>8, <2>11, <3>2, LenProperties DEF Socket
      <4>2. /\ Len(sock'[g].pend) = Len(sock[g].pend) + 1
            /\ \A j \in 1..Len(sock[g].pend) : sock'[g].pend[j] = sock[g].pend[j]
            /\ sock'[g].pend[Len(sock[g].pend) + 1] = fd
        BY <1>1, <4>1, AppendProperties
      <4>3. CASE i \in 1..Len(sock[g].pend)
        <5>1. sock[g].pend[i] \in Fds
          BY <4>1, <4>3, ElementOfSeq
        <5>2. sock[sock[g].pend[i]].st = "connected"
          BY <4>3 DEF TInv, Waiting
        <5>3. /\ Meets(sock[g].local, sock[sock[g].pend[i]].peer)
              /\ NamedAs(kind, sock[sock[g].pend[i]].peer)
          BY <2>8, <3>2, <4>3 DEF NInv, Queued
        <5>4. sock'[sock[g].pend[i]] = sock[sock[g].pend[i]]
          BY <2>16, <5>1, <5>2
        <5>5. sock'[g].pend[i] = sock[g].pend[i]
          BY <4>2, <4>3
        <5>6. QED
          BY <5>3, <5>4, <5>5
      <4>4. CASE i = Len(sock[g].pend) + 1
        BY <2>8, <2>10, <3>2, <4>2, <4>4
      <4>5. QED
        BY <4>1, <4>2, <4>3, <4>4
    <3>3. CASE g # fd /\ g \notin Q
      BY <2>12, <2>16, <3>3, QueueStays
    <3>4. QED
      BY <3>1, <3>2, <3>3
  <2>19. QED
    BY <2>13, <2>15, <2>17, <2>18 DEF NInv, Fds
<1>4. QED
  BY <1>2, <1>3

LEMMA SocketAcceptN ==
  ASSUME TInv, NInv, Frozen, NEW fd \in Fds, NEW bad, SocketAccept(fd, bad)
  PROVE  NInv'
<1>1. UNCHANGED user
  BY DEF SocketAccept
<1>2. CASE AcceptError(fd) # "ok"
  <2>1. UNCHANGED sock
    BY <1>2 DEF SocketAccept
  <2>2. QED
    BY <1>1, <2>1, UnchangedN
<1>3. CASE AcceptError(fd) = "ok"
  <2>1. PICK q, c : q = sock[fd].pend /\ c = Head(q)
    OBVIOUS
  <2>2. Accepts(fd, q, c)
    BY <1>3, <2>1, AcceptMoves
  <2>3. \A g \in Fds : sock[g] \in Socket(sock[g])
    BY DEF TInv, Sockets
  <2>4. /\ sock[fd].st = "listening" /\ sock[c].st = "connected" /\ sock[NewFd].st = "free"
        /\ c \in Fds /\ NewFd \in Fds /\ fd # c /\ fd # NewFd /\ c # NewFd
    BY <2>2 DEF Accepts
  <2>5. One(sock[fd], user[fd]) /\ NamedAs(kind, sock[c].peer)
    <3>1. NamedAs(kind, sock[sock[fd].pend[1]].peer)
      BY <2>1, <2>2 DEF Accepts, NInv, Queued
    <3>2. QED
      BY <2>1, <2>2, <3>1 DEF Accepts, NInv
  <2>6. /\ sock'[NewFd].st = "connected" /\ sock'[NewFd].fam = sock[fd].fam
        /\ sock'[NewFd].mate = c /\ sock'[NewFd].local = sock[c].peer
        /\ sock'[NewFd].peer = sock[c].local /\ sock'[NewFd].pend = <<>>
    BY <2>2 DEF Accepts, Accepted, Unused
  <2>7. /\ sock'[fd].st = "listening" /\ sock'[fd].fam = sock[fd].fam
        /\ sock'[fd].mate = sock[fd].mate /\ sock'[fd].local = sock[fd].local
        /\ sock'[fd].peer = sock[fd].peer /\ sock'[fd].pend = Tail(q)
    BY <2>2, <2>3, <2>4 DEF Accepts, Socket
  <2>8. /\ sock'[c].st = "connected" /\ sock'[c].fam = sock[c].fam
        /\ sock'[c].mate = NewFd /\ sock'[c].local = sock[c].local
        /\ sock'[c].peer = sock[c].peer /\ sock'[c].pend = sock[c].pend
    BY <2>2, <2>3, <2>4 DEF Accepts, Socket
  <2>9. \A g \in Fds : g \notin {fd, c, NewFd} => sock'[g] = sock[g]
    BY <2>2 DEF Accepts
  <2>10. ASSUME NEW g \in Fds PROVE One(sock[g], user[g])'
    <3>1. CASE g = NewFd
      <4>1. user[NewFd] = NoUser
        BY <2>4 DEF NInv, One, Placed
      <4>2. user[NewFd].bound = NoAddr /\ user[NewFd].dialed = NoAddr
        BY <4>1 DEF NoUser
      <4>3. Placed(sock'[NewFd], user[NewFd])
        BY <2>4, <2>5, <2>6, <4>1, <4>2 DEF One, Placed, NoUser, Bound
      <4>4. QED
        BY <1>1, <3>1, <4>2, <4>3, OneAt DEF One, BoundTo, DialedTo
    <3>2. CASE g \in {fd, c}
      <4>1. One(sock[g], user[g])
        BY DEF NInv
      <4>2. Placed(sock'[g], user[g])
        BY <2>4, <2>7, <2>8, <3>2, <4>1 DEF One, Placed, Bound
      <4>3. BoundTo(sock'[g], user[g])
        BY <2>4, <2>7, <2>8, <3>2, <4>1 DEF One, BoundTo
      <4>4. DialedTo(sock'[g], user[g])
        BY <2>4, <2>7, <2>8, <3>2, <4>1 DEF One, DialedTo
      <4>5. QED
        BY <1>1, <4>2, <4>3, <4>4, OneAt DEF One
    <3>3. CASE g \notin {fd, c, NewFd}
      <4>1. One(sock'[g], user'[g])
        BY <1>1, <2>9, <3>3 DEF NInv
      <4>2. QED
        BY <4>1, OneAt
    <3>4. QED
      BY <3>1, <3>2, <3>3
  <2>11. \A g \in Fds : sock[g].st = "connected" =>
           /\ sock'[g].st = "connected"
           /\ sock'[g].local = sock[g].local /\ sock'[g].peer = sock[g].peer
    BY <2>4, <2>8, <2>9
  <2>12. ASSUME NEW g \in Fds PROVE Paired(g)'
    <3>1. CASE g = NewFd
      BY <2>6, <2>8, <3>1 DEF Paired
    <3>2. CASE g = c
      BY <2>5, <2>6, <2>8, <3>2 DEF Paired
    <3>3. CASE g \notin {c, NewFd}
      <4>1. sock'[g].mate = sock[g].mate
        BY <2>7, <2>9, <3>3
      <4>2. QED
        BY <2>11, <4>1, PairsKept
    <3>4. QED
      BY <3>1, <3>2, <3>3
  <2>13. ASSUME NEW g \in Fds PROVE Queued(g)'
    <3>1. CASE g = fd
      <4>1. \A i \in 1..Len(sock'[g].pend) :
              \E j \in 1..Len(sock[g].pend) : sock'[g].pend[i] = sock[g].pend[j]
        <5>1. \A i \in 1..Len(Tail(q)) : i + 1 \in 1..Len(q) /\ Tail(q)[i] = q[i + 1]
          BY <2>2 DEF Accepts
        <5>2. \A i \in 1..Len(Tail(q)) : \E j \in 1..Len(q) : Tail(q)[i] = q[j]
          BY <5>1
        <5>3. sock'[g].pend = Tail(q) /\ sock[g].pend = q
          BY <2>1, <2>7, <3>1
        <5>4. QED
          BY <5>2, <5>3
      <4>2. QED
        BY <2>7, <2>11, <3>1, <4>1, QueueStays
    <3>2. CASE g = NewFd
      <4>1. Len(sock'[g].pend) = 0
        BY <2>6, <3>2, TupleLengths
      <4>2. QED
        BY <4>1 DEF Queued
    <3>3. CASE g \notin {fd, NewFd}
      <4>1. sock'[g].pend = sock[g].pend /\ sock'[g].local = sock[g].local
        BY <2>8, <2>9, <3>3
      <4>2. QED
        BY <2>11, <4>1, QueueStays
    <3>4. QED
      BY <3>1, <3>2, <3>3
  <2>14. QED
    BY <1>1, <2>10, <2>12, <2>13 DEF NInv, Fds
<1>4. QED
  BY <1>2, <1>3
LEMMA InitN == Init => NInv
<1> SUFFICES ASSUME Init PROVE NInv
  OBVIOUS
<1>1. DOMAIN user = Fds /\ \A f \in Fds : sock[f] = Unused /\ user[f] = NoUser
  BY DEF Init, NoUser
<1>2. /\ Unused.st = "free" /\ Unused.mate = 0 /\ Unused.pend = <<>>
      /\ NoUser.bound = NoAddr /\ NoUser.dialed = NoAddr
  BY DEF Unused, NoUser
<1>3. One(Unused, NoUser)
  BY <1>2 DEF One, Placed, BoundTo, DialedTo, NoUser, Bound
<1>4. \A f \in Fds : Paired(f) /\ Queued(f)
  BY <1>1, <1>2, TupleLengths DEF Paired, Queued
<1>5. QED
  BY <1>1, <1>3, <1>4 DEF NInv

LEMMA OnSocketN ==
  ASSUME TInv, NInv, Frozen, kind \in DOMAIN Families, NEW fd \in known, OnSocket(fd)
  PROVE  NInv'
<1>1. fd \in Fds
  BY DEF TInv, Known
<1>2. ASSUME NEW bad, SocketLocalAddr(fd, bad) \/ SocketPeerAddr(fd, bad) PROVE NInv'
  BY <1>2, UnchangedN DEF SocketLocalAddr, SocketPeerAddr
<1>3. ASSUME NEW opt, NEW bad, SocketSetOpt(fd, opt, bad) \/ SocketGetOpt(fd, opt, bad)
      PROVE  NInv'
  BY <1>3, UnchangedN DEF SocketSetOpt, SocketGetOpt, Refuse
<1>4. QED
  BY <1>1, <1>2, <1>3, SocketBindN, SocketConnectN, SocketListenN, SocketAcceptN, SocketSendToN,
     SocketRecvFromN, SocketShutdownN DEF OnSocket

\* The types of TypeInv, and the names.
AllNamed == TypeInv /\ NInv

LEMMA NamedStep == AllNamed /\ [Next]_vars => AllNamed'
<1> SUFFICES ASSUME AllNamed, [Next]_vars PROVE AllNamed'
  OBVIOUS
<1>1. Frozen
  BY DEF Next, vars, Frozen
<1>2. TInv /\ NInv /\ kind \in DOMAIN Families
  BY DEF AllNamed, TypeInv
<1>3. NInv'
  <2>1. CASE UNCHANGED vars
    BY <1>1, <1>2, <2>1, UnchangedN DEF vars
  <2>2. ASSUME NEW bad, SocketOpen(kind, bad) PROVE NInv'
    BY <1>1, <1>2, <2>2, SocketOpenN
  <2>3. ASSUME NEW fd \in known, OnSocket(fd) PROVE NInv'
    BY <1>1, <1>2, <2>3, OnSocketN
  <2>4. ASSUME Lookup PROVE NInv'
    <3>1. UNCHANGED sock /\ UNCHANGED user
      BY <2>4 DEF Lookup, SocketAddrIP, ResolvePort, SocketAddrPort, Refuse
    <3>2. QED
      BY <1>1, <1>2, <3>1, UnchangedN
  <2>5. QED
    BY <2>1, <2>2, <2>3, <2>4 DEF Next
<1>4. TypeInv'
  BY TypeStep DEF AllNamed
<1>5. QED
  BY <1>3, <1>4 DEF AllNamed
-----------------------------------------------------------------------------
(* What the guest is told.                                                 *)

LEMMA RefuseFields ==
  ASSUME NEW op, NEW fd, NEW bad, Refuse(op, fd, bad)
  PROVE  call'.op = op
  BY DEF Refuse, NoCall

\* Three calls answer with a name.
Naming == {"localaddr", "peeraddr", "accept"}
LEMMA NamingCalls ==
  ASSUME Next, call'.op \in Naming
  PROVE  \E fd \in known : \E bad :
           SocketLocalAddr(fd, bad) \/ SocketPeerAddr(fd, bad) \/ SocketAccept(fd, bad)
<1>1. ASSUME NEW bad, SocketOpen(kind, bad) PROVE call'.op \notin Naming
  BY <1>1 DEF SocketOpen, NoCall, Naming
<1>2. ASSUME Lookup PROVE call'.op \notin Naming
  <2>1. ASSUME NEW op, NEW network, NEW host, NEW bad, SocketAddrIP(op, network, host, bad)
        PROVE  call'.op = "addrip"
    BY <2>1, RefuseFields DEF SocketAddrIP, AddrIP, NoCall
  <2>2. ASSUME NEW service, NEW bad, ResolvePort(service, bad)
        PROVE  call'.op = "addrport"
    BY <2>2, RefuseFields, ReplyWithFields DEF ResolvePort, SocketAddrPort, NoCall
  <2>3. call'.op \in {"addrip", "addrport"}
    BY <1>2, <2>1, <2>2 DEF Lookup
  <2>4. QED
    BY <2>3 DEF Naming
<1>3. PICK fd \in known : OnSocket(fd)
  BY <1>1, <1>2 DEF Next
<1>4. ASSUME NEW a, NEW bad, SocketBind(fd, a, bad) \/ SocketConnect(fd, a, bad)
      PROVE  call'.op \notin Naming
  BY <1>4, RefuseFields, ReplyFields DEF SocketBind, SocketConnect, Naming
<1>5. ASSUME SocketListen(fd) PROVE call'.op \notin Naming
  BY <1>5, ReplyFields DEF SocketListen, Naming
<1>6. ASSUME NEW size, NEW bad, SocketSendTo(fd, size, bad) \/ SocketRecvFrom(fd, size, bad)
      PROVE  call'.op \notin Naming
  BY <1>6, RefuseFields, ReplyWithFields DEF SocketSendTo, SocketRecvFrom, Naming
<1>7. ASSUME NEW how, SocketShutdown(fd, how) PROVE call'.op \notin Naming
  BY <1>7, ReplyFields DEF SocketShutdown, Naming
<1>8. ASSUME NEW opt \in Opts, NEW bad, SocketSetOpt(fd, opt, bad) \/ SocketGetOpt(fd, opt, bad)
      PROVE  call'.op \notin Naming
  <2>1. call'.op \in {"setopt", "getopt"} \cup Opts
    BY <1>8, RefuseFields, ReplyWithFields DEF SocketSetOpt, SocketGetOpt
  <2>2. QED
    BY <2>1 DEF Naming, Opts
<1>9. QED
  BY <1>3, <1>4, <1>5, <1>6, <1>7, <1>8 DEF OnSocket

\* An answer with a name, of a call that names a socket.
LEMMA NameFields ==
  ASSUME NEW op, NEW fd, NEW bad, NEW err, NEW addr, NEW n, NEW moved,
         ReplyWith(op, fd, bad, err, addr, n, moved)
  PROVE  /\ call'.op = op /\ call'.fd = fd /\ call'.addr = addr
         /\ err # "ok" => call'.told = Told(err)
  BY DEF ReplyWith, NoCall

LEMMA LocalAnswer ==
  ASSUME NEW fd, NEW bad, SocketLocalAddr(fd, bad)
  PROVE  /\ call'.op = "localaddr" /\ call'.fd = fd /\ UNCHANGED sock /\ UNCHANGED user
         /\ build = "guest" => call'.addr = View(sock[fd].fam, sock[fd].local)
  BY NameFields DEF SocketLocalAddr, Name

LEMMA PeerAnswer ==
  ASSUME NEW fd, NEW bad, SocketPeerAddr(fd, bad)
  PROVE  /\ call'.op = "peeraddr" /\ call'.fd = fd /\ UNCHANGED sock /\ UNCHANGED user
         /\ build = "guest" /\ sock[fd].st = "connected" =>
              call'.addr = View(sock[fd].fam, sock[fd].peer)
  BY NameFields DEF SocketPeerAddr, Name

\* For the port 0 it is told the port that the host picked.
LEMMA PickedRoundTrip ==
  ASSUME NEW k \in DOMAIN Families, NEW a, StreamAddr(a), NetaddrAFFamily(a) = Families[k],
         ~Asked(a), NEW p \in Nat
  PROVE  Same(View(k, [Native(k, a) EXCEPT !.port = p]), [a EXCEPT !.port = p])
<1> DEFINE b == [a EXCEPT !.port = p]
<1>1. a = Addr("tcp", a.ip, a.port, <<>>) /\ a.kind = "tcp" /\ k \in {"inet", "inet6"}
  <2>1. a.kind # "unix"
    BY DEF Asked
  <2>2. a = Addr("tcp", a.ip, a.port, <<>>)
    BY <2>1 DEF StreamAddr, Addr
  <2>3. k # "unix"
    BY <2>1, NativeForms
  <2>4. QED
    BY <2>2, <2>3, FamilyOfNumber DEF Addr
<1>2. b = Addr("tcp", a.ip, p, <<>>)
  BY <1>1 DEF Addr
<1>3. b.kind = "tcp" /\ b.ip = a.ip /\ b.port = p
  BY <1>2 DEF Addr
<1> HIDE DEF b
<1>4. StreamAddr(b)
  BY <1>1, <1>2, <1>3 DEF StreamAddr, Addr
<1>5. NetaddrAFFamily(b) = Families[k]
  BY <1>1, <1>3 DEF NetaddrAFFamily
<1>6. Native(k, b) = [Native(k, a) EXCEPT !.port = p]
  BY <1>1, <1>3, <1>4, <1>5, NativeForms DEF Addr
<1>7. Same(View(k, Native(k, b)), b)
  BY <1>3, <1>4, <1>5, RoundTrip
<1>8. QED
  BY <1>6, <1>7 DEF b

\* A bound socket tells its user the address that it was bound to, in whatever form the
\* IP came, with the port that the host picked when it was to pick one; and a name that
\* the host took is not cut on the way: not to the size of the raw address, nor to the
\* "@" of a socket without one.
THEOREM BoundNamesKept == Spec => []BoundNameIsKept
<1>1. Init => AllNamed /\ BoundNameIsKept
  <2>1. NoCall.op = "none"
    BY DEF NoCall
  <2>2. QED
    BY <2>1, InitN, TypeInit DEF Init, AllNamed, BoundNameIsKept
<1>2. AllNamed /\ Next => BoundNameIsKept'
  <2> SUFFICES ASSUME AllNamed, Next, build' = "guest", call'.op = "localaddr",
                      user'[call'.fd].bound # NoAddr, NEW a, a = user'[call'.fd].bound
               PROVE  /\ Same(call'.addr, IF Asked(a) THEN a
                                          ELSE [a EXCEPT !.port = sock'[call'.fd].local.port])
                      /\ a.kind = "tcp" => call'.addr.port # 0
    BY DEF BoundNameIsKept, Asked
  <2>1. PICK fd \in known : \E bad : SocketLocalAddr(fd, bad)
    <3>1. \A fd, bad : SocketAccept(fd, bad) => call'.op = "accept"
      BY ReplyFields DEF SocketAccept, NoCall
    <3>2. QED
      BY <3>1, PeerAnswer, NamingCalls DEF Naming
  <2>2. build = "guest" /\ fd \in Fds /\ kind \in DOMAIN Families
    BY DEF Next, AllNamed, TypeInv, TInv, Known
  <2> DEFINE local == sock[fd].local
  <2>3. /\ call'.fd = fd /\ a = user[fd].bound /\ sock'[call'.fd].local = local
        /\ call'.addr = View(sock[fd].fam, local)
    BY <2>1, <2>2, LocalAnswer
  <2>4. /\ sock[fd].fam = kind /\ GivenTo(Native(kind, a), local)
        /\ a \in Binds /\ NetaddrAFFamily(a) = Families[kind]
        /\ Len(local.name) < SunPath
    BY <2>2, <2>3 DEF AllNamed, NInv, One, Placed, BoundTo
  <2> HIDE DEF local
  <2>5. StreamAddr(a) /\ (a.kind = "unix" => a.name # <<>>)
    BY <2>4, NamesAssumption
  <2>6. Asked(Native(kind, a)) <=> Asked(a)
    <3>1. CASE a.kind = "unix"
      <4>1. Native(kind, a).kind = "unix"
        BY <2>2, <2>4, <2>5, <3>1, NativeForms DEF Addr
      <4>2. QED
        BY <3>1, <4>1 DEF Asked
    <3>2. CASE a.kind = "tcp"
      <4>1. Native(kind, a).kind # "unix" /\ Native(kind, a).port = a.port
        BY <2>2, <2>4, <2>5, <3>2, NativeForms DEF Addr
      <4>2. QED
        BY <3>2, <4>1 DEF Asked
    <3>3. QED
      BY <2>5, <3>1, <3>2 DEF StreamAddr, Addr
  <2>7. CASE Asked(a)
    <3>1. local = Native(kind, a)
      BY <2>4, <2>6, <2>7 DEF GivenTo
    <3>2. Len(Native(kind, a).name) < NameBuf
      <4>1. Len(Native(kind, a).name) \in Nat
        BY <2>2, <2>4, <2>5, NativeNamed, NamedLength
      <4>2. QED
        BY <2>4, <3>1, <4>1, HostCallAssumption, AddressAssumption
    <3>3. Same(View(kind, Native(kind, a)), a)
      BY <2>2, <2>4, <2>5, <3>2, RoundTrip
    <3>4. Same(call'.addr, a)
      BY <2>3, <2>4, <3>1, <3>3
    <3>5. QED
      BY <2>7, <3>4 DEF Same, Asked
  <2>8. CASE ~Asked(a)
    <3>1. PICK p \in Ephemeral : local = [Native(kind, a) EXCEPT !.port = p]
      BY <2>4, <2>6, <2>8 DEF GivenTo
    <3>2. p \in Nat /\ p # 0
      BY HostCallAssumption DEF Ephemeral
    <3>3. local.port = p
      BY <2>2, <2>4, <2>5, <3>1, NativeForms DEF Addr
    <3>4. Same(call'.addr, [a EXCEPT !.port = p])
      BY <2>2, <2>3, <2>4, <2>5, <2>8, <3>1, <3>2, PickedRoundTrip
    <3>5. a.kind = "tcp" => [a EXCEPT !.port = p].port = p
      BY <2>5 DEF StreamAddr, Addr
    <3>6. a.kind = "tcp" => call'.addr.port # 0
      BY <3>2, <3>4, <3>5 DEF Same
    <3>7. QED
      BY <2>3, <2>8, <3>3, <3>4, <3>6
  <2>9. QED
    BY <2>7, <2>8
<1>3. BoundNameIsKept /\ UNCHANGED vars => BoundNameIsKept'
  BY DEF vars, BoundNameIsKept
<1>4. QED
  BY <1>1, <1>2, <1>3, NamedStep, PTL DEF Spec

\* The peer of who dialed a unix name, in any state.
LEMMA DialedName ==
  ASSUME AllNamed, NEW f \in Fds, NEW asked, asked = user[f].dialed.name,
         asked # <<>>, Len(asked) <= NameBuf
  PROVE  /\ Reaches(asked, sock[f].peer.name)
         /\ kind = "unix"
<1> DEFINE a == user[f].dialed
           met == sock[f].peer.name
<1>1. NoAddr.name = <<>> /\ kind \in DOMAIN Families /\ build \in {"guest", "native"}
  BY DEF NoAddr, Addr, AllNamed, TypeInv
<1>2. /\ a \in Dials /\ NetaddrAFFamily(a) = Families[kind]
      /\ sock[f].peer = Target(Native(kind, a))
  BY <1>1 DEF AllNamed, NInv, One, DialedTo
<1> HIDE DEF a, met
<1>3. StreamAddr(a) /\ asked = a.name
  BY <1>2, NamesAssumption DEF a
<1>4. a.kind = "unix"
  BY <1>3 DEF StreamAddr, Addr
<1>5. asked \in Seq(STRING) /\ Native(kind, a) = Addr("unix", <<>>, 0, Kept(asked))
      /\ kind = "unix"
  BY <1>1, <1>2, <1>3, <1>4, NativeForms
<1>6. Native(kind, a) = Addr("unix", <<>>, 0, asked)
  BY <1>5, KeptName
<1>7. CASE build = "native"
  BY <1>2, <1>5, <1>6, <1>7 DEF Target, Addr, Reaches, met
<1>8. CASE build = "guest"
  <2>1. met = Remap(asked)
    BY <1>2, <1>6, <1>8 DEF Target, Addr, met
  <2>2. Reaches(asked, met)
    BY <1>5, <1>8, <2>1, RemapReaches DEF Reaches, Longest
  <2>3. QED
    BY <1>5, <2>2 DEF met
<1>9. QED
  BY <1>1, <1>7, <1>8

\* A connected unix socket has the peer that its name means to fsremap: the cleaned name,
\* or what a longest prefix of its bytes makes of it; and as it is in a native build.
THEOREM DialsReachTheirNames == Spec => []DialReachesItsName
<1>1. Init => AllNamed
  BY InitN, TypeInit DEF AllNamed
<1>2. AllNamed => DialReachesItsName
  BY DialedName DEF DialReachesItsName
<1>3. QED
  BY <1>1, <1>2, NamedStep, PTL DEF Spec

\* Connect's remapped name and Bind's, which is not remapped, agree wherever somebody waits
\* to be accepted: the name that was dialed means the one that the listener bound.
THEOREM DialsMeetTheirBinders == Spec => []DialMeetsItsBinder
<1>1. Init => AllNamed
  BY InitN, TypeInit DEF AllNamed
<1>2. AllNamed => DialMeetsItsBinder
  <2> SUFFICES ASSUME AllNamed, NEW g \in Fds, NEW f \in ToSet(sock[g].pend),
                      NEW asked, asked = user[f].dialed.name, asked # <<>>, Len(asked) <= NameBuf
               PROVE  Reaches(asked, user[g].bound.name)
    BY DEF DialMeetsItsBinder
  <2>1. PICK i \in 1..Len(sock[g].pend) : f = sock[g].pend[i]
    <3>1. sock[g].pend \in Seq(Fds)
      BY DEF AllNamed, TypeInv, TInv, Sockets, Socket
    <3>2. DOMAIN sock[g].pend = 1..Len(sock[g].pend)
      BY <3>1, LenProperties
    <3>3. QED
      BY <3>2 DEF ToSet
  <2>2. f \in Fds
    <3>1. sock[g].pend \in Seq(Fds)
      BY DEF AllNamed, TypeInv, TInv, Sockets, Socket
    <3>2. QED
      BY <2>1, <3>1, ElementOfSeq
  <2>3. Reaches(asked, sock[f].peer.name) /\ kind = "unix"
    BY <2>2, DialedName
  <2>4. sock[g].local.name = sock[f].peer.name
    BY <2>1 DEF AllNamed, NInv, Queued, Meets
  <2>5. One(sock[g], user[g]) /\ sock[g].pend # <<>>
    BY <2>1, TupleLengths DEF AllNamed, NInv
  <2>6. user[g].bound # NoAddr
    BY <2>5 DEF One, Placed, Bound
  <2> DEFINE b == user[g].bound
  <2>7. /\ b \in Binds /\ NetaddrAFFamily(b) = Families[kind]
        /\ GivenTo(Native(kind, b), sock[g].local) /\ Len(sock[g].local.name) < SunPath
    BY <2>5, <2>6 DEF One, BoundTo
  <2> HIDE DEF b
  <2>8. /\ b.name \in Seq(STRING)
        /\ Native(kind, b) = Addr("unix", <<>>, 0, Kept(b.name))
    BY <2>3, <2>7, NamesAssumption, NativeForms DEF AllNamed, TypeInv
  <2>9. sock[g].local.name = Kept(b.name)
    BY <2>7, <2>8 DEF GivenTo, Asked, Addr
  <2>10. Len(Kept(b.name)) < NameBuf
    <3>1. Len(Kept(b.name)) \in Nat
      BY <2>8, KeptName, LenProperties
    <3>2. QED
      BY <2>7, <2>9, <3>1, HostCallAssumption, AddressAssumption
  <2>11. Kept(b.name) = b.name
    BY <2>8, <2>10, KeptName
  <2>12. QED
    BY <2>3, <2>4, <2>9, <2>11 DEF b
<1>3. QED
  BY <1>1, <1>2, NamedStep, PTL DEF Spec

\* Who accepted a connection and who dialed it are told each other's names, at Accept
\* and at any time after it, for every family and whatever the dialer was bound to.
THEOREM EndsNamed == Spec => []EndsNameEachOther
<1>1. Init => AllNamed /\ EndsNameEachOther
  <2>1. NoCall.op = "none"
    BY DEF NoCall
  <2>2. QED
    BY <2>1, InitN, TypeInit DEF Init, AllNamed, EndsNameEachOther
<1>2. AllNamed /\ Next => EndsNameEachOther'
  <2> SUFFICES ASSUME AllNamed, Next,
                      call'.op = "accept" \/ (call'.op = "peeraddr" /\ build' = "guest"),
                      call'.told = Guest.ok, call'.bad = {}, sock'[call'.fd].mate # 0
               PROVE  Same(call'.addr, Seen(sock'[sock'[call'.fd].mate].local))
    BY DEF EndsNameEachOther, Seen
  <2>1. TInv /\ NInv /\ kind \in DOMAIN Families
    BY DEF AllNamed, TypeInv
  <2>2. PICK fd \in known : \E bad : SocketPeerAddr(fd, bad) \/ SocketAccept(fd, bad)
    BY NamingCalls, LocalAnswer DEF Naming
  <2>3. PICK bad : SocketPeerAddr(fd, bad) \/ SocketAccept(fd, bad)
    BY <2>2
  <2>4. fd \in Fds
    BY <2>1 DEF TInv, Known
  <2>5. CASE SocketPeerAddr(fd, bad)
    <3>1. call'.fd = fd /\ sock' = sock /\ build = "guest"
      BY <2>5, PeerAnswer DEF Next
    <3> DEFINE m == sock[fd].mate
    <3>2. /\ m \in Fds /\ sock[fd].st = "connected" /\ sock[m].st = "connected"
          /\ sock[fd].peer = sock[m].local
      <4>1. m # 0
        BY <3>1
      <4>2. m \in Fds
        BY <2>1, <2>4, <4>1 DEF TInv, Sockets, Socket
      <4>3. QED
        BY <2>1, <2>4, <4>1, <4>2 DEF NInv, Paired
    <3> HIDE DEF m
    <3>3. NamedAs(kind, sock[m].local) /\ sock[fd].fam = kind
      BY <2>1, <2>4, <3>2 DEF NInv, One, Placed
    <3>4. call'.addr = View(kind, sock[m].local)
      BY <2>5, <3>1, <3>2, <3>3, PeerAnswer
    <3>5. Same(call'.addr, Seen(sock[m].local))
      BY <2>1, <3>3, <3>4, ViewIsSame
    <3>6. QED
      BY <3>1, <3>5 DEF m
  <2>6. CASE SocketAccept(fd, bad)
    <3>1. AcceptError(fd) = "ok"
      <4> SUFFICES ASSUME AcceptError(fd) # "ok" PROVE FALSE
        OBVIOUS
      <4>1. call'.told = Told(AcceptError(fd))
        BY <2>6, ReplyFields DEF SocketAccept
      <4>2. AcceptError(fd) \in DOMAIN Host
        BY DEF AcceptError, Host
      <4>3. QED
        BY <4>1, <4>2, ErrorsAreTold, Zero
    <3>2. PICK q, c : q = sock[fd].pend /\ c = Head(q)
      OBVIOUS
    <3>3. Accepts(fd, q, c)
      BY <2>1, <2>4, <2>6, <3>1, <3>2, AcceptMoves
    <3>4. /\ call'.fd = NewFd /\ call'.bad = bad
          /\ InMemory(bad, "addr") => call'.addr = View(sock[fd].fam, sock[c].local)
      BY <2>6, <3>1, <3>2 DEF SocketAccept, NoCall
    <3>5. InMemory(bad, "addr")
      BY <3>4 DEF InMemory
    <3>6. sock[fd].st = "listening" /\ sock[c].st = "connected" /\ c \in Fds
      BY <3>3 DEF Accepts
    <3>7. NamedAs(kind, sock[c].local) /\ sock[fd].fam = kind
      BY <2>1, <2>4, <3>6 DEF NInv, One, Placed
    <3>8. Same(call'.addr, Seen(sock[c].local))
      BY <2>1, <3>4, <3>5, <3>7, ViewIsSame
    <3>9. sock'[NewFd].mate = c
      BY <3>3 DEF Accepts, Accepted, Unused
    <3>10. sock'[c].local = sock[c].local
      <4>1. sock'[c] = [sock[c] EXCEPT !.mate = NewFd]
        BY <3>3 DEF Accepts
      <4>2. sock[c] \in Socket(sock[c])
        BY <2>1, <3>6 DEF TInv, Sockets
      <4>3. QED
        BY <4>1, <4>2 DEF Socket
    <3>11. QED
      BY <3>4, <3>8, <3>9, <3>10
  <2>7. QED
    BY <2>3, <2>5, <2>6
<1>3. EndsNameEachOther /\ UNCHANGED vars => EndsNameEachOther'
  BY DEF vars, EndsNameEachOther
<1>4. QED
  BY <1>1, <1>2, <1>3, NamedStep, PTL DEF Spec
=============================================================================
