----------------------------- MODULE MCHostCall -----------------------------
(***************************************************************************)
(* An instance of HostCall for TLC: an IPv4 address in both its forms, an  *)
(* IPv6 one, no particular one and a port that the host picks; names       *)
(* outside and inside nested prefixes, one that only begins like a prefix, *)
(* one with a slash too many, and one too long.                            *)
(***************************************************************************)
EXTENDS HostCall

TCPAddr(ip, port) == Addr("tcp", ip, port, <<>>)
UnixName(n) == Addr("unix", <<>>, 0, n)

MCBinds ==
  {TCPAddr(<<0, "ffff", 1>>, 1), TCPAddr(<<0>>, 0),
   TCPAddr(<<1, "zero", 1>>, 1), TCPAddr(ZeroIP, 0),
   UnixName(<<"/", "h", "/", "a">>), UnixName(<<"/", "t", "/", "a">>),
   UnixName(<<"t", "o", "o", "l", "o", "n", "g", "!">>)}
MCDials ==
  {TCPAddr(<<1>>, 1), TCPAddr(<<0, "ffff", 1>>, 101),
   TCPAddr(<<1, "zero", 1>>, 1), TCPAddr(<<1, "zero", 1>>, 101),
   UnixName(<<"/", "h", "/", "a">>), UnixName(<<"/", "t", "/", "a">>),
   UnixName(<<"/", "t", "/", "i", "/", "a">>), UnixName(<<"/", "t", "a", "/">>)}
MCServices == {<<"/", "d", "/", "a">>, <<"/", "h", "/", "i", "/", "a">>}
MCPrefixes ==
  << [guest |-> <<"/", "t", "/", "i">>, host |-> <<"/", "d">>],
     [guest |-> <<"/", "t">>, host |-> <<"/", "h">>] >>

=============================================================================
