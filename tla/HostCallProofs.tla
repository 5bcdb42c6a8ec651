--------------------------- MODULE HostCallProofs ---------------------------
(***************************************************************************)
(* Theorems about the host functions, for any number of descriptors, any   *)
(* addresses, prefixes and bounds.                                         *)
(***************************************************************************)
EXTENDS HostCall, WellFoundedInduction, SequenceTheorems, TLAPS

-----------------------------------------------------------------------------
(* No error is told as a success.                                          *)

LEMMA Zero == Host.ok = 0 /\ Guest.ok = 0 /\ Numbers.ok = 0
  BY DEF Host, Guest, Numbers

LEMMA HostNumbers ==
  \A e \in DOMAIN Host : e # "ok" => Host[e] # 0
  BY DEF Host

LEMMA GuestNumbers ==
  \A e \in DOMAIN Guest : e # "ok" => Guest[e] # 0
  BY DEF Guest

\* The table gives zero to zero only.
LEMMA TableKeepsErrors ==
  ASSUME NEW n, n # 0
  PROVE  ErrnoTranslate(n) # 0
<1>1. CASE n \notin DOMAIN mapped
  BY <1>1 DEF ErrnoTranslate
<1>2. CASE n \in DOMAIN mapped
  <2>1. n \in {Host[e] : e \in DOMAIN Guest} \cup {Host.EADDRNOTAVAIL}
    BY <1>2 DEF mapped
  <2>2. CASE n = Host.EADDRNOTAVAIL
    BY <1>2, <2>1, <2>2 DEF ErrnoTranslate, mapped
  <2>3. CASE n # Host.EADDRNOTAVAIL
    <3> DEFINE e == CHOOSE x \in DOMAIN Guest : Host[x] = n
    <3>1. e \in DOMAIN Guest /\ Host[e] = n
      BY <2>1, <2>3
    <3>2. e # "ok"
      BY <3>1, Zero
    <3>3. ErrnoTranslate(n) = Guest[e]
      BY <1>2, <2>1, <2>3 DEF ErrnoTranslate, mapped
    <3>4. QED
      BY <3>1, <3>2, <3>3, GuestNumbers
  <2>4. QED
    BY <2>2, <2>3
<1>3. QED
  BY <1>1, <1>2

LEMMA EFaultIsTold == TranslateErrno("EFAULT") # 0 /\ Fault # 0
<1>1. "EFAULT" \in DOMAIN Host /\ "EFAULT" \notin Causes
  BY DEF Host, Causes
<1>2. Errno("EFAULT") = 14 /\ Fault = 14
  BY <1>1 DEF Errno, Host, Fault, Untranslated
<1>3. QED
  BY <1>2, TableKeepsErrors DEF TranslateErrno, Panic

LEMMA ErrorsAreTold ==
  ASSUME NEW err \in DOMAIN Host, err # "ok"
  PROVE  Told(err) # 0
<1>1. err \notin Causes
  BY DEF Host, Causes
<1>2. Errno(err) # 0
  BY <1>1, HostNumbers DEF Errno
<1>3. TranslateErrno(err) # 0
  BY <1>2, TableKeepsErrors DEF TranslateErrno, Panic
<1>4. QED
  BY <1>2, <1>3 DEF Told

-----------------------------------------------------------------------------
(* What one call does, for both theorems.                                  *)

\* The call's unreadable inputs, and what it was told of what it did.
Harmless == call'.bad \cap Inputs(call'.op) # {} => UNCHANGED <<sock, known, user>>
Step == Harmless /\ SuccessIsWhole'

Simple == {"bind", "connect", "listen", "shutdown", "localaddr", "peeraddr", "getopt", "addrip",
           "addrport"} \cup Opts

LEMMA RefuseStep ==
  ASSUME NEW op, NEW fd, NEW bad, Refuse(op, fd, bad), op \notin {"open", "accept"}
  PROVE  Step
<1>1. call'.n = 0 /\ call'.moved = 0 /\ call'.op = op
  BY DEF Refuse, NoCall
<1>2. UNCHANGED <<sock, known, user>>
  BY DEF Refuse
<1>3. QED
  BY <1>1, <1>2 DEF Step, Harmless, SuccessIsWhole

\* An operation that moves no bytes and makes no descriptor keeps SuccessIsWhole.
LEMMA SimpleWhole ==
  ASSUME call'.op \in Simple
  PROVE  SuccessIsWhole'
  BY DEF SuccessIsWhole, Simple, Opts

LEMMA ReplyFields ==
  ASSUME NEW op, NEW fd, NEW bad, NEW err, Reply(op, fd, bad, err)
  PROVE  call'.op = op /\ call'.bad = bad /\ call'.told = Told(err)
  BY DEF Reply, NoCall

LEMMA ReplyWithFields ==
  ASSUME NEW op, NEW fd, NEW bad, NEW err, NEW addr, NEW n, NEW moved,
         ReplyWith(op, fd, bad, err, addr, n, moved)
  PROVE  /\ call'.op = op /\ call'.bad = bad /\ call'.n = n /\ call'.moved = moved
         /\ err = "ok" /\ ~InMemory(bad, "result") => call'.told # 0
  BY EFaultIsTold DEF ReplyWith, NoCall

LEMMA SocketOpenStep ==
  ASSUME NEW fam, NEW bad, SocketOpen(fam, bad)
  PROVE  Step
<1>1. call'.op = "open" /\ Inputs(call'.op) = {}
  BY DEF SocketOpen, NoCall, Inputs
<1>2. Harmless
  BY <1>1 DEF Harmless
<1>3. CASE InMemory(bad, "result") /\ Free # {}
  <2>1. call'.fd = NewFd /\ NewFd \in known'
    BY <1>3 DEF SocketOpen, NoCall
  <2>2. QED
    BY <1>1, <1>2, <2>1 DEF Step, SuccessIsWhole
<1>4. CASE InMemory(bad, "result") /\ Free = {}
  <2>1. "EMFILE" \in DOMAIN Host
    BY DEF Host
  <2>2. call'.told = Told("EMFILE")
    BY <1>4 DEF SocketOpen, NoCall
  <2>3. call'.told # 0
    BY <2>1, <2>2, ErrorsAreTold
  <2>4. QED
    BY <1>2, <2>3, Zero DEF Step, SuccessIsWhole
<1>5. CASE ~InMemory(bad, "result")
  <2>1. call'.told = Fault
    BY <1>5 DEF SocketOpen, NoCall
  <2>2. QED
    BY <1>2, <2>1, EFaultIsTold, Zero DEF Step, SuccessIsWhole
<1>6. QED
  BY <1>3, <1>4, <1>5

LEMMA SocketBindStep ==
  ASSUME NEW fd, NEW a, NEW bad, SocketBind(fd, a, bad)
  PROVE  Step
<1>1. CASE ~InMemory(bad, "addr")
  BY <1>1, RefuseStep DEF SocketBind
<1>2. CASE InMemory(bad, "addr")
  <2>1. \E err : Reply("bind", fd, bad, err)
    BY <1>2 DEF SocketBind
  <2>2. call'.op = "bind" /\ call'.bad = bad
    BY <2>1, ReplyFields
  <2>3. Harmless
    BY <1>2, <2>2 DEF Harmless, Inputs, InMemory
  <2>4. QED
    BY <2>2, <2>3, SimpleWhole DEF Step, Simple
<1>3. QED
  BY <1>1, <1>2

LEMMA SocketConnectStep ==
  ASSUME NEW fd, NEW a, NEW bad, SocketConnect(fd, a, bad)
  PROVE  Step
<1>1. CASE ~InMemory(bad, "addr")
  BY <1>1, RefuseStep DEF SocketConnect
<1>2. CASE InMemory(bad, "addr")
  <2>1. \E err : Reply("connect", fd, bad, err)
    BY <1>2 DEF SocketConnect
  <2>2. call'.op = "connect" /\ call'.bad = bad
    BY <2>1, ReplyFields
  <2>3. Harmless
    BY <1>2, <2>2 DEF Harmless, Inputs, InMemory
  <2>4. QED
    BY <2>2, <2>3, SimpleWhole DEF Step, Simple
<1>3. QED
  BY <1>1, <1>2

\* Operations without an input in memory that can be bad.
LEMMA NoInput ==
  ASSUME call'.op \in Simple, call'.op \notin {"bind", "connect"}
  PROVE  Step
<1>1. Inputs(call'.op) = {}
  BY DEF Inputs, Simple, Opts
<1>2. QED
  BY <1>1, SimpleWhole DEF Step, Harmless

LEMMA SocketListenStep ==
  ASSUME NEW fd, SocketListen(fd)
  PROVE  Step
<1>1. call'.op = "listen"
  BY ReplyFields DEF SocketListen
<1>2. QED
  BY <1>1, NoInput DEF Simple

LEMMA SocketShutdownStep ==
  ASSUME NEW fd, NEW how, SocketShutdown(fd, how)
  PROVE  Step
<1>1. call'.op = "shutdown"
  BY ReplyFields DEF SocketShutdown
<1>2. QED
  BY <1>1, NoInput DEF Simple

LEMMA SocketAcceptStep ==
  ASSUME NEW fd, NEW bad, SocketAccept(fd, bad)
  PROVE  Step
<1>1. CASE AcceptError(fd) # "ok"
  <2>1. Reply("accept", fd, bad, AcceptError(fd))
    BY <1>1 DEF SocketAccept
  <2>2. AcceptError(fd) \in DOMAIN Host
    BY DEF AcceptError, Host
  <2>3. call'.op = "accept" /\ call'.told # 0
    BY <1>1, <2>1, <2>2, ReplyFields, ErrorsAreTold
  <2>4. QED
    BY <2>3, Zero DEF Step, Harmless, SuccessIsWhole, Inputs
<1>2. CASE AcceptError(fd) = "ok"
  <2>1. /\ known' = IF InMemory(bad, "result") THEN known \cup {NewFd} ELSE known
        /\ call'.op = "accept" /\ call'.fd = NewFd
        /\ call'.told = IF Answered(bad) THEN Told("ok") ELSE TranslateErrno("EFAULT")
    BY <1>2 DEF SocketAccept, NoCall
  <2>2. call'.told = 0 => call'.fd \in known'
    BY <2>1, EFaultIsTold DEF Answered
  <2>3. QED
    BY <2>1, <2>2, Zero DEF Step, Harmless, SuccessIsWhole, Inputs
<1>3. QED
  BY <1>1, <1>2

LEMMA SocketNameStep ==
  ASSUME NEW fd, NEW bad, SocketLocalAddr(fd, bad) \/ SocketPeerAddr(fd, bad)
  PROVE  Step
<1>1. call'.op \in {"localaddr", "peeraddr"}
  BY ReplyWithFields DEF SocketLocalAddr, SocketPeerAddr
<1>2. QED
  BY <1>1, NoInput DEF Simple

LEMMA SocketSendToStep ==
  ASSUME NEW fd, NEW size, NEW bad, SocketSendTo(fd, size, bad)
  PROVE  Step
<1>1. CASE ~vectorread(bad) \/ ~InMemory(bad, "addr")
  BY <1>1, RefuseStep DEF SocketSendTo
<1>2. CASE vectorread(bad) /\ InMemory(bad, "addr")
  <2>1. PICK err, n :
          /\ ReplyWith("sendto", fd, bad, err, NoAddr, IF InMemory(bad, "result") THEN n ELSE 0, n)
          /\ err # "ok" => n = 0
    BY <1>2 DEF SocketSendTo
  <2>2. /\ call'.op = "sendto" /\ call'.bad = bad /\ call'.moved = n
        /\ call'.n = IF InMemory(bad, "result") THEN n ELSE 0
        /\ err = "ok" /\ ~InMemory(bad, "result") => call'.told # 0
    BY <2>1, ReplyWithFields
  <2>3. Harmless
    BY <1>2, <2>2 DEF Harmless, Inputs, InMemory, vectorread, VectorRead
  <2>4. QED
    BY <2>1, <2>2, <2>3, Zero DEF Step, SuccessIsWhole
<1>3. QED
  BY <1>1, <1>2

LEMMA SocketRecvFromStep ==
  ASSUME NEW fd, NEW size, NEW bad, SocketRecvFrom(fd, size, bad)
  PROVE  Step
<1>1. CASE ~vectorread(bad)
  BY <1>1, RefuseStep DEF SocketRecvFrom
<1>2. CASE vectorread(bad)
  <2> DEFINE err == RecvError(fd)
             m == sock[fd].mate
             n == IF err # "ok" \/ m = 0 THEN 0
                  ELSE IF size <= sock[m].out THEN size ELSE sock[m].out
             named == n > 0 /\ sock[m].local.name # <<>>
             whole == InMemory(bad, "result") /\ (named => InMemory(bad, "addr"))
  <2>1. /\ ReplyWith("recvfrom", fd, IF whole THEN bad \ {"addr"} ELSE {"result"}, err,
                     IF named THEN Pointer ELSE NoAddr, IF whole THEN n ELSE 0, n)
        /\ err # "ok" => n = 0
    BY <1>2 DEF SocketRecvFrom
  <2> HIDE DEF err, n, named, whole
  <2> DEFINE left == IF whole THEN bad \ {"addr"} ELSE {"result"}
  <2>2. /\ call'.op = "recvfrom" /\ call'.bad = left /\ call'.moved = n
        /\ call'.n = IF whole THEN n ELSE 0
        /\ err = "ok" /\ ~InMemory(left, "result") => call'.told # 0
    BY <2>1, ReplyWithFields
  <2>3. Harmless
    BY <1>2, <2>2 DEF Harmless, Inputs, InMemory, vectorread, VectorRead
  <2>4. call'.told = 0 => call'.n = call'.moved
    BY <2>1, <2>2 DEF InMemory
  <2>5. QED
    BY <2>2, <2>3, <2>4, Zero DEF Step, SuccessIsWhole
<1>3. QED
  BY <1>1, <1>2

LEMMA OptionStep ==
  ASSUME NEW fd, NEW opt \in Opts, NEW bad, SocketSetOpt(fd, opt, bad) \/ SocketGetOpt(fd, opt, bad)
  PROVE  Step
<1>1. CASE InMemory(bad, "value")
  <2>1. call'.op \in Opts \cup {"getopt"}
    BY <1>1, ReplyWithFields DEF SocketSetOpt, SocketGetOpt
  <2>2. QED
    BY <2>1, NoInput DEF Simple, Opts
<1>2. CASE ~InMemory(bad, "value")
  BY <1>2, RefuseStep DEF SocketSetOpt, SocketGetOpt
<1>3. QED
  BY <1>1, <1>2

LEMMA LookupStep ==
  ASSUME Lookup
  PROVE  Step
<1>1. call'.op \in {"addrip", "addrport"}
  <2>1. ASSUME NEW op, NEW network, NEW host, NEW bad, SocketAddrIP(op, network, host, bad)
        PROVE  call'.op = "addrip"
    BY <2>1 DEF SocketAddrIP, AddrIP, Refuse, NoCall
  <2>2. ASSUME NEW service, NEW bad, ResolvePort(service, bad)
        PROVE  call'.op = "addrport"
    BY <2>2 DEF ResolvePort, SocketAddrPort, Refuse, ReplyWith, NoCall
  <2>3. QED
    BY <2>1, <2>2 DEF Lookup
<1>2. QED
  BY <1>1, NoInput DEF Simple

LEMMA OnSocketStep ==
  ASSUME NEW fd, OnSocket(fd)
  PROVE  Step
  BY SocketBindStep, SocketConnectStep, SocketListenStep, SocketAcceptStep, SocketNameStep,
     SocketSendToStep, SocketRecvFromStep, SocketShutdownStep, OptionStep DEF OnSocket

LEMMA NextStep == Next => Step
  BY SocketOpenStep, OnSocketStep, LookupStep DEF Next

-----------------------------------------------------------------------------
(* The numbers that the guest branches on.                                 *)

\* The answer is a number or the panic, and is that of the error as far as a branch of
\* the guest can tell: but for the error's namesakes.
Answerable == Nat \cup {Panic}
Named(err, e) == err = e \/ (build # "native" /\ err \in Namesakes(e))
Means(told, err) ==
  /\ told \in Answerable
  /\ \A e \in Branches : told = Numbers[e] <=> Named(err, e)

LEMMA AllNumbers ==
  /\ \A e \in DOMAIN Host : Host[e] \in Answerable /\ Host[e] # Panic
  /\ \A e \in DOMAIN Guest : Guest[e] \in Answerable
  /\ {14, 73, 99, 110} \subseteq Answerable
  BY DEF Host, Guest, Answerable, Panic

LEMMA BranchNumbers ==
  /\ Guest.EAGAIN = 6 /\ Guest.EINTR = 27 /\ Guest.EINPROGRESS = 26 /\ Guest.EISCONN = 30
  /\ Host.EAGAIN = 11 /\ Host.EINTR = 4 /\ Host.EINPROGRESS = 115 /\ Host.EISCONN = 106
  BY DEF Guest, Host

LEMMA GuestBranches ==
  ASSUME NEW e \in Branches
  PROVE  Guest[e] \in {6, 26, 27, 30} /\ Host[e] \in {4, 11, 106, 115}
  BY BranchNumbers DEF Branches

LEMMA HostApart ==
  ASSUME NEW c \in DOMAIN Host, NEW e \in DOMAIN Host, Host[c] = Host[e]
  PROVE  c = e
  BY DEF Host

LEMMA GuestApart ==
  ASSUME NEW c \in DOMAIN Guest, NEW e \in DOMAIN Guest, Guest[c] = Guest[e]
  PROVE  c = e
  BY DEF Guest

LEMMA NamesKnown == DOMAIN Guest \subseteq DOMAIN Host /\ Branches \subseteq DOMAIN Guest
  BY DEF Guest, Host, Branches

\* An error that the guest has a number for is told by it.
LEMMA TableIsRight ==
  ASSUME NEW c \in DOMAIN Guest
  PROVE  ErrnoTranslate(Host[c]) = Guest[c]
<1> DEFINE e == CHOOSE x \in DOMAIN Guest : Host[x] = Host[c]
<1>1. Host[c] # 99 /\ Host.EADDRNOTAVAIL = 99
  BY DEF Guest, Host
<1>2. Host[c] \in {Host[x] : x \in DOMAIN Guest} \cup {Host.EADDRNOTAVAIL}
  OBVIOUS
<1>3. ErrnoTranslate(Host[c]) = Guest[e]
  BY <1>1, <1>2 DEF ErrnoTranslate, mapped
<1>4. e \in DOMAIN Guest /\ Host[e] = Host[c]
  OBVIOUS
<1>5. e = c
  BY <1>4, NamesKnown, HostApart
<1>6. QED
  BY <1>3, <1>5

\* One that it has none for keeps the host's number, which only one entry of the table
\* spells out.
LEMMA OthersPass ==
  ASSUME NEW c \in DOMAIN Host, c \notin DOMAIN Guest
  PROVE  /\ ErrnoTranslate(Host[c]) = Host[c]
         /\ Host[c] \in DOMAIN mapped => Host[c] = 99
<1>1. Host.EADDRNOTAVAIL = 99
  BY DEF Host
<1>2. CASE Host[c] = 99
  <2>1. Host[c] \in {Host[x] : x \in DOMAIN Guest} \cup {Host.EADDRNOTAVAIL}
    BY <1>1, <1>2
  <2>2. ErrnoTranslate(Host[c]) = 99
    BY <1>1, <1>2, <2>1 DEF ErrnoTranslate, mapped
  <2>3. QED
    BY <1>2, <2>2
<1>3. CASE Host[c] # 99
  <2>1. ASSUME NEW x \in DOMAIN Guest PROVE Host[x] # Host[c]
    BY HostApart, NamesKnown
  <2>2. Host[c] \notin DOMAIN mapped
    BY <1>1, <1>3, <2>1 DEF mapped
  <2>3. QED
    BY <2>2 DEF ErrnoTranslate
<1>4. QED
  BY <1>2, <1>3

\* The only errors that are taken for another, and no error of the table is.
Taken == {"ENXIO", "ETXTBSY", "EFBIG", "EROFS"}
LEMMA NamesakesKnown ==
  ASSUME NEW e \in Branches
  PROVE  /\ Namesakes(e) \subseteq Taken
         /\ Namesakes(e) \cap DOMAIN Guest = {}
<1>1. \A h \in DOMAIN Host : Host[h] \in {6, 26, 27, 30} => h \in Taken
  BY DEF Host, Taken
<1>2. Namesakes(e) \subseteq Taken
  BY <1>1, GuestBranches DEF Namesakes
<1>3. ASSUME NEW h \in DOMAIN Guest PROVE Host[h] \in DOMAIN mapped
  BY DEF mapped
<1>4. QED
  BY <1>2, <1>3 DEF Namesakes

\* A number outside both lists, for an error outside both.
LEMMA NoBranch ==
  ASSUME NEW told \in Answerable, told \notin {4, 6, 11, 26, 27, 30, 106, 115},
         NEW err, err \notin Branches \cup Taken
  PROVE  Means(told, err)
<1> SUFFICES ASSUME NEW e \in Branches PROVE told # Numbers[e] /\ ~Named(err, e)
  BY DEF Means
<1>1. Numbers[e] \in {6, 26, 27, 30, 4, 11, 106, 115}
  BY GuestBranches DEF Numbers
<1>2. ~Named(err, e)
  BY NamesakesKnown DEF Named
<1>3. QED
  BY <1>1, <1>2

LEMMA FaultMeans ==
  ASSUME NEW err, err \notin Branches \cup Taken
  PROVE  Means(TranslateErrno("EFAULT"), err) /\ Means(Fault, err)
<1>1. "EFAULT" \in DOMAIN Host /\ "EFAULT" \notin DOMAIN Guest /\ "EFAULT" \notin Causes
  BY DEF Host, Guest, Causes
<1>2. Errno("EFAULT") = 14 /\ Fault = 14 /\ Host["EFAULT"] = 14
  BY <1>1 DEF Errno, Host, Fault, Untranslated
<1>3. ErrnoTranslate(14) = 14
  BY <1>1, <1>2, OthersPass
<1>4. TranslateErrno("EFAULT") = ErrnoTranslate(14)
  BY <1>2 DEF TranslateErrno, Panic
<1>5. TranslateErrno("EFAULT") \notin {4, 6, 11, 26, 27, 30, 106, 115}
  BY <1>3, <1>4
<1>6. Fault \notin {4, 6, 11, 26, 27, 30, 106, 115}
  BY <1>2
<1>7. TranslateErrno("EFAULT") \in Answerable /\ Fault \in Answerable
  BY <1>2, <1>3, <1>4, AllNumbers
<1>8. QED
  BY <1>5, <1>6, <1>7, NoBranch

LEMMA ToldMeans ==
  ASSUME NEW err \in DOMAIN Host
  PROVE  Means(Told(err), err)
<1>1. err \notin Causes
  BY DEF Host, Causes
<1>2. Errno(err) = Host[err]
  BY <1>1 DEF Errno
<1>3. CASE build = "native"
  <2>1. \A e \in Branches : Host[err] = Host[e] <=> err = e
    BY HostApart, NamesKnown
  <2>2. QED
    BY <1>2, <1>3, <2>1, AllNumbers DEF Means, Named, Told, Numbers
<1>4. CASE build # "native"
  <2>1. Host[err] # Panic
    BY AllNumbers
  <2>2. Told(err) = ErrnoTranslate(Host[err])
    BY <1>2, <1>4, <2>1 DEF Told, TranslateErrno
  <2>3. CASE err \in DOMAIN Guest
    <3>1. Told(err) = Guest[err]
      BY <2>2, <2>3, TableIsRight
    <3>2. \A e \in Branches : Guest[err] = Guest[e] <=> err = e
      BY <2>3, GuestApart, NamesKnown
    <3>3. \A e \in Branches : err \notin Namesakes(e)
      BY <2>3, NamesakesKnown
    <3>4. QED
      BY <1>4, <2>3, <3>1, <3>2, <3>3, AllNumbers DEF Means, Named, Numbers
  <2>4. CASE err \notin DOMAIN Guest
    <3>1. Told(err) = Host[err] /\ (Host[err] \in DOMAIN mapped => Host[err] = 99)
      BY <2>2, <2>4, OthersPass
    <3>2. ASSUME NEW e \in Branches PROVE Host[err] = Guest[e] <=> Named(err, e)
      <4>1. Guest[e] # 99 /\ err # e
        BY <2>4, GuestBranches, NamesKnown
      <4>2. Host[err] = Guest[e] <=> err \in Namesakes(e)
        BY <3>1, <4>1 DEF Namesakes
      <4>3. QED
        BY <1>4, <4>1, <4>2 DEF Named
    <3>3. Told(err) \in Answerable
      BY <3>1, AllNumbers
    <3>4. QED
      BY <1>4, <3>1, <3>2, <3>3 DEF Means, Numbers
  <2>5. QED
    BY <2>3, <2>4
<1>5. QED
  BY <1>3, <1>4

\* The errors of a lookup that are no numbers: one times out, the other panics.
LEMMA CauseMeans ==
  ASSUME NEW err \in {"timeout", "other"}
  PROVE  Means(Told(err), err)
<1>1. Host.ETIMEDOUT = 110 /\ Guest.ETIMEDOUT = 73 /\ "ETIMEDOUT" \in DOMAIN Guest
  BY DEF Host, Guest
<1>2. err \notin Branches \cup Taken
  BY DEF Branches, Taken
<1>3. CASE err = "timeout"
  <2>1. Errno(err) = 110
    BY <1>1, <1>3 DEF Errno, Causes, makeErrnoSlow
  <2>2. ErrnoTranslate(110) = 73
    BY <1>1, TableIsRight
  <2>3. Told(err) \in {110, 73}
    BY <2>1, <2>2 DEF Told, TranslateErrno, Panic
  <2>4. Told(err) \notin {4, 6, 11, 26, 27, 30, 106, 115} /\ Told(err) \in Answerable
    BY <2>3, AllNumbers
  <2>5. QED
    BY <1>2, <2>4, NoBranch
<1>4. CASE err = "other"
  <2>1. Errno(err) = -1
    BY <1>4 DEF Errno, Causes, makeErrnoSlow, Panic
  <2>2. Told(err) = -1
    BY <2>1 DEF Told, TranslateErrno, Panic
  <2>3. Told(err) \notin {4, 6, 11, 26, 27, 30, 106, 115} /\ Told(err) \in Answerable
    BY <2>2 DEF Answerable, Panic
  <2>4. QED
    BY <1>2, <2>3, NoBranch
<1>5. QED
  BY <1>3, <1>4

\* What each call is told of the error that the host gave.
Answer == Means(call'.told, call'.host)

LEMMA RefuseAnswer ==
  ASSUME NEW op, NEW fd, NEW bad, Refuse(op, fd, bad)
  PROVE  Answer
<1>1. call'.host = "EFAULT" /\ call'.told = TranslateErrno("EFAULT")
  BY DEF Refuse, NoCall
<1>2. QED
  BY <1>1, FaultMeans DEF Answer, Branches, Taken

LEMMA ReplyAnswer ==
  ASSUME NEW op, NEW fd, NEW bad, NEW err \in DOMAIN Host, Reply(op, fd, bad, err)
  PROVE  Answer
<1>1. call'.host = err /\ call'.told = Told(err)
  BY DEF Reply, NoCall
<1>2. QED
  BY <1>1, ToldMeans DEF Answer

LEMMA ReplyWithAnswer ==
  ASSUME NEW op, NEW fd, NEW bad, NEW err \in DOMAIN Host \cup {"timeout", "other"},
         NEW addr, NEW n, NEW moved, ReplyWith(op, fd, bad, err, addr, n, moved)
  PROVE  Answer
<1>1. /\ call'.host = err
      /\ \/ call'.told = Told(err)
         \/ err = "ok" /\ call'.told = TranslateErrno("EFAULT")
  BY DEF ReplyWith, NoCall
<1>2. CASE call'.told = Told(err)
  BY <1>1, <1>2, ToldMeans, CauseMeans DEF Answer
<1>3. CASE err = "ok" /\ call'.told = TranslateErrno("EFAULT")
  BY <1>1, <1>3, FaultMeans DEF Answer, Branches, Taken
<1>4. QED
  BY <1>1, <1>2, <1>3

\* A success that says so, without a translation.
LEMMA ZeroAnswer == ASSUME call'.told = 0, call'.host = "ok" PROVE Answer
  BY NoBranch DEF Answer, Branches, Taken, Answerable

LEMMA SocketOpenAnswer ==
  ASSUME NEW fam, NEW bad, SocketOpen(fam, bad)
  PROVE  Answer
<1>1. PICK err \in {"ok", "EMFILE"} :
        call'.host = err /\ call'.told = IF InMemory(bad, "result") THEN Told(err) ELSE Fault
  BY DEF SocketOpen, NoCall
<1>2. err \in DOMAIN Host /\ err \notin Branches \cup Taken
  BY DEF Host, Branches, Taken
<1>3. QED
  BY <1>1, <1>2, ToldMeans, FaultMeans DEF Answer

LEMMA ErrorsKnown ==
  ASSUME NEW fd, NEW sa
  PROVE  /\ BindErrors(fd, sa) \subseteq DOMAIN Host /\ ConnectErrors(fd, sa) \subseteq DOMAIN Host
         /\ AcceptError(fd) \in DOMAIN Host
         /\ SendError(fd) \in DOMAIN Host /\ RecvError(fd) \in DOMAIN Host
<1>1. BindErrors(fd, sa) \subseteq DOMAIN Host
  BY DEF BindErrors, MakeErrors, PathErrors, Host
<1>2. ConnectErrors(fd, sa) \subseteq DOMAIN Host
  <2>1. ConnectErrors(fd, sa) \subseteq
          {"EISCONN", "EINVAL", "ok", "EAGAIN", "EINPROGRESS", "ECONNREFUSED", "ENETUNREACH"}
            \cup PathErrors
    BY DEF ConnectErrors
  <2>2. QED
    BY <2>1 DEF PathErrors, Host
<1>3. AcceptError(fd) \in DOMAIN Host
  BY DEF AcceptError, Host
<1>4. SendError(fd) \in DOMAIN Host
  BY DEF SendError, NativeSendError, Host
<1>5. RecvError(fd) \in DOMAIN Host
  BY DEF RecvError, Host
<1>6. QED
  BY <1>1, <1>2, <1>3, <1>4, <1>5

LEMMA OnSocketAnswer ==
  ASSUME NEW fd, OnSocket(fd)
  PROVE  Answer
<1>0. DOMAIN Host \subseteq DOMAIN Host \cup {"timeout", "other"}
  OBVIOUS
<1>1. ASSUME NEW a, NEW bad, SocketBind(fd, a, bad) PROVE Answer
  BY <1>1, RefuseAnswer, ReplyAnswer, ErrorsKnown DEF SocketBind
<1>2. ASSUME NEW a, NEW bad, SocketConnect(fd, a, bad) PROVE Answer
  BY <1>2, RefuseAnswer, ReplyAnswer, ErrorsKnown DEF SocketConnect
<1>3. ASSUME SocketListen(fd) PROVE Answer
  <2>1. PICK err \in {"ok", "EINVAL"} : Reply("listen", fd, {}, err)
    BY <1>3 DEF SocketListen
  <2>2. err \in DOMAIN Host
    BY DEF Host
  <2>3. QED
    BY <2>1, <2>2, ReplyAnswer
<1>4. ASSUME NEW bad, SocketAccept(fd, bad) PROVE Answer
  <2>1. CASE AcceptError(fd) # "ok"
    BY <1>4, <2>1, ReplyAnswer, ErrorsKnown DEF SocketAccept
  <2>2. CASE AcceptError(fd) = "ok"
    <3>1. /\ call'.host = "ok"
          /\ call'.told = IF Answered(bad) THEN Told("ok") ELSE TranslateErrno("EFAULT")
      BY <1>4, <2>2 DEF SocketAccept, NoCall
    <3>2. "ok" \in DOMAIN Host /\ "ok" \notin Branches \cup Taken
      BY DEF Host, Branches, Taken
    <3>3. QED
      BY <3>1, <3>2, ToldMeans, FaultMeans DEF Answer
  <2>3. QED
    BY <2>1, <2>2
<1>5. ASSUME NEW bad, SocketLocalAddr(fd, bad) \/ SocketPeerAddr(fd, bad) PROVE Answer
  <2>1. PICK op, err, addr :
          err \in {"ok", "ENOTCONN"} /\ ReplyWith(op, fd, bad, err, addr, 0, 0)
    BY <1>5 DEF SocketLocalAddr, SocketPeerAddr
  <2>2. err \in DOMAIN Host
    BY <2>1 DEF Host
  <2>3. QED
    BY <1>0, <2>1, <2>2, ReplyWithAnswer
<1>6. ASSUME NEW size, NEW bad, SocketSendTo(fd, size, bad) PROVE Answer
  <2>1. CASE ~vectorread(bad) \/ ~InMemory(bad, "addr")
    BY <1>6, <2>1, RefuseAnswer DEF SocketSendTo
  <2>2. CASE vectorread(bad) /\ InMemory(bad, "addr")
    <3>1. PICK n, moved : ReplyWith("sendto", fd, bad, SendError(fd), NoAddr, n, moved)
      BY <1>6, <2>2 DEF SocketSendTo
    <3>2. QED
      BY <1>0, <3>1, ErrorsKnown, ReplyWithAnswer
  <2>3. QED
    BY <2>1, <2>2
<1>7. ASSUME NEW size, NEW bad, SocketRecvFrom(fd, size, bad) PROVE Answer
  <2>1. CASE ~vectorread(bad)
    BY <1>7, <2>1, RefuseAnswer DEF SocketRecvFrom
  <2>2. CASE vectorread(bad)
    <3>1. PICK left, addr, n, moved :
            ReplyWith("recvfrom", fd, left, RecvError(fd), addr, n, moved)
      BY <1>7, <2>2 DEF SocketRecvFrom
    <3>2. QED
      BY <1>0, <3>1, ErrorsKnown, ReplyWithAnswer
  <2>3. QED
    BY <2>1, <2>2
<1>8. ASSUME NEW how, SocketShutdown(fd, how) PROVE Answer
  <2>1. PICK err \in {"ok", "EINVAL"} : Reply("shutdown", fd, {}, err)
    BY <1>8 DEF SocketShutdown
  <2>2. err \in DOMAIN Host
    BY DEF Host
  <2>3. QED
    BY <2>1, <2>2, ReplyAnswer
<1>9. ASSUME NEW opt, NEW bad, SocketSetOpt(fd, opt, bad) \/ SocketGetOpt(fd, opt, bad)
      PROVE  Answer
  <2>1. SetOptErrors(opt) \subseteq DOMAIN Host
    BY DEF SetOptErrors, NativeSetOptErrors, IntOptErrors, Host
  <2>2. GetOptErrors(opt) \subseteq DOMAIN Host
    BY DEF GetOptErrors, NativeGetOptErrors, Host
  <2>3. CASE ~InMemory(bad, "value")
    BY <1>9, <2>3, RefuseAnswer DEF SocketSetOpt, SocketGetOpt
  <2>4. CASE InMemory(bad, "value")
    <3>1. PICK op, err, n :
            err \in DOMAIN Host /\ ReplyWith(op, fd, {}, err, NoAddr, n, 0)
      BY <1>9, <2>1, <2>2, <2>4 DEF SocketSetOpt, SocketGetOpt
    <3>2. QED
      BY <1>0, <3>1, ReplyWithAnswer
  <2>5. QED
    BY <2>3, <2>4
<1>10. QED
  BY <1>1, <1>2, <1>3, <1>4, <1>5, <1>6, <1>7, <1>8, <1>9 DEF OnSocket

LEMMA LookupAnswer ==
  ASSUME Lookup
  PROVE  Answer
<1>1. ASSUME NEW network, NEW bad, AddrIP(network, bad) PROVE Answer
  <2>1. CASE call'.host = "lookup" /\ call'.told = Untranslated("EINVAL")
    <3>1. call'.told \notin {4, 6, 11, 26, 27, 30, 106, 115} /\ call'.told \in Answerable
      BY <2>1 DEF Untranslated, Host, Answerable
    <3>2. QED
      BY <2>1, <3>1, NoBranch DEF Answer, Branches, Taken
  <2>2. CASE call'.host = "ok" /\ (call'.told = 0 \/ call'.told = TranslateErrno("EFAULT"))
    BY <2>2, ZeroAnswer, FaultMeans DEF Answer, Branches, Taken
  <2>3. QED
    BY <1>1, <2>1, <2>2, Zero DEF AddrIP, NoCall
<1>2. ASSUME NEW op, NEW network, NEW host, NEW bad, SocketAddrIP(op, network, host, bad)
      PROVE  Answer
  <2>1. CASE host = ""
    <3>1. call'.told = 0 /\ call'.host = "ok"
      BY <1>2, <2>1 DEF SocketAddrIP, NoCall
    <3>2. QED
      BY <3>1, ZeroAnswer
  <2>2. CASE host # ""
    BY <1>1, <1>2, <2>2, RefuseAnswer DEF SocketAddrIP
  <2>3. QED
    BY <2>1, <2>2
<1>3. ASSUME NEW bad, SocketAddrPort(bad) PROVE Answer
  <2>1. "ok" \in DOMAIN Host
    BY DEF Host
  <2>2. QED
    BY <1>3, <2>1, RefuseAnswer, ReplyWithAnswer DEF SocketAddrPort
<1>4. ASSUME NEW service, NEW bad, ResolvePort(service, bad) PROVE Answer
  <2>1. CASE service = "number"
    <3>1. call'.told = 0 /\ call'.host = "ok"
      BY <1>4, <2>1 DEF ResolvePort, NoCall
    <3>2. QED
      BY <3>1, ZeroAnswer
  <2>2. CASE service # "number"
    BY <1>3, <1>4, <2>2 DEF ResolvePort
  <2>3. QED
    BY <2>1, <2>2
<1>5. QED
  BY <1>2, <1>4 DEF Lookup

LEMMA NextAnswer == Next => Answer
  BY SocketOpenAnswer, OnSocketAnswer, LookupAnswer DEF Next

-----------------------------------------------------------------------------
(* Lookups.                                                                *)

LEMMA Lengths ==
  /\ \A x : Len(<<x>>) = 1 /\ <<x>>[1] = x
  /\ \A x, y, z : Len(<<x, y, z>>) = 3 /\ <<x, y, z>>[1] = x /\ <<x, y, z>>[2] = y
                  /\ <<x, y, z>>[3] = z
  OBVIOUS

\* To16 loses neither an address nor its family: IPv4 addresses become mapped ones,
\* which the guest takes for IPv4, and those of IPv6 stay.
LEMMA SixteenBytes ==
  ASSUME NEW k \in {"tcp", "udp"}, NEW x, NEW ip \in {<<x>>, <<x, "zero", x>>}
  PROVE  /\ Same(Addr(k, To16(ip), 1, <<>>), Addr(k, ip, 1, <<>>))
         /\ NetaddrAFFamily(Addr(k, To16(ip), 1, <<>>)) = NetaddrAFFamily(Addr(k, ip, 1, <<>>))
<1>1. CASE ip = <<x>>
  <2>1. To16(ip) = <<0, "ffff", x>>
    BY <1>1, Lengths DEF To16
  <2>2. To4(To16(ip)) = <<x>> /\ To4(ip) = <<x>> /\ <<x>> # <<>>
    BY <1>1, <2>1, Lengths DEF To4
  <2>3. QED
    BY <2>2 DEF Same, NetaddrAFFamily, Addr
<1>2. CASE ip = <<x, "zero", x>>
  <2>1. To16(ip) = ip
    BY <1>2, Lengths DEF To16
  <2>2. QED
    BY <2>1 DEF Same
<1>3. QED
  BY <1>1, <1>2

\* What the guest gets of a lookup, against what the host found.
InOrder(network, found, ips) ==
  /\ Len(ips) = IF Len(found) <= Slots THEN Len(found) ELSE Slots
  /\ \A i \in 1..Len(ips) :
       LET wanted == netaddr(network, found[i], 1) IN
       /\ Same(ips[i], wanted)
       /\ NetaddrAFFamily(ips[i]) = NetaddrAFFamily(wanted)

\* The host counts addresses, then bytes; the guest walks bytes and gets the addresses.
LEMMA WalkIsWhole ==
  ASSUME NEW network \in Nets, NEW k \in 1..MaxIPs
  PROVE  LET found == Found(network, k)
             buf == Written(found, Slots * IPv6len) IN
         InOrder(network, found, Walk(network, buf, Bytes(buf)))
<1> DEFINE found == Found(network, k)
           m == IF k <= Slots THEN k ELSE Slots
           buf == Written(found, Slots * IPv6len)
           ips == Walk(network, buf, Bytes(buf))
<1>1. k \in Nat /\ Slots \in Nat /\ m \in Nat /\ m <= k
  BY HostCallAssumption
<1>2. Len(found) = k /\ \A i \in 1..k : \E x : found[i] \in {<<x>>, <<x, "zero", x>>}
  BY <1>1 DEF Found
<1>3. Reslength(found, Slots * IPv6len) = m
  <2>1. k * 16 > Slots * 16 <=> k > Slots
    BY <1>1
  <2>2. (Slots * 16) \div 16 = Slots
    BY <1>1
  <2>3. QED
    BY <1>1, <1>2, <2>1, <2>2 DEF Reslength, IPv6len
<1>4. Len(buf) = m /\ \A i \in 1..m : buf[i] = To16(found[i])
  BY <1>1, <1>3 DEF Written
<1>5. (Bytes(buf) + IPv6len - 1) \div IPv6len = m
  <2>1. (m * 16 + 16 - 1) \div 16 = m
    BY <1>1
  <2>2. QED
    BY <1>4, <2>1 DEF Bytes, IPv6len
<1>6. Len(ips) = m /\ \A i \in 1..m : ips[i] = netaddr(network, To16(found[i]), 1)
  BY <1>1, <1>4, <1>5 DEF Walk
<1>7. ASSUME NEW i \in 1..m
      PROVE  LET wanted == netaddr(network, found[i], 1) IN
             Same(ips[i], wanted) /\ NetaddrAFFamily(ips[i]) = NetaddrAFFamily(wanted)
  <2>1. PICK q \in {"tcp", "udp"} : \A ip : netaddr(network, ip, 1) = Addr(q, ip, 1, <<>>)
    BY DEF netaddr, Nets
  <2>2. PICK x : found[i] \in {<<x>>, <<x, "zero", x>>}
    BY <1>1, <1>2
  <2>3. ips[i] = Addr(q, To16(found[i]), 1, <<>>) /\ netaddr(network, found[i], 1)
                                                       = Addr(q, found[i], 1, <<>>)
    BY <1>6, <2>1
  <2> HIDE DEF found, ips
  <2>4. \A ip \in {<<x>>, <<x, "zero", x>>} :
          /\ Same(Addr(q, To16(ip), 1, <<>>), Addr(q, ip, 1, <<>>))
          /\ NetaddrAFFamily(Addr(q, To16(ip), 1, <<>>)) = NetaddrAFFamily(Addr(q, ip, 1, <<>>))
    BY SixteenBytes
  <2>5. QED
    BY <2>2, <2>3, <2>4
<1>8. QED
  BY <1>2, <1>6, <1>7 DEF InOrder

\* What a lookup answers, and that no other call is one.
Fitting ==
  call'.op = "addrip" /\ call'.told = 0 /\ build = "guest"
    => InOrder(call'.net, call'.found, call'.ips)

LEMMA AddrIPFits ==
  ASSUME NEW op, NEW network \in Nets, NEW host, NEW bad, SocketAddrIP(op, network, host, bad)
  PROVE  Fitting
<1>1. CASE host = ""
  <2> DEFINE ip == EmptyHost(op, network)
  <2>1. /\ call'.net = network /\ call'.found = <<ip>>
        /\ call'.ips = <<netaddr(network, ip, 1)>>
    BY <1>1 DEF SocketAddrIP, NoCall
  <2>2. Len(call'.ips) = 1 /\ Len(call'.found) = 1 /\ 1 <= Slots
        /\ call'.ips[1] = netaddr(network, call'.found[1], 1)
    BY <2>1, Lengths, HostCallAssumption
  <2>3. QED
    BY <2>1, <2>2 DEF Fitting, InOrder, Same
<1>2. CASE host # "" /\ ~InMemory(bad, "addr")
  <2>1. call'.told = TranslateErrno("EFAULT")
    BY <1>2 DEF SocketAddrIP, Refuse, NoCall
  <2>2. QED
    BY <2>1, EFaultIsTold DEF Fitting
<1>3. CASE host # "" /\ InMemory(bad, "addr")
  <2>1. AddrIP(network, bad)
    BY <1>3 DEF SocketAddrIP
  <2>2. CASE call'.told = Untranslated("EINVAL")
    BY <2>2 DEF Fitting, Untranslated, Host
  <2>3. CASE call'.told = TranslateErrno("EFAULT")
    BY <2>3, EFaultIsTold DEF Fitting
  <2>4. CASE \E k \in 1..MaxIPs :
               LET buf == Written(Found(network, k), Slots * IPv6len) IN
               /\ call'.net = network /\ call'.found = Found(network, k)
               /\ build = "guest" => call'.ips = Walk(network, buf, Bytes(buf))
    BY <2>4, WalkIsWhole DEF Fitting
  <2>5. QED
    <3>1. CASE InMemory(bad, "result")
      BY <2>1, <2>2, <2>4, <3>1 DEF AddrIP, NoCall
    <3>2. CASE ~InMemory(bad, "result")
      BY <2>1, <2>2, <2>3, <3>2 DEF AddrIP, NoCall
    <3>3. QED
      BY <3>1, <3>2
<1>4. QED
  BY <1>1, <1>2, <1>3

LEMMA ResolvePortFits ==
  ASSUME NEW service, NEW bad, ResolvePort(service, bad)
  PROVE  Fitting
<1>1. call'.op = "addrport"
  BY DEF ResolvePort, SocketAddrPort, Refuse, ReplyWith, NoCall
<1>2. QED
  BY <1>1 DEF Fitting

LEMMA LookupFits == Lookup => Fitting
  BY AddrIPFits, ResolvePortFits DEF Lookup

LEMMA OpenFits ==
  ASSUME NEW fam, NEW bad, SocketOpen(fam, bad)
  PROVE  Fitting
<1>1. call'.op = "open"
  BY DEF SocketOpen, NoCall
<1>2. QED
  BY <1>1 DEF Fitting

LEMMA OnSocketFits ==
  ASSUME NEW fd, OnSocket(fd)
  PROVE  Fitting
<1>1. ASSUME NEW op, NEW bad, Refuse(op, fd, bad) PROVE call'.op = op
  BY <1>1 DEF Refuse, NoCall
<1>2. ASSUME NEW a, NEW bad, SocketBind(fd, a, bad) \/ SocketConnect(fd, a, bad)
      PROVE  call'.op \in {"bind", "connect"}
  BY <1>1, <1>2, ReplyFields DEF SocketBind, SocketConnect
<1>3. ASSUME SocketListen(fd) PROVE call'.op = "listen"
  BY <1>3, ReplyFields DEF SocketListen
<1>4. ASSUME NEW bad, SocketAccept(fd, bad) PROVE call'.op = "accept"
  BY <1>4, ReplyFields DEF SocketAccept, NoCall
<1>5. ASSUME NEW bad, SocketLocalAddr(fd, bad) \/ SocketPeerAddr(fd, bad)
      PROVE  call'.op \in {"localaddr", "peeraddr"}
  BY <1>5, ReplyWithFields DEF SocketLocalAddr, SocketPeerAddr
<1>6. ASSUME NEW size, NEW bad, SocketSendTo(fd, size, bad) PROVE call'.op = "sendto"
  BY <1>1, <1>6, ReplyWithFields DEF SocketSendTo
<1>7. ASSUME NEW size, NEW bad, SocketRecvFrom(fd, size, bad) PROVE call'.op = "recvfrom"
  BY <1>1, <1>7, ReplyWithFields DEF SocketRecvFrom
<1>8. ASSUME NEW how, SocketShutdown(fd, how) PROVE call'.op = "shutdown"
  BY <1>8, ReplyFields DEF SocketShutdown
<1>9. ASSUME NEW opt \in Opts, NEW bad, SocketSetOpt(fd, opt, bad) \/ SocketGetOpt(fd, opt, bad)
      PROVE  call'.op \in {"setopt", "getopt"} \cup Opts
  BY <1>1, <1>9, ReplyWithFields DEF SocketSetOpt, SocketGetOpt
<1>10. call'.op # "addrip"
  BY <1>2, <1>3, <1>4, <1>5, <1>6, <1>7, <1>8, <1>9 DEF OnSocket, Opts
<1>11. QED
  BY <1>10 DEF Fitting

-----------------------------------------------------------------------------
(* The host's sockets.                                                     *)

States == {"free", "open", "bound", "listening", "connected"}
Socket(r) ==
  [st : States, fam : DOMAIN Families \cup {"none"}, local : {r.local}, peer : {r.peer},
   mate : Fds \cup {0}, out : 0..Room, shut : SUBSET {"rd", "wr"}, pend : Seq(Fds),
   waits : BOOLEAN]
Sockets ==
  /\ DOMAIN sock = Fds
  /\ \A f \in Fds : sock[f] \in Socket(sock[f]) /\ Len(sock[f].pend) <= Backlog

\* Who waits in a queue has connected, and waits in one queue only.
Waiting ==
  \A g \in Fds : \A i \in 1..Len(sock[g].pend) : sock[sock[g].pend[i]].st = "connected"
Apart ==
  \A f \in Fds, g \in Fds : f # g =>
    \A i \in 1..Len(sock[f].pend), j \in 1..Len(sock[g].pend) : sock[f].pend[i] # sock[g].pend[j]

\* No two sockets that were bound take the same addresses: a connect finds one listener.
Bound == {"bound", "listening"}
OneName ==
  \A f \in Fds, g \in Fds :
    f # g /\ sock[f].st \in Bound /\ sock[g].st \in Bound
      => ~Meets(sock[f].local, sock[g].local)

Known == known \subseteq {f \in Fds : sock[f].st # "free"}
TInv == Sockets /\ Waiting /\ Apart /\ OneName /\ Known

\* Two names that take one address meet each other.
LEMMA MeetsBoth ==
  ASSUME NEW a, NEW b, NEW to, Meets(a, to), Meets(b, to)
  PROVE  Meets(a, b) \/ Meets(b, a)
<1>1. a.kind = b.kind /\ a.port = b.port /\ a.name = b.name
  BY DEF Meets
<1>2. Anywhere(a) \/ Anywhere(b) \/ a.ip = b.ip
  BY DEF Meets
<1>3. QED
  BY <1>1, <1>2 DEF Meets

\* Most calls put nobody in a queue, and who has connected stays so.
LEMMA QueuesKept ==
  ASSUME Sockets, Waiting, Apart,
         \A f \in Fds : \A i \in 1..Len(sock'[f].pend) :
           \E j \in 1..Len(sock[f].pend) : sock'[f].pend[i] = sock[f].pend[j],
         \A f \in Fds : sock[f].st = "connected" => sock'[f].st = "connected"
  PROVE  Waiting' /\ Apart'
<1>1. ASSUME NEW g \in Fds, NEW i \in 1..Len(sock[g].pend) PROVE sock[g].pend[i] \in Fds
  <2>1. sock[g].pend \in Seq(Fds)
    BY DEF Sockets, Socket
  <2>2. QED
    BY <2>1
<1>2. Waiting'
  <2> SUFFICES ASSUME NEW g \in Fds, NEW i \in 1..Len(sock'[g].pend)
               PROVE  sock'[sock'[g].pend[i]].st = "connected"
    BY DEF Waiting, Fds
  <2>1. PICK j \in 1..Len(sock[g].pend) : sock'[g].pend[i] = sock[g].pend[j]
    OBVIOUS
  <2>2. sock[g].pend[j] \in Fds /\ sock[sock[g].pend[j]].st = "connected"
    BY <1>1 DEF Waiting
  <2>3. QED
    BY <2>1, <2>2
<1>3. Apart'
  <2> SUFFICES ASSUME NEW f \in Fds, NEW g \in Fds, f # g,
                      NEW i \in 1..Len(sock'[f].pend), NEW j \in 1..Len(sock'[g].pend)
               PROVE  sock'[f].pend[i] # sock'[g].pend[j]
    BY DEF Apart, Fds
  <2>1. PICK k \in 1..Len(sock[f].pend) : sock'[f].pend[i] = sock[f].pend[k]
    OBVIOUS
  <2>2. PICK l \in 1..Len(sock[g].pend) : sock'[g].pend[j] = sock[g].pend[l]
    OBVIOUS
  <2>3. QED
    BY <2>1, <2>2 DEF Apart
<1>4. QED
  BY <1>2, <1>3

\* A socket is bound under a new name by Bind only.
LEMMA NamesKept ==
  ASSUME OneName,
         \A f \in Fds : sock'[f].st \in Bound =>
                          sock[f].st \in Bound /\ sock'[f].local = sock[f].local
  PROVE  OneName'
  BY DEF OneName, Fds

LEMMA KnownKept ==
  ASSUME Known, known' = known, \A f \in Fds : sock[f].st # "free" => sock'[f].st # "free"
  PROVE  Known'
  BY DEF Known, Fds

\* The smallest free number is a free one.
LEMMA NewFdFree ==
  ASSUME Free # {}
  PROVE  NewFd \in Free
<1>1. Free \subseteq Nat
  BY DEF Free, Fds
<1>2. PICK f \in Free : \A g \in Free : <<g, f>> \notin OpToRel(<, Nat)
  BY <1>1, NatLessThanWellFounded, WFMin
<1>3. ASSUME NEW g \in Free PROVE ~ (g < f)
  <2>1. <<g, f>> \in Nat \X Nat /\ <<g, f>>[1] = g /\ <<g, f>>[2] = f
    BY <1>1
  <2>2. <<g, f>> \notin OpToRel(<, Nat)
    BY <1>2
  <2>3. QED
    BY <2>1, <2>2 DEF OpToRel
<1>4. \A g \in Free : f <= g
  BY <1>1, <1>3
<1>5. QED
  BY <1>4 DEF NewFd

\* The steps that leave each queue as it is or empty it.
Quiet ==
  \A f \in Fds :
    /\ sock'[f].pend = sock[f].pend \/ sock'[f].pend = <<>>
    /\ sock[f].st = "connected" => sock'[f].st = "connected"
    /\ sock[f].st # "free" => sock'[f].st # "free"

LEMMA QuietQueues ==
  ASSUME TInv, Quiet
  PROVE  Waiting' /\ Apart'
<1>1. \A f \in Fds : \A i \in 1..Len(sock'[f].pend) :
        \E j \in 1..Len(sock[f].pend) : sock'[f].pend[i] = sock[f].pend[j]
  <2> SUFFICES ASSUME NEW f \in Fds, NEW i \in 1..Len(sock'[f].pend)
               PROVE  \E j \in 1..Len(sock[f].pend) : sock'[f].pend[i] = sock[f].pend[j]
    OBVIOUS
  <2>1. CASE sock'[f].pend = sock[f].pend
    BY <2>1
  <2>2. CASE sock'[f].pend = <<>>
    BY <2>2
  <2>3. QED
    BY <2>1, <2>2 DEF Quiet
<1>2. QED
  BY <1>1, QueuesKept DEF Quiet, TInv

\* One socket's record changes.
LEMMA OneSocket ==
  ASSUME Sockets, NEW fd \in Fds, NEW r, r \in Socket(r), Len(r.pend) <= Backlog,
         sock' = [sock EXCEPT ![fd] = r]
  PROVE  /\ Sockets' /\ sock'[fd] = r
         /\ \A f \in Fds : f # fd => sock'[f] = sock[f]
<1>1. sock'[fd] = r /\ DOMAIN sock' = Fds /\ \A f \in Fds : f # fd => sock'[f] = sock[f]
  BY DEF Sockets
<1>2. \A f \in Fds : sock'[f] \in Socket(sock'[f]) /\ Len(sock'[f].pend) <= Backlog
  BY <1>1 DEF Sockets
<1>3. QED
  BY <1>1, <1>2 DEF Sockets, Socket, Fds, Families

LEMMA Unmoved == ASSUME TInv, UNCHANGED sock, UNCHANGED known PROVE TInv'
<1>1. Sockets'
  BY DEF TInv, Sockets, Socket, Fds, Families
<1>2. Waiting'
  BY DEF TInv, Waiting, Fds
<1>3. Apart'
  BY DEF TInv, Apart, Fds
<1>4. OneName' /\ Known'
  BY DEF TInv, OneName, Known, Fds
<1>5. QED
  BY <1>1, <1>2, <1>3, <1>4 DEF TInv

LEMMA SocketOpenT ==
  ASSUME TInv, NEW fam \in DOMAIN Families, NEW bad, SocketOpen(fam, bad)
  PROVE  TInv'
<1>1. CASE Free = {}
  <2>1. UNCHANGED sock /\ UNCHANGED known
    BY <1>1 DEF SocketOpen
  <2>2. QED
    BY <2>1, Unmoved
<1>2. CASE Free # {}
  <2> DEFINE r == [Unused EXCEPT !.st = "open", !.fam = fam, !.local = Unnamed(fam),
                                 !.waits = (build = "native")]
  <2>1. NewFd \in Free /\ NewFd \in Fds /\ sock[NewFd].st = "free"
    BY <1>2, NewFdFree DEF Free
  <2>2. sock' = [sock EXCEPT ![NewFd] = r] /\ (known' = known \/ known' = known \cup {NewFd})
    BY <1>2 DEF SocketOpen
  <2>3. r \in Socket(r) /\ r.st = "open" /\ r.pend = <<>>
    <3>1. <<>> \in Seq(Fds) /\ 0 \in 0..Room
      BY HostCallAssumption
    <3>2. QED
      BY <3>1 DEF Unused, Socket, States
  <2> HIDE DEF r
  <2>4. Len(r.pend) <= Backlog
    BY <2>3, HostCallAssumption
  <2>5. /\ Sockets' /\ sock'[NewFd] = r
        /\ \A f \in Fds : f # NewFd => sock'[f] = sock[f]
    BY <2>1, <2>2, <2>3, <2>4, OneSocket DEF TInv
  <2>6. Quiet
    BY <2>1, <2>3, <2>5 DEF Quiet
  <2>7. OneName'
    BY <2>3, <2>5, NamesKept DEF TInv, Bound
  <2>8. Known'
    <3>1. \A f \in Fds : sock[f].st # "free" => sock'[f].st # "free"
      BY <2>6 DEF Quiet
    <3>2. sock'[NewFd].st # "free"
      BY <2>3, <2>5
    <3>3. ASSUME NEW f \in known' PROVE f \in Fds /\ sock'[f].st # "free"
      BY <2>1, <2>2, <3>1, <3>2, <3>3 DEF TInv, Known
    <3>4. QED
      BY <3>3 DEF Known, Fds
  <2>9. QED
    BY <2>5, <2>6, <2>7, <2>8, QuietQueues DEF TInv
<1>3. QED
  BY <1>1, <1>2

LEMMA SocketBindT ==
  ASSUME TInv, NEW fd \in Fds, NEW a, NEW bad, SocketBind(fd, a, bad)
  PROVE  TInv'
<1>1. CASE UNCHANGED sock /\ UNCHANGED known
  BY <1>1, Unmoved
<1>2. CASE ~UNCHANGED sock
  <2>1. PICK sa : /\ "ok" \in BindErrors(fd, sa) /\ UNCHANGED known
                  /\ sock' = [sock EXCEPT ![fd].st = "bound", ![fd].local = GivenName(sa)]
    BY <1>2 DEF SocketBind, Refuse
  <2> DEFINE n == GivenName(sa)
             r == [sock[fd] EXCEPT !.st = "bound", !.local = n]
  <2>2. /\ sock[fd].st = "open"
        /\ \A g \in Fds : sock[g].st \notin {"free", "open"}
             => ~Meets(sock[g].local, n) /\ ~Meets(n, sock[g].local)
    <3>1. sock[fd].st = "open" /\ FreeNames(sa) # {}
      BY <2>1 DEF BindErrors, MakeErrors, PathErrors
    <3>2. n \in FreeNames(sa)
      BY <3>1 DEF GivenName
    <3>3. ~Held(n)
      BY <3>2 DEF FreeNames
    <3>4. QED
      BY <3>1, <3>3 DEF Held
  <2> HIDE DEF n
  <2>3. /\ sock[fd] \in Socket(sock[fd]) /\ Len(sock[fd].pend) <= Backlog /\ DOMAIN sock = Fds
    BY DEF TInv, Sockets
  <2>4. sock' = [sock EXCEPT ![fd] = r]
    BY <2>1, <2>3 DEF n
  <2>5. r \in Socket(r) /\ r.st = "bound" /\ r.local = n /\ r.pend = sock[fd].pend
    BY <2>3 DEF Socket, States
  <2> HIDE DEF r
  <2>6. /\ Sockets' /\ sock'[fd] = r
        /\ \A f \in Fds : f # fd => sock'[f] = sock[f]
    BY <2>3, <2>4, <2>5, OneSocket DEF TInv
  <2>7. Quiet
    BY <2>2, <2>5, <2>6 DEF Quiet
  <2>8. OneName'
    <3> SUFFICES ASSUME NEW f \in Fds, NEW g \in Fds, f # g, sock'[f].st \in Bound,
                        sock'[g].st \in Bound
                 PROVE  ~Meets(sock'[f].local, sock'[g].local)
      BY DEF OneName, Meets, Anywhere, ZeroIP, Fds
    <3>1. CASE f # fd /\ g # fd
      BY <2>6, <3>1 DEF TInv, OneName
    <3>2. CASE f = fd \/ g = fd
      BY <2>2, <2>5, <2>6, <3>2 DEF Bound
    <3>3. QED
      BY <3>1, <3>2
  <2>9. Known'
    BY <2>1, <2>7, KnownKept DEF TInv, Quiet
  <2>10. QED
    BY <2>6, <2>7, <2>8, <2>9, QuietQueues DEF TInv
<1>3. UNCHANGED known
  BY DEF SocketBind, Refuse
<1>4. QED
  BY <1>1, <1>2, <1>3

LEMMA SocketListenT ==
  ASSUME TInv, NEW fd \in Fds, SocketListen(fd)
  PROVE  TInv'
<1>1. UNCHANGED known
  BY DEF SocketListen
<1>2. CASE UNCHANGED sock
  BY <1>1, <1>2, Unmoved
<1>3. CASE ~UNCHANGED sock
  <2>1. sock[fd].st \in Bound /\ sock' = [sock EXCEPT ![fd].st = "listening"]
    BY <1>3 DEF SocketListen, Bound
  <2> DEFINE r == [sock[fd] EXCEPT !.st = "listening"]
  <2>2. /\ sock[fd] \in Socket(sock[fd]) /\ Len(sock[fd].pend) <= Backlog /\ DOMAIN sock = Fds
    BY DEF TInv, Sockets
  <2>3. r \in Socket(r) /\ r.st = "listening" /\ r.local = sock[fd].local /\ r.pend = sock[fd].pend
    BY <2>2 DEF Socket, States
  <2>4. sock' = [sock EXCEPT ![fd] = r]
    BY <2>1, <2>2
  <2> HIDE DEF r
  <2>5. /\ Sockets' /\ sock'[fd] = r
        /\ \A f \in Fds : f # fd => sock'[f] = sock[f]
    BY <2>2, <2>3, <2>4, OneSocket DEF TInv
  <2>6. Quiet
    BY <2>1, <2>3, <2>5 DEF Quiet, Bound
  <2>7. OneName'
    BY <2>1, <2>3, <2>5, NamesKept DEF TInv
  <2>8. Known'
    BY <1>1, <2>6, KnownKept DEF TInv, Quiet
  <2>9. QED
    BY <2>5, <2>6, <2>7, <2>8, QuietQueues DEF TInv
<1>4. QED
  BY <1>2, <1>3

\* Bytes and shutdowns change neither names nor queues.
LEMMA SameButBytes ==
  ASSUME TInv, UNCHANGED known, NEW fd \in Fds, NEW r, r \in Socket(r),
         r.st = sock[fd].st, r.local = sock[fd].local, r.pend = sock[fd].pend,
         sock' = [sock EXCEPT ![fd] = r]
  PROVE  TInv'
<1>1. Len(r.pend) <= Backlog
  BY DEF TInv, Sockets
<1>2. /\ Sockets' /\ sock'[fd] = r
      /\ \A f \in Fds : f # fd => sock'[f] = sock[f]
  BY <1>1, OneSocket DEF TInv
<1>3. Quiet
  BY <1>2 DEF Quiet
<1>4. OneName'
  BY <1>2, NamesKept DEF TInv
<1>5. Known'
  BY <1>3, KnownKept DEF TInv, Quiet
<1>6. QED
  BY <1>2, <1>3, <1>4, <1>5, QuietQueues DEF TInv

LEMMA SocketSendToT ==
  ASSUME TInv, NEW fd \in Fds, NEW size \in 1..Room, NEW bad, SocketSendTo(fd, size, bad)
  PROVE  TInv'
<1>1. CASE Refuse("sendto", fd, bad)
  BY <1>1, Unmoved DEF Refuse
<1>2. CASE ~Refuse("sendto", fd, bad)
  <2> DEFINE n == IF SendError(fd) # "ok" THEN 0
                  ELSE IF size <= Room - sock[fd].out THEN size ELSE Room - sock[fd].out
             r == [sock[fd] EXCEPT !.out = sock[fd].out + n]
  <2>1. sock' = [sock EXCEPT ![fd].out = @ + n] /\ UNCHANGED known
    BY <1>2 DEF SocketSendTo
  <2>2. sock[fd] \in Socket(sock[fd]) /\ DOMAIN sock = Fds
    BY DEF TInv, Sockets
  <2>3. sock[fd].out \in 0..Room
    BY <2>2 DEF Socket
  <2>4. sock[fd].out + n \in 0..Room
    BY <2>3, HostCallAssumption
  <2> HIDE DEF n
  <2>5. r \in Socket(r) /\ r.st = sock[fd].st /\ r.local = sock[fd].local
        /\ r.pend = sock[fd].pend
    BY <2>2, <2>4 DEF Socket
  <2>6. sock' = [sock EXCEPT ![fd] = r]
    BY <2>1, <2>2
  <2> HIDE DEF r
  <2>7. QED
    BY <2>1, <2>5, <2>6, SameButBytes
<1>3. QED
  BY <1>1, <1>2

LEMMA SocketRecvFromT ==
  ASSUME TInv, NEW fd \in Fds, NEW size \in 1..Room, NEW bad, SocketRecvFrom(fd, size, bad)
  PROVE  TInv'
<1>0. UNCHANGED known
  BY DEF SocketRecvFrom, Refuse
<1>1. CASE UNCHANGED sock
  BY <1>0, <1>1, Unmoved
<1>2. CASE ~UNCHANGED sock
  <2> DEFINE m == sock[fd].mate
  <2>1. PICK n : /\ m # 0 /\ n > 0 /\ sock' = [sock EXCEPT ![m].out = @ - n]
                 /\ n = IF size <= sock[m].out THEN size ELSE sock[m].out
    BY <1>2 DEF SocketRecvFrom, Refuse
  <2>2. DOMAIN sock = Fds /\ \A f \in Fds : sock[f] \in Socket(sock[f])
    BY DEF TInv, Sockets
  <2>3. m \in Fds
    BY <2>1, <2>2 DEF Socket
  <2> DEFINE r == [sock[m] EXCEPT !.out = sock[m].out - n]
  <2>4. sock[m].out \in 0..Room
    BY <2>2, <2>3 DEF Socket
  <2>5. sock[m].out - n \in 0..Room
    BY <2>1, <2>4, HostCallAssumption
  <2> HIDE DEF m
  <2>6. r \in Socket(r) /\ r.st = sock[m].st /\ r.local = sock[m].local /\ r.pend = sock[m].pend
    BY <2>2, <2>3, <2>5 DEF Socket
  <2>7. sock' = [sock EXCEPT ![m] = r]
    BY <2>1, <2>2, <2>3
  <2> HIDE DEF r
  <2>8. QED
    BY <1>0, <2>3, <2>6, <2>7, SameButBytes
<1>3. QED
  BY <1>1, <1>2

LEMMA SocketShutdownT ==
  ASSUME TInv, NEW fd \in Fds, NEW how \in 1..3, SocketShutdown(fd, how)
  PROVE  TInv'
<1>0. UNCHANGED known
  BY DEF SocketShutdown
<1>1. CASE UNCHANGED sock
  BY <1>0, <1>1, Unmoved
<1>2. CASE ~UNCHANGED sock
  <2>1. PICK more \in SUBSET {"rd", "wr"} : sock' = [sock EXCEPT ![fd].shut = @ \cup more]
    BY <1>2 DEF SocketShutdown
  <2>2. DOMAIN sock = Fds /\ sock[fd] \in Socket(sock[fd])
    BY DEF TInv, Sockets
  <2> DEFINE r == [sock[fd] EXCEPT !.shut = sock[fd].shut \cup more]
  <2>3. r \in Socket(r) /\ r.st = sock[fd].st /\ r.local = sock[fd].local /\ r.pend = sock[fd].pend
    BY <2>2 DEF Socket
  <2>4. sock' = [sock EXCEPT ![fd] = r]
    BY <2>1, <2>2
  <2> HIDE DEF r
  <2>5. QED
    BY <1>0, <2>3, <2>4, SameButBytes
<1>3. QED
  BY <1>1, <1>2

\* A connect takes a place in the queue of the one listener of that name, if it has room.
Queues(to) == IF to.name \in Services THEN {} ELSE Listening(to)
Connects(fd, to) ==
  /\ sock[fd].st \notin {"connected", "listening"}
  /\ \A g \in Queues(to) : Len(sock[g].pend) < Backlog
  /\ sock' = [g \in Fds |->
       IF g = fd THEN [sock[fd] EXCEPT !.st = "connected", !.peer = to, !.local = Local(fd, to)]
       ELSE IF g \in Queues(to) THEN [sock[g] EXCEPT !.pend = Append(@, fd)] ELSE sock[g]]

LEMMA ConnectsT ==
  ASSUME TInv, UNCHANGED known, NEW fd \in Fds, NEW to, Connects(fd, to)
  PROVE  TInv'
<1> DEFINE Q == Queues(to)
<1>1. \A g \in Q : g \in Fds /\ sock[g].st = "listening" /\ Meets(sock[g].local, to)
  BY DEF Queues, Listening
<1>2. \A g \in Q, h \in Q : g = h
  BY <1>1, MeetsBoth DEF TInv, OneName, Bound
<1>3. fd \notin Q /\ sock[fd].st # "connected"
  BY <1>1 DEF Connects
<1>4. \A g \in Q : Len(sock[g].pend) < Backlog
  BY DEF Connects
<1>5. /\ sock' = [g \in Fds |->
           IF g = fd THEN [sock[fd] EXCEPT !.st = "connected", !.peer = to, !.local = Local(fd, to)]
           ELSE IF g \in Q THEN [sock[g] EXCEPT !.pend = Append(@, fd)] ELSE sock[g]]
  BY DEF Connects
<1> HIDE DEF Q
<1>6. \A f \in Fds : sock[f] \in Socket(sock[f]) /\ Len(sock[f].pend) <= Backlog
  BY DEF TInv, Sockets
<1>7. /\ sock'[fd].st = "connected" /\ sock'[fd].pend = sock[fd].pend
      /\ sock'[fd] \in Socket(sock'[fd])
  <2>1. sock[fd] \in Socket(sock[fd])
    BY <1>6
  <2>2. sock'[fd] = [sock[fd] EXCEPT !.st = "connected", !.peer = to, !.local = Local(fd, to)]
    BY <1>5
  <2>3. QED
    BY <2>1, <2>2 DEF Socket, States
<1>8. ASSUME NEW g \in Q
      PROVE  /\ sock'[g].st = sock[g].st /\ sock'[g].local = sock[g].local
             /\ sock'[g].pend = Append(sock[g].pend, fd)
             /\ sock'[g] \in Socket(sock'[g])
  <2>1. g \in Fds /\ g # fd /\ sock[g] \in Socket(sock[g])
    BY <1>1, <1>3, <1>6
  <2>2. sock'[g] = [sock[g] EXCEPT !.pend = Append(sock[g].pend, fd)]
    BY <1>5, <2>1
  <2>3. Append(sock[g].pend, fd) \in Seq(Fds)
    BY <2>1, AppendProperties DEF Socket
  <2>4. QED
    BY <2>1, <2>2, <2>3 DEF Socket
<1>9. \A g \in Fds : g # fd /\ g \notin Q => sock'[g] = sock[g]
  BY <1>5
<1>10. ASSUME NEW g \in Fds PROVE sock[g].pend \in Seq(Fds) /\ Len(sock[g].pend) \in Nat
  BY <1>6, LenProperties DEF Socket
<1>11. ASSUME NEW g \in Fds, NEW i \in 1..Len(sock[g].pend)
       PROVE  /\ sock[g].pend[i] \in Fds /\ sock[g].pend[i] # fd
              /\ sock'[sock[g].pend[i]].st = "connected"
  <2>1. sock[g].pend[i] \in Fds /\ sock[sock[g].pend[i]].st = "connected"
    BY <1>10 DEF TInv, Waiting
  <2>2. QED
    BY <1>3, <1>7, <1>8, <1>9, <2>1
<1>12. ASSUME NEW g \in Fds, NEW i \in 1..Len(sock'[g].pend)
       PROVE  \/ i \in 1..Len(sock[g].pend) /\ sock'[g].pend[i] = sock[g].pend[i]
              \/ g \in Q /\ sock'[g].pend[i] = fd
  <2>1. CASE g \in Q
    <3>1. sock'[g].pend = Append(sock[g].pend, fd) /\ sock[g].pend \in Seq(Fds)
      BY <1>8, <1>10, <2>1
    <3>2. QED
      BY <2>1, <3>1, <1>10, AppendProperties
  <2>2. CASE g \notin Q
    BY <1>7, <1>9, <2>2
  <2>3. QED
    BY <2>1, <2>2
<1>13. Sockets'
  <2>1. \A g \in Fds : sock'[g] \in Socket(sock'[g])
    BY <1>6, <1>7, <1>8, <1>9
  <2>2. ASSUME NEW g \in Fds PROVE Len(sock'[g].pend) <= Backlog
    <3>1. CASE g \in Q
      <4>1. Len(sock'[g].pend) = Len(sock[g].pend) + 1
        BY <1>8, <1>10, <3>1, AppendProperties
      <4>2. QED
        BY <1>4, <1>10, <3>1, <4>1, HostCallAssumption
    <3>2. CASE g \notin Q
      BY <1>6, <1>7, <1>9, <3>2
    <3>3. QED
      BY <3>1, <3>2
  <2>3. DOMAIN sock' = Fds
    BY <1>5
  <2>4. QED
    BY <2>1, <2>2, <2>3 DEF Sockets, Socket, Fds, Families
<1>14. Waiting'
  <2> SUFFICES ASSUME NEW g \in Fds, NEW i \in 1..Len(sock'[g].pend)
               PROVE  sock'[sock'[g].pend[i]].st = "connected"
    BY DEF Waiting, Fds
  <2>1. QED
    BY <1>7, <1>11, <1>12
<1>15. Apart'
  <2> SUFFICES ASSUME NEW f \in Fds, NEW g \in Fds, f # g,
                      NEW i \in 1..Len(sock'[f].pend), NEW j \in 1..Len(sock'[g].pend)
               PROVE  sock'[f].pend[i] # sock'[g].pend[j]
    BY DEF Apart, Fds
  <2>1. CASE f \in Q /\ sock'[f].pend[i] = fd
    <3>1. g \notin Q
      BY <1>2, <2>1
    <3>2. j \in 1..Len(sock[g].pend) /\ sock'[g].pend[j] = sock[g].pend[j]
      BY <1>12, <3>1
    <3>3. QED
      BY <1>11, <2>1, <3>2
  <2>2. CASE g \in Q /\ sock'[g].pend[j] = fd
    <3>1. f \notin Q
      BY <1>2, <2>2
    <3>2. i \in 1..Len(sock[f].pend) /\ sock'[f].pend[i] = sock[f].pend[i]
      BY <1>12, <3>1
    <3>3. QED
      BY <1>11, <2>2, <3>2
  <2>3. CASE /\ i \in 1..Len(sock[f].pend) /\ sock'[f].pend[i] = sock[f].pend[i]
             /\ j \in 1..Len(sock[g].pend) /\ sock'[g].pend[j] = sock[g].pend[j]
    BY <2>3 DEF TInv, Apart
  <2>4. QED
    BY <2>1, <2>2, <2>3, <1>12
<1>16. OneName'
  <2>1. \A f \in Fds : sock'[f].st \in Bound =>
                         sock[f].st \in Bound /\ sock'[f].local = sock[f].local
    BY <1>7, <1>8, <1>9 DEF Bound
  <2>2. QED
    BY <2>1, NamesKept DEF TInv
<1>17. Known'
  <2>1. \A f \in Fds : sock[f].st # "free" => sock'[f].st # "free"
    BY <1>7, <1>8, <1>9
  <2>2. QED
    BY <2>1, KnownKept DEF TInv
<1>18. QED
  BY <1>13, <1>14, <1>15, <1>16, <1>17 DEF TInv

LEMMA ConnectMoves ==
  ASSUME TInv, NEW fd \in Fds, NEW a, NEW bad, SocketConnect(fd, a, bad),
         ~(UNCHANGED sock /\ UNCHANGED user), NEW to, to = Target(UnixSockaddr(Encoded(fd, a)))
  PROVE  /\ Connects(fd, to)
         /\ user' = [user EXCEPT ![fd].dialed = a] /\ Fits(fd, a)
<1>1. PICK err :
        /\ err \in ConnectErrors(fd, to) /\ err \in {"ok", "EINPROGRESS"}
        /\ sock' = [g \in Fds |->
             IF g = fd THEN [sock[fd] EXCEPT !.st = "connected", !.peer = to,
                                             !.local = Local(fd, to)]
             ELSE IF g \in Listening(to) /\ to.name \notin Services
                  THEN [sock[g] EXCEPT !.pend = Append(@, fd)] ELSE sock[g]]
        /\ user' = [user EXCEPT ![fd].dialed = a]
  BY DEF SocketConnect, Refuse
<1>2. sock[fd].st \notin {"connected", "listening"}
  BY <1>1 DEF ConnectErrors
<1>3. \A g \in Queues(to) : ~ (Len(sock[g].pend) >= Backlog)
  BY <1>1 DEF ConnectErrors, Queues
<1>4. \A g \in Queues(to) : Len(sock[g].pend) < Backlog
  <2>1. \A g \in Queues(to) : sock[g].pend \in Seq(Fds)
    BY DEF TInv, Sockets, Socket, Queues, Listening
  <2>2. \A g \in Queues(to) : Len(sock[g].pend) \in Nat
    BY <2>1, LenProperties
  <2>3. QED
    BY <1>3, <2>2, HostCallAssumption
<1>5. sock' = [g \in Fds |->
        IF g = fd THEN [sock[fd] EXCEPT !.st = "connected", !.peer = to,
                                        !.local = Local(fd, to)]
        ELSE IF g \in Queues(to) THEN [sock[g] EXCEPT !.pend = Append(@, fd)] ELSE sock[g]]
  BY <1>1 DEF Queues
<1>6. Fits(fd, a)
  BY DEF SocketConnect
<1>7. QED
  BY <1>1, <1>2, <1>4, <1>5, <1>6 DEF Connects

LEMMA SocketConnectT ==
  ASSUME TInv, NEW fd \in Fds, NEW a, NEW bad, SocketConnect(fd, a, bad)
  PROVE  TInv'
<1>1. UNCHANGED known
  BY DEF SocketConnect, Refuse
<1>2. CASE UNCHANGED sock
  BY <1>1, <1>2, Unmoved
<1>3. CASE ~UNCHANGED sock
  <2>1. PICK to : to = Target(UnixSockaddr(Encoded(fd, a)))
    OBVIOUS
  <2>2. Connects(fd, to)
    BY <1>3, <2>1, ConnectMoves
  <2>3. QED
    BY <1>1, <2>2, ConnectsT
<1>4. QED
  BY <1>2, <1>3

\* Accept takes the first of a queue, which has connected, and gives it a socket of the
\* guest's as its other end.
Accepted(fd, c) ==
  [Unused EXCEPT !.st = "connected", !.fam = sock[fd].fam, !.mate = c,
                 !.local = sock[c].peer, !.peer = sock[c].local]

Accepts(fd, q, c) ==
  /\ sock[fd].st = "listening" /\ sock[c].st = "connected" /\ sock[NewFd].st = "free"
  /\ c \in Fds /\ NewFd \in Fds /\ fd # c /\ fd # NewFd /\ c # NewFd
  /\ q \in Seq(Fds) /\ Tail(q) \in Seq(Fds) /\ Len(Tail(q)) = Len(q) - 1 /\ Len(q) \in Nat
  /\ 1 \in 1..Len(q) /\ c = q[1]
  /\ \A i \in 1..Len(Tail(q)) : i + 1 \in 1..Len(q) /\ Tail(q)[i] = q[i + 1]
  /\ known' = known \/ known' = known \cup {NewFd}
  /\ DOMAIN sock' = Fds /\ sock'[NewFd] = Accepted(fd, c)
  /\ sock'[fd] = [sock[fd] EXCEPT !.pend = Tail(q)]
  /\ sock'[c] = [sock[c] EXCEPT !.mate = NewFd]
  /\ \A f \in Fds : f \notin {fd, c, NewFd} => sock'[f] = sock[f]

LEMMA AcceptMoves ==
  ASSUME TInv, NEW fd \in Fds, NEW bad, SocketAccept(fd, bad), AcceptError(fd) = "ok",
         NEW q, NEW c, q = sock[fd].pend, c = Head(q)
  PROVE  Accepts(fd, q, c)
<1>1. sock[fd].st = "listening" /\ q # <<>> /\ Free # {}
  BY DEF AcceptError
<1>2. DOMAIN sock = Fds /\ \A f \in Fds : sock[f] \in Socket(sock[f])
  BY DEF TInv, Sockets
<1>3. q \in Seq(Fds)
  BY <1>2 DEF Socket
<1>4. /\ c \in Fds /\ Tail(q) \in Seq(Fds) /\ Len(Tail(q)) = Len(q) - 1 /\ Len(q) \in Nat
      /\ 1 \in 1..Len(q) /\ c = q[1]
      /\ \A i \in 1..Len(Tail(q)) : i + 1 \in 1..Len(q) /\ Tail(q)[i] = q[i + 1]
  BY <1>1, <1>3, HeadTailProperties, LenProperties
<1>5. sock[c].st = "connected"
  BY <1>4 DEF TInv, Waiting
<1>6. NewFd \in Fds /\ sock[NewFd].st = "free"
  BY <1>1, NewFdFree DEF Free
<1>7. fd # c /\ fd # NewFd /\ c # NewFd
  BY <1>1, <1>5, <1>6
<1>8. /\ sock' = [sock EXCEPT ![fd].pend = Tail(@), ![c].mate = NewFd,
                              ![NewFd] = Accepted(fd, c)]
      /\ known' = known \/ known' = known \cup {NewFd}
  BY DEF SocketAccept, Accepted
<1>9. /\ DOMAIN sock' = Fds /\ sock'[NewFd] = Accepted(fd, c)
      /\ sock'[fd] = [sock[fd] EXCEPT !.pend = Tail(q)]
      /\ sock'[c] = [sock[c] EXCEPT !.mate = NewFd]
      /\ \A f \in Fds : f \notin {fd, c, NewFd} => sock'[f] = sock[f]
  BY <1>2, <1>4, <1>6, <1>7, <1>8
<1>10. QED
  BY <1>1, <1>3, <1>4, <1>5, <1>6, <1>7, <1>8, <1>9 DEF Accepts

LEMMA SocketAcceptT ==
  ASSUME TInv, NEW fd \in Fds, NEW bad, SocketAccept(fd, bad)
  PROVE  TInv'
<1>1. CASE AcceptError(fd) # "ok"
  BY <1>1, Unmoved DEF SocketAccept
<1>2. CASE AcceptError(fd) = "ok"
  <2>1. PICK q, c : q = sock[fd].pend /\ c = Head(q)
    OBVIOUS
  <2>2. Accepts(fd, q, c)
    BY <1>2, <2>1, AcceptMoves
  <2> DEFINE r == Accepted(fd, c)
  <2>3. \A f \in Fds : sock[f] \in Socket(sock[f]) /\ Len(sock[f].pend) <= Backlog
    BY DEF TInv, Sockets
  <2> HIDE DEF r
  <2>4. sock[fd].st = "listening"
    BY <2>2 DEF Accepts
  <2>5. /\ c \in Fds /\ Tail(q) \in Seq(Fds) /\ Len(Tail(q)) = Len(q) - 1 /\ Len(q) \in Nat
        /\ \A i \in 1..Len(Tail(q)) : i + 1 \in 1..Len(q) /\ Tail(q)[i] = q[i + 1]
    BY <2>2 DEF Accepts
  <2>6. sock[c].st = "connected"
    BY <2>2 DEF Accepts
  <2>7. NewFd \in Fds /\ sock[NewFd].st = "free" /\ fd # c /\ fd # NewFd /\ c # NewFd
    BY <2>2 DEF Accepts
  <2>8. known' = known \/ known' = known \cup {NewFd}
    BY <2>2 DEF Accepts
  <2>9. /\ DOMAIN sock' = Fds /\ sock'[NewFd] = r
         /\ sock'[fd] = [sock[fd] EXCEPT !.pend = Tail(q)]
         /\ sock'[c] = [sock[c] EXCEPT !.mate = NewFd]
         /\ \A f \in Fds : f \notin {fd, c, NewFd} => sock'[f] = sock[f]
    BY <2>2 DEF r, Accepts
  <2>10. r \in Socket(r) /\ r.st = "connected" /\ r.pend = <<>>
    <3>1. <<>> \in Seq(Fds) /\ 0 \in 0..Room
      BY HostCallAssumption
    <3>2. sock[fd].fam \in DOMAIN Families \cup {"none"}
      BY <2>3 DEF Socket
    <3>3. QED
      BY <2>5, <3>1, <3>2 DEF r, Accepted, Unused, Socket, States
  <2>11. /\ sock'[fd] \in Socket(sock'[fd]) /\ sock'[fd].pend = Tail(q)
         /\ sock'[fd].st = "listening" /\ sock'[fd].local = sock[fd].local
    <3>1. sock[fd] \in Socket(sock[fd]) /\ sock[fd].st = "listening" /\ Tail(q) \in Seq(Fds)
      BY <2>3, <2>4, <2>5
    <3>2. sock'[fd] = [sock[fd] EXCEPT !.pend = Tail(q)]
      BY <2>9
    <3>3. QED
      BY <3>1, <3>2 DEF Socket
  <2>12. /\ sock'[c] \in Socket(sock'[c]) /\ sock'[c].pend = sock[c].pend
         /\ sock'[c].st = "connected"
    <3>1. sock[c] \in Socket(sock[c]) /\ sock[c].st = "connected" /\ NewFd \in Fds
      BY <2>3, <2>5, <2>6, <2>7
    <3>2. sock'[c] = [sock[c] EXCEPT !.mate = NewFd]
      BY <2>9
    <3>3. QED
      BY <3>1, <3>2 DEF Socket
  <2>13. Sockets'
    <3>1. \A f \in Fds : sock'[f] \in Socket(sock'[f])
      BY <2>3, <2>10, <2>9, <2>11, <2>12
    <3>2. Len(Tail(q)) <= Backlog /\ Len(<<>>) <= Backlog
      BY <2>1, <2>3, <2>5, HostCallAssumption
    <3>3. \A f \in Fds : Len(sock'[f].pend) <= Backlog
      BY <2>3, <2>5, <2>10, <2>9, <2>11, <2>12, <3>2
    <3>4. QED
      BY <2>9, <3>1, <3>3 DEF Sockets, Socket, Fds, Families
  <2>14. \A f \in Fds : \A i \in 1..Len(sock'[f].pend) :
           \E j \in 1..Len(sock[f].pend) : sock'[f].pend[i] = sock[f].pend[j]
    <3> SUFFICES ASSUME NEW f \in Fds, NEW i \in 1..Len(sock'[f].pend)
                 PROVE  \E j \in 1..Len(sock[f].pend) : sock'[f].pend[i] = sock[f].pend[j]
      OBVIOUS
    <3>1. CASE f = fd
      BY <2>1, <2>5, <2>11, <3>1
    <3>2. CASE f = NewFd
      <4>1. Len(sock'[f].pend) = 0
        BY <2>10, <2>9, <3>2
      <4>2. QED
        BY <4>1
    <3>3. CASE f \notin {fd, NewFd}
      BY <2>9, <2>12, <3>3
    <3>4. QED
      BY <3>1, <3>2, <3>3
  <2>15. \A f \in Fds : sock[f].st = "connected" => sock'[f].st = "connected"
    BY <2>4, <2>7, <2>9, <2>12
  <2>16. Waiting' /\ Apart'
    BY <2>14, <2>15, QueuesKept DEF TInv
  <2>17. OneName'
    <3>1. \A f \in Fds : sock'[f].st \in Bound =>
                           sock[f].st \in Bound /\ sock'[f].local = sock[f].local
      BY <2>4, <2>10, <2>9, <2>11, <2>12 DEF Bound
    <3>2. QED
      BY <3>1, NamesKept DEF TInv
  <2>18. Known'
    <3>1. \A f \in Fds : sock[f].st # "free" => sock'[f].st # "free"
      BY <2>7, <2>9, <2>11, <2>12
    <3>2. sock'[NewFd].st # "free"
      BY <2>10, <2>9
    <3>3. ASSUME NEW f \in known' PROVE f \in Fds /\ sock'[f].st # "free"
      BY <2>7, <2>8, <3>1, <3>2, <3>3 DEF TInv, Known
    <3>4. QED
      BY <3>3 DEF Known, Fds
  <2>19. QED
    BY <2>13, <2>16, <2>17, <2>18 DEF TInv
<1>3. QED
  BY <1>1, <1>2

-----------------------------------------------------------------------------
(* The theorems.                                                           *)

\* A host function reads every input before it touches the host: when a pointer of the
\* guest is bad, sockets, and what the guest knows of them, stay as they were.
THEOREM BadInputsChangeNothing == Spec => InputsFirst
<1>1. [Next]_vars => [Harmless]_vars
  BY NextStep DEF Step
<1>2. [Harmless]_vars => [call'.bad \cap Inputs(call'.op) # {} => UNCHANGED <<sock, known, user>>]_vars
  BY DEF Harmless
<1>3. QED
  BY <1>1, <1>2, PTL DEF Spec, InputsFirst

\* An answer of success, in a guest or in a native build, leaves no socket that the
\* guest has no descriptor of and no byte that it does not count: no error number is
\* translated to the number of success.
THEOREM WholeSuccess == Spec => []SuccessIsWhole
<1>1. Init => SuccessIsWhole
  <2>1. NoCall.op = "none"
    BY DEF NoCall
  <2>2. Init => call.op = "none"
    BY <2>1 DEF Init
  <2>3. QED
    BY <2>2 DEF SuccessIsWhole
<1>2. SuccessIsWhole /\ [Next]_vars => SuccessIsWhole'
  <2>1. CASE Next
    BY <2>1, NextStep DEF Step
  <2>2. CASE UNCHANGED vars
    BY <2>2 DEF vars, SuccessIsWhole
  <2>3. QED
    BY <2>1, <2>2
<1>3. QED
  BY <1>1, <1>2, PTL DEF Spec

\* Accept and Read that call again, and a dial that waits or finds itself connected, do
\* so for that error of the host and for its namesakes, over the whole table and every
\* error of Errno.Host that passes it untranslated: the table itself confuses nothing.
THEOREM BranchesSafe == Spec => []BranchMeansItsError
<1>1. Init => BranchMeansItsError
  <2>1. NoCall.told = 0 /\ NoCall.host = "ok"
    BY DEF NoCall
  <2>2. Means(0, "ok")
    BY NoBranch DEF Branches, Taken, Answerable
  <2>3. QED
    BY <2>1, <2>2 DEF Init, Means, Named, BranchMeansItsError
<1>2. BranchMeansItsError /\ [Next]_vars => BranchMeansItsError'
  <2>1. CASE Next
    <3>1. Answer
      BY <2>1, NextAnswer
    <3>2. Numbers' = Numbers /\ build' = build
      BY <2>1 DEF Next, Numbers
    <3>3. QED
      BY <3>1, <3>2 DEF Answer, Means, Named, BranchMeansItsError
  <2>2. CASE UNCHANGED vars
    BY <2>2 DEF vars, BranchMeansItsError, Numbers
  <2>3. QED
    BY <2>1, <2>2
<1>3. QED
  BY <1>1, <1>2, PTL DEF Spec

\* A lookup gives the guest the first addresses that the host found, as many as its
\* buffer holds, whatever the size of either: bytes and addresses are not confused on
\* the way, and an address of IPv4 comes out as one of IPv4.
THEOREM LookupsInOrder == Spec => []LookupKeepsOrder
<1>1. Init => LookupKeepsOrder
  <2>1. NoCall.op = "none"
    BY DEF NoCall
  <2>2. QED
    BY <2>1 DEF Init, LookupKeepsOrder
<1>2. LookupKeepsOrder /\ [Next]_vars => LookupKeepsOrder'
  <2>1. CASE Next
    <3>1. Fitting /\ build' = build
      BY <2>1, OpenFits, OnSocketFits, LookupFits DEF Next
    <3>2. QED
      BY <3>1, Zero DEF Fitting, InOrder, LookupKeepsOrder
  <2>2. CASE UNCHANGED vars
    BY <2>2 DEF vars, LookupKeepsOrder
  <2>3. QED
    BY <2>1, <2>2
<1>3. QED
  BY <1>1, <1>2, PTL DEF Spec

-----------------------------------------------------------------------------
(* Type correctness.                                                       *)

LEMMA InitT == Init => TInv
<1> SUFFICES ASSUME Init PROVE TInv
  OBVIOUS
<1>1. \A f \in Fds : sock[f] = Unused
  BY DEF Init
<1>2. Unused \in Socket(Unused) /\ Unused.st = "free" /\ Len(Unused.pend) = 0
  <2>1. <<>> \in Seq(Fds) /\ 0 \in 0..Room /\ Len(<<>>) = 0
    BY HostCallAssumption
  <2>2. QED
    BY <2>1 DEF Unused, Socket, States
<1>3. Sockets
  <2>1. DOMAIN sock = Fds
    BY DEF Init
  <2>2. QED
    BY <1>1, <1>2, <2>1, HostCallAssumption DEF Sockets
<1>4. Waiting /\ Apart
  BY <1>1, <1>2 DEF Waiting, Apart
<1>5. OneName /\ Known
  BY <1>1, <1>2 DEF Init, OneName, Known, Bound
<1>6. QED
  BY <1>3, <1>4, <1>5 DEF TInv

LEMMA OnSocketT ==
  ASSUME TInv, NEW fd \in known, OnSocket(fd)
  PROVE  TInv'
<1>1. fd \in Fds
  BY DEF TInv, Known
<1>2. ASSUME NEW bad, SocketLocalAddr(fd, bad) \/ SocketPeerAddr(fd, bad) PROVE TInv'
  BY <1>2, Unmoved DEF SocketLocalAddr, SocketPeerAddr
<1>3. ASSUME NEW opt, NEW bad, SocketSetOpt(fd, opt, bad) \/ SocketGetOpt(fd, opt, bad)
      PROVE  TInv'
  BY <1>3, Unmoved DEF SocketSetOpt, SocketGetOpt, Refuse
<1>4. QED
  BY <1>1, <1>2, <1>3, SocketBindT, SocketConnectT, SocketListenT, SocketAcceptT, SocketSendToT,
     SocketRecvFromT, SocketShutdownT DEF OnSocket

LEMMA LookupT ==
  ASSUME TInv, Lookup
  PROVE  TInv'
<1>1. UNCHANGED sock /\ UNCHANGED known
  BY DEF Lookup, SocketAddrIP, ResolvePort, SocketAddrPort, Refuse
<1>2. QED
  BY <1>1, Unmoved

LEMMA NextT == TInv /\ kind \in DOMAIN Families /\ [Next]_vars => TInv'
<1>1. CASE UNCHANGED vars
  BY <1>1, Unmoved DEF vars
<1>2. CASE Next
  BY <1>2, SocketOpenT, OnSocketT, LookupT DEF Next
<1>3. QED
  BY <1>1, <1>2

\* The sockets, beside what never changes and the answer.
TypeInv ==
  /\ TInv /\ build \in {"guest", "native"} /\ kind \in DOMAIN Families
  /\ call.told \in Nat \cup {Panic}

LEMMA TypeInit == Init => TypeInv
<1>1. NoCall.told = 0
  BY DEF NoCall
<1>2. QED
  BY <1>1, InitT DEF Init, TypeInv

LEMMA TypeStep == TypeInv /\ [Next]_vars => TypeInv'
<1> SUFFICES ASSUME TypeInv, [Next]_vars PROVE TypeInv'
  OBVIOUS
<1>1. TInv'
  BY NextT DEF TypeInv
<1>2. build' = build /\ kind' = kind
  BY DEF Next, vars
<1>3. call'.told \in Nat \cup {Panic}
  <2>1. CASE Next
    BY <2>1, NextAnswer DEF Answer, Means, Answerable
  <2>2. CASE UNCHANGED vars
    BY <2>2 DEF vars, TypeInv
  <2>3. QED
    BY <2>1, <2>2
<1>4. QED
  BY <1>1, <1>2, <1>3 DEF TypeInv, Families

\* In particular each connection waits in one queue, that queue keeps to the backlog, and
\* a descriptor that the guest was told stays that of a socket: two sockets that were
\* bound never have one name, so that a connect finds one listener.
THEOREM TypeCorrect == Spec => []TypeOK
<1>1. TypeInv => TypeOK
  <2> SUFFICES ASSUME TypeInv PROVE TypeOK
    OBVIOUS
  <2>1. \A f \in Fds : sock[f] \in Socket(sock[f]) /\ Len(sock[f].pend) <= Backlog
    BY DEF TypeInv, TInv, Sockets
  <2>2. \A f \in Fds : sock[f].pend \in Seq(Fds) /\ ToSet(sock[f].pend) \subseteq Fds
    <3>1. \A q \in Seq(Fds) : ToSet(q) \subseteq Fds
      BY DEF ToSet
    <3>2. QED
      BY <2>1, <3>1 DEF Socket
  <2>3. ASSUME NEW f \in Fds, NEW g \in Fds \ {f}
        PROVE  ToSet(sock[f].pend) \cap ToSet(sock[g].pend) = {}
    <3>1. \A q \in Seq(Fds) : \A x \in ToSet(q) : \E i \in 1..Len(q) : q[i] = x
      BY DEF ToSet
    <3>2. QED
      BY <2>2, <3>1 DEF TypeInv, TInv, Apart
  <2>4. \A f \in Fds :
          /\ sock[f].st \in {"free", "open", "bound", "listening", "connected"}
          /\ sock[f].fam \in DOMAIN Families \cup {"none"}
          /\ sock[f].mate \in Fds \cup {0} /\ sock[f].out \in 0..Room
          /\ sock[f].shut \subseteq {"rd", "wr"} /\ sock[f].waits \in BOOLEAN
    BY <2>1 DEF Socket, States
  <2>5. known \subseteq {f \in Fds : sock[f].st # "free"}
    BY DEF TypeInv, TInv, Known
  <2>6. QED
    BY <2>1, <2>2, <2>3, <2>4, <2>5 DEF TypeInv, TypeOK
<1>2. QED
  BY <1>1, TypeInit, TypeStep, PTL DEF Spec
=============================================================================
