------------------------------ MODULE Listener ------------------------------
(***************************************************************************)
(* A listening socket, from the call of Listen or ListenPacket to the      *)
(* moment the listener and every connection it accepted are garbage.       *)
(*                                                                         *)
(* The parties: the goroutine that listens, the goroutines that accept     *)
(* connections in a loop until Accept fails, the peers (they connect, and  *)
(* may reset a connection that nobody has accepted yet), the user of the   *)
(* listener and of the connections, and the collector with its finalizers. *)
(* All but the peers share the guest's only thread, and an accepted socket *)
(* blocks: a Read with nothing to read keeps the thread in the host.       *)
(*                                                                         *)
(* Abstracted: a connection is its peer, and a peer connects once.  One    *)
(* branch of the code cannot be taken and has no step: SetReuseAddress     *)
(* switches on the outer err, which is nil, so it never fails.             *)
(***************************************************************************)
EXTENDS Sequences, FiniteSets, Descriptor

CONSTANTS
  Kinds,       \* the calls made: "listen" (Listen), "packet" (ListenPacket)
  Acceptors,   \* goroutines that call Accept
  Peers,
  Nobody,      \* the connection of an acceptor that has none
  Backlog      \* the backlog given to the host

ASSUME ListenerAssumption ==
  /\ Kinds \subseteq {"listen", "packet"}
  /\ Nobody \notin Peers
  /\ Backlog \in Nat

VARIABLES
  kind,        \* which of the two calls this is
  pc,          \* where it is
  lfd,         \* its descriptor
  lsk,         \* the host's socket behind it
  lsn,         \* what the user does with the listener
  backlog,     \* connections that wait in the host's queue
  reset,       \* peers that have reset their connection
  apc,         \* where each acceptor is
  taken,       \* the connection it is initialising
  aerr,        \* the error that ended its loop
  conn,        \* what has become of each connection
  cfd,         \* its descriptor
  waiting      \* the connection whose Read keeps the guest's thread in the host

state == <<kind, pc, lfd, lsk, lsn, backlog, reset, apc, taken, aerr, conn, cfd>>
vars  == <<state, waiting>>
listening == <<kind, pc>>
accepting == <<apc, taken, aerr>>
peers     == <<backlog, reset>>

Pcs     == {"socket", "bind", "listen", "wrap", "done"}
Apcs    == {"idle", "accept", "init"}
Sockets == {"none", "open", "listening", "shutdown"}
Aerrs   == {"nil", "EAGAIN", "EINTR", "EMFILE", "EINVAL", "init"}
Conns   == {"away", "queued", "accepting", "held", "closed", "dropped", "refused"}

Init ==
  /\ kind \in Kinds
  /\ pc = "socket" /\ lfd = Unopened /\ lsk = "none" /\ lsn = "none"
  /\ backlog = <<>> /\ reset = {}
  /\ apc = [a \in Acceptors |-> "idle"]
  /\ taken = [a \in Acceptors |-> Nobody]
  /\ aerr = [a \in Acceptors |-> "nil"]
  /\ conn = [p \in Peers |-> "away"]
  /\ cfd = [p \in Peers |-> Unopened]
  /\ waiting = Nobody

-----------------------------------------------------------------------------
(* listenAddr and listenPacketAddr.                                        *)

\* A return with an error: the deferred close runs.
ReturnError ==
  /\ pc' = "done"
  /\ lfd' = CloseRaw(lfd)
  /\ UNCHANGED <<lsk, lsn>>

\* LookupAddress, then Socket for the first address.
OpenSocket ==
  /\ pc = "socket"
  /\ \/ /\ lfd' = OpenRaw(lfd)
        /\ lsk' = "open"
        /\ pc' = "bind"
        /\ UNCHANGED lsn
     \/ ReturnError
  /\ UNCHANGED <<kind, peers, accepting, conn, cfd>>

\* SetReuseAddress, NetaddrToRaw and Bind.
AfterBind_Same == "listen"                     \* mutant: a packet socket listens too
AfterBind == IF kind = "listen" THEN "listen" ELSE "wrap"

Bind ==
  /\ pc = "bind"
  /\ \/ /\ pc' = AfterBind
        /\ UNCHANGED <<lfd, lsk, lsn>>
     \/ ReturnError
  /\ UNCHANGED <<kind, peers, accepting, conn, cfd>>

Listen ==
  /\ pc = "listen"
  /\ \/ /\ lsk' = "listening"
        /\ pc' = "wrap"
        /\ UNCHANGED <<lfd, lsn>>
     \/ ReturnError
  /\ UNCHANGED <<kind, peers, accepting, conn, cfd>>

\* wasip1net.Listen and PacketConnFd: a file of the number, a netFD of the file,
\* and only then fd = -1.
Wrap ==
  /\ pc = "wrap"
  /\ lfd' = CloseRaw(CopyFile(WrapFile(lfd)))
  /\ lsn' = "held"
  /\ pc' = "done"
  /\ UNCHANGED <<kind, lsk, peers, accepting, conn, cfd>>

\* InitListener or pfd.Init fails, when the file exists and fd is not -1 yet.
WrapFails ==
  /\ pc = "wrap"
  /\ lfd' = CloseRaw(FailedNetFD(MakeFile(lfd)))
  /\ pc' = "done"
  /\ UNCHANGED <<kind, lsk, lsn, peers, accepting, conn, cfd>>

Opening == OpenSocket \/ Bind \/ Listen \/ Wrap \/ WrapFails

-----------------------------------------------------------------------------
(* The accept loops.                                                       *)

\* The user calls Accept, again after each connection, until an error: also on a
\* listener that was closed.
CallAccept(a) ==
  /\ apc[a] = "idle" /\ aerr[a] = "nil"
  /\ kind = "listen" /\ lsn \in {"held", "closed"}
  /\ apc' = [apc EXCEPT ![a] = "accept"]
  /\ UNCHANGED <<taken, aerr, lfd, lsk, lsn, listening, peers, conn, cfd>>

\* The host's accept takes a connection, and a file is made of its number.
Accepted(a) ==
  /\ apc[a] = "accept" /\ lsk = "listening" /\ backlog # <<>>
  /\ LET p == Head(backlog) IN
       /\ taken' = [taken EXCEPT ![a] = p]
       /\ conn' = [conn EXCEPT ![p] = "accepting"]
       /\ cfd' = [cfd EXCEPT ![p] = AcceptFile]
  /\ backlog' = Tail(backlog)
  /\ apc' = [apc EXCEPT ![a] = "init"]
  /\ UNCHANGED <<aerr, reset, lfd, lsk, lsn, listening>>

\* The errors the host's accept may return.
AcceptErrors ==
  {"EINTR", "EMFILE"}
    \cup IF lsk = "shutdown" THEN {"EINVAL"} ELSE
         IF backlog = <<>> THEN {"EAGAIN"} ELSE {}

\* acceptone yields and tries again after some of them.
Retried_Interrupts == {"EINTR"}                        \* mutant: no EAGAIN
Retried == {"EINTR", "EAGAIN"}

AcceptFails(a) ==
  /\ apc[a] = "accept"
  /\ \E e \in AcceptErrors :
       IF e \in Retried
       THEN UNCHANGED <<apc, aerr>>
       ELSE /\ apc' = [apc EXCEPT ![a] = "idle"]
            /\ aerr' = [aerr EXCEPT ![a] = e]
  /\ UNCHANGED <<taken, lfd, lsk, lsn, listening, peers, conn, cfd>>

\* Accept returns to its caller: the connection c, with error e, as descriptor r.
Return(a, c, e, r) ==
  /\ apc' = [apc EXCEPT ![a] = "idle"]
  /\ aerr' = [aerr EXCEPT ![a] = e]
  /\ taken' = [taken EXCEPT ![a] = Nobody]
  /\ conn' = [conn EXCEPT ![taken[a]] = c]
  /\ cfd' = [cfd EXCEPT ![taken[a]] = r]

InitConnection_Unchecked(a) ==                         \* mutant: its error is not looked at
  /\ apc[a] = "init"
  /\ Return(a, "held", "nil", cfd[taken[a]])
  /\ UNCHANGED <<lfd, lsk, lsn, listening, peers>>

\* InitConnection asks for the peer's name, which a reset connection has not.
InitConnection(a) ==
  /\ apc[a] = "init" /\ taken[a] \notin reset
  /\ Return(a, "held", "nil", cfd[taken[a]])
  /\ UNCHANGED <<lfd, lsk, lsn, listening, peers>>

\* InitConnection or pfd.Init fails: init arms the finalizer, netfd.Close clears it.
Refuse_NoClose(r) == r                                 \* mutant: no netfd.Close
Refuse_Syscall(r) == [r EXCEPT !.closes = @ + 1]       \* mutant: syscall.Close(nfd)
Refuse(r) == CloseFile(r, FALSE)

InitFails(a) ==
  /\ apc[a] = "init"
  /\ Return(a, "refused", "init", Refuse(cfd[taken[a]]))
  /\ UNCHANGED <<lfd, lsk, lsn, listening, peers>>

Acceptor(a) == Accepted(a) \/ AcceptFails(a) \/ InitConnection(a) \/ InitFails(a)

-----------------------------------------------------------------------------
(* The peers.                                                              *)

Connect(p) ==
  /\ conn[p] = "away" /\ lsk = "listening" /\ Len(backlog) < Backlog
  /\ backlog' = Append(backlog, p)
  /\ conn' = [conn EXCEPT ![p] = "queued"]
  /\ UNCHANGED <<reset, cfd, lfd, lsk, lsn, listening, accepting>>

Reset(p) ==
  /\ conn[p] \in {"queued", "accepting"}
  /\ reset' = reset \cup {p}
  /\ UNCHANGED <<backlog, conn, cfd, lfd, lsk, lsn, listening, accepting>>

-----------------------------------------------------------------------------
(* The user of the listener and of its connections.                        *)

\* sock_shutdown on the host: 0, 1 and 2 are the directions there, anything else
\* is EINVAL, and receiving (0 or 2) is what a listener ends.  The guest's
\* SHUT_RDWR is 3.
SHUT_RDWR == 3
HostShutdown(s, how) == IF how \in {0, 2} /\ s = "listening" THEN "shutdown" ELSE s

\* netFD.Close.  The os.File that listenAddr made stays open.
CloseListener ==
  /\ lsn = "held"
  /\ lsn' = "closed"
  /\ lsk' = HostShutdown(lsk, SHUT_RDWR)
  /\ lfd' = CloseCopy(lfd)
  /\ UNCHANGED <<listening, peers, accepting, conn, cfd>>

DropListener ==
  /\ lsn \in {"held", "closed"}
  /\ lsn' = "dropped"
  /\ UNCHANGED <<lfd, lsk, listening, peers, accepting, conn, cfd>>

\* conn.Close on an accepted connection, whose pfd is the file's own.
CloseConn(p) ==
  /\ conn[p] = "held"
  /\ conn' = [conn EXCEPT ![p] = "closed"]
  /\ cfd' = [cfd EXCEPT ![p] = CloseFile(@, FALSE)]
  /\ UNCHANGED <<lfd, lsk, lsn, listening, peers, accepting>>

DropConn(p) ==
  /\ conn[p] = "held"
  /\ conn' = [conn EXCEPT ![p] = "dropped"]
  /\ UNCHANGED <<cfd, lfd, lsk, lsn, listening, peers, accepting>>

-----------------------------------------------------------------------------
(* The collector.                                                          *)

\* The netFD is in use: while listenAddr runs, when the user has the listener
\* (conn.Close forgets a packet connection's netFD), when an acceptor is inside
\* Accept, and until its own finalizer has run.
Reachable ==
  \/ pc # "done"
  \/ lsn = "held"
  \/ lsn = "closed" /\ kind = "listen"
  \/ \E a \in Acceptors : apc[a] # "idle"
  \/ lfd.fin

FinalizeNetFD ==
  /\ pc = "done" /\ lfd.fin
  /\ lsk' = HostShutdown(lsk, SHUT_RDWR)
  /\ lfd' = [CloseCopy(lfd) EXCEPT !.fin = FALSE]
  /\ UNCHANGED <<lsn, listening, peers, accepting, conn, cfd>>

\* The file is garbage when the netFD is, or has no copy that points at its count.
FinalizeFile ==
  /\ pc = "done" /\ lfd.file = "open"
  /\ Reachable => lfd.copy = "none"
  /\ lfd' = CloseFile(lfd, FALSE)
  /\ UNCHANGED <<lsk, lsn, listening, peers, accepting, conn, cfd>>

\* The file of an accepted connection, which the user closed or forgot.
FinalizeConn(p) ==
  /\ cfd[p].file = "open" /\ conn[p] \notin {"accepting", "held"}
  /\ cfd' = [cfd EXCEPT ![p] = CloseFile(@, FALSE)]
  /\ UNCHANGED <<lfd, lsk, lsn, listening, peers, accepting, conn>>

-----------------------------------------------------------------------------
(* The guest's thread.                                                     *)

\* A Read (or a Write) on a connection that is held: recvmsg on a socket that blocks
\* does not return before the peer has sent or closed.
ReadWaits(p) ==
  /\ conn[p] = "held" /\ waiting = Nobody
  /\ waiting' = p
  /\ UNCHANGED state

PeerAnswers(p) ==
  /\ waiting = p
  /\ waiting' = Nobody
  /\ UNCHANGED state

\* The guest makes a step of its own only while its thread is not in such a call.
Thread == waiting = Nobody /\ UNCHANGED waiting

-----------------------------------------------------------------------------
Guest ==
  \/ Opening
  \/ \E a \in Acceptors : CallAccept(a) \/ Acceptor(a)
  \/ CloseListener \/ DropListener
  \/ \E p \in Peers : CloseConn(p) \/ DropConn(p)
  \/ FinalizeNetFD \/ FinalizeFile \/ \E p \in Peers : FinalizeConn(p)

Peer == \E p \in Peers : Connect(p) \/ Reset(p)

Next ==
  \/ Thread /\ Guest
  \/ Peer /\ UNCHANGED waiting
  \/ \E p \in Peers : ReadWaits(p) \/ PeerAnswers(p)

Spec == Init /\ [][Next]_vars

\* A call of the host's accept that cannot come back with EAGAIN.
AcceptReturns(a) == Accepted(a) \/ (lsk = "shutdown" /\ AcceptFails(a))

\* Go's scheduler runs a goroutine that can run (acceptone yields between two
\* calls) as long as the thread is the guest's, and the loops of the acceptors call
\* Accept again.  Nothing takes the thread from a Read: a goroutine that reads for
\* ever may keep every acceptor from its turn.  Nothing is assumed of peers (an
\* answer least of all), of the user, of the collector, of interrupts and full tables.
Fairness ==
  \A a \in Acceptors :
    /\ WF_vars(Thread /\ CallAccept(a)) /\ WF_vars(Thread /\ AcceptReturns(a))
    /\ WF_vars(Thread /\ (InitConnection(a) \/ InitFails(a)))

FairSpec == Spec /\ Fairness

-----------------------------------------------------------------------------
(* Properties.                                                             *)

\* Every variable keeps its type: in particular the queue never exceeds the backlog,
\* and only the socket of Listen listens.
TypeOK ==
  /\ kind \in Kinds /\ pc \in Pcs /\ lsn \in {"none", "held", "closed", "dropped"}
  /\ lfd \in Record /\ lsk \in Sockets
  /\ lsk = "listening" => kind = "listen"
  /\ backlog \in Seq(Peers) /\ Len(backlog) <= Backlog /\ reset \subseteq Peers
  /\ apc \in [Acceptors -> Apcs]
  /\ taken \in [Acceptors -> Peers \cup {Nobody}]
  /\ aerr \in [Acceptors -> Aerrs]
  /\ conn \in [Peers -> Conns] /\ cfd \in [Peers -> Record]
  /\ waiting \in Peers \cup {Nobody}

\* The number of a listener that was returned, and the number of every accepted
\* connection, is given to fd_close at most once, whatever the order of Close,
\* failing accepts and finalizers.
ClosedAtMostOnce ==
  /\ lsn # "none" => lfd.closes <= 1
  /\ \A p \in Peers : cfd[p].closes <= 1

\* What the user or an acceptor holds is not closed behind its back: not the
\* listener by the collector finding the os.File that listenAddr forgot, not a
\* connection by an accept that failed.
HeldIsOpen ==
  /\ lsn = "held" => lfd.closes = 0
  /\ \A p \in Peers : conn[p] \in {"accepting", "held"} => cfd[p].closes = 0

\* No connection is lost or handed out twice: each one that the host accepted is in
\* the queue once, with one acceptor, with the user, or was refused by an Accept
\* that failed and has closed it.
EachInOnePlace ==
  \A p \in Peers :
    /\ Cardinality({i \in 1..Len(backlog) : backlog[i] = p})
         = IF conn[p] = "queued" THEN 1 ELSE 0
    /\ Cardinality({a \in Acceptors : taken[a] = p})
         = IF conn[p] = "accepting" THEN 1 ELSE 0
    /\ conn[p] = "refused" => cfd[p].closes = 1

\* A Listen or ListenPacket that failed after it had a descriptor has closed it,
\* whichever of its steps failed.
FailedListenKeepsNothing ==
  pc = "done" /\ lsn = "none" /\ Opened(lfd) => lfd.closes >= 1

\* A listener implements its promise: connections are taken in the order they came,
\* by one Accept each, returned only if their peer has not reset them, refused only
\* with their descriptor closed, and open as long as the user holds them.
Promise == INSTANCE AcceptPromise WITH
  open    <- lsk = "listening",
  came    <- {p \in Peers : conn[p] # "away"},
  line    <- backlog,
  serving <- taken,
  held    <- {p \in Peers : conn[p] = "held"},
  owned   <- {p \in Peers : Opened(cfd[p]) /\ cfd[p].closes = 0},
  gone    <- reset

ImplementsAcceptPromise == Promise!Spec

\* The accept loops serve every connection that is in the queue once no Read keeps
\* the guest's thread in the host any more, and do so as long as one loop is left:
\* spinning on an empty queue does not end a loop, nor does the error that ended
\* another.  Excused: every loop ended by a full table or by a connection's
\* initialisation, and a listener that nobody holds.
QueueIsServed ==
  <>[](waiting = Nobody) =>
    \A p \in Peers :
      conn[p] = "queued"
        ~> \/ conn[p] # "queued"
           \/ lsn \in {"none", "dropped"}
           \/ \A a \in Acceptors : aerr[a] \in {"EMFILE", "init"}
=============================================================================
