--------------------------- MODULE ListenerProofs ---------------------------
(***************************************************************************)
(* Theorems about a listening socket, for any number of acceptors and      *)
(* peers and any backlog.                                                  *)
(***************************************************************************)
EXTENDS Listener, DescriptorProofs, SequenceTheorems, FiniteSetTheorems

-----------------------------------------------------------------------------
(* The inductive invariant.                                                *)

\* Who owns the listening socket's number at each step of listenAddr, and after.
\* Of an opening that failed only this is known: the number was closed.
ListenSocket ==
  /\ pc = "listen" => kind = "listen"
  /\ pc = "socket" => lfd = Unopened
  /\ pc \in {"bind", "listen", "wrap"} =>
       /\ lfd.raw = "held" /\ lfd.file = "none" /\ lfd.copy = "none" /\ ~lfd.fin
       /\ Accounted(lfd)
  /\ lsn # "none" => pc = "done" /\ lfd.raw = "moved" /\ ~lfd.fin /\ Accounted(lfd)
  /\ lsn = "held" => lfd.copy = "open"
  /\ pc = "done" /\ lsn = "none" /\ lfd.raw # "none" => lfd.closes >= 1

\* The queue holds each connection that is queued once, and no other.
Queue ==
  /\ \A i, j \in 1..Len(backlog) : backlog[i] = backlog[j] => i = j
  /\ \A p \in Peers : conn[p] = "queued" <=> \E i \in 1..Len(backlog) : backlog[i] = p

\* A connection that is being accepted has one acceptor.
Busy ==
  /\ \A a \in Acceptors : apc[a] = "init" <=> taken[a] # Nobody
  /\ \A a, b \in Acceptors : taken[a] # Nobody /\ taken[a] = taken[b] => a = b
  /\ \A p \in Peers : conn[p] = "accepting" <=> \E a \in Acceptors : taken[a] = p

\* The file is the only owner of an accepted connection's number.
Connections ==
  \A p \in Peers :
    /\ Accounted(cfd[p])
    /\ conn[p] \in {"away", "queued"} => cfd[p] = Unopened
    /\ conn[p] \notin {"away", "queued"} => cfd[p].raw = "moved" /\ cfd[p].copy = "none"
    /\ conn[p] \in {"accepting", "held"} => cfd[p].file = "open"
    /\ conn[p] = "refused" => cfd[p].file = "closed"

IInv == TypeOK /\ ListenSocket /\ Queue /\ Busy /\ Connections

-----------------------------------------------------------------------------
(* The steps that change more than who has the guest's thread.             *)

Moves == Guest \/ Peer

LEMMA OnlyMoves == [Next]_vars => [Moves]_state
BY DEF Next, vars, Moves, ReadWaits, PeerAnswers

-----------------------------------------------------------------------------
(* Type correctness.                                                       *)

LEMMA TypeStep == TypeOK /\ ListenSocket /\ Busy /\ [Next]_vars => TypeOK'
<1> SUFFICES ASSUME TypeOK, ListenSocket, Busy, [Next]_vars PROVE TypeOK'
  OBVIOUS
<1>0. waiting' \in Peers \cup {Nobody}
  BY DEF TypeOK, Next, vars, Thread, ReadWaits, PeerAnswers
<1> USE <1>0, ListenerAssumption DEF TypeOK
<1>1. \A r \in Record : /\ OpenRaw(r) \in Record /\ CloseRaw(r) \in Record
                        /\ WrapFile(r) \in Record /\ CloseFile(r, FALSE) \in Record
                        /\ CopyFile(r) \in Record /\ CloseCopy(r) \in Record
                        /\ FailedNetFD(r) \in Record /\ MakeFile(r) \in Record
  BY DescriptorTypes, FileMade
<1>2. ReturnError => lfd' \in Record /\ pc' \in Pcs
  BY <1>1 DEF ReturnError, Pcs
<1>3. CASE OpenSocket \/ Bind \/ Listen
  <2>1. CASE OpenSocket
    BY <1>1, <1>2, <2>1 DEF OpenSocket, ReturnError, peers, accepting, Pcs, Sockets
  <2>2. CASE Bind
    BY <1>2, <2>2 DEF Bind, AfterBind, ReturnError, peers, accepting, Pcs
  <2>3. CASE Listen
    BY <1>2, <2>3 DEF Listen, ListenSocket, ReturnError, peers, accepting, Pcs, Sockets
  <2>4. QED
    BY <1>3, <2>1, <2>2, <2>3
<1>4. CASE Wrap \/ WrapFails
  BY <1>1, <1>4 DEF Wrap, WrapFails, peers, accepting, Pcs
<1>5. ASSUME NEW a \in Acceptors, CallAccept(a) PROVE TypeOK'
  BY <1>5 DEF CallAccept, listening, peers, Apcs
<1>6. ASSUME NEW a \in Acceptors, Accepted(a) PROVE TypeOK'
  <2>1. Head(backlog) \in Peers /\ Tail(backlog) \in Seq(Peers)
        /\ Len(Tail(backlog)) <= Backlog
    BY <1>6, HeadTailProperties, LenProperties DEF Accepted
  <2>2. conn' \in [Peers -> Conns] /\ cfd' \in [Peers -> Record]
    BY <1>6, <2>1, FileMade DEF Accepted, Conns
  <2>3. taken' \in [Acceptors -> Peers \cup {Nobody}] /\ apc' \in [Acceptors -> Apcs]
    BY <1>6, <2>1 DEF Accepted, Apcs
  <2>4. QED
    BY <1>6, <2>1, <2>2, <2>3 DEF Accepted, listening
<1>7. ASSUME NEW a \in Acceptors, AcceptFails(a) PROVE TypeOK'
  <2>1. AcceptErrors \subseteq Aerrs
    BY DEF AcceptErrors, Aerrs
  <2>2. apc' \in [Acceptors -> Apcs] /\ aerr' \in [Acceptors -> Aerrs]
    BY <1>7, <2>1 DEF AcceptFails, Apcs
  <2>3. QED
    BY <1>7, <2>2 DEF AcceptFails, listening, peers
<1>8. ASSUME NEW a \in Acceptors, InitConnection(a) \/ InitFails(a) PROVE TypeOK'
  <2>1. taken[a] \in Peers
    BY <1>8 DEF InitConnection, InitFails, Busy
  <2>2. cfd[taken[a]] \in Record /\ Refuse(cfd[taken[a]]) \in Record
    BY <1>1, <2>1 DEF Refuse
  <2>3. cfd' \in [Peers -> Record] /\ conn' \in [Peers -> Conns]
    <3>1. \E c \in Conns : conn' = [conn EXCEPT ![taken[a]] = c]
      BY <1>8 DEF InitConnection, InitFails, Return, Conns
    <3>2. \E r \in Record : cfd' = [cfd EXCEPT ![taken[a]] = r]
      BY <1>8, <2>2 DEF InitConnection, InitFails, Return
    <3>3. QED
      BY <2>1, <3>1, <3>2
  <2>4. /\ apc' \in [Acceptors -> Apcs] /\ aerr' \in [Acceptors -> Aerrs]
        /\ taken' \in [Acceptors -> Peers \cup {Nobody}]
    BY <1>8 DEF InitConnection, InitFails, Return, Apcs, Aerrs
  <2>5. QED
    BY <1>8, <2>3, <2>4 DEF InitConnection, InitFails, listening, peers
<1>9. ASSUME NEW p \in Peers, Connect(p) PROVE TypeOK'
  <2>1. Append(backlog, p) \in Seq(Peers) /\ Len(Append(backlog, p)) <= Backlog
    BY <1>9, AppendProperties, LenProperties DEF Connect
  <2>2. QED
    BY <1>9, <2>1 DEF Connect, listening, accepting, Conns
<1>10. ASSUME NEW p \in Peers, Reset(p) PROVE TypeOK'
  BY <1>10 DEF Reset, listening, accepting
<1>11. CASE CloseListener \/ DropListener \/ FinalizeNetFD \/ FinalizeFile
  <2>1. HostShutdown(lsk, SHUT_RDWR) = lsk
    BY DEF HostShutdown, SHUT_RDWR
  <2>2. [CloseCopy(lfd) EXCEPT !.fin = FALSE] \in Record
    BY <1>1 DEF Record
  <2>3. QED
    BY <1>1, <1>11, <2>1, <2>2
       DEF CloseListener, DropListener, FinalizeNetFD, FinalizeFile,
           listening, peers, accepting
<1>12. ASSUME NEW p \in Peers, CloseConn(p) \/ DropConn(p) \/ FinalizeConn(p)
       PROVE  TypeOK'
  <2>1. CloseFile(cfd[p], FALSE) \in Record
    BY <1>1
  <2>2. cfd' \in [Peers -> Record] /\ conn' \in [Peers -> Conns]
    <3>1. \/ cfd' = cfd \/ cfd' = [cfd EXCEPT ![p] = CloseFile(cfd[p], FALSE)]
      BY <1>12 DEF CloseConn, DropConn, FinalizeConn
    <3>2. conn' = conn \/ \E c \in Conns : conn' = [conn EXCEPT ![p] = c]
      BY <1>12 DEF CloseConn, DropConn, FinalizeConn, Conns
    <3>3. cfd' \in [Peers -> Record]
      BY <2>1, <3>1
    <3>4. conn' \in [Peers -> Conns]
      BY <3>2
    <3>5. QED
      BY <3>3, <3>4
  <2>3. QED
    BY <1>12, <2>2 DEF CloseConn, DropConn, FinalizeConn, listening, peers, accepting
<1>13. CASE UNCHANGED state
  BY <1>13 DEF state
<1>14. QED
  BY <1>3, <1>4, <1>5, <1>6, <1>7, <1>8, <1>9, <1>10, <1>11, <1>12, <1>13, OnlyMoves
     DEF Moves, Guest, Peer, Opening, Acceptor
-----------------------------------------------------------------------------
(* The parts of the invariant.                                             *)

\* listenAddr and the collector are the only ones to touch the listening socket.
LEMMA SocketStep == IInv /\ [Moves]_state => ListenSocket'
<1> SUFFICES ASSUME IInv, [Moves]_state PROVE ListenSocket'
  OBVIOUS
<1> USE DEF IInv
<1>1. lfd \in Record /\ lsn \in {"none", "held", "closed", "dropped"}
  BY DEF TypeOK
<1>2. ReturnError /\ pc \in {"bind", "listen"} => ListenSocket'
  BY <1>1, ClosesGrow DEF ReturnError, ListenSocket
<1>3. CASE OpenSocket
  <2>1. CloseRaw(Unopened) = Unopened
    BY DEF CloseRaw, Unopened
  <2>2. Unopened \in Record /\ Accounted(Unopened) /\ Unopened.raw = "none"
        /\ Unopened.file = "none" /\ Unopened.copy = "none" /\ ~Unopened.fin
    BY DEF Unopened, Record, Raws, Files, Copies, Accounted, Referenced
  <2>3. OpenRaw(Unopened).file = "none" /\ OpenRaw(Unopened).copy = "none"
    BY DEF OpenRaw, Unopened
  <2>4. OpenRaw(Unopened).raw = "held" /\ ~OpenRaw(Unopened).fin
        /\ Accounted(OpenRaw(Unopened))
    BY <2>2, DescriptorFields, MovesAccounted
  <2>5. QED
    BY <1>3, <2>1, <2>2, <2>3, <2>4 DEF OpenSocket, ReturnError, ListenSocket
<1>4. CASE Bind
  BY <1>2, <1>4 DEF Bind, AfterBind, ListenSocket
<1>5. CASE Listen
  BY <1>2, <1>5 DEF Listen, ListenSocket
<1>6. CASE Wrap
  <2> DEFINE r == CopyFile(WrapFile(lfd))
  <2>1. lfd.raw = "held" /\ ~lfd.fin /\ Accounted(lfd)
    BY <1>6 DEF Wrap, ListenSocket
  <2>2. WrapFile(lfd) \in Record /\ Accounted(WrapFile(lfd))
        /\ WrapFile(lfd).raw = "moved" /\ WrapFile(lfd).file = "open"
        /\ ~WrapFile(lfd).fin
    BY <1>1, <2>1, DescriptorTypes, DescriptorFields, MovesAccounted
  <2>3. r \in Record /\ Accounted(r) /\ r.raw = "moved" /\ r.copy = "open" /\ ~r.fin
    BY <2>2, DescriptorTypes, DescriptorFields, MovesAccounted
  <2>4. CloseRaw(r) = r
    BY <2>3, DescriptorFields
  <2>5. QED
    BY <1>6, <2>3, <2>4 DEF Wrap, ListenSocket
<1>7. CASE WrapFails
  <2> DEFINE r == FailedNetFD(MakeFile(lfd))
  <2>1. r \in Record /\ r.raw = "held"
    <3>1. MakeFile(lfd) \in Record /\ MakeFile(lfd).raw = "held"
      BY <1>1, <1>7, FileMade DEF WrapFails, ListenSocket
    <3>2. QED
      BY <3>1, DescriptorTypes, DescriptorFields
  <2>2. CloseRaw(r).closes >= 1
    BY <2>1, ClosesGrow
  <2>3. QED
    BY <1>7, <2>2 DEF WrapFails, ListenSocket
<1>8. CASE CloseListener \/ DropListener
  <2>1. CloseCopy(lfd).raw = lfd.raw /\ CloseCopy(lfd).fin = lfd.fin
    BY <1>1, DescriptorFields
  <2>2. Accounted(lfd) => Accounted(CloseCopy(lfd))
    BY <1>1, ClosesAccounted
  <2>3. QED
    BY <1>8, <2>1, <2>2 DEF CloseListener, DropListener, ListenSocket, listening
<1>9. CASE FinalizeNetFD
  <2> DEFINE r == [CloseCopy(lfd) EXCEPT !.fin = FALSE]
  <2>1. lsn = "none"
    BY <1>9 DEF FinalizeNetFD, ListenSocket
  <2>2. CloseCopy(lfd) \in Record /\ CloseCopy(lfd).raw = lfd.raw
        /\ CloseCopy(lfd).closes >= lfd.closes
    BY <1>1, DescriptorTypes, DescriptorFields, ClosesGrow
  <2>3. r.raw = lfd.raw /\ r.closes >= lfd.closes
    BY <2>2 DEF Record
  <2>4. lfd.closes \in Nat /\ r.closes \in Nat
    BY <1>1, <2>2 DEF Record
  <2>5. QED
    BY <1>9, <2>1, <2>3, <2>4 DEF FinalizeNetFD, ListenSocket, listening
<1>10. CASE FinalizeFile
  <2> DEFINE r == CloseFile(lfd, FALSE)
  <2>1. lsn # "held"
    BY <1>10 DEF FinalizeFile, Reachable, ListenSocket
  <2>2. r.raw = lfd.raw /\ r.fin = lfd.fin
    BY <1>1, <1>10, UnlockedClose DEF FinalizeFile
  <2>3. Accounted(lfd) => Accounted(r)
    BY <1>1, ClosesAccounted
  <2>4. r \in Record /\ r.closes >= lfd.closes
    BY <1>1, DescriptorTypes, ClosesGrow
  <2>5. pc = "done" /\ lfd' = r /\ UNCHANGED <<kind, pc, lsn>>
    BY <1>10 DEF FinalizeFile, listening
  <2>6. lfd.closes >= 1 => r.closes >= 1
    <3>1. lfd.closes \in Nat /\ r.closes \in Nat
      BY <1>1, <2>4 DEF Record
    <3> HIDE DEF r
    <3>2. QED
      BY <2>4, <3>1
  <2>7. QED
    BY <2>1, <2>2, <2>3, <2>5, <2>6 DEF ListenSocket
<1>11. CASE UNCHANGED <<kind, pc, lfd, lsn>>
  BY <1>11 DEF ListenSocket
<1>12. (\/ UNCHANGED state
        \/ \E a \in Acceptors : CallAccept(a) \/ Acceptor(a)
        \/ \E p \in Peers : Connect(p) \/ Reset(p)
        \/ \E p \in Peers : CloseConn(p) \/ DropConn(p) \/ FinalizeConn(p))
       => UNCHANGED <<kind, pc, lfd, lsn>>
  BY DEF CallAccept, Acceptor, Accepted, AcceptFails, InitConnection, InitFails,
         Connect, Reset, CloseConn, DropConn, FinalizeConn, listening, state
<1>13. QED
  BY <1>3, <1>4, <1>5, <1>6, <1>7, <1>8, <1>9, <1>10, <1>11, <1>12 DEF Moves, Guest, Peer, Opening

\* What the actions that touch only the listening socket, a call, a peer or a
\* connection leave alone.
LEMMA Untouched ==
  /\ Opening \/ CloseListener \/ DropListener \/ FinalizeNetFD \/ FinalizeFile
       => UNCHANGED <<backlog, apc, taken, conn, cfd>>
  /\ \A a \in Acceptors : CallAccept(a) \/ AcceptFails(a)
       => UNCHANGED <<backlog, taken, conn, cfd>>
  /\ \A p \in Peers : Reset(p) => UNCHANGED <<backlog, apc, taken, conn, cfd>>
  /\ \A p \in Peers : CloseConn(p) \/ DropConn(p) \/ FinalizeConn(p)
       => UNCHANGED <<backlog, apc, taken>>
<1>1. Opening \/ CloseListener \/ DropListener \/ FinalizeNetFD \/ FinalizeFile
        => UNCHANGED <<backlog, apc, taken, conn, cfd>>
  BY DEF Opening, OpenSocket, Bind, Listen, Wrap, WrapFails, CloseListener,
         DropListener, FinalizeNetFD, FinalizeFile, peers, accepting
<1>2. \A a \in Acceptors : CallAccept(a) \/ AcceptFails(a)
        => UNCHANGED <<backlog, taken, conn, cfd>>
  BY DEF CallAccept, AcceptFails, peers
<1>3. \A p \in Peers : Reset(p) \/ CloseConn(p) \/ DropConn(p) \/ FinalizeConn(p)
        => UNCHANGED <<backlog, apc, taken>>
  BY DEF Reset, CloseConn, DropConn, FinalizeConn, peers, accepting
<1>4. \A p \in Peers : Reset(p) => UNCHANGED <<conn, cfd>>
  BY DEF Reset
<1>5. QED
  BY <1>1, <1>2, <1>3, <1>4

\* The head of the queue is queued; the rest is the queue without it.
LEMMA TakeHead ==
  ASSUME IInv, backlog # <<>>
  PROVE  /\ Head(backlog) \in Peers /\ conn[Head(backlog)] = "queued"
         /\ Len(Tail(backlog)) = Len(backlog) - 1 /\ Len(backlog) \in Nat
         /\ \A i \in 1..Len(Tail(backlog)) :
              Tail(backlog)[i] = backlog[i + 1] /\ Tail(backlog)[i] # Head(backlog)
         /\ \A i \in 1..Len(backlog) :
              backlog[i] # Head(backlog) => i - 1 \in 1..Len(Tail(backlog))
<1>1. backlog \in Seq(Peers) /\ Len(backlog) \in Nat /\ Len(backlog) >= 1
  BY LenProperties, EmptySeq DEF IInv, TypeOK
<1>2. Head(backlog) = backlog[1] /\ 1 \in 1..Len(backlog)
  BY <1>1
<1>3. /\ Len(Tail(backlog)) = Len(backlog) - 1
      /\ \A i \in 1..Len(Tail(backlog)) : Tail(backlog)[i] = backlog[i + 1]
  BY <1>1, HeadTailProperties
<1>4. Head(backlog) \in Peers
  BY <1>1, HeadTailProperties
<1>5. conn[Head(backlog)] = "queued"
  BY <1>2, <1>4 DEF IInv, Queue
<1>6. ASSUME NEW i \in 1..Len(Tail(backlog)) PROVE Tail(backlog)[i] # Head(backlog)
  <2>1. i + 1 \in 1..Len(backlog) /\ i + 1 # 1
    BY <1>1, <1>3
  <2>2. QED
    BY <1>2, <1>3, <2>1 DEF IInv, Queue
<1>7. QED
  BY <1>1, <1>2, <1>3, <1>4, <1>5, <1>6

\* The host's queue, as acceptors take from it and peers are added.
LEMMA QueueStep == IInv /\ [Moves]_state => Queue'
<1> SUFFICES ASSUME IInv, [Moves]_state PROVE Queue'
  OBVIOUS
<1>1. CASE UNCHANGED <<backlog, conn>>
  BY <1>1 DEF IInv, Queue
<1>2. ASSUME NEW a \in Acceptors, Accepted(a) PROVE Queue'
  <2> DEFINE q == Head(backlog)
  <2>1. backlog # <<>> /\ backlog' = Tail(backlog) /\ conn' = [conn EXCEPT ![q] = "accepting"]
    BY <1>2 DEF Accepted
  <2>2. ASSUME NEW i \in 1..Len(backlog'), NEW j \in 1..Len(backlog'),
               backlog'[i] = backlog'[j]
        PROVE  i = j
    <3>1. i + 1 \in 1..Len(backlog) /\ j + 1 \in 1..Len(backlog)
      BY <2>1, TakeHead
    <3>2. backlog[i + 1] = backlog[j + 1]
      BY <2>1, <2>2, TakeHead
    <3>3. i + 1 = j + 1
      BY <3>1, <3>2 DEF IInv, Queue
    <3>4. QED
      BY <3>3
  <2>3. ASSUME NEW p \in Peers
        PROVE  conn'[p] = "queued" <=> \E i \in 1..Len(backlog') : backlog'[i] = p
    <3>1. CASE p = q
      <4>1. conn'[p] = "accepting"
        BY <2>1, <3>1 DEF IInv, TypeOK
      <4>2. \A i \in 1..Len(backlog') : backlog'[i] # p
        BY <2>1, <3>1, TakeHead
      <4>3. QED
        BY <4>1, <4>2
    <3>2. CASE p # q
      <4>1. conn'[p] = conn[p]
        BY <2>1, <3>2 DEF IInv, TypeOK
      <4>2. ASSUME NEW i \in 1..Len(backlog'), backlog'[i] = p PROVE conn[p] = "queued"
        <5>1. i + 1 \in 1..Len(backlog) /\ backlog[i + 1] = p
          BY <2>1, <4>2, TakeHead
        <5>2. QED
          BY <5>1 DEF IInv, Queue
      <4>3. ASSUME conn[p] = "queued" PROVE \E i \in 1..Len(backlog') : backlog'[i] = p
        <5>1. PICK i \in 1..Len(backlog) : backlog[i] = p
          BY <4>3 DEF IInv, Queue
        <5>2. i - 1 \in 1..Len(backlog')
          BY <2>1, <3>2, <5>1, TakeHead
        <5>3. backlog'[i - 1] = backlog[(i - 1) + 1] /\ (i - 1) + 1 = i
          BY <2>1, <5>2, TakeHead
        <5>4. QED
          BY <5>1, <5>2, <5>3
      <4>4. QED
        BY <4>1, <4>2, <4>3
    <3>3. QED
      BY <3>1, <3>2
  <2>4. QED
    BY <2>2, <2>3 DEF Queue
<1>3. ASSUME NEW p \in Peers, Connect(p) PROVE Queue'
  <2>1. /\ backlog' = Append(backlog, p) /\ conn' = [conn EXCEPT ![p] = "queued"]
        /\ conn[p] = "away"
    BY <1>3 DEF Connect
  <2>2. /\ Len(backlog) \in Nat /\ Len(backlog') = Len(backlog) + 1
        /\ \A i \in 1..Len(backlog) : backlog'[i] = backlog[i]
        /\ backlog'[Len(backlog) + 1] = p
    BY <2>1, AppendProperties, LenProperties DEF IInv, TypeOK
  <2>3. \A i \in 1..Len(backlog) : backlog[i] # p
    BY <2>1 DEF IInv, Queue
  <2>4. \A i \in 1..Len(backlog') : i \in 1..Len(backlog) \/ i = Len(backlog) + 1
    BY <2>2
  <2>5. \A i, j \in 1..Len(backlog') : backlog'[i] = backlog'[j] => i = j
    BY <2>2, <2>3, <2>4 DEF IInv, Queue
  <2>6. \A i \in 1..Len(backlog) : i \in 1..Len(backlog')
    BY <2>2
  <2>7. ASSUME NEW x \in Peers
        PROVE  conn'[x] = "queued" <=> \E i \in 1..Len(backlog') : backlog'[i] = x
    <3>1. CASE x = p
      <4>1. conn'[x] = "queued"
        BY <2>1, <3>1 DEF IInv, TypeOK
      <4>2. Len(backlog) + 1 \in 1..Len(backlog') /\ backlog'[Len(backlog) + 1] = x
        BY <2>2, <3>1
      <4>3. QED
        BY <4>1, <4>2
    <3>2. CASE x # p
      <4>1. conn'[x] = conn[x]
        BY <2>1, <3>2 DEF IInv, TypeOK
      <4>2. (\E i \in 1..Len(backlog') : backlog'[i] = x)
              <=> \E i \in 1..Len(backlog) : backlog[i] = x
        BY <2>2, <2>4, <2>6, <3>2
      <4>3. QED
        BY <4>1, <4>2 DEF IInv, Queue
    <3>3. QED
      BY <3>1, <3>2
  <2>8. QED
    BY <2>5, <2>7 DEF Queue
\* No other action makes or ends the state "queued".
<1>4. CASE UNCHANGED backlog /\ \A p \in Peers : conn'[p] = "queued" <=> conn[p] = "queued"
  BY <1>4 DEF IInv, Queue
<1>5. ASSUME NEW a \in Acceptors, InitConnection(a) \/ InitFails(a) PROVE Queue'
  <2>1. taken[a] \in Peers /\ conn[taken[a]] = "accepting"
    BY <1>5 DEF InitConnection, InitFails, IInv, Busy, TypeOK
  <2>2. PICK c \in {"held", "refused"} : conn' = [conn EXCEPT ![taken[a]] = c]
    BY <1>5 DEF InitConnection, InitFails, Return
  <2>3. UNCHANGED backlog
    BY <1>5 DEF InitConnection, InitFails, peers
  <2>4. QED
    BY <1>4, <2>1, <2>2, <2>3 DEF IInv, TypeOK
<1>6. ASSUME NEW p \in Peers, CloseConn(p) \/ DropConn(p) \/ FinalizeConn(p)
      PROVE  Queue'
  <2>1. \A x \in Peers : conn'[x] = "queued" <=> conn[x] = "queued"
    BY <1>6 DEF CloseConn, DropConn, FinalizeConn, IInv, TypeOK
  <2>2. QED
    BY <1>4, <1>6, <2>1, Untouched
<1>7. UNCHANGED state => UNCHANGED <<backlog, conn>>
  BY DEF state
<1>8. QED
  BY <1>1, <1>2, <1>3, <1>5, <1>6, <1>7, Untouched DEF Moves, Guest, Peer, Acceptor

\* The acceptors and the connections they have taken.
LEMMA BusyStep == IInv /\ [Moves]_state => Busy'
<1> SUFFICES ASSUME IInv, [Moves]_state PROVE Busy'
  OBVIOUS
<1> USE ListenerAssumption
<1>1. /\ apc \in [Acceptors -> Apcs] /\ taken \in [Acceptors -> Peers \cup {Nobody}]
      /\ conn \in [Peers -> Conns] /\ Nobody \notin Peers
  BY DEF IInv, TypeOK
<1>2. CASE UNCHANGED <<apc, taken, conn>>
  BY <1>2 DEF IInv, Busy
<1>3. ASSUME NEW a \in Acceptors, CallAccept(a) \/ AcceptFails(a) PROVE Busy'
  <2>1. \A b \in Acceptors : apc'[b] = "init" <=> apc[b] = "init"
    BY <1>1, <1>3 DEF CallAccept, AcceptFails
  <2>2. QED
    BY <1>3, <2>1, Untouched DEF IInv, Busy
<1>4. ASSUME NEW a \in Acceptors, Accepted(a) PROVE Busy'
  <2> DEFINE q == Head(backlog)
  <2>1. /\ taken' = [taken EXCEPT ![a] = q] /\ apc' = [apc EXCEPT ![a] = "init"]
        /\ conn' = [conn EXCEPT ![q] = "accepting"] /\ apc[a] = "accept"
    BY <1>4 DEF Accepted
  <2>2. q \in Peers /\ conn[q] = "queued"
    BY <1>4, TakeHead DEF Accepted
  <2> HIDE DEF q
  <2>3. taken[a] = Nobody /\ \A b \in Acceptors : taken[b] # q
    BY <1>1, <2>1, <2>2 DEF IInv, Busy
  <2>4. \A b \in Acceptors : apc'[b] = "init" <=> taken'[b] # Nobody
    BY <1>1, <2>1, <2>2 DEF IInv, Busy
  <2>5. \A b, c \in Acceptors : taken'[b] # Nobody /\ taken'[b] = taken'[c] => b = c
    BY <1>1, <2>1, <2>3 DEF IInv, Busy
  <2>6. \A p \in Peers : conn'[p] = "accepting" <=> \E b \in Acceptors : taken'[b] = p
    <3>1. taken'[a] = q /\ conn'[q] = "accepting"
      BY <1>1, <2>1, <2>2
    <3>2. \A b \in Acceptors : b # a => taken'[b] = taken[b]
      BY <1>1, <2>1
    <3>3. \A p \in Peers : p # q => conn'[p] = conn[p]
      BY <1>1, <2>1
    <3>4. QED
      BY <2>2, <2>3, <3>1, <3>2, <3>3, <1>1 DEF IInv, Busy
  <2>7. QED
    BY <2>4, <2>5, <2>6 DEF Busy
<1>5. ASSUME NEW a \in Acceptors, InitConnection(a) \/ InitFails(a) PROVE Busy'
  <2> DEFINE t == taken[a]
  <2>1. PICK c \in {"held", "refused"} : conn' = [conn EXCEPT ![t] = c]
    BY <1>5 DEF InitConnection, InitFails, Return
  <2>2. taken' = [taken EXCEPT ![a] = Nobody] /\ apc' = [apc EXCEPT ![a] = "idle"]
        /\ apc[a] = "init"
    BY <1>5 DEF InitConnection, InitFails, Return
  <2>3. t \in Peers /\ conn[t] = "accepting" /\ \A b \in Acceptors : b # a => taken[b] # t
    BY <1>1, <2>2 DEF IInv, Busy
  <2>4. \A b \in Acceptors : apc'[b] = "init" <=> taken'[b] # Nobody
    BY <1>1, <2>2 DEF IInv, Busy
  <2>5. \A b, x \in Acceptors : taken'[b] # Nobody /\ taken'[b] = taken'[x] => b = x
    BY <1>1, <2>2 DEF IInv, Busy
  <2>6. \A p \in Peers : conn'[p] = "accepting" <=> \E b \in Acceptors : taken'[b] = p
    <3>1. conn'[t] # "accepting" /\ \A p \in Peers : p # t => conn'[p] = conn[p]
      BY <1>1, <2>1, <2>3
    <3>2. taken'[a] = Nobody /\ \A b \in Acceptors : b # a => taken'[b] = taken[b]
      BY <1>1, <2>2
    <3>3. QED
      BY <1>1, <2>3, <3>1, <3>2 DEF IInv, Busy
  <2>7. QED
    BY <2>4, <2>5, <2>6 DEF Busy
\* No other action makes or ends the state "accepting".
<1>6. CASE UNCHANGED <<apc, taken>>
           /\ \A p \in Peers : conn'[p] = "accepting" <=> conn[p] = "accepting"
  BY <1>6 DEF IInv, Busy
<1>7. ASSUME NEW p \in Peers, Connect(p) \/ CloseConn(p) \/ DropConn(p) \/ FinalizeConn(p)
      PROVE  Busy'
  <2>1. \A x \in Peers : conn'[x] = "accepting" <=> conn[x] = "accepting"
    BY <1>1, <1>7 DEF Connect, CloseConn, DropConn, FinalizeConn
  <2>2. UNCHANGED <<apc, taken>>
    BY <1>7 DEF Connect, CloseConn, DropConn, FinalizeConn, accepting
  <2>3. QED
    BY <1>6, <2>1, <2>2
<1>8. UNCHANGED state => UNCHANGED <<apc, taken, conn>>
  BY DEF state
<1>9. QED
  BY <1>2, <1>3, <1>4, <1>5, <1>7, <1>8, Untouched DEF Moves, Guest, Peer, Acceptor

\* What one connection's part of the invariant says of its state c and record r.
Connection(c, r) ==
  /\ Accounted(r)
  /\ c \in {"away", "queued"} => r = Unopened
  /\ c \notin {"away", "queued"} => r.raw = "moved" /\ r.copy = "none"
  /\ c \in {"accepting", "held"} => r.file = "open"
  /\ c = "refused" => r.file = "closed"

\* Closing the file of a connection, as Close, a failed accept and the collector do.
LEMMA CloseConnection ==
  ASSUME NEW c, NEW d, NEW r \in Record, Connection(c, r), r.file = "open",
         c \notin {"away", "queued"}, d \notin {"away", "queued", "accepting", "held"}
  PROVE  Connection(d, CloseFile(r, FALSE))
<1>1. Accounted(CloseFile(r, FALSE))
  BY ClosesAccounted DEF Connection
<1>2. CloseFile(r, FALSE).file = "closed" /\ CloseFile(r, FALSE).raw = "moved"
      /\ CloseFile(r, FALSE).copy = "none"
  BY UnlockedClose DEF Connection
<1>3. QED
  BY <1>1, <1>2 DEF Connection

LEMMA ConnectionsStep == IInv /\ [Moves]_state => Connections'
<1> SUFFICES ASSUME IInv, [Moves]_state PROVE \A p \in Peers : Connection(conn[p], cfd[p])'
  BY DEF Connections, Connection
<1>1. /\ conn \in [Peers -> Conns] /\ cfd \in [Peers -> Record]
      /\ \A p \in Peers : Connection(conn[p], cfd[p])
  BY DEF IInv, TypeOK, Connections, Connection
<1>2. CASE UNCHANGED <<conn, cfd>>
  BY <1>1, <1>2
<1>3. ASSUME NEW p \in Peers, \A x \in Peers : x # p => UNCHANGED <<conn[x], cfd[x]>>,
             Connection(conn'[p], cfd'[p])
      PROVE  \A x \in Peers : Connection(conn[x], cfd[x])'
  <2> TAKE x \in Peers
  <2>1. CASE x = p
    BY <1>3, <2>1
  <2>2. CASE x # p
    <3>1. conn'[x] = conn[x] /\ cfd'[x] = cfd[x]
      BY <1>3, <2>2
    <3>2. QED
      BY <1>1, <3>1
  <2>3. QED
    BY <2>1, <2>2
<1>4. ASSUME NEW a \in Acceptors, Accepted(a)
      PROVE  \A p \in Peers : Connection(conn[p], cfd[p])'
  <2> DEFINE q == Head(backlog)
  <2>1. conn' = [conn EXCEPT ![q] = "accepting"] /\ cfd' = [cfd EXCEPT ![q] = AcceptFile]
    BY <1>4 DEF Accepted
  <2>2. q \in Peers
    BY <1>4, TakeHead DEF Accepted
  <2> HIDE DEF q
  <2>3. Connection("accepting", AcceptFile)
    BY FileMade DEF Connection
  <2>4. QED
    BY <1>1, <1>3, <2>1, <2>2, <2>3
<1>5. ASSUME NEW a \in Acceptors, InitConnection(a) \/ InitFails(a)
      PROVE  \A p \in Peers : Connection(conn[p], cfd[p])'
  <2> DEFINE t == taken[a]
  <2>1. t \in Peers /\ conn[t] = "accepting"
    BY <1>5 DEF InitConnection, InitFails, IInv, Busy, TypeOK
  <2>2. cfd[t].file = "open" /\ cfd[t] \in Record /\ Connection("accepting", cfd[t])
    BY <1>1, <2>1 DEF Connection
  <2>3. CASE InitConnection(a)
    <3>1. conn' = [conn EXCEPT ![t] = "held"] /\ cfd' = [cfd EXCEPT ![t] = cfd[t]]
      BY <2>3 DEF InitConnection, Return
    <3>2. Connection("held", cfd[t])
      BY <2>2 DEF Connection
    <3>3. QED
      BY <1>1, <1>3, <2>1, <3>1, <3>2
  <2>4. CASE InitFails(a)
    <3>1. /\ conn' = [conn EXCEPT ![t] = "refused"]
          /\ cfd' = [cfd EXCEPT ![t] = CloseFile(cfd[t], FALSE)]
      BY <2>4 DEF InitFails, Return, Refuse
    <3>2. ASSUME NEW r \in Record, r.file = "open", Connection("accepting", r)
          PROVE  Connection("refused", CloseFile(r, FALSE))
      BY <3>2, CloseConnection
    <3> HIDE DEF t
    <3>3. Connection("refused", CloseFile(cfd[t], FALSE))
      BY <2>2, <3>2
    <3>4. QED
      BY <1>1, <1>3, <2>1, <3>1, <3>3
  <2>5. QED
    BY <1>5, <2>3, <2>4
<1>6. ASSUME NEW p \in Peers, Connect(p)
      PROVE  \A x \in Peers : Connection(conn[x], cfd[x])'
  <2>1. conn' = [conn EXCEPT ![p] = "queued"] /\ cfd' = cfd /\ conn[p] = "away"
    BY <1>6 DEF Connect
  <2>2. Connection("queued", cfd[p])
    BY <1>1, <2>1 DEF Connection
  <2>3. QED
    BY <1>1, <1>3, <2>1, <2>2
<1>7. ASSUME NEW p \in Peers, CloseConn(p) \/ FinalizeConn(p)
      PROVE  \A x \in Peers : Connection(conn[x], cfd[x])'
  <2>1. /\ cfd' = [cfd EXCEPT ![p] = CloseFile(cfd[p], FALSE)]
        /\ \A x \in Peers : x # p => conn'[x] = conn[x]
    BY <1>1, <1>7 DEF CloseConn, FinalizeConn
  <2>2. CASE CloseConn(p)
    <3>1. conn[p] = "held" /\ conn'[p] = "closed" /\ cfd[p].file = "open"
      BY <1>1, <2>2 DEF CloseConn, Connection
    <3>2. Connection("closed", CloseFile(cfd[p], FALSE))
      BY <1>1, <3>1, CloseConnection
    <3>3. QED
      BY <1>1, <1>3, <2>1, <3>1, <3>2
  <2>3. CASE FinalizeConn(p)
    <3>1. conn' = conn /\ cfd[p].file = "open" /\ conn[p] \notin {"accepting", "held"}
      BY <2>3 DEF FinalizeConn
    <3>2. conn[p] \notin {"away", "queued"}
      BY <1>1, <3>1 DEF Connection, Unopened
    <3>3. Connection(conn[p], CloseFile(cfd[p], FALSE))
      BY <1>1, <3>1, <3>2, CloseConnection
    <3>4. QED
      BY <1>1, <1>3, <2>1, <3>1, <3>3
  <2>4. QED
    BY <1>7, <2>2, <2>3
<1>8. ASSUME NEW p \in Peers, DropConn(p)
      PROVE  \A x \in Peers : Connection(conn[x], cfd[x])'
  <2>1. conn[p] = "held" /\ conn' = [conn EXCEPT ![p] = "dropped"] /\ cfd' = cfd
    BY <1>8 DEF DropConn
  <2>2. Connection("dropped", cfd[p])
    BY <1>1, <2>1 DEF Connection
  <2>3. QED
    BY <1>1, <1>3, <2>1, <2>2
<1>9. UNCHANGED state => UNCHANGED <<conn, cfd>>
  BY DEF state
<1>10. QED
  BY <1>2, <1>4, <1>5, <1>6, <1>7, <1>8, <1>9, Untouched DEF Moves, Guest, Peer, Acceptor

-----------------------------------------------------------------------------
(* The theorems.                                                           *)

LEMMA IInvInit == Init => IInv
<1> SUFFICES ASSUME Init PROVE IInv
  OBVIOUS
<1> USE ListenerAssumption DEF Init
<1>1. Unopened \in Record /\ Accounted(Unopened)
  BY DEF Unopened, Record, Raws, Files, Copies, Accounted, Referenced
<1>2. TypeOK
  BY <1>1 DEF TypeOK, Pcs, Sockets, Apcs, Aerrs, Conns
<1>3. ListenSocket /\ Queue /\ Busy /\ Connections
  <2>1. ListenSocket
    BY DEF ListenSocket
  <2>2. Queue
    BY DEF Queue
  <2>3. Busy
    BY DEF Busy
  <2>4. Connections
    BY <1>1 DEF Connections
  <2>5. QED
    BY <2>1, <2>2, <2>3, <2>4
<1>4. QED
  BY <1>2, <1>3 DEF IInv

\* The invariant holds of every behaviour of a listening socket.
THEOREM Invariance == Spec => []IInv
<1>1. IInv /\ [Next]_vars => IInv'
  BY OnlyMoves, TypeStep, SocketStep, QueueStep, BusyStep, ConnectionsStep DEF IInv
<1>2. QED
  BY IInvInit, <1>1, PTL DEF Spec

\* Type correctness: the queue never exceeds the backlog, and the socket of
\* ListenPacket never listens.
THEOREM TypeCorrect == Spec => []TypeOK
<1>1. IInv => TypeOK
  BY DEF IInv
<1>2. QED
  BY Invariance, <1>1, PTL

\* No number is given to fd_close twice: not that of a listener that was returned,
\* not that of an accepted connection, whatever the order of Close, failing accepts
\* and finalizers.
THEOREM ClosedOnce == Spec => []ClosedAtMostOnce
<1>1. IInv => ClosedAtMostOnce
  <2> SUFFICES ASSUME IInv PROVE ClosedAtMostOnce
    OBVIOUS
  <2>1. ASSUME NEW r, Accounted(r) PROVE r.closes <= 1
    BY <2>1 DEF Accounted
  <2>2. QED
    BY <2>1 DEF ClosedAtMostOnce, IInv, ListenSocket, Connections
<1>2. QED
  BY Invariance, <1>1, PTL

\* A listener that is held, and a connection that is held or being accepted, is not
\* closed by anyone else.
THEOREM HeldStaysOpen == Spec => []HeldIsOpen
<1>1. IInv => HeldIsOpen
  <2> SUFFICES ASSUME IInv PROVE HeldIsOpen
    OBVIOUS
  <2>1. ASSUME NEW r, Accounted(r), r.raw = "moved", r.file = "open" \/ r.copy = "open"
        PROVE  r.closes = 0
    BY <2>1 DEF Accounted, Referenced
  <2>2. lsn = "held" => lfd.closes = 0
    BY <2>1 DEF IInv, ListenSocket
  <2>3. \A p \in Peers : conn[p] \in {"accepting", "held"} => cfd[p].closes = 0
    BY <2>1 DEF IInv, Connections
  <2>4. QED
    BY <2>2, <2>3 DEF HeldIsOpen
<1>2. QED
  BY Invariance, <1>1, PTL

\* No connection that the host accepted is lost or handed out twice.
THEOREM NoneLost == Spec => []EachInOnePlace
<1>1. IInv => EachInOnePlace
  <2> SUFFICES ASSUME IInv, NEW p \in Peers
      PROVE /\ Cardinality({i \in 1..Len(backlog) : backlog[i] = p})
                 = IF conn[p] = "queued" THEN 1 ELSE 0
            /\ Cardinality({a \in Acceptors : taken[a] = p})
                 = IF conn[p] = "accepting" THEN 1 ELSE 0
            /\ conn[p] = "refused" => cfd[p].closes = 1
    BY DEF EachInOnePlace
  <2> DEFINE Places == {i \in 1..Len(backlog) : backlog[i] = p}
             Takers == {a \in Acceptors : taken[a] = p}
  <2>1. CASE conn[p] = "queued"
    <3>1. PICK i \in 1..Len(backlog) : backlog[i] = p
      BY <2>1 DEF IInv, Queue
    <3>2. Places = {i}
      BY <3>1 DEF IInv, Queue
    <3>3. Takers = {}
      BY <2>1 DEF IInv, Busy
    <3>4. QED
      BY <2>1, <3>2, <3>3, FS_EmptySet, FS_Singleton
  <2>2. CASE conn[p] = "accepting"
    <3>1. PICK a \in Acceptors : taken[a] = p
      BY <2>2 DEF IInv, Busy
    <3>2. Takers = {a}
      BY <3>1, ListenerAssumption DEF IInv, Busy
    <3>3. Places = {}
      BY <2>2 DEF IInv, Queue
    <3>4. QED
      BY <2>2, <3>2, <3>3, FS_EmptySet, FS_Singleton
  <2>3. CASE conn[p] \notin {"queued", "accepting"}
    <3>1. Places = {} /\ Takers = {}
      BY <2>3 DEF IInv, Queue, Busy
    <3>2. conn[p] = "refused" => cfd[p].closes = 1
      BY DEF IInv, Connections, Accounted, Referenced
    <3>3. QED
      BY <2>3, <3>1, <3>2, FS_EmptySet
  <2>4. QED
    BY <2>1, <2>2, <2>3
<1>2. QED
  BY Invariance, <1>1, PTL

\* A Listen or ListenPacket that failed has closed its number.
THEOREM NothingKept == Spec => []FailedListenKeepsNothing
<1>1. IInv => FailedListenKeepsNothing
  BY DEF IInv, ListenSocket, FailedListenKeepsNothing, Opened
<1>2. QED
  BY Invariance, <1>1, PTL

-----------------------------------------------------------------------------
(* The listener implements its promise.                                    *)

CameBar  == {p \in Peers : conn[p] # "away"}
HeldBar  == {p \in Peers : conn[p] = "held"}
OwnedBar == {p \in Peers : Opened(cfd[p]) /\ cfd[p].closes = 0}
TakenBar == {p \in Peers : conn[p] = "accepting"}

\* The socket listens only after listenAddr got so far: nothing opens it again.
Opens == lsk = "listening" => pc \in {"wrap", "done"}

LEMMA OpensAlways == Spec => []Opens
<1>1. Init => Opens
  BY DEF Init, Opens
<1>2. TypeOK /\ ListenSocket /\ Opens /\ [Moves]_state => Opens'
  <2> SUFFICES ASSUME Opens, [Moves]_state PROVE Opens'
    OBVIOUS
  <2>1. CASE Opening
    BY <2>1 DEF Opens, Opening, OpenSocket, Bind, AfterBind, Listen, Wrap, WrapFails, ReturnError
  <2>2. CASE CloseListener \/ DropListener \/ FinalizeNetFD \/ FinalizeFile
    BY <2>2 DEF Opens, CloseListener, DropListener, FinalizeNetFD, FinalizeFile, HostShutdown,
                SHUT_RDWR, listening
  <2>3. CASE UNCHANGED <<lsk, pc>>
    BY <2>3 DEF Opens
  <2>4. (\/ UNCHANGED state
         \/ \E a \in Acceptors : CallAccept(a) \/ Acceptor(a)
         \/ \E p \in Peers : Connect(p) \/ Reset(p)
         \/ \E p \in Peers : CloseConn(p) \/ DropConn(p) \/ FinalizeConn(p))
        => UNCHANGED <<lsk, pc>>
    BY DEF CallAccept, Acceptor, Accepted, AcceptFails, InitConnection, InitFails,
           Connect, Reset, CloseConn, DropConn, FinalizeConn, listening, state
  <2>5. QED
    BY <2>1, <2>2, <2>3, <2>4 DEF Moves, Guest, Peer
<1>3. IInv => TypeOK /\ ListenSocket
  BY DEF IInv
<1>4. QED
  BY <1>1, <1>2, <1>3, OnlyMoves, Invariance, PTL DEF Spec

\* A descriptor is owned from the accept to the close of its file.
LEMMA OwnedNow ==
  ASSUME IInv, NEW p \in Peers
  PROVE  /\ conn[p] \in {"accepting", "held"} => p \in OwnedBar
         /\ conn[p] \in {"away", "queued", "refused"} => p \notin OwnedBar
         /\ cfd[p].file = "open" => p \in OwnedBar
         /\ cfd[p].file = "closed" => p \notin OwnedBar
<1>1. /\ Accounted(cfd[p])
      /\ conn[p] \in {"away", "queued"} => cfd[p] = Unopened
      /\ conn[p] \notin {"away", "queued"} => cfd[p].raw = "moved" /\ cfd[p].copy = "none"
      /\ conn[p] \in {"accepting", "held"} => cfd[p].file = "open"
      /\ conn[p] = "refused" => cfd[p].file = "closed"
  BY DEF IInv, Connections
<1>2. CASE conn[p] \in {"away", "queued"}
  BY <1>1, <1>2 DEF OwnedBar, Opened, Unopened
<1>3. CASE conn[p] \notin {"away", "queued"}
  BY <1>1, <1>3 DEF OwnedBar, Opened, Accounted, Referenced
<1>4. QED
  BY <1>2, <1>3

LEMMA OwnedNext ==
  (\A p \in Peers :
     IInv => /\ conn[p] \in {"accepting", "held"} => p \in OwnedBar
             /\ conn[p] \in {"away", "queued", "refused"} => p \notin OwnedBar
             /\ cfd[p].file = "open" => p \in OwnedBar
             /\ cfd[p].file = "closed" => p \notin OwnedBar)'
<1>1. \A p \in Peers :
     IInv => /\ conn[p] \in {"accepting", "held"} => p \in OwnedBar
             /\ conn[p] \in {"away", "queued", "refused"} => p \notin OwnedBar
             /\ cfd[p].file = "open" => p \in OwnedBar
             /\ cfd[p].file = "closed" => p \notin OwnedBar
  BY OwnedNow
<1>2. QED
  BY <1>1, PTL

LEMMA TakenNow == IInv => Promise!Served = TakenBar
BY ListenerAssumption DEF IInv, TypeOK, Busy, Promise!Served, TakenBar

\* A step that changes no connection: the socket may begin to listen.
LEMMA SocketRefines ==
  ASSUME IInv, Opens,
         Opening \/ CloseListener \/ DropListener \/ FinalizeNetFD \/ FinalizeFile
  PROVE  Promise!Open \/ UNCHANGED Promise!vars
<1>1. UNCHANGED <<backlog, taken, conn, cfd, reset>>
  BY Untouched DEF Opening, OpenSocket, Bind, Listen, Wrap, WrapFails, CloseListener,
         DropListener, FinalizeNetFD, FinalizeFile, peers
<1>2. lsk = "listening" => lsk' = "listening"
  <2>1. CASE Opening
    BY <2>1 DEF Opens, Opening, OpenSocket, Bind, Listen, Wrap, WrapFails, ReturnError
  <2>2. CASE CloseListener \/ FinalizeNetFD
    <3>1. lsk' = HostShutdown(lsk, SHUT_RDWR)
      BY <2>2 DEF CloseListener, FinalizeNetFD
    <3>2. QED
      BY <3>1 DEF HostShutdown, SHUT_RDWR
  <2>3. CASE DropListener \/ FinalizeFile
    BY <2>3 DEF DropListener, FinalizeFile
  <2>4. QED
    BY <2>1, <2>2, <2>3
<1>3. CASE (lsk = "listening") = (lsk' = "listening")
  BY <1>1, <1>3 DEF Promise!vars
<1>4. CASE (lsk = "listening") # (lsk' = "listening")
  BY <1>1, <1>2, <1>4 DEF Promise!Open
<1>5. QED
  BY <1>3, <1>4

\* A peer connects or resets.
LEMMA PeerRefines ==
  ASSUME IInv, NEW p \in Peers, Connect(p) \/ Reset(p)
  PROVE  Promise!Come(p) \/ Promise!Leave(p)
<1>1. CASE Connect(p)
  <2>1. /\ conn[p] = "away" /\ conn' = [conn EXCEPT ![p] = "queued"] /\ cfd' = cfd
        /\ UNCHANGED <<lsk, taken, reset>>
    BY <1>1 DEF Connect, accepting
  <2>2. CameBar' = CameBar \cup {p} /\ HeldBar' = HeldBar /\ OwnedBar' = OwnedBar
    BY <2>1 DEF IInv, TypeOK, CameBar, HeldBar, OwnedBar
  <2>3. QED
    BY <1>1, <2>1, <2>2 DEF Connect, Promise!Come, CameBar, HeldBar, OwnedBar
<1>2. CASE Reset(p)
  <2>1. p \in TakenBar \/ \E i \in DOMAIN backlog : backlog[i] = p
    BY <1>2 DEF Reset, IInv, Queue, TypeOK, TakenBar
  <2>2. UNCHANGED <<lsk, backlog, taken, conn, cfd>> /\ reset' = reset \cup {p}
    BY <1>2 DEF Reset, accepting
  <2>3. QED
    BY <2>1, <2>2, TakenNow DEF Promise!Leave
<1>3. QED
  BY <1>1, <1>2

\* An Accept takes the head of the queue, returns it, or closes it.
LEMMA AcceptRefines ==
  ASSUME IInv, IInv', NEW a \in Acceptors, Accepted(a) \/ InitConnection(a) \/ InitFails(a)
  PROVE  Promise!Take(a) \/ Promise!Give(a) \/ Promise!Refuse(a)
<1> USE ListenerAssumption
<1>0. conn \in [Peers -> Conns] /\ taken \in [Acceptors -> Peers \cup {Nobody}]
      /\ cfd \in [Peers -> Record]
  BY DEF IInv, TypeOK
<1>1. CASE Accepted(a)
  <2> DEFINE q == Head(backlog)
  <2>1. /\ backlog # <<>> /\ lsk = "listening" /\ apc[a] = "accept" /\ backlog' = Tail(backlog)
        /\ taken' = [taken EXCEPT ![a] = q] /\ conn' = [conn EXCEPT ![q] = "accepting"]
        /\ cfd' = [cfd EXCEPT ![q] = AcceptFile] /\ UNCHANGED <<reset, lsk>>
    BY <1>1 DEF Accepted
  <2>2. q \in Peers /\ conn[q] = "queued" /\ taken[a] = Nobody
    BY <2>1, TakeHead DEF IInv, Busy
  <2> HIDE DEF q
  <2>3. CameBar' = CameBar /\ HeldBar' = HeldBar
    BY <1>0, <2>1, <2>2 DEF CameBar, HeldBar
  <2>4. OwnedBar' = OwnedBar \cup {q}
    <3>1. q \in OwnedBar'
      BY <1>0, <2>1, <2>2, OwnedNext
    <3>2. \A p \in Peers : p # q => cfd'[p] = cfd[p]
      BY <1>0, <2>1
    <3>3. QED
      BY <2>2, <3>1, <3>2 DEF OwnedBar
  <2>5. Promise!Take(a)
    BY <2>1, <2>2, <2>3, <2>4 DEF Promise!Take, CameBar, HeldBar, OwnedBar, q
  <2>6. QED
    BY <2>5
<1>2. ASSUME InitConnection(a) \/ InitFails(a)
      PROVE  /\ taken[a] \in Peers /\ conn[taken[a]] = "accepting"
             /\ taken' = [taken EXCEPT ![a] = Nobody]
             /\ UNCHANGED <<lsk, backlog, reset>>
  BY <1>2 DEF InitConnection, InitFails, Return, IInv, TypeOK, Busy, peers
<1>3. CASE InitConnection(a)
  <2> DEFINE t == taken[a]
  <2>1. /\ t \notin reset /\ conn' = [conn EXCEPT ![t] = "held"]
        /\ cfd' = [cfd EXCEPT ![t] = cfd[t]]
    BY <1>3 DEF InitConnection, Return
  <2>2. cfd' = cfd
    BY <1>0, <2>1
  <2>3. /\ CameBar' = CameBar /\ HeldBar' = HeldBar \cup {t} /\ OwnedBar' = OwnedBar
    BY <1>0, <1>2, <1>3, <2>1, <2>2 DEF CameBar, HeldBar, OwnedBar
  <2>4. Promise!Give(a)
    BY <1>2, <1>3, <2>1, <2>3 DEF Promise!Give, CameBar, HeldBar, OwnedBar
  <2>5. QED
    BY <2>4
<1>4. CASE InitFails(a)
  <2> DEFINE t == taken[a]
  <2>1. /\ conn' = [conn EXCEPT ![t] = "refused"] /\ \A p \in Peers : p # t => cfd'[p] = cfd[p]
    BY <1>0, <1>2, <1>4 DEF InitFails, Return
  <2>2. CameBar' = CameBar /\ HeldBar' = HeldBar
    BY <1>0, <1>2, <1>4, <2>1 DEF CameBar, HeldBar
  <2>3. OwnedBar' = OwnedBar \ {t}
    <3>1. t \notin OwnedBar'
      BY <1>0, <1>2, <1>4, <2>1, OwnedNext
    <3>2. QED
      BY <2>1, <3>1 DEF OwnedBar
  <2>4. Promise!Refuse(a)
    BY <1>2, <1>4, <2>2, <2>3 DEF Promise!Refuse, CameBar, HeldBar, OwnedBar
  <2>5. QED
    BY <2>4
<1>5. QED
  BY <1>1, <1>3, <1>4

\* The user closes or forgets a connection; the collector closes what was forgotten.
LEMMA UserRefines ==
  ASSUME IInv, IInv', NEW p \in Peers, CloseConn(p) \/ DropConn(p) \/ FinalizeConn(p)
  PROVE  Promise!LetGo(p) \/ Promise!Collect(p)
<1>0. conn \in [Peers -> Conns] /\ cfd \in [Peers -> Record]
  BY DEF IInv, TypeOK
<1>1. UNCHANGED <<lsk, backlog, taken, reset>>
  BY DEF CloseConn, DropConn, FinalizeConn, peers, accepting
<1>2. ASSUME CloseConn(p) \/ FinalizeConn(p) PROVE OwnedBar' = OwnedBar \ {p}
  <2>1. cfd' = [cfd EXCEPT ![p] = CloseFile(cfd[p], FALSE)]
    BY <1>2 DEF CloseConn, FinalizeConn
  <2>2. cfd[p] \in Record /\ cfd[p].file = "open"
    BY <1>0, <1>2 DEF CloseConn, FinalizeConn, IInv, Connections
  <2>3. cfd'[p].file = "closed"
    BY <1>0, <2>1, <2>2, UnlockedClose
  <2>4. p \notin OwnedBar'
    BY <2>3, OwnedNext
  <2>5. \A x \in Peers : x # p => cfd'[x] = cfd[x]
    BY <1>0, <2>1
  <2>6. QED
    BY <2>4, <2>5 DEF OwnedBar
<1>3. CASE CloseConn(p) \/ DropConn(p)
  <2>1. conn[p] = "held" /\ \E c \in {"closed", "dropped"} : conn' = [conn EXCEPT ![p] = c]
    BY <1>3 DEF CloseConn, DropConn
  <2>2. CameBar' = CameBar /\ HeldBar' = HeldBar \ {p} /\ p \in HeldBar
    BY <1>0, <2>1 DEF CameBar, HeldBar
  <2>3. OwnedBar' \in {OwnedBar, OwnedBar \ {p}}
    <3>1. CASE CloseConn(p)
      BY <1>2, <3>1
    <3>2. CASE DropConn(p)
      BY <3>2 DEF DropConn, OwnedBar
    <3>3. QED
      BY <1>3, <3>1, <3>2
  <2>4. Promise!LetGo(p)
    BY <1>1, <2>2, <2>3 DEF Promise!LetGo, CameBar, HeldBar, OwnedBar
  <2>5. QED
    BY <2>4
<1>4. CASE FinalizeConn(p)
  <2>1. conn' = conn /\ cfd[p].file = "open" /\ conn[p] \notin {"accepting", "held"}
    BY <1>4 DEF FinalizeConn
  <2>2. p \in OwnedBar \ (HeldBar \cup TakenBar)
    BY <2>1, OwnedNow DEF HeldBar, TakenBar
  <2>3. CameBar' = CameBar /\ HeldBar' = HeldBar
    BY <2>1 DEF CameBar, HeldBar
  <2>4. Promise!Collect(p)
    BY <1>1, <1>2, <1>4, <2>2, <2>3, TakenNow DEF Promise!Collect, CameBar, HeldBar, OwnedBar
  <2>5. QED
    BY <2>4
<1>5. QED
  BY <1>3, <1>4

\* Every behaviour of a listener (fd.wasip1.go:128-185) is one of AcceptPromise, for
\* any number of acceptors and peers and any backlog.
THEOREM PromiseKept == Spec => ImplementsAcceptPromise
<1>1. Init => Promise!Init
  <2> SUFFICES ASSUME Init PROVE Promise!Init
    OBVIOUS
  <2>1. CameBar = {} /\ HeldBar = {} /\ OwnedBar = {}
    BY DEF Init, CameBar, HeldBar, OwnedBar, Opened, Unopened
  <2>2. QED
    BY <2>1 DEF Init, Promise!Init, CameBar, HeldBar, OwnedBar
<1>2. IInv /\ IInv' /\ Opens /\ [Moves]_state => [Promise!Next]_(Promise!vars)
  <2> SUFFICES ASSUME IInv, IInv', Opens, [Moves]_state
               PROVE  Promise!Next \/ UNCHANGED Promise!vars
    OBVIOUS
  <2>1. CASE Opening \/ CloseListener \/ DropListener \/ FinalizeNetFD \/ FinalizeFile
    BY <2>1, SocketRefines DEF Promise!Next
  <2>2. ASSUME NEW a \in Acceptors, CallAccept(a) \/ AcceptFails(a)
        PROVE  UNCHANGED Promise!vars
    <3>1. UNCHANGED <<lsk, backlog, taken, conn, cfd, reset>>
      BY <2>2 DEF CallAccept, AcceptFails, peers
    <3>2. QED
      BY <3>1 DEF Promise!vars
  <2>3. ASSUME NEW a \in Acceptors, Accepted(a) \/ InitConnection(a) \/ InitFails(a)
        PROVE  Promise!Next
    BY <2>3, AcceptRefines DEF Promise!Next
  <2>4. ASSUME NEW p \in Peers, Connect(p) \/ Reset(p) PROVE Promise!Next
    BY <2>4, PeerRefines DEF Promise!Next
  <2>5. ASSUME NEW p \in Peers, CloseConn(p) \/ DropConn(p) \/ FinalizeConn(p)
        PROVE  Promise!Next
    BY <2>5, UserRefines DEF Promise!Next
  <2>6. CASE UNCHANGED state
    BY <2>6 DEF state, Promise!vars
  <2>7. QED
    BY <2>1, <2>2, <2>3, <2>4, <2>5, <2>6 DEF Moves, Guest, Peer, Acceptor
<1>3. QED
  BY <1>1, <1>2, OnlyMoves, Invariance, OpensAlways, PTL
     DEF Spec, Promise!Spec, ImplementsAcceptPromise
=============================================================================
