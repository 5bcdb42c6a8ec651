---------------------------- MODULE DialerProofs ----------------------------
(***************************************************************************)
(* Theorems about a dial, for any number of addresses and any arguments.   *)
(***************************************************************************)
EXTENDS Dialer, DescriptorProofs

-----------------------------------------------------------------------------
(* The inductive invariant.                                                *)

\* Where the loop of DialContext is.
Position ==
  /\ pc \in {"entry", "lookup"} => attempt = 0
  /\ pc \notin {"entry", "lookup", "done"} => attempt \in 1..n
  /\ conn # "none" => pc = "done" /\ attempt \in 1..n

\* Each descriptor's close calls are accounted for by its owners; descriptors of
\* addresses not tried yet are not opened.
Owners ==
  \A i \in Addr :
    /\ Accounted(fds[i])
    /\ i > attempt \/ (i = attempt /\ pc = "socket") => fds[i] = Unopened
    /\ fds[i].fin => fds[i].raw = "moved" /\ fds[i].copy = "closed"
    /\ fds[i].file = "closing" => i = attempt /\ pc = "closing" /\ Locked

\* What dialAddr knows of the current descriptor at each of its steps.
Current ==
  LET r == fds[attempt] IN
  /\ pc = "connect" => r.raw = "held" /\ ~r.fin
  /\ pc \in {"select", "closing", "drain", "conn"} =>
       r.raw = "moved" /\ r.copy = "none" /\ ~r.fin
  /\ pc \in {"select", "conn"} => r.file = "open"
  /\ pc = "closing" => r.file \in {"closing", "closed"}
  /\ pc = "drain" => r.file = "closed"
  /\ conn = "held" => r.raw = "moved" /\ r.copy = "open" /\ ~r.fin

\* The connect goroutine runs while dialAddr is there to receive from it; its
\* callback has the file open, and it reports success only of a connection.
Waiter ==
  /\ gr \notin {"none", "exited"} <=> pc \in {"select", "closing", "drain"}
  /\ Locked => fds[attempt].file \in {"open", "closing"}
  /\ gr = "send" /\ gerr = "nil" => sk[attempt] \in {"established", "reset"}
  /\ pc = "conn" => sk[attempt] \in {"established", "reset"}
  /\ pc \in {"select", "closing", "drain"} => dial.sotype = "stream"

\* What a failed attempt leaves to the collector: of a stream's file nothing, and
\* no copy but the one of a unixgram netFD.
Leftovers ==
  \A i \in 1..attempt :
    ~Running(i) /\ (i = attempt => conn = "none") =>
      /\ fds[i].raw \in {"none", "moved", "closed"}
      /\ fds[i].raw = "moved" /\ dial.sotype = "stream" => fds[i].file = "closed"
      /\ fds[i].raw = "moved" => fds[i].file # "none"
      /\ dial.sotype # "unixgram" => fds[i].copy # "open"

IInv == TypeOK /\ Position /\ Owners /\ Current /\ Waiter /\ Leftovers

-----------------------------------------------------------------------------
(* Type correctness.                                                       *)

LEMMA UpdateType ==
  ASSUME NEW f \in [Addr -> Record], NEW i, NEW r,
         i \in Addr => r \in Record
  PROVE  [f EXCEPT ![i] = r] \in [Addr -> Record]
OBVIOUS

\* The timer of dialer.go:47-54 is set to a number of time units.
LEMMA TimerType ==
  ASSUME NEW t \in Timeouts, NEW d \in Deadlines
  PROVE  Larger(0, EffectiveTimeout(t, d)) \in Nat
<1>1. t \in Int /\ (d \in Int \/ d = NoDeadline)
  BY DialerAssumption
<1>2. EffectiveTimeout(t, d) \in Int
  <2>1. CASE d = NoDeadline
    BY <1>1, <2>1 DEF EffectiveTimeout
  <2>2. CASE d \in Int
    <3>1. d # NoDeadline
      BY <2>2, DialerAssumption
    <3>2. QED
      BY <1>1, <2>2, <3>1 DEF EffectiveTimeout, Larger, Smaller
  <2>3. QED
    BY <1>1, <2>1, <2>2
<1>3. QED
  BY <1>2 DEF Larger

LEMMA TypeStep == TypeOK /\ [Next]_vars => TypeOK'
<1> SUFFICES ASSUME TypeOK, [Next]_vars PROVE TypeOK'
  OBVIOUS
<1> USE DialerAssumption DEF TypeOK
<1>1. \A i \in Addr : fds[i] \in Record
  OBVIOUS
<1>2. attempt \in Addr => fds[attempt] \in Record
  BY <1>1
<1>3. Locked \in BOOLEAN
  BY DEF Locked
<1>4. \A r \in Record : CloseSconn(r) \in Record
  BY <1>3, DescriptorTypes DEF CloseSconn
<1>5. ASSUME NEW i \in Addr, NEW r \in Record
      PROVE  [fds EXCEPT ![i] = r] \in [Addr -> Record]
  OBVIOUS
<1>6. CASE SetTimeout
  <2>1. dial.timeout \in Timeouts /\ dial.deadline \in Deadlines
    BY DEF Fields
  <2>2. left' \in Nat
    BY <1>6, <2>1, TimerType DEF SetTimeout
  <2>3. QED
    BY <1>6, <2>2 DEF SetTimeout, goroutine, Pcs
<1>7. CASE Lookup
  BY <1>7 DEF Lookup, goroutine, context, Pcs, Errors, Addr
<1>8. CASE Socket
  <2>1. attempt \in Addr => OpenRaw(fds[attempt]) \in Record
    BY <1>2, DescriptorTypes
  <2>2. [fds EXCEPT ![attempt] = OpenRaw(fds[attempt])] \in [Addr -> Record]
    BY <2>1, UpdateType
  <2>3. QED
    BY <1>8, <2>2 DEF Socket, goroutine, context, Pcs, Errors, Sockets
<1>9. CASE ConnectNow \/ ConnectPending \/ ConnectFails
  <2>1. attempt \in Addr => /\ WrapFile(fds[attempt]) \in Record
                            /\ CloseRaw(fds[attempt]) \in Record
    BY <1>2, DescriptorTypes
  <2>2. /\ [fds EXCEPT ![attempt] = WrapFile(fds[attempt])] \in [Addr -> Record]
        /\ [fds EXCEPT ![attempt] = CloseRaw(fds[attempt])] \in [Addr -> Record]
    BY <2>1, UpdateType
  <2>3. CASE ConnectNow
    BY <2>2, <2>3 DEF ConnectNow, goroutine, context, Pcs, Sockets
  <2>4. CASE ConnectPending
    BY <2>2, <2>4 DEF ConnectPending, context, Pcs, Grs, Sockets
  <2>5. CASE ConnectFails
    BY <2>2, <2>5 DEF ConnectFails, goroutine, context, Pcs, Errors
  <2>6. QED
    BY <1>9, <2>3, <2>4, <2>5
<1>10. CASE ReceiveErr \/ ContextDone \/ CloseReturns \/ Drain
  <2>1. attempt \in Addr => /\ CloseRaw(CloseSconn(fds[attempt])) \in Record
                            /\ CloseSconn(fds[attempt]) \in Record
                            /\ CloseRaw(fds[attempt]) \in Record
    BY <1>2, <1>4, DescriptorTypes
  <2>2. /\ [fds EXCEPT ![attempt] = CloseRaw(CloseSconn(fds[attempt]))]
             \in [Addr -> Record]
        /\ [fds EXCEPT ![attempt] = CloseSconn(fds[attempt])] \in [Addr -> Record]
        /\ [fds EXCEPT ![attempt] = CloseRaw(fds[attempt])] \in [Addr -> Record]
    BY <2>1, UpdateType
  <2>3. CASE ReceiveErr
    BY <2>2, <2>3 DEF ReceiveErr, context, Pcs, Grs
  <2>4. CASE ContextDone
    BY <2>2, <2>4 DEF ContextDone, goroutine, context, Pcs
  <2>5. CASE CloseReturns
    BY <2>5 DEF CloseReturns, goroutine, context, Pcs
  <2>6. CASE Drain
    BY <2>2, <2>6 DEF Drain, context, Pcs, Grs, Errors
  <2>7. QED
    BY <1>10, <2>3, <2>4, <2>5, <2>6
<1>11. CASE NewConn \/ NewConnFails
  <2>1. attempt \in Addr => /\ CloseRaw(CopyFile(fds[attempt])) \in Record
                            /\ CloseRaw(FailedConn(fds[attempt])) \in Record
    <3> SUFFICES ASSUME attempt \in Addr
                 PROVE  /\ CloseRaw(CopyFile(fds[attempt])) \in Record
                        /\ CloseRaw(FailedConn(fds[attempt])) \in Record
      OBVIOUS
    <3>1. CopyFile(fds[attempt]) \in Record /\ FailedConn(fds[attempt]) \in Record
      BY <1>2, <1>4, DescriptorTypes DEF FailedConn
    <3>2. QED
      BY <3>1, DescriptorTypes
  <2>2. /\ [fds EXCEPT ![attempt] = CloseRaw(CopyFile(fds[attempt]))]
             \in [Addr -> Record]
        /\ [fds EXCEPT ![attempt] = CloseRaw(FailedConn(fds[attempt]))]
             \in [Addr -> Record]
    BY <2>1, UpdateType
  <2>3. CASE NewConn
    BY <2>2, <2>3 DEF NewConn, goroutine, context, Pcs, Errors
  <2>4. CASE NewConnFails
    BY <2>2, <2>4 DEF NewConnFails, goroutine, context, Pcs, Errors
  <2>5. QED
    BY <1>11, <2>3, <2>4
<1>12. CASE NextAddress \/ GiveUp
  <2>1. n \in Int /\ attempt \in Int /\ n <= N /\ 0 <= attempt
    OBVIOUS
  <2>2. CASE NextAddress
    <3>1. attempt' \in 0..n
      BY <2>1, <2>2 DEF NextAddress, MoreAddresses
    <3>2. QED
      BY <2>2, <3>1 DEF NextAddress, context, Pcs, Grs, Errors, SoErrors
  <2>3. CASE GiveUp
    BY <2>3 DEF GiveUp, goroutine, context, Pcs
  <2>4. QED
    BY <1>12, <2>2, <2>3
<1>13. CASE Goroutine \/ GrSpurious
  <2>1. attempt \in Addr => Unlock(fds[attempt]) \in Record
    BY <1>2, DescriptorTypes
  <2>2. [fds EXCEPT ![attempt] = Unlock(fds[attempt])] \in [Addr -> Record]
    BY <2>1, UpdateType
  <2> USE DEF RawWriteReturns, caller, context, Grs, Errors, SoErrors
  <2>3. CASE GrStart
    BY <2>2, <2>3 DEF GrStart
  <2>4. CASE GrGetsockopt
    BY <2>2, <2>4 DEF GrGetsockopt
  <2>5. CASE GrGetpeername
    BY <2>2, <2>5 DEF GrGetpeername
  <2>6. CASE GrEvicted
    BY <2>2, <2>6 DEF GrEvicted
  <2>7. CASE GrReady \/ GrSpurious
    BY <2>7 DEF GrReady, GrSpurious
  <2>8. QED
    BY <1>13, <2>3, <2>4, <2>5, <2>6, <2>7 DEF Goroutine
<1>14. CASE Host
  BY <1>14 DEF Host, Established, Refused, Reset, caller, goroutine, context,
               Sockets, SoErrors
<1>15. CASE Tick \/ Cancel
  BY <1>15 DEF Tick, Cancel, caller, goroutine
<1>16. CASE CloseConn \/ DropConn
  <2>1. attempt \in Addr => CloseCopy(fds[attempt]) \in Record
    BY <1>2, DescriptorTypes
  <2>2. [fds EXCEPT ![attempt] = CloseCopy(fds[attempt])] \in [Addr -> Record]
    BY <2>1, UpdateType
  <2>3. CASE CloseConn
    BY <2>2, <2>3 DEF CloseConn, goroutine, context, HostShutdown, Sockets
  <2>4. CASE DropConn
    BY <2>4 DEF DropConn, goroutine, context
  <2>5. QED
    BY <1>16, <2>3, <2>4
<1>17. ASSUME NEW i \in Addr, FinalizeNetFD(i) \/ FinalizeFile(i) PROVE TypeOK'
  <2>1. /\ [CloseCopy(fds[i]) EXCEPT !.fin = FALSE] \in Record
        /\ CloseFile(fds[i], FALSE) \in Record
    <3>1. CloseCopy(fds[i]) \in Record /\ CloseFile(fds[i], FALSE) \in Record
      BY <1>1, DescriptorTypes
    <3>2. QED
      BY <3>1 DEF Record
  <2>2. CASE FinalizeNetFD(i)
    BY <2>1, <2>2, <1>5 DEF FinalizeNetFD, caller, goroutine, context,
                            HostShutdown, Sockets
  <2>3. CASE FinalizeFile(i)
    BY <2>1, <2>3, <1>5 DEF FinalizeFile, caller, goroutine, context
  <2>4. QED
    BY <1>17, <2>2, <2>3
<1>18. CASE UNCHANGED vars
  BY <1>18 DEF vars
<1>19. QED
  BY <1>6, <1>7, <1>8, <1>9, <1>10, <1>11, <1>12, <1>13, <1>14, <1>15, <1>16,
     <1>17, <1>18 DEF Next, Caller, Environment

LEMMA InitTypes == Init => TypeOK
<1> SUFFICES ASSUME Init PROVE TypeOK
  OBVIOUS
<1>1. Unopened \in Record
  BY DEF Unopened, Record, Raws, Files, Copies
<1>2. fds \in [Addr -> Record] /\ sk \in [Addr -> Sockets]
  BY <1>1 DEF Init, Sockets
<1>3. n \in 0..N /\ attempt \in 0..n /\ left \in Nat
  BY DialerAssumption DEF Init
<1>4. pc \in Pcs /\ gr \in Grs /\ err \in Errors /\ gerr \in Errors
  BY DEF Init, Pcs, Grs, Errors
<1>5. QED
  BY <1>2, <1>3, <1>4 DEF Init, TypeOK, SoErrors

\* Every variable of the dial keeps its type, in particular the index of the loop
\* over the addresses (dialer.go:87-97).
THEOREM TypeCorrect == Spec => []TypeOK
BY InitTypes, TypeStep, PTL DEF Spec

-----------------------------------------------------------------------------
(* The invariant is inductive: one lemma per party.                        *)

\* What every step starts from.
LEMMA Start ==
  ASSUME IInv
  PROVE  /\ \A i \in Addr : fds[i] \in Record /\ Accounted(fds[i])
         /\ attempt \in Nat /\ n \in Nat /\ n <= N /\ N \in Nat
         /\ 1..attempt \subseteq Addr
         /\ pc \notin {"entry", "lookup", "done"} => attempt \in Addr
         /\ conn # "none" => attempt \in Addr
         /\ Locked \in BOOLEAN
BY DialerAssumption DEF IInv, TypeOK, Owners, Position, Addr, Locked

\* A step that changes one descriptor changes no other.
LEMMA Updated ==
  ASSUME TypeOK, NEW i \in Addr, NEW r, fds' = [fds EXCEPT ![i] = r]
  PROVE  fds'[i] = r /\ \A j \in Addr : j # i => fds'[j] = fds[j]
BY DEF TypeOK

\* What a step of dialAddr on the current descriptor has to leave in it.
LEMMA OwnersUpdate ==
  ASSUME IInv, attempt \in Addr, attempt' = attempt, pc' # "socket",
         \A j \in Addr : j # attempt => fds'[j] = fds[j],
         Accounted(fds'[attempt]),
         fds'[attempt].fin => fds'[attempt].raw = "moved" /\ fds'[attempt].copy = "closed",
         fds'[attempt].file = "closing" => pc' = "closing" /\ Locked'
  PROVE  Owners'
<1> SUFFICES ASSUME NEW i \in Addr
             PROVE  /\ Accounted(fds'[i])
                    /\ i > attempt => fds'[i] = Unopened
                    /\ fds'[i].fin => fds'[i].raw = "moved" /\ fds'[i].copy = "closed"
                    /\ fds'[i].file = "closing" =>
                         i = attempt /\ pc' = "closing" /\ Locked'
  BY DEF Owners
<1>1. CASE i = attempt
  BY <1>1, Start
<1>2. CASE i # attempt
  <2>1. fds[i].file # "closing"
    BY <1>2 DEF IInv, Owners
  <2>2. QED
    BY <1>2, <2>1 DEF IInv, Owners
<1>3. QED
  BY <1>1, <1>2

LEMMA ResolveStep ==
  ASSUME IInv, SetTimeout \/ Lookup PROVE IInv'
<1>1. TypeOK'
  BY TypeStep DEF IInv, Next, Caller
<1>2. fds' = fds /\ sk' = sk /\ conn' = conn /\ gr' = gr /\ gerr' = gerr
      /\ dial' = dial
  BY DEF SetTimeout, Lookup, goroutine, context
<1>3. attempt = 0 /\ conn = "none" /\ gr \in {"none", "exited"}
      /\ \A i \in Addr : fds[i] = Unopened
  BY Start DEF IInv, Position, Waiter, Owners, TypeOK, Grs, SetTimeout, Lookup, Addr
<1>4. \/ pc' \in {"lookup", "done"} /\ attempt' = 0
      \/ pc' = "socket" /\ attempt' = 1 /\ n' \in Addr
  <2>1. {1} \subseteq Addr
    BY DialerAssumption DEF Addr
  <2>2. CASE SetTimeout
    BY <1>3, <2>2 DEF SetTimeout
  <2>3. CASE Lookup
    BY <1>3, <2>1, <2>3 DEF Lookup
  <2>4. QED
    BY <2>2, <2>3
<1>5. Position'
  BY <1>2, <1>3, <1>4 DEF Position, Addr
<1>6. Owners'
  BY <1>2, <1>3, <1>4 DEF Owners, Accounted, Referenced, Unopened, Addr
<1>7. Current' /\ Waiter' /\ Leftovers'
  BY <1>2, <1>3, <1>4 DEF Current, Waiter, Leftovers, Locked, Running
<1>8. QED
  BY <1>1, <1>5, <1>6, <1>7 DEF IInv

LEMMA SocketStep ==
  ASSUME IInv, Socket PROVE IInv'
<1>1. TypeOK'
  BY TypeStep DEF IInv, Next, Caller
<1>2. attempt \in Addr /\ attempt \in 1..n /\ fds[attempt] = Unopened
      /\ Unopened \in Record /\ conn = "none" /\ gr \in {"none", "exited"}
  BY Start DEF IInv, Position, Owners, Waiter, TypeOK, Grs, Socket
<1>3. attempt' = attempt /\ n' = n /\ conn' = conn /\ gr' = gr /\ gerr' = gerr
      /\ dial' = dial
  BY DEF Socket, goroutine, context
<1>4. CASE fds' = [fds EXCEPT ![attempt] = OpenRaw(@)] /\ pc' = "connect"
  <2> DEFINE r == OpenRaw(fds[attempt])
  <2>1. fds'[attempt] = r /\ \A j \in Addr : j # attempt => fds'[j] = fds[j]
    BY <1>2, <1>4, Updated DEF IInv
  <2>2. /\ r.raw = "held" /\ ~r.fin /\ r.file = "none" /\ r.copy = "none"
        /\ Accounted(r)
    BY <1>2, MovesAccounted, Start DEF OpenRaw, Unopened
  <2> HIDE DEF r
  <2>3. Position' /\ Waiter'
    BY <1>2, <1>3, <1>4 DEF IInv, Position, Waiter, Locked, Socket
  <2>4. Owners'
    BY <1>2, <1>3, <1>4, <2>1, <2>2 DEF IInv, Owners, Addr, Socket
  <2>5. Current'
    BY <1>2, <1>3, <1>4, <2>1, <2>2 DEF Current
  <2>6. Leftovers'
    BY <1>2, <1>3, <1>4, <2>1, <2>2, Start DEF IInv, Leftovers, Running, Socket
  <2>7. QED
    BY <1>1, <2>3, <2>4, <2>5, <2>6 DEF IInv
<1>5. CASE fds' = fds /\ pc' = "check"
  <2>1. Position' /\ Waiter' /\ Current'
    BY <1>2, <1>3, <1>5 DEF IInv, Position, Waiter, Current, Locked, Socket
  <2>2. Owners'
    BY <1>2, <1>3, <1>5 DEF IInv, Owners, Addr, Socket
  <2>3. Leftovers'
    BY <1>2, <1>3, <1>5, Start DEF IInv, Leftovers, Running, Socket, Unopened
  <2>4. QED
    BY <1>1, <2>1, <2>2, <2>3 DEF IInv
<1>6. QED
  BY <1>4, <1>5 DEF Socket

\* connect returned.
LEMMA ConnectStep ==
  ASSUME IInv, ConnectNow \/ ConnectPending \/ ConnectFails PROVE IInv'
<1>1. TypeOK'
  BY TypeStep DEF IInv, Next, Caller
<1> DEFINE r == fds[attempt]
<1>2. /\ attempt \in Addr /\ attempt \in 1..n /\ pc = "connect" /\ conn = "none"
      /\ gr \in {"none", "exited"} /\ ~Locked
  BY Start DEF IInv, Position, Waiter, TypeOK, Grs, Locked,
               ConnectNow, ConnectPending, ConnectFails
<1>3. /\ r \in Record /\ Accounted(r) /\ r.raw = "held" /\ ~r.fin
      /\ r.file = "none" /\ r.copy = "none"
  BY <1>2, Start DEF IInv, Current, Accounted
<1>4. attempt' = attempt /\ n' = n /\ conn' = conn /\ dial' = dial /\ gerr' = gerr
  BY DEF ConnectNow, ConnectPending, ConnectFails, goroutine, context
<1>5. CASE ConnectNow \/ ConnectPending
  <2> DEFINE q == WrapFile(r)
  <2>1. fds'[attempt] = q /\ \A j \in Addr : j # attempt => fds'[j] = fds[j]
    BY <1>2, <1>5, Updated DEF IInv, ConnectNow, ConnectPending
  <2>2. /\ q.raw = "moved" /\ q.file = "open" /\ q.copy = "none" /\ ~q.fin
        /\ Accounted(q)
    BY <1>3, MovesAccounted, DescriptorFields
  <2> HIDE DEF q, r
  <2>3. \/ pc' = "conn" /\ gr' = gr /\ sk'[attempt] = "established"
        \/ pc' = "select" /\ gr' = "start" /\ dial.sotype = "stream"
    BY <1>2, <1>5 DEF ConnectNow, ConnectPending, goroutine, IInv, TypeOK
  <2>4. Position' /\ Waiter'
    BY <1>2, <1>4, <2>1, <2>2, <2>3 DEF Position, Waiter, Locked
  <2>5. Owners'
    BY <1>2, <1>4, <2>1, <2>2, <2>3, OwnersUpdate
  <2>6. Current'
    BY <1>2, <1>4, <2>1, <2>2, <2>3 DEF Current
  <2>7. Leftovers'
    BY <1>2, <1>4, <2>1, <2>2, <2>3, Start DEF IInv, Leftovers, Running
  <2>8. QED
    BY <1>1, <2>4, <2>5, <2>6, <2>7 DEF IInv
<1>6. CASE ConnectFails
  <2> DEFINE q == CloseRaw(r)
  <2>1. fds'[attempt] = q /\ \A j \in Addr : j # attempt => fds'[j] = fds[j]
    BY <1>2, <1>6, Updated DEF IInv, ConnectFails
  <2>2. /\ q.raw = "closed" /\ q.file = "none" /\ q.copy = "none" /\ ~q.fin
        /\ Accounted(q)
    BY <1>3, ClosesAccounted, DescriptorFields
  <2> HIDE DEF q, r
  <2>3. pc' = "check" /\ gr' = gr
    BY <1>6 DEF ConnectFails, goroutine
  <2>4. Position' /\ Waiter' /\ Current'
    BY <1>2, <1>4, <2>3 DEF Position, Waiter, Current, Locked
  <2>5. Owners'
    BY <1>2, <1>4, <2>1, <2>2, <2>3, OwnersUpdate
  <2>6. Leftovers'
    BY <1>2, <1>4, <2>1, <2>2, <2>3, Start DEF IInv, Leftovers, Running
  <2>7. QED
    BY <1>1, <2>4, <2>5, <2>6 DEF IInv
<1>7. QED
  BY <1>5, <1>6

\* dialAddr while the connect goroutine exists.
LEMMA SelectStep ==
  ASSUME IInv, ReceiveErr \/ ContextDone \/ CloseReturns \/ Drain PROVE IInv'
<1>1. TypeOK'
  BY TypeStep DEF IInv, Next, Caller
<1> DEFINE r == fds[attempt]
<1>2. /\ attempt \in Addr /\ attempt \in 1..n /\ conn = "none"
      /\ pc \in {"select", "closing", "drain"} /\ dial.sotype = "stream"
  BY Start DEF IInv, Position, Waiter, ReceiveErr, ContextDone, CloseReturns, Drain
<1>3. /\ r \in Record /\ Accounted(r) /\ r.raw = "moved" /\ ~r.fin /\ r.copy = "none"
      /\ pc = "select" => r.file = "open"
      /\ pc = "drain" => r.file = "closed"
      /\ Locked \in BOOLEAN
  BY <1>2, Start DEF IInv, Current
<1>4. attempt' = attempt /\ n' = n /\ conn' = conn /\ dial' = dial /\ gerr' = gerr
      /\ sk' = sk
  BY DEF ReceiveErr, ContextDone, CloseReturns, Drain, goroutine, context
<1>5. CASE ReceiveErr /\ pc' = "conn"
  <2>1. /\ gr' = "exited" /\ fds' = fds /\ pc = "select"
        /\ sk[attempt] \in {"established", "reset"}
    BY <1>5 DEF ReceiveErr, IInv, Waiter
  <2>2. Position' /\ Waiter' /\ Current'
    BY <1>2, <1>3, <1>4, <1>5, <2>1 DEF Position, Waiter, Current, Locked
  <2>3. Owners' /\ Leftovers'
    BY <1>2, <1>3, <1>4, <1>5, <2>1, Start DEF IInv, Owners, Leftovers, Running
  <2>4. QED
    BY <1>1, <2>2, <2>3 DEF IInv
<1>6. CASE (ReceiveErr /\ pc' = "check") \/ Drain
  <2> DEFINE q == fds'[attempt]
  <2>1. \A j \in Addr : j # attempt => fds'[j] = fds[j]
    BY <1>2, <1>6, Updated DEF IInv, ReceiveErr, Drain
  <2>2. /\ q.raw = "moved" /\ q.file = "closed" /\ q.copy = "none" /\ ~q.fin
        /\ Accounted(q)
    <3>1. CASE Drain
      <4>1. q = CloseRaw(r) /\ r.file = "closed"
        BY <1>2, <1>3, <3>1, Updated DEF IInv, Drain
      <4>2. CloseRaw(r) = r
        BY <1>3, DescriptorFields
      <4>3. QED
        BY <1>3, <4>1, <4>2
    <3>2. CASE ReceiveErr /\ pc' = "check"
      <4>1. ~Locked /\ r.file = "open" /\ q = CloseRaw(CloseFile(r, FALSE))
        <5>1. Locked = FALSE /\ r.file = "open"
          BY <1>3, <3>2 DEF ReceiveErr, Locked
        <5>2. fds' = [fds EXCEPT ![attempt] = CloseRaw(CloseFile(r, Locked))]
          BY <3>2 DEF ReceiveErr, CloseSconn
        <5>3. q = CloseRaw(CloseFile(r, Locked))
          BY <1>2, <5>2, Updated DEF IInv
        <5>4. QED
          BY <5>1, <5>3
      <4>2. CloseFile(r, FALSE) \in Record
        BY <1>3, DescriptorTypes
      <4>3. /\ Accounted(CloseFile(r, FALSE)) /\ CloseFile(r, FALSE).raw = "moved"
            /\ CloseFile(r, FALSE).file = "closed" /\ CloseFile(r, FALSE).copy = "none"
            /\ ~CloseFile(r, FALSE).fin
        BY <1>3, <4>1, ClosesAccounted, DescriptorFields
      <4>4. q = CloseFile(r, FALSE)
        BY <4>1, <4>2, <4>3, DescriptorFields
      <4>5. QED
        BY <4>3, <4>4
    <3>3. QED
      BY <1>6, <3>1, <3>2
  <2> HIDE DEF q, r
  <2>3. pc' = "check" /\ gr' = "exited"
    BY <1>6 DEF ReceiveErr, Drain
  <2>4. Position' /\ Waiter' /\ Current'
    BY <1>2, <1>4, <2>3 DEF Position, Waiter, Current, Locked
  <2>5. Owners'
    BY <1>2, <1>4, <2>1, <2>2, <2>3, OwnersUpdate DEF q
  <2>6. Leftovers'
    BY <1>2, <1>4, <2>1, <2>2, <2>3, Start DEF IInv, Leftovers, Running, q
  <2>7. QED
    BY <1>1, <2>4, <2>5, <2>6 DEF IInv
<1>7. CASE ContextDone
  <2> DEFINE q == CloseFile(r, Locked)
  <2>1. fds'[attempt] = q /\ \A j \in Addr : j # attempt => fds'[j] = fds[j]
    BY <1>2, <1>7, Updated DEF IInv, ContextDone, CloseSconn
  <2>2. /\ q.raw = "moved" /\ q.copy = "none" /\ ~q.fin /\ Accounted(q)
        /\ q.file = IF Locked THEN "closing" ELSE "closed"
    <3>1. r.file = "open"
      BY <1>3, <1>7 DEF ContextDone
    <3>2. Accounted(q)
      BY <1>3, ClosesAccounted
    <3>3. q.raw = r.raw /\ q.copy = r.copy /\ q.fin = r.fin
          /\ q.file = IF r.file # "open" THEN r.file
                      ELSE IF Locked THEN "closing" ELSE "closed"
      <4>1. CASE Locked = TRUE
        <5>1. q = CloseFile(r, TRUE)
          BY <4>1
        <5>2. QED
          BY <1>3, <4>1, <5>1, DescriptorFields
      <4>2. CASE Locked = FALSE
        <5>1. q = CloseFile(r, FALSE)
          BY <4>2
        <5>2. QED
          BY <1>3, <4>2, <5>1, DescriptorFields
      <4>3. QED
        BY <1>3, <4>1, <4>2
    <3>4. QED
      BY <1>3, <3>1, <3>2, <3>3
  <2> HIDE DEF q, r
  <2>3. pc = "select" /\ pc' = "closing" /\ gr' = gr
    BY <1>7 DEF ContextDone, goroutine
  <2>4. Position' /\ Waiter' /\ Current'
    BY <1>2, <1>4, <2>1, <2>2, <2>3 DEF IInv, Position, Waiter, Current, Locked
  <2>5. Owners'
    <3>1. Locked' = Locked
      BY <2>3 DEF Locked
    <3>2. QED
      BY <1>2, <1>4, <2>1, <2>2, <2>3, <3>1, OwnersUpdate
  <2>6. Leftovers'
    BY <1>2, <1>4, <2>1, <2>3, Start DEF IInv, Leftovers, Running
  <2>7. QED
    BY <1>1, <2>4, <2>5, <2>6 DEF IInv
<1>8. CASE CloseReturns
  <2>1. pc' = "drain" /\ pc = "closing" /\ gr' = gr /\ fds' = fds
        /\ r.file = "closed"
    BY <1>8 DEF CloseReturns, goroutine
  <2>2. Position' /\ Waiter' /\ Current'
    BY <1>2, <1>3, <1>4, <2>1 DEF IInv, Position, Waiter, Current, Locked
  <2>3. Owners' /\ Leftovers'
    BY <1>2, <1>3, <1>4, <2>1, Start DEF IInv, Owners, Leftovers, Running
  <2>4. QED
    BY <1>1, <2>2, <2>3 DEF IInv
<1>9. QED
  BY <1>5, <1>6, <1>7, <1>8 DEF ReceiveErr

\* wasip1net.Conn makes a connection of the file, or fails.
LEMMA ConnStep ==
  ASSUME IInv, NewConn \/ NewConnFails PROVE IInv'
<1>1. TypeOK'
  BY TypeStep DEF IInv, Next, Caller
<1> DEFINE r == fds[attempt]
           q == fds'[attempt]
<1>2. /\ attempt \in Addr /\ attempt \in 1..n /\ pc = "conn" /\ conn = "none"
      /\ gr \in {"none", "exited"} /\ Locked = FALSE
  BY Start DEF IInv, Position, Waiter, TypeOK, Grs, Locked, NewConn, NewConnFails
<1>3. /\ r \in Record /\ Accounted(r) /\ r.raw = "moved" /\ ~r.fin /\ r.copy = "none"
      /\ r.file = "open"
  BY <1>2, Start DEF IInv, Current
<1>4. attempt' = attempt /\ n' = n /\ dial' = dial /\ gerr' = gerr /\ sk' = sk
      /\ gr' = gr
  BY DEF NewConn, NewConnFails, goroutine, context
<1>5. \A j \in Addr : j # attempt => fds'[j] = fds[j]
  BY <1>2, Updated DEF IInv, NewConn, NewConnFails
<1>6. CASE NewConn
  <2>1. q = CloseRaw(CopyFile(r))
    BY <1>2, <1>6, Updated DEF IInv, NewConn
  <2>2. CopyFile(r) \in Record /\ Accounted(CopyFile(r))
    BY <1>3, DescriptorTypes, MovesAccounted
  <2> HIDE DEF q, r
  <2>3. CopyFile(r).raw = "moved" /\ CopyFile(r).copy = "open"
        /\ ~CopyFile(r).fin /\ CopyFile(r).file = "open"
    BY <1>3, DescriptorFields
  <2>4. /\ q.raw = "moved" /\ q.copy = "open" /\ ~q.fin /\ q.file = "open"
        /\ Accounted(q)
    <3>1. q = CopyFile(r)
      BY <2>1, <2>2, <2>3, DescriptorFields
    <3>2. QED
      BY <2>2, <2>3, <3>1
  <2>5. \/ pc' = "done" /\ conn' = "held"
        \/ pc' = "check" /\ conn' = "none" /\ dial.sotype = "unixgram"
    BY <1>2, <1>6 DEF NewConn
  <2>6. Position' /\ Waiter' /\ Current'
    BY <1>2, <1>4, <2>4, <2>5 DEF Position, Waiter, Current, Locked, q
  <2>7. Owners'
    BY <1>2, <1>4, <1>5, <2>4, <2>5, OwnersUpdate DEF q
  <2>8. Leftovers'
    BY <1>2, <1>4, <1>5, <2>4, <2>5, Start DEF IInv, Leftovers, Running, q
  <2>9. QED
    BY <1>1, <2>6, <2>7, <2>8 DEF IInv
<1>7. CASE NewConnFails
  <2> DEFINE s == FailedNetFD(r)
  <2>1. q = CloseRaw(FailedConn(r))
    BY <1>2, <1>7, Updated DEF IInv, NewConnFails
  <2>2. /\ s \in Record /\ Accounted(s) /\ s.raw = "moved" /\ s.copy = "closed"
        /\ s.fin /\ s.file = "open"
    BY <1>3, DescriptorTypes, MovesAccounted, DescriptorFields
  <2> HIDE DEF s
  <2>3. /\ q.raw = "moved" /\ q.copy = "closed" /\ q.fin /\ Accounted(q)
        /\ q.file = IF dial.sotype = "stream" THEN "closed" ELSE "open"
    <3>1. CASE dial.sotype = "stream"
      <4>1. q = CloseRaw(CloseFile(s, FALSE))
        BY <1>2, <2>1, <3>1 DEF FailedConn, CloseSconn, s
      <4>2. CloseFile(s, FALSE) \in Record /\ Accounted(CloseFile(s, FALSE))
        BY <2>2, DescriptorTypes, ClosesAccounted
      <4>3. /\ CloseFile(s, FALSE).raw = "moved" /\ CloseFile(s, FALSE).file = "closed"
            /\ CloseFile(s, FALSE).copy = "closed" /\ CloseFile(s, FALSE).fin
        BY <2>2, DescriptorFields
      <4>4. q = CloseFile(s, FALSE)
        BY <4>1, <4>2, <4>3, DescriptorFields
      <4>5. QED
        BY <3>1, <4>2, <4>3, <4>4
    <3>2. CASE dial.sotype # "stream"
      <4>1. q = CloseRaw(s)
        BY <2>1, <3>2 DEF FailedConn, s
      <4>2. q = s
        BY <2>2, <4>1, DescriptorFields
      <4>3. QED
        BY <2>2, <3>2, <4>2
    <3>3. QED
      BY <3>1, <3>2
  <2> HIDE DEF q, r
  <2>4. pc' = "check" /\ conn' = "none"
    BY <1>2, <1>7 DEF NewConnFails
  <2>5. Position' /\ Waiter' /\ Current'
    BY <1>2, <1>4, <2>4 DEF Position, Waiter, Current, Locked
  <2>6. Owners'
    BY <1>2, <1>4, <1>5, <2>3, <2>4, OwnersUpdate DEF q
  <2>7. Leftovers'
    BY <1>2, <1>4, <1>5, <2>3, <2>4, Start DEF IInv, Leftovers, Running, q
  <2>8. QED
    BY <1>1, <2>5, <2>6, <2>7 DEF IInv
<1>8. QED
  BY <1>6, <1>7

\* The loop of DialContext goes on to the next address, or gives up.
LEMMA LoopStep ==
  ASSUME IInv, NextAddress \/ GiveUp PROVE IInv'
<1>1. TypeOK'
  BY TypeStep DEF IInv, Next, Caller
<1>2. /\ attempt \in 1..n /\ attempt \in Nat /\ n \in Nat /\ pc = "check"
      /\ conn = "none" /\ gr \in {"none", "exited"}
      /\ fds' = fds /\ sk' = sk /\ n' = n /\ conn' = conn /\ dial' = dial
  BY Start DEF IInv, Position, Waiter, TypeOK, Grs, NextAddress, GiveUp, context
<1>3. CASE NextAddress
  <2>1. /\ attempt' = attempt + 1 /\ attempt < n /\ pc' = "socket" /\ gr' = "none"
    BY <1>3 DEF NextAddress, MoreAddresses
  <2>2. Position' /\ Waiter' /\ Current'
    BY <1>2, <2>1 DEF Position, Waiter, Current, Locked
  <2>3. Owners'
    BY <1>2, <2>1 DEF IInv, Owners, Addr
  <2>4. Leftovers'
    BY <1>2, <2>1 DEF IInv, Leftovers, Running
  <2>5. QED
    BY <1>1, <2>2, <2>3, <2>4 DEF IInv
<1>4. CASE GiveUp
  <2>1. attempt' = attempt /\ pc' = "done" /\ gr' = gr
    BY <1>4 DEF GiveUp, goroutine
  <2>2. Position' /\ Waiter' /\ Current'
    BY <1>2, <2>1 DEF Position, Waiter, Current, Locked
  <2>3. Owners'
    BY <1>2, <2>1 DEF IInv, Owners
  <2>4. Leftovers'
    BY <1>2, <2>1 DEF IInv, Leftovers, Running
  <2>5. QED
    BY <1>1, <2>2, <2>3, <2>4 DEF IInv
<1>5. QED
  BY <1>3, <1>4

\* The connect goroutine: it lets go of the descriptor, or goes on holding it.
LEMMA GoroutineStep ==
  ASSUME IInv, Goroutine \/ GrSpurious PROVE IInv'
<1>1. TypeOK'
  BY TypeStep DEF IInv, Next
<1> DEFINE r == fds[attempt]
           q == fds'[attempt]
<1>2. /\ pc \in {"select", "closing", "drain"} /\ gr \notin {"none", "exited"}
      /\ gr # "send"
  BY DEF IInv, Waiter, Goroutine, GrStart, GrGetsockopt, GrGetpeername, GrEvicted,
         GrReady, GrSpurious
<1>3. attempt \in Addr /\ r \in Record /\ Accounted(r) /\ r.raw = "moved"
      /\ r.copy = "none" /\ ~r.fin /\ dial.sotype = "stream"
  BY <1>2, Start DEF IInv, Current, Waiter
<1>4. /\ pc' = pc /\ attempt' = attempt /\ n' = n /\ conn' = conn /\ dial' = dial
      /\ sk' = sk
  BY DEF Goroutine, GrStart, GrGetsockopt, GrGetpeername, GrEvicted, GrReady,
         GrSpurious, caller, context
<1>5. \/ /\ gr' \in {"callback", "peer", "wait"} /\ fds' = fds
         /\ Locked \/ r.file = "open"
      \/ /\ gr' = "send" /\ fds' = [fds EXCEPT ![attempt] = Unlock(@)]
         /\ gerr' = "nil" => sk[attempt] \in {"established", "reset"}
  BY DEF Goroutine, GrStart, GrGetsockopt, GrGetpeername, GrEvicted, GrReady,
         GrSpurious, RawWriteReturns, CallbackDone, Getpeername, Locked
<1>6. Position'
  BY <1>4 DEF IInv, Position
<1>7. CASE gr' = "send"
  <2>1. fds' = [fds EXCEPT ![attempt] = Unlock(@)]
        /\ (gerr' = "nil" => sk[attempt] \in {"established", "reset"})
    BY <1>5, <1>7
  <2>2. q = Unlock(r) /\ \A j \in Addr : j # attempt => fds'[j] = fds[j]
    BY <1>3, <2>1, Updated DEF IInv
  <2>3. /\ q.raw = "moved" /\ q.copy = "none" /\ ~q.fin /\ Accounted(q)
        /\ q.file = IF r.file = "closing" THEN "closed" ELSE r.file
    <3>1. Accounted(Unlock(r))
      BY <1>3, ClosesAccounted
    <3>2. /\ Unlock(r).raw = r.raw /\ Unlock(r).copy = r.copy /\ Unlock(r).fin = r.fin
          /\ Unlock(r).file = IF r.file = "closing" THEN "closed" ELSE r.file
      BY <1>3, DescriptorFields
    <3>3. QED
      BY <1>3, <2>2, <3>1, <3>2
  <2> HIDE DEF q, r
  <2>4. Waiter'
    BY <1>2, <1>3, <1>4, <1>7, <2>1, <2>3 DEF IInv, Waiter, Locked
  <2>5. Current'
    BY <1>2, <1>3, <1>4, <2>3 DEF IInv, Current, q, r
  <2>6. Owners'
    BY <1>2, <1>3, <1>4, <2>2, <2>3, OwnersUpdate DEF q
  <2>7. Leftovers'
    BY <1>2, <1>4, <2>2, <1>3, Start DEF IInv, Leftovers, Running
  <2>8. QED
    BY <1>1, <1>6, <2>4, <2>5, <2>6, <2>7 DEF IInv
<1>8. CASE gr' # "send"
  <2>1. gr' \in {"callback", "peer", "wait"} /\ fds' = fds /\ (Locked \/ r.file = "open")
    BY <1>5, <1>8
  <2>2. Waiter' /\ Current'
    BY <1>2, <1>4, <2>1 DEF IInv, Waiter, Current, Locked
  <2>3. Owners' /\ Leftovers'
    BY <1>2, <1>4, <2>1 DEF IInv, Owners, Leftovers, Running, Locked
  <2>4. QED
    BY <1>1, <1>6, <2>2, <2>3 DEF IInv
<1>9. QED
  BY <1>7, <1>8

\* The host, the timer and the caller's context touch no descriptor.
LEMMA OutsideStep ==
  ASSUME IInv, Host \/ Tick \/ Cancel PROVE IInv'
<1>1. TypeOK'
  BY TypeStep DEF IInv, Next, Environment
<1>2. /\ pc' = pc /\ attempt' = attempt /\ n' = n /\ conn' = conn /\ dial' = dial
      /\ gr' = gr /\ gerr' = gerr /\ fds' = fds
  BY DEF Host, Established, Refused, Reset, Tick, Cancel, caller, goroutine, context
<1>3. \/ sk' = sk
      \/ /\ attempt # 0 /\ sk[attempt] = "connecting"
         /\ \E s \in {"established", "refused"} : sk' = [sk EXCEPT ![attempt] = s]
      \/ /\ attempt # 0 /\ sk[attempt] = "established"
         /\ sk' = [sk EXCEPT ![attempt] = "reset"]
  BY DEF Host, Established, Refused, Reset, Tick, Cancel
<1>4. Position' /\ Current'
  BY <1>2 DEF IInv, Position, Current
<1>5. Owners' /\ Leftovers'
  BY <1>2 DEF IInv, Owners, Leftovers, Locked, Running
<1>6. Waiter'
  <2>1. sk[attempt] \in {"established", "reset"} /\ attempt \in Addr =>
          sk'[attempt] \in {"established", "reset"}
    BY <1>3 DEF IInv, TypeOK
  <2>2. gr = "send" \/ pc = "conn" => attempt \in Addr
    BY Start DEF IInv, Waiter
  <2>3. QED
    BY <1>2, <2>1, <2>2 DEF IInv, Waiter, Locked
<1>7. QED
  BY <1>1, <1>4, <1>5, <1>6 DEF IInv

\* The caller closes the connection, or forgets it.
LEMMA UserStep ==
  ASSUME IInv, CloseConn \/ DropConn PROVE IInv'
<1>1. TypeOK'
  BY TypeStep DEF IInv, Next, Environment
<1> DEFINE r == fds[attempt]
           q == fds'[attempt]
<1>2. /\ conn = "held" /\ pc = "done" /\ attempt \in Addr /\ attempt \in 1..n
      /\ gr \in {"none", "exited"}
  BY Start DEF IInv, Position, Waiter, TypeOK, Grs, CloseConn, DropConn
<1>3. /\ pc' = pc /\ attempt' = attempt /\ n' = n /\ dial' = dial
      /\ gr' = gr /\ gerr' = gerr /\ conn' \in {"closed", "dropped"}
  BY DEF CloseConn, DropConn, goroutine, context
<1>4. r \in Record /\ Accounted(r) /\ r.copy = "open" /\ ~r.fin
  BY <1>2, Start DEF IInv, Current
<1>5. fds' = fds \/ fds' = [fds EXCEPT ![attempt] = CloseCopy(@)]
  BY DEF CloseConn, DropConn
<1>6. /\ \A j \in Addr : j # attempt => fds'[j] = fds[j]
      /\ Accounted(q) /\ ~q.fin /\ q.file = r.file
  <2>1. CASE fds' = fds
    BY <1>4, <2>1
  <2>2. CASE fds' = [fds EXCEPT ![attempt] = CloseCopy(@)]
    <3>1. q = CloseCopy(r) /\ \A j \in Addr : j # attempt => fds'[j] = fds[j]
      BY <1>2, <2>2, Updated DEF IInv
    <3>2. Accounted(CloseCopy(r)) /\ CloseCopy(r).file = r.file
          /\ CloseCopy(r).fin = r.fin
      BY <1>4, ClosesAccounted, DescriptorFields
    <3>3. QED
      BY <1>4, <3>1, <3>2
  <2>3. QED
    BY <1>5, <2>1, <2>2
<1>7. r.file # "closing"
  BY <1>2 DEF IInv, Owners
<1> HIDE DEF q, r
<1>8. Position' /\ Waiter' /\ Current'
  BY <1>2, <1>3 DEF Position, Waiter, Current, Locked
<1>9. Owners'
  BY <1>2, <1>3, <1>6, <1>7, OwnersUpdate DEF q
<1>10. Leftovers'
  BY <1>2, <1>3, <1>6, Start DEF IInv, Leftovers, Running
<1>11. QED
  BY <1>1, <1>8, <1>9, <1>10 DEF IInv

\* The collector runs a finalizer of attempt i.
LEMMA FinalizerStep ==
  ASSUME IInv, NEW i \in Addr, FinalizeNetFD(i) \/ FinalizeFile(i) PROVE IInv'
<1>1. TypeOK'
  BY TypeStep DEF IInv, Next, Environment
<1> DEFINE r == fds[i]
           q == fds'[i]
<1>2. /\ pc' = pc /\ attempt' = attempt /\ n' = n /\ conn' = conn /\ dial' = dial
      /\ gr' = gr /\ gerr' = gerr /\ ~Running(i)
      /\ \A j \in Addr : j # i => sk'[j] = sk[j]
  BY DEF FinalizeNetFD, FinalizeFile, caller, goroutine, context, Reachable, IInv, TypeOK
<1>3. r \in Record /\ Accounted(r) /\ \A j \in Addr : j # i => fds'[j] = fds[j]
  BY Start, Updated DEF IInv, FinalizeNetFD, FinalizeFile
<1>4. /\ Accounted(q) /\ ~q.fin /\ q.raw = r.raw /\ q.copy = r.copy
      /\ q.file = r.file \/ (r.file = "open" /\ q.file = "closed")
      /\ ~(i = attempt /\ conn = "held")
  <2>1. CASE FinalizeNetFD(i)
    <3>1. r.fin /\ r.copy = "closed"
      BY <2>1 DEF FinalizeNetFD, IInv, Owners
    <3>2. q = [CloseCopy(r) EXCEPT !.fin = FALSE]
      BY <2>1, Updated DEF IInv, FinalizeNetFD
    <3>3. q = [r EXCEPT !.fin = FALSE]
      BY <3>1, <3>2 DEF CloseCopy
    <3>4. /\ ~q.fin /\ q.raw = r.raw /\ q.copy = r.copy /\ q.file = r.file
          /\ q.closes = r.closes
      BY <1>3, <3>3 DEF Record
    <3>5. Accounted(q)
      BY <1>3, <3>4 DEF Accounted, Referenced
    <3>6. QED
      BY <3>1, <3>4, <3>5 DEF IInv, Current
  <2>2. CASE FinalizeFile(i)
    <3>1. r.file = "open" /\ ~r.fin /\ ~(i = attempt /\ conn = "held")
      BY <2>2 DEF FinalizeFile, Reachable, IInv, Current
    <3>2. q = CloseFile(r, FALSE)
      BY <2>2, Updated DEF IInv, FinalizeFile
    <3>3. Accounted(CloseFile(r, FALSE))
      BY <1>3, ClosesAccounted
    <3>4. /\ CloseFile(r, FALSE).file = "closed" /\ CloseFile(r, FALSE).raw = r.raw
          /\ CloseFile(r, FALSE).copy = r.copy /\ CloseFile(r, FALSE).fin = r.fin
      BY <1>3, <3>1, UnlockedClose
    <3>5. QED
      BY <3>1, <3>2, <3>3, <3>4
  <2>3. QED
    BY <2>1, <2>2
<1>5. i = attempt => pc \in {"check", "done"}
  BY <1>2 DEF Running
<1>6. Position'
  BY <1>2 DEF IInv, Position
<1>7. Current'
  <2>1. CASE i # attempt /\ attempt \in Addr
    BY <1>2, <1>3, <2>1 DEF IInv, Current
  <2>2. CASE i = attempt
    BY <1>2, <1>4, <1>5, <2>2 DEF Current
  <2>3. CASE attempt \notin Addr
    BY <1>2, <2>3, Start DEF IInv, Current
  <2>4. QED
    BY <2>1, <2>2, <2>3
<1>8. Waiter'
  <2>1. gr \notin {"none", "exited"} \/ pc = "conn" => attempt \in Addr /\ i # attempt
    BY <1>5, Start DEF IInv, Waiter
  <2>2. Locked' = Locked /\ (Locked => gr \notin {"none", "exited"})
    BY <1>2 DEF Locked
  <2>3. QED
    BY <1>2, <1>3, <2>1, <2>2 DEF IInv, Waiter
<1>9. Owners'
  <2> SUFFICES ASSUME NEW j \in Addr
               PROVE  /\ Accounted(fds'[j])
                      /\ j > attempt \/ (j = attempt /\ pc = "socket") =>
                            fds'[j] = Unopened
                      /\ fds'[j].fin => fds'[j].raw = "moved" /\ fds'[j].copy = "closed"
                      /\ fds'[j].file = "closing" =>
                            j = attempt /\ pc = "closing" /\ Locked
    BY <1>2 DEF Owners, Locked
  <2>1. CASE j # i
    BY <1>3, <2>1 DEF IInv, Owners
  <2>2. CASE j = i
    <3>1. r.fin \/ r.file = "open"
      BY DEF FinalizeNetFD, FinalizeFile
    <3>2. ~Unopened.fin /\ Unopened.file = "none"
      BY DEF Unopened
    <3>3. r # Unopened
      BY <3>1, <3>2
    <3>4. QED
      BY <1>4, <2>2, <3>3 DEF IInv, Owners
  <2>3. QED
    BY <2>1, <2>2
<1>10. Leftovers'
  <2> SUFFICES ASSUME NEW j \in 1..attempt, ~Running(j), j = attempt => conn = "none"
               PROVE  /\ fds'[j].raw \in {"none", "moved", "closed"}
                      /\ fds'[j].raw = "moved" /\ dial.sotype = "stream" =>
                            fds'[j].file = "closed"
                      /\ fds'[j].raw = "moved" => fds'[j].file # "none"
                      /\ dial.sotype # "unixgram" => fds'[j].copy # "open"
    BY <1>2 DEF Leftovers, Running
  <2>1. j \in Addr
    BY Start
  <2>2. CASE j # i
    BY <1>3, <2>1, <2>2 DEF IInv, Leftovers
  <2>3. CASE j = i
    BY <1>4, <2>3 DEF IInv, Leftovers
  <2>4. QED
    BY <2>2, <2>3
<1>11. QED
  BY <1>1, <1>6, <1>7, <1>8, <1>9, <1>10 DEF IInv

LEMMA InvInit == Init => IInv
<1> SUFFICES ASSUME Init PROVE IInv
  OBVIOUS
<1>1. TypeOK
  BY InitTypes
<1>2. Position /\ Current /\ Waiter /\ Leftovers
  BY DEF Init, Position, Current, Waiter, Leftovers, Locked
<1>3. Owners
  BY DEF Init, Owners, Accounted, Referenced, Unopened
<1>4. QED
  BY <1>1, <1>2, <1>3 DEF IInv

LEMMA InvStep == IInv /\ [Next]_vars => IInv'
<1> SUFFICES ASSUME IInv, [Next]_vars PROVE IInv'
  OBVIOUS
<1>1. CASE UNCHANGED vars
  BY <1>1 DEF vars, IInv, TypeOK, Position, Owners, Current, Waiter, Leftovers,
              Locked, Running
<1>2. CASE Caller
  BY <1>2, ResolveStep, SocketStep, ConnectStep, SelectStep, ConnStep, LoopStep
     DEF Caller
<1>3. CASE Goroutine \/ GrSpurious
  BY <1>3, GoroutineStep
<1>4. CASE Host \/ Environment
  BY <1>4, OutsideStep, UserStep, FinalizerStep DEF Environment
<1>5. QED
  BY <1>1, <1>2, <1>3, <1>4 DEF Next

\* The invariant holds throughout a dial: the strengthening from which the
\* theorems below follow.
THEOREM Invariance == Spec => []IInv
BY InvInit, InvStep, PTL DEF Spec

-----------------------------------------------------------------------------
(* What follows from the invariant.                                        *)

\* No fd_close is issued twice for a descriptor of a dial, by dialer.go's deferred
\* functions, the netFD, the user and the finalizers together.
THEOREM ClosedOnce == Spec => []ClosedAtMostOnce
<1>1. IInv => ClosedAtMostOnce
  BY DEF IInv, Owners, Accounted, ClosedAtMostOnce
<1>2. QED
  BY <1>1, Invariance, PTL

\* The callback of dialer.go:175-198 runs on a descriptor that is not closed.
THEOREM CallbackSafe == Spec => []CallbackOwnsDescriptor
<1>1. IInv => CallbackOwnsDescriptor
  <2> SUFFICES ASSUME IInv, gr \in {"callback", "peer"} PROVE fds[attempt].closes = 0
    BY DEF CallbackOwnsDescriptor
  <2>1. fds[attempt].file \in {"open", "closing"}
    BY DEF IInv, Waiter, Locked
  <2>2. attempt \in Addr /\ Accounted(fds[attempt])
    BY Start DEF IInv, Waiter
  <2>3. fds[attempt].raw = "moved" /\ Referenced(fds[attempt])
    BY <2>1, <2>2 DEF Accounted, Referenced
  <2>4. QED
    BY <2>2, <2>3 DEF Accounted
<1>2. QED
  BY <1>1, Invariance, PTL

\* No dial leaves its connect goroutine behind (dialer.go:172-217).
THEOREM NoneOrphaned == Spec => []NoOrphan
<1>1. IInv => NoOrphan
  BY DEF IInv, Waiter, NoOrphan
<1>2. QED
  BY <1>1, Invariance, PTL

\* What sconn.Close and the receive from errch wait for can go on (dialer.go:207-217):
\* with the two steps of dialAddr that follow, no dial is stuck.
THEOREM NobodyStuck == Spec => []NobodyWaitsInVain
<1>1. IInv => NobodyWaitsInVain
  <2> SUFFICES ASSUME IInv PROVE NobodyWaitsInVain
    OBVIOUS
  <2>1. pc = "closing" =>
          fds[attempt].file = "closed" \/ (fds[attempt].file = "closing" /\ Locked)
    BY Start DEF IInv, Current, Owners
  <2>2. ASSUME pc = "drain" PROVE gr \in {"start", "send"}
    <3>1. fds[attempt].file = "closed"
      BY <2>2 DEF IInv, Current
    <3>2. ~Locked
      BY <3>1 DEF IInv, Waiter
    <3>3. gr \in Grs /\ gr \notin {"none", "exited"}
      BY <2>2 DEF IInv, TypeOK, Waiter
    <3>4. QED
      BY <3>2, <3>3 DEF Locked, Grs
  <2>3. QED
    BY <2>1, <2>2 DEF NobodyWaitsInVain
<1>2. QED
  BY <1>1, Invariance, PTL

\* From sconn.Close on, every step of the goroutine or of dialAddr lowers what is left
\* to do before errch is received from, whatever the poller and the host do.
LEMMA WindingDown ==
  ASSUME IInv, Next, pc \in {"closing", "drain"}, pc' \in {"closing", "drain"}
  PROVE  Ahead' < Ahead \/ UNCHANGED <<pc, gr>>
<1>1. fds[attempt].file # "open"
  BY DEF IInv, Current
<1>2. CASE Caller
  <2>1. CloseReturns
    BY <1>2 DEF Caller, SetTimeout, Lookup, Socket, ConnectNow, ConnectPending,
                ConnectFails, ReceiveErr, ContextDone, Drain, NewConn, NewConnFails,
                NextAddress, GiveUp
  <2>2. pc = "closing" /\ pc' = "drain" /\ gr' = gr
    BY <2>1 DEF CloseReturns, goroutine
  <2>3. QED
    BY <2>2 DEF Ahead
<1>3. CASE Goroutine
  <2>1. pc' = pc
    BY <1>3 DEF Goroutine, GrStart, GrGetsockopt, GrGetpeername, GrEvicted, GrReady, caller
  <2>2. \/ gr = "start" /\ gr' = "send"
        \/ gr = "callback" /\ gr' \in {"peer", "send"}
        \/ gr = "peer" /\ gr' \in {"wait", "send"}
        \/ gr = "wait" /\ gr' = "send"
    BY <1>1, <1>3 DEF Goroutine, GrStart, GrGetsockopt, GrGetpeername, GrEvicted, GrReady,
                      RawWriteReturns
  <2>3. QED
    BY <2>1, <2>2 DEF Ahead
<1>4. CASE GrSpurious
  BY <1>1, <1>4 DEF GrSpurious
<1>5. CASE Host \/ Environment
  BY <1>5 DEF Host, Established, Refused, Reset, Environment, Tick, Cancel, CloseConn,
              DropConn, FinalizeNetFD, FinalizeFile, caller, goroutine
<1>6. QED
  BY <1>2, <1>3, <1>4, <1>5 DEF Next

\* A dial that is being ended (dialer.go:207-217) cannot be kept from it.
THEOREM EndReached == Spec => EndInSight
<1>1. IInv /\ [Next]_vars
        => [(pc \in {"closing", "drain"} /\ pc' \in {"closing", "drain"})
              => Ahead' < Ahead \/ UNCHANGED <<pc, gr>>]_vars
  BY WindingDown
<1>2. QED
  BY <1>1, Invariance, PTL DEF Spec, EndInSight

\* An asynchronous connect that dialAddr takes for done was done.
THEOREM ConnectedFirst == Spec => []ConnectedBeforeConn
<1>1. IInv => ConnectedBeforeConn
  BY DEF IInv, Waiter, ConnectedBeforeConn
<1>2. QED
  BY <1>1, Invariance, PTL

\* The descriptor of a connection in use stays open, whatever the collector does.
THEOREM HeldStaysOpen == Spec => []HeldConnIsOpen
<1>1. IInv => HeldConnIsOpen
  <2> SUFFICES ASSUME IInv, conn = "held" PROVE fds[attempt].closes = 0
    BY DEF HeldConnIsOpen
  <2>1. attempt \in Addr /\ Accounted(fds[attempt])
    BY Start
  <2>2. fds[attempt].raw = "moved" /\ Referenced(fds[attempt])
    BY DEF IInv, Current, Referenced
  <2>3. QED
    BY <2>1, <2>2 DEF Accounted
<1>2. QED
  BY <1>1, Invariance, PTL

\* A failed attempt of a stream or datagram dial keeps no descriptor.
THEOREM NothingKept == Spec => []FailedAttemptKeepsNothing
<1>1. IInv => FailedAttemptKeepsNothing
  <2> SUFFICES ASSUME IInv, NEW i \in 1..attempt, Opened(fds[i]), ~Running(i),
                      i = attempt => conn = "none", dial.sotype # "unixgram",
                      dial.sotype = "stream" \/ ~(fds[i].fin \/ fds[i].file = "open")
               PROVE  fds[i].closes = 1
    BY DEF FailedAttemptKeepsNothing
  <2>1. i \in Addr /\ fds[i] \in Record /\ Accounted(fds[i])
    BY Start
  <2>2. fds[i].raw \in {"moved", "closed"} /\ fds[i].copy # "open"
    BY DEF IInv, Leftovers, Opened
  <2>3. fds[i].file # "closing"
    BY <2>1 DEF IInv, Owners, Running
  <2>4. fds[i].raw = "moved" => fds[i].file = "closed"
    BY <2>1, <2>3 DEF IInv, Leftovers, Record, Files
  <2>5. QED
    BY <2>1, <2>2, <2>4 DEF Accounted, Referenced
<1>2. QED
  BY <1>1, Invariance, PTL
=============================================================================
