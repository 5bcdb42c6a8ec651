-------------------------- MODULE DialPromiseProofs --------------------------
(***************************************************************************)
(* A stream dial implements its promise, whatever the number of addresses. *)
(* The invariant says which descriptors are not closed at each pc; every   *)
(* step of Dialer is then a step of DialPromise or changes nothing it sees.*)
(***************************************************************************)
EXTENDS DialerProofs

\* At each pc, what is owned: the descriptor being dialed or returned, or none.
OwnedByPc ==
  /\ Owned \subseteq {attempt}
  /\ attempt \in Owned => Opened(fds[attempt]) /\ fds[attempt].closes = 0
  /\ attempt \in Addr /\ Opened(fds[attempt]) /\ fds[attempt].closes = 0
       => Owned = {attempt}
  /\ pc \in {"entry", "lookup", "socket", "check", "drain"} => Owned = {}
  /\ pc \in {"connect", "select", "conn"} => Owned = {attempt}
  /\ pc = "done" /\ conn = "none" => Owned = {}
  /\ conn = "held" => Owned = {attempt}

LEMMA OwnedNow == IInv /\ dial.sotype = "stream" => OwnedByPc
<1> SUFFICES ASSUME IInv, dial.sotype = "stream" PROVE OwnedByPc
  OBVIOUS
<1>1. /\ \A i \in Addr : fds[i] \in Record /\ Accounted(fds[i])
      /\ attempt \in Nat /\ n \in Nat /\ n <= N /\ N \in Nat
      /\ 1..attempt \subseteq Addr
  BY Start
<1>2. ASSUME NEW i \in 1..attempt, ~Running(i), i = attempt => conn = "none"
      PROVE  i \notin Owned
  <2>1. i \in Addr /\ Accounted(fds[i]) /\ fds[i] \in Record
    BY <1>1
  <2>2. fds[i].raw \in {"none", "moved", "closed"} /\ fds[i].copy # "open"
    BY <1>2 DEF IInv, Leftovers
  <2>3. fds[i].raw = "moved" => fds[i].file = "closed"
    BY <1>2 DEF IInv, Leftovers
  <2>4. Opened(fds[i]) => fds[i].closes = 1
    BY <2>1, <2>2, <2>3 DEF Accounted, Referenced, Opened
  <2>5. QED
    BY <2>4 DEF Owned
<1>3. ASSUME NEW i \in Addr, i > attempt PROVE i \notin Owned
  <2>1. fds[i] = Unopened
    BY <1>3 DEF IInv, Owners
  <2>2. QED
    BY <2>1 DEF Owned, Opened, Unopened
<1>4. Owned \subseteq {attempt}
  <2> SUFFICES ASSUME NEW i \in Owned, i # attempt PROVE FALSE
    OBVIOUS
  <2>1. i \in Addr /\ i \in Nat /\ i >= 1
    BY DEF Owned, Addr
  <2>2. i > attempt \/ i \in 1..attempt
    BY <1>1, <2>1
  <2>3. i \in 1..attempt => ~Running(i)
    BY DEF Running
  <2>4. QED
    BY <1>2, <1>3, <2>1, <2>2, <2>3
<1>5. /\ attempt \in Owned => Opened(fds[attempt]) /\ fds[attempt].closes = 0
      /\ attempt \in Addr /\ Opened(fds[attempt]) /\ fds[attempt].closes = 0
           => Owned = {attempt}
  BY <1>4 DEF Owned
<1>6. attempt \in Owned => attempt \in 1..attempt
  BY <1>1 DEF Owned, Addr
<1>7. pc \in {"entry", "lookup"} => Owned = {}
  BY <1>1, <1>4, <1>6 DEF IInv, Position
<1>8. pc = "socket" => Owned = {}
  <2>1. pc = "socket" /\ attempt \in Addr => fds[attempt] = Unopened
    BY DEF IInv, Owners
  <2>2. attempt \in Owned => attempt \in Addr
    BY DEF Owned
  <2>3. QED
    BY <1>4, <1>5, <2>1, <2>2 DEF Opened, Unopened
<1>9. conn = "none" /\ pc \in {"check", "done"} => Owned = {}
  BY <1>2, <1>4, <1>6 DEF Running
<1>10. pc = "check" => conn = "none"
  BY DEF IInv, Position
<1>11. pc = "drain" => Owned = {}
  <2> SUFFICES ASSUME pc = "drain", attempt \in Addr PROVE fds[attempt].closes # 0
    BY <1>4, <1>5 DEF Owned
  <2>1. fds[attempt].raw = "moved" /\ fds[attempt].copy = "none"
        /\ fds[attempt].file = "closed"
    BY DEF IInv, Current
  <2>2. QED
    BY <1>1, <2>1 DEF Accounted, Referenced
<1>12. ASSUME pc \in {"connect", "select", "conn"} \/ conn = "held"
       PROVE  Owned = {attempt}
  <2>1. attempt \in Addr
    BY <1>1, <1>12 DEF IInv, Position
  <2>2. fds[attempt].raw \in {"held", "moved"}
    BY <1>12 DEF IInv, Current
  <2>3. fds[attempt].raw = "moved" => Referenced(fds[attempt])
    BY <1>12 DEF IInv, Current, Referenced
  <2>4. QED
    BY <1>1, <1>5, <2>1, <2>2, <2>3 DEF Accounted, Opened
<1>13. QED
  BY <1>4, <1>5, <1>7, <1>8, <1>9, <1>10, <1>11, <1>12 DEF OwnedByPc

LEMMA OwnedNext == (IInv /\ dial.sotype = "stream" => OwnedByPc)'
BY OwnedNow, PTL

\* No operator takes a close back or forgets that a descriptor was opened.
Onward(r, q) == q.closes >= r.closes /\ (q.raw = "none" <=> r.raw = "none")

LEMMA OneOnward ==
  ASSUME NEW r \in Record, NEW b \in BOOLEAN
  PROVE  /\ Onward(r, CloseRaw(r)) /\ Onward(r, CloseFile(r, b))
         /\ Onward(r, Unlock(r)) /\ Onward(r, CopyFile(r))
         /\ Onward(r, CloseCopy(r)) /\ Onward(r, FailedNetFD(r))
         /\ r.raw = "held" => Onward(r, WrapFile(r))
<1>1. r.closes \in Nat /\ r.closes + 1 >= r.closes
  BY DEF Record
<1>2. ASSUME NEW s \in Record, s.closes = r.closes, s.raw = r.raw
      PROVE  Onward(r, Unref(s)) /\ Unref(s).fin = s.fin
  BY <1>1, <1>2 DEF Onward, Unref, Record
<1>3. /\ [r EXCEPT !.file = "closed"] \in Record
      /\ [r EXCEPT !.copy = "closed"] \in Record
      /\ [r EXCEPT !.file = "closed"].closes = r.closes
      /\ [r EXCEPT !.copy = "closed"].closes = r.closes
      /\ [r EXCEPT !.file = "closed"].raw = r.raw
      /\ [r EXCEPT !.copy = "closed"].raw = r.raw
  BY DEF Record, Files, Copies
<1>4. Onward(r, CloseRaw(r)) /\ Onward(r, CopyFile(r))
  BY <1>1 DEF Onward, CloseRaw, CopyFile, Record
<1>5. Onward(r, r) /\ Onward(r, [r EXCEPT !.file = "closing"])
  BY <1>1 DEF Onward, Record
<1>6. Onward(r, CloseFile(r, b)) /\ Onward(r, Unlock(r))
  BY <1>2, <1>3, <1>5 DEF CloseFile, Unlock
<1>7. Onward(r, CloseCopy(r))
  BY <1>2, <1>3, <1>5 DEF CloseCopy
<1>8. Onward(r, FailedNetFD(r))
  <2>1. CopyFile(r) \in Record /\ CopyFile(r).closes = r.closes
        /\ CopyFile(r).raw = r.raw /\ CopyFile(r).copy = "open"
    BY DEF CopyFile, Record, Copies
  <2>2. [CopyFile(r) EXCEPT !.copy = "closed"] \in Record
        /\ [CopyFile(r) EXCEPT !.copy = "closed"].closes = r.closes
        /\ [CopyFile(r) EXCEPT !.copy = "closed"].raw = r.raw
    BY <2>1 DEF Record, Copies
  <2>3. Onward(r, CloseCopy(CopyFile(r))) /\ CloseCopy(CopyFile(r)) \in Record
    BY <1>2, <2>1, <2>2, DescriptorTypes DEF CloseCopy
  <2>4. QED
    BY <2>3 DEF FailedNetFD, Onward, Record
<1>9. r.raw = "held" => Onward(r, WrapFile(r))
  BY <1>1 DEF Onward, WrapFile, MakeFile, Disarm, Record
<1>10. QED
  BY <1>4, <1>6, <1>7, <1>8, <1>9

LEMMA OnwardTwice ==
  ASSUME NEW r \in Record, NEW q \in Record, NEW s \in Record,
         Onward(r, q), Onward(q, s)
  PROVE  Onward(r, s)
BY DEF Onward, Record
\* A step that leaves the current descriptor alone leaves alone what is owned.
LEMMA OwnedKept ==
  ASSUME IInv, IInv', dial.sotype = "stream", dial' = dial, attempt' = attempt,
         attempt \in Addr => fds'[attempt] = fds[attempt]
  PROVE  Owned' = Owned
<1>1. Owned \subseteq {attempt} /\ Owned' \subseteq {attempt}
  BY OwnedNow, OwnedNext DEF OwnedByPc
<1>2. attempt \in Owned <=> attempt \in Owned'
  BY DEF Owned
<1>3. QED
  BY <1>1, <1>2

\* One that may close it leaves the same owned, or nothing.
LEMMA OwnedLess ==
  ASSUME IInv, IInv', dial.sotype = "stream", dial' = dial, attempt' = attempt,
         attempt \in Addr => Onward(fds[attempt], fds'[attempt])
  PROVE  Owned' = Owned \/ Owned' = {}
<1>1. Owned \subseteq {attempt}
  BY OwnedNow DEF OwnedByPc
<1>2. Owned' \subseteq {attempt}
  BY OwnedNext DEF OwnedByPc
<1>3. attempt \in Owned' => attempt \in Owned
  <2> SUFFICES ASSUME attempt \in Addr, Opened(fds'[attempt]), fds'[attempt].closes = 0
               PROVE  Opened(fds[attempt]) /\ fds[attempt].closes = 0
    BY DEF Owned
  <2>1. fds[attempt].closes \in Nat
    BY DEF IInv, TypeOK, Record
  <2>2. QED
    BY <2>1 DEF Onward, Opened
<1>4. QED
  BY <1>1, <1>2, <1>3

Mapped == Promise!Next \/ UNCHANGED Promise!vars

USE DEF Promise!vars, Shown

LEMMA ResolveMapped ==
  ASSUME IInv, IInv', dial.sotype = "stream", dial' = dial, SetTimeout \/ Lookup \/ Socket
  PROVE  Mapped
<1>1. CASE SetTimeout
  <2>1. UNCHANGED <<fds, n, attempt, ctx, conn>> /\ pc = "entry" /\ pc' = "lookup"
    BY <1>1 DEF SetTimeout
  <2>2. UNCHANGED Promise!vars
    BY <2>1 DEF Phase, Owned, Answer
  <2>3. QED
    BY <2>2 DEF Mapped
<1>2. CASE Lookup
  <2>1. pc = "lookup" /\ UNCHANGED <<fds, conn, ctx>>
    BY <1>2 DEF Lookup, context
  <2>2. Owned' = Owned
    BY <2>1 DEF Owned
  <2>3. Phase = "resolving" /\ Answer = "none"
    BY <2>1 DEF Phase, Answer
  <2>4. CASE pc' = "socket"
    <3>1. n' \in 1..N /\ attempt' = 1
      BY <1>2, <2>4 DEF Lookup, Addr, IInv, TypeOK
    <3>2. Phase' = "trying" /\ Answer' = "none"
      BY <2>4 DEF Phase, Answer
    <3>3. Promise!Resolve
      BY <2>1, <2>2, <2>3, <3>1, <3>2 DEF Promise!Resolve
    <3>4. QED
      BY <3>3 DEF Mapped, Promise!Next
  <2>5. CASE pc' = "done"
    <3>1. UNCHANGED <<n, attempt>> /\ conn = "none"
      BY <1>2, <2>1, <2>5 DEF Lookup, IInv, Position
    <3>2. Phase' = "returned" /\ Answer' = "error"
      BY <2>1, <2>5, <3>1 DEF Phase, Answer
    <3>3. Promise!Resolve
      BY <2>1, <2>2, <2>3, <3>1, <3>2 DEF Promise!Resolve
    <3>4. QED
      BY <3>3 DEF Mapped, Promise!Next
  <2>6. QED
    BY <1>2, <2>4, <2>5 DEF Lookup
<1>3. CASE Socket
  <2>1. pc = "socket" /\ UNCHANGED <<n, attempt, conn, ctx>> /\ conn = "none"
    BY <1>3 DEF Socket, context, IInv, Position
  <2>2. Phase = "trying" /\ Answer = "none"
    BY <2>1 DEF Phase, Answer
  <2>3. pc' \in {"connect", "check"} /\ (pc' = "check" => fds' = fds)
    BY <1>3 DEF Socket
  <2>4. Answer' = "none" /\ Phase' = IF pc' = "connect" THEN "open" ELSE "between"
    BY <2>3 DEF Phase, Answer
  <2>5. IF pc' = "connect" THEN Owned' = {attempt} ELSE Owned' = Owned
    <3>1. pc' = "connect" => Owned' = {attempt'}
      BY OwnedNext DEF OwnedByPc
    <3>2. pc' = "check" => Owned' = Owned
      BY <2>3 DEF Owned
    <3>3. QED
      BY <2>1, <2>3, <3>1, <3>2
  <2>6. Promise!Open
    BY <2>1, <2>2, <2>3, <2>4, <2>5 DEF Promise!Open
  <2>7. QED
    BY <2>6 DEF Mapped, Promise!Next
<1>4. QED
  BY <1>1, <1>2, <1>3

\* Steps of dialAddr once it has a descriptor: it keeps it, or closes it.
LEMMA OpenMapped ==
  ASSUME IInv, IInv', dial.sotype = "stream", dial' = dial,
         UNCHANGED <<n, attempt, conn, ctx>>,
         pc \in {"connect", "select", "closing", "drain", "conn"},
         pc' \in {"connect", "select", "closing", "drain", "conn", "check"},
         attempt \in Addr => Onward(fds[attempt], fds'[attempt])
  PROVE  Mapped
<1>1. Owned' = Owned \/ Owned' = {}
  BY OwnedLess
<1>2. pc' = "check" => Owned' = {}
  BY OwnedNext DEF OwnedByPc
<1>3. Phase = "open" /\ Answer = "none" /\ Answer' = "none"
  BY DEF Phase, Answer
<1>4. Phase' = IF pc' = "check" THEN "between" ELSE "open"
  BY DEF Phase
<1>5. CASE Owned' = {}
  <2>1. Promise!Close
    BY <1>3, <1>4, <1>5 DEF Promise!Close
  <2>2. QED
    BY <2>1 DEF Mapped, Promise!Next
<1>6. CASE Owned' = Owned /\ pc' # "check"
  <2>1. UNCHANGED Promise!vars
    BY <1>3, <1>4, <1>6
  <2>2. QED
    BY <2>1 DEF Mapped
<1>7. QED
  BY <1>1, <1>2, <1>5, <1>6


LEMMA ConnectMapped ==
  ASSUME IInv, IInv', dial.sotype = "stream", dial' = dial,
         ConnectNow \/ ConnectPending \/ ConnectFails
  PROVE  Mapped
<1>1. /\ UNCHANGED <<n, attempt, conn, ctx>> /\ pc = "connect"
      /\ pc' \in {"conn", "select", "check"}
  BY DEF ConnectNow, ConnectPending, ConnectFails, context
<1>2. attempt \in Addr => Onward(fds[attempt], fds'[attempt])
  <2> SUFFICES ASSUME attempt \in Addr PROVE Onward(fds[attempt], fds'[attempt])
    OBVIOUS
  <2>1. fds[attempt] \in Record /\ fds[attempt].raw = "held"
    BY <1>1 DEF IInv, TypeOK, Current
  <2>2. fds'[attempt] \in {WrapFile(fds[attempt]), CloseRaw(fds[attempt])}
    BY DEF ConnectNow, ConnectPending, ConnectFails, IInv, TypeOK
  <2>3. QED
    BY <2>1, <2>2, OneOnward
<1>3. QED
  BY <1>1, <1>2, OpenMapped

LEMMA SelectMapped ==
  ASSUME IInv, IInv', dial.sotype = "stream", dial' = dial,
         ReceiveErr \/ ContextDone \/ CloseReturns \/ Drain
  PROVE  Mapped
<1>1. /\ UNCHANGED <<n, attempt, conn, ctx>> /\ pc \in {"select", "closing", "drain"}
      /\ pc' \in {"closing", "drain", "conn", "check"}
  BY DEF ReceiveErr, ContextDone, CloseReturns, Drain, context
<1>2. attempt \in Addr => Onward(fds[attempt], fds'[attempt])
  <2> SUFFICES ASSUME attempt \in Addr PROVE Onward(fds[attempt], fds'[attempt])
    OBVIOUS
  <2> DEFINE r == fds[attempt]
  <2>1. r \in Record /\ Locked \in BOOLEAN
    BY DEF IInv, TypeOK, Locked
  <2>2. CloseSconn(r) \in Record /\ Onward(r, CloseSconn(r))
    BY <2>1, DescriptorTypes, OneOnward DEF CloseSconn
  <2>3. CloseRaw(CloseSconn(r)) \in Record /\ Onward(r, CloseRaw(CloseSconn(r)))
    BY <2>1, <2>2, DescriptorTypes, OneOnward, OnwardTwice
  <2>4. Onward(r, r) /\ Onward(r, CloseRaw(r))
    BY <2>1, OneOnward DEF Onward, Record
  <2>5. fds'[attempt] \in {r, CloseSconn(r), CloseRaw(r), CloseRaw(CloseSconn(r))}
    BY DEF ReceiveErr, ContextDone, CloseReturns, Drain, IInv, TypeOK
  <2>6. QED
    BY <2>2, <2>3, <2>4, <2>5
<1>3. QED
  BY <1>1, <1>2, OpenMapped

LEMMA ConnMapped ==
  ASSUME IInv, IInv', dial.sotype = "stream", dial' = dial, NewConn \/ NewConnFails
  PROVE  Mapped
<1> DEFINE r == fds[attempt]
<1>1. attempt \in Addr /\ r \in Record /\ Locked \in BOOLEAN /\ pc = "conn" /\ conn = "none"
  BY Start DEF NewConn, NewConnFails, IInv, TypeOK, Position, Locked
<1>2. CASE NewConn
  <2>1. /\ UNCHANGED <<n, attempt, ctx>> /\ pc' = "done" /\ conn' = "held"
    BY <1>2 DEF NewConn, context
  <2>2. Owned = {attempt} /\ Owned' = {attempt}
    BY <1>1, <2>1, OwnedNow, OwnedNext DEF OwnedByPc
  <2>3. Promise!Succeed
    BY <1>1, <2>1, <2>2 DEF Promise!Succeed, Phase, Answer
  <2>4. QED
    BY <2>3 DEF Mapped, Promise!Next
<1>3. CASE NewConnFails
  <2>1. /\ UNCHANGED <<n, attempt, ctx, conn>> /\ pc' = "check"
        /\ fds'[attempt] = CloseRaw(FailedConn(r))
    BY <1>1, <1>3 DEF NewConnFails, context, IInv, TypeOK
  <2>2. FailedNetFD(r) \in Record /\ Onward(r, FailedNetFD(r))
    BY <1>1, DescriptorTypes, OneOnward
  <2>3. FailedConn(r) \in Record /\ Onward(FailedNetFD(r), FailedConn(r))
    BY <1>1, <2>2, DescriptorTypes, OneOnward DEF FailedConn, CloseSconn
  <2>4. Onward(r, FailedConn(r))
    BY <1>1, <2>2, <2>3, OnwardTwice
  <2>5. Onward(r, CloseRaw(FailedConn(r)))
    BY <1>1, <2>3, <2>4, DescriptorTypes, OneOnward, OnwardTwice
  <2>6. QED
    BY <1>1, <2>1, <2>5, OpenMapped
<1>4. QED
  BY <1>2, <1>3

LEMMA LoopMapped ==
  ASSUME IInv, IInv', dial.sotype = "stream", dial' = dial, NextAddress \/ GiveUp
  PROVE  Mapped
<1>1. /\ pc = "check" /\ UNCHANGED <<n, fds, conn, ctx>> /\ conn = "none"
      /\ attempt \in 1..n /\ n \in Nat
  BY Start DEF NextAddress, GiveUp, context, IInv, Position
<1>2. Owned = {} /\ Owned' = {}
  <2>1. Owned = {}
    BY <1>1, OwnedNow DEF OwnedByPc
  <2>2. QED
    BY <1>1, <2>1 DEF Owned
<1>3. Phase = "between" /\ Answer = "none"
  BY <1>1 DEF Phase, Answer
<1>4. CASE NextAddress
  <2>1. ctx = "live" /\ attempt < n /\ attempt' = attempt + 1 /\ pc' = "socket"
    BY <1>4 DEF NextAddress, MoreAddresses
  <2>2. Phase' = "trying" /\ Answer' = "none"
    BY <2>1 DEF Phase, Answer
  <2>3. Promise!Try
    BY <1>1, <1>2, <1>3, <2>1, <2>2 DEF Promise!Try
  <2>4. QED
    BY <2>3 DEF Mapped, Promise!Next
<1>5. CASE GiveUp
  <2>1. pc' = "done" /\ attempt' = attempt /\ (attempt = n \/ ctx # "live")
    BY <1>1, <1>5 DEF GiveUp, MoreAddresses
  <2>2. Phase' = "returned" /\ Answer' = "error"
    BY <1>1, <2>1 DEF Phase, Answer
  <2>3. Promise!Fail
    BY <1>1, <1>2, <1>3, <2>1, <2>2 DEF Promise!Fail
  <2>4. QED
    BY <2>3 DEF Mapped, Promise!Next
<1>6. QED
  BY <1>4, <1>5

LEMMA GoroutineMapped ==
  ASSUME IInv, IInv', dial.sotype = "stream", dial' = dial, Goroutine \/ GrSpurious
  PROVE  Mapped
<1>1. UNCHANGED <<n, attempt, conn, ctx, pc>> /\ gr \notin {"none", "exited"}
  BY DEF Goroutine, GrStart, GrGetsockopt, GrGetpeername, GrEvicted, GrReady, GrSpurious,
         caller, context
<1>2. pc \in {"select", "closing", "drain"}
  BY <1>1 DEF IInv, Waiter
<1>3. attempt \in Addr => Onward(fds[attempt], fds'[attempt])
  <2> SUFFICES ASSUME attempt \in Addr PROVE Onward(fds[attempt], fds'[attempt])
    OBVIOUS
  <2>1. fds[attempt] \in Record
    BY DEF IInv, TypeOK
  <2>2. fds'[attempt] \in {fds[attempt], Unlock(fds[attempt])}
    BY DEF Goroutine, GrStart, GrGetsockopt, GrGetpeername, GrEvicted, GrReady,
           GrSpurious, RawWriteReturns, IInv, TypeOK
  <2>3. Onward(fds[attempt], fds[attempt]) /\ Onward(fds[attempt], Unlock(fds[attempt]))
    BY <2>1, OneOnward DEF Onward, Record
  <2>4. QED
    BY <2>2, <2>3
<1>4. QED
  BY <1>1, <1>2, <1>3, OpenMapped

LEMMA OutsideMapped ==
  ASSUME IInv, IInv', dial.sotype = "stream", dial' = dial, Host \/ Tick \/ Cancel
  PROVE  Mapped
<1>1. UNCHANGED <<n, attempt, conn, pc, fds>>
  BY DEF Host, Established, Refused, Reset, Tick, Cancel, caller
<1>2. Owned' = Owned /\ Phase' = Phase /\ Answer' = Answer
  BY <1>1 DEF Owned, Phase, Answer
<1>3. CASE ctx' = ctx
  BY <1>1, <1>2, <1>3 DEF Mapped
<1>4. CASE ctx' # ctx
  <2>1. ctx = "live" /\ pc # "done" /\ ctx' # "live"
    BY <1>4 DEF Host, Established, Refused, Reset, Tick, Cancel, context
  <2>2. Phase # "returned"
    BY <2>1 DEF Phase
  <2>3. Promise!End
    BY <1>1, <1>2, <2>1, <2>2 DEF Promise!End
  <2>4. QED
    BY <2>3 DEF Mapped, Promise!Next
<1>5. QED
  BY <1>3, <1>4

\* The life of the answer: its descriptor stays open, or is let go of.
LEMMA AnswerMapped ==
  ASSUME IInv, IInv', dial.sotype = "stream", dial' = dial,
         UNCHANGED <<n, attempt, pc, ctx>>, conn # "none", conn' # "none",
         attempt \in Addr => Onward(fds[attempt], fds'[attempt])
  PROVE  Mapped
<1>1. pc = "done" /\ Owned \subseteq {attempt}
  BY OwnedNow DEF OwnedByPc, IInv, Position
<1>2. Phase' = Phase /\ Answer = "conn" /\ Answer' = "conn"
  BY <1>1 DEF Phase, Answer
<1>3. CASE Owned' = Owned
  BY <1>2, <1>3 DEF Mapped
<1>4. CASE Owned = {attempt} /\ Owned' = {}
  <2>1. Promise!LetGo
    BY <1>2, <1>4 DEF Promise!LetGo
  <2>2. QED
    BY <2>1 DEF Mapped, Promise!Next
<1>5. QED
  BY <1>1, <1>3, <1>4, OwnedLess

LEMMA UserMapped ==
  ASSUME IInv, IInv', dial.sotype = "stream", dial' = dial, CloseConn \/ DropConn
  PROVE  Mapped
<1>1. /\ UNCHANGED <<n, attempt, pc, ctx>> /\ conn # "none" /\ conn' # "none"
  BY DEF CloseConn, DropConn, context
<1>2. attempt \in Addr => Onward(fds[attempt], fds'[attempt])
  <2> SUFFICES ASSUME attempt \in Addr PROVE Onward(fds[attempt], fds'[attempt])
    OBVIOUS
  <2>1. fds[attempt] \in Record
    BY DEF IInv, TypeOK
  <2>2. fds'[attempt] \in {fds[attempt], CloseCopy(fds[attempt])}
    BY DEF CloseConn, DropConn, IInv, TypeOK
  <2>3. Onward(fds[attempt], fds[attempt]) /\ Onward(fds[attempt], CloseCopy(fds[attempt]))
    BY <2>1, OneOnward DEF Onward, Record
  <2>4. QED
    BY <2>2, <2>3
<1>3. QED
  BY <1>1, <1>2, AnswerMapped

LEMMA FinalizerMapped ==
  ASSUME IInv, IInv', dial.sotype = "stream", dial' = dial,
         NEW i \in Addr, FinalizeNetFD(i) \/ FinalizeFile(i)
  PROVE  Mapped
<1>1. /\ UNCHANGED <<n, attempt, pc, ctx, conn>>
      /\ \A j \in Addr : j # i => fds'[j] = fds[j]
  BY DEF FinalizeNetFD, FinalizeFile, context, caller, IInv, TypeOK
<1>2. Phase' = Phase /\ Answer' = Answer
  BY <1>1 DEF Phase, Answer
<1>3. fds[i] \in Record /\ ~Running(i)
  BY DEF FinalizeNetFD, FinalizeFile, Reachable, IInv, TypeOK
<1>4. Onward(fds[i], fds'[i])
  <2>1. CASE FinalizeFile(i)
    <3>1. fds'[i] = CloseFile(fds[i], FALSE)
      BY <2>1 DEF FinalizeFile, IInv, TypeOK
    <3>2. QED
      BY <1>3, <3>1, OneOnward
  <2>2. CASE FinalizeNetFD(i)
    <3>1. fds'[i] = [CloseCopy(fds[i]) EXCEPT !.fin = FALSE]
      BY <2>2 DEF FinalizeNetFD, IInv, TypeOK
    <3>2. CloseCopy(fds[i]) \in Record /\ Onward(fds[i], CloseCopy(fds[i]))
      BY <1>3, DescriptorTypes, OneOnward
    <3>3. QED
      BY <3>1, <3>2 DEF Onward, Record
  <2>3. QED
    BY <2>1, <2>2
<1>5. CASE i # attempt
  <2>1. Owned' = Owned
    BY <1>1, <1>5, OwnedKept
  <2>2. QED
    BY <1>1, <1>2, <2>1 DEF Mapped
<1>6. CASE i = attempt /\ conn # "none"
  BY <1>1, <1>4, <1>6, AnswerMapped
<1>7. CASE i = attempt /\ conn = "none"
  <2>1. pc \in {"check", "done"}
    BY <1>3, <1>7 DEF Running
  <2>2. Owned = {} /\ Owned' = {}
    BY <1>1, <1>7, <2>1, OwnedNow, OwnedNext DEF OwnedByPc
  <2>3. QED
    BY <1>1, <1>2, <2>2 DEF Mapped
<1>8. QED
  BY <1>5, <1>6, <1>7

\* A dial of stream sockets (every "tcp" and "unix" network of dialer.go) implements
\* its promise: it owns one descriptor at a time, tries the addresses in order while
\* its context lives, and answers with an error only when it owns nothing.
THEOREM PromiseKept == Spec => ImplementsPromise
<1>1. Init => Promise!Init
  BY DEF Init, Promise!Init, Phase, Answer, Owned, Opened, Unopened
<1>2. IInv /\ IInv' /\ [Next]_vars => [Promise!Next]_(Promise!vars)
  <2> SUFFICES ASSUME IInv, IInv', [Next]_vars PROVE [Promise!Next]_(Promise!vars)
    OBVIOUS
  <2>1. CASE UNCHANGED vars
    BY <2>1 DEF vars, Phase, Owned, Answer
  <2>2. CASE Next
    <3>1. dial' = dial
      BY <2>2 DEF Next, Caller, SetTimeout, Lookup, Socket, ConnectNow, ConnectPending,
        ConnectFails, ReceiveErr, ContextDone, CloseReturns, Drain, NewConn, NewConnFails,
        NextAddress, GiveUp, Goroutine, GrStart, GrGetsockopt, GrGetpeername, GrEvicted,
        GrReady, GrSpurious, Host, Established, Refused, Reset, Environment, Tick, Cancel,
        CloseConn, DropConn, FinalizeNetFD, FinalizeFile, context
    <3>2. CASE dial.sotype = "stream"
      <4>1. Mapped
        BY <2>2, <3>1, <3>2, ResolveMapped, ConnectMapped, SelectMapped, ConnMapped,
           LoopMapped, GoroutineMapped, OutsideMapped, UserMapped, FinalizerMapped
           DEF Next, Caller, Environment
      <4>2. QED
        BY <4>1 DEF Mapped
    <3>3. CASE dial.sotype # "stream"
      BY <3>1, <3>3
    <3>4. QED
      BY <3>2, <3>3
  <2>3. QED
    BY <2>1, <2>2
<1>3. QED
  BY <1>1, <1>2, Invariance, PTL DEF Spec, ImplementsPromise, Promise!Spec
=============================================================================
