------------------------------- MODULE Dialer -------------------------------
(***************************************************************************)
(* One call of Dialer.DialContext, from its arguments to the moment the    *)
(* connection it returned is garbage.                                      *)
(*                                                                         *)
(* Four parties take steps: the caller's goroutine inside DialContext and  *)
(* dialAddr, the goroutine dialAddr starts to wait for an asynchronous     *)
(* connect, the host's TCP (the connection is established, refused, reset) *)
(* and the caller's environment (a timer, a cancellation, the user of the  *)
(* connection, the garbage collector with its finalizers).                 *)
(*                                                                         *)
(* Abstracted: addresses are the numbers 1..n in the order LookupAddress   *)
(* returns them, an error is the name of the call it comes from.  Two      *)
(* branches of the code cannot be taken and have no step: the broadcast    *)
(* option cannot fail (SetSockoptBroadcast switches on the outer err,      *)
(* which is nil), and the switch on Errno(err) in the connect callback     *)
(* always sees success, because err was just compared with nil.            *)
(***************************************************************************)
EXTENDS Integers, Descriptor

CONSTANTS
  N,           \* bound: LookupAddress returns at most N addresses
  SoTypes,     \* the kinds of network dialed: "stream", "dgram", "unixgram"
  Timeouts,    \* values of the field Timeout
  Deadlines,   \* values of the field Deadline, as the time left until then
  NoDeadline   \* the zero time.Time

ASSUME DialerAssumption ==
  /\ N \in Nat \ {0}
  /\ SoTypes \subseteq {"stream", "dgram", "unixgram"}
  /\ Timeouts \subseteq Int
  /\ NoDeadline \notin Int
  /\ Deadlines \subseteq Int \cup {NoDeadline}

VARIABLES
  dial,        \* the arguments: kind of network, Timeout and Deadline
  left,        \* the time left on the context's timer, 0 when there is none
  ctx,         \* "live", or how the context ended
  pc,          \* where the caller's goroutine is
  n,           \* how many addresses were found
  attempt,     \* the address being dialed, 0 before the first
  inProgress,  \* connect said EINPROGRESS
  err,         \* the error of the last failed attempt
  gr,          \* where the connect goroutine is
  gerr,        \* the error it sends on errch
  value,       \* the last SO_ERROR it read
  fds,         \* the descriptor of each attempt
  sk,          \* the host's socket of each attempt
  soerr,       \* the pending SO_ERROR of the current one
  conn         \* what the caller does with the returned connection

vars == <<dial, left, ctx, pc, n, attempt, inProgress, err, gr, gerr, value,
          fds, sk, soerr, conn>>
caller    == <<pc, n, attempt, inProgress, err, conn>>
goroutine == <<gr, gerr, value>>
context   == <<dial, left, ctx>>

Addr     == 1..N
Pcs      == {"entry", "lookup", "socket", "connect", "select", "closing", "drain",
             "conn", "check", "done"}
Grs      == {"none", "start", "callback", "peer", "wait", "send", "exited"}
Errors   == {"nil", "lookup", "socket", "connect", "sockopt", "closed", "context",
             "init", "unsupported"}
SoErrors == {"none", "refused", "reset"}
Sockets  == {"none", "open", "connecting", "established", "refused", "reset",
             "shutdown"}
Fields   == [sotype: SoTypes, timeout: Timeouts, deadline: Deadlines]

Init ==
  /\ dial \in Fields
  /\ left = 0 /\ ctx = "live"
  /\ pc = "entry" /\ n = 0 /\ attempt = 0 /\ inProgress = FALSE
  /\ err = "nil" /\ conn = "none"
  /\ gr = "none" /\ gerr = "nil" /\ value = "none"
  /\ fds = [i \in Addr |-> Unopened]
  /\ sk = [i \in Addr |-> "none"] /\ soerr = "none"

-----------------------------------------------------------------------------
(* The caller's goroutine.                                                 *)

Larger(a, b)  == IF a > b THEN a ELSE b
Smaller(a, b) == IF a < b THEN a ELSE b

\* timeout as Dialer.DialContext computes it.
EffectiveTimeout(timeout, deadline) ==
  IF deadline = NoDeadline
  THEN timeout
  ELSE LET dl == Larger(0, deadline) IN Smaller(Larger(timeout, dl), dl)

\* Dialer.DialContext: a context with a timer, when the timeout is positive.
SetTimeout ==
  /\ pc = "entry"
  /\ left' = Larger(0, EffectiveTimeout(dial.timeout, dial.deadline))
  /\ pc' = "lookup"
  /\ UNCHANGED <<dial, ctx, n, attempt, inProgress, err, conn, fds, sk, soerr,
                 goroutine>>

\* LookupAddress: an error, or at least one address (one for a unix path).
Lookup ==
  /\ pc = "lookup"
  /\ \/ /\ n' \in IF dial.sotype = "unixgram" THEN {1} ELSE Addr
        /\ attempt' = 1
        /\ pc' = "socket"
        /\ UNCHANGED err
     \/ /\ err' = "lookup"
        /\ pc' = "done"
        /\ UNCHANGED <<n, attempt>>
  /\ UNCHANGED <<inProgress, conn, fds, sk, soerr, goroutine, context>>

Socket ==
  /\ pc = "socket"
  /\ \/ /\ fds' = [fds EXCEPT ![attempt] = OpenRaw(@)]
        /\ sk' = [sk EXCEPT ![attempt] = "open"]
        /\ pc' = "connect"
        /\ UNCHANGED err
     \/ /\ err' = "socket"
        /\ pc' = "check"
        /\ UNCHANGED <<fds, sk>>
  /\ UNCHANGED <<n, attempt, inProgress, conn, soerr, goroutine, context>>

\* connect succeeds at once; a datagram socket always does when it does not fail.
ConnectNow ==
  /\ pc = "connect"
  /\ sk' = [sk EXCEPT ![attempt] = "established"]
  /\ fds' = [fds EXCEPT ![attempt] = WrapFile(@)]
  /\ pc' = "conn"
  /\ UNCHANGED <<n, attempt, inProgress, err, conn, soerr, goroutine, context>>

\* EINPROGRESS: the file owns the descriptor, a goroutine waits for it.
ConnectPending ==
  /\ pc = "connect" /\ dial.sotype = "stream"
  /\ sk' = [sk EXCEPT ![attempt] = "connecting"]
  /\ fds' = [fds EXCEPT ![attempt] = WrapFile(@)]
  /\ inProgress' = TRUE
  /\ gr' = "start"
  /\ pc' = "select"
  /\ UNCHANGED <<n, attempt, err, conn, soerr, gerr, value, context>>

\* NetaddrToRaw or Connect fails.  Here and below, CloseRaw on a step that leaves
\* dialAddr is its deferred function, which runs on every return.
ConnectFails ==
  /\ pc = "connect"
  /\ fds' = [fds EXCEPT ![attempt] = CloseRaw(@)]
  /\ err' = "connect"
  /\ pc' = "check"
  /\ UNCHANGED <<n, attempt, inProgress, conn, sk, soerr, goroutine, context>>

\* A RawWrite callback of the connect goroutine has the file locked.
Locked == gr \in {"callback", "peer", "wait"}

\* sconn.Close().
CloseSconn_Syscall(r) == CloseFile(r, FALSE)      \* mutant: syscall.Close(fd)
CloseSconn_Noop(r)    == r                        \* mutant: no call
CloseSconn(r) == CloseFile(r, Locked)

\* select, case err := <-errch.
ReceiveErr ==
  /\ pc = "select" /\ gr = "send"
  /\ gr' = "exited"
  /\ \/ /\ gerr = "nil"
        /\ pc' = "conn"
        /\ UNCHANGED <<err, fds>>
     \/ /\ gerr # "nil"
        /\ fds' = [fds EXCEPT ![attempt] = CloseRaw(CloseSconn(@))]
        /\ err' = gerr
        /\ pc' = "check"
  /\ UNCHANGED <<n, attempt, inProgress, conn, gerr, value, sk, soerr, context>>

\* select, case <-ctx.Done(): sconn.Close is called ...
ContextDone ==
  /\ pc = "select" /\ ctx # "live"
  /\ fds' = [fds EXCEPT ![attempt] = CloseSconn(@)]
  /\ pc' = "closing"
  /\ UNCHANGED <<n, attempt, inProgress, err, conn, sk, soerr, goroutine, context>>

\* ... returns when no callback holds the descriptor any more ...
CloseReturns_NoDrain ==                           \* mutant: no <-errch
  /\ pc = "closing" /\ fds[attempt].file = "closed"
  /\ err' = "context"
  /\ pc' = "check"
  /\ UNCHANGED <<n, attempt, inProgress, conn, fds, sk, soerr, goroutine, context>>

CloseReturns ==
  /\ pc = "closing" /\ fds[attempt].file = "closed"
  /\ pc' = "drain"
  /\ UNCHANGED <<n, attempt, inProgress, err, conn, fds, sk, soerr, goroutine,
                 context>>

\* ... and the goroutine's error is taken and thrown away.
Drain ==
  /\ pc = "drain" /\ gr = "send"
  /\ gr' = "exited"
  /\ fds' = [fds EXCEPT ![attempt] = CloseRaw(@)]
  /\ err' = "context"
  /\ pc' = "check"
  /\ UNCHANGED <<n, attempt, inProgress, conn, gerr, value, sk, soerr, context>>

\* Getpeername succeeds; the callback of the goroutine returns that it did.
Getpeername == sk[attempt] = "established"
CallbackDone_Always == TRUE                       \* mutant: trust SO_ERROR
CallbackDone_Never  == FALSE                      \* mutant: err != nil
CallbackDone == Getpeername

\* wasip1net.Conn: newFileConn makes a netFD of the file, and a net.Conn of that.
NewConn ==
  /\ pc = "conn"
  /\ Getpeername                     \* InitConnection asks for the peer's name
  /\ fds' = [fds EXCEPT ![attempt] = CloseRaw(CopyFile(@))]
  /\ \/ /\ dial.sotype # "unixgram"
        /\ conn' = "held"
        /\ pc' = "done"
        /\ UNCHANGED err
     \/ /\ dial.sotype = "unixgram"  \* newFdConn has no case for it
        /\ err' = "unsupported"
        /\ pc' = "check"
        /\ UNCHANGED conn
  /\ UNCHANGED <<n, attempt, inProgress, sk, soerr, goroutine, context>>

\* The netFD cannot be initialised.  For a stream the deferred sconn.Close runs.
FailedConn_NoDefer(r) == FailedNetFD(r)           \* mutant: no deferred Close
FailedConn(r) ==
  IF dial.sotype = "stream" THEN CloseSconn(FailedNetFD(r)) ELSE FailedNetFD(r)

NewConnFails ==
  /\ pc = "conn"
  /\ fds' = [fds EXCEPT ![attempt] = CloseRaw(FailedConn(@))]
  /\ err' = "init"
  /\ pc' = "check"
  /\ UNCHANGED <<n, attempt, inProgress, conn, sk, soerr, goroutine, context>>

\* DialContext's loop, after an attempt failed.
MoreAddresses_OffByOne       == ctx = "live" /\ attempt <= n
MoreAddresses_IgnoresContext == attempt < n
MoreAddresses == ctx = "live" /\ attempt < n

NextAddress ==
  /\ pc = "check" /\ MoreAddresses
  /\ attempt' = attempt + 1
  /\ pc' = "socket"
  /\ inProgress' = FALSE
  /\ gr' = "none" /\ gerr' = "nil" /\ value' = "none" /\ soerr' = "none"
  /\ UNCHANGED <<n, err, conn, fds, sk, context>>

GiveUp ==
  /\ pc = "check" /\ ~MoreAddresses
  /\ pc' = "done"
  /\ UNCHANGED <<n, attempt, inProgress, err, conn, fds, sk, soerr, goroutine,
                 context>>

Caller ==
  \/ SetTimeout \/ Lookup \/ Socket
  \/ ConnectNow \/ ConnectPending \/ ConnectFails
  \/ ReceiveErr \/ ContextDone \/ CloseReturns \/ Drain
  \/ NewConn \/ NewConnFails
  \/ NextAddress \/ GiveUp

-----------------------------------------------------------------------------
(* The goroutine that waits for an asynchronous connect.                   *)

\* The callback is done or the wait failed: RawWrite lets go of the descriptor.
RawWriteReturns(e) ==
  /\ gr' = "send" /\ gerr' = e
  /\ fds' = [fds EXCEPT ![attempt] = Unlock(@)]

\* rawConn.Write: calls the callback, unless sconn is closed already.
GrStart ==
  /\ gr = "start"
  /\ \/ /\ fds[attempt].file = "open"
        /\ gr' = "callback"
        /\ UNCHANGED <<gerr, fds>>
     \/ /\ fds[attempt].file # "open"
        /\ RawWriteReturns("closed")
  /\ UNCHANGED <<value, caller, context, sk, soerr>>

\* getsockopt(SO_ERROR) fails, or reads and clears the pending error.  The
\* value read decides nothing: the switch that follows is on the call's own error.
GrGetsockopt ==
  /\ gr = "callback"
  /\ \/ /\ value' = soerr /\ soerr' = "none"
        /\ gr' = "peer"
        /\ UNCHANGED <<gerr, fds>>
     \/ /\ RawWriteReturns("sockopt")
        /\ UNCHANGED <<value, soerr>>
  /\ UNCHANGED <<caller, context, sk>>

GrGetpeername ==
  /\ gr = "peer"
  /\ \/ /\ CallbackDone
        /\ RawWriteReturns("nil")
     \/ /\ ~CallbackDone
        /\ gr' = "wait"
        /\ UNCHANGED <<gerr, fds>>
  /\ UNCHANGED <<value, caller, context, sk, soerr>>

\* Close evicted the waiter.
GrEvicted ==
  /\ gr = "wait" /\ fds[attempt].file = "closing"
  /\ RawWriteReturns("closed")
  /\ UNCHANGED <<value, caller, context, sk, soerr>>

\* The poller calls the callback again: the socket is writable (or in error) ...
GrReady ==
  /\ gr = "wait" /\ fds[attempt].file = "open"
  /\ sk[attempt] # "connecting"
  /\ gr' = "callback"
  /\ UNCHANGED <<gerr, value, fds, caller, context, sk, soerr>>

\* ... or for no reason.
GrSpurious ==
  /\ gr = "wait" /\ fds[attempt].file = "open"
  /\ sk[attempt] = "connecting"
  /\ gr' = "callback"
  /\ UNCHANGED <<gerr, value, fds, caller, context, sk, soerr>>

Goroutine == GrStart \/ GrGetsockopt \/ GrGetpeername \/ GrEvicted \/ GrReady

-----------------------------------------------------------------------------
(* The host's TCP, for the socket being dialed or returned.                *)

Established ==
  /\ attempt # 0 /\ sk[attempt] = "connecting"
  /\ sk' = [sk EXCEPT ![attempt] = "established"]
  /\ UNCHANGED <<soerr, fds, caller, goroutine, context>>

Refused ==
  /\ attempt # 0 /\ sk[attempt] = "connecting"
  /\ sk' = [sk EXCEPT ![attempt] = "refused"] /\ soerr' = "refused"
  /\ UNCHANGED <<fds, caller, goroutine, context>>

Reset ==
  /\ attempt # 0 /\ sk[attempt] = "established"
  /\ sk' = [sk EXCEPT ![attempt] = "reset"] /\ soerr' = "reset"
  /\ UNCHANGED <<fds, caller, goroutine, context>>

Host == Established \/ Refused \/ Reset

-----------------------------------------------------------------------------
(* The timer, the caller's context, and the life of the returned net.Conn. *)

Tick ==
  /\ pc \notin {"entry", "done"} /\ ctx = "live" /\ left > 0
  /\ left' = left - 1
  /\ ctx' = IF left = 1 THEN "expired" ELSE "live"
  /\ UNCHANGED <<dial, fds, sk, soerr, caller, goroutine>>

Cancel ==
  /\ pc # "done" /\ ctx = "live"
  /\ ctx' = "cancelled"
  /\ UNCHANGED <<dial, left, fds, sk, soerr, caller, goroutine>>

\* sock_shutdown on the host.  The guest's SHUT_RDWR is 3 and reaches the host as
\* it is; there 0, 1 and 2 are the directions and anything else is EINVAL.
SHUT_RDWR == 3
HostShutdown(s, how) == IF how = 2 /\ s = "established" THEN "shutdown" ELSE s

\* conn.Close: netFD.Close, then the netFD is forgotten.  A second one is EINVAL.
CloseConn ==
  /\ conn = "held"
  /\ conn' = "closed"
  /\ sk' = [sk EXCEPT ![attempt] = HostShutdown(@, SHUT_RDWR)]
  /\ fds' = [fds EXCEPT ![attempt] = CloseCopy(@)]
  /\ UNCHANGED <<pc, n, attempt, inProgress, err, soerr, goroutine, context>>

\* The caller forgets the connection without closing it.
DropConn ==
  /\ conn = "held"
  /\ conn' = "dropped"
  /\ UNCHANGED <<pc, n, attempt, inProgress, err, fds, sk, soerr, goroutine, context>>

\* dialAddr still runs for attempt i.
Running(i) == i = attempt /\ pc \notin {"check", "done"}

\* The file is reachable: from dialAddr, or because a copy points at its count.
Reachable(i) ==
  \/ Running(i)
  \/ i = attempt /\ conn = "held" /\ fds[i].copy = "open"
  \/ fds[i].fin

\* The finalizer of a netFD whose initialisation failed: netFD.Close.
FinalizeNetFD(i) ==
  /\ fds[i].fin /\ ~Running(i)
  /\ sk' = [sk EXCEPT ![i] = HostShutdown(@, SHUT_RDWR)]
  /\ fds' = [fds EXCEPT ![i] = [CloseCopy(@) EXCEPT !.fin = FALSE]]
  /\ UNCHANGED <<soerr, caller, goroutine, context>>

\* The finalizer of an os.File.
FinalizeFile(i) ==
  /\ fds[i].file = "open" /\ ~Reachable(i)
  /\ fds' = [fds EXCEPT ![i] = CloseFile(@, FALSE)]
  /\ UNCHANGED <<sk, soerr, caller, goroutine, context>>

Environment ==
  \/ Tick \/ Cancel \/ CloseConn \/ DropConn
  \/ \E i \in Addr : FinalizeNetFD(i) \/ FinalizeFile(i)

Next == Caller \/ Goroutine \/ GrSpurious \/ Host \/ Environment

Spec == Init /\ [][Next]_vars

\* The scheduler runs both goroutines, the poller reports a socket that became
\* writable, a timer fires.  Nothing is assumed of the peer, the caller, the
\* garbage collector, or of spurious wake-ups.
Fairness == WF_vars(Caller) /\ WF_vars(Goroutine) /\ WF_vars(Tick)

FairSpec == Spec /\ Fairness

-----------------------------------------------------------------------------
(* Properties.                                                             *)

\* Every variable keeps its type: in particular the loop of DialContext never
\* runs past the addresses that LookupAddress returned.
TypeOK ==
  /\ dial \in Fields /\ left \in Nat
  /\ ctx \in {"live", "expired", "cancelled"}
  /\ pc \in Pcs /\ n \in 0..N /\ attempt \in 0..n
  /\ inProgress \in BOOLEAN /\ err \in Errors
  /\ gr \in Grs /\ gerr \in Errors /\ value \in SoErrors
  /\ fds \in [Addr -> Record]
  /\ sk \in [Addr -> Sockets] /\ soerr \in SoErrors
  /\ conn \in {"none", "held", "closed", "dropped"}

\* No descriptor number is given to fd_close twice, whatever the order of the
\* deferred close, sconn.Close, the end of the callback, the user's Close and the
\* two finalizers: a second fd_close could hit a descriptor opened since.
ClosedAtMostOnce == \A i \in Addr : fds[i].closes <= 1

\* The callback of the connect goroutine runs only on a descriptor that is not
\* closed, although dialAddr closes sconn while the callback may be running.
CallbackOwnsDescriptor ==
  gr \in {"callback", "peer"} => fds[attempt].closes = 0

\* The connect goroutine never outlives dialAddr: the unbuffered errch has a
\* receiver on every path, so a dial that returned left no goroutine behind.
NoOrphan == gr \notin {"none", "exited"} => pc \in {"select", "closing", "drain"}

\* Once dialAddr has called sconn.Close it waits only for who can go on: Close for a
\* callback that it has woken or that runs, the receive from errch for a goroutine
\* that is not asleep in the poller any more.
NobodyWaitsInVain ==
  /\ pc = "closing" =>
       fds[attempt].file = "closed" \/ (fds[attempt].file = "closing" /\ Locked)
  /\ pc = "drain" => gr \in {"start", "send"}

\* And it waits only so long: no wake-up, refusal or connection of the host sends the
\* goroutine back, so each of its steps brings the end of the attempt nearer.
Ahead ==
  (CASE gr = "start" -> 4 [] gr = "callback" -> 3 [] gr = "peer" -> 2 [] gr = "wait" -> 1
     [] OTHER -> 0)
    + (IF pc = "closing" THEN 1 ELSE 0)
EndInSight ==
  [][(pc \in {"closing", "drain"} /\ pc' \in {"closing", "drain"})
       => Ahead' < Ahead \/ UNCHANGED <<pc, gr>>]_vars

\* An asynchronous connect goes on to make a net.Conn only if the host did
\* establish the connection, however often and why ever the poller woke up.
ConnectedBeforeConn ==
  pc = "conn" /\ inProgress => sk[attempt] \in {"established", "reset"}

\* The descriptor of a connection that the caller holds is not closed behind its
\* back, neither by dialAddr's deferred calls nor by the collector finding the
\* os.File that sconn named.
HeldConnIsOpen == conn = "held" => fds[attempt].closes = 0

\* A failed attempt keeps no descriptor: a stream's is closed when dialAddr
\* returns, a datagram socket's once its finalizers have run.  That of a unixgram
\* socket is lost: newFdConn drops a netFD that has no finalizer, and with it a
\* reference that nobody gives back.
FailedAttemptKeepsNothing ==
  \A i \in 1..attempt :
    /\ Opened(fds[i])
    /\ ~Running(i) /\ (i = attempt => conn = "none")
    /\ dial.sotype # "unixgram"
    /\ dial.sotype = "stream" \/ ~(fds[i].fin \/ fds[i].file = "open")
    => fds[i].closes = 1

\* The dial as its caller sees it.
Phase ==
  CASE pc \in {"entry", "lookup"} -> "resolving"
    [] pc = "socket" -> "trying"
    [] pc = "check"  -> "between"
    [] pc = "done"   -> "returned"
    [] OTHER         -> "open"

Owned == {i \in Addr : Opened(fds[i]) /\ fds[i].closes = 0}

Answer == IF pc # "done" THEN "none" ELSE IF conn = "none" THEN "error" ELSE "conn"

\* Only a dial of stream sockets makes the promise; another one shows its first state.
Shown(seen, first) == IF dial.sotype = "stream" THEN seen ELSE first

Promise == INSTANCE DialPromise WITH
  phase  <- Shown(Phase, "resolving"), found <- Shown(n, 0),
  tried  <- Shown(attempt, 0),         live  <- Shown(ctx = "live", TRUE),
  owned  <- Shown(Owned, {}),          answer <- Shown(Answer, "none")

\* A stream dial implements its promise: one descriptor at a time, every address
\* tried unless the context ended, an error answer that owns nothing.
ImplementsPromise == Promise!Spec

\* A dial that its Timeout or a Deadline ahead should bound, or whose context has
\* ended, returns: the timer was set from the two fields, dialAddr's sconn.Close reaches
\* the goroutine wherever it is, and errch is received from.
EndedDialReturns ==
  (ctx # "live" \/ (IF dial.deadline = NoDeadline THEN dial.timeout ELSE dial.deadline) > 0)
     ~> pc = "done"

\* dialAddr notices that the host established the connection, unless the peer
\* resets it first.
EstablishedIsNoticed ==
  (pc = "select" /\ sk[attempt] = "established")
     ~> (pc # "select" \/ sk[attempt] = "reset")
=============================================================================
