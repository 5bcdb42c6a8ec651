-------------------------------- MODULE Conn --------------------------------
(***************************************************************************)
(* A stream connection between the side that dialed and the side that      *)
(* accepted.  Either side is a conn of this guest or a program elsewhere,  *)
(* and a guest may hold both.                                              *)
(*                                                                         *)
(* A guest side has a goroutine that reads, one that writes, and one that  *)
(* sets deadlines and closes.  Goroutines of one guest take turns: a call  *)
(* of a host function is one step, and no goroutine runs before the host   *)
(* has returned.  The dialed socket was opened with SOCK_NONBLOCK, the     *)
(* accepted one was not: a call on it keeps the guest waiting in the host. *)
(*                                                                         *)
(* Abstracted: the bytes a side sends are numbered from 1.  A Read that is *)
(* told EAGAIN calls again and changes nothing, which is a stuttering step *)
(* here.  What happens to the descriptor is in Dialer and Listener.        *)
(***************************************************************************)
EXTENDS Integers, Sequences

CONSTANTS
  Guests,      \* which sides may be in the guest
  Total,       \* bytes that a side has to send
  Sizes,       \* sizes of the buffers given to Read and Write
  Capacity,    \* bytes that the host holds on the way to one side
  Deadlines,   \* deadlines set, in microseconds from now, or NoDeadline
  NoDeadline

Sides == {"dialed", "accepted"}
Other(s) == IF s = "dialed" THEN "accepted" ELSE "dialed"

ASSUME ConnAssumption ==
  /\ Guests \subseteq SUBSET Sides
  /\ Total \in Nat /\ Capacity \in Nat /\ Sizes \subseteq Nat
  /\ NoDeadline \notin Int
  /\ Deadlines \subseteq Int \cup {NoDeadline}

VARIABLES
  guest,       \* the sides that are in the guest
  holder,      \* the call that keeps the guest in the host
  stream,      \* bytes on the way to a side
  fin,         \* no more will be put there: the other side has ended
  rst,         \* the other side has reset the connection
  got,         \* bytes that a side has read
  told,        \* how many of its bytes were written, as Write has told it
  asked,       \* the deadlines its user has set
  fd,          \* whether conn.fd is set
  rd,          \* its reading goroutine
  wr,          \* its writing goroutine
  part         \* the write it has in the host

state == <<holder, stream, fin, rst, got, told, asked, fd, rd, wr, part>>
vars   == <<guest, state>>
host   == <<stream, fin, rst>>
reader == <<got, rd>>
writer == <<told, wr, part>>
user   == <<asked, fd>>

Rds  == {"idle", "call", "eof", "error", "panic"}
Wrs  == {"idle", "call", "host", "error"}
Idle == <<"none", "none">>
NoPart == [done |-> 0, left |-> 0]

Init ==
  /\ guest \in Guests
  /\ holder = Idle
  /\ stream = [s \in Sides |-> <<>>]
  /\ fin = [s \in Sides |-> FALSE]
  /\ rst = [s \in Sides |-> "no"]
  /\ got = [s \in Sides |-> <<>>]
  /\ told = [s \in Sides |-> 0]
  /\ asked = [s \in Sides |-> [rcv |-> NoDeadline, snd |-> NoDeadline]]
  /\ fd = [s \in Sides |-> TRUE]
  /\ rd = [s \in Sides |-> "idle"]
  /\ wr = [s \in Sides |-> "idle"]
  /\ part = [s \in Sides |-> NoPart]

-----------------------------------------------------------------------------
(* Deadlines: setDeadlineImpl, SetsockoptTimeval and the host's socket.    *)

Second == 1000000

\* Division that truncates towards zero.
Trunc(a, b) == IF a >= 0 THEN a \div b ELSE -((-a) \div b)
AtLeast0(a) == IF a >= 0 THEN a ELSE 0
AtMost(a, b) == IF a <= b THEN a ELSE b

\* The duration that setDeadlineImpl computes.
Duration(t) == IF t = NoDeadline THEN 0 ELSE IF t = 0 THEN -1 ELSE t

\* Usec is given the milliseconds of the duration's fraction.
Timeval_Rounded(d) ==                                    \* mutant: Round for Truncate
  LET secs == Trunc(d + Second \div 2, Second)
  IN [sec |-> secs, usec |-> AtLeast0(AtMost(Trunc(d - secs * Second, 1000), 999999))]
Timeval(d) ==
  LET secs == Trunc(d, Second)
  IN [sec |-> secs, usec |-> AtLeast0(AtMost(Trunc(d - secs * Second, 1000), 999999))]

\* What the host makes of a timeval: a call that does not wait, one that waits for
\* ever, or one that may time out.
HostWait(tv) ==
  IF tv.sec < 0 THEN "none"
  ELSE IF tv.sec = 0 /\ tv.usec = 0 THEN "forever"
  ELSE "some"

Wait(s, way) == HostWait(Timeval(Duration(asked[s][way])))

-----------------------------------------------------------------------------
(* The guest.                                                              *)

\* A goroutine of side s can run.  A nil dereference has ended the whole program.
Runs(s) == s \in guest /\ holder = Idle /\ \A t \in guest : rd[t] # "panic"

\* unix.Accept sets no O_NONBLOCK.
Blocking_Both(s, way) == Wait(s, way) # "none"   \* mutant: sock_open without SOCK_NONBLOCK
Blocking(s, way) == s = "accepted" /\ Wait(s, way) # "none"

CallRead_Unchecked(s) ==                                 \* mutant: no c.ok()
  /\ Runs(s) /\ rd[s] = "idle"
  /\ rd' = [rd EXCEPT ![s] = IF fd[s] THEN "call" ELSE "panic"]
  /\ UNCHANGED <<holder, host, got, writer, user>>

\* conn.Read begins: c.ok() is checked here and never again.
CallRead(s) ==
  /\ Runs(s) /\ rd[s] = "idle"
  /\ rd' = [rd EXCEPT ![s] = IF fd[s] THEN "call" ELSE "error"]
  /\ UNCHANGED <<holder, host, got, writer, user>>

\* netFD.Read takes what recvmsg returned: n bytes, none of them meaning the end.
TakeBytes_EOFAlways(s, n) ==                             \* mutant: n = 0 not told apart
  /\ got' = [got EXCEPT ![s] = @ \o SubSeq(stream[s], 1, n)]
  /\ rd' = [rd EXCEPT ![s] = IF Len(stream[s]) = n THEN "eof" ELSE "idle"]
TakeBytes(s, n) ==
  /\ got' = [got EXCEPT ![s] = @ \o SubSeq(stream[s], 1, n)]
  /\ rd' = [rd EXCEPT ![s] = IF n = 0 THEN "eof" ELSE "idle"]

\* recvmsg has bytes, the end or an error to return.  conn.Read wraps an error with
\* c.fd.net, and Close has set c.fd to nil if it came in between.
Received(s) ==
  \/ /\ stream[s] # <<>>
     /\ \E size \in Sizes, n \in 0..Len(stream[s]) :
          /\ n <= size /\ (n = 0 => size = 0)
          /\ TakeBytes(s, n)
          /\ stream' = [stream EXCEPT ![s] = SubSeq(@, n + 1, Len(@))]
     /\ UNCHANGED rst
  \/ /\ stream[s] = <<>> /\ (fin[s] \/ rst[s] = "taken")
     /\ TakeBytes(s, 0)
     /\ UNCHANGED <<stream, rst>>
  \/ /\ stream[s] = <<>> /\ rst[s] = "pending"
     /\ rst' = [rst EXCEPT ![s] = "taken"]
     /\ rd' = [rd EXCEPT ![s] = IF fd[s] THEN "error" ELSE "panic"]
     /\ UNCHANGED <<stream, got>>

Receive(s) ==
  /\ rd[s] = "call" /\ (Runs(s) \/ holder = <<s, "read">>)
  /\ Received(s)
  /\ holder' = Idle
  /\ UNCHANGED <<fin, writer, user>>

\* Nothing to receive.  A socket that does not block says EAGAIN, and readone
\* yields and calls again: nothing changes.
HasNothing(s) == stream[s] = <<>> /\ ~fin[s] /\ rst[s] = "no"

Unready_Ends(s) ==                                       \* mutant: EAGAIN ends the loop
  IF Blocking(s, "rcv") THEN holder' = <<s, "read">> /\ UNCHANGED rd
  ELSE rd' = [rd EXCEPT ![s] = "error"] /\ UNCHANGED holder
Unready(s) == Blocking(s, "rcv") /\ holder' = <<s, "read">> /\ UNCHANGED rd

AwaitData(s) ==
  /\ Runs(s) /\ rd[s] = "call"
  /\ HasNothing(s)
  /\ Unready(s)
  /\ UNCHANGED <<host, got, writer, user>>

\* SO_RCVTIMEO, or a signal, ends the wait: readone yields and calls again.
StopWaiting(s) ==
  /\ holder = <<s, "read">> /\ HasNothing(s) /\ Wait(s, "rcv") = "some"
  /\ holder' = Idle
  /\ UNCHANGED <<host, reader, writer, user>>

-----------------------------------------------------------------------------
\* conn.Write begins; it runs without a pause until the host is called.
CallWrite(s) ==
  /\ Runs(s) /\ wr[s] = "idle"
  /\ told[s] < Total
  /\ wr' = [wr EXCEPT ![s] = "call"]
  /\ UNCHANGED <<holder, host, reader, told, part, user>>

Broken(s) == rst[s] # "no" \/ fin[Other(s)]
Room(s) == Capacity - Len(stream[Other(s)])

\* The bytes that follow the first n that s has sent.
Bytes(n, m) == [i \in 1..m |-> n + i]

\* Write returns an error; sendmsg takes the error of a reset, Write of a closed
\* conn is EINVAL.
WriteFails(s) ==
  /\ wr' = [wr EXCEPT ![s] = "error"]
  /\ part' = [part EXCEPT ![s] = NoPart]
  /\ rst' = [rst EXCEPT ![s] = IF @ = "no" \/ ~fd[s] THEN @ ELSE "taken"]
  /\ holder' = Idle
  /\ UNCHANGED told

\* Write returns the count n without an error.
WriteReturns_Twice(s, n, size) ==                        \* mutant: what was done counts twice
  /\ told' = [told EXCEPT ![s] = @ + n + part[s].done]
  /\ wr' = [wr EXCEPT ![s] = "idle"]
  /\ part' = [part EXCEPT ![s] = NoPart]
WriteReturns_Whole(s, n, size) ==                        \* mutant: n is not looked at
  /\ told' = [told EXCEPT ![s] = @ + size]
  /\ wr' = [wr EXCEPT ![s] = "idle"]
  /\ part' = [part EXCEPT ![s] = NoPart]
WriteReturns(s, n, size) ==
  /\ told' = [told EXCEPT ![s] = @ + n]
  /\ wr' = [wr EXCEPT ![s] = "idle"]
  /\ part' = [part EXCEPT ![s] = NoPart]

\* One sendmsg on a socket that does not block: as much as there is room for, or
\* EAGAIN, which Write does not retry.
SendNow(s, size) ==
  /\ ~Blocking(s, "snd") /\ ~Broken(s) /\ fd[s]
  /\ IF Room(s) <= 0
     THEN WriteFails(s) /\ UNCHANGED stream
     ELSE \E n \in 1..AtMost(size, Room(s)) :
            /\ stream' = [stream EXCEPT ![Other(s)] = @ \o Bytes(told[s], n)]
            /\ WriteReturns(s, n, size)
            /\ UNCHANGED <<holder, rst>>

\* One sendmsg on a socket that blocks: it returns when the host has all the bytes.
SendAll(s, size) ==
  /\ Blocking(s, "snd") /\ ~Broken(s) /\ fd[s]
  /\ wr' = [wr EXCEPT ![s] = "host"]
  /\ part' = [part EXCEPT ![s] = [done |-> 0, left |-> size]]
  /\ holder' = <<s, "write">>
  /\ UNCHANGED <<stream, rst, told>>

Write(s) ==
  /\ Runs(s) /\ wr[s] = "call"
  /\ \/ \E size \in Sizes \ {0} :
          /\ told[s] + size <= Total
          /\ SendNow(s, size) \/ SendAll(s, size)
     \/ (Broken(s) \/ ~fd[s]) /\ WriteFails(s) /\ UNCHANGED stream
  /\ UNCHANGED <<fin, reader, user>>

\* The host takes more bytes of a write that it holds.
SendMore(s) ==
  /\ holder = <<s, "write">> /\ part[s].left > 0 /\ ~Broken(s)
  /\ \E n \in 1..AtMost(part[s].left, Room(s)) :
       /\ stream' = [stream EXCEPT ![Other(s)] = @ \o Bytes(told[s] + part[s].done, n)]
       /\ part' = [part EXCEPT ![s] = [done |-> @.done + n, left |-> @.left - n]]
  /\ UNCHANGED <<holder, fin, rst, reader, told, wr, user>>

\* It returns: all bytes taken, or stopped after some of them.
SendReturns(s) ==
  /\ holder = <<s, "write">> /\ part[s].done > 0
  /\ WriteReturns(s, part[s].done, part[s].done + part[s].left)
  /\ holder' = Idle
  /\ UNCHANGED <<host, reader, user>>

\* It returns an error: broken, or timed out before the first byte.
SendFails(s) ==
  /\ holder = <<s, "write">> /\ part[s].done = 0
  /\ Broken(s) \/ Wait(s, "snd") = "some"
  /\ WriteFails(s)
  /\ UNCHANGED <<stream, fin, reader, user>>

-----------------------------------------------------------------------------
\* SetDeadline, SetReadDeadline and SetWriteDeadline.
SetDeadline(s) ==
  /\ Runs(s) /\ fd[s]
  /\ \E t \in Deadlines :
       asked' = [asked EXCEPT ![s].rcv = t] \/ asked' = [asked EXCEPT ![s].snd = t]
         \/ asked' = [asked EXCEPT ![s] = [rcv |-> t, snd |-> t]]
  /\ UNCHANGED <<holder, host, reader, writer, fd>>

\* The directions that the host's shutdown ends; 3, the guest's SHUT_RDWR, is EINVAL.
SHUT_RDWR == 3
Directions(how) ==
  CASE how = 0 -> {"read"} [] how = 1 -> {"write"} [] how = 2 -> {"read", "write"}
    [] OTHER -> {}

\* conn.Close: a shutdown on the host, then c.fd = nil.
Close(s) ==
  /\ Runs(s) /\ fd[s]
  /\ LET ways == Directions(SHUT_RDWR) IN
       fin' = [t \in Sides |-> fin[t] \/ (t = s /\ "read" \in ways)
                                      \/ (t = Other(s) /\ "write" \in ways)]
  /\ fd' = [fd EXCEPT ![s] = FALSE]
  /\ UNCHANGED <<holder, stream, rst, reader, writer, asked>>

-----------------------------------------------------------------------------
(* A side elsewhere.                                                       *)

Elsewhere(s) == s \notin guest /\ rst[Other(s)] = "no"

PeerSend(s) ==
  /\ Elsewhere(s) /\ ~fin[Other(s)]
  /\ told[s] < Total /\ Room(s) > 0
  /\ stream' = [stream EXCEPT ![Other(s)] = @ \o Bytes(told[s], 1)]
  /\ told' = [told EXCEPT ![s] = @ + 1]
  /\ UNCHANGED <<holder, fin, rst, reader, wr, part, user>>

PeerReceive(s) ==
  /\ Elsewhere(s) /\ stream[s] # <<>>
  /\ got' = [got EXCEPT ![s] = Append(@, Head(stream[s]))]
  /\ stream' = [stream EXCEPT ![s] = Tail(@)]
  /\ UNCHANGED <<holder, fin, rst, rd, writer, user>>

PeerEnd(s) ==
  /\ Elsewhere(s)
  /\ fin' = [fin EXCEPT ![Other(s)] = TRUE]
  /\ UNCHANGED <<holder, stream, rst, reader, writer, user>>

PeerReset(s) ==
  /\ Elsewhere(s)
  /\ rst' = [rst EXCEPT ![Other(s)] = "pending"]
  /\ UNCHANGED <<holder, stream, fin, reader, writer, user>>

-----------------------------------------------------------------------------
Reads(s)  == CallRead(s) \/ Receive(s) \/ AwaitData(s)
Writes(s) == CallWrite(s) \/ Write(s)
InHost(s) == StopWaiting(s) \/ SendMore(s) \/ SendReturns(s) \/ SendFails(s)
Peer(s)   == PeerSend(s) \/ PeerReceive(s) \/ PeerEnd(s) \/ PeerReset(s)

Next ==
  /\ UNCHANGED guest
  /\ \E s \in Sides :
       Reads(s) \/ Writes(s) \/ InHost(s) \/ SetDeadline(s) \/ Close(s) \/ Peer(s)

Spec == Init /\ [][Next]_vars

\* Go's scheduler runs a goroutine that can run, readone yields between two calls,
\* and the host moves a call that it holds as soon as it can.  Nothing is assumed of
\* a side elsewhere, or of who sets deadlines and closes.
\* It does assume that a guest side reads again after each Read.
Fairness == \A s \in Sides : WF_state(Reads(s)) /\ WF_state(Write(s)) /\ WF_state(InHost(s))

FairSpec == Spec /\ Fairness

-----------------------------------------------------------------------------
(* Properties.                                                             *)

\* Every variable keeps its type: in particular the host never holds more than its
\* capacity, and only one call of one guest side is ever in the host.
TypeOK ==
  /\ guest \in Guests
  /\ holder \in {Idle} \cup (guest \X {"read", "write"})
  /\ stream \in [Sides -> Seq(1..Total)] /\ \A s \in Sides : Len(stream[s]) <= Capacity
  /\ fin \in [Sides -> BOOLEAN] /\ rst \in [Sides -> {"no", "pending", "taken"}]
  /\ got \in [Sides -> Seq(1..Total)] /\ told \in [Sides -> 0..Total]
  /\ asked \in [Sides -> [rcv: Deadlines \cup {NoDeadline}, snd: Deadlines \cup {NoDeadline}]]
  /\ fd \in [Sides -> BOOLEAN] /\ rd \in [Sides -> Rds] /\ wr \in [Sides -> Wrs]
  /\ part \in [Sides -> [done: 0..Total, left: 0..Total]]

\* What a side has read and what is on the way to it are the bytes that the other
\* side's Write calls said they wrote, and those of a write in the host, in order:
\* short counts, interrupted waits, EAGAIN and Close lose and repeat nothing.
InOrder ==
  \A s \in Sides :
    got[s] \o stream[s] = Bytes(0, told[Other(s)] + part[Other(s)].done)

\* A deadline of at least a millisecond makes the host wait, and not for longer; the
\* fraction of a second is cut to less of it, never dropped to "for ever".
DeadlineBoundsWait ==
  \A s \in Sides, way \in {"rcv", "snd"} :
    asked[s][way] # NoDeadline /\ asked[s][way] >= 1000 =>
      LET tv == Timeval(Duration(asked[s][way])) IN
      /\ HostWait(tv) = "some" /\ tv.sec * Second + tv.usec <= asked[s][way]

\* A nil dereference needs the peer as well as the user: Close alone, however it falls
\* into a Read, ends no guest; it takes a reset too, which that Read has to report.
PanicNeedsCloseAndReset ==
  \A s \in Sides : rd[s] = "panic" => s \in guest /\ ~fd[s] /\ rst[s] = "taken"

\* The connection is a byte stream: a Read sees the bytes once and in order, and the
\* end of file only after all of them and when the other side has ended.
Stream ==
  INSTANCE ByteStream WITH
    sent  <- [s \in Sides |-> Len(got[Other(s)]) + Len(stream[Other(s)])],
    rcvd  <- got,
    ended <- [s \in Sides |-> fin[Other(s)] \/ rst[Other(s)] # "no"],
    eof   <- [s \in Sides |-> rd[s] = "eof"]

ImplementsStream == Stream!Spec

\* A reader that spins on EAGAIN gets every byte that was sent to it.
EveryByteIsRead ==
  \A s \in Sides, n \in 1..Total :
    guest = {"dialed"} /\ s \in guest /\ told[Other(s)] >= n
      ~> Len(got[s]) >= n \/ ~fd[s] \/ rd[s] = "panic"

\* A Write returns, also beside a Read that waits for a silent peer.
WriteReturnsSoon ==
  \A s \in Sides :
    guest = {"dialed"} /\ wr[s] = "call" ~> wr[s] \in {"idle", "error"} \/ rd[s] = "panic"
=============================================================================
