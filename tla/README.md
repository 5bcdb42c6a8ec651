# wasinet in TLA+

wasinet gives Go programs compiled to `wasip1` the sockets that the standard
library lacks there. A guest-side library (`src/wasinet`) imports a dozen
`sock_*` functions; `wnetruntime` implements them on the host; `wazeronet` exports
them to the wazero runtime. This directory holds TLA+ models of the parts that keep
state across calls, TLC configurations that check them on small instances, and
TLAPS proofs of the properties that matter most.

## The system

    caller ── Dialer / Listener ── wasip1net (netFD, conn) ── wasip1syscall ──┐ guest
                    │                     │                                   │
                    └── os.File, poller ──┘ (Go's own wasip1 runtime)         │ sock_*
                                                                              ▼
                     host socket ◄── wnetruntime.network ◄── wnetruntime host functions

| Component | Source (under `src/wasinet`) | State | Operations | What is hard |
|---|---|---|---|---|
| Dialer | `dialer.go` | the local `fd`, `sconn`, a goroutine and its `errch`, a context | `DialContext`, `dialAddr` | a goroutine and a select race a timer; four owners of one descriptor; errors of an asynchronous connect |
| Listener | `listener.go` | the local `fd` | `Listen`, `ListenPacket` | who closes the descriptor when a late step fails |
| netFD and connections | `stdlib/wasip1net/fd.wasip1.go`, `conn.wasip1.go`, `wasinetunsafe.wasip1.go` | `sysfd` beside a reference-counted `pfd`; `disconnected`; addresses; a finalizer | init, accept, Read, Write, Close, deadlines, half-close | calls on `sysfd` race Close; spinning reads; deadlines as socket options |
| Packet connections | `conn.wasip1.udp.go`, `conn.packet.wasip1.go` | the netFD; `disconnected` | four reads, five writes, deadlines, `Close` | connected or not, after Close too; an address that cannot be decoded after the datagram was taken |
| Guest socket calls | `stdlib/wasip1syscall/fd.go` | none | one wrapper per host function, socket options | units and rounding of a timeval; errors hidden by a shadowed variable |
| Address codec | `stdlib/wasip1syscall/wasip1syscall.go`, `addr.go`, `wasip1.syscall.native.address.go`, `wasip1.syscall.linux.go` | none | guest address to raw, raw to host address, and back | families, 4-in-6 addresses, unix names at the size of the buffer |
| Name resolution | `stdlib/wasip1syscall/dns.go`, host side in `wasinet.host.go` | none | `LookupAddress`, `ResolveAddrip`, `ResolvePort` | more answers than the buffer holds |
| Errno translation | `ffierrors`, `wasierrno.go`, `wasinet.unix.go` | a table | host errno to WASI errno to guest error | host errnos without an entry |
| Host functions | `wnetruntime/wasinet.host.go` | the host's sockets, guest memory | one per `sock_*` import | an effect on the host followed by a failing write to guest memory |
| Host network | `wnetruntime/wasinet.go` | path remapping | socket calls on the host | bind and connect disagreeing about a path; prefixes of bytes that are no directories |
| Zone cache | `stdlib/wasip1net/zonecache.go` | two maps, a timestamp, a lock | lookups that refresh a stale cache | a stale entry when interfaces change |
| Memory access, wazero binding, hijack, debug, stubs | `ffi*`, `src/wazeronet`, `autohijack`, `netx`, `internal` | none | forwarding, pointers, formatting | nothing that a state machine shows |

Two facts about the platform shape everything. The guest is cooperative: one
goroutine runs at a time, but it can be preempted at every blocking operation and at
`Gosched`, so steps of goroutines interleave at host calls, channel operations and
locks. And the host's sockets are not in wazero's descriptor table: `sock_open`
returns the host's own number, while `fd_close` and the poller work on wazero's
table, and there is no `sock_close`.

What makes each part correct: a descriptor has one owner at a time and is closed
once (Dialer, Listener, netFD); a dial or an accept ends when its context or its
listener does; a connection delivers the peer's bytes in order and an end of file
only when there is one; a deadline bounds a call; an address survives the trip to
the host and back; a datagram is taken once and goes to whom it was given; a host
function that reports success has told the guest all it did, one whose inputs cannot be
read has done nothing, and an error number means on the guest's side what it meant on
the host's; a name that the guest dials means on the host what the one that its listener bound does.

## Modules

| Module | Models |
|---|---|
| `Descriptor` | The owners of one descriptor number: the variable `fd` with its deferred `syscall.Close`, the `*os.File` of `wasip1net.Socket`, the `poll.FD` copy in a netFD, the netFD's finalizer, and how many times `fd_close` was called. Operators only; no state. |
| `Dialer` | `Dialer.DialContext`, `DialContext`, `dialAddr`, the connect goroutine, the host's TCP, the timer, cancellation, `conn.Close` and the finalizers. |
| `DialPromise` | What a dial promises, without sockets, goroutine and timer. `Dialer` implements it. |
| `Listener` | `Listen`, `ListenPacket` (`listenAddr`, `listenPacketAddr`), the accept loops, the peers in the host's queue, `Close` of the listener and of accepted connections, the finalizers. |
| `AcceptPromise` | What a listener promises, without the listening socket, the spinning and the finalizers: who is served, in which order, and what stays open. `Listener` implements it. |
| `Conn` | A stream connection between the side that dialed and the side that accepted: `Read`, `Write`, the deadlines and `Close` of `conn` and `netFD`, the host's sockets, a peer elsewhere or in the same guest. |
| `ByteStream` | What a stream connection promises its two sides. `Conn` implements it. |
| `Address` | The codecs: a `net.Addr` or `netip.AddrPort` to a raw address, raw to a `unix.Sockaddr` of the host, and both ways back. Operators only. |
| `Errno` | The host's numbers, the guest's, the table between them, and what is made of a Go error that is no number. Operators only. |
| `PacketConn` | A datagram socket: a dialed `UDPConn`, or the `packetConn` of `ListenPacket` on UDP or unixgram; its readers, its writes, deadlines and `Close`, and the host's queue. Uses `Address`. |
| `HostCall` | The host functions: each call by the guest as one step, from the wrapper through guest memory and codec to the host's sockets and back. Uses `Address` and `Errno`. |
| `MCDialer`, `MCListener`, `MCConn`, `MCPacketConn`, `MCHostCall` | The instances for TLC and the statements of the sources that the code does not keep. |
| `DescriptorProofs`, `DialerProofs`, `DialPromiseProofs`, `ListenerProofs`, `ConnProofs`, `PacketConnProofs`, `HostCallProofs`, `HostNameProofs` | The theorems. |

`Dialer` and `Listener` do not interact inside one guest except through the host: both
are built from `Descriptor`, whose operators say what happens to the descriptor they
share with their finalizers. `Conn` begins where they end, with a connection on each
side, and leaves descriptors to them. `HostCall` is the layer below all of them: the
others state what a host call answers where they need it, `HostCall` what it does to
the host's sockets and to what the guest knows of them.

### Dialer and the code

`pc` is the place of the caller's goroutine: `entry` (`dialer.go:40`), `lookup`
(82), `socket` (109-115), `connect` (131-137), `select` (202), `closing` (inside
`sconn.Close`, 211), `drain` (214), `conn` (inside `wasip1net.Conn`, 151, 165 and
219), `check` (94, after `dialAddr` returned an error) and `done`. `gr` is the place
of the goroutine of lines 174-200: `start`, `callback` (before `GetSockoptInt`),
`peer` (before `Getpeername`), `wait` (in the poller, after the callback returned
false), `send` (at `errch <-`), `exited`. `fds[i]` is the descriptor of the i-th
address, `sk[i]` the host's socket behind it.

A step of the model is a stretch of code between two points where another goroutine
or the host can act: `ConnectPending`, for example, is the code from `NetaddrToRaw`
to the `go` statement. Deferred functions are part of the step that returns. The
file's lock is what `os.File.Close` waits for: while a callback runs or waits
(`Locked`), `sconn.Close` makes the file `closing`, evicts the waiter, and returns
once `RawWriteReturns` has dropped the lock.

Two branches of the code cannot be taken and have no step: `SetSockoptBroadcast`
switches on the outer `err`, which is nil, so it never fails; and the `switch` on
`Errno(err)` in the callback comes after `err != nil` was excluded, so it always
takes its success branch.

### Listener and the code

`pc` is the place of the call: `socket` (before `wasip1syscall.Socket`,
`listener.go:62` and 98), `bind` (66-78, 102-112), `listen` (79), `wrap` (83-84 and
113-114) and `done`. `lfd` is the descriptor, with the owners of `Descriptor`, and
`lsk` the host's socket behind it. `apc[a]` is the place of an acceptor: `idle`
(outside Accept), `accept` (inside `acceptone`, `fd.wasip1.go:132-146`) and `init`
(148-167, the connection is accepted but `InitConnection` has not returned).
`conn[p]` is what became of the connection of peer p: `queued` on the host,
`accepting`, `held` by the user, `closed` or `dropped` by the user, `refused` by a
failing init. `cfd[p]` is its descriptor; an accepted connection's `pfd` is the file's
own, with no copy beside it.

`waiting` is the connection whose Read (or Write) is inside the host: an accepted socket
blocks (`Conn` has the reason), so while one is there nothing of the guest moves
(`Thread`), be it an acceptor, a call of the user or a finalizer; only the peer ends the
wait (`PeerAnswers`). `wasinet_test.go:37-48` reads so from each connection it accepts.

The host's accept does not block: it returns EAGAIN on an empty queue, `acceptone`
yields and calls again. It returns EINVAL on a socket that was shut down, and EINTR or
EMFILE at any time. `Close` of the listener releases the copy in the netFD; the
`os.File` of `wasip1net.Socket` is never closed by name and keeps the number until the
collector runs its finalizer. `SetReuseAddress` returns an error through a shadowed
variable, so the branch that handles it cannot be taken and has no step.

### Conn and the code

`guest` says which sides are in the guest: one, the other or both. A side of the guest
has a reading goroutine (`rd`), a writing one (`wr`) and a user that sets deadlines and
closes; a side elsewhere is the four `Peer` actions. `rd[s]` is `call` while the
goroutine is in the loop of `netFD.Read` (`fd.wasip1.go:210-223`); `wr[s]` is `call`
between the user's decision and the host call, and `host` while the host holds the call.

A guest has one thread, so `holder` is the call that keeps it inside the host: while it
is set no goroutine of the guest takes a step (`Runs`). Only calls on an accepted side
get there (`Blocking`): `network.Open` sets `SOCK_NONBLOCK`, `network.Accept`
(`wasinet.go:137-140`) does not. On the dialed side an empty receive queue is EAGAIN,
`Gosched` and another call, which changes nothing and is a stuttering step; `Receive` is
the call that returned something.

`stream[s]` is what is on the way to side s, `got[s]` what its Reads returned, `told[s]`
the sum of the counts its Writes returned, `part[s]` the write that the host holds: how
much it took and how much is left. Bytes are numbered, so that a lost, repeated or
reordered one shows. `fin[s]` and `rst[s]` are the other side's end and reset as the
host of s knows them; a pending reset is reported once (`pending`, then `taken`), to
whichever goroutine calls first.

`asked[s]` is the deadline the user set, in microseconds from now; `Timeval` computes
what `SetsockoptTimeval` sends for it, milliseconds in the field of microseconds
included, and `HostWait` what Linux makes of it: a negative second does not wait, zero
is for ever. `Close` shuts nothing down, because the host rejects the guest's
`SHUT_RDWR`, and sets `fd[s]` to FALSE; a Read in progress goes on with the host's
socket, and when it has an error to wrap dereferences the nil `c.fd` (`panic`).

### PacketConn and the code

`kind` says which socket it is: `udp` is the `UDPConn` that `DialContext` returns,
`packet` and `unixgram` are what `ListenPacket` returns. `rd[r]` is a reader between its
call and its return; a read that finds nothing yields (`fd.wasip1.go:266-281`), so
`Arrive`, writes and `Close` come between. A write has no pause and is one step.
`inbox` is the host's queue; `arrived` and `taken` remember what came and what a read
took. `sent` records for each datagram the address that the caller gave (`asked`) and
the one that the host read (`to`): between them lie `NetaddrToRaw` or
`NetipAddrPortToRaw` with the socket's family, and `UnixSockaddr` on the host. `refused`
is an ICMP error that waits on the socket and ends whichever call comes first.

`SourceWritten` is what `SocketRecvFrom` writes for the sender: the bytes of a pointer,
whose first two are no family (`PointerFamily`). That is why every read that has an
address to decode ends with ENOTSUP, its datagram gone, and why the five writes matter
more than the four reads. After `Close`, `fd` is nil and `disconnected` is set: writes
of a `UDPConn` answer EINVAL, while a `packetConn`, and the wrapping of an error that a
`UDPConn` read meets, dereference nil (`panic`). `PanicNeedsClose` says exactly which calls
get there: on a `UDPConn` a read that waited when `Close` came, since every call begins with
`c.ok()`; on a `packetConn` one that was made after `Close`, and no read that waited.
A nil `*net.UDPAddr` is `NoAddr`: each write has its own way with it, and that of a
`packetConn` encodes it as sixteen zero bytes and port 0, which the host refuses.

### HostCall and the code

One action is one `sock_*` import: the guest's wrapper (`wasip1syscall/fd.go`, `dns.go`),
the host function (`wasinet.host.go`) and the method of `network` below it
(`wasinet.go`, `wasinet.unix.go`, `wasinet.linux.go`). A guest has one thread and a host function runs to
its end, so nothing comes between. `sock` is the host's table of sockets, `known` the
descriptors that the guest was told, `user` what it asked to bind and to connect. The
last call is in `call`: what the host made of it (`host`), the number that the guest got
(`told`), an address and a count that it got (`addr`, `n`), and how much there was
(`moved`). `bad` is the set of regions of the call that lie outside the guest's memory;
every access to one fails at the place where the code makes it: before the system call
for inputs (`Refuse`), after it for results (`ReplyWith`, `Answered`). `build` is
`native` when the program is not a guest and the same wrappers call the functions of
`wasip1.syscall.linux.go` in their own process.

A unix name is the sequence of its bytes. `Remap` folds the prefixes as `fsremap.Remap`
does, with `strings.HasPrefix` on bytes (`IsPrefix`), so that a prefix may end inside an
element, and joins what is left to the host's directory as `filepath.Join` does: slashes
that follow one another become one and the last one goes (`Clean`). `Bind` takes a name as
it is, `Connect` remaps it (`Target`). For port 0 `SocketBind` gives the socket one of
the ports that nobody has (`FreeNames`), and a socket bound to no particular address takes
what is sent to any (`Meets`). The errors of the host include those of a path, EROFS among
them.

`Told` is `TranslateErrno`, except where the code returns a number of its own
(`Untranslated`). `Namesakes(e)` are the errors of the host that the table lacks and
whose number is the guest's number of e. `Ends` leaves out calls that would wait inside the
host, which `Conn` is about. A lookup is written as the host function does, sixteen bytes an
address and no more than fit (`Written`), with the number of bytes beside it (`Bytes`), and
read as the wrapper does, from byte 0 on while the index is below that number (`Walk`).

## Runs

The `dial_` runs use `MCDialer`, the `listen_` runs `MCListener`, the `conn_` runs
`MCConn`, the `packet` runs `MCPacketConn`, and `host_calls` uses `MCHostCall`. A dial or a
listener stops when it has answered and what it made is gone, a connection when both
sides have ended, and the bounded sequences of datagrams and calls at their bounds, so
deadlock is not checked; `NobodyWaitsInVain`, `EndedDialReturns`, `QueueIsServed`,
`EveryByteIsRead` and `WriteReturnsSoon` say where stopping would be wrong.

| Run | Bounds | States | Shows |
|---|---|---|---|
| `dial_safety` | 3 addresses, all kinds, every timeout and deadline, fair | 1,021,754 | the type invariant, the six safety properties of `Dialer` about descriptors and connections, `NobodyWaitsInVain` and `EndInSight` (after `sconn.Close` dialAddr waits for somebody who can go on, and each step brings its end nearer), `EndedDialReturns`, `EstablishedIsNoticed`, and `ImplementsPromise` for stream sockets |
| `dial_refused` | as in the cfg, fair | | violated: a refused connect is never noticed |
| `listen_safety` | 2 acceptors, 3 peers, backlog 2, both calls, a Read that waits in the host at any time, fair | 49,912 | the type invariant, `ClosedAtMostOnce`, `HeldIsOpen`, `EachInOnePlace`, `FailedListenKeepsNothing`, `ImplementsAcceptPromise`, `QueueIsServed` |
| `listen_twice` | 1 acceptor, 1 peer | | violated: a Listen that fails in its last step closes the number twice |
| `listen_close` | 1 acceptor, 1 peer, fair | | violated: Close of the listener does not end an Accept |
| `conn_safety` | 2 bytes each way, buffers of 1 and 2, capacity 1, guest on either side or both, no deadline or one of 2.5 s, fair | 82,964 | the type invariant, `InOrder`, `DeadlineBoundsWait`, `PanicNeedsCloseAndReset`, `ImplementsStream`, `EveryByteIsRead`, `WriteReturnsSoon` |
| `conn_self` | guest on both sides, fair | | violated: a Read on an accepted connection stops the guest that should write to it |
| `conn_panic` | 1 byte | | violated: a Read dereferences nil after Close |
| `conn_expired` | 1 byte, guest accepted, deadlines of now and of 2.5 s, fair | | violated: a Read outlives its deadline, held in the host or again and again |
| `packet` | all kinds, 2 readers, an IPv4 address in both forms and an IPv6 one, sizes 0 and 1, 2 datagrams each way | 336,933 | the type invariant, `EachTakenOnce`, `SentAsAsked`, `OnlyToPeer`, `PanicNeedsClose` |
| `packet_sender` | as in the cfg | | violated: a datagram is returned with an error instead of its sender |
| `host_calls` | 3 sockets of one family, in a guest and native, nested prefixes, names inside them, beside them and one byte too long, ports asked for and picked, backlog 1, one byte of room, 3 addresses for a buffer of 2 | 941,619 | the type invariant, `BranchMeansItsError`, `SuccessIsWhole`, `BoundNameIsKept`, `DialReachesItsName`, `DialMeetsItsBinder`, `EndsNameEachOther`, `LookupKeepsOrder`, `InputsFirst` |

Two addresses would do for what passes from one attempt to the next (a leftover
file, a finalizer that runs during the second attempt, the loop's end); with three there
is an attempt that is neither the first nor the last. The timer counts
to two, so that it can run out before, during and after an attempt's select, and
deadlines reach from the past to beyond the timeout. Nothing else is bounded: the
poller may wake the goroutine any number of times. Three peers and a backlog of two
fill the queue and leave one peer outside it, and two acceptors race for its head; a
peer connects once, which bounds the run. A capacity of one under buffers of two makes
every write of two bytes short, interrupted or spread over several steps of the host, and
two bytes are what it takes to tell an order; the proofs remove these bounds.

Two datagrams and two readers are what it takes to take them in the wrong order or
twice; sizes of zero and one are an empty datagram, one that fits a buffer and one that
does not. Three host sockets are a listener, a connection and the socket that Accept
makes, with a fourth call of `sock_open` or `sock_accept` failing for want of a number. A
name is cut at seven bytes (`NameBuf`; 122 in the code, the 126 of `Addr` less the four of
the family and the type that `addressany` copies before it) and refused at seven (`SunPath`, the host's
108), so a longer name meets both; the prefixes are `/t` and `/t/i`, the names that are dialed lie
inside each, outside both, and, as `/ta/`, outside but begun by `/t`. There is a port for
each socket that asks for port 0: it gets one that nobody has (`GivenName`; which one is left to CHOOSE,
since nothing tells them apart), and 101, where TLC's choice begins, is among those dialed. `HostCall` has two reductions of its own, both in `Next`: nothing
follows a call that changed nothing (`Changing`), since whatever could follow it could have come in
its place, and options and lookups, which read no socket's state, are tried once each on a new
socket or before the first.

### Fairness

`FairSpec` assumes weak fairness of the caller's goroutine as a whole, of the connect
goroutine as a whole and of the timer: Go's scheduler runs a goroutine that can run,
the poller reports a socket that became writable, `context.WithTimeout` fires. It
assumes nothing of the host's TCP, of cancellation, of the user, of the collector, or
of spurious wake-ups, which are a disjunct of their own for this reason.

The listener's `FairSpec` assumes weak fairness of each acceptor while the guest's thread is
not held in the host: its loop calls Accept again, an accept that has something to return
returns it, `InitConnection` ends. `acceptone` yields between two calls, and Go's scheduler
gives every goroutine a turn, but it cannot take the thread from a blocking `recvmsg`
on an accepted connection; so nothing is assumed of that wait, `QueueIsServed` speaks of behaviours in
which there is none from some point on, and one connection read for ever may leave the queue unserved. Nothing
is assumed of peers, of the user, of the collector, or that EINTR or EMFILE happen.

The connection's `FairSpec` assumes weak fairness of a side's reading goroutine, whose
user reads again after each Read, of a Write that has begun, and of the host for a call
that it holds. It assumes nothing of the peer, of who sets deadlines and closes, or that
anybody begins a Write. `EveryByteIsRead` and `WriteReturnsSoon` are about the dialed side
of a guest that holds one side: `conn_self` shows why the accepted side has no such
property. `PacketConn` and `HostCall` state no fairness: a guest calls or does not.

### Findings

Each violated run refutes what the repository says (quoted in `PROJECT.json`):

- `dial_refused`: the connect callback drops the value of `SO_ERROR`.
- `listen_twice`: `Listen` closes its number both through the file and by the deferred
  call when a step after `wasip1net.Socket` fails, because `fd = -1` comes last.
- `listen_close`: `Close` hands the guest's `SHUT_RDWR` (3) to the host's `shutdown`,
  where it is invalid, and no call closes a host socket: the host's socket goes on
  listening and an Accept in progress spins for ever (with the host's value, 2, the run
  finds no violation).
- `conn_self`: an accepted socket blocks the whole guest (with `Blocking` false the
  run finds no violation).
- `conn_panic`: Close during a Read can end in a nil dereference; `PanicNeedsCloseAndReset`
  in `conn_safety` says what else it takes: a reset by the peer that this Read has to report.
- `conn_expired`: a deadline never ends a Read. The EAGAIN of one that has passed is retried
  (`fd.wasip1.go:217`), and `SetsockoptTimeval` rounds one of now (-1ns), like any below a
  millisecond, to a timeval of zero, which is none; `DeadlineBoundsWait` is about the longer
  ones. Either deadline of the run is enough to violate it.
- `packet_sender`: the host writes a pointer where the sender's address belongs
  (`&addr`, `wasinet.host.go:207`), so no read of a datagram reports a sender.

The models also contain these, which have no run of their own.

Dial: a Deadline in the past sets no timer, and a Timeout beside a Deadline decides
nothing (`EffectiveTimeout`); the descriptor of a connected unixgram socket is lost when
`newFdConn` rejects its network (`NewConn`; it is left out of
`FailedAttemptKeepsNothing`); a closed connection stays established on the host, for the
reason of `listen_close` (`Close`, `CloseConn`).

Stream: a Read of no bytes is an end of file (`TakeBytes`; `Sizes` has no 0 in the runs); a Write neither
waits for room nor sends the rest, and returns EAGAIN or a short count (`SendNow`,
`SendReturns`).

Datagram: an empty one is io.EOF (`Ends`); `WriteMsgUDP` can never send, since it is
refused with an address and without one (`writeMsg`); an IPv4 destination on a socket of
family INET6 goes to another address (`SentAsAsked` is about the family's own); a
deadline is always ENOPROTOOPT, because the option's level is the type of the socket
(`SetDeadline`); a read of a `UDPConn` that was waiting when Close came ends in a nil
dereference, as does any read or write of a closed `packetConn` (`PanicNeedsClose` says that no
other call does).

Host calls: `SetReuseAddress` and `SetSockoptBroadcast` test an `err` that is not the
one they got and report no error (`Reported`); EFAULT, EADDRINUSE and other numbers
that the table lacks reach the guest as they are, where 14 is the guest's ECONNREFUSED
(`ErrnoTranslate`), and four of them are numbers that the guest branches on, ENXIO 6, ETXTBSY
26, EFBIG 27 and EROFS 30 (`Namesakes`; a bind on a read-only file system brings EROFS, which the
guest takes for EISCONN, and `BranchMeansItsError` says that nothing else gets there); prefixes of unix names
are compared as bytes, so that `/test` also takes `/testing.sock`, as `ing.sock` under its
host's directory (`Remap`); a failed lookup of a service panics (`Panic`), and a successful one carries an `Errno(0)`
that is not nil, so that a named service always fails; `Accept` ignores a failed write of the address
(`Answered`), and after an EFAULT the socket that it took stays on the host; `Bind` does
not remap a unix name, so a guest reaches its own listener by the name it bound only where no
prefix begins that name (`DialMeetsItsBinder`); a unix name that is too long is cut by the guest before it is remapped
(`Raw`), while one that fits is refused only by the host; a native build returns
pointers for addresses (`Pointer`), and its SO_RCVTIMEO and its sends on unix sockets
always fail (`NativeSetOptErrors`, `NativeSendError`); the list that `OptionAllow` makes
is read by nothing.

## Proofs

`DescriptorProofs` states what each operator of `Descriptor` does to the type of a
record, to its account of `fd_close` calls (`Accounted`) and to its fields.
`DialerProofs` proves, for every number of addresses and all timeouts and deadlines:

- `TypeCorrect`: `Spec => []TypeOK`.
- `Invariance`: `Spec => []IInv`. None of the safety properties is inductive. That a
  descriptor is closed once depends on which owners it has at each `pc` (`Current`)
  and on the close count being what the owners' states say (`Owners`); that a
  callback finds the descriptor open depends on `Close` waiting for the lock
  (`Waiter`); that a failed attempt keeps nothing depends on what earlier attempts
  left to the collector (`Leftovers`).
- `ClosedOnce`, `CallbackSafe`, `NoneOrphaned`, `ConnectedFirst`, `HeldStaysOpen`:
  the safety properties, each from the invariant.
- `NothingKept`: `FailedAttemptKeepsNothing`, for stream and datagram sockets.
- `NobodyStuck` (`NobodyWaitsInVain`) and `EndReached` (`EndInSight`): after `sconn.Close`,
  dialAddr waits in Close only for a callback that runs or was woken, and at errch only
  for a goroutine that is not in the poller; and every step of either takes the
  goroutine on, never back, so that at most five remain (`WindingDown`). Together they are
  the part of `EndedDialReturns` that is safety: that the context ends the select and that
  goroutines which can run do run is left to TLC.

`DialPromiseProofs` proves `PromiseKept`: every behaviour of `Dialer` is one of
`DialPromise` under the mapping of `Dialer`, which shows a dial of stream sockets and of
another kind only the promise's first state (`Shown`). Each step
maps to a step of the promise or to a stutter, using the invariant of `DialerProofs`.

`ListenerProofs` proves, for all acceptors, peers and backlogs, `TypeCorrect`,
`ClosedOnce`, `HeldStaysOpen`, `NoneLost` and `NothingKept`. The invariant behind them
(`Invariance`) has four parts: what the listening descriptor's owners are at each `pc`
(`ListenSocket`); that the queue holds exactly the queued peers, each once (`Queue`);
that an acceptor has a connection exactly while it initialises one, and no two have the
same (`Busy`); and what the owners of a connection's descriptor are in each state of
the connection (`Connections`). `EachInOnePlace` counts positions and acceptors; its
proof turns each count into a set that is empty or a singleton.

`PromiseKept` proves that `Listener` implements `AcceptPromise`: the queue of the host is the
line, an acceptor's `taken` is who it serves, and a connection is owned while its number is
open and not closed. It needs one more invariant, `Opens`: the socket listens only once
`listenAddr` is past its call of `Listen`, so that nothing opens it a second time. Each
step maps to one of the promise or to a stutter: those of `listenAddr`, the retries of
Accept and the closing of the listener's own descriptor show nothing; a step of the user that
lets go of a connection keeps the owner (it is forgotten) or not (it is closed), and a finalizer
collects only what the user and the acceptors have let go of.

`ConnProofs` proves, for any number of bytes, any sizes of buffers, any capacity and any
deadlines, `TypeCorrect`, `BytesInOrder` (`InOrder`) and `StreamKept`: for buffers that are
not empty, every behaviour of `Conn` is one of `ByteStream`. The assumption is needed: a
Read of no bytes reports the end of the file. `InOrder` is not inductive by itself: a continued
write puts the right bytes only because the host holds the write of the goroutine that
waits for it, and what it has left to send exists (`Held`); a sender that was reset sends
nothing only because nobody but a side elsewhere resets (`Away`). The lemmas before them
say how sequences of numbered bytes are cut and joined.

`DeadlinesBoundWaits` (`DeadlineBoundsWait`) is arithmetic on two roundings, one of which
writes milliseconds into a field of microseconds: of any deadline a millisecond ahead or more
something is left, so that the host waits, and never for longer than was asked. `PanicBounded`
(`PanicNeedsCloseAndReset`) needs that a closed side stays closed and that a reset once taken
stays taken (`ForGood`), since the panic lasts.

`PacketConnProofs` proves, for any readers, addresses, sizes and bounds, `TypeCorrect`,
`TakenOnce` (`EachTakenOnce`), `SentRight` (`SentAsAsked`), `ToPeer` (`OnlyToPeer`) and
`PanicSafe` (`PanicNeedsClose`, about each step that ends in a nil dereference). The codec comes first: `Codec` says that the host
decodes what the guest encoded for a family as the same address, with the four bytes of
a mapped address standing for it, and `Encoders` that the two encoders of the guest
agree. `OnlyToPeer` is not inductive: it needs that the peer has the socket's family
(`PeerOfFamily`, from the dialer), that a UDPConn is connected exactly as long as it is
open (`disconnected = ~fd`), and, for the one write that lets an invalid address pass
while connected, that such an address is encoded with port 0, which the host refuses
(`NoAddrHasNoPort`). What was sent has a type (`Typed`) because the proofs about its last
element need one.

`HostCallProofs` proves, for any number of descriptors and any addresses, prefixes and
bounds, `WholeSuccess` (`SuccessIsWhole`), `BranchesSafe` (`BranchMeansItsError`),
`LookupsInOrder` (`LookupKeepsOrder`) and `BadInputsChangeNothing` (`InputsFirst`), which are about
one call each and need no strengthening, and `TypeCorrect`. That one does: a connection
waits in one queue only because everyone in a queue has connected and stays so
(`Waiting`) and because no two sockets that were bound have one name (`OneName`), so that
a connect finds one listener. The rest of the work is in the table. `TableKeepsErrors`
says that no error is translated to the number of success, `TableIsRight` that an error
which the guest has a number for is told by it, and `OthersPass` and `NamesakesKnown` that of the rest
only the namesakes of the guest's branches are told by a branch's number. `WalkIsWhole` says that
steps of sixteen bytes, taken below the number of bytes, meet each address that was written once.

`HostNameProofs` proves what sockets are called: `BoundNamesKept` (`BoundNameIsKept`),
`DialsReachTheirNames` (`DialReachesItsName`), `DialsMeetTheirBinders` (`DialMeetsItsBinder`)
and `EndsNamed` (`EndsNameEachOther`), for any descriptors, addresses and prefixes. They rest
on two facts about data. `RoundTrip`: an address
encoded by the guest and decoded again is the same, for every TCP address
(an IPv4 one in either form included) and every unix name that fits. `RemapReaches`: the
fold over the prefixes takes, of those whose bytes begin the name, a longest one, whatever their
order and number, and leaves a name that none begins to `Clean`;
its proof goes along the initial segments of the list, with induction taken as the absence of a
least counterexample (`Induction`). The invariant is `NInv`. A socket has a name
of its family as soon as it was bound or connected (`Placed`); the name is the one that its user
asked for, or that with a port of the host's choice (`GivenTo`), and that the host could hold
(`BoundTo`), and its peer the remapped one that
was asked (`DialedTo`); two mates have each other's name (`Paired`). None of the four properties
is inductive alone: the two ends of a connection are named at the connect, while the accepting
end is made later, out of a queue whose members must have dialed a name that the listener takes
(`Queued`). The type invariant carries along that no two sockets have one name.

The dialer's proofs assume `DialerAssumption` only, the listener's `ListenerAssumption`,
the connection's `ConnAssumption`, the datagram socket's `PacketConnAssumption`, and the
host functions' `HostCallAssumption`. The proofs of names add `NamesAssumption` and `AddressAssumption`: what the guest
binds and dials is a `net.TCPAddr` with four or sixteen bytes or a `net.UnixAddr`, a bind on a unix
socket has a name (the host would pick one), nobody dials the unspecified address (the host would take it
for the local one), prefixes are pairs of sequences of bytes, and the
guest's buffer for a name is not empty. TLC evaluates all of them on the instances, and checked each
invariant before it was proved.

Model-checked only: liveness under fairness, which is out of the prover's reach:
`EndedDialReturns`, `EstablishedIsNoticed`, `QueueIsServed`, `EveryByteIsRead` and
`WriteReturnsSoon`. Every invariant and action property of a passing run, and
every refinement, is a theorem.

## Not modelled

- `zonecache.go`, and the sockaddr helpers in `conn.wasip1.udp.go` lines 13 to 128 that
  are its only users: nothing calls them. IPv6 zones are dropped by every conversion to
  the host.
- `SocketAddressFormat`, `NetUnixToRaw`, and the methods of `packetConn` that the
  `net.PacketConn` it is returned as hides (Read, Write, CloseRead, CloseWrite,
  WriteMsgUnix): no caller that runs.
- The setters of buffer sizes, which only log; `File` and `SyscallConn`.
- Out-of-band bytes and message flags, which no caller in the guest passes.
- Of the host's names: elements `.` and `..` and links of a path, a dial to the unspecified
  address and from a socket bound to it, SO_REUSEADDR (two sockets never share a name), the name that the
  host picks for a unix bind without one, and the shutdown of a socket that is not connected, which
  no wrapper asks for with a direction that the host knows.
- Text: splitting a host from a port, IP literals in `ResolveAddrip`, formatting.
- The bytes of guest memory, `ffi*` and `ffiguest`: a region is inside the memory or it is not.
- `autohijack` and the package defaults (assignments at start-up), `errorsx`, `langx`,
  `bytesx`, `netx`, `testx` and the stubs that return ENOTSUP.
- The darwin files, which repeat the linux ones apart from `SO_BINDTODEVICE` and how a
  socket is made non-blocking.

What could follow: `Dialer` and `Listener` composed with the sockets of `HostCall`
instead of their own host, so that one path of a unix name is followed from
`ListenPacket` to a dial; and, for the liveness properties other than
`EndedDialReturns`, the safety half that `NobodyWaitsInVain` and `EndInSight` state for the dial.
