----------------------------- MODULE Descriptor -----------------------------
(***************************************************************************)
(* Who may close a socket descriptor in the guest, and who has.            *)
(*                                                                         *)
(* sock_open hands the guest a descriptor number.  Dialing and listening   *)
(* then move that number through up to three owners: the local variable fd *)
(* with its deferred syscall.Close, the *os.File that wasip1net.Socket     *)
(* makes of it, and the poll.FD copy that a netFD keeps.  The file and the *)
(* copy share a reference count; the last one to be closed issues fd_close.*)
(* A descriptor is one record; the operators below are the calls that move *)
(* or drop an owner.  There is no state here: Dialer keeps a record per    *)
(* attempted address, Listener one for itself and one per connection.      *)
(***************************************************************************)
EXTENDS Naturals

Raws   == {"none", "held", "moved", "closed"}
Files  == {"none", "open", "closing", "closed"}
Copies == {"none", "open", "closed"}

(***************************************************************************)
(* raw     the variable fd: not opened yet, held with the deferred close   *)
(*         armed, set to -1, or closed by the deferred function            *)
(* file    the *os.File: "closing" is a Close that waits for a RawWrite    *)
(*         callback to let go of the descriptor                            *)
(* copy    the poll.FD copy inside the netFD                               *)
(* fin     the netFD has a finalizer that has not run                      *)
(* closes  the fd_close calls issued for this number                       *)
(***************************************************************************)
Record == [raw: Raws, file: Files, copy: Copies, fin: BOOLEAN, closes: Nat]

Unopened == [raw |-> "none", file |-> "none", copy |-> "none",
             fin |-> FALSE, closes |-> 0]

Opened(r) == r.raw # "none"

\* The shared reference count of poll.SysFile: the owners that are not closed.
Referenced(r) == r.file \in {"open", "closing"} \/ r.copy = "open"

\* poll.FD's destroy: fd_close, when the last reference is dropped.
Unref(r) == IF Referenced(r) THEN r ELSE [r EXCEPT !.closes = @ + 1]

\* wasip1syscall.Socket returned a number; the deferred close is armed.
OpenRaw(r) == [r EXCEPT !.raw = "held"]

\* The deferred "if fd >= 0 { syscall.Close(fd) }".
CloseRaw_Never(r) == r                                 \* mutant: no defer
CloseRaw(r) ==
    IF r.raw = "held"
    THEN [r EXCEPT !.raw = "closed", !.closes = @ + 1]
    ELSE r

\* wasip1net.Socket(fd): an *os.File owns the number ...
MakeFile(r) == [r EXCEPT !.file = "open"]

\* ... and fd = -1 takes it from the variable.
Disarm_Keeps(r) == r                                   \* mutant: no fd = -1
Disarm(r) == [r EXCEPT !.raw = "moved"]

WrapFile(r) == Disarm(MakeFile(r))

\* accept: the number goes straight into a file.
AcceptFile == WrapFile(OpenRaw(Unopened))

\* os.File.Close: evicts waiters, and drops its reference at once unless a
\* RawWrite callback holds the descriptor (locked).  A second Close does nothing.
CloseFile(r, locked) ==
    CASE r.file # "open" -> r
      [] r.file = "open" /\ locked  -> [r EXCEPT !.file = "closing"]
      [] r.file = "open" /\ ~locked -> Unref([r EXCEPT !.file = "closed"])

\* The RawWrite callback lets go: a Close that was waiting takes effect.
Unlock(r) ==
    IF r.file = "closing" THEN Unref([r EXCEPT !.file = "closed"]) ELSE r

\* newFD: f.PollFD().Copy().
CopyFile_NoRef(r) == r                                 \* mutant: uses f's own pfd
CopyFile(r) == [r EXCEPT !.copy = "open"]

\* pfd.Close of the copy.  A second Close does nothing.
CloseCopy(r) ==
    IF r.copy = "open" THEN Unref([r EXCEPT !.copy = "closed"]) ELSE r

\* newFD when the initialisation of the netFD fails: init arms the finalizer,
\* newFD closes the copy.
FailedNetFD(r) == [CloseCopy(CopyFile(r)) EXCEPT !.fin = TRUE]

\* The number of fd_close calls that the owners' states account for.
Accounted(r) ==
    /\ r.raw # "moved" => r.file = "none" /\ r.copy = "none"
    /\ r.file = "none" => r.copy = "none"
    /\ r.closes = IF r.raw = "closed" \/ (r.raw = "moved" /\ ~Referenced(r))
                  THEN 1 ELSE 0
=============================================================================
