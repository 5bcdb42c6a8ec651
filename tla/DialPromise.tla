---------------------------- MODULE DialPromise -----------------------------
(***************************************************************************)
(* What a dial promises its caller, with the sockets, the goroutine and    *)
(* the timer left out.  A dial tries the addresses of one name in order,   *)
(* owning at most one descriptor at any time.  It answers with the         *)
(* descriptor of the address it tried last, or with an error and nothing   *)
(* owned; an error before the last address means that the context ended.   *)
(***************************************************************************)
EXTENDS Naturals

CONSTANT N                       \* no name has more than N addresses

VARIABLES
  phase,     \* "resolving", "trying" a socket, "open" (a descriptor was opened),
             \* "between" two addresses, "returned"
  found,     \* how many addresses the name has
  tried,     \* how many of them were tried
  live,      \* the context has not ended
  owned,     \* the addresses whose descriptor somebody still has to close
  answer     \* "none", "error", or "conn" for a connection to address tried

vars == <<phase, found, tried, live, owned, answer>>

Init ==
  /\ phase = "resolving"
  /\ found = 0 /\ tried = 0
  /\ live = TRUE
  /\ owned = {}
  /\ answer = "none"

Resolve ==
  /\ phase = "resolving"
  /\ \/ /\ found' \in 1..N /\ tried' = 1
        /\ phase' = "trying"
        /\ UNCHANGED answer
     \/ /\ phase' = "returned" /\ answer' = "error"
        /\ UNCHANGED <<found, tried>>
  /\ UNCHANGED <<live, owned>>

\* The address yields no socket, or one that is now owned.
Open ==
  /\ phase = "trying"
  /\ \/ phase' = "between" /\ owned' = owned
     \/ phase' = "open"    /\ owned' = {tried}
  /\ UNCHANGED <<found, tried, live, answer>>

\* The descriptor is closed, at the latest when the address is given up.
Close ==
  /\ phase = "open"
  /\ owned' = {}
  /\ phase' \in {"open", "between"}
  /\ UNCHANGED <<found, tried, live, answer>>

Succeed ==
  /\ phase = "open" /\ owned = {tried}
  /\ phase' = "returned" /\ answer' = "conn"
  /\ UNCHANGED <<found, tried, live, owned>>

\* The next address, only with nothing owned and while the caller still waits.
Try ==
  /\ phase = "between" /\ owned = {}
  /\ live /\ tried < found
  /\ phase' = "trying" /\ tried' = tried + 1
  /\ UNCHANGED <<found, live, owned, answer>>

Fail ==
  /\ phase = "between" /\ owned = {}
  /\ tried = found \/ ~live
  /\ phase' = "returned" /\ answer' = "error"
  /\ UNCHANGED <<found, tried, live, owned>>

\* The caller cancels, or the deadline passes: only while the dial runs.
End ==
  /\ phase # "returned" /\ live
  /\ live' = FALSE
  /\ UNCHANGED <<phase, found, tried, owned, answer>>

\* Whoever has the connection lets go of it.
LetGo ==
  /\ answer = "conn" /\ owned = {tried}
  /\ owned' = {}
  /\ UNCHANGED <<phase, found, tried, live, answer>>

Next == Resolve \/ Open \/ Close \/ Succeed \/ Try \/ Fail \/ End \/ LetGo

Spec == Init /\ [][Next]_vars
=============================================================================
