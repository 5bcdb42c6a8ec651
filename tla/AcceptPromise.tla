---------------------------- MODULE AcceptPromise ----------------------------
(***************************************************************************)
(* What a listener promises its user, without the listening socket, the    *)
(* loops inside Accept and the finalizers.  Connections are served first   *)
(* come, first served, each by one Accept.  An Accept returns the one it   *)
(* took, if its peer has not reset it by then, or an error and nothing     *)
(* kept; what it returned stays open until the user lets go of it.         *)
(***************************************************************************)
EXTENDS Naturals, Sequences

CONSTANTS
  Peers,       \* a connection is its peer
  Acceptors,   \* the calls of Accept that may run at a time
  Nobody,      \* the connection of an Accept that has taken none
  Backlog      \* how many may wait

VARIABLES
  open,        \* the socket listens
  came,        \* the peers that have connected
  line,        \* those that wait
  serving,     \* the connection that each Accept has taken
  held,        \* the connections that the user holds
  owned,       \* those whose descriptor somebody still has to close
  gone         \* those that their peer has reset before they were returned

vars == <<open, came, line, serving, held, owned, gone>>

Served == {serving[a] : a \in Acceptors} \ {Nobody}

Init ==
  /\ open = FALSE
  /\ came = {} /\ line = <<>> /\ gone = {}
  /\ serving = [a \in Acceptors |-> Nobody]
  /\ held = {} /\ owned = {}

Open ==
  /\ ~open /\ open' = TRUE
  /\ UNCHANGED <<came, line, serving, held, owned, gone>>

Come(p) ==
  /\ open /\ p \notin came /\ Len(line) < Backlog
  /\ came' = came \cup {p}
  /\ line' = Append(line, p)
  /\ UNCHANGED <<open, serving, held, owned, gone>>

Leave(p) ==
  /\ p \in Served \/ \E i \in DOMAIN line : line[i] = p
  /\ gone' = gone \cup {p}
  /\ UNCHANGED <<open, came, line, serving, held, owned>>

Take(a) ==
  /\ open /\ serving[a] = Nobody /\ line # <<>>
  /\ serving' = [serving EXCEPT ![a] = Head(line)]
  /\ line' = Tail(line)
  /\ owned' = owned \cup {Head(line)}
  /\ UNCHANGED <<open, came, held, gone>>

\* Accept returns the connection ...
Give(a) ==
  /\ serving[a] \notin gone \cup {Nobody}
  /\ serving' = [serving EXCEPT ![a] = Nobody]
  /\ held' = held \cup {serving[a]}
  /\ UNCHANGED <<open, came, line, owned, gone>>

\* ... or an error, and has closed the descriptor.
Refuse(a) ==
  /\ serving[a] # Nobody
  /\ serving' = [serving EXCEPT ![a] = Nobody]
  /\ owned' = owned \ {serving[a]}
  /\ UNCHANGED <<open, came, line, held, gone>>

\* The user closes a connection, or forgets it and leaves it to the collector.
LetGo(p) ==
  /\ p \in held
  /\ held' = held \ {p}
  /\ owned' \in {owned, owned \ {p}}
  /\ UNCHANGED <<open, came, line, serving, gone>>

Collect(p) ==
  /\ p \in owned \ (held \cup Served)
  /\ owned' = owned \ {p}
  /\ UNCHANGED <<open, came, line, serving, held, gone>>

Next ==
  \/ Open
  \/ \E p \in Peers : Come(p) \/ Leave(p) \/ LetGo(p) \/ Collect(p)
  \/ \E a \in Acceptors : Take(a) \/ Give(a) \/ Refuse(a)

Spec == Init /\ [][Next]_vars
=============================================================================
