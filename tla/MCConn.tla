------------------------------- MODULE MCConn -------------------------------
(***************************************************************************)
(* Instances of Conn for TLC, and what the sources say of a connection     *)
(* that the code does not keep: each property below is refuted by a run.   *)
(***************************************************************************)
EXTENDS Conn

\* Deadlines in microseconds from now: one with a fraction of a second, and right now.
Soon == (5 * Second) \div 2
Now == 0

OnlySoon == {Soon}
NowOrSoon == {Now, Soon}
NoDeadlines == {}

Dialed == {{"dialed"}}
Accepted == {{"accepted"}}
Self == {Sides}
AnyGuest == {{"dialed"}, {"accepted"}} \cup Self

-----------------------------------------------------------------------------
\* A socket of the host never keeps the guest inside a host call ("required by
\* golang's runtime ... we unconditionally set them here"): a guest that talks to
\* itself gets its Write done.
GuestKeepsRunning ==
  \A s \in Sides : wr[s] = "call" ~> wr[s] # "call"

\* Close during a Read ends in an error, not in a nil dereference ("Read implements
\* the Conn Read method", which begins with a check of c.ok()).
ReadNeverPanics == \A s \in guest : rd[s] # "panic"

\* A Read that has a deadline ends ("SetReadDeadline implements the Conn SetReadDeadline
\* method", conn.wasip1.go:92), whatever its peer does; one of right now is not "no
\* deadline" (fd.wasip1.go:315).
DeadlineEndsRead ==
  \A s \in Sides :
    s \in guest /\ asked[s].rcv # NoDeadline /\ rd[s] = "call" ~> rd[s] # "call"
=============================================================================
