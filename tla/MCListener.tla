----------------------------- MODULE MCListener -----------------------------
(***************************************************************************)
(* Instances of Listener for TLC, and what the sources say of a listener   *)
(* that the code does not keep: each property below is refuted by a run.   *)
(***************************************************************************)
EXTENDS Listener

-----------------------------------------------------------------------------
\* The number is closed by its owner and by nobody else, also when Listen fails
\* ("now the *os.File owns the file descriptor").
FailedListenClosesOnce == lfd.closes <= 1

\* Closing the listener ends the accept loops: an Accept in progress returns.
CloseEndsAccept ==
  \A a \in Acceptors : lsn = "closed" /\ apc[a] = "accept" ~> apc[a] # "accept"
=============================================================================
