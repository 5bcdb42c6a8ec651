------------------------------ MODULE MCDialer ------------------------------
(***************************************************************************)
(* Instances of Dialer for TLC, and what the sources say of a dial that    *)
(* the code does not keep: a run refutes the property below.               *)
(***************************************************************************)
EXTENDS Dialer

CONSTANTS MaxTimeout, MaxUntil    \* bounds of the fields

MCTimeouts  == 0..MaxTimeout
MCDeadlines == {NoDeadline} \cup (-1)..MaxUntil

-----------------------------------------------------------------------------
\* A connect that the host refuses gets dialAddr out of its select, like one that
\* succeeds (the test of a dial to a closed port expects ECONNREFUSED).
RefusedIsNoticed ==
  (pc = "select" /\ sk[attempt] = "refused") ~> pc # "select"
=============================================================================
