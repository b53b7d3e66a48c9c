-------------------------- MODULE ConnectionUtils --------------------------
(***************************************************************************)
(* The two helpers the subscription loops share: RetryWaiter, a counter of *)
(* failed attempts, and IntervalChecker, which remembers when each node    *)
(* that has an interval last changed its value.  Their state is kept by    *)
(* the connections.                                                        *)
(***************************************************************************)
EXTENDS Integers, Sequences

-----------------------------------------------------------------------------
(* RetryWaiter *)

\* tried() on a counter that is cut off at cap; how long a counter makes the loop
\* wait is left out.
Tried(counter, cap) == IF counter < cap THEN counter + 1 ELSE counter

Success == 0

-----------------------------------------------------------------------------
(* IntervalChecker: node_latest_values has no entry for an "absent" node;  *)
(* the entry of a "stale" one is older than the interval of the node.      *)

Ages == {"absent", "fresh", "stale"}

Known(latest) == {n \in DOMAIN latest : latest[n] # "absent"}
Stale(latest) == {n \in DOMAIN latest : latest[n] = "stale"}

\* push(): a value equal to the last one leaves the entry alone, and only a
\* node with an interval (watched) gets one.
Pushed(latest, watched, n, changed) ==
  IF latest[n] # "absent"
    THEN IF changed THEN [latest EXCEPT ![n] = "fresh"] ELSE latest
    ELSE IF n \in watched THEN [latest EXCEPT ![n] = "fresh"] ELSE latest

\* The pushes of one round of polling: `read` gave a value, `changed` a new one.
PushedAll(latest, watched, read, changed) ==
  [n \in DOMAIN latest |->
     IF n \in read THEN Pushed(latest, watched, n, n \in changed)[n] ELSE latest[n]]

\* The clock: the interval of an entry runs out.
Aged(latest, n) == [latest EXCEPT ![n] = "stale"]
=============================================================================
