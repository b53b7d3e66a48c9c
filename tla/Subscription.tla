---------------------------- MODULE Subscription ----------------------------
(***************************************************************************)
(* What the subscriptions of the connections promise to the program: the   *)
(* loops that tell the handler something exist only between subscribe and  *)
(* close_sub, one at a time, until a loop has ended with an error.  From   *)
(* then on close_sub raises that error instead of ending the loop.         *)
(***************************************************************************)
CONSTANTS
  Loops,          \* the tasks a loop may run in
  Told            \* what the handler may have been told so far

VARIABLES
  open,           \* _subscription_open
  loops,          \* the tasks that may still tell the handler something
  failed,         \* the connection has kept an error
  told            \* what the handler was told

vars == <<open, loops, failed, told>>

Init ==
  /\ open = FALSE
  /\ loops = {}
  /\ failed = FALSE
  /\ told \in Told

\* subscribe while nothing is open; otherwise it starts nothing.
Subscribe ==
  /\ ~open
  /\ open' = TRUE
  /\ \E t \in Loops \ loops : loops' = loops \cup {t}
  /\ told' \in Told
  /\ UNCHANGED failed

CloseSub ==
  /\ open' = FALSE
  /\ loops' = IF failed THEN loops ELSE {}
  /\ UNCHANGED <<failed, told>>

Tell ==
  /\ loops # {}
  /\ told' \in Told
  /\ UNCHANGED <<open, loops, failed>>

\* A loop ends with an error, after it may have told the handler something.
Fail(t) ==
  /\ t \in loops
  /\ loops' = loops \ {t}
  /\ failed' = TRUE
  /\ told' \in Told
  /\ UNCHANGED open

\* A loop finds the subscription closed.
Leave(t) ==
  /\ t \in loops
  /\ ~open
  /\ loops' = loops \ {t}
  /\ UNCHANGED <<open, failed, told>>

Next ==
  \/ Subscribe \/ CloseSub \/ Tell
  \/ \E t \in Loops : Fail(t) \/ Leave(t)

Spec == Init /\ [][Next]_vars

-----------------------------------------------------------------------------
TypeOK ==
  /\ {open, failed} \subseteq BOOLEAN
  /\ loops \subseteq Loops
  /\ told \in Told

\* Until an error, there is one loop while the subscription is open, and none
\* while it is closed.
OneLoopUntilError ==
  ~failed => /\ \A t, u \in loops : t = u
             /\ open <=> loops # {}

\* An open subscription without a loop has kept the error that ended it.
DeathIsKept == open /\ loops = {} => failed
=============================================================================
