---------------------- MODULE MultiSubscriptionHandler ----------------------
(***************************************************************************)
(* MultiSubscriptionHandler: a handler that passes every push on to the    *)
(* handlers registered with it, in their order.                            *)
(***************************************************************************)
EXTENDS Naturals, Sequences, FiniteSets

CONSTANTS
  Handlers,       \* the registered handlers, a sequence
  Raising         \* those whose push may raise

\* What all of them were told once the first k of them have been told v of n.
Pushed(told, n, v, k) ==
  [h \in 1..Len(Handlers) |-> IF h <= k THEN [told[h] EXCEPT ![n] = v] ELSE told[h]]

\* The pushes of the nodes ns, all of which succeed.
AllPushed(told, ns, v) ==
  [h \in 1..Len(Handlers) |->
     [n \in DOMAIN told[h] |-> IF n \in ns THEN v ELSE told[h][n]]]

\* The pushes of n that raise: at a handler k + 1, so that nobody behind it is told.
PushesRaised(told, n, v) ==
  {Pushed(told, n, v, k) : k \in {k \in 0..(Len(Handlers) - 1) : Handlers[k + 1] \in Raising}}
=============================================================================
