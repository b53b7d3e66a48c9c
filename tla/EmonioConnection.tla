-------------------------- MODULE EmonioConnection --------------------------
(***************************************************************************)
(* EmonioConnection: a meter read over Modbus.  Which phases it measures   *)
(* is asked once; its error bits are asked before a read or a subscription *)
(* when the last check was a minute ago.                                   *)
(***************************************************************************)
EXTENDS Integers

CONSTANTS
  Phases,         \* the phases of the device
  Minute,         \* the length of a minute
  MaxTime         \* bound on the clock

EmonioAssumption == Minute \in Nat \ {0} /\ MaxTime \in Nat

VARIABLES
  clock,
  device,         \* is it up, its phases, an error bit and since when it has been set
  check_error,    \* the parameter of the connection
  _phases_connected,  \* the phases that were measured when the connection was made
  _last_error_check, \* when the device was last asked for errors, or a minute ago
  outcome,        \* "none" without a connection, "made" between calls, else what a
                  \* read gave: "values" or what it raised
  noticed         \* has a check failed, or found the error, since it is there?

vars == <<clock, device, check_error, _phases_connected, _last_error_check, outcome, noticed>>

Never == -Minute

EmonioInit ==
  /\ clock = 0
  /\ device \in [up : BOOLEAN, phases : SUBSET Phases, error : BOOLEAN, since : {0}]
  /\ check_error \in BOOLEAN
  /\ _phases_connected = {}
  /\ _last_error_check = Never
  /\ outcome = "none"
  /\ noticed = FALSE

\* Between two calls.
Between == IF outcome = "none" THEN "none" ELSE "made"

Tick ==
  /\ clock < MaxTime
  /\ clock' = clock + 1
  /\ outcome' = Between
  /\ UNCHANGED <<device, check_error, _phases_connected, _last_error_check, noticed>>

\* The device goes and comes back, an error bit is set or cleared, a phase is wired.
DeviceChanges ==
  /\ \/ device' = [device EXCEPT !.up = ~@]
     \/ device' = [device EXCEPT !.error = ~@, !.since = clock]
     \/ \E phases \in SUBSET Phases : device' = [device EXCEPT !.phases = phases]
  /\ noticed' = (noticed /\ device'.error)
  /\ outcome' = Between
  /\ UNCHANGED <<clock, check_error, _phases_connected, _last_error_check>>

-----------------------------------------------------------------------------
(* check_warnings_and_errors: the time is stored before the device is asked. *)

Due == clock - _last_error_check >= Minute

\* What a check raises, if anything.
Raised ==
  CASE check_error /\ Due /\ ~device.up -> "ConnectionError"
    [] check_error /\ Due /\ device.up /\ device.error -> "ValueError"
    [] OTHER -> "nothing"

Measured(phase) == phase = "abc" \/ phase \in _phases_connected

\* Mutant: a read that needs no check puts off the next one.
check_puts_off ==
  /\ _last_error_check' = IF check_error THEN clock ELSE _last_error_check
  /\ noticed' = (noticed \/ (check_error /\ Due /\ device.error))

check_warnings_and_errors ==
  /\ _last_error_check' = IF check_error /\ Due THEN clock ELSE _last_error_check
  /\ noticed' = (noticed \/ (check_error /\ Due /\ device.error))

\* A new connection asks for the phases, then for errors, whatever check_error says.
__init__ ==
  /\ outcome = "none" /\ device.up
  /\ _phases_connected' = device.phases
  /\ _last_error_check' = clock
  /\ outcome' = IF device.error THEN "none" ELSE "made"
  /\ noticed' = device.error
  /\ UNCHANGED <<clock, device, check_error>>

\* _validate_nodes and _check_phases, then the read of the Modbus connection; a
\* subscription begins like that, and nothing is checked while it runs.
read(phase) ==
  /\ outcome # "none"
  /\ check_warnings_and_errors
  /\ outcome' = CASE Raised # "nothing" -> Raised
                  [] Raised = "nothing" /\ ~Measured(phase) -> "ValueError"
                  [] OTHER -> IF device.up THEN "values" ELSE "ConnectionError"
  /\ UNCHANGED <<clock, device, check_error, _phases_connected>>

EmonioNext ==
  \/ Tick \/ DeviceChanges
  \/ __init__
  \/ \E phase \in Phases \cup {"abc"} : read(phase)

-----------------------------------------------------------------------------
(* Properties *)

\* Values are not returned for a minute under an error of the device, unless
\* a call has raised because of it or because the check failed.
ErrorIsNoticed ==
  outcome = "values" /\ check_error /\ device.error =>
    noticed \/ clock - device.since < Minute
=============================================================================
