--------------------------- MODULE RESTConnection ---------------------------
(***************************************************************************)
(* RESTConnection: the requests of a connection to a REST API.  _get_data  *)
(* reads every node in a thread of its own; the threads share the session, *)
(* which the first of them that needs it makes, and merge what they read   *)
(* into one table with a column for each node that has data.               *)
(***************************************************************************)
CONSTANTS
  Nodes,          \* the nodes; each is read by a thread of its own
  ServerFails     \* may the server become ill?

VARIABLES
  healthy,        \* the server answers everything; otherwise any request may fail
  cached_session, \* self._cached_session: "none", "bare" without retries, "ready"
  phase           \* where each thread is in its request

rest == <<healthy, cached_session, phase>>

RESTInit ==
  /\ healthy \in IF ServerFails THEN BOOLEAN ELSE {TRUE}
  /\ cached_session = "none"
  /\ phase = [n \in Nodes |-> "none"]

\* The server and the network: an outage is a time in which every request fails.
ServerChanges ==
  /\ ServerFails
  /\ healthy' = ~healthy
  /\ UNCHANGED <<cached_session, phase>>

-----------------------------------------------------------------------------
(* The property session.  _initialize_session of the connections stores the  *)
(* new session in self._cached_session, before it has its retries.           *)

\* What a thread that sends a request does next.
session == IF cached_session = "none" THEN "initialize" ELSE "send"

_initialize_session(n) ==
  /\ phase[n] = "initialize"
  /\ cached_session' = "bare"
  /\ phase' = [phase EXCEPT ![n] = "mount"]

mount(n) ==
  /\ phase[n] = "mount"
  /\ cached_session' = "ready"
  /\ phase' = [phase EXCEPT ![n] = "send"]

NewSession(n) == _initialize_session(n) \/ mount(n)

\* Thread n has sent its request: the response, or None for every kind of
\* error.  A passing error is retried unless the session is still bare.
_raw_request(n, response) ==
  /\ phase[n] = "send"
  /\ response \in {"json"} \cup IF healthy /\ cached_session = "ready" THEN {} ELSE {"None"}
  /\ phase' = [phase EXCEPT ![n] = "none"]

\* What _read_node makes of a response: an ill server may answer without data
\* or data that cannot be parsed.
_read_node(response) ==
  IF response = "None" THEN {"empty"}
  ELSE {"data"} \cup IF healthy THEN {} ELSE {"empty"}

\* The columns of the table that _get_data returns for `asked`, and whether they
\* hold anything; one thread's error is raised instead.
Columns(asked, frame) ==
  LET filled == {n \in asked : frame[n] = "data"}
  IN  IF filled = {} THEN asked ELSE filled
=============================================================================
