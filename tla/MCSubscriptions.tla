--------------------------- MODULE MCSubscriptions ---------------------------
(***************************************************************************)
(* The subscriptions of OPC UA and Modbus connections under fairness, on   *)
(* small instances whose server comes and goes and does not refuse         *)
(* anything while it is there.  A behavior is one of one of them, chosen   *)
(* at the start.                                                           *)
(***************************************************************************)
EXTENDS Naturals

CONSTANTS n1, n2, t1, t2

VARIABLES
  connection,     \* which one
  up, open, nodes, retry, retry_interval, latest, last,           \* of both
  session, monitored, connected, task, subscribed, keys, asked, calls, \* of OPC UA
  link, is_open, sub, exc, pc                                     \* of Modbus

shared == <<up, open, nodes, retry, retry_interval, latest, last>>
opcua == <<session, monitored, connected, task, subscribed, keys, asked, calls>>
modbus == <<link, is_open, sub, exc, pc>>
vars == <<connection, shared, opcua, modbus>>

Nodes == {n1, n2}

Opcua == INSTANCE OpcuaSubscription WITH
  Watched <- {}, RetryCap <- 1, ServerFails <- TRUE, RequestErrors <- FALSE,
  HandlerRaises <- FALSE, AddsWhileOpen <- FALSE, ForeignCalls <- 0

Modbus == INSTANCE ModbusSubscription WITH
  Watched <- {n1}, Invalid <- {}, Tasks <- {t1, t2}, RetryCap <- 1,
  ServerFails <- TRUE, RequestErrors <- FALSE, RoundRaises <- FALSE, ForeignCalls <- FALSE

-----------------------------------------------------------------------------
NoOpcua ==
  /\ session = FALSE /\ monitored = {} /\ connected = FALSE /\ task = "none"
  /\ subscribed = FALSE /\ keys = {} /\ asked = {} /\ calls = 0
NoModbus ==
  link = FALSE /\ is_open = FALSE /\ sub = "no task" /\ exc = FALSE /\ pc = <<>>

OpcuaStep(A) == connection = "opcua" /\ A /\ UNCHANGED <<connection, modbus>>
ModbusStep(A) == connection = "modbus" /\ A /\ UNCHANGED <<connection, opcua>>

Init ==
  \/ connection = "opcua" /\ Opcua!Init /\ NoModbus
  \/ connection = "modbus" /\ Modbus!Init /\ NoOpcua

Next == OpcuaStep(Opcua!Next) \/ ModbusStep(Modbus!Next)

\* The fairness of the two modules.
Fairness ==
  /\ WF_vars(OpcuaStep(Opcua!Loop))
  /\ \A n \in Nodes : WF_vars(OpcuaStep(Opcua!Notify(n)))
  /\ \A t \in {t1, t2} : WF_vars(ModbusStep(Modbus!Loop(t)))

FairSpec == Init /\ [][Next]_vars /\ Fairness

-----------------------------------------------------------------------------
(* Properties *)

\* Once the server stays, each node of an open subscription is monitored there again
\* (OPC UA): reconnecting is not enough, the items have to be made anew.
StaysMonitored == connection = "opcua" => Opcua!StaysMonitored

\* ... and the handler is told its value again, whatever it was told before; with
\* Modbus also that of a node that was added while the subscription was open.
DeliveryResumes ==
  /\ connection = "opcua" => Opcua!DeliveryResumes
  /\ connection = "modbus" => Modbus!DeliveryResumes

\* If the server stays away, the handler hears of it: it ends up with no value that looks
\* alive (OPC UA), or was told NA for some node (Modbus).
OutageReachesHandler ==
  /\ connection = "opcua" => Opcua!OutageReachesHandler
  /\ connection = "modbus" => Modbus!OutageReachesHandler
=============================================================================
