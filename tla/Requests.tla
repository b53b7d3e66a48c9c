------------------------------ MODULE Requests ------------------------------
(***************************************************************************)
(* The requests of connections: to web services, to an Emonio meter, to an *)
(* Influx database and to a Modbus server.  A behavior is one of one of    *)
(* them, chosen at the start.                                              *)
(***************************************************************************)
EXTENDS Integers

CONSTANTS
  NaN,
  Nodes,                              \* the nodes asked for at web services
  EntsoeHour, Held, EntsoeWindows,    \* of EntsoeConnection
  ChunkLength, Horizon, Outages, SmardWindows,  \* of SmardConnection
  Second, Quarter, Hour, Day, Forecasts, DataTypes, SolarWindows, Nows, \* of Forecastsolar
  WeatherTimes, WeatherWindows,       \* of WetterdienstConnection
  Phases, Minute, LastMinute,         \* of EmonioConnection
  InfluxNodes, Table, Field, InfluxSecond, LastWrite, Times, InfluxWindows, MaxWrites, \* of Influx
  Registers, Byte, InitialSize        \* of ModbusValues

VARIABLES
  connection,     \* which one
  stage, call, service, frames, answer,
  clock, device, check_error, _phases_connected, _last_error_check, outcome, noticed,
  tables, now, writing, writes, kept, reading, columns,  \* of the database
  regs, written, result                                  \* of the data bank

request == <<stage, call, service, frames, answer>>
emonio == <<clock, device, check_error, _phases_connected, _last_error_check, outcome, noticed>>
database == <<tables, now, writing, writes, kept, reading, columns>>
databank == <<regs, written, result>>
vars == <<connection, request, emonio, database, databank>>

Entsoe == INSTANCE EntsoeConnection WITH Hour <- EntsoeHour, Windows <- EntsoeWindows
Smard == INSTANCE SmardConnection WITH Length <- ChunkLength, Windows <- SmardWindows
Solar == INSTANCE ForecastsolarConnection WITH Windows <- SolarWindows
Weather == INSTANCE WetterdienstConnection WITH
  Published <- WeatherTimes, Windows <- WeatherWindows
Emonio == INSTANCE EmonioConnection WITH MaxTime <- LastMinute
Influx == INSTANCE InfluxConnection WITH
  Nodes <- InfluxNodes, Second <- InfluxSecond, MaxTime <- LastWrite, Windows <- InfluxWindows
Modbus == INSTANCE ModbusValues WITH Nodes <- Registers

ASSUME RequestsAssumption ==
  /\ Entsoe!EntsoeAssumption /\ Smard!SmardAssumption
  /\ Solar!ForecastsolarAssumption /\ Weather!WetterdienstAssumption
  /\ Emonio!EmonioAssumption /\ Influx!InfluxAssumption /\ Modbus!ValuesAssumption

-----------------------------------------------------------------------------
NoRequest == stage = "idle" /\ call = <<>> /\ service = <<>> /\ frames = <<>> /\ answer = <<>>
NoEmonio ==
  /\ clock = 0 /\ device = <<>> /\ check_error = FALSE /\ _phases_connected = {}
  /\ _last_error_check = 0 /\ outcome = "none" /\ noticed = FALSE

NoDatabase ==
  /\ tables = <<>> /\ now = 0 /\ writing = <<>> /\ writes = 0 /\ kept = <<>>
  /\ reading = <<>> /\ columns = <<>>
NoDatabank == regs = <<>> /\ written = <<>> /\ result = <<>>

Init ==
  \/ /\ NoEmonio /\ NoDatabase /\ NoDatabank
     /\ \/ connection = "entsoe" /\ Entsoe!EntsoeInit
        \/ connection = "smard" /\ Smard!SmardInit
        \/ connection = "forecastsolar" /\ Solar!ForecastsolarInit
        \/ connection = "wetterdienst" /\ Weather!WetterdienstInit
  \/ connection = "emonio" /\ Emonio!EmonioInit /\ NoRequest /\ NoDatabase /\ NoDatabank
  \/ connection = "influx" /\ Influx!Init /\ NoRequest /\ NoEmonio /\ NoDatabank
  \/ connection = "modbus" /\ Modbus!Init /\ NoRequest /\ NoEmonio /\ NoDatabase

Next ==
  /\ UNCHANGED connection
  /\ \/ /\ \/ connection = "entsoe" /\ Entsoe!EntsoeNext
           \/ connection = "smard" /\ Smard!SmardNext
           \/ connection = "forecastsolar" /\ Solar!ForecastsolarNext
           \/ connection = "wetterdienst" /\ Weather!WetterdienstNext
        /\ UNCHANGED <<emonio, database, databank>>
     \/ connection = "emonio" /\ Emonio!EmonioNext /\ UNCHANGED <<request, database, databank>>
     \/ connection = "influx" /\ Influx!Next /\ UNCHANGED <<request, emonio, databank>>
     \/ connection = "modbus" /\ Modbus!Next /\ UNCHANGED <<request, emonio, database>>

Spec == Init /\ [][Next]_vars

-----------------------------------------------------------------------------
(* Properties *)

\* ENTSO-E: what a row says of a node is what was published for it, in that column, and
\* none of the rows up to it has a newer value.
AnswerIsPublished == connection = "entsoe" => Entsoe!AnswerIsPublished

\* ENTSO-E: a request that fails does not cost another node its columns, which only a
\* node that is not known, or has series that overlap, can; and a gap is bridged:
\* between two rows with a value none of the rows of its node is without.
NodesAreRead == connection = "entsoe" => Entsoe!NodesAreRead /\ Entsoe!GapsAreFilled

\* SMARD: a series begins at the begin of its window and has no hole: up to its last row,
\* what had been published an hour before the call is in it, and nothing that is not
\* published; and read does not pass over a value that had been.
ChunksAreCurrent ==
  connection = "smard" => Smard!SeriesHasNoHole /\ Smard!ReadIsNotOutdated

\* forecast.solar: the power of a row is what was forecast for the node at its time, and
\* the energy of a day that of the forecast at its rows, as far as the window reaches; the
\* rows next to an end of the window may differ, if the forecast has no row there and is
\* not 0, or if only the forecast of another node has one.
ForecastIsReturned ==
  connection = "forecastsolar" => Solar!PowerIsForecast /\ Solar!EnergyAddsUp

\* Weather: a value was published for its column, not after its row; and it is the
\* newest of that column, unless a row of another column came after a newer one.
WeatherIsNewest == connection = "wetterdienst" => Weather!WeatherIsNewest

\* Emonio: values are not returned for a minute under an error of the device,
\* unless a call has raised because of it or because the check failed.
ErrorIsNoticed == connection = "emonio" => Emonio!ErrorIsNoticed

\* Modbus: what a node was given last is what a read of it returns, over the
\* connection or in the server, if it is a signed number of its length that a connection
\* has not written with little words; and a value the server was given is readable.
ValuesReadBack ==
  connection = "modbus" => Modbus!ValuesReadBack /\ Modbus!WrittenIsReadable

\* Influx: among the columns of a node is one that has every value of its window, except
\* at the end, that was taken when it was asked for, that one or one written since; read
\* returns a row that none of them is newer than; and each column has the values of one
\* node that was asked for with that field.
WrittenIsRead ==
  connection = "influx" => Influx!SeriesIsWritten /\ Influx!NewestRowIsRead
=============================================================================
