CONSTANTS
  n1 = n1
  n2 = n2
  a1 = a1
  a2 = a2
  b1 = b1
  NaN = NaN
  Nodes <- SomeNodes
  EntsoeHour = 2
  Held <- SomeHeld
  EntsoeWindows <- SomeWindows
  ChunkLength = 3
  Horizon = 7
  Outages <- SomeOutages
  SmardWindows <- SomeWindows
  Second = 1
  Quarter = 2
  Hour = 4
  Day = 12
  Forecasts <- SomeForecasts
  DataTypes <- SomeTypes
  SolarWindows <- DayWindows
  Nows <- SomeNows
  WeatherTimes <- SomePublished
  WeatherWindows <- SomeWeather
  Phases <- OnePhase
  Minute = 2
  LastMinute = 7
  InfluxNodes <- SomeSeries
  Table <- SomeTables
  Field <- SomeFields
  InfluxSecond = 2
  LastWrite = 1
  Times <- SomeTimes
  InfluxWindows <- SomeReads
  MaxWrites = 2
  Registers <- SomeRegisters
  Byte = 2
  InitialSize = 1
SPECIFICATION Spec
INVARIANTS AnswerIsPublished NodesAreRead ChunksAreCurrent ForecastIsReturned
INVARIANTS WeatherIsNewest ErrorIsNoticed ValuesReadBack WrittenIsRead
CHECK_DEADLOCK FALSE
