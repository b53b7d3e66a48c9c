CONSTANTS
  n1 = n1
  n2 = n2
  Names = {n1, n2}
  Pushers = {p1, p2}
  Timestamps = {ts1, ts2, ts3}
  keep_data_rows = 2
  auto_fillna = TRUE
  MaxSeries = 2
  MaxValues = 3
  MaxResets = 1
  AsRead <- WithoutSpace
  FileTimestamps = {1, 2, 3, 4}
  _len_buffer = 2
  file_size_limit = 0
  MaxWrites = 5
  MaxSessions = 2
SPECIFICATION StorageSpec
SYMMETRY Symmetry
INVARIANTS BufferIsInOrder FileHoldsWhatWasWritten
INVARIANTS ValuesStay EntriesBelong RowsAreKept LatestIsFound
PROPERTIES RowsAreWritten
CHECK_DEADLOCK FALSE
