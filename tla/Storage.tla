------------------------------- MODULE Storage -------------------------------
(***************************************************************************)
(* Where subscription handlers keep values: the table of the data frame    *)
(* handler, or the file of the CSV handler.  A behavior is one of one of   *)
(* them, chosen at the start; the other one stays as it is.                *)
(***************************************************************************)
EXTENDS DFSubscriptionHandler

CONSTANTS
  AsRead,          \* what is left of a name when a file's header is read back
  FileTimestamps,  \* rounded timestamps of the file, as numbers
  _len_buffer, file_size_limit, MaxWrites, MaxSessions \* of the file

VARIABLES
  storage,        \* which one
  files, filepath, is_open, _header, _buffer, _latest_values, log, sessions \* of the file

table == vars
file == <<files, filepath, is_open, _header, _buffer, _latest_values, log, sessions>>
allVars == <<storage, table, file>>

File == INSTANCE CsvFileDB WITH Timestamps <- FileTimestamps

ASSUME FileAssumption == File!CsvFileAssumption

-----------------------------------------------------------------------------
StorageInit ==
  /\ storage \in {"table", "file"}
  /\ Init /\ File!Init

StorageNext ==
  /\ UNCHANGED storage
  /\ \/ storage = "table" /\ Next /\ UNCHANGED file
     \/ storage = "file" /\ File!Next /\ UNCHANGED table

StorageSpec == StorageInit /\ [][StorageNext]_allVars

-----------------------------------------------------------------------------
(* Properties of the file *)

\* The buffer holds one row per timestamp in their order, however late the values come,
\* and stays within twice its length, also of a file that is too large.
BufferIsInOrder == File!BufferSorted /\ File!BufferBounded

\* Every value is in the row of its timestamp, buffered or in a file, unless a later
\* value of the same name and timestamp is; any other field is empty or carried over
\* from the row before, in a column of its name, up to white space; and no name without
\* white space has two columns.
FileHoldsWhatWasWritten == File!NothingLost /\ File!FieldsBelong /\ File!ColumnsDistinct

\* A name with a known value has a field in every row from then on.  And until the
\* file is closed, a row is written only when _len_buffer - 1 later rows are waiting: a
\* value that comes at most that many rows late finds its place.
RowsAreWritten == File!RowsAreWritten
=============================================================================
