------------------------------ MODULE CsvFileDB ------------------------------
(***************************************************************************)
(* _CSVFileDB: the csv file a CsvSubscriptionHandler writes.  A row holds  *)
(* the values of one timestamp.  A value that comes late is put in its     *)
(* place in a buffer of rows, and a row that leaves the buffer is filled   *)
(* up with the latest known values of the other columns.  Only the writer  *)
(* thread of the handler is ever in here.                                  *)
(*                                                                         *)
(* A value is the number of its write, so that log says where it belongs.  *)
(* The size of a file is its number of rows: each row is flushed (by       *)
(* tell()) when it is written.                                             *)
(***************************************************************************)
EXTENDS Integers, Sequences, FiniteSetsExt

CONSTANTS
  Names,           \* names of nodes, the columns
  AsRead,          \* what is left of a name when the header is read back
  Timestamps,      \* rounded timestamps, as numbers
  _len_buffer,     \* the default of write()'s parameter
  file_size_limit, \* the rows above which a file is too large
  MaxWrites,       \* bound on the number of values
  MaxSessions      \* bound on the number of times a file is entered

CsvFileAssumption ==
  /\ AsRead \in [Names -> Names]
  /\ Timestamps \subseteq Int
  /\ _len_buffer \in Nat \ {0}
  /\ {file_size_limit, MaxWrites, MaxSessions} \subseteq Nat

VARIABLES
  files,           \* the files made so far: the header line and the rows of each
  filepath,        \* which of them is in use
  is_open,         \* between __enter__ and the end of __exit__
  _header,         \* self._header, without "Timestamp"
  _buffer,         \* self._timebuffer and self._buffer: rows not yet in the file
  _latest_values,  \* the latest known value of each name that has one
  log,             \* timestamp and name of every value written so far
  sessions         \* number of times a file was entered

vars == <<files, filepath, is_open, _header, _buffer, _latest_values, log, sessions>>

Empty == 0                                     \* an empty field
Value == 1..MaxWrites
NewFile == [header |-> <<>>, rows |-> <<>>]
Rows == files[filepath].rows
NoValues == [n \in {} |-> Empty]
Rng(s) == {s[i] : i \in DOMAIN s}

Init ==
  /\ files = <<NewFile>>
  /\ filepath = 1
  /\ is_open = FALSE
  /\ _header = <<>>
  /\ _buffer = <<>>
  /\ _latest_values = NoValues
  /\ log = <<>>
  /\ sessions = 0

-----------------------------------------------------------------------------
(* The buffer *)

\* The values of a row, with one more or another one.
Update(values, n, v) ==
  [m \in DOMAIN values \cup {n} |-> IF m = n THEN v ELSE values[m]]

InsertedAt(s, i, x) == SubSeq(s, 1, i - 1) \o <<x>> \o SubSeq(s, i, Len(s))

\* Where the row of a timestamp is, or has to go: after every earlier row.
Place(ts) ==
  CHOOSE i \in 1..(Len(_buffer) + 1) :
    /\ i > 1 => _buffer[i - 1].ts < ts
    /\ i <= Len(_buffer) => ts <= _buffer[i].ts

HasRow(ts) == Place(ts) <= Len(_buffer) /\ _buffer[Place(ts)].ts = ts

NewRow(ts, n, v) == [ts |-> ts, values |-> Update(NoValues, n, v)]

\* Mutant: a late value always gets a row of its own.
BufferedAlone(ts, n, v) == InsertedAt(_buffer, Place(ts), NewRow(ts, n, v))

\* The row of the timestamp gets the value, or a new row is put in its place.
Buffered(ts, n, v) ==
  IF HasRow(ts) THEN [_buffer EXCEPT ![Place(ts)].values = Update(@, n, v)]
                ELSE InsertedAt(_buffer, Place(ts), NewRow(ts, n, v))

-----------------------------------------------------------------------------
(* Rows that leave the buffer *)

\* Mutant: what was written before is not remembered.
KnownAfterForgets(buffer, k, n) ==
  LET with == {i \in 1..k : n \in DOMAIN buffer[i].values} IN
  IF with # {} THEN buffer[Max(with)].values[n] ELSE Empty

\* The value of n that is known once row k of the buffer has been written.
KnownAfter(buffer, k, n) ==
  LET with == {i \in 1..k : n \in DOMAIN buffer[i].values} IN
  IF with # {} THEN buffer[Max(with)].values[n]
  ELSE IF n \in DOMAIN _latest_values THEN _latest_values[n]
  ELSE Empty

\* Mutant: a known value is not replaced by a later one.
LatestAfterFirst(buffer, k) ==
  [n \in DOMAIN _latest_values \cup UNION {DOMAIN buffer[i].values : i \in 1..k} |->
     IF n \in DOMAIN _latest_values THEN _latest_values[n] ELSE KnownAfter(buffer, k, n)]

LatestAfter(buffer, k) ==
  [n \in DOMAIN _latest_values \cup UNION {DOMAIN buffer[i].values : i \in 1..k} |->
     KnownAfter(buffer, k, n)]

\* The first k rows of the buffer as rows of the file, one field per column.
Processed(buffer, k, header) ==
  [i \in 1..k |->
     [ts     |-> buffer[i].ts,
      fields |-> [c \in DOMAIN header |-> KnownAfter(buffer, i, header[c])]]]

size_limit_exceeded == Len(Rows) > file_size_limit

\* While the size is exceeded the buffer may grow to twice its length.
buffer_target ==
  IF size_limit_exceeded /\ Len(_buffer) < 2 * _len_buffer
    THEN 2 * _len_buffer
    ELSE _len_buffer

\* Rows are taken while at least buffer_target of them are left.
RowsOut(buffer) ==
  IF Len(buffer) >= buffer_target THEN Len(buffer) - buffer_target + 1 ELSE 0

\* The first k rows go to the file, whose header line may have grown; with
\* `leave` the program turns to a new file.
WriteRows(buffer, k, line, header, leave) ==
  LET file == [header |-> line, rows |-> Rows \o Processed(buffer, k, header)]
      all == [files EXCEPT ![filepath] = file]
  IN  /\ files' = IF leave THEN Append(all, NewFile) ELSE all
      /\ filepath' = IF leave THEN Len(files) + 1 ELSE filepath
      /\ _header' = IF leave THEN <<>> ELSE header
      /\ _buffer' = SubSeq(buffer, k + 1, Len(buffer))
      /\ _latest_values' = LatestAfter(buffer, k)

-----------------------------------------------------------------------------
(* The operations *)

\* A new handler opens a file: an empty one gets its header line, otherwise the
\* line is read, and the white space in its names is lost.
enter(f) ==
  /\ ~is_open
  /\ sessions < MaxSessions
  /\ sessions' = sessions + 1
  /\ is_open' = TRUE
  /\ filepath' = f
  /\ _header' = [c \in DOMAIN files[f].header |-> AsRead[files[f].header[c]]]
  /\ _buffer' = <<>>
  /\ _latest_values' = NoValues
  /\ UNCHANGED <<files, log>>

\* A name the header does not have becomes a column, in memory and in the file.
NewColumns(n) == IF n \in Rng(_header) THEN <<>> ELSE <<n>>

\* write() of a value.
write(ts, n) ==
  /\ is_open
  /\ Len(log) < MaxWrites
  /\ log' = Append(log, [ts |-> ts, name |-> n])
  /\ LET buffer == Buffered(ts, n, Len(log) + 1) IN
       WriteRows(buffer, RowsOut(buffer), files[filepath].header \o NewColumns(n),
                 _header \o NewColumns(n),
                 size_limit_exceeded /\ buffer_target <= _len_buffer)
  /\ UNCHANGED <<is_open, sessions>>

\* __exit__: write(flush=True) empties the buffer, whatever the size, and turns
\* to a new file if the size was exceeded and the new name is free.
exit ==
  /\ is_open
  /\ \E leave \in IF size_limit_exceeded THEN BOOLEAN ELSE {FALSE} :
       WriteRows(_buffer, Len(_buffer), files[filepath].header, _header, leave)
  /\ is_open' = FALSE
  /\ UNCHANGED <<log, sessions>>

Next ==
  \/ \E f \in DOMAIN files : enter(f)
  \/ \E ts \in Timestamps, n \in Names : write(ts, n)
  \/ exit

Spec == Init /\ [][Next]_vars

-----------------------------------------------------------------------------
(* Properties *)

RowType == [ts : Timestamps, fields : Seq(Value \cup {Empty})]

\* Types of the variables; what is known belongs to a column, and a row has no
\* more fields than its file has columns.
TypeOK ==
  /\ \A f \in DOMAIN files :
       /\ files[f].header \in Seq(Names)
       /\ files[f].rows \in Seq(RowType)
       /\ \A row \in Rng(files[f].rows) : Len(row.fields) <= Len(files[f].header)
  /\ filepath \in DOMAIN files
  /\ is_open \in BOOLEAN
  /\ _header \in Seq(Names)
  /\ \A i \in DOMAIN _buffer :
       /\ _buffer[i].ts \in Timestamps
       /\ Rng(_buffer[i].values) \subseteq Value
       /\ DOMAIN _buffer[i].values \subseteq Rng(_header)
  /\ Rng(_latest_values) \subseteq Value
  /\ log \in Seq([ts : Timestamps, name : Names])
  /\ Len(log) <= MaxWrites
  /\ sessions \in 0..MaxSessions

\* The buffer holds one row per timestamp, in their order, however late the
\* values come.
BufferSorted ==
  \A i, j \in DOMAIN _buffer : i < j => _buffer[i].ts < _buffer[j].ts

\* The buffer stays within twice its length, also of a file that is too large.
BufferBounded ==
  Len(_buffer) < (IF size_limit_exceeded THEN 2 * _len_buffer ELSE _len_buffer)

\* Every value is in the row of its timestamp, buffered or in a file, unless a
\* later value of the same name and timestamp is.
InBuffer(v) ==
  \E i \in DOMAIN _buffer :
    /\ _buffer[i].ts = log[v].ts
    /\ log[v].name \in DOMAIN _buffer[i].values
    /\ _buffer[i].values[log[v].name] = v
InFile(v) ==
  \E f \in DOMAIN files : \E row \in Rng(files[f].rows) :
    row.ts = log[v].ts /\ v \in Rng(row.fields)
NothingLost ==
  \A v \in DOMAIN log :
    \E w \in v..Len(log) : log[w] = log[v] /\ (InBuffer(w) \/ InFile(w))

\* A field of a file is empty, or has a value written under the name of its column, or
\* what is left of that name when the header is read: for the timestamp of its row, or
\* carried over from the row before.
CarriedOver(f, i, c) ==
  /\ i > 1
  /\ c \in DOMAIN files[f].rows[i - 1].fields
  /\ files[f].rows[i - 1].fields[c] = files[f].rows[i].fields[c]
FieldsBelong ==
  \A f \in DOMAIN files : \A i \in DOMAIN files[f].rows :
    \A c \in DOMAIN files[f].rows[i].fields :
      LET v == files[f].rows[i].fields[c] IN
      v # Empty =>
        /\ log[v].name \in {files[f].header[c], AsRead[files[f].header[c]]}
        /\ log[v].ts = files[f].rows[i].ts \/ CarriedOver(f, i, c)

\* A name with a known value has a field in every row from then on.  And until the
\* file is closed, a row is written only when _len_buffer - 1 later rows are waiting: a
\* value that comes at most that many rows late finds its place.
KnownAreFilled(rows) ==
  \A c \in DOMAIN _header : _header[c] \in DOMAIN _latest_values =>
    \A i \in Len(Rows) + 1..Len(rows) : rows[i].fields[c] # Empty

OthersWait(rows, buffer) ==
  Len(rows) > Len(Rows) =>
    /\ Len(buffer) >= _len_buffer - 1
    /\ \A i \in DOMAIN buffer : rows[Len(rows)].ts < buffer[i].ts

RowsAreWritten ==
  [][LET rows == files'[filepath].rows
     IN  KnownAreFilled(rows) /\ (is_open' => OthersWait(rows, _buffer'))]_vars

\* No name that is read back as it was written has two columns in a file.
ColumnsDistinct ==
  \A f \in DOMAIN files : \A c, d \in DOMAIN files[f].header :
    c # d /\ files[f].header[c] = files[f].header[d] =>
      AsRead[files[f].header[c]] # files[f].header[c]

\* "Extend header, if the value does not exist there yet": no name has two columns.
OneColumnPerName ==
  \A f \in DOMAIN files : \A c, d \in DOMAIN files[f].header :
    files[f].header[c] = files[f].header[d] => c = d

\* "A new file will be created, once the limit is exceeded": a file in use is larger by
\* the row that exceeds the limit and what a buffer holds at most.
NewFileOnceExceeded ==
  is_open => Len(Rows) <= file_size_limit + 1 + 2 * _len_buffer
=============================================================================
