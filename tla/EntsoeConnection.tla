-------------------------- MODULE EntsoeConnection --------------------------
(***************************************************************************)
(* EntsoeConnection.read_series: a request for each node, in a thread of   *)
(* its own; a document with the gaps of its points filled up; and one      *)
(* table over all resolutions.                                             *)
(*                                                                         *)
(* The platform holds for each node a list of time series: their column,   *)
(* resolution, first time, end and the times that are left out; or it does *)
(* not work for it, refuses the request or sends what is no document; or   *)
(* the bidding zone or the endpoint of the node is not a known one.  A     *)
(* value is told apart by its series and the time it was published for.    *)
(***************************************************************************)
EXTENDS TimeSeries, SequencesExt

CONSTANTS
  Nodes,          \* the nodes that are read, in one call
  Hour,           \* the length of an hour
  Held,           \* what the platform may hold for a node
  Windows         \* the calls: records of from, to and interval

\* A resolution is a part of an hour, and a series begins with one.
EntsoeAssumption ==
  /\ Hour \in Nat \ {0}
  /\ Windows \subseteq [from : Int, to : Int, interval : Nat \ {0}]
  /\ \A h \in Held :
       /\ Len(h.series) \in Nat /\ DOMAIN h.series = 1..Len(h.series)
       /\ \A k \in DOMAIN h.series :
            LET ts == h.series[k]
            IN  /\ ts.resolution \in Nat \ {0} /\ Hour % ts.resolution = 0
                /\ ts.start \in Nat /\ ts.start % ts.resolution = 0
                /\ ts.end \in Int
  /\ NaN \notin [node : Nodes, of : Nat, at : Int]

\* Where two series of a column have times in common, the first one has every value of
\* the second: of two values for a time the first is kept, and a gap counts as one.
NothingHidden ==
  \A h \in Held : \A j, k \in DOMAIN h.series :
    /\ j < k
    /\ h.series[j].column = h.series[k].column
    /\ h.series[j].resolution = h.series[k].resolution
    => \A t \in h.series[j].holes :
         /\ h.series[j].start <= t /\ t < h.series[j].end
         /\ h.series[k].start <= t /\ t < h.series[k].end
         => t \in h.series[k].holes

VARIABLES
  stage,          \* of a call: "idle", "reading", "answered", "raised"
  call,           \* the window of the call of read_series that is under way
  service,        \* what the platform holds for each node
  frames,         \* what the threads have returned so far
  answer          \* what read_series returned

vars == <<stage, call, service, frames, answer>>

None == <<>>      \* also the table without columns

EntsoeInit ==
  /\ stage = "idle"
  /\ call = <<>>
  /\ service \in [Nodes -> Held]
  /\ frames = <<>>
  /\ answer = <<>>

-----------------------------------------------------------------------------
(* The request *)

\* create_params: the period is given in whole hours; round_timestamp rounds up
\* unless it is told otherwise.
create_params(w) ==
  LET to == round_timestamp(w.to, Hour, "ceil")
  IN  [periodStart |-> round_timestamp(w.from, Hour, "ceil"),
       periodEnd   |-> IF to < w.to THEN to + Hour ELSE to]

Value(n, k, t) == [node |-> n, of |-> k, at |-> t]

\* The elements of a finite set of numbers from the least to the greatest.
Ascending(S) ==
  [i \in 1..Cardinality(S) |-> CHOOSE t \in S : Cardinality({u \in S : u < t}) = i - 1]

\* What the platform answers: a period for each series with data in the one asked
\* for.  A period without any data is an error.
TimeSeriesOf(n, k, ts, p) ==
  LET start == Max({ts.start, p.periodStart})
      end == Min({ts.end, p.periodEnd})
      times == {t \in start..end - 1 : (t - start) % ts.resolution = 0}
  IN  [column |-> ts.column, resolution |-> ts.resolution, start |-> start,
       length |-> Cardinality(times),
       points |-> [i \in 1..Cardinality(times \ ts.holes) |->
                     LET t == Ascending(times \ ts.holes)[i]
                     IN  [position |-> (t - start) \div ts.resolution + 1,
                          value |-> Value(n, k, t)]]]

Response(n, p) ==
  LET all == [k \in DOMAIN service[n].series |-> TimeSeriesOf(n, k, service[n].series[k], p)]
  IN  Restrict(all, {k \in DOMAIN all : all[k].points # <<>>})

-----------------------------------------------------------------------------
(* _handle_xml *)

\* Mutant: the positions of the points begin at 0.
FillGapsFromZero(ts) ==
  LET present == {ts.points[i].position : i \in DOMAIN ts.points}
      missing == Ascending((0..ts.length - 1) \ present)
  IN  FoldLeft(LAMBDA data, miss : InsertAt(data, miss + 1, NaN),
               [i \in DOMAIN ts.points |-> ts.points[i].value], missing)

\* ts_data: a value for each position; NaN is inserted where one is missing, from
\* the first to the last.
FillGaps(ts) ==
  LET present == {ts.points[i].position - 1 : i \in DOMAIN ts.points}
      missing == Ascending((0..ts.length - 1) \ present)
  IN  FoldLeft(LAMBDA data, miss : InsertAt(data, miss + 1, NaN),
               [i \in DOMAIN ts.points |-> ts.points[i].value], missing)

SeriesOf(ts) ==
  [t \in {ts.start + ts.resolution * (i - 1) : i \in 1..ts.length} |->
     FillGaps(ts)[(t - ts.start) \div ts.resolution + 1]]

\* data[resolution][column]: the series one after the other, and of two values for
\* the same time the first, which df_resample keeps.
ColumnOf(document, c, r) ==
  LET parts == {k \in DOMAIN document : document[k].column = c /\ document[k].resolution = r}
      times == UNION {DOMAIN SeriesOf(document[k]) : k \in parts}
  IN  [t \in times |-> LET k == Min({j \in parts : t \in DOMAIN SeriesOf(document[j])})
                       IN  SeriesOf(document[k])[t]]

\* The series that are in the column of one of them.
Parts(document, k) ==
  {j \in DOMAIN document : /\ document[j].column = document[k].column
                           /\ document[j].resolution = document[k].resolution}

\* The times of that column, with those that are in two of its series.
IndexOf(document, k) ==
  FoldLeft(LAMBDA index, j : index \o Ascending(DOMAIN SeriesOf(document[j])), <<>>,
           Ascending(Parts(document, k)))

Occurrences(index, t) == Cardinality({i \in DOMAIN index : index[i] = t})

\* DataFrame.from_dict raises for a column that has a time twice, if the columns do not
\* agree, and it is out of order or another one has a time more often.
Clashes(document) ==
  \E k, l \in DOMAIN document :
    LET own == IndexOf(document, k)
        other == IndexOf(document, l)
    IN  /\ document[k].resolution = document[l].resolution /\ own # other
        /\ \E i, j \in Parts(document, k) :
             i # j /\ DOMAIN SeriesOf(document[i]) \cap DOMAIN SeriesOf(document[j]) # {}
        /\ \/ \E i, j \in DOMAIN own : i < j /\ own[i] > own[j]
           \/ \E t \in Range(other) : Occurrences(other, t) > Occurrences(own, t)

-----------------------------------------------------------------------------
(* read_series *)

\* The table of one resolution: resampled, then cut to the window.
FrameOf(document, r, w) ==
  LET columns == {ts.column : ts \in {x \in Range(document) : x.resolution = r}}
      frame == Concat([c \in columns |-> ColumnOf(document, c, r)])
  IN  [c \in columns |-> df_time_slice(df_resample(frame[c], w.interval), w.from, w.to)]

\* The table of a node, its columns told apart by their resolution.
FrameOfNode(document, w) ==
  LET keys == {<<ts.column, ts.resolution>> : ts \in Range(document)}
      joined == Concat([key \in keys |-> FrameOf(document, key[2], w)[key[1]]])
  IN  [key \in keys |-> ffill(joined[key])]

\* A request that failed, a document that cannot be parsed and one without data
\* leave out the node.
read_node(n, w) ==
  LET document == Response(n, create_params(w))
  IN  IF ~service[n].works \/ document = <<>> THEN None ELSE FrameOfNode(document, w)

\* What is outside of the try block: the parameters of the request, and a document
\* that can be parsed but not be made a table.
Raises(n, w) ==
  \/ ~service[n].known
  \/ service[n].works /\ Clashes(Response(n, create_params(w)))

read_series ==
  /\ stage = "idle"
  /\ stage' = "reading"
  /\ \E w \in Windows :
       call' = _preprocess_series_context(w.from, w.to, w.interval)
  /\ UNCHANGED <<service, frames, answer>>

Thread(n) ==
  /\ stage = "reading"
  /\ n \notin DOMAIN frames
  /\ ~Raises(n, call)
  /\ frames' = [m \in DOMAIN frames \cup {n} |-> IF m = n THEN read_node(n, call) ELSE frames[m]]
  /\ UNCHANGED <<stage, call, service, answer>>

\* The results are asked for one after the other: the exception of a thread is that of
\* the call, the results of the others are lost, and those not begun are cancelled.
raise ==
  /\ stage = "reading"
  /\ \E n \in Nodes : Raises(n, call)
  /\ stage' = "raised"
  /\ UNCHANGED <<call, service, frames, answer>>

\* Mutant: a node without a table ends the joining.
concat_up_to_error ==
  /\ stage = "reading" /\ DOMAIN frames = Nodes
  /\ stage' = "answered"
  /\ LET read == {n \in Nodes : \A m \in Nodes : frames[m] # None}
         columns == {<<n, key>> : n \in read, key \in UNION {DOMAIN frames[m] : m \in read}}
         present == {c \in columns : c[2] \in DOMAIN frames[c[1]]}
     IN  answer' = Concat([c \in present |-> frames[c[1]][c[2]]])
  /\ UNCHANGED <<call, service, frames>>

\* The tables of the nodes side by side, without those that have none.
concat ==
  /\ stage = "reading" /\ DOMAIN frames = Nodes
  /\ stage' = "answered"
  /\ LET read == {n \in Nodes : frames[n] # None}
         columns == {<<n, key>> : n \in read, key \in UNION {DOMAIN frames[m] : m \in read}}
         present == {c \in columns : c[2] \in DOMAIN frames[c[1]]}
     IN  answer' = Concat([c \in present |-> frames[c[1]][c[2]]])
  /\ UNCHANGED <<call, service, frames>>

EntsoeNext ==
  \/ read_series
  \/ \E n \in Nodes : Thread(n)
  \/ concat \/ raise

-----------------------------------------------------------------------------
(* Properties *)

\* The values the platform holds in a column of a node.
Published(n, key) ==
  {x \in (DOMAIN service[n].series) \X (0..Max({ts.end : ts \in Range(service[n].series)})) :
     LET ts == service[n].series[x[1]]
         t == x[2]
     IN  /\ ts.column = key[1] /\ ts.resolution = key[2]
         /\ ts.start <= t /\ t < ts.end /\ t % ts.resolution = 0 /\ t \notin ts.holes}

\* What a row says of a node is what was published for it, in that column, and
\* none of the rows up to it has a newer value.
AnswerIsPublished ==
  stage = "answered" =>
    \A c \in DOMAIN answer : \A t \in DOMAIN answer[c] :
      LET v == answer[c][t]
          known == {x[2] : x \in Published(c[1], c[2])}
      IN  v # NaN => /\ v.node = c[1] /\ <<v.of, v.at>> \in Published(c[1], c[2])
                     /\ v.at <= t
                     /\ \A u \in known : v.at < u /\ u <= t => u % call.interval # 0

\* A gap is bridged: between two rows with a value none of the rows of its node, in
\* any column, is without.
GapsAreFilled ==
  stage = "answered" =>
    \A c \in DOMAIN answer : \A t, u \in Filled(answer[c]) :
      \A v \in DOMAIN frames[c[1]][c[2]] : t <= v /\ v <= u => v \in Filled(answer[c])

HasData(n) ==
  LET p == create_params(call)
  IN  \E ts \in Range(service[n].series) :
        \E t \in p.periodStart..p.periodEnd - 1 :
          ts.start <= t /\ t < ts.end /\ t % ts.resolution = 0 /\ t \notin ts.holes

\* Two series have a time in common, beside a column that is not theirs.
Overlaps(n) ==
  \E j, k, l \in DOMAIN service[n].series :
    LET a == service[n].series[j]
        b == service[n].series[k]
        c == service[n].series[l]
    IN  /\ j # k /\ a.column = b.column /\ a.column # c.column
        /\ a.resolution = b.resolution /\ a.resolution = c.resolution
        /\ \E t \in a.start..a.end - 1 :
             b.start <= t /\ t < b.end /\ t % a.resolution = 0

\* A request that fails, or is answered without data, does not cost another node its
\* columns: an answer has columns of just the nodes that there is data of.  Only a
\* node that is not known, or has series that overlap beside another column, can cost
\* the others theirs.
NodesAreRead ==
  /\ stage = "answered" =>
       \A n \in Nodes :
         (\E c \in DOMAIN answer : c[1] = n) <=> service[n].works /\ HasData(n)
  /\ stage = "raised" => \E n \in Nodes : ~service[n].known \/ Overlaps(n)

\* "Round down at from_time and up at to_time to receive all necessary values": what
\* was published for the window is in the answer.
WindowIsComplete ==
  stage = "answered" =>
    \A n \in Nodes : frames[n] # None =>
      \A ts \in Range(service[n].series) : \A x \in Published(n, <<ts.column, ts.resolution>>) :
        call.from <= x[2] /\ x[2] < call.to /\ x[2] % call.interval = 0
          => \E c \in DOMAIN answer : /\ c = <<n, <<ts.column, ts.resolution>>>>
                                      /\ x[2] \in Filled(answer[c])
                                      /\ answer[c][x[2]].at = x[2]
=============================================================================
