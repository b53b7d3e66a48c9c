--------------------------- MODULE RequestsProofs ---------------------------
(***************************************************************************)
(* Proofs about Requests: what a call of an EntsoeConnection, a            *)
(* SmardConnection, a ForecastsolarConnection, a WetterdienstConnection,   *)
(* an InfluxConnection and a ModbusConnection returns, and when an         *)
(* EmonioConnection notices an error of its device.                        *)
(***************************************************************************)
EXTENDS Requests, Sequences, FiniteSetTheorems, WellFoundedInduction, TLAPS

-----------------------------------------------------------------------------
(* Numbers *)

\* Some natural numbers have a least one.
LEMMA HasLeast ==
  ASSUME NEW T \in SUBSET Nat, T # {}
  PROVE  \E d \in T : \A e \in T : d <= e
<1> DEFINE R == OpToRel(<, Nat)
<1>1. \A y, x \in Nat : y < x => <<y, x>> \in R
  BY DEF OpToRel
<1>2. IsWellFoundedOn(R, Nat)
  BY NatLessThanWellFounded
<1> HIDE DEF R
<1>3. PICK d \in T : \A e \in T : ~ (<<e, d>> \in R)
  BY <1>2, WFMin, Zenon
<1>4. \A e \in T : ~ (e < d)
  BY <1>1, <1>3, Zenon
<1>5. d \in Nat /\ \A e \in T : e \in Nat
  OBVIOUS
<1> QED
  BY <1>4, <1>5

HasEnds(S) == (\E x \in S : \A y \in S : x >= y) /\ (\E x \in S : \A y \in S : x <= y)

\* A finite set of numbers has a greatest and a least one.
LEMMA FiniteHasEnds ==
  ASSUME NEW S \in SUBSET Int, IsFiniteSet(S), S # {}
  PROVE  HasEnds(S)
<1> DEFINE Endless(n) == \E X \in SUBSET S : X # {} /\ Cardinality(X) = n /\ ~HasEnds(X)
<1> DEFINE T == {n \in Nat : Endless(n)}
<1>1. SUFFICES ASSUME ~HasEnds(S) PROVE FALSE
  OBVIOUS
<1>2. Cardinality(S) \in T
  BY <1>1, FS_CardinalityType
<1>3. PICK n \in T : \A m \in T : n <= m
  <2>1. T \in SUBSET Nat /\ T # {}
    BY <1>2
  <2> HIDE DEF T
  <2> QED
    BY <2>1, HasLeast
<1>4. PICK X \in SUBSET S : X # {} /\ Cardinality(X) = n /\ ~HasEnds(X)
  BY <1>3
<1>5. PICK z \in X : TRUE
  BY <1>4
<1>6. IsFiniteSet(X)
  BY FS_Subset
<1>7. IsFiniteSet(X \ {z}) /\ Cardinality(X \ {z}) = n - 1
  BY <1>4, <1>5, <1>6, FS_RemoveElement
<1>8. n - 1 \in Nat
  BY <1>7, FS_CardinalityType
<1>9. X \ {z} # {}
  <2>1. SUFFICES ASSUME X \ {z} = {} PROVE FALSE
    OBVIOUS
  <2>2. X = {z} /\ z \in Int
    BY <2>1, <1>5
  <2> QED
    BY <2>2, <1>4 DEF HasEnds
<1>10. HasEnds(X \ {z})
  <2>1. n \in Nat /\ ~ (n <= n - 1)
    BY <1>3
  <2>2. n - 1 \notin T
    BY <2>1, <1>3
  <2> QED
    BY <2>2, <1>7, <1>8, <1>9
<1>11. PICK a \in X \ {z} : \A y \in X \ {z} : a >= y
  BY <1>10 DEF HasEnds
<1>12. PICK b \in X \ {z} : \A y \in X \ {z} : b <= y
  BY <1>10 DEF HasEnds
<1>13. \A y \in X : y \in Int
  OBVIOUS
<1>14. \E x \in X : \A y \in X : x >= y
  <2>1. CASE a >= z
    BY <2>1, <1>5, <1>11, <1>13
  <2>2. CASE z >= a
    BY <2>2, <1>5, <1>11, <1>13
  <2> QED
    BY <2>1, <2>2, <1>5, <1>13
<1>15. \E x \in X : \A y \in X : x <= y
  <2>1. CASE b <= z
    BY <2>1, <1>5, <1>12, <1>13
  <2>2. CASE z <= b
    BY <2>2, <1>5, <1>12, <1>13
  <2> QED
    BY <2>1, <2>2, <1>5, <1>13
<1> QED
  BY <1>4, <1>14, <1>15 DEF HasEnds

-----------------------------------------------------------------------------
(* Emonio: an error that was not noticed came up after the last check.     *)

EmonioTypes ==
  /\ clock \in Nat /\ _last_error_check \in Int
  /\ device \in [up : BOOLEAN, phases : SUBSET Phases, error : BOOLEAN, since : Nat]
  /\ check_error \in BOOLEAN /\ noticed \in BOOLEAN
EmonioTimes == device.since <= clock /\ _last_error_check <= clock
NoticedInv == device.error /\ ~noticed => _last_error_check <= device.since
CheckedInv ==
  outcome = "values" /\ check_error /\ device.error => clock - _last_error_check < Minute

EmonioInv ==
  connection = "emonio" => EmonioTypes /\ EmonioTimes /\ NoticedInv /\ CheckedInv

\* Every step of the meter and of its connection keeps the times in order.
LEMMA EmonioStep ==
  ASSUME EmonioInv, connection = "emonio", Emonio!EmonioNext
  PROVE  (EmonioTypes /\ EmonioTimes /\ NoticedInv /\ CheckedInv)'
<1> USE DEF EmonioTypes, EmonioTimes, NoticedInv, CheckedInv
<1>1. EmonioTypes /\ EmonioTimes /\ NoticedInv /\ CheckedInv
  BY DEF EmonioInv
<1>2. Minute \in Nat \ {0}
  BY RequestsAssumption DEF RequestsAssumption, Emonio!EmonioAssumption
<1>3. Emonio!Between # "values"
  BY DEF Emonio!Between
<1>4. CASE Emonio!Tick
  BY <1>1, <1>3, <1>4 DEF Emonio!Tick
<1>5. CASE Emonio!DeviceChanges
  <2>1. UNCHANGED <<clock, check_error, _last_error_check>> /\ outcome' # "values"
    BY <1>3, <1>5 DEF Emonio!DeviceChanges
  <2>2. noticed' = (noticed /\ device'.error)
    BY <1>5 DEF Emonio!DeviceChanges
  <2>3. /\ device' \in [up : BOOLEAN, phases : SUBSET Phases, error : BOOLEAN, since : Nat]
        /\ \/ device'.error = device.error /\ device'.since = device.since
           \/ device'.error = ~device.error /\ device'.since = clock
    <3>1. CASE device' = [device EXCEPT !.up = ~@]
      BY <1>1, <3>1
    <3>2. CASE device' = [device EXCEPT !.error = ~@, !.since = clock]
      BY <1>1, <3>2
    <3>3. ASSUME NEW phases \in SUBSET Phases, device' = [device EXCEPT !.phases = phases]
          PROVE  /\ device' \in [up : BOOLEAN, phases : SUBSET Phases, error : BOOLEAN, since : Nat]
                 /\ device'.error = device.error /\ device'.since = device.since
      BY <1>1, <3>3
    <3> QED
      BY <1>5, <3>1, <3>2, <3>3 DEF Emonio!DeviceChanges
  <2> QED
    BY <1>1, <2>1, <2>2, <2>3
<1>6. CASE Emonio!__init__
  BY <1>1, <1>6 DEF Emonio!__init__
<1>7. ASSUME NEW phase \in Phases \cup {"abc"}, Emonio!read(phase)
      PROVE  (EmonioTypes /\ EmonioTimes /\ NoticedInv /\ CheckedInv)'
  <2> DEFINE due == clock - _last_error_check >= Minute
  <2>1. UNCHANGED <<clock, device, check_error>>
    BY <1>7 DEF Emonio!read
  <2>2. /\ _last_error_check' = IF check_error /\ due THEN clock ELSE _last_error_check
        /\ noticed' = (noticed \/ (check_error /\ due /\ device.error))
    BY <1>7 DEF Emonio!read, Emonio!check_warnings_and_errors, Emonio!Due
  <2>3. outcome' = "values" /\ check_error /\ device.error => ~due
    BY <1>7 DEF Emonio!read, Emonio!Raised, Emonio!Due
  <2> QED
    BY <1>1, <1>2, <2>1, <2>2, <2>3
<1> QED
  BY <1>4, <1>5, <1>6, <1>7 DEF Emonio!EmonioNext

\* Values are not returned for a minute under an error of the device, unless
\* a call has raised because of it or because the check failed.
THEOREM EmonioErrorIsNoticed == Spec => []ErrorIsNoticed
<1>1. ASSUME Init PROVE EmonioInv
  <2> SUFFICES ASSUME connection = "emonio"
      PROVE  EmonioTypes /\ EmonioTimes /\ NoticedInv /\ CheckedInv
    BY DEF EmonioInv
  <2>1. Emonio!EmonioInit
    BY <1>1 DEF Init
  <2>2. Minute \in Nat
    BY RequestsAssumption DEF RequestsAssumption, Emonio!EmonioAssumption
  <2>3. /\ clock = 0 /\ _last_error_check = -Minute /\ outcome = "none"
        /\ check_error \in BOOLEAN /\ noticed = FALSE
        /\ device \in [up : BOOLEAN, phases : SUBSET Phases, error : BOOLEAN, since : {0}]
    BY <2>1 DEF Emonio!EmonioInit, Emonio!Never
  <2>4. /\ device \in [up : BOOLEAN, phases : SUBSET Phases, error : BOOLEAN, since : Nat]
        /\ device.since = 0
    BY <2>3
  <2>5. noticed \in BOOLEAN
    BY <2>3, Zenon
  <2>6. -Minute \in Int /\ -Minute <= 0
    BY <2>2
  <2>7. EmonioTypes
    BY <2>3, <2>4, <2>5, <2>6 DEF EmonioTypes
  <2>8. EmonioTimes /\ NoticedInv
    BY <2>3, <2>4, <2>6 DEF EmonioTimes, NoticedInv
  <2>9. CheckedInv
    BY <2>3 DEF CheckedInv
  <2> QED
    BY <2>7, <2>8, <2>9
<1>2. ASSUME EmonioInv, [Next]_vars PROVE EmonioInv'
  <2> SUFFICES ASSUME connection' = "emonio"
      PROVE  (EmonioTypes /\ EmonioTimes /\ NoticedInv /\ CheckedInv)'
    BY DEF EmonioInv
  <2>1. connection = "emonio" /\ (Emonio!EmonioNext \/ UNCHANGED emonio)
    BY <1>2 DEF Next, vars, emonio
  <2>2. CASE Emonio!EmonioNext
    BY <1>2, <2>1, <2>2, EmonioStep
  <2>3. CASE UNCHANGED emonio
    BY <1>2, <2>1, <2>3
    DEF emonio, EmonioInv, EmonioTypes, EmonioTimes, NoticedInv, CheckedInv
  <2> QED
    BY <2>1, <2>2, <2>3
<1>3. ASSUME EmonioInv PROVE ErrorIsNoticed
  <2> SUFFICES ASSUME connection = "emonio", outcome = "values", check_error, device.error
      PROVE  noticed \/ clock - device.since < Minute
    BY DEF ErrorIsNoticed, Emonio!ErrorIsNoticed
  <2>1. EmonioTypes /\ EmonioTimes /\ NoticedInv /\ CheckedInv
    BY <1>3 DEF EmonioInv
  <2>2. Minute \in Nat
    BY RequestsAssumption DEF RequestsAssumption, Emonio!EmonioAssumption
  <2> QED
    BY <2>1, <2>2 DEF EmonioTypes, EmonioTimes, NoticedInv, CheckedInv
<1> QED
  BY <1>1, <1>2, <1>3, PTL DEF Spec

-----------------------------------------------------------------------------
(* ENTSO-E: the threads fill the gaps of the columns of their nodes, and   *)
(* the tables are joined without those of the nodes that failed.           *)

\* A number that is rounded down, or up.
LEMMA RoundedNumbers ==
  ASSUME NEW a \in Int, NEW i \in Nat \ {0}
  PROVE  /\ (a \div i) * i \in Int /\ (a \div i) * i <= a
         /\ -(((-a) \div i) * i) \in Int
<1>1. i \in Int /\ i > 0
  OBVIOUS
<1>2. a \div i \in Int /\ (-a) \div i \in Int
  BY <1>1
<1>3. (a \div i) * i <= a
  BY <1>1
<1> QED
  BY <1>1, <1>2, <1>3

\* The greatest time, as the instances of TimeSeries define it.
LEMMA EntsoeMax ==
  ASSUME NEW S \in SUBSET Int, IsFiniteSet(S), S # {}
  PROVE  Entsoe!Max(S) \in S /\ \A y \in S : Entsoe!Max(S) >= y
BY FiniteHasEnds DEF Entsoe!Max, HasEnds

\* A column behind its first value.
Bridged(s) ==
  \A t \in Entsoe!Filled(s), v \in DOMAIN s : t <= v => v \in Entsoe!Filled(s)

LEMMA FfillBridges ==
  ASSUME NEW s, DOMAIN s \in SUBSET Int, IsFiniteSet(DOMAIN s)
  PROVE  DOMAIN Entsoe!ffill(s) = DOMAIN s /\ Bridged(Entsoe!ffill(s))
<1> DEFINE before(t) == {u \in Entsoe!Filled(s) : u <= t}
<1>1. \A t \in DOMAIN s :
        Entsoe!ffill(s)[t] = IF before(t) = {} THEN NaN ELSE s[Entsoe!Max(before(t))]
  BY DEF Entsoe!ffill
<1>2. DOMAIN Entsoe!ffill(s) = DOMAIN s
  BY DEF Entsoe!ffill
<1>3. ASSUME NEW t \in DOMAIN s, before(t) # {}
      PROVE  Entsoe!ffill(s)[t] # NaN
  <2>1. before(t) \in SUBSET DOMAIN s
    BY DEF Entsoe!Filled
  <2>2. IsFiniteSet(before(t)) /\ before(t) \in SUBSET Int
    BY <2>1, FS_Subset
  <2>3. Entsoe!Max(before(t)) \in before(t)
    BY <1>3, <2>2, EntsoeMax
  <2> QED
    BY <1>1, <1>3, <2>3 DEF Entsoe!Filled
<1>4. SUFFICES ASSUME NEW t \in Entsoe!Filled(Entsoe!ffill(s)), NEW v \in DOMAIN s, t <= v
      PROVE  Entsoe!ffill(s)[v] # NaN
  BY <1>2 DEF Bridged, Entsoe!Filled
<1>5. t \in DOMAIN s /\ before(t) # {}
  BY <1>1, <1>2 DEF Entsoe!Filled
<1>6. PICK u \in Entsoe!Filled(s) : u <= t
  BY <1>5
<1>7. u \in Int /\ t \in Int /\ v \in Int
  BY <1>5 DEF Entsoe!Filled
<1>8. u \in before(v)
  BY <1>4, <1>6, <1>7
<1> QED
  BY <1>3, <1>8

\* What a thread returns: a table with columns that are bridged over the same rows, or
\* none.
ReadTable(f) ==
  f # Entsoe!None => DOMAIN f # {} /\ \A key \in DOMAIN f : Bridged(f[key])

\* A thread returns columns that are bridged.
LEMMA ThreadBridges ==
  ASSUME NEW document, NEW w, w.from \in Int, w.to \in Int
  PROVE  ReadTable(Entsoe!FrameOfNode(document, w))
<1> DEFINE keys == {<<ts.column, ts.resolution>> : ts \in Entsoe!Range(document)}
<1> DEFINE cols == [key \in keys |-> Entsoe!FrameOf(document, key[2], w)[key[1]]]
<1> DEFINE table == Entsoe!Concat(cols)
<1> DEFINE rows == UNION {DOMAIN cols[c] : c \in keys}
<1>1. Entsoe!FrameOfNode(document, w) = [key \in keys |-> Entsoe!ffill(table[key])]
  BY DEF Entsoe!FrameOfNode
<1>2. \A key \in keys : DOMAIN table[key] = rows
  BY DEF Entsoe!Concat
<1>3. ASSUME NEW key \in keys
      PROVE  DOMAIN cols[key] \subseteq w.from..w.to
  <2>1. PICK ts \in Entsoe!Range(document) : key = <<ts.column, ts.resolution>>
    OBVIOUS
  <2>2. key[1] \in {x.column : x \in {x \in Entsoe!Range(document) : x.resolution = key[2]}}
    BY <2>1
  <2>3. PICK s, i : cols[key] = Entsoe!df_time_slice(Entsoe!df_resample(s, i), w.from, w.to)
    BY <2>2 DEF Entsoe!FrameOf
  <2>4. DOMAIN cols[key] =
          {t \in DOMAIN Entsoe!df_resample(s, i) : w.from <= t /\ t <= w.to}
    BY <2>3 DEF Entsoe!df_time_slice, Entsoe!Restrict
  <2>5. \/ DOMAIN s = {} /\ DOMAIN Entsoe!df_resample(s, i) = {}
        \/ DOMAIN Entsoe!df_resample(s, i) =
             Entsoe!Grid(Entsoe!Floor(Entsoe!Min(DOMAIN s), i), Entsoe!Max(DOMAIN s), i)
    BY DEF Entsoe!df_resample
  <2>6. DOMAIN Entsoe!df_resample(s, i) \subseteq Int
    BY <2>5 DEF Entsoe!Grid
  <2> QED
    BY SMTT(30), <2>4, <2>6
<1>4. rows \in SUBSET Int /\ IsFiniteSet(rows)
  <2>1. rows \in SUBSET (w.from..w.to)
    BY <1>3
  <2>2. IsFiniteSet(w.from..w.to)
    BY FS_Interval
  <2> HIDE DEF rows
  <2>3. IsFiniteSet(rows)
    BY <2>1, <2>2, FS_Subset
  <2> QED
    BY <2>1, <2>3
<1>5. \A key \in keys : Bridged(Entsoe!ffill(table[key]))
  BY <1>2, <1>4, FfillBridges
<1>6. SUFFICES ASSUME Entsoe!FrameOfNode(document, w) # Entsoe!None, keys = {} PROVE FALSE
  BY <1>1, <1>5 DEF ReadTable
<1> QED
  BY <1>1, <1>6 DEF Entsoe!None

\* What concat makes of the tables.
JoinedNodes == {n \in Nodes : frames[n] # Entsoe!None}
JoinedColumns ==
  {c \in {<<n, key>> : n \in JoinedNodes, key \in UNION {DOMAIN frames[m] : m \in JoinedNodes}} :
     c[2] \in DOMAIN frames[c[1]]}
JoinedTable == Entsoe!Concat([c \in JoinedColumns |-> frames[c[1]][c[2]]])

EntsoeTables ==
  /\ stage \in {"idle", "reading", "answered", "raised"}
  /\ stage # "idle" => call.from \in Int /\ call.to \in Int
  /\ \A n \in DOMAIN frames : ReadTable(frames[n])
  /\ stage = "answered" => DOMAIN frames = Nodes /\ answer = JoinedTable

\* Every step of a call keeps the tables bridged, and the answer made of them.
LEMMA EntsoeStep ==
  ASSUME EntsoeTables, Entsoe!EntsoeNext
  PROVE  EntsoeTables'
<1>1. CASE Entsoe!read_series
  <2>1. PICK w \in EntsoeWindows :
          call' = Entsoe!_preprocess_series_context(w.from, w.to, w.interval)
    BY <1>1 DEF Entsoe!read_series
  <2>2. w.from \in Int /\ w.to \in Int /\ w.interval \in Nat \ {0}
    BY RequestsAssumption DEF RequestsAssumption, Entsoe!EntsoeAssumption
  <2>3. -w.to \in Int
    BY <2>2
  <2>4. call'.from \in Int /\ call'.to \in Int
    BY <2>1, <2>2, RoundedNumbers
    DEF Entsoe!_preprocess_series_context, Entsoe!round_timestamp, Entsoe!Floor,
        Entsoe!Ceil
  <2> QED
    BY <1>1, <2>4 DEF EntsoeTables, Entsoe!read_series
<1>2. ASSUME NEW n \in Nodes, Entsoe!Thread(n)
      PROVE  EntsoeTables'
  <2>1. /\ stage = "reading" /\ UNCHANGED <<stage, call, answer>>
        /\ frames' = [m \in DOMAIN frames \cup {n} |->
                        IF m = n THEN Entsoe!read_node(n, call) ELSE frames[m]]
    BY <1>2 DEF Entsoe!Thread
  <2>2. ReadTable(Entsoe!read_node(n, call))
    <3>1. call.from \in Int /\ call.to \in Int
      BY <2>1 DEF EntsoeTables
    <3>2. \A document : ReadTable(Entsoe!FrameOfNode(document, call))
      BY <3>1, ThreadBridges
    <3>3. ReadTable(Entsoe!None)
      BY DEF ReadTable
    <3> QED
      BY <3>2, <3>3 DEF Entsoe!read_node
  <2> QED
    BY <2>1, <2>2 DEF EntsoeTables
<1>3. CASE Entsoe!concat
  <2>1. UNCHANGED <<call, frames>> /\ stage' = "answered" /\ DOMAIN frames = Nodes
    BY <1>3 DEF Entsoe!concat
  <2>2. stage = "reading" /\ answer' = JoinedTable
    BY <1>3 DEF Entsoe!concat, JoinedTable, JoinedColumns, JoinedNodes
  <2>3. JoinedTable' = JoinedTable
    BY <2>1 DEF JoinedTable, JoinedColumns, JoinedNodes
  <2> QED
    BY <2>1, <2>2, <2>3 DEF EntsoeTables
<1>4. CASE Entsoe!raise
  BY <1>4 DEF EntsoeTables, Entsoe!raise
<1> QED
  BY <1>1, <1>2, <1>3, <1>4 DEF Entsoe!EntsoeNext

\* An answer has columns of the nodes that have a table.
LEMMA JoinedNodesHaveColumns ==
  ASSUME EntsoeTables, stage = "answered", NEW n \in Nodes
  PROVE  (\E c \in DOMAIN answer : c[1] = n) <=> frames[n] # Entsoe!None
<1>1. DOMAIN answer = JoinedColumns
  BY DEF EntsoeTables, JoinedTable, Entsoe!Concat
<1>2. ASSUME frames[n] # Entsoe!None
      PROVE  \E c \in JoinedColumns : c[1] = n
  <2>1. PICK key \in DOMAIN frames[n] : TRUE
    BY <1>2 DEF EntsoeTables, ReadTable
  <2>2. <<n, key>> \in JoinedColumns
    BY <1>2, <2>1 DEF JoinedColumns, JoinedNodes
  <2> QED
    BY <2>2
<1>3. ASSUME NEW c \in JoinedColumns, c[1] = n
      PROVE  frames[n] # Entsoe!None
  BY <1>3 DEF JoinedColumns, JoinedNodes
<1> QED
  BY <1>1, <1>2, <1>3

\* Between two rows with a value none of the rows of its node is without.
LEMMA JoinedGapsAreFilled ==
  ASSUME EntsoeTables
  PROVE  Entsoe!GapsAreFilled
<1> SUFFICES ASSUME stage = "answered", NEW c \in DOMAIN answer,
                    NEW t \in Entsoe!Filled(answer[c]), NEW v \in DOMAIN frames[c[1]][c[2]],
                    t <= v
    PROVE  v \in Entsoe!Filled(answer[c])
  BY DEF Entsoe!GapsAreFilled
<1> DEFINE s == frames[c[1]][c[2]]
<1>1. c \in JoinedColumns
  BY DEF EntsoeTables, JoinedTable, Entsoe!Concat
<1>2. c[1] \in Nodes /\ c[2] \in DOMAIN frames[c[1]] /\ frames[c[1]] # Entsoe!None
  BY <1>1 DEF JoinedColumns, JoinedNodes
<1>3. Bridged(s)
  BY <1>2 DEF EntsoeTables, ReadTable
<1>4. PICK rows : /\ DOMAIN s \subseteq rows
                  /\ answer[c] = [u \in rows |-> IF u \in DOMAIN s THEN s[u] ELSE NaN]
  <2> DEFINE cols == [d \in JoinedColumns |-> frames[d[1]][d[2]]]
  <2>1. answer = Entsoe!Concat(cols)
    BY DEF EntsoeTables, JoinedTable
  <2>2. DOMAIN cols = JoinedColumns /\ cols[c] = s
    BY <1>1
  <2> HIDE DEF cols, s
  <2>3. DOMAIN s \subseteq UNION {DOMAIN cols[d] : d \in DOMAIN cols}
    BY <1>1, <2>2
  <2> QED
    BY <1>1, <2>1, <2>2, <2>3 DEF Entsoe!Concat
<1> HIDE DEF s
<1>5. t \in Entsoe!Filled(s)
  BY <1>4 DEF Entsoe!Filled
<1>6. v \in Entsoe!Filled(s)
  BY <1>3, <1>5 DEF Bridged, s
<1> QED
  BY <1>4, <1>6 DEF Entsoe!Filled

-----------------------------------------------------------------------------
(* SMARD: the chunk that is asked for, and what is kept of it.             *)

\* The same for the instance of SMARD.
LEMMA SmardMax ==
  ASSUME NEW S \in SUBSET Int, IsFiniteSet(S), S # {}
  PROVE  Smard!Max(S) \in S /\ \A y \in S : Smard!Max(S) >= y
BY FiniteHasEnds DEF Smard!Max, HasEnds

\* Every time is in a chunk.
LEMMA HasChunk ==
  ASSUME NEW t \in Nat, NEW l \in Nat \ {0}
  PROVE  \E c \in 0..t : c % l = 0 /\ t < c + l
<1>1. l \in Int /\ l > 0
  OBVIOUS
<1>2. PICK q \in Int : q = t \div l
  BY <1>1
<1>3. t = l * (t \div l) + (t % l) /\ t % l \in 0..(l - 1)
  BY <1>1
<1>4. (l * q) % l = 0
  BY <1>1
<1>5. PICK c \in Int : c = l * q
  BY <1>1
<1>6. q >= 0
  BY <1>1, <1>2
<1>7. c >= 0
  BY <1>1, <1>5, <1>6
<1>8. PICK r \in 0..(l - 1) : t = c + r
  BY <1>2, <1>3, <1>5
<1>9. c \in 0..t /\ t < c + l
  BY <1>1, <1>7, <1>8
<1> QED
  BY <1>4, <1>5, <1>9

SmardCall ==
  /\ call.since \in Nat /\ call.since <= service.old
  /\ \/ call.is = "read"
     \/ call.is = "read_series" /\ call.window.from \in Int /\ call.window.to \in Int
SmardService ==
  /\ service \in [published : Nat, old : Nat, outages : Outages]
  /\ service.old <= service.published
SmardFrames ==
  /\ frames \in SUBSET Int /\ IsFiniteSet(frames)
  /\ call.is = "read" => \E c \in frames : call.since <= c + ChunkLength

SmardChunks ==
  /\ stage \in {"idle", "index", "chunk", "answered"}
  /\ SmardService
  /\ stage # "idle" => SmardCall
  /\ stage \in {"idle", "index"} => answer = Smard!Empty
  /\ stage = "chunk" => SmardFrames /\ answer = Smard!Empty
  /\ Smard!SeriesHasNoHole /\ Smard!ReadIsNotOutdated

SmardInv == connection = "smard" => SmardChunks

\* What the assumptions say of the constants of SMARD.
LEMMA SmardConstants == ChunkLength \in Nat \ {0} /\ Horizon \in Nat
BY RequestsAssumption DEF RequestsAssumption, Smard!SmardAssumption

\* A series without rows has no hole and is not outdated.
LEMMA EmptyIsCurrent ==
  ASSUME answer = Smard!Empty
  PROVE  Smard!SeriesHasNoHole /\ Smard!ReadIsNotOutdated
BY DEF Smard!SeriesHasNoHole, Smard!ReadIsNotOutdated, Smard!Answered, Smard!Empty

\* The rows of a chunk are its times.
LEMMA ChunkRows ==
  ASSUME NEW c \in Int, NEW p \in Int
  PROVE  /\ DOMAIN Smard!Chunk(c, p) = c..(c + ChunkLength - 1)
         /\ Smard!Max(DOMAIN Smard!Chunk(c, p)) = c + ChunkLength - 1
<1>1. DOMAIN Smard!Chunk(c, p) = c..(c + ChunkLength - 1)
  BY DEF Smard!Chunk
<1>2. c + ChunkLength - 1 \in c..(c + ChunkLength - 1)
  BY SmardConstants
<1>3. IsFiniteSet(c..(c + ChunkLength - 1))
  BY SmardConstants, FS_Interval
<1> DEFINE rows == c..(c + ChunkLength - 1)
<1>4. rows \in SUBSET Int /\ rows # {}
  BY <1>2
<1>5. Smard!Max(rows) \in rows /\ \A y \in rows : Smard!Max(rows) >= y
  <2> HIDE DEF rows
  <2> QED
    BY <1>3, <1>4, SmardMax DEF rows
<1> QED
  BY <1>1, <1>2, <1>5, SmardConstants

\* The row of a read is behind the values that were known when it was called.
LEMMA ReadIsCurrent ==
  ASSUME SmardCall, SmardFrames, call.is = "read",
         NEW s, NEW c \in Smard!ChosenChunk, NEW p \in Int, s = Smard!Kept(Smard!Chunk(c, p))
  PROVE  \A t \in 0..call.since - 1 : t <= Smard!Max(DOMAIN s)
<1>1. c = Smard!Max(frames)
  BY DEF Smard!ChosenChunk
<1>2. PICK d \in frames : call.since <= d + ChunkLength
  BY DEF SmardFrames
<1>3. c \in frames /\ c >= d
  BY <1>1, <1>2, SmardMax DEF SmardFrames
<1>4. c \in Int /\ d \in Int /\ call.since \in Nat
  BY <1>2, <1>3 DEF SmardFrames, SmardCall
<1>5. DOMAIN s = {c + ChunkLength - 1}
  BY <1>4, ChunkRows DEF Smard!Kept, Smard!Restrict
<1>6. Smard!Max(DOMAIN s) = c + ChunkLength - 1
  BY <1>4, <1>5, SmardConstants DEF Smard!Max
<1> QED
  BY <1>2, <1>3, <1>4, <1>6, SmardConstants

\* What is kept of the chunk a window begins in has no hole.
LEMMA SeriesIsWhole ==
  ASSUME SmardCall, call.is = "read_series",
         NEW s, NEW c \in Smard!ChosenChunk, NEW p \in Int, s = Smard!Kept(Smard!Chunk(c, p)),
         DOMAIN s # {}, frames \in SUBSET Int, IsFiniteSet(frames)
  PROVE  \A t \in call.window.from..Smard!Max(DOMAIN s) :
           t \in DOMAIN s /\ s[t] = IF Smard!Known(t, p) THEN t ELSE NaN
<1> DEFINE from == call.window.from
           to == call.window.to
           rows == {t \in c..(c + ChunkLength - 1) : from <= t /\ t <= to}
<1>1. from \in Int /\ to \in Int
  BY DEF SmardCall
<1>2. c \in Int /\ c <= from
  <2> DEFINE valid == {ts \in frames : ts <= from}
  <2>1. valid # {} /\ c = Smard!Max(valid)
    BY DEF Smard!ChosenChunk, Smard!_find_closest_timestamp
  <2>2. valid \in SUBSET frames
    OBVIOUS
  <2>3. IsFiniteSet(valid) /\ valid \in SUBSET Int
    BY <2>2, FS_Subset
  <2>4. c \in valid
    <3> HIDE DEF valid
    <3> QED
      BY <2>1, <2>3, SmardMax
  <2> QED
    BY <2>3, <2>4
<1>3. s = [t \in rows |-> IF Smard!Known(t, p) THEN t ELSE NaN]
  <2>1. s = Smard!df_time_slice(Smard!Chunk(c, p), from, to)
    BY DEF Smard!Kept, Smard!Empty
  <2> DEFINE chunk == Smard!Chunk(c, p)
             value(t) == IF Smard!Known(t, p) THEN t ELSE NaN
  <2>2. DOMAIN chunk = c..(c + ChunkLength - 1) /\ \A t \in DOMAIN chunk : chunk[t] = value(t)
    <3>1. chunk = [t \in c..(c + ChunkLength - 1) |-> value(t)]
      BY Zenon DEF Smard!Chunk
    <3> HIDE DEF chunk, value
    <3> QED
      BY <3>1
  <2>3. s = Smard!df_time_slice(chunk, from, to)
    BY <2>1
  <2> HIDE DEF chunk, value
  <2>4. s = [t \in rows |-> value(t)]
    BY <2>2, <2>3 DEF Smard!df_time_slice, Smard!Restrict
  <2> QED
    BY <2>4 DEF value
<1>4. rows \in SUBSET Int /\ IsFiniteSet(rows) /\ rows # {}
  <2>1. rows \in SUBSET (c..(c + ChunkLength - 1)) /\ IsFiniteSet(c..(c + ChunkLength - 1))
    BY <1>2, SmardConstants, FS_Interval
  <2>2. rows \in SUBSET Int
    OBVIOUS
  <2>3. DOMAIN s = rows
    BY <1>3
  <2> HIDE DEF rows
  <2> QED
    BY <2>1, <2>2, <2>3, FS_Subset
<1>5. DOMAIN s = rows
  BY <1>3
<1>6. Smard!Max(rows) \in rows
  <2> HIDE DEF rows
  <2> QED
    BY <1>4, SmardMax
<1>7. \A t \in from..Smard!Max(rows) : t \in rows
  <2> DEFINE m == Smard!Max(rows)
  <2>1. m \in Int /\ m <= c + ChunkLength - 1 /\ m <= to
    <3>1. \A x \in rows : x \in Int /\ x <= c + ChunkLength - 1 /\ x <= to
      BY <1>2, SmardConstants
    <3> HIDE DEF rows
    <3> QED
      BY <1>6, <3>1
  <2> HIDE DEF m
  <2> SUFFICES ASSUME NEW t \in from..m
      PROVE  t \in c..(c + ChunkLength - 1) /\ from <= t /\ t <= to
    BY DEF m
  <2> QED
    BY <1>1, <1>2, <2>1, SmardConstants
<1> QED
  BY <1>3, <1>5, <1>7

\* Every step of the service and of a call keeps the series current.
LEMMA SmardStep ==
  ASSUME SmardChunks, Smard!SmardNext
  PROVE  SmardChunks'
<1> USE SmardConstants
<1>1. CASE Smard!Publish \/ Smard!TimePasses
  <2>1. /\ UNCHANGED <<stage, call, frames, answer>> /\ stage # "answered"
        /\ SmardService' /\ service.old <= service'.old
    BY <1>1 DEF SmardChunks, SmardService, Smard!Publish, Smard!TimePasses
  <2>2. SmardCall => SmardCall'
    BY <2>1 DEF SmardCall, SmardChunks, SmardService
  <2>3. SmardFrames => SmardFrames'
    BY <2>1 DEF SmardFrames
  <2>4. (Smard!SeriesHasNoHole /\ Smard!ReadIsNotOutdated)'
    BY <2>1 DEF Smard!SeriesHasNoHole, Smard!ReadIsNotOutdated, Smard!Answered
  <2> QED
    BY <2>1, <2>2, <2>3, <2>4 DEF SmardChunks
<1>2. CASE Smard!read
  <2>1. /\ stage = "idle" /\ stage' = "index" /\ UNCHANGED <<service, frames, answer>>
        /\ call' = [is |-> "read", since |-> service.old]
    BY <1>2 DEF Smard!read
  <2>2. SmardCall'
    BY <2>1 DEF SmardCall, SmardChunks, SmardService
  <2>3. (Smard!SeriesHasNoHole /\ Smard!ReadIsNotOutdated)'
    BY <2>1 DEF Smard!SeriesHasNoHole, Smard!ReadIsNotOutdated, Smard!Answered
  <2> QED
    BY <2>1, <2>2, <2>3 DEF SmardChunks, SmardService, Smard!Empty
<1>3. CASE Smard!read_series
  <2>1. PICK w \in SmardWindows :
          call' = [is |-> "read_series", since |-> service.old,
                   window |-> Smard!_preprocess_series_context(w.from, w.to, w.interval)]
    BY <1>3 DEF Smard!read_series
  <2>2. w.from \in Int /\ w.to \in Int /\ w.interval \in Nat \ {0}
    BY RequestsAssumption DEF RequestsAssumption, Smard!SmardAssumption
  <2>3. -w.to \in Int
    BY <2>2
  <2>5. stage = "idle" /\ stage' = "index" /\ UNCHANGED <<service, frames, answer>>
    BY <1>3 DEF Smard!read_series
  <2>4. SmardCall'
    BY <2>1, <2>2, <2>3, <2>5, RoundedNumbers
    DEF SmardCall, SmardChunks, SmardService, Smard!_preprocess_series_context,
        Smard!round_timestamp, Smard!Floor, Smard!Ceil
  <2>6. (Smard!SeriesHasNoHole /\ Smard!ReadIsNotOutdated)'
    BY <2>5 DEF Smard!SeriesHasNoHole, Smard!ReadIsNotOutdated, Smard!Answered
  <2> QED
    BY <2>4, <2>5, <2>6 DEF SmardChunks, SmardService, Smard!Empty
<1>4. CASE Smard!_get_available_timestamps
  <2>1. /\ stage = "index" /\ UNCHANGED <<call, service, answer>>
        /\ (\E p \in Smard!CachedSession : frames' = Smard!Index(p)) \/ frames' = {}
        /\ stage' = IF frames' = {} THEN "answered" ELSE "chunk"
    BY <1>4 DEF Smard!_get_available_timestamps
  <2>2. SmardCall /\ answer = Smard!Empty
    BY <2>1 DEF SmardChunks
  <2>3. SmardCall'
    BY <2>1, <2>2 DEF SmardCall
  <2>4. (Smard!SeriesHasNoHole /\ Smard!ReadIsNotOutdated)'
    BY <2>1, <2>2
       DEF Smard!SeriesHasNoHole, Smard!ReadIsNotOutdated, Smard!Answered, Smard!Empty
  <2>5. ASSUME NEW p \in Smard!CachedSession, frames' = Smard!Index(p) PROVE SmardFrames'
    <3> DEFINE index == {c \in 0..p : c % ChunkLength = 0}
    <3>1. p \in Nat /\ service.old <= p
      BY DEF SmardChunks, SmardService, Smard!CachedSession
    <3>2. index \in SUBSET (0..p) /\ IsFiniteSet(0..p)
      BY <3>1, FS_Interval
    <3>3. index \in SUBSET Int
      OBVIOUS
    <3>4. IsFiniteSet(index)
      BY <3>2, FS_Subset
    <3>5. PICK c \in 0..p : c % ChunkLength = 0 /\ p < c + ChunkLength
      BY <3>1, HasChunk
    <3>6. c \in index
      BY <3>5
    <3>7. call.since \in Nat /\ call.since <= service.old /\ service.old \in Nat
      BY <2>2 DEF SmardCall, SmardChunks, SmardService
    <3>8. call.since <= c + ChunkLength
      BY <3>1, <3>5, <3>7
    <3>9. frames' = index
      BY <2>5 DEF Smard!Index
    <3> QED
      BY <2>1, <3>9, <3>3, <3>4, <3>6, <3>8 DEF SmardFrames
  <2> QED
    BY <2>1, <2>2, <2>3, <2>4, <2>5 DEF SmardChunks, SmardService
<1>5. CASE Smard!RequestChunk
  <2>1. /\ stage = "chunk" /\ stage' = "answered" /\ UNCHANGED <<call, service, frames>>
        /\ \/ answer' = Smard!Empty
           \/ \E c \in Smard!ChosenChunk, p \in Smard!CachedSession :
                answer' = Smard!Kept(Smard!Chunk(c, p))
    BY <1>5 DEF Smard!RequestChunk
  <2>2. SmardCall /\ SmardFrames
    BY <2>1 DEF SmardChunks
  <2>3. SmardCall'
    BY <2>1, <2>2 DEF SmardCall
  <2>4. CASE answer' = Smard!Empty
    <3>1. (Smard!SeriesHasNoHole /\ Smard!ReadIsNotOutdated)'
      BY <2>4
         DEF Smard!SeriesHasNoHole, Smard!ReadIsNotOutdated, Smard!Answered, Smard!Empty
    <3> QED
      BY <2>1, <2>3, <3>1 DEF SmardChunks, SmardService
  <2>5. ASSUME NEW c \in Smard!ChosenChunk, NEW p \in Smard!CachedSession,
               answer' = Smard!Kept(Smard!Chunk(c, p))
        PROVE  SmardChunks'
    <3>1. /\ p \in Int /\ call.since <= p /\ p <= service.published
          /\ call.since \in Nat /\ service.published \in Nat
      BY <2>2 DEF SmardChunks, SmardService, SmardCall, Smard!CachedSession
    <3>2. ASSUME call.is = "read"
          PROVE  \A t \in 0..call.since - 1 : t <= Smard!Max(DOMAIN answer')
      BY <2>2, <2>5, <3>1, <3>2, ReadIsCurrent
    <3>3. Smard!ReadIsNotOutdated'
      BY <2>1, <3>2 DEF Smard!ReadIsNotOutdated, Smard!Answered
    <3>4. ASSUME call.is = "read_series", DOMAIN answer' # {},
                 NEW t \in call.window.from..Smard!Max(DOMAIN answer')
          PROVE  /\ t \in DOMAIN answer'
                 /\ answer'[t] \in {t, NaN}
                 /\ Smard!Known(t, call.since) => answer'[t] = t
                 /\ ~Smard!Known(t, service.published) => answer'[t] = NaN
      <4>1. t \in DOMAIN answer' /\ answer'[t] = IF Smard!Known(t, p) THEN t ELSE NaN
        BY <2>2, <2>5, <3>1, <3>4, SeriesIsWhole DEF SmardFrames
      <4>2. /\ Smard!Known(t, call.since) => Smard!Known(t, p)
            /\ Smard!Known(t, p) => Smard!Known(t, service.published)
        BY <3>1, <3>4 DEF Smard!Known
      <4> QED
        BY <4>1, <4>2
    <3>5. \A t, q : Smard!Known(t, q)' = Smard!Known(t, q)
      BY <2>1 DEF Smard!Known
    <3>6. Smard!SeriesHasNoHole'
      BY <2>1, <3>4, <3>5 DEF Smard!SeriesHasNoHole, Smard!Answered
    <3> QED
      BY <2>1, <2>3, <3>3, <3>6 DEF SmardChunks, SmardService
  <2> QED
    BY <2>1, <2>4, <2>5
<1> QED
  BY <1>1, <1>2, <1>3, <1>4, <1>5 DEF Smard!SmardNext

\* A series begins at the begin of its window and has no hole: up to its last row,
\* what had been published an hour before the call is in it, and nothing that is not
\* published; and read does not pass over a value that had been.
THEOREM SmardChunksAreCurrent == Spec => []ChunksAreCurrent
<1>1. ASSUME Init PROVE SmardInv
  <2> SUFFICES ASSUME connection = "smard" PROVE SmardChunks
    BY DEF SmardInv
  <2>1. Smard!SmardInit
    BY <1>1 DEF Init
  <2>2. SmardService
    BY <2>1, SmardConstants DEF SmardService, Smard!SmardInit
  <2> QED
    BY <2>1, <2>2, EmptyIsCurrent DEF Smard!SmardInit, SmardChunks
<1>2. ASSUME SmardInv, [Next]_vars PROVE SmardInv'
  <2> SUFFICES ASSUME connection' = "smard" PROVE SmardChunks'
    BY DEF SmardInv
  <2>1. connection = "smard" /\ (Smard!SmardNext \/ UNCHANGED request)
    BY <1>2 DEF Next, vars, request
  <2>2. SmardChunks
    BY <1>2, <2>1 DEF SmardInv
  <2>3. CASE UNCHANGED request
    BY <2>2, <2>3
    DEF request, SmardChunks, SmardService, SmardCall, SmardFrames, Smard!SeriesHasNoHole,
        Smard!ReadIsNotOutdated, Smard!Answered, Smard!Known
  <2> QED
    BY <2>1, <2>2, <2>3, SmardStep
<1>3. SmardInv => ChunksAreCurrent
  BY DEF SmardInv, SmardChunks, ChunksAreCurrent
<1> QED
  BY <1>1, <1>2, <1>3, PTL DEF Spec

-----------------------------------------------------------------------------
(* Weather: the columns of the stations, and how asfreq and ffill fill     *)
(* them up.                                                                *)

\* The greatest and the least time for the instance of the weather service.
LEMMA WeatherMax ==
  ASSUME NEW S \in SUBSET Int, IsFiniteSet(S), S # {}
  PROVE  Weather!Max(S) \in S /\ \A y \in S : Weather!Max(S) >= y
BY FiniteHasEnds DEF Weather!Max, HasEnds

LEMMA WeatherMin ==
  ASSUME NEW S \in SUBSET Int, IsFiniteSet(S), S # {}
  PROVE  Weather!Min(S) \in S /\ \A y \in S : Weather!Min(S) <= y
BY FiniteHasEnds DEF Weather!Min, HasEnds

\* What the assumptions say of the constants of the weather service.
LEMMA WeatherConstants ==
  /\ WeatherTimes \subseteq [Weather!Station -> SUBSET Int]
  /\ WeatherWindows \subseteq [from : Int, to : Int, interval : Nat \ {0}]
  /\ NaN \notin Int
BY RequestsAssumption DEF RequestsAssumption, Weather!WetterdienstAssumption

\* Each row of an index takes over the last row of a table before it; and a column then.
TakesOver(index, r, rows) ==
  /\ index \in SUBSET Int /\ IsFiniteSet(index) /\ r \in [index -> rows]
  /\ \A t \in index : r[t] <= t /\ \A u \in rows : u <= t => u <= r[t]
TakenOver(index, r, own) == [t \in index |-> IF r[t] \in own THEN r[t] ELSE NaN]

IsNewest(v, t, own, rows) ==
  /\ v \in own /\ v <= t
  /\ \A u \in own : v < u /\ u <= t => \E x \in rows \ own : u < x /\ x <= t

\* A column of a table whose rows were taken over from the last row before them, and
\* then filled up, has the newest of its values, up to those that a row of another
\* column came after.
LEMMA FilledUpIsNewest ==
  ASSUME NEW rows \in SUBSET Int, NEW own \in SUBSET rows,
         NEW index, NEW r, TakesOver(index, r, rows),
         NEW t \in Weather!Filled(Weather!ffill(TakenOver(index, r, own)))
  PROVE  t \in index /\ IsNewest(Weather!ffill(TakenOver(index, r, own))[t], t, own, rows)
<1>0. /\ index \in SUBSET Int /\ IsFiniteSet(index) /\ r \in [index -> rows]
      /\ \A x \in index : r[x] <= x /\ \A u \in rows : u <= x => u <= r[x]
  BY DEF TakesOver
<1>d. PICK d : /\ d = TakenOver(index, r, own)
               /\ d = [x \in index |-> IF r[x] \in own THEN r[x] ELSE NaN]
  BY DEF TakenOver
<1> DEFINE before == {v \in Weather!Filled(d) : v <= t}
           v == Weather!Max(before)
<1>1. t \in index /\ before # {} /\ Weather!ffill(d)[t] = d[v]
  BY <1>d DEF Weather!ffill, Weather!Filled
<1>2. before \in SUBSET index
  BY <1>d DEF Weather!Filled
<1>3. before \in SUBSET Int /\ IsFiniteSet(before)
  BY <1>0, <1>2, FS_Subset
<1>4. v \in before /\ \A y \in before : v >= y
  <2> HIDE DEF before
  <2> QED
    BY <1>1, <1>3, WeatherMax
<1>5. \A y \in index : y \in Weather!Filled(d) <=> r[y] \in own
  BY <1>0, <1>d, WeatherConstants DEF Weather!Filled
<1>6. v \in index /\ v <= t /\ d[v] = r[v] /\ r[v] \in own
  BY <1>0, <1>d, <1>2, <1>4, <1>5
<1> HIDE DEF v
<1>7. ASSUME NEW u \in own, r[v] < u, u <= t
      PROVE  \E x \in rows \ own : u < x /\ x <= t
  <2>1. u \in Int /\ v \in Int /\ t \in Int /\ r[v] \in Int /\ r[t] \in Int
    BY <1>0, <1>1, <1>6
  <2>2. v < u
    BY <1>0, <1>6, <1>7, <2>1
  <2>3. t \notin Weather!Filled(d)
    <3>1. SUFFICES ASSUME t \in Weather!Filled(d) PROVE FALSE
      OBVIOUS
    <3>2. t \in before
      BY <2>1, <3>1
    <3> HIDE DEF before
    <3>3. v >= t
      BY <1>4, <3>2
    <3> QED
      BY <1>7, <2>1, <2>2, <3>3
  <2>4. r[t] \in rows \ own
    BY <1>0, <1>1, <1>5, <2>3
  <2>5. u <= r[t] /\ r[t] <= t
    BY <1>0, <1>1, <1>7
  <2> QED
    BY <2>1, <2>4, <2>5
<1>8. r[v] <= t
  <2>1. r[v] \in Int /\ v \in Int /\ t \in Int /\ r[v] <= v
    BY <1>0, <1>1, <1>6
  <2> QED
    BY <1>6, <2>1
<1> QED
  BY <1>d, <1>1, <1>6, <1>7, <1>8 DEF IsNewest

\* The values a station has in the window.
OwnRows(c) ==
  {t \in service[c[1]].published[c[2]] : call.window.from <= t /\ t <= call.window.to}
WeatherColumns == UNION {DOMAIN frames[n] : n \in Nodes}
WeatherRows == UNION {OwnRows(c) : c \in WeatherColumns}
WeatherTable == Weather!Concat([c \in WeatherColumns |-> frames[c[1]][c]])

WeatherTables ==
  /\ stage \in {"idle", "reading", "answered", "raised"}
  /\ \A n \in Nodes : \A s \in Weather!Stations(n) : service[n].published[s] \in SUBSET Int
  /\ stage = "idle" => frames = <<>>
  /\ stage = "reading" =>
       /\ call.window.from \in Int /\ call.window.to \in Int
       /\ call.window.interval \in Nat \ {0}
       /\ \A n \in DOMAIN frames : frames[n] = Weather!retrieve_stations(n, call.window)
  /\ Weather!WeatherIsNewest

WeatherInv == connection = "wetterdienst" => WeatherTables

\* The table of all columns, before its rows are filled up.
LEMMA WeatherTableHas ==
  ASSUME WeatherTables, stage = "reading", DOMAIN frames = Nodes
  PROVE  /\ DOMAIN WeatherTable = WeatherColumns
         /\ \A c \in WeatherColumns :
              /\ WeatherTable[c] =
                   [t \in WeatherRows |-> IF t \in OwnRows(c) THEN t ELSE NaN]
              /\ OwnRows(c) # {}
              /\ service[c[1]].published[c[2]] \in SUBSET Int
         /\ WeatherRows \in SUBSET Int /\ IsFiniteSet(WeatherRows)
<1> DEFINE cols == [c \in WeatherColumns |-> frames[c[1]][c]]
<1>1. ASSUME NEW c \in WeatherColumns
      PROVE  /\ cols[c] = [t \in OwnRows(c) |-> t] /\ OwnRows(c) # {}
             /\ service[c[1]].published[c[2]] \in SUBSET Int
             /\ OwnRows(c) \in SUBSET (call.window.from..call.window.to)
  <2>1. PICK n \in Nodes : c \in DOMAIN frames[n]
    BY DEF WeatherColumns
  <2>2. frames[n] = Weather!retrieve_stations(n, call.window)
    BY <2>1 DEF WeatherTables
  <2>3. PICK s \in Weather!Stations(n) : c = <<n, s>> /\ OwnRows(<<n, s>>) # {}
    BY <2>1, <2>2 DEF Weather!retrieve_stations, OwnRows
  <2>4. frames[n][c] = [t \in OwnRows(c) |-> t]
    BY <2>1, <2>2, <2>3 DEF Weather!retrieve_stations, OwnRows
  <2>5. service[n].published[s] \in SUBSET Int
    BY <2>3 DEF WeatherTables
  <2>6. OwnRows(c) \in SUBSET (call.window.from..call.window.to)
    BY <2>3, <2>5 DEF WeatherTables, OwnRows
  <2> QED
    BY <2>3, <2>4, <2>5, <2>6
<1>2. WeatherRows \in SUBSET (call.window.from..call.window.to)
  BY <1>1 DEF WeatherRows
<1>3. IsFiniteSet(call.window.from..call.window.to)
  BY FS_Interval DEF WeatherTables
<1>4. WeatherRows \in SUBSET Int /\ IsFiniteSet(WeatherRows)
  <2>1. WeatherRows \in SUBSET Int
    BY <1>2
  <2>2. IsFiniteSet(WeatherRows)
    BY <1>2, <1>3, FS_Subset
  <2> QED
    BY <2>1, <2>2
<1>5. DOMAIN cols = WeatherColumns
  OBVIOUS
<1>6. \A c \in WeatherColumns : DOMAIN cols[c] = OwnRows(c) /\ \A t \in OwnRows(c) : cols[c][t] = t
  BY <1>1
<1> HIDE DEF cols
<1>7. UNION {DOMAIN cols[c] : c \in DOMAIN cols} = WeatherRows
  BY <1>5, <1>6 DEF WeatherRows
<1>8. WeatherTable = Weather!Concat(cols)
  BY DEF WeatherTable, cols
<1>9. \A c \in WeatherColumns :
        WeatherTable[c] = [t \in WeatherRows |-> IF t \in OwnRows(c) THEN t ELSE NaN]
  BY <1>5, <1>6, <1>7, <1>8 DEF Weather!Concat
<1>10. DOMAIN WeatherTable = WeatherColumns
  BY <1>5, <1>8 DEF Weather!Concat
<1> QED
  BY <1>1, <1>4, <1>9, <1>10

\* asfreq takes each row over from the last one before it.
LEMMA AsfreqTakesOver ==
  ASSUME WeatherTables, stage = "reading", DOMAIN frames = Nodes, WeatherColumns # {}
  PROVE  \E index \in SUBSET (call.window.from..call.window.to) : \E r :
           /\ TakesOver(index, r, WeatherRows)
           /\ \A c \in WeatherColumns :
                Weather!asfreq(WeatherTable, call.window.interval)[c] =
                  TakenOver(index, r, OwnRows(c))
<1> DEFINE rows == UNION {DOMAIN WeatherTable[c] : c \in DOMAIN WeatherTable}
           last(t) == Weather!Max({u \in rows : u <= t})
           first == Weather!Min(rows)
           index == {t \in first..Weather!Max(rows) :
                       (t - first) % call.window.interval = 0}
           r == [t \in index |-> last(t)]
<1>1. rows = WeatherRows
  BY WeatherTableHas
<1>2. rows # {}
  <2>1. PICK c \in WeatherColumns : OwnRows(c) # {}
    BY WeatherTableHas
  <2>2. WeatherRows # {}
    BY <2>1 DEF WeatherRows
  <2> QED
    BY <1>1, <2>2
<1>3. rows \in SUBSET Int /\ IsFiniteSet(rows)
  BY <1>1, WeatherTableHas
<1>4. \A c \in WeatherColumns :
        Weather!asfreq(WeatherTable, call.window.interval)[c] =
          [t \in index |-> WeatherTable[c][last(t)]]
  BY WeatherTableHas DEF Weather!asfreq
<1>5. Weather!Max(rows) \in rows /\ first \in rows /\ \A u \in rows : first <= u
  <2> HIDE DEF rows
  <2> QED
    BY <1>2, <1>3, WeatherMax, WeatherMin
<1>6. rows \subseteq call.window.from..call.window.to
  <2>1. \A c \in WeatherColumns : OwnRows(c) \subseteq call.window.from..call.window.to
    BY <1>1, <1>3 DEF OwnRows, WeatherRows, WeatherTables
  <2> QED
    BY <1>1, <2>1 DEF WeatherRows
<1> HIDE DEF rows, first
<1>7. ASSUME NEW t \in index
      PROVE  last(t) \in rows /\ last(t) <= t /\ \A u \in rows : u <= t => u <= last(t)
  <2> DEFINE upto == {u \in rows : u <= t}
  <2>1. t \in Int /\ first <= t
    OBVIOUS
  <2>2. first \in upto
    BY <1>5, <2>1
  <2>3. upto \in SUBSET rows
    OBVIOUS
  <2>4. upto \in SUBSET Int /\ IsFiniteSet(upto) /\ upto # {}
    BY <1>3, <2>2, <2>3, FS_Subset
  <2>5. Weather!Max(upto) \in upto /\ \A y \in upto : Weather!Max(upto) >= y
    <3> HIDE DEF upto
    <3> QED
      BY <2>4, WeatherMax
  <2>6. \A y \in upto : y \in Int
    BY <2>4
  <2> QED
    BY <2>5, <2>6, <1>3
<1>8. index \in SUBSET (call.window.from..call.window.to)
  <2>1. call.window.from \in Int /\ call.window.to \in Int
    BY DEF WeatherTables
  <2>2. PICK last_row : last_row = Weather!Max(rows)
    OBVIOUS
  <2>3. first \in Int /\ last_row \in Int
    BY <1>3, <1>5, <2>2, Zenon
  <2>4. first \in call.window.from..call.window.to /\ last_row \in call.window.from..call.window.to
    BY <1>5, <1>6, <2>2, Zenon
  <2>5. call.window.from <= first /\ last_row <= call.window.to
    BY <2>1, <2>3, <2>4
  <2>6. index = {t \in first..last_row : (t - first) % call.window.interval = 0}
    BY <2>2
  <2>7. first..last_row \subseteq call.window.from..call.window.to
    BY <2>1, <2>3, <2>5
  <2> HIDE DEF index
  <2> QED
    BY <2>6, <2>7, Zenon
<1>9. r \in [index -> WeatherRows]
  BY <1>1, <1>7
<1>10. \A t \in index : r[t] <= t /\ \A u \in WeatherRows : u <= t => u <= r[t]
  BY <1>1, <1>7
<1>11. ASSUME NEW c \in WeatherColumns
       PROVE  Weather!asfreq(WeatherTable, call.window.interval)[c] =
                TakenOver(index, r, OwnRows(c))
  <2>1. WeatherTable[c] = [t \in WeatherRows |-> IF t \in OwnRows(c) THEN t ELSE NaN]
    BY WeatherTableHas
  <2>2. \A t \in index :
          WeatherTable[c][last(t)] = IF r[t] \in OwnRows(c) THEN r[t] ELSE NaN
    BY <1>1, <1>7, <2>1
  <2> QED
    BY ZenonT(30), <1>4, <2>2 DEF TakenOver
<1> HIDE DEF index, r
<1>12. index \in SUBSET Int
  BY <1>8
<1>13. IsFiniteSet(index)
  <2>1. IsFiniteSet(call.window.from..call.window.to)
    BY FS_Interval DEF WeatherTables
  <2> QED
    BY <1>8, <2>1, FS_Subset
<1>14. TakesOver(index, r, WeatherRows)
  BY <1>9, <1>10, <1>12, <1>13 DEF TakesOver
<1> QED
  BY <1>8, <1>11, <1>14

\* What a call returns is the newest of what was published.
LEMMA ReturnIsNewest ==
  ASSUME WeatherTables, Weather!Return
  PROVE  Weather!WeatherIsNewest'
<1>1. /\ stage = "reading" /\ DOMAIN frames = Nodes /\ UNCHANGED <<call, service, frames>>
      /\ stage' = "answered"
  BY DEF Weather!Return
<1> DEFINE dense == Weather!asfreq(WeatherTable, call.window.interval)
<1>2. answer' = IF WeatherColumns = {} \/ call.of = "prediction" THEN WeatherTable
                ELSE [c \in WeatherColumns |-> Weather!ffill(dense[c])]
  BY DEF Weather!Return, WeatherTable, WeatherColumns
<1>3. DOMAIN answer' = WeatherColumns
  BY <1>1, <1>2, WeatherTableHas
<1> DEFINE Newest(c, t, v) ==
      LET known == {u \in service[c[1]].published[c[2]] : u <= t}
          others == UNION {service[d[1]].published[d[2]] : d \in WeatherColumns \ {c}}
      IN  /\ v \in known
          /\ \A u \in known : v < u => \E x \in others : u < x /\ x <= t
<1>4. SUFFICES ASSUME NEW c \in WeatherColumns, NEW t \in Weather!Filled(answer'[c])
               PROVE  Newest(c, t, answer'[c][t])
  BY <1>1, <1>3 DEF Weather!WeatherIsNewest, Weather!Filled
<1>5. WeatherTable[c] = [u \in WeatherRows |-> IF u \in OwnRows(c) THEN u ELSE NaN]
  BY <1>1, WeatherTableHas
<1>6. /\ OwnRows(c) \in SUBSET WeatherRows /\ WeatherRows \in SUBSET Int
      /\ OwnRows(c) \in SUBSET service[c[1]].published[c[2]]
      /\ service[c[1]].published[c[2]] \in SUBSET Int
  <2>1. WeatherRows \in SUBSET Int /\ service[c[1]].published[c[2]] \in SUBSET Int
    BY <1>1, WeatherTableHas
  <2>2. OwnRows(c) \in SUBSET WeatherRows
    BY DEF WeatherRows
  <2>3. OwnRows(c) \in SUBSET service[c[1]].published[c[2]]
    BY DEF OwnRows
  <2> QED
    BY <2>1, <2>2, <2>3
<1>7. CASE call.of = "prediction"
  <2>1. answer' = WeatherTable
    BY <1>2, <1>7
  <2>2. t \in OwnRows(c) /\ answer'[c][t] = t
    BY <1>5, <2>1 DEF Weather!Filled
  <2>3. t \in Int /\ t \in service[c[1]].published[c[2]]
    BY <1>6, <2>2
  <2> QED
    BY <1>6, <2>2, <2>3
<1>8. CASE call.of # "prediction"
  <2>1. answer'[c] = Weather!ffill(dense[c])
    BY <1>2, <1>4, <1>8
  <2>2. PICK index, r :
          /\ index \in SUBSET (call.window.from..call.window.to)
          /\ TakesOver(index, r, WeatherRows)
          /\ \A e \in WeatherColumns : dense[e] = TakenOver(index, r, OwnRows(e))
    BY <1>1, <1>4, AsfreqTakesOver
  <2>3. call.window.from \in Int /\ call.window.to \in Int
    BY <1>1 DEF WeatherTables
  <2>4. answer'[c] = Weather!ffill(TakenOver(index, r, OwnRows(c)))
    BY <1>4, <2>1, <2>2
  <2>5. t \in index /\ IsNewest(answer'[c][t], t, OwnRows(c), WeatherRows)
    BY <1>4, <1>6, <2>2, <2>4, FilledUpIsNewest
  <2>6. PICK v : v = answer'[c][t]
    OBVIOUS
  <2>7. /\ v \in OwnRows(c) /\ v <= t
        /\ \A u \in OwnRows(c) : v < u /\ u <= t =>
             \E x \in WeatherRows \ OwnRows(c) : u < x /\ x <= t
    BY <2>5, <2>6 DEF IsNewest
  <2>8. v \in Int /\ call.window.from <= v /\ t \in Int /\ t <= call.window.to
    BY <1>6, <2>2, <2>3, <2>5, <2>7 DEF OwnRows
  <2>9. ASSUME NEW u \in service[c[1]].published[c[2]], v < u, u <= t
        PROVE  \E x \in UNION {service[d[1]].published[d[2]] : d \in WeatherColumns \ {c}} :
                  u < x /\ x <= t
    <3>1. u \in Int
      BY <1>6
    <3>2. u \in OwnRows(c)
      BY <2>3, <2>8, <2>9, <3>1 DEF OwnRows
    <3>3. PICK x \in WeatherRows \ OwnRows(c) : u < x /\ x <= t
      BY <2>7, <2>9, <3>2
    <3>4. PICK d \in WeatherColumns : x \in OwnRows(d)
      BY <3>3 DEF WeatherRows
    <3>5. d # c
      BY <3>3, <3>4
    <3>6. x \in service[d[1]].published[d[2]]
      BY <3>4 DEF OwnRows
    <3> QED
      BY <3>3, <3>5, <3>6
  <2> QED
    BY <1>6, <2>6, <2>7, <2>9
<1> QED
  BY <1>7, <1>8

\* Every step of the service and of a call keeps the tables the newest.
LEMMA WeatherStep ==
  ASSUME WeatherTables, Weather!WetterdienstNext
  PROVE  WeatherTables'
<1>1. CASE Weather!read_series
  <2>1. PICK w \in WeatherWindows, of \in {"observation", "prediction"} :
          \/ /\ stage' = "reading"
             /\ call' = [of |-> of,
                         window |-> Weather!_preprocess_series_context(w.from, w.to, w.interval)]
          \/ stage' = "raised"
    BY <1>1 DEF Weather!read_series
  <2>2. w.from \in Int /\ w.to \in Int /\ w.interval \in Nat \ {0} /\ -w.to \in Int
    BY WeatherConstants
  <2>3. UNCHANGED <<service, frames, answer>> /\ stage = "idle"
    BY <1>1 DEF Weather!read_series
  <2>4. stage' = "reading" =>
          /\ call'.window.from \in Int /\ call'.window.to \in Int
          /\ call'.window.interval \in Nat \ {0}
    BY <2>1, <2>2, RoundedNumbers
    DEF Weather!_preprocess_series_context, Weather!round_timestamp, Weather!Floor,
        Weather!Ceil
  <2>5. stage' \in {"reading", "raised"}
    BY <2>1
  <2>6. frames' = <<>>
    BY <2>3 DEF WeatherTables
  <2>7. \A n \in Nodes : Weather!Stations(n)' = Weather!Stations(n)
    BY <2>3 DEF Weather!Stations
  <2> QED
    BY <2>3, <2>4, <2>5, <2>6, <2>7 DEF WeatherTables, Weather!WeatherIsNewest
<1>2. ASSUME NEW n \in Nodes, Weather!_read_node(n)
      PROVE  WeatherTables'
  <2>1. /\ stage = "reading" /\ UNCHANGED <<stage, call, service, answer>>
        /\ frames' = [m \in DOMAIN frames \cup {n} |->
                        IF m = n THEN Weather!retrieve_stations(n, call.window) ELSE frames[m]]
    BY <1>2 DEF Weather!_read_node
  <2>2. \A m : Weather!Stations(m)' = Weather!Stations(m)
    BY <2>1 DEF Weather!Stations
  <2>3. \A m : Weather!retrieve_stations(m, call.window)' =
                 Weather!retrieve_stations(m, call.window)
    BY <2>1, <2>2 DEF Weather!retrieve_stations
  <2>4. \A m \in DOMAIN frames' : frames'[m] = Weather!retrieve_stations(m, call.window)
    BY <2>1 DEF WeatherTables
  <2> QED
    BY <2>1, <2>2, <2>3, <2>4 DEF WeatherTables, Weather!WeatherIsNewest
<1>3. CASE Weather!Return
  <2>1. UNCHANGED <<call, service, frames>> /\ stage' = "answered"
    BY <1>3 DEF Weather!Return
  <2>2. \A n : Weather!Stations(n)' = Weather!Stations(n)
    BY <2>1 DEF Weather!Stations
  <2> QED
    BY <1>3, <2>1, <2>2, ReturnIsNewest DEF WeatherTables
<1> QED
  BY <1>1, <1>2, <1>3 DEF Weather!WetterdienstNext

\* A value was published for its column, not after its row; and it is the newest of
\* that column, unless a row of another column came after a newer one.
THEOREM WeatherValuesAreNewest == Spec => []WeatherIsNewest
<1>1. ASSUME Init PROVE WeatherInv
  <2> SUFFICES ASSUME connection = "wetterdienst" PROVE WeatherTables
    BY DEF WeatherInv
  <2>1. Weather!WetterdienstInit
    BY <1>1 DEF Init
  <2>2. ASSUME NEW n \in Nodes, NEW s \in Weather!Stations(n)
        PROVE  service[n].published[s] \in SUBSET Int
    <3>1. service[n].published \in [Weather!Station -> SUBSET Int]
      BY <2>1, WeatherConstants DEF Weather!WetterdienstInit
    <3>2. s \in Weather!Station
      <4>1. \/ service[n].station_id \in Weather!Station
            \/ service[n].station_id = "" /\ service[n].number \in {1, 2}
        BY <2>1 DEF Weather!WetterdienstInit
      <4>2. \A i \in 1..2 : <<"1st", "2nd">>[i] \in Weather!Station
        BY DEF Weather!Station
      <4>3. CASE service[n].station_id = "" /\ service[n].number \in {1, 2}
        <5>1. PICK i \in 1..service[n].number : s = <<"1st", "2nd">>[i]
          BY <2>2, <4>3 DEF Weather!Stations, Weather!filter_by_rank
        <5>2. service[n].number \in {1, 2}
          BY <4>3, Zenon
        <5>3. service[n].number \in 1..2
          BY <5>2
        <5>4. i \in 1..2
          BY <5>1, <5>3
        <5> QED
          BY <4>2, <5>1, <5>4
      <4>4. CASE service[n].station_id \in Weather!Station
        BY <2>2, <4>4 DEF Weather!Stations, Weather!Station
      <4> QED
        BY <4>1, <4>3, <4>4
    <3> QED
      BY <3>1, <3>2
  <2> QED
    BY <2>1, <2>2 DEF Weather!WetterdienstInit, WeatherTables, Weather!WeatherIsNewest
<1>2. ASSUME WeatherInv, [Next]_vars PROVE WeatherInv'
  <2> SUFFICES ASSUME connection' = "wetterdienst" PROVE WeatherTables'
    BY DEF WeatherInv
  <2>1. connection = "wetterdienst" /\ (Weather!WetterdienstNext \/ UNCHANGED request)
    BY <1>2 DEF Next, vars, request
  <2>2. WeatherTables
    BY <1>2, <2>1 DEF WeatherInv
  <2>3. CASE UNCHANGED request
    <3>1. \A n : Weather!Stations(n)' = Weather!Stations(n)
      BY <2>3 DEF Weather!Stations, request
    <3>2. \A n : Weather!retrieve_stations(n, call.window)' =
                   Weather!retrieve_stations(n, call.window)
      BY <2>3, <3>1 DEF Weather!retrieve_stations, request
    <3> QED
      BY <2>2, <2>3, <3>1, <3>2 DEF request, WeatherTables, Weather!WeatherIsNewest
  <2> QED
    BY <2>1, <2>2, <2>3, WeatherStep
<1>3. WeatherInv => WeatherIsNewest
  BY DEF WeatherInv, WeatherTables, WeatherIsNewest
<1> QED
  BY <1>1, <1>2, <1>3, PTL DEF Spec

-----------------------------------------------------------------------------
(* Influx: a value stays in its table until a newer one of the node takes  *)
(* its place, so that what a query found is never older than what was      *)
(* there when the reader came.                                             *)

NodeValue(v, n) == \E k \in 0..writes : v = <<n, k>>

InfluxTables ==
  /\ DOMAIN tables = Influx!Tables
  /\ \A T \in Influx!Tables : DOMAIN tables[T] \in SUBSET Int /\ IsFiniteSet(DOMAIN tables[T])
  /\ writes \in Nat

\* The rows of a table hold what the database has taken for the nodes of the table.
RowsHoldKept ==
  \A n \in InfluxNodes :
    /\ \A t \in DOMAIN kept[n] :
         /\ NodeValue(kept[n][t], n)
         /\ t \in DOMAIN tables[Table[n]] /\ n \in DOMAIN tables[Table[n]][t]
         /\ tables[Table[n]][t][n] = kept[n][t]
    /\ \A t \in DOMAIN tables[Table[n]] :
         n \in DOMAIN tables[Table[n]][t] => t \in DOMAIN kept[n]

WritesNewest ==
  writing.left # {} =>
    /\ writing = [is |-> writing.is, series |-> writing.series, left |-> writing.left]
    /\ \A n \in DOMAIN writing.series :
         /\ n \in InfluxNodes
         /\ DOMAIN writing.series[n] \in SUBSET Int /\ IsFiniteSet(DOMAIN writing.series[n])
         /\ \A t \in DOMAIN writing.series[n] : writing.series[n][t] = <<n, writes>>

KeptSince ==
  reading.is # "idle" =>
    /\ reading.nodes \subseteq InfluxNodes
    /\ \A n \in InfluxNodes : \A t \in DOMAIN reading.since[n] :
         /\ t \in DOMAIN kept[n]
         /\ NodeValue(reading.since[n][t], n) /\ reading.since[n][t][2] <= kept[n][t][2]

\* A column with what was asked for, of a series and of a row.
AskedColumn(n, s) ==
  /\ reading.is = "read_series" => Influx!SeriesOf(n, s)
  /\ reading.is = "read" => Influx!NewestOf(n, s)

\* The columns returned for a node: one of its own, and each of a node with its field.
HasColumns(n) ==
  /\ \E s \in columns[n] : AskedColumn(n, s)
  /\ \A s \in columns[n] : \E m \in reading.nodes : Field[m] = Field[n] /\ AskedColumn(m, s)

FramesHold ==
  reading.left # {} =>
    /\ reading.is # "idle"
    /\ reading = [is |-> reading.is, window |-> reading.window, nodes |-> reading.nodes,
                  frames |-> reading.frames, left |-> reading.left, since |-> reading.since]
    /\ DOMAIN reading.frames = {n \in reading.nodes : Table[n] \notin reading.left}
    /\ \A n \in DOMAIN reading.frames : AskedColumn(n, reading.frames[n])
ColumnsHold ==
  reading.left = {} /\ reading.is # "idle" /\ columns # <<>> =>
    \A n \in reading.nodes : HasColumns(n)

InfluxParts ==
  InfluxTables /\ RowsHoldKept /\ WritesNewest /\ KeptSince /\ FramesHold /\ ColumnsHold
InfluxInv == connection = "influx" => InfluxParts

\* A union of finitely many finite sets.
LEMMA FiniteUnion ==
  ASSUME NEW S, IsFiniteSet(S), NEW f, \A x \in S : IsFiniteSet(f[x])
  PROVE  IsFiniteSet(UNION {f[x] : x \in S})
<1> DEFINE T == {f[x] : x \in S}
<1> DEFINE g == [x \in S |-> f[x]]
<1>1. g \in Surjection(S, T)
  BY DEF Surjection
<1>2. \A X \in T : IsFiniteSet(X)
  OBVIOUS
<1> HIDE DEF g, T
<1>3. IsFiniteSet(T)
  BY <1>1, FS_Surjection
<1> QED
  BY <1>2, <1>3, FS_UNION DEF T

\* The greatest time for the instance of the database.
LEMMA InfluxMax ==
  ASSUME NEW S \in SUBSET Int, IsFiniteSet(S), S # {}
  PROVE  Influx!Max(S) \in S /\ \A y \in S : Influx!Max(S) >= y
BY FiniteHasEnds DEF Influx!Max, HasEnds

\* What the assumptions say of the constants of the database.
LEMMA InfluxConstants ==
  /\ IsFiniteSet(InfluxNodes) /\ InfluxSecond \in Nat \ {0} /\ LastWrite \in Nat
  /\ \A times \in Times : times \in SUBSET Int /\ IsFiniteSet(times)
  /\ InfluxWindows \subseteq [from : Int, to : Int]
  /\ NaN \notin InfluxNodes \X Nat
BY RequestsAssumption
DEF RequestsAssumption, Influx!InfluxAssumption, Influx!IsFiniteSet, IsFiniteSet

\* While the database only takes more, the columns of a reader stay good.
LEMMA ColumnsStay ==
  ASSUME UNCHANGED reading, NEW n, NEW s, AskedColumn(n, s),
         DOMAIN kept[n] \subseteq DOMAIN kept'[n]
  PROVE  AskedColumn(n, s)'
<1>1. Influx!SeriesOf(n, s) => Influx!SeriesOf(n, s)'
  BY DEF Influx!SeriesOf, Influx!Filled, Influx!InWindow
<1>2. Influx!NewestOf(n, s) => Influx!NewestOf(n, s)'
  BY DEF Influx!NewestOf, Influx!Filled, Influx!NodesOf, Influx!InWindow
<1> QED
  BY <1>1, <1>2 DEF AskedColumn

\* What a database knows after it has taken a frame.
LEMMA MergedRows ==
  ASSUME NEW T \in Influx!Tables, InfluxTables, WritesNewest, writing.left # {},
         NEW table, table = Influx!Merged(T, writing.series)
  PROVE  /\ DOMAIN table \in SUBSET Int /\ IsFiniteSet(DOMAIN table)
         /\ DOMAIN tables[T] \subseteq DOMAIN table
         /\ \A n \in DOMAIN writing.series \cap Influx!NodesOf(T) :
              \A t \in DOMAIN writing.series[n] :
                /\ t \in DOMAIN table /\ n \in DOMAIN table[t]
                /\ table[t][n] = writing.series[n][t]
         /\ \A t \in DOMAIN tables[T] : \A n \in DOMAIN tables[T][t] :
              /\ n \in DOMAIN table[t]
              /\ \/ table[t][n] = tables[T][t][n]
                 \/ n \in DOMAIN writing.series \cap Influx!NodesOf(T)
                    /\ t \in DOMAIN writing.series[n]
         /\ \A t \in DOMAIN table : \A n \in DOMAIN table[t] :
              \/ t \in DOMAIN tables[T] /\ n \in DOMAIN tables[T][t]
              \/ n \in DOMAIN writing.series \cap Influx!NodesOf(T)
                 /\ t \in DOMAIN writing.series[n]
<1> DEFINE series == writing.series
<1> DEFINE nodes == DOMAIN series \cap Influx!NodesOf(T)
<1> DEFINE rows == UNION {DOMAIN series[n] : n \in nodes}
<1> DEFINE sent(t) == {n \in nodes : t \in DOMAIN series[n]}
<1> DEFINE old(t) == IF t \in DOMAIN tables[T] THEN tables[T][t] ELSE <<>>
<1> DEFINE new == [t \in rows |-> Influx!Over([n \in sent(t) |-> series[n][t]], old(t))]
<1>1. table = Influx!Over(new, tables[T])
  BY DEF Influx!Merged
<1>2. rows \in SUBSET Int /\ IsFiniteSet(rows)
  <2>1. \A n \in nodes : DOMAIN series[n] \in SUBSET Int /\ IsFiniteSet(DOMAIN series[n])
    BY DEF WritesNewest
  <2>2. IsFiniteSet(nodes)
    <3>1. nodes \subseteq InfluxNodes
      BY DEF Influx!NodesOf
    <3> QED
      BY <3>1, InfluxConstants, FS_Subset
  <2> DEFINE f == [n \in nodes |-> DOMAIN series[n]]
  <2>3. \A n \in nodes : IsFiniteSet(f[n])
    BY <2>1
  <2>4. rows = UNION {f[n] : n \in nodes}
    OBVIOUS
  <2> HIDE DEF f, nodes
  <2>5. IsFiniteSet(UNION {f[n] : n \in nodes})
    BY <2>2, <2>3, FiniteUnion
  <2> QED
    BY <2>1, <2>4, <2>5
<1>3. DOMAIN table = rows \cup DOMAIN tables[T]
  BY <1>1 DEF Influx!Over
<1>4. DOMAIN tables[T] \in SUBSET Int /\ IsFiniteSet(DOMAIN tables[T])
  BY DEF InfluxTables
<1>5. DOMAIN table \in SUBSET Int /\ IsFiniteSet(DOMAIN table)
  <2> HIDE DEF rows
  <2> QED
    BY <1>2, <1>3, <1>4, FS_Union
<1>6. \A t \in rows :
        /\ DOMAIN table[t] = sent(t) \cup DOMAIN old(t)
        /\ \A n \in DOMAIN table[t] : table[t][n] = IF n \in sent(t) THEN series[n][t] ELSE old(t)[n]
  <2> SUFFICES ASSUME NEW t \in rows
      PROVE  /\ DOMAIN table[t] = sent(t) \cup DOMAIN old(t)
             /\ \A n \in DOMAIN table[t] :
                  table[t][n] = IF n \in sent(t) THEN series[n][t] ELSE old(t)[n]
    OBVIOUS
  <2>1. t \in DOMAIN new /\ DOMAIN new \subseteq DOMAIN table
    BY <1>3
  <2>2. table[t] = new[t]
    <3> HIDE DEF new, rows
    <3> QED
      BY <1>1, <2>1 DEF Influx!Over
  <2>3. new[t] = Influx!Over([n \in sent(t) |-> series[n][t]], old(t))
    OBVIOUS
  <2> HIDE DEF new, rows, old, sent
  <2> QED
    BY <2>2, <2>3 DEF Influx!Over
<1>7. \A t \in DOMAIN table : t \notin rows => table[t] = tables[T][t]
  BY <1>1, <1>3 DEF Influx!Over
<1>8. DOMAIN <<>> = {}
  OBVIOUS
<1>9. ASSUME NEW n \in nodes, NEW t \in DOMAIN series[n]
      PROVE  /\ t \in DOMAIN table /\ n \in DOMAIN table[t]
             /\ table[t][n] = series[n][t]
  <2>1. t \in rows /\ n \in sent(t)
    OBVIOUS
  <2> QED
    BY <2>1, <1>3, <1>6
<1>10. ASSUME NEW t \in DOMAIN tables[T], NEW n \in DOMAIN tables[T][t]
       PROVE  /\ n \in DOMAIN table[t]
              /\ table[t][n] = tables[T][t][n] \/ (n \in nodes /\ t \in DOMAIN series[n])
  <2>1. old(t) = tables[T][t]
    OBVIOUS
  <2>2. CASE t \in rows
    <3>1. n \in DOMAIN table[t]
      BY <1>6, <2>1, <2>2
    <3> QED
      BY <1>6, <2>1, <2>2, <3>1
  <2>3. CASE t \notin rows
    BY <1>3, <1>7, <2>3
  <2> QED
    BY <2>2, <2>3
<1>11. ASSUME NEW t \in DOMAIN table, NEW n \in DOMAIN table[t]
       PROVE  \/ t \in DOMAIN tables[T] /\ n \in DOMAIN tables[T][t]
              \/ n \in nodes /\ t \in DOMAIN series[n]
  <2>1. CASE t \in rows
    <3>1. n \in sent(t) \cup DOMAIN old(t)
      BY <1>6, <2>1
    <3> QED
      BY <1>8, <3>1
  <2>2. CASE t \notin rows
    BY <1>3, <1>7, <2>2
  <2> QED
    BY <2>1, <2>2
<1> QED
  BY <1>3, <1>5, <1>9, <1>10, <1>11

\* The call that begins to write: its values are newer than all others.
LEMMA InfluxBeginWrite ==
  ASSUME InfluxParts, NEW series, Influx!BeginWrite(series),
         \A n \in DOMAIN series :
           /\ n \in InfluxNodes /\ DOMAIN series[n] \in SUBSET Int /\ IsFiniteSet(DOMAIN series[n])
           /\ \A t \in DOMAIN series[n] : series[n][t] = <<n, writes + 1>>
  PROVE  InfluxParts'
<1>1. /\ writing' = [is |-> "write", series |-> series,
                     left |-> Influx!_group_by_table(DOMAIN series)]
      /\ writes' = writes + 1
      /\ UNCHANGED <<tables, kept, reading, columns>>
  BY DEF Influx!BeginWrite, Influx!readVars
<1>2. InfluxTables' /\ writes \in Nat /\ writes' \in Nat
  BY <1>1 DEF InfluxParts, InfluxTables
<1>3. \A v, n : NodeValue(v, n) => NodeValue(v, n)'
  <2> SUFFICES ASSUME NEW v, NEW n, NodeValue(v, n) PROVE \E k \in 0..writes' : v = <<n, k>>
    BY <1>1 DEF NodeValue
  <2>1. PICK k \in 0..writes : v = <<n, k>>
    BY DEF NodeValue
  <2>2. k \in 0..writes'
    BY <1>1, <1>2
  <2> QED
    BY <2>1, <2>2
<1>4. RowsHoldKept'
  BY <1>1, <1>3 DEF InfluxParts, RowsHoldKept
<1>5. WritesNewest'
  BY <1>1 DEF WritesNewest
<1>6. KeptSince'
  BY <1>1, <1>3 DEF InfluxParts, KeptSince
<1>7. FramesHold' /\ ColumnsHold'
  <2>1. \A n, s : AskedColumn(n, s) => AskedColumn(n, s)'
    BY <1>1, ColumnsStay
  <2>2. \A n : HasColumns(n) => HasColumns(n)'
    BY <1>1, <2>1 DEF HasColumns
  <2> QED
    BY <1>1, <2>1, <2>2 DEF InfluxParts, FramesHold, ColumnsHold
<1> QED
  BY <1>2, <1>4, <1>5, <1>6, <1>7 DEF InfluxParts

\* Both calls that write begin with rows of whole numbers of time and values of theirs.
LEMMA InfluxWrite ==
  ASSUME InfluxParts, Influx!write \/ Influx!write_series
  PROVE  InfluxParts'
<1>1. writes \in Nat
  BY DEF InfluxParts, InfluxTables
<1>2. CASE Influx!write
  <2>1. PICK nodes \in SUBSET InfluxNodes, time \in now..LastWrite :
          Influx!BeginWrite([n \in nodes |->
            [t \in {Influx!round_timestamp(time, InfluxSecond, "ceil")} |-> Influx!Value(n)]])
    BY <1>2 DEF Influx!write
  <2> DEFINE row == Influx!round_timestamp(time, InfluxSecond, "ceil")
  <2> DEFINE series == [n \in nodes |-> [t \in {row} |-> Influx!Value(n)]]
  <2>2. row \in Int
    BY InfluxConstants, RoundedNumbers
    DEF Influx!round_timestamp, Influx!Ceil, Influx!Floor
  <2>3. \A n \in nodes : Influx!Value(n) = <<n, writes + 1>>
    BY DEF Influx!Value
  <2>4. IsFiniteSet({row})
    BY FS_Singleton
  <2>5. \A n \in DOMAIN series :
          /\ n \in InfluxNodes /\ DOMAIN series[n] \in SUBSET Int /\ IsFiniteSet(DOMAIN series[n])
          /\ \A t \in DOMAIN series[n] : series[n][t] = <<n, writes + 1>>
    <3> HIDE DEF row
    <3> QED
      BY <2>2, <2>3, <2>4
  <2>6. Influx!BeginWrite(series)
    BY <2>1
  <2> HIDE DEF series
  <2> QED
    BY <2>5, <2>6, InfluxBeginWrite
<1>3. CASE Influx!write_series
  <2>1. PICK nodes \in SUBSET InfluxNodes : \E times \in [nodes -> Times] :
          Influx!BeginWrite([n \in nodes |-> [t \in times[n] |-> Influx!Value(n)]])
    BY <1>3 DEF Influx!write_series
  <2>2. PICK times \in [nodes -> Times] :
          Influx!BeginWrite([n \in nodes |-> [t \in times[n] |-> Influx!Value(n)]])
    BY <2>1
  <2> DEFINE series == [n \in nodes |-> [t \in times[n] |-> Influx!Value(n)]]
  <2>3. \A n \in nodes : Influx!Value(n) = <<n, writes + 1>>
    BY DEF Influx!Value
  <2>4. \A n \in nodes : times[n] \in SUBSET Int /\ IsFiniteSet(times[n])
    BY InfluxConstants
  <2>5. \A n \in DOMAIN series :
          /\ n \in InfluxNodes /\ DOMAIN series[n] \in SUBSET Int /\ IsFiniteSet(DOMAIN series[n])
          /\ \A t \in DOMAIN series[n] : series[n][t] = <<n, writes + 1>>
    BY <2>3, <2>4
  <2>6. Influx!BeginWrite(series)
    BY <2>2
  <2> HIDE DEF series
  <2> QED
    BY <2>5, <2>6, InfluxBeginWrite
<1> QED
  BY <1>2, <1>3

\* What the database takes is newer than what it had, and is what its rows hold.
LEMMA InfluxWriteTable ==
  ASSUME InfluxParts, NEW T \in Influx!Tables, Influx!WriteTable(T)
  PROVE  InfluxParts'
<1> DEFINE series == writing.series
<1> DEFINE nodes == DOMAIN series \cap Influx!NodesOf(T)
<1>1. /\ T \in writing.left /\ InfluxTables /\ RowsHoldKept /\ WritesNewest /\ KeptSince
      /\ FramesHold /\ ColumnsHold
  BY DEF InfluxParts, Influx!WriteTable
<1>2. /\ kept' = [n \in InfluxNodes |->
                   IF n \in nodes THEN Influx!Over(series[n], kept[n]) ELSE kept[n]]
      /\ tables' = [tables EXCEPT ![T] = Influx!Merged(T, series)]
      /\ writing' = [writing EXCEPT !.left = @ \ {T}]
      /\ UNCHANGED <<now, writes, reading, columns>>
  BY DEF Influx!WriteTable, Influx!readVars
<1>3. /\ tables'[T] = Influx!Merged(T, series) /\ DOMAIN tables' = DOMAIN tables
      /\ \A U \in Influx!Tables : U # T => tables'[U] = tables[U]
  BY <1>1, <1>2 DEF InfluxTables
<1>4. PICK table : table = tables'[T]
  OBVIOUS
<1>5. writing.left # {}
  BY <1>1
<1>6. /\ DOMAIN table \in SUBSET Int /\ IsFiniteSet(DOMAIN table)
      /\ DOMAIN tables[T] \subseteq DOMAIN table
      /\ \A n \in nodes : \A t \in DOMAIN series[n] :
           /\ t \in DOMAIN table /\ n \in DOMAIN table[t]
           /\ table[t][n] = series[n][t]
      /\ \A t \in DOMAIN tables[T] : \A n \in DOMAIN tables[T][t] :
           /\ n \in DOMAIN table[t]
           /\ \/ table[t][n] = tables[T][t][n]
              \/ n \in nodes /\ t \in DOMAIN series[n]
      /\ \A t \in DOMAIN table : \A n \in DOMAIN table[t] :
           \/ t \in DOMAIN tables[T] /\ n \in DOMAIN tables[T][t]
           \/ n \in nodes /\ t \in DOMAIN series[n]
  BY <1>1, <1>3, <1>4, <1>5, MergedRows
<1>7. /\ \A n \in nodes : Table[n] = T /\ n \in InfluxNodes
      /\ \A n \in nodes : \A t \in DOMAIN series[n] : series[n][t] = <<n, writes>>
  BY <1>1, <1>5 DEF WritesNewest, Influx!NodesOf
<1>8. ASSUME NEW n \in InfluxNodes
      PROVE  /\ DOMAIN kept[n] \subseteq DOMAIN kept'[n]
             /\ \A t \in DOMAIN kept'[n] :
                  \/ n \in nodes /\ t \in DOMAIN series[n] /\ kept'[n][t] = series[n][t]
                  \/ /\ ~ (n \in nodes /\ t \in DOMAIN series[n])
                     /\ t \in DOMAIN kept[n] /\ kept'[n][t] = kept[n][t]
             /\ n \in nodes => DOMAIN series[n] \subseteq DOMAIN kept'[n]
  <2>1. kept'[n] = IF n \in nodes THEN Influx!Over(series[n], kept[n]) ELSE kept[n]
    BY <1>2
  <2> QED
    BY <2>1 DEF Influx!Over
<1> HIDE DEF series, nodes
<1>9. InfluxTables'
  <2>1. Influx!Tables' = Influx!Tables
    BY DEF Influx!Tables
  <2> QED
    BY <1>1, <1>2, <1>3, <1>4, <1>6, <2>1 DEF InfluxTables
<1>10. \A v, n : NodeValue(v, n)' = NodeValue(v, n)
  BY <1>2 DEF NodeValue
<1>11. writes \in Nat
  BY <1>1 DEF InfluxTables
<1>12. \A n \in nodes : \A t \in DOMAIN series[n] : NodeValue(series[n][t], n)
  <2>1. writes \in 0..writes
    BY <1>11
  <2> QED
    BY <1>7, <2>1 DEF NodeValue
<1>13. ASSUME NEW n \in InfluxNodes
       PROVE  /\ \A t \in DOMAIN kept'[n] :
                   /\ NodeValue(kept'[n][t], n)
                   /\ t \in DOMAIN tables'[Table[n]] /\ n \in DOMAIN tables'[Table[n]][t]
                   /\ tables'[Table[n]][t][n] = kept'[n][t]
              /\ \A t \in DOMAIN tables'[Table[n]] :
                   n \in DOMAIN tables'[Table[n]][t] => t \in DOMAIN kept'[n]
  <2>1. Table[n] \in Influx!Tables
    BY DEF Influx!Tables
  <2>2. /\ \A t \in DOMAIN kept[n] :
             /\ NodeValue(kept[n][t], n)
             /\ t \in DOMAIN tables[Table[n]] /\ n \in DOMAIN tables[Table[n]][t]
             /\ tables[Table[n]][t][n] = kept[n][t]
        /\ \A t \in DOMAIN tables[Table[n]] :
             n \in DOMAIN tables[Table[n]][t] => t \in DOMAIN kept[n]
    BY <1>1 DEF RowsHoldKept
  <2>3. CASE Table[n] = T
    <3>1. \A t \in DOMAIN kept'[n] :
            /\ NodeValue(kept'[n][t], n)
            /\ t \in DOMAIN table /\ n \in DOMAIN table[t]
            /\ table[t][n] = kept'[n][t]
      <4> SUFFICES ASSUME NEW t \in DOMAIN kept'[n]
          PROVE  /\ NodeValue(kept'[n][t], n)
                 /\ t \in DOMAIN table /\ n \in DOMAIN table[t]
                 /\ table[t][n] = kept'[n][t]
        OBVIOUS
      <4>1. CASE n \in nodes /\ t \in DOMAIN series[n] /\ kept'[n][t] = series[n][t]
        BY <4>1, <1>6, <1>12
      <4>2. CASE /\ ~ (n \in nodes /\ t \in DOMAIN series[n])
                 /\ t \in DOMAIN kept[n] /\ kept'[n][t] = kept[n][t]
        BY <4>2, <2>2, <2>3, <1>6
      <4> QED
        BY <4>1, <4>2, <1>8
    <3>2. \A t \in DOMAIN table : n \in DOMAIN table[t] => t \in DOMAIN kept'[n]
      BY <1>6, <1>8, <2>2, <2>3
    <3> QED
      BY <1>4, <2>3, <3>1, <3>2
  <2>4. CASE Table[n] # T
    <3>1. n \notin nodes /\ tables'[Table[n]] = tables[Table[n]]
      BY <1>3, <1>7, <2>1, <2>4
    <3>2. /\ DOMAIN kept'[n] \subseteq DOMAIN kept[n]
          /\ \A t \in DOMAIN kept'[n] : kept'[n][t] = kept[n][t]
      BY <1>8, <3>1
    <3> QED
      BY <1>8, <2>2, <3>1, <3>2
  <2> QED
    BY <2>3, <2>4
<1>14. RowsHoldKept'
  BY <1>10, <1>13 DEF RowsHoldKept
<1>15. WritesNewest'
  <2>1. writing = [is |-> writing.is, series |-> writing.series, left |-> writing.left]
    BY <1>1, <1>5 DEF WritesNewest
  <2>2. writing' = [is |-> writing.is, series |-> writing.series, left |-> writing.left \ {T}]
    BY <1>2, <2>1
  <2>3. /\ writing'.series = writing.series
        /\ writing' = [is |-> writing'.is, series |-> writing'.series, left |-> writing'.left]
    BY <2>2
  <2> QED
    BY <1>1, <1>2, <1>5, <2>3 DEF WritesNewest
<1>16. KeptSince'
  <2> SUFFICES ASSUME reading.is # "idle", NEW n \in InfluxNodes, NEW t \in DOMAIN reading.since[n]
      PROVE  t \in DOMAIN kept'[n] /\ reading.since[n][t][2] <= kept'[n][t][2]
    BY <1>1, <1>2, <1>10 DEF KeptSince
  <2>1. /\ t \in DOMAIN kept[n] /\ NodeValue(reading.since[n][t], n)
        /\ reading.since[n][t][2] <= kept[n][t][2]
    BY <1>1 DEF KeptSince
  <2>2. t \in DOMAIN kept'[n]
    BY <1>8, <2>1
  <2>3. CASE n \in nodes /\ t \in DOMAIN series[n] /\ kept'[n][t] = series[n][t]
    <3>1. PICK k \in 0..writes : reading.since[n][t] = <<n, k>>
      BY <2>1 DEF NodeValue
    <3>2. reading.since[n][t][2] = k /\ k <= writes
      BY <3>1, <1>11
    <3>3. kept'[n][t][2] = writes
      BY <1>7, <2>3
    <3> QED
      BY <2>2, <3>2, <3>3
  <2>4. CASE t \in DOMAIN kept[n] /\ kept'[n][t] = kept[n][t]
    BY <2>1, <2>2, <2>4
  <2> QED
    BY <1>8, <2>2, <2>3, <2>4
<1>17. FramesHold' /\ ColumnsHold'
  <2>1. \A n \in InfluxNodes : \A s : AskedColumn(n, s) => AskedColumn(n, s)'
    BY <1>2, <1>8, ColumnsStay
  <2>3. reading.is # "idle" => reading.nodes \subseteq InfluxNodes
    BY <1>1 DEF KeptSince
  <2>2. reading.is # "idle" =>
          \A n \in reading.nodes : HasColumns(n) => HasColumns(n)'
    BY <1>2, <2>1, <2>3 DEF HasColumns
  <2>4. FramesHold'
    BY <1>1, <1>2, <2>1, <2>3 DEF FramesHold
  <2>5. ColumnsHold'
    BY <1>1, <1>2, <2>1, <2>2, <2>3 DEF ColumnsHold
  <2> QED
    BY <2>4, <2>5
<1> QED
  BY <1>9, <1>14, <1>15, <1>16, <1>17 DEF InfluxParts

\* A call that reads begins without frames, and with what is kept at that time.
LEMMA InfluxBeginRead ==
  ASSUME InfluxParts, NEW is, is # "idle", NEW window, NEW nodes \in SUBSET InfluxNodes, nodes # {},
         Influx!BeginRead(is, window, nodes)
  PROVE  InfluxParts'
<1>1. /\ reading' = [is |-> is, window |-> window, nodes |-> nodes, frames |-> <<>>,
                     left |-> Influx!_group_by_table(nodes), since |-> kept]
      /\ columns' = <<>>
      /\ UNCHANGED <<tables, writing, writes, kept>>
  BY DEF Influx!BeginRead, Influx!writeVars
<1>2. InfluxTables' /\ WritesNewest'
  BY <1>1 DEF InfluxParts, InfluxTables, WritesNewest
<1>3. \A v, n : NodeValue(v, n)' = NodeValue(v, n)
  BY <1>1 DEF NodeValue
<1>4. RowsHoldKept'
  BY <1>1, <1>3 DEF InfluxParts, RowsHoldKept
<1>5. KeptSince'
  <2> SUFFICES ASSUME NEW n \in InfluxNodes, NEW t \in DOMAIN kept[n]
      PROVE  NodeValue(kept[n][t], n) /\ kept[n][t][2] <= kept[n][t][2]
    BY <1>1, <1>3 DEF KeptSince
  <2>1. NodeValue(kept[n][t], n)
    BY DEF InfluxParts, RowsHoldKept
  <2>2. PICK k \in 0..writes : kept[n][t] = <<n, k>>
    BY <2>1 DEF NodeValue
  <2>3. kept[n][t][2] = k /\ k \in Int
    BY <2>2
  <2> QED
    BY <2>1, <2>3
<1>6. FramesHold'
  <2>1. {n \in nodes : Table[n] \notin Influx!_group_by_table(nodes)} = {}
    BY DEF Influx!_group_by_table
  <2>2. DOMAIN reading'.frames = {}
    BY <1>1
  <2> QED
    BY <1>1, <2>1, <2>2 DEF FramesHold
<1>7. ColumnsHold'
  BY <1>1 DEF ColumnsHold
<1> QED
  BY <1>2, <1>4, <1>5, <1>6, <1>7 DEF InfluxParts

\* The column a query finds for a node.
LEMMA QueryFinds ==
  ASSUME InfluxTables, RowsHoldKept, KeptSince, reading.is # "idle",
         NEW n \in reading.nodes, DOMAIN kept[n] # {}, NEW s,
         DOMAIN s = Influx!Selected(Table[n]),
         \A t \in DOMAIN s :
           s[t] = IF n \in DOMAIN tables[Table[n]][t] THEN tables[Table[n]][t][n] ELSE NaN
  PROVE  AskedColumn(n, s)
<1> DEFINE T == Table[n]
<1>1. n \in InfluxNodes /\ T \in Influx!Tables
  BY DEF KeptSince, Influx!Tables
<1>2. DOMAIN tables[T] \in SUBSET Int /\ IsFiniteSet(DOMAIN tables[T])
  BY <1>1 DEF InfluxTables
<1>3. \A m \in Influx!NodesOf(T) : \A t \in DOMAIN kept[m] :
        /\ NodeValue(kept[m][t], m)
        /\ t \in DOMAIN tables[T] /\ m \in DOMAIN tables[T][t]
        /\ tables[T][t][m] = kept[m][t]
  BY DEF RowsHoldKept, Influx!NodesOf
<1>4. \A t \in DOMAIN tables[T] : n \in DOMAIN tables[T][t] => t \in DOMAIN kept[n]
  BY <1>1 DEF RowsHoldKept
<1>5. n \in Influx!NodesOf(T) /\ Influx!NodesOf(T) \subseteq InfluxNodes
  BY <1>1 DEF Influx!NodesOf
<1>6. \A m \in InfluxNodes : \A t \in DOMAIN reading.since[m] :
        t \in DOMAIN kept[m] /\ reading.since[m][t][2] <= kept[m][t][2]
  BY DEF KeptSince
<1>7. \A t \in DOMAIN kept[n] : kept[n][t] # NaN /\ kept[n][t][1] = n
  <2> SUFFICES ASSUME NEW t \in DOMAIN kept[n] PROVE kept[n][t] # NaN /\ kept[n][t][1] = n
    OBVIOUS
  <2>1. PICK k \in 0..writes : kept[n][t] = <<n, k>>
    BY <1>3, <1>5 DEF NodeValue
  <2>2. k \in Nat
    BY DEF InfluxTables
  <2> QED
    BY <1>1, <2>1, <2>2, InfluxConstants
<1>8. Influx!Selected(T) \subseteq DOMAIN tables[T]
  <2>1. DOMAIN tables[T] # {}
    BY <1>3, <1>5
  <2>2. Influx!Max(DOMAIN tables[T]) \in DOMAIN tables[T]
    BY <1>2, <2>1, InfluxMax
  <2> QED
    BY <2>2 DEF Influx!Selected
<1>9. \A t \in Influx!Filled(s) : t \in DOMAIN kept[n] /\ s[t] = kept[n][t]
  BY <1>3, <1>4, <1>5, <1>8 DEF Influx!Filled
<1>10. \A t \in DOMAIN kept[n] : t \in DOMAIN s => t \in Influx!Filled(s) /\ s[t] = kept[n][t]
  BY <1>3, <1>5, <1>7 DEF Influx!Filled
<1>11. ASSUME reading.is = "read_series" PROVE Influx!SeriesOf(n, s)
  <2>1. DOMAIN s = {t \in DOMAIN tables[T] : Influx!InWindow(t)}
    BY <1>11 DEF Influx!Selected
  <2>2. \A t \in Influx!Filled(s) : t \in DOMAIN s
    BY DEF Influx!Filled
  <2>3. ASSUME NEW t \in DOMAIN reading.since[n], Influx!InWindow(t)
        PROVE  t \in Influx!Filled(s) /\ s[t][2] >= reading.since[n][t][2]
    <3>1. t \in DOMAIN kept[n] /\ reading.since[n][t][2] <= kept[n][t][2]
      BY <1>1, <1>6
    <3>2. t \in DOMAIN s
      BY <1>3, <1>5, <2>1, <2>3, <3>1
    <3>3. t \in Influx!Filled(s) /\ s[t] = kept[n][t]
      BY <1>10, <3>1, <3>2
    <3>4. reading.since[n][t][2] \in Int /\ kept[n][t][2] \in Int
      <4>1. NodeValue(kept[n][t], n) /\ NodeValue(reading.since[n][t], n)
        BY <1>1, <1>3, <1>5, <3>1 DEF KeptSince
      <4>2. PICK k \in 0..writes : kept[n][t] = <<n, k>>
        BY <4>1 DEF NodeValue
      <4>3. PICK j \in 0..writes : reading.since[n][t] = <<n, j>>
        BY <4>1 DEF NodeValue
      <4>4. kept[n][t][2] = k /\ reading.since[n][t][2] = j
        BY <4>2, <4>3
      <4> QED
        BY <4>4
    <3> QED
      BY <3>1, <3>3, <3>4
  <2> QED
    BY <1>7, <1>9, <2>1, <2>2, <2>3 DEF Influx!SeriesOf
<1>12. ASSUME reading.is = "read" PROVE Influx!NewestOf(n, s)
  <2>1. DOMAIN s = {Influx!Max(DOMAIN tables[T])}
    BY <1>12 DEF Influx!Selected
  <2>2. ASSUME NEW m \in Influx!NodesOf(T), NEW t \in DOMAIN reading.since[m]
        PROVE  \E u \in DOMAIN s : t <= u
    <3>1. t \in DOMAIN tables[T]
      BY <1>3, <1>5, <1>6, <2>2
    <3>2. Influx!Max(DOMAIN tables[T]) \in Int /\ Influx!Max(DOMAIN tables[T]) >= t
      BY <1>2, <3>1, InfluxMax
    <3>3. t \in Int
      BY <1>2, <3>1
    <3> QED
      BY <2>1, <3>2, <3>3
  <2> QED
    BY <1>7, <1>9, <2>2 DEF Influx!NewestOf
<1> QED
  BY <1>11, <1>12 DEF AskedColumn

\* The frames side by side have the values of the frame of each node.
LEMMA ConcatHolds ==
  ASSUME NEW f, NEW n \in DOMAIN f, AskedColumn(n, f[n]), NEW s, s = Influx!Concat(f)[n]
  PROVE  AskedColumn(n, s)
<1> DEFINE rows == UNION {DOMAIN f[c] : c \in DOMAIN f}
<1>2. s = [t \in rows |-> IF t \in DOMAIN f[n] THEN f[n][t] ELSE NaN]
  BY DEF Influx!Concat
<1>3. DOMAIN s = rows /\ DOMAIN f[n] \subseteq rows
  BY <1>2
<1>4. \A t \in DOMAIN s : s[t] = IF t \in DOMAIN f[n] THEN f[n][t] ELSE NaN
  BY <1>2, <1>3
<1> HIDE DEF rows
<1>5. /\ Influx!Filled(s) = Influx!Filled(f[n])
      /\ \A t \in Influx!Filled(s) : s[t] = f[n][t]
  BY <1>3, <1>4 DEF Influx!Filled
<1>6. AskedColumn(n, f[n])
  OBVIOUS
<1>7. Influx!SeriesOf(n, f[n]) => Influx!SeriesOf(n, s)
  BY <1>5 DEF Influx!SeriesOf
<1>8. Influx!NewestOf(n, f[n]) => Influx!NewestOf(n, s)
  BY <1>3, <1>5 DEF Influx!NewestOf
<1> QED
  BY <1>6, <1>7, <1>8 DEF AskedColumn

\* The columns of a field are those of the nodes that have it.
LEMMA JoinedHolds ==
  ASSUME NEW f, \A n \in DOMAIN f : AskedColumn(n, f[n]), NEW n \in DOMAIN f,
         NEW joined, joined = Influx!Joined(f)
  PROVE  /\ \E s \in joined[n] : AskedColumn(n, s)
         /\ \A s \in joined[n] : \E m \in DOMAIN f : Field[m] = Field[n] /\ AskedColumn(m, s)
<1> DEFINE all == Influx!Concat(f)
<1>1. joined[n] = {all[m] : m \in {k \in DOMAIN f : Field[k] = Field[n]}}
  BY DEF Influx!Joined
<1>2. \A m \in DOMAIN f : AskedColumn(m, all[m])
  BY ConcatHolds
<1> HIDE DEF all
<1> QED
  BY <1>1, <1>2

\* A query adds the frame of its table, and the last one makes the columns.
LEMMA InfluxQuery ==
  ASSUME InfluxParts, NEW T \in Influx!Tables, Influx!Query(T)
  PROVE  InfluxParts'
<1> DEFINE asked == reading.nodes \cap Influx!NodesOf(T)
<1> DEFINE cell(t, n) == IF n \in DOMAIN tables[T][t] THEN tables[T][t][n] ELSE NaN
<1> DEFINE frame == [n \in asked |-> [t \in Influx!Selected(T) |-> cell(t, n)]]
<1> DEFINE all == Influx!Over(frame, reading.frames)
<1> DEFINE last == reading.left = {T}
<1>1. /\ T \in reading.left /\ \A n \in asked : DOMAIN kept[n] # {}
      /\ reading' = [reading EXCEPT !.left = @ \ {T}, !.frames = IF last THEN <<>> ELSE all]
      /\ columns' = IF last THEN Influx!Joined(all) ELSE columns
      /\ UNCHANGED <<tables, writing, writes, kept>>
  BY DEF Influx!Query, Influx!writeVars
<1>2. /\ InfluxTables /\ RowsHoldKept /\ WritesNewest /\ KeptSince /\ FramesHold
  BY DEF InfluxParts
<1>3. /\ reading.left # {} /\ reading.is # "idle"
      /\ reading = [is |-> reading.is, window |-> reading.window, nodes |-> reading.nodes,
                    frames |-> reading.frames, left |-> reading.left, since |-> reading.since]
      /\ DOMAIN reading.frames = {n \in reading.nodes : Table[n] \notin reading.left}
      /\ \A n \in DOMAIN reading.frames : AskedColumn(n, reading.frames[n])
  BY <1>1, <1>2 DEF FramesHold
<1>4. reading' = [is |-> reading.is, window |-> reading.window, nodes |-> reading.nodes,
                  frames |-> IF last THEN <<>> ELSE all, left |-> reading.left \ {T},
                  since |-> reading.since]
  BY <1>1, <1>3
<1>5. reading.nodes \subseteq InfluxNodes
  BY <1>2, <1>3 DEF KeptSince
<1>6. DOMAIN all = {n \in reading.nodes : Table[n] \notin reading.left \ {T}}
  <2>1. asked = {n \in reading.nodes : Table[n] = T}
    BY <1>5 DEF Influx!NodesOf
  <2>2. DOMAIN all = asked \cup DOMAIN reading.frames
    BY DEF Influx!Over
  <2> HIDE DEF all, asked
  <2> QED
    BY <1>3, <2>1, <2>2
<1>7. ASSUME NEW n \in DOMAIN all PROVE AskedColumn(n, all[n])
  <2>1. CASE n \in asked
    <3>1. all[n] = frame[n] /\ Table[n] = T
      BY <2>1 DEF Influx!Over, Influx!NodesOf
    <3> DEFINE s == frame[n]
    <3>2. /\ DOMAIN s = Influx!Selected(Table[n])
          /\ \A t \in DOMAIN s :
               s[t] = IF n \in DOMAIN tables[Table[n]][t] THEN tables[Table[n]][t][n] ELSE NaN
      BY <2>1, <3>1
    <3>3. n \in reading.nodes /\ DOMAIN kept[n] # {}
      BY <1>1, <2>1
    <3> HIDE DEF frame
    <3>4. AskedColumn(n, s)
      BY <1>2, <1>3, <3>2, <3>3, QueryFinds
    <3> QED
      BY <3>1, <3>4
  <2>2. CASE n \notin asked
    <3>1. n \in DOMAIN reading.frames /\ all[n] = reading.frames[n]
      BY <2>2 DEF Influx!Over
    <3> QED
      BY <1>3, <3>1
  <2> QED
    BY <2>1, <2>2
<1> HIDE DEF all, frame, last
<1>8. InfluxTables' /\ WritesNewest'
  BY <1>1, <1>2 DEF InfluxTables, WritesNewest
<1>9. \A v, n : NodeValue(v, n)' = NodeValue(v, n)
  BY <1>1 DEF NodeValue
<1>10. RowsHoldKept'
  BY <1>1, <1>2, <1>9 DEF RowsHoldKept
<1>11. reading'.is = reading.is /\ reading'.nodes = reading.nodes /\ reading'.since = reading.since
       /\ reading'.window = reading.window
  BY <1>4
<1>12. KeptSince'
  BY <1>1, <1>2, <1>9, <1>11 DEF KeptSince
<1>13. \A n, s : AskedColumn(n, s) => AskedColumn(n, s)'
  BY <1>1, <1>11 DEF AskedColumn, Influx!SeriesOf, Influx!NewestOf, Influx!Filled, Influx!NodesOf, Influx!InWindow
<1>14. FramesHold'
  <2>1. CASE last
    BY <1>4, <2>1 DEF FramesHold, last
  <2>2. CASE ~last
    <3>1. /\ reading'.frames = all /\ reading'.left = reading.left \ {T}
          /\ reading' = [is |-> reading'.is, window |-> reading'.window, nodes |-> reading'.nodes,
                         frames |-> reading'.frames, left |-> reading'.left,
                         since |-> reading'.since]
      BY <1>4, <2>2
    <3>2. DOMAIN reading'.frames = {n \in reading'.nodes : Table[n] \notin reading'.left}
      BY <1>6, <1>11, <3>1
    <3>3. \A n \in DOMAIN reading'.frames : AskedColumn(n, all[n])
      BY <1>7, <3>1
    <3> QED
      BY <1>3, <1>11, <1>13, <3>1, <3>2, <3>3 DEF FramesHold
  <2> QED
    BY <2>1, <2>2
<1>15. ColumnsHold'
  <2> SUFFICES ASSUME reading'.left = {} PROVE \A n \in reading.nodes : HasColumns(n)'
    BY <1>11 DEF ColumnsHold
  <2>1. reading.left \ {T} = {} /\ last
    BY <1>1, <1>4 DEF last
  <2>2. columns' = Influx!Joined(all) /\ DOMAIN all = reading.nodes
    BY <1>1, <1>6, <2>1
  <2>3. ASSUME NEW n \in reading.nodes PROVE HasColumns(n)'
    <3>1. PICK joined : joined = Influx!Joined(all)
      OBVIOUS
    <3>2. /\ \E s \in joined[n] : AskedColumn(n, s)
          /\ \A s \in joined[n] : \E m \in reading.nodes :
               Field[m] = Field[n] /\ AskedColumn(m, s)
      BY <1>7, <2>2, <3>1, JoinedHolds
    <3>3. columns'[n] = joined[n] /\ reading'.nodes = reading.nodes
      BY <1>11, <2>2, <3>1
    <3> QED
      BY <1>13, <3>2, <3>3 DEF HasColumns
  <2> QED
    BY <2>3
<1> QED
  BY <1>8, <1>10, <1>12, <1>14, <1>15 DEF InfluxParts

\* A call that fails leaves what was written, and the caller has nothing to return.
LEMMA InfluxFails ==
  ASSUME InfluxParts, Influx!WriteFails \/ Influx!QueryFails
  PROVE  InfluxParts'
<1>1. /\ UNCHANGED <<tables, writes, kept, columns>>
      /\ \/ UNCHANGED reading /\ writing'.left = {}
         \/ UNCHANGED writing /\ reading'.is = "idle" /\ reading'.left = {}
  BY DEF Influx!WriteFails, Influx!QueryFails, Influx!Idle, Influx!readVars,
         Influx!writeVars
<1>2. \A v, n : NodeValue(v, n)' = NodeValue(v, n)
  BY <1>1 DEF NodeValue
<1>3. InfluxTables' /\ RowsHoldKept' /\ WritesNewest'
  BY <1>1, <1>2 DEF InfluxParts, InfluxTables, RowsHoldKept, WritesNewest
<1>4. CASE UNCHANGED reading
  <2>1. \A n, s : AskedColumn(n, s)' = AskedColumn(n, s)
    BY <1>1, <1>4 DEF AskedColumn, Influx!SeriesOf, Influx!NewestOf, Influx!Filled, Influx!NodesOf, Influx!InWindow
  <2>2. \A n : HasColumns(n)' = HasColumns(n)
    BY <1>1, <1>4, <2>1 DEF HasColumns
  <2>3. KeptSince'
    BY <1>1, <1>2, <1>4 DEF InfluxParts, KeptSince
  <2>4. FramesHold' /\ ColumnsHold'
    BY <1>1, <1>4, <2>1, <2>2 DEF InfluxParts, FramesHold, ColumnsHold
  <2> QED
    BY <1>3, <2>3, <2>4 DEF InfluxParts
<1>5. CASE reading'.is = "idle" /\ reading'.left = {}
  BY <1>3, <1>5 DEF InfluxParts, KeptSince, FramesHold, ColumnsHold
<1> QED
  BY <1>1, <1>4, <1>5

\* Among the columns of a node is one that has every value of its window, except at the
\* end, that was taken when it was asked for, that one or one written since; read returns a
\* row that none of them is newer than; and each column has the values of one node that was
\* asked for with that field.
THEOREM InfluxWrittenIsRead == Spec => []WrittenIsRead
<1>1. ASSUME Init PROVE InfluxInv
  <2> SUFFICES ASSUME connection = "influx" PROVE InfluxParts
    BY DEF InfluxInv
  <2>1. Influx!Init
    BY <1>1 DEF Init
  <2>2. /\ tables = [t \in Influx!Tables |-> <<>>] /\ writes = 0
        /\ kept = [n \in InfluxNodes |-> <<>>] /\ writing.left = {}
        /\ reading.left = {} /\ reading.is = "idle"
    BY <2>1 DEF Influx!Init, Influx!Idle
  <2>3. DOMAIN <<>> = {}
    OBVIOUS
  <2>4. InfluxTables
    BY <2>2, <2>3, FS_EmptySet DEF InfluxTables
  <2>5. RowsHoldKept
    <3>1. \A n \in InfluxNodes : Table[n] \in Influx!Tables
      BY DEF Influx!Tables
    <3> QED
      BY <2>2, <2>3, <3>1 DEF RowsHoldKept
  <2> QED
    BY <2>2, <2>4, <2>5
    DEF InfluxParts, WritesNewest, KeptSince, FramesHold, ColumnsHold
<1>2. ASSUME InfluxInv, [Next]_vars PROVE InfluxInv'
  <2> SUFFICES ASSUME connection' = "influx" PROVE InfluxParts'
    BY DEF InfluxInv
  <2>1. connection = "influx" /\ (Influx!Next \/ UNCHANGED database)
    BY <1>2 DEF Next, vars, database
  <2>2. InfluxParts
    BY <1>2, <2>1 DEF InfluxInv
  <2>3. CASE UNCHANGED database
    <3>1. \A v, n : NodeValue(v, n)' = NodeValue(v, n)
      BY <2>3 DEF NodeValue, database
    <3>2. \A n, s : AskedColumn(n, s)' = AskedColumn(n, s)
      BY <2>3
      DEF AskedColumn, Influx!SeriesOf, Influx!NewestOf, Influx!Filled, Influx!NodesOf, Influx!InWindow, database
    <3>3. \A n : HasColumns(n)' = HasColumns(n)
      BY <2>3, <3>2 DEF HasColumns, database
    <3>4. InfluxTables' /\ RowsHoldKept' /\ WritesNewest' /\ KeptSince'
      BY <2>2, <2>3, <3>1
      DEF InfluxParts, InfluxTables, RowsHoldKept, WritesNewest, KeptSince, database
    <3>5. FramesHold' /\ ColumnsHold'
      BY <2>2, <2>3, <3>2, <3>3 DEF InfluxParts, FramesHold, ColumnsHold, database
    <3> QED
      BY <3>4, <3>5 DEF InfluxParts
  <2>4. ASSUME Influx!read \/ Influx!read_series PROVE InfluxParts'
    <3>1. PICK is \in {"read", "read_series"}, nodes \in (SUBSET InfluxNodes) \ {{}} :
            \E window : Influx!BeginRead(is, window, nodes)
      BY <2>4 DEF Influx!read, Influx!read_series
    <3>2. PICK window : Influx!BeginRead(is, window, nodes)
      BY <3>1
    <3>3. is # "idle" /\ nodes \in SUBSET InfluxNodes /\ nodes # {}
      BY <3>1
    <3> QED
      BY <2>2, <3>2, <3>3, InfluxBeginRead
  <2>5. ASSUME Influx!Next PROVE InfluxParts'
    BY <2>2, <2>4, <2>5, InfluxWrite, InfluxWriteTable, InfluxFails, InfluxQuery
    DEF Influx!Next
  <2> QED
    BY <2>1, <2>3, <2>5
<1>3. ASSUME InfluxInv PROVE WrittenIsRead
  <2> SUFFICES ASSUME InfluxParts PROVE Influx!SeriesIsWritten /\ Influx!NewestRowIsRead
    BY <1>3 DEF InfluxInv, WrittenIsRead
  <2>1. ColumnsHold
    BY DEF InfluxParts
  <2>2. Influx!SeriesIsWritten
    BY <2>1
       DEF ColumnsHold, HasColumns, AskedColumn, Influx!SeriesIsWritten, Influx!Returned
  <2>3. Influx!NewestRowIsRead
    BY <2>1
       DEF ColumnsHold, HasColumns, AskedColumn, Influx!NewestRowIsRead, Influx!Returned
  <2> QED
    BY <2>2, <2>3
<1> QED
  BY <1>1, <1>2, <1>3, PTL DEF Spec

-----------------------------------------------------------------------------
(* Modbus: numbers of digits, and what the registers of a node hold.       *)

\* A number is divided in one way.
LEMMA DivUnique ==
  ASSUME NEW b \in Nat \ {0}, NEW q \in Int, NEW r \in 0..(b - 1), NEW a \in Int, a = b * q + r
  PROVE  a \div b = q /\ a % b = r
<1>1. b \in Int /\ b > 0
  OBVIOUS
<1>2. PICK Q \in Int : Q = a \div b
  BY <1>1
<1>3. PICK R \in 0..(b - 1) : R = a % b
  BY <1>1
<1>4. a = b * Q + R
  BY <1>1, <1>2, <1>3
<1>5. PICK e \in Int : e = Q - q
  OBVIOUS
<1>6. b * Q = b * q + b * e
  BY <1>1, <1>5
<1>7. PICK f \in Int : f = b * e
  BY <1>1
<1>8. f = r - R
  <2>1. b * Q \in Int /\ b * q \in Int
    BY <1>1
  <2> QED
    BY <1>4, <1>6, <1>7, <2>1
<1>9. ~ (e >= 1) /\ ~ (e <= -1)
  <2>1. e >= 1 => b * e >= b
    BY <1>1
  <2>2. e <= -1 => b * e <= -b
    BY <1>1
  <2> QED
    BY <1>1, <1>7, <1>8, <2>1, <2>2
<1>10. Q = q
  BY <1>5, <1>9
<1> QED
  BY <1>2, <1>3, <1>4, <1>5, <1>6, <1>8, <1>7, <1>10

\* To divide by a product is to divide twice.
LEMMA DivTwice ==
  ASSUME NEW v \in Int, NEW B \in Nat \ {0}, NEW p \in Nat \ {0}
  PROVE  v \div (B * p) = (v \div p) \div B
<1>1. B \in Int /\ B > 0 /\ p \in Int /\ p > 0
  OBVIOUS
<1>2. PICK q \in Int : q = v \div p
  BY <1>1
<1>3. PICK r \in 0..(p - 1) : v = p * q + r
  BY <1>1, <1>2
<1>4. PICK s \in Int : s = q \div B
  BY <1>1
<1>5. PICK t \in 0..(B - 1) : q = B * s + t
  BY <1>1, <1>4
<1>6. B * p \in Nat \ {0}
  BY <1>1
<1>7. p * t + r \in 0..(B * p - 1)
  <2>1. PICK u \in Nat : u = B - 1 - t
    OBVIOUS
  <2>2. p * u >= 0 /\ p * u \in Int /\ p * t >= 0 /\ p * t \in Int
    BY <1>1, <2>1
  <2>3. B * p = p * u + p * t + p
    BY <1>1, <2>1
  <2> QED
    BY <1>1, <2>2, <2>3
<1>8. v = (B * p) * s + (p * t + r)
  <2>1. p * q = (B * p) * s + p * t
    BY <1>1, <1>5
  <2>2. p * q \in Int /\ (B * p) * s \in Int /\ p * t \in Int
    BY <1>1
  <2> QED
    BY <1>3, <2>1, <2>2
<1>9. v \div (B * p) = s
  BY <1>6, <1>7, <1>8, DivUnique
<1> QED
  BY <1>2, <1>4, <1>9

\* A digit more.
LEMMA ModStep ==
  ASSUME NEW q \in Int, NEW B \in Nat \ {0}, NEW p \in Nat \ {0}
  PROVE  B * ((q \div B) % p) + (q % B) = q % (B * p)
<1>1. B \in Int /\ B > 0 /\ p \in Int /\ p > 0
  OBVIOUS
<1>2. PICK s \in Int : s = q \div B
  BY <1>1
<1>3. PICK t \in 0..(B - 1) : t = q % B
  BY <1>1
<1>4. q = B * s + t
  BY <1>1, <1>2, <1>3
<1>5. PICK u \in Int : u = s \div p
  BY <1>1
<1>6. PICK w \in 0..(p - 1) : w = s % p
  BY <1>1
<1>7. s = p * u + w
  BY <1>1, <1>5, <1>6
<1>8. B * p \in Nat \ {0}
  BY <1>1
<1>9. B * w + t \in 0..(B * p - 1)
  <2>1. PICK x \in Nat : x = p - 1 - w
    OBVIOUS
  <2>2. B * x >= 0 /\ B * x \in Int /\ B * w >= 0 /\ B * w \in Int
    BY <1>1, <2>1
  <2>3. B * p = B * x + B * w + B
    BY <1>1, <2>1
  <2> QED
    BY <1>1, <2>2, <2>3
<1>10. q = (B * p) * u + (B * w + t)
  <2>1. B * s = (B * p) * u + B * w
    BY <1>1, <1>7
  <2>2. B * s \in Int /\ (B * p) * u \in Int /\ B * w \in Int
    BY <1>1
  <2> QED
    BY <1>4, <2>1, <2>2
<1>11. PICK c \in Nat \ {0} : c = B * p
  BY <1>8
<1>12. PICK x \in 0..(c - 1) : x = B * w + t
  BY <1>9, <1>11
<1>13. q = c * u + x
  BY <1>10, <1>11, <1>12
<1>14. q % c = x
  BY <1>13, DivUnique
<1>15. q % (B * p) = x
  BY <1>11, <1>14, Zenon
<1>16. (q \div B) % p = w
  BY <1>2, <1>6, Zenon
<1>17. B * ((q \div B) % p) + (q % B) = B * w + t
  BY <1>3, <1>16, Zenon
<1> QED
  BY <1>12, <1>15, <1>17, Zenon

\* A sequence of numbers of which each is made of the one before.
Follows(f, k, a, d) ==
  f[0] = a /\ \A i \in 1..k : f[i] = Byte * f[i - 1] + d[i]

\* There is one, whatever it begins with.
LEMMA FollowsExists ==
  ASSUME NEW k \in Nat, NEW a \in Int, NEW d, \A i \in 1..k : d[i] \in Int, Byte \in Nat
  PROVE  \E f \in [0..k -> Int] : Follows(f, k, a, d)
<1> DEFINE Fails(m) == ~ \E f \in [0..m -> Int] : Follows(f, m, a, d)
<1> DEFINE T == {m \in 0..k : Fails(m)}
<1>1. SUFFICES ASSUME T # {} PROVE FALSE
  <2>1. k \in 0..k
    OBVIOUS
  <2> QED
    BY <1>1, <2>1
<1>2. PICK m \in T : \A n \in T : m <= n
  <2>1. T \in SUBSET Nat
    OBVIOUS
  <2> HIDE DEF T
  <2> QED
    BY <1>1, <2>1, HasLeast
<1>3. CASE m = 0
  <2> DEFINE g == [i \in 0..0 |-> a]
  <2>1. g \in [0..0 -> Int] /\ Follows(g, 0, a, d)
    BY DEF Follows
  <2> QED
    BY <1>2, <1>3, <2>1
<1>4. CASE m # 0
  <2>1. m \in Int /\ m > 0 /\ m <= k
    BY <1>2, <1>4
  <2>2. m - 1 \in 0..k /\ ~ (m <= m - 1)
    BY <2>1
  <2>3. ~ Fails(m - 1)
    BY <1>2, <2>2
  <2>4. PICK f \in [0..(m - 1) -> Int] : Follows(f, m - 1, a, d)
    BY <2>3
  <2> DEFINE g == [i \in 0..m |-> IF i = m THEN Byte * f[m - 1] + d[m] ELSE f[i]]
  <2>5. f[m - 1] \in Int /\ d[m] \in Int
    BY <2>1
  <2>6. Byte * f[m - 1] + d[m] \in Int
    BY <2>5
  <2>7. \A i \in 0..m : i # m => i \in 0..(m - 1)
    BY <2>1
  <2>8. g \in [0..m -> Int]
    BY <2>6, <2>7
  <2>9. \A i \in 0..(m - 1) : g[i] = f[i]
    BY <2>1
  <2>10. g[0] = a
    BY <2>1, <2>4, <2>9 DEF Follows
  <2>11. ASSUME NEW i \in 1..m PROVE g[i] = Byte * g[i - 1] + d[i]
    <3>1. i - 1 \in 0..(m - 1) /\ g[i - 1] = f[i - 1]
      BY <2>1, <2>9
    <3>2. CASE i = m
      BY <2>1, <3>1, <3>2
    <3>3. CASE i # m
      <4>1. i \in 1..(m - 1) /\ g[i] = f[i]
        BY <2>1, <2>9, <3>3
      <4> QED
        BY <2>4, <3>1, <4>1 DEF Follows
    <3> QED
      BY <3>2, <3>3
  <2>12. Follows(g, m, a, d)
    BY <2>10, <2>11 DEF Follows
  <2> QED
    BY <1>2, <2>8, <2>12
<1> QED
  BY <1>3, <1>4

\* And only one.
LEMMA FollowsUnique ==
  ASSUME NEW k \in Nat, NEW a, NEW d, NEW f, NEW g, Follows(f, k, a, d), Follows(g, k, a, d)
  PROVE  \A i \in 0..k : f[i] = g[i]
<1> DEFINE T == {m \in 0..k : f[m] # g[m]}
<1>1. SUFFICES ASSUME T # {} PROVE FALSE
  OBVIOUS
<1>2. PICK m \in T : \A n \in T : m <= n
  <2>1. T \in SUBSET Nat
    OBVIOUS
  <2> HIDE DEF T
  <2> QED
    BY <1>1, <2>1, HasLeast
<1>3. m # 0
  BY <1>2 DEF Follows
<1>4. m \in 1..k /\ m - 1 \in 0..k /\ ~ (m <= m - 1)
  BY <1>2, <1>3
<1>5. f[m - 1] = g[m - 1]
  BY <1>2, <1>4
<1>6. f[m] = Byte * f[m - 1] + d[m] /\ g[m] = Byte * g[m - 1] + d[m]
  BY <1>4 DEF Follows
<1> QED
  BY <1>2, <1>5, <1>6

\* What is assumed of a byte.
LEMMA ByteConstants ==
  Byte \in Nat /\ Byte \in Nat \ {0} /\ Byte \in Int /\ Byte > 1
BY RequestsAssumption DEF RequestsAssumption, Modbus!ValuesAssumption

\* The recursive functions of the model are such sequences.
LEMMA NumberFollows ==
  ASSUME NEW k \in Nat, NEW b, \A i \in 1..k : b[i] \in Int
  PROVE  \E f \in [0..k -> Int] : Follows(f, k, 0, b) /\ Modbus!Number(k, b) = f[k]
<1> DEFINE Solves(f) == f = [i \in 0..k |-> IF i = 0 THEN 0 ELSE Byte * f[i - 1] + b[i]]
<1>0. Byte \in Nat /\ 0 \in Int
  BY ByteConstants
<1>1. PICK f \in [0..k -> Int] : Follows(f, k, 0, b)
  BY <1>0, FollowsExists
<1>2. Solves(f)
  <2> DEFINE g == [i \in 0..k |-> IF i = 0 THEN 0 ELSE Byte * f[i - 1] + b[i]]
  <2>1. \A i \in 0..k : f[i] = g[i]
    BY <1>1 DEF Follows
  <2>2. DOMAIN f = 0..k /\ DOMAIN g = 0..k
    OBVIOUS
  <2> QED
    BY <1>1, <2>1, <2>2
<1> DEFINE h == CHOOSE x : Solves(x)
<1>3. Solves(h)
  BY <1>2
<1>4. Modbus!Number(k, b) = h[k]
  BY DEF Modbus!Number
<1> HIDE DEF h
<1>5. Follows(h, k, 0, b)
  BY <1>3 DEF Follows
<1>6. \A i \in 0..k : h[i] = f[i]
  BY <1>1, <1>5, FollowsUnique
<1> QED
  BY <1>1, <1>4, <1>6

\* And the powers of Byte are one.
LEMMA PowerFollows ==
  ASSUME NEW k \in Nat
  PROVE  \E f \in [0..k -> Int] :
           Follows(f, k, 1, [i \in 1..k |-> 0]) /\ Modbus!Power(k) = f[k]
<1> DEFINE Solves(f) == f = [i \in 0..k |-> IF i = 0 THEN 1 ELSE Byte * f[i - 1]]
<1>1. PICK f \in [0..k -> Int] : Follows(f, k, 1, [i \in 1..k |-> 0])
  BY ByteConstants, FollowsExists
<1>2. Solves(f)
  <2> DEFINE g == [i \in 0..k |-> IF i = 0 THEN 1 ELSE Byte * f[i - 1]]
  <2>1. \A i \in 0..k : f[i] = g[i]
    <3>1. f[0] = 1 /\ \A i \in 1..k : f[i] = Byte * f[i - 1] + 0
      BY <1>1 DEF Follows
    <3>2. \A i \in 1..k : Byte * f[i - 1] \in Int
      BY <1>1, ByteConstants
    <3> QED
      BY <3>1, <3>2
  <2>2. DOMAIN f = 0..k /\ DOMAIN g = 0..k
    OBVIOUS
  <2> QED
    BY <1>1, <2>1, <2>2
<1> DEFINE h == CHOOSE x : Solves(x)
<1>3. Solves(h)
  BY <1>2
<1>4. Modbus!Power(k) = h[k]
  BY DEF Modbus!Power
<1> HIDE DEF h
<1>5. Follows(h, k, 1, [i \in 1..k |-> 0])
  <2> DEFINE T == {m \in 0..k : h[m] \notin Int}
  <2>1. T = {}
    <3> SUFFICES ASSUME T # {} PROVE FALSE
      OBVIOUS
    <3>1. PICK m \in T : \A n \in T : m <= n
      <4>1. T \in SUBSET Nat
        OBVIOUS
      <4> HIDE DEF T
      <4> QED
        BY <4>1, HasLeast
    <3>2. m # 0
      BY <1>3, <3>1
    <3>3. m \in 0..k /\ m - 1 \in 0..k /\ ~ (m <= m - 1)
      BY <3>1, <3>2
    <3>4. h[m - 1] \in Int
      BY <3>1, <3>3
    <3>5. h[m] = Byte * h[m - 1]
      BY <1>3, <3>2, <3>3
    <3> QED
      BY <3>1, <3>4, <3>5, ByteConstants
  <2>2. \A i \in 1..k : Byte * h[i - 1] \in Int
    BY <2>1, ByteConstants
  <2>3. h[0] = 1 /\ \A i \in 1..k : h[i] = Byte * h[i - 1]
    BY <1>3
  <2>4. \A i \in 1..k : h[i] = Byte * h[i - 1] + 0
    BY <2>2, <2>3
  <2> QED
    BY <2>3, <2>4 DEF Follows
<1>6. \A i \in 0..k : h[i] = f[i]
  BY <1>1, <1>5, FollowsUnique
<1> QED
  BY <1>1, <1>4, <1>6

\* Powers.
LEMMA Powers ==
  /\ Modbus!Power(0) = 1
  /\ \A k \in Nat : /\ Modbus!Power(k) \in Nat \ {0}
                    /\ Modbus!Power(k + 1) = Byte * Modbus!Power(k)
<1>1. Modbus!Power(0) = 1
  BY PowerFollows DEF Follows
<1>2. ASSUME NEW k \in Nat
      PROVE  Modbus!Power(k) \in Int /\ Modbus!Power(k + 1) = Byte * Modbus!Power(k)
  <2>1. PICK f \in [0..k -> Int] :
          Follows(f, k, 1, [i \in 1..k |-> 0]) /\ Modbus!Power(k) = f[k]
    BY PowerFollows
  <2>2. k + 1 \in Nat
    OBVIOUS
  <2>3. PICK g \in [0..(k + 1) -> Int] :
          Follows(g, k + 1, 1, [i \in 1..(k + 1) |-> 0]) /\ Modbus!Power(k + 1) = g[k + 1]
    BY <2>2, PowerFollows
  <2>4. Follows(g, k, 1, [i \in 1..k |-> 0])
    BY <2>3 DEF Follows
  <2>5. g[k] = f[k]
    <3>1. PICK z : z = [i \in 1..k |-> 0]
      OBVIOUS
    <3>2. Follows(f, k, 1, z) /\ Follows(g, k, 1, z)
      BY <2>1, <2>4, <3>1, Zenon
    <3>3. PICK a : a = 1
      OBVIOUS
    <3>4. Follows(f, k, a, z) /\ Follows(g, k, a, z)
      BY <3>2, <3>3, Zenon
    <3>5. \A i \in 0..k : g[i] = f[i]
      BY <3>4, FollowsUnique
    <3> QED
      BY <3>5
  <2>6. g[k + 1] = Byte * g[k] + 0
    BY <2>3 DEF Follows
  <2>7. f[k] \in Int
    BY <2>1
  <2>8. Byte * f[k] \in Int
    BY <2>7, ByteConstants
  <2> QED
    BY <2>1, <2>3, <2>5, <2>6, <2>7, <2>8
<1>3. \A k \in Nat : Modbus!Power(k) > 0
  <2> DEFINE T == {m \in Nat : ~ (Modbus!Power(m) > 0)}
  <2> SUFFICES ASSUME T # {} PROVE FALSE
    OBVIOUS
  <2>1. PICK m \in T : \A n \in T : m <= n
    <3>1. T \in SUBSET Nat
      OBVIOUS
    <3> HIDE DEF T
    <3> QED
      BY <3>1, HasLeast
  <2>2. m # 0
    BY <1>1, <2>1
  <2>3. m \in Nat /\ m - 1 \in Nat /\ ~ (m <= m - 1) /\ (m - 1) + 1 = m
    BY <2>1, <2>2
  <2>4. Modbus!Power(m - 1) > 0
    BY <2>1, <2>3
  <2>5. Modbus!Power(m) = Byte * Modbus!Power(m - 1) /\ Modbus!Power(m - 1) \in Int
    BY <1>2, <2>3
  <2>6. \A x \in Int : x > 0 => Byte * x > 0
    BY ByteConstants
  <2> QED
    BY <2>1, <2>4, <2>5, <2>6
<1> QED
  BY <1>1, <1>2, <1>3

\* The digits of a number make it again, up to its high ones.
LEMMA DigitsMake ==
  ASSUME NEW k \in Nat, NEW v \in Int, NEW b,
         \A i \in 1..k : b[i] = (v \div Modbus!Power(k - i)) % Byte
  PROVE  Modbus!Number(k, b) = v % Modbus!Power(k)
<1>0. \A i \in 0..k : k - i \in Nat
  OBVIOUS
<1>1. \A i \in 0..k : Modbus!Power(k - i) \in Int /\ Modbus!Power(k - i) > 0
  BY <1>0, Powers
<1>2. \A i \in 1..k : b[i] \in Int
  <2>1. \A x \in Int : x % Byte \in Int
    BY ByteConstants
  <2>2. \A i \in 1..k : v \div Modbus!Power(k - i) \in Int
    BY <1>1
  <2> QED
    BY <2>1, <2>2
<1>3. PICK f \in [0..k -> Int] : Follows(f, k, 0, b) /\ Modbus!Number(k, b) = f[k]
  BY <1>2, NumberFollows
<1> DEFINE T == {m \in 0..k : f[m] # (v \div Modbus!Power(k - m)) % Modbus!Power(m)}
<1>4. ASSUME T # {} PROVE FALSE
  <2>1. PICK m \in T : \A n \in T : m <= n
    <3>1. T \in SUBSET Nat
      OBVIOUS
    <3> HIDE DEF T
    <3> QED
      BY <1>4, <3>1, HasLeast
  <2>2. CASE m = 0
    <3>1. f[0] = 0 /\ Modbus!Power(0) = 1
      BY <1>3, Powers DEF Follows
    <3>5. PICK p \in Nat \ {0} : p = Modbus!Power(k)
      BY Powers
    <3>6. p \in Int /\ p > 0
      OBVIOUS
    <3>7. PICK q \in Int : q = v \div p
      BY <3>6
    <3>2. \A x \in Int : x % 1 = 0
      OBVIOUS
    <3>3. k - 0 = k
      OBVIOUS
    <3>4. f[m] # (v \div Modbus!Power(k - m)) % Modbus!Power(m)
      BY <2>1
    <3> QED
      BY <2>2, <3>1, <3>2, <3>3, <3>4, <3>5, <3>7, Zenon
  <2>3. CASE m # 0
    <3>1. /\ m \in 1..k /\ m - 1 \in 0..k /\ m - 1 \in Nat /\ ~ (m <= m - 1)
          /\ (m - 1) + 1 = m /\ k - (m - 1) = (k - m) + 1 /\ k - m \in Nat
      BY <2>1, <2>3
    <3>2. f[m - 1] = (v \div Modbus!Power(k - (m - 1))) % Modbus!Power(m - 1)
      BY <2>1, <3>1
    <3>3. PICK p \in Nat \ {0} : p = Modbus!Power(k - m)
      BY <3>1, Powers
    <3>4. PICK e \in Nat \ {0} : e = Modbus!Power(m - 1)
      BY <3>1, Powers
    <3>5. Modbus!Power(k - (m - 1)) = Byte * p /\ Modbus!Power(m) = Byte * e
      BY <3>1, <3>3, <3>4, Powers
    <3>6. p \in Int /\ p > 0
      OBVIOUS
    <3>7. PICK q \in Int : q = v \div p
      BY <3>6
    <3>8. v \div (Byte * p) = q \div Byte
      BY <3>7, ByteConstants, DivTwice
    <3>9. f[m] = Byte * f[m - 1] + b[m]
      BY <1>3, <3>1 DEF Follows
    <3>10. f[m - 1] = (q \div Byte) % e
      BY <3>2, <3>4, <3>5, <3>8
    <3>11. b[m] = q % Byte
      BY <3>1, <3>3, <3>7
    <3>12. Byte * ((q \div Byte) % e) + (q % Byte) = q % (Byte * e)
      BY ByteConstants, ModStep
    <3>13. f[m] = q % (Byte * e)
      BY <3>9, <3>10, <3>11, <3>12, Zenon
    <3>14. f[m] # (v \div Modbus!Power(k - m)) % Modbus!Power(m)
      BY <2>1
    <3> QED
      BY <3>3, <3>5, <3>7, <3>13, <3>14, Zenon
  <2> QED
    BY <2>2, <2>3
<1>5. f[k] = (v \div Modbus!Power(k - k)) % Modbus!Power(k)
  <2>1. k \in 0..k
    OBVIOUS
  <2> QED
    BY <1>4, <2>1
<1>6. k - k = 0 /\ Modbus!Power(0) = 1
  BY Powers
<1>7. v \div 1 = v
  OBVIOUS
<1> QED
  BY <1>3, <1>5, <1>6, <1>7

\* A signed number and its two's complement.
LEMMA SignedBack ==
  ASSUME NEW k \in Nat, NEW v \in Modbus!Signed(k), NEW x, x = v % Modbus!Power(k)
  PROVE  v = IF x \in Modbus!Signed(k) THEN x ELSE x - Modbus!Power(k)
<1>1. PICK p \in Nat \ {0} : p = Modbus!Power(k)
  BY Powers
<1>2. PICK h \in Int : h = p \div 2
  OBVIOUS
<1>3. p = 2 * h \/ p = 2 * h + 1
  BY <1>2
<1>4. Modbus!Signed(k) = -h..(h - 1)
  BY <1>1, <1>2 DEF Modbus!Signed
<1>5. v \in -h..(h - 1) /\ v \in Int
  BY <1>4
<1>6. CASE v >= 0
  <2>1. v \in 0..(p - 1) /\ v = p * 0 + v
    BY <1>3, <1>5, <1>6
  <2>2. v % p = v
    BY <1>5, <2>1, DivUnique
  <2> QED
    BY <1>1, <2>2
<1>7. CASE v < 0
  <2>1. PICK w \in 0..(p - 1) : w = v + p
    BY <1>3, <1>5, <1>7
  <2>2. v = p * (-1) + w
    BY <1>5, <2>1
  <2>3. v % p = w
    <3>1. -1 \in Int
      OBVIOUS
    <3> QED
      BY <1>5, <2>2, <3>1, DivUnique
  <2>4. x = v + p
    BY <1>1, <2>1, <2>3
  <2>5. x \notin -h..(h - 1)
    BY <1>3, <1>5, <2>4
  <2> QED
    BY <1>1, <1>4, <1>5, <2>4, <2>5
<1> QED
  BY <1>5, <1>6, <1>7

\* A position is the first or the second of one pair.
LEMMA Pairs ==
  ASSUME NEW l \in Nat, NEW i \in 1..(2 * l)
  PROVE  \/ \E j \in 1..l : i = 2 * j - 1 /\ i % 2 = 1 /\ (i + 1) \div 2 = j
         \/ \E j \in 1..l : i = 2 * j /\ i % 2 = 0 /\ i \div 2 = j
<1>1. PICK q \in Int : q = i \div 2
  OBVIOUS
<1>2. PICK r \in 0..1 : r = i % 2
  OBVIOUS
<1>3. i = 2 * q + r
  BY <1>1, <1>2
<1>4. CASE r = 0
  BY <1>1, <1>2, <1>3, <1>4
<1>5. CASE r = 1
  <2>1. q + 1 \in 1..l /\ i = 2 * (q + 1) - 1
    BY <1>3, <1>5
  <2>2. (i + 1) \div 2 = q + 1
    BY <2>1
  <2> QED
    BY <1>2, <1>5, <2>1, <2>2
<1> QED
  BY <1>4, <1>5

\* A sequence turned round, and turned round again.
LEMMA Reverses ==
  ASSUME NEW k \in Nat, NEW s, s = [i \in 1..k |-> s[i]]
  PROVE  /\ Modbus!Reversed(s) = [i \in 1..k |-> s[k + 1 - i]]
         /\ Modbus!Reversed(Modbus!Reversed(s)) = s
<1>1. Len(s) = k
  OBVIOUS
<1> DEFINE r == [i \in 1..k |-> s[k + 1 - i]]
<1>2. Modbus!Reversed(s) = r
  BY <1>1 DEF Modbus!Reversed
<1>3. Len(r) = k
  OBVIOUS
<1>4. Modbus!Reversed(r) = [i \in 1..k |-> r[k + 1 - i]]
  BY <1>3 DEF Modbus!Reversed
<1>5. \A i \in 1..k : k + 1 - i \in 1..k /\ k + 1 - (k + 1 - i) = i
  OBVIOUS
<1>6. \A i \in 1..k : r[k + 1 - i] = s[i]
  BY <1>5
<1>7. [i \in 1..k |-> r[k + 1 - i]] = [i \in 1..k |-> s[i]]
  BY <1>6
<1> QED
  BY <1>2, <1>4, <1>7

\* What is assumed of the nodes.
LEMMA RegisterConstants ==
  \A n \in Registers : /\ n.channel \in Nat /\ n.length \in Nat \ {0} /\ 2 * n.length \in Nat
                       /\ n.byteorder \in {"little", "big"} /\ n.wordorder \in {"little", "big"}
BY RequestsAssumption DEF RequestsAssumption, Modbus!ValuesAssumption

\* The digits of a number, the high ones first.
Digits(k, v) == [i \in 1..k |-> (v \div Modbus!Power(k - i)) % Byte]

\* They are bytes.
LEMMA DigitsAreBytes ==
  ASSUME NEW k \in Nat, NEW v \in Int
  PROVE  \A i \in 1..k : Digits(k, v)[i] \in 0..(Byte - 1)
<1> SUFFICES ASSUME NEW i \in 1..k PROVE (v \div Modbus!Power(k - i)) % Byte \in 0..(Byte - 1)
  BY DEF Digits
<1>1. k - i \in Nat
  OBVIOUS
<1>2. PICK p \in Nat \ {0} : p = Modbus!Power(k - i)
  BY <1>1, Powers
<1>3. p \in Int /\ p > 0
  OBVIOUS
<1>4. PICK q \in Int : q = v \div p
  BY <1>3
<1>5. q % Byte \in 0..(Byte - 1)
  BY ByteConstants
<1> QED
  BY <1>2, <1>4, <1>5, Zenon

\* struct.pack makes bytes, which turned round once more are the digits.
LEMMA PackedBytes ==
  ASSUME NEW n \in Registers, NEW v \in Int
  PROVE  LET P == Modbus!Packed(n, v)
             k == 2 * n.length
         IN  /\ P = [i \in 1..k |-> P[i]]
             /\ \A i \in 1..k : P[i] \in 0..(Byte - 1)
             /\ (IF n.byteorder = "little" THEN Modbus!Reversed(P) ELSE P) = Digits(k, v)
<1> DEFINE P == Modbus!Packed(n, v)
<1>1. PICK k \in Nat : k = 2 * n.length
  BY RegisterConstants
<1>2. PICK D : D = Digits(k, v)
  OBVIOUS
<1>3. D = [i \in 1..k |-> D[i]] /\ \A i \in 1..k : D[i] \in 0..(Byte - 1)
  BY <1>2, DigitsAreBytes DEF Digits
<1>4. P = IF n.byteorder = "little" THEN Modbus!Reversed(D) ELSE D
  BY <1>1, <1>2 DEF Modbus!Packed, Digits
<1>5. /\ Modbus!Reversed(D) = [i \in 1..k |-> D[k + 1 - i]]
      /\ Modbus!Reversed(Modbus!Reversed(D)) = D
  BY <1>3, Reverses
<1>6. \A i \in 1..k : k + 1 - i \in 1..k
  OBVIOUS
<1>7. P = [i \in 1..k |-> P[i]] /\ \A i \in 1..k : P[i] \in 0..(Byte - 1)
  <2>1. CASE n.byteorder = "little"
    BY <1>4, <1>5, <1>6, <1>3, <2>1
  <2>2. CASE n.byteorder # "little"
    BY <1>4, <1>3, <2>2
  <2> QED
    BY <2>1, <2>2
<1>8. (IF n.byteorder = "little" THEN Modbus!Reversed(P) ELSE P) = D
  BY <1>4, <1>5, Zenon
<1> QED
  BY <1>1, <1>2, <1>7, <1>8, Zenon

\* The registers a number is encoded in, and the bytes they have.
LEMMA EncodedWords ==
  ASSUME NEW n \in Registers, NEW v \in Int
  PROVE  LET E == Modbus!encode_bits(n, v)
             P == Modbus!Packed(n, v)
         IN  /\ E = [j \in 1..n.length |-> E[j]]
             /\ \A j \in 1..n.length : /\ E[j] \in Int
                                       /\ E[j] \div Byte = P[2 * j - 1]
                                       /\ E[j] % Byte = P[2 * j]
<1> DEFINE E == Modbus!encode_bits(n, v)
<1>1. PICK P : P = Modbus!Packed(n, v)
  OBVIOUS
<1>2. PICK l \in Nat : l = n.length
  BY RegisterConstants
<1>3. \A i \in 1..(2 * l) : P[i] \in 0..(Byte - 1)
  BY <1>1, <1>2, PackedBytes
<1>4. E = [j \in 1..l |-> Byte * P[2 * j - 1] + P[2 * j]]
  BY <1>1, <1>2, Zenon DEF Modbus!encode_bits
<1>5. ASSUME NEW j \in 1..l
      PROVE  E[j] \in Int /\ E[j] \div Byte = P[2 * j - 1] /\ E[j] % Byte = P[2 * j]
  <2>1. 2 * j - 1 \in 1..(2 * l) /\ 2 * j \in 1..(2 * l)
    OBVIOUS
  <2>2. PICK p \in 0..(Byte - 1) : p = P[2 * j - 1]
    BY <1>3, <2>1
  <2>3. PICK r \in 0..(Byte - 1) : r = P[2 * j]
    BY <1>3, <2>1
  <2>4. p \in Int /\ r \in Int
    OBVIOUS
  <2>5. PICK a \in Int : a = Byte * p + r
    BY <2>4, ByteConstants
  <2>6. a \div Byte = p /\ a % Byte = r
    BY <2>4, <2>5, ByteConstants, DivUnique
  <2>7. E[j] = a
    BY <1>4, <2>2, <2>3, <2>5
  <2> QED
    BY <2>2, <2>3, <2>6, <2>7
<1>6. E = [j \in 1..l |-> E[j]]
  BY <1>4
<1> HIDE DEF E
<1>7. \A j \in 1..l : E[j] \in Int /\ E[j] \div Byte = P[2 * j - 1] /\ E[j] % Byte = P[2 * j]
  BY <1>5
<1> QED
  BY <1>1, <1>2, <1>6, <1>7, Zenon DEF E

Ordered(n, words) == IF n.wordorder = "little" THEN Modbus!Reversed(words) ELSE words

\* A signed number is decoded from the registers it was encoded in, in their order.
LEMMA Decodes ==
  ASSUME NEW n \in Registers, NEW v \in Modbus!Signed(2 * n.length), NEW words,
         Ordered(n, words) = Modbus!encode_bits(n, v)
  PROVE  Modbus!decode_modbus_value(n, words) = v
<1>1. PICK l \in Nat : l = n.length
  BY RegisterConstants
<1>2. PICK k \in Nat : k = 2 * l
  BY <1>1
<1>3. v \in Int
  <2>1. PICK p \in Nat \ {0} : p = Modbus!Power(k)
    BY Powers
  <2>2. p \div 2 \in Int
    OBVIOUS
  <2> QED
    BY <1>1, <1>2, <2>1, <2>2 DEF Modbus!Signed
<1>4. PICK E : E = Modbus!encode_bits(n, v)
  OBVIOUS
<1>5. PICK P : P = Modbus!Packed(n, v)
  OBVIOUS
<1>6. \A j \in 1..l : E[j] \div Byte = P[2 * j - 1] /\ E[j] % Byte = P[2 * j]
  BY <1>1, <1>3, <1>4, <1>5, EncodedWords
<1>7. P = [i \in 1..k |-> P[i]]
  BY <1>1, <1>2, <1>3, <1>5, PackedBytes
<1>8. (IF n.byteorder = "little" THEN Modbus!Reversed(P) ELSE P) = Digits(k, v)
  BY <1>1, <1>2, <1>3, <1>5, PackedBytes
<1> DEFINE b == [i \in 1..k |-> IF i % 2 = 1 THEN E[(i + 1) \div 2] \div Byte
                                             ELSE E[i \div 2] % Byte]
<1>9. b = P
  <2>1. ASSUME NEW i \in 1..k PROVE b[i] = P[i]
    <3>1. CASE \E j \in 1..l : i = 2 * j - 1 /\ i % 2 = 1 /\ (i + 1) \div 2 = j
      BY <1>6, <3>1
    <3>2. CASE \E j \in 1..l : i = 2 * j /\ i % 2 = 0 /\ i \div 2 = j
      BY <1>6, <3>2
    <3> QED
      BY <1>2, <3>1, <3>2, Pairs
  <2>2. b = [i \in 1..k |-> P[i]]
    BY <2>1
  <2> QED
    BY <1>7, <2>2, Zenon
<1> DEFINE value == Modbus!Number(k, Digits(k, v))
<1>10. value = v % Modbus!Power(k)
  <2>1. \A i \in 1..k : Digits(k, v)[i] = (v \div Modbus!Power(k - i)) % Byte
    BY DEF Digits
  <2> QED
    BY <1>3, <2>1, DigitsMake
<1>11. Modbus!decode_modbus_value(n, words) =
         IF value \in Modbus!Signed(k) THEN value ELSE value - Modbus!Power(k)
  <2>1. (IF n.wordorder = "little" THEN Modbus!Reversed(words) ELSE words) = E
    BY <1>4 DEF Ordered
  <2>2. Modbus!decode_modbus_value(n, words) =
          LET c == IF n.byteorder = "little" THEN Modbus!Reversed(b) ELSE b
              x == Modbus!Number(k, c)
          IN  IF x \in Modbus!Signed(k) THEN x ELSE x - Modbus!Power(k)
    BY <1>1, <1>2, <2>1, Zenon DEF Modbus!decode_modbus_value
  <2> HIDE DEF b
  <2> QED
    BY <1>8, <1>9, <2>2, Zenon
<1>12. v \in Modbus!Signed(k)
  BY <1>1, <1>2
<1> HIDE DEF value
<1> QED
  BY <1>10, <1>11, <1>12, SignedBack, Zenon

-----------------------------------------------------------------------------
(* Modbus: the registers of a node hold what it was given, until a node it  *)
(* shares one with is given something, and what was read is decoded from    *)
(* them.                                                                    *)

\* How a server, or a connection, lays the registers of a value.
Laid(n, by, v) ==
  IF by = "server" /\ n.wordorder = "little"
    THEN Modbus!Reversed(Modbus!encode_bits(n, v))
    ELSE Modbus!encode_bits(n, v)
HoldsWords(rs, n, words) ==
  Modbus!Last(n) <= Len(rs) /\ \A j \in 1..n.length : rs[n.channel + j] = words[j]

WrittenIsHeld ==
  \A n \in Registers : written[n].by # "nobody" =>
    /\ written[n].by \in {"server", "connection"}
    /\ HoldsWords(regs, n, Laid(n, written[n].by, written[n].value))
ResultIsDecoded ==
  \A n \in Registers : result.of = {n} =>
    /\ Modbus!Last(n) <= Len(regs)
    /\ result.value =
         Modbus!decode_modbus_value(n, SubSeq(regs, Modbus!First(n), Modbus!Last(n)))

ModbusParts == regs \in Seq(Int) /\ WrittenIsHeld /\ ResultIsDecoded
ModbusInv == connection = "modbus" => ModbusParts

\* What a node was given is what its registers are decoded to.
LEMMA HeldIsReadBack ==
  ASSUME ModbusParts
  PROVE  Modbus!ValuesReadBack /\ Modbus!WrittenIsReadable
<1>1. Modbus!WrittenIsReadable
  BY DEF ModbusParts, WrittenIsHeld, HoldsWords, Modbus!WrittenIsReadable
<1>2. ASSUME NEW n \in Registers, result.of = {n}, written[n].by # "nobody",
             written[n].by = "server" \/ n.wordorder = "big" \/ n.length = 1,
             NEW v \in Modbus!Signed(2 * n.length), v = written[n].value
      PROVE  result.value = v
  <2>1. PICK l \in Nat \ {0} : l = n.length
    BY RegisterConstants
  <2>2. PICK E : E = Modbus!encode_bits(n, v)
    OBVIOUS
  <2>3. v \in Int
    <3>1. PICK k \in Nat : k = 2 * n.length
      BY RegisterConstants
    <3>2. PICK p \in Nat \ {0} : p = Modbus!Power(k)
      BY Powers
    <3>3. p \div 2 \in Int
      OBVIOUS
    <3> QED
      BY <3>1, <3>2, <3>3 DEF Modbus!Signed
  <2>4. E = [j \in 1..l |-> E[j]]
    BY <2>1, <2>2, <2>3, EncodedWords
  <2>5. PICK by \in {"server", "connection"} : by = written[n].by
    BY <1>2 DEF ModbusParts, WrittenIsHeld
  <2>6. HoldsWords(regs, n, Laid(n, by, v))
    BY <1>2, <2>5, Zenon DEF ModbusParts, WrittenIsHeld
  <2>7. PICK L : L = Laid(n, by, v)
    OBVIOUS
  <2>8. PICK words : words = SubSeq(regs, Modbus!First(n), Modbus!Last(n))
    OBVIOUS
  <2>9. words = [j \in 1..l |-> L[j]]
    <3>1. PICK c \in Nat : c = n.channel
      BY RegisterConstants
    <3>2. Modbus!First(n) = c + 1 /\ Modbus!Last(n) = c + l
      BY <2>1, <3>1 DEF Modbus!First, Modbus!Last
    <3>3. c + l <= Len(regs) /\ \A j \in 1..l : regs[c + j] = L[j]
      BY <2>1, <2>6, <2>7, <3>1, <3>2 DEF HoldsWords
    <3>4. regs \in Seq(Int) /\ words = SubSeq(regs, c + 1, c + l)
      BY <2>8, <3>2 DEF ModbusParts
    <3>5. words = [j \in 1..l |-> regs[c + j]]
      BY <3>3, <3>4
    <3> QED
      BY <3>3, <3>5
  <2>10. /\ Modbus!Reversed(E) = [j \in 1..l |-> E[l + 1 - j]]
         /\ Modbus!Reversed(Modbus!Reversed(E)) = E
    BY <2>4, Reverses
  <2>11. Ordered(n, words) = E
    <3>1. CASE by = "server" /\ n.wordorder = "little"
      <4>1. L = Modbus!Reversed(E)
        BY <2>2, <2>7, <3>1 DEF Laid
      <4>2. words = L
        BY <2>9, <2>10, <4>1
      <4> QED
        BY <2>10, <3>1, <4>1, <4>2 DEF Ordered
    <3>2. CASE ~ (by = "server" /\ n.wordorder = "little")
      <4>1. L = E
        BY <2>2, <2>7, <3>2 DEF Laid
      <4>2. words = E
        BY <2>4, <2>9, <4>1
      <4>3. CASE n.wordorder = "big"
        BY <4>2, <4>3 DEF Ordered
      <4>4. CASE n.wordorder # "big"
        <5>1. l = 1
          BY <1>2, <2>1, <2>5, <3>2, <4>4, RegisterConstants
        <5>2. \A j \in 1..l : l + 1 - j = j
          BY <5>1
        <5>3. Modbus!Reversed(E) = E
          BY <2>4, <2>10, <5>2
        <5> QED
          BY <4>2, <5>3 DEF Ordered
      <4> QED
        BY <4>3, <4>4
    <3> QED
      BY <3>1, <3>2
  <2>12. Modbus!decode_modbus_value(n, words) = v
    BY <2>2, <2>11, Decodes
  <2> QED
    BY <1>2, <2>8, <2>12 DEF ModbusParts, ResultIsDecoded
<1>3. Modbus!ValuesReadBack
  BY <1>2, Zenon DEF Modbus!ValuesReadBack, Modbus!Reads, Modbus!Kept
<1> QED
  BY <1>1, <1>3

\* A data bank that begins with the registers there are.
Extends(rs) ==
  rs \in Seq(Int) /\ Len(regs) <= Len(rs) /\ \A i \in 1..Len(regs) : rs[i] = regs[i]

\* _ensure_databank_capacity makes one of them, long enough for the node.
LEMMA CapacityExtends ==
  ASSUME regs \in Seq(Int), NEW n \in Registers
  PROVE  Extends(Modbus!capacity(n)) /\ Modbus!Last(n) <= Len(Modbus!capacity(n))
<1>1. PICK e \in Nat : e = Modbus!Last(n)
  BY RegisterConstants DEF Modbus!Last
<1>2. PICK l \in Nat : l = Len(regs)
  OBVIOUS
<1>3. \A i \in 1..l : regs[i] \in Int
  BY <1>2
<1>4. CASE l >= e
  BY <1>1, <1>2, <1>4 DEF Modbus!capacity, Extends
<1>5. CASE ~ (l >= e)
  <2> DEFINE rs == [i \in 1..e |-> IF i <= l THEN regs[i] ELSE 0]
  <2>1. Modbus!capacity(n) = rs
    BY <1>1, <1>2, <1>5, Zenon DEF Modbus!capacity
  <2>2. rs \in [1..e -> Int]
    BY <1>3
  <2>3. rs \in Seq(Int) /\ Len(rs) = e
    BY <2>2
  <2>4. \A i \in 1..l : rs[i] = regs[i]
    BY <1>5
  <2> QED
    BY <1>1, <1>2, <1>5, <2>1, <2>3, <2>4 DEF Extends
<1> QED
  BY <1>4, <1>5

\* What the registers hold of a node, and what is decoded from them, is the same in a
\* longer data bank.
LEMMA ExtendedHolds ==
  ASSUME NEW rs, Extends(rs), regs \in Seq(Int),
         NEW n \in Registers, Modbus!Last(n) <= Len(regs)
  PROVE  /\ Modbus!Last(n) <= Len(rs)
         /\ \A words : HoldsWords(regs, n, words) => HoldsWords(rs, n, words)
         /\ SubSeq(rs, Modbus!First(n), Modbus!Last(n))
              = SubSeq(regs, Modbus!First(n), Modbus!Last(n))
<1>1. PICK c \in Nat : c = n.channel
  BY RegisterConstants
<1>2. PICK l \in Nat : l = n.length
  BY RegisterConstants
<1>3. Modbus!First(n) = c + 1 /\ Modbus!Last(n) = c + l
  BY <1>1, <1>2 DEF Modbus!First, Modbus!Last
<1>4. \A j \in 1..l : c + j \in 1..Len(regs)
  BY <1>3
<1>5. \A j \in 1..l : rs[c + j] = regs[c + j]
  BY <1>4 DEF Extends
<1>6. c + l <= Len(regs) /\ Len(regs) <= Len(rs) /\ Len(rs) \in Nat
  BY <1>3 DEF Extends
<1>7. SubSeq(rs, c + 1, c + l) = SubSeq(regs, c + 1, c + l)
  <2>1. SubSeq(regs, c + 1, c + l) = [j \in 1..l |-> regs[c + j]]
    BY <1>6
  <2>2. rs \in Seq(Int) /\ SubSeq(rs, c + 1, c + l) = [j \in 1..l |-> rs[c + j]]
    BY <1>6 DEF Extends
  <2> QED
    BY <1>5, <2>1, <2>2
<1>8. \A words : HoldsWords(regs, n, words) => HoldsWords(rs, n, words)
  BY <1>1, <1>2, <1>3, <1>5, <1>6 DEF HoldsWords
<1> QED
  BY <1>3, <1>6, <1>7, <1>8

\* A node's words are stored, and the nodes that share no register with it keep theirs.
LEMMA StoreHolds ==
  ASSUME NEW rs \in Seq(Int), NEW n \in Registers, Modbus!Last(n) <= Len(rs),
         NEW words, \A j \in 1..n.length : words[j] \in Int
  PROVE  LET S == Modbus!Store(rs, n, words)
         IN  /\ S \in Seq(Int)
             /\ HoldsWords(S, n, words)
             /\ \A m \in Registers : \A x :
                  HoldsWords(rs, m, x) /\ ~ Modbus!Overlap(m, n) => HoldsWords(S, m, x)
<1> DEFINE S == Modbus!Store(rs, n, words)
<1>1. PICK c \in Nat : c = n.channel
  BY RegisterConstants
<1>2. PICK l \in Nat : l = n.length
  BY RegisterConstants
<1>3. PICK s \in Nat : s = Len(rs)
  OBVIOUS
<1>4. Modbus!First(n) = c + 1 /\ Modbus!Last(n) = c + l
  BY <1>1, <1>2 DEF Modbus!First, Modbus!Last
<1>5. S = [i \in 1..s |-> IF i \in (c + 1)..(c + l) THEN words[i - c] ELSE rs[i]]
  BY <1>1, <1>3, <1>4, Zenon DEF Modbus!Store
<1>6. \A i \in (c + 1)..(c + l) : i - c \in 1..l
  OBVIOUS
<1>7. \A i \in 1..s : rs[i] \in Int
  BY <1>3
<1>8. S \in [1..s -> Int]
  BY <1>2, <1>5, <1>6, <1>7
<1> HIDE DEF S
<1>9. S \in Seq(Int) /\ Len(S) = s
  BY <1>8
<1>10. HoldsWords(S, n, words)
  <2>1. \A j \in 1..l : c + j \in 1..s /\ c + j \in (c + 1)..(c + l) /\ (c + j) - c = j
    BY <1>3, <1>4
  <2>2. \A j \in 1..l : S[c + j] = words[j]
    BY <1>5, <2>1
  <2> QED
    BY <1>1, <1>2, <1>3, <1>9, <2>2 DEF HoldsWords
<1>11. ASSUME NEW m \in Registers, NEW x, HoldsWords(rs, m, x), ~ Modbus!Overlap(m, n)
       PROVE  HoldsWords(S, m, x)
  <2>1. PICK d \in Nat : d = m.channel
    BY RegisterConstants
  <2>2. PICK k \in Nat : k = m.length
    BY RegisterConstants
  <2>3. Modbus!First(m) = d + 1 /\ Modbus!Last(m) = d + k
    BY <2>1, <2>2 DEF Modbus!First, Modbus!Last
  <2>4. d + k <= s /\ \A j \in 1..k : rs[d + j] = x[j]
    BY <1>3, <1>11, <2>1, <2>2, <2>3 DEF HoldsWords
  <2>5. ~ (d + 1 <= c + l /\ c + 1 <= d + k)
    BY <1>4, <1>11, <2>3 DEF Modbus!Overlap
  <2>6. \A j \in 1..k : d + j \in 1..s /\ d + j \notin (c + 1)..(c + l)
    BY <2>4, <2>5
  <2>7. \A j \in 1..k : S[d + j] = x[j]
    BY <1>5, <2>4, <2>6
  <2> QED
    BY <1>3, <1>9, <2>1, <2>2, <2>3, <2>4, <2>7 DEF HoldsWords
<1> QED
  BY <1>9, <1>10, <1>11 DEF S

\* A longer data bank, and nobody given anything: what was read last is not told any more,
\* or told of the data bank as it is.
LEMMA ModbusLonger ==
  ASSUME ModbusParts, Extends(regs'), UNCHANGED written, ResultIsDecoded'
  PROVE  ModbusParts'
<1>1. regs \in Seq(Int) /\ regs' \in Seq(Int)
  BY DEF ModbusParts, Extends
<1>2. ASSUME NEW n \in Registers, written'[n].by # "nobody"
      PROVE  /\ written'[n].by \in {"server", "connection"}
             /\ HoldsWords(regs', n, Laid(n, written'[n].by, written'[n].value))
  <2>1. /\ written[n].by \in {"server", "connection"}
        /\ HoldsWords(regs, n, Laid(n, written[n].by, written[n].value))
    BY <1>2 DEF ModbusParts, WrittenIsHeld
  <2>2. Modbus!Last(n) <= Len(regs)
    BY <2>1 DEF HoldsWords
  <2>3. HoldsWords(regs', n, Laid(n, written[n].by, written[n].value))
    BY <1>1, <2>1, <2>2, ExtendedHolds
  <2> QED
    BY <2>1, <2>3
<1>3. WrittenIsHeld'
  BY <1>2 DEF WrittenIsHeld, HoldsWords, Laid
<1> QED
  BY <1>1, <1>3 DEF ModbusParts

\* A write, to a data bank that has the registers of the node.
LEMMA ModbusWritten ==
  ASSUME ModbusParts, NEW n \in Registers, NEW v \in Int, NEW by \in {"server", "connection"},
         NEW rs, Extends(rs), Modbus!Last(n) <= Len(rs),
         regs' = Modbus!Store(rs, n, Laid(n, by, v)), Modbus!Given(n, by, v),
         result' = Modbus!Done
  PROVE  ModbusParts'
<1>1. regs \in Seq(Int) /\ rs \in Seq(Int)
  BY DEF ModbusParts, Extends
<1>2. PICK words : words = Laid(n, by, v)
  OBVIOUS
<1>3. \A j \in 1..n.length : words[j] \in Int
  <2>1. PICK l \in Nat : l = n.length
    BY RegisterConstants
  <2>2. PICK E : E = Modbus!encode_bits(n, v)
    OBVIOUS
  <2>3. E = [j \in 1..l |-> E[j]] /\ \A j \in 1..l : E[j] \in Int
    BY <2>1, <2>2, EncodedWords
  <2>4. Modbus!Reversed(E) = [j \in 1..l |-> E[l + 1 - j]]
    BY <2>3, Reverses
  <2>5. \A j \in 1..l : l + 1 - j \in 1..l
    OBVIOUS
  <2>6. \A j \in 1..l : Modbus!Reversed(E)[j] \in Int
    BY <2>3, <2>4, <2>5
  <2>7. words = E \/ words = Modbus!Reversed(E)
    BY <1>2, <2>2 DEF Laid
  <2> QED
    BY <2>1, <2>3, <2>6, <2>7
<1>4. /\ regs' \in Seq(Int)
      /\ HoldsWords(regs', n, words)
      /\ \A m \in Registers : \A x :
           HoldsWords(rs, m, x) /\ ~ Modbus!Overlap(m, n) => HoldsWords(regs', m, x)
  BY <1>1, <1>2, <1>3, StoreHolds
<1>5. ASSUME NEW m \in Registers, written'[m].by # "nobody"
      PROVE  /\ written'[m].by \in {"server", "connection"}
             /\ HoldsWords(regs', m, Laid(m, written'[m].by, written'[m].value))
  <2>1. CASE m = n
    <3>1. written'[m] = [by |-> by, value |-> v]
      BY <2>1 DEF Modbus!Given
    <3> QED
      BY <1>2, <1>4, <2>1, <3>1
  <2>2. CASE m # n /\ Modbus!Overlap(m, n)
    <3>1. written'[m] = Modbus!Nothing
      BY <2>2 DEF Modbus!Given
    <3> QED
      BY <1>5, <3>1 DEF Modbus!Nothing
  <2>3. CASE m # n /\ ~ Modbus!Overlap(m, n)
    <3>1. written'[m] = written[m]
      BY <2>3 DEF Modbus!Given
    <3>2. /\ written[m].by \in {"server", "connection"}
          /\ HoldsWords(regs, m, Laid(m, written[m].by, written[m].value))
      BY <1>5, <3>1 DEF ModbusParts, WrittenIsHeld
    <3>3. Modbus!Last(m) <= Len(regs)
      BY <3>2 DEF HoldsWords
    <3>4. HoldsWords(rs, m, Laid(m, written[m].by, written[m].value))
      BY <1>1, <3>2, <3>3, ExtendedHolds
    <3>5. HoldsWords(regs', m, Laid(m, written[m].by, written[m].value))
      BY <1>4, <2>3, <3>4
    <3> QED
      BY <3>1, <3>2, <3>5
  <2> QED
    BY <2>1, <2>2, <2>3
<1>6. WrittenIsHeld'
  BY <1>5 DEF WrittenIsHeld, HoldsWords, Laid
<1>7. ResultIsDecoded'
  BY DEF ResultIsDecoded, Modbus!Done
<1> QED
  BY <1>4, <1>6, <1>7 DEF ModbusParts

\* ModbusServer.write: the value is laid, or the data bank only made long enough.
LEMMA ModbusServerWrite ==
  ASSUME ModbusParts, NEW n \in Registers, NEW v \in Int, Modbus!server_write(n, v)
  PROVE  ModbusParts'
<1>1. regs \in Seq(Int)
  BY DEF ModbusParts
<1>2. Extends(Modbus!capacity(n)) /\ Modbus!Last(n) <= Len(Modbus!capacity(n))
  BY <1>1, CapacityExtends
<1>3. CASE Modbus!Encodable(n, v)
  <2>1. /\ regs' = Modbus!Store(Modbus!capacity(n), n, Laid(n, "server", v))
        /\ Modbus!Given(n, "server", v)
        /\ result' = Modbus!Done
    BY <1>3, Zenon DEF Modbus!server_write, Laid
  <2> QED
    BY <1>2, <2>1, ModbusWritten
<1>4. CASE ~ Modbus!Encodable(n, v)
  <2>1. regs' = Modbus!capacity(n) /\ result' = Modbus!Error /\ UNCHANGED written
    BY <1>4, Zenon DEF Modbus!server_write
  <2>2. ResultIsDecoded'
    BY <2>1 DEF ResultIsDecoded, Modbus!Error
  <2> QED
    BY <1>2, <2>1, <2>2, ModbusLonger
<1> QED
  BY <1>3, <1>4

\* ModbusConnection.write: the value is laid, or an error is raised.
LEMMA ModbusConnectionWrite ==
  ASSUME ModbusParts, NEW n \in Registers, NEW v \in Int, Modbus!connection_write(n, v)
  PROVE  ModbusParts'
<1>1. Extends(regs)
  BY DEF ModbusParts, Extends
<1>2. CASE Modbus!Encodable(n, v) /\ Modbus!Last(n) <= Len(regs)
  <2>1. /\ regs' = Modbus!Store(regs, n, Laid(n, "connection", v))
        /\ Modbus!Given(n, "connection", v)
        /\ result' = Modbus!Done
    BY <1>2 DEF Modbus!connection_write, Laid
  <2> QED
    BY <1>1, <1>2, <2>1, ModbusWritten
<1>3. CASE ~ (Modbus!Encodable(n, v) /\ Modbus!Last(n) <= Len(regs))
  <2>1. UNCHANGED <<regs, written>> /\ result' = Modbus!Error
    BY <1>3, Zenon DEF Modbus!connection_write
  <2>2. ResultIsDecoded'
    BY <2>1 DEF ResultIsDecoded, Modbus!Error
  <2>3. Extends(regs')
    BY <1>1, <2>1
  <2> QED
    BY <2>1, <2>2, <2>3, ModbusLonger
<1> QED
  BY <1>2, <1>3

\* A read tells of the data bank it leaves.
LEMMA ModbusRead ==
  ASSUME ModbusParts, NEW n \in Registers, Extends(regs'), UNCHANGED written,
         result' = IF Modbus!Last(n) > Len(regs') THEN Modbus!Error
                   ELSE Modbus!Value(n, Modbus!decode_modbus_value(n,
                          SubSeq(regs', Modbus!First(n), Modbus!Last(n))))
  PROVE  ModbusParts'
<1>1. PICK e \in Nat : e = Modbus!Last(n)
  BY RegisterConstants DEF Modbus!Last
<1>2. PICK l \in Nat : l = Len(regs')
  BY DEF Extends
<1>3. CASE e > l
  <2>1. result' = Modbus!Error
    BY <1>1, <1>2, <1>3
  <2>2. ResultIsDecoded'
    BY <2>1 DEF ResultIsDecoded, Modbus!Error
  <2> QED
    BY <2>2, ModbusLonger
<1>4. CASE ~ (e > l)
  <2>1. PICK x :
          x = Modbus!decode_modbus_value(n, SubSeq(regs', Modbus!First(n), Modbus!Last(n)))
    OBVIOUS
  <2>2. result' = [is |-> "value", of |-> {n}, value |-> x]
    BY <1>1, <1>2, <1>4, <2>1 DEF Modbus!Value
  <2>3. ASSUME NEW m \in Registers, result'.of = {m}
        PROVE  /\ Modbus!Last(m) <= Len(regs')
               /\ result'.value =
                    Modbus!decode_modbus_value(m, SubSeq(regs', Modbus!First(m), Modbus!Last(m)))
    <3>1. m = n
      <4>1. {n} = {m}
        BY <2>2, <2>3
      <4> QED
        BY <4>1
    <3>2. Modbus!Last(n) <= Len(regs') /\ result'.value = x
      BY <1>1, <1>2, <1>4, <2>2
    <3> QED
      BY <2>1, <3>1, <3>2, Zenon
  <2>4. ResultIsDecoded'
    BY <2>3, Zenon DEF ResultIsDecoded, Modbus!decode_modbus_value, Modbus!First, Modbus!Last
  <2> QED
    BY <2>4, ModbusLonger
<1> QED
  BY <1>3, <1>4

\* ModbusServer.read makes the data bank long enough first.
LEMMA ModbusServerRead ==
  ASSUME ModbusParts, NEW n \in Registers, Modbus!server_read(n)
  PROVE  ModbusParts'
<1>1. regs \in Seq(Int)
  BY DEF ModbusParts
<1>2. Extends(regs') /\ Modbus!Last(n) <= Len(regs')
  BY <1>1, CapacityExtends DEF Modbus!server_read
<1>3. UNCHANGED written
  BY DEF Modbus!server_read
<1>4. PICK e \in Nat : e = Modbus!Last(n)
  BY RegisterConstants DEF Modbus!Last
<1>5. PICK l \in Nat : l = Len(regs')
  BY <1>2 DEF Extends
<1>6. ~ (l < e) /\ ~ (e > l)
  BY <1>2, <1>4, <1>5
<1>7. result' = Modbus!Value(n, Modbus!decode_modbus_value(n,
                  SubSeq(regs', Modbus!First(n), Modbus!Last(n))))
  BY <1>4, <1>5, <1>6, Zenon DEF Modbus!server_read
<1> QED
  BY <1>2, <1>3, <1>4, <1>5, <1>6, <1>7, ModbusRead

\* ModbusConnection.read leaves it alone.
LEMMA ModbusConnectionRead ==
  ASSUME ModbusParts, NEW n \in Registers, Modbus!connection_read(n)
  PROVE  ModbusParts'
<1>1. Extends(regs)
  BY DEF ModbusParts, Extends
<1>2. UNCHANGED <<regs, written>>
  BY DEF Modbus!connection_read
<1>3. regs' = regs /\ Extends(regs')
  BY <1>1, <1>2
<1>4. result' = IF Modbus!Last(n) > Len(regs') THEN Modbus!Error
                ELSE Modbus!Value(n, Modbus!decode_modbus_value(n,
                       SubSeq(regs', Modbus!First(n), Modbus!Last(n))))
  BY <1>3, Zenon DEF Modbus!connection_read
<1> QED
  BY <1>2, <1>3, <1>4, ModbusRead

\* Modbus: what a node was given last is what a read of it returns, over the connection
\* or in the server, if it is a signed number of its length that a connection has not
\* written with little words; and a value the server was given is readable.
THEOREM ModbusValuesReadBack == Spec => []ValuesReadBack
<1>1. Init => ModbusInv
  <2> SUFFICES ASSUME Init, connection = "modbus" PROVE ModbusParts
    BY DEF ModbusInv
  <2>1. Modbus!Init
    BY DEF Init
  <2>2. InitialSize \in Nat
    BY RequestsAssumption DEF RequestsAssumption, Modbus!ValuesAssumption
  <2>3. regs \in Seq(Int)
    BY <2>1, <2>2 DEF Modbus!Init
  <2>4. WrittenIsHeld
    BY <2>1 DEF Modbus!Init, Modbus!Nothing, WrittenIsHeld
  <2>5. ResultIsDecoded
    BY <2>1 DEF Modbus!Init, Modbus!Done, ResultIsDecoded
  <2> QED
    BY <2>3, <2>4, <2>5 DEF ModbusParts
<1>2. ModbusInv /\ [Next]_vars => ModbusInv'
  <2> SUFFICES ASSUME ModbusInv, [Next]_vars, connection' = "modbus" PROVE ModbusParts'
    BY DEF ModbusInv
  <2>1. connection = "modbus" /\ ModbusParts
    BY DEF ModbusInv, Next, vars
  <2>2. CASE UNCHANGED vars
    <3>1. UNCHANGED <<regs, written, result>>
      BY <2>2 DEF vars, databank
    <3> QED
      BY <2>1, <3>1 DEF ModbusParts, WrittenIsHeld, ResultIsDecoded, HoldsWords, Laid
  <2>3. CASE Next
    <3>1. Modbus!Next
      BY <2>1, <2>3 DEF Next
    <3>2. PICK n \in Registers :
            \/ Modbus!server_read(n) \/ Modbus!connection_read(n)
            \/ \E v \in Modbus!Signed(2 * n.length) \cup Modbus!Unsigned(2 * n.length)
                          \cup {Modbus!Power(2 * n.length)} :
                 Modbus!server_write(n, v) \/ Modbus!connection_write(n, v)
      BY <3>1, Zenon DEF Modbus!Next
    <3>3. \A v \in Modbus!Signed(2 * n.length) \cup Modbus!Unsigned(2 * n.length)
                     \cup {Modbus!Power(2 * n.length)} : v \in Int
      <4>1. PICK p \in Nat : p = Modbus!Power(2 * n.length)
        BY RegisterConstants, Powers
      <4>2. p \div 2 \in Int
        OBVIOUS
      <4> QED
        BY <4>1, <4>2 DEF Modbus!Signed, Modbus!Unsigned
    <3>4. CASE Modbus!server_read(n)
      BY <2>1, <3>4, ModbusServerRead
    <3>5. CASE Modbus!connection_read(n)
      BY <2>1, <3>5, ModbusConnectionRead
    <3>6. ASSUME NEW v \in Int, Modbus!server_write(n, v) PROVE ModbusParts'
      BY <2>1, <3>6, ModbusServerWrite
    <3>7. ASSUME NEW v \in Int, Modbus!connection_write(n, v) PROVE ModbusParts'
      BY <2>1, <3>7, ModbusConnectionWrite
    <3> QED
      BY <3>2, <3>3, <3>4, <3>5, <3>6, <3>7, Zenon
  <2> QED
    BY <2>2, <2>3
<1>3. ModbusInv => ValuesReadBack
  BY HeldIsReadBack, Zenon DEF ModbusInv, ValuesReadBack
<1> QED
  BY <1>1, <1>2, <1>3, PTL DEF Spec
-----------------------------------------------------------------------------
(* Sets of numbers in ascending order.                                     *)

\* The elements of T, the least one first.
Lists(s, n, T) ==
  /\ n \in Nat /\ s \in [1..n -> T]
  /\ \A i, j \in 1..n : i < j => s[i] < s[j]
  /\ \A t \in T : \E i \in 1..n : s[i] = t

\* One element has as many before it as one likes.
LEMMA HasRanks ==
  ASSUME NEW S \in SUBSET Int, IsFiniteSet(S), NEW i \in 1..Cardinality(S)
  PROVE  \E t \in S : Cardinality({u \in S : u < t}) = i - 1
<1> DEFINE Lacks(X, n, j) == \A t \in X : Cardinality({u \in X : u < t}) # j - 1
<1> DEFINE Fails(n) ==
      \E X \in SUBSET S : Cardinality(X) = n /\ \E j \in 1..n : Lacks(X, n, j)
<1> DEFINE T == {n \in Nat : Fails(n)}
<1>1. SUFFICES ASSUME Lacks(S, Cardinality(S), i) PROVE FALSE
  OBVIOUS
<1>0. T # {}
  <2>1. Cardinality(S) \in Nat
    BY FS_CardinalityType
  <2>2. Fails(Cardinality(S))
    BY <1>1
  <2> QED
    BY <2>1, <2>2
<1>2. PICK n \in T : \A m \in T : n <= m
  <2>1. T \in SUBSET Nat
    OBVIOUS
  <2> HIDE DEF T
  <2> QED
    BY <1>0, <2>1, HasLeast
<1>3. PICK X \in SUBSET S : Cardinality(X) = n /\ \E j \in 1..n : Lacks(X, n, j)
  BY <1>2
<1>4. PICK j \in 1..n : Lacks(X, n, j)
  BY <1>3
<1>5. n \in Nat /\ n >= 1
  BY <1>2, <1>4
<1>6. IsFiniteSet(X) /\ X # {} /\ X \in SUBSET Int
  <2>1. IsFiniteSet(X) /\ X \in SUBSET Int
    BY FS_Subset
  <2>2. Cardinality(X) # 0
    BY <1>3, <1>5
  <2> QED
    BY <2>1, <2>2, FS_EmptySet
<1>7. PICK z \in X : \A y \in X : z >= y
  BY <1>6, FiniteHasEnds DEF HasEnds
<1> DEFINE Y == X \ {z}
<1>8. IsFiniteSet(Y) /\ Cardinality(Y) = n - 1
  BY <1>3, <1>6, <1>7, FS_RemoveElement
<1>9. CASE j = n
  <2>1. \A u \in X : u < z <=> u # z
    <3>1. \A u \in X : u \in Int /\ z \in Int /\ z >= u
      BY <1>6, <1>7
    <3> QED
      BY <3>1
  <2>2. {u \in X : u < z} = Y
    BY <2>1
  <2> QED
    BY <1>4, <1>7, <1>8, <1>9, <2>2
<1>10. CASE j # n
  <2>1. n - 1 \in Nat /\ j \in 1..(n - 1) /\ ~ (n <= n - 1)
    BY <1>5, <1>10
  <2>2. ~ Fails(n - 1)
    BY <1>2, <2>1
  <2>3. Y \in SUBSET S
    OBVIOUS
  <2>4. ~ Lacks(Y, n - 1, j)
    BY <1>8, <2>1, <2>2, <2>3
  <2>5. PICK t \in Y : Cardinality({u \in Y : u < t}) = j - 1
    BY <2>4
  <2>6. {u \in X : u < t} = {u \in Y : u < t}
    BY <1>6, <1>7
  <2> QED
    BY <1>4, <2>5, <2>6
<1> QED
  BY <1>9, <1>10

\* The instance counts as everyone does.
LEMMA SameCardinality == \A S : Entsoe!Cardinality(S) = Cardinality(S)
  BY Zenon DEF Entsoe!Cardinality, Cardinality

\* Ascending lists the elements of a set.
LEMMA AscendingLists ==
  ASSUME NEW S \in SUBSET Int, IsFiniteSet(S)
  PROVE  Lists(Entsoe!Ascending(S), Cardinality(S), S)
<1> DEFINE below(t) == {u \in S : u < t}
<1>1. PICK n \in Nat : n = Cardinality(S)
  BY FS_CardinalityType
<1>2. PICK s : s = Entsoe!Ascending(S)
  OBVIOUS
<1>3. s = [i \in 1..n |-> CHOOSE t \in S : Entsoe!Cardinality(below(t)) = i - 1]
  <2>1. n = Entsoe!Cardinality(S)
    BY <1>1, SameCardinality
  <2> QED
    BY <1>2, <2>1, Zenon DEF Entsoe!Ascending
<1>4. \A i \in 1..n : \E t \in S : Entsoe!Cardinality(below(t)) = i - 1
  <2>1. \A i \in 1..n : \E t \in S : Cardinality(below(t)) = i - 1
    BY <1>1, HasRanks
  <2> QED
    BY <2>1, SameCardinality, Zenon
<1>5. \A i \in 1..n : s[i] \in S /\ Cardinality(below(s[i])) = i - 1
  <2>1. \A i \in 1..n : s[i] \in S /\ Entsoe!Cardinality(below(s[i])) = i - 1
    BY <1>3, <1>4, Zenon
  <2> QED
    BY <2>1, SameCardinality, Zenon
<1>6. \A t \in S : IsFiniteSet(below(t)) /\ Cardinality(below(t)) \in Nat
  BY FS_Subset, FS_CardinalityType
<1>7. ASSUME NEW t \in S, NEW x \in S, t < x
      PROVE  Cardinality(below(t)) < Cardinality(below(x))
  <2>1. below(t) \subseteq below(x) \ {t} /\ t \in below(x)
    <3>1. \A u \in S : u \in Int /\ t \in Int /\ x \in Int
      OBVIOUS
    <3>2. \A u \in S : u < t => u < x /\ u # t
      BY <1>7, <3>1
    <3> QED
      BY <1>7, <3>2, Zenon
  <2>2. /\ IsFiniteSet(below(x) \ {t})
        /\ Cardinality(below(x) \ {t}) = Cardinality(below(x)) - 1
    BY <1>6, <2>1, FS_RemoveElement
  <2>3. Cardinality(below(t)) <= Cardinality(below(x) \ {t})
    BY <2>1, <2>2, FS_Subset
  <2> QED
    BY <1>6, <2>2, <2>3
<1> HIDE DEF below
<1>8. ASSUME NEW i \in 1..n, NEW j \in 1..n, i < j
      PROVE  s[i] < s[j]
  <2>1. PICK x \in S : x = s[i] /\ Cardinality(below(x)) = i - 1
    BY <1>5
  <2>2. PICK y \in S : y = s[j] /\ Cardinality(below(y)) = j - 1
    BY <1>5
  <2>3. ~ (y < x) /\ x # y
    BY <1>7, <1>8, <2>1, <2>2
  <2> QED
    BY <2>1, <2>2, <2>3
<1>9. ASSUME NEW t \in S
      PROVE  \E i \in 1..n : s[i] = t
  <2>1. PICK c \in Nat : c = Cardinality(below(t))
    BY <1>6
  <2>2. c < n
    <3>1. below(t) \subseteq S \ {t}
      BY DEF below
    <3>2. IsFiniteSet(S \ {t}) /\ Cardinality(S \ {t}) = n - 1
      BY <1>1, FS_RemoveElement
    <3>3. Cardinality(below(t)) <= Cardinality(S \ {t})
      BY <3>1, <3>2, FS_Subset
    <3> QED
      BY <2>1, <3>2, <3>3
  <2>3. c + 1 \in 1..n
    BY <2>1, <2>2
  <2>4. PICK x \in S : x = s[c + 1] /\ Cardinality(below(x)) = c
    <3>1. (c + 1) - 1 = c
      BY <2>1
    <3>2. s[c + 1] \in S /\ Cardinality(below(s[c + 1])) = (c + 1) - 1
      BY <1>5, <2>3, Zenon
    <3> QED
      BY <3>1, <3>2, Zenon
  <2>5. ~ (x < t) /\ ~ (t < x)
    BY <1>7, <2>1, <2>4
  <2>6. x = t
    BY <2>5
  <2> QED
    BY <2>3, <2>4, <2>6
<1>10. s \in [1..n -> S]
  BY <1>3, <1>5
<1> QED
  BY <1>1, <1>2, <1>8, <1>9, <1>10 DEF Lists

\* Two lists that share the numbers from 0 up to L: each number has as many elements of
\* the two before it as it says.
Shares(a, n, b, k, p, c, m) ==
  /\ c \in 0..n /\ m \in 0..k /\ c + m = p
  /\ \A i \in 1..n : a[i] < p <=> i <= c
  /\ \A i \in 1..k : b[i] < p <=> i <= m

LEMMA SharesNext ==
  ASSUME NEW L \in Nat, NEW A, NEW B, A \cup B = 0..(L - 1), A \cap B = {},
         NEW a, NEW n, Lists(a, n, A), NEW b, NEW k, Lists(b, k, B),
         NEW p \in 0..(L - 1), NEW c, NEW m, Shares(a, n, b, k, p, c, m), p \in A
  PROVE  Shares(a, n, b, k, p + 1, c + 1, m)
<1>1. PICK j \in 1..n : a[j] = p
  BY DEF Lists
<1>2. n \in Nat /\ k \in Nat /\ c \in 0..n /\ m \in 0..k /\ c + m = p
  BY DEF Lists, Shares
<1>3. \A i \in 1..n : a[i] \in Int
  BY DEF Lists
<1>4. \A i \in 1..k : b[i] \in Int /\ b[i] # p
  BY DEF Lists
<1>5. ~ (j <= c)
  BY <1>1, <1>3 DEF Shares
<1>6. j = c + 1
  <2>1. SUFFICES ASSUME j > c + 1 PROVE FALSE
    BY <1>2, <1>5
  <2>2. c + 1 \in 1..n /\ ~ (c + 1 <= c)
    BY <1>2, <2>1
  <2>3. a[c + 1] < p
    BY <1>1, <2>1, <2>2 DEF Lists
  <2> QED
    BY <2>2, <2>3 DEF Shares
<1>7. \A i \in 1..n : a[i] < p + 1 <=> i <= c + 1
  <2> SUFFICES ASSUME NEW i \in 1..n PROVE a[i] < p + 1 <=> i <= c + 1
    OBVIOUS
  <2>1. i <= c => a[i] < p
    BY DEF Shares
  <2>2. i > c + 1 => a[i] > p
    BY <1>1, <1>3, <1>6 DEF Lists
  <2> QED
    BY <1>1, <1>2, <1>3, <1>6, <2>1, <2>2
<1>8. \A i \in 1..k : b[i] < p + 1 <=> i <= m
  BY <1>4 DEF Shares
<1>9. c + 1 \in 0..n /\ c + 1 + m = p + 1
  BY <1>1, <1>2, <1>6
<1> QED
  BY <1>2, <1>7, <1>8, <1>9 DEF Shares

LEMMA ListsShare ==
  ASSUME NEW L \in Nat, NEW A, NEW B, A \cup B = 0..(L - 1), A \cap B = {},
         NEW a, NEW n, Lists(a, n, A), NEW b, NEW k, Lists(b, k, B)
  PROVE  \A p \in 0..L : \E c, m : Shares(a, n, b, k, p, c, m)
<1> DEFINE Fails(p) == ~ \E c, m : Shares(a, n, b, k, p, c, m)
<1> DEFINE T == {p \in 0..L : Fails(p)}
<1>1. SUFFICES ASSUME T # {} PROVE FALSE
  OBVIOUS
<1>2. PICK p \in T : \A q \in T : p <= q
  <2>1. T \in SUBSET Nat
    OBVIOUS
  <2> HIDE DEF T
  <2> QED
    BY <1>1, <2>1, HasLeast
<1>3. n \in Nat /\ k \in Nat
  BY DEF Lists
<1>4. CASE p = 0
  <2>1. \A i \in 1..n : ~ (a[i] < 0) /\ ~ (i <= 0)
    BY DEF Lists
  <2>2. \A i \in 1..k : ~ (b[i] < 0) /\ ~ (i <= 0)
    BY DEF Lists
  <2>3. 0 \in 0..n /\ 0 \in 0..k /\ 0 + 0 = 0
    BY <1>3
  <2>4. Shares(a, n, b, k, 0, 0, 0)
    BY <2>1, <2>2, <2>3 DEF Shares
  <2> QED
    BY <1>2, <1>4, <2>4
<1>5. CASE p # 0
  <2>1. PICK q \in 0..(L - 1) : p = q + 1
    <3>1. p - 1 \in 0..(L - 1) /\ p = (p - 1) + 1
      BY <1>2, <1>5
    <3> QED
      BY <3>1
  <2>2. q \in 0..L /\ ~ (p <= q)
    BY <2>1
  <2>3. PICK c, m : Shares(a, n, b, k, q, c, m)
    BY <1>2, <2>2
  <2>4. CASE q \in A
    <3>1. Shares(a, n, b, k, q + 1, c + 1, m)
      BY <2>3, <2>4, SharesNext
    <3> QED
      BY <1>2, <2>1, <3>1
  <2>5. CASE q \in B
    <3>1. Shares(b, k, a, n, q, m, c)
      BY <2>3 DEF Shares
    <3>2. B \cup A = 0..(L - 1) /\ B \cap A = {}
      OBVIOUS
    <3>3. Shares(b, k, a, n, q + 1, m + 1, c)
      BY <2>5, <3>1, <3>2, SharesNext
    <3>4. Shares(a, n, b, k, q + 1, c, m + 1)
      BY <3>3 DEF Shares
    <3> QED
      BY <1>2, <2>1, <3>4
  <2> QED
    BY <2>1, <2>4, <2>5
<1> QED
  BY <1>4, <1>5

-----------------------------------------------------------------------------
(* Insertion                                                               *)

\* What InsertAt does: the elements from i on move on by one.
Inserted(r, s, N, i, e, V) ==
  /\ r \in [1..(N + 1) -> V]
  /\ \A j \in 1..(i - 1) : r[j] = s[j]
  /\ r[i] = e
  /\ \A j \in (i + 1)..(N + 1) : r[j] = s[j - 1]

LEMMA InsertedAt ==
  ASSUME NEW V, NEW N \in Nat, NEW s \in [1..N -> V], NEW i \in 1..(N + 1), NEW e \in V,
         NEW r, r = Entsoe!InsertAt(s, i, e)
  PROVE  Inserted(r, s, N, i, e, V)
<1>1. s \in Seq(V) /\ Len(s) = N
  OBVIOUS
<1>2. PICK x : x = SubSeq(s, 1, i - 1)
  OBVIOUS
<1>3. /\ x \in Seq(V) /\ Len(x) = i - 1
      /\ \A j \in 1..(i - 1) : x[j] = s[j]
  BY <1>1, <1>2
<1>4. PICK z : z = SubSeq(s, i, Len(s))
  OBVIOUS
<1>5. /\ z \in Seq(V) /\ Len(z) = N + 1 - i
      /\ \A j \in 1..(N + 1 - i) : z[j] = s[j + i - 1]
  BY <1>1, <1>4
<1>6. PICK y : y = x \o <<e>>
  OBVIOUS
<1>7. /\ y \in Seq(V) /\ Len(y) = i
      /\ \A j \in 1..(i - 1) : y[j] = s[j]
      /\ y[i] = e
  BY <1>3, <1>6
<1>8. r = y \o z
  BY <1>2, <1>4, <1>6, Zenon DEF Entsoe!InsertAt
<1>10. r \in Seq(V) /\ Len(r) = N + 1
  BY <1>5, <1>7, <1>8
<1>11. \A j \in 1..i : r[j] = y[j]
  BY <1>5, <1>7, <1>8
<1>12. \A j \in (i + 1)..(N + 1) : r[j] = s[j - 1]
  <2> SUFFICES ASSUME NEW j \in (i + 1)..(N + 1) PROVE r[j] = s[j - 1]
    OBVIOUS
  <2>1. r[j] = z[j - i]
    BY <1>5, <1>7, <1>8
  <2>2. j - i \in 1..(N + 1 - i) /\ (j - i) + i - 1 = j - 1
    OBVIOUS
  <2>3. z[j - i] = s[(j - i) + i - 1]
    BY <1>5, <2>2
  <2> QED
    BY <2>1, <2>2, <2>3
<1>13. r \in [1..(N + 1) -> V]
  BY <1>10
<1>14. r[i] = e /\ \A j \in 1..(i - 1) : r[j] = s[j]
  BY <1>7, <1>11
<1> QED
  BY <1>12, <1>13, <1>14 DEF Inserted

\* Two lists with the numbers less than L between them.
Parts(L, A, a, n, B, b, k) ==
  /\ L \in Nat /\ A \cup B = 0..(L - 1) /\ A \cap B = {}
  /\ Lists(a, n, A) /\ Lists(b, k, B)

\* An element of one of two lists that share the numbers comes after its predecessors and
\* the lesser ones of the other list.
LEMMA RankInBoth ==
  ASSUME NEW L, NEW A, NEW a, NEW n, NEW B, NEW b, NEW k,
         Parts(L, A, a, n, B, b, k), NEW i \in 1..n
  PROVE  \E r \in 0..k : a[i] = i - 1 + r /\ \A m \in 1..k : b[m] < a[i] <=> m <= r
<1> USE DEF Parts
<1>1. n \in Nat /\ k \in Nat /\ a \in [1..n -> A]
  BY DEF Lists, Parts
<1>2. PICK p \in 0..(L - 1) : p = a[i]
  BY <1>1
<1>3. \E c, m : Shares(a, n, b, k, p, c, m)
  <2>1. p \in 0..L
    BY <1>2
  <2> QED
    BY <2>1, ListsShare
<1>4. PICK c, r : Shares(a, n, b, k, p, c, r)
  BY <1>3
<1>5. c \in 0..n /\ r \in 0..k /\ c + r = p
  BY <1>4 DEF Shares
<1>6. c = i - 1
  <2>1. ~ (i <= c)
    BY <1>2, <1>4 DEF Shares
  <2>2. ASSUME c < i - 1 PROVE FALSE
    <3>1. c + 1 \in 1..n /\ c + 1 < i /\ ~ (c + 1 <= c)
      BY <1>1, <1>5, <2>2
    <3>2. a[c + 1] < a[i]
      BY <3>1 DEF Lists, Parts
    <3> QED
      BY <1>2, <1>4, <3>1, <3>2 DEF Shares
  <2> QED
    BY <1>5, <2>1, <2>2
<1>7. \A m \in 1..k : b[m] < p <=> m <= r
  BY <1>4 DEF Shares
<1> QED
  BY <1>2, <1>5, <1>6, <1>7

\* Where the values are, and the gaps, once gaps have been inserted for the numbers that
\* are missing, from the first to the last.
Inserts(D, vals, b, k, gap) ==
  D[0] = vals /\ \A m \in 1..k : D[m] = Entsoe!InsertAt(D[m - 1], b[m] + 1, gap)

FilledIn(s, a, n, vals, b, k, gap) ==
  /\ \A i \in 1..n : s[a[i] + 1] = vals[i]
  /\ \A j \in 1..k : s[b[j] + 1] = gap

LEMMA GapsInserted ==
  ASSUME NEW L, NEW A, NEW a, NEW n, NEW B, NEW b, NEW k, Parts(L, A, a, n, B, b, k),
         NEW V, NEW vals \in [1..n -> V], NEW gap \in V,
         NEW D, Inserts(D, vals, b, k, gap)
  PROVE  FilledIn(D[k], a, n, vals, b, k, gap)
<1> DEFINE Rank(i, r) == a[i] = i - 1 + r /\ \A m \in 1..k : b[m] < a[i] <=> m <= r
<1> DEFINE Good(m) ==
      /\ D[m] \in [1..(n + m) -> V]
      /\ \A i \in 1..n, r \in 0..k :
           Rank(i, r) => D[m][IF m <= r THEN i + m ELSE a[i] + 1] = vals[i]
      /\ \A j \in 1..m : D[m][b[j] + 1] = gap
<1> DEFINE T == {m \in 0..k : ~ Good(m)}
<1>1. n \in Nat /\ k \in Nat
  BY DEF Lists, Parts
<1>2. \A i \in 1..n : a[i] \in Int
  BY DEF Lists, Parts
<1>3. \A m \in 1..k : b[m] \in Int
  BY DEF Lists, Parts
<1>0. \A i \in 1..n : \E r \in 0..k : Rank(i, r)
  <2> SUFFICES ASSUME NEW i \in 1..n PROVE \E r \in 0..k : Rank(i, r)
    OBVIOUS
  <2>1. Parts(L, A, a, n, B, b, k)
    OBVIOUS
  <2> HIDE DEF Good, T
  <2> QED
    BY <2>1, RankInBoth
<1>4. Good(0)
  <2>1. D[0] = vals
    BY DEF Inserts
  <2>2. \A r \in 0..k : 0 <= r
    BY <1>1
  <2>3. n + 0 = n /\ \A i \in 1..n : i + 0 = i
    BY <1>1
  <2>4. \A i \in 1..n, r \in 0..k : D[0][IF 0 <= r THEN i + 0 ELSE a[i] + 1] = vals[i]
    BY <2>1, <2>2, <2>3
  <2>5. D[0] \in [1..(n + 0) -> V]
    BY <2>1, <2>3
  <2> QED
    BY <2>4, <2>5
<1>5. ASSUME NEW m \in 0..(k - 1), Good(m) PROVE Good(m + 1)
  <2>1. m \in Nat /\ m + 1 \in 1..k /\ (m + 1) - 1 = m
    BY <1>1
  <2>2. Parts(L, B, b, k, A, a, n)
    <3>1. B \cup A = A \cup B /\ B \cap A = A \cap B
      OBVIOUS
    <3> QED
      BY <3>1, Zenon DEF Parts
  <2>3. \E c \in 0..n : b[m + 1] = (m + 1) - 1 + c
                        /\ \A i \in 1..n : a[i] < b[m + 1] <=> i <= c
    <3>1. PICK q \in 1..k : q = m + 1
      BY <2>1
    <3>2. \E c \in 0..n : b[q] = q - 1 + c /\ \A i \in 1..n : a[i] < b[q] <=> i <= c
      <4> HIDE DEF Good, T, Rank
      <4> QED
        BY <2>2, RankInBoth
    <3> QED
      BY <3>1, <3>2
  <2>4. PICK c \in 0..n : b[m + 1] = m + c /\ \A i \in 1..n : a[i] < b[m + 1] <=> i <= c
    BY <2>1, <2>3
  <2>5. PICK at : at = b[m + 1] + 1
    OBVIOUS
  <2>6. at = m + c + 1 /\ at \in 1..((n + m) + 1)
    BY <1>1, <2>1, <2>4, <2>5
  <2>7. PICK s \in [1..(n + m) -> V] : s = D[m]
    BY <1>5
  <2>8. D[m + 1] = Entsoe!InsertAt(s, at, gap)
    BY <2>1, <2>5, <2>7 DEF Inserts
  <2>9. PICK d : d = D[m + 1]
    OBVIOUS
  <2>10. n + m \in Nat /\ (n + m) + 1 = n + (m + 1)
    BY <1>1, <2>1
  <2>11. /\ d \in [1..(n + (m + 1)) -> V]
         /\ \A j \in 1..(at - 1) : d[j] = s[j]
         /\ d[at] = gap
         /\ \A j \in (at + 1)..((n + m) + 1) : d[j] = s[j - 1]
    <3>1. PICK N \in Nat : N = n + m
      BY <2>10
    <3>2. s \in [1..N -> V] /\ at \in 1..(N + 1) /\ d = Entsoe!InsertAt(s, at, gap)
      BY <2>6, <2>7, <2>8, <2>9, <3>1
    <3>3. Inserted(d, s, N, at, gap, V)
      BY <3>2, InsertedAt
    <3> QED
      BY <2>10, <3>1, <3>3 DEF Inserted
  <2>12. ASSUME NEW i \in 1..n, NEW r \in 0..k, Rank(i, r)
         PROVE  d[IF m + 1 <= r THEN i + (m + 1) ELSE a[i] + 1] = vals[i]
    <3>1. a[i] = i - 1 + r /\ (b[m + 1] < a[i] <=> m + 1 <= r)
      BY <2>1, <2>12
    <3>2. s[IF m <= r THEN i + m ELSE a[i] + 1] = vals[i]
      BY <1>5, <2>7, <2>12
    <3>3. CASE m + 1 <= r
      <4>1. c <= i - 1
        BY <1>2, <1>3, <2>1, <2>4, <3>1, <3>3
      <4>2. s[i + m] = vals[i]
        BY <2>1, <3>2, <3>3
      <4>3. i + (m + 1) \in (at + 1)..((n + m) + 1) /\ (i + (m + 1)) - 1 = i + m
        BY <1>1, <2>1, <2>6, <4>1
      <4>4. d[i + (m + 1)] = s[(i + (m + 1)) - 1]
        BY <2>11, <4>3
      <4> QED
        BY <3>3, <4>2, <4>3, <4>4
    <3>4. CASE ~ (m + 1 <= r)
      <4>1. a[i] <= b[m + 1]
        BY <1>2, <1>3, <2>1, <3>1, <3>4
      <4>2. a[i] # b[m + 1]
        <5>1. a[i] \in A /\ b[m + 1] \in B
          BY <2>1 DEF Lists, Parts
        <5> QED
          BY <5>1 DEF Parts
      <4>3. s[a[i] + 1] = vals[i]
        <5>1. m <= r => i + m = a[i] + 1
          BY <2>1, <3>1, <3>4
        <5> QED
          BY <3>2, <5>1
      <4>4. a[i] \in Int /\ a[i] >= 0 /\ a[i] < at - 1
        <5>1. b[m + 1] \in Int /\ at - 1 = b[m + 1]
          BY <1>3, <2>1, <2>5
        <5> QED
          BY <1>2, <3>1, <4>1, <4>2, <5>1
      <4>5. a[i] + 1 \in 1..(at - 1)
        BY <2>6, <4>4
      <4> QED
        BY <2>11, <3>4, <4>3, <4>5
    <3> QED
      BY <3>3, <3>4
  <2>13. ASSUME NEW j \in 1..(m + 1) PROVE d[b[j] + 1] = gap
    <3>1. CASE j = m + 1
      BY <2>5, <2>11, <3>1
    <3>2. CASE j # m + 1
      <4>1. j \in 1..m /\ j < m + 1 /\ j \in 1..k
        BY <1>1, <2>1, <3>2
      <4>2. b[j] < b[m + 1]
        BY <2>1, <4>1 DEF Lists, Parts
      <4>3. b[j] \in 0..(L - 1)
        BY <4>1 DEF Lists, Parts
      <4>4. b[j] + 1 \in 1..(at - 1)
        BY <1>3, <2>1, <2>5, <4>2, <4>3
      <4>5. s[b[j] + 1] = gap
        BY <1>5, <2>7, <4>1
      <4> QED
        BY <2>11, <4>4, <4>5
    <3> QED
      BY <3>1, <3>2
  <2> QED
    BY <2>9, <2>11, <2>12, <2>13
<1>6. T = {}
  <2>1. SUFFICES ASSUME T # {} PROVE FALSE
    OBVIOUS
  <2>2. PICK m \in T : \A q \in T : m <= q
    <3>1. T \in SUBSET Nat
      OBVIOUS
    <3> HIDE DEF T
    <3> QED
      BY <2>1, <3>1, HasLeast
  <2> HIDE DEF Good
  <2>3. m # 0
    BY <1>4, <2>2
  <2>4. m - 1 \in 0..(k - 1) /\ m - 1 \in 0..k /\ ~ (m <= m - 1) /\ (m - 1) + 1 = m
    BY <1>1, <2>2, <2>3
  <2>5. Good(m - 1)
    BY <2>2, <2>4
  <2>6. Good((m - 1) + 1)
    BY <1>5, <2>4, <2>5
  <2> QED
    BY <2>2, <2>4, <2>6
<1>7. Good(k)
  <2> HIDE DEF Good
  <2>1. k \in 0..k
    BY <1>1
  <2> QED
    BY <1>6, <2>1
<1>8. ASSUME NEW i \in 1..n PROVE D[k][a[i] + 1] = vals[i]
  <2>1. PICK r \in 0..k : Rank(i, r)
    BY <1>0
  <2>2. D[k][IF k <= r THEN i + k ELSE a[i] + 1] = vals[i]
    BY <1>7, <2>1
  <2>3. k <= r => i + k = a[i] + 1
    BY <1>1, <2>1
  <2> QED
    BY <2>2, <2>3
<1> QED
  BY <1>7, <1>8 DEF FilledIn

\* The fold of the insertions over the subsets of S, the greatest element first.
FoldBody(f, vals, b, S) ==
  [X \in SUBSET S |->
     IF X = {} THEN vals
     ELSE Entsoe!InsertAt(f[X \ {Entsoe!Max(X)}], b[Entsoe!Max(X)] + 1, NaN)]

\* The greatest element of a set of which it is known.
LEMMA EntsoeMaxIs ==
  ASSUME NEW X \in SUBSET Int, NEW z \in X, \A y \in X : z >= y
  PROVE  Entsoe!Max(X) = z
<1>1. \E x \in X : \A y \in X : x >= y
  OBVIOUS
<1>2. PICK x : x = Entsoe!Max(X)
  OBVIOUS
<1>3. x \in X /\ \A y \in X : x >= y
  BY <1>1, <1>2, Zenon DEF Entsoe!Max
<1>4. x >= z /\ z >= x /\ x \in Int /\ z \in Int
  BY <1>3
<1> QED
  BY <1>2, <1>4

LEMMA FoldExists ==
  ASSUME NEW k \in Nat, NEW vals, NEW b
  PROVE  \E f : f = FoldBody(f, vals, b, 1..k)
<1> DEFINE Fails(m) == ~ \E f : f = FoldBody(f, vals, b, 1..m)
<1> DEFINE T == {m \in 0..k : Fails(m)}
<1>1. SUFFICES ASSUME T # {} PROVE FALSE
  <2>1. k \in 0..k
    OBVIOUS
  <2> QED
    BY <1>1, <2>1
<1>2. PICK m \in T : \A q \in T : m <= q
  <2>1. T \in SUBSET Nat
    OBVIOUS
  <2> HIDE DEF T
  <2> QED
    BY <1>1, <2>1, HasLeast
<1>3. CASE m = 0
  <2> DEFINE g == [X \in SUBSET (1..0) |-> vals]
  <2>1. \A X \in SUBSET (1..0) : X = {}
    OBVIOUS
  <2>2. g = FoldBody(g, vals, b, 1..0)
    BY <2>1, Zenon DEF FoldBody
  <2> QED
    BY <1>2, <1>3, <2>2
<1>4. CASE m # 0
  <2>1. PICK q \in 0..(k - 1) : m = q + 1
    <3>1. m - 1 \in 0..(k - 1) /\ m = (m - 1) + 1
      BY <1>2, <1>4
    <3> QED
      BY <3>1
  <2>2. q \in 0..k /\ ~ (m <= q)
    BY <2>1
  <2>3. ~ Fails(q)
    BY <1>2, <2>2
  <2>4. PICK f : f = FoldBody(f, vals, b, 1..q)
    BY <2>3
  <2> DEFINE max(X) == Entsoe!Max(X)
  <2> DEFINE g == [X \in SUBSET (1..m) |->
                     IF m \in X THEN Entsoe!InsertAt(f[X \ {m}], b[m] + 1, NaN) ELSE f[X]]
  <2>5. ASSUME NEW X \in SUBSET (1..m), m \notin X
        PROVE  X \in SUBSET (1..q)
    BY <2>1, <2>5
  <2>6. ASSUME NEW X \in SUBSET (1..m)
        PROVE  g[X] = IF X = {} THEN vals
                      ELSE Entsoe!InsertAt(g[X \ {max(X)}], b[max(X)] + 1, NaN)
    <3>1. CASE m \in X
      <4>1. X \in SUBSET Int /\ \A y \in X : m >= y
        BY <2>1
      <4>2. max(X) = m
        BY <3>1, <4>1, EntsoeMaxIs
      <4>3. X \ {m} \in SUBSET (1..m) /\ m \notin X \ {m}
        OBVIOUS
      <4>4. g[X \ {m}] = f[X \ {m}]
        BY <4>3, Zenon
      <4>5. g[X] = Entsoe!InsertAt(f[X \ {m}], b[m] + 1, NaN)
        BY <3>1, Zenon
      <4>6. X # {}
        BY <3>1
      <4> HIDE DEF g, max
      <4> QED
        BY <4>2, <4>4, <4>5, <4>6, Zenon
    <3>2. CASE m \notin X
      <4>1. X \in SUBSET (1..q)
        BY <2>5, <3>2
      <4>2. f[X] = IF X = {} THEN vals
                   ELSE Entsoe!InsertAt(f[X \ {max(X)}], b[max(X)] + 1, NaN)
        BY <2>4, <4>1, Zenon DEF FoldBody
      <4>3. g[X] = f[X]
        BY <3>2, Zenon
      <4>4. X \ {max(X)} \in SUBSET (1..m) /\ m \notin X \ {max(X)}
        BY <3>2
      <4>5. g[X \ {max(X)}] = f[X \ {max(X)}]
        BY <4>4, Zenon
      <4> HIDE DEF g, max
      <4> QED
        BY <4>2, <4>3, <4>5, Zenon
    <3> QED
      BY <3>1, <3>2
  <2>7. g = [X \in SUBSET (1..m) |-> g[X]]
    BY Zenon
  <2>8. g = FoldBody(g, vals, b, 1..m)
    <3> HIDE DEF g
    <3> QED
      BY <2>6, <2>7, Zenon DEF FoldBody
  <2> QED
    BY <1>2, <2>8
<1> QED
  BY <1>3, <1>4

FoldOf(vals, b) == (CHOOSE g : g = FoldBody(g, vals, b, DOMAIN b))[DOMAIN b]

\* Hence a fold of the insertions makes them one after the other.
LEMMA FoldInserts ==
  ASSUME NEW k \in Nat, NEW vals, NEW b, DOMAIN b = 1..k
  PROVE  \E D : Inserts(D, vals, b, k, NaN) /\ D[k] = FoldOf(vals, b)
<1>0. PICK f : f = (CHOOSE g : g = FoldBody(g, vals, b, DOMAIN b))
  OBVIOUS
<1>1. f = FoldBody(f, vals, b, 1..k)
  <2>1. \E g : g = FoldBody(g, vals, b, DOMAIN b)
    BY FoldExists, Zenon
  <2>2. f = FoldBody(f, vals, b, DOMAIN b)
    BY <1>0, <2>1, Zenon
  <2> QED
    BY <2>2, Zenon
<1> DEFINE D == [m \in 0..k |-> f[1..m]]
<1>2. D[0] = vals
  <2>1. 0 \in 0..k /\ 1..0 = {} /\ {} \in SUBSET (1..k)
    OBVIOUS
  <2> QED
    BY <1>1, <2>1, Zenon DEF FoldBody
<1>3. ASSUME NEW m \in 1..k
      PROVE  D[m] = Entsoe!InsertAt(D[m - 1], b[m] + 1, NaN)
  <2>1. PICK X : X = 1..m
    OBVIOUS
  <2>2. X \in SUBSET (1..k) /\ X \in SUBSET Int /\ m \in X /\ \A y \in X : m >= y
    BY <2>1
  <2>3. Entsoe!Max(X) = m
    BY <2>2, EntsoeMaxIs
  <2>4. X \ {m} = 1..(m - 1)
    BY <2>1
  <2>5. X # {}
    BY <2>2
  <2>6. f[X] = Entsoe!InsertAt(f[X \ {m}], b[m] + 1, NaN)
    BY <1>1, <2>2, <2>3, <2>5, Zenon DEF FoldBody
  <2>7. m \in 0..k /\ m - 1 \in 0..k
    OBVIOUS
  <2>8. D[m] = f[X] /\ D[m - 1] = f[X \ {m}]
    BY <2>1, <2>4, <2>7, Zenon
  <2> HIDE DEF D
  <2> QED
    BY <2>6, <2>8, Zenon
<1>4. D[k] = FoldOf(vals, b)
  <2>1. k \in 0..k
    OBVIOUS
  <2>2. D[k] = f[1..k]
    BY <2>1, Zenon
  <2> HIDE DEF D
  <2>3. FoldOf(vals, b) = f[DOMAIN b]
    BY <1>0, Zenon DEF FoldOf
  <2> QED
    BY <2>2, <2>3, Zenon
<1> HIDE DEF D
<1>5. Inserts(D, vals, b, k, NaN)
  BY <1>2, <1>3, Zenon DEF Inserts
<1> QED
  BY <1>4, <1>5, Zenon

\* FillGaps is such a fold.
LEMMA FillGapsFolds ==
  ASSUME NEW ts, NEW b, NEW vals, vals = [i \in DOMAIN ts.points |-> ts.points[i].value],
         b = Entsoe!Ascending((0..(ts.length - 1))
                                \ {ts.points[i].position - 1 : i \in DOMAIN ts.points})
  PROVE  Entsoe!FillGaps(ts) = FoldOf(vals, b)
  BY Zenon DEF Entsoe!FillGaps, Entsoe!FoldLeft, Entsoe!MapThenFoldSet, FoldBody, FoldOf

-----------------------------------------------------------------------------
(* The times of a series                                                   *)

\* The times from start on, r apart, as many as come before end.
TimesOf(start, end, r) == {t \in start..(end - 1) : (t - start) % r = 0}
PositionOf(t, start, r) == (t - start) \div r

\* The time of a position, and the position of a time.
LEMMA StepOf ==
  ASSUME NEW start \in Int, NEW r \in Nat \ {0}, NEW q \in Int, NEW t, t = start + r * q
  PROVE  t \in Int /\ PositionOf(t, start, r) = q /\ (t - start) % r = 0
<1>1. PICK a \in Int : a = r * q
  OBVIOUS
<1>2. a = r * q + 0 /\ 0 \in 0..(r - 1)
  BY <1>1
<1>3. a \div r = q /\ a % r = 0
  BY <1>2, DivUnique
<1>4. t \in Int /\ t - start = a
  BY <1>1
<1> QED
  BY <1>3, <1>4 DEF PositionOf

LEMMA TimeOf ==
  ASSUME NEW start \in Int, NEW end \in Int, NEW r \in Nat \ {0},
         NEW t \in TimesOf(start, end, r)
  PROVE  PositionOf(t, start, r) \in Nat /\ t = start + r * PositionOf(t, start, r)
<1>1. r \in Int /\ r > 0
  OBVIOUS
<1>2. t \in Int /\ t >= start /\ (t - start) % r = 0
  BY DEF TimesOf
<1>3. PICK a \in Nat : a = t - start
  BY <1>2
<1>4. PICK q \in Int : q = a \div r
  BY <1>1
<1>5. PICK c \in Int : c = r * q
  BY <1>1
<1>6. a % r = 0
  BY <1>2, <1>3
<1>7. a = c
  BY <1>1, <1>3, <1>4, <1>5, <1>6
<1>8. q >= 0
  <2>1. q <= -1 => r * q <= -r
    BY <1>1
  <2> QED
    BY <1>1, <1>3, <1>5, <1>7, <2>1
<1>9. t = start + c
  BY <1>2, <1>3, <1>7
<1>10. PositionOf(t, start, r) = q
  BY <1>3, <1>4 DEF PositionOf
<1>11. q \in Nat /\ t = start + r * q
  BY <1>5, <1>8, <1>9
<1> QED
  BY <1>10, <1>11, Zenon

\* The positions of the times begin at 0, and they are as many as the times.
Counted(X, start, r, M) ==
  X = {start + r * q : q \in 0..(M - 1)} /\ IsFiniteSet(X) /\ Cardinality(X) = M

LEMMA TimesCount ==
  ASSUME NEW start \in Int, NEW end \in Int, NEW r \in Nat \ {0}
  PROVE  \E M \in Nat : Counted(TimesOf(start, end, r), start, r, M)
<1> DEFINE times == TimesOf(start, end, r)
<1>1. r \in Int /\ r > 0
  OBVIOUS
<1>2. \E M \in Nat : times = {start + r * q : q \in 0..(M - 1)}
  <2>1. CASE end <= start
    <3>1. times = {} /\ 0..(0 - 1) = {}
      BY <2>1 DEF TimesOf
    <3>2. times = {start + r * q : q \in 0..(0 - 1)}
      BY <3>1
    <3> QED
      BY <3>2
  <2>2. CASE start < end
    <3>1. PICK c \in Nat : c = end - 1 - start
      BY <2>2
    <3>2. PICK m \in Nat : m = c \div r
      BY <1>1
    <3>3. r * m <= c /\ c < r * m + r /\ r * m \in Int
      BY <1>1, <3>2
    <3>4. ASSUME NEW q \in 0..m PROVE start + r * q \in times
      <4>1. PICK a \in Int : a = r * q
        BY <1>1
      <4>2. 0 <= a /\ a <= r * m
        <5>1. PICK e \in Nat : m = q + e
          <6>1. m - q \in Nat /\ m = q + (m - q)
            OBVIOUS
          <6> QED
            BY <6>1
        <5>2. r * m = a + r * e /\ r * e >= 0 /\ r * q >= 0 /\ r * e \in Int
          BY <1>1, <4>1, <5>1
        <5> QED
          BY <3>3, <4>1, <5>2
      <4>3. start + a \in start..(end - 1)
        BY <3>1, <3>3, <4>1, <4>2
      <4>4. start + a \in Int /\ (start + a - start) % r = 0
        BY <4>1, StepOf
      <4> QED
        BY <4>1, <4>3, <4>4 DEF TimesOf
    <3>5. ASSUME NEW t \in times PROVE \E q \in 0..m : t = start + r * q
      <4>1. PICK q \in Nat : q = PositionOf(t, start, r) /\ t = start + r * q
        BY TimeOf
      <4>2. PICK a \in Int : a = r * q
        BY <1>1
      <4>3. t <= end - 1 /\ t \in Int
        BY DEF TimesOf
      <4>4. a <= c
        BY <3>1, <4>1, <4>2, <4>3
      <4>5. ~ (q > m)
        <5>1. SUFFICES ASSUME q > m PROVE FALSE
          OBVIOUS
        <5>2. PICK e \in Nat : q = m + 1 + e
          <6>1. q - m - 1 \in Nat /\ q = m + 1 + (q - m - 1)
            BY <5>1
          <6> QED
            BY <6>1
        <5>3. r * q = r * m + r + r * e /\ r * e >= 0 /\ r * e \in Int
          BY <1>1, <5>2
        <5> QED
          BY <3>3, <4>2, <4>4, <5>3
      <4>6. q \in 0..m
        BY <4>5
      <4> QED
        BY <4>1, <4>6, Zenon
    <3>6. times = {start + r * q : q \in 0..((m + 1) - 1)}
      <4>1. (m + 1) - 1 = m
        OBVIOUS
      <4> HIDE DEF times
      <4>2. times = {start + r * q : q \in 0..m}
        BY <3>4, <3>5, Zenon
      <4> QED
        BY <4>1, <4>2, Zenon
    <3>7. m + 1 \in Nat
      OBVIOUS
    <3> QED
      BY <3>6, <3>7, Zenon
  <2>3. end <= start \/ start < end
    OBVIOUS
  <2> QED
    BY <2>1, <2>2, <2>3, Zenon
<1>3. PICK M \in Nat : times = {start + r * q : q \in 0..(M - 1)}
  BY <1>2
<1> DEFINE f == [q \in 0..(M - 1) |-> start + r * q]
<1>4. f \in Bijection(0..(M - 1), times)
  <2>1. f \in [0..(M - 1) -> times]
    BY <1>3
  <2>2. ASSUME NEW p \in 0..(M - 1), NEW q \in 0..(M - 1), f[p] = f[q] PROVE p = q
    <3>1. start + r * p = start + r * q
      BY <2>2
    <3>2. PositionOf(start + r * p, start, r) = p /\ PositionOf(start + r * q, start, r) = q
      <4>1. p \in Int /\ q \in Int
        OBVIOUS
      <4> QED
        BY <4>1, StepOf
    <3> QED
      BY <3>1, <3>2, Zenon
  <2>3. \A t \in times : \E q \in 0..(M - 1) : f[q] = t
    BY <1>3
  <2> HIDE DEF f, times
  <2>4. f \in Injection(0..(M - 1), times)
    BY <2>1, <2>2 DEF Injection, IsInjective
  <2>5. f \in Surjection(0..(M - 1), times)
    BY <2>1, <2>3 DEF Surjection
  <2> QED
    BY <2>4, <2>5 DEF Bijection
<1>5. IsFiniteSet(0..(M - 1)) /\ Cardinality(0..(M - 1)) = M
  <2>1. 0 \in Int /\ M - 1 \in Int
    OBVIOUS
  <2>2. /\ IsFiniteSet(0..(M - 1))
        /\ Cardinality(0..(M - 1)) = IF 0 > M - 1 THEN 0 ELSE M - 1 - 0 + 1
    BY <2>1, FS_Interval
  <2> QED
    BY <2>2
<1> HIDE DEF times, f
<1>6. IsFiniteSet(times) /\ Cardinality(times) = M
  <2>1. ExistsBijection(0..(M - 1), times)
    BY <1>4 DEF ExistsBijection
  <2> QED
    BY <1>5, <2>1, FS_Bijection
<1> QED
  BY <1>3, <1>6, Zenon DEF times, Counted

LEMMA PositionsOf ==
  ASSUME NEW start \in Int, NEW r \in Nat \ {0}
  PROVE  \A q \in Int : PositionOf(start + r * q, start, r) = q
<1> SUFFICES ASSUME NEW q \in Int PROVE PositionOf(start + r * q, start, r) = q
  OBVIOUS
<1> QED
  BY StepOf

\* What there is at the times of a series that was asked for: the value that was published
\* for a time, or a gap where none was.
Answered(d, n, k, ts, start, end) ==
  /\ d.column = ts.column /\ d.resolution = ts.resolution
  /\ DOMAIN Entsoe!SeriesOf(d) = TimesOf(start, end, ts.resolution)
  /\ \A t \in TimesOf(start, end, ts.resolution) :
       /\ t \in ts.holes => Entsoe!SeriesOf(d)[t] = NaN
       /\ t \notin ts.holes => /\ Entsoe!SeriesOf(d)[t] = Entsoe!Value(n, k, t)
                               /\ d.points # <<>>
  /\ d.points # <<>> => \E t \in TimesOf(start, end, ts.resolution) : t \notin ts.holes

LEMMA SeriesAnswered ==
  ASSUME NEW n, NEW k, NEW ts, NEW r \in Nat \ {0}, r = ts.resolution,
         NEW start \in Int, NEW end \in Int, NEW p, NEW d, d = Entsoe!TimeSeriesOf(n, k, ts, p),
         start = Entsoe!Max({ts.start, p.periodStart}),
         end = Entsoe!Min({ts.end, p.periodEnd})
  PROVE  Answered(d, n, k, ts, start, end)
<1>1. PICK X : X = TimesOf(start, end, r)
  OBVIOUS
<1>0. PICK M \in Nat : Counted(X, start, r, M)
  BY <1>1, TimesCount
<1>2. X = {start + r * q : q \in 0..(M - 1)} /\ IsFiniteSet(X) /\ Cardinality(X) = M
  BY <1>0, Zenon DEF Counted
<1>3. PICK P : P = X \ ts.holes
  OBVIOUS
<1>4. X \in SUBSET Int /\ P \in SUBSET Int
  BY <1>1, <1>3 DEF TimesOf
<1>5. IsFiniteSet(P)
  BY <1>2, <1>3, FS_Subset
<1>6. PICK s : s = Entsoe!Ascending(P)
  OBVIOUS
<1>7. PICK c : c = Cardinality(P)
  OBVIOUS
<1>8. Lists(s, c, P)
  BY <1>4, <1>5, <1>6, <1>7, AscendingLists
<1>9. /\ d.column = ts.column /\ d.resolution = r /\ d.start = start /\ d.length = M
      /\ d.points = [i \in 1..c |-> [position |-> PositionOf(s[i], start, r) + 1,
                                     value |-> Entsoe!Value(n, k, s[i])]]
  <2>1. Entsoe!Cardinality(X) = M /\ Entsoe!Cardinality(P) = c
    BY <1>2, <1>7, SameCardinality
  <2>2. X = {t \in start..(end - 1) : (t - start) % r = 0}
    BY <1>1 DEF TimesOf
  <2>3. d = [column |-> ts.column, resolution |-> r, start |-> start, length |-> M,
             points |-> [i \in 1..c |-> [position |-> PositionOf(s[i], start, r) + 1,
                                         value |-> Entsoe!Value(n, k, s[i])]]]
    BY <1>3, <1>6, <2>1, <2>2, Zenon DEF Entsoe!TimeSeriesOf, PositionOf
  <2> QED
    BY <2>3
<1>10. PICK a : a = [i \in 1..c |-> PositionOf(s[i], start, r)]
  OBVIOUS
<1>11. PICK A : A = {a[i] : i \in 1..c}
  OBVIOUS
<1>12. PICK vals : vals = [i \in 1..c |-> Entsoe!Value(n, k, s[i])]
  OBVIOUS
<1>13. c \in Nat /\ DOMAIN d.points = 1..c
  BY <1>8, <1>9 DEF Lists
<1>14. vals = [i \in DOMAIN d.points |-> d.points[i].value]
  BY <1>9, <1>12
<1>15. \A i \in 1..c : s[i] \in X /\ s[i] \notin ts.holes
  BY <1>3, <1>8 DEF Lists
<1>16. \A i \in 1..c : a[i] \in Nat /\ s[i] = start + r * a[i]
  BY <1>1, <1>10, <1>15, TimeOf
<1>17. A = {d.points[i].position - 1 : i \in DOMAIN d.points}
  <2>1. \A i \in 1..c : d.points[i].position = a[i] + 1
    BY <1>9, <1>10
  <2>2. \A i \in 1..c : d.points[i].position - 1 = a[i]
    BY <1>16, <2>1
  <2> QED
    BY <1>11, <1>13, <2>2, Zenon
<1>18. \A q \in 0..(M - 1) : \A t : t = start + r * q => PositionOf(t, start, r) = q
  <2> SUFFICES ASSUME NEW q \in 0..(M - 1), NEW t, t = start + r * q
      PROVE  PositionOf(t, start, r) = q
    OBVIOUS
  <2>1. q \in Int
    OBVIOUS
  <2>2. PositionOf(start + r * q, start, r) = q
    BY <2>1, PositionsOf
  <2> QED
    BY <2>2, Zenon
<1>19. A \in SUBSET (0..(M - 1))
  <2>1. ASSUME NEW i \in 1..c PROVE a[i] \in 0..(M - 1)
    <3>1. PICK q \in 0..(M - 1) : s[i] = start + r * q
      BY <1>2, <1>15
    <3>2. PositionOf(s[i], start, r) = q
      BY <1>18, <3>1, Zenon
    <3> QED
      BY <1>10, <3>2
  <2> QED
    BY <1>11, <2>1
<1>20. Lists(a, c, A)
  <2>1. ASSUME NEW i \in 1..c, NEW j \in 1..c, i < j PROVE a[i] < a[j]
    <3>1. s[i] < s[j]
      BY <1>8, <2>1 DEF Lists
    <3>2. PICK x \in Nat : x = a[i] /\ s[i] = start + r * x
      BY <1>16
    <3>3. PICK y \in Nat : y = a[j] /\ s[j] = start + r * y
      BY <1>16
    <3>4. ASSUME x >= y PROVE FALSE
      <4>1. PICK e \in Nat : x = y + e
        <5>1. x - y \in Nat /\ x = y + (x - y)
          BY <3>4
        <5> QED
          BY <5>1
      <4>2. r * x = r * y + r * e /\ r * e \in Nat /\ r * y \in Int
        BY <4>1
      <4> QED
        BY <3>1, <3>2, <3>3, <4>2
    <3> QED
      BY <3>2, <3>3, <3>4
  <2>2. a \in [1..c -> A]
    BY <1>10, <1>11
  <2>3. \A t \in A : \E i \in 1..c : a[i] = t
    BY <1>11
  <2> QED
    BY <1>13, <2>1, <2>2, <2>3 DEF Lists
<1>21. PICK B : B = (0..(M - 1)) \ A
  OBVIOUS
<1>22. PICK b : b = Entsoe!Ascending(B)
  OBVIOUS
<1>23. PICK m : m = Cardinality(B)
  OBVIOUS
<1>24. Lists(b, m, B)
  <2>1. IsFiniteSet(0..(M - 1))
    <3>1. 0 \in Int /\ M - 1 \in Int
      OBVIOUS
    <3> QED
      BY <3>1, FS_Interval
  <2>2. B \in SUBSET Int /\ IsFiniteSet(B)
    BY <1>21, <2>1, FS_Subset
  <2> QED
    BY <1>22, <1>23, <2>2, AscendingLists
<1>25. Parts(M, A, a, c, B, b, m)
  <2>1. A \cup B = 0..(M - 1) /\ A \cap B = {}
    BY <1>19, <1>21
  <2> QED
    BY <1>20, <1>24, <2>1 DEF Parts
<1>26. m \in Nat /\ DOMAIN b = 1..m
  BY <1>24 DEF Lists
<1>28. PICK D : Inserts(D, vals, b, m, NaN) /\ D[m] = FoldOf(vals, b)
  BY <1>26, FoldInserts
<1>29. Entsoe!FillGaps(d) = D[m]
  <2>1. b = Entsoe!Ascending((0..(d.length - 1))
                               \ {d.points[i].position - 1 : i \in DOMAIN d.points})
    BY <1>9, <1>17, <1>21, <1>22, Zenon
  <2>2. Entsoe!FillGaps(d) = FoldOf(vals, b)
    BY <1>14, <2>1, FillGapsFolds
  <2> QED
    BY <1>28, <2>2
<1>30. /\ \A i \in 1..c : D[m][a[i] + 1] = vals[i]
       /\ \A j \in 1..m : D[m][b[j] + 1] = NaN
  <2>1. PICK V : V = {vals[i] : i \in 1..c} \cup {NaN}
    OBVIOUS
  <2>2. vals \in [1..c -> V] /\ NaN \in V
    BY <1>12, <2>1
  <2>3. FilledIn(D[m], a, c, vals, b, m, NaN)
    BY <1>25, <1>28, <2>2, GapsInserted
  <2> QED
    BY <2>3 DEF FilledIn
<1>31. DOMAIN Entsoe!SeriesOf(d) = X
  <2>1. DOMAIN Entsoe!SeriesOf(d) = {start + r * (i - 1) : i \in 1..M}
    BY <1>9 DEF Entsoe!SeriesOf
  <2>2. ASSUME NEW i \in 1..M PROVE start + r * (i - 1) \in X
    <3>1. i - 1 \in 0..(M - 1)
      OBVIOUS
    <3> QED
      BY <1>2, <3>1, Zenon
  <2>3. ASSUME NEW q \in 0..(M - 1) PROVE \E i \in 1..M : start + r * (i - 1) = start + r * q
    <3>1. q + 1 \in 1..M /\ (q + 1) - 1 = q
      OBVIOUS
    <3> QED
      BY <3>1, Zenon
  <2>4. ASSUME NEW t \in X PROVE \E i \in 1..M : start + r * (i - 1) = t
    <3>1. PICK q \in 0..(M - 1) : t = start + r * q
      BY <1>2, Zenon
    <3> QED
      BY <2>3, <3>1, Zenon
  <2> QED
    BY <2>1, <2>2, <2>4, Zenon
<1>32. ASSUME NEW t \in X
       PROVE  /\ t \in ts.holes => Entsoe!SeriesOf(d)[t] = NaN
              /\ t \notin ts.holes => /\ Entsoe!SeriesOf(d)[t] = Entsoe!Value(n, k, t)
                                      /\ d.points # <<>>
  <2>1. PICK q \in 0..(M - 1) : t = start + r * q
    BY <1>2
  <2>2. PositionOf(t, start, r) = q
    BY <1>18, <2>1, Zenon
  <2>3. Entsoe!SeriesOf(d)[t] = D[m][q + 1]
    BY <1>9, <1>29, <1>31, <2>2 DEF Entsoe!SeriesOf, PositionOf
  <2>4. CASE t \in ts.holes
    <3>1. q \notin A
      <4>1. SUFFICES ASSUME NEW i \in 1..c, q = a[i] PROVE FALSE
        BY <1>11
      <4>2. s[i] = t
        BY <1>16, <2>1, <4>1
      <4> QED
        BY <1>15, <2>4, <4>2
    <3>2. PICK j \in 1..m : b[j] = q
      BY <1>21, <1>24, <3>1 DEF Lists
    <3> QED
      BY <1>30, <2>3, <2>4, <3>2
  <2>5. CASE t \notin ts.holes
    <3>1. t \in P
      BY <1>3, <2>5
    <3>2. PICK i \in 1..c : s[i] = t
      BY <1>8, <3>1 DEF Lists
    <3>3. a[i] = q
      BY <1>10, <2>2, <3>2
    <3>4. D[m][q + 1] = Entsoe!Value(n, k, t)
      BY <1>12, <1>30, <3>2, <3>3
    <3>5. d.points # <<>>
      <4>1. i \in DOMAIN d.points
        BY <1>13
      <4>2. DOMAIN <<>> = {}
        OBVIOUS
      <4> QED
        BY <4>1, <4>2
    <3> QED
      BY <2>3, <2>5, <3>4, <3>5
  <2> QED
    BY <2>4, <2>5
<1>33. ASSUME d.points # <<>> PROVE \E t \in X : t \notin ts.holes
  <2>1. c # 0
    <3> SUFFICES ASSUME c = 0 PROVE d.points = <<>>
      BY <1>33
    <3>1. 1..c = {}
      OBVIOUS
    <3> QED
      BY <1>9, <3>1
  <2>2. 1 \in 1..c
    BY <1>13, <2>1
  <2> QED
    BY <1>15, <2>2
<1> QED
  BY <1>1, <1>9, <1>31, <1>32, <1>33 DEF Answered

-----------------------------------------------------------------------------
(* ENTSO-E: what the columns of a document hold                            *)

\* The multiples of a number.
LEMMA MultipleIs ==
  ASSUME NEW a \in Int, NEW r \in Nat \ {0}
  PROVE  a % r = 0 <=> \E q \in Int : a = r * q
<1>1. r \in Int /\ r > 0
  OBVIOUS
<1>2. PICK q \in Int : q = a \div r
  BY <1>1
<1>3. PICK c \in Int : c = r * q
  BY <1>1
<1>0. PICK R \in 0..(r - 1) : R = a % r
  BY <1>1
<1>4. a = c + R
  BY <1>0, <1>1, <1>2, <1>3
<1>5. ASSUME a % r = 0 PROVE \E x \in Int : a = r * x
  <2>1. a = r * q
    BY <1>0, <1>3, <1>4, <1>5
  <2> QED
    BY <2>1
<1>6. ASSUME NEW x \in Int, a = r * x PROVE a % r = 0
  <2>1. a = r * x + 0 /\ 0 \in 0..(r - 1)
    BY <1>1, <1>6
  <2> QED
    BY <2>1, DivUnique
<1> QED
  BY <1>5, <1>6

LEMMA MultiplesAdd ==
  ASSUME NEW a \in Int, NEW b \in Int, NEW r \in Nat \ {0}, a % r = 0
  PROVE  (b - a) % r = 0 <=> b % r = 0
<1>1. PICK p \in Int : a = r * p
  BY MultipleIs
<1>2. ASSUME b % r = 0 PROVE (b - a) % r = 0
  <2>1. PICK q \in Int : b = r * q
    BY <1>2, MultipleIs
  <2>2. q - p \in Int /\ b - a = r * (q - p)
    BY <1>1, <2>1
  <2>3. b - a \in Int
    OBVIOUS
  <2> QED
    BY <2>2, <2>3, MultipleIs
<1>3. ASSUME (b - a) % r = 0 PROVE b % r = 0
  <2>1. PICK d \in Int : d = b - a
    OBVIOUS
  <2>2. PICK q \in Int : d = r * q
    BY <1>3, <2>1, MultipleIs
  <2>3. q + p \in Int /\ b = r * (q + p)
    BY <1>1, <2>1, <2>2
  <2> QED
    BY <2>3, MultipleIs
<1> QED
  BY <1>2, <1>3

\* The time an hour begins is one a resolution begins.
LEMMA HoursAlign ==
  ASSUME NEW a \in Int, NEW h \in Nat \ {0}, NEW r \in Nat \ {0}, h % r = 0
  PROVE  (-(((-a) \div h) * h)) % r = 0
<1>1. PICK q \in Int : q = (-a) \div h
  OBVIOUS
<1>2. PICK p \in Int : h = r * p
  BY MultipleIs
<1>3. PICK b \in Int : b = -(q * h)
  OBVIOUS
<1>4. PICK x \in Int : x = -(q * p)
  BY <1>1, <1>2
<1>5. b = r * x
  BY <1>2, <1>3, <1>4
<1>6. b % r = 0
  BY <1>5, MultipleIs
<1> QED
  BY <1>1, <1>3, <1>6

LEMMA EntsoeMaxOfTwo ==
  ASSUME NEW a \in Int, NEW b \in Int
  PROVE  LET m == Entsoe!Max({a, b}) IN m \in {a, b} /\ a <= m /\ b <= m
<1>1. \E x \in {a, b} : \A y \in {a, b} : x >= y
  OBVIOUS
<1>2. PICK m : m = Entsoe!Max({a, b})
  OBVIOUS
<1>3. m \in {a, b} /\ \A y \in {a, b} : m >= y
  BY <1>1, <1>2, Zenon DEF Entsoe!Max
<1> QED
  BY <1>2, <1>3

LEMMA EntsoeMinOfTwo ==
  ASSUME NEW a \in Int, NEW b \in Int
  PROVE  LET m == Entsoe!Min({a, b}) IN m \in {a, b} /\ m <= a /\ m <= b
<1>1. \E x \in {a, b} : \A y \in {a, b} : x <= y
  OBVIOUS
<1>2. PICK m : m = Entsoe!Min({a, b})
  OBVIOUS
<1>3. m \in {a, b} /\ \A y \in {a, b} : m <= y
  BY <1>1, <1>2, Zenon DEF Entsoe!Min
<1> QED
  BY <1>2, <1>3

\* The least element of a set of natural numbers.
LEMMA EntsoeMin ==
  ASSUME NEW S \in SUBSET Nat, S # {}
  PROVE  Entsoe!Min(S) \in S /\ \A y \in S : Entsoe!Min(S) <= y
<1>1. \E x \in S : \A y \in S : x <= y
  BY HasLeast
<1> QED
  BY <1>1, Zenon DEF Entsoe!Min

\* The period that is asked for: whole hours.
Period(p) ==
  /\ p.periodStart \in Int /\ p.periodEnd \in Int
  /\ \A r \in Nat \ {0} : EntsoeHour % r = 0 => p.periodStart % r = 0

LEMMA PeriodAsked ==
  ASSUME NEW w, w.from \in Int, w.to \in Int
  PROVE  Period(Entsoe!create_params(w))
<1>1. EntsoeHour \in Nat \ {0}
  BY RequestsAssumption DEF RequestsAssumption, Entsoe!EntsoeAssumption
<1>2. PICK from \in Int : from = w.from
  OBVIOUS
<1>3. PICK to \in Int : to = w.to
  OBVIOUS
<1>4. PICK p : p = Entsoe!create_params(w)
  OBVIOUS
<1>5. PICK s : s = -(((-from) \div EntsoeHour) * EntsoeHour)
  OBVIOUS
<1>6. PICK e : e = -(((-to) \div EntsoeHour) * EntsoeHour)
  OBVIOUS
<1>7. s \in Int /\ e \in Int
  BY <1>1, <1>5, <1>6, RoundedNumbers
<1>8. p.periodStart = s /\ p.periodEnd = IF e < to THEN e + EntsoeHour ELSE e
  BY <1>2, <1>3, <1>4, <1>5, <1>6
  DEF Entsoe!create_params, Entsoe!round_timestamp, Entsoe!Ceil, Entsoe!Floor
<1>9. \A r \in Nat \ {0} : EntsoeHour % r = 0 => s % r = 0
  BY <1>1, <1>5, HoursAlign
<1>10. p.periodEnd \in Int
  BY <1>1, <1>7, <1>8
<1> QED
  BY <1>4, <1>7, <1>8, <1>9, <1>10 DEF Period

\* The platform holds series whose times are whole hours apart, or parts of one.
HeldSeries(series) ==
  /\ Len(series) \in Nat /\ DOMAIN series = 1..Len(series)
  /\ \A k \in DOMAIN series :
       /\ series[k].resolution \in Nat \ {0} /\ EntsoeHour % series[k].resolution = 0
       /\ series[k].start \in Nat /\ series[k].start % series[k].resolution = 0
       /\ series[k].end \in Int

LEMMA ServiceHolds ==
  ASSUME service \in [Nodes -> Held], NEW n \in Nodes
  PROVE  HeldSeries(service[n].series)
<1>1. PICK h \in Held : h = service[n]
  OBVIOUS
<1>2. HeldSeries(h.series)
  BY RequestsAssumption DEF RequestsAssumption, Entsoe!EntsoeAssumption, HeldSeries
<1> QED
  BY <1>1, <1>2

\* The times of a series in the period that is asked for.
Span(ts, p) ==
  {u \in Int : /\ ts.start <= u /\ u < ts.end /\ p.periodStart <= u /\ u < p.periodEnd
               /\ u % ts.resolution = 0}

\* What the answer shows of a series.
Shown(d, n, k, ts, p) ==
  /\ d.column = ts.column /\ d.resolution = ts.resolution
  /\ DOMAIN Entsoe!SeriesOf(d) = Span(ts, p)
  /\ \A t \in Span(ts, p) :
       /\ t \in ts.holes => Entsoe!SeriesOf(d)[t] = NaN
       /\ t \notin ts.holes => /\ Entsoe!SeriesOf(d)[t] = Entsoe!Value(n, k, t)
                               /\ d.points # <<>>
  /\ d.points # <<>> => \E t \in Span(ts, p) : t \notin ts.holes

LEMMA SeriesShown ==
  ASSUME NEW n, NEW series, HeldSeries(series), NEW k \in DOMAIN series, NEW p, Period(p)
  PROVE  Shown(Entsoe!TimeSeriesOf(n, k, series[k], p), n, k, series[k], p)
<1>1. PICK ts : ts = series[k]
  OBVIOUS
<1>2. PICK r \in Nat \ {0} : r = ts.resolution
  BY <1>1 DEF HeldSeries
<1>3. PICK a \in Nat : a = ts.start
  BY <1>1 DEF HeldSeries
<1>4. PICK b \in Int : b = p.periodStart
  BY DEF Period
<1>5. PICK e \in Int : e = ts.end
  BY <1>1 DEF HeldSeries
<1>6. PICK f \in Int : f = p.periodEnd
  BY DEF Period
<1>7. PICK start : start = Entsoe!Max({a, b})
  OBVIOUS
<1>8. start \in {a, b} /\ a <= start /\ b <= start
  <2>1. a \in Int
    OBVIOUS
  <2> QED
    BY <1>7, <2>1, EntsoeMaxOfTwo
<1>9. PICK end : end = Entsoe!Min({e, f})
  OBVIOUS
<1>10. end \in {e, f} /\ end <= e /\ end <= f
  BY <1>9, EntsoeMinOfTwo
<1>11. start \in Int /\ end \in Int
  BY <1>8, <1>10
<1>12. start % r = 0
  <2>1. a % r = 0 /\ EntsoeHour % r = 0
    BY <1>1, <1>2, <1>3 DEF HeldSeries
  <2>2. b % r = 0
    BY <1>4, <2>1 DEF Period
  <2> QED
    BY <1>8, <2>1, <2>2
<1>13. TimesOf(start, end, r) = Span(ts, p)
  <2>1. \A u \in Int : (u - start) % r = 0 <=> u % r = 0
    BY <1>11, <1>12, MultiplesAdd
  <2>2. \A u \in Int : u \in start..(end - 1) <=> a <= u /\ u < e /\ b <= u /\ u < f
    BY <1>8, <1>10, <1>11
  <2>3. \A u : u \in TimesOf(start, end, r)
                 <=> u \in Int /\ u \in start..(end - 1) /\ (u - start) % r = 0
    BY <1>11 DEF TimesOf
  <2>4. \A u : u \in Span(ts, p)
                 <=> u \in Int /\ a <= u /\ u < e /\ b <= u /\ u < f /\ u % r = 0
    BY <1>2, <1>3, <1>4, <1>5, <1>6, Zenon DEF Span
  <2>5. \A u : u \in TimesOf(start, end, r) <=> u \in Span(ts, p)
    BY <2>1, <2>2, <2>3, <2>4, Zenon
  <2> QED
    BY <2>5
<1>14. PICK d : d = Entsoe!TimeSeriesOf(n, k, ts, p)
  OBVIOUS
<1>15. start = Entsoe!Max({ts.start, p.periodStart}) /\ end = Entsoe!Min({ts.end, p.periodEnd})
  BY <1>3, <1>4, <1>5, <1>6, <1>7, <1>9, Zenon
<1>16. Answered(d, n, k, ts, start, end)
  BY <1>2, <1>11, <1>14, <1>15, SeriesAnswered
<1>17. Shown(d, n, k, ts, p)
  BY <1>2, <1>13, <1>16, Zenon DEF Answered, Shown
<1> QED
  BY <1>1, <1>14, <1>17, Zenon

\* What the document shows of the platform.
DocumentShows(doc, n, series, p) ==
  /\ DOMAIN doc \subseteq DOMAIN series
  /\ \A k \in DOMAIN doc : Shown(doc[k], n, k, series[k], p)
  /\ \A k \in DOMAIN series :
       (\E u \in Span(series[k], p) : u \notin series[k].holes) <=> k \in DOMAIN doc

LEMMA ResponseShows ==
  ASSUME service \in [Nodes -> Held], NEW n \in Nodes, NEW p, Period(p)
  PROVE  DocumentShows(Entsoe!Response(n, p), n, service[n].series, p)
<1>1. PICK series : series = service[n].series
  OBVIOUS
<1>2. HeldSeries(series)
  BY <1>1, ServiceHolds
<1>3. PICK doc : doc = Entsoe!Response(n, p)
  OBVIOUS
<1>4. PICK all : all = [k \in DOMAIN series |-> Entsoe!TimeSeriesOf(n, k, series[k], p)]
  OBVIOUS
<1>5. doc = [k \in {j \in DOMAIN all : all[j].points # <<>>} |-> all[k]]
  BY <1>1, <1>3, <1>4, Zenon DEF Entsoe!Response, Entsoe!Restrict
<1>6. \A k \in DOMAIN series : Shown(all[k], n, k, series[k], p)
  <2> SUFFICES ASSUME NEW k \in DOMAIN series PROVE Shown(all[k], n, k, series[k], p)
    OBVIOUS
  <2>1. all[k] = Entsoe!TimeSeriesOf(n, k, series[k], p)
    BY <1>4
  <2>2. Shown(Entsoe!TimeSeriesOf(n, k, series[k], p), n, k, series[k], p)
    BY <1>2, SeriesShown
  <2> QED
    BY <2>1, <2>2, Zenon
<1>7. DOMAIN all = DOMAIN series
  BY <1>4
<1>8. \A k \in DOMAIN doc : k \in DOMAIN series /\ doc[k] = all[k]
  BY <1>5, <1>7
<1>9. \A k \in DOMAIN series : all[k].points # <<>> <=> k \in DOMAIN doc
  BY <1>5, <1>7
<1>10. \A k \in DOMAIN series :
         (\E u \in Span(series[k], p) : u \notin series[k].holes) <=> k \in DOMAIN doc
  BY <1>6, <1>9, Zenon DEF Shown
<1>11. \A k \in DOMAIN doc : Shown(doc[k], n, k, series[k], p)
  BY <1>6, <1>8, Zenon
<1>12. DOMAIN doc \subseteq DOMAIN series
  BY <1>8, Zenon
<1>13. DocumentShows(doc, n, series, p)
  BY <1>10, <1>11, <1>12, Zenon DEF DocumentShows
<1> QED
  BY <1>1, <1>3, <1>13, Zenon

\* What is published for a time, told by its series.
Publishes(series, k, u, c, r) ==
  /\ k \in DOMAIN series /\ u \in Int
  /\ series[k].column = c /\ series[k].resolution = r
  /\ series[k].start <= u /\ u < series[k].end /\ u % r = 0 /\ u \notin series[k].holes

LEMMA EndsHaveMax ==
  ASSUME NEW series, HeldSeries(series), NEW k \in DOMAIN series
  PROVE  /\ Entsoe!Max({ts.end : ts \in Entsoe!Range(series)}) \in Int
         /\ series[k].end <= Entsoe!Max({ts.end : ts \in Entsoe!Range(series)})
<1>1. PICK L \in Nat : L = Len(series) /\ DOMAIN series = 1..L
  BY DEF HeldSeries
<1>2. PICK E : E = {ts.end : ts \in Entsoe!Range(series)}
  OBVIOUS
<1>3. E = {series[j].end : j \in 1..L}
  BY <1>1, <1>2 DEF Entsoe!Range
<1>4. E \in SUBSET Int /\ series[k].end \in E
  BY <1>1, <1>3 DEF HeldSeries
<1> DEFINE f == [j \in 1..L |-> series[j].end]
<1>5. f \in Surjection(1..L, E)
  BY <1>3 DEF Surjection
<1>6. IsFiniteSet(1..L)
  <2>1. 1 \in Int /\ L \in Int
    OBVIOUS
  <2> QED
    BY <2>1, FS_Interval
<1> HIDE DEF f
<1>7. IsFiniteSet(E)
  BY <1>5, <1>6, FS_Surjection
<1>8. Entsoe!Max(E) \in E /\ \A y \in E : Entsoe!Max(E) >= y
  <2>1. E # {}
    BY <1>4
  <2> QED
    BY <1>4, <1>7, <2>1, EntsoeMax
<1>9. PICK m \in E : m = Entsoe!Max(E) /\ \A y \in E : m >= y
  BY <1>8
<1>10. m \in Int /\ series[k].end \in Int /\ m >= series[k].end
  BY <1>4, <1>9
<1> QED
  BY <1>2, <1>9, <1>10

LEMMA PublishedIs ==
  ASSUME NEW n, HeldSeries(service[n].series), NEW k, NEW u, NEW c, NEW r
  PROVE  <<k, u>> \in Entsoe!Published(n, <<c, r>>) <=> Publishes(service[n].series, k, u, c, r)
<1>1. PICK series : series = service[n].series
  OBVIOUS
<1>2. PICK m : m = Entsoe!Max({ts.end : ts \in Entsoe!Range(series)})
  OBVIOUS
<1>3. <<c, r>>[1] = c /\ <<c, r>>[2] = r /\ <<k, u>>[1] = k /\ <<k, u>>[2] = u
  OBVIOUS
<1>4. PICK x : x = <<k, u>>
  OBVIOUS
<1>5. x[1] = k /\ x[2] = u
  BY <1>4
<1>6. x \in Entsoe!Published(n, <<c, r>>)
        <=> /\ x \in (DOMAIN series) \X (0..m)
            /\ series[k].column = c /\ series[k].resolution = r
            /\ series[k].start <= u /\ u < series[k].end
            /\ u % series[k].resolution = 0 /\ u \notin series[k].holes
  BY <1>1, <1>2, <1>3, <1>5, Zenon DEF Entsoe!Published
<1>7. x \in (DOMAIN series) \X (0..m) <=> k \in DOMAIN series /\ u \in 0..m
  BY <1>4
<1>8. ASSUME k \in DOMAIN series
      PROVE  m \in Int /\ series[k].end <= m /\ series[k].start \in Nat /\ series[k].end \in Int
  <2>1. m \in Int /\ series[k].end <= m
    BY <1>1, <1>2, <1>8, EndsHaveMax
  <2> QED
    BY <1>1, <1>8, <2>1 DEF HeldSeries
<1>9. ASSUME k \in DOMAIN series, u \in 0..m PROVE u \in Int
  BY <1>8, <1>9
<1>10. ASSUME k \in DOMAIN series, u \in Int, series[k].start <= u, u < series[k].end
       PROVE  u \in 0..m
  BY <1>8, <1>10
<1> QED
  BY <1>1, <1>4, <1>6, <1>7, <1>9, <1>10, Zenon DEF Publishes

\* What a column shows: only what was published, and all of it in the period.
ColumnShows(col, n, series, c, r, p) ==
  /\ DOMAIN col \subseteq {u \in Int : p.periodStart <= u /\ u < p.periodEnd}
  /\ \A t \in DOMAIN col :
       col[t] # NaN => \E k : Publishes(series, k, t, c, r) /\ col[t] = Entsoe!Value(n, k, t)
  /\ \A k, u : Publishes(series, k, u, c, r) /\ p.periodStart <= u /\ u < p.periodEnd
                 => u \in DOMAIN col /\ col[u] # NaN

LEMMA ColumnIsShown ==
  ASSUME Entsoe!NothingHidden, service \in [Nodes -> Held], NEW n \in Nodes,
         NEW series, series = service[n].series, NEW p, Period(p), NEW doc, NEW c, NEW r,
         DocumentShows(doc, n, series, p)
  PROVE  ColumnShows(Entsoe!ColumnOf(doc, c, r), n, series, c, r, p)
<1>1. HeldSeries(series)
  BY ServiceHolds
<1>2. PICK col : col = Entsoe!ColumnOf(doc, c, r)
  OBVIOUS
<1>3. PICK parts : parts = {k \in DOMAIN doc : doc[k].column = c /\ doc[k].resolution = r}
  OBVIOUS
<1> DEFINE span(k) == Span(series[k], p)
<1>4. \A k \in parts : /\ k \in DOMAIN series /\ Shown(doc[k], n, k, series[k], p)
                       /\ series[k].column = c /\ series[k].resolution = r
  BY <1>3 DEF DocumentShows, Shown
<1>5. \A k \in parts : DOMAIN Entsoe!SeriesOf(doc[k]) = span(k)
  BY <1>4, Zenon DEF Shown
<1> DEFINE with(t) == {j \in parts : t \in DOMAIN Entsoe!SeriesOf(doc[j])}
<1> DEFINE times == UNION {DOMAIN Entsoe!SeriesOf(doc[k]) : k \in parts}
<1>6. col = [t \in times |-> Entsoe!SeriesOf(doc[Entsoe!Min(with(t))])[t]]
  BY <1>2, <1>3, Zenon DEF Entsoe!ColumnOf
<1> HIDE DEF times, with
<1>7. \A t : t \in times <=> \E k \in parts : t \in span(k)
  BY <1>5 DEF times
<1>8. \A t, k : k \in with(t) <=> k \in parts /\ t \in span(k)
  BY <1>5 DEF with
<1>9. ASSUME NEW t \in times
      PROVE  \E k \in parts : /\ t \in span(k) /\ col[t] = Entsoe!SeriesOf(doc[k])[t]
                              /\ \A j \in parts : t \in span(j) => k <= j
  <2>1. PICK X : X = with(t)
    OBVIOUS
  <2>2. X \in SUBSET Nat
    <3>1. \A k \in X : k \in DOMAIN series
      BY <1>4, <1>8, <2>1
    <3> QED
      BY <1>1, <3>1 DEF HeldSeries
  <2>3. X # {}
    BY <1>7, <1>8, <2>1
  <2>4. PICK k \in X : k = Entsoe!Min(X) /\ \A j \in X : k <= j
    BY <2>2, <2>3, EntsoeMin
  <2>5. col[t] = Entsoe!SeriesOf(doc[k])[t]
    BY <1>6, <2>1, <2>4, Zenon
  <2> QED
    BY <1>8, <2>1, <2>4, <2>5, Zenon
<1>10. DOMAIN col = times
  BY <1>6, Zenon
<1>11. DOMAIN col \subseteq {u \in Int : p.periodStart <= u /\ u < p.periodEnd}
  BY <1>7, <1>10 DEF Span
<1>12. ASSUME NEW t \in DOMAIN col, col[t] # NaN
       PROVE  \E k : Publishes(series, k, t, c, r) /\ col[t] = Entsoe!Value(n, k, t)
  <2>1. PICK k \in parts : t \in span(k) /\ col[t] = Entsoe!SeriesOf(doc[k])[t]
    BY <1>9, <1>10, Zenon
  <2>2. Shown(doc[k], n, k, series[k], p)
    BY <1>4
  <2>3. t \notin series[k].holes
    BY <1>12, <2>1, <2>2, Zenon DEF Shown
  <2>4. col[t] = Entsoe!Value(n, k, t)
    BY <2>1, <2>2, <2>3, Zenon DEF Shown
  <2>5. Publishes(series, k, t, c, r)
    BY <1>4, <2>1, <2>3, Zenon DEF Publishes, Span
  <2> QED
    BY <2>4, <2>5, Zenon
<1>13. ASSUME NEW k, NEW u, Publishes(series, k, u, c, r), p.periodStart <= u, u < p.periodEnd
       PROVE  u \in DOMAIN col /\ col[u] # NaN
  <2>1. k \in DOMAIN series /\ u \in span(k) /\ u \notin series[k].holes
    BY <1>13, Zenon DEF Publishes, Span
  <2>2. k \in DOMAIN doc
    BY <2>1, Zenon DEF DocumentShows
  <2>3. k \in parts
    <3>1. doc[k].column = c /\ doc[k].resolution = r
      BY <1>13, <2>2, Zenon DEF DocumentShows, Shown, Publishes
    <3> QED
      BY <1>3, <2>2, <3>1, Zenon
  <2>4. u \in times
    BY <1>7, <2>1, <2>3, Zenon
  <2>5. PICK j \in parts : /\ u \in span(j) /\ col[u] = Entsoe!SeriesOf(doc[j])[u]
                           /\ j <= k
    BY <1>9, <2>1, <2>3, <2>4, Zenon
  <2>6. u \notin series[j].holes
    <3>1. SUFFICES ASSUME u \in series[j].holes PROVE FALSE
      OBVIOUS
    <3>2. j \in DOMAIN series /\ j \in Int /\ k \in Int
      BY <1>1, <1>4, <2>1 DEF HeldSeries
    <3>3. j < k
      <4>1. j # k
        BY <2>1, <3>1
      <4> QED
        BY <2>5, <3>2, <4>1
    <3>4. series[j].column = series[k].column /\ series[j].resolution = series[k].resolution
      BY <1>4, <2>3
    <3>5. /\ series[j].start <= u /\ u < series[j].end
          /\ series[k].start <= u /\ u < series[k].end
      BY <2>1, <2>5, Zenon DEF Span
    <3>6. PICK h \in Held : h.series = series
      BY Zenon
    <3>7. u \in series[k].holes
      BY <2>1, <3>1, <3>2, <3>3, <3>4, <3>5, <3>6, Zenon DEF Entsoe!NothingHidden
    <3> QED
      BY <2>1, <3>7
  <2>7. col[u] = Entsoe!Value(n, j, u)
    BY <1>4, <2>5, <2>6, Zenon DEF Shown
  <2>8. Entsoe!Value(n, j, u) # NaN
    <3>1. j \in Nat /\ u \in Int
      BY <1>1, <1>4, <2>5 DEF HeldSeries, Span
    <3>2. NaN \notin [node : Nodes, of : Nat, at : Int]
      BY RequestsAssumption DEF RequestsAssumption, Entsoe!EntsoeAssumption
    <3> QED
      BY <3>1, <3>2 DEF Entsoe!Value
  <2> QED
    BY <1>10, <2>4, <2>7, <2>8, Zenon
<1>14. ColumnShows(col, n, series, c, r, p)
  <2> HIDE DEF span
  <2> QED
    BY <1>11, <1>12, <1>13, Zenon DEF ColumnShows
<1> QED
  BY <1>2, <1>14, Zenon

-----------------------------------------------------------------------------
(* ENTSO-E: from the columns of a document to the table of a node          *)

\* What resampling makes of a column: its rows on the grid, and between them the last one.
ResampledTo(f, g, i) ==
  /\ \A t \in DOMAIN f : t \in Int /\ t % i = 0 /\ \E z \in DOMAIN g : t <= z
  /\ \A t \in DOMAIN f : f[t] # NaN =>
       \E x \in DOMAIN g : /\ x <= t /\ f[t] = g[x]
                           /\ \A y \in DOMAIN g : y <= t => y <= x
  /\ \A u \in DOMAIN g : u % i = 0 => u \in DOMAIN f /\ f[u] = g[u]

LEMMA ResampledRows ==
  ASSUME NEW g, DOMAIN g \in SUBSET Int, IsFiniteSet(DOMAIN g), NEW i \in Nat \ {0}
  PROVE  ResampledTo(Entsoe!df_resample(g, i), g, i)
<1>1. PICK f : f = Entsoe!df_resample(g, i)
  OBVIOUS
<1>2. PICK rows \in SUBSET Int : rows = DOMAIN g
  OBVIOUS
<1>3. CASE rows = {}
  <2>1. f = g
    BY <1>1, <1>2, <1>3, Zenon DEF Entsoe!df_resample
  <2>2. DOMAIN f = {} /\ DOMAIN g = {}
    BY <1>2, <1>3, <2>1
  <2> QED
    BY <1>1, <2>2 DEF ResampledTo
<1>4. CASE rows # {}
  <2>1. HasEnds(rows)
    BY <1>2, <1>4, FiniteHasEnds
  <2>2. PICK a \in rows : a = Entsoe!Min(rows) /\ \A y \in rows : a <= y
    <3>1. \E x \in rows : \A y \in rows : x <= y
      BY <2>1 DEF HasEnds
    <3> QED
      BY <3>1, Zenon DEF Entsoe!Min
  <2>3. PICK b \in rows : b = Entsoe!Max(rows) /\ \A y \in rows : b >= y
    <3>1. \E x \in rows : \A y \in rows : x >= y
      BY <2>1 DEF HasEnds
    <3> QED
      BY <3>1, Zenon DEF Entsoe!Max
  <2>4. a \in Int /\ b \in Int
    OBVIOUS
  <2>5. PICK start : start = (a \div i) * i
    OBVIOUS
  <2>6. start \in Int /\ start <= a
    BY <2>4, <2>5, RoundedNumbers
  <2> DEFINE before(t) == {u \in rows : u <= t}
  <2>7. f = [t \in {x \in start..b : x % i = 0} |->
               IF before(t) = {} THEN NaN ELSE g[Entsoe!Max(before(t))]]
    BY <1>1, <1>2, <1>4, <2>2, <2>3, <2>5, Zenon
    DEF Entsoe!df_resample, Entsoe!Grid, Entsoe!Floor
  <2>8. DOMAIN f = {x \in start..b : x % i = 0}
    BY <2>7
  <2>9. ASSUME NEW t \in DOMAIN f, before(t) # {}
        PROVE  \E x \in rows : /\ x <= t /\ x = Entsoe!Max(before(t)) /\ f[t] = g[x]
                               /\ \A y \in rows : y <= t => y <= x
    <3>1. PICK X : X = before(t)
      OBVIOUS
    <3>2. X \in SUBSET Int /\ X # {}
      BY <2>9, <3>1
    <3>3. IsFiniteSet(X)
      BY <1>2, <3>1, FS_Subset
    <3>4. PICK x \in X : x = Entsoe!Max(X) /\ \A y \in X : x >= y
      BY <3>2, <3>3, EntsoeMax
    <3>5. f[t] = g[x]
      BY <2>7, <2>8, <2>9, <3>1, <3>4, Zenon
    <3>6. x \in rows /\ x <= t
      BY <3>1, <3>4
    <3>7. \A y \in rows : y <= t => y <= x
      BY <3>1, <3>4
    <3> QED
      BY <3>1, <3>4, <3>5, <3>6, <3>7, Zenon
  <2>10. \A t \in DOMAIN f : t \in Int /\ t % i = 0 /\ \E z \in rows : t <= z
    BY <2>6, <2>8
  <2>11. ASSUME NEW t \in DOMAIN f, f[t] # NaN
         PROVE  \E x \in rows : /\ x <= t /\ f[t] = g[x]
                                /\ \A y \in rows : y <= t => y <= x
    <3>1. before(t) # {}
      BY <2>7, <2>8, <2>11, Zenon
    <3> HIDE DEF before
    <3> QED
      BY <2>9, <3>1, Zenon
  <2>12. ASSUME NEW u \in rows, u % i = 0 PROVE u \in DOMAIN f /\ f[u] = g[u]
    <3>1. u \in DOMAIN f
      <4>1. u \in Int /\ a <= u /\ u <= b
        BY <2>2, <2>3
      <4> QED
        BY <2>4, <2>6, <2>8, <2>12, <4>1
    <3>2. u \in Int /\ before(u) # {}
      <4>1. u \in Int /\ u <= u
        OBVIOUS
      <4> QED
        BY <4>1
    <3>3. PICK x \in rows : x <= u /\ f[u] = g[x] /\ \A y \in rows : y <= u => y <= x
      BY <2>9, <3>1, <3>2, Zenon
    <3>4. x = u
      <4>1. x \in Int /\ u <= x
        BY <3>2, <3>3
      <4> QED
        BY <3>2, <3>3, <4>1
    <3> QED
      BY <3>1, <3>3, <3>4
  <2> QED
    BY <1>1, <1>2, <2>10, <2>11, <2>12, Zenon DEF ResampledTo
<1> QED
  BY <1>3, <1>4

\* What a column of the table of one resolution makes of the column of the document.
FrameShows(s, col, w, p) ==
  /\ \A t \in DOMAIN s : /\ t \in Int /\ w.from <= t /\ t <= w.to
                         /\ t % w.interval = 0 /\ t < p.periodEnd
  /\ \A t \in DOMAIN s : s[t] # NaN =>
       \E x \in DOMAIN col : /\ x <= t /\ s[t] = col[x]
                             /\ \A y \in DOMAIN col : y <= t => y <= x
  /\ \A u \in DOMAIN col :
       u % w.interval = 0 /\ w.from <= u /\ u <= w.to /\ col[u] # NaN
         => u \in DOMAIN s /\ s[u] # NaN

\* The columns of a document.
Keys(doc) == {<<ts.column, ts.resolution>> : ts \in Entsoe!Range(doc)}

LEMMA FrameIsShown ==
  ASSUME NEW doc, NEW w, w.from \in Int, w.to \in Int, w.interval \in Nat \ {0},
         NEW p, Period(p), NEW c, NEW r, <<c, r>> \in Keys(doc),
         \A x : DOMAIN Entsoe!ColumnOf(doc, x, r)
                  \subseteq {u \in Int : p.periodStart <= u /\ u < p.periodEnd}
  PROVE  FrameShows(Entsoe!FrameOf(doc, r, w)[c], Entsoe!ColumnOf(doc, c, r), w, p)
<1>1. PICK col : col = Entsoe!ColumnOf(doc, c, r)
  OBVIOUS
<1>2. PICK named : named = {ts.column : ts \in {x \in Entsoe!Range(doc) : x.resolution = r}}
  OBVIOUS
<1>3. c \in named
  <2>1. PICK ts \in Entsoe!Range(doc) : <<c, r>> = <<ts.column, ts.resolution>>
    BY DEF Keys
  <2>2. ts.column = c /\ ts.resolution = r
    BY <2>1
  <2> QED
    BY <1>2, <2>2
<1>4. PICK cols : cols = [x \in named |-> Entsoe!ColumnOf(doc, x, r)]
  OBVIOUS
<1>5. PICK rows : rows = UNION {DOMAIN cols[x] : x \in named}
  OBVIOUS
<1>6. PICK g : g = [t \in rows |-> IF t \in DOMAIN col THEN col[t] ELSE NaN]
  OBVIOUS
<1>7. Entsoe!Concat(cols)[c] = g
  <2>1. DOMAIN cols = named /\ cols[c] = col
    BY <1>1, <1>3, <1>4
  <2> QED
    BY <1>3, <1>5, <1>6, <2>1, Zenon DEF Entsoe!Concat
<1>8. PICK f : f = Entsoe!df_resample(g, w.interval)
  OBVIOUS
<1>9. PICK s : s = Entsoe!FrameOf(doc, r, w)[c]
  OBVIOUS
<1>10. s = [t \in {x \in DOMAIN f : w.from <= x /\ x <= w.to} |-> f[t]]
  BY <1>2, <1>3, <1>4, <1>7, <1>8, <1>9, Zenon
  DEF Entsoe!FrameOf, Entsoe!df_time_slice, Entsoe!Restrict
<1>11. \A t \in rows : t \in Int /\ p.periodStart <= t /\ t < p.periodEnd
  BY <1>4, <1>5
<1>12. p.periodStart \in Int /\ p.periodEnd \in Int
  BY DEF Period
<1>13. rows \in SUBSET Int /\ IsFiniteSet(rows)
  <2>1. rows \in SUBSET (p.periodStart..p.periodEnd)
    BY <1>11, <1>12
  <2>2. IsFiniteSet(p.periodStart..p.periodEnd)
    BY <1>12, FS_Interval
  <2>3. IsFiniteSet(rows)
    BY <2>1, <2>2, FS_Subset
  <2> QED
    BY <1>11, <2>3
<1>14. DOMAIN col \subseteq rows
  BY <1>1, <1>3, <1>4, <1>5
<1>15. DOMAIN g = rows
  BY <1>6
<1>16. ResampledTo(f, g, w.interval)
  BY <1>8, <1>13, <1>15, ResampledRows
<1>17. DOMAIN s = {x \in DOMAIN f : w.from <= x /\ x <= w.to} /\ \A t \in DOMAIN s : s[t] = f[t]
  BY <1>10
<1>18. \A t \in DOMAIN s : /\ t \in Int /\ w.from <= t /\ t <= w.to
                           /\ t % w.interval = 0 /\ t < p.periodEnd
  <2> SUFFICES ASSUME NEW t \in DOMAIN s
      PROVE  /\ t \in Int /\ w.from <= t /\ t <= w.to
             /\ t % w.interval = 0 /\ t < p.periodEnd
    OBVIOUS
  <2>1. t \in DOMAIN f /\ w.from <= t /\ t <= w.to
    BY <1>17
  <2>2. PICK z \in rows : t \in Int /\ t % w.interval = 0 /\ t <= z
    BY <1>15, <1>16, <2>1, Zenon DEF ResampledTo
  <2>3. t < p.periodEnd
    BY <1>11, <1>12, <2>2
  <2> QED
    BY <2>1, <2>2, <2>3
<1>19. ASSUME NEW t \in DOMAIN s, s[t] # NaN
       PROVE  \E x \in DOMAIN col : /\ x <= t /\ s[t] = col[x]
                                    /\ \A y \in DOMAIN col : y <= t => y <= x
  <2>1. t \in DOMAIN f /\ f[t] = s[t]
    BY <1>17
  <2>2. PICK x \in rows : x <= t /\ f[t] = g[x] /\ \A y \in rows : y <= t => y <= x
    BY <1>15, <1>16, <1>19, <2>1, Zenon DEF ResampledTo
  <2>3. x \in DOMAIN col /\ g[x] = col[x]
    BY <1>6, <1>19, <2>1, <2>2
  <2> QED
    BY <1>14, <2>1, <2>2, <2>3
<1>20. ASSUME NEW u \in DOMAIN col, u % w.interval = 0, w.from <= u, u <= w.to, col[u] # NaN
       PROVE  u \in DOMAIN s /\ s[u] # NaN
  <2>1. u \in rows /\ g[u] = col[u]
    BY <1>6, <1>14
  <2>2. u \in DOMAIN f /\ f[u] = g[u]
    BY <1>15, <1>16, <1>20, <2>1, Zenon DEF ResampledTo
  <2> QED
    BY <1>17, <1>20, <2>1, <2>2
<1>21. FrameShows(s, col, w, p)
  BY <1>18, <1>19, <1>20, Zenon DEF FrameShows
<1> QED
  BY <1>1, <1>9, <1>21, Zenon

\* What a column of the table of a node says: what was published for it, and no row up to
\* it has a newer value.
ReadColumn(s, n, series, c, r, w) ==
  \A t \in DOMAIN s : s[t] # NaN =>
    \E k, x : /\ Publishes(series, k, x, c, r) /\ s[t] = Entsoe!Value(n, k, x) /\ x <= t
              /\ \A j, u : Publishes(series, j, u, c, r) /\ x < u /\ u <= t
                             => u % w.interval # 0

LEMMA NodeIsRead ==
  ASSUME Entsoe!NothingHidden, service \in [Nodes -> Held], NEW n \in Nodes,
         NEW series, series = service[n].series,
         NEW w, w.from \in Int, w.to \in Int, w.interval \in Nat \ {0},
         NEW doc, doc = Entsoe!Response(n, Entsoe!create_params(w)),
         NEW c, NEW r, <<c, r>> \in Keys(doc)
  PROVE  ReadColumn(Entsoe!FrameOfNode(doc, w)[<<c, r>>], n, series, c, r, w)
<1>1. PICK p : p = Entsoe!create_params(w)
  OBVIOUS
<1>2. Period(p)
  BY <1>1, PeriodAsked
<1>3. DocumentShows(doc, n, series, p)
  BY <1>1, <1>2, ResponseShows
<1>4. \A x, y : ColumnShows(Entsoe!ColumnOf(doc, x, y), n, series, x, y, p)
  BY <1>2, <1>3, ColumnIsShown
<1> DEFINE column(key) == Entsoe!ColumnOf(doc, key[1], key[2])
<1> DEFINE frame(key) == Entsoe!FrameOf(doc, key[2], w)[key[1]]
<1>5. ASSUME NEW x, NEW y, <<x, y>> \in Keys(doc)
      PROVE  FrameShows(Entsoe!FrameOf(doc, y, w)[x], Entsoe!ColumnOf(doc, x, y), w, p)
  <2>1. \A z : DOMAIN Entsoe!ColumnOf(doc, z, y)
                 \subseteq {u \in Int : p.periodStart <= u /\ u < p.periodEnd}
    BY <1>4, Zenon DEF ColumnShows
  <2> QED
    BY <1>2, <1>5, <2>1, FrameIsShown
<1>6. PICK keys : keys = Keys(doc)
  OBVIOUS
<1>7. PICK cols : cols = [key \in keys |-> Entsoe!FrameOf(doc, key[2], w)[key[1]]]
  OBVIOUS
<1>8. \A key \in keys : \A t \in DOMAIN cols[key] :
         t \in Int /\ w.from <= t /\ t <= w.to /\ t < p.periodEnd
  <2> SUFFICES ASSUME NEW key \in keys
      PROVE  \A t \in DOMAIN cols[key] : t \in Int /\ w.from <= t /\ t <= w.to /\ t < p.periodEnd
    OBVIOUS
  <2>1. PICK ts \in Entsoe!Range(doc) : key = <<ts.column, ts.resolution>>
    BY <1>6 DEF Keys
  <2>2. PICK x, y : x = ts.column /\ y = ts.resolution
    OBVIOUS
  <2>3. key = <<x, y>> /\ key[1] = x /\ key[2] = y
    BY <2>1, <2>2
  <2>4. cols[key] = Entsoe!FrameOf(doc, y, w)[x]
    BY <1>7, <2>3
  <2>5. FrameShows(Entsoe!FrameOf(doc, y, w)[x], Entsoe!ColumnOf(doc, x, y), w, p)
    BY <1>5, <1>6, <2>3
  <2> QED
    BY <2>4, <2>5, Zenon DEF FrameShows
<1>9. PICK rows : rows = UNION {DOMAIN cols[x] : x \in keys}
  OBVIOUS
<1>10. PICK key : key = <<c, r>>
  OBVIOUS
<1>11. key \in keys /\ key[1] = c /\ key[2] = r
  BY <1>6, <1>10
<1>12. PICK s : s = cols[key]
  OBVIOUS
<1>13. PICK joined : joined = [t \in rows |-> IF t \in DOMAIN s THEN s[t] ELSE NaN]
  OBVIOUS
<1>14. Entsoe!Concat(cols)[key] = joined
  <2>1. DOMAIN cols = keys
    BY <1>7
  <2> QED
    BY <1>9, <1>11, <1>12, <1>13, <2>1, Zenon DEF Entsoe!Concat
<1>15. PICK a : a = Entsoe!FrameOfNode(doc, w)[key]
  OBVIOUS
<1>16. a = Entsoe!ffill(joined)
  <2>1. keys = {<<ts.column, ts.resolution>> : ts \in Entsoe!Range(doc)}
    BY <1>6, Zenon DEF Keys
  <2>2. Entsoe!FrameOfNode(doc, w) = [x \in keys |-> Entsoe!ffill(Entsoe!Concat(cols)[x])]
    BY <1>7, <2>1, Zenon DEF Entsoe!FrameOfNode
  <2> QED
    BY <1>11, <1>14, <1>15, <2>2, Zenon
<1> DEFINE before(t) == {u \in Entsoe!Filled(joined) : u <= t}
<1>17. a = [t \in rows |-> IF before(t) = {} THEN NaN ELSE joined[Entsoe!Max(before(t))]]
  <2>1. DOMAIN joined = rows
    BY <1>13
  <2> QED
    BY <1>16, <2>1, Zenon DEF Entsoe!ffill
<1>18. Entsoe!Filled(joined) = {t \in DOMAIN s : s[t] # NaN}
  <2>1. DOMAIN s \subseteq rows
    BY <1>9, <1>11, <1>12
  <2>2. \A t : t \in Entsoe!Filled(joined) <=> t \in rows /\ joined[t] # NaN
    BY <1>13, Zenon DEF Entsoe!Filled
  <2>3. \A t \in rows : joined[t] # NaN <=> t \in DOMAIN s /\ s[t] # NaN
    BY <1>13, Zenon
  <2> QED
    BY <2>1, <2>2, <2>3, Zenon
<1>19. \A t \in rows : t \in Int /\ w.from <= t /\ t <= w.to /\ t < p.periodEnd
  BY <1>8, <1>9, Zenon
<1>20. PICK col : col = Entsoe!ColumnOf(doc, c, r)
  OBVIOUS
<1>21. FrameShows(s, col, w, p)
  BY <1>5, <1>6, <1>7, <1>10, <1>11, <1>12, <1>20, Zenon
<1>22. ColumnShows(col, n, series, c, r, p)
  BY <1>4, <1>20, Zenon
<1>23. ASSUME NEW t \in DOMAIN a, a[t] # NaN
       PROVE  \E k, x : /\ Publishes(series, k, x, c, r) /\ a[t] = Entsoe!Value(n, k, x)
                        /\ x <= t
                        /\ \A j, u : Publishes(series, j, u, c, r) /\ x < u /\ u <= t
                                       => u % w.interval # 0
  <2>1. t \in rows /\ before(t) # {}
    BY <1>17, <1>23, Zenon
  <2>2. PICK X : X = before(t)
    OBVIOUS
  <2>3. X \in SUBSET Int /\ IsFiniteSet(X)
    <3>1. X \in SUBSET (w.from..w.to)
      BY <1>18, <1>21, <2>2 DEF FrameShows
    <3>2. IsFiniteSet(w.from..w.to)
      BY FS_Interval
    <3>3. IsFiniteSet(X)
      BY <3>1, <3>2, FS_Subset
    <3> QED
      BY <3>1, <3>3
  <2>4. PICK v \in X : v = Entsoe!Max(X) /\ \A y \in X : v >= y
    BY <2>1, <2>2, <2>3, EntsoeMax
  <2>5. v \in DOMAIN s /\ s[v] # NaN /\ v <= t /\ v \in Int
    BY <1>18, <2>2, <2>3
  <2>6. a[t] = s[v]
    <3>1. a[t] = joined[v]
      BY <1>17, <2>1, <2>2, <2>4, Zenon
    <3>2. v \in rows
      BY <1>9, <1>11, <1>12, <2>5
    <3> QED
      BY <1>13, <2>5, <3>1, <3>2
  <2>7. PICK x \in DOMAIN col : x <= v /\ s[v] = col[x] /\ \A y \in DOMAIN col : y <= v => y <= x
    BY <1>21, <2>5, Zenon DEF FrameShows
  <2>8. PICK k : Publishes(series, k, x, c, r) /\ col[x] = Entsoe!Value(n, k, x)
    BY <1>22, <2>5, <2>7, Zenon DEF ColumnShows
  <2>9. x \in Int /\ p.periodStart <= x
    BY <1>22, <2>7 DEF ColumnShows
  <2>10. t \in Int /\ w.from <= v /\ t <= w.to /\ t < p.periodEnd
    BY <1>19, <1>21, <2>1, <2>5, Zenon DEF FrameShows
  <2>11. x <= t
    BY <2>5, <2>7, <2>9, <2>10
  <2>12. ASSUME NEW j, NEW u, Publishes(series, j, u, c, r), x < u, u <= t,
                u % w.interval = 0
         PROVE  FALSE
    <3>1. u \in Int
      BY <2>12 DEF Publishes
    <3>2. p.periodStart <= u /\ u < p.periodEnd
      BY <1>2, <2>9, <2>10, <2>12, <3>1 DEF Period
    <3>3. u \in DOMAIN col /\ col[u] # NaN
      BY <1>22, <2>12, <3>2, Zenon DEF ColumnShows
    <3>4. ~ (u <= v)
      <4>1. u <= v => u <= x
        BY <2>7, <3>3
      <4> QED
        BY <2>9, <2>12, <3>1, <4>1
    <3>5. w.from <= u /\ u <= w.to
      BY <2>5, <2>10, <2>12, <3>1, <3>4
    <3>6. u \in DOMAIN s /\ s[u] # NaN
      BY <1>21, <2>12, <3>3, <3>5, Zenon DEF FrameShows
    <3>7. u \in X
      BY <1>18, <2>2, <2>12, <3>6
    <3> QED
      BY <2>4, <2>5, <3>1, <3>4, <3>7
  <2> QED
    BY <2>6, <2>7, <2>8, <2>11, <2>12, Zenon
<1>24. ReadColumn(a, n, series, c, r, w)
  BY <1>23, Zenon DEF ReadColumn
<1> QED
  BY <1>10, <1>15, <1>24, Zenon

-----------------------------------------------------------------------------
(* ENTSO-E: the answer of a call                                           *)

EntsoeReads ==
  /\ stage \in {"idle", "reading", "answered", "raised"}
  /\ service \in [Nodes -> Held]
  /\ stage = "idle" => DOMAIN frames = {}
  /\ stage # "idle" =>
       call.from \in Int /\ call.to \in Int /\ call.interval \in Nat \ {0}
  /\ \A n \in DOMAIN frames : n \in Nodes /\ frames[n] = Entsoe!read_node(n, call)
  /\ stage = "answered" => DOMAIN frames = Nodes /\ answer = JoinedTable
  /\ stage = "raised" => \E n \in Nodes : Entsoe!Raises(n, call)

EntsoeReadsInv == connection = "entsoe" => EntsoeReads

\* Every step of a call keeps the frames what the threads read for it.
LEMMA EntsoeReadsStep ==
  ASSUME EntsoeReads, Entsoe!EntsoeNext
  PROVE  EntsoeReads'
<1>1. CASE Entsoe!read_series
  <2>1. PICK w \in EntsoeWindows :
          call' = Entsoe!_preprocess_series_context(w.from, w.to, w.interval)
    BY <1>1 DEF Entsoe!read_series
  <2>2. w.from \in Int /\ w.to \in Int /\ w.interval \in Nat \ {0}
    BY RequestsAssumption DEF RequestsAssumption, Entsoe!EntsoeAssumption
  <2>3. -w.to \in Int
    BY <2>2
  <2>4. call'.from \in Int /\ call'.to \in Int /\ call'.interval \in Nat \ {0}
    BY <2>1, <2>2, RoundedNumbers
    DEF Entsoe!_preprocess_series_context, Entsoe!round_timestamp, Entsoe!Floor,
        Entsoe!Ceil
  <2>5. stage = "idle" /\ stage' = "reading" /\ UNCHANGED <<service, frames, answer>>
    BY <1>1 DEF Entsoe!read_series
  <2> QED
    BY <2>4, <2>5 DEF EntsoeReads
<1>2. ASSUME NEW n \in Nodes, Entsoe!Thread(n)
      PROVE  EntsoeReads'
  <2>1. /\ stage = "reading" /\ stage' = stage /\ call' = call
        /\ service' = service /\ answer' = answer
        /\ frames' = [m \in DOMAIN frames \cup {n} |->
                        IF m = n THEN Entsoe!read_node(n, call) ELSE frames[m]]
    BY <1>2 DEF Entsoe!Thread
  <2>2. \A m : Entsoe!read_node(m, call)' = Entsoe!read_node(m, call)
    BY <2>1, Zenon DEF Entsoe!read_node, Entsoe!Response
  <2>3. \A m \in DOMAIN frames' : m \in Nodes /\ frames'[m] = Entsoe!read_node(m, call)
    BY <2>1 DEF EntsoeReads
  <2>4. \A m \in DOMAIN frames' : m \in Nodes /\ frames'[m] = Entsoe!read_node(m, call)'
    BY <2>2, <2>3, Zenon
  <2>5. stage' = "reading" /\ call'.from \in Int /\ call'.to \in Int
        /\ call'.interval \in Nat \ {0} /\ service' \in [Nodes -> Held]
    BY <2>1 DEF EntsoeReads
  <2> QED
    BY <2>4, <2>5 DEF EntsoeReads
<1>3. CASE Entsoe!concat
  <2>1. /\ call' = call /\ frames' = frames /\ service' = service
        /\ stage' = "answered" /\ DOMAIN frames = Nodes
    BY <1>3 DEF Entsoe!concat
  <2>2. stage = "reading" /\ answer' = JoinedTable
    BY <1>3 DEF Entsoe!concat, JoinedTable, JoinedColumns, JoinedNodes
  <2>3. JoinedTable' = JoinedTable
    BY <2>1 DEF JoinedTable, JoinedColumns, JoinedNodes
  <2>4. \A m : Entsoe!read_node(m, call)' = Entsoe!read_node(m, call)
    BY <2>1, Zenon DEF Entsoe!read_node, Entsoe!Response
  <2>5. \A m \in DOMAIN frames' : m \in Nodes /\ frames'[m] = Entsoe!read_node(m, call)'
    BY <2>1, <2>4, Zenon DEF EntsoeReads
  <2>6. call'.from \in Int /\ call'.to \in Int
        /\ call'.interval \in Nat \ {0} /\ service' \in [Nodes -> Held]
    BY <2>1, <2>2 DEF EntsoeReads
  <2> QED
    BY <2>1, <2>2, <2>3, <2>5, <2>6 DEF EntsoeReads
<1>4. CASE Entsoe!raise
  <2>1. /\ call' = call /\ frames' = frames /\ service' = service
        /\ stage = "reading" /\ stage' = "raised" /\ \E n \in Nodes : Entsoe!Raises(n, call)
    BY <1>4 DEF Entsoe!raise
  <2>2. \A m : /\ Entsoe!read_node(m, call)' = Entsoe!read_node(m, call)
              /\ Entsoe!Raises(m, call)' = Entsoe!Raises(m, call)
    BY <2>1, Zenon DEF Entsoe!read_node, Entsoe!Raises, Entsoe!Response
  <2>3. \A m \in DOMAIN frames' : m \in Nodes /\ frames'[m] = Entsoe!read_node(m, call)'
    BY <2>1, <2>2, Zenon DEF EntsoeReads
  <2>4. \E n \in Nodes : Entsoe!Raises(n, call)'
    BY <2>1, <2>2, Zenon
  <2>5. call'.from \in Int /\ call'.to \in Int
        /\ call'.interval \in Nat \ {0} /\ service' \in [Nodes -> Held]
    BY <2>1 DEF EntsoeReads
  <2> QED
    BY <2>1, <2>3, <2>4, <2>5 DEF EntsoeReads
<1> QED
  BY <1>1, <1>2, <1>3, <1>4 DEF Entsoe!EntsoeNext

\* What a row says of a node is what was published for it, in that column, and none of the
\* rows up to it has a newer value.
LEMMA AnswerShowsPublished ==
  ASSUME Entsoe!NothingHidden, EntsoeReads
  PROVE  Entsoe!AnswerIsPublished
<1> SUFFICES ASSUME stage = "answered", NEW c \in DOMAIN answer, NEW t \in DOMAIN answer[c],
                    NEW v, v = answer[c][t], v # NaN
    PROVE  /\ v.node = c[1] /\ <<v.of, v.at>> \in Entsoe!Published(c[1], c[2])
           /\ v.at <= t
           /\ \A u \in {x[2] : x \in Entsoe!Published(c[1], c[2])} :
                v.at < u /\ u <= t => u % call.interval # 0
  BY Zenon DEF Entsoe!AnswerIsPublished
<1>1. c \in JoinedColumns
  BY DEF EntsoeReads, JoinedTable, Entsoe!Concat
<1>2. PICK n, key : n = c[1] /\ key = c[2]
  OBVIOUS
<1>3. n \in Nodes /\ key \in DOMAIN frames[n] /\ frames[n] # Entsoe!None
  BY <1>1, <1>2 DEF JoinedColumns, JoinedNodes
<1>4. PICK doc : doc = Entsoe!Response(n, Entsoe!create_params(call))
  OBVIOUS
<1>5. frames[n] = Entsoe!FrameOfNode(doc, call)
  <2>1. frames[n] = Entsoe!read_node(n, call)
    BY <1>3 DEF EntsoeReads
  <2> QED
    BY <1>3, <1>4, <2>1, Zenon DEF Entsoe!read_node
<1>6. key \in Keys(doc)
  BY <1>3, <1>5, Zenon DEF Entsoe!FrameOfNode, Keys
<1>7. PICK ts : key = <<ts.column, ts.resolution>>
  BY <1>6 DEF Keys
<1>8. PICK x, r : x = ts.column /\ r = ts.resolution
  OBVIOUS
<1>9. key = <<x, r>>
  BY <1>7, <1>8
<1>10. PICK s : s = frames[n][key]
  OBVIOUS
<1>11. PICK series : series = service[n].series
  OBVIOUS
<1>12. ReadColumn(s, n, series, x, r, call)
  <2>1. /\ service \in [Nodes -> Held]
        /\ call.from \in Int /\ call.to \in Int /\ call.interval \in Nat \ {0}
    BY DEF EntsoeReads
  <2>2. <<x, r>> \in Keys(doc)
    BY <1>6, <1>9
  <2>3. ReadColumn(Entsoe!FrameOfNode(doc, call)[<<x, r>>], n, series, x, r, call)
    BY <1>3, <1>4, <1>11, <2>1, <2>2, NodeIsRead
  <2> QED
    BY <1>5, <1>9, <1>10, <2>3, Zenon
<1>13. t \in DOMAIN s /\ v = s[t]
  <2> DEFINE cols == [d \in JoinedColumns |-> frames[d[1]][d[2]]]
  <2>1. answer = Entsoe!Concat(cols)
    BY Zenon DEF EntsoeReads, JoinedTable
  <2>2. DOMAIN cols = JoinedColumns /\ cols[c] = s
    BY <1>1, <1>2, <1>10
  <2> HIDE DEF cols
  <2>3. PICK rows : answer[c] = [u \in rows |-> IF u \in DOMAIN s THEN s[u] ELSE NaN]
    BY <1>1, <2>1, <2>2, Zenon DEF Entsoe!Concat
  <2> QED
    BY <2>3
<1>14. PICK k, y : /\ Publishes(series, k, y, x, r) /\ v = Entsoe!Value(n, k, y) /\ y <= t
                   /\ \A j, u : Publishes(series, j, u, x, r) /\ y < u /\ u <= t
                                  => u % call.interval # 0
  BY <1>12, <1>13, Zenon DEF ReadColumn
<1>15. v.node = n /\ v.of = k /\ v.at = y
  BY <1>14 DEF Entsoe!Value
<1>16. HeldSeries(service[n].series)
  BY <1>3, ServiceHolds DEF EntsoeReads
<1>17. \A j, u : <<j, u>> \in Entsoe!Published(n, <<x, r>>) <=> Publishes(series, j, u, x, r)
  BY <1>11, <1>16, PublishedIs
<1>18. ASSUME NEW z \in Entsoe!Published(n, key)
       PROVE  z = <<z[1], z[2]>>
  BY <1>18 DEF Entsoe!Published
<1>19. ASSUME NEW z \in Entsoe!Published(n, key), y < z[2], z[2] <= t
       PROVE  z[2] % call.interval # 0
  <2>1. PICK j, u : j = z[1] /\ u = z[2]
    OBVIOUS
  <2>2. z = <<j, u>>
    BY <1>18, <2>1
  <2>3. Publishes(series, j, u, x, r)
    BY <1>9, <1>17, <2>2
  <2> QED
    BY <1>14, <1>19, <2>1, <2>3, Zenon
<1>20. <<k, y>> \in Entsoe!Published(n, key)
  BY <1>9, <1>14, <1>17
<1> QED
  BY <1>2, <1>14, <1>15, <1>19, <1>20, Zenon

\* Every step keeps them, also that of another connection.
LEMMA EntsoeReadsStay ==
  ASSUME EntsoeReadsInv, [Next]_vars
  PROVE  EntsoeReadsInv'
<1> SUFFICES ASSUME connection' = "entsoe"
    PROVE  EntsoeReads'
  BY DEF EntsoeReadsInv
<1>1. connection = "entsoe" /\ (Entsoe!EntsoeNext \/ UNCHANGED request)
  BY DEF Next, vars, request
<1>2. EntsoeReads
  BY <1>1 DEF EntsoeReadsInv
<1>3. CASE UNCHANGED request
  <2>1. /\ stage' = stage /\ call' = call /\ service' = service /\ frames' = frames
        /\ answer' = answer
    BY <1>3 DEF request
  <2>2. \A m : /\ Entsoe!read_node(m, call)' = Entsoe!read_node(m, call)
              /\ Entsoe!Raises(m, call)' = Entsoe!Raises(m, call)
    BY <2>1, Zenon DEF Entsoe!read_node, Entsoe!Raises, Entsoe!Response
  <2>3. JoinedTable' = JoinedTable
    BY <2>1 DEF JoinedTable, JoinedColumns, JoinedNodes
  <2>4. \A m \in DOMAIN frames' : m \in Nodes /\ frames'[m] = Entsoe!read_node(m, call)'
    BY <1>2, <2>1, <2>2, Zenon DEF EntsoeReads
  <2>5. stage' = "raised" => \E n \in Nodes : Entsoe!Raises(n, call)'
    <3>1. stage = "raised" => \E n \in Nodes : Entsoe!Raises(n, call)
      BY <1>2, Zenon DEF EntsoeReads
    <3> QED
      BY <2>1, <2>2, <3>1, Zenon
  <2> QED
    BY <1>2, <2>1, <2>3, <2>4, <2>5 DEF EntsoeReads
<1> QED
  BY <1>1, <1>2, <1>3, EntsoeReadsStep

\* What a call answers is what was published, and the newest of it, as long as the series
\* of a column do not hide one another.
THEOREM EntsoeAnswerIsPublished ==
  ASSUME Entsoe!NothingHidden
  PROVE  Spec => []AnswerIsPublished
<1>1. ASSUME Init PROVE EntsoeReadsInv
  BY <1>1 DEF Init, EntsoeReadsInv, EntsoeReads, Entsoe!EntsoeInit
<1>2. ASSUME EntsoeReadsInv, [Next]_vars PROVE EntsoeReadsInv'
  BY <1>2, EntsoeReadsStay
<1>3. EntsoeReadsInv => AnswerIsPublished
  BY AnswerShowsPublished DEF EntsoeReadsInv, AnswerIsPublished
<1> QED
  BY <1>1, <1>2, <1>3, PTL DEF Spec

\* A document without series is the empty one.
LEMMA ResponseIsEmpty ==
  ASSUME NEW n, NEW p
  PROVE  Entsoe!Response(n, p) = <<>> <=> DOMAIN Entsoe!Response(n, p) = {}
<1>1. PICK all : all = [k \in DOMAIN service[n].series |->
                         Entsoe!TimeSeriesOf(n, k, service[n].series[k], p)]
  OBVIOUS
<1>2. PICK S : S = {k \in DOMAIN all : all[k].points # <<>>}
  OBVIOUS
<1>3. Entsoe!Response(n, p) = [k \in S |-> all[k]]
  BY <1>1, <1>2, Zenon DEF Entsoe!Response, Entsoe!Restrict
<1> QED
  BY <1>3

\* There is data of a node if the platform answers with some.
LEMMA DataIsAnswered ==
  ASSUME EntsoeReads, stage # "idle", NEW n \in Nodes
  PROVE  Entsoe!HasData(n) <=> Entsoe!Response(n, Entsoe!create_params(call)) # <<>>
<1>1. PICK p : p = Entsoe!create_params(call)
  OBVIOUS
<1>2. Period(p)
  BY <1>1, PeriodAsked DEF EntsoeReads
<1>3. PICK series : series = service[n].series
  OBVIOUS
<1>4. PICK doc : doc = Entsoe!Response(n, p)
  OBVIOUS
<1>5. DocumentShows(doc, n, series, p) /\ HeldSeries(series)
  BY <1>2, <1>3, <1>4, ResponseShows, ServiceHolds DEF EntsoeReads
<1>6. doc # <<>> <=> \E k \in DOMAIN series : k \in DOMAIN doc
  <2>1. doc = <<>> <=> DOMAIN doc = {}
    BY <1>4, ResponseIsEmpty
  <2> QED
    BY <1>5, <2>1 DEF DocumentShows
<1>7. \A k \in DOMAIN series :
        k \in DOMAIN doc <=> \E u \in Span(series[k], p) : u \notin series[k].holes
  BY <1>5, Zenon DEF DocumentShows
<1>8. \A k \in DOMAIN series :
        (\E u \in Span(series[k], p) : u \notin series[k].holes)
          <=> \E u \in p.periodStart..p.periodEnd - 1 :
                /\ series[k].start <= u /\ u < series[k].end
                /\ u % series[k].resolution = 0 /\ u \notin series[k].holes
  <2>1. \A u : u \in p.periodStart..p.periodEnd - 1
                 <=> u \in Int /\ p.periodStart <= u /\ u < p.periodEnd
    BY <1>2 DEF Period
  <2> QED
    BY <2>1, Zenon DEF Span
<1>9. Entsoe!HasData(n) <=>
        \E k \in DOMAIN series : \E u \in p.periodStart..p.periodEnd - 1 :
          /\ series[k].start <= u /\ u < series[k].end
          /\ u % series[k].resolution = 0 /\ u \notin series[k].holes
  <2>1. Entsoe!Range(series) = {series[k] : k \in DOMAIN series}
    BY DEF Entsoe!Range
  <2>2. Entsoe!HasData(n) <=>
          \E ts \in Entsoe!Range(series) : \E u \in p.periodStart..p.periodEnd - 1 :
            /\ ts.start <= u /\ u < ts.end
            /\ u % ts.resolution = 0 /\ u \notin ts.holes
    BY <1>1, <1>3, Zenon DEF Entsoe!HasData
  <2> QED
    BY <2>1, <2>2
<1> QED
  BY <1>1, <1>4, <1>6, <1>7, <1>8, <1>9, Zenon

\* A document that cannot be made a table has series that overlap.
LEMMA ClashOverlaps ==
  ASSUME EntsoeReads, stage # "idle", NEW n \in Nodes,
         Entsoe!Clashes(Entsoe!Response(n, Entsoe!create_params(call)))
  PROVE  Entsoe!Overlaps(n)
<1>1. PICK p : p = Entsoe!create_params(call)
  OBVIOUS
<1>2. Period(p)
  BY <1>1, PeriodAsked DEF EntsoeReads
<1>3. PICK series : series = service[n].series
  OBVIOUS
<1>4. PICK doc : doc = Entsoe!Response(n, p)
  OBVIOUS
<1>5. DocumentShows(doc, n, series, p) /\ HeldSeries(series)
  BY <1>2, <1>3, <1>4, ResponseShows, ServiceHolds DEF EntsoeReads
<1>6. PICK k \in DOMAIN doc, l \in DOMAIN doc :
        /\ doc[k].resolution = doc[l].resolution
        /\ Entsoe!IndexOf(doc, k) # Entsoe!IndexOf(doc, l)
        /\ \E i, j \in Entsoe!Parts(doc, k) :
             i # j /\ DOMAIN Entsoe!SeriesOf(doc[i]) \cap DOMAIN Entsoe!SeriesOf(doc[j]) # {}
  BY <1>1, <1>4, Zenon DEF Entsoe!Clashes
<1>7. PICK i \in Entsoe!Parts(doc, k), j \in Entsoe!Parts(doc, k) :
        i # j /\ DOMAIN Entsoe!SeriesOf(doc[i]) \cap DOMAIN Entsoe!SeriesOf(doc[j]) # {}
  BY <1>6
<1>8. doc[k].column # doc[l].column
  <2>1. ASSUME doc[k].column = doc[l].column
        PROVE  Entsoe!Parts(doc, k) = Entsoe!Parts(doc, l)
    BY <1>6, <2>1, Zenon DEF Entsoe!Parts
  <2> QED
    BY <1>6, <2>1, Zenon DEF Entsoe!IndexOf
<1>9. /\ i \in DOMAIN doc /\ doc[i].column = doc[k].column
      /\ doc[i].resolution = doc[k].resolution
      /\ j \in DOMAIN doc /\ doc[j].column = doc[k].column
      /\ doc[j].resolution = doc[k].resolution
  BY Zenon DEF Entsoe!Parts
<1>10. \A m \in DOMAIN doc : /\ m \in DOMAIN series
                             /\ doc[m].column = series[m].column
                             /\ doc[m].resolution = series[m].resolution
                             /\ DOMAIN Entsoe!SeriesOf(doc[m]) = Span(series[m], p)
  BY <1>5, Zenon DEF DocumentShows, Shown
<1>11. PICK t : t \in Span(series[i], p) /\ t \in Span(series[j], p)
  BY <1>7, <1>9, <1>10
<1>12. /\ t \in series[i].start..series[i].end - 1
       /\ series[j].start <= t /\ t < series[j].end /\ t % series[i].resolution = 0
  <2>1. /\ t \in Int /\ series[i].start <= t /\ t < series[i].end
        /\ t % series[i].resolution = 0 /\ series[j].start <= t /\ t < series[j].end
    BY <1>11 DEF Span
  <2>2. series[i].start \in Int /\ series[i].end \in Int
    BY <1>5, <1>9, <1>10 DEF HeldSeries
  <2> QED
    BY <2>1, <2>2
<1>13. /\ i \in DOMAIN series /\ j \in DOMAIN series /\ l \in DOMAIN series /\ i # j
       /\ series[i].column = series[j].column /\ series[i].column # series[l].column
       /\ series[i].resolution = series[j].resolution
       /\ series[i].resolution = series[l].resolution
  BY <1>6, <1>7, <1>8, <1>9, <1>10
<1> QED
  BY <1>3, <1>12, <1>13, Zenon DEF Entsoe!Overlaps

\* A call is answered with what there is of each node, and raises only for two reasons.
LEMMA NodesAnswered ==
  ASSUME EntsoeTables, EntsoeReads
  PROVE  Entsoe!NodesAreRead
<1>1. ASSUME stage = "answered", NEW n \in Nodes
      PROVE  (\E c \in DOMAIN answer : c[1] = n)
               <=> service[n].works /\ Entsoe!HasData(n)
  <2>1. PICK doc : doc = Entsoe!Response(n, Entsoe!create_params(call))
    OBVIOUS
  <2>2. frames[n] = IF ~service[n].works \/ doc = Entsoe!None
                    THEN Entsoe!None ELSE Entsoe!FrameOfNode(doc, call)
    <3>1. frames[n] = Entsoe!read_node(n, call)
      BY <1>1 DEF EntsoeReads
    <3> QED
      BY <2>1, <3>1, Zenon DEF Entsoe!read_node, Entsoe!None
  <2>3. doc # Entsoe!None => Entsoe!FrameOfNode(doc, call) # Entsoe!None
    <3> SUFFICES ASSUME doc # Entsoe!None PROVE Entsoe!FrameOfNode(doc, call) # Entsoe!None
      OBVIOUS
    <3>1. doc = <<>> <=> DOMAIN doc = {}
      BY <2>1, ResponseIsEmpty
    <3>2. PICK k : k \in DOMAIN doc
      BY <3>1 DEF Entsoe!None
    <3>3. <<doc[k].column, doc[k].resolution>> \in Keys(doc)
      BY <3>2 DEF Keys, Entsoe!Range
    <3>4. DOMAIN Entsoe!FrameOfNode(doc, call) = Keys(doc)
      BY DEF Entsoe!FrameOfNode, Keys
    <3> QED
      BY <3>3, <3>4 DEF Entsoe!None
  <2>4. Entsoe!HasData(n) <=> doc # Entsoe!None
    BY <1>1, <2>1, DataIsAnswered DEF Entsoe!None
  <2> QED
    BY <1>1, <2>2, <2>3, <2>4, JoinedNodesHaveColumns
<1>2. ASSUME stage = "raised"
      PROVE  \E n \in Nodes : ~service[n].known \/ Entsoe!Overlaps(n)
  <2>1. PICK n \in Nodes : Entsoe!Raises(n, call)
    BY <1>2 DEF EntsoeReads
  <2> QED
    BY <1>2, <2>1, ClashOverlaps DEF Entsoe!Raises
<1> QED
  BY <1>1, <1>2, Zenon DEF Entsoe!NodesAreRead

EntsoeInv == connection = "entsoe" => EntsoeTables

\* A request that fails does not cost another node its columns, which only a node that is
\* not known, or has series that overlap, can; and a gap is bridged: between two rows with
\* a value none of the rows of its node is without.
THEOREM EntsoeNodesAreRead == Spec => []NodesAreRead
<1>1. ASSUME Init PROVE EntsoeInv /\ EntsoeReadsInv
  BY <1>1
  DEF Init, EntsoeInv, EntsoeTables, EntsoeReadsInv, EntsoeReads, Entsoe!EntsoeInit
<1>2. ASSUME EntsoeInv, [Next]_vars PROVE EntsoeInv'
  <2> SUFFICES ASSUME connection' = "entsoe"
      PROVE  EntsoeTables'
    BY DEF EntsoeInv
  <2>1. connection = "entsoe" /\ (Entsoe!EntsoeNext \/ UNCHANGED request)
    BY <1>2 DEF Next, vars, request
  <2>2. EntsoeTables
    BY <1>2, <2>1 DEF EntsoeInv
  <2>3. CASE UNCHANGED request
    BY <2>2, <2>3 DEF request, EntsoeTables, JoinedTable, JoinedColumns, JoinedNodes
  <2> QED
    BY <2>1, <2>2, <2>3, EntsoeStep
<1>3. ASSUME EntsoeReadsInv, [Next]_vars PROVE EntsoeReadsInv'
  BY <1>3, EntsoeReadsStay
<1>4. EntsoeInv /\ EntsoeReadsInv => NodesAreRead
  BY NodesAnswered, JoinedGapsAreFilled DEF EntsoeInv, EntsoeReadsInv, NodesAreRead
<1> QED
  BY <1>1, <1>2, <1>3, <1>4, PTL DEF Spec

-----------------------------------------------------------------------------
(* forecast.solar: sums over finite sets, in which the order does not matter *)

\* What is added up over a set, a member it chooses first: the recursion behind a fold.
SumBody(g, f, S) ==
  [X \in SUBSET S |-> IF X = {} THEN 0
                      ELSE f[CHOOSE x \in X : TRUE] + g[X \ {CHOOSE x \in X : TRUE}]]

\* There are such sums over the subsets of a finite set.
LEMMA SumsExist ==
  ASSUME NEW S, IsFiniteSet(S), NEW f
  PROVE  \E g : g = SumBody(g, f, S)
<1> DEFINE Small(m) == {X \in SUBSET S : Cardinality(X) <= m}
<1> DEFINE one(X) == CHOOSE x \in X : TRUE
<1> DEFINE Body(g, m) == [X \in Small(m) |-> IF X = {} THEN 0 ELSE f[one(X)] + g[X \ {one(X)}]]
<1> DEFINE Fails(m) == ~ \E g : g = Body(g, m)
<1> DEFINE T == {m \in Nat : Fails(m)}
<1>1. ASSUME NEW X \in SUBSET S, X # {}
      PROVE  /\ X \ {one(X)} \in SUBSET S /\ Cardinality(X) \in Nat
             /\ Cardinality(X \ {one(X)}) = Cardinality(X) - 1
  <2>1. one(X) \in X
    BY <1>1
  <2>2. IsFiniteSet(X)
    BY FS_Subset
  <2> HIDE DEF one
  <2> QED
    BY <2>1, <2>2, FS_RemoveElement, FS_CardinalityType
<1>2. {} \in SUBSET S /\ Cardinality({}) = 0
  BY FS_EmptySet
<1>3. T = {}
  <2>1. SUFFICES ASSUME T # {} PROVE FALSE
    OBVIOUS
  <2>2. PICK m \in T : \A q \in T : m <= q
    <3>1. T \in SUBSET Nat
      OBVIOUS
    <3> HIDE DEF T
    <3> QED
      BY <2>1, <3>1, HasLeast
  <2>3. m \in Nat /\ Fails(m)
    OBVIOUS
  <2>4. CASE m = 0
    <3> DEFINE g == [X \in Small(m) |-> 0]
    <3>1. ASSUME NEW X \in Small(m) PROVE X = {}
      <4>1. SUFFICES ASSUME X # {} PROVE FALSE
        OBVIOUS
      <4>2. X \in SUBSET S /\ Cardinality(X) <= 0
        BY <2>4
      <4>3. IsFiniteSet(X \ {one(X)})
        BY <4>2, FS_Subset
      <4>4. Cardinality(X \ {one(X)}) \in Nat
        BY <4>3, FS_CardinalityType
      <4> HIDE DEF one
      <4> QED
        BY <4>1, <4>2, <4>4, <1>1
    <3> HIDE DEF Small, one
    <3>2. g = Body(g, m)
      BY <3>1, Zenon
    <3> QED
      BY <2>3, <3>2
  <2>5. CASE m # 0
    <3>1. PICK q \in Nat : m = q + 1
      <4>1. m - 1 \in Nat /\ m = (m - 1) + 1
        BY <2>3, <2>5
      <4> QED
        BY <4>1
    <3>2. ~ (m <= q)
      BY <3>1
    <3>3. ~ Fails(q)
      BY <2>2, <3>2
    <3>4. PICK g : g = Body(g, q)
      BY <3>3
    <3> DEFINE h == [X \in Small(m) |-> IF X = {} THEN 0 ELSE f[one(X)] + g[X \ {one(X)}]]
    <3>5. ASSUME NEW X \in Small(m), X # {}
          PROVE  X \ {one(X)} \in Small(q) /\ X \ {one(X)} \in Small(m)
      <4>1. X \in SUBSET S /\ Cardinality(X) <= m
        OBVIOUS
      <4> HIDE DEF one
      <4> QED
        BY <4>1, <3>1, <3>5, <1>1
    <3>6. \A Y \in Small(q) : g[Y] = IF Y = {} THEN 0 ELSE f[one(Y)] + g[Y \ {one(Y)}]
      <4> HIDE DEF Small, one
      <4> QED
        BY <3>4, Zenon
    <3>7. ASSUME NEW X \in Small(m), X # {}
          PROVE  h[X \ {one(X)}] = g[X \ {one(X)}]
      <4> PICK Y : Y = X \ {one(X)}
        OBVIOUS
      <4> HIDE DEF Small, one
      <4>1. Y \in Small(q) /\ Y \in Small(m)
        BY <3>5, <3>7
      <4>2. h[Y] = IF Y = {} THEN 0 ELSE f[one(Y)] + g[Y \ {one(Y)}]
        BY <4>1, Zenon
      <4> QED
        BY <4>1, <4>2, <3>6, Zenon
    <3>8. h = Body(h, m)
      <4> HIDE DEF Small, one
      <4>1. \A X \in Small(m) : X # {} => h[X] = f[one(X)] + h[X \ {one(X)}]
        BY <3>7, Zenon
      <4>2. \A X \in Small(m) : X = {} => h[X] = 0
        BY Zenon
      <4>3. h = [X \in Small(m) |-> h[X]]
        BY Zenon
      <4> HIDE DEF h
      <4> QED
        BY <4>1, <4>2, <4>3, Zenon
    <3> QED
      BY <2>3, <3>8
  <2> QED
    BY <2>4, <2>5
<1>4. Cardinality(S) \in Nat
  BY FS_CardinalityType
<1>5. PICK g : g = Body(g, Cardinality(S))
  BY <1>3, <1>4
<1>6. Small(Cardinality(S)) = SUBSET S
  BY FS_Subset
<1>7. g = SumBody(g, f, S)
  <2> HIDE DEF Small
  <2> QED
    BY <1>5, <1>6, Zenon DEF SumBody
<1> QED
  BY <1>7

\* Any member of a set can be added last.
TakesOut(g, f, X) == g[X] \in Int /\ \A x \in X : g[X] = f[x] + g[X \ {x}]
LEMMA SumTakesOut ==
  ASSUME NEW S, IsFiniteSet(S), NEW f, \A x \in S : f[x] \in Int,
         NEW g, g = SumBody(g, f, S), NEW Z \in SUBSET S
  PROVE  TakesOut(g, f, Z)
<1> DEFINE one(X) == CHOOSE x \in X : TRUE
<1> DEFINE Fails(m) == \E X \in SUBSET S : Cardinality(X) = m /\ ~TakesOut(g, f, X)
<1> DEFINE T == {m \in Nat : Fails(m)}
<1>1. SUFFICES ASSUME ~TakesOut(g, f, Z) PROVE FALSE
  OBVIOUS
<1>2. Cardinality(Z) \in T
  BY <1>1, FS_Subset, FS_CardinalityType
<1>3. PICK m \in T : \A n \in T : m <= n
  <2>1. T \in SUBSET Nat /\ T # {}
    BY <1>2
  <2> HIDE DEF T
  <2> QED
    BY <2>1, HasLeast
<1>4. PICK X \in SUBSET S : Cardinality(X) = m /\ ~TakesOut(g, f, X)
  BY <1>3
<1>5. m \in Nat
  BY <1>3
<1>6. ASSUME NEW Y \in SUBSET S, NEW x \in Y, Cardinality(Y) <= m
      PROVE  TakesOut(g, f, Y \ {x})
  <2>1. IsFiniteSet(Y)
    BY FS_Subset
  <2>2. Cardinality(Y \ {x}) = Cardinality(Y) - 1 /\ IsFiniteSet(Y \ {x})
    BY <2>1, FS_RemoveElement
  <2>3. Cardinality(Y \ {x}) \in Nat /\ Cardinality(Y) \in Nat
    BY <2>1, <2>2, FS_CardinalityType
  <2>4. ~ (m <= Cardinality(Y \ {x}))
    BY <1>5, <1>6, <2>2, <2>3
  <2>5. Cardinality(Y \ {x}) \notin T
    BY <1>3, <2>4
  <2> QED
    BY <2>3, <2>5
<1>7. ASSUME NEW Y \in SUBSET S, Y # {}
      PROVE  one(Y) \in Y /\ g[Y] = f[one(Y)] + g[Y \ {one(Y)}]
  <2>1. one(Y) \in Y
    BY <1>7
  <2> HIDE DEF one
  <2> QED
    BY <2>1, <1>7, Zenon DEF SumBody, one
<1>8. CASE X = {}
  <2>1. g[X] = 0
    BY <1>8, Zenon DEF SumBody
  <2> QED
    BY <2>1, <1>4, <1>8 DEF TakesOut
<1>9. CASE X # {}
  <2>1. PICK y \in X : g[X] = f[y] + g[X \ {y}]
    BY <1>7, <1>9
  <2>2. TakesOut(g, f, X \ {y})
    BY <1>4, <1>5, <1>6
  <2>3. f[y] \in Int /\ g[X \ {y}] \in Int
    BY <2>2 DEF TakesOut
  <2>4. ASSUME NEW x \in X
        PROVE  g[X] = f[x] + g[X \ {x}]
    <3>1. CASE x = y
      BY <2>1, <3>1
    <3>2. CASE x # y
      <4>1. x \in X \ {y} /\ y \in X \ {x}
        BY <3>2
      <4>2. TakesOut(g, f, X \ {x})
        BY <1>4, <1>5, <1>6
      <4>3. g[X \ {y}] = f[x] + g[(X \ {y}) \ {x}]
        BY <2>2, <4>1 DEF TakesOut
      <4>4. g[X \ {x}] = f[y] + g[(X \ {x}) \ {y}]
        BY <4>1, <4>2 DEF TakesOut
      <4>5. (X \ {y}) \ {x} = (X \ {x}) \ {y}
        OBVIOUS
      <4>6. PICK Y : Y = (X \ {x}) \ {y}
        OBVIOUS
      <4>7. g[Y] \in Int
        <5>1. X \ {x} \in SUBSET S /\ Cardinality(X \ {x}) <= m
          <6>1. IsFiniteSet(X)
            BY FS_Subset
          <6>2. Cardinality(X \ {x}) = Cardinality(X) - 1 /\ Cardinality(X) \in Nat
            BY <6>1, FS_RemoveElement, FS_CardinalityType
          <6> QED
            BY <6>2, <1>4, <1>5
        <5> QED
          BY <1>6, <5>1, <4>1, <4>6 DEF TakesOut
      <4>8. f[x] \in Int /\ f[y] \in Int
        OBVIOUS
      <4>9. g[X \ {y}] = f[x] + g[Y] /\ g[X \ {x}] = f[y] + g[Y]
        BY <4>3, <4>4, <4>5, <4>6, Zenon
      <4> QED
        BY <2>1, <4>7, <4>8, <4>9
    <3> QED
      BY <3>1, <3>2
  <2>5. g[X] \in Int
    BY <2>1, <2>3
  <2> QED
    BY <1>4, <2>4, <2>5 DEF TakesOut
<1> QED
  BY <1>8, <1>9

\* Functions that are the same on a set have the same sum over it.
LEMMA SumsAgree ==
  ASSUME NEW S, IsFiniteSet(S), NEW f, NEW g, g = SumBody(g, f, S),
         NEW R, NEW e, NEW h, h = SumBody(h, e, R),
         NEW Z \in SUBSET S, Z \in SUBSET R, \A x \in Z : f[x] = e[x]
  PROVE  g[Z] = h[Z]
<1> DEFINE one(X) == CHOOSE x \in X : TRUE
<1> DEFINE Fails(m) == \E X \in SUBSET Z : Cardinality(X) = m /\ g[X] # h[X]
<1> DEFINE T == {m \in Nat : Fails(m)}
<1>1. SUFFICES ASSUME g[Z] # h[Z] PROVE FALSE
  OBVIOUS
<1>2. Cardinality(Z) \in T
  BY <1>1, FS_Subset, FS_CardinalityType
<1>3. PICK m \in T : \A n \in T : m <= n
  <2>1. T \in SUBSET Nat /\ T # {}
    BY <1>2
  <2> HIDE DEF T
  <2> QED
    BY <2>1, HasLeast
<1>4. PICK X \in SUBSET Z : Cardinality(X) = m /\ g[X] # h[X]
  BY <1>3
<1>5. m \in Nat /\ X \in SUBSET S /\ X \in SUBSET R /\ IsFiniteSet(X)
  BY <1>3, FS_Subset
<1>6. CASE X = {}
  <2>1. g[X] = 0 /\ h[X] = 0
    BY <1>5, <1>6, Zenon DEF SumBody
  <2> QED
    BY <2>1, <1>4
<1>7. CASE X # {}
  <2>1. PICK y : y = one(X)
    OBVIOUS
  <2>2. y \in X
    BY <1>7, <2>1
  <2>3. g[X] = f[y] + g[X \ {y}] /\ h[X] = e[y] + h[X \ {y}]
    <3> HIDE DEF one
    <3>1. g[X] = f[one(X)] + g[X \ {one(X)}]
      BY <1>5, <1>7, Zenon DEF SumBody, one
    <3>2. h[X] = e[one(X)] + h[X \ {one(X)}]
      BY <1>5, <1>7, Zenon DEF SumBody, one
    <3> QED
      BY <2>1, <3>1, <3>2, Zenon
  <2>4. Cardinality(X \ {y}) = m - 1 /\ Cardinality(X \ {y}) \in Nat
    BY <2>2, <1>4, <1>5, FS_RemoveElement, FS_CardinalityType
  <2>5. ~ (m <= m - 1)
    BY <1>5
  <2>6. m - 1 \notin T
    BY <1>3, <2>5
  <2>7. g[X \ {y}] = h[X \ {y}]
    BY <2>4, <2>6
  <2> QED
    BY <1>4, <2>2, <2>3, <2>7
<1> QED
  BY <1>6, <1>7

\* A fold that adds is such a sum.
LEMMA FoldIsSum ==
  ASSUME NEW S, IsFiniteSet(S), NEW f
  PROVE  \E g : g = SumBody(g, f, S) /\ Solar!FoldFunctionOnSet(+, 0, f, S) = g[S]
<1>1. PICK g : g = CHOOSE h : h = SumBody(h, f, S)
  OBVIOUS
<1>2. g = SumBody(g, f, S)
  BY <1>1, SumsExist, Zenon
<1>3. Solar!FoldFunctionOnSet(+, 0, f, S) = g[S]
  BY <1>1, Zenon DEF Solar!FoldFunctionOnSet, Solar!MapThenFoldSet, SumBody
<1> QED
  BY <1>2, <1>3

Total(f, S) == Solar!FoldFunctionOnSet(+, 0, f, S)

LEMMA SameTotal ==
  ASSUME NEW S, IsFiniteSet(S), NEW f, NEW e, \A x \in S : f[x] = e[x]
  PROVE  Total(f, S) = Total(e, S)
<1>1. PICK g : g = SumBody(g, f, S) /\ Total(f, S) = g[S]
  BY FoldIsSum DEF Total
<1>2. PICK h : h = SumBody(h, e, S) /\ Total(e, S) = h[S]
  BY FoldIsSum DEF Total
<1>3. g[S] = h[S]
  BY <1>1, <1>2, SumsAgree
<1> QED
  BY <1>1, <1>2, <1>3

\* What adds nothing can be left out.
LEMMA TotalWithoutNothing ==
  ASSUME NEW S, IsFiniteSet(S), NEW f, NEW e, NEW z \in S, f[z] = 0,
         \A x \in S : f[x] \in Int, \A x \in S \ {z} : f[x] = e[x]
  PROVE  Total(f, S) = Total(e, S \ {z})
<1>1. PICK g : g = SumBody(g, f, S) /\ Total(f, S) = g[S]
  BY FoldIsSum DEF Total
<1>2. IsFiniteSet(S \ {z}) /\ S \ {z} \in SUBSET S
  BY FS_Subset
<1>3. PICK h : h = SumBody(h, e, S \ {z}) /\ Total(e, S \ {z}) = h[S \ {z}]
  BY <1>2, FoldIsSum DEF Total
<1>4. TakesOut(g, f, S) /\ TakesOut(g, f, S \ {z})
  BY <1>1, <1>2, SumTakesOut
<1>5. g[S] = f[z] + g[S \ {z}] /\ g[S \ {z}] \in Int
  BY <1>4 DEF TakesOut
<1>6. g[S \ {z}] = h[S \ {z}]
  BY <1>1, <1>2, <1>3, SumsAgree
<1> QED
  BY <1>1, <1>3, <1>5, <1>6

-----------------------------------------------------------------------------
(* forecast.solar: interpolation between the values around a time          *)

LEMMA SolarMaxIs ==
  ASSUME NEW X \in SUBSET Int, NEW z \in X, \A y \in X : z >= y
  PROVE  Solar!Max(X) = z
<1>1. \E x \in X : \A y \in X : x >= y
  OBVIOUS
<1>2. PICK x : x = Solar!Max(X)
  OBVIOUS
<1>3. x \in X /\ \A y \in X : x >= y
  BY <1>1, <1>2, Zenon DEF Solar!Max
<1>4. x >= z /\ z >= x /\ x \in Int /\ z \in Int
  BY <1>3
<1> QED
  BY <1>2, <1>4

LEMMA SolarMinIs ==
  ASSUME NEW X \in SUBSET Int, NEW z \in X, \A y \in X : z <= y
  PROVE  Solar!Min(X) = z
<1>1. \E x \in X : \A y \in X : x <= y
  OBVIOUS
<1>2. PICK x : x = Solar!Min(X)
  OBVIOUS
<1>3. x \in X /\ \A y \in X : x <= y
  BY <1>1, <1>2, Zenon DEF Solar!Min
<1>4. x >= z /\ z >= x /\ x \in Int /\ z \in Int
  BY <1>3
<1> QED
  BY <1>2, <1>4

\* A series with values at finitely many times, its neighbours around a time and the line
\* between them.
IsSeries(s) ==
  /\ Solar!Filled(s) \in SUBSET Int /\ IsFiniteSet(Solar!Filled(s))
  /\ \A t \in Solar!Filled(s) : s[t] \in Int
Around(F, a, b, t) ==
  a \in F /\ b \in F /\ a < t /\ t < b /\ \A u \in F : ~(a < u /\ u < b)
Linear(s, a, b, t) == s[a] + ((s[b] - s[a]) * (t - a)) \div (b - a)
FirstOf(F, b) == b \in F /\ \A u \in F : b <= u
LastOf(F, a) == a \in F /\ \A u \in F : u <= a

LEMMA AtValue ==
  ASSUME NEW s, IsSeries(s), NEW t \in Solar!Filled(s)
  PROVE  Solar!Interpolated(s, t) = s[t]
<1> DEFINE before == {u \in Solar!Filled(s) : u <= t}
           after == {u \in Solar!Filled(s) : u >= t}
<1>1. t \in before /\ t \in after /\ before \in SUBSET Int /\ after \in SUBSET Int
  BY DEF IsSeries
<1>2. (\A u \in before : t >= u) /\ (\A u \in after : t <= u)
  BY DEF IsSeries
<1> HIDE DEF before, after
<1>3. Solar!Max(before) = t /\ Solar!Min(after) = t
  BY <1>1, <1>2, SolarMaxIs, SolarMinIs
<1>4. before # {} /\ after # {}
  BY <1>1
<1> QED
  BY <1>3, <1>4, Zenon DEF Solar!Interpolated, before, after

LEMMA AtBetween ==
  ASSUME NEW s, IsSeries(s), NEW t \in Int, NEW a, NEW b, Around(Solar!Filled(s), a, b, t)
  PROVE  Solar!Interpolated(s, t) = Linear(s, a, b, t)
<1> DEFINE before == {u \in Solar!Filled(s) : u <= t}
           after == {u \in Solar!Filled(s) : u >= t}
<1>0. a \in Int /\ b \in Int /\ a # b
  BY DEF IsSeries, Around
<1>1. a \in before /\ b \in after /\ before \in SUBSET Int /\ after \in SUBSET Int
  BY DEF IsSeries, Around
<1>2. (\A u \in before : a >= u) /\ (\A u \in after : b <= u)
  BY <1>0 DEF IsSeries, Around
<1> HIDE DEF before, after
<1>3. Solar!Max(before) = a /\ Solar!Min(after) = b
  BY <1>1, <1>2, SolarMaxIs, SolarMinIs
<1>4. before # {} /\ after # {}
  BY <1>1
<1> QED
  BY <1>0, <1>3, <1>4, Zenon DEF Solar!Interpolated, before, after, Linear

LEMMA AtBegin ==
  ASSUME NEW s, IsSeries(s), NEW t \in Int, NEW b, FirstOf(Solar!Filled(s), b), t < b
  PROVE  Solar!Interpolated(s, t) = s[b]
<1> DEFINE before == {u \in Solar!Filled(s) : u <= t}
           after == {u \in Solar!Filled(s) : u >= t}
<1>0. b \in Int
  BY DEF IsSeries, FirstOf
<1>1. b \in after /\ before = {} /\ after \in SUBSET Int /\ \A u \in after : b <= u
  BY <1>0 DEF IsSeries, FirstOf
<1> HIDE DEF before, after
<1>2. Solar!Min(after) = b
  BY <1>1, SolarMinIs
<1>3. after # {}
  BY <1>1
<1> QED
  BY <1>1, <1>2, <1>3, Zenon DEF Solar!Interpolated, before, after

LEMMA AtEnd ==
  ASSUME NEW s, IsSeries(s), NEW t \in Int, NEW a, LastOf(Solar!Filled(s), a), a < t
  PROVE  Solar!Interpolated(s, t) = s[a]
<1> DEFINE before == {u \in Solar!Filled(s) : u <= t}
           after == {u \in Solar!Filled(s) : u >= t}
<1>0. a \in Int
  BY DEF IsSeries, LastOf
<1>1. a \in before /\ after = {} /\ before \in SUBSET Int /\ \A u \in before : a >= u
  BY <1>0 DEF IsSeries, LastOf
<1> HIDE DEF before, after
<1>2. Solar!Max(before) = a
  BY <1>1, SolarMaxIs
<1>3. before # {}
  BY <1>1
<1> QED
  BY <1>1, <1>2, <1>3, Zenon DEF Solar!Interpolated, before, after

\* A time without a value is between two with one, before all of them or after all of them.
Placed(F, t) ==
  \/ \E a, b \in F : Around(F, a, b, t)
  \/ \E b \in F : FirstOf(F, b) /\ t < b
  \/ \E a \in F : LastOf(F, a) /\ a < t
LEMMA IsPlaced ==
  ASSUME NEW F \in SUBSET Int, IsFiniteSet(F), F # {}, NEW t \in Int \ F
  PROVE  Placed(F, t)
<1> DEFINE before == {u \in F : u < t}
           after == {u \in F : u > t}
<1>1. before \in SUBSET Int /\ IsFiniteSet(before) /\ after \in SUBSET Int /\ IsFiniteSet(after)
  BY FS_Subset
<1>2. \A u \in F : u \in Int /\ u # t
  OBVIOUS
<1>3. CASE before = {}
  <2>1. PICK b \in F : \A u \in F : b <= u
    BY FiniteHasEnds DEF HasEnds
  <2>2. t < b
    BY <1>2, <1>3, <2>1
  <2> QED
    BY <2>1, <2>2 DEF Placed, FirstOf
<1>4. CASE after = {}
  <2>1. PICK a \in F : \A u \in F : a >= u
    BY FiniteHasEnds DEF HasEnds
  <2>2. a < t
    BY <1>2, <1>4, <2>1
  <2>3. \A u \in F : u <= a
    BY <1>2, <2>1
  <2> QED
    BY <2>1, <2>2, <2>3 DEF Placed, LastOf
<1>5. CASE before # {} /\ after # {}
  <2> HIDE DEF before, after
  <2>1. PICK a \in before : \A u \in before : a >= u
    BY <1>1, <1>5, FiniteHasEnds DEF HasEnds
  <2>2. PICK b \in after : \A u \in after : b <= u
    BY <1>1, <1>5, FiniteHasEnds DEF HasEnds
  <2>3. a \in F /\ b \in F /\ a < t /\ t < b
    BY <2>1, <2>2 DEF before, after
  <2>4. ASSUME NEW u \in F PROVE ~(a < u /\ u < b)
    <3>1. u \in before \/ u \in after
      BY <1>2 DEF before, after
    <3> QED
      BY <3>1, <2>1, <2>2, <2>3, <1>2
  <2> QED
    BY <2>3, <2>4, Zenon DEF Placed, Around
<1> QED
  BY <1>3, <1>4, <1>5

\* A line between two values that are not negative is zero in between only if both are.
LEMMA ZeroBetween ==
  ASSUME NEW A \in Nat, NEW B \in Nat, NEW d \in Nat \ {0}, NEW e \in Nat, d < e,
         (B - A) % e = 0, A + ((B - A) * d) \div e = 0
  PROVE  A = 0 /\ B = 0
<1>0. e \in Int /\ e > 0 /\ d \in Int /\ d > 0 /\ B - A \in Int
  OBVIOUS
<1>1. PICK q \in Int : B - A = e * q
  <2>1. B - A = e * ((B - A) \div e) + ((B - A) % e) /\ (B - A) \div e \in Int
    BY <1>0
  <2> QED
    BY <2>1
<1>2. PICK p \in Int : p = q * d
  BY <1>0
<1>3. (B - A) * d = e * p
  BY <1>0, <1>1, <1>2
<1>4. (e * p) \div e = p
  BY <1>0
<1>5. A + p = 0
  BY <1>3, <1>4
<1>6. PICK c \in Int : c = e - d /\ c > 0
  BY <1>0
<1>7. e * q = p + c * q
  BY <1>0, <1>2, <1>6
<1>8. B = c * q
  BY <1>0, <1>1, <1>5, <1>6, <1>7
<1>9. q >= 0
  <2>1. SUFFICES ASSUME q <= -1 PROVE FALSE
    OBVIOUS
  <2>2. c * q <= -1
    BY <1>6, <2>1
  <2> QED
    BY <1>8, <2>2
<1>10. p >= 0
  BY <1>0, <1>2, <1>9
<1>11. A = 0 /\ p = 0
  BY <1>5, <1>10
<1>12. q = 0
  BY <1>0, <1>2, <1>9, <1>11
<1> QED
  BY <1>6, <1>8, <1>11, <1>12

\* What the service holds for a node: power at some times, that changes steadily.
IsForecast(s) ==
  /\ DOMAIN s \in SUBSET Int /\ IsFiniteSet(DOMAIN s) /\ DOMAIN s # {}
  /\ \A t \in DOMAIN s : s[t] \in Nat
  /\ Solar!Steady(s)
  /\ NaN \notin Int

LEMMA ForecastIsSeries ==
  ASSUME NEW s, IsForecast(s)
  PROVE  Solar!Filled(s) = DOMAIN s /\ IsSeries(s)
<1>1. Solar!Filled(s) = DOMAIN s
  BY DEF Solar!Filled, IsForecast
<1> QED
  BY <1>1 DEF IsForecast, IsSeries

LEMMA ForecastIsPlaced ==
  ASSUME NEW s, IsForecast(s), NEW t \in Int \ DOMAIN s
  PROVE  Placed(DOMAIN s, t)
<1>1. DOMAIN s \in SUBSET Int /\ IsFiniteSet(DOMAIN s) /\ DOMAIN s # {}
  BY DEF IsForecast
<1>2. PICK F : F = DOMAIN s
  OBVIOUS
<1> QED
  BY <1>1, <1>2, IsPlaced

\* Between the times of a forecast it is a number.
LEMMA ForecastIsNumber ==
  ASSUME NEW s, IsForecast(s), NEW t \in Int
  PROVE  Solar!Interpolated(s, t) \in Int
<1>1. Solar!Filled(s) = DOMAIN s /\ IsSeries(s)
  BY ForecastIsSeries
<1>2. \A u \in DOMAIN s : s[u] \in Int /\ u \in Int
  BY DEF IsForecast
<1>3. CASE t \in DOMAIN s
  BY <1>1, <1>2, <1>3, AtValue
<1>4. CASE t \notin DOMAIN s
  <2>1. Placed(DOMAIN s, t)
    BY <1>4, ForecastIsPlaced
  <2>2. ASSUME NEW a \in DOMAIN s, NEW b \in DOMAIN s, Around(DOMAIN s, a, b, t)
        PROVE  Solar!Interpolated(s, t) \in Int
    <3>1. Solar!Interpolated(s, t) = Linear(s, a, b, t)
      BY <1>1, <2>2, AtBetween
    <3>2. a \in Int /\ b \in Int /\ b - a > 0 /\ s[a] \in Int /\ s[b] \in Int
      BY <1>2, <2>2 DEF Around
    <3>3. PICK x \in Int : x = (s[b] - s[a]) * (t - a)
      BY <3>2
    <3>4. x \div (b - a) \in Int
      BY <3>2, <3>3
    <3> QED
      BY <3>1, <3>2, <3>3, <3>4 DEF Linear
  <2>3. ASSUME NEW b \in DOMAIN s, FirstOf(DOMAIN s, b), t < b
        PROVE  Solar!Interpolated(s, t) \in Int
    BY <1>1, <1>2, <2>3, AtBegin
  <2>4. ASSUME NEW a \in DOMAIN s, LastOf(DOMAIN s, a), a < t
        PROVE  Solar!Interpolated(s, t) \in Int
    BY <1>1, <1>2, <2>4, AtEnd
  <2> QED
    BY <2>1, <2>2, <2>3, <2>4 DEF Placed
<1> QED
  BY <1>3, <1>4

\* Where nothing is forecast at a time that is not one of the forecast, nothing is up to
\* the next of its times on either side, these included.
NoneBetween(F, t, u) == \A v \in F : ~(t < v /\ v < u) /\ ~(u < v /\ v < t)
LEMMA Dark ==
  ASSUME NEW s, IsForecast(s), NEW t \in Int \ DOMAIN s, Solar!Interpolated(s, t) = 0,
         NEW u \in Int, NoneBetween(DOMAIN s, t, u)
  PROVE  Solar!Interpolated(s, u) = 0
<1>1. Solar!Filled(s) = DOMAIN s /\ IsSeries(s)
  BY ForecastIsSeries
<1>2. \A v \in DOMAIN s : s[v] \in Nat /\ v \in Int
  BY DEF IsForecast
<1>3. Placed(DOMAIN s, t)
  BY ForecastIsPlaced
<1>4. ASSUME NEW a \in DOMAIN s, NEW b \in DOMAIN s, Around(DOMAIN s, a, b, t)
      PROVE  Solar!Interpolated(s, u) = 0
  <2>1. s[a] + ((s[b] - s[a]) * (t - a)) \div (b - a) = 0
    BY <1>1, <1>4, AtBetween DEF Linear
  <2>2. a \in Int /\ b \in Int /\ a < t /\ t < b /\ s[a] \in Nat /\ s[b] \in Nat
    BY <1>2, <1>4 DEF Around
  <2>3. (s[b] - s[a]) % (b - a) = 0
    <3>1. \A v \in DOMAIN s : ~(a < v /\ v < b)
      BY <1>4 DEF Around
    <3>2. a < b
      BY <2>2
    <3> QED
      BY <3>1, <3>2 DEF IsForecast, Solar!Steady
  <2>4. s[a] = 0 /\ s[b] = 0
    <3>1. PICK d \in Nat \ {0}, e \in Nat : d = t - a /\ e = b - a /\ d < e
      BY <2>2
    <3>2. (s[b] - s[a]) % e = 0 /\ s[a] + ((s[b] - s[a]) * d) \div e = 0
      BY <2>1, <2>3, <3>1
    <3> QED
      BY <2>2, <3>1, <3>2, ZeroBetween
  <2>5. a <= u /\ u <= b
    BY <2>2 DEF NoneBetween
  <2>6. CASE u \in DOMAIN s
    <3>1. u = a \/ u = b
      BY <1>2, <2>2, <2>5, <2>6, <1>4 DEF Around
    <3> QED
      BY <1>1, <2>4, <2>6, <3>1, AtValue
  <2>7. CASE u \notin DOMAIN s
    <3>1. Around(DOMAIN s, a, b, u)
      <4>1. u # a /\ u # b
        BY <2>7
      <4>2. a < u /\ u < b
        BY <2>2, <2>5, <4>1
      <4> QED
        BY <4>2, <1>4 DEF Around
    <3>2. Solar!Interpolated(s, u) = Linear(s, a, b, u)
      BY <1>1, <3>1, AtBetween
    <3>3. PICK x \in Int : x = u - a
      BY <2>2
    <3>4. PICK y \in Int : y = b - a /\ y > 0
      BY <2>2
    <3>5. (0 - 0) * x = 0 /\ 0 \div y = 0
      BY <3>3, <3>4
    <3> QED
      BY <2>4, <3>2, <3>3, <3>4, <3>5 DEF Linear
  <2> QED
    BY <2>6, <2>7
<1>5. ASSUME NEW b \in DOMAIN s, FirstOf(DOMAIN s, b), t < b
      PROVE  Solar!Interpolated(s, u) = 0
  <2>1. s[b] = 0
    BY <1>1, <1>5, AtBegin
  <2>2. u <= b
    BY <1>2, <1>5 DEF NoneBetween
  <2>3. CASE u = b
    BY <1>1, <2>1, <2>3, AtValue
  <2>4. CASE u # b
    <3>1. u < b
      BY <1>2, <2>2, <2>4
    <3> QED
      BY <1>1, <1>5, <2>1, <3>1, AtBegin
  <2> QED
    BY <2>3, <2>4
<1>6. ASSUME NEW a \in DOMAIN s, LastOf(DOMAIN s, a), a < t
      PROVE  Solar!Interpolated(s, u) = 0
  <2>1. s[a] = 0
    BY <1>1, <1>6, AtEnd
  <2>2. a <= u
    BY <1>2, <1>6 DEF NoneBetween
  <2>3. CASE u = a
    BY <1>1, <2>1, <2>3, AtValue
  <2>4. CASE u # a
    <3>1. a < u
      BY <1>2, <2>2, <2>4
    <3> QED
      BY <1>1, <1>6, <2>1, <3>1, AtEnd
  <2> QED
    BY <2>3, <2>4
<1> QED
  BY <1>3, <1>4, <1>5, <1>6 DEF Placed

\* The rows of a series between two times that are rows as well are those of a forecast:
\* they say what is forecast, and nothing where the forecast has no row of its own.
IsCut(c, s, from, to) ==
  /\ from \in Int /\ to \in Int /\ from <= to
  /\ IsSeries(c)
  /\ {u \in Solar!Filled(c) : from <= u /\ u <= to}
       = {t \in DOMAIN s : from <= t /\ t <= to} \cup {from, to}
  /\ \A u \in Solar!Filled(c) :
       from <= u /\ u <= to =>
         c[u] = Solar!Interpolated(s, u) /\ (u \notin DOMAIN s => c[u] = 0)

\* Interpolated again, it is the forecast: at an end without a row of the forecast, nothing
\* is forecast as far as its next row.
LEMMA CutIsForecast ==
  ASSUME NEW s, IsForecast(s), NEW c, NEW from, NEW to, IsCut(c, s, from, to),
         NEW t \in from..to
  PROVE  Solar!Interpolated(c, t) = Solar!Interpolated(s, t)
<1> DEFINE F == Solar!Filled(c)
<1>1. from \in Int /\ to \in Int /\ from <= to /\ t \in Int /\ from <= t /\ t <= to
  BY DEF IsCut
<1>2. \A v \in DOMAIN s : v \in Int
  BY DEF IsForecast
<1>3. from \in F /\ to \in F
  BY <1>1 DEF IsCut
<1>4. IsSeries(c) /\ F \in SUBSET Int
  BY DEF IsCut, IsSeries
<1>5. CASE t \in F
  <2>1. Solar!Interpolated(c, t) = c[t]
    BY <1>4, <1>5, AtValue
  <2> QED
    BY <1>1, <2>1, <1>5 DEF IsCut
<1>6. CASE t \notin F
  <2>1. F \in SUBSET Int /\ IsFiniteSet(F) /\ F # {}
    BY <1>3, <1>4 DEF IsSeries
  <2> HIDE DEF F
  <2>2. Placed(F, t)
    BY <1>1, <1>6, <2>1, IsPlaced
  <2>3. PICK a \in F, b \in F : Around(F, a, b, t)
    BY <1>1, <1>3, <2>1, <2>2 DEF Placed, FirstOf, LastOf
  <2>4. a \in Int /\ b \in Int /\ a < t /\ t < b /\ from <= a /\ b <= to
    BY <1>1, <1>3, <2>1, <2>3 DEF Around
  <2>5. \A v \in DOMAIN s : ~(a < v /\ v < b)
    <3>1. ASSUME NEW v \in DOMAIN s, a < v, v < b PROVE v \in F
      BY <1>1, <1>2, <2>4, <3>1 DEF IsCut, F
    <3> QED
      BY <3>1, <2>3 DEF Around
  <2>6. Solar!Interpolated(c, t) = Linear(c, a, b, t)
    BY <1>1, <1>4, <2>3, AtBetween DEF F
  <2>7. /\ c[a] = Solar!Interpolated(s, a) /\ (a \notin DOMAIN s => c[a] = 0)
        /\ c[b] = Solar!Interpolated(s, b) /\ (b \notin DOMAIN s => c[b] = 0)
    BY <1>1, <2>4 DEF IsCut, F
  <2>8. NoneBetween(DOMAIN s, a, t) /\ NoneBetween(DOMAIN s, a, b)
        /\ NoneBetween(DOMAIN s, b, t) /\ NoneBetween(DOMAIN s, b, a)
    BY <1>2, <2>4, <2>5 DEF NoneBetween
  <2>9. c[a] = 0 /\ c[b] = 0 => Solar!Interpolated(c, t) = 0
    <3>1. PICK x \in Int : x = t - a
      BY <2>4, <1>1
    <3>2. PICK y \in Int : y = b - a /\ y > 0
      BY <2>4, <1>1
    <3>3. (0 - 0) * x = 0 /\ 0 \div y = 0
      BY <3>1, <3>2
    <3> QED
      BY <2>6, <3>1, <3>2, <3>3 DEF Linear
  <2>10. CASE a \notin DOMAIN s
    <3>1. Solar!Interpolated(s, a) = 0 /\ a \in Int \ DOMAIN s
      BY <2>4, <2>7, <2>10
    <3>2. Solar!Interpolated(s, t) = 0 /\ Solar!Interpolated(s, b) = 0
      BY <3>1, <2>4, <2>8, <1>1, Dark
    <3> QED
      BY <2>7, <2>9, <3>1, <3>2
  <2>11. CASE b \notin DOMAIN s
    <3>1. Solar!Interpolated(s, b) = 0 /\ b \in Int \ DOMAIN s
      BY <2>4, <2>7, <2>11
    <3>2. Solar!Interpolated(s, t) = 0 /\ Solar!Interpolated(s, a) = 0
      BY <3>1, <2>4, <2>8, <1>1, Dark
    <3> QED
      BY <2>7, <2>9, <3>1, <3>2
  <2>12. CASE a \in DOMAIN s /\ b \in DOMAIN s
    <3>1. Solar!Filled(s) = DOMAIN s /\ IsSeries(s)
      BY ForecastIsSeries
    <3>2. Around(DOMAIN s, a, b, t)
      BY <2>3, <2>5, <2>12 DEF Around
    <3>3. Solar!Interpolated(s, t) = Linear(s, a, b, t)
      BY <1>1, <3>1, <3>2, AtBetween
    <3>4. c[a] = s[a] /\ c[b] = s[b]
      BY <2>7, <2>12, <3>1, AtValue
    <3> QED
      BY <2>6, <3>3, <3>4 DEF Linear
  <2> QED
    BY <2>10, <2>11, <2>12
<1> QED
  BY <1>5, <1>6

\* Rounding down does not go up, and the reverse.
LEMMA SolarRounds ==
  ASSUME NEW t \in Int, NEW k \in Nat \ {0}
  PROVE  /\ Solar!Floor(t, k) \in Int /\ Solar!Floor(t, k) <= t /\ t < Solar!Floor(t, k) + k
         /\ Solar!Ceil(t, k) \in Int /\ t <= Solar!Ceil(t, k)
<1>1. k \in Int /\ k > 0
  OBVIOUS
<1>2. ASSUME NEW u \in Int
      PROVE  Solar!Floor(u, k) \in Int /\ Solar!Floor(u, k) <= u /\ u < Solar!Floor(u, k) + k
  <2>1. PICK q \in Int : q = u \div k
    BY <1>1
  <2>2. u = k * (u \div k) + (u % k) /\ u % k \in 0..(k - 1)
    BY <1>1
  <2>3. q * k = k * q /\ q * k \in Int
    BY <1>1
  <2> QED
    BY <2>1, <2>2, <2>3 DEF Solar!Floor
<1>3. -t \in Int
  OBVIOUS
<1>4. Solar!Floor(-t, k) \in Int /\ Solar!Floor(-t, k) <= -t
  BY <1>2, <1>3
<1> QED
  BY <1>2, <1>4 DEF Solar!Ceil

\* The rows of a window that ends within a series: the series, interpolated at each.
RowsOf(c, from, to, interval) ==
  Solar!df_time_slice(Solar!df_interpolate(c, interval), from, to)
LEMMA RowsOfWindow ==
  ASSUME NEW start \in Int, NEW end \in Int, start <= end, NEW c,
         DOMAIN c \in SUBSET (start..end), start \in DOMAIN c, end \in DOMAIN c,
         NEW from \in Int, NEW to \in Int, NEW k \in Nat \ {0}, start <= from, to <= end
  PROVE  RowsOf(c, from, to, k) =
           [t \in Solar!Grid(from, to, k) |-> Solar!Interpolated(c, t)]
<1>1. Solar!Min(DOMAIN c) = start /\ Solar!Max(DOMAIN c) = end
  <2>1. DOMAIN c \in SUBSET Int /\ \A y \in DOMAIN c : start <= y /\ end >= y
    OBVIOUS
  <2>2. PICK D : D = DOMAIN c
    OBVIOUS
  <2> QED
    BY <2>1, <2>2, SolarMinIs, SolarMaxIs
<1> DEFINE low == Solar!Floor(start, k)
           high == Solar!Ceil(end, k)
           i == Solar!df_interpolate(c, k)
<1>2. low \in Int /\ low <= start /\ high \in Int /\ end <= high
  BY SolarRounds
<1>3. i = [t \in Solar!Grid(low, high, k) |-> Solar!Interpolated(c, t)]
  BY <1>1, Zenon DEF Solar!df_interpolate
<1> HIDE DEF low, high, i
<1>4. {t \in DOMAIN i : from <= t /\ t <= to} = Solar!Grid(from, to, k)
  <2>1. \A t : t \in Solar!Grid(low, high, k) <=> t \in low..high /\ t % k = 0
    BY DEF Solar!Grid
  <2>2. \A t : t \in Solar!Grid(from, to, k) <=> t \in from..to /\ t % k = 0
    BY DEF Solar!Grid
  <2> QED
    BY <1>2, <1>3, <2>1, <2>2
<1>5. RowsOf(c, from, to, k) = [t \in Solar!Grid(from, to, k) |-> i[t]]
  BY <1>4, Zenon DEF RowsOf, i, Solar!df_time_slice, Solar!Restrict
<1>6. ASSUME NEW t \in Solar!Grid(from, to, k)
      PROVE  i[t] = Solar!Interpolated(c, t)
  <2>1. t \in DOMAIN i
    BY <1>4
  <2> QED
    BY <1>3, <2>1
<1> QED
  BY <1>5, <1>6

-----------------------------------------------------------------------------
(* forecast.solar: from the threads to the series                          *)

\* What the assumptions say of the constants of forecast.solar.
LEMMA SolarConstants ==
  /\ Second \in Nat \ {0} /\ Quarter \in Nat \ {0} /\ Hour \in Nat \ {0} /\ Day \in Nat \ {0}
  /\ SolarWindows \subseteq [from : Int, to : Int, interval : Nat \ {0}]
  /\ \A w \in SolarWindows : w.from <= w.to
  /\ \A s \in Forecasts : IsForecast(s)
  /\ NaN \notin Int
<1> USE RequestsAssumption DEF RequestsAssumption, Solar!ForecastsolarAssumption
<1>1. NaN \notin Int
  OBVIOUS
<1>2. ASSUME NEW s \in Forecasts
      PROVE  IsForecast(s)
  <2>1. IsFiniteSet(DOMAIN s)
    BY DEF Solar!IsFiniteSet, IsFiniteSet
  <2>2. /\ DOMAIN s \subseteq Int /\ DOMAIN s # {} /\ Solar!Steady(s)
        /\ \A t \in DOMAIN s : s[t] \in Nat
    OBVIOUS
  <2> QED
    BY <1>1, <2>1, <2>2 DEF IsForecast
<1> QED
  BY <1>1, <1>2

SolarTypes == service \in [Nodes -> [forecast : Forecasts \cup {Solar!NoData}, data : DataTypes]]
SolarGathered == DOMAIN frames = Nodes /\ \A n \in Nodes : frames[n] = service[n].forecast

\* What is kept of the forecast of a node, with the rows of other nodes in between.
CutOf(n) == Solar!_select_data(Solar!_get_data, call.window.from, call.window.to)[n]
Start == Solar!Floor(call.window.from, Quarter)
End == Solar!Ceil(call.window.to, Quarter)
LEMMA CutOfNode ==
  ASSUME SolarTypes, SolarGathered,
         call.window.from \in Int, call.window.to \in Int, call.window.from <= call.window.to,
         NEW n \in Solar!Read
  PROVE  /\ DOMAIN Solar!_select_data(Solar!_get_data, call.window.from, call.window.to)
              = Solar!Read
         /\ IsForecast(service[n].forecast)
         /\ Start <= call.window.from /\ call.window.to <= End
         /\ DOMAIN CutOf(n) \in SUBSET (Start..End)
         /\ Start \in DOMAIN CutOf(n) /\ End \in DOMAIN CutOf(n)
         /\ \A a, b \in Solar!Sure(n) : a <= b => IsCut(CutOf(n), service[n].forecast, a, b)
<1> DEFINE s == service[n].forecast
           rows == UNION {DOMAIN frames[m] : m \in Solar!Read}
           both == rows \cup {Start, End}
           slice == {t \in both : Start <= t /\ t <= End}
           table == Solar!_get_data
           cut == Solar!_select_data(table, call.window.from, call.window.to)
           value(t) == IF t \in rows THEN (IF t \in DOMAIN s THEN s[t] ELSE NaN) ELSE 0
<1>1. /\ Start \in Int /\ Start <= call.window.from
      /\ End \in Int /\ call.window.to <= End /\ Start <= End
  <2>1. Quarter \in Nat \ {0}
    BY SolarConstants
  <2>2. Start \in Int /\ Start <= call.window.from
    BY <2>1, SolarRounds DEF Start
  <2>3. End \in Int /\ call.window.to <= End
    BY <2>1, SolarRounds DEF End
  <2> QED
    BY <2>2, <2>3
<1>2. ASSUME NEW m \in Solar!Read
      PROVE  m \in Nodes /\ IsForecast(service[m].forecast) /\ frames[m] = service[m].forecast
  <2>1. m \in Nodes /\ service[m].forecast # Solar!NoData
    BY DEF Solar!Read
  <2>2. service[m].forecast \in Forecasts
    BY <2>1 DEF SolarTypes
  <2> QED
    BY <2>1, <2>2, SolarConstants DEF SolarGathered
<1>3. {m \in Nodes : frames[m] # Solar!NoData} = Solar!Read
  BY DEF Solar!Read, SolarGathered
<1>4. table = [m \in Solar!Read |->
                 [t \in rows |-> IF t \in DOMAIN frames[m] THEN frames[m][t] ELSE NaN]]
  <2>1. Solar!Read # {}
    OBVIOUS
  <2>2. table = Solar!Concat([m \in Solar!Read |-> frames[m]])
    BY <1>3, <2>1, Zenon DEF Solar!_get_data
  <2>3. \A m \in Solar!Read : [k \in Solar!Read |-> frames[k]][m] = frames[m]
    OBVIOUS
  <2>4. DOMAIN [m \in Solar!Read |-> frames[m]] = Solar!Read
    OBVIOUS
  <2>5. UNION {DOMAIN [k \in Solar!Read |-> frames[k]][m] : m \in Solar!Read} = rows
    BY <2>3
  <2> HIDE DEF rows, table
  <2> QED
    BY <2>2, <2>3, <2>4, <2>5 DEF Solar!Concat
<1> HIDE DEF table
<1>5. DOMAIN table = Solar!Read /\ DOMAIN cut = Solar!Read
  BY <1>4 DEF Solar!_select_data
<1>6. table[n] = [t \in rows |-> IF t \in DOMAIN s THEN s[t] ELSE NaN]
  BY <1>2, <1>4
<1>7. cut[n] = [t \in slice |-> value(t)]
  <2> DEFINE ended == [t \in DOMAIN table[n] \cup {Start, End} |->
                         IF t \in DOMAIN table[n] THEN table[n][t] ELSE 0]
  <2>1. cut[n] = Solar!df_time_slice(ended, Start, End)
    <3>1. Solar!round_timestamp(call.window.from, Quarter, "floor") = Start
      BY DEF Solar!round_timestamp, Start
    <3>2. Solar!round_timestamp(call.window.to, Quarter, "ceil") = End
      BY DEF Solar!round_timestamp, End
    <3> QED
      BY <1>5, <3>1, <3>2, Zenon DEF Solar!_select_data
  <2>2. DOMAIN table[n] = rows
    BY <1>6
  <2>3. ended = [t \in both |-> value(t)]
    <3> HIDE DEF rows, s
    <3> QED
      BY <1>6, <2>2
  <2> HIDE DEF ended
  <2>4. cut[n] = [t \in {u \in DOMAIN ended : Start <= u /\ u <= End} |-> ended[t]]
    BY <2>1, Zenon DEF Solar!df_time_slice, Solar!Restrict
  <2> HIDE DEF value, both
  <2> QED
    BY <2>3, <2>4
<1>8. IsForecast(s)
  BY <1>2
<1>9. rows \in SUBSET Int /\ DOMAIN s \in SUBSET rows
  BY <1>2 DEF IsForecast
<1>10. DOMAIN cut[n] = slice /\ slice \in SUBSET (Start..End) /\ {Start, End} \in SUBSET slice
  <2>1. DOMAIN cut[n] = slice
    <3> HIDE DEF cut, slice, value
    <3> QED
      BY <1>7
  <2>2. slice \in SUBSET (Start..End) /\ {Start, End} \in SUBSET slice
    <3>1. rows \in SUBSET Int
      BY <1>9
    <3> HIDE DEF rows
    <3>2. ASSUME NEW t \in slice PROVE t \in Start..End
      BY <1>1, <3>1
    <3>3. Start \in slice /\ End \in slice
      BY <1>1
    <3> QED
      BY <3>2, <3>3
  <2> HIDE DEF cut, slice
  <2> QED
    BY <2>1, <2>2
<1>11. ASSUME NEW a \in Solar!Sure(n), NEW b \in Solar!Sure(n), a <= b
       PROVE  IsCut(cut[n], s, a, b)
  <2> HIDE DEF cut
  <2>1. NaN \notin Int /\ \A t \in DOMAIN s : s[t] \in Nat /\ t \in Int
    BY <1>8 DEF IsForecast
  <2>2. ASSUME NEW e \in Solar!Sure(n)
        PROVE  /\ e \in Int /\ Start <= e /\ e <= End
               /\ \/ e \in DOMAIN s
                  \/ e \in {Start, End} /\ Solar!Interpolated(s, e) = 0 /\ e \notin rows
    <3>1. CASE e \in DOMAIN s /\ Start <= e /\ e <= End
      BY <2>1, <3>1
    <3>2. CASE /\ e \in {Start, End} /\ Solar!Forecast(n, e) = 0
               /\ \A m \in Solar!Read : e \notin DOMAIN service[m].forecast
      BY <1>1, <1>2, <3>2 DEF Solar!Forecast
    <3> QED
      BY <3>1, <3>2, Zenon DEF Solar!Sure, Start, End
  <2>3. Solar!Filled(cut[n]) = {t \in slice : t \in DOMAIN s \/ t \notin rows}
    <3>1. \A t \in slice : cut[n][t] = value(t)
      BY <1>7
    <3> HIDE DEF slice, rows
    <3>2. \A t \in slice : value(t) # NaN <=> t \in DOMAIN s \/ t \notin rows
      BY <2>1, <1>9
    <3> HIDE DEF value
    <3> QED
      BY <1>10, <3>1, <3>2 DEF Solar!Filled
  <2>4. ASSUME NEW u \in Solar!Filled(cut[n])
        PROVE  /\ u \in Start..End
               /\ u \in DOMAIN s => cut[n][u] = s[u]
               /\ u \notin DOMAIN s => u \in {Start, End} /\ u \notin rows /\ cut[n][u] = 0
    <3>1. u \in slice /\ (u \in DOMAIN s \/ u \notin rows)
      BY <2>3
    <3>2. cut[n][u] = value(u)
      <4> HIDE DEF cut, slice, value
      <4> QED
        BY <1>7, <3>1
    <3> HIDE DEF cut, rows
    <3> QED
      BY <1>9, <1>10, <3>1, <3>2
  <2>5. IsSeries(cut[n])
    <3>1. Solar!Filled(cut[n]) \in SUBSET (Start..End)
      BY <2>4
    <3>2. IsFiniteSet(Solar!Filled(cut[n]))
      BY <1>1, <3>1, FS_Interval, FS_Subset
    <3>3. \A u \in Solar!Filled(cut[n]) : cut[n][u] \in Int
      BY <2>1, <2>4
    <3> QED
      BY <1>1, <3>1, <3>2, <3>3 DEF IsSeries
  <2>6. {u \in Solar!Filled(cut[n]) : a <= u /\ u <= b}
          = {t \in DOMAIN s : a <= t /\ t <= b} \cup {a, b}
    <3>1. ASSUME NEW u \in Solar!Filled(cut[n]), a <= u, u <= b
          PROVE  u \in {t \in DOMAIN s : a <= t /\ t <= b} \cup {a, b}
      <4> HIDE DEF rows, s
      <4> QED
        BY <1>1, <2>2, <2>4, <3>1
    <3>2. ASSUME NEW u \in {t \in DOMAIN s : a <= t /\ t <= b} \cup {a, b}
          PROVE  u \in Solar!Filled(cut[n]) /\ a <= u /\ u <= b
      <4>1. u \in Int /\ a <= u /\ u <= b /\ Start <= u /\ u <= End
        <5>1. /\ a \in Int /\ b \in Int /\ a <= b /\ Start <= a /\ b <= End
              /\ u \in Int
          BY <1>11, <2>1, <2>2, <3>2
        <5>2. a <= u /\ u <= b
          BY <3>2, <5>1
        <5> HIDE DEF s, rows, slice
        <5> QED
          BY <1>1, <5>1, <5>2
      <4>2. u \in DOMAIN s \/ (u \in {Start, End} /\ u \notin rows)
        BY <2>2, <3>2
      <4>3. u \in slice
        BY <1>9, <4>1, <4>2
      <4> QED
        BY <2>3, <4>1, <4>2, <4>3
    <3> QED
      BY <3>1, <3>2
  <2>7. ASSUME NEW u \in Solar!Filled(cut[n]), a <= u, u <= b
        PROVE  cut[n][u] = Solar!Interpolated(s, u) /\ (u \notin DOMAIN s => cut[n][u] = 0)
    <3>1. CASE u \in DOMAIN s
      <4>1. Solar!Interpolated(s, u) = s[u]
        BY <1>8, <3>1, ForecastIsSeries, AtValue
      <4> QED
        BY <2>4, <3>1, <4>1
    <3>2. CASE u \notin DOMAIN s
      <4>1. u \in {a, b}
        BY <2>6, <2>7, <3>2
      <4> QED
        BY <2>2, <2>4, <3>2, <4>1
    <3> QED
      BY <3>1, <3>2
  <2>8. a \in Int /\ b \in Int
    BY <2>2
  <2> QED
    BY <1>11, <2>5, <2>6, <2>7, <2>8 DEF IsCut
<1>12. CutOf(n) = cut[n]
  BY DEF CutOf, table
<1>13. DOMAIN Solar!_select_data(Solar!_get_data, call.window.from, call.window.to) = Solar!Read
  BY <1>5, Zenon DEF table
<1> HIDE DEF cut
<1> QED
  BY <1>1, <1>8, <1>10, <1>11, <1>12, <1>13

-----------------------------------------------------------------------------
(* forecast.solar: energy                                                  *)

\* Division with a remainder.
Divided(t, k, q, r) == t \div k = q /\ t % k = r /\ t = k * q + r
LEMMA IsDivided ==
  ASSUME NEW t \in Int, NEW k \in Nat \ {0}
  PROVE  \E q \in Int, r \in 0..(k - 1) : Divided(t, k, q, r)
<1>1. k \in Int /\ k > 0
  OBVIOUS
<1>2. PICK q \in Int : q = t \div k
  BY <1>1
<1>3. t = k * (t \div k) + (t % k) /\ t % k \in 0..(k - 1)
  BY <1>1
<1> QED
  BY <1>2, <1>3 DEF Divided

\* A number is rounded down to the multiple it is not further from than one interval.
LEMMA SolarFloorIs ==
  ASSUME NEW t \in Int, NEW d \in Int, NEW k \in Nat \ {0}, d % k = 0, d <= t, t < d + k
  PROVE  Solar!Floor(t, k) = d
<1>1. k \in Int /\ k > 0
  OBVIOUS
<1>2. PICK p \in Int : d = k * p
  <2>1. PICK q \in Int, r \in 0..(k - 1) : Divided(d, k, q, r)
    BY IsDivided
  <2> QED
    BY <1>1, <2>1 DEF Divided
<1>3. PICK q \in Int, r \in 0..(k - 1) : Divided(t, k, q, r)
  BY IsDivided
<1>4. q = t \div k /\ t = k * q + r
  BY <1>3 DEF Divided
<1>5. k * q <= t /\ t < k * q + k
  BY <1>1, <1>4
<1>6. PICK j \in Int : j = q - p
  OBVIOUS
<1>7. k * q = k * p + k * j
  BY <1>1, <1>6
<1>8. k * j < k /\ k * j > -k
  <2>1. PICK x \in Int : x = k * j
    BY <1>1
  <2> QED
    BY <2>1, <1>1, <1>2, <1>5, <1>7
<1>9. j = 0
  <2>1. ASSUME j >= 1 PROVE FALSE
    <3>1. k * j >= k
      BY <1>1, <2>1
    <3> QED
      BY <3>1, <1>1, <1>8
  <2>2. ASSUME j <= -1 PROVE FALSE
    <3>1. k * j <= -k
      BY <1>1, <2>2
    <3> QED
      BY <3>1, <1>1, <1>8
  <2> QED
    BY <2>1, <2>2
<1>10. q * k = k * q
  BY <1>1
<1> QED
  BY <1>1, <1>2, <1>4, <1>7, <1>9, <1>10 DEF Solar!Floor

\* And what it is rounded to is one.
LEMMA SolarFloorDivides ==
  ASSUME NEW t \in Int, NEW k \in Nat \ {0}
  PROVE  Solar!Floor(t, k) % k = 0
<1>1. k \in Int /\ k > 0
  OBVIOUS
<1>2. PICK q \in Int : q = t \div k
  BY <1>1
<1>3. (k * q) % k = 0
  BY <1>1
<1>4. q * k = k * q
  BY <1>1
<1> QED
  BY <1>2, <1>3, <1>4 DEF Solar!Floor

LEMMA SolarCeilDivides ==
  ASSUME NEW t \in Int, NEW k \in Nat \ {0}
  PROVE  Solar!Ceil(t, k) % k = 0
<1>1. PICK c \in Int : c = Solar!Floor(-t, k) /\ c % k = 0
  <2>1. -t \in Int
    OBVIOUS
  <2> QED
    BY <2>1, SolarRounds, SolarFloorDivides
<1>2. 0 \in Int /\ 0 % k = 0
  OBVIOUS
<1>3. (0 - c) % k = 0
  BY <1>1, <1>2, MultiplesAdd
<1>4. -c = 0 - c
  BY <1>1
<1> QED
  BY <1>1, <1>3, <1>4 DEF Solar!Ceil

\* Two rows of an interval are at least that far apart.
LEMMA RowsApart ==
  ASSUME NEW a \in Int, NEW b \in Int, NEW k \in Nat \ {0}, a % k = 0, b % k = 0, a < b
  PROVE  a <= b - k /\ (b - k) % k = 0
<1>1. k \in Int /\ k > 0
  OBVIOUS
<1>2. PICK p \in Int : a = k * p
  BY MultipleIs
<1>3. PICK q \in Int : b = k * q
  BY MultipleIs
<1>4. PICK j \in Int : j = q - p
  OBVIOUS
<1>5. k * q = k * p + k * j
  BY <1>1, <1>4
<1>6. j >= 1
  <2>1. ASSUME j <= 0 PROVE FALSE
    <3>1. k * j <= 0
      BY <1>1, <2>1
    <3>2. PICK x \in Int : x = k * j
      BY <1>1
    <3> QED
      BY <3>1, <3>2, <1>2, <1>3, <1>5
  <2> QED
    BY <2>1, <1>4
<1>7. k * j >= k
  BY <1>1, <1>6
<1>8. a <= b - k
  <2>1. PICK x \in Int : x = k * j
    BY <1>1
  <2> QED
    BY <2>1, <1>1, <1>2, <1>3, <1>5, <1>7
<1>9. q - 1 \in Int /\ b - k \in Int /\ b - k = k * (q - 1)
  BY <1>1, <1>3
<1>10. (b - k) % k = 0
  BY <1>9, MultipleIs
<1> QED
  BY <1>8, <1>10

\* Power in every row of a window, some of it without a value, and the rows of a day.
IsPower(v, from, to, k) ==
  /\ from \in Int /\ to \in Int /\ from <= to /\ k \in Nat \ {0}
  /\ from % k = 0 /\ to % k = 0
  /\ DOMAIN v = Solar!Grid(from, to, k)
DayOf(from, to, k, d) == {t \in Solar!Grid(from, to, k) : Solar!Floor(t, Day) = d}
Energy(v) == Solar!calculate_watt_hours_period(v)

LEMMA EndsOfPower ==
  ASSUME NEW v, NEW from, NEW to, NEW k, IsPower(v, from, to, k)
  PROVE  Solar!Min(DOMAIN v) = from /\ Solar!Max(DOMAIN v) = to
<1>1. DOMAIN v \in SUBSET Int /\ from \in DOMAIN v /\ to \in DOMAIN v
  BY DEF IsPower, Solar!Grid
<1>2. \A y \in DOMAIN v : from <= y /\ to >= y
  BY DEF IsPower, Solar!Grid
<1>3. PICK D : D = DOMAIN v
  OBVIOUS
<1> QED
  BY <1>1, <1>2, <1>3, SolarMinIs, SolarMaxIs

LEMMA EnergyOfRows ==
  ASSUME NEW v, NEW from, NEW to, NEW k, IsPower(v, from, to, k)
  PROVE  /\ Energy(v)[from] = 0
         /\ \A t \in Solar!Grid(from, to, k) \ {from} :
              v[t] \in Int /\ v[t - k] \in Int => Energy(v)[t] = (v[t] + v[t - k]) * k
<1>1. /\ from \in Int /\ to \in Int /\ from <= to /\ k \in Nat \ {0}
      /\ from % k = 0 /\ DOMAIN v = Solar!Grid(from, to, k)
  BY DEF IsPower
<1>2. Solar!Min(DOMAIN v) = from
  BY EndsOfPower
<1>3. from \in DOMAIN v
  BY <1>1 DEF Solar!Grid
<1>4. Energy(v)[from] = 0
  BY <1>2, <1>3 DEF Energy, Solar!calculate_watt_hours_period
<1>5. ASSUME NEW t \in Solar!Grid(from, to, k) \ {from}, v[t] \in Int, v[t - k] \in Int
      PROVE  Energy(v)[t] = (v[t] + v[t - k]) * k
  <2>1. t \in Int /\ from < t /\ t <= to /\ t % k = 0
    BY <1>1 DEF Solar!Grid
  <2>2. PICK b \in Int : b = t - k
    BY <1>1, <2>1
  <2>3. from <= b /\ b % k = 0 /\ b < t
    <3>1. from <= t - k /\ (t - k) % k = 0
      BY <1>1, <2>1, RowsApart
    <3> QED
      BY <1>1, <2>1, <2>2, <3>1
  <2>4. t \in DOMAIN v /\ b \in DOMAIN v
    BY <1>1, <2>1, <2>2, <2>3 DEF Solar!Grid
  <2>5. Solar!Before(v, t) = b
    <3>1. PICK X : X = {u \in DOMAIN v : u < t}
      OBVIOUS
    <3>2. X \in SUBSET Int /\ b \in X
      BY <1>1, <2>3, <2>4, <3>1 DEF Solar!Grid
    <3>3. ASSUME NEW y \in X PROVE b >= y
      <4>1. y \in Int /\ y % k = 0 /\ y < t
        BY <1>1, <3>1 DEF Solar!Grid
      <4>2. y <= t - k
        BY <1>1, <2>1, <4>1, RowsApart
      <4> QED
        BY <2>2, <4>2
    <3> QED
      BY <3>1, <3>2, <3>3, SolarMaxIs DEF Solar!Before
  <2>6. {t, b} \cap Solar!Filled(v) = {t, b}
    BY <1>5, <2>2, <2>4, SolarConstants DEF Solar!Filled
  <2>7. Energy(v)[t] = (v[t] + v[b]) * (t - b)
    <3>1. t # Solar!Min(DOMAIN v)
      BY <1>2, <2>1, <1>1
    <3> QED
      BY <2>4, <2>5, <2>6, <3>1, Zenon DEF Energy, Solar!calculate_watt_hours_period
  <2>8. t - b = k
    BY <1>1, <2>1, <2>2
  <2> QED
    BY <2>2, <2>7, <2>8
<1> QED
  BY <1>4, <1>5

\* The first row of a window adds no energy; the others of a day add that of the power
\* of their interval.
LEMMA EnergyOfDay ==
  ASSUME NEW v, NEW from, NEW to, NEW k, IsPower(v, from, to, k), NEW d \in Int, NEW e,
         \A t \in DayOf(from, to, k, d) \ {from} :
           v[t] \in Int /\ v[t - k] \in Int /\ e[t] = (v[t] + v[t - k]) * k
  PROVE  Total(Energy(v), DayOf(from, to, k, d)) = Total(e, DayOf(from, to, k, d) \ {from})
<1> DEFINE S == DayOf(from, to, k, d)
<1>1. /\ from \in Int /\ to \in Int /\ from <= to /\ k \in Nat \ {0}
      /\ S \in SUBSET (from..to)
  BY DEF IsPower, DayOf, Solar!Grid
<1>2. IsFiniteSet(S)
  BY <1>1, FS_Interval, FS_Subset
<1>3. \A t \in S : t \in Solar!Grid(from, to, k)
  BY DEF DayOf
<1> HIDE DEF S
<1>4. Energy(v)[from] = 0
  BY EnergyOfRows
<1>5. ASSUME NEW t \in S \ {from}
      PROVE  Energy(v)[t] = e[t] /\ Energy(v)[t] \in Int
  <2>1. v[t] \in Int /\ v[t - k] \in Int /\ e[t] = (v[t] + v[t - k]) * k
    BY <1>5 DEF S
  <2>2. Energy(v)[t] = (v[t] + v[t - k]) * k
    BY <1>3, <2>1, EnergyOfRows
  <2>3. PICK x \in Int : x = v[t] + v[t - k]
    BY <2>1
  <2>4. x * k \in Int
    BY <1>1
  <2> QED
    BY <2>1, <2>2, <2>3, <2>4
<1>6. \A t \in S : Energy(v)[t] \in Int
  BY <1>4, <1>5
<1>7. CASE from \in S
  BY <1>2, <1>4, <1>5, <1>6, <1>7, TotalWithoutNothing DEF S
<1>8. CASE from \notin S
  <2>1. S \ {from} = S
    BY <1>8
  <2>2. \A t \in S : Energy(v)[t] = e[t]
    BY <1>5, <2>1
  <2> QED
    BY <1>2, <2>1, <2>2, SameTotal DEF S
<1> QED
  BY <1>7, <1>8

-----------------------------------------------------------------------------
(* forecast.solar: what is returned                                        *)

SolarWindow(w) ==
  /\ w.from \in Int /\ w.to \in Int /\ w.from <= w.to /\ w.interval \in Nat \ {0}
  /\ w.from % w.interval = 0 /\ w.to % w.interval = 0
SolarCalled == SolarTypes /\ SolarGathered /\ SolarWindow(call.window)

\* The power of a node in the rows of the window.
PowerOf(n) == RowsOf(CutOf(n), call.window.from, call.window.to, call.window.interval)

LEMMA PowerOfNode ==
  ASSUME SolarCalled, NEW n \in Solar!Read
  PROVE  /\ IsPower(PowerOf(n), call.window.from, call.window.to, call.window.interval)
         /\ \A t \in DOMAIN PowerOf(n) :
              t \in Int /\ (Solar!Covered(n, t) => PowerOf(n)[t] = Solar!Forecast(n, t))
         /\ \A t \in Int : Solar!Forecast(n, t) \in Int
<1> DEFINE grid == Solar!Grid(call.window.from, call.window.to, call.window.interval)
<1>1. /\ call.window.from \in Int /\ call.window.to \in Int /\ call.window.from <= call.window.to
      /\ call.window.interval \in Nat \ {0}
  BY DEF SolarCalled, SolarWindow
<1>2. /\ IsForecast(service[n].forecast)
      /\ Start <= call.window.from /\ call.window.to <= End
      /\ DOMAIN CutOf(n) \in SUBSET (Start..End)
      /\ Start \in DOMAIN CutOf(n) /\ End \in DOMAIN CutOf(n)
      /\ \A a, b \in Solar!Sure(n) : a <= b => IsCut(CutOf(n), service[n].forecast, a, b)
  BY <1>1, CutOfNode DEF SolarCalled
<1>3. \A t \in Int : Solar!Forecast(n, t) \in Int
  BY <1>2, ForecastIsNumber DEF Solar!Forecast
<1>4. PowerOf(n) = [t \in grid |-> Solar!Interpolated(CutOf(n), t)]
  <2>1. Start \in Int /\ End \in Int
    BY <1>1, SolarConstants, SolarRounds DEF Start, End
  <2>2. Start <= End
    BY <1>1, <1>2, <2>1
  <2> QED
    BY <1>1, <1>2, <2>1, <2>2, RowsOfWindow DEF PowerOf
<1>5. \A t \in grid : t \in Int
  BY <1>1 DEF Solar!Grid
<1> HIDE DEF grid
<1>6. DOMAIN PowerOf(n) = grid
  BY <1>4
<1>7. ASSUME NEW t \in grid, Solar!Covered(n, t)
      PROVE  PowerOf(n)[t] = Solar!Forecast(n, t)
  <2>1. PICK a \in Solar!Sure(n), b \in Solar!Sure(n) : a <= t /\ t <= b
    BY <1>7 DEF Solar!Covered
  <2>2. a \in Int /\ b \in Int
    <3>1. Start \in Int /\ End \in Int
      BY <1>1, SolarConstants, SolarRounds DEF Start, End
    <3>2. \A u \in DOMAIN service[n].forecast : u \in Int
      BY <1>2 DEF IsForecast
    <3> QED
      BY <3>1, <3>2 DEF Solar!Sure, Start, End
  <2>3. IsCut(CutOf(n), service[n].forecast, a, b) /\ t \in a..b
    BY <1>2, <1>5, <2>1, <2>2
  <2>4. Solar!Interpolated(CutOf(n), t) = Solar!Interpolated(service[n].forecast, t)
    BY <1>2, <2>3, CutIsForecast
  <2> QED
    BY <1>4, <2>4 DEF Solar!Forecast
<1>8. IsPower(PowerOf(n), call.window.from, call.window.to, call.window.interval)
  BY <1>1, <1>6 DEF IsPower, SolarCalled, SolarWindow, grid
<1> QED
  BY <1>3, <1>5, <1>6, <1>7, <1>8

\* The table that is returned, by the data type of the nodes.
LEMMA SeriesOfNode ==
  ASSUME SolarCalled, NEW n \in Solar!Read
  PROVE  /\ Solar!DataType = "watts" => Solar!Series(call.window)[n] = PowerOf(n)
         /\ Solar!DataType = "watthours"
              => Solar!Series(call.window)[n] = Solar!cumulative_watt_hours_per_day(PowerOf(n))
         /\ Solar!DataType = "watthours/day"
              => Solar!Series(call.window)[n] = Solar!summarize_watt_hours_per_day(PowerOf(n))
<1> DEFINE cut == Solar!_select_data(Solar!_get_data, call.window.from, call.window.to)
           power == [m \in DOMAIN cut |-> RowsOf(cut[m], call.window.from, call.window.to,
                                                 call.window.interval)]
<1>1. n \in DOMAIN cut
  BY CutOfNode DEF SolarCalled, SolarWindow
<1>2. Solar!Series(call.window) = Solar!_process_watts(power)
  BY Zenon DEF Solar!Series, RowsOf
<1>3. power[n] = PowerOf(n) /\ n \in DOMAIN power
  BY <1>1 DEF PowerOf, CutOf
<1> HIDE DEF power
<1>4. CASE Solar!DataType = "watts"
  BY <1>2, <1>3, <1>4 DEF Solar!_process_watts
<1>5. CASE Solar!DataType = "watthours"
  BY <1>2, <1>3, <1>5 DEF Solar!_process_watts
<1>6. CASE Solar!DataType = "watthours/day"
  BY <1>2, <1>3, <1>6 DEF Solar!_process_watts
<1> QED
  BY <1>4, <1>5, <1>6

\* The sum of a day up to its last row, and the row of the day, are the energy of its ticks.
LastRowIs(rows, d, total) ==
  LET ofDay == {t \in DOMAIN rows : Solar!Floor(t, Day) = d}
  IN  ofDay # {} => rows[Solar!Max(ofDay)] = total
LEMMA SumsOfDay ==
  ASSUME NEW v, NEW from, NEW to, NEW k, IsPower(v, from, to, k), NEW d \in Int, d % Day = 0
  PROVE  /\ LastRowIs(Solar!cumulative_watt_hours_per_day(v), d,
                      Total(Energy(v), DayOf(from, to, k, d)))
         /\ LastRowIs(Solar!summarize_watt_hours_per_day(v), d,
                      Total(Energy(v), DayOf(from, to, k, d)))
<1> DEFINE grid == Solar!Grid(from, to, k)
<1>1. /\ from \in Int /\ to \in Int /\ from <= to /\ DOMAIN v = grid
      /\ \A t \in grid : t \in Int /\ from <= t /\ t <= to
  BY DEF IsPower, Solar!Grid
<1> HIDE DEF grid
<1>2. Day \in Nat \ {0}
  BY SolarConstants
<1> DEFINE S == DayOf(from, to, k, d)
<1>3. ASSUME NEW t \in S
      PROVE  t \in Int /\ from <= t /\ t <= to /\ d <= t /\ t < d + Day
  <2>1. t \in grid /\ Solar!Floor(t, Day) = d
    BY DEF DayOf, grid
  <2>2. t \in Int
    BY <1>1, <2>1
  <2>3. Solar!Floor(t, Day) <= t /\ t < Solar!Floor(t, Day) + Day
    BY <1>2, <2>2, SolarRounds
  <2> QED
    BY <1>1, <2>1, <2>3
<1>4. ASSUME NEW t \in grid, d <= t, t < d + Day
      PROVE  t \in S
  <2>1. t \in Int
    BY <1>1
  <2>2. Solar!Floor(t, Day) = d
    BY <1>2, <1>4, <2>1, SolarFloorIs
  <2> QED
    BY <2>2 DEF DayOf, grid
<1>5. ASSUME NEW C, C = Solar!cumulative_watt_hours_per_day(v),
             {t \in DOMAIN C : Solar!Floor(t, Day) = d} # {}
      PROVE  C[Solar!Max({t \in DOMAIN C : Solar!Floor(t, Day) = d})] = Total(Energy(v), S)
  <2>1. C = [t \in DOMAIN v |->
               Total(Energy(v), {u \in DOMAIN v : Solar!Floor(t, Day) <= u /\ u <= t})]
    BY <1>5, Zenon DEF Solar!cumulative_watt_hours_per_day, Total, Energy
  <2>2. {t \in DOMAIN C : Solar!Floor(t, Day) = d} = S
    BY <1>1, <2>1 DEF DayOf, grid
  <2>3. S \in SUBSET Int /\ IsFiniteSet(S) /\ S # {}
    <3>1. S \in SUBSET (from..to)
      BY <1>1 DEF DayOf, grid
    <3>2. from..to \in SUBSET Int /\ IsFiniteSet(from..to)
      BY <1>1, FS_Interval
    <3> HIDE DEF S
    <3>3. IsFiniteSet(S)
      BY <3>1, <3>2, FS_Subset
    <3> QED
      BY <1>5, <2>2, <3>1, <3>2, <3>3
  <2> HIDE DEF S
  <2>4. PICK m \in S : \A y \in S : m >= y
    BY <2>3, FiniteHasEnds DEF HasEnds
  <2>5. Solar!Max(S) = m
    BY <2>3, <2>4, SolarMaxIs
  <2>6. m \in grid /\ Solar!Floor(m, Day) = d
    BY <2>4 DEF S, DayOf, grid
  <2>7. C[m] = Total(Energy(v), {u \in DOMAIN v : d <= u /\ u <= m})
    BY <1>1, <2>1, <2>6
  <2>8. {u \in DOMAIN v : d <= u /\ u <= m} = S
    <3>1. ASSUME NEW u \in DOMAIN v, d <= u, u <= m PROVE u \in S
      BY <1>1, <1>3, <1>4, <2>4, <3>1, <1>2
    <3>2. ASSUME NEW u \in S PROVE u \in DOMAIN v /\ d <= u /\ u <= m
      <4>1. u \in grid
        BY DEF S, DayOf, grid
      <4> QED
        BY <1>1, <1>3, <2>3, <2>4, <4>1
    <3> QED
      BY <3>1, <3>2
  <2> QED
    BY <2>2, <2>5, <2>7, <2>8
<1>6. ASSUME NEW C, C = Solar!summarize_watt_hours_per_day(v),
             {t \in DOMAIN C : Solar!Floor(t, Day) = d} # {}
      PROVE  C[Solar!Max({t \in DOMAIN C : Solar!Floor(t, Day) = d})] = Total(Energy(v), S)
  <2> DEFINE days == Solar!Grid(Solar!Floor(from, Day), to, Day)
  <2>1. C = [b \in days |-> Total(Energy(v), {u \in DOMAIN v : Solar!Floor(u, Day) = b})]
    BY <1>6, EndsOfPower, Zenon DEF Solar!summarize_watt_hours_per_day, Total, Energy
  <2>2. ASSUME NEW b \in days, Solar!Floor(b, Day) = d
        PROVE  b = d
    <3>1. Solar!Floor(from, Day) \in Int
      BY <1>1, <1>2, SolarRounds
    <3>2. b \in Int /\ b % Day = 0
      BY <1>1, <3>1 DEF Solar!Grid
    <3>3. b <= b /\ b < b + Day
      BY <1>2, <3>2
    <3>4. Solar!Floor(b, Day) = b
      BY <1>2, <3>2, <3>3, SolarFloorIs
    <3> QED
      BY <2>2, <3>4
  <2>3. DOMAIN C = days
    BY <2>1
  <2>4. {t \in DOMAIN C : Solar!Floor(t, Day) = d} = {d} /\ d \in days
    BY <1>6, <2>2, <2>3
  <2>5. Solar!Max({d}) = d
    <3>1. {d} \in SUBSET Int /\ d \in {d} /\ \A y \in {d} : d >= y
      OBVIOUS
    <3> QED
      BY <3>1, SolarMaxIs
  <2>6. C[d] = Total(Energy(v), {u \in DOMAIN v : Solar!Floor(u, Day) = d})
    BY <2>1, <2>4
  <2> QED
    BY <1>1, <2>4, <2>5, <2>6 DEF DayOf, grid
<1> QED
  BY <1>5, <1>6 DEF LastRowIs

\* What is asked for and read so far; the answer is made from all of it.
SolarReads ==
  /\ SolarTypes
  /\ DOMAIN frames \in SUBSET Nodes /\ \A n \in DOMAIN frames : frames[n] = service[n].forecast
  /\ stage # "idle" /\ call.is = "read_series" => SolarWindow(call.window)
  /\ stage = "answered" /\ call.is = "read_series" =>
       SolarGathered /\ answer = Solar!Series(call.window)
SolarInv == connection = "forecastsolar" => SolarReads

\* The energy of the forecast for a day is that of the rows of the window.
DayTotal(n, d) ==
  Total(Energy(PowerOf(n)), DayOf(call.window.from, call.window.to, call.window.interval, d))
DayIsCovered(n, d) ==
  \A t \in Solar!RowsOfDay(d) :
    Solar!Covered(n, t) /\ Solar!Covered(n, t - call.window.interval)
LEMMA EnergyOfForecast ==
  ASSUME SolarCalled, NEW n \in Solar!Read, NEW d \in Int, DayIsCovered(n, d)
  PROVE  DayTotal(n, d) = Solar!EnergyOf(n, d)
<1> DEFINE from == call.window.from
           to == call.window.to
           k == call.window.interval
           v == PowerOf(n)
           S == DayOf(from, to, k, d)
           rows == Solar!RowsOfDay(d)
           energy == [t \in rows |-> (Solar!Forecast(n, t) + Solar!Forecast(n, t - k)) * k]
<1>1. from \in Int /\ to \in Int /\ from <= to /\ k \in Nat \ {0} /\ from % k = 0
  BY DEF SolarCalled, SolarWindow
<1>2. /\ IsPower(v, from, to, k)
      /\ \A t \in DOMAIN v : t \in Int /\ (Solar!Covered(n, t) => v[t] = Solar!Forecast(n, t))
      /\ \A t \in Int : Solar!Forecast(n, t) \in Int
  BY PowerOfNode
<1>3. DOMAIN v = Solar!Grid(from, to, k)
  BY <1>2 DEF IsPower
<1> HIDE DEF v
<1>4. rows = S \ {from}
  BY <1>1 DEF Solar!RowsOfDay, Solar!Grid, DayOf
<1>5. ASSUME NEW t \in S \ {from}
      PROVE  v[t] \in Int /\ v[t - k] \in Int /\ energy[t] = (v[t] + v[t - k]) * k
  <2>1. t \in Int /\ from < t /\ t <= to /\ t % k = 0
    BY <1>1 DEF DayOf, Solar!Grid
  <2>2. PICK b \in Int : b = t - k
    BY <1>1, <2>1
  <2>3. from <= b /\ b % k = 0 /\ b <= to
    BY <1>1, <2>1, <2>2, RowsApart
  <2>4. t \in DOMAIN v /\ b \in DOMAIN v
    BY <1>1, <1>3, <2>1, <2>2, <2>3 DEF Solar!Grid
  <2>5. t \in rows
    BY <1>4
  <2>6. Solar!Covered(n, t) /\ Solar!Covered(n, b)
    BY <2>2, <2>5 DEF DayIsCovered
  <2>7. v[t] = Solar!Forecast(n, t) /\ v[b] = Solar!Forecast(n, b)
    BY <1>2, <2>4, <2>6
  <2>8. energy[t] = (Solar!Forecast(n, t) + Solar!Forecast(n, t - k)) * k
    <3> HIDE DEF rows, k
    <3> QED
      BY <2>5
  <2> HIDE DEF energy, k
  <2> QED
    BY <1>2, <2>1, <2>2, <2>7, <2>8
<1>6. Solar!EnergyOf(n, d) = Total(energy, rows)
  BY Zenon DEF Solar!EnergyOf, Total
<1> HIDE DEF energy, S, rows, k, from, to
<1>7. Total(Energy(v), S) = Total(energy, S \ {from})
  BY <1>2, <1>5, EnergyOfDay DEF S
<1>8. DayTotal(n, d) = Total(Energy(v), S)
  BY DEF DayTotal, v, S, from, to, k
<1> QED
  BY <1>4, <1>6, <1>7, <1>8

LEMMA AnswerIsForecast ==
  ASSUME SolarReads
  PROVE  Solar!PowerIsForecast /\ Solar!EnergyAddsUp
<1>1. CASE ~(stage = "answered" /\ call.is = "read_series")
  BY <1>1 DEF Solar!PowerIsForecast, Solar!EnergyAddsUp, Solar!Answered
<1>2. CASE stage = "answered" /\ call.is = "read_series"
  <2>1. SolarCalled /\ answer = Solar!Series(call.window)
    BY <1>2 DEF SolarReads, SolarCalled
  <2>2. Solar!PowerIsForecast
    <3>1. SUFFICES ASSUME Solar!DataType = "watts", NEW n \in Solar!Read,
                          NEW t \in DOMAIN answer[n], Solar!Covered(n, t)
                   PROVE  answer[n][t] = Solar!Forecast(n, t)
      BY DEF Solar!PowerIsForecast, Solar!Answered
    <3>2. answer[n] = PowerOf(n)
      BY <2>1, <3>1, SeriesOfNode
    <3> QED
      BY <2>1, <3>1, <3>2, PowerOfNode
  <2>3. Solar!EnergyAddsUp
    <3> DEFINE rowsOf(n, d) == {t \in DOMAIN answer[n] : Solar!Floor(t, Day) = d}
    <3>1. SUFFICES ASSUME Solar!DataType \in {"watthours", "watthours/day"},
                          NEW n \in Solar!Read,
                          NEW d \in Solar!Grid(Solar!Floor(call.window.from, Day),
                                              call.window.to, Day),
                          rowsOf(n, d) # {}, DayIsCovered(n, d)
                   PROVE  answer[n][Solar!Max(rowsOf(n, d))] = Solar!EnergyOf(n, d)
      BY Zenon DEF Solar!EnergyAddsUp, Solar!Answered, DayIsCovered
    <3>2. d \in Int /\ d % Day = 0
      <4>1. call.window.from \in Int /\ call.window.to \in Int
        BY <2>1 DEF SolarCalled, SolarWindow
      <4>2. Solar!Floor(call.window.from, Day) \in Int
        BY <4>1, SolarConstants, SolarRounds
      <4> QED
        BY <3>1, <4>1, <4>2 DEF Solar!Grid
    <3>3. /\ IsPower(PowerOf(n), call.window.from, call.window.to, call.window.interval)
          /\ DayTotal(n, d) = Solar!EnergyOf(n, d)
      BY <2>1, <3>1, <3>2, EnergyOfForecast, PowerOfNode
    <3>4. CASE Solar!DataType = "watthours"
      <4>1. answer[n] = Solar!cumulative_watt_hours_per_day(PowerOf(n))
        BY <2>1, <3>4, SeriesOfNode
      <4>2. LastRowIs(answer[n], d, DayTotal(n, d))
        BY <3>2, <3>3, <4>1, SumsOfDay DEF DayTotal
      <4> QED
        BY <3>1, <3>3, <4>2, Zenon DEF LastRowIs
    <3>5. CASE Solar!DataType = "watthours/day"
      <4>1. answer[n] = Solar!summarize_watt_hours_per_day(PowerOf(n))
        BY <2>1, <3>5, SeriesOfNode
      <4>2. LastRowIs(answer[n], d, DayTotal(n, d))
        BY <3>2, <3>3, <4>1, SumsOfDay DEF DayTotal
      <4> QED
        BY <3>1, <3>3, <4>2, Zenon DEF LastRowIs
    <3> QED
      BY <3>1, <3>4, <3>5
  <2> QED
    BY <2>2, <2>3
<1> QED
  BY <1>1, <1>2

\* Every step of a call keeps what was read the forecast of its node.
LEMMA SolarStep ==
  ASSUME SolarReads, Solar!ForecastsolarNext
  PROVE  SolarReads'
<1>1. CASE Solar!read_series
  <2>1. PICK w \in SolarWindows :
          call' = [is |-> "read_series",
                   window |-> Solar!_preprocess_series_context(w.from, w.to, w.interval)]
    BY <1>1 DEF Solar!read_series
  <2>2. w.from \in Int /\ w.to \in Int /\ w.interval \in Nat \ {0} /\ w.from <= w.to
    BY SolarConstants
  <2>3. call'.window = [from |-> Solar!Floor(w.from, w.interval),
                        to |-> Solar!Ceil(w.to, w.interval), interval |-> w.interval]
    BY <2>1 DEF Solar!_preprocess_series_context, Solar!round_timestamp
  <2>4. SolarWindow(call.window)'
    <3>1. Solar!Floor(w.from, w.interval) \in Int /\ Solar!Floor(w.from, w.interval) <= w.from
      BY <2>2, SolarRounds
    <3>2. Solar!Ceil(w.to, w.interval) \in Int /\ w.to <= Solar!Ceil(w.to, w.interval)
      BY <2>2, SolarRounds
    <3>3. Solar!Floor(w.from, w.interval) % w.interval = 0
      BY <2>2, SolarFloorDivides
    <3>4. Solar!Ceil(w.to, w.interval) % w.interval = 0
      BY <2>2, SolarCeilDivides
    <3> QED
      BY <2>2, <2>3, <3>1, <3>2, <3>3, <3>4 DEF SolarWindow
  <2>5. UNCHANGED <<service, frames, answer>> /\ stage' = "reading"
    BY <1>1 DEF Solar!read_series
  <2> QED
    BY <2>4, <2>5 DEF SolarReads, SolarTypes
<1>2. CASE Solar!read
  <2>1. UNCHANGED <<service, frames, answer>> /\ stage' = "reading" /\ call'.is = "read"
    BY <1>2 DEF Solar!read
  <2> QED
    BY <2>1 DEF SolarReads, SolarTypes
<1>3. ASSUME NEW n \in Nodes, Solar!Thread(n)
      PROVE  SolarReads'
  <2>1. /\ stage = "reading" /\ UNCHANGED <<stage, call, service, answer>>
        /\ frames' = [m \in DOMAIN frames \cup {n} |->
                        IF m = n THEN service[n].forecast ELSE frames[m]]
    BY <1>3 DEF Solar!Thread
  <2>2. \A m \in DOMAIN frames' : frames'[m] = service'[m].forecast
    BY <2>1 DEF SolarReads
  <2>3. DOMAIN frames' \in SUBSET Nodes
    BY <2>1 DEF SolarReads
  <2> QED
    BY <2>1, <2>2, <2>3 DEF SolarReads, SolarTypes, SolarWindow
<1>4. CASE Solar!Return
  <2>1. /\ stage = "reading" /\ stage' = "answered" /\ DOMAIN frames = Nodes
        /\ UNCHANGED <<call, service, frames>>
        /\ call.is = "read_series" => answer' = Solar!Series(call.window)
    BY <1>4 DEF Solar!Return
  <2>2. Solar!Series(call.window)' = Solar!Series(call.window)
    BY <2>1 DEF Solar!Series, Solar!_process_watts, Solar!_get_data, Solar!DataType
  <2>3. SolarGathered'
    BY <2>1 DEF SolarReads, SolarGathered
  <2> QED
    BY <2>1, <2>2, <2>3 DEF SolarReads, SolarTypes, SolarWindow
<1> QED
  BY <1>1, <1>2, <1>3, <1>4 DEF Solar!ForecastsolarNext

\* The power of a row is what was forecast for the node at its time, and the energy of a
\* day that of the forecast at its rows, for any number of nodes, any window and interval,
\* in all rows that lie between times where the service says so.
THEOREM SolarForecastIsReturned == Spec => []ForecastIsReturned
<1>1. ASSUME Init PROVE SolarInv
  <2>1. SUFFICES ASSUME connection = "forecastsolar" PROVE SolarReads
    BY DEF SolarInv
  <2>2. Solar!ForecastsolarInit
    BY <1>1, <2>1 DEF Init
  <2> QED
    BY <2>2 DEF Solar!ForecastsolarInit, SolarReads, SolarTypes
<1>2. ASSUME SolarInv, [Next]_vars PROVE SolarInv'
  <2>1. SUFFICES ASSUME connection' = "forecastsolar" PROVE SolarReads'
    BY DEF SolarInv
  <2>2. connection = "forecastsolar" /\ (Solar!ForecastsolarNext \/ UNCHANGED request)
    BY <1>2, <2>1 DEF Next, vars, request
  <2>3. SolarReads
    BY <1>2, <2>2 DEF SolarInv
  <2>4. CASE UNCHANGED request
    <3>1. UNCHANGED <<stage, call, service, frames, answer>>
      BY <2>4 DEF request
    <3>2. Solar!Series(call.window)' = Solar!Series(call.window)
      BY <3>1 DEF Solar!Series, Solar!_process_watts, Solar!_get_data, Solar!DataType
    <3> QED
      BY <2>3, <3>1, <3>2 DEF SolarReads, SolarTypes, SolarGathered, SolarWindow
  <2> QED
    BY <2>2, <2>3, <2>4, SolarStep
<1>3. SolarInv => ForecastIsReturned
  BY AnswerIsForecast DEF SolarInv, ForecastIsReturned
<1> QED
  BY <1>1, <1>2, <1>3, PTL DEF Spec
=============================================================================
