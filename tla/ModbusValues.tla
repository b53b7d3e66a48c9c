---------------------------- MODULE ModbusValues ----------------------------
(***************************************************************************)
(* Values of ModbusNodes in the 16 bit holding registers of a device:       *)
(* encode_bits and decode_modbus_value of the nodes, ModbusConnection's     *)
(* and ModbusServer's write and read on one list of registers.              *)
(*                                                                         *)
(* A byte has the values 0..Byte-1 (256 in the code, fewer here), a register *)
(* two of them.  A node is a record of its mb_channel, its length in         *)
(* registers, mb_byteorder and mb_wordorder; its dtype is int.              *)
(***************************************************************************)
EXTENDS Integers, Sequences

CONSTANTS
  Nodes,          \* the nodes, records as above
  Byte,           \* number of values of a byte
  InitialSize     \* number of registers the data bank begins with

ValuesAssumption ==
  /\ \A n \in Nodes : /\ n.channel \in Nat /\ n.length \in Nat \ {0}
                      /\ {n.byteorder, n.wordorder} \subseteq {"little", "big"}
  /\ Byte \in Nat \ {0, 1}
  /\ InitialSize \in Nat

VARIABLES
  regs,           \* the holding registers of the data bank, a list
  written,        \* what each node was last given, unless it was overwritten
  result          \* what the last call returned

vars == <<regs, written, result>>

Nothing == [by |-> "nobody", value |-> 0]
Done == [is |-> "done", of |-> {}, value |-> 0]
Error == [is |-> "error", of |-> {}, value |-> 0]
Value(n, v) == [is |-> "value", of |-> {n}, value |-> v]

\* The same sequence from back to front.
Reversed(s) == [i \in 1..Len(s) |-> s[Len(s) + 1 - i]]

\* How many values k bytes have, and the number they make, the first one the highest.
Power(k) ==
  LET p[i \in 0..k] == IF i = 0 THEN 1 ELSE Byte * p[i - 1] IN p[k]
Number(k, b) ==
  LET value[i \in 0..k] == IF i = 0 THEN 0 ELSE Byte * value[i - 1] + b[i] IN value[k]

\* The range of a signed, and of an unsigned, number of k bytes.
Signed(k) == -(Power(k) \div 2) .. (Power(k) \div 2) - 1
Unsigned(k) == 0 .. Power(k) - 1

-----------------------------------------------------------------------------
(* encode_bits, bitarray_to_registers and decode_modbus_value              *)

\* struct.pack: two's complement, in the order of the node.  A value that is not
\* negative is packed as an unsigned one.
Packed(n, v) ==
  LET k == 2 * n.length
      big == [i \in 1..k |-> (v \div Power(k - i)) % Byte]
  IN  IF n.byteorder = "little" THEN Reversed(big) ELSE big

Encodable(n, v) == v \in Signed(2 * n.length) \cup Unsigned(2 * n.length)

encode_bits(n, v) ==
  LET b == Packed(n, v) IN [i \in 1..n.length |-> Byte * b[2 * i - 1] + b[2 * i]]

\* Mutant: the order of the words is not looked at.
decode_big_only(n, words) ==
  LET k == 2 * n.length
      b == [i \in 1..k |-> IF i % 2 = 1 THEN words[(i + 1) \div 2] \div Byte
                                        ELSE words[i \div 2] % Byte]
      big == IF n.byteorder = "little" THEN Reversed(b) ELSE b
      value == Number(k, big)
  IN  IF value \in Signed(k) THEN value ELSE value - Power(k)

\* The words are put in order, then the bytes read as a signed number.
decode_modbus_value(n, words) ==
  LET k == 2 * n.length
      w == IF n.wordorder = "little" THEN Reversed(words) ELSE words
      b == [i \in 1..k |-> IF i % 2 = 1 THEN w[(i + 1) \div 2] \div Byte ELSE w[i \div 2] % Byte]
      big == IF n.byteorder = "little" THEN Reversed(b) ELSE b
      value == Number(k, big)
  IN  IF value \in Signed(k) THEN value ELSE value - Power(k)

-----------------------------------------------------------------------------
(* The data bank of the server                                             *)

First(n) == n.channel + 1
Last(n) == n.channel + n.length
Overlap(m, n) == First(m) <= Last(n) /\ First(n) <= Last(m)

\* _ensure_databank_capacity: the list is extended with zeros.
capacity(n) ==
  IF Len(regs) >= Last(n) THEN regs
  ELSE [i \in 1..Last(n) |-> IF i <= Len(regs) THEN regs[i] ELSE 0]

Store(rs, n, words) ==
  [i \in 1..Len(rs) |-> IF i \in First(n)..Last(n) THEN words[i - n.channel] ELSE rs[i]]

\* The history: n was given v, and whoever shares a register with it lost it.
Given(n, by, v) ==
  written' = [m \in Nodes |-> CASE m = n -> [by |-> by, value |-> v]
                                [] m # n /\ Overlap(m, n) -> Nothing
                                [] OTHER -> written[m]]

Init ==
  /\ regs = [i \in 1..InitialSize |-> 0]
  /\ written = [n \in Nodes |-> Nothing]
  /\ result = Done

\* ModbusServer.write reverses the registers of a node with little words; a value
\* that is not encoded raises, with the capacity ensured.
server_write(n, v) ==
  LET words == encode_bits(n, v)
  IN  IF Encodable(n, v)
        THEN /\ regs' = Store(capacity(n), n,
                              IF n.wordorder = "little" THEN Reversed(words) ELSE words)
             /\ Given(n, "server", v)
             /\ result' = Done
        ELSE /\ regs' = capacity(n)
             /\ result' = Error
             /\ UNCHANGED written

server_read(n) ==
  /\ regs' = capacity(n)
  /\ result' = IF Len(capacity(n)) < Last(n) THEN Error
               ELSE Value(n, decode_modbus_value(n, SubSeq(capacity(n), First(n), Last(n))))
  /\ UNCHANGED written

\* ModbusConnection.write leaves the order of the registers alone.  Registers the
\* data bank lacks raise a ConnectionError, for read as well.
connection_write(n, v) ==
  IF Encodable(n, v) /\ Last(n) <= Len(regs)
    THEN /\ regs' = Store(regs, n, encode_bits(n, v))
         /\ Given(n, "connection", v)
         /\ result' = Done
    ELSE /\ result' = Error
         /\ UNCHANGED <<regs, written>>

connection_read(n) ==
  /\ result' = IF Last(n) > Len(regs) THEN Error
               ELSE Value(n, decode_modbus_value(n, SubSeq(regs, First(n), Last(n))))
  /\ UNCHANGED <<regs, written>>

Next ==
  \E n \in Nodes :
    \/ server_read(n) \/ connection_read(n)
    \/ \E v \in Signed(2 * n.length) \cup Unsigned(2 * n.length) \cup {Power(2 * n.length)} :
         server_write(n, v) \/ connection_write(n, v)

Spec == Init /\ [][Next]_vars

-----------------------------------------------------------------------------
(* Properties *)

\* The registers are registers, and the data bank only grows as far as a node
\* reaches.
TypeOK ==
  /\ regs \in [1..Len(regs) -> 0..(Power(2) - 1)]
  /\ Len(regs) = InitialSize \/ \E n \in Nodes : Len(regs) = Last(n)

\* What a node was given last is what a read of it returns, over the connection or
\* in the server, if it is a signed number of its length.  A connection must not
\* have written it with little words.
Reads(n) == result.of = {n} /\ written[n].by # "nobody"
Kept(n) == written[n].value \in Signed(2 * n.length) => result.value = written[n].value
ValuesReadBack ==
  \A n \in Nodes :
    Reads(n) /\ (written[n].by = "server" \/ n.wordorder = "big" \/ n.length = 1) => Kept(n)

\* "If the wordorder is little, the bits have to be reversed": the same for the
\* writes of a connection.
WritesOfConnectionReadBack == \A n \in Nodes : Reads(n) => Kept(n)

\* A value the server was given is readable over the connection at once.
WrittenIsReadable == \A n \in Nodes : written[n].by # "nobody" => Last(n) <= Len(regs)
=============================================================================
