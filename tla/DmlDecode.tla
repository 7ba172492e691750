------------------------------ MODULE DmlDecode ------------------------------
(***************************************************************************)
(* dml.rs: decode_dml_message on one payload, an iteration of a loop a     *)
(* step: the fields of the schema, or else the strings found in the bytes. *)
(* Offsets are Rust's: byte i of data is data[i + 1] here.  A value is the *)
(* bytes it is formatted from, so a decoded field is a slice of the payload. *)
(***************************************************************************)
EXTENDS Naturals, Sequences, FiniteSets

CONSTANTS
  Types,            \* the field types of the schemas
  Inputs            \* calls: a payload, the definition found for its ids as an Option,
                    \* and the values it is the serialization of, as an Option

Byte == 0..255

\* The bytes a value takes of a type that is not a string, a type the decoder does not know
\* included.
Size(type) ==
  CASE type \in {"SHRT", "USHRT"} -> 2
    [] type \in {"INT", "UINT", "FLT"} -> 4
    [] type \in {"DBL", "GID", "UINT64"} -> 8
    [] OTHER -> 1

\* The encoding of README.md:116-129: a value is its bytes, in a string the bytes of its
\* characters, which the length counts.
LE16(n) == <<n % 256, (n \div 256) % 256>>
Encoded(type, value) ==
  CASE type = "STR" -> LE16(Len(value)) \o value
    [] type = "WSTR" -> LE16(Len(value) \div 2) \o value
    [] OTHER -> value

\* What a field of that type can hold: a length has two bytes, a wide character too.
Fits(type, value) ==
  CASE type = "STR" -> Len(value) < 65536
    [] type = "WSTR" -> Len(value) % 2 = 0 /\ Len(value) \div 2 < 65536
    [] OTHER -> Len(value) = Size(type)

\* The values, each with its place, lie one behind the other and fill the payload.
Serializes(payload, types, values) ==
  /\ Len(values) = Len(types)
  /\ \A k \in DOMAIN values :
       /\ Fits(types[k], values[k].bytes)
       /\ values[k].to = values[k].from + Len(Encoded(types[k], values[k].bytes))
       /\ SubSeq(payload, values[k].from + 1, values[k].to) = Encoded(types[k], values[k].bytes)
       /\ values[k].from = IF k = 1 THEN 0 ELSE values[k - 1].to
  /\ Len(payload) = IF values = <<>> THEN 0 ELSE values[Len(values)].to

Value == [bytes : Seq(Byte), from : Nat, to : Nat]

ASSUME InputAssumption ==
  \A in \in Inputs :
    /\ in.payload \in Seq(Byte)
    /\ in.definition \in Seq(Seq(Types)) /\ Len(in.definition) <= 1
    /\ in.values \in Seq(Seq(Value)) /\ Len(in.values) <= 1
    /\ in.values # <<>> =>
         /\ in.definition # <<>>
         /\ Serializes(in.payload, in.definition[1], in.values[1])

VARIABLES
  input,            \* the arguments
  pc,               \* "begin", "fields", "wide", "ascii" or "done"
  offset,           \* decode_fields: the next byte
  fields,           \* decode_fields: per field its type, slice [from, to) and whether it
                    \* was long enough; "?" is shown when not
  i,                \* the scanners: the next byte
  strings           \* extract_readable_content: kind and slice of each string

vars == <<input, pc, offset, fields, i, strings>>

data == input.payload
msg_def == input.definition

Init ==
  /\ input \in Inputs
  /\ pc = "begin"
  /\ offset = 0 /\ fields = <<>>
  /\ i = 0 /\ strings = <<>>

-----------------------------------------------------------------------------
\* A u64 in [2^32, 2^47 - 1), by its eight bytes.
IsUserPointer(q) ==
  /\ q[5] # 0 \/ q[6] # 0
  /\ q[6] < 128 /\ q[7] = 0 /\ q[8] = 0
  /\ q # <<255, 255, 255, 255, 255, 127, 0, 0>>

\* The first eight whole qwords of b.
Qwords(b) == {k \in 0..7 : 8 * k + 8 <= Len(b)}

\* payload_contains_pointers.
PayloadContainsPointers(b) ==
  /\ Len(b) >= 16
  /\ Cardinality({k \in Qwords(b) : IsUserPointer(SubSeq(b, 8 * k + 1, 8 * k + 8))}) >= 2

\* The bytes a field of that type takes at offset o: for strings with the prefixed length.
Word(o) == data[o + 1] + 256 * data[o + 2]

\* Mutated form: a WSTR's length counts bytes.
NeedsBytes(type, o) ==
  CASE type \in {"STR", "WSTR"} -> IF Len(data) < o + 2 THEN 2 ELSE 2 + Word(o)
    [] OTHER -> Size(type)

Needs(type, o) ==
  CASE type = "STR" -> IF Len(data) < o + 2 THEN 2 ELSE 2 + Word(o)
    [] type = "WSTR" -> IF Len(data) < o + 2 THEN 2 ELSE 2 + 2 * Word(o)
    [] OTHER -> Size(type)

\* read_field: a field that is cut short is "?" and consumes nothing.
ReadField(type, o) ==
  LET known == o + Needs(type, o) <= Len(data)
  IN [type |-> type, from |-> o, to |-> IF known THEN o + Needs(type, o) ELSE o, known |-> known]

-----------------------------------------------------------------------------
\* decode_dml_message: fields when there is a definition and nothing like pointers.
Begin ==
  /\ pc = "begin"
  /\ pc' = IF msg_def # <<>> /\ ~PayloadContainsPointers(data) THEN "fields" ELSE "wide"
  /\ UNCHANGED <<input, offset, fields, i, strings>>

\* Mutated form: a field that is cut short is passed over by its size.
DecodeFieldSkips ==
  /\ pc = "fields"
  /\ Len(fields) < Len(msg_def[1]) /\ offset < Len(data)
  /\ LET field == ReadField(msg_def[1][Len(fields) + 1], offset)
     IN /\ fields' = Append(fields, field)
        /\ offset' = IF field.known THEN field.to ELSE Len(data)
  /\ UNCHANGED <<input, pc, i, strings>>

\* decode_fields: the next field, as long as there are bytes.
DecodeField ==
  /\ pc = "fields"
  /\ Len(fields) < Len(msg_def[1]) /\ offset < Len(data)
  /\ LET field == ReadField(msg_def[1][Len(fields) + 1], offset)
     IN /\ fields' = Append(fields, field)
        /\ offset' = field.to
  /\ UNCHANGED <<input, pc, i, strings>>

\* decode_fields returns; without fields the strings are extracted after all.
FieldsDone ==
  /\ pc = "fields"
  /\ Len(fields) = Len(msg_def[1]) \/ offset >= Len(data)
  /\ pc' = IF fields = <<>> THEN "wide" ELSE "done"
  /\ UNCHANGED <<input, offset, fields, i, strings>>

Printable(b) == b \in 32..126

\* is_printable_wide at j.
PrintableWide(j) == j + 1 < Len(data) /\ Printable(data[j + 1]) /\ data[j + 2] = 0

\* is_ascii_graphic or a space at j.
PrintableAscii(j) == j < Len(data) /\ Printable(data[j + 1])

\* Where the run that starts at j ends, the first place that is not printable.
WideEnd(j) ==
  CHOOSE e \in j..Len(data) :
    /\ (e - j) % 2 = 0 /\ ~PrintableWide(e)
    /\ \A k \in j..(e - 1) : (k - j) % 2 = 0 => PrintableWide(k)
AsciiEnd(j) ==
  CHOOSE e \in j..Len(data) :
    ~PrintableAscii(e) /\ \A k \in j..(e - 1) : PrintableAscii(k)

\* Mutated form: the search goes on a whole unit behind a byte that starts no string.
ScanWideByUnits ==
  /\ pc = "wide" /\ i + 1 < Len(data)
  /\ IF PrintableWide(i)
     THEN /\ strings' = IF WideEnd(i) - i >= 8
                        THEN Append(strings, [kind |-> "WSTR", from |-> i, to |-> WideEnd(i)])
                        ELSE strings
          /\ i' = WideEnd(i) + 1
     ELSE i' = i + 2 /\ UNCHANGED strings
  /\ UNCHANGED <<input, pc, offset, fields>>

\* An iteration of extract_utf16_strings: four units are a string.
ScanWide ==
  /\ pc = "wide" /\ i + 1 < Len(data)
  /\ IF PrintableWide(i)
     THEN /\ strings' = IF WideEnd(i) - i >= 8
                        THEN Append(strings, [kind |-> "WSTR", from |-> i, to |-> WideEnd(i)])
                        ELSE strings
          /\ i' = WideEnd(i) + 1
     ELSE i' = i + 1 /\ UNCHANGED strings
  /\ UNCHANGED <<input, pc, offset, fields>>

WideDone ==
  /\ pc = "wide" /\ i + 1 >= Len(data)
  /\ pc' = "ascii" /\ i' = 0
  /\ UNCHANGED <<input, offset, fields, strings>>

\* An iteration of extract_ascii_strings: six bytes are a string.
ScanAscii ==
  /\ pc = "ascii" /\ i < Len(data)
  /\ IF PrintableAscii(i)
     THEN /\ strings' = IF AsciiEnd(i) - i >= 6
                        THEN Append(strings, [kind |-> "STR", from |-> i, to |-> AsciiEnd(i)])
                        ELSE strings
          /\ i' = AsciiEnd(i) + 1
     ELSE i' = i + 1 /\ UNCHANGED strings
  /\ UNCHANGED <<input, pc, offset, fields>>

AsciiDone ==
  /\ pc = "ascii" /\ i >= Len(data)
  /\ pc' = "done"
  /\ UNCHANGED <<input, offset, fields, i, strings>>

Next ==
  \/ Begin \/ DecodeField \/ FieldsDone
  \/ ScanWide \/ WideDone \/ ScanAscii \/ AsciiDone

Spec == Init /\ [][Next]_vars

-----------------------------------------------------------------------------
Field == [type : Types, from : Nat, to : Nat, known : BOOLEAN]
String == [kind : {"STR", "WSTR"}, from : Nat, to : Nat]

\* s is a slice of the bytes b.
SliceOf(s, b) == s.from <= s.to /\ s.to <= Len(b)

\* The types; every slice ever taken lies in the payload: no index is out of range.
TypeOK ==
  /\ data \in Seq(Byte) /\ msg_def \in Seq(Seq(Types)) /\ Len(msg_def) <= 1
  /\ pc \in {"begin", "fields", "wide", "ascii", "done"}
  /\ offset \in 0..Len(data)
  /\ i \in 0..(Len(data) + 1)
  /\ fields \in Seq(Field) /\ \A k \in DOMAIN fields : SliceOf(fields[k], data)
  /\ strings \in Seq(String) /\ \A k \in DOMAIN strings : SliceOf(strings[k], data)

\* decode_fields skips no byte and reads none twice, whatever fields are cut short:
\* each field starts where the one before ends, and has the type the definition has there.
FieldsContiguous ==
  /\ Len(fields) = 0 => offset = 0
  /\ Len(fields) > 0 => fields[1].from = 0 /\ fields[Len(fields)].to = offset
  /\ \A k \in 1..(Len(fields) - 1) : fields[k].to = fields[k + 1].from
  /\ Len(fields) > 0 => msg_def # <<>> /\ Len(fields) <= Len(msg_def[1])
  /\ \A k \in DOMAIN fields : fields[k].type = msg_def[1][k]

\* The fields shown are the ones serialized, each with its own bytes.
ShowsValues ==
  LET values == input.values[1]
  IN /\ Len(fields) = Len(values)
     /\ \A k \in DOMAIN values :
          fields[k].known /\
            SubSeq(data, fields[k].from + 1, fields[k].to) = Encoded(msg_def[1][k], values[k].bytes)

\* A serialized message whose bytes are not taken for pointers is decoded into its
\* values.
SerializedDecoded ==
  pc = "done" /\ input.values # <<>> /\ ~PayloadContainsPointers(data) => ShowsValues

\* The strings that a reader would mark: runs that no byte before or behind prolongs.
WideRuns ==
  {s \in [kind : {"WSTR"}, from : 0..Len(data), to : 0..Len(data)] :
     /\ s.to >= s.from + 8 /\ (s.to - s.from) % 2 = 0
     /\ \A k \in s.from..(s.to - 1) : (k - s.from) % 2 = 0 => PrintableWide(k)
     /\ ~PrintableWide(s.to) /\ (s.from >= 2 => ~PrintableWide(s.from - 2))}
AsciiRuns ==
  {s \in [kind : {"STR"}, from : 0..Len(data), to : 0..Len(data)] :
     /\ s.to >= s.from + 6
     /\ \A k \in s.from..(s.to - 1) : PrintableAscii(k)
     /\ ~PrintableAscii(s.to) /\ (s.from >= 1 => ~PrintableAscii(s.from - 1))}

\* Without decoded fields the strings shown are exactly those runs, UTF-16 first, each
\* kind in the order of the payload.
StringsExact ==
  pc = "done" /\ fields = <<>> =>
    /\ {strings[k] : k \in DOMAIN strings} = WideRuns \cup AsciiRuns
    /\ \A k \in 1..(Len(strings) - 1) :
         \/ strings[k].kind = "WSTR" /\ strings[k + 1].kind = "STR"
         \/ strings[k].kind = strings[k + 1].kind /\ strings[k].to <= strings[k + 1].from

=============================================================================
