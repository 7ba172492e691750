----------------------------- MODULE MCDmlDecode -----------------------------
(***************************************************************************)
(* Instances of DmlDecode for TLC.                                         *)
(***************************************************************************)
EXTENDS DmlDecode, SequencesExt

\* A type the decoder does not know is among them.
AllTypes == {"BYT", "UBYT", "SHRT", "USHRT", "INT", "UINT", "FLT", "DBL", "STR", "WSTR", "GID",
             "UINT64", "XYZ"}

\* Values: small numbers, ids that reach into the upper half of eight bytes as pointers
\* do, strings with and without characters.
Id == <<1, 0, 0, 0, 2, 0, 0, 0>>
Values ==
  { <<"BYT", <<200>>>>, <<"SHRT", <<1, 0>>>>, <<"INT", <<5, 0, 0, 0>>>>, <<"GID", Id>>,
    <<"STR", <<>>>>, <<"STR", <<72, 105>>>>, <<"WSTR", <<>>>>, <<"WSTR", <<72, 0, 105, 0>>>>,
    <<"XYZ", <<9>>>> }
OtherValues ==
  { <<"UBYT", <<255>>>>, <<"USHRT", <<0, 255>>>>, <<"UINT", <<0, 0, 0, 255>>>>,
    <<"FLT", <<0, 0, 128, 63>>>>, <<"DBL", <<0, 0, 0, 0, 0, 0, 240, 63>>>>, <<"UINT64", Id>> }

TypesOf(m) == [k \in DOMAIN m |-> m[k][1]]
Serialized(m) == FlattenSeq([k \in DOMAIN m |-> Encoded(m[k][1], m[k][2])])

Places(m) ==
  [k \in DOMAIN m |->
     LET from == Len(Serialized(SubSeq(m, 1, k - 1)))
     IN [bytes |-> m[k][2], from |-> from, to |-> from + Len(Encoded(m[k][1], m[k][2]))]]

\* A message as it was serialized, and what is left of one.
Whole(m) ==
  [payload |-> Serialized(m), definition |-> <<TypesOf(m)>>,
   values |-> <<Places(m)>>]
Cut(m, n) ==
  [payload |-> SubSeq(Serialized(m), 1, n), definition |-> <<TypesOf(m)>>, values |-> <<>>]

\* Every message of up to three fields, the other types one by one, and a long message
\* whose second pointer lies behind the 64 bytes that are looked at.
Messages ==
  UNION {[1..n -> Values] : n \in 0..3}
    \cup {<<v, w>> : v \in OtherValues, w \in OtherValues}
    \cup {[k \in 1..9 |-> <<"GID", IF k \in {1, 9} THEN Id ELSE <<0, 0, 0, 0, 0, 0, 0, 0>>>>]}
Pairs == [1..2 -> Values]

\* Messages of services without a schema: all short arrangements of a printable byte, a
\* zero and a byte that is neither.
Unknown(payload) == [payload |-> payload, definition |-> <<>>, values |-> <<>>]
Raw ==
  {Unknown(p) : p \in UNION {[1..n -> {65, 0}] : n \in 0..11}}
    \cup {Unknown(p) : p \in [1..7 -> {65, 0, 200}]}

\* An object in memory: two pointers, a text and what is behind it.
Object ==
  [payload |-> <<16, 0, 0, 0, 246, 127, 0, 0>> \o <<32, 0, 0, 0, 12, 1, 0, 0>>
               \o <<72, 0, 101, 0, 108, 0, 108, 0, 111, 0, 7, 7>> \o <<83, 104, 97, 100, 111, 119>>,
   definition |-> << <<"WSTR", "INT">> >>, values |-> <<>>]

DecodeInputs ==
  {Whole(m) : m \in Messages}
    \cup UNION {{Cut(m, n) : n \in 0..(Len(Serialized(m)) - 1)} : m \in Pairs}
    \cup Raw \cup {Object}

=============================================================================
