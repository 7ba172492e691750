---------------------------- MODULE MCLoadSchemas ----------------------------
(***************************************************************************)
(* Archives, one after another, and the schema files in them.              *)
(***************************************************************************)
EXTENDS LoadSchemas

AllWords == STRING

Field(name, type) == [name |-> name, field_type |-> type]
Msg(name, order, fields) == [name |-> name, order |-> order, fields |-> fields]
Doc(layout, id, protocol, msgs) ==
  [layout |-> layout, id |-> id, protocol |-> protocol, messages |-> msgs]

\* Orders counted, orders written and both; fields and none.
Counted == << Msg("MSG_A", 0, <<Field("X", "INT"), Field("Y", "STR")>>), Msg("MSG_B", 0, <<>>) >>
Mixed ==
  << Msg("MSG_C", 7, <<Field("Z", "GID")>>), Msg("MSG_D", 0, <<>>), Msg("MSG_E", 255, <<>>) >>
Many == [i \in 1..257 |-> Msg("M", 0, <<>>)]

\* The game's schema in two versions, and one that ends within its second record; two of one
\* service id; one that ends within this id, 59, and is the game's service 5 then; one with
\* more messages than there are orders; one with white space, and one with empty tags.  What
\* is read from the wrong place is no UTF-8.
MCFiles == {"game 1", "game 2", "game cut", "pets", "pets cut", "patch", "wide", "spaced",
            "tags", "empty", "junk"}

\* What a failed write may leave: nothing, or the game's and the pets' schemas in part.
MCTorn ==
  [f \in MCFiles |->
     {"empty"} \cup IF f = "game 1" THEN {"game cut"}
                   ELSE IF f = "pets" THEN {"pets cut"} ELSE {}]

\* The names of the archives' files, without that of "Messages/Quests.xml".
MCMessagesXml == {"GameMessages.xml", "PetMessages.xml"}
MCStem ==
  [n \in MCMessagesXml |-> IF n = "GameMessages.xml" THEN "GameMessages" ELSE "PetMessages"]
MCDocuments ==
  [f \in MCFiles |->
     CASE f \in {"game 1", "game cut"} -> Doc("compact", 5, "GAME", Counted)
       [] f = "game 2" -> Doc("compact", 5, "GAME", Mixed)
       [] f \in {"pets", "pets cut"} -> Doc("compact", 59, "PETS", Counted)
       [] f = "patch" -> Doc("compact", 59, "PATCH", Mixed)
       [] f = "wide" -> Doc("compact", 7, "", Many)
       [] f = "spaced" -> Doc("indented", 5, "GAME", Counted)
       [] f = "tags" -> Doc("empty tags", 59, "PETS", Counted)
       [] OTHER -> Doc("compact", 8, "NONE", <<>>)]

\* How document d is written: events, each with the place it leads to.  Some messages have a
\* note behind their name.
Step(e, q) == [ev |-> e, to |-> q]
At(part, done, fields) == [part |-> part, done |-> done, fields |-> fields, inside |-> "none"]
NoteSteps(p) ==
  <<Step(Start("_MsgDescription", "STR"), [p EXCEPT !.inside = "note"]),
    Step(Text("note"), [p EXCEPT !.inside = "note"]), Step(End("_MsgDescription"), p)>>

\* Element x at place p, and the place q behind it.
WrittenElement(d, x, p, q) ==
  (IF d.layout = "empty tags" /\ x.word = "" THEN <<Step(Other, q)>>
   ELSE <<Step(Start(x.tag, x.type), [p EXCEPT !.inside = "tag"])>>
          \o (IF x.word = "" THEN <<>> ELSE <<Step(Text(x.word), [p EXCEPT !.inside = "word"])>>)
          \o <<Step(End(x.tag),
                    [q EXCEPT !.inside = IF d.layout = "indented" THEN "space" ELSE "none"])>>)
    \o (IF p.part = "name" /\ x.word \in {"MSG_A", "MSG_D"} THEN NoteSteps(q) ELSE <<>>)
Elements(d, places) ==
  FlattenSeq([i \in DOMAIN places |->
    WrittenElement(d, ElementAt(d, places[i]), places[i], Behind(d, places[i]))])

Opening(d) ==
  <<Step(Other, Beginning), Step(Start("Messages", ""), At("id", 0, 0))>>
    \o Elements(d, <<At("id", 0, 0), At("protocol", 0, 0)>>)

\* Message m, behind done others.
Record(d, m, done) ==
  <<Step(Start(m.name, ""), At("message", done, 0)),
    Step(Start("RECORD", ""), At("name", done, 0))>>
    \o Elements(d, <<At("name", done, 0)>>
                     \o (IF m.order = 0 THEN <<>> ELSE <<At("order", done, 0)>>)
                     \o [i \in DOMAIN m.fields |-> At("fields", done, i - 1)])
    \o <<Step(End("RECORD"), At("recorded", done + 1, 0)),
         Step(End(m.name), At("messages", done + 1, 0))>>

Closing(d) == <<Step(End("Messages"), At("end", Len(d.messages), 0))>>
Compact(d) ==
  Opening(d)
    \o FlattenSeq([k \in DOMAIN d.messages |-> Record(d, d.messages[k], k - 1)])
    \o Closing(d)

\* White space wherever an element or a tag is complete.
Indented(steps) ==
  FlattenSeq([i \in DOMAIN steps |->
    <<steps[i]>> \o IF steps[i].to.inside \in {"none", "space"}
                    THEN <<Step(Text(" "), [steps[i].to EXCEPT !.inside = "none"])>> ELSE <<>>])

Steps ==
  [f \in MCFiles \ {"wide", "empty", "junk"} |->
     LET steps == Compact(MCDocuments[f])
     IN CASE f = "spaced" -> Indented(steps)
          [] f = "game cut" -> SubSeq(steps, 1, Len(steps) - 4)
          [] f = "pets cut" ->
               SubSeq(steps, 1, 3) \o <<Step(Text("5"), [steps[3].to EXCEPT !.inside = "cut"])>>
          [] OTHER -> steps]

\* The steps of "wide" as a function of their number: those of its first message again and
\* again, which TLC evaluates faster than a concatenation.
WideSteps ==
  LET d == MCDocuments["wide"]
      head == Opening(d)
      one == Record(d, d.messages[1], 0)
      n == Len(one)
      last == Len(head) + Len(d.messages) * n + 1
      k(i) == i - Len(head) - 1
  IN [i \in 1..last |->
        IF i <= Len(head) THEN head[i]
        ELSE IF i = last THEN Closing(d)[1]
        ELSE [one[(k(i) % n) + 1] EXCEPT !.to.done = @ + (k(i) \div n)]]
WideEvents == [k \in DOMAIN WideSteps |-> WideSteps[k].ev]
WideMarks == <<Beginning>> \o [k \in DOMAIN WideSteps |-> WideSteps[k].to]

EventsOf(steps) == [k \in DOMAIN steps |-> steps[k].ev]
MarksOf(steps) == <<Beginning>> \o [k \in DOMAIN steps |-> steps[k].to]
MCEvents ==
  [f \in MCFiles |->
     IF f = "wide" THEN WideEvents ELSE IF f \in DOMAIN Steps THEN EventsOf(Steps[f]) ELSE <<>>]
MCMarks ==
  [f \in MCFiles |->
     IF f = "wide" THEN WideMarks
     ELSE IF f \in DOMAIN Steps THEN MarksOf(Steps[f]) ELSE <<Beginning>>]

-----------------------------------------------------------------------------
Entry(name, dml, offset, compressed) ==
  [offset |-> offset, size |-> 6, compressed_size |-> 4, is_compressed |-> compressed,
   file_name |-> name, name_len |-> 7, dml |-> dml]

Block(from, compressed, content) ==
  [at |-> from, len |-> IF compressed THEN 4 ELSE 6, zlib |-> compressed, content |-> content]

\* Three entries take 13 + 3 * 28 = 97 bytes.
Archive(table, blocks, len) ==
  [len |-> len, magic |-> TRUE, table_at |-> 13, table |-> table, blocks |-> blocks]

Game == Entry("GameMessages.xml", TRUE, 97, TRUE)
Pets == Entry("PetMessages.xml", TRUE, 101, FALSE)
Quests == Entry("Quests.xml", TRUE, 101, FALSE)
Art == Entry("Art.dds", FALSE, 107, FALSE)

Whole ==
  Archive(<<Art, Game, Pets>>,
          {Block(97, TRUE, "game 1"), Block(101, FALSE, "pets"), Block(107, FALSE, "junk")}, 113)

\* A later version, with a schema outside of the names that the registry takes; one with broken
\* data; one with a schema cut short; one cut off in its last entry's data, and one in its
\* table; no archive; one without schemas; one where a file name comes twice; one of many
\* messages; and one written otherwise.
Later ==
  Archive(<<Game, Quests>>, {Block(97, TRUE, "game 2"), Block(101, FALSE, "patch")}, 113)
Broken == [Whole EXCEPT !.blocks = {Block(97, FALSE, "junk"), Block(101, FALSE, "patch")}]
CutSchema == [Later EXCEPT !.blocks = {Block(97, TRUE, "game cut")}]
CutData == [Whole EXCEPT !.len = 105]
CutTable == [Whole EXCEPT !.len = 90]
NoArchive == [Whole EXCEPT !.magic = FALSE]
NoSchemas == Archive(<<Art>>, {Block(107, FALSE, "junk")}, 113)
Twice ==
  Archive(<<Game, Entry("GameMessages.xml", TRUE, 101, FALSE)>>,
          {Block(97, TRUE, "game 1"), Block(101, FALSE, "patch")}, 113)
Wide ==
  Archive(<<Entry("GameMessages.xml", TRUE, 97, FALSE)>>, {Block(97, FALSE, "wide")}, 103)
Otherwise ==
  Archive(<<Game, Pets>>, {Block(97, TRUE, "spaced"), Block(101, FALSE, "tags")}, 107)

MCWads ==
  {Whole, Later, Broken, CutSchema, CutData, CutTable, NoArchive, NoSchemas, Twice, Wide,
   Otherwise}

=============================================================================
