----------------------------- MODULE SchemaFiles -----------------------------
(***************************************************************************)
(* The schema files as documents, how they are written as XML, and what    *)
(* the registry owes to a document.  A file writes its document from place *)
(* to place, and may end at any of them.                                   *)
(***************************************************************************)
EXTENDS SchemaParser, SequencesExt

CONSTANTS
  Documents,        \* per file: what it describes, and how it is written
  Marks             \* per file: the place of each of its events, and the one behind them

\* Layouts: "compact", without anything between the elements; "indented", with white
\* space there; "empty tags", where an element without content is <X/>.
Document ==
  [layout : {"compact", "indented", "empty tags"},
   id : 1..99,                      \* the services parse_kinp_payload knows
   protocol : Words,
   messages : Seq(Message)]

Element(tag, type, word) == [tag |-> tag, type |-> type, word |-> word]

\* The element that stands at place p: ServiceID, ProtocolType, or one of a RECORD's.
ElementAt(d, p) ==
  LET m == d.messages[p.done + 1]
      x == m.fields[p.fields + 1]
  IN CASE p.part = "id" -> Element("ServiceID", "UBYT", ToString(d.id))
       [] p.part = "protocol" -> Element("ProtocolType", "STR", d.protocol)
       [] p.part = "name" -> Element("_MsgName", "STR", m.name)
       [] p.part = "order" -> Element("_MsgOrder", "UBYT", ToString(m.order))
       [] p.part = "fields" -> Element(x.name, x.field_type, "")

HasElement(d, p) ==
  \/ p.part \in {"id", "protocol", "name", "order"}
  \/ p.part = "fields" /\ p.fields < Len(d.messages[p.done + 1].fields)

\* The place behind that element; an order of 0 is none.
Behind(d, p) ==
  CASE p.part = "id" -> [p EXCEPT !.part = "protocol"]
    [] p.part = "protocol" -> [p EXCEPT !.part = "messages"]
    [] p.part = "name" ->
         [p EXCEPT !.part = IF d.messages[p.done + 1].order = 0 THEN "fields" ELSE "order"]
    [] p.part = "order" -> [p EXCEPT !.part = "fields"]
    [] p.part = "fields" -> [p EXCEPT !.fields = @ + 1]

Start(tag, type) == [ev |-> "Start", tag |-> tag, type |-> type]
Text(word) == [ev |-> "Text", word |-> word]
End(tag) == [ev |-> "End", tag |-> tag]
Other == [ev |-> "Other"]

\* Where a file begins: done messages are complete, and fields fields of the next one;
\* inside says what stands already of the element at the place; a word that is cut is the
\* last of its file.
Beginning == [part |-> "start", done |-> 0, fields |-> 0, inside |-> "none"]

\* <tag TYPE="type">word</tag>, or <tag/>: event e leads from place p into, through or
\* behind the element.
InElement(d, p, e, q) ==
  LET x == ElementAt(d, p)
      short == d.layout = "empty tags" /\ x.word = ""
  IN /\ HasElement(d, p)
     /\ \/ /\ p.inside = "none" /\ ~short
           /\ e = Start(x.tag, x.type) /\ q = [p EXCEPT !.inside = "tag"]
        \/ /\ p.inside = "tag" /\ x.word # ""
           /\ e = Text(x.word) /\ q = [p EXCEPT !.inside = "word"]
        \/ /\ p.inside = "tag" /\ x.word # ""
           /\ e.ev = "Text" /\ q = [p EXCEPT !.inside = "cut"]
        \/ /\ p.inside = IF x.word = "" THEN "tag" ELSE "word"
           /\ e = End(x.tag)
           /\ q = [Behind(d, p) EXCEPT
                     !.inside = IF d.layout = "indented" THEN "space" ELSE "none"]
        \/ p.inside = "none" /\ short /\ e = Other /\ q = Behind(d, p)

\* <Messages>, and within it per message <NAME><RECORD> ... </RECORD></NAME>.
AroundElements(d, p, e, q) ==
  /\ p.inside = "none"
  /\ \/ p.part = "start" /\ e = Start("Messages", "") /\ q = [p EXCEPT !.part = "id"]
     \/ /\ p.part = "messages" /\ p.done < Len(d.messages)
        /\ e = Start(d.messages[p.done + 1].name, "") /\ q = [p EXCEPT !.part = "message"]
     \/ p.part = "message" /\ e = Start("RECORD", "") /\ q = [p EXCEPT !.part = "name"]
     \/ /\ p.part = "fields" /\ ~HasElement(d, p)
        /\ e = End("RECORD")
        /\ q = [p EXCEPT !.part = "recorded", !.done = @ + 1, !.fields = 0]
     \/ /\ p.part = "recorded"
        /\ e = End(d.messages[p.done].name) /\ q = [p EXCEPT !.part = "messages"]
     \/ /\ p.part = "messages" /\ p.done = Len(d.messages)
        /\ e = End("Messages") /\ q = [p EXCEPT !.part = "end"]

\* Elements of a RECORD that are read over, with any text.
Notes == {"_MsgDescription", "_MsgHandler", "_MsgAccessLvl"}

\* A comment or a declaration anywhere; a note in a record; white space anywhere between
\* the elements of an indented file, and behind those of InElement at least.
BetweenElements(d, p, e, q) ==
  \/ p.inside # "cut" /\ e = Other /\ q = p
  \/ /\ d.layout = "indented" /\ p.inside \in {"none", "space"}
     /\ e = Text(" ") /\ q = [p EXCEPT !.inside = "none"]
  \/ /\ p.part \in {"name", "order", "fields"} /\ p.inside = "none"
     /\ e.ev = "Start" /\ e.tag \in Notes /\ q = [p EXCEPT !.inside = "note"]
  \/ p.inside = "note" /\ e.ev = "Text" /\ q = p
  \/ /\ p.inside = "note"
     /\ e.ev = "End" /\ e.tag \in Notes /\ q = [p EXCEPT !.inside = "none"]

Follows(d, p, e, q) ==
  InElement(d, p, e, q) \/ AroundElements(d, p, e, q) \/ BetweenElements(d, p, e, q)

\* A field has a type, and a name that parse_message_xml has no other use for in a record.
ASSUME DocumentAssumption ==
  /\ Documents \in [Files -> Document]
  /\ \A f \in Files : \A i \in DOMAIN Documents[f].messages :
       \A x \in Range(Documents[f].messages[i].fields) :
         x.name \notin MsgTags \cup {"RECORD"} /\ x.field_type # ""
  /\ \A f \in Files :
       /\ Marks[f][1] = Beginning
       /\ \A k \in DOMAIN Events[f] :
            Follows(Documents[f], Marks[f][k], Events[f][k], Marks[f][k + 1])

\* A numeral is the text of one number, and not empty.
ASSUME NumeralAssumption ==
  \A m, n \in U8 : ToString(n) \notin {"", " "} /\ (ToString(m) = ToString(n) => m = n)

-----------------------------------------------------------------------------
\* What the registry is to find of document d: a message without an order has its
\* position, as a u8, and fields written <X/> are no events of parse_message_xml.
Found(d) ==
  [i \in DOMAIN d.messages |->
     [d.messages[i] EXCEPT !.order = IF @ = 0 THEN i % 256 ELSE @,
                           !.fields = IF d.layout = "empty tags" THEN <<>> ELSE @]]

\* The service's name: that of the file r, if it gives none.
ServiceName(r) ==
  LET protocol == Trim(Documents[r.file].protocol)
  IN IF protocol = "" THEN Stem[r.path] ELSE protocol

\* Where file f ends.
LastMark(f) == Marks[f][Len(Events[f]) + 1]

\* Whether it ends within its id, and the id that is read if it does not end before it: what
\* is there of "12" may be "1".
CutId(f) == LastMark(f).part = "id" /\ LastMark(f).inside = "cut"
ServiceId(f) == IF CutId(f) THEN Parse(Events[f][Len(Events[f])].word) ELSE Documents[f].id

\* File f is not cut off.
Complete(f) == LastMark(f).part = "end"

\* Every service in the registry is one file's, from its first message on: nothing of
\* another record, another file or an earlier load is in it, and a file that is complete
\* is there as a whole.  A file that ends before its id, or has white space behind it,
\* is service 0, which no message has: it costs the other files nothing.  One that ends
\* within its id may take the place of another's service.
RegistryWhole ==
  \A id \in DOMAIN services \ {0} : \E r \in read :
    LET f == r.file
        d == Documents[f]
        s == services[id]
    IN /\ id = ServiceId(f)
       /\ IsPrefix(s.messages, Found(d))
       /\ s.messages # <<>> \/ Complete(f) => s.name = ServiceName(r) /\ d.layout # "indented"
       /\ Complete(f) => s.messages = Found(d)

=============================================================================
