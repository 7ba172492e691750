---------------------------- MODULE SchemaParser ----------------------------
(***************************************************************************)
(* schema.rs: SchemaRegistry::load_from_directory and parse_message_xml, as *)
(* the loop over the events of an XML reader that it is.  A file is the    *)
(* sequence of events that quick-xml reports before Eof or an error, which *)
(* both end the loop; words and tags are strings, and what surrounds a word *)
(* is the text " ".  The build is the release build, where a u8 wraps.     *)
(***************************************************************************)
EXTENDS Naturals, Sequences, TLC

CONSTANTS
  Words,            \* the tags, types and texts of the files
  Files,            \* the contents that files may have
  Events,           \* per content: its events
  Unreadable,       \* the contents that read_to_string refuses
  MessagesXml,      \* the file names that contain "Messages" and end in ".xml"
  Stem,             \* per such name: its file_stem
  MaxLoads          \* bound: clicks on Load WAD Schemas

NoFile == ""
U8 == 0..255

Event ==
  [ev : {"Start"}, tag : Words, type : Words]   \* type: the TYPE attribute or ""
    \cup [ev : {"Text"}, word : Words]
    \cup [ev : {"End"}, tag : Words]
    \cup [ev : {"Other"}]                         \* Empty, comments, declarations

ASSUME SchemaAssumption ==
  /\ {"", " "} \subseteq Words
  /\ NoFile \notin Files
  /\ Events \in [Files -> Seq(Event)]
  /\ Unreadable \subseteq Files
  /\ Stem \in [MessagesXml -> Words]
  /\ MaxLoads \in Nat

VARIABLES
  dir,              \* the directory: its file names and what is in them; not written here
  services,         \* SchemaRegistry.services
  todo,             \* the directory entries not yet taken
  count,            \* files parsed in this load
  path,             \* the file name that parse_message_xml was given
  file,             \* what it reads from there, or NoFile
  at,               \* the number of its next event
  current_element, in_record, msg_order_counter, service_id, service_name, messages,
  current_record,   \* <<>> for None, <<record>> for Some(record)
  read,             \* history: the files parsed, each with its name
  loads             \* loads begun

parser == <<current_element, in_record, msg_order_counter, service_id, service_name,
            messages, current_record>>
vars == <<services, todo, count, path, file, at, parser, read, loads>>

\* text.trim() and text.trim().parse().unwrap_or(0).
Trim(word) == IF word = " " THEN "" ELSE word
Parse(word) ==
  IF \E n \in U8 : ToString(n) = word THEN CHOOSE n \in U8 : ToString(n) = word ELSE 0

\* The tags of a RECORD that are no fields.
MsgTags == {"_MsgName", "_MsgDescription", "_MsgHandler", "_MsgAccessLvl", "_MsgOrder"}

EmptyRecord == [name |-> "", order |-> 0, fields |-> <<>>]

\* Mutated form: the first message has number 0.
FirstOrderZero == 0

\* msg_order_counter before the first record.
FirstOrder == 1

Init ==
  /\ services = [id \in {} |-> <<>>]
  /\ todo = {} /\ count = 0
  /\ path = "" /\ file = NoFile /\ at = 1
  /\ current_element = "" /\ in_record = FALSE /\ msg_order_counter = FirstOrder
  /\ service_id = 0 /\ service_name = "" /\ messages = <<>> /\ current_record = <<>>
  /\ read = {} /\ loads = 0

-----------------------------------------------------------------------------
\* load_from_directory begins on a directory of these entries: nothing of earlier loads is
\* dropped.
Load(names) ==
  /\ todo = {} /\ file = NoFile /\ loads < MaxLoads
  /\ todo' = names
  /\ count' = 0
  /\ loads' = loads + 1
  /\ UNCHANGED <<services, path, file, at, parser, read>>

\* An entry is passed over: by its own name, or because it cannot be read.
SkipFile(n) ==
  /\ file = NoFile /\ n \in todo
  /\ n \notin MessagesXml \/ dir[n] \in Unreadable
  /\ todo' = todo \ {n}
  /\ UNCHANGED <<services, count, path, file, at, parser, read, loads>>

\* Mutated form: the messages of the file before stay.
OpenFileKeeps(n) ==
  /\ file = NoFile /\ n \in todo \cap MessagesXml /\ dir[n] \notin Unreadable
  /\ todo' = todo \ {n}
  /\ path' = n /\ file' = dir[n] /\ at' = 1
  /\ current_element' = "" /\ in_record' = FALSE /\ msg_order_counter' = FirstOrder
  /\ service_id' = 0 /\ service_name' = "" /\ current_record' = <<>>
  /\ UNCHANGED <<services, count, messages, read, loads>>

\* parse_message_xml begins with the next entry of the directory, in any order.
OpenFile(n) ==
  /\ file = NoFile /\ n \in todo \cap MessagesXml /\ dir[n] \notin Unreadable
  /\ todo' = todo \ {n}
  /\ path' = n /\ file' = dir[n] /\ at' = 1
  /\ current_element' = "" /\ in_record' = FALSE /\ msg_order_counter' = FirstOrder
  /\ service_id' = 0 /\ service_name' = "" /\ messages' = <<>> /\ current_record' = <<>>
  /\ UNCHANGED <<services, count, read, loads>>

\* The reader reports the next event, of kind ev.
Reports(ev) ==
  /\ file # NoFile /\ at <= Len(Events[file])
  /\ Events[file][at].ev = ev
  /\ at' = at + 1
  /\ UNCHANGED <<services, todo, count, path, file, read, loads>>

Now == Events[file][at]

\* record.fields.push on Some(record).
WithField(record, tag, type) ==
  [i \in DOMAIN record |->
     [record[i] EXCEPT !.fields =
        Append(@, [name |-> tag, field_type |-> IF type = "" THEN tag ELSE type])]]

\* Event::Start.
StartEvent ==
  /\ Reports("Start")
  /\ LET tag == Now.tag
     IN /\ current_element' = tag
        /\ in_record' = (in_record \/ tag = "RECORD")
        /\ current_record' =
             IF tag = "RECORD" THEN <<EmptyRecord>>
             ELSE IF in_record /\ tag \notin MsgTags
                  THEN WithField(current_record, tag, Now.type)
                  ELSE current_record
  /\ UNCHANGED <<msg_order_counter, service_id, service_name, messages>>

\* What a text does to Some(record), and to the service.
WithText(record, word) ==
  [i \in DOMAIN record |->
     CASE current_element = "_MsgName" -> [record[i] EXCEPT !.name = word]
       [] current_element = "_MsgOrder" -> [record[i] EXCEPT !.order = Parse(word)]
       [] OTHER -> record[i]]

\* Event::Text: it belongs to the element that started last, ended or not.
TextEvent ==
  /\ Reports("Text")
  /\ LET word == Now.word
     IN /\ current_record' = WithText(current_record, word)
        /\ service_id' = IF current_element \in {"ServiceID", "_ServiceID"}
                         THEN Parse(word) ELSE service_id
        /\ service_name' = IF current_element \in {"ProtocolType", "_ProtocolType"}
                           THEN Trim(word) ELSE service_name
  /\ UNCHANGED <<current_element, in_record, msg_order_counter, messages>>

\* msg_order_counter after record has ended.
NextOrder(record) ==
  IF record # <<>> THEN (msg_order_counter + 1) % 256 ELSE msg_order_counter

\* The message made of Some(record): it has the counter's order when it has none.
Numbered(record) ==
  [i \in DOMAIN record |->
     [record[i] EXCEPT !.order = IF @ = 0 THEN msg_order_counter ELSE @]]

\* Event::End.
EndEvent ==
  /\ Reports("End")
  /\ IF Now.tag = "RECORD"
     THEN /\ messages' = messages \o Numbered(current_record)
          /\ msg_order_counter' = NextOrder(current_record)
          /\ current_record' = <<>>
          /\ in_record' = FALSE
     ELSE UNCHANGED <<messages, msg_order_counter, current_record, in_record>>
  /\ UNCHANGED <<current_element, service_id, service_name>>

\* Any other event, elements without content (<X/>) among them.
OtherEvent == Reports("Other") /\ UNCHANGED parser

\* Eof or an error ends the file; the service replaces one with the same id.
CloseFile ==
  /\ file # NoFile /\ at > Len(Events[file])
  /\ services' = [id \in DOMAIN services \cup {service_id} |->
       IF id = service_id
       THEN [name |-> IF service_name = "" THEN Stem[path] ELSE service_name,
             messages |-> messages]
       ELSE services[id]]
  /\ count' = count + 1
  /\ read' = read \cup {[path |-> path, file |-> file]}
  /\ file' = NoFile
  /\ UNCHANGED <<todo, path, at, parser, loads>>

Next ==
  \/ Load(DOMAIN dir)
  \/ \E n \in todo : SkipFile(n) \/ OpenFile(n)
  \/ StartEvent \/ TextEvent \/ EndEvent \/ OtherEvent
  \/ CloseFile

-----------------------------------------------------------------------------
\* get_message_def: the first message with that order, as an Option.
GetMessageDef(service, order) ==
  IF service \notin DOMAIN services THEN <<>>
  ELSE LET all == services[service].messages
           found == {i \in DOMAIN all : all[i].order = order}
       IN IF found = {} THEN <<>> ELSE <<all[CHOOSE i \in found : \A j \in found : i <= j]>>

Message == [name : Words, order : U8,
            fields : Seq([name : Words, field_type : Words])]

\* The types; a record is open exactly while in_record says so.
TypeOK ==
  /\ DOMAIN services \subseteq U8
  /\ \A id \in DOMAIN services : services[id].messages \in Seq(Message)
  /\ read \subseteq [path : MessagesXml, file : Files] /\ count \in Nat /\ loads \in 0..MaxLoads
  /\ file \in Files \cup {NoFile} /\ at \in Nat \ {0} /\ (file # NoFile => path \in MessagesXml)
  /\ current_element \in Words /\ in_record \in BOOLEAN
  /\ msg_order_counter \in U8 /\ service_id \in U8 /\ service_name \in Words
  /\ messages \in Seq(Message)
  /\ current_record \in Seq(Message) /\ Len(current_record) <= 1
  /\ in_record = (current_record # <<>>)

\* Whether file f has an element for an order anywhere.
Ordered ==
  {f \in Files :
     \E i \in DOMAIN Events[f] : Events[f][i].ev = "Start" /\ Events[f][i].tag = "_MsgOrder"}
WritesOrder(f) == f \in Ordered

\* The u8 counter: in a file that writes no order the i-th message has order i, as
\* long as a u8 holds it, whatever else the file is made of; the 256th message and
\* later ones begin again at 0.
OrderIsPosition ==
  \/ file = NoFile
  \/ WritesOrder(file)
  \/ \A i \in DOMAIN messages : messages[i].order = i % 256

=============================================================================
