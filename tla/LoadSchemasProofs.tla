------------------------- MODULE LoadSchemasProofs --------------------------
(***************************************************************************)
(* Theorems about a click on "Load WAD Schemas": about SchemaParser, for   *)
(* any files with any events; about WadTable, for any archives and a disk  *)
(* that fails anywhere; and about the registry, for any files that write   *)
(* documents, up to wherever they end.                                     *)
(***************************************************************************)
EXTENDS LoadSchemas, FiniteSetTheorems, TLAPS

\* The counter is one ahead of the messages.
Counter == file # NoFile => msg_order_counter = (Len(messages) + 1) % 256

\* In a file that writes no order, no text is taken for one: the element that started
\* last is never _MsgOrder, and the open record has none.
NoOrder ==
  \/ file = NoFile
  \/ WritesOrder(file)
  \/ /\ current_element # "_MsgOrder"
     /\ \A i \in DOMAIN current_record : current_record[i].order = 0

IInv == TypeOK /\ Counter /\ NoOrder /\ OrderIsPosition

\* What trim().parse().unwrap_or(0) returns fits in a u8.
LEMMA ParseIsU8 == ASSUME NEW w PROVE Parse(w) \in U8
<1>1. CASE \E n \in U8 : ToString(n) = w
  BY <1>1 DEF Parse
<1>2. CASE ~ \E n \in U8 : ToString(n) = w
  BY <1>2 DEF Parse, U8
<1> QED BY <1>1, <1>2

\* Sequences of no element and of one.
LEMMA EmptySeq == ASSUME NEW S PROVE <<>> \in Seq(S) /\ Len(<<>>) = 0 /\ DOMAIN <<>> = {}
OBVIOUS

LEMMA OneSeq ==
  ASSUME NEW S, NEW x \in S
  PROVE  /\ <<x>> \in Seq(S) /\ Len(<<x>>) = 1 /\ <<x>> # <<>>
         /\ \A i \in DOMAIN <<x>> : <<x>>[i] = x
OBVIOUS

LEMMA EmptyIffZero == ASSUME NEW S, NEW s \in Seq(S) PROVE (s # <<>>) <=> (Len(s) # 0)
OBVIOUS

LEMMA TrimWord == ASSUME NEW w \in Words PROVE Trim(w) \in Words
BY SchemaAssumption DEF Trim, SchemaAssumption

\* A message with another field is a message.
LEMMA WithFieldType ==
  ASSUME NEW r \in Seq(Message), NEW tag \in Words, NEW type \in Words
  PROVE  /\ WithField(r, tag, type) \in Seq(Message)
         /\ Len(WithField(r, tag, type)) = Len(r)
         /\ \A i \in DOMAIN r : WithField(r, tag, type)[i].order = r[i].order
<1> DEFINE F == [name : Words, field_type : Words]
           new == [name |-> tag, field_type |-> IF type = "" THEN tag ELSE type]
           g(m) == [m EXCEPT !.fields = Append(@, new)]
<1>1. new \in F
  OBVIOUS
<1>2. ASSUME NEW m \in Message PROVE g(m) \in Message /\ g(m).order = m.order
  <2>1. m.fields \in Seq(F)
    BY DEF Message
  <2>2. Append(m.fields, new) \in Seq(F)
    <3> HIDE DEF F, new
    <3> QED BY <1>1, <2>1
  <2> QED BY <2>2 DEF Message
<1>3. WithField(r, tag, type) = [i \in DOMAIN r |-> g(r[i])]
  BY DEF WithField
<1> HIDE DEF g
<1>4. DOMAIN r = 1..Len(r) /\ \A i \in DOMAIN r : r[i] \in Message
  OBVIOUS
<1>5. \A i \in DOMAIN r : g(r[i]) \in Message /\ g(r[i]).order = r[i].order
  BY <1>2, <1>4
<1> QED BY <1>3, <1>4, <1>5

\* A message with the text of one of its elements is a message; its order changes in
\* _MsgOrder only.
LEMMA WithTextType ==
  ASSUME NEW r \in Seq(Message), NEW word \in Words
  PROVE  /\ WithText(r, word) \in Seq(Message)
         /\ Len(WithText(r, word)) = Len(r)
         /\ current_element # "_MsgOrder" =>
              \A i \in DOMAIN r : WithText(r, word)[i].order = r[i].order
<1> DEFINE g(m) == CASE current_element = "_MsgName" -> [m EXCEPT !.name = word]
                     [] current_element = "_MsgOrder" -> [m EXCEPT !.order = Parse(word)]
                     [] OTHER -> m
<1>1. ASSUME NEW m \in Message
      PROVE g(m) \in Message /\ (current_element # "_MsgOrder" => g(m).order = m.order)
  <2>1. Parse(word) \in U8
    BY ParseIsU8
  <2>2. CASE current_element = "_MsgName"
    BY <2>2 DEF Message
  <2>3. CASE current_element = "_MsgOrder"
    <3>1. g(m) = [m EXCEPT !.order = Parse(word)]
      BY <2>3
    <3> QED BY <3>1, <2>1, <2>3 DEF Message
  <2>4. CASE current_element # "_MsgName" /\ current_element # "_MsgOrder"
    BY <2>4
  <2> QED BY <2>2, <2>3, <2>4
<1>2. WithText(r, word) = [i \in DOMAIN r |-> g(r[i])]
  BY DEF WithText
<1> HIDE DEF g
<1>3. DOMAIN r = 1..Len(r) /\ \A i \in DOMAIN r : r[i] \in Message
  OBVIOUS
<1>4. \A i \in DOMAIN r :
        g(r[i]) \in Message /\ (current_element # "_MsgOrder" => g(r[i]).order = r[i].order)
  BY <1>1, <1>3
<1> QED BY <1>2, <1>3, <1>4

\* A numbered message is a message, and one without an order gets the counter.
LEMMA NumberedType ==
  ASSUME NEW r \in Seq(Message), msg_order_counter \in U8
  PROVE  /\ Numbered(r) \in Seq(Message)
         /\ Len(Numbered(r)) = Len(r)
         /\ \A i \in DOMAIN r : r[i].order = 0 => Numbered(r)[i].order = msg_order_counter
<1> DEFINE g(m) == [m EXCEPT !.order = IF @ = 0 THEN msg_order_counter ELSE @]
<1>1. ASSUME NEW m \in Message
      PROVE g(m) \in Message /\ (m.order = 0 => g(m).order = msg_order_counter)
  BY DEF Message
<1>2. Numbered(r) = [i \in DOMAIN r |-> g(r[i])]
  BY DEF Numbered
<1> HIDE DEF g
<1>3. DOMAIN r = 1..Len(r) /\ \A i \in DOMAIN r : r[i] \in Message
  OBVIOUS
<1>4. \A i \in DOMAIN r :
        g(r[i]) \in Message /\ (r[i].order = 0 => g(r[i]).order = msg_order_counter)
  BY <1>1, <1>3
<1> QED BY <1>2, <1>3, <1>4

-----------------------------------------------------------------------------
LEMMA InitInv == Init => IInv
<1> SUFFICES ASSUME Init PROVE IInv
  OBVIOUS
<1>1. TypeOK
  <2>1. /\ services = [id \in {} |-> <<>>] /\ todo = {} /\ read = {} /\ count = 0 /\ loads = 0
        /\ file = NoFile /\ at = 1 /\ current_element = "" /\ service_name = ""
        /\ in_record = FALSE /\ msg_order_counter = 1 /\ service_id = 0
        /\ messages = <<>> /\ current_record = <<>>
    BY Zenon DEF Init, FirstOrder
  <2>2. messages \in Seq(Message) /\ current_record \in Seq(Message) /\ Len(current_record) = 0
    BY <2>1, EmptySeq
  <2>3. DOMAIN services \subseteq U8
        /\ \A id \in DOMAIN services : services[id].messages \in Seq(Message)
    BY <2>1
  <2>4. /\ read \subseteq [path : MessagesXml, file : Files] /\ file \in Files \cup {NoFile}
        /\ file # NoFile => path \in MessagesXml
    BY <2>1
  <2>5. count \in Nat /\ loads \in 0..MaxLoads /\ at \in Nat \ {0}
    <3>1. count = 0 /\ loads = 0 /\ at = 1 /\ MaxLoads \in Nat
      BY ONLY <2>1, SchemaAssumption, Zenon DEF SchemaAssumption
    <3> QED BY ONLY <3>1
  <2>6. current_element \in Words /\ service_name \in Words
    BY <2>1, SchemaAssumption DEF SchemaAssumption
  <2>7. msg_order_counter \in U8 /\ service_id \in U8
    <3>1. msg_order_counter = 1 /\ service_id = 0
      BY ONLY <2>1, Zenon
    <3> QED BY ONLY <3>1 DEF U8
  <2>8. Len(current_record) <= 1
    BY <2>2
  <2>9. in_record \in BOOLEAN /\ in_record = (current_record # <<>>)
    BY <2>1
  <2> QED BY <2>2, <2>3, <2>4, <2>5, <2>6, <2>7, <2>8, <2>9 DEF TypeOK
<1> QED BY <1>1 DEF Init, IInv, Counter, NoOrder, OrderIsPosition

\* What an event of the open file is.
LEMMA NowIsEvent ==
  ASSUME TypeOK, NEW ev, Reports(ev)
  PROVE  /\ file \in Files /\ at \in DOMAIN Events[file]
         /\ Now \in Event /\ Now.ev = ev
         /\ at' \in Nat \ {0}
<1>1. file \in Files /\ at \in Nat \ {0} /\ Events[file] \in Seq(Event)
  BY SchemaAssumption DEF TypeOK, Reports, SchemaAssumption
<1>2. at \in DOMAIN Events[file] /\ Events[file][at] \in Event
  <2> DEFINE s == Events[file]
  <2>1. s \in Seq(Event) /\ at \in 1..Len(s)
    BY <1>1 DEF Reports
  <2> HIDE DEF s
  <2>2. at \in DOMAIN s /\ s[at] \in Event
    BY <2>1
  <2> QED BY <2>2 DEF s
<1>3. at' = at + 1
  BY DEF Reports
<1> QED BY <1>1, <1>2, <1>3 DEF Reports, Now

\* The start of an element keeps the invariant.
LEMMA StartInv == IInv /\ StartEvent => IInv'
<1> SUFFICES ASSUME IInv, StartEvent PROVE IInv'
  OBVIOUS
<1> DEFINE tag == Now.tag
<1>1. TypeOK /\ Reports("Start")
  BY DEF IInv, StartEvent
<1>2. /\ file \in Files /\ at \in DOMAIN Events[file] /\ Now.ev = "Start"
      /\ tag \in Words /\ Now.type \in Words /\ at' \in Nat \ {0}
  <2>1. Now \in Event /\ Now.ev = "Start"
    BY <1>1, NowIsEvent
  <2>2. tag \in Words /\ Now.type \in Words
    BY <2>1 DEF Event
  <2> QED BY <1>1, <2>1, <2>2, NowIsEvent
<1>3. EmptyRecord \in Message /\ EmptyRecord.order = 0
  <2>1. EmptyRecord.fields \in Seq([name : Words, field_type : Words])
    BY EmptySeq DEF EmptyRecord
  <2>2. EmptyRecord = [name |-> "", order |-> 0, fields |-> EmptyRecord.fields]
    BY DEF EmptyRecord
  <2>3. 0 \in U8
    BY DEF U8
  <2>4. "" \in Words
    BY SchemaAssumption DEF SchemaAssumption
  <2> DEFINE f == EmptyRecord.fields
  <2>5. EmptyRecord = [name |-> "", order |-> 0, fields |-> f]
    BY <2>2
  <2> HIDE DEF f
  <2>6. [name |-> "", order |-> 0, fields |-> f] \in Message
    BY <2>1, <2>3, <2>4 DEF Message, f
  <2> QED BY ONLY <2>5, <2>6
<1>4. /\ current_record' \in Seq(Message)
      /\ Len(current_record') <= 1
      /\ in_record' = (current_record' # <<>>)
      /\ in_record' \in BOOLEAN
      /\ (\A i \in DOMAIN current_record : current_record[i].order = 0)
           => \A i \in DOMAIN current_record' : current_record'[i].order = 0
  <2>0. /\ current_record \in Seq(Message) /\ Len(current_record) <= 1
        /\ in_record \in BOOLEAN /\ in_record = (current_record # <<>>)
    BY <1>1 DEF TypeOK
  <2>1. CASE tag = "RECORD"
    <3>1. current_record' = <<EmptyRecord>> /\ in_record' = TRUE
      BY <2>1, <2>0 DEF StartEvent
    <3>2. /\ <<EmptyRecord>> \in Seq(Message) /\ Len(<<EmptyRecord>>) = 1
          /\ <<EmptyRecord>> # <<>>
          /\ \A i \in DOMAIN <<EmptyRecord>> : <<EmptyRecord>>[i] = EmptyRecord
      BY <1>3, OneSeq
    <3>3. current_record' \in Seq(Message) /\ Len(current_record') = 1 /\ current_record' # <<>>
      BY ONLY <3>1, <3>2, Zenon
    <3>4. \A i \in DOMAIN current_record' : current_record'[i].order = 0
      BY ONLY <3>1, <3>2, <1>3, Zenon
    <3>5. in_record' = TRUE /\ in_record' = (current_record' # <<>>)
      BY ONLY <3>1, <3>3, Zenon
    <3> HIDE DEF tag
    <3> QED BY <3>3, <3>4, <3>5
  <2>2. CASE tag # "RECORD" /\ in_record /\ tag \notin MsgTags
    <3>1. current_record' = WithField(current_record, tag, Now.type) /\ in_record' = TRUE
      BY <2>2 DEF StartEvent
    <3>2. /\ current_record' \in Seq(Message) /\ Len(current_record') = Len(current_record)
          /\ \A i \in DOMAIN current_record : current_record'[i].order = current_record[i].order
      BY <3>1, <2>0, <1>2, WithFieldType
    <3>3. Len(current_record') <= 1 /\ DOMAIN current_record' = DOMAIN current_record
      BY <3>2, <2>0
    <3>4. current_record' # <<>>
      <4>1. current_record # <<>>
        BY <2>0, <2>2
      <4>2. Len(current_record) # 0 /\ Len(current_record') # 0
        BY <4>1, <2>0, <3>2, EmptyIffZero
      <4> QED BY <4>2, <3>2, EmptyIffZero
    <3> QED BY <3>1, <3>2, <3>3, <3>4
  <2>3. CASE tag # "RECORD" /\ ~(in_record /\ tag \notin MsgTags)
    <3>1. current_record' = current_record /\ in_record' = in_record
      BY <2>3, <2>0 DEF StartEvent
    <3> QED BY <3>1, <2>0
  <2> QED BY <2>1, <2>2, <2>3
<1>5. TypeOK'
  BY <1>1, <1>2, <1>4 DEF TypeOK, StartEvent, Reports
<1>6. Counter'
  BY DEF IInv, Counter, StartEvent, Reports
<1>7. NoOrder'
  <2>1. CASE tag = "_MsgOrder"
    <3>1. WritesOrder(file)
      BY <1>2, <2>1 DEF WritesOrder, Ordered, Now
    <3> QED BY <3>1 DEF NoOrder, StartEvent, Reports, WritesOrder
  <2>2. CASE tag # "_MsgOrder"
    <3>1. current_element' # "_MsgOrder"
      BY <2>2 DEF StartEvent
    <3> QED BY <3>1, <1>4 DEF IInv, NoOrder, StartEvent, Reports, WritesOrder
  <2> QED BY <2>1, <2>2
<1>8. OrderIsPosition'
  BY DEF IInv, OrderIsPosition, StartEvent, Reports, WritesOrder
<1> QED BY <1>5, <1>6, <1>7, <1>8 DEF IInv

\* A text keeps the invariant.
LEMMA TextInv == IInv /\ TextEvent => IInv'
<1> SUFFICES ASSUME IInv, TextEvent PROVE IInv'
  OBVIOUS
<1> DEFINE word == Now.word
<1>1. TypeOK /\ Reports("Text")
  BY DEF IInv, TextEvent
<1>2. word \in Words /\ at' \in Nat \ {0}
  <2>1. Now \in Event /\ Now.ev = "Text"
    BY <1>1, NowIsEvent
  <2>2. word \in Words
    BY <2>1 DEF Event
  <2> QED BY <1>1, <2>2, NowIsEvent
<1>3. /\ current_record \in Seq(Message) /\ Len(current_record) <= 1
      /\ in_record = (current_record # <<>>)
  BY <1>1 DEF TypeOK
<1>4. /\ current_record' \in Seq(Message) /\ Len(current_record') = Len(current_record)
      /\ current_element # "_MsgOrder" =>
           \A i \in DOMAIN current_record : current_record'[i].order = current_record[i].order
  <2>1. current_record' = WithText(current_record, word)
    BY DEF TextEvent
  <2> QED BY <2>1, <1>2, <1>3, WithTextType
<1>5. service_id' \in U8 /\ service_name' \in Words
  <2>1. Parse(word) \in U8 /\ Trim(word) \in Words
    <3>1. Parse(word) \in U8
      BY ParseIsU8
    <3>2. Trim(word) \in Words
      BY <1>2, TrimWord
    <3> QED BY <3>1, <3>2
  <2> QED BY <1>1, <2>1 DEF TextEvent, TypeOK
<1>6. in_record' = (current_record' # <<>>)
  BY <1>3, <1>4 DEF TextEvent
<1>7. TypeOK'
  BY <1>1, <1>2, <1>3, <1>4, <1>5, <1>6 DEF TypeOK, TextEvent, Reports
<1>8. Counter'
  BY DEF IInv, Counter, TextEvent, Reports
<1>9. NoOrder'
  <2>1. CASE WritesOrder(file) \/ file = NoFile
    BY <2>1 DEF NoOrder, TextEvent, Reports, WritesOrder
  <2>2. CASE ~WritesOrder(file) /\ file # NoFile
    <3>1. current_element # "_MsgOrder"
          /\ \A i \in DOMAIN current_record : current_record[i].order = 0
      BY <2>2 DEF IInv, NoOrder
    <3>2. DOMAIN current_record' = DOMAIN current_record
      BY <1>3, <1>4
    <3> QED BY <3>1, <3>2, <1>4 DEF NoOrder, TextEvent, Reports
  <2> QED BY <2>1, <2>2
<1>10. OrderIsPosition'
  BY DEF IInv, OrderIsPosition, TextEvent, Reports, WritesOrder
<1> QED BY <1>7, <1>8, <1>9, <1>10 DEF IInv

LEMMA ConcatType ==
  ASSUME NEW S, NEW s \in Seq(S), NEW t \in Seq(S)
  PROVE  /\ s \o t \in Seq(S) /\ Len(s \o t) = Len(s) + Len(t)
         /\ \A i \in 1..Len(s) : (s \o t)[i] = s[i]
         /\ \A i \in 1..Len(t) : (s \o t)[Len(s) + i] = t[i]
OBVIOUS

LEMMA LenNat == ASSUME NEW S, NEW s \in Seq(S) PROVE Len(s) \in Nat
OBVIOUS

LEMMA ZeroOrOne == ASSUME NEW n \in Nat, n <= 1 PROVE n \in {0, 1}
OBVIOUS

LEMMA NextIndex ==
  ASSUME NEW a \in Nat, NEW b \in {0, 1}, NEW i \in 1..(a + b), i \notin 1..a
  PROVE  b = 1 /\ i = a + 1
OBVIOUS

\* The counter goes round at 256.
LEMMA CountOn ==
  ASSUME NEW n \in Nat, NEW c \in U8, c = (n + 1) % 256
  PROVE  (c + 1) % 256 \in U8 /\ (c + 1) % 256 = (n + 2) % 256
BY DEF U8

\* The end of a record numbers it and closes it.
LEMMA EndRecord ==
  ASSUME IInv, EndEvent, Now.tag = "RECORD"
  PROVE  /\ TypeOK' /\ Counter' /\ NoOrder' /\ OrderIsPosition'
<1> DEFINE r == current_record
           m == Numbered(r)
<1>1. TypeOK /\ Reports("End") /\ file # NoFile
  BY DEF IInv, EndEvent, Reports
<1>2. at' \in Nat \ {0}
  BY <1>1, NowIsEvent
<1>3. /\ r \in Seq(Message) /\ Len(r) \in {0, 1} /\ messages \in Seq(Message)
      /\ msg_order_counter \in U8 /\ Len(messages) \in Nat
  <2>1. r \in Seq(Message) /\ Len(r) <= 1 /\ messages \in Seq(Message) /\ msg_order_counter \in U8
    BY <1>1 DEF TypeOK
  <2>2. Len(r) \in Nat /\ Len(messages) \in Nat
    BY <2>1, LenNat
  <2>4. Len(r) \in {0, 1}
    BY ONLY <2>1, <2>2, ZeroOrOne, Zenon
  <2> QED BY <2>1, <2>2, <2>4
<1>4. /\ m \in Seq(Message) /\ Len(m) = Len(r)
      /\ \A i \in DOMAIN r : r[i].order = 0 => m[i].order = msg_order_counter
  BY <1>3, NumberedType
<1>5. messages' = messages \o m /\ current_record' = <<>> /\ in_record' = FALSE
      /\ msg_order_counter' = NextOrder(r) /\ current_element' = current_element
      /\ service_id' = service_id /\ service_name' = service_name
  BY DEF EndEvent
<1>6. /\ messages' \in Seq(Message) /\ Len(messages') = Len(messages) + Len(r)
      /\ \A i \in 1..Len(messages) : messages'[i] = messages[i]
      /\ \A i \in 1..Len(r) : messages'[Len(messages) + i] = m[i]
  <2>1. messages' = messages \o m
    BY <1>5
  <2>2. /\ messages \o m \in Seq(Message) /\ Len(messages \o m) = Len(messages) + Len(m)
        /\ \A i \in 1..Len(messages) : (messages \o m)[i] = messages[i]
        /\ \A i \in 1..Len(m) : (messages \o m)[Len(messages) + i] = m[i]
    BY <1>3, <1>4, ConcatType
  <2>3. Len(m) = Len(r)
    BY <1>4
  <2> HIDE DEF m, r
  <2> QED BY ONLY <2>1, <2>2, <2>3, Zenon
<1>7. msg_order_counter' \in U8 /\ msg_order_counter' = (Len(messages') + 1) % 256
  <2>1. msg_order_counter = (Len(messages) + 1) % 256
    BY <1>1 DEF IInv, Counter
  <2>2. CASE r = <<>>
    <3>1. msg_order_counter' = msg_order_counter
      BY <2>2, <1>5 DEF NextOrder
    <3>2. Len(r) = 0
      BY <2>2, <1>3, EmptyIffZero
    <3>3. Len(messages') = Len(messages)
      BY <3>2, <1>3, <1>6
    <3> QED BY <3>1, <3>3, <2>1, <1>3
  <2>3. CASE r # <<>>
    <3>1. msg_order_counter' = (msg_order_counter + 1) % 256
      BY <2>3, <1>5 DEF NextOrder
    <3>2. Len(r) = 1
      BY <2>3, <1>3, EmptyIffZero
    <3>3. Len(messages') + 1 = Len(messages) + 2
      BY <3>2, <1>3, <1>6
    <3> QED BY <3>1, <3>3, <2>1, <1>3, CountOn
  <2> QED BY <2>2, <2>3
<1>8. current_record' \in Seq(Message) /\ Len(current_record') <= 1
      /\ in_record' \in BOOLEAN /\ in_record' = (current_record' # <<>>)
  <2>1. current_record' \in Seq(Message) /\ Len(current_record') = 0
    BY <1>5, EmptySeq
  <2>2. in_record' \in BOOLEAN /\ in_record' = (current_record' # <<>>)
    BY ONLY <1>5, Zenon
  <2> QED BY <2>1, <2>2
<1>9. TypeOK'
  BY <1>1, <1>2, <1>5, <1>6, <1>7, <1>8 DEF TypeOK, Reports
<1>10. Counter'
  BY <1>7 DEF Counter
<1>11. NoOrder'
  <2>1. \A i \in DOMAIN current_record' : FALSE
    BY <1>5, EmptySeq
  <2> QED BY <1>1, <2>1, <1>5 DEF IInv, NoOrder, Reports, WritesOrder
<1>12. OrderIsPosition'
  <2> SUFFICES ASSUME ~WritesOrder(file), NEW i \in DOMAIN messages'
               PROVE  messages'[i].order = i % 256
    BY <1>1 DEF OrderIsPosition, Reports, WritesOrder
  <2>1. i \in 1..(Len(messages) + Len(r))
    BY <1>6
  <2>2. CASE i \in 1..Len(messages)
    <3>1. messages[i].order = i % 256
      BY <2>2, <1>1, <1>3 DEF IInv, OrderIsPosition
    <3> QED BY <3>1, <2>2, <1>6
  <2>3. CASE i \notin 1..Len(messages)
    <3>1. Len(r) = 1 /\ i = Len(messages) + 1
      BY ONLY <2>1, <2>3, <1>3, NextIndex, Zenon
    <3>2. messages'[i] = m[1] /\ 1 \in DOMAIN r
      BY <3>1, <1>3, <1>6
    <3>3. r[1].order = 0
      BY <3>2, <1>1 DEF IInv, NoOrder
    <3>4. m[1].order = msg_order_counter
      BY <3>2, <3>3, <1>4
    <3> QED BY <3>1, <3>2, <3>4, <1>1 DEF IInv, Counter
  <2> QED BY <2>2, <2>3
<1> QED BY <1>9, <1>10, <1>11, <1>12

LEMMA EndInv == IInv /\ EndEvent => IInv'
<1> SUFFICES ASSUME IInv, EndEvent PROVE IInv'
  OBVIOUS
<1>1. CASE Now.tag = "RECORD"
  BY <1>1, EndRecord DEF IInv
<1>2. CASE Now.tag # "RECORD"
  <2>1. UNCHANGED <<messages, msg_order_counter, current_record, in_record, current_element,
                    service_id, service_name>>
    BY <1>2 DEF EndEvent
  <2>2. TypeOK /\ Reports("End")
    BY DEF IInv, EndEvent
  <2>3. at' \in Nat \ {0}
    BY <2>2, NowIsEvent
  <2>4. TypeOK'
    BY <2>1, <2>2, <2>3 DEF TypeOK, Reports
  <2> QED BY <2>1, <2>2, <2>4 DEF IInv, Counter, NoOrder, OrderIsPosition, Reports, WritesOrder
<1> QED BY <1>1, <1>2

\* The steps that touch no event: the parser begins afresh with each file.
LEMMA OpenInv == ASSUME IInv, NEW n, dir[n] \in Files, OpenFile(n) PROVE IInv'
<1>1. /\ messages' = <<>> /\ current_record' = <<>> /\ in_record' = FALSE
      /\ current_element' = "" /\ service_name' = "" /\ file' = dir[n]
      /\ UNCHANGED <<services, count, read, loads>>
  BY Zenon DEF OpenFile
<1>2. msg_order_counter' = 1 /\ service_id' = 0 /\ at' = 1
  BY Zenon DEF OpenFile, FirstOrder
<1>3. file' \in Files /\ path' \in MessagesXml
  BY DEF OpenFile
<1>4. /\ messages' \in Seq(Message) /\ current_record' \in Seq(Message)
      /\ Len(messages') = 0 /\ Len(current_record') = 0
      /\ DOMAIN messages' = {} /\ DOMAIN current_record' = {}
  <2>1. /\ <<>> \in Seq(Message) /\ Len(<<>>) = 0 /\ DOMAIN <<>> = {}
    BY EmptySeq
  <2> QED
    BY ONLY <1>1, <2>1
<1>5. msg_order_counter' \in U8 /\ service_id' \in U8 /\ at' \in Nat \ {0}
  BY ONLY <1>2 DEF U8
<1>6. /\ Len(current_record') <= 1 /\ in_record' \in BOOLEAN
      /\ in_record' = (current_record' # <<>>)
  <2>1. in_record' \in BOOLEAN /\ in_record' = (current_record' # <<>>)
    BY ONLY <1>1, Zenon
  <2>2. Len(current_record') <= 1
    BY ONLY <1>4
  <2> QED BY <2>1, <2>2
<1>7. "" \in Words
  BY SchemaAssumption DEF SchemaAssumption
<1>8. TypeOK'
  BY <1>1, <1>3, <1>4, <1>5, <1>6, <1>7 DEF IInv, TypeOK
<1>9. Counter'
  BY <1>2, <1>4 DEF Counter
<1>10. NoOrder' /\ OrderIsPosition'
  BY <1>1, <1>4 DEF NoOrder, OrderIsPosition
<1> QED BY <1>8, <1>9, <1>10 DEF IInv

LEMMA CloseInv == IInv /\ CloseFile => IInv'
<1> SUFFICES ASSUME IInv, CloseFile PROVE IInv'
  OBVIOUS
<1>1. TypeOK /\ file \in Files /\ file' = NoFile
  BY DEF IInv, TypeOK, CloseFile
<1>2. /\ DOMAIN services' \subseteq U8
      /\ \A id \in DOMAIN services' : services'[id].messages \in Seq(Message)
  <2> DEFINE new == [name |-> IF service_name = "" THEN Stem[path] ELSE service_name,
                     messages |-> messages]
  <2>1. new.messages = messages
    OBVIOUS
  <2>2. services' = [id \in DOMAIN services \cup {service_id} |->
                       IF id = service_id THEN new ELSE services[id]]
    BY DEF CloseFile
  <2> HIDE DEF new
  <2>3. /\ DOMAIN services \subseteq U8 /\ service_id \in U8 /\ messages \in Seq(Message)
        /\ \A id \in DOMAIN services : services[id].messages \in Seq(Message)
    BY <1>1 DEF TypeOK
  <2> QED BY <2>1, <2>2, <2>3
<1>3. count' \in Nat /\ read' \subseteq [path : MessagesXml, file : Files]
  <2>1. count \in Nat /\ read \subseteq [path : MessagesXml, file : Files]
        /\ path \in MessagesXml
    BY <1>1 DEF TypeOK, CloseFile
  <2>2. count' = count + 1 /\ read' = read \cup {[path |-> path, file |-> file]}
    BY DEF CloseFile
  <2> QED BY ONLY <1>1, <2>1, <2>2
<1>4. TypeOK'
  BY <1>1, <1>2, <1>3 DEF TypeOK, CloseFile, parser
<1> QED BY <1>1, <1>4 DEF IInv, Counter, NoOrder, OrderIsPosition

LEMMA LoadInv == ASSUME IInv, NEW names, Load(names) PROVE IInv'
<1>1. count' \in Nat /\ loads' \in 0..MaxLoads
  <2>1. loads \in 0..MaxLoads /\ MaxLoads \in Nat
    BY SchemaAssumption DEF IInv, TypeOK, SchemaAssumption
  <2>2. loads < MaxLoads /\ loads' = loads + 1 /\ count' = 0
    BY DEF Load
  <2> QED BY ONLY <2>1, <2>2
<1>2. TypeOK'
  BY <1>1 DEF Load, IInv, TypeOK, parser
<1> QED BY <1>2 DEF Load, IInv, Counter, NoOrder, OrderIsPosition, parser

LEMMA SkipInv == ASSUME IInv, NEW n, SkipFile(n) PROVE IInv'
<1>1. TypeOK'
  BY DEF SkipFile, IInv, TypeOK, parser
<1> QED BY <1>1 DEF SkipFile, IInv, Counter, NoOrder, OrderIsPosition, parser

LEMMA OtherInv == IInv /\ OtherEvent => IInv'
<1> SUFFICES ASSUME IInv, OtherEvent PROVE IInv'
  OBVIOUS
<1>1. at' \in Nat \ {0}
  BY NowIsEvent DEF IInv, OtherEvent
<1>2. TypeOK'
  BY <1>1 DEF OtherEvent, Reports, IInv, TypeOK, parser
<1> QED
  BY <1>2 DEF OtherEvent, Reports, IInv, Counter, NoOrder, OrderIsPosition, parser, WritesOrder

LEMMA StutterInv == IInv /\ UNCHANGED vars => IInv'
<1> SUFFICES ASSUME IInv, UNCHANGED vars PROVE IInv'
  OBVIOUS
<1>1. TypeOK'
  BY DEF vars, parser, IInv, TypeOK
<1> QED BY <1>1 DEF vars, parser, IInv, Counter, NoOrder, OrderIsPosition, WritesOrder

\* Every step keeps the invariant, of a registry that is given files.
LEMMA StepInv == ASSUME IInv, \A n \in todo : dir[n] \in Files, [Next]_vars PROVE IInv'
<1>1. CASE Load(DOMAIN dir)
  BY <1>1, LoadInv
<1>2. CASE \E n \in todo : SkipFile(n) \/ OpenFile(n)
  BY <1>2, SkipInv, OpenInv
<1>3. CASE StartEvent \/ TextEvent \/ EndEvent \/ OtherEvent
  BY <1>3, StartInv, TextInv, EndInv, OtherInv
<1>4. CASE CloseFile
  BY <1>4, CloseInv
<1>5. CASE UNCHANGED vars
  BY <1>5, StutterInv
<1> QED BY <1>1, <1>2, <1>3, <1>4, <1>5 DEF Next

\* A step of a click is one of the registry, or leaves it as it is.
LEMMA RegistryStep == [LoadNext]_allVars => [Next]_vars
<1>1. ExtractStep \/ Click \/ UNCHANGED allVars => UNCHANGED vars
  BY DEF ExtractStep, Click, allVars
<1>2. LoadStep \/ ParseStep => Next
  BY DEF LoadStep, ParseStep, Next
<1> QED
  BY <1>1, <1>2 DEF LoadNext

-----------------------------------------------------------------------------
(***************************************************************************)
(* The extraction of the archive.                                          *)
(***************************************************************************)

\* What is read as an entry.
EntryRecord == Wad!EntryType \cup {Wad!Junk}

WadTyped ==
  /\ clicks \in 0..MaxClicks /\ wad \in Wads /\ due \in BOOLEAN
  /\ pc \in {"idle", "header", "table", "extract"} /\ result \in {"none", "ok", "err"}
  /\ pos \in Nat /\ pos <= wad.len
  /\ entries \in Seq(EntryRecord) /\ Len(entries) <= Len(wad.table)
  /\ \A i \in 1..Len(entries) : entries[i] = Wad!Junk \/ entries[i] = wad.table[i]
  /\ dml_entries \subseteq 1..Len(entries) /\ extracted \in Seq(EntryRecord)
  /\ Cardinality(dml_entries) + Len(extracted) <= Len(entries)
  /\ Contents \subseteq Files

\* The directory is touched by Extract only, which ends in Ok.
Untouched ==
  /\ pc # "idle" => result = "none"
  /\ pc \in {"header", "table"} => dir = before /\ dml_entries = {} /\ extracted = <<>>
  /\ result = "err" => dir = before

\* What is left to extract, and what was extracted, are different places of the table.
Places ==
  /\ \A i \in dml_entries : entries[i].dml
  /\ \A i \in 1..Len(extracted) : \E p \in (1..Len(entries)) \ dml_entries :
       entries[p] = extracted[i] /\ entries[p].dml

IsWhole(e) ==
  Wad!Contents(e) # {} /\ (\A j, k \in Wad!Sharing(e) : j = k)
    => e.file_name \in DOMAIN dir /\ dir[e.file_name] \in Wad!Contents(e)

WadInv ==
  WadTyped /\ Untouched /\ Places /\ \A i \in 1..Len(extracted) : IsWhole(extracted[i])

-----------------------------------------------------------------------------
\* What the assumption says of an archive.
LEMMA WadFacts ==
  ASSUME NEW w \in Wads
  PROVE  /\ w.len \in Nat /\ w.table_at \in Nat /\ w.table \in Seq(Wad!EntryType)
         /\ w.blocks \subseteq Wad!BlockType
         /\ \A b, c \in w.blocks : b.at = c.at => b = c
         /\ \A b \in w.blocks : b.content \in Files
<1>1. w \in Wad!WadType /\ \A b, c \in w.blocks : b.at = c.at => b = c
  BY ClickAssumption DEF Wad!WadAssumption
<1>2. \A b \in w.blocks : b.content \in Files
  BY ClickAssumption DEF Writable
<1> QED
  BY <1>1, <1>2 DEF Wad!WadType

LEMMA OtherFiles == "junk" \in Files /\ Torn \in [Files -> SUBSET Files]
BY ClickAssumption DEF Writable

LEMMA EntryRead ==
  ASSUME NEW e \in EntryRecord
  PROVE  e.name_len \in Nat
BY DEF EntryRecord, Wad!Junk, Wad!EntryType

\* The part of the invariant that the rest of it does not touch.
LEMMA NoElements == <<>> \in Seq(EntryRecord) /\ Len(<<>>) = 0
OBVIOUS

LEMMA InitWad == LoadInit => WadInv
<1> SUFFICES ASSUME LoadInit
             PROVE  WadInv
  OBVIOUS
<1>1. /\ clicks = 0 /\ wad \in Wads /\ pc = "idle" /\ pos = 0 /\ due = FALSE
      /\ entries = <<>> /\ dml_entries = {} /\ extracted = <<>>
      /\ dir = <<>> /\ result = "none" /\ before = <<>>
  BY DEF LoadInit, Wad!Init
<1>2. Len(entries) = 0 /\ Len(extracted) = 0 /\ Cardinality(dml_entries) = 0
      /\ entries \in Seq(EntryRecord) /\ extracted \in Seq(EntryRecord)
  BY <1>1, NoElements, FS_EmptySet
<1>3. MaxClicks \in Nat /\ wad.len \in Nat /\ Len(wad.table) \in Nat
  BY <1>1, ClickAssumption, WadFacts DEF Wad!WadAssumption
<1>4. Contents = {}
  <2>1. DOMAIN <<>> = {}
    OBVIOUS
  <2> QED
    BY <1>1, <2>1 DEF Contents
<1>5. WadTyped
  <2>1. clicks \in 0..MaxClicks /\ pos \in Nat /\ pos <= wad.len
    <3>1. clicks = 0 /\ pos = 0
      BY <1>1
    <3> QED
      BY <1>3, <3>1
  <2>2. /\ Len(entries) <= Len(wad.table) /\ dml_entries \subseteq 1..Len(entries)
        /\ Cardinality(dml_entries) + Len(extracted) <= Len(entries)
        /\ 1..Len(entries) = {}
    BY <1>1, <1>2, <1>3
  <2> QED
    BY <1>1, <1>2, <1>4, <2>1, <2>2 DEF WadTyped
<1>6. Untouched
  BY <1>1 DEF Untouched
<1>7. Places /\ \A i \in 1..Len(extracted) : IsWhole(extracted[i])
  BY <1>1, <1>2 DEF Places
<1> QED
  BY <1>5, <1>6, <1>7 DEF WadInv

LEMMA OpenWad ==
  ASSUME WadInv, Wad!Open, due' = due
  PROVE  WadInv'
<1>1. WadTyped
  BY DEF WadInv
<1>2. /\ pc = "idle" /\ clicks < MaxClicks /\ clicks' = clicks + 1 /\ wad' \in Wads
      /\ pc' = "header" /\ pos' = 0 /\ entries' = <<>> /\ dml_entries' = {} /\ extracted' = <<>>
      /\ result' = "none" /\ before' = dir /\ dir' = dir
  BY DEF Wad!Open
<1>3. Len(entries') = 0 /\ Len(extracted') = 0 /\ Cardinality(dml_entries') = 0
      /\ entries' \in Seq(EntryRecord) /\ extracted' \in Seq(EntryRecord)
  BY <1>2, NoElements, FS_EmptySet
<1>4. MaxClicks \in Nat /\ wad'.len \in Nat /\ Len(wad'.table) \in Nat
  BY <1>2, ClickAssumption, WadFacts DEF Wad!WadAssumption
<1>5. Contents' = Contents
  BY <1>2 DEF Contents
<1>6. WadTyped'
  BY <1>1, <1>2, <1>3, <1>4, <1>5 DEF WadTyped
<1>7. Untouched'
  BY <1>2 DEF Untouched
<1>8. Places' /\ \A i \in 1..Len(extracted') : IsWhole(extracted[i])'
  BY <1>2, <1>3 DEF Places
<1> QED
  BY <1>6, <1>7, <1>8 DEF WadInv

\* A step of the extraction that writes nothing.
LEMMA FilesKept ==
  ASSUME WadInv, dir' = dir, wad' = wad, extracted' = extracted
  PROVE  Contents' = Contents /\ \A i \in 1..Len(extracted') : IsWhole(extracted[i])'
<1>1. \A e : IsWhole(e)' <=> IsWhole(e)
  BY DEF IsWhole, Wad!Contents, Wad!Sharing
<1>2. \A i \in 1..Len(extracted) : IsWhole(extracted[i])
  BY DEF WadInv
<1>3. Contents' = Contents
  BY DEF Contents
<1>4. \A i \in 1..Len(extracted) : IsWhole(extracted[i])'
  BY <1>1, <1>2
<1> QED
  BY <1>3, <1>4

LEMMA FailWad ==
  ASSUME WadInv, pc \in {"header", "table"}, Wad!Fail, due' \in BOOLEAN,
         clicks' = clicks, wad' = wad, before' = before
  PROVE  WadInv'
<1>1. WadTyped /\ Untouched /\ Places
  BY DEF WadInv
<1>2. /\ pc' = "idle" /\ result' = "err" /\ pos' = pos /\ entries' = entries
      /\ dml_entries' = dml_entries /\ extracted' = extracted /\ dir' = dir
  BY DEF Wad!Fail
<1>3. Contents' = Contents /\ \A i \in 1..Len(extracted') : IsWhole(extracted[i])'
  BY <1>2, FilesKept
<1>4. WadTyped'
  BY <1>1, <1>2, <1>3 DEF WadTyped
<1>5. Untouched'
  BY <1>1, <1>2 DEF Untouched
<1>6. Places'
  BY <1>1, <1>2 DEF Places
<1> QED
  BY <1>3, <1>4, <1>5, <1>6 DEF WadInv

LEMMA HeaderWad ==
  ASSUME WadInv, Wad!ReadHeader, due' \in BOOLEAN
  PROVE  WadInv'
<1>1. WadTyped /\ Untouched /\ Places
  BY DEF WadInv
<1>2. pc = "header" /\ clicks' = clicks /\ wad' = wad /\ before' = before
  BY DEF Wad!ReadHeader
<1>3. CASE Wad!Fail
  BY <1>2, <1>3, FailWad
<1>4. CASE ~Wad!Fail
  <2>1. /\ Wad!Readable(0, Wad!HeaderLen) /\ pc' = "table" /\ pos' = Wad!HeaderLen
        /\ entries' = entries /\ dml_entries' = dml_entries /\ extracted' = extracted
        /\ dir' = dir /\ result' = result
    BY <1>4 DEF Wad!ReadHeader
  <2>2. pos' \in Nat /\ pos' <= wad.len
    <3>1. wad.len \in Nat
      BY <1>1, WadFacts DEF WadTyped
    <3> QED
      BY <2>1, <3>1 DEF Wad!Readable, Wad!HeaderLen
  <2>3. Contents' = Contents /\ \A i \in 1..Len(extracted') : IsWhole(extracted[i])'
    BY <1>2, <2>1, FilesKept
  <2>4. WadTyped'
    BY <1>1, <1>2, <2>1, <2>2, <2>3 DEF WadTyped
  <2>5. Untouched'
    BY <1>1, <1>2, <2>1 DEF Untouched
  <2>6. Places'
    BY <1>1, <2>1 DEF Places
  <2> QED
    BY <2>3, <2>4, <2>5, <2>6 DEF WadInv
<1> QED
  BY <1>3, <1>4

\* An entry is read.
LEMMA EntryWad ==
  ASSUME WadInv, Wad!ReadEntry, due' \in BOOLEAN
  PROVE  WadInv'
<1> DEFINE k == Len(entries) + 1
           e == Wad!ReadAs(k)
           n == Wad!EntryLen + e.name_len
<1>1. WadTyped /\ Untouched /\ Places
  BY DEF WadInv
<1>2. /\ pc = "table" /\ Len(entries) < Len(wad.table)
      /\ clicks' = clicks /\ wad' = wad /\ before' = before
  BY DEF Wad!ReadEntry
<1>3. /\ Len(entries) \in Nat /\ Len(wad.table) \in Nat /\ wad.len \in Nat
      /\ wad.table \in Seq(Wad!EntryType)
  BY <1>1, WadFacts DEF WadTyped
<1>4. k \in 1..Len(wad.table)
  BY <1>2, <1>3
<1>5. e \in EntryRecord /\ (e = Wad!Junk \/ e = wad.table[k])
  <2>1. wad.table[k] \in Wad!EntryType
    BY <1>3, <1>4
  <2> QED
    BY <2>1 DEF Wad!ReadAs, EntryRecord
<1>6. CASE Wad!Fail
  BY <1>2, <1>6, FailWad
<1>7. CASE ~Wad!Fail
  <2>1. /\ Wad!Readable(pos, n) /\ entries' = Append(entries, e) /\ pos' = pos + Wad!EntryLen + e.name_len
        /\ pc' = pc /\ dml_entries' = dml_entries /\ extracted' = extracted
        /\ dir' = dir /\ result' = result
    BY <1>7 DEF Wad!ReadEntry
  <2>2. pos' \in Nat /\ pos' <= wad.len
    <3>1. e.name_len \in Nat
      BY <1>5, EntryRead
    <3>2. pos \in Nat
      BY <1>1 DEF WadTyped
    <3> DEFINE l == e.name_len
    <3>3. pos' = pos + Wad!EntryLen + l /\ pos + (Wad!EntryLen + l) <= wad.len /\ l \in Nat
      BY <2>1, <3>1 DEF Wad!Readable
    <3> HIDE DEF l
    <3> QED
      BY <1>3, <3>2, <3>3 DEF Wad!EntryLen
  <2>3. Contents' = Contents /\ \A i \in 1..Len(extracted') : IsWhole(extracted[i])'
    BY <1>2, <2>1, FilesKept
  <2> HIDE DEF e
  <2>4. /\ entries' \in Seq(EntryRecord) /\ Len(entries') = k /\ entries'[k] = e
        /\ \A i \in 1..Len(entries) : entries'[i] = entries[i]
    BY <1>1, <1>5, <2>1 DEF WadTyped
  <2>5. dml_entries = {} /\ extracted = <<>>
    BY <1>1, <1>2 DEF Untouched
  <2>6. Cardinality(dml_entries') + Len(extracted') <= Len(entries')
    <3>1. Cardinality(dml_entries') = 0 /\ Len(extracted') = 0
      BY <2>1, <2>5, FS_EmptySet, NoElements
    <3> QED
      BY <1>3, <2>4, <3>1
  <2>7. \A i \in 1..Len(entries') : entries'[i] = Wad!Junk \/ entries'[i] = wad.table[i]
    <3> TAKE i \in 1..Len(entries')
    <3>1. CASE i = k
      BY <1>5, <2>4, <3>1
    <3>2. CASE i # k
      <4>1. i \in 1..Len(entries)
        BY <1>3, <2>4, <3>2
      <4> QED
        BY <1>1, <2>4, <4>1 DEF WadTyped
    <3> QED
      BY <3>1, <3>2
  <2>8. Len(entries') <= Len(wad.table) /\ dml_entries' \subseteq 1..Len(entries')
    BY <1>3, <1>4, <2>1, <2>4, <2>5
  <2>9. WadTyped'
    BY <1>1, <1>2, <2>1, <2>2, <2>3, <2>4, <2>6, <2>7, <2>8 DEF WadTyped
  <2>10. Untouched'
    BY <1>1, <1>2, <2>1 DEF Untouched
  <2>11. Places'
    <3>1. Len(extracted') = 0
      BY <2>1, <2>5, NoElements
    <3> QED
      BY <2>1, <2>5, <3>1 DEF Places
  <2> QED
    BY <2>3, <2>9, <2>10, <2>11 DEF WadInv
<1> QED
  BY <1>6, <1>7

\* How many places are left.
LEMMA PlacesLeft ==
  ASSUME NEW n \in Nat, NEW S \in SUBSET (1..n)
  PROVE  /\ IsFiniteSet(S) /\ Cardinality(S) \in Nat /\ Cardinality(S) <= n
         /\ \A i \in S : Cardinality(S \ {i}) = Cardinality(S) - 1
<1>1. IsFiniteSet(1..n) /\ Cardinality(1..n) = n
  BY FS_Interval
<1>2. IsFiniteSet(S) /\ Cardinality(S) <= n
  BY <1>1, FS_Subset
<1>3. Cardinality(S) \in Nat
  BY <1>2, FS_CardinalityType
<1>4. \A i \in S : Cardinality(S \ {i}) = Cardinality(S) - 1
  BY <1>2, FS_RemoveElement
<1> QED
  BY <1>2, <1>3, <1>4

LEMMA SelectWad ==
  ASSUME WadInv, Wad!Select, due' \in BOOLEAN
  PROVE  WadInv'
<1> DEFINE n == Len(entries)
           S == {i \in DOMAIN entries : entries[i].dml}
<1>1. WadTyped /\ Untouched
  BY DEF WadInv
<1>2. /\ pc = "table" /\ dml_entries' = S
      /\ clicks' = clicks /\ wad' = wad /\ before' = before /\ pos' = pos
      /\ entries' = entries /\ extracted' = extracted /\ dir' = dir
      /\ \/ pc' = "idle" /\ result' = "err"
         \/ pc' = "extract" /\ result' = result
  BY DEF Wad!Select
<1>3. n \in Nat /\ DOMAIN entries = 1..n
  BY <1>1 DEF WadTyped
<1>4. extracted = <<>> /\ result = "none" /\ dir = before
  BY <1>1, <1>2 DEF Untouched
<1>5. Contents' = Contents /\ \A i \in 1..Len(extracted') : IsWhole(extracted[i])'
  BY <1>2, FilesKept
<1>6. S \subseteq 1..n /\ \A i \in S : entries[i].dml
  BY <1>3
<1> HIDE DEF S
<1>7. Cardinality(S) \in Nat /\ Cardinality(S) <= n
  BY <1>3, <1>6, PlacesLeft
<1>8. Cardinality(dml_entries') + Len(extracted') <= Len(entries')
  BY <1>2, <1>3, <1>4, <1>7, NoElements
<1>9. WadTyped'
  BY <1>1, <1>2, <1>5, <1>6, <1>8 DEF WadTyped
<1>10. Untouched'
  BY <1>2, <1>4 DEF Untouched
<1>11. Places'
  <2>1. Len(extracted') = 0
    BY <1>2, <1>4, NoElements
  <2> QED
    BY <1>2, <1>6, <2>1 DEF Places
<1> QED
  BY <1>5, <1>9, <1>10, <1>11 DEF WadInv

\* What is read for an entry is what the archive has for it, where it has anything.
LEMMA DataWhole ==
  ASSUME wad \in Wads, NEW e, NEW c \in Wad!Data(e)
  PROVE  c \in Files /\ (Wad!Contents(e) # {} => c \in Wad!Contents(e))
<1> DEFINE n == IF e.is_compressed THEN e.compressed_size ELSE e.size
           found == {b \in wad.blocks : b.at = e.offset /\ b.len = n}
           own == {b \in wad.blocks : /\ b.at = e.offset /\ b.zlib = e.is_compressed
                                      /\ b.len = n}
<1>1. /\ \A b, d \in wad.blocks : b.at = d.at => b = d
      /\ \A b \in wad.blocks : b.content \in Files
  BY WadFacts
<1>2. Wad!Contents(e) = {b.content : b \in own}
  BY DEF Wad!Contents
<1>3. Wad!Data(e) = CASE ~Wad!Readable(e.offset, n) -> {}
                      [] Wad!Readable(e.offset, n) /\ e.is_compressed ->
                           {b.content : b \in {d \in found : d.zlib}}
                      [] OTHER -> IF found = {} THEN {"junk"} ELSE {b.content : b \in found}
  BY DEF Wad!Data, Wad!DataAt
<1> DEFINE r == Wad!Readable(e.offset, n)
<1>4. \/ e.is_compressed /\ \E b \in found : b.zlib /\ c = b.content
      \/ found = {} /\ c = "junk"
      \/ \E b \in found : c = b.content
  <2> HIDE DEF found, n, r
  <2>1. r
    BY <1>3 DEF r
  <2>2. CASE e.is_compressed
    BY <1>3, <2>1, <2>2 DEF r
  <2>3. CASE ~e.is_compressed
    BY <1>3, <2>1, <2>3 DEF r
  <2> QED
    BY <2>2, <2>3
<1>5. c \in Files
  BY <1>1, <1>4, OtherFiles
<1>6. ASSUME Wad!Contents(e) # {} PROVE c \in Wad!Contents(e)
  <2>1. PICK b \in own : TRUE
    BY <1>2, <1>6
  <2>2. b \in found /\ \A d \in found : d = b
    BY <1>1, <2>1
  <2>3. c = b.content
    BY <1>4, <2>2
  <2> QED
    BY <1>2, <2>1, <2>3
<1> QED
  BY <1>5, <1>6

\* A file of the directory is written.
LEMMA FileWritten ==
  ASSUME NEW name, NEW c, dir' = Wad!File(name, c)
  PROVE  /\ DOMAIN dir' = DOMAIN dir \cup {name} /\ dir'[name] = c
         /\ \A m \in DOMAIN dir : m # name => dir'[m] = dir[m]
         /\ Contents' \subseteq Contents \cup {c}
<1>1. dir' = [m \in DOMAIN dir \cup {name} |-> IF m = name THEN c ELSE dir[m]]
  BY DEF Wad!File
<1>2. /\ DOMAIN dir' = DOMAIN dir \cup {name} /\ dir'[name] = c
      /\ \A m \in DOMAIN dir : m # name => dir'[m] = dir[m]
  BY <1>1
<1>3. Contents' \subseteq Contents \cup {c}
  BY <1>2 DEF Contents
<1> QED
  BY <1>2, <1>3

\* A place that is extracted is one of the table.
LEMMA PlaceFacts ==
  ASSUME WadInv, NEW p \in 1..Len(entries), entries[p].dml
  PROVE  p \in DOMAIN wad.table /\ entries[p] = wad.table[p]
<1>1. /\ wad \in Wads /\ entries \in Seq(EntryRecord) /\ Len(entries) <= Len(wad.table)
      /\ entries[p] = Wad!Junk \/ entries[p] = wad.table[p]
  BY DEF WadInv, WadTyped
<1>2. wad.table \in Seq(Wad!EntryType)
  BY <1>1, WadFacts
<1>3. p \in DOMAIN wad.table
  <2>1. Len(entries) \in Nat /\ Len(wad.table) \in Nat /\ DOMAIN wad.table = 1..Len(wad.table)
    BY <1>1, <1>2
  <2> QED
    BY <1>1, <2>1
<1>4. ~Wad!Junk.dml
  BY DEF Wad!Junk
<1> QED
  BY <1>1, <1>3, <1>4

\* What was extracted before stays, whatever is written now.
LEMMA EarlierKept ==
  ASSUME WadInv, NEW i \in dml_entries, wad' = wad,
         dir' = dir \/ \E c : dir' = Wad!File(entries[i].file_name, c)
  PROVE  \A m \in 1..Len(extracted) :
           LET d == extracted[m]
           IN Wad!Contents(d) # {} /\ (\A j, k \in Wad!Sharing(d) : j = k)
                => d.file_name \in DOMAIN dir' /\ dir'[d.file_name] \in Wad!Contents(d)
<1> SUFFICES ASSUME NEW m \in 1..Len(extracted), Wad!Contents(extracted[m]) # {},
                    \A j, k \in Wad!Sharing(extracted[m]) : j = k
             PROVE  /\ extracted[m].file_name \in DOMAIN dir'
                    /\ dir'[extracted[m].file_name] \in Wad!Contents(extracted[m])
  OBVIOUS
<1> DEFINE d == extracted[m]
<1>1. WadTyped /\ Places /\ IsWhole(d)
  BY DEF WadInv
<1>2. d.file_name \in DOMAIN dir /\ dir[d.file_name] \in Wad!Contents(d)
  BY <1>1 DEF IsWhole
<1>3. PICK p \in (1..Len(entries)) \ dml_entries : entries[p] = d /\ entries[p].dml
  BY <1>1 DEF Places
<1>4. i \in 1..Len(entries) /\ entries[i].dml
  BY <1>1 DEF WadTyped, Places
<1>5. p \in DOMAIN wad.table /\ d = wad.table[p] /\ i \in DOMAIN wad.table /\ entries[i] = wad.table[i]
  BY <1>3, <1>4, PlaceFacts
<1>6. entries[i].file_name # d.file_name
  <2> SUFFICES ASSUME entries[i].file_name = d.file_name
               PROVE  FALSE
    OBVIOUS
  <2>1. p \in Wad!Sharing(d) /\ i \in Wad!Sharing(d)
    BY <1>3, <1>4, <1>5 DEF Wad!Sharing
  <2> QED
    BY <1>3, <2>1
<1>7. CASE dir' = dir
  BY <1>2, <1>7
<1>8. ASSUME NEW c, dir' = Wad!File(entries[i].file_name, c)
      PROVE  d.file_name \in DOMAIN dir' /\ dir'[d.file_name] = dir[d.file_name]
  BY <1>2, <1>6, <1>8, FileWritten, ZenonT(60)
<1> QED
  BY <1>2, <1>7, <1>8

LEMMA ExtractWad ==
  ASSUME WadInv, Wad!Extract, due' \in BOOLEAN
  PROVE  WadInv'
<1>1. WadTyped /\ Untouched /\ Places
  BY DEF WadInv
<1>2. PICK i \in dml_entries :
        LET e == entries[i]
        IN /\ dml_entries' = dml_entries \ {i}
           /\ \/ /\ \E c \in Wad!Data(e) : dir' = Wad!File(e.file_name, c)
                 /\ extracted' = Append(extracted, e)
              \/ dir' = dir /\ extracted' = extracted
              \/ /\ \E c \in Wad!Data(e) : \E t \in Torn[c] : dir' = Wad!File(e.file_name, t)
                 /\ extracted' = extracted
  BY DEF Wad!Extract
<1> DEFINE e == entries[i]
           n == Len(entries)
           x == Len(extracted)
<1>3. /\ pc = "extract" /\ pc' = pc /\ clicks' = clicks /\ wad' = wad /\ pos' = pos
      /\ entries' = entries /\ result' = result /\ before' = before
  BY DEF Wad!Extract
<1>4. /\ dml_entries' = dml_entries \ {i}
      /\ \/ dir' = dir /\ extracted' = extracted
         \/ /\ \E c \in Wad!Data(e) : \E t \in Torn[c] : dir' = Wad!File(e.file_name, t)
            /\ extracted' = extracted
         \/ \E c \in Wad!Data(e) : dir' = Wad!File(e.file_name, c) /\ extracted' = Append(extracted, e)
  BY <1>2
<1>5. /\ n \in Nat /\ x \in Nat /\ i \in 1..n /\ e \in EntryRecord /\ e.dml
      /\ extracted \in Seq(EntryRecord) /\ entries \in Seq(EntryRecord)
  BY <1>1 DEF WadTyped, Places
<1>6. /\ Cardinality(dml_entries) \in Nat
      /\ Cardinality(dml_entries') = Cardinality(dml_entries) - 1
  BY <1>1, <1>4, <1>5, PlacesLeft DEF WadTyped
<1>7. Contents' \subseteq Files
  <2>1. Contents \subseteq Files /\ wad \in Wads
    BY <1>1 DEF WadTyped
  <2>2. CASE dir' = dir
    BY <2>1, <2>2 DEF Contents
  <2>3. ASSUME NEW c \in Wad!Data(e), NEW t \in Torn[c], dir' = Wad!File(e.file_name, t)
        PROVE  Contents' \subseteq Files
    <3>1. Contents' \subseteq Contents \cup {t}
      BY <2>3, FileWritten
    <3>2. c \in Files
      BY <2>1, DataWhole
    <3>3. t \in Files
      BY <3>2, OtherFiles
    <3> QED
      BY <2>1, <3>1, <3>3
  <2>4. ASSUME NEW c \in Wad!Data(e), dir' = Wad!File(e.file_name, c) PROVE Contents' \subseteq Files
    <3>1. Contents' \subseteq Contents \cup {c}
      BY <2>4, FileWritten
    <3>2. c \in Files
      BY <2>1, DataWhole
    <3> QED
      BY <2>1, <3>1, <3>2
  <2> QED
    BY <1>4, <2>2, <2>3, <2>4
<1>8. \A m \in 1..x : IsWhole(extracted[m])'
         \/ extracted'[m] # extracted[m]
  <2> TAKE m \in 1..x
  <2> SUFFICES ASSUME extracted'[m] = extracted[m]
               PROVE  IsWhole(extracted[m])'
    OBVIOUS
  <2>1. dir' = dir \/ \E c : dir' = Wad!File(entries[i].file_name, c)
    BY <1>4
  <2>2. LET d == extracted[m]
        IN Wad!Contents(d) # {} /\ (\A j, k \in Wad!Sharing(d) : j = k)
             => d.file_name \in DOMAIN dir' /\ dir'[d.file_name] \in Wad!Contents(d)
    BY <1>3, <2>1, EarlierKept
  <2> QED
    BY <1>3, <2>2 DEF IsWhole, Wad!Contents, Wad!Sharing
<1>9. Untouched'
  BY <1>1, <1>3 DEF Untouched
<1>10. \A j \in dml_entries' : entries'[j].dml
  BY <1>1, <1>3, <1>4 DEF Places
<1>11. CASE extracted' = extracted
  <2>1. Cardinality(dml_entries') + Len(extracted') <= Len(entries')
    BY <1>1, <1>3, <1>5, <1>6, <1>11 DEF WadTyped
  <2>2. dml_entries' \subseteq 1..Len(entries')
    BY <1>1, <1>3, <1>4 DEF WadTyped
  <2>3. WadTyped'
    BY <1>1, <1>3, <1>7, <1>11, <2>1, <2>2 DEF WadTyped
  <2>4. Places'
    BY <1>1, <1>3, <1>4, <1>10, <1>11 DEF Places
  <2>5. \A m \in 1..Len(extracted') : IsWhole(extracted[m])'
    BY <1>8, <1>11
  <2> QED
    BY <1>9, <2>3, <2>4, <2>5 DEF WadInv
<1>12. CASE \E c \in Wad!Data(e) : dir' = Wad!File(e.file_name, c) /\ extracted' = Append(extracted, e)
  <2>1. PICK c \in Wad!Data(e) : dir' = Wad!File(e.file_name, c) /\ extracted' = Append(extracted, e)
    BY <1>12
  <2> HIDE DEF e
  <2>2. /\ extracted' \in Seq(EntryRecord) /\ Len(extracted') = x + 1 /\ extracted'[x + 1] = e
        /\ \A m \in 1..x : extracted'[m] = extracted[m]
    BY <1>5, <2>1
  <2>3. Cardinality(dml_entries') + Len(extracted') <= Len(entries')
    BY <1>1, <1>3, <1>5, <1>6, <2>2 DEF WadTyped
  <2>4. dml_entries' \subseteq 1..Len(entries')
    BY <1>1, <1>3, <1>4 DEF WadTyped
  <2>5. WadTyped'
    BY <1>1, <1>3, <1>7, <2>2, <2>3, <2>4 DEF WadTyped
  <2>6. ASSUME NEW m \in 1..Len(extracted')
        PROVE  /\ \E p \in (1..Len(entries')) \ dml_entries' :
                    entries'[p] = extracted'[m] /\ entries'[p].dml
               /\ IsWhole(extracted[m])'
    <3>1. CASE m = x + 1
      <4>1. extracted'[m] = e
        BY <2>2, <3>1
      <4>2. i \in (1..Len(entries')) \ dml_entries' /\ entries'[i] = e /\ entries'[i].dml
        BY <1>3, <1>4, <1>5 DEF e
      <4>3. Wad!Contents(e)' = Wad!Contents(e)
        BY <1>3, <1>5 DEF Wad!Contents, e
      <4>4. wad \in Wads
        BY <1>1 DEF WadTyped
      <4>5. e.file_name \in DOMAIN dir' /\ dir'[e.file_name] = c
            /\ (Wad!Contents(e) # {} => c \in Wad!Contents(e))
        <5>1. DOMAIN dir' = DOMAIN dir \cup {e.file_name} /\ dir'[e.file_name] = c
          BY <2>1, FileWritten
        <5>2. Wad!Contents(e) # {} => c \in Wad!Contents(e)
          BY <4>4, DataWhole
        <5> QED
          BY <5>1, <5>2
      <4>6. IsWhole(extracted[m])'
        BY <1>3, <4>1, <4>5 DEF IsWhole, Wad!Contents
      <4> QED
        BY <4>1, <4>2, <4>6
    <3>2. CASE m # x + 1
      <4>1. m \in 1..x /\ extracted'[m] = extracted[m]
        BY <1>5, <2>2, <3>2
      <4> QED
        BY <1>1, <1>3, <1>4, <1>8, <4>1 DEF Places
    <3> QED
      BY <3>1, <3>2
  <2>7. Places'
    BY <1>10, <2>6 DEF Places
  <2> QED
    BY <1>9, <2>5, <2>6, <2>7 DEF WadInv
<1> QED
  BY <1>4, <1>11, <1>12

LEMMA FinishWad ==
  ASSUME WadInv, Wad!Finish, due' \in BOOLEAN
  PROVE  WadInv'
<1>1. WadTyped /\ Untouched /\ Places
  BY DEF WadInv
<1>2. /\ pc = "extract" /\ pc' = "idle" /\ result' = "ok" /\ clicks' = clicks /\ wad' = wad
      /\ pos' = pos /\ entries' = entries /\ dml_entries' = dml_entries
      /\ extracted' = extracted /\ dir' = dir /\ before' = before
  BY DEF Wad!Finish
<1>3. Contents' = Contents /\ \A i \in 1..Len(extracted') : IsWhole(extracted[i])'
  BY <1>2, FilesKept
<1>4. WadTyped'
  BY <1>1, <1>2, <1>3 DEF WadTyped
<1>5. Untouched' /\ Places'
  BY <1>1, <1>2 DEF Untouched, Places
<1> QED
  BY <1>3, <1>4, <1>5 DEF WadInv

LEMMA NothingWad ==
  ASSUME WadInv, UNCHANGED wadVars, due' \in BOOLEAN
  PROVE  WadInv'
<1>1. WadTyped /\ Untouched /\ Places
  BY DEF WadInv
<1>2. /\ clicks' = clicks /\ wad' = wad /\ pc' = pc /\ pos' = pos /\ entries' = entries
      /\ dml_entries' = dml_entries /\ extracted' = extracted /\ dir' = dir
      /\ result' = result /\ before' = before
  BY DEF wadVars
<1>3. Contents' = Contents /\ \A i \in 1..Len(extracted') : IsWhole(extracted[i])'
  BY <1>2, FilesKept
<1>4. WadTyped'
  BY <1>1, <1>2, <1>3 DEF WadTyped
<1>5. Untouched' /\ Places'
  BY <1>1, <1>2 DEF Untouched, Places
<1> QED
  BY <1>3, <1>4, <1>5 DEF WadInv

LEMMA NextWad == WadInv /\ [LoadNext]_allVars => WadInv'
<1> SUFFICES ASSUME WadInv, [LoadNext]_allVars
             PROVE  WadInv'
  OBVIOUS
<1>1. due \in BOOLEAN
  BY DEF WadInv, WadTyped
<1>2. CASE Click
  BY <1>2, OpenWad DEF Click
<1>3. CASE ExtractStep
  <2>1. due' \in BOOLEAN
    BY <1>3 DEF ExtractStep
  <2> QED
    BY <1>3, <2>1, HeaderWad, EntryWad, SelectWad, ExtractWad, FinishWad DEF ExtractStep
<1>4. CASE LoadStep \/ ParseStep \/ UNCHANGED allVars
  <2>1. UNCHANGED wadVars /\ due' \in BOOLEAN
    BY <1>1, <1>4 DEF LoadStep, ParseStep, allVars
  <2> QED
    BY <2>1, NothingWad
<1> QED
  BY <1>2, <1>3, <1>4 DEF LoadNext

LEMMA WadInvariance == LoadSpec => []WadInv
BY InitWad, NextWad, PTL DEF LoadSpec

\* The types of the extraction: it reads no byte behind the end of the file, returns no more
\* paths than the table has entries, and leaves files that the registry can be given
\* (extract_dml_xmls, wad.rs:19).
THEOREM WadTypes == LoadSpec => []WadTypeOK
<1>1. WadInv => WadTypeOK
  <2> SUFFICES ASSUME WadInv
               PROVE  WadTypeOK
    OBVIOUS
  <2>1. WadTyped
    BY DEF WadInv
  <2>2. DOMAIN entries = 1..Len(entries)
    BY <2>1 DEF WadTyped
  <2>3. Wad!Cardinality(dml_entries) = Cardinality(dml_entries)
    BY DEF Wad!Cardinality, Cardinality
  <2> QED
    BY <2>1, <2>2, <2>3 DEF WadTypeOK, WadTyped, Wad!TypeOK
<1> QED
  BY <1>1, WadInvariance, PTL

\* extract_entry (wad.rs:103): for any archive, and wherever the disk fails, every path that
\* is returned is a file with the whole of its entry, unless two entries have one file_name.
THEOREM PathsAreWhole == LoadSpec => []ReturnedAreWhole
<1>1. WadInv => ReturnedAreWhole
  <2> SUFFICES ASSUME WadInv, NEW i \in DOMAIN extracted
               PROVE  IsWhole(extracted[i])
    BY DEF ReturnedAreWhole, Wad!ReturnedAreWhole, IsWhole
  <2>1. extracted \in Seq(EntryRecord) /\ \A j \in 1..Len(extracted) : IsWhole(extracted[j])
    BY DEF WadInv, WadTyped
  <2>2. i \in 1..Len(extracted)
    BY <2>1
  <2> QED
    BY <2>1, <2>2
<1> QED
  BY <1>1, WadInvariance, PTL

\* extract_dml_xmls (wad.rs:19): an Err comes before the first file is written.
THEOREM ErrWritesNothing == LoadSpec => []ErrKeepsFiles
<1>1. WadInv => ErrKeepsFiles
  BY DEF WadInv, Untouched, ErrKeepsFiles, Wad!ErrKeepsFiles
<1> QED
  BY <1>1, WadInvariance, PTL

-----------------------------------------------------------------------------
(***************************************************************************)
(* What the registry is given.                                             *)
(***************************************************************************)

\* The registry loads the directory after an extraction that was Ok, and at no other time.
Loading ==
  /\ due => pc = "idle" /\ result = "ok"
  /\ \/ todo = {} /\ file = NoFile
     \/ /\ pc = "idle" /\ result = "ok" /\ ~due
        /\ todo \subseteq DOMAIN dir
        /\ file # NoFile => path \in Listed /\ file = dir[path] /\ file \notin Unreadable

\* The four events of parse_message_xml.
EventStep == StartEvent \/ TextEvent \/ EndEvent \/ OtherEvent

LEMMA NextLoading == Loading /\ [LoadNext]_allVars => Loading'
<1> SUFFICES ASSUME Loading, [LoadNext]_allVars
             PROVE  Loading'
  OBVIOUS
<1>1. CASE Click
  <2>1. todo' = todo /\ file' = file /\ due' = due /\ ~due /\ todo = {} /\ file = NoFile
    BY <1>1 DEF Click, vars, Loaded
  <2> QED
    BY <2>1 DEF Loading
<1>2. CASE ExtractStep
  <2>1. /\ pc # "idle" /\ todo' = todo /\ file' = file
        /\ due' = (pc' = "idle" /\ result' = "ok")
    BY <1>2 DEF ExtractStep, Wad!ReadHeader, Wad!ReadEntry, Wad!Select, Wad!Extract, Wad!Finish, vars
  <2> QED
    BY <2>1 DEF Loading
<1>3. CASE LoadStep
  <2>1. /\ due /\ due' = FALSE /\ todo' = DOMAIN dir /\ file' = file /\ file = NoFile
        /\ pc' = pc /\ result' = result /\ dir' = dir
    BY <1>3 DEF LoadStep, Load, wadVars
  <2> QED
    BY <2>1 DEF Loading
<1>4. CASE ParseStep
  <2>1. dir' = dir /\ pc' = pc /\ result' = result /\ due' = due /\ Listed' = Listed
    BY <1>4 DEF ParseStep, wadVars, Listed
  <2>2. CASE CloseFile
    <3>1. todo' = todo /\ file' = NoFile /\ file # NoFile
      BY <2>2 DEF CloseFile
    <3> QED
      BY <2>1, <3>1 DEF Loading
  <2>3. ASSUME NEW n \in todo, SkipFile(n) PROVE Loading'
    <3>1. file = NoFile /\ file' = file /\ todo' = todo \ {n}
      BY <2>3 DEF SkipFile
    <3> QED
      BY <2>1, <3>1 DEF Loading
  <2>4. ASSUME NEW n \in todo, OpenFile(n) PROVE Loading'
    <3>1. /\ n \in MessagesXml /\ dir[n] \notin Unreadable /\ todo' = todo \ {n}
          /\ path' = n /\ file' = dir[n]
      BY <2>4 DEF OpenFile
    <3>2. pc = "idle" /\ result = "ok" /\ ~due /\ todo \subseteq DOMAIN dir
      BY DEF Loading
    <3>3. path' \in Listed
      BY <3>1, <3>2 DEF Listed
    <3> QED
      BY <2>1, <3>1, <3>2, <3>3 DEF Loading
  <2>5. CASE EventStep
    <3>1. todo' = todo /\ file' = file /\ path' = path
      BY <2>5 DEF EventStep, StartEvent, TextEvent, EndEvent, OtherEvent, Reports
    <3> QED
      BY <2>1, <3>1 DEF Loading
  <2> QED
    BY <1>4, <2>2, <2>3, <2>4, <2>5 DEF ParseStep, EventStep
<1>5. CASE UNCHANGED allVars
  BY <1>5 DEF allVars, vars, wadVars, Loading, Listed
<1> QED
  BY <1>1, <1>2, <1>3, <1>4, <1>5 DEF LoadNext

LEMMA LoadingInvariance == LoadSpec => []Loading
<1>1. LoadInit => Loading
  BY DEF LoadInit, Init, Loading
<1> QED
  BY <1>1, NextLoading, PTL DEF LoadSpec

\* What is left to load, and what is parsed, is a file of the directory.
LEMMA FilesGiven ==
  ASSUME WadInv, Loading
  PROVE  /\ todo \subseteq DOMAIN dir /\ \A n \in todo : dir[n] \in Files
         /\ file # NoFile => file \in Schemas \ Unreadable
<1>1. todo \subseteq DOMAIN dir
  BY DEF Loading
<1>2. \A n \in DOMAIN dir : dir[n] \in Files
  BY DEF WadInv, WadTyped, Contents
<1>3. file # NoFile => file \in Schemas \ Unreadable
  BY DEF Loading, Schemas
<1> QED
  BY <1>1, <1>2, <1>3

LEMMA Invariance == LoadSpec => []IInv
<1>1. LoadInit => IInv
  BY InitInv DEF LoadInit
<1>2. IInv /\ WadInv /\ Loading /\ [LoadNext]_allVars => IInv'
  BY StepInv, RegistryStep, FilesGiven
<1> QED BY <1>1, <1>2, WadInvariance, LoadingInvariance, PTL DEF LoadSpec

\* The types of the registry and of the parser, for any archives and events: a record is
\* open exactly while in_record says so, whatever elements are nested in what
\* (parse_message_xml, schema.rs:89); and the entries left are names of the directory.
THEOREM TypeCorrect == LoadSpec => [](TypeOK /\ todo \subseteq DOMAIN dir)
<1>1. IInv /\ WadInv /\ Loading => TypeOK /\ todo \subseteq DOMAIN dir
  BY FilesGiven DEF IInv
<1> QED BY <1>1, Invariance, WadInvariance, LoadingInvariance, PTL

\* In a file that writes no order the i-th message has order i, up to the u8's width
\* (msg_order_counter in parse_message_xml, schema.rs:89).
THEOREM OrdersCounted == LoadSpec => []OrderIsPosition
<1>1. IInv => OrderIsPosition
  BY DEF IInv
<1> QED BY <1>1, Invariance, PTL

-----------------------------------------------------------------------------
(***************************************************************************)
(* The registry and the documents.  Where the parser is in a file, it is   *)
(* at a place of the document, and what it knows there is what the document *)
(* says up to there.                                                       *)
(***************************************************************************)

Parts ==
  {"start", "id", "protocol", "messages", "message", "name", "order", "fields", "recorded", "end"}
InRecord == {"name", "order", "fields"}

Here == Marks[file][at]
Described == Documents[file]

\* The places that document d has.
Place(d) ==
  [part : Parts, done : 0..Len(d.messages), fields : Nat,
   inside : {"none", "tag", "word", "cut", "space", "note"}]
FieldsOf(d, p) == d.messages[p.done + 1].fields
MarkOK(d, p) ==
  /\ p \in Place(d)
  /\ p.part \in {"start", "id", "protocol"} => p.done = 0
  /\ p.part \in InRecord \cup {"message"} => p.done < Len(d.messages)
  /\ p.part = "recorded" => p.done > 0
  /\ p.part = "end" => p.done = Len(d.messages)
  /\ IF p.part = "fields" THEN p.fields <= Len(FieldsOf(d, p)) ELSE p.fields = 0
  /\ p.inside \in {"tag", "word", "cut"} => HasElement(d, p)
  /\ p.part = "fields" => p.inside \notin {"word", "cut"}
  /\ p.part = "fields" /\ d.layout = "empty tags" => p.inside # "tag"
  /\ d.layout # "indented" => p.inside # "space"
  /\ p.inside = "note" => p.part \in InRecord

-----------------------------------------------------------------------------
\* What the assumption says of a document.
IsDocument(d) ==
  /\ d \in Document
  /\ \A i \in 1..Len(d.messages) : \A j \in 1..Len(d.messages[i].fields) :
       /\ d.messages[i].fields[j].name \notin MsgTags \cup {"RECORD"}
       /\ d.messages[i].fields[j].field_type # ""

LEMMA DocumentFacts == ASSUME NEW f \in Files PROVE IsDocument(Documents[f])
<1> DEFINE d == Documents[f]
<1>1. d \in Document
  BY DocumentAssumption
<1>2. ASSUME NEW i \in 1..Len(d.messages), NEW j \in 1..Len(d.messages[i].fields)
      PROVE  /\ d.messages[i].fields[j].name \notin MsgTags \cup {"RECORD"}
             /\ d.messages[i].fields[j].field_type # ""
  <2>1. d.messages \in Seq(Message)
    BY <1>1 DEF Document
  <2>2. i \in DOMAIN d.messages /\ d.messages[i] \in Message
    BY <2>1
  <2>3. d.messages[i].fields \in Seq([name : Words, field_type : Words])
    BY <2>2 DEF Message
  <2>4. d.messages[i].fields[j] \in Range(d.messages[i].fields)
    BY <2>3 DEF Range
  <2> QED
    BY <2>2, <2>4, DocumentAssumption
<1> QED
  BY <1>1, <1>2 DEF IsDocument

LEMMA MessageFacts ==
  ASSUME NEW d, IsDocument(d), NEW i \in 1..Len(d.messages)
  PROVE  /\ d.messages[i] \in Message /\ d.messages[i].name \in Words
         /\ d.messages[i].order \in U8
         /\ d.messages[i].fields \in Seq([name : Words, field_type : Words])
         /\ Len(d.messages[i].fields) \in Nat
<1>1. d.messages \in Seq(Message)
  BY DEF IsDocument, Document
<1>2. d.messages[i] \in Message
  BY <1>1
<1> QED
  BY <1>2 DEF Message

LEMMA LenMessages ==
  ASSUME NEW d, IsDocument(d)
  PROVE  d.messages \in Seq(Message) /\ Len(d.messages) \in Nat
<1>1. d.messages \in Seq(Message)
  BY DEF IsDocument, Document
<1> QED
  BY <1>1, LenNat

\* The element at a place.
LEMMA ElementFacts ==
  ASSUME NEW d, IsDocument(d), NEW p, MarkOK(d, p), HasElement(d, p)
  PROVE  LET x == ElementAt(d, p)
             m == d.messages[p.done + 1]
         IN /\ p.part \in {"id", "protocol"} \cup InRecord
            /\ x.tag # "RECORD"
            /\ p.part = "id" => x = Element("ServiceID", "UBYT", ToString(d.id))
            /\ p.part = "protocol" => x = Element("ProtocolType", "STR", d.protocol)
            /\ p.part = "name" => x = Element("_MsgName", "STR", m.name)
            /\ p.part = "order" => x = Element("_MsgOrder", "UBYT", ToString(m.order))
            /\ p.part = "fields" =>
                 /\ p.fields + 1 \in 1..Len(m.fields)
                 /\ x = Element(m.fields[p.fields + 1].name, m.fields[p.fields + 1].field_type, "")
                 /\ x.tag \notin MsgTags /\ x.type # ""
<1> DEFINE m == d.messages[p.done + 1]
           x == ElementAt(d, p)
<1>1. p.part \in {"id", "protocol", "name", "order"} \/ (p.part = "fields" /\ p.fields < Len(m.fields))
  BY DEF HasElement
<1>2. CASE p.part \in {"id", "protocol", "name", "order"}
  BY <1>2 DEF ElementAt, Element, InRecord
<1>3. CASE p.part = "fields"
  <2>1. p.fields < Len(m.fields)
    BY <1>1, <1>3
  <2>2. p.done + 1 \in 1..Len(d.messages) /\ p.fields \in Nat
    <3>1. p.done < Len(d.messages) /\ p.done \in 0..Len(d.messages) /\ p.fields \in Nat
      BY <1>3 DEF MarkOK, InRecord, Place
    <3> QED
      BY <3>1, LenMessages
  <2>3. p.fields + 1 \in 1..Len(m.fields)
    BY <2>1, <2>2, MessageFacts, SMTT(30)
  <2>4. /\ m.fields[p.fields + 1].name \notin MsgTags \cup {"RECORD"}
        /\ m.fields[p.fields + 1].field_type # ""
    BY <2>2, <2>3 DEF IsDocument
  <2> DEFINE t == m.fields[p.fields + 1].name
             u == m.fields[p.fields + 1].field_type
  <2>5. x = Element(t, u, "")
    BY <1>3 DEF ElementAt
  <2>6. x.tag = t /\ x.type = u
    <3> HIDE DEF t, u, x
    <3> QED
      BY <2>5 DEF Element
  <2> QED
    BY <1>3, <2>3, <2>4, <2>5, <2>6 DEF InRecord
<1> QED
  BY <1>1, <1>2, <1>3

\* The same, part by part.
LEMMA ElementFields ==
  ASSUME NEW d, IsDocument(d), NEW p, MarkOK(d, p), HasElement(d, p)
  PROVE  LET x == ElementAt(d, p)
             m == d.messages[p.done + 1]
         IN /\ p.part \in {"id", "protocol"} \cup InRecord /\ x.tag # "RECORD"
            /\ p.part = "id" => x.tag = "ServiceID" /\ x.word = ToString(d.id)
            /\ p.part = "protocol" => x.tag = "ProtocolType" /\ x.word = d.protocol
            /\ p.part = "name" => x.tag = "_MsgName" /\ x.word = m.name
            /\ p.part = "order" => x.tag = "_MsgOrder" /\ x.word = ToString(m.order)
            /\ p.part = "fields" => x.tag \notin MsgTags /\ x.type # "" /\ x.word = ""
<1> DEFINE x == ElementAt(d, p)
           m == d.messages[p.done + 1]
           y == m.fields[p.fields + 1]
<1>1. p.part \in {"id", "protocol"} \cup InRecord /\ x.tag # "RECORD"
  BY ElementFacts
<1>2. ASSUME NEW t, NEW u, NEW w, x = Element(t, u, w)
      PROVE  x.tag = t /\ x.word = w
  <2> HIDE DEF x
  <2> QED
    BY <1>2 DEF Element
<1>3. ASSUME p.part = "id" PROVE x.tag = "ServiceID" /\ x.word = ToString(d.id)
  <2>1. x = Element("ServiceID", "UBYT", ToString(d.id))
    BY <1>3, ElementFacts
  <2> QED
    BY <1>2, <2>1
<1>4. ASSUME p.part = "protocol" PROVE x.tag = "ProtocolType" /\ x.word = d.protocol
  <2>1. x = Element("ProtocolType", "STR", d.protocol)
    BY <1>4, ElementFacts
  <2> QED
    BY <1>2, <2>1
<1>5. ASSUME p.part = "name" PROVE x.tag = "_MsgName" /\ x.word = m.name
  <2>1. x = Element("_MsgName", "STR", m.name)
    BY <1>5, ElementFacts
  <2> QED
    BY <1>2, <2>1
<1>6. ASSUME p.part = "order" PROVE x.tag = "_MsgOrder" /\ x.word = ToString(m.order)
  <2>1. x = Element("_MsgOrder", "UBYT", ToString(m.order))
    BY <1>6, ElementFacts
  <2> QED
    BY <1>2, <2>1
<1>7. ASSUME p.part = "fields" PROVE x.tag \notin MsgTags /\ x.type # "" /\ x.word = ""
  <2>1. x = Element(y.name, y.field_type, "") /\ x.tag \notin MsgTags /\ x.type # ""
    BY <1>7, ElementFacts
  <2> QED
    BY <1>2, <2>1
<1> QED
  BY <1>1, <1>3, <1>4, <1>5, <1>6, <1>7

\* The place behind it.
LEMMA BehindFacts ==
  ASSUME NEW d, IsDocument(d), NEW p, MarkOK(d, p), HasElement(d, p)
  PROVE  LET q == Behind(d, p)
         IN /\ q \in Place(d) /\ q.done = p.done /\ q.inside = p.inside
            /\ p.part = "id" => q.part = "protocol"
            /\ p.part = "protocol" => q.part = "messages"
            /\ p.part = "name" =>
                 q.part = IF d.messages[p.done + 1].order = 0 THEN "fields" ELSE "order"
            /\ p.part = "order" => q.part = "fields"
            /\ p.part # "fields" => q.fields = 0
            /\ p.part = "fields" => q.part = "fields" /\ q.fields = p.fields + 1
<1>1. p \in Place(d) /\ p.part \in {"id", "protocol"} \cup InRecord /\ (p.part # "fields" => p.fields = 0)
  BY ElementFacts DEF MarkOK
<1>2. CASE p.part = "id"
  BY <1>1, <1>2 DEF Behind, Place, Parts
<1>3. CASE p.part = "protocol"
  BY <1>1, <1>3 DEF Behind, Place, Parts
<1>4. CASE p.part = "name"
  <2> DEFINE n == IF d.messages[p.done + 1].order = 0 THEN "fields" ELSE "order"
  <2>1. Behind(d, p) = [p EXCEPT !.part = n]
    BY <1>4 DEF Behind
  <2>2. n \in Parts
    BY DEF Parts
  <2> HIDE DEF n
  <2>3. /\ Behind(d, p) \in Place(d) /\ Behind(d, p).part = n /\ Behind(d, p).done = p.done
        /\ Behind(d, p).fields = p.fields /\ Behind(d, p).inside = p.inside
    BY <1>1, <2>1, <2>2 DEF Place
  <2> QED
    BY <1>1, <1>4, <2>3 DEF n
<1>5. CASE p.part = "order"
  BY <1>1, <1>5 DEF Behind, Place, Parts
<1>6. CASE p.part = "fields"
  <2>1. Behind(d, p) = [p EXCEPT !.fields = @ + 1]
    BY <1>6 DEF Behind
  <2>2. /\ Behind(d, p) \in Place(d) /\ Behind(d, p).part = p.part /\ Behind(d, p).done = p.done
        /\ Behind(d, p).fields = p.fields + 1 /\ Behind(d, p).inside = p.inside
    BY <1>1, <2>1 DEF Place
  <2> QED
    BY <1>6, <2>2
<1> QED
  BY <1>1, <1>2, <1>3, <1>4, <1>5, <1>6 DEF InRecord

LEMMA SameElement ==
  ASSUME NEW d, NEW p, NEW q, q.part = p.part, q.done = p.done, q.fields = p.fields
  PROVE  /\ HasElement(d, q) <=> HasElement(d, p)
         /\ ElementAt(d, q) = ElementAt(d, p) /\ FieldsOf(d, q) = FieldsOf(d, p)
BY DEF HasElement, ElementAt, FieldsOf

LEMMA PartTo ==
  ASSUME NEW d, NEW p \in Place(d), NEW v \in Parts, NEW q, q = [p EXCEPT !.part = v]
  PROVE  /\ q \in Place(d) /\ q.part = v /\ q.done = p.done /\ q.fields = p.fields
         /\ q.inside = p.inside
BY DEF Place

\* Inside the element at a place there is the same element.
LEMMA MarkTag ==
  ASSUME NEW d, NEW p, MarkOK(d, p), HasElement(d, p), NEW q, q = [p EXCEPT !.inside = "tag"],
         ~(p.part = "fields" /\ d.layout = "empty tags")
  PROVE  /\ MarkOK(d, q) /\ q.part = p.part /\ q.done = p.done /\ q.fields = p.fields
         /\ q.inside = "tag" /\ ElementAt(d, q) = ElementAt(d, p)
<1>1. /\ q \in Place(d) /\ q.part = p.part /\ q.done = p.done /\ q.fields = p.fields
      /\ q.inside = "tag"
  BY DEF MarkOK, Place
<1>2. /\ HasElement(d, q) <=> HasElement(d, p)
      /\ FieldsOf(d, q) = FieldsOf(d, p) /\ ElementAt(d, q) = ElementAt(d, p)
  BY <1>1, SameElement
<1> QED
  BY <1>1, <1>2 DEF MarkOK

LEMMA MarkWord ==
  ASSUME NEW d, NEW p, MarkOK(d, p), HasElement(d, p), p.part # "fields",
         NEW v \in {"word", "cut"}, NEW q, q = [p EXCEPT !.inside = v]
  PROVE  /\ MarkOK(d, q) /\ q.part = p.part /\ q.done = p.done /\ q.fields = p.fields
         /\ q.inside = v /\ ElementAt(d, q) = ElementAt(d, p)
<1>1. /\ q \in Place(d) /\ q.part = p.part /\ q.done = p.done /\ q.fields = p.fields
      /\ q.inside = v
  BY DEF MarkOK, Place
<1>2. /\ HasElement(d, q) <=> HasElement(d, p)
      /\ FieldsOf(d, q) = FieldsOf(d, p) /\ ElementAt(d, q) = ElementAt(d, p)
  BY <1>1, SameElement
<1> QED
  BY <1>1, <1>2 DEF MarkOK

LEMMA MarkNone ==
  ASSUME NEW d, NEW p, MarkOK(d, p), NEW q, q = [p EXCEPT !.inside = "none"]
  PROVE  /\ MarkOK(d, q) /\ q.part = p.part /\ q.done = p.done /\ q.fields = p.fields
         /\ q.inside = "none"
<1>1. /\ q \in Place(d) /\ q.part = p.part /\ q.done = p.done /\ q.fields = p.fields
      /\ q.inside = "none"
  BY DEF MarkOK, Place
<1>2. FieldsOf(d, q) = FieldsOf(d, p)
  BY <1>1, SameElement
<1> QED
  BY <1>1, <1>2 DEF MarkOK

LEMMA MarkNote ==
  ASSUME NEW d, NEW p, MarkOK(d, p), p.part \in InRecord,
         NEW q, q = [p EXCEPT !.inside = "note"]
  PROVE  /\ MarkOK(d, q) /\ q.part = p.part /\ q.done = p.done /\ q.fields = p.fields
         /\ q.inside = "note"
<1>1. /\ q \in Place(d) /\ q.part = p.part /\ q.done = p.done /\ q.fields = p.fields
      /\ q.inside = "note"
  BY DEF MarkOK, Place
<1>2. FieldsOf(d, q) = FieldsOf(d, p)
  BY <1>1, SameElement
<1> QED
  BY <1>1, <1>2 DEF MarkOK

\* Behind the element at a place.
Leaving(d, p, v) == [Behind(d, p) EXCEPT !.inside = v]

LEMMA MarkBehind ==
  ASSUME NEW d, IsDocument(d), NEW p, MarkOK(d, p), HasElement(d, p),
         NEW v, v = "none" \/ (v = "space" /\ d.layout = "indented"),
         NEW q, q = Leaving(d, p, v)
  PROVE  /\ MarkOK(d, q) /\ q.done = p.done /\ q.inside = v
         /\ p.part = "id" => q.part = "protocol"
         /\ p.part = "protocol" => q.part = "messages"
         /\ p.part = "name" =>
              q.part = IF d.messages[p.done + 1].order = 0 THEN "fields" ELSE "order"
         /\ p.part = "order" => q.part = "fields"
         /\ p.part # "fields" => q.fields = 0
         /\ p.part = "fields" => q.part = "fields" /\ q.fields = p.fields + 1
<1> DEFINE b == Behind(d, p)
<1>1. /\ b \in Place(d) /\ b.done = p.done
      /\ p.part = "id" => b.part = "protocol"
      /\ p.part = "protocol" => b.part = "messages"
      /\ p.part = "name" =>
           b.part = IF d.messages[p.done + 1].order = 0 THEN "fields" ELSE "order"
      /\ p.part = "order" => b.part = "fields"
      /\ p.part # "fields" => b.fields = 0
      /\ p.part = "fields" => b.part = "fields" /\ b.fields = p.fields + 1
  BY BehindFacts
<1> HIDE DEF b
<1>2. q = [b EXCEPT !.inside = v]
  BY DEF b, Leaving
<1>3. /\ q \in Place(d) /\ q.part = b.part /\ q.done = b.done /\ q.fields = b.fields
      /\ q.inside = v
  <2>1. v \in {"none", "tag", "word", "cut", "space", "note"}
    OBVIOUS
  <2> QED
    BY <1>1, <1>2, <2>1 DEF Place
<1>4. p.part \in {"id", "protocol"} \cup InRecord
  BY ElementFacts
<1>5. MarkOK(d, q)
  <2>1. CASE p.part = "id"
    BY <1>1, <1>3, <2>1 DEF MarkOK, InRecord
  <2>2. CASE p.part = "protocol"
    BY <1>1, <1>3, <2>2 DEF MarkOK, InRecord
  <2>3. CASE p.part \in InRecord
    <3>1. p.done < Len(d.messages) /\ p.done + 1 \in 1..Len(d.messages)
      <4>1. p.done < Len(d.messages) /\ p.done \in 0..Len(d.messages)
        BY <2>3 DEF MarkOK, Place
      <4> QED
        BY <4>1, LenMessages
    <3>2. FieldsOf(d, q) = FieldsOf(d, p) /\ Len(FieldsOf(d, p)) \in Nat
      BY <1>1, <1>3, <3>1, MessageFacts DEF FieldsOf
    <3>3. CASE p.part = "fields"
      <4>1. p.fields + 1 \in 1..Len(FieldsOf(d, p))
        BY <3>3, ElementFacts DEF FieldsOf
      <4>2. q.part = "fields" /\ q.fields <= Len(FieldsOf(d, q))
        BY <1>1, <1>3, <3>2, <3>3, <4>1
      <4> QED
        BY <1>1, <1>3, <3>1, <4>2 DEF MarkOK, InRecord
    <3>4. CASE p.part # "fields"
      <4>1. q.part \in {"order", "fields"} /\ q.fields = 0
        BY <1>1, <1>3, <2>3, <3>4 DEF InRecord
      <4>2. 0 <= Len(FieldsOf(d, q))
        BY <3>2
      <4> QED
        BY <1>1, <1>3, <3>1, <4>1, <4>2 DEF MarkOK, InRecord
    <3> QED
      BY <3>3, <3>4
  <2> QED
    BY <1>4, <2>1, <2>2, <2>3
<1> QED
  BY <1>1, <1>3, <1>5

\* What leads from place p to place q, outside of the elements.
LEMMA MarkAround ==
  ASSUME NEW d, IsDocument(d), NEW p, MarkOK(d, p), NEW e, NEW q, AroundElements(d, p, e, q)
  PROVE  /\ MarkOK(d, q) /\ p.inside = "none" /\ q.inside = "none"
         /\ \/ p.part = "start" /\ e = Start("Messages", "") /\ q.part = "id" /\ q.done = p.done
            \/ /\ p.part = "messages" /\ p.done + 1 \in 1..Len(d.messages)
               /\ e = Start(d.messages[p.done + 1].name, "")
               /\ q.part = "message" /\ q.done = p.done
            \/ /\ p.part = "message" /\ p.done + 1 \in 1..Len(d.messages)
               /\ e = Start("RECORD", "") /\ q.part = "name" /\ q.done = p.done
            \/ /\ p.part = "fields" /\ p.done + 1 \in 1..Len(d.messages)
               /\ p.fields = Len(FieldsOf(d, p))
               /\ e = End("RECORD") /\ q.part = "recorded" /\ q.done = p.done + 1
            \/ /\ p.part = "recorded" /\ \E name : e = End(name)
               /\ q.part = "messages" /\ q.done = p.done
            \/ p.part = "messages" /\ e = End("Messages") /\ q.part = "end" /\ q.done = p.done
<1>1. /\ p \in Place(d) /\ p.done \in 0..Len(d.messages) /\ p.fields \in Nat /\ p.inside = "none"
      /\ Len(d.messages) \in Nat
  BY LenMessages DEF MarkOK, Place, AroundElements
<1>2. ASSUME p.part = "start", e = Start("Messages", ""), q = [p EXCEPT !.part = "id"]
      PROVE  MarkOK(d, q) /\ q.inside = "none" /\ q.part = "id" /\ q.done = p.done
  <2>1. /\ q \in Place(d) /\ q.part = "id" /\ q.done = p.done /\ q.fields = p.fields
        /\ q.inside = p.inside
    <3>1. "id" \in Parts
      BY DEF Parts
    <3> QED
      BY <1>1, <1>2, <3>1 DEF Place
  <2> QED
    BY <1>1, <1>2, <2>1 DEF MarkOK, InRecord
<1>3. ASSUME p.part = "messages", p.done < Len(d.messages), q = [p EXCEPT !.part = "message"]
      PROVE  MarkOK(d, q) /\ q.inside = "none" /\ q.part = "message" /\ q.done = p.done
  <2>1. /\ q \in Place(d) /\ q.part = "message" /\ q.done = p.done /\ q.fields = p.fields
        /\ q.inside = p.inside
    <3>1. "message" \in Parts
      BY DEF Parts
    <3> QED
      BY <1>1, <1>3, <3>1, PartTo
  <2> QED
    BY <1>1, <1>3, <2>1 DEF MarkOK, InRecord
<1>4. ASSUME p.part = "message", q = [p EXCEPT !.part = "name"]
      PROVE  /\ MarkOK(d, q) /\ q.inside = "none" /\ q.part = "name" /\ q.done = p.done
             /\ p.done < Len(d.messages)
  <2>1. /\ q \in Place(d) /\ q.part = "name" /\ q.done = p.done /\ q.fields = p.fields
        /\ q.inside = p.inside
    <3>1. "name" \in Parts
      BY DEF Parts
    <3> QED
      BY <1>1, <1>4, <3>1, PartTo
  <2> QED
    BY <1>1, <1>4, <2>1 DEF MarkOK, InRecord
<1>5. ASSUME p.part = "fields", ~HasElement(d, p),
             q = [p EXCEPT !.part = "recorded", !.done = @ + 1, !.fields = 0]
      PROVE  /\ MarkOK(d, q) /\ q.inside = "none" /\ q.part = "recorded" /\ q.done = p.done + 1
             /\ p.done < Len(d.messages) /\ p.fields = Len(FieldsOf(d, p))
  <2>1. p.done < Len(d.messages) /\ p.fields <= Len(FieldsOf(d, p))
    BY <1>5 DEF MarkOK, InRecord
  <2>2. ~(p.fields < Len(FieldsOf(d, p)))
    BY <1>5 DEF HasElement, FieldsOf
  <2>3. Len(FieldsOf(d, p)) \in Nat
    BY <1>1, <2>1, MessageFacts, SMTT(30) DEF FieldsOf
  <2>4. /\ q \in Place(d) /\ q.part = "recorded" /\ q.done = p.done + 1 /\ q.fields = 0
        /\ q.inside = p.inside
    <3>1. q = [part |-> "recorded", done |-> p.done + 1, fields |-> 0, inside |-> p.inside]
      BY <1>1, <1>5 DEF Place
    <3>2. /\ q.part = "recorded" /\ q.done = p.done + 1 /\ q.fields = 0
          /\ q.inside = p.inside
      BY <3>1
    <3>3. p.done + 1 \in 0..Len(d.messages) /\ "recorded" \in Parts
      BY <1>1, <2>1 DEF Parts
    <3>4. q \in Place(d)
      BY <1>1, <3>1, <3>3 DEF Place
    <3> QED
      BY <3>2, <3>4
  <2>5. p.fields = Len(FieldsOf(d, p))
    BY <1>1, <2>1, <2>2, <2>3
  <2> QED
    BY <1>1, <1>5, <2>1, <2>4, <2>5 DEF MarkOK, InRecord
<1>6. ASSUME p.part = "recorded", q = [p EXCEPT !.part = "messages"]
      PROVE  MarkOK(d, q) /\ q.inside = "none" /\ q.part = "messages" /\ q.done = p.done
  <2>1. /\ q \in Place(d) /\ q.part = "messages" /\ q.done = p.done /\ q.fields = p.fields
        /\ q.inside = p.inside
    <3>1. "messages" \in Parts
      BY DEF Parts
    <3> QED
      BY <1>1, <1>6, <3>1, PartTo
  <2> QED
    BY <1>1, <1>6, <2>1 DEF MarkOK, InRecord
<1>7. ASSUME p.part = "messages", p.done = Len(d.messages), q = [p EXCEPT !.part = "end"]
      PROVE  MarkOK(d, q) /\ q.inside = "none" /\ q.part = "end" /\ q.done = p.done
  <2>1. /\ q \in Place(d) /\ q.part = "end" /\ q.done = p.done /\ q.fields = p.fields
        /\ q.inside = p.inside
    <3>1. "end" \in Parts
      BY DEF Parts
    <3> QED
      BY <1>1, <1>7, <3>1, PartTo
  <2> QED
    BY <1>1, <1>7, <2>1 DEF MarkOK, InRecord
<1>8. p.done < Len(d.messages) => p.done + 1 \in 1..Len(d.messages)
  BY <1>1
<1> QED
  BY <1>1, <1>2, <1>3, <1>4, <1>5, <1>6, <1>7, <1>8 DEF AroundElements

-----------------------------------------------------------------------------
\* What is known of the message whose RECORD is open.
KnownFields(d, p) ==
  IF p.part = "fields" /\ d.layout # "empty tags"
  THEN SubSeq(FieldsOf(d, p), 1, IF p.inside = "tag" THEN p.fields + 1 ELSE p.fields)
  ELSE <<>>
Known(d, p) ==
  LET m == d.messages[p.done + 1]
  IN [name |-> IF p.part = "name" /\ p.inside # "word" THEN "" ELSE m.name,
      order |-> IF p.part = "name" \/ (p.part = "order" /\ p.inside # "word") THEN 0 ELSE m.order,
      fields |-> KnownFields(d, p)]

\* What becomes of a record: a name, an order, one more field.
ToName(r, name) == [r EXCEPT !.name = name]
ToOrder(r, order) == [r EXCEPT !.order = order]
ToField(r, tag, type) == [r EXCEPT !.fields = Append(@, [name |-> tag, field_type |-> type])]

LEMMA EmptyPrefix == ASSUME NEW S, NEW s \in Seq(S) PROVE SubSeq(s, 1, 0) = <<>>
OBVIOUS

LEMMA LongerPrefix ==
  ASSUME NEW S, NEW s \in Seq(S), NEW n \in Nat, n < Len(s)
  PROVE  Append(SubSeq(s, 1, n), s[n + 1]) = SubSeq(s, 1, n + 1)
OBVIOUS

LEMMA WholePrefix == ASSUME NEW S, NEW s \in Seq(S) PROVE SubSeq(s, 1, Len(s)) = s
OBVIOUS

LEMMA SeqElement ==
  ASSUME NEW S, NEW s \in Seq(S), NEW i \in 1..Len(s)
  PROVE  s[i] \in S
OBVIOUS

LEMMA DoneNext ==
  ASSUME NEW d, IsDocument(d), NEW p, MarkOK(d, p), p.part \in InRecord \cup {"message"}
  PROVE  p.done \in Nat /\ p.done + 1 \in 1..Len(d.messages) /\ p.fields \in Nat
<1>1. p.done < Len(d.messages) /\ p.done \in 0..Len(d.messages) /\ p.fields \in Nat
  BY DEF MarkOK, Place
<1>2. Len(d.messages) \in Nat
  BY LenMessages
<1> QED
  BY <1>1, <1>2

\* Where the record begins nothing is known.
LEMMA KnownFirst ==
  ASSUME NEW d, NEW p, p.part = "name", p.inside = "none"
  PROVE  Known(d, p) = EmptyRecord
BY DEF Known, KnownFields, EmptyRecord

\* The start of an element says something of a field only.
LEMMA KnownStart ==
  ASSUME NEW d, IsDocument(d), NEW p, MarkOK(d, p), HasElement(d, p), p.part \in InRecord,
         p.inside = "none", NEW q, q.part = p.part, q.done = p.done, q.fields = p.fields,
         q.inside = "tag", ~(p.part = "fields" /\ d.layout = "empty tags")
  PROVE  /\ p.part # "fields" => Known(d, q) = Known(d, p)
         /\ p.part = "fields" =>
              Known(d, q) = ToField(Known(d, p), ElementAt(d, p).tag, ElementAt(d, p).type)
<1>1. CASE p.part # "fields"
  BY <1>1 DEF Known, KnownFields
<1>2. CASE p.part = "fields"
  <2> DEFINE F == FieldsOf(d, p)
             m == d.messages[p.done + 1]
             n == p.fields
             x == ElementAt(d, p)
             y == [name |-> x.tag, field_type |-> x.type]
  <2>1. p.done + 1 \in 1..Len(d.messages) /\ n \in Nat
    BY DoneNext
  <2>2. F \in Seq([name : Words, field_type : Words]) /\ Len(F) \in Nat
    BY <2>1, MessageFacts DEF FieldsOf
  <2>3. n + 1 \in 1..Len(F) /\ x = Element(F[n + 1].name, F[n + 1].field_type, "")
    BY <1>2, ElementFacts DEF FieldsOf
  <2>4. F[n + 1] \in [name : Words, field_type : Words] /\ n < Len(F)
    <3>1. n + 1 \in 1..Len(F)
      BY <2>3
    <3> HIDE DEF F, n
    <3>2. F[n + 1] \in [name : Words, field_type : Words]
      BY <2>2, <3>1, SeqElement
    <3>3. n \in Nat /\ Len(F) \in Nat
      BY <2>1, <2>2
    <3>4. n < Len(F)
      BY ONLY <3>1, <3>3
    <3> QED
      BY <3>2, <3>4
  <2>5. y = F[n + 1]
    <3> DEFINE z == F[n + 1]
    <3>1. z \in [name : Words, field_type : Words] /\ x = Element(z.name, z.field_type, "")
      BY <2>3, <2>4
    <3> HIDE DEF z, x
    <3>2. y = z
      BY <3>1 DEF Element
    <3> QED
      BY <3>2 DEF z
  <2>6. SubSeq(F, 1, n + 1) = Append(SubSeq(F, 1, n), y)
    <3> HIDE DEF F, n, y
    <3> QED
      BY <2>1, <2>2, <2>4, <2>5, LongerPrefix
  <2>7. FieldsOf(d, q) = F
    BY DEF FieldsOf
  <2>8. KnownFields(d, q) = Append(KnownFields(d, p), y)
    <3>1. KnownFields(d, p) = SubSeq(F, 1, n)
      BY <1>2 DEF KnownFields
    <3>2. KnownFields(d, q) = SubSeq(F, 1, n + 1)
      BY <1>2, <2>7 DEF KnownFields
    <3> QED
      BY <2>6, <3>1, <3>2
  <2>9. /\ Known(d, p) = [name |-> m.name, order |-> m.order, fields |-> KnownFields(d, p)]
        /\ Known(d, q) = [name |-> m.name, order |-> m.order, fields |-> KnownFields(d, q)]
    BY <1>2 DEF Known
  <2>10. Known(d, q) = [Known(d, p) EXCEPT !.fields = Append(@, y)]
    <3> DEFINE kp == Known(d, p)
               kq == Known(d, q)
               fp == KnownFields(d, p)
               fq == KnownFields(d, q)
               a == m.name
               b == m.order
    <3>1. kp = [name |-> a, order |-> b, fields |-> fp]
      BY <2>9
    <3>2. kq = [name |-> a, order |-> b, fields |-> Append(fp, y)]
      BY <2>8, <2>9
    <3> HIDE DEF y, kp, kq, fp, fq, a, b
    <3>3. [kp EXCEPT !.fields = Append(@, y)] = [name |-> a, order |-> b, fields |-> Append(fp, y)]
      BY ONLY <3>1
    <3>4. kq = [kp EXCEPT !.fields = Append(@, y)]
      BY ONLY <3>2, <3>3
    <3> QED
      BY <3>4 DEF kp, kq
  <2>11. Known(d, q) = ToField(Known(d, p), x.tag, x.type)
    BY <2>10 DEF ToField
  <2> QED
    BY <1>2, <2>11
<1> QED
  BY <1>1, <1>2

\* Its text says the name or the order.
LEMMA KnownText ==
  ASSUME NEW d, NEW p, p.inside = "tag", NEW q, q.part = p.part,
         q.done = p.done, q.fields = p.fields, q.inside = "word"
  PROVE  /\ p.part = "name" =>
              Known(d, q) = ToName(Known(d, p), d.messages[p.done + 1].name)
         /\ p.part = "order" =>
              Known(d, q) = ToOrder(Known(d, p), d.messages[p.done + 1].order)
<1> DEFINE m == d.messages[p.done + 1]
<1>1. CASE p.part = "name"
  <2>1. /\ Known(d, p) = [name |-> "", order |-> 0, fields |-> <<>>]
        /\ Known(d, q) = [name |-> m.name, order |-> 0, fields |-> <<>>]
    BY <1>1 DEF Known, KnownFields
  <2> DEFINE o == m.name
  <2>2. Known(d, q) = [name |-> o, order |-> 0, fields |-> <<>>]
    BY <2>1
  <2> HIDE DEF o
  <2>3. [Known(d, p) EXCEPT !.name = o] = [name |-> o, order |-> 0, fields |-> <<>>]
    <3> DEFINE kp == Known(d, p)
               a == ""
               b == 0
               c == <<>>
    <3>1. kp = [name |-> a, order |-> b, fields |-> c]
      BY <2>1
    <3> HIDE DEF kp, a, b, c
    <3>2. [kp EXCEPT !.name = o] = [name |-> o, order |-> b, fields |-> c]
      BY ONLY <3>1
    <3> QED
      BY <3>2 DEF kp, b, c
  <2>4. Known(d, q) = ToName(Known(d, p), o)
    BY <2>2, <2>3 DEF ToName
  <2> QED
    BY <1>1, <2>4 DEF o
<1>2. CASE p.part = "order"
  <2>1. /\ Known(d, p) = [name |-> m.name, order |-> 0, fields |-> <<>>]
        /\ Known(d, q) = [name |-> m.name, order |-> m.order, fields |-> <<>>]
    BY <1>2 DEF Known, KnownFields
  <2> DEFINE o == m.order
  <2> HIDE DEF o
  <2>2. Known(d, q) = [Known(d, p) EXCEPT !.order = o]
    BY <2>1 DEF o
  <2>3. Known(d, q) = ToOrder(Known(d, p), o)
    BY <2>2 DEF ToOrder
  <2> QED
    BY <1>2, <2>3 DEF o
<1> QED
  BY <1>1, <1>2

\* Its end, or that it is there at all, says nothing.
LEMMA KnownEnd ==
  ASSUME NEW d, IsDocument(d), NEW p, MarkOK(d, p), HasElement(d, p), p.part \in InRecord,
         \/ p.inside = IF ElementAt(d, p).word = "" THEN "tag" ELSE "word"
         \/ p.inside = "none" /\ ElementAt(d, p).word = "" /\ d.layout = "empty tags",
         NEW q, MarkOK(d, q), q.inside = "none", q.done = p.done,
         p.part = "name" => q.part = IF d.messages[p.done + 1].order = 0 THEN "fields" ELSE "order",
         p.part = "order" => q.part = "fields",
         p.part # "fields" => q.fields = 0,
         p.part = "fields" => q.part = "fields" /\ q.fields = p.fields + 1
  PROVE  Known(d, q) = Known(d, p) /\ q.part \in InRecord
<1> DEFINE m == d.messages[p.done + 1]
           x == ElementAt(d, p)
<1>1. p.done + 1 \in 1..Len(d.messages) /\ FieldsOf(d, q) = FieldsOf(d, p)
  BY DoneNext DEF FieldsOf
<1>2. m.order \in U8 /\ FieldsOf(d, p) \in Seq([name : Words, field_type : Words])
  BY <1>1, MessageFacts DEF FieldsOf
<1>3. SubSeq(FieldsOf(d, p), 1, 0) = <<>>
  BY <1>2, EmptyPrefix
<1>4. CASE p.part = "name"
  <2>1. x.word = m.name
    <3>1. x = Element("_MsgName", "STR", m.name)
      BY <1>4, ElementFacts
    <3> HIDE DEF x
    <3> QED
      BY <3>1 DEF Element
  <2>2. p.inside = "word" \/ m.name = ""
    BY <2>1
  <2>3. KnownFields(d, q) = <<>> /\ KnownFields(d, p) = <<>>
    BY <1>1, <1>3, <1>4 DEF KnownFields
  <2>4. (q.part = "fields" /\ m.order = 0) \/ q.part = "order"
    BY <1>4
  <2> QED
    BY <1>4, <2>2, <2>3, <2>4 DEF Known, InRecord
<1>5. CASE p.part = "order"
  <2>1. x.word = ToString(m.order)
    <3>1. x = Element("_MsgOrder", "UBYT", ToString(m.order))
      BY <1>5, ElementFacts
    <3> HIDE DEF x
    <3> QED
      BY <3>1 DEF Element
  <2>2. ToString(m.order) # ""
    BY <1>2, NumeralAssumption
  <2>3. p.inside = "word"
    BY <2>1, <2>2
  <2>4. KnownFields(d, q) = <<>> /\ KnownFields(d, p) = <<>>
    BY <1>1, <1>3, <1>5 DEF KnownFields
  <2> QED
    BY <1>5, <2>3, <2>4 DEF Known, InRecord
<1>6. CASE p.part = "fields"
  <2>1. x.word = ""
    <3>1. x = Element(m.fields[p.fields + 1].name, m.fields[p.fields + 1].field_type, "")
      BY <1>6, ElementFacts
    <3> HIDE DEF x
    <3> QED
      BY <3>1 DEF Element
  <2>2. d.layout # "empty tags" => p.inside = "tag"
    BY <2>1
  <2>3. KnownFields(d, q) = KnownFields(d, p)
    BY <1>1, <1>6, <2>2 DEF KnownFields
  <2> QED
    BY <1>6, <2>3 DEF Known, InRecord
<1> QED
  BY <1>4, <1>5, <1>6 DEF InRecord

-----------------------------------------------------------------------------
\* What becomes of the one record that is open.
LEMMA OneElement ==
  ASSUME NEW r
  PROVE  DOMAIN <<r>> = {1} /\ <<r>>[1] = r /\ [i \in {1} |-> r] = <<r>>
<1>1. DOMAIN <<r>> = {1} /\ <<r>>[1] = r
  OBVIOUS
<1>2. 1..1 = {1}
  OBVIOUS
<1>3. [i \in 1..1 |-> r] = <<r>>
  OBVIOUS
<1> QED
  BY <1>1, <1>2, <1>3

LEMMA SeqOfLength ==
  \A S : \A n \in Nat : \A s \in [1..n -> S] : s \in Seq(S) /\ Len(s) = n
<1> TAKE S
<1> TAKE n \in Nat
<1> TAKE s \in [1..n -> S]
<1> QED
  OBVIOUS

LEMMA WithFieldOne ==
  ASSUME NEW r, NEW tag, NEW type, type # ""
  PROVE  WithField(<<r>>, tag, type) = <<ToField(r, tag, type)>>
<1> DEFINE g(x) == [x EXCEPT !.fields = Append(@, [name |-> tag, field_type |-> type])]
<1>1. WithField(<<r>>, tag, type) = [i \in DOMAIN <<r>> |-> g(<<r>>[i])]
  BY DEF WithField
<1> HIDE DEF g
<1>2. [i \in DOMAIN <<r>> |-> g(<<r>>[i])] = [i \in {1} |-> g(r)]
  BY OneElement
<1>3. [i \in {1} |-> g(r)] = <<g(r)>>
  BY OneElement
<1> QED
  BY <1>1, <1>2, <1>3 DEF g, ToField

LEMMA WithTextOne ==
  ASSUME NEW r, NEW word
  PROVE  /\ current_element = "_MsgName" => WithText(<<r>>, word) = <<ToName(r, word)>>
         /\ current_element = "_MsgOrder" =>
              WithText(<<r>>, word) = <<ToOrder(r, Parse(word))>>
         /\ current_element \in Notes => WithText(<<r>>, word) = <<r>>
<1> DEFINE g(x) == CASE current_element = "_MsgName" -> [x EXCEPT !.name = word]
                     [] current_element = "_MsgOrder" -> [x EXCEPT !.order = Parse(word)]
                     [] OTHER -> x
<1>1. \A s : WithText(s, word) = [i \in DOMAIN s |-> g(s[i])]
  BY DEF WithText
<1>2. current_element = "_MsgName" => g(r) = ToName(r, word)
  BY DEF ToName
<1>3. current_element = "_MsgOrder" => g(r) = ToOrder(r, Parse(word))
  BY DEF ToOrder
<1>7. current_element \in Notes => g(r) = r
  BY DEF Notes
<1> HIDE DEF g
<1>4. [i \in DOMAIN <<r>> |-> g(<<r>>[i])] = [i \in {1} |-> g(r)]
  BY OneElement
<1>5. [i \in {1} |-> g(r)] = <<g(r)>>
  BY OneElement
<1>6. current_element \in Notes => WithText(<<r>>, word) = <<r>>
  BY <1>1, <1>4, <1>5, <1>7
<1> QED
  BY <1>1, <1>2, <1>3, <1>4, <1>5, <1>6

LEMMA NumberedOne ==
  ASSUME NEW r
  PROVE  /\ Numbered(<<r>>) = <<[r EXCEPT !.order = IF @ = 0 THEN msg_order_counter ELSE @]>>
         /\ Numbered(<<>>) = <<>>
<1> DEFINE g(x) == [x EXCEPT !.order = IF @ = 0 THEN msg_order_counter ELSE @]
<1>1. \A s : Numbered(s) = [i \in DOMAIN s |-> g(s[i])]
  BY DEF Numbered
<1> HIDE DEF g
<1>2. [i \in DOMAIN <<r>> |-> g(<<r>>[i])] = [i \in {1} |-> g(r)]
  BY OneElement
<1>3. [i \in {1} |-> g(r)] = <<g(r)>>
  BY OneElement
<1>4. [i \in DOMAIN <<>> |-> g(<<>>[i])] = <<>>
  OBVIOUS
<1> QED
  BY <1>1, <1>2, <1>3, <1>4 DEF g

-----------------------------------------------------------------------------
\* A number read from its numeral.
LEMMA ParseNumeral == ASSUME NEW n \in U8 PROVE Parse(ToString(n)) = n
<1>1. Parse(ToString(n)) = CHOOSE k \in U8 : ToString(k) = ToString(n)
  BY DEF Parse
<1>2. \A k \in U8 : ToString(k) = ToString(n) => k = n
  BY NumeralAssumption
<1> QED
  BY <1>1, <1>2

\* White space is no number.
LEMMA ParseSpace == Parse(" ") = 0
<1>1. ~ \E n \in U8 : ToString(n) = " "
  BY NumeralAssumption
<1> QED
  BY <1>1 DEF Parse

\* The messages that are to be found.
LEMMA FoundFacts ==
  ASSUME NEW d, IsDocument(d)
  PROVE  /\ Found(d) \in Seq(Message) /\ Len(Found(d)) = Len(d.messages)
         /\ \A i \in 1..Len(d.messages) :
              Found(d)[i] = [name |-> d.messages[i].name,
                             order |-> IF d.messages[i].order = 0 THEN i % 256 ELSE d.messages[i].order,
                             fields |-> IF d.layout = "empty tags" THEN <<>> ELSE d.messages[i].fields]
<1> DEFINE n == Len(d.messages)
           g(i) == [d.messages[i] EXCEPT !.order = IF @ = 0 THEN i % 256 ELSE @,
                                         !.fields = IF d.layout = "empty tags" THEN <<>> ELSE @]
<1>1. d.messages \in Seq(Message) /\ n \in Nat /\ DOMAIN d.messages = 1..n
  BY LenMessages
<1>2. Found(d) = [i \in 1..n |-> g(i)]
  BY <1>1 DEF Found
<1>3. ASSUME NEW i \in 1..n
      PROVE  /\ g(i) \in Message
             /\ g(i) = [name |-> d.messages[i].name,
                        order |-> IF d.messages[i].order = 0 THEN i % 256 ELSE d.messages[i].order,
                        fields |-> IF d.layout = "empty tags" THEN <<>> ELSE d.messages[i].fields]
  <2> DEFINE m == d.messages[i]
             o == IF m.order = 0 THEN i % 256 ELSE m.order
             f == IF d.layout = "empty tags" THEN <<>> ELSE m.fields
             F == [name : Words, field_type : Words]
  <2>1. m \in Message
    BY MessageFacts
  <2>2. m.name \in Words /\ m.order \in U8 /\ m.fields \in Seq(F)
    BY <2>1 DEF Message
  <2>3. o \in U8
    <3>1. i \in Nat
      BY <1>1
    <3>2. i % 256 \in U8
      BY ONLY <3>1 DEF U8
    <3> QED
      BY <2>2, <3>2
  <2>4. f \in Seq(F)
    BY <2>2, EmptySeq
  <2>5. g(i) = [m EXCEPT !.order = o, !.fields = f]
    OBVIOUS
  <2> HIDE DEF m, o, f, g
  <2>6. g(i) = [name |-> m.name, order |-> o, fields |-> f]
    BY <2>1, <2>5 DEF Message
  <2>7. g(i) \in Message
    BY <2>2, <2>3, <2>4, <2>6 DEF Message
  <2> QED
    BY <2>6, <2>7 DEF m, o, f
<1> HIDE DEF g
<1>4. Found(d) \in [1..n -> Message]
  BY <1>2, <1>3
<1>5. Found(d) \in Seq(Message) /\ Len(Found(d)) = n
  <2> DEFINE s == Found(d)
  <2>1. s \in [1..n -> Message] /\ n \in Nat
    BY <1>1, <1>4
  <2> HIDE DEF s, n
  <2>2. s \in Seq(Message) /\ Len(s) = n
    BY <2>1, SeqOfLength
  <2> QED
    BY <2>2 DEF s
<1> QED
  BY <1>2, <1>3, <1>5, ZenonT(60)

\* A record that is complete becomes the next of them.
LEMMA RecordDone ==
  ASSUME NEW d, IsDocument(d), NEW p, MarkOK(d, p), p.part = "fields", p.inside = "none",
         p.fields = Len(FieldsOf(d, p)), msg_order_counter = (p.done + 1) % 256
  PROVE  Numbered(<<Known(d, p)>>) = <<Found(d)[p.done + 1]>>
<1> DEFINE k == p.done + 1
           m == d.messages[k]
           f == IF d.layout = "empty tags" THEN <<>> ELSE m.fields
           r == Known(d, p)
           a == m.name
           b == m.order
<1>1. k \in 1..Len(d.messages)
  BY DoneNext DEF InRecord
<1>2. FieldsOf(d, p) = m.fields /\ m.fields \in Seq([name : Words, field_type : Words])
  BY <1>1, MessageFacts DEF FieldsOf
<1>3. SubSeq(FieldsOf(d, p), 1, p.fields) = m.fields
  BY <1>2, WholePrefix
<1>4. KnownFields(d, p) = f
  BY <1>3 DEF KnownFields
<1>5. r = [name |-> a, order |-> b, fields |-> f]
  BY <1>4 DEF Known
<1>6. Found(d)[k] = [name |-> a, order |-> IF b = 0 THEN msg_order_counter ELSE b, fields |-> f]
  <2>1. Found(d)[k] = [name |-> a, order |-> IF b = 0 THEN k % 256 ELSE b, fields |-> f]
    BY <1>1, FoundFacts, ZenonT(30)
  <2> HIDE DEF k, a, b, f
  <2> QED
    BY <2>1 DEF k
<1> HIDE DEF r, f, a, b
<1>7. [r EXCEPT !.order = IF @ = 0 THEN msg_order_counter ELSE @]
        = [name |-> a, order |-> IF b = 0 THEN msg_order_counter ELSE b, fields |-> f]
  BY ONLY <1>5
<1> QED
  BY <1>6, <1>7, NumberedOne DEF r

-----------------------------------------------------------------------------
\* What the parser knows at place p of a document without white space.
KnownAt(d, p) ==
  /\ messages = SubSeq(Found(d), 1, p.done)
  /\ service_id = IF p.part = "start" \/ (p.part = "id" /\ p.inside # "word") THEN 0 ELSE d.id
  /\ service_name = IF p.part \in {"start", "id"} \/ (p.part = "protocol" /\ p.inside # "word")
                    THEN "" ELSE Trim(d.protocol)
  /\ p.part \in InRecord => current_record = <<Known(d, p)>>
  /\ p.part = "recorded" => current_record = <<>>

\* The same with white space: behind its id the service is 0.
Early(p) == p.part \in {"start", "id"} \/ (p.part = "protocol" /\ p.inside = "space")
SpacedAt(d, p) ==
  IF Early(p)
  THEN /\ messages = <<>> /\ service_id \in {0, d.id}
       /\ p.part = "protocol" => current_element = "ServiceID"
  ELSE service_id = 0

\* The same where a word is cut: it is lost, and nothing else; but a part of an id may be
\* another id.
CutAt(d, p) ==
  IF p.part = "id" THEN messages = <<>>
  ELSE IF d.layout = "indented" THEN service_id = 0
  ELSE /\ messages = SubSeq(Found(d), 1, p.done) /\ service_id = d.id
       /\ p.part # "protocol" => service_name = Trim(d.protocol)

ParsedTo(d, p) ==
  /\ p.inside \in {"tag", "word"} => current_element = ElementAt(d, p).tag
  /\ p.inside = "note" => current_element \in Notes
  /\ IF p.inside = "cut" THEN CutAt(d, p)
     ELSE IF d.layout = "indented" THEN SpacedAt(d, p) ELSE KnownAt(d, p)

\* The id of which a part is read.
CutRead ==
  Here.inside = "cut" /\ Here.part = "id" => service_id = Parse(Events[file][at - 1].word)

ReadInv ==
  file # NoFile =>
    /\ at <= Len(Events[file]) + 1 /\ MarkOK(Described, Here) /\ ParsedTo(Described, Here)
    /\ CutRead

-----------------------------------------------------------------------------
LEMMA IdFacts == ASSUME NEW d, IsDocument(d) PROVE d.id \in U8 /\ d.id # 0
<1>1. d.id \in 1..99
  BY DEF IsDocument, Document
<1> DEFINE n == d.id
<1>2. n \in 1..99
  BY <1>1
<1> HIDE DEF n
<1>3. n \in U8 /\ n # 0
  BY <1>2 DEF U8
<1> QED
  BY <1>3 DEF n

LEMMA OneNonEmpty == ASSUME NEW r PROVE <<r>> # <<>>
OBVIOUS

\* The start of an element, step by step through its text to its end.
LEMMA ElementStarts ==
  ASSUME IInv, StartEvent, NEW d, IsDocument(d), NEW p, MarkOK(d, p), ParsedTo(d, p),
         HasElement(d, p), p.inside = "none",
         ~(d.layout = "empty tags" /\ ElementAt(d, p).word = ""),
         Now = Start(ElementAt(d, p).tag, ElementAt(d, p).type),
         NEW q, q = [p EXCEPT !.inside = "tag"]
  PROVE  MarkOK(d, q) /\ ParsedTo(d, q)'
<1> DEFINE x == ElementAt(d, p)
<1>1. /\ p.part \in {"id", "protocol"} \cup InRecord /\ x.tag # "RECORD"
      /\ p.part \in {"name", "order"} => x.tag \in MsgTags
      /\ p.part = "fields" => x.tag \notin MsgTags /\ x.type # "" /\ x.word = ""
  <2>1. /\ p.part \in {"id", "protocol"} \cup InRecord /\ x.tag # "RECORD"
        /\ p.part = "name" => x.tag = "_MsgName"
        /\ p.part = "order" => x.tag = "_MsgOrder"
        /\ p.part = "fields" => x.tag \notin MsgTags /\ x.type # "" /\ x.word = ""
    BY ElementFields
  <2>2. {"_MsgName", "_MsgOrder"} \subseteq MsgTags
    BY DEF MsgTags
  <2> QED
    BY <2>1, <2>2
<1>2. /\ MarkOK(d, q) /\ q.part = p.part /\ q.done = p.done /\ q.fields = p.fields
      /\ q.inside = "tag" /\ ElementAt(d, q) = x
  <2>1. ~(p.part = "fields" /\ d.layout = "empty tags")
    BY <1>1
  <2> QED
    BY <2>1, MarkTag, ZenonT(60)
<1>3. /\ current_element' = x.tag /\ messages' = messages /\ service_id' = service_id
      /\ service_name' = service_name
      /\ current_record' = IF in_record /\ x.tag \notin MsgTags
                           THEN WithField(current_record, x.tag, x.type) ELSE current_record
  <2>1. Now.tag = x.tag /\ Now.type = x.type
    BY DEF Start
  <2> QED
    BY <1>1, <2>1 DEF StartEvent
<1>4. in_record = (current_record # <<>>)
  BY DEF IInv, TypeOK
<1> HIDE DEF x
<1>5. CASE d.layout = "indented"
  <2>1. SpacedAt(d, p)
    BY <1>5 DEF ParsedTo
  <2>2. SpacedAt(d, q)'
    BY <1>1, <1>2, <1>3, <2>1 DEF SpacedAt, Early
  <2> QED
    BY <1>2, <1>3, <1>5, <2>2 DEF ParsedTo
<1>6. CASE d.layout # "indented"
  <2>1. KnownAt(d, p)
    BY <1>6 DEF ParsedTo
  <2>2. q.part \in InRecord => current_record' = <<Known(d, q)>>
    <3> SUFFICES ASSUME q.part \in InRecord
                 PROVE  current_record' = <<Known(d, q)>>
      OBVIOUS
    <3>1. current_record = <<Known(d, p)>> /\ current_record # <<>>
      BY <1>2, <2>1, OneNonEmpty DEF KnownAt
    <3>2. /\ p.part # "fields" => Known(d, q) = Known(d, p)
          /\ p.part = "fields" =>
               Known(d, q) = ToField(Known(d, p), x.tag, x.type)
      <4>1. p.part \in InRecord /\ ~(p.part = "fields" /\ d.layout = "empty tags")
        BY <1>1, <1>2 DEF x
      <4> QED
        BY <1>2, <4>1, KnownStart DEF x
    <3>3. CASE p.part = "fields"
      <4> DEFINE r == Known(d, p)
                 s == Known(d, q)
      <4>1. x.tag \notin MsgTags /\ x.type # ""
        BY <1>1, <3>3
      <4>2. current_record' = WithField(current_record, x.tag, x.type)
        BY <1>3, <1>4, <3>1, <4>1
      <4>3. current_record = <<r>>
        BY <3>1
      <4>4. s = ToField(r, x.tag, x.type)
        BY <3>2, <3>3
      <4> HIDE DEF r, s
      <4>5. WithField(<<r>>, x.tag, x.type) = <<ToField(r, x.tag, x.type)>>
        BY <4>1, WithFieldOne
      <4>6. current_record' = <<s>>
        BY ONLY <4>2, <4>3, <4>4, <4>5
      <4> QED
        BY <4>6 DEF s
    <3>4. CASE p.part # "fields"
      <4>1. x.tag \in MsgTags
        BY <1>1, <1>2, <3>4 DEF InRecord
      <4> QED
        BY <1>3, <3>1, <3>2, <3>4, <4>1
    <3> QED
      BY <3>3, <3>4
  <2>3. q.part # "recorded"
    BY <1>1, <1>2 DEF InRecord
  <2>4. KnownAt(d, q)'
    BY <1>2, <1>3, <2>1, <2>2, <2>3 DEF KnownAt
  <2> QED
    BY <1>2, <1>3, <1>6, <2>4 DEF ParsedTo
<1> QED
  BY <1>2, <1>5, <1>6

LEMMA ElementIsText ==
  ASSUME IInv, TextEvent, NEW d, IsDocument(d), NEW p, MarkOK(d, p), ParsedTo(d, p),
         HasElement(d, p), p.inside = "tag", ElementAt(d, p).word # "",
         Now = Text(ElementAt(d, p).word), NEW q, q = [p EXCEPT !.inside = "word"]
  PROVE  MarkOK(d, q) /\ ParsedTo(d, q)'
<1> DEFINE x == ElementAt(d, p)
           m == d.messages[p.done + 1]
<1>1. /\ p.part \in {"id", "protocol", "name", "order"}
      /\ p.part = "id" => x.tag = "ServiceID" /\ x.word = ToString(d.id)
      /\ p.part = "protocol" => x.tag = "ProtocolType" /\ x.word = d.protocol
      /\ p.part = "name" => x.tag = "_MsgName" /\ x.word = m.name
      /\ p.part = "order" => x.tag = "_MsgOrder" /\ x.word = ToString(m.order)
  <2>1. p.part \in {"id", "protocol"} \cup InRecord /\ (p.part = "fields" => x.word = "")
    BY ElementFields
  <2>2. p.part \in {"id", "protocol", "name", "order"}
    BY <2>1 DEF InRecord
  <2> QED
    BY <2>2, ElementFields
<1>2. /\ MarkOK(d, q) /\ q.part = p.part /\ q.done = p.done /\ q.fields = p.fields
      /\ q.inside = "word" /\ ElementAt(d, q) = x
  <2>1. p.part # "fields"
    BY <1>1
  <2>2. MarkOK(d, p) /\ HasElement(d, p) /\ q = [p EXCEPT !.inside = "word"]
    OBVIOUS
  <2>3. /\ MarkOK(d, q) /\ q.part = p.part /\ q.done = p.done /\ q.fields = p.fields
        /\ q.inside = "word" /\ ElementAt(d, q) = ElementAt(d, p)
    BY ONLY <2>1, <2>2, MarkWord
  <2> QED
    BY <2>3
<1>3. /\ current_element = x.tag /\ current_element' = x.tag /\ messages' = messages
      /\ service_id' = IF x.tag \in {"ServiceID", "_ServiceID"} THEN Parse(x.word) ELSE service_id
      /\ service_name' = IF x.tag \in {"ProtocolType", "_ProtocolType"} THEN Trim(x.word)
                         ELSE service_name
      /\ current_record' = WithText(current_record, x.word)
  <2>1. Now.word = x.word
    BY DEF Text
  <2>2. current_element = x.tag
    BY DEF ParsedTo
  <2> QED
    BY <2>1, <2>2 DEF TextEvent
<1>4. d.id \in U8 /\ Parse(ToString(d.id)) = d.id
  BY IdFacts, ParseNumeral
<1> HIDE DEF x, m
<1>5. CASE d.layout = "indented"
  <2>1. SpacedAt(d, p)
    BY <1>5 DEF ParsedTo
  <2>2. SpacedAt(d, q)'
    BY <1>1, <1>2, <1>3, <1>4, <2>1 DEF SpacedAt, Early
  <2> QED
    BY <1>2, <1>3, <1>5, <2>2 DEF ParsedTo
<1>6. CASE d.layout # "indented"
  <2>1. KnownAt(d, p)
    BY <1>6 DEF ParsedTo
  <2>2. CASE p.part = "name"
    <3>1. current_record' = <<Known(d, q)>>
      <4> DEFINE r == Known(d, p)
                 s == Known(d, q)
      <4>1. current_record = <<r>> /\ current_element = "_MsgName" /\ x.word = m.name
        BY <1>1, <1>2, <1>3, <2>1, <2>2 DEF KnownAt, InRecord
      <4>2. s = ToName(r, m.name)
        BY <1>2, <2>2, KnownText DEF m
      <4> HIDE DEF r, s
      <4>3. WithText(<<r>>, x.word) = <<ToName(r, x.word)>>
        BY <4>1, WithTextOne
      <4>4. current_record' = <<s>>
        BY <1>3, <4>1, <4>2, <4>3
      <4> QED
        BY <4>4 DEF s
    <3>2. KnownAt(d, q)'
      BY <1>1, <1>2, <1>3, <2>1, <2>2, <3>1 DEF KnownAt
    <3> QED
      BY <1>2, <1>3, <1>6, <3>2 DEF ParsedTo
  <2>3. CASE p.part = "order"
    <3>1. Parse(x.word) = m.order
      <4>1. m.order \in U8
        BY <2>3, DoneNext, MessageFacts DEF InRecord, m
      <4> QED
        BY <1>1, <2>3, <4>1, ParseNumeral
    <3>2. current_record' = <<Known(d, q)>>
      <4> DEFINE r == Known(d, p)
                 s == Known(d, q)
      <4>1. current_record = <<r>> /\ current_element = "_MsgOrder"
        BY <1>1, <1>2, <1>3, <2>1, <2>3 DEF KnownAt, InRecord
      <4>2. s = ToOrder(r, m.order)
        BY <1>2, <2>3, KnownText DEF m
      <4> HIDE DEF r, s
      <4>3. WithText(<<r>>, x.word) = <<ToOrder(r, Parse(x.word))>>
        BY <4>1, WithTextOne
      <4>4. current_record' = <<s>>
        BY <1>3, <3>1, <4>1, <4>2, <4>3
      <4> QED
        BY <4>4 DEF s
    <3>3. KnownAt(d, q)'
      BY <1>1, <1>2, <1>3, <2>1, <2>3, <3>2 DEF KnownAt
    <3> QED
      BY <1>2, <1>3, <1>6, <3>3 DEF ParsedTo
  <2>4. CASE p.part \in {"id", "protocol"}
    <3>1. KnownAt(d, q)'
      BY <1>1, <1>2, <1>3, <1>4, <2>1, <2>4 DEF KnownAt, InRecord
    <3> QED
      BY <1>2, <1>3, <1>6, <3>1 DEF ParsedTo
  <2> QED
    BY <1>1, <2>2, <2>3, <2>4
<1> QED
  BY <1>2, <1>5, <1>6

\* A word that is cut.
LEMMA ElementIsCut ==
  ASSUME TextEvent, NEW d, IsDocument(d), NEW p, MarkOK(d, p), ParsedTo(d, p),
         HasElement(d, p), p.inside = "tag", ElementAt(d, p).word # "",
         NEW q, q = [p EXCEPT !.inside = "cut"]
  PROVE  MarkOK(d, q) /\ ParsedTo(d, q)'
<1> DEFINE x == ElementAt(d, p)
<1>1. /\ p.part \in {"id", "protocol", "name", "order"}
      /\ p.part = "protocol" => x.tag = "ProtocolType"
      /\ p.part = "name" => x.tag = "_MsgName"
      /\ p.part = "order" => x.tag = "_MsgOrder"
  <2>1. p.part \in {"id", "protocol"} \cup InRecord /\ (p.part = "fields" => x.word = "")
    BY ElementFields
  <2>2. p.part \in {"id", "protocol", "name", "order"}
    BY <2>1 DEF InRecord
  <2> QED
    BY <2>2, ElementFields
<1>2. /\ MarkOK(d, q) /\ q.part = p.part /\ q.done = p.done /\ q.inside = "cut"
  <2>1. p.part # "fields" /\ "cut" \in {"word", "cut"}
    BY <1>1
  <2> QED
    BY <2>1, MarkWord, ZenonT(30)
<1>3. /\ messages' = messages
      /\ x.tag \notin {"ServiceID", "_ServiceID"} => service_id' = service_id
      /\ x.tag \notin {"ProtocolType", "_ProtocolType"} => service_name' = service_name
  <2>1. current_element = x.tag
    BY DEF ParsedTo
  <2> QED
    BY <2>1 DEF TextEvent
<1> HIDE DEF x
<1>4. CASE p.part = "id"
  <2>1. messages = <<>>
    <3>1. p.done = 0
      BY <1>4 DEF MarkOK
    <3>2. SubSeq(Found(d), 1, 0) = <<>>
      BY FoundFacts, EmptyPrefix
    <3> QED
      BY <1>4, <3>1, <3>2 DEF ParsedTo, KnownAt, SpacedAt, Early
  <2> QED
    BY <1>2, <1>3, <1>4, <2>1 DEF ParsedTo, CutAt
<1>5. CASE p.part # "id"
  <2>1. x.tag \notin {"ServiceID", "_ServiceID"}
        /\ (p.part # "protocol" => x.tag \notin {"ProtocolType", "_ProtocolType"})
    BY <1>1, <1>5
  <2>2. CASE d.layout = "indented"
    <3>1. service_id = 0
      BY <1>1, <1>5, <2>2 DEF ParsedTo, SpacedAt, Early
    <3> QED
      BY <1>2, <1>3, <1>5, <2>1, <2>2, <3>1 DEF ParsedTo, CutAt
  <2>3. CASE d.layout # "indented"
    <3>1. /\ messages = SubSeq(Found(d), 1, p.done) /\ service_id = d.id
          /\ p.part # "protocol" => service_name = Trim(d.protocol)
      BY <1>1, <1>5, <2>3 DEF ParsedTo, KnownAt
    <3> QED
      BY <1>2, <1>3, <1>5, <2>1, <2>3, <3>1 DEF ParsedTo, CutAt
  <2> QED
    BY <2>2, <2>3
<1> QED
  BY <1>4, <1>5

-----------------------------------------------------------------------------
\* The end of an element says nothing, and an element <X/> is none.
LEMMA ElementIsOver ==
  ASSUME UNCHANGED parser, NEW d, IsDocument(d), NEW p, MarkOK(d, p), ParsedTo(d, p),
         HasElement(d, p),
         \/ p.inside = IF ElementAt(d, p).word = "" THEN "tag" ELSE "word"
         \/ p.inside = "none" /\ ElementAt(d, p).word = "" /\ d.layout = "empty tags",
         NEW v, v = IF d.layout = "indented" THEN "space" ELSE "none",
         NEW q, q = Leaving(d, p, v)
  PROVE  MarkOK(d, q) /\ ParsedTo(d, q)'
<1> DEFINE x == ElementAt(d, p)
           m == d.messages[p.done + 1]
<1>1. /\ p.part \in {"id", "protocol"} \cup InRecord
      /\ p.part = "id" => x.tag = "ServiceID" /\ x.word # ""
      /\ p.part = "protocol" => x.word = d.protocol
  <2>1. /\ p.part \in {"id", "protocol"} \cup InRecord
        /\ p.part = "id" => x.tag = "ServiceID" /\ x.word = ToString(d.id)
        /\ p.part = "protocol" => x.word = d.protocol
    BY ElementFields
  <2>2. ToString(d.id) # ""
    BY IdFacts, NumeralAssumption
  <2> QED
    BY <2>1, <2>2
<1>2. /\ MarkOK(d, q) /\ q.done = p.done /\ q.inside = v
      /\ p.part = "id" => q.part = "protocol"
      /\ p.part = "protocol" => q.part = "messages"
      /\ p.part = "name" => q.part = IF m.order = 0 THEN "fields" ELSE "order"
      /\ p.part = "order" => q.part = "fields"
      /\ p.part # "fields" => q.fields = 0
      /\ p.part = "fields" => q.part = "fields" /\ q.fields = p.fields + 1
  <2>1. v = "none" \/ (v = "space" /\ d.layout = "indented")
    OBVIOUS
  <2>2. /\ IsDocument(d) /\ MarkOK(d, p) /\ HasElement(d, p)
        /\ q = Leaving(d, p, v)
    OBVIOUS
  <2>3. /\ MarkOK(d, q) /\ q.done = p.done /\ q.inside = v
        /\ p.part = "id" => q.part = "protocol"
        /\ p.part = "protocol" => q.part = "messages"
        /\ p.part = "name" =>
             q.part = IF d.messages[p.done + 1].order = 0 THEN "fields" ELSE "order"
        /\ p.part = "order" => q.part = "fields"
        /\ p.part # "fields" => q.fields = 0
        /\ p.part = "fields" => q.part = "fields" /\ q.fields = p.fields + 1
    BY ONLY <2>1, <2>2, MarkBehind
  <2> QED
    BY <2>3
<1>3. /\ current_element' = current_element /\ messages' = messages
      /\ service_id' = service_id /\ service_name' = service_name
      /\ current_record' = current_record
  BY DEF parser
<1>4. /\ p.inside = "word" \/ x.word = ""
      /\ d.layout = "indented" => p.inside \in {"tag", "word"}
      /\ p.inside \in {"tag", "word"} => current_element = x.tag
  BY DEF ParsedTo
<1> HIDE DEF x, m
<1>7. /\ p.part \in {"id", "protocol", "name", "order", "fields"}
      /\ q.part \in {"protocol", "messages", "order", "fields"}
      /\ q.part = "protocol" <=> p.part = "id"
      /\ q.part = "messages" <=> p.part = "protocol"
  <2>1. p.part \in {"id", "protocol", "name", "order", "fields"}
    BY <1>1 DEF InRecord
  <2>2. (IF m.order = 0 THEN "fields" ELSE "order") \in {"fields", "order"}
    OBVIOUS
  <2> QED
    BY ONLY <1>2, <2>1, <2>2
<1>5. CASE d.layout = "indented"
  <2>1. SpacedAt(d, p) /\ q.inside = "space"
    BY <1>2, <1>5 DEF ParsedTo
  <2>2. SpacedAt(d, q)'
    <3>1. CASE p.part = "id"
      BY <1>1, <1>3, <1>4, <1>5, <1>7, <2>1, <3>1 DEF SpacedAt, Early
    <3>2. CASE p.part # "id"
      <4>1. p.inside # "space" /\ p.part # "start"
        BY <1>4, <1>5, <1>7
      <4>2. service_id' = 0
        BY <1>3, <2>1, <3>2, <4>1 DEF SpacedAt, Early
      <4>3. ~Early(q)
        BY <1>7, <3>2 DEF Early
      <4> QED
        BY <4>2, <4>3 DEF SpacedAt
    <3> QED
      BY <3>1, <3>2
  <2> QED
    BY <1>2, <1>5, <2>1, <2>2 DEF ParsedTo
<1>6. CASE d.layout # "indented"
  <2>1. KnownAt(d, p) /\ q.inside = "none"
    BY <1>2, <1>6 DEF ParsedTo
  <2>2. q.part \in InRecord => current_record' = <<Known(d, q)>>
    <3> SUFFICES ASSUME q.part \in InRecord
                 PROVE  current_record' = <<Known(d, q)>>
      OBVIOUS
    <3>1. p.part \in InRecord
      BY <1>7 DEF InRecord
    <3>2. Known(d, q) = Known(d, p)
      <4>1. q.inside = "none" /\ q.done = p.done /\ MarkOK(d, q)
            /\ (p.part = "name" =>
                  q.part = IF d.messages[p.done + 1].order = 0 THEN "fields" ELSE "order")
            /\ (p.part = "order" => q.part = "fields") /\ (p.part # "fields" => q.fields = 0)
            /\ (p.part = "fields" => q.part = "fields" /\ q.fields = p.fields + 1)
        BY <1>2, <2>1 DEF m
      <4>2. /\ IsDocument(d) /\ MarkOK(d, p) /\ HasElement(d, p)
            /\ \/ p.inside = IF ElementAt(d, p).word = "" THEN "tag" ELSE "word"
               \/ p.inside = "none" /\ ElementAt(d, p).word = "" /\ d.layout = "empty tags"
        OBVIOUS
      <4> QED
        BY ONLY <3>1, <4>1, <4>2, KnownEnd
    <3> QED
      BY <1>3, <2>1, <3>1, <3>2 DEF KnownAt
  <2>3. Trim("") = ""
    BY DEF Trim
  <2>4. KnownAt(d, q)'
    <3>1. q.part # "recorded" /\ q.part \notin {"start", "id"}
      BY <1>7
    <3>2. service_id' = d.id
      BY <1>1, <1>3, <1>4, <1>7, <2>1 DEF KnownAt
    <3>3. service_name' = IF q.part = "protocol" THEN "" ELSE Trim(d.protocol)
      BY <1>1, <1>3, <1>4, <1>7, <2>1, <2>3 DEF KnownAt
    <3>4. messages' = SubSeq(Found(d), 1, q.done)
      BY <1>2, <1>3, <2>1 DEF KnownAt
    <3> QED
      BY <1>2, <2>1, <2>2, <3>1, <3>2, <3>3, <3>4 DEF KnownAt
  <2> QED
    BY <1>2, <1>6, <2>1, <2>4 DEF ParsedTo
<1> QED
  BY <1>2, <1>5, <1>6

\* White space is read as an id that is none, as long as the id is the last element.
LEMMA SpaceBetween ==
  ASSUME TextEvent, Now = Text(" "), NEW d, NEW p, MarkOK(d, p), ParsedTo(d, p),
         d.layout = "indented", p.inside \in {"none", "space"},
         NEW q, q = [p EXCEPT !.inside = "none"]
  PROVE  MarkOK(d, q) /\ ParsedTo(d, q)'
<1>1. /\ MarkOK(d, q) /\ q.part = p.part /\ q.done = p.done /\ q.fields = p.fields
      /\ q.inside = "none"
  BY MarkNone, ZenonT(60)
<1>2. messages' = messages
      /\ service_id' = IF current_element \in {"ServiceID", "_ServiceID"} THEN 0 ELSE service_id
  <2>1. Now.word = " "
    BY DEF Text
  <2> QED
    BY <2>1, ParseSpace DEF TextEvent
<1>3. SpacedAt(d, p)
  BY DEF ParsedTo
<1>4. SpacedAt(d, q)'
  BY <1>1, <1>2, <1>3 DEF SpacedAt, Early
<1> QED
  BY <1>1, <1>4 DEF ParsedTo

\* A note says nothing, whatever its text.
LEMMA NoteBetween ==
  ASSUME IInv, NEW d, NEW p, MarkOK(d, p), ParsedTo(d, p), p.part \in InRecord, NEW q,
         \/ /\ p.inside = "none" /\ StartEvent /\ Now.tag \in Notes
            /\ q = [p EXCEPT !.inside = "note"]
         \/ p.inside = "note" /\ TextEvent /\ q = p
         \/ /\ p.inside = "note" /\ EndEvent /\ Now.tag \in Notes
            /\ q = [p EXCEPT !.inside = "none"]
  PROVE  MarkOK(d, q) /\ ParsedTo(d, q)'
<1>1. /\ MarkOK(d, q) /\ q.part = p.part /\ q.done = p.done /\ q.fields = p.fields
      /\ p.inside \in {"none", "note"} /\ q.inside \in {"none", "note"}
  BY MarkNone, MarkNote
<1>2. Now.tag \in Notes => Now.tag # "RECORD" /\ Now.tag \in MsgTags
  BY DEF Notes, MsgTags
<1>3. /\ messages' = messages /\ service_id' = service_id /\ service_name' = service_name
      /\ q.inside = "note" => current_element' \in Notes
      /\ (\E r : current_record = <<r>>) => current_record' = current_record
  <2>1. CASE p.inside = "none" /\ StartEvent /\ Now.tag \in Notes
    BY <1>2, <2>1 DEF StartEvent
  <2>2. CASE p.inside = "note" /\ TextEvent
    <3>1. current_element \in Notes
      BY <2>2 DEF ParsedTo
    <3>2. current_element \notin {"ServiceID", "_ServiceID", "ProtocolType", "_ProtocolType"}
      BY <3>1 DEF Notes
    <3> QED
      BY <2>2, <3>1, <3>2, WithTextOne DEF TextEvent
  <2>3. CASE EndEvent /\ Now.tag \in Notes /\ q.inside = "none"
    BY <1>2, <2>3 DEF EndEvent
  <2>4. q = [p EXCEPT !.inside = "none"] => q.inside = "none"
    BY MarkNone
  <2> QED
    BY <2>1, <2>2, <2>3, <2>4
<1>4. Known(d, q) = Known(d, p)
  BY <1>1 DEF Known, KnownFields, FieldsOf
<1>5. CASE d.layout = "indented"
  <2>1. SpacedAt(d, q)'
    BY <1>1, <1>3, <1>5 DEF ParsedTo, SpacedAt, Early, InRecord
  <2> QED
    BY <1>1, <1>3, <1>5, <2>1 DEF ParsedTo
<1>6. CASE d.layout # "indented"
  <2>1. KnownAt(d, p)
    BY <1>6 DEF ParsedTo
  <2>2. current_record' = <<Known(d, q)>>
    BY <1>3, <1>4, <2>1 DEF KnownAt
  <2>3. KnownAt(d, q)'
    BY <1>1, <1>3, <2>1, <2>2 DEF KnownAt, InRecord
  <2> QED
    BY <1>1, <1>3, <1>6, <2>3 DEF ParsedTo
<1> QED
  BY <1>1, <1>5, <1>6

\* A comment says nothing.
LEMMA NothingBetween ==
  ASSUME UNCHANGED parser, NEW d, NEW p, ParsedTo(d, p)
  PROVE  ParsedTo(d, p)'
BY DEF ParsedTo, KnownAt, SpacedAt, CutAt, parser

-----------------------------------------------------------------------------
\* The elements around a RECORD and its own tags.
LEMMA AroundIsRead ==
  ASSUME IInv, file # NoFile, NEW d, IsDocument(d), NEW p, MarkOK(d, p), ParsedTo(d, p),
         NEW q, AroundElements(d, p, Now, q),
         Now.ev = "Start" => StartEvent, Now.ev = "End" => EndEvent
  PROVE  MarkOK(d, q) /\ ParsedTo(d, q)'
<1>1. /\ MarkOK(d, q) /\ p.inside = "none" /\ q.inside = "none"
      /\ \/ p.part = "start" /\ Now = Start("Messages", "") /\ q.part = "id" /\ q.done = p.done
         \/ /\ p.part = "messages" /\ p.done + 1 \in 1..Len(d.messages)
            /\ Now = Start(d.messages[p.done + 1].name, "")
            /\ q.part = "message" /\ q.done = p.done
         \/ /\ p.part = "message" /\ p.done + 1 \in 1..Len(d.messages)
            /\ Now = Start("RECORD", "") /\ q.part = "name" /\ q.done = p.done
         \/ /\ p.part = "fields" /\ p.done + 1 \in 1..Len(d.messages)
            /\ p.fields = Len(FieldsOf(d, p))
            /\ Now = End("RECORD") /\ q.part = "recorded" /\ q.done = p.done + 1
         \/ /\ p.part = "recorded" /\ \E name : Now = End(name)
            /\ q.part = "messages" /\ q.done = p.done
         \/ p.part = "messages" /\ Now = End("Messages") /\ q.part = "end" /\ q.done = p.done
  <2> DEFINE e == Now
  <2>1. AroundElements(d, p, e, q)
    OBVIOUS
  <2> HIDE DEF e
  <2>2. /\ MarkOK(d, q) /\ p.inside = "none" /\ q.inside = "none"
        /\ \/ p.part = "start" /\ e = Start("Messages", "") /\ q.part = "id" /\ q.done = p.done
           \/ /\ p.part = "messages" /\ p.done + 1 \in 1..Len(d.messages)
              /\ e = Start(d.messages[p.done + 1].name, "")
              /\ q.part = "message" /\ q.done = p.done
           \/ /\ p.part = "message" /\ p.done + 1 \in 1..Len(d.messages)
              /\ e = Start("RECORD", "") /\ q.part = "name" /\ q.done = p.done
           \/ /\ p.part = "fields" /\ p.done + 1 \in 1..Len(d.messages)
              /\ p.fields = Len(FieldsOf(d, p))
              /\ e = End("RECORD") /\ q.part = "recorded" /\ q.done = p.done + 1
           \/ /\ p.part = "recorded" /\ \E name : e = End(name)
              /\ q.part = "messages" /\ q.done = p.done
           \/ p.part = "messages" /\ e = End("Messages") /\ q.part = "end" /\ q.done = p.done
    BY <2>1, MarkAround
  <2> QED
    BY <2>2 DEF e
<1>2. ASSUME NEW tag, Now = Start(tag, "") PROVE StartEvent /\ Now.tag = tag
  BY <1>2 DEF Start
<1>3. ASSUME NEW tag, Now = End(tag) PROVE EndEvent /\ Now.tag = tag
  BY <1>3 DEF End
<1>4. service_id' = service_id /\ service_name' = service_name
  <2>1. (\E tag : Now = Start(tag, "")) \/ (\E tag : Now = End(tag))
    BY <1>1
  <2> QED
    BY <1>2, <1>3, <2>1 DEF StartEvent, EndEvent
<1>5. messages \in Seq(Message) /\ msg_order_counter = (Len(messages) + 1) % 256
  BY DEF IInv, TypeOK, Counter
<1>6. /\ q.part = "id" <=> p.part = "start"
      /\ q.part = "end" \/ q.part = "messages" \/ q.part = "message" \/ q.part = "name"
           \/ q.part = "recorded" \/ q.part = "id"
      /\ p.part \in {"start", "messages", "message", "fields", "recorded"}
  BY <1>1
<1>7. CASE d.layout = "indented"
  <2>1. SpacedAt(d, p)
    BY <1>1, <1>7 DEF ParsedTo
  <2>2. p.part = "start" => messages' = messages
    <3> SUFFICES ASSUME p.part = "start" PROVE messages' = messages
      OBVIOUS
    <3>1. Now = Start("Messages", "")
      BY <1>1
    <3> QED
      BY <1>2, <3>1 DEF StartEvent
  <2>3. SpacedAt(d, q)'
    BY <1>1, <1>4, <1>6, <2>1, <2>2 DEF SpacedAt, Early
  <2> QED
    BY <1>1, <1>7, <2>3 DEF ParsedTo
<1>8. CASE d.layout # "indented"
  <2>1. KnownAt(d, p)
    BY <1>1, <1>8 DEF ParsedTo
  <2>2. /\ messages' = SubSeq(Found(d), 1, q.done)
        /\ q.part = "name" => current_record' = <<Known(d, q)>>
        /\ q.part = "recorded" => current_record' = <<>>
    <3>2. CASE /\ q.part \in {"id", "message"} /\ q.done = p.done
               /\ \E tag : Now = Start(tag, "")
      <4>1. messages' = messages
        BY <1>2, <3>2 DEF StartEvent
      <4> QED
        BY <2>1, <3>2, <4>1 DEF KnownAt
    <3>3. CASE q.part = "name" /\ Now = Start("RECORD", "") /\ q.done = p.done
      <4>1. StartEvent /\ Now.tag = "RECORD"
        BY <1>2, <3>3
      <4>2. messages' = messages /\ current_record' = <<EmptyRecord>>
        BY <4>1 DEF StartEvent
      <4>3. Known(d, q) = EmptyRecord
        BY <1>1, <3>3, KnownFirst
      <4> QED
        BY <2>1, <3>3, <4>2, <4>3 DEF KnownAt
    <3>4. CASE /\ p.part = "fields" /\ p.done + 1 \in 1..Len(d.messages)
               /\ p.fields = Len(FieldsOf(d, p))
               /\ Now = End("RECORD") /\ q.part = "recorded" /\ q.done = p.done + 1
      <4> DEFINE n == p.done
                 F == Found(d)
      <4>1. EndEvent /\ Now.tag = "RECORD"
        BY <1>3, <3>4
      <4>2. messages' = messages \o Numbered(current_record) /\ current_record' = <<>>
        BY <4>1 DEF EndEvent
      <4>3. current_record = <<Known(d, p)>> /\ messages = SubSeq(F, 1, n)
        BY <2>1, <3>4 DEF KnownAt, InRecord
      <4>4. n \in Nat /\ F \in Seq(Message) /\ Len(F) = Len(d.messages) /\ Len(F) \in Nat
        <5>1. n \in 0..Len(d.messages) /\ Len(d.messages) \in Nat
          BY LenMessages DEF MarkOK, Place
        <5>2. F \in Seq(Message) /\ Len(F) = Len(d.messages)
          BY FoundFacts
        <5> HIDE DEF n, F
        <5> QED
          BY <5>1, <5>2
      <4>5. n < Len(F)
        <5>1. n + 1 \in 1..Len(F)
          BY <3>4, <4>4
        <5> HIDE DEF n, F
        <5> QED
          BY ONLY <4>4, <5>1
      <4>6. Len(messages) = n
        <5> HIDE DEF n, F
        <5> QED
          BY ONLY <4>3, <4>4, <4>5
      <4>7. Numbered(current_record) = <<F[n + 1]>>
        <5>1. msg_order_counter = (p.done + 1) % 256
          BY <1>5, <4>6
        <5> QED
          BY <1>1, <3>4, <4>3, <5>1, RecordDone
      <4>8. messages' = SubSeq(F, 1, n + 1)
        <5> DEFINE s == SubSeq(F, 1, n)
        <5>1. Append(s, F[n + 1]) = SubSeq(F, 1, n + 1)
          <6> HIDE DEF n, F
          <6> QED
            BY <4>4, <4>5, LongerPrefix
        <5>2. s \in Seq(Message)
          BY <1>5, <4>3
        <5>3. messages' = s \o <<F[n + 1]>>
          BY <4>2, <4>3, <4>7
        <5> HIDE DEF n, F, s
        <5>4. s \o <<F[n + 1]>> = Append(s, F[n + 1])
          BY ONLY <5>2
        <5> QED
          BY <5>1, <5>3, <5>4
      <4> QED
        BY <3>4, <4>2, <4>8
    <3>5. CASE p.part = "recorded" /\ (\E name : Now = End(name)) /\ q.part = "messages" /\ q.done = p.done
      <4>1. EndEvent
        BY <1>3, <3>5
      <4>2. current_record = <<>>
        BY <2>1, <3>5 DEF KnownAt
      <4>3. messages' = messages \/ messages' = messages \o Numbered(<<>>)
        BY <4>1, <4>2 DEF EndEvent
      <4>4. Numbered(<<>>) = <<>> /\ messages \o <<>> = messages
        <5>1. messages \o <<>> = messages
          BY ONLY <1>5
        <5> QED
          BY <5>1, NumberedOne
      <4> QED
        BY <2>1, <3>5, <4>3, <4>4 DEF KnownAt
    <3>6. CASE Now = End("Messages") /\ q.part = "end" /\ q.done = p.done
      <4>1. EndEvent /\ Now.tag = "Messages"
        BY <1>3, <3>6
      <4>2. messages' = messages
        BY <4>1 DEF EndEvent
      <4> QED
        BY <2>1, <3>6, <4>2 DEF KnownAt
    <3> QED
      BY <1>1, <3>2, <3>3, <3>4, <3>5, <3>6
  <2>3. KnownAt(d, q)'
    <3>1. q.part \in InRecord => q.part = "name"
      BY <1>6 DEF InRecord
    <3>2. /\ service_id' = IF q.part = "id" THEN 0 ELSE d.id
          /\ service_name' = IF q.part = "id" THEN "" ELSE Trim(d.protocol)
      BY <1>1, <1>4, <1>6, <2>1 DEF KnownAt
    <3>3. q.part \notin {"start", "protocol"}
      BY <1>6
    <3> QED
      BY <1>1, <2>2, <3>1, <3>2, <3>3 DEF KnownAt
  <2> QED
    BY <1>1, <1>8, <2>3 DEF ParsedTo
<1> QED
  BY <1>1, <1>7, <1>8

-----------------------------------------------------------------------------
LEMMA EventFacts ==
  ASSUME IInv, EventStep
  PROVE  /\ file \in Files /\ file # NoFile /\ at \in DOMAIN Events[file]
         /\ at \in Nat /\ at + 1 <= Len(Events[file]) + 1 /\ Len(Events[file]) \in Nat
         /\ file' = file /\ at' = at + 1
         /\ Now.ev = "Start" => StartEvent
         /\ Now.ev = "Text" => TextEvent
         /\ Now.ev = "End" => EndEvent
         /\ Now.ev = "Other" => OtherEvent
<1>1. PICK ev : Reports(ev)
  BY DEF EventStep, StartEvent, TextEvent, EndEvent, OtherEvent
<1>2. TypeOK
  BY DEF IInv
<1>3. file \in Files /\ at \in DOMAIN Events[file]
  BY <1>1, <1>2, NowIsEvent
<1>4. file # NoFile /\ file' = file /\ at' = at + 1
  BY <1>1 DEF Reports
<1>5. at \in Nat /\ at + 1 <= Len(Events[file]) + 1 /\ Len(Events[file]) \in Nat
  <2> DEFINE s == Events[file]
  <2>1. s \in Seq(Event)
    BY <1>3, SchemaAssumption
  <2>2. at \in DOMAIN s
    BY <1>3
  <2> HIDE DEF s
  <2>3. Len(s) \in Nat /\ at \in 1..Len(s)
    BY <2>1, <2>2
  <2>4. at \in Nat /\ at + 1 <= Len(s) + 1
    BY ONLY <2>3
  <2> QED
    BY <2>3, <2>4 DEF s
<1>6. /\ StartEvent => Now.ev = "Start"
      /\ TextEvent => Now.ev = "Text"
      /\ EndEvent => Now.ev = "End"
      /\ OtherEvent => Now.ev = "Other"
  BY DEF StartEvent, TextEvent, EndEvent, OtherEvent, Reports, Now
<1>7. StartEvent \/ TextEvent \/ EndEvent \/ OtherEvent
  BY DEF EventStep
<1> QED
  BY ONLY <1>3, <1>4, <1>5, <1>6, <1>7

\* What leads to a word that is cut is a part of it.
LEMMA OnlyCut ==
  ASSUME NEW d, IsDocument(d), NEW p, MarkOK(d, p), NEW e, NEW q, Follows(d, p, e, q),
         q.inside = "cut"
  PROVE  HasElement(d, p) /\ p.inside = "tag" /\ e.ev = "Text" /\ q.part = p.part
<1>1. CASE AroundElements(d, p, e, q)
  BY <1>1, MarkAround
<1>2. CASE BetweenElements(d, p, e, q)
  <2>1. [p EXCEPT !.inside = "none"].inside = "none" /\ [p EXCEPT !.inside = "note"].inside = "note"
    BY DEF MarkOK, Place
  <2> QED
    BY <1>2, <2>1 DEF BetweenElements
<1>3. CASE InElement(d, p, e, q)
  <2> DEFINE x == ElementAt(d, p)
  <2>1. HasElement(d, p)
    BY <1>3 DEF InElement
  <2>2. /\ [p EXCEPT !.inside = "tag"].inside = "tag" /\ [p EXCEPT !.inside = "word"].inside = "word"
        /\ [p EXCEPT !.inside = "cut"].part = p.part
    BY DEF MarkOK, Place
  <2>3. /\ Behind(d, p) \in Place(d) /\ Behind(d, p).inside = p.inside
    BY <2>1, BehindFacts
  <2>4. ASSUME NEW v PROVE [Behind(d, p) EXCEPT !.inside = v].inside = v
    BY <2>3 DEF Place
  <2>5. (IF d.layout = "indented" THEN "space" ELSE "none") # "cut"
    OBVIOUS
  <2> HIDE DEF x
  <2>6. \/ p.inside = "none" /\ q = [p EXCEPT !.inside = "tag"]
        \/ q = [p EXCEPT !.inside = "word"]
        \/ p.inside = "tag" /\ e.ev = "Text" /\ q = [p EXCEPT !.inside = "cut"]
        \/ q = [Behind(d, p) EXCEPT !.inside = IF d.layout = "indented" THEN "space" ELSE "none"]
        \/ p.inside = "none" /\ q = Behind(d, p)
    BY <1>3 DEF InElement, x
  <2> QED
    BY <2>1, <2>2, <2>3, <2>4, <2>5, <2>6
<1> QED
  BY <1>1, <1>2, <1>3 DEF Follows

\* An event of a file leads from the place at it to the place behind it.
LEMMA EventRead == ASSUME IInv, ReadInv, EventStep PROVE ReadInv'
<1>1. /\ file \in Files /\ file # NoFile /\ at \in DOMAIN Events[file]
      /\ at \in Nat /\ at + 1 <= Len(Events[file]) + 1
      /\ file' = file /\ at' = at + 1
      /\ Now.ev = "Start" => StartEvent
      /\ Now.ev = "Text" => TextEvent
      /\ Now.ev = "End" => EndEvent
      /\ Now.ev = "Other" => OtherEvent
  BY EventFacts
<1>2. PICK d : d = Documents[file]
  OBVIOUS
<1>3. PICK p : p = Marks[file][at]
  OBVIOUS
<1>4. PICK q : q = Marks[file][at + 1]
  OBVIOUS
<1>5. Follows(d, p, Now, q)
  BY <1>1, <1>2, <1>3, <1>4, DocumentAssumption DEF Now
<1>6. IsDocument(d)
  BY <1>1, <1>2, DocumentFacts
<1>7. MarkOK(d, p) /\ ParsedTo(d, p)
  BY <1>1, <1>2, <1>3 DEF ReadInv, Described, Here, ParsedTo, SpacedAt, KnownAt, CutAt
<1>8. MarkOK(d, q) /\ ParsedTo(d, q)'
  <2>1. CASE AroundElements(d, p, Now, q)
    BY <1>1, <1>6, <1>7, <2>1, AroundIsRead
  <2>2. CASE BetweenElements(d, p, Now, q)
    <3>1. CASE Now = Other /\ q = p
      <4>1. UNCHANGED parser
        BY <1>1, <3>1 DEF Other, OtherEvent
      <4>2. ParsedTo(d, p)'
        BY <1>7, <4>1, NothingBetween
      <4> QED
        BY <1>7, <3>1, <4>2
    <3>2. CASE /\ d.layout = "indented" /\ p.inside \in {"none", "space"}
               /\ Now = Text(" ") /\ q = [p EXCEPT !.inside = "none"]
      <4>1. TextEvent
        BY <1>1, <3>2 DEF Text
      <4> QED
        BY ONLY <1>7, <3>2, <4>1, SpaceBetween
    <3>3. ASSUME p.part \in InRecord,
                 \/ /\ p.inside = "none" /\ Now.ev = "Start" /\ Now.tag \in Notes
                    /\ q = [p EXCEPT !.inside = "note"]
                 \/ p.inside = "note" /\ Now.ev = "Text" /\ q = p
                 \/ /\ p.inside = "note" /\ Now.ev = "End" /\ Now.tag \in Notes
                    /\ q = [p EXCEPT !.inside = "none"]
          PROVE  MarkOK(d, q) /\ ParsedTo(d, q)'
      <4>1. \/ /\ p.inside = "none" /\ StartEvent /\ Now.tag \in Notes
               /\ q = [p EXCEPT !.inside = "note"]
            \/ p.inside = "note" /\ TextEvent /\ q = p
            \/ /\ p.inside = "note" /\ EndEvent /\ Now.tag \in Notes
               /\ q = [p EXCEPT !.inside = "none"]
        BY ONLY <1>1, <3>3
      <4>2. IInv
        OBVIOUS
      <4> QED
        BY ONLY <1>7, <3>3, <4>1, <4>2, NoteBetween
    <3>4. p.inside = "note" => p.part \in InRecord
      BY <1>7 DEF MarkOK
    <3>5. p.part \in {"name", "order", "fields"} => p.part \in InRecord
      BY DEF InRecord
    <3> QED
      BY <2>2, <3>1, <3>2, <3>3, <3>4, <3>5 DEF BetweenElements
  <2>3. CASE InElement(d, p, Now, q)
    <3> DEFINE x == ElementAt(d, p)
               short == d.layout = "empty tags" /\ x.word = ""
    <3>1. HasElement(d, p)
      BY <2>3 DEF InElement
    <3>2. CASE /\ p.inside = "none" /\ ~short
               /\ Now = Start(x.tag, x.type) /\ q = [p EXCEPT !.inside = "tag"]
      <4>1. StartEvent
        BY <1>1, <3>2 DEF Start
      <4> QED
        BY <1>6, <1>7, <3>1, <3>2, <4>1, ElementStarts
    <3>3. CASE /\ p.inside = "tag" /\ x.word # ""
               /\ Now = Text(x.word) /\ q = [p EXCEPT !.inside = "word"]
      <4>1. TextEvent
        BY <1>1, <3>3 DEF Text
      <4> QED
        BY <1>6, <1>7, <3>1, <3>3, <4>1, ElementIsText
    <3>6. CASE /\ p.inside = "tag" /\ x.word # ""
               /\ Now.ev = "Text" /\ q = [p EXCEPT !.inside = "cut"]
      <4>1. TextEvent
        BY <1>1, <3>6
      <4> QED
        BY <1>6, <1>7, <3>1, <3>6, <4>1, ElementIsCut
    <3>4. CASE /\ p.inside = IF x.word = "" THEN "tag" ELSE "word"
               /\ Now = End(x.tag)
               /\ q = [Behind(d, p) EXCEPT
                         !.inside = IF d.layout = "indented" THEN "space" ELSE "none"]
      <4> DEFINE v == IF d.layout = "indented" THEN "space" ELSE "none"
      <4>1. x.tag # "RECORD"
        BY <1>6, <1>7, <3>1, ElementFields
      <4>2. EndEvent /\ Now.tag = x.tag
        BY <1>1, <3>4 DEF End
      <4>3. UNCHANGED parser
        BY <4>1, <4>2 DEF EndEvent, parser
      <4>4. q = Leaving(d, p, v)
        BY <3>4 DEF Leaving
      <4> QED
        BY <1>6, <1>7, <3>1, <3>4, <4>3, <4>4, ElementIsOver
    <3>5. CASE p.inside = "none" /\ short /\ Now = Other /\ q = Behind(d, p)
      <4>1. UNCHANGED parser
        BY <1>1, <3>5 DEF Other, OtherEvent
      <4>2. q = Leaving(d, p, "none")
        <5>1. q \in Place(d) /\ q.inside = "none"
          BY <1>6, <1>7, <3>1, <3>5, BehindFacts
        <5>2. [q EXCEPT !.inside = "none"] = q
          BY ONLY <5>1 DEF Place
        <5> QED
          BY <3>5, <5>2 DEF Leaving
      <4>3. "none" = IF d.layout = "indented" THEN "space" ELSE "none"
        BY <3>5
      <4> QED
        BY <1>6, <1>7, <3>1, <3>5, <4>1, <4>2, <4>3, ElementIsOver
    <3> QED
      BY <2>3, <3>2, <3>3, <3>4, <3>5, <3>6 DEF InElement
  <2> QED
    BY <1>5, <2>1, <2>2, <2>3 DEF Follows
<1>9. CutRead'
  <2>1. file' = file /\ at' - 1 = at /\ Here' = q
    BY <1>1, <1>4 DEF Here
  <2>2. ASSUME q.inside = "cut", q.part = "id" PROVE service_id' = Parse(Now.word)
    <3>1. HasElement(d, p) /\ p.inside = "tag" /\ Now.ev = "Text" /\ p.part = "id"
      <4> DEFINE e == Now
      <4>1. Follows(d, p, e, q)
        BY <1>5
      <4> HIDE DEF e
      <4>2. HasElement(d, p) /\ p.inside = "tag" /\ e.ev = "Text" /\ q.part = p.part
        BY <1>6, <1>7, <2>2, <4>1, OnlyCut
      <4> QED
        BY <2>2, <4>2 DEF e
    <3>2. current_element = "ServiceID"
      BY <1>6, <1>7, <3>1, ElementFields DEF ParsedTo
    <3> QED
      BY <1>1, <3>1, <3>2 DEF TextEvent
  <2> QED
    BY <2>1, <2>2 DEF CutRead, Now
<1> QED
  BY <1>1, <1>2, <1>4, <1>8, <1>9 DEF ReadInv, Described, Here, ParsedTo, SpacedAt, KnownAt, CutAt

\* A file begins at the beginning of its document.
LEMMA OpenRead == ASSUME NEW n, dir[n] \in Files, OpenFile(n) PROVE ReadInv'
<1>0. PICK f \in Files : f = dir[n]
  OBVIOUS
<1> DEFINE d == Documents[f]
<1>1. /\ file' = f /\ at' = 1 /\ service_id' = 0 /\ service_name' = "" /\ messages' = <<>>
  BY <1>0 DEF OpenFile
<1>2. IsDocument(d) /\ Marks[f][1] = Beginning
  BY <1>1, DocumentFacts, DocumentAssumption
<1>3. Len(Events[f]) \in Nat
  BY <1>1, SchemaAssumption, LenNat
<1> HIDE DEF d
<1>4. MarkOK(d, Beginning)
  <2>1. Len(d.messages) \in Nat
    BY <1>2, LenMessages
  <2> QED
    BY <2>1 DEF MarkOK, Beginning, Place, Parts, InRecord
<1>5. SubSeq(Found(d), 1, 0) = <<>>
  BY <1>2, FoundFacts, EmptyPrefix
<1>6. ParsedTo(d, Beginning)'
  BY <1>1, <1>5 DEF ParsedTo, KnownAt, SpacedAt, Early, Beginning, InRecord
<1>7. 1 <= Len(Events[f]) + 1
  BY <1>3
<1>8. CutRead'
  <2>1. Here' = Beginning /\ Beginning.inside = "none"
    BY <1>1, <1>2 DEF Here, Beginning
  <2> QED
    BY <2>1 DEF CutRead
<1> QED
  BY <1>1, <1>2, <1>4, <1>6, <1>7, <1>8
     DEF ReadInv, Described, Here, ParsedTo, SpacedAt, KnownAt, CutAt, d

LEMMA NextRead == IInv /\ WadInv /\ Loading /\ ReadInv /\ [LoadNext]_allVars => ReadInv'
<1> SUFFICES ASSUME IInv, WadInv, Loading, ReadInv, [LoadNext]_allVars
             PROVE  ReadInv'
  OBVIOUS
<1>1. CASE UNCHANGED vars
  BY <1>1 DEF vars, parser, ReadInv, CutRead, Described, Here, ParsedTo, SpacedAt, KnownAt, CutAt
<1>2. ASSUME NEW n \in todo, OpenFile(n) PROVE ReadInv'
  BY <1>2, FilesGiven, OpenRead
<1>3. CASE Load(DOMAIN dir) \/ CloseFile \/ \E n \in todo : SkipFile(n)
  <2>1. file' = NoFile
    BY <1>3 DEF Load, CloseFile, SkipFile
  <2> QED
    BY <2>1 DEF ReadInv
<1>4. CASE EventStep
  BY <1>4, EventRead
<1>5. ExtractStep \/ Click \/ UNCHANGED allVars => UNCHANGED vars
  BY DEF ExtractStep, Click, allVars
<1>6. LoadStep => Load(DOMAIN dir)
  BY DEF LoadStep
<1>7. ParseStep => (\E n \in todo : SkipFile(n) \/ OpenFile(n)) \/ EventStep \/ CloseFile
  BY DEF ParseStep, EventStep
<1> QED
  BY <1>1, <1>2, <1>3, <1>4, <1>5, <1>6, <1>7 DEF LoadNext

LEMMA ReadInvariance == LoadSpec => []ReadInv
<1>1. LoadInit => ReadInv
  BY DEF LoadInit, Init, ReadInv
<1>2. IInv /\ WadInv /\ Loading /\ ReadInv /\ [LoadNext]_allVars => ReadInv'
  BY NextRead
<1> QED
  BY <1>1, <1>2, Invariance, WadInvariance, LoadingInvariance, PTL DEF LoadSpec

-----------------------------------------------------------------------------
LEMMA PrefixOf ==
  ASSUME NEW S, NEW s \in Seq(S), NEW n \in 0..Len(s)
  PROVE  IsPrefix(SubSeq(s, 1, n), s) /\ (n = 0 <=> SubSeq(s, 1, n) = <<>>)
<1>1. Len(SubSeq(s, 1, n)) = n /\ n <= Len(s)
  OBVIOUS
<1>2. SubSeq(SubSeq(s, 1, n), 1, n) = SubSeq(s, 1, n)
  OBVIOUS
<1>3. n = 0 <=> SubSeq(s, 1, n) = <<>>
  BY <1>1
<1> QED
  BY <1>1, <1>2, <1>3 DEF IsPrefix

\* What a file is in the registry when it ends.
LEMMA FileRead ==
  ASSUME IInv, ReadInv, CloseFile
  PROVE  LET d == Documents[file]
             name == IF service_name = "" THEN Stem[path] ELSE service_name
         IN /\ file \in Files
            /\ service_id \in {0, ServiceId(file)} /\ d.id # 0
            /\ service_id # 0 =>
                 /\ IsPrefix(messages, Found(d))
                 /\ messages # <<>> \/ Complete(file) =>
                      /\ name = ServiceName([path |-> path, file |-> file])
                      /\ d.layout # "indented"
            /\ Complete(file) /\ d.layout # "indented" =>
                 service_id = d.id /\ messages = Found(d)
<1>1. /\ file \in Files /\ file # NoFile /\ at \in Nat /\ at > Len(Events[file])
      /\ Events[file] \in Seq(Event)
  BY SchemaAssumption DEF IInv, TypeOK, CloseFile
<1>2. /\ at <= Len(Events[file]) + 1 /\ MarkOK(Described, Here) /\ ParsedTo(Described, Here)
  BY <1>1 DEF ReadInv
<1>3. at = Len(Events[file]) + 1 /\ at - 1 = Len(Events[file])
  <2> DEFINE n == Len(Events[file])
  <2>1. n \in Nat
    BY <1>1, LenNat
  <2> HIDE DEF n
  <2>2. at > n /\ at <= n + 1
    BY <1>1, <1>2 DEF n
  <2>3. at = n + 1 /\ at - 1 = n
    BY <1>1, <2>1, <2>2
  <2> QED
    BY <2>3 DEF n
<1> DEFINE d == Documents[file]
           p == Here
<1>4. /\ Complete(file) <=> p.part = "end"
      /\ p.inside = "cut" /\ p.part = "id" => service_id = ServiceId(file)
      /\ ~(p.inside = "cut" /\ p.part = "id") => ServiceId(file) = d.id
  <2>1. p = LastMark(file)
    BY <1>3 DEF Here, LastMark
  <2>2. p.inside = "cut" /\ p.part = "id" => service_id = Parse(Events[file][Len(Events[file])].word)
    BY <1>1, <1>3 DEF ReadInv, CutRead
  <2> HIDE DEF p
  <2> QED
    BY <2>1, <2>2 DEF Complete, CutId, ServiceId
<1>5. IsDocument(d) /\ d.id # 0
  BY <1>1, DocumentFacts, IdFacts
<1>6. MarkOK(d, p) /\ ParsedTo(d, p)
  BY <1>2 DEF Described, ParsedTo, SpacedAt, KnownAt, CutAt
<1>7. /\ Found(d) \in Seq(Message) /\ Len(Found(d)) = Len(d.messages)
      /\ Len(d.messages) \in Nat /\ p.done \in 0..Len(d.messages)
      /\ p.part = "end" => p.done = Len(d.messages)
      /\ p.part \in {"start", "id", "protocol"} => p.done = 0
  BY <1>5, <1>6, FoundFacts, LenMessages DEF MarkOK, Place
<1>8. ServiceName([path |-> path, file |-> file])
        = IF Trim(d.protocol) = "" THEN Stem[path] ELSE Trim(d.protocol)
  BY DEF ServiceName
<1> HIDE DEF d, p
<1>11. IsPrefix(<<>>, Found(d))
  <2>1. 0 \in 0..Len(Found(d)) /\ SubSeq(Found(d), 1, 0) = <<>>
    BY <1>7, EmptyPrefix
  <2> QED
    BY <1>7, <2>1, PrefixOf
<1>12. CASE p.inside = "cut"
  <2>1. CutAt(d, p) /\ p.part # "end"
    <3>1. HasElement(d, p)
      BY <1>6, <1>12 DEF MarkOK
    <3> QED
      BY <1>6, <1>12, <3>1 DEF ParsedTo, HasElement
  <2>2. CASE p.part = "id"
    <3>1. messages = <<>> /\ service_id = ServiceId(file)
      BY <1>4, <1>12, <2>1, <2>2 DEF CutAt
    <3> QED
      BY <1>1, <1>4, <1>5, <1>11, <2>1, <3>1 DEF d
  <2>3. CASE p.part # "id" /\ d.layout = "indented"
    <3>1. service_id = 0
      BY <2>1, <2>3 DEF CutAt
    <3> QED
      BY <1>1, <1>4, <1>5, <2>1, <3>1 DEF d
  <2>4. CASE p.part # "id" /\ d.layout # "indented"
    <3>1. /\ messages = SubSeq(Found(d), 1, p.done) /\ service_id = d.id /\ ServiceId(file) = d.id
          /\ p.part # "protocol" => service_name = Trim(d.protocol)
      BY <1>4, <2>1, <2>4 DEF CutAt
    <3>2. IsPrefix(messages, Found(d)) /\ (messages # <<>> => p.part # "protocol")
      BY <1>7, <3>1, PrefixOf
    <3> QED
      BY <1>1, <1>4, <1>5, <1>8, <2>1, <2>4, <3>1, <3>2 DEF d
  <2> QED
    BY <2>2, <2>3, <2>4
<1>9. CASE p.inside # "cut" /\ d.layout = "indented"
  <2>1. SpacedAt(d, p)
    BY <1>6, <1>9 DEF ParsedTo
  <2>2. /\ service_id \in {0, d.id}
        /\ service_id # 0 => messages = <<>> /\ p.part # "end"
    BY <2>1 DEF SpacedAt, Early
  <2> QED
    BY <1>1, <1>4, <1>5, <1>9, <1>11, <2>2 DEF d
<1>10. CASE p.inside # "cut" /\ d.layout # "indented"
  <2>1. KnownAt(d, p)
    BY <1>6, <1>10 DEF ParsedTo
  <2>2. /\ messages = SubSeq(Found(d), 1, p.done) /\ service_id \in {0, d.id}
        /\ p.part = "end" => service_id = d.id
        /\ p.part \notin {"start", "id", "protocol"} => service_name = Trim(d.protocol)
    BY <2>1 DEF KnownAt
  <2>3. IsPrefix(messages, Found(d)) /\ (messages # <<>> => p.done # 0)
    BY <1>7, <2>2, PrefixOf
  <2>4. p.part = "end" => messages = Found(d)
    BY <1>7, <2>2, WholePrefix
  <2>5. messages # <<>> \/ p.part = "end" => service_name = Trim(d.protocol)
    BY <1>7, <2>2, <2>3
  <2> QED
    BY <1>1, <1>4, <1>5, <1>8, <1>10, <2>2, <2>3, <2>4, <2>5 DEF d
<1> QED
  BY <1>9, <1>10, <1>12

\* parse_message_xml and load_from_directory (schema.rs:89, 47): whatever the files are, in
\* whatever order they are parsed and wherever they end, a service of the registry is one
\* file's and no other's.
THEOREM RegistryIsWhole == LoadSpec => []RegistryWhole
<1>1. LoadInit => RegistryWhole
  BY DEF LoadInit, Init, RegistryWhole
<1>2. IInv /\ ReadInv /\ RegistryWhole /\ [LoadNext]_allVars => RegistryWhole'
  <2> SUFFICES ASSUME IInv, ReadInv, RegistryWhole, [LoadNext]_allVars
               PROVE  RegistryWhole'
    OBVIOUS
  <2> DEFINE Is(r, id, s) ==
        LET f == r.file
            d == Documents[f]
        IN /\ id = ServiceId(f)
           /\ IsPrefix(s.messages, Found(d))
           /\ s.messages # <<>> \/ Complete(f) => s.name = ServiceName(r) /\ d.layout # "indented"
           /\ Complete(f) => s.messages = Found(d)
  <2>1. \A id \in DOMAIN services \ {0} : \E r \in read : Is(r, id, services[id])
    BY DEF RegistryWhole
  <2>2. (\A id \in DOMAIN services' \ {0} : \E r \in read' : Is(r, id, services'[id]))
          => RegistryWhole'
    BY DEF RegistryWhole
  <2>3. CASE CloseFile
    <3> DEFINE here == [name |-> IF service_name = "" THEN Stem[path] ELSE service_name,
                        messages |-> messages]
               now == [path |-> path, file |-> file]
    <3>1. /\ services' = [id \in DOMAIN services \cup {service_id} |->
                            IF id = service_id THEN here ELSE services[id]]
          /\ read' = read \cup {now}
      BY <2>3 DEF CloseFile
    <3>2. service_id # 0 => Is(now, service_id, here)
      BY <2>3, FileRead
    <3> HIDE DEF Is, here, now
    <3>3. ASSUME NEW id \in DOMAIN services' \ {0}
          PROVE  \E r \in read' : Is(r, id, services'[id])
      <4>1. CASE id = service_id
        <5>1. services'[id] = here
          BY <3>1, <4>1
        <5> QED
          BY <3>1, <3>2, <4>1, <5>1
      <4>2. CASE id # service_id
        <5>1. id \in DOMAIN services \ {0} /\ services'[id] = services[id]
          BY <3>1, <4>2
        <5> QED
          BY <2>1, <3>1, <5>1
      <4> QED
        BY <4>1, <4>2
    <3> QED
      BY <2>2, <3>3
  <2>4. CASE services' = services /\ read' = read
    BY <2>1, <2>2, <2>4
  <2>5. [Next]_vars
    BY RegistryStep
  <2> QED
    BY <2>3, <2>4, <2>5 DEF Next, Load, SkipFile, OpenFile, StartEvent, TextEvent, EndEvent,
       OtherEvent, Reports, vars
<1> QED
  BY <1>1, <1>2, Invariance, ReadInvariance, PTL DEF LoadSpec

-----------------------------------------------------------------------------
(***************************************************************************)
(* What is looked up in the registry.                                      *)
(***************************************************************************)

\* What a lookup in a file of the directory can be answered from.
Good(f) ==
  /\ f \notin Unreadable /\ Complete(f) /\ Documents[f].layout # "indented"
  /\ \A g \in (Schemas \ Unreadable) \ {f} : ServiceId(g) # Documents[f].id

InRegistry(f) ==
  LET d == Documents[f]
  IN d.id \in DOMAIN services /\ services[d.id].messages = Found(d)

\* What has been loaded, and not only opened, is there.
Answered ==
  pc = "idle" /\ result = "ok" /\ ~due =>
    \A n \in Listed \ todo :
      Good(dir[n]) => InRegistry(dir[n]) \/ (file # NoFile /\ n = path)

\* A path that is returned is a file.
Named == \A i \in 1..Len(extracted) : extracted[i].file_name \in DOMAIN dir

LEMMA NextNamed == WadInv /\ Named /\ [LoadNext]_allVars => Named'
<1> SUFFICES ASSUME WadInv, Named, [LoadNext]_allVars
             PROVE  Named'
  OBVIOUS
<1>1. CASE dir' = dir /\ extracted' = extracted
  BY <1>1 DEF Named
<1>2. CASE Wad!Open
  <2>1. extracted' = <<>>
    BY <1>2 DEF Wad!Open
  <2>2. 1..Len(extracted') = {}
    BY <2>1, NoElements
  <2> QED
    BY <2>2 DEF Named
<1>3. CASE Wad!Extract
  <2>1. PICK e \in EntryRecord :
          \/ /\ \E c : dir' = Wad!File(e.file_name, c)
             /\ extracted' = extracted \/ extracted' = Append(extracted, e)
          \/ dir' = dir /\ extracted' = extracted
    <3>1. PICK i \in dml_entries :
            LET e == entries[i]
            IN \/ /\ \E c \in Wad!Data(e) : dir' = Wad!File(e.file_name, c)
                  /\ extracted' = Append(extracted, e)
               \/ dir' = dir /\ extracted' = extracted
               \/ /\ \E c : dir' = Wad!File(e.file_name, c)
                  /\ extracted' = extracted
      BY <1>3 DEF Wad!Extract
    <3>2. entries[i] \in EntryRecord
      BY DEF WadInv, WadTyped
    <3> QED
      BY <3>1, <3>2
  <2>2. ASSUME NEW c, dir' = Wad!File(e.file_name, c)
        PROVE  DOMAIN dir' = DOMAIN dir \cup {e.file_name}
    BY <2>2, FileWritten
  <2>3. CASE dir' = dir /\ extracted' = extracted
    BY <2>3 DEF Named
  <2>4. CASE extracted' = extracted /\ \E c : dir' = Wad!File(e.file_name, c)
    BY <2>2, <2>4 DEF Named
  <2>5. CASE extracted' = Append(extracted, e) /\ \E c : dir' = Wad!File(e.file_name, c)
    <3>1. extracted \in Seq(EntryRecord)
      BY DEF WadInv, WadTyped
    <3>2. DOMAIN dir' = DOMAIN dir \cup {e.file_name}
      BY <2>2, <2>5
    <3>3. \A i \in 1..Len(extracted') : extracted'[i] = e \/ (i \in 1..Len(extracted) /\ extracted'[i] = extracted[i])
      BY <2>5, <3>1
    <3> QED
      BY <3>2, <3>3 DEF Named
  <2> QED
    BY <2>1, <2>3, <2>4, <2>5
<1>4. ExtractStep /\ ~Wad!Extract => dir' = dir /\ extracted' = extracted
  BY DEF ExtractStep, Wad!ReadHeader, Wad!ReadEntry, Wad!Select, Wad!Finish, Wad!Fail
<1>5. LoadStep \/ ParseStep \/ UNCHANGED allVars => dir' = dir /\ extracted' = extracted
  BY DEF LoadStep, ParseStep, allVars, wadVars
<1>6. Click => Wad!Open
  BY DEF Click
<1> QED
  BY <1>1, <1>2, <1>3, <1>4, <1>5, <1>6 DEF LoadNext

\* A file that ends joins those that are answered from, and takes none away.
LEMMA CloseAnswered ==
  ASSUME IInv, WadInv, ReadInv, Loading, Answered, CloseFile, UNCHANGED <<wadVars, due>>
  PROVE  Answered'
<1>1. /\ file # NoFile /\ file' = NoFile /\ todo' = todo
      /\ services' = [id \in DOMAIN services \cup {service_id} |->
           IF id = service_id
           THEN [name |-> IF service_name = "" THEN Stem[path] ELSE service_name,
                 messages |-> messages]
           ELSE services[id]]
  BY DEF CloseFile
<1>2. /\ service_id \in {0, ServiceId(file)}
      /\ Complete(file) /\ Documents[file].layout # "indented" =>
           service_id = Documents[file].id /\ messages = Found(Documents[file])
  BY FileRead
<1>3. /\ dir' = dir /\ pc' = pc /\ result' = result /\ due' = due
      /\ Listed' = Listed /\ Schemas' = Schemas
  BY DEF wadVars, Listed, Schemas
<1>4. /\ file \in Schemas \ Unreadable /\ path \in Listed /\ file = dir[path]
      /\ \A n \in Listed : dir[n] \in Files
  BY <1>1, FilesGiven DEF Loading, WadInv, WadTyped, Contents, Listed
<1>5. \A f : Good(f)' <=> Good(f)
  BY <1>3 DEF Good
<1> SUFFICES ASSUME pc = "idle" /\ result = "ok" /\ ~due,
                    NEW n \in Listed \ todo, NEW f, f = dir[n], Good(f)
             PROVE  InRegistry(f)'
  <2> SUFFICES ASSUME (pc = "idle" /\ result = "ok" /\ ~due)',
                      NEW n \in (Listed \ todo)', Good(dir[n])'
               PROVE  InRegistry(dir[n])'
    BY DEF Answered
  <2>0. (pc = "idle" /\ result = "ok" /\ ~due)' /\ n \in (Listed \ todo)'
    OBVIOUS
  <2>1. /\ pc = "idle" /\ result = "ok" /\ ~due
        /\ n \in Listed \ todo /\ dir'[n] = dir[n]
    <3>1. todo' = todo
      BY <1>1
    <3> QED
      BY ONLY <1>3, <2>0, <3>1
  <2>2. Good(dir[n])
    BY <1>3 DEF Good
  <2> QED
    BY <2>1, <2>2 DEF InRegistry
<1>6. CASE f = file
  BY <1>1, <1>2, <1>6 DEF InRegistry, Good
<1>7. CASE f # file
  <2>1. InRegistry(f)
    BY <1>4, <1>7 DEF Answered
  <2>2. service_id # Documents[f].id
    <3>1. ServiceId(file) # Documents[f].id
      BY <1>4, <1>7 DEF Good
    <3>2. Documents[f].id # 0
      BY <1>4, DocumentFacts, IdFacts
    <3> QED
      BY <1>2, <3>1, <3>2
  <2> QED
    BY <1>1, <2>1, <2>2 DEF InRegistry
<1> QED
  BY <1>6, <1>7

LEMMA NextAnswered ==
  IInv /\ WadInv /\ ReadInv /\ Loading /\ Answered /\ [LoadNext]_allVars => Answered'
<1> SUFFICES ASSUME IInv, WadInv, ReadInv, Loading, Answered, [LoadNext]_allVars
             PROVE  Answered'
  OBVIOUS
<1>1. \A n \in todo : dir[n] \in Files /\ dir[n] # NoFile
  BY FilesGiven, SchemaAssumption
<1>2. CASE Click
  <2>1. pc' = "header"
    BY <1>2 DEF Click, Wad!Open
  <2> QED
    BY <2>1 DEF Answered
<1>3. CASE ExtractStep
  <2>1. due' = (pc' = "idle" /\ result' = "ok")
    BY <1>3 DEF ExtractStep
  <2> QED
    BY <2>1 DEF Answered
<1>4. CASE LoadStep
  <2>1. todo' = DOMAIN dir /\ dir' = dir
    BY <1>4 DEF LoadStep, Load, wadVars
  <2>2. Listed' \ todo' = {}
    BY <2>1 DEF Listed
  <2> QED
    BY <2>2 DEF Answered
<1>5. CASE ParseStep
  <2>1. /\ dir' = dir /\ pc' = pc /\ result' = result /\ due' = due
        /\ Listed' = Listed /\ Schemas' = Schemas
    BY <1>5 DEF ParseStep, wadVars, Listed, Schemas
  <2>2. \A f : Good(f)' <=> Good(f)
    BY <2>1 DEF Good
  <2>3. CASE CloseFile
    BY <1>5, <2>3, CloseAnswered DEF ParseStep
  <2>4. ASSUME NEW n \in todo, SkipFile(n) PROVE Answered'
    <3>1. /\ file = NoFile /\ todo' = todo \ {n} /\ services' = services
          /\ file' = file /\ path' = path
          /\ n \notin MessagesXml \/ dir[n] \in Unreadable
      BY <2>4 DEF SkipFile
    <3>2. n \notin Listed \/ ~Good(dir[n])
      BY <3>1 DEF Listed, Good
    <3>3. \A g : InRegistry(g)' <=> InRegistry(g)
      BY <3>1 DEF InRegistry
    <3>4. \A m \in Listed \ todo' : m = n \/ m \in Listed \ todo
      BY <3>1
    <3> QED
      BY <2>1, <2>2, <3>1, <3>2, <3>3, <3>4 DEF Answered
  <2>5. ASSUME NEW n \in todo, OpenFile(n) PROVE Answered'
    <3>1. /\ file = NoFile /\ todo' = todo \ {n} /\ services' = services
          /\ path' = n /\ file' = dir[n]
      BY <2>5 DEF OpenFile
    <3>2. \A g : InRegistry(g)' <=> InRegistry(g)
      BY <3>1 DEF InRegistry
    <3>3. \A m \in Listed \ todo' : m = n \/ m \in Listed \ todo
      BY <3>1
    <3> QED
      BY <1>1, <2>1, <2>2, <3>1, <3>2, <3>3 DEF Answered
  <2>6. CASE EventStep
    <3>1. todo' = todo /\ file' = file /\ path' = path /\ services' = services
      BY <2>6 DEF EventStep, StartEvent, TextEvent, EndEvent, OtherEvent, Reports
    <3>2. \A g : InRegistry(g)' <=> InRegistry(g)
      BY <3>1 DEF InRegistry
    <3> QED
      BY <2>1, <2>2, <3>1, <3>2 DEF Answered
  <2> QED
    BY <1>5, <2>3, <2>4, <2>5, <2>6 DEF ParseStep, EventStep
<1>6. CASE UNCHANGED allVars
  BY <1>6 DEF allVars, vars, wadVars, Answered, Good, InRegistry, Listed, Schemas
<1> QED
  BY <1>2, <1>3, <1>4, <1>5, <1>6 DEF LoadNext

\* get_message_def on a service that is there: the first message with the order.
LEMMA FirstFound ==
  ASSUME NEW id \in DOMAIN services, NEW s \in Seq(Message), services[id].messages = s,
         NEW k \in DOMAIN s, \A j \in 1..(k - 1) : s[j].order # s[k].order
  PROVE  GetMessageDef(id, s[k].order) = <<s[k]>>
<1> DEFINE found == {i \in DOMAIN s : s[i].order = s[k].order}
           first == CHOOSE i \in found : \A j \in found : i <= j
<1>1. DOMAIN s = 1..Len(s) /\ Len(s) \in Nat
  OBVIOUS
<1>2. k \in found /\ \A j \in found : k <= j
  <2>1. \A j \in found : j \in Nat /\ j \notin 1..(k - 1) /\ j >= 1
    BY <1>1
  <2>2. k \in Nat
    BY <1>1
  <2> QED
    BY <2>1, <2>2
<1>3. first \in found /\ \A j \in found : first <= j
  BY <1>2
<1>4. first = k
  <2>1. first \in Nat /\ k \in Nat /\ first <= k /\ k <= first
    BY <1>1, <1>2, <1>3
  <2> HIDE DEF first
  <2> QED
    BY <2>1
<1>5. GetMessageDef(id, s[k].order) = <<s[first]>>
  BY <1>2 DEF GetMessageDef
<1> QED
  BY <1>4, <1>5

\* load_schemas_from_wad (gui.rs:238): for any archives and any files in them, what a click
\* that was Ok has extracted under a name that load_from_directory takes is what
\* get_message_def then finds.
THEOREM LookupsAreAnswered == LoadSpec => []LookupsAnswered
<1>1. LoadInit => Answered /\ Named
  <2> SUFFICES ASSUME LoadInit
               PROVE  Answered /\ Named
    OBVIOUS
  <2>1. result = "none" /\ extracted = <<>>
    BY DEF LoadInit, Wad!Init
  <2>2. 1..Len(extracted) = {}
    BY <2>1, NoElements
  <2> QED
    BY <2>1, <2>2 DEF Answered, Named
<1>2. /\ IInv /\ WadInv /\ ReadInv /\ Loading /\ Answered /\ Named /\ [LoadNext]_allVars
        => Answered' /\ Named'
  BY NextNamed, NextAnswered
<1>3. WadInv /\ Answered /\ Named => LookupsAnswered
  <2> SUFFICES ASSUME WadInv, Answered, Named, Loaded, pc = "idle", result = "ok",
                      NEW i \in DOMAIN extracted, extracted[i].file_name \in MessagesXml,
                      Good(dir[extracted[i].file_name]),
                      NEW k \in DOMAIN Documents[dir[extracted[i].file_name]].messages,
                      \A j \in 1..(k - 1) :
                        Found(Documents[dir[extracted[i].file_name]])[j].order
                          # Found(Documents[dir[extracted[i].file_name]])[k].order
               PROVE  GetMessageDef(Documents[dir[extracted[i].file_name]].id,
                                    Found(Documents[dir[extracted[i].file_name]])[k].order)
                        = <<Found(Documents[dir[extracted[i].file_name]])[k]>>
    BY DEF LookupsAnswered, Good
  <2> DEFINE n == extracted[i].file_name
             f == dir[n]
             d == Documents[f]
  <2>1. n \in Listed /\ f \in Files
    <3>1. i \in 1..Len(extracted)
      BY DEF WadInv, WadTyped
    <3> QED
      BY <3>1 DEF Named, Contents, Listed, WadInv, WadTyped
  <2>2. ~due /\ todo = {} /\ file = NoFile
    BY DEF Loaded
  <2>3. InRegistry(f)
    BY <2>1, <2>2 DEF Answered
  <2>4. IsDocument(d)
    BY <2>1, DocumentFacts
  <2>5. /\ Found(d) \in Seq(Message) /\ d.messages \in Seq(Message)
        /\ Len(Found(d)) = Len(d.messages)
    BY <2>4, FoundFacts, LenMessages
  <2>6. k \in DOMAIN Found(d)
    <3> DEFINE s == Found(d)
               m == d.messages
    <3>1. k \in DOMAIN m
      OBVIOUS
    <3> HIDE DEF s, m, d
    <3> QED
      BY <2>5, <3>1 DEF s, m
  <2>7. d.id \in DOMAIN services /\ services[d.id].messages = Found(d)
    BY <2>3 DEF InRegistry
  <2>8. \A j \in 1..(k - 1) : Found(d)[j].order # Found(d)[k].order
    OBVIOUS
  <2> HIDE DEF d
  <2>9. GetMessageDef(d.id, Found(d)[k].order) = <<Found(d)[k]>>
    BY <2>5, <2>6, <2>7, <2>8, FirstFound
  <2> QED
    BY <2>9 DEF d
<1> QED
  BY <1>1, <1>2, <1>3, Invariance, WadInvariance, LoadingInvariance, ReadInvariance, PTL
     DEF LoadSpec

=============================================================================
