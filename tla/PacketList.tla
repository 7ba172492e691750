----------------------------- MODULE PacketList -----------------------------
(***************************************************************************)
(* gui.rs: the packet list of the window, repaint by repaint.  A repaint   *)
(* (update) takes what arrived, draws the toolbar, whose buttons act as    *)
(* they are drawn, computes the filter, and draws the rows by indices into *)
(* the list, which the same repaint may have cleared.  Captures arrive     *)
(* meanwhile from the server thread (CaptureSession); what the decoder     *)
(* completes with a capture is a part of the capture here (KinpDecoder).   *)
(*                                                                         *)
(* A name is the sequence of the bytes its characters take.                *)
(***************************************************************************)
EXTENDS Naturals, FiniteSets, SequencesExt

CONSTANTS
  Services,         \* service ids
  ServiceName,      \* their names in the schemas
  MessageName,      \* and the name of a message of each
  Captures,         \* what can arrive: see CaptureType
  MaxCaptures       \* bound: captures

\* Messages: "dml" with fields, "bare" without, "other" of no service.
Kind == [type : {"dml", "bare", "other"}, service : Services]

\* A capture of a socket is an entry of its own; behind it come its messages.
CaptureType == [plaintext : BOOLEAN, messages : Seq(Kind)]

ListAssumption ==
  /\ Services \subseteq 1..255
  /\ ServiceName \in [Services -> Seq(1..4)]
  /\ MessageName \in [Services -> Seq(1..4)]
  /\ Captures \subseteq CaptureType
  /\ MaxCaptures \in Nat

VARIABLES
  hooked,           \* rx is Some(_) exactly when it holds
  channel,          \* the captures waiting in it, by number
  arrived,          \* history: all captures
  dropped,          \* history: the captures that went with a receiver
  packets,          \* the list
  selected,         \* selected_packet as an index, 0 for None
  picked,           \* history: the entry that was clicked
  filter,           \* filter_text and filter_service
  registry,         \* the services whose schemas are loaded
  filtered,         \* the local of update: the indices in it, which ascend
  phase,            \* where update is: "idle", "toolbar", "filter", "rows" or "panicked"
  cleared           \* history: the captures taken before the last Clear

vars == <<hooked, channel, arrived, dropped, packets, selected, picked, filter, registry,
          filtered, phase, cleared>>

\* What the two filter fields hold: a text that is a service's name, or a service id.
NoFilter == [text |-> 0, service |-> 0]

Init ==
  /\ hooked = FALSE /\ channel = <<>> /\ arrived = <<>> /\ dropped = {}
  /\ packets = <<>> /\ selected = 0 /\ picked = <<>>
  /\ filter = NoFilter /\ registry = {}
  /\ filtered = {} /\ phase = "idle" /\ cleared = 0

-----------------------------------------------------------------------------
\* The server thread sends a capture.
Arrive ==
  /\ phase # "panicked" /\ hooked /\ Len(arrived) < MaxCaptures
  /\ \E c \in Captures : arrived' = Append(arrived, c)
  /\ channel' = Append(channel, Len(arrived'))
  /\ UNCHANGED <<hooked, dropped, packets, selected, picked, filter, registry, filtered, phase,
                 cleared>>

\* decode_dml_message, by the schemas loaded so far.
Decoded(k) ==
  IF k.type # "dml" THEN "none" ELSE IF k.service \in registry THEN "named" ELSE "unknown"

\* The entries of capture n: the raw one, and those of its messages.
Raw(n) == [capture |-> n, part |-> 0, service |-> 0, decoded |-> "none"]

MessageEntry(n, p) ==
  LET k == arrived[n].messages[p]
  IN [capture |-> n, part |-> p, service |-> IF k.type = "other" THEN 0 ELSE k.service,
      decoded |-> Decoded(k)]

\* Mutated form: a message that is not decoded is not listed.
EntriesDecoded(n) ==
  (IF arrived[n].plaintext THEN <<>> ELSE <<Raw(n)>>)
  \o SelectSeq([p \in DOMAIN arrived[n].messages |-> MessageEntry(n, p)],
               LAMBDA e : e.decoded # "none")

Entries(n) ==
  (IF arrived[n].plaintext THEN <<>> ELSE <<Raw(n)>>)
  \o [p \in DOMAIN arrived[n].messages |-> MessageEntry(n, p)]

\* process_incoming_packets, at the head of update: the captures one by one.
Incoming ==
  /\ phase = "idle" /\ channel # <<>>
  /\ packets' = packets \o Entries(channel[1])
  /\ channel' = Tail(channel)
  /\ UNCHANGED <<hooked, arrived, dropped, selected, picked, filter, registry, filtered, phase,
                 cleared>>

NoneIncoming ==
  /\ phase = "idle" /\ channel = <<>>
  /\ phase' = "toolbar"
  /\ UNCHANGED <<hooked, channel, arrived, dropped, packets, selected, picked, filter, registry,
                 filtered, cleared>>

\* The buttons.  Inject Hook that succeeds, and Stop Hook, which drops the receiver.
Inject ==
  /\ ~hooked /\ hooked' = TRUE
  /\ UNCHANGED <<channel, dropped, packets, selected, picked, filter, registry, cleared>>

Stop ==
  /\ hooked /\ hooked' = FALSE
  /\ dropped' = dropped \cup ToSet(channel) /\ channel' = <<>>
  /\ UNCHANGED <<packets, selected, picked, filter, registry, cleared>>

\* Load WAD Schemas: services come to the registry, none goes.
LoadSchemas ==
  /\ \E s \in Services : registry' = registry \cup {s}
  /\ UNCHANGED <<hooked, channel, dropped, packets, selected, picked, filter, cleared>>

\* Clear.
Clear ==
  /\ packets' = <<>> /\ selected' = 0 /\ picked' = <<>>
  /\ cleared' = Len(arrived) - Len(channel)
  /\ UNCHANGED <<hooked, channel, dropped, filter, registry>>

EditFilter ==
  /\ \E s \in Services \cup {0} :
       filter' \in {[filter EXCEPT !.text = s], [filter EXCEPT !.service = s]}
  /\ UNCHANGED <<hooked, channel, dropped, packets, selected, picked, registry, cleared>>

NoClick ==
  UNCHANGED <<hooked, channel, dropped, packets, selected, picked, filter, registry, cleared>>

Click == Inject \/ Stop \/ LoadSchemas \/ Clear \/ EditFilter \/ NoClick

\* filtered_indices: a text finds decoded entries by their name, a number entries of the
\* service.
Matches(e) ==
  /\ filter.text # 0 => e.decoded = "named" /\ e.service = filter.text
  /\ filter.service # 0 => e.service = filter.service

FilteredIndices == {i \in DOMAIN packets : Matches(packets[i])}

\* Mutated form: the filter is computed at the head of the repaint.
ToolbarAfterFilter ==
  /\ phase = "toolbar" /\ Click
  /\ filtered' = FilteredIndices /\ phase' = "rows"
  /\ UNCHANGED arrived

\* The toolbar: at most one click or key.
Toolbar ==
  /\ phase = "toolbar" /\ Click
  /\ phase' = "filter"
  /\ UNCHANGED <<arrived, filtered>>

Filter ==
  /\ phase = "filter"
  /\ filtered' = FilteredIndices
  /\ phase' = "rows"
  /\ UNCHANGED <<hooked, channel, arrived, dropped, packets, selected, picked, filter, registry,
                 cleared>>

-----------------------------------------------------------------------------
Bytes(name) == FoldLeft(+, 0, name)

\* The first max - 1 bytes are whole characters.
Truncatable(name, max) == \E k \in 0..Len(name) : Bytes(SubSeq(name, 1, k)) = max - 1

\* truncate_str: of a name longer than max bytes max - 1 are taken, which panics inside a
\* character.
TruncatesCleanly(name, max) == Bytes(name) > max => Truncatable(name, max)

\* The names of a row: the service by the decoding or by the registry as it is now.
\* "Unknown", "Message #255" and the like fit.
NamesFit(e) ==
  LET named == e.decoded = "named"
  IN /\ named \/ (e.decoded = "none" /\ e.service \in registry) =>
          TruncatesCleanly(ServiceName[e.service], 12)
     /\ named => TruncatesCleanly(MessageName[e.service], 18)

RowDrawn(i) == i \in DOMAIN packets /\ NamesFit(packets[i])

\* The row in which index i is shown: filtered[row] is i.
Row(i) == Cardinality({j \in filtered : j <= i})

\* Mutated form: the row is selected, not the packet.
SelectRow(i) == selected' = Row(i) /\ picked' = packets[i]

\* The row of a packet is clicked.
SelectPacket(i) == selected' = i /\ picked' = packets[i]

\* show_rows of the rows in view, one of them clicked at most.
Rows ==
  /\ phase = "rows"
  /\ \E first \in 1..(Cardinality(filtered) + 1), last \in 0..Cardinality(filtered) :
       LET view == {i \in filtered : Row(i) \in first..last}
       IN IF \A i \in view : RowDrawn(i)
          THEN /\ phase' = "idle"
               /\ \/ \E i \in view : SelectPacket(i)
                  \/ UNCHANGED <<selected, picked>>
          ELSE phase' = "panicked" /\ UNCHANGED <<selected, picked>>
  /\ filtered' = {}
  /\ UNCHANGED <<hooked, channel, arrived, dropped, packets, filter, registry, cleared>>

Next == Arrive \/ Incoming \/ NoneIncoming \/ Toolbar \/ Filter \/ Rows

Spec == Init /\ [][Next]_vars

-----------------------------------------------------------------------------
Entry == [capture : 1..Len(arrived), part : Nat, service : Services \cup {0},
          decoded : {"none", "named", "unknown"}]

TypeOK ==
  /\ hooked \in BOOLEAN /\ (~hooked => channel = <<>>)
  /\ Len(arrived) <= MaxCaptures /\ \A n \in DOMAIN arrived : arrived[n] \in Captures
  /\ ToSet(channel) \cup dropped \subseteq DOMAIN arrived
  /\ \A i \in DOMAIN packets : packets[i] \in Entry
  /\ selected \in 0..Len(packets)
  /\ filter \in [text : Services \cup {0}, service : Services \cup {0}]
  /\ registry \subseteq Services
  /\ filtered \subseteq Nat
  /\ phase \in {"idle", "toolbar", "filter", "rows", "panicked"}
  /\ cleared \in 0..Len(arrived)

\* The packet in the detail panel is the one that was clicked, whatever arrived, was
\* filtered or cleared since, and whichever row it was in.
SelectionDenotes == selected # 0 => selected \in DOMAIN packets /\ packets[selected] = picked

\* Everything since the last Clear that no Stop dropped is listed once: each capture in the
\* order of arrival, and before the messages it completes, in their order.
Places(n) == (IF arrived[n].plaintext THEN {} ELSE {0}) \cup DOMAIN arrived[n].messages

Expected ==
  UNION { {n} \X Places(n) :
            n \in ((cleared + 1)..Len(arrived)) \ (dropped \cup ToSet(channel)) }

Before(q, r) == q[1] < r[1] \/ (q[1] = r[1] /\ q[2] < r[2])

ListedOnceInOrder ==
  LET place(i) == <<packets[i].capture, packets[i].part>>
  IN /\ {place(i) : i \in DOMAIN packets} = Expected
     /\ \A i, j \in DOMAIN packets : i < j => Before(place(i), place(j))

\* "pipes captured messages to an external GUI for live viewing" (README.md:3): a repaint that
\* panics ends the window, and the capture with it.  It does so for one cause, a name of a
\* listed entry with a character across the place where truncate_str cuts it (gui.rs:499):
\* never for an index, and never because a schema of an entry is gone.
PanicsInNamesOnly ==
  phase = "panicked" => \E i \in FilteredIndices : ~NamesFit(packets[i])

=============================================================================
