------------------------------- MODULE MCWindow -------------------------------
(***************************************************************************)
(* What the window's thread makes of the captures: the decoder             *)
(* (KinpDecoder) and the packet list (PacketList).  They share no state:   *)
(* each is run with the other as it began.                                 *)
(***************************************************************************)
EXTENDS Naturals, SequencesExt

CONSTANTS Sockets, Wire, Payloads, FrameEnd, Fields, Services, MaxSent, MaxStreams,
          ListServices, ServiceName, MessageName, Captures, MaxCaptures

VARIABLES streams, raw, messages, pos, split, sent,
          hooked, channel, arrived, dropped, packets, selected, picked, filter, registry,
          filtered, phase, cleared

decoderVars == <<streams, raw, messages, pos, split, sent>>
listVars == <<hooked, channel, arrived, dropped, packets, selected, picked, filter, registry,
              filtered, phase, cleared>>

Kinp == INSTANCE KinpDecoder
List == INSTANCE PacketList WITH Services <- ListServices

ASSUME WindowAssumption == Kinp!StreamAssumption /\ List!ListAssumption

DecoderStep == List!Init /\ Kinp!Next /\ UNCHANGED listVars
ListStep == Kinp!Init /\ List!Next /\ UNCHANGED decoderVars

WindowInit == Kinp!Init /\ List!Init

WindowSpec == WindowInit /\ [][DecoderStep \/ ListStep]_<<decoderVars, listVars>>

-----------------------------------------------------------------------------
\* The types of both.
TypesOK == Kinp!TypeOK /\ List!TypeOK

\* See KinpDecoder.
AlignedStreamDecoded == Kinp!AlignedStreamDecoded
ResynchronisesOnFrame == Kinp!ResynchronisesOnFrame
PlaintextRoundTrip == Kinp!PlaintextRoundTrip

\* See PacketList.
SelectionDenotes == List!SelectionDenotes
ListedOnceInOrder == List!ListedOnceInOrder
PanicsInNamesOnly == List!PanicsInNamesOnly

-----------------------------------------------------------------------------
\* A stream captured from its start, one met in the middle of a frame ("late": what is left
\* of the frame that was under way), and one behind the start of a frame that never ends
\* ("stale"; its length claims the first frame and the first byte of the second).
MCJunk == [aligned |-> <<>>, late |-> <<7, 0, 0, 13>>, stale |-> <<13, 240, 8, 0, 9>>]

\* Payloads too short, empty, control, and one that looks like a frame.
MCPayloads ==
  [aligned |-> << <<9>>, <<0, 0, 13, 240, 0, 0>>, <<>> >>,
   late |-> << <<1, 3>>, <<>>, <<9>> >>,
   stale |-> << <<1, 3>>, <<2>>, <<9>> >>]

\* The bytes of a stream are what is before its frames and the frames, all short ones.
MCFrame(payload) == <<13, 240, Len(payload), 0>> \o payload
MCFrames(s, n) == FlattenSeq([i \in 1..n |-> MCFrame(MCPayloads[s][i])])
MCWire == [s \in Sockets |-> MCJunk[s] \o MCFrames(s, Len(MCPayloads[s]))]
MCFrameEnd ==
  [s \in Sockets |-> [n \in 0..Len(MCPayloads[s]) |-> Len(MCJunk[s] \o MCFrames(s, n))]]

MCFields == { <<1>>, <<13, 240, 0, 0>> }

\* Service ids below, in and above the range of DML services.
MCServices == {0, 5, 100}

\* Two services of the list, with names longer than their column: one is cut between two
\* characters, the other inside one.
Ascii(n) == [i \in 1..n |-> 1]
CutNames == [s \in ListServices |-> Ascii(IF s = 5 THEN 11 ELSE 10) \o <<2, 2>>]
CutMessages == [s \in ListServices |-> Ascii(19)]

SomeCaptures ==
  { [plaintext |-> FALSE, messages |-> << [type |-> "other", service |-> 5],
                                         [type |-> "bare", service |-> 7] >>],
    [plaintext |-> TRUE, messages |-> << [type |-> "dml", service |-> 5] >>] }

=============================================================================
