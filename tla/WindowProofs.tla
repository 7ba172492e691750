----------------------------- MODULE WindowProofs -----------------------------
(***************************************************************************)
(* Theorems about what the window makes of the captures, for any streams,  *)
(* messages, schemas and captures: of the packet list (ListInv) and of the *)
(* KINP decoder (KinpInv) as MCWindow puts them together, and of the       *)
(* decoder of a message's fields, DmlDecode (IInv, StringsInv, ValuesInv). *)
(***************************************************************************)
EXTENDS MCWindow, DmlDecode, TLAPS, WellFoundedInduction, FiniteSetTheorems

-----------------------------------------------------------------------------
\* Sequences.

LEMMA Element == ASSUME NEW S, NEW s \in Seq(S), NEW k \in 1..Len(s) PROVE s[k] \in S
OBVIOUS

LEMMA Appended ==
  ASSUME NEW S, NEW s \in Seq(S), NEW x \in S
  PROVE  /\ Append(s, x) \in Seq(S) /\ Len(Append(s, x)) = Len(s) + 1
         /\ Append(s, x)[Len(s) + 1] = x
         /\ DOMAIN Append(s, x) = 1..(Len(s) + 1)
         /\ \A k \in 1..Len(s) : Append(s, x)[k] = s[k]
OBVIOUS

LEMMA Joined ==
  ASSUME NEW S, NEW a \in Seq(S), NEW b \in Seq(S)
  PROVE  /\ a \o b \in Seq(S) /\ Len(a \o b) = Len(a) + Len(b)
         /\ \A k \in 1..Len(a) : (a \o b)[k] = a[k]
OBVIOUS

LEMMA JoinedAt ==
  ASSUME NEW S, NEW a \in Seq(S), NEW b \in Seq(S)
  PROVE  \A k \in 1..Len(b) : (a \o b)[Len(a) + k] = b[k]
<1> TAKE k \in 1..Len(b)
<1>1. Len(a) \in Nat /\ Len(b) \in Nat
  OBVIOUS
<1>2. /\ Len(a) + k \in 1..(Len(a) + Len(b)) /\ ~(Len(a) + k <= Len(a))
      /\ Len(a) + k - Len(a) = k
  BY <1>1
<1> QED BY <1>1, <1>2

LEMMA Behind ==
  ASSUME NEW S, NEW s \in Seq(S), s # <<>>
  PROVE  /\ Tail(s) \in Seq(S) /\ Len(s) \in Nat /\ Len(s) > 0
         /\ Len(Tail(s)) = Len(s) - 1 /\ s[1] \in S
         /\ \A k \in 1..(Len(s) - 1) : Tail(s)[k] = s[k + 1]
OBVIOUS

LEMMA Part ==
  ASSUME NEW S, NEW s \in Seq(S), NEW m \in 1..(Len(s) + 1), NEW n \in (m - 1)..Len(s)
  PROVE  /\ SubSeq(s, m, n) \in Seq(S) /\ Len(SubSeq(s, m, n)) = n - m + 1
         /\ \A k \in 1..(n - m + 1) : SubSeq(s, m, n)[k] = s[m + k - 1]
OBVIOUS

LEMMA SameSequences ==
  ASSUME NEW S, NEW a \in Seq(S), NEW b \in Seq(S), Len(a) = Len(b),
         \A k \in 1..Len(a) : a[k] = b[k]
  PROVE  a = b
OBVIOUS

-----------------------------------------------------------------------------
(***************************************************************************)
(* The packet list.                                                        *)
(***************************************************************************)

\* The captures taken from the channel, or gone with a receiver.
Taken == Len(arrived) - Len(channel)

\* An entry, whatever has arrived.
AnyEntry ==
  [capture : Nat, part : Nat, service : ListServices \cup {0},
   decoded : {"none", "named", "unknown"}]

ListTypes ==
  /\ hooked \in BOOLEAN
  /\ arrived \in Seq(Captures) /\ Len(arrived) <= MaxCaptures
  /\ channel \in Seq(Nat) /\ packets \in Seq(AnyEntry)
  /\ filter \in [text : ListServices \cup {0}, service : ListServices \cup {0}]
  /\ registry \subseteq ListServices
  /\ phase \in {"idle", "toolbar", "filter", "rows", "panicked"}
  /\ selected \in 0..Len(packets) /\ (selected > 0 => packets[selected] = picked)

\* Captures are numbered as they arrive, and taken from the channel in that order.
InNumbers ==
  /\ Len(channel) <= Len(arrived) /\ (~hooked => channel = <<>>)
  /\ \A k \in 1..Len(channel) : channel[k] = Taken + k
  /\ dropped \subseteq 1..Taken /\ cleared \in 0..Taken

\* The entries are of captures taken; the schemas that decoded one are still there.
EntriesTaken ==
  \A k \in 1..Len(packets) :
    /\ packets[k].capture \in 1..Taken
    /\ packets[k].decoded = "named" => packets[k].service \in registry

\* The filter is of the list as it is when the rows are drawn.
FilteredFresh == filtered = IF phase = "rows" THEN List!FilteredIndices ELSE {}

Place(e) == <<e.capture, e.part>>

\* The captures whose entries the list has: what came behind the last Clear and Stop left.
Kept == ((cleared + 1)..Taken) \ dropped

\* ListedOnceInOrder, by the captures taken.
Listed ==
  /\ \A k \in 1..Len(packets) :
       \E n \in Kept : packets[k].capture = n /\ packets[k].part \in List!Places(n)
  /\ \A n \in Kept : \A p \in List!Places(n) :
       \E k \in 1..Len(packets) : Place(packets[k]) = <<n, p>>
  /\ \A j, k \in 1..Len(packets) : j < k => List!Before(Place(packets[j]), Place(packets[k]))

ListInv == ListTypes /\ InNumbers /\ EntriesTaken /\ FilteredFresh /\ Listed

LEMMA TheList == List!ListAssumption
BY WindowAssumption

LEMMA TakenCounts == ASSUME ListTypes, InNumbers PROVE Taken \in 0..Len(arrived)
<1>1. Len(arrived) \in Nat /\ Len(channel) \in Nat /\ Len(channel) <= Len(arrived)
  BY DEF ListTypes, InNumbers
<1> QED BY <1>1 DEF Taken

LEMMA CaptureTypes ==
  ASSUME ListTypes, NEW n \in 1..Len(arrived)
  PROVE  /\ arrived[n] \in Captures /\ arrived[n].plaintext \in BOOLEAN
         /\ arrived[n].messages \in Seq(List!Kind)
<1>1. arrived[n] \in Captures
  BY Element DEF ListTypes
<1>2. arrived[n] \in List!CaptureType
  BY <1>1, TheList DEF List!ListAssumption
<1> QED BY <1>1, <1>2 DEF List!CaptureType

LEMMA MessageEntryType ==
  ASSUME ListTypes, NEW n \in 1..Len(arrived), NEW p \in 1..Len(arrived[n].messages)
  PROVE  /\ List!MessageEntry(n, p) \in AnyEntry
         /\ Place(List!MessageEntry(n, p)) = <<n, p>>
         /\ List!MessageEntry(n, p).capture = n /\ List!MessageEntry(n, p).part = p
         /\ List!MessageEntry(n, p).decoded = "named"
              => List!MessageEntry(n, p).service \in registry
<1> DEFINE k == arrived[n].messages[p]
           service == IF k.type = "other" THEN 0 ELSE k.service
           decoded == List!Decoded(k)
<1>1. k \in List!Kind
  BY CaptureTypes, Element
<1>2. k.type \in {"dml", "bare", "other"} /\ k.service \in ListServices
  BY <1>1 DEF List!Kind
<1>3. decoded \in {"none", "named", "unknown"} /\ (decoded = "named" => service \in registry)
  BY <1>2 DEF List!Decoded
<1>4. service \in ListServices \cup {0}
  BY <1>2
<1>5. List!MessageEntry(n, p)
        = [capture |-> n, part |-> p, service |-> service, decoded |-> decoded]
  BY DEF List!MessageEntry
<1>6. n \in Nat /\ p \in Nat
  <2>1. Len(arrived) \in Nat /\ Len(arrived[n].messages) \in Nat
    BY CaptureTypes DEF ListTypes
  <2> QED BY <2>1
<1> HIDE DEF service, decoded
<1> QED BY <1>3, <1>4, <1>5, <1>6 DEF AnyEntry, Place

\* The entries of a capture have its places, in order.
LEMMA EntriesOfCapture ==
  ASSUME ListTypes, NEW n \in 1..Len(arrived)
  PROVE  LET e == List!Entries(n)
         IN /\ e \in Seq(AnyEntry)
            /\ \A k \in 1..Len(e) :
                 /\ e[k].capture = n /\ e[k].part \in List!Places(n)
                 /\ e[k].decoded = "named" => e[k].service \in registry
            /\ \A p \in List!Places(n) : \E k \in 1..Len(e) : Place(e[k]) = <<n, p>>
            /\ \A j, k \in 1..Len(e) : j < k => List!Before(Place(e[j]), Place(e[k]))
<1> DEFINE a == arrived[n]
           L == Len(a.messages)
           m == [p \in 1..L |-> List!MessageEntry(n, p)]
           e == List!Entries(n)
<1>1. L \in Nat /\ DOMAIN a.messages = 1..L /\ a.plaintext \in BOOLEAN /\ n \in Nat
  BY CaptureTypes DEF ListTypes
<1>2. \A p \in 1..L :
        /\ m[p] \in AnyEntry /\ Place(m[p]) = <<n, p>> /\ m[p].capture = n /\ m[p].part = p
        /\ m[p].decoded = "named" => m[p].service \in registry
  <2> TAKE p \in 1..L
  <2>1. m[p] = List!MessageEntry(n, p)
    OBVIOUS
  <2> HIDE DEF m
  <2> QED BY <2>1, MessageEntryType
<1>3. m \in Seq(AnyEntry) /\ Len(m) = L
  <2>1. m \in [1..L -> AnyEntry]
    BY <1>2
  <2> HIDE DEF m
  <2> QED BY <2>1, <1>1
<1>4. List!Places(n) = (IF a.plaintext THEN {} ELSE {0}) \cup 1..L
  BY <1>1 DEF List!Places
<1>5. e = (IF a.plaintext THEN <<>> ELSE <<List!Raw(n)>>) \o m
  BY <1>1 DEF List!Entries
<1> HIDE DEF m, e, L
<1>6. CASE a.plaintext
  <2>1. e = m
    <3>1. e = <<>> \o m
      BY <1>5, <1>6
    <3> QED BY <3>1, <1>3
  <2>2. \A p \in 1..L : Place(m[p]) = <<n, p>> /\ m[p].part \in 1..L
    BY <1>2
  <2>3. \A j, k \in 1..L : j < k => List!Before(Place(m[j]), Place(m[k]))
    <3> SUFFICES ASSUME NEW j \in 1..L, NEW k \in 1..L, j < k
                 PROVE  List!Before(Place(m[j]), Place(m[k]))
      OBVIOUS
    <3>1. Place(m[j]) = <<n, j>> /\ Place(m[k]) = <<n, k>>
      BY <1>2
    <3> QED BY <3>1 DEF List!Before
  <2>4. List!Places(n) = 1..L
    BY <1>4, <1>6
  <2> QED BY <1>2, <1>3, <2>1, <2>2, <2>3, <2>4 DEF e
<1>7. CASE ~a.plaintext
  <2> DEFINE r == <<List!Raw(n)>>
  <2>1. /\ List!Raw(n) \in AnyEntry /\ Place(List!Raw(n)) = <<n, 0>>
        /\ List!Raw(n).capture = n /\ List!Raw(n).part = 0 /\ List!Raw(n).decoded # "named"
    BY <1>1 DEF List!Raw, AnyEntry, Place
  <2>2. r \in Seq(AnyEntry) /\ Len(r) = 1 /\ r[1] = List!Raw(n)
    BY <2>1
  <2>3. e = r \o m
    BY <1>5, <1>7
  <2> HIDE DEF r
  <2>4. /\ e \in Seq(AnyEntry) /\ Len(e) = 1 + L /\ e[1] = List!Raw(n)
        /\ \A k \in 1..L : e[1 + k] = m[k]
    <3>1. /\ r \o m \in Seq(AnyEntry) /\ Len(r \o m) = Len(r) + Len(m)
          /\ \A k \in 1..Len(r) : (r \o m)[k] = r[k]
          /\ \A k \in 1..Len(m) : (r \o m)[Len(r) + k] = m[k]
      <4>1. r \in Seq(AnyEntry) /\ m \in Seq(AnyEntry)
        BY <1>3, <2>2
      <4> HIDE DEF AnyEntry
      <4>2. r \o m \in Seq(AnyEntry) /\ Len(r \o m) = Len(r) + Len(m)
        BY ONLY <4>1, Joined
      <4>3. \A k \in 1..Len(r) : (r \o m)[k] = r[k]
        BY ONLY <4>1, Joined
      <4>4. \A k \in 1..Len(m) : (r \o m)[Len(r) + k] = m[k]
        BY ONLY <4>1
      <4> QED BY <4>2, <4>3, <4>4
    <3> QED BY <3>1, <2>2, <2>3, <1>3
  <2>5. \A k \in 1..(1 + L) :
          /\ Place(e[k]) = <<n, k - 1>> /\ e[k].capture = n /\ e[k].part \in 0..L
          /\ e[k].decoded = "named" => e[k].service \in registry
    <3> TAKE k \in 1..(1 + L)
    <3>1. CASE k = 1
      BY <3>1, <2>1, <2>4, <1>1
    <3>2. CASE k # 1
      <4>1. k - 1 \in 1..L /\ e[k] = m[k - 1]
        BY <3>2, <2>4, <1>1
      <4> QED BY <4>1, <1>2
    <3> QED BY <3>1, <3>2
  <2>6. List!Places(n) = 0..L
    BY <1>4, <1>7, <1>1
  <2>7. \A p \in 0..L : p + 1 \in 1..(1 + L) /\ Place(e[p + 1]) = <<n, p>>
    <3> TAKE p \in 0..L
    <3>1. p + 1 \in 1..(1 + L) /\ (p + 1) - 1 = p
      BY <1>1
    <3> QED BY <3>1, <2>5
  <2>8. \A j, k \in 1..(1 + L) : j < k => List!Before(Place(e[j]), Place(e[k]))
    <3> SUFFICES ASSUME NEW j \in 1..(1 + L), NEW k \in 1..(1 + L), j < k
                 PROVE  List!Before(Place(e[j]), Place(e[k]))
      OBVIOUS
    <3>1. Place(e[j]) = <<n, j - 1>> /\ Place(e[k]) = <<n, k - 1>>
      BY <2>5
    <3>2. j - 1 < k - 1
      BY <1>1
    <3> QED BY <3>1, <3>2 DEF List!Before
  <2> QED BY <2>4, <2>5, <2>6, <2>7, <2>8 DEF e
<1> QED BY <1>1, <1>6, <1>7

LEMMA ListStarts == List!Init => ListInv
<1> SUFFICES ASSUME List!Init PROVE ListInv
  OBVIOUS
<1>1. /\ hooked = FALSE /\ channel = <<>> /\ arrived = <<>> /\ dropped = {} /\ packets = <<>>
      /\ selected = 0 /\ filter = [text |-> 0, service |-> 0] /\ registry = {}
      /\ filtered = {} /\ phase = "idle" /\ cleared = 0
  BY DEF List!Init, List!NoFilter
<1>2. Len(arrived) = 0 /\ Len(channel) = 0 /\ Len(packets) = 0 /\ Taken = 0 /\ MaxCaptures \in Nat
  BY <1>1, TheList DEF Taken, List!ListAssumption
<1>3. ListTypes
  <2>1. arrived \in Seq(Captures) /\ channel \in Seq(Nat) /\ packets \in Seq(AnyEntry)
    BY <1>1
  <2>2. filter \in [text : ListServices \cup {0}, service : ListServices \cup {0}]
    BY <1>1
  <2>3. selected \in 0..Len(packets) /\ ~(selected > 0)
    BY <1>1, <1>2
  <2>4. hooked \in BOOLEAN
    BY <1>1, Zenon
  <2>5. /\ Len(arrived) <= MaxCaptures /\ registry \subseteq ListServices
        /\ phase \in {"idle", "toolbar", "filter", "rows", "panicked"}
    BY <1>1, <1>2
  <2> QED BY <2>1, <2>2, <2>3, <2>4, <2>5 DEF ListTypes
<1>4. Listed
  <2>1. Kept = {} /\ 1..Len(packets) = {}
    BY <1>1, <1>2 DEF Kept
  <2> QED BY <2>1 DEF Listed
<1>5. InNumbers /\ EntriesTaken /\ FilteredFresh
  BY <1>1, <1>2 DEF InNumbers, EntriesTaken, FilteredFresh
<1> QED BY <1>3, <1>4, <1>5 DEF ListInv

\* The places of a capture taken stay what they are.
LEMMA SamePlaces ==
  ASSUME ListTypes, NEW c \in Captures, arrived' = Append(arrived, c) \/ arrived' = arrived
  PROVE  /\ arrived' \in Seq(Captures) /\ Len(arrived') >= Len(arrived)
         /\ \A n \in 1..Len(arrived) :
              arrived'[n] = arrived[n] /\ List!Places(n)' = List!Places(n)
<1>1. arrived \in Seq(Captures) /\ Len(arrived) \in Nat
  BY DEF ListTypes
<1>2. /\ arrived' \in Seq(Captures) /\ Len(arrived') >= Len(arrived)
      /\ \A n \in 1..Len(arrived) : arrived'[n] = arrived[n]
  BY <1>1
<1> QED BY <1>2 DEF List!Places

LEMMA ArriveInv == ListInv /\ List!Arrive => ListInv'
<1> SUFFICES ASSUME ListInv, List!Arrive PROVE ListInv'
  OBVIOUS
<1> USE DEF ListInv
<1>1. PICK c \in Captures :
        /\ hooked /\ Len(arrived) < MaxCaptures
        /\ arrived' = Append(arrived, c) /\ channel' = Append(channel, Len(arrived'))
        /\ UNCHANGED <<hooked, dropped, packets, selected, picked, filter, registry, filtered,
                       phase, cleared>>
  BY DEF List!Arrive
<1>2. /\ arrived' \in Seq(Captures) /\ Len(arrived') = Len(arrived) + 1 /\ Len(arrived) \in Nat
      /\ MaxCaptures \in Nat
  BY <1>1, TheList DEF ListTypes, List!ListAssumption
<1>3. /\ channel' \in Seq(Nat) /\ Len(channel') = Len(channel) + 1 /\ Len(channel) \in Nat
      /\ channel'[Len(channel) + 1] = Len(arrived) + 1
      /\ \A k \in 1..Len(channel) : channel'[k] = channel[k]
  BY <1>1, <1>2 DEF ListTypes
<1>4. Taken' = Taken /\ Taken \in Nat /\ Taken + Len(channel) = Len(arrived)
      /\ Taken \in 0..Len(arrived)
  BY <1>2, <1>3 DEF Taken, InNumbers
<1>5. ListTypes'
  <2>1. Len(arrived') <= MaxCaptures
    BY <1>1, <1>2
  <2> QED BY <1>1, <1>2, <1>3, <2>1 DEF ListTypes
<1>6. InNumbers'
  <2>1. \A k \in 1..(Len(channel) + 1) : channel'[k] = Taken + k
    BY <1>3, <1>4 DEF InNumbers
  <2> QED BY <1>1, <1>2, <1>3, <1>4, <2>1 DEF InNumbers
<1>7. EntriesTaken' /\ FilteredFresh'
  BY <1>1, <1>4 DEF EntriesTaken, FilteredFresh, List!FilteredIndices, List!Matches
<1>8. Listed'
  <2>1. Kept' = Kept
    BY <1>1, <1>4 DEF Kept
  <2>2. \A n \in Kept : List!Places(n)' = List!Places(n)
    <3> TAKE n \in Kept
    <3>1. n \in 1..Len(arrived)
      BY <1>4 DEF InNumbers, Kept
    <3> QED BY <3>1, <1>1, SamePlaces
  <2>3. ASSUME NEW k \in 1..Len(packets)
        PROVE  \E n \in Kept : packets[k].capture = n /\ packets[k].part \in List!Places(n)'
    BY <2>2 DEF Listed
  <2>4. ASSUME NEW n \in Kept, NEW p \in List!Places(n)'
        PROVE  \E k \in 1..Len(packets) : Place(packets[k]) = <<n, p>>
    BY <2>2 DEF Listed
  <2>5. \A j, k \in 1..Len(packets) : j < k => List!Before(Place(packets[j]), Place(packets[k]))
    BY DEF Listed
  <2> QED BY <1>1, <2>1, <2>3, <2>4, <2>5 DEF Listed, Place, List!Before
<1> QED BY <1>5, <1>6, <1>7, <1>8

\* The next capture's entries come behind those of the captures taken before.
LEMMA IncomingInv == ListInv /\ List!Incoming => ListInv'
<1> SUFFICES ASSUME ListInv, List!Incoming PROVE ListInv'
  OBVIOUS
<1> USE DEF ListInv
<1> DEFINE n == channel[1]
           e == List!Entries(n)
<1>1. /\ phase = "idle" /\ channel # <<>>
      /\ packets' = packets \o e /\ channel' = Tail(channel)
      /\ UNCHANGED <<hooked, arrived, dropped, selected, picked, filter, registry, filtered,
                     phase, cleared>>
  BY DEF List!Incoming
<1>2. /\ Len(channel) \in Nat /\ Len(channel) > 0 /\ channel' \in Seq(Nat)
      /\ Len(channel') = Len(channel) - 1
      /\ \A k \in 1..(Len(channel) - 1) : channel'[k] = channel[k + 1]
  <2>1. channel \in Seq(Nat)
    BY DEF ListTypes
  <2> QED BY <1>1, <2>1, Behind
<1>3. Len(arrived) \in Nat /\ Len(packets) \in Nat /\ packets \in Seq(AnyEntry)
  BY DEF ListTypes
<1>4. Taken' = Taken + 1 /\ Taken \in Nat /\ n = Taken + 1 /\ n \in 1..Len(arrived)
  <2>1. Taken' = Taken + 1 /\ Taken \in Nat /\ Taken + Len(channel) = Len(arrived)
    BY <1>1, <1>2, <1>3 DEF Taken, InNumbers
  <2>2. 1 \in 1..Len(channel)
    BY <1>2
  <2>3. n = Taken + 1
    BY <2>2 DEF InNumbers
  <2> QED BY <1>2, <1>3, <2>1, <2>3
<1>5. /\ e \in Seq(AnyEntry) /\ Len(e) \in Nat
      /\ \A k \in 1..Len(e) :
           /\ e[k].capture = n /\ e[k].part \in List!Places(n)
           /\ e[k].decoded = "named" => e[k].service \in registry
      /\ \A p \in List!Places(n) : \E k \in 1..Len(e) : Place(e[k]) = <<n, p>>
      /\ \A j, k \in 1..Len(e) : j < k => List!Before(Place(e[j]), Place(e[k]))
  BY <1>4, EntriesOfCapture, SMTT(30)
<1> HIDE DEF e
<1>6. /\ packets' \in Seq(AnyEntry) /\ Len(packets') = Len(packets) + Len(e)
      /\ \A k \in 1..Len(packets) : packets'[k] = packets[k]
  BY <1>1, <1>3, <1>5, Joined
<1>7. \A k \in 1..Len(e) : packets'[Len(packets) + k] = e[k]
  <2>1. e \in Seq(AnyEntry) /\ packets \in Seq(AnyEntry) /\ packets' = packets \o e
    BY <1>1, <1>3, <1>5
  <2> QED BY ONLY <2>1
<1>8. \A k \in 1..Len(packets') : k \in 1..Len(packets) \/ k - Len(packets) \in 1..Len(e)
  BY <1>3, <1>5, <1>6
<1>9. ListTypes'
  <2>1. selected \in 0..Len(packets') /\ (selected > 0 => packets'[selected] = picked)
    BY <1>3, <1>5, <1>6 DEF ListTypes
  <2> QED BY <1>1, <1>2, <1>6, <2>1 DEF ListTypes
<1>10. InNumbers'
  <2>1. \A k \in 1..(Len(channel) - 1) : channel'[k] = Taken + 1 + k
    <3> TAKE k \in 1..(Len(channel) - 1)
    <3>1. k + 1 \in 1..Len(channel)
      BY <1>2
    <3> QED BY <3>1, <1>2, <1>4 DEF InNumbers
  <2>2. hooked /\ Len(channel') <= Len(arrived)
    BY <1>1, <1>2, <1>3 DEF InNumbers
  <2>3. dropped \subseteq 1..(Taken + 1) /\ cleared \in 0..(Taken + 1)
    BY <1>4 DEF InNumbers
  <2> QED BY <1>1, <1>2, <1>4, <2>1, <2>2, <2>3 DEF InNumbers
<1>11. EntriesTaken'
  <2> SUFFICES ASSUME NEW k \in 1..Len(packets')
               PROVE  /\ packets'[k].capture \in 1..(Taken + 1)
                      /\ packets'[k].decoded = "named" => packets'[k].service \in registry
    BY <1>1, <1>4 DEF EntriesTaken
  <2>1. CASE k \in 1..Len(packets)
    BY <2>1, <1>4, <1>6, SMTT(30) DEF EntriesTaken
  <2>2. CASE k - Len(packets) \in 1..Len(e)
    <3>1. packets'[k] = e[k - Len(packets)]
      BY <2>2, <1>7, <1>3, <1>6, SMTT(30)
    <3> QED BY <3>1, <2>2, <1>4, <1>5, SMTT(30)
  <2> QED BY <2>1, <2>2, <1>8
<1>12. FilteredFresh'
  BY <1>1 DEF FilteredFresh
<1>13. Listed'
  <2>1. \A m \in Nat : List!Places(m)' = List!Places(m)
    BY <1>1 DEF List!Places
  <2>2. Kept' = Kept \cup {n} /\ Kept' \subseteq Nat
    <3>1. cleared \in Nat /\ cleared <= Taken /\ n \notin dropped
      BY <1>4 DEF InNumbers
    <3> QED BY <3>1, <1>1, <1>4 DEF Kept
  <2>3. ASSUME NEW k \in 1..Len(packets')
        PROVE  \E m \in Kept' : packets'[k].capture = m /\ packets'[k].part \in List!Places(m)'
    <3>1. CASE k \in 1..Len(packets)
      <4>1. /\ packets'[k] = packets[k]
            /\ \E m \in Kept : packets[k].capture = m /\ packets[k].part \in List!Places(m)
        BY <3>1, <1>6 DEF Listed
      <4> QED BY <4>1, <2>1, <2>2
    <3>2. CASE k - Len(packets) \in 1..Len(e)
      <4>1. packets'[k] = e[k - Len(packets)]
        BY <3>2, <1>7, <1>3, <1>6, SMTT(30)
      <4> QED BY <4>1, <3>2, <1>5, <2>1, <2>2
    <3> QED BY <3>1, <3>2, <1>8
  <2>4. ASSUME NEW m \in Kept', NEW p \in List!Places(m)'
        PROVE  \E k \in 1..Len(packets') : Place(packets'[k]) = <<m, p>>
    <3>1. p \in List!Places(m)
      BY <2>1, <2>2
    <3>2. CASE m \in Kept
      <4>1. PICK k \in 1..Len(packets) : Place(packets[k]) = <<m, p>>
        BY <3>1, <3>2 DEF Listed
      <4>2. k \in 1..Len(packets') /\ packets'[k] = packets[k]
        BY <1>3, <1>5, <1>6
      <4> QED BY <4>1, <4>2
    <3>3. CASE m = n
      <4>1. PICK k \in 1..Len(e) : Place(e[k]) = <<m, p>>
        BY <3>1, <3>3, <1>5
      <4>2. Len(packets) + k \in 1..Len(packets') /\ packets'[Len(packets) + k] = e[k]
        BY <1>3, <1>5, <1>6, <1>7
      <4> QED BY <4>1, <4>2
    <3> QED BY <3>2, <3>3, <2>2
  <2>5. ASSUME NEW j \in 1..Len(packets'), NEW k \in 1..Len(packets'), j < k
        PROVE  List!Before(Place(packets'[j]), Place(packets'[k]))
    <3>1. CASE j \in 1..Len(packets) /\ k \in 1..Len(packets)
      BY <3>1, <2>5, <1>6 DEF Listed
    <3>2. CASE j \in 1..Len(packets) /\ k - Len(packets) \in 1..Len(e)
      <4>1. packets'[j] = packets[j] /\ packets'[k] = e[k - Len(packets)]
        BY <3>2, <1>3, <1>6, <1>7
      <4>2. packets[j].capture \in 1..Taken /\ e[k - Len(packets)].capture = n
        BY <3>2, <1>5 DEF EntriesTaken
      <4>3. packets[j].capture < n
        BY <4>2, <1>4
      <4> QED BY <4>1, <4>2, <4>3 DEF Place, List!Before
    <3>3. CASE j - Len(packets) \in 1..Len(e) /\ k - Len(packets) \in 1..Len(e)
      <4>1. /\ packets'[Len(packets) + (j - Len(packets))] = e[j - Len(packets)]
            /\ packets'[Len(packets) + (k - Len(packets))] = e[k - Len(packets)]
            /\ Len(packets) + (j - Len(packets)) = j /\ Len(packets) + (k - Len(packets)) = k
        <5>1. Len(packets') \in Nat
          BY <1>3, <1>5, <1>6
        <5> QED BY <3>3, <1>3, <1>7, <5>1, SMTT(30)
      <4>2. j - Len(packets) < k - Len(packets)
        BY <2>5, <1>3, <1>6, <1>5
      <4> QED BY <4>1, <4>2, <3>3, <1>5
    <3>4. j \in 1..Len(packets) \/ k \notin 1..Len(packets)
      BY <2>5, <1>3, <1>5, <1>6
    <3> QED BY <3>1, <3>2, <3>3, <3>4, <1>8
  <2> QED BY <2>3, <2>4, <2>5 DEF Listed, Place, List!Before
<1> QED BY <1>9, <1>10, <1>11, <1>12, <1>13

\* Steps that leave the captures, the list and what was cleared alone.
LEMMA SameList ==
  ASSUME ListInv, UNCHANGED <<arrived, channel, dropped, packets, cleared>>
  PROVE  Taken' = Taken /\ Listed'
<1>1. Taken' = Taken /\ Kept' = Kept
  BY DEF Taken, Kept
<1>2. \A n \in Kept : List!Places(n)' = List!Places(n)
  BY DEF List!Places
<1>3. /\ \A k \in 1..Len(packets) :
           \E n \in Kept : packets[k].capture = n /\ packets[k].part \in List!Places(n)'
      /\ \A n \in Kept : \A p \in List!Places(n)' :
           \E k \in 1..Len(packets) : Place(packets[k]) = <<n, p>>
      /\ \A j, k \in 1..Len(packets) : j < k => List!Before(Place(packets[j]), Place(packets[k]))
  BY <1>2 DEF ListInv, Listed
<1> QED BY <1>1, <1>3 DEF Listed, Place, List!Before

LEMMA NoneIncomingInv == ListInv /\ List!NoneIncoming => ListInv'
<1> SUFFICES ASSUME ListInv, List!NoneIncoming PROVE ListInv'
  OBVIOUS
<1> USE DEF ListInv
<1>1. /\ phase = "idle" /\ phase' = "toolbar"
      /\ UNCHANGED <<hooked, channel, arrived, dropped, packets, selected, picked, filter,
                     registry, filtered, cleared>>
  BY DEF List!NoneIncoming
<1>2. Taken' = Taken /\ Listed'
  BY <1>1, SameList
<1>3. ListTypes'
  BY <1>1 DEF ListTypes
<1>4. InNumbers' /\ EntriesTaken' /\ FilteredFresh'
  BY <1>1, <1>2 DEF InNumbers, EntriesTaken, FilteredFresh
<1> QED BY <1>2, <1>3, <1>4

LEMMA FilterInv == ListInv /\ List!Filter => ListInv'
<1> SUFFICES ASSUME ListInv, List!Filter PROVE ListInv'
  OBVIOUS
<1> USE DEF ListInv
<1>1. /\ filtered' = List!FilteredIndices /\ phase' = "rows"
      /\ UNCHANGED <<hooked, channel, arrived, dropped, packets, selected, picked, filter,
                     registry, cleared>>
  BY DEF List!Filter
<1>2. Taken' = Taken /\ Listed'
  BY <1>1, SameList
<1>3. ListTypes'
  BY <1>1 DEF ListTypes
<1>4. InNumbers' /\ EntriesTaken'
  BY <1>1, <1>2 DEF InNumbers, EntriesTaken
<1>5. FilteredFresh'
  BY <1>1 DEF FilteredFresh, List!FilteredIndices, List!Matches
<1> QED BY <1>2, <1>3, <1>4, <1>5

\* Stop drops what waits in the channel.
LEMMA StopInv ==
  ASSUME ListInv, List!Stop, UNCHANGED <<arrived, filtered>>, phase = "toolbar", phase' = "filter"
  PROVE  ListInv'
<1> USE DEF ListInv
<1>1. /\ hooked /\ hooked' = FALSE
      /\ dropped' = dropped \cup List!ToSet(channel) /\ channel' = <<>>
      /\ UNCHANGED <<packets, selected, picked, filter, registry, cleared>>
  BY DEF List!Stop
<1>2. Len(arrived) \in Nat /\ Len(channel) \in Nat /\ Len(channel) <= Len(arrived)
      /\ Len(channel') = 0 /\ DOMAIN channel = 1..Len(channel)
  BY <1>1 DEF ListTypes, InNumbers
<1>3. Taken' = Len(arrived) /\ Taken + Len(channel) = Len(arrived) /\ Taken \in Nat
  BY <1>1, <1>2 DEF Taken
<1>4. List!ToSet(channel) = (Taken + 1)..Len(arrived)
  <2>1. \A k \in 1..Len(channel) : channel[k] = Taken + k
    BY DEF InNumbers
  <2>2. \A x \in (Taken + 1)..Len(arrived) : x - Taken \in 1..Len(channel) /\ Taken + (x - Taken) = x
    BY <1>2, <1>3
  <2>3. \A k \in 1..Len(channel) : Taken + k \in (Taken + 1)..Len(arrived)
    BY <1>2, <1>3
  <2>4. List!ToSet(channel) = {channel[k] : k \in 1..Len(channel)}
    BY <1>2 DEF List!ToSet
  <2> QED BY <2>1, <2>2, <2>3, <2>4
<1>5. ListTypes'
  <2>1. channel' \in Seq(Nat)
    BY <1>1
  <2>2. hooked' \in BOOLEAN
    BY <1>1, Zenon
  <2> QED BY <1>1, <2>1, <2>2 DEF ListTypes
<1>6. cleared \in 0..Taken /\ dropped \subseteq 1..Taken
  BY DEF InNumbers
<1>7. InNumbers'
  <2>1. dropped' \subseteq 1..Len(arrived) /\ cleared \in 0..Len(arrived)
    <3>1. 1..Taken \subseteq 1..Len(arrived) /\ (Taken + 1)..Len(arrived) \subseteq 1..Len(arrived)
      BY <1>2, <1>3
    <3>2. cleared \in 0..Len(arrived)
      BY <1>2, <1>3, <1>6
    <3> QED BY <1>1, <1>4, <1>6, <3>1, <3>2
  <2> QED BY <1>1, <1>2, <1>3, <2>1 DEF InNumbers
<1>8. EntriesTaken' /\ FilteredFresh'
  <2>1. 1..Taken \subseteq 1..Len(arrived)
    BY <1>2, <1>3
  <2> QED BY <1>1, <1>3, <2>1 DEF EntriesTaken, FilteredFresh
<1>9. Kept' = Kept
  BY <1>1, <1>2, <1>3, <1>4, <1>6 DEF Kept
<1>10. Listed'
  <2>1. \A n \in Kept : List!Places(n)' = List!Places(n)
    BY DEF List!Places
  <2>2. /\ \A k \in 1..Len(packets) :
             \E n \in Kept : packets[k].capture = n /\ packets[k].part \in List!Places(n)'
        /\ \A n \in Kept : \A p \in List!Places(n)' :
             \E k \in 1..Len(packets) : Place(packets[k]) = <<n, p>>
        /\ \A j, k \in 1..Len(packets) :
             j < k => List!Before(Place(packets[j]), Place(packets[k]))
    BY <2>1 DEF Listed
  <2> QED BY <1>1, <1>9, <2>2 DEF Listed, Place, List!Before
<1> QED BY <1>5, <1>7, <1>8, <1>10

LEMMA ClearInv ==
  ASSUME ListInv, List!Clear, UNCHANGED <<arrived, filtered>>, phase = "toolbar", phase' = "filter"
  PROVE  ListInv'
<1> USE DEF ListInv
<1>1. /\ packets' = <<>> /\ selected' = 0 /\ cleared' = Taken
      /\ UNCHANGED <<hooked, channel, dropped, filter, registry>>
  BY DEF List!Clear, Taken
<1>2. Taken' = Taken /\ Taken \in Nat /\ Len(packets') = 0 /\ packets' \in Seq(AnyEntry)
  BY <1>1, TakenCounts DEF Taken
<1>3. ListTypes'
  BY <1>1, <1>2 DEF ListTypes
<1>4. InNumbers'
  BY <1>1, <1>2 DEF InNumbers
<1>5. EntriesTaken' /\ FilteredFresh'
  BY <1>1, <1>2 DEF EntriesTaken, FilteredFresh
<1>6. Listed'
  <2>1. Kept' = {} /\ 1..Len(packets') = {}
    BY <1>1, <1>2 DEF Kept
  <2> QED BY <2>1 DEF Listed
<1> QED BY <1>3, <1>4, <1>5, <1>6

\* The other buttons and keys leave the list alone; a schema loaded stays.
LEMMA OtherClickInv ==
  ASSUME ListInv, UNCHANGED <<arrived, filtered, channel, dropped, packets, selected, picked, cleared>>,
         phase = "toolbar", phase' = "filter",
         hooked' \in BOOLEAN, hooked => hooked', registry \subseteq registry',
         registry' \subseteq ListServices,
         filter' \in [text : ListServices \cup {0}, service : ListServices \cup {0}]
  PROVE  ListInv'
<1> USE DEF ListInv
<1>1. Taken' = Taken /\ Listed'
  BY SameList
<1>2. ListTypes'
  BY DEF ListTypes
<1>3. InNumbers'
  BY <1>1 DEF InNumbers
<1>4. EntriesTaken' /\ FilteredFresh'
  BY <1>1 DEF EntriesTaken, FilteredFresh
<1> QED BY <1>1, <1>2, <1>3, <1>4

LEMMA ToolbarInv == ListInv /\ List!Toolbar => ListInv'
<1> SUFFICES ASSUME ListInv, List!Toolbar PROVE ListInv'
  OBVIOUS
<1>1. phase = "toolbar" /\ List!Click /\ phase' = "filter" /\ UNCHANGED <<arrived, filtered>>
  BY DEF List!Toolbar
<1>2. /\ hooked \in BOOLEAN /\ registry \subseteq ListServices
      /\ filter \in [text : ListServices \cup {0}, service : ListServices \cup {0}]
  BY DEF ListInv, ListTypes
<1>3. CASE List!Inject
  <2>1. ~hooked /\ hooked' = TRUE
        /\ UNCHANGED <<channel, dropped, packets, selected, picked, filter, registry, cleared>>
    BY <1>3 DEF List!Inject
  <2>2. hooked' \in BOOLEAN
    BY <2>1, Zenon
  <2> QED BY <1>1, <1>2, <2>1, <2>2, OtherClickInv
<1>4. CASE List!Stop
  BY <1>1, <1>4, StopInv
<1>5. CASE List!LoadSchemas
  <2>1. PICK s \in ListServices :
          /\ registry' = registry \cup {s}
          /\ UNCHANGED <<hooked, channel, dropped, packets, selected, picked, filter, cleared>>
    BY <1>5 DEF List!LoadSchemas
  <2> QED BY <1>1, <1>2, <2>1, OtherClickInv
<1>6. CASE List!Clear
  BY <1>1, <1>6, ClearInv
<1>7. CASE List!EditFilter
  <2>1. PICK s \in ListServices \cup {0} :
          /\ filter' \in {[filter EXCEPT !.text = s], [filter EXCEPT !.service = s]}
          /\ UNCHANGED <<hooked, channel, dropped, packets, selected, picked, registry, cleared>>
    BY <1>7 DEF List!EditFilter
  <2>2. filter' \in [text : ListServices \cup {0}, service : ListServices \cup {0}]
    BY <1>2, <2>1
  <2> QED BY <1>1, <1>2, <2>1, <2>2, OtherClickInv
<1>8. CASE List!NoClick
  <2>1. UNCHANGED <<hooked, channel, dropped, packets, selected, picked, filter, registry, cleared>>
    BY <1>8 DEF List!NoClick
  <2> QED BY <1>1, <1>2, <2>1, OtherClickInv
<1> QED BY <1>1, <1>3, <1>4, <1>5, <1>6, <1>7, <1>8 DEF List!Click

\* The rows drawn are of the list; the packet of the one clicked is selected.
LEMMA RowsInv == ListInv /\ List!Rows => ListInv'
<1> SUFFICES ASSUME ListInv, List!Rows PROVE ListInv'
  OBVIOUS
<1> USE DEF ListInv
<1>1. /\ phase = "rows" /\ filtered' = {} /\ phase' \in {"idle", "panicked"}
      /\ UNCHANGED <<hooked, channel, arrived, dropped, packets, filter, registry, cleared>>
  BY DEF List!Rows
<1>2. \/ UNCHANGED <<selected, picked>>
      \/ \E k \in filtered : selected' = k /\ picked' = packets[k]
  BY DEF List!Rows, List!SelectPacket
<1>3. Taken' = Taken /\ Listed'
  BY <1>1, SameList
<1>4. selected' \in 0..Len(packets) /\ (selected' > 0 => packets[selected'] = picked')
  <2>1. CASE UNCHANGED <<selected, picked>>
    BY <2>1 DEF ListTypes
  <2>2. CASE \E k \in filtered : selected' = k /\ picked' = packets[k]
    <3>1. filtered \subseteq 1..Len(packets)
      BY <1>1 DEF FilteredFresh, List!FilteredIndices, ListTypes
    <3>2. Len(packets) \in Nat
      BY DEF ListTypes
    <3> QED BY <2>2, <3>1, <3>2
  <2> QED BY <1>2, <2>1, <2>2
<1>5. ListTypes'
  BY <1>1, <1>4 DEF ListTypes
<1>6. InNumbers' /\ EntriesTaken' /\ FilteredFresh'
  BY <1>1, <1>3 DEF InNumbers, EntriesTaken, FilteredFresh
<1> QED BY <1>3, <1>5, <1>6

LEMMA ListSame == ASSUME ListInv, UNCHANGED listVars PROVE ListInv'
<1> USE DEF ListInv
<1>1. UNCHANGED <<hooked, channel, arrived, dropped, packets, selected, picked, filter, registry,
                  filtered, phase, cleared>>
  BY DEF listVars
<1>2. Taken' = Taken /\ Listed'
  BY <1>1, SameList
<1>3. ListTypes'
  BY <1>1 DEF ListTypes
<1>4. InNumbers' /\ EntriesTaken' /\ FilteredFresh'
  BY <1>1, <1>2 DEF InNumbers, EntriesTaken, FilteredFresh, List!FilteredIndices, List!Matches
<1> QED BY <1>2, <1>3, <1>4

LEMMA ListNext == ListInv /\ List!Next => ListInv'
BY ArriveInv, IncomingInv, NoneIncomingInv, ToolbarInv, FilterInv, RowsInv DEF List!Next

LEMMA ListStays == ListInv /\ [DecoderStep \/ ListStep]_<<decoderVars, listVars>> => ListInv'
<1> SUFFICES ASSUME ListInv, [DecoderStep \/ ListStep]_<<decoderVars, listVars>> PROVE ListInv'
  OBVIOUS
<1>1. UNCHANGED listVars \/ List!Next
  BY DEF DecoderStep, ListStep
<1> QED BY <1>1, ListSame, ListNext

\* The packet list's invariant: what is listed is of captures taken, in their order, and what
\* is selected or filtered is listed.
THEOREM ListInvariance == WindowSpec => []ListInv
<1>1. WindowInit => ListInv
  BY ListStarts DEF WindowInit
<1> QED BY <1>1, ListStays, PTL DEF WindowSpec

\* The types of the list.
LEMMA ListTypeOK == ListInv => List!TypeOK
<1> SUFFICES ASSUME ListInv PROVE List!TypeOK
  OBVIOUS
<1> USE DEF ListInv
<1>1. /\ Taken \in 0..Len(arrived) /\ Len(arrived) \in Nat /\ Len(channel) \in Nat
      /\ Taken + Len(channel) = Len(arrived) /\ Len(packets) \in Nat
      /\ DOMAIN arrived = 1..Len(arrived) /\ DOMAIN channel = 1..Len(channel)
      /\ DOMAIN packets = 1..Len(packets)
  BY TakenCounts DEF ListTypes, InNumbers, Taken
<1>2. hooked \in BOOLEAN /\ (~hooked => channel = <<>>)
  BY DEF ListTypes, InNumbers
<1>3. \A n \in DOMAIN arrived : arrived[n] \in Captures
  BY <1>1, Element DEF ListTypes
<1>4. List!ToSet(channel) \cup dropped \subseteq DOMAIN arrived
  <2>1. \A k \in 1..Len(channel) : channel[k] = Taken + k
    BY DEF InNumbers
  <2>2. \A k \in 1..Len(channel) : Taken + k \in 1..Len(arrived)
    BY <1>1
  <2>3. dropped \subseteq 1..Taken /\ 1..Taken \subseteq 1..Len(arrived)
    BY <1>1 DEF InNumbers
  <2> QED BY <1>1, <2>1, <2>2, <2>3 DEF List!ToSet
<1>5. \A k \in DOMAIN packets : packets[k] \in List!Entry
  <2> SUFFICES ASSUME NEW k \in 1..Len(packets) PROVE packets[k] \in List!Entry
    BY <1>1
  <2>1. packets[k] \in AnyEntry
    BY Element DEF ListTypes
  <2>2. packets[k].capture \in 1..Len(arrived)
    BY <1>1 DEF EntriesTaken
  <2> QED BY <2>1, <2>2 DEF AnyEntry, List!Entry
<1>6. filtered \subseteq Nat
  <2>1. 1..Len(packets) \subseteq Nat
    BY <1>1
  <2> QED BY <1>1, <2>1 DEF FilteredFresh, List!FilteredIndices
<1>7. cleared \in 0..Len(arrived)
  BY <1>1 DEF InNumbers
<1>8. /\ Len(arrived) <= MaxCaptures /\ selected \in 0..Len(packets)
      /\ filter \in [text : ListServices \cup {0}, service : ListServices \cup {0}]
      /\ registry \subseteq ListServices
      /\ phase \in {"idle", "toolbar", "filter", "rows", "panicked"}
  BY DEF ListTypes
<1> QED BY <1>2, <1>3, <1>4, <1>5, <1>6, <1>7, <1>8 DEF List!TypeOK

\* The packet shown in the detail panel is the one that was clicked, whatever came to the
\* list or went from it since (gui.rs, selected_packet).
THEOREM SelectedIsPicked == WindowSpec => []SelectionDenotes
<1>1. ListInv => SelectionDenotes
  <2> SUFFICES ASSUME ListInv, selected # 0
               PROVE  selected \in DOMAIN packets /\ packets[selected] = picked
    BY DEF SelectionDenotes, List!SelectionDenotes
  <2>1. /\ Len(packets) \in Nat /\ DOMAIN packets = 1..Len(packets)
        /\ selected \in 0..Len(packets) /\ (selected > 0 => packets[selected] = picked)
    BY DEF ListInv, ListTypes
  <2> QED BY <2>1
<1> QED BY <1>1, ListInvariance, PTL

\* Each capture since the last Clear that no Stop dropped is listed once with its messages,
\* in the order of arrival (gui.rs, process_incoming_packets).
THEOREM EntriesInOrder == WindowSpec => []ListedOnceInOrder
<1>1. ListInv => ListedOnceInOrder
  <2> SUFFICES ASSUME ListInv PROVE List!ListedOnceInOrder
    BY DEF ListedOnceInOrder
  <2> USE DEF ListInv
  <2>1. /\ Taken \in 0..Len(arrived) /\ Len(arrived) \in Nat /\ Len(channel) \in Nat
        /\ Taken + Len(channel) = Len(arrived) /\ Len(packets) \in Nat
        /\ DOMAIN channel = 1..Len(channel) /\ DOMAIN packets = 1..Len(packets)
    BY TakenCounts DEF ListTypes, InNumbers, Taken
  <2>2. List!ToSet(channel) = (Taken + 1)..Len(arrived)
    <3>1. \A k \in 1..Len(channel) : channel[k] = Taken + k
      BY DEF InNumbers
    <3>2. \A x \in (Taken + 1)..Len(arrived) :
            x - Taken \in 1..Len(channel) /\ Taken + (x - Taken) = x
      BY <2>1
    <3>3. \A k \in 1..Len(channel) : Taken + k \in (Taken + 1)..Len(arrived)
      BY <2>1
    <3>4. List!ToSet(channel) = {channel[k] : k \in 1..Len(channel)}
      BY <2>1 DEF List!ToSet
    <3> QED BY <3>1, <3>2, <3>3, <3>4
  <2>3. ((cleared + 1)..Len(arrived)) \ (dropped \cup List!ToSet(channel)) = Kept
    <3>1. cleared \in 0..Taken
      BY DEF InNumbers
    <3> QED BY <3>1, <2>1, <2>2 DEF Kept
  <2>4. {Place(packets[k]) : k \in DOMAIN packets} = List!Expected
    <3>1. List!Expected = UNION { {n} \X List!Places(n) : n \in Kept }
      BY <2>3 DEF List!Expected
    <3>2. ASSUME NEW k \in DOMAIN packets PROVE Place(packets[k]) \in List!Expected
      <4>1. PICK n \in Kept : packets[k].capture = n /\ packets[k].part \in List!Places(n)
        BY <2>1 DEF Listed
      <4>2. Place(packets[k]) \in {n} \X List!Places(n)
        BY <4>1 DEF Place
      <4> QED BY <3>1, <4>2
    <3>3. ASSUME NEW x \in List!Expected PROVE \E k \in DOMAIN packets : x = Place(packets[k])
      <4>1. PICK n \in Kept : x \in {n} \X List!Places(n)
        BY <3>1
      <4>2. PICK p \in List!Places(n) : x = <<n, p>>
        BY <4>1
      <4> QED BY <2>1, <4>2 DEF Listed
    <3> QED BY <3>2, <3>3
  <2>5. \A j, k \in DOMAIN packets : j < k => List!Before(Place(packets[j]), Place(packets[k]))
    BY <2>1 DEF Listed
  <2> QED BY <2>4, <2>5 DEF List!ListedOnceInOrder, Place
<1> QED BY <1>1, ListInvariance, PTL

\* No repaint panics but for a name that is cut inside a character: the indices that are
\* drawn are of the list as it is when they are, whatever was clicked, filtered or cleared in
\* the same repaint (gui.rs, update and truncate_str).
THEOREM OnlyNamesPanic == WindowSpec => []PanicsInNamesOnly
<1>1. WindowInit => PanicsInNamesOnly
  BY DEF WindowInit, List!Init, PanicsInNamesOnly, List!PanicsInNamesOnly
<1>2. ASSUME ListInv, PanicsInNamesOnly, [DecoderStep \/ ListStep]_<<decoderVars, listVars>>
      PROVE  PanicsInNamesOnly'
  <2> DEFINE Cut == \E k \in List!FilteredIndices : ~List!NamesFit(packets[k])
  <2>a. PanicsInNamesOnly = (phase = "panicked" => Cut)
    BY DEF PanicsInNamesOnly, List!PanicsInNamesOnly
  <2>b. PanicsInNamesOnly' = (phase' = "panicked" => Cut')
    BY DEF PanicsInNamesOnly, List!PanicsInNamesOnly
  <2>c. phase = "panicked" => Cut
    BY <1>2, <2>a
  <2> SUFFICES ASSUME phase' = "panicked" PROVE Cut'
    BY <2>b
  <2>1. UNCHANGED listVars \/ List!Next
    BY <1>2 DEF DecoderStep, ListStep
  <2>2. ASSUME UNCHANGED <<packets, filter, registry>>, Cut PROVE Cut'
    BY <2>2 DEF List!FilteredIndices, List!Matches, List!NamesFit
  <2>3. CASE List!Rows
    <3>1. PICK first \in 1..(List!Cardinality(filtered) + 1),
               last \in 0..List!Cardinality(filtered) :
            LET view == {k \in filtered : List!Row(k) \in first..last}
            IN IF \A k \in view : List!RowDrawn(k) THEN phase' = "idle" ELSE phase' = "panicked"
      BY <2>3 DEF List!Rows
    <3>2. PICK k \in filtered : ~List!RowDrawn(k)
      BY <3>1
    <3>3. filtered = List!FilteredIndices /\ UNCHANGED <<packets, filter, registry>>
      BY <1>2, <2>3 DEF List!Rows, ListInv, FilteredFresh
    <3>4. ~List!NamesFit(packets[k])
      BY <3>2, <3>3 DEF List!RowDrawn, List!FilteredIndices
    <3> QED BY <2>2, <3>3, <3>4
  <2>4. CASE UNCHANGED listVars
    BY <2>2, <2>4, <2>c DEF listVars
  <2>5. CASE List!Next /\ ~List!Rows
    <3>1. FALSE
      BY <2>5 DEF List!Next, List!Arrive, List!Incoming, List!NoneIncoming, List!Toolbar, List!Filter
    <3> QED BY <3>1
  <2> QED BY <2>1, <2>3, <2>4, <2>5
<1> QED BY <1>1, <1>2, ListInvariance, PTL DEF WindowSpec

-----------------------------------------------------------------------------
(***************************************************************************)
(* The decoder's buffers.                                                  *)
(***************************************************************************)

\* A set of naturals that is not empty has a least element.
LEMMA LeastElement ==
  ASSUME NEW T, T \subseteq Nat, T # {}
  PROVE  \E x \in T : \A y \in T : x <= y
<1>1. PICK x \in T : \A y \in T : ~(<<y, x>> \in OpToRel(<, Nat))
  BY NatLessThanWellFounded, WFMin
<1>2. ASSUME NEW y \in T PROVE x <= y
  <2>1. x \in Nat /\ y \in Nat
    BY <1>1
  <2>2. ~(y < x)
    <3>1. ~(<<y, x>> \in {ss \in Nat \X Nat : ss[1] < ss[2]})
      BY <1>1 DEF OpToRel
    <3> QED BY ONLY <3>1, <2>1
  <2> QED BY ONLY <2>1, <2>2
<1> QED BY <1>2

Bytes == Seq(Kinp!Byte)

LEMMA ByteBounds == ASSUME NEW x \in Kinp!Byte PROVE x \in Nat /\ x < 256
BY DEF Kinp!Byte

\* A signal is two bytes.
LEMMA SignalBytes ==
  ASSUME NEW b \in Bytes, NEW k \in Nat, k > 0
  PROVE  Kinp!SignalAt(b, k) <=> k < Len(b) /\ b[k] = 13 /\ b[k + 1] = 240
<1>1. CASE ~(k < Len(b))
  BY <1>1 DEF Kinp!SignalAt
<1>2. CASE k < Len(b)
  <2>1. Len(b) \in Nat
    BY DEF Bytes
  <2>2. k \in 1..(Len(b) + 1) /\ k + 1 \in (k - 1)..Len(b) /\ k + 1 - k + 1 = 2
    BY <1>2, <2>1
  <2> DEFINE p == SubSeq(b, k, k + 1)
  <2>3. p \in Bytes /\ Len(p) = 2 /\ p[1] = b[k] /\ p[2] = b[k + 1]
    <3>1. /\ p \in Bytes /\ Len(p) = k + 1 - k + 1
          /\ \A j \in 1..(k + 1 - k + 1) : p[j] = b[k + j - 1]
      BY <2>2, Part DEF Bytes
    <3> HIDE DEF p
    <3>2. k + 1 - 1 = k /\ k + 2 - 1 = k + 1
      OBVIOUS
    <3>3. p[1] = b[k + 1 - 1] /\ p[2] = b[k + 2 - 1]
      BY <3>1, <2>2
    <3> QED BY <3>1, <3>2, <3>3, <2>2
  <2> HIDE DEF p
  <2>4. p = <<13, 240>> <=> p[1] = 13 /\ p[2] = 240
    BY <2>3 DEF Bytes
  <2> QED BY <1>2, <2>3, <2>4 DEF Kinp!SignalAt, Kinp!KINP_START_SIGNAL, p
<1> QED BY <1>1, <1>2

LEMMA FirstIsFirst ==
  ASSUME NEW b \in Bytes, Kinp!Signals(b) # {}
  PROVE  /\ Kinp!FirstSignal(b) \in 1..(Len(b) - 1) /\ Kinp!SignalAt(b, Kinp!FirstSignal(b))
         /\ \A k \in 1..(Kinp!FirstSignal(b) - 1) : ~Kinp!SignalAt(b, k)
<1> DEFINE T == Kinp!Signals(b)
<1>1. Len(b) \in Nat
  BY DEF Bytes
<1>2. T \subseteq Nat
  BY <1>1 DEF Kinp!Signals
<1>3. \E x \in T : \A y \in T : x <= y
  BY <1>2, LeastElement
<1>4. Kinp!FirstSignal(b) \in T /\ \A y \in T : Kinp!FirstSignal(b) <= y
  BY <1>3 DEF Kinp!FirstSignal
<1> DEFINE f == Kinp!FirstSignal(b)
<1> HIDE DEF f
<1>5. f \in 1..(Len(b) - 1) /\ Kinp!SignalAt(b, f)
  BY <1>4 DEF Kinp!Signals, f
<1>6. ASSUME NEW k \in 1..(f - 1), Kinp!SignalAt(b, k) PROVE FALSE
  <2>1. k \in 1..(Len(b) - 1)
    BY <1>1, <1>5
  <2>2. k \in T
    BY <1>6, <2>1 DEF Kinp!Signals
  <2>3. f <= k
    BY <2>2, <1>4 DEF f
  <2> QED BY <2>3, <1>1, <1>5
<1> QED BY <1>5, <1>6 DEF f

\* What find_start_signal drops is before the first signal; four bytes that are kept start
\* with one.
LEMMA Resynchronised ==
  ASSUME NEW b \in Bytes
  PROVE  LET r == Kinp!Resync(b)
             d == Len(b) - Len(Kinp!Resync(b))
         IN /\ r \in Bytes /\ d \in 0..Len(b) /\ Len(r) \in Nat
            /\ \A k \in 1..Len(r) : r[k] = b[d + k]
            /\ \A k \in 1..d : ~Kinp!SignalAt(b, k)
            /\ Len(r) >= 4 => Kinp!SignalAt(r, 1)
            /\ Kinp!Resync(r) = r
            /\ Len(b) < 4 \/ Kinp!SignalAt(b, 1) => r = b
<1> DEFINE r == Kinp!Resync(b)
           d == Len(b) - Len(r)
           f == Kinp!FirstSignal(b)
<1>1. Len(b) \in Nat
  BY DEF Bytes
<1>2. CASE Len(b) < 4 \/ Kinp!SignalAt(b, 1)
  <2>1. r = b
    BY <1>2 DEF Kinp!Resync
  <2>2. d = 0
    BY <1>1, <2>1
  <2> QED BY <1>1, <1>2, <2>1, <2>2
<1>3. CASE ~(Len(b) < 4 \/ Kinp!SignalAt(b, 1)) /\ Kinp!Signals(b) = {}
  <2>1. r = <<>>
    BY <1>3 DEF Kinp!Resync
  <2>2. r \in Bytes /\ Len(r) = 0
    BY <2>1 DEF Bytes
  <2>3. d = Len(b) /\ Kinp!Resync(r) = r
    <3> HIDE DEF r
    <3>1. d = Len(b)
      BY <1>1, <2>2
    <3>2. Kinp!Resync(r) = r
      BY <2>2 DEF Kinp!Resync
    <3> QED BY <3>1, <3>2
  <2>4. \A k \in 1..Len(b) : ~Kinp!SignalAt(b, k)
    <3>1. \A k \in 1..(Len(b) - 1) : ~Kinp!SignalAt(b, k)
      BY <1>3 DEF Kinp!Signals
    <3>2. ~Kinp!SignalAt(b, Len(b))
      BY <1>1 DEF Kinp!SignalAt
    <3> QED BY <3>1, <3>2, <1>1
  <2> QED BY <1>1, <1>3, <2>2, <2>3, <2>4
<1>4. CASE ~(Len(b) < 4 \/ Kinp!SignalAt(b, 1)) /\ Kinp!Signals(b) # {}
  <2>1. r = SubSeq(b, f, Len(b))
    BY <1>4 DEF Kinp!Resync
  <2>2. f \in 1..(Len(b) - 1) /\ Kinp!SignalAt(b, f) /\ \A k \in 1..(f - 1) : ~Kinp!SignalAt(b, k)
    BY <1>4, FirstIsFirst
  <2> HIDE DEF f
  <2>3. /\ r \in Bytes /\ Len(r) = Len(b) - f + 1
        /\ \A k \in 1..(Len(b) - f + 1) : r[k] = b[f + k - 1]
    <3>1. f \in 1..(Len(b) + 1) /\ Len(b) \in (f - 1)..Len(b)
      BY <1>1, <2>2
    <3> QED BY <2>1, <3>1, Part DEF Bytes
  <2> HIDE DEF r
  <2>4. d = f - 1 /\ d \in 0..Len(b) /\ Len(r) \in Nat /\ Len(r) >= 2
    BY <1>1, <2>2, <2>3
  <2>5. \A k \in 1..Len(r) : r[k] = b[d + k]
    <3> TAKE k \in 1..Len(r)
    <3>1. f + k - 1 = d + k
      BY <2>2, <2>4
    <3> QED BY <3>1, <2>3
  <2>6. Kinp!SignalAt(r, 1)
    <3>1. b[f] = 13 /\ b[f + 1] = 240
      BY <2>2, SignalBytes
    <3>2. d + 1 = f /\ d + 2 = f + 1
      BY <2>2, <2>4
    <3>3. r[1] = 13 /\ r[2] = 240
      BY <3>1, <3>2, <2>4, <2>5
    <3> QED BY <3>3, <2>3, <2>4, SignalBytes
  <2>7. Kinp!Resync(r) = r
    BY <2>6 DEF Kinp!Resync
  <2>8. \A k \in 1..d : ~Kinp!SignalAt(b, k)
    BY <2>2, <2>4
  <2> QED BY <1>4, <2>3, <2>4, <2>5, <2>6, <2>7, <2>8 DEF r
<1> QED BY <1>2, <1>3, <1>4

\* What a u16 holds.
Word16(n) == n \in Nat /\ n < 65536

\* A u16 is in its two bytes.
LEMMA HalvesOf ==
  ASSUME NEW n, Word16(n)
  PROVE  LET l == Kinp!LE16(n)
         IN l \in Bytes /\ Len(l) = 2 /\ l[1] \in Nat /\ l[2] \in Nat /\ l[1] + 256 * l[2] = n
<1>1. n % 256 \in 0..255 /\ (n \div 256) % 256 \in 0..255
  BY SMT DEF Word16
<1>2. (n % 256) + 256 * ((n \div 256) % 256) = n
  BY SMT DEF Word16
<1> QED BY <1>1, <1>2, SMT DEF Kinp!LE16, Kinp!Byte, Bytes

LEMMA FourJoined ==
  ASSUME NEW S, NEW q \in Seq(S), NEW l \in Seq(S), Len(q) = 2, Len(l) = 2
  PROVE  /\ q \o l \in Seq(S) /\ Len(q \o l) = 4
         /\ (q \o l)[1] = q[1] /\ (q \o l)[2] = q[2] /\ (q \o l)[3] = l[1] /\ (q \o l)[4] = l[2]
<1>1. PICK f : f = q \o l
  OBVIOUS
<1>2. f \in Seq(S) /\ Len(f) = Len(q) + Len(l) /\ \A k \in 1..Len(q) : f[k] = q[k]
  BY ONLY <1>1, q \in Seq(S), l \in Seq(S), Joined
<1>3. \A k \in 1..Len(l) : f[Len(q) + k] = l[k]
  BY ONLY <1>1, q \in Seq(S), l \in Seq(S), JoinedAt
<1>4. f[2 + 1] = l[1] /\ f[2 + 2] = l[2] /\ f[1] = q[1] /\ f[2] = q[2] /\ Len(f) = 4
  BY <1>2, <1>3
<1> QED BY ONLY <1>1, <1>2, <1>4

LEMMA BehindFour ==
  ASSUME NEW S, NEW h \in Seq(S), NEW p \in Seq(S), Len(h) = 4
  PROVE  /\ h \o p \in Seq(S) /\ Len(h \o p) = 4 + Len(p)
         /\ (h \o p)[1] = h[1] /\ (h \o p)[2] = h[2] /\ (h \o p)[3] = h[3] /\ (h \o p)[4] = h[4]
         /\ \A k \in 1..Len(p) : (h \o p)[4 + k] = p[k]
<1>1. PICK f : f = h \o p
  OBVIOUS
<1>2. f \in Seq(S) /\ Len(f) = Len(h) + Len(p) /\ \A k \in 1..Len(h) : f[k] = h[k]
  BY ONLY <1>1, h \in Seq(S), p \in Seq(S), Joined
<1>3. \A k \in 1..Len(p) : f[Len(h) + k] = p[k]
  BY ONLY <1>1, h \in Seq(S), p \in Seq(S), JoinedAt
<1>4. f[1] = h[1] /\ f[2] = h[2] /\ f[3] = h[3] /\ f[4] = h[4] /\ Len(f) = 4 + Len(p)
      /\ \A k \in 1..Len(p) : f[4 + k] = p[k]
  BY <1>2, <1>3
<1> QED BY ONLY <1>1, <1>2, <1>4

\* The four bytes before a payload of n bytes.
IsHeader(h, n) ==
  h \in Bytes /\ Len(h) = 4 /\ h[1] = 13 /\ h[2] = 240 /\ h[3] + 256 * h[4] = n

LEMMA Header ==
  ASSUME NEW n, Word16(n) PROVE IsHeader(Kinp!KINP_START_SIGNAL \o Kinp!LE16(n), n)
<1>1. PICK l : l = Kinp!LE16(n)
  OBVIOUS
<1>2. PICK q : q = Kinp!KINP_START_SIGNAL
  OBVIOUS
<1>3. PICK h : h = q \o l
  OBVIOUS
<1>4. l \in Bytes /\ Len(l) = 2 /\ l[1] + 256 * l[2] = n
  BY <1>1, HalvesOf
<1>5. q \in Bytes /\ Len(q) = 2 /\ q[1] = 13 /\ q[2] = 240
  BY <1>2 DEF Kinp!KINP_START_SIGNAL, Kinp!Byte, Bytes
<1>6. h \in Bytes /\ Len(h) = 4 /\ h[1] = q[1] /\ h[2] = q[2] /\ h[3] = l[1] /\ h[4] = l[2]
  BY ONLY <1>3, <1>4, <1>5, FourJoined DEF Bytes
<1>7. IsHeader(h, n)
  BY ONLY <1>4, <1>5, <1>6 DEF IsHeader
<1> QED BY <1>1, <1>2, <1>3, <1>7

\* A frame is its header and its payload.
IsFrame(f, p) ==
  /\ f \in Bytes /\ Len(f) = 4 + Len(p) /\ f[1] = 13 /\ f[2] = 240
  /\ Kinp!FrameLen(f) = 4 + Len(p)
  /\ \A k \in 1..Len(p) : f[4 + k] = p[k]

LEMMA HeaderAndPayload ==
  ASSUME NEW p \in Bytes, NEW h, IsHeader(h, Len(p)) PROVE IsFrame(h \o p, p)
<1>1. PICK f : f = h \o p
  OBVIOUS
<1>2. h \in Bytes /\ Len(h) = 4 /\ h[1] = 13 /\ h[2] = 240 /\ h[3] + 256 * h[4] = Len(p)
  BY DEF IsHeader
<1>3. /\ f \in Bytes /\ Len(f) = 4 + Len(p)
      /\ f[1] = h[1] /\ f[2] = h[2] /\ f[3] = h[3] /\ f[4] = h[4]
      /\ \A k \in 1..Len(p) : f[4 + k] = p[k]
  BY ONLY p \in Bytes, <1>1, <1>2, BehindFour, SMTT(30) DEF Bytes
<1>4. h[3] \in Nat /\ h[4] \in Nat
  <2>1. \A k \in 1..4 : h[k] \in Kinp!Byte
    BY ONLY <1>2, Element, ZenonT(30) DEF Bytes
  <2>2. Kinp!Byte \subseteq Nat
    BY DEF Kinp!Byte
  <2>3. h[3] \in Kinp!Byte /\ h[4] \in Kinp!Byte
    BY ONLY <2>1
  <2> QED BY ONLY <2>2, <2>3
<1>5. Kinp!FrameLen(f) = 4 + Len(p)
  <2>1. Kinp!FrameLen(f) = 4 + h[3] + 256 * h[4]
    BY ONLY <1>3 DEF Kinp!FrameLen
  <2> QED BY ONLY <1>2, <1>4, <2>1, SMTT(30)
<1> QED BY ONLY <1>1, <1>2, <1>3, <1>5 DEF IsFrame

LEMMA FrameOfBytes ==
  ASSUME NEW p \in Bytes, Word16(Len(p)) PROVE IsFrame(Kinp!FrameOf(p), p)
<1>1. IsHeader(Kinp!KINP_START_SIGNAL \o Kinp!LE16(Len(p)), Len(p))
  BY Header
<1>2. Kinp!FrameOf(p) = (Kinp!KINP_START_SIGNAL \o Kinp!LE16(Len(p))) \o p
  BY Zenon DEF Kinp!FrameOf
<1>3. IsFrame((Kinp!KINP_START_SIGNAL \o Kinp!LE16(Len(p))) \o p, p)
  BY <1>1, HeaderAndPayload
<1> QED BY <1>2, <1>3

LEMMA TheStreams ==
  /\ Kinp!Plaintext \notin Sockets /\ Services \subseteq Kinp!Byte /\ MaxSent \in Nat
  /\ \A s \in Sockets : Kinp!Framed(Wire[s], Payloads[s], FrameEnd[s])
<1>1. Kinp!StreamAssumption
  BY WindowAssumption
<1> QED BY ONLY <1>1, SMT DEF Kinp!StreamAssumption

\* What a socket's frames are.
LEMMA FramesOf ==
  ASSUME NEW s \in Sockets
  PROVE  /\ Wire[s] \in Bytes /\ Len(Wire[s]) \in Nat
         /\ Payloads[s] \in Seq(Bytes) /\ Len(Payloads[s]) \in Nat
         /\ DOMAIN Payloads[s] = 1..Len(Payloads[s])
         /\ \A k \in 0..Len(Payloads[s]) : FrameEnd[s][k] \in Nat
         /\ FrameEnd[s][Len(Payloads[s])] = Len(Wire[s])
         /\ \A k \in 1..Len(Payloads[s]) :
              /\ Payloads[s][k] \in Bytes /\ Word16(Len(Payloads[s][k]))
              /\ Len(Payloads[s][k]) \in Nat
              /\ FrameEnd[s][k] = FrameEnd[s][k - 1] + 4 + Len(Payloads[s][k])
              /\ SubSeq(Wire[s], FrameEnd[s][k - 1] + 1, FrameEnd[s][k]) = Kinp!FrameOf(Payloads[s][k])
<1> DEFINE w == Wire[s]
           p == Payloads[s]
           e == FrameEnd[s]
<1>1. Kinp!Framed(w, p, e)
  BY TheStreams
<1> HIDE DEF w, p, e
<1>2. w \in Bytes /\ p \in Seq(Bytes) /\ e \in [0..Len(p) -> Nat] /\ e[Len(p)] = Len(w)
  BY <1>1, SMT DEF Kinp!Framed, Bytes
<1>3. Len(w) \in Nat /\ Len(p) \in Nat /\ DOMAIN p = 1..Len(p)
  BY <1>2 DEF Bytes
<1>4. ASSUME NEW k \in 1..Len(p)
      PROVE  /\ p[k] \in Bytes /\ Word16(Len(p[k])) /\ Len(p[k]) \in Nat
             /\ e[k] = e[k - 1] + 4 + Len(p[k])
             /\ SubSeq(w, e[k - 1] + 1, e[k]) = Kinp!FrameOf(p[k])
  <2>1. p[k] \in Bytes
    BY <1>2, Element
  <2>2. /\ k \in DOMAIN p
        /\ \A m \in DOMAIN p :
             /\ Len(p[m]) < 65536 /\ e[m] = e[m - 1] + 4 + Len(p[m])
             /\ SubSeq(w, e[m - 1] + 1, e[m]) = Kinp!FrameOf(p[m])
    BY <1>1, <1>3, SMT DEF Kinp!Framed
  <2>3. Len(p[k]) \in Nat
    BY ONLY <2>1 DEF Bytes
  <2>4. Word16(Len(p[k]))
    BY <2>2, <2>3, SMT DEF Word16
  <2>5. e[k] = e[k - 1] + 4 + Len(p[k]) /\ SubSeq(w, e[k - 1] + 1, e[k]) = Kinp!FrameOf(p[k])
    BY <2>2, SMT
  <2> QED BY <2>1, <2>3, <2>4, <2>5
<1> QED BY <1>2, <1>3, <1>4 DEF w, p, e

LEMMA EndsGrow ==
  ASSUME NEW s \in Sockets, NEW j \in 0..Len(Payloads[s]), NEW k \in j..Len(Payloads[s])
  PROVE  FrameEnd[s][j] <= FrameEnd[s][k]
<1> DEFINE n == Len(Payloads[s])
           e == FrameEnd[s]
           T == {m \in j..n : ~(e[j] <= e[m])}
<1>1. /\ n \in Nat /\ \A m \in 0..n : e[m] \in Nat
      /\ \A m \in 1..n : e[m - 1] <= e[m]
  <2>1. /\ n \in Nat /\ \A m \in 0..n : e[m] \in Nat
        /\ \A m \in 1..n : e[m] = e[m - 1] + 4 + Len(Payloads[s][m]) /\ Len(Payloads[s][m]) \in Nat
    BY FramesOf
  <2>2. ASSUME NEW m \in 1..n PROVE e[m - 1] <= e[m]
    <3>1. m - 1 \in 0..n
      BY <2>1
    <3>2. e[m - 1] \in Nat /\ e[m] = e[m - 1] + 4 + Len(Payloads[s][m])
          /\ Len(Payloads[s][m]) \in Nat
      BY <2>1, <3>1
    <3> QED BY <3>2
  <2> QED BY <2>1, <2>2
<1> HIDE DEF n, e
<1>2. SUFFICES ASSUME T # {} PROVE FALSE
  BY DEF n, e
<1>3. T \subseteq Nat
  BY <1>1 DEF n
<1>4. PICK m \in T : \A y \in T : m <= y
  <2> HIDE DEF T
  <2> QED BY <1>2, <1>3, LeastElement
<1>5. m \in j..n /\ ~(e[j] <= e[m]) /\ j \in 0..n
  BY <1>4 DEF n
<1>6. m # j /\ m - 1 \in j..n /\ m \in 1..n
  <2>1. e[j] \in Nat
    BY <1>1, <1>5
  <2> QED BY <1>1, <1>5, <2>1
<1>7. e[j] <= e[m - 1]
  <2>1. m - 1 \notin T
    BY <1>3, <1>4, <1>6
  <2> QED BY <2>1, <1>6
<1>8. e[j] \in Nat /\ e[m - 1] \in Nat /\ e[m] \in Nat /\ e[m - 1] <= e[m]
  <2>1. m - 1 \in 0..n /\ m \in 0..n
    BY <1>1, <1>5, <1>6
  <2> QED BY <1>1, <1>5, <1>6, <2>1
<1> QED BY <1>5, <1>7, <1>8

\* The bytes of frame k.
LEMMA FrameBytes ==
  ASSUME NEW s \in Sockets, NEW k \in 1..Len(Payloads[s])
  PROVE  LET b == Kinp!FrameStart(s, k)
             w == Wire[s]
         IN /\ b = FrameEnd[s][k - 1] + 1 /\ b \in 1..Len(w) /\ b + 3 <= Len(w)
            /\ FrameEnd[s][k] = b + 3 + Len(Payloads[s][k]) /\ FrameEnd[s][k] <= Len(w)
            /\ w[b] = 13 /\ w[b + 1] = 240
            /\ 4 + w[b + 2] + 256 * w[b + 3] = 4 + Len(Payloads[s][k])
            /\ \A j \in 1..Len(Payloads[s][k]) : w[b + 3 + j] = Payloads[s][k][j]
            /\ Kinp!SignalAt(w, b)
<1> DEFINE w == Wire[s]
           p == Payloads[s][k]
           o == FrameEnd[s][k - 1]
           e == FrameEnd[s][k]
           f == Kinp!FrameOf(p)
           b == Kinp!FrameStart(s, k)
<1>1. /\ w \in Bytes /\ Len(w) \in Nat /\ p \in Bytes /\ Word16(Len(p)) /\ Len(p) \in Nat
      /\ o \in Nat /\ e = o + 4 + Len(p) /\ SubSeq(w, o + 1, e) = f
  <2>1. k - 1 \in 0..Len(Payloads[s])
    BY FramesOf
  <2> QED BY FramesOf, <2>1
<1>2. e <= Len(w)
  <2>1. k \in 0..Len(Payloads[s]) /\ Len(Payloads[s]) \in k..Len(Payloads[s])
    BY FramesOf
  <2>2. e <= FrameEnd[s][Len(Payloads[s])]
    BY <2>1, EndsGrow
  <2> QED BY <2>2, FramesOf
<1>3. /\ f \in Bytes /\ Len(f) = 4 + Len(p) /\ f[1] = 13 /\ f[2] = 240
      /\ Kinp!FrameLen(f) = 4 + Len(p) /\ \A j \in 1..Len(p) : f[4 + j] = p[j]
  <2>1. IsFrame(f, p)
    BY <1>1, FrameOfBytes
  <2> HIDE DEF f, p
  <2> QED BY <2>1 DEF IsFrame
<1>4. b = o + 1
  BY DEF Kinp!FrameStart
<1> HIDE DEF w, p, o, e, f, b
<1>5. \A j \in 1..(4 + Len(p)) : f[j] = w[o + j]
  <2>1. /\ o + 1 \in 1..(Len(w) + 1) /\ e \in (o + 1 - 1)..Len(w) /\ e - (o + 1) + 1 = 4 + Len(p)
    BY <1>1, <1>2
  <2>2. \A j \in 1..(e - (o + 1) + 1) : SubSeq(w, o + 1, e)[j] = w[o + 1 + j - 1]
    BY <1>1, <2>1, Part DEF Bytes
  <2>3. \A j \in 1..(4 + Len(p)) : o + 1 + j - 1 = o + j
    BY <1>1
  <2> QED BY <1>1, <2>1, <2>2, <2>3
<1>6. f[1] = w[b] /\ f[2] = w[b + 1] /\ f[3] = w[b + 2] /\ f[4] = w[b + 3]
  <2>1. o + 1 = b /\ o + 2 = b + 1 /\ o + 3 = b + 2 /\ o + 4 = b + 3
    BY <1>1, <1>4
  <2>2. \A j \in {1, 2, 3, 4} : f[j] = w[o + j]
    BY <1>1, <1>5, SMTT(30)
  <2> QED BY <2>1, <2>2
<1>7. \A j \in 1..Len(p) : w[b + 3 + j] = p[j]
  <2> TAKE j \in 1..Len(p)
  <2>1. 4 + j \in 1..(4 + Len(p)) /\ o + (4 + j) = b + 3 + j
    BY <1>1, <1>4
  <2> QED BY <2>1, <1>3, <1>5
<1>8. b \in 1..Len(w) /\ b + 3 <= Len(w) /\ e = b + 3 + Len(p) /\ b \in Nat /\ b > 0 /\ b < Len(w)
  BY <1>1, <1>2, <1>4
<1>9. Kinp!SignalAt(w, b)
  BY <1>1, <1>3, <1>6, <1>8, SignalBytes, ZenonT(60)
<1>10. 4 + w[b + 2] + 256 * w[b + 3] = 4 + Len(p)
  BY <1>3, <1>6 DEF Kinp!FrameLen
<1> QED BY <1>2, <1>3, <1>4, <1>6, <1>7, <1>8, <1>9, <1>10 DEF w, p, o, e, f, b

\* The lengths parse_kinp_payload tells apart.
Empty(n) == n = 0
Short(n) == n \in 1..3

LEMMA Lengths ==
  \A n \in Nat :
    /\ Empty(n) \/ Short(n) \/ (n >= 4 /\ n < 8) \/ n >= 8
    /\ Empty(n) => ~Short(n) /\ ~(n >= 4) /\ ~(n >= 8)
    /\ Short(n) => ~Empty(n) /\ ~(n >= 4) /\ ~(n >= 8)
    /\ n >= 4 => ~Empty(n) /\ ~Short(n)
    /\ n >= 8 => n >= 4 /\ ~(n < 8)
    /\ n < 8 => ~(n >= 8)
BY DEF Empty, Short

\* What parse_kinp_payload makes of a payload.
LEMMA MsgTypeOf ==
  ASSUME NEW p \in Bytes
  PROVE  /\ Kinp!MsgType(p) \in Kinp!MessageType
         /\ Kinp!MsgType(p).type = "Dml" => Len(p) >= 8
         /\ Len(p) >= 8 /\ p[1] = 0 /\ p[5] \in 1..99 =>
              Kinp!MsgType(p) = [type |-> "Dml", service |-> p[5], message |-> p[6],
                                 length |-> p[7] + 256 * p[8]]
<1>1. Len(p) \in Nat /\ \A k \in 1..Len(p) : p[k] \in Kinp!Byte
  BY Element DEF Bytes
<1> DEFINE t == Kinp!MsgType(p)
<1>2. CASE Len(p) = 0
  <2>1. t = [type |-> "Control", opcode |-> 0]
    BY <1>2 DEF Kinp!MsgType
  <2>2. 0 \in Kinp!Byte
    BY DEF Kinp!Byte
  <2> HIDE DEF t
  <2> QED BY <1>2, <2>1, <2>2 DEF Kinp!MessageType, t
<1>3. CASE Len(p) \in 1..3
  <2>0. ~(Len(p) = 0) /\ ~(Len(p) >= 4) /\ ~(Len(p) >= 8)
    BY ONLY <1>1, <1>3, Lengths, Zenon DEF Empty, Short
  <2>1. t = [type |-> "Unknown"]
    BY <1>3, <2>0 DEF Kinp!MsgType
  <2> HIDE DEF t
  <2> QED BY <2>0, <2>1 DEF Kinp!MessageType, t
<1>4. CASE Len(p) >= 4 /\ (p[1] # 0 \/ Len(p) < 8)
  <2>1. t = [type |-> "Control", opcode |-> p[2]]
    BY <1>1, <1>4 DEF Kinp!MsgType
  <2>2. p[2] \in Kinp!Byte /\ ~(Len(p) >= 8 /\ p[1] = 0)
    BY <1>1, <1>4
  <2> HIDE DEF t
  <2> QED BY <2>1, <2>2 DEF Kinp!MessageType, t
<1>5. CASE Len(p) >= 8 /\ p[1] = 0 /\ p[5] \in 1..99
  <2>1. t = [type |-> "Dml", service |-> p[5], message |-> p[6], length |-> p[7] + 256 * p[8]]
    BY <1>1, <1>5 DEF Kinp!MsgType
  <2>2. /\ p[6] \in Kinp!Byte /\ p[7] \in Nat /\ p[7] < 256
        /\ p[8] \in Nat /\ p[8] < 256
    <3>1. p[6] \in Kinp!Byte /\ p[7] \in Kinp!Byte /\ p[8] \in Kinp!Byte
      BY <1>1, <1>5
    <3> QED BY <3>1, ByteBounds
  <2>3. p[7] + 256 * p[8] \in Kinp!U16
    <3>1. p[7] + 256 * p[8] \in Nat /\ p[7] + 256 * p[8] < 65536
      BY ONLY <2>2, SMT
    <3> QED BY ONLY <3>1, SMT DEF Kinp!U16
  <2> DEFINE n == p[7] + 256 * p[8]
  <2> HIDE DEF t, n
  <2>4. t \in Kinp!MessageType
    BY <1>5, <2>1, <2>2, <2>3 DEF Kinp!MessageType, n
  <2> QED BY <1>5, <2>1, <2>4 DEF t
<1>6. CASE Len(p) >= 8 /\ p[1] = 0 /\ p[5] \notin 1..99
  <2>0. /\ ~(Len(p) = 0) /\ ~(Len(p) \in 1..3)
        /\ ~(Len(p) >= 4 /\ (p[1] # 0 \/ Len(p) < 8))
        /\ ~(Len(p) >= 8 /\ p[1] = 0 /\ p[5] \in 1..99)
    <3>2. ~(Len(p) = 0) /\ ~(Len(p) \in 1..3) /\ ~(Len(p) < 8)
      BY ONLY <1>1, <1>6, Lengths, Zenon DEF Empty, Short
    <3> QED BY ONLY <1>6, <3>2
  <2>1. t = [type |-> "Encrypted"]
    BY <2>0 DEF Kinp!MsgType
  <2> HIDE DEF t
  <2> QED BY <1>6, <2>1 DEF Kinp!MessageType, t
<1>7. \/ Len(p) = 0
      \/ Len(p) \in 1..3
      \/ Len(p) >= 4 /\ (p[1] # 0 \/ Len(p) < 8)
      \/ Len(p) >= 8 /\ p[1] = 0
  <2>1. Len(p) = 0 \/ Len(p) \in 1..3 \/ (Len(p) >= 4 /\ Len(p) < 8) \/ Len(p) >= 8
    BY ONLY <1>1, Lengths, Zenon DEF Empty, Short
  <2>2. Len(p) >= 8 => Len(p) >= 4
    BY ONLY <1>1, Lengths, Zenon
  <2> QED BY ONLY <2>1, <2>2, Zenon
<1> QED BY <1>2, <1>3, <1>4, <1>5, <1>6, <1>7

\* A buffer without a whole frame is far below the cap.
LEMMA NeverCapped == ASSUME NEW b \in Bytes, ~Kinp!Whole(b) PROVE Kinp!Capped(b) = b
<1>1. Len(b) \in Nat
  BY DEF Bytes
<1>2. Len(b) < 4 \/ Len(b) < Kinp!FrameLen(b)
  <2>1. CASE Len(b) >= 4
    <3>1. b[3] \in Kinp!Byte /\ b[4] \in Kinp!Byte
      <4>1. 3 \in 1..Len(b) /\ 4 \in 1..Len(b)
        BY <1>1, <2>1
      <4> QED BY <4>1, Element DEF Bytes
    <3>2. Kinp!FrameLen(b) \in Nat
      <4>1. b[3] \in Nat /\ b[4] \in Nat
        BY ONLY <3>1 DEF Kinp!Byte
      <4> QED BY ONLY <4>1 DEF Kinp!FrameLen
    <3> QED BY <1>1, <2>1, <3>2 DEF Kinp!Whole
  <2> QED BY <1>1, <2>1
<1>3. Len(b) >= 4 => b[3] \in Nat /\ b[3] < 256 /\ b[4] \in Nat /\ b[4] < 256
  <2> SUFFICES ASSUME Len(b) >= 4 PROVE b[3] \in Kinp!Byte /\ b[4] \in Kinp!Byte
    BY ByteBounds
  <2>1. 3 \in 1..Len(b) /\ 4 \in 1..Len(b)
    BY <1>1
  <2> QED BY <2>1, Element DEF Bytes
<1>4. Len(b) < 70000
  <2>1. CASE Len(b) >= 4
    <3>1. Len(b) < 4 + b[3] + 256 * b[4]
      BY ONLY <1>1, <1>2, <2>1 DEF Kinp!FrameLen
    <3>2. b[3] \in Nat /\ b[4] \in Nat /\ b[3] < 256 /\ b[4] < 256
      BY ONLY <1>3, <2>1
    <3> QED BY ONLY <1>1, <3>1, <3>2, SMT
  <2> QED BY ONLY <1>1, <2>1, SMT
<1> QED BY <1>1, <1>4, SMT DEF Kinp!Capped

\* What the detours give to send_kinp_frame.
Message ==
  [service : Services, message : Kinp!Byte, data : Fields, dir : {"send", "recv"}]

\* The frame of a message, byte by byte.
IsSynthetic(f, m) ==
  /\ f \in Bytes /\ Len(f) = 12 + Len(m.data) /\ f[1] = 13 /\ f[2] = 240
  /\ Kinp!FrameLen(f) = 12 + Len(m.data)
  /\ f[5] = 0 /\ f[9] = m.service /\ f[10] = m.message /\ f[11] + 256 * f[12] = Len(m.data) + 4
  /\ \A k \in 1..Len(m.data) : f[12 + k] = m.data[k]

LEMMA FieldData ==
  ASSUME NEW d \in Fields
  PROVE  /\ d \in Bytes /\ Len(d) \in Nat
         /\ Word16(Len(d) + 4) /\ Word16(8 + Len(d)) /\ Kinp!ContentLen(Len(d)) = 8 + Len(d)
<1>1. Kinp!StreamAssumption
  BY WindowAssumption
<1>2. d \in Bytes /\ Len(d) + 8 < 65536
  BY <1>1, SMT DEF Kinp!StreamAssumption, Bytes
<1>3. Len(d) \in Nat
  BY ONLY <1>2 DEF Bytes
<1>4. \A n \in Nat : n + 8 < 65536 =>
        n + 4 \in Nat /\ n + 4 < 65536 /\ 8 + n \in Nat /\ 8 + n < 65536 /\ (8 + n) % 65536 = 8 + n
  BY SMT
<1> QED BY ONLY <1>2, <1>3, <1>4, SMT DEF Word16, Kinp!ContentLen

LEMMA SyntheticBytes ==
  ASSUME NEW m \in Message PROVE IsSynthetic(Kinp!SyntheticFrame(m), m)
<1>1. /\ m.service \in Kinp!Byte /\ m.message \in Kinp!Byte /\ m.data \in Fields
  <2>1. m.service \in Services /\ m.message \in Kinp!Byte /\ m.data \in Fields
    BY DEF Message
  <2> QED BY <2>1, TheStreams
<1>2. PICK d : d = m.data
  OBVIOUS
<1>3. /\ d \in Bytes /\ Len(d) \in Nat
      /\ Word16(Len(d) + 4) /\ Word16(8 + Len(d)) /\ Kinp!ContentLen(Len(d)) = 8 + Len(d)
  BY <1>1, <1>2, FieldData
<1>4. PICK h : h = Kinp!KINP_START_SIGNAL \o Kinp!LE16(8 + Len(d))
  OBVIOUS
<1>5. PICK six : six = <<0, 0, 0, 0, m.service, m.message>>
  OBVIOUS
<1>6. PICK l : l = Kinp!LE16(Len(d) + 4)
  OBVIOUS
<1>7. PICK a : a = h \o six
  OBVIOUS
<1>8. PICK c : c = a \o l
  OBVIOUS
<1>9. PICK f : f = c \o d
  OBVIOUS
<1>10. h \in Bytes /\ Len(h) = 4 /\ h[1] = 13 /\ h[2] = 240 /\ h[3] + 256 * h[4] = 8 + Len(d)
  <2>1. IsHeader(h, 8 + Len(d))
    BY <1>3, <1>4, Header
  <2> QED BY ONLY <2>1 DEF IsHeader
<1>11. six \in Bytes /\ Len(six) = 6 /\ six[1] = 0 /\ six[5] = m.service /\ six[6] = m.message
  <2>1. 0 \in Kinp!Byte
    BY DEF Kinp!Byte
  <2> QED BY ONLY <1>1, <1>5, <2>1 DEF Bytes
<1>12. l \in Bytes /\ Len(l) = 2 /\ l[1] + 256 * l[2] = Len(d) + 4
  BY <1>3, <1>6, HalvesOf
<1>13. /\ a \in Bytes /\ Len(a) = 10
       /\ a[1] = h[1] /\ a[2] = h[2] /\ a[3] = h[3] /\ a[4] = h[4]
       /\ a[5] = six[1] /\ a[9] = six[5] /\ a[10] = six[6]
  <2>0. h \in Bytes /\ six \in Bytes
    BY ONLY <1>10, <1>11
  <2>1. a \in Bytes /\ Len(a) = Len(h) + Len(six) /\ \A k \in 1..Len(h) : a[k] = h[k]
    BY ONLY <1>7, <2>0, Joined DEF Bytes
  <2>2. \A k \in 1..Len(six) : a[Len(h) + k] = six[k]
    BY ONLY <1>7, <2>0, JoinedAt DEF Bytes
  <2>3. a[4 + 1] = six[1] /\ a[4 + 5] = six[5] /\ a[4 + 6] = six[6]
    BY ONLY <2>2, <1>10, <1>11
  <2> QED BY ONLY <2>1, <2>3, <1>10, <1>11
<1>14. /\ c \in Bytes /\ Len(c) = 12 /\ \A k \in 1..10 : c[k] = a[k]
       /\ c[11] = l[1] /\ c[12] = l[2]
  <2>0. a \in Bytes /\ l \in Bytes
    BY ONLY <1>12, <1>13
  <2>1. c \in Bytes /\ Len(c) = Len(a) + Len(l) /\ \A k \in 1..Len(a) : c[k] = a[k]
    BY ONLY <1>8, <2>0, Joined DEF Bytes
  <2>2. \A k \in 1..Len(l) : c[Len(a) + k] = l[k]
    BY ONLY <1>8, <2>0, JoinedAt DEF Bytes
  <2>3. c[10 + 1] = l[1] /\ c[10 + 2] = l[2]
    BY ONLY <2>2, <1>12, <1>13
  <2> QED BY ONLY <2>1, <2>3, <1>12, <1>13
<1>15. /\ f \in Bytes /\ Len(f) = 12 + Len(d) /\ \A k \in 1..12 : f[k] = c[k]
       /\ \A k \in 1..Len(d) : f[12 + k] = d[k]
  <2>0. c \in Bytes /\ d \in Bytes
    BY ONLY <1>3, <1>14
  <2>1. f \in Bytes /\ Len(f) = Len(c) + Len(d) /\ \A k \in 1..Len(c) : f[k] = c[k]
    BY ONLY <1>9, <2>0, Joined DEF Bytes
  <2>2. \A k \in 1..Len(d) : f[Len(c) + k] = d[k]
    BY ONLY <1>9, <2>0, JoinedAt DEF Bytes
  <2> QED BY ONLY <2>1, <2>2, <1>14
<1>16. /\ f[1] = 13 /\ f[2] = 240 /\ f[3] = h[3] /\ f[4] = h[4] /\ f[5] = 0
       /\ f[9] = m.service /\ f[10] = m.message /\ f[11] = l[1] /\ f[12] = l[2]
  BY ONLY <1>10, <1>11, <1>13, <1>14, <1>15
<1>17. Kinp!FrameLen(f) = 12 + Len(d)
  <2>1. h[3] \in Nat /\ h[4] \in Nat
    <3>1. \A k \in 1..4 : h[k] \in Kinp!Byte
      BY ONLY <1>10, Element, ZenonT(30) DEF Bytes
    <3>2. h[3] \in Kinp!Byte /\ h[4] \in Kinp!Byte
      BY ONLY <3>1
    <3> QED BY <3>2, ByteBounds
  <2>2. Kinp!FrameLen(f) = 4 + h[3] + 256 * h[4]
    BY ONLY <1>16 DEF Kinp!FrameLen
  <2> QED BY ONLY <1>3, <1>10, <2>1, <2>2
<1>18. f = Kinp!SyntheticFrame(m)
  BY <1>2, <1>3, <1>4, <1>5, <1>6, <1>7, <1>8, <1>9, Zenon DEF Kinp!SyntheticFrame
<1>19. IsSynthetic(f, m)
  BY ONLY <1>2, <1>12, <1>15, <1>16, <1>17 DEF IsSynthetic
<1> QED BY <1>18, <1>19

-----------------------------------------------------------------------------
(***************************************************************************)
(* The decoder.                                                            *)
(***************************************************************************)

Directions == Sockets \cup {"send", "recv"}

Returned == [dir : Directions, kind : Kinp!MessageType, payload : Bytes]

KinpTypes ==
  /\ streams \in [Kinp!Keys -> Bytes]
  /\ raw = <<>> \/ \E key \in Kinp!Keys, dir \in Directions : raw = <<key, dir>>
  /\ messages \in [Kinp!Keys -> Seq(Returned)]
  /\ \A key \in Kinp!Keys : \A k \in 1..Len(messages[key]) :
       messages[key][k].kind.type = "Dml" => Len(messages[key][k].payload) >= 8
  /\ pos \in [Sockets -> Nat] /\ split \in [Sockets -> SUBSET Nat]
  /\ sent \in Seq(Message) /\ Len(sent) <= MaxSent

\* What process leaves of a stream when it returns.
Settled(b) == ~Kinp!Whole(b) /\ Kinp!Resync(b) = b

AtRest(key) == raw = <<>> \/ raw[1] # key

RestInv == \A key \in Kinp!Keys : AtRest(key) => Settled(streams[key])

\* Where the bytes kept of socket s start in its stream.
Off(s) == pos[s] - Len(streams[s])

\* The bytes kept are the last that were captured.
Placed(s) ==
  /\ pos[s] <= Len(Wire[s]) /\ split[s] \subseteq 1..Len(Wire[s])
  /\ Len(streams[s]) <= pos[s]
  /\ \A k \in 1..Len(streams[s]) : streams[s][k] = Wire[s][Off(s) + k]

\* A capture that ended in a signal has been noted.
CutNoted(s) == pos[s] > 0 /\ Kinp!SignalAt(Wire[s], pos[s]) => pos[s] \in split[s]

\* A frame whose first byte is gone was returned, or lost for a reason.
Excused(s, k) ==
  \/ Kinp!FrameStart(s, k) \in split[s]
  \/ \E f \in Kinp!FalseSignals(s) : Kinp!FrameStart(s, k) \in Kinp!Claim(s, f)
  \/ Kinp!Shown(s, k)

Accounted(s) ==
  \A k \in 1..Len(Payloads[s]) : Kinp!FrameStart(s, k) <= Off(s) => Excused(s, k)

\* A stream met at the start of a frame is kept from the start of a frame.
InStep(s) ==
  FrameEnd[s][0] = 0 =>
    /\ Len(messages[s]) <= Len(Payloads[s])
    /\ Off(s) = FrameEnd[s][Len(messages[s])]
    /\ \A k \in 1..Len(messages[s]) : messages[s][k].payload = Payloads[s][k]

SocketInv(s) == Placed(s) /\ CutNoted(s) /\ Accounted(s) /\ InStep(s)

\* The message of the plaintext stream is m.
IsMessage(got, m) ==
  /\ got.dir = m.dir /\ Len(got.payload) = 8 + Len(m.data)
  /\ \A k \in 1..Len(m.data) : got.payload[8 + k] = m.data[k]
  /\ m.service \in 1..99 =>
       got.kind = [type |-> "Dml", service |-> m.service, message |-> m.message,
                   length |-> Len(m.data) + 4]

PlainInv ==
  LET key == Kinp!Plaintext
  IN /\ \A k \in 1..Len(messages[key]) : k <= Len(sent) /\ IsMessage(messages[key][k], sent[k])
     /\ \/ streams[key] = <<>> /\ Len(messages[key]) = Len(sent)
        \/ /\ raw = <<key, sent[Len(sent)].dir>> /\ Len(sent) = Len(messages[key]) + 1
           /\ IsSynthetic(streams[key], sent[Len(sent)])

KinpInv == KinpTypes /\ RestInv /\ (\A s \in Sockets : SocketInv(s)) /\ PlainInv

LEMMA KeysAre ==
  /\ Kinp!Plaintext \in Kinp!Keys /\ Kinp!Plaintext \notin Sockets /\ Sockets \subseteq Kinp!Keys
  /\ \A key \in Kinp!Keys : key \in Sockets \/ key = Kinp!Plaintext
BY TheStreams DEF Kinp!Keys

LEMMA TypesOfKey ==
  ASSUME KinpTypes, NEW key \in Kinp!Keys
  PROVE  /\ streams[key] \in Bytes /\ Len(streams[key]) \in Nat
         /\ messages[key] \in Seq(Returned) /\ Len(messages[key]) \in Nat
         /\ DOMAIN messages[key] = 1..Len(messages[key])
<1>1. streams[key] \in Bytes /\ messages[key] \in Seq(Returned)
  BY DEF KinpTypes
<1> QED BY <1>1 DEF Bytes

LEMMA EmptySettled == Settled(<<>>)
<1>1. ~(Len(<<>>) >= 4) /\ Len(<<>>) < 4
  OBVIOUS
<1> QED BY <1>1 DEF Settled, Kinp!Whole, Kinp!Resync

LEMMA KinpStarts == Kinp!Init => KinpInv
<1> SUFFICES ASSUME Kinp!Init PROVE KinpInv
  OBVIOUS
<1>1. /\ streams = [k \in Kinp!Keys |-> <<>>] /\ raw = <<>>
      /\ messages = [k \in Kinp!Keys |-> <<>>] /\ pos = [s \in Sockets |-> 0]
      /\ split = [s \in Sockets |-> {}] /\ sent = <<>>
  BY DEF Kinp!Init
<1>2. \A key \in Kinp!Keys : streams[key] = <<>> /\ messages[key] = <<>>
  BY <1>1
<1>3. <<>> \in Bytes /\ <<>> \in Seq(Returned) /\ <<>> \in Seq(Message)
      /\ Len(<<>>) = 0 /\ 1..0 = {} /\ MaxSent \in Nat
  BY TheStreams DEF Bytes
<1>4. KinpTypes
  <2>1. streams \in [Kinp!Keys -> Bytes] /\ messages \in [Kinp!Keys -> Seq(Returned)]
    BY ONLY <1>1, <1>3, Zenon
  <2>2. pos \in [Sockets -> Nat] /\ split \in [Sockets -> SUBSET Nat]
    BY <1>1
  <2>3. sent \in Seq(Message) /\ Len(sent) <= MaxSent
    BY <1>1, <1>3
  <2>4. \A key \in Kinp!Keys : \A k \in 1..Len(messages[key]) :
          messages[key][k].kind.type = "Dml" => Len(messages[key][k].payload) >= 8
    BY <1>2, <1>3
  <2> QED BY <1>1, <2>1, <2>2, <2>3, <2>4 DEF KinpTypes
<1>5. RestInv
  BY <1>2, EmptySettled DEF RestInv
<1>6. ASSUME NEW s \in Sockets PROVE SocketInv(s)
  <2>1. streams[s] = <<>> /\ messages[s] = <<>> /\ pos[s] = 0 /\ split[s] = {}
    BY <1>1, <1>2, KeysAre
  <2>2. Off(s) = 0
    <3>1. Len(streams[s]) = 0 /\ 0 - 0 = 0
      BY <1>3, <2>1
    <3> QED BY <2>1, <3>1 DEF Off
  <2>3. Placed(s)
    BY <1>3, <2>1, <2>2, FramesOf DEF Placed
  <2>4. CutNoted(s)
    BY <2>1 DEF CutNoted
  <2>5. Accounted(s)
    <3>1. \A k \in 1..Len(Payloads[s]) : Kinp!FrameStart(s, k) > 0
      BY FrameBytes
    <3>2. \A k \in 1..Len(Payloads[s]) : ~(Kinp!FrameStart(s, k) <= 0)
      BY FrameBytes
    <3> QED BY <2>2, <3>2 DEF Accounted
  <2>6. InStep(s)
    BY <1>3, <2>1, <2>2, FramesOf DEF InStep
  <2> QED BY <2>3, <2>4, <2>5, <2>6 DEF SocketInv
<1>7. PlainInv
  BY <1>1, <1>2, <1>3, KeysAre DEF PlainInv
<1> QED BY <1>4, <1>5, <1>6, <1>7 DEF KinpInv

\* What an iteration takes of the buffer b: d bytes are dropped, the frame of n bytes behind
\* them has the payload p, and rest is kept.
FrameIn(b, d, n, p, rest) ==
  /\ d \in Nat /\ n \in Nat /\ n >= 4 /\ d + n <= Len(b)
  /\ p \in Bytes /\ Len(p) = n - 4 /\ \A k \in 1..(n - 4) : p[k] = b[d + 4 + k]
  /\ rest \in Bytes /\ Len(rest) = Len(b) - d - n
  /\ \A k \in 1..Len(rest) : rest[k] = b[d + n + k]
  /\ \A k \in 1..d : ~Kinp!SignalAt(b, k)
  /\ b[d + 1] = 13 /\ b[d + 2] = 240 /\ n = 4 + b[d + 3] + 256 * b[d + 4]
  /\ Kinp!SignalAt(b, 1) => d = 0

LEMMA OneFrame ==
  ASSUME NEW b \in Bytes, NEW r, r = Kinp!Resync(b), Kinp!Whole(r)
  PROVE  \E d, n \in Nat :
           /\ FrameIn(b, d, n, SubSeq(r, 5, Kinp!FrameLen(r)), SubSeq(r, Kinp!FrameLen(r) + 1, Len(r)))
           /\ n = Kinp!FrameLen(r)
<1> DEFINE n == Kinp!FrameLen(r)
           d == Len(b) - Len(r)
           p == SubSeq(r, 5, n)
           rest == SubSeq(r, n + 1, Len(r))
<1>1. /\ r \in Bytes /\ d \in 0..Len(b) /\ Len(r) \in Nat /\ Len(b) \in Nat
      /\ \A k \in 1..Len(r) : r[k] = b[d + k]
      /\ \A k \in 1..d : ~Kinp!SignalAt(b, k)
      /\ Len(r) >= 4 => Kinp!SignalAt(r, 1)
      /\ Kinp!SignalAt(b, 1) => r = b
  <2>1. Len(b) \in Nat
    BY DEF Bytes
  <2> QED BY <2>1, Resynchronised
<1>2. Len(r) >= 4 /\ Len(r) >= n
  BY DEF Kinp!Whole
<1>3. r[3] \in Nat /\ r[4] \in Nat
  <2>1. 3 \in 1..Len(r) /\ 4 \in 1..Len(r)
    BY <1>1, <1>2
  <2>2. r[3] \in Kinp!Byte /\ r[4] \in Kinp!Byte
    BY <1>1, <2>1, Element DEF Bytes
  <2> QED BY <2>2, ByteBounds
<1>4. n = 4 + r[3] + 256 * r[4] /\ n \in Nat /\ n >= 4
  BY <1>3 DEF Kinp!FrameLen
<1>5. d = Len(b) - Len(r)
  OBVIOUS
<1>6. /\ p \in Bytes /\ Len(p) = n - 4 /\ \A k \in 1..(n - 4) : p[k] = r[4 + k]
  <2> HIDE DEF n
  <2>1. 5 \in 1..(Len(r) + 1) /\ n \in (5 - 1)..Len(r) /\ n - 5 + 1 = n - 4
    BY <1>1, <1>2, <1>4
  <2>2. p \in Bytes /\ Len(p) = n - 5 + 1 /\ \A k \in 1..(n - 5 + 1) : p[k] = r[5 + k - 1]
    BY ONLY <1>1, <2>1, Part DEF Bytes
  <2> HIDE DEF p
  <2>3. \A k \in 1..(n - 4) : 5 + k - 1 = 4 + k
    OBVIOUS
  <2> QED BY ONLY <2>1, <2>2, <2>3
<1>7. /\ rest \in Bytes /\ Len(rest) = Len(r) - n /\ \A k \in 1..Len(rest) : rest[k] = r[n + k]
  <2> HIDE DEF n
  <2>1. n + 1 \in 1..(Len(r) + 1) /\ Len(r) \in (n + 1 - 1)..Len(r) /\ Len(r) - (n + 1) + 1 = Len(r) - n
    BY <1>1, <1>2, <1>4
  <2>2. rest \in Bytes /\ Len(rest) = Len(r) - (n + 1) + 1
        /\ \A k \in 1..(Len(r) - (n + 1) + 1) : rest[k] = r[n + 1 + k - 1]
    BY ONLY <1>1, <2>1, Part DEF Bytes
  <2> HIDE DEF rest
  <2>3. \A k \in 1..(Len(r) - n) : n + 1 + k - 1 = n + k
    BY <1>4
  <2> QED BY ONLY <2>1, <2>2, <2>3
<1> HIDE DEF n, d, p, rest
<1>8. d \in Nat /\ d + n <= Len(b) /\ Len(rest) = Len(b) - d - n
  BY <1>1, <1>2, <1>4, <1>5, <1>7
<1>9. \A k \in 1..(n - 4) : p[k] = b[d + 4 + k]
  <2> TAKE k \in 1..(n - 4)
  <2>1. 4 + k \in 1..Len(r) /\ d + (4 + k) = d + 4 + k
    BY <1>1, <1>2, <1>4, <1>8
  <2> QED BY <1>1, <1>6, <2>1
<1>10. \A k \in 1..Len(rest) : rest[k] = b[d + n + k]
  <2> TAKE k \in 1..Len(rest)
  <2>0. k \in 1..(Len(r) - n)
    BY ONLY <1>7, k \in 1..Len(rest)
  <2>1. n + k \in 1..Len(r) /\ d + (n + k) = d + n + k
    <3>1. n \in Nat /\ d \in Nat /\ Len(r) \in Nat
      BY ONLY <1>1, <1>4, <1>8
    <3>2. k \in Nat /\ 1 <= k /\ n + k <= Len(r)
      BY ONLY <2>0, <3>1
    <3> QED BY ONLY <3>1, <3>2
  <2> QED BY <1>1, <1>7, <2>1
<1>11. b[d + 1] = 13 /\ b[d + 2] = 240 /\ n = 4 + b[d + 3] + 256 * b[d + 4]
  <2>1. Kinp!SignalAt(r, 1)
    BY <1>1, <1>2
  <2>2. r[1] = 13 /\ r[2] = 240
    BY <1>1, <2>1, SignalBytes
  <2>3. r[1] = b[d + 1] /\ r[2] = b[d + 2] /\ r[3] = b[d + 3] /\ r[4] = b[d + 4]
    BY <1>1, <1>2
  <2> QED BY <1>4, <2>2, <2>3
<1>12. Kinp!SignalAt(b, 1) => d = 0
  BY <1>1, <1>5
<1>13. FrameIn(b, d, n, p, rest)
  BY <1>1, <1>4, <1>6, <1>7, <1>8, <1>9, <1>10, <1>11, <1>12 DEF FrameIn
<1> QED BY <1>4, <1>8, <1>13 DEF n, p, rest

\* What TakeFrame does.
LEMMA FrameTaken ==
  ASSUME KinpTypes, Kinp!TakeFrame
  PROVE  \E key \in Kinp!Keys, dir \in Directions, d, n \in Nat : \E p, rest \in Bytes :
           /\ raw = <<key, dir>> /\ FrameIn(streams[key], d, n, p, rest)
           /\ streams' = [streams EXCEPT ![key] = rest]
           /\ messages' = [messages EXCEPT ![key] =
                Append(@, [dir |-> dir, kind |-> Kinp!MsgType(p), payload |-> p])]
<1>1. raw # <<>>
  BY DEF Kinp!TakeFrame
<1>2. PICK key \in Kinp!Keys, dir \in Directions : raw = <<key, dir>>
  BY <1>1 DEF KinpTypes
<1>3. raw[1] = key /\ raw[2] = dir
  BY <1>2
<1> DEFINE r == Kinp!Resync(streams[key])
           p == SubSeq(r, 5, Kinp!FrameLen(r))
           rest == SubSeq(r, Kinp!FrameLen(r) + 1, Len(r))
<1>4. /\ Kinp!Whole(r)
      /\ streams' = [streams EXCEPT ![key] = rest]
      /\ messages' = [messages EXCEPT ![key] =
           Append(@, [dir |-> dir, kind |-> Kinp!MsgType(p), payload |-> p])]
  BY <1>3, Zenon DEF Kinp!TakeFrame
<1>5. streams[key] \in Bytes
  BY TypesOfKey
<1>6. PICK d, n \in Nat : FrameIn(streams[key], d, n, p, rest)
  <2>1. PICK q : q = r
    OBVIOUS
  <2>2. \E d, n \in Nat :
          FrameIn(streams[key], d, n, SubSeq(q, 5, Kinp!FrameLen(q)), SubSeq(q, Kinp!FrameLen(q) + 1, Len(q)))
    BY ONLY <1>4, <1>5, <2>1, OneFrame, Zenon
  <2> QED BY ONLY <2>1, <2>2, Zenon
<1> HIDE DEF p, rest
<1>7. p \in Bytes /\ rest \in Bytes
  BY <1>6 DEF FrameIn
<1> QED BY <1>2, <1>4, <1>6, <1>7, Zenon

\* What Return does: the rest of the stream in process is settled, the others are.
LEMMA Settles ==
  ASSUME KinpTypes, RestInv, Kinp!Return
  PROVE  \E key \in Kinp!Keys :
           /\ raw # <<>> /\ raw[1] = key /\ raw' = <<>>
           /\ Settled(Kinp!Resync(streams[key]))
           /\ streams' = [streams EXCEPT ![key] = Kinp!Resync(streams[key])]
           /\ UNCHANGED <<messages, pos, split, sent>>
<1>1. raw # <<>>
  BY DEF Kinp!Return
<1>2. PICK key \in Kinp!Keys, dir \in Directions : raw = <<key, dir>>
  BY <1>1 DEF KinpTypes
<1>3. raw[1] = key
  BY <1>2
<1> DEFINE r == Kinp!Resync(streams[key])
<1>4. /\ ~Kinp!Whole(r) /\ raw' = <<>> /\ UNCHANGED <<messages, pos, split, sent>>
      /\ streams' = [k \in Kinp!Keys |-> Kinp!Capped(IF k = key THEN r ELSE streams[k])]
  BY <1>3, Zenon DEF Kinp!Return
<1>5. r \in Bytes /\ Kinp!Resync(r) = r
  BY TypesOfKey, Resynchronised
<1> HIDE DEF r
<1>6. ASSUME NEW k \in Kinp!Keys
      PROVE  Kinp!Capped(IF k = key THEN r ELSE streams[k]) = IF k = key THEN r ELSE streams[k]
  <2>1. CASE k = key
    <3>1. Kinp!Capped(r) = r
      BY <1>4, <1>5, NeverCapped
    <3> QED BY <2>1, <3>1
  <2>2. CASE k # key
    <3>1. Settled(streams[k])
      BY <1>3, <2>2 DEF RestInv, AtRest
    <3>2. streams[k] \in Bytes /\ ~Kinp!Whole(streams[k])
      BY <3>1, TypesOfKey DEF Settled
    <3>3. Kinp!Capped(streams[k]) = streams[k]
      BY <3>2, NeverCapped
    <3> QED BY <2>2, <3>3
  <2> QED BY <2>1, <2>2
<1>7. streams' = [streams EXCEPT ![key] = r]
  <2>1. streams \in [Kinp!Keys -> Bytes]
    BY DEF KinpTypes
  <2>2. streams' = [k \in Kinp!Keys |-> IF k = key THEN r ELSE streams[k]]
    BY <1>4, <1>6
  <2> QED BY <2>1, <2>2
<1>8. Settled(r)
  BY <1>4, <1>5 DEF Settled
<1> QED BY <1>1, <1>3, <1>4, <1>7, <1>8 DEF r

LEMMA SameSocket ==
  ASSUME NEW s \in Sockets, SocketInv(s), streams'[s] = streams[s], messages'[s] = messages[s],
         pos'[s] = pos[s], split'[s] = split[s]
  PROVE  SocketInv(s)'
<1>1. Off(s)' = Off(s)
  BY DEF Off
<1>2. \A k : Excused(s, k) => Excused(s, k)'
  BY DEF Excused, Kinp!Shown
<1>3. Placed(s)'
  BY <1>1 DEF SocketInv, Placed
<1>4. CutNoted(s)'
  BY DEF SocketInv, CutNoted
<1>5. Accounted(s)'
  BY <1>1, <1>2 DEF SocketInv, Accounted
<1>6. InStep(s)'
  BY <1>1 DEF SocketInv, InStep
<1> QED BY <1>3, <1>4, <1>5, <1>6 DEF SocketInv

LEMMA SamePlain ==
  ASSUME PlainInv, UNCHANGED <<raw, sent>>, streams'[Kinp!Plaintext] = streams[Kinp!Plaintext],
         messages'[Kinp!Plaintext] = messages[Kinp!Plaintext]
  PROVE  PlainInv'
BY DEF PlainInv

LEMMA KinpSame == ASSUME KinpInv, UNCHANGED decoderVars PROVE KinpInv'
<1>1. UNCHANGED <<streams, raw, messages, pos, split, sent>>
  BY DEF decoderVars
<1>2. KinpTypes' /\ RestInv'
  BY <1>1 DEF KinpInv, KinpTypes, RestInv, AtRest
<1>3. ASSUME NEW s \in Sockets PROVE SocketInv(s)'
  BY <1>1, SameSocket DEF KinpInv
<1>4. PlainInv'
  BY <1>1, SamePlain DEF KinpInv
<1> QED BY <1>2, <1>3, <1>4 DEF KinpInv

\* What process does with new bytes before its loop.
LEMMA BytesCome ==
  ASSUME KinpTypes, RestInv, NEW key \in Kinp!Keys, NEW bytes \in Bytes, NEW dir \in Directions,
         Kinp!Process(key, bytes, dir)
  PROVE  /\ streams' \in [Kinp!Keys -> Bytes] /\ streams'[key] = streams[key] \o bytes
         /\ \A k \in Kinp!Keys : k # key => streams'[k] = streams[k]
         /\ raw = <<>> /\ raw' = <<key, dir>> /\ messages' = messages
         /\ RestInv'
<1>1. /\ raw = <<>> /\ raw' = <<key, dir>> /\ messages' = messages
      /\ streams' = [streams EXCEPT ![key] = @ \o bytes]
  BY DEF Kinp!Process
<1>2. streams \in [Kinp!Keys -> Bytes]
  BY DEF KinpTypes
<1>3. streams[key] \o bytes \in Bytes
  BY <1>2, Joined DEF Bytes
<1>4. streams' \in [Kinp!Keys -> Bytes] /\ streams'[key] = streams[key] \o bytes
      /\ \A k \in Kinp!Keys : k # key => streams'[k] = streams[k]
  BY <1>1, <1>2, <1>3
<1>5. RestInv'
  <2> SUFFICES ASSUME NEW k \in Kinp!Keys, AtRest(k)' PROVE Settled(streams[k])'
    BY DEF RestInv
  <2>1. k # key
    <3>1. raw' # <<>> /\ raw'[1] = key
      BY <1>1
    <3> QED BY <3>1 DEF AtRest
  <2>2. Settled(streams[k])
    BY <1>1 DEF RestInv, AtRest
  <2>3. streams'[k] = streams[k]
    BY <1>4, <2>1
  <2> QED BY <2>2, <2>3
<1> QED BY <1>1, <1>4, <1>5

LEMMA CaptureInv ==
  ASSUME KinpInv, NEW s \in Sockets, Kinp!Capture(s) PROVE KinpInv'
<1> DEFINE b == streams[s]
           w == Wire[s]
<1>1. KinpTypes /\ RestInv /\ SocketInv(s) /\ (\A q \in Sockets : SocketInv(q)) /\ PlainInv
  BY DEF KinpInv
<1>2. PICK n \in 1..(Len(w) - pos[s]) :
        /\ Kinp!Process(s, SubSeq(w, pos[s] + 1, pos[s] + n), s)
        /\ pos' = [pos EXCEPT ![s] = @ + n]
        /\ split' = [split EXCEPT ![s] =
             IF Kinp!SignalAt(w, pos[s] + n) THEN @ \cup {pos[s] + n} ELSE @]
  BY DEF Kinp!Capture
<1>3. sent' = sent
  BY DEF Kinp!Capture
<1> DEFINE m == SubSeq(w, pos[s] + 1, pos[s] + n)
<1>4. /\ w \in Bytes /\ Len(w) \in Nat /\ pos[s] \in Nat /\ pos[s] <= Len(w) /\ n \in Nat
      /\ n >= 1 /\ pos[s] + n <= Len(w) /\ pos[s] + n \in Nat
      /\ pos \in [Sockets -> Nat] /\ split \in [Sockets -> SUBSET Nat]
  <2>1. w \in Bytes /\ Len(w) \in Nat
    BY FramesOf
  <2>2. pos[s] \in Nat /\ pos[s] <= Len(w) /\ pos \in [Sockets -> Nat]
        /\ split \in [Sockets -> SUBSET Nat]
    BY <1>1 DEF SocketInv, Placed, KinpTypes
  <2> QED BY <2>1, <2>2
<1> HIDE DEF w
<1>5. m \in Bytes /\ Len(m) = n /\ \A k \in 1..n : m[k] = w[pos[s] + k]
  <2>1. PICK u, v : u = pos[s] + 1 /\ v = pos[s] + n
    OBVIOUS
  <2>2. u \in 1..(Len(w) + 1) /\ v \in (u - 1)..Len(w)
    BY ONLY <1>4, <2>1
  <2>3. v - u + 1 = n /\ \A k \in 1..n : u + k - 1 = pos[s] + k
    <3>1. pos[s] \in Nat /\ n \in Nat
      BY <1>4
    <3>2. \A x, y \in Nat : (x + y) - (x + 1) + 1 = y
      OBVIOUS
    <3>3. \A x, y \in Nat : x + 1 + y - 1 = x + y
      OBVIOUS
    <3>4. v - u + 1 = n
      BY ONLY <2>1, <3>1, <3>2, Zenon
    <3>5. \A k \in 1..n : k \in Nat
      BY ONLY <3>1
    <3>6. \A k \in 1..n : u + k - 1 = pos[s] + k
      BY ONLY <2>1, <3>1, <3>3, <3>5, Zenon
    <3> QED BY ONLY <3>4, <3>6
  <2>4. /\ SubSeq(w, u, v) \in Bytes /\ Len(SubSeq(w, u, v)) = v - u + 1
        /\ \A k \in 1..(v - u + 1) : SubSeq(w, u, v)[k] = w[u + k - 1]
    BY ONLY <1>4, <2>2, Part DEF Bytes
  <2>5. m = SubSeq(w, u, v)
    BY ONLY <2>1
  <2> HIDE DEF m
  <2>6. /\ m \in Bytes /\ Len(m) = n /\ \A k \in 1..n : m[k] = w[u + k - 1]
    BY ONLY <2>3, <2>4, <2>5
  <2> QED BY ONLY <2>3, <2>6
<1>6. Kinp!Process(s, m, s)
  BY <1>2
<1> HIDE DEF m
<1>7. s \in Kinp!Keys /\ s \in Directions /\ s # Kinp!Plaintext
  BY KeysAre DEF Directions
<1>8. /\ streams' \in [Kinp!Keys -> Bytes] /\ streams'[s] = b \o m
      /\ \A k \in Kinp!Keys : k # s => streams'[k] = streams[k]
      /\ raw = <<>> /\ raw' = <<s, s>> /\ messages' = messages /\ RestInv'
  BY ONLY <1>1, <1>5, <1>6, <1>7, BytesCome
<1>9. /\ pos' \in [Sockets -> Nat] /\ split' \in [Sockets -> SUBSET Nat]
      /\ pos'[s] = pos[s] + n
      /\ split'[s] = IF Kinp!SignalAt(w, pos[s] + n) THEN split[s] \cup {pos[s] + n} ELSE split[s]
      /\ \A q \in Sockets : q # s => pos'[q] = pos[q] /\ split'[q] = split[q]
  BY <1>2, <1>4 DEF w
<1>10. KinpTypes'
  BY <1>1, <1>3, <1>7, <1>8, <1>9 DEF KinpTypes
<1>11. b \in Bytes /\ Len(b) \in Nat /\ Len(b) <= pos[s] /\ Off(s) \in Nat
       /\ \A k \in 1..Len(b) : b[k] = w[Off(s) + k]
  <2>1. b \in Bytes /\ Len(b) \in Nat
    BY <1>1, <1>7, TypesOfKey
  <2>2. Len(b) <= pos[s] /\ \A k \in 1..Len(b) : b[k] = w[Off(s) + k]
    BY <1>1 DEF SocketInv, Placed, w
  <2> QED BY <1>4, <2>1, <2>2 DEF Off
<1>12. Off(s) = pos[s] - Len(b)
  BY DEF Off
<1> HIDE DEF b
<1>13. PICK c : c = b \o m
  OBVIOUS
<1>14. /\ c \in Bytes /\ Len(c) = Len(b) + n /\ (\A k \in 1..Len(b) : c[k] = b[k])
       /\ \A k \in 1..n : c[Len(b) + k] = m[k]
  <2>1. c \in Bytes /\ Len(c) = Len(b) + Len(m) /\ \A k \in 1..Len(b) : c[k] = b[k]
    BY ONLY <1>5, <1>11, <1>13, Joined DEF Bytes
  <2>2. \A k \in 1..Len(m) : c[Len(b) + k] = m[k]
    BY ONLY <1>5, <1>11, <1>13, JoinedAt DEF Bytes
  <2> QED BY ONLY <1>5, <2>1, <2>2
<1>15. Off(s)' = Off(s)
  <2>0. streams'[s] = c /\ pos'[s] = pos[s] + n
    BY <1>8, <1>9, <1>13
  <2>1. Off(s)' = pos[s] + n - Len(c)
    BY ONLY <1>4, <1>14, <2>0, SMTT(30) DEF Off
  <2> QED BY ONLY <1>4, <1>11, <1>12, <1>14, <2>1
<1>16. Placed(s)'
  <2>1. \A k \in 1..Len(c) : c[k] = w[Off(s) + k]
    <3> TAKE k \in 1..Len(c)
    <3>1. CASE k <= Len(b)
      BY ONLY <3>1, <1>11, <1>14
    <3>2. CASE k > Len(b)
      <4>1. k - Len(b) \in 1..n /\ Len(b) + (k - Len(b)) = k
            /\ pos[s] + (k - Len(b)) = Off(s) + k
        BY ONLY <3>2, <1>4, <1>11, <1>12, <1>14
      <4>2. c[Len(b) + (k - Len(b))] = w[pos[s] + (k - Len(b))]
        BY ONLY <4>1, <1>5, <1>14
      <4> QED BY ONLY <4>1, <4>2
    <3> QED BY ONLY <3>1, <3>2, <1>11, <1>14
  <2>2. Len(c) <= pos[s] + n
    BY ONLY <1>4, <1>11, <1>14
  <2>3. split'[s] \subseteq 1..Len(w)
    <3>1. split[s] \subseteq 1..Len(w) /\ pos[s] + n \in 1..Len(w)
      BY <1>1, <1>4 DEF SocketInv, Placed, w
    <3> QED BY ONLY <3>1, <1>9
  <2> QED BY <1>4, <1>8, <1>9, <1>13, <1>15, <2>1, <2>2, <2>3 DEF Placed, w, b
<1>17. CutNoted(s)'
  BY <1>9 DEF CutNoted, w
<1>18. \A k : Excused(s, k) => Excused(s, k)'
  BY <1>8, <1>9 DEF Excused, Kinp!Shown
<1>19. Accounted(s)'
  BY <1>1, <1>15, <1>18 DEF SocketInv, Accounted
<1>20. InStep(s)'
  BY <1>1, <1>8, <1>15 DEF SocketInv, InStep
<1>21. ASSUME NEW q \in Sockets PROVE SocketInv(q)'
  <2>1. CASE q = s
    BY <2>1, <1>16, <1>17, <1>19, <1>20 DEF SocketInv
  <2>2. CASE q # s
    <3>1. q \in Kinp!Keys /\ streams'[q] = streams[q] /\ messages'[q] = messages[q]
          /\ pos'[q] = pos[q] /\ split'[q] = split[q] /\ SocketInv(q)
      BY <2>2, <1>1, <1>8, <1>9, KeysAre
    <3> QED BY <3>1, SameSocket
  <2> QED BY <2>1, <2>2
<1>22. PlainInv'
  <2>1. streams'[Kinp!Plaintext] = streams[Kinp!Plaintext] /\ messages' = messages
    BY <1>7, <1>8, KeysAre
  <2>2. streams[Kinp!Plaintext] = <<>> /\ Len(messages[Kinp!Plaintext]) = Len(sent)
    <3>1. raw # <<Kinp!Plaintext, sent[Len(sent)].dir>>
      BY <1>8
    <3> QED BY <1>1, <3>1 DEF PlainInv
  <2> QED BY <1>1, <1>3, <2>1, <2>2 DEF PlainInv
<1> QED BY <1>8, <1>10, <1>21, <1>22 DEF KinpInv

LEMMA SendInv == ASSUME KinpInv, Kinp!SendKinpFrame PROVE KinpInv'
<1> DEFINE key == Kinp!Plaintext
<1>1. KinpTypes /\ RestInv /\ (\A s \in Sockets : SocketInv(s)) /\ PlainInv
  BY DEF KinpInv
<1>2. PICK svc \in Services, d \in Fields, dir \in {"send", "recv"} :
        LET m == [service |-> svc, message |-> Len(sent) % 256, data |-> d, dir |-> dir]
        IN sent' = Append(sent, m) /\ Kinp!Process(key, Kinp!SyntheticFrame(m), dir)
  BY DEF Kinp!SendKinpFrame
<1>3. Len(sent) < MaxSent /\ UNCHANGED <<pos, split>>
  BY DEF Kinp!SendKinpFrame
<1>4. PICK m : m = [service |-> svc, message |-> Len(sent) % 256, data |-> d, dir |-> dir]
  OBVIOUS
<1>5. sent \in Seq(Message) /\ Len(sent) \in Nat
  BY <1>1 DEF KinpTypes
<1>6. m \in Message /\ m.dir = dir
  <2>1. \A n \in Nat : n % 256 \in 0..255
    BY SMT
  <2>2. Len(sent) % 256 \in Kinp!Byte
    BY <1>5, <2>1 DEF Kinp!Byte
  <2> QED BY <1>4, <2>2 DEF Message
<1>7. PICK f : f = Kinp!SyntheticFrame(m)
  OBVIOUS
<1>8. IsSynthetic(f, m) /\ f \in Bytes
  <2>1. IsSynthetic(f, m)
    BY <1>6, <1>7, SyntheticBytes
  <2> QED BY <2>1 DEF IsSynthetic
<1>9. sent' = Append(sent, m) /\ Kinp!Process(key, f, dir)
  BY <1>2, <1>4, <1>7
<1> HIDE DEF key
<1>10. key \in Kinp!Keys /\ key \notin Sockets /\ dir \in Directions
  BY KeysAre DEF Directions, key
<1>11. /\ streams' \in [Kinp!Keys -> Bytes] /\ streams'[key] = streams[key] \o f
       /\ \A k \in Kinp!Keys : k # key => streams'[k] = streams[k]
       /\ raw = <<>> /\ raw' = <<key, dir>> /\ messages' = messages /\ RestInv'
  BY ONLY <1>1, <1>8, <1>9, <1>10, BytesCome
<1>12. /\ sent' \in Seq(Message) /\ Len(sent') = Len(sent) + 1 /\ sent'[Len(sent) + 1] = m
       /\ \A k \in 1..Len(sent) : sent'[k] = sent[k]
  BY <1>5, <1>6, <1>9, Appended
<1>13. KinpTypes'
  <2>1. Len(sent') <= MaxSent
    BY <1>3, <1>5, <1>12, TheStreams
  <2>2. /\ messages \in [Kinp!Keys -> Seq(Returned)] /\ pos \in [Sockets -> Nat]
        /\ split \in [Sockets -> SUBSET Nat]
        /\ \A q \in Kinp!Keys : \A k \in 1..Len(messages[q]) :
             messages[q][k].kind.type = "Dml" => Len(messages[q][k].payload) >= 8
    BY <1>1 DEF KinpTypes
  <2> QED BY <1>3, <1>10, <1>11, <1>12, <2>1, <2>2 DEF KinpTypes
<1>14. ASSUME NEW s \in Sockets PROVE SocketInv(s)'
  <2>1. s \in Kinp!Keys /\ s # key
    BY <1>10, KeysAre
  <2> QED BY <1>1, <1>3, <1>11, <2>1, SameSocket
<1>15. PlainInv'
  <2>1. /\ streams[key] = <<>> /\ Len(messages[key]) = Len(sent)
        /\ \A k \in 1..Len(messages[key]) : k <= Len(sent) /\ IsMessage(messages[key][k], sent[k])
    <3>1. raw # <<key, sent[Len(sent)].dir>>
      BY <1>11
    <3> QED BY <1>1, <3>1 DEF PlainInv, key
  <2>2. streams'[key] = f
    <3>1. f \in Seq(Kinp!Byte)
      BY <1>8 DEF Bytes
    <3>2. <<>> \o f = f
      BY ONLY <3>1
    <3> QED BY <1>11, <2>1, <3>2
  <2>3. \A k \in 1..Len(messages[key]) : k <= Len(sent') /\ IsMessage(messages[key][k], sent'[k])
    BY <1>5, <1>12, <2>1
  <2>4. sent'[Len(sent')] = m /\ Len(sent') = Len(messages[key]) + 1
    BY <1>12, <2>1
  <2> QED BY <1>6, <1>8, <1>11, <2>2, <2>3, <2>4 DEF PlainInv, key
<1> QED BY <1>11, <1>13, <1>14, <1>15 DEF KinpInv

\* The frame of a message is whole, and starts with a signal.
LEMMA SyntheticWhole ==
  ASSUME NEW m \in Message, NEW b, IsSynthetic(b, m)
  PROVE  /\ b \in Bytes /\ Len(m.data) \in Nat /\ Kinp!SignalAt(b, 1)
         /\ Kinp!Whole(b) /\ Kinp!Resync(b) = b
<1>1. /\ b \in Bytes /\ Len(b) = 12 + Len(m.data) /\ b[1] = 13 /\ b[2] = 240
      /\ Kinp!FrameLen(b) = 12 + Len(m.data)
  BY DEF IsSynthetic
<1>2. Len(m.data) \in Nat
  <2>1. m.data \in Fields
    BY DEF Message
  <2> QED BY <2>1, FieldData
<1>3. Len(b) >= 4 /\ Len(b) >= Kinp!FrameLen(b) /\ 1 < Len(b)
  BY ONLY <1>1, <1>2
<1>4. Kinp!SignalAt(b, 1)
  <2>1. 1 \in Nat /\ 1 > 0 /\ 1 + 1 = 2
    OBVIOUS
  <2> QED BY ONLY <1>1, <1>3, <2>1, SignalBytes
<1> QED BY <1>1, <1>2, <1>3, <1>4 DEF Kinp!Whole, Kinp!Resync

LEMMA LastSent ==
  ASSUME KinpTypes, NEW key \in Kinp!Keys, Len(sent) = Len(messages[key]) + 1
  PROVE  sent[Len(sent)] \in Message
<1>1. Len(messages[key]) \in Nat /\ sent \in Seq(Message)
  BY TypesOfKey DEF KinpTypes
<1>2. Len(sent) \in 1..Len(sent)
  BY ONLY <1>1, Len(sent) = Len(messages[key]) + 1
<1> QED BY ONLY <1>1, <1>2, Element

\* The buffer of l bytes up to q starts behind o.
LEMMA InBuffer ==
  ASSUME NEW q \in Nat, NEW l \in Nat, NEW o \in Nat, o + l = q,
         NEW d \in Nat, d <= l, NEW t \in Nat, t <= o + d
  PROVE  /\ t >= q => t = q
         /\ t > o /\ t < q => /\ t - o \in 1..d /\ t - o \in Nat /\ t - o > 0 /\ t - o < l
                     /\ o + (t - o) = t /\ o + ((t - o) + 1) = t + 1
OBVIOUS

LEMMA ReturnInv == ASSUME KinpInv, Kinp!Return PROVE KinpInv'
<1>1. KinpTypes /\ RestInv /\ (\A s \in Sockets : SocketInv(s)) /\ PlainInv
  BY DEF KinpInv
<1>2. PICK key \in Kinp!Keys :
        /\ raw # <<>> /\ raw[1] = key /\ raw' = <<>>
        /\ Settled(Kinp!Resync(streams[key]))
        /\ streams' = [streams EXCEPT ![key] = Kinp!Resync(streams[key])]
        /\ UNCHANGED <<messages, pos, split, sent>>
  BY <1>1, Settles
<1>3. PICK b : b = streams[key]
  OBVIOUS
<1>4. PICK r : r = Kinp!Resync(b)
  OBVIOUS
<1>5. b \in Bytes /\ Len(b) \in Nat /\ streams \in [Kinp!Keys -> Bytes]
  BY <1>1, <1>3, TypesOfKey DEF KinpTypes
<1>6. PICK d : d = Len(b) - Len(r)
  OBVIOUS
<1>7. /\ r \in Bytes /\ d \in 0..Len(b) /\ Len(r) \in Nat
      /\ \A k \in 1..Len(r) : r[k] = b[d + k]
      /\ \A k \in 1..d : ~Kinp!SignalAt(b, k)
      /\ Len(b) < 4 \/ Kinp!SignalAt(b, 1) => r = b
  BY ONLY <1>4, <1>5, <1>6, Resynchronised
<1>8. streams' \in [Kinp!Keys -> Bytes] /\ streams'[key] = r
      /\ \A k \in Kinp!Keys : k # key => streams'[k] = streams[k]
  BY ONLY <1>2, <1>3, <1>4, <1>5, <1>7
<1>9. KinpTypes'
  BY <1>1, <1>2, <1>8 DEF KinpTypes
<1>10. RestInv'
  <2> SUFFICES ASSUME NEW k \in Kinp!Keys PROVE Settled(streams[k])'
    BY DEF RestInv
  <2>1. CASE k = key
    BY <2>1, <1>2, <1>3, <1>4, <1>8
  <2>2. CASE k # key
    <3>1. Settled(streams[k])
      BY <2>2, <1>1, <1>2 DEF RestInv, AtRest
    <3> QED BY <2>2, <3>1, <1>8
  <2> QED BY <2>1, <2>2
<1>11. ASSUME NEW s \in Sockets PROVE SocketInv(s)'
  <2>0. s \in Kinp!Keys /\ SocketInv(s)
    BY <1>1, KeysAre
  <2>1. CASE s # key
    BY <2>0, <2>1, <1>2, <1>8, SameSocket
  <2>2. CASE s = key
    <3>1. PICK w : w = Wire[s]
      OBVIOUS
    <3>2. PICK o : o = Off(s)
      OBVIOUS
    <3>3. /\ w \in Bytes /\ Len(w) \in Nat /\ pos[s] \in Nat /\ pos[s] <= Len(w)
          /\ Len(b) <= pos[s] /\ o = pos[s] - Len(b) /\ o \in Nat /\ o + Len(b) = pos[s]
          /\ \A k \in 1..Len(b) : b[k] = w[o + k]
      <4>1. w \in Bytes /\ Len(w) \in Nat
        BY <3>1, FramesOf
      <4>2. pos[s] \in Nat
        BY <1>1 DEF KinpTypes
      <4>3. pos[s] <= Len(w) /\ Len(b) <= pos[s] /\ \A k \in 1..Len(b) : b[k] = w[o + k]
        BY <2>0, <2>2, <1>3, <3>1, <3>2 DEF SocketInv, Placed
      <4>4. o = pos[s] - Len(b)
        BY <2>2, <1>3, <3>2 DEF Off
      <4>5. o \in Nat /\ o + Len(b) = pos[s]
        BY ONLY <4>2, <4>3, <4>4, <1>5
      <4> QED BY <4>1, <4>2, <4>3, <4>4, <4>5
    <3>4. streams'[s] = r /\ messages' = messages /\ pos' = pos /\ split' = split
      BY <2>2, <1>2, <1>8
    <3>5. Off(s)' = o + d /\ d \in Nat /\ d <= Len(b) /\ Len(r) = Len(b) - d
      <4>1. d \in Nat /\ d <= Len(b) /\ Len(r) = Len(b) - d
        BY ONLY <1>5, <1>6, <1>7
      <4>2. Off(s)' = pos[s] - Len(r)
        BY <3>4 DEF Off
      <4>3. \A x, y, z \in Nat : x - (y - z) = (x - y) + z
        OBVIOUS
      <4>4. pos[s] - (Len(b) - d) = (pos[s] - Len(b)) + d
        BY ONLY <3>3, <4>1, <4>3, <1>5
      <4> QED BY ONLY <3>3, <4>1, <4>2, <4>4
    <3>6. Placed(s)'
      <4>1. \A k \in 1..Len(r) : r[k] = w[o + d + k]
        <5> TAKE k \in 1..Len(r)
        <5>1. d + k \in 1..Len(b) /\ o + (d + k) = o + d + k
          BY ONLY <3>3, <3>5, <1>5, k \in 1..Len(r)
        <5>2. r[k] = b[d + k]
          BY ONLY <1>7
        <5> QED BY ONLY <3>3, <5>1, <5>2
      <4>2. Len(r) <= pos[s]
        BY ONLY <3>3, <3>5, <1>5
      <4>3. split[s] \subseteq 1..Len(w)
        BY <2>0, <3>1 DEF SocketInv, Placed
      <4> QED BY ONLY <3>1, <3>3, <3>4, <3>5, <4>1, <4>2, <4>3 DEF Placed
    <3>7. CutNoted(s)'
      BY <2>0, <3>4 DEF SocketInv, CutNoted
    <3>8. \A k : Excused(s, k) => Excused(s, k)'
      BY <3>4 DEF Excused, Kinp!Shown
    <3>9. Accounted(s)'
      <4> SUFFICES ASSUME NEW k \in 1..Len(Payloads[s]), Kinp!FrameStart(s, k) <= o + d
                   PROVE  Excused(s, k)
        BY <3>5, <3>8 DEF Accounted
      <4>1. PICK t : t = Kinp!FrameStart(s, k)
        OBVIOUS
      <4>2. /\ t \in Nat /\ t < Len(w) /\ w[t] = 13 /\ w[t + 1] = 240 /\ Kinp!SignalAt(w, t)
            /\ t > 0 /\ t <= o + d
        <5>1. /\ t \in 1..Len(w) /\ t + 3 <= Len(w) /\ w[t] = 13 /\ w[t + 1] = 240
              /\ Kinp!SignalAt(w, t)
          <6>1. /\ t \in 1..Len(Wire[s]) /\ t + 3 <= Len(Wire[s])
                /\ Wire[s][t] = 13 /\ Wire[s][t + 1] = 240 /\ Kinp!SignalAt(Wire[s], t)
            BY <4>1, FrameBytes
          <6> QED BY ONLY <6>1, <3>1
        <5>2. t \in Nat /\ t > 0 /\ t < Len(w)
          <6>1. Len(w) \in Nat
            BY <3>3
          <6> QED BY ONLY <5>1, <6>1
        <5> QED BY <4>1, <5>1, <5>2
      <4>3. CASE t <= o
        BY <4>1, <4>3, <2>0, <3>2 DEF SocketInv, Accounted
      <4>4. CASE t > o /\ t < pos[s]
        <5>1. PICK m : m = t - o
          OBVIOUS
        <5>2. m \in 1..d /\ m \in Nat /\ m > 0 /\ m < Len(b) /\ o + m = t /\ o + (m + 1) = t + 1
          <6>1. /\ t \in Nat /\ o \in Nat /\ d \in Nat /\ Len(b) \in Nat /\ pos[s] \in Nat
                /\ t > o /\ t < pos[s] /\ t <= o + d /\ d <= Len(b) /\ o + Len(b) = pos[s]
            BY ONLY <4>2, <4>4, <3>3, <3>5, <1>5
          <6>2. /\ t - o \in 1..d /\ t - o \in Nat /\ t - o > 0 /\ t - o < Len(b)
                /\ o + (t - o) = t /\ o + ((t - o) + 1) = t + 1
            BY ONLY <6>1, InBuffer
          <6> QED BY ONLY <5>1, <6>2
        <5>3. b[m] = 13 /\ b[m + 1] = 240
          <6>1. m \in 1..Len(b) /\ m + 1 \in 1..Len(b)
            BY ONLY <5>2, <1>5
          <6>2. b[m] = w[o + m] /\ b[m + 1] = w[o + (m + 1)]
            BY ONLY <6>1, <3>3
          <6> QED BY ONLY <5>2, <6>2, <4>2
        <5>4. Kinp!SignalAt(b, m)
          BY ONLY <5>2, <5>3, <1>5, SignalBytes
        <5> QED BY ONLY <5>2, <5>4, <1>7
      <4>5. CASE t >= pos[s]
        <5>1. t = pos[s]
          <6>1. /\ t \in Nat /\ o \in Nat /\ d \in Nat /\ Len(b) \in Nat /\ pos[s] \in Nat
                /\ t >= pos[s] /\ t <= o + d /\ d <= Len(b) /\ o + Len(b) = pos[s]
            BY ONLY <4>2, <4>5, <3>3, <3>5, <1>5
          <6> QED BY ONLY <6>1, InBuffer
        <5>2. t \in split[s]
          BY <2>0, <3>1, <4>2, <5>1 DEF SocketInv, CutNoted
        <5> QED BY <4>1, <5>2 DEF Excused
      <4> QED BY ONLY <4>2, <4>3, <4>4, <4>5, <3>3
    <3>10. InStep(s)'
      <4> SUFFICES ASSUME FrameEnd[s][0] = 0
                   PROVE  /\ Len(messages[s]) <= Len(Payloads[s])
                          /\ Off(s)' = FrameEnd[s][Len(messages[s])]
                          /\ \A k \in 1..Len(messages[s]) : messages[s][k].payload = Payloads[s][k]
        BY <3>4 DEF InStep
      <4>1. /\ Len(messages[s]) <= Len(Payloads[s]) /\ o = FrameEnd[s][Len(messages[s])]
            /\ \A k \in 1..Len(messages[s]) : messages[s][k].payload = Payloads[s][k]
        BY <2>0, <3>2 DEF SocketInv, InStep
      <4>2. d = 0
        <5>1. PICK n : n = Len(messages[s])
          OBVIOUS
        <5>2. n \in Nat /\ n <= Len(Payloads[s]) /\ o = FrameEnd[s][n]
          BY <1>1, <2>0, <4>1, <5>1, TypesOfKey
        <5>3. CASE Len(b) < 4
          BY ONLY <5>3, <1>5, <1>6, <1>7
        <5>4. CASE Len(b) >= 4 /\ n = Len(Payloads[s])
          <6>1. o = Len(w)
            BY ONLY <5>2, <5>4, <3>1, FramesOf, s \in Sockets
          <6> QED BY ONLY <6>1, <5>4, <3>3, <1>5
        <5>5. CASE Len(b) >= 4 /\ n # Len(Payloads[s])
          <6>1. n + 1 \in 1..Len(Payloads[s]) /\ n + 1 - 1 = n
            BY ONLY <5>2, <5>5, FramesOf, s \in Sockets
          <6>2. Kinp!FrameStart(s, n + 1) = o + 1
            BY ONLY <5>2, <6>1 DEF Kinp!FrameStart
          <6>3. w[o + 1] = 13 /\ w[(o + 1) + 1] = 240
            BY ONLY <6>1, <6>2, <3>1, FrameBytes, s \in Sockets
          <6>4. b[1] = 13 /\ b[2] = 240
            <7>1. b[1] = w[o + 1] /\ b[2] = w[o + 2] /\ o + 2 = (o + 1) + 1
              BY ONLY <5>5, <3>3, <1>5
            <7> QED BY ONLY <6>3, <7>1
          <6>5. Kinp!SignalAt(b, 1)
            BY ONLY <5>5, <6>4, <1>5, SignalBytes
          <6> QED BY ONLY <6>5, <1>5, <1>6, <1>7
        <5> QED BY ONLY <5>3, <5>4, <5>5, <1>5
      <4> QED BY ONLY <4>1, <4>2, <3>3, <3>5
    <3> QED BY <3>6, <3>7, <3>9, <3>10 DEF SocketInv
  <2> QED BY <2>1, <2>2
<1>12. PlainInv'
  <2>1. CASE key # Kinp!Plaintext
    <3>1. streams'[Kinp!Plaintext] = streams[Kinp!Plaintext]
      BY <2>1, <1>8, KeysAre
    <3>2. raw # <<Kinp!Plaintext, sent[Len(sent)].dir>>
      BY <2>1, <1>2
    <3> QED BY <3>1, <3>2, <1>1, <1>2 DEF PlainInv
  <2>2. CASE key = Kinp!Plaintext
    <3>1. b = <<>> => r = <<>>
      <4>1. b = <<>> => Len(b) < 4
        OBVIOUS
      <4> QED BY <4>1, <1>7
    <3>2. ~(Len(sent) = Len(messages[key]) + 1 /\ IsSynthetic(b, sent[Len(sent)]))
      <4> SUFFICES ASSUME Len(sent) = Len(messages[key]) + 1, IsSynthetic(b, sent[Len(sent)])
                   PROVE  FALSE
        OBVIOUS
      <4>1. sent[Len(sent)] \in Message
        BY <1>1, LastSent
      <4>2. Kinp!Whole(b) /\ Kinp!Resync(b) = b
        BY <4>1, SyntheticWhole
      <4> QED BY <4>2, <1>2, <1>3 DEF Settled
    <3> QED BY <2>2, <3>1, <3>2, <1>1, <1>2, <1>3, <1>8 DEF PlainInv
  <2> QED BY <2>1, <2>2
<1> QED BY <1>9, <1>10, <1>11, <1>12 DEF KinpInv

\* The two bytes behind a signal at t tell of n bytes.
Long(s, t, n) == n = 4 + Wire[s][t + 2] + 256 * Wire[s][t + 3]

\* A false signal that is taken for the start of a frame claims what the frame would have.
LEMMA Claimed ==
  ASSUME NEW s \in Sockets, NEW t \in Nat, NEW n \in Nat, t > 0, t + 3 <= Len(Wire[s]),
         Wire[s][t] = 13, Wire[s][t + 1] = 240, Long(s, t, n)
  PROVE  /\ Kinp!Claim(s, t) = (t + 1)..(t - 1 + n)
         /\ (\A j \in 1..Len(Payloads[s]) : Kinp!FrameStart(s, j) # t) => t \in Kinp!FalseSignals(s)
<1>1. PICK w : w = Wire[s]
  OBVIOUS
<1>2. w \in Bytes /\ Len(w) \in Nat
  BY <1>1, FramesOf
<1>3. PICK q : q = SubSeq(w, t, t + 3)
  OBVIOUS
<1>4. q[3] = w[t + 2] /\ q[4] = w[t + 3]
  <2>1. PICK v : v = t + 3
    OBVIOUS
  <2>2. t \in 1..(Len(w) + 1) /\ v \in (t - 1)..Len(w) /\ v - t + 1 = 4
    <3>1. t + 3 <= Len(w)
      BY <1>1
    <3> QED BY ONLY <1>2, <2>1, <3>1, t \in Nat, t > 0
  <2>3. \A k \in 1..(v - t + 1) : SubSeq(w, t, v)[k] = w[t + k - 1]
    BY ONLY <1>2, <2>2, Part DEF Bytes
  <2>4. q = SubSeq(w, t, v)
    BY ONLY <1>3, <2>1
  <2>5. q[3] = w[t + 3 - 1] /\ q[4] = w[t + 4 - 1]
    BY ONLY <2>2, <2>3, <2>4
  <2>6. t + 3 - 1 = t + 2 /\ t + 4 - 1 = t + 3
    BY ONLY t \in Nat
  <2> QED BY ONLY <2>5, <2>6
<1>5. Kinp!FrameLen(q) = n
  BY ONLY <1>1, <1>4, Long(s, t, n) DEF Kinp!FrameLen, Long
<1>6. Kinp!Claim(s, t) = (t + 1)..(t - 1 + n)
  BY ONLY <1>1, <1>3, <1>5, Zenon DEF Kinp!Claim
<1>7. t \in Kinp!Signals(Wire[s])
  <2>1. t < Len(w) /\ t \in 1..(Len(w) - 1)
    <3>1. t + 3 <= Len(w) /\ Len(w) \in Nat
      BY <1>1, <1>2
    <3> QED BY ONLY <3>1, t \in Nat, t > 0
  <2>2. Kinp!SignalAt(w, t)
    BY <1>1, <1>2, <2>1, SignalBytes
  <2> QED BY <1>1, <2>1, <2>2 DEF Kinp!Signals
<1>8. ASSUME \A j \in 1..Len(Payloads[s]) : Kinp!FrameStart(s, j) # t
      PROVE  t \in Kinp!FalseSignals(s)
  <2>1. t \notin {Kinp!FrameStart(s, j) : j \in DOMAIN Payloads[s]}
    BY <1>8, FramesOf
  <2> QED BY <1>7, <2>1 DEF Kinp!FalseSignals
<1> QED BY <1>6, <1>8

\* Two frames of a socket do not overlap.
LEMMA FramesApart ==
  ASSUME NEW s \in Sockets, NEW j \in 1..Len(Payloads[s]), NEW k \in 1..Len(Payloads[s]),
         Kinp!FrameStart(s, j) <= Kinp!FrameStart(s, k), Kinp!FrameStart(s, k) <= FrameEnd[s][j]
  PROVE  k = j
<1>1. /\ Len(Payloads[s]) \in Nat /\ j - 1 \in 0..Len(Payloads[s]) /\ k - 1 \in 0..Len(Payloads[s])
      /\ j \in 0..Len(Payloads[s]) /\ k \in 0..Len(Payloads[s])
  BY FramesOf
<1>2. /\ FrameEnd[s][j] \in Nat /\ FrameEnd[s][k] \in Nat
      /\ FrameEnd[s][j - 1] \in Nat /\ FrameEnd[s][k - 1] \in Nat
  BY <1>1, FramesOf
<1>3. Kinp!FrameStart(s, j) = FrameEnd[s][j - 1] + 1 /\ Kinp!FrameStart(s, k) = FrameEnd[s][k - 1] + 1
  BY DEF Kinp!FrameStart
<1>4. CASE j < k
  <2>1. k - 1 \in j..Len(Payloads[s])
    BY <1>1, <1>4
  <2>2. FrameEnd[s][j] <= FrameEnd[s][k - 1]
    BY <1>1, <2>1, EndsGrow
  <2>3. FrameEnd[s][k - 1] + 1 <= FrameEnd[s][j]
    BY <1>3
  <2>4. \A x, y \in Nat : ~(x + 1 <= y /\ y <= x)
    OBVIOUS
  <2> QED BY ONLY <1>2, <2>2, <2>3, <2>4, Zenon
<1>5. CASE k < j
  <2>1. j - 1 \in k..Len(Payloads[s])
    BY <1>1, <1>5
  <2>2. FrameEnd[s][k] <= FrameEnd[s][j - 1]
    BY <1>1, <2>1, EndsGrow
  <2>3. FrameEnd[s][k - 1] < FrameEnd[s][k]
    <3>1. FrameEnd[s][k] = FrameEnd[s][k - 1] + 4 + Len(Payloads[s][k]) /\ Len(Payloads[s][k]) \in Nat
      BY FramesOf
    <3>2. \A x, y \in Nat : x < x + 4 + y
      OBVIOUS
    <3>3. FrameEnd[s][k - 1] < FrameEnd[s][k - 1] + 4 + Len(Payloads[s][k])
      BY ONLY <1>2, <3>1, <3>2, Zenon
    <3> QED BY ONLY <3>1, <3>3, Zenon
  <2>4. FrameEnd[s][j - 1] + 1 <= FrameEnd[s][k - 1] + 1
    BY <1>3
  <2>5. \A x, y, z \in Nat : ~(x + 1 <= y + 1 /\ z <= x /\ y < z)
    OBVIOUS
  <2> QED BY ONLY <1>2, <2>2, <2>3, <2>4, <2>5, Zenon
<1> QED BY <1>1, <1>4, <1>5

LEMMA TakeOfSocket ==
  ASSUME KinpTypes, NEW s \in Sockets, SocketInv(s),
         NEW d \in Nat, NEW n \in Nat, NEW p \in Bytes, NEW rest \in Bytes,
         FrameIn(streams[s], d, n, p, rest), NEW got \in Returned, got.payload = p,
         streams'[s] = rest, messages'[s] = Append(messages[s], got),
         pos'[s] = pos[s], split'[s] = split[s]
  PROVE  SocketInv(s)'
<1>1. PICK w : w = Wire[s]
  OBVIOUS
<1>2. PICK o : o = Off(s)
  OBVIOUS
<1>3. PICK b : b = streams[s]
  OBVIOUS
<1>4. s \in Kinp!Keys
  BY KeysAre
<1>5. /\ w \in Bytes /\ Len(w) \in Nat /\ pos[s] \in Nat /\ pos[s] <= Len(w)
      /\ b \in Bytes /\ Len(b) \in Nat /\ Len(b) <= pos[s] /\ o \in Nat /\ o + Len(b) = pos[s]
      /\ \A k \in 1..Len(b) : b[k] = w[o + k]
  <2>1. w \in Bytes /\ Len(w) \in Nat
    BY <1>1, FramesOf
  <2>2. pos[s] \in Nat
    BY DEF KinpTypes
  <2>3. b \in Bytes /\ Len(b) \in Nat
    BY <1>3, <1>4, TypesOfKey
  <2>4. pos[s] <= Len(w) /\ Len(b) <= pos[s] /\ \A k \in 1..Len(b) : b[k] = w[o + k]
    BY <1>1, <1>2, <1>3 DEF SocketInv, Placed
  <2>5. o = pos[s] - Len(b)
    BY <1>2, <1>3 DEF Off
  <2>6. o \in Nat /\ o + Len(b) = pos[s]
    BY ONLY <2>2, <2>3, <2>4, <2>5
  <2> QED BY <2>1, <2>2, <2>3, <2>4, <2>6
<1>6. /\ n >= 4 /\ d + n <= Len(b) /\ Len(p) = n - 4 /\ (\A k \in 1..(n - 4) : p[k] = b[d + 4 + k])
      /\ Len(rest) = Len(b) - d - n
      /\ \A k \in 1..Len(rest) : rest[k] = b[d + n + k]
  BY <1>3, ZenonT(60) DEF FrameIn
<1>7. /\ \A k \in 1..d : ~Kinp!SignalAt(b, k)
      /\ b[d + 1] = 13 /\ b[d + 2] = 240 /\ n = 4 + b[d + 3] + 256 * b[d + 4]
      /\ Kinp!SignalAt(b, 1) => d = 0
  BY <1>3 DEF FrameIn
<1>8. /\ messages[s] \in Seq(Returned) /\ Len(messages[s]) \in Nat
      /\ Len(messages'[s]) = Len(messages[s]) + 1
      /\ messages'[s][Len(messages[s]) + 1] = got
      /\ DOMAIN messages[s] = 1..Len(messages[s])
      /\ DOMAIN messages'[s] = 1..(Len(messages[s]) + 1)
      /\ \A k \in 1..Len(messages[s]) : messages'[s][k] = messages[s][k]
  <2>1. messages[s] \in Seq(Returned)
    BY <1>4 DEF KinpTypes
  <2> QED BY <2>1, Appended
\* Where the frame starts in the stream.
<1>9. PICK t : t = o + d + 1
  OBVIOUS
<1>10. /\ t \in Nat /\ t > 0 /\ t + 3 <= Len(w) /\ w[t] = 13 /\ w[t + 1] = 240
       /\ n = 4 + w[t + 2] + 256 * w[t + 3] /\ t - 1 + n <= pos[s] /\ t = (o + d) + 1
  <2>1. t \in Nat /\ t > 0 /\ t - 1 + n <= pos[s] /\ t + 3 <= Len(w)
    BY ONLY <1>5, <1>6, <1>9, d \in Nat, n \in Nat
  <2>2. d + 1 \in 1..Len(b) /\ d + 2 \in 1..Len(b) /\ d + 3 \in 1..Len(b) /\ d + 4 \in 1..Len(b)
    BY ONLY <1>5, <1>6, d \in Nat, n \in Nat
  <2>3. o + (d + 1) = t /\ o + (d + 2) = t + 1 /\ o + (d + 3) = t + 2 /\ o + (d + 4) = t + 3
    BY ONLY <1>5, <1>9, d \in Nat
  <2>4. b[d + 1] = w[o + (d + 1)] /\ b[d + 2] = w[o + (d + 2)] /\ b[d + 3] = w[o + (d + 3)]
        /\ b[d + 4] = w[o + (d + 4)]
    BY ONLY <1>5, <2>2
  <2>5. b[d + 1] = w[t] /\ b[d + 2] = w[t + 1] /\ b[d + 3] = w[t + 2] /\ b[d + 4] = w[t + 3]
    BY ONLY <2>3, <2>4
  <2>6. n = 4 + b[d + 3] + 256 * b[d + 4] /\ b[d + 1] = 13 /\ b[d + 2] = 240
    BY ONLY <1>7
  <2>7. w[t] = 13 /\ w[t + 1] = 240
    BY ONLY <2>5, <2>6
  <2>8. n = 4 + w[t + 2] + 256 * w[t + 3]
    BY ONLY <2>5, <2>6, Zenon
  <2> QED BY ONLY <1>9, <2>1, <2>7, <2>8
<1>11. Off(s)' = o + d + n /\ o + d + n = t - 1 + n
  <2>1. Off(s)' = pos[s] - Len(rest)
    BY DEF Off
  <2>2. \A x, y, z, u \in Nat : (x + y) - (y - z - u) = x + z + u
    OBVIOUS
  <2>3. (o + Len(b)) - (Len(b) - d - n) = o + d + n
    <3>1. o \in Nat /\ Len(b) \in Nat
      BY ONLY <1>5
    <3> QED BY ONLY <2>2, <3>1, d \in Nat, n \in Nat
  <2>4. o + d + n = t - 1 + n
    BY ONLY <1>5, <1>9, d \in Nat, n \in Nat
  <2> QED BY ONLY <1>5, <1>6, <2>1, <2>3, <2>4
<1>12. Placed(s)'
  <2>1. \A k \in 1..Len(rest) : rest[k] = w[o + d + n + k]
    <3> TAKE k \in 1..Len(rest)
    <3>1. k \in 1..(Len(b) - d - n)
      BY ONLY <1>6, k \in 1..Len(rest)
    <3>2. d + n + k \in 1..Len(b) /\ o + (d + n + k) = o + d + n + k
      BY ONLY <1>5, <1>6, <3>1, d \in Nat, n \in Nat
    <3>3. rest[k] = b[d + n + k]
      BY ONLY <1>6, k \in 1..Len(rest)
    <3> QED BY ONLY <1>5, <3>2, <3>3
  <2>2. Len(rest) <= pos[s]
    BY ONLY <1>5, <1>6, d \in Nat, n \in Nat
  <2>3. split[s] \subseteq 1..Len(w)
    BY <1>1 DEF SocketInv, Placed
  <2> QED BY <1>1, <1>5, <1>11, <2>1, <2>2, <2>3 DEF Placed
<1>13. CutNoted(s)'
  BY DEF SocketInv, CutNoted
<1>14. \A k : Excused(s, k) => Excused(s, k)'
  <2> TAKE k
  <2>1. Kinp!Shown(s, k) => Kinp!Shown(s, k)'
    BY <1>8 DEF Kinp!Shown
  <2> QED BY <2>1 DEF Excused
\* A frame that starts where this one does is this one.
<1>15. ASSUME NEW j \in 1..Len(Payloads[s]), Kinp!FrameStart(s, j) = t
       PROVE  p = Payloads[s][j] /\ FrameEnd[s][j] = t - 1 + n
  <2>1. /\ FrameEnd[s][j] = t + 3 + Len(Payloads[s][j])
        /\ 4 + w[t + 2] + 256 * w[t + 3] = 4 + Len(Payloads[s][j])
        /\ \A k \in 1..Len(Payloads[s][j]) : w[t + 3 + k] = Payloads[s][j][k]
    <3> DEFINE f == Kinp!FrameStart(s, j)
    <3>1. /\ FrameEnd[s][j] = f + 3 + Len(Payloads[s][j])
          /\ 4 + Wire[s][f + 2] + 256 * Wire[s][f + 3] = 4 + Len(Payloads[s][j])
          /\ \A k \in 1..Len(Payloads[s][j]) : Wire[s][f + 3 + k] = Payloads[s][j][k]
      <4>1. FrameEnd[s][j] = f + 3 + Len(Payloads[s][j])
        BY FrameBytes
      <4>2. 4 + Wire[s][f + 2] + 256 * Wire[s][f + 3] = 4 + Len(Payloads[s][j])
        BY FrameBytes
      <4>3. \A k \in 1..Len(Payloads[s][j]) : Wire[s][f + 3 + k] = Payloads[s][j][k]
        BY FrameBytes
      <4> QED BY <4>1, <4>2, <4>3
    <3>2. f = t
      BY <1>15
    <3> HIDE DEF f
    <3> QED BY ONLY <1>1, <3>1, <3>2
  <2>2. Payloads[s][j] \in Bytes /\ Len(Payloads[s][j]) \in Nat
    BY FramesOf
  <2>3. n = 4 + Len(Payloads[s][j])
    BY ONLY <1>10, <2>1
  <2>4. Len(p) = Len(Payloads[s][j]) /\ FrameEnd[s][j] = t - 1 + n
    <3>1. /\ Len(p) = n - 4 /\ FrameEnd[s][j] = t + 3 + Len(Payloads[s][j])
          /\ Len(Payloads[s][j]) \in Nat /\ t \in Nat /\ n = 4 + Len(Payloads[s][j])
      BY ONLY <1>6, <1>10, <2>1, <2>2, <2>3
    <3>2. \A x, y \in Nat : (4 + x) - 4 = x /\ y + 3 + x = y - 1 + (4 + x)
      OBVIOUS
    <3>3. (4 + Len(Payloads[s][j])) - 4 = Len(Payloads[s][j])
          /\ t + 3 + Len(Payloads[s][j]) = t - 1 + (4 + Len(Payloads[s][j]))
      BY ONLY <3>1, <3>2, Zenon
    <3> QED BY ONLY <3>1, <3>3, Zenon
  <2>5. \A k \in 1..Len(p) : p[k] = Payloads[s][j][k]
    <3> TAKE k \in 1..Len(p)
    <3>1. k \in 1..(n - 4) /\ k \in 1..Len(Payloads[s][j])
      BY ONLY <1>6, <2>4, k \in 1..Len(p)
    <3>2. d + 4 + k \in 1..Len(b) /\ o + (d + 4 + k) = t + 3 + k
      BY ONLY <1>5, <1>6, <1>9, <3>1, d \in Nat, n \in Nat
    <3>3. p[k] = b[d + 4 + k] /\ b[d + 4 + k] = w[o + (d + 4 + k)]
      BY ONLY <1>5, <1>6, <3>1, <3>2
    <3> QED BY ONLY <2>1, <3>1, <3>2, <3>3
  <2>6. p = Payloads[s][j]
    BY ONLY <2>2, <2>4, <2>5, p \in Bytes, SameSequences DEF Bytes
  <2> QED BY <2>4, <2>6
<1>16. Accounted(s)'
  <2> SUFFICES ASSUME NEW k \in 1..Len(Payloads[s]), Kinp!FrameStart(s, k) <= t - 1 + n
               PROVE  Excused(s, k)'
    BY <1>11 DEF Accounted
  <2>1. PICK u : u = Kinp!FrameStart(s, k)
    OBVIOUS
  <2>2. /\ u \in Nat /\ u > 0 /\ u < Len(w) /\ w[u] = 13 /\ w[u + 1] = 240 /\ u <= t - 1 + n
    <3>1. /\ u \in 1..Len(Wire[s]) /\ u + 3 <= Len(Wire[s])
          /\ Wire[s][u] = 13 /\ Wire[s][u + 1] = 240
      BY <2>1, FrameBytes, SMTT(30)
    <3>2. u \in 1..Len(w) /\ u + 3 <= Len(w) /\ w[u] = 13 /\ w[u + 1] = 240
      BY ONLY <3>1, <1>1
    <3>3. Len(w) \in Nat
      BY <1>5
    <3>4. u \in Nat /\ u > 0 /\ u < Len(w)
      BY ONLY <3>2, <3>3
    <3> QED BY <2>1, <3>2, <3>4
  <2>3. CASE u <= o
    <3>1. Excused(s, k)
      BY <1>2, <2>1, <2>3 DEF SocketInv, Accounted
    <3> QED BY <3>1, <1>14
  <2>4. CASE u > o /\ u < t
    <3>1. u < pos[s] /\ u <= o + d /\ d <= Len(b)
      <4>1. t - 1 + n <= pos[s] /\ t = (o + d) + 1 /\ d + n <= Len(b) /\ n >= 4 /\ u < t
            /\ t \in Nat /\ u \in Nat /\ o \in Nat /\ Len(b) \in Nat /\ pos[s] \in Nat
        BY ONLY <1>5, <1>6, <1>10, <2>2, <2>4
      <4>2. \A x, y \in Nat : x < y + 1 => x <= y
        OBVIOUS
      <4>3. o + d \in Nat
        BY ONLY <4>1, d \in Nat
      <4>4. u <= o + d
        BY ONLY <4>1, <4>2, <4>3, Zenon
      <4>5. u < pos[s]
        BY ONLY <4>1, d \in Nat, n \in Nat
      <4>6. d <= Len(b)
        BY ONLY <4>1, d \in Nat, n \in Nat
      <4> QED BY ONLY <4>4, <4>5, <4>6
    <3>2. /\ u - o \in 1..d /\ u - o \in Nat /\ u - o > 0 /\ u - o < Len(b)
          /\ o + (u - o) = u /\ o + ((u - o) + 1) = u + 1
      BY ONLY <1>5, <2>2, <2>4, <3>1, InBuffer, d \in Nat
    <3>3. PICK m : m = u - o
      OBVIOUS
    <3>4. /\ m \in 1..d /\ m \in Nat /\ m > 0 /\ m < Len(b) /\ o + m = u /\ o + (m + 1) = u + 1
      BY ONLY <3>2, <3>3
    <3>5. m \in 1..Len(b) /\ m + 1 \in 1..Len(b)
      BY ONLY <3>4, <1>5
    <3>6. b[m] = w[o + m] /\ b[m + 1] = w[o + (m + 1)]
      BY ONLY <3>5, <1>5
    <3>7. b[m] = 13 /\ b[m + 1] = 240
      BY ONLY <2>2, <3>4, <3>6
    <3>8. Kinp!SignalAt(b, m)
      BY ONLY <3>4, <3>7, <1>5, SignalBytes
    <3> QED BY ONLY <3>4, <3>8, <1>7
  <2>5. CASE u >= t
    <3>1. CASE \E j \in 1..Len(Payloads[s]) : Kinp!FrameStart(s, j) = t
      <4>1. PICK j \in 1..Len(Payloads[s]) : Kinp!FrameStart(s, j) = t
        BY <3>1
      <4>2. p = Payloads[s][j] /\ FrameEnd[s][j] = t - 1 + n
        BY <4>1, <1>15
      <4>3. Kinp!FrameStart(s, j) <= Kinp!FrameStart(s, k)
            /\ Kinp!FrameStart(s, k) <= FrameEnd[s][j]
        BY <2>1, <2>2, <2>5, <4>1, <4>2, <1>10
      <4>4. k = j
        BY <4>3, FramesApart
      <4>5. Kinp!Shown(s, k)'
        BY <1>8, <4>2, <4>4 DEF Kinp!Shown
      <4> QED BY <4>5 DEF Excused
    <3>2. CASE \A j \in 1..Len(Payloads[s]) : Kinp!FrameStart(s, j) # t
      <4>1. t + 3 <= Len(Wire[s]) /\ Wire[s][t] = 13 /\ Wire[s][t + 1] = 240
            /\ Long(s, t, n) /\ t \in Nat /\ t > 0
        BY ONLY <1>1, <1>10 DEF Long
      <4>2. Kinp!Claim(s, t) = (t + 1)..(t - 1 + n) /\ t \in Kinp!FalseSignals(s)
        <5>1. Kinp!Claim(s, t) = (t + 1)..(t - 1 + n)
          BY ONLY <4>1, Claimed
        <5>2. t \in Kinp!FalseSignals(s)
          BY ONLY <3>2, <4>1, Claimed
        <5> QED BY <5>1, <5>2
      <4>3. u \in (t + 1)..(t - 1 + n)
        <5>1. u # t
          BY <2>1, <3>2
        <5> QED BY ONLY <5>1, <2>2, <2>5, <1>10, n \in Nat
      <4>4. \E f \in Kinp!FalseSignals(s) : Kinp!FrameStart(s, k) \in Kinp!Claim(s, f)
        BY <2>1, <4>2, <4>3
      <4> QED BY <4>4 DEF Excused
    <3> QED BY <3>1, <3>2
  <2> QED BY ONLY <2>2, <2>3, <2>4, <2>5, <1>5, <1>10
<1>17. InStep(s)'
  <2>1. PICK m : m = Len(messages[s])
    OBVIOUS
  <2> SUFFICES ASSUME FrameEnd[s][0] = 0
               PROVE  /\ m + 1 <= Len(Payloads[s]) /\ o + d + n = FrameEnd[s][m + 1]
                      /\ \A k \in 1..(m + 1) : messages'[s][k].payload = Payloads[s][k]
    BY <1>8, <1>11, <2>1 DEF InStep
  <2>2. /\ m \in Nat /\ m <= Len(Payloads[s]) /\ o = FrameEnd[s][m]
        /\ \A k \in 1..m : messages[s][k].payload = Payloads[s][k]
    BY <1>2, <1>8, <2>1 DEF SocketInv, InStep
  <2>3. Len(Payloads[s]) \in Nat /\ FrameEnd[s][Len(Payloads[s])] = Len(w)
    BY <1>1, FramesOf
  <2>4. m # Len(Payloads[s])
    <3>1. o # Len(w)
      BY ONLY <1>5, <1>6, d \in Nat, n \in Nat
    <3> QED BY ONLY <2>2, <2>3, <3>1
  <2>5. m + 1 \in 1..Len(Payloads[s]) /\ m + 1 - 1 = m /\ m + 1 <= Len(Payloads[s])
    BY ONLY <2>2, <2>3, <2>4
  <2>6. Kinp!FrameStart(s, m + 1) = o + 1
    BY ONLY <2>2, <2>5 DEF Kinp!FrameStart
  <2>7. d = 0
    <3>1. Wire[s][o + 1] = 13 /\ Wire[s][(o + 1) + 1] = 240
      BY <2>5, <2>6, FrameBytes, SMTT(30)
    <3>2. b[1] = w[o + 1] /\ b[2] = w[o + 2] /\ o + 2 = (o + 1) + 1 /\ 1 < Len(b)
      BY ONLY <1>5, <1>6, d \in Nat, n \in Nat
    <3>3. b[1] = 13 /\ b[1 + 1] = 240
      BY ONLY <3>1, <3>2, <1>1
    <3>4. Kinp!SignalAt(b, 1)
      BY ONLY <3>2, <3>3, <1>5, SignalBytes
    <3> QED BY ONLY <3>4, <1>7
  <2>8. Kinp!FrameStart(s, m + 1) = t
    BY ONLY <2>6, <2>7, <1>5, <1>9
  <2>9. p = Payloads[s][m + 1] /\ FrameEnd[s][m + 1] = t - 1 + n
    BY <2>5, <2>8, <1>15
  <2>10. \A k \in 1..(m + 1) : messages'[s][k].payload = Payloads[s][k]
    <3> TAKE k \in 1..(m + 1)
    <3>1. CASE k = m + 1
      BY <3>1, <2>1, <2>9, <1>8
    <3>2. CASE k # m + 1
      <4>1. k \in 1..m
        BY ONLY <3>2, <2>2, k \in 1..(m + 1)
      <4> QED BY <4>1, <2>1, <2>2, <1>8
    <3> QED BY <3>1, <3>2
  <2> QED BY <2>5, <2>9, <2>10, <1>11
<1> QED BY <1>12, <1>13, <1>16, <1>17 DEF SocketInv

\* The payload behind the header of a synthetic frame is that of its message.
LEMMA TakenMessage ==
  ASSUME NEW m \in Message, NEW b, IsSynthetic(b, m), NEW d \in Nat, NEW n \in Nat,
         NEW p \in Bytes, NEW rest \in Bytes, FrameIn(b, d, n, p, rest)
  PROVE  /\ rest = <<>>
         /\ IsMessage([dir |-> m.dir, kind |-> Kinp!MsgType(p), payload |-> p], m)
<1>1. /\ b \in Bytes /\ Len(m.data) \in Nat /\ Kinp!SignalAt(b, 1)
  BY SyntheticWhole
<1>2. /\ Len(b) = 12 + Len(m.data) /\ Kinp!FrameLen(b) = 12 + Len(m.data)
      /\ b[5] = 0 /\ b[9] = m.service /\ b[10] = m.message /\ b[11] + 256 * b[12] = Len(m.data) + 4
      /\ \A k \in 1..Len(m.data) : b[12 + k] = m.data[k]
  BY DEF IsSynthetic
<1>3. /\ d = 0 /\ Len(p) = n - 4 /\ (\A k \in 1..(n - 4) : p[k] = b[d + 4 + k])
      /\ Len(rest) = Len(b) - d - n /\ n = 4 + b[d + 3] + 256 * b[d + 4]
  BY <1>1 DEF FrameIn
<1>4. n = 12 + Len(m.data)
  <2>1. d + 3 = 3 /\ d + 4 = 4
    BY <1>3
  <2>2. n = 4 + b[3] + 256 * b[4]
    <3>1. n = 4 + b[d + 3] + 256 * b[d + 4]
      BY <1>3
    <3> QED BY ONLY <2>1, <3>1, Zenon
  <2>3. Kinp!FrameLen(b) = 4 + b[3] + 256 * b[4]
    BY ONLY DEF Kinp!FrameLen
  <2>4. n = Kinp!FrameLen(b)
    BY ONLY <2>2, <2>3, Zenon
  <2> QED BY <1>2, <2>4
<1>5. rest = <<>>
  <2>1. Len(rest) = 0
    BY <1>1, <1>2, <1>3, <1>4
  <2> QED BY <2>1 DEF Bytes
<1>6. Len(p) = 8 + Len(m.data) /\ \A k \in 1..(8 + Len(m.data)) : p[k] = b[4 + k]
  <2>1. n - 4 = 8 + Len(m.data)
    BY ONLY <1>1, <1>4
  <2>2. \A k \in 1..(8 + Len(m.data)) : d + 4 + k = 4 + k
    BY ONLY <1>1, <1>3
  <2> QED BY ONLY <1>3, <2>1, <2>2
<1>7. \A k \in 1..Len(m.data) : p[8 + k] = m.data[k]
  <2> TAKE k \in 1..Len(m.data)
  <2>1. 8 + k \in 1..(8 + Len(m.data)) /\ 4 + (8 + k) = 12 + k
    BY ONLY <1>1, k \in 1..Len(m.data)
  <2> QED BY ONLY <1>2, <1>6, <2>1
<1>8. p[1] = 0 /\ p[5] = m.service /\ p[6] = m.message /\ p[7] = b[11] /\ p[8] = b[12]
      /\ Len(p) >= 8
  <2>1. 1 \in 1..(8 + Len(m.data)) /\ 5 \in 1..(8 + Len(m.data)) /\ 6 \in 1..(8 + Len(m.data))
        /\ 7 \in 1..(8 + Len(m.data)) /\ 8 \in 1..(8 + Len(m.data)) /\ 8 + Len(m.data) >= 8
    BY ONLY <1>1
  <2>2. p[1] = b[4 + 1] /\ p[5] = b[4 + 5] /\ p[6] = b[4 + 6] /\ p[7] = b[4 + 7] /\ p[8] = b[4 + 8]
    BY ONLY <1>6, <2>1
  <2>3. 4 + 1 = 5 /\ 4 + 5 = 9 /\ 4 + 6 = 10 /\ 4 + 7 = 11 /\ 4 + 8 = 12
    OBVIOUS
  <2> QED BY ONLY <1>2, <1>6, <2>1, <2>2, <2>3
<1>9. m.service \in 1..99 =>
        Kinp!MsgType(p) = [type |-> "Dml", service |-> m.service, message |-> m.message,
                           length |-> Len(m.data) + 4]
  <2>1. m.service \in 1..99 =>
          Kinp!MsgType(p) = [type |-> "Dml", service |-> p[5], message |-> p[6],
                             length |-> p[7] + 256 * p[8]]
    BY <1>8, MsgTypeOf
  <2>2. p[7] + 256 * p[8] = Len(m.data) + 4
    BY ONLY <1>2, <1>8, Zenon
  <2> QED BY ONLY <1>8, <2>1, <2>2, Zenon
<1> QED BY <1>5, <1>6, <1>7, <1>9 DEF IsMessage

LEMMA TakeInv == ASSUME KinpInv, Kinp!TakeFrame PROVE KinpInv'
<1>1. KinpTypes /\ RestInv /\ (\A s \in Sockets : SocketInv(s)) /\ PlainInv
  BY DEF KinpInv
<1>2. UNCHANGED <<raw, pos, split, sent>>
  BY DEF Kinp!TakeFrame
<1>3. PICK key \in Kinp!Keys, dir \in Directions, d \in Nat, n \in Nat, p \in Bytes, rest \in Bytes :
        /\ raw = <<key, dir>> /\ FrameIn(streams[key], d, n, p, rest)
        /\ streams' = [streams EXCEPT ![key] = rest]
        /\ messages' = [messages EXCEPT ![key] =
             Append(@, [dir |-> dir, kind |-> Kinp!MsgType(p), payload |-> p])]
  BY <1>1, FrameTaken
<1>4. PICK got : got = [dir |-> dir, kind |-> Kinp!MsgType(p), payload |-> p]
  OBVIOUS
<1>5. got \in Returned /\ got.payload = p /\ (got.kind.type = "Dml" => Len(got.payload) >= 8)
  <2>1. Kinp!MsgType(p) \in Kinp!MessageType /\ (Kinp!MsgType(p).type = "Dml" => Len(p) >= 8)
    BY MsgTypeOf
  <2> QED BY ONLY <1>4, <2>1, p \in Bytes, dir \in Directions DEF Returned
<1>6. /\ streams \in [Kinp!Keys -> Bytes] /\ messages \in [Kinp!Keys -> Seq(Returned)]
  BY <1>1 DEF KinpTypes
<1>7. messages' = [messages EXCEPT ![key] = Append(@, got)]
  BY <1>3, <1>4
<1>8. /\ messages[key] \in Seq(Returned) /\ Append(messages[key], got) \in Seq(Returned)
      /\ Len(messages[key]) \in Nat
      /\ Len(Append(messages[key], got)) = Len(messages[key]) + 1
      /\ Append(messages[key], got)[Len(messages[key]) + 1] = got
      /\ \A k \in 1..Len(messages[key]) : Append(messages[key], got)[k] = messages[key][k]
  <2>1. messages[key] \in Seq(Returned)
    BY <1>6
  <2> QED BY ONLY <2>1, <1>5, Appended
<1>9. /\ streams' \in [Kinp!Keys -> Bytes] /\ streams'[key] = rest
      /\ \A k \in Kinp!Keys : k # key => streams'[k] = streams[k]
  BY ONLY <1>3, <1>6, rest \in Bytes
<1>10. /\ messages' \in [Kinp!Keys -> Seq(Returned)] /\ messages'[key] = Append(messages[key], got)
       /\ \A k \in Kinp!Keys : k # key => messages'[k] = messages[k]
  BY ONLY <1>6, <1>7, <1>8
<1>11. KinpTypes'
  <2>1. ASSUME NEW q \in Kinp!Keys, NEW k \in 1..Len(messages'[q])
        PROVE  messages'[q][k].kind.type = "Dml" => Len(messages'[q][k].payload) >= 8
    <3>1. CASE q # key
      <4>1. messages'[q] = messages[q]
        BY <3>1, <1>10
      <4> QED BY <4>1, <1>1 DEF KinpTypes
    <3>2. CASE q = key /\ k = Len(messages[key]) + 1
      BY <3>2, <1>5, <1>8, <1>10
    <3>3. CASE q = key /\ k # Len(messages[key]) + 1
      <4>1. k \in 1..Len(messages[key])
        BY <3>3, <1>8, <1>10
      <4>2. messages'[q][k] = messages[key][k]
        BY <3>3, <4>1, <1>8, <1>10
      <4> QED BY <4>1, <4>2, <1>1 DEF KinpTypes
    <3> QED BY <3>1, <3>2, <3>3
  <2>2. /\ pos \in [Sockets -> Nat] /\ split \in [Sockets -> SUBSET Nat]
        /\ sent \in Seq(Message) /\ Len(sent) <= MaxSent
    BY <1>1 DEF KinpTypes
  <2> QED BY <1>2, <1>3, <1>9, <1>10, <2>1, <2>2 DEF KinpTypes
<1>12. RestInv'
  <2> SUFFICES ASSUME NEW k \in Kinp!Keys, AtRest(k)' PROVE Settled(streams[k])'
    BY DEF RestInv
  <2>1. k # key /\ AtRest(k)
    <3>1. raw' # <<>> /\ raw'[1] = key /\ raw' = raw
      BY <1>2, <1>3
    <3> QED BY <3>1 DEF AtRest
  <2>2. Settled(streams[k]) /\ streams'[k] = streams[k]
    BY <2>1, <1>1, <1>9 DEF RestInv
  <2> QED BY <2>2
<1>13. ASSUME NEW s \in Sockets PROVE SocketInv(s)'
  <2>0. s \in Kinp!Keys /\ SocketInv(s)
    BY <1>1, KeysAre
  <2>1. CASE s # key
    <3>1. streams'[s] = streams[s] /\ messages'[s] = messages[s] /\ pos'[s] = pos[s] /\ split'[s] = split[s]
      BY <2>0, <2>1, <1>2, <1>9, <1>10
    <3> QED BY <2>0, <3>1, SameSocket
  <2>2. CASE s = key
    <3>1. /\ streams'[s] = rest /\ messages'[s] = Append(messages[s], got) /\ pos'[s] = pos[s]
          /\ split'[s] = split[s] /\ FrameIn(streams[s], d, n, p, rest)
      BY <2>2, <1>2, <1>3, <1>9, <1>10
    <3> QED BY <2>0, <3>1, <1>1, <1>5, TakeOfSocket
  <2> QED BY <2>1, <2>2
<1>14. PlainInv'
  <2>1. CASE key # Kinp!Plaintext
    <3>1. /\ streams'[Kinp!Plaintext] = streams[Kinp!Plaintext]
          /\ messages'[Kinp!Plaintext] = messages[Kinp!Plaintext]
      BY <2>1, <1>9, <1>10, KeysAre
    <3> QED BY <3>1, <1>1, <1>2, SamePlain
  <2>2. CASE key = Kinp!Plaintext
    <3>1. streams[key] # <<>>
      <4>1. d + n <= Len(streams[key]) /\ n >= 4
        BY <1>3 DEF FrameIn
      <4>2. Len(streams[key]) # 0
        BY ONLY <4>1, d \in Nat, n \in Nat
      <4> QED BY <4>2
    <3>2. /\ raw = <<key, sent[Len(sent)].dir>> /\ Len(sent) = Len(messages[key]) + 1
          /\ IsSynthetic(streams[key], sent[Len(sent)])
          /\ \A k \in 1..Len(messages[key]) : k <= Len(sent) /\ IsMessage(messages[key][k], sent[k])
      BY <2>2, <3>1, <1>1 DEF PlainInv
    <3>3. PICK m : m = sent[Len(sent)]
      OBVIOUS
    <3>4. m \in Message
      BY <3>2, <3>3, <1>1, LastSent
    <3>5. rest = <<>> /\ IsMessage([dir |-> m.dir, kind |-> Kinp!MsgType(p), payload |-> p], m)
      BY <3>2, <3>3, <3>4, <1>3, TakenMessage
    <3>6. dir = m.dir
      <4>1. <<key, dir>> = <<key, m.dir>>
        BY <3>2, <3>3, <1>3
      <4> QED BY ONLY <4>1
    <3>7. IsMessage(got, m)
      BY <3>5, <3>6, <1>4
    <3>8. ASSUME NEW k \in 1..(Len(messages[key]) + 1)
          PROVE  k <= Len(sent) /\ IsMessage(messages'[key][k], sent[k])
      <4>1. CASE k = Len(messages[key]) + 1
        <5>1. messages'[key][k] = got /\ sent[k] = m
          BY <4>1, <3>2, <3>3, <1>8, <1>10
        <5> QED BY <4>1, <5>1, <3>2, <3>7, <1>8
      <4>2. CASE k # Len(messages[key]) + 1
        <5>1. k \in 1..Len(messages[key])
          BY <4>2, <1>8
        <5>2. messages'[key][k] = messages[key][k]
          BY <5>1, <1>8, <1>10
        <5> QED BY <5>1, <5>2, <3>2
      <4> QED BY <4>1, <4>2
    <3>9. streams'[key] = <<>> /\ Len(messages'[key]) = Len(sent)
      BY <3>2, <3>5, <1>8, <1>9, <1>10
    <3> QED BY <2>2, <3>2, <3>8, <3>9, <1>2 DEF PlainInv
  <2> QED BY <2>1, <2>2
<1> QED BY <1>11, <1>12, <1>13, <1>14 DEF KinpInv

LEMMA KinpNext == ASSUME KinpInv, Kinp!Next PROVE KinpInv'
BY CaptureInv, SendInv, TakeInv, ReturnInv DEF Kinp!Next

LEMMA KinpStays ==
  ASSUME KinpInv, [DecoderStep \/ ListStep]_<<decoderVars, listVars>> PROVE KinpInv'
<1>1. CASE DecoderStep
  BY <1>1, KinpNext DEF DecoderStep
<1>2. CASE ListStep
  BY <1>2, KinpSame DEF ListStep
<1>3. CASE UNCHANGED <<decoderVars, listVars>>
  BY <1>3, KinpSame
<1> QED BY <1>1, <1>2, <1>3

\* The decoder's invariant: what is kept of every stream and what has been returned of it.
THEOREM KinpInvariance == WindowSpec => []KinpInv
<1>1. WindowInit => KinpInv
  BY KinpStarts DEF WindowInit
<1>2. KinpInv /\ [DecoderStep \/ ListStep]_<<decoderVars, listVars>> => KinpInv'
  BY KinpStays
<1> QED BY <1>1, <1>2, PTL DEF WindowSpec

LEMMA KinpTypeOK == KinpInv => Kinp!TypeOK
<1> SUFFICES ASSUME KinpInv PROVE Kinp!TypeOK
  OBVIOUS
<1>1. KinpTypes /\ \A s \in Sockets : SocketInv(s)
  BY DEF KinpInv
<1>2. \A key \in Kinp!Keys : streams[key] \in Seq(Kinp!Byte)
  BY <1>1 DEF KinpTypes, Bytes
<1>3. raw # <<>> => raw[1] \in Kinp!Keys
  BY <1>1 DEF KinpTypes
<1>4. ASSUME NEW key \in Kinp!Keys, NEW k \in DOMAIN messages[key]
      PROVE  LET m == messages[key][k]
             IN /\ m.payload \in Seq(Kinp!Byte) /\ m.kind \in Kinp!MessageType
                /\ m.kind.type = "Dml" => Len(m.payload) >= 8
  <2>1. messages[key] \in Seq(Returned) /\ k \in 1..Len(messages[key])
    BY <1>1, TypesOfKey
  <2>2. messages[key][k] \in Returned
    BY <2>1, Element
  <2>3. messages[key][k].kind.type = "Dml" => Len(messages[key][k].payload) >= 8
    BY <1>1, <2>1 DEF KinpTypes
  <2> QED BY <2>2, <2>3 DEF Returned, Bytes
<1>5. ASSUME NEW s \in Sockets PROVE pos[s] \in 0..Len(Wire[s]) /\ split[s] \subseteq 1..Len(Wire[s])
  <2>1. pos[s] <= Len(Wire[s]) /\ split[s] \subseteq 1..Len(Wire[s])
    BY <1>1 DEF SocketInv, Placed
  <2>2. pos[s] \in Nat /\ Len(Wire[s]) \in Nat
    BY <1>1, FramesOf DEF KinpTypes
  <2> QED BY <2>1, <2>2
<1>6. Len(sent) <= MaxSent
  BY <1>1 DEF KinpTypes
<1> QED BY <1>2, <1>3, <1>4, <1>5, <1>6 DEF Kinp!TypeOK

\* TypesOK: a message called Dml has the eight bytes that the window reads of it, and what
\* the list's indices and its selection point at is there.
THEOREM TypesHold == WindowSpec => []TypesOK
<1>1. ListInv /\ KinpInv => TypesOK
  BY KinpTypeOK, ListTypeOK DEF TypesOK
<1> QED BY <1>1, ListInvariance, KinpInvariance, PTL

\* The bytes kept of a socket between two captures: either fewer than a header, or a signal
\* and less than it tells of.
LEMMA Unfinished ==
  ASSUME KinpInv, raw = <<>>, NEW s \in Sockets
  PROVE  /\ Wire[s] \in Bytes /\ Len(Wire[s]) \in Nat /\ pos[s] \in Nat /\ pos[s] <= Len(Wire[s])
         /\ streams[s] \in Bytes /\ Len(streams[s]) \in Nat /\ Off(s) \in Nat
         /\ Off(s) + Len(streams[s]) = pos[s]
         /\ \A k \in 1..Len(streams[s]) : streams[s][k] = Wire[s][Off(s) + k]
         /\ Len(streams[s]) >= 4 =>
              /\ Wire[s][Off(s) + 1] = 13 /\ Wire[s][(Off(s) + 1) + 1] = 240
              /\ \E n \in Nat : Long(s, Off(s) + 1, n) /\ Len(streams[s]) < n
<1>0. PICK w, b, o : w = Wire[s] /\ b = streams[s] /\ o = Off(s)
  OBVIOUS
<1>1. KinpTypes /\ RestInv /\ SocketInv(s) /\ s \in Kinp!Keys
  BY KeysAre DEF KinpInv
<1>2. w \in Bytes /\ Len(w) \in Nat
  BY <1>0, FramesOf
<1>3. pos[s] \in Nat
  BY <1>1 DEF KinpTypes
<1>4. b \in Bytes /\ Len(b) \in Nat
  BY <1>0, <1>1, TypesOfKey
<1>5. pos[s] <= Len(w) /\ Len(b) <= pos[s] /\ \A k \in 1..Len(b) : b[k] = w[o + k]
  BY <1>0, <1>1 DEF SocketInv, Placed
<1>6. o = pos[s] - Len(b)
  BY <1>0 DEF Off
<1>7. o \in Nat /\ o + Len(b) = pos[s]
  BY ONLY <1>3, <1>4, <1>5, <1>6
<1>8. Settled(b)
  BY <1>0, <1>1 DEF RestInv, AtRest
<1>9. ASSUME Len(b) >= 4
      PROVE  /\ w[o + 1] = 13 /\ w[(o + 1) + 1] = 240
             /\ \E n \in Nat : Long(s, o + 1, n) /\ Len(b) < n
  <2>1. Kinp!SignalAt(b, 1)
    BY <1>4, <1>8, <1>9, Resynchronised DEF Settled
  <2>2. b[1] = 13 /\ b[2] = 240
    BY <1>4, <2>1, SignalBytes
  <2>3. /\ 1 \in 1..Len(b) /\ 2 \in 1..Len(b) /\ 3 \in 1..Len(b) /\ 4 \in 1..Len(b)
        /\ o + 2 = (o + 1) + 1 /\ o + 3 = (o + 1) + 2 /\ o + 4 = (o + 1) + 3
    BY ONLY <1>4, <1>7, <1>9
  <2>4. b[1] = w[o + 1] /\ b[2] = w[(o + 1) + 1] /\ b[3] = w[(o + 1) + 2] /\ b[4] = w[(o + 1) + 3]
    BY ONLY <1>5, <2>3
  <2>5. PICK n : n = Kinp!FrameLen(b)
    OBVIOUS
  <2>6. n \in Nat
    <3>1. b[3] \in Kinp!Byte /\ b[4] \in Kinp!Byte
      BY ONLY <1>4, <2>3, Element DEF Bytes
    <3>2. b[3] \in Nat /\ b[4] \in Nat
      BY <3>1, ByteBounds
    <3> QED BY ONLY <2>5, <3>2 DEF Kinp!FrameLen
  <2>7. Len(b) < n
    <3>1. ~(Len(b) >= n)
      BY <1>8, <1>9, <2>5 DEF Settled, Kinp!Whole
    <3> QED BY ONLY <1>4, <2>6, <3>1
  <2>8. Long(s, o + 1, n)
    <3>1. w[(o + 1) + 2] = b[3] /\ w[(o + 1) + 3] = b[4] /\ w = Wire[s]
      BY <1>0, <2>4
    <3>2. n = 4 + b[3] + 256 * b[4]
      BY ONLY <2>5 DEF Kinp!FrameLen
    <3> QED BY ONLY <3>1, <3>2, Zenon DEF Long
  <2> QED BY ONLY <2>2, <2>4, <2>6, <2>7, <2>8
<1> QED BY ONLY <1>0, <1>2, <1>3, <1>4, <1>5, <1>7, <1>9

\* What Captured says of a frame.
LEMMA CapturedFrame ==
  ASSUME NEW s \in Sockets, NEW k
  PROVE  k \in Kinp!Captured(s) <=> k \in 1..Len(Payloads[s]) /\ FrameEnd[s][k] <= pos[s]
BY FramesOf DEF Kinp!Captured

\* A frame that is captured and still kept waits for what a false signal claims.
LEMMA StillKept ==
  ASSUME KinpInv, raw = <<>>, NEW s \in Sockets, NEW k \in 1..Len(Payloads[s]),
         FrameEnd[s][k] <= pos[s], Off(s) < Kinp!FrameStart(s, k)
  PROVE  \E f \in Kinp!FalseSignals(s) : Kinp!FrameStart(s, k) \in Kinp!Claim(s, f)
<1>1. PICK w, b, o : w = Wire[s] /\ b = streams[s] /\ o = Off(s)
  OBVIOUS
<1>2. PICK u : u = Kinp!FrameStart(s, k)
  OBVIOUS
<1>3. /\ w \in Bytes /\ Len(w) \in Nat /\ pos[s] \in Nat /\ pos[s] <= Len(w)
      /\ b \in Bytes /\ Len(b) \in Nat /\ o \in Nat /\ o + Len(b) = pos[s]
      /\ Len(b) >= 4 => /\ w[o + 1] = 13 /\ w[(o + 1) + 1] = 240
                        /\ \E n \in Nat : Long(s, o + 1, n) /\ Len(b) < n
  <2>1. /\ Wire[s] \in Bytes /\ Len(Wire[s]) \in Nat /\ pos[s] \in Nat /\ pos[s] <= Len(Wire[s])
        /\ streams[s] \in Bytes /\ Len(streams[s]) \in Nat /\ Off(s) \in Nat
        /\ Off(s) + Len(streams[s]) = pos[s]
        /\ Len(streams[s]) >= 4 =>
             /\ Wire[s][Off(s) + 1] = 13 /\ Wire[s][(Off(s) + 1) + 1] = 240
             /\ \E n \in Nat : Long(s, Off(s) + 1, n) /\ Len(streams[s]) < n
    BY Unfinished
  <2> QED BY ONLY <1>1, <2>1
<1>4. u \in Nat /\ o < u /\ u + 3 <= FrameEnd[s][k] /\ FrameEnd[s][k] \in Nat /\ u <= FrameEnd[s][k]
  <2>1. /\ Kinp!FrameStart(s, k) \in 1..Len(Wire[s])
        /\ FrameEnd[s][k] = Kinp!FrameStart(s, k) + 3 + Len(Payloads[s][k])
    BY FrameBytes
  <2>2. Len(Payloads[s][k]) \in Nat /\ Len(Wire[s]) \in Nat
    BY FramesOf
  <2>3. u \in Nat /\ o < u
    BY <1>1, <1>2, <2>1, <2>2
  <2>4. \A x, y \in Nat : x + 3 <= x + 3 + y /\ x + 3 + y \in Nat /\ x <= x + 3 + y
    OBVIOUS
  <2>5. FrameEnd[s][k] = u + 3 + Len(Payloads[s][k])
    BY ONLY <1>2, <2>1
  <2> QED BY ONLY <2>2, <2>3, <2>4, <2>5
<1>5. FrameEnd[s][k] <= pos[s]
  OBVIOUS
<1>6. Len(b) >= 4
  BY ONLY <1>3, <1>4, <1>5
<1>7. PICK n \in Nat : Long(s, o + 1, n) /\ Len(b) < n
  BY ONLY <1>3, <1>6
<1>8. PICK t : t = o + 1
  OBVIOUS
<1>9. t \in Nat /\ t > 0 /\ t + 3 <= Len(w) /\ t <= u /\ pos[s] < t - 1 + n /\ u <= t - 1 + n
  <2>1. /\ o \in Nat /\ Len(b) \in Nat /\ u \in Nat /\ pos[s] \in Nat /\ Len(w) \in Nat
        /\ FrameEnd[s][k] \in Nat /\ o + Len(b) = pos[s] /\ pos[s] <= Len(w) /\ o < u
        /\ u <= FrameEnd[s][k]
    BY ONLY <1>3, <1>4
  <2>2. t - 1 + n = o + n
    BY ONLY <1>8, <2>1, n \in Nat
  <2>3. o + Len(b) < o + n
    BY ONLY <1>7, <2>1, n \in Nat
  <2>4. t \in Nat /\ t > 0 /\ t + 3 <= Len(w) /\ t <= u
    BY ONLY <1>6, <1>8, <2>1
  <2>5. pos[s] < t - 1 + n
    BY ONLY <2>1, <2>2, <2>3
  <2>6. u <= t - 1 + n
    <3>1. \A x, y, z, v \in Nat : x <= y /\ y <= z /\ z < v => x <= v
      OBVIOUS
    <3>2. t - 1 + n \in Nat
      BY ONLY <2>1, <2>2, n \in Nat
    <3> QED BY ONLY <1>5, <2>1, <2>5, <3>1, <3>2, Zenon
  <2> QED BY ONLY <2>4, <2>5, <2>6
<1>10. Wire[s][t] = 13 /\ Wire[s][t + 1] = 240 /\ Long(s, t, n) /\ t + 3 <= Len(Wire[s])
  BY ONLY <1>1, <1>3, <1>6, <1>7, <1>8, <1>9
<1>11. ASSUME NEW j \in 1..Len(Payloads[s]), Kinp!FrameStart(s, j) = t PROVE FALSE
  <2>1. FrameEnd[s][j] = t - 1 + n
    <3>1. FrameEnd[s][j] = Kinp!FrameStart(s, j) + 3 + Len(Payloads[s][j])
      BY FrameBytes
    <3>2. 4 + Wire[s][Kinp!FrameStart(s, j) + 2] + 256 * Wire[s][Kinp!FrameStart(s, j) + 3]
            = 4 + Len(Payloads[s][j])
      BY FrameBytes
    <3>3. n = 4 + Wire[s][t + 2] + 256 * Wire[s][t + 3]
      BY ONLY <1>10 DEF Long
    <3>4. n = 4 + Len(Payloads[s][j])
      BY ONLY <1>11, <3>2, <3>3, Zenon
    <3>5. Len(Payloads[s][j]) \in Nat
      BY FramesOf
    <3>6. \A x, y \in Nat : y + 3 + x = y - 1 + (4 + x)
      OBVIOUS
    <3>7. t + 3 + Len(Payloads[s][j]) = t - 1 + (4 + Len(Payloads[s][j]))
      BY ONLY <1>9, <3>5, <3>6, Zenon
    <3> QED BY ONLY <1>11, <3>1, <3>4, <3>7, Zenon
  <2>2. Kinp!FrameStart(s, j) <= Kinp!FrameStart(s, k) /\ Kinp!FrameStart(s, k) <= FrameEnd[s][j]
    BY ONLY <1>2, <1>9, <1>11, <2>1
  <2>3. k = j
    BY <2>2, FramesApart
  <2>4. FrameEnd[s][k] = t - 1 + n
    BY ONLY <2>1, <2>3
  <2> QED BY ONLY <2>4, <1>3, <1>4, <1>5, <1>9, n \in Nat
<1>12. Kinp!Claim(s, t) = (t + 1)..(t - 1 + n) /\ t \in Kinp!FalseSignals(s)
  <2>1. Kinp!Claim(s, t) = (t + 1)..(t - 1 + n)
    BY ONLY <1>9, <1>10, Claimed, s \in Sockets, n \in Nat
  <2>2. t \in Kinp!FalseSignals(s)
    BY ONLY <1>9, <1>10, <1>11, Claimed, s \in Sockets, n \in Nat
  <2> QED BY <2>1, <2>2
<1>13. u \in (t + 1)..(t - 1 + n)
  <2>1. u # t
    BY <1>2, <1>11
  <2> QED BY ONLY <2>1, <1>4, <1>9, n \in Nat
<1> QED BY <1>2, <1>12, <1>13

\* ResynchronisesOnFrame: whatever a capture cut and wherever the stream was met, a frame is
\* lost only to a signal cut in two or to a false signal, and those only take what they claim.
THEOREM Resynchronises == WindowSpec => []ResynchronisesOnFrame
<1>1. KinpInv => ResynchronisesOnFrame
  <2> SUFFICES ASSUME KinpInv, raw = <<>>, NEW s \in Sockets, NEW k \in Kinp!Captured(s)
               PROVE  Excused(s, k)
    BY Zenon DEF ResynchronisesOnFrame, Kinp!ResynchronisesOnFrame, Excused
  <2>1. k \in 1..Len(Payloads[s]) /\ FrameEnd[s][k] <= pos[s]
    BY CapturedFrame
  <2>2. CASE Kinp!FrameStart(s, k) <= Off(s)
    BY <2>1, <2>2 DEF KinpInv, SocketInv, Accounted
  <2>3. CASE Off(s) < Kinp!FrameStart(s, k)
    BY <2>1, <2>3, StillKept DEF Excused
  <2>4. Kinp!FrameStart(s, k) \in Nat /\ Off(s) \in Nat
    <3>1. Kinp!FrameStart(s, k) \in 1..Len(Wire[s]) /\ Len(Wire[s]) \in Nat
      BY <2>1, FrameBytes, FramesOf
    <3>2. Off(s) \in Nat
      BY Unfinished
    <3> QED BY <3>1, <3>2
  <2> QED BY <2>2, <2>3, <2>4
<1> QED BY <1>1, KinpInvariance, PTL

\* The frames of a stream met at the start of one that have been captured are those that were
\* returned.
LEMMA CapturedAreReturned ==
  ASSUME KinpInv, raw = <<>>, NEW s \in Sockets, FrameEnd[s][0] = 0
  PROVE  /\ Len(messages[s]) \in Nat /\ Kinp!Captured(s) = 1..Len(messages[s])
         /\ \A k \in 1..Len(messages[s]) : messages[s][k].payload = Payloads[s][k]
<1>1. PICK m : m = Len(messages[s])
  OBVIOUS
<1>2. /\ m \in Nat /\ m <= Len(Payloads[s]) /\ Off(s) = FrameEnd[s][m]
      /\ \A k \in 1..m : messages[s][k].payload = Payloads[s][k]
  <2>1. m \in Nat
    BY <1>1, KeysAre, TypesOfKey DEF KinpInv
  <2> QED BY <1>1, <2>1 DEF KinpInv, SocketInv, InStep
<1>3. /\ pos[s] \in Nat /\ Off(s) \in Nat /\ Off(s) <= pos[s] /\ Len(Payloads[s]) \in Nat
      /\ Off(s) + Len(streams[s]) = pos[s] /\ Len(streams[s]) \in Nat
  <2>1. /\ pos[s] \in Nat /\ Off(s) \in Nat /\ Off(s) + Len(streams[s]) = pos[s]
        /\ Len(streams[s]) \in Nat
    BY Unfinished
  <2>2. Len(Payloads[s]) \in Nat
    BY FramesOf
  <2> QED BY <2>1, <2>2
<1>4. ASSUME NEW k \in 1..m PROVE k \in Kinp!Captured(s)
  <2>1. k \in 0..Len(Payloads[s]) /\ m \in k..Len(Payloads[s]) /\ k \in 1..Len(Payloads[s])
    BY <1>2, <1>3
  <2>2. FrameEnd[s][k] <= FrameEnd[s][m]
    BY <2>1, EndsGrow
  <2>3. FrameEnd[s][k] \in Nat /\ FrameEnd[s][m] \in Nat
    BY <1>2, <2>1, FramesOf
  <2>4. FrameEnd[s][k] <= pos[s]
    BY <1>2, <1>3, <2>2, <2>3
  <2> QED BY <2>1, <2>4, CapturedFrame
<1>5. ASSUME NEW k \in Kinp!Captured(s) PROVE k \in 1..m
  <2>1. k \in 1..Len(Payloads[s]) /\ FrameEnd[s][k] <= pos[s]
    BY CapturedFrame
  <2> SUFFICES ASSUME ~(k <= m) PROVE FALSE
    BY <2>1, <1>2, <1>3
  <2>2. m + 1 \in 1..Len(Payloads[s]) /\ (m + 1) - 1 = m /\ m + 1 \in 0..Len(Payloads[s])
        /\ k \in (m + 1)..Len(Payloads[s]) /\ k \in 0..Len(Payloads[s])
    BY <1>2, <1>3, <2>1
  <2>3. FrameEnd[s][m + 1] <= FrameEnd[s][k]
    BY <2>2, EndsGrow
  <2>4. /\ FrameEnd[s][m + 1] = FrameEnd[s][(m + 1) - 1] + 4 + Len(Payloads[s][m + 1])
        /\ Len(Payloads[s][m + 1]) \in Nat
        /\ 4 + Wire[s][Kinp!FrameStart(s, m + 1) + 2] + 256 * Wire[s][Kinp!FrameStart(s, m + 1) + 3]
             = 4 + Len(Payloads[s][m + 1])
        /\ FrameEnd[s][m + 1] \in Nat /\ FrameEnd[s][k] \in Nat
    <3>1. m + 1 \in 1..Len(Payloads[s])
      BY <2>2
    <3>2. 4 + Wire[s][Kinp!FrameStart(s, m + 1) + 2] + 256 * Wire[s][Kinp!FrameStart(s, m + 1) + 3]
            = 4 + Len(Payloads[s][m + 1])
      <4>1. PICK j \in 1..Len(Payloads[s]) : j = m + 1
        BY <3>1
      <4>2. 4 + Wire[s][Kinp!FrameStart(s, j) + 2] + 256 * Wire[s][Kinp!FrameStart(s, j) + 3]
              = 4 + Len(Payloads[s][j])
        BY FrameBytes
      <4> QED BY ONLY <4>1, <4>2, Zenon
    <3>3. FrameEnd[s][m + 1] = FrameEnd[s][(m + 1) - 1] + 4 + Len(Payloads[s][m + 1])
          /\ Len(Payloads[s][m + 1]) \in Nat
      <4>1. PICK j \in 1..Len(Payloads[s]) : j = m + 1
        BY <3>1
      <4>2. FrameEnd[s][j] = FrameEnd[s][j - 1] + 4 + Len(Payloads[s][j])
            /\ Len(Payloads[s][j]) \in Nat
        BY FramesOf
      <4> QED BY ONLY <4>1, <4>2, Zenon
    <3> QED BY <2>2, <3>2, <3>3, FramesOf
  <2>5. PICK n, x, q : n = Len(Payloads[s][m + 1]) /\ x = Off(s) /\ q = pos[s]
    OBVIOUS
  <2>6. n \in Nat /\ x \in Nat /\ q \in Nat /\ FrameEnd[s][m + 1] = x + 4 + n
    BY ONLY <1>2, <1>3, <2>2, <2>4, <2>5
  <2>7. 4 + n <= Len(streams[s]) /\ Len(streams[s]) >= 4
    <3>1. \A u, v, y \in Nat : u <= v /\ v <= y => u <= y
      OBVIOUS
    <3>2. FrameEnd[s][m + 1] <= q
      BY ONLY <1>3, <2>1, <2>3, <2>4, <2>5, <3>1, Zenon
    <3>3. \A u, v, y \in Nat : u + 4 + v <= u + y => 4 + v <= y /\ y >= 4
      OBVIOUS
    <3>4. x + 4 + n <= x + Len(streams[s])
      BY ONLY <1>3, <2>5, <2>6, <3>2, Zenon
    <3> QED BY ONLY <1>3, <2>6, <3>3, <3>4, Zenon
  <2>8. PICK l \in Nat : Long(s, Off(s) + 1, l) /\ Len(streams[s]) < l
    BY <2>7, Unfinished
  <2>9. Kinp!FrameStart(s, m + 1) = Off(s) + 1
    BY ONLY <1>2, <2>2 DEF Kinp!FrameStart
  <2>10. l = 4 + Wire[s][(Off(s) + 1) + 2] + 256 * Wire[s][(Off(s) + 1) + 3]
    BY ONLY <2>8 DEF Long
  <2>11. l = 4 + n
    BY ONLY <2>4, <2>5, <2>9, <2>10, Zenon
  <2> QED BY ONLY <1>3, <2>6, <2>7, <2>8, <2>11
<1>6. Kinp!Captured(s) = 1..m
  BY ONLY <1>4, <1>5, Zenon
<1> QED BY ONLY <1>1, <1>2, <1>6

LEMMA CountTo == ASSUME NEW n \in Nat PROVE Kinp!Cardinality(1..n) = n
<1>1. Cardinality(1..n) = n
  <2>1. Cardinality(1..n) = IF 1 > n THEN 0 ELSE n - 1 + 1
    BY FS_Interval
  <2> QED BY <2>1
<1> QED BY <1>1 DEF Kinp!Cardinality, Cardinality

\* AlignedStreamDecoded: what a stream captured from the start of a frame is decoded into.
THEOREM AlignedDecodes == WindowSpec => []AlignedStreamDecoded
<1>1. KinpInv => AlignedStreamDecoded
  <2> SUFFICES ASSUME KinpInv, raw = <<>>, NEW s \in Sockets, FrameEnd[s][0] = 0
               PROVE  Kinp!Decoded(s) = [k \in 1..Kinp!Cardinality(Kinp!Captured(s)) |-> Payloads[s][k]]
    BY Zenon DEF AlignedStreamDecoded, Kinp!AlignedStreamDecoded
  <2>1. PICK m : m = Len(messages[s])
    OBVIOUS
  <2>2. /\ m \in Nat /\ Kinp!Captured(s) = 1..m /\ DOMAIN messages[s] = 1..m
        /\ \A k \in 1..m : messages[s][k].payload = Payloads[s][k]
    BY <2>1, CapturedAreReturned, KeysAre, TypesOfKey DEF KinpInv
  <2>3. Kinp!Cardinality(Kinp!Captured(s)) = m
    BY <2>2, CountTo
  <2>4. Kinp!Decoded(s) = [k \in 1..m |-> messages[s][k].payload]
    BY ONLY <2>2, Zenon DEF Kinp!Decoded
  <2>5. [k \in 1..m |-> messages[s][k].payload] = [k \in 1..m |-> Payloads[s][k]]
    BY ONLY <2>2
  <2> QED BY ONLY <2>3, <2>4, <2>5
<1> QED BY <1>1, KinpInvariance, PTL

\* PlaintextRoundTrip: what the detours sent is what the decoder returned, message by message.
THEOREM RoundTrip == WindowSpec => []PlaintextRoundTrip
<1>1. KinpInv => PlaintextRoundTrip
  <2> SUFFICES ASSUME KinpInv, raw = <<>> PROVE PlaintextRoundTrip
    BY Zenon DEF PlaintextRoundTrip, Kinp!PlaintextRoundTrip
  <2> DEFINE key == Kinp!Plaintext
  <2>1. /\ streams[key] = <<>> /\ Len(messages[key]) = Len(sent)
        /\ \A k \in 1..Len(messages[key]) : IsMessage(messages[key][k], sent[k])
    <3>1. raw # <<key, sent[Len(sent)].dir>>
      OBVIOUS
    <3> QED BY <3>1 DEF KinpInv, PlainInv
  <2>2. /\ messages[key] \in Seq(Returned) /\ sent \in Seq(Message) /\ Len(sent) \in Nat
        /\ DOMAIN sent = 1..Len(sent)
    <3>1. sent \in Seq(Message)
      BY DEF KinpInv, KinpTypes
    <3> QED BY <3>1, KeysAre, TypesOfKey DEF KinpInv
  <2>3. ASSUME NEW k \in DOMAIN sent
        PROVE  LET got == messages[key][k]
               IN /\ got.dir = sent[k].dir
                  /\ SubSeq(got.payload, 9, Len(got.payload)) = sent[k].data
                  /\ sent[k].service \in 1..99 =>
                       got.kind = [type |-> "Dml", service |-> sent[k].service,
                                   message |-> sent[k].message, length |-> Len(sent[k].data) + 4]
    <3>1. PICK got, m : got = messages[key][k] /\ m = sent[k]
      OBVIOUS
    <3>2. IsMessage(got, m) /\ got \in Returned /\ m \in Message
      BY <2>1, <2>2, <3>1, Element
    <3>3. PICK p, c : p = got.payload /\ c = m.data
      OBVIOUS
    <3>4. p \in Bytes /\ c \in Bytes /\ Len(c) \in Nat
      <4>1. got.payload \in Bytes /\ m.data \in Fields
        BY ONLY <3>2 DEF Returned, Message
      <4> QED BY <3>3, <4>1, FieldData
    <3>5. Len(p) = 8 + Len(c) /\ \A j \in 1..Len(c) : p[8 + j] = c[j]
      BY ONLY <3>2, <3>3 DEF IsMessage
    <3>6. PICK l : l = Len(p)
      OBVIOUS
    <3>7. 9 \in 1..(Len(p) + 1) /\ l \in (9 - 1)..Len(p) /\ l - 9 + 1 = Len(c)
      BY ONLY <3>4, <3>5, <3>6
    <3>8. PICK q : q = SubSeq(p, 9, l)
      OBVIOUS
    <3>9. q \in Bytes /\ Len(q) = Len(c) /\ \A j \in 1..Len(c) : q[j] = p[9 + j - 1]
      <4>1. /\ SubSeq(p, 9, l) \in Bytes /\ Len(SubSeq(p, 9, l)) = l - 9 + 1
            /\ \A j \in 1..(l - 9 + 1) : SubSeq(p, 9, l)[j] = p[9 + j - 1]
        BY ONLY <3>4, <3>7, Part DEF Bytes
      <4> QED BY ONLY <3>7, <3>8, <4>1
    <3>10. \A j \in 1..Len(q) : q[j] = c[j]
      <4>1. \A j \in 1..Len(c) : 9 + j - 1 = 8 + j
        BY ONLY <3>4
      <4> QED BY ONLY <3>5, <3>9, <4>1
    <3>11. q = c
      BY ONLY <3>4, <3>9, <3>10, SameSequences DEF Bytes
    <3>12. SubSeq(got.payload, 9, Len(got.payload)) = m.data
      BY ONLY <3>3, <3>6, <3>8, <3>11
    <3>13. /\ got.dir = m.dir
           /\ m.service \in 1..99 =>
                got.kind = [type |-> "Dml", service |-> m.service, message |-> m.message,
                            length |-> Len(m.data) + 4]
      BY ONLY <3>2 DEF IsMessage
    <3> QED BY ONLY <3>1, <3>12, <3>13, Zenon
  <2> QED BY <2>1, <2>3, Zenon DEF PlaintextRoundTrip, Kinp!PlaintextRoundTrip
<1> QED BY <1>1, KinpInvariance, PTL

-----------------------------------------------------------------------------
(***************************************************************************)
(* The decoder of a message's fields, for payloads of any length and any   *)
(* schemas.                                                                *)
(***************************************************************************)

\* The loop over the fields is in one definition.
HasDefinition == pc = "fields" => Len(msg_def) = 1

IInv == TypeOK /\ HasDefinition /\ FieldsContiguous

-----------------------------------------------------------------------------
LEMMA NotEmpty ==
  ASSUME NEW S, NEW s \in Seq(S), Len(s) <= 1, s # <<>> PROVE Len(s) = 1
<1>1. Len(s) \in Nat /\ (Len(s) = 0 => s = <<>>)
  OBVIOUS
<1> QED BY <1>1, SMTT(30)

\* The inner loop over printable bytes ends, behind its start and within the payload, at
\* the first byte that is not printable.
LEMMA AsciiEndBounds ==
  ASSUME TypeOK, NEW j \in Nat, j < Len(data), PrintableAscii(j)
  PROVE  /\ AsciiEnd(j) \in (j + 1)..Len(data)
         /\ ~PrintableAscii(AsciiEnd(j))
         /\ \A k \in j..(AsciiEnd(j) - 1) : PrintableAscii(k)
<1> DEFINE L == Len(data)
           T == {e \in j..L : ~PrintableAscii(e)}
<1>1. L \in Nat
  BY DEF TypeOK
<1>2. L \in T
  BY <1>1 DEF PrintableAscii
<1>3. T \subseteq Nat
  BY <1>1
<1>4. PICK e \in T : \A y \in T : e <= y
  <2> HIDE DEF T
  <2> QED BY <1>2, <1>3, LeastElement
<1>5. \A k \in j..(e - 1) : PrintableAscii(k)
  <2> SUFFICES ASSUME NEW k \in j..(e - 1), ~PrintableAscii(k) PROVE FALSE
    OBVIOUS
  <2>1. k \in T /\ k < e
    BY <1>1, <1>4
  <2> QED BY <2>1, <1>3, <1>4
<1>6. e \in j..L /\ ~PrintableAscii(e)
  BY <1>4
<1>7. /\ AsciiEnd(j) \in j..L /\ ~PrintableAscii(AsciiEnd(j))
      /\ \A k \in j..(AsciiEnd(j) - 1) : PrintableAscii(k)
  BY <1>5, <1>6 DEF AsciiEnd
<1>8. AsciiEnd(j) # j
  BY <1>7
<1> QED BY <1>1, <1>7, <1>8

\* The inner loop over UTF-16 units ends within the payload, at the first unit that is
\* not printable.
LEMMA WideEndBounds ==
  ASSUME TypeOK, NEW j \in Nat, PrintableWide(j)
  PROVE  /\ WideEnd(j) \in (j + 1)..Len(data)
         /\ (WideEnd(j) - j) % 2 = 0 /\ ~PrintableWide(WideEnd(j))
         /\ \A k \in j..(WideEnd(j) - 1) : (k - j) % 2 = 0 => PrintableWide(k)
<1> DEFINE L == Len(data)
           T == {e \in j..L : (e - j) % 2 = 0 /\ ~PrintableWide(e)}
<1>1. L \in Nat /\ j + 1 < L
  BY DEF TypeOK, PrintableWide
<1>2. ~PrintableWide(L) /\ ~PrintableWide(L - 1)
  BY <1>1 DEF PrintableWide
<1>3. (L - j) % 2 = 0 \/ (L - 1 - j) % 2 = 0
  BY <1>1
<1>4. L \in T \/ L - 1 \in T
  BY <1>1, <1>2, <1>3
<1>5. T \subseteq Nat
  BY <1>1
<1>6. PICK e \in T : \A y \in T : e <= y
  <2> HIDE DEF T
  <2> QED BY <1>4, <1>5, LeastElement
<1>7. \A k \in j..(e - 1) : (k - j) % 2 = 0 => PrintableWide(k)
  <2> SUFFICES ASSUME NEW k \in j..(e - 1), (k - j) % 2 = 0, ~PrintableWide(k) PROVE FALSE
    OBVIOUS
  <2>1. e \in j..L
    BY <1>6
  <2>2. k \in j..L /\ k < e
    BY <1>1, <2>1
  <2>3. k \in T
    BY <2>2
  <2> QED BY <2>2, <2>3, <1>5, <1>6
<1>8. e \in j..L /\ (e - j) % 2 = 0 /\ ~PrintableWide(e)
  BY <1>6
<1>9. /\ WideEnd(j) \in j..L /\ (WideEnd(j) - j) % 2 = 0 /\ ~PrintableWide(WideEnd(j))
      /\ \A k \in j..(WideEnd(j) - 1) : (k - j) % 2 = 0 => PrintableWide(k)
  BY <1>7, <1>8 DEF WideEnd
<1>10. WideEnd(j) # j
  BY <1>9
<1> QED BY <1>1, <1>9, <1>10

\* read_field takes a slice at its offset, whatever the type is and the length says.
LEMMA ReadFieldType ==
  ASSUME TypeOK, NEW type \in Types, NEW o \in Nat, o < Len(data)
  PROVE  /\ ReadField(type, o) \in Field
         /\ SliceOf(ReadField(type, o), data)
         /\ ReadField(type, o).type = type /\ ReadField(type, o).from = o
<1>1. \A k \in 1..Len(data) : data[k] \in Nat
  <2>1. data \in Seq(Byte)
    BY DEF TypeOK
  <2>2. \A k \in 1..Len(data) : data[k] \in Byte
    BY <2>1, Element
  <2>3. Byte \subseteq Nat
    BY DEF Byte
  <2> QED BY <2>2, <2>3
<1>2. Len(data) \in Nat
  BY DEF TypeOK
<1>3. Len(data) >= o + 2 => Word(o) \in Nat
  BY <1>1, <1>2, SMTT(30) DEF Word
<1>4. Needs(type, o) \in Nat
  <2> DEFINE w == Word(o)
  <2>1. type = "STR" => Needs(type, o) \in Nat
    BY <1>2, <1>3 DEF Needs
  <2>2. type = "WSTR" => Needs(type, o) \in Nat
    BY <1>2, <1>3 DEF Needs
  <2>3. type \notin {"STR", "WSTR"} => Needs(type, o) \in Nat
    <3>1. Size(type) \in Nat
      BY DEF Size
    <3> QED BY <3>1 DEF Needs
  <2> QED BY <2>1, <2>2, <2>3
<1> DEFINE n == Needs(type, o)
           known == o + n <= Len(data)
           to == IF known THEN o + n ELSE o
<1>5. ReadField(type, o) = [type |-> type, from |-> o, to |-> to, known |-> known]
  BY DEF ReadField
<1>6. to \in Nat /\ o <= to /\ to <= Len(data) /\ known \in BOOLEAN
  <2> HIDE DEF n
  <2> QED BY <1>2, <1>4 DEF n
<1> HIDE DEF to, known
<1> QED BY <1>5, <1>6 DEF Field, SliceOf

-----------------------------------------------------------------------------
LEMMA InitInv == Init => IInv
<1> SUFFICES ASSUME Init PROVE IInv
  OBVIOUS
<1>1. /\ input \in Inputs /\ pc = "begin" /\ offset = 0 /\ fields = <<>> /\ i = 0
      /\ strings = <<>>
  BY Zenon DEF Init
<1>2. data \in Seq(Byte) /\ msg_def \in Seq(Seq(Types)) /\ Len(msg_def) <= 1
  BY <1>1, InputAssumption DEF InputAssumption, data, msg_def
<1>3. Len(data) \in Nat
  BY <1>2
<1>4. fields \in Seq(Field) /\ strings \in Seq(String) /\ DOMAIN fields = {}
      /\ DOMAIN strings = {} /\ Len(fields) = 0
  BY <1>1
<1>5. TypeOK
  <2>1. pc \in {"begin", "fields", "wide", "ascii", "done"}
    BY <1>1
  <2>2. offset \in 0..Len(data) /\ i \in 0..(Len(data) + 1)
    BY <1>1, <1>3
  <2> QED BY <1>2, <1>4, <2>1, <2>2 DEF TypeOK
<1>6. FieldsContiguous
  BY <1>1, <1>4 DEF FieldsContiguous
<1>7. HasDefinition
  BY <1>1 DEF HasDefinition
<1> QED BY <1>5, <1>6, <1>7 DEF IInv

\* Steps that leave the fields alone keep FieldsContiguous.
LEMMA SameFields ==
  ASSUME FieldsContiguous, UNCHANGED <<input, offset, fields>>
  PROVE  FieldsContiguous'
BY DEF FieldsContiguous, msg_def

\* The next field starts where the last one ends.
LEMMA DecodeFieldInv == IInv /\ DecodeField => IInv'
<1> SUFFICES ASSUME IInv, DecodeField PROVE IInv'
  OBVIOUS
<1> USE DEF IInv
<1> DEFINE n == Len(fields)
           field == ReadField(msg_def[1][n + 1], offset)
<1>1. /\ fields' = Append(fields, field) /\ offset' = field.to
      /\ UNCHANGED <<input, pc, i, strings>>
      /\ pc = "fields" /\ n < Len(msg_def[1]) /\ offset < Len(data)
  BY DEF DecodeField
<1>2. n \in Nat /\ Len(data) \in Nat /\ offset \in Nat
  BY DEF TypeOK
<1>3. /\ msg_def # <<>> /\ n + 1 <= Len(msg_def[1])
      /\ msg_def[1] \in Seq(Types) /\ msg_def[1][n + 1] \in Types
  <2>1. Len(msg_def) = 1
    BY <1>1 DEF HasDefinition
  <2>2. msg_def \in Seq(Seq(Types))
    BY DEF TypeOK
  <2>3. msg_def # <<>> /\ msg_def[1] \in Seq(Types)
    BY ONLY <2>1, <2>2, Element
  <2>4. Len(msg_def[1]) \in Nat
    BY ONLY <2>3
  <2>5. n + 1 \in 1..Len(msg_def[1])
    BY <1>1, <1>2, <2>4
  <2> QED BY <2>3, <2>5, Element
<1>4. /\ field \in Field /\ SliceOf(field, data)
      /\ field.type = msg_def[1][n + 1] /\ field.from = offset
  <2>1. TypeOK
    OBVIOUS
  <2> QED BY <1>1, <1>2, <1>3, <2>1, ReadFieldType
<1>5. data' = data /\ msg_def' = msg_def /\ pc' = pc /\ i' = i /\ strings' = strings
  BY <1>1 DEF data, msg_def
<1>6. fields \in Seq(Field)
  BY DEF TypeOK
<1> HIDE DEF IInv, field
<1>7. /\ fields' \in Seq(Field) /\ Len(fields') = n + 1 /\ fields'[n + 1] = field
      /\ DOMAIN fields' = 1..(n + 1) /\ \A k \in 1..n : fields'[k] = fields[k]
  BY <1>1, <1>4, <1>6, Appended
<1>8. DOMAIN fields = 1..n
  BY <1>6
<1> USE DEF IInv
<1>9. TypeOK'
  <2>1. \A k \in DOMAIN fields' : SliceOf(fields'[k], data')
    <3> SUFFICES ASSUME NEW k \in 1..(n + 1) PROVE SliceOf(fields'[k], data')
      BY <1>7
    <3>1. CASE k = n + 1
      BY <3>1, <1>4, <1>5, <1>7 DEF SliceOf
    <3>2. CASE k \in 1..n
      BY <3>2, <1>5, <1>7, <1>8 DEF SliceOf, TypeOK
    <3> QED BY <3>1, <3>2, <1>2
  <2>2. offset' \in 0..Len(data)
    BY <1>1, <1>2, <1>4 DEF SliceOf, Field
  <2>3. \A k \in DOMAIN strings' : SliceOf(strings'[k], data')
    BY <1>5 DEF TypeOK, SliceOf
  <2>4. TypeOK
    OBVIOUS
  <2> HIDE DEF IInv
  <2> QED BY <1>5, <1>7, <2>1, <2>2, <2>3, <2>4 DEF TypeOK
<1>10. FieldsContiguous'
  <2>1. /\ n > 0 => fields[n].to = offset /\ fields[1].from = 0
        /\ n = 0 => offset = 0
        /\ \A k \in 1..(n - 1) : fields[k].to = fields[k + 1].from
        /\ \A k \in 1..n : fields[k].type = msg_def[1][k]
    BY <1>2, <1>8 DEF FieldsContiguous
  <2>2. fields'[1].from = 0 /\ fields'[n + 1].to = offset'
    <3>1. CASE n = 0
      BY <3>1, <2>1, <1>1, <1>4, <1>7
    <3>2. CASE n > 0
      BY <3>2, <2>1, <1>1, <1>2, <1>7
    <3> QED BY <3>1, <3>2, <1>2
  <2>3. \A k \in 1..n : fields'[k].to = fields'[k + 1].from
    <3> SUFFICES ASSUME NEW k \in 1..n PROVE fields'[k].to = fields'[k + 1].from
      OBVIOUS
    <3>1. CASE k = n
      BY <3>1, <2>1, <1>2, <1>4, <1>7
    <3>2. CASE k \in 1..(n - 1)
      BY <3>2, <2>1, <1>2, <1>7
    <3> QED BY <3>1, <3>2, <1>2
  <2>4. \A k \in 1..(n + 1) : fields'[k].type = msg_def[1][k]
    BY <2>1, <1>2, <1>4, <1>7
  <2> HIDE DEF IInv
  <2> QED BY <2>2, <2>3, <2>4, <1>2, <1>3, <1>5, <1>7 DEF FieldsContiguous
<1>11. HasDefinition'
  BY <1>5 DEF HasDefinition
<1> QED BY <1>9, <1>10, <1>11

\* An iteration of a scanner: the byte is passed, or the run from it to e, which may be
\* a string.
LEMMA ScanInv ==
  ASSUME IInv, UNCHANGED <<input, pc, offset, fields>>, pc # "fields",
         NEW kind \in {"STR", "WSTR"}, i < Len(data), NEW e \in (i + 1)..Len(data),
         \/ i' = e + 1 /\ strings' = Append(strings, [kind |-> kind, from |-> i, to |-> e])
         \/ i' = e + 1 /\ strings' = strings
         \/ i' = i + 1 /\ strings' = strings
  PROVE  IInv'
<1> DEFINE s == [kind |-> kind, from |-> i, to |-> e]
<1>1. data' = data /\ msg_def' = msg_def /\ pc' = pc /\ offset' = offset /\ fields' = fields
  BY DEF data, msg_def
<1>2. Len(data) \in Nat /\ i \in Nat /\ TypeOK
  BY DEF IInv, TypeOK
<1>3. i' \in 0..(Len(data) + 1)
  BY <1>2
<1>4. s \in String /\ SliceOf(s, data)
  BY <1>2 DEF String, SliceOf
<1>5. strings \in Seq(String) /\ \A k \in DOMAIN strings : SliceOf(strings[k], data)
  BY <1>2 DEF TypeOK
<1>6. strings' \in Seq(String) /\ \A k \in DOMAIN strings' : SliceOf(strings'[k], data)
  <2> HIDE DEF s
  <2>1. CASE strings' = strings
    BY <2>1, <1>5
  <2>2. CASE strings' = Append(strings, s)
    <3>1. DOMAIN strings = 1..Len(strings) /\ Len(strings) \in Nat
      BY <1>5
    <3>2. /\ Append(strings, s) \in Seq(String) /\ Append(strings, s)[Len(strings) + 1] = s
          /\ DOMAIN Append(strings, s) = 1..(Len(strings) + 1)
          /\ \A k \in 1..Len(strings) : Append(strings, s)[k] = strings[k]
      BY <1>4, <1>5, Appended
    <3>3. \A k \in 1..(Len(strings) + 1) : k \in 1..Len(strings) \/ k = Len(strings) + 1
      BY <3>1
    <3>4. \A k \in 1..(Len(strings) + 1) : SliceOf(Append(strings, s)[k], data)
      BY <3>1, <3>2, <3>3, <1>4, <1>5
    <3> QED BY <2>2, <3>2, <3>4
  <2> QED BY <2>1, <2>2 DEF s
<1>7. TypeOK'
  BY <1>1, <1>2, <1>3, <1>6 DEF TypeOK
<1>8. FieldsContiguous'
  BY SameFields DEF IInv
<1>9. HasDefinition'
  BY <1>1 DEF HasDefinition
<1> QED BY <1>7, <1>8, <1>9 DEF IInv

LEMMA ScanWideInv == IInv /\ ScanWide => IInv'
<1> SUFFICES ASSUME IInv, ScanWide PROVE IInv'
  OBVIOUS
<1>1. TypeOK /\ i \in Nat /\ Len(data) \in Nat
  BY DEF IInv, TypeOK
<1>2. UNCHANGED <<input, pc, offset, fields>> /\ pc # "fields" /\ i + 1 < Len(data)
  BY DEF ScanWide
<1>3. CASE PrintableWide(i)
  <2>1. WideEnd(i) \in (i + 1)..Len(data)
    BY <1>1, <1>3, WideEndBounds
  <2>2. /\ i' = WideEnd(i) + 1
        /\ \/ strings' = Append(strings, [kind |-> "WSTR", from |-> i, to |-> WideEnd(i)])
           \/ strings' = strings
    BY <1>3 DEF ScanWide
  <2> QED BY <1>1, <1>2, <2>1, <2>2, ScanInv
<1>4. CASE ~PrintableWide(i)
  <2>1. i' = i + 1 /\ strings' = strings
    BY <1>4 DEF ScanWide
  <2>2. i + 1 \in (i + 1)..Len(data) /\ i < Len(data)
    BY <1>1, <1>2
  <2> QED BY <1>2, <2>1, <2>2, ScanInv
<1> QED BY <1>3, <1>4

LEMMA ScanAsciiInv == IInv /\ ScanAscii => IInv'
<1> SUFFICES ASSUME IInv, ScanAscii PROVE IInv'
  OBVIOUS
<1>1. TypeOK /\ i \in Nat /\ Len(data) \in Nat
  BY DEF IInv, TypeOK
<1>2. UNCHANGED <<input, pc, offset, fields>> /\ pc # "fields" /\ i < Len(data)
  BY DEF ScanAscii
<1>3. CASE PrintableAscii(i)
  <2>1. AsciiEnd(i) \in (i + 1)..Len(data)
    BY <1>1, <1>2, <1>3, AsciiEndBounds
  <2>2. /\ i' = AsciiEnd(i) + 1
        /\ \/ strings' = Append(strings, [kind |-> "STR", from |-> i, to |-> AsciiEnd(i)])
           \/ strings' = strings
    BY <1>3 DEF ScanAscii
  <2> QED BY <1>2, <2>1, <2>2, ScanInv
<1>4. CASE ~PrintableAscii(i)
  <2>1. i' = i + 1 /\ strings' = strings
    BY <1>4 DEF ScanAscii
  <2>2. i + 1 \in (i + 1)..Len(data)
    BY <1>1, <1>2
  <2> QED BY <1>2, <2>1, <2>2, ScanInv
<1> QED BY <1>3, <1>4

\* The steps from one part of the function to the next.
LEMMA PhaseInv ==
  ASSUME IInv, UNCHANGED <<input, offset, fields, strings>>,
         pc' \in {"fields", "wide", "ascii", "done"}, i' \in {0, i},
         pc' = "fields" => msg_def # <<>>
  PROVE  IInv'
<1>1. data' = data /\ msg_def' = msg_def
  BY DEF data, msg_def
<1>2. Len(data) \in Nat /\ TypeOK
  BY DEF IInv, TypeOK
<1>3. i' \in 0..(Len(data) + 1)
  BY <1>2 DEF TypeOK
<1>4. TypeOK'
  BY <1>1, <1>2, <1>3 DEF TypeOK
<1>5. FieldsContiguous'
  BY SameFields DEF IInv
<1>6. HasDefinition'
  <2>1. msg_def \in Seq(Seq(Types)) /\ Len(msg_def) <= 1
    BY <1>2 DEF TypeOK
  <2>2. msg_def # <<>> => Len(msg_def) = 1
    BY <2>1, NotEmpty
  <2> QED BY <1>1, <2>2 DEF HasDefinition
<1> QED BY <1>4, <1>5, <1>6 DEF IInv

LEMMA StepInv == IInv /\ [Next]_vars => IInv'
<1> SUFFICES ASSUME IInv, [Next]_vars PROVE IInv'
  OBVIOUS
<1>1. CASE Begin
  BY <1>1, PhaseInv DEF Begin
<1>2. CASE DecodeField
  BY <1>2, DecodeFieldInv
<1>3. CASE FieldsDone
  BY <1>3, PhaseInv DEF FieldsDone
<1>4. CASE ScanWide
  BY <1>4, ScanWideInv
<1>5. CASE WideDone
  BY <1>5, PhaseInv DEF WideDone
<1>6. CASE ScanAscii
  BY <1>6, ScanAsciiInv
<1>7. CASE AsciiDone
  BY <1>7, PhaseInv DEF AsciiDone
<1>8. CASE UNCHANGED vars
  <2>1. UNCHANGED <<input, offset, fields, strings>> /\ pc' = pc /\ i' = i
    BY <1>8 DEF vars
  <2>2. data' = data /\ msg_def' = msg_def
    BY <2>1 DEF data, msg_def
  <2>3. TypeOK'
    BY <2>1, <2>2 DEF IInv, TypeOK
  <2> QED BY <2>1, <2>2, <2>3, SameFields DEF IInv, HasDefinition
<1> QED BY <1>1, <1>2, <1>3, <1>4, <1>5, <1>6, <1>7, <1>8 DEF Next

\* The invariant holds, for every payload and definition.
THEOREM Invariance == Spec => []IInv
BY InitInv, StepInv, PTL DEF Spec

\* No index of the decoder or of its scanners leaves the payload.
THEOREM TypeCorrect == Spec => []TypeOK
<1>1. IInv => TypeOK
  BY DEF IInv
<1> QED BY <1>1, Invariance, PTL

\* The fields lie one behind the other from the first byte on, each of its own type.
THEOREM FieldsInOrder == Spec => []FieldsContiguous
<1>1. IInv => FieldsContiguous
  BY DEF IInv
<1> QED BY <1>1, Invariance, PTL

-----------------------------------------------------------------------------
\* What the scanners have found.
Found == {strings[k] : k \in DOMAIN strings}

InOrder ==
  \A k \in 1..(Len(strings) - 1) :
    \/ strings[k].kind = "WSTR" /\ strings[k + 1].kind = "STR"
    \/ strings[k].kind = strings[k + 1].kind /\ strings[k].to <= strings[k + 1].from

\* A scanner has found exactly the runs that start before its place, and no run goes on
\* there: it came over a byte that prolongs none.  A UTF-16 run could go on at either parity.
WideSoFar ==
  /\ Found = {r \in WideRuns : r.from < i}
  /\ \A r \in Found : r.to <= i
  /\ \A m \in Nat : m + 1 = i \/ m + 2 = i => ~PrintableWide(m)
AsciiSoFar ==
  /\ Found = WideRuns \cup {r \in AsciiRuns : r.from < i}
  /\ \A r \in Found : r.kind = "STR" => r.to <= i
  /\ \A m \in Nat : m + 1 = i => ~PrintableAscii(m)

StringsInv ==
  /\ pc \in {"begin", "fields"} => strings = <<>> /\ i = 0
  /\ pc = "wide" => WideSoFar
  /\ pc = "ascii" => AsciiSoFar
  /\ pc = "done" /\ fields = <<>> => Found = WideRuns \cup AsciiRuns
  /\ InOrder

\* The runs depend on the payload alone.
LEMMA SameRuns ==
  ASSUME input' = input
  PROVE  /\ data' = data /\ WideRuns' = WideRuns /\ AsciiRuns' = AsciiRuns
         /\ \A m \in Nat : PrintableWide(m)' = PrintableWide(m)
         /\ \A m \in Nat : PrintableAscii(m)' = PrintableAscii(m)
BY DEF data, WideRuns, AsciiRuns, PrintableWide, PrintableAscii

LEMMA FoundAppended ==
  ASSUME strings \in Seq(String), NEW x \in String, strings' = Append(strings, x)
  PROVE  Found' = Found \cup {x}
<1> DEFINE n == Len(strings)
           t == Append(strings, x)
<1>1. DOMAIN strings = 1..n /\ n \in Nat
  OBVIOUS
<1>2. t[n + 1] = x /\ DOMAIN t = 1..(n + 1) /\ \A k \in 1..n : t[k] = strings[k]
  BY Appended
<1> HIDE DEF t
<1>3. {t[k] : k \in 1..(n + 1)} = {strings[k] : k \in 1..n} \cup {x}
  <2> HIDE DEF n
  <2>1. n + 1 \in 1..(n + 1) /\ 1..n \subseteq 1..(n + 1)
    BY <1>1
  <2>2. \A k \in 1..(n + 1) : k \in 1..n \/ k = n + 1
    BY <1>1
  <2>3. \A k \in 1..(n + 1) : t[k] \in {strings[l] : l \in 1..n} \cup {x}
    BY <2>2, <1>2
  <2>4. \A k \in 1..n : strings[k] \in {t[l] : l \in 1..(n + 1)}
    BY <2>1, <1>2
  <2>5. x \in {t[l] : l \in 1..(n + 1)}
    BY <2>1, <1>2
  <2> QED BY <2>3, <2>4, <2>5
<1> QED BY <1>1, <1>2, <1>3 DEF Found, t

\* A string behind the others of its kind, and UTF-16 ones before the others.
LEMMA InOrderAppended ==
  ASSUME strings \in Seq(String), InOrder, NEW x \in String, strings' = Append(strings, x),
         \A r \in Found : \/ r.kind = "WSTR" /\ x.kind = "STR"
                          \/ r.kind = x.kind /\ r.to <= x.from
  PROVE  InOrder'
<1> DEFINE n == Len(strings)
           t == Append(strings, x)
<1>1. DOMAIN strings = 1..n /\ n \in Nat
  OBVIOUS
<1>2. t[n + 1] = x /\ Len(t) = n + 1 /\ \A k \in 1..n : t[k] = strings[k]
  BY Appended
<1> HIDE DEF t
<1>3. ASSUME NEW k \in 1..n
      PROVE  \/ t[k].kind = "WSTR" /\ t[k + 1].kind = "STR"
             \/ t[k].kind = t[k + 1].kind /\ t[k].to <= t[k + 1].from
  <2>1. CASE k = n
    <3>1. strings[k] \in Found
      BY <1>1 DEF Found
    <3>2. t[k] = strings[k] /\ t[k + 1] = x
      BY <1>2, <2>1
    <3> QED BY <3>1, <3>2
  <2>2. CASE k # n
    <3>1. k \in 1..(n - 1) /\ k + 1 \in 1..n
      <4> HIDE DEF n
      <4> QED BY <1>1, <1>3, <2>2
    <3>2. t[k] = strings[k] /\ t[k + 1] = strings[k + 1]
      BY <3>1, <1>2
    <3> QED BY <3>1, <3>2 DEF InOrder
  <2> QED BY <2>1, <2>2
<1>4. strings' = t /\ Len(t) - 1 = n
  BY <1>1, <1>2 DEF t
<1>5. 1..(Len(strings') - 1) = 1..n
  BY <1>4
<1> QED BY <1>3, <1>4, <1>5 DEF InOrder

-----------------------------------------------------------------------------
\* Of two units that overlap at most one is printable: the upper byte of the first is zero.
LEMMA NoOverlap ==
  ASSUME TypeOK, NEW m \in Nat, PrintableWide(m) PROVE ~PrintableWide(m + 1)
<1>1. data[m + 2] = 0 /\ (m + 1) + 1 = m + 2
  BY DEF PrintableWide
<1>2. ~Printable(data[(m + 1) + 1])
  <2>1. data[(m + 1) + 1] = 0
    BY <1>1
  <2>2. ~Printable(0)
    BY DEF Printable
  <2> QED BY <2>1, <2>2
<1> QED BY <1>2 DEF PrintableWide

LEMMA WideRunParts ==
  ASSUME TypeOK, NEW r \in WideRuns
  PROVE  /\ r.kind = "WSTR" /\ r.from \in Nat /\ r.to \in Nat
         /\ r.to <= Len(data) /\ r.from + 8 <= r.to /\ (r.to - r.from) % 2 = 0
         /\ r = [kind |-> "WSTR", from |-> r.from, to |-> r.to]
         /\ \A k \in r.from..(r.to - 1) : (k - r.from) % 2 = 0 => PrintableWide(k)
         /\ ~PrintableWide(r.to) /\ (r.from >= 2 => ~PrintableWide(r.from - 2))
<1>1. Len(data) \in Nat
  BY DEF TypeOK
<1>2. r \in [kind : {"WSTR"}, from : 0..Len(data), to : 0..Len(data)]
  BY DEF WideRuns
<1>3. r.kind = "WSTR" /\ r.from \in 0..Len(data) /\ r.to \in 0..Len(data)
      /\ r = [kind |-> "WSTR", from |-> r.from, to |-> r.to]
  BY <1>2
<1>4. /\ r.to >= r.from + 8 /\ (r.to - r.from) % 2 = 0
      /\ \A k \in r.from..(r.to - 1) : (k - r.from) % 2 = 0 => PrintableWide(k)
      /\ ~PrintableWide(r.to) /\ (r.from >= 2 => ~PrintableWide(r.from - 2))
  BY DEF WideRuns
<1> QED BY <1>1, <1>3, <1>4

LEMMA AsciiRunParts ==
  ASSUME TypeOK, NEW r \in AsciiRuns
  PROVE  /\ r.kind = "STR" /\ r.from \in Nat /\ r.to \in Nat
         /\ r.to <= Len(data) /\ r.from + 6 <= r.to
         /\ r = [kind |-> "STR", from |-> r.from, to |-> r.to]
         /\ \A k \in r.from..(r.to - 1) : PrintableAscii(k)
         /\ ~PrintableAscii(r.to) /\ (r.from >= 1 => ~PrintableAscii(r.from - 1))
<1>1. Len(data) \in Nat
  BY DEF TypeOK
<1>2. r \in [kind : {"STR"}, from : 0..Len(data), to : 0..Len(data)]
  BY DEF AsciiRuns
<1>3. r.kind = "STR" /\ r.from \in 0..Len(data) /\ r.to \in 0..Len(data)
      /\ r = [kind |-> "STR", from |-> r.from, to |-> r.to]
  BY <1>2
<1>4. /\ r.to >= r.from + 6
      /\ \A k \in r.from..(r.to - 1) : PrintableAscii(k)
      /\ ~PrintableAscii(r.to) /\ (r.from >= 1 => ~PrintableAscii(r.from - 1))
  BY DEF AsciiRuns
<1> QED BY <1>1, <1>3, <1>4

\* The run that the inner loop goes over is the only one that starts at its bytes, and it is
\* one when it is long enough.
LEMMA WideRunFound ==
  ASSUME TypeOK, i \in Nat, PrintableWide(i),
         \A m \in Nat : m + 1 = i \/ m + 2 = i => ~PrintableWide(m)
  PROVE  LET e == WideEnd(i)
             s == [kind |-> "WSTR", from |-> i, to |-> e]
         IN /\ e - i >= 8 => s \in WideRuns
            /\ \A r \in WideRuns : i <= r.from /\ r.from < e + 1 => e - i >= 8 /\ r = s
<1> DEFINE e == WideEnd(i)
           s == [kind |-> "WSTR", from |-> i, to |-> e]
<1>1. /\ e \in (i + 1)..Len(data) /\ (e - i) % 2 = 0 /\ ~PrintableWide(e)
      /\ \A k \in i..(e - 1) : (k - i) % 2 = 0 => PrintableWide(k)
  BY WideEndBounds
<1>2. Len(data) \in Nat /\ e \in Nat /\ i < e /\ e <= Len(data)
  <2>1. Len(data) \in Nat
    BY DEF TypeOK
  <2> QED BY <1>1, <2>1
<1> HIDE DEF e
<1>3. ASSUME e - i >= 8 PROVE s \in WideRuns
  <2>1. s \in [kind : {"WSTR"}, from : 0..Len(data), to : 0..Len(data)]
    BY <1>2
  <2>2. s.from = i /\ s.to = e
    OBVIOUS
  <2>3. i >= 2 => ~PrintableWide(i - 2)
    OBVIOUS
  <2>4. e >= i + 8
    BY <1>2, <1>3
  <2> HIDE DEF s
  <2> QED BY <2>1, <2>2, <2>3, <2>4, <1>1 DEF WideRuns
<1>4. ASSUME NEW r \in WideRuns, i <= r.from, r.from < e + 1
      PROVE  e - i >= 8 /\ r = s
  <2> DEFINE f == r.from
             t == r.to
  <2>1. /\ f \in Nat /\ t \in Nat /\ f + 8 <= t /\ (t - f) % 2 = 0
        /\ r = [kind |-> "WSTR", from |-> f, to |-> t]
        /\ \A k \in f..(t - 1) : (k - f) % 2 = 0 => PrintableWide(k)
        /\ ~PrintableWide(t) /\ (f >= 2 => ~PrintableWide(f - 2))
    BY WideRunParts
  <2> HIDE DEF f, t
  <2>2. i <= f /\ f < e + 1
    BY <1>4 DEF f
  <2>3. PrintableWide(f)
    <3>1. f \in f..(t - 1) /\ (f - f) % 2 = 0
      BY <2>1
    <3> QED BY <3>1, <2>1
  <2>4. f = i
    <3>1. f # e
      BY <2>3, <1>1
    <3>2. f < e
      BY <3>1, <2>1, <2>2, <1>2
    <3>3. CASE f > i /\ (f - i) % 2 = 0
      <4>1. f - 2 \in i..(e - 1) /\ ((f - 2) - i) % 2 = 0 /\ f >= 2
        BY <3>2, <3>3, <2>1, <1>2
      <4> QED BY <4>1, <1>1, <2>1
    <3>4. CASE f > i /\ (f - i) % 2 # 0
      <4>1. f - 1 \in i..(e - 1) /\ ((f - 1) - i) % 2 = 0 /\ f - 1 \in Nat /\ (f - 1) + 1 = f
        BY <3>2, <3>4, <2>1, <1>2
      <4>2. PrintableWide(f - 1)
        BY <4>1, <1>1
      <4>3. ~PrintableWide((f - 1) + 1)
        BY <4>1, <4>2, NoOverlap
      <4> QED BY <4>1, <4>3, <2>3
    <3> QED BY <3>3, <3>4, <2>1, <2>2
  <2>5. t = e
    <3>1. CASE t < e
      <4>1. t \in i..(e - 1) /\ (t - i) % 2 = 0
        BY <3>1, <2>1, <2>4, <1>2
      <4> QED BY <4>1, <1>1, <2>1
    <3>2. CASE t > e
      <4>1. e \in f..(t - 1) /\ (e - f) % 2 = 0
        BY <3>2, <2>1, <2>4, <1>1, <1>2
      <4> QED BY <4>1, <1>1, <2>1
    <3> QED BY <3>1, <3>2, <2>1, <1>2
  <2>6. r = s
    BY <2>1, <2>4, <2>5
  <2>7. e - i >= 8
    BY <2>1, <2>4, <2>5, <1>2
  <2> QED BY <2>6, <2>7
<1> QED BY <1>3, <1>4 DEF e

LEMMA AsciiRunFound ==
  ASSUME TypeOK, i \in Nat, i < Len(data), PrintableAscii(i),
         \A m \in Nat : m + 1 = i => ~PrintableAscii(m)
  PROVE  LET e == AsciiEnd(i)
             s == [kind |-> "STR", from |-> i, to |-> e]
         IN /\ e - i >= 6 => s \in AsciiRuns
            /\ \A r \in AsciiRuns : i <= r.from /\ r.from < e + 1 => e - i >= 6 /\ r = s
<1> DEFINE e == AsciiEnd(i)
           s == [kind |-> "STR", from |-> i, to |-> e]
<1>1. /\ e \in (i + 1)..Len(data) /\ ~PrintableAscii(e)
      /\ \A k \in i..(e - 1) : PrintableAscii(k)
  BY AsciiEndBounds
<1>2. Len(data) \in Nat /\ e \in Nat /\ i < e /\ e <= Len(data)
  <2>1. Len(data) \in Nat
    BY DEF TypeOK
  <2> QED BY <1>1, <2>1
<1> HIDE DEF e
<1>3. ASSUME e - i >= 6 PROVE s \in AsciiRuns
  <2>1. s \in [kind : {"STR"}, from : 0..Len(data), to : 0..Len(data)]
    BY <1>2
  <2>2. s.from = i /\ s.to = e
    OBVIOUS
  <2>3. i >= 1 => ~PrintableAscii(i - 1)
    OBVIOUS
  <2>4. e >= i + 6
    BY <1>2, <1>3
  <2> HIDE DEF s
  <2> QED BY <2>1, <2>2, <2>3, <2>4, <1>1 DEF AsciiRuns
<1>4. ASSUME NEW r \in AsciiRuns, i <= r.from, r.from < e + 1
      PROVE  e - i >= 6 /\ r = s
  <2> DEFINE f == r.from
             t == r.to
  <2>1. /\ f \in Nat /\ t \in Nat /\ f + 6 <= t
        /\ r = [kind |-> "STR", from |-> f, to |-> t]
        /\ \A k \in f..(t - 1) : PrintableAscii(k)
        /\ ~PrintableAscii(t) /\ (f >= 1 => ~PrintableAscii(f - 1))
    BY AsciiRunParts
  <2> HIDE DEF f, t
  <2>2. i <= f /\ f < e + 1
    BY <1>4 DEF f
  <2>3. PrintableAscii(f)
    BY <2>1
  <2>4. f = i
    <3>1. f # e
      BY <2>3, <1>1
    <3>2. CASE f > i
      <4>1. f - 1 \in i..(e - 1) /\ f >= 1
        BY <3>1, <3>2, <2>1, <2>2, <1>2
      <4> QED BY <4>1, <1>1, <2>1
    <3> QED BY <3>2, <2>1, <2>2
  <2>5. t = e
    <3>1. CASE t < e
      <4>1. t \in i..(e - 1)
        BY <3>1, <2>1, <2>4, <1>2
      <4> QED BY <4>1, <1>1, <2>1
    <3>2. CASE t > e
      <4>1. e \in f..(t - 1)
        BY <3>2, <2>1, <2>4, <1>1, <1>2
      <4> QED BY <4>1, <1>1, <2>1
    <3> QED BY <3>1, <3>2, <2>1, <1>2
  <2>6. r = s
    BY <2>1, <2>4, <2>5
  <2>7. e - i >= 6
    BY <2>1, <2>4, <2>5, <1>2
  <2> QED BY <2>6, <2>7
<1> QED BY <1>3, <1>4 DEF e

-----------------------------------------------------------------------------
\* Passing over a place where no run starts.
LEMMA WidePassed ==
  ASSUME TypeOK, i \in Nat, ~PrintableWide(i)
  PROVE  {r \in WideRuns : r.from < i + 1} = {r \in WideRuns : r.from < i}
<1>1. ASSUME NEW r \in WideRuns PROVE r.from # i /\ r.from \in Nat
  <2>1. /\ r.from \in Nat /\ r.to \in Nat /\ r.from + 8 <= r.to
        /\ \A k \in r.from..(r.to - 1) : (k - r.from) % 2 = 0 => PrintableWide(k)
    BY WideRunParts
  <2> DEFINE f == r.from
             t == r.to
  <2> HIDE DEF f, t
  <2>2. f \in f..(t - 1) /\ (f - f) % 2 = 0
    BY <2>1 DEF f, t
  <2>3. PrintableWide(f)
    BY <2>1, <2>2 DEF f, t
  <2> QED BY <2>1, <2>3 DEF f
<1>2. \A r \in WideRuns : r.from < i + 1 <=> r.from < i
  BY <1>1
<1> QED BY <1>2

LEMMA AsciiPassed ==
  ASSUME TypeOK, i \in Nat, ~PrintableAscii(i)
  PROVE  {r \in AsciiRuns : r.from < i + 1} = {r \in AsciiRuns : r.from < i}
<1>1. ASSUME NEW r \in AsciiRuns PROVE r.from # i /\ r.from \in Nat
  <2>1. /\ r.from \in Nat /\ r.to \in Nat /\ r.from + 6 <= r.to
        /\ \A k \in r.from..(r.to - 1) : PrintableAscii(k)
    BY AsciiRunParts
  <2>2. PrintableAscii(r.from)
    BY <2>1
  <2> QED BY <2>1, <2>2
<1>2. \A r \in AsciiRuns : r.from < i + 1 <=> r.from < i
  BY <1>1
<1> QED BY <1>2

LEMMA WideStrings ==
  ASSUME TypeOK, StringsInv, ScanWide, TypeOK' PROVE StringsInv'
<1>1. /\ pc = "wide" /\ pc' = pc /\ input' = input /\ i + 1 < Len(data)
      /\ i \in Nat /\ i' \in Nat /\ strings \in Seq(String) /\ Len(data) \in Nat
  BY DEF ScanWide, TypeOK
<1>2. WideSoFar /\ InOrder
  BY <1>1 DEF StringsInv
<1>3. /\ Found = {r \in WideRuns : r.from < i}
      /\ \A r \in Found : r.to <= i
      /\ \A m \in Nat : m + 1 = i \/ m + 2 = i => ~PrintableWide(m)
  BY <1>2 DEF WideSoFar
<1>4. WideRuns' = WideRuns /\ \A m \in Nat : PrintableWide(m)' = PrintableWide(m)
  BY <1>1, SameRuns
<1>5. ASSUME ~PrintableWide(i) PROVE WideSoFar' /\ InOrder'
  <2>1. i' = i + 1 /\ strings' = strings
    BY <1>5 DEF ScanWide
  <2>2. Found' = Found /\ InOrder'
    BY <2>1, <1>2 DEF Found, InOrder
  <2>3. Found' = {r \in WideRuns : r.from < i'}
    BY <2>1, <2>2, <1>1, <1>3, <1>5, WidePassed
  <2>4. \A r \in Found' : r.to <= i'
    <3> SUFFICES ASSUME NEW r \in Found PROVE r.to <= i + 1
      BY <2>1, <2>2
    <3>1. r \in WideRuns /\ r.to <= i
      BY <1>3
    <3>2. r.to \in Nat
      BY <3>1, WideRunParts
    <3> QED BY <3>1, <3>2, <1>1
  <2>5. \A m \in Nat : m + 1 = i' \/ m + 2 = i' => ~PrintableWide(m)
    <3> SUFFICES ASSUME NEW m \in Nat, m + 1 = i + 1 \/ m + 2 = i + 1 PROVE ~PrintableWide(m)
      BY <2>1
    <3>1. m = i \/ m + 1 = i
      BY <1>1
    <3> QED BY <3>1, <1>3, <1>5
  <2> QED BY <2>2, <2>3, <2>4, <2>5, <1>4 DEF WideSoFar
<1>6. ASSUME PrintableWide(i) PROVE WideSoFar' /\ InOrder'
  <2> DEFINE e == WideEnd(i)
             s == [kind |-> "WSTR", from |-> i, to |-> e]
  <2>1. /\ i' = e + 1
        /\ strings' = IF e - i >= 8 THEN Append(strings, s) ELSE strings
    BY <1>6 DEF ScanWide
  <2>2. /\ e \in (i + 1)..Len(data) /\ (e - i) % 2 = 0 /\ ~PrintableWide(e)
        /\ \A k \in i..(e - 1) : (k - i) % 2 = 0 => PrintableWide(k)
    BY <1>1, <1>6, WideEndBounds
  <2>3. /\ e - i >= 8 => s \in WideRuns
        /\ \A r \in WideRuns : i <= r.from /\ r.from < e + 1 => e - i >= 8 /\ r = s
    BY <1>1, <1>3, <1>6, WideRunFound
  <2> HIDE DEF e
  <2>4. e \in Nat /\ i < e
    BY <1>1, <2>2
  <2>5. s \in String /\ s.kind = "WSTR" /\ s.from = i /\ s.to = e
    BY <1>1, <2>4 DEF String
  <2>6. \A r \in Found : r \in WideRuns /\ r.kind = s.kind /\ r.to <= s.from
    <3> TAKE r \in Found
    <3>1. r \in WideRuns /\ r.to <= i
      BY <1>3
    <3>2. r.kind = "WSTR"
      BY <3>1, WideRunParts
    <3> QED BY <3>1, <3>2, <2>5
  <2>7. \A r \in WideRuns : r.from \in Nat
    BY WideRunParts
  <2> HIDE DEF s
  <2>8. Found' = {r \in WideRuns : r.from < e + 1} /\ InOrder'
    <3>1. CASE e - i >= 8
      <4>1. strings' = Append(strings, s)
        BY <3>1, <2>1
      <4>2. Found' = Found \cup {s}
        BY <4>1, <1>1, <2>5, FoundAppended
      <4>3. InOrder'
        BY <4>1, <1>1, <1>2, <2>5, <2>6, InOrderAppended
      <4>4. \A r \in WideRuns : r.from < e + 1 <=> r.from < i \/ r = s
        BY <2>3, <2>4, <2>5, <2>7, <1>1
      <4>5. s \in WideRuns
        BY <3>1, <2>3
      <4> QED BY <4>2, <4>3, <4>4, <4>5, <1>3
    <3>2. CASE ~(e - i >= 8)
      <4>1. strings' = strings
        BY <3>2, <2>1
      <4>2. Found' = Found /\ InOrder'
        BY <4>1, <1>2 DEF Found, InOrder
      <4>3. \A r \in WideRuns : r.from < e + 1 <=> r.from < i
        BY <3>2, <2>3, <2>4, <2>7, <1>1
      <4> QED BY <4>2, <4>3, <1>3
    <3> QED BY <3>1, <3>2
  <2>9. \A r \in Found' : r.to <= e + 1
    <3> SUFFICES ASSUME NEW r \in WideRuns, r.from < e + 1 PROVE r.to <= e + 1
      BY <2>8
    <3>1. CASE r.from < i
      <4>1. r \in Found
        BY <3>1, <1>3
      <4>2. r.to <= i /\ r.to \in Nat
        BY <4>1, <1>3, WideRunParts
      <4> QED BY <4>2, <2>4, <1>1
    <3>2. CASE ~(r.from < i)
      <4>1. r.to = e
        BY <3>2, <2>3, <2>5, <2>7, <1>1
      <4> QED BY <4>1, <2>4
    <3> QED BY <3>1, <3>2
  <2>10. \A m \in Nat : m + 1 = e + 1 \/ m + 2 = e + 1 => ~PrintableWide(m)
    <3> SUFFICES ASSUME NEW m \in Nat, m + 1 = e + 1 \/ m + 2 = e + 1, PrintableWide(m)
                 PROVE FALSE
      OBVIOUS
    <3>1. m = e \/ m + 1 = e
      BY <2>4
    <3>2. m + 1 = e
      BY <3>1, <2>2, <1>6
    <3>3. m - 1 \in i..(e - 1) /\ ((m - 1) - i) % 2 = 0 /\ m - 1 \in Nat /\ (m - 1) + 1 = m
      BY <3>2, <2>2, <2>4, <1>1
    <3>4. PrintableWide(m - 1)
      BY <3>3, <2>2
    <3>5. ~PrintableWide((m - 1) + 1)
      BY <3>3, <3>4, NoOverlap
    <3> QED BY <3>3, <3>5
  <2> QED BY <2>1, <2>8, <2>9, <2>10, <1>4 DEF WideSoFar
<1> QED BY <1>1, <1>5, <1>6 DEF StringsInv

LEMMA AsciiStrings ==
  ASSUME TypeOK, StringsInv, ScanAscii, TypeOK' PROVE StringsInv'
<1>1. /\ pc = "ascii" /\ pc' = pc /\ input' = input /\ i < Len(data)
      /\ i \in Nat /\ i' \in Nat /\ strings \in Seq(String) /\ Len(data) \in Nat
  BY DEF ScanAscii, TypeOK
<1>2. AsciiSoFar /\ InOrder
  BY <1>1 DEF StringsInv
<1>3. /\ Found = WideRuns \cup {r \in AsciiRuns : r.from < i}
      /\ \A r \in Found : r.kind = "STR" => r.to <= i
      /\ \A m \in Nat : m + 1 = i => ~PrintableAscii(m)
  BY <1>2 DEF AsciiSoFar
<1>4. /\ WideRuns' = WideRuns /\ AsciiRuns' = AsciiRuns
      /\ \A m \in Nat : PrintableAscii(m)' = PrintableAscii(m)
  BY <1>1, SameRuns
<1>5. \A r \in WideRuns : r.kind = "WSTR"
  BY WideRunParts
<1>6. \A r \in AsciiRuns : r.kind = "STR" /\ r.from \in Nat /\ r.to \in Nat
  BY AsciiRunParts
<1>7. ASSUME ~PrintableAscii(i) PROVE AsciiSoFar' /\ InOrder'
  <2>1. i' = i + 1 /\ strings' = strings
    BY <1>7 DEF ScanAscii
  <2>2. Found' = Found /\ InOrder'
    BY <2>1, <1>2 DEF Found, InOrder
  <2>3. Found' = WideRuns \cup {r \in AsciiRuns : r.from < i'}
    BY <2>1, <2>2, <1>1, <1>3, <1>7, AsciiPassed
  <2>4. \A r \in Found' : r.kind = "STR" => r.to <= i'
    <3> SUFFICES ASSUME NEW r \in Found, r.kind = "STR" PROVE r.to <= i + 1
      BY <2>1, <2>2
    <3>1. r \in AsciiRuns /\ r.to <= i
      BY <1>3, <1>5
    <3> QED BY <3>1, <1>6, <1>1
  <2>5. \A m \in Nat : m + 1 = i' => ~PrintableAscii(m)
    <3> SUFFICES ASSUME NEW m \in Nat, m + 1 = i + 1 PROVE ~PrintableAscii(m)
      BY <2>1
    <3>1. m = i
      BY <1>1
    <3> QED BY <3>1, <1>7
  <2> QED BY <2>2, <2>3, <2>4, <2>5, <1>4 DEF AsciiSoFar
<1>8. ASSUME PrintableAscii(i) PROVE AsciiSoFar' /\ InOrder'
  <2> DEFINE e == AsciiEnd(i)
             s == [kind |-> "STR", from |-> i, to |-> e]
  <2>1. /\ i' = e + 1
        /\ strings' = IF e - i >= 6 THEN Append(strings, s) ELSE strings
    BY <1>8 DEF ScanAscii
  <2>2. e \in (i + 1)..Len(data) /\ ~PrintableAscii(e)
    BY <1>1, <1>8, AsciiEndBounds
  <2>3. /\ e - i >= 6 => s \in AsciiRuns
        /\ \A r \in AsciiRuns : i <= r.from /\ r.from < e + 1 => e - i >= 6 /\ r = s
    BY <1>1, <1>3, <1>8, AsciiRunFound
  <2> HIDE DEF e
  <2>4. e \in Nat /\ i < e
    BY <1>1, <2>2
  <2>5. s \in String /\ s.kind = "STR" /\ s.from = i /\ s.to = e
    BY <1>1, <2>4 DEF String
  <2>6. \A r \in Found : \/ r.kind = "WSTR" /\ s.kind = "STR"
                         \/ r.kind = s.kind /\ r.to <= s.from
    BY <1>3, <1>5, <1>6, <2>5
  <2> HIDE DEF s
  <2>7. Found' = WideRuns \cup {r \in AsciiRuns : r.from < e + 1} /\ InOrder'
    <3>1. CASE e - i >= 6
      <4>1. strings' = Append(strings, s)
        BY <3>1, <2>1
      <4>2. Found' = Found \cup {s}
        BY <4>1, <1>1, <2>5, FoundAppended
      <4>3. InOrder'
        BY <4>1, <1>1, <1>2, <2>5, <2>6, InOrderAppended
      <4>4. \A r \in AsciiRuns : r.from < e + 1 <=> r.from < i \/ r = s
        BY <2>3, <2>4, <2>5, <1>6, <1>1
      <4>5. s \in AsciiRuns
        BY <3>1, <2>3
      <4> QED BY <4>2, <4>3, <4>4, <4>5, <1>3
    <3>2. CASE ~(e - i >= 6)
      <4>1. strings' = strings
        BY <3>2, <2>1
      <4>2. Found' = Found /\ InOrder'
        BY <4>1, <1>2 DEF Found, InOrder
      <4>3. \A r \in AsciiRuns : r.from < e + 1 <=> r.from < i
        BY <3>2, <2>3, <2>4, <1>6, <1>1
      <4> QED BY <4>2, <4>3, <1>3
    <3> QED BY <3>1, <3>2
  <2>8. \A r \in Found' : r.kind = "STR" => r.to <= e + 1
    <3> SUFFICES ASSUME NEW r \in AsciiRuns, r.from < e + 1 PROVE r.to <= e + 1
      BY <2>7, <1>5
    <3>1. CASE r.from < i
      <4>1. r \in Found /\ r.kind = "STR"
        BY <3>1, <1>3, <1>6
      <4>2. r.to <= i /\ r.to \in Nat
        BY <4>1, <1>3, <1>6
      <4> QED BY <4>2, <2>4, <1>1
    <3>2. CASE ~(r.from < i)
      <4>1. r.to = e
        BY <3>2, <2>3, <2>5, <1>6, <1>1
      <4> QED BY <4>1, <2>4
    <3> QED BY <3>1, <3>2
  <2>9. \A m \in Nat : m + 1 = e + 1 => ~PrintableAscii(m)
    <3> SUFFICES ASSUME NEW m \in Nat, m + 1 = e + 1 PROVE ~PrintableAscii(m)
      OBVIOUS
    <3>1. m = e
      BY <2>4
    <3> QED BY <3>1, <2>2
  <2> QED BY <2>1, <2>7, <2>8, <2>9, <1>4 DEF AsciiSoFar
<1> QED BY <1>1, <1>7, <1>8 DEF StringsInv

LEMMA StringsInit == IInv /\ Init => StringsInv
<1> SUFFICES ASSUME Init PROVE StringsInv
  OBVIOUS
<1>1. pc = "begin" /\ i = 0 /\ strings = <<>>
  BY Zenon DEF Init
<1>2. Len(strings) = 0
  BY <1>1
<1> QED BY <1>1, <1>2 DEF StringsInv, InOrder

\* The steps between the scanners: each starts at the first byte, and its last place is
\* behind every run.
LEMMA PhaseStrings ==
  ASSUME TypeOK, StringsInv, Begin \/ FieldsDone \/ WideDone \/ AsciiDone PROVE StringsInv'
<1>1. /\ input' = input /\ fields' = fields /\ strings' = strings
      /\ i \in Nat /\ Len(data) \in Nat
  BY DEF Begin, FieldsDone, WideDone, AsciiDone, TypeOK
<1>2. InOrder' /\ Found' = Found
  BY <1>1 DEF StringsInv, InOrder, Found
<1>3. WideRuns' = WideRuns /\ AsciiRuns' = AsciiRuns
  BY <1>1, SameRuns
<1>4. CASE Begin \/ FieldsDone
  <2>1. /\ i' = i /\ i = 0 /\ strings = <<>>
        /\ pc' \in {"fields", "wide", "done"} /\ (pc' = "done" => fields' # <<>>)
    BY <1>1, <1>4 DEF Begin, FieldsDone, StringsInv
  <2>2. Found = {}
    BY <2>1 DEF Found
  <2>3. {r \in WideRuns : r.from < 0} = {}
    <3>1. \A r \in WideRuns : r.from \in Nat
      BY WideRunParts
    <3> QED BY <3>1
  <2>4. \A m \in Nat : ~(m + 1 = 0 \/ m + 2 = 0)
    OBVIOUS
  <2>5. WideSoFar'
    BY <2>1, <2>2, <2>3, <2>4, <1>2, <1>3 DEF WideSoFar
  <2> QED BY <2>1, <2>5, <1>1, <1>2 DEF StringsInv
<1>5. CASE WideDone
  <2>1. pc = "wide" /\ pc' = "ascii" /\ i' = 0 /\ i + 1 >= Len(data)
    BY <1>5 DEF WideDone
  <2>2. Found = {r \in WideRuns : r.from < i}
    BY <2>1 DEF StringsInv, WideSoFar
  <2>3. \A r \in WideRuns : r.from < i /\ r.kind = "WSTR"
    <3> TAKE r \in WideRuns
    <3>1. r.from \in Nat /\ r.to \in Nat /\ r.to <= Len(data) /\ r.from + 8 <= r.to
          /\ r.kind = "WSTR"
      BY WideRunParts
    <3> QED BY <3>1, <2>1, <1>1
  <2>4. {r \in AsciiRuns : r.from < 0} = {}
    <3>1. \A r \in AsciiRuns : r.from \in Nat
      BY AsciiRunParts
    <3> QED BY <3>1
  <2>5. Found' = WideRuns /\ \A r \in Found' : r.kind # "STR"
    BY <2>2, <2>3, <1>2
  <2>6. \A m \in Nat : m + 1 # 0
    OBVIOUS
  <2>7. AsciiSoFar'
    BY <2>1, <2>4, <2>5, <2>6, <1>3 DEF AsciiSoFar
  <2> QED BY <2>1, <2>7, <1>2 DEF StringsInv
<1>6. CASE AsciiDone
  <2>1. pc = "ascii" /\ pc' = "done" /\ i >= Len(data)
    BY <1>6 DEF AsciiDone
  <2>2. Found = WideRuns \cup {r \in AsciiRuns : r.from < i}
    BY <2>1 DEF StringsInv, AsciiSoFar
  <2>3. \A r \in AsciiRuns : r.from < i
    <3> TAKE r \in AsciiRuns
    <3>1. r.from \in Nat /\ r.to \in Nat /\ r.to <= Len(data) /\ r.from + 6 <= r.to
      BY AsciiRunParts
    <3> QED BY <3>1, <2>1, <1>1
  <2>4. Found' = WideRuns' \cup AsciiRuns'
    BY <2>2, <2>3, <1>2, <1>3
  <2> QED BY <2>1, <2>4, <1>2 DEF StringsInv
<1> QED BY <1>4, <1>5, <1>6

\* Steps that leave the scanners and the payload alone.
LEMMA SameStrings ==
  ASSUME StringsInv, UNCHANGED <<input, pc, i, strings>>,
         pc = "fields" \/ UNCHANGED fields
  PROVE  StringsInv'
<1>1. /\ WideRuns' = WideRuns /\ AsciiRuns' = AsciiRuns
      /\ \A m \in Nat : PrintableWide(m)' = PrintableWide(m)
      /\ \A m \in Nat : PrintableAscii(m)' = PrintableAscii(m)
  BY SameRuns
<1>2. Found' = Found /\ InOrder' = InOrder
  BY DEF Found, InOrder
<1>3. WideSoFar => WideSoFar'
  BY <1>1, <1>2 DEF WideSoFar
<1>4. AsciiSoFar => AsciiSoFar'
  BY <1>1, <1>2 DEF AsciiSoFar
<1> QED BY <1>1, <1>2, <1>3, <1>4 DEF StringsInv

LEMMA StringsStep == IInv /\ IInv' /\ StringsInv /\ [Next]_vars => StringsInv'
<1> SUFFICES ASSUME IInv, IInv', StringsInv, [Next]_vars PROVE StringsInv'
  OBVIOUS
<1>1. TypeOK /\ TypeOK'
  BY DEF IInv
<1>2. CASE Begin \/ FieldsDone \/ WideDone \/ AsciiDone
  BY <1>1, <1>2, PhaseStrings
<1>3. CASE DecodeField
  BY <1>3, SameStrings DEF DecodeField
<1>4. CASE ScanWide
  BY <1>1, <1>4, WideStrings
<1>5. CASE ScanAscii
  BY <1>1, <1>5, AsciiStrings
<1>6. CASE UNCHANGED vars
  BY <1>6, SameStrings DEF vars
<1> QED BY <1>2, <1>3, <1>4, <1>5, <1>6 DEF Next

\* The scanners are exact, for every payload: the strings shown of a message without fields
\* are the printable runs that are long enough, each in full, once and in order.
THEOREM StringsAreRuns == Spec => []StringsExact
<1>1. IInv /\ StringsInv => StringsExact
  BY DEF StringsInv, StringsExact, Found, InOrder
<1>2. Init => IInv /\ StringsInv
  BY InitInv, StringsInit
<1>3. IInv /\ StringsInv /\ [Next]_vars => (IInv /\ StringsInv)'
  BY StepInv, StringsStep
<1> QED BY <1>1, <1>2, <1>3, PTL DEF Spec

-----------------------------------------------------------------------------
\* What the message was serialized from.
values == input.values[1]
types == msg_def[1]

Serialized == input.values # <<>> /\ ~PayloadContainsPointers(data)

\* The fields read so far are the first values, and the loop has not ended before the last.
ValuesInv ==
  /\ input \in Inputs
  /\ Serialized =>
       /\ \A k \in DOMAIN fields :
            fields[k].known /\ fields[k].from = values[k].from /\ fields[k].to = values[k].to
       /\ pc \notin {"begin", "fields"} => Len(fields) = Len(values)

LEMMA ValuesOfInput ==
  ASSUME input \in Inputs, input.values # <<>>
  PROVE  /\ msg_def # <<>> /\ types \in Seq(Types) /\ values \in Seq(Value)
         /\ data \in Seq(Byte) /\ Serializes(data, types, values)
<1>1. /\ input.payload \in Seq(Byte)
      /\ input.definition \in Seq(Seq(Types)) /\ Len(input.definition) <= 1
      /\ input.values \in Seq(Seq(Value)) /\ Len(input.values) <= 1
      /\ input.definition # <<>>
      /\ Serializes(input.payload, input.definition[1], input.values[1])
  BY InputAssumption DEF InputAssumption
<1>2. Len(input.definition) = 1 /\ Len(input.values) = 1
  BY <1>1, NotEmpty
<1>3. input.definition[1] \in Seq(Types) /\ input.values[1] \in Seq(Value)
  BY <1>1, <1>2
<1> QED BY <1>1, <1>3 DEF data, msg_def, types, values

\* A value's bytes are as many as its field needs, as read from the encoding's start.
LEMMA EncodedSize ==
  ASSUME NEW type, NEW value \in Seq(Byte), Fits(type, value)
  PROVE  LET e == Encoded(type, value)
         IN /\ Len(e) \in Nat /\ Len(e) > 0
            /\ type = "STR" => Len(e) >= 2 /\ Len(e) = 2 + (e[1] + 256 * e[2])
            /\ type = "WSTR" => Len(e) >= 2 /\ Len(e) = 2 + 2 * (e[1] + 256 * e[2])
            /\ type \notin {"STR", "WSTR"} => Len(e) = Size(type)
<1> DEFINE e == Encoded(type, value)
           c == Len(value)
<1>1. /\ type = "STR" => e = LE16(c) \o value /\ c < 65536
      /\ type = "WSTR" => e = LE16(c \div 2) \o value /\ c \div 2 < 65536 /\ c % 2 = 0
      /\ type \notin {"STR", "WSTR"} => e = value /\ c = Size(type)
  BY DEF Encoded, Fits
<1>2. c \in Nat
  OBVIOUS
<1> HIDE DEF e
<1>3. ASSUME NEW n \in Nat, n < 65536
      PROVE  /\ LE16(n) \in Seq(Byte) /\ Len(LE16(n)) = 2
             /\ LE16(n)[1] + 256 * LE16(n)[2] = n
             /\ LE16(n)[1] \in Nat /\ LE16(n)[2] \in Nat
  <2>1. n % 256 \in 0..255 /\ (n \div 256) % 256 \in 0..255
    OBVIOUS
  <2>2. (n % 256) + 256 * ((n \div 256) % 256) = n
    BY <1>3
  <2> QED BY <2>1, <2>2 DEF LE16, Byte
<1>4. ASSUME NEW n \in Nat, n < 65536, e = LE16(n) \o value
      PROVE  Len(e) = 2 + c /\ e[1] + 256 * e[2] = n
  <2> DEFINE l == LE16(n)
  <2>1. /\ l \in Seq(Byte) /\ Len(l) = 2 /\ l[1] + 256 * l[2] = n
    BY <1>3, <1>4
  <2>2. e = l \o value
    BY <1>4
  <2> HIDE DEF l
  <2>3. /\ Len(l \o value) = Len(l) + Len(value)
        /\ \A k \in 1..Len(l) : (l \o value)[k] = l[k]
    BY <2>1, Joined
  <2> QED BY <2>1, <2>2, <2>3
<1> HIDE DEF c
<1>5. CASE type = "STR"
  <2>1. Len(e) = 2 + c /\ e[1] + 256 * e[2] = c
    BY <1>1, <1>2, <1>4, <1>5
  <2> QED BY <1>2, <1>5, <2>1 DEF e
<1>6. CASE type = "WSTR"
  <2> DEFINE h == c \div 2
  <2>1. h \in Nat /\ c = 2 * h /\ h < 65536 /\ e = LE16(h) \o value
    BY <1>1, <1>2, <1>6
  <2> HIDE DEF h
  <2>2. Len(e) = 2 + c /\ e[1] + 256 * e[2] = h
    BY <1>4, <2>1
  <2>3. Len(e) = 2 + 2 * (e[1] + 256 * e[2]) /\ Len(e) \in Nat /\ Len(e) >= 2
    BY <2>1, <2>2
  <2> QED BY <1>6, <2>3 DEF e
<1>7. CASE type \notin {"STR", "WSTR"}
  <2>1. e = value /\ c = Size(type)
    BY <1>1, <1>7
  <2>2. Size(type) \in Nat /\ Size(type) > 0
    BY DEF Size
  <2> QED BY <1>7, <2>1, <2>2 DEF e, c
<1> QED BY <1>5, <1>6, <1>7

\* Every value lies in the payload and has bytes.
LEMMA ValuesLie ==
  ASSUME input \in Inputs, input.values # <<>>, NEW k \in 1..Len(values)
  PROVE  values[k].from \in Nat /\ values[k].to \in Nat
         /\ values[k].from < values[k].to /\ values[k].to <= Len(data)
<1> DEFINE n == Len(values)
<1>1. /\ values \in Seq(Value) /\ data \in Seq(Byte) /\ Serializes(data, types, values)
      /\ n \in Nat /\ Len(data) \in Nat /\ DOMAIN values = 1..n
  BY ValuesOfInput
<1>2. ASSUME NEW l \in 1..n
      PROVE  /\ values[l].from \in Nat /\ values[l].to \in Nat /\ values[l].from < values[l].to
             /\ values[l].from = IF l = 1 THEN 0 ELSE values[l - 1].to
  <2>1. values[l] \in Value
    BY <1>1, Element
  <2>2. values[l].bytes \in Seq(Byte) /\ values[l].from \in Nat /\ values[l].to \in Nat
    BY <2>1 DEF Value
  <2>3. /\ Fits(types[l], values[l].bytes)
        /\ values[l].to = values[l].from + Len(Encoded(types[l], values[l].bytes))
        /\ values[l].from = IF l = 1 THEN 0 ELSE values[l - 1].to
    BY <1>1 DEF Serializes
  <2>4. Len(Encoded(types[l], values[l].bytes)) > 0
        /\ Len(Encoded(types[l], values[l].bytes)) \in Nat
    BY <2>2, <2>3, EncodedSize
  <2> QED BY <2>2, <2>3, <2>4
<1>3. n > 0 => values[n].to = Len(data)
  <2>1. n > 0 => values # <<>>
    OBVIOUS
  <2> QED BY <1>1, <2>1 DEF Serializes
<1>4. \A l \in 1..n : values[l].to <= Len(data)
  <2> HIDE DEF n
  <2> DEFINE T == {d \in 0..(n - 1) : ~(values[n - d].to <= Len(data))}
  <2> SUFFICES ASSUME T # {} PROVE FALSE
    <3> SUFFICES ASSUME T = {}, NEW l \in 1..n PROVE values[l].to <= Len(data)
      OBVIOUS
    <3>1. n - l \in 0..(n - 1) /\ n - (n - l) = l
      BY <1>1
    <3> QED BY <3>1
  <2>1. T \subseteq Nat
    BY <1>1
  <2>2. PICK d \in T : \A y \in T : d <= y
    <3> HIDE DEF T
    <3> QED BY <2>1, LeastElement
  <2>3. d \in 0..(n - 1) /\ ~(values[n - d].to <= Len(data))
    BY <2>2
  <2>4. d # 0
    BY <2>3, <1>1, <1>3
  <2>5. d - 1 \in 0..(n - 1) /\ ~(d <= d - 1) /\ n - (d - 1) = n - d + 1
    BY <2>3, <2>4, <1>1
  <2>6. values[n - d + 1].to <= Len(data)
    BY <2>2, <2>5
  <2> DEFINE m == n - d + 1
  <2>7. m \in 1..n /\ m # 1 /\ m - 1 = n - d /\ n - d \in 1..n
    BY <2>3, <2>4, <1>1
  <2> HIDE DEF m
  <2>8. values[m].from = values[n - d].to /\ values[m].from < values[m].to
        /\ values[m].to \in Nat /\ values[m].from \in Nat
    BY <2>7, <1>2
  <2> QED BY <2>3, <2>6, <2>8, <1>1 DEF m
<1> QED BY <1>2, <1>4

\* read_field at a value's place reads that value.
LEMMA ReadsValue ==
  ASSUME input \in Inputs, input.values # <<>>, NEW k \in 1..Len(values)
  PROVE  LET f == ReadField(types[k], values[k].from)
         IN f.known /\ f.from = values[k].from /\ f.to = values[k].to
<1> DEFINE o == values[k].from
           t == values[k].to
           v == values[k].bytes
           e == Encoded(types[k], v)
<1>1. /\ values \in Seq(Value) /\ data \in Seq(Byte) /\ Serializes(data, types, values)
      /\ Len(data) \in Nat /\ DOMAIN values = 1..Len(values)
  BY ValuesOfInput
<1>2. /\ Fits(types[k], v) /\ t = o + Len(e) /\ SubSeq(data, o + 1, t) = e
  BY <1>1 DEF Serializes
<1>3. v \in Seq(Byte)
  <2>1. values[k] \in Value
    BY <1>1, Element
  <2> QED BY <2>1 DEF Value
<1>4. o \in Nat /\ t \in Nat /\ o < t /\ t <= Len(data)
  BY ValuesLie
<1>5. /\ Len(e) \in Nat /\ Len(e) > 0
      /\ types[k] = "STR" => Len(e) >= 2 /\ Len(e) = 2 + (e[1] + 256 * e[2])
      /\ types[k] = "WSTR" => Len(e) >= 2 /\ Len(e) = 2 + 2 * (e[1] + 256 * e[2])
      /\ types[k] \notin {"STR", "WSTR"} => Len(e) = Size(types[k])
  BY <1>2, <1>3, EncodedSize
<1>6. \A l \in 1..Len(e) : e[l] = data[o + l] /\ e[l] \in Nat
  <2> HIDE DEF o, t, e
  <2>1. TAKE l \in 1..Len(e)
  <2>2. SubSeq(data, o + 1, t)[l] = data[o + l]
    BY <1>1, <1>2, <1>4, <1>5
  <2>3. o + l \in 1..Len(data)
    BY <1>1, <1>2, <1>4, <1>5
  <2>4. data[o + l] \in Nat
    <3>1. data[o + l] \in Byte
      BY <2>3, <1>1, Element
    <3>2. Byte \subseteq Nat
      BY DEF Byte
    <3> QED BY <3>1, <3>2
  <2> QED BY <2>2, <2>4, <1>2
<1>7. Needs(types[k], o) = Len(e)
  <2> HIDE DEF o, t, e
  <2>1. CASE types[k] \in {"STR", "WSTR"}
    <3>1. Len(e) >= 2
      BY <2>1, <1>5
    <3>2. e[1] = data[o + 1] /\ e[2] = data[o + 2]
      BY <3>1, <1>5, <1>6
    <3>3. Len(data) >= o + 2
      BY <3>1, <1>1, <1>2, <1>4, <1>5
    <3>4. Word(o) = e[1] + 256 * e[2]
      BY <3>2 DEF Word
    <3> QED BY <2>1, <3>3, <3>4, <1>1, <1>4, <1>5 DEF Needs
  <2>2. CASE types[k] \notin {"STR", "WSTR"}
    BY <2>2, <1>5 DEF Needs
  <2> QED BY <2>1, <2>2
<1>8. o + Needs(types[k], o) = t
  BY <1>2, <1>7
<1> HIDE DEF o, t
<1>9. ReadField(types[k], o).known /\ ReadField(types[k], o).from = o
      /\ ReadField(types[k], o).to = t
  BY <1>4, <1>8 DEF ReadField
<1> QED BY <1>9 DEF o, t

LEMMA ValuesInit == Init => ValuesInv
<1> SUFFICES ASSUME Init PROVE ValuesInv
  OBVIOUS
<1>1. input \in Inputs /\ pc = "begin" /\ fields = <<>>
  BY Zenon DEF Init
<1>2. DOMAIN fields = {}
  BY <1>1
<1> QED BY <1>1, <1>2 DEF ValuesInv

\* Steps that leave the fields alone, and do not end the loop over them.
LEMMA SameValues ==
  ASSUME ValuesInv, UNCHANGED <<input, fields>>,
         pc' \notin {"begin", "fields"} /\ Serialized => pc \notin {"begin", "fields"}
  PROVE  ValuesInv'
<1>1. values' = values /\ Serialized' = Serialized
  BY DEF values, Serialized, data
<1> QED BY <1>1 DEF ValuesInv

\* The next field stands where the next value does.
LEMMA DecodeFieldValues ==
  ASSUME IInv, ValuesInv, DecodeField PROVE ValuesInv'
<1> DEFINE n == Len(fields)
           field == ReadField(types[n + 1], offset)
<1>1. /\ fields' = Append(fields, field) /\ pc = "fields" /\ pc' = pc /\ input' = input
      /\ n < Len(types) /\ offset < Len(data)
  BY DEF DecodeField, types
<1>2. /\ fields \in Seq(Field) /\ n \in Nat /\ DOMAIN fields = 1..n /\ offset \in Nat /\ TypeOK
  BY DEF IInv, TypeOK
<1>3. values' = values /\ Serialized' = Serialized /\ input \in Inputs
  BY <1>1 DEF ValuesInv, values, Serialized, data
<1>4. ASSUME Serialized PROVE \A k \in DOMAIN fields' :
         fields'[k].known /\ fields'[k].from = values[k].from /\ fields'[k].to = values[k].to
  <2>1. /\ types \in Seq(Types) /\ values \in Seq(Value) /\ Serializes(data, types, values)
        /\ input.values # <<>> /\ Len(values) \in Nat /\ DOMAIN values = 1..Len(values)
        /\ DOMAIN types = 1..Len(types)
    BY <1>3, <1>4, ValuesOfInput DEF Serialized
  <2>2. n + 1 \in 1..Len(values) /\ Len(values) = Len(types)
    BY <1>1, <1>2, <2>1 DEF Serializes
  <2>3. \A k \in 1..n :
          fields[k].known /\ fields[k].from = values[k].from /\ fields[k].to = values[k].to
    BY <1>2, <1>4 DEF ValuesInv
  <2>4. values[n + 1].from = IF n + 1 = 1 THEN 0 ELSE values[(n + 1) - 1].to
    BY <2>1, <2>2 DEF Serializes
  <2>5. offset = values[n + 1].from
    <3>1. CASE n = 0
      <4>1. offset = 0
        BY <3>1 DEF IInv, FieldsContiguous
      <4> QED BY <3>1, <4>1, <2>4
    <3>2. CASE n > 0
      <4>1. fields[n].to = offset
        BY <3>2 DEF IInv, FieldsContiguous
      <4>2. fields[n].to = values[n].to
        BY <3>2, <1>2, <2>3
      <4> QED BY <3>2, <4>1, <4>2, <2>4, <1>2
    <3> QED BY <3>1, <3>2, <1>2
  <2>6. field.known /\ field.from = values[n + 1].from /\ field.to = values[n + 1].to
    BY <2>1, <2>2, <2>5, <1>3, ReadsValue
  <2>7. field \in Field
    <3>1. types[n + 1] \in Types
      BY <2>1, <2>2, Element
    <3> QED BY <3>1, <1>1, <1>2, ReadFieldType
  <2> HIDE DEF field
  <2>8. /\ fields'[n + 1] = field /\ DOMAIN fields' = 1..(n + 1)
        /\ \A k \in 1..n : fields'[k] = fields[k]
    BY <1>1, <1>2, <2>7, Appended
  <2>9. \A k \in 1..(n + 1) : k \in 1..n \/ k = n + 1
    BY <1>2
  <2> QED BY <2>3, <2>6, <2>8, <2>9
<1> QED BY <1>1, <1>3, <1>4 DEF ValuesInv

\* The loop ends behind the last value: before it there are bytes left.
LEMMA FieldsDoneValues ==
  ASSUME IInv, ValuesInv, FieldsDone PROVE ValuesInv'
<1> DEFINE n == Len(fields)
<1>1. /\ UNCHANGED <<input, fields>> /\ pc = "fields"
      /\ n = Len(types) \/ offset >= Len(data)
  BY DEF FieldsDone, types
<1>2. /\ n \in Nat /\ DOMAIN fields = 1..n /\ offset \in Nat /\ Len(data) \in Nat
  BY DEF IInv, TypeOK
<1>3. values' = values /\ Serialized' = Serialized /\ input \in Inputs
  BY <1>1 DEF ValuesInv, values, Serialized, data
<1>4. ASSUME Serialized PROVE n = Len(values)
  <2>1. /\ types \in Seq(Types) /\ values \in Seq(Value) /\ Serializes(data, types, values)
        /\ input.values # <<>> /\ Len(values) \in Nat /\ DOMAIN values = 1..Len(values)
    BY <1>3, <1>4, ValuesOfInput DEF Serialized
  <2>2. Len(values) = Len(types)
    BY <2>1 DEF Serializes
  <2>3. n <= Len(values)
    <3>1. n > 0 => n <= Len(types)
      BY DEF IInv, FieldsContiguous, types
    <3> QED BY <3>1, <2>1, <2>2, <1>2
  <2>4. ASSUME n < Len(values) PROVE offset < Len(data)
    <3>1. n + 1 \in 1..Len(values)
      BY <2>1, <2>4, <1>2
    <3>2. values[n + 1].from = IF n + 1 = 1 THEN 0 ELSE values[(n + 1) - 1].to
      BY <2>1, <3>1 DEF Serializes
    <3>3. /\ values[n + 1].from \in Nat /\ values[n + 1].to \in Nat
          /\ values[n + 1].from < values[n + 1].to /\ values[n + 1].to <= Len(data)
      BY <2>1, <3>1, <1>3, ValuesLie
    <3>4. offset = values[n + 1].from
      <4>1. CASE n = 0
        <5>1. offset = 0
          BY <4>1 DEF IInv, FieldsContiguous
        <5> QED BY <4>1, <5>1, <3>2
      <4>2. CASE n > 0
        <5>1. fields[n].to = offset
          BY <4>2 DEF IInv, FieldsContiguous
        <5>2. fields[n].to = values[n].to
          BY <4>2, <1>2, <1>4 DEF ValuesInv
        <5> QED BY <4>2, <5>1, <5>2, <3>2, <1>2
      <4> QED BY <4>1, <4>2, <1>2
    <3> QED BY <3>3, <3>4, <1>2
  <2>5. ~(n < Len(values))
    <3>1. n < Len(values) => n # Len(types)
      BY <2>2, <1>2
    <3>2. offset < Len(data) => ~(offset >= Len(data))
      BY <1>2
    <3> QED BY <3>1, <3>2, <2>4, <1>1
  <2>6. n \in Nat /\ Len(values) \in Nat
    BY <2>1, <1>2
  <2> HIDE DEF n
  <2> QED BY ONLY <2>3, <2>5, <2>6
<1> QED BY <1>1, <1>3, <1>4 DEF ValuesInv

LEMMA ValuesStep == IInv /\ ValuesInv /\ [Next]_vars => ValuesInv'
<1> SUFFICES ASSUME IInv, ValuesInv, [Next]_vars PROVE ValuesInv'
  OBVIOUS
<1>1. CASE Begin
  <2>1. Serialized => pc' = "fields"
    <3>1. Serialized => msg_def # <<>>
      BY ValuesOfInput DEF ValuesInv, Serialized
    <3> QED BY <1>1, <3>1 DEF Begin, Serialized
  <2> QED BY <1>1, <2>1, SameValues DEF Begin
<1>2. CASE DecodeField
  BY <1>2, DecodeFieldValues
<1>3. CASE FieldsDone
  BY <1>3, FieldsDoneValues
<1>4. CASE ScanWide \/ WideDone \/ ScanAscii \/ AsciiDone
  <2>1. UNCHANGED <<input, fields>> /\ pc \notin {"begin", "fields"}
    BY <1>4 DEF ScanWide, WideDone, ScanAscii, AsciiDone
  <2> QED BY <2>1, SameValues
<1>5. CASE UNCHANGED vars
  BY <1>5, SameValues DEF vars
<1> QED BY <1>1, <1>2, <1>3, <1>4, <1>5 DEF Next

\* The decoder inverts the serialization of README.md:116-129, for every schema and all
\* values: of a message that is not taken for pointers every field is shown, with its bytes.
THEOREM Decodes == Spec => []SerializedDecoded
<1>1. IInv /\ ValuesInv => SerializedDecoded
  <2> SUFFICES ASSUME IInv, ValuesInv, pc = "done", Serialized PROVE ShowsValues
    BY DEF SerializedDecoded, Serialized
  <2>1. /\ Len(fields) = Len(values)
        /\ \A k \in DOMAIN fields :
             fields[k].known /\ fields[k].from = values[k].from /\ fields[k].to = values[k].to
    BY DEF ValuesInv
  <2>2. values \in Seq(Value) /\ Serializes(data, types, values)
    BY ValuesOfInput DEF ValuesInv, Serialized
  <2>3. DOMAIN fields = 1..Len(fields) /\ DOMAIN values = 1..Len(values)
    BY <2>2 DEF IInv, TypeOK
  <2>4. \A k \in DOMAIN values :
          /\ fields[k].known
          /\ SubSeq(data, fields[k].from + 1, fields[k].to) = Encoded(types[k], values[k].bytes)
    BY <2>1, <2>2, <2>3 DEF Serializes
  <2> QED BY <2>1, <2>4 DEF ShowsValues, values, types
<1>2. Init => IInv /\ ValuesInv
  BY InitInv, ValuesInit
<1>3. IInv /\ ValuesInv /\ [Next]_vars => (IInv /\ ValuesInv)'
  BY StepInv, ValuesStep
<1> QED BY <1>1, <1>2, <1>3, PTL DEF Spec

=============================================================================
