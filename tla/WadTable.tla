------------------------------ MODULE WadTable ------------------------------
(***************************************************************************)
(* wad.rs: extract_dml_xmls on the file that Root.wad is at a click on     *)
(* "Load WAD Schemas", and the directory it leaves for the schema registry *)
(* (SchemaFiles), read by read and file by file; any seek, read, inflation *)
(* or write may fail.  Positions are bytes; what lies at a position is a   *)
(* block of the file, and what lies across blocks is "junk".               *)
(***************************************************************************)
EXTENDS Naturals, Sequences, FiniteSetsExt

CONSTANTS
  Wads,             \* the files that Root.wad is, one after another
  Faults,           \* whether the disk may fail to create or to write
  Torn,             \* per content: what a write of it that fails may leave of it
  MaxClicks         \* bound: clicks on "Load WAD Schemas"

HeaderLen == 5 + 4 + 4
EntryLen == 4 + 4 + 4 + 1 + 4 + 4

\* An entry of the table.  Its name is a directory, a file_name, and the length of both;
\* dml: it contains "Messages" and ends in ".xml".
EntryType == [offset : Nat, size : Nat, compressed_size : Nat, is_compressed : BOOLEAN,
              file_name : STRING, name_len : Nat, dml : BOOLEAN]

\* A file: its length, whether it begins with KIWAD, where its table is, and its blocks.
BlockType == [at : Nat, len : Nat, zlib : BOOLEAN, content : STRING]
WadType == [len : Nat, magic : BOOLEAN, table_at : Nat, table : Seq(EntryType),
            blocks : SUBSET BlockType]

WadAssumption ==
  /\ MaxClicks \in Nat /\ Faults \in BOOLEAN
  /\ Wads \subseteq WadType
  /\ \A w \in Wads : \A b, c \in w.blocks : b.at = c.at => b = c

VARIABLES
  clicks,
  wad,              \* the open file
  pc,               \* "idle", "header", "table", "extract"
  pos,              \* where it is read next
  entries,          \* the entries read
  todo,             \* dml_entries not extracted yet, by their places in entries
  extracted,        \* the entries whose paths are returned
  dir,              \* the output directory: its files and what is in them
  result,           \* of the last extraction: "none", "ok" or "err"
  before            \* history: the directory at the click

vars == <<clicks, wad, pc, pos, entries, todo, extracted, dir, result, before>>

Init ==
  /\ clicks = 0 /\ wad \in Wads /\ pc = "idle" /\ pos = 0
  /\ entries = <<>> /\ todo = {} /\ extracted = <<>>
  /\ dir = <<>> /\ result = "none" /\ before = <<>>

-----------------------------------------------------------------------------
\* The click: the file is opened, the position is its start.
Open ==
  /\ pc = "idle" /\ clicks < MaxClicks
  /\ clicks' = clicks + 1
  /\ wad' \in Wads
  /\ pc' = "header" /\ pos' = 0
  /\ entries' = <<>> /\ todo' = {} /\ extracted' = <<>>
  /\ result' = "none" /\ before' = dir
  /\ UNCHANGED dir

\* An Err, and what has been done so far stays.
Fail == pc' = "idle" /\ result' = "err" /\ UNCHANGED <<pos, entries, todo, extracted, dir>>

\* Mutated form: a read past the end is not an error.
ReadableAny(from, n) == TRUE

Readable(from, n) == from + n <= wad.len

\* Magic, version and count.
ReadHeader ==
  /\ pc = "header"
  /\ IF wad.magic /\ Readable(0, HeaderLen)
     THEN /\ pc' = "table" /\ pos' = HeaderLen
          /\ UNCHANGED <<entries, todo, extracted, dir, result>>
     ELSE Fail
  /\ UNCHANGED <<clicks, wad, before>>

\* Where entry k of the table is.
EntryAt(k) ==
  wad.table_at + MapThenSumSet(LAMBDA i : EntryLen + wad.table[i].name_len, 1..(k - 1))

\* What bytes that are no entry are read as; a longer name would end the file all the more.
Junk == [offset |-> 0, size |-> 0, compressed_size |-> 0, is_compressed |-> FALSE,
         file_name |-> "junk", name_len |-> 0, dml |-> FALSE]

ReadAs(k) == IF pos = EntryAt(k) THEN wad.table[k] ELSE Junk

\* read_file_table: an entry, which ends with its name.
ReadEntry ==
  /\ pc = "table" /\ Len(entries) < Len(wad.table)
  /\ LET e == ReadAs(Len(entries) + 1)
     IN IF Readable(pos, EntryLen + e.name_len)
        THEN /\ entries' = Append(entries, e)
             /\ pos' = pos + EntryLen + e.name_len
             /\ UNCHANGED <<pc, todo, extracted, dir, result>>
        ELSE Fail
  /\ UNCHANGED <<clicks, wad, before>>

\* Mutated form: the directory is emptied before it is known that there is something for it.
SelectEmptying ==
  /\ pc = "table" /\ Len(entries) = Len(wad.table)
  /\ todo' = {i \in DOMAIN entries : entries[i].dml}
  /\ dir' = <<>>
  /\ IF todo' = {} THEN pc' = "idle" /\ result' = "err" ELSE pc' = "extract" /\ UNCHANGED result
  /\ UNCHANGED <<clicks, wad, before, pos, entries, extracted>>

\* dml_entries, and create_dir_all.
Select ==
  /\ pc = "table" /\ Len(entries) = Len(wad.table)
  /\ todo' = {i \in DOMAIN entries : entries[i].dml}
  /\ IF todo' = {} THEN pc' = "idle" /\ result' = "err"
     ELSE \/ pc' = "extract" /\ UNCHANGED result
          \/ Faults /\ pc' = "idle" /\ result' = "err"
  /\ UNCHANGED <<clicks, wad, before, pos, entries, extracted, dir>>

\* read_exact and decompress_zlib from a position: the data as a set, empty on a failure.
DataAt(e, from) ==
  LET n == IF e.is_compressed THEN e.compressed_size ELSE e.size
      found == {b \in wad.blocks : b.at = from /\ b.len = n}
  IN CASE ~Readable(from, n) -> {}
       [] Readable(from, n) /\ e.is_compressed -> {b.content : b \in {c \in found : c.zlib}}
       [] OTHER -> IF found = {} THEN {"junk"} ELSE {b.content : b \in found}

\* Mutated form: there is no seek.
DataInOrder(e) == DataAt(e, pos)

Data(e) == DataAt(e, e.offset)

File(name, content) == [n \in DOMAIN dir \cup {name} |-> IF n = name THEN content ELSE dir[n]]

\* extract_entry on the first that is left: an entry that fails is passed over; a write that
\* fails has written a part, or not opened the file.
Extract ==
  /\ pc = "extract"
  /\ \E i \in todo :
       LET e == entries[i]
       IN /\ \A j \in todo : i <= j
          /\ todo' = todo \ {i}
          /\ \/ /\ \E c \in Data(e) : dir' = File(e.file_name, c)
                /\ extracted' = Append(extracted, e)
             \/ (Data(e) = {} \/ Faults) /\ UNCHANGED <<dir, extracted>>
             \/ /\ Faults
                /\ \E c \in Data(e) : \E t \in Torn[c] : dir' = File(e.file_name, t)
                /\ UNCHANGED extracted
  /\ UNCHANGED <<clicks, wad, pc, pos, entries, result, before>>

\* The list is returned, however short.
Finish ==
  /\ pc = "extract" /\ todo = {}
  /\ pc' = "idle" /\ result' = "ok"
  /\ UNCHANGED <<clicks, wad, pos, entries, todo, extracted, dir, before>>

Next == Open \/ ReadHeader \/ ReadEntry \/ Select \/ Extract \/ Finish

Spec == Init /\ [][Next]_vars

-----------------------------------------------------------------------------
TypeOK ==
  /\ clicks \in 0..MaxClicks /\ wad \in Wads
  /\ pc \in {"idle", "header", "table", "extract"}
  /\ pos <= wad.len
  /\ \A i \in DOMAIN entries : entries[i] = Junk \/ entries[i] = wad.table[i]
  /\ todo \subseteq DOMAIN entries
  /\ Cardinality(todo) + Len(extracted) <= Len(entries)
  /\ result \in {"none", "ok", "err"}

\* What the file has for an entry, where the entry says.
Contents(e) ==
  {b.content : b \in {c \in wad.blocks :
     /\ c.at = e.offset /\ c.zlib = e.is_compressed
     /\ c.len = IF e.is_compressed THEN e.compressed_size ELSE e.size}}

\* The places in the table of the entries that are extracted to the file that e is.
Sharing(e) == {k \in DOMAIN wad.table : wad.table[k].dml /\ wad.table[k].file_name = e.file_name}

\* Every path that is returned is a file with the whole of its entry, whatever failed
\* before and after it, unless two entries have one file_name.
ReturnedAreWhole ==
  result = "ok" =>
    \A i \in DOMAIN extracted :
      LET e == extracted[i]
      IN Contents(e) # {} /\ (\A j, k \in Sharing(e) : j = k)
           => e.file_name \in DOMAIN dir /\ dir[e.file_name] \in Contents(e)

\* A Root.wad that cannot be read, or has nothing to extract, costs no file of an earlier
\* extraction.
ErrKeepsFiles == result = "err" => dir = before

=============================================================================
