----------------------------- MODULE LoadSchemas -----------------------------
(***************************************************************************)
(* gui.rs: load_schemas_from_wad, a click on "Load WAD Schemas".  The      *)
(* archive is extracted (WadTable); if that is Ok, and only then, the      *)
(* registry loads the output directory (SchemaParser), which holds what    *)
(* this click and the clicks before it have written.  Of an entry the      *)
(* extraction tests the whole path, the registry the file's own name.      *)
(***************************************************************************)
EXTENDS SchemaFiles

CONSTANTS
  Wads, Faults, Torn, MaxClicks \* see WadTable

VARIABLES
  clicks, wad, pc, pos, entries, dml_entries, extracted, result, before,
  due               \* the extraction was Ok and load_schemas has not begun

wadVars == <<clicks, wad, pc, pos, entries, dml_entries, extracted, dir, result, before>>
allVars == <<vars, wadVars, due>>

Wad == INSTANCE WadTable WITH todo <- dml_entries

\* What the files of the directory hold.
Contents == {dir[n] : n \in DOMAIN dir}

\* Its files that the registry takes, and what they hold.
Listed == DOMAIN dir \cap MessagesXml
Schemas == {dir[n] : n \in Listed}

\* What an archive may have for a file of the directory; an own name with "Messages" is part
\* of a whole name with it.
Writable == {"junk"} \cup {b.content : b \in UNION {w.blocks : w \in Wads}}

ASSUME ClickAssumption ==
  /\ Wad!WadAssumption /\ Writable \subseteq Files /\ Torn \in [Files -> SUBSET Files]
  /\ \A w \in Wads : \A i \in DOMAIN w.table :
       w.table[i].file_name \in MessagesXml => w.table[i].dml
  /\ MaxLoads = MaxClicks

LoadInit == Init /\ Wad!Init /\ due = FALSE

\* load_from_directory is over.
Loaded == ~due /\ todo = {} /\ file = NoFile

\* The window does nothing else during a click.
Click == Loaded /\ Wad!Open /\ UNCHANGED <<vars, due>>

ExtractStep ==
  /\ Wad!ReadHeader \/ Wad!ReadEntry \/ Wad!Select \/ Wad!Extract \/ Wad!Finish
  /\ due' = (pc' = "idle" /\ result' = "ok")
  /\ UNCHANGED vars

\* Mutated form: the directory is listed before the extraction.
LoadStepEarly ==
  /\ due /\ due' = FALSE
  /\ Load(DOMAIN before)
  /\ UNCHANGED wadVars

\* load_schemas.
LoadStep ==
  /\ due /\ due' = FALSE
  /\ Load(DOMAIN dir)
  /\ UNCHANGED wadVars

ParseStep ==
  /\ \/ \E n \in todo : SkipFile(n) \/ OpenFile(n)
     \/ StartEvent \/ TextEvent \/ EndEvent \/ OtherEvent
     \/ CloseFile
  /\ UNCHANGED <<wadVars, due>>

LoadNext == Click \/ ExtractStep \/ LoadStep \/ ParseStep

LoadSpec == LoadInit /\ [][LoadNext]_allVars

-----------------------------------------------------------------------------
\* The types of the extraction.
WadTypeOK == Wad!TypeOK /\ Contents \subseteq Files /\ due \in BOOLEAN

\* Every path that is returned is a file with the whole of its entry, whatever failed
\* before and after it, unless two entries have one file_name.
ReturnedAreWhole == Wad!ReturnedAreWhole

\* A Root.wad that cannot be read, or has nothing to extract, costs no file of an earlier
\* extraction.
ErrKeepsFiles == Wad!ErrKeepsFiles

\* "Complete schema registry mapping (service_id, message_id) -> message definition"
\* (schema.rs:32): when a click that was Ok is over, each message of a file it extracted
\* that is complete and without white space, and that shares its service id with no other
\* file the registry takes, is found under its ids, with its name and its fields in order: as
\* in this archive, not as in the one before.  Of two messages with one order it is the first.
\* Not found is what an entry like "Messages/Quests.xml" holds: extract_dml_xmls tests the
\* whole path (wad.rs:43), load_from_directory the file's own name (schema.rs:57).
LookupsAnswered ==
  Loaded /\ pc = "idle" /\ result = "ok" =>
    \A i \in DOMAIN extracted :
      LET n == extracted[i].file_name
          f == dir[n]
          d == Documents[f]
      IN \/ n \notin MessagesXml
         \/ f \in Unreadable \/ ~Complete(f) \/ d.layout = "indented"
         \/ \E g \in (Schemas \ Unreadable) \ {f} : ServiceId(g) = d.id
         \/ \A k \in DOMAIN d.messages :
              \/ \E j \in 1..(k - 1) : Found(d)[j].order = Found(d)[k].order
              \/ GetMessageDef(d.id, Found(d)[k].order) = <<Found(d)[k]>>

=============================================================================
