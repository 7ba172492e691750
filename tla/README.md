# wiz_packets: TLA+ models, model checking and proofs

`wiz_packets` is a packet logger in two processes: `wiz-packets.exe`, a window
that injects a DLL and lists what it captures, and `wiz_hook.dll`, which runs
inside the game, hooks functions there, and writes every captured buffer into a
named pipe. This directory holds TLA+ modules that model it, TLC configurations
that check them on small instances, and proofs, checked by TLAPS, of the
properties that matter most for every instance. Paths below are relative to
`wiz_packets/` in the repository; `hook/` stands for `wiz_hook/src/`.

## 1. Inventory

| Part | Source | State it keeps | Operations | Talks to |
|------|--------|----------------|------------|----------|
| GUI session | `src/gui.rs` 15-189, `src/main.rs` | `hooked`, `rx`, `_tx`, `shutdown`, `packets`, `decoder`, `schema_registry` | `inject_and_start`, `stop_hook`, `process_incoming_packets`, `load_schemas*` | injector (call), pipe server (flag, channel), decoder (call) |
| Packet list | `src/gui.rs` 191-530 | `packets`, `selected_packet`, filters | drawing, filter, Clear, export | - |
| Injector | `src/injector.rs` | none | `find_game_pid`, `inject_dll` | the game, through a remote thread |
| Pipe server | `src/pipe_reader.rs` | per thread: pipe instance, frame being read | `run_pipe_server`, `read_from_pipe`, `parse_frame` | DLL (pipe), GUI (channel, flag) |
| DLL life cycle | `hook/lib.rs` 147-221 | the loaded DLL | `DllMain`, `init_thread` | pipe client, both hook installers |
| Pipe client | `hook/pipe.rs` | `PIPE_HANDLE`, `PIPE_CONNECTED` | `connect`, `disconnect`, `write_capture` | pipe server |
| Winsock hooks | `hook/lib.rs` 33-145 | none | `hook_send`, `hook_recv`, `hook_wsasend`, `hook_wsarecvex` | IAT originals, `write_capture` |
| IAT hooks | `hook/iat.rs` | `ORIGINAL_*`, the import tables | `install_hooks`, `uninstall_hooks` | the game's threads (shared memory) |
| Detours | `hook/detour.rs`, `hook/game_hooks.rs` 53-236 | `*_TRAMPOLINE`, code bytes | `Detour::install`, `install_game_hooks`, the stubs | the game's threads (shared memory) |
| Message extraction | `hook/game_hooks.rs` 238-527 | none | `on_txmessage`, `on_rxmessage`, `send_kinp_frame` | game memory, `write_capture` |
| KINP decoder | `src/kinp.rs` | `streams` | `process` | GUI (call) |
| DML decoder | `src/dml.rs` | none | `decode_dml_message` | schema registry |
| Schema registry | `src/schema.rs` | `services` | `load_from_directory`, lookups | files |
| WAD archive | `src/wad.rs` | none | `extract_dml_xmls` | files |
| Log | `hook/log.rs` | the log file | `init`, `log!` | files |

What is hard here, and what makes each part correct:

* **Session.** Five kinds of threads in two processes that may each die: the GUI
  thread, one server thread per click on Inject Hook, the remote `LoadLibraryW`
  thread, the DLL's `init_thread`, and the game's own threads. They share a flag, a
  channel, a pipe *name* (not a pipe), and two unlocked statics. Correct means: no
  thread uses a dead handle, no server is left behind, the game is never frozen, the
  captures reach the list in order and once, and what is lost is a tail.
* **IAT hooks and detours.** Memory that other threads call through or execute is
  rewritten step by step. Correct means: every call made during the rewriting still
  reaches the original function once, and the counts reported are true.
* **Injector.** A sequence of Win32 calls any of which fails, about a process that may
  exit at any point and whose pid may be given away, with a remote thread that outlives
  the ten-second wait. Correct means: nothing is left open, and no path is half read.
* **Winsock hooks.** The call and its capture are two steps, with other threads between.
  Correct means: what is captured of a connection is its stream.
* **Message extraction.** Pointers from registers are followed into memory that other
  threads may give back. Correct means: no read past what was queried, and each
  documented call captured once.
* **KINP decoder.** Streams cut at any point, met in the middle, or shared. Correct means
  that what is decoded does not depend on the cuts.
* **Packet list.** Indices into a list that grows, is filtered and is cleared within one
  repaint. Correct means: the selection denotes what was clicked, no row is out of bounds.
* **Archive, schemas, DML.** Sequential code over untrusted lengths, with a `u8` counter,
  parser state that outlives its element, and a directory that outlives its archive.
  Correct means: what is shown is what was serialized, under the schema of this archive.

## 2. Modules

| Module | Models | Rests on |
|--------|--------|----------|
| `CaptureChannel` | the abstract promise of the capture path: a queue that loses only tails | - |
| `CaptureSession` | GUI session, pipe server, injector outcomes, DLL life cycle, pipe client, composed | implements `CaptureChannel` |
| `MCCaptureSession` | instances of it | |
| `IatHooks`, `MCIatHooks` | IAT hooks against calling threads | - |
| `DetourInstall` | the detour engine against threads in the patched code | - |
| `HookCalls` | the four Winsock hooks on the game's threads | - |
| `FrameQueue` | the abstract promise of the pipe: whole frames in order | - |
| `FramePipe` | `write_capture` and `read_from_pipe` byte by byte | implements `FrameQueue` |
| `MCCapturePath` | `HookCalls` and `FramePipe` side by side | both |
| `InjectDll` | `find_game_pid` and `inject_dll`, a Win32 call a step | - |
| `MessageExtract`, `MCMessageExtract` | the two detours' reading of the game's memory | - |
| `KinpDecoder` | the decoder, and `send_kinp_frame` that feeds it | - |
| `PacketList` | the packet list of the window, repaint by repaint | - |
| `MCWindow` | `KinpDecoder` and `PacketList` side by side | both |
| `WadTable` | `extract_dml_xmls` on an archive and a disk that may fail | - |
| `SchemaParser` | `load_from_directory` and `parse_message_xml`, an XML event a step | - |
| `SchemaFiles` | schema files as documents, and what the registry owes them | `SchemaParser` |
| `LoadSchemas`, `MCLoadSchemas` | a click on Load WAD Schemas: extraction, then registry | `WadTable`, `SchemaFiles` |
| `DmlDecode`, `MCDmlDecode` | `decode_dml_message` and its string scanners | - |
| `CaptureSessionProofs` | theorems: `CaptureSession`, and that it implements `CaptureChannel` | |
| `IatHooksProofs`, `DetourInstallProofs`, `InjectDllProofs`, `MessageExtractProofs` | theorems: the module of that name | |
| `CapturePathProofs` | theorems: `FramePipe`, that it implements `FrameQueue`, and `HookCalls` | `MCCapturePath` |
| `WindowProofs` | theorems: `KinpDecoder`, `PacketList` and `DmlDecode` | `MCWindow` |
| `LoadSchemasProofs` | theorems: `SchemaParser`, `WadTable`, `SchemaFiles` and the click | `LoadSchemas` |

The modules meet in a few facts. `CaptureSession` takes an installation to be "some
hook is in place, or none is": `IatHooks!HookCountExact` and
`DetourInstall!AllOrNothing` say that the sum `init_thread` tests
(`hook/lib.rs:181`) is 0 exactly then. Its pipe carries whole frames:
`FramePipe!QueueSpec`. Its injection has the outcomes of `InjectDll`. `HookCalls`
hands over at `write_capture`, where `FramePipe` begins. `KinpDecoder` takes captures
to arrive in order: `CaptureSession!PerThreadOrder`. `PacketList` takes the messages
that a capture completes as given: `KinpDecoder`. `DmlDecode` takes a definition as
`LoadSchemas!LookupsAnswered` finds it.

### CaptureSession

A session is the number of the click that created it; it has its own `shutdown`
flag, channel (`rxOpen`, `chan`), server thread (`srv`, `held`), pipe instance
(`inst`, `pipe`) and remote thread (`loader`). All instances share one name, so
`PipeConnect` may open any that listens. A frame stands for one `write_capture`: it
is `<<thread, n>>`, the n-th hooked call of a thread. The pipe holds whole frames:
the handle is synchronous and the pipe in wait mode, so writes are complete and not
interleaved, and a frame that a dying game had written in part is discarded by
`read_exact` as if it had not been written.

| Actions | Code |
|---------|------|
| `InjectStart`, `InjectLaunch`, `InjectOk`, `InjectFailed`, `StopHook`, `ProcessIncoming` | `inject_and_start` (with the 200 ms sleep and the ten-second wait as points where others run), `inject_dll`, `stop_hook`, `process_incoming_packets` |
| `ServerTop` ... `ServerClose` | one step of `run_pipe_server` or `read_from_pipe` between two kernel calls or flag tests |
| `RemoteLoad`, `PipeConnect`, `FirstHook`, `InstallEnd` | `DllMain` and `init_thread` |
| `HookedCall`, `WriteFails`, `WriteSucceeds` | `write_capture`: the flag test, and `WriteFile` some time later |
| `GuiExit`, `GameExit`, `GameStart` | either process ends at any point and is started again |

One game process runs at a time, and a new one does not come up within the 200 ms
sleep of `inject_and_start`; `InjectDll` has the case that it does.

### IatHooks and DetourInstall

The slots of all modules are a sequence in the order of the walk; a slot has its
module, the DLL and way of import, and its function. The walk reads a slot, stores
`ORIGINAL_*`, patches, in three steps; threads call through any slot at any moment.
Slots may hold a stub of another module (the Discord overlay of `README.md:144`)
that calls on through an import of its own. `UninstallStart` and `Restore` are the
detach at process exit, when the other threads are gone. Every test that
`patch_module_iat` makes of the PE headers is in one set, `BadImage`.

The bytes of a detoured function are written in ascending order, so its code is the
number of bytes already new; a thread in a prologue is at the offset of an instruction.
An instruction of which a byte is overwritten is `"torn"`: what the processor does then
is undefined, and the thread counts as lost. The stores of `write_abs_jmp` are not
volatile and a compiler may merge the six single bytes; the states between are then
skipped, which removes behaviours and adds none.

### HookCalls and FramePipe

A hook is four steps: the call, `get_local_port`, `get_remote_port`, and a
`write_capture` per buffer. A connection's number stands for both its ports, a handle
may be given to a new connection, and a game is a set of habits, as the code's promise
depends on them: threads that use a direction of a socket at once, `WSASend` calls that
take a part of their buffers or complete later, a socket closed under a call. The buffers
of a call are given by where in its bytes each of them ends.

`FramePipe` has bytes: a frame's first four are its length, a `WriteFile` hands any
number of bytes over as the pipe has room, `ReadFile` returns any part of what is wanted,
either end closes at any byte, and a length above the limit ends the connection. One
`WriteFile` is served at a time, as the handle is synchronous.

### InjectDll

`Open`, `Alloc`, `Write`, `Resolve`, `Launch`, `Poll`, `Release` are the calls of
`inject_dll`, each with its failure; `ReadPath` and `Load` are the remote thread. A
process exits at any point; its pid is given away only while no handle to it is open.
Three of the returns are a `?` behind the write, which passes the clean-up: what they
leak is in `leaked`.

### MessageExtract

Memory is a set of blocks with the fields the code may take from them, and a call is
the registers it is entered with. `Query` is one `safe_read_len`, at each place the code
has one; the reads of what it allowed are later steps, and `Release` and `Commit` by
another thread of the game come between. A read of memory that is not committed ends
the game (`AccessViolation`): `catch_unwind` does not catch it.

### KinpDecoder and PacketList

Bytes are real bytes in the decoder, as framing is what it is about. A socket stream
is some junk (the rest of the frame under way when the hooks came) and a list of
frames; `FrameEnd` has the offset at which each of them ends. `Capture` cuts off any number
of its next bytes, and `SendKinpFrame` builds a frame as `send_kinp_frame` does; both call
`Process`, on the stream of the socket or on the one that all plaintext captures share.
The loop of `process` is a step for every frame it takes (`TakeFrame`), and `Return` is
its end: the properties are about the decoder when no call is under way.

A repaint of `PacketList` is an `Incoming` for every capture that waits, `NoneIncoming`,
`Toolbar`, `Filter`, `Rows`, with captures arriving between; `Toolbar` is any one button or
an edited filter. The filtered indices ascend, so they are a set, and `Row` is the place of
one in it. `Rows` draws any range of the rows `Filter` computed and may take a click. A row
that cannot be drawn (`RowDrawn`), for its index or for a name that `truncate_str` cuts inside
a character (`NamesFit`), is the phase `"panicked"`, in which the window stays: it has ended.

### WadTable, SchemaParser, LoadSchemas

A file is its length, its table and its blocks; what is read across blocks is junk, of
which every reading is possible. An entry is sought, read, inflated and written, and any
of the four may fail, which passes over it; a write that fails leaves the file as it was,
empty or in part (`Torn`). Entries are known by their places in the table:
two with one file name share a file. `SchemaParser` gets a file as the events
that quick-xml reports up to the end or an error, and keeps the variables of
`parse_message_xml` under their names. `LoadSchemas` is the click: `Click`,
`ExtractStep` until the extraction is over, `LoadStep` if it was Ok (the directory's
entries become the registry's work), and `ParseStep`; its directory is the variable of
`WadTable`, so a file that a failed write left in part, or that an older archive left, is
loaded like the others. Two tests select files, and they differ: an entry's `dml` is that of
its whole path, `MessagesXml` has the own names of files that the registry takes, and
`SkipFile` passes over the others. What is in a file is known by a name of its content.

`SchemaFiles` says what is in it: a document, and how it is written, as a path through the
places that a document has (`Marks`). `Follows` is the grammar: `InElement` is an element
with its text, `AroundElements` the tags around a record, `BetweenElements` what may stand
between them, comments, white space, and the elements of a record that the parser reads
over. A file is compact, has white space, or writes `<X/>` for an element without content,
and it may end at any place, as a file does that was cut off, or that quick-xml refuses from
there. A text that is cut is an event too, with any word: a file that ends within its id may
have another's (`ServiceId`). `RegistryWhole` and `LookupsAnswered` compare the registry with the document
(`Found`), not with the events. Numbers are written as numerals; of a numeral only
`NumeralAssumption` is known, that it is not empty and is one number's, and `Parse` reads it
back. `MCLoadSchemas` writes its documents, each event with the place it leads to.

### DmlDecode

One payload, with the definition found for it or none, is decoded a field a step; the
scanners go a position a step. A value is the slice it is formatted from, and a serialized value
comes with the place it has in the payload. Slices are
tested against the payload in `TypeOK`, so an index out of range is a violation there.

## 3. Runs

| Run | Distinct states | Shows |
|-----|-----|-------|
| `capture_session` | 1,013,537 | four safety invariants, the order of captures, and that the path implements `CaptureChannel` |
| `capture_session_live` | 144,395 | no game thread stays in `WriteFile`; a stopped server with data ends; what was written is shown |
| `capturing_is_connected` | - | **violated**: after Stop, Inject on the same game shows "Capturing packets..." with no connection |
| `iat_hooks` | 1,377 | no null call, exact count, every call returns, with two threads during install and detach |
| `detour_install` | 23,350 | prologue run exactly once, all or nothing, later calls return |
| `detour_stub` | - | **violated**: the stub is live before its trampoline is stored |
| `capture_path` | 169,261 | what is captured is the stream; the byte pipe implements `FrameQueue`, closes for a cause only, and delivers |
| `window` | 854,881 | decoding does not depend on the cuts, loses only what it must, returns the detours' messages one for one; the list, the selection and the rows stay true to one another, and a repaint panics for a name cut inside a character and nothing else |
| `dml_decode` | 97,665 | fields contiguous, values as serialized, strings exactly the printable runs |
| `message_extract` | 57,826 | no fault but by memory released in the call; documented calls captured once |
| `inject_dll` | 143,121 | what a call leaves open, and what its thread reads |
| `load_schemas` | 339,817 | what is extracted is whole, an error costs nothing, and the registry answers for this archive |

The violated ones state what the repository's documents or comments say; `PROJECT.json`
quotes them under `findings`.

`window` and `capture_path` run two components each in one state space, as a sum: in any
behaviour one of the two moves and the other stays as it began. They share no state in the
code either, so nothing is lost by it, and each component's states are all visited.

**Bounds.** `capture_session`: two sessions, since every hazard between sessions is
about an older and a newer one; two games, so that a DLL is loaded afresh over old
servers; two threads with two captures each, so that there is an order to break
between and within threads; a pipe of two frames, so that it is full, half full and
empty; two connection attempts, so that one fails and one is left; one capture is too
long for `read_from_pipe`. The liveness run has one game and a pipe of one frame,
which makes writers block at once. `iat_hooks`: the imports `README.md` lists, the
same import by a skipped module and by name, and one protected page.
`detour_install` has the real offsets and lengths, so only the number of threads is
bounded; threads do not touch each other, and two are enough for one to be ahead of
the other. `capture_path`: three bytes on the wire, two connections and three kinds of
game (no habit; shared sockets with pending calls; shared sockets with partial calls);
two frames per thread, one above the limit, through a pipe of nine bytes, which is
smaller than every frame, so that writers wait and every frame is cut.
`window`: three streams of about twenty bytes with payloads of every kind of length and
one that looks like a frame, of which any two run at once (`MaxStreams`), every way of
cutting them explored, and two messages of the detours; three captures in the list, of
two services, of whose names one is cut between characters and the other inside of one.
`dml_decode`: all lists of up to three fields of nine kinds of
value, all cuts of pairs, all short payloads for the scanners. `message_extract`: 21
blocks of each layout the code tells apart and one short of it, one release per call.
`inject_dll`: two pids and three attempts, so that a pid is reused while a late thread of
an older attempt still runs. `load_schemas`: two clicks, as every hazard between archives
is about an older and a newer one; eleven archives, one of 257 messages, so that the counter
wraps and an order comes again, one with an entry outside of the names that the registry takes;
files that end between elements, and one, left by a failed write, that ends within its id and
has another's then.

**Deadlock** is checked in the session. It is off where a system may stop: a process
ends (`IatHooks`, `FramePipe`), threads are lost (`DetourInstall`), the inputs are used
up (the others).

**Fairness.** `CaptureSession!FairSpec`: weak fairness of each server thread and of
each game thread inside `write_capture` (the scheduler runs runnable threads, and a
blocked call is a disabled action), of the GUI thread inside `inject_and_start` (sleep
and wait are timed), and of `ProcessIncoming` (while hooked, `update` requests a
repaint every 100 ms). None for clicks, exits, game calls or the loading of the DLL.
`IatHooks` and `DetourInstall`: weak fairness of each game thread inside a call.
`FramePipe`: weak fairness of the server thread's reads and of a `WriteFile` that fails,
strong fairness of each thread's `WriteFile`, as the kernel serves the waiters of a
synchronous handle in turn; none for the game's captures, its exit or Stop Hook.

## 4. Proofs

For every value of the constants, from the named assumptions of each module:

* `CaptureSessionProofs`: `TypeCorrect`, `HandleSafe`, `NoStrayServer`,
  `EveryInstanceServed`, `CaptureKeepsConnection`, from `ConstAssumption`. None of
  the properties about the pipe handle is inductive: whether the handle is open
  depends on where `init_thread` is. `Phases` records that (a writer implies a
  hook, a hook implies that `init_thread` is installing or done, and that is exactly
  when the handle is valid), `Fresh` that servers of future sessions do not run, and
  `Typed` strengthens the types by what the bounds need. `IInv` is their conjunction
  with the properties; there is a lemma for each part and a step for each action.
  `ImplementsChannel` and `ThreadOrder` need `Flow` beside `IInv`: a capture is held by a
  server only on its way into the channel (`Held`), a session to come has none anywhere
  (`Empty`), and the session of the window has its receiver (`Window`). `ThreadOrder`
  follows from the refinement: every step but `WriteFile`'s success leaves what is shown or
  queued a prefix of what it was, so the order has to be shown of that one step only.
* `IatHooksProofs`: `TypeCorrect`, `HooksHaveOriginals`, `CountCorrect`, from
  `SlotAssumption`. `NoNullCall` needs that every patched slot, and every thread in a
  hook, has a non-null original behind it (`Backed`), which holds because
  `InstallStore` precedes `InstallPatch`; `HookCountExact` needs that the slot about
  to be patched does not lead into the DLL yet (`AtSlot`) and a cardinality argument.
* `DetourInstallProofs`: `TypeCorrect`, `PrologueOnce`, `WholeOrNothing`, for any set
  of threads, without assumptions. The two sides of `DetourInstall` share only the
  code bytes, so the invariant has two halves. `Code` says what each place of
  `init_thread` implies of a function's bytes and trampoline; `History` says that a
  thread inside a prologue has run the instructions before its offset (`Prefix`), and
  one inside the DLL none. That `NextOffset`, a least element, is the next entry of
  the table is proved for any ascending list (`NoneBetween`, `LeastOne`).
* `InjectDllProofs`: `TypeCorrect`, `CleansUp`, `LoadsWholePath`. The handles open to a
  process are counted by the calls that hold one (`HandleCount`); an open handle keeps the
  pid, so the process a thread was started in is still the one it reads in.
* `CapturePathProofs`, the pipe: `FramesWhole` (`FramePipe` implements `FrameQueue`) and
  `ClosedOnlyForCause`, for any payloads, any size of the pipe and all ways to cut the bytes.
  A read moves bytes from the pipe to the reader, so what the two hold together is one
  sequence that only `WriteFile` and the end of a frame change. `PipeInv` says what is in
  it: the frames written and not delivered, each at its offset, and behind them the part
  that the pipe has of one frame more (`Flow`). That there is at most one such frame, and
  whose it is, is `Writers`; a game that dies leaves it unfinished, and it is never delivered.
* `CapturePathProofs`, the hooks: `StreamsOfCalls`, for any threads, sockets and buffers.
  `HookInv` says that the stream of a connection is what is captured under its ports and
  what the call under way on it has still to capture (`Exact`); where threads share sockets
  and calls are pending, the same of the numbers of each thread's bytes (`ByThread`); and where
  calls are partial, that every byte is in one of the two (`NoneMissed`). They need
  that a hook still finds the connection it was called for (`Places`) and that bytes are
  numbered upwards (`Numbered`). `PathTypes` has the types of both.
* `MessageExtractProofs`: `TypeCorrect`, `FaultNeedsRelease` and `TxCaptured`, for any memory
  and any registers. What a query allowed was in a live block (`QueriedFits`), and a block
  that is gone since was released (`GoneIsReleased`). `TxCaptured` follows a documented
  call whose memory stays through the reads: what has been read and sent at each (`TxState`).
* `WindowProofs`, the KINP decoder: `Resynchronises`, `AlignedDecodes` and `RoundTrip`, for any
  streams of any bytes, cut anywhere. They speak of what was returned, and which
  frames those are depends on which bytes are kept. `KinpInv` says that these are the last
  of those captured (`Placed`); that a signal cut in two was noted (`CutNoted`); that every
  frame whose first byte is no longer kept was returned, cut, or claimed by a false signal
  (`Accounted`), which is `ResynchronisesOnFrame` but for the frames still kept; that in a
  stream met at the start of a frame the bytes kept begin where a frame does (`InStep`);
  and that the plaintext stream is empty or holds the one frame under way (`PlainInv`). A
  frame captured and still kept is the case left: between calls the buffer of a stream is
  `Settled`, it begins with a signal whose frame is not whole, so a frame in it that is whole
  is claimed by that signal, which is then a false one.
* `WindowProofs`, the packet list: `SelectedIsPicked`, `EntriesInOrder` and `OnlyNamesPanic`,
  for any captures, names and clicks. The captures waiting are the last that arrived, in order
  (`InNumbers`); `Listed` says that the list has exactly the entries of those taken that
  no Clear and no Stop took away (`Kept`), each once and in order; an entry decoded by a
  schema has it still in the registry (`EntriesTaken`), and the filtered indices are those of
  the list while the rows are drawn (`FilteredFresh`), which holds because Clear comes before
  the filter in a repaint. So the one thing left that a row can panic on is a name, of which
  nothing is assumed: section 5 has the line.
* `WindowProofs`, the DML decoder: `TypeCorrect` (no index out of range for payloads of any
  length and any definition), `FieldsInOrder`, `StringsAreRuns` and `Decodes`. `StringsInv`
  says that each scanner has found exactly the long runs that end before its position,
  and `ValuesInv` that the fields decoded so far have the places of the values.
* `LoadSchemasProofs`, the parser: `TypeCorrect` and `OrdersCounted`, for any files of any
  events, whatever the extraction gives it. The counter is one more than the number of messages modulo 256, and a file that
  writes no order never has `_MsgOrder` as its current element, so no text is taken for one.
* `LoadSchemasProofs`, the archive: `WadTypes`, `PathsAreWhole` and `ErrWritesNothing`, for any
  archives and a disk that fails anywhere. An entry read is one of the table or junk; a path
  returned comes from a place that is done with (`Places`), so what is extracted later can
  overwrite its file only under the same name, from another place.
* `LoadSchemasProofs`, the registry: `RegistryIsWhole` and `LookupsAreAnswered`, for any
  archives, and any documents written in any way that `Follows` allows, cut off anywhere, within
  a word too (`CutRead` has what a cut id gives). The invariant is `ReadInv`: wherever the parser is in a file, it is at a place of the document
  (`MarkOK`), and what it knows is what the document says up to that place (`KnownAt`): the
  messages that are complete, the fields and the order of the one that is open (`Known`), and
  the id and the name if they came already. With white space that fails, and `SpacedAt` says
  how: behind its id the service is 0. The invariant holds event by event, one lemma for
  each part of the grammar, so nothing has to be said of a file as a whole. Then
  `RegistryIsWhole` is what `ReadInv` says where a file ends. `LookupsAreAnswered` needs two
  more: `Loading`, that the registry loads the directory after an Ok and is done before the
  next click, and `Answered`, that each file of it that the registry takes and that is neither
  left nor open is in the registry, if it is complete and alone with its id.

The theorems about `MCCapturePath`, `MCWindow` and `LoadSchemas` are about their
specifications, in which the other component stands still; for `LoadSchemas` it is the
composition itself.

Types: a `TypeOK` that a theorem `TypeCorrect` proves is in no run; those of the composed
modules, `TypesOK` and `WadTypeOK`, are checked and proved (`PathTypes`, `TypesHold`, `WadTypes`).

Only model-checked is what involves fairness, since liveness is out of the prover's reach:
`NeverFreezesGame`, `StoppedServerDrains`, `WrittenEventuallyShown`, `CallsReturn`,
`LaterCallsReturn` and `CaptureDelivered`. All other properties of the passing runs are
stated by a theorem.

## 5. Where the code and its documents part

Two divergences have a run (section 3). The others below were met while modelling; the
models contain the behaviour, and the properties are stated so that they hold beside it.

| Code | What it does | What is said of it | In the model |
|------|--------------|--------------------|--------------|
| `src/pipe_reader.rs:81` | `ConnectNamedPipe` does not see the flag: the server of a failed injection may take the next client, whose first captures nobody reads | `README.md:200` "starts the pipe server, injects" | `PipeConnect` opens any listening instance; `OneLiveServer` and `ChannelSpec` bound the damage |
| `src/injector.rs:133` | Ok whatever `LoadLibraryW` returned | `injector.rs:62` "Injects a DLL" | `Release` after `Load` failed |
| `src/gui.rs:80` | the pid found 200 ms before is opened whatever it is now | `README.md:3` "Injects into the game process" | `Open` after `Exit` and `Start` |
| `hook/iat.rs:363` | one original for all modules: with a stub in the slot patched last, hook and stub call each other for ever | `iat.rs:79-81` "stubs correctly" | a stub in the slot that is patched last; in `IatHooks.cfg` it is in an earlier one |
| `hook/iat.rs:414` | one saved original is written to every matching slot, skipped modules too | `iat.rs:391` "Restores original function addresses" | `Restore` |
| `hook/lib.rs:69` | a handle closed under a call gives ports of 0 or of a new connection | `kinp.rs:47` "keyed by" the ports | the habit `"closing"` |
| `hook/lib.rs:107` | a pending `WSASend` is not captured | `README.md:135` "Captures encrypted traffic" | the habit `"pending"` |
| `hook/lib.rs:115` | all of a partial `WSASend` is captured, the rest again later | as before | the habit `"partial"` |
| `hook/lib.rs:65` | threads that share a socket may capture in the other order | `kinp.rs:47` "TCP stream reassembly" | the habit `"shared"` |
| `hook/game_hooks.rs:283` | the third reading of the parameters can never send | `game_hooks.rs:241-244` "send whatever looks valid" | `FirstItem` has no such case |
| `hook/game_hooks.rs:413` | of 8192 bytes or more, 256 are sent | `game_hooks.rs:392` "extracts ... DML payload" | `ReadSize` |
| `src/kinp.rs:87` | a start signal cut in two out of step: the frame is lost | `kinp.rs:62` "returns any complete KINP messages" | `Resync`; the exception in `ResynchronisesOnFrame` |
| `src/schema.rs:150` | white space behind `ServiceID` makes the id 0, and no message of the file is found | `schema.rs:32` "Complete schema registry" | the layout `"indented"`, a file of `MCLoadSchemas` |
| `src/schema.rs:170` | `<X/>` is not seen: the definition lacks the field | as before | the layout `"empty tags"`, likewise |
| `src/dml.rs:177` | two numbers that look like pointers turn the decoding off | `dml.rs:158-159` "raw C++ object memory rather than serialized DML" | `PayloadContainsPointers`; the condition in `SerializedDecoded` |
| `src/dml.rs:44` | a payload too short for its fields shows "?" and no strings | `dml.rs:23` "falls back to raw string extraction" | `FieldsDone` |
| `src/wad.rs:39` | the table is read behind the header | `README.md:131` "trailing file table" | `table_at` |
| `src/wad.rs:50` | the directory is never emptied: older schemas are loaded with the new | `README.md:199` "from `Root.wad`" | `dir` over two clicks |
| `src/schema.rs:57` | takes files by their own name, where `wad.rs:43` takes entries by their whole path: `Messages/Quests.xml` is extracted and never loaded | `wad.rs:17` "Extracts DML XML files", `schema.rs:32` "Complete schema registry" | `SkipFile`; an entry of `MCLoadSchemas`; the first exception in `LookupsAnswered` |
| `src/schema.rs:150` | a file that ends within its service id has a shorter one, and may take another service's place | as before | `CutId`, `ServiceId`; a file of `MCLoadSchemas` |
| `src/gui.rs:499` | a name cut inside a character panics, and the window ends | `README.md:3` "for live viewing" | `TruncatesCleanly`; a name of `MCWindow`; the one exception in `PanicsInNamesOnly` |

## 6. Not modelled

The log (`hook/log.rs`) and the build scripts: no state that another component reads.
Drawing, the hex dump, the JSON export and the formatting of a field's value: wording and
layout. The parsing of PE headers and of XML text into events, and inflation: each is
abstracted to what it yields. The mapping of a frame's payload through `parse_frame`'s
address fields: `HookCalls` has the ports, and nothing later tells addresses apart.
