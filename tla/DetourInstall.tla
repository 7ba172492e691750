---------------------------- MODULE DetourInstall ----------------------------
(***************************************************************************)
(* detour.rs and the installation in game_hooks.rs: init_thread redirects  *)
(* TcpSession::TxMessage and GameClient::AppProcessMessage to the DLL's    *)
(* stubs by overwriting their first bytes, store by store, while the       *)
(* game's threads run through those same bytes.                            *)
(*                                                                         *)
(* Code bytes are written in ascending order, so the code of a function is *)
(* the number of its first bytes already new.  A thread in the prologue    *)
(* stands at the offset of its next instruction.                           *)
(***************************************************************************)
EXTENDS Naturals, Sequences, FiniteSets

CONSTANT Threads    \* threads of the game

Targets == {"tx", "rx"}

JMP_ABS_SIZE == 14
STOLEN_BYTES == [tx |-> 20, rx |-> 18]

\* Where the instructions of the stolen bytes begin.
Prologue == [tx |-> <<0, 3, 4, 11>>, rx |-> <<0, 3, 4, 5, 7, 11>>]

Offsets(f) == {Prologue[f][i] : i \in DOMAIN Prologue[f]}

VARIABLES
  written,          \* per function: leading bytes overwritten
  trampoline,       \* per function: TXMESSAGE_TRAMPOLINE or RXMESSAGE_TRAMPOLINE set
  pc,               \* place of init_thread: "check", "alloc", "protect", "write",
                    \* "publish", "done"
  cur,              \* the function it is installing on
  hooked,           \* the count install_game_hooks returns
  at,               \* per thread: where it is
  off,              \* per thread in a prologue: offset of the next instruction
  fn,               \* per thread: the function it called
  ran               \* history, per thread: instructions of the prologue it ran

vars == <<written, trampoline, pc, cur, hooked, at, off, fn, ran>>
codeVars == <<written, trampoline, pc, cur, hooked>>
threadVars == <<at, off, fn, ran>>

Init ==
  /\ written = [f \in Targets |-> 0]
  /\ trampoline = [f \in Targets |-> FALSE]
  /\ pc = "check"
  /\ cur = "tx"
  /\ hooked = 0
  /\ at = [t \in Threads |-> "idle"]
  /\ off = [t \in Threads |-> 0]
  /\ fn = [t \in Threads |-> "tx"]
  /\ ran = [t \in Threads |-> <<>>]

-----------------------------------------------------------------------------
(***************************************************************************)
(* install_game_hooks, install_rx_hook and Detour::install.                *)
(***************************************************************************)

\* What follows the function at hand, installed or not: rx after tx.
NextTarget ==
  IF cur = "tx" THEN cur' = "rx" /\ pc' = "check" ELSE pc' = "done" /\ UNCHANGED cur

\* The comparison of the first bytes with 48 8B C4: another build of the game may
\* have moved either function.  A mismatch of tx gives up on both.
CheckPrologue ==
  /\ pc = "check"
  /\ pc' \in {"alloc", "done"}
  /\ UNCHANGED <<written, trampoline, cur, hooked, threadVars>>

\* VirtualAlloc, and the trampoline is built: no thread knows of it yet.
AllocTrampoline ==
  /\ pc = "alloc"
  /\ \/ pc' = "protect" /\ UNCHANGED cur
     \/ NextTarget
  /\ UNCHANGED <<written, trampoline, hooked, threadVars>>

\* Mutated form: the patch goes on although the page was not opened, and fails
\* at the end of the jump.
ProtectTargetIgnored ==
  /\ pc = "protect"
  /\ \/ pc' = "write" /\ UNCHANGED <<cur, written>>
     \/ NextTarget /\ written' = [written EXCEPT ![cur] = JMP_ABS_SIZE]
  /\ UNCHANGED <<trampoline, hooked, threadVars>>

\* VirtualProtect opens the target's page, or install returns None.
ProtectTarget ==
  /\ pc = "protect"
  /\ \/ pc' = "write" /\ UNCHANGED cur
     \/ NextTarget
  /\ UNCHANGED <<written, trampoline, hooked, threadVars>>

\* One store of write_abs_jmp, FF 25 00 00 00 00 and then the address as one
\* u64, or one 0x90 of the loop after it.
Stored(n) == IF n = 6 THEN JMP_ABS_SIZE ELSE n + 1

WriteStore ==
  /\ pc = "write"
  /\ written' = [written EXCEPT ![cur] = Stored(@)]
  /\ pc' = IF written'[cur] = STOLEN_BYTES[cur] THEN "publish" ELSE "write"
  /\ UNCHANGED <<trampoline, cur, hooked, threadVars>>

\* Mutated form: both installations store into the static of tx.
PublishedStatic(f) == "tx"

\* The static that receives the trampoline of f.
PublishStatic(f) == f

\* install has returned Some: only now is the trampoline stored where the stub
\* looks for it.
Publish ==
  /\ pc = "publish"
  /\ trampoline' = [trampoline EXCEPT ![PublishStatic(cur)] = TRUE]
  /\ hooked' = hooked + 1
  /\ NextTarget
  /\ UNCHANGED <<written, threadVars>>

Install ==
  CheckPrologue \/ AllocTrampoline \/ ProtectTarget \/ WriteStore \/ Publish

-----------------------------------------------------------------------------
(***************************************************************************)
(* The game's threads.                                                     *)
(***************************************************************************)

Call(t, f) ==
  /\ at[t] = "idle"
  /\ at' = [at EXCEPT ![t] = "prologue"]
  /\ off' = [off EXCEPT ![t] = 0]
  /\ fn' = [fn EXCEPT ![t] = f]
  /\ ran' = [ran EXCEPT ![t] = <<>>]
  /\ UNCHANGED codeVars

\* The offset after the instruction at o: the next one, or the end of the bytes.
NextOffset(f, o) ==
  LET later == {p \in Offsets(f) : p > o}
  IN IF later = {} THEN STOLEN_BYTES[f] ELSE CHOOSE p \in later : \A q \in later : p <= q

\* One instruction of the prologue.  Untouched bytes run as they are; at the
\* start a whole jump leads to the stub; anything else is a torn instruction.
RunPrologue(t) ==
  /\ at[t] = "prologue"
  /\ LET f == fn[t]
         o == off[t]
     IN \/ /\ o >= written[f]
           /\ ran' = [ran EXCEPT ![t] = Append(@, o)]
           /\ off' = [off EXCEPT ![t] = NextOffset(f, o)]
           /\ at' = [at EXCEPT ![t] =
                IF NextOffset(f, o) = STOLEN_BYTES[f] THEN "body" ELSE "prologue"]
        \/ /\ o = 0
           /\ written[f] >= JMP_ABS_SIZE
           /\ at' = [at EXCEPT ![t] = "stub"]
           /\ UNCHANGED <<off, ran>>
        \/ /\ o < written[f]
           /\ o # 0 \/ written[f] < JMP_ABS_SIZE
           /\ at' = [at EXCEPT ![t] = "torn"]
           /\ UNCHANGED <<off, ran>>
  /\ UNCHANGED <<fn, codeVars>>

\* Mutated form: the handler of rx, a copy of that of tx, loads the same static.
LoadedOfTx(f) == "tx"

\* Whose trampoline the handler of f loads.
Loaded(f) == f

\* The stub calls the handler, which ends by loading the trampoline's address,
\* and jumps there: to null if nothing was stored yet.
RunStub(t) ==
  /\ at[t] = "stub"
  /\ at' = [at EXCEPT ![t] = IF trampoline[Loaded(fn[t])] THEN "trampoline" ELSE "null"]
  /\ UNCHANGED <<off, fn, ran, codeVars>>

\* The trampoline runs the stolen instructions and jumps back right behind them,
\* to jmp_back_addr.
RunTrampoline(t) ==
  /\ at[t] = "trampoline"
  /\ LET f == Loaded(fn[t])
     IN /\ ran' = [ran EXCEPT ![t] = @ \o Prologue[f]]
        /\ off' = [off EXCEPT ![t] = STOLEN_BYTES[f]]
  /\ at' = [at EXCEPT ![t] = "body"]
  /\ UNCHANGED <<fn, codeVars>>

RunBody(t) ==
  /\ at[t] = "body"
  /\ at' = [at EXCEPT ![t] = "idle"]
  /\ UNCHANGED <<off, fn, ran, codeVars>>

Run(t) == RunPrologue(t) \/ RunStub(t) \/ RunTrampoline(t) \/ RunBody(t)

Next ==
  \/ Install
  \/ \E t \in Threads : Run(t) \/ \E f \in Targets : Call(t, f)

Spec == Init /\ [][Next]_vars

\* Threads inside a call are run.
FairSpec == Spec /\ \A t \in Threads : WF_vars(Run(t))

-----------------------------------------------------------------------------
\* The types; the bytes overwritten never pass the stolen ones.
TypeOK ==
  /\ written \in [Targets -> 0..20]
  /\ \A f \in Targets : written[f] <= STOLEN_BYTES[f]
  /\ trampoline \in [Targets -> BOOLEAN]
  /\ pc \in {"check", "alloc", "protect", "write", "publish", "done"}
  /\ cur \in Targets
  /\ hooked \in 0..2
  /\ at \in [Threads -> {"idle", "prologue", "stub", "trampoline", "body", "torn", "null"}]
  /\ off \in [Threads -> 0..20]
  /\ fn \in [Threads -> Targets]
  /\ ran \in [Threads -> Seq(0..20)]

\* A thread that reaches the body of a hooked function, directly or over stub and
\* trampoline, before, during or after the installation, has run each instruction
\* of the prologue once and in order.
OriginalRunsOnce ==
  \A t \in Threads : at[t] = "body" => ran[t] = Prologue[fn[t]]

\* When the installation is over, each function leads wholly into the DLL with
\* its trampoline in place or is as the game had it, and the count says how many
\* do: a failure on one function leaves nothing half patched.
AllOrNothing ==
  pc = "done" =>
    /\ \A f \in Targets : /\ written[f] \in {0, STOLEN_BYTES[f]}
                          /\ written[f] # 0 <=> trampoline[f]
    /\ hooked = Cardinality({f \in Targets : written[f] # 0})

\* A call made once the installation is over comes back: the windows in which a
\* thread can be lost close with it.  (A thread still inside the prologue when
\* its bytes change is lost later, so the call must be a new one.)
LaterCallsReturn ==
  \A t \in Threads : (pc = "done" /\ at[t] = "prologue" /\ off[t] = 0) ~> at[t] = "idle"

\* "calls the combined log+trampoline-getter, then tail-calls the trampoline to
\* execute the original TcpSession::TxMessage" (game_hooks.rs:149-151).  It does
\* not hold: the jump into the stub is live before the trampoline is stored.
StubHasTrampoline ==
  \A t \in Threads : at[t] # "null"

=============================================================================
