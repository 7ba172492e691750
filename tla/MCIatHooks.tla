----------------------------- MODULE MCIatHooks -----------------------------
(***************************************************************************)
(* Instances of IatHooks: the imports README.md lists for the game and for *)
(* the Discord overlay, with the overlay's stub in the game's WSASend.     *)
(***************************************************************************)
EXTENDS IatHooks

Import(m, d, b, f) == [mod |-> m, dll |-> d, by |-> b, func |-> f]

MCSlots == <<
  Import("game", "wsock32.dll", "ordinal", "send"),
  Import("game", "wsock32.dll", "ordinal", "recv"),
  Import("game", "ws2_32.dll", "name", "WSASend"),
  Import("wsock32", "ws2_32.dll", "name", "WSASend"),
  Import("discord", "ws2_32.dll", "name", "WSASend"),
  Import("other", "wsock32.dll", "name", "send") >>

\* Nothing but Winsock behind the slots, except the overlay's stub in the game.
MCResolved == [i \in 1..6 |->
  IF i = 3 THEN Stub(5) ELSE Winsock(MCSlots[i].func)]

MCSkipped == {"wsock32", "ws2_32", "ntdll", "wiz_hook"}
NoModules == {}
RecvSlot == {2}

=============================================================================
