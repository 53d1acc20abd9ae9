------------------------------ MODULE Console -------------------------------
(* What an operator reads: a behaviour is one of module Lists or one of    *)
(* module Tail.                                                            *)
(***************************************************************************)
EXTENDS Lists, Tail

VARIABLE view

consoleVars == <<view, listVars, tailVars>>

ConsoleInit == view \in {"lists", "log"} /\ ListsInit /\ TailInit

ConsoleNext ==
  \/ view = "lists" /\ ListsNext /\ UNCHANGED <<view, tailVars>>
  \/ view = "log" /\ TailNext /\ UNCHANGED <<view, listVars>>

(* The loop of Follow goes on as long as it has a log to look at.          *)
ConsoleSpec ==
  /\ ConsoleInit /\ [][ConsoleNext]_consoleVars
  /\ WF_tailVars(view = "log" /\ Polls /\ UNCHANGED <<view, listVars>>)

ConsoleTypeOK == ListsTypeOK /\ TailTypeOK

=============================================================================
