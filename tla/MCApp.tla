------------------------------- MODULE MCApp -------------------------------
(* Two directories and one address to pin.                                   *)
EXTENDS App

CONSTANTS d1, d2, a1

\* Everything the menu and the command line open.
AllCommands == Views \ {"home"}

\* Enough for the plan and apply views alone (the plan view opens the others).
PlanCommands == {"plan", "apply", "chdir"}

\* One plugin with a result of its own type and two that share one.
BusyCommands == {"plan", "taint", "forceunlock"}
=============================================================================
