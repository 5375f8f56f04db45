-------------------------- MODULE MCTerminalServer --------------------------
(* Small instances of TerminalServer for TLC. *)
EXTENDS TerminalServer

Budget(command, output, force, crash) ==
  [k \in Bounded |-> CASE k = "command" -> command [] k = "output" -> output
                       [] k = "force" -> force [] k = "crash" -> crash]

\* Three commands, or two with an interruption of each kind.
Mixed == {Budget(3, 0, 0, 0), Budget(2, 1, 1, 1)}
=============================================================================
