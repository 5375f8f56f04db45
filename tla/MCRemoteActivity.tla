-------------------------- MODULE MCRemoteActivity --------------------------
(* Small instances of RemoteActivity for TLC. *)
EXTENDS RemoteActivity, TLC

CONSTANTS c1, c2

\* All clicks are on one page.
OnePageOf == [c \in Clicks |-> CHOOSE p \in Pages : TRUE]

Budget(operations, clicks, activities, output, faults) ==
  [operations |-> operations, clicks |-> clicks, activities |-> activities,
   output |-> output, faults |-> faults]

\* One activity through its attempts; one that is not to be started beside
\* another, by every way to start one, with a fault, and with two clicks; one that
\* is by force.
Trying  == Budget({"start", "restore"}, {c1}, 1, 3, 3)
Asking  == Budget({"start", "restart", "pull"}, {c1}, 2, 1, 1)
Racing  == Budget({"start", "restart", "pull"}, {c1, c2}, 2, 0, 0)
Forcing == Budget({"restart", "force"}, {c1}, 2, 1, 0)
All     == {Trying, Asking, Racing, Forcing}
=============================================================================
