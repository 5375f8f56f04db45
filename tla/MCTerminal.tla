----------------------------- MODULE MCTerminal -----------------------------
(* Small instances of Terminal for TLC. *)
EXTENDS Terminal, TLC

Budget(sockets, send, output, leave, drop, crash) ==
  [k \in {"socket", "send", "command", "output", "leave", "force", "drop",
          "crash"} |->
     CASE k = "socket" -> sockets [] k \in {"send", "command"} -> send
       [] k = "output" -> output [] k \in {"leave", "force"} -> leave
       [] k = "drop" -> drop [] k = "crash" -> crash]

\* The connection alone; a terminal whose relay crashes, whose connection breaks,
\* whose page is left, that has much output; two terminals in a row.
Connecting == Budget(3, 0, 0, 0, 1, 0)
Crashing   == Budget(2, 1, 0, 0, 0, 1)
Breaking   == Budget(2, 1, 0, 0, 1, 0)
Leaving    == Budget(2, 1, 0, 1, 0, 0)
Printing   == Budget(2, 1, 3, 0, 0, 0)
Replacing  == Budget(2, 2, 0, 0, 0, 0)
All == {Connecting, Crashing, Breaking, Leaving, Printing, Replacing}
=============================================================================
