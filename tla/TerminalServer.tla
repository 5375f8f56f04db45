--------------------------- MODULE TerminalServer ---------------------------
(***************************************************************************)
(* The terminal relay (docker/coolify-realtime/terminal-server.js): a Node *)
(* process that gives each websocket a session, and each session at most   *)
(* one pty, an ssh client on a managed server.                             *)
(*                                                                         *)
(* Node runs one callback at a time, and the continuations of awaited      *)
(* promises before the next callback.  A step is therefore a callback with *)
(* all that it resolves; what another callback can come between are the    *)
(* awaits of the two requests to Laravel and the 500 ms between an attempt *)
(* to kill a pty and the look whether it is gone.  All those timers have   *)
(* the same length, so Node runs them in the order they were armed.        *)
(***************************************************************************)
EXTENDS Naturals, Sequences

CONSTANTS
  Sessions,     \* websocket connections; their userId is random and unique
  MaxPtys,      \* bound: processes ever spawned
  Hosts,        \* servers a command may name
  maxAttempts,  \* of killPtyProcess
  KillMayFail,  \* the kill line may be swallowed by a foreground program
  Budgets,      \* bounds to choose from: commands, pieces of output,
                \* checkActive messages, failing requests for the servers
  NoHost, NoSession

Bounded == {"command", "output", "force", "crash"}

ASSUME TerminalAssumption ==
  /\ maxAttempts \in Nat \ {0} /\ KillMayFail \in BOOLEAN
  /\ MaxPtys \in Nat
  /\ \A b \in Budgets : b \in [DOMAIN b -> Nat] /\ Bounded \subseteq DOMAIN b
                         /\ b["command"] <= MaxPtys
  /\ NoHost \notin Hosts /\ NoSession \notin Sessions

Ptys == 1..MaxPtys   \* in the order in which they are spawned
NoPty == 0

VARIABLES
  ws,             \* the websocket: handshake in progress, open, ...
  awaiting,       \* connection handlers that wait for /terminal/auth/ips
  listening,      \* websockets whose message, error and close handlers are set
  userSessions,   \* the map
  authorizedIPs,  \* session -> the servers it may name, read once
  ptyProcess,     \* session -> its latest pty, also after that has exited
  isActive,       \* session -> the flag
  pty,            \* process -> its state; "dying": gone, onExit not yet run
  owner,          \* process -> the session that spawned it
  unread,         \* processes that are not read from
  alarm,          \* processes whose command's timeout has not gone off
  kills,          \* killPtyProcess calls that wait for their timer, in order
  down,           \* session -> messages to the browser
  left            \* what is left of each bound

vars == <<ws, awaiting, listening, userSessions, authorizedIPs, ptyProcess,
          isActive, pty, owner, unread, alarm, kills, down, left>>

connection == <<ws, awaiting, listening, authorizedIPs>>
process    == <<ptyProcess, pty, owner, alarm>>

\* A call of killPtyProcess: what its caller does once it is answered.
Kill == [session : Sessions, attempts : 1..maxAttempts,
         caller : {"command", "close", "other"}, host : Hosts \cup {NoHost}]

Replies == {"pty-ready", "pty-exited", "unprocessable", "refused", "inactive",
            "data"}
Inputs  == {"force", "pause", "resume"}

TypeOK ==
  /\ ws \in [Sessions -> {"none", "opening", "open", "closing", "closed"}]
  /\ awaiting \subseteq Sessions
  /\ listening \subseteq Sessions
  /\ userSessions \subseteq Sessions
  /\ authorizedIPs \in [Sessions -> SUBSET Hosts]
  /\ ptyProcess \in [Sessions -> Ptys \cup {NoPty}]
  /\ isActive \in [Sessions -> BOOLEAN]
  /\ pty \in [Ptys -> {"unused", "running", "dying", "exited"}]
  /\ owner \in [Ptys -> Sessions \cup {NoSession}]
  /\ unread \subseteq Ptys
  /\ alarm \subseteq Ptys
  /\ kills \in Seq(Kill)
  /\ down \in [Sessions -> Seq(Replies)]
  /\ left \in [DOMAIN left -> Nat] /\ Bounded \subseteq DOMAIN left

Init ==
  /\ ws = [s \in Sessions |-> "none"]
  /\ awaiting = {}
  /\ listening = {}
  /\ userSessions = {}
  /\ authorizedIPs = [s \in Sessions |-> {}]
  /\ ptyProcess = [s \in Sessions |-> NoPty]
  /\ isActive = [s \in Sessions |-> FALSE]
  /\ pty = [p \in Ptys |-> "unused"]
  /\ owner = [p \in Ptys |-> NoSession]
  /\ unread = {}
  /\ alarm = {}
  /\ kills = <<>>
  /\ down = [s \in Sessions |-> <<>>]
  /\ left \in Budgets

-----------------------------------------------------------------------------
(* Helpers *)

Live(p) == pty[p] \in {"running", "dying"}
Spend(k) == left[k] > 0 /\ left' = [left EXCEPT ![k] = @ - 1]

\* ws.send on a socket that is not open does nothing.
Send(s, m) == down' = IF ws[s] = "open" THEN [down EXCEPT ![s] = Append(@, m)]
                      ELSE down

\* The line that makes the shell kill itself, written to the session's pty.
WriteKillLine(s) ==
  LET p == ptyProcess[s] IN
  \/ /\ pty[p] = "running"
     /\ pty' = [pty EXCEPT ![p] = "dying"]
  \/ /\ pty[p] # "running" \/ KillMayFail
     /\ UNCHANGED pty

\* handleCommand from the parsing of the command on.  The command comes with a
\* timeout: generateSshCommand puts one in front of every ssh.
Launch(s, h) ==
  IF h \in authorizedIPs[s]
  THEN \E p \in Ptys :
         /\ pty[p] = "unused" /\ \A q \in Ptys : pty[q] = "unused" => p <= q
         /\ pty' = [pty EXCEPT ![p] = "running"]
         /\ owner' = [owner EXCEPT ![p] = s]
         /\ ptyProcess' = [ptyProcess EXCEPT ![s] = p]
         /\ isActive' = [isActive EXCEPT ![s] = TRUE]
         /\ alarm' = alarm \cup {p}
         /\ Send(s, "pty-ready")
  ELSE Send(s, "refused") /\ UNCHANGED <<process, isActive>>

\* Mutations: a command does not look at the answer; a session is only forgotten
\* if its terminal is gone.
AnswerIgnored(k, killed) ==
  \/ /\ k.caller = "command"
     /\ Launch(k.session, k.host) /\ UNCHANGED userSessions
  \/ /\ k.caller = "close"
     /\ userSessions' = userSessions \ {k.session}
     /\ UNCHANGED <<process, isActive, down>>
  \/ /\ k.caller = "other"
     /\ UNCHANGED <<process, isActive, userSessions, down>>

AnswerIfKilled(k, killed) ==
  \/ /\ k.caller = "command" /\ killed
     /\ Launch(k.session, k.host) /\ UNCHANGED userSessions
  \/ /\ k.caller = "command" /\ ~killed
     /\ Send(k.session, "unprocessable")
     /\ UNCHANGED <<process, isActive, userSessions>>
  \/ /\ k.caller = "close" /\ killed
     /\ userSessions' = userSessions \ {k.session}
     /\ UNCHANGED <<process, isActive, down>>
  \/ /\ k.caller = "other" \/ (k.caller = "close" /\ ~killed)
     /\ UNCHANGED <<process, isActive, userSessions, down>>

\* What the caller of killPtyProcess does with the answer.
Answer(k, killed) ==
  \/ /\ k.caller = "command" /\ killed
     /\ Launch(k.session, k.host) /\ UNCHANGED userSessions
  \/ /\ k.caller = "command" /\ ~killed
     /\ Send(k.session, "unprocessable")
     /\ UNCHANGED <<process, isActive, userSessions>>
  \/ /\ k.caller = "close"
     /\ userSessions' = userSessions \ {k.session}
     /\ UNCHANGED <<process, isActive, down>>
  \/ /\ k.caller = "other"
     /\ UNCHANGED <<process, isActive, userSessions, down>>

Call(s, caller, h) == [session |-> s, attempts |-> 1, caller |-> caller,
                       host |-> h]

\* killPtyProcess: at once false for a session without a pty, otherwise the
\* first attempt.
killPtyProcess(s, caller, h) ==
  IF s \in userSessions /\ ptyProcess[s] # NoPty
  THEN /\ kills' = Append(kills, Call(s, caller, h))
       /\ WriteKillLine(s)
       /\ UNCHANGED <<ptyProcess, owner, alarm, isActive, userSessions, down>>
  ELSE Answer(Call(s, caller, h), FALSE) /\ UNCHANGED kills

-----------------------------------------------------------------------------
(* Connections *)

\* verifyClient asks Laravel who this is.
Upgrade(s) ==
  /\ ws[s] = "none"
  /\ ws' = [ws EXCEPT ![s] = "opening"]
  /\ UNCHANGED <<awaiting, listening, authorizedIPs, userSessions, process,
                 isActive, unread, kills, down, left>>

\* callback(true): the socket opens, and the connection handler asks for the
\* servers of the team.
Verified(s) ==
  /\ ws[s] = "opening"
  /\ ws' = [ws EXCEPT ![s] = "open"]
  /\ awaiting' = awaiting \cup {s}
  /\ UNCHANGED <<listening, authorizedIPs, userSessions, process, isActive,
                 unread, kills, down, left>>

\* callback(false): no tokens, not authenticated, or Laravel unreachable.
Refused(s) ==
  /\ ws[s] = "opening"
  /\ ws' = [ws EXCEPT ![s] = "closed"]
  /\ UNCHANGED <<awaiting, listening, authorizedIPs, userSessions, process,
                 isActive, unread, kills, down, left>>

\* The answer of /terminal/auth/ips: only now is there a session that hears
\* messages, errors and the closing of the socket.
Authorised(s) ==
  /\ s \in awaiting
  /\ awaiting' = awaiting \ {s}
  /\ listening' = listening \cup {s}
  /\ userSessions' = userSessions \cup {s}
  /\ \E hosts \in SUBSET Hosts :
       authorizedIPs' = [authorizedIPs EXCEPT ![s] = hosts]
  /\ UNCHANGED <<ws, process, isActive, unread, kills, down, left>>

\* That request fails: nobody catches the rejection, so Node ends the process,
\* with every session; the container restarts.
AuthIpsFails ==
  /\ awaiting # {}
  /\ Spend("crash")
  /\ ws' = [s \in Sessions |-> IF ws[s] = "none" THEN "none" ELSE "closed"]
  /\ pty' = [p \in Ptys |-> IF Live(p) THEN "exited" ELSE pty[p]]
  /\ awaiting' = {} /\ listening' = {} /\ userSessions' = {}
  /\ alarm' = {} /\ unread' = {} /\ kills' = <<>>
  /\ isActive' = [s \in Sessions |-> FALSE]
  /\ ptyProcess' = [s \in Sessions |-> NoPty]
  /\ UNCHANGED <<authorizedIPs, owner, down>>

\* A protocol error: the ws library reports it and starts to close.
Errored(s) ==
  /\ ws[s] = "open"
  /\ ws' = [ws EXCEPT ![s] = "closing"]
  /\ IF s \in listening
     THEN killPtyProcess(s, "other", NoHost)
     ELSE UNCHANGED <<process, isActive, userSessions, kills, down>>
  /\ UNCHANGED <<awaiting, listening, authorizedIPs, unread, left>>

\* The socket is gone.  Before Authorised nobody hears of it.
Closed(s) ==
  /\ ws[s] \in {"open", "closing"}
  /\ ws' = [ws EXCEPT ![s] = "closed"]
  /\ IF s \in listening
     THEN killPtyProcess(s, "close", NoHost)
     ELSE UNCHANGED <<process, isActive, userSessions, kills, down>>
  /\ UNCHANGED <<awaiting, listening, authorizedIPs, unread, left>>

-----------------------------------------------------------------------------
(* handleMessage; what arrives before Authorised is dropped *)

Heard(s) == ws[s] = "open" /\ s \in listening

Command(s, h) ==
  /\ Heard(s)
  /\ Spend("command")
  /\ IF isActive[s] THEN killPtyProcess(s, "command", h)
                    ELSE Launch(s, h) /\ UNCHANGED <<kills, userSessions>>
  /\ UNCHANGED <<connection, unread>>

\* checkActive with 'force'; the view sends no other.
CheckActive(s) ==
  /\ Heard(s)
  /\ Spend("force")
  /\ IF isActive[s]
     THEN killPtyProcess(s, "other", NoHost)
     ELSE Send(s, "inactive")
            /\ UNCHANGED <<process, isActive, userSessions, kills>>
  /\ UNCHANGED <<connection, unread>>

\* pause and resume, for an active session.
Flow(s, m) ==
  /\ Heard(s)
  /\ unread' = IF ~isActive[s] THEN unread
               ELSE IF m = "pause" THEN unread \cup {ptyProcess[s]}
               ELSE unread \ {ptyProcess[s]}
  /\ UNCHANGED <<connection, userSessions, process, isActive, kills, down,
                 left>>

-----------------------------------------------------------------------------
(* Processes and timers *)

Output(p) ==
  /\ pty[p] = "running" /\ p \notin unread
  /\ Spend("output")
  /\ Send(owner[p], "data")
  /\ UNCHANGED <<connection, userSessions, process, isActive, unread, kills>>

\* The shell ends by itself, or the connection to the server is lost.
Exits(p) ==
  /\ pty[p] = "running"
  /\ pty' = [pty EXCEPT ![p] = "dying"]
  /\ UNCHANGED <<connection, userSessions, ptyProcess, owner, alarm, isActive,
                 unread, kills, down, left>>

\* The flag belongs to the session, not to the process.
onExit(p) ==
  /\ pty[p] = "dying"
  /\ pty' = [pty EXCEPT ![p] = "exited"]
  /\ unread' = unread \ {p}
  /\ Send(owner[p], "pty-exited")
  /\ isActive' = [isActive EXCEPT ![owner[p]] = FALSE]
  /\ UNCHANGED <<connection, userSessions, ptyProcess, owner, alarm, kills,
                 left>>

\* The setTimeout of handleCommand: it looks up the session, not the process.
TimeoutElapses(p) ==
  /\ p \in alarm
  /\ alarm' = alarm \ {p}
  /\ LET s == owner[p] IN
     IF s \in userSessions
     THEN /\ kills' = Append(kills, Call(s, "other", NoHost))
          /\ WriteKillLine(s)
     ELSE UNCHANGED <<kills, pty>>
  /\ UNCHANGED <<connection, userSessions, ptyProcess, owner, isActive, unread,
                 down, left>>

\* Mutation: attempts without end.
KillForEver ==
  /\ kills # <<>>
  /\ LET k == Head(kills) IN
     IF isActive[k.session]
     THEN /\ kills' = Append(Tail(kills), [k EXCEPT !.attempts = @ + 1])
          /\ WriteKillLine(k.session)
          /\ UNCHANGED <<ptyProcess, owner, alarm, isActive, userSessions, down>>
     ELSE kills' = Tail(kills) /\ Answer(k, TRUE)
  /\ UNCHANGED <<connection, unread, left>>

\* The timer of the attempt armed first, 500 ms after it.
KillTimer ==
  /\ kills # <<>>
  /\ LET k == Head(kills) IN
     IF isActive[k.session] /\ k.attempts < maxAttempts
     THEN /\ kills' = Append(Tail(kills), [k EXCEPT !.attempts = @ + 1])
          /\ WriteKillLine(k.session)
          /\ UNCHANGED <<ptyProcess, owner, alarm, isActive, userSessions, down>>
     ELSE kills' = Tail(kills) /\ Answer(k, ~isActive[k.session])
  /\ UNCHANGED <<connection, unread, left>>

-----------------------------------------------------------------------------
(* A browser that sends anything the view can send, in any order *)

Receive(s) ==
  /\ down[s] # <<>>
  /\ down' = [down EXCEPT ![s] = <<>>]
  /\ UNCHANGED <<connection, userSessions, process, isActive, unread, kills,
                 left>>

Connection(s) == \/ Upgrade(s) \/ Verified(s) \/ Refused(s) \/ Authorised(s)
                 \/ Errored(s) \/ Closed(s)

Message(s) == \/ \E h \in Hosts \cup {NoHost} : Command(s, h)
              \/ CheckActive(s)
              \/ \E m \in {"pause", "resume"} : Flow(s, m)

Process(p) == Output(p) \/ Exits(p) \/ onExit(p) \/ TimeoutElapses(p)

Next == \/ \E s \in Sessions : Connection(s) \/ Message(s) \/ Receive(s)
        \/ \E p \in Ptys : Process(p)
        \/ AuthIpsFails
        \/ KillTimer

Spec == Init /\ [][Next]_vars

\* Node runs the callbacks that are due.  Nobody has to type, connect or leave.
FairSpec == /\ Spec
            /\ WF_vars(KillTimer)
            /\ \A p \in Ptys : WF_vars(onExit(p))

-----------------------------------------------------------------------------
(* Properties *)

\* The terminal of a session: whichever way commands, kills, timeouts and exits
\* interleave, a process lives exactly while it is the one its session holds
\* and takes for active.  Hence never two terminals in one session, none that
\* the session has lost sight of, and no flag without a terminal.
OneTerminal ==
  /\ \A p \in Ptys : Live(p) => /\ ptyProcess[owner[p]] = p
                                /\ isActive[owner[p]]
  /\ \A s \in Sessions : isActive[s] => /\ Live(ptyProcess[s])
                                        /\ owner[ptyProcess[s]] = s

\* A session whose closing the relay hears of leaves the map, after five
\* attempts on its terminal at the latest (handleClose, killPtyProcess).
SessionReaped ==
  \A s \in Sessions :
    [](Heard(s) => [](ws[s] = "closed" => <>(s \notin userSessions)))

=============================================================================
