------------------------------ MODULE Terminal ------------------------------
(***************************************************************************)
(* A page with a terminal and the relay it talks to: TerminalClient and    *)
(* TerminalServer joined by a network that keeps each direction of a       *)
(* connection in order, may break a connection, and lets each end find out *)
(* in its own time.                                                        *)
(***************************************************************************)
EXTENDS Naturals, Sequences, FiniteSets

CONSTANTS
  Sessions,     \* 1..n: the websockets the page may ever open (bound), each a
                \* session of the relay
  Budgets,      \* bounds to choose from; "drop": connections that break
  MaxPtys, Hosts, maxAttempts, KillMayFail, NoHost, NoSession,
  maxReconnectAttempts, maxHeartbeatMisses, MAX_PENDING_WRITES

ASSUME SocketAssumption ==
  IsFiniteSet(Sessions) /\ Sessions = 1..Cardinality(Sessions)

VARIABLES
  ws, awaiting, listening, userSessions, authorizedIPs, ptyProcess, isActive,
  pty, owner, unread, alarm, kills, down, left,
  cur, socket, connectionState, reconnectAttempts, timers, stray,
  heartbeatMissed, terminalActive, pendingWrites, paused, unwritten, cleaned,
  up,
  dropped       \* connections the network or a crash has broken

Server == INSTANCE TerminalServer
Client == INSTANCE TerminalClient

\* What the two halves, which are only instantiated here, assume of their limits.
ASSUME LimitAssumption ==
  /\ Server!TerminalAssumption
  /\ maxReconnectAttempts \in Nat /\ MAX_PENDING_WRITES \in Nat
  /\ maxHeartbeatMisses \in Nat \ {0, 1}      \* the code: 3
  /\ \A b \in Budgets : /\ {"socket", "send", "leave", "drop"} \subseteq DOMAIN b
                         /\ b["socket"] \in Sessions

relay == <<ws, awaiting, listening, userSessions, authorizedIPs, ptyProcess,
           isActive, pty, owner, unread, alarm, kills, down>>
page  == <<cur, socket, connectionState, reconnectAttempts, timers, stray,
           heartbeatMissed, terminalActive, pendingWrites, paused, unwritten,
           cleaned, up>>
vars  == <<relay, page, dropped, left>>

TypeOK == Server!TypeOK /\ Client!ClientTypeOK /\ dropped \subseteq Sessions

Init == Server!Init /\ Client!ClientInit /\ dropped = {}

-----------------------------------------------------------------------------
(* The network *)

Works(s) == s \notin dropped

Drop ==
  /\ socket \in {"connecting", "open", "closing"} /\ Works(cur)
  /\ Server!Spend("drop")
  /\ dropped' = dropped \cup {cur}
  /\ UNCHANGED <<relay, page>>

\* The request of new WebSocket() reaches the relay.
Request ==
  /\ socket \in {"connecting", "aborting"} /\ Works(cur)
  /\ Server!Upgrade(cur)
  /\ UNCHANGED <<page, dropped>>

\* A message from the browser, for the relay to hear or, before it listens, to
\* miss.
Deliver(s) ==
  /\ up[s] # <<>> /\ Works(s) /\ ws[s] = "open"
  /\ up' = [up EXCEPT ![s] = Tail(@)]
  /\ LET m == Head(up[s]) IN
     IF s \notin listening THEN UNCHANGED <<relay, left>>
     ELSE CASE m = "command" -> \E h \in Hosts : Server!Command(s, h)
            [] m = "force" -> Server!CheckActive(s)
            [] m \in {"pause", "resume"} -> Server!Flow(s, m)
  /\ UNCHANGED <<cur, socket, connectionState, reconnectAttempts, timers, stray,
                 heartbeatMissed, terminalActive, pendingWrites, paused,
                 unwritten, cleaned, dropped>>

\* A message from the relay.
Receive ==
  /\ cur # 0 /\ Works(cur)
  /\ down[cur] # <<>>
  /\ Client!handleSocketMessage(Head(down[cur]))
  /\ down' = [down EXCEPT ![cur] = Tail(@)]
  /\ UNCHANGED <<ws, awaiting, listening, userSessions, authorizedIPs,
                 ptyProcess, isActive, pty, owner, unread, alarm, kills, dropped>>

-----------------------------------------------------------------------------
(* The relay *)

\* It finds out that a connection is over: at the end of what the browser sent,
\* or because the connection broke, with or without an error first.
Ended(s) ==
  /\ \/ ~Works(s) /\ Server!Errored(s)
     \/ ~Works(s) /\ Server!Closed(s)
     \/ /\ Works(s) /\ up[s] = <<>>
        /\ s < cur \/ socket \in {"closing", "aborting", "closed"}
        /\ Server!Closed(s)
  /\ UNCHANGED <<page, dropped>>

Handshake(s) ==
  /\ Server!Verified(s) \/ Server!Refused(s) \/ Server!Authorised(s)
  /\ UNCHANGED <<page, dropped>>

Crash ==
  /\ Server!AuthIpsFails
  /\ dropped' = dropped \cup {s \in Sessions : ws[s] # "none"}
  /\ UNCHANGED page

Process(p) ==
  /\ Server!Process(p)
  /\ UNCHANGED <<page, dropped>>

KillTimer ==
  /\ Server!KillTimer
  /\ UNCHANGED <<page, dropped>>

-----------------------------------------------------------------------------
(* The page *)

Opened ==
  /\ cur # 0 /\ Works(cur) /\ ws[cur] = "open"
  /\ Client!handleSocketOpen
  /\ UNCHANGED <<relay, dropped>>

\* The browser finds out: a connection attempt refused, given up or cut off
\* fails; an open connection breaks; a close() is answered.
GoneWhileOpen ==
  /\ socket = "open" /\ ~Works(cur)
  /\ \E failed \in BOOLEAN : Client!handleSocketClose(failed, FALSE)
  /\ UNCHANGED <<relay, dropped>>

Gone ==
  /\ \/ socket = "connecting" /\ (ws[cur] = "closed" \/ ~Works(cur))
        /\ Client!handleSocketClose(TRUE, FALSE)
     \/ socket = "aborting" /\ Client!handleSocketClose(TRUE, FALSE)
     \/ socket = "closing" /\ ~Works(cur)
        /\ Client!handleSocketClose(FALSE, FALSE)
     \/ socket = "closing" /\ Works(cur) /\ ws[cur] = "closed"
        /\ Client!handleSocketClose(FALSE, TRUE)
  /\ UNCHANGED <<relay, dropped>>

Timer ==
  /\ Client!Start \/ Client!Reconnect \/ Client!ConnectionTimeout
       \/ Client!PingTimeout
  /\ UNCHANGED <<relay, dropped>>

Written ==
  /\ Client!flowControlCallback
  /\ UNCHANGED <<relay, dropped>>

User ==
  /\ Client!sendCommandWhenReady \/ Client!cleanup
  /\ UNCHANGED <<relay, dropped>>

-----------------------------------------------------------------------------

Next ==
  \/ Drop \/ Request \/ Receive
  \/ \E s \in Sessions : Deliver(s) \/ Ended(s) \/ Handshake(s)
  \/ \E p \in Server!Ptys : Process(p)
  \/ Crash \/ KillTimer
  \/ Opened \/ GoneWhileOpen \/ Gone \/ Timer \/ Written \/ User

Spec == Init /\ [][Next]_vars

\* What happens by itself: a connection that works delivers; the relay's event
\* loop and Laravel, and the browser's, do what is due.  That an idle connection
\* is broken shows at neither end by itself, so nothing says that GoneWhileOpen
\* happens, or Ended to a broken connection.
Network  == Request \/ Receive \/ \E s \in Sessions : Deliver(s)
RelayDue == \/ \E s \in Sessions : Handshake(s) \/ (Works(s) /\ Ended(s))
            \/ \E p \in Server!Ptys : Server!onExit(p) /\ Process(p)
            \/ KillTimer
PageDue  == Opened \/ Gone \/ Timer \/ Written

FairSpec == Spec /\ WF_vars(Network) /\ WF_vars(RelayDue) /\ WF_vars(PageDue)

-----------------------------------------------------------------------------
(* Properties *)

\* What the page believes of its connection is what the socket says
\* (isWebSocketReady asks for both): whatever timers were left behind by
\* earlier attempts, and whichever way these ended.
StateMatchesSocket == connectionState = "connected" <=> socket = "open"

\* The page shows a terminal only while there is one: with everything read
\* that the relay sent, on the first connection that got as far as a session.
ShowsTerminal ==
  (/\ socket = "open" /\ Works(cur) /\ down[cur] = <<>>
   /\ \A s \in 1..(cur - 1) : Works(s) /\ s \notin listening)
  => (terminalActive => isActive[cur])

\* A process the browser had paused is read again, or ends, or its connection
\* is broken (flowControlCallback).
PausedResumes ==
  \A p \in Server!Ptys :
    p \in unread ~> p \notin unread \/ ~Works(owner[p])

\* A page that is not connected gets connected, unless it is left, has used up
\* its attempts (scheduleReconnect and its callers), or the bound stops it.
Reconnects ==
  socket # "open" ~> \/ socket = "open" \/ cleaned \/ cur = left["socket"]
                     \/ reconnectAttempts >= maxReconnectAttempts

=============================================================================
