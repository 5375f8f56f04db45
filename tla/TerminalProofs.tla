---------------------------- MODULE TerminalProofs ----------------------------
(***************************************************************************)
(* TypeOK, StateMatchesSocket and ShowsTerminal, proved for any number of  *)
(* connections, processes, attempts and messages, and any breaking of      *)
(* connections.                                                            *)
(*                                                                         *)
(* What the relay's half needs is proved in TerminalServerProofs and cited *)
(* from there.  For the two halves together a step is reduced to what it   *)
(* does to the connections (LineMoves) and to what it does for a session   *)
(* (Shows); the invariants about both ends rest on these.                  *)
(***************************************************************************)
EXTENDS Terminal, FiniteSetTheorems, TLAPS

Relay == INSTANCE TerminalServerProofs

-----------------------------------------------------------------------------
(* The invariant *)

Bounds ==
  /\ left \in [DOMAIN left -> Nat]
  /\ {"socket", "send", "leave", "drop"} \subseteq DOMAIN left
  /\ left["socket"] \in Sessions

Types ==
  Relay!IInv /\ Client!ClientTypeOK /\ dropped \subseteq Sessions /\ Bounds

\* Before the first connection nothing is being connected.
Begun == cur = 0 => socket = "none" /\ connectionState # "connecting"

\* The timeout of a ping is armed once for each open connection, so one alone
\* never closes it.
Heartbeat == "ping" \in timers => heartbeatMissed = 0 /\ socket = "open"

Pages == Begun /\ StateMatchesSocket /\ Heartbeat

\* The relay knows only of connections the page has opened, and has handlers
\* only for sockets it has accepted.
Ahead   == \A s \in Sessions : s > cur => ws[s] = "none" /\ Works(s)
Reached == \A s \in awaiting \cup listening : ws[s] \notin {"none", "opening"}

\* The page and the relay can still talk on the latest connection.  The relay's
\* socket is then open as soon as it has a handler or the page has it open.
InTouch == cur # 0 /\ Works(cur) /\ socket \in {"connecting", "open"}
Alive   == InTouch /\ (cur \in awaiting \cup listening \/ socket = "open")
             => ws[cur] = "open"

Lines == Ahead /\ Reached /\ Alive

\* A connection that works and whose handler does not listen yet: nothing was
\* ever done for it.
Fresh(s) == Works(s) /\ s \notin listening
Quiet ==
  \A s \in Sessions : Fresh(s) =>
    /\ down[s] = <<>> /\ ~isActive[s] /\ s \notin userSessions
    /\ \A p \in Relay!Ptys : owner[p] # s
    /\ \A i \in DOMAIN kills : kills[i].session # s

\* While no connection got as far as a session, the page shows no terminal.
Blank == (\A s \in 1..cur : Fresh(s)) => ~terminalActive

\* What the page shows once it has read d: a terminal, if the last word about
\* one is that it is ready.
Over == {"unprocessable", "pty-exited"}
LastReady(d, shown) ==
  \/ shown /\ \A j \in DOMAIN d : d[j] \notin Over
  \/ \E i \in DOMAIN d : /\ d[i] = "pty-ready"
                         /\ \A j \in DOMAIN d : j > i => d[j] \notin Over

\* ShowsTerminal, with what is on its way to the page.
View ==
  InTouch /\ (\A s \in 1..(cur - 1) : Fresh(s))
    => (LastReady(down[cur], terminalActive) => isActive[cur])

Screen == Blank /\ View

IInv == Types /\ Pages /\ Lines /\ Quiet /\ Screen

-----------------------------------------------------------------------------
(* The relay of Terminal is the one TerminalServerProofs is about *)

\* The limits are as the relay assumes them.
LEMMA TheAssumption == Relay!TerminalAssumption
BY LimitAssumption DEF Server!TerminalAssumption, Relay!TerminalAssumption,
   Server!Bounded, Relay!Bounded

\* Starting and killing processes, by either name.
LEMMA SameKill ==
  /\ \A s, h : Server!Launch(s, h) <=> Relay!Launch(s, h)
  /\ \A s, c, h :
       Server!killPtyProcess(s, c, h) <=> Relay!killPtyProcess(s, c, h)
BY DEF Server!Launch, Relay!Launch, Server!killPtyProcess, Relay!killPtyProcess,
  Server!Send, Relay!Send, Server!Answer, Relay!Answer, Server!Call, Relay!Call,
  Server!WriteKillLine, Relay!WriteKillLine, Server!Ptys, Relay!Ptys,
  Server!process, Relay!process, Server!NoPty, Relay!NoPty

\* Connections, by either name.
LEMMA SameConnection ==
  ASSUME NEW s
  PROVE  /\ Server!Upgrade(s) <=> Relay!Upgrade(s)
         /\ Server!Verified(s) <=> Relay!Verified(s)
         /\ Server!Refused(s) <=> Relay!Refused(s)
         /\ Server!Authorised(s) <=> Relay!Authorised(s)
         /\ Server!Errored(s) <=> Relay!Errored(s)
         /\ Server!Closed(s) <=> Relay!Closed(s)
<1> USE DEF Server!process, Relay!process
<1>1. Server!Upgrade(s) <=> Relay!Upgrade(s)
  BY DEF Server!Upgrade, Relay!Upgrade
<1>2. Server!Verified(s) <=> Relay!Verified(s)
  BY DEF Server!Verified, Relay!Verified
<1>3. Server!Refused(s) <=> Relay!Refused(s)
  BY DEF Server!Refused, Relay!Refused
<1>4. Server!Authorised(s) <=> Relay!Authorised(s)
  BY DEF Server!Authorised, Relay!Authorised
<1>5. Server!Errored(s) <=> Relay!Errored(s)
  BY SameKill DEF Server!Errored, Relay!Errored
<1>6. Server!Closed(s) <=> Relay!Closed(s)
  BY SameKill DEF Server!Closed, Relay!Closed
<1> QED BY <1>1, <1>2, <1>3, <1>4, <1>5, <1>6

\* Messages, by either name.
LEMMA SameMessage ==
  ASSUME NEW s, NEW h, NEW m
  PROVE  /\ Server!Command(s, h) <=> Relay!Command(s, h)
         /\ Server!CheckActive(s) <=> Relay!CheckActive(s)
         /\ Server!Flow(s, m) <=> Relay!Flow(s, m)
<1> USE DEF Server!process, Relay!process, Server!connection, Relay!connection,
            Server!Heard, Relay!Heard, Server!Spend, Relay!Spend,
            Server!Send, Relay!Send
<1>1. Server!Command(s, h) <=> Relay!Command(s, h)
  BY SameKill DEF Server!Command, Relay!Command
<1>2. Server!CheckActive(s) <=> Relay!CheckActive(s)
  BY SameKill DEF Server!CheckActive, Relay!CheckActive
<1>3. Server!Flow(s, m) <=> Relay!Flow(s, m)
  BY DEF Server!Flow, Relay!Flow
<1> QED BY <1>1, <1>2, <1>3

\* Processes and timers, by either name.
LEMMA SameProcess ==
  /\ \A p : Server!Process(p) <=> Relay!Process(p)
  /\ Server!KillTimer <=> Relay!KillTimer
  /\ Server!AuthIpsFails <=> Relay!AuthIpsFails
<1> USE DEF Server!process, Relay!process, Server!connection, Relay!connection,
            Server!Spend, Relay!Spend, Server!Send, Relay!Send,
            Server!WriteKillLine, Relay!WriteKillLine, Server!NoPty,
            Relay!NoPty, Server!Call, Relay!Call, Server!Ptys, Relay!Ptys
<1>1. ASSUME NEW p PROVE Server!Process(p) <=> Relay!Process(p)
  <2>1. Server!Output(p) <=> Relay!Output(p)
    BY DEF Server!Output, Relay!Output
  <2>2. Server!Exits(p) <=> Relay!Exits(p)
    BY DEF Server!Exits, Relay!Exits
  <2>3. Server!onExit(p) <=> Relay!onExit(p)
    BY DEF Server!onExit, Relay!onExit
  <2>4. Server!TimeoutElapses(p) <=> Relay!TimeoutElapses(p)
    BY DEF Server!TimeoutElapses, Relay!TimeoutElapses
  <2> QED BY <2>1, <2>2, <2>3, <2>4 DEF Server!Process, Relay!Process
<1>2. Server!KillTimer <=> Relay!KillTimer
  BY DEF Server!KillTimer, Relay!KillTimer, Server!Answer, Relay!Answer,
         Server!Launch, Relay!Launch
<1>3. Server!AuthIpsFails <=> Relay!AuthIpsFails
  BY DEF Server!AuthIpsFails, Relay!AuthIpsFails, Server!Live, Relay!Live
<1> QED BY <1>1, <1>2, <1>3

-----------------------------------------------------------------------------
(* Types *)

\* The steps of the page.
PageStep == Opened \/ GoneWhileOpen \/ Gone \/ Timer \/ Written \/ User

\* A step spends at most one unit of one bound; sockets are never given back.
Spends == \/ UNCHANGED left
          \/ \E k \in DOMAIN left \ {"socket"} : Relay!Spend(k)

\* The bounds stay natural numbers.
LEMMA SpendsBounds ==
  ASSUME Bounds, Spends
  PROVE  Bounds' /\ UNCHANGED DOMAIN left /\ left' \in [DOMAIN left -> Nat]
<1>1. CASE UNCHANGED left
  BY <1>1 DEF Bounds
<1>2. CASE \E k \in DOMAIN left \ {"socket"} : Relay!Spend(k)
  <2>1. PICK k \in DOMAIN left \ {"socket"} : Relay!Spend(k)
    BY <1>2
  <2>2. /\ left[k] \in Nat /\ left[k] - 1 \in Nat
        /\ left' = [left EXCEPT ![k] = left[k] - 1]
    BY <2>1 DEF Bounds, Relay!Spend
  <2>3. left' \in [DOMAIN left -> Nat] /\ DOMAIN left' = DOMAIN left
    BY <2>2 DEF Bounds
  <2>4. left'["socket"] = left["socket"]
    BY <2>1, <2>2 DEF Bounds
  <2> QED BY <2>3, <2>4 DEF Bounds
<1> QED BY <1>1, <1>2 DEF Spends

-----------------------------------------------------------------------------
(* The page *)

connecting == <<cur, socket>>

\* What a step of the page does to its socket.
Opens == /\ cur # 0 /\ Works(cur) /\ ws[cur] = "open" /\ socket = "connecting"
         /\ cur' = cur /\ socket' = "open"

Connects == /\ socket \in {"none", "closed"} /\ cur + 1 \in Sessions
            /\ cur' = cur + 1 /\ socket' = "connecting"

Ends == /\ cur # 0 /\ cur' = cur
        /\ socket' \in {"closing", "aborting", "closed"}

PageMoves == Opens \/ Connects \/ Ends \/ UNCHANGED connecting

\* Connections are numbered.
LEMMA SessionRange == \E n \in Nat : Sessions = 1..n
BY SocketAssumption, FS_CardinalityType

\* initializeWebSocket opens the next connection, or finds one.
LEMMA InitializeMoves ==
  ASSUME Types, NEW T, Client!initializeWebSocket(T)
  PROVE  Connects \/ UNCHANGED connecting
<1>1. CASE socket \in {"none", "closed"}
  <2>1. /\ cur < left["socket"] /\ cur' = cur + 1 /\ socket' = "connecting"
    BY <1>1 DEF Client!initializeWebSocket
  <2>2. PICK n \in Nat : Sessions = 1..n
    BY SessionRange
  <2>3. left["socket"] \in 1..n /\ cur \in 0..n
    BY <2>2 DEF Types, Bounds, Client!ClientTypeOK
  <2>4. cur + 1 \in Sessions
    BY <2>1, <2>2, <2>3
  <2> QED BY <1>1, <2>1, <2>4 DEF Connects
<1>2. CASE socket \notin {"none", "closed"}
  BY <1>2 DEF Client!initializeWebSocket, connecting
<1> QED BY <1>1, <1>2

\* The page steps alone: the relay does not move with it.
LEMMA PageMovesStep ==
  ASSUME Types, Pages, PageStep
  PROVE  /\ UNCHANGED <<relay, dropped>>
         /\ PageMoves
         /\ terminalActive' => terminalActive
         /\ Spends
<1> USE DEF PageMoves, Spends
<1>1. CASE Opened
  BY <1>1 DEF Opened, Client!handleSocketOpen, Client!display, Opens
<1>2. CASE GoneWhileOpen
  BY <1>2 DEF GoneWhileOpen, Client!handleSocketClose, Ends, Pages, Begun
<1>3. CASE Gone
  BY <1>3 DEF Gone, Client!handleSocketClose, Ends, Pages, Begun
<1>4. CASE Timer
  <2>1. UNCHANGED <<relay, dropped, left>> /\ UNCHANGED Client!display
    BY <1>4 DEF Timer, Client!Start, Client!Reconnect, Client!ConnectionTimeout,
       Client!PingTimeout
  <2>2. PageMoves
    <3>1. CASE Client!Start
      BY <3>1, InitializeMoves DEF Client!Start
    <3>2. CASE Client!Reconnect
      BY <3>2, InitializeMoves DEF Client!Reconnect
    <3>3. CASE Client!ConnectionTimeout
      BY <3>3 DEF Client!ConnectionTimeout, Ends, connecting, Pages, Begun
    <3>4. CASE Client!PingTimeout
      BY <3>4 DEF Client!PingTimeout, Ends, connecting, Pages, Heartbeat, Begun
    <3> QED BY <1>4, <3>1, <3>2, <3>3, <3>4 DEF Timer
  <2> QED BY <2>1, <2>2 DEF Client!display
<1>5. CASE Written
  BY <1>5 DEF Written, Client!flowControlCallback, Client!connecting, connecting
<1>6. CASE User
  <2>1. CASE Client!sendCommandWhenReady
    <3>1. Spends
      BY <2>1 DEF Client!sendCommandWhenReady, Relay!Spend, Types, Bounds
    <3> QED BY <1>6, <2>1, <3>1
               DEF User, Client!sendCommandWhenReady, Client!connecting,
                   connecting, Client!display
  <2>2. CASE Client!cleanup
    <3>1. Spends
      BY <2>2 DEF Client!cleanup, Relay!Spend, Types, Bounds
    <3>2. PageMoves
      BY <2>2 DEF Client!cleanup, Ends, connecting, Pages, Begun
    <3> QED BY <1>6, <2>2, <3>1, <3>2 DEF User, Client!cleanup, Client!display
  <2> QED BY <1>6, <2>1, <2>2 DEF User
<1> QED BY <1>1, <1>2, <1>3, <1>4, <1>5, <1>6 DEF PageStep

\* A message to the relay keeps what is on its way a sequence of messages.
LEMMA SendMessageTyped ==
  ASSUME Types, NEW m \in {"command", "force", "pause", "resume"},
         Client!sendMessage(m)
  PROVE  up' \in [Sessions -> Seq({"command", "force", "pause", "resume"})]
<1> DEFINE M == {"command", "force", "pause", "resume"}
<1>1. up \in [Sessions -> Seq(M)]
  BY DEF Types, Client!ClientTypeOK
<1>2. CASE socket = "open" /\ cur \in Sessions
  <2>1. Append(up[cur], m) \in Seq(M)
    BY <1>1, <1>2
  <2>2. up' = [up EXCEPT ![cur] = Append(up[cur], m)]
    BY <1>2 DEF Client!sendMessage
  <2> HIDE DEF M
  <2>3. up' \in [Sessions -> Seq(M)]
    BY <1>1, <1>2, <2>1, <2>2
  <2> QED BY <2>3 DEF M
<1>3. CASE socket # "open"
  BY <1>1, <1>3 DEF Client!sendMessage
<1>4. CASE socket = "open" /\ cur \notin Sessions
  <2>1. up' = [up EXCEPT ![cur] = Append(up[cur], m)]
    BY <1>4 DEF Client!sendMessage
  <2> HIDE DEF M
  <2>3. up' = up
    BY <1>1, <1>4, <2>1
  <2> QED BY <1>1, <2>3 DEF M
<1> QED BY <1>2, <1>3, <1>4

\* The types of the page's variables.
PageTyped ==
  /\ socket \in {"none", "connecting", "open", "closing", "aborting", "closed"}
  /\ connectionState \in {"disconnected", "connecting", "connected",
                          "reconnecting"}
  /\ reconnectAttempts \in Nat
  /\ timers \subseteq Client!Timers
  /\ stray \in Nat
  /\ heartbeatMissed \in Nat
  /\ terminalActive \in BOOLEAN
  /\ pendingWrites \in Nat /\ unwritten \in Nat
  /\ paused \in BOOLEAN
  /\ cleaned \in BOOLEAN
  /\ up \in [Sessions -> Seq({"command", "force", "pause", "resume"})]

\* ClientTypeOK, with the bounds apart.
LEMMA PageTypes ==
  Bounds => (Client!ClientTypeOK <=> PageTyped /\ cur \in Sessions \cup {0})
<1> SUFFICES ASSUME Bounds
             PROVE  Client!ClientTypeOK
                      <=> PageTyped /\ cur \in Sessions \cup {0}
  OBVIOUS
<1>1. left["send"] \in Nat /\ left["leave"] \in Nat
  BY DEF Bounds
<1>2. left["socket"] \in Sessions
  BY DEF Bounds
<1> QED BY <1>1, <1>2 DEF Client!ClientTypeOK, PageTyped

\* A step of the page keeps its types.
LEMMA PageStepTyped ==
  ASSUME Types, Pages, PageStep
  PROVE  PageTyped'
<1>0. PageTyped
  BY PageTypes DEF Types
<1> USE DEF Client!Timers
<1>1. CASE Opened
  BY <1>0, <1>1 DEF Opened, Client!handleSocketOpen, Client!display, PageTyped
<1>2. ASSUME NEW f, NEW c, Client!handleSocketClose(f, c) PROVE PageTyped'
  <2>1. stray' \in Nat
    BY <1>0, <1>2 DEF Client!handleSocketClose, Client!Lost, PageTyped
  <2>2. timers' \subseteq Client!Timers
    BY <1>0, <1>2 DEF Client!handleSocketClose, Client!Rescheduled,
       Client!Cleared, PageTyped
  <2>3. connectionState' \in {"disconnected", "reconnecting"}
    BY <1>2 DEF Client!handleSocketClose, Client!StateThen
  <2>4. /\ pendingWrites' \in {pendingWrites, 0}
        /\ terminalActive' \in {terminalActive, FALSE}
    BY <1>2 DEF Client!handleSocketClose
  <2>5. paused' \in BOOLEAN
    BY <1>0, <1>2 DEF Client!handleSocketClose, PageTyped
  <2>6. pendingWrites' \in Nat
    BY <1>0, <2>4 DEF PageTyped
  <2>7. terminalActive' \in BOOLEAN
    BY <1>0, <2>4, Zenon DEF PageTyped
  <2> QED BY <1>0, <1>2, <2>1, <2>2, <2>3, <2>5, <2>6, <2>7
          DEF Client!handleSocketClose, PageTyped
<1>3. CASE GoneWhileOpen
  BY <1>2, <1>3 DEF GoneWhileOpen
<1>4. CASE Gone
  BY <1>2, <1>4 DEF Gone
<1>5. ASSUME NEW T \in SUBSET Client!Timers, Client!initializeWebSocket(T)
      PROVE  /\ timers' \subseteq Client!Timers
             /\ socket' \in {"connecting", socket}
             /\ connectionState' \in {"connecting", connectionState}
  BY <1>5 DEF Client!initializeWebSocket, Client!Cleared
<1>6. CASE Client!Start
  <2>1. timers \ {"start"} \in SUBSET Client!Timers
    BY <1>0 DEF PageTyped
  <2>2. /\ timers' \subseteq Client!Timers
        /\ socket' \in {"connecting", socket}
        /\ connectionState' \in {"connecting", connectionState}
    BY <1>6, <1>5, <2>1 DEF Client!Start
  <2> QED BY <1>0, <1>6, <2>2 DEF Client!Start, Client!display, PageTyped
<1>7. CASE Client!Reconnect
  <2>1. timers \ {"reconnect"} \in SUBSET Client!Timers
          /\ timers \in SUBSET Client!Timers
    BY <1>0 DEF PageTyped
  <2>2. /\ timers' \subseteq Client!Timers
        /\ socket' \in {"connecting", socket}
        /\ connectionState' \in {"connecting", connectionState}
    BY <1>7, <1>5, <2>1 DEF Client!Reconnect
  <2>3. stray' \in Nat
    BY <1>0, <1>7 DEF Client!Reconnect, PageTyped
  <2> QED BY <1>0, <1>7, <2>2, <2>3
             DEF Client!Reconnect, Client!display, PageTyped
<1>8. CASE Client!ConnectionTimeout
  <2>1. stray' \in Nat
    BY <1>0, <1>8 DEF Client!ConnectionTimeout, Client!Lost, PageTyped
  <2>2. timers' \subseteq Client!Timers
    BY <1>0, <1>8 DEF Client!ConnectionTimeout, Client!Rescheduled, PageTyped
  <2>3. /\ connectionState' \in {"disconnected", "reconnecting",
                                connectionState}
        /\ socket' \in {"aborting", socket}
    BY <1>8 DEF Client!ConnectionTimeout, Client!StateThen
  <2> QED BY <1>0, <1>8, <2>1, <2>2, <2>3
          DEF Client!ConnectionTimeout, Client!display, PageTyped
<1>9. CASE Client!PingTimeout
  BY <1>0, <1>9 DEF Client!PingTimeout, Client!display, PageTyped
<1>10. CASE Timer
  BY <1>6, <1>7, <1>8, <1>9, <1>10 DEF Timer
<1>11. CASE Written
  <2>1. up' \in [Sessions -> Seq({"command", "force", "pause", "resume"})]
    BY <1>0, <1>11, SendMessageTyped
       DEF Written, Client!flowControlCallback, PageTyped
  <2>2. unwritten' \in Nat /\ pendingWrites' \in Nat
    BY <1>0, <1>11 DEF Written, Client!flowControlCallback, PageTyped
  <2>3. paused' \in {TRUE, FALSE, paused}
    BY <1>11 DEF Written, Client!flowControlCallback
  <2> QED BY <1>0, <1>11, <2>1, <2>2, <2>3
          DEF Written, Client!flowControlCallback, Client!connecting, PageTyped
<1>12. CASE User
  <2>1. up' \in [Sessions -> Seq({"command", "force", "pause", "resume"})]
    BY <1>0, <1>12, SendMessageTyped DEF User, Client!sendCommandWhenReady,
       Client!cleanup, PageTyped
  <2>2. CASE Client!sendCommandWhenReady
    BY <1>0, <2>1, <2>2 DEF Client!sendCommandWhenReady, Client!connecting,
       Client!display, PageTyped
  <2>3. CASE Client!cleanup
    BY <1>0, <2>1, <2>3
       DEF Client!cleanup, Client!Cleared, Client!display, PageTyped
  <2> QED BY <1>12, <2>2, <2>3 DEF User
<1> QED BY <1>1, <1>3, <1>4, <1>10, <1>11, <1>12 DEF PageStep

\* Whatever timers fire, the state follows the socket.
LEMMA PageStepPages ==
  ASSUME Types, Pages, PageStep
  PROVE  Pages'
<1> USE DEF Pages, Begun, StateMatchesSocket, Heartbeat
<1>1. CASE Opened
  BY <1>1 DEF Opened, Client!handleSocketOpen
<1>2. ASSUME NEW f, NEW c, Client!handleSocketClose(f, c) PROVE Pages'
  BY <1>2
     DEF Client!handleSocketClose, Client!Rescheduled, Client!Cleared,
         Client!StateThen
<1>3. CASE GoneWhileOpen
  BY <1>2, <1>3 DEF GoneWhileOpen
<1>4. CASE Gone
  BY <1>2, <1>4 DEF Gone
<1>5. ASSUME NEW T \in SUBSET timers, Client!initializeWebSocket(T),
             UNCHANGED heartbeatMissed
      PROVE  Pages'
  <2>1. Connects \/ UNCHANGED connecting
    BY <1>5, InitializeMoves
  <2>2. CASE socket \in {"none", "closed"}
    <3>1. cur' # 0
      BY <2>1, <2>2, <1>5, SessionRange
         DEF Connects, Client!initializeWebSocket, Types, Client!ClientTypeOK
    <3> QED BY <1>5, <2>2, <3>1 DEF Client!initializeWebSocket, Client!Cleared
  <2>3. CASE socket \notin {"none", "closed"}
    BY <1>5, <2>3 DEF Client!initializeWebSocket
  <2> QED BY <2>2, <2>3
<1>6. CASE Client!Start
  BY <1>6, <1>5 DEF Client!Start
<1>7. CASE Client!Reconnect
  BY <1>7, <1>5 DEF Client!Reconnect
<1>8. CASE Client!ConnectionTimeout
  BY <1>8 DEF Client!ConnectionTimeout, Client!Rescheduled, Client!StateThen
<1>9. CASE Client!PingTimeout
  BY <1>9, LimitAssumption DEF Client!PingTimeout
<1>10. CASE Timer
  BY <1>6, <1>7, <1>8, <1>9, <1>10 DEF Timer
<1>11. CASE Written
  BY <1>11 DEF Written, Client!flowControlCallback, Client!connecting
<1>12. CASE User
  BY <1>12
     DEF User, Client!sendCommandWhenReady, Client!cleanup, Client!connecting,
         Client!Cleared
<1> QED BY <1>1, <1>3, <1>4, <1>10, <1>11, <1>12 DEF PageStep

-----------------------------------------------------------------------------
(* The relay *)

\* A step that leaves the relay alone keeps its invariant.
LEMMA RelayUntouched ==
  ASSUME Types, UNCHANGED relay, Spends
  PROVE  Relay!IInv'
<1>1. left' \in [DOMAIN left' -> Nat] /\ UNCHANGED DOMAIN left
  BY SpendsBounds DEF Types
<1>2. Relay!Rest'
  BY <1>1 DEF Types, Relay!IInv, Relay!Rest, relay
<1>3. Relay!Processes'
  BY DEF Types, Relay!IInv, Relay!Processes, Relay!OneTerminal, Relay!Live,
     relay
<1>4. Relay!Calls' /\ Relay!Connections'
  BY DEF Types, Relay!IInv, Relay!Calls, Relay!Connections, relay
<1> QED BY <1>2, <1>3, <1>4 DEF Relay!IInv

\* A step of the relay, with the session it concerns.
Arrives(s) == \/ Relay!Upgrade(s) \/ Relay!Verified(s) \/ Relay!Refused(s)
              \/ Relay!Authorised(s)
Leaves(s)  == Relay!Errored(s) \/ Relay!Closed(s)

Misses(s)  == Deliver(s) /\ s \notin listening /\ UNCHANGED <<relay, left>>
Hears(s)   == Deliver(s) /\ s \in listening /\ Relay!Message(s)

Steps ==
  \/ PageStep
  \/ Drop
  \/ Receive
  \/ Crash /\ Relay!AuthIpsFails
  \/ KillTimer /\ Relay!KillTimer
  \/ \E p \in Relay!Ptys : Process(p) /\ Relay!Process(p)
  \/ \E s \in Sessions : \/ Request /\ s = cur /\ Relay!Upgrade(s)
                         \/ Ended(s) /\ Leaves(s)
                         \/ Handshake(s) /\ Arrives(s)
                         \/ Misses(s) \/ Hears(s)

\* Each step of Terminal is one of these.
LEMMA StepsNext == ASSUME Types, Pages, Next PROVE Steps
<1> USE DEF Steps
<1>1. CASE Request
  <2>1. cur \in Sessions
    BY <1>1 DEF Request, Types, Client!ClientTypeOK, Pages, Begun
  <2>2. Relay!Upgrade(cur)
    BY <1>1, SameConnection DEF Request
  <2> QED BY <1>1, <2>1, <2>2
<1>2. ASSUME NEW s \in Sessions, Deliver(s) PROVE Misses(s) \/ Hears(s)
  <2>1. CASE s \notin listening
    BY <1>2, <2>1 DEF Misses, Deliver
  <2>2. CASE s \in listening
    <3>1. up[s] \in Seq({"command", "force", "pause", "resume"}) /\ up[s] # <<>>
      BY <1>2 DEF Deliver, Types, Client!ClientTypeOK
    <3>2. Head(up[s]) \in {"command", "force", "pause", "resume"}
      BY <3>1
    <3> DEFINE m == Head(up[s])
    <3>3. \/ \E h \in Hosts : Server!Command(s, h)
          \/ Server!CheckActive(s)
          \/ m \in {"pause", "resume"} /\ Server!Flow(s, m)
      BY <1>2, <2>2, <3>2 DEF Deliver
    <3>4. Relay!Message(s)
      BY <3>3, SameMessage DEF Relay!Message
    <3> QED BY <1>2, <2>2, <3>4 DEF Hears
  <2> QED BY <2>1, <2>2
<1>3. ASSUME NEW s \in Sessions, Ended(s) PROVE Leaves(s)
  BY <1>3, SameConnection DEF Ended, Leaves
<1>4. ASSUME NEW s \in Sessions, Handshake(s) PROVE Arrives(s)
  BY <1>4, SameConnection DEF Handshake, Arrives
<1>5. ASSUME NEW p \in Server!Ptys, Process(p)
      PROVE  p \in Relay!Ptys /\ Relay!Process(p)
  BY <1>5, SameProcess DEF Process, Server!Ptys, Relay!Ptys
<1>6. Crash => Relay!AuthIpsFails
  BY SameProcess DEF Crash
<1>7. KillTimer => Relay!KillTimer
  BY SameProcess DEF KillTimer
<1> QED BY <1>1, <1>2, <1>3, <1>4, <1>5, <1>6, <1>7 DEF Next, PageStep

\* What the lemmas about the relay assume, for the relay that is part of this.
LEMMA RelaySteps ==
  ASSUME Relay!IInv
  PROVE  /\ \A s \in Sessions : Relay!Connection(s) => Relay!IInv'
         /\ \A s \in Sessions : Relay!Message(s) => Relay!IInv'
         /\ \A p \in Relay!Ptys : Relay!Process(p) => Relay!IInv'
         /\ Relay!KillTimer => Relay!IInv'
         /\ Relay!AuthIpsFails => Relay!IInv'
<1> USE TheAssumption DEF Relay!TerminalAssumption, Relay!Bounded
<1>1. \A s \in Sessions : Relay!Connection(s) => Relay!IInv'
  BY Relay!ConnectionInv
<1>2. \A s \in Sessions : Relay!Message(s) => Relay!IInv'
  BY Relay!MessageInv
<1>3. \A p \in Relay!Ptys : Relay!Process(p) => Relay!IInv'
  BY Relay!ProcessInv
<1>4. Relay!KillTimer => Relay!IInv'
  BY Relay!KillTimerInv
<1>5. Relay!AuthIpsFails => Relay!IInv'
  BY Relay!AuthIpsFailsInv
<1> QED BY <1>1, <1>2, <1>3, <1>4, <1>5

\* Every step keeps to the bounds.
LEMMA StepsSpend ==
  ASSUME Types, Pages, Steps
  PROVE  Spends
<1>1. {"command", "output", "force", "crash", "drop"}
        \subseteq DOMAIN left \ {"socket"}
  BY DEF Types, Bounds, Relay!IInv, Relay!Rest, Relay!Bounded
<1>2. CASE PageStep
  BY <1>2, PageMovesStep
<1>3. CASE Drop
  BY <1>1, <1>3 DEF Drop, Spends, Server!Spend, Relay!Spend
<1>4. CASE Receive
  BY <1>4 DEF Receive, Client!handleSocketMessage, Spends
<1>5. CASE Relay!AuthIpsFails
  BY <1>1, <1>5 DEF Relay!AuthIpsFails, Spends
<1>6. CASE Relay!KillTimer
  BY <1>6 DEF Relay!KillTimer, Spends
<1>7. ASSUME NEW p \in Relay!Ptys, Relay!Process(p) PROVE Spends
  BY <1>1, <1>7 DEF Relay!Process, Relay!Output, Relay!Exits, Relay!onExit,
     Relay!TimeoutElapses, Spends
<1>8. ASSUME NEW s \in Sessions, Arrives(s) \/ Leaves(s) PROVE Spends
  BY <1>8 DEF Arrives, Leaves, Relay!Upgrade, Relay!Verified, Relay!Refused,
     Relay!Authorised, Relay!Errored, Relay!Closed, Spends
<1>9. ASSUME NEW s \in Sessions, Relay!Message(s) PROVE Spends
  BY <1>1, <1>9
     DEF Relay!Message, Relay!Command, Relay!CheckActive, Relay!Flow, Spends
<1>10. ASSUME NEW s \in Sessions, Misses(s) PROVE Spends
  BY <1>10 DEF Misses, Spends
<1> QED BY <1>2, <1>3, <1>4, <1>5, <1>6, <1>7, <1>8, <1>9, <1>10
        DEF Steps, Hears, Arrives

\* Only the steps of the page and its messages touch its state.
LEMMA PagesStep ==
  ASSUME Types, Pages, Steps
  PROVE  Pages'
<1>1. CASE PageStep
  BY <1>1, PageStepPages
<1>2. ASSUME UNCHANGED <<cur, socket, connectionState, timers, heartbeatMissed>>
      PROVE  Pages'
  BY <1>2 DEF Pages, Begun, StateMatchesSocket, Heartbeat
<1>3. CASE UNCHANGED page
  BY <1>2, <1>3 DEF page
<1>4. CASE Receive
  BY <1>2, <1>4 DEF Receive, Client!handleSocketMessage, Client!connecting
<1>5. ASSUME NEW s \in Sessions, Deliver(s) PROVE Pages'
  BY <1>2, <1>5 DEF Deliver
<1>6. Drop \/ Crash \/ KillTimer \/ Request => UNCHANGED page
  BY DEF Drop, Crash, KillTimer, Request
<1>7. ASSUME NEW p, Process(p) PROVE UNCHANGED page
  BY <1>7 DEF Process
<1>8. ASSUME NEW s \in Sessions, Ended(s) \/ Handshake(s) PROVE UNCHANGED page
  BY <1>8 DEF Ended, Handshake
<1> QED BY <1>1, <1>3, <1>4, <1>5, <1>6, <1>7, <1>8 DEF Steps, Misses, Hears

\* Every step keeps the types of both halves.
LEMMA TypesStep ==
  ASSUME Types, Pages, Steps
  PROVE  Types'
<1>0. PageTyped /\ cur \in Sessions \cup {0}
  BY PageTypes DEF Types
<1>1. Bounds' /\ Spends
  BY StepsSpend, SpendsBounds DEF Types
<1>2. Client!ClientTypeOK' <=> PageTyped' /\ cur' \in Sessions \cup {0}
  <2>1. /\ left'["send"] \in Nat /\ left'["leave"] \in Nat
        /\ left'["socket"] \in Sessions
    BY <1>1 DEF Bounds
  <2> QED BY <2>1 DEF Client!ClientTypeOK, PageTyped
<1>3. (\E s \in Sessions : Deliver(s))
        => up' \in [Sessions -> Seq({"command", "force", "pause", "resume"})]
  <2> DEFINE M == {"command", "force", "pause", "resume"}
  <2> SUFFICES ASSUME NEW s \in Sessions, Deliver(s)
               PROVE  up' \in [Sessions -> Seq(M)]
    OBVIOUS
  <2>1. up \in [Sessions -> Seq(M)]
    BY <1>0 DEF PageTyped
  <2>2. up[s] # <<>> /\ up' = [up EXCEPT ![s] = Tail(up[s])]
    BY DEF Deliver
  <2> HIDE DEF M
  <2>3. Tail(up[s]) \in Seq(M)
    BY <2>1, <2>2
  <2> QED BY <2>1, <2>2, <2>3
<1>4. ASSUME UNCHANGED page \/ \E s \in Sessions : Deliver(s)
      PROVE  PageTyped' /\ cur' \in Sessions \cup {0}
  <2>1. CASE UNCHANGED page
    BY <1>0, <2>1 DEF page, PageTyped
  <2>2. CASE \E s \in Sessions : Deliver(s)
    BY <1>0, <1>3, <2>2 DEF Deliver, PageTyped
  <2> QED BY <1>4, <2>1, <2>2
<1>5. CASE PageStep
  <2>1. PageTyped' /\ UNCHANGED <<relay, dropped>> /\ PageMoves
    BY <1>5, PageStepTyped, PageMovesStep
  <2>2. cur' \in Sessions \cup {0}
    BY <1>0, <2>1 DEF PageMoves, Opens, Connects, Ends, connecting
  <2>3. Relay!IInv'
    BY <1>1, <2>1, RelayUntouched
  <2> QED BY <1>1, <1>2, <2>1, <2>2, <2>3 DEF Types
<1>6. CASE Drop
  <2>1. UNCHANGED <<relay, page>> /\ dropped' \subseteq Sessions
    BY <1>6 DEF Drop, Types, Client!ClientTypeOK, Pages, Begun
  <2>2. Relay!IInv'
    BY <1>1, <2>1, RelayUntouched
  <2> QED BY <1>1, <1>2, <1>4, <2>1, <2>2 DEF Types
<1>7. CASE Receive
  <2>1. /\ cur \in Sessions /\ down[cur] # <<>>
        /\ down' = [down EXCEPT ![cur] = Tail(@)]
    BY <1>7, <1>0 DEF Receive
  <2>2. down \in [Sessions -> Seq(Relay!Replies)]
    BY DEF Types, Relay!IInv, Relay!Calls
  <2>3. Tail(down[cur]) \in Seq(Relay!Replies)
    BY <2>1, <2>2
  <2>4. down' \in [Sessions -> Seq(Relay!Replies)]
    BY <2>1, <2>2, <2>3
  <2>5. UNCHANGED <<ws, awaiting, listening, userSessions, authorizedIPs,
                    ptyProcess, isActive, pty, owner, unread, alarm, kills,
                    dropped, left, cur>>
    BY <1>7 DEF Receive, Client!handleSocketMessage, Client!connecting
  <2>6. Relay!Processes'
    BY <2>5
       DEF Types, Relay!IInv, Relay!Processes, Relay!OneTerminal, Relay!Live
  <2>7. Relay!Calls' /\ Relay!Connections' /\ Relay!Rest'
    BY <2>4, <2>5
       DEF Types, Relay!IInv, Relay!Calls, Relay!Connections, Relay!Rest
  <2>8. terminalActive' \in BOOLEAN
    BY <1>0, <1>7 DEF Receive, Client!handleSocketMessage, PageTyped
  <2>9. PageTyped'
    BY <1>0, <1>7, <2>8
       DEF Receive, Client!handleSocketMessage, Client!connecting, PageTyped
  <2> QED BY <1>0, <1>1, <1>2, <2>5, <2>6, <2>7, <2>9 DEF Types, Relay!IInv
<1>8. CASE Crash /\ Relay!AuthIpsFails
  <2>1. UNCHANGED page /\ dropped' \subseteq Sessions
    BY <1>8 DEF Crash, Types
  <2>2. Relay!IInv'
    BY <1>8, RelaySteps DEF Types
  <2> QED BY <1>1, <1>2, <1>4, <2>1, <2>2 DEF Types
<1>9. CASE KillTimer /\ Relay!KillTimer
  <2>1. UNCHANGED <<page, dropped>>
    BY <1>9 DEF KillTimer
  <2>2. Relay!IInv'
    BY <1>9, RelaySteps DEF Types
  <2> QED BY <1>1, <1>2, <1>4, <2>1, <2>2 DEF Types
<1>10. ASSUME NEW p \in Relay!Ptys, Process(p) /\ Relay!Process(p) PROVE Types'
  <2>1. UNCHANGED <<page, dropped>>
    BY <1>10 DEF Process
  <2>2. Relay!IInv'
    BY <1>10, RelaySteps DEF Types
  <2> QED BY <1>1, <1>2, <1>4, <2>1, <2>2 DEF Types
<1>11. ASSUME NEW s \in Sessions,
              \/ Request /\ Relay!Upgrade(s)
              \/ Ended(s) /\ Leaves(s)
              \/ Handshake(s) /\ Arrives(s)
       PROVE  Types'
  <2>1. UNCHANGED <<page, dropped>>
    BY <1>11 DEF Request, Ended, Handshake
  <2>2. Relay!Connection(s)
    BY <1>11 DEF Arrives, Leaves, Relay!Connection
  <2>3. Relay!IInv'
    BY <2>2, RelaySteps DEF Types
  <2> QED BY <1>1, <1>2, <1>4, <2>1, <2>3 DEF Types
<1>12. ASSUME NEW s \in Sessions, Misses(s) \/ Hears(s) PROVE Types'
  <2>1. Deliver(s) /\ UNCHANGED dropped
    BY <1>12 DEF Misses, Hears, Deliver
  <2>2. Relay!IInv'
    <3>1. CASE Misses(s)
      BY <1>1, <3>1, RelayUntouched DEF Misses
    <3>2. CASE Hears(s)
      BY <3>2, RelaySteps DEF Types, Hears
    <3> QED BY <1>12, <3>1, <3>2
  <2>3. PageTyped' /\ cur' \in Sessions \cup {0}
    BY <1>4, <2>1
  <2> QED BY <1>1, <1>2, <2>1, <2>2, <2>3 DEF Types
<1> QED BY <1>5, <1>6, <1>7, <1>8, <1>9, <1>10, <1>11, <1>12 DEF Steps

-----------------------------------------------------------------------------
(* What the relay does for a session *)

\* A step for session t: at most one message to t with what it does to t's flag;
\* only processes and calls of t are new, and no session enters the map.
Told(t) ==
  \/ UNCHANGED <<down, isActive>>
  \/ \E m \in Relay!Replies :
       /\ Relay!Send(t, m)
       /\ isActive' = CASE m = "pty-ready" -> [isActive EXCEPT ![t] = TRUE]
                        [] m = "pty-exited" -> [isActive EXCEPT ![t] = FALSE]
                        [] OTHER -> isActive

Owns(t) == \/ owner' = owner
           \/ \E p \in Relay!Ptys : owner' = [owner EXCEPT ![p] = t]

Called(t) == \A i \in DOMAIN kills' :
  \/ kills'[i].session = t
  \/ \E j \in DOMAIN kills : kills'[i].session = kills[j].session

Serves(t) ==
  Told(t) /\ Owns(t) /\ Called(t) /\ userSessions' \subseteq userSessions

\* A launch tells the session what came of it.
LEMMA LaunchServes ==
  ASSUME NEW t \in Sessions, NEW h, Relay!Launch(t, h)
  PROVE  Told(t) /\ Owns(t)
<1>1. CASE h \in authorizedIPs[t]
  <2>1. PICK p \in Relay!Ptys :
          /\ owner' = [owner EXCEPT ![p] = t]
          /\ isActive' = [isActive EXCEPT ![t] = TRUE]
          /\ Relay!Send(t, "pty-ready")
    BY <1>1 DEF Relay!Launch
  <2> QED BY <2>1 DEF Told, Owns, Relay!Replies
<1>2. CASE h \notin authorizedIPs[t]
  <2>1. Relay!Send(t, "refused") /\ UNCHANGED <<owner, isActive>>
    BY <1>2 DEF Relay!Launch, Relay!process
  <2> QED BY <2>1 DEF Told, Owns, Relay!Replies
<1> QED BY <1>1, <1>2

\* An answer to a kill serves the session of the call.
LEMMA AnswerServes ==
  ASSUME NEW k, k.session \in Sessions, NEW killed, Relay!Answer(k, killed)
  PROVE  /\ Told(k.session) /\ Owns(k.session)
         /\ userSessions' \subseteq userSessions
<1>1. CASE Relay!Launch(k.session, k.host) /\ UNCHANGED userSessions
  BY <1>1, LaunchServes
<1>2. CASE /\ Relay!Send(k.session, "unprocessable")
           /\ UNCHANGED <<Relay!process, isActive, userSessions>>
  BY <1>2 DEF Told, Owns, Relay!Replies, Relay!process
<1>3. CASE /\ userSessions' \subseteq userSessions
           /\ UNCHANGED <<Relay!process, isActive, down>>
  BY <1>3 DEF Told, Owns, Relay!process
<1> QED BY <1>1, <1>2, <1>3 DEF Relay!Answer

\* A call is for its session.
LEMMA CallServes ==
  ASSUME Relay!Calls, NEW t \in Sessions, NEW c, NEW h,
         kills' = Append(kills, Relay!Call(t, c, h))
  PROVE  Called(t)
<1>1. kills \in Seq(Relay!Kill)
  BY DEF Relay!Calls
<1>2. Relay!Call(t, c, h).session = t
  BY DEF Relay!Call
<1> QED BY <1>1, <1>2 DEF Called

\* A kill serves the session it is for.
LEMMA KillServes ==
  ASSUME Relay!Calls, NEW t \in Sessions, NEW c, NEW h,
         Relay!killPtyProcess(t, c, h)
  PROVE  Serves(t)
<1>1. CASE /\ kills' = Append(kills, Relay!Call(t, c, h))
           /\ UNCHANGED <<owner, isActive, userSessions, down>>
  BY <1>1, CallServes DEF Serves, Told, Owns
<1>2. CASE Relay!Answer(Relay!Call(t, c, h), FALSE) /\ UNCHANGED kills
  <2>1. Relay!Call(t, c, h).session = t
    BY DEF Relay!Call
  <2> QED BY <1>2, <2>1, AnswerServes DEF Serves, Called
<1> QED BY <1>1, <1>2 DEF Relay!killPtyProcess

\* A message is served for its session.
LEMMA MessageServes ==
  ASSUME Relay!IInv, NEW s \in Sessions, Relay!Message(s)
  PROVE  Serves(s)
<1>0. Relay!Calls /\ isActive \in [Sessions -> BOOLEAN]
  BY DEF Relay!IInv, Relay!Processes
<1>1. ASSUME NEW h, Relay!Command(s, h) PROVE Serves(s)
  BY <1>0, <1>1, KillServes, LaunchServes DEF Relay!Command, Serves, Called
<1>2. CASE Relay!CheckActive(s)
  <2>1. CASE isActive[s]
    BY <1>0, <1>2, <2>1, KillServes DEF Relay!CheckActive
  <2>2. CASE ~isActive[s]
    BY <1>2, <2>2
       DEF Relay!CheckActive, Serves, Told, Owns, Called, Relay!process,
           Relay!Replies
  <2> QED BY <2>1, <2>2
<1>3. ASSUME NEW m, Relay!Flow(s, m) PROVE Serves(s)
  BY <1>3 DEF Relay!Flow, Serves, Told, Owns, Called, Relay!process
<1> QED BY <1>1, <1>2, <1>3 DEF Relay!Message

\* A process is worked for its owner.
LEMMA ProcessServes ==
  ASSUME Relay!IInv, NEW p \in Relay!Ptys, Relay!Process(p)
  PROVE  owner[p] \in Sessions /\ Serves(owner[p])
<1>0. Relay!Calls /\ isActive \in [Sessions -> BOOLEAN]
  BY DEF Relay!IInv, Relay!Processes
<1>1. owner[p] \in Sessions
  BY DEF Relay!IInv, Relay!Processes, Relay!Process, Relay!Output, Relay!Exits,
     Relay!onExit, Relay!TimeoutElapses
<1>2. CASE Relay!Output(p)
  BY <1>1, <1>2
     DEF Relay!Output, Serves, Told, Owns, Called, Relay!process, Relay!Replies
<1>3. CASE Relay!Exits(p)
  BY <1>1, <1>3 DEF Relay!Exits, Serves, Told, Owns, Called
<1>4. CASE Relay!onExit(p)
  BY <1>1, <1>4 DEF Relay!onExit, Serves, Told, Owns, Called, Relay!Replies
<1>5. CASE Relay!TimeoutElapses(p)
  <2>1. UNCHANGED <<owner, isActive, userSessions, down>>
    BY <1>5 DEF Relay!TimeoutElapses
  <2>2. Called(owner[p])
    BY <1>0, <1>1, <1>5, CallServes DEF Relay!TimeoutElapses, Called
  <2> QED BY <1>1, <2>1, <2>2 DEF Serves, Told, Owns
<1> QED BY <1>1, <1>2, <1>3, <1>4, <1>5 DEF Relay!Process

\* The timer of a kill serves the session of a call that waits.
LEMMA KillTimerServes ==
  ASSUME Relay!IInv, Relay!KillTimer
  PROVE  \E i \in DOMAIN kills : /\ kills[i].session \in Sessions
                                 /\ Serves(kills[i].session)
<1> DEFINE k == Head(kills)
<1>1. kills \in Seq(Relay!Kill) /\ kills # <<>>
  BY DEF Relay!IInv, Relay!Calls, Relay!KillTimer
<1>2. /\ k \in Relay!Kill /\ k.session \in Sessions
      /\ k = kills[1] /\ 1 \in DOMAIN kills
  <2>1. k = kills[1] /\ 1 \in DOMAIN kills
    BY <1>1
  <2>2. kills[1] \in Relay!Kill
    BY <1>1
  <2> QED BY <2>1, <2>2 DEF Relay!Kill
<1>3. \A i \in DOMAIN Tail(kills) :
        \E j \in DOMAIN kills : Tail(kills)[i] = kills[j]
  BY <1>1
<1>4. CASE isActive[k.session] /\ k.attempts < maxAttempts
  <2>1. /\ kills' = Append(Tail(kills), [k EXCEPT !.attempts = @ + 1])
        /\ UNCHANGED <<owner, isActive, userSessions, down>>
    BY <1>4 DEF Relay!KillTimer
  <2>2. [k EXCEPT !.attempts = @ + 1].session = k.session
    BY <1>2 DEF Relay!Kill
  <2>3. Called(k.session)
    <3> DEFINE T == Tail(kills)
               a == [k EXCEPT !.attempts = @ + 1]
    <3>1. T \in Seq(Relay!Kill)
      BY <1>1
    <3> HIDE DEF T, a
    <3>2. \A i \in DOMAIN Append(T, a) :
            \/ Append(T, a)[i] = a
            \/ i \in DOMAIN T /\ Append(T, a)[i] = T[i]
      BY <3>1
    <3>3. \A i \in DOMAIN kills' :
            \/ kills'[i] = a
            \/ \E j \in DOMAIN kills : kills'[i] = kills[j]
      BY <2>1, <3>2, <1>3 DEF T, a
    <3> QED BY <2>2, <3>3 DEF Called, a
  <2> QED BY <1>2, <2>1, <2>3 DEF Serves, Told, Owns
<1>5. CASE ~(isActive[k.session] /\ k.attempts < maxAttempts)
  <2>1. kills' = Tail(kills) /\ Relay!Answer(k, ~isActive[k.session])
    BY <1>5 DEF Relay!KillTimer
  <2>2. Called(k.session)
    BY <2>1, <1>3 DEF Called
  <2> HIDE DEF k
  <2>3. Serves(k.session)
    BY <1>2, <2>1, <2>2, AnswerServes DEF Serves
  <2> QED BY <1>2, <2>3
<1> QED BY <1>4, <1>5

\* The end of a connection matters to a session only if it listens.
LEMMA LeavesServes ==
  ASSUME Relay!IInv, NEW s \in Sessions, Leaves(s)
  PROVE  \/ s \in listening /\ Serves(s)
         \/ UNCHANGED <<down, isActive, owner, kills, userSessions>>
<1>0. Relay!Calls
  BY DEF Relay!IInv
<1>1. CASE s \in listening
  BY <1>0, <1>1, KillServes DEF Leaves, Relay!Errored, Relay!Closed
<1>2. CASE s \notin listening
  BY <1>2 DEF Leaves, Relay!Errored, Relay!Closed, Relay!process
<1> QED BY <1>1, <1>2

-----------------------------------------------------------------------------
(* Connections *)

lines == <<awaiting, listening>>

\* What a step does to the connections, as both ends see them.
Idle == UNCHANGED <<ws, lines, dropped, connecting>>
Moves == PageMoves /\ UNCHANGED <<ws, lines, dropped>>
Breaks == /\ cur \in Sessions /\ dropped' = dropped \cup {cur}
          /\ UNCHANGED <<ws, lines, connecting>>
Restarts ==
  /\ ws' = [s \in Sessions |-> IF ws[s] = "none" THEN "none" ELSE "closed"]
  /\ awaiting' = {} /\ listening' = {}
  /\ dropped' = dropped \cup {s \in Sessions : ws[s] # "none"}
  /\ UNCHANGED connecting
Asks == /\ cur \in Sessions /\ ws[cur] = "none" /\ socket # "open"
        /\ ws' = [ws EXCEPT ![cur] = "opening"]
        /\ UNCHANGED <<lines, dropped, connecting>>
Accepted(s) == /\ ws[s] = "opening" /\ ws' = [ws EXCEPT ![s] = "open"]
               /\ awaiting' = awaiting \cup {s}
               /\ UNCHANGED <<listening, dropped, connecting>>
Rejected(s) == /\ ws[s] = "opening" /\ ws' = [ws EXCEPT ![s] = "closed"]
               /\ UNCHANGED <<lines, dropped, connecting>>
Joins(s) == /\ s \in awaiting
            /\ awaiting' = awaiting \ {s} /\ listening' = listening \cup {s}
            /\ UNCHANGED <<ws, dropped, connecting>>
Parts(s) == /\ ws[s] \in {"open", "closing"}
            /\ \E x \in {"closing", "closed"} : ws' = [ws EXCEPT ![s] = x]
            /\ \/ ~Works(s) \/ s < cur
               \/ socket \in {"closing", "aborting", "closed"}
            /\ UNCHANGED <<lines, dropped, connecting>>

LineMoves ==
  \/ Idle \/ Moves \/ Breaks \/ Restarts \/ Asks
  \/ \E s \in Sessions : Accepted(s) \/ Rejected(s) \/ Joins(s) \/ Parts(s)

\* Every step moves the connections in one of these ways.
LEMMA StepsLines ==
  ASSUME Types, Pages, Steps
  PROVE  LineMoves
<1> USE DEF LineMoves, lines, connecting
<1>1. CASE PageStep
  BY <1>1, PageMovesStep DEF Moves, relay
<1>2. CASE Drop
  BY <1>2
     DEF Drop, Breaks, relay, page, Types, Client!ClientTypeOK, Pages, Begun
<1>3. CASE Receive
  BY <1>3 DEF Receive, Client!handleSocketMessage, Client!connecting, Idle
<1>4. CASE Crash /\ Relay!AuthIpsFails
  BY <1>4 DEF Crash, Relay!AuthIpsFails, page, Restarts
<1>5. CASE KillTimer /\ Relay!KillTimer
  BY <1>5 DEF KillTimer, Relay!KillTimer, Relay!connection, page, Idle
<1>6. ASSUME NEW p \in Relay!Ptys, Process(p), Relay!Process(p) PROVE LineMoves
  <2>1. UNCHANGED <<page, dropped>>
    BY <1>6 DEF Process
  <2>2. UNCHANGED Relay!connection
    BY <1>6
       DEF Relay!Process, Relay!Output, Relay!Exits, Relay!onExit,
           Relay!TimeoutElapses
  <2> QED BY <2>1, <2>2 DEF page, Relay!connection, Idle
<1>7. ASSUME NEW s \in Sessions, Misses(s) \/ Hears(s) PROVE LineMoves
  <2>1. UNCHANGED <<dropped, connecting>>
    BY <1>7 DEF Misses, Hears, Deliver
  <2>2. UNCHANGED <<ws, lines>>
    BY <1>7
       DEF Misses, Hears, relay, Relay!Message, Relay!Command,
           Relay!CheckActive, Relay!Flow, Relay!connection
  <2> QED BY <2>1, <2>2 DEF Idle
<1>8. ASSUME Request, cur \in Sessions, Relay!Upgrade(cur) PROVE LineMoves
  BY <1>8 DEF Request, Relay!Upgrade, page, Asks
<1>9. ASSUME NEW s \in Sessions, Handshake(s), Arrives(s) PROVE LineMoves
  <2>1. UNCHANGED <<dropped, connecting>>
    BY <1>9 DEF Handshake, page
  <2>2. Relay!Verified(s) \/ Relay!Refused(s) \/ Relay!Authorised(s)
    BY <1>9, SameConnection DEF Handshake
  <2> QED BY <2>1, <2>2
             DEF Relay!Verified, Relay!Refused, Relay!Authorised, Accepted,
                 Rejected, Joins
<1>10. ASSUME NEW s \in Sessions, Ended(s), Leaves(s) PROVE LineMoves
  <2>1. UNCHANGED <<dropped, connecting>>
    BY <1>10 DEF Ended, page
  <2>2. ~Works(s) \/ s < cur \/ socket \in {"closing", "aborting", "closed"}
    BY <1>10 DEF Ended
  <2> QED BY <1>10, <2>1, <2>2 DEF Leaves, Relay!Errored, Relay!Closed, Parts
<1> QED BY <1>1, <1>2, <1>3, <1>4, <1>5, <1>6, <1>7, <1>8, <1>9, <1>10 DEF Steps

\* Both ends keep agreeing about the connections.
LEMMA LinesStep ==
  ASSUME Types, Pages, Lines, Steps
  PROVE  Lines'
<1>0. /\ ws \in [Sessions -> {"none", "opening", "open", "closing", "closed"}]
      /\ awaiting \subseteq Sessions /\ listening \subseteq Sessions
      /\ cur \in Nat /\ cur \in Sessions \cup {0} /\ Sessions \subseteq Nat
      /\ dropped \subseteq Sessions
  BY SessionRange DEF Types, Relay!IInv, Relay!Connections, Client!ClientTypeOK
<1>a. Begun /\ StateMatchesSocket
  BY DEF Pages
<1> USE DEF lines, connecting, Works
<1>1. Ahead'
  <2> SUFFICES ASSUME NEW s \in Sessions, s > cur'
               PROVE  ws'[s] = "none" /\ s \notin dropped'
    BY DEF Ahead
  <2>1. cur' \in Nat /\ cur' >= cur
    BY <1>0, StepsLines
       DEF LineMoves, Idle, Moves, PageMoves, Opens, Connects, Ends, Breaks,
           Restarts, Asks, Accepted, Rejected, Joins, Parts
  <2>2. s > cur /\ ws[s] = "none" /\ s \notin dropped
    <3>1. s \in Nat /\ s > cur
      BY <1>0, <2>1
    <3> QED BY <3>1 DEF Lines, Ahead
  <2>3. ws'[s] = "none"
    BY <1>0, <2>2, StepsLines
       DEF LineMoves, Idle, Moves, Breaks, Restarts, Asks, Accepted, Rejected,
           Joins, Parts
  <2>4. s \notin dropped'
    BY <1>0, <2>2, StepsLines
       DEF LineMoves, Idle, Moves, Breaks, Restarts, Asks, Accepted, Rejected,
           Joins, Parts
  <2> QED BY <2>3, <2>4
<1>2. Reached'
  <2> SUFFICES ASSUME NEW s \in awaiting' \cup listening'
               PROVE  ws'[s] \notin {"none", "opening"}
    BY DEF Reached
  <2>1. (s \in awaiting \cup listening => ws[s] \notin {"none", "opening"})
    BY DEF Lines, Reached
  <2> QED BY <1>0, <2>1, StepsLines
             DEF LineMoves, Idle, Moves, Breaks, Restarts, Asks, Accepted,
                 Rejected, Joins, Parts
<1>3. Alive'
  <2> SUFFICES ASSUME cur' # 0, cur' \notin dropped',
                      socket' \in {"connecting", "open"},
                      cur' \in awaiting' \cup listening' \/ socket' = "open"
               PROVE  ws'[cur'] = "open"
    BY DEF Alive, InTouch
  <2>1. \A s \in awaiting \cup listening : ws[s] \notin {"none", "opening"}
    BY DEF Lines, Reached
  <2>2. InTouch /\ (cur \in awaiting \cup listening \/ socket = "open")
          => ws[cur] = "open"
    BY DEF Lines, Alive
  <2>3. CASE Moves
    <3>1. CASE Opens
      BY <2>3, <3>1 DEF Moves, Opens
    <3>2. CASE Connects
      <4>1. ws[cur'] = "none"
        BY <1>0, <3>2 DEF Connects, Lines, Ahead
      <4> QED BY <2>1, <2>3, <3>2, <4>1 DEF Moves, Connects
    <3>3. CASE Ends
      BY <3>3 DEF Ends
    <3>4. CASE UNCHANGED connecting
      BY <2>2, <2>3, <3>4 DEF Moves, InTouch
    <3> QED BY <2>3, <3>1, <3>2, <3>3, <3>4 DEF Moves, PageMoves
  <2>4. CASE Idle \/ Breaks
    BY <2>2, <2>4 DEF Idle, Breaks, InTouch
  <2>5. CASE Restarts
    BY <1>0, <2>2, <2>5 DEF Restarts, InTouch
  <2>6. CASE Asks
    BY <1>0, <2>1, <2>2, <2>6 DEF Asks, InTouch
  <2>7. ASSUME NEW s \in Sessions, Accepted(s) PROVE ws'[cur'] = "open"
    BY <1>0, <2>1, <2>2, <2>7 DEF Accepted, InTouch
  <2>8. ASSUME NEW s \in Sessions, Rejected(s) PROVE ws'[cur'] = "open"
    BY <1>0, <2>1, <2>2, <2>8 DEF Rejected, InTouch
  <2>9. ASSUME NEW s \in Sessions, Joins(s) PROVE ws'[cur'] = "open"
    BY <1>0, <2>1, <2>2, <2>9 DEF Joins, InTouch
  <2>10. ASSUME NEW s \in Sessions, Parts(s) PROVE ws'[cur'] = "open"
    BY <1>0, <2>1, <2>2, <2>10 DEF Parts, InTouch
  <2> QED BY <2>3, <2>4, <2>5, <2>6, <2>7, <2>8, <2>9, <2>10, StepsLines
             DEF LineMoves
<1> QED BY <1>1, <1>2, <1>3 DEF Lines

\* A connection that is fresh always was.
LEMMA FreshBefore ==
  ASSUME Types, Pages, Lines, Steps, NEW s \in Sessions, Fresh(s)'
  PROVE  Fresh(s)
<1>1. s \in listening => ws[s] # "none"
  BY DEF Lines, Reached
<1> QED BY <1>1, StepsLines
           DEF LineMoves, Idle, Moves, Breaks, Restarts, Asks, Accepted,
               Rejected, Joins, Parts, Fresh, Works, lines

-----------------------------------------------------------------------------
(* What the page shows *)

told == <<down, isActive, userSessions, owner, kills>>

Looks == UNCHANGED told /\ PageMoves /\ (terminalActive' => terminalActive)
Serving == /\ \E t \in Sessions : ~Fresh(t) /\ Serves(t)
          /\ UNCHANGED <<connecting, terminalActive>>
Begins == /\ \E s \in Sessions : /\ userSessions' = userSessions \cup {s}
                                 /\ s \in listening'
          /\ UNCHANGED <<connecting, terminalActive, down, isActive, owner,
                         kills>>
Reads == /\ cur \in Sessions /\ down[cur] # <<>>
         /\ down' = [down EXCEPT ![cur] = Tail(@)]
         /\ terminalActive' = \/ Head(down[cur]) = "pty-ready"
                              \/ terminalActive /\ Head(down[cur]) \notin Over
         /\ UNCHANGED <<connecting, isActive, userSessions, owner, kills>>
Loses == /\ isActive' = [s \in Sessions |-> FALSE]
         /\ userSessions' = {} /\ kills' = <<>>
         /\ dropped' = dropped \cup {s \in Sessions : ws[s] # "none"}
         /\ UNCHANGED <<connecting, terminalActive, down, owner>>

Shows == Looks \/ Serving \/ Begins \/ Reads \/ Loses

\* Every step serves a session, or leaves the sessions as they are, in one of
\* these ways.
LEMMA StepsShow ==
  ASSUME Types, Pages, Lines, Quiet, Steps
  PROVE  Shows
<1> USE DEF Shows, told, connecting
<1>0. \A s \in Sessions : Fresh(s) =>
         /\ \A p \in Relay!Ptys : owner[p] # s
         /\ \A i \in DOMAIN kills : kills[i].session # s
  BY DEF Quiet
<1>r. Relay!IInv
  BY DEF Types
<1>1. CASE PageStep
  BY <1>1, PageMovesStep DEF Looks, relay
<1>2. CASE Drop
  BY <1>2 DEF Drop, Looks, relay, page, PageMoves
<1>3. CASE Receive
  BY <1>3
     DEF Receive, Client!handleSocketMessage, Client!connecting, Reads, Over,
         Types, Client!ClientTypeOK
<1>4. CASE Crash /\ Relay!AuthIpsFails
  BY <1>4 DEF Crash, Relay!AuthIpsFails, page, Loses
<1>5. CASE KillTimer /\ Relay!KillTimer
  <2>1. PICK i \in DOMAIN kills : /\ kills[i].session \in Sessions
                                  /\ Serves(kills[i].session)
    BY <1>5, <1>r, KillTimerServes
  <2>2. ~Fresh(kills[i].session)
    BY <1>0, <2>1
  <2>3. UNCHANGED page
    BY <1>5 DEF KillTimer
  <2> QED BY <2>1, <2>2, <2>3 DEF Serving, page
<1>6. ASSUME NEW p \in Relay!Ptys, Process(p), Relay!Process(p) PROVE Shows
  <2>1. owner[p] \in Sessions /\ Serves(owner[p])
    BY <1>6, <1>r, ProcessServes
  <2>2. ~Fresh(owner[p])
    BY <1>0, <2>1
  <2>3. UNCHANGED page
    BY <1>6 DEF Process
  <2> QED BY <2>1, <2>2, <2>3 DEF Serving, page
<1>7. ASSUME NEW s \in Sessions, Hears(s) PROVE Shows
  <2>1. Serves(s) /\ s \in listening
    BY <1>7, <1>r, MessageServes DEF Hears
  <2>2. UNCHANGED <<connecting, terminalActive>>
    BY <1>7 DEF Hears, Deliver
  <2> QED BY <2>1, <2>2 DEF Serving, Fresh
<1>8. ASSUME NEW s \in Sessions, Misses(s) PROVE Shows
  BY <1>8 DEF Misses, Deliver, relay, Looks, PageMoves
<1>9. ASSUME Request, Relay!Upgrade(cur) PROVE Shows
  BY <1>9 DEF Request, Relay!Upgrade, Relay!process, page, Looks, PageMoves
<1>10. ASSUME NEW s \in Sessions, Handshake(s), Arrives(s) PROVE Shows
  <2>1. UNCHANGED <<connecting, terminalActive>>
    BY <1>10 DEF Handshake, page
  <2>2. CASE Relay!Authorised(s)
    BY <2>1, <2>2 DEF Relay!Authorised, Relay!process, Begins
  <2>3. CASE Relay!Verified(s) \/ Relay!Refused(s)
    BY <2>1, <2>3
       DEF Relay!Verified, Relay!Refused, Relay!process, Looks, PageMoves
  <2> QED BY <1>10, <2>2, <2>3, SameConnection DEF Handshake
<1>11. ASSUME NEW s \in Sessions, Ended(s), Leaves(s) PROVE Shows
  <2>1. UNCHANGED <<connecting, terminalActive>>
    BY <1>11 DEF Ended, page
  <2>2. \/ s \in listening /\ Serves(s)
        \/ UNCHANGED <<down, isActive, owner, kills, userSessions>>
    BY <1>11, <1>r, LeavesServes
  <2> QED BY <2>1, <2>2 DEF Serving, Fresh, Looks, PageMoves
<1> QED BY <1>1, <1>2, <1>3, <1>4, <1>5, <1>6, <1>7, <1>8, <1>9, <1>10, <1>11
           DEF Steps

\* Nothing is done for a session that nobody has got.
LEMMA QuietStep ==
  ASSUME Types, Pages, Lines, Quiet, Steps
  PROVE  Quiet'
<1> SUFFICES ASSUME NEW s \in Sessions, Fresh(s)'
             PROVE  /\ down'[s] = <<>> /\ ~isActive'[s]
                    /\ s \notin userSessions'
                    /\ \A p \in Relay!Ptys : owner'[p] # s
                    /\ \A i \in DOMAIN kills' : kills'[i].session # s
  BY DEF Quiet, Relay!Ptys
<1>1. Fresh(s)
  BY FreshBefore
<1>2. /\ down[s] = <<>> /\ ~isActive[s] /\ s \notin userSessions
      /\ \A p \in Relay!Ptys : owner[p] # s
      /\ \A i \in DOMAIN kills : kills[i].session # s
  BY <1>1 DEF Quiet
<1>3. Shows
  BY StepsShow
<1>4. CASE Looks
  BY <1>2, <1>4 DEF Looks, told
<1>5. CASE Serving
  <2>1. PICK t \in Sessions : ~Fresh(t) /\ Serves(t)
    BY <1>5 DEF Serving
  <2>2. t # s
    BY <1>1, <2>1
  <2>3. down'[s] = down[s] /\ isActive'[s] = isActive[s]
    <3>1. /\ down \in [Sessions -> Seq(Relay!Replies)]
          /\ isActive \in [Sessions -> BOOLEAN]
      BY DEF Types, Relay!IInv, Relay!Calls, Relay!Processes
    <3> QED BY <2>1, <2>2, <3>1 DEF Serves, Told, Relay!Send
  <2>4. \A p \in Relay!Ptys : owner'[p] # s
    <3>1. owner \in [Relay!Ptys -> Sessions \cup {NoSession}]
      BY DEF Types, Relay!IInv, Relay!Processes
    <3> QED BY <1>2, <2>1, <2>2, <3>1 DEF Serves, Owns
  <2>5. \A i \in DOMAIN kills' : kills'[i].session # s
    BY <1>2, <2>1, <2>2 DEF Serves, Called
  <2> QED BY <1>2, <2>1, <2>3, <2>4, <2>5 DEF Serves
<1>6. CASE Begins
  BY <1>2, <1>6 DEF Begins, Fresh
<1>7. CASE Reads
  <2>1. down \in [Sessions -> Seq(Relay!Replies)]
    BY DEF Types, Relay!IInv, Relay!Calls
  <2> QED BY <1>2, <1>7, <2>1 DEF Reads
<1>8. CASE Loses
  BY <1>2, <1>8 DEF Loses
<1> QED BY <1>3, <1>4, <1>5, <1>6, <1>7, <1>8 DEF Shows

\* A new message has the last word if it is one about a terminal.
LEMMA LastOfAppend ==
  ASSUME NEW d \in Seq(Relay!Replies), NEW m \in Relay!Replies,
         NEW shown \in BOOLEAN,
         LastReady(Append(d, m), shown)
  PROVE  m = "pty-ready" \/ (m \notin Over /\ LastReady(d, shown))
<1> DEFINE e == Append(d, m)
<1>1. /\ Len(d) \in Nat /\ DOMAIN d = 1..Len(d)
      /\ DOMAIN e = 1..(Len(d) + 1) /\ e[Len(d) + 1] = m
      /\ \A i \in DOMAIN d : e[i] = d[i]
  OBVIOUS
<1> HIDE DEF e
<1>2. LastReady(e, shown)
  BY DEF e
<1>3. CASE shown /\ \A j \in DOMAIN e : e[j] \notin Over
  BY <1>1, <1>3 DEF LastReady
<1>4. ASSUME NEW i \in DOMAIN e, e[i] = "pty-ready",
             \A j \in DOMAIN e : j > i => e[j] \notin Over, m # "pty-ready"
      PROVE  m \notin Over /\ LastReady(d, shown)
  <2>1. i \in 1..Len(d) /\ Len(d) + 1 > i
    BY <1>1, <1>4
  <2> QED BY <1>1, <1>4, <2>1 DEF LastReady
<1> QED BY <1>2, <1>3, <1>4 DEF LastReady

\* Reading a message does not change what the page will show in the end.
LEMMA LastOfTail ==
  ASSUME NEW d \in Seq(Relay!Replies), d # <<>>, NEW shown \in BOOLEAN,
         LastReady(Tail(d),
                   Head(d) = "pty-ready" \/ (shown /\ Head(d) \notin Over))
  PROVE  LastReady(d, shown)
<1> DEFINE e == Tail(d)
           now == Head(d) = "pty-ready" \/ (shown /\ Head(d) \notin Over)
<1>1. /\ Len(d) \in Nat \ {0}
      /\ DOMAIN d = 1..Len(d) /\ DOMAIN e = 1..(Len(d) - 1)
      /\ \A i \in 1..(Len(d) - 1) : e[i] = d[i + 1]
      /\ Head(d) = d[1]
  OBVIOUS
<1>2. \A j \in DOMAIN d : j = 1 \/ (j - 1 \in DOMAIN e /\ e[j - 1] = d[j])
  BY <1>1
<1> HIDE DEF e
<1>3. LastReady(e, now)
  BY DEF e
<1>4. CASE now /\ \A j \in DOMAIN e : e[j] \notin Over
  <2>1. \A j \in DOMAIN d : j # 1 => d[j] \notin Over
    BY <1>2, <1>4
  <2>2. CASE d[1] = "pty-ready"
    BY <1>1, <2>1, <2>2 DEF LastReady
  <2>3. CASE shown /\ d[1] \notin Over
    BY <2>1, <2>3 DEF LastReady
  <2> QED BY <1>1, <1>4, <2>2, <2>3
<1>5. ASSUME NEW i \in DOMAIN e, e[i] = "pty-ready",
             \A j \in DOMAIN e : j > i => e[j] \notin Over
      PROVE  LastReady(d, shown)
  <2>1. i + 1 \in DOMAIN d /\ d[i + 1] = "pty-ready"
    BY <1>1, <1>5
  <2>2. \A j \in DOMAIN d : j > i + 1 => d[j] \notin Over
    BY <1>1, <1>2, <1>5
  <2> QED BY <2>1, <2>2 DEF LastReady
<1> QED BY <1>3, <1>4, <1>5 DEF LastReady

\* What the page will show is there: the flag changes only with a message that
\* says so, in order, on a socket that is open.
LEMMA ScreenStep ==
  ASSUME Types, Pages, Lines, Quiet, Screen, Steps
  PROVE  Screen'
<1>0. /\ Sessions \subseteq Nat /\ cur \in Nat /\ cur \in Sessions \cup {0}
      /\ terminalActive \in BOOLEAN
      /\ down \in [Sessions -> Seq(Relay!Replies)]
      /\ isActive \in [Sessions -> BOOLEAN]
  BY SessionRange
     DEF Types, Relay!IInv, Relay!Calls, Relay!Processes, Client!ClientTypeOK
<1>1. cur \in Nat /\ \A s \in 1..cur : s \in Sessions
  BY SessionRange, <1>0
<1>2. Shows
  BY StepsShow
<1>3. dropped \subseteq dropped'
  BY StepsLines
     DEF LineMoves, Idle, Moves, Breaks, Restarts, Asks, Accepted, Rejected,
         Joins, Parts
<1>4. \A s \in Sessions : Fresh(s)' => Fresh(s)
  BY FreshBefore
<1>5. cur' \in Nat /\ cur' >= cur
  BY <1>0, StepsLines
     DEF LineMoves, Idle, Moves, PageMoves, Opens, Connects, Ends, Breaks,
         Restarts, Asks, Accepted, Rejected, Joins, Parts, connecting
<1>6. (\A s \in 1..cur' : Fresh(s)') => \A s \in 1..cur : Fresh(s)
  BY <1>1, <1>4, <1>5
<1>7. \A s \in Sessions : Fresh(s) => down[s] = <<>>
  BY DEF Quiet
<1>8. Blank'
  <2> SUFFICES ASSUME \A s \in 1..cur' : Fresh(s)' PROVE ~terminalActive'
    BY DEF Blank
  <2>1. ~terminalActive /\ \A s \in 1..cur : Fresh(s)
    BY <1>6 DEF Screen, Blank
  <2>2. ~Reads
    <3>1. Reads => cur \in 1..cur
      BY <1>0 DEF Reads, SessionRange
    <3> QED BY <1>7, <2>1, <3>1 DEF Reads
  <2> QED BY <1>2, <2>1, <2>2 DEF Shows, Looks, Serving, Begins, Loses
<1>9. View'
  <2> SUFFICES ASSUME InTouch', \A s \in 1..(cur' - 1) : Fresh(s)',
                      LastReady(down'[cur'], terminalActive')
               PROVE  isActive'[cur']
    BY DEF View
  <2>1. ASSUME cur' = cur, InTouch,
               LastReady(down[cur], terminalActive)
        PROVE  isActive[cur]
    <3>1. \A s \in 1..(cur - 1) : Fresh(s)
      BY <1>1, <1>4, <2>1
    <3> QED BY <2>1, <3>1 DEF Screen, View
  <2>2. CASE Looks /\ UNCHANGED connecting
    BY <1>3, <2>1, <2>2 DEF Looks, connecting, InTouch, Works, told, LastReady
  <2>3. CASE Looks /\ Opens
    BY <1>3, <2>1, <2>3 DEF Looks, Opens, InTouch, Works, told, LastReady
  <2>4. CASE Looks /\ Connects
    <3>1. cur' = cur + 1 /\ cur + 1 \in Sessions
      BY <2>4 DEF Connects
    <3>2. \A s \in 1..cur : Fresh(s)
      BY <1>0, <1>1, <1>4, <3>1
    <3>3. ~terminalActive
      BY <3>2 DEF Screen, Blank
    <3>4. Fresh(cur + 1)
      <4>1. ws[cur + 1] = "none" /\ Works(cur + 1)
        BY <1>0, <3>1 DEF Lines, Ahead
      <4> QED BY <4>1 DEF Lines, Reached, Fresh
    <3>5. down'[cur'] = <<>> /\ ~terminalActive'
      BY <1>7, <2>4, <3>1, <3>3, <3>4 DEF Looks, told
    <3> QED BY <3>5 DEF LastReady
  <2>5. CASE Looks /\ Ends
    BY <2>5 DEF Ends, InTouch
  <2>6. CASE Serving
    <3>1. cur' = cur /\ InTouch /\ terminalActive' = terminalActive
      BY <1>3, <2>6 DEF Serving, connecting, InTouch, Works
    <3>2. PICK t \in Sessions : ~Fresh(t) /\ Serves(t)
      BY <2>6 DEF Serving
    <3>3. cur \in Sessions
      BY <1>0, <3>1 DEF InTouch
    <3>4. CASE t # cur
      BY <1>0, <2>1, <3>1, <3>2, <3>3, <3>4 DEF Serves, Told, Relay!Send
    <3>5. CASE t = cur
      <4>1. ws[cur] = "open"
        BY <3>1, <3>2, <3>5 DEF Lines, Alive, Fresh, InTouch
      <4>2. CASE UNCHANGED <<down, isActive>>
        BY <2>1, <3>1, <4>2
      <4>3. ASSUME NEW m \in Relay!Replies, Relay!Send(cur, m),
                   isActive' =
                     CASE m = "pty-ready" -> [isActive EXCEPT ![cur] = TRUE]
                       [] m = "pty-exited" -> [isActive EXCEPT ![cur] = FALSE]
                       [] OTHER -> isActive
            PROVE  isActive'[cur']
        <5>1. down'[cur] = Append(down[cur], m)
          BY <1>0, <3>3, <4>1, <4>3 DEF Relay!Send
        <5>2. down[cur] \in Seq(Relay!Replies)
          BY <1>0, <3>3
        <5>3. \/ m = "pty-ready"
              \/ m \notin Over /\ LastReady(down[cur], terminalActive)
          BY <1>0, <3>1, <5>1, <5>2, LastOfAppend
        <5>4. CASE m = "pty-ready"
          BY <1>0, <3>1, <3>3, <4>3, <5>4
        <5>5. CASE /\ m # "pty-ready" /\ m \notin Over
                   /\ LastReady(down[cur], terminalActive)
          <6>1. isActive[cur]
            BY <2>1, <3>1, <5>5
          <6>2. isActive' = isActive
            BY <4>3, <5>5 DEF Over
          <6> QED BY <3>1, <6>1, <6>2
        <5> QED BY <5>3, <5>4, <5>5
      <4> QED BY <3>2, <3>5, <4>2, <4>3 DEF Serves, Told
    <3> QED BY <3>4, <3>5
  <2>7. CASE Begins
    BY <1>3, <2>1, <2>7 DEF Begins, connecting, InTouch, Works
  <2>8. CASE Reads
    <3>1. cur' = cur /\ InTouch
      BY <1>3, <2>8 DEF Reads, connecting, InTouch, Works
    <3>2. /\ down[cur] \in Seq(Relay!Replies) /\ down[cur] # <<>>
          /\ down'[cur] = Tail(down[cur])
      BY <1>0, <2>8 DEF Reads
    <3>3. terminalActive' =
            (Head(down[cur]) = "pty-ready"
               \/ (terminalActive /\ Head(down[cur]) \notin Over))
      BY <2>8 DEF Reads
    <3>4. LastReady(down[cur], terminalActive)
      BY <1>0, <3>1, <3>2, <3>3, LastOfTail
    <3> QED BY <2>1, <2>8, <3>1, <3>4 DEF Reads
  <2>9. CASE Loses
    <3>1. cur' = cur /\ InTouch /\ cur \notin dropped' /\ cur \in Sessions
      BY <1>0, <1>3, <2>9 DEF Loses, connecting, InTouch, Works
    <3>2. ws[cur] = "none"
      BY <2>9, <3>1 DEF Loses
    <3>3. Fresh(cur)
      BY <3>1, <3>2 DEF InTouch, Fresh, Lines, Reached
    <3>4. \A s \in 1..cur : Fresh(s)
      <4>1. \A s \in 1..cur : s = cur \/ s \in 1..(cur - 1)
        BY <1>0
      <4> QED BY <1>1, <1>4, <3>1, <3>3, <4>1
    <3>5. ~terminalActive
      BY <3>4 DEF Screen, Blank
    <3>6. down'[cur'] = <<>> /\ ~terminalActive'
      BY <1>7, <2>9, <3>1, <3>3, <3>5 DEF Loses
    <3> QED BY <3>6 DEF LastReady
  <2> QED BY <1>2, <2>2, <2>3, <2>4, <2>5, <2>6, <2>7, <2>8, <2>9
             DEF Shows, Looks, PageMoves
<1> QED BY <1>8, <1>9 DEF Screen

-----------------------------------------------------------------------------
(* Theorems *)

\* Before the first connection there is nothing.
LEMMA InitIInv == Init => IInv
<1> SUFFICES ASSUME Init PROVE IInv
  OBVIOUS
<1> USE DEF Init
<1>1. Relay!IInv
  <2>1. Relay!Init
    BY DEF Server!Init, Relay!Init, Server!Ptys, Relay!Ptys, Server!NoPty,
       Relay!NoPty
  <2> QED BY <2>1, TheAssumption, Relay!InitIInv
             DEF Relay!TerminalAssumption, Relay!Bounded
<1>2. Bounds
  <2>1. left \in Budgets
    BY DEF Server!Init
  <2>2. left \in [DOMAIN left -> Nat]
    BY <2>1, TheAssumption DEF Relay!TerminalAssumption
  <2> QED BY <2>1, <2>2, LimitAssumption DEF Bounds
<1>3. PageTyped /\ cur \in Sessions \cup {0}
  <2>1. up \in [Sessions -> Seq({"command", "force", "pause", "resume"})]
    BY DEF Client!ClientInit
  <2> QED BY <2>1 DEF Client!ClientInit, PageTyped, Client!Timers
<1>4. Types
  BY <1>1, <1>2, <1>3, PageTypes DEF Types
<1>5. Pages
  BY DEF Client!ClientInit, Pages, Begun, StateMatchesSocket, Heartbeat
<1>6. Lines
  <2>1. Ahead
    BY DEF Server!Init, Ahead, Works
  <2>2. Reached
    BY DEF Server!Init, Reached
  <2>3. Alive
    BY DEF Client!ClientInit, Alive, InTouch
  <2> QED BY <2>1, <2>2, <2>3 DEF Lines
<1>7. Quiet
  BY TheAssumption
     DEF Relay!TerminalAssumption, Server!Init, Quiet, Server!Ptys, Relay!Ptys
<1>8. Screen
  BY DEF Client!ClientInit, Screen, Blank, View, InTouch
<1> QED BY <1>4, <1>5, <1>6, <1>7, <1>8 DEF IInv

\* Every step keeps the invariant.
LEMMA StepIInv == IInv /\ [Next]_vars => IInv'
<1> SUFFICES ASSUME IInv, [Next]_vars PROVE IInv'
  OBVIOUS
<1>0. Types /\ Pages /\ Lines /\ Quiet /\ Screen
  BY DEF IInv
<1>1. CASE Next
  <2>1. Steps
    BY <1>0, <1>1, StepsNext
  <2>2. Pages'
    BY <1>0, <2>1, PagesStep
  <2> QED BY <1>0, <2>1, <2>2, TypesStep, LinesStep, QuietStep, ScreenStep
             DEF IInv
<1>2. CASE UNCHANGED vars
  <2>1. UNCHANGED <<relay, dropped, left>>
    BY <1>2 DEF vars
  <2>2. UNCHANGED <<cur, socket, connectionState, reconnectAttempts, timers,
                    stray, heartbeatMissed, terminalActive, pendingWrites,
                    paused, unwritten, cleaned, up>>
    BY <1>2 DEF vars, page
  <2>3. Relay!IInv'
    BY <1>0, <2>1, RelayUntouched DEF Spends
  <2>4. Client!ClientTypeOK' /\ Bounds' /\ dropped' \subseteq Sessions
    BY <1>0, <2>1, <2>2 DEF Types, Client!ClientTypeOK, Bounds
  <2>5. Pages'
    BY <1>0, <2>2 DEF Pages, Begun, StateMatchesSocket, Heartbeat
  <2>6. Lines'
    BY <1>0, <2>1, <2>2 DEF Lines, Ahead, Reached, Alive, InTouch, Works, relay
  <2>7. Quiet'
    BY <1>0, <2>1 DEF Quiet, Fresh, Works, relay, Relay!Ptys
  <2>8. Screen'
    BY <1>0, <2>1, <2>2
       DEF Screen, Blank, View, Fresh, InTouch, Works, LastReady, relay
  <2> QED BY <2>3, <2>4, <2>5, <2>6, <2>7, <2>8 DEF IInv, Types
<1> QED BY <1>1, <1>2

\* Page, relay and network keep their types; no connection is opened beyond the
\* bound, and the ones that break are among those.
THEOREM TypeCorrect == Spec => []TypeOK
<1>1. IInv => TypeOK
  <2> SUFFICES ASSUME IInv
               PROVE  /\ Server!TypeOK /\ Client!ClientTypeOK
                      /\ dropped \subseteq Sessions
    BY DEF TypeOK
  <2>1. Server!TypeOK
    BY DEF IInv, Types, Relay!IInv, Relay!Processes, Relay!Calls,
       Relay!Connections, Relay!Rest, Server!TypeOK, Server!Ptys, Relay!Ptys,
       Server!NoPty, Relay!NoPty, Server!Kill, Relay!Kill, Server!Replies,
       Relay!Replies, Server!Bounded, Relay!Bounded
  <2> QED BY <2>1 DEF IInv, Types
<1> QED BY <1>1, InitIInv, StepIInv, PTL DEF Spec

\* The page takes itself for connected exactly while its socket is open, however
\* many timers of earlier attempts are left and whichever way those ended.
THEOREM StateIsSocket == Spec => []StateMatchesSocket
<1>1. IInv => StateMatchesSocket
  BY DEF IInv, Pages
<1> QED BY <1>1, InitIInv, StepIInv, PTL DEF Spec

\* With all read that the relay sent, on the first connection that got a
\* session, the page shows a terminal only while the relay takes one for active,
\* whatever commands, kills, timeouts and exits there were.
THEOREM TerminalIsShown == Spec => []ShowsTerminal
<1>1. IInv => ShowsTerminal
  <2> SUFFICES ASSUME IInv, socket = "open", Works(cur), down[cur] = <<>>,
                      \A s \in 1..(cur - 1) : Works(s) /\ s \notin listening,
                      terminalActive
               PROVE  isActive[cur]
    BY DEF ShowsTerminal
  <2>1. InTouch
    BY DEF IInv, Pages, Begun, InTouch
  <2>2. LastReady(down[cur], terminalActive)
    BY DEF LastReady
  <2> QED BY <2>1, <2>2 DEF IInv, Screen, View, Fresh
<1> QED BY <1>1, InitIInv, StepIInv, PTL DEF Spec

===============================================================================
