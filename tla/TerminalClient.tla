--------------------------- MODULE TerminalClient ---------------------------
(***************************************************************************)
(* The browser's half of a terminal (resources/js/terminal.js): one        *)
(* websocket at a time, the timers that connect it, give up on it and      *)
(* reconnect it, and the flow control of what it writes to xterm.          *)
(*                                                                         *)
(* A step is one browser task: a timer, an event of the socket (an error   *)
(* is followed by the close event in the same task), a message, xterm's    *)
(* callback for a write, or an event of the page.  Timers carry no time:   *)
(* one that is armed may fire.  Left out is what cannot happen: the first  *)
(* initializeWebSocket, 100 ms after init, clears the 30 s interval of     *)
(* keepAlive for good, so nothing is ever pinged, and no pong comes.       *)
(***************************************************************************)
EXTENDS Naturals, Sequences

CONSTANTS
  Sessions,             \* 1..n: the websockets the page ever opens (bound)
  maxReconnectAttempts,
  maxHeartbeatMisses,
  MAX_PENDING_WRITES

VARIABLES
  cur,                  \* the latest websocket, 0 before the first
  socket,               \* its readyState; "closing" after close() on an open
                        \* one, "aborting" after close() on a connecting one
  connectionState,
  reconnectAttempts,
  timers,               \* timers that are armed and whose handle is kept
  stray,                \* reconnect timers that are armed, handle overwritten
  heartbeatMissed,
  terminalActive,       \* the page shows the terminal
  pendingWrites,
  paused,              \* the relay was told to stop reading
  unwritten,            \* writes whose callback xterm has not called
  cleaned,              \* the page has been left
  up,                   \* websocket -> messages to the relay
  left                  \* bounds: commands still to ask for, pages still to
                        \* leave; websockets in all

connecting == <<cur, socket>>
display    == <<terminalActive, pendingWrites, paused, unwritten>>
clientVars == <<cur, socket, connectionState, reconnectAttempts, timers, stray,
                heartbeatMissed, terminalActive, pendingWrites, paused,
                unwritten, cleaned, up, left>>

Timers == {"start", "reconnect", "connection", "ping"}

ClientTypeOK ==
  /\ cur \in Sessions \cup {0}
  /\ socket \in {"none", "connecting", "open", "closing", "aborting", "closed"}
  /\ connectionState \in {"disconnected", "connecting", "connected",
                          "reconnecting"}
  /\ reconnectAttempts \in Nat
  /\ timers \subseteq Timers
  /\ stray \in Nat
  /\ heartbeatMissed \in Nat
  /\ terminalActive \in BOOLEAN
  /\ pendingWrites \in Nat /\ unwritten \in Nat
  /\ paused \in BOOLEAN
  /\ cleaned \in BOOLEAN
  /\ left["send"] \in Nat /\ left["leave"] \in Nat
  /\ left["socket"] \in Sessions
  /\ up \in [Sessions -> Seq({"command", "force", "pause", "resume"})]

\* init(): the first connection after 100 ms.
ClientInit ==
  /\ cur = 0
  /\ socket = "none"
  /\ connectionState = "disconnected"
  /\ reconnectAttempts = 0
  /\ timers = {"start"}
  /\ stray = 0
  /\ heartbeatMissed = 0
  /\ terminalActive = FALSE
  /\ pendingWrites = 0 /\ unwritten = 0
  /\ paused = FALSE
  /\ cleaned = FALSE
  /\ up = [s \in Sessions |-> <<>>]

-----------------------------------------------------------------------------
(* Helpers *)

\* clearAllTimers knows the handles; "start" has none.
Cleared(T) == T \cap {"start"}

sendMessage(m) ==
  up' = IF socket = "open" THEN [up EXCEPT ![cur] = Append(@, m)] ELSE up

isWebSocketReady == connectionState = "connected" /\ socket = "open"

\* initializeWebSocket, with the timers left by the task that calls it.
initializeWebSocket(T) ==
  IF socket \in {"none", "closed"}
  THEN /\ cur < left["socket"]
       /\ cur' = cur + 1
       /\ socket' = "connecting"
       /\ connectionState' = "connecting"
       /\ timers' = Cleared(T) \cup {"connection"}
  ELSE timers' = T /\ UNCHANGED <<cur, socket, connectionState>>

\* What scheduleReconnect leaves of the timers and of the state, given those
\* it finds.  It keeps one handle: a timer it names already is lost, not
\* cleared.
Rescheduled(T) == IF reconnectAttempts < maxReconnectAttempts
                  THEN T \cup {"reconnect"} ELSE T
StateThen == IF reconnectAttempts < maxReconnectAttempts
             THEN "reconnecting" ELSE "disconnected"
Lost(T) == IF reconnectAttempts < maxReconnectAttempts /\ "reconnect" \in T
           THEN 1 ELSE 0

-----------------------------------------------------------------------------
(* Timers *)

Start ==
  /\ "start" \in timers
  /\ initializeWebSocket(timers \ {"start"})
  /\ UNCHANGED <<reconnectAttempts, stray, heartbeatMissed, display, cleaned,
                 left, up>>

\* The timer of scheduleReconnect: the one the handle names, or a stray one.
Reconnect ==
  /\ \/ "reconnect" \in timers /\ UNCHANGED stray
        /\ initializeWebSocket(timers \ {"reconnect"})
     \/ stray > 0 /\ stray' = stray - 1
        /\ initializeWebSocket(timers)
  /\ reconnectAttempts' = reconnectAttempts + 1
  /\ UNCHANGED <<heartbeatMissed, display, cleaned, left, up>>

ConnectionTimeout ==
  /\ "connection" \in timers
  /\ LET T == timers \ {"connection"} IN
     IF connectionState = "connecting"
     THEN /\ socket' = "aborting"
          /\ connectionState' = StateThen
          /\ timers' = Rescheduled(T)
          /\ stray' = stray + Lost(T)
     ELSE timers' = T /\ UNCHANGED <<socket, connectionState, stray>>
  /\ UNCHANGED <<cur, reconnectAttempts, heartbeatMissed, display, cleaned,
                 left, up>>

\* Mutation: the timer is armed again.
PingRearmed ==
  /\ "ping" \in timers
  /\ heartbeatMissed' = heartbeatMissed + 1
  /\ socket' = IF heartbeatMissed' >= maxHeartbeatMisses THEN "closing"
               ELSE socket
  /\ UNCHANGED <<cur, connectionState, reconnectAttempts, timers, stray, display,
                 cleaned, left, up>>

\* Only an open socket has this timer.  It is not armed again here.
PingTimeout ==
  /\ "ping" \in timers
  /\ timers' = timers \ {"ping"}
  /\ heartbeatMissed' = heartbeatMissed + 1
  /\ socket' = IF heartbeatMissed' >= maxHeartbeatMisses THEN "closing"
               ELSE socket
  /\ UNCHANGED <<cur, connectionState, reconnectAttempts, stray, display,
                 cleaned, left, up>>

-----------------------------------------------------------------------------
(* Events of the socket *)

handleSocketOpen ==
  /\ socket = "connecting"
  /\ socket' = "open"
  /\ connectionState' = "connected"
  /\ reconnectAttempts' = 0
  /\ heartbeatMissed' = 0
  /\ timers' = (timers \ {"connection"}) \cup {"ping"}
  /\ UNCHANGED <<cur, stray, display, cleaned, left, up>>

\* Mutation: the reconnect is scheduled before the timers are cleared.
CloseThenClear(failed, clean) ==
  /\ socket \in {"connecting", "open", "closing", "aborting"}
  /\ socket' = "closed"
  /\ stray' = IF failed THEN stray + Lost(timers) ELSE stray
  /\ timers' = Cleared(timers)
  /\ connectionState' = IF clean THEN "disconnected" ELSE StateThen
  /\ IF ~clean /\ reconnectAttempts > 0
     THEN terminalActive' = FALSE /\ pendingWrites' = 0 /\ paused' = FALSE
     ELSE UNCHANGED <<terminalActive, pendingWrites, paused>>
  /\ UNCHANGED <<cur, reconnectAttempts, heartbeatMissed, unwritten, cleaned,
                 left, up>>

\* The end of the websocket: an error event if it failed, then the close event
\* with its code.  The error's handler schedules a reconnect, the close's
\* clears what has a handle and, unless the close was clean, schedules again.
handleSocketClose(failed, clean) ==
  /\ socket \in {"connecting", "open", "closing", "aborting"}
  /\ socket' = "closed"
  /\ stray' = IF failed THEN stray + Lost(timers) ELSE stray
  /\ timers' = IF clean THEN Cleared(timers) ELSE Rescheduled(Cleared(timers))
  /\ connectionState' = IF clean THEN "disconnected" ELSE StateThen
  /\ IF ~clean /\ reconnectAttempts > 0
     THEN /\ terminalActive' = FALSE      \* with resetTerminal
          /\ pendingWrites' = 0
          /\ paused' = FALSE
     ELSE UNCHANGED <<terminalActive, pendingWrites, paused>>
  /\ UNCHANGED <<cur, reconnectAttempts, heartbeatMissed, unwritten, cleaned,
                 left, up>>

\* Mutation: the end of the terminal is overlooked.
ExitUnseen(m) ==
  /\ socket = "open"
  /\ terminalActive' = (m = "pty-ready" \/ (terminalActive /\ m # "unprocessable"))
  /\ IF m \in {"pty-ready", "unprocessable", "pty-exited"}
     THEN UNCHANGED <<pendingWrites, unwritten>>
     ELSE pendingWrites' = pendingWrites + 1 /\ unwritten' = unwritten + 1
  /\ UNCHANGED <<connecting, connectionState, reconnectAttempts, timers, stray,
                 heartbeatMissed, paused, cleaned, left, up>>

\* What is no word of the protocol is written to xterm.
handleSocketMessage(m) ==
  /\ socket = "open"
  /\ terminalActive' = \/ m = "pty-ready"
                       \/ /\ terminalActive
                          /\ m \notin {"unprocessable", "pty-exited"}
  /\ IF m \in {"pty-ready", "unprocessable", "pty-exited"}
     THEN UNCHANGED <<pendingWrites, unwritten>>
     ELSE pendingWrites' = pendingWrites + 1 /\ unwritten' = unwritten + 1
  /\ UNCHANGED <<connecting, connectionState, reconnectAttempts, timers, stray,
                 heartbeatMissed, paused, cleaned, left, up>>

-----------------------------------------------------------------------------
(* xterm and the page *)

\* Mutations: the relay is paused and never resumed; the counter goes below 0.
PauseOnly ==
  /\ unwritten > 0
  /\ unwritten' = unwritten - 1
  /\ pendingWrites' = IF pendingWrites > 0 THEN pendingWrites - 1 ELSE 0
  /\ paused' = (paused \/ pendingWrites' > MAX_PENDING_WRITES)
  /\ IF paused' /\ ~paused THEN sendMessage("pause") ELSE UNCHANGED up
  /\ UNCHANGED <<connecting, connectionState, reconnectAttempts, timers, stray,
                 heartbeatMissed, terminalActive, cleaned, left>>

CountBelowZero ==
  /\ unwritten > 0
  /\ unwritten' = unwritten - 1
  /\ pendingWrites' = pendingWrites - 1
  /\ UNCHANGED <<connecting, connectionState, reconnectAttempts, timers, stray,
                 heartbeatMissed, terminalActive, paused, cleaned, left, up>>

\* xterm has parsed one write and calls flowControlCallback.
flowControlCallback ==
  /\ unwritten > 0
  /\ unwritten' = unwritten - 1
  /\ LET n == IF pendingWrites > 0 THEN pendingWrites - 1 ELSE 0 IN
     /\ pendingWrites' = n
     /\ IF n > MAX_PENDING_WRITES /\ ~paused
        THEN paused' = TRUE /\ sendMessage("pause")
        ELSE IF n <= MAX_PENDING_WRITES \div 2 /\ paused
        THEN paused' = FALSE /\ sendMessage("resume")
        ELSE UNCHANGED <<paused, up>>
  /\ UNCHANGED <<connecting, connectionState, reconnectAttempts, timers, stray,
                 heartbeatMissed, terminalActive, cleaned, left>>

\* send-back-command: Livewire has made the ssh command the user asked for.
sendCommandWhenReady ==
  /\ left["send"] > 0 /\ left' = [left EXCEPT !["send"] = @ - 1]
  /\ IF isWebSocketReady THEN sendMessage("command") ELSE UNCHANGED up
  /\ UNCHANGED <<connecting, connectionState, reconnectAttempts, timers, stray,
                 heartbeatMissed, display, cleaned>>

\* livewire:navigated or beforeunload; the script lives on after the first.
cleanup ==
  /\ left["leave"] > 0 /\ left' = [left EXCEPT !["leave"] = @ - 1]
  /\ cleaned' = TRUE
  /\ sendMessage("force")
  /\ timers' = Cleared(timers)
  /\ connectionState' = "disconnected"
  /\ socket' = CASE socket = "open" -> "closing"
                 [] socket = "connecting" -> "aborting"
                 [] OTHER -> socket
  /\ UNCHANGED <<cur, reconnectAttempts, stray, heartbeatMissed, display>>
=============================================================================
