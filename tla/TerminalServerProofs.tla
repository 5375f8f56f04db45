------------------------ MODULE TerminalServerProofs ------------------------
(***************************************************************************)
(* TypeOK and OneTerminal, proved for any number of sessions, processes    *)
(* and attempts.                                                           *)
(*                                                                         *)
(* OneTerminal is inductive together with the types and the ownership of   *)
(* processes: a process is spawned only where the flag of its session is   *)
(* down, and the flag is down only where no process of the session lives.  *)
(* Which kill attempts are under way does not matter.  The variables fall  *)
(* in four groups, by the helpers that change them together.               *)
(***************************************************************************)
EXTENDS TerminalServer, TLAPS

\* Processes and flags.  A process that was spawned has an owner; a timer
\* belongs to a process that was spawned; a flag that is up, to a process.
Processes ==
  /\ ptyProcess \in [Sessions -> Ptys \cup {NoPty}]
  /\ isActive \in [Sessions -> BOOLEAN]
  /\ pty \in [Ptys -> {"unused", "running", "dying", "exited"}]
  /\ owner \in [Ptys -> Sessions \cup {NoSession}]
  /\ alarm \subseteq Ptys
  /\ \A p \in Ptys : pty[p] # "unused" => owner[p] \in Sessions
  /\ \A p \in alarm : pty[p] # "unused"
  /\ \A s \in Sessions : isActive[s] => ptyProcess[s] \in Ptys
  /\ OneTerminal

\* What a call of killPtyProcess and its answer change besides.
Calls == /\ kills \in Seq(Kill)
         /\ userSessions \subseteq Sessions
         /\ down \in [Sessions -> Seq(Replies)]

Connections ==
  /\ ws \in [Sessions -> {"none", "opening", "open", "closing", "closed"}]
  /\ awaiting \subseteq Sessions
  /\ listening \subseteq Sessions
  /\ authorizedIPs \in [Sessions -> SUBSET Hosts]

Rest == /\ unread \subseteq Ptys
        /\ left \in [DOMAIN left -> Nat] /\ Bounded \subseteq DOMAIN left

IInv == Processes /\ Calls /\ Connections /\ Rest

-----------------------------------------------------------------------------
(* Helpers *)

\* A message to the browser keeps what is on its way a sequence of replies.
LEMMA SendTyped ==
  ASSUME down \in [Sessions -> Seq(Replies)], NEW s \in Sessions,
         NEW m \in Replies, Send(s, m)
  PROVE  down' \in [Sessions -> Seq(Replies)]
<1>1. Append(down[s], m) \in Seq(Replies)
  OBVIOUS
<1> QED BY <1>1 DEF Send

\* The bounds stay natural numbers.
LEMMA SpendTyped ==
  ASSUME Rest, NEW k \in Bounded, Spend(k)
  PROVE  left' \in [DOMAIN left' -> Nat] /\ Bounded \subseteq DOMAIN left'
<1>1. k \in DOMAIN left /\ left[k] \in Nat /\ left[k] > 0
  BY DEF Rest, Spend
<1>2. left[k] - 1 \in Nat
  BY <1>1
<1> QED BY <1>1, <1>2 DEF Rest, Spend

\* A process that is killed lives on until its exit is noticed.
LEMMA WriteKillLineInv ==
  ASSUME Processes, NEW s \in Sessions, WriteKillLine(s),
         UNCHANGED <<ptyProcess, owner, alarm, isActive>>
  PROVE  Processes'
<1>1. pty' \in [Ptys -> {"unused", "running", "dying", "exited"}]
  BY DEF Processes, WriteKillLine
<1>2. \A p \in Ptys : /\ Live(p)' <=> Live(p)
                      /\ pty'[p] = "unused" <=> pty[p] = "unused"
  BY DEF Processes, WriteKillLine, Live
<1>3. OneTerminal'
  BY <1>2 DEF Processes, OneTerminal
<1> QED BY <1>1, <1>2, <1>3 DEF Processes

\* A terminal is started where no flag is up, so no process lives.
LEMMA LaunchInv ==
  ASSUME Processes, Calls, NEW s \in Sessions, NEW h, Launch(s, h), ~isActive[s]
  PROVE  Processes' /\ down' \in [Sessions -> Seq(Replies)]
<1>1. CASE h \in authorizedIPs[s]
  <2>1. PICK p \in Ptys :
          /\ pty[p] = "unused"
          /\ pty' = [pty EXCEPT ![p] = "running"]
          /\ owner' = [owner EXCEPT ![p] = s]
          /\ ptyProcess' = [ptyProcess EXCEPT ![s] = p]
          /\ isActive' = [isActive EXCEPT ![s] = TRUE]
          /\ alarm' = alarm \cup {p}
          /\ Send(s, "pty-ready")
    BY <1>1 DEF Launch
  <2>2. \A q \in Ptys : Live(q) => owner[q] # s /\ q # p
    BY <2>1 DEF Processes, OneTerminal, Live
  <2>3. \A q \in Ptys : q # p => pty'[q] = pty[q] /\ owner'[q] = owner[q]
    BY <2>1 DEF Processes
  <2>4. \A q \in Ptys : pty'[q] \in {"running", "dying"}
                          => /\ ptyProcess'[owner'[q]] = q
                             /\ isActive'[owner'[q]]
    BY <2>1, <2>2, <2>3 DEF Processes, OneTerminal, Live
  <2>5. ASSUME NEW t \in Sessions, isActive'[t]
        PROVE  /\ pty'[ptyProcess'[t]] \in {"running", "dying"}
               /\ owner'[ptyProcess'[t]] = t
    <3>1. CASE t = s
      BY <3>1, <2>1 DEF Processes
    <3>2. CASE t # s
      <4>1. isActive[t] /\ ptyProcess'[t] = ptyProcess[t]
        BY <2>5, <3>2, <2>1 DEF Processes
      <4>2. ptyProcess[t] \in Ptys /\ Live(ptyProcess[t])
              /\ owner[ptyProcess[t]] = t
        BY <4>1 DEF Processes, OneTerminal
      <4>3. ptyProcess[t] # p
        BY <4>2, <2>2
      <4> QED BY <4>1, <4>2, <4>3, <2>3 DEF Live
    <3> QED BY <3>1, <3>2
  <2>6. OneTerminal'
    BY <2>4, <2>5 DEF OneTerminal, Live
  <2>7. Processes'
    BY <2>1, <2>6 DEF Processes
  <2>8. down' \in [Sessions -> Seq(Replies)]
    BY <2>1, SendTyped DEF Calls, Replies
  <2> QED BY <2>7, <2>8
<1>2. CASE h \notin authorizedIPs[s]
  <2>1. Send(s, "refused") /\ UNCHANGED <<process, isActive>>
    BY <1>2 DEF Launch
  <2>2. Processes'
    BY <2>1 DEF Processes, OneTerminal, Live, process
  <2> QED BY <2>1, <2>2, SendTyped DEF Calls, Replies
<1> QED BY <1>1, <1>2

\* Nothing about processes changes.
LEMMA ProcessesUnchanged ==
  ASSUME Processes, UNCHANGED <<process, isActive>>
  PROVE  Processes'
BY DEF Processes, OneTerminal, Live, process

\* The answer "killed" is given only where the flag is down.
LEMMA AnswerInv ==
  ASSUME Processes, Calls, NEW k \in Kill, NEW killed \in BOOLEAN,
         killed => ~isActive[k.session], Answer(k, killed)
  PROVE  /\ Processes'
         /\ userSessions' \subseteq Sessions
         /\ down' \in [Sessions -> Seq(Replies)]
<1>0. k.session \in Sessions
  BY DEF Kill
<1>1. CASE k.caller = "command" /\ killed
  <2>1. Launch(k.session, k.host) /\ UNCHANGED userSessions
    BY <1>1 DEF Answer
  <2> QED BY <2>1, <1>0, <1>1, LaunchInv DEF Calls
<1>2. CASE k.caller = "command" /\ ~killed
  <2>1. Send(k.session, "unprocessable")
          /\ UNCHANGED <<process, isActive, userSessions>>
    BY <1>2 DEF Answer
  <2> QED BY <2>1, <1>0, SendTyped, ProcessesUnchanged DEF Calls, Replies
<1>3. CASE k.caller = "close"
  BY <1>3, ProcessesUnchanged DEF Answer, Calls
<1>4. CASE k.caller = "other"
  BY <1>4, ProcessesUnchanged DEF Answer, Calls
<1> QED BY <1>1, <1>2, <1>3, <1>4 DEF Kill

\* A call of killPtyProcess writes a first kill line or answers at once.
LEMMA KillPtyInv ==
  ASSUME Processes, Calls, NEW s \in Sessions,
         NEW caller \in {"command", "close", "other"},
         NEW h \in Hosts \cup {NoHost}, killPtyProcess(s, caller, h)
  PROVE  Processes' /\ Calls'
<1>1. Call(s, caller, h) \in Kill
  BY TerminalAssumption DEF Call, Kill
<1>2. CASE s \in userSessions /\ ptyProcess[s] # NoPty
  <2>1. /\ kills' = Append(kills, Call(s, caller, h))
        /\ WriteKillLine(s)
        /\ UNCHANGED <<ptyProcess, owner, alarm, isActive, userSessions, down>>
    BY <1>2 DEF killPtyProcess
  <2> QED BY <2>1, <1>1, WriteKillLineInv DEF Calls
<1>3. CASE ~(s \in userSessions /\ ptyProcess[s] # NoPty)
  <2>1. Answer(Call(s, caller, h), FALSE) /\ UNCHANGED kills
    BY <1>3 DEF killPtyProcess
  <2> QED BY <2>1, <1>1, AnswerInv DEF Calls
<1> QED BY <1>2, <1>3

-----------------------------------------------------------------------------
(* One lemma per group of actions *)

\* Connections come and go without touching a process, but for the kills that
\* an error or the closing of the socket starts.
LEMMA ConnectionInv ==
  ASSUME IInv, NEW s \in Sessions, Connection(s)
  PROVE  IInv'
<1>1. CASE Upgrade(s)
  <2>1. Processes'
    BY <1>1, ProcessesUnchanged DEF IInv, Upgrade
  <2> QED BY <1>1, <2>1
          DEF IInv, Upgrade, Calls, Connections, Rest, process
<1>2. CASE Verified(s)
  <2>1. Processes'
    BY <1>2, ProcessesUnchanged DEF IInv, Verified
  <2> QED BY <1>2, <2>1
          DEF IInv, Verified, Calls, Connections, Rest, process
<1>3. CASE Refused(s)
  <2>1. Processes'
    BY <1>3, ProcessesUnchanged DEF IInv, Refused
  <2> QED BY <1>3, <2>1
          DEF IInv, Refused, Calls, Connections, Rest, process
<1>4. CASE Authorised(s)
  <2>1. Processes'
    BY <1>4, ProcessesUnchanged DEF IInv, Authorised
  <2> QED BY <1>4, <2>1
          DEF IInv, Authorised, Calls, Connections, Rest, process
<1>5. CASE Errored(s)
  <2>1. Connections' /\ Rest'
    BY <1>5 DEF IInv, Errored, Connections, Rest
  <2>2. CASE s \in listening
    BY <1>5, <2>1, <2>2, KillPtyInv DEF IInv, Errored
  <2>3. CASE s \notin listening
    <3>1. UNCHANGED <<process, isActive>>
            /\ UNCHANGED <<userSessions, kills, down>>
      BY <1>5, <2>3 DEF Errored
    <3> QED BY <2>1, <3>1, ProcessesUnchanged DEF IInv, Calls
  <2> QED BY <2>2, <2>3
<1>6. CASE Closed(s)
  <2>1. Connections' /\ Rest'
    BY <1>6 DEF IInv, Closed, Connections, Rest
  <2>2. CASE s \in listening
    BY <1>6, <2>1, <2>2, KillPtyInv DEF IInv, Closed
  <2>3. CASE s \notin listening
    <3>1. UNCHANGED <<process, isActive>>
            /\ UNCHANGED <<userSessions, kills, down>>
      BY <1>6, <2>3 DEF Closed
    <3> QED BY <2>1, <3>1, ProcessesUnchanged DEF IInv, Calls
  <2> QED BY <2>2, <2>3
<1> QED BY <1>1, <1>2, <1>3, <1>4, <1>5, <1>6 DEF Connection

\* A command launches at once only where the flag is down; otherwise it, and
\* 'force', go through killPtyProcess.
LEMMA MessageInv ==
  ASSUME IInv, NEW s \in Sessions, Message(s)
  PROVE  IInv'
<1>1. CASE \E h \in Hosts \cup {NoHost} : Command(s, h)
  <2>1. PICK h \in Hosts \cup {NoHost} : Command(s, h)
    BY <1>1
  <2>2. Connections' /\ Rest'
    BY <2>1, SpendTyped
       DEF IInv, Command, Connections, Rest, connection, Bounded
  <2>3. CASE isActive[s]
    BY <2>1, <2>2, <2>3, KillPtyInv DEF IInv, Command
  <2>4. CASE ~isActive[s]
    <3>1. Launch(s, h) /\ UNCHANGED <<kills, userSessions>>
      BY <2>1, <2>4 DEF Command
    <3> QED BY <2>2, <2>4, <3>1, LaunchInv DEF IInv, Calls
  <2> QED BY <2>3, <2>4
<1>2. CASE CheckActive(s)
  <2>1. Connections' /\ Rest'
    BY <1>2, SpendTyped
       DEF IInv, CheckActive, Connections, Rest, connection, Bounded
  <2>2. CASE isActive[s]
    BY <1>2, <2>1, <2>2, KillPtyInv DEF IInv, CheckActive
  <2>3. CASE ~isActive[s]
    <3>1. Send(s, "inactive") /\ UNCHANGED <<process, isActive>>
            /\ UNCHANGED <<userSessions, kills>>
      BY <1>2, <2>3 DEF CheckActive
    <3> QED BY <2>1, <3>1, SendTyped, ProcessesUnchanged
               DEF IInv, Calls, Replies
  <2> QED BY <2>2, <2>3
<1>3. CASE \E m \in {"pause", "resume"} : Flow(s, m)
  <2>1. PICK m \in {"pause", "resume"} : Flow(s, m)
    BY <1>3
  <2>2. Processes'
    BY <2>1, ProcessesUnchanged DEF IInv, Flow
  <2>3. unread' \subseteq Ptys
    BY <2>1 DEF IInv, Flow, Processes, Rest
  <2> QED BY <2>1, <2>2, <2>3
          DEF IInv, Flow, Calls, Connections, Rest, connection
<1> QED BY <1>1, <1>2, <1>3 DEF Message

\* The exit of a process lowers the flag of its owner, whose process it is.
LEMMA onExitInv ==
  ASSUME Processes, Calls, NEW p \in Ptys, onExit(p)
  PROVE  Processes' /\ Calls'
<1>1. owner[p] \in Sessions /\ Live(p)
  BY DEF Processes, onExit, Live
<1>2. ptyProcess[owner[p]] = p
  BY <1>1 DEF Processes, OneTerminal
<1>3. /\ pty' = [pty EXCEPT ![p] = "exited"]
      /\ isActive' = [isActive EXCEPT ![owner[p]] = FALSE]
      /\ UNCHANGED <<userSessions, ptyProcess, owner, alarm, kills>>
      /\ Send(owner[p], "pty-exited")
  BY DEF onExit
<1>4. \A q \in Ptys : pty'[q] \in {"running", "dying"}
                        => ptyProcess'[owner'[q]] = q /\ isActive'[owner'[q]]
  <2> SUFFICES ASSUME NEW q \in Ptys, pty'[q] \in {"running", "dying"}
               PROVE  ptyProcess'[owner'[q]] = q /\ isActive'[owner'[q]]
    OBVIOUS
  <2>1. q # p /\ Live(q)
    BY <1>3 DEF Processes, Live
  <2>2. owner[q] # owner[p]
    BY <2>1, <1>2 DEF Processes, OneTerminal
  <2> QED BY <2>1, <2>2, <1>3 DEF Processes, OneTerminal, Live
<1>5. ASSUME NEW t \in Sessions, isActive'[t]
      PROVE  /\ pty'[ptyProcess'[t]] \in {"running", "dying"}
             /\ owner'[ptyProcess'[t]] = t
  <2>1. isActive[t] /\ t # owner[p]
    BY <1>5, <1>3, <1>1 DEF Processes
  <2>2. Live(ptyProcess[t]) /\ owner[ptyProcess[t]] = t
    BY <2>1 DEF Processes, OneTerminal
  <2>3. ptyProcess[t] # p
    BY <2>1, <2>2
  <2> QED BY <2>2, <2>3, <1>3 DEF Processes, Live
<1>6. OneTerminal'
  BY <1>4, <1>5 DEF OneTerminal, Live
<1>7. Processes'
  BY <1>3, <1>6, <1>1 DEF Processes
<1>8. down' \in [Sessions -> Seq(Replies)]
  BY <1>1, <1>3, SendTyped DEF Calls, Replies
<1> QED BY <1>3, <1>7, <1>8 DEF Calls

\* A timeout starts a kill of whatever its session runs now.
LEMMA TimeoutInv ==
  ASSUME Processes, Calls, NEW p \in Ptys, TimeoutElapses(p)
  PROVE  Processes' /\ Calls'
<1> DEFINE s == owner[p]
<1>1. s \in Sessions
  BY DEF TimeoutElapses, Processes
<1>2. /\ alarm' = alarm \ {p}
      /\ UNCHANGED <<ptyProcess, owner, isActive, userSessions, down>>
  BY DEF TimeoutElapses
<1>3. Call(s, "other", NoHost) \in Kill
  BY <1>1, TerminalAssumption DEF Call, Kill
<1>4. kills' \in Seq(Kill)
  BY SMTT(30), <1>3 DEF TimeoutElapses, Calls
<1>5. pty' = pty \/ WriteKillLine(s)
  BY DEF TimeoutElapses
<1>6. pty' \in [Ptys -> {"unused", "running", "dying", "exited"}]
  BY <1>5 DEF Processes, WriteKillLine
<1>7. \A q \in Ptys : /\ Live(q)' <=> Live(q)
                      /\ pty'[q] = "unused" <=> pty[q] = "unused"
  BY <1>5 DEF Processes, WriteKillLine, Live
<1>8. OneTerminal'
  BY <1>2, <1>7 DEF Processes, OneTerminal
<1>9. Processes'
  BY <1>2, <1>6, <1>7, <1>8 DEF Processes
<1> QED BY <1>2, <1>4, <1>9 DEF Calls

\* What a process and its timer do.
LEMMA ProcessInv ==
  ASSUME IInv, NEW p \in Ptys, Process(p)
  PROVE  IInv'
<1>1. CASE Output(p)
  <2>1. Connections' /\ Rest'
    BY <1>1, SpendTyped
       DEF IInv, Output, Connections, Rest, connection, Bounded
  <2>2. owner[p] \in Sessions
    BY <1>1 DEF IInv, Output, Processes
  <2>3. Send(owner[p], "data") /\ UNCHANGED <<process, isActive>>
          /\ UNCHANGED <<userSessions, kills>>
    BY <1>1 DEF Output
  <2> QED BY <2>1, <2>2, <2>3, SendTyped, ProcessesUnchanged
          DEF IInv, Calls, Replies
<1>2. CASE Exits(p)
  <2>1. pty[p] = "running" /\ pty' = [pty EXCEPT ![p] = "dying"]
          /\ UNCHANGED <<ptyProcess, owner, alarm, isActive>>
    BY <1>2 DEF Exits
  <2>2. \A q \in Ptys : /\ Live(q)' <=> Live(q)
                        /\ pty'[q] = "unused" <=> pty[q] = "unused"
    BY <2>1 DEF IInv, Processes, Live
  <2>3. OneTerminal'
    BY <2>1, <2>2 DEF IInv, Processes, OneTerminal
  <2>4. Processes'
    BY <2>1, <2>2, <2>3 DEF IInv, Processes
  <2> QED BY <1>2, <2>4 DEF IInv, Exits, Calls, Connections, Rest, connection
<1>3. CASE onExit(p)
  <2>1. Connections' /\ Rest'
    BY <1>3 DEF IInv, onExit, Connections, Rest, connection
  <2> QED BY <1>3, <2>1, onExitInv DEF IInv
<1>4. CASE TimeoutElapses(p)
  <2>1. Connections' /\ Rest'
    BY <1>4 DEF IInv, TimeoutElapses, Connections, Rest, connection
  <2> QED BY <1>4, <2>1, TimeoutInv DEF IInv
<1> QED BY <1>1, <1>2, <1>3, <1>4 DEF Process

\* The timer of an attempt tries again, or answers: "killed" where the flag is
\* down.
LEMMA KillTimerInv ==
  ASSUME IInv, KillTimer
  PROVE  IInv'
<1> DEFINE k == Head(kills)
<1>1. kills # <<>> /\ k \in Kill /\ Tail(kills) \in Seq(Kill)
  BY DEF KillTimer, IInv, Calls
<1>2. k.session \in Sessions /\ k.attempts \in 1..maxAttempts
  BY <1>1 DEF Kill
<1>3. Connections' /\ Rest'
  BY DEF KillTimer, IInv, Connections, Rest, connection
<1>4. CASE isActive[k.session] /\ k.attempts < maxAttempts
  <2>1. /\ kills' = Append(Tail(kills), [k EXCEPT !.attempts = @ + 1])
        /\ WriteKillLine(k.session)
        /\ UNCHANGED <<ptyProcess, owner, alarm, isActive, userSessions, down>>
    BY <1>4 DEF KillTimer
  <2>2. k.attempts + 1 \in 1..maxAttempts
    BY <1>2, <1>4, TerminalAssumption
  <2>3. [k EXCEPT !.attempts = @ + 1] \in Kill
    BY <1>1, <2>2 DEF Kill
  <2>4. kills' \in Seq(Kill)
    BY <1>1, <2>1, <2>3
  <2>5. Processes'
    BY <1>2, <2>1, WriteKillLineInv DEF IInv
  <2> QED BY <1>3, <2>1, <2>4, <2>5 DEF IInv, Calls
<1>5. CASE ~(isActive[k.session] /\ k.attempts < maxAttempts)
  <2>1. kills' = Tail(kills) /\ Answer(k, ~isActive[k.session])
    BY <1>5 DEF KillTimer
  <2>2. (~isActive[k.session]) \in BOOLEAN
    BY <1>2 DEF IInv, Processes
  <2> HIDE DEF k
  <2> QED BY <1>1, <1>3, <2>1, <2>2, AnswerInv DEF IInv, Calls
<1> QED BY <1>4, <1>5

\* The process of the relay ends: no terminal, no session, no flag is left.
LEMMA AuthIpsFailsInv ==
  ASSUME IInv, AuthIpsFails
  PROVE  IInv'
<1>1. Rest'
  BY SpendTyped DEF IInv, AuthIpsFails, Rest, Bounded
<1>2. \A p \in Ptys : pty'[p] \in {"unused", "exited"}
                        /\ (pty'[p] # "unused" => pty[p] # "unused")
  BY DEF AuthIpsFails, IInv, Processes, Live
<1>3. OneTerminal'
  BY <1>2 DEF AuthIpsFails, OneTerminal, Live
<1>4. Processes'
  BY <1>2, <1>3 DEF IInv, AuthIpsFails, Processes, NoPty
<1>5. Calls' /\ Connections'
  BY DEF IInv, AuthIpsFails, Calls, Connections
<1> QED BY <1>1, <1>4, <1>5 DEF IInv

-----------------------------------------------------------------------------
(* Theorems *)

\* Before the first connection there is nothing.
LEMMA InitIInv == Init => IInv
<1> SUFFICES ASSUME Init PROVE IInv
  OBVIOUS
<1>1. OneTerminal
  BY DEF Init, OneTerminal, Live
<1>2. Processes
  BY <1>1 DEF Init, Processes
<1>3. Rest
  BY TerminalAssumption DEF Init, Rest
<1> QED BY <1>2, <1>3 DEF Init, IInv, Calls, Connections

\* Every callback of the relay keeps the invariant.
LEMMA StepIInv == IInv /\ [Next]_vars => IInv'
<1> SUFFICES ASSUME IInv, [Next]_vars PROVE IInv'
  OBVIOUS
<1>1. ASSUME NEW s \in Sessions, Receive(s) PROVE IInv'
  <2>1. Processes'
    BY <1>1, ProcessesUnchanged DEF IInv, Receive
  <2> QED BY <1>1, <2>1 DEF IInv, Receive, Calls, Connections, Rest, connection
<1>2. CASE UNCHANGED vars
  <2>1. Processes'
    BY <1>2, ProcessesUnchanged DEF IInv, vars, process
  <2> QED BY <1>2, <2>1 DEF IInv, vars, Calls, Connections, Rest
<1> QED BY <1>1, <1>2, ConnectionInv, MessageInv, ProcessInv, KillTimerInv,
           AuthIpsFailsInv DEF Next

\* The state of the relay keeps its types, whatever the browsers send and
\* however kills, timeouts and exits interleave.
THEOREM TypeCorrect == Spec => []TypeOK
<1>1. IInv => TypeOK
  BY DEF IInv, Processes, Calls, Connections, Rest, TypeOK
<1> QED BY <1>1, InitIInv, StepIInv, PTL DEF Spec

\* A session has one terminal at most, and the flag says whether it lives: for
\* any number of sessions, processes and attempts, even if no kill ever works.
THEOREM OneTerminalHolds == Spec => []OneTerminal
<1>1. IInv => OneTerminal
  BY DEF IInv, Processes
<1> QED BY <1>1, InitIInv, StepIInv, PTL DEF Spec

=============================================================================
