----------------------- MODULE DeploymentQueueWakeups -----------------------
(***************************************************************************)
(* Proof that the queue forgets no deployment (NobodyForgotten).  A waiting *)
(* deployment does nothing by itself: each step that ends a blocker must    *)
(* leave behind somebody who will look at its server.                       *)
(***************************************************************************)
EXTENDS DeploymentQueueProofs, FiniteSetTheorems

\* What the theorem needs of an instance: no operation that releases a slot
\* without a scan, no process that dies or fails to dispatch between its status
\* write and its scan; the additional servers of an application are nobody's
\* main server, which is the only one scanned; and the cancel button, which
\* scans the server it cleaned up, finds the main server there.
Attended ==
  /\ Ops \cap {"api_cancel", "close_pr", "check_queue"} = {}
  /\ MaxFaults = 0
  /\ \A l, m \in Lanes : MainServer[m] \notin ExtraServers[l]
  /\ "cancel" \in Ops =>
       \A l \in Lanes : BuildServers[l] = {} /\ ExtraServers[l] = {}

-----------------------------------------------------------------------------
(* Where deployments are placed *)

\* A deployment is on the main server of its lane or on some additional one.
Additional == UNION {ExtraServers[l] : l \in Lanes}
Site(l)    == {MainServer[l]} \cup Additional
AtMain(d)  == row[d].server = MainServer[row[d].lane]

Housed == \A d \in Rows : Created(d) => row[d].server \in Site(row[d].lane)

\* The rows a process is about to check, or has on the list of a scan, are at
\* the main server of their lane; any other row is dispatched as soon as it is
\* created.
Tidy(a, me) ==
  /\ me.pc # "terminate"
  /\ me.todo # {} => me.pc \in {"next", "scan_count", "mark", "push"}
  /\ me.pc \in {"create", "create_now"} => me.req.server \in Site(me.req.lane)
  /\ me.pc = "create" => me.req.server = MainServer[me.req.lane]
  /\ me.cand # 0 =>
       /\ me.pc \in {"admit_lane", "admit_count", "scan_count", "mark", "push",
                     "push_new"}
       /\ me.pc \in {"push", "push_new"} \/ AtMain(me.cand)
  /\ \A d \in me.todo : AtMain(d)
  /\ me.pc = "push_new" => a \notin Users
  /\ a \in Users /\ me.pc = "read" => \E l \in Lanes : me.srv = MainServer[l]

AllTidy == \A a \in Actors : Tidy(a, act[a])

\* The servers a worker has still to deploy to.
Extras == \A a \in Actors : act[a].extra \subseteq Additional

\* The facts every step starts from.
LEMMA Frame ==
  ASSUME WellFormed
  PROVE  /\ Users \subseteq Actors /\ Workers \subseteq Actors
         /\ Users \cap Workers = {} /\ Actors = Users \cup Workers
         /\ act \in [Actors -> ActorState]
         /\ status \in [Rows -> Status]
         /\ jobs \in [Rows -> Nat] /\ expired \in [Rows -> Nat]
         /\ \A d \in Rows : d # 0
         /\ \A a \in Actors :
              /\ act[a] \in ActorState /\ Refers(status, act[a])
              /\ act[a].cand \in Rows \cup {0} /\ act[a].todo \subseteq Rows
         /\ \A w \in Workers : act[w].pc # "idle" =>
              act[w].cur \in Rows /\ status[act[w].cur] # "absent"
<1>1. /\ Users \subseteq Actors /\ Workers \subseteq Actors
      /\ Users \cap Workers = {} /\ Actors = Users \cup Workers
  BY QueueAssumption DEF Actors
<1>2. /\ act \in [Actors -> ActorState]
      /\ status \in [Rows -> Status]
      /\ jobs \in [Rows -> Nat] /\ expired \in [Rows -> Nat]
  BY DEF WellFormed, TypeOK
<1>3. \A d \in Rows : d # 0
  BY DEF Rows
<1>4. ASSUME NEW a \in Actors
      PROVE  /\ act[a] \in ActorState /\ Refers(status, act[a])
             /\ act[a].cand \in Rows \cup {0} /\ act[a].todo \subseteq Rows
             /\ act[a].cur \in Rows \cup {0}
  BY <1>2 DEF WellFormed, References, ActorState
<1>5. ASSUME NEW w \in Workers, act[w].pc # "idle"
      PROVE  act[w].cur \in Rows /\ status[act[w].cur] # "absent"
  <2>1. act[w].cur # 0
    BY <1>5 DEF WellFormed, References
  <2>. QED BY <1>1, <1>4, <2>1 DEF Refers
<1>. QED BY <1>1, <1>2, <1>3, <1>4, <1>5

LEMMA ExtrasStep ==
  ASSUME Attended, WellFormed, [Next]_vars, Extras
  PROVE  Extras'
<1>b. ASSUME NEW a \in Actors, NEW s, Become(a, s), s.extra \subseteq Additional
      PROVE  Extras'
  <2>1. act'[a] = s /\ \A b \in Actors : b # a => act'[b] = act[b]
    BY <1>b, Frame DEF Become
  <2>. QED BY <1>b, <2>1 DEF Extras
<1>e. ASSUME NEW a \in Actors
      PROVE  act[a].extra \subseteq Additional /\ act[a] \in ActorState
  BY Frame DEF Extras
<1>r. ASSUME NEW a \in Actors, NEW me \in ActorState, me.extra \subseteq Additional,
             Become(a, Returned(me)) \/ Become(a, Looped(me))
      PROVE  Extras'
  <2>1. Returned(me).extra \in {me.extra, {}} /\ Looped(me).extra \in {me.extra, {}}
    BY DEF Looped, Returned, Idle, ActorState
  <2>2. PICK s : Become(a, s) /\ s.extra \in {me.extra, {}}
    BY <1>r, <2>1
  <2>. QED BY <1>b, <1>r, <2>2
<1>i. ASSUME NEW a \in Actors, NEW s, Become(a, s), s.extra = {} PROVE Extras'
  BY <1>b, <1>i
<1>f. Idle.extra = {} /\ \A d \in Rows : Failed(d).extra = {}
  BY DEF Failed, Idle
<1>1. ASSUME NEW u \in Users, Request(u) PROVE Extras'
  <2>1. ASSUME CheckExisting(u) \/ Redeploy(u) PROVE Extras'
    <3>1. \E p, q : Become(u, [Idle EXCEPT !.pc = p, !.req = q])
      BY <2>1 DEF CheckExisting, Redeploy
    <3>2. \A p, q : [Idle EXCEPT !.pc = p, !.req = q].extra = {}
      BY DEF Idle
    <3>. QED BY <1>i, <3>1, <3>2, Frame
  <2>2. ASSUME NEW d \in Rows, ForceStart(u, d) \/ Cancel(u, d) PROVE Extras'
    <3>1. \/ \E p, c : Become(u, [Idle EXCEPT !.pc = p, !.cand = c])
          \/ \E p, x : Become(u, [Idle EXCEPT !.pc = p, !.srv = x])
      BY <2>2 DEF ForceStart, Cancel
    <3>2. \A p, c : /\ [Idle EXCEPT !.pc = p, !.cand = c].extra = {}
                    /\ [Idle EXCEPT !.pc = p, !.srv = c].extra = {}
      BY DEF Idle
    <3>. QED BY <1>i, <3>1, <3>2, Frame
  <2>. QED BY <1>1, <2>1, <2>2 DEF Request, CheckDeploymentQueue, ApiCancel,
         ClosePullRequest, Attended
<1>2. ASSUME NEW u \in Users, CreateRow(u) PROVE Extras'
  <2>1. Become(u, Idle) \/ \E p, c : Become(u, [Idle EXCEPT !.cand = c, !.pc = p])
    BY <1>2 DEF CreateRow
  <2>2. \A p, c : [Idle EXCEPT !.cand = c, !.pc = p].extra = {}
    BY DEF Idle
  <2>. QED BY <1>i, <1>f, <2>1, <2>2, Frame
\* Steps that take only a few fields of a process further.
<1>k. ASSUME NEW a \in Actors
      PROVE  \A p, t : /\ [act[a] EXCEPT !.pc = p].extra = act[a].extra
                       /\ [act[a] EXCEPT !.todo = t].extra = act[a].extra
  BY <1>e DEF ActorState
<1>s. ASSUME NEW a \in Actors, NEW s, Become(a, s), s.extra = act[a].extra PROVE Extras'
  BY <1>b, <1>e, <1>s
<1>3. ASSUME NEW u \in Users, AdmitLane(u) \/ AdmitCount(u) \/ Terminate(u) PROVE Extras'
  <2>1. \/ Become(u, Idle)
        \/ \E p : Become(u, [act[u] EXCEPT !.pc = p])
        \/ \E t : Become(u, [act[u] EXCEPT !.todo = t])
    BY <1>3 DEF AdmitLane, AdmitCount, Terminate
  <2>2. PICK s : Become(u, s) /\ s.extra \in {{}, act[u].extra}
    BY <1>f, <1>k, <2>1, Frame
  <2>. QED BY <1>i, <1>s, <2>2, Frame
<1>4. ASSUME NEW a \in Actors, Scan(a) PROVE Extras'
  <2>1. CASE ReadQueue(a)
    <3>1. PICK t \in SUBSET Rows : Become(a, Looped([act[a] EXCEPT !.extra = {}, !.todo = t]))
      BY <2>1 DEF ReadQueue
    <3> DEFINE me == [act[a] EXCEPT !.extra = {}, !.todo = t]
    <3>2. me \in ActorState /\ me.extra = {}
      BY <1>e DEF ActorState
    <3>. HIDE DEF me
    <3>. QED BY <1>r, <3>1, <3>2 DEF me
  <2>2. CASE ScanLane(a)
    <3>1. PICK d \in Rows :
            LET rest == [act[a] EXCEPT !.todo = act[a].todo \ {d}]
            IN  Become(a, IF LaneBusy(row[d].lane) THEN Looped(rest)
                          ELSE [rest EXCEPT !.pc = "scan_count", !.cand = d])
      BY <2>2 DEF ScanLane
    <3> DEFINE rest == [act[a] EXCEPT !.todo = act[a].todo \ {d}]
               next == [rest EXCEPT !.pc = "scan_count", !.cand = d]
    <3>2. rest \in ActorState /\ rest.extra = act[a].extra /\ next.extra = act[a].extra
      BY <1>e DEF ActorState
    <3>3. Become(a, Looped(rest)) \/ Become(a, next)
      BY <3>1
    <3>. HIDE DEF rest, next
    <3>4. CASE Become(a, next)
      <4>1. PICK s : Become(a, s) /\ s.extra = act[a].extra
        BY <3>2, <3>4
      <4>. QED BY <1>s, <4>1
    <3>. QED BY <1>e, <1>r, <3>2, <3>3, <3>4
  <2>3. CASE ScanCount(a) \/ Mark(a)
    <3>1. Become(a, Looped(act[a])) \/ \E p : Become(a, [act[a] EXCEPT !.pc = p])
      BY <2>3 DEF ScanCount, Mark, Goto, Become
    <3>2. ASSUME NEW p, Become(a, [act[a] EXCEPT !.pc = p]) PROVE Extras'
      <4>1. PICK s : Become(a, s) /\ s.extra = act[a].extra
        BY <1>k, <3>2
      <4>. QED BY <1>s, <4>1
    <3>. QED BY <1>e, <1>r, <3>1, <3>2
  <2>4. CASE Push(a)
    <3>1. Become(a, Looped(act[a])) \/ Become(a, [act[a] EXCEPT !.pc = "read", !.cand = 0])
      BY <2>4 DEF Push
    <3> DEFINE read == [act[a] EXCEPT !.pc = "read", !.cand = 0]
    <3>2. ASSUME Become(a, read) PROVE Extras'
      <4>1. read.extra = act[a].extra
        BY <1>e DEF ActorState
      <4>. HIDE DEF read
      <4>2. PICK s : Become(a, s) /\ s.extra = act[a].extra
        BY <3>2, <4>1
      <4>. QED BY <1>s, <4>2
    <3>. QED BY <1>e, <1>r, <3>1, <3>2
  <2>. QED BY <1>4, <2>1, <2>2, <2>3, <2>4 DEF Scan
<1>5. ASSUME NEW w \in Workers, NEW me \in ActorState, Transition(w, me), me.cur \in Rows,
             me.extra \subseteq Additional
      PROVE  Extras'
  <2> DEFINE write == [me EXCEPT !.pc = "write", !.local = status[me.cur]]
  <2>1. write.extra = me.extra
    BY DEF ActorState
  <2>2. Become(w, Returned(me)) \/ Become(w, Idle) \/ Become(w, Failed(me.cur))
        \/ Become(w, write)
    BY <1>5 DEF Transition
  <2>. HIDE DEF write
  <2>3. ASSUME Become(w, write) PROVE Extras'
    <3>1. PICK s : Become(w, s) /\ s.extra = me.extra
      BY <2>1, <2>3
    <3>. QED BY <1>5, <1>b, <3>1, Frame
  <2>. QED BY <1>5, <1>f, <1>i, <1>r, <2>2, <2>3, Frame
<1>6. ASSUME NEW w \in Workers, Work(w) PROVE Extras'
  <2>0. w \in Actors /\ act[w] \in ActorState /\ act[w].extra \subseteq Additional
    BY <1>e, Frame
  <2>1. ASSUME NEW d \in Rows, Reserve(w, d) \/ ReserveExpired(w, d) PROVE Extras'
    <3>1. \E p, l : \/ Become(w, Idle) \/ Become(w, Failed(d))
                    \/ Become(w, [Idle EXCEPT !.pc = p, !.cur = d, !.local = l])
      BY <2>1 DEF Reserve, ReserveExpired
    <3>2. \A p, l : [Idle EXCEPT !.pc = p, !.cur = d, !.local = l].extra = {}
      BY DEF Idle
    <3>. QED BY <1>f, <1>i, <2>0, <3>1, <3>2
  <2>2. CASE HandleUpdate(w)
    <3> DEFINE run == [act[w] EXCEPT !.pc = "run", !.local = "queued"]
    <3>1. Become(w, run) /\ run.extra = act[w].extra
      BY <2>0, <2>2 DEF HandleUpdate, ActorState
    <3>. HIDE DEF run
    <3>2. PICK s : Become(w, s) /\ s.extra = act[w].extra
      BY <3>1
    <3>. QED BY <1>s, <2>0, <3>2
  <2>3. CASE ResolveCommit(w)
    BY <2>3 DEF ResolveCommit, Extras
  <2>4. CASE Unhealthy(w) \/ Complete(w) \/ CompleteAgain(w)
    <3>1. PICK g \in {"failed", "finished"}, r \in {"run2", "post", "post2"} :
            Transition(w, [act[w] EXCEPT !.goal = g, !.ret = r])
      BY <2>4 DEF Unhealthy, Complete, CompleteAgain
    <3>2. act[w].cur \in Rows
      BY <2>4, Frame DEF Unhealthy, Complete, CompleteAgain
    <3> DEFINE me == [act[w] EXCEPT !.goal = g, !.ret = r]
    <3>3. me \in ActorState /\ me.extra = act[w].extra /\ me.cur = act[w].cur
      BY <2>0 DEF ActorState
    <3>4. Transition(w, me)
      BY <3>1
    <3>. HIDE DEF me
    <3>. QED BY <1>5, <2>0, <3>2, <3>3, <3>4
  <2>5. CASE FailDeployment(w)
    BY <1>5, <2>0, <2>5, Frame DEF FailDeployment
  <2>6. CASE Throw(w)
    BY <1>f, <1>i, <2>0, <2>6, Frame DEF Throw
  <2>7. CASE Finish(w)
    BY <1>f, <1>i, <2>0, <2>7 DEF Finish
  <2>8. CASE WriteStatus(w)
    <3>1. act[w].cur \in Rows /\ row[act[w].cur].lane \in Lanes
      BY <2>8, Frame
         DEF WriteStatus, WellFormed, References, Created, Deployment
    <3>2. PICK x \in {{}, ExtraServers[row[act[w].cur].lane]} :
            Become(w, [act[w] EXCEPT !.pc = "read", !.local = "queued", !.extra = x])
      BY <2>8 DEF WriteStatus
    <3> DEFINE s == [act[w] EXCEPT !.pc = "read", !.local = "queued", !.extra = x]
    <3>3. s.extra = x /\ x \subseteq Additional
      BY <2>0, <3>1 DEF ActorState, Additional
    <3>4. Become(w, s)
      BY <3>2
    <3>. HIDE DEF s
    <3>5. PICK me : Become(w, me) /\ me.extra = x
      BY <3>3, <3>4
    <3>. QED BY <1>b, <2>0, <3>3, <3>5
  <2>9. CASE DeployToAdditional(w)
    <3>1. PICK x \in act[w].extra, d \in Rows :
            Become(w, [act[w] EXCEPT !.pc = "push_new", !.cand = d,
                                     !.extra = act[w].extra \ {x}])
      BY <2>9 DEF DeployToAdditional
    <3> DEFINE s == [act[w] EXCEPT !.pc = "push_new", !.cand = d,
                                   !.extra = act[w].extra \ {x}]
    <3>2. s.extra = act[w].extra \ {x}
      BY <2>0 DEF ActorState
    <3>3. Become(w, s)
      BY <3>1
    <3>. HIDE DEF s
    <3>4. PICK me : Become(w, me) /\ me.extra = act[w].extra \ {x}
      BY <3>2, <3>3
    <3>. QED BY <1>b, <2>0, <3>4
  <2>. QED BY <1>4, <1>6, <2>0, <2>1, <2>2, <2>3, <2>4, <2>5, <2>6, <2>7, <2>8, <2>9
         DEF Work
<1>7. ASSUME Disturb PROVE Extras'
  <2>1. ~Spend("fault", MaxFaults)
    BY DEF Spend, Attended, WellFormed, TypeOK
  <2>2. CASE Shutdown
    BY <1>f, <2>2 DEF Shutdown, Extras
  <2>3. CASE AppInit
    BY <2>3 DEF AppInit, Extras
  <2>. QED BY <1>7, <2>1, <2>2, <2>3 DEF Disturb, Timeout, KillWorker, DispatchThrows
<1>8. CASE UNCHANGED vars
  BY <1>8 DEF vars, Extras
<1>. QED BY <1>1, <1>2, <1>3, <1>4, <1>6, <1>7, <1>8, Frame DEF Next, Respond

\* A row stays with its lane and on its server.
RowsStay == \A d \in Rows : status[d] # "absent" =>
              row'[d].lane = row[d].lane /\ row'[d].server = row[d].server

LEMMA RowsStayStep ==
  ASSUME WellFormed, [Next]_vars
  PROVE  RowsStay
<1>0. /\ Users \subseteq Actors /\ Workers \subseteq Actors
      /\ row \in [Rows -> Deployment \cup {NoDeployment}]
      /\ \A d \in Rows : status[d] # "absent" => row[d] \in Deployment
      /\ \A w \in Workers : act[w].pc # "idle" => act[w].cur \in Rows
                                                  /\ status[act[w].cur] # "absent"
  BY DEF Actors, WellFormed, TypeOK, References, Created, Refers, ActorState
<1>1. CASE row' = row
  BY <1>1 DEF RowsStay
<1>2. ASSUME NEW d \in Rows, status[d] = "absent", NEW r, row' = [row EXCEPT ![d] = r]
      PROVE  RowsStay
  BY <1>0, <1>2 DEF RowsStay
<1>3. ASSUME NEW u \in Users, CreateRow(u) PROVE RowsStay
  BY <1>1, <1>2, <1>3 DEF CreateRow, NewRow
<1>4. ASSUME NEW w \in Workers, DeployToAdditional(w) PROVE RowsStay
  BY <1>2, <1>4 DEF DeployToAdditional, NewRow
<1>5. ASSUME NEW w \in Workers, ResolveCommit(w) PROVE RowsStay
  <2>1. PICK c \in Commits : row' = [row EXCEPT ![act[w].cur].commit = c]
    BY <1>5 DEF ResolveCommit
  <2>2. row[act[w].cur] \in Deployment /\ act[w].cur \in Rows
    BY <1>0, <1>5 DEF ResolveCommit
  <2>3. row' = [row EXCEPT ![act[w].cur] = [row[act[w].cur] EXCEPT !.commit = c]]
    BY <2>1
  <2>4. /\ [row[act[w].cur] EXCEPT !.commit = c].lane = row[act[w].cur].lane
        /\ [row[act[w].cur] EXCEPT !.commit = c].server = row[act[w].cur].server
    BY <2>2 DEF Deployment
  <2>. QED BY <1>0, <2>2, <2>3, <2>4 DEF RowsStay
<1>6. ASSUME NEW a \in Actors, Scan(a) PROVE row' = row
  BY <1>6 DEF Scan, ReadQueue, ScanLane, ScanCount, Mark, Push
<1>7. ASSUME NEW u \in Users, Request(u) \/ Respond(u) PROVE RowsStay
  BY <1>0, <1>1, <1>3, <1>6, <1>7
     DEF Request, Respond, CheckExisting, Redeploy, CheckDeploymentQueue,
         ForceStart, Cancel, ApiCancel, ClosePullRequest, AdmitLane, AdmitCount,
         Terminate
<1>8. ASSUME NEW w \in Workers, Work(w) PROVE RowsStay
  BY <1>0, <1>1, <1>4, <1>5, <1>6, <1>8
     DEF Work, Reserve, ReserveExpired, HandleUpdate, Unhealthy, Complete,
         CompleteAgain, FailDeployment, Transition, Throw, Finish, WriteStatus
<1>9. ASSUME Disturb PROVE row' = row
  BY <1>9 DEF Disturb, Timeout, KillWorker, DispatchThrows, Shutdown, AppInit
<1>. QED BY <1>1, <1>7, <1>8, <1>9 DEF Next, vars

\* What the code after a transition or a scan does not keep, and what it does.
LEMMA ReturnedFields ==
  ASSUME NEW me \in ActorState
  PROVE  /\ Returned(me).pc \in {"idle", "post", "post2", "run2"}
         /\ Returned(me).todo \in {me.todo, {}}
         /\ Returned(me).cand \in {me.cand, 0}
BY DEF Returned, Idle, ActorState

LEMMA LoopedFields ==
  ASSUME NEW me \in ActorState
  PROVE  /\ Looped(me).pc \in {"next", "idle", "post", "post2", "run2"}
         /\ Looped(me).todo = me.todo
         /\ Looped(me).cand = 0
         /\ me.todo # {} => Looped(me).pc = "next"
<1> DEFINE out == [me EXCEPT !.cand = 0]
           loop == [me EXCEPT !.pc = "next", !.cand = 0]
<1>1. out \in ActorState /\ out.todo = me.todo /\ out.cand = 0
  BY DEF ActorState
<1>2. loop.todo = me.todo /\ loop.cand = 0 /\ loop.pc = "next"
  BY DEF ActorState
<1>3. Looped(me) = IF me.todo = {} THEN Returned(out) ELSE loop
  BY DEF Looped
<1>. HIDE DEF out, loop
<1>. QED BY <1>1, <1>2, <1>3, ReturnedFields

\* A process without a list is tidy unless it is at a place Tidy speaks of.
LEMMA TidyPlain ==
  ASSUME NEW a \in Actors, NEW me, me.todo = {}, me.cand = 0,
         me.pc \notin {"terminate", "create", "create_now"},
         me.pc \notin {"read", "push_new"} \/ a \notin Users
  PROVE  Tidy(a, me)'
BY DEF Tidy

LEMMA TidyStep ==
  ASSUME Attended, WellFormed, WellFormed', [Next]_vars, Housed, AllTidy, Extras
  PROVE  Housed' /\ AllTidy'
<1>r. RowsStay
  BY RowsStayStep
\* What was tidy before, with the rows of others, still is.
<1>t. ASSUME NEW a \in Actors PROVE Tidy(a, act[a])' \/ act'[a] # act[a]
  <2>1. SUFFICES ASSUME act'[a] = act[a] PROVE Tidy(a, act[a])'
    OBVIOUS
  <2>2. /\ Tidy(a, act[a]) /\ Refers(status, act[a])
        /\ act[a].cand \in Rows \cup {0} /\ act[a].todo \subseteq Rows
        /\ \A d \in Rows : d # 0
    BY Frame DEF AllTidy
  <2>3. \A d \in Rows : status[d] # "absent" /\ AtMain(d) => AtMain(d)'
    BY <1>r DEF RowsStay, AtMain
  <2>4. \A d \in act[a].todo : AtMain(d)'
    BY <2>2, <2>3 DEF Tidy, Refers
  <2>5. act[a].cand # 0 => act[a].pc \in {"push", "push_new"} \/ AtMain(act[a].cand)'
    BY <2>1, <2>2, <2>3 DEF Tidy, Refers
  <2>. QED BY <2>1, <2>2, <2>4, <2>5 DEF Tidy, AtMain
<1>b. ASSUME NEW a \in Actors, NEW s, Become(a, s), Tidy(a, s)' PROVE AllTidy'
  <2>1. act'[a] = s /\ \A b \in Actors : b # a => act'[b] = act[b]
    BY <1>b, Frame DEF Become
  <2>2. ASSUME NEW b \in Actors PROVE Tidy(b, act[b])'
    <3>1. CASE b = a
      BY <1>b, <2>1, <3>1 DEF Tidy, AtMain
    <3>2. CASE b # a
      BY <1>t, <2>1, <3>2
    <3>. QED BY <3>1, <3>2
  <2>. QED BY <2>2 DEF AllTidy
<1>f. \A a \in Actors : Tidy(a, act[a])
  BY DEF AllTidy
<1>m. ASSUME row' = row PROVE \A d \in Rows : AtMain(d)' <=> AtMain(d)
  BY <1>m DEF AtMain
\* Steps of a process that has no list and checks nothing afterwards.
<1>i. ASSUME NEW a \in Actors, Become(a, Idle) PROVE AllTidy'
  <2>1. Idle.todo = {} /\ Idle.cand = 0 /\ Idle.pc = "idle"
    BY DEF Idle
  <2>. QED BY <1>b, <1>i, <2>1, TidyPlain
<1>j. ASSUME NEW a \in Actors, NEW d \in Rows, Become(a, Failed(d)) PROVE AllTidy'
  <2>1. Failed(d).todo = {} /\ Failed(d).cand = 0 /\ Failed(d).pc = "check"
    BY DEF Failed, Idle
  <2>. QED BY <1>b, <1>j, <2>1, TidyPlain
\* A new row is on a server of its lane; the others stay.
<1>h. ASSUME \A d \in Rows : status[d] = "absent" /\ status'[d] # "absent" =>
                                row'[d].server \in Site(row'[d].lane)
      PROVE  Housed'
  BY <1>h, <1>r DEF Housed, Created, RowsStay
<1>1. ASSUME NEW u \in Users, CheckExisting(u) PROVE AllTidy'
  <2>1. PICK l \in Lanes, c \in Commits :
          Become(u, [Idle EXCEPT !.pc = "create",
                       !.req = [lane |-> l, server |-> MainServer[l],
                                commit |-> c, only_this_server |-> FALSE]])
    BY <1>1 DEF CheckExisting
  <2> DEFINE s == [Idle EXCEPT !.pc = "create",
                     !.req = [lane |-> l, server |-> MainServer[l],
                              commit |-> c, only_this_server |-> FALSE]]
  <2>2. /\ s.todo = {} /\ s.cand = 0 /\ s.pc = "create"
        /\ s.req.lane = l /\ s.req.server = MainServer[l]
    BY DEF Idle
  <2>3. Become(u, s)
    BY <2>1
  <2>. HIDE DEF s
  <2>4. Tidy(u, s)'
    BY <2>2 DEF Tidy, Site
  <2>. QED BY <1>b, <2>3, <2>4, Frame
<1>2. ASSUME NEW u \in Users, Redeploy(u) PROVE AllTidy'
  <2>0. PICK l \in Lanes, only \in BOOLEAN :
          \E x \in {MainServer[l]} \cup (IF only THEN ExtraServers[l] ELSE {}) :
            Become(u, [Idle EXCEPT !.pc = "create_now",
                         !.req = [lane |-> l, server |-> x, commit |-> Head,
                                  only_this_server |-> only]])
    BY <1>2 DEF Redeploy
  <2>1. PICK x \in Site(l) :
          Become(u, [Idle EXCEPT !.pc = "create_now",
                       !.req = [lane |-> l, server |-> x, commit |-> Head,
                                only_this_server |-> only]])
    BY <2>0 DEF Site, Additional
  <2> DEFINE s == [Idle EXCEPT !.pc = "create_now",
                     !.req = [lane |-> l, server |-> x, commit |-> Head,
                              only_this_server |-> only]]
  <2>2. /\ s.todo = {} /\ s.cand = 0 /\ s.pc = "create_now"
        /\ s.req.lane = l /\ s.req.server = x
    BY DEF Idle
  <2>3. Become(u, s)
    BY <2>1
  <2>. HIDE DEF s
  <2>4. Tidy(u, s)'
    BY <2>2, <2>3 DEF Tidy
  <2>. QED BY <1>b, <2>3, <2>4, Frame
<1>3. ASSUME NEW u \in Users, NEW d \in Rows, ForceStart(u, d) PROVE AllTidy'
  <2> DEFINE s == [Idle EXCEPT !.pc = "push", !.cand = d]
  <2>1. s.todo = {} /\ s.pc = "push"
    BY DEF Idle
  <2>2. Become(u, s)
    BY <1>3 DEF ForceStart
  <2>. HIDE DEF s
  <2>. QED BY <1>b, <2>1, <2>2, Frame DEF Tidy
<1>4. ASSUME NEW u \in Users, NEW d \in Rows, Cancel(u, d) PROVE AllTidy'
  <2>1. row[d] \in Deployment /\ row[d].server \in Site(row[d].lane)
    BY <1>4 DEF Cancel, WellFormed, References, Created, Housed
  <2>2. row[d].lane \in Lanes
    BY <2>1 DEF Deployment
  <2>3. /\ BuildServers[row[d].lane] = {}
        /\ row[d].server = MainServer[row[d].lane]
    BY <1>4, <2>1, <2>2 DEF Cancel, Attended, Site, Additional
  <2> DEFINE s == [Idle EXCEPT !.pc = "read", !.srv = row[d].server]
  <2>4. Become(u, s)
    BY <1>4, <2>3 DEF Cancel
  <2>5. s.todo = {} /\ s.cand = 0 /\ s.pc = "read" /\ s.srv = row[d].server
    BY DEF Idle
  <2>6. PICK me : Become(u, me) /\ me.todo = {} /\ me.cand = 0 /\ me.pc = "read"
                  /\ me.srv = row[d].server
    <3>. HIDE DEF s
    <3>. QED BY <2>4, <2>5
  <2>7. \E l \in Lanes : me.srv = MainServer[l]
    BY <2>2, <2>3, <2>6
  <2>. QED BY <1>b, <2>6, <2>7, Frame DEF Tidy
<1>5. ASSUME NEW u \in Users, CheckDeploymentQueue(u) \/ (\E d \in Rows : ApiCancel(u, d))
             \/ (\E l \in Lanes : ClosePullRequest(u, l))
      PROVE  FALSE
  BY <1>5 DEF CheckDeploymentQueue, ApiCancel, ClosePullRequest, Attended
<1>6. ASSUME NEW a \in Actors, Terminate(a) PROVE FALSE
  BY <1>6, <1>f DEF Terminate, Tidy
<1>7. ASSUME NEW u \in Users, CreateRow(u) PROVE Housed' /\ AllTidy'
  <2>1. CASE Become(u, Idle) /\ UNCHANGED <<status, row>>
    BY <1>h, <1>i, <2>1, Frame
  <2>2. ASSUME NEW d \in Rows, NewRow(d), status' = [status EXCEPT ![d] = "queued"],
               row' = [row EXCEPT ![d] = act[u].req],
               Become(u, [Idle EXCEPT !.cand = d,
                            !.pc = IF act[u].pc = "create" THEN "admit_lane"
                                   ELSE "push"])
        PROVE  Housed' /\ AllTidy'
    <3>1. PICK p \in {"admit_lane", "push"} :
            /\ Become(u, [Idle EXCEPT !.cand = d, !.pc = p])
            /\ p = "admit_lane" => act[u].pc = "create"
      BY <2>2
    <3> DEFINE s == [Idle EXCEPT !.cand = d, !.pc = p]
    <3>2. Become(u, s) /\ s.todo = {} /\ s.cand = d /\ s.pc = p
      BY <3>1 DEF Idle
    <3>. HIDE DEF s
    <3>3. row'[d] = act[u].req
      BY <2>2 DEF WellFormed, TypeOK
    <3>4. /\ act[u].req.server \in Site(act[u].req.lane)
          /\ act[u].pc = "create" => act[u].req.server = MainServer[act[u].req.lane]
      BY <1>7, <1>f, Frame DEF CreateRow, Tidy
    <3>5. Tidy(u, s)'
      BY <3>1, <3>2, <3>3, <3>4, Frame DEF Tidy, AtMain
    <3>6. \A e \in Rows : status[e] = "absent" /\ status'[e] # "absent" => e = d
      BY <2>2, Frame
    <3>. QED BY <1>b, <1>h, <3>2, <3>3, <3>4, <3>5, <3>6, Frame
  <2>. QED BY <1>7, <2>1, <2>2 DEF CreateRow
<1>8. ASSUME NEW u \in Users, AdmitLane(u) \/ AdmitCount(u) PROVE AllTidy'
  <2>1. /\ row' = row /\ u \in Actors /\ act[u] \in ActorState
        /\ act[u].pc \in {"admit_lane", "admit_count"}
    BY <1>8, Frame DEF AdmitLane, AdmitCount
  <2>2. \/ Become(u, Idle)
        \/ \E p \in {"admit_count", "push"} : Become(u, [act[u] EXCEPT !.pc = p])
    BY <1>8 DEF AdmitLane, AdmitCount
  <2>3. ASSUME NEW p \in {"admit_count", "push"}, Become(u, [act[u] EXCEPT !.pc = p])
        PROVE  AllTidy'
    <3>1. PICK s : Become(u, s) /\ s.todo = act[u].todo /\ s.cand = act[u].cand
                   /\ s.pc = p
      BY <2>1, <2>3 DEF ActorState
    <3>2. s.todo = {} /\ s.cand \in Rows \cup {0} /\ (s.cand # 0 => AtMain(s.cand)')
      BY <1>f, <1>m, <2>1, <3>1, Frame DEF Tidy
    <3>. QED BY <1>b, <2>1, <3>1, <3>2 DEF Tidy, AtMain
  <2>. QED BY <1>i, <2>1, <2>2, <2>3
\* The loop of a scan goes on with rows that are at their main servers.
<1>l. ASSUME NEW a \in Actors, NEW me \in ActorState, Become(a, Looped(me)), row' = row,
             \A d \in me.todo : AtMain(d)
      PROVE  AllTidy'
  <2>1. PICK s : /\ Become(a, s) /\ s.todo = me.todo /\ s.cand = 0
                 /\ s.pc \in {"next", "idle", "post", "post2", "run2"}
                 /\ s.todo # {} => s.pc = "next"
    BY <1>l, LoopedFields
  <2>2. \A d \in s.todo : AtMain(d)'
    BY <1>l, <1>m, <2>1 DEF ActorState
  <2>. QED BY <1>b, <2>1, <2>2 DEF Tidy
<1>9. ASSUME NEW a \in Actors, ReadQueue(a) PROVE AllTidy'
  <2> DEFINE queued == {d \in Rows : /\ status[d] = "queued"
                                     /\ row[d].server = ScanServer(a)}
             me == [act[a] EXCEPT !.extra = {}, !.todo = queued]
  <2>1. me \in ActorState /\ me.todo = queued
    <3>1. act[a] \in ActorState /\ queued \subseteq Rows
      BY Frame
    <3>. HIDE DEF queued
    <3>. QED BY <3>1 DEF ActorState
  <2>2. Become(a, Looped(me)) /\ row' = row /\ act[a].pc = "read"
    BY <1>9 DEF ReadQueue
  <2>3. \E l \in Lanes : ScanServer(a) = MainServer[l]
    <3>1. CASE a \in Workers
      <4>1. row[act[a].cur].lane \in Lanes
        BY <2>2, <3>1, Frame DEF WellFormed, References, Created, Deployment
      <4>. QED BY <3>1, <4>1 DEF ScanServer
    <3>2. CASE a \in Users
      BY <1>f, <2>2, <3>2, Frame DEF Tidy, ScanServer
    <3>. QED BY <3>1, <3>2, Frame
  <2>4. ASSUME NEW d \in queued PROVE AtMain(d)
    <3>1. row[d].server \in Site(row[d].lane) /\ row[d].lane \in Lanes
      BY DEF Housed, Created, WellFormed, References, Deployment
    <3>. QED BY <2>3, <3>1 DEF Attended, Site, Additional, AtMain
  <2>. HIDE DEF me
  <2>. QED BY <1>l, <2>1, <2>2, <2>4
<1>10. ASSUME NEW a \in Actors, ScanLane(a) PROVE AllTidy'
  <2>1. PICK d \in Rows :
          /\ Oldest(d, act[a].todo)
          /\ LET rest == [act[a] EXCEPT !.todo = act[a].todo \ {d}]
             IN  Become(a, IF LaneBusy(row[d].lane) THEN Looped(rest)
                           ELSE [rest EXCEPT !.pc = "scan_count", !.cand = d])
    BY <1>10 DEF ScanLane
  <2> DEFINE rest == [act[a] EXCEPT !.todo = act[a].todo \ {d}]
             next == [rest EXCEPT !.pc = "scan_count", !.cand = d]
  <2>2. rest \in ActorState /\ rest.todo = act[a].todo \ {d}
    BY Frame DEF ActorState
  <2>3. next.todo = act[a].todo \ {d} /\ next.cand = d /\ next.pc = "scan_count"
    BY Frame DEF ActorState
  <2>4. row' = row /\ AtMain(d) /\ \A e \in rest.todo : AtMain(e)
    BY <1>10, <1>f, <2>1, <2>2 DEF ScanLane, Tidy, Oldest
  <2>5. CASE Become(a, next)
    <3>. HIDE DEF next
    <3>1. PICK s : Become(a, s) /\ s.todo = act[a].todo \ {d} /\ s.cand = d
                   /\ s.pc = "scan_count"
      BY <2>3, <2>5
    <3>2. \A e \in s.todo : AtMain(e)'
      BY <1>m, <2>2, <2>4, <3>1, Frame
    <3>3. AtMain(d)'
      BY <1>m, <2>4
    <3>. QED BY <1>b, <3>1, <3>2, <3>3 DEF Tidy, AtMain
  <2>6. CASE Become(a, Looped(rest))
    <3>. HIDE DEF rest
    <3>. QED BY <1>l, <2>2, <2>4, <2>6
  <2>. QED BY <2>1, <2>5, <2>6
<1>11. ASSUME NEW a \in Actors, ScanCount(a) \/ Mark(a) PROVE AllTidy'
  <2>1. /\ row' = row /\ act[a] \in ActorState
        /\ act[a].pc \in {"scan_count", "mark"}
    BY <1>11, Frame DEF ScanCount, Mark
  <2>2. \/ Become(a, Looped(act[a]))
        \/ \E p \in {"mark", "push"} : Become(a, [act[a] EXCEPT !.pc = p])
    BY <1>11 DEF ScanCount, Mark, Goto, Become
  <2>3. ASSUME NEW p \in {"mark", "push"}, Become(a, [act[a] EXCEPT !.pc = p])
        PROVE  AllTidy'
    <3>1. PICK s : Become(a, s) /\ s.todo = act[a].todo /\ s.cand = act[a].cand
                   /\ s.pc = p
      BY <2>1, <2>3 DEF ActorState
    <3>2. /\ \A d \in s.todo : AtMain(d)'
          /\ s.cand \in Rows \cup {0} /\ (s.cand # 0 => AtMain(s.cand)')
      BY <1>f, <1>m, <2>1, <3>1, Frame DEF Tidy
    <3>. QED BY <1>b, <3>1, <3>2 DEF Tidy, AtMain
  <2>4. \A d \in act[a].todo : AtMain(d)
    BY <1>f DEF Tidy
  <2>. QED BY <1>l, <2>1, <2>2, <2>3, <2>4
<1>12. ASSUME NEW a \in Actors, Push(a) PROVE AllTidy'
  <2>1. row' = row /\ act[a] \in ActorState
    BY <1>12, Frame DEF Push
  <2>2. CASE act[a].pc = "push"
    BY <1>12, <1>f, <1>l, <2>1, <2>2 DEF Push, Tidy
  <2>3. CASE act[a].pc = "push_new"
    <3> DEFINE read == [act[a] EXCEPT !.pc = "read", !.cand = 0]
    <3>0. /\ Become(a, read)
          /\ read.todo = act[a].todo /\ read.cand = 0 /\ read.pc = "read"
      BY <1>12, <2>1, <2>3 DEF Push, ActorState
    <3>. HIDE DEF read
    <3>1. PICK s : Become(a, s) /\ s.todo = act[a].todo /\ s.cand = 0 /\ s.pc = "read"
      BY <3>0
    <3>2. s.todo = {} /\ a \notin Users
      BY <1>f, <2>3, <3>1 DEF Tidy
    <3>. QED BY <1>b, <3>1, <3>2, TidyPlain
  <2>. QED BY <1>12, <2>2, <2>3 DEF Push
\* Between scans a worker has no list and is about to check nothing.
<1>e. ASSUME NEW w \in Workers, act[w].pc \in {"run", "run2", "post", "post2", "check",
                                               "write", "begin"}
      PROVE  act[w].todo = {} /\ act[w].cand = 0
  BY <1>e, <1>f, Frame DEF Tidy
<1>13. ASSUME NEW w \in Workers, NEW me \in ActorState, Transition(w, me), me.todo = {},
              me.cand = 0, me.cur \in Rows
       PROVE  AllTidy'
  <2> DEFINE write == [me EXCEPT !.pc = "write", !.local = status[me.cur]]
  <2>1. /\ write.todo = me.todo /\ write.cand = me.cand /\ write.pc = "write"
        /\ row' = row /\ w \in Actors
    BY <1>13, Frame DEF Transition, ActorState
  <2>2. Become(w, Returned(me)) \/ Become(w, Idle) \/ Become(w, Failed(me.cur))
        \/ Become(w, write)
    BY <1>13 DEF Transition
  <2>. HIDE DEF write
  <2>3. ASSUME Become(w, Returned(me)) \/ Become(w, write) PROVE AllTidy'
    <3>1. PICK s : /\ Become(w, s) /\ s.todo = {} /\ s.cand = 0
                   /\ s.pc \in {"idle", "post", "post2", "run2", "write"}
      BY <1>13, <2>1, <2>3, ReturnedFields
    <3>. QED BY <1>b, <2>1, <3>1, TidyPlain
  <2>. QED BY <1>13, <1>i, <1>j, <2>1, <2>2, <2>3
<1>14. ASSUME NEW w \in Workers, Unhealthy(w) \/ Complete(w) \/ CompleteAgain(w)
       PROVE  AllTidy'
  <2>1. PICK g \in {"failed", "finished"}, r \in {"run2", "post", "post2"} :
          Transition(w, [act[w] EXCEPT !.goal = g, !.ret = r])
    BY <1>14 DEF Unhealthy, Complete, CompleteAgain
  <2>2. act[w].pc \in {"run", "run2", "post"} /\ act[w] \in ActorState
        /\ act[w].cur \in Rows
    BY <1>14, Frame DEF Unhealthy, Complete, CompleteAgain
  <2> DEFINE me == [act[w] EXCEPT !.goal = g, !.ret = r]
  <2>3. me \in ActorState /\ me.todo = act[w].todo /\ me.cand = act[w].cand
        /\ me.cur = act[w].cur
    BY <2>2 DEF ActorState
  <2>. HIDE DEF me
  <2>4. me.todo = {} /\ me.cand = 0
    BY <1>e, <2>2, <2>3
  <2>. QED BY <1>13, <2>1, <2>2, <2>3, <2>4 DEF me
<1>15. ASSUME NEW w \in Workers, FailDeployment(w) PROVE AllTidy'
  BY <1>13, <1>15, <1>e, Frame DEF FailDeployment
<1>16. ASSUME NEW w \in Workers, NEW d \in Rows, Reserve(w, d) PROVE AllTidy'
  <2> DEFINE begin == [Idle EXCEPT !.pc = "begin", !.cur = d, !.local = status[d]]
  <2>1. begin.todo = {} /\ begin.cand = 0 /\ begin.pc = "begin"
    BY DEF Idle
  <2>2. Become(w, Idle) \/ Become(w, begin)
    BY <1>16 DEF Reserve
  <2>. HIDE DEF begin
  <2>3. PICK s : Become(w, s) /\ (s = Idle \/ (s.todo = {} /\ s.cand = 0 /\ s.pc = "begin"))
    BY <2>1, <2>2
  <2>. QED BY <1>b, <1>i, <2>3, Frame, TidyPlain
<1>17. ASSUME NEW w \in Workers, NEW d \in Rows, ReserveExpired(w, d) PROVE AllTidy'
  BY <1>17, <1>j, Frame DEF ReserveExpired
<1>18. ASSUME NEW w \in Workers, HandleUpdate(w) \/ WriteStatus(w) PROVE AllTidy'
  <2>1. /\ row' = row /\ w \in Actors /\ act[w] \in ActorState
        /\ act[w].pc \in {"begin", "write"}
    BY <1>18, Frame DEF HandleUpdate, WriteStatus
  <2>2. \E p \in {"run", "read"} : \E x :
          Become(w, [act[w] EXCEPT !.pc = p, !.local = "queued", !.extra = x])
    <3>1. CASE HandleUpdate(w)
      <4>1. [act[w] EXCEPT !.pc = "run", !.local = "queued"]
            = [act[w] EXCEPT !.pc = "run", !.local = "queued", !.extra = act[w].extra]
        BY <2>1 DEF ActorState
      <4>. QED BY <3>1, <4>1 DEF HandleUpdate
    <3>2. CASE WriteStatus(w)
      BY <3>2 DEF WriteStatus
    <3>. QED BY <1>18, <3>1, <3>2
  <2>3. PICK p \in {"run", "read"} :
          \E x : Become(w, [act[w] EXCEPT !.pc = p, !.local = "queued", !.extra = x])
    BY <2>2
  <2>8. PICK x : Become(w, [act[w] EXCEPT !.pc = p, !.local = "queued", !.extra = x])
    BY <2>3
  <2> DEFINE next == [act[w] EXCEPT !.pc = p, !.local = "queued", !.extra = x]
  <2>4. next.todo = act[w].todo /\ next.cand = act[w].cand /\ next.pc = p
    BY <2>1 DEF ActorState
  <2>5. Become(w, next)
    BY <2>8
  <2>. HIDE DEF next
  <2>6. PICK s : Become(w, s) /\ s.todo = act[w].todo /\ s.cand = act[w].cand /\ s.pc = p
    BY <2>4, <2>5
  <2>7. s.todo = {} /\ s.cand = 0
    BY <1>e, <2>1, <2>6
  <2>. QED BY <1>b, <2>1, <2>6, <2>7, Frame, TidyPlain
<1>19. ASSUME NEW w \in Workers, Throw(w) PROVE AllTidy'
  BY <1>19, <1>j, Frame DEF Throw
<1>20. ASSUME NEW w \in Workers, DeployToAdditional(w) PROVE Housed' /\ AllTidy'
  <2>1. PICK x \in act[w].extra, d \in Rows :
          /\ NewRow(d)
          /\ status' = [status EXCEPT ![d] = "queued"]
          /\ row' = [row EXCEPT ![d] = [lane |-> row[act[w].cur].lane, server |-> x,
                                        commit |-> Head, only_this_server |-> FALSE]]
          /\ Become(w, [act[w] EXCEPT !.pc = "push_new", !.cand = d,
                                      !.extra = act[w].extra \ {x}])
    BY <1>20 DEF DeployToAdditional
  <2>2. /\ w \in Actors /\ w \notin Users /\ act[w] \in ActorState
        /\ act[w].todo = {} /\ x \in Additional
    BY <1>20, <1>f, Frame DEF DeployToAdditional, Tidy, Extras
  <2> DEFINE new == [lane |-> row[act[w].cur].lane, server |-> x, commit |-> Head,
                     only_this_server |-> FALSE]
             s == [act[w] EXCEPT !.pc = "push_new", !.cand = d,
                                 !.extra = act[w].extra \ {x}]
  <2>3. s.todo = act[w].todo /\ s.cand = d /\ s.pc = "push_new"
    BY <2>2 DEF ActorState
  <2>4. Become(w, s) /\ new.server = x
    BY <2>1
  <2>5. row'[d] = new
    BY <2>1 DEF WellFormed, TypeOK
  <2>. HIDE DEF s, new
  <2>6. PICK me : Become(w, me) /\ me.todo = {} /\ me.cand = d /\ me.pc = "push_new"
    BY <2>2, <2>3, <2>4
  <2>7. AllTidy'
    BY <1>b, <2>2, <2>6 DEF Tidy
  <2>8. \A e \in Rows : status[e] = "absent" /\ status'[e] # "absent" => e = d
    BY <2>1, Frame
  <2>. QED BY <1>h, <2>2, <2>4, <2>5, <2>7, <2>8 DEF Site
<1>21. ASSUME Disturb PROVE AllTidy'
  <2>2. ~Spend("fault", MaxFaults)
    BY DEF Spend, Attended, WellFormed, TypeOK
  <2>3. CASE Shutdown
    <3>1. Idle.todo = {} /\ Idle.cand = 0 /\ Idle.pc = "idle"
      BY DEF Idle
    <3>2. \A a \in Actors : act'[a] = Idle
      BY <2>3 DEF Shutdown
    <3>. QED BY <3>1, <3>2 DEF AllTidy, Tidy, AtMain
  <2>4. CASE AppInit
    BY <1>t, <2>4 DEF AppInit, AllTidy
  <2>5. Shutdown \/ AppInit
    BY <1>21, <2>2 DEF Disturb, Timeout, KillWorker, DispatchThrows
  <2>. QED BY <2>3, <2>4, <2>5
<1>22. ASSUME row' = row, act' = act PROVE AllTidy'
  BY <1>t, <1>22 DEF AllTidy
<1>23. ASSUME NEW w \in Workers, ResolveCommit(w) PROVE AllTidy'
  BY <1>t, <1>23 DEF ResolveCommit, AllTidy
<1>24. ASSUME NEW w \in Workers, Finish(w) PROVE AllTidy'
  BY <1>24, <1>i, Frame DEF Finish
<1>25. ASSUME NEW a \in Actors, Scan(a) PROVE AllTidy'
  BY <1>9, <1>10, <1>11, <1>12, <1>25 DEF Scan
<1>26. AllTidy'
  BY <1>1, <1>2, <1>3, <1>4, <1>5, <1>6, <1>7, <1>8, <1>14, <1>15, <1>16, <1>17,
     <1>18,
     <1>19, <1>20, <1>21, <1>22, <1>23, <1>24, <1>25, Frame
     DEF Next, vars, Request, Respond, Work
\* Only CreateRow and DeployToAdditional create a row.
<1>27. Housed'
  <2>1. CASE \E u \in Users : CreateRow(u)
    BY <1>7, <2>1
  <2>2. CASE \E w \in Workers : DeployToAdditional(w)
    BY <1>20, <2>2
  <2>3. CASE /\ ~\E u \in Users : CreateRow(u)
             /\ ~\E w \in Workers : DeployToAdditional(w)
    <3>1. \A d \in Rows : status'[d] # "absent" => status[d] # "absent"
      <4>0. Users \subseteq Actors /\ Workers \subseteq Actors
        BY Frame
      <4>1. ASSUME NEW a \in Actors, Scan(a)
            PROVE  \A d \in Rows : status'[d] # "absent" => status[d] # "absent"
        BY <4>1, Frame
           DEF Scan, ReadQueue, ScanLane, ScanCount, Mark, Push, Refers
      <4>2. ASSUME NEW u \in Users, Request(u) \/ Respond(u)
            PROVE  \A d \in Rows : status'[d] # "absent" => status[d] # "absent"
        BY <1>6, <2>3, <4>0, <4>1, <4>2, Frame
           DEF Request, Respond, CheckExisting, Redeploy, CheckDeploymentQueue,
               ForceStart, Cancel, ApiCancel, ClosePullRequest, AdmitLane,
               AdmitCount
      <4>3. ASSUME NEW w \in Workers, Work(w)
            PROVE  \A d \in Rows : status'[d] # "absent" => status[d] # "absent"
        BY <2>3, <4>0, <4>1, <4>3, Frame
           DEF Work, Reserve, ReserveExpired, HandleUpdate, ResolveCommit,
               Unhealthy, Complete, CompleteAgain, FailDeployment, Transition,
               Throw, Finish, WriteStatus
      <4>4. ASSUME Disturb
            PROVE  \A d \in Rows : status'[d] # "absent" => status[d] # "absent"
        BY <4>4, Frame
           DEF Disturb, Timeout, KillWorker, DispatchThrows, Shutdown, AppInit,
               Active
      <4>. QED BY <4>2, <4>3, <4>4 DEF Next, vars
    <3>. QED BY <1>h, <3>1
  <2>. QED BY <2>1, <2>2, <2>3
<1>. QED BY <1>26, <1>27

-----------------------------------------------------------------------------
(* NobodyForgotten *)

\* What code in state failed() does not go past without a scan.
Over == {"failed", "cancelled-by-user"}

\* Actor a will certainly run the query for the queued rows of server x.  A
\* worker may yet be stopped from it: failed() scans nothing when it finds the
\* row terminal, and an exception on the way from a success to its scan leads
\* there.
Sure(a, x) ==
  /\ act[a].pc \in {"read", "push_new", "write", "check"}
  /\ ScanServer(a) = x
  /\ a \notin Workers => act[a].pc = "read"
  /\ a \in Workers =>
       \/ status[act[a].cur] \notin Over
       \/ /\ act[a].pc # "check"
          /\ \/ act[a].goal # "finished"
             \/ act[a].pc = "write" /\ act[a].local # "finished"

Blocked(d) == \E e \in Rows : /\ InProgress(e)
                              /\ \/ row[e].lane = row[d].lane
                                 \/ row[e].server = row[d].server

\* The inductive form of NobodyForgotten: a deployment waits at the server that
\* is scanned, and who is going to scan it cannot be stopped from it by a status
\* somebody else writes.
Minded ==
  \A d \in Rows : Waiting(d) /\ up =>
    /\ AtMain(d)
    /\ \/ Blocked(d)
       \/ \E a \in Actors : d \in act[a].todo \/ Sure(a, row[d].server)

\* What a step of actor a to the state s owes to the deployments that wait: when
\* it ends a blocker, or keeps somebody from a scan, it is sure to scan itself.
Owed(a) ==
  \A e \in Rows :
    \/ InProgress(e) /\ ~InProgress(e)'
    \/ status[e] \notin Over /\ status'[e] \in Over
    => Sure(a, MainServer[row[e].lane])'

\* A scan that actor a was sure to do is still to come, or it has the result.
Kept(a, s) ==
  \A x \in Servers : Sure(a, x) =>
    \/ Sure(a, x)'
    \/ \A d \in Rows : status'[d] = "queued" /\ row'[d].server = x => d \in s.todo

\* A deployment queued afterwards was so before and a had nothing to do with it,
\* or a takes care of it, or something blocks it.
Attends(a, s) ==
  \A d \in Rows : status'[d] = "queued" =>
    \/ /\ status[d] = "queued"
       /\ d \notin act[a].todo /\ act[a].cand # d
       /\ ~(a \in Workers /\ HoldsIn(status, act[a], d))
       /\ jobs[d] > 0 => jobs'[d] > 0
       /\ expired[d] > 0 => expired'[d] > 0
    \/ d \in s.todo \/ s.cand = d
    \/ jobs'[d] > 0 \/ expired'[d] > 0
    \/ a \in Workers /\ HoldsIn(status, s, d)
    \/ Blocked(d)' /\ AtMain(d)'

\* Two deployments of a server that is somebody's main server, or of a lane,
\* are scanned for together.
LEMMA SameScan ==
  ASSUME Attended, WellFormed, Housed, NEW d \in Rows, NEW e \in Rows,
         Created(d), Created(e), AtMain(d),
         row[e].lane = row[d].lane \/ row[e].server = row[d].server
  PROVE  MainServer[row[e].lane] = row[d].server
<1>1. row[d].lane \in Lanes /\ row[e].lane \in Lanes
  BY DEF WellFormed, References, Deployment
<1>2. row[e].server \in Site(row[e].lane)
  BY DEF Housed
<1>. QED BY <1>1, <1>2 DEF Attended, Site, Additional, AtMain

LEMMA MindedBecome ==
  ASSUME Attended, WellFormed, WellFormed', Housed, AllTidy', RowsStay, Minded,
         NEW a \in Actors, NEW s, Become(a, s), up, up',
         Owed(a), Kept(a, s), Attends(a, s)
  PROVE  Minded'
<1>1. act'[a] = s /\ \A b \in Actors : b # a => act'[b] = act[b]
  BY Frame DEF Become
<1>2. SUFFICES ASSUME NEW d \in Rows, Waiting(d)'
               PROVE  /\ AtMain(d)'
                      /\ \/ Blocked(d)'
                         \/ \E b \in Actors : d \in act'[b].todo \/ Sure(b, row[d].server)'
  BY DEF Minded
<1>3. /\ status'[d] = "queued" /\ ~(jobs'[d] > 0) /\ ~(expired'[d] > 0)
      /\ s.cand # d /\ ~(a \in Workers /\ HoldsIn(status, s, d))
  BY <1>1, <1>2 DEF Waiting, Carried, Holds, HoldsIn
<1>4. CASE d \in s.todo
  <2>1. AtMain(d)'
    BY <1>1, <1>4 DEF AllTidy, Tidy
  <2>. QED BY <1>1, <1>4, <2>1
<1>5. CASE Blocked(d)' /\ AtMain(d)'
  BY <1>5
<1>6. CASE /\ status[d] = "queued"
           /\ d \notin act[a].todo /\ act[a].cand # d
           /\ ~(a \in Workers /\ HoldsIn(status, act[a], d))
           /\ jobs[d] > 0 => jobs'[d] > 0
           /\ expired[d] > 0 => expired'[d] > 0
  <2>1. Waiting(d)
    <3>1. \A b \in Actors : b # a => act[b].cand # d
      BY <1>1, <1>2 DEF Waiting
    <3>2. \A w \in Workers : w # a => ~Holds(w, d)
      BY <1>1, <1>2, Frame DEF Waiting, Carried, Holds
    <3>. QED BY <1>2, <1>3, <1>6, <3>1, <3>2 DEF Waiting, Carried, Holds, HoldsIn, Dispatching
  <2>2. Created(d) /\ AtMain(d) /\ row'[d].lane = row[d].lane /\ row'[d].server = row[d].server
    BY <1>6, <2>1 DEF Minded, Created, RowsStay
  <2>3. AtMain(d)'
    BY <2>2 DEF AtMain
  <2>4. ASSUME NEW e \in Rows, InProgress(e),
               row[e].lane = row[d].lane \/ row[e].server = row[d].server
        PROVE  Blocked(d)' \/ Sure(a, row[d].server)'
    <3>1. Created(e) /\ row'[e].lane = row[e].lane /\ row'[e].server = row[e].server
      BY <2>4 DEF InProgress, Created, RowsStay
    <3>2. MainServer[row[e].lane] = row[d].server
      BY <2>2, <2>4, <3>1, SameScan
    <3>3. CASE InProgress(e)'
      BY <2>2, <2>4, <3>1, <3>3 DEF Blocked
    <3>4. CASE ~InProgress(e)'
      <4>1. Sure(a, MainServer[row[e].lane])'
        BY <2>4, <3>4 DEF Owed
      <4>. QED BY <2>2, <3>1, <3>2, <4>1
    <3>. QED BY <3>3, <3>4
  <2>5. ASSUME NEW b \in Actors, d \in act[b].todo
        PROVE  d \in act'[b].todo
    BY <1>1, <1>6, <2>5
  <2>6. row[d].server \in Servers
    BY <2>2 DEF WellFormed, References, Created, Deployment
  <2>7. ASSUME Sure(a, row[d].server)
        PROVE  Sure(a, row[d].server)' \/ d \in act'[a].todo
    BY <1>1, <1>3, <2>2, <2>6, <2>7 DEF Kept
  <2>8. ASSUME NEW b \in Actors, b # a, Sure(b, row[d].server)
        PROVE  Sure(a, row[d].server)' \/ Sure(b, row[d].server)'
    <3>1. act'[b] = act[b]
      BY <1>1, <2>8
    <3>2. CASE b \notin Workers
      BY <2>2, <2>8, <3>1, <3>2 DEF Sure, ScanServer
    <3>3. CASE b \in Workers
      <4>1. /\ act[b].cur \in Rows /\ Created(act[b].cur)
            /\ row'[act[b].cur].lane = row[act[b].cur].lane
        BY <2>8, <3>3, Frame DEF Sure, Created, RowsStay
      <4>2. CASE status[act[b].cur] \notin Over /\ status'[act[b].cur] \in Over
        <5>1. Sure(a, MainServer[row[act[b].cur].lane])'
          BY <3>1, <4>1, <4>2 DEF Owed
        <5>2. MainServer[row[act[b].cur].lane] = row[d].server
          BY <2>8, <3>3 DEF Sure, ScanServer
        <5>. QED BY <2>2, <3>1, <4>1, <5>1, <5>2
      <4>3. CASE status[act[b].cur] \in Over \/ status'[act[b].cur] \notin Over
        BY <2>2, <2>8, <3>1, <3>3, <4>1, <4>3 DEF Sure, ScanServer
      <4>. QED BY <4>2, <4>3
    <3>. QED BY <3>2, <3>3
  <2>9. \/ Blocked(d)
        \/ \E b \in Actors : d \in act[b].todo \/ Sure(b, row[d].server)
    BY <2>1 DEF Minded
  <2>. QED BY <2>3, <2>4, <2>5, <2>7, <2>8, <2>9 DEF Blocked
<1>. QED BY <1>3, <1>4, <1>5, <1>6 DEF Attends

\* The steps that leave the table and the jobs alone, of a process with no list.
LEMMA MindedQuiet ==
  ASSUME Attended, WellFormed, WellFormed', Housed, AllTidy', RowsStay, Minded,
         NEW a \in Actors, NEW s, Become(a, s), up' = up,
         UNCHANGED <<status, jobs, expired>>,
         act[a].todo = {}, act[a].cand = 0, Kept(a, s),
         \A d \in Rows : status[d] = "queued" /\ a \in Workers /\ HoldsIn(status, act[a], d)
                         => HoldsIn(status, s, d)
  PROVE  Minded'
<1>1. Owed(a)
  BY DEF Owed, InProgress
<1>2. Attends(a, s)
  BY Frame DEF Attends
<1>3. CASE up
  BY <1>1, <1>2, <1>3, MindedBecome
<1>. QED BY <1>3 DEF Minded

LEMMA IdleKept ==
  ASSUME NEW a \in Actors, act[a].pc \notin {"read", "push_new", "write", "check"}, NEW s
  PROVE  Kept(a, s)
BY DEF Kept, Sure

\* A server whose limit is reached has a deployment in progress.
LEMMA FullBlocks ==
  ASSUME WellFormed, NEW d \in Rows, Created(d), ServerFull(row[d].server)
  PROVE  Blocked(d)
<1> DEFINE there == {e \in Rows : InProgress(e) /\ row[e].server = row[d].server}
<1>1. row[d].server \in Servers
  BY DEF WellFormed, References, Deployment
<1>2. concurrent_builds[row[d].server] \in Nat \ {0}
  BY <1>1, QueueAssumption
<1>3. there # {}
  BY <1>2, FS_EmptySet DEF ServerFull
<1>. QED BY <1>3 DEF Blocked

\* What a web request does.
LEMMA MindedRespond ==
  ASSUME Attended, WellFormed, WellFormed', Housed, AllTidy, AllTidy', RowsStay, Minded,
         NEW u \in Users, CheckExisting(u) \/ Redeploy(u) \/ CreateRow(u)
                          \/ AdmitLane(u) \/ AdmitCount(u)
  PROVE  Minded'
<1>0. /\ u \in Actors /\ u \notin Workers /\ act[u].todo = {} /\ up' = up
      /\ act[u].pc \in {"idle", "create", "create_now", "admit_lane", "admit_count"}
      /\ act[u].pc \in {"idle", "create", "create_now"} => act[u].cand = 0
  BY Frame
     DEF AllTidy, Tidy, CheckExisting, Redeploy, CreateRow, AdmitLane,
         AdmitCount
<1>k. \A s : Kept(u, s)
  BY <1>0, IdleKept
<1>1. CASE CheckExisting(u) \/ Redeploy(u)
  <2>1. PICK s : Become(u, s) /\ UNCHANGED <<status, jobs, expired>>
    BY <1>1 DEF CheckExisting, Redeploy
  <2>. QED BY <1>0, <1>1, <1>k, <2>1, MindedQuiet DEF CheckExisting, Redeploy
<1>2. CASE CreateRow(u)
  <2>1. CASE Become(u, Idle) /\ UNCHANGED <<status, row>>
    BY <1>0, <1>2, <1>k, <2>1, MindedQuiet DEF CreateRow
  <2>2. ASSUME NEW d \in Rows, NewRow(d), status' = [status EXCEPT ![d] = "queued"],
               NEW p, Become(u, [Idle EXCEPT !.cand = d, !.pc = p])
        PROVE  Minded'
    <3> DEFINE s == [Idle EXCEPT !.cand = d, !.pc = p]
    <3>1. Become(u, s) /\ s.cand = d
      BY <2>2 DEF Idle
    <3>. HIDE DEF s
    <3>2. Owed(u)
      BY <2>2, Frame DEF Owed, InProgress, NewRow, Over
    <3>3. jobs' = jobs /\ expired' = expired
      BY <1>2 DEF CreateRow
    <3>4. Attends(u, s)
      BY ZenonT(40), <1>0, <1>2, <2>2, <3>1, <3>3, Frame DEF Attends, CreateRow
    <3>5. CASE up
      BY <1>0, <1>k, <3>1, <3>2, <3>4, <3>5, MindedBecome
    <3>. QED BY <1>0, <3>5 DEF Minded
  <2>. QED BY <1>2, <2>1, <2>2 DEF CreateRow
<1>3. CASE AdmitLane(u) \/ AdmitCount(u)
  <2>1. /\ UNCHANGED <<status, row, jobs, expired>> /\ act[u] \in ActorState
        /\ act[u].cand \in Rows /\ Created(act[u].cand) /\ AtMain(act[u].cand)
    BY <1>0, <1>3, Frame
       DEF AdmitLane, AdmitCount, Refers, Created, AllTidy, Tidy
  <2>2. PICK s : /\ Become(u, s)
                 /\ s.cand = act[u].cand \/ Blocked(act[u].cand)
    <3>1. CASE /\ Become(u, Idle)
               /\ LaneBusy(row[act[u].cand].lane) \/ ServerFull(row[act[u].cand].server)
      <4>1. Blocked(act[u].cand)
        BY <2>1, <3>1, FullBlocks DEF LaneBusy, Blocked
      <4>. QED BY <3>1, <4>1
    <3>2. ASSUME NEW p, Become(u, [act[u] EXCEPT !.pc = p])
          PROVE  \E s : Become(u, s) /\ s.cand = act[u].cand
      BY <2>1, <3>2 DEF ActorState
    <3>. QED BY <1>3, <3>1, <3>2 DEF AdmitLane, AdmitCount
  <2>3. \A d \in Rows : (Blocked(d) => Blocked(d)') /\ (AtMain(d) => AtMain(d)')
    BY <2>1 DEF Blocked, InProgress, AtMain
  <2>4. Owed(u)
    BY <2>1 DEF Owed, InProgress
  <2>5. Attends(u, s)
    BY <1>0, <2>1, <2>2, <2>3 DEF Attends
  <2>6. CASE up
    BY <1>0, <1>k, <2>2, <2>4, <2>5, <2>6, MindedBecome
  <2>. QED BY <1>0, <2>6 DEF Minded
<1>. QED BY <1>1, <1>2, <1>3

\* The operator's actions.
LEMMA MindedOperator ==
  ASSUME Attended, WellFormed, WellFormed', Housed, AllTidy, AllTidy', RowsStay, Minded,
         NEW u \in Users, NEW d \in Rows, ForceStart(u, d) \/ Cancel(u, d)
  PROVE  Minded'
<1>0. /\ u \in Actors /\ u \notin Workers /\ act[u].todo = {} /\ act[u].cand = 0
      /\ up' = up /\ jobs' = jobs /\ expired' = expired /\ act[u].pc = "idle"
      /\ status[d] # "absent"
  BY Frame DEF AllTidy, Tidy, ForceStart, Cancel
<1>k. \A s : Kept(u, s)
  BY <1>0, IdleKept
<1>1. CASE ForceStart(u, d)
  <2>1. PICK s : Become(u, s)
    BY <1>1 DEF ForceStart
  <2>2. Owed(u) /\ Attends(u, s)
    BY <1>0, <1>1, Frame DEF Owed, Attends, InProgress, Over, ForceStart
  <2>3. CASE up
    BY <1>0, <1>k, <2>1, <2>2, <2>3, MindedBecome
  <2>. QED BY <1>0, <2>3 DEF Minded
<1>2. CASE Cancel(u, d)
  <2>1. row[d] \in Deployment /\ row[d].server \in Site(row[d].lane)
    BY <1>2 DEF Cancel, WellFormed, References, Created, Housed
  <2>2. row[d].lane \in Lanes /\ row'[d].lane = row[d].lane
    BY <1>0, <2>1 DEF Deployment, RowsStay
  <2>3. BuildServers[row[d].lane] = {} /\ row[d].server = MainServer[row[d].lane]
    <3>1. \A l \in Lanes : BuildServers[l] = {} /\ ExtraServers[l] = {}
      BY <1>2 DEF Cancel, Attended
    <3>. QED BY <2>1, <2>2, <3>1 DEF Site, Additional
  <2> DEFINE s == [Idle EXCEPT !.pc = "read", !.srv = row[d].server]
  <2>4. Become(u, s) /\ s.pc = "read" /\ s.srv = row[d].server
    BY <1>2, <2>3 DEF Cancel, Idle
  <2>. HIDE DEF s
  <2>5. PICK me : Become(u, me) /\ me.pc = "read" /\ me.srv = row[d].server
    BY <2>4
  <2>6. act'[u] = me
    BY <1>0, <2>5, Frame DEF Become
  <2>7. Sure(u, MainServer[row[d].lane])'
    BY <1>0, <2>2, <2>3, <2>5, <2>6 DEF Sure, ScanServer
  <2>8. ASSUME NEW e \in Rows, e # d PROVE status'[e] = status[e]
    BY <1>2, <2>8, Frame DEF Cancel
  <2>9. Owed(u)
    BY <2>7, <2>8 DEF Owed, InProgress
  <2>10. Attends(u, me)
    BY <1>0, <1>2, Frame DEF Attends, Cancel
  <2>11. CASE up
    BY <1>0, <1>k, <2>5, <2>9, <2>10, <2>11, MindedBecome
  <2>. QED BY <1>0, <2>11 DEF Minded
<1>. QED BY <1>1, <1>2

\* A row that is blocked, or at its main server, stays so while the table stays.
LEMMA BlockedStays ==
  ASSUME UNCHANGED <<status, row>>
  PROVE  \A d \in Rows : (Blocked(d) => Blocked(d)') /\ (AtMain(d) => AtMain(d)')
BY DEF Blocked, InProgress, AtMain

\* The scan itself.
LEMMA MindedScan ==
  ASSUME Attended, WellFormed, WellFormed', Housed, AllTidy, AllTidy', RowsStay, Minded,
         NEW a \in Actors, Scan(a)
  PROVE  Minded'
<1>0. /\ act[a] \in ActorState /\ up' = up /\ expired' = expired /\ row' = row
      /\ act[a].pc \in {"read", "next", "scan_count", "mark", "push", "push_new"}
      /\ \A d \in Rows : ~HoldsIn(status, act[a], d)
      /\ \A d \in act[a].todo : AtMain(d)
      /\ act[a].pc \in {"next", "read"} => act[a].cand = 0
      /\ act[a].cand # 0 => act[a].cand \in Rows /\ Created(act[a].cand)
      /\ act[a].pc \in {"scan_count", "mark", "push", "push_new"} => act[a].cand # 0
      /\ act[a].pc \in {"read", "push_new"} => act[a].todo = {}
  BY Frame
     DEF AllTidy, Tidy, Scan, ReadQueue, ScanLane, ScanCount, Mark, Push,
         HoldsIn, Refers, Created
<1>k. ASSUME act[a].pc \notin {"read", "push_new"}, NEW s PROVE Kept(a, s)
  BY <1>0, <1>k, IdleKept
<1>c. ASSUME NEW s, Become(a, s), Owed(a), Kept(a, s), Attends(a, s) PROVE Minded'
  <2>1. CASE up
    BY <1>0, <1>c, <2>1, MindedBecome
  <2>. QED BY <1>0, <2>1 DEF Minded
<1>o. ASSUME status' = status PROVE Owed(a)
  BY <1>o DEF Owed, InProgress
\* What the scan had to do with a deployment: its list, and the one it checks.
<1>t. ASSUME NEW s, status' = status, jobs' = jobs,
             \A d \in act[a].todo : d \in s.todo \/ s.cand = d \/ Blocked(d),
             act[a].cand # 0 => s.cand = act[a].cand \/ (Blocked(act[a].cand) /\ AtMain(act[a].cand))
      PROVE  Attends(a, s)
  BY <1>0, <1>t, BlockedStays, Frame DEF Attends
<1>1. CASE ReadQueue(a)
  <2> DEFINE queued == {d \in Rows : /\ status[d] = "queued"
                                     /\ row[d].server = ScanServer(a)}
             me == [act[a] EXCEPT !.extra = {}, !.todo = queued]
  <2>1. me \in ActorState /\ me.todo = queued
    <3>1. queued \subseteq Rows
      OBVIOUS
    <3>. HIDE DEF queued
    <3>. QED BY <1>0, <3>1 DEF ActorState
  <2>2. Become(a, Looped(me)) /\ UNCHANGED <<status, jobs>> /\ act[a].pc = "read"
    BY <1>1 DEF ReadQueue
  <2>. HIDE DEF me
  <2>3. PICK s : Become(a, s) /\ s.todo = queued
    BY <2>1, <2>2, LoopedFields
  <2>4. Kept(a, s)
    BY <1>0, <2>2, <2>3 DEF Kept, Sure
  <2>5. Attends(a, s)
    BY <1>0, <1>t, <2>2
  <2>. QED BY <1>c, <1>o, <2>2, <2>3, <2>4, <2>5
<1>2. CASE ScanLane(a)
  <2>1. PICK d \in Rows :
          /\ Oldest(d, act[a].todo)
          /\ LET rest == [act[a] EXCEPT !.todo = act[a].todo \ {d}]
             IN  Become(a, IF LaneBusy(row[d].lane) THEN Looped(rest)
                           ELSE [rest EXCEPT !.pc = "scan_count", !.cand = d])
    BY <1>2 DEF ScanLane
  <2> DEFINE rest == [act[a] EXCEPT !.todo = act[a].todo \ {d}]
             next == [rest EXCEPT !.pc = "scan_count", !.cand = d]
  <2>2. rest \in ActorState /\ rest.todo = act[a].todo \ {d}
    BY <1>0 DEF ActorState
  <2>3. next.todo = act[a].todo \ {d} /\ next.cand = d
    BY <1>0 DEF ActorState
  <2>4. \/ Become(a, Looped(rest)) /\ LaneBusy(row[d].lane)
        \/ Become(a, next)
    BY <2>1
  <2>. HIDE DEF rest, next
  <2>5. PICK s : /\ Become(a, s) /\ s.todo = act[a].todo \ {d}
                 /\ s.cand = d \/ LaneBusy(row[d].lane)
    BY <2>2, <2>3, <2>4, LoopedFields
  <2>6. LaneBusy(row[d].lane) => Blocked(d)
    BY DEF LaneBusy, Blocked
  <2>7. act[a].pc = "next" /\ act[a].cand = 0 /\ UNCHANGED <<status, jobs>>
    BY <1>0, <1>2 DEF ScanLane
  <2>8. Attends(a, s)
    BY <1>t, <2>5, <2>6, <2>7
  <2>. QED BY <1>c, <1>k, <1>o, <2>5, <2>7, <2>8
<1>3. CASE ScanCount(a)
  <2>1. act[a].pc = "scan_count" /\ UNCHANGED <<status, jobs>>
    BY <1>3 DEF ScanCount
  <2>2. Created(act[a].cand) /\ AtMain(act[a].cand) /\ act[a].cand \in Rows
    BY <1>0, <2>1 DEF AllTidy, Tidy
  <2>3. PICK s : /\ Become(a, s) /\ s.todo = act[a].todo
                 /\ s.cand = act[a].cand \/ Blocked(act[a].cand)
    <3>1. CASE Become(a, Looped(act[a])) /\ ServerFull(row[act[a].cand].server)
      BY <1>0, <2>2, <3>1, FullBlocks, LoopedFields
    <3>2. ASSUME Become(a, [act[a] EXCEPT !.pc = "mark"])
          PROVE  \E s : Become(a, s) /\ s.todo = act[a].todo /\ s.cand = act[a].cand
      BY <1>0, <3>2 DEF ActorState
    <3>. QED BY <1>3, <3>1, <3>2 DEF ScanCount
  <2>4. Attends(a, s)
    BY <1>t, <2>1, <2>2, <2>3
  <2>. QED BY <1>c, <1>k, <1>o, <2>1, <2>3, <2>4
<1>4. CASE Mark(a)
  <2>1. /\ status' = [status EXCEPT ![act[a].cand] = "in_progress"] /\ jobs' = jobs
        /\ act[a].pc = "mark"
    BY <1>4 DEF Mark
  <2>2. PICK s : Become(a, s) /\ s.todo = act[a].todo
    <3>1. Become(a, [act[a] EXCEPT !.pc = "push"])
      BY <1>4 DEF Mark, Goto, Become
    <3>. QED BY <1>0, <3>1 DEF ActorState
  <2>3. Owed(a)
    BY <2>1, Frame DEF Owed, InProgress, Over
  <2>4. Attends(a, s)
    BY <1>0, <2>1, <2>2, Frame DEF Attends
  <2>. QED BY <1>c, <1>k, <2>1, <2>2, <2>3, <2>4
<1>5. CASE Push(a)
  <2>1. /\ status' = status /\ act[a].cand \in Rows
        /\ jobs' = [jobs EXCEPT ![act[a].cand] = @ + 1]
    BY <1>0, <1>5 DEF Push
  <2>2. PICK s : /\ Become(a, s) /\ s.todo = act[a].todo
                 /\ act[a].pc = "push_new" =>
                      /\ s.pc = "read" /\ s.cur = act[a].cur /\ s.srv = act[a].srv
                      /\ s.goal = act[a].goal
    <3>1. CASE act[a].pc = "push"
      BY <1>0, <1>5, <3>1, LoopedFields DEF Push
    <3>2. CASE act[a].pc = "push_new"
      <4> DEFINE read == [act[a] EXCEPT !.pc = "read", !.cand = 0]
      <4>1. Become(a, read)
        BY <1>5, <3>2 DEF Push
      <4>2. /\ read.pc = "read" /\ read.cur = act[a].cur /\ read.srv = act[a].srv
            /\ read.goal = act[a].goal /\ read.todo = act[a].todo
        BY <1>0 DEF ActorState
      <4>. HIDE DEF read
      <4>. QED BY <4>1, <4>2
    <3>. QED BY <1>5, <3>1, <3>2 DEF Push
  <2>3. \A d \in Rows : /\ d = act[a].cand => jobs'[d] > 0
                        /\ jobs[d] > 0 => jobs'[d] > 0
    BY <2>1, Frame
  <2>4. Attends(a, s)
    BY <1>0, <2>1, <2>2, <2>3, Frame DEF Attends
  <2>5. ASSUME act[a].pc = "push_new" PROVE Kept(a, s)
    <3>1. act'[a] = s
      BY <2>2, Frame DEF Become
    <3>2. a \in Workers => act[a].cur \in Rows
      BY <2>5, Frame
    <3>. QED BY <1>0, <2>1, <2>2, <2>5, <3>1, <3>2 DEF Kept, Sure, ScanServer
  <2>6. Kept(a, s)
    <3>1. CASE act[a].pc = "push"
      BY <1>k, <3>1
    <3>. QED BY <1>5, <2>5, <3>1 DEF Push
  <2>. QED BY <1>c, <1>o, <2>1, <2>2, <2>4, <2>6
<1>. QED BY <1>1, <1>2, <1>3, <1>4, <1>5 DEF Scan

\* A status transition: a deployment that is still queued is written next.
LEMMA MindedTransition ==
  ASSUME Attended, WellFormed, WellFormed', Housed, AllTidy', RowsStay, Minded,
         NEW w \in Workers, NEW me \in ActorState, Transition(w, me),
         me.cur = act[w].cur, act[w].todo = {}, act[w].cand = 0,
         act[w].pc \in {"run", "run2", "post"} \/ (me = act[w] /\ act[w].pc = "check")
  PROVE  Minded'
<1> DEFINE write == [me EXCEPT !.pc = "write", !.local = status[me.cur]]
<1>0. /\ w \in Actors /\ act[w].cur \in Rows /\ status \in [Rows -> Status]
      /\ UNCHANGED <<status, row, jobs, expired, up>>
  BY Frame DEF Transition
<1>1. /\ write.pc = "write" /\ write.cur = me.cur /\ write.local = status[me.cur]
      /\ write.goal = me.goal /\ me.goal \in {"finished", "failed", "cancelled-by-user"}
  BY DEF ActorState
<1>2. \E s : Become(w, s) /\ (s = write \/ status[me.cur] \in Over)
  BY DEF Transition, Over
<1>. HIDE DEF write
<1>3. PICK s : Become(w, s) /\ (s = write \/ status[me.cur] \in Over)
  BY <1>2
<1>4. ASSUME NEW d \in Rows, status[d] = "queued", HoldsIn(status, act[w], d)
      PROVE  HoldsIn(status, s, d)
  BY <1>1, <1>3, <1>4 DEF HoldsIn, Over
<1>5. Kept(w, s)
  <2>1. CASE act[w].pc # "check"
    BY <1>0, <2>1, IdleKept
  <2>2. CASE act[w].pc = "check"
    <3>1. act'[w] = s
      BY <1>0, <1>3, Frame DEF Become
    <3>. QED BY <1>0, <1>1, <1>3, <2>2, <3>1 DEF Kept, Sure, ScanServer
  <2>. QED BY <2>1, <2>2
<1>. QED BY <1>0, <1>3, <1>4, <1>5, MindedQuiet

\* What a worker does besides scanning.
LEMMA MindedWork ==
  ASSUME Attended, WellFormed, WellFormed', Housed, AllTidy, AllTidy', RowsStay, Minded,
         NEW w \in Workers, Work(w)
  PROVE  Minded'
<1>0. /\ w \in Actors /\ act[w] \in ActorState /\ Tidy(w, act[w])
      /\ act[w].pc # "idle" => act[w].cur \in Rows /\ status[act[w].cur] # "absent"
  BY Frame DEF AllTidy
<1>n. ASSUME act[w].pc \in {"idle", "begin", "run", "run2", "check", "write", "post",
                            "post2", "read"}
      PROVE  /\ act[w].todo = {} /\ act[w].cand = 0
             /\ \A d \in Rows : d \notin act[w].todo /\ act[w].cand # d
  BY <1>0, <1>n, Frame DEF Tidy
<1>k. ASSUME act[w].pc \notin {"read", "push_new", "write", "check"}, NEW s PROVE Kept(w, s)
  BY <1>0, <1>k, IdleKept
<1>c. ASSUME NEW s, Become(w, s), up' = up, Owed(w), Kept(w, s), Attends(w, s)
      PROVE  Minded'
  <2>1. CASE up
    BY <1>0, <1>c, <2>1, MindedBecome
  <2>. QED BY <1>c, <2>1 DEF Minded
<1>1. ASSUME NEW d \in Rows, Reserve(w, d) PROVE Minded'
  <2> DEFINE begin == [Idle EXCEPT !.pc = "begin", !.cur = d, !.local = status[d]]
  <2>1. begin.pc = "begin" /\ begin.cur = d
    BY DEF Idle
  <2>2. /\ UNCHANGED <<status, expired, up>> /\ act[w].pc = "idle"
        /\ jobs' = [jobs EXCEPT ![d] = @ - 1]
    BY <1>1 DEF Reserve
  <2>3. Become(w, begin) \/ (Become(w, Idle) /\ status[d] = "cancelled-by-user")
    BY <1>1 DEF Reserve
  <2>. HIDE DEF begin
  <2>4. PICK s : Become(w, s) /\ (status[d] = "queued" => HoldsIn(status, s, d))
    BY <2>1, <2>3 DEF HoldsIn
  <2>5. Owed(w)
    BY <2>2 DEF Owed, InProgress
  <2>6. \A e \in Rows : e # d => jobs'[e] = jobs[e]
    BY <2>2, Frame
  <2>7. Attends(w, s)
    <3>1. \A e \in Rows : e \notin act[w].todo /\ act[w].cand # e
      BY <1>n, <2>2
    <3>. QED BY <3>1, <2>2, <2>4, <2>6 DEF Attends, HoldsIn
  <2>. QED BY <1>c, <1>k, <2>2, <2>4, <2>5, <2>7
<1>2. ASSUME NEW d \in Rows, ReserveExpired(w, d) PROVE Minded'
  <2>1. /\ UNCHANGED <<status, jobs, up>> /\ act[w].pc = "idle"
        /\ expired' = [expired EXCEPT ![d] = @ - 1] /\ Become(w, Failed(d))
    BY <1>2 DEF ReserveExpired
  <2>2. HoldsIn(status, Failed(d), d)
    BY DEF HoldsIn, Failed, Idle
  <2>3. Owed(w)
    BY <2>1 DEF Owed, InProgress
  <2>4. \A e \in Rows : e # d => expired'[e] = expired[e]
    BY <2>1, Frame
  <2>5. Attends(w, Failed(d))
    <3>1. \A e \in Rows : e \notin act[w].todo /\ act[w].cand # e
      BY <1>n, <2>1
    <3>. QED BY <3>1, <2>1, <2>2, <2>4 DEF Attends, HoldsIn
  <2>. QED BY <1>c, <1>k, <2>1, <2>3, <2>5
<1>3. CASE HandleUpdate(w)
  <2> DEFINE s == [act[w] EXCEPT !.pc = "run", !.local = "queued"]
  <2>1. Become(w, s) /\ s.pc = "run" /\ s.cur = act[w].cur
    BY <1>0, <1>3 DEF HandleUpdate, ActorState
  <2>. HIDE DEF s
  <2>2. /\ UNCHANGED <<jobs, expired, up>> /\ act[w].pc = "begin"
        /\ \A e \in Rows : status'[e] = status[e] \/ status'[e] = "in_progress"
    BY <1>0, <1>3, Frame DEF HandleUpdate
  <2>3. Owed(w)
    BY <2>2 DEF Owed, InProgress, Over
  <2>4. Attends(w, s)
    <3>1. \A e \in Rows : e \notin act[w].todo /\ act[w].cand # e
      BY <1>n, <2>2
    <3>. QED BY <3>1, <2>1, <2>2 DEF Attends, HoldsIn
  <2>. QED BY <1>c, <1>k, <2>1, <2>2, <2>3, <2>4
<1>4. CASE ResolveCommit(w)
  <2>1. UNCHANGED <<status, jobs, expired, up, act>> /\ act[w].pc = "run"
    BY <1>4 DEF ResolveCommit
  <2>2. Become(w, act[w])
    BY <2>1, Frame DEF Become
  <2>. QED BY <1>0, <1>k, <1>n, <2>1, <2>2, MindedQuiet
<1>5. CASE Unhealthy(w) \/ Complete(w) \/ CompleteAgain(w)
  <2>1. PICK g \in {"failed", "finished"}, r \in {"run2", "post", "post2"} :
          Transition(w, [act[w] EXCEPT !.goal = g, !.ret = r])
    BY <1>5 DEF Unhealthy, Complete, CompleteAgain
  <2>2. act[w].pc \in {"run", "run2", "post"}
    BY <1>5 DEF Unhealthy, Complete, CompleteAgain
  <2> DEFINE me == [act[w] EXCEPT !.goal = g, !.ret = r]
  <2>3. me \in ActorState /\ me.cur = act[w].cur
    BY <1>0 DEF ActorState
  <2>4. Transition(w, me)
    BY <2>1
  <2>. HIDE DEF me
  <2>5. act[w].todo = {} /\ act[w].cand = 0
    BY <1>n, <2>2
  <2>. QED BY <2>2, <2>3, <2>4, <2>5, MindedTransition
<1>6. CASE FailDeployment(w)
  BY <1>0, <1>6, <1>n, MindedTransition DEF FailDeployment
<1>7. CASE Throw(w)
  <2>1. /\ UNCHANGED <<status, row, jobs, expired, up>> /\ Become(w, Failed(act[w].cur))
        /\ \/ act[w].pc \in {"run", "run2", "post", "post2"}
           \/ act[w].pc = "read" /\ act[w].goal = "finished"
    BY <1>7 DEF Throw
  <2>2. Failed(act[w].cur).pc = "check" /\ Failed(act[w].cur).cur = act[w].cur
    BY DEF Failed, Idle
  <2>3. PICK s : Become(w, s) /\ s.pc = "check" /\ s.cur = act[w].cur
    BY <2>1, <2>2
  <2>4. ASSUME act[w].pc = "read", act[w].goal = "finished" PROVE Kept(w, s)
    <3>1. act'[w] = s
      BY <1>0, <2>3, Frame DEF Become
    <3>. QED BY <2>1, <2>3, <2>4, <3>1 DEF Kept, Sure, ScanServer
  <2>5. \A d \in Rows : HoldsIn(status, act[w], d) => HoldsIn(status, s, d)
    BY <2>1, <2>3 DEF HoldsIn
  <2>. QED BY <1>0, <1>k, <1>n, <2>1, <2>3, <2>4, <2>5, MindedQuiet
<1>8. CASE Finish(w)
  <2>1. \A d \in Rows : ~HoldsIn(status, act[w], d)
    BY <1>8 DEF Finish, HoldsIn
  <2>. QED BY <1>0, <1>8, <1>k, <1>n, <2>1, MindedQuiet DEF Finish
<1>9. CASE WriteStatus(w)
  <2> DEFINE l == row[act[w].cur].lane
             more == IF /\ act[w].goal = "finished"
                        /\ ~row[act[w].cur].only_this_server
                        /\ row[act[w].cur].server \notin ExtraServers[l]
                     THEN ExtraServers[l] ELSE {}
             s == [act[w] EXCEPT !.pc = "read", !.local = "queued", !.extra = more]
  <2>1. s.pc = "read" /\ s.cur = act[w].cur /\ s.goal = act[w].goal
        /\ act[w].goal \in {"finished", "failed", "cancelled-by-user"}
    BY <1>0 DEF ActorState
  <2>2. Become(w, s)
    BY <1>9 DEF WriteStatus
  <2>. HIDE DEF s
  <2>3. PICK me : Become(w, me) /\ me.pc = "read" /\ me.cur = act[w].cur
                  /\ me.goal = act[w].goal
    BY <2>1, <2>2
  <2>4. act'[w] = me
    BY <1>0, <2>3, Frame DEF Become
  <2>5. /\ UNCHANGED <<row, jobs, expired, up>> /\ act[w].pc = "write"
        /\ act[w].local = act[w].goal => status' = status
        /\ act[w].local # act[w].goal => status' = [status EXCEPT ![act[w].cur] = act[w].goal]
    BY <1>9 DEF WriteStatus
  <2>6. /\ \A e \in Rows : status'[e] = status[e] \/ e = act[w].cur
        /\ act[w].local # act[w].goal => status'[act[w].cur] = act[w].goal
    BY <1>0, <2>5, Frame
  <2>7. ASSUME act[w].local # act[w].goal
        PROVE  Sure(w, MainServer[row[act[w].cur].lane])'
    BY <2>1, <2>3, <2>4, <2>5, <2>6, <2>7 DEF Sure, ScanServer, Over
  <2>8. Owed(w)
    <3>1. ASSUME NEW e \in Rows, status'[e] # status[e]
          PROVE  Sure(w, MainServer[row[e].lane])'
      <4>1. e = act[w].cur /\ act[w].local # act[w].goal
        BY <2>5, <2>6, <3>1
      <4>2. Sure(w, MainServer[row[act[w].cur].lane])'
        BY <2>7, <4>1
      <4>3. row'[e].lane = row'[act'[w].cur].lane
        BY <2>3, <2>4, <4>1
      <4>. QED BY <4>2, <4>3
    <3>. QED BY <3>1 DEF Owed, InProgress
  <2>9. Kept(w, me)
    <3>1. ASSUME NEW x, Sure(w, x) PROVE Sure(w, x)'
      BY <1>0, <2>3, <2>4, <2>5, <2>6, <3>1 DEF Sure, ScanServer, Over
    <3>. QED BY <3>1 DEF Kept
  <2>10. Attends(w, me)
    <3>1. \A e \in Rows : e \notin act[w].todo /\ act[w].cand # e
      BY <1>n, <2>5
    <3>. QED BY <3>1, <2>1, <2>5, <2>6 DEF Attends, HoldsIn
  <2>. QED BY <1>c, <2>3, <2>5, <2>8, <2>9, <2>10
<1>10. CASE DeployToAdditional(w)
  <2>1. PICK x \in act[w].extra, d \in Rows :
          /\ NewRow(d)
          /\ status' = [status EXCEPT ![d] = "queued"]
          /\ Become(w, [act[w] EXCEPT !.pc = "push_new", !.cand = d,
                                      !.extra = act[w].extra \ {x}])
    BY <1>10 DEF DeployToAdditional
  <2> DEFINE s == [act[w] EXCEPT !.pc = "push_new", !.cand = d,
                                 !.extra = act[w].extra \ {x}]
  <2>2. /\ s.pc = "push_new" /\ s.cur = act[w].cur /\ s.goal = act[w].goal
        /\ s.cand = d
    BY <1>0 DEF ActorState
  <2>3. Become(w, s)
    BY <2>1
  <2>. HIDE DEF s
  <2>4. PICK me : Become(w, me) /\ me.pc = "push_new" /\ me.cur = act[w].cur
                  /\ me.goal = act[w].goal /\ me.cand = d
    BY <2>2, <2>3
  <2>5. act'[w] = me
    BY <1>0, <2>4, Frame DEF Become
  <2>6. /\ UNCHANGED <<jobs, expired, up>> /\ act[w].pc = "read"
        /\ status[d] = "absent" /\ status'[d] = "queued"
        /\ \A e \in Rows : e # d => status'[e] = status[e]
    BY <1>10, <2>1, Frame DEF DeployToAdditional, NewRow
  <2>7. Owed(w)
    BY <2>6 DEF Owed, InProgress, Over
  <2>8. Kept(w, me)
    <3>1. act[w].cur \in Rows /\ act[w].cur # d
          /\ row'[act[w].cur].lane = row[act[w].cur].lane
      BY <1>0, <2>6 DEF RowsStay
    <3>2. ASSUME NEW y, Sure(w, y) PROVE Sure(w, y)'
      BY <2>4, <2>5, <2>6, <3>1, <3>2 DEF Sure, ScanServer
    <3>. QED BY <3>2 DEF Kept
  <2>9. Attends(w, me)
    <3>1. \A e \in Rows : e \notin act[w].todo /\ act[w].cand # e
      BY <1>n, <2>6
    <3>. QED BY <3>1, <2>4, <2>6 DEF Attends, HoldsIn
  <2>. QED BY <1>c, <2>4, <2>6, <2>7, <2>8, <2>9
<1>11. CASE Scan(w)
  BY <1>0, <1>11, MindedScan
<1>. QED BY <1>1, <1>2, <1>3, <1>4, <1>5, <1>6, <1>7, <1>8, <1>9, <1>10, <1>11 DEF Work

LEMMA MindedStep ==
  ASSUME Attended, WellFormed, WellFormed', [Next]_vars, Housed, AllTidy, Extras, Minded
  PROVE  Minded'
<1>0. RowsStay /\ AllTidy' /\ Users \subseteq Actors
  BY RowsStayStep, TidyStep, Frame
<1>1. ASSUME NEW u \in Users, Request(u) \/ Respond(u) PROVE Minded'
  <2>1. ~CheckDeploymentQueue(u) /\ (\A d \in Rows : ~ApiCancel(u, d))
        /\ \A l \in Lanes : ~ClosePullRequest(u, l)
    BY DEF CheckDeploymentQueue, ApiCancel, ClosePullRequest, Attended
  <2>2. ~Terminate(u)
    BY <1>0 DEF Terminate, AllTidy, Tidy
  <2>. QED BY <1>0, <1>1, <2>1, <2>2, MindedRespond, MindedOperator, MindedScan
         DEF Request, Respond
<1>2. ASSUME NEW w \in Workers, Work(w) PROVE Minded'
  BY <1>0, <1>2, MindedWork
<1>3. ASSUME Disturb PROVE Minded'
  <2>1. ~Spend("fault", MaxFaults)
    BY DEF Spend, Attended, WellFormed, TypeOK
  <2>2. Shutdown \/ AppInit
    BY <1>3, <2>1 DEF Disturb, Timeout, KillWorker, DispatchThrows
  <2>3. CASE Shutdown
    BY <2>3 DEF Shutdown, Minded
  \* The boot leaves no deployment in the queue.
  <2>4. CASE AppInit
    <3>1. \A d \in Rows : status'[d] # "queued"
      BY <2>4 DEF AppInit, Active
    <3>. QED BY <3>1 DEF Minded, Waiting
  <2>. QED BY <2>2, <2>3, <2>4
<1>4. ASSUME UNCHANGED vars PROVE Minded'
  BY <1>4
     DEF vars, Minded, Waiting, Carried, Holds, Dispatching, AtMain, Blocked,
         InProgress, Sure, ScanServer
<1>. QED BY <1>1, <1>2, <1>3, <1>4 DEF Next

LEMMA WakeupsInit == ASSUME Init PROVE Housed /\ AllTidy /\ Extras /\ Minded
<1>1. \A d \in Rows : status[d] = "absent"
  BY DEF Init
<1>2. \A a \in Actors : act[a] = Idle
  BY DEF Init
<1>3. Idle.pc = "idle" /\ Idle.cand = 0 /\ Idle.todo = {} /\ Idle.extra = {}
  BY DEF Idle
<1>. QED BY <1>1, <1>2, <1>3 DEF Housed, Created, AllTidy, Tidy, Extras, Minded, Waiting

\* In an instance whose every release is followed by a scan, a deployment that
\* waits is never forgotten (queue_next_deployment after every status write, and
\* next_after_cancel after a cancellation): somebody will look at its server, or
\* something that blocks it is in progress and will itself be followed by a scan.
THEOREM NothingForgotten == Attended => (Spec => []NobodyForgotten)
<1> SUFFICES ASSUME Attended PROVE Spec => []NobodyForgotten
  OBVIOUS
<1> DEFINE Inv == WellFormed /\ Housed /\ AllTidy /\ Extras /\ Minded
<1>1. Init => Inv
  BY WellFormedInit, WakeupsInit
<1>2. Inv /\ [Next]_vars => Inv'
  BY WellFormedStep, ExtrasStep, TidyStep, MindedStep
<1>3. Inv => NobodyForgotten
  <2>1. \A a \in Actors : \A x : Sure(a, x) => WillScan(a, x)
    BY DEF Sure, WillScan, Over
  <2>. QED BY <2>1 DEF Minded, NobodyForgotten, Blocked
<1>. QED BY <1>1, <1>2, <1>3, PTL DEF Spec
=============================================================================
