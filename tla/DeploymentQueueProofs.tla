------------------------ MODULE DeploymentQueueProofs ------------------------
(* Proofs about DeploymentQueue, for every value of its constants. *)
EXTENDS DeploymentQueue, FiniteSetTheorems, TLAPS

\* The state of every process keeps its type when one process takes a new one.
LEMMA BecomeType ==
  ASSUME act \in [Actors -> ActorState], NEW a \in Actors, NEW s \in ActorState,
         Become(a, s)
  PROVE  act' \in [Actors -> ActorState]
BY DEF Become

\* The states a process takes are in the type.
LEMMA IdleType == Idle \in ActorState
BY DEF Idle, ActorState, PCs, Status

LEMMA FailedType == ASSUME NEW d \in Rows PROVE Failed(d) \in ActorState
BY IdleType DEF Failed, ActorState, PCs

LEMMA ReturnedType ==
  ASSUME NEW me \in ActorState
  PROVE  Returned(me) \in ActorState
<1>1. me.ret # "done" => me.ret \in PCs
  BY DEF ActorState, PCs
<1>2. [me EXCEPT !.pc = me.ret, !.goal = "failed", !.ret = "done"] \in ActorState
      \/ me.ret = "done"
  BY <1>1 DEF ActorState
<1>. QED BY <1>2, IdleType DEF Returned

LEMMA LoopedType ==
  ASSUME NEW me \in ActorState
  PROVE  Looped(me) \in ActorState
<1>1. [me EXCEPT !.cand = 0] \in ActorState
  BY DEF ActorState
<1>2. [me EXCEPT !.pc = "next", !.cand = 0] \in ActorState
  BY DEF ActorState, PCs
<1>. QED BY <1>1, <1>2, ReturnedType DEF Looped

LEMMA InitType == Init => TypeOK
BY QueueAssumption, IdleType DEF Init, TypeOK, Status

WellFormed == TypeOK /\ References

\* A transition by code in state me leaves a state of the type.
LEMMA TransitionType ==
  ASSUME TypeOK, NEW w \in Workers, NEW me \in ActorState, me.cur \in Rows,
         Transition(w, me)
  PROVE  TypeOK'
<1>1. [me EXCEPT !.pc = "write", !.local = status[me.cur]] \in ActorState
  BY DEF TypeOK, ActorState, PCs
<1>2. act' \in [Actors -> ActorState]
  BY <1>1, IdleType, FailedType, ReturnedType
       DEF Transition, Become, TypeOK, Actors
<1>. QED BY <1>2 DEF Transition, TypeOK

\* Every action keeps the type: first the state of the process that took it,
\* then the tables.
LEMMA TypeStep ==
  ASSUME WellFormed, [Next]_vars
  PROVE  TypeOK'
<1>a. act \in [Actors -> ActorState]
  BY DEF WellFormed, TypeOK
<1>0. /\ Users \subseteq Actors /\ Workers \subseteq Actors
      /\ \A a \in Actors : act[a] \in ActorState
  BY <1>a DEF Actors
<1>r. \A d \in Rows : Created(d) => row[d] \in Deployment
  BY DEF WellFormed, References, Refers, Created
<1>z. \A d \in Rows : d # 0
  BY DEF Rows
<1>c. \A a \in Actors : act[a].cur \in Rows => Created(act[a].cur)
  BY <1>z DEF WellFormed, References, Refers, Created
<1>1. ASSUME NEW u \in Users, CheckExisting(u) PROVE TypeOK'
  <2>1. PICK l \in Lanes, c \in Commits :
          Become(u, [Idle EXCEPT !.pc = "create",
                       !.req = [lane |-> l, server |-> MainServer[l],
                                commit |-> c, only_this_server |-> FALSE]])
    BY <1>1 DEF CheckExisting
  <2>2. [lane |-> l, server |-> MainServer[l], commit |-> c,
         only_this_server |-> FALSE] \in Deployment
    BY QueueAssumption DEF Deployment
  <2>3. [Idle EXCEPT !.pc = "create",
           !.req = [lane |-> l, server |-> MainServer[l], commit |-> c,
                    only_this_server |-> FALSE]] \in ActorState
    BY <2>2, IdleType DEF ActorState, PCs
  <2>4. act' \in [Actors -> ActorState]
    BY <1>a, <1>0, <2>1, <2>3 DEF Become
  <2>. QED BY <1>1, <2>4 DEF CheckExisting, WellFormed, TypeOK
<1>2. ASSUME NEW u \in Users, Redeploy(u) PROVE TypeOK'
  <2>1. PICK l \in Lanes, only \in BOOLEAN :
          \E s \in {MainServer[l]} \cup (IF only THEN ExtraServers[l] ELSE {}) :
            Become(u, [Idle EXCEPT !.pc = "create_now",
                         !.req = [lane |-> l, server |-> s, commit |-> Head,
                                  only_this_server |-> only]])
    BY <1>2 DEF Redeploy
  <2>2. PICK s \in Servers :
          Become(u, [Idle EXCEPT !.pc = "create_now",
                       !.req = [lane |-> l, server |-> s, commit |-> Head,
                                only_this_server |-> only]])
    BY <2>1, QueueAssumption
  <2>3. [lane |-> l, server |-> s, commit |-> Head, only_this_server |-> only]
          \in Deployment
    BY QueueAssumption DEF Deployment
  <2>4. [Idle EXCEPT !.pc = "create_now",
           !.req = [lane |-> l, server |-> s, commit |-> Head,
                    only_this_server |-> only]] \in ActorState
    BY <2>3, IdleType DEF ActorState, PCs
  <2>5. act' \in [Actors -> ActorState]
    BY <1>a, <1>0, <2>2, <2>4 DEF Become
  <2>. QED BY <1>2, <2>5 DEF Redeploy, WellFormed, TypeOK
<1>3. ASSUME NEW u \in Users, CheckDeploymentQueue(u) PROVE TypeOK'
  <2>1. PICK old \in SUBSET Rows :
          Become(u, [Idle EXCEPT !.pc = "terminate", !.todo = old])
    BY <1>3 DEF CheckDeploymentQueue
  <2>2. act' \in [Actors -> ActorState]
    BY ZenonT(40), <1>a, <1>0, <2>1, IdleType DEF Become, ActorState, PCs
  <2>. QED BY <1>3, <2>2 DEF CheckDeploymentQueue, WellFormed, TypeOK, Spend
<1>4. ASSUME NEW u \in Users, CreateRow(u) PROVE TypeOK'
  <2>0. u \in Actors /\ act[u] \in ActorState BY <1>0
  <2>1. CASE Become(u, Idle) /\ UNCHANGED <<status, row>>
    <3>1. act' \in [Actors -> ActorState]
      BY <1>a, <2>0, <2>1, IdleType DEF Become
    <3>. QED BY <1>4, <2>1, <3>1 DEF CreateRow, WellFormed, TypeOK
  <2>2. ASSUME NEW d \in Rows,
               status' = [status EXCEPT ![d] = "queued"],
               row' = [row EXCEPT ![d] = act[u].req],
               Become(u, [Idle EXCEPT !.cand = d,
                            !.pc = IF act[u].pc = "create" THEN "admit_lane"
                                   ELSE "push"])
        PROVE  TypeOK'
    <3>0. [Idle EXCEPT !.cand = d,
             !.pc = IF act[u].pc = "create" THEN "admit_lane" ELSE "push"]
            \in ActorState
      BY ZenonT(40), IdleType DEF ActorState, PCs
    <3>1. act' \in [Actors -> ActorState]
      BY <1>a, <2>0, <2>2, <3>0 DEF Become
    <3>2. act[u].req \in Deployment \cup {NoDeployment}
      BY <2>0 DEF ActorState
    <3>3. status' \in [Rows -> Status]
      BY <2>2 DEF WellFormed, TypeOK, Status
    <3>4. row' \in [Rows -> Deployment \cup {NoDeployment}]
      BY <2>2, <3>2 DEF WellFormed, TypeOK
    <3>. QED BY <1>4, <3>1, <3>3, <3>4 DEF CreateRow, WellFormed, TypeOK
  <2>. QED BY <1>4, <2>1, <2>2 DEF CreateRow
<1>5. ASSUME NEW u \in Users, AdmitLane(u) PROVE TypeOK'
  <2>0. u \in Actors /\ act[u] \in ActorState BY <1>0
  <2>1. act' \in [Actors -> ActorState]
    BY <1>a, <2>0, <1>5, IdleType DEF AdmitLane, Become, ActorState, PCs
  <2>. QED BY <1>5, <2>1 DEF AdmitLane, WellFormed, TypeOK
<1>6. ASSUME NEW u \in Users, AdmitCount(u) PROVE TypeOK'
  <2>0. u \in Actors /\ act[u] \in ActorState BY <1>0
  <2>1. act' \in [Actors -> ActorState]
    BY <1>a, <2>0, <1>6, IdleType DEF AdmitCount, Become, ActorState, PCs
  <2>. QED BY <1>6, <2>1 DEF AdmitCount, WellFormed, TypeOK
<1>7. ASSUME NEW u \in Users, Terminate(u) PROVE TypeOK'
  <2>0. u \in Actors /\ act[u] \in ActorState BY <1>0
  <2>1. act' \in [Actors -> ActorState]
    BY <1>a, <2>0, <1>7, IdleType DEF Terminate, Become, ActorState, PCs
  <2>. QED BY <1>7, <2>1, <2>0
       DEF Terminate, WellFormed, TypeOK, Status, ActorState
<1>8. ASSUME NEW u \in Users, NEW d \in Rows, ForceStart(u, d) PROVE TypeOK'
  <2>0. u \in Actors /\ act[u] \in ActorState BY <1>0
  <2>1. act' \in [Actors -> ActorState]
    BY ZenonT(40), <1>a, <2>0, <1>8, IdleType
       DEF ForceStart, Become, ActorState, PCs
  <2>. QED BY <1>8, <2>1 DEF ForceStart, WellFormed, TypeOK, Spend, Status
<1>9. ASSUME NEW u \in Users, NEW d \in Rows, Cancel(u, d) PROVE TypeOK'
  <2>0. row[d] \in Deployment
    BY <1>9, <1>r DEF Cancel, Created
  <2>1. row[d].lane \in Lanes /\ row[d].server \in Servers
    BY <2>0 DEF Deployment
  <2>2. PICK s \in Servers : Become(u, [Idle EXCEPT !.pc = "read", !.srv = s])
    BY <1>9, <2>1, QueueAssumption DEF Cancel
  <2>3. [Idle EXCEPT !.pc = "read", !.srv = s] \in ActorState
    BY IdleType DEF ActorState, PCs
  <2>4. act' \in [Actors -> ActorState]
    BY <1>a, <1>0, <2>2, <2>3 DEF Become
  <2>. QED BY <1>9, <2>4 DEF Cancel, WellFormed, TypeOK, Spend, Status
<1>10. ASSUME NEW u \in Users, NEW d \in Rows, ApiCancel(u, d) PROVE TypeOK'
  <2>1. {d} \in SUBSET Rows
    OBVIOUS
  <2>2. [Idle EXCEPT !.pc = "terminate", !.todo = {d},
                     !.goal = "cancelled-by-user"] \in ActorState
    BY ZenonT(40), <2>1, IdleType DEF ActorState, PCs
  <2>3. act' \in [Actors -> ActorState]
    BY <1>a, <1>0, <1>10, <2>2 DEF ApiCancel, Become
  <2>. QED BY <1>10, <2>3 DEF ApiCancel, WellFormed, TypeOK, Spend
<1>11. ASSUME NEW u \in Users, NEW l \in Lanes, ClosePullRequest(u, l) PROVE TypeOK'
  <2>1. PICK active \in SUBSET Rows :
          Become(u, [Idle EXCEPT !.pc = "terminate", !.todo = active,
                                 !.goal = "cancelled-by-user"])
    BY <1>11 DEF ClosePullRequest
  <2>2. [Idle EXCEPT !.pc = "terminate", !.todo = active,
                     !.goal = "cancelled-by-user"] \in ActorState
    BY ZenonT(40), IdleType DEF ActorState, PCs
  <2>3. act' \in [Actors -> ActorState]
    BY <1>a, <1>0, <2>1, <2>2 DEF Become
  <2>. QED BY <1>11, <2>3 DEF ClosePullRequest, WellFormed, TypeOK, Spend
<1>12. ASSUME NEW a \in Actors, ReadQueue(a) PROVE TypeOK'
  <2>1. PICK found \in SUBSET Rows :
          Become(a, Looped([act[a] EXCEPT !.extra = {}, !.todo = found]))
    BY <1>12 DEF ReadQueue
  <2>2. [act[a] EXCEPT !.extra = {}, !.todo = found] \in ActorState
    BY <1>0 DEF ActorState
  <2>3. act' \in [Actors -> ActorState]
    BY <1>a, <2>1, <2>2, LoopedType DEF Become
  <2>. QED BY <1>12, <2>3 DEF ReadQueue, WellFormed, TypeOK
<1>13. ASSUME NEW a \in Actors, ScanLane(a) PROVE TypeOK'
  <2> DEFINE rest(d) == [act[a] EXCEPT !.todo = act[a].todo \ {d}]
  <2>1. PICK d \in Rows :
          Become(a, IF LaneBusy(row[d].lane) THEN Looped(rest(d))
                    ELSE [rest(d) EXCEPT !.pc = "scan_count", !.cand = d])
    BY <1>13 DEF ScanLane
  <2>2. rest(d) \in ActorState
    BY <1>0 DEF ActorState
  <2>3. [rest(d) EXCEPT !.pc = "scan_count", !.cand = d] \in ActorState
    BY <2>2 DEF ActorState, PCs
  <2>. HIDE DEF rest
  <2>4. act' \in [Actors -> ActorState]
    BY <1>a, <2>1, <2>2, <2>3, LoopedType DEF Become
  <2>. QED BY <1>13, <2>4 DEF ScanLane, WellFormed, TypeOK
<1>14. ASSUME NEW a \in Actors, ScanCount(a) PROVE TypeOK'
  <2>0. a \in Actors /\ act[a] \in ActorState BY <1>0
  <2>1. act' \in [Actors -> ActorState]
    BY <1>a, <2>0, <1>14, LoopedType DEF ScanCount, Become, ActorState, PCs
  <2>. QED BY <1>14, <2>1 DEF ScanCount, WellFormed, TypeOK
<1>15. ASSUME NEW a \in Actors, Mark(a) PROVE TypeOK'
  <2>0. a \in Actors /\ act[a] \in ActorState BY <1>0
  <2>1. act' \in [Actors -> ActorState]
    BY <1>a, <2>0, <1>15 DEF Mark, Become, ActorState, PCs, Goto
  <2>. QED BY <1>15, <2>1 DEF Mark, WellFormed, TypeOK, Status
<1>16. ASSUME NEW a \in Actors, Push(a) PROVE TypeOK'
  <2>1. act[a].cand \in Rows
    BY <1>0, <1>16 DEF Push, WellFormed, References, Refers, ActorState
  <2>0. a \in Actors /\ act[a] \in ActorState
    BY <1>0
  <2>2. [act[a] EXCEPT !.pc = "read", !.cand = 0] \in ActorState
    BY <2>0 DEF ActorState, PCs
  <2>3. act' \in [Actors -> ActorState]
    BY <1>a, <1>0, <1>16, <2>2, LoopedType DEF Push, Become
  <2>4. jobs' \in [Rows -> Nat]
    BY <1>16, <2>1 DEF Push, WellFormed, TypeOK
  <2>. QED BY <1>16, <2>3, <2>4 DEF Push, WellFormed, TypeOK
<1>17. ASSUME NEW w \in Workers, NEW d \in Rows, Reserve(w, d) PROVE TypeOK'
  <2>1. [Idle EXCEPT !.pc = "begin", !.cur = d, !.local = status[d]] \in ActorState
    BY IdleType DEF ActorState, PCs, WellFormed, TypeOK
  <2>2. act' \in [Actors -> ActorState]
    BY <1>a, <1>0, <1>17, <2>1, IdleType DEF Reserve, Become
  <2>3. jobs' \in [Rows -> Nat]
    BY <1>17 DEF Reserve, WellFormed, TypeOK
  <2>. QED BY <1>17, <2>2, <2>3 DEF Reserve, WellFormed, TypeOK
<1>18. ASSUME NEW w \in Workers, NEW d \in Rows, ReserveExpired(w, d) PROVE TypeOK'
  <2>0. w \in Actors /\ act[w] \in ActorState BY <1>0
  <2>1. act' \in [Actors -> ActorState]
    BY <1>a, <2>0, <1>18, FailedType DEF ReserveExpired, Become
  <2>. QED BY <1>18, <2>1 DEF ReserveExpired, WellFormed, TypeOK
<1>19. ASSUME NEW w \in Workers, HandleUpdate(w) PROVE TypeOK'
  <2>0. w \in Actors /\ act[w] \in ActorState BY <1>0
  <2>1. act' \in [Actors -> ActorState]
    BY ZenonT(40), <1>a, <2>0, <1>19
       DEF HandleUpdate, Become, ActorState, PCs, Status
  <2>. QED BY <1>19, <2>1 DEF HandleUpdate, WellFormed, TypeOK, Status
<1>20. ASSUME NEW w \in Workers, ResolveCommit(w) PROVE TypeOK'
  <2>0. w \in Actors /\ act[w] \in ActorState
    BY <1>0
  <2>a. act[w].cur \in Rows
    BY <2>0, <1>20 DEF ResolveCommit, WellFormed, References, Refers, ActorState
  <2>1. act[w].cur \in Rows /\ row[act[w].cur] \in Deployment
    BY <2>a, <2>0, <1>r, <1>c
  <2>2. PICK c \in Commits : row' = [row EXCEPT ![act[w].cur].commit = c]
    BY <1>20 DEF ResolveCommit
  <2>3. [row[act[w].cur] EXCEPT !.commit = c] \in Deployment
    BY <2>1 DEF Deployment
  <2>4. row' \in [Rows -> Deployment \cup {NoDeployment}]
    BY <2>1, <2>2, <2>3 DEF WellFormed, TypeOK
  <2>. QED BY <1>20, <2>4 DEF ResolveCommit, WellFormed, TypeOK
<1>21. ASSUME NEW w \in Workers, Unhealthy(w) PROVE TypeOK'
  <2>1. act[w].cur \in Rows
    BY <1>0, <1>21 DEF Unhealthy, WellFormed, References, Refers, ActorState
  <2>2. [act[w] EXCEPT !.goal = "failed", !.ret = "run2"] \in ActorState
    BY ZenonT(40), <1>0 DEF ActorState
  <2>3. [act[w] EXCEPT !.goal = "failed", !.ret = "run2"].cur = act[w].cur
    BY <1>0 DEF ActorState
  <2>. QED BY <1>21, <2>1, <2>2, <2>3, TransitionType DEF Unhealthy, WellFormed
<1>22. ASSUME NEW w \in Workers, Complete(w) PROVE TypeOK'
  <2>1. act[w].cur \in Rows
    BY <1>0, <1>22 DEF Complete, WellFormed, References, Refers, ActorState
  <2>2. [act[w] EXCEPT !.goal = "finished", !.ret = "post"] \in ActorState
    BY ZenonT(40), <1>0 DEF ActorState
  <2>3. [act[w] EXCEPT !.goal = "finished", !.ret = "post"].cur = act[w].cur
    BY <1>0 DEF ActorState
  <2>. QED BY <1>22, <2>1, <2>2, <2>3, TransitionType DEF Complete, WellFormed
<1>23. ASSUME NEW w \in Workers, CompleteAgain(w) PROVE TypeOK'
  <2>1. act[w].cur \in Rows
    BY <1>0, <1>23 DEF CompleteAgain, WellFormed, References, Refers, ActorState
  <2>2. [act[w] EXCEPT !.goal = "finished", !.ret = "post2"] \in ActorState
    BY ZenonT(40), <1>0 DEF ActorState
  <2>3. [act[w] EXCEPT !.goal = "finished", !.ret = "post2"].cur = act[w].cur
    BY <1>0 DEF ActorState
  <2>. QED BY <1>23, <2>1, <2>2, <2>3, TransitionType
       DEF CompleteAgain, WellFormed
<1>24. ASSUME NEW w \in Workers, FailDeployment(w) PROVE TypeOK'
  <2>1. act[w].cur \in Rows
    BY <1>0, <1>24
         DEF FailDeployment, WellFormed, References, Refers, ActorState
  <2>. QED BY <1>0, <1>24, <2>1, TransitionType DEF FailDeployment, WellFormed
<1>25. ASSUME NEW w \in Workers, Throw(w) PROVE TypeOK'
  <2>0. w \in Actors /\ act[w] \in ActorState BY <1>0
  <2>1. act' \in [Actors -> ActorState]
    BY <1>a, <2>0, <1>25, FailedType
         DEF Throw, Become, WellFormed, References, Refers, ActorState, PCs
  <2>. QED BY <1>25, <2>1 DEF Throw, WellFormed, TypeOK
<1>26. ASSUME NEW w \in Workers, Finish(w) PROVE TypeOK'
  <2>0. w \in Actors /\ act[w] \in ActorState BY <1>0
  <2>1. act' \in [Actors -> ActorState]
    BY <1>a, <2>0, <1>26, IdleType DEF Finish, Become
  <2>. QED BY <1>26, <2>1 DEF Finish, WellFormed, TypeOK
<1>27. ASSUME NEW w \in Workers, WriteStatus(w) PROVE TypeOK'
  <2>0. w \in Actors /\ act[w] \in ActorState
    BY <1>0
  <2>a. act[w].cur \in Rows
    BY <2>0, <1>27 DEF WriteStatus, WellFormed, References, Refers, ActorState
  <2>1. act[w].cur \in Rows /\ row[act[w].cur] \in Deployment
    BY <2>a, <2>0, <1>r, <1>c
  <2>2. ExtraServers[row[act[w].cur].lane] \in SUBSET Servers
    BY <2>1, QueueAssumption DEF Deployment
  <2>3. PICK extra \in SUBSET Servers :
          Become(w, [act[w] EXCEPT !.pc = "read", !.local = "queued",
                                   !.extra = extra])
    BY <1>27, <2>2 DEF WriteStatus
  <2>b. "queued" \in Status /\ "read" \in PCs
    BY DEF Status, PCs
  <2>4. [act[w] EXCEPT !.pc = "read", !.local = "queued", !.extra = extra]
          \in ActorState
    <3>1. [act[w] EXCEPT !.pc = "read"] \in ActorState
      BY <2>0, <2>b DEF ActorState
    <3>2. [act[w] EXCEPT !.pc = "read", !.local = "queued"] \in ActorState
      BY <3>1, <2>b DEF ActorState
    <3>3. extra \in SUBSET Servers
      OBVIOUS
    <3>. QED BY <3>2, <3>3 DEF ActorState
  <2>5. act' \in [Actors -> ActorState]
    BY <1>a, <1>0, <2>3, <2>4 DEF Become
  <2>6. act[w].goal \in Status
    BY <1>0 DEF ActorState, Status
  <2>. QED BY <1>27, <2>5, <2>6 DEF WriteStatus, WellFormed, TypeOK
<1>28. ASSUME NEW w \in Workers, DeployToAdditional(w) PROVE TypeOK'
  <2>0. w \in Actors /\ act[w] \in ActorState
    BY <1>0
  <2>a. act[w].cur \in Rows
    BY <2>0, <1>28
         DEF DeployToAdditional, WellFormed, References, Refers, ActorState
  <2>1. act[w].cur \in Rows /\ row[act[w].cur] \in Deployment
    BY <2>a, <2>0, <1>r, <1>c
  <2> DEFINE new(s) == [lane |-> row[act[w].cur].lane, server |-> s,
                        commit |-> Head, only_this_server |-> FALSE]
  <2>2. act[w].extra \in SUBSET Servers
    BY <1>0 DEF ActorState
  <2>3. PICK s \in Servers, d \in Rows :
          /\ status' = [status EXCEPT ![d] = "queued"]
          /\ row' = [row EXCEPT ![d] = new(s)]
          /\ Become(w, [act[w] EXCEPT !.pc = "push_new", !.cand = d,
                                      !.extra = act[w].extra \ {s}])
    BY <1>28, <2>2 DEF DeployToAdditional
  <2>4. new(s) \in Deployment
    BY <2>1, QueueAssumption DEF Deployment
  <2>5. [act[w] EXCEPT !.pc = "push_new", !.cand = d,
                       !.extra = act[w].extra \ {s}] \in ActorState
    BY <2>0, <2>2 DEF ActorState, PCs
  <2>. HIDE DEF new
  <2>6. act' \in [Actors -> ActorState]
    BY <1>a, <1>0, <2>3, <2>5 DEF Become
  <2>7. status' \in [Rows -> Status]
    BY <2>3 DEF WellFormed, TypeOK, Status
  <2>8. row' \in [Rows -> Deployment \cup {NoDeployment}]
    BY <2>3, <2>4 DEF WellFormed, TypeOK
  <2>. QED BY <1>28, <2>6, <2>7, <2>8 DEF DeployToAdditional, WellFormed, TypeOK
<1>29. ASSUME NEW w \in Workers, Timeout(w) PROVE TypeOK'
  <2>1. act[w].cur \in Rows
    BY <1>0, <1>29 DEF Timeout, Handling, WellFormed, References, Refers, ActorState
  <2>2. act' \in [Actors -> ActorState]
    BY <1>a, <1>0, <1>29, <2>1, FailedType DEF Timeout, Become
  <2>. QED BY <1>29, <2>2 DEF Timeout, WellFormed, TypeOK, Spend, CutOff
<1>30. ASSUME NEW w \in Workers, KillWorker(w) PROVE TypeOK'
  <2>1. act[w].cur \in Rows
    BY <1>0, <1>30 DEF KillWorker, WellFormed, References, Refers, ActorState
  <2>2. act' \in [Actors -> ActorState]
    BY <1>a, <1>0, <1>30, IdleType DEF KillWorker, Become
  <2>3. expired' \in [Rows -> Nat]
    BY <1>30, <2>1 DEF KillWorker, WellFormed, TypeOK
  <2>. QED BY <1>30, <2>2, <2>3
       DEF KillWorker, WellFormed, TypeOK, Spend, CutOff, Orphan
<1>31. ASSUME NEW a \in Actors, DispatchThrows(a) PROVE TypeOK'
  <2>0. a \in Actors /\ act[a] \in ActorState BY <1>0
  <2>1. act' \in [Actors -> ActorState]
    BY <1>a, <2>0, <1>31, IdleType, FailedType
         DEF DispatchThrows, Become, WellFormed, References, Refers, ActorState,
             PCs
  <2>. QED BY <1>31, <2>1 DEF DispatchThrows, WellFormed, TypeOK, Spend, CutOff
<1>32. ASSUME Shutdown PROVE TypeOK'
  <2>1. act' \in [Actors -> ActorState]
    BY <1>32, IdleType DEF Shutdown
  <2>2. ASSUME NEW d \in Rows
        PROVE  Cardinality({w \in Workers : Handling(w) /\ act[w].cur = d}) \in Nat
    BY <2>2, QueueAssumption, FS_Subset, FS_CardinalityType
  <2>3. expired' \in [Rows -> Nat]
    BY <1>32, <2>2 DEF Shutdown, WellFormed, TypeOK
  <2>4. lost' \subseteq Rows
    BY <1>32 DEF Shutdown, WellFormed, TypeOK
  <2>5. spent' \in [{"op", "fault", "restart"} -> Nat] /\ up' \in BOOLEAN
    <3>1. spent' = [spent EXCEPT !["restart"] = spent["restart"] + 1] /\ up' = FALSE
      BY <1>32 DEF Shutdown, Spend
    <3>2. spent \in [{"op", "fault", "restart"} -> Nat]
      BY DEF WellFormed, TypeOK
    <3>3. spent' \in [{"op", "fault", "restart"} -> Nat]
      BY <3>1, <3>2
    <3>. QED BY <3>1, <3>3
  <2>. QED BY <1>32, <2>1, <2>3, <2>4, <2>5 DEF Shutdown, WellFormed, TypeOK
<1>33. ASSUME AppInit PROVE TypeOK'
  <2>1. act' \in [Actors -> ActorState]
    BY <1>a, <1>33 DEF AppInit, Become
  <2>. QED BY <1>33, <2>1 DEF AppInit, WellFormed, TypeOK, Status
<1>34. ASSUME UNCHANGED vars PROVE TypeOK'
  BY <1>34 DEF vars, WellFormed, TypeOK
<1>. QED
  BY <1>a, <1>0, <1>1, <1>2, <1>3, <1>4, <1>5, <1>6, <1>7, <1>8, <1>9, <1>10,
       <1>11, <1>12, <1>13, <1>14, <1>15, <1>16, <1>17, <1>18, <1>19, <1>20,
       <1>21, <1>22, <1>23, <1>24, <1>25, <1>26, <1>27, <1>28, <1>29, <1>30,
       <1>31, <1>32, <1>33, <1>34
     DEF Next, Request, Respond, Work, Scan, Disturb

-----------------------------------------------------------------------------
(* References *)

\* No step deletes a row.
LEMMA CreatedGrows ==
  ASSUME WellFormed, [Next]_vars
  PROVE  \A d \in Rows : status[d] # "absent" => status'[d] # "absent"
<1>0. /\ Users \subseteq Actors /\ Workers \subseteq Actors
      /\ \A a \in Actors : act[a].goal \in {"finished", "failed", "cancelled-by-user"}
      /\ status \in [Rows -> Status]
  BY DEF WellFormed, TypeOK, Actors, ActorState
<1>1. CASE UNCHANGED status
  BY <1>1
<1>2. ASSUME NEW d \in Rows, status' = [status EXCEPT ![d] = "queued"]
      PROVE  \A e \in Rows : status[e] # "absent" => status'[e] # "absent"
  BY <1>0, <1>2
<1>3. ASSUME NEW u \in Users, CreateRow(u)
      PROVE  \A e \in Rows : status[e] # "absent" => status'[e] # "absent"
  BY <1>2, <1>3 DEF CreateRow
<1>4. ASSUME NEW w \in Workers, DeployToAdditional(w)
      PROVE  \A e \in Rows : status[e] # "absent" => status'[e] # "absent"
  BY <1>2, <1>4 DEF DeployToAdditional
<1>5. ASSUME NEW u \in Users, NEW d \in Rows, ForceStart(u, d) \/ Cancel(u, d)
      PROVE  \A e \in Rows : status[e] # "absent" => status'[e] # "absent"
  BY <1>0, <1>5 DEF ForceStart, Cancel
<1>6. ASSUME NEW a \in Actors, Terminate(a) \/ Mark(a) \/ HandleUpdate(a) \/ WriteStatus(a)
      PROVE  \A e \in Rows : status[e] # "absent" => status'[e] # "absent"
  <2>1. act[a].goal # "absent"
    BY <1>0
  <2>. QED BY <1>0, <1>6, <2>1 DEF Terminate, Mark, HandleUpdate, WriteStatus
<1>7. ASSUME AppInit
      PROVE  \A e \in Rows : status[e] # "absent" => status'[e] # "absent"
  BY <1>0, <1>7 DEF AppInit
<1>8. ASSUME NEW u \in Users, Request(u)
      PROVE  \A e \in Rows : status[e] # "absent" => status'[e] # "absent"
  BY <1>1, <1>5, <1>8
       DEF Request, CheckExisting, Redeploy, CheckDeploymentQueue,
     ApiCancel, ClosePullRequest
<1>9. ASSUME NEW a \in Actors, Scan(a)
      PROVE  \A e \in Rows : status[e] # "absent" => status'[e] # "absent"
  BY <1>1, <1>6, <1>9 DEF Scan, ReadQueue, ScanLane, ScanCount, Push
<1>10. ASSUME NEW u \in Users, Respond(u)
       PROVE  \A e \in Rows : status[e] # "absent" => status'[e] # "absent"
  BY <1>0, <1>1, <1>3, <1>6, <1>9, <1>10 DEF Respond, AdmitLane, AdmitCount
<1>11. ASSUME NEW w \in Workers, Work(w)
       PROVE  \A e \in Rows : status[e] # "absent" => status'[e] # "absent"
  BY <1>0, <1>1, <1>4, <1>6, <1>9, <1>11 DEF Work, Reserve, ReserveExpired,
     ResolveCommit, Unhealthy, Complete, CompleteAgain, FailDeployment,
     Transition, Throw, Finish
<1>12. ASSUME Disturb
       PROVE  \A e \in Rows : status[e] # "absent" => status'[e] # "absent"
  BY <1>1, <1>7, <1>12
       DEF Disturb, Timeout, KillWorker, DispatchThrows, Shutdown
<1>. QED
  BY <1>1, <1>8, <1>10, <1>11, <1>12 DEF Next, vars

\* What the helpers return refers to rows when their argument does.
LEMMA IdleRefers == ASSUME NEW st PROVE Refers(st, Idle)
BY DEF Refers, Idle

LEMMA FailedRefers ==
  ASSUME NEW st, NEW d \in Rows, st[d] # "absent"
  PROVE  Refers(st, Failed(d))
BY DEF Refers, Failed, Idle

LEMMA ReturnedRefers ==
  ASSUME NEW st, NEW me \in ActorState,
         me.cur # 0 => st[me.cur] # "absent",
         me.cand # 0 => st[me.cand] # "absent",
         \A d \in me.todo : st[d] # "absent"
  PROVE  Refers(st, Returned(me))
<1>1. me.ret # "done" => me.ret \in {"post", "post2", "run2"}
  BY DEF ActorState
<1>2. CASE me.ret # "done"
  <2> DEFINE next == [me EXCEPT !.pc = me.ret, !.goal = "failed", !.ret = "done"]
  <2>1. /\ next.cur = me.cur /\ next.cand = me.cand /\ next.todo = me.todo
        /\ next.pc = me.ret
    BY DEF ActorState
  <2>2. Returned(me) = next
    BY <1>2 DEF Returned
  <2>. HIDE DEF next
  <2>. QED BY <1>1, <1>2, <2>1, <2>2 DEF Refers
<1>. QED BY <1>2, IdleRefers DEF Returned

LEMMA LoopedRefers ==
  ASSUME NEW st, NEW me \in ActorState,
         me.cur # 0 => st[me.cur] # "absent",
         \A d \in me.todo : st[d] # "absent"
  PROVE  Refers(st, Looped(me))
<1> DEFINE out == [me EXCEPT !.cand = 0]
           loop == [me EXCEPT !.pc = "next", !.cand = 0]
<1>1. out \in ActorState
  BY DEF ActorState
<1>2. out.cur = me.cur /\ out.cand = 0 /\ out.todo = me.todo
  BY DEF ActorState
<1>3. loop.cur = me.cur /\ loop.cand = 0 /\ loop.todo = me.todo /\ loop.pc = "next"
  BY DEF ActorState
<1>4. Looped(me) = IF me.todo = {} THEN Returned(out) ELSE loop
  BY DEF Looped
<1>. HIDE DEF out, loop
<1>5. Refers(st, Returned(out))
  BY <1>1, <1>2, ReturnedRefers
<1>6. Refers(st, loop)
  BY <1>3 DEF Refers
<1>. QED BY <1>4, <1>5, <1>6

\* A process of a worker has a job.
Busy(me) == me.pc # "idle" => me.cur # 0

LEMMA LoopedBusy ==
  ASSUME NEW me \in ActorState, me.cur # 0
  PROVE  Busy(Looped(me)) /\ Busy(Returned(me))
BY DEF Looped, Returned, Busy, Idle, ActorState

\* What processes refer to are rows of the table.
ProcessesRefer == /\ \A a \in Actors : Refers(status, act[a])
                  /\ \A w \in Workers : Busy(act[w])

LEMMA StillRefers ==
  ASSUME WellFormed, [Next]_vars
  PROVE  \A a \in Actors : Refers(status', act[a])
<1>1. \A d \in Rows : d # 0
  BY DEF Rows
<1>2. ASSUME NEW me \in ActorState, Refers(status, me) PROVE Refers(status', me)
  <2>1. me.cur \in Rows \cup {0} /\ me.cand \in Rows \cup {0} /\ me.todo \subseteq Rows
    BY DEF ActorState
  <2>. QED BY <1>1, <1>2, <2>1, CreatedGrows DEF Refers
<1>3. ASSUME NEW a \in Actors PROVE act[a] \in ActorState /\ Refers(status, act[a])
  BY DEF WellFormed, TypeOK, References
<1>. QED BY <1>2, <1>3

\* One process takes the state s: the references of all hold as those of s do.
LEMMA RefersBecome ==
  ASSUME WellFormed, [Next]_vars, NEW a \in Actors, NEW s, Become(a, s),
         Refers(status', s), a \in Workers => Busy(s)
  PROVE  ProcessesRefer'
<1>1. act \in [Actors -> ActorState]
  BY DEF WellFormed, TypeOK
<1>2. ASSUME NEW b \in Actors PROVE Refers(status', act'[b])
  <2>1. CASE b = a
    BY <1>1, <2>1 DEF Become
  <2>2. CASE b # a
    <3>1. act'[b] = act[b]
      BY <1>1, <2>2 DEF Become
    <3>. QED BY <3>1, StillRefers
  <2>. QED BY <2>1, <2>2
<1>3. ASSUME NEW w \in Workers PROVE Busy(act'[w])
  BY <1>1 DEF Become, WellFormed, References, Busy, Actors
<1>. QED BY <1>2, <1>3 DEF ProcessesRefer

\* The next state of a transition by code in state me.
LEMMA TransitionRefers ==
  ASSUME WellFormed, [Next]_vars, NEW w \in Workers, NEW me \in ActorState,
         me.cur \in Rows, me.cand = act[w].cand, me.cur = act[w].cur,
         me.todo = act[w].todo, Transition(w, me)
  PROVE  ProcessesRefer'
<1> DEFINE write == [me EXCEPT !.pc = "write", !.local = status[me.cur]]
<1>1. w \in Actors /\ me.cur # 0 /\ Refers(status', act[w])
  BY StillRefers DEF Actors, Rows
<1>2. /\ status'[me.cur] # "absent"
      /\ me.cand # 0 => status'[me.cand] # "absent"
      /\ \A d \in me.todo : status'[d] # "absent"
  BY <1>1 DEF Refers
<1>3. /\ Refers(status', Returned(me)) /\ Busy(Returned(me))
      /\ Refers(status', Idle) /\ Busy(Idle)
      /\ Refers(status', Failed(me.cur)) /\ Busy(Failed(me.cur))
  BY <1>1, <1>2, ReturnedRefers, LoopedBusy, IdleRefers, FailedRefers
     DEF Busy, Idle, Failed
<1>4. Refers(status', write) /\ Busy(write)
  <2>1. /\ write.cur = me.cur /\ write.cand = me.cand /\ write.todo = me.todo
        /\ write.pc = "write"
    BY DEF ActorState
  <2>. HIDE DEF write
  <2>. QED BY <1>1, <1>2, <2>1 DEF Refers, Busy
<1>5. PICK s \in {Returned(me), Idle, Failed(me.cur), write} : Become(w, s)
  BY DEF Transition
<1>. HIDE DEF write
<1>. QED BY <1>1, <1>3, <1>4, <1>5, RefersBecome

\* Every step keeps the references of the processes.
LEMMA ProcessesStep ==
  ASSUME WellFormed, [Next]_vars
  PROVE  ProcessesRefer'
<1>0. /\ Users \subseteq Actors /\ Workers \subseteq Actors /\ Users \cap Workers = {}
      /\ \A a \in Actors : act[a] \in ActorState
      /\ act \in [Actors -> ActorState]
  BY QueueAssumption DEF Actors, WellFormed, TypeOK
<1>s. \A a \in Actors : Refers(status', act[a])
  BY StillRefers
<1>b. \A w \in Workers : Busy(act[w])
  BY DEF WellFormed, References, Busy
<1>i. \A a \in Actors : Become(a, Idle) => ProcessesRefer'
  BY IdleRefers, RefersBecome DEF Busy, Idle
<1>1. ASSUME NEW u \in Users, CheckExisting(u) PROVE ProcessesRefer'
  <2>1. PICK l \in Lanes, c \in Commits :
          Become(u, [Idle EXCEPT !.pc = "create",
                       !.req = [lane |-> l, server |-> MainServer[l],
                                commit |-> c, only_this_server |-> FALSE]])
    BY <1>1 DEF CheckExisting
  <2>2. [lane |-> l, server |-> MainServer[l], commit |-> c,
         only_this_server |-> FALSE] \in Deployment
    BY QueueAssumption DEF Deployment
  <2>3. Refers(status', [Idle EXCEPT !.pc = "create",
                       !.req = [lane |-> l, server |-> MainServer[l],
                                commit |-> c, only_this_server |-> FALSE]])
    BY <2>2 DEF Refers, Idle
  <2>. QED BY <1>0, <2>1, <2>3, RefersBecome
<1>2. ASSUME NEW u \in Users, Redeploy(u) PROVE ProcessesRefer'
  <2>1. PICK l \in Lanes, only \in BOOLEAN :
          \E s \in {MainServer[l]} \cup (IF only THEN ExtraServers[l] ELSE {}) :
            Become(u, [Idle EXCEPT !.pc = "create_now",
                         !.req = [lane |-> l, server |-> s, commit |-> Head,
                                  only_this_server |-> only]])
    BY <1>2 DEF Redeploy
  <2>2. PICK s \in Servers :
          Become(u, [Idle EXCEPT !.pc = "create_now",
                       !.req = [lane |-> l, server |-> s, commit |-> Head,
                                only_this_server |-> only]])
    BY <2>1, QueueAssumption
  <2>3. [lane |-> l, server |-> s, commit |-> Head, only_this_server |-> only]
          \in Deployment
    BY QueueAssumption DEF Deployment
  <2>4. Refers(status', [Idle EXCEPT !.pc = "create_now",
                       !.req = [lane |-> l, server |-> s, commit |-> Head,
                                only_this_server |-> only]])
    BY <2>3 DEF Refers, Idle
  <2>. QED BY <1>0, <2>2, <2>4, RefersBecome
<1>3. ASSUME NEW u \in Users, CheckDeploymentQueue(u) PROVE ProcessesRefer'
  <2>1. PICK old \in SUBSET {d \in Rows : status[d] # "absent"} :
          Become(u, [Idle EXCEPT !.pc = "terminate", !.todo = old])
    BY <1>3 DEF CheckDeploymentQueue, Active
  <2>2. Refers(status', [Idle EXCEPT !.pc = "terminate", !.todo = old])
    BY <2>1, <1>3 DEF Refers, Idle, CheckDeploymentQueue, Active
  <2>. QED BY <1>0, <2>1, <2>2, RefersBecome
<1>4. ASSUME NEW u \in Users, NEW l \in Lanes, ClosePullRequest(u, l) PROVE ProcessesRefer'
  <2>1. PICK old \in SUBSET {d \in Rows : status[d] # "absent"} :
          Become(u, [Idle EXCEPT !.pc = "terminate", !.todo = old, !.goal = "cancelled-by-user"])
    BY <1>4 DEF ClosePullRequest, Active
  <2>2. Refers(status', [Idle EXCEPT !.pc = "terminate", !.todo = old, !.goal = "cancelled-by-user"])
    BY <2>1, <1>4 DEF Refers, Idle, ClosePullRequest, Active
  <2>. QED BY <1>0, <2>1, <2>2, RefersBecome
<1>5. ASSUME NEW u \in Users, NEW d \in Rows, ApiCancel(u, d) PROVE ProcessesRefer'
  <2>1. status'[d] # "absent"
    BY <1>5 DEF ApiCancel, Active
  <2>2. Refers(status', [Idle EXCEPT !.pc = "terminate", !.todo = {d},
                                     !.goal = "cancelled-by-user"])
    BY <2>1 DEF Refers, Idle
  <2>. QED BY <1>0, <1>5, <2>2, RefersBecome DEF ApiCancel
<1>6. ASSUME NEW u \in Users, NEW d \in Rows, ForceStart(u, d) PROVE ProcessesRefer'
  <2>1. status'[d] # "absent" /\ d # 0
    BY <1>6, CreatedGrows DEF ForceStart, Rows
  <2>2. Refers(status', [Idle EXCEPT !.pc = "push", !.cand = d])
    BY <2>1 DEF Refers, Idle
  <2>. QED BY <1>0, <1>6, <2>2, RefersBecome DEF ForceStart
<1>7. ASSUME NEW u \in Users, NEW d \in Rows, Cancel(u, d) PROVE ProcessesRefer'
  <2>1. PICK s : Become(u, [Idle EXCEPT !.pc = "read", !.srv = s])
    BY <1>7 DEF Cancel
  <2>2. Refers(status', [Idle EXCEPT !.pc = "read", !.srv = s])
    BY DEF Refers, Idle
  <2>. QED BY <1>0, <2>1, <2>2, RefersBecome
<1>8. ASSUME NEW u \in Users, CreateRow(u) PROVE ProcessesRefer'
  <2>1. ASSUME NEW d \in Rows,
               status' = [status EXCEPT ![d] = "queued"],
               Become(u, [Idle EXCEPT !.cand = d,
                            !.pc = IF act[u].pc = "create" THEN "admit_lane"
                                   ELSE "push"])
        PROVE  ProcessesRefer'
    <3> DEFINE s == [Idle EXCEPT !.cand = d,
                       !.pc = IF act[u].pc = "create" THEN "admit_lane" ELSE "push"]
    <3>1. status'[d] # "absent" /\ d # 0
      BY <2>1 DEF WellFormed, TypeOK, Rows
    <3>2. s.cur = 0 /\ s.cand = d /\ s.todo = {} /\ s.pc \in {"admit_lane", "push"}
      BY DEF Idle
    <3>3. Become(u, s)
      BY <2>1
    <3>. HIDE DEF s
    <3>4. Refers(status', s)
      BY <3>1, <3>2 DEF Refers
    <3>. QED BY <1>0, <3>3, <3>4, RefersBecome
  <2>. QED BY <1>0, <1>i, <1>8, <2>1 DEF CreateRow
<1>9. ASSUME NEW u \in Users, AdmitLane(u) PROVE ProcessesRefer'
  <2> DEFINE s == [act[u] EXCEPT !.pc = "admit_count"]
  <2>1. s.cur = act[u].cur /\ s.cand = act[u].cand /\ s.todo = act[u].todo
        /\ s.pc = "admit_count"
    BY <1>0 DEF ActorState
  <2>2. Become(u, Idle) \/ Become(u, s)
    BY <1>9 DEF AdmitLane
  <2>. HIDE DEF s
  <2>3. act[u].cand # 0
    BY <1>0, <1>9 DEF AdmitLane, WellFormed, References, Refers
  <2>4. Refers(status', s)
    BY <1>0, <1>s, <2>1, <2>3 DEF Refers
  <2>. QED BY <1>0, <1>i, <2>2, <2>4, RefersBecome
<1>10. ASSUME NEW u \in Users, AdmitCount(u) PROVE ProcessesRefer'
  <2> DEFINE s == [act[u] EXCEPT !.pc = "push"]
  <2>1. s.cur = act[u].cur /\ s.cand = act[u].cand /\ s.todo = act[u].todo
        /\ s.pc = "push"
    BY <1>0 DEF ActorState
  <2>2. Become(u, Idle) \/ Become(u, s)
    BY <1>10 DEF AdmitCount
  <2>. HIDE DEF s
  <2>3. act[u].cand # 0
    BY <1>0, <1>10 DEF AdmitCount, WellFormed, References, Refers
  <2>4. Refers(status', s)
    BY <1>0, <1>s, <2>1, <2>3 DEF Refers
  <2>. QED BY <1>0, <1>i, <2>2, <2>4, RefersBecome
<1>11. ASSUME NEW u \in Users, Terminate(u) PROVE ProcessesRefer'
  <2>1. PICK d \in Rows :
          Become(u, IF act[u].todo = {d} THEN Idle
                    ELSE [act[u] EXCEPT !.todo = act[u].todo \ {d}])
    BY <1>11 DEF Terminate
  <2> DEFINE s == [act[u] EXCEPT !.todo = act[u].todo \ {d}]
  <2>2. s.cur = act[u].cur /\ s.cand = act[u].cand /\ s.todo \subseteq act[u].todo
        /\ s.pc = act[u].pc /\ s.req = act[u].req
    BY <1>0 DEF ActorState
  <2>3. Become(u, Idle) \/ Become(u, s)
    BY <2>1
  <2>. HIDE DEF s
  <2>4. Refers(status', s)
    BY <1>0, <1>s, <2>2 DEF Refers
  <2>. QED BY <1>0, <1>i, <2>3, <2>4, RefersBecome
<1>12. ASSUME NEW a \in Actors, ReadQueue(a) PROVE ProcessesRefer'
  <2>1. PICK found \in SUBSET {d \in Rows : status'[d] # "absent"} :
          Become(a, Looped([act[a] EXCEPT !.extra = {}, !.todo = found]))
    BY <1>12 DEF ReadQueue
  <2> DEFINE me == [act[a] EXCEPT !.extra = {}, !.todo = found]
  <2>2. me \in ActorState /\ me.cur = act[a].cur /\ me.todo = found
    BY ZenonT(40), <1>0 DEF ActorState
  <2>3. act[a].cur # 0 => status'[act[a].cur] # "absent"
    BY <1>s DEF Refers
  <2>4. Become(a, Looped(me))
    BY <2>1
  <2>5. a \in Workers => act[a].cur # 0
    BY <1>b, <1>12 DEF Busy, ReadQueue
  <2>. HIDE DEF me
  <2>. QED BY <2>2, <2>3, <2>4, <2>5, LoopedRefers, LoopedBusy, RefersBecome
<1>13. ASSUME NEW a \in Actors, ScanLane(a) PROVE ProcessesRefer'
  <2> DEFINE rest(d) == [act[a] EXCEPT !.todo = act[a].todo \ {d}]
             next(d) == [rest(d) EXCEPT !.pc = "scan_count", !.cand = d]
  <2>1. PICK d \in Rows : d \in act[a].todo /\
          Become(a, IF LaneBusy(row[d].lane) THEN Looped(rest(d)) ELSE next(d))
    BY <1>13 DEF ScanLane, Oldest
  <2>2. rest(d) \in ActorState /\ rest(d).cur = act[a].cur
        /\ rest(d).todo \subseteq act[a].todo
    BY <1>0 DEF ActorState
  <2>3. next(d).cur = act[a].cur /\ next(d).todo \subseteq act[a].todo
        /\ next(d).cand = d /\ next(d).pc = "scan_count"
    BY <1>0 DEF ActorState
  <2>. HIDE DEF rest, next
  <2>4. /\ act[a].cur # 0 => status'[act[a].cur] # "absent"
        /\ \A e \in act[a].todo : status'[e] # "absent"
    BY <1>s DEF Refers
  <2>5. a \in Workers => act[a].cur # 0
    BY <1>b, <1>13 DEF Busy, ScanLane
  <2>6. Refers(status', Looped(rest(d))) /\ (a \in Workers => Busy(Looped(rest(d))))
    BY <2>2, <2>4, <2>5, LoopedRefers, LoopedBusy
  <2>7. Refers(status', next(d)) /\ (a \in Workers => Busy(next(d)))
    BY <2>1, <2>3, <2>4, <2>5 DEF Refers, Busy, Rows
  <2>. QED BY <2>1, <2>6, <2>7, RefersBecome
<1>14. ASSUME NEW a \in Actors, ScanCount(a) PROVE ProcessesRefer'
  <2> DEFINE next == [act[a] EXCEPT !.pc = "mark"]
  <2>1. Become(a, Looped(act[a])) \/ Become(a, next)
    BY <1>14 DEF ScanCount
  <2>2. next.cur = act[a].cur /\ next.todo = act[a].todo
        /\ next.cand = act[a].cand /\ next.pc = "mark"
    BY <1>0 DEF ActorState
  <2>. HIDE DEF next
  <2>3. act[a].cand # 0
    BY <1>14 DEF ScanCount, WellFormed, References, Refers
  <2>4. Refers(status', next)
    BY <1>s, <2>2, <2>3 DEF Refers
  <2>5. a \in Workers => act[a].cur # 0
    BY <1>b, <1>14 DEF Busy, ScanCount
  <2>6. Refers(status', Looped(act[a])) /\ (a \in Workers => Busy(Looped(act[a])))
    BY <1>0, <1>s, <2>5, LoopedRefers, LoopedBusy DEF Refers
  <2>. QED BY <2>1, <2>2, <2>4, <2>5, <2>6, RefersBecome DEF Busy
<1>15. ASSUME NEW a \in Actors, Mark(a) PROVE ProcessesRefer'
  <2> DEFINE next == [act[a] EXCEPT !.pc = "push"]
  <2>1. Become(a, next)
    BY <1>15 DEF Mark, Goto, Become
  <2>2. next.cur = act[a].cur /\ next.todo = act[a].todo
        /\ next.cand = act[a].cand /\ next.pc = "push"
    BY <1>0 DEF ActorState
  <2>. HIDE DEF next
  <2>3. act[a].cand # 0
    BY <1>15 DEF Mark, WellFormed, References, Refers
  <2>4. Refers(status', next)
    BY <1>s, <2>2, <2>3 DEF Refers
  <2>5. a \in Workers => act[a].cur # 0
    BY <1>b, <1>15 DEF Busy, Mark
  <2>. QED BY <2>1, <2>2, <2>4, <2>5, RefersBecome DEF Busy
<1>16. ASSUME NEW a \in Actors, Push(a) PROVE ProcessesRefer'
  <2> DEFINE next == [act[a] EXCEPT !.pc = "read", !.cand = 0]
  <2>1. Become(a, Looped(act[a])) \/ Become(a, next)
    BY <1>16 DEF Push
  <2>2. next.cur = act[a].cur /\ next.todo = act[a].todo
        /\ next.cand = 0 /\ next.pc = "read"
    BY <1>0 DEF ActorState
  <2>. HIDE DEF next
  <2>4. Refers(status', next)
    BY <1>s, <2>2 DEF Refers
  <2>5. a \in Workers => act[a].cur # 0
    BY <1>b, <1>16 DEF Busy, Push
  <2>6. Refers(status', Looped(act[a])) /\ (a \in Workers => Busy(Looped(act[a])))
    BY <1>0, <1>s, <2>5, LoopedRefers, LoopedBusy DEF Refers
  <2>. QED BY <2>1, <2>2, <2>4, <2>5, <2>6, RefersBecome DEF Busy
<1>17. ASSUME NEW w \in Workers, NEW d \in Rows, Reserve(w, d) PROVE ProcessesRefer'
  <2> DEFINE next == [Idle EXCEPT !.pc = "begin", !.cur = d, !.local = status[d]]
  <2>1. Become(w, Idle) \/ Become(w, next)
    BY <1>17 DEF Reserve
  <2>2. next.cur = d /\ next.cand = 0 /\ next.todo = {} /\ next.pc = "begin"
    BY DEF Idle
  <2>3. status'[d] # "absent" /\ d # 0
    BY <1>17 DEF Reserve, WellFormed, References, Created, Rows
  <2>. HIDE DEF next
  <2>. QED BY <1>0, <1>i, <2>1, <2>2, <2>3, RefersBecome DEF Refers, Busy
<1>18. ASSUME NEW w \in Workers, NEW d \in Rows, ReserveExpired(w, d) PROVE ProcessesRefer'
  <2>1. status'[d] # "absent" /\ d # 0
    BY <1>18 DEF ReserveExpired, WellFormed, References, Created, Rows
  <2>2. Refers(status', Failed(d)) /\ Busy(Failed(d))
    BY <2>1, FailedRefers DEF Busy, Failed, Idle
  <2>. QED BY <1>0, <1>18, <2>2, RefersBecome DEF ReserveExpired
<1>19. ASSUME NEW w \in Workers, HandleUpdate(w) PROVE ProcessesRefer'
  <2> DEFINE next == [act[w] EXCEPT !.pc = "run", !.local = "queued"]
  <2>1. Become(w, next)
    BY <1>19 DEF HandleUpdate
  <2>2. next.cur = act[w].cur /\ next.cand = act[w].cand
        /\ next.todo = act[w].todo /\ next.pc = "run"
    BY <1>0 DEF ActorState
  <2>3. act[w].cur # 0
    BY <1>b, <1>19 DEF Busy, HandleUpdate
  <2>. HIDE DEF next
  <2>4. Refers(status', next)
    BY <1>0, <1>s, <2>2 DEF Refers
  <2>. QED BY <1>0, <2>1, <2>2, <2>3, <2>4, RefersBecome DEF Busy
<1>20. ASSUME UNCHANGED act PROVE ProcessesRefer'
  BY <1>0, <1>s, <1>b, <1>20 DEF ProcessesRefer
<1>21. ASSUME NEW w \in Workers, Unhealthy(w) PROVE ProcessesRefer'
  <2>1. act[w] \in ActorState
    BY <1>0
  <2>2. act[w].cur \in Rows
    BY <1>21, <2>1 DEF Unhealthy, WellFormed, References, ActorState
  <2> DEFINE me == [act[w] EXCEPT !.goal = "failed", !.ret = "run2"]
  <2>3. me \in ActorState /\ me.cur = act[w].cur /\ me.cand = act[w].cand
        /\ me.todo = act[w].todo
    BY <2>1 DEF ActorState
  <2>4. Transition(w, me)
    BY <1>21 DEF Unhealthy
  <2>. HIDE DEF me
  <2>. QED BY <2>2, <2>3, <2>4, TransitionRefers
<1>22. ASSUME NEW w \in Workers, Complete(w) PROVE ProcessesRefer'
  <2>1. act[w] \in ActorState
    BY <1>0
  <2>2. act[w].cur \in Rows
    BY <1>22, <2>1 DEF Complete, WellFormed, References, ActorState
  <2> DEFINE me == [act[w] EXCEPT !.goal = "finished", !.ret = "post"]
  <2>3. me \in ActorState /\ me.cur = act[w].cur /\ me.cand = act[w].cand
        /\ me.todo = act[w].todo
    BY <2>1 DEF ActorState
  <2>4. Transition(w, me)
    BY <1>22 DEF Complete
  <2>. HIDE DEF me
  <2>. QED BY <2>2, <2>3, <2>4, TransitionRefers
<1>23. ASSUME NEW w \in Workers, CompleteAgain(w) PROVE ProcessesRefer'
  <2>1. act[w] \in ActorState
    BY <1>0
  <2>2. act[w].cur \in Rows
    BY <1>23, <2>1 DEF CompleteAgain, WellFormed, References, ActorState
  <2> DEFINE me == [act[w] EXCEPT !.goal = "finished", !.ret = "post2"]
  <2>3. me \in ActorState /\ me.cur = act[w].cur /\ me.cand = act[w].cand
        /\ me.todo = act[w].todo
    BY <2>1 DEF ActorState
  <2>4. Transition(w, me)
    BY <1>23 DEF CompleteAgain
  <2>. HIDE DEF me
  <2>. QED BY <2>2, <2>3, <2>4, TransitionRefers
<1>24. ASSUME NEW w \in Workers, FailDeployment(w) PROVE ProcessesRefer'
  <2>1. act[w] \in ActorState
    BY <1>0
  <2>2. act[w].cur \in Rows
    BY <1>24, <2>1 DEF FailDeployment, WellFormed, References, ActorState
  <2>. QED BY <1>24, <2>1, <2>2, TransitionRefers DEF FailDeployment
<1>25. ASSUME NEW w \in Workers, act[w].pc # "idle",
             Become(w, Failed(act[w].cur)) \/ Become(w, Idle)
      PROVE ProcessesRefer'
  <2>1. act[w].cur \in Rows /\ act[w].cur # 0
    BY <1>0, <1>b, <1>25 DEF Busy, ActorState
  <2>2. status'[act[w].cur] # "absent"
    BY <1>0, <1>s, <2>1 DEF Refers
  <2>3. Refers(status', Failed(act[w].cur)) /\ Busy(Failed(act[w].cur))
    BY <2>1, <2>2, FailedRefers DEF Busy, Failed, Idle
  <2>. QED BY <1>0, <1>i, <1>25, <2>3, RefersBecome
<1>26. ASSUME NEW w \in Workers, Throw(w) PROVE ProcessesRefer'
  BY <1>26, <1>25 DEF Throw
<1>27. ASSUME NEW w \in Workers, Finish(w) PROVE ProcessesRefer'
  BY <1>27, <1>25 DEF Finish
<1>28. ASSUME NEW w \in Workers, Timeout(w) PROVE ProcessesRefer'
  BY <1>28, <1>25 DEF Timeout, Handling
<1>29. ASSUME NEW w \in Workers, KillWorker(w) PROVE ProcessesRefer'
  BY <1>29, <1>25 DEF KillWorker
<1>30. ASSUME NEW a \in Actors, DispatchThrows(a) PROVE ProcessesRefer'
  BY <1>30, <1>i, <1>25 DEF DispatchThrows
<1>31. ASSUME NEW w \in Workers, WriteStatus(w) PROVE ProcessesRefer'
  <2>1. PICK extra :
          Become(w, [act[w] EXCEPT !.pc = "read", !.local = "queued", !.extra = extra])
    BY <1>31 DEF WriteStatus
  <2> DEFINE next == [act[w] EXCEPT !.pc = "read", !.local = "queued", !.extra = extra]
  <2>2. next.cur = act[w].cur /\ next.cand = act[w].cand
        /\ next.todo = act[w].todo /\ next.pc = "read"
    BY <1>0 DEF ActorState
  <2>3. act[w].cur # 0
    BY <1>b, <1>31 DEF Busy, WriteStatus
  <2>4. Become(w, next)
    BY <2>1
  <2>. HIDE DEF next
  <2>5. Refers(status', next)
    BY <1>0, <1>s, <2>2 DEF Refers
  <2>. QED BY <1>0, <2>2, <2>3, <2>4, <2>5, RefersBecome DEF Busy
<1>32. ASSUME NEW w \in Workers, DeployToAdditional(w) PROVE ProcessesRefer'
  <2> DEFINE next(d, s) == [act[w] EXCEPT !.pc = "push_new", !.cand = d,
                                          !.extra = act[w].extra \ {s}]
  <2>1. PICK d \in Rows, s \in act[w].extra :
          status' = [status EXCEPT ![d] = "queued"] /\ Become(w, next(d, s))
    BY <1>32 DEF DeployToAdditional
  <2>2. next(d, s).cur = act[w].cur /\ next(d, s).cand = d
        /\ next(d, s).todo = act[w].todo /\ next(d, s).pc = "push_new"
    BY <1>0 DEF ActorState
  <2>3. act[w].cur # 0
    BY <1>b, <1>32 DEF Busy, DeployToAdditional
  <2>. HIDE DEF next
  <2>4. status'[d] # "absent" /\ d # 0
    BY <2>1 DEF WellFormed, TypeOK, Rows
  <2>5. Refers(status', next(d, s))
    BY <1>0, <1>s, <2>2, <2>4 DEF Refers
  <2>. QED BY <1>0, <2>1, <2>2, <2>3, <2>5, RefersBecome DEF Busy
<1>33. ASSUME Shutdown PROVE ProcessesRefer'
  BY <1>0, <1>33, IdleRefers DEF Shutdown, ProcessesRefer, Busy, Idle
<1>. QED
  BY <1>0, <1>1, <1>2, <1>3, <1>4, <1>5, <1>6, <1>7, <1>8, <1>9, <1>10, <1>11,
       <1>12, <1>13, <1>14, <1>15, <1>16, <1>17, <1>18, <1>19, <1>20, <1>21,
       <1>22, <1>23, <1>24, <1>25, <1>26, <1>27, <1>28, <1>29, <1>30, <1>31,
       <1>32, <1>33
     DEF Next, vars, Request, Respond, Work, Scan, Disturb, ResolveCommit, AppInit

\* Only CreateRow and DeployToAdditional create a row, and only they and
\* ResolveCommit write the other columns.
LEMMA RowsStep ==
  ASSUME WellFormed, [Next]_vars
  PROVE  \A d \in Rows : status'[d] # "absent" => row'[d] \in Deployment
<1>0. /\ Users \subseteq Actors /\ Workers \subseteq Actors
      /\ \A a \in Actors : act[a] \in ActorState /\ Refers(status, act[a])
      /\ status \in [Rows -> Status]
      /\ row \in [Rows -> Deployment \cup {NoDeployment}]
      /\ \A d \in Rows : status[d] # "absent" => row[d] \in Deployment
      /\ \A d \in Rows : d # 0
      /\ \A w \in Workers : act[w].pc # "idle" => act[w].cur # 0
  BY DEF Actors, WellFormed, TypeOK, References, Created, Rows
<1>1. CASE row' = row /\ \A d \in Rows : status'[d] # "absent" => status[d] # "absent"
  BY <1>0, <1>1
<1>2. CASE UNCHANGED <<status, row>>
  BY <1>1, <1>2
<1>3. ASSUME NEW d \in Rows, NEW r \in Deployment, NEW k,
             status' = [status EXCEPT ![d] = k], row' = [row EXCEPT ![d] = r]
      PROVE  \A e \in Rows : status'[e] # "absent" => row'[e] \in Deployment
  BY <1>0, <1>3
<1>4. ASSUME NEW u \in Users, CreateRow(u)
      PROVE  \A e \in Rows : status'[e] # "absent" => row'[e] \in Deployment
  <2>1. act[u].req \in Deployment
    BY <1>0, <1>4 DEF CreateRow, Refers
  <2>. QED BY <1>2, <1>3, <1>4, <2>1 DEF CreateRow
<1>5. ASSUME NEW w \in Workers, DeployToAdditional(w)
      PROVE  \A e \in Rows : status'[e] # "absent" => row'[e] \in Deployment
  <2>0. act[w].cur \in Rows /\ act[w].cur # 0 /\ act[w].extra \in SUBSET Servers
    BY <1>0, <1>5 DEF DeployToAdditional, ActorState
  <2>1. row[act[w].cur] \in Deployment
    BY <1>0, <2>0 DEF Refers
  <2>2. ASSUME NEW s \in Servers
        PROVE  [lane |-> row[act[w].cur].lane, server |-> s, commit |-> Head,
                only_this_server |-> FALSE] \in Deployment
    BY <2>1, QueueAssumption DEF Deployment
  <2>. QED BY <1>3, <1>5, <2>0, <2>2 DEF DeployToAdditional
<1>6. ASSUME NEW w \in Workers, ResolveCommit(w)
      PROVE  \A e \in Rows : status'[e] # "absent" => row'[e] \in Deployment
  <2>1. act[w].cur \in Rows /\ act[w].cur # 0
    BY <1>0, <1>6 DEF ResolveCommit, ActorState
  <2>2. row[act[w].cur] \in Deployment
    BY <1>0, <2>1 DEF Refers
  <2>3. PICK c \in Commits : row' = [row EXCEPT ![act[w].cur].commit = c]
    BY <1>6 DEF ResolveCommit
  <2>4. [row[act[w].cur] EXCEPT !.commit = c] \in Deployment
    BY <2>2 DEF Deployment
  <2>5. row' = [row EXCEPT ![act[w].cur] = [row[act[w].cur] EXCEPT !.commit = c]]
    BY <2>3
  <2>. HIDE DEF Deployment
  <2>6. status' = status
    BY <1>6 DEF ResolveCommit
  <2>. QED BY <1>0, <2>1, <2>4, <2>5, <2>6
<1>7. ASSUME NEW u \in Users, NEW d \in Rows, ForceStart(u, d) \/ Cancel(u, d)
      PROVE  \A e \in Rows : status'[e] # "absent" => row'[e] \in Deployment
  BY <1>0, <1>1, <1>7 DEF ForceStart, Cancel
<1>8. ASSUME NEW a \in Actors, Terminate(a)
      PROVE  \A e \in Rows : status'[e] # "absent" => row'[e] \in Deployment
  BY <1>0, <1>1, <1>8 DEF Terminate, Oldest, Refers
<1>9. ASSUME NEW a \in Actors, Mark(a)
      PROVE  \A e \in Rows : status'[e] # "absent" => row'[e] \in Deployment
  BY <1>0, <1>1, <1>9 DEF Mark, Refers
<1>10. ASSUME NEW w \in Workers, HandleUpdate(w) \/ WriteStatus(w)
       PROVE  \A e \in Rows : status'[e] # "absent" => row'[e] \in Deployment
  <2>1. act[w].cur # 0 /\ status[act[w].cur] # "absent"
    BY <1>0, <1>10 DEF HandleUpdate, WriteStatus, Refers
  <2>2. \A d \in Rows : status'[d] # "absent" => status[d] # "absent"
    BY <1>0, <1>10, <2>1 DEF HandleUpdate, WriteStatus
  <2>. QED BY <1>1, <1>10, <2>2 DEF HandleUpdate, WriteStatus
<1>11. ASSUME AppInit
       PROVE  \A e \in Rows : status'[e] # "absent" => row'[e] \in Deployment
  <2>1. \A d \in Rows : status'[d] # "absent" => status[d] # "absent"
    BY <1>0, <1>11 DEF AppInit, Active
  <2>. QED BY <1>1, <1>11, <2>1 DEF AppInit
<1>12. ASSUME NEW u \in Users, Request(u)
       PROVE  \A e \in Rows : status'[e] # "absent" => row'[e] \in Deployment
  BY <1>2, <1>7, <1>12
       DEF Request, CheckExisting, Redeploy, CheckDeploymentQueue,
     ApiCancel, ClosePullRequest
<1>13. ASSUME NEW a \in Actors, Scan(a)
       PROVE  \A e \in Rows : status'[e] # "absent" => row'[e] \in Deployment
  BY <1>2, <1>9, <1>13 DEF Scan, ReadQueue, ScanLane, ScanCount, Push
<1>14. ASSUME NEW u \in Users, Respond(u)
       PROVE  \A e \in Rows : status'[e] # "absent" => row'[e] \in Deployment
  BY <1>0, <1>2, <1>4, <1>8, <1>13, <1>14 DEF Respond, AdmitLane, AdmitCount
<1>15. ASSUME NEW w \in Workers, Work(w)
       PROVE  \A e \in Rows : status'[e] # "absent" => row'[e] \in Deployment
  BY <1>0, <1>2, <1>5, <1>6, <1>10, <1>13, <1>15
     DEF Work, Reserve, ReserveExpired, Unhealthy, Complete, CompleteAgain,
         FailDeployment, Transition, Throw, Finish
<1>16. ASSUME Disturb
       PROVE  \A e \in Rows : status'[e] # "absent" => row'[e] \in Deployment
  BY <1>2, <1>11, <1>16
       DEF Disturb, Timeout, KillWorker, DispatchThrows, Shutdown
<1>. QED BY <1>2, <1>12, <1>14, <1>15, <1>16 DEF Next, vars

\* A job in redis, waiting or reserved, is for a row of the table.
LEMMA JobsStep ==
  ASSUME WellFormed, [Next]_vars
  PROVE  \A d \in Rows : jobs'[d] > 0 \/ expired'[d] > 0 => status'[d] # "absent"
<1>0. /\ Users \subseteq Actors /\ Workers \subseteq Actors
      /\ \A a \in Actors : act[a] \in ActorState /\ Refers(status', act[a])
      /\ jobs \in [Rows -> Nat] /\ expired \in [Rows -> Nat]
      /\ \A d \in Rows : jobs[d] > 0 \/ expired[d] > 0 => status'[d] # "absent"
      /\ \A d \in Rows : d # 0
      /\ \A w \in Workers : act[w].pc # "idle" => act[w].cur # 0
  BY StillRefers, CreatedGrows
       DEF Actors, WellFormed, TypeOK, References, Created, Rows
<1>1. CASE UNCHANGED <<jobs, expired>>
  BY <1>0, <1>1
<1>2. ASSUME NEW a \in Actors, Push(a)
      PROVE  \A d \in Rows : jobs'[d] > 0 \/ expired'[d] > 0 => status'[d] # "absent"
  <2>1. act[a].cand \in Rows => status'[act[a].cand] # "absent"
    BY <1>0 DEF Refers
  <2>. QED BY <1>0, <1>2, <2>1 DEF Push
<1>3. ASSUME NEW w \in Workers, NEW d \in Rows, Reserve(w, d) \/ ReserveExpired(w, d)
      PROVE  \A e \in Rows : jobs'[e] > 0 \/ expired'[e] > 0 => status'[e] # "absent"
  BY <1>0, <1>3 DEF Reserve, ReserveExpired
<1>4. ASSUME NEW w \in Workers, KillWorker(w)
      PROVE  \A d \in Rows : jobs'[d] > 0 \/ expired'[d] > 0 => status'[d] # "absent"
  <2>1. act[w].cur \in Rows => status'[act[w].cur] # "absent"
    BY <1>0 DEF Refers
  <2>. QED BY <1>0, <1>4, <2>1 DEF KillWorker
<1>5. ASSUME Shutdown
      PROVE  \A d \in Rows : jobs'[d] > 0 \/ expired'[d] > 0 => status'[d] # "absent"
  <2>1. SUFFICES ASSUME NEW d \in Rows, jobs[d] = 0, expired[d] = 0, expired'[d] > 0
                 PROVE  status'[d] # "absent"
    BY <1>0, <1>5 DEF Shutdown
  <2>2. CASE \E w \in Workers : act[w].cur = d
    <3>1. PICK w \in Workers : act[w].cur = d
      BY <2>2
    <3>. QED BY <1>0, <3>1 DEF Refers
  <2>3. CASE \A w \in Workers : act[w].cur # d
    <3>1. {w \in Workers : Handling(w) /\ act[w].cur = d} = {}
      BY <2>3
    <3>. QED BY <1>5, <2>1, <3>1, FS_EmptySet DEF Shutdown
  <2>. QED BY <2>2, <2>3
<1>6. ASSUME NEW u \in Users, Request(u) PROVE UNCHANGED <<jobs, expired>>
  BY <1>6
       DEF Request, CheckExisting, Redeploy, CheckDeploymentQueue, ForceStart,
     Cancel, ApiCancel, ClosePullRequest
<1>7. ASSUME NEW a \in Actors, Scan(a)
      PROVE  UNCHANGED <<jobs, expired>> \/ Push(a)
  BY <1>7 DEF Scan, ReadQueue, ScanLane, ScanCount, Mark
<1>8. ASSUME NEW u \in Users, Respond(u)
      PROVE  UNCHANGED <<jobs, expired>> \/ Push(u)
  BY <1>0, <1>7, <1>8 DEF Respond, CreateRow, AdmitLane, AdmitCount, Terminate
<1>9. ASSUME NEW w \in Workers, Work(w)
      PROVE  \/ UNCHANGED <<jobs, expired>> \/ Push(w)
             \/ \E d \in Rows : Reserve(w, d) \/ ReserveExpired(w, d)
  BY <1>0, <1>7, <1>9
       DEF Work, HandleUpdate, ResolveCommit, Unhealthy, Complete,
     CompleteAgain, FailDeployment, Transition, Throw, Finish, WriteStatus,
     DeployToAdditional
<1>10. ASSUME Disturb
       PROVE  \/ UNCHANGED <<jobs, expired>> \/ Shutdown
              \/ \E w \in Workers : KillWorker(w)
  BY <1>10 DEF Disturb, Timeout, DispatchThrows, AppInit
<1>. QED
  BY <1>0, <1>1, <1>2, <1>3, <1>4, <1>5, <1>6, <1>8, <1>9, <1>10 DEF Next, vars

\* The inductive invariant.
LEMMA WellFormedInit == Init => WellFormed
<1>1. Init => \A d \in Rows : status[d] = "absent" /\ jobs[d] = 0 /\ expired[d] = 0
  BY DEF Init
<1>2. Init => \A a \in Actors : Refers(status, act[a]) /\ act[a].pc = "idle"
  <2>1. Init => \A a \in Actors : act[a] = Idle
    BY DEF Init
  <2>2. Idle.pc = "idle"
    BY DEF Idle
  <2>. QED BY <2>1, <2>2, IdleRefers
<1>3. Init => References
  BY <1>1, <1>2 DEF References, Created, Actors
<1>. QED BY <1>3, InitType DEF WellFormed

LEMMA WellFormedStep ==
  ASSUME WellFormed, [Next]_vars
  PROVE  WellFormed'
<1>1. TypeOK'
  BY TypeStep
<1>2. References'
  <2>1. /\ \A a \in Actors : Refers(status', act'[a])
        /\ \A w \in Workers : act'[w].pc # "idle" => act'[w].cur # 0
    BY ProcessesStep DEF ProcessesRefer, Busy
  <2>. QED BY <2>1, RowsStep, JobsStep DEF References, Created
<1>. QED BY <1>1, <1>2 DEF WellFormed

\* The variables have their types in every reachable state, and what processes
\* and redis refer to exists: no job or scan dereferences a missing row.
THEOREM TypeCorrect == Spec => []TypeOK /\ []References
<1>1. WellFormed => TypeOK /\ References
  BY DEF WellFormed
<1>. QED BY <1>1, WellFormedInit, WellFormedStep, PTL DEF Spec

-----------------------------------------------------------------------------
(* SlotHeld *)

\* In table state st, code in state me has row d's job and will release it.
HoldsIn(st, me, d) ==
  /\ me.cur = d
  /\ \/ me.pc \in {"begin", "run", "run2", "check"}
     \/ me.pc = "write" /\ me.local # me.goal

\* A step in which the process a takes the state s, nothing leaves redis, no
\* slot is forgotten, and every row that is in progress afterwards was so
\* before or is carried by a: the rows a carried are the only ones to look at.
LEMMA SlotBecome ==
  ASSUME WellFormed, WellFormed', SlotHeld, NEW a \in Actors, NEW s, Become(a, s),
         \A d \in Rows : jobs[d] > 0 => jobs'[d] > 0,
         \A d \in Rows : expired[d] > 0 => expired'[d] > 0,
         lost \subseteq lost',
         \A d \in Rows : status'[d] = "in_progress" =>
           \/ /\ status[d] = "in_progress"
              /\ ~(a \in Workers /\ HoldsIn(status, act[a], d))
              /\ ~(act[a].pc = "push" /\ act[a].cand = d)
           \/ a \in Workers /\ HoldsIn(status, s, d)
           \/ s.pc = "push" /\ s.cand = d
           \/ jobs'[d] > 0 \/ expired'[d] > 0 \/ d \in lost'
  PROVE  SlotHeld'
<1>1. act \in [Actors -> ActorState] /\ Workers \subseteq Actors
  BY DEF WellFormed, TypeOK, Actors
<1>2. act'[a] = s /\ \A b \in Actors : b # a => act'[b] = act[b]
  BY <1>1 DEF Become
<1>3. SUFFICES ASSUME NEW d \in Rows, status'[d] = "in_progress"
               PROVE  Carried(d)' \/ d \in lost'
  BY DEF SlotHeld, InProgress
<1>4. CASE jobs'[d] > 0 \/ expired'[d] > 0 \/ d \in lost'
  BY <1>4 DEF Carried
<1>5. CASE a \in Workers /\ HoldsIn(status, s, d)
  BY <1>2, <1>5 DEF Carried, Holds, HoldsIn
<1>6. CASE s.pc = "push" /\ s.cand = d
  BY <1>2, <1>6 DEF Carried, Dispatching
<1>7. CASE /\ status[d] = "in_progress"
           /\ ~(a \in Workers /\ HoldsIn(status, act[a], d))
           /\ ~(act[a].pc = "push" /\ act[a].cand = d)
  <2>1. Carried(d) \/ d \in lost
    BY <1>7 DEF SlotHeld, InProgress
  <2>2. CASE jobs[d] > 0 \/ expired[d] > 0 \/ d \in lost
    BY <1>4, <2>2
  <2>3. ASSUME NEW w \in Workers, Holds(w, d) PROVE Carried(d)'
    <3>1. w # a
      BY <1>7, <2>3 DEF Holds, HoldsIn
    <3>. QED BY <1>1, <1>2, <2>3, <3>1 DEF Carried, Holds
  <2>4. ASSUME NEW b \in Actors, Dispatching(b, d) PROVE Carried(d)'
    <3>1. b # a
      BY <1>7, <2>4 DEF Dispatching
    <3>. QED BY <1>2, <2>4, <3>1 DEF Carried, Dispatching
  <2>. QED BY <2>1, <2>2, <2>3, <2>4 DEF Carried
<1>. QED BY <1>3, <1>4, <1>5, <1>6, <1>7

\* A process that carries nothing takes any state, and no row enters progress.
LEMMA SlotQuiet ==
  ASSUME WellFormed, WellFormed', SlotHeld, NEW a \in Actors, NEW s, Become(a, s),
         jobs' = jobs, expired' = expired, lost' = lost,
         act[a].pc \notin {"begin", "run", "run2", "check", "write", "push"},
         \A d \in Rows : status'[d] = "in_progress" => status[d] = "in_progress"
  PROVE  SlotHeld'
BY SlotBecome DEF HoldsIn

\* A transition by code in state me, of the process that holds me.cur: either
\* the row is terminal or the write of the new status is still to come.
LEMMA SlotTransition ==
  ASSUME WellFormed, WellFormed', SlotHeld, NEW w \in Workers,
         NEW me \in ActorState, me.cur = act[w].cur,
         act[w].pc \notin {"write", "push"}, Transition(w, me)
  PROVE  SlotHeld'
<1> DEFINE write == [me EXCEPT !.pc = "write", !.local = status[me.cur]]
<1>1. w \in Actors /\ UNCHANGED <<status, jobs, expired, lost>>
  BY DEF Transition, Actors
<1>2. write.pc = "write" /\ write.local = status[me.cur] /\ write.goal = me.goal
      /\ write.cur = me.cur /\ me.goal # "in_progress"
  BY DEF ActorState
<1>3. PICK s : /\ Become(w, s)
               /\ s = write \/ status[me.cur] \in {"failed", "cancelled-by-user"}
  BY DEF Transition
<1>. HIDE DEF write
<1>4. ASSUME NEW d \in Rows, status'[d] = "in_progress"
      PROVE  \/ /\ status[d] = "in_progress"
                /\ ~(w \in Workers /\ HoldsIn(status, act[w], d))
                /\ ~(act[w].pc = "push" /\ act[w].cand = d)
             \/ w \in Workers /\ HoldsIn(status, s, d)
  BY <1>1, <1>2, <1>3, <1>4 DEF HoldsIn
<1>. QED BY <1>1, <1>3, <1>4, SlotBecome

\* Every step keeps the slots held.
LEMMA SlotStep ==
  ASSUME WellFormed, WellFormed', SlotHeld, [Next]_vars
  PROVE  SlotHeld'
<1>0. /\ Users \subseteq Actors /\ Workers \subseteq Actors /\ Users \cap Workers = {}
      /\ \A a \in Actors : act[a] \in ActorState
      /\ status \in [Rows -> Status]
      /\ jobs \in [Rows -> Nat] /\ expired \in [Rows -> Nat]
      /\ \A w \in Workers : act[w].pc # "idle" => act[w].cur \in Rows
  BY QueueAssumption DEF Actors, WellFormed, TypeOK, References, ActorState
<1>1. ASSUME NEW u \in Users, CheckExisting(u) PROVE SlotHeld'
  <2>1. PICK s : Become(u, s)
    BY <1>1 DEF CheckExisting
  <2>2. act[u].pc \notin {"begin", "run", "run2", "check", "write", "push"}
    BY <1>1 DEF CheckExisting
  <2>3. \A e \in Rows : status'[e] = "in_progress" => status[e] = "in_progress"
    BY <1>0, <1>1 DEF CheckExisting
  <2>. QED BY <1>0, <1>1, <2>1, <2>2, <2>3, SlotQuiet DEF CheckExisting
<1>2. ASSUME NEW u \in Users, Redeploy(u) PROVE SlotHeld'
  <2>1. PICK s : Become(u, s)
    BY <1>2 DEF Redeploy
  <2>2. act[u].pc \notin {"begin", "run", "run2", "check", "write", "push"}
    BY <1>2 DEF Redeploy
  <2>3. \A e \in Rows : status'[e] = "in_progress" => status[e] = "in_progress"
    BY <1>0, <1>2 DEF Redeploy
  <2>. QED BY <1>0, <1>2, <2>1, <2>2, <2>3, SlotQuiet DEF Redeploy
<1>3. ASSUME NEW u \in Users, CheckDeploymentQueue(u) PROVE SlotHeld'
  <2>1. PICK s : Become(u, s)
    BY <1>3 DEF CheckDeploymentQueue
  <2>2. act[u].pc \notin {"begin", "run", "run2", "check", "write", "push"}
    BY <1>3 DEF CheckDeploymentQueue
  <2>3. \A e \in Rows : status'[e] = "in_progress" => status[e] = "in_progress"
    BY <1>0, <1>3 DEF CheckDeploymentQueue
  <2>. QED BY <1>0, <1>3, <2>1, <2>2, <2>3, SlotQuiet DEF CheckDeploymentQueue
<1>4. ASSUME NEW u \in Users, NEW d \in Rows, Cancel(u, d) PROVE SlotHeld'
  <2>1. PICK s : Become(u, s)
    BY <1>4 DEF Cancel
  <2>2. act[u].pc \notin {"begin", "run", "run2", "check", "write", "push"}
    BY <1>4 DEF Cancel
  <2>3. \A e \in Rows : status'[e] = "in_progress" => status[e] = "in_progress"
    BY <1>0, <1>4 DEF Cancel
  <2>. QED BY <1>0, <1>4, <2>1, <2>2, <2>3, SlotQuiet DEF Cancel
<1>5. ASSUME NEW u \in Users, NEW d \in Rows, ApiCancel(u, d) PROVE SlotHeld'
  <2>1. PICK s : Become(u, s)
    BY <1>5 DEF ApiCancel
  <2>2. act[u].pc \notin {"begin", "run", "run2", "check", "write", "push"}
    BY <1>5 DEF ApiCancel
  <2>3. \A e \in Rows : status'[e] = "in_progress" => status[e] = "in_progress"
    BY <1>0, <1>5 DEF ApiCancel
  <2>. QED BY <1>0, <1>5, <2>1, <2>2, <2>3, SlotQuiet DEF ApiCancel
<1>6. ASSUME NEW u \in Users, NEW l \in Lanes, ClosePullRequest(u, l) PROVE SlotHeld'
  <2>1. PICK s : Become(u, s)
    BY <1>6 DEF ClosePullRequest
  <2>2. act[u].pc \notin {"begin", "run", "run2", "check", "write", "push"}
    BY <1>6 DEF ClosePullRequest
  <2>3. \A e \in Rows : status'[e] = "in_progress" => status[e] = "in_progress"
    BY <1>0, <1>6 DEF ClosePullRequest
  <2>. QED BY <1>0, <1>6, <2>1, <2>2, <2>3, SlotQuiet DEF ClosePullRequest
<1>7. ASSUME NEW u \in Users, CreateRow(u) PROVE SlotHeld'
  <2>1. PICK s : Become(u, s)
    BY <1>7 DEF CreateRow
  <2>2. act[u].pc \notin {"begin", "run", "run2", "check", "write", "push"}
    BY <1>7 DEF CreateRow
  <2>3. \A e \in Rows : status'[e] = "in_progress" => status[e] = "in_progress"
    BY <1>0, <1>7 DEF CreateRow
  <2>. QED BY <1>0, <1>7, <2>1, <2>2, <2>3, SlotQuiet DEF CreateRow
<1>8. ASSUME NEW u \in Users, AdmitLane(u) PROVE SlotHeld'
  <2>1. PICK s : Become(u, s)
    BY <1>8 DEF AdmitLane
  <2>2. act[u].pc \notin {"begin", "run", "run2", "check", "write", "push"}
    BY <1>8 DEF AdmitLane
  <2>3. \A e \in Rows : status'[e] = "in_progress" => status[e] = "in_progress"
    BY <1>0, <1>8 DEF AdmitLane
  <2>. QED BY <1>0, <1>8, <2>1, <2>2, <2>3, SlotQuiet DEF AdmitLane
<1>9. ASSUME NEW u \in Users, AdmitCount(u) PROVE SlotHeld'
  <2>1. PICK s : Become(u, s)
    BY <1>9 DEF AdmitCount
  <2>2. act[u].pc \notin {"begin", "run", "run2", "check", "write", "push"}
    BY <1>9 DEF AdmitCount
  <2>3. \A e \in Rows : status'[e] = "in_progress" => status[e] = "in_progress"
    BY <1>0, <1>9 DEF AdmitCount
  <2>. QED BY <1>0, <1>9, <2>1, <2>2, <2>3, SlotQuiet DEF AdmitCount
<1>10. ASSUME NEW u \in Users, Terminate(u) PROVE SlotHeld'
  <2>1. PICK s : Become(u, s)
    BY <1>10 DEF Terminate
  <2>2. act[u].pc \notin {"begin", "run", "run2", "check", "write", "push"}
    BY <1>10 DEF Terminate
  <2>3. \A e \in Rows : status'[e] = "in_progress" => status[e] = "in_progress"
    BY <1>0, <1>10 DEF Terminate, ActorState
  <2>. QED BY <1>0, <1>10, <2>1, <2>2, <2>3, SlotQuiet DEF Terminate
<1>11. ASSUME NEW a \in Actors, ReadQueue(a) PROVE SlotHeld'
  <2>1. PICK s : Become(a, s)
    BY <1>11 DEF ReadQueue
  <2>2. act[a].pc \notin {"begin", "run", "run2", "check", "write", "push"}
    BY <1>11 DEF ReadQueue
  <2>3. \A e \in Rows : status'[e] = "in_progress" => status[e] = "in_progress"
    BY <1>0, <1>11 DEF ReadQueue
  <2>. QED BY <1>0, <1>11, <2>1, <2>2, <2>3, SlotQuiet DEF ReadQueue
<1>12. ASSUME NEW a \in Actors, ScanLane(a) PROVE SlotHeld'
  <2>1. PICK s : Become(a, s)
    BY <1>12 DEF ScanLane
  <2>2. act[a].pc \notin {"begin", "run", "run2", "check", "write", "push"}
    BY <1>12 DEF ScanLane
  <2>3. \A e \in Rows : status'[e] = "in_progress" => status[e] = "in_progress"
    BY <1>0, <1>12 DEF ScanLane
  <2>. QED BY <1>0, <1>12, <2>1, <2>2, <2>3, SlotQuiet DEF ScanLane
<1>13. ASSUME NEW a \in Actors, ScanCount(a) PROVE SlotHeld'
  <2>1. PICK s : Become(a, s)
    BY <1>13 DEF ScanCount
  <2>2. act[a].pc \notin {"begin", "run", "run2", "check", "write", "push"}
    BY <1>13 DEF ScanCount
  <2>3. \A e \in Rows : status'[e] = "in_progress" => status[e] = "in_progress"
    BY <1>0, <1>13 DEF ScanCount
  <2>. QED BY <1>0, <1>13, <2>1, <2>2, <2>3, SlotQuiet DEF ScanCount
<1>14. ASSUME NEW w \in Workers, Finish(w) PROVE SlotHeld'
  <2>1. PICK s : Become(w, s)
    BY <1>14 DEF Finish
  <2>2. act[w].pc \notin {"begin", "run", "run2", "check", "write", "push"}
    BY <1>14 DEF Finish
  <2>3. \A e \in Rows : status'[e] = "in_progress" => status[e] = "in_progress"
    BY <1>0, <1>14 DEF Finish
  <2>. QED BY <1>0, <1>14, <2>1, <2>2, <2>3, SlotQuiet DEF Finish
<1>15. ASSUME NEW w \in Workers, DeployToAdditional(w) PROVE SlotHeld'
  <2>1. PICK s : Become(w, s)
    BY <1>15 DEF DeployToAdditional
  <2>2. act[w].pc \notin {"begin", "run", "run2", "check", "write", "push"}
    BY <1>15 DEF DeployToAdditional
  <2>3. \A e \in Rows : status'[e] = "in_progress" => status[e] = "in_progress"
    BY <1>0, <1>15 DEF DeployToAdditional
  <2>. QED BY <1>0, <1>15, <2>1, <2>2, <2>3, SlotQuiet DEF DeployToAdditional
<1>16. ASSUME NEW u \in Users, NEW d \in Rows, ForceStart(u, d) PROVE SlotHeld'
  <2> DEFINE s == [Idle EXCEPT !.pc = "push", !.cand = d]
  <2>1. s.pc = "push" /\ s.cand = d
    BY DEF Idle
  <2>2. Become(u, s)
    BY <1>16 DEF ForceStart
  <2>. HIDE DEF s
  <2>3. ASSUME NEW e \in Rows, status'[e] = "in_progress"
        PROVE  status[e] = "in_progress" \/ (s.pc = "push" /\ s.cand = e)
    BY <1>0, <1>16, <2>1, <2>3 DEF ForceStart
  <2>4. act[u].pc = "idle" /\ u \notin Workers
    BY <1>0, <1>16 DEF ForceStart
  <2>. QED BY <1>0, <1>16, <2>2, <2>3, <2>4, SlotBecome DEF ForceStart
<1>17. ASSUME NEW a \in Actors, Mark(a) PROVE SlotHeld'
  <2> DEFINE s == [act[a] EXCEPT !.pc = "push"]
  <2>1. s.pc = "push" /\ s.cand = act[a].cand
    BY <1>0 DEF ActorState
  <2>2. Become(a, s)
    BY <1>17 DEF Mark, Goto, Become
  <2>. HIDE DEF s
  <2>3. ASSUME NEW e \in Rows, status'[e] = "in_progress"
        PROVE  status[e] = "in_progress" \/ (s.pc = "push" /\ s.cand = e)
    BY <1>0, <1>17, <2>1, <2>3 DEF Mark
  <2>4. \A e \in Rows : ~HoldsIn(status, act[a], e)
    BY <1>17 DEF Mark, HoldsIn
  <2>. QED BY <1>0, <1>17, <2>2, <2>3, <2>4, SlotBecome DEF Mark
<1>18. ASSUME NEW a \in Actors, Push(a) PROVE SlotHeld'
  <2>1. PICK s : Become(a, s)
    BY <1>18 DEF Push
  <2>2. /\ \A d \in Rows : jobs[d] > 0 => jobs'[d] > 0
        /\ \A d \in Rows : d = act[a].cand => jobs'[d] > 0
    BY <1>0, <1>18 DEF Push
  <2>3. \A e \in Rows : ~HoldsIn(status, act[a], e)
    BY <1>18 DEF Push, HoldsIn
  <2>. QED BY <1>0, <1>18, <2>1, <2>2, <2>3, SlotBecome DEF Push
<1>19. ASSUME NEW w \in Workers, NEW d \in Rows, Reserve(w, d) PROVE SlotHeld'
  <2>1. SUFFICES ASSUME NEW e \in Rows, status'[e] = "in_progress"
                 PROVE  Carried(e)' \/ e \in lost'
    BY DEF SlotHeld, InProgress
  <2>2. Carried(e) \/ e \in lost
    BY <1>19, <2>1 DEF Reserve, SlotHeld, InProgress
  <2>3. /\ act \in [Actors -> ActorState] /\ act[w].pc = "idle"
        /\ \A b \in Actors : b # w => act'[b] = act[b]
    BY <1>0, <1>19 DEF Reserve, Become, WellFormed, TypeOK
  <2>4. CASE e = d
    <3>1. act'[w] = [Idle EXCEPT !.pc = "begin", !.cur = d, !.local = status[d]]
      BY <1>0, <1>19, <2>1, <2>3, <2>4 DEF Reserve, Become
    <3>2. act'[w].pc = "begin" /\ act'[w].cur = e
      BY <2>4, <3>1 DEF Idle
    <3>. QED BY <3>2 DEF Carried, Holds
  <2>5. CASE e # d
    <3>1. CASE jobs[e] > 0 \/ expired[e] > 0 \/ e \in lost
      BY <1>0, <1>19, <2>5, <3>1 DEF Reserve, Carried
    <3>2. ASSUME NEW v \in Workers, Holds(v, e) PROVE Carried(e)'
      BY <1>0, <2>3, <3>2 DEF Carried, Holds
    <3>3. ASSUME NEW b \in Actors, Dispatching(b, e) PROVE Carried(e)'
      BY <2>3, <3>3 DEF Carried, Dispatching
    <3>. QED BY <2>2, <3>1, <3>2, <3>3 DEF Carried
  <2>. QED BY <2>4, <2>5
<1>20. ASSUME NEW w \in Workers, NEW d \in Rows, ReserveExpired(w, d) PROVE SlotHeld'
  <2>1. SUFFICES ASSUME NEW e \in Rows, status'[e] = "in_progress"
                 PROVE  Carried(e)' \/ e \in lost'
    BY DEF SlotHeld, InProgress
  <2>2. Carried(e) \/ e \in lost
    BY <1>20, <2>1 DEF ReserveExpired, SlotHeld, InProgress
  <2>3. /\ act \in [Actors -> ActorState] /\ act[w].pc = "idle"
        /\ act'[w] = Failed(d)
        /\ \A b \in Actors : b # w => act'[b] = act[b]
    BY <1>0, <1>20 DEF ReserveExpired, Become, WellFormed, TypeOK
  <2>4. CASE e = d
    <3>1. act'[w].pc = "check" /\ act'[w].cur = e
      BY <2>3, <2>4 DEF Failed, Idle
    <3>. QED BY <3>1 DEF Carried, Holds
  <2>5. CASE e # d
    <3>1. CASE jobs[e] > 0 \/ expired[e] > 0 \/ e \in lost
      BY <1>0, <1>20, <2>5, <3>1 DEF ReserveExpired, Carried
    <3>2. ASSUME NEW v \in Workers, Holds(v, e) PROVE Carried(e)'
      BY <1>0, <2>3, <3>2 DEF Carried, Holds
    <3>3. ASSUME NEW b \in Actors, Dispatching(b, e) PROVE Carried(e)'
      BY <2>3, <3>3 DEF Carried, Dispatching
    <3>. QED BY <2>2, <3>1, <3>2, <3>3 DEF Carried
  <2>. QED BY <2>4, <2>5
<1>21. ASSUME NEW w \in Workers, HandleUpdate(w) PROVE SlotHeld'
  <2> DEFINE s == [act[w] EXCEPT !.pc = "run", !.local = "queued"]
  <2>1. s.pc = "run" /\ s.cur = act[w].cur
    BY <1>0 DEF ActorState
  <2>2. Become(w, s)
    BY <1>21 DEF HandleUpdate
  <2>. HIDE DEF s
  <2>3. ASSUME NEW e \in Rows, status'[e] = "in_progress"
        PROVE  (status[e] = "in_progress" /\ e # act[w].cur) \/ HoldsIn(status, s, e)
    BY <1>0, <1>21, <2>1, <2>3 DEF HandleUpdate, HoldsIn
  <2>4. act[w].pc # "push" /\ \A e \in Rows : HoldsIn(status, act[w], e) => e = act[w].cur
    BY <1>21 DEF HandleUpdate, HoldsIn
  <2>. QED BY <1>0, <1>21, <2>2, <2>3, <2>4, SlotBecome DEF HandleUpdate
<1>22. ASSUME UNCHANGED <<status, jobs, expired, act, lost>> PROVE SlotHeld'
  BY <1>22 DEF SlotHeld, InProgress, Carried, Holds, Dispatching
<1>23. ASSUME NEW w \in Workers, Unhealthy(w) PROVE SlotHeld'
  <2>1. act[w] \in ActorState
    BY <1>0
  <2> DEFINE me == [act[w] EXCEPT !.goal = "failed", !.ret = "run2"]
  <2>2. me \in ActorState /\ me.cur = act[w].cur
    BY <2>1 DEF ActorState
  <2>3. Transition(w, me) /\ act[w].pc \notin {"write", "push"}
    BY <1>23 DEF Unhealthy
  <2>. HIDE DEF me
  <2>. QED BY <2>2, <2>3, SlotTransition
<1>24. ASSUME NEW w \in Workers, Complete(w) PROVE SlotHeld'
  <2>1. act[w] \in ActorState
    BY <1>0
  <2> DEFINE me == [act[w] EXCEPT !.goal = "finished", !.ret = "post"]
  <2>2. me \in ActorState /\ me.cur = act[w].cur
    BY <2>1 DEF ActorState
  <2>3. Transition(w, me) /\ act[w].pc \notin {"write", "push"}
    BY <1>24 DEF Complete
  <2>. HIDE DEF me
  <2>. QED BY <2>2, <2>3, SlotTransition
<1>25. ASSUME NEW w \in Workers, CompleteAgain(w) PROVE SlotHeld'
  <2>1. act[w] \in ActorState
    BY <1>0
  <2> DEFINE me == [act[w] EXCEPT !.goal = "finished", !.ret = "post2"]
  <2>2. me \in ActorState /\ me.cur = act[w].cur
    BY <2>1 DEF ActorState
  <2>3. Transition(w, me) /\ act[w].pc \notin {"write", "push"}
    BY <1>25 DEF CompleteAgain
  <2>. HIDE DEF me
  <2>. QED BY <2>2, <2>3, SlotTransition
<1>26. ASSUME NEW w \in Workers, FailDeployment(w) PROVE SlotHeld'
  <2>1. act[w] \in ActorState
    BY <1>0
  <2>. QED BY <1>26, <2>1, SlotTransition DEF FailDeployment
<1>27. ASSUME NEW w \in Workers, Throw(w) PROVE SlotHeld'
  <2>1. Failed(act[w].cur).pc = "check" /\ Failed(act[w].cur).cur = act[w].cur
    BY DEF Failed, Idle
  <2>2. \A e \in Rows : /\ HoldsIn(status, act[w], e) => HoldsIn(status, Failed(act[w].cur), e)
                        /\ act[w].pc # "push"
    BY <1>27, <2>1 DEF Throw, HoldsIn
  <2>. QED BY <1>0, <1>27, <2>2, SlotBecome DEF Throw
<1>28. ASSUME NEW w \in Workers, WriteStatus(w) PROVE SlotHeld'
  <2>1. PICK s : Become(w, s)
    BY <1>28 DEF WriteStatus
  <2>2. ASSUME NEW e \in Rows, status'[e] = "in_progress"
        PROVE  status[e] = "in_progress" /\ ~HoldsIn(status, act[w], e)
    <3>1. act[w].goal # "in_progress"
      BY <1>0 DEF ActorState
    <3>. QED BY <1>0, <1>28, <2>2, <3>1 DEF WriteStatus, HoldsIn
  <2>3. act[w].pc # "push"
    BY <1>28 DEF WriteStatus
  <2>. QED BY <1>0, <1>28, <2>1, <2>2, <2>3, SlotBecome DEF WriteStatus
<1>29. ASSUME NEW w \in Workers, Timeout(w) PROVE SlotHeld'
  <2>1. Failed(act[w].cur).pc = "check" /\ Failed(act[w].cur).cur = act[w].cur
    BY DEF Failed, Idle
  <2>2. \A e \in Rows :
          /\ HoldsIn(status, act[w], e) => HoldsIn(status, Failed(act[w].cur), e)
          /\ act[w].pc = "push" /\ act[w].cand = e /\ status[e] = "in_progress"
               => e \in lost'
    BY <1>29, <2>1 DEF Timeout, HoldsIn, CutOff, InProgress
  <2>. QED BY <1>0, <1>29, <2>2, SlotBecome DEF Timeout
<1>30. ASSUME NEW w \in Workers, KillWorker(w) PROVE SlotHeld'
  <2>1. /\ \A e \in Rows : expired[e] > 0 => expired'[e] > 0
        /\ Handling(w) => \A e \in Rows : e = act[w].cur => expired'[e] > 0
    BY <1>0, <1>30 DEF KillWorker
  <2>2. \A e \in Rows :
          /\ HoldsIn(status, act[w], e) => e = act[w].cur /\ Holds(w, e)
          /\ ~Handling(w) /\ Holds(w, e) /\ status[e] = "in_progress" => e \in lost'
          /\ act[w].pc = "push" /\ act[w].cand = e /\ status[e] = "in_progress"
               => e \in lost'
    BY <1>30 DEF KillWorker, HoldsIn, Holds, CutOff, Orphan, InProgress
  <2>3. lost \subseteq lost' /\ jobs' = jobs /\ status' = status /\ Become(w, Idle)
    BY <1>30 DEF KillWorker
  <2>. QED BY <1>0, <2>1, <2>2, <2>3, SlotBecome
<1>31. ASSUME NEW a \in Actors, DispatchThrows(a) PROVE SlotHeld'
  <2>1. PICK s : Become(a, s)
    BY <1>31 DEF DispatchThrows
  <2>2. \A e \in Rows :
          /\ ~HoldsIn(status, act[a], e)
          /\ act[a].pc = "push" /\ act[a].cand = e /\ status[e] = "in_progress"
               => e \in lost'
    BY <1>31 DEF DispatchThrows, HoldsIn, CutOff, InProgress
  <2>. QED BY <1>0, <1>31, <2>1, <2>2, SlotBecome DEF DispatchThrows
<1>32. ASSUME Shutdown PROVE SlotHeld'
  <2>1. SUFFICES ASSUME NEW e \in Rows, status'[e] = "in_progress"
                 PROVE  Carried(e)' \/ e \in lost'
    BY DEF SlotHeld, InProgress
  <2>2. /\ Carried(e) \/ e \in lost
        /\ status[e] = "in_progress" /\ jobs' = jobs
    BY <1>32, <2>1 DEF Shutdown, SlotHeld, InProgress
  <2> DEFINE C == Cardinality({w \in Workers : Handling(w) /\ act[w].cur = e})
  <2>3. expired'[e] = expired[e] + C /\ C \in Nat
    <3>1. C \in Nat
      BY QueueAssumption, FS_Subset, FS_CardinalityType
    <3>. QED BY <1>32, <3>1 DEF Shutdown
  <2>. HIDE DEF C
  <2>4. CASE jobs[e] > 0 \/ expired[e] > 0 \/ e \in lost
    BY <1>0, <1>32, <2>2, <2>3, <2>4 DEF Carried, Shutdown
  <2>5. ASSUME NEW w \in Workers, Holds(w, e), Handling(w) PROVE Carried(e)'
    <3>1. w \in {v \in Workers : Handling(v) /\ act[v].cur = e}
      BY <2>5 DEF Holds
    <3>2. C # 0
      BY <3>1, QueueAssumption, FS_Subset, FS_EmptySet DEF C
    <3>3. expired'[e] > 0
      BY <1>0, <2>3, <3>2
    <3>. QED BY <3>3 DEF Carried
  <2>7. ASSUME NEW w \in Workers, Holds(w, e), ~Handling(w) PROVE e \in lost'
    <3>1. e \in Orphan(w)
      BY <2>2, <2>7 DEF Orphan, InProgress
    <3>. QED BY <1>32, <3>1 DEF Shutdown, Exposed
  <2>6. ASSUME NEW a \in Actors, Dispatching(a, e) PROVE e \in lost'
    <3>1. e \in CutOff(a)
      BY <2>2, <2>6 DEF Dispatching, CutOff, InProgress
    <3>. QED BY <1>32, <3>1 DEF Shutdown, Exposed
  <2>. QED BY <2>2, <2>4, <2>5, <2>6, <2>7 DEF Carried
<1>33. ASSUME AppInit PROVE SlotHeld'
  BY <1>33 DEF AppInit, SlotHeld, InProgress, Active
<1>. QED
  BY <1>0, <1>1, <1>2, <1>3, <1>4, <1>5, <1>6, <1>7, <1>8, <1>9, <1>10, <1>11,
       <1>12, <1>13, <1>14, <1>15, <1>16, <1>17, <1>18, <1>19, <1>20, <1>21,
       <1>22, <1>23, <1>24, <1>25, <1>26, <1>27, <1>28, <1>29, <1>30, <1>31,
       <1>32, <1>33
     DEF Next, vars, Request, Respond, Work, Scan, Disturb, ResolveCommit

\* Every row in progress has a job that will release its slot, or its dispatch
\* was cut off between the status update and the push, or its worker died in
\* failed() before the status write: SlotHeld is inductive relative to
\* WellFormed, whatever the faults and the number of workers.
THEOREM SlotsHeld == Spec => []SlotHeld
<1>1. Init => SlotHeld
  BY DEF Init, SlotHeld, InProgress
<1>2. WellFormed /\ SlotHeld /\ [Next]_vars => (WellFormed /\ SlotHeld)'
  BY WellFormedStep, SlotStep
<1>. QED BY <1>1, <1>2, WellFormedInit, PTL DEF Spec

-----------------------------------------------------------------------------
(* CancelFinal *)

\* Process a in state me holds a copy of row d from which it may still write.
StaleIn(a, me, d) ==
  \/ d \in me.todo
  \/ me.cand = d /\ me.pc \in {"scan_count", "mark"}
  \/ a \in Workers /\ me.cur = d /\ me.pc \in {"begin", "write"}

LEMMA StaleCopies ==
  ASSUME NEW d \in Rows
  PROVE  StaleCopy(d) <=> \E a \in Actors : StaleIn(a, act[a], d)
BY DEF StaleCopy, StaleIn, Actors

\* A process takes the state s without a copy of a cancelled row.
LEMMA CancelBecome ==
  ASSUME WellFormed, NEW a \in Actors, NEW s, Become(a, s), NEW d \in Rows,
         Cancelled(d), status'[d] = status[d], ~StaleIn(a, s, d)
  PROVE  Cancelled(d)'
<1>1. act \in [Actors -> ActorState] /\ Workers \subseteq Actors
  BY DEF WellFormed, TypeOK, Actors
<1>2. act'[a] = s /\ \A b \in Actors : b # a => act'[b] = act[b]
  BY <1>1 DEF Become
<1>3. \A b \in Actors : ~StaleIn(b, act[b], d)
  BY StaleCopies DEF Cancelled
<1>4. \A b \in Actors : ~StaleIn(b, act'[b], d)
  BY <1>2, <1>3
<1>5. ~StaleCopy(d)'
  BY <1>1, <1>4 DEF StaleCopy, StaleIn
<1>. QED BY <1>5 DEF Cancelled

\* No copy survives the end of a loop or of a transition.
LEMMA LoopedFresh ==
  ASSUME NEW a, NEW me \in ActorState, NEW d \in Rows, d \notin me.todo
  PROVE  ~StaleIn(a, Looped(me), d) /\ ~StaleIn(a, Returned(me), d)
<1>0. d # 0
  BY DEF Rows
<1>1. ASSUME NEW m \in ActorState, d \notin m.todo PROVE ~StaleIn(a, Returned(m), d)
  <2>1. CASE m.ret = "done"
    BY <1>0, <2>1 DEF Returned, StaleIn, Idle
  <2>2. CASE m.ret # "done"
    <3> DEFINE r == [m EXCEPT !.pc = m.ret, !.goal = "failed", !.ret = "done"]
    <3>1. r.todo = m.todo /\ r.pc \in {"post", "post2", "run2"}
      BY <2>2 DEF ActorState
    <3>2. Returned(m) = r
      BY <2>2 DEF Returned
    <3>. HIDE DEF r
    <3>. QED BY <1>1, <3>1, <3>2 DEF StaleIn
  <2>. QED BY <2>1, <2>2
<1> DEFINE out == [me EXCEPT !.cand = 0]
           loop == [me EXCEPT !.pc = "next", !.cand = 0]
<1>2. out \in ActorState /\ out.todo = me.todo
  BY DEF ActorState
<1>3. loop.pc = "next" /\ loop.todo = me.todo
  BY DEF ActorState
<1>4. Looped(me) = IF me.todo = {} THEN Returned(out) ELSE loop
  BY DEF Looped
<1>. HIDE DEF out, loop
<1>5. ~StaleIn(a, loop, d)
  BY <1>3 DEF StaleIn
<1>. QED BY <1>1, <1>2, <1>4, <1>5

LEMMA IdleFresh ==
  ASSUME NEW a, NEW d \in Rows, NEW e
  PROVE  ~StaleIn(a, Idle, d) /\ ~StaleIn(a, Failed(e), d)
BY DEF StaleIn, Failed, Idle, Rows

\* A transition by code in state me finds a cancelled row and stops.
LEMMA CancelTransition ==
  ASSUME WellFormed, NEW w \in Workers, NEW me \in ActorState,
         NEW d \in Rows, Cancelled(d), me.todo = act[w].todo,
         me.cand = act[w].cand, Transition(w, me)
  PROVE  Cancelled(d)'
<1> DEFINE write == [me EXCEPT !.pc = "write", !.local = status[me.cur]]
<1>1. w \in Actors /\ status' = status
  BY DEF Transition, Actors
<1>2. write.pc = "write" /\ write.cur = me.cur /\ write.todo = me.todo
  BY DEF ActorState
<1>3. PICK s : /\ Become(w, s)
               /\ \/ s \in {Returned(me), Idle, Failed(me.cur)}
                  \/ s = write /\ status[me.cur] # "cancelled-by-user"
  BY DEF Transition
<1>. HIDE DEF write
<1>4. d \notin me.todo /\ status[d] = "cancelled-by-user"
  BY <1>1, StaleCopies DEF Cancelled, StaleIn
<1>5. ~StaleIn(w, s, d)
  <2>1. ~StaleIn(w, Returned(me), d) /\ ~StaleIn(w, Idle, d) /\ ~StaleIn(w, Failed(me.cur), d)
    BY <1>4, LoopedFresh, IdleFresh
  <2>2. status[me.cur] # "cancelled-by-user" => ~StaleIn(w, write, d)
    BY <1>2, <1>4 DEF StaleIn
  <2>. QED BY <1>3, <2>1, <2>2
<1>. QED BY <1>1, <1>3, <1>5, CancelBecome

\* No step but a force start takes up a deployment that is cancelled for good.
LEMMA CancelStep ==
  ASSUME WellFormed, [Next]_vars, "force_start" \notin Ops,
         NEW d \in Rows, Cancelled(d)
  PROVE  Cancelled(d)'
<1>0. /\ Users \subseteq Actors /\ Workers \subseteq Actors /\ Users \cap Workers = {}
      /\ \A a \in Actors : act[a] \in ActorState
      /\ status \in [Rows -> Status] /\ d # 0
      /\ \A a \in Actors : ~StaleIn(a, act[a], d)
      /\ status[d] = "cancelled-by-user"
  BY QueueAssumption, StaleCopies
       DEF Actors, WellFormed, TypeOK, Rows, Cancelled
<1>i. \A a \in Actors : Become(a, Idle) /\ status' = status => Cancelled(d)'
  BY IdleFresh, CancelBecome
<1>1. ASSUME NEW u \in Users, CheckExisting(u) PROVE Cancelled(d)'
  <2>1. PICK r : Become(u, [Idle EXCEPT !.pc = "create", !.req = r])
    BY <1>0, <1>1 DEF CheckExisting
  <2>2. ~StaleIn(u, [Idle EXCEPT !.pc = "create", !.req = r], d)
    BY <1>0, <2>1, <1>1 DEF StaleIn, Idle
  <2>3. status'[d] = status[d]
    BY <1>0, <1>1 DEF CheckExisting, NewRow
  <2>. QED BY <1>0, <2>1, <2>2, <2>3, CancelBecome
<1>2. ASSUME NEW u \in Users, Redeploy(u) PROVE Cancelled(d)'
  <2>1. PICK r : Become(u, [Idle EXCEPT !.pc = "create_now", !.req = r])
    BY <1>0, <1>2 DEF Redeploy
  <2>2. ~StaleIn(u, [Idle EXCEPT !.pc = "create_now", !.req = r], d)
    BY <1>0, <2>1, <1>2 DEF StaleIn, Idle
  <2>3. status'[d] = status[d]
    BY <1>0, <1>2 DEF Redeploy, NewRow
  <2>. QED BY <1>0, <2>1, <2>2, <2>3, CancelBecome
<1>3. ASSUME NEW u \in Users, CheckDeploymentQueue(u) PROVE Cancelled(d)'
  <2>1. PICK old \in SUBSET {k \in Rows : status[k] # "cancelled-by-user"} : Become(u, [Idle EXCEPT !.pc = "terminate", !.todo = old])
    BY <1>0, <1>3 DEF CheckDeploymentQueue, Active
  <2>2. ~StaleIn(u, [Idle EXCEPT !.pc = "terminate", !.todo = old], d)
    BY <1>0, <2>1, <1>3 DEF StaleIn, Idle
  <2>3. status'[d] = status[d]
    BY <1>0, <1>3 DEF CheckDeploymentQueue, NewRow
  <2>. QED BY <1>0, <2>1, <2>2, <2>3, CancelBecome
<1>4. ASSUME NEW u \in Users, NEW l \in Lanes, ClosePullRequest(u, l) PROVE Cancelled(d)'
  <2>1. PICK old \in SUBSET {k \in Rows : status[k] # "cancelled-by-user"} : Become(u, [Idle EXCEPT !.pc = "terminate", !.todo = old, !.goal = "cancelled-by-user"])
    BY <1>0, <1>4 DEF ClosePullRequest, Active
  <2>2. ~StaleIn(u, [Idle EXCEPT !.pc = "terminate", !.todo = old, !.goal = "cancelled-by-user"], d)
    BY <1>0, <2>1, <1>4 DEF StaleIn, Idle
  <2>3. status'[d] = status[d]
    BY <1>0, <1>4 DEF ClosePullRequest, NewRow
  <2>. QED BY <1>0, <2>1, <2>2, <2>3, CancelBecome
<1>5. ASSUME NEW u \in Users, NEW e \in Rows, ApiCancel(u, e) PROVE Cancelled(d)'
  <2>1. PICK old \in SUBSET {k \in Rows : status[k] # "cancelled-by-user"} : Become(u, [Idle EXCEPT !.pc = "terminate", !.todo = old, !.goal = "cancelled-by-user"])
    BY <1>0, <1>5 DEF ApiCancel, Active
  <2>2. ~StaleIn(u, [Idle EXCEPT !.pc = "terminate", !.todo = old, !.goal = "cancelled-by-user"], d)
    BY <1>0, <2>1, <1>5 DEF StaleIn, Idle
  <2>3. status'[d] = status[d]
    BY <1>0, <1>5 DEF ApiCancel, NewRow
  <2>. QED BY <1>0, <2>1, <2>2, <2>3, CancelBecome
<1>6. ASSUME NEW u \in Users, NEW e \in Rows, Cancel(u, e) PROVE Cancelled(d)'
  <2>1. PICK s : Become(u, [Idle EXCEPT !.pc = "read", !.srv = s])
    BY <1>0, <1>6 DEF Cancel
  <2>2. ~StaleIn(u, [Idle EXCEPT !.pc = "read", !.srv = s], d)
    BY <1>0, <2>1, <1>6 DEF StaleIn, Idle
  <2>3. status'[d] = status[d]
    BY <1>0, <1>6 DEF Cancel, NewRow
  <2>. QED BY <1>0, <2>1, <2>2, <2>3, CancelBecome
<1>7. ASSUME NEW u \in Users, CreateRow(u) PROVE Cancelled(d)'
  <2>1. ASSUME NEW e \in Rows, NewRow(e), status' = [status EXCEPT ![e] = "queued"],
               Become(u, [Idle EXCEPT !.cand = e,
                            !.pc = IF act[u].pc = "create" THEN "admit_lane"
                                   ELSE "push"])
        PROVE  Cancelled(d)'
    <3>1. ~StaleIn(u, [Idle EXCEPT !.cand = e,
                         !.pc = IF act[u].pc = "create" THEN "admit_lane" ELSE "push"], d)
      BY <1>0 DEF StaleIn, Idle
    <3>2. status'[d] = status[d]
      BY <1>0, <2>1 DEF NewRow
    <3>. QED BY <1>0, <2>1, <3>1, <3>2, CancelBecome
  <2>. QED BY <1>0, <1>i, <1>7, <2>1 DEF CreateRow
<1>8. ASSUME NEW u \in Users, AdmitLane(u) PROVE Cancelled(d)'
  <2> DEFINE s == [act[u] EXCEPT !.pc = "admit_count"]
  <2>1. s.todo = act[u].todo /\ s.pc = "admit_count"
    BY <1>0 DEF ActorState
  <2>2. Become(u, Idle) \/ Become(u, s)
    BY <1>8 DEF AdmitLane
  <2>. HIDE DEF s
  <2>3. ~StaleIn(u, s, d) /\ status' = status
    BY <1>0, <1>8, <2>1 DEF StaleIn, AdmitLane
  <2>. QED BY <1>0, <1>i, <2>2, <2>3, CancelBecome
<1>9. ASSUME NEW u \in Users, AdmitCount(u) PROVE Cancelled(d)'
  <2> DEFINE s == [act[u] EXCEPT !.pc = "push"]
  <2>1. s.todo = act[u].todo /\ s.pc = "push"
    BY <1>0 DEF ActorState
  <2>2. Become(u, Idle) \/ Become(u, s)
    BY <1>9 DEF AdmitCount
  <2>. HIDE DEF s
  <2>3. ~StaleIn(u, s, d) /\ status' = status
    BY <1>0, <1>9, <2>1 DEF StaleIn, AdmitCount
  <2>. QED BY <1>0, <1>i, <2>2, <2>3, CancelBecome
<1>10. ASSUME NEW u \in Users, Terminate(u) PROVE Cancelled(d)'
  <2>1. PICK e \in act[u].todo :
          /\ status' = [status EXCEPT ![e] = act[u].goal]
          /\ Become(u, IF act[u].todo = {e} THEN Idle
                       ELSE [act[u] EXCEPT !.todo = act[u].todo \ {e}])
    BY <1>10 DEF Terminate, Oldest
  <2> DEFINE s == [act[u] EXCEPT !.todo = act[u].todo \ {e}]
  <2>2. s.todo \subseteq act[u].todo /\ s.pc = "terminate"
    BY <1>0, <1>10 DEF ActorState, Terminate
  <2>3. Become(u, Idle) \/ Become(u, s)
    BY <2>1
  <2>4. status'[d] = status[d]
    BY <1>0, <2>1 DEF StaleIn
  <2>. HIDE DEF s
  <2>5. ~StaleIn(u, s, d)
    BY <1>0, <2>2 DEF StaleIn
  <2>. QED BY <1>0, <2>3, <2>4, <2>5, IdleFresh, CancelBecome
<1>11. ASSUME NEW a \in Actors, ReadQueue(a) PROVE Cancelled(d)'
  <2>1. PICK found \in SUBSET {e \in Rows : status[e] = "queued"} :
          Become(a, Looped([act[a] EXCEPT !.extra = {}, !.todo = found]))
    BY <1>11 DEF ReadQueue
  <2> DEFINE me == [act[a] EXCEPT !.extra = {}, !.todo = found]
  <2>2. me \in ActorState /\ me.todo = found
    BY <1>0 DEF ActorState
  <2>3. Become(a, Looped(me)) /\ d \notin found
    BY <1>0, <2>1
  <2>. HIDE DEF me
  <2>. QED BY <1>11, <2>2, <2>3, LoopedFresh, CancelBecome DEF ReadQueue
<1>12. ASSUME NEW a \in Actors, ScanLane(a) PROVE Cancelled(d)'
  <2> DEFINE rest(e) == [act[a] EXCEPT !.todo = act[a].todo \ {e}]
             next(e) == [rest(e) EXCEPT !.pc = "scan_count", !.cand = e]
  <2>1. PICK e \in Rows : e \in act[a].todo /\
          Become(a, IF LaneBusy(row[e].lane) THEN Looped(rest(e)) ELSE next(e))
    BY <1>12 DEF ScanLane, Oldest
  <2>2. rest(e) \in ActorState /\ rest(e).todo \subseteq act[a].todo
    BY <1>0 DEF ActorState
  <2>3. next(e).todo \subseteq act[a].todo
        /\ next(e).cand = e /\ next(e).pc = "scan_count"
    BY <1>0 DEF ActorState
  <2>. HIDE DEF rest, next
  <2>4. d \notin act[a].todo
    BY <1>0 DEF StaleIn
  <2>5. ~StaleIn(a, Looped(rest(e)), d) /\ ~StaleIn(a, next(e), d)
    BY <2>1, <2>2, <2>3, <2>4, LoopedFresh DEF StaleIn
  <2>. QED BY <1>12, <2>1, <2>5, CancelBecome DEF ScanLane
<1>13. ASSUME NEW a \in Actors, ScanCount(a) PROVE Cancelled(d)'
  <2> DEFINE next == [act[a] EXCEPT !.pc = "mark"]
  <2>1. Become(a, Looped(act[a])) \/ Become(a, next)
    BY <1>13 DEF ScanCount
  <2>2. next.todo = act[a].todo /\ next.cand = act[a].cand /\ next.pc = "mark"
    BY <1>0 DEF ActorState
  <2>. HIDE DEF next
  <2>3. d \notin act[a].todo /\ act[a].cand # d
    BY <1>0, <1>13 DEF StaleIn, ScanCount
  <2>4. ~StaleIn(a, Looped(act[a]), d) /\ ~StaleIn(a, next, d)
    BY <1>0, <2>2, <2>3, LoopedFresh DEF StaleIn
  <2>. QED BY <1>13, <2>1, <2>4, CancelBecome DEF ScanCount
<1>14. ASSUME NEW a \in Actors, Mark(a) PROVE Cancelled(d)'
  <2> DEFINE next == [act[a] EXCEPT !.pc = "push"]
  <2>1. Become(a, next)
    BY <1>14 DEF Mark, Goto, Become
  <2>2. next.todo = act[a].todo /\ next.pc = "push"
    BY <1>0 DEF ActorState
  <2>. HIDE DEF next
  <2>3. d \notin act[a].todo /\ act[a].cand # d
    BY <1>0, <1>14 DEF StaleIn, Mark
  <2>4. ~StaleIn(a, next, d) /\ status'[d] = status[d]
    BY <1>0, <1>14, <2>2, <2>3 DEF StaleIn, Mark
  <2>. QED BY <2>1, <2>4, CancelBecome
<1>15. ASSUME NEW a \in Actors, Push(a) PROVE Cancelled(d)'
  <2> DEFINE next == [act[a] EXCEPT !.pc = "read", !.cand = 0]
  <2>1. Become(a, Looped(act[a])) \/ Become(a, next)
    BY <1>15 DEF Push
  <2>2. next.todo = act[a].todo /\ next.pc = "read"
    BY <1>0 DEF ActorState
  <2>. HIDE DEF next
  <2>3. d \notin act[a].todo
    BY <1>0 DEF StaleIn
  <2>4. ~StaleIn(a, Looped(act[a]), d) /\ ~StaleIn(a, next, d)
    BY <1>0, <2>2, <2>3, LoopedFresh DEF StaleIn
  <2>. QED BY <1>15, <2>1, <2>4, CancelBecome DEF Push
<1>16. ASSUME NEW w \in Workers, NEW e \in Rows, Reserve(w, e) PROVE Cancelled(d)'
  <2> DEFINE next == [Idle EXCEPT !.pc = "begin", !.cur = e, !.local = status[e]]
  <2>1. Become(w, Idle) \/ (Become(w, next) /\ e # d)
    BY <1>0, <1>16 DEF Reserve
  <2>2. e # d => ~StaleIn(w, next, d)
    BY <1>0 DEF StaleIn, Idle
  <2>. HIDE DEF next
  <2>. QED BY <1>0, <1>i, <1>16, <2>1, <2>2, CancelBecome DEF Reserve
<1>17. ASSUME NEW a \in Actors, NEW e, Become(a, Failed(e)) \/ Become(a, Idle),
             status' = status
      PROVE  Cancelled(d)'
  BY <1>17, IdleFresh, CancelBecome
<1>18. ASSUME NEW w \in Workers, NEW e \in Rows, ReserveExpired(w, e) PROVE Cancelled(d)'
  BY <1>0, <1>18, <1>17 DEF ReserveExpired
<1>19. ASSUME NEW w \in Workers, Throw(w) PROVE Cancelled(d)'
  BY <1>0, <1>19, <1>17 DEF Throw
<1>20. ASSUME NEW w \in Workers, Finish(w) PROVE Cancelled(d)'
  BY <1>0, <1>20, <1>17 DEF Finish
<1>21. ASSUME NEW w \in Workers, Timeout(w) PROVE Cancelled(d)'
  BY <1>0, <1>21, <1>17 DEF Timeout, Handling
<1>22. ASSUME NEW w \in Workers, KillWorker(w) PROVE Cancelled(d)'
  BY <1>0, <1>22, <1>17 DEF KillWorker
<1>23. ASSUME NEW a \in Actors, DispatchThrows(a) PROVE Cancelled(d)'
  BY <1>23, <1>17 DEF DispatchThrows
<1>24. ASSUME NEW w \in Workers, HandleUpdate(w) PROVE Cancelled(d)'
  <2> DEFINE next == [act[w] EXCEPT !.pc = "run", !.local = "queued"]
  <2>1. Become(w, next)
    BY <1>24 DEF HandleUpdate
  <2>2. next.todo = act[w].todo /\ next.pc = "run"
    BY <1>0 DEF ActorState
  <2>. HIDE DEF next
  <2>3. d \notin act[w].todo /\ act[w].cur # d
    BY <1>0, <1>24 DEF StaleIn, HandleUpdate
  <2>4. ~StaleIn(w, next, d) /\ status'[d] = status[d]
    BY <1>0, <1>24, <2>2, <2>3 DEF StaleIn, HandleUpdate
  <2>. QED BY <1>0, <2>1, <2>4, CancelBecome
<1>25. ASSUME UNCHANGED <<status, act>> PROVE Cancelled(d)'
  BY <1>25 DEF Cancelled, StaleCopy
<1>26. ASSUME NEW w \in Workers, Unhealthy(w) PROVE Cancelled(d)'
  <2>1. act[w] \in ActorState
    BY <1>0
  <2> DEFINE me == [act[w] EXCEPT !.goal = "failed", !.ret = "run2"]
  <2>2. me \in ActorState /\ me.todo = act[w].todo /\ me.cand = act[w].cand
    BY <2>1 DEF ActorState
  <2>3. Transition(w, me)
    BY <1>26 DEF Unhealthy
  <2>. HIDE DEF me
  <2>. QED BY <2>2, <2>3, CancelTransition
<1>27. ASSUME NEW w \in Workers, Complete(w) PROVE Cancelled(d)'
  <2>1. act[w] \in ActorState
    BY <1>0
  <2> DEFINE me == [act[w] EXCEPT !.goal = "finished", !.ret = "post"]
  <2>2. me \in ActorState /\ me.todo = act[w].todo /\ me.cand = act[w].cand
    BY <2>1 DEF ActorState
  <2>3. Transition(w, me)
    BY <1>27 DEF Complete
  <2>. HIDE DEF me
  <2>. QED BY <2>2, <2>3, CancelTransition
<1>28. ASSUME NEW w \in Workers, CompleteAgain(w) PROVE Cancelled(d)'
  <2>1. act[w] \in ActorState
    BY <1>0
  <2> DEFINE me == [act[w] EXCEPT !.goal = "finished", !.ret = "post2"]
  <2>2. me \in ActorState /\ me.todo = act[w].todo /\ me.cand = act[w].cand
    BY <2>1 DEF ActorState
  <2>3. Transition(w, me)
    BY <1>28 DEF CompleteAgain
  <2>. HIDE DEF me
  <2>. QED BY <2>2, <2>3, CancelTransition
<1>29. ASSUME NEW w \in Workers, FailDeployment(w) PROVE Cancelled(d)'
  <2>1. act[w] \in ActorState
    BY <1>0
  <2>. QED BY <1>29, <2>1, CancelTransition DEF FailDeployment
<1>30. ASSUME NEW w \in Workers, WriteStatus(w) PROVE Cancelled(d)'
  <2>1. PICK extra :
          Become(w, [act[w] EXCEPT !.pc = "read", !.local = "queued", !.extra = extra])
    BY <1>30 DEF WriteStatus
  <2> DEFINE next == [act[w] EXCEPT !.pc = "read", !.local = "queued", !.extra = extra]
  <2>2. next.todo = act[w].todo /\ next.pc = "read" /\ Become(w, next)
    BY <1>0, <2>1 DEF ActorState
  <2>. HIDE DEF next
  <2>3. d \notin act[w].todo /\ act[w].cur # d
    BY <1>0, <1>30 DEF StaleIn, WriteStatus
  <2>4. ~StaleIn(w, next, d) /\ status'[d] = status[d]
    BY <1>0, <1>30, <2>2, <2>3 DEF StaleIn, WriteStatus
  <2>. QED BY <1>0, <2>2, <2>4, CancelBecome
<1>31. ASSUME NEW w \in Workers, DeployToAdditional(w) PROVE Cancelled(d)'
  <2> DEFINE next(e, s) == [act[w] EXCEPT !.pc = "push_new", !.cand = e,
                                          !.extra = act[w].extra \ {s}]
  <2>1. PICK e \in Rows, s \in act[w].extra :
          /\ NewRow(e) /\ status' = [status EXCEPT ![e] = "queued"]
          /\ Become(w, next(e, s))
    BY <1>31 DEF DeployToAdditional
  <2>2. next(e, s).todo = act[w].todo /\ next(e, s).pc = "push_new"
    BY <1>0 DEF ActorState
  <2>. HIDE DEF next
  <2>3. ~StaleIn(w, next(e, s), d)
    BY <1>0, <2>2 DEF StaleIn
  <2>4. status'[d] = status[d]
    BY <1>0, <2>1 DEF NewRow
  <2>. QED BY <1>0, <2>1, <2>3, <2>4, CancelBecome
<1>32. ASSUME Shutdown PROVE Cancelled(d)'
  <2>1. status' = status /\ \A a \in Actors : act'[a] = Idle
    BY <1>32 DEF Shutdown
  <2>2. ~StaleCopy(d)'
    BY <1>0, <2>1 DEF StaleCopy, Idle
  <2>. QED BY <2>1, <2>2 DEF Cancelled
<1>33. ASSUME AppInit PROVE Cancelled(d)'
  <2>1. status'[d] = status[d] /\ act' = act
    BY <1>0, <1>33 DEF AppInit, Active
  <2>. QED BY <2>1 DEF Cancelled, StaleCopy
<1>. QED
  BY <1>0, <1>1, <1>2, <1>3, <1>4, <1>5, <1>6, <1>7, <1>8, <1>9, <1>10, <1>11,
       <1>12, <1>13, <1>14, <1>15, <1>16, <1>17, <1>18, <1>19, <1>20, <1>21,
       <1>22, <1>23, <1>24, <1>25, <1>26, <1>27, <1>28, <1>29, <1>30, <1>31,
       <1>32, <1>33
     DEF Next, vars, Request, Respond, Work, Scan, Disturb, ResolveCommit, ForceStart

\* Where nobody force-starts deployments, a cancelled one stays cancelled and is
\* not taken up again, once nobody holds a copy of its row from before: whatever
\* jobs of it wait in redis, whatever worker is running it, whatever dies.
THEOREM CancelIsFinal == "force_start" \notin Ops => (Spec => CancelFinal)
<1> SUFFICES ASSUME "force_start" \notin Ops PROVE Spec => CancelFinal
  OBVIOUS
<1>1. WellFormed /\ [Next]_vars => \A d \in Rows : Cancelled(d) => Cancelled(d)'
  BY CancelStep
<1>2. Spec => []WellFormed
  BY WellFormedInit, WellFormedStep, PTL DEF Spec
<1>. QED BY <1>1, <1>2, PTL DEF Spec, CancelFinal

=============================================================================
