------------------------ MODULE DeploymentRunProofs ------------------------
(***************************************************************************)
(* Proofs about DeploymentRun, for every number of jobs and deployments,   *)
(* every setup and every bound: its types, that a failed version is rolled *)
(* back, that a rolling update keeps the application served, that the      *)
(* builder of a job that is over is gone, and that one version is left.    *)
(*                                                                         *)
(* Work is the step of a job, Operate that of an operator or the clean-up, *)
(* Disturb that of a fault.  Each invariant is kept by lemmas of the form  *)
(* "what a step of job i does to job j", which expand the actions, and by  *)
(* a lemma that uses those only.                                           *)
(***************************************************************************)
EXTENDS DeploymentRun, FiniteSetTheorems, TLAPS

Pc(j)       == run[j].pc
Code(j)     == run[j].code
StatusOf(j) == status[DeploymentOf[j]]

-----------------------------------------------------------------------------
(* Type correctness *)

\* Where a job has still a builder to start; the bound leaves it one.
Building == {"waiting", "begin", "prepare", "unbuild", "run_builder", "rebuild"}

BuildersLeft == \A j \in Jobs : Pc(j) \in Building => run[j].builders < MaxBuilders

Typed == TypeOK /\ BuildersLeft

\* What a job refers to exists.
LEMMA Refers ==
  ASSUME TypeOK, NEW j \in Jobs
  PROVE  /\ run[j] \in JobState
         /\ DeploymentOf[j] \in Deployments /\ StatusOf(j) \in Status
         /\ Mine(j) \in Deployments \X Hosts
         /\ Pr(j) \in PullRequests /\ ContainerName(j) \in Names
<1>1. run[j] \in JobState /\ DeploymentOf[j] \in Deployments
  BY RunAssumption DEF TypeOK
<1>2. run[j].server \in Hosts
  BY <1>1 DEF JobState
<1>3. Pr(j) \in PullRequests
  BY <1>1 DEF TypeOK, Pr, PullRequests
<1>4. 0 \in PullRequests
  BY DEF PullRequests
<1>5. ContainerName(j) \in Names
  BY <1>3, <1>4 DEF ContainerName, Fixed, Names
<1>6. Mine(j) \in Deployments \X Hosts
  BY <1>1, <1>2 DEF Mine
<1> QED
  BY <1>1, <1>3, <1>5, <1>6 DEF TypeOK, StatusOf

\* The states a step leaves a job in, as the model writes them, are states of a
\* job.
LEMMA Outcomes ==
  ASSUME NEW j \in Jobs, run[j] \in JobState
  PROVE  /\ \A p \in PCs : Then(j, p) \in JobState
         /\ \A c \in {"error", "cancelled"} : Thrown(j, c) \in JobState
         /\ CommandFailed(j) \in JobState
         /\ Finally(j) \in JobState /\ Settled(j) \in JobState
<1>1. ASSUME NEW p \in PCs PROVE Then(j, p) \in JobState
  BY DEF Then, JobState
<1>2. "failed" \in PCs /\ "tidy" \in PCs /\ "done" \in PCs
  BY DEF PCs, Graceful
<1>3. ASSUME NEW c \in {"error", "cancelled"} PROVE Thrown(j, c) \in JobState
  BY <1>1, <1>2 DEF Thrown, JobState
<1>4. CommandFailed(j) \in JobState
  BY <1>3 DEF CommandFailed
<1>5. Finally(j) \in JobState
  <2>1. Then(j, "tidy") \in JobState
    BY <1>1, <1>2
  <2>2. [Then(j, "tidy") EXCEPT !.server = "build"] \in JobState
    BY <2>1 DEF JobState, Hosts
  <2> QED BY <2>1, <2>2 DEF Finally, BuildHost, JobState
<1>6. Settled(j) \in JobState
  BY <1>1, <1>2, <1>5 DEF Settled
<1> QED
  BY <1>1, <1>3, <1>4, <1>5, <1>6

\* A transition by code in state me leaves a state of a job.
LEMMA TransitionTyped ==
  ASSUME TypeOK, NEW j \in Jobs, NEW me \in JobState, Transition(j, me)
  PROVE  \E new \in JobState :
           Become(j, new) /\ (new.pc \in Building => new.pc = me.pc)
<1>0. run[j] \in JobState /\ StatusOf(j) \in Status
  BY Refers
<1> DEFINE over == [me EXCEPT !.pc = me.ret, !.server = AfterTry(me)]
           write == [me EXCEPT !.pc = "write", !.copy = StatusOf(j)]
<1>1. over \in JobState /\ over.pc = me.ret
  <2>1. me.ret \in PCs
    BY DEF JobState, PCs, Graceful, Strict
  <2>2. AfterTry(me) \in Hosts
    BY DEF JobState, AfterTry, Hosts
  <2> QED BY <2>1, <2>2 DEF JobState
<1>2. Settled(j) \in JobState /\ Thrown(j, "cancelled") \in JobState
  BY <1>0, Outcomes
<1>3. write \in JobState /\ write.pc = "write"
  BY <1>0 DEF JobState, PCs
<1>4. \/ Become(j, over) \/ Become(j, write)
      \/ Become(j, Settled(j)) \/ Become(j, Thrown(j, "cancelled"))
  BY DEF Transition, StatusOf
<1>5. me.ret \in {"undo", "post", "tidy", "remove"}
  BY DEF JobState
<1>6. Settled(j).pc \in {"tidy", "done"} /\ Thrown(j, "cancelled").pc = "failed"
  BY <1>0 DEF Settled, Finally, Thrown, Then, JobState
<1> HIDE DEF over, write
<1> QED
  BY <1>1, <1>2, <1>3, <1>4, <1>5, <1>6 DEF Building

\* A step of a job keeps its state a job's state, leaves it a builder where it
\* needs one, and does not touch other jobs.
JobKept(j) ==
  /\ run' \in [Jobs -> JobState]
  /\ run' = [run EXCEPT ![j] = run'[j]]
  /\ run'[j].pc \in Building => run'[j].builders < MaxBuilders

\* A step that makes run[j] a state of a job keeps it one.
LEMMA BecomeKept ==
  ASSUME TypeOK, NEW j \in Jobs, NEW me \in JobState, Become(j, me),
         me.pc \in Building => me.builders < MaxBuilders
  PROVE  JobKept(j)
BY DEF TypeOK, Become, JobKept

\* Going on to another point of the code changes nothing else.
LEMMA ThenTyped ==
  ASSUME NEW j \in Jobs, run[j] \in JobState, NEW p \in PCs
  PROVE  /\ Then(j, p) \in JobState
         /\ Then(j, p).pc = p /\ Then(j, p).builders = run[j].builders
BY DEF Then, JobState

\* Going on past the builders.
LEMMA ThenKept ==
  ASSUME TypeOK, NEW j \in Jobs, NEW p \in PCs \ Building, Become(j, Then(j, p))
  PROVE  JobKept(j)
<1>1. run[j] \in JobState
  BY Refers
<1>2. Then(j, p) \in JobState /\ Then(j, p).pc = p
  BY <1>1, ThenTyped
<1> QED BY <1>2, BecomeKept

\* Giving up and the ways out of a job.
LEMMA LeaveKept ==
  ASSUME TypeOK, NEW j \in Jobs,
         \/ \E c \in {"error", "cancelled"} : Become(j, Thrown(j, c))
         \/ Become(j, CommandFailed(j))
         \/ Become(j, Finally(j)) \/ Become(j, Settled(j))
  PROVE  JobKept(j)
<1>1. run[j] \in JobState
  BY Refers
<1>2. /\ \A c \in {"error", "cancelled"} : Thrown(j, c).pc = "failed"
      /\ CommandFailed(j).pc = "failed"
      /\ Finally(j).pc = "tidy"
      /\ Settled(j).pc \in {"tidy", "done"}
  BY <1>1 DEF Thrown, CommandFailed, Finally, Settled, Then, JobState
<1> QED BY <1>1, <1>2, Outcomes, BecomeKept DEF Building

\* So does every step of a job: in each, the builders are counted before one is
\* started again.
LEMMA WorkKept ==
  ASSUME Typed, NEW j \in Jobs, Work(j)
  PROVE  JobKept(j)
<1>0. /\ TypeOK /\ run[j] \in JobState
      /\ Pc(j) \in Building => run[j].builders < MaxBuilders
      /\ StatusOf(j) \in Status
      /\ MaxBuilders \in Nat \ {0}
  BY Refers, RunAssumption DEF Typed, BuildersLeft
<1>1. ASSUME Reserve(j) PROVE JobKept(j)
  <2>1. /\ [Then(j, "begin") EXCEPT !.copy = StatusOf(j)] \in JobState
        /\ [Then(j, "begin") EXCEPT !.copy = StatusOf(j)].builders = run[j].builders
    BY <1>0 DEF Then, JobState, PCs
  <2>2. Pc(j) = "waiting" /\ "done" \in PCs \ Building
    BY <1>1 DEF Reserve, At, Pc, PCs, Building
  <2> QED
    BY <1>0, <1>1, <2>1, <2>2, ThenKept, BecomeKept
       DEF Reserve, StatusOf, Building
<1>2. ASSUME Begin(j) PROVE JobKept(j)
  <2>1. /\ [Then(j, "prepare") EXCEPT !.tidy = TRUE] \in JobState
        /\ [Then(j, "prepare") EXCEPT !.tidy = TRUE].builders = run[j].builders
    BY <1>0 DEF Then, JobState, PCs
  <2>2. Pc(j) = "begin"
    BY <1>2 DEF Begin, At, Pc
  <2> QED
    BY <1>0, <1>2, <2>1, <2>2, LeaveKept, BecomeKept DEF Begin, Building
<1>3. ASSUME Check(j) PROVE JobKept(j)
  <2>1. [run[j] EXCEPT !.armed = TRUE] \in JobState
    BY <1>0 DEF JobState
  <2>2. [run[j] EXCEPT !.armed = TRUE].pc = Pc(j) /\ [run[j] EXCEPT !.armed = TRUE].builders = run[j].builders
    BY <1>0 DEF JobState, Pc
  <2>3. CASE ~Cancelled(j)
    BY <1>0, <1>3, <2>1, <2>2, <2>3, BecomeKept DEF Check
  <2>4. CASE Cancelled(j) /\ run[j].pc = "stop"
    <3>1. ASSUME NEW n \in run[j].stop
          PROVE  /\ [run[j] EXCEPT !.stop = @ \ {n}] \in JobState
                 /\ [run[j] EXCEPT !.stop = @ \ {n}].pc = "stop"
      BY <1>0, <2>4 DEF JobState
    <3> QED
      BY <1>0, <1>3, <2>4, <3>1, BecomeKept DEF Check, Building
  <2>5. CASE Cancelled(j) /\ run[j].pc \in Graceful \ {"stop"}
    <3>1. AfterGraceful(j) \in JobState /\ AfterGraceful(j).builders = run[j].builders
      BY <1>0, <2>5 DEF AfterGraceful, Then, JobState, Graceful, Strict, PCs
    <3>2. AfterGraceful(j).pc \in Building => Pc(j) \in Building
      BY <1>0, <2>5 DEF AfterGraceful, Then, JobState, Graceful, Building, Pc
    <3>3. Become(j, AfterGraceful(j))
      BY <1>3, <2>5 DEF Check, Graceful
    <3> QED
      BY <1>0, <3>1, <3>2, <3>3, BecomeKept
  <2>6. CASE Cancelled(j) /\ run[j].pc \in Strict
    BY <1>0, <1>3, <2>6, LeaveKept DEF Check, Strict, Graceful
  <2> QED
    BY <1>3, <2>3, <2>4, <2>5, <2>6 DEF Check
<1>4. ASSUME PrepareBuilderImage(j) PROVE JobKept(j)
  <2> DEFINE here == [run[j] EXCEPT !.server = IF MovesFirst(j) THEN "build" ELSE @]
  <2>1. here \in JobState /\ here.builders = run[j].builders
    BY <1>0 DEF JobState, Hosts
  <2> HIDE DEF here
  <2>2. /\ [here EXCEPT !.pc = "unbuild"] \in JobState
        /\ [here EXCEPT !.pc = "unbuild"].builders = run[j].builders
    BY <2>1 DEF JobState, PCs, Graceful
  <2>3. ASSUME NEW c \in {"error", "cancelled"}
        PROVE  /\ [here EXCEPT !.pc = "failed", !.code = c] \in JobState
               /\ [here EXCEPT !.pc = "failed", !.code = c].pc = "failed"
    BY <2>1 DEF JobState, PCs
  <2>4. Pc(j) = "prepare"
    BY <1>4 DEF PrepareBuilderImage, At, Pc
  <2>5. \/ \E c \in {"error", "cancelled"} : Become(j, [here EXCEPT !.pc = "failed", !.code = c])
        \/ Become(j, [here EXCEPT !.pc = "unbuild"])
    BY <1>4 DEF PrepareBuilderImage, here
  <2> QED
    BY <1>0, <2>2, <2>3, <2>4, <2>5, BecomeKept DEF Building
<1>5. ASSUME ShutDownBuilder(j) PROVE JobKept(j)
  <2>1. run[j].pc \in {"unbuild", "rebuild", "tidy"}
    BY <1>5 DEF ShutDownBuilder
  <2>2. AfterGraceful(j) \in JobState /\ AfterGraceful(j).builders = run[j].builders
    BY <1>0, <2>1 DEF AfterGraceful, Then, JobState, Graceful, Strict, PCs
  <2>3. AfterGraceful(j).pc \in Building => Pc(j) \in Building
    BY <1>0, <2>1 DEF AfterGraceful, Then, JobState, Building, Pc
  <2> QED
    BY <1>0, <1>5, <2>2, <2>3, BecomeKept DEF ShutDownBuilder
<1>6. ASSUME RunBuilder(j) PROVE JobKept(j)
  <2>1. run[j].builders + 1 \in Nat
    BY <1>0 DEF JobState
  <2>2. ASSUME NEW me \in JobState, me.builders = run[j].builders
        PROVE  /\ [me EXCEPT !.builders = @ + 1] \in JobState
               /\ [me EXCEPT !.builders = @ + 1].pc = me.pc
    BY <2>1, <2>2 DEF JobState
  <2>3. "build" \in PCs
    BY DEF PCs, Strict
  <2>4. /\ [Then(j, "build") EXCEPT !.builders = @ + 1] \in JobState
        /\ [Then(j, "build") EXCEPT !.builders = @ + 1].pc = "build"
    BY <1>0, <2>2, <2>3, ThenTyped
  <2>5. /\ CommandFailed(j) \in JobState /\ CommandFailed(j).pc = "failed"
        /\ CommandFailed(j).builders = run[j].builders
    BY ZenonT(40), <1>0 DEF CommandFailed, Thrown, Then, JobState, PCs
  <2>6. /\ [CommandFailed(j) EXCEPT !.builders = @ + 1] \in JobState
        /\ [CommandFailed(j) EXCEPT !.builders = @ + 1].pc = "failed"
    BY <2>2, <2>5
  <2> QED
    BY <1>0, <1>6, <2>4, <2>6, LeaveKept, BecomeKept DEF RunBuilder, Building
<1>7. ASSUME Build(j) PROVE JobKept(j)
  <2>1. {"list", "rolling"} \subseteq PCs \ Building
    BY DEF PCs, Building
  <2>2. {"rebuild", "prepare"} \subseteq PCs
    BY DEF PCs, Graceful
  <2>3. ASSUME NEW me \in JobState
        PROVE  /\ [me EXCEPT !.mode = "nested"] \in JobState
               /\ [me EXCEPT !.mode = "nested"].builders = me.builders
    BY DEF JobState
  <2>4. /\ Then(j, "rebuild") \in JobState
        /\ Then(j, "rebuild").builders = run[j].builders
        /\ [Then(j, "prepare") EXCEPT !.mode = "nested"] \in JobState
        /\ [Then(j, "prepare") EXCEPT !.mode = "nested"].builders = run[j].builders
    BY <1>0, <2>2, <2>3, ThenTyped
  <2> DEFINE built(p) == [Then(j, p) EXCEPT !.server = BuildHost(j)]
  <2>5. ASSUME NEW me \in JobState
        PROVE  /\ [me EXCEPT !.server = BuildHost(j)] \in JobState
               /\ [me EXCEPT !.server = BuildHost(j)].pc = me.pc
    <3>1. BuildHost(j) \in Hosts
      BY <1>0 DEF BuildHost, JobState, Hosts
    <3> QED BY <3>1 DEF JobState
  <2>6. \A p \in PCs \ Building : built(p) \in JobState /\ built(p).pc \notin Building
    BY <1>0, <2>5, ThenTyped
  <2>7. \/ \E p \in PCs \ Building : Become(j, built(p))
        \/ /\ run[j].builders < MaxBuilders
           /\ \/ Become(j, Then(j, "rebuild"))
              \/ Become(j, [Then(j, "prepare") EXCEPT !.mode = "nested"])
        \/ Become(j, CommandFailed(j))
    BY <1>7, <2>1 DEF Build
  <2> HIDE DEF built
  <2> QED
    BY <1>0, <2>4, <2>6, <2>7, LeaveKept, BecomeKept
<1>8. ASSUME RollingUpdate(j) PROVE JobKept(j)
  <2>1. {"start", "list"} \subseteq PCs /\ "main" \in Hosts
    BY DEF PCs, Strict, Hosts
  <2>2. ASSUME NEW me \in JobState
        PROVE  /\ [me EXCEPT !.server = "main"] \in JobState
               /\ [me EXCEPT !.server = "main"].pc = me.pc
    BY <2>1 DEF JobState
  <2>3. ASSUME NEW p \in {"start", "list"}
        PROVE  /\ [Then(j, p) EXCEPT !.server = "main"] \in JobState
               /\ [Then(j, p) EXCEPT !.server = "main"].pc = p
    BY <1>0, <2>1, <2>2, ThenTyped
  <2>4. \/ Become(j, Thrown(j, "cancelled"))
        \/ \E p \in {"start", "list"} : Become(j, [Then(j, p) EXCEPT !.server = "main"])
    BY <1>8 DEF RollingUpdate
  <2> QED
    BY <1>0, <2>3, <2>4, LeaveKept, BecomeKept DEF Building
<1>9. ASSUME StartByComposeFile(j) PROVE JobKept(j)
  <2>1. {"health", "complete"} \subseteq PCs \ Building
    BY DEF PCs, Strict, Building
  <2>2. \/ \E p \in PCs \ Building : Become(j, Then(j, p))
        \/ Become(j, CommandFailed(j))
    BY <1>9, <2>1 DEF StartByComposeFile
  <2> QED
    BY <1>0, <2>2, ThenKept, LeaveKept
<1>10. ASSUME HealthCheckDisabled(j) PROVE JobKept(j)
  <2>1. /\ [Then(j, "list") EXCEPT !.healthy = TRUE] \in JobState
        /\ [Then(j, "list") EXCEPT !.healthy = TRUE].pc = "list"
    BY <1>0 DEF Then, JobState, PCs
  <2> QED
    BY <1>0, <1>10, <2>1, BecomeKept DEF HealthCheckDisabled, Building
<1>11. ASSUME InspectHealth(j) PROVE JobKept(j)
  <2>1. /\ [Then(j, "list") EXCEPT !.healthy = TRUE] \in JobState
        /\ [Then(j, "list") EXCEPT !.healthy = TRUE].pc = "list"
    BY <1>0 DEF Then, JobState, PCs
  <2>2. ASSUME NEW p \in {"health", "logs"}, NEW n \in Nat
        PROVE  /\ [Then(j, p) EXCEPT !.tries = n] \in JobState
               /\ [Then(j, p) EXCEPT !.tries = n].pc = p
    BY <1>0 DEF Then, JobState, PCs, Strict
  <2>3. "logs" \in PCs \ Building
    BY DEF PCs, Strict, Building
  <2>4. run[j].tries + 1 \in Nat
    BY <1>0 DEF JobState
  <2>5. \/ Become(j, [Then(j, "list") EXCEPT !.healthy = TRUE])
        \/ Become(j, Then(j, "logs"))
        \/ \E p \in {"health", "logs"}, n \in Nat : Become(j, [Then(j, p) EXCEPT !.tries = n])
        \/ Become(j, CommandFailed(j))
    BY <1>11, <2>4 DEF InspectHealth
  <2> QED
    BY <1>0, <2>1, <2>2, <2>3, <2>5, ThenKept, LeaveKept, BecomeKept
       DEF Building
<1>12. ASSUME QueryLogs(j) PROVE JobKept(j)
  <2>1. "unhealthy" \in PCs \ Building
    BY DEF PCs, Building
  <2> QED
    BY <1>0, <1>12, <2>1, ThenKept DEF QueryLogs
<1>13. ASSUME ListRunning(j) PROVE JobKept(j)
  <2>1. ASSUME NEW S \in SUBSET Names
        PROVE  /\ [Then(j, "stop") EXCEPT !.stop = S] \in JobState
               /\ [Then(j, "stop") EXCEPT !.stop = S].pc = "stop"
    BY <1>0 DEF Then, JobState, PCs, Graceful
  <2>2. ContainerName(j) \in Names /\ Listed(0) \subseteq Names /\ Listed(Pr(j)) \subseteq Names
    BY <1>0, Refers DEF Listed, Running
  <2>3. \/ \E S \in SUBSET Names : Become(j, [Then(j, "stop") EXCEPT !.stop = S])
        \/ Become(j, Thrown(j, "error"))
    BY <1>13, <2>2 DEF ListRunning
  <2> QED
    BY <1>0, <2>1, <2>3, LeaveKept, BecomeKept DEF Building
<1>14. ASSUME StopOld(j) PROVE JobKept(j)
  <2>1. ASSUME NEW n \in run[j].stop
        PROVE  /\ [Then(j, "stop") EXCEPT !.stop = @ \ {n}] \in JobState
               /\ [Then(j, "stop") EXCEPT !.stop = @ \ {n}].pc = "stop"
    BY <1>0 DEF Then, JobState, PCs, Graceful
  <2> QED
    BY <1>0, <1>14, <2>1, BecomeKept DEF StopOld, Building
<1>15. ASSUME Stopped(j) PROVE JobKept(j)
  <2>1. {"complete", "start"} \subseteq PCs \ Building
    BY DEF PCs, Strict, Building
  <2> QED
    BY <1>0, <1>15, <2>1, ThenKept DEF Stopped
<1>16. ASSUME UndoNew(j) PROVE JobKept(j)
  <2>1. AfterGraceful(j) = Then(j, "complete")
    BY <1>16 DEF UndoNew, Issued, AfterGraceful
  <2>2. "complete" \in PCs \ Building
    BY DEF PCs, Building
  <2> QED
    BY <1>0, <1>16, <2>1, <2>2, ThenKept DEF UndoNew
<1>17. ASSUME Unhealthy(j) \/ Complete(j) \/ FailDeployment(j) PROVE JobKept(j)
  <2>1. ASSUME NEW g \in {"finished", "failed"}, NEW r \in {"undo", "post", "tidy", "remove"}
        PROVE  /\ [run[j] EXCEPT !.goal = g, !.ret = r] \in JobState
               /\ [run[j] EXCEPT !.goal = g, !.ret = r].pc = Pc(j)
    BY <1>0 DEF JobState, Pc
  <2>2. \E g \in {"finished", "failed"}, r \in {"undo", "post", "tidy", "remove"} :
          Transition(j, [run[j] EXCEPT !.goal = g, !.ret = r])
    BY <1>17 DEF Unhealthy, Complete, FailDeployment
  <2>3. Pc(j) \in {"unhealthy", "complete", "failed"}
    BY <1>17 DEF Unhealthy, Complete, FailDeployment, At, Pc
  <2>4. PICK g \in {"finished", "failed"}, r \in {"undo", "post", "tidy", "remove"} :
          Transition(j, [run[j] EXCEPT !.goal = g, !.ret = r])
    BY <2>2
  <2> DEFINE me == [run[j] EXCEPT !.goal = g, !.ret = r]
  <2>5. me \in JobState /\ me.pc = Pc(j) /\ Transition(j, me)
    BY <2>1, <2>4
  <2> HIDE DEF me
  <2>6. PICK new \in JobState :
          Become(j, new) /\ (new.pc \in Building => new.pc = me.pc)
    BY <1>0, <2>5, TransitionTyped
  <2>7. new.pc \notin Building
    BY <2>3, <2>5, <2>6 DEF Building
  <2> QED
    BY <1>0, <2>6, <2>7, BecomeKept
<1>18. ASSUME WriteStatus(j) PROVE JobKept(j)
  <2>1. /\ run[j].ret \in {"undo", "post", "tidy", "remove"}
        /\ run[j].ret \in PCs
        /\ run[j].server \in Hosts /\ "build" \in Hosts
    BY <1>0 DEF JobState, PCs, Graceful, Strict, Hosts
  <2>2. /\ Then(j, run[j].ret) \in JobState
        /\ run[j].ret \in {"undo", "post", "tidy", "remove"}
        /\ AfterTry(run[j]) \in Hosts
    <3>1. Then(j, run[j].ret) \in JobState
      BY <1>0, <2>1, ThenTyped
    <3>2. AfterTry(run[j]) \in Hosts
      BY <2>1 DEF AfterTry
    <3> QED BY <2>1, <3>1, <3>2
  <2>3. /\ Continued(j) \in JobState /\ Continued(j).pc = run[j].ret
    BY <1>0, <2>2 DEF Continued, Then, JobState
  <2> QED
    BY <1>0, <1>18, <2>2, <2>3, BecomeKept DEF WriteStatus, Building
<1>19. ASSUME PostDeployment(j) PROVE JobKept(j)
  <2>1. /\ [Then(j, "complete") EXCEPT !.mode = "restart"] \in JobState
        /\ [Then(j, "complete") EXCEPT !.mode = "restart"].pc = "complete"
    BY <1>0 DEF Then, JobState, PCs
  <2> QED
    BY <1>0, <1>19, <2>1, LeaveKept, BecomeKept DEF PostDeployment, Building
<1>20. ASSUME RemoveNew(j) \/ LeaveNew(j) PROVE JobKept(j)
  BY <1>0, <1>20, LeaveKept DEF RemoveNew, LeaveNew
<1>21. ASSUME ReserveExpired(j) PROVE JobKept(j)
  BY <1>0, <1>21, LeaveKept DEF ReserveExpired
<1> QED
  BY <1>1, <1>2, <1>3, <1>4, <1>5, <1>6, <1>7, <1>8, <1>9, <1>10, <1>11, <1>12,
     <1>13, <1>14, <1>15, <1>16, <1>17, <1>18, <1>19, <1>20, <1>21 DEF Work

\* Only run[j] changes, so that the other jobs have the builders they had.
LEMMA JobsTyped ==
  ASSUME Typed, NEW j \in Jobs, JobKept(j)
  PROVE  run' \in [Jobs -> JobState] /\ BuildersLeft'
<1>1. run \in [Jobs -> JobState]
  BY DEF Typed, TypeOK
<1>2. \A i \in Jobs : i # j => run'[i] = run[i]
  BY <1>1 DEF JobKept
<1> QED
  BY <1>2 DEF Typed, BuildersLeft, JobKept, Pc

\* The variables a job's step may change besides its own state.
LEMMA WorkTyped ==
  ASSUME Typed, NEW j \in Jobs, Work(j)
  PROVE  Typed'
<1>0. /\ TypeOK /\ run[j] \in JobState
      /\ DeploymentOf[j] \in Deployments
      /\ Mine(j) \in Deployments \X Hosts /\ ContainerName(j) \in Names
  BY Refers DEF Typed
<1>1. run' \in [Jobs -> JobState] /\ BuildersLeft'
  BY WorkKept, JobsTyped
<1>2. status' \in [Deployments -> Status]
  <2>1. run[j].goal \in Status /\ "in_progress" \in Status
    BY <1>0 DEF JobState, Status
  <2>2. CASE Begin(j)
    BY <1>0, <2>1, <2>2 DEF Begin, TypeOK
  <2>3. CASE WriteStatus(j)
    BY <1>0, <2>1, <2>3 DEF WriteStatus, TypeOK
  <2>4. CASE UNCHANGED status
    BY <1>0, <2>4 DEF TypeOK
  <2>5. Begin(j) \/ WriteStatus(j) \/ UNCHANGED status
    BY DEF Work, Reserve, Check, PrepareBuilderImage, ShutDownBuilder,
       RunBuilder, Build, RollingUpdate, StartByComposeFile,
       HealthCheckDisabled, InspectHealth, QueryLogs, ListRunning, StopOld,
       Stopped, UndoNew, Unhealthy, Complete, FailDeployment, Transition,
       PostDeployment, RemoveNew, LeaveNew, ReserveExpired
  <2> QED BY <2>2, <2>3, <2>4, <2>5
<1>3. containers' \in [Names -> Versions \cup {Gone}]
  <2>1. Gone \in Versions \cup {Gone} /\ j \in Versions \cup {Gone}
    BY DEF Versions
  <2>2. CASE StartByComposeFile(j)
    BY <1>0, <2>1, <2>2 DEF StartByComposeFile, TypeOK
  <2>3. CASE StopOld(j) \/ UndoNew(j) \/ RemoveNew(j)
    BY <1>0, <2>1, <2>3 DEF StopOld, UndoNew, RemoveNew, TypeOK
  <2>4. CASE UNCHANGED containers
    BY <1>0, <2>4 DEF TypeOK
  <2>5. \/ StartByComposeFile(j) \/ StopOld(j) \/ UndoNew(j) \/ RemoveNew(j)
        \/ UNCHANGED containers
    BY DEF Work, Reserve, Begin, Check, PrepareBuilderImage, ShutDownBuilder,
       RunBuilder, Build, RollingUpdate, HealthCheckDisabled, InspectHealth,
       QueryLogs, ListRunning, Stopped, Unhealthy, Complete, FailDeployment,
       Transition, WriteStatus, PostDeployment, LeaveNew, ReserveExpired
  <2> QED BY <2>2, <2>3, <2>4, <2>5
<1>4. builder' \in [Deployments \X Hosts -> Builder \cup {NoBuilder}]
  <2>1. CASE ShutDownBuilder(j)
    BY <1>0, <2>1 DEF ShutDownBuilder, TypeOK
  <2>2. CASE RunBuilder(j)
    <3>1. Pc(j) = "run_builder" /\ run[j].builders \in Nat
      BY <1>0, <2>2 DEF RunBuilder, Issued, Pc, JobState
    <3>2. run[j].builders < MaxBuilders
      BY <3>1 DEF Typed, BuildersLeft, Building
    <3>3. run[j].builders + 1 \in 1..MaxBuilders
      BY <3>1, <3>2, RunAssumption
    <3>4. <<j, run[j].builders + 1>> \in Builder
      BY <3>3 DEF Builder
    <3>5. \/ builder' = builder
          \/ builder' = [builder EXCEPT ![Mine(j)] = <<j, run[j].builders + 1>>]
      BY <2>2 DEF RunBuilder
    <3> QED BY <1>0, <3>4, <3>5 DEF TypeOK
  <2>3. CASE UNCHANGED builder
    BY <1>0, <2>3 DEF TypeOK
  <2>4. ShutDownBuilder(j) \/ RunBuilder(j) \/ UNCHANGED builder
    BY DEF Work, Reserve, Begin, Check, PrepareBuilderImage, Build,
       RollingUpdate, StartByComposeFile, HealthCheckDisabled, InspectHealth,
       QueryLogs, ListRunning, StopOld, Stopped, UndoNew, Unhealthy, Complete,
       FailDeployment, Transition, WriteStatus, PostDeployment, RemoveNew,
       LeaveNew, ReserveExpired
  <2> QED BY <2>1, <2>2, <2>3, <2>4
<1>5. UNCHANGED <<killing, cleanup, orphan, hit, spent, setup>>
  BY DEF Work, Reserve, Begin, Check, PrepareBuilderImage, ShutDownBuilder,
     RunBuilder, Build, RollingUpdate, StartByComposeFile, HealthCheckDisabled,
     InspectHealth, QueryLogs, ListRunning, StopOld, Stopped, UndoNew,
     Unhealthy, Complete, FailDeployment, Transition, WriteStatus,
     PostDeployment, RemoveNew, LeaveNew, ReserveExpired
<1> QED
  BY <1>0, <1>1, <1>2, <1>3, <1>4, <1>5 DEF Typed, TypeOK

Cleanups == [phase : {"idle", "listed", "remove"}, server : Hosts,
             active : SUBSET Deployments, found : SUBSET (Deployments \X Builder)]

\* The cancel button and the clean-up of helpers.
LEMMA OperateTyped ==
  ASSUME Typed, Operate
  PROVE  Typed'
<1>0. TypeOK
  BY DEF Typed
<1>1. UNCHANGED run => run' \in [Jobs -> JobState] /\ BuildersLeft'
  BY DEF Typed, TypeOK, BuildersLeft, Pc
<1>2. ASSUME NEW d \in Deployments, Dispatch(d) PROVE Typed'
  BY <1>0, <1>1, <1>2 DEF Dispatch, Active, Status, Typed, TypeOK
<1>3. ASSUME NEW d \in Deployments, Cancel(d) PROVE Typed'
  BY <1>0, <1>1, <1>3 DEF Cancel, Spend, Status, Typed, TypeOK
<1>4. ASSUME NEW d \in Deployments, KillBuilder(d) PROVE Typed'
  BY <1>0, <1>1, <1>4 DEF KillBuilder, Hosts, Typed, TypeOK
<1>5. ASSUME ListActive PROVE Typed'
  <2>1. PICK h \in Hosts, S \in SUBSET Deployments :
          cleanup' = [cleanup EXCEPT !.phase = "listed", !.server = h, !.active = S]
    BY <1>5 DEF ListActive, Hosts
  <2>2. cleanup' \in Cleanups
    BY <1>0, <2>1 DEF TypeOK, Cleanups
  <2>3. spent' \in [{"op", "fault"} -> Nat]
    BY <1>0, <1>5 DEF ListActive, Spend, TypeOK
  <2> QED
    BY <1>0, <1>1, <1>5, <2>2, <2>3 DEF ListActive, Typed, TypeOK, Cleanups
<1>6. ASSUME ListHelpers PROVE Typed'
  BY <1>0, <1>1, <1>6 DEF ListHelpers, Typed, TypeOK
<1>7. ASSUME RemoveHelper PROVE Typed'
  <2>1. ASSUME NEW x \in cleanup.found
        PROVE  [cleanup EXCEPT !.found = @ \ {x}] \in Cleanups
    BY <1>0 DEF TypeOK, Cleanups
  <2>2. [cleanup EXCEPT !.phase = "idle"] \in Cleanups
    BY <1>0 DEF TypeOK, Cleanups
  <2>3. cleanup' \in Cleanups
    <3>1. \/ \E x \in cleanup.found : cleanup' = [cleanup EXCEPT !.found = @ \ {x}]
          \/ cleanup' = [cleanup EXCEPT !.phase = "idle"]
      BY <1>7 DEF RemoveHelper
    <3> QED BY <2>1, <2>2, <3>1
  <2>4. builder' \in [Deployments \X Hosts -> Builder \cup {NoBuilder}]
    <3>1. builder' = builder \/ \E name : builder' = [builder EXCEPT ![name] = NoBuilder]
      BY <1>7 DEF RemoveHelper
    <3> QED BY <1>0, <3>1 DEF TypeOK
  <2> QED
    BY <1>0, <1>1, <1>7, <2>3, <2>4 DEF RemoveHelper, Typed, TypeOK, Cleanups
<1> QED
  BY <1>2, <1>3, <1>4, <1>5, <1>6, <1>7 DEF Operate

\* The faults.
LEMMA DisturbTyped ==
  ASSUME Typed, NEW j \in Jobs,
         Timeout(j) \/ KillWorker(j) \/ LateEffect(j) \/ CommandLost(j) \/ SideEffectThrows(j)
  PROVE  Typed'
<1>0. /\ TypeOK /\ run[j] \in JobState
      /\ Pc(j) \in Building => run[j].builders < MaxBuilders
      /\ DeploymentOf[j] \in Deployments /\ ContainerName(j) \in Names
      /\ Mine(j) \in Deployments \X Hosts
  BY Refers DEF Typed, BuildersLeft, Mine, JobState
<1>1. \A kind \in {"op", "fault"}, bound \in Nat :
        Spend(kind, bound) => spent' \in [{"op", "fault"} -> Nat]
  BY <1>0 DEF Spend, TypeOK
<1>2. LeftBehind(j) \subseteq Jobs \X {"start", "run_builder"}
  BY DEF LeftBehind
<1>3. ASSUME Timeout(j) PROVE Typed'
  <2>1. /\ [Thrown(j, "error") EXCEPT !.tidy = FALSE] \in JobState
        /\ [Thrown(j, "error") EXCEPT !.tidy = FALSE].pc = "failed"
    BY <1>0 DEF Thrown, Then, JobState, PCs
  <2>2. JobKept(j)
    BY <1>0, <1>3, <2>1, BecomeKept DEF Timeout, Building
  <2>3. run' \in [Jobs -> JobState] /\ BuildersLeft'
    BY <2>2, JobsTyped
  <2> QED
    BY <1>0, <1>1, <1>2, <1>3, <2>3, RunAssumption DEF Timeout, Typed, TypeOK
<1>4. ASSUME KillWorker(j) PROVE Typed'
  <2>1. \A p \in {"dead", "done"} : /\ [Then(j, p) EXCEPT !.tidy = FALSE] \in JobState
                                     /\ [Then(j, p) EXCEPT !.tidy = FALSE].pc = p
    BY ZenonT(40), <1>0 DEF Then, JobState, PCs
  <2>2. \E p \in {"dead", "done"} : Become(j, [Then(j, p) EXCEPT !.tidy = FALSE])
    BY <1>4 DEF KillWorker
  <2>4. JobKept(j)
    BY <1>0, <2>1, <2>2, BecomeKept DEF Building
  <2>3. run' \in [Jobs -> JobState] /\ BuildersLeft'
    BY <2>4, JobsTyped
  <2> QED
    BY <1>0, <1>1, <1>2, <1>4, <2>3, RunAssumption DEF KillWorker, Typed, TypeOK
<1>5. ASSUME LateEffect(j) PROVE Typed'
  <2>1. run' \in [Jobs -> JobState] /\ BuildersLeft'
    BY <1>0, <1>5 DEF LateEffect, Typed, TypeOK, BuildersLeft, Pc
  <2>2. containers' \in [Names -> Versions \cup {Gone}]
    BY <1>0, <1>5 DEF LateEffect, TypeOK, Versions
  <2>3. builder' \in [Deployments \X Hosts -> Builder \cup {NoBuilder}]
    <3>1. run[j].builders < MaxBuilders => <<j, run[j].builders + 1>> \in Builder
      BY <1>0, RunAssumption DEF Builder, JobState
    <3> QED BY <1>0, <1>5, <3>1 DEF LateEffect, TypeOK
  <2> QED
    BY <1>0, <1>5, <2>1, <2>2, <2>3 DEF LateEffect, Typed, TypeOK
<1>6. ASSUME CommandLost(j) PROVE Typed'
  <2>1. JobKept(j)
    <3>1. CASE run[j].pc = "remove"
      BY <1>0, <1>6, <3>1, LeaveKept DEF CommandLost
    <3>2. CASE run[j].pc = "stop"
      <4>1. ASSUME NEW n \in run[j].stop
            PROVE  /\ [Then(j, "stop") EXCEPT !.stop = @ \ {n}] \in JobState
                   /\ [Then(j, "stop") EXCEPT !.stop = @ \ {n}].pc = "stop"
        BY <1>0 DEF Then, JobState, PCs, Graceful
      <4> QED
        BY <1>0, <1>6, <3>2, <4>1, BecomeKept DEF CommandLost, Building
    <3>3. CASE run[j].pc \in Graceful \ {"stop"}
      <4>1. AfterGraceful(j) \in JobState /\ AfterGraceful(j).builders = run[j].builders
        BY <1>0, <3>3 DEF AfterGraceful, Then, JobState, Graceful, Strict, PCs
      <4>2. AfterGraceful(j).pc \in Building => Pc(j) \in Building
        BY <1>0, <3>3 DEF AfterGraceful, Then, JobState, Graceful, Building, Pc
      <4>3. Become(j, AfterGraceful(j))
        BY <1>6, <3>3 DEF CommandLost, Graceful
      <4> QED
        BY <1>0, <4>1, <4>2, <4>3, BecomeKept
    <3> QED
      BY <1>6, <3>1, <3>2, <3>3 DEF CommandLost
  <2>2. run' \in [Jobs -> JobState] /\ BuildersLeft'
    BY <2>1, JobsTyped
  <2> QED
    BY <1>0, <1>1, <1>6, <2>2, RunAssumption DEF CommandLost, Typed, TypeOK
<1>7. ASSUME SideEffectThrows(j) PROVE Typed'
  <2>1. JobKept(j)
    BY <1>0, <1>7, LeaveKept DEF SideEffectThrows
  <2>2. run' \in [Jobs -> JobState] /\ BuildersLeft'
    BY <2>1, JobsTyped
  <2>3. run[j].goal \in Status
    BY <1>0 DEF JobState, Status
  <2>4. status' \in [Deployments -> Status] /\ hit' \subseteq Jobs
    BY <1>0, <1>7, <2>3 DEF SideEffectThrows, TypeOK
  <2> QED
    BY <1>0, <1>1, <1>7, <2>2, <2>4, RunAssumption
       DEF SideEffectThrows, Typed, TypeOK
<1> QED
  BY <1>3, <1>4, <1>5, <1>6, <1>7

\* Nothing runs at first, and every job has its first builder to start.
LEMMA InitTyped == Init => Typed
<1> SUFFICES ASSUME Init PROVE Typed
  OBVIOUS
<1>1. Fixed(0) \in Names /\ Names # {}
  BY DEF Fixed, Names, PullRequests
<1>2. containers \in [Names -> Versions \cup {Gone}]
  BY DEF Init, Versions
<1>3. status \in [Deployments -> Status]
  BY DEF Init, Status
<1>4. run \in [Jobs -> JobState] /\ BuildersLeft
  BY RunAssumption DEF Init, JobState, PCs, Status, Hosts, BuildersLeft, Pc
<1> QED
  BY <1>2, <1>3, <1>4 DEF Init, Hosts, Typed, TypeOK

\* Jobs, operators and faults keep the types, and the builders within the bound.
LEMMA StepTyped == Typed /\ [Next]_vars => Typed'
<1> SUFFICES ASSUME Typed, [Next]_vars PROVE Typed'
  OBVIOUS
<1>1. CASE \E j \in Jobs : Work(j)
  BY <1>1, WorkTyped
<1>2. CASE Operate
  BY <1>2, OperateTyped
<1>3. CASE Disturb
  BY <1>3, DisturbTyped DEF Disturb
<1>4. CASE UNCHANGED vars
  BY <1>4 DEF vars, Typed, TypeOK, BuildersLeft, Pc
<1> QED
  BY <1>1, <1>2, <1>3, <1>4 DEF Next

\* Every state has its type, whatever is deployed, cancelled or disturbed: a job
\* that is at a point where it starts a builder has one left within the bound.
THEOREM TypeCorrect == Spec => []TypeOK
<1>1. Typed => TypeOK
  BY DEF Typed
<1> QED
  BY <1>1, InitTyped, StepTyped, PTL DEF Spec

-----------------------------------------------------------------------------
(* The path of a job *)

\* A step of job j that only goes on leaves its exception, and what it will
\* write where, as they were.
Same(j) == /\ Code(j)' = Code(j)
           /\ run'[j].ret = run[j].ret /\ run'[j].goal = run[j].goal

\* Where the code goes on when nothing goes wrong and no status is written.
Forward(p, q) ==
  \/ p = q /\ p \in Strict \cup Graceful
  \/ p = "waiting" /\ q \in {"begin", "done"}
  \/ p = "begin" /\ q = "prepare"
  \/ p = "prepare" /\ q = "unbuild"
  \/ p = "unbuild" /\ q = "run_builder"
  \/ p = "run_builder" /\ q = "build"
  \/ p = "build" /\ q \in {"list", "rolling", "rebuild", "prepare"}
  \/ p = "rebuild" /\ q = "prepare"
  \/ p = "rolling" /\ q \in {"start", "list"}
  \/ p = "start" /\ q \in {"health", "complete"}
  \/ p = "health" /\ q \in {"list", "logs"}
  \/ p = "logs" /\ q = "unhealthy"
  \/ p = "list" /\ q = "stop"
  \/ p = "stop" /\ q \in {"complete", "start"}
  \/ p = "undo" /\ q = "complete"
  \/ p = "post" /\ q \in {"complete", "tidy"}
  \/ p = "remove" /\ q \in {"tidy", "done"}
  \/ p = "tidy" /\ q = "done"

\* An exception, with the cancellation it is about.
GivesUp(j) ==
  /\ Pc(j) \notin {"waiting", "failed", "remove", "write", "tidy", "done"}
  /\ Pc(j)' = "failed" /\ Code(j)' \in {"error", "cancelled"}
  /\ Code(j)' = "cancelled" => Cancelled(j) /\ StatusOf(j)' = StatusOf(j)
  /\ Pc(j) = "dead" => Code(j)' = "error"
  /\ StatusOf(j)' = StatusOf(j) \/ (Pc(j) = "begin" /\ StatusOf(j)' = "in_progress")

\* A transition finds the deployment failed already, or is to be written.
Transits(j) ==
  /\ Pc(j) \in {"unhealthy", "complete", "failed"}
  /\ run'[j].goal = IF Pc(j) = "complete" THEN "finished" ELSE "failed"
  /\ Pc(j) = "unhealthy" => run'[j].ret = "undo"
  /\ Pc(j) = "complete"  => run'[j].ret \in {"post", "tidy"}
  /\ Pc(j) = "failed"    => run'[j].ret = "remove"
  /\ Code(j)' = Code(j) /\ StatusOf(j)' = StatusOf(j)
  /\ \/ StatusOf(j) = "failed" /\ Pc(j)' = run'[j].ret
     \/ StatusOf(j) \notin {"failed", "cancelled-by-user"} /\ Pc(j)' = "write"

\* The status is written, or thought to be there already.
Writes(j) ==
  /\ Pc(j) = "write" /\ Pc(j)' = run[j].ret /\ Same(j)
  /\ StatusOf(j)' \in {run[j].goal, StatusOf(j)}

Route(j) ==
  \/ /\ Forward(Pc(j), Pc(j)') /\ Same(j)
     /\ StatusOf(j)' = StatusOf(j) \/ (Pc(j) = "begin" /\ StatusOf(j)' = "in_progress")
  \/ GivesUp(j) \/ Transits(j) \/ Writes(j)
  \/ /\ Pc(j) = "failed" /\ Cancelled(j)
     /\ Pc(j)' \in {"tidy", "done"} /\ Same(j) /\ StatusOf(j)' = StatusOf(j)

\* What a step makes of run[j].
LEMMA Becomes ==
  ASSUME TypeOK, NEW j \in Jobs, NEW me, Become(j, me)
  PROVE  run'[j] = me
BY DEF TypeOK, Become

\* The fields of the states the model writes.
LEMMA Fields ==
  ASSUME NEW j \in Jobs, run[j] \in JobState
  PROVE  /\ \A p : /\ Then(j, p).pc = p /\ Then(j, p).code = Code(j)
                   /\ Then(j, p).ret = run[j].ret /\ Then(j, p).goal = run[j].goal
         /\ \A c : Thrown(j, c).pc = "failed" /\ Thrown(j, c).code = c
         /\ CommandFailed(j).pc = "failed"
         /\ CommandFailed(j).code = IF Cancelled(j) THEN "cancelled" ELSE "error"
         /\ Finally(j).pc = "tidy" /\ Finally(j).code = Code(j)
         /\ Finally(j).ret = run[j].ret /\ Finally(j).goal = run[j].goal
         /\ Settled(j).pc \in {"tidy", "done"} /\ Settled(j).code = Code(j)
         /\ Settled(j).ret = run[j].ret /\ Settled(j).goal = run[j].goal
<1>1. ASSUME NEW p
      PROVE  /\ Then(j, p).pc = p /\ Then(j, p).code = Code(j)
             /\ Then(j, p).ret = run[j].ret /\ Then(j, p).goal = run[j].goal
  BY DEF Then, JobState, Code
<1>2. ASSUME NEW c PROVE Thrown(j, c).pc = "failed" /\ Thrown(j, c).code = c
  BY DEF Thrown, Then, JobState
<1>3. /\ Finally(j).pc = "tidy" /\ Finally(j).code = Code(j)
      /\ Finally(j).ret = run[j].ret /\ Finally(j).goal = run[j].goal
  BY DEF Finally, Then, JobState, Code
<1> QED
  BY <1>1, <1>2, <1>3 DEF CommandFailed, Settled

\* Every step of a job follows its route.
LEMMA WorkRoute ==
  ASSUME Typed, NEW j \in Jobs, Work(j)
  PROVE  Route(j)
<1>0. TypeOK /\ run[j] \in JobState
  BY Refers DEF Typed
<1> DEFINE SameStatus == StatusOf(j)' = StatusOf(j)
           Goes(me) == me.code = Code(j) /\ me.ret = run[j].ret /\ me.goal = run[j].goal
<1>a. ASSUME NEW me, Become(j, me)
      PROVE  /\ run'[j] = me /\ Pc(j)' = me.pc /\ Code(j)' = me.code
             /\ Goes(me) => Same(j)
  BY <1>0, <1>a, Becomes DEF Pc, Code, Same
<1>b. ASSUME NEW p, Become(j, Then(j, p)) PROVE Pc(j)' = p /\ Same(j)
  BY <1>0, <1>a, <1>b, Fields
<1>c. ASSUME NEW c \in {"error", "cancelled"}, Become(j, Thrown(j, c))
      PROVE  Pc(j)' = "failed" /\ Code(j)' = c
  BY <1>0, <1>a, <1>c, Fields
<1>d. ASSUME Become(j, CommandFailed(j))
      PROVE  /\ Pc(j)' = "failed"
             /\ Code(j)' = IF Cancelled(j) THEN "cancelled" ELSE "error"
  BY <1>0, <1>a, <1>d, Fields
<1>e. ASSUME Become(j, Settled(j)) PROVE Pc(j)' \in {"tidy", "done"} /\ Same(j)
  BY <1>0, <1>a, <1>e, Fields
<1>f. ASSUME Become(j, Finally(j)) PROVE Pc(j)' = "tidy" /\ Same(j)
  BY <1>0, <1>a, <1>f, Fields
<1>g. ASSUME run[j].pc \in Graceful \ {"stop"}, Become(j, AfterGraceful(j))
      PROVE  Forward(Pc(j), Pc(j)') /\ Same(j)
  BY <1>b, <1>g DEF AfterGraceful, Graceful, Forward, Pc
<1> HIDE DEF Goes, SameStatus
<1>1. CASE Reserve(j)
  <2> DEFINE me == [Then(j, "begin") EXCEPT !.copy = StatusOf(j)]
  <2>1. me.pc = "begin" /\ Goes(me)
    BY <1>0 DEF Then, JobState, Code, Goes
  <2>2. Become(j, Then(j, "done")) \/ Become(j, me)
    BY <1>1 DEF Reserve, StatusOf
  <2> HIDE DEF me
  <2>3. Pc(j) = "waiting" /\ SameStatus
    BY <1>1 DEF Reserve, At, Pc, StatusOf, SameStatus
  <2>4. Pc(j)' \in {"begin", "done"} /\ Same(j)
    BY <1>a, <1>b, <2>1, <2>2
  <2> QED
    BY <2>3, <2>4 DEF Route, Forward, SameStatus
<1>2. CASE Begin(j)
  <2> DEFINE me == [Then(j, "prepare") EXCEPT !.tidy = TRUE]
  <2>1. me.pc = "prepare" /\ Goes(me)
    BY <1>0 DEF Then, JobState, Code, Goes
  <2>2. Become(j, me) \/ Become(j, Thrown(j, "error"))
    BY <1>2 DEF Begin
  <2> HIDE DEF me
  <2>3. Pc(j) = "begin" /\ (SameStatus \/ StatusOf(j)' = "in_progress")
    BY <1>0, <1>2, Refers DEF Begin, At, Pc, StatusOf, SameStatus, TypeOK
  <2>4. \/ Pc(j)' = "prepare" /\ Same(j)
        \/ Pc(j)' = "failed" /\ Code(j)' = "error"
    BY <1>a, <1>c, <2>1, <2>2
  <2> QED
    BY <2>3, <2>4 DEF Route, Forward, GivesUp, SameStatus
<1>3. CASE Check(j)
  <2>1. SameStatus /\ Pc(j) \in Strict \cup Graceful
    BY <1>3 DEF Check, StatusOf, SameStatus, Pc
  <2>2. CASE ~Cancelled(j)
    <3> DEFINE me == [run[j] EXCEPT !.armed = TRUE]
    <3>1. me.pc = Pc(j) /\ Goes(me)
      BY <1>0 DEF JobState, Pc, Code, Goes
    <3>2. Become(j, me)
      BY <1>3, <2>2 DEF Check
    <3> HIDE DEF me
    <3>3. Pc(j)' = Pc(j) /\ Same(j)
      BY <1>a, <3>1, <3>2
    <3> QED BY <2>1, <3>3 DEF Route, Forward, SameStatus
  <2>3. CASE Cancelled(j) /\ run[j].pc = "stop"
    <3> DEFINE me(n) == [run[j] EXCEPT !.stop = @ \ {n}]
    <3>1. \A n : me(n).pc = Pc(j) /\ Goes(me(n))
      BY <1>0 DEF JobState, Pc, Code, Goes
    <3>2. \E n : Become(j, me(n))
      BY <1>3, <2>3 DEF Check
    <3> HIDE DEF me
    <3>3. Pc(j)' = Pc(j) /\ Same(j)
      BY <1>a, <3>1, <3>2
    <3> QED BY <2>1, <3>3 DEF Route, Forward, SameStatus
  <2>4. CASE Cancelled(j) /\ run[j].pc \in Graceful \ {"stop"}
    <3>1. Become(j, AfterGraceful(j))
      BY <1>3, <2>4 DEF Check, Graceful
    <3> QED BY <1>g, <2>1, <2>4, <3>1 DEF Route, SameStatus
  <2>5. CASE Cancelled(j) /\ run[j].pc = "remove"
    <3>1. Become(j, Settled(j))
      BY <1>3, <2>5 DEF Check, Graceful
    <3> QED BY <1>e, <2>1, <2>5, <3>1 DEF Route, Forward, SameStatus, Pc
  <2>6. CASE Cancelled(j) /\ run[j].pc \in Strict \ {"remove"}
    <3>1. Become(j, Thrown(j, "cancelled"))
      BY <1>3, <2>6 DEF Check, Strict, Graceful
    <3> QED BY <1>c, <2>1, <2>6, <3>1 DEF Route, GivesUp, SameStatus, Strict, Pc
  <2> QED
    BY <2>1, <2>2, <2>3, <2>4, <2>5, <2>6 DEF Strict, Pc
<1>4. CASE PrepareBuilderImage(j)
  <2> DEFINE here == [run[j] EXCEPT !.server = IF MovesFirst(j) THEN "build" ELSE @]
             on == [here EXCEPT !.pc = "unbuild"]
             off(c) == [here EXCEPT !.pc = "failed", !.code = c]
  <2>1. here \in JobState /\ Goes(here)
    BY <1>0 DEF JobState, Hosts, Goes, Code
  <2> HIDE DEF here
  <2>2. /\ on.pc = "unbuild" /\ Goes(on)
        /\ \A c : off(c).pc = "failed" /\ off(c).code = c
    BY <2>1 DEF JobState, Goes
  <2>3. \/ Become(j, on) \/ Become(j, off("error"))
        \/ Become(j, off("cancelled")) /\ Cancelled(j)
    BY <1>4 DEF PrepareBuilderImage, here
  <2> HIDE DEF on, off
  <2>4. Pc(j) = "prepare" /\ SameStatus
    BY <1>4 DEF PrepareBuilderImage, At, Pc, StatusOf, SameStatus
  <2>5. \/ Pc(j)' = "unbuild" /\ Same(j)
        \/ Pc(j)' = "failed" /\ Code(j)' = "error"
        \/ Pc(j)' = "failed" /\ Code(j)' = "cancelled" /\ Cancelled(j)
    BY <1>a, <2>2, <2>3
  <2> QED
    BY <2>4, <2>5 DEF Route, Forward, GivesUp, SameStatus
<1>5. CASE ShutDownBuilder(j)
  <2>1. /\ run[j].pc \in Graceful \ {"stop"}
        /\ Become(j, AfterGraceful(j)) /\ SameStatus
    BY <1>5 DEF ShutDownBuilder, Graceful, StatusOf, SameStatus
  <2> QED BY <1>g, <2>1 DEF Route, SameStatus
<1> DEFINE Failing == /\ Pc(j)' = "failed" /\ Code(j)' \in {"error", "cancelled"}
                      /\ Code(j)' = "cancelled" => Cancelled(j)
<1>6. CASE RunBuilder(j)
  <2> DEFINE on == [Then(j, "build") EXCEPT !.builders = @ + 1]
             off == [CommandFailed(j) EXCEPT !.builders = @ + 1]
  <2>1. on.pc = "build" /\ Goes(on)
    BY <1>0 DEF Then, JobState, Code, Goes
  <2>2. off.pc = "failed" /\ off.code = IF Cancelled(j) THEN "cancelled" ELSE "error"
    BY <1>0 DEF CommandFailed, Thrown, Then, JobState
  <2>3. Become(j, on) \/ Become(j, off) \/ Become(j, CommandFailed(j))
    BY <1>6 DEF RunBuilder
  <2> HIDE DEF on, off
  <2>4. Pc(j) = "run_builder" /\ SameStatus
    BY <1>6 DEF RunBuilder, Issued, Pc, StatusOf, SameStatus
  <2>5. (Pc(j)' = "build" /\ Same(j)) \/ Failing
    BY <1>a, <1>d, <2>1, <2>2, <2>3
  <2> QED
    BY <2>4, <2>5 DEF Route, Forward, GivesUp, SameStatus
<1>7. CASE Build(j)
  <2> DEFINE me == [Then(j, "prepare") EXCEPT !.mode = "nested"]
             built(p) == [Then(j, p) EXCEPT !.server = BuildHost(j)]
  <2>1. me.pc = "prepare" /\ Goes(me) /\ \A p : built(p).pc = p /\ Goes(built(p))
    BY <1>0 DEF Then, JobState, Code, Goes
  <2>2. \/ \E p \in {"list", "rolling"} : Become(j, built(p))
        \/ Become(j, Then(j, "rebuild"))
        \/ Become(j, me) \/ Become(j, CommandFailed(j))
    BY <1>7 DEF Build
  <2> HIDE DEF me, built
  <2>3. Pc(j) = "build" /\ SameStatus
    BY <1>7 DEF Build, Issued, Pc, StatusOf, SameStatus
  <2>4. (Pc(j)' \in {"list", "rolling", "rebuild", "prepare"} /\ Same(j)) \/ Failing
    BY <1>a, <1>b, <1>d, <2>1, <2>2
  <2> QED
    BY <2>3, <2>4 DEF Route, Forward, GivesUp, SameStatus
<1>8. CASE RollingUpdate(j)
  <2> DEFINE me(p) == [Then(j, p) EXCEPT !.server = "main"]
  <2>1. \A p : me(p).pc = p /\ Goes(me(p))
    BY <1>0 DEF Then, JobState, Code, Goes
  <2>2. \/ \E p \in {"start", "list"} : Become(j, me(p))
        \/ Become(j, Thrown(j, "cancelled")) /\ Cancelled(j)
    BY <1>8 DEF RollingUpdate
  <2> HIDE DEF me
  <2>3. Pc(j) = "rolling" /\ SameStatus
    BY <1>8 DEF RollingUpdate, At, Pc, StatusOf, SameStatus
  <2>4. (Pc(j)' \in {"start", "list"} /\ Same(j)) \/ Failing
    BY <1>a, <1>c, <2>1, <2>2
  <2> QED
    BY <2>3, <2>4 DEF Route, Forward, GivesUp, SameStatus
<1>9. CASE StartByComposeFile(j)
  <2>1. \/ \E p \in {"health", "complete"} : Become(j, Then(j, p))
        \/ Become(j, CommandFailed(j))
    BY <1>9 DEF StartByComposeFile
  <2>2. Pc(j) = "start" /\ SameStatus
    BY <1>9 DEF StartByComposeFile, Issued, Pc, StatusOf, SameStatus
  <2>3. (Pc(j)' \in {"health", "complete"} /\ Same(j)) \/ Failing
    BY <1>b, <1>d, <2>1
  <2> QED
    BY <2>2, <2>3 DEF Route, Forward, GivesUp, SameStatus
<1>10. CASE HealthCheckDisabled(j) \/ InspectHealth(j)
  <2> DEFINE well == [Then(j, "list") EXCEPT !.healthy = TRUE]
             again(p, n) == [Then(j, p) EXCEPT !.tries = n]
  <2>1. /\ well.pc = "list" /\ Goes(well)
        /\ \A p, n : again(p, n).pc = p /\ Goes(again(p, n))
    BY <1>0 DEF Then, JobState, Code, Goes
  <2>2. \/ Become(j, well) \/ Become(j, Then(j, "logs"))
        \/ \E p \in {"health", "logs"} : \E n : Become(j, again(p, n))
        \/ Become(j, CommandFailed(j))
    BY <1>10 DEF HealthCheckDisabled, InspectHealth
  <2> HIDE DEF well, again
  <2>3. Pc(j) = "health" /\ SameStatus
    BY <1>10
       DEF HealthCheckDisabled, InspectHealth, At, Issued, Pc, StatusOf,
           SameStatus
  <2>4. (Pc(j)' \in {"list", "logs", "health"} /\ Same(j)) \/ Failing
    BY <1>a, <1>b, <1>d, <2>1, <2>2
  <2> QED
    BY <2>3, <2>4 DEF Route, Forward, GivesUp, SameStatus, Strict
<1>11. CASE QueryLogs(j) \/ Stopped(j)
  BY <1>11, <1>b
     DEF QueryLogs, Stopped, At, Issued, Pc, StatusOf, Route, Forward
<1>12. CASE ListRunning(j)
  <2> DEFINE me(S) == [Then(j, "stop") EXCEPT !.stop = S]
  <2>1. \A S : me(S).pc = "stop" /\ Goes(me(S))
    BY <1>0 DEF Then, JobState, Code, Goes
  <2>2. (\E S : Become(j, me(S))) \/ Become(j, Thrown(j, "error"))
    BY <1>12 DEF ListRunning
  <2> HIDE DEF me
  <2>3. Pc(j) = "list" /\ SameStatus
    BY <1>12 DEF ListRunning, At, Pc, StatusOf, SameStatus
  <2>4. (Pc(j)' = "stop" /\ Same(j)) \/ Failing
    BY <1>a, <1>c, <2>1, <2>2
  <2> QED
    BY <2>3, <2>4 DEF Route, Forward, GivesUp, SameStatus
<1>13. CASE StopOld(j)
  <2> DEFINE me(n) == [Then(j, "stop") EXCEPT !.stop = @ \ {n}]
  <2>1. \A n : me(n).pc = "stop" /\ Goes(me(n))
    BY <1>0 DEF Then, JobState, Code, Goes
  <2>2. \E n : Become(j, me(n))
    BY <1>13 DEF StopOld
  <2> HIDE DEF me
  <2>3. Pc(j) = "stop" /\ SameStatus
    BY <1>13 DEF StopOld, Issued, Pc, StatusOf, SameStatus
  <2>4. Pc(j)' = "stop" /\ Same(j)
    BY <1>a, <2>1, <2>2
  <2> QED
    BY <2>3, <2>4 DEF Route, Forward, SameStatus, Graceful
<1>14. CASE UndoNew(j)
  <2>1. run[j].pc = "undo" /\ Become(j, AfterGraceful(j)) /\ SameStatus
    BY <1>14 DEF UndoNew, Issued, StatusOf, SameStatus
  <2> QED BY <1>g, <2>1 DEF Route, SameStatus, Graceful
<1>15. CASE Unhealthy(j) \/ Complete(j) \/ FailDeployment(j)
  <2>1. PICK g \in {"finished", "failed"}, r \in {"undo", "post", "tidy", "remove"} :
          /\ Transition(j, [run[j] EXCEPT !.goal = g, !.ret = r])
          /\ g = IF Pc(j) = "complete" THEN "finished" ELSE "failed"
          /\ Pc(j) = "unhealthy" => r = "undo"
          /\ Pc(j) = "complete" => r \in {"post", "tidy"}
          /\ Pc(j) = "failed" => r = "remove"
    BY <1>15 DEF Unhealthy, Complete, FailDeployment, At, Pc
  <2>2. Pc(j) \in {"unhealthy", "complete", "failed"}
    BY <1>15 DEF Unhealthy, Complete, FailDeployment, At, Pc
  <2> DEFINE me == [run[j] EXCEPT !.goal = g, !.ret = r]
  <2>3. me \in JobState /\ me.goal = g /\ me.ret = r /\ me.code = Code(j)
    BY <1>0 DEF JobState, Code
  <2>4. Transition(j, me)
    BY <2>1
  <2> HIDE DEF me
  <2> DEFINE over == [me EXCEPT !.pc = me.ret, !.server = AfterTry(me)]
             write == [me EXCEPT !.pc = "write", !.copy = StatusOf(j)]
  <2>5. /\ over.pc = r /\ over.goal = g /\ over.ret = r /\ over.code = Code(j)
        /\ write.pc = "write" /\ write.goal = g /\ write.ret = r /\ write.code = Code(j)
    BY <2>3 DEF JobState
  <2>6. /\ SameStatus
        /\ \/ StatusOf(j) = "failed" /\ Become(j, over)
           \/ Cancelled(j) /\ r = "remove" /\ Become(j, Settled(j))
           \/ Cancelled(j) /\ r # "remove" /\ Become(j, Thrown(j, "cancelled"))
           \/ StatusOf(j) \notin {"failed", "cancelled-by-user"} /\ Become(j, write)
    <3>1. CASE StatusOf(j) = "failed"
      BY <2>4, <3>1 DEF Transition, StatusOf, Cancelled, SameStatus
    <3>2. CASE Cancelled(j) /\ r = "remove"
      BY <2>3, <2>4, <3>2 DEF Transition, StatusOf, Cancelled, SameStatus
    <3>3. CASE Cancelled(j) /\ r # "remove"
      BY <2>3, <2>4, <3>3 DEF Transition, StatusOf, Cancelled, SameStatus
    <3>4. CASE StatusOf(j) \notin {"failed", "cancelled-by-user"}
      BY <2>4, <3>4 DEF Transition, StatusOf, Cancelled, SameStatus
    <3> QED BY <3>1, <3>2, <3>3, <3>4 DEF Cancelled, StatusOf
  <2> HIDE DEF over, write
  <2>7. CASE StatusOf(j) = "failed" /\ Become(j, over)
    <3>1. Pc(j)' = r /\ run'[j].goal = g /\ run'[j].ret = r /\ Code(j)' = Code(j)
      BY <1>a, <2>5, <2>7
    <3> QED BY <2>1, <2>2, <2>6, <2>7, <3>1 DEF Route, Transits, SameStatus
  <2>8. CASE Cancelled(j) /\ r = "remove" /\ Become(j, Settled(j))
    BY <1>e, <2>1, <2>2, <2>6, <2>8 DEF Route, SameStatus
  <2>9. CASE Cancelled(j) /\ r # "remove" /\ Become(j, Thrown(j, "cancelled"))
    BY <1>c, <2>1, <2>2, <2>6, <2>9 DEF Route, GivesUp, SameStatus
  <2>10. CASE StatusOf(j) \notin {"failed", "cancelled-by-user"} /\ Become(j, write)
    <3>1. Pc(j)' = "write" /\ run'[j].goal = g /\ run'[j].ret = r /\ Code(j)' = Code(j)
      BY <1>a, <2>5, <2>10
    <3> QED BY <2>1, <2>2, <2>6, <2>10, <3>1 DEF Route, Transits, SameStatus
  <2> QED
    BY <2>6, <2>7, <2>8, <2>9, <2>10
<1>16. CASE WriteStatus(j)
  <2>1. Pc(j) = "write" /\ Become(j, Continued(j))
    BY <1>16 DEF WriteStatus, At, Pc
  <2>2. Continued(j).pc = run[j].ret /\ Goes(Continued(j))
    BY <1>0 DEF Continued, Then, JobState, Code, Goes
  <2>3. StatusOf(j)' \in {run[j].goal, StatusOf(j)}
    BY <1>0, <1>16, Refers DEF WriteStatus, StatusOf, TypeOK
  <2>4. Pc(j)' = run[j].ret /\ Same(j)
    BY <1>a, <2>1, <2>2
  <2> QED
    BY <2>1, <2>3, <2>4 DEF Route, Writes
<1>17. CASE PostDeployment(j)
  <2> DEFINE me == [Then(j, "complete") EXCEPT !.mode = "restart"]
  <2>1. me.pc = "complete" /\ Goes(me)
    BY <1>0 DEF Then, JobState, Code, Goes
  <2>2. Become(j, me) \/ Become(j, Finally(j)) \/ Become(j, Thrown(j, "error"))
    BY <1>17 DEF PostDeployment
  <2> HIDE DEF me
  <2>3. Pc(j) = "post" /\ SameStatus
    BY <1>17 DEF PostDeployment, At, Pc, StatusOf, SameStatus
  <2>4. (Pc(j)' \in {"complete", "tidy"} /\ Same(j)) \/ Failing
    BY <1>a, <1>c, <1>f, <2>1, <2>2
  <2> QED
    BY <2>3, <2>4 DEF Route, Forward, GivesUp, SameStatus
<1>18. CASE RemoveNew(j) \/ LeaveNew(j)
  BY <1>18, <1>e
     DEF RemoveNew, LeaveNew, At, Issued, Pc, StatusOf, Route, Forward
<1>19. CASE ReserveExpired(j)
  BY <1>19, <1>c DEF ReserveExpired, At, Pc, StatusOf, Route, GivesUp
<1> QED
  BY <1>1, <1>2, <1>3, <1>4, <1>5, <1>6, <1>7, <1>8, <1>9, <1>10, <1>11, <1>12,
     <1>13, <1>14, <1>15, <1>16, <1>17, <1>18, <1>19 DEF Work

\* No deployment has two jobs: a row is pushed once, unless an operator forces it.
OneJobEach == \A i, j \in Jobs : DeploymentOf[i] = DeploymentOf[j] => i = j

\* A step of job i leaves the other jobs and their deployments alone.
LEMMA WorkOthers ==
  ASSUME Typed, OneJobEach, NEW i \in Jobs, NEW j \in Jobs, i # j, Work(i)
  PROVE  run'[j] = run[j] /\ StatusOf(j)' = StatusOf(j)
<1>1. run'[j] = run[j]
  BY WorkKept DEF JobKept, Typed, TypeOK
<1>2. DeploymentOf[i] # DeploymentOf[j]
  BY DEF OneJobEach
<1>3. Begin(i) \/ WriteStatus(i) \/ UNCHANGED status
  BY DEF Work, Reserve, Check, PrepareBuilderImage, ShutDownBuilder, RunBuilder,
     Build, RollingUpdate, StartByComposeFile, HealthCheckDisabled,
     InspectHealth, QueryLogs, ListRunning, StopOld, Stopped, UndoNew,
     Unhealthy, Complete, FailDeployment, Transition, PostDeployment, RemoveNew,
     LeaveNew, ReserveExpired
<1>4. \/ status' = status
      \/ \E s : status' = [status EXCEPT ![DeploymentOf[i]] = s]
  BY <1>3 DEF Begin, WriteStatus
<1>5. DeploymentOf[j] \in Deployments /\ status \in [Deployments -> Status]
  BY RunAssumption DEF Typed, TypeOK
<1> QED
  BY <1>1, <1>2, <1>4, <1>5 DEF StatusOf

\* Only faults touch these.
LEMMA WorkFrame ==
  ASSUME NEW j \in Jobs, Work(j)
  PROVE  UNCHANGED <<killing, cleanup, orphan, hit, spent, setup>>
BY DEF Work, Reserve, Begin, Check, PrepareBuilderImage, ShutDownBuilder,
   RunBuilder, Build, RollingUpdate, StartByComposeFile, HealthCheckDisabled,
   InspectHealth, QueryLogs, ListRunning, StopOld, Stopped, UndoNew, Unhealthy,
   Complete, FailDeployment, Transition, WriteStatus, PostDeployment, RemoveNew,
   LeaveNew, ReserveExpired

\* What a fault does to job j.
Interrupted(j) ==
  \/ Pc(j)' = "failed" /\ Code(j)' = "error" /\ StatusOf(j)' = StatusOf(j) /\ j \in hit'
  \/ /\ Pc(j)' \in {"dead", "done"} /\ Code(j)' = Code(j) /\ StatusOf(j)' = StatusOf(j)
     /\ j \in hit'
  \/ Forward(Pc(j), Pc(j)') /\ Same(j) /\ StatusOf(j)' = StatusOf(j) /\ j \in hit'
  \/ /\ Pc(j) = "write" /\ StatusOf(j)' \in {run[j].goal, StatusOf(j)}
     /\ \/ run[j].ret = "remove" /\ Pc(j)' \in {"tidy", "done"} /\ Same(j) /\ j \in hit'
        \/ run[j].ret # "remove" /\ Pc(j)' = "failed" /\ Code(j)' = "error"

\* A fault hits one job, and a start that comes late belongs to a job that was hit.
LEMMA DisturbRoute ==
  ASSUME Typed, OneJobEach, NEW i \in Jobs, NEW j \in Jobs,
         Timeout(i) \/ KillWorker(i) \/ LateEffect(i) \/ CommandLost(i) \/ SideEffectThrows(i)
  PROVE  /\ setup' = setup /\ hit \subseteq hit'
         /\ \A p : <<j, p>> \in orphan' => <<j, p>> \in orphan \/ j \in hit'
         /\ \/ i = j /\ Interrupted(j)
            \/ run'[j] = run[j] /\ StatusOf(j)' = StatusOf(j)
<1>0. /\ TypeOK /\ run[i] \in JobState /\ run[j] \in JobState
      /\ DeploymentOf[i] \in Deployments /\ DeploymentOf[j] \in Deployments
  BY Refers DEF Typed
<1>1. ASSUME NEW me, Become(i, me), i # j PROVE run'[j] = run[j]
  BY <1>0, <1>1 DEF Become, TypeOK
<1>2. ASSUME NEW me, Become(j, me)
      PROVE  /\ Pc(j)' = me.pc /\ Code(j)' = me.code
             /\ run'[j].ret = me.ret /\ run'[j].goal = me.goal
  BY <1>0, <1>2, Becomes DEF Pc, Code
<1>3. CASE Timeout(i)
  <2> DEFINE me == [Thrown(i, "error") EXCEPT !.tidy = FALSE]
  <2>1. me.pc = "failed" /\ me.code = "error"
    BY <1>0 DEF Thrown, Then, JobState
  <2>2. Become(i, me)
    BY <1>3 DEF Timeout
  <2> HIDE DEF me
  <2>3. hit' = hit \cup {i} /\ orphan' = orphan \cup LeftBehind(i)
        /\ UNCHANGED <<status, setup>>
    BY <1>3 DEF Timeout
  <2> QED
    BY <1>1, <1>2, <2>1, <2>2, <2>3 DEF LeftBehind, Interrupted, StatusOf
<1>4. CASE KillWorker(i)
  <2> DEFINE me == [Then(i, IF Deleted(i) THEN "done" ELSE "dead") EXCEPT !.tidy = FALSE]
  <2>1. me.pc \in {"dead", "done"} /\ me.code = Code(i)
    BY <1>0 DEF Then, JobState, Code
  <2>2. Become(i, me)
    BY <1>4 DEF KillWorker
  <2> HIDE DEF me
  <2>3. hit' = hit \cup {i} /\ orphan' = orphan \cup LeftBehind(i)
        /\ UNCHANGED <<status, setup>>
    BY <1>4 DEF KillWorker
  <2> QED
    BY <1>1, <1>2, <2>1, <2>2, <2>3 DEF LeftBehind, Interrupted, StatusOf
<1>5. CASE LateEffect(i)
  BY <1>5 DEF LateEffect, StatusOf
<1>6. CASE CommandLost(i)
  <2>1. hit' = hit \cup {i} /\ UNCHANGED <<status, orphan, setup>>
    BY <1>6 DEF CommandLost
  <2>2. \E me : Become(i, me)
    BY <1>6 DEF CommandLost
  <2>3. ASSUME i = j PROVE Forward(Pc(j), Pc(j)') /\ Same(j)
    <3>1. CASE run[j].pc = "remove"
      <4>1. Become(j, Settled(j))
        BY <1>6, <2>3, <3>1 DEF CommandLost
      <4> QED
        BY <1>0, <1>2, <3>1, <4>1, Fields DEF Forward, Same, Pc
    <3>2. CASE run[j].pc = "stop"
      <4> DEFINE me(n) == [Then(j, "stop") EXCEPT !.stop = @ \ {n}]
      <4>1. \A n : /\ me(n).pc = "stop" /\ me(n).code = Code(j)
                   /\ me(n).ret = run[j].ret /\ me(n).goal = run[j].goal
        BY <1>0 DEF Then, JobState, Code
      <4>2. \E n : Become(j, me(n))
        BY <1>6, <2>3, <3>2 DEF CommandLost
      <4> HIDE DEF me
      <4> QED
        BY <1>2, <3>2, <4>1, <4>2 DEF Forward, Same, Pc, Graceful
    <3>3. CASE run[j].pc \in Graceful \ {"stop"}
      <4>1. Become(j, AfterGraceful(j))
        BY <1>6, <2>3, <3>3 DEF CommandLost, Graceful
      <4>2. PICK p : Become(j, Then(j, p)) /\ Forward(Pc(j), p)
        BY <3>3, <4>1 DEF AfterGraceful, Graceful, Forward, Pc
      <4> QED
        BY <1>0, <1>2, <4>2, Fields DEF Same
    <3> QED
      BY <1>6, <2>3, <3>1, <3>2, <3>3 DEF CommandLost
  <2> QED
    BY <1>1, <2>1, <2>2, <2>3 DEF Interrupted, StatusOf
<1>7. CASE SideEffectThrows(i)
  <2>1. /\ hit \subseteq hit' /\ UNCHANGED <<orphan, setup>>
        /\ Pc(i) = "write"
        /\ \/ run[i].ret = "remove" /\ Become(i, Settled(i)) /\ i \in hit'
           \/ run[i].ret # "remove" /\ Become(i, Thrown(i, "error"))
    BY <1>7 DEF SideEffectThrows, At, Pc
  <2>2. \/ status' = status
        \/ status' = [status EXCEPT ![DeploymentOf[i]] = run[i].goal]
    BY <1>7 DEF SideEffectThrows
  <2>3. CASE i = j
    <3>1. StatusOf(j)' \in {run[j].goal, StatusOf(j)}
      BY <1>0, <2>2, <2>3 DEF StatusOf, TypeOK
    <3>2. \/ run[j].ret = "remove" /\ Pc(j)' \in {"tidy", "done"} /\ Same(j) /\ j \in hit'
          \/ run[j].ret # "remove" /\ Pc(j)' = "failed" /\ Code(j)' = "error"
      BY <1>0, <1>2, <2>1, <2>3, Fields DEF Same
    <3> QED BY <2>1, <2>3, <3>1, <3>2 DEF Interrupted
  <2>4. CASE i # j
    <3>1. StatusOf(j)' = StatusOf(j)
      BY <1>0, <2>2, <2>4 DEF OneJobEach, StatusOf, TypeOK
    <3> QED BY <1>1, <2>1, <2>4, <3>1
  <2> QED BY <2>3, <2>4
<1> QED
  BY <1>3, <1>4, <1>5, <1>6, <1>7

\* Cancellations and clean-ups leave the jobs alone.
LEMMA OperateRoute ==
  ASSUME Typed, NEW j \in Jobs, Operate
  PROVE  /\ UNCHANGED <<run, containers, orphan, hit, setup>>
         /\ StatusOf(j)' \in {StatusOf(j), "queued", "in_progress", "cancelled-by-user"}
         /\ StatusOf(j) \notin {"absent", "cancelled-by-user"}
              => StatusOf(j)' \in {StatusOf(j), "cancelled-by-user"}
         /\ Cancelled(j) => Cancelled(j)'
<1>1. UNCHANGED <<run, containers, orphan, hit, setup>>
  BY DEF Operate, Dispatch, Cancel, KillBuilder, ListActive, ListHelpers,
     RemoveHelper
<1>2. \/ status' = status
      \/ \E d \in Deployments, s \in Active : status[d] = "absent" /\ status' = [status EXCEPT ![d] = s]
      \/ \E d \in Deployments : status' = [status EXCEPT ![d] = "cancelled-by-user"]
  BY DEF Operate, Dispatch, Cancel, KillBuilder, ListActive, ListHelpers,
     RemoveHelper
<1>3. DeploymentOf[j] \in Deployments /\ status \in [Deployments -> Status]
  BY RunAssumption DEF Typed, TypeOK
<1>4. /\ StatusOf(j)' \in {StatusOf(j), "queued", "in_progress", "cancelled-by-user"}
      /\ StatusOf(j) # "absent" => StatusOf(j)' \in {StatusOf(j), "cancelled-by-user"}
  BY <1>2, <1>3 DEF StatusOf, Active
<1> QED
  BY <1>1, <1>4 DEF Cancelled, StatusOf

-----------------------------------------------------------------------------
(* A deployment that has failed *)

\* Giving up: failed() has still to remove the new version.
Giving(j) == Pc(j) \in {"failed", "remove"} \/ (Pc(j) = "write" /\ run[j].ret = "remove")

\* Where the job of a failed deployment may be.
Over == {"undo", "complete", "post", "tidy", "done", "failed", "remove", "dead"}

\* How a job got where it is: what its exception and the status of its
\* deployment say about it.
Path(j) ==
  /\ StatusOf(j) = "failed" => Pc(j) \in Over
  /\ Pc(j) = "write" => (run[j].goal = "failed" <=> run[j].ret \in {"undo", "remove"})
  /\ Giving(j) => Code(j) # "none"
  /\ Code(j) # "none" => Giving(j) \/ Pc(j) \in {"tidy", "done", "dead"}
  /\ Code(j) = "cancelled" => Cancelled(j) /\ Pc(j) \in {"failed", "tidy", "done", "dead"}
  /\ \A p : <<j, p>> \in orphan => j \in hit

\* No deployment has a status before its job begins.
LEMMA PathInit == Init => \A j \in Jobs : Path(j)
<1> SUFFICES ASSUME Init, NEW j \in Jobs PROVE Path(j)
  OBVIOUS
<1>1. Pc(j) = "waiting" /\ Code(j) = "none" /\ StatusOf(j) = "absent" /\ orphan = {}
  BY RunAssumption DEF Init, Pc, Code, StatusOf
<1> QED
  BY <1>1 DEF Path, Giving

\* Every step keeps exception, status and place of a job in agreement: failed() runs
\* after an exception only, and nothing is in between a failed status and its clean-up.
LEMMA PathKept ==
  ASSUME Typed, OneJobEach, [Next]_vars, NEW j \in Jobs, Path(j)
  PROVE  Path(j)'
<1>0. Code(j) \in {"none", "error", "cancelled"} /\ run[j].goal \in {"finished", "failed"}
      /\ run[j].ret \in {"undo", "post", "tidy", "remove"}
  BY Refers DEF Typed, JobState, Code
<1>1. ASSUME NEW i \in Jobs, Work(i) PROVE Path(j)'
  <2>0. UNCHANGED <<orphan, hit>>
    BY <1>1, WorkFrame
  <2>1. CASE i # j
    BY <1>1, <2>0, <2>1, WorkOthers
       DEF Path, Giving, Pc, Code, StatusOf, Cancelled
  <2>2. CASE i = j
    <3>1. Route(j)
      BY <1>1, <2>2, WorkRoute
    <3>2. CASE Forward(Pc(j), Pc(j)') /\ Same(j)
               /\ (StatusOf(j)' = StatusOf(j) \/ (Pc(j) = "begin" /\ StatusOf(j)' = "in_progress"))
      BY <2>0, <3>2
         DEF Path, Giving, Over, Forward, Same, Strict, Graceful, Cancelled,
             StatusOf
    <3>3. CASE GivesUp(j)
      BY <2>0, <3>3 DEF Path, Giving, Over, GivesUp, Cancelled, StatusOf
    <3>4. CASE Transits(j)
      BY <2>0, <3>4 DEF Path, Giving, Over, Transits, Cancelled, StatusOf
    <3>5. CASE Writes(j)
      BY <1>0, <2>0, <3>5
         DEF Path, Giving, Over, Writes, Same, Cancelled, StatusOf
    <3>6. CASE /\ Pc(j) = "failed" /\ Cancelled(j)
               /\ Pc(j)' \in {"tidy", "done"} /\ Same(j) /\ StatusOf(j)' = StatusOf(j)
      BY <2>0, <3>6 DEF Path, Giving, Over, Same, Cancelled, StatusOf
    <3> QED
      BY <3>1, <3>2, <3>3, <3>4, <3>5, <3>6 DEF Route
  <2> QED BY <2>1, <2>2
<1>2. CASE Operate
  BY <1>2, OperateRoute DEF Path, Giving, Pc, Code, StatusOf, Cancelled
<1>3. CASE Disturb
  <2>1. PICK i \in Jobs :
          Timeout(i) \/ KillWorker(i) \/ LateEffect(i) \/ CommandLost(i) \/ SideEffectThrows(i)
    BY <1>3 DEF Disturb
  <2>2. /\ hit \subseteq hit'
        /\ \A p : <<j, p>> \in orphan' => <<j, p>> \in orphan \/ j \in hit'
    BY <2>1, DisturbRoute
  <2>3. \A p : <<j, p>> \in orphan' => j \in hit'
    BY <2>2 DEF Path
  <2>4. CASE run'[j] = run[j] /\ StatusOf(j)' = StatusOf(j)
    BY <2>3, <2>4 DEF Path, Giving, Pc, Code, StatusOf, Cancelled
  <2>5. CASE Interrupted(j)
    BY <1>0, <2>3, <2>5
       DEF Interrupted, Path, Giving, Over, Forward, Same, Strict, Graceful,
           Cancelled, StatusOf
  <2> QED BY <2>1, <2>4, <2>5, DisturbRoute
<1>4. CASE UNCHANGED vars
  BY <1>4 DEF vars, Path, Giving, Pc, Code, StatusOf, Cancelled
<1> QED
  BY <1>1, <1>2, <1>3, <1>4 DEF Next

\* The container of a production version that is named after its job.
Own(j)   == <<0, j>>
Named(j) == Strategy \in {"rolling", "ports"} /\ Pr(j) = 0

\* A container comes to run version j by a start of j alone; the clean-up of a
\* failed version removes it, unless the deployment was cancelled meanwhile.
LEMMA WorkContainers ==
  ASSUME Typed, NEW i \in Jobs, NEW j \in Jobs, Work(i), Named(j),
         containers'[Own(j)] = j
  PROVE  /\ (i = j /\ Pc(j) = "start") \/ containers[Own(j)] = j
         /\ i = j /\ Pc(j) = "undo" /\ ~Cancelled(j) => Pc(j)' = "undo"
         /\ i = j /\ Pc(j) = "remove" /\ ~Cancelled(j) /\ Code(j) # "cancelled"
              => Pc(j)' = "remove"
<1>0. /\ TypeOK /\ run[j] \in JobState
      /\ Own(j) \in Names /\ ContainerName(j) = Own(j)
  BY Refers DEF Typed, Named, ContainerName, Own
<1>1. (i = j /\ Pc(j) = "start") \/ containers[Own(j)] = j
  <2>1. CASE StartByComposeFile(i)
    BY <1>0, <2>1 DEF StartByComposeFile, Issued, Pc, TypeOK
  <2>2. CASE StopOld(i) \/ UndoNew(i) \/ RemoveNew(i)
    <3>1. Gone # j
      BY RunAssumption
    <3>2. \E n : containers' = [containers EXCEPT ![n] = Gone]
      BY <2>2 DEF StopOld, UndoNew, RemoveNew
    <3> QED BY <1>0, <3>1, <3>2 DEF TypeOK
  <2>3. CASE UNCHANGED containers
    BY <2>3
  <2>4. \/ StartByComposeFile(i) \/ StopOld(i) \/ UndoNew(i) \/ RemoveNew(i)
        \/ UNCHANGED containers
    BY DEF Work, Reserve, Begin, Check, PrepareBuilderImage, ShutDownBuilder,
       RunBuilder, Build, RollingUpdate, HealthCheckDisabled, InspectHealth,
       QueryLogs, ListRunning, Stopped, Unhealthy, Complete, FailDeployment,
       Transition, WriteStatus, PostDeployment, LeaveNew, ReserveExpired
  <2> QED BY <2>1, <2>2, <2>3, <2>4
<1>2. ASSUME i = j, Pc(j) \in {"undo", "remove"}, ~Cancelled(j),
             Pc(j) = "remove" => Code(j) # "cancelled"
      PROVE  Pc(j)' = Pc(j)
  <2>1. Check(j) \/ UndoNew(j) \/ RemoveNew(j) \/ LeaveNew(j)
    BY <1>2
       DEF Work, Reserve, Begin, PrepareBuilderImage, ShutDownBuilder,
           RunBuilder, Build, RollingUpdate, StartByComposeFile,
           HealthCheckDisabled, InspectHealth, QueryLogs, ListRunning, StopOld,
           Stopped, Unhealthy, Complete, FailDeployment, WriteStatus,
           PostDeployment, ReserveExpired, At, Issued, Pc
  <2>2. CASE Check(j)
    <3> DEFINE me == [run[j] EXCEPT !.armed = TRUE]
    <3>1. me.pc = Pc(j)
      BY <1>0 DEF JobState, Pc
    <3>2. Become(j, me)
      BY <1>2, <2>2 DEF Check
    <3> HIDE DEF me
    <3> QED BY <1>0, <3>1, <3>2, Becomes DEF Pc
  <2>3. CASE UndoNew(j) \/ RemoveNew(j)
    <3>1. containers'[Own(j)] = Gone
      BY <1>0, <2>3 DEF UndoNew, RemoveNew, TypeOK
    <3> QED BY <3>1, RunAssumption
  <2>4. CASE LeaveNew(j)
    BY <1>2, <2>4 DEF LeaveNew, At, Removes, Named, Pc, Code
  <2> QED BY <2>1, <2>2, <2>3, <2>4
<1> QED
  BY <1>1, <1>2

\* The failed version of a job that nothing took away still runs only where its
\* removal is still to come.
Back(j) ==
  Named(j) /\ j \notin hit /\ StatusOf(j) = "failed" /\ containers[Own(j)] = j
    => Pc(j) \in {"undo", "failed", "remove"}

\* Nothing has failed at first.
LEMMA BackInit == Init => \A j \in Jobs : Back(j)
  BY RunAssumption DEF Init, Back, StatusOf

\* A failed version is there only until undo or failed() has removed it.
LEMMA BackKept ==
  ASSUME Typed, OneJobEach, [Next]_vars, NEW j \in Jobs, Path(j), Back(j)
  PROVE  Back(j)'
<1> SUFFICES ASSUME Named(j)', j \notin hit', StatusOf(j)' = "failed",
                    containers'[Own(j)] = j
             PROVE  Pc(j)' \in {"undo", "failed", "remove"}
  BY DEF Back, Own
<1>0. setup' = setup => Named(j)
  BY DEF Named, Strategy, Pr
<1>1. ASSUME NEW i \in Jobs, Work(i) PROVE Pc(j)' \in {"undo", "failed", "remove"}
  <2>1. Named(j) /\ j \notin hit
    BY <1>0, <1>1, WorkFrame
  <2>2. CASE i # j
    BY <1>1, <2>1, <2>2, WorkOthers, WorkContainers DEF Back, Pc
  <2>3. CASE i = j
    <3>1. Route(j)
      BY <1>1, <2>3, WorkRoute
    <3>2. CASE StatusOf(j) = "failed"
      <4>1. Pc(j) \in Over /\ ~Cancelled(j)
        BY <3>2 DEF Path, Cancelled, StatusOf
      <4>2. Pc(j) \in {"undo", "failed", "remove"}
        BY <1>1, <2>1, <2>3, <3>2, <4>1, WorkContainers DEF Back, Over
      <4>3. Pc(j) = "remove" => Code(j) # "cancelled"
        BY DEF Path
      <4>4. Pc(j) \in {"undo", "remove"} => Pc(j)' = Pc(j)
        BY <1>1, <2>1, <2>3, <4>1, <4>3, WorkContainers
      <4>5. Pc(j) = "failed" => Pc(j)' = "remove"
        BY <3>1, <3>2, <4>1
           DEF Route, Forward, Strict, Graceful, GivesUp, Transits, Writes
      <4> QED BY <4>2, <4>4, <4>5
    <3>3. CASE StatusOf(j) # "failed"
      <4>1. Writes(j)
        BY <3>1, <3>3 DEF Route, GivesUp, Transits
      <4> QED BY <3>3, <4>1 DEF Writes, Path
    <3> QED BY <3>2, <3>3
  <2> QED BY <2>2, <2>3
<1>2. CASE Operate
  BY <1>0, <1>2, OperateRoute DEF Back, Pc
<1>3. CASE Disturb
  <2>1. PICK i \in Jobs :
          Timeout(i) \/ KillWorker(i) \/ LateEffect(i) \/ CommandLost(i) \/ SideEffectThrows(i)
    BY <1>3 DEF Disturb
  <2>2. setup' = setup /\ j \notin hit
    BY <2>1, DisturbRoute
  <2>3. containers[Own(j)] = j
    <3>1. CASE LateEffect(i)
      <4>1. <<j, "start">> \notin orphan
        BY <2>2 DEF Path
      <4>2. \/ containers' = containers
            \/ i # j /\ containers' = [containers EXCEPT ![ContainerName(i)] = i]
        BY <3>1, <4>1 DEF LateEffect
      <4>3. Own(j) \in Names
        BY DEF Own, Names, PullRequests
      <4> QED BY <4>2, <4>3 DEF Typed, TypeOK
    <3>2. CASE ~LateEffect(i)
      BY <2>1, <3>2 DEF Timeout, KillWorker, CommandLost, SideEffectThrows
    <3> QED BY <3>1, <3>2
  <2>4. CASE run'[j] = run[j] /\ StatusOf(j)' = StatusOf(j)
    BY <1>0, <2>2, <2>3, <2>4 DEF Back, Pc
  <2>5. CASE Interrupted(j)
    BY <2>5 DEF Interrupted
  <2> QED BY <2>1, <2>4, <2>5, DisturbRoute
<1>4. CASE UNCHANGED vars
  BY <1>0, <1>4 DEF vars, Back, Pc, StatusOf
<1> QED
  BY <1>1, <1>2, <1>3, <1>4 DEF Next

\* A deployment that fails is rolled back, whatever else happens: by the time
\* its job is over its version has been removed, if no fault hit that job.  The
\* deployments have one job each; the other jobs and the operators do what they
\* like, and faults hit them.
THEOREM FailedRolledBack ==
  ASSUME OneJobEach
  PROVE  Spec => []RolledBack
<1> DEFINE IInv == Typed /\ \A j \in Jobs : Path(j) /\ Back(j)
<1>1. Init => IInv
  BY InitTyped, PathInit, BackInit
<1>2. IInv /\ [Next]_vars => IInv'
  <2> SUFFICES ASSUME IInv, [Next]_vars PROVE IInv'
    OBVIOUS
  <2>1. Typed'
    BY StepTyped
  <2>2. \A j \in Jobs : Path(j)' /\ Back(j)'
    BY PathKept, BackKept
  <2> QED BY <2>1, <2>2
<1>3. IInv => RolledBack
  <2> SUFFICES ASSUME IInv, NEW j \in Jobs,
                      Strategy \in {"rolling", "ports"}, Pr(j) = 0, j \notin hit,
                      run[j].pc = "done", status[DeploymentOf[j]] = "failed"
               PROVE  containers[ContainerName(j)] # j
    BY DEF RolledBack
  <2> QED BY DEF Back, Named, Own, ContainerName, Pc, StatusOf
<1> QED
  BY <1>1, <1>2, <1>3, PTL DEF Spec

-----------------------------------------------------------------------------
(* An application that stays available *)

\* The names a job finds to be stopped.
ToStop(j) == IF StopsByName(j) THEN {ContainerName(j)}
             ELSE IF Pr(j) = 0 THEN Listed(0) \ {ContainerName(j)} ELSE Listed(Pr(j))

\* What a step of job j does to its own verdict on its version, and to the list
\* of what it stops; and the ways a rolling update does not take.
Rollout(j) ==
  /\ \/ run'[j].healthy = run[j].healthy
     \/ Pc(j) = "health" /\ Pc(j)' = "list" /\ run'[j].healthy
  /\ Pc(j) = "health" /\ Pc(j)' = "list" => run'[j].healthy
  /\ \/ run'[j].stop \subseteq run[j].stop
     \/ Pc(j) = "list" /\ run'[j].stop = ToStop(j)
  /\ IsRolling(j) /\ Pc(j) \in {"build", "rolling"} => Pc(j)' # "list"
  /\ IsRolling(j) /\ Pc(j) = "stop" => Pc(j)' # "start"

\* The verdict and the list in the states the model writes.
LEMMA FieldsStill ==
  ASSUME NEW j \in Jobs, run[j] \in JobState
  PROVE  /\ \A p : Then(j, p).healthy = run[j].healthy /\ Then(j, p).stop = run[j].stop
         /\ \A c : Thrown(j, c).healthy = run[j].healthy /\ Thrown(j, c).stop = run[j].stop
         /\ CommandFailed(j).healthy = run[j].healthy /\ CommandFailed(j).stop = run[j].stop
         /\ Finally(j).healthy = run[j].healthy /\ Finally(j).stop = run[j].stop
         /\ Settled(j).healthy = run[j].healthy /\ Settled(j).stop = run[j].stop
<1>1. ASSUME NEW p
      PROVE  Then(j, p).healthy = run[j].healthy /\ Then(j, p).stop = run[j].stop
  BY DEF Then, JobState
<1>2. ASSUME NEW c
      PROVE  Thrown(j, c).healthy = run[j].healthy /\ Thrown(j, c).stop = run[j].stop
  BY DEF Thrown, Then, JobState
<1>3. Finally(j).healthy = run[j].healthy /\ Finally(j).stop = run[j].stop
  BY DEF Finally, Then, JobState
<1> QED
  BY <1>1, <1>2, <1>3 DEF CommandFailed, Settled

\* Every step of a job treats its verdict and its list so.
LEMMA WorkRollout ==
  ASSUME Typed, NEW j \in Jobs, Work(j)
  PROVE  Rollout(j)
<1>0. TypeOK /\ run[j] \in JobState
  BY Refers DEF Typed
<1> DEFINE Goes(me) == me.healthy = run[j].healthy /\ me.stop = run[j].stop
           Still == run'[j].healthy = run[j].healthy /\ run'[j].stop = run[j].stop
<1>a. ASSUME NEW me, Become(j, me) PROVE run'[j] = me /\ Pc(j)' = me.pc
  BY <1>0, <1>a, Becomes DEF Pc
<1>b. ASSUME \/ \E p : Become(j, Then(j, p))
             \/ \E c : Become(j, Thrown(j, c))
             \/ Become(j, CommandFailed(j))
             \/ Become(j, Finally(j)) \/ Become(j, Settled(j))
             \/ \E me : Become(j, me) /\ Goes(me)
      PROVE  Still
  BY <1>0, <1>a, <1>b, FieldsStill
<1>c. ASSUME NEW p, Become(j, Then(j, p)) PROVE Pc(j)' = p
  BY <1>0, <1>a, <1>c, Fields
<1>d. ASSUME Become(j, CommandFailed(j)) PROVE Pc(j)' = "failed"
  BY <1>0, <1>a, <1>d, Fields
<1>e. ASSUME Pc(j) \notin {"health", "build", "rolling", "stop"}, Still PROVE Rollout(j)
  BY <1>e DEF Rollout
<1> HIDE DEF Goes, Still
<1>1. CASE Reserve(j)
  <2> DEFINE me == [Then(j, "begin") EXCEPT !.copy = StatusOf(j)]
  <2>1. Goes(me)
    BY <1>0 DEF Then, JobState, Goes
  <2>2. Become(j, Then(j, "done")) \/ Become(j, me)
    BY <1>1 DEF Reserve, StatusOf
  <2> HIDE DEF me
  <2>3. Pc(j) = "waiting"
    BY <1>1 DEF Reserve, At, Pc
  <2> QED BY <1>b, <1>e, <2>1, <2>2, <2>3
<1>2. CASE Begin(j)
  <2> DEFINE me == [Then(j, "prepare") EXCEPT !.tidy = TRUE]
  <2>1. Goes(me)
    BY <1>0 DEF Then, JobState, Goes
  <2>2. Become(j, me) \/ Become(j, Thrown(j, "error"))
    BY <1>2 DEF Begin
  <2> HIDE DEF me
  <2>3. Pc(j) = "begin"
    BY <1>2 DEF Begin, At, Pc
  <2> QED BY <1>b, <1>e, <2>1, <2>2, <2>3
<1>3. CASE Check(j)
  <2> DEFINE armed == [run[j] EXCEPT !.armed = TRUE]
             me(n) == [run[j] EXCEPT !.stop = @ \ {n}]
  <2>1. /\ armed.pc = Pc(j) /\ Goes(armed)
        /\ \A n : /\ me(n).pc = Pc(j) /\ me(n).healthy = run[j].healthy
                  /\ me(n).stop \subseteq run[j].stop
    BY <1>0 DEF JobState, Pc, Goes
  <2>2. \/ Become(j, armed)
        \/ Pc(j) = "stop" /\ \E n : Become(j, me(n))
        \/ Pc(j) \in Graceful \ {"stop"} /\ Become(j, AfterGraceful(j))
        \/ Pc(j) = "remove" /\ Become(j, Settled(j))
        \/ Pc(j) \in Strict \ {"remove"} /\ Become(j, Thrown(j, "cancelled"))
    <3>1. CASE run[j].pc = "stop"
      BY <1>3, <3>1 DEF Check, Pc
    <3>2. CASE run[j].pc \in Graceful \ {"stop"}
      BY <1>3, <3>2 DEF Check, Pc
    <3>3. CASE run[j].pc = "remove"
      BY <1>3, <3>3 DEF Check, Pc, Graceful
    <3>4. CASE run[j].pc \in Strict \ {"remove"}
      BY <1>3, <3>4 DEF Check, Pc, Graceful, Strict
    <3> QED BY <1>3, <3>1, <3>2, <3>3, <3>4 DEF Check
  <2> HIDE DEF armed, me
  <2>3. CASE Become(j, armed)
    <3>1. Still /\ Pc(j)' = Pc(j)
      BY <1>a, <1>b, <2>1, <2>3
    <3> QED BY <3>1 DEF Rollout, Still
  <2>4. CASE Pc(j) = "stop" /\ \E n : Become(j, me(n))
    <3>1. Pc(j)' = "stop" /\ run'[j].healthy = run[j].healthy /\ run'[j].stop \subseteq run[j].stop
      BY <1>a, <2>1, <2>4
    <3> QED BY <2>4, <3>1 DEF Rollout
  <2>5. CASE Pc(j) \in Graceful \ {"stop"} /\ Become(j, AfterGraceful(j))
    <3>1. Still
      BY <1>b, <2>5 DEF AfterGraceful
    <3> QED BY <1>e, <2>5, <3>1 DEF Graceful
  <2>6. CASE Pc(j) = "remove" /\ Become(j, Settled(j))
    BY <1>b, <1>e, <2>6
  <2>7. CASE Pc(j) \in Strict \ {"remove"} /\ Become(j, Thrown(j, "cancelled"))
    <3>1. Still /\ Pc(j)' = "failed"
      BY <1>0, <1>a, <1>b, <2>7, Fields
    <3> QED BY <3>1 DEF Rollout, Still
  <2> QED BY <2>2, <2>3, <2>4, <2>5, <2>6, <2>7
<1>4. CASE PrepareBuilderImage(j)
  <2> DEFINE here == [run[j] EXCEPT !.server = IF MovesFirst(j) THEN "build" ELSE @]
             on == [here EXCEPT !.pc = "unbuild"]
             off(c) == [here EXCEPT !.pc = "failed", !.code = c]
  <2>1. here \in JobState /\ Goes(here)
    BY <1>0 DEF JobState, Hosts, Goes
  <2> HIDE DEF here
  <2>2. Goes(on) /\ \A c : Goes(off(c))
    BY <2>1 DEF JobState, Goes
  <2>3. Become(j, on) \/ \E c : Become(j, off(c))
    BY <1>4 DEF PrepareBuilderImage, here
  <2> HIDE DEF on, off
  <2>4. Pc(j) = "prepare"
    BY <1>4 DEF PrepareBuilderImage, At, Pc
  <2> QED BY <1>b, <1>e, <2>2, <2>3, <2>4
<1>5. CASE ShutDownBuilder(j) \/ UndoNew(j)
  <2>1. Become(j, AfterGraceful(j)) /\ Pc(j) \in Graceful \ {"stop"}
    BY <1>5 DEF ShutDownBuilder, UndoNew, Issued, Pc, Graceful
  <2>2. Still
    BY <1>b, <2>1 DEF AfterGraceful
  <2> QED BY <1>e, <2>1, <2>2 DEF Graceful
<1>6. CASE RunBuilder(j)
  <2> DEFINE on == [Then(j, "build") EXCEPT !.builders = @ + 1]
             off == [CommandFailed(j) EXCEPT !.builders = @ + 1]
  <2>1. Goes(on)
    BY <1>0 DEF Then, JobState, Goes
  <2>2. Goes(off)
    BY <1>0 DEF CommandFailed, Thrown, Then, JobState, Goes
  <2>3. Become(j, on) \/ Become(j, off) \/ Become(j, CommandFailed(j))
    BY <1>6 DEF RunBuilder
  <2> HIDE DEF on, off
  <2>4. Pc(j) = "run_builder"
    BY <1>6 DEF RunBuilder, Issued, Pc
  <2> QED BY <1>b, <1>e, <2>1, <2>2, <2>3, <2>4
<1>7. CASE Build(j)
  <2> DEFINE me == [Then(j, "prepare") EXCEPT !.mode = "nested"]
             built(p) == [Then(j, p) EXCEPT !.server = BuildHost(j)]
  <2>1. Goes(me) /\ me.pc = "prepare" /\ \A p : Goes(built(p)) /\ built(p).pc = p
    BY <1>0 DEF Then, JobState, Goes
  <2>2. \/ ~IsRolling(j) /\ Become(j, built("list"))
        \/ Become(j, built("rolling")) \/ Become(j, Then(j, "rebuild"))
        \/ Become(j, me) \/ Become(j, CommandFailed(j))
    BY <1>7 DEF Build, IsRolling
  <2> HIDE DEF me, built
  <2>3. Pc(j) = "build"
    BY <1>7 DEF Build, Issued, Pc
  <2>4. Still
    BY <1>b, <2>1, <2>2
  <2>5. IsRolling(j) => Pc(j)' # "list"
    BY <1>a, <1>c, <1>d, <2>1, <2>2
  <2> QED BY <2>3, <2>4, <2>5 DEF Rollout, Still
<1>8. CASE RollingUpdate(j)
  <2> DEFINE me(p) == [Then(j, p) EXCEPT !.server = "main"]
  <2>1. \A p : Goes(me(p)) /\ me(p).pc = p
    BY <1>0 DEF Then, JobState, Goes
  <2>2. \/ IsRolling(j) /\ Become(j, me("start"))
        \/ ~IsRolling(j) /\ Become(j, me("list"))
        \/ Become(j, Thrown(j, "cancelled"))
    BY <1>8 DEF RollingUpdate
  <2> HIDE DEF me
  <2>3. Pc(j) = "rolling"
    BY <1>8 DEF RollingUpdate, At, Pc
  <2>4. Still
    BY <1>b, <2>1, <2>2
  <2>5. IsRolling(j) => Pc(j)' # "list"
    BY <1>0, <1>a, <2>1, <2>2, Fields
  <2> QED BY <2>3, <2>4, <2>5 DEF Rollout, Still
<1>9. CASE StartByComposeFile(j)
  <2>1. (\E p : Become(j, Then(j, p))) \/ Become(j, CommandFailed(j))
    BY <1>9 DEF StartByComposeFile
  <2>2. Pc(j) = "start"
    BY <1>9 DEF StartByComposeFile, Issued, Pc
  <2> QED BY <1>b, <1>e, <2>1, <2>2
<1>10. CASE HealthCheckDisabled(j) \/ InspectHealth(j)
  <2> DEFINE well == [Then(j, "list") EXCEPT !.healthy = TRUE]
             again(p, n) == [Then(j, p) EXCEPT !.tries = n]
  <2>1. /\ well.pc = "list" /\ well.healthy /\ well.stop = run[j].stop
        /\ \A p, n : Goes(again(p, n)) /\ again(p, n).pc = p
    BY <1>0 DEF Then, JobState, Goes
  <2>2. \/ Become(j, well) \/ Become(j, Then(j, "logs"))
        \/ \E p \in {"health", "logs"} : \E n : Become(j, again(p, n))
        \/ Become(j, CommandFailed(j))
    BY <1>10 DEF HealthCheckDisabled, InspectHealth
  <2> HIDE DEF well, again
  <2>3. Pc(j) = "health"
    BY <1>10 DEF HealthCheckDisabled, InspectHealth, At, Issued, Pc
  <2>4. \/ run'[j].healthy /\ run'[j].stop = run[j].stop /\ Pc(j)' = "list"
        \/ Still /\ Pc(j)' # "list"
    BY <1>a, <1>b, <1>c, <1>d, <2>1, <2>2
  <2> QED BY <2>3, <2>4 DEF Rollout, Still
<1>11. CASE QueryLogs(j)
  BY <1>11, <1>b, <1>e DEF QueryLogs, Issued, Pc
<1>12. CASE Stopped(j)
  <2>1. \E p : Become(j, Then(j, p)) /\ (IsRolling(j) => p # "start")
    BY <1>12 DEF Stopped
  <2>2. Pc(j) = "stop"
    BY <1>12 DEF Stopped, At, Pc
  <2> QED BY <1>b, <1>c, <2>1, <2>2 DEF Rollout, Still
<1>13. CASE ListRunning(j)
  <2> DEFINE me == [Then(j, "stop") EXCEPT !.stop = ToStop(j)]
  <2>1. me.healthy = run[j].healthy /\ me.stop = ToStop(j)
    BY <1>0 DEF Then, JobState
  <2>2. Become(j, me) \/ Become(j, Thrown(j, "error"))
    BY <1>13 DEF ListRunning, ToStop
  <2> HIDE DEF me
  <2>3. Pc(j) = "list"
    BY <1>13 DEF ListRunning, At, Pc
  <2>4. \/ run'[j].healthy = run[j].healthy /\ run'[j].stop = ToStop(j)
        \/ Still
    BY <1>a, <1>b, <2>1, <2>2
  <2> QED BY <2>3, <2>4 DEF Rollout, Still
<1>14. CASE StopOld(j)
  <2> DEFINE me(n) == [Then(j, "stop") EXCEPT !.stop = @ \ {n}]
  <2>1. \A n : /\ me(n).pc = "stop" /\ me(n).healthy = run[j].healthy
               /\ me(n).stop \subseteq run[j].stop
    BY <1>0 DEF Then, JobState
  <2>2. \E n : Become(j, me(n))
    BY <1>14 DEF StopOld
  <2> HIDE DEF me
  <2>3. Pc(j)' = "stop" /\ run'[j].healthy = run[j].healthy /\ run'[j].stop \subseteq run[j].stop
    BY <1>a, <2>1, <2>2
  <2>4. Pc(j) = "stop"
    BY <1>14 DEF StopOld, Issued, Pc
  <2> QED BY <2>3, <2>4 DEF Rollout
<1>15. CASE Unhealthy(j) \/ Complete(j) \/ FailDeployment(j)
  <2>1. PICK g, r : Transition(j, [run[j] EXCEPT !.goal = g, !.ret = r])
    BY <1>15 DEF Unhealthy, Complete, FailDeployment
  <2> DEFINE me == [run[j] EXCEPT !.goal = g, !.ret = r]
  <2>2. Goes(me)
    BY <1>0 DEF JobState, Goes
  <2>3. Transition(j, me)
    BY <2>1
  <2>4. /\ \A h : Goes([me EXCEPT !.pc = me.ret, !.server = h])
        /\ \A s : Goes([me EXCEPT !.pc = "write", !.copy = s])
    BY <1>0 DEF JobState, Goes
  <2> HIDE DEF me
  <2>5. \/ \E h : Become(j, [me EXCEPT !.pc = me.ret, !.server = h])
        \/ \E s : Become(j, [me EXCEPT !.pc = "write", !.copy = s])
        \/ Become(j, Settled(j)) \/ Become(j, Thrown(j, "cancelled"))
    BY <2>3 DEF Transition
  <2>6. Pc(j) \in {"unhealthy", "complete", "failed"}
    BY <1>15 DEF Unhealthy, Complete, FailDeployment, At, Pc
  <2> QED BY <1>b, <1>e, <2>4, <2>5, <2>6
<1>16. CASE WriteStatus(j)
  <2>1. Pc(j) = "write" /\ Become(j, Continued(j))
    BY <1>16 DEF WriteStatus, At, Pc
  <2>2. Goes(Continued(j))
    BY <1>0 DEF Continued, Then, JobState, Goes
  <2> QED BY <1>b, <1>e, <2>1, <2>2
<1>17. CASE PostDeployment(j)
  <2> DEFINE me == [Then(j, "complete") EXCEPT !.mode = "restart"]
  <2>1. Goes(me)
    BY <1>0 DEF Then, JobState, Goes
  <2>2. Become(j, me) \/ Become(j, Finally(j)) \/ Become(j, Thrown(j, "error"))
    BY <1>17 DEF PostDeployment
  <2> HIDE DEF me
  <2>3. Pc(j) = "post"
    BY <1>17 DEF PostDeployment, At, Pc
  <2> QED BY <1>b, <1>e, <2>1, <2>2, <2>3
<1>18. CASE RemoveNew(j) \/ LeaveNew(j)
  BY <1>18, <1>b, <1>e DEF RemoveNew, LeaveNew, At, Issued, Pc
<1>19. CASE ReserveExpired(j)
  BY <1>19, <1>b, <1>e DEF ReserveExpired, At, Pc
<1> QED
  BY <1>1, <1>2, <1>3, <1>4, <1>5, <1>6, <1>7, <1>8, <1>9, <1>10, <1>11, <1>12,
     <1>13, <1>14, <1>15, <1>16, <1>17, <1>18, <1>19 DEF Work

\* A fault leaves the verdict of a job on its version, adds nothing to what it
\* stops, and lets it go on only where a lost command does not matter.
LEMMA DisturbRollout ==
  ASSUME Typed, NEW i \in Jobs, NEW j \in Jobs,
         Timeout(i) \/ KillWorker(i) \/ LateEffect(i) \/ CommandLost(i) \/ SideEffectThrows(i)
  PROVE  \/ run'[j] = run[j]
         \/ /\ run'[j].healthy = run[j].healthy /\ run'[j].stop \subseteq run[j].stop
            /\ \/ Pc(j)' \in {"failed", "dead", "tidy", "done"}
               \/ Pc(j) = "stop"    /\ Pc(j)' = "stop"
               \/ Pc(j) = "unbuild" /\ Pc(j)' = "run_builder"
               \/ Pc(j) = "rebuild" /\ Pc(j)' = "prepare"
               \/ Pc(j) = "undo"    /\ Pc(j)' = "complete"
<1>0. TypeOK /\ run[j] \in JobState
  BY Refers DEF Typed
<1>1. CASE i # j
  <2>1. ASSUME NEW me, Become(i, me) PROVE run'[j] = run[j]
    BY <1>0, <1>1, <2>1 DEF Become, TypeOK
  <2>2. (\E me : Become(i, me)) \/ UNCHANGED run
    BY DEF Timeout, KillWorker, LateEffect, CommandLost, SideEffectThrows
  <2> QED BY <2>1, <2>2
<1>2. CASE i = j /\ LateEffect(i)
  BY <1>2 DEF LateEffect
<1>3. CASE i = j /\ ~LateEffect(i)
  <2> DEFINE late == [Thrown(j, "error") EXCEPT !.tidy = FALSE]
             dead == [Then(j, IF Deleted(j) THEN "done" ELSE "dead") EXCEPT !.tidy = FALSE]
             less(n) == [Then(j, "stop") EXCEPT !.stop = @ \ {n}]
             Goes(me) == me.healthy = run[j].healthy /\ me.stop \subseteq run[j].stop
  <2>1. /\ late.pc = "failed" /\ Goes(late) /\ dead.pc \in {"dead", "done"} /\ Goes(dead)
        /\ \A n : less(n).pc = "stop" /\ Goes(less(n))
    BY <1>0 DEF Thrown, Then, JobState, Goes
  <2>2. \/ Become(j, late) \/ Become(j, dead)
        \/ Become(j, Settled(j)) \/ Become(j, Thrown(j, "error"))
        \/ Pc(j) = "stop" /\ \E n : Become(j, less(n))
        \/ Pc(j) = "unbuild" /\ Become(j, Then(j, "run_builder"))
        \/ Pc(j) = "rebuild" /\ Become(j, Then(j, "prepare"))
        \/ Pc(j) = "undo" /\ Become(j, Then(j, "complete"))
        \/ Pc(j) = "tidy" /\ Become(j, Then(j, "done"))
    <3>1. CASE Timeout(i) \/ KillWorker(i) \/ SideEffectThrows(i)
      BY <1>3, <3>1 DEF Timeout, KillWorker, SideEffectThrows
    <3>2. CASE CommandLost(i) /\ run[j].pc \in {"remove", "stop"}
      BY <1>3, <3>2 DEF CommandLost, Pc
    <3>3. CASE CommandLost(i) /\ run[j].pc \in Graceful \ {"stop"}
      <4>1. Become(j, AfterGraceful(j))
        BY <1>3, <3>3 DEF CommandLost, Graceful
      <4> QED BY <3>3, <4>1 DEF AfterGraceful, Graceful, Pc
    <3> QED BY <1>3, <3>1, <3>2, <3>3 DEF CommandLost
  <2> HIDE DEF late, dead, less
  <2>3. ASSUME NEW me, Become(j, me) PROVE run'[j] = me /\ Pc(j)' = me.pc
    BY <1>0, <2>3, Becomes DEF Pc
  <2>4. run'[j].healthy = run[j].healthy /\ run'[j].stop \subseteq run[j].stop
    BY <1>0, <2>1, <2>2, <2>3, FieldsStill
  <2>5. \/ Pc(j)' \in {"failed", "dead", "tidy", "done"}
        \/ Pc(j) = "stop"    /\ Pc(j)' = "stop"
        \/ Pc(j) = "unbuild" /\ Pc(j)' = "run_builder"
        \/ Pc(j) = "rebuild" /\ Pc(j)' = "prepare"
        \/ Pc(j) = "undo"    /\ Pc(j)' = "complete"
    BY <1>0, <2>1, <2>2, <2>3, Fields
  <2> QED BY <2>4, <2>5
<1> QED BY <1>1, <1>2, <1>3

\* The containers a step of job i reaches.
LEMMA WorkReach ==
  ASSUME Typed, NEW i \in Jobs, Work(i), NEW n \in Names
  PROVE  /\ \/ containers'[n] = containers[n]
            \/ n = ContainerName(i) /\ Pc(i) = "start" /\ containers'[n] = i
            \/ n \in run[i].stop /\ Pc(i) = "stop"
            \/ n = ContainerName(i) /\ Pc(i) \in {"undo", "remove"}
         /\ Pc(i) = "start" /\ Pc(i)' = "health" => containers'[ContainerName(i)] = i
<1>0. TypeOK /\ run[i] \in JobState /\ ContainerName(i) \in Names
  BY Refers DEF Typed
<1>1. CASE StartByComposeFile(i)
  <2>1. Pc(i) = "start"
    BY <1>1 DEF StartByComposeFile, Issued, Pc
  <2>2. \/ containers' = [containers EXCEPT ![ContainerName(i)] = i]
        \/ containers' = containers /\ Become(i, CommandFailed(i))
    BY <1>1 DEF StartByComposeFile
  <2>3. Become(i, CommandFailed(i)) => Pc(i)' = "failed"
    BY <1>0, Becomes, Fields DEF Pc
  <2> QED BY <1>0, <2>1, <2>2, <2>3 DEF TypeOK
<1>2. CASE StopOld(i) \/ UndoNew(i) \/ RemoveNew(i)
  BY <1>0, <1>2 DEF StopOld, UndoNew, RemoveNew, Issued, Pc, TypeOK
<1>3. CASE UNCHANGED containers /\ ~StartByComposeFile(i)
  <2>1. Pc(i) = "start" => Check(i)
    BY <1>3
       DEF Work, Reserve, Begin, PrepareBuilderImage, ShutDownBuilder,
           RunBuilder, Build, RollingUpdate, HealthCheckDisabled, InspectHealth,
           QueryLogs, ListRunning, StopOld, Stopped, UndoNew, Unhealthy,
           Complete, FailDeployment, WriteStatus, PostDeployment, RemoveNew,
           LeaveNew, ReserveExpired, At, Issued, Pc
  <2>2. Pc(i) = "start" => Pc(i)' \in {"start", "failed"}
    <3> SUFFICES ASSUME Pc(i) = "start" PROVE Pc(i)' \in {"start", "failed"}
      OBVIOUS
    <3> DEFINE me == [run[i] EXCEPT !.armed = TRUE]
    <3>1. me.pc = "start"
      BY <1>0 DEF JobState, Pc
    <3>2. Become(i, me) \/ Become(i, Thrown(i, "cancelled"))
      BY <2>1 DEF Check, Pc, Graceful
    <3> HIDE DEF me
    <3> QED BY <1>0, <3>1, <3>2, Becomes, Fields DEF Pc
  <2> QED BY <1>3, <2>2
<1>4. \/ StartByComposeFile(i) \/ StopOld(i) \/ UndoNew(i) \/ RemoveNew(i)
      \/ UNCHANGED containers
  BY DEF Work, Reserve, Begin, Check, PrepareBuilderImage, ShutDownBuilder,
     RunBuilder, Build, RollingUpdate, HealthCheckDisabled, InspectHealth,
     QueryLogs, ListRunning, Stopped, Unhealthy, Complete, FailDeployment,
     Transition, WriteStatus, PostDeployment, LeaveNew, ReserveExpired
<1> QED BY <1>1, <1>2, <1>3, <1>4

\* One production deployment at a time: the queue sees to it.
OnlyProduction ==
  \A s \in Setups : \A i, j \in Jobs :
    s.pull_request_id[DeploymentOf[i]] = 0 /\ s.pull_request_id[DeploymentOf[j]] = 0 => i = j

\* Where the version of a rolling update has not proved healthy.
Unproven == {"waiting", "begin", "prepare", "unbuild", "run_builder", "build", "rebuild",
             "rolling", "start", "health", "logs", "unhealthy", "undo"}

\* A rolling update stops the old version while the new one is healthy and runs,
\* and never its own; a preview stops its own name.
Serves(j) ==
  IsRolling(j) =>
    /\ Pc(j) \in Unproven => ~run[j].healthy
    /\ Pc(j) = "write" /\ run[j].ret = "undo" => ~run[j].healthy
    /\ Pc(j) \in {"list", "stop"} => run[j].healthy
    /\ Pc(j) \in {"health", "list", "stop"} => containers[Own(j)] = j

Stops(j) ==
  Strategy = "rolling" =>
    /\ Pr(j) = 0 => Own(j) \notin run[j].stop
    /\ Pr(j) # 0 => run[j].stop \subseteq {Fixed(Pr(j))}

\* The application is served by the version that ran before, or by one that is
\* healthy, until that one's deployment gives up with an error.
Served ==
  Strategy = "rolling" =>
    \/ containers[Fixed(0)] = Before
    \/ \E j \in Jobs : /\ Pr(j) = 0 /\ run[j].healthy
                       /\ containers[Own(j)] = j \/ Code(j) = "error"

\* In a rolling update versions have names of their own, apart from the fixed ones.
LEMMA NamesApart ==
  ASSUME NEW i \in Jobs, NEW j \in Jobs, Strategy = "rolling"
  PROVE  /\ ContainerName(i) = IF Pr(i) = 0 THEN Own(i) ELSE Fixed(Pr(i))
         /\ Own(i) = Own(j) => i = j
         /\ \A p : Own(i) # Fixed(p)
         /\ Own(i) \in Names /\ Fixed(0) \in Names
<1>1. j # Before /\ i # Before
  BY RunAssumption
<1> QED
  BY <1>1 DEF ContainerName, Own, Fixed, Names, PullRequests

\* Only the job of a version takes it away, when it is unhealthy or has failed.
LEMMA OwnKept ==
  ASSUME Typed, OnlyProduction, NEW i \in Jobs, Work(i), NEW j \in Jobs,
         Stops(i), IsRolling(j), containers[Own(j)] = j
  PROVE  containers'[Own(j)] = j \/ (i = j /\ Pc(j) \in {"undo", "remove"})
<1>1. Strategy = "rolling" /\ Pr(j) = 0
  BY DEF IsRolling
<1>2. Pr(i) = 0 => i = j
  BY <1>1 DEF OnlyProduction, Pr, Typed, TypeOK
<1>3. Own(j) \in Names
  BY <1>1, NamesApart
<1>4. Own(j) \notin run[i].stop
  BY <1>1, <1>2, NamesApart DEF Stops
<1>5. ContainerName(i) = Own(j) => i = j
  BY <1>1, NamesApart
<1> QED
  BY <1>3, <1>4, <1>5, WorkReach

\* The code of an error stays one.
LEMMA WorkCode ==
  ASSUME Typed, OneJobEach, NEW i \in Jobs, Work(i), NEW j \in Jobs,
         Path(j), Code(j) = "error"
  PROVE  Code(j)' = "error"
<1>1. CASE i # j
  BY <1>1, WorkOthers DEF Code
<1>2. CASE i = j
  <2>1. Route(j)
    BY <1>2, WorkRoute
  <2>2. Pc(j) \in {"failed", "remove", "write", "tidy", "done", "dead"}
    BY DEF Path, Giving
  <2> QED BY <2>1, <2>2 DEF Route, Same, GivesUp, Transits, Writes
<1> QED BY <1>1, <1>2

\* A start that comes late puts a version under its own name.
LEMMA LateKept ==
  ASSUME Typed, NEW i \in Jobs, Strategy = "rolling",
         Timeout(i) \/ KillWorker(i) \/ LateEffect(i) \/ CommandLost(i) \/ SideEffectThrows(i)
  PROVE  /\ containers'[Fixed(0)] = containers[Fixed(0)]
         /\ \A j \in Jobs : IsRolling(j) /\ containers[Own(j)] = j => containers'[Own(j)] = j
<1>1. \/ containers' = containers
      \/ containers' = [containers EXCEPT ![ContainerName(i)] = i]
  BY DEF Timeout, KillWorker, LateEffect, CommandLost, SideEffectThrows
<1>2. ContainerName(i) # Fixed(0)
  BY NamesApart DEF Fixed
<1>3. \A j \in Jobs : ContainerName(i) = Own(j) => i = j
  BY NamesApart
<1>4. /\ Fixed(0) \in Names /\ \A j \in Jobs : Own(j) \in Names
  BY NamesApart
<1> QED
  BY <1>1, <1>2, <1>3, <1>4 DEF Typed, TypeOK

\* The lists of what is to be stopped stay what they should be.
LEMMA StopsKept ==
  ASSUME Typed, [Next]_vars, NEW j \in Jobs, Stops(j)
  PROVE  Stops(j)'
<1>1. setup' = setup
  <2>1. (\E i \in Jobs : Work(i)) => setup' = setup
    BY WorkFrame
  <2> QED
    BY <2>1
       DEF Next, vars, Operate, Dispatch, Cancel, KillBuilder, ListActive,
           ListHelpers, RemoveHelper, Disturb, Timeout, KillWorker, LateEffect,
           CommandLost, SideEffectThrows
<1>2. run'[j].stop \subseteq run[j].stop \/ run'[j].stop = ToStop(j)
  <2>1. ASSUME NEW i \in Jobs, Work(i)
        PROVE  run'[j].stop \subseteq run[j].stop \/ run'[j].stop = ToStop(j)
    <3>1. CASE i = j
      BY <2>1, <3>1, WorkRollout DEF Rollout
    <3>2. CASE i # j
      BY <2>1, <3>2, WorkKept DEF JobKept, Typed, TypeOK
    <3> QED BY <3>1, <3>2
  <2>2. Operate => UNCHANGED run
    BY DEF Operate, Dispatch, Cancel, KillBuilder, ListActive, ListHelpers,
       RemoveHelper
  <2>3. ASSUME Disturb PROVE run'[j].stop \subseteq run[j].stop
    BY <2>3, DisturbRollout DEF Disturb
  <2> QED BY <2>1, <2>2, <2>3 DEF Next, vars
<1>3. ASSUME Strategy = "rolling"
      PROVE  /\ Pr(j) = 0 => Own(j) \notin ToStop(j)
             /\ Pr(j) # 0 => ToStop(j) \subseteq {Fixed(Pr(j))}
  BY <1>3, NamesApart DEF ToStop, StopsByName
<1> QED
  BY <1>1, <1>2, <1>3 DEF Stops, Strategy, Pr, Own, Fixed

\* A version proves healthy before the update goes on to stop the old one, and runs
\* until then, since nobody else stops it.
LEMMA ServesKept ==
  ASSUME Typed, OneJobEach, OnlyProduction, [Next]_vars, NEW j \in Jobs,
         Serves(j), \A i \in Jobs : Stops(i)
  PROVE  Serves(j)'
<1> SUFFICES ASSUME IsRolling(j)'
             PROVE  /\ Pc(j)' \in Unproven => ~run'[j].healthy
                    /\ Pc(j)' = "write" /\ run'[j].ret = "undo" => ~run'[j].healthy
                    /\ Pc(j)' \in {"list", "stop"} => run'[j].healthy
                    /\ Pc(j)' \in {"health", "list", "stop"} => containers'[Own(j)] = j
  BY DEF Serves, Own, Unproven
<1>0. setup' = setup => IsRolling(j)
  BY DEF IsRolling, Strategy, Pr
<1> DEFINE Goal == /\ Pc(j)' \in Unproven => ~run'[j].healthy
                   /\ Pc(j)' = "write" /\ run'[j].ret = "undo" => ~run'[j].healthy
                   /\ Pc(j)' \in {"list", "stop"} => run'[j].healthy
                   /\ Pc(j)' \in {"health", "list", "stop"} => containers'[Own(j)] = j
<1>1. ASSUME NEW i \in Jobs, Work(i) PROVE Goal
  <2>1. IsRolling(j)
    BY <1>0, <1>1, WorkFrame
  <2>2. containers[Own(j)] = j /\ ~(i = j /\ Pc(j) \in {"undo", "remove"}) => containers'[Own(j)] = j
    BY <1>1, <2>1, OwnKept
  <2>3. CASE i # j
    <3>1. run'[j] = run[j]
      BY <1>1, <2>3, WorkOthers
    <3> QED BY <2>1, <2>2, <2>3, <3>1 DEF Serves, Pc
  <2>4. CASE i = j
    <3>1. Route(j) /\ Rollout(j)
      BY <1>1, <2>4, WorkRoute, WorkRollout
    <3>2. Pc(j) = "start" /\ Pc(j)' = "health" => containers'[Own(j)] = j
      BY <1>1, <2>1, <2>4, WorkReach, NamesApart DEF IsRolling
    <3>3. CASE Forward(Pc(j), Pc(j)') /\ Same(j)
      BY <2>1, <2>2, <3>1, <3>2, <3>3
         DEF Serves, Rollout, Forward, Same, Unproven, Strict, Graceful
    <3>4. CASE GivesUp(j)
      BY <3>4 DEF GivesUp, Unproven
    <3>5. CASE Transits(j)
      BY <2>1, <3>1, <3>5 DEF Serves, Rollout, Transits, Unproven
    <3>6. CASE Writes(j)
      <4>1. run[j].ret \in {"undo", "post", "tidy", "remove"}
        BY Refers DEF Typed, JobState
      <4> QED BY <2>1, <3>1, <3>6, <4>1 DEF Serves, Rollout, Writes, Unproven
    <3>7. CASE Pc(j) = "failed" /\ Pc(j)' \in {"tidy", "done"}
      BY <3>7 DEF Unproven
    <3> QED BY <3>1, <3>3, <3>4, <3>5, <3>6, <3>7 DEF Route
  <2> QED BY <2>3, <2>4
<1>2. CASE Operate
  BY <1>0, <1>2, OperateRoute DEF Serves, Pc
<1>3. CASE Disturb
  <2>1. PICK i \in Jobs :
          Timeout(i) \/ KillWorker(i) \/ LateEffect(i) \/ CommandLost(i) \/ SideEffectThrows(i)
    BY <1>3 DEF Disturb
  <2>2. IsRolling(j)
    BY <1>0, <2>1, DisturbRoute
  <2>3. containers[Own(j)] = j => containers'[Own(j)] = j
    BY <2>1, <2>2, LateKept DEF IsRolling
  <2>4. CASE run'[j] = run[j]
    BY <2>2, <2>3, <2>4 DEF Serves, Pc
  <2>5. CASE /\ run'[j].healthy = run[j].healthy
             /\ \/ Pc(j)' \in {"failed", "dead", "tidy", "done"}
                \/ Pc(j) = "stop"    /\ Pc(j)' = "stop"
                \/ Pc(j) = "unbuild" /\ Pc(j)' = "run_builder"
                \/ Pc(j) = "rebuild" /\ Pc(j)' = "prepare"
                \/ Pc(j) = "undo"    /\ Pc(j)' = "complete"
    BY <2>2, <2>3, <2>5 DEF Serves, Unproven
  <2> QED BY <2>1, <2>4, <2>5, DisturbRollout
<1>4. CASE UNCHANGED vars
  BY <1>0, <1>4 DEF vars, Serves, Pc
<1> QED
  BY <1>1, <1>2, <1>3, <1>4 DEF Next

\* The old version is stopped by an update whose own is healthy; that one runs on
\* until its deployment gives up.
LEMMA ServedKept ==
  ASSUME Typed, OneJobEach, OnlyProduction, [Next]_vars, Served,
         \A i \in Jobs : Path(i) /\ Serves(i) /\ Stops(i)
  PROVE  Served'
<1> SUFFICES ASSUME Strategy' = "rolling"
             PROVE  \/ containers'[Fixed(0)] = Before
                    \/ \E j \in Jobs : /\ Pr(j)' = 0 /\ run'[j].healthy
                                       /\ containers'[Own(j)] = j \/ Code(j)' = "error"
  BY DEF Served, Own, Fixed
<1>0. setup' = setup => Strategy = "rolling" /\ \A j \in Jobs : Pr(j)' = Pr(j)
  BY DEF Strategy, Pr
<1> DEFINE Goal == \/ containers'[Fixed(0)] = Before
                   \/ \E j \in Jobs : /\ Pr(j)' = 0 /\ run'[j].healthy
                                      /\ containers'[Own(j)] = j \/ Code(j)' = "error"
<1>1. ASSUME NEW i \in Jobs, Work(i) PROVE Goal
  <2>0. Strategy = "rolling" /\ \A j \in Jobs : Pr(j)' = Pr(j)
    BY <1>0, <1>1, WorkFrame
  <2>1. ASSUME NEW j \in Jobs, run[j].healthy PROVE run'[j].healthy
    <3>1. CASE i = j
      BY <1>1, <2>1, <3>1, WorkRollout DEF Rollout
    <3>2. CASE i # j
      BY <1>1, <2>1, <3>2, WorkOthers
    <3> QED BY <3>1, <3>2
  <2>2. CASE containers[Fixed(0)] = Before
    <3>1. CASE containers'[Fixed(0)] = containers[Fixed(0)]
      BY <2>2, <3>1
    <3>2. CASE containers'[Fixed(0)] # containers[Fixed(0)]
      <4>1. ContainerName(i) # Fixed(0)
        BY <2>0, NamesApart DEF Fixed
      <4>2. Fixed(0) \in run[i].stop /\ Pc(i) = "stop"
        BY <1>1, <2>0, <3>2, <4>1, NamesApart, WorkReach
      <4>3. Pr(i) = 0
        BY <2>0, <4>2 DEF Stops, Fixed
      <4>4. run[i].healthy /\ containers[Own(i)] = i
        BY <2>0, <4>2, <4>3 DEF Serves, IsRolling
      <4>5. containers'[Own(i)] = i
        BY <1>1, <2>0, <4>2, <4>3, <4>4, OwnKept DEF IsRolling
      <4> QED BY <2>0, <2>1, <4>3, <4>4, <4>5
    <3> QED BY <3>1, <3>2
  <2>3. ASSUME NEW j \in Jobs, Pr(j) = 0, run[j].healthy,
               containers[Own(j)] = j \/ Code(j) = "error"
        PROVE  Goal
    <3>1. Pr(j)' = 0 /\ run'[j].healthy
      BY <2>0, <2>1, <2>3
    <3>2. CASE Code(j) = "error"
      <4>1. Code(j)' = "error"
        BY <1>1, <3>2, WorkCode
      <4> QED BY <3>1, <4>1
    <3>3. CASE containers[Own(j)] = j
      <4>1. CASE containers'[Own(j)] = j
        BY <3>1, <4>1
      <4>2. CASE i = j /\ Pc(j) \in {"undo", "remove"}
        <5>1. Pc(j) = "remove"
          BY <2>0, <2>3, <4>2 DEF Serves, IsRolling, Unproven
        <5>2. Code(j) = "error"
          BY <5>1, Refers DEF Typed, JobState, Code, Path, Giving
        <5> QED BY <1>1, <3>1, <5>2, WorkCode
      <4> QED BY <1>1, <2>0, <2>3, <3>3, <4>1, <4>2, OwnKept DEF IsRolling
    <3> QED BY <2>3, <3>2, <3>3
  <2> QED BY <2>0, <2>2, <2>3 DEF Served
<1>2. CASE Operate
  <2>1. UNCHANGED <<run, containers, setup>>
    BY <1>2
       DEF Operate, Dispatch, Cancel, KillBuilder, ListActive, ListHelpers,
           RemoveHelper
  <2>2. Strategy = "rolling" /\ (\A j \in Jobs : Pr(j)' = Pr(j) /\ Code(j)' = Code(j))
    BY <1>0, <2>1 DEF Code
  <2> QED BY <2>1, <2>2 DEF Served
<1>3. CASE Disturb
  <2>1. PICK i \in Jobs :
          Timeout(i) \/ KillWorker(i) \/ LateEffect(i) \/ CommandLost(i) \/ SideEffectThrows(i)
    BY <1>3 DEF Disturb
  <2>2. Strategy = "rolling" /\ \A j \in Jobs : Pr(j)' = Pr(j)
    BY <1>0, <2>1, DisturbRoute
  <2>3. containers[Fixed(0)] = Before => containers'[Fixed(0)] = Before
    BY <2>1, <2>2, LateKept
  <2>4. ASSUME NEW j \in Jobs, Pr(j) = 0, run[j].healthy,
               containers[Own(j)] = j \/ Code(j) = "error"
        PROVE  Goal
    <3>1. run'[j].healthy
      BY <2>1, <2>4, DisturbRollout
    <3>2. containers[Own(j)] = j => containers'[Own(j)] = j
      BY <2>1, <2>2, <2>4, LateKept DEF IsRolling
    <3>3. Code(j) = "error" => Code(j)' = "error"
      BY <2>1, DisturbRoute DEF Interrupted, Same, Code
    <3> QED BY <2>2, <2>4, <3>1, <3>2, <3>3
  <2> QED BY <2>2, <2>3, <2>4 DEF Served
<1>4. CASE UNCHANGED vars
  BY <1>0, <1>4 DEF vars, Served, Code
<1> QED
  BY <1>1, <1>2, <1>3, <1>4 DEF Next

\* A rolling update keeps the application served, for every number of retries,
\* previews beside it and faults, as long as it is the only one in production.
THEOREM RollingAvailable ==
  ASSUME OneJobEach, OnlyProduction
  PROVE  Spec => []Available
<1> DEFINE IInv == /\ Typed /\ Served
                   /\ \A j \in Jobs : Path(j) /\ Serves(j) /\ Stops(j)
<1>1. Init => IInv
  <2> SUFFICES ASSUME Init PROVE IInv
    OBVIOUS
  <2>1. Served
    BY DEF Init, Served, Fixed, Names, PullRequests
  <2>2. ASSUME NEW j \in Jobs PROVE Serves(j) /\ Stops(j)
    <3>1. Pc(j) = "waiting" /\ ~run[j].healthy /\ run[j].stop = {}
      BY DEF Init, Pc
    <3> QED BY <3>1 DEF Serves, Stops
  <2> QED BY <2>1, <2>2, InitTyped, PathInit
<1>2. IInv /\ [Next]_vars => IInv'
  <2> SUFFICES ASSUME IInv, [Next]_vars PROVE IInv'
    OBVIOUS
  <2>1. Typed' /\ Served'
    BY StepTyped, ServedKept
  <2>2. \A j \in Jobs : Path(j)' /\ Serves(j)' /\ Stops(j)'
    BY PathKept, ServesKept, StopsKept
  <2> QED BY <2>1, <2>2
<1>3. IInv => Available
  <2> SUFFICES ASSUME IInv, Strategy = "rolling" PROVE Available
    BY DEF Available
  <2>1. CASE containers[Fixed(0)] = Before
    <3>1. Fixed(0) \in Production
      BY DEF Fixed, Production, Names, PullRequests
    <3>2. Serving(Fixed(0))
      BY <2>1, RunAssumption DEF Serving
    <3> QED BY <3>1, <3>2 DEF Available
  <2>2. ASSUME NEW j \in Jobs, Pr(j) = 0, run[j].healthy, containers[Own(j)] = j
        PROVE  Available
    <3>1. Own(j) \in Production
      BY DEF Own, Production, Names, PullRequests
    <3>2. Serving(Own(j))
      BY <2>2, RunAssumption DEF Serving
    <3> QED BY <3>1, <3>2 DEF Available
  <2>3. ASSUME NEW j \in Jobs, Pr(j) = 0, run[j].healthy, Code(j) = "error"
        PROVE  Available
    BY <2>3 DEF Available, FailedLate, Code
  <2> QED BY <2>1, <2>2, <2>3 DEF Served
<1> QED
  BY <1>1, <1>2, <1>3, PTL DEF Spec

-----------------------------------------------------------------------------
(* The builder of a job that is over *)

\* Where commands go in the finally block, and from the beginning of a build.
BuildsOn(j) == IF MovesFirst(j) THEN "build" ELSE run[j].server

\* Where a job works on its builder.
AtBuilder == {"unbuild", "run_builder", "build", "rebuild", "tidy"}

\* What a step of job j does to where its commands go, to whether the finally
\* block will run, and to its mode.
Servers(j) ==
  /\ run'[j].tidy = run[j].tidy \/ (Pc(j) = "begin" /\ Pc(j)' = "prepare")
  /\ Pc(j) = "begin" /\ Pc(j)' = "prepare" => run'[j].tidy
  /\ run'[j].mode = run[j].mode \/ run[j].mode # "deploy"
  /\ run'[j].server \in {run[j].server, "main"} \/ UseBuildServer
  /\ Pc(j)' = "unbuild" /\ Pc(j) # "unbuild" => run'[j].server = BuildsOn(j)
  /\ Pc(j)' = "tidy" /\ Pc(j) # "tidy" => run'[j].server = BuildHost(j)
  /\ Pc(j) \in AtBuilder /\ Pc(j)' \in AtBuilder => run'[j].server = run[j].server
  /\ Pc(j) \in {"failed", "remove"} /\ Pc(j)' = "tidy" => run[j].tidy
  /\ Pc(j) \in {"failed", "remove"} /\ Pc(j)' = "done" => ~run[j].tidy

\* The server, mode and clean-up of the states the model writes.
LEMMA FieldsServers ==
  ASSUME NEW j \in Jobs, run[j] \in JobState
  PROVE  /\ \A p : /\ Then(j, p).tidy = run[j].tidy /\ Then(j, p).mode = run[j].mode
                   /\ Then(j, p).server = run[j].server
         /\ \A c : /\ Thrown(j, c).tidy = run[j].tidy /\ Thrown(j, c).mode = run[j].mode
                   /\ Thrown(j, c).server = run[j].server
         /\ CommandFailed(j).tidy = run[j].tidy /\ CommandFailed(j).mode = run[j].mode
         /\ CommandFailed(j).server = run[j].server
         /\ Finally(j).tidy = run[j].tidy /\ Finally(j).mode = run[j].mode
         /\ Finally(j).server = BuildHost(j)
         /\ Settled(j).tidy = run[j].tidy /\ Settled(j).mode = run[j].mode
         /\ IF run[j].tidy THEN Settled(j).pc = "tidy" /\ Settled(j).server = BuildHost(j)
                           ELSE Settled(j).pc = "done" /\ Settled(j).server = run[j].server
<1>1. ASSUME NEW p
      PROVE  /\ Then(j, p).tidy = run[j].tidy /\ Then(j, p).mode = run[j].mode
             /\ Then(j, p).server = run[j].server
  BY DEF Then, JobState
<1>2. ASSUME NEW c
      PROVE  /\ Thrown(j, c).tidy = run[j].tidy /\ Thrown(j, c).mode = run[j].mode
             /\ Thrown(j, c).server = run[j].server
  BY DEF Thrown, Then, JobState
<1>3. /\ Finally(j).tidy = run[j].tidy /\ Finally(j).mode = run[j].mode
      /\ Finally(j).server = BuildHost(j) /\ Finally(j).pc = "tidy"
  BY DEF Finally, Then, JobState, BuildHost
<1>4. Then(j, "done").pc = "done"
  BY DEF Then, JobState
<1> QED
  BY <1>1, <1>2, <1>3, <1>4 DEF CommandFailed, Settled

\* Every step of a job moves its commands between the servers as the code does.
LEMMA WorkServers ==
  ASSUME Typed, NEW j \in Jobs, Work(j)
  PROVE  Servers(j)
<1>0. TypeOK /\ run[j] \in JobState
  BY Refers DEF Typed
<1> DEFINE Goes(me) == me.tidy = run[j].tidy /\ me.mode = run[j].mode /\ me.server = run[j].server
           Still == /\ run'[j].tidy = run[j].tidy /\ run'[j].mode = run[j].mode
                    /\ run'[j].server = run[j].server
           Leaves == \/ \E p : p \notin {"unbuild", "tidy"} /\ Become(j, Then(j, p))
                     \/ \E c : Become(j, Thrown(j, c))
                     \/ Become(j, CommandFailed(j))
                     \/ \E me : Become(j, me) /\ Goes(me) /\ me.pc \notin {"unbuild", "tidy"}
<1>a. ASSUME NEW me, Become(j, me) PROVE run'[j] = me /\ Pc(j)' = me.pc
  BY <1>0, <1>a, Becomes DEF Pc
<1>b. ASSUME Leaves PROVE Still /\ Pc(j)' \notin {"unbuild", "tidy"}
  BY <1>0, <1>a, <1>b, Fields, FieldsServers
<1>c. ASSUME Leaves, Pc(j) # "begin" \/ Pc(j)' # "prepare",
             Pc(j) \notin {"failed", "remove"} \/ Pc(j)' # "done"
      PROVE  Servers(j)
  BY <1>b, <1>c DEF Servers, Still
<1>d. ASSUME Become(j, Settled(j)), Pc(j) \notin AtBuilder \cup {"begin"} PROVE Servers(j)
  <2>1. run'[j] = Settled(j) /\ Pc(j)' = Settled(j).pc
    BY <1>a, <1>d
  <2> QED BY <1>0, <1>d, <2>1, FieldsServers DEF Servers, BuildHost
<1> HIDE DEF Goes, Still, Leaves
<1>1. CASE Reserve(j)
  <2> DEFINE me == [Then(j, "begin") EXCEPT !.copy = StatusOf(j)]
  <2>1. Goes(me) /\ me.pc = "begin"
    BY <1>0 DEF Then, JobState, Goes
  <2>2. Become(j, Then(j, "done")) \/ Become(j, me)
    BY <1>1 DEF Reserve, StatusOf
  <2> HIDE DEF me
  <2>3. Pc(j) = "waiting"
    BY <1>1 DEF Reserve, At, Pc
  <2> QED BY <1>c, <2>1, <2>2, <2>3 DEF Leaves
<1>2. CASE Begin(j)
  <2> DEFINE me == [Then(j, "prepare") EXCEPT !.tidy = TRUE]
  <2>1. me.tidy /\ me.mode = run[j].mode /\ me.server = run[j].server /\ me.pc = "prepare"
    BY <1>0 DEF Then, JobState
  <2>2. Become(j, me) \/ Become(j, Thrown(j, "error"))
    BY <1>2 DEF Begin
  <2> HIDE DEF me
  <2>3. Pc(j) = "begin"
    BY <1>2 DEF Begin, At, Pc
  <2>4. CASE Become(j, me)
    BY <1>a, <2>1, <2>3, <2>4 DEF Servers, AtBuilder
  <2>5. CASE Become(j, Thrown(j, "error"))
    BY <1>0, <1>a, <1>c, <2>5, Fields DEF Leaves
  <2> QED BY <2>2, <2>4, <2>5
<1>3. CASE Check(j)
  <2> DEFINE armed == [run[j] EXCEPT !.armed = TRUE]
             me(n) == [run[j] EXCEPT !.stop = @ \ {n}]
  <2>1. /\ armed.pc = Pc(j) /\ Goes(armed)
        /\ \A n : me(n).pc = Pc(j) /\ Goes(me(n))
    BY <1>0 DEF JobState, Pc, Goes
  <2>2. \/ Become(j, armed)
        \/ Pc(j) = "stop" /\ \E n : Become(j, me(n))
        \/ Pc(j) \in Graceful \ {"stop"} /\ Become(j, AfterGraceful(j))
        \/ Pc(j) = "remove" /\ Become(j, Settled(j))
        \/ Pc(j) \in Strict \ {"remove"} /\ Become(j, Thrown(j, "cancelled"))
    <3>1. CASE run[j].pc = "stop"
      BY <1>3, <3>1 DEF Check, Pc
    <3>2. CASE run[j].pc \in Graceful \ {"stop"}
      BY <1>3, <3>2 DEF Check, Pc
    <3>3. CASE run[j].pc = "remove"
      BY <1>3, <3>3 DEF Check, Pc, Graceful
    <3>4. CASE run[j].pc \in Strict \ {"remove"}
      BY <1>3, <3>4 DEF Check, Pc, Graceful, Strict
    <3> QED BY <1>3, <3>1, <3>2, <3>3, <3>4 DEF Check
  <2> HIDE DEF armed, me
  <2>3. Pc(j) \in Strict \cup Graceful
    BY <1>3 DEF Check, Pc
  <2>4. CASE Become(j, armed) \/ \E n : Become(j, me(n))
    <3>1. Still /\ Pc(j)' = Pc(j)
      BY <1>a, <2>1, <2>4 DEF Goes, Still
    <3> QED BY <2>3, <3>1 DEF Servers, Still, Strict, Graceful
  <2>5. CASE Pc(j) \in Graceful \ {"stop"} /\ Become(j, AfterGraceful(j))
    <3>1. \E p : p \notin {"unbuild", "tidy"} /\ Become(j, Then(j, p))
      BY <2>5 DEF AfterGraceful, Graceful, Pc
    <3> QED BY <1>c, <2>5, <3>1 DEF Leaves, Graceful
  <2>6. CASE Pc(j) = "remove" /\ Become(j, Settled(j))
    BY <1>d, <2>6 DEF AtBuilder
  <2>7. CASE Pc(j) \in Strict \ {"remove"} /\ Become(j, Thrown(j, "cancelled"))
    BY <1>c, <2>7 DEF Leaves, Strict
  <2> QED BY <2>2, <2>4, <2>5, <2>6, <2>7
<1>4. CASE PrepareBuilderImage(j)
  <2> DEFINE here == [run[j] EXCEPT !.server = IF MovesFirst(j) THEN "build" ELSE @]
             on == [here EXCEPT !.pc = "unbuild"]
             off(c) == [here EXCEPT !.pc = "failed", !.code = c]
             Here(me) == me.tidy = run[j].tidy /\ me.mode = run[j].mode /\ me.server = BuildsOn(j)
  <2>1. here \in JobState /\ Here(here)
    BY <1>0 DEF JobState, Hosts, BuildsOn
  <2> HIDE DEF here
  <2>2. /\ Here(on) /\ on.pc = "unbuild"
        /\ \A c : Here(off(c)) /\ off(c).pc = "failed"
    BY <2>1 DEF JobState
  <2>3. Become(j, on) \/ \E c : Become(j, off(c))
    BY <1>4 DEF PrepareBuilderImage, here
  <2> HIDE DEF on, off
  <2>4. Pc(j) = "prepare"
    BY <1>4 DEF PrepareBuilderImage, At, Pc
  <2>5. Here(run'[j]) /\ Pc(j)' \in {"unbuild", "failed"}
    BY <1>a, <2>2, <2>3
  <2>6. run'[j].server \in {run[j].server, "main"} \/ UseBuildServer
    BY <2>5 DEF BuildsOn, MovesFirst
  <2> QED BY <2>4, <2>5, <2>6 DEF Servers, AtBuilder
<1>5. CASE ShutDownBuilder(j) \/ UndoNew(j)
  <2>1. Become(j, AfterGraceful(j)) /\ Pc(j) \in Graceful \ {"stop"}
    BY <1>5 DEF ShutDownBuilder, UndoNew, Issued, Pc, Graceful
  <2>2. \E p : p \notin {"unbuild", "tidy"} /\ Become(j, Then(j, p))
    BY <2>1 DEF AfterGraceful, Graceful, Pc
  <2> QED BY <1>c, <2>1, <2>2 DEF Leaves, Graceful
<1>6. CASE RunBuilder(j)
  <2> DEFINE on == [Then(j, "build") EXCEPT !.builders = @ + 1]
             off == [CommandFailed(j) EXCEPT !.builders = @ + 1]
  <2>1. Goes(on) /\ on.pc = "build"
    BY <1>0 DEF Then, JobState, Goes
  <2>2. Goes(off) /\ off.pc = "failed"
    BY <1>0 DEF CommandFailed, Thrown, Then, JobState, Goes
  <2>3. Become(j, on) \/ Become(j, off) \/ Become(j, CommandFailed(j))
    BY <1>6 DEF RunBuilder
  <2> HIDE DEF on, off
  <2>4. Pc(j) = "run_builder"
    BY <1>6 DEF RunBuilder, Issued, Pc
  <2> QED BY <1>c, <2>1, <2>2, <2>3, <2>4 DEF Leaves
<1>7. CASE Build(j)
  <2> DEFINE me == [Then(j, "prepare") EXCEPT !.mode = "nested"]
             built(p) == [Then(j, p) EXCEPT !.server = BuildHost(j)]
  <2>1. /\ me.tidy = run[j].tidy /\ me.mode = "nested" /\ me.server = run[j].server
        /\ me.pc = "prepare"
        /\ \A p : /\ built(p).tidy = run[j].tidy /\ built(p).mode = run[j].mode
                  /\ built(p).server = BuildHost(j) /\ built(p).pc = p
    BY <1>0 DEF Then, JobState
  <2>2. \/ \E p \in {"list", "rolling"} : Become(j, built(p))
        \/ Become(j, me) /\ run[j].mode = "restart"
        \/ Become(j, Then(j, "rebuild")) \/ Become(j, CommandFailed(j))
    BY <1>7 DEF Build
  <2> HIDE DEF me, built
  <2>3. Pc(j) = "build"
    BY <1>7 DEF Build, Issued, Pc
  <2>4. CASE Become(j, me) /\ run[j].mode = "restart"
    BY <1>a, <2>1, <2>3, <2>4 DEF Servers, AtBuilder
  <2>5. CASE Become(j, Then(j, "rebuild")) \/ Become(j, CommandFailed(j))
    BY <1>c, <2>3, <2>5 DEF Leaves
  <2>6. ASSUME NEW p \in {"list", "rolling"}, Become(j, built(p)) PROVE Servers(j)
    BY <1>a, <2>1, <2>3, <2>6 DEF Servers, AtBuilder, BuildHost
  <2> QED BY <2>2, <2>4, <2>5, <2>6
<1>8. CASE RollingUpdate(j)
  <2> DEFINE me(p) == [Then(j, p) EXCEPT !.server = "main"]
  <2>1. \A p : /\ me(p).tidy = run[j].tidy /\ me(p).mode = run[j].mode
               /\ me(p).server = "main" /\ me(p).pc = p
    BY <1>0 DEF Then, JobState, Hosts
  <2>2. \/ \E p \in {"start", "list"} : Become(j, me(p))
        \/ Become(j, Thrown(j, "cancelled"))
    BY <1>8 DEF RollingUpdate
  <2> HIDE DEF me
  <2>3. Pc(j) = "rolling"
    BY <1>8 DEF RollingUpdate, At, Pc
  <2>4. ASSUME NEW p \in {"start", "list"}, Become(j, me(p)) PROVE Servers(j)
    BY <1>a, <2>1, <2>3, <2>4 DEF Servers, AtBuilder
  <2>5. CASE Become(j, Thrown(j, "cancelled"))
    BY <1>c, <2>3, <2>5 DEF Leaves
  <2> QED BY <2>2, <2>4, <2>5
<1>9. CASE StartByComposeFile(j)
  <2>1. \/ \E p \in {"health", "complete"} : Become(j, Then(j, p))
        \/ Become(j, CommandFailed(j))
    BY <1>9 DEF StartByComposeFile
  <2>2. Pc(j) = "start"
    BY <1>9 DEF StartByComposeFile, Issued, Pc
  <2> QED BY <1>c, <2>1, <2>2 DEF Leaves
<1>10. CASE HealthCheckDisabled(j) \/ InspectHealth(j)
  <2> DEFINE well == [Then(j, "list") EXCEPT !.healthy = TRUE]
             again(p, n) == [Then(j, p) EXCEPT !.tries = n]
  <2>1. /\ Goes(well) /\ well.pc = "list"
        /\ \A p, n : Goes(again(p, n)) /\ again(p, n).pc = p
    BY <1>0 DEF Then, JobState, Goes
  <2>2. \/ Become(j, well) \/ Become(j, Then(j, "logs"))
        \/ \E p \in {"health", "logs"} : \E n : Become(j, again(p, n))
        \/ Become(j, CommandFailed(j))
    BY <1>10 DEF HealthCheckDisabled, InspectHealth
  <2> HIDE DEF well, again
  <2>3. Pc(j) = "health"
    BY <1>10 DEF HealthCheckDisabled, InspectHealth, At, Issued, Pc
  <2> QED BY <1>c, <2>1, <2>2, <2>3 DEF Leaves
<1>11. CASE QueryLogs(j) \/ Stopped(j)
  <2>1. \E p \in {"unhealthy", "complete", "start"} : Become(j, Then(j, p))
    BY <1>11 DEF QueryLogs, Stopped
  <2>2. Pc(j) \in {"logs", "stop"}
    BY <1>11 DEF QueryLogs, Stopped, At, Issued, Pc
  <2> QED BY <1>c, <2>1, <2>2 DEF Leaves
<1>12. CASE ListRunning(j)
  <2> DEFINE me(S) == [Then(j, "stop") EXCEPT !.stop = S]
  <2>1. \A S : Goes(me(S)) /\ me(S).pc = "stop"
    BY <1>0 DEF Then, JobState, Goes
  <2>2. (\E S : Become(j, me(S))) \/ Become(j, Thrown(j, "error"))
    BY <1>12 DEF ListRunning
  <2> HIDE DEF me
  <2>3. Pc(j) = "list"
    BY <1>12 DEF ListRunning, At, Pc
  <2> QED BY <1>c, <2>1, <2>2, <2>3 DEF Leaves
<1>13. CASE StopOld(j)
  <2> DEFINE me(n) == [Then(j, "stop") EXCEPT !.stop = @ \ {n}]
  <2>1. \A n : Goes(me(n)) /\ me(n).pc = "stop"
    BY <1>0 DEF Then, JobState, Goes
  <2>2. \E n : Become(j, me(n))
    BY <1>13 DEF StopOld
  <2> HIDE DEF me
  <2>3. Pc(j) = "stop"
    BY <1>13 DEF StopOld, Issued, Pc
  <2> QED BY <1>c, <2>1, <2>2, <2>3 DEF Leaves
<1>14. CASE Unhealthy(j) \/ Complete(j) \/ FailDeployment(j)
  <2>1. PICK g \in {"finished", "failed"}, r \in {"undo", "post", "tidy", "remove"} :
          /\ Transition(j, [run[j] EXCEPT !.goal = g, !.ret = r])
          /\ Pc(j) = "failed" => r = "remove"
    BY <1>14 DEF Unhealthy, Complete, FailDeployment, At, Pc
  <2>2. Pc(j) \in {"unhealthy", "complete", "failed"}
    BY <1>14 DEF Unhealthy, Complete, FailDeployment, At, Pc
  <2> DEFINE me == [run[j] EXCEPT !.goal = g, !.ret = r]
  <2>3. me \in JobState /\ Goes(me) /\ me.ret = r
    BY <1>0 DEF JobState, Goes
  <2>4. Transition(j, me)
    BY <2>1
  <2> HIDE DEF me
  <2> DEFINE over == [me EXCEPT !.pc = me.ret, !.server = AfterTry(me)]
             write == [me EXCEPT !.pc = "write", !.copy = StatusOf(j)]
  <2>5. /\ over.tidy = run[j].tidy /\ over.mode = run[j].mode /\ over.pc = r
        /\ over.server = IF r = "tidy" THEN BuildHost(j) ELSE run[j].server
        /\ Goes(write) /\ write.pc = "write"
    BY <2>3 DEF JobState, Goes, AfterTry, BuildHost
  <2>6. \/ Become(j, over) \/ Become(j, write)
        \/ Become(j, Settled(j)) \/ Become(j, Thrown(j, "cancelled"))
    BY <2>4 DEF Transition, StatusOf
  <2> HIDE DEF over, write
  <2>7. CASE Become(j, over)
    <3>1. /\ run'[j].tidy = run[j].tidy /\ run'[j].mode = run[j].mode /\ Pc(j)' = r
          /\ run'[j].server = IF r = "tidy" THEN BuildHost(j) ELSE run[j].server
      BY <1>a, <2>5, <2>7
    <3> QED BY <2>1, <2>2, <3>1 DEF Servers, AtBuilder, BuildHost
  <2>8. CASE Become(j, write) \/ Become(j, Thrown(j, "cancelled"))
    <3>1. Pc(j)' \in {"write", "failed"}
      BY <1>0, <1>a, <2>5, <2>8, Fields
    <3> QED BY <1>c, <2>2, <2>5, <2>8, <3>1 DEF Leaves
  <2>9. CASE Become(j, Settled(j))
    BY <1>d, <2>2, <2>9 DEF AtBuilder
  <2> QED BY <2>6, <2>7, <2>8, <2>9
<1>15. CASE WriteStatus(j)
  <2>1. Pc(j) = "write" /\ Become(j, Continued(j))
    BY <1>15 DEF WriteStatus, At, Pc
  <2>2. /\ Continued(j).tidy = run[j].tidy /\ Continued(j).mode = run[j].mode
        /\ Continued(j).pc = run[j].ret
        /\ Continued(j).server = IF run[j].ret = "tidy" THEN BuildHost(j) ELSE run[j].server
        /\ run[j].ret \in {"undo", "post", "tidy", "remove"}
    BY <1>0 DEF Continued, Then, JobState, AfterTry, BuildHost
  <2>3. /\ run'[j].tidy = run[j].tidy /\ run'[j].mode = run[j].mode /\ Pc(j)' = run[j].ret
        /\ run'[j].server = IF run[j].ret = "tidy" THEN BuildHost(j) ELSE run[j].server
    BY <1>a, <2>1, <2>2
  <2> QED BY <2>1, <2>2, <2>3 DEF Servers, AtBuilder, BuildHost
<1>16. CASE PostDeployment(j)
  <2> DEFINE me == [Then(j, "complete") EXCEPT !.mode = "restart"]
  <2>1. /\ me.tidy = run[j].tidy /\ me.mode = "restart" /\ me.server = run[j].server
        /\ me.pc = "complete"
    BY <1>0 DEF Then, JobState
  <2>2. \/ Become(j, me) /\ run[j].mode = "nested"
        \/ Become(j, Finally(j)) \/ Become(j, Thrown(j, "error"))
    BY <1>16 DEF PostDeployment
  <2> HIDE DEF me
  <2>3. Pc(j) = "post"
    BY <1>16 DEF PostDeployment, At, Pc
  <2>4. CASE Become(j, me) /\ run[j].mode = "nested"
    BY <1>a, <2>1, <2>3, <2>4 DEF Servers, AtBuilder
  <2>5. CASE Become(j, Finally(j))
    <3>1. run'[j] = Finally(j) /\ Pc(j)' = "tidy"
      BY <1>0, <1>a, <2>5, Fields
    <3> QED BY <1>0, <2>3, <3>1, FieldsServers DEF Servers, AtBuilder, BuildHost
  <2>6. CASE Become(j, Thrown(j, "error"))
    BY <1>c, <2>3, <2>6 DEF Leaves
  <2> QED BY <2>2, <2>4, <2>5, <2>6
<1>17. CASE RemoveNew(j) \/ LeaveNew(j)
  BY <1>17, <1>d DEF RemoveNew, LeaveNew, At, Issued, Pc, AtBuilder
<1>18. CASE ReserveExpired(j)
  BY <1>18, <1>c DEF ReserveExpired, At, Pc, Leaves
<1> QED
  BY <1>1, <1>2, <1>3, <1>4, <1>5, <1>6, <1>7, <1>8, <1>9, <1>10, <1>11, <1>12,
     <1>13, <1>14, <1>15, <1>16, <1>17, <1>18 DEF Work

\* Where the finally block looks for the builder of a job.
HomeHost      == IF UseBuildServer THEN "build" ELSE "main"
Home(j)       == <<DeploymentOf[j], HomeHost>>
HasBuilder(j) == \E k \in 1..MaxBuilders : builder[Home(j)] = <<j, k>>

\* A job that has still to run its finally block knows where its builder is, if it
\* does not begin on the other server; one that will not has none where that block
\* would look, unless a fault or a cancellation is to blame.
Built(j) ==
  /\ \A x \in Deployments \X Hosts, k \in 1..MaxBuilders :
       builder[x] = <<j, k>> => x = Home(j) \/ Misplaced(j) \/ j \in hit
  /\ UseBuildServer => run[j].mode = "deploy" \/ Misplaced(j)
  /\ ~UseBuildServer => run[j].server = "main"
  /\ Pc(j) = "tidy" => run[j].server = HomeHost
  /\ Pc(j) \in AtBuilder => run[j].server = HomeHost \/ Misplaced(j)
  /\ Pc(j) \in {"waiting", "begin"} => ~run[j].tidy
  /\ j \notin hit /\ ~run[j].tidy =>
       /\ ~HasBuilder(j)
       /\ \/ Pc(j) \in {"waiting", "begin", "failed", "remove", "done"}
          \/ Pc(j) = "write" /\ run[j].ret = "remove"
  /\ j \notin hit /\ Pc(j) = "done" /\ HasBuilder(j) => Cancelled(j)

\* Builders come from their job alone, and go when it shuts them down.
LEMMA WorkBuilders ==
  ASSUME Typed, NEW i \in Jobs, Work(i), NEW x \in Deployments \X Hosts
  PROVE  /\ \A j \in Jobs, k \in 1..MaxBuilders :
              builder'[x] = <<j, k>> =>
                \/ builder[x] = <<j, k>>
                \/ i = j /\ Pc(j) = "run_builder" /\ x = Mine(j)
         /\ Pc(i) = "tidy" /\ Pc(i)' = "done" /\ ~Cancelled(i) /\ x = Mine(i)
              => \A j \in Jobs, k \in 1..MaxBuilders : builder'[x] # <<j, k>>
<1>0. TypeOK /\ run[i] \in JobState
  BY Refers DEF Typed
<1>1. \A j \in Jobs, k \in 1..MaxBuilders : NoBuilder # <<j, k>>
  BY RunAssumption
<1>2. CASE ShutDownBuilder(i)
  BY <1>0, <1>1, <1>2 DEF ShutDownBuilder, TypeOK
<1>3. CASE RunBuilder(i)
  <2>1. Pc(i) = "run_builder"
    BY <1>3 DEF RunBuilder, Issued, Pc
  <2>2. \/ builder' = builder
        \/ builder' = [builder EXCEPT ![Mine(i)] = <<i, run[i].builders + 1>>]
    BY <1>3 DEF RunBuilder
  <2> QED BY <1>0, <2>1, <2>2 DEF TypeOK
<1>4. CASE UNCHANGED builder /\ ~ShutDownBuilder(i)
  <2>1. Pc(i) = "tidy" => Check(i)
    BY <1>4
       DEF Work, Reserve, Begin, PrepareBuilderImage, RunBuilder, Build,
           RollingUpdate, StartByComposeFile, HealthCheckDisabled,
           InspectHealth, QueryLogs, ListRunning, StopOld, Stopped, UndoNew,
           Unhealthy, Complete, FailDeployment, WriteStatus, PostDeployment,
           RemoveNew, LeaveNew, ReserveExpired, At, Issued, Pc
  <2>2. Pc(i) = "tidy" /\ ~Cancelled(i) => Pc(i)' = "tidy"
    <3> SUFFICES ASSUME Pc(i) = "tidy", ~Cancelled(i) PROVE Pc(i)' = "tidy"
      OBVIOUS
    <3> DEFINE me == [run[i] EXCEPT !.armed = TRUE]
    <3>1. me.pc = "tidy"
      BY <1>0 DEF JobState, Pc
    <3>2. Become(i, me)
      BY <2>1 DEF Check
    <3> HIDE DEF me
    <3> QED BY <1>0, <3>1, <3>2, Becomes DEF Pc
  <2> QED BY <1>4, <2>2
<1>5. ShutDownBuilder(i) \/ RunBuilder(i) \/ UNCHANGED builder
  BY DEF Work, Reserve, Begin, Check, PrepareBuilderImage, Build, RollingUpdate,
     StartByComposeFile, HealthCheckDisabled, InspectHealth, QueryLogs,
     ListRunning, StopOld, Stopped, UndoNew, Unhealthy, Complete,
     FailDeployment, Transition, WriteStatus, PostDeployment, RemoveNew,
     LeaveNew, ReserveExpired
<1> QED BY <1>2, <1>3, <1>4, <1>5

\* The cancel button and the clean-up of helpers only take builders away.
LEMMA OperateBuilders ==
  ASSUME Typed, Operate, NEW x \in Deployments \X Hosts,
         NEW j \in Jobs, NEW k \in 1..MaxBuilders, builder'[x] = <<j, k>>
  PROVE  builder[x] = <<j, k>>
<1>1. NoBuilder # <<j, k>>
  BY RunAssumption
<1>2. builder' = builder \/ \E y : builder' = [builder EXCEPT ![y] = NoBuilder]
  BY DEF Operate, Dispatch, Cancel, KillBuilder, ListActive, ListHelpers,
     RemoveHelper
<1> QED
  BY <1>1, <1>2 DEF Typed, TypeOK

\* What faults do to builders, and to what a job knows of its own.
LEMMA DisturbServers ==
  ASSUME Typed, NEW i \in Jobs, NEW j \in Jobs,
         Timeout(i) \/ KillWorker(i) \/ LateEffect(i) \/ CommandLost(i) \/ SideEffectThrows(i)
  PROVE  /\ \A x \in Deployments \X Hosts, k \in 1..MaxBuilders :
              builder'[x] = <<j, k>> =>
                builder[x] = <<j, k>> \/ (x = Mine(j) /\ <<j, "run_builder">> \in orphan)
         /\ run'[j].mode = run[j].mode
         /\ run'[j].server \in {run[j].server, BuildHost(j)}
         /\ Pc(j)' = "tidy" /\ Pc(j) # "tidy" => run'[j].server = BuildHost(j)
         /\ Pc(j) \in AtBuilder /\ Pc(j)' \in AtBuilder => run'[j].server = run[j].server
         /\ run'[j].tidy \in {run[j].tidy, FALSE}
         /\ run'[j].tidy = run[j].tidy \/ j \in hit'
<1>0. TypeOK /\ run[j] \in JobState
  BY Refers DEF Typed
<1>1. ASSUME NEW x \in Deployments \X Hosts, NEW k \in 1..MaxBuilders, builder'[x] = <<j, k>>
      PROVE  builder[x] = <<j, k>> \/ (x = Mine(j) /\ <<j, "run_builder">> \in orphan)
  <2>1. \/ builder' = builder
        \/ /\ builder' = [builder EXCEPT ![Mine(i)] = <<i, run[i].builders + 1>>]
           /\ <<i, "run_builder">> \in orphan
    BY DEF Timeout, KillWorker, LateEffect, CommandLost, SideEffectThrows
  <2> QED BY <1>0, <1>1, <2>1 DEF TypeOK
<1> DEFINE Goal == /\ run'[j].mode = run[j].mode
                   /\ run'[j].server \in {run[j].server, BuildHost(j)}
                   /\ Pc(j)' = "tidy" /\ Pc(j) # "tidy" => run'[j].server = BuildHost(j)
                   /\ Pc(j) \in AtBuilder /\ Pc(j)' \in AtBuilder => run'[j].server = run[j].server
                   /\ run'[j].tidy \in {run[j].tidy, FALSE}
                   /\ run'[j].tidy = run[j].tidy \/ j \in hit'
<1>2. CASE run'[j] = run[j]
  BY <1>1, <1>2 DEF Pc
<1>3. CASE i # j
  <2>1. ASSUME NEW me, Become(i, me) PROVE run'[j] = run[j]
    BY <1>0, <1>3, <2>1 DEF Become, TypeOK
  <2>2. (\E me : Become(i, me)) \/ UNCHANGED run
    BY DEF Timeout, KillWorker, LateEffect, CommandLost, SideEffectThrows
  <2> QED BY <1>2, <2>1, <2>2
<1>4. CASE i = j /\ ~LateEffect(i)
  <2> DEFINE late == [Thrown(j, "error") EXCEPT !.tidy = FALSE]
             dead == [Then(j, IF Deleted(j) THEN "done" ELSE "dead") EXCEPT !.tidy = FALSE]
             less(n) == [Then(j, "stop") EXCEPT !.stop = @ \ {n}]
             Goes(me) == me.mode = run[j].mode /\ me.server = run[j].server
  <2>1. /\ Goes(late) /\ late.tidy = FALSE /\ late.pc = "failed"
        /\ Goes(dead) /\ dead.tidy = FALSE /\ dead.pc \in {"dead", "done"}
        /\ \A n : Goes(less(n)) /\ less(n).tidy = run[j].tidy /\ less(n).pc = "stop"
    BY <1>0 DEF Thrown, Then, JobState
  <2>2. \/ (Become(j, late) \/ Become(j, dead)) /\ j \in hit'
        \/ Pc(j) \in {"remove", "write"} /\ Become(j, Settled(j))
        \/ Become(j, Thrown(j, "error"))
        \/ \E n : Become(j, less(n))
        \/ \E p : p # "tidy" /\ Become(j, Then(j, p))
    <3>1. CASE Timeout(i) \/ KillWorker(i) \/ SideEffectThrows(i)
      BY <1>4, <3>1 DEF Timeout, KillWorker, SideEffectThrows, At, Pc
    <3>2. CASE CommandLost(i) /\ run[j].pc \in {"remove", "stop"}
      BY <1>4, <3>2 DEF CommandLost, Pc
    <3>3. CASE CommandLost(i) /\ run[j].pc \in Graceful \ {"stop"}
      <4>1. Become(j, AfterGraceful(j))
        BY <1>4, <3>3 DEF CommandLost, Graceful
      <4> QED BY <3>3, <4>1 DEF AfterGraceful, Graceful, Pc
    <3> QED BY <1>4, <3>1, <3>2, <3>3 DEF CommandLost
  <2> HIDE DEF late, dead, less
  <2>3. ASSUME NEW me, Become(j, me) PROVE run'[j] = me /\ Pc(j)' = me.pc
    BY <1>0, <2>3, Becomes DEF Pc
  <2>4. CASE (Become(j, late) \/ Become(j, dead)) /\ j \in hit'
    <3>1. Goes(run'[j]) /\ run'[j].tidy = FALSE /\ Pc(j)' # "tidy"
      BY <2>1, <2>3, <2>4
    <3> QED BY <1>1, <2>4, <3>1
  <2>5. CASE Pc(j) \in {"remove", "write"} /\ Become(j, Settled(j))
    <3>1. run'[j] = Settled(j)
      BY <2>3, <2>5
    <3>2. /\ run'[j].mode = run[j].mode /\ run'[j].tidy = run[j].tidy
          /\ IF run[j].tidy THEN run'[j].server = BuildHost(j)
             ELSE run'[j].server = run[j].server /\ Pc(j)' = "done"
      BY <1>0, <2>3, <2>5, <3>1, FieldsServers
    <3> QED BY <1>1, <2>5, <3>2 DEF AtBuilder
  <2>6. CASE Become(j, Thrown(j, "error")) \/ (\E n : Become(j, less(n)))
             \/ \E p : p # "tidy" /\ Become(j, Then(j, p))
    <3>1. Goes(run'[j]) /\ run'[j].tidy = run[j].tidy /\ Pc(j)' # "tidy"
      BY <1>0, <2>1, <2>3, <2>6, Fields, FieldsServers
    <3> QED BY <1>1, <3>1
  <2> QED BY <2>2, <2>4, <2>5, <2>6
<1>5. LateEffect(i) => run' = run
  BY DEF LateEffect
<1> QED BY <1>2, <1>3, <1>4, <1>5

\* A job always knows where its builder is until it has shut it down.
LEMMA BuiltKept ==
  ASSUME Typed, OneJobEach, [Next]_vars, NEW j \in Jobs, Path(j), Built(j)
  PROVE  Built(j)'
<1>0. /\ DeploymentOf[j] \in Deployments /\ Home(j) \in Deployments \X Hosts
      /\ run[j].server \in Hosts
  BY Refers DEF Typed, JobState, Home, HomeHost, Hosts
<1>1. setup' = setup => /\ UseBuildServer' = UseBuildServer /\ HomeHost' = HomeHost
                        /\ Home(j)' = Home(j) /\ Misplaced(j)' = Misplaced(j)
  BY DEF UseBuildServer, HomeHost, Home, Misplaced, Strategy, PullsImage, Pr
<1>2. BuildHost(j) = HomeHost /\ (BuildsOn(j) = HomeHost \/ Misplaced(j))
  BY DEF Built, BuildHost, BuildsOn, HomeHost, MovesFirst, Misplaced
<1>3. ASSUME NEW i \in Jobs, Work(i) PROVE Built(j)'
  <2>0. /\ hit' = hit /\ UseBuildServer' = UseBuildServer /\ HomeHost' = HomeHost
        /\ Home(j)' = Home(j) /\ Misplaced(j)' = Misplaced(j)
    BY <1>1, <1>3, WorkFrame
  <2>1. \A x \in Deployments \X Hosts, k \in 1..MaxBuilders :
          builder'[x] = <<j, k>> =>
            builder[x] = <<j, k>> \/ (i = j /\ Pc(j) = "run_builder" /\ x = Mine(j))
    BY <1>3, WorkBuilders
  <2>2. \A x \in Deployments \X Hosts, k \in 1..MaxBuilders :
          builder'[x] = <<j, k>> => x = Home(j)' \/ Misplaced(j)' \/ j \in hit'
    <3>1. Pc(j) = "run_builder" => Mine(j) = Home(j) \/ Misplaced(j)
      BY DEF Built, AtBuilder, Mine, Home
    <3> QED BY <2>0, <2>1, <3>1 DEF Built
  <2>3. HasBuilder(j)' => HasBuilder(j) \/ (i = j /\ Pc(j) = "run_builder")
    BY <1>0, <2>0, <2>1 DEF HasBuilder
  <2>4. CASE i # j
    <3>1. run'[j] = run[j] /\ StatusOf(j)' = StatusOf(j)
      BY <1>3, <2>4, WorkOthers
    <3> QED BY <2>0, <2>2, <2>3, <2>4, <3>1 DEF Built, Pc, Cancelled, StatusOf
  <2>5. CASE i = j
    <3>1. Route(j) /\ Servers(j)
      BY <1>3, <2>5, WorkRoute, WorkServers
    <3>2. /\ UseBuildServer' => run'[j].mode = "deploy" \/ Misplaced(j)'
          /\ ~UseBuildServer' => run'[j].server = "main"
      BY <2>0, <3>1 DEF Built, Servers
    <3>3. Pc(j)' \in AtBuilder => Pc(j) \in AtBuilder \/ Pc(j)' \in {"unbuild", "tidy"}
      BY <3>1, Refers
         DEF Route, Forward, Strict, Graceful, GivesUp, Transits, Writes,
             AtBuilder, Typed, JobState
    <3>4. /\ Pc(j)' = "tidy" => run'[j].server = HomeHost'
          /\ Pc(j)' \in AtBuilder => run'[j].server = HomeHost' \/ Misplaced(j)'
      BY <1>2, <2>0, <3>1, <3>3 DEF Built, Servers, AtBuilder
    <3>5. Pc(j)' \in {"waiting", "begin"} => ~run'[j].tidy
      BY <3>1, Refers
         DEF Route, Forward, Strict, Graceful, GivesUp, Transits, Writes, Built,
             Servers, Typed, JobState
    <3>6. ASSUME j \notin hit', ~run'[j].tidy
          PROVE  /\ ~HasBuilder(j)'
                 /\ \/ Pc(j)' \in {"waiting", "begin", "failed", "remove", "done"}
                    \/ Pc(j)' = "write" /\ run'[j].ret = "remove"
      <4>1. j \notin hit /\ ~run[j].tidy
        BY <2>0, <3>1, <3>6 DEF Servers
      <4>2. /\ ~HasBuilder(j)
            /\ \/ Pc(j) \in {"waiting", "begin", "failed", "remove", "done"}
               \/ Pc(j) = "write" /\ run[j].ret = "remove"
        BY <4>1 DEF Built
      <4>3. \/ Pc(j)' \in {"waiting", "begin", "failed", "remove", "done"}
            \/ Pc(j)' = "write" /\ run'[j].ret = "remove"
        <5>1. ~(Pc(j) = "begin" /\ Pc(j)' = "prepare")
          BY <3>1, <3>6 DEF Servers
        <5>2. CASE Forward(Pc(j), Pc(j)')
          <6>1. Pc(j) = "remove" => Pc(j)' # "tidy"
            BY <3>1, <4>1 DEF Servers
          <6> QED BY <4>2, <5>1, <5>2, <6>1 DEF Forward, Strict, Graceful
        <5>3. CASE GivesUp(j)
          BY <5>3 DEF GivesUp
        <5>4. CASE Transits(j)
          BY <4>2, <5>4 DEF Transits
        <5>5. CASE Writes(j)
          BY <4>2, <5>5 DEF Writes
        <5>6. CASE Pc(j) = "failed" /\ Pc(j)' \in {"tidy", "done"}
          BY <3>1, <4>1, <5>6 DEF Servers
        <5> QED BY <3>1, <5>2, <5>3, <5>4, <5>5, <5>6 DEF Route
      <4>4. Pc(j) # "run_builder"
        BY <4>2
      <4> QED BY <2>3, <4>2, <4>3, <4>4
    <3>7. ASSUME j \notin hit', Pc(j)' = "done", HasBuilder(j)' PROVE Cancelled(j)'
      <4>1. Pc(j) # "run_builder" /\ Pc(j) # "done" /\ StatusOf(j)' = StatusOf(j)
        BY <3>1, <3>7, Refers
           DEF Route, Forward, Strict, Graceful, GivesUp, Transits, Writes,
               Typed, JobState
      <4>2. HasBuilder(j) /\ j \notin hit
        BY <2>0, <2>3, <3>7, <4>1
      <4>3. run[j].tidy
        BY <4>2 DEF Built
      <4>4. Pc(j) = "tidy"
        BY <3>1, <3>7, <4>1, <4>3, Refers
           DEF Route, Forward, Strict, Graceful, GivesUp, Transits, Writes,
               Servers, Built, Typed, JobState
      <4>5. Mine(j) = Home(j)
        BY <4>4 DEF Built, Mine, Home
      <4>6. Cancelled(j)
        BY <1>0, <1>3, <2>0, <2>5, <3>7, <4>4, <4>5, WorkBuilders DEF HasBuilder
      <4> QED BY <4>1, <4>6 DEF Cancelled, StatusOf
    <3> QED BY <2>2, <3>2, <3>4, <3>5, <3>6, <3>7 DEF Built
  <2> QED BY <2>4, <2>5
<1>4. CASE Operate
  <2>1. UNCHANGED <<run, hit, setup>>
    BY <1>4, OperateRoute
  <2>2. \A x \in Deployments \X Hosts, k \in 1..MaxBuilders :
          builder'[x] = <<j, k>> => builder[x] = <<j, k>>
    BY <1>4, OperateBuilders
  <2>3. HasBuilder(j)' => HasBuilder(j)
    BY <1>0, <1>1, <2>1, <2>2 DEF HasBuilder
  <2>4. Cancelled(j) => Cancelled(j)'
    BY <1>4, OperateRoute
  <2> QED BY <1>1, <2>1, <2>2, <2>3, <2>4 DEF Built, Pc
<1>5. CASE Disturb
  <2>1. PICK i \in Jobs :
          Timeout(i) \/ KillWorker(i) \/ LateEffect(i) \/ CommandLost(i) \/ SideEffectThrows(i)
    BY <1>5 DEF Disturb
  <2>2. /\ setup' = setup /\ hit \subseteq hit'
        /\ \/ i = j /\ Interrupted(j)
           \/ run'[j] = run[j] /\ StatusOf(j)' = StatusOf(j)
    BY <2>1, DisturbRoute
  <2> DEFINE same == /\ run'[j].mode = run[j].mode
                     /\ run'[j].server \in {run[j].server, BuildHost(j)}
                     /\ Pc(j)' = "tidy" /\ Pc(j) # "tidy" => run'[j].server = BuildHost(j)
                     /\ Pc(j) \in AtBuilder /\ Pc(j)' \in AtBuilder => run'[j].server = run[j].server
                     /\ run'[j].tidy \in {run[j].tidy, FALSE}
                     /\ run'[j].tidy = run[j].tidy \/ j \in hit'
  <2>3. same
    BY <2>1, DisturbServers
  <2>4. \A x \in Deployments \X Hosts, k \in 1..MaxBuilders :
          builder'[x] = <<j, k>> =>
            builder[x] = <<j, k>> \/ j \in hit
    <3>1. <<j, "run_builder">> \in orphan => j \in hit
      BY DEF Path
    <3> QED BY <2>1, <3>1, DisturbServers
  <2>5. \A x \in Deployments \X Hosts, k \in 1..MaxBuilders :
          builder'[x] = <<j, k>> => x = Home(j)' \/ Misplaced(j)' \/ j \in hit'
    BY <1>1, <2>2, <2>4 DEF Built
  <2>6. j \notin hit' /\ HasBuilder(j)' => HasBuilder(j)
    BY <1>0, <1>1, <2>2, <2>4 DEF HasBuilder
  <2>7. /\ UseBuildServer' => run'[j].mode = "deploy" \/ Misplaced(j)'
        /\ ~UseBuildServer' => run'[j].server = "main"
    BY <1>1, <1>2, <2>2, <2>3 DEF Built, HomeHost
  <2>8. CASE run'[j] = run[j] /\ StatusOf(j)' = StatusOf(j)
    BY <1>1, <2>2, <2>5, <2>6, <2>8 DEF Built, Pc, Cancelled, StatusOf
  <2>9. CASE Interrupted(j)
    <3>1. Pc(j)' \in AtBuilder => Pc(j) \in AtBuilder \/ Pc(j)' = "tidy" \/ Pc(j)' = "unbuild"
      BY <2>9 DEF Interrupted, Forward, Strict, Graceful, AtBuilder
    <3>2. Pc(j)' = "unbuild" => Pc(j) \in {"unbuild"}
      BY <2>1, <2>8, <2>9, DisturbRollout DEF Pc
    <3>3. /\ Pc(j)' = "tidy" => run'[j].server = HomeHost'
          /\ Pc(j)' \in AtBuilder => run'[j].server = HomeHost' \/ Misplaced(j)'
      BY <1>1, <1>2, <2>2, <2>3, <3>1, <3>2 DEF Built, AtBuilder
    <3>4. Pc(j)' \in {"waiting", "begin"} => ~run'[j].tidy
      BY <2>3, <2>9 DEF Interrupted, Forward, Strict, Graceful, Built
    <3>5. ASSUME j \notin hit'
          PROVE  Pc(j)' = "failed" /\ ~(Pc(j) = "write" /\ run[j].ret = "remove") /\ Pc(j) = "write"
      BY <2>9, <3>5 DEF Interrupted
    <3>6. j \notin hit' => run'[j].tidy
      BY <2>2, <2>3, <3>5 DEF Built
    <3> QED BY <2>5, <2>7, <3>3, <3>4, <3>5, <3>6 DEF Built
  <2> QED BY <2>2, <2>8, <2>9
<1>6. CASE UNCHANGED vars
  BY <1>1, <1>6 DEF vars, Built, HasBuilder, Pc, Cancelled
<1> QED
  BY <1>3, <1>4, <1>5, <1>6 DEF Next

\* A job that is over has released its builder in whatever order builds, restarts
\* of the builder, cancellations of others and the clean-up come, unless its own
\* deployment was cancelled or a fault hit it.  The one exception is the builder
\* that a restart, a compose file or a docker image starts on the deployment
\* server while the finally block looks on the build server.
THEOREM BuildersReleased ==
  ASSUME OneJobEach
  PROVE  Spec => []BuilderReleased
<1> DEFINE IInv == Typed /\ \A j \in Jobs : Path(j) /\ Built(j)
<1>1. Init => IInv
  <2> SUFFICES ASSUME Init, NEW j \in Jobs PROVE Built(j)
    BY InitTyped, PathInit
  <2>1. /\ Pc(j) = "waiting" /\ run[j].tidy = FALSE /\ run[j].server = "main"
        /\ run[j].mode = IF DeploymentOf[j] \in setup.restart_only THEN "restart" ELSE "deploy"
        /\ setup \in Setups
    BY DEF Init, Pc
  <2>2. UseBuildServer => run[j].mode = "deploy" \/ Misplaced(j)
    BY <2>1 DEF Misplaced
  <2>3. \A x \in Deployments \X Hosts, k \in 1..MaxBuilders : builder[x] # <<j, k>>
    BY RunAssumption DEF Init
  <2>4. ~HasBuilder(j)
    BY <2>3, RunAssumption DEF HasBuilder, Home, HomeHost, Hosts
  <2> QED BY <2>1, <2>2, <2>3, <2>4 DEF Built, AtBuilder
<1>2. IInv /\ [Next]_vars => IInv'
  <2> SUFFICES ASSUME IInv, [Next]_vars PROVE IInv'
    OBVIOUS
  <2>1. Typed'
    BY StepTyped
  <2>2. \A j \in Jobs : Path(j)' /\ Built(j)'
    BY PathKept, BuiltKept
  <2> QED BY <2>1, <2>2
<1>3. IInv => BuilderReleased
  <2> SUFFICES ASSUME IInv, NEW j \in Jobs, run[j].pc = "done", j \notin hit, ~Cancelled(j),
                      NEW k \in 1..MaxBuilders, NEW h \in Hosts,
                      builder[<<DeploymentOf[j], h>>] = <<j, k>>
               PROVE  Misplaced(j) /\ h = "main"
    BY DEF BuilderReleased
  <2>1. DeploymentOf[j] \in Deployments
    BY RunAssumption
  <2>2. ~HasBuilder(j)
    BY DEF Built, Pc
  <2>3. <<DeploymentOf[j], h>> # Home(j)
    BY <2>2 DEF HasBuilder
  <2>4. Misplaced(j)
    BY <2>1, <2>3 DEF Built
  <2> QED BY <2>3, <2>4 DEF Home, HomeHost, Hosts, Misplaced
<1> QED
  BY <1>1, <1>2, <1>3, PTL DEF Spec

-----------------------------------------------------------------------------
(* One version in the end *)

\* Nothing disturbs the jobs.  A cancellation counts once the job has seen it, or
\* is bound to: a write that is under way undoes it.
Unhampered(j) == ~Cancelled(j) \/ Pc(j) \in {"waiting", "begin", "write"}
Undisturbed == hit = {} /\ \A j \in Jobs : Unhampered(j)

Up(n) == containers[n] # Gone

\* The production containers: the version from before under the fixed name, and
\* versions under the names of their jobs.
Known ==
  \A n \in Production : Up(n) =>
    \/ n = Fixed(0)
    \/ \E j \in Jobs : /\ Strategy # "consistent" /\ Pr(j) = 0
                       /\ n = Own(j) /\ containers[n] = j

\* A version runs only once its job has come to the start, which is after the
\* list of what to stop unless the update is rolling.
Unstarted == {"waiting", "begin", "prepare", "unbuild", "run_builder", "build",
              "rebuild", "rolling"}
Young(j) ==
  /\ Up(Own(j)) => /\ Pc(j) \notin Unstarted
                   /\ ~IsRolling(j) => Pc(j) \notin {"list", "stop"}
  /\ ~IsRolling(j) => Pc(j) # "health"

\* The job has listed what it stops, and not given up.
Past(j) == \/ Pc(j) \in {"stop", "complete", "post", "tidy", "done"}
           \/ Pc(j) = "write" /\ run[j].ret \in {"post", "tidy"}

\* Container n is still to be stopped by job j.
Pending(j, n) == Pc(j) = "stop" /\ n \in run[j].stop

\* Rolling updates side by side: of two versions the one whose job listed later
\* has the other one on its list.
Replaces(j) ==
  Past(j) /\ Up(Own(j)) =>
    \A n \in Production \ {Own(j)} : Up(n) =>
      \/ Pending(j, n)
      \/ \E k \in Jobs : /\ Pr(k) = 0 /\ n = Own(k)
                         /\ ~Past(k) \/ Pending(k, Own(j))

\* Otherwise the old version is stopped before the new one starts.
Succeeds(j) ==
  Up(Fixed(0)) => /\ Pc(j) = "stop" => Fixed(0) \in run[j].stop
                  /\ Pc(j) # "start" /\ ~Up(Own(j))

OneVersion ==
  /\ Known
  /\ Strategy # "consistent" =>
       \A j \in Jobs : Pr(j) = 0 =>
         /\ Young(j)
         /\ IF Strategy = "rolling" THEN Replaces(j) ELSE Succeeds(j)

\* Rolling updates of an application may run side by side; one that stops the
\* old version first is the only one.
InTurn ==
  \A s \in Setups : s.strategy \in {"ports", "compose"} =>
    \A i, j \in Jobs :
      s.pull_request_id[DeploymentOf[i]] = 0 /\ s.pull_request_id[DeploymentOf[j]] = 0 => i = j

\* The names of production, for strategies that have names for versions.
LEMMA ProductionNames ==
  ASSUME NEW i \in Jobs, NEW j \in Jobs
  PROVE  /\ ContainerName(i) \in {Own(i), Fixed(Pr(i))}
         /\ ContainerName(i) = Own(i) => Pr(i) = 0 /\ Strategy # "consistent"
         /\ Pr(i) = 0 /\ Strategy # "consistent" => ContainerName(i) = Own(i)
         /\ Own(i) = Own(j) => i = j
         /\ \A p : Own(i) # Fixed(p)
         /\ Own(i) \in Production /\ Fixed(0) \in Production
         /\ Own(i) \in Names /\ Fixed(0) \in Names
         /\ Pr(i) # 0 => ContainerName(i) \notin Production
<1>1. j # Before /\ i # Before
  BY RunAssumption
<1> QED
  BY <1>1 DEF ContainerName, Own, Fixed, Names, PullRequests, Production

\* A step of job i removes containers, or starts that of its own version.
LEMMA Effects ==
  ASSUME Typed, NEW i \in Jobs, Work(i), NEW n \in Names
  PROVE  \/ containers'[n] \in {containers[n], Gone}
         \/ n = ContainerName(i) /\ Pc(i) = "start" /\ containers'[n] = i
<1>0. TypeOK /\ ContainerName(i) \in Names
  BY Refers DEF Typed
<1>1. CASE StartByComposeFile(i)
  BY <1>0, <1>1 DEF StartByComposeFile, Issued, Pc, TypeOK
<1>2. CASE StopOld(i) \/ UndoNew(i) \/ RemoveNew(i)
  <2>1. \E m : containers' = [containers EXCEPT ![m] = Gone]
    BY <1>2 DEF StopOld, UndoNew, RemoveNew
  <2> QED BY <1>0, <2>1 DEF TypeOK
<1>3. \/ StartByComposeFile(i) \/ StopOld(i) \/ UndoNew(i) \/ RemoveNew(i)
      \/ UNCHANGED containers
  BY DEF Work, Reserve, Begin, Check, PrepareBuilderImage, ShutDownBuilder,
     RunBuilder, Build, RollingUpdate, HealthCheckDisabled, InspectHealth,
     QueryLogs, ListRunning, Stopped, Unhealthy, Complete, FailDeployment,
     Transition, WriteStatus, PostDeployment, LeaveNew, ReserveExpired
<1> QED BY <1>1, <1>2, <1>3

\* The list a job goes on with is of all that run, without its own version.
LEMMA ListsAll ==
  ASSUME Typed, NEW j \in Jobs, Work(j), Pc(j) = "list", Pc(j)' = "stop"
  PROVE  run'[j].stop = ToStop(j)
<1>0. TypeOK /\ run[j] \in JobState
  BY Refers DEF Typed
<1>1. ListRunning(j)
  BY DEF Work, Reserve, Begin, Check, PrepareBuilderImage, ShutDownBuilder,
     RunBuilder, Build, RollingUpdate, StartByComposeFile, HealthCheckDisabled,
     InspectHealth, QueryLogs, StopOld, Stopped, UndoNew, Unhealthy, Complete,
     FailDeployment, WriteStatus, PostDeployment, RemoveNew, LeaveNew,
     ReserveExpired, At, Issued, Pc, Strict, Graceful
<1> DEFINE me == [Then(j, "stop") EXCEPT !.stop = ToStop(j)]
<1>2. me.stop = ToStop(j)
  BY <1>0 DEF Then, JobState
<1>3. Become(j, me) \/ Become(j, Thrown(j, "error"))
  BY <1>1 DEF ListRunning, ToStop
<1> HIDE DEF me
<1>4. Become(j, Thrown(j, "error")) => Pc(j)' = "failed"
  BY <1>0, Becomes, Fields DEF Pc
<1> QED
  BY <1>0, <1>2, <1>3, <1>4, Becomes

\* What is on the list is stopped before the job goes on, unless it is cancelled.
LEMMA StopsAll ==
  ASSUME Typed, NEW j \in Jobs, Work(j), ~Cancelled(j),
         NEW n \in Names, Pending(j, n), Up(n)'
  PROVE  Pending(j, n)'
<1>0. TypeOK /\ run[j] \in JobState /\ Pc(j) = "stop" /\ n \in run[j].stop
  BY Refers DEF Typed, Pending
<1>1. Check(j) \/ StopOld(j) \/ Stopped(j)
  BY <1>0
     DEF Work, Reserve, Begin, PrepareBuilderImage, ShutDownBuilder, RunBuilder,
         Build, RollingUpdate, StartByComposeFile, HealthCheckDisabled,
         InspectHealth, QueryLogs, ListRunning, UndoNew, Unhealthy, Complete,
         FailDeployment, WriteStatus, PostDeployment, RemoveNew, LeaveNew,
         ReserveExpired, At, Issued, Pc
<1>2. CASE Check(j)
  <2> DEFINE me == [run[j] EXCEPT !.armed = TRUE]
  <2>1. me.pc = "stop" /\ me.stop = run[j].stop
    BY <1>0 DEF JobState, Pc
  <2>2. Become(j, me)
    BY <1>2 DEF Check
  <2> HIDE DEF me
  <2> QED BY <1>0, <2>1, <2>2, Becomes DEF Pending, Pc
<1>3. CASE StopOld(j)
  <2> DEFINE me(m) == [Then(j, "stop") EXCEPT !.stop = @ \ {m}]
  <2>1. \A m : me(m).pc = "stop" /\ me(m).stop = run[j].stop \ {m}
    BY <1>0 DEF Then, JobState
  <2>2. PICK m : containers' = [containers EXCEPT ![m] = Gone] /\ Become(j, me(m))
    BY <1>3 DEF StopOld
  <2> HIDE DEF me
  <2>3. m # n
    BY <1>0, <2>2 DEF Up, TypeOK
  <2> QED BY <1>0, <2>1, <2>2, <2>3, Becomes DEF Pending, Pc
<1>4. CASE Stopped(j)
  BY <1>0, <1>4 DEF Stopped
<1> QED BY <1>1, <1>2, <1>3, <1>4

\* The order of the two forms of rollout.
LEMMA Rollouts ==
  ASSUME Typed, NEW j \in Jobs, Work(j)
  PROVE  /\ Pc(j) = "start" /\ IsRolling(j) => Pc(j)' \in {"start", "health", "failed"}
         /\ Pc(j) = "start" /\ ~IsRolling(j) => Pc(j)' # "health"
         /\ Pc(j) = "rolling" /\ ~IsRolling(j) => Pc(j)' # "start"
<1>0. TypeOK /\ run[j] \in JobState
  BY Refers DEF Typed
<1>1. ASSUME Pc(j) = "start"
      PROVE  Pc(j)' \in {"start", "failed"}
                        \cup {IF IsRolling(j) THEN "health" ELSE "complete"}
  <2> DEFINE me == [run[j] EXCEPT !.armed = TRUE]
  <2>1. me.pc = "start"
    BY <1>0, <1>1 DEF JobState, Pc
  <2>2. Check(j) \/ StartByComposeFile(j)
    BY <1>1
       DEF Work, Reserve, Begin, PrepareBuilderImage, ShutDownBuilder,
           RunBuilder, Build, RollingUpdate, HealthCheckDisabled, InspectHealth,
           QueryLogs, ListRunning, StopOld, Stopped, UndoNew, Unhealthy,
           Complete, FailDeployment, WriteStatus, PostDeployment, RemoveNew,
           LeaveNew, ReserveExpired, At, Issued, Pc
  <2>3. \/ Become(j, me) \/ Become(j, Thrown(j, "cancelled"))
        \/ Become(j, Then(j, IF IsRolling(j) THEN "health" ELSE "complete"))
        \/ Become(j, CommandFailed(j))
    BY <1>1, <2>2 DEF Check, StartByComposeFile, Pc, Graceful
  <2> HIDE DEF me
  <2> QED BY <1>0, <2>1, <2>3, Becomes, Fields DEF Pc
<1>2. ASSUME Pc(j) = "rolling", ~IsRolling(j) PROVE Pc(j)' # "start"
  <2> DEFINE me == [Then(j, "list") EXCEPT !.server = "main"]
  <2>1. me.pc = "list"
    BY <1>0 DEF Then, JobState
  <2>2. RollingUpdate(j)
    BY <1>2
       DEF Work, Reserve, Begin, Check, PrepareBuilderImage, ShutDownBuilder,
           RunBuilder, Build, StartByComposeFile, HealthCheckDisabled,
           InspectHealth, QueryLogs, ListRunning, StopOld, Stopped, UndoNew,
           Unhealthy, Complete, FailDeployment, WriteStatus, PostDeployment,
           RemoveNew, LeaveNew, ReserveExpired, At, Issued, Pc, Strict, Graceful
  <2>3. Become(j, me) \/ Become(j, Thrown(j, "cancelled"))
    BY <1>2, <2>2 DEF RollingUpdate
  <2> HIDE DEF me
  <2> QED BY <1>0, <2>1, <2>3, Becomes, Fields DEF Pc
<1> QED BY <1>1, <1>2

\* What has disturbed a job does so for good.
LEMMA DisturbedForGood ==
  ASSUME Typed, OneJobEach, [Next]_vars, \A j \in Jobs : Path(j), Undisturbed'
  PROVE  Undisturbed
<1>1. hit \subseteq hit'
  <2>1. (\E i \in Jobs : Work(i)) => hit' = hit
    BY WorkFrame
  <2>2. Operate => hit' = hit
    BY DEF Operate, Dispatch, Cancel, KillBuilder, ListActive, ListHelpers,
       RemoveHelper
  <2>3. Disturb => hit \subseteq hit'
    BY DEF Disturb, Timeout, KillWorker, LateEffect, CommandLost,
       SideEffectThrows
  <2> QED BY <2>1, <2>2, <2>3 DEF Next, vars
<1>2. hit = {}
  BY <1>1 DEF Undisturbed
<1>3. ASSUME NEW j \in Jobs, ~Unhampered(j) PROVE ~Unhampered(j)'
  <2>0. Cancelled(j) /\ Pc(j) \notin {"waiting", "begin", "write"}
    BY <1>3 DEF Unhampered
  <2>1. ASSUME NEW i \in Jobs, Work(i) PROVE ~Unhampered(j)'
    <3>1. CASE i # j
      BY <2>0, <2>1, <3>1, WorkOthers DEF Unhampered, Pc, Cancelled, StatusOf
    <3>2. CASE i = j
      <4>1. Route(j)
        BY <2>1, <3>2, WorkRoute
      <4>2. Pc(j)' \notin {"waiting", "begin", "write"} /\ StatusOf(j)' = StatusOf(j)
        BY <2>0, <4>1
           DEF Route, Forward, GivesUp, Transits, Writes, Strict, Graceful,
               Cancelled, StatusOf
      <4> QED BY <2>0, <4>2 DEF Unhampered, Cancelled, StatusOf
    <3> QED BY <3>1, <3>2
  <2>2. CASE Operate
    BY <2>0, <2>2, OperateRoute DEF Unhampered, Pc
  <2>3. CASE Disturb
    <3>1. PICK i \in Jobs :
            Timeout(i) \/ KillWorker(i) \/ LateEffect(i) \/ CommandLost(i) \/ SideEffectThrows(i)
      BY <2>3 DEF Disturb
    <3>2. CASE run'[j] = run[j] /\ StatusOf(j)' = StatusOf(j)
      BY <2>0, <3>2 DEF Unhampered, Pc, Cancelled, StatusOf
    <3>3. CASE Interrupted(j)
      BY <2>0, <3>3
         DEF Interrupted, Forward, Unhampered, Cancelled, StatusOf, Strict,
             Graceful
    <3> QED BY <3>1, <3>2, <3>3, DisturbRoute
  <2>4. CASE UNCHANGED vars
    BY <2>0, <2>4 DEF vars, Unhampered, Pc, Cancelled
  <2> QED BY <2>1, <2>2, <2>3, <2>4 DEF Next
<1> QED BY <1>2, <1>3 DEF Undisturbed

\* A production container that comes to run is the version of a job at its start.
LEMMA ComesUp ==
  ASSUME Typed, NEW i \in Jobs, Work(i), NEW n \in Production, Up(n)'
  PROVE  \/ Up(n) /\ containers'[n] = containers[n]
         \/ /\ n = ContainerName(i) /\ Pc(i) = "start" /\ Pr(i) = 0
            /\ containers'[n] = i
<1>1. n \in Names
  BY DEF Production
<1>2. \/ containers'[n] \in {containers[n], Gone}
      \/ n = ContainerName(i) /\ Pc(i) = "start" /\ containers'[n] = i
  BY <1>1, Effects
<1> QED
  BY <1>2, ProductionNames DEF Up

\* So the version of job j comes to run by a start of j.
LEMMA OwnComesUp ==
  ASSUME Typed, NEW i \in Jobs, Work(i), NEW j \in Jobs, Up(Own(j))', ~Up(Own(j))
  PROVE  i = j /\ Pc(j) = "start"
<1>1. Own(j) = ContainerName(i) /\ Pc(i) = "start"
  BY ComesUp, ProductionNames
<1> QED BY <1>1, ProductionNames

\* A production container that appears is named after its job.
LEMMA KnownKept ==
  ASSUME Typed, NEW i \in Jobs, Work(i), Known
  PROVE  Known'
<1>1. setup' = setup
  BY WorkFrame
<1>2. Strategy' = Strategy /\ \A j \in Jobs : Pr(j)' = Pr(j)
  BY <1>1 DEF Strategy, Pr
<1>3. ASSUME NEW n \in Production, Up(n)', n # Fixed(0)
      PROVE  \E j \in Jobs : /\ Strategy # "consistent" /\ Pr(j) = 0
                             /\ n = Own(j) /\ containers'[n] = j
  <2>1. CASE Up(n) /\ containers'[n] = containers[n]
    BY <1>3, <2>1 DEF Known
  <2>2. CASE n = ContainerName(i) /\ Pr(i) = 0 /\ containers'[n] = i
    <3>1. n = Own(i) /\ Strategy # "consistent"
      BY <1>3, <2>2, ProductionNames
    <3> QED BY <2>2, <3>1
  <2> QED BY <1>3, <2>1, <2>2, ComesUp
<1> QED
  BY <1>2, <1>3 DEF Known, Production, Names, Own, Fixed

\* A version of a rolling update is up only from when its job has started it.
LEMMA YoungKept ==
  ASSUME Typed, OneJobEach, NEW i \in Jobs, Work(i), NEW j \in Jobs, Young(j)
  PROVE  Young(j)'
<1>1. IsRolling(j)' <=> IsRolling(j)
  BY WorkFrame DEF IsRolling, Strategy, Pr
<1>2. CASE i # j
  <2>1. Up(Own(j))' => Up(Own(j))
    BY <1>2, OwnComesUp
  <2>2. Pc(j)' = Pc(j)
    BY <1>2, WorkOthers DEF Pc
  <2> QED BY <1>1, <2>1, <2>2 DEF Young, Unstarted, Own
<1>3. CASE i = j
  <2>1. Route(j)
    BY <1>3, WorkRoute
  <2>2. run[j].ret \in {"undo", "post", "tidy", "remove"}
    BY Refers DEF Typed, JobState
  <2>3. ~IsRolling(j) => Pc(j)' # "health"
    BY <1>3, <2>1, <2>2, Rollouts
       DEF Young, Route, Forward, GivesUp, Transits, Writes, Strict, Graceful
  <2>4. ASSUME Up(Own(j))'
        PROVE  /\ Pc(j)' \notin Unstarted
               /\ ~IsRolling(j) => Pc(j)' \notin {"list", "stop"}
    <3>1. /\ Pc(j) \notin Unstarted
          /\ ~IsRolling(j) => Pc(j) \notin {"list", "stop", "health"}
      BY <1>3, <2>4, OwnComesUp DEF Young, Unstarted
    <3> QED
      BY <2>1, <2>2, <3>1
         DEF Unstarted, Route, Forward, GivesUp, Transits, Writes, Strict,
             Graceful
  <2> QED BY <1>1, <2>3, <2>4 DEF Young, Own, Unstarted
<1> QED BY <1>2, <1>3

\* In a rolling update a job whose version runs gets past the list by the list
\* alone: those that give up take the version away.
LEMMA PastList ==
  ASSUME Typed, NEW j \in Jobs, Work(j), IsRolling(j), Path(j), Young(j),
         Undisturbed, Undisturbed', Up(Own(j)), containers'[Own(j)] = j,
         Past(j)', ~Past(j)
  PROVE  Pc(j) = "list" /\ Pc(j)' = "stop"
<1>0. /\ Named(j) /\ Pc(j) \notin Unstarted
      /\ run'[j].ret \in {"undo", "post", "tidy", "remove"}
  <2>1. run' \in [Jobs -> JobState]
    BY WorkKept DEF JobKept
  <2> QED BY <2>1 DEF IsRolling, Named, Young, JobState
<1>1. Cancelled(j) => Pc(j) = "write"
  BY <1>0 DEF Undisturbed, Unhampered, Unstarted
<1>2. /\ Pc(j) = "undo" => Pc(j)' = "undo"
      /\ Pc(j) = "remove" => Pc(j)' = "remove"
  BY <1>1, WorkContainers, <1>0 DEF Path
<1>3. Pc(j) = "start" => Pc(j)' \in {"start", "health", "failed"}
  BY Rollouts
<1>4. Route(j)
  BY WorkRoute
<1>5. Pc(j) # "dead" \/ Pc(j)' = "failed"
  BY <1>4 DEF Route, Forward, GivesUp, Transits, Writes, Strict, Graceful
<1> QED
  BY <1>0, <1>1, <1>2, <1>3, <1>4, <1>5
     DEF Past, Route, Forward, GivesUp, Transits, Writes, Same, Strict,
         Graceful, Unstarted

\* What a rolling update leaves beside its version, it is still to stop, or is
\* that of a job that has still to list, and will have this one on its list.
LEMMA ReplacesKept ==
  ASSUME Typed, OneJobEach, NEW i \in Jobs, Work(i), Undisturbed, Undisturbed',
         \A k \in Jobs : Path(k), Known', Strategy = "rolling",
         \A k \in Jobs : Pr(k) = 0 => Young(k) /\ Replaces(k),
         NEW j \in Jobs, Pr(j) = 0
  PROVE  Replaces(j)'
<1>0. /\ \A k \in Jobs : Pr(k)' = Pr(k) /\ (k # i => run'[k] = run[k])
      /\ \A k \in Jobs : Own(k) \in Production /\ Own(k) \in Names
      /\ Strategy' = Strategy
  BY WorkFrame, WorkOthers, ProductionNames DEF Pr, Strategy
<1> SUFFICES ASSUME Past(j)', Up(Own(j))', NEW n \in Production, n # Own(j), Up(n)'
             PROVE  \/ Pending(j, n)'
                    \/ \E k \in Jobs : /\ Pr(k) = 0 /\ n = Own(k)
                                       /\ ~Past(k)' \/ Pending(k, Own(j))'
  BY <1>0 DEF Replaces, Own, Production, Names, Pending, Up
<1> DEFINE Goal == \/ Pending(j, n)'
                   \/ \E k \in Jobs : /\ Pr(k) = 0 /\ n = Own(k)
                                      /\ ~Past(k)' \/ Pending(k, Own(j))'
<1>1. n \in Names
  BY DEF Production
\* A job at its start is not past the list.
<1>2. ASSUME NEW k \in Jobs, Pr(k) = 0, Up(Own(k))', ~Up(Own(k)) PROVE ~Past(k)'
  <2>1. k = i /\ Pc(k) = "start"
    BY <1>2, OwnComesUp
  <2>2. Pc(k)' \in {"start", "health", "failed"}
    BY <1>2, <2>1, Rollouts DEF IsRolling
  <2> QED BY <2>2 DEF Past
<1>3. Up(Own(j))
  BY <1>2
<1>4. CASE ~Up(n)
  <2>1. n = Own(i) /\ Pr(i) = 0
    BY <1>4, ComesUp, ProductionNames
  <2> QED BY <1>2, <1>4, <2>1
\* What a job that goes on to stop others has on its list.
<1>5. ASSUME NEW k \in Jobs, Pr(k) = 0, Past(k)', ~Past(k), Up(Own(k)), Up(Own(k))',
             NEW m \in Names, Up(m), m # Own(k)
      PROVE  Pending(k, m)'
  <2>1. k = i
    BY <1>0, <1>5 DEF Past, Pc
  <2>2. containers'[Own(k)] = k
    <3>1. PICK l \in Jobs : Own(k) = Own(l) /\ containers'[Own(k)] = l
      BY <1>0, <1>5, ProductionNames DEF Known, Own, Fixed, Production, Names
    <3> QED BY <3>1, ProductionNames
  <2>3. Pc(k) = "list" /\ Pc(k)' = "stop"
    BY <1>5, <2>1, <2>2, PastList DEF IsRolling
  <2>4. run'[k].stop = ToStop(k)
    BY <2>1, <2>3, ListsAll
  <2>5. m \in ToStop(k)
    BY <1>5, NamesApart
       DEF ToStop, StopsByName, Listed, PrLabelValue, Running, Up
  <2> QED BY <2>3, <2>4, <2>5 DEF Pending
\* A job that has something to stop does so.
<1>6. ASSUME NEW k \in Jobs, NEW m \in Names, Pending(k, m), Up(m)' PROVE Pending(k, m)'
  <2>1. CASE k = i
    <3>1. ~Cancelled(k)
      BY <1>6 DEF Pending, Undisturbed, Unhampered
    <3> QED BY <1>6, <2>1, <3>1, StopsAll
  <2>2. CASE k # i
    BY <1>0, <1>6, <2>2 DEF Pending, Pc
  <2> QED BY <2>1, <2>2
<1>7. CASE Up(n) /\ ~Past(j)
  BY <1>1, <1>3, <1>5, <1>7
<1>8. CASE Up(n) /\ Past(j)
  <2>1. CASE Pending(j, n)
    BY <1>1, <1>6, <2>1
  <2>2. ASSUME NEW k \in Jobs, Pr(k) = 0, n = Own(k), ~Past(k) PROVE Goal
    <3>1. CASE ~Past(k)'
      BY <2>2, <3>1
    <3>2. CASE Past(k)'
      <4>1. Pending(k, Own(j))'
        BY <1>0, <1>3, <1>5, <1>8, <2>2, <3>2
      <4> QED BY <2>2, <4>1
    <3> QED BY <3>1, <3>2
  <2>3. ASSUME NEW k \in Jobs, Pr(k) = 0, n = Own(k), Pending(k, Own(j)) PROVE Goal
    <3>1. Pending(k, Own(j))'
      BY <1>0, <1>6, <2>3
    <3> QED BY <2>3, <3>1
  <2>4. \/ Pending(j, n)
        \/ \E k \in Jobs : /\ Pr(k) = 0 /\ n = Own(k)
                           /\ ~Past(k) \/ Pending(k, Own(j))
    BY <1>3, <1>8 DEF Replaces
  <2> QED BY <2>1, <2>2, <2>3, <2>4
<1> QED BY <1>4, <1>7, <1>8

\* A deployment that stops the old version first has its own alone afterwards.
LEMMA SucceedsKept ==
  ASSUME Typed, OneJobEach, NEW i \in Jobs, Work(i), Undisturbed,
         Strategy \notin {"rolling", "consistent"},
         NEW j \in Jobs, Pr(j) = 0, Succeeds(j)
  PROVE  Succeeds(j)'
<1> SUFFICES ASSUME Up(Fixed(0))'
             PROVE  /\ Pc(j)' = "stop" => Fixed(0) \in run'[j].stop
                    /\ Pc(j)' # "start" /\ ~Up(Own(j))'
  BY DEF Succeeds, Own, Fixed
<1>0. ~IsRolling(j) /\ ~StopsByName(j) /\ ContainerName(j) = Own(j)
  BY ProductionNames DEF IsRolling, StopsByName
<1>1. Up(Fixed(0))
  BY ComesUp, ProductionNames
<1>2. /\ Pc(j) = "stop" => Pending(j, Fixed(0))
      /\ Pc(j) # "start" /\ ~Up(Own(j))
  BY <1>1 DEF Succeeds, Pending
<1>3. ~Up(Own(j))'
  BY <1>2, OwnComesUp
<1>4. CASE i # j
  <2>1. run'[j] = run[j]
    BY <1>4, WorkOthers
  <2> QED BY <1>2, <1>3, <2>1 DEF Pending, Pc
<1>5. CASE i = j
  <2>1. Route(j)
    BY <1>5, WorkRoute
  <2>2. /\ run[j].ret \in {"undo", "post", "tidy", "remove"}
        /\ Fixed(0) \in Names /\ Fixed(0) # Own(j)
    BY Refers, ProductionNames DEF Typed, JobState
  <2>3. Pc(j) = "stop" => Pending(j, Fixed(0))'
    <3>1. Pc(j) = "stop" => ~Cancelled(j)
      BY DEF Undisturbed, Unhampered
    <3> QED BY <1>2, <1>5, <2>2, <3>1, StopsAll
  <2>4. Pc(j) = "list" /\ Pc(j)' = "stop" => Pending(j, Fixed(0))'
    <3> SUFFICES ASSUME Pc(j) = "list", Pc(j)' = "stop" PROVE Pending(j, Fixed(0))'
      OBVIOUS
    <3>1. run'[j].stop = ToStop(j)
      BY <1>5, ListsAll
    <3>2. Fixed(0) \in ToStop(j)
      BY <1>0, <1>1, <2>2 DEF ToStop, Listed, PrLabelValue, Running, Up
    <3> QED BY <3>1, <3>2 DEF Pending
  <2>5. Pc(j)' # "start"
    BY <1>0, <1>2, <1>5, <2>1, <2>2, <2>3, Rollouts
       DEF Pending, Route, Forward, GivesUp, Transits, Writes, Strict, Graceful
  <2>6. Pc(j)' = "stop" => Pc(j) \in {"stop", "list"}
    BY <2>1, <2>2
       DEF Route, Forward, GivesUp, Transits, Writes, Strict, Graceful
  <2> QED BY <1>3, <2>3, <2>4, <2>5, <2>6 DEF Pending
<1> QED BY <1>4, <1>5

\* Every step that disturbs nothing keeps the versions apart.
LEMMA OneVersionKept ==
  ASSUME Typed, OneJobEach, [Next]_vars, \A j \in Jobs : Path(j),
         Undisturbed, Undisturbed', OneVersion
  PROVE  OneVersion'
<1>1. ASSUME NEW i \in Jobs, Work(i) PROVE OneVersion'
  <2>1. Strategy' = Strategy /\ \A j \in Jobs : Pr(j)' = Pr(j)
    BY <1>1, WorkFrame DEF Strategy, Pr
  <2>2. Known'
    BY <1>1, KnownKept DEF OneVersion
  <2>3. ASSUME NEW j \in Jobs, Strategy # "consistent", Pr(j) = 0
        PROVE  Young(j)' /\ IF Strategy = "rolling" THEN Replaces(j)' ELSE Succeeds(j)'
    <3>1. Young(j)'
      BY <1>1, <2>3, YoungKept DEF OneVersion
    <3>2. CASE Strategy = "rolling"
      BY <1>1, <2>2, <2>3, <3>1, <3>2, ReplacesKept DEF OneVersion
    <3>3. CASE Strategy # "rolling"
      BY <1>1, <2>3, <3>1, <3>3, SucceedsKept DEF OneVersion
    <3> QED BY <3>2, <3>3
  <2> QED BY <2>1, <2>2, <2>3 DEF OneVersion
<1>2. ASSUME UNCHANGED <<containers, setup>>,
             \A j \in Jobs : \/ run'[j] = run[j]
                             \/ Pc(j) = "write" /\ Pc(j)' = "failed"
      PROVE  OneVersion'
  <2>1. /\ Strategy' = Strategy /\ \A j \in Jobs : Pr(j)' = Pr(j)
        /\ \A j \in Jobs : IsRolling(j)' <=> IsRolling(j)
        /\ \A n \in Names : Up(n)' <=> Up(n)
        /\ \A j \in Jobs : Own(j) \in Names /\ Fixed(0) \in Names
    BY <1>2, ProductionNames DEF Strategy, Pr, IsRolling, Up
  <2>2. Known'
    BY <1>2, <2>1 DEF OneVersion, Known, Up, Own, Fixed, Production, Names
  <2>3. \A j \in Jobs : /\ Past(j)' => Past(j)
                        /\ \A n : Pending(j, n) => Pending(j, n)'
    BY <1>2 DEF Past, Pending, Pc
  <2>4. ASSUME NEW j \in Jobs, Young(j) PROVE Young(j)'
    BY <1>2, <2>1, <2>4 DEF Young, Pc, Own, Unstarted
  <2>5. ASSUME NEW j \in Jobs, Replaces(j) PROVE Replaces(j)'
    <3> SUFFICES ASSUME Past(j)', Up(Own(j))', NEW n \in Production, n # Own(j), Up(n)'
                 PROVE  \/ Pending(j, n)'
                        \/ \E k \in Jobs : /\ Pr(k)' = 0 /\ n = Own(k)
                                           /\ ~Past(k)' \/ Pending(k, Own(j))'
      BY DEF Replaces, Own, Production, Names
    <3>1. Past(j) /\ Up(Own(j)) /\ Up(n)
      BY <1>2, <2>1, <2>3 DEF Up
    <3> QED BY <2>1, <2>3, <2>5, <3>1 DEF Replaces
  <2>6. ASSUME NEW j \in Jobs, Succeeds(j) PROVE Succeeds(j)'
    BY <1>2, <2>1, <2>6 DEF Succeeds, Pc, Own, Fixed
  <2> QED BY <2>1, <2>2, <2>4, <2>5, <2>6 DEF OneVersion
<1>3. CASE Operate
  BY <1>2, <1>3
     DEF Operate, Dispatch, Cancel, KillBuilder, ListActive, ListHelpers,
         RemoveHelper
<1>4. CASE Disturb
  <2>1. PICK i \in Jobs :
          Timeout(i) \/ KillWorker(i) \/ LateEffect(i) \/ CommandLost(i) \/ SideEffectThrows(i)
    BY <1>4 DEF Disturb
  <2>2. hit = {} /\ hit' = {}
    BY DEF Undisturbed
  <2>3. ~LateEffect(i) /\ UNCHANGED <<containers, setup>>
    BY <2>1, <2>2
       DEF Path, LateEffect, Timeout, KillWorker, CommandLost, SideEffectThrows
  <2>4. \A j \in Jobs : \/ run'[j] = run[j]
                        \/ Pc(j) = "write" /\ Pc(j)' = "failed"
    BY <2>1, <2>2, DisturbRoute DEF Interrupted
  <2> QED BY <1>2, <2>3, <2>4
<1>5. CASE UNCHANGED vars
  BY <1>2, <1>5 DEF vars
<1> QED BY <1>1, <1>3, <1>4, <1>5 DEF Next

\* However many rolling updates of an application run side by side, one version is
\* left when all are over: whoever lists last leaves at most its own.  Where the
\* old version is stopped first that holds of deployments one at a time.
THEOREM OneVersionLeft ==
  ASSUME OneJobEach, InTurn
  PROVE  Spec => []SingleVersion
<1> DEFINE IInv == /\ Typed /\ \A j \in Jobs : Path(j)
                   /\ Undisturbed => OneVersion
<1>1. Init => IInv
  <2> SUFFICES ASSUME Init PROVE IInv
    OBVIOUS
  <2>1. ASSUME NEW n \in Production, Up(n) PROVE n = Fixed(0)
    <3>1. n \in Names /\ n[1] = 0 /\ n = <<n[1], n[2]>>
      BY <2>1 DEF Production, Names
    <3>2. PICK c \in [Names -> {Before, Gone}] :
            containers = c /\ \A x \in Names : x[2] # Before => c[x] = Gone
      BY DEF Init
    <3>3. n[2] = Before
      BY <2>1, <3>1, <3>2 DEF Up
    <3> QED BY <3>1, <3>3 DEF Fixed
  <2>2. \A j \in Jobs : Pc(j) = "waiting" /\ ~Up(Own(j))
    BY <2>1, ProductionNames DEF Init, Pc
  <2>3. OneVersion
    BY <2>1, <2>2 DEF OneVersion, Known, Young, Replaces, Succeeds
  <2> QED BY <2>3, InitTyped, PathInit
<1>2. IInv /\ [Next]_vars => IInv'
  <2> SUFFICES ASSUME IInv, [Next]_vars PROVE IInv'
    OBVIOUS
  <2>1. Typed' /\ \A j \in Jobs : Path(j)'
    BY StepTyped, PathKept
  <2>2. Undisturbed' => OneVersion'
    BY DisturbedForGood, OneVersionKept
  <2> QED BY <2>1, <2>2
<1>3. IInv => SingleVersion
  <2> SUFFICES ASSUME IInv,
                      \A j \in Jobs : run[j].pc \in {"waiting", "done"} /\ j \notin hit
                                      /\ ~Cancelled(j)
               PROVE  Cardinality(Running \cap Production) <= 1
    BY DEF SingleVersion
  <2>1. OneVersion
    BY DEF Typed, TypeOK, Undisturbed, Unhampered
  <2>2. ASSUME NEW m \in Production, NEW n \in Production, Up(m), Up(n), m # n
        PROVE  FALSE
    <3>1. Strategy # "consistent"
      BY <2>1, <2>2 DEF OneVersion, Known
    <3>2. ASSUME NEW j \in Jobs, Pr(j) = 0, Up(Own(j)) PROVE Past(j)
      BY <2>1, <3>1, <3>2 DEF OneVersion, Young, Unstarted, Past, Pc
    <3>3. PICK j \in Jobs, o \in {m, n} : Pr(j) = 0 /\ Up(Own(j)) /\ Own(j) # o
                                          /\ {Own(j), o} = {m, n}
      BY <2>1, <2>2 DEF OneVersion, Known
    <3>4. CASE Strategy = "rolling"
      <4>1. Past(j) /\ Replaces(j) /\ o \in Production \ {Own(j)} /\ Up(o)
        BY <2>1, <2>2, <3>1, <3>2, <3>3, <3>4 DEF OneVersion
      <4>2. \A k \in Jobs : \A l : ~Pending(k, l)
        BY DEF Pending, Pc
      <4>3. PICK k \in Jobs : Pr(k) = 0 /\ o = Own(k) /\ ~Past(k)
        BY <3>3, <4>1, <4>2 DEF Replaces
      <4> QED BY <3>2, <4>1, <4>3
    <3>5. CASE Strategy # "rolling"
      <4>1. Succeeds(j)
        BY <2>1, <3>1, <3>3, <3>5 DEF OneVersion
      <4>2. o # Fixed(0)
        BY <2>2, <3>3, <4>1 DEF Succeeds
      <4>3. PICK k \in Jobs : Pr(k) = 0 /\ o = Own(k)
        BY <2>1, <2>2, <3>3, <4>2 DEF OneVersion, Known
      <4>4. Strategy \in {"ports", "compose"} /\ setup \in Setups
        BY <3>1, <3>5, RunAssumption
           DEF Typed, TypeOK, Setup, Strategy, Strategies
      <4>5. k = j
        BY <3>3, <4>3, <4>4 DEF InTurn, Strategy, Pr
      <4> QED BY <3>3, <4>3, <4>5
    <3> QED BY <3>4, <3>5
  <2>3. Running \cap Production = {} \/ \E n : Running \cap Production = {n}
    BY <2>2 DEF Running, Up
  <2>4. CASE Running \cap Production = {}
    <3>1. Cardinality({}) = 0
      BY FS_EmptySet
    <3> QED BY <2>4, <3>1
  <2>5. CASE \E n : Running \cap Production = {n}
    <3>1. PICK n : Running \cap Production = {n}
      BY <2>5
    <3>2. Cardinality({n}) = 1
      BY FS_Singleton
    <3> QED BY <3>1, <3>2
  <2> QED BY <2>3, <2>4, <2>5
<1> QED
  BY <1>1, <1>2, <1>3, PTL DEF Spec

=============================================================================
