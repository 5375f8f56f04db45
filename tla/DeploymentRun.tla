---------------------------- MODULE DeploymentRun ----------------------------
(***************************************************************************)
(* What ApplicationDeploymentJob::handle() does on the servers: the helper *)
(* ("builder") container of a deployment, the containers of the old and of *)
(* the new version, the health check and the rolling update, while the     *)
(* cancel button and the helper clean-up act on the same containers from   *)
(* other processes (app/Jobs/ApplicationDeploymentJob.php,                 *)
(* app/Traits/ExecuteRemoteCommand.php).                                   *)
(*                                                                         *)
(* One application on one deployment server, not a swarm.  A remote        *)
(* command is two steps: the look at the row for a cancellation, and its   *)
(* effect.  DeploymentQueue says when a job is reserved.                   *)
(***************************************************************************)
EXTENDS Naturals, FiniteSets

CONSTANTS
  Deployments,
  Jobs,
  DeploymentOf,        \* job -> the deployment it was dispatched for
  Setups,              \* the settings and deployments an instance starts from
  health_check_retries,
  MaxBuilders,         \* bound: builder containers started by one job
  MaxOps,              \* bound: cancellations and helper clean-ups
  MaxFaults,           \* bound: timeouts, killed workers, lost commands
  Before,              \* the version that ran at the beginning
  Gone,                \* no container of that name
  NoBuilder

\* strategy: how the application's settings make it roll out: "rolling" when
\* nothing of the following applies; "ports": mapped to the host, or a custom IP;
\* "consistent": a fixed container name; "compose": its build pack.
Strategies == {"rolling", "ports", "consistent", "compose"}

\* What the application and its deployments are configured with: a health check,
\* a post-deployment command, a build server, the build pack 'dockerimage';
\* deployments that only restart, and the pull request of each, or 0.
Setup == [strategy : Strategies, health_check : BOOLEAN, post_command : BOOLEAN,
          build_server : BOOLEAN, docker_image : BOOLEAN,
          restart_only : SUBSET Deployments, pull_request_id : [Deployments -> Nat]]

ASSUME RunAssumption ==
  /\ DeploymentOf \in [Jobs -> Deployments]
  /\ Setups \subseteq Setup
  /\ \A s \in Setups : s.docker_image => s.strategy # "compose"
  /\ health_check_retries \in Nat \ {0}
  /\ MaxBuilders \in Nat \ {0} /\ MaxOps \in Nat /\ MaxFaults \in Nat
  /\ Before \notin Jobs /\ Gone \notin Jobs \cup {Before}
  /\ NoBuilder \notin Jobs \X (1..MaxBuilders)

VARIABLES
  setup,       \* the setup of this instance, never changed
  status,      \* deployment -> the status column
  run,         \* job -> where it is in handle() or failed(), with its locals
  containers,  \* container name -> the version running under it, or Gone
  builder,     \* deployment, server -> the container there that has its
               \* deployment_uuid as its name: which job started it, and
               \* which one of that job's it is
  killing,     \* deployments whose cancellation has still to kill the builder
  cleanup,     \* CleanupHelperContainersJob
  orphan,      \* commands that outlived the process that issued them
  hit,         \* jobs interrupted or deprived of a command (history)
  spent        \* how often each bound has been drawn on

vars == <<setup, status, run, containers, builder, killing, cleanup, orphan, hit,
          spent>>

Strategy       == setup.strategy
UseBuildServer == setup.build_server
Pr(j)          == setup.pull_request_id[DeploymentOf[j]]

\* deploy_dockerimage_buildpack: previews take deploy_pull_request instead.
PullsImage(j) == setup.docker_image /\ Pr(j) = 0

Status == {"absent", "queued", "in_progress", "finished", "failed",
           "cancelled-by-user"}
Active == {"queued", "in_progress"}

\* Production containers of the other strategies carry the time of their
\* dispatch in their name; previews and consistent names are fixed.
Fixed(p)  == <<p, Before>>
PullRequests == {s.pull_request_id[d] : s \in Setups, d \in Deployments} \cup {0}
Names     == PullRequests \X (Jobs \cup {Before})
Versions  == Jobs \cup {Before}
ContainerName(j) == IF Pr(j) # 0 \/ Strategy = "consistent" THEN Fixed(Pr(j))
                    ELSE <<0, j>>

\* Commands whose failure is ignored, in graceful_shutdown_container
Graceful == {"unbuild", "rebuild", "stop", "undo", "tidy"}
\* The other steps that begin with a look for a cancellation
Strict   == {"run_builder", "build", "start", "health", "logs", "remove"}
PCs == Graceful \cup Strict \cup
       {"waiting", "begin", "prepare", "rolling", "list", "unhealthy", "complete",
        "write", "post", "failed", "dead", "done"}

\* The servers: where the application runs, and the build server.
Hosts == {"main", "build"}

\* armed: the look at the row is over and the command is on its way.  stop:
\* containers still to be stopped; copy: the status the model held when last
\* refreshed; goal, ret: what a transition writes and where the code goes on;
\* code: of the exception; tidy: inside handle()'s try, so that its finally
\* block will run; server: $this->server, where commands go; mode: "nested" is
\* a restart that had to build.
JobState == [pc : PCs, armed : BOOLEAN, stop : SUBSET Names, healthy : BOOLEAN,
             tries : Nat, builders : Nat, copy : Status,
             goal : {"finished", "failed"},
             ret : {"undo", "post", "tidy", "remove"},
             code : {"none", "error", "cancelled"}, tidy : BOOLEAN,
             server : Hosts, mode : {"deploy", "restart", "nested"}]

Builder == Jobs \X (1..MaxBuilders)

TypeOK ==
  /\ setup \in Setups
  /\ status \in [Deployments -> Status]
  /\ run \in [Jobs -> JobState]
  /\ containers \in [Names -> Versions \cup {Gone}]
  /\ builder \in [Deployments \X Hosts -> Builder \cup {NoBuilder}]
  /\ killing \subseteq Deployments
  /\ cleanup \in [phase : {"idle", "listed", "remove"}, server : Hosts,
                  active : SUBSET Deployments, found : SUBSET (Deployments \X Builder)]
  /\ orphan \subseteq Jobs \X {"start", "run_builder"}
  /\ hit \subseteq Jobs
  /\ spent \in [{"op", "fault"} -> Nat]

Init ==
  /\ setup \in Setups
  /\ status = [d \in Deployments |-> "absent"]
  /\ run = [j \in Jobs |->
       [pc |-> "waiting", armed |-> FALSE, stop |-> {}, healthy |-> FALSE,
        tries |-> 0, builders |-> 0, copy |-> "queued", goal |-> "finished",
        ret |-> "post", code |-> "none", tidy |-> FALSE, server |-> "main",
        mode |-> IF DeploymentOf[j] \in setup.restart_only THEN "restart" ELSE "deploy"]]
  /\ containers \in {c \in [Names -> {Before, Gone}] :
                       /\ \A n \in Names : n[2] # Before => c[n] = Gone
                       /\ c[Fixed(0)] = Before}
  /\ builder = [x \in Deployments \X Hosts |-> NoBuilder]
  /\ killing = {}
  /\ cleanup = [phase |-> "idle", server |-> "main", active |-> {}, found |-> {}]
  /\ orphan = {} /\ hit = {}
  /\ spent = [k \in {"op", "fault"} |-> 0]

-----------------------------------------------------------------------------
(* Helpers *)

Become(j, me) == run' = [run EXCEPT ![j] = me]
At(j, p)      == run[j].pc = p /\ ~run[j].armed
Issued(j, p)  == run[j].pc = p /\ run[j].armed
Then(j, p)    == [run[j] EXCEPT !.pc = p, !.armed = FALSE]

Cancelled(j) == status[DeploymentOf[j]] = "cancelled-by-user"

\* catch (Exception) in handle(): $this->fail() runs failed()
Thrown(j, code) == [Then(j, "failed") EXCEPT !.code = code]

\* A command that fails looks at the row again before it throws.
CommandFailed(j) == Thrown(j, IF Cancelled(j) THEN "cancelled" ELSE "error")

\* Mutation: the finally block runs where the rollout left off.
FinallyHere(j) == Then(j, "tidy")

\* Where create_workdir leaves $this->server, and where finally puts it.
BuildHost(j) == IF UseBuildServer THEN "build" ELSE run[j].server

\* The finally block: with a build server, the builder is looked for there.
Finally(j) == [Then(j, "tidy") EXCEPT !.server = BuildHost(j)]

\* Mutation: no finally block after a failure.
SettledAtOnce(j) == Then(j, "done")

\* failed() is over, or has thrown: the finally block of handle(), unless the
\* exception came from before the try or failed() runs on its own.
Settled(j) == IF run[j].tidy THEN Finally(j) ELSE Then(j, "done")

Spend(kind, bound) == /\ spent[kind] < bound
                      /\ spent' = [spent EXCEPT ![kind] = @ + 1]

\* Production deployments whose settings leave rolling_update its second way
IsRolling(j) == Strategy = "rolling" /\ Pr(j) = 0

\* stop_running_container stops the container of this name, without a list.
StopsByName(j) == Strategy = "consistent" \/ (Pr(j) # 0 /\ Strategy # "compose")

Running == {n \in Names : containers[n] # Gone}

\* The pull request getCurrentApplicationContainerStatus reads off a
\* container: the pattern wants a label 'coolify.pullRequestId', the labels
\* are 'deployflow.pullRequestId', so that it never matches and (int) null is 0.
PrLabelValue(n) == 0

\* getCurrentApplicationContainerStatus(server, application, p)
Listed(p) == {n \in Running : IF p = 0 THEN PrLabelValue(n) = 0
                              ELSE PrLabelValue(n) = p}

\* failed() removes the new version
Removes(j) == /\ Strategy \in {"rolling", "ports"} /\ Pr(j) = 0
              /\ run[j].code # "cancelled"

\* The name of the builder on the server the job is working on
Mine(j) == <<DeploymentOf[j], run[j].server>>

\* graceful_shutdown_container is over, done or refused: the code after it.
AfterGraceful(j) ==
  Then(j, CASE run[j].pc = "unbuild" -> "run_builder"
            [] run[j].pc = "rebuild" -> "prepare"
            [] run[j].pc = "undo"    -> "complete"
            [] run[j].pc = "tidy"    -> "done"
            [] run[j].pc = "stop"    -> "stop")

\* execute_remote_command up to the command: refresh, and 69420 when cancelled;
\* graceful_shutdown_container catches it and leaves the container alone.
Check(j) ==
  /\ run[j].pc \in Strict \cup Graceful /\ ~run[j].armed
  /\ run[j].pc = "stop" => run[j].stop # {}
  /\ run[j].pc = "health" => setup.health_check
  /\ run[j].pc = "remove" => Removes(j)
  /\ IF ~Cancelled(j) THEN Become(j, [run[j] EXCEPT !.armed = TRUE])
     ELSE CASE run[j].pc = "stop" ->
                 \E n \in run[j].stop :
                   Become(j, [run[j] EXCEPT !.stop = @ \ {n}])
            [] run[j].pc \in Graceful \ {"stop"} -> Become(j, AfterGraceful(j))
            [] run[j].pc = "remove" -> Become(j, Settled(j))
            [] OTHER -> Become(j, Thrown(j, "cancelled"))
  /\ UNCHANGED <<status, containers, builder, killing, cleanup, orphan, hit, spent, setup>>

-----------------------------------------------------------------------------
(* handle() up to the rollout *)

\* The row is created and the job pushed (module DeploymentQueue).
Dispatch(d) ==
  /\ status[d] = "absent"
  /\ \E s \in Active : status' = [status EXCEPT ![d] = s]
  /\ UNCHANGED <<run, containers, builder, killing, cleanup, orphan, hit, spent, setup>>

\* handle(): refresh; a cancelled deployment ends here.
Reserve(j) ==
  LET s == status[DeploymentOf[j]]
  IN  /\ At(j, "waiting") /\ s # "absent"
      /\ Become(j, IF Cancelled(j) THEN Then(j, "done")
                   ELSE [Then(j, "begin") EXCEPT !.copy = s])
      /\ UNCHANGED <<status, containers, builder, killing, cleanup, orphan, hit, spent, setup>>

\* update(['status' => IN_PROGRESS]), skipped by Eloquent when the copy says so;
\* a server that is not functional fails the job before the try.
Begin(j) ==
  /\ At(j, "begin")
  /\ status' = IF run[j].copy = "in_progress" THEN status
               ELSE [status EXCEPT ![DeploymentOf[j]] = "in_progress"]
  /\ \/ Become(j, [Then(j, "prepare") EXCEPT !.tidy = TRUE])
     \/ Become(j, Thrown(j, "error"))
  /\ UNCHANGED <<containers, builder, killing, cleanup, orphan, hit, spent, setup>>

\* The methods that begin with $this->server = $this->build_server: not those
\* for a compose file and for a docker image, and not just_restart.
MovesFirst(j) == /\ UseBuildServer /\ run[j].mode # "restart"
                 /\ Strategy # "compose" /\ ~PullsImage(j)

\* The beginning of a deploy_* method or of just_restart; then
\* prepare_builder_image up to the commands: checkForCancellation, and queries
\* of the server that may fail.
PrepareBuilderImage(j) ==
  LET here == [run[j] EXCEPT !.server = IF MovesFirst(j) THEN "build" ELSE @]
  IN  /\ At(j, "prepare")
      /\ IF Cancelled(j)
         THEN Become(j, [here EXCEPT !.pc = "failed", !.code = "cancelled"])
         ELSE \/ Become(j, [here EXCEPT !.pc = "unbuild"])
              \/ Become(j, [here EXCEPT !.pc = "failed", !.code = "error"])
      /\ UNCHANGED <<status, containers, builder, killing, cleanup, orphan, hit, spent, setup>>

\* docker stop and docker rm -f of the container named deployment_uuid
ShutDownBuilder(j) ==
  /\ run[j].pc \in {"unbuild", "rebuild", "tidy"} /\ run[j].armed
  /\ builder' = [builder EXCEPT ![Mine(j)] = NoBuilder]
  /\ Become(j, AfterGraceful(j))
  /\ UNCHANGED <<status, containers, killing, cleanup, orphan, hit, spent, setup>>

\* docker run -d --name deployment_uuid: refused when the name is taken; a
\* connection lost after docker has started it reports a failure as well.
RunBuilder(j) ==
  LET free == builder[Mine(j)] = NoBuilder
      new  == <<j, run[j].builders + 1>>
  IN  /\ Issued(j, "run_builder")
      /\ \/ /\ free
            /\ builder' = [builder EXCEPT ![Mine(j)] = new]
            /\ Become(j, [Then(j, "build") EXCEPT !.builders = @ + 1])
         \/ /\ builder' = builder
            /\ Become(j, CommandFailed(j))
         \/ /\ free
            /\ builder' = [builder EXCEPT ![Mine(j)] = new]
            /\ Become(j, [CommandFailed(j) EXCEPT !.builders = @ + 1])
      /\ UNCHANGED <<status, containers, killing, cleanup, orphan, hit, spent, setup>>

\* Mutation: the builder is restarted whenever there is a commit.
BuildRestarting(j) ==
  /\ Issued(j, "build")
  /\ Become(j, Then(j, "rebuild"))
  /\ UNCHANGED <<status, containers, builder, killing, cleanup, orphan, hit, spent, setup>>

\* The commands in the builder, pre-deployment command to push, as one.  They
\* restart the builder with the actual commit, unless there is no repository,
\* or find on a restart that there is no image and begin a whole deployment.
\* From create_workdir on they go to the build server, if there is one, and end
\* with an image.  Any may fail, on either server: finally sets $this->server.
Build(j) ==
  LET again == run[j].builders < MaxBuilders  \* bound
      built == [Then(j, IF Strategy = "compose" /\ run[j].mode # "restart"
                        THEN "list" ELSE "rolling")
                  EXCEPT !.server = BuildHost(j)]
  IN  /\ Issued(j, "build")
      /\ \/ /\ builder[Mine(j)] # NoBuilder
            /\ \/ /\ builder[<<DeploymentOf[j], BuildHost(j)>>] # NoBuilder
                  /\ Become(j, built)
               \/ /\ again /\ (~PullsImage(j) \/ run[j].mode = "restart")
                  /\ Become(j, Then(j, "rebuild"))
               \/ /\ again /\ run[j].mode = "restart"
                  /\ Become(j, [Then(j, "prepare") EXCEPT !.mode = "nested"])
         \/ Become(j, CommandFailed(j))
      /\ UNCHANGED <<status, containers, builder, killing, cleanup, orphan, hit, spent, setup>>

-----------------------------------------------------------------------------
(* rolling_update *)

\* checkForCancellation, back to the deployment server, then the new version
\* first or the old one first.
RollingUpdate(j) ==
  /\ At(j, "rolling")
  /\ Become(j, IF Cancelled(j) THEN Thrown(j, "cancelled")
               ELSE [Then(j, IF IsRolling(j) THEN "start" ELSE "list")
                       EXCEPT !.server = "main"])
  /\ UNCHANGED <<status, containers, builder, killing, cleanup, orphan, hit, spent, setup>>

\* start_by_compose_file: docker compose up in the builder, always for a docker
\* image, or on the server itself: with a build server, and for a compose file
\* that is raw or kept in its repository.  A failing command may have started it.
StartByComposeFile(j) ==
  LET started == [containers EXCEPT ![ContainerName(j)] = j]
  IN  /\ Issued(j, "start")
      /\ \/ /\ \/ UseBuildServer /\ ~setup.docker_image
               \/ Strategy = "compose" \/ builder[Mine(j)] # NoBuilder
            /\ containers' = started
            /\ Become(j, Then(j, IF IsRolling(j) THEN "health" ELSE "complete"))
         \/ /\ containers' \in {containers, started}
            /\ Become(j, CommandFailed(j))
      /\ UNCHANGED <<status, builder, killing, cleanup, orphan, hit, spent, setup>>

\* health_check without a health check: healthy at once.
HealthCheckDisabled(j) ==
  /\ At(j, "health") /\ ~setup.health_check
  /\ Become(j, [Then(j, "list") EXCEPT !.healthy = TRUE])
  /\ UNCHANGED <<status, containers, builder, killing, cleanup, orphan, hit, spent, setup>>

\* Mutation: the loop forgets to count its attempts.
HealthCheckUncounted(j) ==
  /\ Issued(j, "health")
  /\ Become(j, Then(j, "health"))
  /\ UNCHANGED <<status, containers, builder, killing, cleanup, orphan, hit, spent, setup>>

\* One attempt of the loop: docker inspect, which fails when the container is
\* gone.  healthy and unhealthy end it, 'starting' counts an attempt.
InspectHealth(j) ==
  LET tries == run[j].tries + 1
  IN  /\ Issued(j, "health")
      /\ \/ /\ containers[ContainerName(j)] = j
            /\ \/ Become(j, [Then(j, "list") EXCEPT !.healthy = TRUE])
               \/ Become(j, Then(j, "logs"))
               \/ Become(j, [Then(j, IF tries < health_check_retries THEN "health"
                                     ELSE "logs") EXCEPT !.tries = tries])
         \/ Become(j, CommandFailed(j))
      /\ UNCHANGED <<status, containers, builder, killing, cleanup, orphan, hit, spent, setup>>

\* query_logs; then stop_running_container finds the version not healthy.
QueryLogs(j) ==
  /\ Issued(j, "logs")
  /\ Become(j, Then(j, "unhealthy"))
  /\ UNCHANGED <<status, containers, builder, killing, cleanup, orphan, hit, spent, setup>>

\* Mutation: the list is not filtered by the name of the new version.
ListAll(j) ==
  /\ At(j, "list")
  /\ Become(j, [Then(j, "stop") EXCEPT !.stop = Listed(Pr(j))])
  /\ UNCHANGED <<status, containers, builder, killing, cleanup, orphan, hit, spent, setup>>

\* Mutation: only the version that ran at the beginning is stopped.
ListFirst(j) ==
  /\ At(j, "list")
  /\ Become(j, [Then(j, "stop") EXCEPT
                  !.stop = {n \in Listed(Pr(j)) : containers[n] = Before}])
  /\ UNCHANGED <<status, containers, builder, killing, cleanup, orphan, hit, spent, setup>>

\* stop_running_container, healthy or forced: the one fixed name, or what the
\* list of running containers says, for production without the new one.
ListRunning(j) ==
  /\ At(j, "list")
  /\ \/ /\ StopsByName(j)
        /\ Become(j, [Then(j, "stop") EXCEPT !.stop = {ContainerName(j)}])
     \/ /\ ~StopsByName(j)
        /\ \/ Become(j, [Then(j, "stop") EXCEPT
                           !.stop = IF Pr(j) = 0 THEN Listed(0) \ {ContainerName(j)}
                                    ELSE Listed(Pr(j))])
           \/ Become(j, Thrown(j, "error"))
  /\ UNCHANGED <<status, containers, builder, killing, cleanup, orphan, hit, spent, setup>>

\* graceful_shutdown_container for each of them
StopOld(j) ==
  /\ Issued(j, "stop")
  /\ \E n \in run[j].stop :
       /\ containers' = [containers EXCEPT ![n] = Gone]
       /\ Become(j, [Then(j, "stop") EXCEPT !.stop = @ \ {n}])
  /\ UNCHANGED <<status, builder, killing, cleanup, orphan, hit, spent, setup>>

\* All of them: the rolling update is complete, the other way starts the new one.
Stopped(j) ==
  /\ At(j, "stop") /\ run[j].stop = {}
  /\ Become(j, Then(j, IF IsRolling(j) THEN "complete" ELSE "start"))
  /\ UNCHANGED <<status, containers, builder, killing, cleanup, orphan, hit, spent, setup>>

\* graceful_shutdown_container of the new version that is not healthy
UndoNew(j) ==
  /\ Issued(j, "undo")
  /\ containers' = [containers EXCEPT ![ContainerName(j)] = Gone]
  /\ Become(j, AfterGraceful(j))
  /\ UNCHANGED <<status, builder, killing, cleanup, orphan, hit, spent, setup>>

-----------------------------------------------------------------------------
(* Status transitions and the end of the job *)

\* Where commands go after a transition by code in state me: just_restart's
\* last one is followed by the finally block.
AfterTry(me) == IF me.ret = "tidy" /\ UseBuildServer THEN "build" ELSE me.server

Continued(j) == [Then(j, run[j].ret) EXCEPT !.server = AfterTry(run[j])]

\* isInTerminalState in a transition by code in state me: 'failed' returns,
\* 'cancelled-by-user' throws, into handle()'s catch or out of failed().
Transition(j, me) ==
  LET s == status[DeploymentOf[j]]
  IN  /\ Become(j, CASE s = "failed" -> [me EXCEPT !.pc = me.ret,
                                                 !.server = AfterTry(me)]
                     [] Cancelled(j) /\ me.ret = "remove" -> Settled(j)
                     [] Cancelled(j) /\ me.ret # "remove" -> Thrown(j, "cancelled")
                     [] OTHER -> [me EXCEPT !.pc = "write", !.copy = s])
      /\ UNCHANGED <<status, containers, builder, killing, cleanup, orphan, hit, spent, setup>>

\* stop_running_container, not healthy: failDeployment()
Unhealthy(j) ==
  /\ At(j, "unhealthy")
  /\ Transition(j, [run[j] EXCEPT !.goal = "failed", !.ret = "undo"])

\* post_deployment or just_restart: completeDeployment()
Complete(j) ==
  /\ At(j, "complete")
  /\ Transition(j, [run[j] EXCEPT !.goal = "finished",
                      !.ret = IF run[j].mode = "restart" THEN "tidy" ELSE "post"])

\* failed(): failDeployment()
FailDeployment(j) ==
  /\ At(j, "failed")
  /\ Transition(j, [run[j] EXCEPT !.goal = "failed", !.ret = "remove"])

\* updateDeploymentStatus, with Eloquent's dirty check.
WriteStatus(j) ==
  /\ At(j, "write")
  /\ status' = IF run[j].copy = run[j].goal THEN status
               ELSE [status EXCEPT ![DeploymentOf[j]] = run[j].goal]
  /\ Become(j, Continued(j))
  /\ UNCHANGED <<containers, builder, killing, cleanup, orphan, hit, spent, setup>>

\* run_post_deployment_command: errors of the command are swallowed; unless
\* exactly one container is listed there is no valid one, and it throws, as it
\* does when the list cannot be read.  A restart that had to build returns into
\* just_restart, which completes again.
PostDeployment(j) ==
  /\ At(j, "post")
  /\ \/ /\ setup.post_command
        /\ Become(j, Thrown(j, "error"))
     \/ /\ setup.post_command => Cardinality(Listed(Pr(j))) = 1
        /\ Become(j, IF run[j].mode = "nested"
                     THEN [Then(j, "complete") EXCEPT !.mode = "restart"]
                     ELSE Finally(j))
  /\ UNCHANGED <<status, containers, builder, killing, cleanup, orphan, hit, spent, setup>>

\* Mutation: failed() keeps the new version.
KeepNew(j) ==
  /\ Issued(j, "remove")
  /\ Become(j, Settled(j))
  /\ UNCHANGED <<status, containers, builder, killing, cleanup, orphan, hit, spent, setup>>

\* failed(): docker rm -f of the new version
RemoveNew(j) ==
  /\ Issued(j, "remove")
  /\ containers' = [containers EXCEPT ![ContainerName(j)] = Gone]
  /\ Become(j, Settled(j))
  /\ UNCHANGED <<status, builder, killing, cleanup, orphan, hit, spent, setup>>

\* failed() for a fixed name, a preview, a compose file, or 69420
LeaveNew(j) ==
  /\ At(j, "remove")
  /\ ~Removes(j)
  /\ Become(j, Settled(j))
  /\ UNCHANGED <<status, containers, builder, killing, cleanup, orphan, hit, spent, setup>>

-----------------------------------------------------------------------------
(* Other processes *)

\* The cancel button: the row first, then the builder, if there is one; with a
\* build server, there, once its copy of the row says which one it is.
Cancel(d) ==
  /\ Spend("op", MaxOps)
  /\ status[d] # "absent"
  /\ status' = [status EXCEPT ![d] = "cancelled-by-user"]
  /\ killing' = killing \cup {d}
  /\ UNCHANGED <<run, containers, builder, cleanup, orphan, hit, setup>>

KillBuilder(d) ==
  /\ d \in killing
  /\ killing' = killing \ {d}
  /\ \E h \in IF UseBuildServer THEN Hosts ELSE {"main"} :
       builder' = [builder EXCEPT ![<<d, h>>] = NoBuilder]
  /\ UNCHANGED <<status, run, containers, cleanup, orphan, hit, spent, setup>>

\* CleanupHelperContainersJob on a server: the active deployments whose
\* server_id it is, which is never that of a build server ...
ListActive ==
  /\ cleanup.phase = "idle"
  /\ Spend("op", MaxOps)
  /\ \E h \in IF UseBuildServer THEN Hosts ELSE {"main"} :
       cleanup' = [cleanup EXCEPT !.phase = "listed", !.server = h,
         !.active = {d \in Deployments : h = "main" /\ status[d] \in Active}]
  /\ UNCHANGED <<status, run, containers, builder, killing, orphan, hit, setup>>

\* ... then the helper containers, of which the others are orphans ...
ListHelpers ==
  /\ cleanup.phase = "listed"
  /\ cleanup' = [cleanup EXCEPT !.phase = "remove", !.active = {},
       !.found = {x \in Deployments \X Builder :
                    /\ builder[<<x[1], cleanup.server>>] = x[2]
                    /\ x[1] \notin cleanup.active}]
  /\ UNCHANGED <<status, run, containers, builder, killing, orphan, hit, spent, setup>>

\* ... which are removed one by one, by container id.
RemoveHelper ==
  /\ cleanup.phase = "remove"
  /\ \/ \E x \in cleanup.found :
          /\ cleanup' = [cleanup EXCEPT !.found = @ \ {x}]
          /\ LET name == <<x[1], cleanup.server>>
             IN  builder' = IF builder[name] = x[2]
                            THEN [builder EXCEPT ![name] = NoBuilder] ELSE builder
     \/ /\ cleanup.found = {}
        /\ cleanup' = [cleanup EXCEPT !.phase = "idle"]
        /\ builder' = builder
  /\ UNCHANGED <<status, run, containers, killing, orphan, hit, spent, setup>>

-----------------------------------------------------------------------------
(* Faults *)

\* What the process had on its way may still reach the server.
LeftBehind(j) == {<<j, p>> : p \in {q \in {"start", "run_builder"} : Issued(j, q)}}

\* fail() has deleted job j and called failed() for it.
Deleted(j) == run[j].code # "none"

\* The job's timeout: failed() on a fresh copy, and no finally block.  A job that
\* is deleted has no timeout but the end of its worker.
Timeout(j) ==
  /\ Spend("fault", MaxFaults)
  /\ run[j].pc # "done" /\ (run[j].pc = "begin" \/ run[j].tidy) /\ ~Deleted(j)
  /\ hit' = hit \cup {j}
  /\ orphan' = orphan \cup LeftBehind(j)
  /\ Become(j, [Thrown(j, "error") EXCEPT !.tidy = FALSE])
  /\ UNCHANGED <<status, containers, builder, killing, cleanup, setup>>

\* The worker is killed; after retry_after another one runs failed(), if the job
\* is still there.
KillWorker(j) ==
  /\ Spend("fault", MaxFaults)
  /\ run[j].pc \notin {"waiting", "dead", "done"}
  /\ hit' = hit \cup {j}
  /\ orphan' = orphan \cup LeftBehind(j)
  /\ Become(j, [Then(j, IF Deleted(j) THEN "done" ELSE "dead") EXCEPT !.tidy = FALSE])
  /\ UNCHANGED <<status, containers, builder, killing, cleanup, setup>>

ReserveExpired(j) ==
  /\ At(j, "dead")
  /\ Become(j, Thrown(j, "error"))
  /\ UNCHANGED <<status, containers, builder, killing, cleanup, orphan, hit, spent, setup>>

\* An orphaned command takes effect, on the server it was issued for.
LateEffect(j) ==
  /\ \/ /\ <<j, "start">> \in orphan
        /\ containers' = [containers EXCEPT ![ContainerName(j)] = j]
        /\ orphan' = orphan \ {<<j, "start">>}
        /\ builder' = builder
     \/ /\ <<j, "run_builder">> \in orphan
        /\ builder[Mine(j)] = NoBuilder /\ run[j].builders < MaxBuilders
        /\ builder' = [builder EXCEPT ![Mine(j)] = <<j, run[j].builders + 1>>]
        /\ orphan' = orphan \ {<<j, "run_builder">>}
        /\ containers' = containers
  /\ UNCHANGED <<status, run, killing, cleanup, hit, spent, setup>>

\* ignore_errors: the server is unreachable for a command of this kind.
CommandLost(j) ==
  /\ Spend("fault", MaxFaults)
  /\ run[j].pc \in Graceful \cup {"remove"} /\ run[j].armed
  /\ hit' = hit \cup {j}
  /\ IF run[j].pc = "remove" THEN Become(j, Settled(j))
     ELSE IF run[j].pc = "stop"
          THEN \E n \in run[j].stop : Become(j, [Then(j, "stop") EXCEPT !.stop = @ \ {n}])
          ELSE Become(j, AfterGraceful(j))
  /\ UNCHANGED <<status, containers, builder, killing, cleanup, orphan, setup>>

\* What follows the write of a status throws: a notification or the dispatch
\* of another deployment.
SideEffectThrows(j) ==
  /\ Spend("fault", MaxFaults)
  /\ At(j, "write")
  /\ status' = IF run[j].copy = run[j].goal THEN status
               ELSE [status EXCEPT ![DeploymentOf[j]] = run[j].goal]
  /\ IF run[j].ret = "remove" THEN /\ Become(j, Settled(j))
                                  /\ hit' = hit \cup {j}
     ELSE /\ Become(j, Thrown(j, "error"))
          /\ hit' = hit
  /\ UNCHANGED <<containers, builder, killing, cleanup, orphan, setup>>

-----------------------------------------------------------------------------

Work(j) ==
  \/ Reserve(j) \/ Begin(j) \/ Check(j) \/ PrepareBuilderImage(j)
  \/ ShutDownBuilder(j) \/ RunBuilder(j) \/ Build(j)
  \/ RollingUpdate(j) \/ StartByComposeFile(j) \/ HealthCheckDisabled(j)
  \/ InspectHealth(j) \/ QueryLogs(j) \/ ListRunning(j) \/ StopOld(j) \/ Stopped(j)
  \/ UndoNew(j) \/ Unhealthy(j) \/ Complete(j) \/ FailDeployment(j)
  \/ WriteStatus(j) \/ PostDeployment(j) \/ RemoveNew(j) \/ LeaveNew(j)
  \/ ReserveExpired(j)

Operate == \/ \E d \in Deployments : Dispatch(d) \/ Cancel(d) \/ KillBuilder(d)
           \/ ListActive \/ ListHelpers \/ RemoveHelper

Disturb == \E j \in Jobs : \/ Timeout(j) \/ KillWorker(j) \/ LateEffect(j)
                           \/ CommandLost(j) \/ SideEffectThrows(j)

Next == (\E j \in Jobs : Work(j)) \/ Operate \/ Disturb

\* Horizon keeps its workers working.
Spec     == Init /\ [][Next]_vars
FairSpec == Spec /\ \A j \in Jobs : WF_vars(Work(j))

-----------------------------------------------------------------------------
(* Properties *)

Production == {n \in Names : n[1] = 0}

\* Container n runs a version that served before or passed its health check.
Serving(n) == /\ containers[n] # Gone
              /\ containers[n] # Before => run[containers[n]].healthy

\* A job gave up with an error although its version had been healthy.
FailedLate(j) == run[j].healthy /\ run[j].code = "error"

\* Rolling updates keep the application served whatever goes wrong before the
\* new version is healthy: an exception, an unhealthy version, a cancellation,
\* a timeout, a killed worker, a restart that has to build.
Available ==
  \/ Strategy # "rolling"
  \/ \E n \in Production : Serving(n)
  \/ \E j \in Jobs : Pr(j) = 0 /\ FailedLate(j)

\* A failed deployment is rolled back: its version no longer runs, on whichever
\* way it failed (exception, or an unhealthy version after which the run goes
\* on), unless a fault took the job or the command that removes it away.
RolledBack ==
  \A j \in Jobs :
    /\ Strategy \in {"rolling", "ports"} /\ Pr(j) = 0 /\ j \notin hit
    /\ run[j].pc = "done" /\ status[DeploymentOf[j]] = "failed"
    => containers[ContainerName(j)] # j

\* Job j starts its first builder on the deployment server although the
\* application has a build server: a restart, a compose file, a docker image.
Misplaced(j) == /\ UseBuildServer
                /\ \/ DeploymentOf[j] \in setup.restart_only
                   \/ Strategy = "compose" \/ PullsImage(j)

\* A job that is over has left no builder behind, unless its deployment was
\* cancelled or a fault hit it: on the build server never, and on the deployment
\* server only one that it started there with a build server in use, which
\* finally (lines 362-374) does not look for.
BuilderReleased ==
  \A j \in Jobs :
    run[j].pc = "done" /\ j \notin hit /\ ~Cancelled(j)
    => \A k \in 1..MaxBuilders, h \in Hosts :
         builder[<<DeploymentOf[j], h>>] = <<j, k>> => Misplaced(j) /\ h = "main"

\* When all jobs are over, at most one production version runs, even if the
\* rolling updates of several deployments ran side by side: whoever lists the
\* running containers last leaves at most its own.
SingleVersion ==
  (\A j \in Jobs : run[j].pc \in {"waiting", "done"} /\ j \notin hit /\ ~Cancelled(j))
  => Cardinality(Running \cap Production) <= 1

\* Every deployment that has begun comes to an end: the health check counts its
\* attempts, and a restart that has to build does so once.
RunEnds == \A j \in Jobs : (run[j].pc = "begin") ~> (run[j].pc = "done")

\* CleanupHelperContainersJob.php:47: "Check if this container belongs to an
\* active deployment": the clean-up spares the builders of active deployments.
ActiveBuilderKept ==
  [][\A x \in Deployments \X Hosts :
       /\ cleanup' # cleanup
       /\ builder[x] # NoBuilder /\ builder'[x] = NoBuilder
       => status[x[1]] \notin Active]_vars

=============================================================================
