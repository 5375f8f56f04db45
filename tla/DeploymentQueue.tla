--------------------------- MODULE DeploymentQueue ---------------------------
(***************************************************************************)
(* The deployment queue: the rows of application_deployment_queues, the    *)
(* redis queue 'high' that carries ApplicationDeploymentJob, the web       *)
(* requests that create, cancel and force deployments, and the Horizon     *)
(* workers that run them (bootstrap/helpers/applications.php,              *)
(* app/Jobs/ApplicationDeploymentJob.php).                                 *)
(*                                                                         *)
(* Every database read, database write and redis push is a step of its     *)
(* own: no transaction or lock in the code spans two of them.  What the    *)
(* job does between its first and its last status write (building and      *)
(* rolling out containers) is the single state "run".                      *)
(***************************************************************************)
EXTENDS Naturals, FiniteSets

CONSTANTS
  MaxRows,            \* bound: deployments ever created; ids are 1..MaxRows
  Lanes,              \* an application together with a pull_request_id
  Servers,
  Commits,
  Head,               \* the commit 'HEAD', resolved to a sha by the job
  MainServer,         \* lane -> server of the application's destination
  ExtraServers,       \* lane -> servers of the additional destinations
  BuildServers,       \* lane -> build servers in use, {} when disabled
  concurrent_builds,  \* server -> server_settings.concurrent_builds
  Users,              \* web requests, webhooks and artisan commands
  Workers,            \* Horizon worker processes
  Ops,                \* the operations Users perform in this instance
  Outcomes,           \* what may happen to a deployment in this instance
  MaxOps,             \* bound: operator actions on existing deployments
  MaxFaults,          \* bound: timeouts, killed workers, failing dispatches
  MaxRestarts,        \* bound: restarts of the whole container
  NoServer, NoDeployment

Rows   == 1..MaxRows
Actors == Users \cup Workers
Status == {"absent", "queued", "in_progress", "finished", "failed",
           "cancelled-by-user"}
Active == {"queued", "in_progress"}

\* The columns of a row that the queue reads.
Deployment == [lane : Lanes, server : Servers, commit : Commits,
               only_this_server : BOOLEAN]

Operations == {"deploy", "force_rebuild", "redeploy", "force_start", "cancel",
               "api_cancel", "close_pr", "check_queue"}

\* Beyond a run that completes: one that throws, one whose new version is
\* unhealthy, and a restart that had to build.
RunOutcomes == {"throw", "unhealthy", "again"}

ASSUME QueueAssumption ==
  /\ MaxRows \in Nat
  /\ MainServer \in [Lanes -> Servers]
  /\ ExtraServers \in [Lanes -> SUBSET Servers]
  /\ BuildServers \in [Lanes -> SUBSET Servers]
  /\ concurrent_builds \in [Servers -> Nat \ {0}]
  /\ Head \in Commits
  /\ Users \cap Workers = {} /\ IsFiniteSet(Workers)
  /\ Ops \subseteq Operations /\ Outcomes \subseteq RunOutcomes
  /\ MaxOps \in Nat /\ MaxFaults \in Nat /\ MaxRestarts \in Nat
  /\ NoServer \notin Servers
  /\ NoDeployment \notin Deployment

VARIABLES
  status,   \* row -> the status column ("absent": not created yet)
  row,      \* row -> its other columns
  jobs,     \* row -> jobs for it waiting in redis
  expired,  \* row -> jobs reserved by a worker that died
  act,      \* actor -> where it is in its code, with its local variables
  up,       \* Horizon runs: the init script of this boot has finished
  lost,     \* rows left in_progress with nothing behind them (history)
  spent     \* how often each bound has been drawn on

vars == <<status, row, jobs, expired, act, up, lost, spent>>

PCs == {"idle", "create", "create_now", "admit_lane", "admit_count", "push",
        "push_new", "read", "next", "scan_count", "mark", "terminate",
        "begin", "run", "run2", "check", "write", "post", "post2"}

\* What an actor keeps in PHP variables.  cur: the deployment its job or
\* request is about; cand: the one it is about to check or dispatch; todo: the
\* rows of a query result still to be visited; local: the status its Eloquent
\* model held when last refreshed; goal, ret: the status a transition writes
\* and where the code continues after it; extra: additional servers to serve.
Idle == [pc |-> "idle", cur |-> 0, cand |-> 0, todo |-> {}, srv |-> NoServer,
         req |-> NoDeployment, local |-> "queued", goal |-> "failed",
         ret |-> "done", extra |-> {}]

ActorState == [pc : PCs, cur : Rows \cup {0}, cand : Rows \cup {0},
               todo : SUBSET Rows, srv : Servers \cup {NoServer},
               req : Deployment \cup {NoDeployment}, local : Status,
               goal : {"finished", "failed", "cancelled-by-user"},
               ret : {"done", "post", "post2", "run2"}, extra : SUBSET Servers]

TypeOK ==
  /\ status \in [Rows -> Status]
  /\ row \in [Rows -> Deployment \cup {NoDeployment}]
  /\ jobs \in [Rows -> Nat]
  /\ expired \in [Rows -> Nat]
  /\ act \in [Actors -> ActorState]
  /\ up \in BOOLEAN
  /\ lost \subseteq Rows
  /\ spent \in [{"op", "fault", "restart"} -> Nat]

Init ==
  /\ status = [d \in Rows |-> "absent"]
  /\ row = [d \in Rows |-> NoDeployment]
  /\ jobs = [d \in Rows |-> 0]
  /\ expired = [d \in Rows |-> 0]
  /\ act = [a \in Actors |-> Idle]
  /\ up = TRUE
  /\ lost = {}
  /\ spent = [k \in {"op", "fault", "restart"} |-> 0]

-----------------------------------------------------------------------------
(* Helpers *)

Goto(a, p)  == act' = [act EXCEPT ![a].pc = p]
Become(a, s) == act' = [act EXCEPT ![a] = s]

\* Where code in state me continues after a transition or a scan: a request
\* ends, failed() ends the job, a transition inside handle() returns into it.
Returned(me) == IF me.ret = "done" THEN Idle
                ELSE [me EXCEPT !.pc = me.ret, !.goal = "failed", !.ret = "done"]

\* The foreach over a query result: the next round, or the code after it.
Looped(me) == IF me.todo = {} THEN Returned([me EXCEPT !.cand = 0])
              ELSE [me EXCEPT !.pc = "next", !.cand = 0]

\* Mutation: failed() notifies but does not fail the deployment.
FailedSilently(d) == [Idle EXCEPT !.pc = "post", !.cur = d]

\* catch (Exception) in handle(), the timeout handler, MaxAttemptsExceeded:
\* failed() runs on a fresh copy of the job.
Failed(d) == [Idle EXCEPT !.pc = "check", !.cur = d]

Oldest(d, S) == d \in S /\ \A e \in S : d <= e

\* ids are handed out in order, and created_at follows them
NewRow(d) == /\ status[d] = "absent"
             /\ \A e \in Rows : e < d => status[e] # "absent"

InProgress(d) == status[d] = "in_progress"

LaneBusy(l) == \E e \in Rows : InProgress(e) /\ row[e].lane = l

ServerFull(s) ==
  Cardinality({e \in Rows : InProgress(e) /\ row[e].server = s})
    >= concurrent_builds[s]

\* Mutation: the scan looks at the server the job deployed to.
ScanServerOfRow(a) == IF a \in Workers THEN row[act[a].cur].server ELSE act[a].srv

ScanServer(a) == IF a \in Workers THEN MainServer[row[act[a].cur].lane]
                 ELSE act[a].srv

\* A dispatch that is cut off leaves this row marked with no job behind it.
CutOff(a) == {d \in Rows : act[a].pc = "push" /\ act[a].cand = d /\ InProgress(d)}

\* Worker w is in handle(), its job reserved in redis.  Whatever else a busy
\* worker does is done by failed(), and Job::fail() has deleted the job by then.
Handling(w) == /\ act[w].pc # "idle"
               /\ \/ act[w].pc \in {"begin", "run", "run2", "post", "post2"}
                  \/ act[w].ret # "done"

\* Worker w has row d's job and has still to write d's status or to find it
\* terminal: its next write of the column would not be skipped as clean.
Holds(w, d) ==
  /\ act[w].cur = d
  /\ \/ act[w].pc \in {"begin", "run", "run2", "check"}
     \/ act[w].pc = "write" /\ act[w].local # act[w].goal

\* A worker that dies in failed() before the status write leaves this row marked.
Orphan(w) == {d \in Rows : InProgress(d) /\ Holds(w, d) /\ ~Handling(w)}

\* What would release row d's slot is not in redis: the push is still to come,
\* or the job is deleted and failed() has still to write the status.
Exposed(d) == \/ \E a \in Actors : d \in CutOff(a)
              \/ \E w \in Workers : d \in Orphan(w)

Spend(kind, bound) == /\ spent[kind] < bound
                      /\ spent' = [spent EXCEPT ![kind] = @ + 1]

-----------------------------------------------------------------------------
(* queue_application_deployment *)

Existing(l, c) == \E d \in Rows : /\ status[d] \in Active
                                  /\ row[d].lane = l /\ row[d].commit = c

\* The check for an existing deployment: without force_rebuild or rollback a
\* request that finds one is answered 'skipped' and changes nothing.
CheckExisting(u) ==
  /\ "deploy" \in Ops /\ act[u].pc = "idle"
  /\ \E d \in Rows : NewRow(d)
  /\ \E l \in Lanes, c \in Commits :
       /\ "force_rebuild" \in Ops \/ ~Existing(l, c)
       /\ Become(u, [Idle EXCEPT !.pc = "create",
                       !.req = [lane |-> l, server |-> MainServer[l],
                                commit |-> c, only_this_server |-> FALSE]])
  /\ UNCHANGED <<status, row, jobs, expired, up, lost, spent>>

\* The same with no_questions_asked: "Redeploy" on one destination
\* (only_this_server) and the API's instant_deploy.
Redeploy(u) ==
  /\ "redeploy" \in Ops /\ act[u].pc = "idle"
  /\ \E d \in Rows : NewRow(d)
  /\ \E l \in Lanes, only \in BOOLEAN :
       \E s \in {MainServer[l]} \cup (IF only THEN ExtraServers[l] ELSE {}) :
         Become(u, [Idle EXCEPT !.pc = "create_now",
                      !.req = [lane |-> l, server |-> s, commit |-> Head,
                               only_this_server |-> only]])
  /\ UNCHANGED <<status, row, jobs, expired, up, lost, spent>>

\* ApplicationDeploymentQueue::create; status defaults to 'queued'.
CreateRow(u) ==
  /\ act[u].pc \in {"create", "create_now"}
  /\ \/ \E d \in Rows :
          /\ NewRow(d)
          /\ status' = [status EXCEPT ![d] = "queued"]
          /\ row' = [row EXCEPT ![d] = act[u].req]
          /\ Become(u, [Idle EXCEPT !.cand = d,
                          !.pc = IF act[u].pc = "create" THEN "admit_lane"
                                 ELSE "push"])
     \/ /\ ~\E d \in Rows : NewRow(d)  \* past the bound MaxRows
        /\ Become(u, Idle)
        /\ UNCHANGED <<status, row>>
  /\ UNCHANGED <<jobs, expired, up, lost, spent>>

\* next_queuable for the row just created, first query: a deployment of this
\* application and pull_request_id is in progress; the row stays queued.
AdmitLane(u) ==
  /\ act[u].pc = "admit_lane"
  /\ Become(u, IF LaneBusy(row[act[u].cand].lane) THEN Idle
               ELSE [act[u] EXCEPT !.pc = "admit_count"])
  /\ UNCHANGED <<status, row, jobs, expired, up, lost, spent>>

\* Second query: the server's concurrent build limit.  A new deployment that
\* passes is dispatched with its row still 'queued'.
AdmitCount(u) ==
  /\ act[u].pc = "admit_count"
  /\ Become(u, IF ServerFull(row[act[u].cand].server) THEN Idle
               ELSE [act[u] EXCEPT !.pc = "push"])
  /\ UNCHANGED <<status, row, jobs, expired, up, lost, spent>>

\* ApplicationDeploymentJob::dispatch
Push(a) ==
  /\ act[a].pc \in {"push", "push_new"}
  /\ jobs' = [jobs EXCEPT ![act[a].cand] = @ + 1]
  /\ Become(a, IF act[a].pc = "push" THEN Looped(act[a])
               ELSE [act[a] EXCEPT !.pc = "read", !.cand = 0])
  /\ UNCHANGED <<status, row, expired, up, lost, spent>>

-----------------------------------------------------------------------------
(* queue_next_deployment and next_after_cancel *)

\* ->where('status', QUEUED)->get(): the rows visited are those of this moment.
ReadQueue(a) ==
  /\ act[a].pc = "read"
  /\ act[a].extra = {} \/ ~\E d \in Rows : NewRow(d)  \* past the bound MaxRows
  /\ Become(a, Looped([act[a] EXCEPT
                  !.extra = {},
                  !.todo = {d \in Rows : /\ status[d] = "queued"
                                         /\ row[d].server = ScanServer(a)}]))
  /\ UNCHANGED <<status, row, jobs, expired, up, lost, spent>>

\* ->sortBy('created_at'), then next_queuable's first query for the oldest row.
ScanLane(a) ==
  /\ act[a].pc = "next"
  /\ \E d \in Rows :
       /\ Oldest(d, act[a].todo)
       /\ LET rest == [act[a] EXCEPT !.todo = act[a].todo \ {d}]
          IN  Become(a, IF LaneBusy(row[d].lane) THEN Looped(rest)
                        ELSE [rest EXCEPT !.pc = "scan_count", !.cand = d])
  /\ UNCHANGED <<status, row, jobs, expired, up, lost, spent>>

\* Its second query.
ScanCount(a) ==
  /\ act[a].pc = "scan_count"
  /\ Become(a, IF ServerFull(row[act[a].cand].server) THEN Looped(act[a])
               ELSE [act[a] EXCEPT !.pc = "mark"])
  /\ UNCHANGED <<status, row, jobs, expired, up, lost, spent>>

\* update(['status' => IN_PROGRESS]) on the copy read by ReadQueue: the copy
\* says 'queued', so the column is written whatever it holds by now.
Mark(a) ==
  /\ act[a].pc = "mark"
  /\ status' = [status EXCEPT ![act[a].cand] = "in_progress"]
  /\ Goto(a, "push")
  /\ UNCHANGED <<row, jobs, expired, up, lost, spent>>

-----------------------------------------------------------------------------
(* Operator actions on a deployment *)

\* "Force Start": no look at the status, no look at the limits.
ForceStart(u, d) ==
  /\ "force_start" \in Ops /\ act[u].pc = "idle" /\ status[d] # "absent"
  /\ Spend("op", MaxOps)
  /\ status' = [status EXCEPT ![d] = "in_progress"]
  /\ Become(u, [Idle EXCEPT !.pc = "push", !.cand = d])
  /\ UNCHANGED <<row, jobs, expired, up, lost>>

\* "Cancel" in the deployment view: marks the row whatever its status (the
\* page that shows the button may be older than the row), then scans the queue
\* of the server it cleaned up; with a build server, that is the build server
\* once the job has chosen one and the main server before.
Cancel(u, d) ==
  /\ "cancel" \in Ops /\ act[u].pc = "idle" /\ status[d] # "absent"
  /\ Spend("op", MaxOps)
  /\ status' = [status EXCEPT ![d] = "cancelled-by-user"]
  /\ \E s \in IF BuildServers[row[d].lane] = {} THEN {row[d].server}
              ELSE {MainServer[row[d].lane]} \cup BuildServers[row[d].lane] :
       Become(u, [Idle EXCEPT !.pc = "read", !.srv = s])
  /\ UNCHANGED <<row, jobs, expired, up, lost>>

\* DeployController::cancel_deployment: refuses unless queued or in progress,
\* marks the row in a later query, and scans nothing.
ApiCancel(u, d) ==
  /\ "api_cancel" \in Ops /\ act[u].pc = "idle" /\ status[d] \in Active
  /\ Spend("op", MaxOps)
  /\ Become(u, [Idle EXCEPT !.pc = "terminate", !.todo = {d},
                            !.goal = "cancelled-by-user"])
  /\ UNCHANGED <<status, row, jobs, expired, up, lost>>

\* A closed pull request: DeleteResourceJob::deleteApplicationPreview reads the
\* active deployments of the lane and marks them one by one.
ClosePullRequest(u, l) ==
  /\ "close_pr" \in Ops /\ act[u].pc = "idle"
  /\ Spend("op", MaxOps)
  /\ LET active == {d \in Rows : status[d] \in Active /\ row[d].lane = l}
     IN  /\ active # {}
         /\ Become(u, [Idle EXCEPT !.pc = "terminate", !.todo = active,
                                   !.goal = "cancelled-by-user"])
  /\ UNCHANGED <<status, row, jobs, expired, up, lost>>

\* artisan check:deployment-queue --force: fails the active rows created up to
\* some moment, one by one, from the list it read; cleanup:deployment-queue does
\* so for those of a server.
CheckDeploymentQueue(u) ==
  /\ "check_queue" \in Ops /\ act[u].pc = "idle"
  /\ Spend("op", MaxOps)
  /\ \E k \in Rows, s \in Servers :
       \E old \in {{d \in Rows : d <= k /\ status[d] \in Active},
                  {d \in Rows : status[d] \in Active /\ row[d].server = s}} :
         /\ old # {}
         /\ Become(u, [Idle EXCEPT !.pc = "terminate", !.todo = old])
  /\ UNCHANGED <<status, row, jobs, expired, up, lost>>

\* The marking loop of the three operations above.
Terminate(u) ==
  /\ act[u].pc = "terminate"
  /\ \E d \in Rows :
       /\ Oldest(d, act[u].todo)
       /\ status' = [status EXCEPT ![d] = act[u].goal]
       /\ Become(u, IF act[u].todo = {d} THEN Idle
                    ELSE [act[u] EXCEPT !.todo = act[u].todo \ {d}])
  /\ UNCHANGED <<row, jobs, expired, up, lost, spent>>

-----------------------------------------------------------------------------
(* ApplicationDeploymentJob on a Horizon worker *)

\* Mutation: handle() without the look for a cancellation.
ReserveUnchecked(w, d) ==
  /\ up /\ act[w].pc = "idle" /\ jobs[d] > 0
  /\ jobs' = [jobs EXCEPT ![d] = @ - 1]
  /\ Become(w, [Idle EXCEPT !.pc = "begin", !.cur = d, !.local = status[d]])
  /\ UNCHANGED <<status, row, expired, up, lost, spent>>

\* Mutation: a reserved job is not removed from the waiting ones just once.
ReserveTwice(w, d) ==
  /\ up /\ act[w].pc = "idle" /\ status[d] # "absent"
  /\ jobs' = [jobs EXCEPT ![d] = @ - 1]
  /\ Become(w, [Idle EXCEPT !.pc = "begin", !.cur = d, !.local = status[d]])
  /\ UNCHANGED <<status, row, expired, up, lost, spent>>

\* A worker reserves any waiting job: other supervisors, other jobs of the
\* queue 'high' and after_commit leave the order open.  handle() refreshes the
\* row first, and a cancelled deployment ends here.
Reserve(w, d) ==
  /\ up /\ act[w].pc = "idle" /\ jobs[d] > 0
  /\ jobs' = [jobs EXCEPT ![d] = @ - 1]
  /\ Become(w, IF status[d] = "cancelled-by-user" THEN Idle
               ELSE [Idle EXCEPT !.pc = "begin", !.cur = d, !.local = status[d]])
  /\ UNCHANGED <<status, row, expired, up, lost, spent>>

\* After retry_after (a day) a dead worker's job is handed out again; tries = 1
\* is used up, so the worker goes straight to failed().
ReserveExpired(w, d) ==
  /\ up /\ act[w].pc = "idle" /\ expired[d] > 0
  /\ expired' = [expired EXCEPT ![d] = @ - 1]
  /\ Become(w, Failed(d))
  /\ UNCHANGED <<status, row, jobs, up, lost, spent>>

\* update(['status' => IN_PROGRESS]): Eloquent writes only what differs from
\* the copy, so nothing is written when the copy already said in_progress.
HandleUpdate(w) ==
  /\ act[w].pc = "begin"
  /\ status' = IF act[w].local = "in_progress" THEN status
               ELSE [status EXCEPT ![act[w].cur] = "in_progress"]
  /\ Become(w, [act[w] EXCEPT !.pc = "run", !.local = "queued"])
  /\ UNCHANGED <<row, jobs, expired, up, lost, spent>>

\* check_git_if_build_needed stores the sha the branch points to, over 'HEAD'
\* and over the sha a webhook asked for.
ResolveCommit(w) ==
  /\ act[w].pc = "run"
  /\ \E c \in Commits \ {Head} : row' = [row EXCEPT ![act[w].cur].commit = c]
  /\ UNCHANGED <<status, jobs, expired, act, up, lost, spent>>

\* Mutation: isInTerminalState counts 'finished' among the terminal states.
TransitionFinishedTerminal(w, me) ==
  LET s == status[me.cur]
  IN  /\ Become(w, CASE s \in {"failed", "finished"} -> Returned(me)
                     [] s = "cancelled-by-user" /\ me.ret = "done" -> Idle
                     [] s = "cancelled-by-user" -> Failed(me.cur)
                     [] OTHER -> [me EXCEPT !.pc = "write", !.local = s])
      /\ UNCHANGED <<status, row, jobs, expired, up, lost, spent>>

\* transitionToStatus up to the end of isInTerminalState, by code in state me:
\* refresh; 'failed' returns without a scan; 'cancelled-by-user' throws, into
\* handle()'s catch or out of failed(); anything else, 'finished' too, goes on.
Transition(w, me) ==
  LET s == status[me.cur]
  IN  /\ Become(w, CASE s = "failed" -> Returned(me)
                     [] s = "cancelled-by-user" /\ me.ret = "done" -> Idle
                     [] s = "cancelled-by-user" -> Failed(me.cur)
                     [] OTHER -> [me EXCEPT !.pc = "write", !.local = s])
      /\ UNCHANGED <<status, row, jobs, expired, up, lost, spent>>

\* stop_running_container finds the new version unhealthy: failDeployment(),
\* and the run goes on.
Unhealthy(w) ==
  /\ "unhealthy" \in Outcomes /\ act[w].pc = "run"
  /\ Transition(w, [act[w] EXCEPT !.goal = "failed", !.ret = "run2"])

\* post_deployment or just_restart: completeDeployment().
Complete(w) ==
  /\ act[w].pc \in {"run", "run2"}
  /\ Transition(w, [act[w] EXCEPT !.goal = "finished", !.ret = "post"])

\* just_restart that had to build: should_skip_build runs the whole deployment
\* through decide_what_to_do, and just_restart completes it once more.
CompleteAgain(w) ==
  /\ "again" \in Outcomes /\ act[w].pc = "post"
  /\ Transition(w, [act[w] EXCEPT !.goal = "finished", !.ret = "post2"])

\* failed(): failDeployment().
FailDeployment(w) ==
  /\ act[w].pc = "check"
  /\ Transition(w, act[w])

\* Mutation: catch without $this->fail().
ThrowUnreported(w) ==
  /\ act[w].pc \in {"run", "run2", "post", "post2"}
  /\ Become(w, Idle)
  /\ UNCHANGED <<status, row, jobs, expired, up, lost, spent>>

\* An exception inside handle()'s try block, or a server that is not
\* functional: $this->fail() runs failed().
Throw(w) ==
  /\ "throw" \in Outcomes
  /\ \/ act[w].pc \in {"run", "run2", "post", "post2"}
     \/ act[w].pc = "read" /\ act[w].goal = "finished"
  /\ Become(w, Failed(act[w].cur))
  /\ UNCHANGED <<status, row, jobs, expired, up, lost, spent>>

\* handle() returns
Finish(w) ==
  /\ act[w].pc \in {"post", "post2"}
  /\ Become(w, Idle)
  /\ UNCHANGED <<status, row, jobs, expired, up, lost, spent>>

\* Mutation: transitionToStatus without queue_next_deployment.
WriteStatusOnly(w) ==
  /\ act[w].pc = "write"
  /\ status' = [status EXCEPT ![act[w].cur] = act[w].goal]
  /\ Become(w, Returned(act[w]))
  /\ UNCHANGED <<row, jobs, expired, up, lost, spent>>

\* updateDeploymentStatus, with the same dirty check; on success
\* handleSuccessfulDeployment goes on to the additional destinations.
WriteStatus(w) ==
  LET me == act[w]
      d  == me.cur
      l  == row[d].lane
  IN  /\ me.pc = "write"
      /\ status' = IF me.local = me.goal THEN status
                   ELSE [status EXCEPT ![d] = me.goal]
      /\ Become(w, [me EXCEPT !.pc = "read", !.local = "queued",
                      !.extra = IF /\ me.goal = "finished"
                                   /\ ~row[d].only_this_server
                                   /\ row[d].server \notin ExtraServers[l]
                                THEN ExtraServers[l] ELSE {}])
      /\ UNCHANGED <<row, jobs, expired, up, lost, spent>>

\* deploy_to_additional_destinations: one more deployment per server, each
\* created and dispatched with no_questions_asked; then the queue is scanned.
DeployToAdditional(w) ==
  /\ act[w].pc = "read"
  /\ \E s \in act[w].extra, d \in Rows :
       /\ NewRow(d)
       /\ status' = [status EXCEPT ![d] = "queued"]
       /\ row' = [row EXCEPT ![d] = [lane |-> row[act[w].cur].lane, server |-> s,
                                     commit |-> Head, only_this_server |-> FALSE]]
       /\ Become(w, [act[w] EXCEPT !.pc = "push_new", !.cand = d,
                                   !.extra = act[w].extra \ {s}])
  /\ UNCHANGED <<jobs, expired, up, lost, spent>>

-----------------------------------------------------------------------------
(* Faults *)

\* The job's timeout: SIGALRM runs failed() in the middle of handle().  In the
\* middle of failed() it finds the job deleted and just ends the worker.
Timeout(w) ==
  /\ Spend("fault", MaxFaults)
  /\ Handling(w)
  /\ lost' = lost \cup CutOff(w)
  /\ Become(w, Failed(act[w].cur))
  /\ UNCHANGED <<status, row, jobs, expired, up>>

\* The worker process dies (OOM, SIGKILL): its job stays reserved, if failed()
\* was not called for it yet.
KillWorker(w) ==
  /\ Spend("fault", MaxFaults)
  /\ act[w].pc # "idle"
  /\ lost' = lost \cup CutOff(w) \cup Orphan(w)
  /\ expired' = IF Handling(w) THEN [expired EXCEPT ![act[w].cur] = @ + 1]
                ELSE expired
  /\ Become(w, Idle)
  /\ UNCHANGED <<status, row, jobs, up>>

\* dispatch throws: the job's constructor dereferences the application, the
\* server and the destination of the row, and any of them may be gone; or redis
\* refuses the push, of the job or of the notification that a deployment failed.
DispatchThrows(a) ==
  /\ Spend("fault", MaxFaults)
  /\ \/ act[a].pc \in {"push", "push_new"}
     \/ a \in Workers /\ act[a].pc = "read" /\ act[a].goal = "failed"
  /\ lost' = lost \cup CutOff(a)
  /\ Become(a, IF a \in Workers /\ act[a].ret # "done" THEN Failed(act[a].cur)
               ELSE Idle)
  /\ UNCHANGED <<status, row, jobs, expired, up>>

\* The container stops: every process dies; redis and the database persist.
Shutdown ==
  /\ Spend("restart", MaxRestarts)
  /\ up /\ up' = FALSE
  /\ lost' = lost \cup {d \in Rows : Exposed(d)}
  /\ expired' = [d \in Rows |-> expired[d] +
       Cardinality({w \in Workers : Handling(w) /\ act[w].cur = d})]
  /\ act' = [a \in Actors |-> Idle]
  /\ UNCHANGED <<status, row, jobs>>

\* Mutation: the unfinished deployments are put back into the queue.
AppInitRequeues ==
  /\ ~up /\ up' = TRUE
  /\ status' = [d \in Rows |-> IF status[d] \in Active THEN "queued" ELSE status[d]]
  /\ lost' = {}
  /\ UNCHANGED <<row, jobs, expired, act, spent>>

\* artisan app:init at boot, before Horizon starts (the web server may already
\* answer): every active deployment is failed.
AppInit ==
  /\ ~up /\ up' = TRUE
  /\ status' = [d \in Rows |-> IF status[d] \in Active THEN "failed" ELSE status[d]]
  /\ lost' = {}
  /\ UNCHANGED <<row, jobs, expired, act, spent>>

-----------------------------------------------------------------------------

\* A new request
Request(u) ==
  \/ CheckExisting(u) \/ Redeploy(u) \/ CheckDeploymentQueue(u)
  \/ \E d \in Rows : ForceStart(u, d) \/ Cancel(u, d) \/ ApiCancel(u, d)
  \/ \E l \in Lanes : ClosePullRequest(u, l)

\* Steps shared by requests and workers
Scan(a) == ReadQueue(a) \/ ScanLane(a) \/ ScanCount(a) \/ Mark(a) \/ Push(a)

\* The rest of a request
Respond(u) ==
  CreateRow(u) \/ AdmitLane(u) \/ AdmitCount(u) \/ Terminate(u) \/ Scan(u)

\* A worker's next step
Work(w) ==
  \/ \E d \in Rows : Reserve(w, d) \/ ReserveExpired(w, d)
  \/ HandleUpdate(w) \/ ResolveCommit(w) \/ Unhealthy(w) \/ Complete(w)
  \/ CompleteAgain(w) \/ FailDeployment(w) \/ Throw(w) \/ Finish(w)
  \/ WriteStatus(w) \/ DeployToAdditional(w) \/ Scan(w)

Disturb ==
  \/ \E w \in Workers : Timeout(w) \/ KillWorker(w)
  \/ \E a \in Actors : DispatchThrows(a)
  \/ Shutdown \/ AppInit

Next == \/ \E u \in Users : Request(u) \/ Respond(u)
        \/ \E w \in Workers : Work(w)
        \/ Disturb

\* PHP runs a request it has started to its end, Horizon keeps its workers
\* working, and a stopped container boots.  Nobody has to make a request.
Fairness == /\ \A u \in Users : WF_vars(Respond(u))
            /\ \A w \in Workers : WF_vars(Work(w))
            /\ WF_vars(AppInit)

Spec     == Init /\ [][Next]_vars
FairSpec == Spec /\ Fairness

-----------------------------------------------------------------------------
(* Properties *)

Created(d) == status[d] # "absent"

\* With st in the status column, the deployments that code in state me refers
\* to are rows of the table.
Refers(st, me) ==
  /\ me.cur # 0 => st[me.cur] # "absent"
  /\ me.cand # 0 => st[me.cand] # "absent"
  /\ \A d \in me.todo : st[d] # "absent"
  /\ me.pc \in {"create", "create_now"} => me.req \in Deployment
  /\ me.pc \in {"admit_lane", "admit_count", "push", "push_new", "scan_count",
                "mark"} => me.cand # 0

\* Whatever the processes and the redis queue refer to is a row of the table.
References ==
  /\ \A d \in Rows : /\ Created(d) => row[d] \in Deployment
                     /\ (jobs[d] > 0 \/ expired[d] > 0) => Created(d)
  /\ \A a \in Actors : Refers(status, act[a])
  /\ \A w \in Workers : act[w].pc # "idle" => act[w].cur # 0

Dispatching(a, d) == act[a].pc = "push" /\ act[a].cand = d

Carried(d) == \/ jobs[d] > 0 \/ expired[d] > 0
              \/ \E w \in Workers : Holds(w, d)
              \/ \E a \in Actors : Dispatching(a, d)

\* Every deployment that occupies a build slot (a row 'in_progress') has a job
\* that will release it: waiting in redis, reserved, running, in failed(), or
\* about to be dispatched.  The only rows left out are those whose dispatch was
\* cut off between the status update and the push (applications.php 107-113,
\* 88-94) and those whose worker died in failed() before the status write.
SlotHeld == \A d \in Rows : InProgress(d) => Carried(d) \/ d \in lost

\* A queued deployment that nobody is about to start: no job, no request that
\* is still admitting or dispatching it.
Waiting(d) ==
  /\ status[d] = "queued" /\ ~Carried(d)
  /\ \A a \in Actors : act[a].cand # d

\* Actor a will run the query for the queued rows of server s.
WillScan(a, s) ==
  /\ \/ act[a].pc \in {"read", "push_new", "write"}
     \/ /\ act[a].pc = "check"
        /\ status[act[a].cur] \notin {"failed", "cancelled-by-user"}
  /\ ScanServer(a) = s

\* A waiting deployment is never forgotten: a deployment that blocks it is in
\* progress, or somebody has it on the list of a scan or is going to scan its
\* server (or Horizon is down and app:init will fail it).  This is what
\* queue_next_deployment and next_after_cancel after every release are for.
NobodyForgotten ==
  \A d \in Rows : Waiting(d) =>
    \/ \E e \in Rows : /\ InProgress(e)
                       /\ \/ row[e].lane = row[d].lane
                          \/ row[e].server = row[d].server
    \/ \E a \in Actors : d \in act[a].todo \/ WillScan(a, row[d].server)
    \/ ~up

\* Somebody read row d before it was cancelled and may still write its status.
StaleCopy(d) ==
  \/ \E a \in Actors : \/ d \in act[a].todo
                       \/ act[a].cand = d /\ act[a].pc \in {"scan_count", "mark"}
  \/ \E w \in Workers : act[w].cur = d /\ act[w].pc \in {"begin", "write"}

Cancelled(d) == status[d] = "cancelled-by-user" /\ ~StaleCopy(d)

\* A cancellation is final as soon as nobody holds a copy of the row from
\* before it: jobs of the deployment may still wait in redis or be running,
\* and scans go on, but nothing takes the deployment up again.
CancelFinal == [][\A d \in Rows : Cancelled(d) => Cancelled(d)']_vars

\* A build slot is always released: the job has a timeout, and every way out of
\* it passes through a status write.
SlotReleased == \A d \in Rows : InProgress(d) ~> ~InProgress(d)

\* A queued deployment is eventually started, cancelled or failed.
QueueServed == \A d \in Rows : (status[d] = "queued") ~> (status[d] # "queued")

\* server/advanced.blade.php:35: "You can specify the number of simultaneous
\* build processes/deployments that should run concurrently."
ConcurrentLimit ==
  \A s \in Servers :
    Cardinality({d \in Rows : InProgress(d) /\ row[d].server = s})
      <= concurrent_builds[s]

\* What a deployment is to a reader of the queue: status without its outcome.
Phase(d) == CASE status[d] = "absent"      -> "none"
              [] status[d] = "queued"      -> "waiting"
              [] status[d] = "in_progress" -> "slot"
              [] OTHER                     -> "over"

Slots == INSTANCE BuildSlots WITH
           Deployments <- Rows,
           MayForce    <- "force_start" \in Ops,
           phase       <- [d \in Rows |-> Phase(d)],
           carried     <- {d \in Rows : Carried(d)},
           exposed     <- {d \in Rows : Exposed(d)},
           settled     <- {d \in Rows : Cancelled(d)}

\* The queue implements BuildSlots: no step of a request, a worker, a crash or
\* a boot takes a deployment back to the queue, gives it a slot nothing will
\* release, takes away what would release its slot while that is in redis, or
\* revives a cancelled one.
Implements == Slots!Spec

=============================================================================
