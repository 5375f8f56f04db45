--------------------------- MODULE RemoteActivity ---------------------------
(***************************************************************************)
(* Activities: commands that remote_process hands to a job, with a row in  *)
(* the database that pages follow.  The service page starts one when it    *)
(* has seen that no other is under way, or by force; restoring a database  *)
(* starts one whatever is under way.                                       *)
(*                                                                         *)
(* A worker runs the command on a copy of the row and saves it now and     *)
(* then.  Workers are killed and jobs time out, and leave their command    *)
(* running on the server; the job is tried again, or failed() ends it.     *)
(* Whatever a command does is to be followed by the activity's event: the  *)
(* refresh of a status, the removal of a restore's files.                  *)
(***************************************************************************)
EXTENDS Naturals, FiniteSets

CONSTANTS
  Pages,         \* components that start activities, one request at a time each
  Clicks,        \* handlers of clicks that pages have under way, or may have
  PageOf,        \* click -> its page
  Operations,    \* what their users may do
  tries,         \* CoolifyTask::$tries
  MAX_ACTIVITIES,\* bound: rows
  MAX_OUTPUT,    \* bound: pieces of output of one activity
  MAX_FAULTS,    \* bound: deaths of workers and requests, lost connections
  Budgets        \* how much of these an instance has, its operations and clicks

Instances == [operations : SUBSET Operations, clicks : SUBSET Clicks, activities : 0..MAX_ACTIVITIES,
              output : 0..MAX_OUTPUT, faults : 0..MAX_FAULTS]

ASSUME ActivityAssumption ==
  /\ PageOf \in [Clicks -> Pages]
  /\ Operations \subseteq {"start", "restart", "pull", "force", "restore"}
  /\ tries \in Nat \ {0}
  /\ MAX_ACTIVITIES \in Nat /\ MAX_OUTPUT \in Nat /\ MAX_FAULTS \in Nat
  /\ Budgets \subseteq Instances

Activities == 1..MAX_ACTIVITIES   \* in the order of their creation
None       == 0

VARIABLES
  row,      \* activity -> its row
  queue,    \* activity -> where redis has its job
  attempts, \* activity -> how often its job was reserved
  task,     \* activity -> the worker at its job
  running,  \* commands on servers: activity and attempt
  due,      \* activities whose commands did something after their last event
  click,    \* click -> where its handler or its request is
  said,     \* history: activity -> pieces of output so far
  harm,     \* history: what was lost to deaths and timeouts, or overridden
  budget    \* the instance; its faults are those still to come

vars == <<row, queue, attempts, task, running, due, click, said, harm, budget>>

Codes == {"none", "zero", "other"}   \* exitCode

Properties == [status : {"queued", "finished", "error"}, exitCode : Codes]

Row == [kind : {"absent", "service", "restore"}, properties : Properties,
        description : 0..MAX_OUTPUT]   \* pieces of output

Stages == {"begin", "run", "record", "event", "ack"}

Task == [pc : {"idle", "failed", "failed_event"} \cup Stages,
         properties : Properties, description : 0..MAX_OUTPUT,   \* its copy of the row
         wrote : BOOLEAN,                                        \* last_write_at # 0
         result : Codes]                                         \* of the process

\* call: the page has its answer, and will call start or restart.  missed, a
\* history: activities that began since it asked.
Handler == [pc : {"idle", "call", "recheck", "stop", "create", "push"},
            op : Operations \cup {"none"}, activity : Activities \cup {None},
            missed : SUBSET Activities]

TypeOK ==
  /\ row \in [Activities -> Row]
  /\ queue \in [Activities -> {"none", "ready", "reserved", "gone"}]
  /\ attempts \in [Activities -> 0..tries]
  /\ task \in [Activities -> Task]
  /\ running \subseteq Activities \X (1..tries) /\ due \subseteq Activities
  /\ click \in [Clicks -> Handler]
  /\ said \in [Activities -> 0..MAX_OUTPUT]
  /\ harm \subseteq {"output", "late", "cut", "forced", "overtaken"} \X Activities
  /\ budget \in Instances

Queued == [status |-> "queued", exitCode |-> "none"]
Absent == [kind |-> "absent", properties |-> Queued, description |-> 0]
Waiting(pc) ==
  [pc |-> pc, properties |-> Queued, description |-> 0, wrote |-> FALSE,
   result |-> "none"]
Free   == [pc |-> "idle", op |-> "none", activity |-> None, missed |-> {}]

Init ==
  /\ row = [a \in Activities |-> Absent]
  /\ queue = [a \in Activities |-> "none"]
  /\ attempts = [a \in Activities |-> 0]
  /\ task = [a \in Activities |-> Waiting("idle")]
  /\ running = {} /\ due = {}
  /\ click = [c \in Clicks |-> Free]
  /\ said = [a \in Activities |-> 0]
  /\ harm = {} /\ budget \in Budgets

-----------------------------------------------------------------------------
(* The pages *)

Exists(a) == row[a].kind # "absent"
OfService == {a \in Activities : row[a].kind = "service"}

\* checkDeployments: the latest activity of the service; rows are in the order of
\* created_at, no two of one second.  in_progress is never written to a row.
InProgress == \E a \in OfService : /\ \A b \in OfService : b <= a
                                   /\ row[a].properties.status = "queued"

Work  == <<queue, attempts, task, running, due, said>>
Turn(c, pc) == click' = [click EXCEPT ![c].pc = pc]

\* Livewire has one request of a component under way at a time.
Busy(p) == \E c \in Clicks : PageOf[c] = p
                             /\ click[c].pc \in {"recheck", "stop", "create", "push"}

\* A click begins: with a call of checkDeployments for startEvent and
\* restartEvent, with its only call for the others.
Click(c, op) ==
  /\ c \in budget.clicks /\ op \in budget.operations
  /\ click[c].pc = "idle" /\ ~Busy(PageOf[c])
  /\ op \in {"start", "restart"} => ~InProgress
  /\ click' = [click EXCEPT ![c].op = op,
                 ![c].pc = CASE op \in {"start", "restart"} -> "call"
                             [] op = "pull"  -> "recheck"
                             [] op = "force" -> "stop"
                             [] op = "restore" -> "create"]
  /\ UNCHANGED <<row, Work, harm, budget>>

\* Mutation: restart relies on the answer that the page has, as start does.
CallUnchecked(c) ==
  /\ click[c].pc = "call" /\ ~Busy(PageOf[c])
  /\ click' = [click EXCEPT ![c].missed = {},
                 ![c].pc = IF click[c].op = "restart" THEN "stop" ELSE "create"]
  /\ harm' = IF click[c].op = "start"
             THEN harm \cup ({"overtaken"} \X click[c].missed) ELSE harm
  /\ UNCHANGED <<row, Work, budget>>

\* The second call, when the page has awaited the answer to the first: start
\* asks no more, so it goes on beside what began in between.
Call(c) ==
  /\ click[c].pc = "call" /\ ~Busy(PageOf[c])
  /\ click' = [click EXCEPT ![c].missed = {},
                 ![c].pc = IF click[c].op = "restart" THEN "recheck" ELSE "create"]
  /\ harm' = IF click[c].op = "start"
             THEN harm \cup ({"overtaken"} \X click[c].missed) ELSE harm
  /\ UNCHANGED <<row, Work, budget>>

\* restart asks again on the server, pullAndRestartEvent for the first time.
Recheck(c) ==
  /\ click[c].pc = "recheck"
  /\ IF InProgress THEN click' = [click EXCEPT ![c] = Free] ELSE Turn(c, "stop")
  /\ UNCHANGED <<row, Work, harm, budget>>

\* forceDeploy sets the status of what is in progress, on the collection that
\* reading $activity->properties returns; whether save() sees that is up to the
\* cast of the attribute, so either.
Stop(c) ==
  LET overridden == {a \in OfService : row[a].properties.status = "queued"}
  IN  /\ click[c].pc = "stop"
      /\ \/ UNCHANGED row
         \/ /\ click[c].op = "force"
            /\ row' = [a \in Activities |->
                         IF a \in overridden
                         THEN [row[a] EXCEPT !.properties.status = "error"] ELSE row[a]]
      /\ harm' = IF click[c].op = "force" THEN harm \cup ({"forced"} \X overridden) ELSE harm
      /\ Turn(c, "create")
      /\ UNCHANGED <<Work, budget>>

\* PrepareCoolifyTask: the row first, then the job.
Create(c) ==
  /\ click[c].pc = "create"
  /\ \E a \in Activities :
       /\ a <= budget.activities
       /\ ~Exists(a) /\ \A b \in Activities : b < a => Exists(b)
       /\ row' = [row EXCEPT ![a].kind = IF click[c].op = "restore" THEN "restore"
                                         ELSE "service"]
       /\ click' = [d \in Clicks |->
            IF d = c THEN [click[c] EXCEPT !.pc = "push", !.activity = a]
            ELSE IF click[d].pc = "call" THEN [click[d] EXCEPT !.missed = @ \cup {a}]
            ELSE click[d]]
  /\ UNCHANGED <<Work, harm, budget>>

Push(c) ==
  /\ click[c].pc = "push"
  /\ queue' = [queue EXCEPT ![click[c].activity] = "ready"]
  /\ click' = [click EXCEPT ![c] = Free]
  /\ UNCHANGED <<row, attempts, task, running, due, said, harm, budget>>

-----------------------------------------------------------------------------
(* The job *)

Current(a) == <<a, attempts[a]>>
At(a, pc)  == task[a].pc = pc
Goto(a, pc) == task' = [task EXCEPT ![a].pc = pc]

\* On without the copy: the worker is done, or failed() is next.
Leave(a, pc) == task' = [task EXCEPT ![a] = Waiting(pc)]

\* An exception reaches the worker: with $maxExceptions = 1 the job fails at
\* once; it is deleted, then failed() is called.
Threw(a) == queue' = [queue EXCEPT ![a] = "gone"] /\ Leave(a, "failed")

\* Mutation: attempts are not counted against $tries.
ReserveAgain(a) ==
  /\ queue[a] = "ready"
  /\ queue' = [queue EXCEPT ![a] = "reserved"]
  /\ attempts' = [attempts EXCEPT ![a] = @ + 1]
  /\ task' = [task EXCEPT ![a] =
                [pc |-> "begin", properties |-> row[a].properties,
                 description |-> row[a].description, wrote |-> FALSE,
                 result |-> "none"]]
  /\ UNCHANGED <<row, running, due, click, said, harm, budget>>

\* A worker takes the job, with a fresh copy of the row; when that was tried
\* often enough, the job fails.
Reserve(a) ==
  /\ queue[a] = "ready"
  /\ IF attempts[a] < tries
     THEN /\ queue' = [queue EXCEPT ![a] = "reserved"]
          /\ attempts' = [attempts EXCEPT ![a] = @ + 1]
          /\ task' = [task EXCEPT ![a] =
                        [pc |-> "begin", properties |-> row[a].properties,
                         description |-> row[a].description, wrote |-> FALSE,
                         result |-> "none"]]
     ELSE Threw(a) /\ UNCHANGED attempts
  /\ UNCHANGED <<row, running, due, click, said, harm, budget>>

\* The process is started, or its server is gone or disabled.
Start(a) ==
  /\ At(a, "begin")
  /\ \/ /\ running' = running \cup {Current(a)} /\ due' = due \cup {a}
        /\ Goto(a, "run") /\ UNCHANGED queue
     \/ Threw(a) /\ UNCHANGED <<running, due>>
  /\ UNCHANGED <<row, attempts, click, said, harm, budget>>

Saved(a, copy) ==
  row' = [row EXCEPT ![a].properties = copy.properties,
                     ![a].description = copy.description]

\* handleOutput: the copy has the piece; it is saved at the first, and later
\* when the last save is long enough ago.  The first save writes the properties,
\* which have got the process id, the others write the description only.
Output(a) ==
  /\ At(a, "run") /\ Current(a) \in running /\ said[a] < budget.output
  /\ said' = [said EXCEPT ![a] = @ + 1]
  /\ LET copy == [task[a] EXCEPT !.description = @ + 1] IN
       \/ /\ ~task[a].wrote /\ Saved(a, copy)
          /\ task' = [task EXCEPT ![a] = [copy EXCEPT !.wrote = TRUE]]
       \/ /\ task[a].wrote
          /\ row' = [row EXCEPT ![a].description = copy.description]
          /\ task' = [task EXCEPT ![a] = copy]
       \/ /\ task[a].wrote /\ UNCHANGED row
          /\ task' = [task EXCEPT ![a] = copy]
  /\ UNCHANGED <<queue, attempts, running, due, click, harm, budget>>

\* encodeOutput throws on a piece that is not UTF-8, or ends within a character.
OutputThrows(a) ==
  /\ At(a, "run") /\ Current(a) \in running /\ said[a] < budget.output
  /\ said' = [said EXCEPT ![a] = @ + 1]
  /\ Threw(a)
  /\ harm' = harm \cup {<<"output", a>>}
  /\ UNCHANGED <<row, attempts, running, due, click, budget>>

\* A command ends; somebody waits for it, or it was left behind.
CommandEnds(c) ==
  LET a == c[1]
  IN  /\ c \in running
      /\ running' = running \ {c} /\ due' = due \cup {a}
      /\ IF At(a, "run") /\ c = Current(a)
         THEN /\ \E e \in {"zero", "other"} :
                   task' = [task EXCEPT ![a].pc = "record", ![a].result = e]
              /\ UNCHANGED harm
         ELSE /\ harm' = harm \cup {<<"late", a>>}
              /\ UNCHANGED task
      /\ UNCHANGED <<row, queue, attempts, click, said, budget>>

\* Mutation: what is left of the output is not saved.
RecordThrottled(a) ==
  /\ At(a, "record")
  /\ row' = [row EXCEPT ![a].properties =
               [status |-> IF task[a].result = "zero" THEN "finished" ELSE "error",
                exitCode |-> task[a].result]]
  /\ Goto(a, "event")
  /\ UNCHANGED <<queue, attempts, running, due, click, said, harm, budget>>

\* The process is over: status, exit code and all of the output are saved.  An
\* error that the copy came with stays one.
Record(a) ==
  LET result == task[a].result
      status == IF task[a].properties.status # "error" /\ result = "zero"
                THEN "finished" ELSE "error"
      copy   == [task[a] EXCEPT !.properties = [status |-> status, exitCode |-> result]]
  IN  /\ At(a, "record")
      /\ Saved(a, copy)
      /\ task' = [task EXCEPT ![a] = [copy EXCEPT !.pc = "event"]]
      /\ UNCHANGED <<queue, attempts, running, due, click, said, harm, budget>>

\* Only a restore ignores errors.
Event(a) ==
  /\ At(a, "event")
  /\ due' = due \ {a}
  /\ IF task[a].result # "zero" /\ row[a].kind # "restore"
     THEN Threw(a) ELSE Goto(a, "ack") /\ UNCHANGED queue
  /\ UNCHANGED <<row, attempts, running, click, said, harm, budget>>

Acknowledge(a) ==
  /\ At(a, "ack")
  /\ queue' = [queue EXCEPT ![a] = "gone"]
  /\ Leave(a, "idle")
  /\ UNCHANGED <<row, attempts, running, due, click, said, harm, budget>>

\* Mutation: it saves the copy that the worker had.
FailedStale(a) ==
  /\ At(a, "failed")
  /\ row' = [row EXCEPT ![a].properties.status = "error",
                        ![a].description = task[a].description]
  /\ Leave(a, "failed_event")
  /\ UNCHANGED <<queue, attempts, running, due, click, said, harm, budget>>

\* Mutation: the row is left as it is.
FailedUnwritten(a) ==
  /\ At(a, "failed") /\ Leave(a, "failed_event")
  /\ UNCHANGED <<row, queue, attempts, running, due, click, said, harm, budget>>

\* failed(), on a copy of the row that is fresh again.
Failed(a) ==
  /\ At(a, "failed")
  /\ row' = [row EXCEPT ![a].properties.status = "error"]
  /\ Leave(a, "failed_event")
  /\ UNCHANGED <<queue, attempts, running, due, click, said, harm, budget>>

\* Mutation: no event when a job fails.
FailedSilently(a) ==
  /\ At(a, "failed_event") /\ Leave(a, "idle")
  /\ UNCHANGED <<row, queue, attempts, running, due, click, said, harm, budget>>

FailedEvent(a) ==
  /\ At(a, "failed_event")
  /\ due' = due \ {a}
  /\ Leave(a, "idle")
  /\ UNCHANGED <<row, queue, attempts, running, click, said, harm, budget>>

-----------------------------------------------------------------------------
(* Timeouts and faults *)

\* Whoever stops between the start of a command and the save that records it
\* loses output, and leaves behind a command that still runs.
Interrupted(a) ==
  harm' = IF task[a].pc \in {"run", "record"} THEN harm \cup {<<"output", a>>} ELSE harm

\* $timeout: an exception counts here as well.
Timeout(a) ==
  /\ task[a].pc \in Stages
  /\ Threw(a) /\ Interrupted(a)
  /\ UNCHANGED <<row, attempts, running, due, click, said, budget>>

Spend == budget.faults > 0 /\ budget' = [budget EXCEPT !.faults = @ - 1]

\* The worker dies; nobody calls failed() again for a job that is deleted.
KillWorker(a) ==
  /\ Spend
  /\ task[a].pc # "idle"
  /\ Leave(a, "idle")
  /\ IF task[a].pc \in Stages THEN Interrupted(a) ELSE harm' = harm \cup {<<"cut", a>>}
  /\ UNCHANGED <<row, queue, attempts, running, due, click, said>>

\* retry_after: the job of a dead worker is handed out again.
Expire(a) ==
  /\ queue[a] = "reserved" /\ At(a, "idle")
  /\ queue' = [queue EXCEPT ![a] = "ready"]
  /\ UNCHANGED <<row, attempts, task, running, due, click, said, harm, budget>>

\* ssh ends with an error while the command goes on.
ConnectionLost(a) ==
  /\ Spend
  /\ At(a, "run") /\ Current(a) \in running
  /\ task' = [task EXCEPT ![a].pc = "record", ![a].result = "other"]
  /\ harm' = harm \cup {<<"output", a>>}
  /\ UNCHANGED <<row, queue, attempts, running, due, click, said>>

\* A request dies, perhaps between the row and the job, or the page is closed.
KillRequest(c) ==
  /\ Spend
  /\ click[c].pc # "idle"
  /\ click' = [click EXCEPT ![c] = Free]
  /\ UNCHANGED <<row, Work, harm>>

-----------------------------------------------------------------------------
Browse(c) ==
  \/ \E op \in Operations : Click(c, op)
  \/ Call(c) \/ Recheck(c) \/ Stop(c) \/ Create(c) \/ Push(c)

\* What workers and redis do for a job.
Attend(a) ==
  \/ Reserve(a) \/ Start(a) \/ Record(a) \/ Event(a) \/ Acknowledge(a)
  \/ Failed(a) \/ FailedEvent(a) \/ Timeout(a) \/ Expire(a)

Next ==
  \/ \E c \in Clicks : Browse(c) \/ KillRequest(c)
  \/ \E a \in Activities : Attend(a) \/ Output(a) \/ OutputThrows(a)
                           \/ KillWorker(a) \/ ConnectionLost(a)
  \/ \E c \in running : CommandEnds(c)

Spec == Init /\ [][Next]_vars

\* Horizon keeps its workers going and redis hands out what expired.  A command
\* need not end: the job's timeout does not wait for it.
FairSpec == Spec /\ \A a \in Activities : WF_vars(Attend(a))

-----------------------------------------------------------------------------
(* Properties *)

\* Nothing more will be done for an activity.
Over(a) == queue[a] = "gone" /\ At(a, "idle")

\* What the commands of an activity did is followed by its event, whichever way
\* the activity ends: recorded, failed, timed out, or tried again after its
\* worker died between the end of the command and that of the job.  Except for
\* what a command does that was left behind, and a death within failed().
EventFollows ==
  \A a \in due : Over(a) => <<"late", a>> \in harm \/ <<"cut", a>> \in harm

\* No output is lost to the throttling of writes, nor to another attempt: when
\* an activity is over its row has every piece, unless its command was
\* interrupted.
OutputComplete ==
  \A a \in Activities :
    Over(a) /\ <<"output", a>> \notin harm => row[a].description = said[a]

\* Output that was stored is never overwritten: not by another attempt, not by
\* failed(), not by a page that changes the status.
OutputKept == [][\A a \in Activities : row'[a].description >= row[a].description]_vars

\* From one page, no two commands of a service run at once, unless one was left
\* behind, is run again, was in progress when somebody forced a deployment, or
\* began between the page's check for another click on Deploy and the start that
\* this click asked for.
Alone ==
  \A c, d \in running :
    c[1] # d[1] /\ {c[1], d[1]} \subseteq OfService
    => \E a \in {c[1], d[1]} :
         \/ attempts[a] > 1
         \/ \E why \in {"output", "forced", "overtaken"} : <<why, a>> \in harm

\* An activity that has a job does not stay in progress, and does not keep the
\* service from being restarted, even if its command never ends; unless a worker
\* dies within failed().
Settles ==
  \A a \in Activities :
    (queue[a] # "none" /\ row[a].properties.status = "queued")
    ~> (row[a].properties.status # "queued" \/ <<"cut", a>> \in harm)
=============================================================================
