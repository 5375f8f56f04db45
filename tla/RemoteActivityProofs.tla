------------------------ MODULE RemoteActivityProofs ------------------------
(***************************************************************************)
(* Proofs about RemoteActivity, for any number of pages, clicks,           *)
(* activities, attempts, pieces of output and faults.                      *)
(***************************************************************************)
EXTENDS RemoteActivity, TLAPS

Pc(a)     == task[a].pc
Stored(a) == row[a].description
Copy(a)   == task[a].description
Status(a) == row[a].properties.status

-----------------------------------------------------------------------------
(* Type correctness *)

\* Where a worker's copy of the description counts.
Copying == {"begin", "run", "record"}

\* A worker at a job has it reserved, until it has failed; its attempt is one
\* of those allowed, and nothing is stored that was not said.
Held(a) ==
  /\ Pc(a) \in Stages => queue[a] = "reserved" /\ attempts[a] \in 1..tries
  /\ Pc(a) \in {"failed", "failed_event"} => queue[a] = "gone"
  /\ Stored(a) <= said[a] /\ Copy(a) <= said[a]
  /\ Pc(a) \in Copying => Stored(a) <= Copy(a)

\* What the parts of an activity are.
LEMMA Parts ==
  ASSUME TypeOK, NEW a \in Activities
  PROVE  /\ row[a] \in Row /\ task[a] \in Task
         /\ attempts[a] \in 0..tries /\ said[a] \in 0..MAX_OUTPUT
         /\ Stored(a) \in 0..MAX_OUTPUT /\ Copy(a) \in 0..MAX_OUTPUT
         /\ tries \in Nat \ {0} /\ MAX_OUTPUT \in Nat
BY ActivityAssumption DEF TypeOK, Row, Task, Stored, Copy

\* What a worker is after it has left its copy.
LEMMA Left ==
  ASSUME TypeOK, NEW a \in Activities, NEW pc \in {"idle", "failed", "failed_event"}
  PROVE  /\ Waiting(pc) \in Task
         /\ Leave(a, pc) => /\ task' \in [Activities -> Task]
                            /\ Pc(a)' = pc /\ Copy(a)' = 0
                            /\ \A b \in Activities \ {a} : task'[b] = task[b]
<1>1. MAX_OUTPUT \in Nat
  BY ActivityAssumption
<1>2. Queued \in Properties
  BY DEF Queued, Properties, Codes
<1>3. Waiting(pc) \in Task /\ Waiting(pc).pc = pc /\ Waiting(pc).description = 0
  BY <1>1, <1>2 DEF Waiting, Task, Codes
<1> QED
  BY <1>3 DEF TypeOK, Leave, Pc, Copy

\* What a worker is after it has gone on to another point with its copy.
LEMMA Gone ==
  ASSUME TypeOK, NEW a \in Activities, NEW pc \in Stages, Goto(a, pc)
  PROVE  /\ task' \in [Activities -> Task]
         /\ Pc(a)' = pc /\ Copy(a)' = Copy(a)
         /\ task'[a] = [task[a] EXCEPT !.pc = pc]
         /\ \A b \in Activities \ {a} : task'[b] = task[b]
<1>1. task[a] \in Task /\ [task[a] EXCEPT !.pc = pc] \in Task
  BY DEF TypeOK, Task
<1> QED
  BY <1>1 DEF TypeOK, Goto, Pc, Copy, Task

\* A fault leaves an instance with one fault less.
LEMMA SpendTyped ==
  ASSUME TypeOK, Spend
  PROVE  budget' \in Instances
<1>1. budget \in Instances /\ MAX_FAULTS \in Nat
  BY ActivityAssumption DEF TypeOK
<1>2. budget.faults - 1 \in 0..MAX_FAULTS
  BY <1>1 DEF Instances, Spend
<1> QED BY <1>1, <1>2 DEF Instances, Spend

-----------------------------------------------------------------------------
(* The life of an activity *)

\* Where all of the output is, as long as no command was interrupted.
Whole(a) ==
  <<"output", a>> \notin harm =>
    /\ Pc(a) \in Copying => Copy(a) = said[a]
    /\ Pc(a) \notin {"run", "record"} => Stored(a) = said[a]

\* What a command did is followed by an event that is still to come.
Followed(a) ==
  a \in due /\ <<"late", a>> \notin harm /\ <<"cut", a>> \notin harm =>
    \/ Pc(a) \in {"run", "record", "event", "failed", "failed_event"}
    \/ Pc(a) \in {"idle", "begin"} /\ queue[a] \in {"ready", "reserved"}

\* An activity without a job is untouched.
Untouched(a) == queue[a] = "none" => Pc(a) = "idle" /\ attempts[a] = 0

Life(a) == Held(a) /\ Whole(a) /\ Followed(a) /\ Untouched(a)

\* Everything that workers, redis and servers do for an activity.
Act(a) ==
  \/ Attend(a) \/ Output(a) \/ OutputThrows(a) \/ KillWorker(a) \/ ConnectionLost(a)
  \/ \E k \in 1..tries : CommandEnds(<<a, k>>)

\* How an activity is left by what is done for another.
Same(b) ==
  /\ row'[b] = row[b] /\ queue'[b] = queue[b] /\ attempts'[b] = attempts[b]
  /\ task'[b] = task[b] /\ said'[b] = said[b]
  /\ b \in due' <=> b \in due
  /\ \A h \in {"output", "late", "cut"} : <<h, b>> \in harm' <=> <<h, b>> \in harm
  /\ \A k \in 1..tries : <<b, k>> \in running' <=> <<b, k>> \in running

\* What is done for an activity concerns no other, nor any page.
LEMMA Apart ==
  ASSUME TypeOK, NEW a \in Activities, Act(a), NEW b \in Activities, a # b
  PROVE  Same(b) /\ click' = click
<1>1. CASE Reserve(a)
  BY <1>1 DEF Reserve, TypeOK, Same, Threw, Leave
<1>2. CASE Start(a)
  BY <1>2 DEF Start, TypeOK, Same, Threw, Leave, Goto, Current
<1>3. CASE Record(a) \/ Event(a) \/ Acknowledge(a) \/ Failed(a) \/ FailedEvent(a)
  BY <1>3
     DEF Record, Event, Acknowledge, Failed, FailedEvent, TypeOK, Same, Threw,
         Leave, Goto, Saved
<1>4. CASE Timeout(a) \/ Expire(a) \/ KillWorker(a)
  BY <1>4
     DEF Timeout, Expire, KillWorker, TypeOK, Same, Threw, Leave, Interrupted
<1>5. CASE Output(a)
  BY <1>5 DEF Output, TypeOK, Same, Saved
<1>6. CASE OutputThrows(a) \/ ConnectionLost(a)
  BY <1>6 DEF OutputThrows, ConnectionLost, TypeOK, Same, Threw, Leave
<1>7. CASE \E k \in 1..tries : CommandEnds(<<a, k>>)
  BY <1>7 DEF CommandEnds, TypeOK, Same
<1> QED
  BY <1>1, <1>2, <1>3, <1>4, <1>5, <1>6, <1>7 DEF Act, Attend

\* What is done for an activity keeps the types, and the life of the activity.
LEMMA ActLives ==
  ASSUME TypeOK, NEW a \in Activities, Life(a), Act(a)
  PROVE  TypeOK' /\ Life(a)'
<1>0. /\ row[a] \in Row /\ task[a] \in Task
      /\ attempts[a] \in 0..tries /\ said[a] \in 0..MAX_OUTPUT
      /\ Stored(a) \in 0..MAX_OUTPUT /\ Copy(a) \in 0..MAX_OUTPUT
      /\ tries \in Nat \ {0} /\ MAX_OUTPUT \in Nat /\ MAX_FAULTS \in Nat
      /\ row[a].properties \in Properties /\ task[a].properties \in Properties
      /\ budget.output \in 0..MAX_OUTPUT
  BY Parts, ActivityAssumption DEF Row, Task, TypeOK, Instances
<1>a. ASSUME Threw(a)
      PROVE  /\ task' \in [Activities -> Task] /\ Pc(a)' = "failed" /\ Copy(a)' = 0
             /\ queue' \in [Activities -> {"none", "ready", "reserved", "gone"}]
             /\ queue'[a] = "gone"
  BY <1>a, Left DEF Threw, TypeOK
<1>1. CASE Reserve(a)
  <2>1. CASE attempts[a] < tries
    <3> DEFINE me == [pc |-> "begin", properties |-> row[a].properties,
                      description |-> row[a].description, wrote |-> FALSE,
                      result |-> "none"]
    <3>1. me \in Task /\ me.pc = "begin" /\ me.description = Stored(a)
      BY <1>0 DEF Task, Stages, Codes, Stored
    <3> HIDE DEF me
    <3>0. /\ task' = [task EXCEPT ![a] = me]
          /\ queue[a] = "ready" /\ queue' = [queue EXCEPT ![a] = "reserved"]
          /\ attempts' = [attempts EXCEPT ![a] = @ + 1]
          /\ UNCHANGED <<row, running, due, click, said, harm, budget>>
      BY <1>1, <2>1 DEF Reserve, me
    <3>2. /\ task' \in [Activities -> Task] /\ Pc(a)' = "begin" /\ Copy(a)' = Stored(a)
          /\ queue' \in [Activities -> {"none", "ready", "reserved", "gone"}]
          /\ queue'[a] = "reserved" /\ queue[a] = "ready"
          /\ attempts' \in [Activities -> 0..tries] /\ attempts'[a] = attempts[a] + 1
          /\ UNCHANGED <<row, running, due, click, said, harm, budget>>
      BY <1>0, <2>1, <3>0, <3>1 DEF TypeOK, Pc, Copy
    <3> QED
      BY <1>0, <3>2
         DEF TypeOK, Life, Held, Whole, Followed, Untouched, Copying, Stages,
             Stored
  <2>2. CASE ~(attempts[a] < tries)
    <3>1. Threw(a) /\ UNCHANGED <<attempts, row, running, due, click, said, harm, budget>>
          /\ queue[a] = "ready"
      BY <1>1, <2>2 DEF Reserve
    <3> QED
      BY <1>0, <1>a, <3>1
         DEF TypeOK, Life, Held, Whole, Followed, Untouched, Copying, Stages,
             Stored
  <2> QED BY <2>1, <2>2
<1>2. CASE Start(a)
  <2>1. Pc(a) = "begin" /\ UNCHANGED <<row, attempts, click, said, harm, budget>>
    BY <1>2 DEF Start, At, Pc
  <2>2. CASE /\ running' = running \cup {Current(a)} /\ due' = due \cup {a}
             /\ Goto(a, "run") /\ UNCHANGED queue
    <3>1. task' \in [Activities -> Task] /\ Pc(a)' = "run" /\ Copy(a)' = Copy(a)
      BY <2>2, Gone DEF Stages
    <3>2. Current(a) \in Activities \X (1..tries)
      BY <2>1 DEF Life, Held, Stages, Current
    <3> QED
      BY <1>0, <2>1, <2>2, <3>1, <3>2
         DEF TypeOK, Life, Held, Whole, Followed, Untouched, Copying, Stages,
             Stored
  <2>3. CASE Threw(a) /\ UNCHANGED <<running, due>>
    BY <1>0, <1>a, <2>1, <2>3
       DEF TypeOK, Life, Held, Whole, Followed, Untouched, Copying, Stages,
           Stored
  <2> QED BY <1>2, <2>2, <2>3 DEF Start
<1>3. CASE Record(a)
  <2> DEFINE result == task[a].result
             status == IF task[a].properties.status # "error" /\ result = "zero"
                       THEN "finished" ELSE "error"
             props == [status |-> status, exitCode |-> result]
             copy   == [task[a] EXCEPT !.properties = props]
  <2>1. props \in Properties
    BY <1>0 DEF Properties, Task
  <2> HIDE DEF props
  <2>2. /\ copy \in Task /\ copy.description = Copy(a) /\ copy.properties = props
        /\ [copy EXCEPT !.pc = "event"] \in Task
        /\ [copy EXCEPT !.pc = "event"].pc = "event"
        /\ [copy EXCEPT !.pc = "event"].description = Copy(a)
    BY <1>0, <2>1 DEF Task, Copy, Stages
  <2>3. /\ Pc(a) = "record" /\ Saved(a, copy) /\ task' = [task EXCEPT ![a] = [copy EXCEPT !.pc = "event"]]
        /\ UNCHANGED <<queue, attempts, running, due, click, said, harm, budget>>
    BY <1>3 DEF Record, At, Pc, props
  <2> HIDE DEF copy
  <2>4. /\ task' \in [Activities -> Task] /\ Pc(a)' = "event" /\ Copy(a)' = Copy(a)
    BY <2>2, <2>3 DEF TypeOK, Pc, Copy
  <2>5. row' \in [Activities -> Row] /\ Stored(a)' = Copy(a)
    BY <1>0, <2>1, <2>2, <2>3 DEF TypeOK, Saved, Row, Stored
  <2> QED
    BY <1>0, <2>3, <2>4, <2>5
       DEF TypeOK, Life, Held, Whole, Followed, Untouched, Copying, Stages
<1>4. CASE Event(a)
  <2>1. /\ Pc(a) = "event" /\ due' = due \ {a}
        /\ UNCHANGED <<row, attempts, running, click, said, harm, budget>>
    BY <1>4 DEF Event, At, Pc
  <2>2. CASE Threw(a)
    BY <1>0, <1>a, <2>1, <2>2
       DEF TypeOK, Life, Held, Whole, Followed, Untouched, Copying, Stages,
           Stored
  <2>3. CASE Goto(a, "ack") /\ UNCHANGED queue
    <3>1. task' \in [Activities -> Task] /\ Pc(a)' = "ack" /\ Copy(a)' = Copy(a)
      BY <2>3, Gone DEF Stages
    <3> QED
      BY <1>0, <2>1, <2>3, <3>1
         DEF TypeOK, Life, Held, Whole, Followed, Untouched, Copying, Stages,
             Stored
  <2> QED BY <1>4, <2>2, <2>3 DEF Event
<1>5. CASE Acknowledge(a)
  <2>1. /\ Pc(a) = "ack" /\ queue' = [queue EXCEPT ![a] = "gone"] /\ Leave(a, "idle")
        /\ UNCHANGED <<row, attempts, running, due, click, said, harm, budget>>
    BY <1>5 DEF Acknowledge, At, Pc
  <2>2. task' \in [Activities -> Task] /\ Pc(a)' = "idle" /\ Copy(a)' = 0
    BY <2>1, Left
  <2>3. /\ queue' \in [Activities -> {"none", "ready", "reserved", "gone"}]
        /\ queue'[a] = "gone"
    BY <2>1 DEF TypeOK
  <2> QED
    BY <1>0, <2>1, <2>2, <2>3
       DEF TypeOK, Life, Held, Whole, Followed, Untouched, Copying, Stages,
           Stored
<1>6. CASE Failed(a)
  <2>1. /\ Pc(a) = "failed" /\ row' = [row EXCEPT ![a].properties.status = "error"]
        /\ Leave(a, "failed_event")
        /\ UNCHANGED <<queue, attempts, running, due, click, said, harm, budget>>
    BY <1>6 DEF Failed, At, Pc
  <2>2. task' \in [Activities -> Task] /\ Pc(a)' = "failed_event" /\ Copy(a)' = 0
    BY <2>1, Left
  <2>3. row' \in [Activities -> Row] /\ Stored(a)' = Stored(a)
    BY <1>0, <2>1 DEF TypeOK, Row, Properties, Stored
  <2> QED
    BY <1>0, <2>1, <2>2, <2>3
       DEF TypeOK, Life, Held, Whole, Followed, Untouched, Copying, Stages
<1>7. CASE FailedEvent(a)
  <2>1. /\ Pc(a) = "failed_event" /\ due' = due \ {a} /\ Leave(a, "idle")
        /\ UNCHANGED <<row, queue, attempts, running, click, said, harm, budget>>
    BY <1>7 DEF FailedEvent, At, Pc
  <2>2. task' \in [Activities -> Task] /\ Pc(a)' = "idle" /\ Copy(a)' = 0
    BY <2>1, Left
  <2> QED
    BY <1>0, <2>1, <2>2
       DEF TypeOK, Life, Held, Whole, Followed, Untouched, Copying, Stages,
           Stored
<1>b. ASSUME Interrupted(a)
      PROVE  /\ harm' \subseteq {"output", "late", "cut", "forced", "overtaken"} \X Activities
             /\ harm \subseteq harm'
             /\ Pc(a) \in {"run", "record"} => <<"output", a>> \in harm'
  BY <1>b DEF Interrupted, TypeOK, Pc
<1>8. CASE Timeout(a)
  <2>1. /\ Pc(a) \in Stages /\ Threw(a) /\ Interrupted(a)
        /\ UNCHANGED <<row, attempts, running, due, click, said, budget>>
    BY <1>8 DEF Timeout, Pc
  <2> QED
    BY <1>0, <1>a, <1>b, <2>1
       DEF TypeOK, Life, Held, Whole, Followed, Untouched, Copying, Stages,
           Stored
<1>c. Spend => budget' \in Instances
  BY <1>0, SpendTyped DEF Spend
<1>9. CASE KillWorker(a)
  <2>1. /\ Leave(a, "idle") /\ Spend
        /\ UNCHANGED <<row, queue, attempts, running, due, click, said>>
    BY <1>9 DEF KillWorker
  <2>2. task' \in [Activities -> Task] /\ Pc(a)' = "idle" /\ Copy(a)' = 0
    BY <2>1, Left
  <2>3. CASE Pc(a) \in Stages /\ Interrupted(a)
    BY <1>0, <1>b, <1>c, <2>1, <2>2, <2>3
       DEF TypeOK, Life, Held, Whole, Followed, Untouched, Copying, Stages,
           Stored
  <2>4. CASE Pc(a) \notin Stages /\ harm' = harm \cup {<<"cut", a>>}
    BY <1>0, <1>c, <2>1, <2>2, <2>4
       DEF TypeOK, Life, Held, Whole, Followed, Untouched, Copying, Stages,
           Stored
  <2> QED BY <1>9, <2>3, <2>4 DEF KillWorker, Pc
<1>10. CASE Expire(a)
  BY <1>0, <1>10
     DEF Expire, At, Pc, Copy, TypeOK, Life, Held, Whole, Followed, Untouched,
         Copying, Stages, Stored
<1>11. CASE Output(a)
  <2> DEFINE copy == [task[a] EXCEPT !.description = @ + 1]
             wrote == [copy EXCEPT !.wrote = TRUE]
  <2>1. /\ Pc(a) = "run" /\ said[a] < budget.output /\ said' = [said EXCEPT ![a] = @ + 1]
        /\ UNCHANGED <<queue, attempts, running, due, click, harm, budget>>
    BY <1>11 DEF Output, At, Pc
  <2>2. Copy(a) + 1 \in 0..MAX_OUTPUT /\ Stored(a) <= Copy(a)
    BY <1>0, <2>1 DEF Life, Held, Copying
  <2>3. /\ copy \in Task /\ wrote \in Task /\ copy.pc = Pc(a) /\ wrote.pc = Pc(a)
        /\ copy.description = Copy(a) + 1 /\ wrote.description = Copy(a) + 1
        /\ copy.properties \in Properties
    BY <1>0, <2>2 DEF Task, Pc, Copy
  <2>4. /\ \/ task' = [task EXCEPT ![a] = copy] \/ task' = [task EXCEPT ![a] = wrote]
        /\ \/ Saved(a, copy) \/ row' = [row EXCEPT ![a].description = copy.description]
           \/ UNCHANGED row
    BY <1>11 DEF Output
  <2> HIDE DEF copy, wrote
  <2>5. task' \in [Activities -> Task] /\ Pc(a)' = "run" /\ Copy(a)' = Copy(a) + 1
    BY <2>1, <2>3, <2>4 DEF TypeOK, Pc, Copy
  <2>6. row' \in [Activities -> Row] /\ Stored(a)' \in {Stored(a), Copy(a) + 1}
    <3>1. /\ [[row[a] EXCEPT !.properties = copy.properties]
                      EXCEPT !.description = copy.description] \in Row
          /\ [row[a] EXCEPT !.description = copy.description] \in Row
          /\ row \in [Activities -> Row]
      BY <1>0, <2>2, <2>3 DEF TypeOK, Row
    <3>2. CASE Saved(a, copy)
      BY <1>0, <2>3, <3>1, <3>2 DEF Saved, Row, Stored
    <3>3. CASE row' = [row EXCEPT ![a].description = copy.description]
      BY <1>0, <2>3, <3>1, <3>3 DEF Row, Stored
    <3>4. CASE UNCHANGED row
      BY <3>1, <3>4 DEF Stored
    <3> QED BY <2>4, <3>2, <3>3, <3>4
  <2>7. said' \in [Activities -> 0..MAX_OUTPUT] /\ said'[a] = said[a] + 1
    BY <1>0, <2>1 DEF TypeOK
  <2> QED
    BY <1>0, <2>1, <2>2, <2>5, <2>6, <2>7
       DEF TypeOK, Life, Held, Whole, Followed, Untouched, Copying, Stages
<1>12. CASE OutputThrows(a)
  <2>1. /\ Pc(a) = "run" /\ said[a] < budget.output /\ said' = [said EXCEPT ![a] = @ + 1]
        /\ Threw(a) /\ harm' = harm \cup {<<"output", a>>}
        /\ UNCHANGED <<row, attempts, running, due, click, budget>>
    BY <1>12 DEF OutputThrows, At, Pc
  <2>2. said' \in [Activities -> 0..MAX_OUTPUT] /\ said'[a] = said[a] + 1
    BY <1>0, <2>1 DEF TypeOK
  <2> QED
    BY <1>0, <1>a, <2>1, <2>2
       DEF TypeOK, Life, Held, Whole, Followed, Untouched, Copying, Stages,
           Stored
<1>d. ASSUME NEW e \in Codes, task' = [task EXCEPT ![a].pc = "record", ![a].result = e]
      PROVE  task' \in [Activities -> Task] /\ Pc(a)' = "record" /\ Copy(a)' = Copy(a)
  <2>1. [[task[a] EXCEPT !.pc = "record"] EXCEPT !.result = e] \in Task
    BY <1>0 DEF Task, Stages
  <2> QED BY <1>0, <1>d, <2>1 DEF TypeOK, Pc, Copy, Task
<1>13. CASE ConnectionLost(a)
  <2>1. /\ Pc(a) = "run" /\ Spend /\ harm' = harm \cup {<<"output", a>>}
        /\ UNCHANGED <<row, queue, attempts, running, due, click, said>>
    BY <1>13 DEF ConnectionLost, At, Pc
  <2>2. task' \in [Activities -> Task] /\ Pc(a)' = "record" /\ Copy(a)' = Copy(a)
    BY <1>13, <1>d DEF ConnectionLost, Codes
  <2> QED
    BY <1>0, <1>c, <2>1, <2>2
       DEF TypeOK, Life, Held, Whole, Followed, Untouched, Copying, Stages,
           Stored
<1>14. ASSUME NEW k \in 1..tries, CommandEnds(<<a, k>>) PROVE TypeOK' /\ Life(a)'
  <2>1. /\ running' \subseteq running /\ due' = due \cup {a}
        /\ UNCHANGED <<row, queue, attempts, click, said, budget>>
    BY <1>14 DEF CommandEnds
  <2>2. CASE Pc(a) = "run" /\ harm' = harm
             /\ \E e \in {"zero", "other"} :
                  task' = [task EXCEPT ![a].pc = "record", ![a].result = e]
    <3>1. task' \in [Activities -> Task] /\ Pc(a)' = "record" /\ Copy(a)' = Copy(a)
      BY <2>2, <1>d DEF Codes
    <3> QED
      BY <1>0, <2>1, <2>2, <3>1
         DEF TypeOK, Life, Held, Whole, Followed, Untouched, Copying, Stages,
             Stored
  <2>3. CASE harm' = harm \cup {<<"late", a>>} /\ task' = task
    BY <1>0, <2>1, <2>3
       DEF TypeOK, Life, Held, Whole, Followed, Untouched, Copying, Stages,
           Stored, Pc, Copy
  <2> QED BY <1>14, <2>2, <2>3 DEF CommandEnds, At, Pc
<1> QED
  BY <1>1, <1>2, <1>3, <1>4, <1>5, <1>6, <1>7, <1>8, <1>9, <1>10, <1>11, <1>12,
     <1>13, <1>14
     DEF Act, Attend

\* A step keeps what a row is of, stores more output or as much, and gives no job
\* to an activity that has none.
LEMMA ActKeeps ==
  ASSUME TypeOK, NEW a \in Activities, Life(a), Act(a)
  PROVE  /\ row'[a].kind = row[a].kind /\ Stored(a)' >= Stored(a)
         /\ queue[a] = "none" => queue'[a] = "none"
<1>0. /\ row[a] \in Row /\ Stored(a) \in Nat /\ Copy(a) \in Nat
      /\ MAX_OUTPUT \in Nat
      /\ row[a].properties \in Properties
  BY Parts DEF Row
<1>1. CASE Record(a)
  <2>1. PICK copy : Saved(a, copy) /\ copy.description = Copy(a)
    <3> DEFINE with(p) == [task[a] EXCEPT !.properties = p]
    <3>1. \E p : Saved(a, with(p))
      BY <1>1 DEF Record
    <3>2. task[a] \in Task
      BY DEF TypeOK
    <3>3. \A p : with(p).description = Copy(a)
      BY <3>2 DEF Task, Copy
    <3> QED BY <3>1, <3>3
  <2>2. Pc(a) = "record" /\ queue' = queue
    BY <1>1 DEF Record, At, Pc
  <2>3. Stored(a)' = Copy(a) /\ row'[a].kind = row[a].kind
    BY <1>0, <2>1 DEF TypeOK, Saved, Stored, Row
  <2> QED
    BY <1>0, <2>2, <2>3 DEF Life, Held, Copying
<1>2. CASE Output(a)
  <2>1. PICK copy : /\ copy.description = Copy(a) + 1
                    /\ \/ Saved(a, copy) \/ row' = [row EXCEPT ![a].description = copy.description]
                       \/ UNCHANGED row
    <3> DEFINE c == [task[a] EXCEPT !.description = @ + 1]
    <3>1. \/ Saved(a, c) \/ row' = [row EXCEPT ![a].description = c.description]
          \/ UNCHANGED row
      BY <1>2 DEF Output
    <3>2. c.description = Copy(a) + 1
      BY DEF TypeOK, Task, Copy
    <3> QED BY <3>1, <3>2
  <2>2. Pc(a) = "run" /\ queue' = queue
    BY <1>2 DEF Output, At, Pc
  <2>3. Stored(a)' \in {Stored(a), Copy(a) + 1} /\ row'[a].kind = row[a].kind
    BY <1>0, <2>1 DEF TypeOK, Saved, Stored, Row
  <2> QED
    BY <1>0, <2>2, <2>3 DEF Life, Held, Copying
<1>3. CASE Failed(a)
  BY <1>0, <1>3 DEF Failed, TypeOK, Row, Stored
<1>4. Record(a) \/ Output(a) \/ Failed(a) \/ row' = row
  BY DEF Act, Attend, Reserve, Start, Event, Acknowledge, FailedEvent, Timeout,
     Expire, OutputThrows, KillWorker, ConnectionLost, CommandEnds
<1>5. queue[a] = "none" => queue'[a] = "none"
  <2> SUFFICES ASSUME queue[a] = "none" PROVE queue'[a] = "none"
    OBVIOUS
  <2>1. Pc(a) = "idle"
    BY DEF Life, Untouched
  <2> QED
    BY <2>1
       DEF Act, Attend, Reserve, Start, Record, Event, Acknowledge, Failed,
           FailedEvent, Timeout, Expire, Output, OutputThrows, KillWorker,
           ConnectionLost, CommandEnds, At, Pc, Stages
<1> QED
  BY <1>0, <1>1, <1>2, <1>3, <1>4, <1>5 DEF Stored

-----------------------------------------------------------------------------
(* The clicks *)

\* A request about to push a job for an activity is the only one, and the
\* activity exists and has no job.
Requests ==
  /\ \A c \in Clicks : click[c].pc = "push" =>
       /\ click[c].activity \in Activities /\ Exists(click[c].activity)
       /\ queue[click[c].activity] = "none"
       /\ \A e \in Clicks : click[e].pc = "push" /\ click[e].activity = click[c].activity => e = c
  /\ \A a \in Activities : ~Exists(a) => queue[a] = "none"

IInv == TypeOK /\ Requests /\ \A a \in Activities : Life(a)

\* What a step of a click does to an activity.
Served(a) ==
  /\ task'[a] = task[a] /\ attempts'[a] = attempts[a] /\ said'[a] = said[a]
  /\ Stored(a)' = Stored(a) /\ due' = due
  /\ \A h \in {"output", "late", "cut"} : <<h, a>> \in harm' <=> <<h, a>> \in harm
  /\ queue'[a] = queue[a] \/ (queue[a] = "none" /\ queue'[a] = "ready")

\* Such steps leave the life of an activity as it is.
LEMMA ServedLives ==
  ASSUME NEW a \in Activities, Served(a), Life(a)
  PROVE  Life(a)'
BY DEF Served, Life, Held, Whole, Followed, Untouched, Pc, Copy, Stages, Copying

\* The steps of clicks keep the invariant.
LEMMA ClickKeeps ==
  ASSUME IInv, NEW c \in Clicks, Browse(c) \/ KillRequest(c)
  PROVE  IInv' /\ \A a \in Activities : Stored(a)' = Stored(a)
<1>0. click[c] \in Handler /\ TypeOK
  BY DEF IInv, TypeOK
<1>1. \A e \in Clicks : click[e] \in Handler
  BY <1>0 DEF TypeOK
<1>2. Free \in Handler /\ Free.pc = "idle"
  BY DEF Free, Handler
<1>3. ASSUME NEW new \in Handler, new.pc # "push", click' = [click EXCEPT ![c] = new],
             UNCHANGED <<queue, attempts, task, running, due, said>>,
             \/ harm' = harm
             \/ \E h \in {"forced", "overtaken"}, S \in SUBSET Activities :
                  harm' = harm \cup ({h} \X S),
             row' \in [Activities -> Row],
             \A a \in Activities : row'[a].kind = row[a].kind /\ Stored(a)' = Stored(a),
             budget' \in Instances
      PROVE  IInv' /\ \A a \in Activities : Stored(a)' = Stored(a)
  <2>0. /\ harm' \subseteq {"output", "late", "cut", "forced", "overtaken"} \X Activities
        /\ \A a \in Activities, h \in {"output", "late", "cut"} :
             <<h, a>> \in harm' <=> <<h, a>> \in harm
    BY <1>0, <1>3 DEF TypeOK
  <2>1. \A a \in Activities : Life(a)'
    BY <1>3, <2>0, ServedLives DEF Served, IInv
  <2>2. TypeOK'
    BY <1>0, <1>3, <2>0 DEF TypeOK
  <2>3. \A e \in Clicks : click'[e].pc = "push" => e # c /\ click'[e] = click[e]
    BY <1>0, <1>3 DEF TypeOK
  <2>4. Requests'
    BY <1>3, <2>3 DEF IInv, Requests, Exists
  <2> QED BY <1>3, <2>1, <2>2, <2>4 DEF IInv
<1>4. UNCHANGED row => /\ row' \in [Activities -> Row]
                       /\ \A a \in Activities : row'[a].kind = row[a].kind /\ Stored(a)' = Stored(a)
  BY <1>0 DEF TypeOK, Stored
<1>5. UNCHANGED budget => budget' \in Instances
  BY <1>0 DEF TypeOK
<1>6. ASSUME NEW op \in Operations, Click(c, op)
      PROVE  IInv' /\ \A a \in Activities : Stored(a)' = Stored(a)
  <2> DEFINE pc  == CASE op \in {"start", "restart"} -> "call"
                      [] op = "pull"  -> "recheck"
                      [] op = "force" -> "stop"
                      [] op = "restore" -> "create"
             new == [click[c] EXCEPT !.op = op, !.pc = pc]
  <2>1. pc \in {"call", "recheck", "stop", "create"}
    BY ActivityAssumption
  <2>2. click' = [click EXCEPT ![c].op = op, ![c].pc = pc]
    BY <1>6 DEF Click
  <2> HIDE DEF pc
  <2>3. new \in Handler /\ new.pc # "push"
    BY <1>0, <2>1 DEF Handler
  <2>4. click' = [click EXCEPT ![c] = new]
    BY <1>0, <2>2 DEF TypeOK
  <2> HIDE DEF new
  <2> QED BY <1>3, <1>4, <1>5, <1>6, <2>3, <2>4 DEF Click, Work
<1>13. CASE Call(c)
  <2> DEFINE pc  == IF click[c].op = "restart" THEN "recheck" ELSE "create"
             new == [click[c] EXCEPT !.missed = {}, !.pc = pc]
  <2>1. /\ click' = [click EXCEPT ![c].missed = {}, ![c].pc = pc]
        /\ UNCHANGED <<row, queue, attempts, task, running, due, said, budget>>
    BY <1>13 DEF Call, Work
  <2>2. new \in Handler /\ new.pc # "push"
    BY <1>0 DEF Handler
  <2>3. click' = [click EXCEPT ![c] = new]
    BY <1>0, <2>1 DEF TypeOK
  <2> HIDE DEF new
  <2>4. \/ harm' = harm
        \/ \E S \in SUBSET Activities : harm' = harm \cup ({"overtaken"} \X S)
    <3>1. click[c].missed \in SUBSET Activities
      BY <1>0 DEF Handler
    <3> QED BY <1>13, <3>1 DEF Call
  <2> QED BY <1>3, <1>4, <1>5, <2>1, <2>2, <2>3, <2>4
<1>7. ASSUME NEW pc \in {"stop", "create"}, Turn(c, pc)
      PROVE  \E new \in Handler : new.pc # "push" /\ click' = [click EXCEPT ![c] = new]
  <2>1. [click[c] EXCEPT !.pc = pc] \in Handler /\ [click[c] EXCEPT !.pc = pc].pc = pc
    BY <1>0 DEF Handler
  <2> QED BY <1>0, <1>7, <2>1 DEF Turn, TypeOK
<1>8. CASE Recheck(c)
  <2>1. UNCHANGED <<row, queue, attempts, task, running, due, said, harm, budget>>
    BY <1>8 DEF Recheck, Work
  <2>2. \E new \in Handler : new.pc # "push" /\ click' = [click EXCEPT ![c] = new]
    BY <1>2, <1>7, <1>8 DEF Recheck
  <2> QED BY <1>3, <1>4, <1>5, <2>1, <2>2
<1>9. CASE Stop(c)
  <2> DEFINE overridden == {a \in OfService : row[a].properties.status = "queued"}
  <2>1. UNCHANGED <<queue, attempts, task, running, due, said, budget>>
    BY <1>9 DEF Stop, Work
  <2>4. harm' = harm \/ \E S \in SUBSET Activities : harm' = harm \cup ({"forced"} \X S)
    <3>1. overridden \in SUBSET Activities
      BY DEF OfService
    <3> QED BY <1>9, <3>1 DEF Stop
  <2>2. \E new \in Handler : new.pc # "push" /\ click' = [click EXCEPT ![c] = new]
    BY <1>7, <1>9 DEF Stop
  <2>3. /\ row' \in [Activities -> Row]
        /\ \A a \in Activities : row'[a].kind = row[a].kind /\ Stored(a)' = Stored(a)
    <3>1. ASSUME NEW a \in Activities
          PROVE  LET over == [row[a] EXCEPT !.properties.status = "error"] IN
                 over \in Row /\ over.kind = row[a].kind
                 /\ over.description = row[a].description
      <4>1. row[a] \in Row
        BY <1>0 DEF TypeOK
      <4> QED BY <4>1 DEF Row, Properties
    <3>2. CASE row' = [a \in Activities |->
                         IF a \in overridden
                         THEN [row[a] EXCEPT !.properties.status = "error"] ELSE row[a]]
      BY <1>0, <3>1, <3>2 DEF TypeOK, Stored
    <3> QED BY <1>4, <1>9, <3>2 DEF Stop
  <2> QED BY <1>3, <1>5, <2>1, <2>2, <2>3, <2>4
<1>10. CASE Create(c)
  <2>1. PICK a \in Activities :
          /\ ~Exists(a)
          /\ \E k \in {"service", "restore"} : row' = [row EXCEPT ![a].kind = k]
          /\ click' = [d \in Clicks |->
               IF d = c THEN [click[c] EXCEPT !.pc = "push", !.activity = a]
               ELSE IF click[d].pc = "call" THEN [click[d] EXCEPT !.missed = @ \cup {a}]
               ELSE click[d]]
    BY <1>10 DEF Create
  <2>2. UNCHANGED <<queue, attempts, task, running, due, said, harm, budget>>
    BY <1>10 DEF Create, Work
  <2>3. /\ row' \in [Activities -> Row] /\ Exists(a)'
        /\ \A b \in Activities : Stored(b)' = Stored(b) /\ (Exists(b) => Exists(b)')
    BY <1>0, <2>1 DEF TypeOK, Row, Stored, Exists
  <2>4. /\ click' \in [Clicks -> Handler] /\ click'[c].pc = "push" /\ click'[c].activity = a
        /\ \A e \in Clicks : e # c =>
             click'[e].pc = click[e].pc /\ click'[e].activity = click[e].activity
    <3>1. [click[c] EXCEPT !.pc = "push", !.activity = a] \in Handler
      BY <1>0 DEF Handler
    <3>2. ASSUME NEW e \in Clicks
          PROVE  LET more == [click[e] EXCEPT !.missed = @ \cup {a}]
                 IN  /\ more \in Handler /\ more.pc = click[e].pc
                     /\ more.activity = click[e].activity
      <4>1. click[e] \in Handler
        BY <1>1
      <4> QED BY <4>1 DEF Handler
    <3> QED BY <1>1, <2>1, <3>1, <3>2 DEF Handler
  <2>5. queue[a] = "none"
    BY <2>1 DEF IInv, Requests
  <2>6. \A e \in Clicks : e # c /\ click[e].pc = "push" => click[e].activity # a
    BY <2>1 DEF IInv, Requests
  <2>7. Requests'
    BY <2>2, <2>3, <2>4, <2>5, <2>6 DEF IInv, Requests
  <2>8. \A b \in Activities : Life(b)'
    BY <2>2, <2>3, ServedLives DEF Served, IInv
  <2> QED BY <1>0, <2>2, <2>3, <2>4, <2>7, <2>8 DEF IInv, TypeOK
<1>11. CASE Push(c)
  <2>1. /\ click[c].pc = "push" /\ queue' = [queue EXCEPT ![click[c].activity] = "ready"]
        /\ click' = [click EXCEPT ![c] = Free]
        /\ UNCHANGED <<row, attempts, task, running, due, said, harm, budget>>
    BY <1>11 DEF Push
  <2>2. /\ click[c].activity \in Activities /\ queue[click[c].activity] = "none"
        /\ Exists(click[c].activity)
        /\ \A e \in Clicks : click[e].pc = "push" /\ click[e].activity = click[c].activity => e = c
    BY <2>1 DEF IInv, Requests
  <2>3. TypeOK'
    BY <1>0, <1>2, <2>1, <2>2 DEF TypeOK
  <2>4. \A b \in Activities : Life(b)' /\ Stored(b)' = Stored(b)
    BY <1>0, <2>1, <2>2, ServedLives DEF Served, IInv, TypeOK, Stored
  <2>5. \A e \in Clicks : click'[e].pc = "push" => e # c /\ click'[e] = click[e]
    BY <1>0, <1>2, <2>1 DEF TypeOK
  <2>6. \A b \in Activities : b # click[c].activity => queue'[b] = queue[b]
    BY <1>0, <2>1 DEF TypeOK
  <2>7. Requests'
    BY <2>1, <2>2, <2>5, <2>6 DEF IInv, Requests, Exists
  <2> QED BY <2>3, <2>4, <2>7 DEF IInv
<1>12. CASE KillRequest(c)
  <2>1. /\ UNCHANGED <<row, queue, attempts, task, running, due, said, harm>>
        /\ click' = [click EXCEPT ![c] = Free] /\ Spend
    BY <1>12 DEF KillRequest, Work
  <2>2. budget' \in Instances
    BY <1>0, <2>1, SpendTyped
  <2>3. Free.pc # "push"
    BY <1>2
  <2> QED BY <1>2, <1>3, <1>4, <2>1, <2>2, <2>3
<1> QED
  BY <1>6, <1>8, <1>9, <1>10, <1>11, <1>12, <1>13 DEF Browse

\* What is done for an activity keeps the invariant.
LEMMA ActKept ==
  ASSUME IInv, NEW a \in Activities, Act(a)
  PROVE  IInv' /\ \A b \in Activities : Stored(b)' >= Stored(b)
<1>1. TypeOK' /\ Life(a)'
  BY ActLives DEF IInv
<1>2. /\ row'[a].kind = row[a].kind /\ Stored(a)' >= Stored(a)
      /\ queue[a] = "none" => queue'[a] = "none"
  BY ActKeeps DEF IInv
<1>3. \A b \in Activities : b # a => Same(b)
  BY Apart DEF IInv
<1>4. click' = click
  BY DEF Act, Attend, Reserve, Start, Record, Event, Acknowledge, Failed,
     FailedEvent, Timeout, Expire, Output, OutputThrows, KillWorker,
     ConnectionLost, CommandEnds
<1>5. \A b \in Activities : b # a => Life(b)'
  BY <1>3
     DEF IInv, Same, Life, Held, Whole, Followed, Untouched, Pc, Copy, Stored
<1>6. \A b \in Activities : (Exists(b)' <=> Exists(b)) /\ (queue[b] = "none" => queue'[b] = "none")
  BY <1>2, <1>3 DEF Same, Exists
<1>7. Requests'
  BY <1>4, <1>6 DEF IInv, Requests
<1>8. \A b \in Activities : Stored(b) \in Nat
  BY Parts DEF IInv
<1>9. \A b \in Activities : Stored(b)' >= Stored(b)
  <2> SUFFICES ASSUME NEW b \in Activities PROVE Stored(b)' >= Stored(b)
    OBVIOUS
  <2>1. CASE b = a
    BY <1>2, <2>1
  <2>2. CASE b # a
    <3>1. Stored(b)' = Stored(b)
      BY <1>3, <2>2 DEF Same, Stored
    <3> QED BY <1>8, <3>1
  <2> QED BY <2>1, <2>2
<1> QED BY <1>1, <1>5, <1>7, <1>9 DEF IInv

-----------------------------------------------------------------------------
(* Commands of a service, started from one page *)

\* Alone excuses activities whose command was interrupted, run again, in progress
\* when somebody forced a deployment, or overtaken by a start that had been checked
\* before.
Excused(a) ==
  \/ <<"output", a>> \in harm \/ <<"forced", a>> \in harm
  \/ <<"overtaken", a>> \in harm \/ attempts[a] > 1

\* Unless excused, an activity has a command only while a worker waits for it,
\* and that is before its status is written.
Calm(a) ==
  /\ Pc(a) = "failed" => attempts[a] > 0
  /\ ~Excused(a) =>
       /\ \A k \in 1..tries :
            <<a, k>> \in running => Pc(a) = "run" /\ k = attempts[a]
       /\ Status(a) # "queued" => Pc(a) \notin Copying /\ attempts[a] > 0
       /\ Pc(a) \in Copying => task[a].properties.status = "queued"

\* A later activity of the service may run its command.
Settled(a) == Excused(a) \/ Status(a) # "queued"

\* Activities are created in order, and one of the service only when those
\* before it are settled.
Dense   == \A a, b \in Activities : a < b /\ Exists(b) => Exists(a)
Orderly == \A a, b \in OfService : a < b => Settled(a)

\* A request on its way to create one has found the others settled.
Through(c) == \/ click[c].pc = "stop" /\ click[c].op # "force"
              \/ click[c].pc = "create" /\ click[c].op # "restore"
Cleared == \A c \in Clicks : Through(c) => \A a \in OfService : Settled(a)

\* A page that awaits, or has, its answer knows nothing of those that began since.
Awaits(c) == click[c].pc = "call" =>
               /\ click[c].op \in {"start", "restart"}
               /\ \A a \in OfService : Settled(a) \/ a \in click[c].missed

\* One request at a time: of the page, and with one page of all clicks.
Serving(c) == click[c].pc \in {"recheck", "stop", "create", "push"}
Serial     == \A c, e \in Clicks : Serving(c) /\ Serving(e) => c = e

Order == /\ Dense /\ Orderly /\ Cleared /\ Serial
         /\ \A c \in Clicks : Awaits(c)
         /\ \A a \in Activities : Calm(a)

\* Only more is lost, and attempts are only added.
LEMMA HarmGrows ==
  ASSUME TypeOK, NEW a \in Activities, Act(a)
  PROVE  harm \subseteq harm'
<1> USE DEF Interrupted
<1>1. CASE Attend(a)
  BY <1>1
     DEF Attend, Reserve, Start, Record, Event, Acknowledge, Failed,
         FailedEvent, Timeout, Expire
<1>2. CASE Output(a) \/ OutputThrows(a) \/ KillWorker(a) \/ ConnectionLost(a)
  BY <1>2 DEF Output, OutputThrows, KillWorker, ConnectionLost
<1>3. CASE \E k \in 1..tries : CommandEnds(<<a, k>>)
  BY <1>3 DEF CommandEnds
<1> QED BY <1>1, <1>2, <1>3 DEF Act

\* What is done for an activity leaves it calm; a settled one stays settled.
LEMMA ActCalms ==
  ASSUME TypeOK, NEW a \in Activities, Life(a), Calm(a), Act(a)
  PROVE  Calm(a)' /\ (Settled(a) => Settled(a)') /\ row'[a].kind = row[a].kind
<1>0. /\ row[a] \in Row /\ task[a] \in Task
      /\ attempts[a] \in 0..tries /\ tries \in Nat \ {0}
      /\ row[a].properties \in Properties /\ task[a].properties \in Properties
      /\ attempts[a] \in Nat
  BY Parts DEF Row, Task
<1>h. harm \subseteq harm'
  BY HarmGrows
<1>a. ASSUME Threw(a)
      PROVE  Pc(a)' = "failed"
  BY <1>a, Left DEF Threw
<1>r. UNCHANGED row => Status(a)' = Status(a) /\ row'[a].kind = row[a].kind
  BY DEF Status
<1> USE DEF Calm, Settled, Excused
<1>1. CASE Reserve(a)
  <2>1. CASE attempts[a] < tries
    <3>1. /\ attempts'[a] = attempts[a] + 1 /\ queue[a] = "ready"
          /\ Pc(a)' = "begin" /\ task'[a].properties.status = Status(a)
          /\ UNCHANGED <<row, running, harm>>
      BY <1>1, <2>1 DEF Reserve, TypeOK, Pc, Status
    <3>2. Pc(a) # "run"
      BY <3>1 DEF Life, Held, Stages
    <3> QED BY <1>0, <1>r, <3>1, <3>2 DEF Copying
  <2>2. CASE ~(attempts[a] < tries)
    <3>1. Threw(a) /\ UNCHANGED <<attempts, row, running, harm>> /\ queue[a] = "ready"
      BY <1>1, <2>2 DEF Reserve
    <3>2. Pc(a) # "run"
      BY <3>1 DEF Life, Held, Stages
    <3> QED BY <1>0, <1>a, <1>r, <2>2, <3>1, <3>2 DEF Copying
  <2> QED BY <2>1, <2>2
<1>2. CASE Start(a)
  <2>1. /\ Pc(a) = "begin" /\ UNCHANGED <<row, attempts, harm>> /\ attempts[a] > 0
    BY <1>2 DEF Start, At, Pc, Life, Held, Stages
  <2>2. CASE running' = running \cup {Current(a)} /\ Goto(a, "run")
    <3>0. Pc(a)' = "run" /\ task'[a] = [task[a] EXCEPT !.pc = "run"]
      BY <2>2, Gone DEF Stages
    <3>1. Pc(a)' = "run" /\ task'[a].properties = task[a].properties
      BY <1>0, <3>0 DEF Task
    <3>2. \A k \in 1..tries : <<a, k>> \in running' =>
            <<a, k>> \in running \/ k = attempts[a]
      BY <2>2 DEF Current
    <3> QED BY <1>0, <1>r, <2>1, <3>1, <3>2 DEF Copying
  <2>3. CASE Threw(a) /\ UNCHANGED running
    BY <1>0, <1>a, <1>r, <2>1, <2>3 DEF Copying
  <2> QED BY <1>2, <2>2, <2>3 DEF Start
<1>3. CASE Record(a)
  <2>1. /\ Pc(a) = "record" /\ UNCHANGED <<running, harm, attempts>>
        /\ attempts[a] > 0
    BY <1>3 DEF Record, At, Pc, Life, Held, Stages
  <2>2. Pc(a)' = "event"
    BY <1>0, <1>3 DEF Record, TypeOK, Pc, Task
  <2>3. Status(a)' \in {"finished", "error"} /\ row'[a].kind = row[a].kind
    <3> DEFINE c(s) == [task[a] EXCEPT !.properties =
                          [status |-> s, exitCode |-> task[a].result]]
    <3>1. PICK s \in {"finished", "error"} : Saved(a, c(s))
      BY <1>3 DEF Record
    <3>2. c(s).properties.status = s
      BY <1>0 DEF Task
    <3> HIDE DEF c
    <3> QED BY <1>0, <3>1, <3>2 DEF Saved, Status, Row, TypeOK
  <2> QED BY <1>0, <2>1, <2>2, <2>3 DEF Copying
<1>4. CASE Event(a)
  <2>1. /\ Pc(a) = "event" /\ UNCHANGED <<row, running, harm, attempts>>
        /\ attempts[a] > 0
    BY <1>4 DEF Event, At, Pc, Life, Held, Stages
  <2>2. Pc(a)' \in {"failed", "ack"}
    BY <1>4, <1>a, Gone DEF Event, Stages
  <2> QED BY <1>0, <1>r, <2>1, <2>2 DEF Copying
<1>5. CASE Acknowledge(a) \/ FailedEvent(a)
  <2>1. /\ Pc(a) \in {"ack", "failed_event"}
        /\ UNCHANGED <<row, running, harm, attempts>>
    BY <1>5 DEF Acknowledge, FailedEvent, At, Pc
  <2>2. Pc(a)' = "idle"
    BY <1>5, Left DEF Acknowledge, FailedEvent
  <2> QED BY <1>0, <1>r, <2>1, <2>2 DEF Copying
<1>6. CASE Failed(a)
  <2>1. Pc(a) = "failed" /\ UNCHANGED <<running, harm, attempts>>
    BY <1>6 DEF Failed, At, Pc
  <2>2. Pc(a)' = "failed_event"
    BY <1>6, Left DEF Failed
  <2>3. Status(a)' = "error" /\ row'[a].kind = row[a].kind
    BY <1>0, <1>6 DEF Failed, TypeOK, Row, Properties, Status
  <2> QED BY <1>0, <2>1, <2>2, <2>3 DEF Copying
<1>b. ASSUME Interrupted(a), Pc(a) \in {"run", "record"}
      PROVE  Excused(a)'
  BY <1>b DEF Interrupted, Pc
<1>7. CASE Timeout(a)
  <2>1. /\ Pc(a) \in Stages /\ Interrupted(a) /\ UNCHANGED <<row, running, attempts>>
        /\ attempts[a] > 0 /\ Pc(a)' = "failed"
    BY <1>7, <1>a DEF Timeout, Pc, Life, Held
  <2>2. CASE Pc(a) \in {"run", "record"}
    BY <1>0, <1>b, <1>r, <2>1, <2>2
  <2>3. CASE Pc(a) \notin {"run", "record"}
    BY <1>0, <1>h, <1>r, <2>1, <2>3 DEF Copying
  <2> QED BY <2>2, <2>3
<1>8. CASE KillWorker(a)
  <2>1. /\ Pc(a) # "idle" /\ UNCHANGED <<row, running, attempts>> /\ Pc(a)' = "idle"
    BY <1>8, Left DEF KillWorker, Pc
  <2>2. CASE Pc(a) \in {"run", "record"}
    <3>1. Excused(a)'
      BY <1>8, <1>b, <2>2 DEF KillWorker, Stages, Pc
    <3> QED BY <1>r, <2>1, <3>1
  <2>3. CASE Pc(a) \notin {"run", "record"}
    <3>1. Status(a) # "queued" /\ ~Excused(a) => attempts[a] > 0
      OBVIOUS
    <3> QED BY <1>0, <1>h, <1>r, <2>1, <2>3, <3>1 DEF Copying
  <2> QED BY <2>2, <2>3
<1>9. CASE Expire(a)
  BY <1>0, <1>9, <1>r DEF Expire, Pc, Copying
<1>10. CASE Output(a)
  <2>1. Pc(a) = "run" /\ UNCHANGED <<running, harm, attempts>> /\ attempts[a] > 0
    BY <1>10 DEF Output, At, Pc, Life, Held, Stages
  <2> DEFINE copy == [task[a] EXCEPT !.description = @ + 1]
             wrote == [copy EXCEPT !.wrote = TRUE]
  <2>2. /\ \/ task' = [task EXCEPT ![a] = copy] \/ task' = [task EXCEPT ![a] = wrote]
        /\ \/ Saved(a, copy) \/ row' = [row EXCEPT ![a].description = copy.description]
           \/ UNCHANGED row
    BY <1>10 DEF Output
  <2>3. /\ copy.pc = "run" /\ wrote.pc = "run"
        /\ copy.properties = task[a].properties /\ wrote.properties = task[a].properties
    BY <1>0, <2>1 DEF Task, Pc
  <2> HIDE DEF copy, wrote
  <2>4. Pc(a)' = "run" /\ task'[a].properties = task[a].properties
    BY <2>2, <2>3 DEF TypeOK, Pc
  <2>5. /\ row'[a].kind = row[a].kind
        /\ Status(a)' \in {Status(a), task[a].properties.status}
    BY <1>0, <2>2, <2>3 DEF TypeOK, Row, Saved, Status
  <2> QED BY <1>0, <2>1, <2>4, <2>5 DEF Copying
<1>11. CASE OutputThrows(a) \/ ConnectionLost(a)
  <2>1. /\ Excused(a)' /\ UNCHANGED <<row, attempts>> /\ attempts[a] > 0
    BY <1>11 DEF OutputThrows, ConnectionLost, At, Pc, Life, Held, Stages
  <2> QED BY <1>r, <2>1
<1>12. CASE \E k \in 1..tries : CommandEnds(<<a, k>>)
  <2>1. PICK k \in 1..tries : CommandEnds(<<a, k>>)
    BY <1>12
  <2>2. /\ <<a, k>> \in running /\ running' = running \ {<<a, k>>}
        /\ UNCHANGED <<row, attempts>>
    BY <2>1 DEF CommandEnds
  <2>3. CASE At(a, "run") /\ <<a, k>> = Current(a)
    <3>1. Pc(a) = "run" /\ k = attempts[a] /\ harm' = harm /\ attempts[a] > 0
      BY <2>1, <2>3 DEF CommandEnds, At, Pc, Current, Life, Held, Stages
    <3>2. Pc(a)' = "record" /\ task'[a].properties = task[a].properties
      BY <1>0, <2>1, <2>3 DEF CommandEnds, Pc, Task, TypeOK
    <3> QED BY <1>0, <1>r, <2>2, <3>1, <3>2 DEF Copying
  <2>4. CASE ~(At(a, "run") /\ <<a, k>> = Current(a))
    <3>1. task' = task
      BY <2>1, <2>4 DEF CommandEnds
    <3> QED BY <1>0, <1>h, <1>r, <2>2, <3>1 DEF Pc, Copying
  <2> QED BY <2>3, <2>4
<1> QED
  BY <1>1, <1>2, <1>3, <1>4, <1>5, <1>6, <1>7, <1>8, <1>9, <1>10, <1>11, <1>12
     DEF Act, Attend

\* A step for an activity keeps the order in which those of a service run.
LEMMA ActOrders ==
  ASSUME IInv, Order, NEW a \in Activities, Act(a)
  PROVE  Order'
<1>1. \A b \in Activities :
        /\ Calm(b)' /\ row'[b].kind = row[b].kind
        /\ Settled(b) => Settled(b)'
  <2> SUFFICES ASSUME NEW b \in Activities
               PROVE  /\ Calm(b)' /\ row'[b].kind = row[b].kind
                      /\ Settled(b) => Settled(b)'
    OBVIOUS
  <2>1. CASE b = a
    BY <2>1, ActCalms DEF IInv, Order
  <2>2. CASE b # a
    <3>1. Same(b) /\ harm \subseteq harm'
      BY <2>2, Apart, HarmGrows DEF IInv
    <3>2. Calm(b)
      BY DEF Order
    <3> QED
      BY <3>1, <3>2 DEF Same, Calm, Settled, Excused, Pc, Status
  <2> QED BY <2>1, <2>2
<1>2. click' = click
  BY DEF Act, Attend, Reserve, Start, Record, Event, Acknowledge, Failed,
     FailedEvent, Timeout, Expire, Output, OutputThrows, KillWorker,
     ConnectionLost, CommandEnds
<1>3. OfService' = OfService /\ \A b \in Activities : Exists(b)' <=> Exists(b)
  BY <1>1 DEF OfService, Exists
<1>4. OfService \subseteq Activities
  BY DEF OfService
<1>5. Cleared'
  BY <1>1, <1>2, <1>3, <1>4 DEF Order, Cleared, Through
<1>6. Serial' /\ \A c \in Clicks : Awaits(c)'
  BY <1>1, <1>2, <1>3, <1>4 DEF Order, Serial, Serving, Awaits
<1> QED
  BY <1>1, <1>3, <1>4, <1>5, <1>6 DEF Order, Dense, Orderly

\* With nothing in progress every activity of the service is settled.
LEMMA NothingInProgress ==
  ASSUME Orderly, ~InProgress, NEW a \in OfService
  PROVE  Settled(a)
<1>1. OfService \subseteq Nat
  BY ActivityAssumption DEF OfService, Activities
<1>2. CASE \E b \in OfService : a < b
  BY <1>2 DEF Orderly
<1>3. CASE \A b \in OfService : ~(a < b)
  <2>1. \A b \in OfService : b <= a
    BY <1>1, <1>3
  <2> QED BY <2>1 DEF InProgress, Settled, Status
<1> QED BY <1>2, <1>3

\* All clicks are on one page.
OnePage == \A c, e \in Clicks : PageOf[c] = PageOf[e]

\* The steps of its clicks keep that order.
LEMMA ClickOrders ==
  ASSUME OnePage, IInv, Order, NEW c \in Clicks, Browse(c) \/ KillRequest(c)
  PROVE  Order'
<1>0. /\ TypeOK /\ click[c] \in Handler /\ OfService \subseteq Activities
  BY DEF IInv, TypeOK, OfService
<1>1. ASSUME harm \subseteq harm', UNCHANGED <<attempts, task, running>>,
             \A b \in Activities : Status(b)' = Status(b) \/ Excused(b)'
      PROVE  \A b \in Activities : Calm(b)' /\ (Settled(b) => Settled(b)')
  BY <1>0, <1>1 DEF Order, Calm, Settled, Excused, Pc
<1>2. ASSUME harm \subseteq harm', UNCHANGED <<attempts, task, running>>,
             \A b \in Activities : /\ Status(b)' = Status(b) \/ Excused(b)'
                                   /\ row'[b].kind = row[b].kind,
             \A e \in Clicks \ {c} : click'[e] = click[e],
             Serving(c)' => Serving(c) \/ ~Busy(PageOf[c]),
             Through(c)' => \A b \in OfService : Settled(b)',
             click'[c].pc = "call" =>
               /\ click'[c].op \in {"start", "restart"}
               /\ \A b \in OfService : Settled(b)'
      PROVE  Order'
  <2>1. OfService' = OfService /\ \A b \in Activities : Exists(b)' <=> Exists(b)
    BY <1>2 DEF OfService, Exists
  <2>2. \A b \in Activities : Calm(b)' /\ (Settled(b) => Settled(b)')
    BY <1>1, <1>2
  <2>3. Cleared'
    <3> SUFFICES ASSUME NEW e \in Clicks, Through(e)', NEW b \in OfService PROVE Settled(b)'
      BY <2>1 DEF Cleared
    <3>1. e # c => Through(e)
      BY <1>2 DEF Through
    <3> QED BY <1>0, <1>2, <2>2, <3>1 DEF Order, Cleared
  <2>4. ASSUME NEW e \in Clicks PROVE Awaits(e)'
    <3>1. CASE e = c
      BY <1>2, <2>1, <3>1 DEF Awaits
    <3>2. CASE e # c
      BY <1>0, <1>2, <2>1, <2>2, <3>2 DEF Order, Awaits
    <3> QED BY <3>1, <3>2
  <2>5. Serial'
    <3>1. ASSUME NEW e \in Clicks, e # c, Serving(e) PROVE Busy(PageOf[c])
      BY <3>1 DEF OnePage, Busy, Serving
    <3>2. \A e \in Clicks : e # c => Serving(e)' = Serving(e)
      BY <1>2 DEF Serving
    <3> QED BY <1>2, <3>1, <3>2 DEF Order, Serial
  <2> QED BY <1>0, <2>1, <2>2, <2>3, <2>4, <2>5 DEF Order, Dense, Orderly
<1>3. UNCHANGED row => \A b \in Activities : /\ Status(b)' = Status(b)
                                             /\ row'[b].kind = row[b].kind
  BY DEF Status
<1>4. Free.pc = "idle"
  BY DEF Free
<1>5. ASSUME UNCHANGED <<row, harm, attempts, task, running>>,
             \A e \in Clicks \ {c} : click'[e] = click[e],
             Serving(c)' => Serving(c) \/ ~Busy(PageOf[c]),
             Through(c)' => \A b \in OfService : Settled(b),
             click'[c].pc = "call" =>
               /\ click'[c].op \in {"start", "restart"}
               /\ \A b \in OfService : Settled(b)
      PROVE  Order'
  <2>1. \A b \in Activities : Settled(b)' <=> Settled(b)
    BY <1>5 DEF Settled, Excused, Status
  <2> QED BY <1>0, <1>2, <1>3, <1>5, <2>1
<1>6. ASSUME NEW op \in Operations, Click(c, op) PROVE Order'
  <2>1. /\ op \in {"start", "restart"} => ~InProgress
        /\ click'[c].op = op
        /\ click'[c].pc = "create" => op = "restore"
        /\ click'[c].pc = "stop" => op = "force"
        /\ click'[c].pc = "call" => op \in {"start", "restart"}
        /\ ~Busy(PageOf[c])
        /\ \A e \in Clicks \ {c} : click'[e] = click[e]
        /\ UNCHANGED <<row, harm, attempts, task, running>>
    <3> DEFINE pc  == CASE op \in {"start", "restart"} -> "call"
                        [] op = "pull"  -> "recheck"
                        [] op = "force" -> "stop"
                        [] op = "restore" -> "create"
    <3>1. /\ pc = "create" => op = "restore"
          /\ pc = "stop" => op = "force"
          /\ pc = "call" => op \in {"start", "restart"}
      BY ActivityAssumption
    <3>2. click' = [click EXCEPT ![c].op = op, ![c].pc = pc]
      BY <1>6 DEF Click
    <3> HIDE DEF pc
    <3>3. /\ click'[c].op = op /\ click'[c].pc = pc
          /\ \A e \in Clicks \ {c} : click'[e] = click[e]
      BY <1>0, <3>2 DEF TypeOK, Handler
    <3> QED BY <1>6, <3>1, <3>3 DEF Click, Work
  <2>2. ~Through(c)'
    BY <2>1 DEF Through
  <2>3. click'[c].pc = "call" => \A b \in OfService : Settled(b)
    BY <2>1, NothingInProgress DEF Order
  <2> QED BY <1>5, <2>1, <2>2, <2>3
<1>11. CASE Call(c)
  <2> DEFINE missed == click[c].missed
             pc     == IF click[c].op = "restart" THEN "recheck" ELSE "create"
  <2>1. /\ click[c].pc = "call" /\ ~Busy(PageOf[c])
        /\ click' = [click EXCEPT ![c].missed = {}, ![c].pc = pc]
        /\ harm' = IF click[c].op = "start" THEN harm \cup ({"overtaken"} \X missed) ELSE harm
        /\ UNCHANGED <<row, attempts, task, running>>
    BY <1>11 DEF Call, Work
  <2>2. /\ click[c].op \in {"start", "restart"}
        /\ \A b \in OfService : Settled(b) \/ b \in missed
    BY <2>1 DEF Order, Awaits
  <2>3. /\ click'[c].pc = pc /\ click'[c].op = click[c].op
        /\ \A e \in Clicks \ {c} : click'[e] = click[e]
    BY <1>0, <2>1 DEF TypeOK, Handler
  <2> HIDE DEF missed
  <2>4. Through(c)' => \A b \in OfService : Settled(b)'
    <3> SUFFICES ASSUME Through(c)', NEW b \in OfService PROVE Settled(b)'
      OBVIOUS
    <3>1. click[c].op = "start"
      BY <2>2, <2>3 DEF Through
    <3>2. b \in missed => <<"overtaken", b>> \in harm'
      BY <2>1, <3>1
    <3>3. harm \subseteq harm'
      BY <2>1
    <3> QED BY <2>1, <2>2, <3>2, <3>3 DEF Settled, Excused, Status
  <2>5. harm \subseteq harm'
    BY <2>1
  <2>6. click'[c].pc # "call"
    BY <2>3
  <2>7. UNCHANGED row
    BY <2>1
  <2> HIDE DEF pc
  <2> QED BY <1>2, <1>3, <2>1, <2>3, <2>4, <2>5, <2>6, <2>7
<1>7. CASE Recheck(c)
  <2>1. /\ InProgress => click'[c].pc = "idle"
        /\ click'[c].pc \in {"idle", "stop"} /\ Serving(c)
        /\ \A e \in Clicks \ {c} : click'[e] = click[e]
        /\ UNCHANGED <<row, harm, attempts, task, running>>
    BY <1>0, <1>4, <1>7 DEF Recheck, TypeOK, Turn, Work, Serving, Handler
  <2>2. Through(c)' => \A b \in OfService : Settled(b)
    BY <2>1, NothingInProgress DEF Through, Order
  <2> QED BY <1>5, <2>1, <2>2
<1>8. CASE Stop(c)
  <2>1. /\ click[c].pc = "stop" /\ click'[c].pc = "create" /\ click'[c].op = click[c].op
        /\ UNCHANGED <<attempts, task, running>> /\ Serving(c)
        /\ \A e \in Clicks \ {c} : click'[e] = click[e]
    BY <1>0, <1>8 DEF Stop, Turn, Work, TypeOK, Handler, Serving
  <2>2. CASE click[c].op # "force"
    <3>1. UNCHANGED <<row, harm>>
      BY <1>8, <2>2 DEF Stop
    <3>2. \A b \in OfService : Settled(b)
      BY <2>1, <2>2 DEF Order, Cleared, Through
    <3> QED BY <1>5, <2>1, <3>1, <3>2
  <2>3. CASE click[c].op = "force"
    <3> DEFINE overridden == {a \in OfService : row[a].properties.status = "queued"}
    <3>1. harm' = harm \cup ({"forced"} \X overridden)
      BY <1>8, <2>3 DEF Stop
    <3>2. \A b \in overridden : Excused(b)'
      BY <3>1 DEF Excused
    <3>3. \A b \in Activities : row'[b].kind = row[b].kind
                                /\ (b \notin overridden => row'[b] = row[b])
      <4>1. CASE row' = [a \in Activities |->
                           IF a \in overridden
                           THEN [row[a] EXCEPT !.properties.status = "error"]
                           ELSE row[a]]
        BY <1>0, <4>1 DEF TypeOK, Row
      <4>2. CASE UNCHANGED row
        BY <4>2
      <4> QED BY <1>8, <4>1, <4>2 DEF Stop
    <3>4. \A b \in Activities : /\ Status(b)' = Status(b) \/ Excused(b)'
                                /\ row'[b].kind = row[b].kind
      BY <3>2, <3>3 DEF Status
    <3>5. \A b \in OfService : Settled(b)'
      <4> SUFFICES ASSUME NEW b \in OfService PROVE Settled(b)'
        OBVIOUS
      <4>1. CASE b \in overridden
        BY <3>2, <4>1 DEF Settled
      <4>2. CASE b \notin overridden
        BY <1>0, <3>3, <4>2 DEF Settled, Status
      <4> QED BY <4>1, <4>2
    <3> QED BY <1>2, <2>1, <3>1, <3>4, <3>5
  <2> QED BY <2>2, <2>3
<1>9. CASE Create(c)
  <2>1. PICK a \in Activities :
          /\ ~Exists(a) /\ \A b \in Activities : b < a => Exists(b)
          /\ row' = [row EXCEPT ![a].kind = IF click[c].op = "restore" THEN "restore"
                                            ELSE "service"]
          /\ click' = [d \in Clicks |->
               IF d = c THEN [click[c] EXCEPT !.pc = "push", !.activity = a]
               ELSE IF click[d].pc = "call" THEN [click[d] EXCEPT !.missed = @ \cup {a}]
               ELSE click[d]]
    BY <1>9 DEF Create
  <2>2. click[c].pc = "create" /\ UNCHANGED <<attempts, task, running, harm>>
    BY <1>9 DEF Create, Work
  <2>12. /\ click'[c].pc = "push"
         /\ \A e \in Clicks \ {c} :
              /\ click'[e].pc = click[e].pc /\ click'[e].op = click[e].op
              /\ click[e].pc = "call" => click'[e].missed = click[e].missed \cup {a}
    <3>1. [click[c] EXCEPT !.pc = "push", !.activity = a].pc = "push"
      BY <1>0 DEF Handler
    <3>2. ASSUME NEW e \in Clicks
          PROVE  LET more == [click[e] EXCEPT !.missed = @ \cup {a}]
                 IN  /\ more.pc = click[e].pc /\ more.op = click[e].op
                     /\ more.missed = click[e].missed \cup {a}
      <4>1. click[e] \in Handler
        BY <1>0 DEF TypeOK
      <4> QED BY <4>1 DEF Handler
    <3> QED BY <2>1, <3>1, <3>2
  <2>3. /\ Exists(a)'
        /\ click[c].op = "restore" => a \notin OfService'
        /\ \A b \in Activities : /\ Status(b)' = Status(b)
                                 /\ b # a => row'[b] = row[b]
    BY <1>0, <2>1 DEF TypeOK, Row, Status, Exists, Handler, OfService
  <2>4. \A b \in Activities : b # a => (Exists(b)' <=> Exists(b))
                                       /\ (b \in OfService' <=> b \in OfService)
    BY <2>3 DEF Exists, OfService
  <2>5. \A b \in Activities : Calm(b)' /\ (Settled(b) => Settled(b)')
    BY <1>1, <2>2, <2>3
  <2>6. Activities \subseteq Nat /\ OfService' \subseteq Activities
    BY ActivityAssumption DEF Activities, OfService
  <2>7. Dense'
    BY <2>1, <2>3, <2>4, <2>6 DEF Order, Dense
  <2>8. \A b \in Activities : b > a => ~Exists(b)
    BY <2>1, <2>6 DEF Order, Dense
  <2>9. ASSUME NEW b \in OfService', NEW d \in OfService', b < d
        PROVE  Settled(b)'
    <3>1. CASE d = a
      <4>1. click[c].op # "restore" /\ b # a /\ b \in OfService
        BY <2>3, <2>4, <2>6, <2>9, <3>1
      <4>2. Settled(b)
        BY <2>2, <4>1 DEF Order, Cleared, Through
      <4> QED BY <2>5, <2>6, <4>2
    <3>2. CASE d # a
      <4>1. d \in OfService /\ Exists(d)
        BY <2>4, <2>6, <3>2 DEF OfService, Exists
      <4>2. b # a
        BY <2>6, <2>8, <2>9, <4>1
      <4> QED BY <2>4, <2>5, <2>6, <2>9, <4>1, <4>2 DEF Order, Orderly
    <3> QED BY <3>1, <3>2
  <2>10. Orderly'
    BY <2>9 DEF Orderly
  <2>13. \A e \in Clicks : Serving(e)' => e = c
    BY <2>2, <2>12 DEF Order, Serial, Serving
  <2>11. Cleared' /\ Serial'
    BY <2>12, <2>13 DEF Cleared, Through, Serving, Serial
  <2>14. ASSUME NEW e \in Clicks PROVE Awaits(e)'
    <3> SUFFICES ASSUME click'[e].pc = "call"
                 PROVE  /\ click'[e].op \in {"start", "restart"}
                        /\ \A b \in OfService' : Settled(b)' \/ b \in click'[e].missed
      BY DEF Awaits
    <3>1. /\ e # c /\ click[e].pc = "call" /\ click'[e].op = click[e].op
          /\ click'[e].missed = click[e].missed \cup {a}
      BY <2>12
    <3>2. /\ click[e].op \in {"start", "restart"}
          /\ \A b \in OfService : Settled(b) \/ b \in click[e].missed
      BY <3>1 DEF Order, Awaits
    <3>3. ASSUME NEW b \in OfService', b # a PROVE Settled(b)' \/ b \in click[e].missed
      BY <2>4, <2>5, <2>6, <3>2, <3>3
    <3> QED BY <3>1, <3>2, <3>3
  <2> QED BY <2>5, <2>7, <2>10, <2>11, <2>14 DEF Order
<1>10. CASE Push(c) \/ KillRequest(c)
  <2>1. /\ UNCHANGED <<row, harm, attempts, task, running>>
        /\ click'[c].pc = "idle"
        /\ \A e \in Clicks \ {c} : click'[e] = click[e]
    BY <1>0, <1>4, <1>10 DEF Push, KillRequest, Work, TypeOK
  <2> QED BY <1>5, <2>1 DEF Through, Serving
<1> QED
  BY <1>6, <1>7, <1>8, <1>9, <1>10, <1>11 DEF Browse

-----------------------------------------------------------------------------
(* The theorems *)

\* The invariant holds initially.
LEMMA InitKeeps == Init => IInv
<1> SUFFICES ASSUME Init PROVE IInv
  OBVIOUS
<1>0. /\ tries \in Nat \ {0} /\ MAX_OUTPUT \in Nat /\ MAX_FAULTS \in Nat
      /\ Queued \in Properties
  BY ActivityAssumption DEF Queued, Properties, Codes
<1>1. Absent \in Row /\ Absent.kind = "absent" /\ Absent.description = 0
  BY <1>0 DEF Absent, Row
<1>2. /\ Waiting("idle") \in Task /\ Waiting("idle").pc = "idle"
      /\ Waiting("idle").description = 0
  BY <1>0 DEF Waiting, Task, Codes
<1>3. Free \in Handler /\ Free.pc = "idle"
  BY DEF Free, Handler
<1>4. TypeOK
  <2>1. budget \in Instances
    BY ActivityAssumption DEF Init
  <2> QED BY <1>0, <1>1, <1>2, <1>3, <2>1 DEF Init, TypeOK
<1>5. Requests
  BY <1>3 DEF Init, Requests
<1>6. ASSUME NEW a \in Activities PROVE Life(a)
  <2>1. /\ Pc(a) = "idle" /\ Copy(a) = 0 /\ Stored(a) = 0 /\ said[a] = 0
        /\ attempts[a] = 0 /\ queue[a] = "none" /\ a \notin due
    BY <1>1, <1>2 DEF Init, Pc, Copy, Stored
  <2> QED
    BY <2>1 DEF Life, Held, Whole, Followed, Untouched, Stages, Copying
<1> QED BY <1>4, <1>5, <1>6 DEF IInv

\* Every step keeps the invariant, and what is stored.
LEMMA StepKeeps ==
  ASSUME IInv, [Next]_vars
  PROVE  IInv' /\ \A a \in Activities : Stored(a)' >= Stored(a)
<1>0. \A a \in Activities : Stored(a) \in Nat
  BY Parts DEF IInv
<1>1. CASE \E c \in Clicks : Browse(c) \/ KillRequest(c)
  <2>1. IInv' /\ \A a \in Activities : Stored(a)' = Stored(a)
    BY <1>1, ClickKeeps
  <2>2. ASSUME NEW a \in Activities PROVE Stored(a)' >= Stored(a)
    <3>1. Stored(a)' = Stored(a) /\ Stored(a) \in Nat
      BY <1>0, <2>1
    <3> QED BY <3>1
  <2> QED BY <2>1, <2>2
<1>2. CASE \E a \in Activities : Act(a)
  BY <1>2, ActKept
<1>3. ASSUME NEW c \in running, CommandEnds(c) PROVE \E a \in Activities : Act(a)
  <2>1. c \in Activities \X (1..tries)
    BY DEF IInv, TypeOK
  <2>2. c[1] \in Activities /\ c[2] \in 1..tries /\ c = <<c[1], c[2]>>
    BY <2>1
  <2> QED BY <1>3, <2>2 DEF Act
<1>4. CASE UNCHANGED vars
  <2>1. \A a \in Activities : Stored(a)' = Stored(a)
    BY <1>4 DEF vars, Stored
  <2>2. ASSUME NEW a \in Activities PROVE Stored(a)' >= Stored(a)
    <3>1. Stored(a)' = Stored(a) /\ Stored(a) \in Nat
      BY <1>0, <2>1
    <3> QED BY <3>1
  <2>3. \A a \in Activities : Life(a)'
    BY <1>4
       DEF vars, IInv, Life, Held, Whole, Followed, Untouched, Pc, Copy, Stored
  <2>4. TypeOK'
    BY <1>4 DEF vars, IInv, TypeOK
  <2>5. Requests'
    BY <1>4 DEF vars, IInv, Requests, Exists
  <2> QED BY <2>2, <2>3, <2>4, <2>5 DEF IInv
<1> QED
  BY <1>1, <1>2, <1>3, <1>4 DEF Next, Act

\* The invariant holds always.
LEMMA Invariant == Spec => []IInv
<1>1. IInv /\ [Next]_vars => IInv'
  BY StepKeeps
<1> QED BY InitKeeps, <1>1, PTL DEF Spec

\* Rows, jobs, workers and clicks are what TypeOK says they are; in particular no
\* job is reserved more often than it may be tried.
THEOREM TypeCorrect == Spec => []TypeOK
<1>1. IInv => TypeOK
  BY DEF IInv
<1> QED BY Invariant, <1>1, PTL

\* What a command did is followed by the event of its activity, unless the
\* command was left behind or a worker died within failed().
THEOREM EventsFollow == Spec => []EventFollows
<1>1. IInv => EventFollows
  <2> SUFFICES ASSUME IInv, NEW a \in due, Over(a)
               PROVE  <<"late", a>> \in harm \/ <<"cut", a>> \in harm
    BY DEF EventFollows
  <2>1. a \in Activities /\ Followed(a)
    BY DEF IInv, TypeOK, Life
  <2> QED
    BY <2>1 DEF Followed, Over, At, Pc
<1> QED BY Invariant, <1>1, PTL

\* An activity that is over has all of the output of its commands, unless one
\* was interrupted.
THEOREM NoOutputMissing == Spec => []OutputComplete
<1>1. IInv => OutputComplete
  BY DEF IInv, Life, Whole, OutputComplete, Over, At, Pc, Stored
<1> QED BY Invariant, <1>1, PTL

\* No step takes back output that was stored.
THEOREM NoOutputTakenBack == Spec => OutputKept
<1>1. IInv /\ [Next]_vars =>
        [\A a \in Activities : row'[a].description >= row[a].description]_vars
  BY StepKeeps DEF Stored
<1> QED BY Invariant, <1>1, PTL DEF Spec, OutputKept

\* The order holds initially.
LEMMA InitOrders == Init => Order
<1> SUFFICES ASSUME Init PROVE Order
  OBVIOUS
<1>1. \A a \in Activities : ~Exists(a) /\ Status(a) = "queued" /\ Pc(a) = "idle"
  BY DEF Init, Exists, Absent, Queued, Status, Pc, Waiting
<1>2. OfService = {}
  BY <1>1 DEF OfService, Exists
<1>3. \A a \in Activities : Calm(a)
  BY <1>1 DEF Init, Calm, Copying
<1>4. \A c \in Clicks : click[c].pc = "idle"
  BY DEF Init, Free
<1> QED
  BY <1>1, <1>2, <1>3, <1>4
     DEF Order, Dense, Orderly, Cleared, Through, Serial, Serving, Awaits

\* Every step keeps it.
LEMMA StepOrders ==
  ASSUME OnePage, IInv, Order, [Next]_vars
  PROVE  Order'
<1>1. CASE \E c \in Clicks : Browse(c) \/ KillRequest(c)
  BY <1>1, ClickOrders
<1>2. CASE \E a \in Activities : Act(a)
  BY <1>2, ActOrders
<1>3. ASSUME NEW c \in running, CommandEnds(c) PROVE \E a \in Activities : Act(a)
  <2>1. c \in Activities \X (1..tries)
    BY DEF IInv, TypeOK
  <2>2. c[1] \in Activities /\ c[2] \in 1..tries /\ c = <<c[1], c[2]>>
    BY <2>1
  <2> QED BY <1>3, <2>2 DEF Act
<1>4. CASE UNCHANGED vars
  BY <1>4 DEF vars, Order, Dense, Orderly, Cleared, Through, Serial, Serving,
     Awaits, OfService, Exists, Settled, Excused, Calm, Status, Pc
<1> QED
  BY <1>1, <1>2, <1>3, <1>4 DEF Next, Act

\* However many clicks there are on one page, two commands of the service run at
\* once only if one was left behind, is run again, was overridden by force, or
\* began between the page's check for a click on Deploy and the start that click
\* asked for, which does not check.
THEOREM OneAtATime == OnePage => (Spec => []Alone)
<1> SUFFICES ASSUME OnePage PROVE Spec => []Alone
  OBVIOUS
<1>1. Init => IInv /\ Order
  BY InitKeeps, InitOrders
<1>2. IInv /\ Order /\ [Next]_vars => (IInv /\ Order)'
  BY StepKeeps, StepOrders
<1>3. ASSUME IInv, Order PROVE Alone
  <2>1. ASSUME NEW c \in running, NEW d \in running, c[1] < d[1],
               c[1] \in OfService, d[1] \in OfService
        PROVE  Excused(c[1])
    <3>1. c \in Activities \X (1..tries)
      BY <1>3 DEF IInv, TypeOK
    <3>2. c[1] \in Activities /\ c[2] \in 1..tries /\ c = <<c[1], c[2]>>
      BY <3>1
    <3>3. Calm(c[1]) /\ Settled(c[1])
      BY <1>3, <2>1, <3>2 DEF Order, Orderly
    <3> QED BY <3>2, <3>3 DEF Calm, Settled, Copying
  <2>2. ASSUME NEW c \in running, NEW d \in running, c[1] # d[1],
               {c[1], d[1]} \subseteq OfService
        PROVE  \E a \in {c[1], d[1]} : Excused(a)
    <3>1. c[1] \in Nat /\ d[1] \in Nat
      BY <2>2, ActivityAssumption DEF OfService, Activities
    <3>2. c[1] < d[1] \/ d[1] < c[1]
      BY <2>2, <3>1
    <3> QED BY <2>1, <2>2, <3>2
  <2> QED BY <2>2 DEF Alone, Excused
<1> QED BY <1>1, <1>2, <1>3, PTL DEF Spec
=============================================================================
