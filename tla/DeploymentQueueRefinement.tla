---------------------- MODULE DeploymentQueueRefinement ----------------------
(* DeploymentQueue implements BuildSlots, for every value of its constants. *)
EXTENDS DeploymentQueueProofs

\* The phases of the statuses, one by one.
LEMMA PhaseIs ==
  ASSUME NEW d \in Rows
  PROVE  /\ status[d] = "absent"      <=> Phase(d) = "none"
         /\ status[d] = "queued"      <=> Phase(d) = "waiting"
         /\ status[d] = "in_progress" <=> Phase(d) = "slot"
         /\ status[d] \notin {"absent", "queued", "in_progress"} <=> Phase(d) = "over"
BY Zenon DEF Phase

\* The same after a step.
LEMMA PhaseBecomes ==
  ASSUME NEW d \in Rows
  PROVE  /\ status'[d] = "absent"      <=> Phase(d)' = "none"
         /\ status'[d] = "queued"      <=> Phase(d)' = "waiting"
         /\ status'[d] = "in_progress" <=> Phase(d)' = "slot"
         /\ status'[d] \notin {"absent", "queued", "in_progress"} <=> Phase(d)' = "over"
BY Zenon DEF Phase

\* How a status may change: a row is created queued, and afterwards it never
\* becomes absent or queued again.
Moves(d) == \/ status'[d] = status[d]
            \/ status[d] = "absent" /\ status'[d] = "queued"
            \/ /\ status[d] # "absent"
               /\ status'[d] \in {"in_progress", "finished", "failed",
                                  "cancelled-by-user"}

\* Every step changes the status of a row so, if at all.
LEMMA StatusMoves ==
  ASSUME WellFormed, WellFormed', [Next]_vars, NEW d \in Rows
  PROVE  Moves(d)
<1>0. /\ Users \subseteq Actors /\ Workers \subseteq Actors
      /\ \A a \in Actors : act[a].goal \in {"finished", "failed", "cancelled-by-user"}
      /\ status \in [Rows -> Status] /\ status' \in [Rows -> Status]
      /\ status[d] # "absent" => status'[d] # "absent"
  BY CreatedGrows DEF WellFormed, TypeOK, Actors, ActorState
<1>1. CASE UNCHANGED status
  BY <1>1 DEF Moves
<1>2. ASSUME NEW e \in Rows, NewRow(e), status' = [status EXCEPT ![e] = "queued"]
      PROVE  Moves(d)
  BY <1>0, <1>2 DEF NewRow, Moves
<1>3. ASSUME NEW e \in Rows, status[e] # "absent",
             NEW s \in {"in_progress", "finished", "failed", "cancelled-by-user"},
             status' = [status EXCEPT ![e] = s]
      PROVE  Moves(d)
  BY <1>0, <1>3 DEF Moves
<1>4. ASSUME NEW u \in Users, CreateRow(u) PROVE Moves(d)
  BY <1>1, <1>2, <1>4 DEF CreateRow
<1>5. ASSUME NEW w \in Workers, DeployToAdditional(w) PROVE Moves(d)
  BY <1>2, <1>5 DEF DeployToAdditional
<1>6. ASSUME NEW u \in Users, NEW e \in Rows, ForceStart(u, e) \/ Cancel(u, e)
      PROVE  Moves(d)
  BY <1>3, <1>6 DEF ForceStart, Cancel
<1>7. ASSUME NEW u \in Users, Terminate(u) PROVE Moves(d)
  <2>1. PICK e \in Rows : /\ e \in act[u].todo
                          /\ status' = [status EXCEPT ![e] = act[u].goal]
    BY <1>7 DEF Terminate, Oldest
  <2>2. status[e] # "absent"
    BY <1>0, <2>1 DEF WellFormed, References, Refers
  <2>. QED BY <1>0, <1>3, <2>1, <2>2
<1>8. ASSUME NEW a \in Actors, Mark(a) PROVE Moves(d)
  <2>1. act[a].cand \in Rows /\ status[act[a].cand] # "absent"
    BY <1>8 DEF Mark, WellFormed, TypeOK, ActorState, References, Refers
  <2>. QED BY <1>3, <1>8, <2>1 DEF Mark
<1>9. ASSUME NEW w \in Workers, HandleUpdate(w) \/ WriteStatus(w) PROVE Moves(d)
  <2>1. act[w].pc \in {"begin", "write"}
    BY <1>9 DEF HandleUpdate, WriteStatus
  <2>2. act[w].cur \in Rows /\ status[act[w].cur] # "absent"
    BY <1>0, <2>1 DEF WellFormed, TypeOK, ActorState, References, Refers
  <2>. QED BY <1>0, <1>1, <1>3, <1>9, <2>2 DEF HandleUpdate, WriteStatus
<1>10. ASSUME AppInit PROVE Moves(d)
  BY <1>0, <1>10 DEF AppInit, Active, Moves
<1>11. ASSUME NEW u \in Users, Request(u) PROVE Moves(d)
  BY <1>1, <1>6, <1>11
     DEF Request, CheckExisting, Redeploy, CheckDeploymentQueue, ApiCancel,
         ClosePullRequest
<1>12. ASSUME NEW a \in Actors, Scan(a) PROVE Moves(d)
  BY <1>1, <1>8, <1>12 DEF Scan, ReadQueue, ScanLane, ScanCount, Push
<1>13. ASSUME NEW u \in Users, Respond(u) PROVE Moves(d)
  BY <1>0, <1>1, <1>4, <1>7, <1>12, <1>13 DEF Respond, AdmitLane, AdmitCount
<1>14. ASSUME NEW w \in Workers, Work(w) PROVE Moves(d)
  BY <1>0, <1>1, <1>5, <1>9, <1>12, <1>14
     DEF Work, Reserve, ReserveExpired, ResolveCommit, Unhealthy, Complete,
         CompleteAgain, FailDeployment, Transition, Throw, Finish
<1>15. ASSUME Disturb PROVE Moves(d)
  BY <1>1, <1>10, <1>15
     DEF Disturb, Timeout, KillWorker, DispatchThrows, Shutdown
<1>. QED BY <1>1, <1>11, <1>13, <1>14, <1>15 DEF Next, vars

\* What is exposed occupies a slot and is carried.
LEMMA ExposedCarried ==
  ASSUME NEW d \in Rows, Exposed(d)
  PROVE  InProgress(d) /\ Carried(d)
BY DEF Exposed, CutOff, Orphan, Carried, Dispatching

\* A row loses what would release it only while that is not in redis.
LEMMA LostOnlyInBetween ==
  ASSUME WellFormed, [Next]_vars, NEW d \in Rows, d \in lost', d \notin lost
  PROVE  Exposed(d)
<1>1. lost' # lost
  OBVIOUS
<1>2. Disturb
  BY ZenonT(40), <1>1
     DEF Next, vars, Request, Respond, Work, Scan, CheckExisting, Redeploy,
         CheckDeploymentQueue, ForceStart, Cancel, ApiCancel, ClosePullRequest,
         CreateRow, AdmitLane, AdmitCount, Terminate, ReadQueue, ScanLane,
         ScanCount, Mark, Push, Reserve, ReserveExpired, HandleUpdate,
         ResolveCommit, Unhealthy, Complete, CompleteAgain, FailDeployment,
         Transition, Throw, Finish, WriteStatus, DeployToAdditional
<1>3. Workers \subseteq Actors
  BY DEF Actors
<1>4. CASE \E w \in Workers : Timeout(w) \/ KillWorker(w)
  BY <1>3, <1>4 DEF Timeout, KillWorker, Exposed
<1>5. CASE \E a \in Actors : DispatchThrows(a)
  BY <1>5 DEF DispatchThrows, Exposed
<1>6. CASE Shutdown
  BY <1>6 DEF Shutdown
<1>7. CASE AppInit
  BY <1>7 DEF AppInit
<1>. QED BY <1>2, <1>4, <1>5, <1>6, <1>7 DEF Disturb

\* The first states are the first states of BuildSlots.
LEMMA SlotsInit == Init => Slots!Init
<1> SUFFICES ASSUME Init PROVE Slots!Init
  OBVIOUS
<1>1. \A d \in Rows : status[d] = "absent" /\ jobs[d] = 0 /\ expired[d] = 0
  BY DEF Init
<1>2. \A a \in Actors : act[a].pc = "idle" /\ act[a].cur = 0
  BY DEF Init, Idle
<1>3. [d \in Rows |-> Phase(d)] = [d \in Rows |-> "none"]
  BY <1>1, PhaseIs
<1>4. {d \in Rows : Carried(d)} = {}
  BY <1>1, <1>2 DEF Carried, Holds, Dispatching, Rows, Actors
<1>5. {d \in Rows : Cancelled(d)} = {}
  BY <1>1 DEF Cancelled
<1>6. lost = {}
  BY DEF Init
<1>7. {d \in Rows : Exposed(d)} = {}
  BY <1>4, ExposedCarried
<1>. QED BY <1>3, <1>4, <1>5, <1>6, <1>7 DEF Slots!Init

\* Every step is a step of BuildSlots for every deployment at once: the statuses
\* move as phases do, a slot is releasable because it is held (SlotHeld), what
\* is lost was exposed, and what is settled stays so (CancelStep).
LEMMA SlotsStep ==
  ASSUME WellFormed, WellFormed', SlotHeld', [Next]_vars
  PROVE  Slots!Next
<1> SUFFICES ASSUME NEW d \in Rows
             PROVE  /\ Slots!Enter(d) \/ Slots!Begin(d) \/ Slots!End(d) \/ Slots!Stay(d)
                    /\ Slots!Cut(d) /\ Slots!Settle(d)
  BY Zenon DEF Slots!Next
<1>1. /\ [e \in Rows |-> Phase(e)][d] = Phase(d)
      /\ [e \in Rows |-> Phase(e)]'[d] = Phase(d)'
  OBVIOUS
<1>2. Phase(d)' = "slot" => d \in {e \in Rows : Carried(e)}' \cup lost'
  BY PhaseBecomes DEF SlotHeld, InProgress
<1>3. Cancelled(d) => "force_start" \in Ops \/ Cancelled(d)'
  BY CancelStep
<1>4. Cancelled(d)' => Phase(d)' = "over"
  BY PhaseBecomes DEF Cancelled
<1>5. Phase(d) = "slot" <=> InProgress(d)
  BY PhaseIs DEF InProgress
<1>6. \/ Phase(d)' = Phase(d)
      \/ Phase(d) = "none" /\ Phase(d)' = "waiting"
      \/ Phase(d) # "none" /\ Phase(d)' \in {"slot", "over"}
  BY StatusMoves, PhaseIs, PhaseBecomes DEF Moves
<1>7. Phase(d) \in {"none", "waiting", "slot", "over"}
  BY PhaseIs
<1>8. Slots!Enter(d) \/ Slots!Begin(d) \/ Slots!End(d) \/ Slots!Stay(d)
  BY <1>1, <1>2, <1>3, <1>4, <1>6, <1>7
     DEF Slots!Enter, Slots!Begin, Slots!End, Slots!Stay, Slots!Releasable
<1>9. Slots!Cut(d)
  BY <1>1, <1>5, ExposedCarried, LostOnlyInBetween DEF Slots!Cut
<1>10. Slots!Settle(d)
  BY <1>1, <1>3, <1>4 DEF Slots!Settle
<1>. QED BY <1>8, <1>9, <1>10

\* The deployment queue implements BuildSlots: whatever requests, workers,
\* crashes and boots do, for any number of each, every behaviour of the code is
\* one of the abstract queue.
THEOREM QueueImplements == Spec => Implements
<1>1. WellFormed /\ SlotHeld /\ [Next]_vars => (WellFormed /\ SlotHeld)' /\ Slots!Next
  BY WellFormedStep, SlotStep, SlotsStep
<1>2. Init => WellFormed /\ SlotHeld /\ Slots!Init
  BY WellFormedInit, SlotsInit DEF Init, SlotHeld, InProgress
<1>. QED BY <1>1, <1>2, PTL DEF Spec, Implements, Slots!Spec
=============================================================================
