----------------------------- MODULE BuildSlots -----------------------------
(***************************************************************************)
(* What the deployment queue promises, without rows, redis, workers or     *)
(* requests: a deployment is requested once, waits, occupies a build slot  *)
(* of its server and is over; while it occupies a slot something is under  *)
(* way that will release it, and once its cancellation has settled it does *)
(* not occupy one again.  DeploymentQueue implements this specification.   *)
(***************************************************************************)
EXTENDS Naturals

CONSTANTS
  Deployments,
  MayForce        \* an operator may start a deployment whatever its state

VARIABLES
  phase,          \* deployment -> where it is in its life
  carried,        \* deployments with a job, or about to be given one
  exposed,        \* those whose job is not stored: not yet, or not any more
  lost,           \* those a crash left in their slot with no job
  settled         \* cancelled, and nobody acts on older knowledge of them

vars == <<phase, carried, exposed, lost, settled>>

Init == /\ phase = [d \in Deployments |-> "none"]
        /\ carried = {} /\ exposed = {} /\ lost = {} /\ settled = {}

\* The slot a deployment occupies will be released, unless a crash came while
\* its job was not stored.
Releasable(d) == d \in carried' \cup lost'

\* A request creates the deployment.
Enter(d) == phase[d] = "none" /\ phase'[d] = "waiting"

\* It is given a slot; one that is over is taken up again only by somebody who
\* learned of it while it was not, or by force.
Begin(d) == /\ phase[d] \in {"waiting", "over"} /\ phase'[d] = "slot"
            /\ d \notin settled \/ MayForce
            /\ Releasable(d)

\* It finishes, fails or is cancelled.
End(d) == phase[d] \in {"waiting", "slot"} /\ phase'[d] = "over"

\* It stays where it is, and keeps what will release its slot.
Stay(d) == /\ phase'[d] = phase[d]
           /\ phase[d] = "slot" => Releasable(d)

\* A crash takes a slot's job away only while that is not stored.
Cut(d) == /\ d \in exposed => phase[d] = "slot" /\ d \in carried
          /\ d \in lost' => d \in lost \cup exposed

\* A settled cancellation is revoked by force alone.
Settle(d) == /\ d \in settled => d \in settled' \/ MayForce
             /\ d \in settled' => phase'[d] = "over"

\* A restart may move many deployments at once.
Next == \A d \in Deployments :
          /\ Enter(d) \/ Begin(d) \/ End(d) \/ Stay(d)
          /\ Cut(d) /\ Settle(d)

Spec == Init /\ [][Next]_vars
=============================================================================
