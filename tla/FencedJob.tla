------------------------------ MODULE FencedJob ------------------------------
(***************************************************************************)
(* What a durable, fenced run promises its readers, without saying how.    *)
(*                                                                         *)
(* A scope has at most one open job.  Each acquisition of a job opens a    *)
(* new epoch, and only the epoch that is current when the job is done may  *)
(* be its winner.  A job that is done or dropped stays so.                 *)
(***************************************************************************)
EXTENDS Naturals

CONSTANTS Jobs, Scopes, ScopeOf

VARIABLES phase,   \* none, queued, owned, done or dropped
          epoch,   \* how often the job was acquired
          winner   \* the epoch whose result was kept, 0 when none

vars == <<phase, epoch, winner>>

Open(j) == phase[j] \in {"queued", "owned"}

Init ==
    /\ phase = [j \in Jobs |-> "none"]
    /\ epoch = [j \in Jobs |-> 0]
    /\ winner = [j \in Jobs |-> 0]

Enqueue(j) ==
    /\ phase[j] = "none"
    /\ \A i \in Jobs : ScopeOf[i] = ScopeOf[j] => ~Open(i)
    /\ phase' = [phase EXCEPT ![j] = "queued"]
    /\ UNCHANGED <<epoch, winner>>

\* A queued job is taken, or a job is taken over from its owner.
Acquire(j) ==
    /\ Open(j)
    /\ phase' = [phase EXCEPT ![j] = "owned"]
    /\ epoch' = [epoch EXCEPT ![j] = @ + 1]
    /\ UNCHANGED winner

Commit(j) ==
    /\ phase[j] = "owned"
    /\ phase' = [phase EXCEPT ![j] = "done"]
    /\ winner' = [winner EXCEPT ![j] = epoch[j]]
    /\ UNCHANGED epoch

Drop(J) ==
    /\ \A j \in J : Open(j)
    /\ phase' = [j \in Jobs |-> IF j \in J THEN "dropped" ELSE phase[j]]
    /\ UNCHANGED <<epoch, winner>>

Next ==
    \/ \E j \in Jobs : Enqueue(j) \/ Acquire(j) \/ Commit(j)
    \/ \E J \in SUBSET Jobs : Drop(J)

Spec == Init /\ [][Next]_vars

\* An owned job ends, even if it changes hands on the way.
Ends(j) ==
    /\ phase[j] = "owned"
    /\ \/ Commit(j)
       \/ \E J \in SUBSET Jobs : j \in J /\ Drop(J)

FairSpec == Spec /\ \A j \in Jobs : WF_vars(Ends(j))
=============================================================================
