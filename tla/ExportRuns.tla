----------------------------- MODULE ExportRuns -----------------------------
(***************************************************************************)
(* Durable GTFS export builds: the rows of gtfs_export_runs, the callers   *)
(* that create and start them, the supervised runner and task that build   *)
(* one run under a fenced lease, the maintenance pass that closes expired  *)
(* leases, and the sweep that removes unretained run directories.          *)
(*                                                                         *)
(* Every database operation of export_runs.ex is one transaction that      *)
(* holds the row lock of its run, so it is one atomic action here.  The    *)
(* steps of a runner, of its task and of a caller are separate actions:    *)
(* anything may happen between two of them.                                *)
(*                                                                         *)
(* A lease is a countdown: LeaseTicks when it is granted or renewed, one   *)
(* less each time LeaseTick fires, 0 when lease_expires_at has passed.     *)
(* A claim's fresh UUID token is named by the generation of that claim.    *)
(***************************************************************************)
EXTENDS Naturals, FiniteSets

CONSTANTS Runs,        \* the identities rows may be inserted under
          Scopes,      \* (organization, version, export type) triples
          ScopeOf,     \* the scope each identity belongs to
          Clients,     \* LiveViews and API requests that start exports
          Executors,   \* identities of runner processes with their task
          MaxRunners,  \* max_children of the export RunnerSupervisor
          LeaseTicks,  \* length of a lease
          MaxCrashes,  \* bound on the crashes of one behaviour
          NoRun        \* "no run"

ASSUME ExportAssumption ==
    /\ ScopeOf \in [Runs -> Scopes]
    /\ LeaseTicks \in Nat \ {0}
    /\ MaxRunners \in Nat
    /\ MaxCrashes \in Nat
    /\ NoRun \notin Runs

VARIABLES
    run,        \* the database: one row for each identity
    asked,      \* the pending run a client is about to start
    refused,    \* clients whose start was refused with :busy
    runner,     \* runner process: idle, init, live, or gone (task lingers)
    job,        \* the run of a runner
    held,       \* the generation (and token) a runner and its task hold
    task,       \* the next step of the task
    published,  \* generations whose artifact files are on disk
    sweeping,   \* the storage sweep holds the artifact root lock
    kept,       \* the retained run ids the sweep read
    crashes     \* crashes so far

rowVars    == <<run, published>>
clientVars == <<asked, refused>>
execVars   == <<runner, job, held, task>>
sweepVars  == <<sweeping, kept>>
vars == <<rowVars, clientVars, execVars, sweepVars, crashes>>

-----------------------------------------------------------------------------
States == {"absent", "pending", "building", "ready",
           "failed", "interrupted", "cancelled"}
ActiveStates   == {"pending", "building"}
TerminalStates == {"ready", "failed", "interrupted", "cancelled"}
Retryable      == {"failed", "interrupted", "cancelled"}
RetainedActive == {"pending", "building"}
RetainedStates == {"pending", "building", "ready"}

Fields == [state    : States,
           gen      : Nat,           \* lease_generation
           token    : Nat,           \* lease_token, 0 when null
           lease    : 0..LeaseTicks, \* 0 when expired or null
           cancel   : BOOLEAN,       \* cancel_requested_at is set
           warned   : Nat,           \* generation that stored the warnings
           artifact : Nat]           \* generation of the artifact fields

\* The lease and artifact check constraints of gtfs_export_runs.
Consistent(row) ==
    /\ row.state = "building" <=> row.token # 0
    /\ row.state = "ready" <=> row.artifact # 0
    /\ row.state # "building" => row.lease = 0

Row == {row \in Fields : Consistent(row)}

NoRow == [state |-> "absent", gen |-> 0, token |-> 0, lease |-> 0,
          cancel |-> FALSE, warned |-> 0, artifact |-> 0]

TaskSteps == {"renew", "warn", "renew again", "export", "export warn",
              "conflict", "last renew", "publish", "verify", "commit",
              "close", "done", "dead"}

\* Types, and the check constraints of the table: a transition that broke one
\* of them would be refused by the database.
TypeOK ==
    /\ run \in [Runs -> Row]
    /\ asked \in [Clients -> Runs \cup {NoRun}]
    /\ refused \in SUBSET Clients
    /\ runner \in [Executors -> {"idle", "init", "live", "gone"}]
    /\ job \in [Executors -> Runs \cup {NoRun}]
    /\ held \in [Executors -> Nat]
    /\ task \in [Executors -> TaskSteps]
    /\ published \in [Runs -> SUBSET Nat]
    /\ sweeping \in BOOLEAN
    /\ kept \in SUBSET Runs
    /\ crashes \in 0..MaxCrashes

Init ==
    /\ run = [r \in Runs |-> NoRow]
    /\ asked = [c \in Clients |-> NoRun]
    /\ refused = {}
    /\ runner = [e \in Executors |-> "idle"]
    /\ job = [e \in Executors |-> NoRun]
    /\ held = [e \in Executors |-> 0]
    /\ task = [e \in Executors |-> "dead"]
    /\ published = [r \in Runs |-> {}]
    /\ sweeping = FALSE
    /\ kept = {}
    /\ crashes = 0

-----------------------------------------------------------------------------
(* Predicates and transitions of one row.                                  *)

Active(s)  == {r \in Runs : ScopeOf[r] = s /\ run[r].state \in ActiveStates}
Unused(s)  == {r \in Runs : ScopeOf[r] = s /\ run[r].state = "absent"}
Retained   == {r \in Runs : run[r].state \in RetainedStates}
Running    == {e \in Executors : runner[e] \in {"init", "live"}}

\* claimable?/1: an untouched pending run, or a build whose lease has expired.
Claimable(r) ==
    /\ ~run[r].cancel
    /\ \/ run[r].state = "pending"
       \/ run[r].state = "building" /\ run[r].lease = 0

OwnsByState(e, r) == run[r].state = "building" /\ run[r].lease > 0

\* The clauses fail_build/5 and fenced_run/4 share: current owner, live lease.
Owns(e, r) ==
    /\ run[r].state = "building"
    /\ run[r].gen = held[e]
    /\ run[r].token = held[e]
    /\ run[r].lease > 0

FencedDespiteCancel(e, r) == Owns(e, r)

\* fenced_run/4: a requested cancellation fences the owner out as well.
Fenced(e, r) == Owns(e, r) /\ ~run[r].cancel

ClosedKeepingToken(row, state) ==
    [row EXCEPT !.state = IF row.cancel THEN "cancelled" ELSE state,
                !.lease = 0]

\* close_build/3, with the state its callers choose.
Closed(row, state) ==
    [row EXCEPT !.state = IF row.cancel THEN "cancelled" ELSE state,
                !.token = 0, !.lease = 0]

\* insert_pending_run/4 and insert_retry_run/1.
NewRow == [NoRow EXCEPT !.state = "pending"]

\* claim_locked_run/3: the next generation, with a fresh token and lease.
Claimed(row) == [row EXCEPT !.state = "building", !.gen = row.gen + 1,
                            !.token = row.gen + 1, !.lease = LeaseTicks]

Renewed(row) == [row EXCEPT !.lease = LeaseTicks]

\* persist_warnings/5 on behalf of generation g.
Warned(row, g) == [row EXCEPT !.warned = g]

\* ready_run/4: both artifact sets in one guarded update.
Readied(row, g) == [row EXCEPT !.state = "ready", !.token = 0, !.lease = 0,
                               !.artifact = g]

ExpiredAnyState(r)   == run[r].state # "absent" /\ run[r].lease = 0

ExpiredBuild(r) == run[r].state = "building" /\ run[r].lease = 0

-----------------------------------------------------------------------------
(* Callers: the export page and the companion API.                         *)

\* insert_pending_run/4 and insert_retry_run/1, then ensure_started/2 with
\* the inserted struct.
InsertPending(c, s) ==
    /\ Active(s) = {}
    /\ \E r \in Unused(s) :
         /\ run' = [run EXCEPT ![r] = NewRow]
         /\ asked' = [asked EXCEPT ![c] = r]
    /\ UNCHANGED <<refused, published, execVars, sweepVars, crashes>>

\* create_pending/4 answers the active run of the scope, if there is one;
\* ensure_started/2 goes on only with a pending one.
ReusePending(c, s) ==
    /\ asked[c] = NoRun
    /\ \E r \in Active(s) :
         /\ run[r].state = "pending"
         /\ asked' = [asked EXCEPT ![c] = r]
    /\ UNCHANGED <<refused, rowVars, execVars, sweepVars, crashes>>

RequestExport(c, s) == asked[c] = NoRun /\ InsertPending(c, s)

\* retry/2: a closed run is replaced by a new pending run of its scope.
RetryRun(c, r) ==
    /\ asked[c] = NoRun
    /\ run[r].state \in Retryable
    /\ InsertPending(c, ScopeOf[r])

\* start_build/4 below the supervisor's limit starts the runner process.
StartBuild(c) ==
    /\ asked[c] # NoRun
    /\ c \notin refused
    /\ Cardinality(Running) < MaxRunners
    /\ \E e \in Executors :
         /\ runner[e] = "idle"
         /\ runner' = [runner EXCEPT ![e] = "init"]
         /\ job' = [job EXCEPT ![e] = asked[c]]
    /\ asked' = [asked EXCEPT ![c] = NoRun]
    /\ UNCHANGED <<refused, rowVars, held, task, sweepVars, crashes>>

\* start_build/4 at the limit answers :busy before the runner's init.
RefuseBuild(c) ==
    /\ asked[c] # NoRun
    /\ c \notin refused
    /\ Cardinality(Running) >= MaxRunners
    /\ refused' = refused \cup {c}
    /\ UNCHANGED <<asked, rowVars, execVars, sweepVars, crashes>>

LeaveUnstarted(c) ==
    /\ c \in refused
    /\ asked' = [asked EXCEPT ![c] = NoRun]
    /\ refused' = refused \ {c}
    /\ UNCHANGED <<rowVars, execVars, sweepVars, crashes>>

\* fail_unstarted/3 with the generation of the caller's pending snapshot.
CloseUnstarted(c) ==
    /\ c \in refused
    /\ LET r == asked[c] IN
         IF run[r].state = "pending" /\ run[r].gen = 0 /\ ~run[r].cancel
           THEN run' = [run EXCEPT ![r].state = "failed"]
           ELSE UNCHANGED run
    /\ asked' = [asked EXCEPT ![c] = NoRun]
    /\ refused' = refused \ {c}
    /\ UNCHANGED <<published, execVars, sweepVars, crashes>>

\* request_cancel/2: a pending run closes, a building one is flagged.
CancelRun(r) ==
    /\ \/ /\ run[r].state = "pending"
          /\ run' = [run EXCEPT ![r].state = "cancelled", ![r].cancel = TRUE]
       \/ /\ run[r].state = "building"
          /\ ~run[r].cancel
          /\ run' = [run EXCEPT ![r].cancel = TRUE]
    /\ UNCHANGED <<published, clientVars, execVars, sweepVars, crashes>>

-----------------------------------------------------------------------------
(* The runner process.                                                     *)

Release(e) ==
    /\ runner' = [runner EXCEPT ![e] = "idle"]
    /\ job' = [job EXCEPT ![e] = NoRun]
    /\ held' = [held EXCEPT ![e] = 0]
    /\ task' = [task EXCEPT ![e] = "dead"]

ClaimsKeepingGeneration(e) ==
    /\ runner[e] = "init"
    /\ LET r == job[e]
           g == IF run[r].gen = 0 THEN 1 ELSE run[r].gen IN
         /\ Claimable(r)
         /\ run' = [run EXCEPT ![r] =
                       [Claimed(@) EXCEPT !.gen = g, !.token = g]]
         /\ held' = [held EXCEPT ![e] = g]
    /\ runner' = [runner EXCEPT ![e] = "live"]
    /\ task' = [task EXCEPT ![e] = "renew"]
    /\ UNCHANGED <<job, published, clientVars, sweepVars, crashes>>

\* init/1 claims the run, then starts the task and the heartbeat timer.
RunnerClaims(e) ==
    /\ runner[e] = "init"
    /\ LET r == job[e] IN
         /\ Claimable(r)
         /\ run' = [run EXCEPT ![r] = Claimed(run[r])]
         /\ held' = [held EXCEPT ![e] = run[r].gen + 1]
    /\ runner' = [runner EXCEPT ![e] = "live"]
    /\ task' = [task EXCEPT ![e] = "renew"]
    /\ UNCHANGED <<job, published, clientVars, sweepVars, crashes>>

\* init/1 stops with :claim_failed.
RunnerClaimFails(e) ==
    /\ runner[e] = "init"
    /\ ~Claimable(job[e])
    /\ Release(e)
    /\ UNCHANGED <<rowVars, clientVars, sweepVars, crashes>>

\* handle_info(:renew_lease): the heartbeat renews the fenced lease ...
HeartbeatRenews(e) ==
    /\ runner[e] = "live"
    /\ Fenced(e, job[e])
    /\ run' = [run EXCEPT ![job[e]] = Renewed(run[job[e]])]
    /\ UNCHANGED <<published, clientVars, execVars, sweepVars, crashes>>

\* ... or sends the task a kill signal and stops: the row is left alone.
HeartbeatLost(e) ==
    /\ runner[e] = "live"
    /\ ~Fenced(e, job[e])
    /\ runner' = [runner EXCEPT ![e] = "gone"]
    /\ UNCHANGED <<job, held, task, rowVars, clientVars, sweepVars, crashes>>

\* The signal reaches the task, which may have taken steps in between.
TaskKilled(e) ==
    /\ runner[e] = "gone"
    /\ Release(e)
    /\ UNCHANGED <<rowVars, clientVars, sweepVars, crashes>>

\* {:EXIT, pid, :normal} of the task.
RunnerStops(e) ==
    /\ runner[e] = "live"
    /\ task[e] = "done"
    /\ Release(e)
    /\ UNCHANGED <<rowVars, clientVars, sweepVars, crashes>>

\* {:EXIT, pid, reason} of the task: fail_build/5 with "executor_lost".
RunnerReports(e) ==
    /\ runner[e] = "live"
    /\ task[e] = "dead"
    /\ LET r == job[e] IN
         run' = IF Owns(e, r)
                  THEN [run EXCEPT ![r] = Closed(run[r], "failed")]
                  ELSE run
    /\ Release(e)
    /\ UNCHANGED <<published, clientVars, sweepVars, crashes>>

-----------------------------------------------------------------------------
(* The task: Worker.build/4.                                               *)

Working(e) == runner[e] \in {"live", "gone"}

\* The task goes on to step t.
Goto(e, t) == task' = [task EXCEPT ![e] = t]

TaskUnchanged == UNCHANGED <<runner, job, held, clientVars, sweepVars, crashes>>

\* A fenced database step: it writes run[r] and goes on, or, with
\* {:error, :lease_lost}, goes to close/4.
FencedStep(e, from, row, to) ==
    /\ Working(e)
    /\ task[e] = from
    /\ LET r == job[e] IN
         \/ /\ Fenced(e, r)
            /\ run' = [run EXCEPT ![r] = row]
            /\ Goto(e, to)
         \/ /\ ~Fenced(e, r)
            /\ run' = run
            /\ Goto(e, "close")
    /\ UNCHANGED published
    /\ TaskUnchanged

TaskRenews(e) ==
    \/ FencedStep(e, "renew", Renewed(run[job[e]]), "warn")
    \/ FencedStep(e, "renew again", Renewed(run[job[e]]), "export")
    \/ FencedStep(e, "last renew", Renewed(run[job[e]]), "publish")

TaskWarns(e) ==
    \/ FencedStep(e, "warn", Warned(run[job[e]], held[e]), "renew again")
    \/ FencedStep(e, "export warn", Warned(run[job[e]], held[e]), "last renew")

\* build_export/1: zips with or without export warnings, a garage/stop
\* conflict, or an error that closes the run.
TaskExports(e) ==
    /\ Working(e)
    /\ task[e] = "export"
    /\ \E t \in {"export warn", "last renew", "conflict", "close"} : Goto(e, t)
    /\ UNCHANGED rowVars
    /\ TaskUnchanged

\* fail_conflict/5 ignores the result of its warning write.
TaskConflicts(e) == FencedStep(e, "conflict", Warned(run[job[e]], held[e]), "close")

\* publish_artifacts/2 under the artifact root lock; not fenced.
TaskPublishes(e) ==
    /\ Working(e)
    /\ task[e] = "publish"
    /\ \/ /\ ~sweeping
          /\ published' = [published EXCEPT ![job[e]] = @ \cup {held[e]}]
          /\ Goto(e, "verify")
       \/ /\ Goto(e, "close")    \* capacity exceeded or storage error
          /\ UNCHANGED published
    /\ UNCHANGED run
    /\ TaskUnchanged

\* mark_ready/5 verifies the files before it opens its transaction.
TaskVerifies(e) ==
    /\ Working(e)
    /\ task[e] = "verify"
    /\ Goto(e, IF held[e] \in published[job[e]] THEN "commit" ELSE "close")
    /\ UNCHANGED rowVars
    /\ TaskUnchanged

TaskCommits(e) == FencedStep(e, "commit", Readied(run[job[e]], held[e]), "done")

\* close/4 -> fail_build/5: the owner closes its run, cancelled or not.
TaskCloses(e) ==
    /\ Working(e)
    /\ task[e] = "close"
    /\ LET r == job[e] IN
         run' = IF Owns(e, r)
                  THEN [run EXCEPT ![r] = Closed(run[r], "failed")]
                  ELSE run
    /\ Goto(e, "done")
    /\ UNCHANGED published
    /\ TaskUnchanged

TaskStep(e) ==
    \/ TaskRenews(e)
    \/ TaskWarns(e)
    \/ TaskExports(e)
    \/ TaskConflicts(e)
    \/ TaskPublishes(e)
    \/ TaskVerifies(e)
    \/ TaskCommits(e)
    \/ TaskCloses(e)

-----------------------------------------------------------------------------
(* Time, maintenance and the storage sweep.                                *)

LeaseTick(r) ==
    /\ run[r].state = "building"
    /\ run[r].lease > 0
    /\ run' = [run EXCEPT ![r].lease = @ - 1]
    /\ UNCHANGED <<published, clientVars, execVars, sweepVars, crashes>>

\* reconcile_expired/1: one transaction closes every expired build.
ReconcileExpired ==
    /\ \E r \in Runs : ExpiredBuild(r)
    /\ run' = [r \in Runs |-> IF ExpiredBuild(r)
                                THEN Closed(run[r], "interrupted")
                                ELSE run[r]]
    /\ UNCHANGED <<published, clientVars, execVars, sweepVars, crashes>>

\* reconcile_export_artifacts/1 reads the retained ids under the root lock.
SweepReads ==
    /\ ~sweeping
    /\ sweeping' = TRUE
    /\ kept' = Retained
    /\ UNCHANGED <<rowVars, clientVars, execVars, crashes>>

\* The directories of unretained runs that are older than the grace period.
SweepRemoves ==
    /\ sweeping
    /\ \E old \in SUBSET (Runs \ kept) :
         published' = [r \in Runs |-> IF r \in old THEN {} ELSE published[r]]
    /\ sweeping' = FALSE
    /\ kept' = {}
    /\ UNCHANGED <<run, clientVars, execVars, crashes>>

-----------------------------------------------------------------------------
(* Crashes, at most MaxCrashes of them.                                    *)

Crash == crashes < MaxCrashes /\ crashes' = crashes + 1

\* An exception in build/4 is rescued and closes the run.
TaskRaises(e) ==
    /\ Crash
    /\ Working(e)
    /\ task[e] \notin {"close", "done", "dead"}
    /\ Goto(e, "close")
    /\ UNCHANGED <<rowVars, runner, job, held, clientVars, sweepVars>>

\* The task exits abnormally: killed, or an exception in its close/4.
TaskDies(e) ==
    /\ Crash
    /\ runner[e] = "live"
    /\ task[e] \notin {"done", "dead"}
    /\ Goto(e, "dead")
    /\ UNCHANGED <<rowVars, runner, job, held, clientVars, sweepVars>>

\* The runner dies; its exit signal travels to the linked task.
RunnerDies(e) ==
    /\ Crash
    /\ runner[e] \in {"init", "live"}
    /\ \/ runner[e] = "init" /\ Release(e)
       \/ /\ runner[e] = "live"
          /\ runner' = [runner EXCEPT ![e] = "gone"]
          /\ UNCHANGED <<job, held, task>>
    /\ UNCHANGED <<rowVars, clientVars, sweepVars>>

\* A client that crashes between its two calls leaves a pending run behind.
ClientDies(c) ==
    /\ Crash
    /\ asked[c] # NoRun
    /\ asked' = [asked EXCEPT ![c] = NoRun]
    /\ refused' = refused \ {c}
    /\ UNCHANGED <<rowVars, execVars, sweepVars>>

\* The node restarts: rows and files survive, processes and locks do not.
NodeRestarts ==
    /\ Crash
    /\ asked' = [c \in Clients |-> NoRun]
    /\ refused' = {}
    /\ runner' = [e \in Executors |-> "idle"]
    /\ job' = [e \in Executors |-> NoRun]
    /\ held' = [e \in Executors |-> 0]
    /\ task' = [e \in Executors |-> "dead"]
    /\ sweeping' = FALSE
    /\ kept' = {}
    /\ UNCHANGED rowVars

-----------------------------------------------------------------------------
ClientNext(c) ==
    \/ \E s \in Scopes : RequestExport(c, s) \/ ReusePending(c, s)
    \/ \E r \in Runs : RetryRun(c, r)
    \/ StartBuild(c)
    \/ RefuseBuild(c)
    \/ CloseUnstarted(c)
    \/ ClientDies(c)

ExecutorNext(e) ==
    \/ RunnerClaims(e)
    \/ RunnerClaimFails(e)
    \/ HeartbeatRenews(e)
    \/ HeartbeatLost(e)
    \/ TaskKilled(e)
    \/ RunnerStops(e)
    \/ RunnerReports(e)
    \/ TaskStep(e)
    \/ TaskRaises(e)
    \/ TaskDies(e)
    \/ RunnerDies(e)

SystemNext ==
    \/ \E r \in Runs : CancelRun(r) \/ LeaseTick(r)
    \/ ReconcileExpired
    \/ SweepReads
    \/ SweepRemoves
    \/ NodeRestarts

Next ==
    \/ \E c \in Clients : ClientNext(c)
    \/ \E e \in Executors : ExecutorNext(e)
    \/ SystemNext

Spec == Init /\ [][Next]_vars

\* A build is unattended when no live runner could renew its lease.
Unattended(r) == \A e \in Executors : ~(runner[e] = "live" /\ Owns(e, r))

(***************************************************************************)
(* Processes that are not killed keep running, the maintenance process     *)
(* runs every five minutes, and the lease of a build no runner renews runs *)
(* out.  Publishing competes with the sweep for the root lock, which       *)
(* :global.trans retries forever: it is strongly fair.  Clients are not    *)
(* asked to start anything, heartbeats and crashes are not asked to occur. *)
(***************************************************************************)
Fairness ==
    /\ \A c \in Clients :
         WF_vars(StartBuild(c) \/ RefuseBuild(c) \/ CloseUnstarted(c))
    /\ \A e \in Executors :
         /\ WF_vars(RunnerClaims(e) \/ RunnerClaimFails(e))
         /\ WF_vars(TaskKilled(e) \/ RunnerStops(e) \/ RunnerReports(e))
         /\ WF_vars(TaskStep(e))
         /\ SF_vars(TaskPublishes(e))
    /\ \A r \in Runs : WF_vars(Unattended(r) /\ LeaseTick(r))
    /\ WF_vars(ReconcileExpired)
    /\ WF_vars(SweepRemoves)

FairSpec == Spec /\ Fairness

-----------------------------------------------------------------------------
(* Safety.                                                                 *)

\* A scope never has two runs that are pending or building: create_pending/4
\* and retry/2 serialize on the scope's advisory lock, and no other
\* transition makes a run active again.
OneActivePerScope ==
    \A r1, r2 \in Runs :
        /\ ScopeOf[r1] = ScopeOf[r2]
        /\ run[r1].state \in ActiveStates
        /\ run[r2].state \in ActiveStates
        => r1 = r2

\* A ready run offers the files of the last generation that claimed it, and
\* they are on disk: neither a superseded task nor the storage sweep can put
\* other bytes, or none, behind a ready row.
ReadyHasItsArtifact ==
    \A r \in Runs :
        run[r].state = "ready" =>
            /\ run[r].artifact = run[r].gen
            /\ run[r].gen \in published[r]

\* The warnings a ready run shows were stored by the build that made its
\* files, never by a task of an earlier generation that was still running.
ReadyHasItsWarnings ==
    \A r \in Runs : run[r].state = "ready" => run[r].warned = run[r].gen

\* Two runners never hold the same generation of a run, even while the task
\* of a stopped runner is still executing.
OneHolderPerGeneration ==
    \A e1, e2 \in Executors :
        /\ Working(e1) /\ Working(e2)
        /\ job[e1] = job[e2]
        /\ held[e1] = held[e2]
        => e1 = e2

\* Once another claim has taken the run over, no step of the superseded task
\* or of its runner (renew, store warnings, commit, close, heartbeat, report a
\* crash) changes a row, and they stay superseded until they have stopped.
Superseded(e) == Working(e) /\ held[e] # run[job[e]].gen

SupersededTaskIsHarmless ==
    [][\A e \in Executors :
          Superseded(e) =>
              /\ ExecutorNext(e) => run' = run
              /\ Working(e)' => Superseded(e)']_vars

\* Once a cancellation is requested it is never withdrawn and the run never
\* becomes ready, in whatever order the request, the commit, a takeover and
\* the expiry of the lease happen.
CancelIsFinal ==
    [][\A r \in Runs :
          run[r].cancel => run'[r].cancel /\ run'[r].state # "ready"]_vars

\* A closed run stays as it was closed, whoever still works on it.
ClosedRunsStayClosed ==
    [][\A r \in Runs :
          run[r].state \in TerminalStates => run'[r] = run[r]]_vars

-----------------------------------------------------------------------------
(* Liveness, under FairSpec.                                               *)

\* A start that a client has begun is answered, unless something crashes in
\* between: the run is claimed by a runner, or closed because the supervisor
\* was full, also when the start is the retry of a run whose runner still
\* fills the supervisor.
StartsAreAnswered ==
    \A c \in Clients, r \in Runs, n \in 0..MaxCrashes :
        (asked[c] = r /\ crashes = n)
            ~> (run[r].state # "pending" \/ crashes > n)

-----------------------------------------------------------------------------
(* The abstract specification, and how a row shows it.                     *)

PhaseOf == [absent |-> "none", pending |-> "queued", building |-> "owned",
            ready |-> "done", failed |-> "dropped", interrupted |-> "dropped",
            cancelled |-> "dropped"]

Job == INSTANCE FencedJob WITH
         Jobs   <- Runs,
         phase  <- [r \in Runs |-> PhaseOf[run[r].state]],
         epoch  <- [r \in Runs |-> run[r].gen],
         winner <- [r \in Runs |-> run[r].artifact]

\* Export runs move as fenced jobs do: a run opens only in a scope without an
\* open one, every claim opens the next epoch, the artifact of a ready run is
\* that of its last claim, and what is closed stays closed.
MovesAsFencedJob == Job!Spec

\* They are fenced jobs: besides, every claimed run ends.
ImplementsFencedJob == Job!FairSpec

=============================================================================
