---------------------------- MODULE ExportProofs ----------------------------
(***************************************************************************)
(* Theorems about ExportRuns for every set of runs, scopes, clients and    *)
(* executors, every lease length, supervisor limit and number of crashes;  *)
(* and about ExportArtifacts, the files of one of these runs, for every    *)
(* set of downloads, pinners, owners and slots, every length of the        *)
(* deadlines, and every bound.                                             *)
(***************************************************************************)
EXTENDS ExportRuns, ExportArtifacts, TLAPS

-----------------------------------------------------------------------------
(* The runs.                                                               *)


(***************************************************************************)
(* The inductive invariant.  TypeOK and the safety properties are not      *)
(* inductive by themselves: a step of a task is harmless only because of   *)
(* what the task, its runner and the sweep already know of the row.        *)
(***************************************************************************)

\* What the state of a row says about its other columns.
RowInv ==
    \A r \in Runs :
        /\ run[r].state = "absent" => run[r] = NoRow /\ published[r] = {}
        /\ run[r].state = "pending" => run[r].gen = 0 /\ ~run[r].cancel
        /\ run[r].state = "building" => run[r].token = run[r].gen
        /\ run[r].state = "ready" => ~run[r].cancel

\* A client that was refused is still about to start a run.
ClientInv == \A c \in refused : asked[c] \in Runs

\* A runner has a run from its start on, and a generation the row has
\* reached from its claim on.
HolderInv ==
    \A e \in Executors :
        /\ runner[e] # "idle" => job[e] \in Runs
        /\ Working(e) => held[e] \in 1..run[job[e]].gen

\* The current owner has stored its warnings before it builds, and its files
\* before it commits.
WarnedSteps == {"renew again", "export", "export warn", "conflict",
                "last renew", "publish", "verify", "commit"}

ProgressInv ==
    \A e \in Executors :
        /\ Working(e)
        /\ run[job[e]].state = "building"
        /\ held[e] = run[job[e]].gen
        => /\ task[e] \in WarnedSteps => run[job[e]].warned = run[job[e]].gen
           /\ task[e] = "commit" => held[e] \in published[job[e]]

\* The sweep read every retained run that has files.
SweepInv ==
    sweeping => \A r \in Retained : published[r] # {} => r \in kept

IInv ==
    /\ TypeOK
    /\ RowInv
    /\ ClientInv
    /\ HolderInv
    /\ ProgressInv
    /\ SweepInv
    /\ OneActivePerScope
    /\ OneHolderPerGeneration
    /\ ReadyHasItsArtifact
    /\ ReadyHasItsWarnings

-----------------------------------------------------------------------------
(* Row operators: each yields a row that meets the table's constraints.    *)

LEMMA LeaseRange == 0 \in 0..LeaseTicks /\ LeaseTicks \in 0..LeaseTicks
  BY ExportAssumption

LEMMA NewRowType == NewRow \in Row
<1>1. NewRow \in Fields
  BY LeaseRange DEF Fields, States, NewRow, NoRow
<1>2. Consistent(NewRow)
  BY DEF Consistent, NewRow, NoRow
<1> QED
  BY <1>1, <1>2 DEF Row

LEMMA ClaimedType ==
  ASSUME NEW rec \in Row, rec.state \in ActiveStates
  PROVE  Claimed(rec) \in Row
<1> USE DEF Row, Consistent
<1>1. Claimed(rec) \in Fields
  <2>1. rec \in Fields /\ rec.gen + 1 \in Nat
    BY DEF Fields
  <2> QED
    BY <2>1, LeaseRange DEF Fields, States, ActiveStates, Claimed
<1>2. Consistent(Claimed(rec))
  BY DEF Fields, ActiveStates, Claimed
<1> QED
  BY <1>1, <1>2

LEMMA RenewedType ==
  ASSUME NEW rec \in Row, rec.state = "building"
  PROVE  Renewed(rec) \in Row
<1> USE DEF Row, Consistent
<1>1. Renewed(rec) \in Fields
  BY LeaseRange DEF Fields, States, Renewed
<1>2. Consistent(Renewed(rec))
  BY DEF Fields, Renewed
<1> QED
  BY <1>1, <1>2

LEMMA WarnedType ==
  ASSUME NEW rec \in Row, NEW g \in Nat
  PROVE  Warned(rec, g) \in Row
<1> USE DEF Row, Consistent
<1>1. Warned(rec, g) \in Fields
  BY LeaseRange DEF Fields, States, Warned
<1>2. Consistent(Warned(rec, g))
  BY DEF Fields, Warned
<1> QED
  BY <1>1, <1>2

LEMMA ReadiedType ==
  ASSUME NEW rec \in Row, NEW g \in Nat \ {0}, rec.state = "building"
  PROVE  Readied(rec, g) \in Row
<1> USE DEF Row, Consistent
<1>1. Readied(rec, g) \in Fields
  BY LeaseRange DEF Fields, States, Readied
<1>2. Consistent(Readied(rec, g))
  BY DEF Fields, Readied
<1> QED
  BY <1>1, <1>2

LEMMA ClosedType ==
  ASSUME NEW rec \in Row, rec.state = "building",
         NEW st \in {"failed", "interrupted"}
  PROVE  Closed(rec, st) \in Row
<1> USE DEF Row, Consistent
<1>1. Closed(rec, st) \in Fields
  BY LeaseRange DEF Fields, States, Closed
<1>2. Consistent(Closed(rec, st))
  BY DEF Fields, Closed
<1> QED
  BY <1>1, <1>2

LEMMA ClosedFacts ==
  ASSUME NEW rec \in Row, NEW st
  PROVE  /\ Closed(rec, st).state \in {"cancelled", st}
         /\ Closed(rec, st).gen = rec.gen
         /\ Closed(rec, st).warned = rec.warned
         /\ Closed(rec, st).artifact = rec.artifact
         /\ Closed(rec, st).cancel = rec.cancel
  BY DEF Row, Fields, Closed

\* A row is inserted only into a scope without an active one.
LEMMA InsertStep ==
  ASSUME IInv, NEW c \in Clients, NEW s \in Scopes, asked[c] = NoRun, InsertPending(c, s)
  PROVE  IInv'
<1>0. PICK r \in Unused(s) : run' = [run EXCEPT ![r] = NewRow] /\ asked' = [asked EXCEPT ![c] = r]
  BY DEF InsertPending
<1>a. r \in Runs /\ run[r] = NoRow /\ published[r] = {} /\ NewRow \in Row
  BY <1>0, NewRowType DEF IInv, TypeOK, RowInv, Unused
<1>b. /\ Active(s) = {}
      /\ UNCHANGED <<refused, published, execVars, sweepVars, crashes>>
  BY DEF InsertPending
<1>1. TypeOK'
  BY <1>0, <1>a, <1>b
     DEF IInv, TypeOK, TaskSteps, Consistent, execVars, sweepVars, Unused, Active
<1>2. RowInv' /\ ClientInv'
  BY <1>0, <1>a, <1>b
     DEF IInv, TypeOK, Row, Fields, RowInv, ClientInv, NewRow, NoRow, Consistent,
         execVars, sweepVars, Unused, Active
<1>3. HolderInv'
  BY <1>0, <1>a, <1>b
     DEF IInv, TypeOK, Row, Fields, HolderInv, Working, NewRow, NoRow, Consistent,
         execVars, sweepVars, Unused, Active
<1>4. ProgressInv'
  <2> SUFFICES ASSUME NEW h \in Executors, Working(h)', run'[job'[h]].state = "building",
                      held'[h] = run'[job'[h]].gen
               PROVE  /\ task'[h] \in WarnedSteps => run'[job'[h]].warned = run'[job'[h]].gen
                      /\ task'[h] = "commit" => held'[h] \in published'[job'[h]]
    BY DEF ProgressInv
  <2> QED
    BY <1>0, <1>a, <1>b
       DEF IInv, TypeOK, Row, Fields, HolderInv, ProgressInv, Working, WarnedSteps,
           NewRow, NoRow, Consistent, execVars, sweepVars, Unused, Active
<1>5. SweepInv'
  BY <1>0, <1>a, <1>b
     DEF IInv, TypeOK, Row, Fields, SweepInv, Retained, RetainedStates,
         ActiveStates, RowInv, NewRow, NoRow, Consistent, execVars, sweepVars,
         Unused, Active
<1>6. OneActivePerScope'
  BY <1>0, <1>a, <1>b
     DEF IInv, TypeOK, Row, Fields, OneActivePerScope, ActiveStates, NewRow, NoRow,
         Consistent, execVars, sweepVars, Unused, Active
<1>7. OneHolderPerGeneration'
  BY <1>0, <1>a, <1>b
     DEF IInv, TypeOK, Row, Fields, HolderInv, OneHolderPerGeneration, Working,
         NewRow, NoRow, Consistent, execVars, sweepVars, Unused, Active
<1>8. ReadyHasItsArtifact' /\ ReadyHasItsWarnings'
  BY <1>0, <1>a, <1>b
     DEF IInv, TypeOK, Row, Fields, ReadyHasItsArtifact, ReadyHasItsWarnings,
         NewRow, NoRow, Consistent, execVars, sweepVars, Unused, Active
<1> QED
  BY <1>1, <1>2, <1>3, <1>4, <1>5, <1>6, <1>7, <1>8 DEF IInv

\* A runner starts for the run its client asked for.
LEMMA StartStep ==
  ASSUME IInv, NEW c \in Clients, StartBuild(c)
  PROVE  IInv'
<1>0. asked[c] \in Runs
  BY DEF IInv, TypeOK, StartBuild
<1>1. TypeOK'
  BY <1>0 DEF IInv, TypeOK, TaskSteps, StartBuild, rowVars, sweepVars
<1>2. RowInv' /\ ClientInv'
  BY <1>0
     DEF IInv, TypeOK, Row, Fields, RowInv, ClientInv, StartBuild, rowVars,
         sweepVars
<1>3. HolderInv'
  BY <1>0
     DEF IInv, TypeOK, Row, Fields, HolderInv, Working, StartBuild, rowVars,
         sweepVars
<1>4. ProgressInv'
  <2> SUFFICES ASSUME NEW h \in Executors, Working(h)', run'[job'[h]].state = "building",
                      held'[h] = run'[job'[h]].gen
               PROVE  /\ task'[h] \in WarnedSteps => run'[job'[h]].warned = run'[job'[h]].gen
                      /\ task'[h] = "commit" => held'[h] \in published'[job'[h]]
    BY DEF ProgressInv
  <2> QED
    BY <1>0
       DEF IInv, TypeOK, Row, Fields, HolderInv, ProgressInv, Working, WarnedSteps,
           StartBuild, rowVars, sweepVars
<1>5. SweepInv'
  BY <1>0
     DEF IInv, TypeOK, Row, Fields, SweepInv, Retained, RetainedStates,
         ActiveStates, RowInv, StartBuild, rowVars, sweepVars
<1>6. OneActivePerScope'
  BY <1>0
     DEF IInv, TypeOK, Row, Fields, OneActivePerScope, ActiveStates, StartBuild,
         rowVars, sweepVars
<1>7. OneHolderPerGeneration'
  BY <1>0
     DEF IInv, TypeOK, Row, Fields, HolderInv, OneHolderPerGeneration, Working,
         StartBuild, rowVars, sweepVars
<1>8. ReadyHasItsArtifact' /\ ReadyHasItsWarnings'
  BY <1>0
     DEF IInv, TypeOK, Row, Fields, ReadyHasItsArtifact, ReadyHasItsWarnings,
         StartBuild, rowVars, sweepVars
<1> QED
  BY <1>1, <1>2, <1>3, <1>4, <1>5, <1>6, <1>7, <1>8 DEF IInv

\* A claim opens a generation that nobody holds yet.
LEMMA ClaimStep ==
  ASSUME IInv, NEW e \in Executors, RunnerClaims(e)
  PROVE  IInv'
<1>0. job[e] \in Runs /\ Claimable(job[e]) /\ run[job[e]].state \in ActiveStates
  BY DEF IInv, HolderInv, RunnerClaims, Claimable, ActiveStates
<1>a. /\ run' = [run EXCEPT ![job[e]] = Claimed(run[job[e]])]
      /\ held' = [held EXCEPT ![e] = run[job[e]].gen + 1]
  BY DEF RunnerClaims
<1>b. Claimed(run[job[e]]) \in Row /\ run[job[e]].gen \in Nat
  BY <1>0, ClaimedType DEF IInv, TypeOK, Row, Fields
<1>c. run' \in [Runs -> Row] /\ held' \in [Executors -> Nat]
  BY <1>0, <1>a, <1>b DEF IInv, TypeOK
<1>1. TypeOK'
  BY <1>0, <1>a, <1>b, <1>c
     DEF IInv, TypeOK, TaskSteps, RunnerClaims, clientVars, sweepVars
<1>2. RowInv' /\ ClientInv'
  <2>1. \A q \in Runs : q # job[e] => run'[q] = run[q]
    BY <1>a DEF IInv, TypeOK
  <2>2. /\ run'[job[e]].state = "building"
        /\ run'[job[e]].token = run'[job[e]].gen
    BY <1>0, <1>a DEF IInv, TypeOK, Row, Fields, Claimed
  <2>3. RowInv'
    BY <2>1, <2>2 DEF IInv, RowInv, RunnerClaims
  <2> QED
    BY <2>3 DEF IInv, ClientInv, RunnerClaims, clientVars
<1>3. HolderInv'
  BY <1>0, <1>a, <1>b, <1>c
     DEF IInv, TypeOK, Row, Fields, HolderInv, Working, RunnerClaims, Claimed,
         clientVars, sweepVars
<1>4. ProgressInv'
  <2>0. SUFFICES ASSUME NEW h \in Executors, Working(h)', run'[job'[h]].state = "building",
                      held'[h] = run'[job'[h]].gen
               PROVE  /\ task'[h] \in WarnedSteps => run'[job'[h]].warned = run'[job'[h]].gen
                      /\ task'[h] = "commit" => held'[h] \in published'[job'[h]]
    BY DEF ProgressInv
  <2>1. CASE h = e
    BY <2>0, <2>1, <1>0 DEF IInv, TypeOK, RunnerClaims, WarnedSteps
  <2>2. CASE h # e /\ job[h] = job[e]
    <3>1. held[h] <= run[job[e]].gen /\ held[h] \in Nat
      BY <2>0, <2>2, <1>b DEF IInv, TypeOK, HolderInv, Working, RunnerClaims
    <3>2. held'[h] = held[h] /\ run'[job'[h]].gen = run[job[e]].gen + 1
      BY <2>2, <1>0, <1>a, <1>b DEF IInv, TypeOK, RunnerClaims, Claimed, Row, Fields
    <3> QED
      BY <3>1, <3>2, <1>b, <2>0
  <2>3. CASE h # e /\ job[h] # job[e]
    <3>1. /\ Working(h) /\ job[h] \in Runs
          /\ run'[job'[h]] = run[job[h]] /\ held'[h] = held[h]
          /\ task'[h] = task[h] /\ published' = published /\ job' = job
      BY <2>0, <2>3, <1>0, <1>a DEF IInv, TypeOK, HolderInv, Working, RunnerClaims
    <3> QED
      BY <2>0, <3>1 DEF IInv, ProgressInv
  <2> QED
    BY <2>1, <2>2, <2>3
<1>5. SweepInv'
  BY <1>0, <1>a, <1>b, <1>c, SMTT(20)
     DEF IInv, TypeOK, Row, Fields, SweepInv, Retained, RetainedStates,
         ActiveStates, RowInv, RunnerClaims, Claimed, clientVars, sweepVars
<1>6. OneActivePerScope'
  BY <1>0, <1>a, <1>b, <1>c, SMTT(20)
     DEF IInv, TypeOK, Row, Fields, OneActivePerScope, ActiveStates, RunnerClaims,
         Claimed, clientVars, sweepVars
<1>7. OneHolderPerGeneration'
  BY <1>0, <1>a, <1>b, <1>c, SMTT(20)
     DEF IInv, TypeOK, Row, Fields, HolderInv, OneHolderPerGeneration, Working,
         RunnerClaims, Claimed, clientVars, sweepVars
<1>8. ReadyHasItsArtifact' /\ ReadyHasItsWarnings'
  <2>1. /\ run'[job[e]].state = "building" /\ published' = published
        /\ \A q \in Runs : q # job[e] => run'[q] = run[q]
    BY <1>0, <1>a, <1>b DEF IInv, TypeOK, Row, Fields, RunnerClaims, Claimed
  <2> QED
    BY <1>0, <2>1 DEF IInv, ReadyHasItsArtifact, ReadyHasItsWarnings
<1> QED
  BY <1>1, <1>2, <1>3, <1>4, <1>5, <1>6, <1>7, <1>8 DEF IInv

\* Reusing a pending run changes nothing but what the client is about to do.
LEMMA ReuseStep ==
  ASSUME IInv, NEW c \in Clients, NEW s \in Scopes, ReusePending(c, s)
  PROVE  IInv'
<1>1. TypeOK'
  BY DEF IInv, TypeOK, TaskSteps, ReusePending, Active, rowVars, execVars, sweepVars
<1>2. RowInv' /\ ClientInv'
  BY DEF IInv, TypeOK, Row, Fields, RowInv, ClientInv, ReusePending, Active,
         rowVars, execVars, sweepVars
<1>3. HolderInv'
  BY DEF IInv, TypeOK, Row, Fields, HolderInv, Working, ReusePending, Active,
         rowVars, execVars, sweepVars
<1>4. ProgressInv'
  <2> SUFFICES ASSUME NEW h \in Executors, Working(h)', run'[job'[h]].state = "building",
                      held'[h] = run'[job'[h]].gen
               PROVE  /\ task'[h] \in WarnedSteps => run'[job'[h]].warned = run'[job'[h]].gen
                      /\ task'[h] = "commit" => held'[h] \in published'[job'[h]]
    BY DEF ProgressInv
  <2> QED
    BY DEF IInv, TypeOK, Row, Fields, HolderInv, ProgressInv, Working, WarnedSteps,
           ReusePending, Active, rowVars, execVars, sweepVars
<1>5. SweepInv'
  BY DEF IInv, TypeOK, Row, Fields, SweepInv, Retained, RetainedStates,
         ActiveStates, RowInv, ReusePending, Active, rowVars, execVars, sweepVars
<1>6. OneActivePerScope'
  BY DEF IInv, TypeOK, Row, Fields, OneActivePerScope, ActiveStates, ReusePending,
         Active, rowVars, execVars, sweepVars
<1>7. OneHolderPerGeneration'
  BY DEF IInv, TypeOK, Row, Fields, HolderInv, OneHolderPerGeneration, Working,
         ReusePending, Active, rowVars, execVars, sweepVars
<1>8. ReadyHasItsArtifact' /\ ReadyHasItsWarnings'
  BY DEF IInv, TypeOK, Row, Fields, ReadyHasItsArtifact, ReadyHasItsWarnings,
         ReusePending, Active, rowVars, execVars, sweepVars
<1> QED
  BY <1>1, <1>2, <1>3, <1>4, <1>5, <1>6, <1>7, <1>8 DEF IInv

\* A refused start leaves the client to close its run.
LEMMA RefuseStep ==
  ASSUME IInv, NEW c \in Clients, RefuseBuild(c)
  PROVE  IInv'
<1>0. asked[c] \in Runs
  BY DEF IInv, TypeOK, RefuseBuild
<1>1. TypeOK'
  BY <1>0 DEF IInv, TypeOK, TaskSteps, RefuseBuild, rowVars, execVars, sweepVars
<1>2. RowInv' /\ ClientInv'
  BY <1>0
     DEF IInv, TypeOK, Row, Fields, RowInv, ClientInv, RefuseBuild, rowVars,
         execVars, sweepVars
<1>3. HolderInv'
  BY <1>0
     DEF IInv, TypeOK, Row, Fields, HolderInv, Working, RefuseBuild, rowVars,
         execVars, sweepVars
<1>4. ProgressInv'
  <2> SUFFICES ASSUME NEW h \in Executors, Working(h)', run'[job'[h]].state = "building",
                      held'[h] = run'[job'[h]].gen
               PROVE  /\ task'[h] \in WarnedSteps => run'[job'[h]].warned = run'[job'[h]].gen
                      /\ task'[h] = "commit" => held'[h] \in published'[job'[h]]
    BY DEF ProgressInv
  <2> QED
    BY <1>0
       DEF IInv, TypeOK, Row, Fields, HolderInv, ProgressInv, Working, WarnedSteps,
           RefuseBuild, rowVars, execVars, sweepVars
<1>5. SweepInv'
  BY <1>0
     DEF IInv, TypeOK, Row, Fields, SweepInv, Retained, RetainedStates,
         ActiveStates, RowInv, RefuseBuild, rowVars, execVars, sweepVars
<1>6. OneActivePerScope'
  BY <1>0
     DEF IInv, TypeOK, Row, Fields, OneActivePerScope, ActiveStates, RefuseBuild,
         rowVars, execVars, sweepVars
<1>7. OneHolderPerGeneration'
  BY <1>0
     DEF IInv, TypeOK, Row, Fields, HolderInv, OneHolderPerGeneration, Working,
         RefuseBuild, rowVars, execVars, sweepVars
<1>8. ReadyHasItsArtifact' /\ ReadyHasItsWarnings'
  BY <1>0
     DEF IInv, TypeOK, Row, Fields, ReadyHasItsArtifact, ReadyHasItsWarnings,
         RefuseBuild, rowVars, execVars, sweepVars
<1> QED
  BY <1>1, <1>2, <1>3, <1>4, <1>5, <1>6, <1>7, <1>8 DEF IInv

\* A change of rows that keeps generations, warnings and artifacts, and makes
\* no run building or ready, disturbs no promise about holders and results.
LEMMA QuietRows ==
  ASSUME IInv, UNCHANGED <<published, execVars>>,
         \A q \in Runs :
            /\ run'[q].gen = run[q].gen
            /\ run'[q].warned = run[q].warned
            /\ run'[q].artifact = run[q].artifact
            /\ run'[q].state \in {"building", "ready"} => run'[q].state = run[q].state
  PROVE  /\ HolderInv'
         /\ ProgressInv'
         /\ OneHolderPerGeneration'
         /\ ReadyHasItsArtifact'
         /\ ReadyHasItsWarnings'
<1>1. HolderInv'
  BY DEF IInv, HolderInv, Working, execVars
<1>2. ProgressInv'
  BY DEF IInv, HolderInv, ProgressInv, Working, execVars
<1>3. OneHolderPerGeneration'
  BY DEF IInv, OneHolderPerGeneration, Working, execVars
<1>4. ReadyHasItsArtifact' /\ ReadyHasItsWarnings'
  BY DEF IInv, ReadyHasItsArtifact, ReadyHasItsWarnings
<1> QED
  BY <1>1, <1>2, <1>3, <1>4

LEMMA CrashType == ASSUME TypeOK, Crash PROVE crashes' \in 0..MaxCrashes
  BY ExportAssumption DEF TypeOK, Crash

\* An unstarted run is closed only while it is still pending.
LEMMA UnstartedStep ==
  ASSUME IInv, NEW c \in Clients, CloseUnstarted(c)
  PROVE  IInv'
<1>0. asked[c] \in Runs
  BY DEF IInv, ClientInv, CloseUnstarted
<1>a. \/ run' = run
      \/ /\ run[asked[c]].state = "pending"
         /\ run' = [run EXCEPT ![asked[c]].state = "failed"]
  BY DEF CloseUnstarted
<1>b. run[asked[c]].state = "pending" => [run[asked[c]] EXCEPT !.state = "failed"] \in Row
  BY <1>0 DEF IInv, TypeOK, Row, Fields, Consistent, States
<1>c. run' \in [Runs -> Row]
  BY <1>0, <1>a, <1>b DEF IInv, TypeOK
<1>d. \A q \in Runs :
         /\ run'[q].gen = run[q].gen
         /\ run'[q].warned = run[q].warned
         /\ run'[q].artifact = run[q].artifact
         /\ run'[q].state \in {"building", "ready"} => run'[q].state = run[q].state
  BY <1>0, <1>a DEF IInv, TypeOK, Row, Fields
<1>1. TypeOK'
  BY <1>0, <1>a, <1>b, <1>c, <1>d
     DEF IInv, TypeOK, TaskSteps, CloseUnstarted, execVars, sweepVars
<1>2. RowInv' /\ ClientInv'
  BY <1>0, <1>a, <1>b, <1>c, <1>d
     DEF IInv, TypeOK, Row, Fields, RowInv, ClientInv, CloseUnstarted, execVars,
         sweepVars
<1>3. HolderInv'
  BY <1>d, QuietRows DEF CloseUnstarted
<1>4. ProgressInv'
  BY <1>d, QuietRows DEF CloseUnstarted
<1>5. SweepInv'
  BY <1>0, <1>a, <1>b, <1>c, <1>d
     DEF IInv, TypeOK, Row, Fields, SweepInv, Retained, RetainedStates,
         ActiveStates, RowInv, CloseUnstarted, execVars, sweepVars
<1>6. OneActivePerScope'
  BY <1>0, <1>a, <1>b, <1>c, <1>d
     DEF IInv, TypeOK, Row, Fields, OneActivePerScope, ActiveStates, CloseUnstarted,
         execVars, sweepVars
<1>7. OneHolderPerGeneration'
  BY <1>d, QuietRows DEF CloseUnstarted
<1>8. ReadyHasItsArtifact' /\ ReadyHasItsWarnings'
  BY <1>d, QuietRows DEF CloseUnstarted
<1> QED
  BY <1>1, <1>2, <1>3, <1>4, <1>5, <1>6, <1>7, <1>8 DEF IInv

\* A cancellation closes a pending run and flags a building one.
LEMMA CancelStep ==
  ASSUME IInv, NEW r \in Runs, CancelRun(r)
  PROVE  IInv'
<1>a. \/ /\ run[r].state = "pending"
         /\ run' = [run EXCEPT ![r] = [run[r] EXCEPT !.state = "cancelled", !.cancel = TRUE]]
      \/ /\ run[r].state = "building"
         /\ run' = [run EXCEPT ![r] = [run[r] EXCEPT !.cancel = TRUE]]
  BY DEF IInv, TypeOK, CancelRun
<1>b. /\ run[r].state = "pending"
           => [run[r] EXCEPT !.state = "cancelled", !.cancel = TRUE] \in Row
      /\ run[r].state = "building" => [run[r] EXCEPT !.cancel = TRUE] \in Row
  <2>1. run[r] \in Row
    BY DEF IInv, TypeOK
  <2>2. run[r].state = "pending"
           => [run[r] EXCEPT !.state = "cancelled", !.cancel = TRUE] \in Row
    BY <2>1 DEF Row, Fields, Consistent, States
  <2>3. run[r].state = "building" => [run[r] EXCEPT !.cancel = TRUE] \in Row
    BY <2>1 DEF Row, Fields, Consistent, States
  <2> QED
    BY <2>2, <2>3
<1>c. run' \in [Runs -> Row]
  BY <1>a, <1>b DEF IInv, TypeOK
<1>e. \A q \in Runs : q # r => run'[q] = run[q]
  BY <1>a DEF IInv, TypeOK
<1>f. /\ run'[r].gen = run[r].gen
      /\ run'[r].warned = run[r].warned
      /\ run'[r].artifact = run[r].artifact
      /\ run'[r].state \in {"building", "ready"} => run'[r].state = run[r].state
  <2>1. run[r] \in Fields
    BY DEF IInv, TypeOK, Row
  <2>2. CASE run[r].state = "pending"
    <3>1. run'[r] = [run[r] EXCEPT !.state = "cancelled", !.cancel = TRUE]
      BY <1>a, <2>2 DEF IInv, TypeOK
    <3> QED
      BY <2>1, <3>1 DEF Fields
  <2>3. CASE run[r].state = "building"
    BY <1>a, <2>1, <2>3 DEF IInv, TypeOK, Fields
  <2> QED
    BY <1>a, <2>2, <2>3
<1>d. \A q \in Runs :
         /\ run'[q].gen = run[q].gen
         /\ run'[q].warned = run[q].warned
         /\ run'[q].artifact = run[q].artifact
         /\ run'[q].state \in {"building", "ready"} => run'[q].state = run[q].state
  BY <1>a, <1>e, <1>f DEF IInv, TypeOK, Row, Fields
<1>1. TypeOK'
  BY <1>a, <1>b, <1>c, <1>e, <1>f, <1>d
     DEF IInv, TypeOK, TaskSteps, CancelRun, clientVars, execVars, sweepVars
<1>2. RowInv' /\ ClientInv'
  BY <1>a, <1>b, <1>c, <1>e, <1>f, <1>d
     DEF IInv, TypeOK, Row, Fields, RowInv, ClientInv, CancelRun, clientVars,
         execVars, sweepVars
<1>3. HolderInv'
  BY <1>d, QuietRows DEF CancelRun
<1>4. ProgressInv'
  BY <1>d, QuietRows DEF CancelRun
<1>5. SweepInv'
  BY <1>a, <1>b, <1>c, <1>e, <1>f, <1>d, SMTT(20)
     DEF IInv, TypeOK, Row, Fields, SweepInv, Retained, RetainedStates,
         ActiveStates, RowInv, CancelRun, clientVars, execVars, sweepVars
<1>6. OneActivePerScope'
  BY <1>a, <1>b, <1>c, <1>e, <1>f, <1>d, SMTT(20)
     DEF IInv, TypeOK, Row, Fields, OneActivePerScope, ActiveStates, CancelRun,
         clientVars, execVars, sweepVars
<1>7. OneHolderPerGeneration'
  BY <1>d, QuietRows DEF CancelRun
<1>8. ReadyHasItsArtifact' /\ ReadyHasItsWarnings'
  BY <1>d, QuietRows DEF CancelRun
<1> QED
  BY <1>1, <1>2, <1>3, <1>4, <1>5, <1>6, <1>7, <1>8 DEF IInv

\* A runner and its task end without touching the row.
LEMMA ReleaseStep ==
  ASSUME IInv, NEW e \in Executors, Release(e), UNCHANGED <<rowVars, clientVars, sweepVars>>,
         crashes' \in 0..MaxCrashes
  PROVE  IInv'
<1>1. TypeOK'
  BY DEF IInv, TypeOK, TaskSteps, Release, rowVars, clientVars, sweepVars
<1>2. RowInv' /\ ClientInv'
  BY DEF IInv, TypeOK, Row, Fields, RowInv, ClientInv, Release, rowVars, clientVars,
         sweepVars
<1>3. HolderInv'
  BY DEF IInv, TypeOK, Row, Fields, HolderInv, Working, Release, rowVars,
         clientVars, sweepVars
<1>4. ProgressInv'
  <2> SUFFICES ASSUME NEW h \in Executors, Working(h)', run'[job'[h]].state = "building",
                      held'[h] = run'[job'[h]].gen
               PROVE  /\ task'[h] \in WarnedSteps => run'[job'[h]].warned = run'[job'[h]].gen
                      /\ task'[h] = "commit" => held'[h] \in published'[job'[h]]
    BY DEF ProgressInv
  <2> QED
    BY DEF IInv, TypeOK, Row, Fields, HolderInv, ProgressInv, Working, WarnedSteps,
           Release, rowVars, clientVars, sweepVars
<1>5. SweepInv'
  BY DEF IInv, TypeOK, Row, Fields, SweepInv, Retained, RetainedStates,
         ActiveStates, RowInv, Release, rowVars, clientVars, sweepVars
<1>6. OneActivePerScope'
  BY DEF IInv, TypeOK, Row, Fields, OneActivePerScope, ActiveStates, Release,
         rowVars, clientVars, sweepVars
<1>7. OneHolderPerGeneration'
  BY DEF IInv, TypeOK, Row, Fields, HolderInv, OneHolderPerGeneration, Working,
         Release, rowVars, clientVars, sweepVars
<1>8. ReadyHasItsArtifact' /\ ReadyHasItsWarnings'
  BY DEF IInv, TypeOK, Row, Fields, ReadyHasItsArtifact, ReadyHasItsWarnings,
         Release, rowVars, clientVars, sweepVars
<1> QED
  BY <1>1, <1>2, <1>3, <1>4, <1>5, <1>6, <1>7, <1>8 DEF IInv

\* A runner stops and leaves its task behind for a while.
LEMMA GoneStep ==
  ASSUME IInv, NEW e \in Executors, runner[e] = "live", runner' = [runner EXCEPT ![e] = "gone"],
         UNCHANGED <<job, held, task, rowVars, clientVars, sweepVars>>, crashes' \in 0..MaxCrashes
  PROVE  IInv'
<1>1. TypeOK'
  BY DEF IInv, TypeOK, TaskSteps, rowVars, clientVars, sweepVars
<1>2. RowInv' /\ ClientInv'
  BY DEF IInv, TypeOK, Row, Fields, RowInv, ClientInv, rowVars, clientVars, sweepVars
<1>3. HolderInv'
  BY DEF IInv, TypeOK, Row, Fields, HolderInv, Working, rowVars, clientVars, sweepVars
<1>4. ProgressInv'
  <2> SUFFICES ASSUME NEW h \in Executors, Working(h)', run'[job'[h]].state = "building",
                      held'[h] = run'[job'[h]].gen
               PROVE  /\ task'[h] \in WarnedSteps => run'[job'[h]].warned = run'[job'[h]].gen
                      /\ task'[h] = "commit" => held'[h] \in published'[job'[h]]
    BY DEF ProgressInv
  <2> QED
    BY DEF IInv, TypeOK, Row, Fields, HolderInv, ProgressInv, Working, WarnedSteps,
           rowVars, clientVars, sweepVars
<1>5. SweepInv'
  BY DEF IInv, TypeOK, Row, Fields, SweepInv, Retained, RetainedStates,
         ActiveStates, RowInv, rowVars, clientVars, sweepVars
<1>6. OneActivePerScope'
  BY DEF IInv, TypeOK, Row, Fields, OneActivePerScope, ActiveStates, rowVars,
         clientVars, sweepVars
<1>7. OneHolderPerGeneration'
  BY DEF IInv, TypeOK, Row, Fields, HolderInv, OneHolderPerGeneration, Working,
         rowVars, clientVars, sweepVars
<1>8. ReadyHasItsArtifact' /\ ReadyHasItsWarnings'
  BY DEF IInv, TypeOK, Row, Fields, ReadyHasItsArtifact, ReadyHasItsWarnings,
         rowVars, clientVars, sweepVars
<1> QED
  BY <1>1, <1>2, <1>3, <1>4, <1>5, <1>6, <1>7, <1>8 DEF IInv

\* Time passes for one lease.
LEMMA TickStep ==
  ASSUME IInv, NEW r \in Runs, LeaseTick(r)
  PROVE  IInv'
<1>a. /\ run[r].state = "building"
      /\ run' = [run EXCEPT ![r] = [run[r] EXCEPT !.lease = run[r].lease - 1]]
  BY DEF IInv, TypeOK, LeaseTick
<1>b. [run[r] EXCEPT !.lease = run[r].lease - 1] \in Row
  BY <1>a, ExportAssumption DEF IInv, TypeOK, LeaseTick, Row, Fields, Consistent
<1>c. run' \in [Runs -> Row]
  BY <1>a, <1>b DEF IInv, TypeOK
<1>d. \A q \in Runs :
         /\ run'[q].gen = run[q].gen
         /\ run'[q].warned = run[q].warned
         /\ run'[q].artifact = run[q].artifact
         /\ run'[q].state \in {"building", "ready"} => run'[q].state = run[q].state
  BY <1>a DEF IInv, TypeOK, Row, Fields
<1>1. TypeOK'
  BY <1>a, <1>b, <1>c, <1>d
     DEF IInv, TypeOK, TaskSteps, LeaseTick, clientVars, execVars, sweepVars
<1>2. RowInv' /\ ClientInv'
  BY <1>a, <1>b, <1>c, <1>d
     DEF IInv, TypeOK, Row, Fields, RowInv, ClientInv, LeaseTick, clientVars,
         execVars, sweepVars
<1>3. HolderInv'
  BY <1>d, QuietRows DEF LeaseTick
<1>4. ProgressInv'
  BY <1>d, QuietRows DEF LeaseTick
<1>5. SweepInv'
  BY <1>a, <1>b, <1>c, <1>d
     DEF IInv, TypeOK, Row, Fields, SweepInv, Retained, RetainedStates,
         ActiveStates, RowInv, LeaseTick, clientVars, execVars, sweepVars
<1>6. OneActivePerScope'
  BY <1>a, <1>b, <1>c, <1>d
     DEF IInv, TypeOK, Row, Fields, OneActivePerScope, ActiveStates, LeaseTick,
         clientVars, execVars, sweepVars
<1>7. OneHolderPerGeneration'
  BY <1>d, QuietRows DEF LeaseTick
<1>8. ReadyHasItsArtifact' /\ ReadyHasItsWarnings'
  BY <1>d, QuietRows DEF LeaseTick
<1> QED
  BY <1>1, <1>2, <1>3, <1>4, <1>5, <1>6, <1>7, <1>8 DEF IInv

\* The maintenance pass closes the expired builds.
LEMMA ReconcileStep ==
  ASSUME IInv, ReconcileExpired
  PROVE  IInv'
<1>0. \A r \in Runs : ExpiredBuild(r) => Closed(run[r], "interrupted") \in Row
  BY ClosedType DEF IInv, TypeOK, ExpiredBuild
<1>a. \A r \in Runs :
         /\ run'[r] \in Row
         /\ \/ run'[r] = run[r]
            \/ run[r].state = "building" /\ run'[r] = Closed(run[r], "interrupted")
  <2> SUFFICES ASSUME NEW r \in Runs
               PROVE  /\ run'[r] \in Row
                      /\ \/ run'[r] = run[r]
                         \/ /\ run[r].state = "building"
                            /\ run'[r] = Closed(run[r], "interrupted")
    OBVIOUS
  <2>1. run'[r] = IF ExpiredBuild(r) THEN Closed(run[r], "interrupted") ELSE run[r]
    BY DEF ReconcileExpired
  <2>2. CASE ExpiredBuild(r)
    BY <1>0, <2>1, <2>2 DEF ExpiredBuild
  <2>3. CASE ~ExpiredBuild(r)
    <3>1. run'[r] = run[r]
      BY <2>1, <2>3
    <3>2. run[r] \in Row
      BY DEF IInv, TypeOK
    <3> QED
      BY <3>1, <3>2
  <2> QED
    BY <2>2, <2>3
<1>b. run' \in [Runs -> Row]
  BY <1>a DEF ReconcileExpired
<1>d. \A q \in Runs :
         /\ run'[q].gen = run[q].gen
         /\ run'[q].warned = run[q].warned
         /\ run'[q].artifact = run[q].artifact
         /\ run'[q].state \in {"building", "ready"} => run'[q].state = run[q].state
  BY <1>a, ClosedFacts DEF IInv, TypeOK, Row, Fields
<1>1. TypeOK'
  BY <1>0, <1>a, <1>b, <1>d
     DEF IInv, TypeOK, TaskSteps, ReconcileExpired, clientVars, execVars, sweepVars
<1>2. RowInv' /\ ClientInv'
  <2>1. \A r \in Runs :
           run'[r].state \in {"absent", "pending", "building", "ready"} => run'[r] = run[r]
    BY <1>a, ClosedFacts DEF IInv, TypeOK
  <2> QED
    BY <2>1 DEF IInv, RowInv, ClientInv, ReconcileExpired, clientVars
<1>3. HolderInv'
  BY <1>d, QuietRows DEF ReconcileExpired
<1>4. ProgressInv'
  BY <1>d, QuietRows DEF ReconcileExpired
<1>5. SweepInv'
  BY <1>0, <1>a, <1>b, <1>d
     DEF IInv, TypeOK, Row, Fields, SweepInv, Retained, RetainedStates,
         ActiveStates, RowInv, ReconcileExpired, clientVars, execVars, sweepVars
<1>6. OneActivePerScope'
  BY <1>0, <1>a, <1>b, <1>d
     DEF IInv, TypeOK, Row, Fields, OneActivePerScope, ActiveStates,
         ReconcileExpired, clientVars, execVars, sweepVars
<1>7. OneHolderPerGeneration'
  BY <1>d, QuietRows DEF ReconcileExpired
<1>8. ReadyHasItsArtifact' /\ ReadyHasItsWarnings'
  BY <1>d, QuietRows DEF ReconcileExpired
<1> QED
  BY <1>1, <1>2, <1>3, <1>4, <1>5, <1>6, <1>7, <1>8 DEF IInv

\* The sweep keeps every run that is retained when it reads.
LEMMA SweepReadStep ==
  ASSUME IInv, SweepReads
  PROVE  IInv'
<1>a. Retained \in SUBSET Runs
  BY DEF Retained
<1>1. TypeOK'
  BY <1>a DEF IInv, TypeOK, TaskSteps, SweepReads, rowVars, clientVars, execVars
<1>2. RowInv' /\ ClientInv'
  BY <1>a
     DEF IInv, TypeOK, Row, Fields, RowInv, ClientInv, SweepReads, rowVars,
         clientVars, execVars
<1>3. HolderInv'
  BY <1>a
     DEF IInv, TypeOK, Row, Fields, HolderInv, Working, SweepReads, rowVars,
         clientVars, execVars
<1>4. ProgressInv'
  <2> SUFFICES ASSUME NEW h \in Executors, Working(h)', run'[job'[h]].state = "building",
                      held'[h] = run'[job'[h]].gen
               PROVE  /\ task'[h] \in WarnedSteps => run'[job'[h]].warned = run'[job'[h]].gen
                      /\ task'[h] = "commit" => held'[h] \in published'[job'[h]]
    BY DEF ProgressInv
  <2> QED
    BY <1>a
       DEF IInv, TypeOK, Row, Fields, HolderInv, ProgressInv, Working, WarnedSteps,
           SweepReads, rowVars, clientVars, execVars
<1>5. SweepInv'
  BY <1>a
     DEF IInv, TypeOK, Row, Fields, SweepInv, Retained, RetainedStates,
         ActiveStates, RowInv, SweepReads, rowVars, clientVars, execVars
<1>6. OneActivePerScope'
  BY <1>a
     DEF IInv, TypeOK, Row, Fields, OneActivePerScope, ActiveStates, SweepReads,
         rowVars, clientVars, execVars
<1>7. OneHolderPerGeneration'
  BY <1>a
     DEF IInv, TypeOK, Row, Fields, HolderInv, OneHolderPerGeneration, Working,
         SweepReads, rowVars, clientVars, execVars
<1>8. ReadyHasItsArtifact' /\ ReadyHasItsWarnings'
  BY <1>a
     DEF IInv, TypeOK, Row, Fields, ReadyHasItsArtifact, ReadyHasItsWarnings,
         SweepReads, rowVars, clientVars, execVars
<1> QED
  BY <1>1, <1>2, <1>3, <1>4, <1>5, <1>6, <1>7, <1>8 DEF IInv

\* No removed directory belongs to a retained run that has files.
LEMMA SweepRemoveStep ==
  ASSUME IInv, SweepRemoves
  PROVE  IInv'
<1>a. /\ sweeping /\ ~sweeping' /\ kept' = {} /\ published' \in [Runs -> SUBSET Nat]
      /\ \A r \in Runs : published'[r] = published[r] \/ (r \notin kept /\ published'[r] = {})
  BY DEF IInv, TypeOK, SweepRemoves
<1>b. \A r \in Runs : run[r].state \in RetainedStates => published'[r] = published[r]
  BY <1>a DEF IInv, SweepInv, Retained
<1>c. run' = run /\ UNCHANGED <<clientVars, execVars>>
  BY DEF SweepRemoves
<1>1. TypeOK'
  BY <1>a, <1>b, <1>c
     DEF IInv, TypeOK, TaskSteps, SweepRemoves, RetainedStates, clientVars, execVars
<1>2. RowInv' /\ ClientInv'
  BY <1>a, <1>b, <1>c
     DEF IInv, TypeOK, Row, Fields, RowInv, ClientInv, SweepRemoves, RetainedStates,
         clientVars, execVars
<1>3. HolderInv'
  BY <1>a, <1>b, <1>c
     DEF IInv, TypeOK, Row, Fields, HolderInv, Working, SweepRemoves,
         RetainedStates, clientVars, execVars
<1>4. ProgressInv'
  <2>0. SUFFICES ASSUME NEW h \in Executors, Working(h)', run'[job'[h]].state = "building",
                      held'[h] = run'[job'[h]].gen
               PROVE  /\ task'[h] \in WarnedSteps => run'[job'[h]].warned = run'[job'[h]].gen
                      /\ task'[h] = "commit" => held'[h] \in published'[job'[h]]
    BY DEF ProgressInv
  <2>1. /\ Working(h) /\ job[h] \in Runs
        /\ run' = run /\ job' = job /\ held' = held /\ task' = task
    BY <1>c, <2>0 DEF IInv, HolderInv, Working, execVars
  <2>2. published'[job[h]] = published[job[h]]
    BY <1>b, <2>0, <2>1 DEF RetainedStates
  <2> QED
    BY <2>0, <2>1, <2>2 DEF IInv, ProgressInv
<1>5. SweepInv'
  BY <1>a, <1>b, <1>c
     DEF IInv, TypeOK, Row, Fields, SweepInv, Retained, RetainedStates,
         ActiveStates, RowInv, SweepRemoves, RetainedStates, clientVars, execVars
<1>6. OneActivePerScope'
  BY <1>a, <1>b, <1>c
     DEF IInv, TypeOK, Row, Fields, OneActivePerScope, ActiveStates, SweepRemoves,
         RetainedStates, clientVars, execVars
<1>7. OneHolderPerGeneration'
  BY <1>a, <1>b, <1>c
     DEF IInv, TypeOK, Row, Fields, HolderInv, OneHolderPerGeneration, Working,
         SweepRemoves, RetainedStates, clientVars, execVars
<1>8. ReadyHasItsArtifact' /\ ReadyHasItsWarnings'
  BY <1>a, <1>b, <1>c
     DEF IInv, TypeOK, Row, Fields, ReadyHasItsArtifact, ReadyHasItsWarnings,
         SweepRemoves, RetainedStates, clientVars, execVars
<1> QED
  BY <1>1, <1>2, <1>3, <1>4, <1>5, <1>6, <1>7, <1>8 DEF IInv

\* A restart forgets every process and keeps every row and file.
LEMMA RestartStep ==
  ASSUME IInv, NodeRestarts
  PROVE  IInv'
<1>a. crashes' \in 0..MaxCrashes
  BY CrashType DEF IInv, NodeRestarts
<1>1. TypeOK'
  BY <1>a DEF IInv, TypeOK, TaskSteps, NodeRestarts, Crash, rowVars
<1>2. RowInv' /\ ClientInv'
  BY <1>a
     DEF IInv, TypeOK, Row, Fields, RowInv, ClientInv, NodeRestarts, Crash, rowVars
<1>3. HolderInv'
  BY <1>a
     DEF IInv, TypeOK, Row, Fields, HolderInv, Working, NodeRestarts, Crash, rowVars
<1>4. ProgressInv'
  <2> SUFFICES ASSUME NEW h \in Executors, Working(h)', run'[job'[h]].state = "building",
                      held'[h] = run'[job'[h]].gen
               PROVE  /\ task'[h] \in WarnedSteps => run'[job'[h]].warned = run'[job'[h]].gen
                      /\ task'[h] = "commit" => held'[h] \in published'[job'[h]]
    BY DEF ProgressInv
  <2> QED
    BY <1>a
       DEF IInv, TypeOK, Row, Fields, HolderInv, ProgressInv, Working, WarnedSteps,
           NodeRestarts, Crash, rowVars
<1>5. SweepInv'
  BY <1>a
     DEF IInv, TypeOK, Row, Fields, SweepInv, Retained, RetainedStates,
         ActiveStates, RowInv, NodeRestarts, Crash, rowVars
<1>6. OneActivePerScope'
  BY <1>a
     DEF IInv, TypeOK, Row, Fields, OneActivePerScope, ActiveStates, NodeRestarts,
         Crash, rowVars
<1>7. OneHolderPerGeneration'
  BY <1>a
     DEF IInv, TypeOK, Row, Fields, HolderInv, OneHolderPerGeneration, Working,
         NodeRestarts, Crash, rowVars
<1>8. ReadyHasItsArtifact' /\ ReadyHasItsWarnings'
  BY <1>a
     DEF IInv, TypeOK, Row, Fields, ReadyHasItsArtifact, ReadyHasItsWarnings,
         NodeRestarts, Crash, rowVars
<1> QED
  BY <1>1, <1>2, <1>3, <1>4, <1>5, <1>6, <1>7, <1>8 DEF IInv

\* A client that dies forgets the run it was about to start.
LEMMA ClientDiesStep ==
  ASSUME IInv, NEW c \in Clients, ClientDies(c)
  PROVE  IInv'
<1>a. crashes' \in 0..MaxCrashes
  BY CrashType DEF IInv, ClientDies
<1>1. TypeOK'
  BY <1>a DEF IInv, TypeOK, TaskSteps, ClientDies, Crash, rowVars, execVars, sweepVars
<1>2. RowInv' /\ ClientInv'
  BY <1>a
     DEF IInv, TypeOK, Row, Fields, RowInv, ClientInv, ClientDies, Crash, rowVars,
         execVars, sweepVars
<1>3. HolderInv'
  BY <1>a
     DEF IInv, TypeOK, Row, Fields, HolderInv, Working, ClientDies, Crash, rowVars,
         execVars, sweepVars
<1>4. ProgressInv'
  <2> SUFFICES ASSUME NEW h \in Executors, Working(h)', run'[job'[h]].state = "building",
                      held'[h] = run'[job'[h]].gen
               PROVE  /\ task'[h] \in WarnedSteps => run'[job'[h]].warned = run'[job'[h]].gen
                      /\ task'[h] = "commit" => held'[h] \in published'[job'[h]]
    BY DEF ProgressInv
  <2> QED
    BY <1>a
       DEF IInv, TypeOK, Row, Fields, HolderInv, ProgressInv, Working, WarnedSteps,
           ClientDies, Crash, rowVars, execVars, sweepVars
<1>5. SweepInv'
  BY <1>a
     DEF IInv, TypeOK, Row, Fields, SweepInv, Retained, RetainedStates,
         ActiveStates, RowInv, ClientDies, Crash, rowVars, execVars, sweepVars
<1>6. OneActivePerScope'
  BY <1>a
     DEF IInv, TypeOK, Row, Fields, OneActivePerScope, ActiveStates, ClientDies,
         Crash, rowVars, execVars, sweepVars
<1>7. OneHolderPerGeneration'
  BY <1>a
     DEF IInv, TypeOK, Row, Fields, HolderInv, OneHolderPerGeneration, Working,
         ClientDies, Crash, rowVars, execVars, sweepVars
<1>8. ReadyHasItsArtifact' /\ ReadyHasItsWarnings'
  BY <1>a
     DEF IInv, TypeOK, Row, Fields, ReadyHasItsArtifact, ReadyHasItsWarnings,
         ClientDies, Crash, rowVars, execVars, sweepVars
<1> QED
  BY <1>1, <1>2, <1>3, <1>4, <1>5, <1>6, <1>7, <1>8 DEF IInv

\* A heartbeat moves the end of the lease and nothing else.
LEMMA HeartbeatStep ==
  ASSUME IInv, NEW e \in Executors, HeartbeatRenews(e)
  PROVE  IInv'
<1>0. job[e] \in Runs /\ run[job[e]].state = "building"
  BY DEF IInv, HolderInv, HeartbeatRenews, Fenced, Owns
<1>a. run' = [run EXCEPT ![job[e]] = Renewed(run[job[e]])] /\ Renewed(run[job[e]]) \in Row
  BY <1>0, RenewedType DEF IInv, TypeOK, HeartbeatRenews
<1>c. run' \in [Runs -> Row]
  BY <1>a DEF IInv, TypeOK
<1>d. \A q \in Runs :
         /\ run'[q].gen = run[q].gen
         /\ run'[q].warned = run[q].warned
         /\ run'[q].artifact = run[q].artifact
         /\ run'[q].state \in {"building", "ready"} => run'[q].state = run[q].state
  BY <1>0, <1>a DEF IInv, TypeOK, Row, Fields, Renewed
<1>1. TypeOK'
  BY <1>0, <1>a, <1>c, <1>d
     DEF IInv, TypeOK, TaskSteps, HeartbeatRenews, clientVars, execVars, sweepVars
<1>2. RowInv' /\ ClientInv'
  BY <1>0, <1>a, <1>c, <1>d
     DEF IInv, TypeOK, Row, Fields, RowInv, ClientInv, HeartbeatRenews, Renewed,
         clientVars, execVars, sweepVars
<1>3. HolderInv'
  BY <1>d, QuietRows DEF HeartbeatRenews
<1>4. ProgressInv'
  BY <1>d, QuietRows DEF HeartbeatRenews
<1>5. SweepInv'
  BY <1>0, <1>a, <1>c, <1>d
     DEF IInv, TypeOK, Row, Fields, SweepInv, Retained, RetainedStates,
         ActiveStates, RowInv, HeartbeatRenews, Renewed, clientVars, execVars,
         sweepVars
<1>6. OneActivePerScope'
  BY <1>0, <1>a, <1>c, <1>d
     DEF IInv, TypeOK, Row, Fields, OneActivePerScope, ActiveStates,
         HeartbeatRenews, Renewed, clientVars, execVars, sweepVars
<1>7. OneHolderPerGeneration'
  BY <1>d, QuietRows DEF HeartbeatRenews
<1>8. ReadyHasItsArtifact' /\ ReadyHasItsWarnings'
  BY <1>d, QuietRows DEF HeartbeatRenews
<1> QED
  BY <1>1, <1>2, <1>3, <1>4, <1>5, <1>6, <1>7, <1>8 DEF IInv

-----------------------------------------------------------------------------
(* Steps of the task.                                                      *)

\* A task goes to a step without touching its row.
LEMMA MoveStep ==
  ASSUME IInv, NEW e \in Executors, Working(e), NEW to \in TaskSteps, Goto(e, to),
         to \in WarnedSteps => task[e] \in WarnedSteps,
         to = "commit" => held[e] \in published[job[e]],
         UNCHANGED <<rowVars, runner, job, held, clientVars, sweepVars>>,
         crashes' \in 0..MaxCrashes
  PROVE  IInv'
<1>1. TypeOK'
  BY DEF IInv, TypeOK, TaskSteps, Goto, rowVars, clientVars, sweepVars
<1>2. RowInv' /\ ClientInv'
  BY DEF IInv, TypeOK, Row, Fields, RowInv, ClientInv, Goto, rowVars, clientVars,
         sweepVars
<1>3. HolderInv'
  BY DEF IInv, TypeOK, Row, Fields, HolderInv, Working, Goto, rowVars, clientVars,
         sweepVars
<1>4. ProgressInv'
  <2> SUFFICES ASSUME NEW h \in Executors, Working(h)', run'[job'[h]].state = "building",
                      held'[h] = run'[job'[h]].gen
               PROVE  /\ task'[h] \in WarnedSteps => run'[job'[h]].warned = run'[job'[h]].gen
                      /\ task'[h] = "commit" => held'[h] \in published'[job'[h]]
    BY DEF ProgressInv
  <2> QED
    BY DEF IInv, TypeOK, Row, Fields, HolderInv, ProgressInv, Working, WarnedSteps,
           Goto, rowVars, clientVars, sweepVars
<1>5. SweepInv'
  BY DEF IInv, TypeOK, Row, Fields, SweepInv, Retained, RetainedStates,
         ActiveStates, RowInv, Goto, rowVars, clientVars, sweepVars
<1>6. OneActivePerScope'
  BY DEF IInv, TypeOK, Row, Fields, OneActivePerScope, ActiveStates, Goto, rowVars,
         clientVars, sweepVars
<1>7. OneHolderPerGeneration'
  BY DEF IInv, TypeOK, Row, Fields, HolderInv, OneHolderPerGeneration, Working,
         Goto, rowVars, clientVars, sweepVars
<1>8. ReadyHasItsArtifact' /\ ReadyHasItsWarnings'
  BY DEF IInv, TypeOK, Row, Fields, ReadyHasItsArtifact, ReadyHasItsWarnings, Goto,
         rowVars, clientVars, sweepVars
<1> QED
  BY <1>1, <1>2, <1>3, <1>4, <1>5, <1>6, <1>7, <1>8 DEF IInv

\* The owner writes to its run and goes on building.
LEMMA OwnerStep ==
  ASSUME IInv, NEW e \in Executors, Working(e), Owns(e, job[e]),
         NEW to \in TaskSteps \ {"commit"}, Goto(e, to), UNCHANGED published, TaskUnchanged,
         NEW rec \in Row, run' = [run EXCEPT ![job[e]] = rec],
         rec.state = "building", rec.gen = run[job[e]].gen, rec.token = rec.gen,
         to \in WarnedSteps => rec.warned = rec.gen
  PROVE  IInv'
<1>0. /\ job[e] \in Runs /\ run[job[e]].state = "building"
      /\ held[e] = run[job[e]].gen /\ held[e] \in Nat \ {0}
  <2>1. run[job[e]].state = "building" /\ run[job[e]].gen = held[e]
    BY DEF Owns
  <2>2. job[e] \in Runs /\ held[e] \in 1..run[job[e]].gen
    BY DEF IInv, HolderInv, Working
  <2>3. held[e] \in Nat
    BY DEF IInv, TypeOK
  <2> QED
    BY <2>1, <2>2, <2>3
<1>a. run' \in [Runs -> Row]
  BY DEF IInv, TypeOK
<1>r. \A q \in Runs : run'[q].gen = run[q].gen
  BY <1>0 DEF IInv, TypeOK
<1>1. TypeOK'
  BY <1>0, <1>a, <1>r
     DEF IInv, TypeOK, TaskSteps, Goto, TaskUnchanged, clientVars, sweepVars
<1>2. RowInv' /\ ClientInv'
  <2>1. \A q \in Runs : q # job[e] => run'[q] = run[q]
    BY DEF IInv, TypeOK
  <2>2. run'[job[e]] = rec
    BY <1>0 DEF IInv, TypeOK
  <2>3. RowInv'
    BY <1>0, <2>1, <2>2 DEF IInv, RowInv
  <2> QED
    BY <2>3 DEF IInv, ClientInv, TaskUnchanged, clientVars
<1>3. HolderInv'
  BY <1>0, <1>r DEF IInv, TypeOK, HolderInv, Working, TaskUnchanged
<1>4. ProgressInv'
  <2>0. SUFFICES ASSUME NEW h \in Executors, Working(h)', run'[job'[h]].state = "building",
                      held'[h] = run'[job'[h]].gen
               PROVE  /\ task'[h] \in WarnedSteps => run'[job'[h]].warned = run'[job'[h]].gen
                      /\ task'[h] = "commit" => held'[h] \in published'[job'[h]]
    BY DEF ProgressInv
  <2>1. CASE h = e
    <3>1. run'[job'[h]] = rec /\ task'[h] = to
      BY <2>1, <1>0 DEF IInv, TypeOK, Goto, TaskUnchanged
    <3> QED
      BY <3>1
  <2>2. CASE h # e
    <3>1. /\ Working(h) /\ job[h] \in Runs
          /\ job'[h] = job[h] /\ held'[h] = held[h] /\ task'[h] = task[h]
      BY <2>0, <2>2 DEF IInv, TypeOK, HolderInv, Working, Goto, TaskUnchanged
    <3>2. job[h] # job[e]
      <4>1. SUFFICES ASSUME job[h] = job[e] PROVE FALSE
        OBVIOUS
      <4>2. held[h] = held[e]
        BY <2>0, <3>1, <4>1, <1>r, <1>0
      <4> QED
        BY <2>2, <3>1, <4>1, <4>2 DEF IInv, OneHolderPerGeneration
    <3>3. run'[job[h]] = run[job[h]]
      BY <3>1, <3>2, <1>0 DEF IInv, TypeOK
    <3> QED
      BY <2>0, <3>1, <3>3 DEF IInv, ProgressInv
  <2> QED
    BY <2>1, <2>2
<1>5. SweepInv'
  <2>1. sweeping' = sweeping /\ kept' = kept /\ published' = published
    BY DEF TaskUnchanged, sweepVars
  <2>2. \A q \in Runs : q # job[e] => run'[q] = run[q]
    BY DEF IInv, TypeOK
  <2>3. job[e] \in Retained
    BY <1>0 DEF Retained, RetainedStates
  <2> QED
    BY <2>1, <2>2, <2>3 DEF IInv, SweepInv, Retained
<1>6. OneActivePerScope'
  BY <1>0, <1>a, <1>r
     DEF IInv, TypeOK, Row, Fields, OneActivePerScope, ActiveStates, Goto,
         TaskUnchanged, clientVars, sweepVars
<1>7. OneHolderPerGeneration'
  BY <1>0 DEF IInv, TypeOK, OneHolderPerGeneration, Working, TaskUnchanged
<1>8. ReadyHasItsArtifact' /\ ReadyHasItsWarnings'
  BY <1>0, <1>a, <1>r
     DEF IInv, TypeOK, Row, Fields, ReadyHasItsArtifact, ReadyHasItsWarnings, Goto,
         TaskUnchanged, clientVars, sweepVars
<1> QED
  BY <1>1, <1>2, <1>3, <1>4, <1>5, <1>6, <1>7, <1>8 DEF IInv

\* The owner commits the artifact it has published.
LEMMA CommitStep ==
  ASSUME IInv, NEW e \in Executors, Working(e), Owns(e, job[e]),
         ~run[job[e]].cancel, task[e] = "commit",
         Goto(e, "done"), UNCHANGED published, TaskUnchanged,
         run' = [run EXCEPT ![job[e]] = Readied(run[job[e]], held[e])]
  PROVE  IInv'
<1>0. /\ job[e] \in Runs /\ run[job[e]].state = "building"
      /\ held[e] = run[job[e]].gen /\ held[e] \in Nat \ {0}
  <2>1. run[job[e]].state = "building" /\ run[job[e]].gen = held[e]
    BY DEF Owns
  <2>2. job[e] \in Runs /\ held[e] \in 1..run[job[e]].gen
    BY DEF IInv, HolderInv, Working
  <2>3. held[e] \in Nat
    BY DEF IInv, TypeOK
  <2> QED
    BY <2>1, <2>2, <2>3
<1>b. Readied(run[job[e]], held[e]) \in Row
  BY <1>0, ReadiedType DEF IInv, TypeOK
<1>a. run' \in [Runs -> Row]
  BY <1>b DEF IInv, TypeOK
<1>f. /\ Readied(run[job[e]], held[e]).state = "ready"
      /\ Readied(run[job[e]], held[e]).gen = run[job[e]].gen
      /\ Readied(run[job[e]], held[e]).warned = run[job[e]].warned
      /\ Readied(run[job[e]], held[e]).artifact = held[e]
      /\ Readied(run[job[e]], held[e]).cancel = run[job[e]].cancel
  BY <1>0 DEF IInv, TypeOK, Row, Fields, Readied
<1>r. \A q \in Runs : run'[q].gen = run[q].gen
  BY <1>0, <1>f DEF IInv, TypeOK
<1>g. run[job[e]].warned = run[job[e]].gen /\ held[e] \in published[job[e]]
  BY <1>0 DEF IInv, ProgressInv, WarnedSteps
<1>1. TypeOK'
  BY <1>0, <1>b, <1>a, <1>f, <1>r, <1>g
     DEF IInv, TypeOK, TaskSteps, Goto, TaskUnchanged, clientVars, sweepVars
<1>2. RowInv' /\ ClientInv'
  <2>1. \A q \in Runs : q # job[e] => run'[q] = run[q]
    BY DEF IInv, TypeOK
  <2>2. run'[job[e]] = Readied(run[job[e]], held[e])
    BY <1>0 DEF IInv, TypeOK
  <2>3. RowInv'
    BY <1>0, <1>f, <2>1, <2>2 DEF IInv, RowInv
  <2> QED
    BY <2>3 DEF IInv, ClientInv, TaskUnchanged, clientVars
<1>3. HolderInv'
  BY <1>0, <1>r DEF IInv, TypeOK, HolderInv, Working, TaskUnchanged
<1>4. ProgressInv'
  <2>0. SUFFICES ASSUME NEW h \in Executors, Working(h)', run'[job'[h]].state = "building",
                      held'[h] = run'[job'[h]].gen
               PROVE  /\ task'[h] \in WarnedSteps => run'[job'[h]].warned = run'[job'[h]].gen
                      /\ task'[h] = "commit" => held'[h] \in published'[job'[h]]
    BY DEF ProgressInv
  <2>1. CASE h = e
    <3>1. task'[h] = "done"
      BY <2>1 DEF IInv, TypeOK, Goto
    <3> QED
      BY <3>1 DEF WarnedSteps
  <2>2. CASE h # e
    <3>1. /\ Working(h) /\ job[h] \in Runs
          /\ job'[h] = job[h] /\ held'[h] = held[h] /\ task'[h] = task[h]
      BY <2>0, <2>2 DEF IInv, TypeOK, HolderInv, Working, Goto, TaskUnchanged
    <3>2. job[h] # job[e]
      <4>1. SUFFICES ASSUME job[h] = job[e] PROVE FALSE
        OBVIOUS
      <4>2. held[h] = held[e]
        BY <2>0, <3>1, <4>1, <1>r, <1>0
      <4> QED
        BY <2>2, <3>1, <4>1, <4>2 DEF IInv, OneHolderPerGeneration
    <3>3. run'[job[h]] = run[job[h]]
      BY <3>1, <3>2, <1>0 DEF IInv, TypeOK
    <3> QED
      BY <2>0, <3>1, <3>3 DEF IInv, ProgressInv
  <2> QED
    BY <2>1, <2>2
<1>5. SweepInv'
  <2>1. sweeping' = sweeping /\ kept' = kept /\ published' = published
    BY DEF TaskUnchanged, sweepVars
  <2>2. \A q \in Runs : q # job[e] => run'[q] = run[q]
    BY DEF IInv, TypeOK
  <2>3. job[e] \in Retained
    BY <1>0 DEF Retained, RetainedStates
  <2> QED
    BY <2>1, <2>2, <2>3 DEF IInv, SweepInv, Retained
<1>6. OneActivePerScope'
  BY <1>0, <1>b, <1>a, <1>f, <1>r, <1>g
     DEF IInv, TypeOK, Row, Fields, OneActivePerScope, ActiveStates, Readied, Goto,
         TaskUnchanged, clientVars, sweepVars
<1>7. OneHolderPerGeneration'
  BY <1>0 DEF IInv, TypeOK, OneHolderPerGeneration, Working, TaskUnchanged
<1>8. ReadyHasItsArtifact' /\ ReadyHasItsWarnings'
  <2>1. \A q \in Runs : q # job[e] => run'[q] = run[q]
    BY DEF IInv, TypeOK
  <2>2. run'[job[e]] = Readied(run[job[e]], held[e])
    BY <1>0 DEF IInv, TypeOK
  <2>3. ReadyHasItsArtifact'
    BY <1>0, <1>f, <1>g, <2>1, <2>2 DEF IInv, ReadyHasItsArtifact
  <2>4. ReadyHasItsWarnings'
    BY <1>0, <1>f, <1>g, <2>1, <2>2 DEF IInv, ReadyHasItsWarnings
  <2> QED
    BY <2>3, <2>4
<1> QED
  BY <1>1, <1>2, <1>3, <1>4, <1>5, <1>6, <1>7, <1>8 DEF IInv

\* The owner closes its run, and its runner and task end or go on.
LEMMA CloseStep ==
  ASSUME IInv, NEW e \in Executors, Working(e), Owns(e, job[e]),
         run' = [run EXCEPT ![job[e]] = Closed(run[job[e]], "failed")],
         UNCHANGED <<published, clientVars, sweepVars, crashes>>,
         runner' \in [Executors -> {"idle", "init", "live", "gone"}],
         job' \in [Executors -> Runs \cup {NoRun}], held' \in [Executors -> Nat],
         task' \in [Executors -> TaskSteps],
         \A h \in Executors :
            \/ runner'[h] = "idle"
            \/ /\ UNCHANGED <<runner[h], job[h], held[h]>>
               /\ task'[h] \in {task[h], "done"}
  PROVE  IInv'
<1>0. /\ job[e] \in Runs /\ run[job[e]].state = "building"
      /\ held[e] = run[job[e]].gen /\ held[e] \in Nat \ {0}
  <2>1. run[job[e]].state = "building" /\ run[job[e]].gen = held[e]
    BY DEF Owns
  <2>2. job[e] \in Runs /\ held[e] \in 1..run[job[e]].gen
    BY DEF IInv, HolderInv, Working
  <2>3. held[e] \in Nat
    BY DEF IInv, TypeOK
  <2> QED
    BY <2>1, <2>2, <2>3
<1>b. Closed(run[job[e]], "failed") \in Row
  BY <1>0, ClosedType DEF IInv, TypeOK
<1>a. run' \in [Runs -> Row]
  BY <1>b DEF IInv, TypeOK
<1>f. Closed(run[job[e]], "failed").state \in {"failed", "cancelled"}
      /\ Closed(run[job[e]], "failed").gen = run[job[e]].gen
  BY <1>0, ClosedFacts DEF IInv, TypeOK
<1>c. /\ \A q \in Runs : q # job[e] => run'[q] = run[q]
      /\ run'[job[e]] = Closed(run[job[e]], "failed")
  BY <1>0 DEF IInv, TypeOK
<1>r. \A q \in Runs : run'[q].gen = run[q].gen
  BY <1>c, <1>f
<1>n. \A h \in Executors : Working(h)' =>
         /\ Working(h)
         /\ UNCHANGED <<runner[h], job[h], held[h]>>
         /\ task'[h] \in {task[h], "done"}
  BY DEF Working
<1>1. TypeOK'
  BY <1>a DEF IInv, TypeOK, clientVars, sweepVars
<1>2. RowInv' /\ ClientInv'
  <2>1. RowInv'
    BY <1>0, <1>c, <1>f DEF IInv, RowInv
  <2> QED
    BY <2>1 DEF IInv, ClientInv, clientVars
<1>3. HolderInv'
  BY <1>n, <1>r DEF IInv, HolderInv, Working
<1>4. ProgressInv'
  <2>0. SUFFICES ASSUME NEW h \in Executors, Working(h)', run'[job'[h]].state = "building",
                      held'[h] = run'[job'[h]].gen
               PROVE  /\ task'[h] \in WarnedSteps => run'[job'[h]].warned = run'[job'[h]].gen
                      /\ task'[h] = "commit" => held'[h] \in published'[job'[h]]
    BY DEF ProgressInv
  <2>1. /\ Working(h) /\ job'[h] = job[h] /\ held'[h] = held[h] /\ job[h] \in Runs
        /\ task'[h] \in {task[h], "done"}
    BY <1>n, <2>0 DEF IInv, HolderInv, Working
  <2>2. job[h] # job[e]
    BY <1>c, <1>f, <2>0, <2>1
  <2>3. run'[job[h]] = run[job[h]] /\ published' = published
    BY <1>c, <2>1, <2>2
  <2>4. CASE task'[h] = "done"
    BY <2>4 DEF WarnedSteps
  <2>5. CASE task'[h] = task[h]
    BY <2>0, <2>1, <2>3, <2>5 DEF IInv, ProgressInv
  <2> QED
    BY <2>1, <2>4, <2>5
<1>5. SweepInv'
  <2>1. sweeping' = sweeping /\ kept' = kept /\ published' = published
    BY DEF sweepVars
  <2> QED
    BY <2>1, <1>c, <1>f DEF IInv, SweepInv, Retained, RetainedStates
<1>6. OneActivePerScope'
  BY <1>c, <1>f DEF IInv, OneActivePerScope, ActiveStates
<1>7. OneHolderPerGeneration'
  BY <1>n DEF IInv, OneHolderPerGeneration
<1>8. ReadyHasItsArtifact' /\ ReadyHasItsWarnings'
  BY <1>c, <1>f DEF IInv, ReadyHasItsArtifact, ReadyHasItsWarnings
<1> QED
  BY <1>1, <1>2, <1>3, <1>4, <1>5, <1>6, <1>7, <1>8 DEF IInv

\* A task publishes files, which no row but its own can refer to.
LEMMA PublishStep ==
  ASSUME IInv, NEW e \in Executors, Working(e), task[e] = "publish", ~sweeping,
         published' = [published EXCEPT ![job[e]] = @ \cup {held[e]}],
         Goto(e, "verify"), UNCHANGED run, TaskUnchanged
  PROVE  IInv'
<1>0. job[e] \in Runs /\ held[e] \in Nat /\ held[e] \in 1..run[job[e]].gen
  BY DEF IInv, TypeOK, HolderInv, Working
<1>a. /\ published' \in [Runs -> SUBSET Nat]
      /\ \A q \in Runs : published[q] \subseteq published'[q]
      /\ \A q \in Runs : q # job[e] => published'[q] = published[q]
  BY <1>0 DEF IInv, TypeOK
<1>b. run' = run /\ ~sweeping'
  BY DEF TaskUnchanged, sweepVars
<1>1. TypeOK'
  BY <1>0, <1>a, <1>b
     DEF IInv, TypeOK, TaskSteps, Goto, TaskUnchanged, clientVars, sweepVars
<1>2. RowInv' /\ ClientInv'
  <2>1. run[job[e]].state # "absent"
    BY <1>0 DEF IInv, RowInv, NoRow
  <2>2. RowInv'
    BY <2>1, <1>a, <1>b DEF IInv, RowInv
  <2> QED
    BY <2>2 DEF IInv, ClientInv, TaskUnchanged, clientVars
<1>3. HolderInv'
  BY <1>0, <1>a, <1>b
     DEF IInv, TypeOK, Row, Fields, HolderInv, Working, Goto, TaskUnchanged,
         clientVars, sweepVars
<1>4. ProgressInv'
  <2>0. SUFFICES ASSUME NEW h \in Executors, Working(h)', run'[job'[h]].state = "building",
                      held'[h] = run'[job'[h]].gen
               PROVE  /\ task'[h] \in WarnedSteps => run'[job'[h]].warned = run'[job'[h]].gen
                      /\ task'[h] = "commit" => held'[h] \in published'[job'[h]]
    BY DEF ProgressInv
  <2>1. /\ Working(h) /\ job' = job /\ held' = held /\ job[h] \in Runs
        /\ task'[h] = task[h] \/ (task[h] = "publish" /\ task'[h] = "verify")
    BY <2>0 DEF IInv, TypeOK, HolderInv, Working, Goto, TaskUnchanged
  <2> QED
    BY <1>a, <1>b, <2>0, <2>1 DEF IInv, ProgressInv, WarnedSteps
<1>5. SweepInv'
  BY <1>b DEF SweepInv
<1>6. OneActivePerScope'
  BY <1>b DEF IInv, OneActivePerScope
<1>7. OneHolderPerGeneration'
  BY <1>0, <1>a, <1>b
     DEF IInv, TypeOK, Row, Fields, HolderInv, OneHolderPerGeneration, Working,
         Goto, TaskUnchanged, clientVars, sweepVars
<1>8. ReadyHasItsArtifact' /\ ReadyHasItsWarnings'
  BY <1>a, <1>b DEF IInv, ReadyHasItsArtifact, ReadyHasItsWarnings
<1> QED
  BY <1>1, <1>2, <1>3, <1>4, <1>5, <1>6, <1>7, <1>8 DEF IInv

\* What a fenced step may write for the owner, and what happens to a task that
\* is no longer the owner.
LEMMA FencedMove ==
  ASSUME IInv, NEW e \in Executors, NEW from \in TaskSteps,
         NEW to \in TaskSteps \ {"commit"}, NEW rec, FencedStep(e, from, rec, to),
         Owns(e, job[e]) =>
            /\ rec \in Row
            /\ rec.state = "building" /\ rec.gen = run[job[e]].gen /\ rec.token = rec.gen
            /\ to \in WarnedSteps => rec.warned = rec.gen
  PROVE  IInv'
<1>1. Working(e) /\ task[e] = from /\ UNCHANGED published /\ TaskUnchanged
  BY DEF FencedStep
<1>2. CASE Fenced(e, job[e])
  <2>1. Owns(e, job[e]) /\ run' = [run EXCEPT ![job[e]] = rec] /\ Goto(e, to)
    BY <1>2 DEF FencedStep, Fenced
  <2> QED
    BY <1>1, <2>1, OwnerStep
<1>3. CASE ~Fenced(e, job[e])
  <2>1. run' = run /\ Goto(e, "close")
    BY <1>3 DEF FencedStep
  <2>2. "close" \in TaskSteps /\ "close" \notin WarnedSteps
    BY DEF TaskSteps, WarnedSteps
  <2>3. UNCHANGED <<rowVars, runner, job, held, clientVars, sweepVars>> /\ crashes' \in 0..MaxCrashes
    BY <1>1, <2>1 DEF TaskUnchanged, rowVars, IInv, TypeOK
  <2> QED
    BY <1>1, <2>1, <2>2, <2>3, MoveStep
<1> QED
  BY <1>2, <1>3

\* The row of an owner, and what renewing its lease or storing its warnings
\* makes of it.
LEMMA OwnerRows ==
  ASSUME IInv, NEW e \in Executors, Working(e), Owns(e, job[e])
  PROVE  LET rec == run[job[e]]
             new == Renewed(rec)
             warn == Warned(rec, held[e])
         IN  /\ new \in Row /\ new.state = "building" /\ new.gen = rec.gen
             /\ new.token = new.gen /\ new.warned = rec.warned
             /\ warn \in Row /\ warn.state = "building" /\ warn.gen = rec.gen
             /\ warn.token = warn.gen /\ warn.warned = warn.gen
             /\ task[e] \in WarnedSteps => rec.warned = rec.gen
<1> DEFINE rec == run[job[e]]
<1>1. job[e] \in Runs /\ held[e] \in Nat /\ rec \in Row
  BY DEF IInv, TypeOK, HolderInv, Working
<1>2. rec.state = "building" /\ rec.gen = held[e] /\ rec.token = rec.gen
  BY <1>1 DEF Owns, IInv, RowInv
<1>3. task[e] \in WarnedSteps => rec.warned = rec.gen
  BY <1>2 DEF IInv, ProgressInv
<1>4. Renewed(rec) \in Row /\ Warned(rec, held[e]) \in Row
  BY <1>1, <1>2, RenewedType, WarnedType
<1>5. /\ Renewed(rec).state = rec.state /\ Renewed(rec).gen = rec.gen
      /\ Renewed(rec).token = rec.token /\ Renewed(rec).warned = rec.warned
  BY <1>1 DEF Renewed, Row, Fields
<1>6. /\ Warned(rec, held[e]).state = rec.state /\ Warned(rec, held[e]).gen = rec.gen
      /\ Warned(rec, held[e]).token = rec.token /\ Warned(rec, held[e]).warned = held[e]
  BY <1>1 DEF Warned, Row, Fields
<1> QED
  BY <1>2, <1>3, <1>4, <1>5, <1>6

\* A task that moves on without writing to its row or to the disk.
LEMMA QuietMove ==
  ASSUME IInv, NEW e \in Executors, Working(e), NEW to \in TaskSteps, Goto(e, to),
         to \in WarnedSteps => task[e] \in WarnedSteps,
         to = "commit" => held[e] \in published[job[e]],
         UNCHANGED rowVars, TaskUnchanged
  PROVE  IInv'
<1>1. UNCHANGED <<rowVars, runner, job, held, clientVars, sweepVars>> /\ crashes' \in 0..MaxCrashes
  BY DEF TaskUnchanged, IInv, TypeOK
<1> QED
  BY <1>1, MoveStep

LEMMA TaskInv ==
  ASSUME IInv, NEW e \in Executors, TaskStep(e)
  PROVE  IInv'
<1>1. Working(e)
  BY DEF TaskStep, TaskRenews, TaskWarns, TaskExports, TaskConflicts,
         TaskPublishes, TaskVerifies, TaskCommits, TaskCloses, FencedStep
<1>2. CASE TaskRenews(e)
  <2>1. CASE FencedStep(e, "renew", Renewed(run[job[e]]), "warn")
    BY <1>1, <2>1, OwnerRows, FencedMove DEF TaskSteps, WarnedSteps
  <2>2. CASE FencedStep(e, "renew again", Renewed(run[job[e]]), "export")
    <3>1. task[e] \in WarnedSteps
      BY <2>2 DEF FencedStep, WarnedSteps
    <3> QED
      BY <1>1, <2>2, <3>1, OwnerRows, FencedMove DEF TaskSteps
  <2>3. CASE FencedStep(e, "last renew", Renewed(run[job[e]]), "publish")
    <3>1. task[e] \in WarnedSteps
      BY <2>3 DEF FencedStep, WarnedSteps
    <3> QED
      BY <1>1, <2>3, <3>1, OwnerRows, FencedMove DEF TaskSteps
  <2> QED
    BY <1>2, <2>1, <2>2, <2>3 DEF TaskRenews
<1>3. CASE TaskWarns(e)
  <2>1. CASE FencedStep(e, "warn", Warned(run[job[e]], held[e]), "renew again")
    BY <1>1, <2>1, OwnerRows, FencedMove DEF TaskSteps
  <2>2. CASE FencedStep(e, "export warn", Warned(run[job[e]], held[e]), "last renew")
    BY <1>1, <2>2, OwnerRows, FencedMove DEF TaskSteps
  <2> QED
    BY <1>3, <2>1, <2>2 DEF TaskWarns
<1>4. CASE TaskExports(e)
  <2>1. PICK to \in {"export warn", "last renew", "conflict", "close"} : Goto(e, to)
    BY <1>4 DEF TaskExports
  <2>2. to \in TaskSteps /\ to # "commit"
    BY <2>1 DEF TaskSteps
  <2>3. task[e] \in WarnedSteps /\ UNCHANGED rowVars /\ TaskUnchanged
    BY <1>4 DEF TaskExports, WarnedSteps
  <2> QED
    BY <1>1, <2>1, <2>2, <2>3, QuietMove
<1>5. CASE TaskConflicts(e)
  <2>1. FencedStep(e, "conflict", Warned(run[job[e]], held[e]), "close")
    BY <1>5 DEF TaskConflicts
  <2> QED
    BY <1>1, <2>1, OwnerRows, FencedMove DEF TaskSteps
<1>6. CASE TaskPublishes(e)
  <2>1. task[e] = "publish" /\ UNCHANGED run /\ TaskUnchanged
    BY <1>6 DEF TaskPublishes
  <2>2. CASE /\ ~sweeping
             /\ published' = [published EXCEPT ![job[e]] = @ \cup {held[e]}]
             /\ Goto(e, "verify")
    BY <1>1, <2>1, <2>2, PublishStep
  <2>3. CASE Goto(e, "close") /\ UNCHANGED published
    <3>1. "close" \in TaskSteps /\ "close" \notin WarnedSteps /\ UNCHANGED rowVars
      BY <2>1, <2>3 DEF TaskSteps, WarnedSteps, rowVars
    <3> QED
      BY <1>1, <2>1, <2>3, <3>1, QuietMove
  <2> QED
    BY <1>6, <2>2, <2>3 DEF TaskPublishes
<1>7. CASE TaskVerifies(e)
  <2>1. task[e] \in WarnedSteps /\ UNCHANGED rowVars /\ TaskUnchanged
    BY <1>7 DEF TaskVerifies, WarnedSteps
  <2>2. CASE held[e] \in published[job[e]]
    <3>1. Goto(e, "commit") /\ "commit" \in TaskSteps
      BY <1>7, <2>2 DEF TaskVerifies, TaskSteps
    <3> QED
      BY <1>1, <2>1, <2>2, <3>1, QuietMove
  <2>3. CASE held[e] \notin published[job[e]]
    <3>1. Goto(e, "close") /\ "close" \in TaskSteps
      BY <1>7, <2>3 DEF TaskVerifies, TaskSteps
    <3> QED
      BY <1>1, <2>1, <3>1, QuietMove
  <2> QED
    BY <2>2, <2>3
<1>8. CASE TaskCommits(e)
  <2>1. FencedStep(e, "commit", Readied(run[job[e]], held[e]), "done")
    BY <1>8 DEF TaskCommits
  <2>2. task[e] = "commit" /\ UNCHANGED published /\ TaskUnchanged
    BY <2>1 DEF FencedStep
  <2>3. CASE Fenced(e, job[e])
    <3>1. /\ Owns(e, job[e]) /\ ~run[job[e]].cancel /\ Goto(e, "done")
          /\ run' = [run EXCEPT ![job[e]] = Readied(run[job[e]], held[e])]
      BY <2>1, <2>3 DEF FencedStep, Fenced
    <3> QED
      BY <1>1, <2>2, <3>1, CommitStep
  <2>4. CASE ~Fenced(e, job[e])
    <3>1. run' = run /\ Goto(e, "close")
      BY <2>1, <2>4 DEF FencedStep
    <3>2. "close" \in TaskSteps /\ "close" \notin WarnedSteps /\ UNCHANGED rowVars
      BY <2>2, <3>1 DEF TaskSteps, WarnedSteps, rowVars
    <3> QED
      BY <1>1, <2>2, <3>1, <3>2, QuietMove
  <2> QED
    BY <2>3, <2>4
<1>9. CASE TaskCloses(e)
  <2>1. Goto(e, "done") /\ UNCHANGED published /\ TaskUnchanged
    BY <1>9 DEF TaskCloses
  <2>2. CASE Owns(e, job[e])
    <3>1. run' = [run EXCEPT ![job[e]] = Closed(run[job[e]], "failed")]
      BY <1>9, <2>2 DEF TaskCloses
    <3>2. /\ runner' \in [Executors -> {"idle", "init", "live", "gone"}]
          /\ job' \in [Executors -> Runs \cup {NoRun}]
          /\ held' \in [Executors -> Nat]
          /\ UNCHANGED <<published, clientVars, sweepVars, crashes>>
      BY <2>1 DEF IInv, TypeOK, TaskUnchanged
    <3>3. task' \in [Executors -> TaskSteps]
      BY <2>1 DEF IInv, TypeOK, Goto, TaskSteps
    <3>4. \A h \in Executors : /\ UNCHANGED <<runner[h], job[h], held[h]>>
                               /\ task'[h] \in {task[h], "done"}
      BY <2>1 DEF IInv, TypeOK, Goto, TaskUnchanged
    <3> QED
      BY <1>1, <2>2, <3>1, <3>2, <3>3, <3>4, CloseStep
  <2>3. CASE ~Owns(e, job[e])
    <3>1. UNCHANGED rowVars /\ "done" \in TaskSteps /\ "done" \notin WarnedSteps
      BY <1>9, <2>3 DEF TaskCloses, rowVars, TaskSteps, WarnedSteps
    <3> QED
      BY <1>1, <2>1, <3>1, QuietMove
  <2> QED
    BY <2>2, <2>3
<1> QED
  BY <1>2, <1>3, <1>4, <1>5, <1>6, <1>7, <1>8, <1>9 DEF TaskStep

-----------------------------------------------------------------------------
(* The invariant is inductive.                                             *)

LEMMA ClientsInv ==
  ASSUME IInv, NEW c \in Clients, ClientNext(c)
  PROVE  IInv'
<1>1. ASSUME NEW s \in Scopes, RequestExport(c, s) PROVE IInv'
  BY <1>1, InsertStep DEF RequestExport
<1>2. ASSUME NEW r \in Runs, RetryRun(c, r) PROVE IInv'
  <2>1. ScopeOf[r] \in Scopes
    BY ExportAssumption
  <2> QED
    BY <1>2, <2>1, InsertStep DEF RetryRun
<1> QED
  BY <1>1, <1>2, ReuseStep, StartStep, RefuseStep, UnstartedStep, ClientDiesStep
     DEF ClientNext

LEMMA RunnersInv ==
  ASSUME IInv, NEW e \in Executors, ExecutorNext(e)
  PROVE  IInv'
<1>0. crashes \in 0..MaxCrashes
  BY DEF IInv, TypeOK
<1>1. CASE RunnerClaimFails(e) \/ TaskKilled(e) \/ RunnerStops(e)
  <2>1. Release(e) /\ UNCHANGED <<rowVars, clientVars, sweepVars>> /\ crashes' = crashes
    BY <1>1 DEF RunnerClaimFails, TaskKilled, RunnerStops
  <2> QED
    BY <1>0, <2>1, ReleaseStep
<1>2. CASE HeartbeatLost(e)
  <2>1. /\ runner[e] = "live" /\ runner' = [runner EXCEPT ![e] = "gone"]
        /\ UNCHANGED <<job, held, task, rowVars, clientVars, sweepVars>>
        /\ crashes' = crashes
    BY <1>2 DEF HeartbeatLost
  <2> QED
    BY <1>0, <2>1, GoneStep
<1>3. CASE RunnerReports(e)
  <2>1. /\ Working(e) /\ Release(e)
        /\ UNCHANGED <<published, clientVars, sweepVars, crashes>>
    BY <1>3 DEF RunnerReports, Working
  <2>2. CASE Owns(e, job[e])
    <3>1. run' = [run EXCEPT ![job[e]] = Closed(run[job[e]], "failed")]
      BY <1>3, <2>2 DEF RunnerReports
    <3>2. /\ runner' \in [Executors -> {"idle", "init", "live", "gone"}]
          /\ job' \in [Executors -> Runs \cup {NoRun}]
          /\ held' \in [Executors -> Nat]
          /\ task' \in [Executors -> TaskSteps]
      BY <2>1 DEF IInv, TypeOK, Release, TaskSteps
    <3>3. \A h \in Executors :
             \/ runner'[h] = "idle"
             \/ /\ UNCHANGED <<runner[h], job[h], held[h]>>
                /\ task'[h] \in {task[h], "done"}
      BY <2>1 DEF IInv, TypeOK, Release
    <3> QED
      BY <2>1, <2>2, <3>1, <3>2, <3>3, CloseStep
  <2>3. CASE ~Owns(e, job[e])
    <3>1. UNCHANGED <<rowVars, clientVars, sweepVars>> /\ crashes' = crashes
      BY <1>3, <2>3 DEF RunnerReports, rowVars
    <3> QED
      BY <1>0, <2>1, <3>1, ReleaseStep
  <2> QED
    BY <2>2, <2>3
<1>4. CASE TaskRaises(e)
  <2>1. /\ Working(e) /\ Goto(e, "close")
        /\ UNCHANGED <<rowVars, runner, job, held, clientVars, sweepVars>>
        /\ crashes' \in 0..MaxCrashes
    BY <1>4, CrashType DEF TaskRaises, IInv
  <2> QED
    BY <2>1, MoveStep DEF TaskSteps, WarnedSteps
<1>5. CASE TaskDies(e)
  <2>1. /\ Working(e) /\ Goto(e, "dead")
        /\ UNCHANGED <<rowVars, runner, job, held, clientVars, sweepVars>>
        /\ crashes' \in 0..MaxCrashes
    BY <1>5, CrashType DEF TaskDies, IInv, Working
  <2> QED
    BY <2>1, MoveStep DEF TaskSteps, WarnedSteps
<1>6. CASE RunnerDies(e)
  <2>1. UNCHANGED <<rowVars, clientVars, sweepVars>> /\ crashes' \in 0..MaxCrashes
    BY <1>6, CrashType DEF RunnerDies, IInv
  <2>2. CASE Release(e)
    BY <2>1, <2>2, ReleaseStep
  <2>3. CASE /\ runner[e] = "live"
             /\ runner' = [runner EXCEPT ![e] = "gone"]
             /\ UNCHANGED <<job, held, task>>
    BY <2>1, <2>3, GoneStep
  <2> QED
    BY <1>6, <2>2, <2>3 DEF RunnerDies
<1> QED
  BY <1>1, <1>2, <1>3, <1>4, <1>5, <1>6, ClaimStep, HeartbeatStep, TaskInv
     DEF ExecutorNext

LEMMA SystemInv == ASSUME IInv, SystemNext PROVE IInv'
  BY CancelStep, TickStep, ReconcileStep, SweepReadStep, SweepRemoveStep, RestartStep
     DEF SystemNext

LEMMA InitInv == Init => IInv
<1> SUFFICES ASSUME Init PROVE IInv
  OBVIOUS
<1>1. NoRow \in Row
  BY LeaseRange DEF Row, Fields, Consistent, States, NoRow
<1>2. TypeOK
  <2>1. run \in [Runs -> Row] /\ published \in [Runs -> SUBSET Nat]
    BY <1>1 DEF Init
  <2>2. asked \in [Clients -> Runs \cup {NoRun}] /\ job \in [Executors -> Runs \cup {NoRun}]
    BY DEF Init
  <2>3. /\ runner \in [Executors -> {"idle", "init", "live", "gone"}]
        /\ held \in [Executors -> Nat] /\ task \in [Executors -> TaskSteps]
    BY DEF Init, TaskSteps
  <2>4. refused \in SUBSET Clients /\ kept \in SUBSET Runs /\ sweeping \in BOOLEAN
    BY DEF Init
  <2>5. crashes \in 0..MaxCrashes
    BY ExportAssumption DEF Init
  <2> QED
    BY <2>1, <2>2, <2>3, <2>4, <2>5 DEF TypeOK
<1>3. RowInv /\ ClientInv /\ HolderInv /\ ProgressInv /\ SweepInv
  BY DEF Init, RowInv, ClientInv, HolderInv, ProgressInv, SweepInv, Working, NoRow
<1>4. OneActivePerScope /\ OneHolderPerGeneration
  BY DEF Init, OneActivePerScope, OneHolderPerGeneration, ActiveStates, Working, NoRow
<1>5. ReadyHasItsArtifact /\ ReadyHasItsWarnings
  BY DEF Init, ReadyHasItsArtifact, ReadyHasItsWarnings, NoRow
<1> QED
  BY <1>2, <1>3, <1>4, <1>5 DEF IInv

LEMMA StutterInv == ASSUME IInv, UNCHANGED vars PROVE IInv'
<1> USE DEF vars, rowVars, clientVars, execVars, sweepVars
<1>1. TypeOK'
  BY DEF IInv, TypeOK
<1>2. RowInv' /\ ClientInv' /\ HolderInv'
  BY DEF IInv, RowInv, ClientInv, HolderInv, Working
<1>3. ProgressInv' /\ SweepInv'
  BY DEF IInv, ProgressInv, SweepInv, Working, Retained
<1>4. OneActivePerScope' /\ OneHolderPerGeneration'
  BY DEF IInv, OneActivePerScope, OneHolderPerGeneration, Working
<1>5. ReadyHasItsArtifact' /\ ReadyHasItsWarnings'
  BY DEF IInv, ReadyHasItsArtifact, ReadyHasItsWarnings
<1> QED
  BY <1>1, <1>2, <1>3, <1>4, <1>5 DEF IInv

\* IInv is inductive and holds of every reachable state: what every actor
\* assumes of the row it works on stays true whatever the others do.
THEOREM Inductive == Spec => []IInv
<1>1. IInv /\ [Next]_vars => IInv'
  BY ClientsInv, RunnersInv, SystemInv, StutterInv DEF Next
<1> QED
  BY InitInv, <1>1, PTL DEF Spec

-----------------------------------------------------------------------------
(* The safety properties.                                                  *)

\* Every row satisfies the check constraints of its table, and every process
\* is in one of its states: no transition of export_runs.ex is refused by the
\* database.
THEOREM TypeCorrect == Spec => []TypeOK
<1>1. IInv => TypeOK
  BY DEF IInv
<1> QED
  BY Inductive, <1>1, PTL

\* create_pending/4 and retry/2 never leave a scope with two active runs, for
\* any number of clients that call them at once.
THEOREM ScopesAreExclusive == Spec => []OneActivePerScope
<1>1. IInv => OneActivePerScope
  BY DEF IInv
<1> QED
  BY Inductive, <1>1, PTL

\* No two runners are ever given the same lease generation of a run.
THEOREM GenerationsAreExclusive == Spec => []OneHolderPerGeneration
<1>1. IInv => OneHolderPerGeneration
  BY DEF IInv
<1> QED
  BY Inductive, <1>1, PTL

\* A ready run is complete: its files are on disk, and are those of the last
\* generation that claimed it, whatever the sweep and late tasks do.
THEOREM ReadyIsComplete == Spec => []ReadyHasItsArtifact
<1>1. IInv => ReadyHasItsArtifact
  BY DEF IInv
<1> QED
  BY Inductive, <1>1, PTL

\* So are the warnings it shows: no task of an earlier generation replaced them.
THEOREM WarningsAreComplete == Spec => []ReadyHasItsWarnings
<1>1. IInv => ReadyHasItsWarnings
  BY DEF IInv
<1> QED
  BY Inductive, <1>1, PTL

-----------------------------------------------------------------------------
(* What one step does to the rows, seen from the rows.                     *)

Untouched(r) == run'[r] = run[r]

Inserted(r) ==
    run[r].state = "absent" /\ Active(ScopeOf[r]) = {} /\ run'[r] = NewRow

Taken(r) == Claimable(r) /\ run'[r] = Claimed(run[r])

\* The owner, the clock or a canceller wrote to a build.
Written(r) ==
    /\ run[r].state = "building" /\ run'[r].state = "building"
    /\ run'[r].gen = run[r].gen /\ run'[r].artifact = run[r].artifact
    /\ run[r].cancel => run'[r].cancel

Committed(r) ==
    /\ run[r].state = "building" /\ ~run[r].cancel
    /\ run'[r] = Readied(run[r], run[r].gen)

Dropped(r) ==
    /\ run[r].state \in ActiveStates /\ run'[r].state \in Retryable
    /\ run'[r].gen = run[r].gen /\ run'[r].artifact = run[r].artifact
    /\ run[r].cancel => run'[r].cancel

\* At most one row is inserted, taken, written or committed at a time; the
\* maintenance pass may drop several.
RowsMove ==
    \/ \E r \in Runs : /\ Inserted(r) \/ Taken(r) \/ Written(r) \/ Committed(r)
                       /\ \A q \in Runs \ {r} : Untouched(q)
    \/ \A r \in Runs : Untouched(r) \/ Dropped(r)

\* A step that writes to one row moves the rows if that row moves.
LEMMA OneRowMoves ==
  ASSUME IInv, NEW r \in Runs, NEW rec, run' = [run EXCEPT ![r] = rec],
         Inserted(r) \/ Taken(r) \/ Written(r) \/ Committed(r) \/ Dropped(r)
  PROVE  RowsMove
<1>1. \A q \in Runs \ {r} : Untouched(q)
  BY DEF IInv, TypeOK, Untouched
<1> QED
  BY <1>1 DEF RowsMove

LEMMA InsertMoves ==
  ASSUME IInv, NEW c \in Clients, NEW s \in Scopes, InsertPending(c, s)
  PROVE  RowsMove
<1>1. PICK r \in Unused(s) : run' = [run EXCEPT ![r] = NewRow]
  BY DEF InsertPending
<1>2. r \in Runs /\ ScopeOf[r] = s /\ run[r].state = "absent"
  BY <1>1 DEF Unused
<1>3. Inserted(r)
  BY <1>1, <1>2 DEF IInv, TypeOK, Inserted, InsertPending
<1> QED
  BY <1>1, <1>2, <1>3, OneRowMoves

LEMMA ClaimMoves ==
  ASSUME IInv, NEW e \in Executors, RunnerClaims(e)
  PROVE  RowsMove
<1>1. job[e] \in Runs /\ Claimable(job[e]) /\ run' = [run EXCEPT ![job[e]] = Claimed(run[job[e]])]
  BY DEF IInv, HolderInv, RunnerClaims
<1>2. Taken(job[e])
  BY <1>1 DEF IInv, TypeOK, Taken
<1> QED
  BY <1>1, <1>2, OneRowMoves

\* A fenced step writes a building row for its owner, or nothing.
LEMMA FencedMoves ==
  ASSUME IInv, NEW e \in Executors, NEW from, NEW to, NEW rec,
         FencedStep(e, from, rec, to),
         Owns(e, job[e]) => /\ rec.state = "building"
                            /\ rec.gen = run[job[e]].gen
                            /\ rec.artifact = run[job[e]].artifact
                            /\ rec.cancel = run[job[e]].cancel
  PROVE  RowsMove
<1>1. CASE Fenced(e, job[e])
  <2>1. /\ job[e] \in Runs /\ Owns(e, job[e])
        /\ run' = [run EXCEPT ![job[e]] = rec]
    BY <1>1 DEF IInv, HolderInv, Working, FencedStep, Fenced
  <2>2. Written(job[e])
    BY <2>1 DEF IInv, TypeOK, Written, Owns
  <2> QED
    BY <2>1, <2>2, OneRowMoves
<1>2. CASE ~Fenced(e, job[e])
  BY <1>2 DEF FencedStep, RowsMove, Untouched
<1> QED
  BY <1>1, <1>2

\* What an owner's writes leave alone.
LEMMA OwnerWrites ==
  ASSUME IInv, NEW e \in Executors, Working(e), Owns(e, job[e])
  PROVE  LET rec == run[job[e]]
             new == Renewed(rec)
             warn == Warned(rec, held[e])
         IN  /\ new.state = "building" /\ new.gen = rec.gen
             /\ new.artifact = rec.artifact /\ new.cancel = rec.cancel
             /\ warn.state = "building" /\ warn.gen = rec.gen
             /\ warn.artifact = rec.artifact /\ warn.cancel = rec.cancel
<1>1. run[job[e]] \in Row /\ run[job[e]].state = "building"
  BY DEF IInv, TypeOK, HolderInv, Working, Owns
<1> QED
  BY <1>1 DEF Renewed, Warned, Row, Fields

LEMMA CloseMoves ==
  ASSUME IInv, NEW r \in Runs, run[r].state = "building",
         run' = [run EXCEPT ![r] = Closed(run[r], "failed")]
  PROVE  RowsMove
<1>1. run'[r] = Closed(run[r], "failed") /\ run[r] \in Row
  BY DEF IInv, TypeOK
<1>2. Dropped(r)
  BY <1>1, ClosedFacts DEF Dropped, ActiveStates, Retryable
<1> QED
  BY <1>2, OneRowMoves

LEMMA TaskMoves ==
  ASSUME IInv, NEW e \in Executors, TaskStep(e)
  PROVE  RowsMove
<1>1. Working(e) /\ job[e] \in Runs
  BY DEF TaskStep, TaskRenews, TaskWarns, TaskExports, TaskConflicts,
         TaskPublishes, TaskVerifies, TaskCommits, TaskCloses, FencedStep,
         IInv, HolderInv, Working
<1>2. CASE TaskRenews(e)
  BY <1>1, <1>2, OwnerWrites, FencedMoves DEF TaskRenews
<1>3. CASE TaskWarns(e) \/ TaskConflicts(e)
  BY <1>1, <1>3, OwnerWrites, FencedMoves DEF TaskWarns, TaskConflicts
<1>4. CASE TaskExports(e) \/ TaskPublishes(e) \/ TaskVerifies(e)
  BY <1>4 DEF TaskExports, TaskPublishes, TaskVerifies, rowVars, RowsMove, Untouched
<1>5. CASE TaskCommits(e)
  <2>1. CASE Fenced(e, job[e])
    <3>1. run' = [run EXCEPT ![job[e]] = Readied(run[job[e]], held[e])]
      BY <1>5, <2>1 DEF TaskCommits, FencedStep
    <3>2. held[e] = run[job[e]].gen /\ run[job[e]].state = "building" /\ ~run[job[e]].cancel
      BY <2>1 DEF Fenced, Owns
    <3>3. Committed(job[e])
      BY <1>1, <3>1, <3>2 DEF IInv, TypeOK, Committed
    <3> QED
      BY <1>1, <3>1, <3>3, OneRowMoves
  <2>2. CASE ~Fenced(e, job[e])
    BY <1>5, <2>2 DEF TaskCommits, FencedStep, RowsMove, Untouched
  <2> QED
    BY <2>1, <2>2
<1>6. CASE TaskCloses(e)
  <2>1. CASE Owns(e, job[e])
    BY <1>1, <1>6, <2>1, CloseMoves DEF TaskCloses, Owns
  <2>2. CASE ~Owns(e, job[e])
    BY <1>6, <2>2 DEF TaskCloses, RowsMove, Untouched
  <2> QED
    BY <2>1, <2>2
<1> QED
  BY <1>2, <1>3, <1>4, <1>5, <1>6 DEF TaskStep

LEMMA RunnerMoves ==
  ASSUME IInv, NEW e \in Executors, ExecutorNext(e)
  PROVE  RowsMove
<1>1. CASE HeartbeatRenews(e)
  <2>1. /\ Working(e) /\ Owns(e, job[e]) /\ job[e] \in Runs
        /\ run' = [run EXCEPT ![job[e]] = Renewed(run[job[e]])]
    BY <1>1 DEF HeartbeatRenews, Working, Fenced, IInv, HolderInv
  <2>2. run'[job[e]] = Renewed(run[job[e]])
    BY <2>1 DEF IInv, TypeOK
  <2>3. Written(job[e])
    BY <2>1, <2>2, OwnerWrites DEF Written, Owns
  <2> QED
    BY <2>1, <2>3, OneRowMoves
<1>2. CASE RunnerReports(e)
  <2>1. job[e] \in Runs
    BY <1>2 DEF RunnerReports, IInv, HolderInv
  <2>2. CASE Owns(e, job[e])
    BY <1>2, <2>1, <2>2, CloseMoves DEF RunnerReports, Owns
  <2>3. CASE ~Owns(e, job[e])
    BY <1>2, <2>3 DEF RunnerReports, RowsMove, Untouched
  <2> QED
    BY <2>2, <2>3
<1>3. CASE \/ RunnerClaimFails(e) \/ HeartbeatLost(e) \/ TaskKilled(e)
           \/ RunnerStops(e) \/ TaskRaises(e) \/ TaskDies(e) \/ RunnerDies(e)
  BY <1>3 DEF RunnerClaimFails, HeartbeatLost, TaskKilled, RunnerStops, TaskRaises,
              TaskDies, RunnerDies, rowVars, RowsMove, Untouched
<1> QED
  BY <1>1, <1>2, <1>3, ClaimMoves, TaskMoves DEF ExecutorNext

LEMMA ClientMoves ==
  ASSUME IInv, NEW c \in Clients, ClientNext(c)
  PROVE  RowsMove
<1>1. ASSUME NEW s \in Scopes, RequestExport(c, s) PROVE RowsMove
  BY <1>1, InsertMoves DEF RequestExport
<1>2. ASSUME NEW r \in Runs, RetryRun(c, r) PROVE RowsMove
  BY <1>2, InsertMoves, ExportAssumption DEF RetryRun
<1>3. CASE CloseUnstarted(c)
  <2>1. CASE run' = run
    BY <2>1 DEF RowsMove, Untouched
  <2>2. CASE /\ run[asked[c]].state = "pending"
             /\ run' = [run EXCEPT ![asked[c]].state = "failed"]
    <3>1. asked[c] \in Runs
      BY <1>3 DEF IInv, ClientInv, CloseUnstarted
    <3>2. Dropped(asked[c])
      BY <2>2, <3>1 DEF IInv, TypeOK, Row, Fields, Dropped, ActiveStates, Retryable
    <3> QED
      BY <2>2, <3>1, <3>2, OneRowMoves
  <2> QED
    BY <1>3, <2>1, <2>2 DEF CloseUnstarted
<1>4. CASE \/ \E s \in Scopes : ReusePending(c, s)
           \/ StartBuild(c) \/ RefuseBuild(c) \/ ClientDies(c)
  BY <1>4
     DEF ReusePending, StartBuild, RefuseBuild, ClientDies, rowVars, RowsMove,
         Untouched
<1> QED
  BY <1>1, <1>2, <1>3, <1>4 DEF ClientNext

LEMMA SystemMoves ==
  ASSUME IInv, SystemNext
  PROVE  RowsMove
<1>1. ASSUME NEW r \in Runs, CancelRun(r) PROVE RowsMove
  <2>0. run[r] \in Fields
    BY DEF IInv, TypeOK, Row
  <2>1. CASE run[r].state = "pending"
    <3>1. run' = [run EXCEPT ![r] = [run[r] EXCEPT !.state = "cancelled", !.cancel = TRUE]]
      BY <1>1, <2>1 DEF CancelRun, IInv, TypeOK
    <3>2. run'[r] = [run[r] EXCEPT !.state = "cancelled", !.cancel = TRUE]
      BY <3>1 DEF IInv, TypeOK
    <3>3. Dropped(r)
      BY <2>0, <2>1, <3>2 DEF Fields, Dropped, ActiveStates, Retryable
    <3> QED
      BY <3>1, <3>3, OneRowMoves
  <2>2. CASE run[r].state = "building"
    <3>1. run' = [run EXCEPT ![r] = [run[r] EXCEPT !.cancel = TRUE]]
      BY <1>1, <2>2 DEF CancelRun, IInv, TypeOK
    <3>2. run'[r] = [run[r] EXCEPT !.cancel = TRUE]
      BY <3>1 DEF IInv, TypeOK
    <3>3. Written(r)
      BY <2>0, <2>2, <3>2 DEF Fields, Written
    <3> QED
      BY <3>1, <3>3, OneRowMoves
  <2> QED
    BY <1>1, <2>1, <2>2 DEF CancelRun
<1>2. ASSUME NEW r \in Runs, LeaseTick(r) PROVE RowsMove
  <2>1. run[r] \in Fields /\ run[r].state = "building"
    BY <1>2 DEF IInv, TypeOK, Row, LeaseTick
  <2>2. run' = [run EXCEPT ![r] = [run[r] EXCEPT !.lease = run[r].lease - 1]]
    BY <1>2 DEF LeaseTick, IInv, TypeOK
  <2>3. run'[r] = [run[r] EXCEPT !.lease = run[r].lease - 1]
    BY <2>2 DEF IInv, TypeOK
  <2>4. Written(r)
    BY <2>1, <2>3 DEF Fields, Written
  <2> QED
    BY <2>2, <2>4, OneRowMoves
<1>3. CASE ReconcileExpired
  <2> SUFFICES ASSUME NEW r \in Runs PROVE Untouched(r) \/ Dropped(r)
    BY DEF RowsMove
  <2>1. run[r] \in Row
    BY DEF IInv, TypeOK
  <2>2. CASE ExpiredBuild(r)
    <3>1. run'[r] = Closed(run[r], "interrupted") /\ run[r].state = "building"
      BY <1>3, <2>2 DEF ReconcileExpired, ExpiredBuild
    <3> QED
      BY <2>1, <3>1, ClosedFacts DEF Dropped, ActiveStates, Retryable
  <2>3. CASE ~ExpiredBuild(r)
    BY <1>3, <2>3 DEF ReconcileExpired, Untouched
  <2> QED
    BY <2>2, <2>3
<1>4. CASE SweepReads \/ SweepRemoves \/ NodeRestarts
  BY <1>4 DEF SweepReads, SweepRemoves, NodeRestarts, rowVars, RowsMove, Untouched
<1> QED
  BY <1>1, <1>2, <1>3, <1>4 DEF SystemNext

LEMMA Moves == IInv /\ [Next]_vars => RowsMove
<1>1. ASSUME UNCHANGED vars PROVE RowsMove
  BY <1>1 DEF vars, rowVars, RowsMove, Untouched
<1> QED
  BY <1>1, ClientMoves, RunnerMoves, SystemMoves DEF Next

\* A requested cancellation is never withdrawn, and no cancelled run becomes
\* ready.
THEOREM CancelHolds == Spec => CancelIsFinal
<1> DEFINE Holds(r) == run[r].cancel => run'[r].cancel /\ run'[r].state # "ready"
<1>1. IInv /\ [Next]_vars => \A r \in Runs : Holds(r)
  <2> SUFFICES ASSUME IInv, RowsMove, NEW r \in Runs, run[r].cancel
               PROVE  run'[r].cancel /\ run'[r].state # "ready"
    BY Moves
  <2>0. run[r] \in Row
    BY DEF IInv, TypeOK
  <2>1. CASE Untouched(r)
    BY <2>1 DEF Untouched, IInv, RowInv
  <2>2. CASE Inserted(r)
    <3>1. run[r] = NoRow
      BY <2>2 DEF Inserted, IInv, RowInv
    <3> QED
      BY <3>1 DEF NoRow
  <2>3. CASE Taken(r) \/ Committed(r)
    BY <2>3 DEF Taken, Claimable, Committed
  <2>4. CASE Written(r) \/ Dropped(r)
    BY <2>4 DEF Written, Dropped, Retryable
  <2> QED
    BY <2>1, <2>2, <2>3, <2>4 DEF RowsMove
<1> QED
  BY Inductive, <1>1, PTL DEF Spec, CancelIsFinal

\* No step of anyone changes a closed run.
THEOREM ClosedHolds == Spec => ClosedRunsStayClosed
<1> DEFINE Holds(r) == run[r].state \in TerminalStates => run'[r] = run[r]
<1>1. IInv /\ [Next]_vars => \A r \in Runs : Holds(r)
  <2> SUFFICES ASSUME RowsMove, NEW r \in Runs, run[r].state \in TerminalStates
               PROVE  run'[r] = run[r]
    BY Moves
  <2>1. ~Inserted(r) /\ ~Taken(r) /\ ~Committed(r) /\ ~Written(r) /\ ~Dropped(r)
    BY DEF TerminalStates, ActiveStates, Inserted, Taken, Claimable, Committed,
           Written, Dropped
  <2> QED
    BY <2>1 DEF RowsMove, Untouched
<1> QED
  BY Inductive, <1>1, PTL DEF Spec, ClosedRunsStayClosed

\* The generation of a row never goes back.
LEMMA GenerationGrows ==
  ASSUME IInv, [Next]_vars, NEW r \in Runs
  PROVE  run'[r].gen \in Nat /\ run'[r].gen >= run[r].gen
<1>0. RowsMove
  BY Moves
<1>1. run[r] \in Row /\ run[r].gen \in Nat
  BY DEF IInv, TypeOK, Row, Fields
<1>2. CASE Untouched(r)
  BY <1>1, <1>2 DEF Untouched
<1>3. CASE Inserted(r)
  <2>1. run[r] = NoRow
    BY <1>3 DEF Inserted, IInv, RowInv
  <2> QED
    BY <1>3, <2>1 DEF Inserted, NewRow, NoRow
<1>4. CASE Taken(r)
  BY <1>1, <1>4 DEF Taken, Claimed, Row, Fields
<1>5. CASE Written(r) \/ Dropped(r)
  BY <1>1, <1>5 DEF Written, Dropped
<1>6. CASE Committed(r)
  BY <1>1, <1>6 DEF Committed, Readied, Row, Fields
<1> QED
  BY <1>0, <1>2, <1>3, <1>4, <1>5, <1>6 DEF RowsMove

\* A runner that works keeps its run and its generation until it stops.
LEMMA WorkersKeepTheirs ==
  ASSUME IInv, [Next]_vars, NEW e \in Executors, Working(e), Working(e)'
  PROVE  job'[e] = job[e] /\ held'[e] = held[e]
<1>1. CASE UNCHANGED <<job, held>>
  BY <1>1
<1>2. ASSUME NEW c \in Clients, ClientNext(c)
      PROVE  job'[e] = job[e] /\ held'[e] = held[e]
  BY <1>2 DEF ClientNext, RequestExport, RetryRun, InsertPending, ReusePending,
     StartBuild, RefuseBuild, CloseUnstarted, ClientDies, execVars, Working, IInv, TypeOK
<1>3. ASSUME NEW h \in Executors, Release(h), Working(e)'
      PROVE  job'[e] = job[e] /\ held'[e] = held[e]
  BY <1>3 DEF Release, Working, IInv, TypeOK
<1>4. ASSUME NEW h \in Executors, ExecutorNext(h)
      PROVE  job'[e] = job[e] /\ held'[e] = held[e]
  <2>1. CASE RunnerClaims(h)
    BY <2>1 DEF RunnerClaims, Working, IInv, TypeOK
  <2>2. CASE TaskStep(h)
    BY <1>1, <2>2 DEF TaskStep, TaskRenews, TaskWarns, TaskExports, TaskConflicts,
       TaskPublishes, TaskVerifies, TaskCommits, TaskCloses, FencedStep, TaskUnchanged
  <2>3. CASE HeartbeatRenews(h) \/ HeartbeatLost(h) \/ TaskRaises(h) \/ TaskDies(h)
    BY <1>1, <2>3 DEF HeartbeatRenews, HeartbeatLost, TaskRaises, TaskDies, execVars
  <2>4. CASE \/ RunnerClaimFails(h) \/ TaskKilled(h) \/ RunnerStops(h)
             \/ RunnerReports(h) \/ RunnerDies(h)
    BY <1>1, <1>3, <2>4 DEF RunnerClaimFails, TaskKilled, RunnerStops, RunnerReports,
       RunnerDies
  <2> QED
    BY <1>4, <2>1, <2>2, <2>3, <2>4 DEF ExecutorNext
<1>5. CASE SystemNext
  <2>1. CASE NodeRestarts
    BY <2>1 DEF NodeRestarts, Working
  <2> QED
    BY <1>1, <1>5, <2>1 DEF SystemNext, CancelRun, LeaseTick, ReconcileExpired,
       SweepReads, SweepRemoves, execVars
<1> QED
  BY <1>1, <1>2, <1>4, <1>5 DEF Next, vars, execVars

\* The fence keeps every step of a superseded task or runner from the rows,
\* heartbeat and crash report included, and no later claim makes it the owner
\* again: generations only grow, and its own lies behind.
THEOREM SupersededHolds == Spec => SupersededTaskIsHarmless
<1>1. ASSUME IInv, [Next]_vars, NEW e \in Executors, Superseded(e), ExecutorNext(e)
      PROVE  run' = run
  <2>1. Working(e) /\ ~Owns(e, job[e]) /\ ~Fenced(e, job[e])
    BY <1>1 DEF Superseded, Owns, Fenced
  <2>2. CASE TaskStep(e)
    BY <2>1, <2>2 DEF TaskStep, TaskRenews, TaskWarns, TaskExports, TaskConflicts,
       TaskPublishes, TaskVerifies, TaskCommits, TaskCloses, FencedStep, rowVars
  <2>3. CASE RunnerClaims(e) \/ HeartbeatRenews(e)
    BY <2>1, <2>3 DEF RunnerClaims, HeartbeatRenews, Working
  <2>4. CASE \/ RunnerClaimFails(e) \/ HeartbeatLost(e) \/ TaskKilled(e) \/ RunnerStops(e)
             \/ RunnerReports(e) \/ TaskRaises(e) \/ TaskDies(e) \/ RunnerDies(e)
    BY <2>1, <2>4 DEF RunnerClaimFails, HeartbeatLost, TaskKilled, RunnerStops,
       RunnerReports, TaskRaises, TaskDies, RunnerDies, rowVars
  <2> QED
    BY <1>1, <2>2, <2>3, <2>4 DEF ExecutorNext
<1>2. ASSUME IInv, [Next]_vars, NEW e \in Executors, Superseded(e), Working(e)'
      PROVE  Superseded(e)'
  <2>1. job'[e] = job[e] /\ held'[e] = held[e]
    BY <1>2, WorkersKeepTheirs DEF Superseded
  <2>2. job[e] \in Runs /\ held[e] \in 1..run[job[e]].gen /\ held[e] # run[job[e]].gen
    <3>1. Working(e) /\ held[e] # run[job[e]].gen
      BY <1>2 DEF Superseded
    <3>2. job[e] \in Runs
      BY <1>2, <3>1 DEF IInv, HolderInv, Working
    <3>3. held[e] \in 1..run[job[e]].gen
      BY <1>2, <3>1 DEF IInv, HolderInv
    <3> QED
      BY <3>1, <3>2, <3>3
  <2>3. run[job[e]].gen \in Nat
    BY <1>2, <2>2 DEF IInv, TypeOK, Row, Fields
  <2>4. run'[job[e]].gen \in Nat /\ run'[job[e]].gen >= run[job[e]].gen
    BY <1>2, <2>2, GenerationGrows
  <2>5. held[e] # run'[job[e]].gen
    BY <2>2, <2>3, <2>4
  <2> QED
    BY <1>2, <2>1, <2>5 DEF Superseded
<1>3. IInv /\ [Next]_vars =>
         [\A e \in Executors : Superseded(e) => /\ ExecutorNext(e) => run' = run
                                                /\ Working(e)' => Superseded(e)']_vars
  BY <1>1, <1>2
<1> QED
  BY Inductive, <1>3, PTL DEF Spec, SupersededTaskIsHarmless

-----------------------------------------------------------------------------
(* Refinement.                                                             *)

JobPhase  == [r \in Runs |-> PhaseOf[run[r].state]]
JobEpoch  == [r \in Runs |-> run[r].gen]
JobWinner == [r \in Runs |-> run[r].artifact]

LEMMA PhaseCases ==
  ASSUME NEW s \in States
  PROVE  /\ PhaseOf[s] = "none" <=> s = "absent"
         /\ PhaseOf[s] \in {"queued", "owned"} <=> s \in ActiveStates
         /\ PhaseOf[s] = "owned" <=> s = "building"
         /\ s \in Retryable => PhaseOf[s] = "dropped"
         /\ PhaseOf["pending"] = "queued" /\ PhaseOf["building"] = "owned"
         /\ PhaseOf["ready"] = "done"
  BY DEF PhaseOf, States, ActiveStates, Retryable

LEMMA JobMoves ==
  ASSUME IInv, RowsMove
  PROVE  [Job!Next]_(Job!vars)
<1>0. \A r \in Runs : run[r] \in Fields
  BY DEF IInv, TypeOK, Row
<1>1. ASSUME NEW r \in Runs, Inserted(r), \A q \in Runs \ {r} : Untouched(q)
      PROVE  Job!Enqueue(r)
  <2>a. run[r].state = "absent" /\ run'[r].state = "pending"
    BY <1>1 DEF Inserted, NewRow, NoRow
  <2>b. \A q \in Runs : PhaseOf[run'[q].state] = IF q = r THEN "queued" ELSE PhaseOf[run[q].state]
    BY <1>1, <2>a, PhaseCases DEF Untouched, States
  <2>c. JobPhase[r] = "none"
    BY <2>a, PhaseCases DEF JobPhase, States
  <2>1. JobPhase[r] = "none" /\ JobPhase' = [JobPhase EXCEPT ![r] = "queued"]
    BY <2>b, <2>c DEF JobPhase
  <2>2. run[r] = NoRow
    BY <1>1 DEF Inserted, IInv, RowInv
  <2>3. JobEpoch' = JobEpoch /\ JobWinner' = JobWinner
    BY <1>1, <2>2 DEF JobEpoch, JobWinner, Inserted, Untouched, NewRow, NoRow
  <2>4. \A i \in Runs : ScopeOf[i] = ScopeOf[r] => JobPhase[i] \notin {"queued", "owned"}
    BY <1>0, <1>1, PhaseCases DEF JobPhase, Inserted, Active, Fields
  <2> QED
    BY <2>1, <2>3, <2>4 DEF Job!Enqueue, Job!Open, JobPhase, JobEpoch, JobWinner
<1>2. ASSUME NEW r \in Runs, Taken(r), \A q \in Runs \ {r} : Untouched(q)
      PROVE  Job!Acquire(r)
  <2>0. /\ Claimed(run[r]).state = "building" /\ Claimed(run[r]).gen = run[r].gen + 1
        /\ Claimed(run[r]).artifact = run[r].artifact
    BY <1>0 DEF Claimed, Fields
  <2>1. JobPhase[r] \in {"queued", "owned"}
    BY <1>0, <1>2, PhaseCases DEF JobPhase, Taken, Claimable, ActiveStates, Fields
  <2>b. \A q \in Runs : PhaseOf[run'[q].state] = IF q = r THEN "owned" ELSE PhaseOf[run[q].state]
    BY <1>2, <2>0, PhaseCases DEF Taken, Untouched, States
  <2>2. JobPhase' = [JobPhase EXCEPT ![r] = "owned"]
    BY <2>b DEF JobPhase
  <2>3. JobEpoch' = [JobEpoch EXCEPT ![r] = JobEpoch[r] + 1] /\ JobWinner' = JobWinner
    BY <1>2, <2>0 DEF JobEpoch, JobWinner, Taken, Untouched
  <2> QED
    BY <2>1, <2>2, <2>3 DEF Job!Acquire, Job!Open, JobPhase, JobEpoch, JobWinner
<1>3. ASSUME NEW r \in Runs, Committed(r), \A q \in Runs \ {r} : Untouched(q)
      PROVE  Job!Commit(r)
  <2>0. LET rec == Readied(run[r], run[r].gen)
        IN  rec.state = "ready" /\ rec.gen = run[r].gen /\ rec.artifact = run[r].gen
    BY <1>0 DEF Readied, Fields
  <2>a. run[r].state = "building" /\ run'[r].state = "ready"
    BY <1>3, <2>0 DEF Committed
  <2>b. \A q \in Runs : PhaseOf[run'[q].state] = IF q = r THEN "done" ELSE PhaseOf[run[q].state]
    BY <1>3, <2>a, PhaseCases DEF Untouched, States
  <2>c. JobPhase[r] = "owned"
    BY <2>a, PhaseCases DEF JobPhase, States
  <2>1. JobPhase[r] = "owned" /\ JobPhase' = [JobPhase EXCEPT ![r] = "done"]
    BY <2>b, <2>c DEF JobPhase
  <2>2. JobEpoch' = JobEpoch /\ JobWinner' = [JobWinner EXCEPT ![r] = JobEpoch[r]]
    BY <1>3, <2>0 DEF JobEpoch, JobWinner, Committed, Untouched
  <2> QED
    BY <2>1, <2>2 DEF Job!Commit, JobPhase, JobEpoch, JobWinner
<1>4. ASSUME NEW r \in Runs, Written(r), \A q \in Runs \ {r} : Untouched(q)
      PROVE  UNCHANGED Job!vars
  <2>1. JobPhase' = JobPhase /\ JobEpoch' = JobEpoch /\ JobWinner' = JobWinner
    BY <1>4 DEF JobPhase, JobEpoch, JobWinner, Written, Untouched
  <2> QED
    BY <2>1 DEF Job!vars, JobPhase, JobEpoch, JobWinner
<1>5. ASSUME \A r \in Runs : Untouched(r) \/ Dropped(r)
      PROVE  \E J \in SUBSET Runs : Job!Drop(J)
  <2>0. PICK Gone \in SUBSET Runs : Gone = {r \in Runs : Dropped(r)}
    OBVIOUS
  <2>1. \A r \in Gone : JobPhase[r] \in {"queued", "owned"}
    BY <1>0, <2>0, PhaseCases DEF JobPhase, Dropped, Fields
  <2>2. \A r \in Gone : PhaseOf[run'[r].state] = "dropped"
    BY <2>0 DEF Dropped, Retryable, PhaseOf
  <2>3. JobPhase' = [r \in Runs |-> IF r \in Gone THEN "dropped" ELSE JobPhase[r]]
    BY <1>5, <2>0, <2>2 DEF JobPhase, Untouched
  <2>4. JobEpoch' = JobEpoch /\ JobWinner' = JobWinner
    BY <1>5 DEF JobEpoch, JobWinner, Untouched, Dropped
  <2>5. Job!Drop(Gone)
    BY <2>1, <2>3, <2>4 DEF Job!Drop, Job!Open, JobPhase, JobEpoch, JobWinner
  <2> QED
    BY <2>5
<1> QED
  BY <1>1, <1>2, <1>3, <1>4, <1>5 DEF RowsMove, Job!Next

\* The rows of gtfs_export_runs move as the jobs of FencedJob do.
THEOREM RunsAreFencedJobs == Spec => MovesAsFencedJob
<1>1. Init => Job!Init
  BY DEF Init, Job!Init, PhaseOf, NoRow
<1>2. IInv /\ [Next]_vars => [Job!Next]_(Job!vars)
  BY Moves, JobMoves
<1> QED
  BY Inductive, <1>1, <1>2, PTL DEF Spec, MovesAsFencedJob, Job!Spec

-----------------------------------------------------------------------------
(* The files of a run.                                                     *)


\* A live claim that a request holds is the claim of the row.
ClaimInv ==
    row.state = "ready" =>
        \A d \in Downloaders :
            serving[d].slot # "none" /\ serving[d].left >= 0
            => row.claim.by = d /\ row.claim.left = serving[d].left

ArtifactIInv == ArtifactTypeOK /\ ClaimInv /\ OneDownloadAtATime

\* The type of the row, with its dependent part.
RowType ==
    [state : {"ready", "expired", "failed"}, keys : SUBSET Slots,
     left : Left(Ttl),
     claim : [by : Downloaders \cup {NoOne}, left : Left(ClaimTicks)]]

RowOK(r) == r \in RowType /\ (r.state # "ready" => r.keys = {} /\ r.claim = NoClaim)

-----------------------------------------------------------------------------
LEMMA Bounds ==
    /\ Ttl \in Nat /\ ClaimTicks \in Nat /\ PinTicks \in Nat
    /\ MaxWait \in Nat /\ MaxDamage \in Nat /\ MaxRemovalCrashes \in Nat
    /\ Floor \in Int /\ Floor < 0
BY ArtifactAssumption DEF Floor

\* What passes stays between the floor and the length of its deadline.
LEMMA LaterLeft ==
  ASSUME NEW n \in Nat, NEW left \in Left(n)
  PROVE  /\ Later(left) \in Left(n)
         /\ Later(left) >= 0 => left >= 0 /\ Later(left) = left - 1
BY Bounds DEF Left, Later, Floor

LEMMA Names == NoOne \notin Downloaders /\ NoOne \notin Pinners /\ "none" \notin Slots
BY ArtifactAssumption DEF Procs

\* A transaction has the type of one, before and after it begins or ends.
LEMMA BeginType ==
  ASSUME ArtifactTypeOK, NEW p \in Procs, NEW op \in Ops, NEW slot \in SlotOrNone,
         Begin(p, op, slot)
  PROVE  ArtifactIInv' <=> ArtifactIInv
<1>1. txn' \in [Procs -> [op : Ops, slot : SlotOrNone, age : 0..MaxWait]]
  BY Bounds DEF ArtifactTypeOK, Begin
<1> QED
  BY <1>1 DEF ArtifactTypeOK, Begin, ArtifactIInv, ClaimInv, OneDownloadAtATime

LEMMA EndType ==
  ASSUME ArtifactTypeOK, NEW p \in Procs, NEW op, End(p, op)
  PROVE  /\ txn' \in [Procs -> [op : Ops, slot : SlotOrNone, age : 0..MaxWait]]
         /\ picked' \in -1..MaxWait
         /\ damage' \in 0..MaxDamage
<1>1. NoTxn \in [op : Ops, slot : SlotOrNone, age : 0..MaxWait]
  BY Bounds DEF NoTxn, Ops, SlotOrNone
<1> QED
  BY <1>1 DEF ArtifactTypeOK, End

\* A closed run, or one whose closing was rolled back, is well-typed, and a
\* closed run has no live claim to compare with.
LEMMA CloseKeeps ==
  ASSUME ArtifactIInv, NEW state \in {"expired", "failed"}, CloseRun(state)
  PROVE  /\ RowOK(row') /\ files' \in SUBSET Slots /\ removalCrashes' \in 0..MaxRemovalCrashes
         /\ row' = row \/ row'.state # "ready"
<1>1. CASE row' = [row EXCEPT !.state = state, !.keys = {}, !.claim = NoClaim] /\ UNCHANGED removalCrashes
  <2>1. NoClaim \in [by : Downloaders \cup {NoOne}, left : Left(ClaimTicks)]
    BY Bounds DEF NoClaim, Left
  <2> QED
    BY <1>1, <2>1 DEF ArtifactIInv, ArtifactTypeOK, RowOK, RowType, CloseRun
<1>2. CASE removalCrashes < MaxRemovalCrashes /\ removalCrashes' = removalCrashes + 1 /\ UNCHANGED row
  BY <1>2, Bounds DEF ArtifactIInv, ArtifactTypeOK, RowOK, RowType, CloseRun
<1> QED
  BY <1>1, <1>2 DEF CloseRun

\* A change of the row, the files and the pins that leaves the claims alone,
\* or closes the run, keeps the invariant.
LEMMA ClaimsUndisturbed ==
  ASSUME ArtifactIInv, UNCHANGED serving, row' = row \/ row'.state # "ready"
  PROVE  ClaimInv' /\ OneDownloadAtATime'
BY DEF ArtifactIInv, ClaimInv, OneDownloadAtATime

LEMMA DownloadClaimStep ==
  ASSUME ArtifactIInv, NEW d \in Downloaders, ClaimDownload(d)
  PROVE  ArtifactIInv'
<1> DEFINE slot == txn[d].slot
           age  == txn[d].age
           free == Offered(slot, age) /\ ClaimAvailable(age)
<1>0. d \in Procs /\ age \in 0..MaxWait
  BY DEF Procs, ArtifactIInv, ArtifactTypeOK
<1>e. /\ txn' \in [Procs -> [op : Ops, slot : SlotOrNone, age : 0..MaxWait]]
      /\ picked' \in -1..MaxWait /\ damage' \in 0..MaxDamage
  BY <1>0, EndType DEF ClaimDownload, ArtifactIInv
<1>u. UNCHANGED <<pin, pinned>>
  BY DEF ClaimDownload
<1>1. CASE /\ free /\ slot \in files
           /\ row' = [row EXCEPT !.claim = [by |-> d, left |-> ClaimTicks]]
           /\ serving' = [serving EXCEPT ![d] = [slot |-> slot, left |-> ClaimTicks]]
           /\ UNCHANGED <<files, removalCrashes>>
  <2>1. ArtifactTypeOK'
    <3>1. RowOK(row') /\ row'.state = "ready" /\ row'.claim.by = d /\ row'.claim.left = ClaimTicks
      BY <1>1, Bounds DEF ArtifactIInv, ArtifactTypeOK, RowOK, RowType, Left, Offered
    <3>2. serving' \in [Downloaders -> [slot : SlotOrNone, left : Left(ClaimTicks)]]
      BY <1>1, Bounds DEF ArtifactIInv, ArtifactTypeOK, Left, SlotOrNone
    <3> QED
      BY <3>1, <3>2, <1>1, <1>e, <1>u DEF ArtifactIInv, ArtifactTypeOK, RowOK, RowType
  \* Nobody else holds a live claim: the claim of the row is void or over.
  <2>2. \A o \in Downloaders : ~(serving[o].slot # "none" /\ serving[o].left >= 0)
    <3> SUFFICES ASSUME NEW o \in Downloaders, serving[o].slot # "none", serving[o].left >= 0
                 PROVE  FALSE
      OBVIOUS
    <3>1. row.state = "ready" /\ (row.claim.by = NoOne \/ ~(row.claim.left + age >= 0))
      BY <1>1 DEF Offered, ClaimAvailable, Current
    <3>2. row.claim.by = o /\ row.claim.left = serving[o].left
      BY <3>1 DEF ArtifactIInv, ClaimInv
    <3>3. serving[o].left \in Int
      BY Bounds DEF ArtifactIInv, ArtifactTypeOK, Left
    <3> QED
      BY <3>1, <3>2, <3>3, <1>0, Names
  <2>3. ClaimInv' /\ OneDownloadAtATime'
    <3>1. \A o \in Downloaders : o # d => serving'[o] = serving[o]
      BY <1>1 DEF ArtifactIInv, ArtifactTypeOK
    <3>2. serving'[d].left = ClaimTicks /\ row'.claim.by = d /\ row'.claim.left = ClaimTicks
      BY <1>1 DEF ArtifactIInv, ArtifactTypeOK
    <3> QED
      BY <3>1, <3>2, <2>2 DEF ClaimInv, OneDownloadAtATime
  <2> QED
    BY <2>1, <2>3 DEF ArtifactIInv
<1>2. CASE slot \notin files /\ CloseRun("failed") /\ UNCHANGED serving
  BY <1>2, <1>e, <1>u, CloseKeeps, ClaimsUndisturbed DEF ArtifactIInv, ArtifactTypeOK, RowOK, RowType
<1>3. CASE UNCHANGED <<row, files, serving, removalCrashes>>
  BY <1>3, <1>e, <1>u, ClaimsUndisturbed DEF ArtifactIInv, ArtifactTypeOK
<1> QED
  BY <1>1, <1>2, <1>3 DEF ClaimDownload

LEMMA CompleteStep ==
  ASSUME ArtifactIInv, NEW d \in Downloaders, CompleteDownload(d)
  PROVE  ArtifactIInv'
<1>e. /\ txn' \in [Procs -> [op : Ops, slot : SlotOrNone, age : 0..MaxWait]]
      /\ picked' \in -1..MaxWait /\ damage' \in 0..MaxDamage
  BY EndType DEF CompleteDownload, ArtifactIInv, Procs
<1>0. /\ NoRequest \in [slot : SlotOrNone, left : Left(ClaimTicks)]
      /\ NoClaim \in [by : Downloaders \cup {NoOne}, left : Left(ClaimTicks)]
  BY Bounds DEF NoRequest, NoClaim, SlotOrNone, Left
<1>1. \/ row' = row
      \/ row.state = "ready" /\ row.claim.by = d /\ row' = [row EXCEPT !.claim = NoClaim]
  BY DEF CompleteDownload
<1>2. serving' = [serving EXCEPT ![d] = NoRequest]
  BY DEF CompleteDownload
<1>3. ArtifactTypeOK'
  <2>1. RowOK(row')
    BY <1>0, <1>1 DEF ArtifactIInv, ArtifactTypeOK, RowOK, RowType
  <2>2. serving' \in [Downloaders -> [slot : SlotOrNone, left : Left(ClaimTicks)]]
    BY <1>0, <1>2 DEF ArtifactIInv, ArtifactTypeOK
  <2>3. UNCHANGED <<pin, files, pinned, removalCrashes>>
    BY DEF CompleteDownload
  <2> QED
    BY <1>e, <2>1, <2>2, <2>3 DEF ArtifactIInv, ArtifactTypeOK, RowOK, RowType
<1>4. \A o \in Downloaders : serving'[o].slot # "none" => o # d /\ serving'[o] = serving[o]
  BY <1>2 DEF ArtifactIInv, ArtifactTypeOK, NoRequest
<1>5. ClaimInv'
  BY <1>1, <1>4 DEF ArtifactIInv, ArtifactTypeOK, ClaimInv
<1>6. OneDownloadAtATime'
  BY <1>4 DEF ArtifactIInv, OneDownloadAtATime
<1> QED
  BY <1>3, <1>5, <1>6 DEF ArtifactIInv

\* A pin that is set in a transaction of some age has its type.
LEMMA SetPinType ==
  ASSUME ArtifactTypeOK, NEW p \in Pinners, NEW slot \in SlotOrNone, NEW age \in 0..MaxWait,
         SetPin(p, slot, age)
  PROVE  /\ pin' \in [by : Pinners \cup {NoOne}, left : Left(PinTicks), slot : SlotOrNone]
         /\ pinned' \in [Pinners -> SlotOrNone]
<1>1. PinTicks - age \in Left(PinTicks)
  BY Bounds DEF Left, Floor
<1> QED
  BY <1>1 DEF SetPin, ArtifactTypeOK

LEMMA PinStep ==
  ASSUME ArtifactIInv, NEW p \in Pinners,
         PinPublication(p) \/ ReadPinned(p) \/ RenewPin(p) \/ ReleasePin(p)
  PROVE  ArtifactIInv'
<1> USE DEF ArtifactIInv
<1>0. /\ p \in Procs
      /\ txn[p].slot \in SlotOrNone /\ txn[p].age \in 0..MaxWait
      /\ pin.slot \in SlotOrNone
      /\ NoPin \in [by : Pinners \cup {NoOne}, left : Left(PinTicks), slot : SlotOrNone]
  BY Bounds DEF Procs, ArtifactTypeOK, NoPin, SlotOrNone, Left
<1>e. /\ txn' \in [Procs -> [op : Ops, slot : SlotOrNone, age : 0..MaxWait]]
      /\ picked' \in -1..MaxWait /\ damage' \in 0..MaxDamage
  BY <1>0, EndType DEF PinPublication, ReadPinned, RenewPin, ReleasePin
<1>1. UNCHANGED serving
  BY DEF PinPublication, ReadPinned, RenewPin, ReleasePin
<1>2. \/ UNCHANGED <<row, files, removalCrashes>>
      \/ CloseRun("failed")
  BY DEF PinPublication, ReadPinned, RenewPin, ReleasePin
<1>3. /\ RowOK(row') /\ files' \in SUBSET Slots /\ removalCrashes' \in 0..MaxRemovalCrashes
      /\ row' = row \/ row'.state # "ready"
  BY <1>2, CloseKeeps DEF RowOK, RowType, ArtifactTypeOK
<1>4. /\ pin' \in [by : Pinners \cup {NoOne}, left : Left(PinTicks), slot : SlotOrNone]
      /\ pinned' \in [Pinners -> SlotOrNone]
  <2>1. CASE PinPublication(p)
    BY <2>1, <1>0, SetPinType DEF PinPublication, ArtifactTypeOK
  <2>2. CASE ReadPinned(p)
    BY <2>2 DEF ReadPinned, ArtifactTypeOK
  <2>3. CASE RenewPin(p)
    BY <2>3, <1>0, SetPinType DEF RenewPin, LetGo, ArtifactTypeOK, SlotOrNone
  <2>4. CASE ReleasePin(p)
    BY <2>4, <1>0 DEF ReleasePin, LetGo, ArtifactTypeOK, SlotOrNone
  <2> QED
    BY <2>1, <2>2, <2>3, <2>4
<1>5. ArtifactTypeOK'
  BY <1>e, <1>1, <1>3, <1>4 DEF ArtifactTypeOK, RowOK, RowType
<1> QED
  BY <1>1, <1>3, <1>5, ClaimsUndisturbed

LEMMA DeathStep ==
  ASSUME ArtifactIInv, NEW p,
         (p \in Downloaders /\ DownloaderDies(p)) \/ (p \in Pinners /\ PinnerDies(p))
  PROVE  ArtifactIInv'
<1>0. /\ NoRequest \in [slot : SlotOrNone, left : Left(ClaimTicks)]
      /\ NoTxn \in [op : Ops, slot : SlotOrNone, age : 0..MaxWait]
  BY Bounds DEF NoRequest, NoTxn, SlotOrNone, Left, Ops
<1>1. ArtifactTypeOK'
  <2>1. txn' \in [Procs -> [op : Ops, slot : SlotOrNone, age : 0..MaxWait]]
    BY <1>0 DEF DownloaderDies, PinnerDies, ArtifactIInv, ArtifactTypeOK
  <2>2. serving' \in [Downloaders -> [slot : SlotOrNone, left : Left(ClaimTicks)]]
    BY <1>0 DEF DownloaderDies, PinnerDies, ArtifactIInv, ArtifactTypeOK
  <2>3. pinned' \in [Pinners -> SlotOrNone]
    BY DEF DownloaderDies, PinnerDies, LetGo, ArtifactIInv, ArtifactTypeOK, SlotOrNone
  <2>4. UNCHANGED <<row, pin, files, picked, damage, removalCrashes>>
    BY DEF DownloaderDies, PinnerDies
  <2> QED
    BY <2>1, <2>2, <2>3, <2>4 DEF ArtifactIInv, ArtifactTypeOK
<1>2. \A o \in Downloaders : serving'[o].slot # "none" => serving'[o] = serving[o]
  BY DEF DownloaderDies, PinnerDies, ArtifactIInv, ArtifactTypeOK, NoRequest
<1>3. UNCHANGED row
  BY DEF DownloaderDies, PinnerDies
<1> QED
  BY <1>1, <1>2, <1>3 DEF ArtifactIInv, ClaimInv, OneDownloadAtATime

LEMMA MaintenanceStep ==
  ASSUME ArtifactIInv, \/ PurgePins \/ CleanupPicks \/ CleanupExpires \/ SweepDirectory
               \/ \E slot \in Slots : LoseFile(slot)
  PROVE  ArtifactIInv'
<1> USE DEF ArtifactIInv
<1>1. CASE PurgePins
  <2>1. NoPin \in [by : Pinners \cup {NoOne}, left : Left(PinTicks), slot : SlotOrNone]
    BY Bounds DEF NoPin, SlotOrNone, Left
  <2> QED
    BY <1>1, <2>1, ClaimsUndisturbed DEF PurgePins, ArtifactTypeOK
<1>2. CASE CleanupPicks
  BY <1>2, Bounds, ClaimsUndisturbed DEF CleanupPicks, ArtifactTypeOK
<1>3. CASE CleanupExpires
  <2>1. CloseRun("expired") \/ UNCHANGED <<row, files, removalCrashes>>
    BY <1>3 DEF CleanupExpires
  <2>2. /\ RowOK(row') /\ files' \in SUBSET Slots /\ removalCrashes' \in 0..MaxRemovalCrashes
        /\ row' = row \/ row'.state # "ready"
    BY <2>1, CloseKeeps DEF RowOK, RowType, ArtifactTypeOK
  <2> QED
    BY <1>3, <2>2, Bounds, ClaimsUndisturbed DEF CleanupExpires, ArtifactTypeOK, RowOK, RowType
<1>4. CASE SweepDirectory
  BY <1>4, ClaimsUndisturbed DEF SweepDirectory, ArtifactTypeOK
<1>5. CASE \E slot \in Slots : LoseFile(slot)
  BY <1>5, Bounds, ClaimsUndisturbed DEF LoseFile, ArtifactTypeOK
<1> QED
  BY <1>1, <1>2, <1>3, <1>4, <1>5

\* Time passes for a claim and for its holder alike.
LEMMA ArtifactTickStep ==
  ASSUME ArtifactIInv, Tick
  PROVE  ArtifactIInv'
<1> USE DEF ArtifactIInv
<1>b. /\ 0 \in Left(ClaimTicks) /\ 0 \in Left(PinTicks)
      /\ \A n \in Nat : \A left \in Left(n) : Later(left) \in Left(n)
  BY Bounds, LaterLeft DEF Left
<1>1. RowOK(row') /\ row'.state = row.state /\ row'.claim.by = row.claim.by
      /\ (row.claim.by # NoOne => row'.claim.left = Later(row.claim.left))
  <2>1. row' = [row EXCEPT !.left = Later(row.left),
                           !.claim.left = IF row.claim.by = NoOne THEN 0
                                          ELSE Later(row.claim.left)]
    BY DEF Tick
  <2>2. row.left \in Left(Ttl) /\ row.claim.left \in Left(ClaimTicks)
        /\ row.claim \in [by : Downloaders \cup {NoOne}, left : Left(ClaimTicks)]
    BY DEF ArtifactTypeOK
  <2>3. Later(row.left) \in Left(Ttl) /\ Later(row.claim.left) \in Left(ClaimTicks)
    BY <2>2, <1>b, Bounds
  <2>4. /\ row' \in RowType /\ row'.keys = row.keys /\ row'.state = row.state
        /\ row'.claim.by = row.claim.by
        /\ row'.claim.left = IF row.claim.by = NoOne THEN 0 ELSE Later(row.claim.left)
    BY <2>1, <2>2, <2>3, <1>b DEF ArtifactTypeOK, RowType
  <2>5. row'.claim \in [by : Downloaders \cup {NoOne}, left : Left(ClaimTicks)]
    BY <2>4 DEF RowType
  <2>6. row.state # "ready" => row'.claim = NoClaim
    BY <2>4, <2>5 DEF ArtifactTypeOK, NoClaim
  <2> QED
    BY <2>4, <2>6 DEF ArtifactTypeOK, RowOK
<1>2. pin' \in [by : Pinners \cup {NoOne}, left : Left(PinTicks), slot : SlotOrNone]
  <2>1. Later(pin.left) \in Left(PinTicks)
    BY <1>b, Bounds DEF ArtifactTypeOK
  <2> QED
    BY <2>1, <1>b DEF Tick, ArtifactTypeOK
<1>3. /\ serving' \in [Downloaders -> [slot : SlotOrNone, left : Left(ClaimTicks)]]
      /\ \A d \in Downloaders :
            serving'[d].slot # "none" /\ serving'[d].left >= 0
            => /\ serving[d].slot # "none" /\ serving[d].left >= 0
               /\ serving'[d].left = Later(serving[d].left)
  <2>0. NoRequest \in [slot : SlotOrNone, left : Left(ClaimTicks)] /\ NoRequest.slot = "none"
    BY <1>b DEF NoRequest, SlotOrNone
  <2> SUFFICES ASSUME NEW d \in Downloaders
               PROVE  /\ serving'[d] \in [slot : SlotOrNone, left : Left(ClaimTicks)]
                      /\ serving'[d].slot # "none" /\ serving'[d].left >= 0
                         => /\ serving[d].slot # "none" /\ serving[d].left >= 0
                            /\ serving'[d].left = Later(serving[d].left)
    BY DEF Tick
  <2>1. CASE serving[d] = NoRequest
    BY <2>0, <2>1 DEF Tick
  <2>2. CASE serving[d] # NoRequest
    <3>1. serving'[d] = [serving[d] EXCEPT !.left = Later(serving[d].left)]
      BY <2>2 DEF Tick
    <3>2. serving[d] \in [slot : SlotOrNone, left : Left(ClaimTicks)]
      BY DEF ArtifactTypeOK
    <3>3. /\ Later(serving[d].left) \in Left(ClaimTicks)
          /\ Later(serving[d].left) >= 0 => serving[d].left >= 0
      BY <3>2, LaterLeft, Bounds
    <3> QED
      BY <3>1, <3>2, <3>3
  <2> QED
    BY <2>1, <2>2
<1>4. txn' \in [Procs -> [op : Ops, slot : SlotOrNone, age : 0..MaxWait]]
  <2> SUFFICES ASSUME NEW p \in Procs
               PROVE  (IF txn[p] = NoTxn THEN NoTxn ELSE [txn[p] EXCEPT !.age = @ + 1])
                      \in [op : Ops, slot : SlotOrNone, age : 0..MaxWait]
    BY DEF Tick
  <2>1. txn[p].age + 1 \in 0..MaxWait
    BY Bounds DEF Tick, ArtifactTypeOK
  <2> QED
    BY <2>1 DEF ArtifactTypeOK
<1>5. picked' \in -1..MaxWait
  BY Bounds DEF Tick, ArtifactTypeOK
<1>6. ArtifactTypeOK'
  BY <1>1, <1>2, <1>3, <1>4, <1>5 DEF Tick, ArtifactTypeOK, RowOK, RowType
<1>7. ClaimInv'
  <2> SUFFICES ASSUME row'.state = "ready", NEW d \in Downloaders,
                      serving'[d].slot # "none", serving'[d].left >= 0
               PROVE  row'.claim.by = d /\ row'.claim.left = serving'[d].left
    BY DEF ClaimInv
  <2>1. row.claim.by = d /\ row.claim.left = serving[d].left
    BY <1>1, <1>3 DEF ClaimInv
  <2> QED
    BY <2>1, <1>1, <1>3, Names
<1>8. OneDownloadAtATime'
  BY <1>3 DEF OneDownloadAtATime
<1> QED
  BY <1>6, <1>7, <1>8

-----------------------------------------------------------------------------
LEMMA ArtifactInitInv == ArtifactInit => ArtifactIInv
<1> SUFFICES ASSUME ArtifactInit PROVE ArtifactIInv
  OBVIOUS
<1>1. /\ 0 \in Left(ClaimTicks) /\ 0 \in Left(PinTicks) /\ Ttl \in Left(Ttl)
      /\ 0 \in 0..MaxWait /\ 0 \in 0..MaxDamage /\ 0 \in 0..MaxRemovalCrashes /\ -1 \in -1..MaxWait
  BY Bounds DEF Left
<1>2. ArtifactTypeOK
  BY <1>1 DEF ArtifactInit, ArtifactTypeOK, NoPin, NoTxn, NoRequest, NoClaim, SlotOrNone, Ops
<1>3. \A d \in Downloaders : serving[d].slot = "none"
  BY DEF ArtifactInit, NoRequest
<1> QED
  BY <1>2, <1>3 DEF ArtifactIInv, ClaimInv, OneDownloadAtATime

LEMMA NextInv == ArtifactIInv /\ [ArtifactNext]_artifactVars => ArtifactIInv'
<1> SUFFICES ASSUME ArtifactIInv, [ArtifactNext]_artifactVars PROVE ArtifactIInv'
  OBVIOUS
<1>1. ASSUME NEW d \in Downloaders, DownloaderNext(d) PROVE ArtifactIInv'
  <2>0. d \in Procs /\ serving[d].slot \in SlotOrNone /\ Slots \subseteq SlotOrNone
    BY DEF Procs, ArtifactIInv, ArtifactTypeOK, SlotOrNone
  <2>1. CASE \E slot \in Slots : AskClaim(d, slot)
    BY <2>0, <2>1, BeginType DEF AskClaim, Ops, ArtifactIInv
  <2>2. CASE AskComplete(d)
    BY <2>0, <2>2, BeginType DEF AskComplete, Ops, ArtifactIInv
  <2> QED
    BY <1>1, <2>1, <2>2, DownloadClaimStep, CompleteStep, DeathStep DEF DownloaderNext
<1>2. ASSUME NEW p \in Pinners, PinnerNext(p) PROVE ArtifactIInv'
  <2>0. p \in Procs /\ pinned[p] \in SlotOrNone /\ Slots \subseteq SlotOrNone
    BY DEF Procs, ArtifactIInv, ArtifactTypeOK, SlotOrNone
  <2>1. CASE \E slot \in Slots : AskPin(p, slot)
    BY <2>0, <2>1, BeginType DEF AskPin, Ops, ArtifactIInv
  <2>2. CASE \E op \in {"read", "release", "renew"} : AskWithPin(p, op)
    BY <2>0, <2>2, BeginType DEF AskWithPin, Ops, ArtifactIInv
  <2> QED
    BY <1>2, <2>1, <2>2, PinStep, DeathStep DEF PinnerNext
<1>3. CASE Tick
  BY <1>3, ArtifactTickStep
<1>4. CASE UNCHANGED artifactVars
  BY <1>4 DEF artifactVars, ArtifactIInv, ArtifactTypeOK, ClaimInv, OneDownloadAtATime
<1> QED
  BY <1>1, <1>2, <1>3, <1>4, MaintenanceStep DEF ArtifactNext

\* The invariant that ties a live claim to the row that grants it holds in
\* every reachable state.
THEOREM ArtifactsInductive == ArtifactSpec => []ArtifactIInv
  BY ArtifactInitInv, NextInv, PTL DEF ArtifactSpec

\* Every reachable state has its type.
THEOREM ArtifactTypes == ArtifactSpec => []ArtifactTypeOK
<1>1. ArtifactIInv => ArtifactTypeOK
  BY DEF ArtifactIInv
<1> QED
  BY ArtifactsInductive, <1>1, PTL

\* At most one request holds a live claim on the files of a run.
THEOREM DownloadsAreExclusive == ArtifactSpec => []OneDownloadAtATime
<1>1. ArtifactIInv => OneDownloadAtATime
  BY DEF ArtifactIInv
<1> QED
  BY ArtifactsInductive, <1>1, PTL

-----------------------------------------------------------------------------
(* Action properties.                                                      *)

\* A step leaves a claimed file and its run alone, or found a file lost.
LEMMA OutliveStep ==
  ASSUME ArtifactIInv, [ArtifactNext]_artifactVars, NEW d \in Downloaders,
         row.state = "ready", serving[d].slot \in files, serving[d].left >= 0
  PROVE  \/ row'.state = "ready" /\ serving[d].slot \in files'
         \/ damage' # damage
         \/ ~(row.keys \subseteq files)
<1>0. serving[d].slot # "none"
  BY Names DEF ArtifactIInv, ArtifactTypeOK
<1>1. row.claim.by = d /\ row.claim.left >= 0 /\ row.claim.left \in Int
  BY <1>0, Bounds DEF ArtifactIInv, ArtifactTypeOK, ClaimInv, Left
<1>2. ASSUME NEW slot, NEW age, Offered(slot, age), slot \notin files
      PROVE  ~(row.keys \subseteq files)
  BY <1>2 DEF Offered
<1>3. CASE \E o \in Downloaders : DownloaderNext(o)
  <2>1. PICK o \in Downloaders : DownloaderNext(o)
    BY <1>3
  <2>2. CASE ClaimDownload(o)
    BY <2>2, <1>2 DEF ClaimDownload, ArtifactIInv, ArtifactTypeOK
  <2>3. CASE CompleteDownload(o)
    BY <2>3 DEF CompleteDownload, ArtifactIInv, ArtifactTypeOK
  <2> QED
    BY <2>1, <2>2, <2>3 DEF DownloaderNext, AskClaim, AskComplete, Begin, DownloaderDies
<1>4. CASE \E p \in Pinners : PinnerNext(p)
  <2>1. PICK p \in Pinners : PinnerNext(p)
    BY <1>4
  <2>2. CASE PinPublication(p)
    BY <2>2, <1>2 DEF PinPublication
  <2>3. CASE ReadPinned(p)
    BY <2>3, <1>2 DEF ReadPinned
  <2> QED
    BY <2>1, <2>2, <2>3 DEF PinnerNext, AskPin, AskWithPin, Begin, RenewPin, ReleasePin, PinnerDies
\* Cleanup takes a run without a live claim only, tested under the row lock.
<1>5. CASE CleanupExpires
  <2>1. ~Expirable(picked)
    BY <1>1, <1>5, Names, Bounds
       DEF Expirable, ClaimAvailable, Current, CleanupExpires, ArtifactIInv, ArtifactTypeOK
  <2> QED
    BY <1>5, <2>1 DEF CleanupExpires
<1>6. CASE \E slot \in Slots : LoseFile(slot)
  BY <1>6 DEF LoseFile, ArtifactIInv, ArtifactTypeOK
<1>7. CASE Tick
  BY <1>7 DEF Tick, ArtifactIInv, ArtifactTypeOK
<1>8. CASE UNCHANGED artifactVars
  BY <1>8 DEF artifactVars
<1> QED
  BY <1>3, <1>4, <1>5, <1>6, <1>7, <1>8
     DEF ArtifactNext, PurgePins, CleanupPicks, SweepDirectory

\* Expiry, corruption found elsewhere in an intact run, the sweep and other
\* requests leave a claimed download its run and its file.
THEOREM DownloadsAreSafe == ArtifactSpec => DownloadsOutliveExpiry
<1>1. ArtifactIInv /\ [ArtifactNext]_artifactVars =>
        [\A d \in Downloaders :
            /\ row.state = "ready"
            /\ serving[d].slot \in files
            /\ serving[d].left >= 0
            => \/ row'.state = "ready" /\ serving[d].slot \in files'
               \/ damage' # damage
               \/ ~(row.keys \subseteq files)]_artifactVars
  BY OutliveStep
<1> QED
  BY ArtifactsInductive, <1>1, PTL DEF ArtifactSpec, DownloadsOutliveExpiry

LEMMA PinOwnerStep ==
  ASSUME ArtifactIInv, [ArtifactNext]_artifactVars, pin.by # NoOne, pin.left >= 0, pin'.by # pin.by
  PROVE  \/ pin'.by # NoOne /\ OwnerOf[pin'.by] = OwnerOf[pin.by]
         \/ pinned[pin.by] # "none" /\ pinned'[pin.by] = "none"
<1>0. pin.by \in Pinners /\ pin.left \in Int
  BY Bounds DEF ArtifactIInv, ArtifactTypeOK, Left
<1>1. CASE \E p \in Pinners : PinnerNext(p)
  <2>1. PICK p \in Pinners : PinnerNext(p)
    BY <1>1
  <2>2. CASE PinPublication(p)
    <3>1. txn[p].age \in Nat
      BY Bounds DEF ArtifactIInv, ArtifactTypeOK, Procs
    <3>2. PinAfterPurge(txn[p].age) = pin
      BY <1>0, <3>1 DEF PinAfterPurge, Current
    <3>3. SetPin(p, txn[p].slot, txn[p].age) /\ OwnerOf[pin.by] = OwnerOf[p]
      BY <2>2, <3>2 DEF PinPublication
    <3> QED
      BY <3>3, Names DEF SetPin
  <2>3. CASE RenewPin(p)
    BY <2>3 DEF RenewPin, OwnsPin, SetPin
  <2>4. CASE ReleasePin(p)
    BY <2>4 DEF ReleasePin, OwnsPin, LetGo, ArtifactIInv, ArtifactTypeOK
  <2> QED
    BY <2>1, <2>2, <2>3, <2>4
       DEF PinnerNext, AskPin, AskWithPin, Begin, ReadPinned, PinnerDies
<1>2. CASE \E d \in Downloaders : DownloaderNext(d)
  BY <1>2 DEF DownloaderNext, AskClaim, AskComplete, Begin, ClaimDownload,
              CompleteDownload, DownloaderDies
<1>3. CASE PurgePins
  BY <1>0, <1>3 DEF PurgePins, Current
<1>4. CASE Tick
  BY <1>4 DEF Tick, ArtifactIInv, ArtifactTypeOK
<1>5. CASE UNCHANGED artifactVars
  BY <1>5 DEF artifactVars
<1> QED
  BY <1>1, <1>2, <1>3, <1>4, <1>5
     DEF ArtifactNext, CleanupPicks, CleanupExpires, SweepDirectory, LoseFile

\* A live pin passes to its own owner only, or is given back by its holder.
THEOREM PinsAreFenced == ArtifactSpec => LivePinEndsWithItsOwner
<1>1. ArtifactIInv /\ [ArtifactNext]_artifactVars =>
        [/\ pin.by # NoOne /\ pin.left >= 0
         /\ pin'.by # pin.by
         => \/ pin'.by # NoOne /\ OwnerOf[pin'.by] = OwnerOf[pin.by]
            \/ pinned[pin.by] # "none" /\ pinned'[pin.by] = "none"]_artifactVars
  BY PinOwnerStep
<1> QED
  BY ArtifactsInductive, <1>1, PTL DEF ArtifactSpec, LivePinEndsWithItsOwner

=============================================================================
