----------------------------- MODULE FeedPublisher -----------------------------
(***************************************************************************)
(* One public channel: its row, its attempts, the manifest object that the *)
(* public reads, the payload objects, the publishers (one per node) that   *)
(* deliver attempts, and the collection of retired payloads.               *)
(*                                                                         *)
(* The store is a register with compare-and-set: an attempt replaces only  *)
(* the manifest it names as its predecessor.  Every attempt has bytes and  *)
(* an ETag of its own, so a manifest is named by the sequence number of    *)
(* its attempt; 0 is no manifest, Foreign one that another owner wrote.    *)
(* Answers can be lost, and a request can arrive after its timeout.        *)
(*                                                                         *)
(* Static channels get their attempts from editors, the alerts channel     *)
(* composes one whenever the last is resolved.                             *)
(***************************************************************************)
EXTENDS Integers, FiniteSets

CONSTANTS Kind,         \* "static" or "alerts"
          Workers,      \* publishers of different nodes
          NoWorker,     \* "no lease token"
          MaxSeq,       \* bound on sequence numbers
          MaxRefresh,   \* bound on those that refresh unchanged alerts
          MaxRevision,  \* bound on desired_revision
          MaxFaults,    \* bound on requests that fail and leases that run out
          MaxCrashes,   \* bound on publishers that die
          MaxOutside,   \* bound on manifests written or removed by others
          Collects,     \* whether retired payloads are collected
          AlertsChannels,   \* how many alerts channels there are
          RealtimeCapacity  \* how many of them a scan serves

ASSUME PublisherAssumption ==
    /\ Kind \in {"static", "alerts"}
    /\ NoWorker \notin Workers
    /\ {MaxSeq, MaxRefresh, MaxRevision, MaxFaults, MaxCrashes, MaxOutside} \subseteq Nat
    /\ {AlertsChannels, RealtimeCapacity} \subseteq Nat
    /\ Collects \in BOOLEAN

VARIABLES
    chan,      \* the channel row: desired revision, next sequence, active attempt, receipt
    att,       \* the attempt rows
    served,    \* the manifest object
    ever,      \* the attempts whose manifest was ever served (history)
    objects,   \* the attempts whose payload objects are stored
    late,      \* requests that timed out and may still arrive
    proc,      \* what each publisher is doing
    sweep,     \* the collection pass
    spent      \* faults, crashes and outside writes so far

vars == <<chan, att, served, ever, objects, late, proc, sweep, spent>>

-----------------------------------------------------------------------------
Seqs       == 1..MaxSeq
Foreign    == -1
Manifests  == -1..MaxSeq
Unresolved == {"pending", "switching"}
States     == {"absent", "current", "superseded", "blocked", "pruned"} \cup Unresolved

NoAttempt == [state |-> "absent", rev |-> 0, content |-> 0, pred |-> 0,
              token |-> NoWorker, live |-> FALSE, aged |-> FALSE]

Idle == [at |-> "idle", att |-> 0, why |-> "retry", seen |-> 0, snap |-> 0,
         prev |-> 0, draft |-> 0]

Points == {"idle", "compose", "adopt", "queue", "load", "claim", "stage", "put",
           "read", "complete", "serve", "supersede", "retire", "block",
           "refuse", "pend", "forget"}

NoSweep == [at |-> "idle", keep |-> {}, victims |-> {}]

TypeOK ==
    /\ chan \in [desired : 0..MaxRevision, next : 1..(MaxSeq + 1),
                 active : 0..MaxSeq, receipt : Manifests]
    /\ att \in [Seqs -> [state : States, rev : 0..MaxRevision,
                         content : 0..MaxRevision, pred : Manifests,
                         token : Workers \cup {NoWorker},
                         live : BOOLEAN, aged : BOOLEAN]]
    /\ \A s \in Seqs :
          /\ att[s].live => att[s].token # NoWorker
          /\ att[s].token # NoWorker => att[s].state = "switching"
    /\ served \in Manifests
    /\ ever \in SUBSET Seqs
    /\ objects \in SUBSET Seqs
    /\ late \in SUBSET [what : {"payload", "manifest"}, of : Seqs]
    /\ proc \in [Workers -> [at : Points, att : 0..MaxSeq,
                             why : {"retry", "uncertain", "stale"},
                             seen : Manifests, snap : Manifests,
                             prev : 0..MaxSeq, draft : 0..MaxRevision]]
    /\ sweep \in [at : {"idle", "confirmed", "listed"},
                  keep : SUBSET Manifests, victims : SUBSET Seqs]
    /\ spent \in [faults : 0..MaxFaults, crashes : 0..MaxCrashes,
                  outside : 0..MaxOutside]

Init ==
    /\ chan = [desired |-> 0, next |-> 1, active |-> 0, receipt |-> 0]
    /\ att = [s \in Seqs |-> NoAttempt]
    /\ served = 0
    /\ ever = {}
    /\ objects = {}
    /\ late = {}
    /\ proc = [w \in Workers |-> Idle]
    /\ sweep = NoSweep
    /\ spent = [faults |-> 0, crashes |-> 0, outside |-> 0]

-----------------------------------------------------------------------------
(* Helpers.                                                                *)

Fault == spent.faults < MaxFaults /\ spent' = [spent EXCEPT !.faults = @ + 1]

GoesOn(w, point) == proc' = [proc EXCEPT ![w].at = point]
Stops(w)         == proc' = [proc EXCEPT ![w] = Idle]

rows   == <<chan, att>>
bucket == <<served, ever, objects, late>>

\* The active attempt still has to be delivered.
Open == chan.active # 0 /\ att[chan.active].state \in Unresolved

\* The attempt is left by its publisher.
Released(s, state) ==
    att' = [att EXCEPT ![s].state = state, ![s].token = NoWorker, ![s].live = FALSE]

HoldsAnyLease(w) == att[proc[w].att].token # NoWorker

\* The update is restricted to the row that carries the worker's token.
Holds(w) == att[proc[w].att].token = w

\* insert_attempt/8 and insert_refresh_attempt/3
Insert(rev, content) ==
    /\ chan' = [chan EXCEPT !.desired = rev, !.next = @ + 1, !.active = chan.next]
    /\ att' = [att EXCEPT ![chan.next] =
                 [NoAttempt EXCEPT !.state = "pending", !.rev = rev,
                                   !.content = content, !.pred = chan.receipt]]

-----------------------------------------------------------------------------
(* Accepted intents.                                                       *)

\* publish_static/4 queues an attempt in place of the active one.
PublishStatic ==
    /\ Kind = "static"
    /\ chan.next <= MaxSeq /\ chan.desired < MaxRevision
    /\ Insert(chan.desired + 1, chan.desired + 1)
    /\ UNCHANGED <<bucket, proc, sweep, spent>>

\* save_review/5 accepts new alerts: mark_channel_dirty!/1
MarkDirty ==
    /\ Kind = "alerts"
    /\ chan.desired < MaxRevision
    /\ chan' = [chan EXCEPT !.desired = @ + 1]
    /\ UNCHANGED <<att, bucket, proc, sweep, spent>>

-----------------------------------------------------------------------------
(* A publisher: the scan, and composing the alerts feed.                   *)

\* run_cycle/2: an open attempt is delivered, else alerts are composed.
Scan(w) ==
    /\ proc[w].at = "idle"
    /\ \/ Open /\ GoesOn(w, "load")
       \/ /\ ~Open /\ Kind = "alerts"
          /\ proc' = [proc EXCEPT ![w].at = "compose", ![w].snap = chan.receipt]
    /\ UNCHANGED <<rows, bucket, sweep, spent>>

\* reconcile/3 reads the manifest that is served, or gives up.
ReadToCompose(w) ==
    /\ proc[w].at = "compose"
    /\ \/ /\ proc' = [proc EXCEPT ![w].at = "adopt", ![w].seen = served]
          /\ UNCHANGED spent
       \/ Stops(w) /\ Fault
    /\ UNCHANGED <<rows, bucket, sweep>>

AdoptNothing(w) ==
    /\ proc[w].at = "adopt"
    /\ proc' = [proc EXCEPT ![w] = [Idle EXCEPT !.at = "queue", !.draft = chan.desired]]
    /\ UNCHANGED <<rows, bucket, sweep, spent>>

\* clear_receipt/1 and adopt_receipt/4, then compose_alerts/3
Adopt(w) ==
    /\ proc[w].at = "adopt"
    /\ LET known == proc[w].seen = proc[w].snap IN
         chan' = IF known THEN chan ELSE [chan EXCEPT !.receipt = proc[w].seen]
    /\ proc' = [proc EXCEPT ![w] = [Idle EXCEPT !.at = "queue", !.draft = chan.desired]]
    /\ UNCHANGED <<att, bucket, sweep, spent>>

\* A refresh of what is already current spends a sequence number too.
Room(content) ==
    \/ chan.next <= MaxRefresh
    \/ /\ chan.next <= MaxSeq
       /\ ~(chan.active # 0 /\ att[chan.active].state = "current"
            /\ att[chan.active].content = content /\ served = chan.active)

\* queue_locked/3
Queue(w) ==
    /\ proc[w].at = "queue"
    /\ \/ /\ ~Open /\ Room(proc[w].draft) /\ chan.next <= MaxSeq
          /\ Insert(chan.desired, proc[w].draft)
          /\ proc' = [proc EXCEPT ![w] = [Idle EXCEPT !.at = "load", !.prev = chan.active]]
       \/ /\ Open \/ ~Room(proc[w].draft)
          /\ Stops(w)
          /\ UNCHANGED rows
    /\ UNCHANGED <<bucket, sweep, spent>>

-----------------------------------------------------------------------------
(* A publisher: advance/3.                                                 *)

\* FeedPublishing.advance/1 reads the active attempt again.
Load(w) ==
    /\ proc[w].at = "load"
    /\ \/ /\ chan.active # 0
          /\ proc' = [proc EXCEPT ![w].at = "claim", ![w].att = chan.active]
       \/ chan.active = 0 /\ Stops(w)
    /\ UNCHANGED <<rows, bucket, sweep, spent>>

\* What follows the answer {:ok, :current}: compose_and_install/3 retires the
\* attempt that was active before its own.
AfterCurrent(w) ==
    proc' = [proc EXCEPT ![w] = IF proc[w].prev = 0 THEN Idle
                                ELSE [Idle EXCEPT !.at = "forget", !.prev = proc[w].prev]]

\* claim_locked/2
Claim(w) ==
    /\ proc[w].at = "claim"
    /\ LET s     == proc[w].att
           a     == att[s]
           stale == a.rev # chan.desired IN
         \/ /\ a.state \in {"blocked", "superseded", "pruned"}
            /\ Stops(w)
            /\ UNCHANGED att
         \/ /\ a.state = "current" /\ ~stale
            /\ AfterCurrent(w)
            /\ UNCHANGED att
         \/ /\ a.state \in {"pending", "current"} /\ stale
            /\ GoesOn(w, "retire")
            /\ UNCHANGED att
         \/ /\ a.state = "switching" /\ stale
            /\ proc' = [proc EXCEPT ![w].at = "read", ![w].why = "stale"]
            /\ UNCHANGED att
         \/ /\ a.state \in Unresolved /\ ~stale /\ a.live
            /\ Stops(w)
            /\ UNCHANGED att
         \/ /\ a.state \in Unresolved /\ ~stale /\ ~a.live
            /\ att' = [att EXCEPT ![s].token = w, ![s].live = TRUE, ![s].state = "switching"]
            /\ proc' = [proc EXCEPT ![w].why = "retry",
                          ![w].at = IF a.state = "switching" THEN "read" ELSE "stage"]
    /\ UNCHANGED <<chan, bucket, sweep, spent>>

\* stage_payloads/2: stored, refused, or no answer.  The file of a static
\* attempt may be gone at any time, other refusals are faults of the store.
Stage(w) ==
    /\ proc[w].at = "stage"
    /\ LET s == proc[w].att IN
         \/ /\ objects' = objects \cup {s}
            /\ GoesOn(w, "put")
            /\ UNCHANGED <<late, spent>>
         \/ /\ (Kind = "static" /\ UNCHANGED spent) \/ Fault
            /\ GoesOn(w, "refuse")
            /\ UNCHANGED <<objects, late>>
         \/ /\ Fault
            /\ \/ objects' = objects \cup {s} /\ UNCHANGED late
               \/ late' = late \cup {[what |-> "payload", of |-> s]} /\ UNCHANGED objects
            /\ GoesOn(w, "pend")
    /\ UNCHANGED <<rows, served, ever, sweep>>

AlwaysAccepts(s) == TRUE

\* The store's conditional PUT: If-Match, or If-None-Match: * for the first.
Accepts(s) == served = att[s].pred

Installs(s) == served' = s /\ ever' = ever \cup {s}

\* switch_manifest/2: answered, or no answer (a timeout is read back, another
\* failure of the transport is left to the next tick).
PutManifest(w) ==
    /\ proc[w].at = "put"
    /\ LET s == proc[w].att
           goes == [proc EXCEPT ![w].at = "read", ![w].why = "uncertain"] IN
         \/ /\ Accepts(s) /\ Installs(s)
            /\ GoesOn(w, "complete")
            /\ UNCHANGED <<late, spent>>
         \/ /\ ~Accepts(s)
            /\ proc' = goes
            /\ UNCHANGED <<served, ever, late, spent>>
         \/ /\ Fault
            /\ \/ Accepts(s) /\ Installs(s) /\ UNCHANGED late
               \/ /\ late' = late \cup {[what |-> "manifest", of |-> s]}
                  /\ UNCHANGED <<served, ever>>
            /\ proc' = goes \/ GoesOn(w, "pend")
    /\ UNCHANGED <<rows, objects, sweep>>

VerdictByEtag(s, seen) ==
    IF seen \in {s, att[s].pred} THEN "current"
    ELSE IF seen > s THEN "superseded"
    ELSE "blocked"

\* reconcile/2: what the manifest that was read says about the attempt.
Verdict(s, seen) ==
    IF seen = s THEN "current"
    ELSE IF seen = att[s].pred THEN "install"
    ELSE IF seen > s THEN "superseded"
    ELSE "blocked"

\* run/3, after_uncertain/2 and stale/2
AfterRead ==
    [retry |-> [install |-> "stage", current |-> "complete",
                superseded |-> "supersede", blocked |-> "block"],
     uncertain |-> [install |-> "pend", current |-> "complete",
                    superseded |-> "supersede", blocked |-> "block"],
     stale |-> [install |-> "retire", current |-> "serve",
                superseded |-> "retire", blocked |-> "retire"]]

Unread(why) == IF why = "stale" THEN "retire" ELSE "pend"

ReadBack(w) ==
    /\ proc[w].at = "read"
    /\ LET why == proc[w].why IN
         \/ /\ proc' = [proc EXCEPT ![w].seen = served,
                          ![w].at = AfterRead[why][Verdict(proc[w].att, served)]]
            /\ UNCHANGED spent
         \/ GoesOn(w, Unread(why)) /\ Fault
    /\ UNCHANGED <<rows, bucket, sweep>>

-----------------------------------------------------------------------------
(* A publisher: the transactions that end an attempt.                      *)

\* finish/4: the receipt is kept, and acknowledges only what is still desired.
Finish(w) ==
    LET s == proc[w].att IN
      \/ /\ att[s].rev = chan.desired
         /\ chan' = [chan EXCEPT !.receipt = s, !.active = s]
         /\ Released(s, "current")
         /\ AfterCurrent(w)
      \/ /\ att[s].rev # chan.desired
         /\ chan' = [chan EXCEPT !.receipt = s, !.active = 0]
         /\ Released(s, "superseded")
         /\ Stops(w)

\* complete_locked/4
Complete(w) ==
    /\ proc[w].at = "complete"
    /\ \/ Holds(w) /\ Finish(w)
       \/ ~Holds(w) /\ Stops(w) /\ UNCHANGED rows
    /\ UNCHANGED <<bucket, sweep, spent>>

ClearActive(s) == chan' = IF chan.active = s THEN [chan EXCEPT !.active = 0] ELSE chan

\* supersede/2 with the token of the worker
Supersede(w) ==
    /\ proc[w].at = "supersede"
    /\ LET s == proc[w].att IN
         \/ Holds(w) /\ Released(s, "superseded") /\ ClearActive(s)
         \/ ~Holds(w) /\ UNCHANGED rows
    /\ Stops(w)
    /\ UNCHANGED <<bucket, sweep, spent>>

\* supersede/2 without one: whatever the row is by now.
RetireStale(w) ==
    /\ proc[w].at = "retire"
    /\ LET s == proc[w].att IN
         /\ IF att[s].state = "pruned" THEN UNCHANGED att ELSE Released(s, "superseded")
         /\ ClearActive(s)
    /\ Stops(w)
    /\ UNCHANGED <<bucket, sweep, spent>>

\* serve_then_supersede/3 tests no token either.
ServeThenSupersede(w) ==
    /\ proc[w].at = "serve"
    /\ LET s == proc[w].att IN
         /\ IF att[s].state = "pruned" THEN UNCHANGED att ELSE Released(s, "superseded")
         /\ chan' = [chan EXCEPT !.receipt = s, !.active = 0]
    /\ Stops(w)
    /\ UNCHANGED <<bucket, sweep, spent>>

\* block/2 and mark_pending/2
BlockOrPend(w) ==
    /\ \/ proc[w].at \in {"block", "refuse"} /\ Holds(w) /\ Released(proc[w].att, "blocked")
       \/ proc[w].at = "pend" /\ Holds(w) /\ Released(proc[w].att, "switching")
       \/ proc[w].at \in {"block", "refuse", "pend"} /\ ~Holds(w) /\ UNCHANGED att
    /\ Stops(w)
    /\ UNCHANGED <<chan, bucket, sweep, spent>>

\* retire/1
Forget(w) ==
    /\ proc[w].at = "forget"
    /\ LET s == proc[w].prev IN
         \/ att[s].state = "current" /\ Released(s, "superseded")
         \/ att[s].state # "current" /\ UNCHANGED att
    /\ Stops(w)
    /\ UNCHANGED <<chan, bucket, sweep, spent>>

-----------------------------------------------------------------------------
(* What happens to publishers and requests from outside.                   *)

\* A lease that nobody works under runs out; that of a slow publisher may.
LeaseEnds(s) ==
    /\ att[s].live
    /\ \/ Fault
       \/ /\ \A w \in Workers : ~(att[s].token = w /\ proc[w].att = s)
          /\ UNCHANGED spent
    /\ att' = [att EXCEPT ![s].live = FALSE]
    /\ UNCHANGED <<chan, bucket, proc, sweep>>

Crash(w) ==
    /\ proc[w] # Idle
    /\ spent.crashes < MaxCrashes
    /\ spent' = [spent EXCEPT !.crashes = @ + 1]
    /\ Stops(w)
    /\ UNCHANGED <<rows, bucket, sweep>>

\* A request that timed out arrives, or is lost for good.
LateRequest(r) ==
    /\ r \in late
    /\ late' = late \ {r}
    /\ \/ /\ r.what = "payload"
          /\ objects' = objects \cup {r.of}
          /\ UNCHANGED <<served, ever>>
       \/ /\ r.what = "manifest" /\ Accepts(r.of) /\ Installs(r.of)
          /\ UNCHANGED objects
       \/ UNCHANGED <<served, ever, objects>>
    /\ UNCHANGED <<rows, proc, sweep, spent>>

\* Another owner writes or removes the manifest.
Outside ==
    /\ spent.outside < MaxOutside
    /\ spent' = [spent EXCEPT !.outside = @ + 1]
    /\ served' \in {0, Foreign} \ {served}
    /\ UNCHANGED <<rows, ever, objects, late, proc, sweep>>

-----------------------------------------------------------------------------
(* Collection of retired payloads.                                         *)

\* A day has passed since the attempt was retired, and no request for its
\* manifest and no publisher is that old.  A pass compares with the time at
\* which its tick began: what ages during the pass is left to the next.
GracePasses(s) ==
    /\ Collects /\ sweep.at = "idle"
    /\ att[s].state = "superseded" /\ ~att[s].aged
    /\ [what |-> "manifest", of |-> s] \notin late
    /\ \A w \in Workers : proc[w].att # s
    /\ att' = [att EXCEPT ![s].aged = TRUE]
    /\ UNCHANGED <<chan, bucket, proc, sweep, spent>>

\* collect_publication/4 goes on only with a manifest it has read.
CollectConfirm ==
    /\ Collects /\ sweep.at = "idle"
    /\ served # 0
    /\ sweep' = [at |-> "confirmed", keep |-> {served}, victims |-> {}]
    /\ UNCHANGED <<rows, bucket, proc, spent>>

RetiredAnytime == {s \in Seqs : att[s].state = "superseded"}

\* The attempts whose retirement is older than the grace.
Retired == {s \in Seqs : att[s].state = "superseded" /\ att[s].aged}

\* protected_keys/2 and the query of collect_retired_attempts/5
CollectList ==
    /\ sweep.at = "confirmed"
    /\ LET keep == sweep.keep \cup {s \in Seqs : att[s].state \in Unresolved} IN
         sweep' = [at |-> "listed", keep |-> keep, victims |-> Retired \ keep]
    /\ UNCHANGED <<rows, bucket, proc, spent>>

\* delete_retired_attempt/5: the objects, then the row; or it stops between.
CollectRetired(s) ==
    /\ s \in sweep.victims
    /\ objects' = objects \ {s}
    /\ \/ /\ att' = IF att[s].state = "superseded"
                      THEN [att EXCEPT ![s].state = "pruned"] ELSE att
          /\ sweep' = [sweep EXCEPT !.victims = @ \ {s}]
          /\ UNCHANGED spent
       \/ Fault /\ sweep' = NoSweep /\ UNCHANGED att
    /\ UNCHANGED <<chan, served, ever, late, proc>>

\* retired_through_sequence covers the sequence: advance_watermark/1
Covered(s) == \A t \in 1..s : att[t].state = "pruned"

\* collect_orphans/6
CollectOrphan(s) ==
    /\ sweep.at = "listed" /\ sweep.victims = {}
    /\ s \in objects \ sweep.keep
    /\ Covered(s)
    /\ objects' = objects \ {s}
    /\ UNCHANGED <<rows, served, ever, late, proc, sweep, spent>>

CollectEnd ==
    /\ sweep.at = "listed" /\ sweep.victims = {}
    /\ sweep' = NoSweep
    /\ UNCHANGED <<rows, bucket, proc, spent>>

-----------------------------------------------------------------------------
Deliver(w) ==
    \/ Scan(w) \/ ReadToCompose(w) \/ Adopt(w) \/ Queue(w) \/ Load(w) \/ Claim(w)
    \/ Stage(w) \/ PutManifest(w) \/ ReadBack(w)
    \/ Complete(w) \/ Supersede(w) \/ RetireStale(w) \/ ServeThenSupersede(w)
    \/ BlockOrPend(w) \/ Forget(w)

Collect ==
    \/ CollectConfirm \/ CollectList \/ CollectEnd
    \/ \E s \in Seqs : CollectRetired(s) \/ CollectOrphan(s)

Next ==
    \/ PublishStatic \/ MarkDirty
    \/ \E w \in Workers : Deliver(w) \/ Crash(w)
    \/ \E s \in Seqs : LeaseEnds(s) \/ GracePasses(s)
    \/ \E r \in late : LateRequest(r)
    \/ Outside
    \/ Collect

Spec == Init /\ [][Next]_vars

(***************************************************************************)
(* A publisher that is alive takes its next step.  Its scan is not bound   *)
(* to reach this channel: it serves the first RealtimeCapacity alerts      *)
(* channels of a list in no particular order, so only when there are no    *)
(* more of them does every tick take this one.  The lease of a publisher   *)
(* that died runs out.  Faults, crashes and outside writes are finitely    *)
(* many.                                                                   *)
(***************************************************************************)
EveryScanServes == Kind = "alerts" /\ AlertsChannels <= RealtimeCapacity

Fairness ==
    /\ \A w \in Workers :
         /\ WF_vars(proc[w].at # "idle" /\ Deliver(w))
         /\ EveryScanServes => WF_vars(Scan(w))
    /\ \A s \in Seqs : WF_vars(LeaseEnds(s))

FairSpec == Spec /\ Fairness

-----------------------------------------------------------------------------
(* Properties.                                                             *)

\* While no other owner interferes, the public never goes back to an
\* earlier generation, whichever publishers overlap and whatever arrives late.
ServedNeverGoesBack ==
    [][{served, served'} \subseteq Seqs => served' >= served]_vars

\* Only a manifest that was really served is recorded as the channel's
\* receipt or makes its attempt current.
ReceiptsWereServed ==
    /\ chan.receipt \in Seqs => chan.receipt \in ever
    /\ \A s \in Seqs : att[s].state = "current" => s \in ever

\* An attempt under the token of a publisher is decided by that publisher,
\* whoever else still works on it: another one takes it over only once the
\* lease has ended, or retires it because a newer intent was accepted.
OnlyTheHolderDecides ==
    [][\A s \in Seqs, w \in Workers :
          att[s].token = w /\ proc'[w] = proc[w] /\ att'[s] # att[s] =>
              \/ att'[s] = [att[s] EXCEPT !.live = FALSE]
              \/ ~att[s].live /\ att'[s].token \in Workers
              \/ att'[s].state = "superseded" /\ att[s].rev < chan.desired]_vars

\* An attempt that was superseded is out of the channel for good: it is never
\* leased, active or current again, whatever the publishers that loaded it
\* before still do.  One of them may still install its manifest or record its
\* receipt; that this takes nothing back is ServedNeverGoesBack.
RetiredStaysRetired ==
    [][\A s \in Seqs :
          att[s].state \in {"superseded", "pruned"} =>
              /\ att'[s].state \in {"superseded", "pruned"}
              /\ att'[s].token = NoWorker
              /\ chan'.active # s]_vars

\* Whatever is collected, the payloads of the manifest that is served are
\* there, a manifest that arrived late included.
ServedIsComplete == served \in Seqs => served \in objects

\* While the scan has room for every alerts channel, what an editor accepts
\* for the alerts feed is served in the end, whatever answer is lost and
\* whichever publishers compose at once.
AcceptedAlertsAreServed ==
    EveryScanServes =>
        \A r \in 1..MaxRevision :
            chan.desired >= r ~> (served \in Seqs /\ att[served].content >= r)

\* What the documentation of publish_static/4 says, and the code does not
\* keep: the publisher owns what was queued until it is resolved.
NewestIntentStaysActive ==
    \A s \in Seqs :
        s = chan.next - 1 /\ att[s].state \in Unresolved => chan.active = s

=============================================================================
