-------------------------- MODULE FeedPublisherProofs --------------------------
(***************************************************************************)
(* Theorems about FeedPublisher, for every instance.                       *)
(*                                                                         *)
(* The inductive invariant has one part per piece of state: the rows, the  *)
(* bucket, the publishers and the collection pass.  A step changes few of  *)
(* them, and the lemmas below say when each part outlives a change of the  *)
(* others.                                                                 *)
(***************************************************************************)
EXTENDS FeedPublisher, TLAPS

ChanType == [desired : 0..MaxRevision, next : 1..(MaxSeq + 1),
             active : 0..MaxSeq, receipt : Manifests]

AttType == [state : States, rev : 0..MaxRevision, content : 0..MaxRevision,
            pred : Manifests, token : Workers \cup {NoWorker},
            live : BOOLEAN, aged : BOOLEAN]

ProcType == [at : Points, att : 0..MaxSeq, why : {"retry", "uncertain", "stale"},
             seen : Manifests, snap : Manifests, prev : 0..MaxSeq,
             draft : 0..MaxRevision]

LateType == [what : {"payload", "manifest"}, of : Seqs]

Closed == {"superseded", "pruned"}

\* A lease belongs to an attempt that is being switched.
LeaseInv ==
    \A s \in Seqs :
        /\ att[s].live => att[s].token # NoWorker
        /\ att[s].token # NoWorker => att[s].state = "switching"

\* An attempt names an earlier predecessor, and ages only when it is closed.
AttInv ==
    \A s \in Seqs :
        /\ att[s].pred < s
        /\ s >= chan.next => att[s] = NoAttempt
        /\ att[s].aged => att[s].state \in Closed
        /\ att[s].state = "pruned" => att[s].aged

RowInv ==
    /\ chan \in ChanType /\ att \in [Seqs -> AttType]
    /\ chan.receipt < chan.next /\ chan.active < chan.next
    /\ LeaseInv /\ AttInv

\* What is served, and what may still be, has its payload and is not aged.
BucketInv ==
    /\ served \in Manifests /\ ever \in SUBSET Seqs
    /\ objects \in SUBSET Seqs /\ late \in SUBSET LateType
    /\ served < chan.next
    /\ served \in Seqs => served \in ever /\ served \in objects
    /\ \A r \in late :
         /\ r.of < chan.next
         /\ r.what = "manifest" => r.of \in objects /\ ~att[r.of].aged

\* The points at which a publisher works on an attempt.
Delivering == Points \ {"idle", "compose", "adopt", "queue", "load", "forget"}

WorkerOK(e) ==
    /\ e \in ProcType
    /\ e.at \in Delivering => e.att # 0
    /\ e.at = "forget" => e.prev # 0
    /\ e.att < chan.next /\ e.seen < chan.next
    /\ e.seen \in Seqs => e.seen \in ever
    /\ e.at \in {"complete", "serve"} => e.att \in ever
    /\ e.at = "put" => e.att \in objects
    /\ e.at \in Delivering \ {"claim"} => ~att[e.att].aged

WorkerInv ==
    /\ proc = [w \in Workers |-> proc[w]]
    /\ \A w \in Workers : WorkerOK(proc[w])

\* A pass deletes aged attempts only, and has seen which of them is served.
SweepInv ==
    /\ sweep \in [at : {"idle", "confirmed", "listed"},
                  keep : SUBSET Manifests, victims : SUBSET Seqs]
    /\ \A s \in sweep.victims : att[s].aged /\ s \notin sweep.keep
    /\ sweep.at = "idle" => sweep.victims = {}
    /\ \A s \in Seqs : sweep.at # "idle" /\ att[s].aged /\ served = s => s \in sweep.keep

SpentInv == spent \in [faults : 0..MaxFaults, crashes : 0..MaxCrashes, outside : 0..MaxOutside]

IInv == RowInv /\ BucketInv /\ WorkerInv /\ SweepInv /\ SpentInv /\ ReceiptsWereServed

USE PublisherAssumption

-------------------------------------------------------------------------------
(* Changes of the rows.                                                    *)

LEMMA ReleasedFacts ==
  ASSUME RowInv, NEW s \in Seqs, NEW state \in States, Released(s, state)
  PROVE  /\ att' \in [Seqs -> AttType] /\ LeaseInv'
         /\ \A t \in Seqs : t # s => att'[t] = att[t]
         /\ att'[s].state = state
         /\ \A t \in Seqs : /\ att'[t].rev = att[t].rev /\ att'[t].pred = att[t].pred
                            /\ att'[t].aged = att[t].aged
  <1>1. att \in [Seqs -> AttType] /\ LeaseInv
    BY DEF RowInv
  <1>2. att' \in [Seqs -> AttType]
    <2> DEFINE a == [att[s] EXCEPT !.state = state, !.token = NoWorker, !.live = FALSE]
    <2>1. a \in AttType
      BY <1>1 DEF AttType
    <2>2. att' = [att EXCEPT ![s] = a]
      BY DEF Released
    <2> HIDE DEF a
    <2> QED
      BY <1>1, <2>1, <2>2
  <1>3. \A t \in Seqs : t # s => att'[t] = att[t]
    BY <1>1 DEF Released
  <1>4. /\ att'[s].state = state /\ att'[s].token = NoWorker /\ att'[s].live = FALSE
        /\ att'[s].rev = att[s].rev /\ att'[s].pred = att[s].pred
        /\ att'[s].aged = att[s].aged
    BY <1>1 DEF Released, AttType
  <1> QED
    BY <1>1, <1>2, <1>3, <1>4 DEF LeaseInv

LEMMA InsertFacts ==
  ASSUME RowInv, chan.next <= MaxSeq,
         NEW r \in 0..MaxRevision, NEW c \in 0..MaxRevision, Insert(r, c)
  PROVE  /\ chan.next \in Seqs
         /\ \A t \in Seqs : t # chan.next => att'[t] = att[t]
         /\ att'[chan.next].state = "pending"
         /\ \A t \in Seqs : att'[t].aged = att[t].aged
         /\ chan' \in ChanType /\ chan'.next = chan.next + 1
         /\ chan'.active = chan.next /\ chan'.receipt = chan.receipt
         /\ RowInv'
  <1>1. chan.next \in Seqs /\ chan \in ChanType
    BY DEF RowInv, ChanType, Seqs
  <1>a. chan' = [desired |-> r, next |-> chan.next + 1, active |-> chan.next,
                 receipt |-> chan.receipt]
    BY <1>1 DEF Insert, ChanType
  <1>2. /\ chan' \in ChanType /\ chan'.next = chan.next + 1
        /\ chan'.active = chan.next /\ chan'.receipt = chan.receipt
    BY <1>1, <1>a DEF ChanType, Seqs
  <1>3. /\ NoAttempt \in AttType
        /\ NoAttempt.token = NoWorker /\ NoAttempt.live = FALSE /\ NoAttempt.aged = FALSE
    BY DEF NoAttempt, AttType, States, Manifests
  <1>4. att \in [Seqs -> AttType] /\ LeaseInv /\ AttInv /\ chan.receipt \in Manifests
        /\ chan.receipt < chan.next
    BY DEF RowInv, ChanType
  <1>5. att' \in [Seqs -> AttType]
    BY <1>1, <1>3, <1>4 DEF Insert, AttType, States, Unresolved
  <1>6. \A t \in Seqs : t # chan.next => att'[t] = att[t]
    BY <1>1, <1>4 DEF Insert
  <1>7. /\ att'[chan.next].state = "pending" /\ att'[chan.next].pred = chan.receipt
        /\ att'[chan.next].aged = FALSE /\ att'[chan.next].token = NoWorker
        /\ att'[chan.next].live = FALSE
    BY <1>1, <1>3, <1>4 DEF Insert, AttType
  <1>8. att[chan.next].aged = FALSE
    BY <1>1, <1>3, <1>4 DEF AttInv, Seqs
  <1>9. LeaseInv'
    BY <1>4, <1>6, <1>7 DEF LeaseInv
  <1>10. AttInv'
    <2>1. chan.next \in Nat /\ chan'.next = chan.next + 1
      BY <1>1, <1>2 DEF Seqs
    <2>2. ASSUME NEW t \in Seqs, t # chan.next
          PROVE  /\ att'[t].pred < t
                 /\ t >= chan'.next => att'[t] = NoAttempt
                 /\ att'[t].aged => att'[t].state \in Closed
                 /\ att'[t].state = "pruned" => att'[t].aged
      BY <1>4, <1>6, <2>1, <2>2 DEF AttInv, Seqs
    <2>3. /\ att'[chan.next].pred < chan.next /\ ~(chan.next >= chan'.next)
          /\ ~att'[chan.next].aged /\ att'[chan.next].state # "pruned"
      BY <1>4, <1>7, <2>1
    <2>4. ASSUME NEW t \in Seqs
          PROVE  /\ att'[t].pred < t
                 /\ t >= chan'.next => att'[t] = NoAttempt
                 /\ att'[t].aged => att'[t].state \in Closed
                 /\ att'[t].state = "pruned" => att'[t].aged
      <3>1. CASE t = chan.next
        BY <2>3, <3>1
      <3>2. CASE t # chan.next
        BY <2>2, <3>2
      <3> QED
        BY <3>1, <3>2
    <2> QED
      BY <2>4 DEF AttInv
  <1>11. chan'.receipt < chan'.next /\ chan'.active < chan'.next
    <2>1. chan.next \in Nat /\ chan.receipt \in Int
      BY <1>1, <1>4 DEF Seqs, Manifests
    <2> QED
      BY <1>2, <1>4, <2>1
  <1>12. RowInv'
    BY <1>2, <1>5, <1>9, <1>10, <1>11 DEF RowInv
  <1>13. \A t \in Seqs : att'[t].aged = att[t].aged
    BY <1>6, <1>7, <1>8
  <1> QED
    BY <1>1, <1>2, <1>6, <1>7, <1>12, <1>13

\* What a step on the rows leaves to the other parts.
Rows(s) ==
    /\ RowInv'
    /\ chan'.next = chan.next
    /\ \A t \in Seqs : att'[t].aged = att[t].aged
    /\ \A t \in Seqs : t # s => att'[t] = att[t]

LEMMA ReleasedRows ==
  ASSUME RowInv, NEW s \in Seqs, NEW state \in States, Released(s, state),
         s < chan.next, state # "pruned",
         att[s].aged => state \in Closed, att[s].state # "pruned",
         chan' \in ChanType, chan'.next = chan.next,
         chan'.receipt < chan.next, chan'.active < chan.next
  PROVE  Rows(s)
  <1>1. /\ att' \in [Seqs -> AttType] /\ LeaseInv'
        /\ \A t \in Seqs : t # s => att'[t] = att[t]
        /\ att'[s].state = state
        /\ \A t \in Seqs : /\ att'[t].rev = att[t].rev /\ att'[t].pred = att[t].pred
                           /\ att'[t].aged = att[t].aged
    BY ReleasedFacts
  <1>2. AttInv'
    <2>1. ASSUME NEW t \in Seqs
          PROVE  /\ att'[t].pred < t
                 /\ t >= chan'.next => att'[t] = NoAttempt
                 /\ att'[t].aged => att'[t].state \in Closed
                 /\ att'[t].state = "pruned" => att'[t].aged
      <3>1. AttInv /\ chan.next \in Nat
        BY DEF RowInv, ChanType
      <3>2. att'[t].pred < t
        BY <1>1, <3>1 DEF AttInv
      <3>3. t >= chan'.next => att'[t] = NoAttempt
        BY <1>1, <3>1 DEF AttInv, Seqs
      <3>4. /\ att'[t].aged => att'[t].state \in Closed
            /\ att'[t].state = "pruned" => att'[t].aged
        BY <1>1, <3>1 DEF AttInv
      <3> QED
        BY <3>2, <3>3, <3>4
    <2> QED
      BY <2>1 DEF AttInv
  <1> QED
    BY <1>1, <1>2 DEF RowInv, Rows

-------------------------------------------------------------------------------
(* What each part needs of the others.                                     *)

LEMMA BucketStays ==
  ASSUME BucketInv, UNCHANGED bucket, chan \in ChanType, chan' \in ChanType,
         chan.next <= chan'.next,
         \A s \in Seqs : att'[s].aged = att[s].aged
  PROVE  BucketInv'
  BY DEF BucketInv, bucket, ChanType, LateType, Manifests, Seqs

LEMMA SweepStays ==
  ASSUME SweepInv, UNCHANGED sweep, UNCHANGED served,
         \A s \in Seqs : att'[s].aged = att[s].aged
  PROVE  SweepInv'
  BY DEF SweepInv

LEMMA WorkerStays ==
  ASSUME NEW e, WorkerOK(e), chan \in ChanType, chan' \in ChanType,
         chan.next <= chan'.next, ever \subseteq ever', objects \subseteq objects',
         \A s \in Seqs : att'[s].aged = att[s].aged
  PROVE  WorkerOK(e)'
  <1>1. e.at \in Delivering => e.att \in Seqs
    BY DEF WorkerOK, ProcType, Seqs
  <1> QED
    BY <1>1 DEF WorkerOK, ChanType, ProcType, Manifests

LEMMA WorkersStay ==
  ASSUME WorkerInv, UNCHANGED proc, chan \in ChanType, chan' \in ChanType,
         chan.next <= chan'.next, ever \subseteq ever', objects \subseteq objects',
         \A s \in Seqs : att'[s].aged = att[s].aged
  PROVE  WorkerInv'
  <1>1. ASSUME NEW w \in Workers PROVE WorkerOK(proc[w])'
    <2>1. WorkerOK(proc[w])
      BY DEF WorkerInv
    <2> DEFINE e == proc[w]
    <2>2. WorkerOK(e)'
      BY <2>1, WorkerStays
    <2> QED
      BY <2>2
  <1> QED
    BY <1>1 DEF WorkerInv

\* A publisher that moves, while nothing that the others rely on goes away.
Kept ==
    /\ chan \in ChanType /\ chan' \in ChanType /\ chan.next <= chan'.next
    /\ ever \subseteq ever' /\ objects \subseteq objects'
    /\ \A s \in Seqs : att'[s].aged = att[s].aged

LEMMA OneWorker ==
  ASSUME WorkerInv, Kept, NEW w \in Workers,
         proc' = [v \in Workers |-> proc'[v]],
         \A v \in Workers : v # w => proc'[v] = proc[v],
         WorkerOK(proc[w])'
  PROVE  WorkerInv'
  <1>1. ASSUME NEW v \in Workers, v # w PROVE WorkerOK(proc[v])'
    <2> DEFINE e == proc[v]
    <2>1. WorkerOK(e)
      BY DEF WorkerInv
    <2> HIDE DEF e
    <2>2. \A d : d = e => WorkerOK(d)'
      <3> SUFFICES ASSUME NEW d, d = e PROVE WorkerOK(d)'
        OBVIOUS
      <3> QED
        BY <2>1, WorkerStays DEF Kept
    <2>3. proc'[v] = e
      BY <1>1 DEF e
    <2> QED
      BY <2>2, <2>3 DEF WorkerOK
  <1> QED
    BY <1>1 DEF WorkerInv

LEMMA WorkerStops ==
  ASSUME WorkerInv, Kept, NEW w \in Workers, Stops(w)
  PROVE  WorkerInv'
  <1>1. /\ proc' = [v \in Workers |-> proc'[v]] /\ proc'[w] = Idle
        /\ \A v \in Workers : v # w => proc'[v] = proc[v]
    BY DEF Stops, WorkerInv
  <1>2. WorkerOK(Idle)'
    BY DEF WorkerOK, Idle, ProcType, Points, Delivering, Manifests, Seqs, Kept, ChanType
  <1>3. WorkerOK(proc[w])'
    BY <1>1, <1>2 DEF WorkerOK
  <1> QED
    BY <1>1, <1>3, OneWorker

LEMMA WorkerGoesOn ==
  ASSUME WorkerInv, Kept, NEW w \in Workers, NEW p \in Points, GoesOn(w, p),
         p \in Delivering => proc[w].att # 0,
         p = "forget" => proc[w].prev # 0,
         p \in {"complete", "serve"} => proc[w].att \in ever',
         p = "put" => proc[w].att \in objects',
         p \in Delivering \ {"claim"} => ~att'[proc[w].att].aged
  PROVE  WorkerInv'
  <1>1. WorkerOK(proc[w])
    BY DEF WorkerInv
  <1>2. /\ proc' = [v \in Workers |-> proc'[v]]
        /\ \A v \in Workers : v # w => proc'[v] = proc[v]
        /\ proc'[w] \in ProcType /\ proc'[w].at = p
        /\ proc'[w].att = proc[w].att /\ proc'[w].seen = proc[w].seen
        /\ proc'[w].prev = proc[w].prev
    BY <1>1 DEF GoesOn, WorkerInv, WorkerOK, ProcType
  <1>3. WorkerOK(proc[w])'
    BY <1>1, <1>2 DEF WorkerOK, Kept, ChanType, ProcType, Manifests
  <1> QED
    BY <1>2, <1>3, OneWorker

LEMMA IdleFacts ==
  Idle \in ProcType /\ Idle.at = "idle" /\ Idle.att = 0 /\ Idle.seen = 0
  BY DEF Idle, ProcType, Points, Manifests

LEMMA FaultSpent ==
  ASSUME SpentInv, Fault
  PROVE  SpentInv'
  BY DEF SpentInv, Fault

-------------------------------------------------------------------------------
(* Steps of a publisher that change nothing but the publisher.             *)

LEMMA Moves ==
  ASSUME IInv, UNCHANGED <<rows, bucket, sweep>>, SpentInv', Kept => WorkerInv'
  PROVE  IInv'
  <1>1. RowInv' /\ Kept
    BY DEF IInv, rows, bucket, RowInv, LeaseInv, AttInv, Kept, ChanType, Seqs
  <1>2. BucketInv' /\ SweepInv' /\ ReceiptsWereServed'
    BY DEF IInv, rows, bucket, BucketInv, SweepInv, ReceiptsWereServed
  <1> QED
    BY <1>1, <1>2 DEF IInv

LEMMA ScanStep ==
  ASSUME IInv, NEW w \in Workers, Scan(w)
  PROVE  IInv'
  <1>1. WorkerInv /\ WorkerOK(proc[w]) /\ UNCHANGED <<rows, bucket, sweep>> /\ SpentInv'
    BY DEF IInv, WorkerInv, Scan, SpentInv
  <1>2. ASSUME GoesOn(w, "load"), Kept PROVE WorkerInv'
    BY <1>1, <1>2, WorkerGoesOn DEF Points, Delivering
  <1>3. ASSUME proc' = [proc EXCEPT ![w].at = "compose", ![w].snap = chan.receipt], Kept
        PROVE  WorkerInv'
    <2>1. chan.receipt \in Manifests
      BY DEF IInv, RowInv, ChanType
    <2>2. /\ proc' = [v \in Workers |-> proc'[v]]
          /\ \A v \in Workers : v # w => proc'[v] = proc[v]
          /\ proc'[w] \in ProcType /\ proc'[w].at = "compose"
          /\ proc'[w].att = proc[w].att /\ proc'[w].seen = proc[w].seen
      BY <1>1, <1>3, <2>1 DEF WorkerInv, WorkerOK, ProcType, Points
    <2>3. WorkerOK(proc[w])'
      BY <1>1, <1>3, <2>2 DEF WorkerOK, Kept, ChanType, ProcType, Manifests, Delivering, Points
    <2> QED
      BY <1>1, <1>3, <2>2, <2>3, OneWorker
  <1> QED
    BY <1>1, <1>2, <1>3, Moves DEF Scan

LEMMA ReadToComposeStep ==
  ASSUME IInv, NEW w \in Workers, ReadToCompose(w)
  PROVE  IInv'
  <1>1. WorkerInv /\ WorkerOK(proc[w]) /\ UNCHANGED <<rows, bucket, sweep>>
        /\ SpentInv /\ SpentInv'
    BY FaultSpent DEF IInv, WorkerInv, ReadToCompose, SpentInv
  <1>2. ASSUME Stops(w), Kept PROVE WorkerInv'
    BY <1>1, <1>2, WorkerStops
  <1>3. ASSUME proc' = [proc EXCEPT ![w].at = "adopt", ![w].seen = served], Kept
        PROVE  WorkerInv'
    <2>1. served \in Manifests /\ served < chan.next /\ (served \in Seqs => served \in ever)
      BY DEF IInv, BucketInv
    <2>2. /\ proc' = [v \in Workers |-> proc'[v]]
          /\ \A v \in Workers : v # w => proc'[v] = proc[v]
          /\ proc'[w] \in ProcType /\ proc'[w].at = "adopt"
          /\ proc'[w].att = proc[w].att /\ proc'[w].seen = served
      BY <1>1, <1>3, <2>1 DEF WorkerInv, WorkerOK, ProcType, Points
    <2>3. WorkerOK(proc[w])'
      BY <1>1, <1>3, <2>1, <2>2 DEF WorkerOK, Kept, ChanType, ProcType, Manifests, Delivering,
         Points, Seqs
    <2> QED
      BY <1>1, <1>3, <2>2, <2>3, OneWorker
  <1> QED
    BY <1>1, <1>2, <1>3, Moves DEF ReadToCompose

LEMMA LoadStep ==
  ASSUME IInv, NEW w \in Workers, Load(w)
  PROVE  IInv'
  <1>1. WorkerInv /\ WorkerOK(proc[w]) /\ UNCHANGED <<rows, bucket, sweep>> /\ SpentInv'
    BY DEF IInv, WorkerInv, Load, SpentInv
  <1>2. ASSUME Stops(w), Kept PROVE WorkerInv'
    BY <1>1, <1>2, WorkerStops
  <1>3. ASSUME proc' = [proc EXCEPT ![w].at = "claim", ![w].att = chan.active],
               chan.active # 0, Kept
        PROVE  WorkerInv'
    <2>1. chan.active \in 0..MaxSeq /\ chan.active < chan.next
      BY DEF IInv, RowInv, ChanType
    <2>2. /\ proc' = [v \in Workers |-> proc'[v]]
          /\ \A v \in Workers : v # w => proc'[v] = proc[v]
          /\ proc'[w] \in ProcType /\ proc'[w].at = "claim"
          /\ proc'[w].att = chan.active /\ proc'[w].seen = proc[w].seen
      BY <1>1, <1>3, <2>1 DEF WorkerInv, WorkerOK, ProcType, Points
    <2>3. WorkerOK(proc[w])'
      BY <1>1, <1>3, <2>1, <2>2 DEF WorkerOK, Kept, ChanType, ProcType, Manifests, Delivering,
         Points, Seqs
    <2> QED
      BY <1>1, <1>3, <2>2, <2>3, OneWorker
  <1> QED
    BY <1>1, <1>2, <1>3, Moves DEF Load

LEMMA CrashStep ==
  ASSUME IInv, NEW w \in Workers, Crash(w)
  PROVE  IInv'
  <1>1. WorkerInv /\ SpentInv' /\ UNCHANGED <<rows, bucket, sweep>>
    BY DEF IInv, SpentInv, Crash
  <1> QED
    BY <1>1, WorkerStops, Moves DEF Crash

\* Where a publisher goes on from what it has read.
LEMMA AfterReadFacts ==
  ASSUME NEW why \in {"retry", "uncertain", "stale"}, NEW s, NEW seen
  PROVE  /\ AfterRead[why][Verdict(s, seen)] \in
              {"stage", "complete", "supersede", "block", "pend", "retire", "serve"}
         /\ AfterRead[why][Verdict(s, seen)] \in {"complete", "serve"} => seen = s
  BY DEF AfterRead, Verdict

LEMMA ReadBackStep ==
  ASSUME IInv, NEW w \in Workers, ReadBack(w)
  PROVE  IInv'
  <1>1. WorkerInv /\ WorkerOK(proc[w]) /\ UNCHANGED <<rows, bucket, sweep>>
        /\ SpentInv /\ SpentInv' /\ proc[w].at = "read"
    BY FaultSpent DEF IInv, WorkerInv, ReadBack, SpentInv
  <1>2. /\ proc[w].att \in Seqs /\ ~att[proc[w].att].aged
        /\ proc[w].why \in {"retry", "uncertain", "stale"}
    BY <1>1 DEF WorkerOK, ProcType, Delivering, Points, Seqs
  <1>3. ASSUME GoesOn(w, Unread(proc[w].why)), Kept PROVE WorkerInv'
    <2> DEFINE q == Unread(proc[w].why)
    <2>1. q \in Points \ {"forget", "complete", "serve", "put"}
      BY DEF Unread, Points
    <2> HIDE DEF q
    <2>2. proc[w].att # 0 /\ ~att'[proc[w].att].aged
      BY <1>1, <1>2 DEF rows, Seqs
    <2>3. GoesOn(w, q)
      BY <1>3 DEF q
    <2> QED
      BY <1>1, <1>3, <2>1, <2>2, <2>3, WorkerGoesOn
  <1> DEFINE p == AfterRead[proc[w].why][Verdict(proc[w].att, served)]
  <1>4. ASSUME proc' = [proc EXCEPT ![w].seen = served, ![w].at = p], Kept
        PROVE  WorkerInv'
    <2>1. served \in Manifests /\ served < chan.next /\ (served \in Seqs => served \in ever)
      BY DEF IInv, BucketInv
    <2>2. /\ p \in {"stage", "complete", "supersede", "block", "pend", "retire", "serve"}
          /\ p \in {"complete", "serve"} => served = proc[w].att
      BY <1>2, AfterReadFacts
    <2> HIDE DEF p
    <2>3. /\ proc' = [v \in Workers |-> proc'[v]]
          /\ \A v \in Workers : v # w => proc'[v] = proc[v]
          /\ proc'[w] \in ProcType /\ proc'[w].at = p
          /\ proc'[w].att = proc[w].att /\ proc'[w].seen = served
      BY <1>1, <1>4, <2>1, <2>2 DEF WorkerInv, WorkerOK, ProcType, Points
    <2>4. ~att'[proc[w].att].aged
      BY <1>1, <1>2 DEF rows
    <2>5. WorkerOK(proc[w])'
      BY <1>1, <1>2, <1>4, <2>1, <2>2, <2>3, <2>4
         DEF WorkerOK, Kept, ChanType, ProcType, Manifests, Delivering, Seqs, Points
    <2> QED
      BY <1>1, <1>4, <2>3, <2>5, OneWorker
  <1> QED
    BY <1>1, <1>3, <1>4, Moves DEF ReadBack

-------------------------------------------------------------------------------
(* Steps that change the rows.                                             *)

\* A step on the row of one attempt.
LEMMA RowMoves ==
  ASSUME IInv, NEW s, Rows(s), UNCHANGED <<bucket, sweep, spent>>,
         Kept => WorkerInv', ReceiptsWereServed'
  PROVE  IInv'
  <1>1. RowInv' /\ Kept
    BY DEF IInv, Rows, RowInv, Kept, ChanType, Seqs, bucket
  <1>2. BucketInv'
    BY <1>1, BucketStays DEF IInv, Kept
  <1>3. SweepInv'
    BY <1>1, SweepStays DEF IInv, Kept, bucket
  <1> QED
    BY <1>1, <1>2, <1>3 DEF IInv, SpentInv

\* An attempt inserted after the last one.
LEMMA InsertMoves ==
  ASSUME IInv, chan.next <= MaxSeq, NEW r \in 0..MaxRevision, NEW c \in 0..MaxRevision,
         Insert(r, c), UNCHANGED <<bucket, sweep, spent>>, Kept => WorkerInv'
  PROVE  IInv'
  <1>1. /\ RowInv' /\ Kept
        /\ chan.next \in Seqs /\ att'[chan.next].state = "pending"
        /\ \A t \in Seqs : t # chan.next => att'[t] = att[t]
        /\ chan'.receipt = chan.receipt
    <2>1. /\ RowInv' /\ chan.next \in Seqs /\ att'[chan.next].state = "pending"
          /\ \A t \in Seqs : t # chan.next => att'[t] = att[t]
          /\ \A t \in Seqs : att'[t].aged = att[t].aged
          /\ chan' \in ChanType /\ chan'.next = chan.next + 1
          /\ chan'.receipt = chan.receipt
      BY InsertFacts DEF IInv
    <2>2. chan \in ChanType /\ chan.next <= chan'.next
      BY <2>1 DEF IInv, RowInv, ChanType
    <2> QED
      BY <2>1, <2>2 DEF Kept, bucket
  <1>2. BucketInv'
    BY <1>1, BucketStays DEF IInv, Kept
  <1>3. SweepInv'
    BY <1>1, SweepStays DEF IInv, Kept, bucket
  <1>4. ReceiptsWereServed'
    BY <1>1 DEF IInv, ReceiptsWereServed, bucket
  <1> QED
    BY <1>1, <1>2, <1>3, <1>4 DEF IInv, SpentInv

LEMMA PublishStaticStep ==
  ASSUME IInv, PublishStatic
  PROVE  IInv'
  <1>1. chan.desired + 1 \in 0..MaxRevision
    BY DEF IInv, RowInv, ChanType, PublishStatic
  <1>2. Kept => WorkerInv'
    BY WorkersStay DEF IInv, Kept, PublishStatic
  <1> QED
    BY <1>1, <1>2, InsertMoves DEF PublishStatic

LEMMA MarkDirtyStep ==
  ASSUME IInv, MarkDirty
  PROVE  IInv'
  <1>1. chan \in ChanType
    BY DEF IInv, RowInv
  <1>2. /\ chan' \in ChanType /\ chan'.next = chan.next /\ chan'.active = chan.active
        /\ chan'.receipt = chan.receipt
    BY <1>1 DEF MarkDirty, ChanType
  <1>3. Rows(0)
    BY <1>1, <1>2 DEF IInv, RowInv, Rows, MarkDirty, LeaseInv, AttInv
  <1>4. ReceiptsWereServed'
    BY <1>2 DEF IInv, ReceiptsWereServed, MarkDirty, bucket
  <1>5. Kept => WorkerInv'
    BY WorkersStay DEF IInv, Kept, MarkDirty
  <1> QED
    BY <1>3, <1>4, <1>5, RowMoves DEF MarkDirty

LEMMA AdoptStep ==
  ASSUME IInv, NEW w \in Workers, Adopt(w)
  PROVE  IInv'
  <1>1. chan \in ChanType /\ WorkerInv /\ WorkerOK(proc[w])
    BY DEF IInv, RowInv, WorkerInv
  <1>2. /\ chan' \in ChanType /\ chan'.next = chan.next /\ chan'.active = chan.active
        /\ chan'.receipt \in {chan.receipt, proc[w].seen}
    BY <1>1 DEF Adopt, ChanType, WorkerOK, ProcType
  <1>3. Rows(0)
    BY <1>1, <1>2 DEF IInv, RowInv, Rows, Adopt, LeaseInv, AttInv, WorkerOK
  <1>4. ReceiptsWereServed'
    BY <1>1, <1>2 DEF IInv, ReceiptsWereServed, Adopt, bucket, WorkerOK
  <1>5. ASSUME Kept PROVE WorkerInv'
    <2> DEFINE e == [Idle EXCEPT !.at = "queue", !.draft = chan.desired]
    <2>1. /\ e \in ProcType /\ e.at = "queue" /\ e.att = 0 /\ e.seen = 0
      <3>1. chan.desired \in 0..MaxRevision
        BY <1>1 DEF ChanType
      <3> QED
        BY <3>1, IdleFacts DEF ProcType, Points
    <2> HIDE DEF e
    <2>2. proc' = [proc EXCEPT ![w] = e]
      BY DEF Adopt, e
    <2>3. /\ proc' = [v \in Workers |-> proc'[v]] /\ proc'[w] = e
          /\ \A v \in Workers : v # w => proc'[v] = proc[v]
      BY <1>1, <2>2 DEF WorkerInv
    <2>4. WorkerOK(proc[w])'
      BY <1>5, <2>1, <2>3 DEF WorkerOK, Kept, ChanType, Delivering, Seqs
    <2> QED
      BY <1>1, <1>5, <2>3, <2>4, OneWorker
  <1> QED
    BY <1>3, <1>4, <1>5, RowMoves DEF Adopt

\* A publisher that starts anew, at a point where it works on no attempt.
LEMMA WorkerRestarts ==
  ASSUME WorkerInv, Kept, NEW w \in Workers, NEW p \in {"queue", "load", "forget"},
         NEW n \in 0..MaxSeq, p = "forget" => n # 0,
         proc' = [proc EXCEPT ![w] = [Idle EXCEPT !.at = p, !.prev = n]]
  PROVE  WorkerInv'
  <1> DEFINE e == [Idle EXCEPT !.at = p, !.prev = n]
  <1>1. e \in ProcType /\ e.at = p /\ e.att = 0 /\ e.seen = 0 /\ e.prev = n
    BY IdleFacts DEF ProcType, Points
  <1>2. proc' = [proc EXCEPT ![w] = e]
    OBVIOUS
  <1> HIDE DEF e
  <1>3. /\ proc' = [v \in Workers |-> proc'[v]] /\ proc'[w] = e
        /\ \A v \in Workers : v # w => proc'[v] = proc[v]
    BY <1>2 DEF WorkerInv
  <1>4. WorkerOK(proc[w])'
    <2>1. e.at \notin Delivering \cup {"complete", "serve", "put"}
      BY <1>1 DEF Delivering, Points
    <2>2. 0 < chan'.next /\ 0 \notin Seqs
      BY DEF Kept, ChanType, Seqs
    <2>3. WorkerOK(e)'
      BY <1>1, <2>1, <2>2 DEF WorkerOK
    <2> QED
      BY <1>3, <2>3
  <1> QED
    BY <1>3, <1>4, OneWorker

LEMMA WorkerAfterCurrent ==
  ASSUME WorkerInv, Kept, NEW w \in Workers, AfterCurrent(w)
  PROVE  WorkerInv'
  <1>1. proc[w].prev \in 0..MaxSeq
    BY DEF WorkerInv, WorkerOK, ProcType
  <1>2. CASE proc[w].prev = 0
    BY <1>2, WorkerStops DEF AfterCurrent, Stops
  <1>3. CASE proc[w].prev # 0
    <2>1. proc' = [proc EXCEPT ![w] = [Idle EXCEPT !.at = "forget", !.prev = proc[w].prev]]
      BY <1>3 DEF AfterCurrent
    <2> QED
      BY <1>1, <1>3, <2>1, WorkerRestarts
  <1> QED
    BY <1>2, <1>3

LEMMA QueueStep ==
  ASSUME IInv, NEW w \in Workers, Queue(w)
  PROVE  IInv'
  <1>1. /\ chan \in ChanType /\ WorkerInv /\ WorkerOK(proc[w])
        /\ UNCHANGED <<bucket, sweep, spent>>
    BY DEF IInv, RowInv, WorkerInv, Queue
  <1>2. CASE Stops(w) /\ UNCHANGED rows
    <2>1. SpentInv'
      BY <1>1 DEF IInv, SpentInv
    <2>2. Kept => WorkerInv'
      BY <1>1, <1>2, WorkerStops
    <2> QED
      BY <1>1, <1>2, <2>1, <2>2, Moves
  <1>3. CASE /\ chan.next <= MaxSeq /\ Insert(chan.desired, proc[w].draft)
             /\ proc' = [proc EXCEPT ![w] = [Idle EXCEPT !.at = "load", !.prev = chan.active]]
    <2>1. /\ chan.desired \in 0..MaxRevision /\ proc[w].draft \in 0..MaxRevision
          /\ chan.active \in 0..MaxSeq
      BY <1>1 DEF ChanType, WorkerOK, ProcType
    <2>2. Kept => WorkerInv'
      BY <1>1, <1>3, <2>1, WorkerRestarts
    <2> QED
      BY <1>1, <1>3, <2>1, <2>2, InsertMoves
  <1> QED
    BY <1>2, <1>3 DEF Queue

LEMMA ClaimStep ==
  ASSUME IInv, NEW w \in Workers, Claim(w)
  PROVE  IInv'
  <1> DEFINE s == proc[w].att
  <1>1. /\ WorkerInv /\ WorkerOK(proc[w]) /\ s \in Seqs /\ s < chan.next
        /\ UNCHANGED <<chan, bucket, sweep, spent>> /\ SpentInv'
    <2>1. WorkerOK(proc[w]) /\ proc[w].at = "claim"
      BY DEF IInv, WorkerInv, Claim
    <2>2. s \in Seqs /\ s < chan.next
      BY <2>1 DEF WorkerOK, Delivering, Points, ProcType, Seqs
    <2> QED
      BY <2>1, <2>2 DEF IInv, Claim, SpentInv
  <1>2. att[s].state \notin Closed => ~att[s].aged
    BY <1>1 DEF IInv, RowInv, AttInv
  <1>3. CASE Stops(w) /\ UNCHANGED att
    <2>1. Kept => WorkerInv'
      BY <1>1, <1>3, WorkerStops
    <2> QED
      BY <1>1, <1>3, <2>1, Moves DEF rows
  <1>4. CASE AfterCurrent(w) /\ UNCHANGED att
    <2>1. Kept => WorkerInv'
      BY <1>1, <1>4, WorkerAfterCurrent
    <2> QED
      BY <1>1, <1>4, <2>1, Moves DEF rows
  <1>5. CASE GoesOn(w, "retire") /\ UNCHANGED att /\ att[s].state \in {"pending", "current"}
    <2>1. ~att'[proc[w].att].aged /\ proc[w].att # 0
      BY <1>1, <1>2, <1>5 DEF Closed, Seqs
    <2>2. Kept => WorkerInv'
      BY <1>1, <1>5, <2>1, WorkerGoesOn DEF Points
    <2> QED
      BY <1>1, <1>5, <2>2, Moves DEF rows
  <1>6. CASE /\ proc' = [proc EXCEPT ![w].at = "read", ![w].why = "stale"]
             /\ UNCHANGED att /\ att[s].state = "switching"
    <2>1. ~att[s].aged
      BY <1>2, <1>6 DEF Closed
    <2>2. ASSUME Kept PROVE WorkerInv'
      <3>1. /\ proc' = [v \in Workers |-> proc'[v]]
            /\ \A v \in Workers : v # w => proc'[v] = proc[v]
            /\ proc'[w] \in ProcType /\ proc'[w].at = "read"
            /\ proc'[w].att = s /\ proc'[w].seen = proc[w].seen
        BY <1>1, <1>6 DEF WorkerInv, WorkerOK, ProcType, Points
      <3>2. WorkerOK(proc[w])'
        BY <1>1, <1>6, <2>1, <3>1 DEF WorkerOK, ChanType, Delivering, Seqs, Points, bucket
      <3> QED
        BY <1>1, <2>2, <3>1, <3>2, OneWorker
    <2> QED
      BY <1>1, <1>6, <2>2, Moves DEF rows
  <1>7. CASE /\ att[s].state \in Unresolved
             /\ att' = [att EXCEPT ![s].token = w, ![s].live = TRUE, ![s].state = "switching"]
             /\ proc' = [proc EXCEPT ![w].why = "retry",
                           ![w].at = IF att[s].state = "switching" THEN "read" ELSE "stage"]
    <2>1. ~att[s].aged /\ w # NoWorker
      BY <1>2, <1>7 DEF Closed, Unresolved
    <2>2. att \in [Seqs -> AttType] /\ LeaseInv /\ AttInv /\ chan \in ChanType
      BY DEF IInv, RowInv
    <2>3. /\ att' \in [Seqs -> AttType]
          /\ \A t \in Seqs : t # s => att'[t] = att[t]
          /\ att'[s].state = "switching" /\ att'[s].token = w
          /\ att'[s].aged = att[s].aged /\ att'[s].pred = att[s].pred
      <3> DEFINE a == [att[s] EXCEPT !.token = w, !.live = TRUE, !.state = "switching"]
      <3>1. /\ a \in AttType /\ a.state = "switching" /\ a.token = w
            /\ a.aged = att[s].aged /\ a.pred = att[s].pred
        <4>1. att[s] \in AttType
          BY <1>1, <2>2
        <4> QED
          BY <4>1 DEF AttType, States, Unresolved
      <3>2. att' = [att EXCEPT ![s] = a]
        BY <1>7
      <3> HIDE DEF a
      <3> QED
        BY <1>1, <2>2, <3>1, <3>2
    <2> HIDE DEF s
    <2>a. LeaseInv'
      BY <1>1, <2>1, <2>2, <2>3 DEF LeaseInv
    <2>4. AttInv'
      BY <1>1, <2>1, <2>2, <2>3 DEF AttInv, ChanType, Seqs
    <2>5. Rows(s)
      BY <1>1, <2>a, <2>2, <2>3, <2>4 DEF IInv, Rows, RowInv
    <2>6. ReceiptsWereServed'
      BY <1>1, <2>3 DEF IInv, ReceiptsWereServed, bucket
    <2>7. ASSUME Kept PROVE WorkerInv'
      <3> DEFINE q == IF att[s].state = "switching" THEN "read" ELSE "stage"
      <3>1. q \in {"read", "stage"} /\ proc' = [proc EXCEPT ![w].why = "retry", ![w].at = q]
        BY <1>7
      <3> HIDE DEF q
      <3>2. /\ proc' = [v \in Workers |-> proc'[v]]
            /\ \A v \in Workers : v # w => proc'[v] = proc[v]
            /\ proc'[w] \in ProcType /\ proc'[w].at = q
            /\ proc'[w].att = s /\ proc'[w].seen = proc[w].seen
        BY <1>1, <3>1 DEF s, WorkerInv, WorkerOK, ProcType, Points
      <3>3. WorkerOK(proc[w])'
        BY <1>1, <2>1, <2>3, <3>1, <3>2 DEF WorkerOK, Delivering, Seqs, Points, bucket
      <3> QED
        BY <1>1, <2>7, <3>2, <3>3, OneWorker
    <2> QED
      BY <1>1, <2>5, <2>6, <2>7, RowMoves
  <1> QED
    BY <1>3, <1>4, <1>5, <1>6, <1>7 DEF Claim

-------------------------------------------------------------------------------
(* Transactions that end an attempt.                                       *)

LEMMA ReleaseMoves ==
  ASSUME IInv, NEW s \in Seqs, NEW state \in {"current", "superseded", "blocked", "switching"},
         Released(s, state), s < chan.next, ~att[s].aged,
         state = "current" => s \in ever,
         chan' \in ChanType, chan'.next = chan.next, chan'.active < chan.next,
         chan'.receipt = chan.receipt \/ (chan'.receipt = s /\ s \in ever),
         UNCHANGED <<bucket, sweep, spent>>, Kept => WorkerInv'
  PROVE  IInv'
  <1>1. RowInv /\ state \in States /\ att[s].state # "pruned"
        /\ chan'.receipt < chan.next
    BY DEF IInv, RowInv, AttInv, States, Unresolved
  <1>2. Rows(s)
    BY <1>1, ReleasedRows
  <1>3. att'[s].state = state
    BY <1>1, ReleasedFacts
  <1>4. ReceiptsWereServed'
    BY <1>2, <1>3 DEF IInv, ReceiptsWereServed, Rows, bucket
  <1> QED
    BY <1>2, <1>4, RowMoves

\* What a publisher knows of the attempt it works on.
LEMMA Working ==
  ASSUME IInv, NEW w \in Workers, proc[w].at \in Delivering \ {"claim"}
  PROVE  /\ proc[w].att \in Seqs /\ proc[w].att < chan.next /\ ~att[proc[w].att].aged
         /\ proc[w].at \in {"complete", "serve"} => proc[w].att \in ever
         /\ att[proc[w].att].state # "pruned"
  <1>1. WorkerOK(proc[w])
    BY DEF IInv, WorkerInv
  <1>2. proc[w].att \in Seqs /\ ~att[proc[w].att].aged
    BY <1>1 DEF WorkerOK, ProcType, Delivering, Seqs
  <1> QED
    BY <1>1, <1>2 DEF WorkerOK, IInv, RowInv, AttInv

LEMMA ClearFacts ==
  ASSUME chan \in ChanType, chan.active < chan.next, NEW s, ClearActive(s)
  PROVE  /\ chan' \in ChanType /\ chan'.next = chan.next
         /\ chan'.active < chan.next /\ chan'.receipt = chan.receipt
  BY DEF ClearActive, ChanType

\* serve_then_supersede/3 and the second branch of finish/4.
LEMMA ServedFacts ==
  ASSUME chan \in ChanType, NEW s \in Seqs, chan' = [chan EXCEPT !.receipt = s, !.active = 0]
  PROVE  /\ chan' \in ChanType /\ chan'.next = chan.next
         /\ chan'.active = 0 /\ chan'.receipt = s /\ 0 < chan.next
  <1>1. 0 \in 0..MaxSeq /\ s \in Manifests
    BY DEF Seqs, Manifests
  <1>2. chan' \in ChanType
    BY <1>1 DEF ChanType
  <1> QED
    BY <1>2 DEF ChanType

LEMMA CompleteStep ==
  ASSUME IInv, NEW w \in Workers, Complete(w)
  PROVE  IInv'
  <1> DEFINE s == proc[w].att
  <1>1. /\ WorkerInv /\ chan \in ChanType /\ chan.receipt < chan.next
        /\ UNCHANGED <<bucket, sweep, spent>> /\ SpentInv'
    BY DEF IInv, RowInv, Complete, SpentInv
  <1>2. s \in Seqs /\ s < chan.next /\ ~att[s].aged /\ s \in ever
    BY Working DEF Complete, Delivering, Points
  <1>3. s \in 0..MaxSeq /\ s \in Manifests
    BY <1>2 DEF Seqs, Manifests
  <1>4. CASE Stops(w) /\ UNCHANGED rows
    <2>1. Kept => WorkerInv'
      BY <1>1, <1>4, WorkerStops
    <2> QED
      BY <1>1, <1>4, <2>1, Moves
  <1>5. CASE /\ chan' = [chan EXCEPT !.receipt = s, !.active = s]
             /\ Released(s, "current") /\ AfterCurrent(w)
    <2>1. /\ chan' \in ChanType /\ chan'.next = chan.next
          /\ chan'.active = s /\ chan'.receipt = s
      BY <1>1, <1>3, <1>5 DEF ChanType
    <2>2. Kept => WorkerInv'
      BY <1>1, <1>5, WorkerAfterCurrent
    <2> QED
      BY <1>1, <1>2, <1>5, <2>1, <2>2, ReleaseMoves
  <1>6. CASE /\ chan' = [chan EXCEPT !.receipt = s, !.active = 0]
             /\ Released(s, "superseded") /\ Stops(w)
    <2>1. /\ chan' \in ChanType /\ chan'.next = chan.next
          /\ chan'.active = 0 /\ chan'.receipt = s /\ 0 < chan.next
      BY <1>1, <1>2, <1>6, ServedFacts
    <2>2. Kept => WorkerInv'
      BY <1>1, <1>6, WorkerStops
    <2> QED
      BY <1>1, <1>2, <1>6, <2>1, <2>2, ReleaseMoves
  <1> QED
    BY <1>4, <1>5, <1>6 DEF Complete, Finish

LEMMA SupersedeStep ==
  ASSUME IInv, NEW w \in Workers, Supersede(w)
  PROVE  IInv'
  <1> DEFINE s == proc[w].att
  <1>1. /\ WorkerInv /\ chan \in ChanType /\ chan.active < chan.next
        /\ UNCHANGED <<bucket, sweep, spent>> /\ SpentInv' /\ (Kept => WorkerInv')
    BY WorkerStops DEF IInv, RowInv, Supersede, SpentInv
  <1>2. s \in Seqs /\ s < chan.next /\ ~att[s].aged
    BY Working DEF Supersede, Delivering, Points
  <1>3. CASE UNCHANGED rows
    BY <1>1, <1>3, Moves
  <1>4. CASE Released(s, "superseded") /\ ClearActive(s)
    BY <1>1, <1>2, <1>4, ClearFacts, ReleaseMoves
  <1> QED
    BY <1>3, <1>4 DEF Supersede

LEMMA RetireStaleStep ==
  ASSUME IInv, NEW w \in Workers, RetireStale(w)
  PROVE  IInv'
  <1> DEFINE s == proc[w].att
  <1>1. /\ WorkerInv /\ chan \in ChanType /\ chan.active < chan.next
        /\ UNCHANGED <<bucket, sweep, spent>> /\ (Kept => WorkerInv')
    BY WorkerStops DEF IInv, RowInv, RetireStale
  <1>2. s \in Seqs /\ s < chan.next /\ ~att[s].aged /\ att[s].state # "pruned"
    BY Working DEF RetireStale, Delivering, Points, IInv
  <1>3. Released(s, "superseded") /\ ClearActive(s)
    BY <1>2 DEF RetireStale
  <1> QED
    BY <1>1, <1>2, <1>3, ClearFacts, ReleaseMoves

LEMMA ServeThenSupersedeStep ==
  ASSUME IInv, NEW w \in Workers, ServeThenSupersede(w)
  PROVE  IInv'
  <1> DEFINE s == proc[w].att
  <1>1. /\ WorkerInv /\ chan \in ChanType
        /\ UNCHANGED <<bucket, sweep, spent>> /\ (Kept => WorkerInv')
    BY WorkerStops DEF IInv, RowInv, ServeThenSupersede
  <1>2. s \in Seqs /\ s < chan.next /\ ~att[s].aged /\ s \in ever /\ att[s].state # "pruned"
    BY Working DEF ServeThenSupersede, Delivering, Points
  <1>3. Released(s, "superseded") /\ chan' = [chan EXCEPT !.receipt = s, !.active = 0]
    BY <1>2 DEF ServeThenSupersede
  <1>4. /\ chan' \in ChanType /\ chan'.next = chan.next
        /\ chan'.active = 0 /\ chan'.receipt = s /\ 0 < chan.next
    BY <1>1, <1>2, <1>3, ServedFacts
  <1> QED
    BY <1>1, <1>2, <1>3, <1>4, ReleaseMoves

LEMMA BlockOrPendStep ==
  ASSUME IInv, NEW w \in Workers, BlockOrPend(w)
  PROVE  IInv'
  <1> DEFINE s == proc[w].att
  <1>1. /\ WorkerInv /\ chan \in ChanType /\ chan.active < chan.next
        /\ UNCHANGED <<chan, bucket, sweep, spent>> /\ SpentInv' /\ (Kept => WorkerInv')
    BY WorkerStops DEF IInv, RowInv, BlockOrPend, SpentInv
  <1>2. s \in Seqs /\ s < chan.next /\ ~att[s].aged
    BY Working DEF BlockOrPend, Delivering, Points
  <1>3. CASE UNCHANGED att
    BY <1>1, <1>3, Moves DEF rows
  <1>4. ASSUME NEW state \in {"blocked", "switching"}, Released(s, state)
        PROVE  IInv'
    BY <1>1, <1>2, <1>4, ReleaseMoves
  <1> QED
    BY <1>3, <1>4 DEF BlockOrPend

LEMMA ForgetStep ==
  ASSUME IInv, NEW w \in Workers, Forget(w)
  PROVE  IInv'
  <1> DEFINE s == proc[w].prev
  <1>1. /\ WorkerInv /\ chan \in ChanType /\ chan.active < chan.next
        /\ UNCHANGED <<chan, bucket, sweep, spent>> /\ SpentInv' /\ (Kept => WorkerInv')
    BY WorkerStops DEF IInv, RowInv, Forget, SpentInv
  <1>2. s \in Seqs
    BY DEF IInv, WorkerInv, WorkerOK, Forget, ProcType, Seqs
  <1>3. CASE UNCHANGED att
    BY <1>1, <1>3, Moves DEF rows
  <1>4. CASE att[s].state = "current" /\ Released(s, "superseded")
    <2>1. ~att[s].aged
      BY <1>2, <1>4 DEF IInv, RowInv, AttInv, Closed
    <2>2. s < chan.next
      <3>1. att[s] # NoAttempt
        BY <1>4 DEF NoAttempt
      <3> QED
        BY <1>1, <1>2, <3>1 DEF IInv, RowInv, AttInv, ChanType, Seqs
    <2> QED
      BY <1>1, <1>2, <1>4, <2>1, <2>2, ReleaseMoves
  <1> QED
    BY <1>3, <1>4 DEF Forget

LEMMA LeaseEndsStep ==
  ASSUME IInv, NEW s \in Seqs, LeaseEnds(s)
  PROVE  IInv'
  <1>1. /\ att \in [Seqs -> AttType] /\ LeaseInv /\ AttInv /\ RowInv
        /\ UNCHANGED <<chan, bucket, proc, sweep>>
    BY DEF IInv, RowInv, LeaseEnds
  <1>2. /\ att' \in [Seqs -> AttType]
        /\ \A t \in Seqs : t # s => att'[t] = att[t]
        /\ att'[s].live = FALSE /\ att'[s].state = att[s].state
        /\ att'[s].token = att[s].token /\ att'[s].aged = att[s].aged
        /\ att'[s].pred = att[s].pred
    BY <1>1 DEF LeaseEnds, AttType
  <1>3. LeaseInv'
    BY <1>1, <1>2 DEF LeaseInv
  <1>4. s < chan.next
    BY <1>1 DEF AttInv, LeaseEnds, NoAttempt, RowInv, ChanType, Seqs
  <1>5. AttInv'
    BY <1>1, <1>2, <1>4 DEF AttInv, RowInv, ChanType, Seqs
  <1>6. Rows(s)
    BY <1>1, <1>2, <1>3, <1>5 DEF RowInv, Rows
  <1>7. ReceiptsWereServed'
    BY <1>1, <1>2 DEF IInv, ReceiptsWereServed, bucket
  <1>8. WorkerInv' /\ BucketInv' /\ SweepInv'
    BY <1>1, <1>6, WorkersStay, BucketStays, SweepStays DEF IInv, Rows, RowInv, bucket, ChanType, Seqs
  <1>9. SpentInv'
    BY FaultSpent DEF LeaseEnds, IInv, SpentInv
  <1> QED
    BY <1>6, <1>7, <1>8, <1>9 DEF IInv, Rows

\* An attempt ages when no pass, no request and no publisher knows it.
LEMMA GracePassesStep ==
  ASSUME IInv, NEW s \in Seqs, GracePasses(s)
  PROVE  IInv'
  <1>1. /\ att \in [Seqs -> AttType] /\ LeaseInv /\ AttInv /\ RowInv
        /\ BucketInv /\ WorkerInv /\ SweepInv
        /\ UNCHANGED <<chan, bucket, proc, sweep, spent>>
    BY DEF IInv, RowInv, GracePasses
  <1>2. /\ att' \in [Seqs -> AttType]
        /\ \A t \in Seqs : t # s => att'[t] = att[t]
        /\ att'[s].state = "superseded" /\ att'[s].live = att[s].live
        /\ att'[s].token = att[s].token /\ att'[s].aged = TRUE
        /\ att'[s].pred = att[s].pred
    BY <1>1 DEF GracePasses, AttType
  <1>3. LeaseInv'
    BY <1>1, <1>2 DEF LeaseInv, GracePasses
  <1>4. s < chan.next
    BY <1>1 DEF AttInv, GracePasses, NoAttempt, RowInv, ChanType, Seqs
  <1>5. AttInv'
    BY <1>1, <1>2, <1>4 DEF AttInv, RowInv, ChanType, Seqs, Closed
  <1>6. RowInv'
    BY <1>1, <1>2, <1>3, <1>5 DEF RowInv
  <1>7. ReceiptsWereServed'
    BY <1>1, <1>2 DEF IInv, ReceiptsWereServed, bucket
  <1>8. SweepInv'
    BY <1>1, <1>2 DEF SweepInv, GracePasses, bucket
  <1>9. BucketInv'
    <2>1. ASSUME NEW r \in late, r.what = "manifest" PROVE r.of # s
      <3>1. r \in LateType /\ [what |-> "manifest", of |-> s] \notin late
        BY <1>1 DEF BucketInv, GracePasses
      <3> QED
        BY <2>1, <3>1 DEF LateType
    <2>2. \A r \in late : r.of \in Seqs
      BY <1>1 DEF BucketInv, LateType
    <2> QED
      BY <1>1, <1>2, <2>1, <2>2 DEF BucketInv, bucket
  <1>10. WorkerInv'
    <2>1. ASSUME NEW v \in Workers PROVE WorkerOK(proc[v])'
      <3>1. WorkerOK(proc[v]) /\ proc[v].att # s
        BY <1>1 DEF WorkerInv, GracePasses
      <3>2. proc[v].at \in Delivering => proc[v].att \in Seqs
        BY <3>1 DEF WorkerOK, ProcType, Seqs
      <3> QED
        BY <1>1, <1>2, <3>1, <3>2 DEF WorkerOK, bucket
    <2> QED
      BY <1>1, <2>1 DEF WorkerInv
  <1> QED
    BY <1>1, <1>6, <1>7, <1>8, <1>9, <1>10 DEF IInv, SpentInv

-------------------------------------------------------------------------------
(* Steps on the bucket.                                                    *)

\* A step that leaves the rows and the pass alone, and takes no object away.
LEMMA BucketMoves ==
  ASSUME IInv, UNCHANGED <<rows, sweep>>, SpentInv', Kept => WorkerInv', BucketInv',
         ever \subseteq ever', objects \subseteq objects',
         served' = served \/ served' \notin Seqs \/ ~att[served'].aged
  PROVE  IInv'
  <1>1. RowInv' /\ Kept
    BY DEF IInv, rows, RowInv, LeaseInv, AttInv, Kept, ChanType, Seqs
  <1>2. ReceiptsWereServed'
    BY DEF IInv, ReceiptsWereServed, rows
  <1>3. SweepInv'
    BY DEF IInv, SweepInv, rows
  <1> QED
    BY <1>1, <1>2, <1>3 DEF IInv

LEMMA StageStep ==
  ASSUME IInv, NEW w \in Workers, Stage(w)
  PROVE  IInv'
  <1> DEFINE s == proc[w].att
  <1>1. /\ WorkerInv /\ BucketInv /\ UNCHANGED <<rows, served, ever, sweep>> /\ SpentInv'
    BY FaultSpent DEF IInv, Stage, SpentInv
  <1>2. s \in Seqs /\ s < chan.next /\ ~att[s].aged
    BY Working DEF Stage, Delivering, Points
  <1>3. s # 0 /\ ~att'[s].aged
    BY <1>1, <1>2 DEF rows, Seqs
  <1>4. ASSUME objects' = objects \cup {s}, UNCHANGED late
        PROVE  BucketInv' /\ objects \subseteq objects'
    BY <1>1, <1>2, <1>4 DEF BucketInv, rows
  <1>5. ASSUME late' = late \cup {[what |-> "payload", of |-> s]}, UNCHANGED objects
        PROVE  BucketInv'
    <2> DEFINE r == [what |-> "payload", of |-> s]
    <2>1. r \in LateType /\ r.what # "manifest" /\ r.of = s
      BY <1>2 DEF LateType
    <2> HIDE DEF r
    <2>2. late' = late \cup {r}
      BY <1>5 DEF r
    <2> QED
      BY <1>1, <1>2, <1>5, <2>1, <2>2 DEF BucketInv, rows
  <1>6. ASSUME NEW p \in {"put", "refuse", "pend"}, GoesOn(w, p), p = "put" => s \in objects',
               Kept
        PROVE  WorkerInv'
    BY <1>1, <1>3, <1>6, WorkerGoesOn DEF Points
  <1>7. CASE objects' = objects \cup {s} /\ UNCHANGED late /\ GoesOn(w, "put")
    BY <1>1, <1>4, <1>6, <1>7, BucketMoves
  <1>8. CASE UNCHANGED <<objects, late>> /\ GoesOn(w, "refuse")
    <2>1. BucketInv'
      BY <1>1, <1>8 DEF BucketInv, rows
    <2> QED
      BY <1>1, <1>6, <1>8, <2>1, BucketMoves
  <1>9. CASE /\ \/ objects' = objects \cup {s} /\ UNCHANGED late
                \/ late' = late \cup {[what |-> "payload", of |-> s]} /\ UNCHANGED objects
             /\ GoesOn(w, "pend")
    BY <1>1, <1>4, <1>5, <1>6, <1>9, BucketMoves
  <1> QED
    BY <1>7, <1>8, <1>9 DEF Stage

LEMMA InstallFacts ==
  ASSUME BucketInv, NEW s \in Seqs, s < chan.next, s \in objects, Installs(s),
         UNCHANGED <<rows, objects>>, late' \subseteq late
  PROVE  BucketInv' /\ ever \subseteq ever' /\ s \in ever' /\ served' = s
  BY DEF BucketInv, Installs, rows, Seqs, Manifests

LEMMA PutManifestStep ==
  ASSUME IInv, NEW w \in Workers, PutManifest(w)
  PROVE  IInv'
  <1> DEFINE s == proc[w].att
  <1>1. /\ WorkerInv /\ BucketInv /\ UNCHANGED <<rows, objects, sweep>> /\ SpentInv'
    BY FaultSpent DEF IInv, PutManifest, SpentInv
  <1>2. s \in Seqs /\ s < chan.next /\ ~att[s].aged
    BY Working DEF PutManifest, Delivering, Points
  <1>3. s # 0 /\ ~att'[s].aged /\ s \in objects
    BY <1>1, <1>2 DEF rows, Seqs, WorkerInv, WorkerOK, PutManifest
  <1>4. ASSUME Installs(s), UNCHANGED late
        PROVE  /\ BucketInv' /\ ever \subseteq ever' /\ s \in ever'
               /\ served' = s /\ ~att[served'].aged
    BY <1>1, <1>2, <1>3, <1>4, InstallFacts
  <1>5. ASSUME late' = late \cup {[what |-> "manifest", of |-> s]}, UNCHANGED <<served, ever>>
        PROVE  BucketInv'
    <2> DEFINE r == [what |-> "manifest", of |-> s]
    <2>1. r \in LateType /\ r.of = s
      BY <1>2 DEF LateType
    <2> HIDE DEF r
    <2>2. late' = late \cup {r}
      BY <1>5 DEF r
    <2> QED
      BY <1>1, <1>2, <1>3, <1>5, <2>1, <2>2 DEF BucketInv, rows
  <1>6. ASSUME NEW p \in {"complete", "pend"}, GoesOn(w, p), p = "complete" => s \in ever', Kept
        PROVE  WorkerInv'
    BY <1>1, <1>3, <1>6, WorkerGoesOn DEF Points
  <1> DEFINE goes == proc' = [proc EXCEPT ![w].at = "read", ![w].why = "uncertain"]
  <1>7. ASSUME goes, Kept PROVE WorkerInv'
    <2>1. WorkerOK(proc[w])
      BY <1>1 DEF WorkerInv
    <2>2. /\ proc' = [v \in Workers |-> proc'[v]]
          /\ \A v \in Workers : v # w => proc'[v] = proc[v]
          /\ proc'[w] \in ProcType /\ proc'[w].at = "read"
          /\ proc'[w].att = s /\ proc'[w].seen = proc[w].seen
      BY <1>1, <1>7, <2>1 DEF WorkerInv, WorkerOK, ProcType, Points
    <2>3. WorkerOK(proc[w])'
      BY <1>1, <1>3, <1>7, <2>1, <2>2
         DEF WorkerOK, Kept, ChanType, ProcType, Manifests, Delivering, Seqs, Points
    <2> QED
      BY <1>1, <1>7, <2>2, <2>3, OneWorker
  <1>8. CASE Installs(s) /\ GoesOn(w, "complete") /\ UNCHANGED late
    BY <1>1, <1>4, <1>6, <1>8, BucketMoves
  <1>9. CASE goes /\ UNCHANGED <<served, ever, late>>
    <2>1. BucketInv'
      BY <1>1, <1>9 DEF BucketInv, rows
    <2> QED
      BY <1>1, <1>7, <1>9, <2>1, BucketMoves
  <1>10. CASE /\ \/ Installs(s) /\ UNCHANGED late
                 \/ /\ late' = late \cup {[what |-> "manifest", of |-> s]}
                    /\ UNCHANGED <<served, ever>>
              /\ goes \/ GoesOn(w, "pend")
    <2>1. Kept => WorkerInv'
      BY <1>6, <1>7, <1>10
    <2>2. CASE Installs(s) /\ UNCHANGED late
      BY <1>1, <1>4, <2>1, <2>2, BucketMoves
    <2>3. CASE /\ late' = late \cup {[what |-> "manifest", of |-> s]}
               /\ UNCHANGED <<served, ever>>
      BY <1>1, <1>5, <2>1, <2>3, BucketMoves
    <2> QED
      BY <1>10, <2>2, <2>3
  <1> QED
    BY <1>8, <1>9, <1>10 DEF PutManifest

LEMMA LateRequestStep ==
  ASSUME IInv, NEW r \in late, LateRequest(r)
  PROVE  IInv'
  <1>1. /\ WorkerInv /\ BucketInv /\ UNCHANGED <<rows, proc, sweep, spent>> /\ SpentInv'
        /\ late' \subseteq late
    BY DEF IInv, LateRequest, SpentInv
  <1>2. r \in LateType /\ r.of \in Seqs /\ r.of < chan.next
    BY <1>1 DEF BucketInv, LateType
  <1>3. ASSUME Kept PROVE WorkerInv'
    BY <1>1, <1>3, WorkersStay DEF Kept
  <1>4. CASE objects' = objects \cup {r.of} /\ UNCHANGED <<served, ever>>
    <2>1. BucketInv'
      BY <1>1, <1>2, <1>4 DEF BucketInv, rows
    <2> QED
      BY <1>1, <1>3, <1>4, <2>1, BucketMoves
  <1>5. CASE r.what = "manifest" /\ Installs(r.of) /\ UNCHANGED objects
    <2>1. r.of \in objects /\ ~att[r.of].aged
      BY <1>1, <1>5 DEF BucketInv
    <2>2. BucketInv' /\ ever \subseteq ever' /\ served' = r.of
      BY <1>1, <1>2, <1>5, <2>1, InstallFacts
    <2> QED
      BY <1>1, <1>3, <1>5, <2>1, <2>2, BucketMoves
  <1>6. CASE UNCHANGED <<served, ever, objects>>
    <2>1. BucketInv'
      BY <1>1, <1>6 DEF BucketInv, rows
    <2> QED
      BY <1>1, <1>3, <1>6, <2>1, BucketMoves
  <1> QED
    BY <1>4, <1>5, <1>6 DEF LateRequest

LEMMA OutsideStep ==
  ASSUME IInv, Outside
  PROVE  IInv'
  <1>1. /\ WorkerInv /\ BucketInv /\ UNCHANGED <<rows, ever, objects, late, proc, sweep>>
        /\ SpentInv' /\ served' \in {0, Foreign} /\ RowInv
    BY DEF IInv, Outside, SpentInv
  <1>2. served' \notin Seqs /\ served' \in Manifests /\ served' < chan.next
    BY <1>1 DEF Seqs, Foreign, Manifests, RowInv, ChanType
  <1>3. BucketInv'
    BY <1>1, <1>2 DEF BucketInv, rows
  <1>4. ASSUME Kept PROVE WorkerInv'
    BY <1>1, <1>4, WorkersStay DEF Kept
  <1> QED
    BY <1>1, <1>2, <1>3, <1>4, BucketMoves

-------------------------------------------------------------------------------
(* Steps of the collection.                                                *)

\* Objects of aged attempts that are not served are deleted.
LEMMA DeleteMoves ==
  ASSUME IInv, NEW s \in Seqs, att[s].aged, served # s, objects' = objects \ {s},
         Rows(s),
         UNCHANGED <<served, ever, late, proc>>, chan' = chan, SweepInv', SpentInv',
         \A t \in Seqs : att'[t].state = "current" => att[t].state = "current"
  PROVE  IInv'
  <1>1. RowInv /\ WorkerInv /\ BucketInv /\ chan \in ChanType
    BY DEF IInv, RowInv
  <1>2. BucketInv'
    BY <1>1 DEF BucketInv, Rows, LateType
  <1>3. ReceiptsWereServed'
    BY DEF IInv, ReceiptsWereServed
  <1>4. WorkerInv'
    <2>1. ASSUME NEW v \in Workers PROVE WorkerOK(proc[v])'
      <3>1. WorkerOK(proc[v])
        BY <1>1 DEF WorkerInv
      <3>2. proc[v].at \in Delivering => proc[v].att \in Seqs
        BY <3>1 DEF WorkerOK, ProcType, Seqs
      <3>3. "put" \in Delivering \ {"claim"}
        BY DEF Delivering, Points
      <3> QED
        BY <3>1, <3>2, <3>3 DEF WorkerOK, Rows
    <2> QED
      BY <1>1, <2>1 DEF WorkerInv
  <1> QED
    BY <1>2, <1>3, <1>4 DEF IInv, Rows

\* A step of the pass that deletes nothing.
LEMMA SweepMoves ==
  ASSUME IInv, UNCHANGED <<rows, bucket, proc, spent>>, SweepInv'
  PROVE  IInv'
  <1>1. RowInv' /\ Kept
    BY DEF IInv, rows, bucket, RowInv, LeaseInv, AttInv, Kept, ChanType, Seqs
  <1>2. BucketInv' /\ ReceiptsWereServed'
    BY DEF IInv, rows, bucket, BucketInv, ReceiptsWereServed
  <1>3. WorkerInv'
    BY <1>1, WorkersStay DEF IInv, Kept
  <1> QED
    BY <1>1, <1>2, <1>3 DEF IInv, SpentInv

LEMMA CollectConfirmStep ==
  ASSUME IInv, CollectConfirm
  PROVE  IInv'
  <1>1. served \in Manifests
    BY DEF IInv, BucketInv
  <1>2. /\ sweep' = [at |-> "confirmed", keep |-> {served}, victims |-> {}]
        /\ UNCHANGED <<rows, bucket, proc, spent>>
    BY DEF CollectConfirm
  <1>3. SweepInv'
    BY <1>1, <1>2 DEF SweepInv, bucket
  <1> QED
    BY <1>2, <1>3, SweepMoves

LEMMA CollectListStep ==
  ASSUME IInv, CollectList
  PROVE  IInv'
  <1> DEFINE keep == sweep.keep \cup {s \in Seqs : att[s].state \in Unresolved}
             victims == Retired \ keep
  <1>1. /\ sweep' = [at |-> "listed", keep |-> keep, victims |-> victims]
        /\ UNCHANGED <<rows, bucket, proc, spent>> /\ SweepInv
        /\ sweep.at # "idle"
    BY DEF CollectList, IInv
  <1>2. /\ keep \in SUBSET Manifests /\ victims \in SUBSET Seqs /\ sweep.keep \subseteq keep
        /\ \A s \in victims : att[s].aged /\ s \notin keep
    BY <1>1 DEF SweepInv, Retired, Seqs, Manifests
  <1> HIDE DEF keep, victims
  <1>3. /\ sweep'.at = "listed" /\ sweep'.keep = keep /\ sweep'.victims = victims
        /\ sweep' \in [at : {"idle", "confirmed", "listed"},
                       keep : SUBSET Manifests, victims : SUBSET Seqs]
    BY <1>1, <1>2
  <1>4. SweepInv'
    BY <1>1, <1>2, <1>3 DEF SweepInv, bucket, rows
  <1> QED
    BY <1>1, <1>4, SweepMoves

LEMMA CollectEndStep ==
  ASSUME IInv, CollectEnd
  PROVE  IInv'
  <1>1. sweep' = NoSweep /\ UNCHANGED <<rows, bucket, proc, spent>>
    BY DEF CollectEnd
  <1>2. SweepInv'
    BY <1>1 DEF SweepInv, NoSweep
  <1> QED
    BY <1>1, <1>2, SweepMoves

LEMMA CollectRetiredStep ==
  ASSUME IInv, NEW s \in Seqs, CollectRetired(s)
  PROVE  IInv'
  <1>1. /\ SweepInv /\ SpentInv /\ RowInv /\ s \in sweep.victims
        /\ objects' = objects \ {s}
        /\ UNCHANGED <<chan, served, ever, late, proc>>
    BY DEF IInv, CollectRetired
  <1>2. att[s].aged /\ s \notin sweep.keep /\ sweep.at # "idle" /\ served # s
    BY <1>1 DEF SweepInv
  <1>3. SpentInv'
    BY <1>1, FaultSpent DEF CollectRetired, SpentInv
  <1>4. CASE UNCHANGED att
    <2>1. Rows(s)
      BY <1>1, <1>4 DEF Rows, RowInv, LeaseInv, AttInv
    <2>2. sweep' = NoSweep \/ sweep' = [sweep EXCEPT !.victims = @ \ {s}]
      BY DEF CollectRetired
    <2>3. SweepInv'
      BY <1>1, <1>4, <2>2 DEF SweepInv, NoSweep
    <2> QED
      BY <1>1, <1>2, <1>3, <1>4, <2>1, <2>3, DeleteMoves
  <1>5. CASE /\ att[s].state = "superseded"
             /\ att' = [att EXCEPT ![s].state = "pruned"]
             /\ sweep' = [sweep EXCEPT !.victims = @ \ {s}]
    <2>1. att \in [Seqs -> AttType] /\ LeaseInv /\ AttInv
      BY <1>1 DEF RowInv
    <2>2. /\ att' \in [Seqs -> AttType]
          /\ \A t \in Seqs : t # s => att'[t] = att[t]
          /\ att'[s].state = "pruned" /\ att'[s].live = att[s].live
          /\ att'[s].token = att[s].token /\ att'[s].aged = att[s].aged
          /\ att'[s].pred = att[s].pred
      BY <1>5, <2>1 DEF AttType, States
    <2>3. LeaseInv'
      BY <1>5, <2>1, <2>2 DEF LeaseInv
    <2>4. s < chan.next
      BY <1>1, <1>5, <2>1 DEF AttInv, NoAttempt, RowInv, ChanType, Seqs
    <2>5. AttInv'
      <3>1. /\ att'[s].pred < s /\ att'[s].aged /\ att'[s].state \in Closed
            /\ ~(s >= chan'.next)
        BY <1>1, <1>2, <2>1, <2>2, <2>4 DEF AttInv, RowInv, ChanType, Seqs, Closed
      <3>2. chan' = chan
        BY <1>1
      <3> QED
        BY <2>1, <2>2, <3>1, <3>2 DEF AttInv
    <2>6. Rows(s)
      BY <1>1, <2>2, <2>3, <2>5 DEF RowInv, Rows
    <2>7. SweepInv'
      BY <1>1, <1>5, <2>2 DEF SweepInv
    <2> QED
      BY <1>1, <1>2, <1>3, <2>2, <2>6, <2>7, DeleteMoves
  <1> QED
    BY <1>4, <1>5 DEF CollectRetired

LEMMA CollectOrphanStep ==
  ASSUME IInv, NEW s \in Seqs, CollectOrphan(s)
  PROVE  IInv'
  <1>1. /\ SweepInv /\ RowInv /\ objects' = objects \ {s} /\ s \notin sweep.keep
        /\ UNCHANGED <<rows, served, ever, late, proc, sweep, spent>>
    BY DEF IInv, CollectOrphan
  <1>2. att[s].state = "pruned"
    <2>1. s \in 1..s
      BY DEF Seqs
    <2> QED
      BY <2>1 DEF CollectOrphan, Covered
  <1>3. att[s].aged /\ served # s
    BY <1>1, <1>2 DEF RowInv, AttInv, SweepInv, CollectOrphan
  <1>4. Rows(s) /\ SweepInv' /\ SpentInv' /\ UNCHANGED <<chan, att>>
    BY <1>1 DEF Rows, RowInv, LeaseInv, AttInv, SweepInv, rows, IInv, SpentInv
  <1> QED
    BY <1>1, <1>3, <1>4, DeleteMoves

-------------------------------------------------------------------------------
(* The invariant.                                                          *)

LEMMA Initially == Init => IInv
  <1> SUFFICES ASSUME Init PROVE IInv
    OBVIOUS
  <1>1. /\ chan \in ChanType /\ chan.next = 1 /\ chan.receipt = 0 /\ chan.active = 0
    BY DEF Init, ChanType, Manifests
  <1>2. NoAttempt \in AttType /\ NoAttempt.live = FALSE /\ NoAttempt.token = NoWorker
        /\ NoAttempt.aged = FALSE /\ NoAttempt.pred = 0 /\ NoAttempt.state = "absent"
    BY DEF NoAttempt, AttType, States, Manifests
  <1>3. att = [s \in Seqs |-> NoAttempt]
    BY DEF Init
  <1>4. RowInv
    BY <1>1, <1>2, <1>3 DEF RowInv, LeaseInv, AttInv, Seqs
  <1>5. BucketInv
    BY <1>1 DEF Init, BucketInv, Seqs, Manifests
  <1>6. WorkerOK(Idle)
    BY <1>1, IdleFacts DEF WorkerOK, Delivering, Seqs
  <1>7. WorkerInv
    BY <1>6 DEF Init, WorkerInv
  <1>8. SweepInv /\ SpentInv
    BY DEF Init, SweepInv, NoSweep, SpentInv
  <1>9. ReceiptsWereServed
    BY <1>1, <1>2, <1>3 DEF ReceiptsWereServed, Seqs
  <1> QED
    BY <1>4, <1>5, <1>7, <1>8, <1>9 DEF IInv

LEMMA Inductive == IInv /\ [Next]_vars => IInv'
  <1> SUFFICES ASSUME IInv, [Next]_vars PROVE IInv'
    OBVIOUS
  <1>1. CASE PublishStatic
    BY <1>1, PublishStaticStep
  <1>2. CASE MarkDirty
    BY <1>2, MarkDirtyStep
  <1>3. ASSUME NEW w \in Workers, Deliver(w) PROVE IInv'
    BY <1>3, ScanStep, ReadToComposeStep, AdoptStep, QueueStep, LoadStep, ClaimStep,
       StageStep, PutManifestStep, ReadBackStep, CompleteStep, SupersedeStep,
       RetireStaleStep, ServeThenSupersedeStep, BlockOrPendStep, ForgetStep DEF Deliver
  <1>4. ASSUME NEW w \in Workers, Crash(w) PROVE IInv'
    BY <1>4, CrashStep
  <1>5. ASSUME NEW s \in Seqs, LeaseEnds(s) \/ GracePasses(s) PROVE IInv'
    BY <1>5, LeaseEndsStep, GracePassesStep
  <1>6. ASSUME NEW r \in late, LateRequest(r) PROVE IInv'
    BY <1>6, LateRequestStep
  <1>7. CASE Outside
    BY <1>7, OutsideStep
  <1>8. CASE Collect
    BY <1>8, CollectConfirmStep, CollectListStep, CollectEndStep, CollectRetiredStep,
       CollectOrphanStep DEF Collect
  <1>9. CASE UNCHANGED vars
    <2>1. UNCHANGED <<rows, bucket, proc, sweep, spent>>
      BY <1>9 DEF vars, rows, bucket
    <2>2. SweepInv'
      BY <1>9 DEF vars, IInv, SweepInv
    <2> QED
      BY <2>1, <2>2, SweepMoves
  <1> QED
    BY <1>1, <1>2, <1>3, <1>4, <1>5, <1>6, <1>7, <1>8, <1>9 DEF Next

LEMMA Invariant == Spec => []IInv
  <1> QED
    BY Initially, Inductive, PTL DEF Spec

LEMMA Consequences == IInv => TypeOK /\ ReceiptsWereServed /\ ServedIsComplete
  <1> SUFFICES ASSUME IInv PROVE TypeOK /\ ReceiptsWereServed /\ ServedIsComplete
    OBVIOUS
  <1>1. proc \in [Workers -> ProcType]
    BY DEF IInv, WorkerInv, WorkerOK
  <1>2. TypeOK
    BY <1>1 DEF IInv, TypeOK, RowInv, BucketInv, SweepInv, SpentInv, LeaseInv,
       ChanType, AttType, ProcType, LateType
  <1> QED
    BY <1>2 DEF IInv, BucketInv, ServedIsComplete

\* Every variable keeps its type, whatever overlaps, fails or arrives late: a
\* lease is live only under the token of a publisher, on an attempt that is
\* being switched.
THEOREM FeedTypes == Spec => []TypeOK
  BY Invariant, Consequences, PTL

\* complete_locked/4, serve_then_supersede/3 and adopt_receipt/4 record only
\* manifests that the public was really given, for any number of publishers,
\* failures and crashes.
THEOREM ReceiptsAreServed == Spec => []ReceiptsWereServed
  BY Invariant, Consequences, PTL

\* The collection of collect_publication/4 never deletes the payloads of the
\* manifest that is served, also of one that a request installs after its
\* timeout.
THEOREM PayloadsStay == Spec => []ServedIsComplete
  BY Invariant, Consequences, PTL

-------------------------------------------------------------------------------
(* What a step may never do.                                               *)

LEMMA Advances ==
  ASSUME IInv, [Next]_vars, {served, served'} \subseteq Seqs
  PROVE  served' >= served
  <1>1. /\ served \in Seqs /\ served' \in Seqs
        /\ \A s \in Seqs : att[s].pred < s
    BY DEF IInv, RowInv, AttInv
  <1>2. CASE served' = served
    BY <1>1, <1>2 DEF Seqs
  <1>3. ASSUME NEW w \in Workers, PutManifest(w), served' # served PROVE served' >= served
    <2>1. proc[w].att \in Seqs
      BY <1>3, Working DEF PutManifest, Delivering, Points
    <2>2. served = att[proc[w].att].pred /\ served' = proc[w].att
      BY <1>3 DEF PutManifest, Accepts, Installs
    <2> QED
      BY <1>1, <2>1, <2>2 DEF Seqs
  <1>4. ASSUME NEW r \in late, LateRequest(r), served' # served PROVE served' >= served
    <2>1. r.of \in Seqs
      BY DEF IInv, BucketInv, LateType
    <2>2. served = att[r.of].pred /\ served' = r.of
      BY <1>4 DEF LateRequest, Accepts, Installs
    <2> QED
      BY <1>1, <2>1, <2>2 DEF Seqs
  <1>5. ~Outside
    BY <1>1 DEF Outside, Foreign, Seqs
  <1>6. \/ served' = served
        \/ \E w \in Workers : PutManifest(w)
        \/ \E r \in late : LateRequest(r)
    BY <1>5 DEF Next, vars, PublishStatic, MarkDirty, Deliver, Scan, ReadToCompose, Adopt,
       Queue, Load, Claim, Stage, ReadBack, Complete, Supersede, RetireStale,
       ServeThenSupersede, BlockOrPend, Forget, Crash, LeaseEnds, GracePasses, Collect,
       CollectConfirm, CollectList, CollectEnd, CollectRetired, CollectOrphan, bucket
  <1> QED
    BY <1>2, <1>3, <1>4, <1>6

\* The public never goes back to an earlier generation, whichever publishers
\* overlap and whatever arrives late: an attempt replaces only the manifest it
\* names, and names one with a smaller sequence number.
THEOREM ServedAdvances == Spec => ServedNeverGoesBack
  <1>1. IInv /\ [Next]_vars => [{served, served'} \subseteq Seqs => served' >= served]_vars
    BY Advances
  <1> QED
    BY <1>1, Invariant, PTL DEF Spec, ServedNeverGoesBack

\* What a step does to the state of an attempt.
StateSteps(s) ==
    \/ att'[s].state = att[s].state
    \/ att[s].state = "absent" /\ att'[s].state = "pending"
    \/ att[s].state \in Unresolved /\ att'[s].state \in {"switching", "blocked"}
    \/ att[s].state \in Unresolved /\ att'[s].state = "current" /\ att[s].rev = chan.desired
    \/ att'[s].state = "superseded" /\ att[s].state # "pruned"
    \/ att'[s].state = "pruned" /\ att[s].state = "superseded"

LEMMA InsertState ==
  ASSUME IInv, chan.next <= MaxSeq, NEW r \in 0..MaxRevision, NEW c \in 0..MaxRevision,
         Insert(r, c), NEW s \in Seqs
  PROVE  StateSteps(s)
  <1>1. /\ \A t \in Seqs : t # chan.next => att'[t] = att[t]
        /\ att'[chan.next].state = "pending"
    BY InsertFacts DEF IInv
  <1>2. s = chan.next => att[s] = NoAttempt
    BY DEF IInv, RowInv, AttInv, Seqs
  <1> QED
    BY <1>1, <1>2 DEF StateSteps, NoAttempt

LEMMA ReleaseState ==
  ASSUME IInv, NEW u \in Seqs, NEW state \in {"current", "superseded", "blocked", "switching"},
         Released(u, state), att[u].state # "pruned", NEW s \in Seqs,
         state \in {"blocked", "switching"} => att[u].state \in Unresolved,
         state = "current" => att[u].state \in Unresolved /\ att[u].rev = chan.desired
  PROVE  StateSteps(s)
  <1>1. state \in States
    BY DEF States, Unresolved
  <1>2. /\ att'[u].state = state
        /\ \A t \in Seqs : t # u => att'[t] = att[t]
    BY <1>1, ReleasedFacts DEF IInv
  <1> QED
    BY <1>2 DEF StateSteps

LEMMA DeliverState ==
  ASSUME IInv, NEW w \in Workers, Deliver(w), NEW s \in Seqs
  PROVE  StateSteps(s)
  <1> DEFINE u == proc[w].att
  <1>1. ASSUME proc[w].at \in Delivering \ {"claim"}
        PROVE  u \in Seqs /\ att[u].state # "pruned" /\ (Holds(w) => att[u].state \in Unresolved)
    <2>1. u \in Seqs /\ att[u].state # "pruned"
      BY <1>1, Working
    <2>2. Holds(w) => att[u].state = "switching"
      BY <2>1 DEF IInv, RowInv, LeaseInv, Holds
    <2> QED
      BY <2>1, <2>2 DEF Unresolved
  <1>2. CASE UNCHANGED att
    BY <1>2 DEF StateSteps
  <1>3. CASE Queue(w)
    <2>1. chan.desired \in 0..MaxRevision /\ proc[w].draft \in 0..MaxRevision
      BY DEF IInv, RowInv, ChanType, WorkerInv, WorkerOK, ProcType
    <2> QED
      BY <1>2, <1>3, <2>1, InsertState DEF Queue, rows
  <1>4. CASE Claim(w)
    <2>1. att \in [Seqs -> AttType]
      BY DEF IInv, RowInv
    <2>2. CASE /\ att[u].state \in Unresolved
               /\ att' = [att EXCEPT ![u].token = w, ![u].live = TRUE, ![u].state = "switching"]
      <3>1. /\ s # u => att'[s] = att[s]
            /\ s = u => att'[s].state = "switching"
        BY <2>1, <2>2 DEF AttType
      <3> QED
        BY <2>2, <3>1 DEF StateSteps
    <2> QED
      BY <1>2, <1>4, <2>2 DEF Claim
  <1>5. CASE Complete(w)
    <2>1. u \in Seqs /\ att[u].state # "pruned" /\ (Holds(w) => att[u].state \in Unresolved)
      BY <1>1, <1>5 DEF Complete, Delivering, Points
    <2>2. \/ Released(u, "current") /\ att[u].rev = chan.desired /\ Holds(w)
          \/ Released(u, "superseded")
          \/ UNCHANGED att
      BY <1>5 DEF Complete, Finish, rows
    <2> QED
      BY <1>2, <2>1, <2>2, ReleaseState
  <1>6. CASE Supersede(w)
    <2>1. u \in Seqs /\ att[u].state # "pruned"
      BY <1>1, <1>6 DEF Supersede, Delivering, Points
    <2> QED
      BY <1>2, <1>6, <2>1, ReleaseState DEF Supersede, rows
  <1>7. CASE RetireStale(w) \/ ServeThenSupersede(w)
    <2>1. u \in Seqs /\ att[u].state # "pruned"
      BY <1>1, <1>7 DEF RetireStale, ServeThenSupersede, Delivering, Points
    <2> QED
      BY <1>7, <2>1, ReleaseState DEF RetireStale, ServeThenSupersede
  <1>8. CASE BlockOrPend(w)
    <2>1. u \in Seqs /\ att[u].state # "pruned" /\ (Holds(w) => att[u].state \in Unresolved)
      BY <1>1, <1>8 DEF BlockOrPend, Delivering, Points
    <2>2. \/ Released(u, "blocked") /\ Holds(w)
          \/ Released(u, "switching") /\ Holds(w)
          \/ UNCHANGED att
      BY <1>8 DEF BlockOrPend
    <2> QED
      BY <1>2, <2>1, <2>2, ReleaseState
  <1>9. CASE Forget(w)
    <2>1. proc[w].prev \in Seqs
      BY <1>9 DEF IInv, WorkerInv, WorkerOK, Forget, ProcType, Seqs
    <2> QED
      BY <1>2, <1>9, <2>1, ReleaseState DEF Forget
  <1> QED
    BY <1>2, <1>3, <1>4, <1>5, <1>6, <1>7, <1>8, <1>9 DEF Deliver, Scan, ReadToCompose,
       Adopt, Load, Stage, PutManifest, ReadBack, rows

LEMMA NextState ==
  ASSUME IInv, [Next]_vars, NEW s \in Seqs
  PROVE  StateSteps(s)
  <1>1. CASE UNCHANGED att
    BY <1>1 DEF StateSteps
  <1>2. CASE PublishStatic
    <2>1. chan.desired + 1 \in 0..MaxRevision
      BY <1>2 DEF IInv, RowInv, ChanType, PublishStatic
    <2> QED
      BY <1>2, <2>1, InsertState DEF PublishStatic
  <1>3. ASSUME NEW w \in Workers, Deliver(w) PROVE StateSteps(s)
    BY <1>3, DeliverState
  <1>4. ASSUME NEW u \in Seqs, LeaseEnds(u) \/ GracePasses(u) PROVE StateSteps(s)
    <2>1. att'[s].state = att[s].state
      BY <1>4 DEF LeaseEnds, GracePasses, IInv, RowInv, AttType
    <2> QED
      BY <2>1 DEF StateSteps
  <1>5. ASSUME NEW u \in Seqs, CollectRetired(u) PROVE StateSteps(s)
    <2>1. att \in [Seqs -> AttType]
      BY DEF IInv, RowInv
    <2>2. CASE att[u].state = "superseded" /\ att' = [att EXCEPT ![u].state = "pruned"]
      <3>1. /\ s # u => att'[s] = att[s]
            /\ s = u => att'[s].state = "pruned"
        BY <2>1, <2>2 DEF AttType
      <3> QED
        BY <2>2, <3>1 DEF StateSteps
    <2> QED
      BY <1>1, <1>5, <2>2 DEF CollectRetired
  <1> QED
    BY <1>1, <1>2, <1>3, <1>4, <1>5 DEF Next, vars, MarkDirty, Crash, LateRequest, Outside,
       Collect, CollectConfirm, CollectList, CollectEnd, CollectOrphan, rows

-------------------------------------------------------------------------------
(* Who decides an attempt.                                                 *)

\* A publisher that retires an attempt, or reads back for that, has found an
\* intent that is newer, and none is withdrawn.
Stale(e) == e.at \in {"retire", "serve"} \/ (e.at = "read" /\ e.why = "stale")

\* What a step does to its publisher: only the claim makes it stale, and only
\* queueing gives it an attempt to retire.
WorkerStep(w) ==
    /\ \A v \in Workers : v # w => proc'[v] = proc[v]
    /\ \/ ~Stale(proc'[w]) /\ proc'[w].prev \in {0, proc[w].prev}
       \/ /\ ~Stale(proc'[w]) /\ ~Open /\ proc'[w].prev = chan.active
          /\ chan'.active = chan.next
       \/ /\ proc'[w].prev = proc[w].prev /\ proc'[w].att = proc[w].att
          /\ Stale(proc[w]) \/ (proc[w].at = "claim" /\ att[proc[w].att].rev # chan.desired)

LEMMA StopStep ==
  ASSUME IInv, NEW w \in Workers, Stops(w)
  PROVE  WorkerStep(w)
  <1>1. proc'[w] = Idle /\ \A v \in Workers : v # w => proc'[v] = proc[v]
    BY DEF IInv, WorkerInv, Stops
  <1> QED
    BY <1>1 DEF WorkerStep, Stale, Idle

LEMMA PointFacts ==
  ASSUME IInv, NEW w \in Workers, NEW p, GoesOn(w, p)
  PROVE  /\ \A v \in Workers : v # w => proc'[v] = proc[v]
         /\ proc'[w].at = p /\ proc'[w].att = proc[w].att
         /\ proc'[w].prev = proc[w].prev /\ proc'[w].why = proc[w].why
  <1>1. proc = [v \in Workers |-> proc[v]] /\ proc[w] \in ProcType
    BY DEF IInv, WorkerInv, WorkerOK
  <1>2. proc'[w] = [proc[w] EXCEPT !.at = p] /\ \A v \in Workers : v # w => proc'[v] = proc[v]
    BY <1>1 DEF GoesOn
  <1> QED
    BY <1>1, <1>2 DEF ProcType

LEMMA PointStep ==
  ASSUME IInv, NEW w \in Workers, NEW p, GoesOn(w, p), p \notin {"read", "retire", "serve"}
  PROVE  WorkerStep(w)
  BY PointFacts DEF WorkerStep, Stale

LEMMA AfterCurrentStep ==
  ASSUME IInv, NEW w \in Workers, AfterCurrent(w)
  PROVE  WorkerStep(w) /\ proc'[w].at \in {"idle", "forget"}
  <1>1. proc = [v \in Workers |-> proc[v]]
    BY DEF IInv, WorkerInv
  <1>2. /\ \A v \in Workers : v # w => proc'[v] = proc[v]
        /\ \/ proc'[w] = Idle
           \/ proc'[w] = [Idle EXCEPT !.at = "forget", !.prev = proc[w].prev]
    BY <1>1 DEF AfterCurrent
  <1>3. \/ proc'[w] = Idle
        \/ proc'[w].at = "forget" /\ proc'[w].prev = proc[w].prev
    BY <1>2 DEF Idle
  <1>4. Idle.at = "idle" /\ Idle.prev = 0
    BY DEF Idle
  <1> QED
    BY <1>2, <1>3, <1>4 DEF WorkerStep, Stale

LEMMA DeliverWorker ==
  ASSUME IInv, NEW w \in Workers, Deliver(w)
  PROVE  WorkerStep(w)
  <1> DEFINE e == proc[w]
  <1>0. proc = [v \in Workers |-> proc[v]] /\ e \in ProcType /\ chan \in ChanType
    BY DEF IInv, RowInv, WorkerInv, WorkerOK
  <1>1. CASE Scan(w)
    <2>1. CASE proc' = [proc EXCEPT ![w].at = "compose", ![w].snap = chan.receipt]
      <3>1. /\ proc'[w] = [e EXCEPT !.at = "compose", !.snap = chan.receipt]
            /\ \A v \in Workers : v # w => proc'[v] = proc[v]
        BY <1>0, <2>1
      <3>2. proc'[w].at = "compose" /\ proc'[w].prev = e.prev
        BY <1>0, <3>1 DEF ProcType
      <3> QED
        BY <3>1, <3>2 DEF WorkerStep, Stale
    <2> QED
      BY <1>1, <2>1, PointStep DEF Scan
  <1>2. CASE ReadToCompose(w)
    <2>1. CASE proc' = [proc EXCEPT ![w].at = "adopt", ![w].seen = served]
      <3>1. /\ proc'[w] = [e EXCEPT !.at = "adopt", !.seen = served]
            /\ \A v \in Workers : v # w => proc'[v] = proc[v]
        BY <1>0, <2>1
      <3>2. proc'[w].at = "adopt" /\ proc'[w].prev = e.prev
        BY <1>0, <3>1 DEF ProcType
      <3> QED
        BY <3>1, <3>2 DEF WorkerStep, Stale
    <2> QED
      BY <1>2, <2>1, StopStep DEF ReadToCompose
  <1>3. CASE Adopt(w)
    <2>1. /\ proc'[w] = [Idle EXCEPT !.at = "queue", !.draft = chan.desired]
          /\ \A v \in Workers : v # w => proc'[v] = proc[v]
      BY <1>0, <1>3 DEF Adopt
    <2>2. proc'[w].at = "queue" /\ proc'[w].prev = 0
      BY <2>1 DEF Idle
    <2> QED
      BY <2>1, <2>2 DEF WorkerStep, Stale
  <1>4. CASE Queue(w)
    <2>1. CASE /\ ~Open /\ Insert(chan.desired, e.draft)
               /\ proc' = [proc EXCEPT ![w] = [Idle EXCEPT !.at = "load", !.prev = chan.active]]
      <3>1. /\ proc'[w] = [Idle EXCEPT !.at = "load", !.prev = chan.active]
            /\ \A v \in Workers : v # w => proc'[v] = proc[v]
        BY <1>0, <2>1
      <3>2. proc'[w].at = "load" /\ proc'[w].prev = chan.active
        BY <3>1 DEF Idle
      <3>3. chan'.active = chan.next
        BY <1>0, <2>1 DEF Insert, ChanType
      <3> QED
        BY <2>1, <3>1, <3>2, <3>3 DEF WorkerStep, Stale
    <2> QED
      BY <1>4, <2>1, StopStep DEF Queue
  <1>5. CASE Load(w)
    <2>1. CASE proc' = [proc EXCEPT ![w].at = "claim", ![w].att = chan.active]
      <3>1. /\ proc'[w] = [e EXCEPT !.at = "claim", !.att = chan.active]
            /\ \A v \in Workers : v # w => proc'[v] = proc[v]
        BY <1>0, <2>1
      <3>2. proc'[w].at = "claim" /\ proc'[w].prev = e.prev
        BY <1>0, <3>1 DEF ProcType
      <3> QED
        BY <3>1, <3>2 DEF WorkerStep, Stale
    <2> QED
      BY <1>5, <2>1, StopStep DEF Load
  <1>6. CASE Claim(w)
    <2> DEFINE to == IF att[e.att].state = "switching" THEN "read" ELSE "stage"
    <2>1. CASE GoesOn(w, "retire") /\ att[e.att].rev # chan.desired
      BY <1>6, <2>1, PointFacts DEF Claim, WorkerStep
    <2>2. CASE /\ att[e.att].rev # chan.desired
               /\ proc' = [proc EXCEPT ![w].at = "read", ![w].why = "stale"]
      <3>1. /\ proc'[w] = [e EXCEPT !.at = "read", !.why = "stale"]
            /\ \A v \in Workers : v # w => proc'[v] = proc[v]
        BY <1>0, <2>2
      <3>2. proc'[w].prev = e.prev /\ proc'[w].att = e.att
        BY <1>0, <3>1 DEF ProcType
      <3> QED
        BY <1>6, <2>2, <3>1, <3>2 DEF Claim, WorkerStep
    <2>3. CASE proc' = [proc EXCEPT ![w].why = "retry", ![w].at = to]
      <3>1. /\ proc'[w] = [e EXCEPT !.why = "retry", !.at = to]
            /\ \A v \in Workers : v # w => proc'[v] = proc[v]
        BY <1>0, <2>3
      <3>2. /\ proc'[w].prev = e.prev /\ proc'[w].why = "retry"
            /\ proc'[w].at \in {"read", "stage"}
        BY <1>0, <3>1 DEF ProcType
      <3> QED
        BY <3>1, <3>2 DEF WorkerStep, Stale
    <2> QED
      BY <1>6, <2>1, <2>2, <2>3, StopStep, AfterCurrentStep DEF Claim
  <1>7. CASE Stage(w)
    BY <1>7, PointStep DEF Stage
  <1>8. CASE PutManifest(w)
    <2>1. CASE proc' = [proc EXCEPT ![w].at = "read", ![w].why = "uncertain"]
      <3>1. /\ proc'[w] = [e EXCEPT !.at = "read", !.why = "uncertain"]
            /\ \A v \in Workers : v # w => proc'[v] = proc[v]
        BY <1>0, <2>1
      <3>2. /\ proc'[w].at = "read" /\ proc'[w].why = "uncertain"
            /\ proc'[w].prev = e.prev
        BY <1>0, <3>1 DEF ProcType
      <3> QED
        BY <3>1, <3>2 DEF WorkerStep, Stale
    <2> QED
      BY <1>8, <2>1, PointStep DEF PutManifest
  <1>9. CASE ReadBack(w)
    <2> DEFINE to == AfterRead[e.why][Verdict(e.att, served)]
    <2>1. e.why # "stale" => to \notin {"read", "retire", "serve"} /\ Unread(e.why) = "pend"
      BY <1>0 DEF ProcType, AfterRead, Verdict, Unread
    <2>2. CASE proc' = [proc EXCEPT ![w].seen = served, ![w].at = to]
      <3> HIDE DEF to
      <3>1. /\ proc'[w] = [e EXCEPT !.seen = served, !.at = to]
            /\ \A v \in Workers : v # w => proc'[v] = proc[v]
        BY <1>0, <2>2
      <3>2. proc'[w].at = to /\ proc'[w].prev = e.prev /\ proc'[w].att = e.att
        BY <1>0, <3>1 DEF ProcType
      <3>3. e.at = "read"
        BY <1>9 DEF ReadBack
      <3> QED
        BY <2>1, <3>1, <3>2, <3>3 DEF WorkerStep, Stale
    <2>3. CASE GoesOn(w, Unread(e.why))
      <3>1. e.at = "read"
        BY <1>9 DEF ReadBack
      <3> QED
        BY <2>1, <2>3, <3>1, PointFacts DEF WorkerStep, Stale
    <2> QED
      BY <1>9, <2>2, <2>3 DEF ReadBack
  <1>10. CASE Complete(w)
    BY <1>10, StopStep, AfterCurrentStep DEF Complete, Finish
  <1>11. CASE Supersede(w) \/ RetireStale(w) \/ ServeThenSupersede(w) \/ BlockOrPend(w) \/ Forget(w)
    BY <1>11, StopStep DEF Supersede, RetireStale, ServeThenSupersede, BlockOrPend, Forget
  <1> QED
    BY <1>1, <1>2, <1>3, <1>4, <1>5, <1>6, <1>7, <1>8, <1>9, <1>10, <1>11 DEF Deliver

LEMMA EveryWorker ==
  ASSUME IInv, [Next]_vars, NEW w \in Workers
  PROVE  WorkerStep(w) \/ proc'[w] = proc[w]
  <1>1. CASE UNCHANGED proc
    BY <1>1
  <1>2. ASSUME NEW v \in Workers, Deliver(v) \/ Crash(v)
        PROVE  WorkerStep(w) \/ proc'[w] = proc[w]
    <2>1. WorkerStep(v)
      BY <1>2, DeliverWorker, StopStep DEF Crash
    <2> QED
      BY <2>1 DEF WorkerStep
  <1> QED
    BY <1>1, <1>2 DEF Next, vars, PublishStatic, MarkDirty, LeaseEnds, GracePasses, LateRequest,
       Outside, Collect, CollectConfirm, CollectList, CollectEnd, CollectRetired, CollectOrphan

\* What makes a publisher stale.
LEMMA StaleSteps ==
  ASSUME IInv, [Next]_vars, NEW w \in Workers, Stale(proc'[w])
  PROVE  /\ proc'[w].att = proc[w].att
         /\ Stale(proc[w]) \/ (proc[w].at = "claim" /\ att[proc[w].att].rev # chan.desired)
  BY EveryWorker DEF WorkerStep

\* The attempt that was active when a publisher queued its own.
LEMMA PrevSteps ==
  ASSUME IInv, [Next]_vars, NEW w \in Workers
  PROVE  \/ proc'[w].prev \in {0, proc[w].prev}
         \/ ~Open /\ proc'[w].prev = chan.active /\ chan'.active = chan.next
  BY EveryWorker DEF WorkerStep

\* What a step does to the rows: nothing but a new intent or receipt ...
Quiet ==
    /\ UNCHANGED att
    /\ chan'.active = chan.active /\ chan'.next = chan.next
    /\ chan'.desired >= chan.desired

\* ... an attempt is queued ...
Queued ==
    /\ chan.next \in Seqs /\ ~Open
    /\ \A t \in Seqs : t # chan.next => att'[t] = att[t]
    /\ att'[chan.next].state = "pending" /\ att'[chan.next].rev = chan'.desired
    /\ chan'.active = chan.next /\ chan'.next = chan.next + 1
    /\ chan'.desired >= chan.desired

\* (publish_static/4 queues one also while another is open) ...
QueuedStatic ==
    /\ chan.next \in Seqs
    /\ \A t \in Seqs : t # chan.next => att'[t] = att[t]
    /\ att'[chan.next].state = "pending" /\ att'[chan.next].rev = chan'.desired
    /\ chan'.active = chan.next /\ chan'.next = chan.next + 1
    /\ chan'.desired >= chan.desired
    /\ UNCHANGED proc

\* ... or one attempt changes:
Changes(s) ==
    /\ att'[s].rev = att[s].rev
    /\ \A t \in Seqs : t # s => att'[t] = att[t]
    /\ chan'.next = chan.next /\ chan'.desired = chan.desired

\* the publisher whose token it carries ends its delivery,
Decided(w, s) ==
    /\ Changes(s)
    /\ att[s].token = w /\ att[s].state = "switching" /\ proc'[w] # proc[w]
    /\ \/ att'[s].state = "current" /\ chan'.active = s
       \/ att'[s].state = "superseded" /\ chan'.active \in {0, chan.active} \ {s}
       \/ att'[s].state \in {"blocked", "switching"} /\ chan'.active = chan.active

\* one retires what it found stale,
Retires(w, s) ==
    /\ Changes(s)
    /\ proc[w].at \in {"retire", "serve"} /\ s = proc[w].att
    /\ att'[s].state \in Closed /\ chan'.active \in {0, chan.active} \ {s}

\* one takes its lease,
Takes(w, s) ==
    /\ Changes(s)
    /\ att[s].state \in Unresolved /\ ~att[s].live
    /\ att'[s].state = "switching" /\ att'[s].token = w /\ chan'.active = chan.active

\* one retires what its own attempt has replaced,
Forgets(w, s) ==
    /\ Changes(s)
    /\ s = proc[w].prev /\ att[s].state = "current"
    /\ att'[s].state = "superseded" /\ chan'.active = chan.active

\* its lease runs out, or it ages and is pruned.
Times(s) ==
    /\ Changes(s)
    /\ chan'.active = chan.active
    /\ \/ att'[s] = [att[s] EXCEPT !.live = FALSE]
       \/ att[s].state = "superseded" /\ att'[s].state \in Closed

RowStep ==
    \/ Quiet \/ QueuedStatic
    \/ Queued /\ \E w \in Workers : Queue(w)
    \/ \E w \in Workers, s \in Seqs :
          Decided(w, s) \/ Retires(w, s) \/ Takes(w, s) \/ Forgets(w, s)
    \/ \E s \in Seqs : Times(s)

LEMMA QueuedRows ==
  ASSUME IInv, chan.next <= MaxSeq, NEW r \in 0..MaxRevision, NEW c \in 0..MaxRevision,
         Insert(r, c), r >= chan.desired
  PROVE  /\ chan.next \in Seqs
         /\ \A t \in Seqs : t # chan.next => att'[t] = att[t]
         /\ att'[chan.next].state = "pending" /\ att'[chan.next].rev = chan'.desired
         /\ chan'.active = chan.next /\ chan'.next = chan.next + 1
         /\ chan'.desired >= chan.desired
  <1>1. /\ chan.next \in Seqs
        /\ \A t \in Seqs : t # chan.next => att'[t] = att[t]
        /\ att'[chan.next].state = "pending"
        /\ chan'.active = chan.next /\ chan'.next = chan.next + 1
    BY InsertFacts DEF IInv
  <1>2. chan'.desired = r
    BY DEF Insert, IInv, RowInv, ChanType
  <1>3. att'[chan.next].rev = r
    BY <1>1 DEF Insert, IInv, RowInv, NoAttempt
  <1> QED
    BY <1>1, <1>2, <1>3

LEMMA ReleaseChanges ==
  ASSUME IInv, NEW s \in Seqs, NEW state \in {"current", "superseded", "blocked", "switching"},
         Released(s, state), chan'.next = chan.next, chan'.desired = chan.desired
  PROVE  Changes(s) /\ att'[s].state = state
  <1>1. state \in States
    BY DEF States, Unresolved
  <1> QED
    BY <1>1, ReleasedFacts DEF IInv, Changes

LEMMA ClearedActive ==
  ASSUME IInv, NEW s \in Seqs, ClearActive(s)
  PROVE  /\ chan'.active \in {0, chan.active} \ {s}
         /\ chan'.next = chan.next /\ chan'.desired = chan.desired
  BY DEF ClearActive, IInv, RowInv, ChanType, Seqs

LEMMA DeliverRows ==
  ASSUME IInv, NEW w \in Workers, Deliver(w)
  PROVE  RowStep
  <1> DEFINE s == proc[w].att
  <1>0. /\ chan \in ChanType /\ att \in [Seqs -> AttType] /\ LeaseInv
        /\ WorkerOK(proc[w]) /\ proc = [v \in Workers |-> proc[v]]
    BY DEF IInv, RowInv, WorkerInv
  <1>1. CASE UNCHANGED rows
    BY <1>0, <1>1 DEF RowStep, Quiet, rows, ChanType
  <1>2. ASSUME proc[w].at \in Delivering \ {"claim"}
        PROVE  s \in Seqs /\ att[s].state # "pruned" /\ (Holds(w) => att[s].state = "switching")
    BY <1>0, <1>2, Working DEF LeaseInv, Holds
  <1>3. CASE Adopt(w)
    BY <1>0, <1>3 DEF Adopt, RowStep, Quiet, ChanType
  <1>4. CASE Queue(w)
    <2>1. chan.desired \in 0..MaxRevision /\ proc[w].draft \in 0..MaxRevision
      BY <1>0 DEF ChanType, WorkerOK, ProcType
    <2>2. CASE ~Open /\ chan.next <= MaxSeq /\ Insert(chan.desired, proc[w].draft)
      BY <1>4, <2>1, <2>2, QueuedRows DEF Queued, RowStep
    <2> QED
      BY <1>1, <1>4, <2>2 DEF Queue
  <1>5. CASE Claim(w)
    <2>1. s \in Seqs
      BY <1>0, <1>5 DEF Claim, WorkerOK, ProcType, Delivering, Points, Seqs
    <2>2. CASE /\ att[s].state \in Unresolved /\ ~att[s].live /\ chan' = chan
               /\ att' = [att EXCEPT ![s].token = w, ![s].live = TRUE, ![s].state = "switching"]
      <3>1. /\ \A t \in Seqs : t # s => att'[t] = att[t]
            /\ att'[s].state = "switching" /\ att'[s].token = w /\ att'[s].rev = att[s].rev
        BY <1>0, <2>1, <2>2 DEF AttType
      <3> QED
        BY <2>1, <2>2, <3>1 DEF Takes, Changes, RowStep
    <2> QED
      BY <1>1, <1>5, <2>2 DEF Claim, rows
  <1>6. CASE Complete(w) /\ Holds(w)
    <2>1. s \in Seqs /\ att[s].state = "switching" /\ att[s].token = w
      BY <1>2, <1>6 DEF Complete, Delivering, Points, Holds
    <2>2. proc'[w].at # "complete"
      <3>1. Stops(w) => proc'[w].at = "idle"
        BY <1>0 DEF Stops, Idle
      <3> QED
        BY <1>6, <3>1, AfterCurrentStep DEF Complete, Finish
    <2>3. CASE Released(s, "current") /\ chan' = [chan EXCEPT !.receipt = s, !.active = s]
      <3>1. chan'.next = chan.next /\ chan'.desired = chan.desired /\ chan'.active = s
        BY <1>0, <2>3 DEF ChanType
      <3> QED
        BY <1>6, <2>1, <2>2, <2>3, <3>1, ReleaseChanges DEF Complete, Decided, RowStep
    <2>4. CASE Released(s, "superseded") /\ chan' = [chan EXCEPT !.receipt = s, !.active = 0]
      <3>1. /\ chan'.next = chan.next /\ chan'.desired = chan.desired
            /\ chan'.active = 0 /\ 0 # s
        BY <1>0, <2>1, <2>4 DEF ChanType, Seqs
      <3> QED
        BY <1>6, <2>1, <2>2, <2>4, <3>1, ReleaseChanges DEF Complete, Decided, RowStep
    <2> QED
      BY <1>6, <2>3, <2>4 DEF Complete, Finish
  <1>7. CASE Supersede(w) /\ Holds(w)
    <2>1. s \in Seqs /\ att[s].state = "switching" /\ att[s].token = w
      BY <1>2, <1>7 DEF Supersede, Delivering, Points, Holds
    <2>2. proc'[w].at # proc[w].at
      BY <1>0, <1>7 DEF Supersede, Stops, Idle
    <2> QED
      BY <1>7, <2>1, <2>2, ClearedActive, ReleaseChanges DEF Supersede, Decided, RowStep
  <1>8. CASE RetireStale(w) \/ ServeThenSupersede(w)
    <2>1. s \in Seqs /\ att[s].state # "pruned" /\ proc[w].at \in {"retire", "serve"}
      BY <1>2, <1>8 DEF RetireStale, ServeThenSupersede, Delivering, Points
    <2>2. Released(s, "superseded")
      BY <1>8, <2>1 DEF RetireStale, ServeThenSupersede
    <2>3. /\ chan'.next = chan.next /\ chan'.desired = chan.desired
          /\ chan'.active \in {0, chan.active} \ {s}
      <3>1. CASE ClearActive(s)
        BY <2>1, <3>1, ClearedActive
      <3>2. CASE chan' = [chan EXCEPT !.receipt = s, !.active = 0]
        BY <1>0, <2>1, <3>2 DEF ChanType, Seqs
      <3> QED
        BY <1>8, <3>1, <3>2 DEF RetireStale, ServeThenSupersede
    <2>4. Changes(s) /\ att'[s].state = "superseded"
      BY <2>1, <2>2, <2>3, ReleaseChanges
    <2>5. Retires(w, s)
      BY <2>1, <2>3, <2>4 DEF Retires, Closed
    <2> QED
      BY <2>1, <2>5 DEF RowStep
  <1>9. CASE BlockOrPend(w) /\ Holds(w)
    <2>1. s \in Seqs /\ att[s].state = "switching" /\ att[s].token = w
      BY <1>2, <1>9 DEF BlockOrPend, Delivering, Points, Holds
    <2>2. proc'[w].at # proc[w].at
      BY <1>0, <1>9 DEF BlockOrPend, Stops, Idle
    <2> QED
      BY <1>9, <2>1, <2>2, ReleaseChanges DEF BlockOrPend, Decided, RowStep
  <1>10. CASE Forget(w)
    <2>1. proc[w].prev \in Seqs
      BY <1>0, <1>10 DEF WorkerOK, Forget, ProcType, Seqs
    <2>2. CASE att[proc[w].prev].state = "current" /\ Released(proc[w].prev, "superseded")
      BY <1>10, <2>1, <2>2, ReleaseChanges DEF Forget, Forgets, RowStep
    <2> QED
      BY <1>1, <1>10, <2>2 DEF Forget, rows
  <1> QED
    BY <1>1, <1>3, <1>4, <1>5, <1>6, <1>7, <1>8, <1>9, <1>10 DEF Deliver, Scan,
       ReadToCompose, Load, Stage, PutManifest, ReadBack, Complete, Supersede, BlockOrPend, rows

LEMMA EveryRowStep ==
  ASSUME IInv, [Next]_vars
  PROVE  RowStep
  <1>0. chan \in ChanType /\ att \in [Seqs -> AttType]
    BY DEF IInv, RowInv
  <1>1. CASE UNCHANGED rows
    BY <1>0, <1>1 DEF RowStep, Quiet, rows, ChanType
  <1>2. CASE PublishStatic
    <2>1. chan.desired + 1 \in 0..MaxRevision /\ chan.desired + 1 >= chan.desired
      BY <1>0, <1>2 DEF ChanType, PublishStatic
    <2> QED
      BY <1>2, <2>1, QueuedRows DEF PublishStatic, QueuedStatic, RowStep
  <1>3. CASE MarkDirty
    BY <1>0, <1>3 DEF MarkDirty, RowStep, Quiet, ChanType
  <1>4. ASSUME NEW s \in Seqs, LeaseEnds(s) \/ GracePasses(s) \/ CollectRetired(s)
        PROVE  RowStep
    <2>1. CASE att' = [att EXCEPT ![s].live = FALSE] /\ chan' = chan
      <3>1. att'[s] = [att[s] EXCEPT !.live = FALSE] /\ att'[s].rev = att[s].rev
        BY <1>0, <2>1 DEF AttType
      <3>2. \A t \in Seqs : t # s => att'[t] = att[t]
        BY <1>0, <2>1
      <3> QED
        BY <2>1, <3>1, <3>2 DEF Times, Changes, RowStep
    <2>2. CASE /\ att[s].state = "superseded" /\ chan' = chan
               /\ \/ att' = [att EXCEPT ![s].aged = TRUE]
                  \/ att' = [att EXCEPT ![s].state = "pruned"]
      <3>1. att'[s].state \in Closed /\ att'[s].rev = att[s].rev
        BY <1>0, <2>2 DEF AttType, Closed
      <3>2. \A t \in Seqs : t # s => att'[t] = att[t]
        BY <1>0, <2>2
      <3> QED
        BY <2>2, <3>1, <3>2 DEF Times, Changes, RowStep
    <2> QED
      BY <1>1, <1>4, <2>1, <2>2 DEF LeaseEnds, GracePasses, CollectRetired, rows
  <1>5. CASE Collect
    <2>1. CASE CollectConfirm \/ CollectList \/ CollectEnd \/ (\E s \in Seqs : CollectOrphan(s))
      BY <1>1, <2>1 DEF CollectConfirm, CollectList, CollectEnd, CollectOrphan
    <2> QED
      BY <1>4, <1>5, <2>1 DEF Collect
  <1> QED
    BY <1>1, <1>2, <1>3, <1>4, <1>5, DeliverRows DEF Next, vars, Crash, LateRequest, Outside, rows

\* No intent is withdrawn, and what a publisher found stale remains so.
StaleInv ==
    /\ \A s \in Seqs : att[s].rev <= chan.desired
    /\ \A w \in Workers : Stale(proc[w]) => att[proc[w].att].rev < chan.desired

\* The active attempt is not closed, and the one that a composed attempt
\* replaced is neither active nor ever to be delivered again.
ActiveInv ==
    /\ chan.active # 0 => att[chan.active].state \notin Closed
    /\ \A s \in Seqs : s < chan.next => att[s].state # "absent"
    /\ \A w \in Workers :
          proc[w].prev # 0 =>
              /\ att[proc[w].prev].state \notin Unresolved \cup {"absent"}
              /\ chan.active # proc[w].prev

FullInv == IInv /\ StaleInv /\ ActiveInv

\* The revision of an attempt is that of its intent, for good.
LEMMA Revisions ==
  ASSUME IInv, RowStep
  PROVE  /\ chan'.desired >= chan.desired
         /\ \A s \in Seqs : \/ att'[s].rev = att[s].rev
                            \/ s = chan.next /\ att'[s].rev = chan'.desired
  <1>1. chan \in ChanType
    BY DEF IInv, RowInv
  <1>2. CASE Quiet \/ Queued \/ QueuedStatic
    BY <1>2 DEF Quiet, Queued, QueuedStatic
  <1>3. ASSUME NEW s \in Seqs, Changes(s)
        PROVE  chan'.desired >= chan.desired /\ \A t \in Seqs : att'[t].rev = att[t].rev
    BY <1>1, <1>3 DEF Changes, ChanType
  <1>4. \/ Quiet \/ Queued \/ QueuedStatic
        \/ \E s \in Seqs : Changes(s)
    BY DEF RowStep, Decided, Retires, Takes, Forgets, Times
  <1> QED
    BY <1>2, <1>3, <1>4

LEMMA StaleInductive ==
  ASSUME IInv, StaleInv, [Next]_vars
  PROVE  StaleInv'
  <1>0. /\ chan \in ChanType /\ chan' \in ChanType /\ IInv' /\ RowStep
        /\ att \in [Seqs -> AttType] /\ att' \in [Seqs -> AttType]
    BY Inductive, EveryRowStep DEF IInv, RowInv
  <1>1. ASSUME NEW s \in Seqs PROVE att'[s].rev <= chan'.desired
    BY <1>0, Revisions DEF StaleInv, ChanType, AttType
  <1>2. ASSUME NEW w \in Workers, Stale(proc'[w])
        PROVE  att'[proc'[w].att].rev < chan'.desired
    <2> DEFINE s == proc[w].att
    <2>1. proc[w].at \in Delivering /\ WorkerOK(proc[w])
      BY <1>2, StaleSteps DEF Stale, Delivering, Points, IInv, WorkerInv
    <2>2. s \in Seqs /\ s < chan.next
      BY <2>1 DEF WorkerOK, ProcType, Seqs
    <2>3. att[s].rev < chan.desired
      <3>1. att[s].rev <= chan.desired /\ (Stale(proc[w]) => att[s].rev < chan.desired)
        BY <2>2 DEF StaleInv
      <3>2. att[s].rev \in Nat /\ chan.desired \in Nat
        BY <1>0, <2>2 DEF ChanType, AttType
      <3>3. Stale(proc[w]) \/ att[s].rev # chan.desired
        BY <1>2, StaleSteps
      <3> QED
        BY <3>1, <3>2, <3>3
    <2>4. att'[s].rev = att[s].rev /\ chan'.desired >= chan.desired
      <3>1. s # chan.next
        BY <1>0, <2>2 DEF ChanType, Seqs
      <3> QED
        BY <1>0, <2>2, <3>1, Revisions
    <2> QED
      BY <1>0, <1>2, <2>2, <2>3, <2>4, StaleSteps DEF ChanType, AttType
  <1> QED
    BY <1>1, <1>2 DEF StaleInv

\* What becomes active was queued or delivered, and what closes leaves.
LEMMA ActiveSteps ==
  ASSUME IInv, ActiveInv, RowStep
  PROVE  /\ \/ chan'.active \in {0, chan.active}
            \/ chan'.active = chan.next /\ chan.next \in Seqs
            \/ chan'.active \in Seqs /\ att[chan'.active].state = "switching"
         /\ chan'.active # 0 => att'[chan'.active].state \notin Closed
  <1>0. chan \in ChanType /\ chan.active \in 0..MaxSeq /\ chan.active < chan.next
    BY DEF IInv, RowInv, ChanType
  <1>1. chan.active # 0 => chan.active \in Seqs /\ att[chan.active].state \notin Closed
    BY <1>0 DEF ActiveInv, Seqs
  <1>2. CASE Quiet
    BY <1>0, <1>1, <1>2 DEF Quiet
  <1>3. CASE Queued \/ QueuedStatic
    BY <1>3 DEF Queued, QueuedStatic, Closed
  <1>4. ASSUME NEW w \in Workers, NEW s \in Seqs, Decided(w, s) \/ Retires(w, s)
        PROVE  /\ \/ chan'.active \in {0, chan.active}
                  \/ chan'.active \in Seqs /\ att[chan'.active].state = "switching"
               /\ chan'.active # 0 => att'[chan'.active].state \notin Closed
    BY <1>1, <1>4 DEF Decided, Retires, Changes, Closed
  <1>5. ASSUME NEW w \in Workers, NEW s \in Seqs, Takes(w, s) \/ Forgets(w, s)
        PROVE  /\ chan'.active = chan.active
               /\ chan'.active # 0 => att'[chan'.active].state \notin Closed
    <2>1. s = chan.active => ~Forgets(w, s)
      BY <1>0, <1>1 DEF Forgets, ActiveInv, Seqs
    <2> QED
      BY <1>1, <1>5, <2>1 DEF Takes, Forgets, Changes, Closed
  <1>6. \/ Quiet \/ Queued \/ QueuedStatic
        \/ \E w \in Workers, s \in Seqs :
              Decided(w, s) \/ Retires(w, s) \/ Takes(w, s) \/ Forgets(w, s)
        \/ \E s \in Seqs : Times(s)
    BY DEF RowStep
  <1>7. ASSUME NEW s \in Seqs, Times(s)
        PROVE  /\ chan'.active = chan.active
               /\ chan'.active # 0 => att'[chan'.active].state \notin Closed
    <2>1. att'[s] = [att[s] EXCEPT !.live = FALSE] => att'[s].state = att[s].state
      BY DEF IInv, RowInv, AttType
    <2> QED
      BY <1>1, <1>7, <2>1 DEF Times, Changes, Closed
  <1> QED
    BY <1>2, <1>3, <1>4, <1>5, <1>6, <1>7

LEMMA ActiveInductive ==
  ASSUME IInv, ActiveInv, [Next]_vars
  PROVE  ActiveInv'
  <1>0. /\ chan \in ChanType /\ chan' \in ChanType /\ IInv' /\ RowStep
        /\ chan.active < chan.next /\ chan.active \in 0..MaxSeq
    BY Inductive, EveryRowStep DEF IInv, RowInv, ChanType
  <1>1. ASSUME NEW s \in Seqs, s < chan'.next PROVE att'[s].state # "absent"
    <2>1. att[s].state = "absent" => s >= chan.next
      BY <1>0 DEF ActiveInv, ChanType, Seqs
    <2>2. CASE Quiet
      BY <1>1, <2>1, <2>2, <1>0 DEF Quiet, ChanType, Seqs
    <2>3. CASE Queued \/ QueuedStatic
      BY <1>0, <1>1, <2>1, <2>3 DEF Queued, QueuedStatic, ChanType, Seqs
    <2>4. ASSUME NEW w \in Workers, NEW t \in Seqs,
                 \/ Decided(w, t) \/ Retires(w, t) \/ Takes(w, t)
                 \/ Forgets(w, t) \/ Times(t)
          PROVE  att'[s].state # "absent"
      <3>1. att[s].state # "absent"
        BY <1>0, <1>1, <2>1, <2>4 DEF Decided, Retires, Takes, Forgets, Times, Changes,
           ChanType, Seqs
      <3>2. att'[t] = [att[t] EXCEPT !.live = FALSE] => att'[t].state = att[t].state
        BY DEF IInv, RowInv, AttType
      <3> QED
        BY <2>4, <3>1, <3>2 DEF Decided, Retires, Takes, Forgets, Times, Changes, Closed
    <2>5. ASSUME NEW t \in Seqs, Times(t) PROVE att'[s].state # "absent"
      <3>1. att[s].state # "absent"
        BY <1>0, <1>1, <2>1, <2>5 DEF Times, Changes, ChanType, Seqs
      <3>2. att'[t] = [att[t] EXCEPT !.live = FALSE] => att'[t].state = att[t].state
        BY DEF IInv, RowInv, AttType
      <3> QED
        BY <2>5, <3>1, <3>2 DEF Times, Changes, Closed
    <2> QED
      BY <1>0, <2>2, <2>3, <2>4, <2>5 DEF RowStep
  <1>2. ASSUME NEW w \in Workers, proc'[w].prev # 0
        PROVE  /\ att'[proc'[w].prev].state \notin Unresolved \cup {"absent"}
               /\ chan'.active # proc'[w].prev
    <2> DEFINE p == proc'[w].prev
    <2>0. WorkerOK(proc[w]) /\ proc[w].prev \in 0..MaxSeq
      BY DEF IInv, WorkerInv, WorkerOK, ProcType
    <2>1. CASE p = proc[w].prev
      <3>1. p \in Seqs /\ att[p].state \notin Unresolved \cup {"absent"} /\ chan.active # p
        BY <1>2, <2>0, <2>1 DEF ActiveInv, Seqs
      <3>2. p < chan.next
        BY <3>1 DEF IInv, RowInv, AttInv, NoAttempt, ChanType, Seqs
      <3>3. chan'.active # p
        BY <1>0, <1>2, <3>1, <3>2, ActiveSteps DEF Unresolved, ChanType, Seqs
      <3>4. StateSteps(p)
        BY <3>1, NextState
      <3> QED
        BY <3>1, <3>3, <3>4 DEF StateSteps, Unresolved
    <2>2. CASE ~Open /\ p = chan.active /\ chan'.active = chan.next
      <3>1. p \in Seqs /\ p < chan.next
        BY <1>0, <1>2, <2>2 DEF Seqs
      <3>2. att[p].state \notin Unresolved \cup {"absent"}
        BY <1>2, <2>2, <3>1 DEF Open, ActiveInv
      <3>3. StateSteps(p)
        BY <3>1, NextState
      <3>4. att'[p].state \notin Unresolved \cup {"absent"}
        BY <3>2, <3>3 DEF StateSteps, Unresolved
      <3> QED
        BY <1>0, <2>2, <3>1, <3>4 DEF ChanType, Seqs
    <2> QED
      BY <1>2, <2>1, <2>2, PrevSteps
  <1>3. chan'.active # 0 => att'[chan'.active].state \notin Closed
    BY <1>0, ActiveSteps
  <1> QED
    BY <1>1, <1>2, <1>3 DEF ActiveInv

LEMMA FullInvariant == Spec => []FullInv
  <1>1. Init => FullInv
    <2>1. ASSUME Init PROVE StaleInv
      BY <2>1 DEF Init, StaleInv, Stale, NoAttempt, Idle
    <2>2. ASSUME Init PROVE ActiveInv
      BY <2>2 DEF Init, ActiveInv, NoAttempt, Idle, Seqs
    <2> QED
      BY <2>1, <2>2, Initially DEF FullInv
  <1>2. FullInv /\ [Next]_vars => FullInv'
    BY Inductive, StaleInductive, ActiveInductive DEF FullInv
  <1> QED
    BY <1>1, <1>2, PTL DEF Spec

\* complete_locked/4, supersede_locked/3, block/2 and mark_pending/2 reach only
\* the row that carries their own token; the transactions without a token,
\* stale/2 and serve_then_supersede/3, reach only attempts whose intent is no
\* longer the newest.
THEOREM HoldersDecide == Spec => OnlyTheHolderDecides
  <1>1. ASSUME FullInv, [Next]_vars, NEW s \in Seqs, NEW w \in Workers,
               att[s].token = w, proc'[w] = proc[w], att'[s] # att[s]
        PROVE  \/ att'[s] = [att[s] EXCEPT !.live = FALSE]
               \/ ~att[s].live /\ att'[s].token \in Workers
               \/ att'[s].state = "superseded" /\ att[s].rev < chan.desired
    <2>0. /\ IInv /\ StaleInv /\ RowStep
          /\ att[s].state = "switching" /\ att[s] # NoAttempt
      BY <1>1, EveryRowStep DEF FullInv, IInv, RowInv, LeaseInv, NoAttempt
    <2>1. ~Quiet /\ ~Queued /\ ~QueuedStatic
      BY <1>1, <2>0 DEF Quiet, Queued, QueuedStatic, IInv, RowInv, AttInv, ChanType, Seqs
    <2>2. ASSUME NEW v \in Workers, NEW t \in Seqs,
                 Decided(v, t) \/ Retires(v, t) \/ Takes(v, t) \/ Forgets(v, t)
          PROVE  \/ ~att[s].live /\ att'[s].token \in Workers
                 \/ att'[s].state = "superseded" /\ att[s].rev < chan.desired
      <3>1. t = s
        BY <1>1, <2>2 DEF Decided, Retires, Takes, Forgets, Changes
      <3>2. ~Decided(v, s)
        BY <1>1 DEF Decided
      <3>3. CASE Retires(v, s)
        <4>1. att[s].rev < chan.desired
          BY <2>0, <3>3 DEF Retires, StaleInv, Stale
        <4>2. StateSteps(s)
          BY <1>1, <2>0, NextState
        <4> QED
          BY <2>0, <3>3, <4>1, <4>2 DEF Retires, StateSteps, Closed
      <3>4. ~Forgets(v, s)
        BY <2>0 DEF Forgets
      <3> QED
        BY <2>2, <3>1, <3>2, <3>3, <3>4 DEF Takes
    <2>3. ASSUME NEW t \in Seqs, Times(t)
          PROVE  att'[s] = [att[s] EXCEPT !.live = FALSE]
      BY <1>1, <2>0, <2>3 DEF Times, Changes
    <2> QED
      BY <2>0, <2>1, <2>2, <2>3 DEF RowStep
  <1>2. FullInv /\ [Next]_vars =>
          [\A s \in Seqs, w \in Workers :
              att[s].token = w /\ proc'[w] = proc[w] /\ att'[s] # att[s] =>
                  \/ att'[s] = [att[s] EXCEPT !.live = FALSE]
                  \/ ~att[s].live /\ att'[s].token \in Workers
                  \/ att'[s].state = "superseded" /\ att[s].rev < chan.desired]_vars
    BY <1>1
  <1> QED
    BY <1>2, FullInvariant, PTL DEF Spec, OnlyTheHolderDecides

\* An attempt that was superseded or pruned never carries a lease again, is
\* never the active attempt and never current, although supersede/2 and
\* serve_then_supersede/3 test no token and publishers that loaded it earlier
\* still work on it.
THEOREM RetiredHolds == Spec => RetiredStaysRetired
  <1>1. ASSUME FullInv, [Next]_vars, NEW s \in Seqs, att[s].state \in {"superseded", "pruned"}
        PROVE  /\ att'[s].state \in {"superseded", "pruned"}
               /\ att'[s].token = NoWorker
               /\ chan'.active # s
    <2>1. att'[s].state \in {"superseded", "pruned"}
      BY <1>1, NextState DEF FullInv, StateSteps, Unresolved
    <2>2. IInv' /\ ActiveInv'
      BY <1>1, Inductive, ActiveInductive DEF FullInv
    <2>3. att'[s].token = NoWorker
      BY <2>1, <2>2 DEF IInv, RowInv, LeaseInv
    <2>4. chan'.active # s
      BY <2>1, <2>2 DEF ActiveInv, Closed, Seqs
    <2> QED
      BY <2>1, <2>3, <2>4
  <1>2. FullInv /\ [Next]_vars =>
          [\A s \in Seqs :
              att[s].state \in {"superseded", "pruned"} =>
                  /\ att'[s].state \in {"superseded", "pruned"}
                  /\ att'[s].token = NoWorker
                  /\ chan'.active # s]_vars
    BY <1>1
  <1> QED
    BY <1>2, FullInvariant, PTL DEF Spec, RetiredStaysRetired

===============================================================================
