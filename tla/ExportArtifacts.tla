--------------------------- MODULE ExportArtifacts ---------------------------
(***************************************************************************)
(* The files of one ready export run: downloads, publication pins, expiry, *)
(* removal.  Runs do not share any of this state, so the module has one.   *)
(*                                                                         *)
(* Every operation is a transaction: Begin fixes its CURRENT_TIMESTAMP,    *)
(* its body is one action when the row lock is granted, and time may pass  *)
(* in between (the wait for the lock, and the hashing of the file under    *)
(* it).  The code compares deadlines with CURRENT_TIMESTAMP, that is, with *)
(* the start of the transaction.                                           *)
(*                                                                         *)
(* A deadline is kept as the time left until it; a transaction has an age. *)
(* What is past by more than MaxWait stays there: no transaction is older. *)
(* A fresh claim id or pin token is named by the process that drew it: no  *)
(* process holds two of them.                                              *)
(***************************************************************************)
EXTENDS Integers

CONSTANTS Downloaders,  \* requests that download a file
          Pinners,      \* processes that pin a file
          OwnerOf,      \* the owner_id each pinner pins under
          Renewers,     \* the pinners that renew their pin
          Slots,        \* main and flex
          Ttl,          \* artifact_ttl_seconds
          ClaimTicks,   \* @download_claim_seconds
          PinTicks,     \* @pin_lease_seconds
          MaxWait,      \* bound on the age of a transaction
          MaxDamage,    \* bound on files lost from outside
          MaxRemovalCrashes,  \* bound on crashes between removal and commit
          NoOne         \* "no process", a null claim id or pin

Procs  == Downloaders \cup Pinners

ASSUME ArtifactAssumption ==
    /\ Downloaders \cap Pinners = {}
    /\ Renewers \subseteq Pinners
    /\ DOMAIN OwnerOf = Pinners
    /\ NoOne \notin Procs
    /\ "main" \in Slots /\ "none" \notin Slots
    /\ {Ttl, ClaimTicks, PinTicks, MaxWait, MaxDamage, MaxRemovalCrashes} \subseteq Nat

VARIABLES
    row,       \* the run: state, keys of its files, expiry, download claim
    pin,       \* the pin row of the run, NoPin when there is none
    files,     \* the slots whose file is on disk and verifies
    txn,       \* the open transaction of each process
    serving,   \* the claim each request holds: the slot, and the time left
    pinned,    \* the slot each pinner holds a token for
    picked,    \* age of the cleanup transaction that picked this run, or -1
    damage,    \* files lost so far
    removalCrashes    \* crashes so far

artifactVars == <<row, pin, files, txn, serving, pinned, picked, damage, removalCrashes>>

-----------------------------------------------------------------------------
Floor == -(MaxWait + 1)
Left(n) == Floor..n

NoClaim   == [by |-> NoOne, left |-> 0]
NoPin     == [by |-> NoOne, left |-> 0, slot |-> "none"]
NoTxn     == [op |-> "none", slot |-> "none", age |-> 0]
NoRequest == [slot |-> "none", left |-> 0]

SlotOrNone == Slots \cup {"none"}
Ops == {"none", "claim", "complete", "pin", "read", "renew", "release"}

ArtifactTypeOK ==
    /\ row \in [state : {"ready", "expired", "failed"}, keys : SUBSET Slots,
                left : Left(Ttl),
                claim : [by : Downloaders \cup {NoOne}, left : Left(ClaimTicks)]]
    /\ pin \in [by : Pinners \cup {NoOne}, left : Left(PinTicks), slot : SlotOrNone]
    /\ files \in SUBSET Slots
    /\ txn \in [Procs -> [op : Ops, slot : SlotOrNone, age : 0..MaxWait]]
    /\ serving \in [Downloaders -> [slot : SlotOrNone, left : Left(ClaimTicks)]]
    /\ pinned \in [Pinners -> SlotOrNone]
    /\ picked \in -1..MaxWait
    /\ damage \in 0..MaxDamage
    /\ removalCrashes \in 0..MaxRemovalCrashes
    /\ row.state # "ready" => row.keys = {} /\ row.claim = NoClaim

\* A run that mark_ready/5 has just committed, with or without a flex file.
ArtifactInit ==
    /\ \E keys \in SUBSET Slots :
         /\ "main" \in keys
         /\ row = [state |-> "ready", keys |-> keys, left |-> Ttl, claim |-> NoClaim]
         /\ files = keys
    /\ pin = NoPin
    /\ txn = [p \in Procs |-> NoTxn]
    /\ serving = [d \in Downloaders |-> NoRequest]
    /\ pinned = [p \in Pinners |-> "none"]
    /\ picked = -1
    /\ damage = 0
    /\ removalCrashes = 0

-----------------------------------------------------------------------------
(* Deadlines, seen by a transaction of a given age.                        *)

\* deadline >= CURRENT_TIMESTAMP
Current(left, age) == left + age >= 0

\* artifact_current?/1, behind a test that the run has the slot's key.
Offered(slot, age) ==
    row.state = "ready" /\ slot \in row.keys /\ Current(row.left, age)

\* download_claim_available?/1
ClaimAvailable(age) == row.claim.by = NoOne \/ ~Current(row.claim.left, age)

\* The pin row as delete_expired_pin/1 leaves it.
PinAfterPurge(age) == IF Current(pin.left, age) THEN pin ELSE NoPin

OwnsPinByOwner(p, age) ==
    /\ pin.by # NoOne
    /\ OwnerOf[pin.by] = OwnerOf[p]
    /\ Current(pin.left, age)

\* lock_scoped_pin/3: the token is the row's, and the lease is live.
OwnsPin(p, age) ==
    /\ pinned[p] # "none"
    /\ pin.by = p
    /\ Current(pin.left, age)

\* remove_artifacts/1 ignores errors, then the row is updated, or the process
\* dies before the transaction commits.
CloseRun(state) ==
    /\ files' \in SUBSET files
    /\ \/ /\ row' = [row EXCEPT !.state = state, !.keys = {}, !.claim = NoClaim]
          /\ UNCHANGED removalCrashes
       \/ /\ removalCrashes < MaxRemovalCrashes
          /\ removalCrashes' = removalCrashes + 1
          /\ UNCHANGED row

Begin(p, op, slot) ==
    /\ txn[p] = NoTxn
    /\ txn' = [txn EXCEPT ![p] = [op |-> op, slot |-> slot, age |-> 0]]
    /\ UNCHANGED <<row, pin, files, serving, pinned, picked, damage, removalCrashes>>

End(p, op) ==
    /\ txn[p].op = op
    /\ txn' = [txn EXCEPT ![p] = NoTxn]
    /\ UNCHANGED <<picked, damage>>

-----------------------------------------------------------------------------
(* Downloads: claim_download/4, the response, complete_download/4.         *)

AskClaim(d, slot) == serving[d].slot = "none" /\ Begin(d, "claim", slot)

ClaimDownload(d) ==
    /\ End(d, "claim")
    /\ LET slot == txn[d].slot
           age  == txn[d].age
           free == Offered(slot, age) /\ ClaimAvailable(age) IN
         \/ /\ free /\ slot \in files
            /\ row' = [row EXCEPT !.claim = [by |-> d, left |-> ClaimTicks]]
            /\ serving' = [serving EXCEPT ![d] = [slot |-> slot, left |-> ClaimTicks]]
            /\ UNCHANGED <<files, removalCrashes>>
         \/ /\ free /\ slot \notin files
            /\ CloseRun("failed")
            /\ UNCHANGED serving
         \/ /\ ~free
            /\ UNCHANGED <<row, files, serving, removalCrashes>>
    /\ UNCHANGED <<pin, pinned>>

AskComplete(d) == serving[d].slot # "none" /\ Begin(d, "complete", serving[d].slot)

CompleteAnyClaim(d) ==
    /\ End(d, "complete")
    /\ row' = IF row.state = "ready" /\ Current(row.claim.left, txn[d].age)
                THEN [row EXCEPT !.claim = NoClaim]
                ELSE row
    /\ serving' = [serving EXCEPT ![d] = NoRequest]
    /\ UNCHANGED <<pin, files, pinned, removalCrashes>>

\* complete_download/4 ends the claim it names, if that is still the claim.
CompleteDownload(d) ==
    /\ End(d, "complete")
    /\ row' = IF /\ row.state = "ready"
                 /\ row.claim.by = d
                 /\ Current(row.claim.left, txn[d].age)
                THEN [row EXCEPT !.claim = NoClaim]
                ELSE row
    /\ serving' = [serving EXCEPT ![d] = NoRequest]
    /\ UNCHANGED <<pin, files, pinned, removalCrashes>>

-----------------------------------------------------------------------------
(* Publication pins.                                                       *)

AskPin(p, slot) == Begin(p, "pin", slot)

\* A new token, with a lease that starts with the transaction.
SetPin(p, slot, age) ==
    /\ pin' = [by |-> p, left |-> PinTicks - age, slot |-> slot]
    /\ pinned' = [pinned EXCEPT ![p] = slot]

LetGo(p) == pinned' = [pinned EXCEPT ![p] = "none"]

\* pin_ready_artifact/3 and claim_pin/3: an expired pin is deleted, a pin of
\* the same owner is replaced, another one answers :artifact_busy.
PinPublication(p) ==
    /\ End(p, "pin")
    /\ LET slot == txn[p].slot
           age  == txn[p].age
           old  == PinAfterPurge(age)
           busy == old.by # NoOne /\ OwnerOf[old.by] # OwnerOf[p] IN
         \/ /\ Offered(slot, age) /\ slot \in files /\ ~busy
            /\ SetPin(p, slot, age)
            /\ UNCHANGED <<row, files, removalCrashes>>
         \/ /\ Offered(slot, age) /\ slot \notin files
            /\ CloseRun("failed")
            /\ UNCHANGED <<pin, pinned>>
         \/ /\ ~Offered(slot, age) \/ (slot \in files /\ busy)
            /\ UNCHANGED <<row, pin, files, pinned, removalCrashes>>
    /\ UNCHANGED <<serving>>

AskWithPin(p, op) == pinned[p] # "none" /\ Begin(p, op, pinned[p])

\* pinned_artifact/4 and read_verified_artifact/2: the other answers, the path
\* of the file and the refusals of a lost pin or an expired run, change nothing.
ReadPinned(p) ==
    /\ End(p, "read")
    /\ LET slot    == txn[p].slot
           age     == txn[p].age
           corrupt == /\ OwnsPin(p, age) /\ pin.slot = slot
                      /\ Offered(slot, age) /\ slot \notin files IN
         \/ corrupt /\ CloseRun("failed")
         \/ ~corrupt /\ UNCHANGED <<row, files, removalCrashes>>
    /\ UNCHANGED <<pin, serving, pinned>>

\* renew_publication_pin/3 locks the pin row only, and rotates its token.
RenewPin(p) ==
    /\ End(p, "renew")
    /\ LET age == txn[p].age IN
         \/ OwnsPin(p, age) /\ SetPin(p, pin.slot, age)
         \/ ~OwnsPin(p, age) /\ LetGo(p) /\ UNCHANGED pin
    /\ UNCHANGED <<row, files, serving, removalCrashes>>

\* release_publication_pin/3 locks the pin row only.
ReleasePin(p) ==
    /\ End(p, "release")
    /\ pin' = IF OwnsPin(p, txn[p].age) THEN NoPin ELSE pin
    /\ LetGo(p)
    /\ UNCHANGED <<row, files, serving, removalCrashes>>

-----------------------------------------------------------------------------
(* Maintenance, time, and what happens from outside.                       *)

PurgePins ==
    /\ pin.by # NoOne
    /\ ~Current(pin.left, 0)
    /\ pin' = NoPin
    /\ UNCHANGED <<row, files, txn, serving, pinned, picked, damage, removalCrashes>>

ExpirableDespiteClaim(age) == row.state = "ready" /\ ~Current(row.left, age)

\* The conditions of cleanup_expired/1 on the columns of the run.
Expirable(age) ==
    /\ row.state = "ready"
    /\ ~Current(row.left, age)
    /\ ClaimAvailable(age)

\* Its statement picks the run on its snapshot, pinned_run/0 included ...
CleanupPicks ==
    /\ picked = -1
    /\ Expirable(0)
    /\ pin.by # NoOne => ~Current(pin.left, 0)
    /\ picked' = 0
    /\ UNCHANGED <<row, pin, files, txn, serving, pinned, damage, removalCrashes>>

\* ... and, granted the row lock, tests the columns again, but not the pins.
CleanupExpires ==
    /\ picked # -1
    /\ \/ Expirable(picked) /\ CloseRun("expired")
       \/ ~Expirable(picked) /\ UNCHANGED <<row, files, removalCrashes>>
    /\ picked' = -1
    /\ UNCHANGED <<pin, txn, serving, pinned, damage>>

\* The storage sweep removes the directory of a run that is not retained.
SweepDirectory ==
    /\ row.state # "ready"
    /\ files # {}
    /\ files' = {}
    /\ UNCHANGED <<row, pin, txn, serving, pinned, picked, damage, removalCrashes>>

\* A request or a pinning process dies; its transaction is rolled back.
DownloaderDies(d) ==
    /\ serving[d] # NoRequest \/ txn[d] # NoTxn
    /\ serving' = [serving EXCEPT ![d] = NoRequest]
    /\ txn' = [txn EXCEPT ![d] = NoTxn]
    /\ UNCHANGED <<row, pin, files, pinned, picked, damage, removalCrashes>>

PinnerDies(p) ==
    /\ pinned[p] # "none" \/ txn[p] # NoTxn
    /\ LetGo(p)
    /\ txn' = [txn EXCEPT ![p] = NoTxn]
    /\ UNCHANGED <<row, pin, files, serving, picked, damage, removalCrashes>>

LoseFile(slot) ==
    /\ damage < MaxDamage
    /\ slot \in files
    /\ damage' = damage + 1
    /\ files' = files \ {slot}
    /\ UNCHANGED <<row, pin, txn, serving, pinned, picked, removalCrashes>>

Later(left) == IF left > Floor THEN left - 1 ELSE left

Tick ==
    /\ \A p \in Procs : txn[p].age < MaxWait
    /\ picked < MaxWait
    /\ row' = [row EXCEPT !.left = Later(@),
                          !.claim.left = IF row.claim.by = NoOne THEN 0 ELSE Later(@)]
    /\ pin' = [pin EXCEPT !.left = IF pin.by = NoOne THEN 0 ELSE Later(@)]
    /\ serving' = [d \in Downloaders |->
                     IF serving[d] = NoRequest THEN NoRequest
                     ELSE [serving[d] EXCEPT !.left = Later(@)]]
    /\ txn' = [p \in Procs |-> IF txn[p] = NoTxn THEN NoTxn
                               ELSE [txn[p] EXCEPT !.age = @ + 1]]
    /\ picked' = IF picked = -1 THEN -1 ELSE picked + 1
    /\ UNCHANGED <<files, pinned, damage, removalCrashes>>

-----------------------------------------------------------------------------
DownloaderNext(d) ==
    \/ \E slot \in Slots : AskClaim(d, slot)
    \/ ClaimDownload(d)
    \/ AskComplete(d)
    \/ CompleteDownload(d)
    \/ DownloaderDies(d)

PinnerNext(p) ==
    \/ \E slot \in Slots : AskPin(p, slot)
    \/ PinPublication(p)
    \/ \E op \in {"read", "release"} : AskWithPin(p, op)
    \/ p \in Renewers /\ AskWithPin(p, "renew")
    \/ ReadPinned(p)
    \/ RenewPin(p)
    \/ ReleasePin(p)
    \/ PinnerDies(p)

ArtifactNext ==
    \/ \E d \in Downloaders : DownloaderNext(d)
    \/ \E p \in Pinners : PinnerNext(p)
    \/ PurgePins
    \/ CleanupPicks
    \/ CleanupExpires
    \/ SweepDirectory
    \/ \E slot \in Slots : LoseFile(slot)
    \/ Tick

ArtifactSpec == ArtifactInit /\ [][ArtifactNext]_artifactVars

-----------------------------------------------------------------------------
(* Properties.                                                             *)

\* At most one request holds a download claim that has not run out: not even
\* a request that finishes late gives another one's claim away.
OneDownloadAtATime ==
    \A d1, d2 \in Downloaders :
        /\ serving[d1].slot # "none" /\ serving[d1].left >= 0
        /\ serving[d2].slot # "none" /\ serving[d2].left >= 0
        => d1 = d2

\* While a claim is live, its run stays ready with the claimed file, unless a
\* file of the run was lost before, from outside or by a crash: expiry waits
\* for the download, however the claim and the cleanup were interleaved.
DownloadsOutliveExpiry ==
    [][\A d \in Downloaders :
          /\ row.state = "ready"
          /\ serving[d].slot \in files
          /\ serving[d].left >= 0
          => \/ row'.state = "ready" /\ serving[d].slot \in files'
             \/ damage' # damage
             \/ ~(row.keys \subseteq files)]_artifactVars

\* A live pin is replaced by a process of its own owner or given back by the
\* process that holds its token; nobody else, and no earlier holder, ends it.
LivePinEndsWithItsOwner ==
    [][/\ pin.by # NoOne /\ pin.left >= 0
       /\ pin'.by # pin.by
       => \/ pin'.by # NoOne /\ OwnerOf[pin'.by] = OwnerOf[pin.by]
          \/ pinned[pin.by] # "none" /\ pinned'[pin.by] = "none"]_artifactVars

=============================================================================
