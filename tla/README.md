# A verification project for GTFS Planner

GTFS Planner (Elixir, Phoenix, PostgreSQL, browser hooks in JavaScript) edits
transit feeds.  Most of its code is forms and single-transaction edits.  Two
parts of it are hard.  One is a family of durable background jobs: export
builds, reviewed imports, validations and feed publishing; each is a database
row, a supervised process with a task, a lease with a fencing token, files
beside the row, and a periodic maintenance pass that repairs what crashed.  The
other is its editors: large browser hooks that keep drafts, drags and cursors
of their own while a LiveView process on the server keeps the assigns, patches
the page, and other editors write the same rows.  These TLA+ modules model both,
TLC checks them on small instances, and TLAPS proves what matters most for
instances of every size.

Paths below are relative to `src/`; `gtfs/` is `lib/gtfs_planner/gtfs/`, `js/` is
`assets/js/` and `live/` is `lib/gtfs_planner_web/live/gtfs/`.

## 1. The system

| part | state | operations | hard behaviour |
|---|---|---|---|
| Export runs: `gtfs/export_runs.ex`, `gtfs/export/{runner,worker,run}.ex` | a row of `gtfs_export_runs`; a runner process and its task | create, start, claim, renew, store warnings, mark ready, fail, cancel, retry, reconcile expired leases | superseded owners that keep running, cancellation against commit and takeover, crashes between any two steps, a full supervisor |
| Export artifacts: `gtfs/export/artifact_storage.ex`, `gtfs/export/publication_pin.ex`, the second half of `export_runs.ex` | files under the artifact root; download claim; publication pins | publish, verify, claim and complete a download, pin, renew, release, read, expire, close corrupt | expiry against live downloads and pins, removal of files before the row is committed |
| Artifact maintenance: `gtfs/task_artifact_maintenance.ex`, `gtfs/task_artifact_capacity.ex` | a timer; the cluster-wide root lock | every five minutes: close expired leases, sweep unretained directories, expire artifacts | decides on a read that is old by the time it removes something |
| Feed publishing: `lib/gtfs_planner/feed_publishing.ex`, `feed_publishing/` | channel row, attempt rows, objects in a bucket, one manifest object | enable, publish, claim an attempt, conditional manifest write, read back, supersede, block, collect | overlapping workers, lost answers of a write, late writes, collection against attempts in flight |
| Reviewed imports: `gtfs/import/change_*.ex` | a row of change runs, decisions, a stored source | compute, review, decide, apply, partial, retry, start over | the same lease and fence as exports, with a human review between two owned phases |
| Full imports: `gtfs/import_runs.ex`, `gtfs/import/{runner,recovery}.ex` | a row of import runs, stored sources | upload, claim, import in batches, recover | restart in the middle of a batch |
| Validations: `lib/gtfs_planner/validations.ex`, `validations/runner.ex`, `gtfs/validator.ex` | a validation row; a publication pin of the artifact under test | start, claim, renew, complete, fail, reconcile | no takeover; a pin that is not renewed while the validator runs |
| Release comparison: `gtfs/release_comparison/` | one supervised computation per comparison | compare, watch, stop when unwatched | watchers that come and go |
| Assistant sessions: `lib/gtfs_planner/agents/session.ex` | a process per session, a task per turn | ask, confirm, cancel, expire | replies that arrive after a cancel |
| Alerts, versions, accounts, organizations, operations | rows | single-transaction edits | revision checks |
| Pattern alignment editor: `js/pattern_alignment_hook.js`, `js/alignment_geometry.js`, `live/route_pattern_alignment_events.ex` | drafts of the sections with undo and redo; a mirror of the dirty sections and pending dialogs on the server | draw, drag, follow streets, generate, import, save, confirm, conflict, keep or reload, leave | drafts and saves across lost connections, saves of others, answers that cross edits |
| Station map workspace: `js/map_alignment_hook.js`, `live/station_diagram_live.ex` | the floorplan over the map, a debounce and a watchdog; level, mode and a generation on the server | move, nudge, zoom, preview, restore, save, review of coordinates, switch level or mode | a late restore, stale events of another level, a readout that never ends |
| Station diagram canvas: `js/diagram_canvas_hook.js`, `live/station_diagram_live.ex` | view, candidate, drag and pending drop; list of stops with revisions | hold, drag, drop, Escape, search, measure, switch level or mode | patches between a drop and its answer, moves of other editors |
| Stops map: `js/stop_map_hook.js`, `live/stops_map_live.ex` | scene, view, pin, ghost, layers; panels, drafts and tasks | place, drag, nudge, paste, add, edit, move, create, save, discard | results of tasks for a panel that is closed, answers that put the pin back |
| Route details: `js/route_details_{editor,map}.js`, `live/route_detail_live.ex` | form, guard, block, highlight; draft, base, comparison | type, save, merge, deactivate, toggle other routes, leave | a merge with a second editor, a reconnect that replays the form, leaving |
| Timetable grid: `js/timetable_grid_hook.js`, `live/route_schedules_live.ex`, `gtfs/schedules.ex` | cursor, editor, readings; rows, revisions, undo stack | move, type, commit, clear, nudge, undo, select, filter | answers that cross edits and filters, undo over the writes of others |
| Other hooks: flex areas, fare zones, connections, transfers, `app.js` | the same shape | draw and edit | as above |
| Feed editing: `gtfs.ex`, `gtfs/{fares,calendars,routes,...}.ex` | the GTFS tables | single-transaction edits | none beyond the transaction |
| Pure algorithms: `gtfs/timing_fill.ex`, `gtfs/blocking/`, `gtfs/release_comparison/matching.ex` | none | compute | boundaries |
| Controllers, API, infrastructure | requests | call the above | - |

How they interact.  A LiveView or an API request inserts a run under the
advisory lock of its scope (organization, version, export type), then asks a
`DynamicSupervisor` with `max_children` for a runner.  The runner claims the
row in its `init/1` (next `lease_generation`, a fresh `lease_token`, a lease),
starts a linked task and renews the lease every minute.  The task does the
work; each of its database writes is *fenced*: it locks the row and goes on
only if state, generation, token and lease are still its own.  Files go to the
artifact root under a cluster-wide lock.  The maintenance process closes builds
whose lease has expired and removes the directories of runs that are neither
active nor ready.  Downloads, validations and feed publishing read ready
artifacts and protect them with claims and pins.

An editor page is a hook and a LiveView process joined by a channel that keeps
the order of events, and of answers.  The hook pushes events, and keeps working
while they travel.  An answer is a diff of the page with the events pushed
beside it: the diff is patched in first, the hook's `updated()` follows, then its
event handlers, then the callback of the push.  Writes of the process go to the
rows under a revision that was loaded earlier; other editors write the same rows
in between.

`PROJECT.json` lists each of these parts with its status, and under `hazards`
each behaviour that is hard to test, at its line, with the properties aimed at
it.

## 2. Modules

| module | models | status |
|---|---|---|
| `ExportRuns` | export runs: rows, callers, runners, tasks, lease expiry, storage sweep, crashes | checked and proved |
| `FencedJob` | what a durable fenced run promises, without saying how | refined by `ExportRuns` |
| `ExportArtifacts` | the files of one ready run: downloads, pins, expiry, removal, corruption | checked and proved |
| `FeedPublisher` | one public channel: intents, publishers, the bucket, collection | checked and proved |
| `PatternAlignment` | drafts, history and saves of the sections of a pattern, hook and process | checked and proved |
| `MapAlignment` | a floorplan over the map: gestures, timers, restore, save, review, levels | checked and proved |
| `DiagramCanvas` | dragging points on a floorplan: hook, page, process, other editors | checked and proved |
| `StopMap` | the stops map: scene, view, pin, panels, tasks | checked and proved |
| `RouteMap` | the map of a route: paths, highlight, colors, other routes | part of `RouteDetails` |
| `RouteDetails` | the form of a route with its guard, its merge and its reconnect, and the map | checked and proved |
| `TimetableGrid` | the grid of times: cursor, editor, commits, undo, filter | checked and proved |
| `MC*` | the instances TLC checks | |
| `*Proofs` | the theorems: one module for each component, `ExportProofs` for `ExportRuns` and `ExportArtifacts` | proved by TLAPS |

The backend components meet at narrow interfaces: `ExportRuns` ends where a row
becomes ready, `ExportArtifacts` begins there; an attempt of `FeedPublisher` on
a static channel reads a pinned artifact.  They are not composed.  An editor
module is itself a composition: of the hook, the page it patches, the process
and the rows.

### ExportRuns

State: `run` is the table, one record per identity (`gen` is
`lease_generation`, `token` is named by the generation of the claim that drew
it, `lease` counts down to 0 = expired, `warned` and `artifact` name the
generation that stored the warnings and the artifact fields).  `asked` and
`refused` are callers between `create_pending/4` and `ensure_started/2`.
`runner`, `job`, `held` and `task` are the runner process, the run and
generation it holds and the next step of its task; a runner that is `gone` has
stopped and its kill signal has not reached the task yet.  `published` is the
set of generations whose files exist: `publish_bytes/5`
(`artifact_storage.ex:154`) draws a fresh key in the run's directory for every
publication, so files of two generations never share a name.  `sweeping` and
`kept` are the storage sweep under the root lock.

Atomicity.  Every operation of `export_runs.ex` is one transaction under a row
lock (or the advisory lock of the scope), so it is one action.  Everything else
is cut where the code can be interrupted: a caller between insert and start,
the task between any two of its calls, `mark_ready/5` between its verification
of the files and its transaction, the sweep between its read of the retained
ids and its removal, the heartbeat between its kill signal and the death of the
task.

What is abstracted: file contents, warnings and progress are reduced to the
generation that wrote them; `build_export/1` to its four outcomes; the two
artifact slots (main and flex), which `ready_run/4` commits in one update, to
one.  `expired` is not a state of this module: closing a ready run after its
TTL belongs to the artifacts.

Time.  The lease test is `lease_expires_at >= CURRENT_TIMESTAMP`, the start of
the transaction; the model reads the clock when the row lock is granted.  The
two differ by a lock wait (milliseconds against a lease of minutes), and
`ready_run/4` checks `clock_timestamp()` again.

Crashes (`MaxCrashes` bounds them): an exception in the task that `build/4`
rescues, a task that dies, a runner that dies, a caller that dies between its
two calls, and a restart of the node, which keeps rows and files and nothing
else.

### FencedJob

A scope has at most one open job; each acquisition opens a new epoch; only the
current epoch can win; what is done or dropped stays so; an owned job ends.
`ExportRuns` implements it with `phase` read off the state of the row, `epoch`
the lease generation and `winner` the generation of the artifact.  The reviewed
imports have the same fence, so the module is meant to be refined twice.

### ExportArtifacts

One run after `mark_ready/5`: runs share none of this state.  `row` is the run
(state, keys of its files, time left until the TTL, download claim), `pin` its
row of `gtfs_publication_pins`, `files` the slots that are on disk and verify.
`serving` and `pinned` are what a request or a pinning process remembers: the
claim id or the token it was given, named by the process that drew it.  Init,
steps and variables have names of their own (`ArtifactSpec`, `artifactVars`),
so that `ExportProofs` can extend both modules.

Here the difference between the start of a transaction and the grant of the row
lock matters, because the holder of the lock hashes a file under it.  So every
operation is two actions: `Ask...` begins the transaction and fixes its
`CURRENT_TIMESTAMP`, the body runs when the lock is granted, and `txn` holds the
age in between (`MaxWait` bounds it).  Deadlines are kept as the time left, and
`Current(left, age)` is the comparison the code makes.  A pin's lease starts
with its transaction, that of a download claim with `clock_timestamp()`.
`cleanup_expired/1` is also two actions: its statement picks the run on its
snapshot, the pins included (`CleanupPicks`), and when the row lock is granted
PostgreSQL evaluates the conditions on the columns of the run again but not the
subquery on the pins (`CleanupExpires`).  `renew_publication_pin/3` and
`release_publication_pin/3` lock the pin only, although the comment at
`export_runs.ex:1026-1029` says the run is locked too.

`CloseRun` removes the files, ignoring errors, before the row is updated; a
process that dies between the two leaves a ready row without files
(`MaxRemovalCrashes`).  `LoseFile` is damage from outside (`MaxDamage`).
`renew_publication_pin/3` has no caller under `lib/`, so `Renewers` is empty
wherever a liveness property is checked; the safety runs let a pinner renew.

### FeedPublisher

`chan` is the channel row (desired revision, next sequence, active attempt,
current receipt), `att` the attempt rows, `served` the manifest object that the
public reads, `objects` the stored payloads.  Every attempt has bytes and an
ETag of its own, so a manifest is named by the sequence number of its attempt;
0 is no manifest and `Foreign` one that another owner wrote.  `proc` is what
each publisher (one per node) is doing: the point it has reached, the attempt it
loaded, and what it read before.  `late` holds requests that timed out and may
still arrive, `sweep` the collection pass with the keys it protects, `ever` the
history of served manifests, `spent` the faults used up.

A publisher is cut between any two of its transactions and requests: scan, read
of the manifest, adoption of the receipt, queueing, load, claim, staging,
conditional write, read-back and the transaction that ends the attempt.  The
store is a register with compare-and-set (`If-Match` on the predecessor's ETag,
`If-None-Match: *` for the first); a request can be lost, can be applied with
its answer lost, or can arrive after the timeout.  `Verdict` and `AfterRead` are
the tables of `reconcile/2`, `run/3`, `after_uncertain/2` and `stale/2`.

`Kind` selects the two kinds of channel: a static one gets an attempt from every
`publish_static/4`, the alerts channel composes one when the last is resolved.

What is abstracted: the protobuf and JSON objects of an attempt are one payload,
stored or not; the preview an editor consents to, the status texts and
`next_retry_at`, which no code reads, are left out, as is the activation of a
full publication's schedule; the scan and its preload are one read; the channel
row exists from the start.  The grace of an orphan object by `last_modified` is
left out, which gives the collection more freedom than it has.  An attempt ages
(`GracePasses`, one day) only between passes, because a pass compares with the
time its tick began, and only when no publisher or request still works on it:
those live for minutes.  One pass runs at a time.

### The editors

The seven editor modules share one form.  The hook (with what it reads of the
page) is one record, the assigns of the process another, `db` is the rows with
their revisions, `up` and `down` are the two directions of the channel.  A
handler of the hook is an operator from the record to the record; what it
pushes collects in the field `sent`, and the action that applies the handler
appends that to `up`.  An action of the process takes one event, changes the
assigns and the rows and appends one answer.  `events`, `others`, `clicks` and
`drops` count what the environment does; what follows by itself (timers, loads,
answers) is not counted.  A place on the map is a member of a small set or a
number on a line.

What is assumed of LiveView, from how the code uses it: a channel keeps its
order in both directions; an answer whose render changed nothing is no patch; a
patch comes before the events pushed with it, and those before the callback of
the push; while an event of a hook is unanswered its element is locked, and a
patch of it is staged until the last answer (`DiagramCanvas`); `updated()` of an
element that ignores patches runs surely only when its `data-*` attributes
change (`MapAlignment`); a form keeps what is typed in the field in focus, and is
replayed to a new process after a reconnect (`RouteDetails`).  A dialog is
answered once.  Lost connections are modelled where the code handles them, in
`PatternAlignment` and `RouteDetails`; the other modules keep the connection.

* `PatternAlignment`: interior points of a section are a sequence; `Saved`,
  `Shared`, `Routed`, `Legs` and `Imported` are what the server, the router and
  a file may give.  The history is `undo` and `redo`, entries of both sections
  mixed.  The process keeps the mirror of the dirty sections, the pending dialog
  and the tasks.  A handler leaves what it pushes in `sent`; `Glued` puts it on
  the channel, where a draft state replaces the one before it.
* `MapAlignment`: a view is named by the place that the identity transform shows
  in it.  Debounce, watchdog, the restore that waits for the image and the
  layout, and the generation that tells events of an older workspace apart.  The
  floorplan and its two handles are three grips, taken independently.  A review
  that could not be applied stays open with its error; one that is stale, or met
  a busy database, closes.
* `DiagramCanvas`: a point is drawn at its center plus an offset, the line of
  its pathways ends at `line`.  Candidate, drag and pending drop are the three
  stages of a drag; `loading` and `center` those of a search.
* `StopMap`: the map is a street.  `ScreenIsCurrent` compares the layers, which
  are redrawn piecemeal by many handlers, with what a full redraw would give.
  The tasks that load, create and save run and land at any time.
* `RouteDetails` with `RouteMap`: the color preview, the guard of unsaved
  changes, the block while the connection is down, the merge with a concurrent
  save, and the map that the hook paints incrementally.
* `TimetableGrid`: a cell is a trip and a column, a text the number it reads as.
  The cursor, the editor over a cell that waits for its answer, readings with a
  sequence number, the stack of undo entries fenced by revisions.  Any edit of a
  time may be refused, since the rules of its order with the other stops are not
  modelled; a clear is refused outside `Clearable`, and a shift when a selected
  trip has no time at its first stop.

## 3. Runs

| run | instance | checks |
|---|---|---|
| `export_takeover` | one run, two clients, two executors, `LeaseTicks` 1, one crash | types and table constraints, `ReadyHasItsArtifact`, `ReadyHasItsWarnings`, `OneHolderPerGeneration`, `SupersededTaskIsHarmless`, `CancelIsFinal` |
| `export_liveness` | two runs of one scope, one client, one executor, room for one runner; a crash or a second run, under `FairSpec` | `StartsAreAnswered`, `ImplementsFencedJob` |
| `export_artifacts` | two downloads, two pins of one owner, a TTL of two ticks, leases and waits of one tick, one lost file, one crash | `OneDownloadAtATime`, `DownloadsOutliveExpiry`, `LivePinEndsWithItsOwner` |
| `feed_static` | a static channel, two publishers, the collector, three attempts, two intents, two faults, one crash, one write of another owner | `ReceiptsWereServed`, `ServedIsComplete`, `ServedNeverGoesBack`, `OnlyTheHolderDecides` |
| `feed_liveness` | the alerts channel, two publishers that may compose at once, one fault, a scan with room for both alerts channels there are, `FairSpec` | `AcceptedAlertsAreServed` |
| `feed_lost_intent` | a static channel, two publishers, two intents | `NewestIntentStaysActive`, which the code violates |
| `pattern_drafts` | two sections, three gestures, saves of others or drops, two clicks, one drop | `GuardKnowsDrafts`, `SaveWillSettle`, `UndoWalksBack` |
| `map_workspace` | an aligned level and one that is not, three gestures or clicks, one write of another editor | `WritesComeFromTheirLevel`, `MeasuringWillEnd`, `RestoreNeverClobbers` |
| `diagram_drag` | two points within reach and one on another level, three presses or clicks, one move of another editor | `NothingLeftMoved`, `DropsAreRedrawn`, `DropsKeepOthers`, `SearchedPointIsCentered` |
| `stop_map` | a stop, a bay and a stop to be created, opened with and without a link and with a hidden map, three actions | `ScreenIsCurrent`, `PanelListsTheView`, `PinIsThePlacement`, `SavesKeepOtherPanels` |
| `route_page` | a pattern and its two variants, which another editor redraws, two views, three actions, one drop, two saves of others | `FormIsTheDraft`, `BlockedUntilAnswered`, `LeavingAsks`, `SavesKeepOthers`, `MapIsCurrent`, `ContextIsCurrent` |
| `timetable_grid` | two trips at three stops, one trip without a time at its first stop, three actions, two writes or deletes of others | `RovingCursor`, `ReadingIsOfTheText`, `OwnWritesShow`, `UndoKeepsOthers` |

Why the bounds are enough.  The conflicts of the export protocol are between a
current and a superseded owner of one run: two executors make them happen,
including a task that outlives its runner and its lease while a second one
builds to the end.  A third owner meets the second as the second met the first.
A lease of one tick already separates "live" from "expired".  In
`export_liveness` a second run of the scope meets a supervisor that the runner of
the first still fills.  `CrashOrRetry` keeps the crash and the second run in
different behaviours, because the leads-to formula is checked once per run, client
and number of crashes: the retry into the full supervisor happens in behaviours
without a crash, and `StartsAreAnswered` demands its answer there.

For the artifacts, one tick of waiting is enough for a transaction to be granted
its lock on the other side of a deadline it read as live.  Two downloads make a
late completion meet a new claim; two pinners of one owner make a pin replaced,
renewed and given back late.  Pins of different owners refuse one another, which
the theorem covers.  The slot is `main` alone: nothing in the code relates the
two slots except the shared claim.

For a channel, the conflicts are between two publishers of one attempt, between
an attempt and the one that replaced it, and between a request and what happened
since it timed out.  Two publishers, three attempts and two faults make each of
them, and both at once.  `MaxRefresh` bounds the attempts that only refresh
unchanged alerts, which would use up the sequence numbers without end; in
`feed_liveness` enough numbers remain (`MaxSeq` 6) for every attempt the one
fault can cost.

For the editors, a race is between something the operator does, the answer to
what was done before, and something that comes from outside: a timer, a load,
another editor or a lost connection.  Three counted actions with every order of
the uncounted steps make each pair of them meet, with a third action in between.
Two levels, two sections, two trips, two patterns or two stops are the least at
which something can end up in the wrong one.  `DropOrSecondSave` keeps a drop
and a second save of another editor apart in `route_page`: a page that rejoined
loads the route again, and `SavesKeepOthers` does not speak of it.

Deadlock is not checked where identities, sequence numbers, time or the
operator's actions run out: such a system may stop.

### What the run found

`feed_lost_intent`: `finish/4` (`publisher.ex:1152`) clears the active attempt
whenever the desired revision has moved on.  If an editor has queued a newer
attempt since, that attempt is no longer active, and the scan looks at active
attempts only: nobody ever sends it.

### Observations

Behaviours that the modules allow and that a maintainer may want to know.  No
run states them; the properties above are worded so that they hold beside them.

Backend:

* a cancelled build loses its owner: the fence treats a requested cancellation
  as a lost lease, on purpose, so that the task stops; the heartbeat reads the
  same answer, kills the task and stops without closing the row
  (`runner.ex:113`, against `worker.ex:42-45`).  The run blocks its scope until
  its lease expires and maintenance runs, which `ImplementsFencedJob` shows does
  happen;
* a pin transaction that begins before the TTL holds the row lock while it
  hashes the file; a cleanup that started meanwhile saw no pin on its snapshot
  and waits.  Then cleanup removes a file with a live pin (`export_runs.ex:553`,
  against 346-348);
* a pin outlives the TTL of its run, but `pinned_artifact/4` answers
  `:not_found` once the TTL has passed (`export_runs.ex:539`);
* a static attempt whose predecessor's answer was lost reads back the manifest
  of its own channel and is blocked with "the current manifest belongs to
  another owner" (`publisher.ex:949`); every later one is blocked too;
* a channel can have two current attempts: the replaced one is retired only in
  the tick that composed its successor (`publisher.ex:351`), and a static one
  never is;
* `serve_then_supersede/3` can put an old receipt over a newer one and clear a
  newer active attempt (`publisher.ex:1203`); the next read of the manifest
  repairs the receipt of the alerts channel;
* an attempt lease (180 s, `publisher.ex:48`) is never renewed, so two
  publishers can send one attempt: `ServedNeverGoesBack`, `OnlyTheHolderDecides`
  and `RetiredStaysRetired` say what keeps this harmless;
* a publisher that loaded an attempt before it was superseded may still install
  its manifest and record its receipt (`publisher.ex:1203`): the attempt stays
  out of the channel, and what is served does not go back;
* alerts may change between the reading of their snapshots and the stamp of the
  attempt (`publisher.ex:499`); `AcceptedAlertsAreServed` shows that the next
  tick delivers them;
* the scan takes the first alerts channels of an unordered list up to the
  realtime capacity (`publisher.ex:247`): an organization behind them may wait
  for ever, and `AcceptedAlertsAreServed` promises nothing when there are more
  alerts channels than that (`EveryScanServes`).

Editors:

* pattern alignment: a save that is lost with the connection never releases the
  save guard of the hook (`js/pattern_alignment_hook.js:370`, 2087), so
  `SaveWillSettle` speaks of connections that held;
* station map: choosing the level that is already shown draws a new generation
  without a remount (`live/station_diagram_live.ex:1695`); every later event of
  the hook is ignored as stale until the level or the mode really changes;
* station diagram: `stop_clicked` shows the point as stored but leaves the list
  with the revision loaded before, so the next drag of a point that another
  editor moved is rejected once more;
* station diagram: a drop can be answered without a patch: on the place that the
  list still has after `stop_clicked` showed the stored one
  (`live/station_diagram_live.ex:2094-2098`), or refused while the flash of the
  refusal before it is up (2143).  The hook reconciles a drop in `updated()` only
  (`js/diagram_canvas_hook.js:274-302`), so the point stays drawn where it is not
  saved and every further drag is refused (305) until some other patch comes.
  `NothingLeftMoved` names these two cases (`AnsweredInSilence`) and excuses no
  other drop once nothing is on its way;
* stops map: the question about unsaved changes can stand under a panel that
  covers it (`live/stops_map_live.ex:2618`).  A create that lands over an edit
  panel replaces the panel but not `edit_token` (`live/stops_map_live.ex:491-501`,
  against the comment at 119-123), so a save of the edit panel that lands later
  takes the screen back from the stop just created; five actions are needed.  The
  proof of `SavesKeepOtherPanels` did not go through before this was seen, and
  the property is about the stop that is being added and the drafts of other
  stops, which no late save disturbs;
* route details: the guard keeps its listener after `destroyed()`
  (`js/route_details_editor.js:342`, 387); after a reconnect the form is
  rebased without a comparison (`live/route_detail_live.ex:280-285`); pointing at
  a pattern dims its own lines in one order of events
  (`js/route_details_map.js:638`);
* timetable: the undo of an older edit of a trip is refused after the undo of a
  newer one, because that undo gave the trip a new revision (`schedules.ex:1226`,
  1340, against `live/route_schedules_live.ex:1731-1732`, 1745).

## 4. Fairness

Export runs.  `FairSpec` assumes what the runtime gives: a live process takes
its next step (weak fairness on the claim in `init/1`, on the steps of the task
and on the runner's reaction to the end of its task); a sent kill signal
arrives; a caller that has inserted a run and is not killed goes on to start it;
the maintenance timer fires; the sweep finishes; and the lease of a build that
no live runner renews runs out.  `TaskPublishes` is strongly fair because it
competes for the root lock through `:global.trans` with infinite retries.
Nothing forces a client to ask, a heartbeat to renew, a crash to happen or a
build to succeed.  `StartsAreAnswered` says that a run whose caller goes to start
it leaves pending, unless something crashes in between: a caller that dies leaves
a pending run which only a later request of its scope picks up.

Feed.  A publisher that works on the channel takes its next step; the lease of an
attempt that no publisher works on runs out.  The timer of each node is set again
after each tick, but a tick serves only the first `RealtimeCapacity` alerts
channels of an unordered list: the scan is fair to this channel only when there
are no more than that (`EveryScanServes`), which `feed_liveness` assumes and the
property names.  Lost answers, crashes and writes of other owners are
finitely many (`MaxFaults`, `MaxCrashes`, `MaxOutside`): with a store that never
answers nothing can be promised.  Editors are not forced to accept anything and
late requests not to arrive.

Artifacts and editors.  Their runs check safety only and assume no fairness.
`SaveWillSettle` and `MeasuringWillEnd` are invariants in place of liveness: what
would end the wait is already on its way or armed.

## 5. Proofs

Each module of theorems uses only the named assumption on the constants
(`ExportAssumption`, `ArtifactAssumption`, `PublisherAssumption`,
`MapAssumption`, `DiagramAssumption`, `PlaceAssumption`, `RouteAssumption`,
`GridAssumption`, `PatternAssumption`): any number of processes, levels,
sections, trips or stops, any bounds.

### Export runs

* `Inductive`: `Spec => []IInv`.
* `TypeCorrect`, `ScopesAreExclusive`, `GenerationsAreExclusive`,
  `ReadyIsComplete` (`ReadyHasItsArtifact`), `WarningsAreComplete`
  (`ReadyHasItsWarnings`): the safety invariants.  `ScopesAreExclusive`
  (`OneActivePerScope`) is proved and not run: it needs several runs of a scope
  and several executors at once.
* `CancelHolds`, `ClosedHolds` (`ClosedRunsStayClosed`), `SupersededHolds`: the
  action properties.
* `RunsAreFencedJobs`: `Spec => Job!Spec`, the safety part of the refinement
  that `export_liveness` checks on a small instance.

None of the invariants is inductive alone.  `IInv` adds: an absent row is empty
and has no files, a pending row was never claimed or cancelled, a building row's
token is its generation, a ready row is not cancelled (`RowInv`); a refused
client still holds the run it could not start (`ClientInv`); a working process
holds a generation the row has reached (`HolderInv`); a task that still owns its
row has done what its earlier steps were for: the warnings of its generation are
stored before it builds, and its files are on disk once it has verified them
(`ProgressInv`); and while a sweep holds the root lock, every retained run that
has files is among the ids it read (`SweepInv`).  The last two make the unfenced
steps (publishing, verifying, sweeping) safe: publishing waits for the lock, a
run the sweep did not read is closed or has no files yet, and closed runs never
reopen, so nothing the sweep removes can be committed afterwards.

The proof has one lemma per action.  Most actions touch either rows or
processes, so the lemmas are about the five shapes a change of the rows can
have (nothing, a row is inserted, taken by a new owner, written by its owner,
committed, dropped), and each conjunct is shown stable under them.  The same
classification gives the refinement: each shape is one action of `FencedJob`.

### Export artifacts

* `ArtifactTypes`, `DownloadsAreExclusive` (`OneDownloadAtATime`),
  `DownloadsAreSafe` (`DownloadsOutliveExpiry`), `PinsAreFenced`
  (`LivePinEndsWithItsOwner`).

Exclusivity is not inductive: that two requests do not both hold live claims
says nothing of the row.  `ClaimInv` says that on a ready run a live claim which
a request holds is the claim of the row, with the same time left; a new claim is
given only when the row's has run out, and then no request holds a live one.
The same fact makes cleanup wait: it tests the claim on the row it has locked.

### Feed publishing

* `FeedTypes`, `ReceiptsAreServed` (`ReceiptsWereServed`), `PayloadsStay`
  (`ServedIsComplete`): invariants.
* `ServedAdvances` (`ServedNeverGoesBack`), `HoldersDecide`
  (`OnlyTheHolderDecides`): action properties.  `RetiredHolds`
  (`RetiredStaysRetired`) is proved and not run: an attempt that was superseded
  is never leased, active or current again.

`IInv` has one part per piece of state.  Rows: a lease belongs to an attempt
that is being switched, the predecessor of an attempt has a smaller number, and
only closed attempts age.  Bucket: the served manifest has its payloads, and so
has every manifest that may still arrive, whose attempt has not aged.
Publishers: one that is about to write a manifest has stored its payloads, one
that is about to acknowledge has seen it served, and no attempt that a publisher
works on has aged.  The pass: it deletes aged attempts only, and if one of them
is served then the pass has read that and protects it.  So nothing that ages can
become the served manifest again, and `PayloadsStay` follows; the number of the
predecessor gives `ServedAdvances`.

Two more parts are about who decides an attempt.  `StaleInv`: what a publisher
found stale has a revision below the desired one, and no intent is withdrawn; so
the transactions that test no token reach only attempts of an older intent, and
every other one finds the token of its own publisher, which is `HoldersDecide`.
`ActiveInv`: the active attempt is not closed, and the attempt that a publisher
will retire after its own is neither active nor open.  With the fact that a token
is only found on an attempt being switched it gives `RetiredHolds`.  Their proofs
sort the steps by what they do to the rows (`RowStep`: nothing, an attempt is
queued, or one is decided, retired, taken, forgotten or timed out) and to the
publisher (`WorkerStep`).

### How the editors are proved

The state of an editor module is two wide records, the hook and the process,
that many handlers rewrite, and two queues.  Each proof has one lemma per
handler, which says which fields the handler may write (`Writes`, `Assigns`,
`Leaves`) and what it keeps of the invariant; the actions then follow from a
handful of kinds of step (the operator does something, an event is handled, an
answer arrives, another editor writes).  Where the model computes by recursion
(the answers of one patch applied in order, the rows of the grid after a
deletion), what is needed of the result is proved by taking the least index at
which it would fail.

### Pattern alignment

* `DraftsAreGuarded` (`GuardKnowsDrafts`), `SavesSettle` (`SaveWillSettle`),
  `UndosWalkBack` (`UndoWalksBack`).

`PatternIInv` has the two guards, which are inductive with little else: a save is
pending only in a mounted hook that has a model, an idle hook has nothing left to
send, every event on its way names a section that exists, and no drop was counted
while the connection holds.  A handler is measured by what it would leave
unreported: `Told` says that the events in `sent` make a process that knew of
`known` know of every dirty section.  Most handlers have nothing more to tell
than before (`Goes`), those that end in a draft state tell everything (`Speaks`),
and the operators in between draft first and leave the telling to their caller
(`Drafts`); `GoesOn` composes them, and `GluedTells` carries the result over to
the channel.  So a handler that drafted and forgot to push would have no lemma.

`UndoWalksBack` is part of `Sound`, which every handler keeps, and it is
inductive alone: `History` is the undo stack followed by the redo stack
backwards, and every entry starts from the points that the entries of its section
before it lead to (`LeadsTo`).  An edit appends an entry and drops the redo stack
(`WalksOn`), undo and redo move the boundary (`WalksBackOne`, `WalksForward`), a
load empties it, a rebase changes revisions only.  The parts of an import are
drafted by recursion over the sections; `PartsDraft` takes the first section at
which the claim would fail.

### Map alignment

* `WritesAreTagged` (`WritesComeFromTheirLevel`), `RestoresSpareGestures`
  (`RestoreNeverClobbers`), `MeasuringEnds` (`MeasuringWillEnd`).

`TagInv`: whatever is on its way carries a generation that the process has
reached, and if it is the generation of now then also the level of now; so an
event that passes the test of generations was pushed from the level it is
applied to.  `Guarded`: what the operator holds or has touched is marked
adjusted before a restore can look at the mark.  `ReadInv`: while "measuring"
stands in the readout, the text it covers is kept and the debounce or the
watchdog runs.

### Station diagram canvas

* `DropsSpareOthers` (`DropsKeepOthers`), `PointsReturn` (`NothingLeftMoved`),
  `LinesFollowDrops` (`DropsAreRedrawn`), `SearchesCenter`
  (`SearchedPointIsCentered`).

`DragInv`: the revision of a drag is not newer than the list of the process, nor
that than the rows.  `PlanInv`: candidate, drag and pending drop exclude one
another, and only the point of a drag or drop has an offset.  `DropInv`: a
pending drop is still on its way, or the answer that settles it is, or a patch
is staged for the canvas, or the drop was answered in silence; `StagedInv`: a
staged patch waits for an answer that is on its way.  `ViewInv`: a
search that finds the image loading is kept for its arrival.  `Chain` relates
the answers on their way: two of them show the same level unless one in between
streams the page again, so a patch never puts the points of one level on the
floorplan of another.

### Stops map

* `ScreenBelongs` (`ScreenIsCurrent`), `ViewsAreListed` (`PanelListsTheView`),
  `PinsArePlacements` (`PinIsThePlacement`), `OtherPanelsAreSpared`
  (`SavesKeepOtherPanels`).

`HookInv` says that lines and stops are those of the scene, the view and the
toggle (`DrawInv`), pin, layers and crosshair those of the mode (`PinInv`), and
that the last view announced is the one shown (`ViewInv`): every handler of the
hook preserves it, which is the claim that incremental redrawing equals a full
one.  `Knows` is about the channel: the last bounds on their way, or what the
process has if there are none, are the view shown.  `PinKnown` is its
counterpart in the other direction: the last mode on its way is that of the
placement, and when none is, the page shows it, or the pin is being dragged, or
the process is still to be told.  `TaskOf`: a save carries a token the process
has reached, and a save of the present token is of the stop being edited; since
a stop that is being added is none of the stored ones, a late save cannot match
it.

### Route details

* `SavesReplaceWhatWasShown` (`SavesKeepOthers`), `NobodyLeavesUnasked`
  (`LeavingAsks`), `FormFollowsTheDraft` (`FormIsTheDraft`),
  `BlockEndsWithTheAnswer` (`BlockedUntilAnswered`), `ContextFollowsTheView`
  (`ContextIsCurrent`), `MapFollowsThePage` (`MapIsCurrent`).

`Base` is the shape of the state and of the messages; under it every step is one
of nine kinds.  On top of it stand six arguments:

* map: every layer is what painting its paths, markers and routes anew would
  give (`MapInv`), an invariant of each function of the hook;
* saves: there is one history of the route, and process, page and messages hold
  points of it (`ReadsInv`), so that equal revisions mean equal values;
* data: the last answer on its way shows the process as it is (`ShownLast`,
  `DataInv`);
* other routes: the last request on its way is for the bounds the page asked for
  last (`ContextInv`);
* form: a page that waits for nothing has the guard, the bar and the panel of the
  draft, a form without unsent typing is the draft, and the field in focus, which
  patches spare, was in the draft already (`FormInv`);
* leaving and the block: a guard question travels only from a dirty page, and the
  answer "clean" comes only from a process without changes (`LeaveInv`); a
  recovery is the first event of a connection, a refused process displays no
  merge, and a blocked page waits for a recovery, a refusal or an answer on its
  way (`BlockInv`).

### Timetable grid

* `UndosAreFenced` (`UndoKeepsOthers`), `OwnWritesAreShown` (`OwnWritesShow`),
  `CursorRoves` (`RovingCursor`), `ReadingsFollowTheText` (`ReadingIsOfTheText`).

That no undo takes back a write of another editor says nothing of the stack, so
it is not inductive.  `UndoInv` says that every entry of the stack, for every
trip in it, carries a revision that the trip has reached, and that if it is still
the trip's revision then the last write of the trip was one of this page.  Writes
of either side give a trip a new revision (`Grows`), so an old entry can only
become unusable, never wrong; the entry of a new write carries the revision that
write gives; deletes, filters, reloads and selections leave stack and revisions
alone.

The other three need process, queues and page together (`GridAndProcess`).
`Stored`: what this page wrote last is loaded as it is stored.  `PageInv`: the
cursor and its mark are on a cell of the grid or nowhere, an open editor lies
over its own cell, and a reading is of the text typed.  `OfEditor`: a reading on
its way that bears the number the editor waits for was made of its text.
`ShowInv`: an answer without a patch changes nothing that is shown, and the last
answer shows what is loaded.

### Only model-checked

Liveness: `StartsAreAnswered`, `AcceptedAlertsAreServed` and the fairness part of
`ImplementsFencedJob`, which are beyond the prover.  The violation that
`feed_lost_intent` finds is of course not a theorem.  Every invariant and action
property of the other runs is stated by a theorem above.

## 6. Plan

Done: the export runs, their artifacts, one channel of feed publishing, and six
editors, and the proofs of all of them.  What would come next, in this order:

1. `ChangeRuns`, the reviewed imports: compute and apply as two owned phases
   with a human review between them; a second refinement of `FencedJob`.
2. `ImportRuns`: the same fence with batches and recovery after a restart.
3. `Validations`: no takeover, and a pin that is not renewed while the validator
   runs, composed with the pins of `ExportArtifacts`.
4. The other map hooks (flex areas, fare zones, connections, transfers), whose
   shape is that of `StopMap` and `RouteMap`.
5. `AgentSession` (replies after a cancel) and `ReleaseComparison` (watchers that
   come and go); the scan of the publisher over several organizations.
6. Pure algorithms against reference definitions: time fill, recurrence of alert
   periods, matching of releases.

The runs are kept to a dozen, one question each; a later component takes the
place of a run whose question a theorem answers.

## 7. Not modelled

Reviewed and full imports, validations, release comparison and assistant
sessions: see the plan.  Feed editing, fares, calendars and the rest of the GTFS
tables change in single transactions with constraints of the database: their
interleavings are those of PostgreSQL.  File contents and formatting, the clients
of external routing and geocoding services, controllers and infrastructure are
left out; so is the driver that runs browsers for screenshots and measurements
(`assets/qa`), which is a test tool.

Of the editors that are modelled, these parts are left out:

* pattern alignment: map layers, focus, the styles of the handles, notices;
* station map: pins, the other levels, buildings, opacity, the readouts of the
  compass, the state of the tiles;
* station diagram: sizes and names of the overlay, the saved ruler, the journal,
  the modes other than view and add;
* stops map: fields other than the position, search, checks, reverse geocoding,
  reviewed moves, and the panels to delete, replace or group a stop;
* route details: fields other than the number and the colors, the reviews to
  deactivate and delete, the sidebar, tooltips and tiles;
* timetable: what a commit does to later stops, frequency trips, the clipboard,
  paste and fill, the reviewed changes and the drawers.
