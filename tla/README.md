# netgol in TLA+

TLA+ specifications of netgol, a server-authoritative Game of Life shared by many
clients, with TLC models and TLAPS proofs.  Paths are relative to `src/`; `sim.rs`,
`hub.rs`, `io_task.rs` and the like are under `server/src/`, `world.rs`, `chunk.rs`
and `oscillator.rs` under `simulation/src/`.

## 1. Inventory

The server is a set of tokio tasks joined by bounded channels.

| component | state | operations | talks to |
|---|---|---|---|
| **hub** (`hub.rs`) | peers with outbound queues and subscribed sets, `chunk_subs` (the inverse table), `mirror` of the sim's chunks, regions, claims | join, leave, subscribe, unsubscribe, edit, claim; handle a `SimEvent`: mirror, fan-out, reaper | sends `SimCmd` (capacity 1024) to the sim; `try_send` to each peer |
| **sim** (`sim.rs`) | `World`, `subscribed`, `next_snapshot_tick` | `Edit`, `Reap`, `Subscribe`, `Unsubscribe`, `SetOwned`; the tick | sends `SimEvent` (256) to the hub, `IoCmd` (256) to the io task; shares a mutex with the detector |
| **reaper** (`reaper.rs`) | none | pick chunks beyond `max_live_chunks` | called by the hub on the mirror |
| **world** (`world.rs`) | chunks, paused oscillators, paused groups, active set, owned chunks, tick number | set cell, promote, wake, remove, tick | used by the sim |
| **chunk kernel** (`chunk.rs`) | 64 rows of 64 bits, frozen mask | step with a halo (scalar and AVX2), edges, freeze | used by the world |
| **detector** (`oscillator.rs`, `sim.rs:97-119`) | ring of hashes per chunk, pending set | observe, forget, scan | sends promote requests (1024) to the sim |
| **io task** (`io_task.rs`) | log file, snapshot file | append and fsync, snapshot (tmp, rename), truncate; replay at boot | fed by the sim |
| **snapshot** (`snapshot.rs`) | none | collect, encode, load | sim, io task, boot |
| **claims** (`claims.rs`, `claim_store.rs`), **regions** (`region.rs`) | claims in memory and one file each, static regions | create, delete, persist (detached), owned set, `can_edit` | the hub; `SetOwned` to the sim |
| **auth, users** (`auth.rs`, `user_store.rs`) | OAuth states, sessions | start, callback, validate | external providers; the claim store |
| **ws task** (`ws.rs`) | a socket | read and write loops | the hub |
| **client** (`web/src`) | chunk cache, subscriptions | put, drop, apply edit, predict a step on `Sync` | the hub, over the socket |

What is hard here: hub and sim run concurrently and each holds a delayed copy of
state of the other (the sim's `subscribed`, the hub's `mirror`); every handler can
suspend at a full channel; any peer may be dropped in the middle of a fan-out;
promotions are decided on data that waited in a queue; groups of chunks pause and
wake together while requests name single chunks; the server may be killed between
any two file operations.  `PROJECT.json` lists the hazards line by line.

What makes each component correct:

- hub: the two tables agree; nobody exceeds the quota; the sim's set follows; the
  mirror follows the world (`SubscriptionTablesAgree`, `SimLearnsSubscriptions`,
  `LiveChunksMirrored`, `NoGhosts`).
- sim: what is observed or frozen is not paused; what is frozen is not removed; hub and
  sim do not stall (`SubscribedNeverPaused`, `FrozenImmortal`, `NoMutualStall`,
  `SubscriptionsArrive`).
- io task: see `Storage` below.
- kernel: it computes B3/S23 for every content and halo (`KernelIsLife`, proved).
- world and detector: whatever is paused or skipped, the world evolves as the plain
  Game of Life on an unbounded plane; a coord is in one place only; what is paused is
  periodic; a tick reports all it changes and leaves no empty chunk behind
  (`StepsAsLife`, `PausedApart`, `PausedIsPeriodic`, `TickReports`,
  `TicksLeaveNoHusks`).
- claims: a claim can be edited by its owner and nobody else; an edit is lawful when it
  is made and not only when it is checked; the sim isolates what is claimed; the disk
  follows memory (`OwnerRules`, `EditsLawful`, `SimIsolates`, `DiskFollows`,
  `ClaimsSettle`).
- client: a browser that has handled what it was sent shows what the server has; what
  the server removed does not linger; the hub knows what is in view (`ViewExact`, `NoLeftovers`, `InterestAgreed`).

## 2. Plan

| module | contents | state |
|---|---|---|
| `Channels`, `Hub`, `Sim`, `Server` | the hub, the sim, their channels, and the composition | written, checked, seven theorems |
| `ServerProofs` | proofs about `Server` | written |
| `DurableLog`, `Storage` | what persistence promises, and the io task that implements it | written, checked, five theorems |
| `StorageProofs` | proofs about `Storage`, its refinement of `DurableLog` included | written |
| `ClaimsProofs` | proofs about `Claims` | written |
| `Counts`, `Chunks` | a chunk, its edges, frozen cells and the bit-sliced kernel | written |
| `Basics`, `ChunksProofs` | induction, counting; the kernel computes B3/S23 | written, proved |
| `Detector` | rings of hashes, periods, requests | written |
| `World` | chunks, oscillators and groups: pausing, waking, stepping, as operators | written |
| `WorldProofs` | what each of these operators preserves, reports and does to the plane | written |
| `PlainLife` | what the world promises: Life on a plane | written |
| `Simulation` | the sim loop over `World` and `Detector`, against `PlainLife` | written, checked, five theorems |
| `SimulationProofs` | proofs about `Simulation`, its refinement of `PlainLife` included | written |
| `Regions` | static regions, the regions of claims, who may edit what | written |
| `Claims` | claims, detached disk writes, `SetOwned`, restarts | written, checked, five theorems |
| `Client` | cache, prediction, view and reconnection, composed with `World` | written, checked, four theorems |
| `ClientProofs` | proofs about `Client` | written |

Abstract specifications: `DurableLog` and `PlainLife`, each shown by a theorem to be
implemented.  Every safety property a passing run checks is stated by a theorem; what is
left to TLC is said at the end of each section.  Open: a snapshot of paused patterns in
`Simulation`, and sessions (`auth.rs`).  No module that is to be proved about declares a
`RECURSIVE` operator.

## 3. Server: hub and sim

`Channels` declares the two bounded channels.  A handler that sends may suspend; what
it still has to send is `hub_sending` or `sim_sending`, and a task starts new work
only when its own is empty, as code after an `await` does.  So a handler is one action
followed by one `HubSend`/`SimSend` per message.

`Hub` keeps `peers`, `peer_subscribed` (`Peer::subscribed`), `chunk_subs` and
`mirror`.  One action per request (`Join`, `Leave`, `Subscribe`, `SubscribeOverflow`
for the quota path that drops the peer half way, `Unsubscribe`, `Edit`) and
`HandleSimEvent`.  All end in `DropAndFlush`: drop the peers whose `try_send` failed,
buffer the orphaned coords, flush them after the handler's own commands.

`Sim` keeps `sim_subscribed`, `stored` (what `World::get_chunk` returns) and `groups`
(what is paused together).  One action per command, and `SimTick`: promote, wake the
perturbed groups, step, report.

`Server` composes them.  The first event is the dump of the loaded world.

Abstractions, all over-approximations unless said otherwise:

- A pattern is an element of `Val`; a tick may turn a running chunk into any pattern
  or none, a waking chunk may be in any phase.
- Outbound queues are not modelled: a peer a handler sends to may always fail.
- The reaper takes any admissible set: order (live count, staleness) is left open, so
  `last_seen_tick` is not needed.
- `pick_reapable`'s `kept` are the coords still subscribed when it runs.
- Left out: `SetOwned` and claims (`Claims`), the content of what clients receive
  (`Client`), metrics, the sends to the io task (`Storage`).

| run | instance | shows |
|---|---|---|
| `ServerSubs` | 2 peers, 2 coords, quota 1, channels of 1, reaping | types; tables agree; the sim learns; nothing observed is paused |
| `ServerMirror` | 1 peer, 2 coords of which 1 is frozen, 2 patterns, `MaxLive` 0, no groups | chunks that exist are mirrored; frozen chunks are never removed |
| `ServerQuiet` | 3 requests, groups, no reaping, fairness | no deadlock; interest reaches the sim; vanished chunks leave the mirror |
| `ServerStall` | | a finding, section 9 |

`LiveChunksMirrored` needs the instance to have no groups (`MaxGroup` 1) and
`NoGhosts` to have no reaping (`MaxLive` 2): with either lifted TLC finds the
disagreements listed in section 9.

Bounds.  Two coords are the least with a group, a partially overflowing request and a
reaped neighbour.  Two peers are the least with shared interest, of which one drops.
Quota 1 makes a request of two coords overflow.  Channels of capacity 1 reach every
full/empty combination, and with a suspended handler up to three commands are under
way, enough for a subscribe, unsubscribe, subscribe race; the theorems below hold for
every capacity.  `PeerSymmetry` is used for safety only.  Peer ids are not reused, so
the runs are bounded by `Peer` without a state constraint.  All runs but
`ServerQuiet` say `CHECK_DEADLOCK FALSE`, because hub and sim do stop for good when
both channels are full (`ServerStall`).  `ServerQuiet` checks deadlock: its three
requests fit in the command channel (`SimCmdCap` 3) and its `MaxLive` of 2 never
reaps, so the hub is never suspended for good.

Fairness (`ServerQuiet` only).  A suspended `send().await` resumes when there is room:
weak fairness of the sends.  `tokio::select!` polls ready branches in random order, so
a branch that is ready again and again is taken: strong fairness of `HubEvent`,
`SimCommand` and `Tick`.  Client requests are not fair.

### Proofs (`ServerProofs`)

For any peers, coords, patterns, capacities, quotas and group sizes satisfying the
named assumptions of `Channels`, `Hub` and `Sim`:

- `TypeCorrect`: `[]TypeOK`, including that the channels respect their capacity.
- `TablesAgree`: inductive with `TypeOK`; `DropKeepsTables` carries the shared end of
  the handlers.
- `SimLearns`: the state that matters is spread over the sim's set, the channel and the
  suspended handler.  `Leads(q, S, O)` says a sim with set `S` ends with `O` after the
  commands `q`.  `LeadsConcat` composes it over concatenation and `LeadsTail` over
  taking the head, so every handler reduces to what its own commands do.  Inductive
  with `TypeOK` and the tables.
- `NeverPaused`: inductive with `TypeOK`.
- `FrozenStays`: a frozen chunk could go by a tick, by a `Reap` naming it, or with a
  paused group.  Needs `NeverPaused` (no frozen chunk is in a group) and `ReapsSpare`
  (no `Reap` under way names one).
- `LiveMirrored`: `LiveChunksMirrored`, if nothing is paused in groups (`MaxGroup <= 1`; a
  waking group of several is reported by one of its members only, section 9).
- `GhostsVanish`: `NoGhosts`, if nothing is reaped (`Cardinality(Coord) <= MaxLive`; a
  ghost exists otherwise, section 9).  Both follow from the same invariant, about one
  coord: the mirror, once the hub has taken all that is under way about the coord, ends
  as the sim has it (`MirrorEnds`).  It composes along the queue (`EndsReported` for what
  the sim appends, `EndsHandled` for what the hub takes), so a step of either task is
  looked at alone (`SimEnds`, `HubEnds`).

Only model-checked: liveness.

## 4. Storage: the io task, snapshots and recovery

A world is its tick number, its `history` and what was `reaped` of it.  The history has
the edits made and, for each tick, the rules in force (frozen regions, owned chunks); a
reaping has its place in the history.  A step is a function of the world and these rules,
so equal histories with equal reapings mean equal worlds.  The log has the edits only: the
reaper's command removes chunks without a record (`SimReap`), and replay steps by the
rules it knows (`ReplayRule`: none before the first snapshot, then the frozen masks the
snapshot carries, and never the owned chunks).  So a rebuilt world may be one that never
was, and the properties say what of it is exact.  `SimEdit`, `SimReap`, `SimTick` and
`SimSend` are the sim's side (it applies an edit, queues its record, then tells the
hub).  Each step of the io task ends at an `await` where the process may die:
`IoOpen`, `IoWriteHeader`, `IoTake` (write a record, or write a snapshot's temporary
file), `IoFsync`, `IoRename`, `IoTruncate`.  `Crash` takes queues and memory; with
`PowerLoss` a record that was not fsynced may be lost or torn.  `Boot` loads the
snapshot and replays the log (`Recovered`), or is impossible (`Refused`, a panic).

- `RecoversHistory`: replay puts every edit at the tick it was made, so that a restart goes
  back in time as far as edits and ticks go (`Script`).  Up to the snapshot the rebuilt
  world is exactly as it was, reapings and rules included; the reapings made after the
  snapshot are undone, all of them, and the ticks replayed after it may have gone by other
  rules.
- `DurableSurvives`: a restarted server has every edit whose record was fsynced.
- `TickOrder`: records are queued and logged in tick order, cut exactly at snapshots;
  this is why replay may skip by tick number alone.
- `IsDurableLog`: the whole refines `DurableLog`, a log of the edits and of the ticks they
  are apart, whose `safe` prefix is what could be recovered from the files at that moment.
  So it never shrinks, not even between the rename of a snapshot and the truncation of the
  log.  `DurableLog` promises nothing of reapings and rules, as the code does not.
- `EditsBecomeDurable`: under weak fairness of the io task and of the sim's sends.

Assumed: rename and truncation reach the disk in the order they are made, and reads
return what was written; an I/O error panics the io task, which is a crash here; the
step is deterministic; region re-seeding at boot, the byte formats and the pause-time
patterns of paused chunks are left out.

Bounds (`StorageRecovery`): two edits and a reaping in any order, snapshots every two
ticks, ticks to 4 and a channel of two reach edits and reapings before, at and after a
snapshot's tick, two snapshots in a row, and crashes at every step of each, any number of
times; a full channel suspends the sim.  `Rule` is both frozen and owned, so that replay
before a first snapshot, after one, and the live world all step by different rules.  Weak
fairness holds for the io task and for the sim's sends, as awaits that become ready are resumed;
crashes, edits and ticks need not happen.  Deadlock is not checked: a server may be unable to boot, and at the
bounds there is nothing left to do.

### Proofs (`StorageProofs`)

For any edits, rules, snapshot intervals and channel capacities satisfying the named
assumptions of `Storage`:

- `TypeCorrect`: `TypeOK`, from `TypeInv`.
- `TicksInOrder`: `TickOrder`, from `OrderInv`.  It follows the stream of records from the
  log over what the io task holds and what waits in the channel to what the sim has yet to
  send: the stream is in tick order, a snapshot in it has the tick of the record before
  it, and the files are where the last snapshot cut them.
- `FsyncedSurvives`: `DurableSurvives`, from `DurableInv`: what was fsynced is a prefix of
  the log or below the snapshot's tick.
- `RestartGoesBack` and `ImplementsDurableLog`: `RecoversHistory` and the refinement of
  `DurableLog`, from `PastInv`: the snapshot, and each one under way, was the world at some
  place of its history, with the reapings made until then (`Was`), and each part of the
  stream tells the edits and ticks of the corresponding part of the history (`Telling`).
  So what the files recover tells a prefix of it at every moment.

The last four assume that power is not lost (`~PowerLoss`), as a torn tail breaks them
(`StorageTorn`, section 9), and nothing else: `Rule` is any set of rules, and reapings come
at any time.  Recovery folds over the
log; induction over its length is done with `SetInduction` of `Basics`, over the set of
the lengths for which the claim holds, as the library's induction theorem takes an
operator.

Only model-checked: `EditsBecomeDurable`, a liveness property.

## 5. World: chunks, the detector and the sim loop

`Sim` leaves open what a tick computes; here it is computed cell by cell.

`Chunks` is `chunk.rs`: a row, a `u64` in the code, is the set of its set columns, so
AND, OR, XOR and shifts are set operations; `Kernel` is `kernel_scalar`, `Step` adds
the frozen mask.  `Detector` is `oscillator.rs`.  `World` is `world.rs`: a record
`[chunks, paused, owned, tick]` and one operator per method (`CanPause` and
`CanPauseGroup` are the gates of the two promotions, `Wake` is `wake_if_paused`,
`TickInto` is `tick_into` in its phases: perturbed, active, candidates, stepped,
outcome).  `Simulation` has the variables `world`, `subscribed`, `rings` and `requests`
(between detector and sim), one action per command, `DetectorScan`, and `Tick`: drain
some requests, pause single chunks, then groups of those refused, step, feed the
detector.

- `StepsAsLife`: a tick is `PlainLife!Generation`, everything else at most draws or
  wipes cells.  This is the refinement of `PlainLife`, with `plane` (the cells of the
  whole world, paused patterns in their current phase) as its mapping; `plane` is a
  history variable, assigned `Now(world)` by every action.  It is conditional on two
  things the code does not ensure: that what is paused is periodic (section 9) and
  that no claim's border cuts a paused group.
- `TicksLeaveNoHusks`: a tick adds no empty chunk to those an edit may have left, if no
  claim's border cuts a paused group and if every member of one takes part in it
  (`Lively`): has a cell in each phase, or is shown one by the others.  A chunk that an
  edit emptied may be collected into a group because its neighbour shows it a cell, and
  one that changed since its request was made may be paused although it dies out; when
  they are woken they are empty, and nobody visits them.
- `PausedApart`: a coord is running, or in one paused pattern; a paused pattern shows
  no cell to the outside in any phase, which is what allows a tick to look for halos
  among running chunks only.
- `TickReports`: `changed` and `removed` name all that a tick changes, which `Sim`
  assumes.

Abstractions: a hash is the rows themselves (no collisions); the pending queue is the
set of rings with `in_pending`, and a scan takes any of them; requests are a set, any
part of which a tick drains (the budget and the order are left open); an oscillator is
a group of one; an edit has one cell; the reaper may take any chunk but a frozen one,
as `Server`'s `FrozenImmortal` says it does; the initial world is a board with a
region stamped on it, as `region.rs` loads it; no coord comes near the `i32` border.

Bounds (`WorldLife`): chunks of 5 x 5 hold a blinker with a margin, so that it can pause
alone, and periods to 2 need 6 reports.  Boards: a blinker across two chunks, which
pauses as a group; a blinker attacked by a glider that reaches the border just when the
blinker may be paused and crosses it by tick 10; a diagonal through a corner of four
chunks.  One locked cell is alive and one dead, and one locked cell is among those
edited.  Two commands
are enough for an edit after a request, a subscribe after a pause, a claim and an edit;
`MaxGroup` is 2 and a claim covers one chunk.  `CHECK_DEADLOCK FALSE`: at `MaxTick` and
`MaxCommands` there is nothing left to do.

### Proofs (`Basics`, `ChunksProofs`, `WorldProofs`, `SimulationProofs`)

`KernelIsLife`: for every `CHUNK_SIZE`, rows and halo, the bit formula gives exactly
B3/S23 on the chunk with its halo around it.  `AddBits` and `AddCounts` say that one
step of the carry cascade adds one to a column's four-bit `Value`, as long as it stays
under 9; `EightCount` repeats it eight times; `ShiftsOfRowAt` says which neighbour each
shifted row holds, at the borders and corners too; `RuleBits` reads the final formula.
It assumes only that `CHUNK_SIZE` is a positive integer.

For every chunk size, period, board, region, group size, set of claims and of editable
cells, and without further hypotheses:

- `WorldTypes` and `PausedStaysApart`: `TypeOK` and `PausedApart`, from `IInv`.  Its core
  is `Apart` of `WorldProofs`: what is paused is disjoint, not frozen, and shows no cell to
  the outside in any phase.  One lemma per operator of `World` says that it keeps `Apart`
  and the types (`WakeOK`, `PauseOK`, `SetCellAtOK`, `RemoveChunkOK`, `TickOK`).  The
  difficult steps are pausing several groups in one tick and what a tick creates.  For the
  first, a component that `CanPauseGroup` accepts is closed under "shows a cell to"
  (`ComponentClosed`: a component cut short by `MaxGroup` is refused), so that two are
  equal or disjoint (`ComponentsApart`).  For the second, a coord that becomes a chunk has
  a running neighbour that shows it a cell or is woken by it, and so is not paused
  (`CandidatesApart`).
- `TickReportsChanges`: `TickReports`.  A chunk that is not named was not stepped, and its
  pattern is the same before and after; a woken group is stepped or named as a whole.
- `TicksKeepSparse`: `TicksLeaveNoHusks`.  A woken member has a cell or is shown one, so it
  is active, is stepped, and is dropped if nothing is left of it.
- `WorldLives`: `StepsAsLife`, the refinement of `PlainLife`, from `LifeInv`.  `Whole` is the
  world with everything awake; it has one chunk per coord (`WholeIs`, from `Apart`), waking
  and pausing do not change it (`WakeWhole`, `PauseWhole`), and `plane` is its cells.  A tick
  then is one step of each chunk in the halo of that whole world
  (`TickWhole`), whatever the code did: a chunk that it passed over was empty in an empty
  halo (`RunningHalo`), a dropped one has nothing left, and a pattern that stays paused is
  shown no cell by the others (`WholeApart`), so that its next phase is its step
  (`PausedSteps`).  That step is a generation of the cells in the plane (`StepInPlane`:
  `HaloInPlane` says which cell of the plane each cell of a halo is, over the borders and
  corners, and `KernelIsLife` does the rest), and `GrownIs` says that `PlainLife` counts the
  same neighbours.  `Stamped` keeps the locked cells locked and present.  `EditInPlane`,
  `ReapInPlane` and `ClaimInPlane` are the other actions.

The two conditions of `StepsAsLife` are needed and not ensured by the code: what is paused
recurs (`WorldStale`, section 9), and the border of a claim cuts no paused group (`Uncut`).
Every state before a stale request is served, or before a claim is drawn, satisfies them,
so the theorem speaks about all ordinary runs, with single and grouped oscillators, wakes
in any phase, claims and regions.

## 6. Claims and regions

`Regions` is `region.rs` and the part of `claims.rs` that turns claims into regions: a
region is its set of cells, flags and owner.  `CanEdit` is `can_edit`: of the regions
that lock a cell the first in the list decides, and static regions come first.  `Blocks`
is the rule of `try_create`.

`Claims` keeps the hub's registry and identities (`claims`, `peer_user`), the command
channel and the sim's owned chunks (`sim_cmd`, `sim_owned`), and the disk: a file and a
temporary file per user (`files`, `tmps`) and the detached tasks (`writes`).
`ClaimCreate`, `ClaimDelete` and `Edit` are the hub's handlers, `AuthPeer` and `DropPeer`
change who a connection is, `SimCommand` is the sim.  A task writes the temporary file
(`WriteTmp`) and renames it (`Rename`), or removes the file (`Remove`); tasks run in any
order, and any of them may fail (`WriteFails`).  `Restart` takes everything but the disk.

- `OwnerRules`: every cell of a claim can be edited by its owner and by nobody else.  It
  needs that claims do not overlap, over any history of claims moved, given up and taken
  by others.  It holds as long as the files the server started from did not overlap
  (`clean`); section 9 says how they come to.
- `EditsLawful`: the hub checks an edit against the claims of the moment, and the sim
  makes it later without asking.  The channel orders it with the `SetOwned`s, so it is
  lawful under the claims in force when it is made.
- `SimIsolates`: also after a restart, when the sim is told by nobody.
- `DiskFollows`: a user's file is the user's claim when the user's tasks are done,
  unless one failed or overtook an earlier one (`astray`).
- `ClaimsSettle`: under weak fairness of the sim's commands and of the tasks' steps,
  which tokio runs to their end.  Requests, failures and restarts are not fair.

Abstractions: the registry is a function from users to coords, where the code has a
`Vec` with one entry per user; which of two overlapping claims is found first is left
open (both answers are possible).  One connection is enough in the run, as the hub
handles one request at a time and looks at the peer's user only; it may be anybody's in
turn.  The hub's handlers are atomic: suspended in a send it handles nothing else.
Writing the bytes of the temporary file is one step.  Names and colours of claims,
collisions of the hashes that name the files, and sessions are left out.  `clean`,
`astray`, `in_force` and the fields `law` and `by` of commands are history variables.

Bounds (`ClaimsLife`): chunks of 2 x 2 cells, claims of 2 x 1 chunks at four sites, of
which neighbours overlap, the outer two do not and one lies on a frozen region; one cell
is negative and locked by nobody's region.  Two users are the least that compete for a
site.  Three requests: a claim, its removal or move, and another's claim or an edit; the
tasks of all three may be under way together.  One restart, at any moment.

### Proofs (`ClaimsProofs`)

For any users, connections, sites, editable cells, static regions and sizes satisfying
the named assumptions of `Regions` and `Claims`:

- `TypeCorrect`: `[]TypeOK`.
- `OwnersOnly`: `OwnerRules`, from `Apart` (after a clean start the claims do not
  overlap), which is inductive with `TypeOK`: `WithNoOverlap` says that a claim the rule
  of `try_create` admits overlaps no other, and `OwnerEdits` that without overlaps the
  first region that locks a cell is the owner's, whichever it is.
- `ClaimsIsolated` and `LawfulWhenMade`: `SimIsolates` and `EditsLawful`, from
  `CommandsInv`.  Its core is `LatestLaw`: the last claims on their way to the sim, or
  those in force if none are, are the hub's.  Without it an edit that is lawful for the
  hub could not be known lawful at its place in the channel.
- `FilesFollow`: `DiskFollows`, from `DiskInv`: as long as a user's tasks run in order, the
  newest is going to bring the file up to date, and only the first may be half done, so
  that the one temporary file is its own.

Only model-checked: `ClaimsSettle`.

## 7. Client

`Client` is a browser (`world.ts`, `subscription.ts`, the socket handlers of `main.ts`)
against a server made of `World`.  The browser is sent only the changes it cannot
compute: on `Sync` it steps every cached chunk that no delta came for, with the edges it
has in its cache.

The server is the hub and the sim, with the queue of commands between them (`sim_cmd`).
The hub keeps its own `mirror` and `owned` set and answers from them; the sim takes the
commands later, in order, and the world goes on meanwhile (`SimReap`, `SimSubscribe`,
`SimUnsubscribe`, `SimSetOwned`).  So the reaper's command waits while ticks still change
the chunk it names, and bring it back to the mirror and to whoever subscribes
(`Mirrored`); the sim then removes it in silence, and `haunted` remembers it.  `Edit` and
`Tick` are the sim's handler with the hub's for its event, reaper included, in the order
the messages leave the hub; `SetOwned` and `HubReceive` are the hub's alone.  The
browser's is one action per message (`OnChunkState`, `OnChunkDelta`, `OnReaped`,
`OnEditApplied`, `OnSync`), `Pan` (`Subscription::update`), `Close` and `Open`.
`cache`, `order` and `updated` are `ChunkCache`; `order` is the order in which the map
iterates, which is the order of eviction.

- `ViewExact`: a browser that has handled everything shows exactly what the server has,
  at every chunk of `assured`.  That history variable is the set of subscribed chunks
  which the browser has been told enough about.  A chunk leaves it when
  a neighbour shows it a cell in a tick for which no delta of it is sent, on the server
  or in the cache; when it is stepped or skipped at a `Sync` after a delta that was not
  the tick's; when it is edited without being in the cache, or at a frozen cell; when it
  is evicted; when the sim removes it.  It does not enter when the hub's answer to the
  subscription is not the present pattern, or is none although there is one.  Each of
  these is a case where the code does show something else (section 9), and without any one
  of the larger ones `ViewExact` fails.
- `NoLeftovers`: what is cached exists, whether or not it is still subscribed, unless an
  event brought it back to the hub between the reaper's command and its execution
  (`haunted`, until the hub hears of the chunk again or reaps it again).  That this is the
  only way is what is left to say: the ghost itself is real (section 9).
- `InterestAgreed`: the hub's set is the view once requests have been taken, over lost
  connections and views that change between two sockets.

Abstractions: an event is handled by the hub in the step of the sim that makes it.  This
leaves out no behaviour of hub and browser: what the hub does with an event depends on the
hub alone and what the sim does on its commands, both queues keep their order, and a sim
that is ahead of its events is a sim that takes its commands later, of which there is
every delay here (`Server` has both queues).  An edit, the browser's own or another's,
takes effect at any time, wherever it was queued.  The initial world is mirrored at the start, as the first event has it; other peers are left out, as their
subscriptions only keep chunks from being paused or reaped; only single chunks are
paused, with their least period; chunks of static locked regions are not isolated; an
edit has one cell; a view is any of a few sets, whatever the geometry of the screen; the
timers that delay a reconnection or a report of the view are left open; messages keep
their order, as on a socket, and are lost only with it.

Bounds (`ClientView`): chunks of 5 x 5, a blinker inside one chunk and one across two;
both chunks, one or none in view; a region with a live cell in the second; edits at the
middle of the first and at the frozen cell; a buffer of one cached chunk beyond the
view, so that eviction happens.  One edit or claim, two changes of view or connection,
two ticks (a blinker's period), and two messages on their way when the server sends more
(`MaxInbox` 1).  `MaxLive` is 1, so that the reaper runs whenever a second chunk is
mirrored.  In this instance chunks are paused while the browser waits to see them, the
reaper's command is overtaken by a subscription and by a tick that brings the chunk back,
and browsers keep such ghosts: each was confirmed by a state TLC finds.  A third tick
finds nothing more, in 73,711 states instead of 34,572.  `CHECK_DEADLOCK FALSE`: at the
bounds there is nothing left to do.

### Proofs (`ClientProofs`)

For any boards, regions, views, cache sizes and editable cells satisfying
`ClientAssumption` (boards, regions and views are finite, as what the code holds in memory
is; the capacity is a natural number):

- `ClientTypes`: `TypeOK`, among it that the cache never holds more than its capacity, with
  `order` listing each cached coord once.
- `LeftoversGo`: `NoLeftovers`.
- `InterestSettles`: `InterestAgreed`.
- `ViewSettles`: `ViewExact`.

The first three follow from `ClientInv`, which has six parts.  `ServerInv`: the world is one that
`WorldProofs` speaks about (`Apart`), its paused patterns are single chunks, and it is
finite, and so is the mirror; without that the messages of a tick could not be put in an
order, and a tick would not be possible.  Its `MirrorInv` says that what is mirrored exists
or is a ghost.  `MailInv` and `CacheInv` are the types of what is under way and of the
cache.  `OfflineInv`: without a connection both sides have nothing.  `AskedInv`: whether
the hub will have a coord in its set once it has taken the requests under way is decided by
the last request that names it, or by the set itself if none does, and is whether it is in
view; a view that changes while the socket is closed is forgotten when it opens.
`HeldInv`: what is cached, or put by a message under way, is mirrored, or a
`Reaped` of it comes later in the same mail.  `HeldMore` keeps this when the hub appends
to the mail (`Honest`: a chunk leaves the mirror only in a step that sends `Reaped`, and
what is put last is in it), `HeldLess` when the browser
takes a message.  The `*Server` lemmas say for each of the server's steps what it does to
the mirror and what it sends; the `*Step` lemmas carry all six parts over each action.

`ViewSettles` needs three parts more (`ViewInv`).

- `ShownInv` speaks of every moment and not only of those where the mail is read: however
  the browser reads the mail under way, an assured chunk comes out with the rows the server
  has, unless a request that ends the interest in it is on its way.  A reading (`Leads`) is
  a chain of states of one chunk (cached or not, its rows, told of since the last `Sync`);
  `Reads` says where one message leads.  It leaves out the neighbours: where they matter
  the chunk loses its assurance, and no reading need be right.  A step of the browser takes
  the first link of the chain (`ShownLess`), a step of the server adds links that must lead
  from what was right to what is right now (`Repairs`, `ShownMore`).  `LeadsDeltas`,
  `LeadsStates` and `LeadsTick` say where the server's lists lead; `GoneEmpty`, that a chunk
  which neither the cache nor the mail holds is shown as empty, which is right of a chunk
  subscribed to while it does not exist.
- `LockedInv`: the cells a region locks are locked on the server, running or paused, the
  alive ones alive and the dead ones dead.  The browser has the mask of its own region list
  and takes the values from its cache; only by this are they the server's (`AloneIs`).
- `RecursInv`: what is paused is back where it was after its period.  The hub takes a
  subscription before the sim wakes the chunk, so an assured chunk may be paused for a
  while, when the pattern it was seeded with happened to be the present one.  Its next
  phase is the step the browser takes, because it recurs, is alone and is shown no cell
  (`TickQuiet`, `TickTruth`, with what `WorldProofs` says of the whole world); and an edit
  or a subscription elsewhere that wakes a pattern leaves what it is alone (`WakeRows`).

A chunk that a neighbour shows a cell only from the next tick on stays assured; no part of
the proof needs it to be excused.

All of `Client`'s properties a passing run checks are proved.

## 8. Not modelled

Byte formats and the wire protocol, metrics, config parsing, the OAuth exchange and the
sessions it ends in, drawing and gestures in the client: no behaviour the properties are
about.  The AVX2 kernel, which computes the formula of the scalar one in wider registers.
Of modelled components: the pattern that a snapshot saves of a paused chunk (`Storage`
knows histories, not patterns), and what the hub sends to a client after the socket's
queue is full (a dropped peer is modelled, its last messages are not).

## 9. Where the code and its documents disagree

Each is a run that TLC must find violated.

- `ServerStall`: full channels make hub and sim wait for each other; the comment
  promises a panic (`sim.rs:72-73`).
- `StorageTorn`: after a power loss a torn tail of under 8 bytes is accepted and then
  appended to; the boot after that misreads the log (`io_task.rs:4-5`).
- `WorldStale`: an edit between the detector's scan and the tick that serves its request
  does not withdraw the request, and `promote_oscillator` does not check that the chunk
  recurs: what is paused is not periodic, and waking it does not "advance to the current
  phase" (`world.rs:363-364`).  The phase is then one the plain Game of Life never
  reaches.  `promote_oscillator_group` does check (341-347).
- `ClaimsTwice`: a user gives up or moves a claim, another takes the place, and the server
  stops when only the second write has reached the disk, or after the first one failed or
  ran last.  The start loads both claims, side by side and unchecked (`main.rs`), and from
  then on owners edit in each other's claim, though only the owner may (`region.rs:132`).
- `ClientPhase`: a paused chunk is sent to a new subscriber with the pattern of the pause;
  the wake that follows is withheld for the reason that isolated chunks "are simulated
  correctly by the client" (`hub.rs:316-317`).  The browser stays out of phase.

More were seen, each with a further configuration that TLC finds violated:

- `ServerGhost.cfg`: an event in flight puts a chunk back into the mirror after the reaper
  evicted it; the sim removes it silently, though `SimEvent::removed` is documented
  to name reaped chunks (`sim.rs:56`).
- `ServerImmortal.cfg`: the reaper promises to spare observed chunks (`reaper.rs:3-5`), but
  removing a member of a paused group removes its mates (`world.rs:200-204`).
- `StorageBoot.cfg`: a process killed between truncation and the header leaves a log that
  cannot be replayed, so the server does not start (`io_task.rs:6-7`).
- `StorageRules.cfg`: replay steps without the owned chunks (`io_task.rs:186-189`), and
  without frozen masks when there is no snapshot yet (`RestoresExactly`).

And these, found while reading and by weakening a property:

- With `Frozen` empty and `MaxGroup` 2, `ServerMirror` violates `LiveChunksMirrored`:
  waking a group moves all its chunks but only one, or the edited ones, are reported as
  changed (`sim.rs:48-49`, 207, 238-240).
- Reaped chunks are in no record: those removed since the last snapshot are back after a
  restart, and may change what is replayed around them (`sim.rs:224-232`,
  `io_task.rs:190-263`).
- The ghost of `ServerGhost` reaches browsers: the tick that brings a reaped chunk back to
  the mirror is sent as a delta, or answers the next subscription, and no second `Reaped`
  follows the sim's silent removal (`haunted` in `Client`).
- The sim waits for the io task when its channel is full (`io_task.rs:9-11` says it
  never does; `sim.rs:199-202`).
- "Durable record before client visibility: WAL append + fsync" (`sim.rs:197`): the
  record is only queued, and the event that shows the edit does not wait for it.
- A claim drawn through a paused group does not wake it: until it wakes, its members
  see each other across the border (`world.rs:118-125`).
- An edit that clears the last cell of a chunk, or clears a cell of an absent one, leaves
  an empty chunk that no tick visits (`world.rs:170-174`, 407-410).  So does a group woken
  in a phase where a member is empty, when a claim's border cuts it or when that member
  took no part in the group (`Lively`, section 5).
- A snapshot saves a paused chunk with the pattern of the pause under the present tick
  (`snapshot.rs:33`).
- The browser drops the edit of a chunk it does not have, and isolated chunks get no
  delta: a chunk created by an edit away from its border is not shown (`world.ts:175`;
  `protocol/src/lib.rs:65-67`).
- The browser steps a chunk against neighbours that a delta has already moved on; the
  comment says pre-step (`world.ts:188-191`).
- A delta of an edit or a wake makes the next prediction skip the chunk
  (`world.ts:98-103`).
- An edit of a frozen cell outside a locked region is shown by the browser; the sim passes
  over it.
- Chunks of static locked regions are isolated by the sim, but the hub's set of owned
  chunks, whose changes it always sends, has claims only.
- A chunk emptied by an edit sends no `ChunkState` to a new subscriber, so an older copy
  that lingers in its cache stays.
- A delta under way when the view moves on puts the chunk back into the cache (`world.ts`
  keeps lifetime "independent" of subscriptions, lines 1-3; `subscription.ts:97` drops).
- Chunks that are only predicted are never put again and so are evicted first.
- `AuthState` at the join has no claim and no name: `ws.rs:136-149` passes a key that
  `UserStore::get` hashes once more (`user_store.rs:40-41`).
- `AuthState` is "sent after any auth/claim state change" (`protocol/src/lib.rs:69`), but only
  to the connection that asked, and then without name and email, which the browser takes
  over (`hub.rs`, `auth_state_for`; `main.ts`).
- "tmp -> fsync -> rename" (`user_store.rs:52`): there is no fsync.

## 10. Running

`tlc -config X.cfg MCServer.tla` (`MCServerQuiet.tla` for `ServerQuiet`, `MCStorage.tla`
for the storage runs, `MCSimulation.tla` for the world runs, `MCClaims.tla` and
`MCClient.tla` for theirs).  `WorldLife` takes about a minute, `ClaimsLife` and
`ClientView` one and a half; the others take seconds.  `tlapm ServerProofs.tla`,
`tlapm StorageProofs.tla`, `tlapm ClaimsProofs.tla`, `tlapm Basics.tla`, `tlapm
ChunksProofs.tla`, `tlapm WorldProofs.tla`, `tlapm SimulationProofs.tla`, `tlapm
ClientProofs.tla`.  Operators whose comment starts with "Mutant:" are deliberate
mistakes: substituted for the definition that follows them, each must violate the
property `PROJECT.json` names.
