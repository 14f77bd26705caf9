------------------------------- MODULE Storage -------------------------------
(***************************************************************************)
(* Persistence: the sim queues edits and snapshots for the io task          *)
(* (server/src/io_task.rs), which keeps a write-ahead log and a snapshot    *)
(* file; after a crash the world is loaded from the snapshot and the log is *)
(* replayed on it (server/src/main.rs, snapshot.rs).                        *)
(*                                                                         *)
(* A world is its tick number, its history and its reapings.  The history  *)
(* has the edits and, for each tick, the rules in force (frozen regions,   *)
(* owned chunks); a reaping has its place in the history.  A Game of Life  *)
(* step is a function of the world and those rules, so two worlds with the *)
(* same history and the same reapings are equal.  The log has only the     *)
(* edits: a world it rebuilds may differ from the one that was lost in the *)
(* rules of its ticks and in what was reaped, and RecoversHistory says     *)
(* where.  Pausing is not modelled here, nor is the re-seeding of region   *)
(* patterns at boot.                                                       *)
(***************************************************************************)
EXTENDS Naturals, Sequences, FiniteSets, SequencesExt

CONSTANTS
  EditId,             \* edit batches, each made at most once
  ReapId,             \* the reaper's commands, each given at most once
  Rule,               \* rules in force in a running server: {} to {"frozen", "owned"}
  NoFile,             \* no snapshot file
  IoCap,              \* IO_CMD_CAPACITY (256)
  SnapshotInterval,   \* config.snapshot_interval_ticks
  MaxTick,            \* bound of the models: no tick beyond this number
  PowerLoss           \* TRUE: a crash may lose or tear what is not fsynced

ASSUME StorageAssumption ==
  /\ Rule \subseteq {"frozen", "owned"}
  /\ IoCap \in Nat \ {0} /\ SnapshotInterval \in Nat \ {0} /\ MaxTick \in Nat
  /\ PowerLoss \in BOOLEAN
  /\ \A entry \in SUBSET {"frozen", "owned"} \cup {{"misread"}} : entry \notin EditId

VARIABLES
  running,        \* the server process runs
  world,          \* the sim's world; while down, the one that was lost
  next_snapshot,  \* next_snapshot_tick
  outbox,         \* what the sim's current handler has yet to send
  io_queue,       \* the sim -> io channel
  io,             \* what the io task is doing
  snapshot,       \* the snapshot file
  wal_header,     \* header of the WAL file: "absent", "short" or "ok"
  wal,            \* its records; a torn one stands for what is left of it
  used,           \* edits and reapings made so far
  synced          \* edits whose record was fsynced

sim_part  == <<world, next_snapshot, outbox, used>>
disk      == <<snapshot, wal_header, wal>>
vars      == <<running, sim_part, io_queue, io, disk, synced>>

Fresh == [tick |-> 0, history |-> << >>, reaped |-> {}]

Record(tick, e)  == [op |-> "AppendEdits", tick |-> tick, edit |-> e]
SnapshotOf(w)    == [op |-> "Snapshot", saved |-> w]
Torn(shape)      == [op |-> shape]     \* "tear8": under 8 bytes left, "tear": more

Init ==
  /\ running = FALSE
  /\ world = Fresh
  /\ next_snapshot = 0
  /\ outbox = << >> /\ io_queue = << >>
  /\ io = [at |-> "idle"]
  /\ snapshot = NoFile
  /\ wal_header = "absent"
  /\ wal = << >>
  /\ used = {} /\ synced = {}

-----------------------------------------------------------------------------
(* The sim *)

SimReady == running /\ outbox = << >>

\* Apply an edit and send its record to the io task.  (Its event goes to the hub
\* next, without waiting for the record: Server's subject.)
SimEdit(e) ==
  /\ SimReady
  /\ e \notin used
  /\ used' = used \cup {e}
  /\ world' = [world EXCEPT !.history = Append(@, e)]
  /\ outbox' = << Record(world.tick, e) >>
  /\ UNCHANGED <<running, next_snapshot, io_queue, io, disk, synced>>

\* Remove the chunks the hub's reaper names: nothing is logged, nobody is told.
SimReap(r) ==
  /\ SimReady
  /\ r \notin used
  /\ used' = used \cup {r}
  /\ world' = [world EXCEPT !.reaped = @ \cup {<<Len(world.history), r>>}]
  /\ UNCHANGED <<running, next_snapshot, outbox, io_queue, io, disk, synced>>

\* Mutant: the snapshot is taken of the world before the step.
SimTickStale ==
  LET now == world.tick + 1
  IN /\ SimReady
     /\ world.tick < MaxTick
     /\ world' = [world EXCEPT !.tick = now, !.history = Append(@, Rule)]
     /\ IF now >= next_snapshot
        THEN next_snapshot' = now + SnapshotInterval /\ outbox' = << SnapshotOf(world) >>
        ELSE UNCHANGED <<next_snapshot, outbox>>
     /\ UNCHANGED <<running, used, io_queue, io, disk, synced>>

\* Step the world; when it is time, a snapshot of it goes to the io task.
SimTick ==
  LET now == world.tick + 1
      new == [world EXCEPT !.tick = now, !.history = Append(@, Rule)]
  IN /\ SimReady
     /\ world.tick < MaxTick
     /\ world' = new
     /\ IF now >= next_snapshot
        THEN next_snapshot' = now + SnapshotInterval /\ outbox' = << SnapshotOf(new) >>
        ELSE UNCHANGED <<next_snapshot, outbox>>
     /\ UNCHANGED <<running, used, io_queue, io, disk, synced>>

\* Mutant: the channel to the io task is unbounded.
SimSendUnbounded ==
  /\ running
  /\ outbox # << >>
  /\ outbox' = Tail(outbox)
  /\ io_queue' = Append(io_queue, Head(outbox))
  /\ UNCHANGED <<running, world, next_snapshot, used, io, disk, synced>>

\* The sim's handler gets its message through when there is room.
SimSend ==
  /\ running
  /\ outbox # << >>
  /\ Len(io_queue) < IoCap
  /\ outbox' = Tail(outbox)
  /\ io_queue' = Append(io_queue, Head(outbox))
  /\ UNCHANGED <<running, world, next_snapshot, used, io, disk, synced>>

-----------------------------------------------------------------------------
(* The io task: each action ends at an await at which the process may die. *)

Io(at) == running /\ io.at = at

\* Open the log: create it with an unwritten header if there is none.
IoOpen ==
  /\ Io("opening")
  /\ IF wal_header = "absent"
     THEN wal_header' = "short" /\ wal' = << >> /\ io' = [at |-> "header"]
     ELSE UNCHANGED <<wal_header, wal>> /\ io' = [at |-> "idle"]
  /\ UNCHANGED <<running, sim_part, io_queue, snapshot, synced>>

IoWriteHeader ==
  /\ Io("header")
  /\ wal_header' = "ok"
  /\ io' = [at |-> "idle"]
  /\ UNCHANGED <<running, sim_part, io_queue, snapshot, wal, synced>>

\* Mutant: the log is emptied before the snapshot is in place.
IoTakeTruncates ==
  /\ Io("idle")
  /\ io_queue # << >>
  /\ io_queue' = Tail(io_queue)
  /\ LET cmd == Head(io_queue)
     IN IF cmd.op = "AppendEdits"
        THEN wal' = Append(wal, cmd) /\ io' = [at |-> "fsync"]
        ELSE wal' = << >> /\ io' = [at |-> "rename", saved |-> cmd.saved]
  /\ UNCHANGED <<running, sim_part, wal_header, snapshot, synced>>

\* Take a command: write the record, or write a snapshot and rename it into
\* place (a crash before the rename leaves the old file).
IoTake ==
  /\ Io("idle")
  /\ io_queue # << >>
  /\ io_queue' = Tail(io_queue)
  /\ LET cmd == Head(io_queue)
     IN \/ /\ cmd.op = "AppendEdits"
           /\ wal' = Append(wal, cmd)
           /\ io' = [at |-> "fsync"]
           /\ UNCHANGED snapshot
        \/ /\ cmd.op = "Snapshot"
           /\ io' = [at |-> "rename", saved |-> cmd.saved]
           /\ UNCHANGED <<wal, snapshot>>
  /\ UNCHANGED <<running, sim_part, wal_header, synced>>

\* Mutant: a failing fsync stops the io task without a word.
IoFsyncStuck == Io("fsync") /\ UNCHANGED vars

IoFsync ==
  /\ Io("fsync")
  /\ synced' = synced \cup {Last(wal).edit}
  /\ io' = [at |-> "idle"]
  /\ UNCHANGED <<running, sim_part, io_queue, disk>>

IoRename ==
  /\ Io("rename")
  /\ snapshot' = io.saved
  /\ io' = [at |-> "truncate"]
  /\ UNCHANGED <<running, sim_part, io_queue, wal_header, wal, synced>>

\* Truncate the log; its header is written by the next step.
IoTruncate ==
  /\ Io("truncate")
  /\ wal_header' = "short" /\ wal' = << >>
  /\ io' = [at |-> "header"]
  /\ UNCHANGED <<running, sim_part, io_queue, snapshot, synced>>

-----------------------------------------------------------------------------
(* Crash and boot *)

\* What is left of a log whose last record may not have been fsynced.
Remains(log) ==
  IF ~PowerLoss \/ io.at # "fsync" THEN {log}
  ELSE {log, Front(log)} \cup {Append(Front(log), Torn(shape)) : shape \in {"tear8", "tear"}}

Crash ==
  /\ running
  /\ running' = FALSE
  /\ wal' \in Remains(wal)
  /\ outbox' = << >> /\ io_queue' = << >> /\ io' = [at |-> "idle"]
  /\ UNCHANGED <<world, next_snapshot, used, snapshot, wal_header, synced>>

\* Replay steps the world with the rules the snapshot carries: frozen masks are
\* saved in it, owned chunks are set later.
ReplayRule == IF snapshot = NoFile THEN {} ELSE Rule \ {"owned"}

\* Mutant: records the snapshot covers are replayed too.
ReplayAll(w, r) ==
  [w EXCEPT !.tick    = r.tick,
            !.history = @ \o [i \in 1..(r.tick - w.tick) |-> ReplayRule] \o << r.edit >>]

\* Mutant: records of the snapshot's own tick are skipped.
ReplayLater(w, r) ==
  IF r.tick <= w.tick THEN w
  ELSE [w EXCEPT !.tick    = r.tick,
                 !.history = @ \o [i \in 1..(r.tick - w.tick) |-> ReplayRule] \o << r.edit >>]

\* One record replayed on world w: skipped if the snapshot covers it, else the
\* world is stepped to the record's tick and edited.
Replay(w, r) ==
  IF r.tick < w.tick THEN w
  ELSE [w EXCEPT !.tick    = r.tick,
                 !.history = @ \o [i \in 1..(r.tick - w.tick) |-> ReplayRule] \o << r.edit >>]

\* A torn record ends the log where it is the last and under 8 bytes long.  With
\* more bytes left replay fails; followed by other records, what it reads from
\* there on is not what was written (here: a misread, or a server that stays down).
Damaged == {i \in DOMAIN wal : wal[i].op # "AppendEdits"}
Intact  == IF Damaged = {} THEN wal ELSE SubSeq(wal, 1, Min(Damaged) - 1)
Misread == {"misread"}

Loaded == IF snapshot = NoFile THEN Fresh ELSE snapshot

\* replay_into fails, and the server does not start.
Refused ==
  \/ wal_header = "short"
  \/ \E i \in Damaged : wal[i].op = "tear"

\* The world after loading the snapshot and replaying the log.
Recovered ==
  LET w == FoldLeft(Replay, Loaded, Intact)
  IN IF Damaged \subseteq {Len(wal)} THEN w ELSE [w EXCEPT !.history = Append(@, Misread)]

Boot ==
  /\ ~running
  /\ ~Refused
  /\ running' = TRUE
  /\ world' = Recovered
  /\ next_snapshot' = Recovered.tick + SnapshotInterval
  /\ io' = [at |-> "opening"]
  /\ UNCHANGED <<outbox, io_queue, disk, used, synced>>

SimStep ==
  \/ SimTick
  \/ SimSend
  \/ \E e \in EditId : SimEdit(e)
  \/ \E r \in ReapId : SimReap(r)
IoStep  == IoOpen \/ IoWriteHeader \/ IoTake \/ IoFsync \/ IoRename \/ IoTruncate

Next == SimStep \/ IoStep \/ Crash \/ Boot

Spec == Init /\ [][Next]_vars

\* A running io task goes on with its work; crashes and edits need not happen.
FairSpec == Spec /\ WF_vars(IoStep) /\ WF_vars(SimSend)

-----------------------------------------------------------------------------
Rules   == {{}, Rule \ {"owned"}, Rule, Misread}
World   == [tick: 0..MaxTick, history: Seq(EditId \cup Rules), reaped: SUBSET (Nat \X ReapId)]
ASSUME NoFileAssumption == NoFile \notin World

WalItem == [op: {"AppendEdits"}, tick: 0..MaxTick, edit: EditId] \cup [op: {"tear8", "tear"}]
IoCmd   == [op: {"AppendEdits"}, tick: 0..MaxTick, edit: EditId] \cup [op: {"Snapshot"}, saved: World]

TypeOK ==
  /\ running \in BOOLEAN
  /\ world \in World
  /\ next_snapshot \in 0..(MaxTick + SnapshotInterval)
  /\ outbox \in Seq(IoCmd)
  /\ io_queue \in Seq(IoCmd) /\ Len(io_queue) <= IoCap
  /\ io \in [at: {"idle", "opening", "header", "fsync", "truncate"}]
           \cup [at: {"rename"}, saved: World]
  /\ snapshot \in World \cup {NoFile}
  /\ wal_header \in {"absent", "short", "ok"}
  /\ wal \in Seq(WalItem)
  /\ used \subseteq EditId \cup ReapId /\ synced \subseteq used

(***************************************************************************)
(* "Recent edits survive a crash": whatever the crash interrupts, a server *)
(* that comes up again has every edit whose record was fsynced.            *)
(***************************************************************************)
DurableSurvives == running => synced \subseteq ToSet(world.history)

\* What the log could tell of a history: its edits, and how many ticks apart.
Script(h) == [i \in DOMAIN h |-> IF h[i] \in EditId THEN h[i] ELSE "tick"]

(***************************************************************************)
(* A restart goes back in time: replay puts every edit at the tick it was  *)
(* made, neither twice nor in another order.  Up to the snapshot the       *)
(* rebuilt world is as it was, reapings and rules included; the reapings   *)
(* made after it are undone, whatever of the history the log brings back.  *)
(***************************************************************************)
RecoversHistory ==
  [][Boot =>
       /\ IsPrefix(Script(world'.history), Script(world.history))
       /\ IsPrefix(Loaded.history, world.history)
       /\ world'.reaped = {p \in world.reaped : p[1] < Len(Loaded.history)}]_vars

(***************************************************************************)
(* Replay makes of the log the very world that was lost, up to where the   *)
(* log ends.  (Not so: it does not step by the rules of the server.)       *)
(***************************************************************************)
RestoresExactly == [][Boot => IsPrefix(world'.history, world.history)]_vars

\* Everything logged or on its way to the log, oldest first.
Stream == wal \o io_queue \o outbox

(***************************************************************************)
(* IoCmd: "Must arrive in tick order".  Records arrive in tick order, none *)
(* from the future, and a snapshot cuts the stream at its tick: what comes *)
(* before it is older, what comes after is not.                            *)
(***************************************************************************)
TickOrder ==
  running =>
    \A i, j \in DOMAIN Stream :
      LET a == Stream[i]
          b == Stream[j]
      IN /\ a.op = "AppendEdits" => a.tick <= world.tick
         /\ i < j /\ a.op = "AppendEdits" /\ b.op = "AppendEdits" => a.tick <= b.tick
         /\ i < j /\ a.op = "AppendEdits" /\ b.op = "Snapshot" => a.tick < b.saved.tick
         /\ i < j /\ a.op = "Snapshot" /\ b.op = "AppendEdits" => a.saved.tick <= b.tick

(***************************************************************************)
(* The storage is a DurableLog of the edits made and of the ticks they are *)
(* apart, of which everything that can be recovered from the files is      *)
(* safe.  It is none of the rules the ticks go by, nor of the reapings.    *)
(***************************************************************************)
Log == INSTANCE DurableLog WITH
         Item    <- EditId \cup {"tick"},
         history <- Script(world.history),
         safe    <- Len(Recovered.history)
IsDurableLog == Log!Spec

Queued(e) == \E m \in ToSet(io_queue \o outbox) : m.op = "AppendEdits" /\ m.edit = e

(***************************************************************************)
(* The sim and the io task never get stuck on each other: the record of    *)
(* every edit made is fsynced, unless the server dies first.               *)
(***************************************************************************)
EditsBecomeDurable ==
  \A e \in EditId : (running /\ Queued(e)) ~> (e \in synced \/ ~running)

(***************************************************************************)
(* io_task.rs: writing "atomically (`tmp -> fsync -> rename`) and          *)
(* truncate the WAL on success".  Whenever the server goes down, it finds  *)
(* files it can boot from.                                                 *)
(***************************************************************************)
Bootable == ~running => ~Refused

=============================================================================
