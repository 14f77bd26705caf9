----------------------------- MODULE Simulation ------------------------------
(***************************************************************************)
(* The sim loop (server/src/sim.rs) over the world and the detector: what  *)
(* Sim.tla leaves open, the patterns, is here computed cell by cell.  The  *)
(* commands come from anywhere; scans run concurrently with the loop, and  *)
(* a promote request is served any number of ticks after it was made.      *)
(***************************************************************************)
EXTENDS World

CONSTANTS
  Boards,        \* sets of cells: the patterns a world may start with
  RegionAlive,   \* cells a FROZEN region locks alive ...
  RegionDead,    \* ... and dead
  MaxGroup,      \* config.oscillator_max_group_size
  MaxTick,       \* bound: ticks of a behaviour
  MaxCommands,   \* bound: commands of a behaviour
  EditCells,     \* bound: cells somebody may edit
  Watchable,     \* bound: chunks somebody may subscribe to or reap
  Claims         \* bound: the sets of chunks that may be claimed

Cell == Int \X Int

ASSUME SimulationAssumption ==
  /\ Boards \subseteq SUBSET Cell /\ RegionAlive \subseteq Cell /\ RegionDead \subseteq Cell
  /\ MaxGroup \in Nat /\ MaxTick \in Nat /\ MaxCommands \in Nat
  /\ EditCells \subseteq Cell /\ Watchable \subseteq ChunkCoord

VARIABLES
  world,
  subscribed,    \* coords with at least one peer observing
  rings,         \* the detector's
  requests,      \* promote requests between the detector and the sim
  outcome,       \* TickOutcome of the last tick
  commands,      \* commands so far
  plane          \* Now(world): no state of the code, kept for the refinement

vars == <<world, subscribed, rings, requests, outcome, commands, plane>>

Region == RegionAlive \cup RegionDead

NoFunction == [c \in {} |-> {}]

Init ==
  /\ \E board \in Boards : world = [chunks |-> Loaded(board, RegionAlive, RegionDead), paused |-> {}, owned |-> {}, tick |-> 0]
  /\ subscribed = {}
  /\ rings = NoFunction
  /\ requests = {}
  /\ outcome = [changed |-> {}, removed |-> {}]
  /\ commands = 0
  /\ plane = Now(world)

Seen == plane' = Now(world')

Command ==
  /\ commands < MaxCommands
  /\ commands' = commands + 1
  /\ UNCHANGED <<requests, outcome>>

\* Mutant: the edited chunk is not woken.
EditAsleep(p, alive) ==
  LET c == Home(p)
  IN /\ Command
     /\ world' = SetCellAt(world, c, p[1] % CHUNK_SIZE, p[2] % CHUNK_SIZE, alive)
     /\ rings' = Forgotten(rings, {c})
     /\ UNCHANGED subscribed
     /\ Seen

\* SimCmd::Edit of one cell.  (Several cells: wake all, then set all.)
Edit(p, alive) ==
  LET c == Home(p)
  IN /\ Command
     /\ world' = SetCellAt(Wake(world, {c}), c, p[1] % CHUNK_SIZE, p[2] % CHUNK_SIZE, alive)
     /\ rings' = Forgotten(rings, {c})
     /\ UNCHANGED subscribed
     /\ Seen

\* SimCmd::Reap.  Frozen chunks are never named (Server!FrozenImmortal).
Reap(c) ==
  /\ Command
  /\ c \notin {Home(p) : p \in Region}
  /\ world' = RemoveChunk(world, c)
  /\ rings' = Forgotten(rings, {c})
  /\ UNCHANGED subscribed
  /\ Seen

Subscribe(c) ==
  /\ Command
  /\ subscribed' = subscribed \cup {c}
  /\ IF c \in subscribed THEN UNCHANGED <<world, rings>>
     ELSE /\ world' = Wake(world, {c})
          /\ rings' = Forgotten(rings, {c})
  /\ Seen

Unsubscribe(c) ==
  /\ Command
  /\ subscribed' = subscribed \ {c}
  /\ UNCHANGED <<world, rings>>
  /\ Seen

SetOwned(S) ==
  /\ Command
  /\ world' = [world EXCEPT !.owned = S]
  /\ UNCHANGED <<subscribed, rings>>
  /\ Seen

-----------------------------------------------------------------------------
\* A scan of some of the rings that wait for one (the budget takes the rest).
DetectorScan ==
  \E S \in SUBSET {c \in DOMAIN rings : rings[c].in_pending} :
    /\ S # {}
    /\ rings' = Scanned(rings, S)
    /\ requests' = requests \cup Requests(rings, S)
    /\ UNCHANGED <<world, subscribed, outcome, commands, plane>>

\* collect_group: the chunks connected with the seed by cells one shows the
\* other.  May hold coords without a running chunk.
Touching(w, M) ==
  {n \in {To(p[1], p[2]) : p \in M \X Dir} : \E d \in Dir :
     \/ To(n, d) \in M \cap DOMAIN w.chunks /\ Shows(w.chunks[To(n, d)], Opp(d))
     \/ To(n, d) \in M /\ n \in DOMAIN w.chunks /\ Shows(w.chunks[n], d)}
Component(w, seed) ==
  LET reach[k \in 0..MaxGroup] ==
        IF k = 0 THEN {seed} ELSE reach[k - 1] \cup Touching(w, reach[k - 1])
  IN reach[MaxGroup]

MayGroup(w, M) ==
  /\ Cardinality(M) \in 2..MaxGroup
  /\ M \subseteq DOMAIN w.chunks \ subscribed

\* The sets that hold one element of A for each `members` of A: of requests
\* for the same chunks, the first in the queue is served.
OneEach(A) ==
  {Q \in SUBSET A : /\ \A a \in A : \E q \in Q : q.members = a.members
                    /\ \A q, r \in Q : q.members = r.members => q = r}

\* What is promoted when the requests R are drained: first single chunks, then,
\* of the chunks that were refused, groups.
Singles(w, R) ==
  {[members |-> {r.coord}, period |-> r.period] :
     r \in {r \in R : r.coord \notin subscribed /\ CanPause(w, r.coord, r.period)}}
Groups(w, R) ==
  {q \in {[members |-> Component(w, r.coord), period |-> r.period] :
            r \in {r \in R : r.coord \in DOMAIN w.chunks \ subscribed}} :
     MayGroup(w, q.members) /\ CanPauseGroup(w, q.members, q.period)}

\* One tick: serve some requests, step, feed the detector, report.
Tick ==
  /\ world.tick < MaxTick
  /\ \E R \in SUBSET requests :
     \E singles \in OneEach(Singles(world, R)) :
     \E groups \in OneEach(Groups(Pause(world, singles), R)) :
       LET w == Pause(Pause(world, singles), groups)
           t == TickInto(w)
           grouped == UNION {q.members : q \in groups}
       IN /\ world' = AfterTick(w, t)
          /\ rings' = Observed(Forgotten(rings, grouped \cup t.removed), t.reports)
          /\ requests' = requests \ R
          /\ outcome' = [changed |-> t.changed, removed |-> t.removed]
  /\ UNCHANGED <<subscribed, commands>>
  /\ Seen

Next ==
  \/ \E p \in EditCells, alive \in BOOLEAN : Edit(p, alive)
  \/ \E c \in Watchable : Reap(c) \/ Subscribe(c) \/ Unsubscribe(c)
  \/ \E S \in Claims : SetOwned(S)
  \/ DetectorScan
  \/ Tick

Spec == Init /\ [][Next]_vars

-----------------------------------------------------------------------------
TypeOK ==
  /\ \A c \in DOMAIN world.chunks : c \in ChunkCoord /\ world.chunks[c] \in Chunk
  /\ \A g \in world.paused :
       /\ g.period \in 1..MAX_PERIOD
       /\ g.paused_at_tick \in 0..world.tick
       /\ Members(g) # {}
       /\ \A c \in Members(g) : g.members[c] \in Chunk
  /\ world.tick \in 0..MaxTick
  /\ \A c \in DOMAIN rings : Len(rings[c].hashes) \in 1..HISTORY /\ rings[c].in_pending \in BOOLEAN
  /\ \A r \in requests : r.coord \in ChunkCoord /\ r.period \in 1..MAX_PERIOD
  /\ commands \in 0..MaxCommands

(***************************************************************************)
(* world.rs keeps three maps and get_chunk looks them up in turn: a coord  *)
(* is in one of them at most, so no chunk is hidden behind a stale copy.   *)
(* What is paused is not frozen, and shows no cell to a chunk outside its  *)
(* group in any phase a wake could find it in, stale request or not: this  *)
(* is what allows the tick to look for halos among running chunks only.    *)
(***************************************************************************)
PausedApart ==
  /\ PausedCoords(world) \cap DOMAIN world.chunks = {}
  /\ \A g, h \in world.paused : g # h => Members(g) \cap Members(h) = {}
  /\ \A g \in world.paused : \A k \in 0..(g.period - 1), c \in Members(g), d \in Dir :
       /\ ~IsFrozen(g.members[c])
       /\ Shows(Phase(g.members, k)[c], d) => To(c, d) \in Members(g)

\* Every paused pattern has the period it was paused with.
Recurring(w) == \A g \in w.paused : Phase(g.members, g.period) = g.members

(***************************************************************************)
(* world.rs, wake_if_paused: "advance to the current phase".  That needs   *)
(* what is paused to have the period it was paused with.                   *)
(***************************************************************************)
PausedIsPeriodic == Recurring(world)

\* The border of a claim cuts no paused group.
Uncut(w) == \A g \in w.paused : Members(g) \subseteq w.owned \/ Members(g) \cap w.owned = {}

Plain == INSTANCE PlainLife WITH
  Size <- CHUNK_SIZE, LockedAlive <- RegionAlive, LockedDead <- RegionDead,
  cells <- plane, claimed <- world.owned

(***************************************************************************)
(* The world lives: whatever is paused, woken, skipped as empty, dropped   *)
(* or created on the way, a tick is a generation of plain Life on an       *)
(* unbounded plane, and nothing else but an edit or the reaper changes a   *)
(* cell - as long as what is paused is periodic and no claim was drawn     *)
(* through a paused group.                                                 *)
(***************************************************************************)
StepsAsLife ==
  [][(\A w \in {world, world'} : Recurring(w) /\ Uncut(w)) =>
       IF world'.tick # world.tick THEN Plain!Generation
       ELSE [Plain!Touch]_(Plain!plain_vars)]_vars

(***************************************************************************)
(* TickOutcome: a tick names every chunk that is not what it was before,   *)
(* as changed or as removed, so that a mirror fed from these reports stays *)
(* up to date.  (This is what Sim.tla assumes of a tick.)                  *)
(***************************************************************************)
TickReports ==
  [][world'.tick # world.tick =>
       \A c \in DOMAIN world.chunks \cup PausedCoords(world) \cup DOMAIN world'.chunks :
         /\ Shown(world', c) = NoHash <=> c \in outcome'.removed
         /\ Shown(world', c) # Shown(world, c) => c \in outcome'.changed \cup outcome'.removed]_vars

\* Chunks that hold nothing and no region holds.
Husks(w) == {c \in DOMAIN w.chunks : IsEmpty(w.chunks[c]) /\ ~IsFrozen(w.chunks[c])}

\* Every member of a paused group, in each of its phases, holds a cell or is
\* shown one by the others: it takes part in its group.
Lively(w) ==
  \A g \in w.paused : \A k \in 0..(g.period - 1) :
    LET now == Phase(g.members, k)
    IN \A c \in Members(g) : ~IsEmpty(now[c]) \/ Halo(EdgesOf(now), c) # EmptyBundle

(***************************************************************************)
(* The world stays sparse: what dies out, is passed over, woken or pushed  *)
(* into existence by a tick leaves no empty chunk behind.  Those that an   *)
(* edit emptied are the only ones, and they stay, as no tick visits them   *)
(* unless a neighbour shows them a cell.  Two exceptions: a member that    *)
(* takes no part in its group in the phase it is woken in (an emptied      *)
(* chunk collected because its neighbour showed it a cell, or one that a   *)
(* stale request paused), and one cut off from its group by the border of  *)
(* a claim, wake empty and stay so.                                        *)
(***************************************************************************)
TicksLeaveNoHusks ==
  [][world'.tick # world.tick /\ Lively(world) /\ Uncut(world) => Husks(world') \subseteq Husks(world)]_vars

=============================================================================
