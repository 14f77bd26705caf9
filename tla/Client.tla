------------------------------- MODULE Client --------------------------------
(***************************************************************************)
(* A browser watching the world.  It keeps a cache of chunks that it steps *)
(* by itself on every Sync (web/src/world.ts), asks for the chunks in view *)
(* (web/src/subscription.ts) and starts over when its connection is lost   *)
(* (web/src/main.ts).                                                      *)
(*                                                                         *)
(* The server is the hub and the sim.  The hub's commands reach the sim    *)
(* later, in order, while the world goes on; an event of the sim is        *)
(* handled by the hub in the step that makes it (what the hub does with an *)
(* event depends on the hub alone, and the sim on commands: a sim that is  *)
(* ahead of its events is a sim whose commands are late).  Other peers'    *)
(* subscriptions only keep chunks from being paused or reaped and are left *)
(* out.  Groups are not paused here: single chunks are, with their true    *)
(* period.                                                                 *)
(***************************************************************************)
EXTENDS World

CONSTANTS
  Boards,        \* sets of cells: the patterns a world may start with
  RegionAlive,   \* cells a FROZEN region locks alive ...
  RegionDead,    \* ... and dead
  CACHE_BUFFER,  \* cache entries beyond the chunks in view: 128 in the code
  MaxLive,       \* config.max_live_chunks: the reaper's limit
  Views,         \* bound: the sets of chunks that may be in view
  EditCells,     \* bound: cells somebody may edit
  Claims,        \* bound: the sets of chunks that may be claimed
  MaxTick,       \* bound: ticks of a behaviour
  MaxCommands,   \* bound: edits and claims of a behaviour
  MaxLooks,      \* bound: changes of the view and lost connections
  MaxInbox       \* bound: messages on their way when the server sends more

ASSUME ClientAssumption ==
  /\ \A board \in Boards : board \subseteq Int \X Int /\ IsFiniteSet(board)
  /\ \A S \in {RegionAlive, RegionDead} : S \subseteq Int \X Int /\ IsFiniteSet(S)
  /\ CACHE_BUFFER \in Nat /\ MaxLive \in Nat
  /\ \A S \in Views : S \subseteq ChunkCoord /\ IsFiniteSet(S)
  /\ EditCells \subseteq Int \X Int

VARIABLES
  world,         \* sim: the world
  subscribed,    \* sim: coords somebody watches, as far as the sim knows
  sim_cmd,       \* commands from the hub to the sim
  interest,      \* hub: Peer::subscribed; {} without a peer
  mirror,        \* hub: the rows of the chunks it knows of, by coord
  owned,         \* hub: Hub::owned_chunk_set
  inbox,         \* messages on their way to the client
  outbox,        \* messages on their way to the hub
  connected,     \* client: the socket is open
  current,       \* client: Subscription::current
  cache,         \* client: ChunkCache::map, rows by coord
  order,         \* client: the cached coords, the least recently put first
  updated,       \* client: ChunkCache::updatedThisTick
  assured,       \* history: subscribed chunks the client has no excuse to show wrong
  haunted,       \* history: chunks the sim removed while the hub mirrored them again
  commands,      \* edits and claims so far
  looks          \* changes of the view and lost connections so far

sim_vars    == <<world, subscribed>>
hub_vars    == <<interest, mirror, owned>>
server_vars == <<sim_vars, hub_vars, sim_cmd, haunted>>
client_vars == <<connected, current, cache, order, updated>>
vars == <<server_vars, inbox, outbox, client_vars, assured, commands, looks>>

Region  == RegionAlive \cup RegionDead
InRegion(c) == \E p \in Region : Home(p) = c

NoChunks == [c \in {} |-> EmptyRows]

ChunkState(c, rows) == [type |-> "ChunkState", coord |-> c, rows |-> rows]
ChunkDelta(c, rows) == [type |-> "ChunkDelta", coord |-> c, rows |-> rows]
Reaped(c)           == [type |-> "Reaped", coord |-> c]
EditApplied(p, alive) ==
  [type |-> "EditApplied", coord |-> Home(p), x |-> p[1] % CHUNK_SIZE, y |-> p[2] % CHUNK_SIZE, alive |-> alive]
\* The chunks told of in this tick's deltas are kept for the history.
Sync(told) == [type |-> "Sync", told |-> told]

Reap(S)        == [type |-> "Reap", coords |-> S]
SubscribeTo(S) == [type |-> "Subscribe", coords |-> S]
Forget(S)      == [type |-> "Unsubscribe", coords |-> S]
Isolate(S)     == [type |-> "SetOwned", coords |-> S]

\* The rows of a chunk in the world as it is now, paused or not.
Truth(c) == ChunkAt(Wake(world, PausedCoords(world)).chunks, c).rows

\* The server as loaded, its chunks mirrored; a client whose socket has just
\* been opened.
Init ==
  /\ \E board \in Boards :
       world = [chunks |-> Loaded(board, RegionAlive, RegionDead), paused |-> {}, owned |-> {}, tick |-> 0]
  /\ subscribed = {}
  /\ sim_cmd = << >>
  /\ interest = {}
  /\ mirror = [c \in DOMAIN world.chunks |-> world.chunks[c].rows]
  /\ owned = {}
  /\ inbox = << >>
  /\ outbox = << >>
  /\ connected = TRUE
  /\ current = {}
  /\ cache = NoChunks
  /\ order = << >>
  /\ updated = {}
  /\ assured = {}
  /\ haunted = {}
  /\ commands = 0
  /\ looks = 0

-----------------------------------------------------------------------------
(* What the hub sends, to the client and to the sim. *)

Orders(S) == {s \in [1..Cardinality(S) -> S] : Range(s) = S}

\* Without a peer there is nobody to send to.
Send(msgs) == inbox' = IF connected THEN inbox \o msgs ELSE inbox
Ready      == Len(inbox) <= MaxInbox

\* Nothing is sent for an empty list of coords.
Order(cmd) == sim_cmd' = IF cmd.coords = {} THEN sim_cmd ELSE Append(sim_cmd, cmd)

Deltas(w, cs) == [i \in DOMAIN cs |-> ChunkDelta(cs[i], w.chunks[cs[i]].rows)]

\* Mutant: only what is subscribed is announced as reaped, and nothing of it is.
ReapsUntold(cs) == << >>

Reaps(cs) == [i \in DOMAIN cs |-> Reaped(cs[i])]

\* has_live_boundary, or owned: these changes are sent to subscribers.
Sent(w, c) == Edges(w.chunks[c]) # EmptyBundle \/ c \in owned

\* The mirror after an event: what was removed goes, what changed is inserted,
\* also what the reaper has taken out before.
Mirrored(w, changed, removed) ==
  [c \in (DOMAIN mirror \ removed) \cup changed |->
     IF c \in changed THEN w.chunks[c].rows ELSE mirror[c]]

\* What pick_reapable may return for the mirror m: as many unfrozen chunks that
\* nobody watches as there are too many; which ones is left open.
Reapable(m) ==
  LET cands  == {c \in DOMAIN m \ interest : ~InRegion(c)}
      excess == Cardinality(DOMAIN m) - MaxLive
  IN {S \in SUBSET cands :
        Cardinality(S) = IF excess <= 0 THEN 0
                         ELSE IF excess <= Cardinality(cands) THEN excess ELSE Cardinality(cands)}

-----------------------------------------------------------------------------
(* The sim, and the hub that handles its events. *)

\* Coords the neighbours in `chunks` show a cell to.
Disturbed(chunks) ==
  LET edges == EdgesOf(chunks)
  IN {c \in DOMAIN chunks \cup interest : Halo(edges, c) # EmptyBundle}

Command ==
  /\ commands < MaxCommands
  /\ commands' = commands + 1

\* One cell is edited, by anyone who may: the subscriber gets the delta of the
\* event and then the edit itself.  set_cell passes over frozen cells, and the
\* edit is reported all the same.
Edit(p, alive) ==
  LET c == Home(p)
      w == SetCellAt(Wake(world, {c}), c, p[1] % CHUNK_SIZE, p[2] % CHUNK_SIZE, alive)
      told == {k \in {c} \cap interest : Sent(w, k)}
  IN /\ Command
     /\ Ready
     /\ world' = w
     /\ mirror' = Mirrored(w, {c}, {})
     /\ haunted' = haunted \ {c}
     /\ IF c \in interest
        THEN Send(Deltas(w, IF told = {} THEN << >> ELSE <<c>>) \o <<EditApplied(p, alive)>>)
        ELSE UNCHANGED inbox
     /\ assured' = IF p \in Region THEN assured \ {c} ELSE assured \cup told
     /\ UNCHANGED <<subscribed, sim_cmd, interest, owned, outbox, client_vars, looks>>

\* Chunks nobody is known to watch that the sim may pause, with the least period.
Recurs(c, p) == LET alone == Restrict(world.chunks, {c}) IN Phase(alone, p) = alone
Pausable ==
  {q \in {[members |-> {c}, period |-> p] : c \in DOMAIN world.chunks \ subscribed, p \in 1..MAX_PERIOD} :
     \A c \in q.members :
       /\ CanPause(world, c, q.period)
       /\ Recurs(c, q.period)
       /\ \A p \in 1..(q.period - 1) : ~Recurs(c, p)}

\* A tick: the removed chunks are told to everybody, the changed ones to their
\* subscribers unless the client can be trusted to predict them, and then comes
\* the Sync.  If the mirror is too large the reaper takes chunks out of it, tells
\* everybody, and has the sim remove them.
Tick ==
  /\ world.tick < MaxTick
  /\ Ready
  /\ \E Q \in SUBSET Pausable :
       LET w       == Pause(world, Q)
           t       == TickInto(w)
           after   == AfterTick(w, t)
           changed == t.changed \cap DOMAIN after.chunks
           told    == {c \in changed \cap interest : Sent(after, c)}
           m       == Mirrored(after, changed, t.removed)
       IN /\ world' = after
          /\ \E S \in Reapable(m) :
               /\ mirror' = Restrict(m, DOMAIN m \ S)
               /\ haunted' = haunted \ (changed \cup t.removed \cup S)
               /\ Order(Reap(S))
               /\ \E gone \in Orders(t.removed), news \in Orders(told), reaped \in Orders(S) :
                    Send(Reaps(gone) \o Deltas(after, news) \o <<Sync(told)>> \o Reaps(reaped))
          /\ assured' = (assured \ Disturbed(w.chunks)) \cup told \cup (t.removed \cap interest)
  /\ UNCHANGED <<subscribed, interest, owned, outbox, client_vars, commands, looks>>

SimTake(type) ==
  /\ sim_cmd # << >>
  /\ Head(sim_cmd).type = type
  /\ sim_cmd' = Tail(sim_cmd)
  /\ UNCHANGED <<interest, owned, outbox, client_vars, commands, looks>>

\* The chunks go, paused ones as well, and no event is sent: what the hub has
\* mirrored again in the meantime, and sent to who asked for it, stays.
SimReap ==
  LET S == Head(sim_cmd).coords
  IN /\ SimTake("Reap")
     /\ world' = [world EXCEPT !.chunks = Restrict(@, DOMAIN @ \ S), !.paused = @ \ Hit(world, S)]
     /\ haunted' = haunted \cup (S \cap DOMAIN mirror)
     /\ assured' = assured \ S
     /\ UNCHANGED <<subscribed, mirror, inbox>>

\* What was paused and is watched from now on is woken, with an event.
SimSubscribe ==
  LET S     == Head(sim_cmd).coords
      woken == (S \ subscribed) \cap PausedCoords(world)
      w     == Wake(world, S \ subscribed)
      told  == {c \in woken \cap interest : Sent(w, c)}
  IN /\ SimTake("Subscribe")
     /\ Ready
     /\ subscribed' = subscribed \cup S
     /\ world' = w
     /\ mirror' = Mirrored(w, woken, {})
     /\ haunted' = haunted \ woken
     /\ \E news \in Orders(told) : Send(Deltas(w, news))
     /\ assured' = assured \cup told

SimUnsubscribe ==
  /\ SimTake("Unsubscribe")
  /\ subscribed' = subscribed \ Head(sim_cmd).coords
  /\ UNCHANGED <<world, mirror, inbox, assured, haunted>>

SimSetOwned ==
  /\ SimTake("SetOwned")
  /\ world' = [world EXCEPT !.owned = Head(sim_cmd).coords]
  /\ UNCHANGED <<subscribed, mirror, inbox, assured, haunted>>

-----------------------------------------------------------------------------
(* The hub, which takes requests. *)

\* Somebody's claims change: the sim learns of it later.
SetOwned(S) ==
  /\ Command
  /\ owned' = S
  /\ sim_cmd' = Append(sim_cmd, Isolate(S))
  /\ UNCHANGED <<sim_vars, interest, mirror, haunted, inbox, outbox, client_vars, assured, looks>>

\* A Subscribe: the state of each chunk that is worth it, as it is mirrored.
Subscribe(S) ==
  LET new  == S \ interest
      seed == {c \in new \cap DOMAIN mirror : mirror[c] # EmptyRows \/ InRegion(c)}
  IN /\ interest' = interest \cup S
     /\ Order(SubscribeTo(new))
     /\ \E first \in Orders(seed) :
          Send([i \in DOMAIN first |-> ChunkState(first[i], mirror[first[i]])])
     /\ assured' = assured \cup {c \in new : IF c \in seed THEN mirror[c] = Truth(c)
                                             ELSE c \notin DOMAIN mirror /\ Truth(c) = EmptyRows}

Unsubscribe(S) ==
  /\ interest' = interest \ S
  /\ Order(Forget(S \cap interest))
  /\ assured' = assured \ S
  /\ UNCHANGED inbox

HubReceive ==
  /\ outbox # << >>
  /\ Ready
  /\ outbox' = Tail(outbox)
  /\ IF Head(outbox).type = "Subscribe" THEN Subscribe(Head(outbox).coords)
     ELSE Unsubscribe(Head(outbox).coords)
  /\ UNCHANGED <<sim_vars, mirror, owned, haunted, client_vars, commands, looks>>

-----------------------------------------------------------------------------
(* The client. *)

\* Mutant: one more than fits.
EvictedLate(o, n) == IF Len(o) > n + 1 THEN SubSeq(o, Len(o) - n, Len(o)) ELSE o

\* setCapacity and evictIfNeeded: of the coords o, the n put last stay.
Evicted(o, n) == IF Len(o) > n THEN SubSeq(o, Len(o) - n + 1, Len(o)) ELSE o

\* delete: the coords o without those in S.
Without(o, S) ==
  LET kept[i \in 0..Len(o)] == IF i = 0 THEN << >>
                              ELSE IF o[i] \in S THEN kept[i - 1] ELSE Append(kept[i - 1], o[i])
  IN kept[Len(o)]

Remaining(f, o) ==
  /\ order' = o
  /\ cache' = Restrict(f, Range(o))

\* put: an entry moves to the end, others go if there are too many.
Put(c, rows) ==
  LET o == Evicted(Append(Without(order, {c}), c), Cardinality(current) + CACHE_BUFFER)
  IN /\ Remaining([k \in DOMAIN cache \cup {c} |-> IF k = c THEN rows ELSE cache[k]], o)
     /\ assured' = assured \ ((DOMAIN cache \cup {c}) \ Range(o))

Drop(S) ==
  /\ Remaining(cache, Without(order, S))
  /\ updated' = updated \ S

Mask(c) == [y \in Idx |-> {x \in Idx : <<c[1] * CHUNK_SIZE + x, c[2] * CHUNK_SIZE + y>> \in Region}]

\* A cached chunk as the kernel takes it: frozen cells stay what they are.
Entry(c) ==
  [rows |-> cache[c], frozen |-> [mask |-> Mask(c), value |-> [y \in Idx |-> cache[c][y] \cap Mask(c)[y]]]]
Entries == [c \in DOMAIN cache |-> Entry(c)]

\* Mutant: chunks that came with the tick are stepped once more.
StepCacheAll ==
  LET edges == EdgesOf(Entries)
  IN [c \in DOMAIN cache |-> Step(Entry(c), Halo(edges, c)).rows]

\* step(): what came as a delta since the last Sync is skipped, the rest is
\* computed from the edges as they are in the cache.
StepCache ==
  LET edges == EdgesOf(Entries)
  IN [c \in DOMAIN cache |-> IF c \in updated THEN cache[c] ELSE Step(Entry(c), Halo(edges, c)).rows]

Message(type) ==
  /\ inbox # << >>
  /\ Head(inbox).type = type
  /\ inbox' = Tail(inbox)
  /\ UNCHANGED <<server_vars, outbox, connected, current, commands, looks>>

OnChunkState ==
  /\ Message("ChunkState")
  /\ Put(Head(inbox).coord, Head(inbox).rows)
  /\ UNCHANGED updated

OnChunkDelta ==
  /\ Message("ChunkDelta")
  /\ Put(Head(inbox).coord, Head(inbox).rows)
  /\ updated' = updated \cup {Head(inbox).coord}

OnReaped ==
  /\ Message("Reaped")
  /\ Drop({Head(inbox).coord})
  /\ UNCHANGED assured

\* An edit of a chunk that is not cached is lost.
OnEditApplied ==
  LET m == Head(inbox)
  IN /\ Message("EditApplied")
     /\ IF m.coord \in DOMAIN cache
        THEN /\ cache' = [cache EXCEPT ![m.coord][m.y] = IF m.alive THEN @ \cup {m.x} ELSE @ \ {m.x}]
             /\ UNCHANGED assured
        ELSE /\ assured' = assured \ {m.coord}
             /\ UNCHANGED cache
     /\ UNCHANGED <<order, updated>>

\* A chunk is not predicted well that has neighbours in the cache or was
\* skipped for a delta that was not the tick's.
OnSync ==
  /\ Message("Sync")
  /\ cache' = StepCache
  /\ updated' = {}
  /\ assured' = assured \ ((Disturbed(Entries) \cup updated) \ Head(inbox).told)
  /\ UNCHANGED order

Look ==
  /\ looks < MaxLooks
  /\ looks' = looks + 1
  /\ UNCHANGED <<server_vars, inbox, commands>>

\* update(): the view has changed.  Without a connection nothing is sent, and
\* the view is remembered all the same.
Pan(next) ==
  LET toSub   == next \ current
      toUnsub == current \ next
      Request(type, S) == IF S = {} THEN << >> ELSE <<[type |-> type, coords |-> S]>>
      o       == Evicted(order, Cardinality(next) + CACHE_BUFFER)
  IN /\ Look
     /\ next # current
     /\ current' = next
     /\ Remaining(cache, Without(o, toUnsub))
     /\ updated' = updated \ toUnsub
     /\ assured' = assured \ (Range(order) \ Range(o))
     /\ outbox' = IF connected THEN outbox \o Request("Unsubscribe", toUnsub) \o Request("Subscribe", toSub)
                  ELSE outbox
     /\ UNCHANGED connected

\* reset(): the view is forgotten and asked for anew.
Reset == current' = {}

\* The socket closes, on either side; the hub drops the peer and tells the sim.
Close ==
  /\ connected
  /\ looks < MaxLooks
  /\ looks' = looks + 1
  /\ connected' = FALSE
  /\ Order(Forget(interest))
  /\ interest' = {}
  /\ inbox' = << >>
  /\ outbox' = << >>
  /\ Remaining(NoChunks, << >>)
  /\ updated' = {}
  /\ assured' = {}
  /\ Reset
  /\ UNCHANGED <<sim_vars, mirror, owned, haunted, commands>>

\* Mutant: what was in view while the socket was connecting is not asked for.
OpenForgetful ==
  /\ ~connected
  /\ connected' = TRUE
  /\ UNCHANGED <<server_vars, inbox, outbox, current, cache, order, updated, assured, commands, looks>>

\* The next socket opens.
Open ==
  /\ ~connected
  /\ connected' = TRUE
  /\ Reset
  /\ UNCHANGED <<server_vars, inbox, outbox, cache, order, updated, assured, commands, looks>>

-----------------------------------------------------------------------------
Next ==
  \/ \E p \in EditCells, alive \in BOOLEAN : Edit(p, alive)
  \/ \E S \in Claims : SetOwned(S)
  \/ Tick
  \/ SimReap \/ SimSubscribe \/ SimUnsubscribe \/ SimSetOwned
  \/ HubReceive
  \/ OnChunkState \/ OnChunkDelta \/ OnReaped \/ OnEditApplied \/ OnSync
  \/ \E next \in Views : Pan(next)
  \/ Close
  \/ Open

Spec == Init /\ [][Next]_vars

-----------------------------------------------------------------------------
TypeOK ==
  /\ \A c \in DOMAIN world.chunks : c \in ChunkCoord /\ world.chunks[c] \in Chunk
  /\ subscribed \subseteq UNION Views
  /\ \A i \in DOMAIN sim_cmd : sim_cmd[i].type \in {"Reap", "Subscribe", "Unsubscribe", "SetOwned"}
  /\ interest \subseteq UNION Views
  /\ \A c \in DOMAIN mirror : c \in ChunkCoord /\ mirror[c] \in Rows
  /\ haunted \subseteq DOMAIN mirror
  /\ \A i \in DOMAIN inbox : inbox[i].type \in {"ChunkState", "ChunkDelta", "Reaped", "EditApplied", "Sync"}
  /\ \A i \in DOMAIN outbox : outbox[i].type \in {"Subscribe", "Unsubscribe"} /\ outbox[i].coords \subseteq UNION Views
  /\ connected \in BOOLEAN
  /\ current \in Views \cup {{}}
  /\ \A c \in DOMAIN cache : cache[c] \in Rows
  /\ Range(order) = DOMAIN cache
  /\ Len(order) = Cardinality(DOMAIN cache)
  /\ Len(order) <= Cardinality(current) + CACHE_BUFFER
  /\ updated \subseteq UNION Views
  /\ assured \subseteq interest
  /\ connected \/ (interest = {} /\ inbox = << >> /\ outbox = << >> /\ cache = NoChunks)

CaughtUp == connected /\ inbox = << >> /\ outbox = << >>

\* What the browser shows.
View(c) == IF c \in DOMAIN cache THEN cache[c] ELSE EmptyRows

(***************************************************************************)
(* A browser that has handled what it was sent shows what the server has,  *)
(* although only some changes are sent and the rest is stepped locally:    *)
(* every subscribed chunk whose last delta came with a tick, or that was   *)
(* seeded with its present state, and that no neighbour showed a cell      *)
(* since, on either side.  (The blind spots are those of `assured`.)       *)
(***************************************************************************)
ViewExact == CaughtUp => \A c \in assured : View(c) = Truth(c)

\* A chunk that shows no cell to its neighbours, of which there are none.
Isolated(c) ==
  /\ c \in DOMAIN world.chunks
  /\ Edges(world.chunks[c]) = EmptyBundle
  /\ \A d \in Dir : To(c, d) \notin DOMAIN cache \cup DOMAIN world.chunks

(***************************************************************************)
(* hub.rs: "Isolated chunks (no live boundary cells) are simulated         *)
(* correctly by the client's local GoL without any cross-chunk data."      *)
(* That at least where nothing is around them.                             *)
(***************************************************************************)
IsolatedExact == CaughtUp /\ sim_cmd = << >> => \A c \in interest : Isolated(c) => View(c) = Truth(c)

(***************************************************************************)
(* What was removed on the server is not shown for ever: a chunk in the    *)
(* cache exists, subscribed or not.  The one way to keep a chunk that is   *)
(* gone is an event that brings it back to the hub between the reaper's    *)
(* command and its execution.                                              *)
(***************************************************************************)
NoLeftovers == CaughtUp => \A c \in DOMAIN cache : Shown(world, c) # NoHash \/ c \in haunted

(***************************************************************************)
(* The hub comes to know what is in view, whatever was looked at while the *)
(* connection was lost or not yet open.                                    *)
(***************************************************************************)
InterestAgreed == connected /\ outbox = << >> => interest = current

=============================================================================
