-------------------------------- MODULE Hub ---------------------------------
(***************************************************************************)
(* The hub task (server/src/hub.rs): connected peers, who is subscribed to *)
(* which chunk, and a passive mirror of the sim's chunks fed by SimEvents. *)
(*                                                                         *)
(* A message to a peer is a try_send that fails when the peer's outbound   *)
(* queue is full or its socket task is gone; how far that queue has been   *)
(* drained is not modelled, so any peer a handler sends to may fail.  The  *)
(* hub drops every peer whose send failed.  Ticks and last_seen_tick are   *)
(* not modelled: they only order the reaper's candidates.                  *)
(***************************************************************************)
EXTENDS Channels

CONSTANTS
  Peer,         \* peer ids the hub may hand out
  ClientMax,    \* config.client_max_chunks
  MaxLive       \* config.max_live_chunks

ASSUME HubAssumption == ClientMax \in Nat /\ MaxLive \in Nat /\ IsFiniteSet(Peer)

VARIABLES
  seen,             \* ids handed out so far; ids are never reused
  peers,            \* ids in Hub::peers
  peer_subscribed,  \* Peer::subscribed
  chunk_subs,       \* Hub::chunk_subs; {} stands for a coord with no entry
  mirror            \* Hub::mirror

hub_vars == <<seen, peers, peer_subscribed, chunk_subs, mirror>>

HubInit ==
  /\ seen = {}
  /\ peers = {}
  /\ peer_subscribed = [p \in Peer |-> {}]
  /\ chunk_subs = [c \in Coord |-> {}]
  /\ mirror = [c \in Coord |-> None]

Observed == {c \in Coord : chunk_subs[c] # {}}

\* Mutant: only the last subscriber's own unsubscribe is announced, drops are not.
OrphanedNever(subs, D) == {}

\* Coords left without a subscriber when the peers D disappear from subs.
Orphaned(subs, D) == {c \in Coord : subs[c] # {} /\ subs[c] \subseteq D}

\* Mutant: a dropped peer stays in the subscriber sets.
DropLeavesSubscriber(subscribed, subs, D, cmds) ==
  /\ peers' = peers \ D
  /\ peer_subscribed' = [p \in Peer |-> IF p \in D THEN {} ELSE subscribed[p]]
  /\ chunk_subs' = subs
  /\ hub_sending' = cmds \o Command("Unsubscribe", Orphaned(subs, D))

\* Mutant: the buffered unsubscriptions overtake the handler's own command.
DropFlushesFirst(subscribed, subs, D, cmds) ==
  /\ peers' = peers \ D
  /\ peer_subscribed' = [p \in Peer |-> IF p \in D THEN {} ELSE subscribed[p]]
  /\ chunk_subs' = [c \in Coord |-> subs[c] \ D]
  /\ hub_sending' = Command("Unsubscribe", Orphaned(subs, D)) \o cmds

\* The end of every handler: the peers D whose sends failed are dropped, then
\* the unsubscriptions buffered by the drops are flushed after the handler's
\* own commands.
DropAndFlush(subscribed, subs, D, cmds) ==
  /\ peers' = peers \ D
  /\ peer_subscribed' = [p \in Peer |-> IF p \in D THEN {} ELSE subscribed[p]]
  /\ chunk_subs' = [c \in Coord |-> subs[c] \ D]
  /\ hub_sending' = cmds \o Command("Unsubscribe", Orphaned(subs, D))

HubReady == hub_sending = << >>

\* A connecting peer; if its socket task is gone before the reply or the
\* region table reaches it, the slot is torn down again.
Join(p) ==
  /\ HubReady
  /\ p \notin seen
  /\ seen' = seen \cup {p}
  /\ peers' \in {peers, peers \cup {p}}
  /\ UNCHANGED <<peer_subscribed, chunk_subs, mirror, channel_vars>>

Leave(p) ==
  /\ HubReady
  /\ p \in peers
  /\ DropAndFlush(peer_subscribed, chunk_subs, {p}, << >>)
  /\ UNCHANGED <<seen, mirror, sim_cmd, sim_event, sim_sending>>

\* Hub bookkeeping of peer p's interest in the coords I.
WithInterest(p, I) ==
  [subscribed |-> [peer_subscribed EXCEPT ![p] = @ \cup I],
   subs       |-> [c \in Coord |-> IF c \in I THEN chunk_subs[c] \cup {p} ELSE chunk_subs[c]]]

\* Subscribe within the client's quota: coords nobody watched are announced to
\* the sim, and the mirror's chunks are sent to the peer (which may fail).
Subscribe(p, coords) ==
  LET new   == coords \ peer_subscribed[p]
      fresh == new \ Observed
      after == WithInterest(p, new)
  IN /\ HubReady
     /\ p \in peers
     /\ Cardinality(peer_subscribed[p] \cup new) <= ClientMax
     /\ \E D \in SUBSET {p} :
          /\ D # {} => \E c \in new : mirror[c] # None
          /\ DropAndFlush(after.subscribed, after.subs, D, Command("Subscribe", fresh))
     /\ UNCHANGED <<seen, mirror, sim_cmd, sim_event, sim_sending>>

\* Subscribe beyond the quota: the coords I before the overflow are recorded,
\* then the peer is dropped and the handler returns without telling the sim.
SubscribeOverflow(p, coords) ==
  LET new == coords \ peer_subscribed[p]
  IN /\ HubReady
     /\ p \in peers
     /\ Cardinality(peer_subscribed[p] \cup new) > ClientMax
     /\ \E I \in SUBSET new :
          /\ Cardinality(peer_subscribed[p] \cup I) = ClientMax
          /\ LET after == WithInterest(p, I)
             IN DropAndFlush(after.subscribed, after.subs, {p}, << >>)
     /\ UNCHANGED <<seen, mirror, sim_cmd, sim_event, sim_sending>>

Unsubscribe(p, coords) ==
  LET gone == coords \cap peer_subscribed[p]
      last == {c \in gone : chunk_subs[c] = {p}}
  IN /\ HubReady
     /\ p \in peers
     /\ peer_subscribed' = [peer_subscribed EXCEPT ![p] = @ \ gone]
     /\ chunk_subs' = [c \in Coord |-> IF c \in gone THEN chunk_subs[c] \ {p} ELSE chunk_subs[c]]
     /\ hub_sending' = Command("Unsubscribe", last)
     /\ UNCHANGED <<seen, peers, mirror, sim_cmd, sim_event, sim_sending>>

\* The cells that survive the region filter go to the sim; neither a
\* subscription nor a live peer entry is required.
Edit(p, coords) ==
  /\ HubReady
  /\ p \in seen
  /\ coords # {}
  /\ hub_sending' = Command("Edit", coords)
  /\ UNCHANGED <<hub_vars, sim_cmd, sim_event, sim_sending>>

\* Mutant: removals are broadcast but not applied to the mirror.
MirroredKeepsRemoved(m, ev) ==
  [c \in Coord |-> IF ev.changed[c] # None THEN ev.changed[c] ELSE m[c]]

\* The mirror after an event: removals first, then the chunk snapshots.
Mirrored(m, ev) ==
  [c \in Coord |-> IF ev.changed[c] # None THEN ev.changed[c]
                   ELSE IF c \in ev.removed THEN None ELSE m[c]]

\* Peers an event is sent to before the reaper runs: Sync and Reaped go to all,
\* EditApplied and ChunkDelta to the subscribers of the coord.
Recipients(ev) ==
  IF ev.is_tick \/ ev.removed # {} THEN peers
  ELSE IF ev.initial THEN {}
  ELSE UNION {chunk_subs[c] : c \in ev.edits \cup {d \in Coord : ev.changed[d] # None}}

\* Mutant: the reaper forgets that frozen chunks are immortal.
ReapableFrozen(m, kept) ==
  LET present == {c \in Coord : m[c] # None}
  IN IF Cardinality(present) <= MaxLive THEN {{}}
     ELSE {R \in SUBSET (present \ kept) : Cardinality(R) <= Cardinality(present) - MaxLive}

\* What pick_reapable may return for mirror m when `kept` are the subscribed
\* coords: as many of the unfrozen, unsubscribed chunks as exceed MaxLive (all
\* of them if there are fewer); which ones is the policy's order, left open.
Reapable(m, kept) ==
  LET present == {c \in Coord : m[c] # None}
      cands   == present \ (Frozen \cup kept)
      excess  == Cardinality(present) - MaxLive
  IN IF Cardinality(present) <= MaxLive THEN {{}}
     ELSE {R \in SUBSET cands :
             Cardinality(R) = IF excess <= Cardinality(cands) THEN excess ELSE Cardinality(cands)}

\* The hub takes the next event: mirror, fan-out (dropping D1), and on ticks
\* the reaper, whose Reaped broadcast (and the heartbeat) may drop D2 more.
HandleSimEvent ==
  /\ HubReady
  /\ sim_event # << >>
  /\ LET ev == Head(sim_event)
         m  == Mirrored(mirror, ev)
     IN \E D1 \in SUBSET Recipients(ev) :
          LET kept == {c \in Coord : ~(chunk_subs[c] \subseteq D1)}
          IN \E R \in IF ev.is_tick THEN Reapable(m, kept) ELSE {{}},
                D2 \in IF ev.is_tick THEN SUBSET (peers \ D1) ELSE {{}} :
               /\ mirror' = [c \in Coord |-> IF c \in R THEN None ELSE m[c]]
               /\ DropAndFlush(peer_subscribed, chunk_subs, D1 \cup D2, Command("Reap", R))
  /\ sim_event' = Tail(sim_event)
  /\ UNCHANGED <<seen, sim_cmd, sim_sending>>

\* Requests of clients, in any order a peer may issue them.
HubClientStep ==
  \E p \in Peer :
    \/ Join(p)
    \/ Leave(p)
    \/ \E coords \in SUBSET Coord :
         \/ Subscribe(p, coords)
         \/ SubscribeOverflow(p, coords)
         \/ Unsubscribe(p, coords)
         \/ Edit(p, coords)

=============================================================================
