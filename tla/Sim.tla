-------------------------------- MODULE Sim ---------------------------------
(***************************************************************************)
(* The sim task (server/src/sim.rs): it owns the world, serves the hub's   *)
(* commands between ticks, pauses oscillators and reports what changed.    *)
(*                                                                         *)
(* What a Game of Life step does to a pattern is left open here: a tick    *)
(* may turn any running chunk into any other, and a chunk woken from a     *)
(* pause may be in any phase.  The send of WAL records and snapshots to    *)
(* the io task is not modelled: the io task waits for nobody.              *)
(***************************************************************************)
EXTENDS Channels

CONSTANT MaxGroup   \* config.oscillator_max_group_size

ASSUME SimAssumption == MaxGroup \in Nat

VARIABLES
  sim_subscribed,   \* `subscribed`: coords with at least one peer observing
  stored,           \* the chunk World::get_chunk returns; a paused chunk's is
                    \* the pattern it was paused with
  groups            \* the sets of coords paused together: a singleton is an
                    \* Oscillator, a larger set an OscillatorGroup

sim_vars == <<sim_subscribed, stored, groups>>

\* The dump of the loaded world that opens the event stream.
InitialEvent ==
  [changed |-> stored, removed |-> {}, edits |-> {}, is_tick |-> FALSE, initial |-> TRUE]

SimInit ==
  /\ sim_subscribed = {}
  /\ stored \in {s \in [Coord -> Chunk] : \A c \in Frozen : s[c] # None}
  /\ groups = {}

Paused == UNION groups

\* The groups with a member in S, and all their members.
Hit(S) == {g \in groups : g \cap S # {}}
Woken(S) == UNION Hit(S)

\* Chunk patterns after waking the groups hit by S: phase unknown, still there.
WakePhases(S) ==
  {s \in [Coord -> Chunk] : \A c \in Coord :
     IF c \in Woken(S) THEN s[c] # None ELSE s[c] = stored[c]}

\* Mutant: nothing is collected, the mirror is not told of edits and wakes.
SnapshotsForgotten(s, coords) == [c \in Coord |-> None]

\* collect(): snapshots of the coords that have a chunk.
Snapshots(s, coords) == [c \in Coord |-> IF c \in coords THEN s[c] ELSE None]

SimReady == sim_sending = << >>

\* The sim's select! takes the next command, of kind op.
Taking(op) ==
  /\ SimReady
  /\ sim_cmd # << >>
  /\ Head(sim_cmd).op = op
  /\ sim_cmd' = Tail(sim_cmd)
  /\ UNCHANGED <<sim_event, hub_sending>>

\* Wake and overwrite the edited chunks, creating them where absent; report
\* the edited chunks (not the group mates woken with them).
SimEdit ==
  /\ Taking("Edit")
  /\ LET coords == Head(sim_cmd).coords
     IN /\ stored' \in {s \in [Coord -> Chunk] : \A c \in Coord :
                          IF c \in coords \cup Woken(coords) THEN s[c] # None
                          ELSE s[c] = stored[c]}
        /\ groups' = groups \ Hit(coords)
        /\ sim_sending' = << [changed |-> Snapshots(stored', coords), removed |-> {},
                              edits |-> coords, is_tick |-> FALSE, initial |-> FALSE] >>
  /\ UNCHANGED sim_subscribed

\* Remove the chunks; a paused group goes as a whole.  No event is sent.
SimReap ==
  /\ Taking("Reap")
  /\ LET coords == Head(sim_cmd).coords
     IN /\ stored' = [c \in Coord |-> IF c \in coords \cup Woken(coords) THEN None ELSE stored[c]]
        /\ groups' = groups \ Hit(coords)
  /\ UNCHANGED <<sim_subscribed, sim_sending>>

\* Wake the newly observed chunks.  wake_if_paused answers true for the first
\* member of a group only, so one coord per woken group is reported.
SimSubscribe ==
  /\ Taking("Subscribe")
  /\ LET fresh == Head(sim_cmd).coords \ sim_subscribed
     IN /\ sim_subscribed' = sim_subscribed \cup Head(sim_cmd).coords
        /\ stored' \in WakePhases(fresh)
        /\ groups' = groups \ Hit(fresh)
        /\ \E reported \in SUBSET (fresh \cap Paused) :
             /\ \A g \in Hit(fresh) : Cardinality(reported \cap g) = 1
             /\ sim_sending' =
                  IF reported = {} THEN << >>
                  ELSE << [changed |-> Snapshots(stored', reported), removed |-> {},
                           edits |-> {}, is_tick |-> FALSE, initial |-> FALSE] >>

SimUnsubscribe ==
  /\ Taking("Unsubscribe")
  /\ sim_subscribed' = sim_subscribed \ Head(sim_cmd).coords
  /\ UNCHANGED <<stored, groups, sim_sending>>

\* Mutant: promotion does not ask whether somebody is watching.
PromotableWatched == {c \in Coord : stored[c] # None} \ (Paused \cup Frozen)

\* Coords whose chunk may be promoted: running, not frozen, nobody watching.
Promotable ==
  {c \in Coord : stored[c] # None} \ (Paused \cup Frozen \cup sim_subscribed)

\* The promotions of one tick: disjoint sets of promotable chunks, single ones
\* or groups of at most MaxGroup.
Promotions ==
  {P \in SUBSET (SUBSET Promotable) :
     /\ \A g \in P : Cardinality(g) = 1 \/ Cardinality(g) \in 2..MaxGroup
     /\ \A g, h \in P : g # h => g \cap h = {}}

\* One tick: promote, wake the groups W perturbed by a neighbour, step every
\* running chunk, report the changed (and the woken) and the removed ones.
SimTick ==
  /\ SimReady
  /\ \E P \in Promotions, W \in SUBSET groups :
       LET woken  == UNION W
           paused == (Paused \ woken) \cup UNION P
       IN /\ groups' = (groups \ W) \cup P
          /\ stored' \in {s \in [Coord -> Chunk] :
                            /\ \A c \in paused : s[c] = stored[c]
                            /\ \A c \in Frozen : s[c] # None}
          /\ sim_sending' =
               << [changed |-> [c \in Coord |->
                                  IF c \notin paused /\ (c \in woken \/ stored'[c] # stored[c])
                                  THEN stored'[c] ELSE None],
                   removed |-> {c \in Coord : stored[c] # None /\ stored'[c] = None},
                   edits   |-> {}, is_tick |-> TRUE, initial |-> FALSE] >>
  /\ UNCHANGED <<sim_subscribed, sim_cmd, sim_event, hub_sending>>

SimCommandStep == SimEdit \/ SimReap \/ SimSubscribe \/ SimUnsubscribe

=============================================================================
