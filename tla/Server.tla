------------------------------- MODULE Server -------------------------------
(***************************************************************************)
(* The hub and the sim running concurrently, joined by their two channels. *)
(***************************************************************************)
EXTENDS Hub, Sim

vars == <<channel_vars, hub_vars, sim_vars>>

\* At boot the sim's first act is to send the dump of the loaded world.
Init ==
  /\ HubInit
  /\ SimInit
  /\ sim_cmd = << >>
  /\ sim_event = << >>
  /\ hub_sending = << >>
  /\ sim_sending = << InitialEvent >>

ClientRequest == HubClientStep /\ UNCHANGED sim_vars
HubEvent      == HandleSimEvent /\ UNCHANGED sim_vars
HubDelivers   == HubSend /\ UNCHANGED <<hub_vars, sim_vars>>
SimCommand    == SimCommandStep /\ UNCHANGED hub_vars
Tick          == SimTick /\ UNCHANGED hub_vars
SimDelivers   == SimSend /\ UNCHANGED <<hub_vars, sim_vars>>

\* Everything but what clients do.
ServerStep == HubEvent \/ HubDelivers \/ SimCommand \/ Tick \/ SimDelivers

Next == ClientRequest \/ ServerStep

Spec == Init /\ [][Next]_vars

(***************************************************************************)
(* A suspended send resumes once there is room (weak fairness).  Where a   *)
(* select! has several branches ready tokio polls them in random order, so *)
(* a branch that is ready again and again is taken (strong fairness).      *)
(***************************************************************************)
Fairness ==
  /\ WF_vars(HubDelivers)
  /\ WF_vars(SimDelivers)
  /\ SF_vars(HubEvent)
  /\ SF_vars(SimCommand)
  /\ SF_vars(Tick)

FairSpec == Spec /\ Fairness

-----------------------------------------------------------------------------
TypeOK ==
  /\ sim_cmd \in Seq(SimCmd) /\ Len(sim_cmd) <= SimCmdCap
  /\ sim_event \in Seq(SimEvent) /\ Len(sim_event) <= SimEventCap
  /\ hub_sending \in Seq(SimCmd)
  /\ sim_sending \in Seq(SimEvent)
  /\ seen \subseteq Peer
  /\ peers \subseteq seen
  /\ peer_subscribed \in [Peer -> SUBSET Coord]
  /\ chunk_subs \in [Coord -> SUBSET Peer]
  /\ mirror \in [Coord -> Chunk]
  /\ sim_subscribed \subseteq Coord
  /\ stored \in [Coord -> Chunk]
  /\ groups \subseteq SUBSET Coord

(***************************************************************************)
(* The hub's two subscription tables are each other's inverse, hold only   *)
(* connected peers, and nobody exceeds the quota: through joins, partial   *)
(* overflows, unsubscribes and peers dropped in the middle of a fan-out.   *)
(***************************************************************************)
SubscriptionTablesAgree ==
  /\ \A p \in Peer, c \in Coord : p \in chunk_subs[c] <=> c \in peer_subscribed[p]
  /\ \A p \in Peer : peer_subscribed[p] # {} => p \in peers
  /\ \A p \in Peer : Cardinality(peer_subscribed[p]) <= ClientMax

\* Commands on their way to the sim, oldest first.
InFlight == sim_cmd \o hub_sending

\* Command cmd changes whether the sim counts c as subscribed.
Mentions(cmd, c) == cmd.op \in {"Subscribe", "Unsubscribe"} /\ c \in cmd.coords

\* A sim whose subscribed set is S ends with the set O after the commands q:
\* for each coord the last command that mentions it decides.
Leads(q, S, O) ==
  \A c \in Coord :
    /\ (\A i \in DOMAIN q : ~Mentions(q[i], c)) => (c \in S <=> c \in O)
    /\ \A i \in DOMAIN q :
         Mentions(q[i], c) /\ (\A j \in DOMAIN q : j > i => ~Mentions(q[j], c))
           => (q[i].op = "Subscribe" <=> c \in O)

(***************************************************************************)
(* The sim's `subscribed` set follows the hub's: once it has worked off    *)
(* the commands in flight, it holds exactly the coords some peer observes, *)
(* however subscriptions, overflows and dropped peers interleave with it.  *)
(***************************************************************************)
SimLearnsSubscriptions == Leads(InFlight, sim_subscribed, Observed)

(***************************************************************************)
(* SimCmd::Subscribe: "The sim wakes any paused entry and refuses to pause *)
(* these coords while they remain in the subscribed set" - alone or as     *)
(* members of a group.  What is paused is a chunk, unfrozen, in one group. *)
(***************************************************************************)
SubscribedNeverPaused ==
  /\ Paused \cap sim_subscribed = {}
  /\ Paused \cap Frozen = {}
  /\ \A c \in Paused : stored[c] # None
  /\ \A g, h \in groups : g # h => g \cap h = {}

(***************************************************************************)
(* Frozen chunks are immortal: neither a tick nor the reaper, fed from a   *)
(* mirror that lags behind the sim, ever removes one from the world.       *)
(***************************************************************************)
FrozenImmortal == \A c \in Frozen : stored[c] # None

\* Events on their way to the hub, oldest first.
Reported == sim_event \o sim_sending

Touches(ev, c) == ev.changed[c] # None \/ c \in ev.removed

ReapInFlight(c) == \E i \in DOMAIN InFlight : InFlight[i].op = "Reap" /\ c \in InFlight[i].coords

\* The mirror entry of c is the sim's once the events in flight are handled:
\* the last event that touches c reports it, or none does and it is in place.
MirrorEnds(c) ==
  /\ (\A i \in DOMAIN Reported : ~Touches(Reported[i], c)) => mirror[c] = stored[c]
  /\ \A i \in DOMAIN Reported :
       Touches(Reported[i], c) /\ (\A j \in DOMAIN Reported : j > i => ~Touches(Reported[j], c))
         => Reported[i].changed[c] = stored[c]

(***************************************************************************)
(* SimEvent::changed: "Chunks that changed [...] with current state. Used  *)
(* by the hub to keep its mirror up to date."  Every chunk the sim has is  *)
(* mirrored as it is once the events in flight are handled, unless the hub *)
(* has evicted it and the sim has yet to hear of that.                     *)
(***************************************************************************)
LiveChunksMirrored ==
  \A c \in Coord : stored[c] # None => ReapInFlight(c) \/ MirrorEnds(c)

(***************************************************************************)
(* SimEvent::removed: "Chunks removed (natural emptying or reaper)."  A    *)
(* chunk the sim no longer has leaves the mirror too: subscribers are not  *)
(* shown, and the reaper does not count, chunks that do not exist.         *)
(***************************************************************************)
NoGhosts ==
  \A c \in Coord : stored[c] = None => ReapInFlight(c) \/ MirrorEnds(c)

(***************************************************************************)
(* reaper.rs: "Hard-immortal: [...] Chunks currently subscribed by any     *)
(* peer".  When the sim carries out a Reap, an observed chunk the reaper   *)
(* did not pick stays as it is.                                            *)
(***************************************************************************)
ReapSparesObserved ==
  [][SimReap => \A c \in Observed \ Head(sim_cmd).coords : stored'[c] = stored[c]]_vars

(***************************************************************************)
(* sim.rs on the event channel: "a stalled hub fails loud (channel full -> *)
(* sim panics)".  Hub and sim never wait for each other, each in a send on *)
(* a channel only the other one can drain.                                 *)
(***************************************************************************)
NoMutualStall ==
  ~ /\ hub_sending # << >> /\ Len(sim_cmd) = SimCmdCap
    /\ sim_sending # << >> /\ Len(sim_event) = SimEventCap

(***************************************************************************)
(* A coord somebody observes is in the end protected from pausing by the   *)
(* sim, or nobody observes it any more; and one nobody observes is in the  *)
(* end released.                                                           *)
(***************************************************************************)
SubscriptionsArrive ==
  \A c \in Coord :
    /\ (c \in Observed) ~> (c \in sim_subscribed \/ c \notin Observed)
    /\ (c \notin Observed) ~> (c \notin sim_subscribed \/ c \in Observed)

=============================================================================
