------------------------------ MODULE Channels ------------------------------
(***************************************************************************)
(* The two bounded mpsc channels between the hub task and the sim task,    *)
(* and the messages they carry.                                            *)
(*                                                                         *)
(* A handler that sends on a full channel suspends at `send(..).await` and *)
(* its task does nothing else until there is room.  What a handler still   *)
(* has to send is kept in hub_sending / sim_sending; a task accepts new    *)
(* work only when that is empty.                                           *)
(***************************************************************************)
EXTENDS Naturals, Sequences, FiniteSets

CONSTANTS
  Coord,        \* chunk coordinates
  Val,          \* cell patterns a stored chunk can hold
  None,         \* "no chunk here"
  Frozen,       \* coords whose chunk intersects a FROZEN region
  SimCmdCap,    \* capacity of the hub -> sim command channel (1024)
  SimEventCap   \* SIM_EVENT_CAPACITY (256)

ASSUME NoneAssumption   == None \notin Val
ASSUME FrozenAssumption == Frozen \subseteq Coord
ASSUME CapAssumption    == SimCmdCap \in Nat \ {0} /\ SimEventCap \in Nat \ {0}
ASSUME CoordAssumption  == IsFiniteSet(Coord)

VARIABLES
  sim_cmd,      \* commands in the hub -> sim channel
  sim_event,    \* events in the sim -> hub channel
  hub_sending,  \* commands the hub's current handler has yet to send
  sim_sending   \* events the sim's current handler has yet to send

channel_vars == <<sim_cmd, sim_event, hub_sending, sim_sending>>

Chunk == Val \cup {None}

SimCmd == [op: {"Edit", "Reap", "Subscribe", "Unsubscribe"}, coords: SUBSET Coord]

\* changed[c] = None: the event carries no snapshot of c.
SimEvent == [changed: [Coord -> Chunk], removed: SUBSET Coord, edits: SUBSET Coord,
             is_tick: BOOLEAN, initial: BOOLEAN]

\* The commands to send for `coords`: the code sends nothing for an empty list.
Command(op, coords) ==
  IF coords = {} THEN << >> ELSE << [op |-> op, coords |-> coords] >>

\* Mutant: the command channel is unbounded.
HubSendUnbounded ==
  /\ hub_sending # << >>
  /\ sim_cmd' = Append(sim_cmd, Head(hub_sending))
  /\ hub_sending' = Tail(hub_sending)
  /\ UNCHANGED <<sim_event, sim_sending>>

\* The hub's suspended handler gets one command through.
HubSend ==
  /\ hub_sending # << >>
  /\ Len(sim_cmd) < SimCmdCap
  /\ sim_cmd' = Append(sim_cmd, Head(hub_sending))
  /\ hub_sending' = Tail(hub_sending)
  /\ UNCHANGED <<sim_event, sim_sending>>

\* The sim's suspended handler gets one event through.
SimSend ==
  /\ sim_sending # << >>
  /\ Len(sim_event) < SimEventCap
  /\ sim_event' = Append(sim_event, Head(sim_sending))
  /\ sim_sending' = Tail(sim_sending)
  /\ UNCHANGED <<sim_cmd, hub_sending>>

=============================================================================
