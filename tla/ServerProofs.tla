---------------------------- MODULE ServerProofs ----------------------------
(***************************************************************************)
(* Invariants of Server, proved for all coords, peers, capacities, quotas  *)
(* and group sizes.                                                        *)
(***************************************************************************)
EXTENDS Server, SequenceTheorems, FiniteSetTheorems, TLAPS

-----------------------------------------------------------------------------
(* Type correctness *)

LEMMA SingletonSeq == ASSUME NEW T, NEW e \in T PROVE << e >> \in Seq(T)
OBVIOUS

LEMMA CommandType ==
  ASSUME NEW op \in {"Edit", "Reap", "Subscribe", "Unsubscribe"}, NEW S \in SUBSET Coord
  PROVE  Command(op, S) \in Seq(SimCmd)
<1>1. [op |-> op, coords |-> S] \in SimCmd
  BY DEF SimCmd
<1>2. << [op |-> op, coords |-> S] >> \in Seq(SimCmd)
  BY <1>1, SingletonSeq
<1> QED BY <1>2 DEF Command

LEMMA NoneIsChunk == None \in Chunk
BY DEF Chunk

LEMMA DropAndFlushType ==
  ASSUME TypeOK,
         NEW subscribed \in [Peer -> SUBSET Coord], NEW subs \in [Coord -> SUBSET Peer],
         NEW D, NEW cmds \in Seq(SimCmd), DropAndFlush(subscribed, subs, D, cmds)
  PROVE  /\ peers' \subseteq seen
         /\ peer_subscribed' \in [Peer -> SUBSET Coord]
         /\ chunk_subs' \in [Coord -> SUBSET Peer]
         /\ hub_sending' \in Seq(SimCmd)
<1>1. Orphaned(subs, D) \in SUBSET Coord
  BY DEF Orphaned
<1>2. hub_sending' \in Seq(SimCmd)
  BY <1>1, CommandType, ConcatProperties DEF DropAndFlush
<1> QED BY <1>2 DEF DropAndFlush, TypeOK

LEMMA WithInterestType ==
  ASSUME TypeOK, NEW p \in Peer, NEW I \in SUBSET Coord
  PROVE  /\ WithInterest(p, I).subscribed \in [Peer -> SUBSET Coord]
         /\ WithInterest(p, I).subs \in [Coord -> SUBSET Peer]
BY DEF WithInterest, TypeOK

LEMMA MirroredType ==
  ASSUME NEW m \in [Coord -> Chunk], NEW ev \in SimEvent
  PROVE  Mirrored(m, ev) \in [Coord -> Chunk]
BY NoneIsChunk DEF Mirrored, SimEvent

LEMMA EmptyTypes == << >> \in Seq(SimCmd) /\ << >> \in Seq(SimEvent)
OBVIOUS

LEMMA EventType ==
  ASSUME NEW changed \in [Coord -> Chunk], NEW removed \in SUBSET Coord,
         NEW edits \in SUBSET Coord, NEW is_tick \in BOOLEAN, NEW initial \in BOOLEAN
  PROVE  << [changed |-> changed, removed |-> removed, edits |-> edits,
             is_tick |-> is_tick, initial |-> initial] >> \in Seq(SimEvent)
<1>1. [changed |-> changed, removed |-> removed, edits |-> edits,
       is_tick |-> is_tick, initial |-> initial] \in SimEvent
  BY DEF SimEvent
<1> QED BY <1>1, SingletonSeq

LEMMA InitType == Init => TypeOK
<1> SUFFICES ASSUME Init PROVE TypeOK
  OBVIOUS
<1>1. stored \in [Coord -> Chunk]
  BY DEF Init, SimInit
<1>2. sim_sending \in Seq(SimEvent)
  BY <1>1, EventType DEF Init, InitialEvent
<1> QED BY <1>1, <1>2, CapAssumption, EmptyTypes, NoneIsChunk
        DEF Init, HubInit, SimInit, TypeOK

LEMMA ClientStepType == TypeOK /\ ClientRequest => TypeOK'
<1> SUFFICES ASSUME TypeOK, HubClientStep, UNCHANGED sim_vars PROVE TypeOK'
  BY DEF ClientRequest
<1>1. PICK p \in Peer : \/ Join(p)
                        \/ Leave(p)
                        \/ \E coords \in SUBSET Coord :
                             \/ Subscribe(p, coords)
                             \/ SubscribeOverflow(p, coords)
                             \/ Unsubscribe(p, coords)
                             \/ Edit(p, coords)
  BY DEF HubClientStep
<1>2. CASE Join(p)
  BY <1>2 DEF Join, TypeOK, channel_vars, sim_vars
<1>3. CASE Leave(p)
  <2>1. /\ peers' \subseteq seen
        /\ peer_subscribed' \in [Peer -> SUBSET Coord]
        /\ chunk_subs' \in [Coord -> SUBSET Peer]
        /\ hub_sending' \in Seq(SimCmd)
    BY <1>3, DropAndFlushType, EmptyTypes DEF Leave, TypeOK
  <2> QED BY <1>3, <2>1 DEF Leave, TypeOK, sim_vars
<1>4. ASSUME NEW coords \in SUBSET Coord, Subscribe(p, coords) PROVE TypeOK'
  <2> DEFINE new   == coords \ peer_subscribed[p]
             after == WithInterest(p, new)
             fresh == new \ Observed
  <2>1. PICK D : DropAndFlush(after.subscribed, after.subs, D, Command("Subscribe", fresh))
    BY <1>4 DEF Subscribe
  <2>2. Command("Subscribe", fresh) \in Seq(SimCmd)
    BY CommandType
  <2>3. after.subscribed \in [Peer -> SUBSET Coord] /\ after.subs \in [Coord -> SUBSET Peer]
    BY WithInterestType
  <2>4. /\ peers' \subseteq seen
        /\ peer_subscribed' \in [Peer -> SUBSET Coord]
        /\ chunk_subs' \in [Coord -> SUBSET Peer]
        /\ hub_sending' \in Seq(SimCmd)
    BY <2>1, <2>2, <2>3, DropAndFlushType
  <2> QED BY <1>4, <2>4 DEF Subscribe, TypeOK, sim_vars
<1>5. ASSUME NEW coords \in SUBSET Coord, SubscribeOverflow(p, coords) PROVE TypeOK'
  <2>1. PICK I \in SUBSET (coords \ peer_subscribed[p]) :
          DropAndFlush(WithInterest(p, I).subscribed, WithInterest(p, I).subs, {p}, << >>)
    BY <1>5 DEF SubscribeOverflow
  <2>2. /\ WithInterest(p, I).subscribed \in [Peer -> SUBSET Coord]
        /\ WithInterest(p, I).subs \in [Coord -> SUBSET Peer]
    BY WithInterestType
  <2>3. /\ peers' \subseteq seen
        /\ peer_subscribed' \in [Peer -> SUBSET Coord]
        /\ chunk_subs' \in [Coord -> SUBSET Peer]
        /\ hub_sending' \in Seq(SimCmd)
    BY <2>1, <2>2, DropAndFlushType, EmptyTypes
  <2> QED BY <1>5, <2>3 DEF SubscribeOverflow, TypeOK, sim_vars
<1>6. ASSUME NEW coords \in SUBSET Coord, Unsubscribe(p, coords) PROVE TypeOK'
  <2>1. hub_sending' \in Seq(SimCmd)
    BY <1>6, CommandType DEF Unsubscribe
  <2> QED BY <1>6, <2>1 DEF Unsubscribe, TypeOK, sim_vars
<1>7. ASSUME NEW coords \in SUBSET Coord, Edit(p, coords) PROVE TypeOK'
  <2>1. hub_sending' \in Seq(SimCmd)
    BY <1>7, CommandType DEF Edit
  <2> QED BY <1>7, <2>1 DEF Edit, TypeOK, hub_vars, sim_vars
<1> QED BY <1>1, <1>2, <1>3, <1>4, <1>5, <1>6, <1>7

\* What taking an event does, whichever sends fail: drop some peers, evict some
\* unfrozen coords, and none if there is room for all.
LEMMA HubEventEffect ==
  ASSUME TypeOK, HandleSimEvent
  PROVE  /\ Head(sim_event) \in SimEvent
         /\ \E D, R :
              /\ R \in SUBSET (Coord \ Frozen)
              /\ Cardinality(Coord) <= MaxLive => R = {}
              /\ mirror' = [c \in Coord |-> IF c \in R THEN None
                                            ELSE Mirrored(mirror, Head(sim_event))[c]]
              /\ DropAndFlush(peer_subscribed, chunk_subs, D, Command("Reap", R))
<1> DEFINE ev == Head(sim_event)
           m  == Mirrored(mirror, ev)
<1>1. PICK D1 \in SUBSET Recipients(ev) :
        \E R \in IF ev.is_tick
                 THEN Reapable(m, {c \in Coord : ~(chunk_subs[c] \subseteq D1)}) ELSE {{}},
           D2 \in IF ev.is_tick THEN SUBSET (peers \ D1) ELSE {{}} :
          /\ mirror' = [c \in Coord |-> IF c \in R THEN None ELSE m[c]]
          /\ DropAndFlush(peer_subscribed, chunk_subs, D1 \cup D2, Command("Reap", R))
  BY DEF HandleSimEvent
<1>2. ASSUME NEW kept, NEW R \in Reapable(m, kept)
      PROVE  R \in SUBSET (Coord \ Frozen) /\ (Cardinality(Coord) <= MaxLive => R = {})
  <2> DEFINE present == {c \in Coord : m[c] # None}
  <2>1. /\ IsFiniteSet(present) /\ Cardinality(present) <= Cardinality(Coord)
        /\ Cardinality(present) \in Nat /\ Cardinality(Coord) \in Nat
    BY CoordAssumption, FS_Subset, FS_CardinalityType
  <2> HIDE DEF m
  <2>2. Cardinality(Coord) <= MaxLive => Cardinality(present) <= MaxLive
    BY <2>1, HubAssumption
  <2> QED BY <2>2 DEF Reapable
<1>3. PICK R, D2 :
        /\ R \in SUBSET (Coord \ Frozen)
        /\ Cardinality(Coord) <= MaxLive => R = {}
        /\ mirror' = [c \in Coord |-> IF c \in R THEN None ELSE m[c]]
        /\ DropAndFlush(peer_subscribed, chunk_subs, D1 \cup D2, Command("Reap", R))
  <2> HIDE DEF m, ev
  <2> QED BY <1>1, <1>2, Zenon
<1>4. ev \in SimEvent
  BY HeadTailProperties DEF HandleSimEvent, TypeOK
<1>5. \E D, S :
        /\ S \in SUBSET (Coord \ Frozen)
        /\ Cardinality(Coord) <= MaxLive => S = {}
        /\ mirror' = [c \in Coord |-> IF c \in S THEN None ELSE m[c]]
        /\ DropAndFlush(peer_subscribed, chunk_subs, D, Command("Reap", S))
  <2> WITNESS D1 \cup D2, R
  <2> QED BY <1>3
<1> QED BY <1>4, <1>5

LEMMA HubEventType == TypeOK /\ HubEvent => TypeOK'
<1> SUFFICES ASSUME TypeOK, HandleSimEvent, UNCHANGED sim_vars PROVE TypeOK'
  BY DEF HubEvent
<1>1. Tail(sim_event) \in Seq(SimEvent) /\ Len(Tail(sim_event)) <= SimEventCap
  BY HeadTailProperties, LenProperties, CapAssumption DEF HandleSimEvent, TypeOK
<1>2. PICK D, R :
        /\ R \in SUBSET (Coord \ Frozen)
        /\ mirror' = [c \in Coord |-> IF c \in R THEN None
                                      ELSE Mirrored(mirror, Head(sim_event))[c]]
        /\ DropAndFlush(peer_subscribed, chunk_subs, D, Command("Reap", R))
  BY HubEventEffect
<1>3. Mirrored(mirror, Head(sim_event)) \in [Coord -> Chunk]
  BY HubEventEffect, MirroredType DEF TypeOK
<1>4. Command("Reap", R) \in Seq(SimCmd)
  BY <1>2, CommandType
<1>5. /\ peers' \subseteq seen
      /\ peer_subscribed' \in [Peer -> SUBSET Coord]
      /\ chunk_subs' \in [Coord -> SUBSET Peer]
      /\ hub_sending' \in Seq(SimCmd)
  BY <1>2, <1>4, DropAndFlushType DEF TypeOK
<1>6. mirror' \in [Coord -> Chunk]
  BY <1>2, <1>3, NoneIsChunk
<1> QED BY <1>1, <1>5, <1>6 DEF HandleSimEvent, TypeOK, sim_vars

LEMMA SendType == TypeOK /\ (HubDelivers \/ SimDelivers) => TypeOK'
<1> SUFFICES ASSUME TypeOK, HubDelivers \/ SimDelivers PROVE TypeOK'
  OBVIOUS
<1>1. CASE HubDelivers
  <2>1. /\ sim_cmd' \in Seq(SimCmd) /\ Len(sim_cmd') <= SimCmdCap
        /\ hub_sending' \in Seq(SimCmd)
    BY <1>1, HeadTailProperties, AppendProperties, CapAssumption DEF HubDelivers, HubSend, TypeOK
  <2> QED BY <1>1, <2>1 DEF HubDelivers, HubSend, TypeOK, hub_vars, sim_vars
<1>2. CASE SimDelivers
  <2>1. /\ sim_event' \in Seq(SimEvent) /\ Len(sim_event') <= SimEventCap
        /\ sim_sending' \in Seq(SimEvent)
    BY <1>2, HeadTailProperties, AppendProperties, CapAssumption DEF SimDelivers, SimSend, TypeOK
  <2> QED BY <1>2, <2>1 DEF SimDelivers, SimSend, TypeOK, hub_vars, sim_vars
<1> QED BY <1>1, <1>2

LEMMA SnapshotsType ==
  ASSUME NEW s \in [Coord -> Chunk], NEW coords PROVE Snapshots(s, coords) \in [Coord -> Chunk]
BY NoneIsChunk DEF Snapshots

LEMMA TakingType ==
  ASSUME TypeOK, NEW op, Taking(op)
  PROVE  /\ Head(sim_cmd) \in SimCmd
         /\ Head(sim_cmd).coords \in SUBSET Coord
         /\ sim_cmd' \in Seq(SimCmd) /\ Len(sim_cmd') <= SimCmdCap
         /\ sim_event' = sim_event /\ hub_sending' = hub_sending
<1>1. sim_cmd \in Seq(SimCmd) /\ sim_cmd # << >> /\ sim_cmd' = Tail(sim_cmd)
  BY DEF TypeOK, Taking
<1>2. /\ Head(sim_cmd) \in SimCmd
      /\ Tail(sim_cmd) \in Seq(SimCmd) /\ Len(Tail(sim_cmd)) = Len(sim_cmd) - 1
  BY <1>1, HeadTailProperties
<1>3. Head(sim_cmd).coords \in SUBSET Coord
  BY <1>2 DEF SimCmd
<1>4. Len(sim_cmd') <= SimCmdCap
  BY <1>1, <1>2, LenProperties, CapAssumption DEF TypeOK
<1> QED BY <1>1, <1>2, <1>3, <1>4 DEF Taking

LEMMA SimCommandType == TypeOK /\ SimCommand => TypeOK'
<1> SUFFICES ASSUME TypeOK, SimCommandStep, UNCHANGED hub_vars PROVE TypeOK'
  BY DEF SimCommand
<1> DEFINE coords == Head(sim_cmd).coords
<1>1. CASE SimEdit
  <2>1. Taking("Edit") BY <1>1 DEF SimEdit
  <2>2. stored' \in [Coord -> Chunk] BY <1>1 DEF SimEdit
  <2>3. sim_sending' \in Seq(SimEvent)
    BY <1>1, <2>1, <2>2, TakingType, SnapshotsType, EventType DEF SimEdit
  <2> QED BY <1>1, <2>1, <2>2, <2>3, TakingType DEF SimEdit, TypeOK, hub_vars
<1>2. CASE SimReap
  <2>1. Taking("Reap") BY <1>2 DEF SimReap
  <2>2. stored' \in [Coord -> Chunk] BY <1>2, NoneIsChunk DEF SimReap, TypeOK
  <2> QED BY <1>2, <2>1, <2>2, TakingType DEF SimReap, TypeOK, hub_vars
<1>3. CASE SimSubscribe
  <2>1. Taking("Subscribe") BY <1>3 DEF SimSubscribe
  <2>2. stored' \in [Coord -> Chunk] BY <1>3 DEF SimSubscribe, WakePhases
  <2>3. sim_sending' \in Seq(SimEvent)
    <3>1. PICK reported :
            sim_sending' = IF reported = {} THEN << >>
                  ELSE << [changed |-> Snapshots(stored', reported), removed |-> {},
                           edits |-> {}, is_tick |-> FALSE, initial |-> FALSE] >>
      BY <1>3 DEF SimSubscribe
    <3> QED BY <3>1, <2>2, SnapshotsType, EventType, EmptyTypes
  <2> QED BY <1>3, <2>1, <2>2, <2>3, TakingType DEF SimSubscribe, TypeOK, hub_vars
<1>4. CASE SimUnsubscribe
  BY <1>4, TakingType DEF SimUnsubscribe, TypeOK, hub_vars
<1> QED BY <1>1, <1>2, <1>3, <1>4 DEF SimCommandStep

LEMMA TickType == TypeOK /\ Tick => TypeOK'
<1> SUFFICES ASSUME TypeOK, SimTick, UNCHANGED hub_vars PROVE TypeOK'
  BY DEF Tick
<1> DEFINE woken(W) == UNION W
           paused(P, W) == (Paused \ woken(W)) \cup UNION P
<1>1. PICK P \in Promotions, W \in SUBSET groups :
         /\ groups' = (groups \ W) \cup P
         /\ stored' \in [Coord -> Chunk]
         /\ sim_sending' =
               << [changed |-> [c \in Coord |->
                                  IF c \notin paused(P, W) /\ (c \in woken(W) \/ stored'[c] # stored[c])
                                  THEN stored'[c] ELSE None],
                   removed |-> {c \in Coord : stored[c] # None /\ stored'[c] = None},
                   edits   |-> {}, is_tick |-> TRUE, initial |-> FALSE] >>
  BY DEF SimTick
<1>2. groups' \subseteq SUBSET Coord
  BY <1>1 DEF Promotions, Promotable, TypeOK
<1>3. sim_sending' \in Seq(SimEvent)
  BY <1>1, NoneIsChunk, EventType
<1> QED BY <1>1, <1>2, <1>3 DEF SimTick, TypeOK, hub_vars

\* Every variable of the hub, the sim and the channels keeps its type, and the
\* channels never hold more than their capacity.
THEOREM TypeCorrect == Spec => []TypeOK
<1>1. Init => TypeOK
  BY InitType
<1>2. TypeOK /\ [Next]_vars => TypeOK'
  <2>1. TypeOK /\ UNCHANGED vars => TypeOK'
    BY DEF TypeOK, vars, channel_vars, hub_vars, sim_vars
  <2> QED BY <2>1, ClientStepType, HubEventType, SendType, SimCommandType, TickType
          DEF Next, ServerStep
<1> QED BY <1>1, <1>2, PTL DEF Spec

-----------------------------------------------------------------------------
(* The hub's tables *)

LEMMA DropKeepsTables ==
  ASSUME NEW subscribed \in [Peer -> SUBSET Coord], NEW subs \in [Coord -> SUBSET Peer],
         NEW D, NEW cmds, DropAndFlush(subscribed, subs, D, cmds),
         \A p \in Peer, c \in Coord : p \in subs[c] <=> c \in subscribed[p],
         \A p \in Peer : subscribed[p] # {} => p \in peers,
         \A p \in Peer : p \in D \/ Cardinality(subscribed[p]) <= ClientMax
  PROVE  SubscriptionTablesAgree'
<1>1. Cardinality({}) <= ClientMax
  BY FS_EmptySet, HubAssumption
<1> QED BY <1>1 DEF DropAndFlush, SubscriptionTablesAgree

LEMMA QuotaKept ==
  ASSUME TypeOK, SubscriptionTablesAgree, NEW p \in Peer, NEW S \in SUBSET peer_subscribed[p]
  PROVE  Cardinality(S) <= ClientMax
<1>1. IsFiniteSet(peer_subscribed[p])
  BY CoordAssumption, FS_Subset DEF TypeOK
<1>2. Cardinality(S) <= Cardinality(peer_subscribed[p])
  BY <1>1, FS_Subset
<1>3. Cardinality(S) \in Nat /\ Cardinality(peer_subscribed[p]) \in Nat
  BY <1>1, FS_Subset, FS_CardinalityType
<1> QED BY <1>2, <1>3, HubAssumption DEF SubscriptionTablesAgree

LEMMA ClientStepTables ==
  TypeOK /\ SubscriptionTablesAgree /\ ClientRequest => SubscriptionTablesAgree'
<1> SUFFICES ASSUME TypeOK, SubscriptionTablesAgree, HubClientStep
             PROVE  SubscriptionTablesAgree'
  BY DEF ClientRequest
<1>1. PICK p \in Peer : \/ Join(p)
                        \/ Leave(p)
                        \/ \E coords \in SUBSET Coord :
                             \/ Subscribe(p, coords)
                             \/ SubscribeOverflow(p, coords)
                             \/ Unsubscribe(p, coords)
                             \/ Edit(p, coords)
  BY DEF HubClientStep
<1>2. CASE Join(p)
  BY <1>2 DEF Join, SubscriptionTablesAgree
<1>3. CASE Leave(p)
  BY <1>3, DropKeepsTables DEF Leave, SubscriptionTablesAgree, TypeOK
<1>4. ASSUME NEW coords \in SUBSET Coord, Subscribe(p, coords) PROVE SubscriptionTablesAgree'
  <2> DEFINE new   == coords \ peer_subscribed[p]
             after == WithInterest(p, new)
             cmds  == Command("Subscribe", new \ Observed)
  <2>1. PICK D : DropAndFlush(after.subscribed, after.subs, D, cmds)
    BY <1>4 DEF Subscribe
  <2>2. after.subscribed \in [Peer -> SUBSET Coord] /\ after.subs \in [Coord -> SUBSET Peer]
    BY WithInterestType
  <2>3. \A q \in Peer, c \in Coord : q \in after.subs[c] <=> c \in after.subscribed[q]
    BY DEF WithInterest, SubscriptionTablesAgree, TypeOK
  <2>4. \A q \in Peer : after.subscribed[q] # {} => q \in peers
    BY <1>4 DEF Subscribe, WithInterest, SubscriptionTablesAgree, TypeOK
  <2>5. \A q \in Peer : Cardinality(after.subscribed[q]) <= ClientMax
    BY <1>4 DEF Subscribe, WithInterest, SubscriptionTablesAgree, TypeOK
  <2> HIDE DEF after, cmds
  <2> QED BY <2>1, <2>2, <2>3, <2>4, <2>5, DropKeepsTables
<1>5. ASSUME NEW coords \in SUBSET Coord, SubscribeOverflow(p, coords)
      PROVE  SubscriptionTablesAgree'
  <2>1. PICK I \in SUBSET (coords \ peer_subscribed[p]) :
          DropAndFlush(WithInterest(p, I).subscribed, WithInterest(p, I).subs, {p}, << >>)
    BY <1>5 DEF SubscribeOverflow
  <2> DEFINE after == WithInterest(p, I)
  <2>2. after.subscribed \in [Peer -> SUBSET Coord] /\ after.subs \in [Coord -> SUBSET Peer]
    BY WithInterestType
  <2>3. \A q \in Peer, c \in Coord : q \in after.subs[c] <=> c \in after.subscribed[q]
    BY DEF WithInterest, SubscriptionTablesAgree, TypeOK
  <2>4. \A q \in Peer : after.subscribed[q] # {} => q \in peers
    BY <1>5 DEF SubscribeOverflow, WithInterest, SubscriptionTablesAgree, TypeOK
  <2>5. \A q \in Peer : q \in {p} \/ Cardinality(after.subscribed[q]) <= ClientMax
    BY DEF WithInterest, SubscriptionTablesAgree, TypeOK
  <2> HIDE DEF after
  <2>6. DropAndFlush(after.subscribed, after.subs, {p}, << >>)
    BY <2>1 DEF after
  <2> QED BY <2>6, <2>2, <2>3, <2>4, <2>5, DropKeepsTables
<1>6. ASSUME NEW coords \in SUBSET Coord, Unsubscribe(p, coords) PROVE SubscriptionTablesAgree'
  <2> DEFINE gone == coords \cap peer_subscribed[p]
  <2>1. Cardinality(peer_subscribed[p] \ gone) <= ClientMax
    BY QuotaKept
  <2> QED BY <1>6, <2>1 DEF Unsubscribe, SubscriptionTablesAgree, TypeOK
<1>7. ASSUME NEW coords \in SUBSET Coord, Edit(p, coords) PROVE SubscriptionTablesAgree'
  BY <1>7 DEF Edit, hub_vars, SubscriptionTablesAgree
<1> QED BY <1>1, <1>2, <1>3, <1>4, <1>5, <1>6, <1>7

\* The two subscription tables of the hub agree with each other, whatever
\* sequence of joins, overflows, unsubscribes and dropped peers they go through.
THEOREM TablesAgree == Spec => []SubscriptionTablesAgree
<1>1. Init => SubscriptionTablesAgree
  BY FS_EmptySet, HubAssumption DEF Init, HubInit, SubscriptionTablesAgree
<1>2. TypeOK /\ SubscriptionTablesAgree /\ [Next]_vars => SubscriptionTablesAgree'
  <2> SUFFICES ASSUME TypeOK, SubscriptionTablesAgree, [Next]_vars
               PROVE  SubscriptionTablesAgree'
    OBVIOUS
  <2>1. CASE ClientRequest
    BY <2>1, ClientStepTables
  <2>2. CASE HubEvent
    <3>1. HandleSimEvent
      BY <2>2 DEF HubEvent
    <3>2. PICK D, R : DropAndFlush(peer_subscribed, chunk_subs, D, Command("Reap", R))
      BY <3>1, HubEventEffect
    <3> QED BY <3>2, DropKeepsTables DEF SubscriptionTablesAgree, TypeOK
  <2>3. CASE HubDelivers \/ SimCommand \/ Tick \/ SimDelivers \/ UNCHANGED vars
    <3>1. UNCHANGED hub_vars
      BY <2>3 DEF HubDelivers, SimCommand, Tick, SimDelivers, vars
    <3> QED BY <3>1 DEF hub_vars, SubscriptionTablesAgree
  <2> QED BY <2>1, <2>2, <2>3 DEF Next, ServerStep
<1> QED BY <1>1, <1>2, TypeCorrect, PTL DEF Spec

-----------------------------------------------------------------------------
(* What the sim knows of the subscriptions *)

\* The subscribed set of a sim that had S after it carries out cmd.
Knows(cmd, S) ==
  IF cmd.op = "Subscribe" THEN S \cup cmd.coords
  ELSE IF cmd.op = "Unsubscribe" THEN S \ cmd.coords
  ELSE S

LEMMA LeadsConcat ==
  ASSUME NEW q \in Seq(SimCmd), NEW r \in Seq(SimCmd), NEW S, NEW O, NEW O2,
         Leads(q, S, O), Leads(r, O, O2)
  PROVE  Leads(q \o r, S, O2)
<1> DEFINE n == Len(q)
           m == Len(r)
<1>1. /\ n \in Nat /\ m \in Nat
      /\ DOMAIN q = 1..n /\ DOMAIN r = 1..m /\ DOMAIN (q \o r) = 1..(n + m)
      /\ \A i \in 1..n : (q \o r)[i] = q[i]
      /\ \A i \in 1..m : (q \o r)[i + n] = r[i]
  BY LenProperties, ConcatProperties
<1> SUFFICES ASSUME NEW c \in Coord
             PROVE  /\ (\A i \in DOMAIN (q \o r) : ~Mentions((q \o r)[i], c)) => (c \in S <=> c \in O2)
                    /\ \A i \in DOMAIN (q \o r) :
                         /\ Mentions((q \o r)[i], c)
                         /\ \A j \in DOMAIN (q \o r) : j > i => ~Mentions((q \o r)[j], c)
                         => ((q \o r)[i].op = "Subscribe" <=> c \in O2)
  BY DEF Leads
<1>2. /\ (\A i \in 1..n : ~Mentions(q[i], c)) => (c \in S <=> c \in O)
      /\ \A i \in 1..n :
           Mentions(q[i], c) /\ (\A j \in 1..n : j > i => ~Mentions(q[j], c))
             => (q[i].op = "Subscribe" <=> c \in O)
  BY <1>1 DEF Leads
<1>3. /\ (\A i \in 1..m : ~Mentions(r[i], c)) => (c \in O <=> c \in O2)
      /\ \A i \in 1..m :
           Mentions(r[i], c) /\ (\A j \in 1..m : j > i => ~Mentions(r[j], c))
             => (r[i].op = "Subscribe" <=> c \in O2)
  BY <1>1 DEF Leads
<1> DEFINE w == q \o r
<1>4. (\A i \in 1..(n + m) : ~Mentions(w[i], c)) => (c \in S <=> c \in O2)
  <2> SUFFICES ASSUME \A i \in 1..(n + m) : ~Mentions(w[i], c) PROVE c \in S <=> c \in O2
    OBVIOUS
  <2>1. \A i \in 1..n : i \in 1..(n + m) /\ w[i] = q[i]
    BY <1>1
  <2>2. \A i \in 1..m : i + n \in 1..(n + m) /\ w[i + n] = r[i]
    BY <1>1
  <2> HIDE DEF w, n, m
  <2> QED BY <2>1, <2>2, <1>2, <1>3
<1>5. ASSUME NEW i \in 1..(n + m), Mentions(w[i], c),
             \A j \in 1..(n + m) : j > i => ~Mentions(w[j], c)
      PROVE  w[i].op = "Subscribe" <=> c \in O2
  <2>1. CASE i \in 1..n
    <3>1. \A j \in 1..n : j \in 1..(n + m) /\ w[j] = q[j]
      BY <1>1
    <3>2. \A j \in 1..m : j + n \in 1..(n + m) /\ j + n > i /\ w[j + n] = r[j]
      BY <2>1, <1>1
    <3> HIDE DEF w, n, m
    <3>3. c \in O <=> c \in O2
      BY <1>5, <1>3, <3>2
    <3>4. w[i].op = "Subscribe" <=> c \in O
      BY <1>5, <1>2, <2>1, <3>1
    <3> QED BY <3>3, <3>4
  <2>2. CASE i \notin 1..n
    <3>1. i - n \in 1..m /\ (i - n) + n = i
      BY <2>2, <1>1
    <3>2. w[i] = r[i - n]
      BY <3>1, <1>1
    <3>3. \A j \in 1..m : j > i - n => j + n \in 1..(n + m) /\ j + n > i /\ w[j + n] = r[j]
      BY <3>1, <1>1
    <3> HIDE DEF w, n, m
    <3>4. \A j \in 1..m : j > i - n => ~Mentions(r[j], c)
      BY <3>3, <1>5
    <3> QED BY <3>1, <3>2, <3>4, <1>3, <1>5
  <2> QED BY <2>1, <2>2
<1> QED BY <1>1, <1>4, <1>5

LEMMA LeadsCommand ==
  ASSUME NEW O, NEW T \in SUBSET Coord, NEW op \in {"Edit", "Reap", "Subscribe", "Unsubscribe"}
  PROVE  Leads(Command(op, T), O, Knows([op |-> op, coords |-> T], O))
<1> DEFINE cmd == [op |-> op, coords |-> T]
<1>1. CASE T = {}
  <2>1. Command(op, T) = << >> /\ DOMAIN << >> = {}
    BY <1>1 DEF Command
  <2>2. \A c \in Coord : c \in O <=> c \in Knows(cmd, O)
    BY <1>1 DEF Knows
  <2> QED BY <2>1, <2>2 DEF Leads
<1>2. CASE T # {}
  <2>1. /\ Command(op, T) = << cmd >> /\ DOMAIN << cmd >> = {1} /\ << cmd >>[1] = cmd
    BY <1>2 DEF Command
  <2>2. \A c \in Coord : /\ Mentions(cmd, c) => (cmd.op = "Subscribe" <=> c \in Knows(cmd, O))
                         /\ ~Mentions(cmd, c) => (c \in O <=> c \in Knows(cmd, O))
    BY DEF Mentions, Knows
  <2>3. Leads(<< cmd >>, O, Knows(cmd, O))
    <3> HIDE DEF cmd
    <3> QED BY <2>1, <2>2 DEF Leads
  <2> QED BY <2>1, <2>3
<1> QED BY <1>1, <1>2

LEMMA LeadsSubscribe ==
  ASSUME NEW O, NEW T \in SUBSET Coord PROVE Leads(Command("Subscribe", T), O, O \cup T)
<1>1. Leads(Command("Subscribe", T), O, Knows([op |-> "Subscribe", coords |-> T], O))
  BY LeadsCommand
<1> QED BY <1>1 DEF Knows

LEMMA LeadsUnsubscribe ==
  ASSUME NEW O, NEW T \in SUBSET Coord PROVE Leads(Command("Unsubscribe", T), O, O \ T)
<1>1. Leads(Command("Unsubscribe", T), O, Knows([op |-> "Unsubscribe", coords |-> T], O))
  BY LeadsCommand
<1> QED BY <1>1 DEF Knows

LEMMA LeadsTail ==
  ASSUME NEW q \in Seq(SimCmd), q # << >>, NEW S, NEW O, Leads(q, S, O)
  PROVE  Leads(Tail(q), Knows(Head(q), S), O)
<1> DEFINE n == Len(q)
<1>1. /\ n \in Nat /\ n > 0
      /\ DOMAIN q = 1..n /\ DOMAIN Tail(q) = 1..(n - 1)
      /\ Head(q) = q[1]
      /\ \A i \in 1..(n - 1) : Tail(q)[i] = q[i + 1]
  BY LenProperties, HeadTailProperties, EmptySeq
<1> SUFFICES ASSUME NEW c \in Coord
             PROVE  /\ (\A i \in 1..(n - 1) : ~Mentions(Tail(q)[i], c))
                         => (c \in Knows(Head(q), S) <=> c \in O)
                    /\ \A i \in 1..(n - 1) :
                         /\ Mentions(Tail(q)[i], c)
                         /\ \A j \in 1..(n - 1) : j > i => ~Mentions(Tail(q)[j], c)
                         => (Tail(q)[i].op = "Subscribe" <=> c \in O)
  BY <1>1 DEF Leads
<1>2. /\ (\A i \in 1..n : ~Mentions(q[i], c)) => (c \in S <=> c \in O)
      /\ \A i \in 1..n :
           Mentions(q[i], c) /\ (\A j \in 1..n : j > i => ~Mentions(q[j], c))
             => (q[i].op = "Subscribe" <=> c \in O)
  BY <1>1 DEF Leads
<1>3. ASSUME \A i \in 1..(n - 1) : ~Mentions(Tail(q)[i], c)
      PROVE  c \in Knows(Head(q), S) <=> c \in O
  <2>1. \A j \in 1..n : j > 1 => j - 1 \in 1..(n - 1) /\ Tail(q)[j - 1] = q[j]
    BY <1>1
  <2>2. \A j \in 1..n : j > 1 => ~Mentions(q[j], c)
    BY <1>3, <2>1
  <2>3. 1 \in 1..n /\ \A j \in 1..n : j = 1 \/ j > 1
    BY <1>1
  <2>4. CASE Mentions(q[1], c)
    <3>1. q[1].op = "Subscribe" <=> c \in O
      BY <2>2, <2>3, <2>4, <1>2
    <3>2. q[1].op = "Subscribe" <=> c \in Knows(q[1], S)
      BY <2>4 DEF Mentions, Knows
    <3> QED BY <3>1, <3>2, <1>1
  <2>5. CASE ~Mentions(q[1], c)
    <3>1. c \in S <=> c \in O
      BY <2>2, <2>3, <2>5, <1>2
    <3>2. c \in S <=> c \in Knows(q[1], S)
      BY <2>5 DEF Mentions, Knows
    <3> QED BY <3>1, <3>2, <1>1
  <2> QED BY <2>4, <2>5
<1>4. ASSUME NEW i \in 1..(n - 1), Mentions(Tail(q)[i], c),
             \A j \in 1..(n - 1) : j > i => ~Mentions(Tail(q)[j], c)
      PROVE  Tail(q)[i].op = "Subscribe" <=> c \in O
  <2>1. i + 1 \in 1..n /\ Tail(q)[i] = q[i + 1]
    BY <1>1
  <2>2. \A j \in 1..n : j > i + 1 => j - 1 \in 1..(n - 1) /\ j - 1 > i /\ Tail(q)[j - 1] = q[j]
    BY <1>1
  <2>3. \A j \in 1..n : j > i + 1 => ~Mentions(q[j], c)
    BY <2>2, <1>4
  <2> QED BY <2>1, <2>3, <1>2, <1>4
<1> QED BY <1>3, <1>4

\* A hub that is ready appends commands that lead from what was observed to
\* what is observed now.
LEMMA LeadsAppended ==
  ASSUME TypeOK, SimLearnsSubscriptions, HubReady, sim_cmd' = sim_cmd,
         sim_subscribed' = sim_subscribed, hub_sending' \in Seq(SimCmd),
         Leads(hub_sending', Observed, Observed')
  PROVE  SimLearnsSubscriptions'
<1>1. sim_cmd \o << >> = sim_cmd /\ sim_cmd \in Seq(SimCmd)
  BY ConcatEmptySeq DEF TypeOK
<1>2. Leads(sim_cmd, sim_subscribed, Observed)
  BY <1>1 DEF SimLearnsSubscriptions, InFlight, HubReady
<1>3. Leads(sim_cmd \o hub_sending', sim_subscribed, Observed')
  BY <1>1, <1>2, LeadsConcat
<1> QED BY <1>3 DEF SimLearnsSubscriptions, InFlight

LEMMA LeadsDropped ==
  ASSUME TypeOK, NEW subscribed, NEW subs \in [Coord -> SUBSET Peer], NEW D,
         NEW cmds \in Seq(SimCmd), NEW O, DropAndFlush(subscribed, subs, D, cmds),
         Leads(cmds, O, {c \in Coord : subs[c] # {}})
  PROVE  Leads(hub_sending', O, Observed')
<1> DEFINE O1 == {c \in Coord : subs[c] # {}}
           gone == Orphaned(subs, D)
<1>1. gone \in SUBSET Coord
  BY DEF Orphaned
<1>2. Leads(Command("Unsubscribe", gone), O1, O1 \ gone)
  BY <1>1, LeadsUnsubscribe
<1>3. Command("Unsubscribe", gone) \in Seq(SimCmd)
  BY <1>1, CommandType
<1>4. Observed' = O1 \ gone
  BY DEF Observed, Orphaned, DropAndFlush
<1>5. hub_sending' = cmds \o Command("Unsubscribe", gone)
  BY DEF DropAndFlush
<1>6. Leads(cmds, O, O1)
  OBVIOUS
<1> HIDE DEF O1, gone
<1> QED BY <1>2, <1>3, <1>4, <1>5, <1>6, LeadsConcat

LEMMA LeadsNothing == ASSUME NEW O PROVE Leads(<< >>, O, O)
<1>1. DOMAIN << >> = {}
  OBVIOUS
<1> QED BY <1>1 DEF Leads

LEMMA ClientStepLearns ==
  TypeOK /\ SimLearnsSubscriptions /\ ClientRequest => SimLearnsSubscriptions'
<1> SUFFICES ASSUME TypeOK, SimLearnsSubscriptions, HubClientStep, UNCHANGED sim_vars
             PROVE  SimLearnsSubscriptions'
  BY DEF ClientRequest
<1>0. sim_subscribed' = sim_subscribed /\ hub_sending' \in Seq(SimCmd)
  <2>1. TypeOK'
    BY ClientStepType DEF ClientRequest
  <2> QED BY <2>1 DEF sim_vars, TypeOK
<1>1. PICK p \in Peer : \/ Join(p)
                        \/ Leave(p)
                        \/ \E coords \in SUBSET Coord :
                             \/ Subscribe(p, coords)
                             \/ SubscribeOverflow(p, coords)
                             \/ Unsubscribe(p, coords)
                             \/ Edit(p, coords)
  BY DEF HubClientStep
<1>2. CASE Join(p)
  BY <1>0, <1>2 DEF Join, channel_vars, SimLearnsSubscriptions, InFlight, Observed
<1>3. CASE Leave(p)
  <2>1. Leads(<< >>, Observed, {c \in Coord : chunk_subs[c] # {}})
    BY LeadsNothing DEF Observed
  <2>2. Leads(hub_sending', Observed, Observed')
    BY <1>3, <2>1, LeadsDropped, EmptyTypes DEF Leave, TypeOK
  <2> QED BY <1>0, <1>3, <2>2, LeadsAppended DEF Leave
<1>4. ASSUME NEW coords \in SUBSET Coord, Subscribe(p, coords) PROVE SimLearnsSubscriptions'
  <2> DEFINE new   == coords \ peer_subscribed[p]
             fresh == new \ Observed
             after == WithInterest(p, new)
             O1    == {c \in Coord : after.subs[c] # {}}
  <2>1. PICK D : DropAndFlush(after.subscribed, after.subs, D, Command("Subscribe", fresh))
    BY <1>4 DEF Subscribe
  <2>2. after.subs \in [Coord -> SUBSET Peer]
    BY WithInterestType
  <2>3. Command("Subscribe", fresh) \in Seq(SimCmd)
    BY CommandType
  <2>4. O1 = Observed \cup fresh
    BY DEF WithInterest, Observed
  <2>5. Leads(Command("Subscribe", fresh), Observed, O1)
    <3>1. fresh \in SUBSET Coord
      OBVIOUS
    <3> HIDE DEF fresh, O1
    <3> QED BY <3>1, <2>4, LeadsSubscribe
  <2>6. Leads(hub_sending', Observed, Observed')
    <3> HIDE DEF after, fresh
    <3> QED BY <2>1, <2>2, <2>3, <2>5, LeadsDropped
  <2> QED BY <1>0, <1>4, <2>6, LeadsAppended DEF Subscribe
<1>5. ASSUME NEW coords \in SUBSET Coord, SubscribeOverflow(p, coords)
      PROVE  SimLearnsSubscriptions'
  <2>1. PICK I \in SUBSET (coords \ peer_subscribed[p]) :
          DropAndFlush(WithInterest(p, I).subscribed, WithInterest(p, I).subs, {p}, << >>)
    BY <1>5 DEF SubscribeOverflow
  <2> DEFINE gone == Orphaned(WithInterest(p, I).subs, {p})
  <2>2. hub_sending' = Command("Unsubscribe", gone)
    <3>1. gone \in SUBSET Coord
      BY DEF Orphaned
    <3> HIDE DEF gone
    <3>2. Command("Unsubscribe", gone) \in Seq(SimCmd)
      BY <3>1, CommandType
    <3>3. << >> \o Command("Unsubscribe", gone) = Command("Unsubscribe", gone)
      BY <3>2, ConcatEmptySeq
    <3> QED BY <2>1, <3>3 DEF DropAndFlush, gone
  <2>3. Observed' = Observed \ gone
    BY <2>1 DEF DropAndFlush, WithInterest, Observed, Orphaned
  <2>4. Leads(hub_sending', Observed, Observed')
    <3>1. gone \in SUBSET Coord
      BY DEF Orphaned
    <3> HIDE DEF gone
    <3> QED BY <2>2, <2>3, <3>1, LeadsUnsubscribe
  <2> QED BY <1>0, <1>5, <2>4, LeadsAppended DEF SubscribeOverflow
<1>6. ASSUME NEW coords \in SUBSET Coord, Unsubscribe(p, coords) PROVE SimLearnsSubscriptions'
  <2> DEFINE gone == coords \cap peer_subscribed[p]
             last == {c \in gone : chunk_subs[c] = {p}}
  <2>1. hub_sending' = Command("Unsubscribe", last)
    BY <1>6 DEF Unsubscribe
  <2>2. Observed' = Observed \ last
    BY <1>6 DEF Unsubscribe, Observed, TypeOK
  <2>3. Leads(hub_sending', Observed, Observed')
    BY <2>1, <2>2, LeadsUnsubscribe
  <2> QED BY <1>0, <1>6, <2>3, LeadsAppended DEF Unsubscribe
<1>7. ASSUME NEW coords \in SUBSET Coord, Edit(p, coords) PROVE SimLearnsSubscriptions'
  <2>1. Observed' = Observed
    BY <1>7 DEF Edit, hub_vars, Observed
  <2>2. Leads(hub_sending', Observed, Observed')
    BY <1>7, <2>1, LeadsCommand DEF Edit, Knows
  <2> QED BY <1>0, <1>7, <2>2, LeadsAppended DEF Edit
<1> QED BY <1>1, <1>2, <1>3, <1>4, <1>5, <1>6, <1>7

LEMMA HubEventLearns ==
  TypeOK /\ SimLearnsSubscriptions /\ HubEvent => SimLearnsSubscriptions'
<1> SUFFICES ASSUME TypeOK, SimLearnsSubscriptions, HandleSimEvent, UNCHANGED sim_vars
             PROVE  SimLearnsSubscriptions'
  BY DEF HubEvent
<1>1. PICK D, R :
        /\ R \in SUBSET (Coord \ Frozen)
        /\ DropAndFlush(peer_subscribed, chunk_subs, D, Command("Reap", R))
  BY HubEventEffect
<1>2. Command("Reap", R) \in Seq(SimCmd)
  BY <1>1, CommandType
<1>3. Leads(Command("Reap", R), Observed, {c \in Coord : chunk_subs[c] # {}})
  <2>1. Leads(Command("Reap", R), Observed, Knows([op |-> "Reap", coords |-> R], Observed))
    BY <1>1, LeadsCommand
  <2> QED BY <2>1 DEF Knows, Observed
<1>4. Leads(hub_sending', Observed, Observed')
  BY <1>1, <1>2, <1>3, LeadsDropped DEF TypeOK
<1>5. hub_sending' \in Seq(SimCmd)
  BY HubEventType DEF HubEvent, TypeOK
<1> QED BY <1>4, <1>5, LeadsAppended DEF HandleSimEvent, sim_vars

\* A delivered message moves from one half of what is under way to the other.
LEMMA DeliveryKeepsFlight ==
  ASSUME NEW M, NEW a \in Seq(M), NEW b \in Seq(M), b # << >>
  PROVE  Append(a, Head(b)) \o Tail(b) = a \o b
<1>1. /\ Len(a) \in Nat /\ Len(b) \in Nat /\ Len(b) > 0
      /\ Head(b) \in M /\ Tail(b) \in Seq(M) /\ Len(Tail(b)) = Len(b) - 1
      /\ Head(b) = b[1] /\ \A i \in 1..(Len(b) - 1) : Tail(b)[i] = b[i + 1]
  BY HeadTailProperties, LenProperties, EmptySeq
<1>2. /\ Append(a, Head(b)) \in Seq(M) /\ Len(Append(a, Head(b))) = Len(a) + 1
      /\ \A i \in 1..(Len(a) + 1) : Append(a, Head(b))[i] = IF i <= Len(a) THEN a[i] ELSE b[1]
  BY <1>1, AppendProperties
<1> DEFINE l == Append(a, Head(b)) \o Tail(b)
           r == a \o b
<1>3. /\ l \in Seq(M) /\ Len(l) = Len(a) + Len(b)
      /\ r \in Seq(M) /\ Len(r) = Len(a) + Len(b)
  BY <1>1, <1>2, ConcatProperties
<1>4. ASSUME NEW i \in 1..(Len(a) + Len(b)) PROVE l[i] = r[i]
  <2>1. r[i] = IF i <= Len(a) THEN a[i] ELSE b[i - Len(a)]
    BY <1>1, ConcatProperties
  <2>2. l[i] = IF i <= Len(a) + 1 THEN Append(a, Head(b))[i] ELSE Tail(b)[i - (Len(a) + 1)]
    BY <1>1, <1>2, ConcatProperties
  <2>3. CASE i <= Len(a) + 1
    BY <2>1, <2>2, <2>3, <1>1, <1>2
  <2>4. CASE i > Len(a) + 1
    <3>1. i - (Len(a) + 1) \in 1..(Len(b) - 1) /\ (i - (Len(a) + 1)) + 1 = i - Len(a)
      BY <2>4, <1>1
    <3> QED BY <2>1, <2>2, <2>4, <3>1, <1>1
  <2> QED BY <2>3, <2>4, <1>1
<1> QED BY <1>3, <1>4, SeqEqual

\* Taking the first message of one half takes the first of what is under way.
LEMMA TakingFirst ==
  ASSUME NEW M, NEW a \in Seq(M), NEW b \in Seq(M), a # << >>
  PROVE  /\ a \o b \in Seq(M) /\ a \o b # << >>
         /\ Head(a \o b) = Head(a) /\ Tail(a) \o b = Tail(a \o b)
<1>1. /\ Len(a) \in Nat /\ Len(b) \in Nat /\ Len(a) > 0
      /\ Head(a) = a[1] /\ Tail(a) \in Seq(M) /\ Len(Tail(a)) = Len(a) - 1
      /\ \A i \in 1..(Len(a) - 1) : Tail(a)[i] = a[i + 1]
  BY HeadTailProperties, LenProperties, EmptySeq
<1>2. /\ a \o b \in Seq(M) /\ Len(a \o b) = Len(a) + Len(b)
      /\ \A i \in 1..(Len(a) + Len(b)) : (a \o b)[i] = IF i <= Len(a) THEN a[i] ELSE b[i - Len(a)]
  BY ConcatProperties
<1>3. a \o b # << >> /\ Head(a \o b) = a[1]
  BY <1>1, <1>2, EmptySeq
<1>4. /\ Tail(a \o b) \in Seq(M) /\ Len(Tail(a \o b)) = Len(a) + Len(b) - 1
      /\ \A i \in 1..(Len(a) + Len(b) - 1) : Tail(a \o b)[i] = (a \o b)[i + 1]
  BY <1>1, <1>2, <1>3, HeadTailProperties
<1>5. /\ Tail(a) \o b \in Seq(M) /\ Len(Tail(a) \o b) = Len(a) + Len(b) - 1
      /\ \A i \in 1..(Len(a) + Len(b) - 1) :
           (Tail(a) \o b)[i] = IF i <= Len(a) - 1 THEN Tail(a)[i] ELSE b[i - (Len(a) - 1)]
  BY <1>1, ConcatProperties
<1>6. ASSUME NEW i \in 1..(Len(a) + Len(b) - 1) PROVE (Tail(a) \o b)[i] = Tail(a \o b)[i]
  <2>1. i + 1 \in 1..(Len(a) + Len(b)) /\ (i + 1) - Len(a) = i - (Len(a) - 1)
    BY <1>1
  <2>2. Tail(a \o b)[i] = IF i + 1 <= Len(a) THEN a[i + 1] ELSE b[i - (Len(a) - 1)]
    BY <2>1, <1>2, <1>4
  <2> QED BY <2>2, <1>1, <1>5
<1>7. Tail(a) \o b = Tail(a \o b)
  BY <1>4, <1>5, <1>6, SeqEqual
<1> QED BY <1>1, <1>2, <1>3, <1>7

\* The sim takes the oldest command in flight.
LEMMA TakingHead ==
  ASSUME TypeOK, NEW op, Taking(op)
  PROVE  /\ InFlight \in Seq(SimCmd) /\ InFlight # << >>
         /\ Head(InFlight) = Head(sim_cmd) /\ InFlight' = Tail(InFlight)
<1>1. /\ sim_cmd \in Seq(SimCmd) /\ hub_sending \in Seq(SimCmd) /\ sim_cmd # << >>
      /\ sim_cmd' = Tail(sim_cmd) /\ hub_sending' = hub_sending
  BY DEF TypeOK, Taking
<1> QED BY <1>1, TakingFirst DEF InFlight

LEMMA SimCommandLearns ==
  TypeOK /\ SimLearnsSubscriptions /\ SimCommand => SimLearnsSubscriptions'
<1> SUFFICES ASSUME TypeOK, SimLearnsSubscriptions, SimCommandStep, UNCHANGED hub_vars
             PROVE  SimLearnsSubscriptions'
  BY DEF SimCommand
<1>1. PICK op \in {"Edit", "Reap", "Subscribe", "Unsubscribe"} : Taking(op)
  BY DEF SimCommandStep, SimEdit, SimReap, SimSubscribe, SimUnsubscribe
<1>2. /\ InFlight \in Seq(SimCmd) /\ InFlight # << >>
      /\ Head(InFlight) = Head(sim_cmd) /\ InFlight' = Tail(InFlight)
  BY <1>1, TakingHead
<1>3. Leads(InFlight, sim_subscribed, Observed)
  BY DEF SimLearnsSubscriptions
<1>4. sim_subscribed' = Knows(Head(sim_cmd), sim_subscribed)
  BY DEF SimCommandStep, SimEdit, SimReap, SimSubscribe, SimUnsubscribe, Taking, Knows
<1>5. Leads(Tail(InFlight), sim_subscribed', Observed)
  <2> HIDE DEF InFlight
  <2> QED BY <1>2, <1>3, <1>4, LeadsTail
<1>6. Observed' = Observed
  BY DEF hub_vars, Observed
<1> QED BY <1>2, <1>5, <1>6 DEF SimLearnsSubscriptions

\* The sim's subscribed set always arrives where the hub's subscriptions are.
THEOREM SimLearns == Spec => []SimLearnsSubscriptions
<1>1. Init => SimLearnsSubscriptions
  <2> SUFFICES ASSUME Init PROVE Leads(InFlight, sim_subscribed, Observed)
    BY DEF SimLearnsSubscriptions
  <2>1. InFlight = << >> /\ sim_subscribed = {} /\ Observed = {}
    BY EmptyTypes, ConcatEmptySeq DEF Init, HubInit, SimInit, InFlight, Observed
  <2> QED BY <2>1, LeadsNothing
<1>2. TypeOK /\ SimLearnsSubscriptions /\ [Next]_vars => SimLearnsSubscriptions'
  <2> SUFFICES ASSUME TypeOK, SimLearnsSubscriptions, [Next]_vars
               PROVE  SimLearnsSubscriptions'
    OBVIOUS
  <2>1. CASE HubDelivers
    <3>1. InFlight' = InFlight
      BY <2>1, DeliveryKeepsFlight DEF HubDelivers, HubSend, InFlight, TypeOK
    <3> QED BY <2>1, <3>1 DEF HubDelivers, hub_vars, sim_vars, SimLearnsSubscriptions, Observed
  <2>2. CASE Tick \/ SimDelivers \/ UNCHANGED vars
    <3>1. UNCHANGED <<sim_cmd, hub_sending, sim_subscribed, chunk_subs>>
      BY <2>2 DEF Tick, SimTick, SimDelivers, SimSend, vars, hub_vars, sim_vars, channel_vars
    <3> QED BY <3>1 DEF SimLearnsSubscriptions, InFlight, Observed
  <2> QED BY <2>1, <2>2, ClientStepLearns, HubEventLearns, SimCommandLearns
          DEF Next, ServerStep
<1> QED BY <1>1, <1>2, TypeCorrect, PTL DEF Spec

-----------------------------------------------------------------------------
(* Pausing *)

\* Waking the groups H leaves exactly the other groups' members paused.
LEMMA PausedAfter ==
  ASSUME NEW H \in SUBSET groups, \A g, h \in groups : g # h => g \cap h = {}
  PROVE  UNION (groups \ H) = Paused \ UNION H
BY DEF Paused

LEMMA CommandNeverPauses ==
  ASSUME TypeOK, SubscribedNeverPaused, SimCommandStep PROVE SubscribedNeverPaused'
<1> DEFINE coords == Head(sim_cmd).coords
<1>1. CASE SimEdit
  <2>1. Paused' = Paused \ Woken(coords)
    BY <1>1, PausedAfter DEF SimEdit, Hit, Woken, Paused, SubscribedNeverPaused
  <2>2. Paused' \cap coords = {}
    BY <1>1 DEF SimEdit, Hit, Paused
  <2>3. \A c \in Coord : c \in Paused' => stored'[c] = stored[c]
    BY <1>1, <2>1, <2>2 DEF SimEdit
  <2> QED BY <1>1, <2>1, <2>3 DEF SimEdit, SubscribedNeverPaused, Paused, TypeOK
<1>2. CASE SimReap
  <2>1. Paused' = Paused \ Woken(coords)
    BY <1>2, PausedAfter DEF SimReap, Hit, Woken, Paused, SubscribedNeverPaused
  <2>2. Paused' \cap coords = {}
    BY <1>2 DEF SimReap, Hit, Paused
  <2>3. \A c \in Coord : c \in Paused' => stored'[c] = stored[c]
    BY <1>2, <2>1, <2>2 DEF SimReap
  <2> QED BY <1>2, <2>1, <2>3 DEF SimReap, SubscribedNeverPaused, Paused, TypeOK
<1>3. CASE SimSubscribe
  <2> DEFINE fresh == coords \ sim_subscribed
  <2>1. /\ sim_subscribed' = sim_subscribed \cup coords
        /\ stored' \in WakePhases(fresh)
        /\ groups' = groups \ Hit(fresh)
    BY <1>3 DEF SimSubscribe
  <2>2. Paused' = Paused \ Woken(fresh)
    BY <2>1, PausedAfter DEF Hit, Woken, Paused, SubscribedNeverPaused
  <2>3. Paused' \cap fresh = {}
    BY <2>1 DEF Hit, Paused
  <2>4. \A c \in Coord : c \in Paused' => stored'[c] = stored[c]
    BY <2>1, <2>2 DEF WakePhases
  <2>5. Paused' \subseteq Coord
    BY <2>2 DEF Paused, TypeOK
  <2>6. \A c \in Paused' : stored'[c] # None
    BY <2>2, <2>4, <2>5 DEF SubscribedNeverPaused
  <2>7. Paused' \cap sim_subscribed' = {} /\ Paused' \cap Frozen = {}
    BY <2>1, <2>2, <2>3 DEF SubscribedNeverPaused
  <2>8. \A g, h \in groups' : g # h => g \cap h = {}
    BY <2>1 DEF SubscribedNeverPaused
  <2> QED BY <2>6, <2>7, <2>8 DEF SubscribedNeverPaused
<1>4. CASE SimUnsubscribe
  BY <1>4 DEF SimUnsubscribe, SubscribedNeverPaused, Paused
<1> QED BY <1>1, <1>2, <1>3, <1>4 DEF SimCommandStep

LEMMA TickNeverPauses ==
  ASSUME TypeOK, SubscribedNeverPaused, SimTick PROVE SubscribedNeverPaused'
<1>1. PICK P \in Promotions, W \in SUBSET groups :
        /\ groups' = (groups \ W) \cup P
        /\ \A c \in (Paused \ UNION W) \cup UNION P : stored'[c] = stored[c]
  BY DEF SimTick
<1>2. UNION (groups \ W) = Paused \ UNION W
  BY PausedAfter DEF SubscribedNeverPaused
<1>3. Paused' = (Paused \ UNION W) \cup UNION P
  BY <1>1, <1>2 DEF Paused
<1>4. UNION P \subseteq Promotable /\ \A g, h \in P : g # h => g \cap h = {}
  BY DEF Promotions
<1>5. \A g \in P, h \in groups : g \cap h = {}
  BY <1>4 DEF Promotable, Paused
<1>6. \A g, h \in groups' : g # h => g \cap h = {}
  BY <1>1, <1>4, <1>5 DEF SubscribedNeverPaused
<1>7. \A c \in Paused' : stored'[c] # None
  BY <1>1, <1>3, <1>4 DEF SubscribedNeverPaused, Promotable
<1>8. Paused' \cap sim_subscribed = {} /\ Paused' \cap Frozen = {}
  BY <1>3, <1>4 DEF SubscribedNeverPaused, Promotable
<1> QED BY <1>6, <1>7, <1>8 DEF SimTick, SubscribedNeverPaused

\* Whatever is promoted in whatever groups, no observed or frozen chunk is
\* paused and the paused groups stay disjoint.
THEOREM NeverPaused == Spec => []SubscribedNeverPaused
<1>1. Init => SubscribedNeverPaused
  BY DEF Init, SimInit, SubscribedNeverPaused, Paused
<1>2. TypeOK /\ SubscribedNeverPaused /\ [Next]_vars => SubscribedNeverPaused'
  <2> SUFFICES ASSUME TypeOK, SubscribedNeverPaused, [Next]_vars
               PROVE  SubscribedNeverPaused'
    OBVIOUS
  <2>1. CASE ClientRequest \/ HubEvent \/ HubDelivers \/ SimDelivers \/ UNCHANGED vars
    <3>1. UNCHANGED sim_vars
      BY <2>1 DEF ClientRequest, HubEvent, HubDelivers, SimDelivers, vars
    <3> QED BY <3>1 DEF sim_vars, SubscribedNeverPaused, Paused
  <2> QED BY <2>1, CommandNeverPauses, TickNeverPauses
          DEF Next, ServerStep, SimCommand, Tick
<1> QED BY <1>1, <1>2, TypeCorrect, PTL DEF Spec

-----------------------------------------------------------------------------
(* Frozen chunks *)

\* Commands that do not ask the sim to remove a chunk of F.
Sparing(F) == {cmd \in SimCmd : cmd.op = "Reap" => cmd.coords \cap F = {}}

ReapsSpare(F) == sim_cmd \in Seq(Sparing(F)) /\ hub_sending \in Seq(Sparing(F))

LEMMA CommandSafe ==
  ASSUME NEW F, NEW op \in {"Edit", "Reap", "Subscribe", "Unsubscribe"}, NEW S \in SUBSET Coord,
         op = "Reap" => S \cap F = {}
  PROVE  Command(op, S) \in Seq(Sparing(F))
<1>1. [op |-> op, coords |-> S] \in Sparing(F)
  BY DEF Sparing, SimCmd
<1>2. << [op |-> op, coords |-> S] >> \in Seq(Sparing(F))
  BY <1>1, SingletonSeq
<1> QED BY <1>2 DEF Command

LEMMA EmptySafe == ASSUME NEW F PROVE << >> \in Seq(Sparing(F))
OBVIOUS

LEMMA DropSafe ==
  ASSUME NEW F, NEW subscribed, NEW subs, NEW D, NEW cmds \in Seq(Sparing(F)),
         DropAndFlush(subscribed, subs, D, cmds)
  PROVE  hub_sending' \in Seq(Sparing(F))
<1>1. Orphaned(subs, D) \in SUBSET Coord
  BY DEF Orphaned
<1>2. Command("Unsubscribe", Orphaned(subs, D)) \in Seq(Sparing(F))
  BY <1>1, CommandSafe
<1> QED BY <1>2, ConcatProperties DEF DropAndFlush

LEMMA ClientStepSafe ==
  ASSUME NEW F, TypeOK, ReapsSpare(F), ClientRequest PROVE ReapsSpare(F)'
<1>0. HubClientStep
  BY DEF ClientRequest
<1>1. PICK p \in Peer : \/ Join(p)
                        \/ Leave(p)
                        \/ \E coords \in SUBSET Coord :
                             \/ Subscribe(p, coords)
                             \/ SubscribeOverflow(p, coords)
                             \/ Unsubscribe(p, coords)
                             \/ Edit(p, coords)
  BY <1>0 DEF HubClientStep
<1>2. CASE Join(p)
  BY <1>2 DEF Join, channel_vars, ReapsSpare
<1>3. CASE Leave(p)
  BY <1>3, EmptySafe, DropSafe DEF Leave, ReapsSpare
<1>4. ASSUME NEW coords \in SUBSET Coord, Subscribe(p, coords) PROVE ReapsSpare(F)'
  <2> DEFINE fresh == (coords \ peer_subscribed[p]) \ Observed
  <2>1. PICK D : DropAndFlush(WithInterest(p, coords \ peer_subscribed[p]).subscribed,
                              WithInterest(p, coords \ peer_subscribed[p]).subs,
                              D, Command("Subscribe", fresh))
    BY <1>4 DEF Subscribe
  <2>2. Command("Subscribe", fresh) \in Seq(Sparing(F))
    BY CommandSafe
  <2>3. hub_sending' \in Seq(Sparing(F))
    BY <2>1, <2>2, DropSafe
  <2> QED BY <1>4, <2>3 DEF Subscribe, ReapsSpare
<1>5. ASSUME NEW coords \in SUBSET Coord, SubscribeOverflow(p, coords) PROVE ReapsSpare(F)'
  <2>1. PICK I \in SUBSET (coords \ peer_subscribed[p]) :
          DropAndFlush(WithInterest(p, I).subscribed, WithInterest(p, I).subs, {p}, << >>)
    BY <1>5 DEF SubscribeOverflow
  <2>2. hub_sending' \in Seq(Sparing(F))
    BY <2>1, EmptySafe, DropSafe
  <2> QED BY <1>5, <2>2 DEF SubscribeOverflow, ReapsSpare
<1>6. ASSUME NEW coords \in SUBSET Coord, Unsubscribe(p, coords) PROVE ReapsSpare(F)'
  BY <1>6, CommandSafe DEF Unsubscribe, ReapsSpare
<1>7. ASSUME NEW coords \in SUBSET Coord, Edit(p, coords) PROVE ReapsSpare(F)'
  BY <1>7, CommandSafe DEF Edit, ReapsSpare
<1> QED BY <1>1, <1>2, <1>3, <1>4, <1>5, <1>6, <1>7

LEMMA NextSafe ==
  ASSUME NEW F, F \subseteq Frozen \/ Cardinality(Coord) <= MaxLive,
         TypeOK, ReapsSpare(F), [Next]_vars
  PROVE  ReapsSpare(F)'
<1>1. CASE ClientRequest
  BY <1>1, ClientStepSafe
<1>2. CASE HubEvent
  <2>1. HandleSimEvent
    BY <1>2 DEF HubEvent
  <2>2. PICK D, R :
          /\ R \in SUBSET (Coord \ Frozen)
          /\ Cardinality(Coord) <= MaxLive => R = {}
          /\ DropAndFlush(peer_subscribed, chunk_subs, D, Command("Reap", R))
    BY <2>1, HubEventEffect
  <2>3. Command("Reap", R) \in Seq(Sparing(F))
    BY <2>2, CommandSafe
  <2>4. hub_sending' \in Seq(Sparing(F))
    BY <2>2, <2>3, DropSafe
  <2> QED BY <2>1, <2>4 DEF HandleSimEvent, ReapsSpare
<1>3. CASE HubDelivers
  BY <1>3, HeadTailProperties, AppendProperties DEF HubDelivers, HubSend, ReapsSpare
<1>4. CASE SimCommand
  <2>1. sim_cmd # << >> /\ sim_cmd' = Tail(sim_cmd) /\ hub_sending' = hub_sending
    BY <1>4 DEF SimCommand, SimCommandStep, SimEdit, SimReap, SimSubscribe, SimUnsubscribe, Taking
  <2> QED BY <2>1, HeadTailProperties DEF ReapsSpare
<1>5. CASE Tick \/ SimDelivers \/ UNCHANGED vars
  BY <1>5 DEF Tick, SimTick, SimDelivers, SimSend, vars, channel_vars, ReapsSpare
<1> QED BY <1>1, <1>2, <1>3, <1>4, <1>5 DEF Next, ServerStep

\* No frozen chunk is ever removed from the world: the reaper does not pick
\* one, and none is dragged along in a paused group.
THEOREM FrozenStays == Spec => []FrozenImmortal
<1>1. Init => FrozenImmortal /\ ReapsSpare(Frozen)
  BY EmptySafe DEF Init, SimInit, FrozenImmortal, ReapsSpare
<1>2. /\ TypeOK /\ SubscribedNeverPaused /\ ReapsSpare(Frozen) /\ FrozenImmortal /\ [Next]_vars
      => FrozenImmortal'
  <2> SUFFICES ASSUME TypeOK, SubscribedNeverPaused, ReapsSpare(Frozen), FrozenImmortal, [Next]_vars
               PROVE  FrozenImmortal'
    OBVIOUS
  <2>1. CASE ClientRequest \/ HubEvent \/ HubDelivers \/ SimDelivers \/ UNCHANGED vars
    BY <2>1 DEF ClientRequest, HubEvent, HubDelivers, SimDelivers, vars, sim_vars, FrozenImmortal
  <2>2. CASE Tick
    BY <2>2 DEF Tick, SimTick, FrozenImmortal
  <2>3. CASE SimEdit \/ SimSubscribe \/ SimUnsubscribe
    <3>1. \A c \in Coord : stored'[c] = stored[c] \/ stored'[c] # None
      BY <2>3 DEF SimEdit, SimSubscribe, WakePhases, SimUnsubscribe
    <3> QED BY <3>1, FrozenAssumption DEF FrozenImmortal
  <2>4. CASE SimReap
    <3>1. /\ sim_cmd # << >> /\ Head(sim_cmd).op = "Reap"
          /\ \A c \in Coord : c \notin Head(sim_cmd).coords \cup Woken(Head(sim_cmd).coords)
                             => stored'[c] = stored[c]
      BY <2>4 DEF SimReap, Taking
    <3>2. Head(sim_cmd).coords \cap Frozen = {}
      BY <3>1, HeadTailProperties DEF ReapsSpare, Sparing
    <3>3. Woken(Head(sim_cmd).coords) \cap Frozen = {}
      BY DEF SubscribedNeverPaused, Woken, Hit, Paused
    <3> QED BY <3>1, <3>2, <3>3, FrozenAssumption DEF FrozenImmortal
  <2> QED BY <2>1, <2>2, <2>3, <2>4 DEF Next, ServerStep, SimCommand, SimCommandStep
<1>3. TypeOK /\ ReapsSpare(Frozen) /\ [Next]_vars => ReapsSpare(Frozen)'
  BY NextSafe
<1> QED BY <1>1, <1>2, <1>3, TypeCorrect, NeverPaused, PTL DEF Spec

-----------------------------------------------------------------------------
(* The mirror *)

\* Nothing about c happens.
LEMMA EndsKept ==
  ASSUME NEW c \in Coord, MirrorEnds(c), UNCHANGED <<Reported, mirror[c], stored[c]>>
  PROVE  MirrorEnds(c)'
BY DEF MirrorEnds

\* The sim reports an event, which says of c what is so or, if c stays as it
\* was, nothing.
LEMMA EndsReported ==
  ASSUME TypeOK, NEW c \in Coord, NEW ev \in SimEvent, SimReady, sim_event' = sim_event,
         sim_sending' = << ev >>, mirror' = mirror,
         IF Touches(ev, c) THEN ev.changed[c] = stored'[c]
         ELSE stored'[c] = stored[c] /\ MirrorEnds(c)
  PROVE  MirrorEnds(c)'
<1> DEFINE q == sim_event
           n == Len(q)
           r == q \o << ev >>
<1>1. /\ q \in Seq(SimEvent) /\ << ev >> \in Seq(SimEvent)
      /\ Reported = q /\ Reported' = r
  BY SingletonSeq, ConcatEmptySeq DEF TypeOK, SimReady, Reported
<1>2. /\ n \in Nat /\ DOMAIN q = 1..n /\ DOMAIN r = 1..(n + 1)
      /\ r[n + 1] = ev /\ \A i \in 1..n : r[i] = q[i]
  BY <1>1, ConcatProperties, LenProperties
<1>3. mirror'[c] = mirror[c]
  OBVIOUS
<1>4. CASE Touches(ev, c)
  <2>1. ~ \A i \in 1..(n + 1) : ~Touches(r[i], c)
    BY <1>2, <1>4
  <2>2. ASSUME NEW i \in 1..(n + 1), \A j \in 1..(n + 1) : j > i => ~Touches(r[j], c)
        PROVE  i = n + 1
    BY <1>2, <1>4, <2>2
  <2> HIDE DEF q, n, r
  <2> QED BY <1>1, <1>2, <1>4, <2>1, <2>2 DEF MirrorEnds
<1>5. CASE ~Touches(ev, c)
  <2>1. (\A i \in 1..(n + 1) : ~Touches(r[i], c)) <=> (\A i \in 1..n : ~Touches(q[i], c))
    BY <1>2, <1>5
  <2>2. ASSUME NEW i \in 1..(n + 1), Touches(r[i], c),
               \A j \in 1..(n + 1) : j > i => ~Touches(r[j], c)
        PROVE  i \in 1..n /\ r[i] = q[i] /\ \A j \in 1..n : j > i => ~Touches(q[j], c)
    BY <1>2, <1>5, <2>2
  <2> HIDE DEF q, n, r
  <2>3. /\ (\A i \in 1..n : ~Touches(q[i], c)) => mirror[c] = stored[c]
        /\ \A i \in 1..n :
             Touches(q[i], c) /\ (\A j \in 1..n : j > i => ~Touches(q[j], c))
               => q[i].changed[c] = stored[c]
    BY <1>1, <1>2, <1>5 DEF MirrorEnds
  <2> QED BY <1>1, <1>2, <1>5, <2>1, <2>2, <2>3 DEF MirrorEnds
<1> QED BY <1>4, <1>5

\* The hub takes an event, and does not evict c.
LEMMA EndsHandled ==
  ASSUME TypeOK, NEW c \in Coord, sim_event # << >>, sim_event' = Tail(sim_event),
         UNCHANGED <<sim_sending, stored>>, mirror'[c] = Mirrored(mirror, Head(sim_event))[c],
         MirrorEnds(c)
  PROVE  MirrorEnds(c)'
<1> DEFINE q == Reported
           n == Len(q)
           r == Tail(q)
<1>1. q \in Seq(SimEvent) /\ Reported' = r /\ q # << >> /\ Head(q) = Head(sim_event)
  BY TakingFirst DEF TypeOK, Reported
<1>2. /\ n \in Nat /\ n > 0 /\ DOMAIN q = 1..n /\ DOMAIN r = 1..(n - 1)
      /\ Head(q) = q[1] /\ \A i \in 1..(n - 1) : r[i] = q[i + 1]
  BY <1>1, LenProperties, HeadTailProperties, EmptySeq
<1>3. /\ (\A i \in 1..n : ~Touches(q[i], c)) => mirror[c] = stored[c]
      /\ \A i \in 1..n :
           Touches(q[i], c) /\ (\A j \in 1..n : j > i => ~Touches(q[j], c))
             => q[i].changed[c] = stored[c]
  BY <1>2 DEF MirrorEnds
<1> HIDE DEF q, n, r
<1>4. ASSUME \A i \in 1..(n - 1) : ~Touches(r[i], c) PROVE mirror'[c] = stored[c]
  <2>1. \A j \in 1..n : j > 1 => j - 1 \in 1..(n - 1) /\ r[j - 1] = q[j]
    BY <1>2
  <2>2. \A j \in 1..n : j > 1 => ~Touches(q[j], c)
    BY <1>4, <2>1
  <2>3. 1 \in 1..n /\ \A j \in 1..n : j = 1 \/ j > 1
    BY <1>2
  <2>4. CASE Touches(q[1], c)
    <3>1. q[1].changed[c] = stored[c]
      BY <1>3, <2>2, <2>3, <2>4
    <3> QED BY <1>1, <1>2, <2>4, <3>1 DEF Touches, Mirrored
  <2>5. CASE ~Touches(q[1], c)
    <3>1. mirror[c] = stored[c]
      BY <1>3, <2>2, <2>3, <2>5
    <3> QED BY <1>1, <1>2, <2>5, <3>1 DEF Touches, Mirrored
  <2> QED BY <2>4, <2>5
<1>5. ASSUME NEW i \in 1..(n - 1), Touches(r[i], c),
             \A j \in 1..(n - 1) : j > i => ~Touches(r[j], c)
      PROVE  r[i].changed[c] = stored[c]
  <2>1. i + 1 \in 1..n /\ r[i] = q[i + 1]
    BY <1>2
  <2>2. \A j \in 1..n : j > i + 1 => j - 1 \in 1..(n - 1) /\ j - 1 > i /\ r[j - 1] = q[j]
    BY <1>2
  <2>3. \A j \in 1..n : j > i + 1 => ~Touches(q[j], c)
    BY <2>2, <1>5
  <2> QED BY <2>1, <2>3, <1>3, <1>5
<1> QED BY <1>1, <1>2, <1>4, <1>5 DEF MirrorEnds

\* A tick's event says of every chunk what is so, or it stays as it was.
LEMMA TickEvent ==
  ASSUME TypeOK, SimTick
  PROVE  \E ev \in SimEvent :
           /\ sim_sending' = << ev >>
           /\ \A c \in Coord :
                IF Touches(ev, c) THEN ev.changed[c] = stored'[c] ELSE stored'[c] = stored[c]
<1> DEFINE paused(P, W) == (Paused \ UNION W) \cup UNION P
           changed(P, W) == [c \in Coord |->
                               IF c \notin paused(P, W) /\ (c \in UNION W \/ stored'[c] # stored[c])
                               THEN stored'[c] ELSE None]
           ev(P, W) == [changed |-> changed(P, W),
                        removed |-> {c \in Coord : stored[c] # None /\ stored'[c] = None},
                        edits   |-> {}, is_tick |-> TRUE, initial |-> FALSE]
<1>1. PICK P \in Promotions, W \in SUBSET groups :
        /\ stored' \in {s \in [Coord -> Chunk] : /\ \A c \in paused(P, W) : s[c] = stored[c]
                                                 /\ \A c \in Frozen : s[c] # None}
        /\ sim_sending' = << ev(P, W) >>
  BY DEF SimTick
<1>2. stored' \in [Coord -> Chunk] /\ \A c \in paused(P, W) : stored'[c] = stored[c]
  BY <1>1
<1>3. ev(P, W) \in SimEvent
  <2>1. changed(P, W) \in [Coord -> Chunk]
    BY <1>2, NoneIsChunk
  <2> QED BY <2>1 DEF SimEvent
<1>4. ASSUME NEW c \in Coord
      PROVE  IF Touches(ev(P, W), c) THEN ev(P, W).changed[c] = stored'[c] ELSE stored'[c] = stored[c]
  BY <1>2 DEF Touches
<1> HIDE DEF ev
<1> QED BY <1>1, <1>3, <1>4

\* What the sim does to c, other than reaping it, it reports: unless c is woken
\* along with the rest of its group.
LEMMA SimEnds ==
  ASSUME TypeOK, SimCommandStep \/ SimTick, UNCHANGED hub_vars, NEW c \in Coord,
         SimReap => stored'[c] = stored[c],
         stored'[c] = None \/ \A g \in groups : c \in g => g = {c},
         stored'[c] # stored[c] \/ MirrorEnds(c)
  PROVE  MirrorEnds(c)'
<1> DEFINE coords == Head(sim_cmd).coords
<1>0. mirror' = mirror
  BY DEF hub_vars
<1>1. CASE SimEdit
  <2> DEFINE ev == [changed |-> Snapshots(stored', coords), removed |-> {},
                    edits |-> coords, is_tick |-> FALSE, initial |-> FALSE]
  <2>1. Taking("Edit") /\ sim_sending' = << ev >> /\ stored' \in [Coord -> Chunk]
    BY <1>1 DEF SimEdit
  <2>2. ev \in SimEvent /\ sim_event' = sim_event /\ SimReady
    BY <2>1, TakingType, SnapshotsType DEF SimEvent, Taking
  <2>3. IF c \in coords \cup Woken(coords) THEN stored'[c] # None ELSE stored'[c] = stored[c]
    BY <1>1 DEF SimEdit
  <2>4. c \in Woken(coords) => c \in coords
    BY <2>3 DEF Woken, Hit
  <2>5. IF Touches(ev, c) THEN ev.changed[c] = stored'[c]
        ELSE stored'[c] = stored[c] /\ MirrorEnds(c)
    BY <2>1, <2>3, <2>4 DEF Touches, Snapshots
  <2> QED BY <1>0, <2>1, <2>2, <2>5, EndsReported
<1>2. CASE SimReap
  <2>1. UNCHANGED <<sim_event, sim_sending>> /\ stored'[c] = stored[c]
    BY <1>2 DEF SimReap, Taking
  <2> QED BY <1>0, <2>1, EndsKept DEF Reported
<1>3. CASE SimSubscribe
  <2> DEFINE fresh == coords \ sim_subscribed
             ev(S) == [changed |-> Snapshots(stored', S), removed |-> {},
                       edits |-> {}, is_tick |-> FALSE, initial |-> FALSE]
  <2>1. PICK reported \in SUBSET (fresh \cap Paused) :
          /\ \A g \in Hit(fresh) : Cardinality(reported \cap g) = 1
          /\ sim_sending' = IF reported = {} THEN << >> ELSE << ev(reported) >>
    BY <1>3 DEF SimSubscribe
  <2>2. stored' \in WakePhases(fresh) /\ Taking("Subscribe")
    BY <1>3 DEF SimSubscribe
  <2>3. /\ ev(reported) \in SimEvent /\ sim_event' = sim_event /\ SimReady /\ sim_sending = << >>
    BY <2>2, TakingType, SnapshotsType DEF SimEvent, Taking, WakePhases, SimReady
  <2>4. IF c \in Woken(fresh) THEN stored'[c] # None ELSE stored'[c] = stored[c]
    BY <2>2 DEF WakePhases
  <2>5. c \in reported <=> c \in Woken(fresh)
    <3>1. ASSUME c \in Woken(fresh) PROVE c \in reported
      <4>1. {c} \in Hit(fresh)
        BY <2>4, <3>1 DEF Woken, Hit
      <4>2. Cardinality(reported \cap {c}) = 1
        BY <2>1, <4>1
      <4>3. reported \cap {c} # {}
        BY <4>2, FS_EmptySet
      <4> QED BY <4>3
    <3>2. ASSUME c \in reported PROVE c \in Woken(fresh)
      BY <2>1, <3>2 DEF Woken, Hit, Paused
    <3> QED BY <3>1, <3>2
  <2>6. CASE reported = {}
    <3>1. UNCHANGED <<sim_event, sim_sending>> /\ stored'[c] = stored[c]
      BY <2>1, <2>3, <2>4, <2>5, <2>6
    <3> QED BY <1>0, <3>1, EndsKept DEF Reported
  <2>7. CASE reported # {}
    <3>1. IF Touches(ev(reported), c) THEN ev(reported).changed[c] = stored'[c]
          ELSE stored'[c] = stored[c] /\ MirrorEnds(c)
      BY <2>4, <2>5 DEF Touches, Snapshots
    <3>2. sim_sending' = << ev(reported) >>
      BY <2>1, <2>7
    <3> QED BY <1>0, <2>3, <3>1, <3>2, EndsReported
  <2> QED BY <2>6, <2>7
<1>4. CASE SimUnsubscribe
  BY <1>0, <1>4, EndsKept DEF SimUnsubscribe, Taking, Reported
<1>5. CASE SimTick
  <2>1. PICK ev \in SimEvent :
          /\ sim_sending' = << ev >>
          /\ IF Touches(ev, c) THEN ev.changed[c] = stored'[c] ELSE stored'[c] = stored[c]
    BY <1>5, TickEvent
  <2>2. sim_event' = sim_event /\ SimReady
    BY <1>5 DEF SimTick
  <2>3. Touches(ev, c) \/ MirrorEnds(c)
    BY <2>1
  <2> QED BY <1>0, <2>1, <2>2, <2>3, EndsReported
<1> QED BY <1>1, <1>2, <1>3, <1>4, <1>5 DEF SimCommandStep

\* What the hub does to c, other than evicting it, the events account for.
LEMMA HubEnds ==
  ASSUME TypeOK, ClientRequest \/ HubEvent \/ HubDelivers \/ SimDelivers \/ UNCHANGED vars,
         NEW c \in Coord, MirrorEnds(c)
  PROVE  ReapInFlight(c)' \/ MirrorEnds(c)'
<1>1. CASE ClientRequest \/ HubDelivers \/ UNCHANGED vars
  <2>1. UNCHANGED <<sim_event, sim_sending, mirror, stored>>
    BY <1>1 DEF ClientRequest, HubClientStep, Join, Leave, Subscribe, SubscribeOverflow, Unsubscribe,
                Edit, HubDelivers, HubSend, vars, channel_vars, hub_vars, sim_vars
  <2> QED BY <2>1, EndsKept DEF Reported
<1>2. CASE SimDelivers
  <2>1. UNCHANGED <<Reported, mirror, stored>>
    BY <1>2, DeliveryKeepsFlight DEF SimDelivers, SimSend, Reported, TypeOK, hub_vars, sim_vars
  <2> QED BY <2>1, EndsKept
<1>3. CASE HubEvent
  <2>1. HandleSimEvent /\ UNCHANGED <<stored, sim_sending>> /\ sim_event # << >>
        /\ sim_event' = Tail(sim_event) /\ sim_cmd' = sim_cmd
    BY <1>3 DEF HubEvent, HandleSimEvent, sim_vars
  <2>2. PICK D, R :
          /\ R \in SUBSET (Coord \ Frozen)
          /\ mirror' = [d \in Coord |-> IF d \in R THEN None
                                        ELSE Mirrored(mirror, Head(sim_event))[d]]
          /\ DropAndFlush(peer_subscribed, chunk_subs, D, Command("Reap", R))
    BY <2>1, HubEventEffect
  <2>3. CASE c \notin R
    BY <2>1, <2>2, <2>3, EndsHandled
  <2>4. CASE c \in R
    <3> DEFINE cmd == [op |-> "Reap", coords |-> R]
               gone == Command("Unsubscribe", Orphaned(chunk_subs, D))
               q == << cmd >> \o gone
    <3>1. << cmd >> \in Seq(SimCmd) /\ gone \in Seq(SimCmd) /\ sim_cmd \in Seq(SimCmd)
      <4>1. Orphaned(chunk_subs, D) \in SUBSET Coord
        BY DEF Orphaned
      <4>2. cmd \in SimCmd
        BY <2>2 DEF SimCmd
      <4> QED BY <4>1, <4>2, CommandType, SingletonSeq DEF TypeOK
    <3>2. hub_sending' = q
      BY <2>2, <2>4 DEF DropAndFlush, Command
    <3> HIDE DEF cmd, gone
    <3>3. q \in Seq(SimCmd) /\ Len(q) >= 1 /\ q[1] = cmd
      BY <3>1, ConcatProperties, LenProperties
    <3> HIDE DEF q
    <3>4. /\ Len(sim_cmd) + 1 \in DOMAIN (sim_cmd \o q)
          /\ (sim_cmd \o q)[Len(sim_cmd) + 1] = cmd
      BY <3>1, <3>3, ConcatProperties, LenProperties
    <3> QED BY <2>1, <2>4, <3>2, <3>4 DEF ReapInFlight, InFlight, cmd
  <2> QED BY <2>3, <2>4
<1> QED BY <1>1, <1>2, <1>3

\* A Reap under way stays under way until the sim takes it.
LEMMA ReapStays ==
  ASSUME TypeOK, [Next]_vars, NEW c \in Coord, ReapInFlight(c),
         ~(SimReap /\ c \in Head(sim_cmd).coords)
  PROVE  ReapInFlight(c)'
<1>0. PICK i \in DOMAIN InFlight : InFlight[i].op = "Reap" /\ c \in InFlight[i].coords
  BY DEF ReapInFlight
<1>1. CASE ClientRequest \/ HubEvent
  <2>1. (sim_cmd' = sim_cmd /\ hub_sending = << >>) \/ UNCHANGED <<sim_cmd, hub_sending>>
    BY <1>1 DEF ClientRequest, HubClientStep, Join, Leave, Subscribe, SubscribeOverflow, Unsubscribe,
                Edit, HubEvent, HandleSimEvent, HubReady, channel_vars
  <2>2. CASE sim_cmd' = sim_cmd /\ hub_sending = << >>
    <3>1. sim_cmd \in Seq(SimCmd) /\ hub_sending' \in Seq(SimCmd) /\ InFlight = sim_cmd
      BY <1>1, <2>2, ClientStepType, HubEventType, ConcatEmptySeq DEF TypeOK, InFlight
    <3>2. i \in DOMAIN (sim_cmd \o hub_sending') /\ (sim_cmd \o hub_sending')[i] = InFlight[i]
      BY <1>0, <3>1, ConcatProperties, LenProperties
    <3> QED BY <1>0, <2>2, <3>2 DEF ReapInFlight, InFlight
  <2>3. CASE UNCHANGED <<sim_cmd, hub_sending>>
    BY <2>3 DEF ReapInFlight, InFlight
  <2> QED BY <2>1, <2>2, <2>3
<1>2. CASE HubDelivers
  <2>1. InFlight' = InFlight
    BY <1>2, DeliveryKeepsFlight DEF HubDelivers, HubSend, InFlight, TypeOK
  <2> QED BY <2>1 DEF ReapInFlight
<1>3. CASE SimCommand
  <2>1. PICK op \in {"Edit", "Reap", "Subscribe", "Unsubscribe"} : Taking(op)
    BY <1>3 DEF SimCommand, SimCommandStep, SimEdit, SimReap, SimSubscribe, SimUnsubscribe
  <2>2. /\ InFlight \in Seq(SimCmd) /\ InFlight # << >>
        /\ Head(InFlight) = Head(sim_cmd) /\ InFlight' = Tail(InFlight)
    BY <2>1, TakingHead
  <2>3. SimReap \/ Head(sim_cmd).op # "Reap"
    BY <1>3 DEF SimCommand, SimCommandStep, SimEdit, SimReap, SimSubscribe, SimUnsubscribe, Taking
  <2> HIDE DEF InFlight
  <2>4. i # 1
    BY <1>0, <2>2, <2>3, HeadTailProperties
  <2>5. i - 1 \in DOMAIN Tail(InFlight) /\ Tail(InFlight)[i - 1] = InFlight[i]
    BY <1>0, <2>2, <2>4, HeadTailProperties, LenProperties, EmptySeq
  <2> QED BY <1>0, <2>2, <2>5 DEF ReapInFlight
<1>4. CASE Tick \/ SimDelivers \/ UNCHANGED vars
  <2>1. UNCHANGED <<sim_cmd, hub_sending>>
    BY <1>4 DEF Tick, SimTick, SimDelivers, SimSend, vars, channel_vars
  <2> QED BY <2>1 DEF ReapInFlight, InFlight
<1> QED BY <1>1, <1>2, <1>3, <1>4 DEF Next, ServerStep

\* The mirror is right at first: the dump of the world is under way.
LEMMA InitEnds == ASSUME Init, NEW c \in Coord PROVE MirrorEnds(c)
<1>1. /\ InitialEvent.changed[c] = stored[c] /\ InitialEvent.removed = {}
      /\ mirror[c] = None
  BY DEF Init, HubInit, InitialEvent
<1>2. Reported = << InitialEvent >>
  <2>1. stored \in [Coord -> Chunk]
    BY DEF Init, SimInit
  <2>2. InitialEvent \in SimEvent
    BY <2>1 DEF InitialEvent, SimEvent
  <2> HIDE DEF InitialEvent
  <2>3. << InitialEvent >> \in Seq(SimEvent)
    BY <2>2, SingletonSeq
  <2> QED BY <2>3, ConcatEmptySeq DEF Init, Reported
<1> HIDE DEF InitialEvent
<1> QED BY <1>1, <1>2 DEF MirrorEnds, Touches

-----------------------------------------------------------------------------
\* Without groups every chunk of the world is mirrored as it is, once the
\* events under way are handled, or a Reap of it is on its way to the sim.
THEOREM LiveMirrored == ASSUME MaxGroup <= 1 PROVE Spec => []LiveChunksMirrored
<1> DEFINE Alone == \A g \in groups : \A c \in g : g = {c}
<1>1. Init => Alone /\ LiveChunksMirrored
  BY InitEnds DEF Init, SimInit, LiveChunksMirrored
<1>2. ASSUME Alone, [Next]_vars PROVE Alone'
  <2>1. groups' \subseteq groups \/ SimTick
    BY <1>2 DEF Next, ServerStep, ClientRequest, HubEvent, HubDelivers, SimDelivers, SimCommand, Tick,
                SimCommandStep, SimEdit, SimReap, SimSubscribe, SimUnsubscribe, sim_vars, vars
  <2>2. ASSUME SimTick PROVE Alone'
    <3>1. PICK P \in Promotions, W \in SUBSET groups : groups' = (groups \ W) \cup P
      BY <2>2 DEF SimTick
    <3>2. ASSUME NEW g \in P, NEW c \in g PROVE g = {c}
      <4>1. Cardinality(g) = 1
        BY SimAssumption DEF Promotions
      <4>2. IsFiniteSet(g)
        BY CoordAssumption, FS_Subset DEF Promotions, Promotable
      <4> QED BY <4>1, <4>2, FS_Singleton
    <3> QED BY <1>2, <3>1, <3>2
  <2> QED BY <1>2, <2>1, <2>2
<1>3. ASSUME TypeOK, Alone, LiveChunksMirrored, [Next]_vars PROVE LiveChunksMirrored'
  <2> SUFFICES ASSUME NEW c \in Coord, stored'[c] # None
               PROVE  ReapInFlight(c)' \/ MirrorEnds(c)'
    BY DEF LiveChunksMirrored
  <2>1. SimReap => stored'[c] = stored[c] /\ c \notin Head(sim_cmd).coords
    BY DEF SimReap
  <2>2. CASE ReapInFlight(c)
    BY <1>3, <2>1, <2>2, ReapStays
  <2>3. CASE ~ReapInFlight(c) /\ (SimCommand \/ Tick)
    <3>1. stored'[c] # stored[c] \/ MirrorEnds(c)
      BY <1>3, <2>3 DEF LiveChunksMirrored
    <3> QED BY <1>3, <2>1, <2>3, <3>1, SimEnds DEF SimCommand, Tick
  <2>4. CASE ~ReapInFlight(c) /\ ~(SimCommand \/ Tick)
    <3>1. ClientRequest \/ HubEvent \/ HubDelivers \/ SimDelivers \/ UNCHANGED vars
      BY <1>3, <2>4 DEF Next, ServerStep
    <3>2. stored' = stored
      BY <3>1 DEF ClientRequest, HubEvent, HubDelivers, SimDelivers, sim_vars, vars
    <3> QED BY <1>3, <2>4, <3>1, <3>2, HubEnds DEF LiveChunksMirrored
  <2> QED BY <2>2, <2>3, <2>4
<1> HIDE DEF Alone
<1>4. Alone /\ [Next]_vars => Alone'
  BY <1>2
<1>5. TypeOK /\ Alone /\ LiveChunksMirrored /\ [Next]_vars => LiveChunksMirrored'
  BY <1>3
<1> QED BY <1>1, <1>4, <1>5, TypeCorrect, PTL DEF Spec

\* As long as the world fits and nothing is reaped, what is gone leaves the
\* mirror too, whatever is woken in groups.
THEOREM GhostsVanish == ASSUME Cardinality(Coord) <= MaxLive PROVE Spec => []NoGhosts
<1>1. Init => ReapsSpare(Coord) /\ NoGhosts
  BY InitEnds, EmptySafe DEF Init, ReapsSpare, NoGhosts
<1>2. TypeOK /\ ReapsSpare(Coord) /\ [Next]_vars => ReapsSpare(Coord)'
  BY NextSafe
<1>3. ASSUME TypeOK, ReapsSpare(Coord), NoGhosts, [Next]_vars PROVE NoGhosts'
  <2> SUFFICES ASSUME NEW c \in Coord, stored'[c] = None
               PROVE  ReapInFlight(c)' \/ MirrorEnds(c)'
    BY DEF NoGhosts
  <2>1. ~ReapInFlight(c)
    <3>1. sim_cmd \o hub_sending \in Seq(Sparing(Coord))
      BY <1>3, ConcatProperties DEF ReapsSpare
    <3>2. \A i \in DOMAIN InFlight : InFlight[i] \in Sparing(Coord)
      BY <3>1, ElementOfSeq, LenProperties DEF InFlight
    <3> QED BY <3>2 DEF ReapInFlight, Sparing
  <2>2. SimReap => stored'[c] = stored[c]
    <3> SUFFICES ASSUME SimReap PROVE stored'[c] = stored[c]
      OBVIOUS
    <3>1. sim_cmd # << >> /\ Head(sim_cmd).op = "Reap"
      BY DEF SimReap, Taking
    <3>2. Head(sim_cmd).coords = {}
      BY <1>3, <3>1, HeadTailProperties DEF ReapsSpare, Sparing, SimCmd
    <3> QED BY <3>2 DEF SimReap, Woken, Hit
  <2>3. CASE SimCommand \/ Tick
    <3>1. stored'[c] # stored[c] \/ MirrorEnds(c)
      BY <1>3, <2>1 DEF NoGhosts
    <3> QED BY <1>3, <2>2, <2>3, <3>1, SimEnds DEF SimCommand, Tick
  <2>4. CASE ~(SimCommand \/ Tick)
    <3>1. ClientRequest \/ HubEvent \/ HubDelivers \/ SimDelivers \/ UNCHANGED vars
      BY <1>3, <2>4 DEF Next, ServerStep
    <3>2. stored' = stored
      BY <3>1 DEF ClientRequest, HubEvent, HubDelivers, SimDelivers, sim_vars, vars
    <3> QED BY <1>3, <2>1, <3>1, <3>2, HubEnds DEF NoGhosts
  <2> QED BY <2>3, <2>4
<1>4. TypeOK /\ ReapsSpare(Coord) /\ NoGhosts /\ [Next]_vars => NoGhosts'
  BY <1>3
<1> QED BY <1>1, <1>2, <1>4, TypeCorrect, PTL DEF Spec

=============================================================================
