--------------------------- MODULE SimulationProofs ---------------------------
(***************************************************************************)
(* What is paused stays apart from what runs, and a tick reports what it    *)
(* does: for every chunk size, period, board, region, claim and order of    *)
(* commands, stale promote requests included.                               *)
(***************************************************************************)
EXTENDS Simulation, WorldProofs, FiniteSetTheorems

-----------------------------------------------------------------------------
(* collect_group: chunks linked by the cells one shows the other. *)

\* n and its neighbour at d: one of the two runs and shows the other a cell.
Linked(w, n, d) ==
  \/ To(n, d) \in DOMAIN w.chunks /\ Shows(w.chunks[To(n, d)], Opp(d))
  \/ n \in DOMAIN w.chunks /\ Shows(w.chunks[n], d)

LEMMA LinkedBack ==
  ASSUME NEW w, NEW n \in ChunkCoord, NEW d \in Dir
  PROVE  Linked(w, To(n, d), Opp(d)) <=> Linked(w, n, d)
  <1>1. Opp(d) \in Dir /\ Opp(Opp(d)) = d /\ To(To(n, d), Opp(d)) = n
    BY OppIs
  <1> QED BY <1>1 DEF Linked

LEMMA TouchingIs ==
  ASSUME NEW w, NEW M \in SUBSET ChunkCoord, NEW n
  PROVE  n \in Touching(w, M)
           <=> n \in ChunkCoord /\ \E d \in Dir : To(n, d) \in M /\ Linked(w, n, d)
  <1> DEFINE around == {To(p[1], p[2]) : p \in M \X Dir}
             Feels == \E d \in Dir : To(n, d) \in M /\ Linked(w, n, d)
  <1>1. n \in Touching(w, M) <=> n \in around /\ Feels
    BY DEF Touching, Linked
  <1>2. n \in around => n \in ChunkCoord
    BY OppIs
  <1>3. ASSUME n \in ChunkCoord, NEW d \in Dir, To(n, d) \in M PROVE n \in around
    <2>1. Opp(d) \in Dir /\ n = To(To(n, d), Opp(d))
      BY <1>3, OppIs
    <2>2. <<To(n, d), Opp(d)>> \in M \X Dir
      BY <1>3, <2>1
    <2>3. n = To(<<To(n, d), Opp(d)>>[1], <<To(n, d), Opp(d)>>[2])
      BY <2>1
    <2> QED BY <2>2, <2>3
  <1> HIDE DEF around
  <1> QED BY <1>1, <1>2, <1>3

LEMMA TouchingFinite ==
  ASSUME NEW w, NEW M, IsFiniteSet(M)
  PROVE  IsFiniteSet(Touching(w, M))
  <1> DEFINE P == M \X Dir
             T == {To(p[1], p[2]) : p \in P}
             f == [p \in P |-> To(p[1], p[2])]
  <1>1. IsFiniteSet(Dir)
    <2>1. IsFiniteSet(-1..1)
      <3>1. -1 \in Int /\ 1 \in Int
        OBVIOUS
      <3> QED BY <3>1, FS_Interval
    <2>2. IsFiniteSet((-1..1) \X (-1..1))
      BY <2>1, FS_Product
    <2> QED BY <2>2, FS_Subset DEF Dir
  <1>2. IsFiniteSet(P)
    BY <1>1, FS_Product
  <1>3. f \in Surjection(P, T)
    BY DEF Surjection
  <1>4. Touching(w, M) \in SUBSET T
    BY DEF Touching
  <1> HIDE DEF P, T, f
  <1>5. IsFiniteSet(T)
    BY <1>2, <1>3, FS_Surjection
  <1> QED BY <1>4, <1>5, FS_Subset

IsReach(f, w, seed, n) ==
  f = [k \in 0..n |-> IF k = 0 THEN {seed} ELSE f[k - 1] \cup Touching(w, f[k - 1])]

LEMMA ReachExists ==
  ASSUME NEW w, NEW seed
  PROVE  \A n \in Nat : \E f : IsReach(f, w, seed, n)
  <1> DEFINE S == {n \in Nat : \E f : IsReach(f, w, seed, n)}
             Wider(M) == M \cup Touching(w, M)
  <1>1. 0 \in S
    <2> DEFINE f == [k \in 0..0 |-> {seed}]
    <2>1. IsReach(f, w, seed, 0)
      BY DEF IsReach
    <2> QED BY <2>1
  <1>2. ASSUME NEW n \in Nat, n \in S PROVE n + 1 \in S
    <2>1. PICK f : IsReach(f, w, seed, n)
      BY <1>2
    <2> DEFINE g == [k \in 0..(n + 1) |-> IF k = n + 1 THEN Wider(f[n]) ELSE f[k]]
    <2>2. f = [k \in 0..n |-> IF k = 0 THEN {seed} ELSE Wider(f[k - 1])]
      BY <2>1 DEF IsReach
    <2> HIDE DEF Wider
    <2>3. ASSUME NEW k \in 0..(n + 1)
          PROVE  g[k] = IF k = 0 THEN {seed} ELSE Wider(g[k - 1])
      <3>1. CASE k = n + 1
        <4>1. g[k - 1] = f[n] /\ k # 0
          BY <3>1
        <4> QED BY <3>1, <4>1
      <3>2. CASE k \in 0..n
        <4>1. g[k] = f[k] /\ (k # 0 => g[k - 1] = f[k - 1])
          BY <3>2
        <4> QED BY <2>2, <3>2, <4>1
      <3> QED BY <3>1, <3>2
    <2>4. g = [k \in 0..(n + 1) |-> IF k = 0 THEN {seed} ELSE Wider(g[k - 1])]
      BY <2>3
    <2>5. IsReach(g, w, seed, n + 1)
      BY <2>4 DEF IsReach, Wider
    <2> QED BY <2>5
  <1> HIDE DEF S
  <1>3. Nat \subseteq S
    BY <1>1, <1>2, SetInduction
  <1> QED BY <1>3 DEF S

\* f lists the coords collected, round by round.
Rounds(f, w, seed) ==
  /\ f[0] = {seed}
  /\ \A k \in Nat : k + 1 <= MaxGroup => f[k + 1] = f[k] \cup Touching(w, f[k])
  /\ Component(w, seed) = f[MaxGroup]

LEMMA ReachIs ==
  ASSUME NEW w, NEW seed
  PROVE  \E f : Rounds(f, w, seed)
  <1> DEFINE f == CHOOSE f : IsReach(f, w, seed, MaxGroup)
  <1>0. MaxGroup \in Nat
    BY SimulationAssumption
  <1>1. IsReach(f, w, seed, MaxGroup)
    BY <1>0, ReachExists
  <1>2. Component(w, seed) = f[MaxGroup]
    BY DEF Component, IsReach
  <1> HIDE DEF f
  <1>3. f[0] = {seed}
    BY <1>0, <1>1 DEF IsReach
  <1>4. ASSUME NEW k \in Nat, k + 1 <= MaxGroup PROVE f[k + 1] = f[k] \cup Touching(w, f[k])
    <2>1. k + 1 \in 0..MaxGroup /\ k + 1 # 0 /\ (k + 1) - 1 = k
      BY <1>0, <1>4
    <2> QED BY <1>1, <2>1 DEF IsReach
  <1> QED BY <1>2, <1>3, <1>4 DEF Rounds

\* Nothing outside M touches M.
Closed(w, M) == Touching(w, M) \subseteq M

\* A component small enough to be paused is a whole one: had collect_group
\* stopped early, each of its MaxGroup rounds would have added a coord.
LEMMA ComponentClosed ==
  ASSUME NEW w, NEW seed \in ChunkCoord, Cardinality(Component(w, seed)) <= MaxGroup
  PROVE  /\ seed \in Component(w, seed)
         /\ Component(w, seed) \in SUBSET ChunkCoord
         /\ Closed(w, Component(w, seed))
  <1>0. MaxGroup \in Nat
    BY SimulationAssumption
  <1> PICK f : Rounds(f, w, seed)
    BY ReachIs
  <1>1. /\ f[0] = {seed}
        /\ \A k \in Nat : k + 1 <= MaxGroup => f[k + 1] = f[k] \cup Touching(w, f[k])
        /\ Component(w, seed) = f[MaxGroup]
    BY DEF Rounds
  <1> DEFINE Holds(k) == /\ f[k] \in SUBSET ChunkCoord
                         /\ IsFiniteSet(f[k])
                         /\ seed \in f[k]
                         /\ k + 1 <= Cardinality(f[k]) \/ Closed(w, f[k])
             S == {k \in Nat : k <= MaxGroup => Holds(k)}
  <1>2. 0 \in S
    <2>1. IsFiniteSet({seed}) /\ Cardinality({seed}) = 1
      BY FS_Singleton
    <2> QED BY <1>1, <2>1
  <1>3. ASSUME NEW k \in Nat, k \in S PROVE k + 1 \in S
    <2> SUFFICES ASSUME k + 1 <= MaxGroup PROVE Holds(k + 1)
      OBVIOUS
    <2> DEFINE M == f[k]
               T == Touching(w, M)
    <2>1. Holds(k)
      BY <1>0, <1>3
    <2>2. f[k + 1] = M \cup T
      BY <1>1
    <2>3. M \in SUBSET ChunkCoord /\ IsFiniteSet(M) /\ seed \in M
      BY <2>1
    <2>4. IsFiniteSet(T)
      BY <2>3, TouchingFinite
    <2>5. T \subseteq ChunkCoord
      BY <2>3, TouchingIs
    <2>6. k + 1 <= Cardinality(M) \/ T \subseteq M
      BY <2>1 DEF Closed
    <2> HIDE DEF M, T
    <2>7. IsFiniteSet(M \cup T)
      BY <2>3, <2>4, FS_Union
    <2>8. CASE T \subseteq M
      <3>1. f[k + 1] = M
        BY <2>2, <2>8
      <3>2. Closed(w, M)
        BY <2>8 DEF M, T, Closed
      <3> QED BY <2>3, <3>1, <3>2
    <2>9. CASE ~(T \subseteq M)
      <3>1. M \in SUBSET (M \cup T) /\ M # M \cup T
        BY <2>9
      <3>2. Cardinality(M) <= Cardinality(M \cup T) /\ Cardinality(M) # Cardinality(M \cup T)
        BY <2>7, <3>1, FS_Subset
      <3>3. Cardinality(M) \in Nat /\ Cardinality(M \cup T) \in Nat
        BY <2>3, <2>7, FS_CardinalityType
      <3>4. (k + 1) + 1 <= Cardinality(M \cup T)
        BY <2>6, <2>9, <3>2, <3>3
      <3> QED BY <2>2, <2>3, <2>5, <2>7, <3>4
    <2> QED BY <2>8, <2>9
  <1>4. Nat \subseteq S
    <2> HIDE DEF S
    <2> QED BY <1>2, <1>3, SetInduction
  <1>5. Holds(MaxGroup)
    BY <1>0, <1>4
  <1>6. Cardinality(f[MaxGroup]) \in Nat /\ Cardinality(f[MaxGroup]) <= MaxGroup
    BY <1>1, <1>5, FS_CardinalityType
  <1> QED BY <1>0, <1>1, <1>5, <1>6

\* A component lies inside a closed set, or outside of it.
LEMMA ComponentWithin ==
  ASSUME NEW w, NEW seed \in ChunkCoord, NEW N \in SUBSET ChunkCoord, Closed(w, N)
  PROVE  IF seed \in N THEN Component(w, seed) \subseteq N ELSE Component(w, seed) \cap N = {}
  <1>0. MaxGroup \in Nat
    BY SimulationAssumption
  <1> PICK f : Rounds(f, w, seed)
    BY ReachIs
  <1>1. /\ f[0] = {seed}
        /\ \A k \in Nat : k + 1 <= MaxGroup => f[k + 1] = f[k] \cup Touching(w, f[k])
        /\ Component(w, seed) = f[MaxGroup]
    BY DEF Rounds
  <1> DEFINE Holds(k) == /\ f[k] \in SUBSET ChunkCoord
                         /\ IF seed \in N THEN f[k] \subseteq N ELSE f[k] \cap N = {}
             S == {k \in Nat : k <= MaxGroup => Holds(k)}
  <1>2. 0 \in S
    BY <1>1
  <1>3. ASSUME NEW k \in Nat, k \in S PROVE k + 1 \in S
    <2> SUFFICES ASSUME k + 1 <= MaxGroup PROVE Holds(k + 1)
      OBVIOUS
    <2> DEFINE M == f[k]
               T == Touching(w, M)
    <2>1. M \in SUBSET ChunkCoord /\ IF seed \in N THEN M \subseteq N ELSE M \cap N = {}
      BY <1>0, <1>3
    <2>2. f[k + 1] = M \cup T
      BY <1>1
    <2> HIDE DEF M
    <2>3. \A n \in T : n \in ChunkCoord /\ \E d \in Dir : To(n, d) \in M /\ Linked(w, n, d)
      BY <2>1, TouchingIs
    <2>4. \A n : n \in ChunkCoord /\ (\E d \in Dir : To(n, d) \in N /\ Linked(w, n, d)) => n \in N
      BY TouchingIs DEF Closed
    <2> HIDE DEF T
    <2>5. CASE seed \in N
      BY <2>1, <2>2, <2>3, <2>4, <2>5
    <2>6. CASE seed \notin N
      <3>1. ASSUME NEW n \in T, n \in N PROVE FALSE
        <4>1. PICK d \in Dir : To(n, d) \in M /\ Linked(w, n, d)
          BY <2>3, <3>1
        <4>2. n \in ChunkCoord
          BY <2>3, <3>1
        <4>3. Opp(d) \in Dir /\ To(n, d) \in ChunkCoord /\ To(To(n, d), Opp(d)) = n
          BY <4>2, OppIs
        <4>4. Linked(w, To(n, d), Opp(d))
          BY <4>1, <4>2, LinkedBack
        <4>5. To(n, d) \in N
          BY <2>4, <3>1, <4>3, <4>4
        <4> QED BY <2>1, <2>6, <4>1, <4>5
      <3> QED BY <2>1, <2>2, <2>3, <2>6, <3>1
    <2> QED BY <2>5, <2>6
  <1>4. Nat \subseteq S
    <2> HIDE DEF S
    <2> QED BY <1>2, <1>3, SetInduction
  <1>5. Holds(MaxGroup)
    BY <1>0, <1>4
  <1> QED BY <1>1, <1>5

\* Two components small enough to be paused are the same or apart.
LEMMA ComponentsApart ==
  ASSUME NEW w, NEW a \in ChunkCoord, NEW b \in ChunkCoord,
         Cardinality(Component(w, a)) <= MaxGroup, Cardinality(Component(w, b)) <= MaxGroup,
         Component(w, a) # Component(w, b)
  PROVE  Component(w, a) \cap Component(w, b) = {}
  <1> DEFINE A == Component(w, a)
             B == Component(w, b)
  <1>1. A \in SUBSET ChunkCoord /\ Closed(w, A) /\ B \in SUBSET ChunkCoord /\ Closed(w, B)
    BY ComponentClosed
  <1>2. IF a \in B THEN A \subseteq B ELSE A \cap B = {}
    BY <1>1, ComponentWithin
  <1>3. IF b \in A THEN B \subseteq A ELSE B \cap A = {}
    BY <1>1, ComponentWithin
  <1> HIDE DEF A, B
  <1>4. A # B
    BY DEF A, B
  <1>5. A \cap B = {}
    BY <1>2, <1>3, <1>4
  <1> QED BY <1>5 DEF A, B

-----------------------------------------------------------------------------
(* Promotion. *)

LEMMA SinglesOK ==
  ASSUME NEW w, WorldType(w), Apart(w), NEW R, NEW Q \in OneEach(Singles(w, R))
  PROVE  /\ WorldType(Pause(w, Q)) /\ Apart(Pause(w, Q)) /\ Pause(w, Q).tick = w.tick
         /\ PausedFrom(Pause(w, Q), w)
         /\ Whole(Pause(w, Q)) = Whole(w) /\ Pause(w, Q).owned = w.owned
  <1>1. Q \subseteq Singles(w, R) /\ \A q, r \in Q : q.members = r.members => q = r
    BY DEF OneEach
  <1>2. \A q \in Q : \E c, period : q = [members |-> {c}, period |-> period] /\ CanPause(w, c, period)
    BY <1>1 DEF Singles
  <1>3. \A q \in Q : MayPause(w, q)
    BY <1>2, CanPauseOK
  <1>4. ASSUME NEW q \in Q, NEW r \in Q, q # r PROVE q.members \cap r.members = {}
    <2>1. PICK c, k : q = [members |-> {c}, period |-> k]
      BY <1>2
    <2>2. PICK d, l : r = [members |-> {d}, period |-> l]
      BY <1>2
    <2>3. {c} # {d}
      BY <1>1, <1>4, <2>1, <2>2
    <2> QED BY <2>1, <2>2, <2>3
  <1>5. Pause(w, Q).tick = w.tick /\ Pause(w, Q).owned = w.owned
    BY PauseIs DEF WorldType
  <1> QED BY <1>3, <1>4, <1>5, PauseOK, PauseShows, PauseWhole

LEMMA GroupsOK ==
  ASSUME NEW w, WorldType(w), Apart(w), NEW R, NEW Q \in OneEach(Groups(w, R))
  PROVE  /\ WorldType(Pause(w, Q)) /\ Apart(Pause(w, Q)) /\ Pause(w, Q).tick = w.tick
         /\ PausedFrom(Pause(w, Q), w)
         /\ Whole(Pause(w, Q)) = Whole(w) /\ Pause(w, Q).owned = w.owned
  <1>0. MaxGroup \in Nat
    BY SimulationAssumption
  <1>1. Q \subseteq Groups(w, R) /\ \A q, r \in Q : q.members = r.members => q = r
    BY DEF OneEach
  <1>2. ASSUME NEW q \in Q
        PROVE  \E c \in ChunkCoord, period \in 1..MAX_PERIOD :
                  /\ q = [members |-> Component(w, c), period |-> period]
                  /\ MayGroup(w, q.members)
                  /\ CanPauseGroup(w, q.members, q.period)
    <2>1. PICK r \in R : /\ r.coord \in DOMAIN w.chunks
                         /\ q = [members |-> Component(w, r.coord), period |-> r.period]
                         /\ MayGroup(w, q.members)
                         /\ CanPauseGroup(w, q.members, q.period)
      BY <1>1 DEF Groups
    <2>2. r.period \in 1..MAX_PERIOD
      BY <2>1 DEF CanPauseGroup
    <2> QED BY <2>1, <2>2 DEF WorldType
  <1>3. ASSUME NEW M, MayGroup(w, M) PROVE Cardinality(M) <= MaxGroup /\ M # {}
    <2>1. Cardinality(M) \in 2..MaxGroup
      BY <1>3 DEF MayGroup
    <2>2. Cardinality({}) = 0
      BY FS_EmptySet
    <2> QED BY <1>0, <2>1, <2>2
  <1>4. ASSUME NEW q \in Q PROVE MayPause(w, q)
    <2>1. PICK c \in ChunkCoord, period \in 1..MAX_PERIOD :
              /\ q = [members |-> Component(w, c), period |-> period]
              /\ MayGroup(w, q.members)
              /\ CanPauseGroup(w, q.members, q.period)
      BY <1>2
    <2>2. q = [members |-> q.members, period |-> q.period]
      BY <2>1
    <2>3. q.members # {}
      BY <1>3, <2>1
    <2>4. MayPause(w, [members |-> q.members, period |-> q.period])
      BY <2>1, <2>3, CanPauseGroupOK
    <2> QED BY <2>2, <2>4
  <1>5. ASSUME NEW q \in Q, NEW r \in Q, q # r PROVE q.members \cap r.members = {}
    <2>1. PICK a \in ChunkCoord, k \in 1..MAX_PERIOD : q = [members |-> Component(w, a), period |-> k] /\ MayGroup(w, q.members)
      BY <1>2
    <2>2. PICK b \in ChunkCoord, l \in 1..MAX_PERIOD : r = [members |-> Component(w, b), period |-> l] /\ MayGroup(w, r.members)
      BY <1>2
    <2>3. q.members = Component(w, a) /\ r.members = Component(w, b)
      BY <2>1, <2>2
    <2>4. Cardinality(Component(w, a)) <= MaxGroup /\ Cardinality(Component(w, b)) <= MaxGroup
      BY <1>3, <2>1, <2>2, <2>3
    <2>5. Component(w, a) # Component(w, b)
      BY <1>1, <1>5, <2>3
    <2> QED BY <2>3, <2>4, <2>5, ComponentsApart
  <1>6. Pause(w, Q).tick = w.tick /\ Pause(w, Q).owned = w.owned
    BY PauseIs DEF WorldType
  <1> QED BY <1>4, <1>5, <1>6, PauseOK, PauseShows, PauseWhole

-----------------------------------------------------------------------------
(* The invariant. *)

IInv ==
  /\ WorldType(world)
  /\ world.tick <= MaxTick
  /\ Apart(world)
  /\ RingsType(rings)
  /\ \A r \in requests : r.coord \in ChunkCoord /\ r.period \in 1..MAX_PERIOD
  /\ commands \in 0..MaxCommands

LEMMA IInvInit == Init => IInv
  <1> SUFFICES ASSUME Init PROVE IInv
    OBVIOUS
  <1> USE SimulationAssumption
  <1>1. PICK board \in Boards :
          world = [chunks |-> Loaded(board, RegionAlive, RegionDead), paused |-> {}, owned |-> {}, tick |-> 0]
    BY DEF Init
  <1>2. board \in SUBSET (Int \X Int) /\ RegionAlive \in SUBSET (Int \X Int) /\ RegionDead \in SUBSET (Int \X Int)
    BY DEF Cell
  <1>3. /\ world.chunks \in [DOMAIN world.chunks -> Chunk]
        /\ DOMAIN world.chunks \subseteq ChunkCoord
    BY <1>1, <1>2, LoadedType
  <1>4. IsRecord(world) /\ world.paused = {} /\ world.tick = 0
    BY <1>1 DEF IsRecord
  <1>5. WorldType(world)
    BY <1>3, <1>4 DEF WorldType
  <1>6. Apart(world)
    BY <1>4 DEF Apart, Disjoint, PausedCoords
  <1>7. RingsType(rings) /\ requests = {} /\ commands = 0
    BY DEF Init, NoFunction, RingsType
  <1> QED BY <1>4, <1>5, <1>6, <1>7 DEF IInv

LEMMA CommandCounts ==
  ASSUME commands \in 0..MaxCommands, Command
  PROVE  commands' \in 0..MaxCommands /\ requests' = requests
  BY SimulationAssumption DEF Command

\* Each action in turn.
LEMMA IInvEdit ==
  ASSUME IInv, NEW p \in EditCells, NEW alive \in BOOLEAN, Edit(p, alive)
  PROVE  IInv'
  <1> DEFINE c == Home(p)
             v == Wake(world, {c})
  <1>1. p \in Int \X Int
    BY SimulationAssumption DEF Cell
  <1>2. c \in ChunkCoord /\ p[1] % CHUNK_SIZE \in Idx /\ p[2] % CHUNK_SIZE \in Idx
    BY <1>1, HomeType
  <1>3. WorldType(v) /\ Apart(v) /\ c \notin PausedCoords(v)
    BY WakeOK DEF IInv
  <1>4. v.tick = world.tick
    BY WakeIs DEF IInv, WorldType
  <1>5. world' = SetCellAt(v, c, p[1] % CHUNK_SIZE, p[2] % CHUNK_SIZE, alive) /\ rings' = Forgotten(rings, {c}) /\ Command
    BY DEF Edit
  <1> HIDE DEF c, v
  <1>6. WorldType(world') /\ Apart(world')
    BY <1>2, <1>3, <1>5, SetCellAtOK
  <1>7. world'.tick = world.tick
    BY <1>3, <1>4, <1>5 DEF SetCellAt, WorldType, IsRecord
  <1>8. RingsType(rings')
    BY <1>5, ForgottenType DEF IInv
  <1> QED BY <1>5, <1>6, <1>7, <1>8, CommandCounts DEF IInv

LEMMA EditTick ==
  ASSUME IInv, NEW p, NEW alive, Edit(p, alive)
  PROVE  world'.tick = world.tick
  <1> DEFINE v == Wake(world, {Home(p)})
  <1>1. IsRecord(v) /\ v.tick = world.tick
    BY WakeIs DEF IInv, WorldType
  <1>2. world' = SetCellAt(v, Home(p), p[1] % CHUNK_SIZE, p[2] % CHUNK_SIZE, alive)
    BY DEF Edit
  <1> HIDE DEF v
  <1> QED BY <1>1, <1>2 DEF SetCellAt, IsRecord

LEMMA IInvReap ==
  ASSUME IInv, NEW c, Reap(c)
  PROVE  IInv'
  <1>1. world' = RemoveChunk(world, c) /\ rings' = Forgotten(rings, {c}) /\ Command
    BY DEF Reap
  <1>2. WorldType(world') /\ Apart(world')
    BY <1>1, RemoveChunkOK DEF IInv
  <1>3. world'.tick = world.tick
    BY <1>1 DEF RemoveChunk, IInv, WorldType, IsRecord
  <1>4. RingsType(rings')
    BY <1>1, ForgottenType DEF IInv
  <1> QED BY <1>1, <1>2, <1>3, <1>4, CommandCounts DEF IInv

LEMMA IInvSubscribe ==
  ASSUME IInv, NEW c, Subscribe(c)
  PROVE  IInv'
  <1>1. CASE world' = world /\ rings' = rings
    <2>1. Command
      BY DEF Subscribe
    <2> QED BY <1>1, <2>1, CommandCounts DEF IInv
  <1>2. CASE world' = Wake(world, {c}) /\ rings' = Forgotten(rings, {c})
    <2>1. WorldType(world') /\ Apart(world')
      BY <1>2, WakeOK DEF IInv
    <2>2. world'.tick = world.tick
      BY <1>2, WakeIs DEF IInv, WorldType
    <2>3. RingsType(rings')
      BY <1>2, ForgottenType DEF IInv
    <2>4. Command
      BY DEF Subscribe
    <2> QED BY <2>1, <2>2, <2>3, <2>4, CommandCounts DEF IInv
  <1> QED BY <1>1, <1>2 DEF Subscribe

LEMMA IInvSetOwned ==
  ASSUME IInv, NEW S, SetOwned(S)
  PROVE  IInv'
  <1>1. world' = [world EXCEPT !.owned = S] /\ rings' = rings /\ Command
    BY DEF SetOwned
  <1>2. /\ IsRecord(world') /\ world'.chunks = world.chunks /\ world'.paused = world.paused
        /\ world'.tick = world.tick
    BY <1>1 DEF IInv, WorldType, IsRecord
  <1>3. WorldType(world') /\ Apart(world')
    BY <1>2 DEF IInv, WorldType, Apart, PausedCoords
  <1> QED BY <1>1, <1>2, <1>3, CommandCounts DEF IInv

LEMMA IInvScan ==
  ASSUME IInv, DetectorScan
  PROVE  IInv'
  <1>1. PICK S \in SUBSET {c \in DOMAIN rings : rings[c].in_pending} :
          rings' = Scanned(rings, S) /\ requests' = requests \cup Requests(rings, S)
    BY DEF DetectorScan
  <1>2. S \subseteq DOMAIN rings
    OBVIOUS
  <1>3. world' = world /\ commands' = commands
    BY DEF DetectorScan
  <1>4. RingsType(rings') /\ \A r \in requests' : r.coord \in ChunkCoord /\ r.period \in 1..MAX_PERIOD
    BY <1>1, <1>2, ScannedType DEF IInv
  <1> QED BY <1>3, <1>4 DEF IInv

\* A tick of the simulation: what it pauses first, and the world's tick.
LEMMA TickIs ==
  ASSUME IInv, Tick
  PROVE  \E w, S : LET t == TickInto(w)
                   IN /\ WorldType(w) /\ Apart(w) /\ w.tick = world.tick /\ PausedFrom(w, world)
                      /\ Whole(w) = Whole(world) /\ w.owned = world.owned
                      /\ world' = AfterTick(w, t)
                      /\ rings' = Observed(Forgotten(rings, S), t.reports)
                      /\ outcome' = [changed |-> t.changed, removed |-> t.removed]
  <1>1. PICK R \in SUBSET requests :
          \E singles \in OneEach(Singles(world, R)) :
          \E groups \in OneEach(Groups(Pause(world, singles), R)) :
            LET w == Pause(Pause(world, singles), groups)
                t == TickInto(w)
                grouped == UNION {q.members : q \in groups}
            IN /\ world' = AfterTick(w, t)
               /\ rings' = Observed(Forgotten(rings, grouped \cup t.removed), t.reports)
               /\ outcome' = [changed |-> t.changed, removed |-> t.removed]
    BY DEF Tick
  <1>2. PICK singles \in OneEach(Singles(world, R)) :
          \E groups \in OneEach(Groups(Pause(world, singles), R)) :
            LET w == Pause(Pause(world, singles), groups)
                t == TickInto(w)
                grouped == UNION {q.members : q \in groups}
            IN /\ world' = AfterTick(w, t)
               /\ rings' = Observed(Forgotten(rings, grouped \cup t.removed), t.reports)
               /\ outcome' = [changed |-> t.changed, removed |-> t.removed]
    BY <1>1
  <1> DEFINE v == Pause(world, singles)
  <1>3. /\ WorldType(v) /\ Apart(v) /\ v.tick = world.tick /\ PausedFrom(v, world)
        /\ Whole(v) = Whole(world) /\ v.owned = world.owned
    BY SinglesOK DEF IInv
  <1>4. PICK groups \in OneEach(Groups(v, R)) :
            LET w == Pause(v, groups)
                t == TickInto(w)
                grouped == UNION {q.members : q \in groups}
            IN /\ world' = AfterTick(w, t)
               /\ rings' = Observed(Forgotten(rings, grouped \cup t.removed), t.reports)
               /\ outcome' = [changed |-> t.changed, removed |-> t.removed]
    BY <1>2
  <1> DEFINE w == Pause(v, groups)
  <1> HIDE DEF v
  <1>5. /\ WorldType(w) /\ Apart(w) /\ w.tick = world.tick /\ PausedFrom(w, v)
        /\ Whole(w) = Whole(world) /\ w.owned = world.owned
    BY <1>3, GroupsOK
  <1>6. PausedFrom(w, world)
    BY <1>3, <1>5, PausedFromTwice
  <1> QED BY <1>4, <1>5, <1>6

LEMMA IInvTick ==
  ASSUME IInv, Tick
  PROVE  IInv'
  <1>1. PICK w, S : /\ WorldType(w) /\ Apart(w) /\ w.tick = world.tick
                    /\ world' = AfterTick(w, TickInto(w))
                    /\ rings' = Observed(Forgotten(rings, S), TickInto(w).reports)
    BY TickIs
  <1>2. WorldType(world') /\ Apart(world') /\ world'.tick = world.tick + 1
    BY <1>1, TickOK
  <1>3. world'.tick <= MaxTick
    BY <1>2, SimulationAssumption DEF Tick, IInv, WorldType
  <1>4. RingsType(rings')
    <2>1. RingsType(Forgotten(rings, S))
      BY ForgottenType DEF IInv
    <2>2. /\ DOMAIN TickInto(w).reports \subseteq ChunkCoord
          /\ \A c \in DOMAIN TickInto(w).reports : TickInto(w).reports[c] \in Hash
      BY <1>1, TickOK
    <2> QED BY <1>1, <2>1, <2>2, ObservedType
  <1>5. requests' \subseteq requests /\ commands' = commands
    BY DEF Tick
  <1> QED BY <1>2, <1>3, <1>4, <1>5 DEF IInv

LEMMA IInvNext == IInv /\ [Next]_vars => IInv'
  <1> SUFFICES ASSUME IInv, [Next]_vars PROVE IInv'
    OBVIOUS
  <1>1. ASSUME NEW p \in EditCells, NEW alive \in BOOLEAN, Edit(p, alive) PROVE IInv'
    BY <1>1, IInvEdit
  <1>2. ASSUME NEW c \in Watchable, Reap(c) PROVE IInv'
    BY <1>2, IInvReap
  <1>3. ASSUME NEW c \in Watchable, Subscribe(c) PROVE IInv'
    BY <1>3, IInvSubscribe
  <1>4. ASSUME NEW c \in Watchable, Unsubscribe(c) PROVE IInv'
    BY <1>4, CommandCounts DEF Unsubscribe, IInv
  <1>5. ASSUME NEW S \in Claims, SetOwned(S) PROVE IInv'
    BY <1>5, IInvSetOwned
  <1>6. CASE DetectorScan
    BY <1>6, IInvScan
  <1>7. CASE Tick
    BY <1>7, IInvTick
  <1>8. CASE UNCHANGED vars
    BY <1>8 DEF vars, IInv
  <1> QED BY <1>1, <1>2, <1>3, <1>4, <1>5, <1>6, <1>7, <1>8 DEF Next

LEMMA Invariance == Spec => []IInv
  BY IInvInit, IInvNext, PTL DEF Spec

-----------------------------------------------------------------------------
(***************************************************************************)
(* The types of the world's maps, of what is paused, of the detector's     *)
(* rings and of the promote requests, for every instance.                  *)
(***************************************************************************)
THEOREM WorldTypes == Spec => []TypeOK
  <1>1. IInv => TypeOK
    <2> SUFFICES ASSUME IInv PROVE TypeOK
      OBVIOUS
    <2>1. \A c \in DOMAIN world.chunks : c \in ChunkCoord /\ world.chunks[c] \in Chunk
      BY DEF IInv, WorldType
    <2>2. \A g \in world.paused :
            /\ g.period \in 1..MAX_PERIOD
            /\ g.paused_at_tick \in 0..world.tick
            /\ Members(g) # {}
            /\ \A c \in Members(g) : g.members[c] \in Chunk
      BY DEF IInv, WorldType, GroupType
    <2>3. world.tick \in 0..MaxTick
      BY SimulationAssumption DEF IInv, WorldType
    <2>4. \A c \in DOMAIN rings : Len(rings[c].hashes) \in 1..HISTORY /\ rings[c].in_pending \in BOOLEAN
      BY DEF IInv, RingsType, Ring
    <2> QED BY <2>1, <2>2, <2>3, <2>4 DEF IInv, TypeOK
  <1> QED BY <1>1, Invariance, PTL

(***************************************************************************)
(* world.rs: no chunk is in two of the maps get_chunk looks into, and what *)
(* is paused shows no running chunk a cell in any phase a wake could find  *)
(* it in - whatever is requested, however late, and however large groups   *)
(* may be.                                                                 *)
(***************************************************************************)
THEOREM PausedStaysApart == Spec => []PausedApart
  <1>1. IInv => PausedApart
    BY DEF IInv, Apart, PausedApart, Disjoint, Sealed
  <1> QED BY <1>1, Invariance, PTL

\* Only a tick counts.
LEMMA TickOnly ==
  ASSUME IInv, [Next]_vars
  PROVE  world'.tick = world.tick \/ Tick
  <1>1. ASSUME NEW p \in EditCells, NEW alive \in BOOLEAN, Edit(p, alive) PROVE world'.tick = world.tick
    BY <1>1, EditTick
  <1>2. ASSUME NEW c \in Watchable, Reap(c) PROVE world'.tick = world.tick
    BY <1>2 DEF Reap, RemoveChunk, IInv, WorldType, IsRecord
  <1>3. ASSUME NEW c \in Watchable, Subscribe(c) PROVE world'.tick = world.tick
    <2>1. Wake(world, {c}).tick = world.tick
      BY WakeIs DEF IInv, WorldType
    <2>2. world' = world \/ world' = Wake(world, {c})
      BY <1>3 DEF Subscribe
    <2> QED BY <2>1, <2>2
  <1>4. ASSUME NEW c \in Watchable, Unsubscribe(c) PROVE world'.tick = world.tick
    BY <1>4 DEF Unsubscribe
  <1>5. ASSUME NEW S \in Claims, SetOwned(S) PROVE world'.tick = world.tick
    BY <1>5 DEF SetOwned, IInv, WorldType, IsRecord
  <1>6. CASE DetectorScan
    BY <1>6 DEF DetectorScan
  <1>7. CASE UNCHANGED vars
    BY <1>7 DEF vars
  <1> QED BY <1>1, <1>2, <1>3, <1>4, <1>5, <1>6, <1>7 DEF Next

(***************************************************************************)
(* TickOutcome: after a tick nothing is shown differently, gone or new,    *)
(* that the tick does not report as changed or removed.                    *)
(***************************************************************************)
THEOREM TickReportsChanges == Spec => TickReports
  <1> DEFINE Reports ==
        \A c \in DOMAIN world.chunks \cup PausedCoords(world) \cup DOMAIN world'.chunks :
          /\ Shown(world', c) = NoHash <=> c \in outcome'.removed
          /\ Shown(world', c) # Shown(world, c) => c \in outcome'.changed \cup outcome'.removed
  <1>1. ASSUME IInv, Tick PROVE Reports
    <2>1. PICK w : /\ WorldType(w) /\ Apart(w) /\ PausedFrom(w, world)
                   /\ world' = AfterTick(w, TickInto(w))
                   /\ outcome' = [changed |-> TickInto(w).changed, removed |-> TickInto(w).removed]
      BY <1>1, TickIs
    <2> TAKE c \in DOMAIN world.chunks \cup PausedCoords(world) \cup DOMAIN world'.chunks
    <2>2. c \in DOMAIN w.chunks \cup PausedCoords(w) \cup DOMAIN AfterTick(w, TickInto(w)).chunks
      BY <2>1 DEF PausedFrom, SameShown
    <2>3. /\ Shown(world', c) = NoHash <=> c \in TickInto(w).removed
          /\ Shown(world', c) # Shown(w, c) => c \in TickInto(w).changed \cup TickInto(w).removed
      BY <2>1, <2>2, TickReportsAll
    <2> QED BY <2>1, <2>3 DEF PausedFrom, SameShown
  <1>2. ASSUME IInv, [Next]_vars, world'.tick # world.tick PROVE Tick
    BY <1>2, TickOnly
  <1>3. IInv /\ [Next]_vars => (world'.tick # world.tick => Reports)
    BY <1>1, <1>2
  <1>4. IInv /\ [Next]_vars =>
          [world'.tick # world.tick =>
             \A c \in DOMAIN world.chunks \cup PausedCoords(world) \cup DOMAIN world'.chunks :
               /\ Shown(world', c) = NoHash <=> c \in outcome'.removed
               /\ Shown(world', c) # Shown(world, c) => c \in outcome'.changed \cup outcome'.removed]_vars
    BY <1>3
  <1> QED BY <1>4, Invariance, PTL DEF Spec, TickReports

\* What a tick wakes was paused before it: nobody shows what it has just paused
\* a cell.
LEMMA HitBefore ==
  ASSUME NEW w, NEW before, PausedFrom(w, before), Apart(w), NEW g \in Hit(w, Perturbed(w))
  PROVE  g \in before.paused
  <1>1. g \in w.paused /\ (g \in before.paused \/ Unseen(w, Members(g)))
    BY DEF Hit, PausedFrom
  <1>2. PICK c \in Members(g) : c \in Perturbed(w)
    BY DEF Hit
  <1>3. PICK d \in Dir : To(c, d) \in DOMAIN w.chunks /\ Shows(w.chunks[To(c, d)], Opp(d))
    BY <1>2 DEF Perturbed
  <1>4. To(c, d) \notin Members(g)
    BY <1>1, <1>3, GroupOf
  <1> QED BY <1>1, <1>2, <1>3, <1>4 DEF Unseen

(***************************************************************************)
(* world.rs, step_into: a tick leaves no empty chunk that was not there,   *)
(* unless it woke one that took no part in its group.                      *)
(***************************************************************************)
THEOREM TicksKeepSparse == Spec => TicksLeaveNoHusks
  <1>1. ASSUME IInv, Tick, Lively(world), Uncut(world) PROVE Husks(world') \subseteq Husks(world)
    <2>1. PICK w : /\ WorldType(w) /\ Apart(w) /\ w.tick = world.tick /\ PausedFrom(w, world)
                   /\ world' = AfterTick(w, TickInto(w))
      BY <1>1, TickIs
    <2>2. ASSUME NEW g \in Hit(w, Perturbed(w))
          PROVE  /\ Members(g) \subseteq w.owned \/ Members(g) \cap w.owned = {}
                 /\ \A c \in Members(g) :
                      ~IsEmpty(Awake(g, w.tick)[c]) \/ Halo(EdgesOf(Awake(g, w.tick)), c) # EmptyBundle
      <3>1. g \in world.paused
        BY <2>1, HitBefore
      <3>2. GroupType(g, world.tick) /\ world.tick \in Int
        BY <1>1, <3>1 DEF IInv, WorldType
      <3>3. PICK k \in 0..(g.period - 1) : Awake(g, w.tick) = Phase(g.members, k)
        BY <2>1, <3>2, AwakePhase
      <3>4. \A c \in Members(g) :
              ~IsEmpty(Phase(g.members, k)[c]) \/ Halo(EdgesOf(Phase(g.members, k)), c) # EmptyBundle
        BY <1>1, <3>1 DEF Lively
      <3>5. Members(g) \subseteq w.owned \/ Members(g) \cap w.owned = {}
        BY <1>1, <2>1, <3>1 DEF Uncut, PausedFrom
      <3> QED BY <3>3, <3>4, <3>5
    <2>3. ASSUME NEW c \in Husks(world') PROVE c \in Husks(world)
      <3>1. /\ c \in DOMAIN AfterTick(w, TickInto(w)).chunks
            /\ IsEmpty(AfterTick(w, TickInto(w)).chunks[c])
            /\ ~IsFrozen(AfterTick(w, TickInto(w)).chunks[c])
        BY <2>1, <2>3 DEF Husks
      <3>2. c \in DOMAIN w.chunks /\ w.chunks[c] = AfterTick(w, TickInto(w)).chunks[c]
        BY <2>1, <2>2, <3>1, LeftEmpty
      <3>3. c \in DOMAIN world.chunks /\ world.chunks[c] = w.chunks[c]
        BY <2>1, <3>2 DEF PausedFrom
      <3> QED BY <3>1, <3>2, <3>3 DEF Husks
    <2> QED BY <2>3
  <1>2. IInv /\ [Next]_vars =>
          [world'.tick # world.tick /\ Lively(world) /\ Uncut(world) => Husks(world') \subseteq Husks(world)]_vars
    BY <1>1, TickOnly
  <1> QED BY <1>2, Invariance, PTL DEF Spec, TicksLeaveNoHusks

-----------------------------------------------------------------------------
(* The generations of plain Life, cell by cell. *)

LEMMA OneMore ==
  ASSUME NEW T, NEW F, NEW e, IsFiniteSet(T \cap F), e \notin T
  PROVE  /\ IsFiniteSet((T \cup {e}) \cap F)
         /\ Cardinality((T \cup {e}) \cap F) = Cardinality(T \cap F) + Bit(e, F)
  <1>1. CASE e \in F
    <2>1. (T \cup {e}) \cap F = (T \cap F) \cup {e} /\ e \notin T \cap F
      BY <1>1
    <2> QED BY <1>1, <2>1, FS_AddElement DEF Bit
  <1>2. CASE e \notin F
    <2>1. (T \cup {e}) \cap F = T \cap F
      BY <1>2
    <2>2. Cardinality(T \cap F) \in Nat
      BY FS_CardinalityType
    <2>3. Bit(e, F) = 0
      BY <1>2 DEF Bit
    <2>4. Cardinality(T \cap F) + 0 = Cardinality(T \cap F)
      BY <2>2
    <2> QED BY <2>1, <2>3, <2>4
  <1> QED BY <1>1, <1>2

LEMMA EightElements ==
  ASSUME NEW F, NEW e1, NEW e2, NEW e3, NEW e4, NEW e5, NEW e6, NEW e7, NEW e8,
         e2 # e1, e3 \notin {e1, e2}, e4 \notin {e1, e2, e3}, e5 \notin {e1, e2, e3, e4},
         e6 \notin {e1, e2, e3, e4, e5}, e7 \notin {e1, e2, e3, e4, e5, e6},
         e8 \notin {e1, e2, e3, e4, e5, e6, e7}
  PROVE  Cardinality({e1, e2, e3, e4, e5, e6, e7, e8} \cap F)
           = Bit(e1, F) + Bit(e2, F) + Bit(e3, F) + Bit(e4, F) + Bit(e5, F) + Bit(e6, F) + Bit(e7, F) + Bit(e8, F)
  <1> DEFINE T1 == {} \cup {e1}
             T2 == T1 \cup {e2}
             T3 == T2 \cup {e3}
             T4 == T3 \cup {e4}
             T5 == T4 \cup {e5}
             T6 == T5 \cup {e6}
             T7 == T6 \cup {e7}
             T8 == T7 \cup {e8}
  <1>0. IsFiniteSet({} \cap F) /\ Cardinality({} \cap F) = 0
    <2>1. {} \cap F = {}
      OBVIOUS
    <2> QED BY <2>1, FS_EmptySet
  <1>1. IsFiniteSet(T1 \cap F) /\ Cardinality(T1 \cap F) = 0 + Bit(e1, F)
    BY <1>0, OneMore
  <1>2. e2 \notin T1 /\ e3 \notin T2 /\ e4 \notin T3 /\ e5 \notin T4 /\ e6 \notin T5 /\ e7 \notin T6 /\ e8 \notin T7
    OBVIOUS
  <1>3. T8 = {e1, e2, e3, e4, e5, e6, e7, e8}
    OBVIOUS
  <1> HIDE DEF T1
  <1>4. IsFiniteSet(T2 \cap F) /\ Cardinality(T2 \cap F) = Cardinality(T1 \cap F) + Bit(e2, F)
    BY <1>1, <1>2, OneMore
  <1> HIDE DEF T2
  <1>5. IsFiniteSet(T3 \cap F) /\ Cardinality(T3 \cap F) = Cardinality(T2 \cap F) + Bit(e3, F)
    BY <1>2, <1>4, OneMore
  <1> HIDE DEF T3
  <1>6. IsFiniteSet(T4 \cap F) /\ Cardinality(T4 \cap F) = Cardinality(T3 \cap F) + Bit(e4, F)
    BY <1>2, <1>5, OneMore
  <1> HIDE DEF T4
  <1>7. IsFiniteSet(T5 \cap F) /\ Cardinality(T5 \cap F) = Cardinality(T4 \cap F) + Bit(e5, F)
    BY <1>2, <1>6, OneMore
  <1> HIDE DEF T5
  <1>8. IsFiniteSet(T6 \cap F) /\ Cardinality(T6 \cap F) = Cardinality(T5 \cap F) + Bit(e6, F)
    BY <1>2, <1>7, OneMore
  <1> HIDE DEF T6
  <1>9. IsFiniteSet(T7 \cap F) /\ Cardinality(T7 \cap F) = Cardinality(T6 \cap F) + Bit(e7, F)
    BY <1>2, <1>8, OneMore
  <1> HIDE DEF T7
  <1>10. Cardinality(T8 \cap F) = Cardinality(T7 \cap F) + Bit(e8, F)
    BY <1>2, <1>9, OneMore
  <1> HIDE DEF T8
  <1>11. \A e : Bit(e, F) \in Int
    BY DEF Bit
  <1> QED BY <1>1, <1>3, <1>4, <1>5, <1>6, <1>7, <1>8, <1>9, <1>10, <1>11

LEMMA AroundIs ==
  ASSUME NEW a \in Int, NEW b \in Int
  PROVE  Plain!Around(<<a, b>>)
           = {<<a - 1, b - 1>>, <<a, b - 1>>, <<a + 1, b - 1>>, <<a - 1, b>>, <<a + 1, b>>,
              <<a - 1, b + 1>>, <<a, b + 1>>, <<a + 1, b + 1>>}
  <1> DEFINE E == {<<a - 1, b - 1>>, <<a, b - 1>>, <<a + 1, b - 1>>, <<a - 1, b>>, <<a + 1, b>>,
                   <<a - 1, b + 1>>, <<a, b + 1>>, <<a + 1, b + 1>>}
  <1>1. ASSUME NEW q PROVE q \in Plain!Around(<<a, b>>)
                             <=> \E i \in -1..1, j \in -1..1 : q = <<a + i, b + j>> /\ ~(i = 0 /\ j = 0)
    BY DEF Plain!Around
  <1>2. ASSUME NEW q, NEW i \in -1..1, NEW j \in -1..1, q = <<a + i, b + j>>, ~(i = 0 /\ j = 0) PROVE q \in E
    <2>1. (i = -1 \/ i = 0 \/ i = 1) /\ (j = -1 \/ j = 0 \/ j = 1)
      OBVIOUS
    <2>2. a + (-1) = a - 1 /\ a + 0 = a /\ b + (-1) = b - 1 /\ b + 0 = b
      OBVIOUS
    <2> QED BY <1>2, <2>1, <2>2
  <1>3. ASSUME NEW q \in E PROVE \E i \in -1..1, j \in -1..1 : q = <<a + i, b + j>> /\ ~(i = 0 /\ j = 0)
    <2>1. -1 \in -1..1 /\ 0 \in -1..1 /\ 1 \in -1..1 /\ -1 # 0 /\ 1 # 0
      OBVIOUS
    <2>2. a + (-1) = a - 1 /\ a + 0 = a /\ b + (-1) = b - 1 /\ b + 0 = b
      OBVIOUS
    <2>3. /\ <<a - 1, b - 1>> = <<a + (-1), b + (-1)>> /\ <<a, b - 1>> = <<a + 0, b + (-1)>>
          /\ <<a + 1, b - 1>> = <<a + 1, b + (-1)>>    /\ <<a - 1, b>> = <<a + (-1), b + 0>>
          /\ <<a + 1, b>> = <<a + 1, b + 0>>           /\ <<a - 1, b + 1>> = <<a + (-1), b + 1>>
          /\ <<a, b + 1>> = <<a + 0, b + 1>>
      BY <2>2
    <2> QED BY <2>1, <2>3
  <1> HIDE DEF E
  <1>4. Plain!Around(<<a, b>>) = E
    BY <1>1, <1>2, <1>3
  <1> QED BY <1>4 DEF E

LEMMA SameCardinality ==
  ASSUME NEW S
  PROVE  Plain!Cardinality(S) = Cardinality(S)
  BY DEF Plain!Cardinality, Cardinality

\* Plain Life counts the neighbours the kernel counts.
LEMMA NeighboursAre ==
  ASSUME NEW L \in SUBSET Cell, NEW C, NEW p \in Cell
  PROVE  Plain!Neighbours(L, C, p)
           = LiveNeighbours({q \in L : Home(p) \in C => Home(q) \in C}, p[1], p[2])
  <1> DEFINE F == {q \in L : Home(p) \in C => Home(q) \in C}
  <1>1. PICK a \in Int, b \in Int : p = <<a, b>>
    BY DEF Cell
  <1>2. Plain!Neighbours(L, C, p) = Cardinality(Plain!Around(p) \cap F)
    <2> DEFINE felt == {q \in Plain!Around(p) \cap L : Plain!Square(p) \in C => Plain!Square(q) \in C}
    <2>1. felt = Plain!Around(p) \cap F
      BY DEF Plain!Square, Home
    <2>2. Plain!Neighbours(L, C, p) = Cardinality(felt)
      BY SameCardinality DEF Plain!Neighbours
    <2> HIDE DEF felt
    <2> QED BY <2>1, <2>2
  <1> HIDE DEF F
  <1> DEFINE e1 == <<a - 1, b - 1>>
             e2 == <<a, b - 1>>
             e3 == <<a + 1, b - 1>>
             e4 == <<a - 1, b>>
             e5 == <<a + 1, b>>
             e6 == <<a - 1, b + 1>>
             e7 == <<a, b + 1>>
             e8 == <<a + 1, b + 1>>
  <1>3. a - 1 # a /\ a + 1 # a /\ a - 1 # a + 1 /\ b - 1 # b /\ b + 1 # b /\ b - 1 # b + 1
    OBVIOUS
  <1>4. /\ e2 # e1 /\ e3 \notin {e1, e2} /\ e4 \notin {e1, e2, e3} /\ e5 \notin {e1, e2, e3, e4}
        /\ e6 \notin {e1, e2, e3, e4, e5} /\ e7 \notin {e1, e2, e3, e4, e5, e6}
        /\ e8 \notin {e1, e2, e3, e4, e5, e6, e7}
    BY <1>3
  <1>5. Plain!Around(p) = {e1, e2, e3, e4, e5, e6, e7, e8}
    BY <1>1, AroundIs
  <1>6. LiveNeighbours(F, p[1], p[2])
          = Bit(e1, F) + Bit(e2, F) + Bit(e3, F) + Bit(e4, F) + Bit(e5, F) + Bit(e6, F) + Bit(e7, F) + Bit(e8, F)
    BY <1>1 DEF LiveNeighbours
  <1> HIDE DEF e1, e2, e3, e4, e5, e6, e7, e8
  <1>7. Cardinality(Plain!Around(p) \cap F)
          = Bit(e1, F) + Bit(e2, F) + Bit(e3, F) + Bit(e4, F) + Bit(e5, F) + Bit(e6, F) + Bit(e7, F) + Bit(e8, F)
    BY <1>4, <1>5, EightElements
  <1> QED BY <1>2, <1>6, <1>7 DEF F

LEMMA AroundBack ==
  ASSUME NEW p \in Cell, NEW q \in Plain!Around(p)
  PROVE  q \in Cell /\ p \in Plain!Around(q)
  <1>1. PICK a \in Int, b \in Int : p = <<a, b>>
    BY DEF Cell
  <1>2. PICK i \in -1..1, j \in -1..1 : q = <<a + i, b + j>> /\ q # p
    BY <1>1 DEF Plain!Around
  <1>3. q \in Cell
    BY <1>2 DEF Cell
  <1>4. -i \in -1..1 /\ -j \in -1..1 /\ (a + i) + (-i) = a /\ (b + j) + (-j) = b
    OBVIOUS
  <1>5. p \in {<<q[1] + k, q[2] + l>> : k \in -1..1, l \in -1..1}
    BY <1>1, <1>2, <1>4
  <1> QED BY <1>2, <1>3, <1>5 DEF Plain!Around

LEMMA GrownIs ==
  ASSUME NEW L \in SUBSET Cell, NEW C, NEW p
  PROVE  p \in Plain!Grown(L, C) <=> p \in Cell /\ NextAlive(L, C, RegionAlive, RegionDead, p)
  <1> DEFINE near == L \cup UNION {Plain!Around(q) : q \in L}
  <1>0. RegionAlive \subseteq Cell
    BY SimulationAssumption
  <1>1. near \subseteq Cell
    BY AroundBack
  <1>2. p \in Cell => (Lives(L, C, p) <=> LET n == Plain!Neighbours(L, C, p) IN n = 3 \/ (n = 2 /\ p \in L))
    BY NeighboursAre DEF Lives
  <1>3. p \in Plain!Grown(L, C)
          <=> \/ p \in RegionAlive
              \/ /\ p \in near /\ p \notin RegionAlive \cup RegionDead
                 /\ LET n == Plain!Neighbours(L, C, p) IN n = 3 \/ (n = 2 /\ p \in L)
    BY DEF Plain!Grown, Plain!Locked
  <1>4. ASSUME p \in Cell, Plain!Neighbours(L, C, p) = 3 PROVE p \in near
    <2> DEFINE felt == {q \in Plain!Around(p) \cap L : Plain!Square(p) \in C => Plain!Square(q) \in C}
    <2>1. Cardinality(felt) = 3
      BY <1>4, SameCardinality DEF Plain!Neighbours
    <2>2. felt # {}
      <3> HIDE DEF felt
      <3> QED BY <2>1, FS_EmptySet
    <2>3. PICK q \in Plain!Around(p) : q \in L
      BY <2>2
    <2>4. p \in Plain!Around(q)
      BY <1>4, <2>3, AroundBack
    <2> QED BY <2>3, <2>4
  <1> HIDE DEF near
  <1>5. p \in L => p \in near
    BY DEF near
  <1> QED BY <1>0, <1>1, <1>2, <1>3, <1>4, <1>5 DEF NextAlive

-----------------------------------------------------------------------------
(* The refinement: the plane is what the whole world shows. *)

LifeInv ==
  /\ IInv
  /\ plane = CellsOf(Whole(world))
  /\ Stamped(Whole(world), RegionAlive, RegionDead)

LEMMA LifeInvInit == Init => LifeInv
  <1> SUFFICES ASSUME Init PROVE LifeInv
    OBVIOUS
  <1> USE SimulationAssumption
  <1>1. IInv
    BY IInvInit
  <1>2. PICK board \in Boards :
          world = [chunks |-> Loaded(board, RegionAlive, RegionDead), paused |-> {}, owned |-> {}, tick |-> 0]
    BY DEF Init
  <1>3. world.chunks = Loaded(board, RegionAlive, RegionDead) /\ world.paused = {}
    BY <1>2
  <1>4. board \in SUBSET (Int \X Int) /\ RegionAlive \in SUBSET (Int \X Int) /\ RegionDead \in SUBSET (Int \X Int)
    BY DEF Cell
  <1>5. Stamped(Whole(world), RegionAlive, RegionDead)
    BY <1>1, <1>3, <1>4, LoadedInPlane DEF IInv
  <1>6. plane = CellsOf(Whole(world))
    BY <1>1, NowIs DEF Init, IInv
  <1> QED BY <1>1, <1>5, <1>6 DEF LifeInv

LEMMA RegionCells ==
  RegionAlive \in SUBSET (Int \X Int) /\ RegionDead \in SUBSET (Int \X Int)
  BY SimulationAssumption DEF Cell

LEMMA PlaneNow ==
  ASSUME IInv', Seen
  PROVE  plane' = CellsOf(Whole(world'))
  <1>1. WorldType(world') /\ Apart(world')
    BY DEF IInv
  <1>2. Now(world') = CellsOf(Whole(world'))
    BY <1>1, NowIs
  <1> QED BY <1>2 DEF Seen

\* What an action other than a tick does to the plane.
Touched == Plain!Touch \/ UNCHANGED Plain!plain_vars

LEMMA LifeEdit ==
  ASSUME LifeInv, NEW p \in EditCells, NEW alive \in BOOLEAN, Edit(p, alive)
  PROVE  LifeInv' /\ Touched
  <1> DEFINE v == Wake(world, {Home(p)})
             u == SetCellAt(v, Home(p), p[1] % CHUNK_SIZE, p[2] % CHUNK_SIZE, alive)
  <1>1. IInv /\ WorldType(world) /\ Apart(world) /\ IInv'
    BY IInvEdit DEF LifeInv, IInv
  <1>2. p \in Int \X Int
    BY SimulationAssumption DEF Cell
  <1>3. world' = u /\ plane' = CellsOf(Whole(world'))
    BY <1>1, PlaneNow DEF Edit
  <1>4. /\ CellsOf(Whole(u)) = IF p \in Region THEN CellsOf(Whole(world))
                              ELSE IF alive THEN CellsOf(Whole(world)) \cup {p} ELSE CellsOf(Whole(world)) \ {p}
        /\ Stamped(Whole(u), RegionAlive, RegionDead)
    <2>1. Stamped(Whole(world), RegionAlive, RegionDead)
      BY DEF LifeInv
    <2>2. u = Edited(world, p, alive)
      BY DEF Edited
    <2> HIDE DEF u
    <2>3. /\ CellsOf(Whole(u)) = IF p \in RegionAlive \cup RegionDead THEN CellsOf(Whole(world))
                                 ELSE IF alive THEN CellsOf(Whole(world)) \cup {p} ELSE CellsOf(Whole(world)) \ {p}
          /\ Stamped(Whole(u), RegionAlive, RegionDead)
      BY <1>1, <1>2, <2>1, <2>2, RegionCells, EditInPlane
    <2> QED BY <2>3 DEF Region
  <1>5. world'.owned = world.owned
    <2>1. v.owned = world.owned /\ IsRecord(v)
      BY <1>1, WakeIs DEF WorldType
    <2> HIDE DEF v
    <2> QED BY <1>3, <2>1 DEF SetCellAt, IsRecord
  <1> HIDE DEF u
  <1>6. LifeInv'
    BY <1>1, <1>3, <1>4 DEF LifeInv
  <1>7. plane' = IF p \in Region THEN plane ELSE IF alive THEN plane \cup {p} ELSE plane \ {p}
    BY <1>3, <1>4 DEF LifeInv
  <1>8. CASE plane' = plane
    BY <1>6, <1>8 DEF Touched, Plain!Touch, Plain!Claim
  <1>9. CASE plane' # plane
    <2>1. p \notin Region /\ p \in plane \cup plane' /\ plane' = IF alive THEN plane \cup {p} ELSE plane \ {p}
      BY <1>7, <1>9
    <2>2. Plain!Draw(p, alive)
      BY <1>5, <2>1 DEF Plain!Draw, Plain!Locked, Region
    <2> QED BY <1>6, <2>1, <2>2 DEF Touched, Plain!Touch
  <1> QED BY <1>8, <1>9

LEMMA LifeReap ==
  ASSUME LifeInv, NEW c, Reap(c)
  PROVE  LifeInv' /\ Touched
  <1> DEFINE u == RemoveChunk(world, c)
             gone == {c} \cup Woken(world, {c})
             S == gone \cap {Plain!Square(p) : p \in plane}
  <1>1. IInv /\ WorldType(world) /\ Apart(world) /\ IInv'
    BY IInvReap DEF LifeInv, IInv
  <1>2. world' = u /\ plane' = CellsOf(Whole(world')) /\ \A p \in Region : Home(p) # c
    BY <1>1, PlaneNow DEF Reap
  <1>3. /\ CellsOf(Whole(u)) = {p \in CellsOf(Whole(world)) : Home(p) \notin gone}
        /\ \A p \in Region : Home(p) \notin gone
        /\ Stamped(Whole(u), RegionAlive, RegionDead)
    BY <1>1, <1>2, RegionCells, ReapInPlane DEF LifeInv, Region
  <1>4. world'.owned = world.owned
    BY <1>1, <1>2 DEF RemoveChunk, WorldType, IsRecord
  <1> HIDE DEF u, gone
  <1>5. LifeInv'
    BY <1>1, <1>2, <1>3 DEF LifeInv
  <1>6. plane' = {p \in plane : Plain!Square(p) \notin S}
    <2>1. plane' = {p \in plane : Plain!Square(p) \notin gone}
      BY <1>2, <1>3 DEF LifeInv, Plain!Square, Home
    <2> QED BY <2>1
  <1>7. \A p \in Plain!Locked : Plain!Square(p) \notin S
    BY <1>3 DEF Plain!Locked, Plain!Square, Region, Home
  <1>8. S \in SUBSET {Plain!Square(p) : p \in plane}
    OBVIOUS
  <1> HIDE DEF S
  <1>9. Plain!Wipe(S)
    BY <1>4, <1>6, <1>7 DEF Plain!Wipe
  <1> QED BY <1>5, <1>8, <1>9 DEF Touched, Plain!Touch

\* Waking, claims and scans are not seen in the plane.
LEMMA LifeUnseen ==
  ASSUME LifeInv, IInv', plane' = plane \/ Seen, Whole(world') = Whole(world)
  PROVE  LifeInv' /\ Touched
  <1>1. plane' = plane
    BY PlaneNow DEF LifeInv
  <1>2. LifeInv'
    BY <1>1 DEF LifeInv
  <1> QED BY <1>1, <1>2 DEF Touched, Plain!Touch, Plain!Claim

LEMMA LifeSubscribe ==
  ASSUME LifeInv, NEW c, Subscribe(c)
  PROVE  LifeInv' /\ Touched
  <1>1. IInv' /\ Seen
    BY IInvSubscribe DEF LifeInv, Subscribe
  <1>2. Whole(world') = Whole(world)
    <2>1. world' = world \/ world' = Wake(world, {c})
      BY DEF Subscribe
    <2>2. Whole(Wake(world, {c})) = Whole(world)
      BY WakeWhole DEF LifeInv, IInv
    <2> QED BY <2>1, <2>2
  <1> QED BY <1>1, <1>2, LifeUnseen

LEMMA LifeSetOwned ==
  ASSUME LifeInv, NEW S, SetOwned(S)
  PROVE  LifeInv' /\ Touched
  <1>1. IInv' /\ Seen
    BY IInvSetOwned DEF LifeInv, SetOwned
  <1>2. world'.chunks = world.chunks /\ world'.paused = world.paused /\ world'.tick = world.tick
    BY DEF SetOwned, LifeInv, IInv, WorldType, IsRecord
  <1>3. WorldType(world) /\ Apart(world) /\ WorldType(world') /\ Apart(world')
    BY <1>1 DEF LifeInv, IInv
  <1>4. Whole(world') = Whole(world)
    BY <1>2, <1>3, ClaimInPlane
  <1> QED BY <1>1, <1>4, LifeUnseen

LEMMA LifeTick ==
  ASSUME LifeInv, Tick
  PROVE  /\ LifeInv'
         /\ Recurring(world') /\ Uncut(world') => Plain!Generation
  <1>1. PICK w : /\ WorldType(w) /\ Apart(w) /\ Whole(w) = Whole(world) /\ w.owned = world.owned
                 /\ world' = AfterTick(w, TickInto(w))
    BY TickIs DEF LifeInv
  <1>2. IInv' /\ Seen
    BY IInvTick DEF LifeInv, Tick
  <1>3. plane' = CellsOf(Whole(world'))
    BY <1>2, PlaneNow
  <1>4. Stamped(Whole(w), RegionAlive, RegionDead) /\ plane = CellsOf(Whole(w))
    BY <1>1 DEF LifeInv
  <1>5. Stamped(Whole(world'), RegionAlive, RegionDead)
    BY <1>1, <1>4, RegionCells, TickStamped
  <1>6. LifeInv'
    BY <1>2, <1>3, <1>5 DEF LifeInv
  <1>7. world'.owned = world.owned
    BY <1>1 DEF AfterTick, WorldType, IsRecord
  <1>8. ASSUME Recurring(world'), Uncut(world') PROVE Plain!Generation
    <2>1. \A g \in world'.paused : Steady(w, g)
      BY <1>1, <1>7, <1>8 DEF Recurring, Uncut, Steady
    <2>2. ASSUME NEW p \in Cell
          PROVE  p \in plane' <=> NextAlive(plane, world.owned, RegionAlive, RegionDead, p)
      <3>1. p \in Int \X Int
        BY DEF Cell
      <3>2. p \in CellsOf(Whole(world')) <=> NextAlive(CellsOf(Whole(w)), w.owned, RegionAlive, RegionDead, p)
        BY <1>1, <1>4, <2>1, <3>1, RegionCells, TickInPlane
      <3> QED BY <1>1, <1>3, <1>4, <3>2
    <2>3. plane' \subseteq Cell /\ plane \in SUBSET Cell
      <3>1. IsChunks(Whole(world)) /\ IsChunks(Whole(world'))
        BY <1>2, WholeIs DEF LifeInv, IInv
      <3> QED BY <1>3, <3>1, CellsAre DEF LifeInv, Cell
    <2>4. \A p : p \in Plain!Grown(plane, world.owned)
                   <=> p \in Cell /\ NextAlive(plane, world.owned, RegionAlive, RegionDead, p)
      BY <2>3, GrownIs
    <2>5. plane' = Plain!Grown(plane, world.owned)
      BY <2>2, <2>3, <2>4
    <2> QED BY <1>7, <2>5 DEF Plain!Generation
  <1> QED BY <1>6, <1>8

LEMMA LifeInvNext ==
  ASSUME LifeInv, [Next]_vars
  PROVE  /\ LifeInv'
         /\ world'.tick = world.tick => Touched
         /\ world'.tick # world.tick /\ Recurring(world') /\ Uncut(world') => Plain!Generation
  <1>0. IInv /\ IInv'
    BY IInvNext DEF LifeInv
  <1>1. ASSUME NEW p \in EditCells, NEW alive \in BOOLEAN, Edit(p, alive)
        PROVE  LifeInv' /\ Touched /\ world'.tick = world.tick
    BY <1>0, <1>1, LifeEdit, EditTick
  <1>2. ASSUME NEW c \in Watchable, Reap(c) PROVE LifeInv' /\ Touched /\ world'.tick = world.tick
    <2>1. world'.tick = world.tick
      BY <1>2 DEF Reap, RemoveChunk, LifeInv, IInv, WorldType, IsRecord
    <2> QED BY <1>2, <2>1, LifeReap
  <1>3. ASSUME NEW c \in Watchable, Subscribe(c) PROVE LifeInv' /\ Touched /\ world'.tick = world.tick
    <2>1. Wake(world, {c}).tick = world.tick
      BY WakeIs DEF LifeInv, IInv, WorldType
    <2>2. world' = world \/ world' = Wake(world, {c})
      BY <1>3 DEF Subscribe
    <2> QED BY <1>3, <2>1, <2>2, LifeSubscribe
  <1>4. ASSUME NEW c \in Watchable, Unsubscribe(c) PROVE LifeInv' /\ Touched /\ world'.tick = world.tick
    <2>1. world' = world /\ Seen
      BY <1>4 DEF Unsubscribe
    <2> QED BY <1>0, <2>1, LifeUnseen
  <1>5. ASSUME NEW S \in Claims, SetOwned(S) PROVE LifeInv' /\ Touched /\ world'.tick = world.tick
    <2>1. world'.tick = world.tick
      BY <1>5 DEF SetOwned, LifeInv, IInv, WorldType, IsRecord
    <2> QED BY <1>5, <2>1, LifeSetOwned
  <1>6. CASE DetectorScan \/ UNCHANGED vars
    <2>1. world' = world /\ plane' = plane
      BY <1>6 DEF DetectorScan, vars
    <2>2. LifeInv' /\ Touched
      BY <1>0, <2>1, LifeUnseen
    <2> QED BY <2>1, <2>2
  <1>7. CASE Tick
    <2>1. world'.tick # world.tick
      <3>1. PICK w : WorldType(w) /\ Apart(w) /\ w.tick = world.tick /\ world' = AfterTick(w, TickInto(w))
        BY <1>0, <1>7, TickIs
      <3>2. world'.tick = world.tick + 1 /\ world.tick \in Nat
        BY <1>0, <3>1, TickOK DEF IInv, WorldType
      <3> QED BY <3>2
    <2> QED BY <1>7, <2>1, LifeTick
  <1> QED BY <1>1, <1>2, <1>3, <1>4, <1>5, <1>6, <1>7 DEF Next

(***************************************************************************)
(* The world implements plain Life: for every chunk size, period, board,   *)
(* region and claim, and every order of commands and promotions, a tick is *)
(* one B3/S23 generation of an unbounded plane, and whatever else happens  *)
(* draws a cell, wipes squares or leaves the plane alone - under the two   *)
(* conditions StepsAsLife names, which the code does not ensure.           *)
(***************************************************************************)
THEOREM WorldLives == Spec => StepsAsLife
  <1>1. Init => LifeInv
    BY LifeInvInit
  <1>2. LifeInv /\ [Next]_vars => LifeInv'
    BY LifeInvNext
  <1>3. LifeInv /\ [Next]_vars =>
          [(\A w \in {world, world'} : Recurring(w) /\ Uncut(w)) =>
             IF world'.tick # world.tick THEN Plain!Generation
             ELSE [Plain!Touch]_(Plain!plain_vars)]_vars
    BY LifeInvNext DEF Touched
  <1> QED BY <1>1, <1>2, <1>3, PTL DEF Spec, StepsAsLife

=============================================================================
