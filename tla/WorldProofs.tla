----------------------------- MODULE WorldProofs ------------------------------
(***************************************************************************)
(* What the operators of World and of the chunks keep: types, and that what *)
(* is paused stays apart.                                                   *)
(***************************************************************************)
EXTENDS World, ChunksProofs

-----------------------------------------------------------------------------
(* Coordinates and directions. *)

LEMMA DirIs == Dir = {<<-1, -1>>, <<0, -1>>, <<1, -1>>, <<-1, 0>>, <<1, 0>>, <<-1, 1>>, <<0, 1>>, <<1, 1>>}
  <1>1. \A d \in Dir : \E i, j \in -1..1 : d = <<i, j>> /\ ~(i = 0 /\ j = 0)
    BY DEF Dir
  <1>2. \A i \in -1..1 : i = -1 \/ i = 0 \/ i = 1
    OBVIOUS
  <1>3. \A i, j \in -1..1 : ~(i = 0 /\ j = 0) => <<i, j>> \in Dir
    BY DEF Dir
  <1>4. -1 \in -1..1 /\ 0 \in -1..1 /\ 1 \in -1..1
    OBVIOUS
  <1> QED BY <1>1, <1>2, <1>3, <1>4

\* There and back again.
LEMMA OppIs ==
  ASSUME NEW d \in Dir, NEW c \in ChunkCoord
  PROVE  /\ Opp(d) \in Dir /\ Opp(Opp(d)) = d
         /\ To(c, d) \in ChunkCoord /\ To(To(c, d), Opp(d)) = c
  <1>1. PICK i, j \in -1..1 : d = <<i, j>> /\ ~(i = 0 /\ j = 0)
    BY DEF Dir
  <1>2. PICK x, y \in Int : c = <<x, y>>
    BY DEF ChunkCoord
  <1>3. -i \in -1..1 /\ -j \in -1..1 /\ ~(-i = 0 /\ -j = 0) /\ -(-i) = i /\ -(-j) = j
    BY <1>1
  <1>4. Opp(d) = <<-i, -j>> /\ To(c, d) = <<x + i, y + j>>
    BY <1>1, <1>2 DEF Opp, To
  <1>5. Opp(d) \in Dir
    BY <1>3, <1>4 DEF Dir
  <1>6. Opp(Opp(d)) = d
    BY <1>1, <1>3, <1>4 DEF Opp
  <1>7. To(To(c, d), Opp(d)) = <<(x + i) + (-i), (y + j) + (-j)>>
    BY <1>4 DEF To
  <1>8. (x + i) + (-i) = x /\ (y + j) + (-j) = y /\ x + i \in Int /\ y + j \in Int
    OBVIOUS
  <1> QED BY <1>2, <1>4, <1>5, <1>6, <1>7, <1>8 DEF ChunkCoord

-----------------------------------------------------------------------------
(* Chunks: what they show, and what a step makes of them. *)

LEMMA Sizes == 0 \in Idx /\ Last \in Idx /\ EmptyRows \in Rows /\ EmptyChunk \in Chunk /\ EmptyBundle \in EdgeBundle
  BY SizeAssumption DEF Idx, Last, EmptyRows, EmptyChunk, Unlocked, Chunk, Frozen, Rows, Row, EmptyBundle, EdgeBundle

LEMMA EdgesType == ASSUME NEW ch \in Chunk PROVE Edges(ch) \in EdgeBundle
  <1>1. \A y \in Idx : ch.rows[y] \subseteq Idx
    BY DEF Chunk, Rows, Row
  <1>2. ch.rows[0] \in Row /\ ch.rows[Last] \in Row
    BY <1>1, Sizes DEF Row
  <1> QED BY <1>2 DEF Edges, EdgeBundle

LEMMA HaloType ==
  ASSUME NEW edges, \A n \in DOMAIN edges : edges[n] \in EdgeBundle, NEW c
  PROVE  Halo(edges, c) \in EdgeBundle
  <1> DEFINE At(dx, dy) == LET n == To(c, <<dx, dy>>) IN IF n \in DOMAIN edges THEN edges[n] ELSE EmptyBundle
  <1>1. \A dx, dy : At(dx, dy) \in EdgeBundle
    BY Sizes
  <1>2. \A dx, dy : /\ At(dx, dy).top \in Row /\ At(dx, dy).bottom \in Row
                    /\ At(dx, dy).left \in SUBSET Idx /\ At(dx, dy).right \in SUBSET Idx
    <2> HIDE DEF At
    <2> QED BY <1>1 DEF EdgeBundle
  <1>3. Halo(edges, c) = [top     |-> At(0, -1).bottom, bottom |-> At(0, 1).top,
                          left    |-> At(-1, 0).right,  right  |-> At(1, 0).left,
                          corners |-> Halo(edges, c).corners]
    BY DEF Halo
  <1>4. Halo(edges, c).corners \in SUBSET Corner
    BY DEF Halo
  <1> HIDE DEF At
  <1> QED BY <1>2, <1>3, <1>4 DEF EdgeBundle

\* In every direction, a chunk shows what its edge bundle says.
LEMMA ShowsIs ==
  ASSUME NEW ch \in Chunk
  PROVE  /\ Shows(ch, <<0, -1>>) <=> Edges(ch).top # {}
         /\ Shows(ch, <<0, 1>>) <=> Edges(ch).bottom # {}
         /\ Shows(ch, <<-1, 0>>) <=> Edges(ch).left # {}
         /\ Shows(ch, <<1, 0>>) <=> Edges(ch).right # {}
         /\ Shows(ch, <<-1, -1>>) <=> "TL" \in Edges(ch).corners
         /\ Shows(ch, <<1, -1>>) <=> "TR" \in Edges(ch).corners
         /\ Shows(ch, <<-1, 1>>) <=> "BL" \in Edges(ch).corners
         /\ Shows(ch, <<1, 1>>) <=> "BR" \in Edges(ch).corners
  <1>1. \A y \in Idx : ch.rows[y] \subseteq Idx
    BY DEF Chunk, Rows, Row
  <1>2. 0 \in Idx /\ Last \in Idx
    BY Sizes
  <1>3. \A i, j : Shows(ch, <<i, j>>) <=>
          \E y \in Idx, x \in Idx : /\ x \in ch.rows[y]
                                    /\ i = -1 => x = 0
                                    /\ i = 1  => x = Last
                                    /\ j = -1 => y = 0
                                    /\ j = 1  => y = Last
    BY DEF Shows
  <1>4. Shows(ch, <<0, -1>>) <=> Edges(ch).top # {}
    BY <1>1, <1>2, <1>3 DEF Edges
  <1>5. Shows(ch, <<0, 1>>) <=> Edges(ch).bottom # {}
    BY <1>1, <1>2, <1>3 DEF Edges
  <1>6. Shows(ch, <<-1, 0>>) <=> Edges(ch).left # {}
    BY <1>1, <1>2, <1>3 DEF Edges
  <1>7. Shows(ch, <<1, 0>>) <=> Edges(ch).right # {}
    BY <1>1, <1>2, <1>3 DEF Edges
  <1>8. Shows(ch, <<-1, -1>>) <=> "TL" \in Edges(ch).corners
    BY <1>1, <1>2, <1>3 DEF Edges, Corner
  <1>9. Shows(ch, <<1, -1>>) <=> "TR" \in Edges(ch).corners
    BY <1>1, <1>2, <1>3 DEF Edges, Corner
  <1>10. Shows(ch, <<-1, 1>>) <=> "BL" \in Edges(ch).corners
    BY <1>1, <1>2, <1>3 DEF Edges, Corner
  <1>11. Shows(ch, <<1, 1>>) <=> "BR" \in Edges(ch).corners
    BY <1>1, <1>2, <1>3 DEF Edges, Corner
  <1> QED BY <1>4, <1>5, <1>6, <1>7, <1>8, <1>9, <1>10, <1>11

\* A chunk whose edge bundle is empty shows nobody a cell.
LEMMA EdgesEmpty ==
  ASSUME NEW ch \in Chunk, Edges(ch) = EmptyBundle, NEW d \in Dir
  PROVE  ~Shows(ch, d)
  BY DirIs, ShowsIs DEF EmptyBundle

\* A halo is empty if no chunk around shows a cell.
LEMMA HaloShown ==
  ASSUME NEW chunks, \A n \in DOMAIN chunks : chunks[n] \in Chunk, NEW c,
         Halo(EdgesOf(chunks), c) = EmptyBundle,
         NEW d \in Dir, To(c, d) \in DOMAIN chunks
  PROVE  ~Shows(chunks[To(c, d)], Opp(d))
  <1> DEFINE edges == EdgesOf(chunks)
             At(dx, dy) == LET n == To(c, <<dx, dy>>) IN IF n \in DOMAIN edges THEN edges[n] ELSE EmptyBundle
             halo == Halo(edges, c)
  <1>1. /\ halo.top = At(0, -1).bottom /\ halo.bottom = At(0, 1).top
        /\ halo.left = At(-1, 0).right /\ halo.right = At(1, 0).left
        /\ "TL" \in halo.corners <=> "BR" \in At(-1, -1).corners
        /\ "TR" \in halo.corners <=> "BL" \in At(1, -1).corners
        /\ "BL" \in halo.corners <=> "TR" \in At(-1, 1).corners
        /\ "BR" \in halo.corners <=> "TL" \in At(1, 1).corners
    BY DEF Halo, Corner
  <1>2. /\ At(0, -1).bottom = {} /\ At(0, 1).top = {} /\ At(-1, 0).right = {} /\ At(1, 0).left = {}
        /\ "BR" \notin At(-1, -1).corners /\ "BL" \notin At(1, -1).corners
        /\ "TR" \notin At(-1, 1).corners /\ "TL" \notin At(1, 1).corners
    <2> HIDE DEF At
    <2> QED BY <1>1 DEF EmptyBundle
  <1>3. PICK i, j \in -1..1 : d = <<i, j>>
    BY DEF Dir
  <1>4. At(i, j) = Edges(chunks[To(c, d)])
    BY <1>3 DEF EdgesOf
  <1>5. Opp(d) = <<-i, -j>>
    BY <1>3 DEF Opp
  <1> HIDE DEF At
  <1>6. \/ i = -1 /\ -i = 1
        \/ i = 0 /\ -i = 0
        \/ i = 1 /\ -i = -1
    OBVIOUS
  <1>7. \/ j = -1 /\ -j = 1
        \/ j = 0 /\ -j = 0
        \/ j = 1 /\ -j = -1
    OBVIOUS
  <1>8. <<i, j>> # <<0, 0>>
    BY <1>3 DEF Dir
  <1>9. chunks[To(c, d)] \in Chunk
    OBVIOUS
  <1> QED BY <1>2, <1>4, <1>5, <1>6, <1>7, <1>8, <1>9, ShowsIs

\* The lower bits of a count, where they are columns of a row.
Within(c) == c.s0 \subseteq Idx /\ c.s1 \subseteq Idx

LEMMA AddWithin ==
  /\ Within(ZeroCount)
  /\ \A c, n : Within(c) /\ n \subseteq Idx => Within(Add(c, n))
  <1>1. ASSUME NEW c, NEW n, Within(c), n \subseteq Idx
        PROVE  Within(Add(c, n))
    <2>1. ASSUME NEW x, x \in Add(c, n).s0 \/ x \in Add(c, n).s1 PROVE x \in Idx
      <3>1. /\ x \in Add(c, n).s0 <=> ~(x \in c.s0 <=> x \in n)
            /\ x \in Add(c, n).s1 <=> ~(x \in c.s1 <=> x \in c.s0 /\ x \in n)
        BY AddBits, Zenon
      <3>2. (x \in c.s0 => x \in Idx) /\ (x \in c.s1 => x \in Idx) /\ (x \in n => x \in Idx)
        BY <1>1 DEF Within
      <3> QED BY <2>1, <3>1, <3>2
    <2> QED BY <2>1 DEF Within
  <1>2. Within(ZeroCount)
    BY DEF ZeroCount, Within
  <1> QED BY <1>1, <1>2

\* The kernel sets no bit beyond a row's width.
LEMMA KernelRows ==
  ASSUME NEW rows \in Rows, NEW halo \in EdgeBundle
  PROVE  Kernel(rows, halo) \in Rows
  <1>1. ASSUME NEW y \in Idx PROVE Kernel(rows, halo)[y] \subseteq Idx
    <2> DEFINE top == RowAt(rows, halo, y - 1)
               bot == RowAt(rows, halo, y + 1)
               n1 == ShiftUp(top, LeftBit(halo, y - 1))
               n3 == ShiftDown(top, RightBit(halo, y - 1))
               n4 == ShiftUp(rows[y], LeftBit(halo, y))
               n5 == ShiftDown(rows[y], RightBit(halo, y))
               n6 == ShiftUp(bot, LeftBit(halo, y + 1))
               n8 == ShiftDown(bot, RightBit(halo, y + 1))
               a1 == Add(ZeroCount, n1)
               a2 == Add(a1, top)
               a3 == Add(a2, n3)
               a4 == Add(a3, n4)
               a5 == Add(a4, n5)
               a6 == Add(a5, n6)
               a7 == Add(a6, bot)
               a8 == Add(a7, n8)
    <2>1. RowCount(rows, halo, y) = a8
      BY DEF RowCount
    <2>2. Kernel(rows, halo)[y] = (a8.s1 \cap (a8.s0 \cup rows[y])) \ (a8.s2 \cup a8.s3)
      BY <2>1 DEF Kernel
    <2>3. \A r, b : ShiftUp(r, b) \subseteq Idx /\ ShiftDown(r, b) \subseteq Idx
      BY DEF ShiftUp, ShiftDown
    <2>4. rows[y] \subseteq Idx /\ top \subseteq Idx /\ bot \subseteq Idx
      <3>1. y - 1 < 0 \/ y - 1 \in Idx
        BY SizeAssumption DEF Idx
      <3>2. y + 1 > Last \/ y + 1 \in Idx
        BY SizeAssumption DEF Idx, Last
      <3>3. \A z : rows[z] \subseteq Idx \/ z \notin Idx
        BY DEF Rows, Row
      <3>4. halo.top \subseteq Idx /\ halo.bottom \subseteq Idx
        BY DEF EdgeBundle, Row
      <3> QED BY <3>1, <3>2, <3>3, <3>4 DEF RowAt
    <2>5. n1 \subseteq Idx /\ n3 \subseteq Idx /\ n4 \subseteq Idx /\ n5 \subseteq Idx /\ n6 \subseteq Idx /\ n8 \subseteq Idx
      BY <2>3
    <2> HIDE DEF top, bot, n1, n3, n4, n5, n6, n8
    <2>6. \A c, n : Within(c) /\ n \subseteq Idx => Within(Add(c, n))
      BY AddWithin
    <2>7. Within(ZeroCount)
      BY AddWithin
    <2>8. /\ a1 = Add(ZeroCount, n1) /\ a2 = Add(a1, top) /\ a3 = Add(a2, n3) /\ a4 = Add(a3, n4)
          /\ a5 = Add(a4, n5) /\ a6 = Add(a5, n6) /\ a7 = Add(a6, bot) /\ a8 = Add(a7, n8)
      OBVIOUS
    <2> HIDE DEF a1, a2, a3, a4, a5, a6, a7, a8
    <2>9. Within(a4)
      <3>1. Within(a1)
        BY <2>5, <2>6, <2>7, <2>8
      <3>2. Within(a2)
        BY <3>1, <2>4, <2>6, <2>8
      <3>3. Within(a3)
        BY <3>2, <2>5, <2>6, <2>8
      <3> QED BY <3>3, <2>5, <2>6, <2>8
    <2>10. Within(a8)
      <3>1. Within(a5)
        BY <2>9, <2>5, <2>6, <2>8
      <3>2. Within(a6)
        BY <3>1, <2>5, <2>6, <2>8
      <3>3. Within(a7)
        BY <3>2, <2>4, <2>6, <2>8
      <3> QED BY <3>3, <2>5, <2>6, <2>8
    <2> QED BY <2>2, <2>10 DEF Within
  <1>2. Kernel(rows, halo) = [y \in Idx |-> Kernel(rows, halo)[y]]
    BY DEF Kernel
  <1> QED BY <1>1, <1>2 DEF Rows, Row

\* A step changes cells, not which of them are locked.
LEMMA StepType ==
  ASSUME NEW ch \in Chunk, NEW halo \in EdgeBundle
  PROVE  Step(ch, halo) \in Chunk /\ Step(ch, halo).frozen = ch.frozen
  <1> DEFINE K == Kernel(ch.rows, halo)
             next == [y \in Idx |-> (K[y] \ ch.frozen.mask[y]) \cup (ch.frozen.value[y] \cap ch.frozen.mask[y])]
  <1>1. ch.rows \in Rows /\ ch.frozen.value \in Rows
    BY DEF Chunk, Frozen
  <1>2. K \in Rows
    BY <1>1, KernelRows
  <1>3. Step(ch, halo) = ch \/ Step(ch, halo) = [ch EXCEPT !.rows = next]
    BY DEF Step
  <1> HIDE DEF K
  <1>4. next \in Rows
    BY <1>1, <1>2 DEF Rows, Row
  <1> HIDE DEF next
  <1> QED BY <1>3, <1>4 DEF Chunk

-----------------------------------------------------------------------------
(* A pattern by itself: its phases. *)

LEMMA StepTogetherType ==
  ASSUME NEW D, NEW chunks \in [D -> Chunk]
  PROVE  /\ StepTogether(chunks) \in [D -> Chunk]
         /\ \A c \in D : StepTogether(chunks)[c].frozen = chunks[c].frozen
  <1> DEFINE e == EdgesOf(chunks)
  <1>1. \A n \in DOMAIN e : e[n] \in EdgeBundle
    BY EdgesType DEF EdgesOf
  <1>2. StepTogether(chunks) = [c \in D |-> Step(chunks[c], Halo(e, c))]
    BY DEF StepTogether
  <1> HIDE DEF e
  <1>3. \A c \in D : Halo(e, c) \in EdgeBundle
    BY <1>1, HaloType
  <1>4. \A c \in D : Step(chunks[c], Halo(e, c)) \in Chunk /\ Step(chunks[c], Halo(e, c)).frozen = chunks[c].frozen
    BY <1>3, StepType
  <1> QED BY <1>2, <1>4

\* f lists the phases 0 to n.
IsPhases(f, chunks, n) == f = [k \in 0..n |-> IF k = 0 THEN chunks ELSE StepTogether(f[k - 1])]

LEMMA PhasesExist ==
  ASSUME NEW chunks
  PROVE  \A n \in Nat : \E f : IsPhases(f, chunks, n)
  <1> DEFINE S == {n \in Nat : \E f : IsPhases(f, chunks, n)}
  <1>1. 0 \in S
    <2> DEFINE f == [k \in 0..0 |-> chunks]
    <2>1. IsPhases(f, chunks, 0)
      BY DEF IsPhases
    <2> QED BY <2>1
  <1>2. ASSUME NEW n \in Nat, n \in S PROVE n + 1 \in S
    <2>1. PICK f : IsPhases(f, chunks, n)
      BY <1>2
    <2> DEFINE g == [k \in 0..(n + 1) |-> IF k = n + 1 THEN StepTogether(f[n]) ELSE f[k]]
    <2>2. \A k \in 0..(n + 1) : g[k] = IF k = 0 THEN chunks ELSE StepTogether(g[k - 1])
      BY <2>1 DEF IsPhases
    <2>3. IsPhases(g, chunks, n + 1)
      BY <2>2 DEF IsPhases
    <2> QED BY <2>3
  <1> HIDE DEF S
  <1>3. Nat \subseteq S
    BY <1>1, <1>2, SetInduction
  <1> QED BY <1>3 DEF S

\* Two lists of phases agree as far as both go.
LEMMA PhasesAgree ==
  ASSUME NEW chunks, NEW n \in Nat, NEW m \in Nat, NEW f, NEW g,
         IsPhases(f, chunks, n), IsPhases(g, chunks, m)
  PROVE  \A k \in Nat : k <= n /\ k <= m => f[k] = g[k]
  <1> DEFINE S == {k \in Nat : k <= n /\ k <= m => f[k] = g[k]}
  <1>1. 0 \in S
    BY DEF IsPhases
  <1>2. ASSUME NEW k \in Nat, k \in S PROVE k + 1 \in S
    <2> SUFFICES ASSUME k + 1 <= n, k + 1 <= m PROVE f[k + 1] = g[k + 1]
      OBVIOUS
    <2>1. f[k] = g[k]
      BY <1>2
    <2>2. f[k + 1] = StepTogether(f[k]) /\ g[k + 1] = StepTogether(g[k])
      BY DEF IsPhases
    <2> QED BY <2>1, <2>2
  <1> HIDE DEF S
  <1>3. Nat \subseteq S
    BY <1>1, <1>2, SetInduction
  <1> QED BY <1>3 DEF S

LEMMA PhaseIs ==
  ASSUME NEW chunks, NEW n \in Nat
  PROVE  \E f : IsPhases(f, chunks, n) /\ Phase(chunks, n) = f[n]
  <1> DEFINE f == CHOOSE f : IsPhases(f, chunks, n)
  <1>1. IsPhases(f, chunks, n)
    BY PhasesExist
  <1>2. Phase(chunks, n) = f[n]
    BY DEF Phase, IsPhases
  <1> QED BY <1>1, <1>2

\* The recursion of Phase.
LEMMA PhaseNext ==
  ASSUME NEW chunks
  PROVE  /\ Phase(chunks, 0) = chunks
         /\ \A n \in Nat : Phase(chunks, n + 1) = StepTogether(Phase(chunks, n))
  <1>1. Phase(chunks, 0) = chunks
    <2>1. PICK f : IsPhases(f, chunks, 0) /\ Phase(chunks, 0) = f[0]
      BY PhaseIs
    <2> QED BY <2>1 DEF IsPhases
  <1>2. ASSUME NEW n \in Nat PROVE Phase(chunks, n + 1) = StepTogether(Phase(chunks, n))
    <2>1. PICK f : IsPhases(f, chunks, n) /\ Phase(chunks, n) = f[n]
      BY PhaseIs
    <2>2. PICK g : IsPhases(g, chunks, n + 1) /\ Phase(chunks, n + 1) = g[n + 1]
      BY PhaseIs
    <2>3. f[n] = g[n]
      BY <2>1, <2>2, PhasesAgree
    <2>4. g[n + 1] = StepTogether(g[n])
      BY <2>2 DEF IsPhases
    <2> QED BY <2>1, <2>2, <2>3, <2>4
  <1> QED BY <1>1, <1>2

LEMMA PhaseType ==
  ASSUME NEW D, NEW chunks \in [D -> Chunk], NEW n \in Nat
  PROVE  /\ Phase(chunks, n) \in [D -> Chunk]
         /\ \A c \in D : Phase(chunks, n)[c].frozen = chunks[c].frozen
  <1> DEFINE S == {k \in Nat : /\ Phase(chunks, k) \in [D -> Chunk]
                               /\ \A c \in D : Phase(chunks, k)[c].frozen = chunks[c].frozen}
  <1>1. 0 \in S
    BY PhaseNext
  <1>2. ASSUME NEW k \in Nat, k \in S PROVE k + 1 \in S
    <2>1. Phase(chunks, k + 1) = StepTogether(Phase(chunks, k))
      BY PhaseNext
    <2> QED BY <1>2, <2>1, StepTogetherType
  <1> HIDE DEF S
  <1>3. Nat \subseteq S
    BY <1>1, <1>2, SetInduction
  <1> QED BY <1>3 DEF S

-----------------------------------------------------------------------------
(* The world: its type, and what is paused stays apart. *)

IsRecord(w) == DOMAIN w = {"chunks", "paused", "owned", "tick"}

GroupType(g, tick) ==
  /\ g.members \in [Members(g) -> Chunk]
  /\ Members(g) \subseteq ChunkCoord
  /\ Members(g) # {}
  /\ g.period \in 1..MAX_PERIOD
  /\ g.paused_at_tick \in 0..tick

WorldType(w) ==
  /\ IsRecord(w)
  /\ w.chunks \in [DOMAIN w.chunks -> Chunk]
  /\ DOMAIN w.chunks \subseteq ChunkCoord
  /\ w.tick \in Nat
  /\ \A g \in w.paused : GroupType(g, w.tick)

\* No member of g is frozen, and none shows a cell outside g in any phase.
Sealed(g) ==
  \A k \in 0..(g.period - 1), c \in Members(g), d \in Dir :
    /\ ~IsFrozen(g.members[c])
    /\ Shows(Phase(g.members, k)[c], d) => To(c, d) \in Members(g)

Disjoint(P) == \A g, h \in P : g # h => Members(g) \cap Members(h) = {}

\* PausedApart of a world w.
Apart(w) ==
  /\ PausedCoords(w) \cap DOMAIN w.chunks = {}
  /\ Disjoint(w.paused)
  /\ \A g \in w.paused : Sealed(g)

LEMMA WakeIs ==
  ASSUME NEW w, IsRecord(w), NEW S
  PROVE  /\ IsRecord(Wake(w, S))
         /\ Wake(w, S).chunks = [c \in DOMAIN w.chunks \cup Woken(w, S) |->
                                   IF c \in Woken(w, S)
                                   THEN Awake(CHOOSE g \in w.paused : c \in Members(g), w.tick)[c]
                                   ELSE w.chunks[c]]
         /\ Wake(w, S).paused = w.paused \ Hit(w, S)
         /\ Wake(w, S).owned = w.owned
         /\ Wake(w, S).tick = w.tick
  BY DEF Wake, IsRecord

\* The phase a group wakes in is one of its phases.
LEMMA AwakePhase ==
  ASSUME NEW tick \in Int, NEW t \in Int, NEW g, GroupType(g, t)
  PROVE  /\ \E k \in 0..(g.period - 1) : Awake(g, tick) = Phase(g.members, k)
         /\ Awake(g, tick) \in [Members(g) -> Chunk]
         /\ \A c \in Members(g) : Awake(g, tick)[c].frozen = g.members[c].frozen
  <1> DEFINE k == (tick - g.paused_at_tick) % g.period
  <1>1. g.period \in Nat \ {0} /\ g.paused_at_tick \in Int
    BY PeriodAssumption DEF GroupType
  <1>2. tick - g.paused_at_tick \in Int
    BY <1>1
  <1>3. k \in 0..(g.period - 1)
    <2>1. \A a \in Int, p \in Nat \ {0} : a % p \in 0..(p - 1)
      OBVIOUS
    <2> QED BY <1>1, <1>2, <2>1
  <1>4. Awake(g, tick) = Phase(g.members, k)
    BY DEF Awake
  <1> HIDE DEF k
  <1>5. k \in Nat
    BY <1>1, <1>3
  <1>6. g.members \in [Members(g) -> Chunk]
    BY DEF GroupType
  <1> QED BY <1>3, <1>4, <1>5, <1>6, PhaseType

\* What is woken: each member at a phase of its own group.
LEMMA WakeChunks ==
  ASSUME NEW w, WorldType(w), Apart(w), NEW S
  PROVE  /\ DOMAIN Wake(w, S).chunks = DOMAIN w.chunks \cup Woken(w, S)
         /\ \A c \in DOMAIN w.chunks : Wake(w, S).chunks[c] = w.chunks[c]
         /\ \A g \in Hit(w, S) : \A c \in Members(g) : Wake(w, S).chunks[c] = Awake(g, w.tick)[c]
  <1> DEFINE v == Wake(w, S)
  <1>1. v.chunks = [c \in DOMAIN w.chunks \cup Woken(w, S) |->
                      IF c \in Woken(w, S)
                      THEN Awake(CHOOSE g \in w.paused : c \in Members(g), w.tick)[c]
                      ELSE w.chunks[c]]
    BY WakeIs, SMTT(30) DEF WorldType
  <1>2. Woken(w, S) \subseteq PausedCoords(w)
    BY DEF Woken, Hit, PausedCoords
  <1>3. \A c \in DOMAIN w.chunks : v.chunks[c] = w.chunks[c]
    BY <1>1, <1>2 DEF Apart
  <1>4. ASSUME NEW g \in Hit(w, S), NEW c \in Members(g)
        PROVE  v.chunks[c] = Awake(g, w.tick)[c]
    <2>1. g \in w.paused /\ c \in Woken(w, S)
      BY DEF Woken, Hit
    <2>2. (CHOOSE h \in w.paused : c \in Members(h)) = g
      BY <2>1 DEF Apart, Disjoint
    <2> QED BY <1>1, <2>1, <2>2
  <1> QED BY <1>1, <1>3, <1>4

LEMMA WakeOK ==
  ASSUME NEW w, WorldType(w), Apart(w), NEW S
  PROVE  /\ WorldType(Wake(w, S)) /\ Apart(Wake(w, S))
         /\ PausedCoords(Wake(w, S)) \subseteq PausedCoords(w) \ (S \cup Woken(w, S))
  <1> DEFINE v == Wake(w, S)
  <1>1. IsRecord(v) /\ v.paused = w.paused \ Hit(w, S) /\ v.tick = w.tick
    BY WakeIs DEF WorldType
  <1>2. v.chunks = [c \in DOMAIN v.chunks |-> v.chunks[c]]
    <2> DEFINE D == DOMAIN w.chunks \cup Woken(w, S)
               F(c) == IF c \in Woken(w, S)
                       THEN Awake(CHOOSE g \in w.paused : c \in Members(g), w.tick)[c]
                       ELSE w.chunks[c]
    <2>1. v.chunks = [c \in D |-> F(c)]
      BY WakeIs, SMTT(30) DEF WorldType
    <2> HIDE DEF D, F, v
    <2> QED BY <2>1
  <1>3. DOMAIN v.chunks = DOMAIN w.chunks \cup Woken(w, S)
    BY WakeChunks
  <1> HIDE DEF v
  <1>4. ASSUME NEW c \in DOMAIN v.chunks PROVE v.chunks[c] \in Chunk /\ c \in ChunkCoord
    <2>1. CASE c \in DOMAIN w.chunks
      BY <2>1, WakeChunks DEF v, WorldType
    <2>2. CASE c \in Woken(w, S)
      <3>1. PICK g \in Hit(w, S) : c \in Members(g)
        BY <2>2 DEF Woken
      <3>2. g \in w.paused /\ GroupType(g, w.tick) /\ w.tick \in Int
        BY <3>1 DEF WorldType, Hit
      <3>3. Awake(g, w.tick) \in [Members(g) -> Chunk]
        BY <3>2, AwakePhase
      <3>4. v.chunks[c] = Awake(g, w.tick)[c]
        BY <3>1, WakeChunks DEF v
      <3> QED BY <3>1, <3>2, <3>3, <3>4 DEF GroupType
    <2> QED BY <1>3, <2>1, <2>2
  <1>5. WorldType(v)
    BY <1>1, <1>2, <1>4 DEF WorldType
  <1>6. PausedCoords(v) \subseteq PausedCoords(w) \ (S \cup Woken(w, S))
    <2> SUFFICES ASSUME NEW c, c \in PausedCoords(v)
                 PROVE  c \in PausedCoords(w) /\ c \notin S /\ c \notin Woken(w, S)
      OBVIOUS
    <2>1. PICK g \in w.paused : g \notin Hit(w, S) /\ c \in Members(g)
      BY <1>1 DEF PausedCoords
    <2>2. c \notin S
      BY <2>1 DEF Hit
    <2>3. \A h \in Hit(w, S) : h \in w.paused /\ c \notin Members(h)
      BY <2>1 DEF Hit, Apart, Disjoint
    <2> QED BY <2>1, <2>2, <2>3 DEF Woken, PausedCoords
  <1>7. Apart(v)
    <2>1. PausedCoords(v) \cap DOMAIN v.chunks = {}
      BY <1>3, <1>6 DEF Apart
    <2>2. Disjoint(v.paused) /\ \A g \in v.paused : Sealed(g)
      BY <1>1 DEF Apart, Disjoint
    <2> QED BY <2>1, <2>2 DEF Apart
  <1> QED BY <1>5, <1>6, <1>7 DEF v

\* No running chunk outside M shows one of M a cell.
Unseen(w, M) ==
  \A c \in M, d \in Dir : To(c, d) \in DOMAIN w.chunks \ M => ~Shows(w.chunks[To(c, d)], Opp(d))

\* Whether the running chunks at q.members may be paused, apart from the rest.
MayPause(w, q) ==
  /\ q.members \subseteq DOMAIN w.chunks
  /\ q.members # {}
  /\ q.period \in 1..MAX_PERIOD
  /\ \A k \in 0..(q.period - 1), c \in q.members, d \in Dir :
       /\ ~IsFrozen(w.chunks[c])
       /\ Shows(Phase(Restrict(w.chunks, q.members), k)[c], d) => To(c, d) \in q.members
  /\ Unseen(w, q.members)

LEMMA CanPauseOK ==
  ASSUME NEW w, WorldType(w), NEW c, NEW period, CanPause(w, c, period)
  PROVE  MayPause(w, [members |-> {c}, period |-> period])
  <1> DEFINE start == Restrict(w.chunks, {c})
  <1>1. start \in [{c} -> Chunk]
    BY DEF Restrict, CanPause, WorldType
  <1> HIDE DEF start
  <1>2. period \in Nat /\ 0..(period - 1) \subseteq Nat
    BY PeriodAssumption DEF CanPause
  <1>3. ASSUME NEW k \in 0..(period - 1), NEW d \in Dir
        PROVE  ~Shows(Phase(start, k)[c], d)
    <2>1. Edges(Phase(start, k)[c]) = EmptyBundle
      BY DEF CanPause, start
    <2>2. Phase(start, k)[c] \in Chunk
      BY <1>1, <1>2, PhaseType
    <2> QED BY <2>1, <2>2, EdgesEmpty
  <1>4. Unseen(w, {c})
    <2> DEFINE live == Restrict(w.chunks, {n \in DOMAIN w.chunks : ~IsEmpty(w.chunks[n])})
    <2>1. Halo(EdgesOf(live), c) = EmptyBundle
      BY DEF CanPause, LiveEdges
    <2>2. \A n \in DOMAIN live : live[n] \in Chunk /\ live[n] = w.chunks[n]
      BY DEF Restrict, WorldType
    <2>3. \A n \in DOMAIN w.chunks : n \in DOMAIN live \/ \A d : ~Shows(w.chunks[n], d)
      BY DEF Restrict, IsEmpty, EmptyRows, Shows
    <2> HIDE DEF live
    <2>4. ASSUME NEW d \in Dir, To(c, d) \in DOMAIN w.chunks PROVE ~Shows(w.chunks[To(c, d)], Opp(d))
      <3>1. CASE To(c, d) \in DOMAIN live
        <4>1. ~Shows(live[To(c, d)], Opp(d))
          BY <2>1, <2>2, <3>1, HaloShown
        <4> QED BY <2>2, <3>1, <4>1
      <3> QED BY <2>3, <2>4, <3>1
    <2> QED BY <2>4 DEF Unseen
  <1> QED BY <1>3, <1>4 DEF MayPause, CanPause, start

LEMMA CanPauseGroupOK ==
  ASSUME NEW w, NEW M, NEW period, M # {}, CanPauseGroup(w, M, period)
  PROVE  MayPause(w, [members |-> M, period |-> period])
  BY DEF MayPause, CanPauseGroup, Unseen

LEMMA PauseIs ==
  ASSUME NEW w, IsRecord(w), NEW Q
  PROVE  /\ IsRecord(Pause(w, Q))
         /\ Pause(w, Q).chunks = [c \in DOMAIN w.chunks \ UNION {q.members : q \in Q} |-> w.chunks[c]]
         /\ Pause(w, Q).paused = w.paused \cup {[members        |-> Restrict(w.chunks, q.members),
                                                 period         |-> q.period,
                                                 paused_at_tick |-> w.tick] : q \in Q}
         /\ Pause(w, Q).owned = w.owned
         /\ Pause(w, Q).tick = w.tick
  BY DEF Pause, IsRecord, Restrict

LEMMA PauseOK ==
  ASSUME NEW w, WorldType(w), Apart(w), NEW Q,
         \A q \in Q : MayPause(w, q),
         \A q, r \in Q : q # r => q.members \cap r.members = {}
  PROVE  WorldType(Pause(w, Q)) /\ Apart(Pause(w, Q))
  <1> DEFINE v == Pause(w, Q)
             G(q) == [members        |-> Restrict(w.chunks, q.members),
                      period         |-> q.period,
                      paused_at_tick |-> w.tick]
             gone == UNION {q.members : q \in Q}
  <1>1. IsRecord(v) /\ v.paused = w.paused \cup {G(q) : q \in Q} /\ v.tick = w.tick
    BY PauseIs DEF WorldType
  <1>2. v.chunks = [c \in DOMAIN w.chunks \ gone |-> w.chunks[c]]
    BY PauseIs DEF WorldType
  <1>3. \A q : /\ G(q).members = [c \in q.members |-> w.chunks[c]]
               /\ Members(G(q)) = q.members
               /\ G(q).period = q.period /\ G(q).paused_at_tick = w.tick
    BY DEF Restrict, Members
  <1>4. \A q \in Q : GroupType(G(q), w.tick) /\ Sealed(G(q))
    <2> TAKE q \in Q
    <2>1. MayPause(w, q)
      OBVIOUS
    <2>2. G(q).members = Restrict(w.chunks, q.members)
      OBVIOUS
    <2> HIDE DEF G
    <2>3. GroupType(G(q), w.tick)
      <3>1. q.members \subseteq DOMAIN w.chunks /\ q.members # {} /\ q.period \in 1..MAX_PERIOD
        BY <2>1 DEF MayPause
      <3>2. [c \in q.members |-> w.chunks[c]] \in [q.members -> Chunk] /\ q.members \subseteq ChunkCoord
        BY <3>1 DEF WorldType
      <3>3. w.tick \in 0..w.tick
        BY DEF WorldType
      <3>4. /\ G(q).members \in [q.members -> Chunk] /\ Members(G(q)) = q.members
            /\ G(q).period = q.period /\ G(q).paused_at_tick = w.tick
        BY <1>3, <3>2
      <3> QED BY <3>1, <3>2, <3>3, <3>4 DEF GroupType
    <2>4. ASSUME NEW k \in 0..(q.period - 1), NEW c \in q.members, NEW d \in Dir
          PROVE  /\ ~IsFrozen(G(q).members[c])
                 /\ Shows(Phase(G(q).members, k)[c], d) => To(c, d) \in q.members
      <3>1. ~IsFrozen(w.chunks[c]) /\ (Shows(Phase(Restrict(w.chunks, q.members), k)[c], d) => To(c, d) \in q.members)
        BY <2>1 DEF MayPause
      <3>2. G(q).members[c] = w.chunks[c]
        <4>1. G(q).members = [x \in q.members |-> w.chunks[x]]
          BY <1>3
        <4> QED BY <4>1
      <3> QED BY <2>2, <3>1, <3>2
    <2>5. Sealed(G(q))
      BY <1>3, <2>4 DEF Sealed
    <2> QED BY <2>3, <2>5
  <1> HIDE DEF v, G
  <1>5. v.chunks \in [DOMAIN v.chunks -> Chunk] /\ DOMAIN v.chunks \subseteq ChunkCoord
    BY <1>2 DEF WorldType
  <1>6. WorldType(v)
    <2>1. \A g \in v.paused : GroupType(g, v.tick)
      BY <1>1, <1>4 DEF WorldType
    <2> QED BY <1>1, <1>5, <2>1 DEF WorldType
  <1>7. \A q \in Q : q.members \subseteq DOMAIN w.chunks
    BY DEF MayPause
  <1>8. PausedCoords(v) \cap DOMAIN v.chunks = {}
    <2>1. \A g \in v.paused : g \in w.paused \/ \E q \in Q : g = G(q)
      BY <1>1
    <2>2. PausedCoords(v) \subseteq PausedCoords(w) \cup gone
      BY <2>1, <1>3 DEF PausedCoords
    <2>3. DOMAIN v.chunks = DOMAIN w.chunks \ gone
      BY <1>2
    <2> HIDE DEF gone
    <2> QED BY <2>2, <2>3 DEF Apart
  <1>9. Disjoint(v.paused)
    <2> SUFFICES ASSUME NEW g \in v.paused, NEW h \in v.paused, g # h
                 PROVE  Members(g) \cap Members(h) = {}
      BY DEF Disjoint
    <2>1. \A f \in w.paused : Members(f) \cap DOMAIN w.chunks = {}
      BY DEF Apart, PausedCoords
    <2>2. CASE g \in w.paused /\ h \in w.paused
      BY <2>2 DEF Apart, Disjoint
    <2>3. CASE g \in w.paused /\ h \notin w.paused
      BY <2>1, <2>3, <1>1, <1>3, <1>7
    <2>4. CASE g \notin w.paused /\ h \in w.paused
      BY <2>1, <2>4, <1>1, <1>3, <1>7
    <2>5. CASE g \notin w.paused /\ h \notin w.paused
      <3>1. PICK q \in Q : g = G(q)
        BY <2>5, <1>1
      <3>2. PICK r \in Q : h = G(r)
        BY <2>5, <1>1
      <3>3. q.members \cap r.members = {}
        BY <3>1, <3>2
      <3> QED BY <3>1, <3>2, <3>3, <1>3
    <2> QED BY <2>2, <2>3, <2>4, <2>5
  <1>10. \A g \in v.paused : Sealed(g)
    BY <1>1, <1>4 DEF Apart
  <1> QED BY <1>6, <1>8, <1>9, <1>10 DEF v, Apart

-----------------------------------------------------------------------------
(* Edits and removals. *)

LEMMA SetCellType ==
  ASSUME NEW ch \in Chunk, NEW x \in Idx, NEW y \in Idx, NEW alive
  PROVE  SetCell(ch, x, y, alive) \in Chunk
  <1>1. ch.rows[y] \in SUBSET Idx
    BY DEF Chunk, Rows, Row
  <1>2. \A r \in SUBSET Idx : [ch.rows EXCEPT ![y] = r] \in Rows
    BY DEF Chunk, Rows, Row
  <1>3. \A rows \in Rows : [ch EXCEPT !.rows = rows] \in Chunk
    BY DEF Chunk
  <1> DEFINE r == IF alive THEN ch.rows[y] \cup {x} ELSE ch.rows[y] \ {x}
  <1>4. r \in SUBSET Idx
    BY <1>1
  <1>5. [ch EXCEPT !.rows[y] = IF alive THEN @ \cup {x} ELSE @ \ {x}]
          = [ch EXCEPT !.rows = [ch.rows EXCEPT ![y] = r]]
    BY DEF Chunk, Rows
  <1>6. SetCell(ch, x, y, alive) = ch \/ SetCell(ch, x, y, alive) = [ch EXCEPT !.rows = [ch.rows EXCEPT ![y] = r]]
    BY <1>5 DEF SetCell
  <1> HIDE DEF r
  <1> QED BY <1>2, <1>3, <1>4, <1>6

LEMMA SetCellAtOK ==
  ASSUME NEW w, WorldType(w), Apart(w), NEW c \in ChunkCoord, c \notin PausedCoords(w),
         NEW x \in Idx, NEW y \in Idx, NEW alive
  PROVE  WorldType(SetCellAt(w, c, x, y, alive)) /\ Apart(SetCellAt(w, c, x, y, alive))
  <1> DEFINE v == SetCellAt(w, c, x, y, alive)
             new == SetCell(ChunkAt(w.chunks, c), x, y, alive)
  <1>1. new \in Chunk
    <2>1. ChunkAt(w.chunks, c) \in Chunk
      BY Sizes DEF ChunkAt, WorldType
    <2> QED BY <2>1, SetCellType
  <1>2. /\ IsRecord(v) /\ v.paused = w.paused /\ v.tick = w.tick
        /\ v.chunks = [k \in DOMAIN w.chunks \cup {c} |-> IF k = c THEN new ELSE w.chunks[k]]
    BY DEF SetCellAt, WorldType, IsRecord
  <1> HIDE DEF v, new
  <1>3. WorldType(v)
    BY <1>1, <1>2 DEF WorldType
  <1>4. PausedCoords(v) = PausedCoords(w)
    BY <1>2 DEF PausedCoords
  <1>5. Apart(v)
    BY <1>2, <1>4 DEF Apart
  <1> QED BY <1>3, <1>5 DEF v

LEMMA RemoveChunkOK ==
  ASSUME NEW w, WorldType(w), Apart(w), NEW c
  PROVE  WorldType(RemoveChunk(w, c)) /\ Apart(RemoveChunk(w, c))
  <1> DEFINE v == RemoveChunk(w, c)
  <1>1. /\ IsRecord(v) /\ v.paused = w.paused \ Hit(w, {c}) /\ v.tick = w.tick
        /\ v.chunks = [k \in DOMAIN w.chunks \ {c} |-> w.chunks[k]]
    BY DEF RemoveChunk, WorldType, IsRecord, Restrict
  <1> HIDE DEF v
  <1>2. WorldType(v)
    BY <1>1 DEF WorldType
  <1>3. PausedCoords(v) \subseteq PausedCoords(w)
    BY <1>1 DEF PausedCoords
  <1>4. Apart(v)
    BY <1>1, <1>3 DEF Apart, Disjoint
  <1> QED BY <1>2, <1>4 DEF v

-----------------------------------------------------------------------------
(* The tick. *)

LEMMA ActiveIs ==
  ASSUME NEW chunks, NEW woken
  PROVE  Active(chunks, woken) \subseteq DOMAIN chunks
  BY DEF Active

LEMMA CandidatesAre ==
  ASSUME NEW chunks, NEW active, NEW c
  PROVE  c \in Candidates(chunks, active)
           <=> c \in active \/ \E p \in active, d \in Dir : c = To(p, d) /\ Shows(chunks[p], d)
  <1> DEFINE pairs == {p \in active \X Dir : Shows(chunks[p[1]], p[2])}
  <1>1. c \in Candidates(chunks, active) <=> c \in active \/ \E q \in pairs : c = To(q[1], q[2])
    BY DEF Candidates
  <1>2. (\E q \in pairs : c = To(q[1], q[2])) <=> \E p \in active, d \in Dir : c = To(p, d) /\ Shows(chunks[p], d)
    <2>1. \A q \in pairs : q[1] \in active /\ q[2] \in Dir /\ Shows(chunks[q[1]], q[2])
      OBVIOUS
    <2>2. \A p \in active, d \in Dir : Shows(chunks[p], d) => <<p, d>> \in pairs
      OBVIOUS
    <2>3. \A p, d : <<p, d>>[1] = p /\ <<p, d>>[2] = d
      OBVIOUS
    <2> HIDE DEF pairs
    <2> QED BY <2>1, <2>2, <2>3
  <1> QED BY <1>1, <1>2

LEMMA SteppedType ==
  ASSUME NEW chunks, chunks \in [DOMAIN chunks -> Chunk], DOMAIN chunks \subseteq ChunkCoord,
         NEW woken, NEW owned
  PROVE  LET s == Stepped(chunks, Active(chunks, woken), owned)
         IN /\ DOMAIN s = Candidates(chunks, Active(chunks, woken))
            /\ DOMAIN s \subseteq ChunkCoord
            /\ \A c \in DOMAIN s : /\ s[c].next \in Chunk
                                   /\ s[c].next.frozen = ChunkAt(chunks, c).frozen
  <1> DEFINE active == Active(chunks, woken)
             s == Stepped(chunks, active, owned)
             edges == EdgesOf(Restrict(chunks, active))
  <1>1. active \subseteq DOMAIN chunks
    BY ActiveIs
  <1>2. DOMAIN s = Candidates(chunks, active)
    BY DEF Stepped
  <1>3. \A c \in DOMAIN s : s[c].next = Step(ChunkAt(chunks, c), HaloWithin(edges, owned, c))
    BY DEF Stepped, Candidate
  <1> HIDE DEF active, s
  <1>4. ASSUME NEW c \in DOMAIN s PROVE c \in ChunkCoord
    <2>1. \A p \in active, d \in Dir : To(p, d) \in ChunkCoord
      BY <1>1, OppIs
    <2>2. c \in active \/ \E p \in active, d \in Dir : c = To(p, d)
      BY <1>2, CandidatesAre
    <2> QED BY <1>1, <2>1, <2>2
  <1>5. \A n \in DOMAIN edges : edges[n] \in EdgeBundle
    BY <1>1, EdgesType DEF EdgesOf, Restrict
  <1> HIDE DEF edges
  <1>6. \A c : HaloWithin(edges, owned, c) \in EdgeBundle
    <2>1. \A S : \A n \in DOMAIN Restrict(edges, DOMAIN edges \cap S) :
            Restrict(edges, DOMAIN edges \cap S)[n] \in EdgeBundle
      BY <1>5 DEF Restrict
    <2> QED BY <1>5, <2>1, HaloType DEF HaloWithin
  <1>7. \A c : ChunkAt(chunks, c) \in Chunk
    BY Sizes DEF ChunkAt
  <1>8. \A c \in DOMAIN s : s[c].next \in Chunk /\ s[c].next.frozen = ChunkAt(chunks, c).frozen
    BY <1>3, <1>6, <1>7, StepType
  <1> QED BY <1>2, <1>4, <1>8 DEF active, s

\* The running chunks after the steps.
LEMMA OutcomeIs ==
  ASSUME NEW chunks, NEW woken, NEW s, NEW kept
  PROVE  LET gone == {c \in DOMAIN s \ kept : ~s[c].idle} \cap DOMAIN chunks
             t == Outcome(chunks, woken, s, kept)
         IN /\ DOMAIN t.chunks = (DOMAIN chunks \ gone) \cup kept
            /\ t.chunks = [c \in (DOMAIN chunks \ gone) \cup kept |->
                             IF c \in kept THEN s[c].next ELSE chunks[c]]
            /\ t.removed = gone
            /\ t.changed = woken \cup {c \in kept : s[c].next.rows # RowsAt(chunks, c)}
            /\ DOMAIN t.reports = {c \in DOMAIN s : c \in kept \/ s[c].idle}
            /\ \A c \in DOMAIN t.reports : t.reports[c] = IF c \in kept THEN s[c].next.rows ELSE RowsAt(chunks, c)
  BY DEF Outcome

\* What a chunk may report in place of a hash.
Hash == Rows \cup {NoHash}

\* What a tick leaves running: chunks that were, and kept candidates.
LEMMA StepAllType ==
  ASSUME NEW chunks, chunks \in [DOMAIN chunks -> Chunk], DOMAIN chunks \subseteq ChunkCoord,
         NEW woken, NEW owned
  PROVE  LET t == StepAll(chunks, woken, owned)
         IN /\ t.chunks \in [DOMAIN t.chunks -> Chunk]
            /\ DOMAIN t.chunks \subseteq ChunkCoord
            /\ DOMAIN t.chunks \subseteq DOMAIN chunks \cup Candidates(chunks, Active(chunks, woken))
            /\ DOMAIN t.reports \subseteq ChunkCoord
            /\ \A c \in DOMAIN t.reports : t.reports[c] \in Hash
  <1> DEFINE s == Stepped(chunks, Active(chunks, woken), owned)
             kept == Kept(s)
             t == StepAll(chunks, woken, owned)
             gone == {c \in DOMAIN s \ kept : ~s[c].idle} \cap DOMAIN chunks
  <1>1. /\ DOMAIN s = Candidates(chunks, Active(chunks, woken))
        /\ DOMAIN s \subseteq ChunkCoord
        /\ \A c \in DOMAIN s : s[c].next \in Chunk
    BY SteppedType
  <1>2. t = Outcome(chunks, woken, s, kept)
    BY DEF StepAll
  <1>3. kept \subseteq DOMAIN s
    BY DEF Kept
  <1> HIDE DEF s, kept
  <1>4. /\ t.chunks = [c \in (DOMAIN chunks \ gone) \cup kept |-> IF c \in kept THEN s[c].next ELSE chunks[c]]
        /\ DOMAIN t.reports = {c \in DOMAIN s : c \in kept \/ s[c].idle}
        /\ \A c \in DOMAIN t.reports : t.reports[c] = IF c \in kept THEN s[c].next.rows ELSE RowsAt(chunks, c)
    BY <1>2, OutcomeIs
  <1> HIDE DEF t
  <1>5. DOMAIN t.chunks = (DOMAIN chunks \ gone) \cup kept
    BY <1>4
  <1>6. \A c \in DOMAIN t.chunks : t.chunks[c] \in Chunk
    BY <1>1, <1>3, <1>4
  <1>7. t.chunks \in [DOMAIN t.chunks -> Chunk]
    BY <1>4, <1>5, <1>6
  <1>8. \A c \in DOMAIN t.reports : t.reports[c] \in Hash
    <2>1. \A c \in DOMAIN s : s[c].next.rows \in Rows
      BY <1>1 DEF Chunk
    <2>2. \A c : RowsAt(chunks, c) \in Hash
      BY DEF RowsAt, Hash, Chunk
    <2> QED BY <1>3, <1>4, <2>1, <2>2 DEF Hash
  <1> QED BY <1>1, <1>3, <1>4, <1>5, <1>7, <1>8 DEF t

\* Nobody steps into a paused pattern: who shows it a cell wakes it first.
LEMMA CandidatesApart ==
  ASSUME NEW w, WorldType(w), Apart(w)
  PROVE  LET v == Wake(w, Perturbed(w))
         IN Candidates(v.chunks, Active(v.chunks, Woken(w, Perturbed(w)))) \cap PausedCoords(v) = {}
  <1> DEFINE v == Wake(w, Perturbed(w))
             woken == Woken(w, Perturbed(w))
             active == Active(v.chunks, woken)
  <1>1. /\ WorldType(v) /\ Apart(v)
        /\ PausedCoords(v) \subseteq PausedCoords(w) \ (Perturbed(w) \cup woken)
    BY WakeOK
  <1>2. /\ DOMAIN v.chunks = DOMAIN w.chunks \cup woken
        /\ \A c \in DOMAIN w.chunks : v.chunks[c] = w.chunks[c]
        /\ \A g \in Hit(w, Perturbed(w)) : \A c \in Members(g) : v.chunks[c] = Awake(g, w.tick)[c]
    BY WakeChunks
  <1>3. active \subseteq DOMAIN v.chunks
    BY ActiveIs
  <1> HIDE DEF v, active
  <1>4. ASSUME NEW c \in PausedCoords(v), NEW p \in DOMAIN v.chunks, NEW d \in Dir,
               c = To(p, d), Shows(v.chunks[p], d)
        PROVE  FALSE
    <2>1. CASE p \in DOMAIN w.chunks
      <3>1. p \in ChunkCoord
        BY <2>1 DEF WorldType
      <3>2. Opp(d) \in Dir /\ Opp(Opp(d)) = d /\ To(c, Opp(d)) = p
        BY <3>1, <1>4, OppIs
      <3>3. Shows(w.chunks[To(c, Opp(d))], Opp(Opp(d)))
        BY <3>2, <2>1, <1>2, <1>4
      <3>4. c \in Perturbed(w)
        BY <3>2, <3>3, <2>1, <1>1 DEF Perturbed
      <3> QED BY <3>4, <1>1
    <2>2. CASE p \in woken
      <3>1. PICK g \in Hit(w, Perturbed(w)) : p \in Members(g)
        BY <2>2 DEF Woken
      <3>2. g \in w.paused /\ GroupType(g, w.tick) /\ Sealed(g) /\ w.tick \in Int
        BY <3>1 DEF Hit, WorldType, Apart
      <3>3. PICK k \in 0..(g.period - 1) : Awake(g, w.tick) = Phase(g.members, k)
        BY <3>2, AwakePhase
      <3>4. Shows(Phase(g.members, k)[p], d)
        BY <3>1, <3>3, <1>2, <1>4
      <3>5. c \in Members(g)
        BY <3>1, <3>2, <3>4, <1>4 DEF Sealed
      <3>6. c \in woken
        BY <3>1, <3>5 DEF Woken
      <3> QED BY <3>6, <1>1
    <2> QED BY <2>1, <2>2, <1>2
  <1>5. \A c \in PausedCoords(v) : c \notin DOMAIN v.chunks
    BY <1>1 DEF Apart
  <1>6. \A c \in Candidates(v.chunks, active) : c \notin PausedCoords(v)
    BY <1>3, <1>4, <1>5, CandidatesAre
  <1> QED BY <1>6 DEF v, active

LEMMA TickOK ==
  ASSUME NEW w, WorldType(w), Apart(w)
  PROVE  /\ WorldType(AfterTick(w, TickInto(w))) /\ Apart(AfterTick(w, TickInto(w)))
         /\ AfterTick(w, TickInto(w)).tick = w.tick + 1
         /\ DOMAIN TickInto(w).reports \subseteq ChunkCoord
         /\ \A c \in DOMAIN TickInto(w).reports : TickInto(w).reports[c] \in Hash
  <1> DEFINE v == Wake(w, Perturbed(w))
             woken == Woken(w, Perturbed(w))
             t == TickInto(w)
             u == AfterTick(w, t)
  <1>1. /\ WorldType(v) /\ Apart(v)
    BY WakeOK
  <1>2. v.paused = w.paused \ Hit(w, Perturbed(w))
    BY WakeIs DEF WorldType
  <1>3. t = StepAll(v.chunks, woken, w.owned)
    BY DEF TickInto
  <1>4. Candidates(v.chunks, Active(v.chunks, woken)) \cap PausedCoords(v) = {}
    BY CandidatesApart
  <1> HIDE DEF v, woken, t
  <1>5. /\ t.chunks \in [DOMAIN t.chunks -> Chunk]
        /\ DOMAIN t.chunks \subseteq ChunkCoord
        /\ DOMAIN t.chunks \subseteq DOMAIN v.chunks \cup Candidates(v.chunks, Active(v.chunks, woken))
        /\ DOMAIN t.reports \subseteq ChunkCoord
        /\ \A c \in DOMAIN t.reports : t.reports[c] \in Hash
    <2>1. v.chunks \in [DOMAIN v.chunks -> Chunk] /\ DOMAIN v.chunks \subseteq ChunkCoord
      BY <1>1 DEF WorldType
    <2> HIDE <1>1
    <2> QED BY <1>3, <2>1, StepAllType
  <1>6. IsRecord(u) /\ u.chunks = t.chunks /\ u.paused = v.paused /\ u.tick = w.tick + 1
    BY <1>2 DEF AfterTick, WorldType, IsRecord
  <1> HIDE DEF u
  <1>7. WorldType(u)
    <2>1. \A g \in w.paused : GroupType(g, w.tick + 1)
      <3>1. \A n \in 0..w.tick : n \in 0..(w.tick + 1)
        BY DEF WorldType
      <3> QED BY <3>1 DEF WorldType, GroupType
    <2>2. \A g \in u.paused : GroupType(g, u.tick)
      BY <1>2, <1>6, <2>1
    <2>3. u.tick \in Nat
      BY <1>6 DEF WorldType
    <2>4. u.chunks \in [DOMAIN u.chunks -> Chunk] /\ DOMAIN u.chunks \subseteq ChunkCoord
      BY <1>5, <1>6
    <2> QED BY <1>6, <2>2, <2>3, <2>4 DEF WorldType
  <1>8. Apart(u)
    <2>1. PausedCoords(u) = PausedCoords(v)
      BY <1>6 DEF PausedCoords
    <2>2. PausedCoords(u) \cap DOMAIN u.chunks = {}
      BY <2>1, <1>1, <1>4, <1>5, <1>6 DEF Apart
    <2> QED BY <2>2, <1>1, <1>6 DEF Apart
  <1> QED BY <1>5, <1>6, <1>7, <1>8 DEF t, u

-----------------------------------------------------------------------------
(* The world as loaded, and the rings of the detector. *)

LEMMA HomeType ==
  ASSUME NEW p \in Int \X Int
  PROVE  Home(p) \in ChunkCoord /\ p[1] % CHUNK_SIZE \in Idx /\ p[2] % CHUNK_SIZE \in Idx
  <1>1. \A a \in Int : a \div CHUNK_SIZE \in Int /\ a % CHUNK_SIZE \in 0..(CHUNK_SIZE - 1)
    BY SizeAssumption
  <1> QED BY <1>1 DEF Home, ChunkCoord, Idx

LEMMA LoadedType ==
  ASSUME NEW board \in SUBSET (Int \X Int), NEW alive \in SUBSET (Int \X Int), NEW dead \in SUBSET (Int \X Int)
  PROVE  LET chunks == Loaded(board, alive, dead)
         IN chunks \in [DOMAIN chunks -> Chunk] /\ DOMAIN chunks \subseteq ChunkCoord
  <1> DEFINE chunks == Loaded(board, alive, dead)
             cells == (board \ dead) \cup alive
             In(c, S) == [y \in Idx |-> {x \in Idx : <<c[1] * CHUNK_SIZE + x, c[2] * CHUNK_SIZE + y>> \in S}]
             D == {Home(p) : p \in cells \cup alive \cup dead}
  <1>1. chunks = [c \in D |-> [rows |-> In(c, cells), frozen |-> [mask |-> In(c, alive \cup dead), value |-> In(c, alive)]]]
    BY DEF Loaded
  <1>2. \A c, S : In(c, S) \in Rows
    BY DEF Rows, Row
  <1>3. D \subseteq ChunkCoord
    BY HomeType
  <1> HIDE DEF In, D
  <1>4. \A c : [rows |-> In(c, cells), frozen |-> [mask |-> In(c, alive \cup dead), value |-> In(c, alive)]] \in Chunk
    BY <1>2 DEF Chunk, Frozen
  <1> HIDE DEF chunks, cells
  <1>5. chunks \in [D -> Chunk]
    BY <1>1, <1>4
  <1> QED BY <1>3, <1>5 DEF chunks

Ring == [hashes: Seq(Hash), in_pending: BOOLEAN]

RingsType(rings) ==
  \A c \in DOMAIN rings : c \in ChunkCoord /\ rings[c] \in Ring /\ Len(rings[c].hashes) \in 1..HISTORY

LEMMA ForgottenType ==
  ASSUME NEW rings, RingsType(rings), NEW S
  PROVE  RingsType(Forgotten(rings, S))
  <1>1. \A c \in DOMAIN Forgotten(rings, S) : c \in DOMAIN rings /\ Forgotten(rings, S)[c] = rings[c]
    BY DEF Forgotten, Restrict
  <1> QED BY <1>1 DEF RingsType

LEMMA ObservedType ==
  ASSUME NEW rings, RingsType(rings), NEW reports, DOMAIN reports \subseteq ChunkCoord,
         \A c \in DOMAIN reports : reports[c] \in Hash
  PROVE  RingsType(Observed(rings, reports))
  <1> DEFINE now == Observed(rings, reports)
  <1>0. HISTORY \in Nat /\ HISTORY >= 3
    BY PeriodAssumption DEF HISTORY
  <1>1. DOMAIN now = DOMAIN rings \cup DOMAIN reports
    BY DEF Observed
  <1>2. ASSUME NEW c \in DOMAIN now
        PROVE  c \in ChunkCoord /\ now[c] \in Ring /\ Len(now[c].hashes) \in 1..HISTORY
    <2>1. CASE c \notin DOMAIN reports
      <3>1. c \in DOMAIN rings /\ now[c] = rings[c]
        BY <1>1, <2>1 DEF Observed
      <3> QED BY <3>1 DEF RingsType
    <2>2. CASE c \in DOMAIN reports
      <3> DEFINE old == IF c \in DOMAIN rings THEN rings[c] ELSE EmptyRing
                 all == Append(old.hashes, reports[c])
      <3>1. now[c] = [hashes     |-> IF Len(all) > HISTORY THEN Tail(all) ELSE all,
                      in_pending |-> old.in_pending \/ Len(all) >= HISTORY]
        BY <1>1, <2>2 DEF Observed
      <3>2. old.hashes \in Seq(Hash) /\ Len(old.hashes) \in 0..HISTORY /\ old.in_pending \in BOOLEAN
        <4>1. CASE c \in DOMAIN rings
          BY <1>0, <4>1 DEF RingsType, Ring
        <4>2. CASE c \notin DOMAIN rings
          <5>1. old = EmptyRing
            BY <4>2
          <5> HIDE DEF old
          <5>2. << >> \in Seq(Hash) /\ Len(<< >>) = 0
            OBVIOUS
          <5> QED BY <1>0, <5>1, <5>2 DEF EmptyRing
        <4> QED BY <4>1, <4>2
      <3> HIDE DEF old
      <3>3. all \in Seq(Hash) /\ Len(all) = Len(old.hashes) + 1
        BY <2>2, <3>2
      <3> HIDE DEF all, now
      <3>4. Len(all) > HISTORY => Tail(all) \in Seq(Hash) /\ Len(Tail(all)) = Len(all) - 1
        BY <1>0, <3>3
      <3>5. (old.in_pending \/ Len(all) >= HISTORY) \in BOOLEAN
        OBVIOUS
      <3>6. /\ now[c].hashes = IF Len(all) > HISTORY THEN Tail(all) ELSE all
            /\ now[c] \in [hashes: {now[c].hashes}, in_pending: BOOLEAN]
        BY <3>1, <3>5
      <3>7. now[c].hashes \in Seq(Hash) /\ Len(now[c].hashes) \in 1..HISTORY
        BY <1>0, <3>2, <3>3, <3>4, <3>6
      <3> QED BY <2>2, <3>6, <3>7 DEF Ring
    <2> QED BY <2>1, <2>2
  <1> QED BY <1>2 DEF RingsType

LEMMA ScannedType ==
  ASSUME NEW rings, RingsType(rings), NEW S, S \subseteq DOMAIN rings
  PROVE  /\ RingsType(Scanned(rings, S))
         /\ \A r \in Requests(rings, S) : r.coord \in ChunkCoord /\ r.period \in 1..MAX_PERIOD
  <1> DEFINE found == {r.coord : r \in Requests(rings, S)}
             now == Scanned(rings, S)
  <1>1. now = [c \in DOMAIN rings \ found |->
                 IF c \in S THEN [rings[c] EXCEPT !.in_pending = FALSE] ELSE rings[c]]
    BY DEF Scanned
  <1> HIDE DEF now, found
  <1>2. \A c \in DOMAIN now : c \in DOMAIN rings /\ now[c] = IF c \in S THEN [rings[c] EXCEPT !.in_pending = FALSE] ELSE rings[c]
    BY <1>1
  <1>3. \A c \in DOMAIN now : now[c].hashes = rings[c].hashes /\ now[c] \in Ring
    BY <1>2 DEF RingsType, Ring
  <1>4. RingsType(now)
    BY <1>2, <1>3 DEF RingsType
  <1>5. \A r \in Requests(rings, S) : r.coord \in S /\ r.period \in 1..MAX_PERIOD
    BY DEF Requests
  <1> QED BY <1>4, <1>5 DEF now, RingsType

-----------------------------------------------------------------------------
(* What is shown of the world. *)

LEMMA GroupOf ==
  ASSUME NEW w, Apart(w), NEW g \in w.paused, NEW c \in Members(g)
  PROVE  /\ (CHOOSE h \in w.paused : c \in Members(h)) = g
         /\ c \in PausedCoords(w) /\ c \notin DOMAIN w.chunks
         /\ Shown(w, c) = g.members[c].rows
  <1>1. (CHOOSE h \in w.paused : c \in Members(h)) = g
    BY DEF Apart, Disjoint
  <1>2. c \in PausedCoords(w) /\ c \notin DOMAIN w.chunks
    BY DEF Apart, PausedCoords
  <1> QED BY <1>1, <1>2 DEF Shown

\* Whatever is shown of a chunk is not mistaken for its absence.
LEMMA ShownIs ==
  ASSUME NEW w, WorldType(w), Apart(w), NEW c
  PROVE  Shown(w, c) = NoHash <=> c \notin DOMAIN w.chunks \cup PausedCoords(w)
  <1>1. \A ch \in Chunk : ch.rows # NoHash
    <2>1. DOMAIN NoHash = {}
      BY DEF NoHash
    <2>2. \A ch \in Chunk : DOMAIN ch.rows = Idx /\ Idx # {}
      BY Sizes DEF Chunk, Rows
    <2> QED BY <2>1, <2>2
  <1>2. CASE c \in DOMAIN w.chunks
    BY <1>1, <1>2 DEF Shown, WorldType
  <1>3. CASE c \in PausedCoords(w)
    <2>1. PICK g \in w.paused : c \in Members(g)
      BY <1>3 DEF PausedCoords
    <2>2. g.members[c] \in Chunk
      BY <2>1 DEF WorldType, GroupType
    <2>3. Shown(w, c) = g.members[c].rows
      BY <2>1, GroupOf
    <2> QED BY <1>1, <1>3, <2>2, <2>3
  <1>4. CASE c \notin DOMAIN w.chunks \cup PausedCoords(w)
    BY <1>4 DEF Shown
  <1> QED BY <1>2, <1>3, <1>4

SameShown(v, w) ==
  /\ DOMAIN v.chunks \cup PausedCoords(v) = DOMAIN w.chunks \cup PausedCoords(w)
  /\ \A c : Shown(v, c) = Shown(w, c)

\* v is w with some running chunks paused that nobody shows a cell.
PausedFrom(v, w) ==
  /\ SameShown(v, w)
  /\ v.owned = w.owned
  /\ DOMAIN v.chunks \subseteq DOMAIN w.chunks
  /\ \A c \in DOMAIN v.chunks : v.chunks[c] = w.chunks[c]
  /\ \A g \in v.paused : g \in w.paused \/ Unseen(v, Members(g))

LEMMA PausedFromTwice ==
  ASSUME NEW u, NEW v, NEW w, PausedFrom(u, v), PausedFrom(v, w)
  PROVE  PausedFrom(u, w)
  <1>1. SameShown(u, w) /\ u.owned = w.owned
    BY DEF PausedFrom, SameShown
  <1>2. DOMAIN u.chunks \subseteq DOMAIN w.chunks /\ \A c \in DOMAIN u.chunks : u.chunks[c] = w.chunks[c]
    BY DEF PausedFrom
  <1>3. \A M : Unseen(v, M) => Unseen(u, M)
    BY DEF PausedFrom, Unseen
  <1>4. \A g \in u.paused : g \in w.paused \/ Unseen(u, Members(g))
    BY <1>3 DEF PausedFrom
  <1> QED BY <1>1, <1>2, <1>4 DEF PausedFrom

\* Pausing changes nothing that is shown.
LEMMA PauseShows ==
  ASSUME NEW w, WorldType(w), Apart(w), NEW Q,
         \A q \in Q : MayPause(w, q),
         \A q, r \in Q : q # r => q.members \cap r.members = {}
  PROVE  PausedFrom(Pause(w, Q), w)
  <1> DEFINE v == Pause(w, Q)
             G(q) == [members        |-> Restrict(w.chunks, q.members),
                      period         |-> q.period,
                      paused_at_tick |-> w.tick]
             gone == UNION {q.members : q \in Q}
  <1>1. v.paused = w.paused \cup {G(q) : q \in Q} /\ v.tick = w.tick
    BY PauseIs DEF WorldType
  <1>2. v.chunks = [c \in DOMAIN w.chunks \ gone |-> w.chunks[c]] /\ v.owned = w.owned
    BY PauseIs DEF WorldType
  <1>3. \A q : Members(G(q)) = q.members /\ \A c \in q.members : G(q).members[c] = w.chunks[c]
    BY DEF Restrict, Members
  <1>4. Apart(v)
    BY PauseOK
  <1>5. \A q \in Q : q.members \subseteq DOMAIN w.chunks
    BY DEF MayPause
  <1> HIDE DEF v, G
  <1>6. DOMAIN v.chunks = DOMAIN w.chunks \ gone
    BY <1>2
  <1>7. PausedCoords(v) = PausedCoords(w) \cup gone
    <2>1. PausedCoords(v) \subseteq PausedCoords(w) \cup gone
      BY <1>1, <1>3 DEF PausedCoords
    <2>2. PausedCoords(w) \subseteq PausedCoords(v)
      BY <1>1 DEF PausedCoords
    <2>3. gone \subseteq PausedCoords(v)
      BY <1>1, <1>3 DEF PausedCoords
    <2> QED BY <2>1, <2>2, <2>3
  <1>8. gone \subseteq DOMAIN w.chunks
    BY <1>5
  <1>9. ASSUME NEW c PROVE Shown(v, c) = Shown(w, c)
    <2>1. CASE c \in gone
      <3>1. PICK q \in Q : c \in q.members
        BY <2>1
      <3>2. G(q) \in v.paused /\ c \in Members(G(q))
        BY <1>1, <1>3, <3>1
      <3>3. Shown(v, c) = G(q).members[c].rows
        BY <1>4, <3>2, GroupOf
      <3>4. Shown(w, c) = w.chunks[c].rows
        BY <1>8, <2>1 DEF Shown
      <3> QED BY <1>3, <3>1, <3>3, <3>4
    <2>2. CASE c \in DOMAIN w.chunks \ gone
      BY <1>2, <2>2 DEF Shown
    <2>3. CASE c \in PausedCoords(w)
      <3>1. PICK g \in w.paused : c \in Members(g)
        BY <2>3 DEF PausedCoords
      <3>2. g \in v.paused
        BY <1>1
      <3> QED BY <1>4, <3>1, <3>2, GroupOf
    <2>4. CASE c \notin DOMAIN w.chunks \cup PausedCoords(w)
      <3>1. c \notin DOMAIN v.chunks \cup PausedCoords(v)
        BY <2>4, <1>6, <1>7, <1>8
      <3> HIDE DEF gone
      <3> QED BY <2>4, <3>1 DEF Shown
    <2> QED BY <2>1, <2>2, <2>3, <2>4
  <1>10. DOMAIN v.chunks \cup PausedCoords(v) = DOMAIN w.chunks \cup PausedCoords(w)
    <2> HIDE DEF gone
    <2> QED BY <1>6, <1>7, <1>8
  <1>11. \A c \in DOMAIN v.chunks : v.chunks[c] = w.chunks[c]
    BY <1>2
  <1>12. \A q \in Q : Unseen(v, q.members)
    <2>1. \A q \in Q : Unseen(w, q.members)
      BY DEF MayPause
    <2> HIDE DEF gone
    <2> QED BY <2>1, <1>6, <1>11 DEF Unseen
  <1>13. \A g \in v.paused : g \in w.paused \/ Unseen(v, Members(g))
    BY <1>1, <1>3, <1>12
  <1> HIDE DEF gone
  <1>14. SameShown(v, w)
    BY <1>9, <1>10 DEF SameShown
  <1>15. v.owned = w.owned
    BY <1>2
  <1> QED BY <1>6, <1>11, <1>13, <1>14, <1>15 DEF v, PausedFrom

\* The report of a tick names all that is shown differently after it.
LEMMA TickReportsAll ==
  ASSUME NEW w, WorldType(w), Apart(w),
         NEW c \in DOMAIN w.chunks \cup PausedCoords(w) \cup DOMAIN AfterTick(w, TickInto(w)).chunks
  PROVE  /\ Shown(AfterTick(w, TickInto(w)), c) = NoHash <=> c \in TickInto(w).removed
         /\ Shown(AfterTick(w, TickInto(w)), c) # Shown(w, c)
              => c \in TickInto(w).changed \cup TickInto(w).removed
  <1> DEFINE woken == Woken(w, Perturbed(w))
             v == Wake(w, Perturbed(w))
             t == TickInto(w)
             u == AfterTick(w, t)
             s == Stepped(v.chunks, Active(v.chunks, woken), w.owned)
             kept == Kept(s)
             gone == {n \in DOMAIN s \ kept : ~s[n].idle} \cap DOMAIN v.chunks
  <1>1. WorldType(v) /\ Apart(v) /\ PausedCoords(v) \subseteq PausedCoords(w)
    BY WakeOK
  <1>2. /\ DOMAIN v.chunks = DOMAIN w.chunks \cup woken
        /\ \A n \in DOMAIN w.chunks : v.chunks[n] = w.chunks[n]
    BY WakeChunks
  <1>3. v.paused = w.paused \ Hit(w, Perturbed(w))
    BY WakeIs DEF WorldType
  <1>4. WorldType(u) /\ Apart(u)
    BY TickOK
  <1>5. u.chunks = t.chunks /\ u.paused = v.paused
    BY <1>3 DEF AfterTick, WorldType, IsRecord
  <1>6. t = Outcome(v.chunks, woken, s, kept)
    BY DEF TickInto, StepAll
  <1> HIDE DEF woken, v, t, u, s, kept
  <1>7. /\ u.chunks = [n \in (DOMAIN v.chunks \ gone) \cup kept |-> IF n \in kept THEN s[n].next ELSE v.chunks[n]]
        /\ t.removed = gone
        /\ t.changed = woken \cup {n \in kept : s[n].next.rows # RowsAt(v.chunks, n)}
    BY <1>5, <1>6, OutcomeIs
  <1>8. DOMAIN u.chunks = (DOMAIN v.chunks \ gone) \cup kept
    BY <1>7
  <1>9. PausedCoords(u) = PausedCoords(v)
    BY <1>5 DEF PausedCoords
  <1>10. PausedCoords(w) \subseteq PausedCoords(v) \cup woken
    BY <1>3 DEF PausedCoords, woken, Woken
  <1>11. Shown(u, c) = NoHash <=> c \in t.removed
    <2>1. Shown(u, c) = NoHash <=> c \notin DOMAIN u.chunks \cup PausedCoords(u)
      BY <1>4, ShownIs
    <2>2. PausedCoords(v) \cap DOMAIN v.chunks = {}
      BY <1>1 DEF Apart
    <2>3. c \in DOMAIN w.chunks \cup PausedCoords(w) \cup DOMAIN u.chunks
      BY DEF u, t
    <2>4. c \in DOMAIN v.chunks \cup PausedCoords(v) \cup DOMAIN u.chunks
      BY <1>2, <1>10, <2>3
    <2>5. \A n \in gone : n \in DOMAIN v.chunks /\ n \notin kept
      OBVIOUS
    <2> HIDE DEF gone
    <2> QED BY <1>7, <1>8, <1>9, <2>1, <2>2, <2>4, <2>5
  <1>12. ASSUME Shown(u, c) # Shown(w, c), c \notin t.removed
         PROVE  c \in t.changed
    <2> SUFFICES ASSUME c \notin t.changed PROVE FALSE
      OBVIOUS
    <2>1. c \notin woken
      BY <1>7
    <2>2. CASE c \in DOMAIN u.chunks
      <3>1. Shown(u, c) = u.chunks[c].rows
        BY <2>2 DEF Shown
      <3>2. u.chunks[c].rows = RowsAt(v.chunks, c)
        <4>1. CASE c \in kept
          BY <1>7, <1>8, <2>2, <4>1
        <4>2. CASE c \notin kept
          BY <1>7, <1>8, <2>2, <4>2 DEF RowsAt
        <4> QED BY <4>1, <4>2
      <3>3. Shown(u, c) # NoHash
        BY <1>4, <2>2, ShownIs
      <3>4. c \in DOMAIN v.chunks
        BY <3>1, <3>2, <3>3 DEF RowsAt
      <3>5. c \in DOMAIN w.chunks
        BY <1>2, <2>1, <3>4
      <3> QED BY <1>2, <1>12, <3>1, <3>2, <3>4, <3>5 DEF RowsAt, Shown
    <2>3. CASE c \notin DOMAIN u.chunks
      <3>1. c \in PausedCoords(u)
        BY <1>4, <1>11, <1>12, <2>3, ShownIs
      <3>2. PICK g \in u.paused : c \in Members(g)
        BY <3>1 DEF PausedCoords
      <3>3. g \in w.paused
        BY <1>3, <1>5, <3>2
      <3>4. Shown(u, c) = g.members[c].rows
        BY <1>4, <3>2, GroupOf
      <3>5. Shown(w, c) = g.members[c].rows
        BY <3>2, <3>3, GroupOf
      <3> QED BY <1>12, <3>4, <3>5
    <2> QED BY <2>2, <2>3
  <1> QED BY <1>11, <1>12 DEF t, u

-----------------------------------------------------------------------------
(* What a tick leaves empty. *)

\* With more chunks around, no less is shown.
LEMMA HaloMore ==
  ASSUME NEW small, NEW big, DOMAIN small \subseteq DOMAIN big, \A n \in DOMAIN small : big[n] = small[n],
         NEW c, Halo(big, c) = EmptyBundle
  PROVE  Halo(small, c) = EmptyBundle
  <1> DEFINE At(e, dx, dy) == LET n == To(c, <<dx, dy>>) IN IF n \in DOMAIN e THEN e[n] ELSE EmptyBundle
  <1>1. \A e : Halo(e, c) = [top     |-> At(e, 0, -1).bottom, bottom |-> At(e, 0, 1).top,
                             left    |-> At(e, -1, 0).right,  right  |-> At(e, 1, 0).left,
                             corners |-> {k \in Corner : \/ k = "TL" /\ "BR" \in At(e, -1, -1).corners
                                                         \/ k = "TR" /\ "BL" \in At(e, 1, -1).corners
                                                         \/ k = "BL" /\ "TR" \in At(e, -1, 1).corners
                                                         \/ k = "BR" /\ "TL" \in At(e, 1, 1).corners}]
    BY DEF Halo
  <1>2. \A dx, dy : At(small, dx, dy) = At(big, dx, dy) \/ At(small, dx, dy) = EmptyBundle
    OBVIOUS
  <1> HIDE DEF At
  <1>3. /\ At(big, 0, -1).bottom = {} /\ At(big, 0, 1).top = {}
        /\ At(big, -1, 0).right = {} /\ At(big, 1, 0).left = {}
    BY <1>1 DEF EmptyBundle
  <1>4. /\ "BR" \notin At(big, -1, -1).corners /\ "BL" \notin At(big, 1, -1).corners
        /\ "TR" \notin At(big, -1, 1).corners /\ "TL" \notin At(big, 1, 1).corners
    <2>1. Halo(big, c).corners = {}
      BY DEF EmptyBundle
    <2> QED BY <1>1, <2>1, SMTT(60) DEF Corner
  <1>5. /\ EmptyBundle.bottom = {} /\ EmptyBundle.top = {} /\ EmptyBundle.left = {} /\ EmptyBundle.right = {}
        /\ EmptyBundle.corners = {}
    BY DEF EmptyBundle
  <1>6. /\ At(small, 0, -1).bottom = {} /\ At(small, 0, 1).top = {}
        /\ At(small, -1, 0).right = {} /\ At(small, 1, 0).left = {}
    BY <1>2, <1>3, <1>5
  <1>7. /\ "BR" \notin At(small, -1, -1).corners /\ "BL" \notin At(small, 1, -1).corners
        /\ "TR" \notin At(small, -1, 1).corners /\ "TL" \notin At(small, 1, 1).corners
    BY <1>2, <1>4, <1>5
  <1> QED BY <1>1, <1>6, <1>7 DEF EmptyBundle

\* A woken chunk is not passed over if, in the phase it wakes in, it holds a cell
\* or its group shows it one, and the border of a claim does not cut the group.
LEMMA WokenNotIdle ==
  ASSUME NEW w, WorldType(w), Apart(w), NEW S, NEW g \in Hit(w, S), NEW c \in Members(g),
         Members(g) \subseteq w.owned \/ Members(g) \cap w.owned = {},
         ~IsEmpty(Awake(g, w.tick)[c]) \/ Halo(EdgesOf(Awake(g, w.tick)), c) # EmptyBundle
  PROVE  LET v == Wake(w, S)
             s == Stepped(v.chunks, Active(v.chunks, Woken(w, S)), w.owned)
         IN c \in DOMAIN s /\ ~s[c].idle
  <1> DEFINE woken == Woken(w, S)
             v == Wake(w, S)
             active == Active(v.chunks, woken)
             s == Stepped(v.chunks, active, w.owned)
             edges == EdgesOf(Restrict(v.chunks, active))
             own == EdgesOf(Awake(g, w.tick))
  <1>1. DOMAIN v.chunks = DOMAIN w.chunks \cup woken /\ \A n \in Members(g) : v.chunks[n] = Awake(g, w.tick)[n]
    BY WakeChunks
  <1>2. Members(g) \subseteq woken
    BY DEF Woken
  <1>3. Members(g) \subseteq active /\ active \subseteq DOMAIN v.chunks
    BY <1>1, <1>2 DEF Active
  <1>4. c \in DOMAIN s /\ s[c] = Candidate(ChunkAt(v.chunks, c), HaloWithin(edges, w.owned, c))
    BY <1>3, CandidatesAre DEF Stepped
  <1>5. DOMAIN Awake(g, w.tick) = Members(g)
    <2>1. GroupType(g, w.tick) /\ w.tick \in Int
      BY DEF Hit, WorldType
    <2> QED BY <2>1, AwakePhase
  <1>6. DOMAIN own = Members(g) /\ \A n \in Members(g) : own[n] = Edges(v.chunks[n])
    BY <1>1, <1>5 DEF EdgesOf
  <1>7. DOMAIN edges = active /\ \A n \in active : edges[n] = Edges(v.chunks[n])
    BY DEF EdgesOf, Restrict
  <1>8. ChunkAt(v.chunks, c) = Awake(g, w.tick)[c]
    BY <1>1, <1>2 DEF ChunkAt
  <1>9. ASSUME HaloWithin(edges, w.owned, c) = EmptyBundle PROVE Halo(own, c) = EmptyBundle
    <2> HIDE DEF own, edges, active
    <2> DEFINE seen == IF c \in w.owned THEN Restrict(edges, DOMAIN edges \cap w.owned) ELSE edges
    <2>1. Halo(seen, c) = EmptyBundle
      BY <1>9 DEF HaloWithin
    <2>2. DOMAIN own \subseteq DOMAIN seen /\ \A n \in DOMAIN own : seen[n] = own[n]
      BY <1>3, <1>6, <1>7 DEF Restrict
    <2> HIDE DEF seen
    <2> QED BY <2>1, <2>2, HaloMore
  <1> HIDE DEF own, edges, s
  <1>10. s[c].idle = (IsEmpty(Awake(g, w.tick)[c]) /\ HaloWithin(edges, w.owned, c) = EmptyBundle)
    BY <1>4, <1>8 DEF Candidate
  <1>11. ~s[c].idle
    BY <1>9, <1>10 DEF own
  <1> QED BY <1>4, <1>11 DEF s

\* A chunk a tick leaves empty and not frozen was there before it, and as it is.
LEMMA LeftEmpty ==
  ASSUME NEW w, WorldType(w), Apart(w),
         \A g \in Hit(w, Perturbed(w)) :
           /\ Members(g) \subseteq w.owned \/ Members(g) \cap w.owned = {}
           /\ \A c \in Members(g) :
                ~IsEmpty(Awake(g, w.tick)[c]) \/ Halo(EdgesOf(Awake(g, w.tick)), c) # EmptyBundle,
         NEW c \in DOMAIN AfterTick(w, TickInto(w)).chunks,
         IsEmpty(AfterTick(w, TickInto(w)).chunks[c]), ~IsFrozen(AfterTick(w, TickInto(w)).chunks[c])
  PROVE  c \in DOMAIN w.chunks /\ w.chunks[c] = AfterTick(w, TickInto(w)).chunks[c]
  <1> DEFINE woken == Woken(w, Perturbed(w))
             v == Wake(w, Perturbed(w))
             t == TickInto(w)
             u == AfterTick(w, t)
             s == Stepped(v.chunks, Active(v.chunks, woken), w.owned)
             kept == Kept(s)
             gone == {n \in DOMAIN s \ kept : ~s[n].idle} \cap DOMAIN v.chunks
  <1>1. /\ DOMAIN v.chunks = DOMAIN w.chunks \cup woken
        /\ \A n \in DOMAIN w.chunks : v.chunks[n] = w.chunks[n]
    BY WakeChunks
  <1>2. u.chunks = t.chunks
    BY DEF AfterTick, WorldType, IsRecord
  <1>3. t = Outcome(v.chunks, woken, s, kept)
    BY DEF TickInto, StepAll
  <1>4. \A n \in kept : ~IsEmpty(s[n].next) \/ IsFrozen(s[n].next)
    BY DEF Kept
  <1>5. \A n \in woken : n \in DOMAIN s /\ ~s[n].idle
    <2> TAKE n \in woken
    <2>1. PICK g \in Hit(w, Perturbed(w)) : n \in Members(g)
      BY DEF Woken
    <2> QED BY <2>1, WokenNotIdle
  <1>6. c \in DOMAIN u.chunks /\ IsEmpty(u.chunks[c]) /\ ~IsFrozen(u.chunks[c])
    OBVIOUS
  <1> HIDE DEF woken, v, t, u, s, kept
  <1>7. u.chunks = [n \in (DOMAIN v.chunks \ gone) \cup kept |-> IF n \in kept THEN s[n].next ELSE v.chunks[n]]
    BY <1>2, <1>3, OutcomeIs
  <1>8. c \notin kept
    BY <1>4, <1>6, <1>7
  <1>9. c \in DOMAIN v.chunks /\ c \notin gone /\ u.chunks[c] = v.chunks[c]
    BY <1>6, <1>7, <1>8
  <1>10. c \notin woken
    BY <1>5, <1>8, <1>9
  <1>11. c \in DOMAIN w.chunks /\ w.chunks[c] = u.chunks[c]
    BY <1>1, <1>9, <1>10
  <1> QED BY <1>11 DEF u, t

-----------------------------------------------------------------------------
(* The plane: where a chunk's cells lie in it. *)

\* The cell in column x and row y of the chunk at c.
CellAt(c, x, y) == <<c[1] * CHUNK_SIZE + x, c[2] * CHUNK_SIZE + y>>

LEMMA Division ==
  ASSUME NEW a \in Int
  PROVE  /\ a \div CHUNK_SIZE \in Int /\ a % CHUNK_SIZE \in Idx
         /\ a = (a \div CHUNK_SIZE) * CHUNK_SIZE + (a % CHUNK_SIZE)
  BY SizeAssumption DEF Idx

LEMMA DivisionUnique ==
  ASSUME NEW q \in Int, NEW r \in Idx
  PROVE  (q * CHUNK_SIZE + r) \div CHUNK_SIZE = q /\ (q * CHUNK_SIZE + r) % CHUNK_SIZE = r
  BY SizeAssumption DEF Idx

\* A cell lies in one chunk, at one place of it.
LEMMA CellHome ==
  ASSUME NEW c \in ChunkCoord, NEW x \in Idx, NEW y \in Idx
  PROVE  /\ CellAt(c, x, y) \in Int \X Int
         /\ Home(CellAt(c, x, y)) = c
         /\ CellAt(c, x, y)[1] % CHUNK_SIZE = x /\ CellAt(c, x, y)[2] % CHUNK_SIZE = y
  <1>1. PICK a, b \in Int : c = <<a, b>>
    BY DEF ChunkCoord
  <1>2. CellAt(c, x, y) = <<a * CHUNK_SIZE + x, b * CHUNK_SIZE + y>>
    BY <1>1 DEF CellAt
  <1>3. a * CHUNK_SIZE + x \in Int /\ b * CHUNK_SIZE + y \in Int
    BY SizeAssumption DEF Idx
  <1>4. /\ (a * CHUNK_SIZE + x) \div CHUNK_SIZE = a /\ (a * CHUNK_SIZE + x) % CHUNK_SIZE = x
        /\ (b * CHUNK_SIZE + y) \div CHUNK_SIZE = b /\ (b * CHUNK_SIZE + y) % CHUNK_SIZE = y
    BY DivisionUnique
  <1> QED BY <1>1, <1>2, <1>3, <1>4 DEF Home

LEMMA HomeCell ==
  ASSUME NEW p \in Int \X Int
  PROVE  p = CellAt(Home(p), p[1] % CHUNK_SIZE, p[2] % CHUNK_SIZE)
  <1>1. PICK a, b \in Int : p = <<a, b>>
    OBVIOUS
  <1>2. /\ a = (a \div CHUNK_SIZE) * CHUNK_SIZE + (a % CHUNK_SIZE)
        /\ b = (b \div CHUNK_SIZE) * CHUNK_SIZE + (b % CHUNK_SIZE)
    BY Division
  <1> QED BY <1>1, <1>2 DEF CellAt, Home

\* Chunks by their coords.
IsChunks(chunks) == chunks \in [DOMAIN chunks -> Chunk] /\ DOMAIN chunks \subseteq ChunkCoord

LEMMA CellIn ==
  ASSUME NEW chunks, NEW p
  PROVE  p \in CellsOf(chunks) <=>
           \E c \in DOMAIN chunks, y \in Idx : \E x \in chunks[c].rows[y] : p = CellAt(c, x, y)
  <1> DEFINE Live(c, y) == {<<c[1] * CHUNK_SIZE + x, c[2] * CHUNK_SIZE + y>> : x \in chunks[c].rows[y]}
  <1>1. CellsOf(chunks) = UNION {Live(c, y) : c \in DOMAIN chunks, y \in Idx}
    BY DEF CellsOf
  <1>2. \A c, y : p \in Live(c, y) <=> \E x \in chunks[c].rows[y] : p = CellAt(c, x, y)
    BY DEF CellAt
  <1> HIDE DEF Live
  <1>3. p \in CellsOf(chunks) <=> \E c \in DOMAIN chunks, y \in Idx : p \in Live(c, y)
    BY <1>1
  <1> QED BY <1>2, <1>3

\* The live cells of some chunks, chunk by chunk.
LEMMA CellsAre ==
  ASSUME NEW chunks, IsChunks(chunks)
  PROVE  /\ CellsOf(chunks) \subseteq Int \X Int
         /\ \A c \in ChunkCoord, x, y \in Idx :
              CellAt(c, x, y) \in CellsOf(chunks) <=> c \in DOMAIN chunks /\ x \in chunks[c].rows[y]
  <1>1. \A p : p \in CellsOf(chunks) <=>
          \E c \in DOMAIN chunks, y \in Idx : \E x \in chunks[c].rows[y] : p = CellAt(c, x, y)
    BY CellIn
  <1>2. \A c \in DOMAIN chunks : c \in ChunkCoord /\ \A y \in Idx : chunks[c].rows[y] \subseteq Idx
    BY DEF IsChunks, Chunk, Rows, Row
  <1>3. CellsOf(chunks) \subseteq Int \X Int
    BY <1>1, <1>2, CellHome
  <1>4. ASSUME NEW c \in ChunkCoord, NEW x \in Idx, NEW y \in Idx
        PROVE  CellAt(c, x, y) \in CellsOf(chunks) <=> c \in DOMAIN chunks /\ x \in chunks[c].rows[y]
    <2>1. ASSUME NEW d \in DOMAIN chunks, NEW b \in Idx, NEW a \in chunks[d].rows[b], CellAt(c, x, y) = CellAt(d, a, b)
          PROVE  c = d /\ x = a /\ y = b
      <3>1. d \in ChunkCoord /\ a \in Idx
        BY <1>2
      <3> QED BY <2>1, <3>1, CellHome
    <2> QED BY <1>1, <2>1
  <1> QED BY <1>3, <1>4

\* Sets of cells with the same cells in every chunk are the same.
LEMMA SameCells ==
  ASSUME NEW A, NEW B, A \subseteq Int \X Int, B \subseteq Int \X Int,
         \A c \in ChunkCoord, x, y \in Idx : CellAt(c, x, y) \in A <=> CellAt(c, x, y) \in B
  PROVE  A = B
  <1>1. \A p \in Int \X Int : p \in A <=> p \in B
    BY HomeType, HomeCell
  <1> QED BY <1>1

-----------------------------------------------------------------------------
(* The whole world, with what is paused in its current phase. *)

Whole(w) == Wake(w, PausedCoords(w)).chunks

LEMMA HitAll ==
  ASSUME NEW w, WorldType(w)
  PROVE  Hit(w, PausedCoords(w)) = w.paused /\ Woken(w, PausedCoords(w)) = PausedCoords(w)
  <1>1. \A g \in w.paused : Members(g) # {} /\ Members(g) \subseteq PausedCoords(w)
    BY DEF WorldType, GroupType, PausedCoords
  <1>2. Hit(w, PausedCoords(w)) = w.paused
    BY <1>1 DEF Hit
  <1> QED BY <1>2 DEF Woken, PausedCoords

LEMMA WholeIs ==
  ASSUME NEW w, WorldType(w), Apart(w)
  PROVE  /\ DOMAIN Whole(w) = DOMAIN w.chunks \cup PausedCoords(w)
         /\ \A c \in DOMAIN w.chunks : Whole(w)[c] = w.chunks[c]
         /\ \A g \in w.paused : \A c \in Members(g) : Whole(w)[c] = Awake(g, w.tick)[c]
         /\ IsChunks(Whole(w))
  <1>1. WorldType(Wake(w, PausedCoords(w)))
    BY WakeOK
  <1>2. IsChunks(Whole(w))
    BY <1>1 DEF Whole, WorldType, IsChunks
  <1> QED BY <1>2, HitAll, WakeChunks DEF Whole

\* What it takes to be the whole of a world.
LEMMA WholeUnique ==
  ASSUME NEW w, WorldType(w), Apart(w), NEW chunks, IsChunks(chunks),
         DOMAIN chunks = DOMAIN w.chunks \cup PausedCoords(w),
         \A c \in DOMAIN w.chunks : chunks[c] = w.chunks[c],
         \A g \in w.paused : \A c \in Members(g) : chunks[c] = Awake(g, w.tick)[c]
  PROVE  Whole(w) = chunks
  <1>1. DOMAIN Whole(w) = DOMAIN chunks /\ IsChunks(Whole(w))
    BY WholeIs
  <1>2. ASSUME NEW c \in DOMAIN chunks PROVE Whole(w)[c] = chunks[c]
    <2>1. CASE c \in DOMAIN w.chunks
      BY <2>1, WholeIs
    <2>2. CASE c \in PausedCoords(w)
      <3>1. PICK g \in w.paused : c \in Members(g)
        BY <2>2 DEF PausedCoords
      <3> QED BY <3>1, WholeIs
    <2> QED BY <2>1, <2>2
  <1> QED BY <1>1, <1>2 DEF IsChunks

LEMMA NowIs ==
  ASSUME NEW w, WorldType(w), Apart(w)
  PROVE  Now(w) = CellsOf(Whole(w))
  <1>1. /\ DOMAIN Whole(w) = DOMAIN w.chunks \cup PausedCoords(w)
        /\ \A c \in DOMAIN w.chunks : Whole(w)[c] = w.chunks[c]
        /\ \A g \in w.paused : \A c \in Members(g) : Whole(w)[c] = Awake(g, w.tick)[c]
    BY WholeIs
  <1>2. \A g \in w.paused : DOMAIN Awake(g, w.tick) = Members(g)
    <2>1. \A g \in w.paused : GroupType(g, w.tick) /\ w.tick \in Int
      BY DEF WorldType
    <2> QED BY <2>1, AwakePhase
  <1>3. \A chunks, p : p \in CellsOf(chunks) <=>
          \E c \in DOMAIN chunks, y \in Idx : \E x \in chunks[c].rows[y] : p = CellAt(c, x, y)
    BY CellIn
  <1>4. ASSUME NEW p PROVE p \in Now(w) <=> p \in CellsOf(Whole(w))
    <2>1. p \in Now(w) <=> p \in CellsOf(w.chunks) \/ \E g \in w.paused : p \in CellsOf(Awake(g, w.tick))
      BY DEF Now
    <2>2. p \in CellsOf(w.chunks) => p \in CellsOf(Whole(w))
      BY <1>1, <1>3
    <2>3. ASSUME NEW g \in w.paused, p \in CellsOf(Awake(g, w.tick)) PROVE p \in CellsOf(Whole(w))
      <3>1. Members(g) \subseteq DOMAIN Whole(w)
        BY <1>1 DEF PausedCoords
      <3> QED BY <1>1, <1>2, <1>3, <2>3, <3>1
    <2>4. ASSUME p \in CellsOf(Whole(w)) PROVE p \in Now(w)
      <3>1. PICK c \in DOMAIN Whole(w), y \in Idx : \E x \in Whole(w)[c].rows[y] : p = CellAt(c, x, y)
        BY <1>3, <2>4
      <3>2. CASE c \in DOMAIN w.chunks
        BY <1>1, <1>3, <2>1, <3>1, <3>2
      <3>3. CASE c \in PausedCoords(w)
        <4>1. PICK g \in w.paused : c \in Members(g)
          BY <3>3 DEF PausedCoords
        <4> QED BY <1>1, <1>2, <1>3, <2>1, <3>1, <4>1
      <3> QED BY <1>1, <3>2, <3>3
    <2> QED BY <2>1, <2>2, <2>3, <2>4
  <1> QED BY <1>4

\* Waking changes no cell.
LEMMA WakeWhole ==
  ASSUME NEW w, WorldType(w), Apart(w), NEW S
  PROVE  Whole(Wake(w, S)) = Whole(w)
  <1> DEFINE v == Wake(w, S)
  <1>1. WorldType(v) /\ Apart(v)
    BY WakeOK
  <1>2. /\ DOMAIN v.chunks = DOMAIN w.chunks \cup Woken(w, S)
        /\ \A c \in DOMAIN w.chunks : v.chunks[c] = w.chunks[c]
        /\ \A g \in Hit(w, S) : \A c \in Members(g) : v.chunks[c] = Awake(g, w.tick)[c]
    BY WakeChunks
  <1>3. v.paused = w.paused \ Hit(w, S) /\ v.tick = w.tick
    BY WakeIs DEF WorldType
  <1> HIDE DEF v
  <1>4. /\ DOMAIN Whole(w) = DOMAIN w.chunks \cup PausedCoords(w)
        /\ \A c \in DOMAIN w.chunks : Whole(w)[c] = w.chunks[c]
        /\ \A g \in w.paused : \A c \in Members(g) : Whole(w)[c] = Awake(g, w.tick)[c]
        /\ IsChunks(Whole(w))
    BY WholeIs
  <1>5. PausedCoords(w) = PausedCoords(v) \cup Woken(w, S)
    BY <1>3 DEF PausedCoords, Woken, Hit
  <1>6. DOMAIN Whole(w) = DOMAIN v.chunks \cup PausedCoords(v)
    BY <1>2, <1>4, <1>5
  <1>7. ASSUME NEW c \in DOMAIN v.chunks PROVE Whole(w)[c] = v.chunks[c]
    <2>1. CASE c \in DOMAIN w.chunks
      BY <1>2, <1>4, <2>1
    <2>2. CASE c \in Woken(w, S)
      <3>1. PICK g \in Hit(w, S) : c \in Members(g)
        BY <2>2 DEF Woken
      <3>2. g \in w.paused
        BY DEF Hit
      <3> QED BY <1>2, <1>4, <3>1, <3>2
    <2> QED BY <1>2, <2>1, <2>2
  <1>8. \A g \in v.paused : \A c \in Members(g) : Whole(w)[c] = Awake(g, v.tick)[c]
    BY <1>3, <1>4
  <1>9. Whole(v) = Whole(w)
    BY <1>1, <1>4, <1>6, <1>7, <1>8, WholeUnique
  <1> QED BY <1>9 DEF v

\* Nor does pausing.
LEMMA PauseWhole ==
  ASSUME NEW w, WorldType(w), Apart(w), NEW Q,
         \A q \in Q : MayPause(w, q),
         \A q, r \in Q : q # r => q.members \cap r.members = {}
  PROVE  Whole(Pause(w, Q)) = Whole(w)
  <1> DEFINE v == Pause(w, Q)
             G(q) == [members        |-> Restrict(w.chunks, q.members),
                      period         |-> q.period,
                      paused_at_tick |-> w.tick]
             gone == UNION {q.members : q \in Q}
  <1>1. v.paused = w.paused \cup {G(q) : q \in Q} /\ v.tick = w.tick
    BY PauseIs DEF WorldType
  <1>2. v.chunks = [c \in DOMAIN w.chunks \ gone |-> w.chunks[c]]
    BY PauseIs DEF WorldType
  <1>3. \A q : /\ Members(G(q)) = q.members
               /\ \A c \in q.members : G(q).members[c] = w.chunks[c]
               /\ G(q).period = q.period /\ G(q).paused_at_tick = w.tick
    BY DEF Restrict, Members
  <1>4. WorldType(v) /\ Apart(v)
    BY PauseOK
  <1>5. \A q \in Q : q.members \subseteq DOMAIN w.chunks /\ q.period \in 1..MAX_PERIOD
    BY DEF MayPause
  <1>6. SameShown(v, w)
    BY PauseShows DEF PausedFrom
  <1>7. /\ DOMAIN Whole(w) = DOMAIN w.chunks \cup PausedCoords(w)
        /\ \A c \in DOMAIN w.chunks : Whole(w)[c] = w.chunks[c]
        /\ \A g \in w.paused : \A c \in Members(g) : Whole(w)[c] = Awake(g, w.tick)[c]
        /\ IsChunks(Whole(w))
    BY WholeIs
  <1> HIDE DEF v, G, gone
  <1>8. ASSUME NEW q \in Q PROVE Awake(G(q), w.tick) = G(q).members
    <2>1. (w.tick - G(q).paused_at_tick) % G(q).period = 0
      <3>1. w.tick - w.tick = 0
        BY DEF WorldType
      <3>2. q.period \in Nat \ {0}
        BY <1>5, PeriodAssumption
      <3>3. 0 % q.period = 0
        BY <3>2
      <3> QED BY <1>3, <3>1, <3>3
    <2> QED BY <2>1, PhaseNext DEF Awake
  <1>9. \A g \in v.paused : \A c \in Members(g) : Whole(w)[c] = Awake(g, v.tick)[c]
    <2>1. ASSUME NEW q \in Q, NEW c \in Members(G(q)) PROVE Whole(w)[c] = Awake(G(q), w.tick)[c]
      <3>1. c \in q.members /\ c \in DOMAIN w.chunks
        BY <1>3, <1>5
      <3> QED BY <1>3, <1>7, <1>8, <3>1
    <2> QED BY <1>1, <1>7, <2>1
  <1>10. \A c \in DOMAIN v.chunks : c \in DOMAIN w.chunks /\ Whole(w)[c] = v.chunks[c]
    BY <1>2, <1>7
  <1>11. DOMAIN Whole(w) = DOMAIN v.chunks \cup PausedCoords(v)
    BY <1>6, <1>7 DEF SameShown
  <1>12. IsChunks(Whole(w)) /\ \A c \in DOMAIN v.chunks : Whole(w)[c] = v.chunks[c]
    BY <1>7, <1>10
  <1> HIDE <1>7, <1>10
  <1>13. Whole(v) = Whole(w)
    BY <1>4, <1>9, <1>11, <1>12, WholeUnique
  <1> QED BY <1>13 DEF v

-----------------------------------------------------------------------------
(* Halos: who shows a chunk a cell. *)

\* The chunk at d of c, one of `chunks`, shows c a cell.
ShowsTo(chunks, c, d) == To(c, d) \in DOMAIN chunks /\ Shows(chunks[To(c, d)], Opp(d))

LEMMA Negated == -(-1) = 1 /\ -0 = 0
  <1>1. \A i \in Int : -i = 0 - i /\ -(-i) = i
    OBVIOUS
  <1>2. -0 = 0
    BY <1>1, 0 \in Int, 0 - 0 = 0
  <1>3. -(-1) = 1
    BY <1>1, 1 \in Int
  <1> QED BY <1>2, <1>3

\* Only those count that show a cell.
LEMMA SameHalo ==
  ASSUME NEW A, \A n \in DOMAIN A : A[n] \in Chunk,
         NEW B, \A n \in DOMAIN B : B[n] \in Chunk,
         NEW c,
         \A d \in Dir : ShowsTo(A, c, d) \/ ShowsTo(B, c, d)
                          => /\ To(c, d) \in DOMAIN A \cap DOMAIN B
                             /\ A[To(c, d)] = B[To(c, d)]
  PROVE  Halo(EdgesOf(A), c) = Halo(EdgesOf(B), c)
  <1> DEFINE At(e, dx, dy) == LET n == To(c, <<dx, dy>>) IN IF n \in DOMAIN e THEN e[n] ELSE EmptyBundle
             a(dx, dy) == At(EdgesOf(A), dx, dy)
             b(dx, dy) == At(EdgesOf(B), dx, dy)
  <1>1. \A e : Halo(e, c) = [top     |-> At(e, 0, -1).bottom, bottom |-> At(e, 0, 1).top,
                             left    |-> At(e, -1, 0).right,  right  |-> At(e, 1, 0).left,
                             corners |-> {k \in Corner : \/ k = "TL" /\ "BR" \in At(e, -1, -1).corners
                                                         \/ k = "TR" /\ "BL" \in At(e, 1, -1).corners
                                                         \/ k = "BL" /\ "TR" \in At(e, -1, 1).corners
                                                         \/ k = "BR" /\ "TL" \in At(e, 1, 1).corners}]
    BY DEF Halo
  <1>2. ASSUME NEW i, NEW j, <<i, j>> \in Dir
        PROVE  \/ a(i, j) = b(i, j)
               \/ /\ a(i, j) = EmptyBundle
                     \/ \E ch \in Chunk : a(i, j) = Edges(ch) /\ ~Shows(ch, <<-i, -j>>)
                  /\ b(i, j) = EmptyBundle
                     \/ \E ch \in Chunk : b(i, j) = Edges(ch) /\ ~Shows(ch, <<-i, -j>>)
    <2> DEFINE n == To(c, <<i, j>>)
    <2>1. /\ n \in DOMAIN A => a(i, j) = Edges(A[n])
          /\ n \notin DOMAIN A => a(i, j) = EmptyBundle
          /\ n \in DOMAIN B => b(i, j) = Edges(B[n])
          /\ n \notin DOMAIN B => b(i, j) = EmptyBundle
      BY DEF EdgesOf
    <2>2. Opp(<<i, j>>) = <<-i, -j>>
      BY DEF Opp
    <2>3. (n \in DOMAIN A /\ Shows(A[n], <<-i, -j>>)) \/ (n \in DOMAIN B /\ Shows(B[n], <<-i, -j>>))
            => n \in DOMAIN A /\ n \in DOMAIN B /\ A[n] = B[n]
      BY <1>2, <2>2 DEF ShowsTo
    <2> HIDE DEF n, a, b
    <2> QED BY <2>1, <2>3
  <1> HIDE DEF a, b
  <1>3. \A ch \in Chunk : /\ Shows(ch, <<0, -1>>) <=> Edges(ch).top # {}
                          /\ Shows(ch, <<0, 1>>) <=> Edges(ch).bottom # {}
                          /\ Shows(ch, <<-1, 0>>) <=> Edges(ch).left # {}
                          /\ Shows(ch, <<1, 0>>) <=> Edges(ch).right # {}
                          /\ Shows(ch, <<-1, -1>>) <=> "TL" \in Edges(ch).corners
                          /\ Shows(ch, <<1, -1>>) <=> "TR" \in Edges(ch).corners
                          /\ Shows(ch, <<-1, 1>>) <=> "BL" \in Edges(ch).corners
                          /\ Shows(ch, <<1, 1>>) <=> "BR" \in Edges(ch).corners
    BY ShowsIs
  <1>4. /\ EmptyBundle.bottom = {} /\ EmptyBundle.top = {} /\ EmptyBundle.left = {} /\ EmptyBundle.right = {}
        /\ EmptyBundle.corners = {}
    BY DEF EmptyBundle
  <1>5. -(-1) = 1 /\ -0 = 0
    BY Negated
  <1>6. a(0, -1).bottom = b(0, -1).bottom
    BY <1>2, <1>3, <1>4, <1>5, DirIs
  <1>7. a(0, 1).top = b(0, 1).top
    BY <1>2, <1>3, <1>4, <1>5, DirIs
  <1>8. a(-1, 0).right = b(-1, 0).right
    BY <1>2, <1>3, <1>4, <1>5, DirIs
  <1>9. a(1, 0).left = b(1, 0).left
    BY <1>2, <1>3, <1>4, <1>5, DirIs
  <1>10. "BR" \in a(-1, -1).corners <=> "BR" \in b(-1, -1).corners
    BY <1>2, <1>3, <1>4, <1>5, DirIs
  <1>11. "BL" \in a(1, -1).corners <=> "BL" \in b(1, -1).corners
    BY <1>2, <1>3, <1>4, <1>5, DirIs
  <1>12. "TR" \in a(-1, 1).corners <=> "TR" \in b(-1, 1).corners
    BY <1>2, <1>3, <1>4, <1>5, DirIs
  <1>13. "TL" \in a(1, 1).corners <=> "TL" \in b(1, 1).corners
    BY <1>2, <1>3, <1>4, <1>5, DirIs
  <1> USE DEF a, b
  <1> HIDE DEF At
  <1> QED BY <1>1, <1>6, <1>7, <1>8, <1>9, <1>10, <1>11, <1>12, <1>13, ZenonT(60)

LEMMA NoHalo ==
  ASSUME NEW A, \A n \in DOMAIN A : A[n] \in Chunk, NEW c, \A d \in Dir : ~ShowsTo(A, c, d)
  PROVE  Halo(EdgesOf(A), c) = EmptyBundle
  <1> DEFINE none == [n \in {} |-> EmptyChunk]
  <1>1. DOMAIN none = {}
    OBVIOUS
  <1> HIDE DEF none
  <1>2. Halo(EdgesOf(A), c) = Halo(EdgesOf(none), c)
    BY <1>1, SameHalo DEF ShowsTo
  <1>3. DOMAIN EdgesOf(none) = {}
    BY <1>1 DEF EdgesOf
  <1>4. Halo(EdgesOf(none), c) = EmptyBundle
    BY <1>3 DEF Halo, EmptyBundle, Corner
  <1> QED BY <1>2, <1>4

\* The chunks whose cells a chunk at c feels: all, or the owned ones.
Felt(chunks, owned, c) == IF c \in owned THEN Restrict(chunks, DOMAIN chunks \cap owned) ELSE chunks

LEMMA FeltIs ==
  ASSUME NEW chunks, NEW owned, NEW c
  PROVE  /\ \A n : n \in DOMAIN Felt(chunks, owned, c) <=> n \in DOMAIN chunks /\ (c \in owned => n \in owned)
         /\ \A n \in DOMAIN Felt(chunks, owned, c) : Felt(chunks, owned, c)[n] = chunks[n]
         /\ HaloWithin(EdgesOf(chunks), owned, c) = Halo(EdgesOf(Felt(chunks, owned, c)), c)
  <1>1. /\ \A n : n \in DOMAIN Felt(chunks, owned, c) <=> n \in DOMAIN chunks /\ (c \in owned => n \in owned)
        /\ \A n \in DOMAIN Felt(chunks, owned, c) : Felt(chunks, owned, c)[n] = chunks[n]
    BY DEF Felt, Restrict
  <1>2. CASE c \in owned
    <2> DEFINE near == DOMAIN chunks \cap owned
    <2>1. DOMAIN EdgesOf(chunks) = DOMAIN chunks
      BY DEF EdgesOf
    <2>2. Restrict(EdgesOf(chunks), near) = EdgesOf(Restrict(chunks, near))
      BY DEF EdgesOf, Restrict
    <2>3. HaloWithin(EdgesOf(chunks), owned, c) = Halo(Restrict(EdgesOf(chunks), near), c)
      BY <1>2, <2>1 DEF HaloWithin
    <2>4. Felt(chunks, owned, c) = Restrict(chunks, near)
      BY <1>2 DEF Felt
    <2> HIDE DEF near
    <2> QED BY <1>1, <2>2, <2>3, <2>4
  <1>3. CASE c \notin owned
    BY <1>1, <1>3 DEF HaloWithin, Felt
  <1> QED BY <1>2, <1>3

-----------------------------------------------------------------------------
(* The halo in the plane. *)

\* Column or row u, from -1 to CHUNK_SIZE: on which side of the chunk it lies,
\* and where in the chunk there.
Side(u)   == IF u < 0 THEN -1 ELSE IF u > Last THEN 1 ELSE 0
Inside(u) == IF u < 0 THEN Last ELSE IF u > Last THEN 0 ELSE u

LEMMA SideIs ==
  ASSUME NEW u \in -1..CHUNK_SIZE, NEW a \in Int
  PROVE  /\ Side(u) \in -1..1 /\ Inside(u) \in Idx
         /\ a * CHUNK_SIZE + u = (a + Side(u)) * CHUNK_SIZE + Inside(u)
         /\ u \in Idx <=> Side(u) = 0
         /\ u \in Idx => Inside(u) = u
  <1>1. CASE u = -1
    <2>1. Side(u) = -1 /\ Inside(u) = CHUNK_SIZE - 1
      BY <1>1 DEF Side, Inside, Last
    <2>2. (a + (-1)) * CHUNK_SIZE = a * CHUNK_SIZE - CHUNK_SIZE
      BY SizeAssumption
    <2> QED BY <1>1, <2>1, <2>2, SizeAssumption DEF Idx
  <1>2. CASE u = CHUNK_SIZE
    <2>1. Side(u) = 1 /\ Inside(u) = 0
      BY <1>2, SizeAssumption DEF Side, Inside, Last
    <2>2. (a + 1) * CHUNK_SIZE = a * CHUNK_SIZE + CHUNK_SIZE
      BY SizeAssumption
    <2> QED BY <1>2, <2>1, <2>2, SizeAssumption DEF Idx
  <1>3. CASE u \in Idx
    <2>1. Side(u) = 0 /\ Inside(u) = u
      BY <1>3, SizeAssumption DEF Side, Inside, Last, Idx
    <2> QED BY <1>3, <2>1, SizeAssumption DEF Idx
  <1> QED BY <1>1, <1>2, <1>3, SizeAssumption DEF Idx

\* A cell of the halo is a cell of the chunk on its side.
LEMMA HaloShows ==
  ASSUME NEW A, \A n \in DOMAIN A : A[n] \in Chunk, NEW c, NEW rows,
         NEW u \in -1..CHUNK_SIZE, NEW v \in -1..CHUNK_SIZE, ~(u \in Idx /\ v \in Idx)
  PROVE  HaloCell(rows, Halo(EdgesOf(A), c), u, v)
           <=> LET n == To(c, <<Side(u), Side(v)>>)
               IN n \in DOMAIN A /\ Inside(u) \in A[n].rows[Inside(v)]
  <1> DEFINE e == EdgesOf(A)
             At(dx, dy) == LET n == To(c, <<dx, dy>>) IN IF n \in DOMAIN e THEN e[n] ELSE EmptyBundle
             halo == Halo(e, c)
             Cell(dx, dy, x, y) == LET n == To(c, <<dx, dy>>) IN n \in DOMAIN A /\ x \in A[n].rows[y]
  <1>1. /\ halo.top = At(0, -1).bottom /\ halo.bottom = At(0, 1).top
        /\ halo.left = At(-1, 0).right /\ halo.right = At(1, 0).left
        /\ "TL" \in halo.corners <=> "BR" \in At(-1, -1).corners
        /\ "TR" \in halo.corners <=> "BL" \in At(1, -1).corners
        /\ "BL" \in halo.corners <=> "TR" \in At(-1, 1).corners
        /\ "BR" \in halo.corners <=> "TL" \in At(1, 1).corners
    BY DEF Halo, Corner
  <1>2. \A dx, dy : IF To(c, <<dx, dy>>) \in DOMAIN A
                    THEN At(dx, dy) = Edges(A[To(c, <<dx, dy>>)])
                    ELSE At(dx, dy) = EmptyBundle
    BY DEF EdgesOf
  <1> HIDE DEF At
  <1>3. \A ch : /\ Edges(ch).top = ch.rows[0] /\ Edges(ch).bottom = ch.rows[Last]
                /\ Edges(ch).left = {y \in Idx : 0 \in ch.rows[y]}
                /\ Edges(ch).right = {y \in Idx : Last \in ch.rows[y]}
                /\ "TL" \in Edges(ch).corners <=> 0 \in ch.rows[0]
                /\ "TR" \in Edges(ch).corners <=> Last \in ch.rows[0]
                /\ "BL" \in Edges(ch).corners <=> 0 \in ch.rows[Last]
                /\ "BR" \in Edges(ch).corners <=> Last \in ch.rows[Last]
    BY DEF Edges, Corner
  <1>4. /\ EmptyBundle.bottom = {} /\ EmptyBundle.top = {} /\ EmptyBundle.left = {} /\ EmptyBundle.right = {}
        /\ EmptyBundle.corners = {}
    BY DEF EmptyBundle
  <1>5. /\ \A x : x \in At(0, -1).bottom <=> Cell(0, -1, x, Last)
        /\ \A x : x \in At(0, 1).top <=> Cell(0, 1, x, 0)
        /\ \A y \in Idx : y \in At(-1, 0).right <=> Cell(-1, 0, Last, y)
        /\ \A y \in Idx : y \in At(1, 0).left <=> Cell(1, 0, 0, y)
    BY <1>2, <1>3, <1>4
  <1>6. /\ "BR" \in At(-1, -1).corners <=> Cell(-1, -1, Last, Last)
        /\ "BL" \in At(1, -1).corners <=> Cell(1, -1, 0, Last)
        /\ "TR" \in At(-1, 1).corners <=> Cell(-1, 1, Last, 0)
        /\ "TL" \in At(1, 1).corners <=> Cell(1, 1, 0, 0)
    BY <1>2, <1>3, <1>4
  <1> HIDE DEF halo, Cell, e
  <1>7. HaloCell(rows, halo, u, v) <=> Cell(Side(u), Side(v), Inside(u), Inside(v))
    <2>1. \A w \in -1..CHUNK_SIZE :
            \/ w \in Idx /\ Side(w) = 0 /\ Inside(w) = w /\ ~(w < 0) /\ ~(w > Last)
            \/ w \notin Idx /\ w < 0 /\ Side(w) = -1 /\ Inside(w) = Last
            \/ w \notin Idx /\ ~(w < 0) /\ w > Last /\ Side(w) = 1 /\ Inside(w) = 0
      BY SizeAssumption DEF Idx, Last, Side, Inside
    <2>2. CASE v \in Idx
      BY <1>1, <1>5, <2>1, <2>2 DEF HaloCell
    <2>3. CASE v \notin Idx /\ u \in Idx
      BY <1>1, <1>5, <2>1, <2>3 DEF HaloCell
    <2>4. CASE v \notin Idx /\ u \notin Idx
      BY <1>1, <1>6, <2>1, <2>4 DEF HaloCell
    <2> QED BY <2>2, <2>3, <2>4
  <1> QED BY <1>7 DEF halo, Cell, e

\* What the chunk at c and its halo hold i columns and j rows from the cell at x, y
\* is what the plane holds there, as far as the chunk feels it.
HaloTells(chunks, owned, c, x, y, i, j) ==
  LET q == <<CellAt(c, x, y)[1] + i, CellAt(c, x, y)[2] + j>>
  IN HaloCell(ChunkAt(chunks, c).rows, HaloWithin(EdgesOf(chunks), owned, c), x + i, y + j)
       <=> q \in CellsOf(chunks) /\ (c \in owned => Home(q) \in owned)

LEMMA HaloInPlane ==
  ASSUME NEW chunks, IsChunks(chunks), NEW owned, NEW c \in ChunkCoord,
         NEW x \in Idx, NEW y \in Idx, NEW i \in -1..1, NEW j \in -1..1, ~(i = 0 /\ j = 0)
  PROVE  HaloTells(chunks, owned, c, x, y, i, j)
  <1> DEFINE q == <<CellAt(c, x, y)[1] + i, CellAt(c, x, y)[2] + j>>
             u == x + i
             v == y + j
             A == Felt(chunks, owned, c)
             rows == ChunkAt(chunks, c).rows
             halo == Halo(EdgesOf(A), c)
             m == To(c, <<Side(u), Side(v)>>)
  <1>1. u \in -1..CHUNK_SIZE /\ v \in -1..CHUNK_SIZE
    BY SizeAssumption DEF Idx
  <1>2. PICK a, b \in Int : c = <<a, b>>
    BY DEF ChunkCoord
  <1>3. q = <<(a * CHUNK_SIZE + x) + i, (b * CHUNK_SIZE + y) + j>>
    BY <1>2 DEF CellAt
  <1>4. /\ (a * CHUNK_SIZE + x) + i = a * CHUNK_SIZE + u
        /\ (b * CHUNK_SIZE + y) + j = b * CHUNK_SIZE + v
    BY SizeAssumption DEF Idx
  <1>5. /\ Side(u) \in -1..1 /\ Inside(u) \in Idx
        /\ Side(v) \in -1..1 /\ Inside(v) \in Idx
        /\ a * CHUNK_SIZE + u = (a + Side(u)) * CHUNK_SIZE + Inside(u)
        /\ b * CHUNK_SIZE + v = (b + Side(v)) * CHUNK_SIZE + Inside(v)
    <2> HIDE DEF u, v
    <2> QED BY <1>1, SideIs
  <1>6. /\ u \in Idx <=> Side(u) = 0
        /\ v \in Idx <=> Side(v) = 0
        /\ u \in Idx => Inside(u) = u
        /\ v \in Idx => Inside(v) = v
    <2> HIDE DEF u, v
    <2> QED BY <1>1, SideIs
  <1> HIDE DEF q, u, v
  <1>7. m = <<a + Side(u), b + Side(v)>>
    BY <1>2 DEF To
  <1>8. m \in ChunkCoord
    BY <1>5, <1>7 DEF ChunkCoord
  <1>9. q = CellAt(m, Inside(u), Inside(v))
    BY <1>3, <1>4, <1>5, <1>7 DEF CellAt
  <1>10. Home(q) = m
    BY <1>5, <1>8, <1>9, CellHome
  <1>11. q \in CellsOf(chunks) <=> m \in DOMAIN chunks /\ Inside(u) \in chunks[m].rows[Inside(v)]
    BY <1>5, <1>8, <1>9, CellsAre
  <1>12. HaloWithin(EdgesOf(chunks), owned, c) = halo
    BY FeltIs
  <1>13. /\ \A n : n \in DOMAIN A <=> n \in DOMAIN chunks /\ (c \in owned => n \in owned)
         /\ \A n \in DOMAIN A : A[n] = chunks[n]
    BY FeltIs
  <1>14. \A k \in DOMAIN A : A[k] \in Chunk
    BY <1>13 DEF IsChunks
  <1>20. SUFFICES (HaloCell(rows, halo, u, v) <=> q \in CellsOf(chunks) /\ (c \in owned => Home(q) \in owned))
    BY <1>12 DEF HaloTells, q, u, v
  <1>15. CASE u \in Idx /\ v \in Idx
    <2>1. m = c
      BY <1>2, <1>6, <1>7, <1>15
    <2>2. HaloCell(rows, halo, u, v) <=> u \in rows[v]
      BY <1>15, SizeAssumption DEF HaloCell, Idx, Last
    <2>3. u \in rows[v] <=> c \in DOMAIN chunks /\ u \in chunks[c].rows[v]
      BY <1>15 DEF ChunkAt, EmptyChunk, EmptyRows
    <2> QED BY <1>6, <1>10, <1>11, <1>12, <1>15, <2>1, <2>2, <2>3
  <1>16. CASE ~(u \in Idx /\ v \in Idx)
    <2> HIDE DEF A, m, rows
    <2>1. HaloCell(rows, halo, u, v) <=> m \in DOMAIN A /\ Inside(u) \in A[m].rows[Inside(v)]
      BY <1>1, <1>14, <1>16, HaloShows DEF m
    <2> QED BY <1>10, <1>11, <1>12, <1>13, <2>1 DEF rows
  <1> QED BY <1>15, <1>16

\* B3/S23 in the plane: whether the cell p is alive next to the live cells L it
\* feels, if `owned` is owned.
Lives(L, owned, p) ==
  LET n == LiveNeighbours({q \in L : Home(p) \in owned => Home(q) \in owned}, p[1], p[2])
  IN n = 3 \/ (n = 2 /\ p \in L)

\* The kernel computes it, halo and claims included.
LEMMA KernelInPlane ==
  ASSUME NEW chunks, IsChunks(chunks), NEW owned, NEW c \in ChunkCoord, NEW x \in Idx, NEW y \in Idx
  PROVE  x \in Kernel(ChunkAt(chunks, c).rows, HaloWithin(EdgesOf(chunks), owned, c))[y]
           <=> Lives(CellsOf(chunks), owned, CellAt(c, x, y))
  <1> DEFINE p == CellAt(c, x, y)
             rows == ChunkAt(chunks, c).rows
             halo == HaloWithin(EdgesOf(chunks), owned, c)
             L == CellsOf(chunks)
             F == {q \in L : Home(p) \in owned => Home(q) \in owned}
             H == LiveCells(rows, halo)
  <1>1. rows \in Rows
    BY Sizes DEF ChunkAt, IsChunks, Chunk
  <1>2. halo \in EdgeBundle
    <2>1. \A n \in DOMAIN Felt(chunks, owned, c) : Felt(chunks, owned, c)[n] \in Chunk
      BY FeltIs DEF IsChunks
    <2>2. \A n \in DOMAIN EdgesOf(Felt(chunks, owned, c)) : EdgesOf(Felt(chunks, owned, c))[n] \in EdgeBundle
      BY <2>1, EdgesType DEF EdgesOf
    <2> QED BY <2>2, FeltIs, HaloType
  <1>3. Home(p) = c /\ p \in Int \X Int
    BY CellHome
  <1>4. x \in rows[y] <=> p \in L
    BY CellsAre DEF ChunkAt, EmptyChunk, EmptyRows
  <1>5. ASSUME NEW i \in -1..1, NEW j \in -1..1, ~(i = 0 /\ j = 0)
        PROVE  <<x + i, y + j>> \in H <=> <<p[1] + i, p[2] + j>> \in F
    <2>1. <<x + i, y + j>> \in (-1..CHUNK_SIZE) \X (-1..CHUNK_SIZE)
      BY SizeAssumption DEF Idx
    <2> DEFINE q == <<p[1] + i, p[2] + j>>
    <2>2. <<x + i, y + j>> \in H <=> HaloCell(rows, halo, x + i, y + j)
      BY <2>1 DEF LiveCells
    <2>3. HaloTells(chunks, owned, c, x, y, i, j)
      BY <1>5, HaloInPlane
    <2>4. HaloCell(rows, halo, x + i, y + j) <=> q \in L /\ (c \in owned => Home(q) \in owned)
      BY <2>3 DEF HaloTells
    <2> QED BY <1>3, <2>2, <2>4
  <1>6. x \in Kernel(rows, halo)[y]
          <=> LET n == LiveNeighbours(H, x, y) IN n = 3 \/ (n = 2 /\ x \in rows[y])
    <2> HIDE DEF rows, halo
    <2> QED BY <1>1, <1>2, KernelIsLife DEF H
  <1>7. LiveNeighbours(H, x, y) = LiveNeighbours(F, p[1], p[2])
    <2> HIDE DEF H, F, p
    <2>1. PICK a, b \in Int : p[1] = a /\ p[2] = b
      BY <1>3
    <2>2. \A k \in Int : k + (-1) = k - 1 /\ k + 0 = k
      OBVIOUS
    <2>3. x \in Int /\ y \in Int /\ -1 \in -1..1 /\ 0 \in -1..1 /\ 1 \in -1..1
      BY SizeAssumption DEF Idx
    <2>4. /\ <<x - 1, y - 1>> \in H <=> <<a - 1, b - 1>> \in F
          /\ <<x, y - 1>> \in H <=> <<a, b - 1>> \in F
          /\ <<x + 1, y - 1>> \in H <=> <<a + 1, b - 1>> \in F
          /\ <<x - 1, y>> \in H <=> <<a - 1, b>> \in F
          /\ <<x + 1, y>> \in H <=> <<a + 1, b>> \in F
          /\ <<x - 1, y + 1>> \in H <=> <<a - 1, b + 1>> \in F
          /\ <<x, y + 1>> \in H <=> <<a, b + 1>> \in F
          /\ <<x + 1, y + 1>> \in H <=> <<a + 1, b + 1>> \in F
      BY <1>5, <2>1, <2>2, <2>3
    <2>5. \A e, f : (e \in H <=> f \in F) => Bit(e, H) = Bit(f, F)
      BY DEF Bit
    <2> QED BY <2>1, <2>4, <2>5 DEF LiveNeighbours
  <1>8. Lives(L, owned, p) <=> LET n == LiveNeighbours(F, p[1], p[2]) IN n = 3 \/ (n = 2 /\ p \in L)
    BY DEF Lives
  <1> HIDE DEF p, rows, halo, L, F, H
  <1>9. x \in Kernel(rows, halo)[y] <=> Lives(L, owned, p)
    BY <1>4, <1>6, <1>7, <1>8
  <1> QED BY <1>9 DEF p, rows, halo, L

-----------------------------------------------------------------------------
(* Locked cells. *)

\* What is locked in the chunk at c.
Stamp(c, alive, dead) ==
  [mask  |-> [y \in Idx |-> {x \in Idx : CellAt(c, x, y) \in alive \cup dead}],
   value |-> [y \in Idx |-> {x \in Idx : CellAt(c, x, y) \in alive}]]

\* The chunks with these cells are there, and have them locked at their values.
Stamped(chunks, alive, dead) ==
  /\ \A p \in alive \cup dead : Home(p) \in DOMAIN chunks
  /\ \A c \in DOMAIN chunks : chunks[c].frozen = Stamp(c, alive, dead)
  /\ alive \subseteq CellsOf(chunks)

LEMMA StampIs ==
  ASSUME NEW c \in ChunkCoord, NEW x \in Idx, NEW y \in Idx, NEW alive, NEW dead
  PROVE  /\ x \in Stamp(c, alive, dead).mask[y] <=> CellAt(c, x, y) \in alive \cup dead
         /\ x \in Stamp(c, alive, dead).value[y] <=> CellAt(c, x, y) \in alive
  BY DEF Stamp

\* A chunk without locked cells is not frozen, and one that is not frozen has none.
LEMMA StampFree ==
  ASSUME NEW c \in ChunkCoord, NEW alive \in SUBSET (Int \X Int), NEW dead \in SUBSET (Int \X Int)
  PROVE  IF \E p \in alive \cup dead : Home(p) = c
         THEN Stamp(c, alive, dead).mask # EmptyRows
         ELSE Stamp(c, alive, dead) = Unlocked
  <1>1. CASE \E p \in alive \cup dead : Home(p) = c
    <2>1. PICK p \in alive \cup dead : Home(p) = c
      BY <1>1
    <2> DEFINE x == p[1] % CHUNK_SIZE
               y == p[2] % CHUNK_SIZE
    <2>2. p \in Int \X Int
      OBVIOUS
    <2>3. x \in Idx /\ y \in Idx /\ p = CellAt(c, x, y)
      BY <2>1, <2>2, HomeType, HomeCell
    <2> HIDE DEF x, y
    <2>4. x \in Stamp(c, alive, dead).mask[y]
      BY <2>1, <2>3, StampIs
    <2>5. EmptyRows[y] = {}
      BY <2>3 DEF EmptyRows
    <2> QED BY <1>1, <2>4, <2>5
  <1>2. CASE ~\E p \in alive \cup dead : Home(p) = c
    <2>1. \A x, y \in Idx : CellAt(c, x, y) \notin alive \cup dead
      BY <1>2, CellHome
    <2>2. [y \in Idx |-> {x \in Idx : CellAt(c, x, y) \in alive \cup dead}] = EmptyRows
      BY <2>1 DEF EmptyRows
    <2>3. [y \in Idx |-> {x \in Idx : CellAt(c, x, y) \in alive}] = EmptyRows
      BY <2>1 DEF EmptyRows
    <2>4. Stamp(c, alive, dead) = Unlocked
      BY <2>2, <2>3 DEF Stamp, Unlocked
    <2> QED BY <1>2, <2>4
  <1> QED BY <1>1, <1>2

\* A cell is alive in the next generation: locked so, or not locked and it lives.
NextAlive(L, owned, alive, dead, p) == p \in alive \/ (p \notin dead /\ Lives(L, owned, p))

\* Nothing comes from nothing.
LEMMA QuietKernel ==
  ASSUME NEW x \in Idx, NEW y \in Idx
  PROVE  x \notin Kernel(EmptyRows, EmptyBundle)[y]
  <1> DEFINE H == LiveCells(EmptyRows, EmptyBundle)
  <1>1. \A u, v : ~HaloCell(EmptyRows, EmptyBundle, u, v)
    BY DEF HaloCell, EmptyRows, EmptyBundle
  <1>2. H = {}
    BY <1>1 DEF LiveCells
  <1>3. \A e : Bit(e, {}) = 0
    BY DEF Bit
  <1>4. LiveNeighbours({}, x, y) = 0
    BY <1>3 DEF LiveNeighbours
  <1>5. x \in Kernel(EmptyRows, EmptyBundle)[y]
          <=> LET n == LiveNeighbours(H, x, y) IN n = 3 \/ (n = 2 /\ x \in EmptyRows[y])
    BY Sizes, KernelIsLife
  <1> QED BY <1>2, <1>4, <1>5

\* A step of a chunk is a generation of its cells in the plane.
LEMMA StepInPlane ==
  ASSUME NEW chunks, IsChunks(chunks), NEW owned,
         NEW alive \in SUBSET (Int \X Int), NEW dead \in SUBSET (Int \X Int), Stamped(chunks, alive, dead),
         NEW c \in ChunkCoord, NEW x \in Idx, NEW y \in Idx
  PROVE  x \in Step(ChunkAt(chunks, c), HaloWithin(EdgesOf(chunks), owned, c)).rows[y]
           <=> NextAlive(CellsOf(chunks), owned, alive, dead, CellAt(c, x, y))
  <1> DEFINE p == CellAt(c, x, y)
             ch == ChunkAt(chunks, c)
             halo == HaloWithin(EdgesOf(chunks), owned, c)
             L == CellsOf(chunks)
  <1>1. x \in Kernel(ch.rows, halo)[y] <=> Lives(L, owned, p)
    BY KernelInPlane
  <1>2. ch \in Chunk
    BY Sizes DEF ChunkAt, IsChunks
  <1>3. ch.frozen = Stamp(c, alive, dead)
    <2>1. CASE c \in DOMAIN chunks
      BY <2>1 DEF ChunkAt, Stamped
    <2>2. CASE c \notin DOMAIN chunks
      BY <2>2, StampFree DEF ChunkAt, EmptyChunk, Stamped
    <2> QED BY <2>1, <2>2
  <1>4. /\ x \in ch.frozen.mask[y] <=> p \in alive \cup dead
        /\ x \in ch.frozen.value[y] <=> p \in alive
    BY <1>3, StampIs
  <1>5. x \in ch.rows[y] <=> p \in L
    BY CellsAre DEF ChunkAt, EmptyChunk, EmptyRows
  <1>6. p \in alive => p \in L
    BY DEF Stamped
  <1> HIDE DEF p, ch, halo, L
  <1>7. CASE IsEmpty(ch) /\ halo = EmptyBundle
    <2>1. Step(ch, halo) = ch /\ ch.rows = EmptyRows
      BY <1>7 DEF Step, IsEmpty
    <2>2. ~Lives(L, owned, p)
      BY <1>1, <1>7, <2>1, QuietKernel
    <2>3. x \notin ch.rows[y]
      BY <2>1 DEF EmptyRows
    <2>4. p \notin alive
      BY <1>5, <1>6, <2>3
    <2> QED BY <2>1, <2>2, <2>3, <2>4 DEF NextAlive, p, ch, halo, L
  <1>8. CASE ~(IsEmpty(ch) /\ halo = EmptyBundle)
    <2> DEFINE K == Kernel(ch.rows, halo)
               after == [z \in Idx |-> (K[z] \ ch.frozen.mask[z]) \cup (ch.frozen.value[z] \cap ch.frozen.mask[z])]
    <2>1. Step(ch, halo) = [ch EXCEPT !.rows = after]
      BY <1>8 DEF Step
    <2>2. Step(ch, halo).rows = after
      BY <1>2, <2>1 DEF Chunk
    <2>3. x \in after[y] <=> (x \in K[y] /\ x \notin ch.frozen.mask[y])
                               \/ (x \in ch.frozen.value[y] /\ x \in ch.frozen.mask[y])
      OBVIOUS
    <2> HIDE DEF K, after
    <2>4. x \in K[y] <=> Lives(L, owned, p)
      BY <1>1 DEF K
    <2>5. x \in Step(ch, halo).rows[y] <=> NextAlive(L, owned, alive, dead, p)
      BY <1>4, <2>2, <2>3, <2>4 DEF NextAlive
    <2> QED BY <2>5 DEF p, ch, halo, L
  <1> QED BY <1>7, <1>8

-----------------------------------------------------------------------------
(* A tick, seen in the whole world. *)

LEMMA NextRemainder ==
  ASSUME NEW a \in Int, NEW p \in Nat \ {0}
  PROVE  (a + 1) % p = IF (a % p) + 1 = p THEN 0 ELSE (a % p) + 1
  <1> DEFINE q == a \div p
             r == a % p
  <1>1. q \in Int /\ r \in 0..(p - 1) /\ a = q * p + r
    OBVIOUS
  <1>2. \A k \in Int, s \in 0..(p - 1) : (k * p + s) % p = s
    OBVIOUS
  <1> HIDE DEF q, r
  <1>3. CASE r + 1 = p
    <2>1. a + 1 = (q + 1) * p + 0
      BY <1>1, <1>3
    <2>2. ((q + 1) * p + 0) % p = 0
      <3>1. q + 1 \in Int /\ 0 \in 0..(p - 1)
        BY <1>1
      <3> QED BY <1>2, <3>1
    <2> QED BY <1>3, <2>1, <2>2 DEF r
  <1>4. CASE r + 1 # p
    <2>1. a + 1 = q * p + (r + 1) /\ r + 1 \in 0..(p - 1)
      BY <1>1, <1>4
    <2>2. (q * p + (r + 1)) % p = r + 1
      BY <1>1, <1>2, <2>1
    <2> QED BY <1>4, <2>1, <2>2 DEF r
  <1> QED BY <1>3, <1>4

\* A pattern that recurs goes on while it is paused.
LEMMA AwakeNext ==
  ASSUME NEW g, NEW tick \in Int, NEW t \in Int, GroupType(g, t), Phase(g.members, g.period) = g.members
  PROVE  Awake(g, tick + 1) = StepTogether(Awake(g, tick))
  <1> DEFINE p == g.period
             a == tick - g.paused_at_tick
             k == a % p
  <1>1. p \in Nat \ {0} /\ a \in Int /\ (tick + 1) - g.paused_at_tick = a + 1
    BY PeriodAssumption DEF GroupType
  <1>2. Awake(g, tick) = Phase(g.members, k) /\ Awake(g, tick + 1) = Phase(g.members, (a + 1) % p)
    BY <1>1 DEF Awake
  <1>3. k \in 0..(p - 1)
    <2> HIDE DEF p, a
    <2> QED BY <1>1
  <1>4. (a + 1) % p = IF k + 1 = p THEN 0 ELSE k + 1
    <2> HIDE DEF p, a
    <2> QED BY <1>1, NextRemainder
  <1> HIDE DEF p, a, k
  <1>5. /\ Phase(g.members, 0) = g.members
        /\ Phase(g.members, k + 1) = StepTogether(Phase(g.members, k))
    BY <1>1, <1>3, PhaseNext
  <1>6. Phase(g.members, p) = Phase(g.members, 0)
    BY <1>5 DEF p
  <1> QED BY <1>2, <1>4, <1>5, <1>6

\* In the whole world, nobody outside a paused pattern that a tick leaves
\* paused shows it a cell, and it shows none to anybody else.
LEMMA WholeApart ==
  ASSUME NEW w, WorldType(w), Apart(w), NEW n \in ChunkCoord, NEW d \in Dir,
         LET v == Wake(w, Perturbed(w))
         IN /\ n \in DOMAIN Whole(w)
            /\ Shows(Whole(w)[n], d)
            /\ n \in PausedCoords(v) \/ To(n, d) \in PausedCoords(v)
  PROVE  \E g \in Wake(w, Perturbed(w)).paused : n \in Members(g) /\ To(n, d) \in Members(g)
  <1> DEFINE v == Wake(w, Perturbed(w))
             woken == Woken(w, Perturbed(w))
             c == To(n, d)
  <1>1. /\ n \in DOMAIN Whole(w) /\ Shows(Whole(w)[n], d)
        /\ n \in PausedCoords(v) \/ c \in PausedCoords(v)
    OBVIOUS
  <1>2. /\ WorldType(v) /\ Apart(v)
        /\ PausedCoords(v) \subseteq PausedCoords(w) \ (Perturbed(w) \cup woken)
    BY WakeOK
  <1>3. v.paused = w.paused \ Hit(w, Perturbed(w))
    BY WakeIs DEF WorldType
  <1>4. /\ DOMAIN Whole(w) = DOMAIN w.chunks \cup PausedCoords(w)
        /\ \A k \in DOMAIN w.chunks : Whole(w)[k] = w.chunks[k]
        /\ \A g \in w.paused : \A k \in Members(g) : Whole(w)[k] = Awake(g, w.tick)[k]
    BY WholeIs
  <1> HIDE DEF v, c, woken
  <1>5. ASSUME NEW g \in w.paused, n \in Members(g) PROVE c \in Members(g)
    <2>1. GroupType(g, w.tick) /\ Sealed(g) /\ w.tick \in Int
      BY DEF WorldType, Apart
    <2>2. PICK k \in 0..(g.period - 1) : Awake(g, w.tick) = Phase(g.members, k)
      BY <2>1, AwakePhase
    <2>3. Shows(Phase(g.members, k)[n], d)
      BY <1>1, <1>4, <1>5, <2>2
    <2> QED BY <1>5, <2>1, <2>3 DEF Sealed, c
  <1>6. CASE n \in PausedCoords(v)
    <2>1. PICK g \in v.paused : n \in Members(g)
      BY <1>6 DEF PausedCoords
    <2>2. g \in w.paused
      BY <1>3, <2>1
    <2> QED BY <1>5, <2>1, <2>2 DEF v, c
  <1>7. CASE n \notin PausedCoords(v)
    <2>1. c \in PausedCoords(v)
      BY <1>1, <1>7
    <2>2. CASE n \in DOMAIN w.chunks
      <3>1. Opp(d) \in Dir /\ Opp(Opp(d)) = d /\ To(c, Opp(d)) = n
        BY OppIs DEF c
      <3>2. Shows(w.chunks[To(c, Opp(d))], Opp(Opp(d)))
        BY <1>1, <1>4, <2>2, <3>1
      <3>3. c \in Perturbed(w)
        BY <1>2, <2>1, <2>2, <3>1, <3>2 DEF Perturbed
      <3> QED BY <1>2, <2>1, <3>3
    <2>3. CASE n \in PausedCoords(w)
      <3>1. PICK g \in w.paused : n \in Members(g)
        BY <2>3 DEF PausedCoords
      <3>2. c \in Members(g)
        BY <1>5, <3>1
      <3>3. g \in Hit(w, Perturbed(w))
        BY <1>3, <1>7, <3>1 DEF PausedCoords
      <3>4. c \in woken
        BY <3>2, <3>3 DEF woken, Woken
      <3> QED BY <1>2, <2>1, <3>4
    <2> QED BY <1>1, <1>4, <2>2, <2>3
  <1> QED BY <1>6, <1>7

\* The chunk at c, one step on in the whole world.
Stepping(w, c) == Step(ChunkAt(Whole(w), c), HaloWithin(EdgesOf(Whole(w)), w.owned, c))

\* A pattern that stays paused feels its own members only.
LEMMA PausedSteps ==
  ASSUME NEW w, WorldType(w), Apart(w),
         NEW g \in Wake(w, Perturbed(w)).paused, NEW c \in Members(g),
         Phase(g.members, g.period) = g.members,
         Members(g) \subseteq w.owned \/ Members(g) \cap w.owned = {}
  PROVE  Awake(g, w.tick + 1)[c] = Stepping(w, c)
  <1> DEFINE v == Wake(w, Perturbed(w))
             own == Awake(g, w.tick)
             all == Felt(Whole(w), w.owned, c)
  <1>1. v.paused = w.paused \ Hit(w, Perturbed(w)) /\ Apart(v)
    BY WakeIs, WakeOK DEF WorldType
  <1>2. g \in w.paused /\ g \in v.paused
    BY <1>1
  <1>3. /\ DOMAIN Whole(w) = DOMAIN w.chunks \cup PausedCoords(w)
        /\ \A k \in Members(g) : Whole(w)[k] = own[k]
        /\ IsChunks(Whole(w))
    BY <1>2, WholeIs
  <1>4. GroupType(g, w.tick) /\ w.tick \in Int
    BY <1>2 DEF WorldType
  <1>5. own \in [Members(g) -> Chunk]
    BY <1>4, AwakePhase
  <1>6. Awake(g, w.tick + 1) = StepTogether(own)
    BY <1>4, AwakeNext
  <1>7. Members(g) \subseteq DOMAIN Whole(w) /\ Members(g) \subseteq PausedCoords(v)
    BY <1>2, <1>3 DEF PausedCoords
  <1>8. Members(g) \subseteq ChunkCoord
    BY <1>4 DEF GroupType
  <1> HIDE DEF own
  <1>9. /\ \A n : n \in DOMAIN all <=> n \in DOMAIN Whole(w) /\ (c \in w.owned => n \in w.owned)
        /\ \A n \in DOMAIN all : all[n] = Whole(w)[n]
        /\ HaloWithin(EdgesOf(Whole(w)), w.owned, c) = Halo(EdgesOf(all), c)
    BY FeltIs
  <1> HIDE DEF all
  <1>10. ASSUME NEW d \in Dir, ShowsTo(all, c, d) PROVE To(c, d) \in Members(g)
    <2> DEFINE n == To(c, d)
    <2>1. n \in DOMAIN Whole(w) /\ Shows(Whole(w)[n], Opp(d))
      BY <1>9, <1>10 DEF ShowsTo
    <2>2. n \in ChunkCoord /\ Opp(d) \in Dir /\ To(n, Opp(d)) = c
      BY <1>8, OppIs
    <2> HIDE DEF n
    <2>3. PICK h \in v.paused : n \in Members(h) /\ c \in Members(h)
      BY <1>7, <2>1, <2>2, WholeApart
    <2>4. h = g
      BY <1>1, <1>2, <2>3 DEF Apart, Disjoint
    <2> QED BY <2>3, <2>4 DEF n
  <1>11. Halo(EdgesOf(own), c) = Halo(EdgesOf(all), c)
    <2>1. \A n \in DOMAIN own : own[n] \in Chunk
      BY <1>5
    <2>2. \A n \in DOMAIN all : all[n] \in Chunk
      BY <1>3, <1>9 DEF IsChunks
    <2>3. DOMAIN own = Members(g) /\ \A n \in Members(g) : n \in DOMAIN all /\ own[n] = all[n]
      BY <1>3, <1>5, <1>7, <1>9
    <2>4. \A d \in Dir : ShowsTo(own, c, d) \/ ShowsTo(all, c, d)
                           => /\ To(c, d) \in DOMAIN own \cap DOMAIN all
                              /\ own[To(c, d)] = all[To(c, d)]
      BY <1>10, <2>3 DEF ShowsTo
    <2> QED BY <2>1, <2>2, <2>4, SameHalo
  <1>12. StepTogether(own)[c] = Step(own[c], Halo(EdgesOf(own), c))
    BY <1>5 DEF StepTogether
  <1>13. ChunkAt(Whole(w), c) = own[c]
    BY <1>3, <1>7 DEF ChunkAt
  <1> QED BY <1>6, <1>9, <1>11, <1>12, <1>13 DEF Stepping

\* Any other chunk feels the running ones that take part in the tick.
LEMMA RunningHalo ==
  ASSUME NEW w, WorldType(w), Apart(w), NEW c \in ChunkCoord,
         c \notin PausedCoords(Wake(w, Perturbed(w)))
  PROVE  LET v == Wake(w, Perturbed(w))
             active == Active(v.chunks, Woken(w, Perturbed(w)))
         IN HaloWithin(EdgesOf(Restrict(v.chunks, active)), w.owned, c)
              = HaloWithin(EdgesOf(Whole(w)), w.owned, c)
  <1> DEFINE v == Wake(w, Perturbed(w))
             woken == Woken(w, Perturbed(w))
             active == Active(v.chunks, woken)
             some == Restrict(v.chunks, active)
             A == Felt(some, w.owned, c)
             B == Felt(Whole(w), w.owned, c)
  <1>1. /\ WorldType(v) /\ Apart(v) /\ Whole(v) = Whole(w)
    BY WakeOK, WakeWhole
  <1>2. /\ DOMAIN Whole(w) = DOMAIN v.chunks \cup PausedCoords(v)
        /\ \A k \in DOMAIN v.chunks : Whole(w)[k] = v.chunks[k]
        /\ IsChunks(Whole(w))
    <2> HIDE DEF v
    <2> QED BY <1>1, WholeIs
  <1>3. active \subseteq DOMAIN v.chunks /\ \A k \in DOMAIN v.chunks : k \in active \/ IsEmpty(v.chunks[k])
    BY DEF Active
  <1>4. DOMAIN some = active /\ \A k \in active : some[k] = v.chunks[k]
    BY DEF Restrict
  <1>5. /\ \A n : n \in DOMAIN A <=> n \in DOMAIN some /\ (c \in w.owned => n \in w.owned)
        /\ \A n \in DOMAIN A : A[n] = some[n]
        /\ HaloWithin(EdgesOf(some), w.owned, c) = Halo(EdgesOf(A), c)
    BY FeltIs
  <1>6. /\ \A n : n \in DOMAIN B <=> n \in DOMAIN Whole(w) /\ (c \in w.owned => n \in w.owned)
        /\ \A n \in DOMAIN B : B[n] = Whole(w)[n]
        /\ HaloWithin(EdgesOf(Whole(w)), w.owned, c) = Halo(EdgesOf(B), c)
    BY FeltIs
  <1> HIDE DEF active, some, A, B
  <1>7. ASSUME NEW d \in Dir, ShowsTo(B, c, d) PROVE To(c, d) \in DOMAIN A
    <2> DEFINE n == To(c, d)
    <2>1. n \in DOMAIN Whole(w) /\ Shows(Whole(w)[n], Opp(d)) /\ (c \in w.owned => n \in w.owned)
      BY <1>6, <1>7 DEF ShowsTo
    <2>2. n \in ChunkCoord /\ Opp(d) \in Dir /\ To(n, Opp(d)) = c
      BY OppIs
    <2> HIDE DEF n
    <2>3. n \notin PausedCoords(v)
      <3> SUFFICES ASSUME n \in PausedCoords(v) PROVE FALSE
        OBVIOUS
      <3>1. \E g \in v.paused : n \in Members(g) /\ c \in Members(g)
        BY <2>1, <2>2, WholeApart
      <3> QED BY <3>1 DEF PausedCoords
    <2>4. n \in DOMAIN v.chunks /\ Shows(v.chunks[n], Opp(d))
      BY <1>2, <2>1, <2>3
    <2>5. ~IsEmpty(v.chunks[n])
      BY <2>4 DEF Shows, IsEmpty, EmptyRows
    <2> QED BY <1>3, <1>4, <1>5, <2>1, <2>4, <2>5 DEF n
  <1>8. \A n \in DOMAIN A : n \in DOMAIN B /\ A[n] = B[n] /\ B[n] \in Chunk
    BY <1>2, <1>3, <1>4, <1>5, <1>6 DEF IsChunks
  <1>9. \A n \in DOMAIN B : B[n] \in Chunk
    BY <1>2, <1>6 DEF IsChunks
  <1>10. Halo(EdgesOf(A), c) = Halo(EdgesOf(B), c)
    <2>1. \A n \in DOMAIN A : A[n] \in Chunk
      BY <1>8
    <2>2. \A d \in Dir : ShowsTo(A, c, d) \/ ShowsTo(B, c, d)
                           => /\ To(c, d) \in DOMAIN A \cap DOMAIN B
                              /\ A[To(c, d)] = B[To(c, d)]
      BY <1>7, <1>8 DEF ShowsTo
    <2> QED BY <1>9, <2>1, <2>2, SameHalo
  <1> QED BY <1>5, <1>6, <1>10 DEF v, active, some

\* g recurs, and no border of a claim cuts it.
Steady(w, g) ==
  /\ Phase(g.members, g.period) = g.members
  /\ Members(g) \subseteq w.owned \/ Members(g) \cap w.owned = {}

\* After a tick every chunk is one step on, be it paused, running, passed over or
\* dropped.
LEMMA TickWhole ==
  ASSUME NEW w, WorldType(w), Apart(w), NEW u, u = AfterTick(w, TickInto(w)), NEW c \in ChunkCoord,
         \A g \in u.paused : c \in Members(g) => Steady(w, g)
  PROVE  IF c \in DOMAIN Whole(u) THEN Whole(u)[c] = Stepping(w, c)
         ELSE IsEmpty(Stepping(w, c)) /\ ~IsFrozen(Stepping(w, c))
  <1> DEFINE v == Wake(w, Perturbed(w))
             woken == Woken(w, Perturbed(w))
             t == TickInto(w)
             active == Active(v.chunks, woken)
             s == Stepped(v.chunks, active, w.owned)
             kept == Kept(s)
             gone == {n \in DOMAIN s \ kept : ~s[n].idle} \cap DOMAIN v.chunks
             after == Stepping(w, c)
             halo == HaloWithin(EdgesOf(Restrict(v.chunks, active)), w.owned, c)
  <1>1. /\ WorldType(v) /\ Apart(v) /\ Whole(v) = Whole(w)
    BY WakeOK, WakeWhole
  <1>2. v.paused = w.paused \ Hit(w, Perturbed(w))
    BY WakeIs DEF WorldType
  <1>3. /\ DOMAIN Whole(w) = DOMAIN v.chunks \cup PausedCoords(v)
        /\ \A k \in DOMAIN v.chunks : Whole(w)[k] = v.chunks[k]
    <2> HIDE DEF v
    <2> QED BY <1>1, WholeIs
  <1>4. WorldType(u) /\ Apart(u) /\ u.tick = w.tick + 1
    BY TickOK
  <1>5. u.chunks = t.chunks /\ u.paused = v.paused
    BY <1>2 DEF AfterTick, WorldType, IsRecord
  <1>6. t = Outcome(v.chunks, woken, s, kept)
    BY DEF TickInto, StepAll
  <1>7. /\ DOMAIN s = Candidates(v.chunks, active)
        /\ c \in DOMAIN s => s[c] = Candidate(ChunkAt(v.chunks, c), halo)
    BY DEF Stepped
  <1>8. \A n : n \in kept <=> n \in DOMAIN s /\ ~s[n].idle /\ (~IsEmpty(s[n].next) \/ IsFrozen(s[n].next))
    BY DEF Kept
  <1>9. /\ \A k \in DOMAIN v.chunks : k \in active \/ IsEmpty(v.chunks[k])
        /\ active \subseteq DOMAIN v.chunks
    BY DEF Active
  <1>10. c \notin PausedCoords(v) => halo = HaloWithin(EdgesOf(Whole(w)), w.owned, c)
    BY RunningHalo
  <1>11. c \notin active /\ (\A d \in Dir : ~ShowsTo(Restrict(v.chunks, active), c, d)) => halo = EmptyBundle
    <2> DEFINE some == Restrict(v.chunks, active)
               A == Felt(some, w.owned, c)
    <2>1. /\ \A n : n \in DOMAIN A <=> n \in DOMAIN some /\ (c \in w.owned => n \in w.owned)
          /\ \A n \in DOMAIN A : A[n] = some[n]
          /\ halo = Halo(EdgesOf(A), c)
      BY FeltIs
    <2>2. \A n \in DOMAIN some : some[n] \in Chunk
      <3> HIDE DEF v, active
      <3> QED BY <1>1, <1>9 DEF Restrict, WorldType
    <2> HIDE DEF some, A, halo
    <2>3. (\A d \in Dir : ~ShowsTo(some, c, d)) => \A d \in Dir : ~ShowsTo(A, c, d)
      BY <2>1 DEF ShowsTo
    <2>4. \A n \in DOMAIN A : A[n] \in Chunk
      BY <2>1, <2>2
    <2> QED BY <2>1, <2>3, <2>4, NoHalo DEF some
  <1>12. DOMAIN Restrict(v.chunks, active) = active /\ \A n \in active : Restrict(v.chunks, active)[n] = v.chunks[n]
    BY DEF Restrict
  <1>13. \A n : n \in Candidates(v.chunks, active)
                  <=> n \in active \/ \E p \in active, d \in Dir : n = To(p, d) /\ Shows(v.chunks[p], d)
    BY CandidatesAre
  <1> HIDE DEF v, woken, t, active, s, kept, after, halo
  <1>14. /\ u.chunks = [n \in (DOMAIN v.chunks \ gone) \cup kept |-> IF n \in kept THEN s[n].next ELSE v.chunks[n]]
    BY <1>5, <1>6, OutcomeIs
  <1>15. /\ DOMAIN Whole(u) = DOMAIN u.chunks \cup PausedCoords(u)
         /\ \A k \in DOMAIN u.chunks : Whole(u)[k] = u.chunks[k]
         /\ \A g \in u.paused : \A k \in Members(g) : Whole(u)[k] = Awake(g, u.tick)[k]
    BY <1>4, WholeIs
  <1>16. PausedCoords(u) = PausedCoords(v)
    BY <1>5 DEF PausedCoords
  <1>17. CASE c \in PausedCoords(v)
    <2>1. PICK g \in v.paused : c \in Members(g)
      BY <1>17 DEF PausedCoords
    <2>2. g \in u.paused
      BY <1>5, <2>1
    <2>3. Awake(g, w.tick + 1)[c] = after
      BY <2>1, <2>2, PausedSteps DEF Steady, v, after
    <2>4. c \in DOMAIN Whole(u) /\ Whole(u)[c] = after
      BY <1>4, <1>15, <1>16, <1>17, <2>1, <2>2, <2>3
    <2> QED BY <2>4 DEF after
  <1>18. CASE c \notin PausedCoords(v)
    <2>1. ChunkAt(Whole(w), c) = ChunkAt(v.chunks, c)
      BY <1>3, <1>18 DEF ChunkAt
    <2>2. after = Step(ChunkAt(v.chunks, c), halo)
      BY <1>10, <1>18, <2>1 DEF after, Stepping
    <2>3. c \in DOMAIN Whole(u) <=> c \in DOMAIN u.chunks
      BY <1>15, <1>16, <1>18
    <2>4. c \in DOMAIN u.chunks <=> (c \in DOMAIN v.chunks /\ c \notin gone) \/ c \in kept
      BY <1>14
    <2>5. c \in gone <=> c \in DOMAIN s /\ c \notin kept /\ ~s[c].idle /\ c \in DOMAIN v.chunks
      OBVIOUS
    <2> HIDE DEF gone
    <2>6. c \in DOMAIN s => /\ s[c].next = after
                            /\ s[c].idle = (IsEmpty(ChunkAt(v.chunks, c)) /\ halo = EmptyBundle)
      BY <1>7, <2>2 DEF Candidate
    <2>7. IsEmpty(EmptyChunk) /\ ~IsFrozen(EmptyChunk)
      BY DEF IsEmpty, IsFrozen, EmptyChunk, Unlocked
    <2>8. ASSUME IsEmpty(ChunkAt(v.chunks, c)), halo = EmptyBundle, c \notin kept, c \notin gone
          PROVE  IF c \in DOMAIN u.chunks THEN u.chunks[c] = after ELSE IsEmpty(after) /\ ~IsFrozen(after)
      <3>1. after = ChunkAt(v.chunks, c)
        BY <2>2, <2>8 DEF Step
      <3>2. CASE c \in DOMAIN v.chunks
        BY <1>14, <2>4, <2>8, <3>1, <3>2 DEF ChunkAt
      <3>3. CASE c \notin DOMAIN v.chunks
        BY <2>4, <2>7, <2>8, <3>1, <3>3 DEF ChunkAt
      <3> QED BY <3>2, <3>3
    <2>9. IF c \in DOMAIN u.chunks THEN u.chunks[c] = after ELSE IsEmpty(after) /\ ~IsFrozen(after)
      <3>1. CASE c \in kept
        BY <1>8, <1>14, <2>4, <2>6, <3>1
      <3>2. CASE c \in DOMAIN s /\ c \notin kept /\ ~s[c].idle
        BY <1>8, <2>4, <2>5, <2>6, <3>2
      <3>3. CASE c \in DOMAIN s /\ c \notin kept /\ s[c].idle
        BY <2>5, <2>6, <2>8, <3>3
      <3>4. CASE c \notin DOMAIN s
        <4>1. c \notin kept /\ c \notin gone /\ c \notin active
          BY <1>7, <1>8, <1>13, <2>5, <3>4
        <4>2. IsEmpty(ChunkAt(v.chunks, c))
          BY <1>9, <2>7, <4>1 DEF ChunkAt
        <4>3. ASSUME NEW d \in Dir, ShowsTo(Restrict(v.chunks, active), c, d) PROVE FALSE
          <5>1. To(c, d) \in active /\ Shows(v.chunks[To(c, d)], Opp(d))
            BY <1>12, <4>3 DEF ShowsTo
          <5>2. Opp(d) \in Dir /\ c = To(To(c, d), Opp(d))
            BY OppIs
          <5> QED BY <1>7, <1>13, <3>4, <5>1, <5>2
        <4>4. halo = EmptyBundle
          BY <1>11, <4>1, <4>3
        <4> QED BY <2>8, <4>1, <4>2, <4>4
      <3> QED BY <3>1, <3>2, <3>3, <3>4
    <2> QED BY <1>15, <2>3, <2>9 DEF after
  <1> QED BY <1>17, <1>18

\* No chunk with a locked cell is paused.
LEMMA PausedUnlocked ==
  ASSUME NEW w, WorldType(w), Apart(w), NEW c \in PausedCoords(w),
         NEW alive \in SUBSET (Int \X Int), NEW dead \in SUBSET (Int \X Int), Stamped(Whole(w), alive, dead)
  PROVE  \A p \in alive \cup dead : Home(p) # c
  <1>1. PICK g \in w.paused : c \in Members(g)
    BY DEF PausedCoords
  <1>2. GroupType(g, w.tick) /\ Sealed(g) /\ w.tick \in Int
    BY DEF WorldType, Apart
  <1>3. c \in DOMAIN Whole(w) /\ Whole(w)[c] = Awake(g, w.tick)[c]
    BY <1>1, WholeIs
  <1>4. Awake(g, w.tick)[c].frozen = g.members[c].frozen
    BY <1>1, <1>2, AwakePhase
  <1>5. g.members[c].frozen.mask = EmptyRows
    <2>1. 0 \in 0..(g.period - 1)
      BY <1>2, PeriodAssumption DEF GroupType
    <2>2. <<1, 0>> \in Dir
      BY DEF Dir
    <2>3. ~IsFrozen(g.members[c])
      BY <1>1, <1>2, <2>1, <2>2 DEF Sealed
    <2> QED BY <2>3 DEF IsFrozen
  <1>6. Stamp(c, alive, dead).mask = EmptyRows
    BY <1>3, <1>4, <1>5 DEF Stamped
  <1>7. c \in ChunkCoord
    BY <1>1, <1>2 DEF GroupType
  <1> QED BY <1>6, <1>7, StampFree

LEMMA SteppingStamp ==
  ASSUME NEW w, WorldType(w), Apart(w), NEW c \in ChunkCoord,
         NEW alive \in SUBSET (Int \X Int), NEW dead \in SUBSET (Int \X Int), Stamped(Whole(w), alive, dead)
  PROVE  Stepping(w, c).frozen = Stamp(c, alive, dead)
  <1> DEFINE A == Felt(Whole(w), w.owned, c)
  <1>0. IsChunks(Whole(w))
    BY WholeIs
  <1>1. ChunkAt(Whole(w), c) \in Chunk
    BY <1>0, Sizes DEF ChunkAt, IsChunks
  <1>2. \A n \in DOMAIN EdgesOf(A) : EdgesOf(A)[n] \in EdgeBundle
    <2>1. \A n \in DOMAIN A : A[n] \in Chunk
      BY <1>0, FeltIs DEF IsChunks
    <2> QED BY <2>1, EdgesType DEF EdgesOf
  <1>3. HaloWithin(EdgesOf(Whole(w)), w.owned, c) \in EdgeBundle
    BY <1>2, FeltIs, HaloType
  <1>4. Stepping(w, c).frozen = ChunkAt(Whole(w), c).frozen
    BY <1>1, <1>3, StepType DEF Stepping
  <1>5. CASE c \in DOMAIN Whole(w)
    BY <1>4, <1>5 DEF ChunkAt, Stamped
  <1>6. CASE c \notin DOMAIN Whole(w)
    BY <1>4, <1>6, StampFree DEF ChunkAt, EmptyChunk, Stamped
  <1> QED BY <1>5, <1>6

\* A tick is a generation ...
LEMMA TickInPlane ==
  ASSUME NEW w, WorldType(w), Apart(w), NEW u, u = AfterTick(w, TickInto(w)), NEW p \in Int \X Int,
         \A g \in u.paused : Home(p) \in Members(g) => Steady(w, g),
         NEW alive \in SUBSET (Int \X Int), NEW dead \in SUBSET (Int \X Int), Stamped(Whole(w), alive, dead)
  PROVE  p \in CellsOf(Whole(u)) <=> NextAlive(CellsOf(Whole(w)), w.owned, alive, dead, p)
  <1> DEFINE c == Home(p)
             x == p[1] % CHUNK_SIZE
             y == p[2] % CHUNK_SIZE
  <1>1. c \in ChunkCoord /\ x \in Idx /\ y \in Idx /\ p = CellAt(c, x, y)
    BY HomeType, HomeCell
  <1>2. IsChunks(Whole(w))
    BY WholeIs
  <1>3. IsChunks(Whole(u))
    BY TickOK, WholeIs
  <1>4. \A g \in u.paused : c \in Members(g) => Steady(w, g)
    OBVIOUS
  <1> HIDE DEF c, x, y
  <1>5. IF c \in DOMAIN Whole(u) THEN Whole(u)[c] = Stepping(w, c)
        ELSE IsEmpty(Stepping(w, c)) /\ ~IsFrozen(Stepping(w, c))
    BY <1>1, <1>4, TickWhole
  <1>6. x \in Stepping(w, c).rows[y] <=> NextAlive(CellsOf(Whole(w)), w.owned, alive, dead, p)
    BY <1>1, <1>2, StepInPlane DEF Stepping
  <1>7. p \in CellsOf(Whole(u)) <=> c \in DOMAIN Whole(u) /\ x \in Whole(u)[c].rows[y]
    BY <1>1, <1>3, CellsAre
  <1>8. IsEmpty(Stepping(w, c)) => x \notin Stepping(w, c).rows[y]
    BY <1>1 DEF IsEmpty, EmptyRows
  <1> QED BY <1>5, <1>6, <1>7, <1>8

\* ... and leaves what is locked as it is, steady or not.
LEMMA TickStamped ==
  ASSUME NEW w, WorldType(w), Apart(w), NEW u, u = AfterTick(w, TickInto(w)),
         NEW alive \in SUBSET (Int \X Int), NEW dead \in SUBSET (Int \X Int), Stamped(Whole(w), alive, dead)
  PROVE  Stamped(Whole(u), alive, dead)
  <1>1. WorldType(u) /\ Apart(u)
    BY TickOK
  <1>2. u.paused \subseteq w.paused
    BY DEF AfterTick, WorldType, IsRecord
  <1>3. /\ IsChunks(Whole(u))
        /\ DOMAIN Whole(u) = DOMAIN u.chunks \cup PausedCoords(u)
        /\ \A g \in u.paused : \A c \in Members(g) : Whole(u)[c] = Awake(g, u.tick)[c]
    BY <1>1, WholeIs
  <1>4. /\ DOMAIN Whole(w) = DOMAIN w.chunks \cup PausedCoords(w)
        /\ \A g \in w.paused : \A c \in Members(g) : Whole(w)[c] = Awake(g, w.tick)[c]
    BY WholeIs
  <1>5. ASSUME NEW c \in ChunkCoord, c \notin PausedCoords(u)
        PROVE  /\ c \in DOMAIN Whole(u) => Whole(u)[c] = Stepping(w, c)
               /\ c \notin DOMAIN Whole(u) => ~IsFrozen(Stepping(w, c))
    <2>1. \A g \in u.paused : c \notin Members(g)
      BY <1>5 DEF PausedCoords
    <2> QED BY <2>1, TickWhole
  <1>6. ASSUME NEW p \in alive \cup dead
        PROVE  /\ Home(p) \in DOMAIN Whole(u)
               /\ \A g \in u.paused : Home(p) \notin Members(g)
    <2> DEFINE h == Home(p)
    <2>1. h \in ChunkCoord
      BY HomeType
    <2>2. h \notin PausedCoords(w)
      BY PausedUnlocked
    <2>3. h \notin PausedCoords(u)
      BY <1>2, <2>2 DEF PausedCoords
    <2>4. IsFrozen(Stepping(w, h))
      <3>1. Stamp(h, alive, dead).mask # EmptyRows
        BY <2>1, StampFree
      <3>2. Stepping(w, h).frozen = Stamp(h, alive, dead)
        BY <2>1, SteppingStamp
      <3> QED BY <3>1, <3>2 DEF IsFrozen
    <2> HIDE DEF h
    <2>5. h \in DOMAIN Whole(u)
      BY <1>5, <2>1, <2>3, <2>4
    <2>6. \A g \in u.paused : h \notin Members(g)
      BY <2>3 DEF PausedCoords
    <2> QED BY <2>5, <2>6 DEF h
  <1>7. alive \subseteq CellsOf(Whole(u))
    <2> SUFFICES ASSUME NEW p \in alive PROVE p \in CellsOf(Whole(u))
      OBVIOUS
    <2>1. p \in Int \X Int /\ \A g \in u.paused : Home(p) \in Members(g) => Steady(w, g)
      BY <1>6
    <2> QED BY <2>1, TickInPlane DEF NextAlive
  <1>8. ASSUME NEW c \in DOMAIN Whole(u) PROVE Whole(u)[c].frozen = Stamp(c, alive, dead)
    <2>1. c \in ChunkCoord
      BY <1>3 DEF IsChunks
    <2>2. CASE c \in PausedCoords(u)
      <3>1. PICK g \in u.paused : c \in Members(g)
        BY <2>2 DEF PausedCoords
      <3>2. g \in w.paused /\ c \in PausedCoords(w)
        BY <1>2, <3>1 DEF PausedCoords
      <3>3. GroupType(g, w.tick) /\ w.tick \in Int /\ u.tick \in Int
        BY <1>1, <3>2 DEF WorldType
      <3>4. Awake(g, u.tick)[c].frozen = g.members[c].frozen /\ Awake(g, w.tick)[c].frozen = g.members[c].frozen
        BY <3>1, <3>3, AwakePhase
      <3>5. Whole(u)[c].frozen = Whole(w)[c].frozen
        BY <1>3, <1>4, <3>1, <3>2, <3>4
      <3> QED BY <1>4, <3>2, <3>5 DEF Stamped
    <2>3. CASE c \notin PausedCoords(u)
      BY <1>5, <2>1, <2>3, SteppingStamp
    <2> QED BY <2>2, <2>3
  <1> QED BY <1>6, <1>7, <1>8 DEF Stamped

-----------------------------------------------------------------------------
(* Edits, removals and the world as loaded, seen in the plane. *)

\* A world in which the cell p has been set, what was paused there awake.
Edited(w, p, on) ==
  SetCellAt(Wake(w, {Home(p)}), Home(p), p[1] % CHUNK_SIZE, p[2] % CHUNK_SIZE, on)

LEMMA EditInPlane ==
  ASSUME NEW w, WorldType(w), Apart(w), NEW p \in Int \X Int, NEW on \in BOOLEAN,
         NEW u, u = Edited(w, p, on),
         NEW alive \in SUBSET (Int \X Int), NEW dead \in SUBSET (Int \X Int), Stamped(Whole(w), alive, dead)
  PROVE  /\ CellsOf(Whole(u)) = IF p \in alive \cup dead THEN CellsOf(Whole(w))
                               ELSE IF on THEN CellsOf(Whole(w)) \cup {p} ELSE CellsOf(Whole(w)) \ {p}
         /\ Stamped(Whole(u), alive, dead)
  <1> DEFINE c == Home(p)
             x == p[1] % CHUNK_SIZE
             y == p[2] % CHUNK_SIZE
             v == Wake(w, {c})
             V == Whole(w)
             old == ChunkAt(V, c)
             new == SetCell(old, x, y, on)
             U == [k \in DOMAIN V \cup {c} |-> IF k = c THEN new ELSE V[k]]
  <1>1. c \in ChunkCoord /\ x \in Idx /\ y \in Idx /\ p = CellAt(c, x, y)
    BY HomeType, HomeCell
  <1>2. WorldType(v) /\ Apart(v) /\ c \notin PausedCoords(v) /\ Whole(v) = V
    BY WakeOK, WakeWhole
  <1>3. IsChunks(V)
    BY WholeIs
  <1>4. /\ DOMAIN V = DOMAIN v.chunks \cup PausedCoords(v)
        /\ \A k \in DOMAIN v.chunks : V[k] = v.chunks[k]
        /\ \A g \in v.paused : \A k \in Members(g) : V[k] = Awake(g, v.tick)[k]
    <2> HIDE DEF v, V
    <2> QED BY <1>2, WholeIs
  <1>5. u = SetCellAt(v, c, x, y, on)
    BY DEF Edited
  <1>6. old \in Chunk /\ old.frozen = Stamp(c, alive, dead)
    <2>1. CASE c \in DOMAIN V
      BY <1>3, <2>1 DEF ChunkAt, IsChunks, Stamped
    <2>2. CASE c \notin DOMAIN V
      BY <1>1, <2>2, Sizes, StampFree DEF ChunkAt, EmptyChunk, Stamped
    <2> QED BY <2>1, <2>2
  <1> HIDE DEF c, x, y, v, V, old
  <1>7. ChunkAt(v.chunks, c) = old
    BY <1>2, <1>4 DEF ChunkAt, old
  <1>8. WorldType(u) /\ Apart(u)
    BY <1>1, <1>2, <1>5, SetCellAtOK
  <1>9. /\ u.chunks = [k \in DOMAIN v.chunks \cup {c} |-> IF k = c THEN new ELSE v.chunks[k]]
        /\ u.paused = v.paused /\ u.tick = v.tick
    <2> DEFINE set == SetCell(ChunkAt(v.chunks, c), x, y, on)
    <2>1. /\ u.chunks = [k \in DOMAIN v.chunks \cup {c} |-> IF k = c THEN set ELSE v.chunks[k]]
          /\ u.paused = v.paused /\ u.tick = v.tick
      BY <1>2, <1>5 DEF SetCellAt, WorldType, IsRecord
    <2>2. new = set
      BY <1>7
    <2> HIDE DEF new, set
    <2> QED BY <2>1, <2>2
  <1>10. new \in Chunk
    BY <1>1, <1>6, SetCellType
  <1>11. new.frozen = old.frozen /\ new.rows = IF x \in old.frozen.mask[y] THEN old.rows
           ELSE [old.rows EXCEPT ![y] = IF on THEN @ \cup {x} ELSE @ \ {x}]
    BY <1>6 DEF SetCell, Chunk
  <1> HIDE DEF new
  <1>12. IsChunks(U)
    BY <1>1, <1>3, <1>10 DEF IsChunks
  <1>13. PausedCoords(u) = PausedCoords(v)
    BY <1>9 DEF PausedCoords
  <1>14. Whole(u) = U
    <2>1. DOMAIN U = DOMAIN u.chunks \cup PausedCoords(u)
      BY <1>4, <1>9, <1>13
    <2>2. \A k \in DOMAIN u.chunks : U[k] = u.chunks[k]
      BY <1>4, <1>9
    <2>3. \A g \in u.paused : \A k \in Members(g) : U[k] = Awake(g, u.tick)[k]
      <3>1. \A g \in v.paused : \A k \in Members(g) : k # c /\ k \in DOMAIN V
        BY <1>2, <1>4 DEF PausedCoords
      <3> QED BY <1>4, <1>9, <3>1
    <2> HIDE DEF U
    <2> QED BY <1>8, <1>12, <2>1, <2>2, <2>3, WholeUnique
  <1>15. DOMAIN U = DOMAIN V \cup {c} /\ U[c] = new /\ \A k \in DOMAIN V : k = c \/ U[k] = V[k]
    OBVIOUS
  <1> HIDE DEF U
  <1>16. ASSUME NEW d \in ChunkCoord, NEW a \in Idx, NEW b \in Idx
         PROVE  CellAt(d, a, b) \in CellsOf(U)
                  <=> IF CellAt(d, a, b) = p /\ p \notin alive \cup dead THEN on ELSE CellAt(d, a, b) \in CellsOf(V)
    <2>1. CellAt(d, a, b) = p <=> d = c /\ a = x /\ b = y
      BY <1>1, CellHome
    <2>2. CellAt(d, a, b) \in CellsOf(U) <=> d \in DOMAIN U /\ a \in U[d].rows[b]
      BY <1>12, CellsAre
    <2>3. CellAt(d, a, b) \in CellsOf(V) <=> d \in DOMAIN V /\ a \in V[d].rows[b]
      BY <1>3, CellsAre
    <2>4. CASE d # c
      BY <1>15, <2>1, <2>2, <2>3, <2>4
    <2>5. CASE d = c
      <3>1. CellAt(d, a, b) \in CellsOf(V) <=> a \in old.rows[b]
        BY <2>3, <2>5 DEF old, ChunkAt, EmptyChunk, EmptyRows
      <3>2. CellAt(d, a, b) \in CellsOf(U) <=> a \in new.rows[b]
        BY <1>15, <2>2, <2>5
      <3>3. x \in old.frozen.mask[y] <=> p \in alive \cup dead
        BY <1>1, <1>6, StampIs
      <3>4. old.rows \in [Idx -> SUBSET Idx]
        BY <1>6 DEF Chunk, Rows, Row
      <3>5. a \in new.rows[b] <=> IF a = x /\ b = y /\ p \notin alive \cup dead THEN on ELSE a \in old.rows[b]
        BY <1>1, <1>11, <3>3, <3>4
      <3> QED BY <2>1, <2>5, <3>1, <3>2, <3>5
    <2> QED BY <2>4, <2>5
  <1>17. CellsOf(U) \subseteq Int \X Int /\ CellsOf(V) \subseteq Int \X Int
    BY <1>3, <1>12, CellsAre
  <1>18. CellsOf(U) = IF p \in alive \cup dead THEN CellsOf(V) ELSE IF on THEN CellsOf(V) \cup {p} ELSE CellsOf(V) \ {p}
    <2> DEFINE now == IF p \in alive \cup dead THEN CellsOf(V) ELSE IF on THEN CellsOf(V) \cup {p} ELSE CellsOf(V) \ {p}
    <2>1. now \subseteq Int \X Int
      BY <1>17
    <2>2. \A d \in ChunkCoord, a, b \in Idx : CellAt(d, a, b) \in CellsOf(U) <=> CellAt(d, a, b) \in now
      BY <1>16
    <2> HIDE DEF now
    <2>3. CellsOf(U) = now
      BY <1>17, <2>1, <2>2, SameCells
    <2> QED BY <2>3 DEF now
  <1>19. Stamped(U, alive, dead)
    <2>1. Stamped(V, alive, dead)
      BY DEF V
    <2>2. alive \subseteq CellsOf(U)
      BY <1>18, <2>1 DEF Stamped
    <2>3. \A k \in DOMAIN U : U[k].frozen = Stamp(k, alive, dead)
      BY <1>6, <1>11, <1>15, <2>1 DEF Stamped
    <2>4. \A q \in alive \cup dead : Home(q) \in DOMAIN U
      BY <1>15, <2>1 DEF Stamped
    <2> QED BY <2>2, <2>3, <2>4 DEF Stamped
  <1> QED BY <1>14, <1>18, <1>19 DEF V

\* Removing a chunk wipes it, and the group it is paused in with it.
LEMMA ReapInPlane ==
  ASSUME NEW w, WorldType(w), Apart(w), NEW c, NEW u, u = RemoveChunk(w, c),
         NEW alive \in SUBSET (Int \X Int), NEW dead \in SUBSET (Int \X Int), Stamped(Whole(w), alive, dead),
         \A p \in alive \cup dead : Home(p) # c
  PROVE  LET gone == {c} \cup Woken(w, {c})
         IN /\ CellsOf(Whole(u)) = {p \in CellsOf(Whole(w)) : Home(p) \notin gone}
            /\ \A p \in alive \cup dead : Home(p) \notin gone
            /\ Stamped(Whole(u), alive, dead)
  <1> DEFINE V == Whole(w)
             gone == {c} \cup Woken(w, {c})
             U == [k \in DOMAIN V \ gone |-> V[k]]
  <1>1. /\ u.paused = w.paused \ Hit(w, {c}) /\ u.tick = w.tick
        /\ u.chunks = [k \in DOMAIN w.chunks \ {c} |-> w.chunks[k]]
    BY DEF RemoveChunk, WorldType, IsRecord, Restrict
  <1>2. WorldType(u) /\ Apart(u)
    BY RemoveChunkOK
  <1>3. /\ DOMAIN V = DOMAIN w.chunks \cup PausedCoords(w)
        /\ \A k \in DOMAIN w.chunks : V[k] = w.chunks[k]
        /\ \A g \in w.paused : \A k \in Members(g) : V[k] = Awake(g, w.tick)[k]
        /\ IsChunks(V)
    BY WholeIs
  <1>4. Woken(w, {c}) \subseteq PausedCoords(w) /\ PausedCoords(w) \cap DOMAIN w.chunks = {}
    BY DEF Woken, Hit, PausedCoords, Apart
  <1>5. c \in PausedCoords(w) => c \in Woken(w, {c})
    BY DEF Woken, Hit, PausedCoords
  <1>6. \A g \in u.paused : \A k \in Members(g) : k \notin gone /\ k \in PausedCoords(w)
    <2> TAKE g \in u.paused
    <2> TAKE k \in Members(g)
    <2>1. g \in w.paused /\ g \notin Hit(w, {c})
      BY <1>1
    <2>2. k # c
      BY <2>1 DEF Hit
    <2>3. \A h \in Hit(w, {c}) : k \notin Members(h)
      BY <2>1 DEF Apart, Disjoint, Hit
    <2> QED BY <2>1, <2>2, <2>3 DEF Woken, PausedCoords
  <1>7. PausedCoords(u) = PausedCoords(w) \ gone
    <2>1. PausedCoords(u) \subseteq PausedCoords(w) \ gone
      BY <1>6 DEF PausedCoords
    <2>2. ASSUME NEW k \in PausedCoords(w), k \notin gone PROVE k \in PausedCoords(u)
      <3>1. PICK g \in w.paused : k \in Members(g)
        BY DEF PausedCoords
      <3>2. g \notin Hit(w, {c})
        BY <2>2, <3>1 DEF Woken
      <3> QED BY <1>1, <3>1, <3>2 DEF PausedCoords
    <2> QED BY <2>1, <2>2
  <1> HIDE DEF V
  <1>8. c \in gone /\ gone \subseteq {c} \cup PausedCoords(w) /\ (c \in PausedCoords(w) \/ gone \cap PausedCoords(w) = gone \ {c})
    BY <1>4
  <1>9. /\ IsChunks(U) /\ DOMAIN U = DOMAIN V \ gone
        /\ \A k \in DOMAIN U : U[k] = V[k] /\ k \notin gone
    BY <1>3 DEF IsChunks
  <1>10. Whole(u) = U
    <2>1. DOMAIN u.chunks = DOMAIN w.chunks \ gone /\ \A k \in DOMAIN u.chunks : u.chunks[k] = w.chunks[k]
      <3>1. DOMAIN w.chunks \ {c} = DOMAIN w.chunks \ gone
        BY <1>4
      <3> QED BY <1>1, <3>1
    <2> HIDE DEF gone, U
    <2>2. DOMAIN U = DOMAIN u.chunks \cup PausedCoords(u)
      BY <1>3, <1>7, <1>9, <2>1
    <2>3. \A k \in DOMAIN u.chunks : U[k] = u.chunks[k]
      BY <1>3, <1>9, <2>1, <2>2
    <2>4. \A g \in u.paused : \A k \in Members(g) : U[k] = Awake(g, u.tick)[k]
      <3> TAKE g \in u.paused
      <3> TAKE k \in Members(g)
      <3>1. g \in w.paused
        BY <1>1
      <3>2. k \in DOMAIN U
        BY <1>3, <1>6, <1>9
      <3> QED BY <1>1, <1>3, <1>9, <3>1, <3>2
    <2> QED BY <1>2, <1>9, <2>2, <2>3, <2>4, WholeUnique
  <1> HIDE DEF U, gone
  <1>11. CellsOf(U) = {p \in CellsOf(V) : Home(p) \notin gone}
    <2> DEFINE now == {p \in CellsOf(V) : Home(p) \notin gone}
    <2>1. CellsOf(U) \subseteq Int \X Int /\ now \subseteq Int \X Int
      BY <1>3, <1>9, CellsAre
    <2>2. \A d \in ChunkCoord, x, y \in Idx : CellAt(d, x, y) \in CellsOf(U) <=> CellAt(d, x, y) \in now
      <3> TAKE d \in ChunkCoord, x, y \in Idx
      <3>1. CellAt(d, x, y) \in CellsOf(U) <=> d \in DOMAIN U /\ x \in U[d].rows[y]
        BY <1>9, CellsAre
      <3>2. CellAt(d, x, y) \in CellsOf(V) <=> d \in DOMAIN V /\ x \in V[d].rows[y]
        BY <1>3, CellsAre
      <3>3. Home(CellAt(d, x, y)) = d
        BY CellHome
      <3> QED BY <1>9, <3>1, <3>2, <3>3
    <2> HIDE DEF now
    <2>3. CellsOf(U) = now
      BY <2>1, <2>2, SameCells
    <2> QED BY <2>3 DEF now
  <1>12. Stamped(V, alive, dead)
    BY DEF V
  <1>13. \A p \in alive \cup dead : Home(p) \notin gone
    <2>1. ASSUME NEW k \in PausedCoords(w)
          PROVE  \A p \in alive \cup dead : Home(p) # k
      BY PausedUnlocked
    <2>2. \A p \in alive \cup dead : Home(p) \notin {c} \cup PausedCoords(w)
      BY <2>1
    <2> QED BY <1>8, <2>2
  <1>14. Stamped(U, alive, dead)
    BY <1>9, <1>11, <1>12, <1>13 DEF Stamped
  <1> QED BY <1>10, <1>11, <1>13, <1>14 DEF V, gone

\* A claim is not seen in the whole world.
LEMMA ClaimInPlane ==
  ASSUME NEW w, WorldType(w), Apart(w), NEW u, WorldType(u), Apart(u),
         u.chunks = w.chunks, u.paused = w.paused, u.tick = w.tick
  PROVE  Whole(u) = Whole(w)
  <1>1. PausedCoords(u) = PausedCoords(w)
    BY DEF PausedCoords
  <1>2. /\ DOMAIN Whole(w) = DOMAIN u.chunks \cup PausedCoords(u)
        /\ \A k \in DOMAIN u.chunks : Whole(w)[k] = u.chunks[k]
        /\ \A g \in u.paused : \A k \in Members(g) : Whole(w)[k] = Awake(g, u.tick)[k]
        /\ IsChunks(Whole(w))
    <2>1. /\ DOMAIN Whole(w) = DOMAIN w.chunks \cup PausedCoords(w)
          /\ \A k \in DOMAIN w.chunks : Whole(w)[k] = w.chunks[k]
          /\ \A g \in w.paused : \A k \in Members(g) : Whole(w)[k] = Awake(g, w.tick)[k]
          /\ IsChunks(Whole(w))
      BY WholeIs
    <2> QED BY <1>1, <2>1
  <1> QED BY <1>2, WholeUnique

\* A world is loaded with the locked cells in it.
LEMMA LoadedInPlane ==
  ASSUME NEW board \in SUBSET (Int \X Int), NEW alive \in SUBSET (Int \X Int), NEW dead \in SUBSET (Int \X Int),
         NEW w, WorldType(w), Apart(w), w.chunks = Loaded(board, alive, dead), w.paused = {}
  PROVE  Stamped(Whole(w), alive, dead)
  <1> DEFINE chunks == Loaded(board, alive, dead)
             cells == (board \ dead) \cup alive
             In(c, S) == [y \in Idx |-> {x \in Idx : CellAt(c, x, y) \in S}]
             D == {Home(p) : p \in cells \cup alive \cup dead}
  <1>1. chunks = [c \in D |-> [rows |-> In(c, cells), frozen |-> [mask |-> In(c, alive \cup dead), value |-> In(c, alive)]]]
    BY DEF Loaded, CellAt
  <1>2. Whole(w) = chunks
    <2>1. IsChunks(w.chunks) /\ PausedCoords(w) = {}
      BY DEF IsChunks, WorldType, PausedCoords
    <2> HIDE DEF chunks
    <2> QED BY <2>1, WholeUnique DEF chunks
  <1>3. IsChunks(chunks)
    BY LoadedType DEF IsChunks
  <1>4. \A p \in alive \cup dead : Home(p) \in D
    OBVIOUS
  <1>5. \A c \in D : chunks[c].frozen = Stamp(c, alive, dead) /\ chunks[c].rows = In(c, cells)
    <2> TAKE c \in D
    <2>1. chunks[c].frozen = [mask |-> In(c, alive \cup dead), value |-> In(c, alive)] /\ chunks[c].rows = In(c, cells)
      <3> HIDE DEF In, D
      <3> QED BY <1>1
    <2>2. Stamp(c, alive, dead) = [mask |-> In(c, alive \cup dead), value |-> In(c, alive)]
      BY DEF Stamp
    <2> QED BY <2>1, <2>2
  <1>6. DOMAIN chunks = D
    BY <1>1
  <1> HIDE DEF D, chunks
  <1>7. ASSUME NEW p \in alive PROVE p \in CellsOf(chunks)
    <2> DEFINE c == Home(p)
               x == p[1] % CHUNK_SIZE
               y == p[2] % CHUNK_SIZE
    <2>1. c \in ChunkCoord /\ x \in Idx /\ y \in Idx /\ p = CellAt(c, x, y)
      BY HomeType, HomeCell
    <2>2. c \in D
      BY <1>4
    <2> HIDE DEF c, x, y
    <2>3. x \in In(c, cells)[y]
      BY <2>1
    <2> QED BY <1>3, <1>5, <1>6, <2>1, <2>2, <2>3, CellsAre
  <1> QED BY <1>2, <1>4, <1>5, <1>6, <1>7 DEF Stamped

=============================================================================
