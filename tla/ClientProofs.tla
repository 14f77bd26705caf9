----------------------------- MODULE ClientProofs -----------------------------
(***************************************************************************)
(* What the browser keeps and what the hub knows of it: the types and the  *)
(* bound of the cache, the chunks that do not outlive their removal, the   *)
(* chunks that are asked for, and that what is shown is right.             *)
(***************************************************************************)
EXTENDS Client, WorldProofs, SequenceTheorems, FiniteSetTheorems

-----------------------------------------------------------------------------
(* The order of the cache: sequences of coords, none twice. *)

Once(o) == \A i, j \in DOMAIN o : o[i] = o[j] => i = j

IsWithout(kept, o, S, n) ==
  kept = [i \in 0..n |-> IF i = 0 THEN << >>
                         ELSE IF o[i] \in S THEN kept[i - 1] ELSE Append(kept[i - 1], o[i])]

LEMMA WithoutExists ==
  ASSUME NEW o, NEW S
  PROVE  \A n \in Nat : \E kept : IsWithout(kept, o, S, n)
  <1> DEFINE N == {n \in Nat : \E kept : IsWithout(kept, o, S, n)}
  <1>1. 0 \in N
    <2> DEFINE kept == [i \in 0..0 |-> << >>]
    <2>1. IsWithout(kept, o, S, 0)
      BY DEF IsWithout
    <2> QED BY <2>1
  <1>2. ASSUME NEW n \in Nat, n \in N PROVE n + 1 \in N
    <2>1. PICK f : IsWithout(f, o, S, n)
      BY <1>2
    <2> DEFINE last == IF o[n + 1] \in S THEN f[n] ELSE Append(f[n], o[n + 1])
    <2> HIDE DEF last
    <2> DEFINE g == [i \in 0..(n + 1) |-> IF i = n + 1 THEN last ELSE f[i]]
    <2>2. \A i \in 0..(n + 1) : g[i] = IF i = 0 THEN << >>
                                       ELSE IF o[i] \in S THEN g[i - 1] ELSE Append(g[i - 1], o[i])
      <3>1. \A i \in 0..n : f[i] = IF i = 0 THEN << >>
                                   ELSE IF o[i] \in S THEN f[i - 1] ELSE Append(f[i - 1], o[i])
        BY <2>1 DEF IsWithout
      <3>2. \A i \in 0..n : g[i] = f[i]
        OBVIOUS
      <3>3. g[n + 1] = last
        OBVIOUS
      <3> HIDE DEF g
      <3> SUFFICES ASSUME NEW i \in 0..(n + 1)
                   PROVE  g[i] = IF i = 0 THEN << >>
                                 ELSE IF o[i] \in S THEN g[i - 1] ELSE Append(g[i - 1], o[i])
        OBVIOUS
      <3>4. CASE i = n + 1
        <4>1. g[i - 1] = f[n]
          BY <3>2, <3>4
        <4> QED BY <3>3, <3>4, <4>1 DEF last
      <3>5. CASE i \in 1..n
        <4>1. g[i] = f[i] /\ g[i - 1] = f[i - 1]
          BY <3>2, <3>5
        <4> QED BY <3>1, <3>5, <4>1
      <3>6. CASE i = 0
        BY <3>1, <3>2, <3>6
      <3> QED BY <3>4, <3>5, <3>6
    <2>3. IsWithout(g, o, S, n + 1)
      BY <2>2 DEF IsWithout
    <2> QED BY <2>3
  <1> HIDE DEF N
  <1>3. Nat \subseteq N
    BY <1>1, <1>2, SetInduction
  <1> QED BY <1>3 DEF N

\* What is left of the first n coords of o.
Leaves(s, o, S, n) ==
  /\ s \in Seq(Range(o) \ S)
  /\ Len(s) <= n
  /\ \A k \in 1..n : o[k] \notin S => \E i \in DOMAIN s : s[i] = o[k]
  /\ \A i \in DOMAIN s : \E k \in 1..n : s[i] = o[k]
  /\ Once(o) => Once(s)

\* What delete leaves, in whatever order the coords were.
LEMMA WithoutIs ==
  ASSUME NEW T, NEW o \in Seq(T), NEW S
  PROVE  /\ Without(o, S) \in Seq(T)
         /\ Len(Without(o, S)) <= Len(o)
         /\ Range(Without(o, S)) = Range(o) \ S
         /\ Once(o) => Once(Without(o, S))
  <1> DEFINE n == Len(o)
  <1>1. n \in Nat /\ DOMAIN o = 1..n
    OBVIOUS
  <1> DEFINE f == CHOOSE f : IsWithout(f, o, S, n)
  <1>2. IsWithout(f, o, S, n)
    BY <1>1, WithoutExists
  <1>3. Without(o, S) = f[n]
    BY DEF Without, IsWithout
  <1> HIDE DEF f
  <1>4. \A k \in 0..n : f[k] = IF k = 0 THEN << >>
                               ELSE IF o[k] \in S THEN f[k - 1] ELSE Append(f[k - 1], o[k])
    BY <1>1, <1>2 DEF IsWithout
  <1> DEFINE N == {k \in Nat : k <= n => Leaves(f[k], o, S, k)}
  <1>5. 0 \in N
    <2>1. f[0] = << >>
      BY <1>1, <1>4
    <2>2. << >> \in Seq(Range(o) \ S) /\ Len(<< >>) = 0 /\ DOMAIN << >> = {}
      BY EmptySeq
    <2>3. Leaves(<< >>, o, S, 0)
      BY <2>2 DEF Leaves, Once
    <2> QED BY <2>1, <2>3
  <1>6. ASSUME NEW k \in Nat, k \in N PROVE k + 1 \in N
    <2> SUFFICES ASSUME k + 1 <= n PROVE Leaves(f[k + 1], o, S, k + 1)
      OBVIOUS
    <2> DEFINE s == f[k]
               R == Range(o) \ S
               e == o[k + 1]
    <2>1. Leaves(s, o, S, k)
      BY <1>1, <1>6
    <2>2. f[k + 1] = IF e \in S THEN s ELSE Append(s, e)
      BY <1>1, <1>4
    <2>3. e \in Range(o)
      BY <1>1 DEF Range
    <2> HIDE DEF s, e
    <2>4. CASE e \in S
      BY <2>1, <2>2, <2>4, <1>1 DEF Leaves, e
    <2>5. CASE e \notin S
      <3>1. s \in Seq(R) /\ e \in R
        BY <2>1, <2>3, <2>5 DEF Leaves
      <3> HIDE DEF R
      <3> DEFINE t == Append(s, e)
      <3>2. /\ t \in Seq(R) /\ Len(t) = Len(s) + 1 /\ Len(s) \in Nat
            /\ DOMAIN t = 1..(Len(s) + 1) /\ DOMAIN s = 1..Len(s)
            /\ \A i \in 1..Len(s) : t[i] = s[i]
            /\ t[Len(s) + 1] = e
        BY <3>1
      <3> HIDE DEF t
      <3>3. Len(t) <= k + 1
        BY <2>1, <3>2 DEF Leaves
      <3>4. \A j \in 1..(k + 1) : o[j] \notin S => \E i \in DOMAIN t : t[i] = o[j]
        <4> SUFFICES ASSUME NEW j \in 1..(k + 1), o[j] \notin S PROVE \E i \in DOMAIN t : t[i] = o[j]
          OBVIOUS
        <4>1. CASE j = k + 1
          BY <3>2, <4>1 DEF e
        <4>2. CASE j # k + 1
          <5>1. PICK i \in DOMAIN s : s[i] = o[j]
            BY <2>1, <4>2 DEF Leaves
          <5> QED BY <3>2, <5>1
        <4> QED BY <4>1, <4>2
      <3>5. \A i \in DOMAIN t : \E j \in 1..(k + 1) : t[i] = o[j]
        <4> SUFFICES ASSUME NEW i \in DOMAIN t PROVE \E j \in 1..(k + 1) : t[i] = o[j]
          OBVIOUS
        <4>1. CASE i = Len(s) + 1
          BY <3>2, <4>1 DEF e
        <4>2. CASE i # Len(s) + 1
          <5>1. i \in DOMAIN s /\ t[i] = s[i]
            BY <3>2, <4>2
          <5>2. PICK j \in 1..k : s[i] = o[j]
            BY <2>1, <5>1 DEF Leaves
          <5> QED BY <5>1, <5>2
        <4> QED BY <4>1, <4>2
      <3>6. Once(o) => Once(t)
        <4> SUFFICES ASSUME Once(o) PROVE Once(t)
          OBVIOUS
        <4>1. Once(s)
          BY <2>1 DEF Leaves
        <4>2. \A i \in DOMAIN s : s[i] # e
          <5> SUFFICES ASSUME NEW i \in DOMAIN s, s[i] = e PROVE FALSE
            OBVIOUS
          <5>1. PICK j \in 1..k : s[i] = o[j]
            BY <2>1 DEF Leaves
          <5>2. j \in DOMAIN o /\ k + 1 \in DOMAIN o /\ o[j] = o[k + 1]
            BY <1>1, <5>1 DEF e
          <5> QED BY <5>2 DEF Once
        <4> QED BY <3>2, <4>1, <4>2 DEF Once
      <3> QED BY <2>2, <2>5, <3>2, <3>3, <3>4, <3>5, <3>6 DEF Leaves, t, R
    <2> QED BY <2>4, <2>5
  <1> HIDE DEF N
  <1>7. Nat \subseteq N
    BY <1>5, <1>6, SetInduction
  <1>8. Leaves(f[n], o, S, n)
    BY <1>1, <1>7 DEF N
  <1>9. Range(f[n]) = Range(o) \ S
    <2> DEFINE s == f[n]
    <2> HIDE DEF s
    <2>1. Leaves(s, o, S, n)
      BY <1>8 DEF s
    <2>2. \A e \in Range(o) \ S : e \in Range(s)
      BY <1>1, <2>1 DEF Leaves, Range
    <2>3. \A i \in DOMAIN s : s[i] \in Range(o) \ S
      BY <2>1 DEF Leaves
    <2>4. \A e \in Range(s) : e \in Range(o) \ S
      BY <2>3 DEF Range
    <2> QED BY <2>2, <2>4 DEF s
  <1>10. f[n] \in Seq(T)
    <2>1. Range(o) \ S \subseteq T
      BY <1>1 DEF Range
    <2>2. f[n] \in Seq(Range(o) \ S)
      BY <1>8 DEF Leaves
    <2> DEFINE R == Range(o) \ S
    <2> HIDE DEF R
    <2> QED BY <2>1, <2>2, SeqMonotonic DEF R
  <1> QED BY <1>3, <1>8, <1>9, <1>10 DEF Leaves

\* What eviction leaves: the coords put last.
LEMMA EvictedIs ==
  ASSUME NEW T, NEW o \in Seq(T), NEW n \in Nat
  PROVE  /\ Evicted(o, n) \in Seq(T)
         /\ Len(Evicted(o, n)) <= n /\ Len(Evicted(o, n)) <= Len(o)
         /\ Range(Evicted(o, n)) \subseteq Range(o)
         /\ Once(o) => Once(Evicted(o, n))
  <1>1. Len(o) \in Nat /\ DOMAIN o = 1..Len(o)
    OBVIOUS
  <1>2. CASE Len(o) <= n
    BY <1>1, <1>2 DEF Evicted
  <1>3. CASE Len(o) > n
    <2> DEFINE m == Len(o) - n + 1
               s == SubSeq(o, m, Len(o))
    <2>1. m \in Int /\ m >= 1 /\ Len(o) - m + 1 = n
      BY <1>1, <1>3
    <2>2. Evicted(o, n) = s
      BY <1>3 DEF Evicted
    <2> HIDE DEF m
    <2>3. /\ s \in Seq(T)
          /\ Len(s) = n
          /\ \A i \in 1..n : s[i] = o[m + i - 1]
      <3>1. \A i \in m..Len(o) : o[i] \in T
        BY <1>1, <2>1
      <3>2. /\ s \in Seq(T)
            /\ Len(s) = IF m <= Len(o) THEN Len(o) - m + 1 ELSE 0
            /\ \A i \in 1..(Len(o) - m + 1) : s[i] = o[m + i - 1]
        BY <1>1, <2>1, <3>1, SubSeqProperties
      <3> QED BY <1>1, <2>1, <3>2
    <2> HIDE DEF s
    <2>4. DOMAIN s = 1..n
      BY <2>3
    <2>5. \A i \in 1..n : m + i - 1 \in DOMAIN o
      BY <1>1, <2>1
    <2>6. Range(s) \subseteq Range(o)
      BY <2>3, <2>4, <2>5 DEF Range
    <2>7. Once(o) => Once(s)
      <3> SUFFICES ASSUME Once(o), NEW i \in 1..n, NEW j \in 1..n, s[i] = s[j] PROVE i = j
        BY <2>4 DEF Once
      <3>1. m + i - 1 = m + j - 1
        BY <2>3, <2>5 DEF Once
      <3> QED BY <2>1, <3>1
    <2> QED BY <1>1, <1>3, <2>2, <2>3, <2>6, <2>7
  <1> QED BY <1>1, <1>2, <1>3

-----------------------------------------------------------------------------
(* The world from outside: which chunks exist, running or paused.  They    *)
(* stay finitely many, and groups stay single chunks.                      *)

Present(w) == DOMAIN w.chunks \cup PausedCoords(w)

Solo(w) == \A g \in w.paused : \E c \in Members(g) : Members(g) = {c}

LEMMA WakePresent ==
  ASSUME NEW w, WorldType(w), Apart(w), NEW S
  PROVE  Present(Wake(w, S)) = Present(w) /\ (Solo(w) => Solo(Wake(w, S)))
  <1>1. DOMAIN Wake(w, S).chunks = DOMAIN w.chunks \cup Woken(w, S)
    BY WakeChunks
  <1>2. Wake(w, S).paused = w.paused \ Hit(w, S)
    BY WakeIs DEF WorldType
  <1>3. PausedCoords(Wake(w, S)) \cup Woken(w, S) = PausedCoords(w)
    BY <1>2 DEF PausedCoords, Woken, Hit
  <1> QED BY <1>1, <1>2, <1>3 DEF Present, Solo

LEMMA PausePresent ==
  ASSUME NEW w, WorldType(w), Apart(w), NEW Q,
         \A q \in Q : MayPause(w, q) /\ \E c : q.members = {c},
         \A q, r \in Q : q # r => q.members \cap r.members = {}
  PROVE  Present(Pause(w, Q)) = Present(w) /\ (Solo(w) => Solo(Pause(w, Q)))
  <1> DEFINE G(q) == [members        |-> Restrict(w.chunks, q.members),
                      period         |-> q.period,
                      paused_at_tick |-> w.tick]
  <1>1. Present(Pause(w, Q)) = Present(w)
    <2>1. \A q \in Q : MayPause(w, q)
      OBVIOUS
    <2>2. PausedFrom(Pause(w, Q), w)
      BY <2>1, PauseShows
    <2> QED BY <2>2 DEF PausedFrom, SameShown, Present
  <1>2. Pause(w, Q).paused = w.paused \cup {G(q) : q \in Q}
    <2>1. IsRecord(w)
      BY DEF WorldType
    <2>2. Pause(w, Q).paused = w.paused \cup {[members        |-> Restrict(w.chunks, q.members),
                                               period         |-> q.period,
                                               paused_at_tick |-> w.tick] : q \in Q}
      BY <2>1 DEF Pause, IsRecord
    <2> QED BY <2>2
  <1>3. ASSUME NEW q \in Q
        PROVE  \E c \in Members(G(q)) : Members(G(q)) = {c}
    <2>1. Members(G(q)) = q.members
      BY DEF Members, Restrict
    <2> QED BY <2>1
  <1> HIDE DEF G
  <1> QED BY <1>1, <1>2, <1>3 DEF Solo

\* What is left of w in u without the chunks at S.
IsLeft(u, w, S) ==
  /\ DOMAIN Whole(u) = DOMAIN Whole(w) \ S
  /\ \A c \in DOMAIN Whole(u) : Whole(u)[c] = Whole(w)[c]

\* What reaping does to the world: the chunks go and the others stay, running or
\* paused.
LEMMA ReapPresent ==
  ASSUME NEW w, WorldType(w), Apart(w), Solo(w), NEW S,
         NEW u, u = [w EXCEPT !.chunks = Restrict(@, DOMAIN @ \ S), !.paused = @ \ Hit(w, S)]
  PROVE  /\ WorldType(u) /\ Apart(u) /\ Solo(u)
         /\ Present(u) = Present(w) \ S
         /\ IsLeft(u, w, S)
  <1>1. /\ IsRecord(u) /\ u.paused = w.paused \ Hit(w, S) /\ u.tick = w.tick
        /\ u.chunks = [c \in DOMAIN w.chunks \ S |-> w.chunks[c]]
    BY DEF WorldType, IsRecord, Restrict
  <1>2. WorldType(u)
    BY <1>1 DEF WorldType
  <1>3. \A g \in w.paused : g \in Hit(w, S) <=> Members(g) \subseteq S
    BY DEF Hit, Solo
  <1>4. \A g \in u.paused : Members(g) \cap S = {}
    BY <1>1 DEF Hit
  <1>5. PausedCoords(u) = PausedCoords(w) \ S
    BY <1>1, <1>3, <1>4 DEF PausedCoords
  <1>6. Apart(u) /\ Solo(u)
    BY <1>1, <1>5 DEF Apart, Disjoint, Solo
  <1>7. DOMAIN u.chunks = DOMAIN w.chunks \ S
    BY <1>1
  <1>8. Present(u) = Present(w) \ S
    BY <1>5, <1>7 DEF Present
  <1> DEFINE V == Whole(w)
             U == [c \in DOMAIN V \ S |-> V[c]]
  <1>9. Whole(u) = U
    <2>1. /\ DOMAIN V = DOMAIN w.chunks \cup PausedCoords(w)
          /\ \A c \in DOMAIN w.chunks : V[c] = w.chunks[c]
          /\ \A g \in w.paused : \A c \in Members(g) : V[c] = Awake(g, w.tick)[c]
          /\ IsChunks(V)
      BY WholeIs
    <2> HIDE DEF V
    <2>2. IsChunks(U)
      BY <2>1 DEF IsChunks
    <2>3. DOMAIN U = DOMAIN u.chunks \cup PausedCoords(u)
      BY <1>5, <1>7, <2>1
    <2>4. \A c \in DOMAIN u.chunks : U[c] = u.chunks[c]
      BY <1>1, <2>1
    <2>5. ASSUME NEW g \in u.paused, NEW c \in Members(g) PROVE U[c] = Awake(g, u.tick)[c]
      <3>1. g \in w.paused /\ c \notin S /\ c \in DOMAIN V
        BY <1>1, <1>4, <2>1 DEF PausedCoords
      <3> QED BY <1>1, <2>1, <3>1
    <2> HIDE DEF U
    <2> QED BY <1>2, <1>6, <2>2, <2>3, <2>4, <2>5, WholeUnique
  <1>10. DOMAIN U = DOMAIN V \ S /\ \A c \in DOMAIN U : U[c] = V[c]
    OBVIOUS
  <1> HIDE DEF U
  <1>11. IsLeft(u, w, S)
    BY <1>9, <1>10 DEF IsLeft
  <1> QED BY <1>2, <1>6, <1>8, <1>11

LEMMA SetCellPresent ==
  ASSUME NEW w, WorldType(w), NEW c, NEW x, NEW y, NEW alive
  PROVE  /\ Present(SetCellAt(w, c, x, y, alive)) = Present(w) \cup {c}
         /\ Solo(w) => Solo(SetCellAt(w, c, x, y, alive))
         /\ c \in DOMAIN SetCellAt(w, c, x, y, alive).chunks
  <1> DEFINE v == SetCellAt(w, c, x, y, alive)
  <1>1. v.paused = w.paused /\ DOMAIN v.chunks = DOMAIN w.chunks \cup {c}
    BY DEF SetCellAt, WorldType, IsRecord
  <1> HIDE DEF v
  <1>2. PausedCoords(v) = PausedCoords(w)
    BY <1>1 DEF PausedCoords
  <1> QED BY <1>1, <1>2 DEF Present, Solo, v

LEMMA DirFinite == IsFiniteSet(Dir)
  <1>1. IsFiniteSet(-1..1)
    <2>1. -1 \in Int /\ 1 \in Int
      OBVIOUS
    <2> QED BY <2>1, FS_Interval
  <1>2. IsFiniteSet((-1..1) \X (-1..1))
    BY <1>1, FS_Product
  <1> QED BY <1>2, FS_Subset DEF Dir

\* Finitely many running chunks reach finitely many others.
LEMMA CandidatesFinite ==
  ASSUME NEW chunks, NEW active, IsFiniteSet(active)
  PROVE  IsFiniteSet(Candidates(chunks, active))
  <1> DEFINE P == active \X Dir
             f == [p \in P |-> To(p[1], p[2])]
             T == {f[p] : p \in P}
  <1>1. IsFiniteSet(P)
    BY DirFinite, FS_Product
  <1> HIDE DEF P
  <1>2. f \in Surjection(P, T)
    BY DEF Surjection
  <1>3. IsFiniteSet(T)
    <2> HIDE DEF f, T
    <2> QED BY <1>1, <1>2, FS_Surjection
  <1>4. IsFiniteSet(active \cup T)
    <2> HIDE DEF f, T
    <2> QED BY <1>3, FS_Union
  <1>5. \A c \in Candidates(chunks, active) : c \in active \cup T
    <2> SUFFICES ASSUME NEW c \in Candidates(chunks, active), c \notin active PROVE c \in T
      OBVIOUS
    <2>1. PICK p \in active, d \in Dir : c = To(p, d)
      BY CandidatesAre
    <2>2. <<p, d>> \in P /\ c = f[<<p, d>>]
      BY <2>1 DEF P
    <2> QED BY <2>2
  <1> HIDE DEF f, T
  <1> QED BY <1>4, <1>5, FS_Subset

\* What a tick makes and removes.
LEMMA TickPresent ==
  ASSUME NEW w, WorldType(w), Apart(w), Solo(w), IsFiniteSet(Present(w)),
         NEW t, t = TickInto(w), NEW u, u = AfterTick(w, t)
  PROVE  /\ IsFiniteSet(Present(u)) /\ Solo(u)
         /\ IsFiniteSet(t.removed) /\ t.removed \subseteq ChunkCoord
         /\ t.removed \cap Present(u) = {}
         /\ Present(w) \ Present(u) \subseteq t.removed
  <1> DEFINE v == Wake(w, Perturbed(w))
             woken == Woken(w, Perturbed(w))
             active == Active(v.chunks, woken)
             s == Stepped(v.chunks, active, w.owned)
  <1>1. WorldType(v) /\ Apart(v) /\ Present(v) = Present(w) /\ Solo(v)
    BY WakeOK, WakePresent
  <1>2. v.paused = w.paused \ Hit(w, Perturbed(w))
    BY WakeIs DEF WorldType
  <1>3. t = Outcome(v.chunks, woken, s, Kept(s))
    BY DEF TickInto, StepAll
  <1>4. DOMAIN s = Candidates(v.chunks, active)
    BY DEF Stepped
  <1>5. active \subseteq DOMAIN v.chunks
    BY ActiveIs
  <1> HIDE DEF v, woken, active, s
  <1>6. /\ DOMAIN t.chunks \subseteq DOMAIN v.chunks \cup DOMAIN s
        /\ t.removed \subseteq DOMAIN v.chunks
    <2> DEFINE kept == Kept(s)
               gone == {c \in DOMAIN s \ kept : ~s[c].idle} \cap DOMAIN v.chunks
    <2>1. kept \subseteq DOMAIN s
      BY DEF Kept
    <2>2. t = Outcome(v.chunks, woken, s, kept)
      BY <1>3
    <2> HIDE DEF kept
    <2>3. /\ t.chunks = [n \in (DOMAIN v.chunks \ gone) \cup kept |-> IF n \in kept THEN s[n].next ELSE v.chunks[n]]
          /\ t.removed = gone
      BY <2>2, OutcomeIs
    <2> QED BY <2>1, <2>3
  <1>7. u.chunks = t.chunks /\ u.paused = v.paused
    BY <1>2 DEF AfterTick, WorldType, IsRecord
  <1>8. DOMAIN v.chunks \subseteq Present(w)
    BY <1>1 DEF Present
  <1>9. IsFiniteSet(DOMAIN v.chunks)
    BY <1>8, FS_Subset
  <1>10. IsFiniteSet(DOMAIN s)
    <2>1. IsFiniteSet(active)
      BY <1>5, <1>9, FS_Subset
    <2> QED BY <1>4, <2>1, CandidatesFinite
  <1>11. Present(u) \subseteq Present(w) \cup DOMAIN s
    BY <1>1, <1>6, <1>7 DEF Present, PausedCoords
  <1>12. IsFiniteSet(Present(u))
    <2>1. IsFiniteSet(Present(w) \cup DOMAIN s)
      BY <1>10, FS_Union
    <2> QED BY <1>11, <2>1, FS_Subset
  <1>13. IsFiniteSet(t.removed) /\ t.removed \subseteq ChunkCoord
    <2>1. IsFiniteSet(t.removed)
      BY <1>6, <1>9, FS_Subset
    <2> QED BY <1>1, <1>6, <2>1 DEF WorldType
  <1>14. Solo(u)
    BY <1>1, <1>7 DEF Solo
  <1>15. \A c \in Present(w) : c \in t.removed <=> c \notin Present(u)
    <2> SUFFICES ASSUME NEW c \in Present(w) PROVE c \in t.removed <=> c \notin Present(u)
      OBVIOUS
    <2>1. Shown(u, c) = NoHash <=> c \in t.removed
      BY TickReportsAll DEF Present
    <2>2. WorldType(u) /\ Apart(u)
      BY TickOK
    <2>3. Shown(u, c) = NoHash <=> c \notin Present(u)
      BY <2>2, ShownIs DEF Present
    <2> QED BY <2>1, <2>3
  <1>16. t.removed \subseteq Present(w)
    BY <1>6, <1>8
  <1> QED BY <1>12, <1>13, <1>14, <1>15, <1>16

LEMMA LoadedFinite ==
  ASSUME NEW board, IsFiniteSet(board), NEW alive, IsFiniteSet(alive), NEW dead, IsFiniteSet(dead)
  PROVE  IsFiniteSet(DOMAIN Loaded(board, alive, dead))
  <1> DEFINE P == ((board \ dead) \cup alive) \cup alive \cup dead
             f == [p \in P |-> Home(p)]
             T == {f[p] : p \in P}
  <1>1. IsFiniteSet(P)
    <2>1. IsFiniteSet(board \cup alive \cup dead)
      BY FS_Union
    <2>2. P \subseteq board \cup alive \cup dead
      OBVIOUS
    <2> QED BY <2>1, <2>2, FS_Subset
  <1>2. DOMAIN Loaded(board, alive, dead) = {Home(p) : p \in P}
    BY DEF Loaded
  <1> HIDE DEF P
  <1>3. f \in Surjection(P, T)
    BY DEF Surjection
  <1>4. {Home(p) : p \in P} = T
    OBVIOUS
  <1> HIDE DEF f, T
  <1> QED BY <1>1, <1>2, <1>3, <1>4, FS_Surjection

-----------------------------------------------------------------------------
(* What is sent. *)

Seen == UNION Views

Mail ==
  [type: {"ChunkState", "ChunkDelta"}, coord: Seen, rows: Rows]
    \cup [type: {"Reaped"}, coord: ChunkCoord]
    \cup [type: {"EditApplied"}, coord: ChunkCoord, x: Idx, y: Idx, alive: BOOLEAN]
    \cup [type: {"Sync"}, told: SUBSET Seen]

HubMail == [type: {"Subscribe", "Unsubscribe"}, coords: {S \in SUBSET Seen : IsFiniteSet(S)}]

\* What the hub asks of the sim.
SimMail ==
  [type: {"Reap"}, coords: SUBSET {c \in ChunkCoord : ~InRegion(c)}]
    \cup [type: {"Subscribe", "Unsubscribe"}, coords: SUBSET Seen]
    \cup [type: {"SetOwned"}, coords: Claims]

\* Whether m puts c into the cache, or takes it out.
IsPut(m, c)    == m.type \in {"ChunkState", "ChunkDelta"} /\ m.coord = c
IsReaped(m, c) == m.type = "Reaped" /\ m.coord = c

\* Messages that remove nothing and put chunks of S only.
Carries(msgs, S) ==
  /\ msgs \in Seq(Mail)
  /\ \A i \in DOMAIN msgs : \A c : ~IsReaped(msgs[i], c) /\ (IsPut(msgs[i], c) => c \in S)

LEMMA SeenType == Seen \subseteq ChunkCoord /\ \A S \in Views : IsFiniteSet(S) /\ S \subseteq Seen
  BY ClientAssumption DEF Seen

\* What a list of changes may be sent as.
LEMMA OrdersAre ==
  ASSUME NEW S, IsFiniteSet(S), NEW s \in Orders(S)
  PROVE  s \in Seq(S) /\ Range(s) = S
  <1>1. Cardinality(S) \in Nat
    BY FS_CardinalityType
  <1>2. s \in [1..Cardinality(S) -> S] /\ Range(s) = S
    BY DEF Orders
  <1> QED BY <1>1, <1>2

LEMMA CarriesBoth ==
  ASSUME NEW S, NEW a, NEW b, Carries(a, S), Carries(b, S)
  PROVE  Carries(a \o b, S)
  <1>1. a \in Seq(Mail) /\ b \in Seq(Mail)
    BY DEF Carries
  <1> DEFINE s == a \o b
  <1>2. /\ s \in Seq(Mail) /\ Len(s) = Len(a) + Len(b)
        /\ DOMAIN s = 1..Len(s) /\ DOMAIN a = 1..Len(a) /\ DOMAIN b = 1..Len(b)
        /\ Len(a) \in Nat /\ Len(b) \in Nat
        /\ \A i \in 1..(Len(a) + Len(b)) : s[i] = IF i <= Len(a) THEN a[i] ELSE b[i - Len(a)]
    <2> HIDE DEF Mail
    <2> QED BY <1>1, ConcatProperties, LenProperties
  <1> HIDE DEF s
  <1>3. \A i \in DOMAIN s : (\E j \in DOMAIN a : s[i] = a[j]) \/ (\E j \in DOMAIN b : s[i] = b[j])
    <2> SUFFICES ASSUME NEW i \in DOMAIN s
                 PROVE  (\E j \in DOMAIN a : s[i] = a[j]) \/ (\E j \in DOMAIN b : s[i] = b[j])
      OBVIOUS
    <2>1. CASE i <= Len(a)
      BY <1>2, <2>1
    <2>2. CASE i > Len(a)
      <3>1. i - Len(a) \in DOMAIN b /\ s[i] = b[i - Len(a)]
        BY <1>2, <2>2
      <3> QED BY <3>1
    <2> QED BY <1>2, <2>1, <2>2
  <1> QED BY <1>2, <1>3 DEF Carries, s

LEMMA CarriesNothing == \A S : Carries(<< >>, S)
  BY DEF Carries

LEMMA DeltasCarry ==
  ASSUME NEW w, WorldType(w), NEW S, S \subseteq Seen, S \subseteq DOMAIN w.chunks, NEW cs \in Seq(S)
  PROVE  Carries(Deltas(w, cs), S)
  <1>1. DOMAIN cs = 1..Len(cs) /\ Len(cs) \in Nat /\ \A i \in DOMAIN cs : cs[i] \in S
    OBVIOUS
  <1>2. \A c \in S : ChunkDelta(c, w.chunks[c].rows) \in Mail
    <2>1. \A c \in S : w.chunks[c].rows \in Rows
      BY DEF WorldType, Chunk
    <2> QED BY <2>1 DEF ChunkDelta, Mail
  <1> DEFINE s == Deltas(w, cs)
  <1>3. s \in [1..Len(cs) -> Mail] /\ \A i \in 1..Len(cs) : s[i] = ChunkDelta(cs[i], w.chunks[cs[i]].rows)
    BY <1>1, <1>2 DEF Deltas
  <1> HIDE DEF s
  <1>4. s \in Seq(Mail) /\ DOMAIN s = 1..Len(cs)
    BY <1>1, <1>3
  <1>5. \A i \in DOMAIN s : \A c : ~IsReaped(s[i], c) /\ (IsPut(s[i], c) => c \in S)
    <2> SUFFICES ASSUME NEW i \in DOMAIN s, NEW c
                 PROVE  ~IsReaped(s[i], c) /\ (IsPut(s[i], c) => c \in S)
      OBVIOUS
    <2>1. s[i] = ChunkDelta(cs[i], w.chunks[cs[i]].rows) /\ cs[i] \in S
      BY <1>1, <1>3, <1>4
    <2> QED BY <2>1 DEF ChunkDelta, IsReaped, IsPut
  <1> QED BY <1>4, <1>5 DEF Carries, s

LEMMA ReapsAre ==
  ASSUME NEW S, S \subseteq ChunkCoord, NEW cs \in Seq(S), Range(cs) = S
  PROVE  /\ Reaps(cs) \in Seq(Mail) /\ DOMAIN Reaps(cs) = DOMAIN cs
         /\ \A i \in DOMAIN cs : /\ Reaps(cs)[i].type = "Reaped" /\ Reaps(cs)[i].coord = cs[i]
                                 /\ \A c : ~IsPut(Reaps(cs)[i], c) /\ (IsReaped(Reaps(cs)[i], c) <=> c = cs[i])
         /\ \A c \in S : \E i \in DOMAIN cs : cs[i] = c
  <1>1. DOMAIN cs = 1..Len(cs) /\ Len(cs) \in Nat /\ \A i \in DOMAIN cs : cs[i] \in S
    OBVIOUS
  <1>2. \A c \in S : Reaped(c) \in Mail
    BY DEF Reaped, Mail
  <1>3. \A c, k : /\ Reaped(k).type = "Reaped" /\ Reaped(k).coord = k
                  /\ ~IsPut(Reaped(k), c) /\ (IsReaped(Reaped(k), c) <=> c = k)
    BY DEF Reaped, IsPut, IsReaped
  <1> DEFINE s == Reaps(cs)
  <1>4. s \in [1..Len(cs) -> Mail] /\ \A i \in 1..Len(cs) : s[i] = Reaped(cs[i])
    BY <1>1, <1>2 DEF Reaps
  <1> HIDE DEF s
  <1>5. s \in Seq(Mail) /\ DOMAIN s = DOMAIN cs
    BY <1>1, <1>4
  <1>6. \A c \in S : \E i \in DOMAIN cs : cs[i] = c
    BY DEF Range
  <1> QED BY <1>1, <1>3, <1>4, <1>5, <1>6 DEF s

LEMMA StatesCarry ==
  ASSUME mirror \in [DOMAIN mirror -> Rows], NEW S, S \subseteq Seen, S \subseteq DOMAIN mirror, NEW cs \in Seq(S)
  PROVE  Carries([i \in DOMAIN cs |-> ChunkState(cs[i], mirror[cs[i]])], S)
  <1>1. DOMAIN cs = 1..Len(cs) /\ Len(cs) \in Nat /\ \A i \in DOMAIN cs : cs[i] \in S
    OBVIOUS
  <1>2. \A c \in S : ChunkState(c, mirror[c]) \in Mail
    <2>1. \A c \in S : mirror[c] \in Rows
      OBVIOUS
    <2> QED BY <2>1 DEF ChunkState, Mail
  <1> DEFINE s == [i \in DOMAIN cs |-> ChunkState(cs[i], mirror[cs[i]])]
  <1>3. s \in [1..Len(cs) -> Mail] /\ \A i \in 1..Len(cs) : s[i] = ChunkState(cs[i], mirror[cs[i]])
    BY <1>1, <1>2
  <1> HIDE DEF s
  <1>4. s \in Seq(Mail) /\ DOMAIN s = 1..Len(cs)
    BY <1>1, <1>3
  <1>5. \A i \in DOMAIN s : \A c : ~IsReaped(s[i], c) /\ (IsPut(s[i], c) => c \in S)
    <2> SUFFICES ASSUME NEW i \in DOMAIN s, NEW c
                 PROVE  ~IsReaped(s[i], c) /\ (IsPut(s[i], c) => c \in S)
      OBVIOUS
    <2>1. s[i] = ChunkState(cs[i], mirror[cs[i]]) /\ cs[i] \in S
      BY <1>1, <1>3, <1>4
    <2> QED BY <2>1 DEF ChunkState, IsReaped, IsPut
  <1> QED BY <1>4, <1>5 DEF Carries, s

-----------------------------------------------------------------------------
(* The invariant. *)

\* What the hub mirrors is there, or is a ghost: brought back by an event before
\* the sim removed it.
MirrorInv ==
  /\ mirror \in [DOMAIN mirror -> Rows]
  /\ DOMAIN mirror \subseteq ChunkCoord /\ IsFiniteSet(DOMAIN mirror)
  /\ haunted \subseteq DOMAIN mirror
  /\ DOMAIN mirror \subseteq Present(world) \cup haunted

\* The world, what the hub knows of it and of the peer, and what it asks of the sim.
ServerInv ==
  /\ WorldType(world) /\ Apart(world) /\ Solo(world)
  /\ IsFiniteSet(Present(world))
  /\ subscribed \subseteq Seen
  /\ sim_cmd \in Seq(SimMail)
  /\ interest \subseteq Seen /\ IsFiniteSet(interest)
  /\ MirrorInv

\* What is under way, and what is in view.
MailInv ==
  /\ inbox \in Seq(Mail)
  /\ outbox \in Seq(HubMail)
  /\ connected \in BOOLEAN
  /\ current \in Views \cup {{}}

\* The cache, in the order of its puts, within its capacity.
CacheInv ==
  /\ cache \in [DOMAIN cache -> Rows]
  /\ order \in Seq(Seen)
  /\ Once(order)
  /\ Range(order) = DOMAIN cache
  /\ Len(order) <= Cardinality(current) + CACHE_BUFFER
  /\ updated \subseteq Seen
  /\ assured \subseteq interest

\* Nothing outlives a connection.
OfflineInv == connected \/ (interest = {} /\ inbox = << >> /\ outbox = << >> /\ cache = NoChunks)

\* Whether a hub with this table will have c in it when it has read o: the last
\* request that names c decides, or the table as it is.
Asked(o, table, c) ==
  \/ \E i \in DOMAIN o :
       /\ o[i].type = "Subscribe" /\ c \in o[i].coords
       /\ \A j \in (i + 1)..Len(o) : c \notin o[j].coords
  \/ c \in table /\ \A i \in DOMAIN o : c \notin o[i].coords

AskedInv == connected => \A c : Asked(outbox, interest, c) <=> c \in current

\* Whether c will be in the cache when the client has read its mail, unless it
\* is evicted or dropped.
MayHold(c) ==
  \/ \E i \in DOMAIN inbox : IsPut(inbox[i], c) /\ \A j \in (i + 1)..Len(inbox) : ~IsReaped(inbox[j], c)
  \/ c \in DOMAIN cache /\ \A j \in DOMAIN inbox : ~IsReaped(inbox[j], c)

HeldInv == \A c : MayHold(c) => c \in DOMAIN mirror

ClientInv == ServerInv /\ MailInv /\ CacheInv /\ OfflineInv /\ AskedInv /\ HeldInv

\* The hub's chunks go from M to N and msgs is sent: what is put and not taken
\* out again is there, and what has gone is told.
Honest(msgs, M, N) ==
  /\ msgs \in Seq(Mail)
  /\ \A i \in DOMAIN msgs : \A c :
       IsPut(msgs[i], c) /\ (\A j \in (i + 1)..Len(msgs) : ~IsReaped(msgs[j], c)) => c \in N
  /\ \A c \in M \ N : \E i \in DOMAIN msgs : IsReaped(msgs[i], c)

LEMMA CarriesHonest ==
  ASSUME NEW M, NEW N, M \subseteq N, NEW S, S \subseteq N, NEW msgs, Carries(msgs, S)
  PROVE  Honest(msgs, M, N)
  BY DEF Honest, Carries

LEMMA ReapsHonest ==
  ASSUME NEW M, NEW S, S \subseteq ChunkCoord, NEW cs \in Seq(S), Range(cs) = S
  PROVE  Honest(Reaps(cs), M, M \ S)
  <1> DEFINE s == Reaps(cs)
  <1> HIDE DEF Mail
  <1>1. /\ s \in Seq(Mail) /\ DOMAIN s = DOMAIN cs
        /\ \A i \in DOMAIN cs : \A c : ~IsPut(s[i], c) /\ (IsReaped(s[i], c) <=> c = cs[i])
        /\ \A c \in S : \E i \in DOMAIN cs : cs[i] = c
    <2>1. /\ Reaps(cs) \in Seq(Mail) /\ DOMAIN Reaps(cs) = DOMAIN cs
          /\ \A i \in DOMAIN cs : \A c : ~IsPut(Reaps(cs)[i], c) /\ (IsReaped(Reaps(cs)[i], c) <=> c = cs[i])
      BY ReapsAre
    <2>2. \A c \in S : \E i \in DOMAIN cs : cs[i] = c
      BY ReapsAre
    <2> QED BY <2>1, <2>2
  <1> HIDE DEF s
  <1>2. ASSUME NEW c \in M \ (M \ S) PROVE \E i \in DOMAIN s : IsReaped(s[i], c)
    <2>1. PICK i \in DOMAIN cs : cs[i] = c
      BY <1>1
    <2> QED BY <1>1, <2>1
  <1>3. Honest(s, M, M \ S)
    BY <1>1, <1>2 DEF Honest
  <1> QED BY <1>3 DEF s

\* One list after another.
LEMMA HonestBoth ==
  ASSUME NEW M, NEW N, NEW O, NEW a, NEW b, Honest(a, M, N), Honest(b, N, O)
  PROVE  Honest(a \o b, M, O)
  <1>1. a \in Seq(Mail) /\ b \in Seq(Mail)
    BY DEF Honest
  <1> DEFINE s == a \o b
             n == Len(a)
             k == Len(b)
  <1>2. /\ s \in Seq(Mail) /\ Len(s) = n + k
        /\ DOMAIN s = 1..(n + k) /\ DOMAIN a = 1..n /\ DOMAIN b = 1..k
        /\ n \in Nat /\ k \in Nat
        /\ \A i \in 1..n : s[i] = a[i]
        /\ \A i \in 1..k : s[n + i] = b[i]
    <2> HIDE DEF Mail
    <2>1. n \in Nat /\ k \in Nat /\ DOMAIN a = 1..n /\ DOMAIN b = 1..k
      BY <1>1, LenProperties
    <2>2. s \in Seq(Mail) /\ Len(s) = n + k /\ \A i \in 1..(n + k) : s[i] = IF i <= n THEN a[i] ELSE b[i - n]
      BY <1>1, ConcatProperties
    <2> HIDE DEF s
    <2>3. DOMAIN s = 1..(n + k)
      BY <2>2, LenProperties
    <2> HIDE DEF n, k
    <2>4. \A i \in 1..n : s[i] = a[i]
      BY <2>1, <2>2
    <2>5. ASSUME NEW i \in 1..k PROVE s[n + i] = b[i]
      <3>1. n + i \in 1..(n + k) /\ ~(n + i <= n) /\ (n + i) - n = i
        BY <2>1
      <3>2. s[n + i] = b[(n + i) - n]
        BY <2>2, <3>1
      <3> QED BY <3>1, <3>2
    <2> QED BY <2>1, <2>2, <2>3, <2>4, <2>5
  <1> HIDE DEF s, n, k
  <1>3. ASSUME NEW i \in DOMAIN s, NEW c, IsPut(s[i], c), \A j \in (i + 1)..Len(s) : ~IsReaped(s[j], c)
        PROVE  c \in O
    <2>1. CASE i \in 1..n
      <3>1. \A j \in (i + 1)..n : j \in (i + 1)..Len(s) /\ s[j] = a[j]
        BY <1>2, <2>1
      <3>2. c \in N
        <4>1. IsPut(a[i], c) /\ \A j \in (i + 1)..Len(a) : ~IsReaped(a[j], c)
          BY <1>2, <1>3, <2>1, <3>1 DEF n
        <4> QED BY <1>2, <2>1, <4>1 DEF Honest
      <3>3. \A j \in DOMAIN b : ~IsReaped(b[j], c)
        <4> SUFFICES ASSUME NEW j \in DOMAIN b PROVE ~IsReaped(b[j], c)
          OBVIOUS
        <4>1. n + j \in (i + 1)..Len(s) /\ s[n + j] = b[j]
          BY <1>2, <2>1
        <4> QED BY <1>3, <4>1
      <3> QED BY <3>2, <3>3 DEF Honest
    <2>2. CASE i \notin 1..n
      <3>1. i - n \in 1..k /\ n + (i - n) = i
        BY <1>2, <2>2
      <3>2. s[i] = b[i - n]
        BY <1>2, <3>1
      <3>3. ASSUME NEW j \in ((i - n) + 1)..k PROVE ~IsReaped(b[j], c)
        <4>1. j \in 1..k /\ n + j \in (i + 1)..Len(s)
          BY <1>2, <3>1
        <4>2. s[n + j] = b[j]
          BY <1>2, <4>1
        <4> QED BY <1>3, <4>1, <4>2
      <3> QED BY <1>2, <1>3, <3>1, <3>2, <3>3 DEF Honest, k
    <2> QED BY <2>1, <2>2
  <1>4. ASSUME NEW c \in M \ O PROVE \E i \in DOMAIN s : IsReaped(s[i], c)
    <2>1. CASE c \in N
      <3>1. PICK i \in DOMAIN b : IsReaped(b[i], c)
        BY <1>4, <2>1 DEF Honest
      <3>2. n + i \in DOMAIN s /\ s[n + i] = b[i]
        BY <1>2
      <3> QED BY <3>1, <3>2
    <2>2. CASE c \notin N
      <3>1. PICK i \in DOMAIN a : IsReaped(a[i], c)
        BY <1>4, <2>2 DEF Honest
      <3>2. i \in DOMAIN s /\ s[i] = a[i]
        BY <1>2
      <3> QED BY <3>1, <3>2
    <2> QED BY <2>1, <2>2
  <1>5. Honest(s, M, O)
    BY <1>2, <1>3, <1>4 DEF Honest
  <1> QED BY <1>5 DEF s

\* An honest hub leaves nobody with a chunk it has not.
LEMMA HeldMore ==
  ASSUME MailInv, OfflineInv, HeldInv, NEW msgs, Honest(msgs, DOMAIN mirror, DOMAIN mirror'),
         Send(msgs), cache' = cache
  PROVE  HeldInv'
  <1>1. CASE ~connected
    <2>1. DOMAIN cache' = {} /\ DOMAIN inbox' = {}
      BY <1>1 DEF OfflineInv, Send, NoChunks
    <2> QED BY <2>1 DEF HeldInv, MayHold
  <1>2. CASE connected
    <2> SUFFICES ASSUME NEW c, MayHold(c)' PROVE c \in DOMAIN mirror'
      BY DEF HeldInv
    <2> DEFINE t == inbox'
               n == Len(inbox)
               m == Len(msgs)
    <2>1. /\ DOMAIN t = 1..(n + m) /\ Len(t) = n + m
          /\ DOMAIN inbox = 1..n /\ DOMAIN msgs = 1..m
          /\ n \in Nat /\ m \in Nat
          /\ \A i \in 1..n : t[i] = inbox[i]
          /\ \A i \in 1..m : t[n + i] = msgs[i]
      <3>1. inbox \in Seq(Mail) /\ msgs \in Seq(Mail) /\ t = inbox \o msgs
        BY <1>2 DEF MailInv, Honest, Send
      <3> HIDE DEF Mail, t
      <3>2. n \in Nat /\ m \in Nat /\ DOMAIN inbox = 1..n /\ DOMAIN msgs = 1..m
        BY <3>1, LenProperties
      <3>3. t \in Seq(Mail) /\ Len(t) = n + m /\ \A i \in 1..(n + m) : t[i] = IF i <= n THEN inbox[i] ELSE msgs[i - n]
        BY <3>1, ConcatProperties
      <3>4. DOMAIN t = 1..(n + m)
        BY <3>3, LenProperties
      <3> QED BY <3>2, <3>3, <3>4
    <2> HIDE DEF n, m
    <2>2. ASSUME NEW i \in 1..m, IsPut(msgs[i], c), \A k \in (n + i + 1)..(n + m) : ~IsReaped(t[k], c)
          PROVE  c \in DOMAIN mirror'
      <3>1. ASSUME NEW j \in (i + 1)..m PROVE ~IsReaped(msgs[j], c)
        <4>1. j \in 1..m /\ n + j \in (n + i + 1)..(n + m)
          BY <2>1
        <4>2. t[n + j] = msgs[j]
          BY <2>1, <4>1
        <4> QED BY <2>2, <4>1, <4>2
      <3> QED BY <2>1, <2>2, <3>1 DEF Honest, m
    <2>3. ASSUME MayHold(c), \A j \in 1..m : ~IsReaped(msgs[j], c) PROVE c \in DOMAIN mirror'
      <3>1. c \in DOMAIN mirror
        BY <2>3 DEF HeldInv
      <3> QED BY <2>1, <2>3, <3>1 DEF Honest
    <2>4. CASE \E i \in DOMAIN t : IsPut(t[i], c) /\ \A k \in (i + 1)..Len(t) : ~IsReaped(t[k], c)
      <3>1. PICK i \in 1..(n + m) : IsPut(t[i], c) /\ \A k \in (i + 1)..(n + m) : ~IsReaped(t[k], c)
        BY <2>1, <2>4
      <3>2. CASE i \in 1..n
        <4>1. IsPut(inbox[i], c) /\ \A k \in (i + 1)..n : ~IsReaped(inbox[k], c)
          BY <2>1, <3>1, <3>2
        <4>2. MayHold(c)
          BY <2>1, <3>2, <4>1 DEF MayHold, n
        <4>3. \A j \in 1..m : ~IsReaped(msgs[j], c)
          <5> SUFFICES ASSUME NEW j \in 1..m PROVE ~IsReaped(msgs[j], c)
            OBVIOUS
          <5>1. n + j \in (i + 1)..(n + m) /\ t[n + j] = msgs[j]
            BY <2>1, <3>2
          <5> QED BY <3>1, <5>1
        <4> QED BY <2>3, <4>2, <4>3
      <3>3. CASE i \notin 1..n
        <4>1. i - n \in 1..m /\ n + (i - n) = i
          BY <2>1, <3>3
        <4>2. t[i] = msgs[i - n]
          BY <2>1, <4>1
        <4> QED BY <2>2, <3>1, <4>1, <4>2
      <3> QED BY <3>2, <3>3
    <2>5. CASE c \in DOMAIN cache /\ \A j \in DOMAIN t : ~IsReaped(t[j], c)
      <3>1. \A j \in 1..n : ~IsReaped(inbox[j], c)
        <4> SUFFICES ASSUME NEW j \in 1..n PROVE ~IsReaped(inbox[j], c)
          OBVIOUS
        <4>1. j \in DOMAIN t /\ t[j] = inbox[j]
          BY <2>1
        <4> QED BY <2>5, <4>1
      <3>2. \A j \in 1..m : ~IsReaped(msgs[j], c)
        <4> SUFFICES ASSUME NEW j \in 1..m PROVE ~IsReaped(msgs[j], c)
          OBVIOUS
        <4>1. n + j \in DOMAIN t /\ t[n + j] = msgs[j]
          BY <2>1
        <4> QED BY <2>5, <4>1
      <3>3. MayHold(c)
        BY <2>1, <2>5, <3>1 DEF MayHold
      <3> QED BY <2>3, <3>2, <3>3
    <2> HIDE DEF t
    <2>6. \/ \E i \in DOMAIN t : IsPut(t[i], c) /\ \A k \in (i + 1)..Len(t) : ~IsReaped(t[k], c)
          \/ c \in DOMAIN cache /\ \A j \in DOMAIN t : ~IsReaped(t[j], c)
      BY DEF MayHold, t
    <2> QED BY <2>4, <2>5, <2>6
  <1> QED BY <1>1, <1>2 DEF MailInv

\* A client that does as it is told holds nothing it did not have to come to hold.
LEMMA HeldLess ==
  ASSUME MailInv, HeldInv, mirror' = mirror, inbox # << >>, inbox' = Tail(inbox),
         \A c \in DOMAIN cache' : IsPut(Head(inbox), c) \/ (c \in DOMAIN cache /\ ~IsReaped(Head(inbox), c))
  PROVE  HeldInv'
  <1> SUFFICES ASSUME NEW c, MayHold(c)' PROVE MayHold(c)
    BY DEF HeldInv
  <1> DEFINE t == inbox'
             n == Len(inbox)
  <1>1. /\ n \in Nat \ {0} /\ DOMAIN inbox = 1..n /\ DOMAIN t = 1..(n - 1) /\ Len(t) = n - 1
        /\ Head(inbox) = inbox[1]
        /\ \A i \in 1..(n - 1) : t[i] = inbox[i + 1]
    <2>1. inbox \in Seq(Mail)
      BY DEF MailInv
    <2> HIDE DEF Mail
    <2> QED BY <2>1, HeadTailProperties, LenProperties
  <1> HIDE DEF n
  <1>2. CASE \E i \in DOMAIN t : IsPut(t[i], c) /\ \A k \in (i + 1)..Len(t) : ~IsReaped(t[k], c)
    <2>1. PICK i \in DOMAIN t : IsPut(t[i], c) /\ \A k \in (i + 1)..Len(t) : ~IsReaped(t[k], c)
      BY <1>2
    <2>2. i + 1 \in DOMAIN inbox /\ IsPut(inbox[i + 1], c)
      BY <1>1, <2>1
    <2>3. \A k \in (i + 2)..n : ~IsReaped(inbox[k], c)
      <3> SUFFICES ASSUME NEW k \in (i + 2)..n PROVE ~IsReaped(inbox[k], c)
        OBVIOUS
      <3>1. k - 1 \in (i + 1)..Len(t) /\ k - 1 \in 1..(n - 1)
        BY <1>1
      <3>2. t[k - 1] = inbox[k]
        BY <1>1, <3>1
      <3> QED BY <2>1, <3>1, <3>2
    <2>4. (i + 1) + 1 = i + 2
      BY <1>1
    <2> QED BY <2>2, <2>3, <2>4 DEF MayHold, n
  <1>3. CASE c \in DOMAIN cache' /\ \A j \in DOMAIN t : ~IsReaped(t[j], c)
    <2>1. \A j \in 2..n : ~IsReaped(inbox[j], c)
      <3> SUFFICES ASSUME NEW j \in 2..n PROVE ~IsReaped(inbox[j], c)
        OBVIOUS
      <3>1. j - 1 \in DOMAIN t /\ t[j - 1] = inbox[j]
        BY <1>1
      <3> QED BY <1>3, <3>1
    <2>2. CASE IsPut(Head(inbox), c)
      <3>1. 1 \in DOMAIN inbox /\ IsPut(inbox[1], c) /\ \A j \in (1 + 1)..n : ~IsReaped(inbox[j], c)
        BY <1>1, <2>1, <2>2
      <3> QED BY <3>1 DEF MayHold, n
    <2>3. CASE c \in DOMAIN cache /\ ~IsReaped(Head(inbox), c)
      <3>1. \A j \in DOMAIN inbox : ~IsReaped(inbox[j], c)
        BY <1>1, <2>1, <2>3
      <3> QED BY <2>3, <3>1 DEF MayHold
    <2> QED BY <1>3, <2>2, <2>3
  <1> QED BY <1>2, <1>3 DEF MayHold

-----------------------------------------------------------------------------
(* What the server does, one lemma for each of its actions. *)

ServerEffect ==
  /\ ServerInv'
  /\ assured' \subseteq interest'
  /\ \E msgs : Honest(msgs, DOMAIN mirror, DOMAIN mirror') /\ Send(msgs)

LEMMA NothingSent ==
  ASSUME MailInv, UNCHANGED inbox, DOMAIN mirror \subseteq DOMAIN mirror'
  PROVE  \E msgs : Honest(msgs, DOMAIN mirror, DOMAIN mirror') /\ Send(msgs)
  <1>1. inbox \o << >> = inbox
    <2>1. inbox \in Seq(Mail)
      BY DEF MailInv
    <2> HIDE DEF Mail
    <2> QED BY <2>1, ConcatEmptySeq
  <1>2. Honest(<< >>, DOMAIN mirror, DOMAIN mirror')
    BY CarriesNothing, CarriesHonest
  <1> QED BY <1>1, <1>2 DEF Send

\* The mirror after an event.
LEMMA MirroredIs ==
  ASSUME MirrorInv, NEW w, WorldType(w), NEW changed, changed \subseteq DOMAIN w.chunks, IsFiniteSet(changed),
         NEW removed
  PROVE  /\ DOMAIN Mirrored(w, changed, removed) = (DOMAIN mirror \ removed) \cup changed
         /\ Mirrored(w, changed, removed) \in [DOMAIN Mirrored(w, changed, removed) -> Rows]
         /\ \A c \in changed : Mirrored(w, changed, removed)[c] = w.chunks[c].rows
         /\ \A c \in DOMAIN mirror \ (changed \cup removed) : Mirrored(w, changed, removed)[c] = mirror[c]
         /\ DOMAIN Mirrored(w, changed, removed) \subseteq ChunkCoord
         /\ IsFiniteSet(DOMAIN Mirrored(w, changed, removed))
  <1> DEFINE m == Mirrored(w, changed, removed)
             D == (DOMAIN mirror \ removed) \cup changed
  <1>1. m = [c \in D |-> IF c \in changed THEN w.chunks[c].rows ELSE mirror[c]]
    BY DEF Mirrored
  <1>2. \A c \in changed : c \in ChunkCoord /\ w.chunks[c].rows \in Rows
    BY DEF WorldType, Chunk
  <1>3. mirror \in [DOMAIN mirror -> Rows] /\ DOMAIN mirror \subseteq ChunkCoord /\ IsFiniteSet(DOMAIN mirror)
    BY DEF MirrorInv
  <1>4. IsFiniteSet(D)
    <2>1. IsFiniteSet(DOMAIN mirror \ removed)
      BY <1>3, FS_Difference
    <2> QED BY <2>1, FS_Union
  <1>5. D \subseteq ChunkCoord
    BY <1>2, <1>3
  <1> HIDE DEF m
  <1>6. m \in [D -> Rows]
    <2>1. \A c \in D : m[c] \in Rows
      BY <1>1, <1>2, <1>3
    <2> QED BY <1>1, <2>1
  <1>7. DOMAIN m = D
    BY <1>1
  <1>8. \A c \in changed : m[c] = w.chunks[c].rows
    BY <1>1
  <1>9. \A c \in DOMAIN mirror \ (changed \cup removed) : m[c] = mirror[c]
    BY <1>1
  <1> QED BY <1>4, <1>5, <1>6, <1>7, <1>8, <1>9 DEF m

\* What the hub asks of the sim.
LEMMA OrderType ==
  ASSUME sim_cmd \in Seq(SimMail), NEW cmd \in SimMail, Order(cmd)
  PROVE  sim_cmd' \in Seq(SimMail)
  <1> HIDE DEF SimMail
  <1>1. Append(sim_cmd, cmd) \in Seq(SimMail)
    BY AppendProperties
  <1> QED BY <1>1 DEF Order

LEMMA SimHead ==
  ASSUME sim_cmd \in Seq(SimMail), NEW type, SimTake(type)
  PROVE  /\ Head(sim_cmd) \in SimMail /\ Head(sim_cmd).type = type
         /\ type \in {"Subscribe", "Unsubscribe"} => Head(sim_cmd).coords \subseteq Seen
         /\ type = "Reap" => \A c \in Head(sim_cmd).coords : c \in ChunkCoord /\ ~InRegion(c)
         /\ type = "SetOwned" => Head(sim_cmd).coords \in Claims
         /\ sim_cmd' \in Seq(SimMail)
         /\ interest' = interest
  <1>1. sim_cmd # << >> /\ Head(sim_cmd).type = type /\ sim_cmd' = Tail(sim_cmd) /\ interest' = interest
    BY DEF SimTake
  <1>2. Head(sim_cmd) \in SimMail /\ Tail(sim_cmd) \in Seq(SimMail)
    <2> HIDE DEF SimMail
    <2> QED BY <1>1, HeadTailProperties
  <1> DEFINE m == Head(sim_cmd)
  <1> HIDE DEF m
  <1>3. /\ m.type \in {"Subscribe", "Unsubscribe"} => m.coords \subseteq Seen
        /\ m.type = "Reap" => \A c \in m.coords : c \in ChunkCoord /\ ~InRegion(c)
        /\ m.type = "SetOwned" => m.coords \in Claims
    <2>1. m \in SimMail
      BY <1>2 DEF m
    <2> QED BY <2>1 DEF SimMail
  <1> QED BY <1>1, <1>2, <1>3 DEF m

LEMMA EditServer ==
  ASSUME ServerInv, MailInv, CacheInv, NEW p \in EditCells, NEW alive \in BOOLEAN, Edit(p, alive)
  PROVE  ServerEffect
  <1> DEFINE c == Home(p)
             v == Wake(world, {c})
             w == SetCellAt(v, c, p[1] % CHUNK_SIZE, p[2] % CHUNK_SIZE, alive)
             told == {k \in {c} \cap interest : Sent(w, k)}
             list == IF told = {} THEN << >> ELSE <<c>>
             m == Mirrored(w, {c}, {})
  <1>1. c \in ChunkCoord /\ p[1] % CHUNK_SIZE \in Idx /\ p[2] % CHUNK_SIZE \in Idx
    <2>1. p \in Int \X Int
      BY ClientAssumption
    <2> QED BY <2>1, HomeType
  <1>2. /\ world' = w /\ interest' = interest /\ mirror' = m /\ haunted' = haunted \ {c}
        /\ subscribed' = subscribed /\ sim_cmd' = sim_cmd
        /\ IF c \in interest THEN Send(Deltas(w, list) \o <<EditApplied(p, alive)>>) ELSE UNCHANGED inbox
        /\ assured' = IF p \in Region THEN assured \ {c} ELSE assured \cup told
    BY DEF Edit, Command
  <1>3. WorldType(world) /\ Apart(world) /\ Solo(world) /\ IsFiniteSet(Present(world)) /\ MirrorInv
    BY DEF ServerInv
  <1>4. WorldType(v) /\ Apart(v) /\ c \notin PausedCoords(v)
    BY <1>3, WakeOK
  <1>5. Present(v) = Present(world) /\ Solo(v)
    BY <1>3, WakePresent
  <1> HIDE DEF v
  <1>6. WorldType(w) /\ Apart(w)
    BY <1>1, <1>4, SetCellAtOK
  <1>7. Present(w) = Present(world) \cup {c} /\ Solo(w) /\ c \in DOMAIN w.chunks
    BY <1>4, <1>5, SetCellPresent
  <1>8. IsFiniteSet(Present(w))
    BY <1>3, <1>7, FS_AddElement
  <1> HIDE DEF w
  <1>20. /\ DOMAIN m = DOMAIN mirror \cup {c} /\ m \in [DOMAIN m -> Rows]
         /\ DOMAIN m \subseteq ChunkCoord /\ IsFiniteSet(DOMAIN m)
    <2>1. {c} \subseteq DOMAIN w.chunks /\ IsFiniteSet({c})
      BY <1>7, FS_Singleton
    <2>2. /\ DOMAIN m = (DOMAIN mirror \ {}) \cup {c} /\ m \in [DOMAIN m -> Rows]
          /\ DOMAIN m \subseteq ChunkCoord /\ IsFiniteSet(DOMAIN m)
      BY <1>3, <1>6, <2>1, MirroredIs
    <2> QED BY <2>2
  <1> HIDE DEF m
  <1>21. MirrorInv'
    BY <1>2, <1>3, <1>7, <1>20 DEF MirrorInv
  <1>9. ServerInv'
    BY <1>2, <1>6, <1>7, <1>8, <1>21 DEF ServerInv
  <1>10. assured' \subseteq interest'
    BY <1>2 DEF CacheInv
  <1>11. CASE c \notin interest
    <2>1. DOMAIN mirror \subseteq DOMAIN mirror'
      BY <1>2, <1>20
    <2> QED BY <1>2, <1>9, <1>10, <1>11, <2>1, NothingSent DEF ServerEffect
  <1>12. CASE c \in interest
    <2>1. list \in Seq({c})
      <3>1. \A e : << >> \in Seq({e}) /\ <<e>> \in Seq({e})
        OBVIOUS
      <3> HIDE DEF c, told
      <3> QED BY <3>1
    <2>2. {c} \subseteq Seen
      BY <1>12 DEF ServerInv
    <2>3. {c} \subseteq DOMAIN w.chunks
      BY <1>7
    <2> HIDE DEF list
    <2>4. Carries(Deltas(w, list), {c})
      BY <1>6, <2>1, <2>2, <2>3, DeltasCarry
    <2>5. Carries(<<EditApplied(p, alive)>>, {c})
      <3>1. EditApplied(p, alive) \in Mail
        BY <1>1 DEF EditApplied, Mail
      <3>2. \A k : ~IsReaped(EditApplied(p, alive), k) /\ ~IsPut(EditApplied(p, alive), k)
        BY DEF EditApplied, IsReaped, IsPut
      <3> DEFINE e == EditApplied(p, alive)
      <3> HIDE DEF e, Mail
      <3>3. e \in Mail /\ \A k : ~IsReaped(e, k) /\ ~IsPut(e, k)
        BY <3>1, <3>2 DEF e
      <3>4. Carries(<<e>>, {c})
        BY <3>3 DEF Carries
      <3> QED BY <3>4 DEF e
    <2>6. Carries(Deltas(w, list) \o <<EditApplied(p, alive)>>, {c})
      BY <2>4, <2>5, CarriesBoth
    <2>7. Honest(Deltas(w, list) \o <<EditApplied(p, alive)>>, DOMAIN mirror, DOMAIN mirror')
      <3>1. DOMAIN mirror \subseteq DOMAIN mirror' /\ {c} \subseteq DOMAIN mirror'
        BY <1>2, <1>20
      <3> QED BY <2>6, <3>1, CarriesHonest
    <2>8. Send(Deltas(w, list) \o <<EditApplied(p, alive)>>)
      BY <1>2, <1>12 DEF list
    <2> QED BY <1>9, <1>10, <2>7, <2>8 DEF ServerEffect
  <1> QED BY <1>11, <1>12

LEMMA SetOwnedServer ==
  ASSUME ServerInv, MailInv, CacheInv, NEW S \in Claims, SetOwned(S)
  PROVE  ServerEffect
  <1>1. /\ UNCHANGED <<world, subscribed, interest, mirror, haunted, inbox, assured>>
        /\ sim_cmd' = Append(sim_cmd, Isolate(S))
    BY DEF SetOwned, Command, sim_vars
  <1>2. sim_cmd' \in Seq(SimMail)
    <2>1. sim_cmd \in Seq(SimMail)
      BY DEF ServerInv
    <2>2. Isolate(S) \in SimMail
      BY DEF Isolate, SimMail
    <2> HIDE DEF SimMail
    <2> QED BY <1>1, <2>1, <2>2, AppendProperties
  <1>3. MirrorInv'
    BY <1>1 DEF ServerInv, MirrorInv
  <1>4. ServerInv' /\ assured' \subseteq interest'
    BY <1>1, <1>2, <1>3 DEF ServerInv, CacheInv
  <1> QED BY <1>1, <1>4, NothingSent DEF ServerEffect

LEMMA SimReapServer ==
  ASSUME ServerInv, MailInv, CacheInv, SimReap
  PROVE  ServerEffect
  <1> DEFINE S == Head(sim_cmd).coords
  <1>1. /\ SimTake("Reap")
        /\ world' = [world EXCEPT !.chunks = Restrict(@, DOMAIN @ \ S), !.paused = @ \ Hit(world, S)]
        /\ haunted' = haunted \cup (S \cap DOMAIN mirror)
        /\ assured' = assured \ S
        /\ UNCHANGED <<subscribed, mirror, inbox>>
    BY DEF SimReap
  <1>2. WorldType(world) /\ Apart(world) /\ Solo(world) /\ IsFiniteSet(Present(world)) /\ MirrorInv
    BY DEF ServerInv
  <1>3. sim_cmd' \in Seq(SimMail) /\ interest' = interest
    BY <1>1, SimHead DEF ServerInv
  <1> HIDE DEF S
  <1>4. WorldType(world') /\ Apart(world') /\ Solo(world') /\ Present(world') = Present(world) \ S
    BY <1>1, <1>2, ReapPresent
  <1>5. IsFiniteSet(Present(world'))
    BY <1>2, <1>4, FS_Difference
  <1>6. MirrorInv'
    BY <1>1, <1>2, <1>4 DEF MirrorInv
  <1>7. ServerInv' /\ assured' \subseteq interest'
    BY <1>1, <1>3, <1>4, <1>5, <1>6 DEF ServerInv, CacheInv
  <1> QED BY <1>1, <1>7, NothingSent DEF ServerEffect

LEMMA SimSubscribeServer ==
  ASSUME ServerInv, MailInv, CacheInv, SimSubscribe
  PROVE  ServerEffect
  <1> DEFINE S     == Head(sim_cmd).coords
             woken == (S \ subscribed) \cap PausedCoords(world)
             w     == Wake(world, S \ subscribed)
             told  == {c \in woken \cap interest : Sent(w, c)}
             m     == Mirrored(w, woken, {})
  <1>1. /\ SimTake("Subscribe")
        /\ subscribed' = subscribed \cup S
        /\ world' = w /\ mirror' = m /\ haunted' = haunted \ woken
        /\ \E news \in Orders(told) : Send(Deltas(w, news))
        /\ assured' = assured \cup told
    BY DEF SimSubscribe
  <1>2. PICK news \in Orders(told) : Send(Deltas(w, news))
    BY <1>1
  <1>3. WorldType(world) /\ Apart(world) /\ Solo(world) /\ IsFiniteSet(Present(world)) /\ MirrorInv
    BY DEF ServerInv
  <1>4. WorldType(w) /\ Apart(w) /\ Present(w) = Present(world) /\ Solo(w)
    BY <1>3, WakeOK, WakePresent
  <1>5. sim_cmd' \in Seq(SimMail) /\ interest' = interest /\ S \subseteq Seen
    BY <1>1, SimHead DEF ServerInv
  <1>6. woken \subseteq DOMAIN w.chunks
    <2>1. DOMAIN w.chunks = DOMAIN world.chunks \cup Woken(world, S \ subscribed)
      BY <1>3, WakeChunks
    <2>2. (S \ subscribed) \cap PausedCoords(world) \subseteq Woken(world, S \ subscribed)
      BY DEF PausedCoords, Woken, Hit
    <2> HIDE DEF w, S
    <2> QED BY <2>1, <2>2
  <1>7. told \subseteq woken /\ told \subseteq interest
    OBVIOUS
  <1>8. IsFiniteSet(woken)
    BY <1>3, <1>4, <1>6, FS_Subset DEF Present
  <1>9. IsFiniteSet(told)
    BY <1>7, <1>8, FS_Subset
  <1> HIDE DEF S, w, woken, told
  <1>10. /\ DOMAIN m = DOMAIN mirror \cup woken /\ m \in [DOMAIN m -> Rows]
         /\ DOMAIN m \subseteq ChunkCoord /\ IsFiniteSet(DOMAIN m)
    <2>1. /\ DOMAIN m = (DOMAIN mirror \ {}) \cup woken /\ m \in [DOMAIN m -> Rows]
          /\ DOMAIN m \subseteq ChunkCoord /\ IsFiniteSet(DOMAIN m)
      BY <1>3, <1>4, <1>6, <1>8, MirroredIs
    <2> QED BY <2>1
  <1> HIDE DEF m
  <1>11. MirrorInv'
    BY <1>1, <1>3, <1>4, <1>6, <1>10 DEF MirrorInv, Present
  <1>12. ServerInv' /\ assured' \subseteq interest'
    BY <1>1, <1>3, <1>4, <1>5, <1>7, <1>11 DEF ServerInv, CacheInv
  <1>13. Carries(Deltas(w, news), told)
    <2>1. told \subseteq Seen /\ told \subseteq DOMAIN w.chunks
      BY <1>6, <1>7 DEF ServerInv
    <2>2. news \in Seq(told)
      BY <1>9, OrdersAre
    <2> QED BY <1>4, <2>1, <2>2, DeltasCarry
  <1>14. Honest(Deltas(w, news), DOMAIN mirror, DOMAIN mirror')
    BY <1>1, <1>7, <1>10, <1>13, CarriesHonest
  <1> QED BY <1>2, <1>12, <1>14 DEF ServerEffect

LEMMA SimUnsubscribeServer ==
  ASSUME ServerInv, MailInv, CacheInv, SimUnsubscribe
  PROVE  ServerEffect
  <1>1. /\ SimTake("Unsubscribe") /\ subscribed' \subseteq subscribed
        /\ UNCHANGED <<world, mirror, inbox, assured, haunted>>
    BY DEF SimUnsubscribe
  <1>2. sim_cmd' \in Seq(SimMail) /\ interest' = interest
    BY <1>1, SimHead DEF ServerInv
  <1>3. MirrorInv'
    BY <1>1 DEF ServerInv, MirrorInv
  <1>4. ServerInv' /\ assured' \subseteq interest'
    BY <1>1, <1>2, <1>3 DEF ServerInv, CacheInv
  <1> QED BY <1>1, <1>4, NothingSent DEF ServerEffect

LEMMA SimSetOwnedServer ==
  ASSUME ServerInv, MailInv, CacheInv, SimSetOwned
  PROVE  ServerEffect
  <1> DEFINE S == Head(sim_cmd).coords
  <1>1. /\ SimTake("SetOwned") /\ world' = [world EXCEPT !.owned = S]
        /\ UNCHANGED <<subscribed, mirror, inbox, assured, haunted>>
    BY DEF SimSetOwned
  <1>2. sim_cmd' \in Seq(SimMail) /\ interest' = interest
    BY <1>1, SimHead DEF ServerInv
  <1> HIDE DEF S
  <1>3. IsRecord(world')
        /\ world'.chunks = world.chunks /\ world'.paused = world.paused /\ world'.tick = world.tick
    BY <1>1 DEF ServerInv, WorldType, IsRecord
  <1>4. PausedCoords(world') = PausedCoords(world) /\ Present(world') = Present(world)
    BY <1>3 DEF PausedCoords, Present
  <1>5. WorldType(world') /\ Apart(world') /\ Solo(world')
    BY <1>3, <1>4 DEF ServerInv, WorldType, Apart, Solo
  <1>6. MirrorInv'
    BY <1>1, <1>4 DEF ServerInv, MirrorInv
  <1>7. ServerInv' /\ assured' \subseteq interest'
    BY <1>1, <1>2, <1>4, <1>5, <1>6 DEF ServerInv, CacheInv
  <1> QED BY <1>1, <1>7, NothingSent DEF ServerEffect

\* Single chunks nobody watches that may be paused: at most one period each.
LEMMA PausableMay ==
  ASSUME WorldType(world), NEW Q \in SUBSET Pausable
  PROVE  /\ \A q \in Q : MayPause(world, q) /\ \E c : q.members = {c}
         /\ \A q, r \in Q : q # r => q.members \cap r.members = {}
  <1>1. ASSUME NEW q \in Q
        PROVE  /\ q.period \in 1..MAX_PERIOD
               /\ \E c : /\ q = [members |-> {c}, period |-> q.period]
                         /\ q.members = {c}
                         /\ CanPause(world, c, q.period)
                         /\ Recurs(c, q.period)
                         /\ \A p \in 1..(q.period - 1) : ~Recurs(c, p)
    <2>1. PICK c \in DOMAIN world.chunks \ subscribed, p \in 1..MAX_PERIOD : q = [members |-> {c}, period |-> p]
      BY DEF Pausable
    <2>2. q.members = {c} /\ q.period = p
      BY <2>1
    <2>3. /\ CanPause(world, c, q.period) /\ Recurs(c, q.period)
          /\ \A k \in 1..(q.period - 1) : ~Recurs(c, k)
      BY <2>2 DEF Pausable
    <2> QED BY <2>1, <2>2, <2>3
  <1>2. ASSUME NEW q \in Q
        PROVE  MayPause(world, q) /\ \E c : q.members = {c}
    <2>1. PICK c : q = [members |-> {c}, period |-> q.period] /\ q.members = {c} /\ CanPause(world, c, q.period)
      BY <1>1
    <2> DEFINE p == q.period
    <2> HIDE DEF p
    <2>2. MayPause(world, [members |-> {c}, period |-> p])
      BY <2>1, CanPauseOK DEF p
    <2> QED BY <2>1, <2>2 DEF p
  <1>3. ASSUME NEW q \in Q, NEW r \in Q, q.members \cap r.members # {}
        PROVE  q = r
    <2>1. PICK c : /\ q = [members |-> {c}, period |-> q.period] /\ q.members = {c} /\ Recurs(c, q.period)
                   /\ \A p \in 1..(q.period - 1) : ~Recurs(c, p)
      BY <1>1
    <2>2. PICK d : /\ r = [members |-> {d}, period |-> r.period] /\ r.members = {d} /\ Recurs(d, r.period)
                   /\ \A p \in 1..(r.period - 1) : ~Recurs(d, p)
      BY <1>1
    <2>3. c = d
      BY <1>3, <2>1, <2>2
    <2>4. q.period \in 1..MAX_PERIOD /\ r.period \in 1..MAX_PERIOD
      BY <1>1
    <2>5. q.period = r.period
      <3>1. q.period \in Int /\ q.period >= 1 /\ r.period \in Int /\ r.period >= 1
        BY <2>4, PeriodAssumption
      <3>2. ~(q.period < r.period)
        BY <2>1, <2>2, <2>3, <3>1
      <3>3. ~(r.period < q.period)
        BY <2>1, <2>2, <2>3, <3>1
      <3> QED BY <3>1, <3>2, <3>3
    <2> QED BY <2>1, <2>2, <2>3, <2>5
  <1> QED BY <1>2, <1>3

\* A tick of the sim as the proofs take it apart: what is paused, what is told,
\* and what the reaper takes out of the mirror.
TickOf(Q, S, gone, news, reaped) ==
  LET w       == Pause(world, Q)
      t       == TickInto(w)
      after   == AfterTick(w, t)
      changed == t.changed \cap DOMAIN after.chunks
      told    == {c \in changed \cap interest : Sent(after, c)}
      m       == Mirrored(after, changed, t.removed)
  IN /\ Q \in SUBSET Pausable
     /\ S \in Reapable(m)
     /\ gone \in Orders(t.removed) /\ news \in Orders(told) /\ reaped \in Orders(S)
     /\ world' = after
     /\ mirror' = Restrict(m, DOMAIN m \ S)
     /\ haunted' = haunted \ (changed \cup t.removed \cup S)
     /\ Order(Reap(S))
     /\ Send(Reaps(gone) \o Deltas(after, news) \o <<Sync(told)>> \o Reaps(reaped))
     /\ assured' = (assured \ Disturbed(w.chunks)) \cup told \cup (t.removed \cap interest)

LEMMA TickIs ==
  ASSUME Tick
  PROVE  /\ \E Q, S, gone, news, reaped : TickOf(Q, S, gone, news, reaped)
         /\ UNCHANGED <<subscribed, interest, owned, outbox, client_vars, commands, looks>>
         /\ Ready
  <1>1. PICK Q \in SUBSET Pausable :
          LET w       == Pause(world, Q)
              t       == TickInto(w)
              after   == AfterTick(w, t)
              changed == t.changed \cap DOMAIN after.chunks
              told    == {c \in changed \cap interest : Sent(after, c)}
              m       == Mirrored(after, changed, t.removed)
          IN /\ world' = after
             /\ \E S \in Reapable(m) :
                  /\ mirror' = Restrict(m, DOMAIN m \ S)
                  /\ haunted' = haunted \ (changed \cup t.removed \cup S)
                  /\ Order(Reap(S))
                  /\ \E gone \in Orders(t.removed), news \in Orders(told), reaped \in Orders(S) :
                       Send(Reaps(gone) \o Deltas(after, news) \o <<Sync(told)>> \o Reaps(reaped))
             /\ assured' = (assured \ Disturbed(w.chunks)) \cup told \cup (t.removed \cap interest)
    BY DEF Tick
  <1> DEFINE w       == Pause(world, Q)
             t       == TickInto(w)
             after   == AfterTick(w, t)
             changed == t.changed \cap DOMAIN after.chunks
             told    == {c \in changed \cap interest : Sent(after, c)}
             m       == Mirrored(after, changed, t.removed)
  <1>2. PICK S \in Reapable(m) :
          /\ mirror' = Restrict(m, DOMAIN m \ S)
          /\ haunted' = haunted \ (changed \cup t.removed \cup S)
          /\ Order(Reap(S))
          /\ \E gone \in Orders(t.removed), news \in Orders(told), reaped \in Orders(S) :
               Send(Reaps(gone) \o Deltas(after, news) \o <<Sync(told)>> \o Reaps(reaped))
    BY <1>1
  <1>3. PICK gone \in Orders(t.removed), news \in Orders(told), reaped \in Orders(S) :
          Send(Reaps(gone) \o Deltas(after, news) \o <<Sync(told)>> \o Reaps(reaped))
    BY <1>2
  <1>4. /\ world' = after
        /\ assured' = (assured \ Disturbed(w.chunks)) \cup told \cup (t.removed \cap interest)
    BY <1>1
  <1>5. TickOf(Q, S, gone, news, reaped)
    BY <1>2, <1>3, <1>4 DEF TickOf
  <1> HIDE DEF w, t, after, changed, told, m
  <1>6. /\ UNCHANGED <<subscribed, interest, owned, outbox, client_vars, commands, looks>>
        /\ Ready
    BY DEF Tick
  <1> QED BY <1>5, <1>6

LEMMA TickServer ==
  ASSUME ServerInv, MailInv, CacheInv, Tick
  PROVE  ServerEffect
  <1>1. PICK Q, S, gone, news, reaped : TickOf(Q, S, gone, news, reaped)
    BY TickIs
  <1>2. interest' = interest /\ subscribed' = subscribed
    BY TickIs
  <1> DEFINE w       == Pause(world, Q)
             t       == TickInto(w)
             after   == AfterTick(w, t)
             changed == t.changed \cap DOMAIN after.chunks
             told    == {c \in changed \cap interest : Sent(after, c)}
             m       == Mirrored(after, changed, t.removed)
             lost    == assured \ Disturbed(w.chunks)
  <1>3. /\ Q \in SUBSET Pausable /\ S \in Reapable(m)
        /\ gone \in Orders(t.removed) /\ news \in Orders(told) /\ reaped \in Orders(S)
        /\ world' = after
        /\ mirror' = Restrict(m, DOMAIN m \ S)
        /\ haunted' = haunted \ (changed \cup t.removed \cup S)
        /\ Order(Reap(S))
        /\ assured' = lost \cup told \cup (t.removed \cap interest)
    BY <1>1 DEF TickOf
  <1>4. Send(Reaps(gone) \o Deltas(after, news) \o <<Sync(told)>> \o Reaps(reaped))
    BY <1>1 DEF TickOf
  <1>5. WorldType(world) /\ Apart(world) /\ Solo(world) /\ IsFiniteSet(Present(world)) /\ MirrorInv
    BY DEF ServerInv
  <1>6. /\ \A q \in Q : MayPause(world, q) /\ \E c : q.members = {c}
        /\ \A q, r \in Q : q # r => q.members \cap r.members = {}
    BY <1>3, <1>5, PausableMay
  <1>7. WorldType(w) /\ Apart(w) /\ Present(w) = Present(world) /\ Solo(w)
    BY <1>5, <1>6, PauseOK, PausePresent
  <1>8. lost \subseteq interest
    BY DEF CacheInv
  <1> HIDE DEF w, lost
  <1>9. WorldType(after) /\ Apart(after)
    BY <1>7, TickOK
  <1>10. /\ IsFiniteSet(Present(after)) /\ Solo(after)
         /\ IsFiniteSet(t.removed) /\ t.removed \subseteq ChunkCoord
         /\ t.removed \cap Present(after) = {}
         /\ Present(world) \ Present(after) \subseteq t.removed
    BY <1>5, <1>7, TickPresent
  <1>11. /\ changed \subseteq DOMAIN after.chunks /\ IsFiniteSet(changed)
         /\ told \subseteq changed /\ told \subseteq interest /\ told \subseteq Seen /\ IsFiniteSet(told)
    <2>1. changed \subseteq DOMAIN after.chunks /\ told \subseteq changed /\ told \subseteq interest
      OBVIOUS
    <2> HIDE DEF changed, told, after
    <2>2. changed \subseteq Present(after)
      BY <2>1 DEF Present
    <2>3. IsFiniteSet(changed)
      BY <1>10, <2>2, FS_Subset
    <2>4. IsFiniteSet(told)
      BY <2>1, <2>3, FS_Subset
    <2> QED BY <2>1, <2>3, <2>4 DEF ServerInv
  <1> HIDE DEF t, after, changed, told
  <1>12. /\ DOMAIN m = (DOMAIN mirror \ t.removed) \cup changed /\ m \in [DOMAIN m -> Rows]
         /\ DOMAIN m \subseteq ChunkCoord /\ IsFiniteSet(DOMAIN m)
    BY <1>5, <1>9, <1>11, MirroredIs, ZenonT(60)
  <1> HIDE DEF m
  <1>13. S \subseteq DOMAIN m /\ \A c \in S : c \in ChunkCoord /\ ~InRegion(c) /\ c \notin interest
    BY <1>3, <1>12 DEF Reapable
  <1>14. DOMAIN mirror' = DOMAIN m \ S /\ mirror' \in [DOMAIN mirror' -> Rows]
    BY <1>3, <1>12 DEF Restrict
  <1>15. MirrorInv'
    <2>1. DOMAIN mirror' \subseteq ChunkCoord /\ IsFiniteSet(DOMAIN mirror')
      BY <1>12, <1>14, FS_Subset
    <2>2. haunted' \subseteq DOMAIN mirror'
      BY <1>3, <1>5, <1>12, <1>14 DEF MirrorInv
    <2>3. DOMAIN mirror' \subseteq Present(world') \cup haunted'
      <3> SUFFICES ASSUME NEW c \in DOMAIN mirror', c \notin haunted' PROVE c \in Present(after)
        BY <1>3
      <3>1. CASE c \in changed
        BY <1>11, <3>1 DEF Present
      <3>2. CASE c \notin changed
        <4>1. c \in DOMAIN mirror /\ c \notin t.removed /\ c \notin S
          BY <1>12, <1>14, <3>2
        <4>2. c \notin haunted
          BY <1>3, <3>2, <4>1
        <4>3. c \in Present(world)
          BY <1>5, <4>1, <4>2 DEF MirrorInv
        <4> QED BY <1>10, <4>1, <4>3
      <3> QED BY <3>1, <3>2
    <2> QED BY <1>14, <2>1, <2>2, <2>3 DEF MirrorInv
  <1>16. sim_cmd' \in Seq(SimMail)
    <2>1. Reap(S) \in SimMail
      BY <1>13 DEF Reap, SimMail
    <2> QED BY <1>3, <2>1, OrderType DEF ServerInv
  <1>17. ServerInv' /\ assured' \subseteq interest'
    BY <1>2, <1>3, <1>8, <1>9, <1>10, <1>11, <1>15, <1>16 DEF ServerInv
  <1>18. /\ gone \in Seq(t.removed) /\ Range(gone) = t.removed /\ news \in Seq(told)
         /\ reaped \in Seq(S) /\ Range(reaped) = S
    <2>1. IsFiniteSet(S)
      BY <1>12, <1>13, FS_Subset
    <2> QED BY <1>3, <1>10, <1>11, <2>1, OrdersAre
  <1> DEFINE M == DOMAIN mirror
             N == DOMAIN m
  <1>19. Honest(Reaps(gone), M, M \ t.removed)
    BY <1>10, <1>18, ReapsHonest
  <1>20. Honest(Deltas(after, news), M \ t.removed, N)
    <2>1. Carries(Deltas(after, news), told)
      <3>1. told \subseteq DOMAIN after.chunks
        BY <1>11
      <3> QED BY <1>9, <1>11, <1>18, <3>1, DeltasCarry
    <2>2. M \ t.removed \subseteq N /\ told \subseteq N
      BY <1>11, <1>12
    <2> QED BY <2>1, <2>2, CarriesHonest
  <1>21. Honest(<<Sync(told)>>, N, N)
    <2>1. Sync(told) \in Mail /\ \A k : ~IsReaped(Sync(told), k) /\ ~IsPut(Sync(told), k)
      BY <1>11 DEF Sync, Mail, IsReaped, IsPut
    <2> DEFINE e == Sync(told)
    <2> HIDE DEF e, Mail
    <2>2. e \in Mail /\ \A k : ~IsReaped(e, k) /\ ~IsPut(e, k)
      BY <2>1 DEF e
    <2>3. Carries(<<e>>, {})
      BY <2>2 DEF Carries
    <2>4. Honest(<<e>>, N, N)
      BY <2>3, CarriesHonest
    <2> QED BY <2>4 DEF e
  <1>22. Honest(Reaps(reaped), N, N \ S)
    <2>1. S \subseteq ChunkCoord
      BY <1>13
    <2> QED BY <1>18, <2>1, ReapsHonest
  <1> HIDE DEF M, N
  <1>23. Honest(Reaps(gone) \o Deltas(after, news), M, N)
    BY <1>19, <1>20, HonestBoth
  <1>24. Honest(Reaps(gone) \o Deltas(after, news) \o <<Sync(told)>>, M, N)
    BY <1>21, <1>23, HonestBoth
  <1>25. Honest(Reaps(gone) \o Deltas(after, news) \o <<Sync(told)>> \o Reaps(reaped), M, N \ S)
    BY <1>22, <1>24, HonestBoth
  <1>26. N \ S = DOMAIN mirror' /\ M = DOMAIN mirror
    BY <1>14 DEF M, N
  <1> QED BY <1>4, <1>17, <1>25, <1>26 DEF ServerEffect

\* The head of what is sent to the hub, and what follows it.
LEMMA OutboxHead ==
  ASSUME MailInv, outbox # << >>, NEW t, t = Tail(outbox)
  PROVE  /\ Head(outbox) \in HubMail /\ Head(outbox) = outbox[1]
         /\ t \in Seq(HubMail)
         /\ Len(outbox) \in Nat \ {0} /\ DOMAIN outbox = 1..Len(outbox)
         /\ DOMAIN t = 1..(Len(outbox) - 1) /\ Len(t) = Len(outbox) - 1
         /\ \A i \in 1..(Len(outbox) - 1) : t[i] = outbox[i + 1]
  <1>1. outbox \in Seq(HubMail)
    BY DEF MailInv
  <1> HIDE DEF HubMail
  <1> QED BY <1>1, HeadTailProperties, LenProperties

LEMMA SubscribeServer ==
  ASSUME ServerInv, MailInv, CacheInv, NEW S, S \subseteq Seen, IsFiniteSet(S), Subscribe(S),
         UNCHANGED <<world, subscribed, mirror, haunted>>
  PROVE  ServerEffect
  <1> DEFINE new   == S \ interest
             seed  == {c \in new \cap DOMAIN mirror : mirror[c] # EmptyRows \/ InRegion(c)}
             fresh == {c \in new : IF c \in seed THEN mirror[c] = Truth(c)
                                   ELSE c \notin DOMAIN mirror /\ Truth(c) = EmptyRows}
  <1>1. /\ interest' = interest \cup S
        /\ Order(SubscribeTo(new))
        /\ assured' = assured \cup fresh
    BY DEF Subscribe
  <1>2. PICK first \in Orders(seed) : Send([i \in DOMAIN first |-> ChunkState(first[i], mirror[first[i]])])
    BY DEF Subscribe
  <1>3. /\ interest \subseteq Seen /\ IsFiniteSet(interest) /\ sim_cmd \in Seq(SimMail) /\ MirrorInv
    BY DEF ServerInv
  <1>4. new \subseteq S /\ seed \subseteq new /\ seed \subseteq DOMAIN mirror /\ fresh \subseteq new
    OBVIOUS
  <1> HIDE DEF new, seed, fresh
  <1>5. new \subseteq Seen /\ seed \subseteq Seen /\ IsFiniteSet(seed)
    <2>1. seed \subseteq S
      BY <1>4
    <2> QED BY <1>4, <2>1, FS_Subset
  <1>6. sim_cmd' \in Seq(SimMail)
    <2>1. SubscribeTo(new) \in SimMail
      BY <1>5 DEF SubscribeTo, SimMail
    <2> QED BY <1>1, <1>3, <2>1, OrderType
  <1>7. MirrorInv'
    BY <1>3 DEF MirrorInv
  <1>8. ServerInv'
    <2>1. IsFiniteSet(interest \cup S)
      BY <1>3, FS_Union
    <2> QED BY <1>1, <1>3, <1>6, <1>7, <2>1 DEF ServerInv
  <1>9. assured' \subseteq interest'
    BY <1>1, <1>4 DEF CacheInv
  <1> DEFINE states == [i \in DOMAIN first |-> ChunkState(first[i], mirror[first[i]])]
  <1>10. Carries(states, seed)
    <2>1. first \in Seq(seed)
      BY <1>5, OrdersAre
    <2>2. mirror \in [DOMAIN mirror -> Rows]
      BY <1>3 DEF MirrorInv
    <2> QED BY <1>4, <1>5, <2>1, <2>2, StatesCarry
  <1> HIDE DEF states
  <1>11. Honest(states, DOMAIN mirror, DOMAIN mirror')
    BY <1>4, <1>10, CarriesHonest
  <1>12. Send(states)
    BY <1>2 DEF states
  <1> QED BY <1>8, <1>9, <1>11, <1>12 DEF ServerEffect

LEMMA UnsubscribeServer ==
  ASSUME ServerInv, MailInv, CacheInv, NEW S, Unsubscribe(S), UNCHANGED <<world, subscribed, mirror, haunted>>
  PROVE  ServerEffect
  <1>1. /\ interest' = interest \ S /\ assured' = assured \ S /\ UNCHANGED inbox
        /\ Order(Forget(S \cap interest))
    BY DEF Unsubscribe
  <1>2. IsFiniteSet(interest \ S)
    BY FS_Difference DEF ServerInv
  <1>3. sim_cmd' \in Seq(SimMail)
    <2>1. Forget(S \cap interest) \in SimMail
      BY DEF ServerInv, Forget, SimMail
    <2> QED BY <1>1, <2>1, OrderType DEF ServerInv
  <1>4. MirrorInv'
    BY DEF ServerInv, MirrorInv
  <1>5. ServerInv' /\ assured' \subseteq interest'
    BY <1>1, <1>2, <1>3, <1>4 DEF ServerInv, CacheInv
  <1> QED BY <1>1, <1>5, NothingSent DEF ServerEffect

LEMMA HubReceiveServer ==
  ASSUME ServerInv, MailInv, CacheInv, HubReceive
  PROVE  ServerEffect
  <1> DEFINE m == Head(outbox)
  <1>1. m \in HubMail
    BY OutboxHead DEF HubReceive
  <1>2. m.coords \subseteq Seen /\ IsFiniteSet(m.coords)
    BY <1>1 DEF HubMail
  <1>3. UNCHANGED <<world, subscribed, mirror, haunted>>
    BY DEF HubReceive, sim_vars
  <1>4. CASE m.type = "Subscribe"
    <2>1. Subscribe(m.coords)
      BY <1>4 DEF HubReceive
    <2> HIDE DEF m
    <2> QED BY <1>2, <1>3, <2>1, SubscribeServer
  <1>5. CASE m.type # "Subscribe"
    <2>1. Unsubscribe(m.coords)
      BY <1>5 DEF HubReceive
    <2> HIDE DEF m
    <2> QED BY <1>3, <2>1, UnsubscribeServer
  <1> QED BY <1>4, <1>5

-----------------------------------------------------------------------------
(* What is asked for.  A request more in the outbox, or one less. *)

LEMMA AskedMore ==
  ASSUME NEW o \in Seq(HubMail), NEW table, NEW m \in HubMail, NEW c
  PROVE  Asked(Append(o, m), table, c)
           <=> IF c \in m.coords THEN m.type = "Subscribe" ELSE Asked(o, table, c)
  <1> DEFINE t == Append(o, m)
             n == Len(o)
  <1>1. /\ n \in Nat /\ DOMAIN o = 1..n /\ DOMAIN t = 1..(n + 1) /\ Len(t) = n + 1
        /\ t[n + 1] = m /\ \A i \in 1..n : t[i] = o[i]
    <2> HIDE DEF HubMail
    <2> QED OBVIOUS
  <1> HIDE DEF t, n
  <1>2. CASE c \in m.coords
    <2>1. Asked(t, table, c) => m.type = "Subscribe"
      <3> SUFFICES ASSUME NEW i \in DOMAIN t, t[i].type = "Subscribe",
                          \A j \in (i + 1)..Len(t) : c \notin t[j].coords
                   PROVE  m.type = "Subscribe"
        <4>1. n + 1 \in DOMAIN t /\ c \in t[n + 1].coords
          BY <1>1, <1>2
        <4> QED BY <4>1 DEF Asked
      <3>1. i = n + 1
        <4> SUFFICES ASSUME i # n + 1 PROVE FALSE
          OBVIOUS
        <4>1. n + 1 \in (i + 1)..Len(t)
          BY <1>1
        <4> QED BY <1>1, <1>2, <4>1
      <3> QED BY <1>1, <3>1
    <2>2. m.type = "Subscribe" => Asked(t, table, c)
      <3>1. n + 1 \in DOMAIN t /\ \A j \in (n + 1 + 1)..Len(t) : c \notin t[j].coords
        BY <1>1
      <3> QED BY <1>1, <1>2, <3>1 DEF Asked
    <2> QED BY <1>2, <2>1, <2>2 DEF t
  <1>3. CASE c \notin m.coords
    <2>1. ASSUME NEW i \in 1..n
          PROVE  (\A j \in (i + 1)..Len(t) : c \notin t[j].coords) <=> (\A j \in (i + 1)..n : c \notin o[j].coords)
      <3>1. \A j \in (i + 1)..n : j \in (i + 1)..Len(t) /\ t[j] = o[j]
        BY <1>1
      <3>2. \A j \in (i + 1)..Len(t) : j = n + 1 \/ j \in (i + 1)..n
        BY <1>1
      <3> QED BY <1>1, <1>3, <3>1, <3>2
    <2>2. (\A i \in DOMAIN t : c \notin t[i].coords) <=> (\A i \in DOMAIN o : c \notin o[i].coords)
      <3>1. \A i \in DOMAIN t : i = n + 1 \/ i \in 1..n
        BY <1>1
      <3>2. \A i \in 1..n : i \in DOMAIN t
        BY <1>1
      <3> QED BY <1>1, <1>3, <3>1, <3>2
    <2>3. \A i \in DOMAIN t : c \in t[i].coords => i \in 1..n
      BY <1>1, <1>3
    <2>4. Asked(t, table, c) <=> Asked(o, table, c)
      <3>1. \A i \in 1..n : i \in DOMAIN t /\ i \in DOMAIN o /\ t[i] = o[i]
        BY <1>1
      <3>2. \A i \in 1..n : /\ t[i].type = "Subscribe" /\ c \in t[i].coords /\ (\A j \in (i + 1)..Len(t) : c \notin t[j].coords)
                            <=> /\ o[i].type = "Subscribe" /\ c \in o[i].coords /\ \A j \in (i + 1)..n : c \notin o[j].coords
        BY <2>1, <3>1
      <3>3. DOMAIN o = 1..n /\ n = Len(o)
        BY <1>1 DEF n
      <3> QED BY <2>2, <2>3, <3>1, <3>2, <3>3, SMTT(30) DEF Asked
    <2> QED BY <1>3, <2>4 DEF t
  <1> QED BY <1>2, <1>3

LEMMA AskedLess ==
  ASSUME MailInv, outbox # << >>, NEW table, NEW c,
         NEW m, m = Head(outbox), NEW now,
         now = IF m.type = "Subscribe" THEN table \cup m.coords ELSE table \ m.coords
  PROVE  Asked(Tail(outbox), now, c) <=> Asked(outbox, table, c)
  <1> DEFINE t == Tail(outbox)
             n == Len(outbox)
  <1>1. /\ m = outbox[1] /\ n \in Nat \ {0} /\ DOMAIN outbox = 1..n
        /\ DOMAIN t = 1..(n - 1) /\ Len(t) = n - 1
        /\ \A i \in 1..(n - 1) : t[i] = outbox[i + 1]
    BY OutboxHead
  <1> HIDE DEF t, n
  <1>2. \A i \in 2..n : i - 1 \in 1..(n - 1) /\ t[i - 1] = outbox[i]
    BY <1>1
  <1>3. (\A i \in DOMAIN t : c \notin t[i].coords) <=> (\A i \in 2..n : c \notin outbox[i].coords)
    <2>1. \A i \in DOMAIN t : i + 1 \in 2..n /\ t[i] = outbox[i + 1]
      BY <1>1
    <2> QED BY <1>1, <1>2, <2>1
  <1>4. ASSUME NEW i \in 1..(n - 1)
        PROVE  (\A j \in (i + 1)..Len(t) : c \notin t[j].coords)
                 <=> (\A j \in (i + 2)..n : c \notin outbox[j].coords)
    <2>1. \A j \in (i + 1)..Len(t) : j + 1 \in (i + 2)..n /\ t[j] = outbox[j + 1]
      BY <1>1
    <2>2. \A j \in (i + 2)..n : j - 1 \in (i + 1)..Len(t) /\ t[j - 1] = outbox[j]
      BY <1>1
    <2> QED BY <2>1, <2>2
  <1> DEFINE Last1(i) == /\ outbox[i].type = "Subscribe" /\ c \in outbox[i].coords
                         /\ \A j \in (i + 1)..n : c \notin outbox[j].coords
             LastT(i) == /\ t[i].type = "Subscribe" /\ c \in t[i].coords
                         /\ \A j \in (i + 1)..Len(t) : c \notin t[j].coords
  <1>5. ASSUME NEW i \in 1..(n - 1)
        PROVE  LastT(i) <=> Last1(i + 1)
    <2>1. t[i] = outbox[i + 1] /\ (i + 1) + 1 = i + 2
      BY <1>1
    <2> QED BY <1>4, <2>1
  <1>6. Asked(t, now, c) <=> (\E i \in 1..(n - 1) : LastT(i)) \/ (c \in now /\ \A i \in 2..n : c \notin outbox[i].coords)
    BY <1>1, <1>3 DEF Asked
  <1>7. Asked(outbox, table, c) <=> (\E i \in 1..n : Last1(i)) \/ (c \in table /\ \A i \in 1..n : c \notin outbox[i].coords)
    BY <1>1 DEF Asked, n
  <1>8. (\E i \in 2..n : Last1(i)) <=> (\E i \in 1..(n - 1) : LastT(i))
    <2>1. \A i \in 1..(n - 1) : i + 1 \in 2..n
      BY <1>1
    <2>2. \A i \in 2..n : i - 1 \in 1..(n - 1) /\ (i - 1) + 1 = i
      BY <1>1
    <2> HIDE DEF Last1, LastT
    <2> QED BY <1>5, <2>1, <2>2
  <1>9. (\E i \in 1..n : Last1(i)) <=> Last1(1) \/ \E i \in 2..n : Last1(i)
    <2>1. \A i \in 1..n : i = 1 \/ i \in 2..n
      BY <1>1
    <2>2. 1 \in 1..n /\ \A i \in 2..n : i \in 1..n
      BY <1>1
    <2> HIDE DEF Last1
    <2> QED BY <2>1, <2>2
  <1>10. Last1(1) <=> m.type = "Subscribe" /\ c \in m.coords /\ \A i \in 2..n : c \notin outbox[i].coords
    BY <1>1
  <1>11. (\A i \in 1..n : c \notin outbox[i].coords) <=> c \notin m.coords /\ \A i \in 2..n : c \notin outbox[i].coords
    <2>1. \A i \in 1..n : i = 1 \/ i \in 2..n
      BY <1>1
    <2>2. 1 \in 1..n /\ \A i \in 2..n : i \in 1..n
      BY <1>1
    <2> QED BY <1>1, <2>1, <2>2
  <1>12. c \in now <=> IF m.type = "Subscribe" THEN c \in table \/ c \in m.coords ELSE c \in table /\ c \notin m.coords
    OBVIOUS
  <1> HIDE DEF Last1, LastT
  <1> QED BY <1>6, <1>7, <1>8, <1>9, <1>10, <1>11, <1>12 DEF t

LEMMA AskedHub ==
  ASSUME ServerInv, MailInv, AskedInv, HubReceive
  PROVE  AskedInv'
  <1> DEFINE m == Head(outbox)
             now == IF m.type = "Subscribe" THEN interest \cup m.coords ELSE interest \ m.coords
  <1>1. /\ outbox # << >> /\ outbox' = Tail(outbox)
        /\ UNCHANGED <<connected, current>>
    BY DEF HubReceive, client_vars
  <1>2. interest' = now
    BY DEF HubReceive, Subscribe, Unsubscribe
  <1>3. \A c : Asked(outbox', interest', c) <=> Asked(outbox, interest, c)
    <2> HIDE DEF m
    <2>1. \A c : Asked(Tail(outbox), now, c) <=> Asked(outbox, interest, c)
      BY <1>1, AskedLess DEF m
    <2> QED BY <1>1, <1>2, <2>1
  <1> QED BY <1>1, <1>3 DEF AskedInv

LEMMA AskedPan ==
  ASSUME MailInv, AskedInv, OfflineInv, NEW next \in Views, Pan(next)
  PROVE  AskedInv' /\ outbox' \in Seq(HubMail)
  <1> DEFINE toSub   == next \ current
             toUnsub == current \ next
             u       == [type |-> "Unsubscribe", coords |-> toUnsub]
             s       == [type |-> "Subscribe", coords |-> toSub]
             us      == IF toUnsub = {} THEN << >> ELSE <<u>>
             ss      == IF toSub = {} THEN << >> ELSE <<s>>
             one     == IF toUnsub = {} THEN outbox ELSE Append(outbox, u)
             both    == IF toSub = {} THEN one ELSE Append(one, s)
  <1>1. /\ current' = next /\ connected' = connected /\ interest' = interest
        /\ outbox' = IF connected THEN (outbox \o us) \o ss ELSE outbox
    BY DEF Pan, Look, server_vars, sim_vars, hub_vars
  <1>2. u \in HubMail /\ s \in HubMail
    <2>1. toSub \subseteq Seen /\ IsFiniteSet(toSub)
      BY SeenType, FS_Subset
    <2>2. toUnsub \subseteq Seen /\ IsFiniteSet(toUnsub)
      <3>1. current \subseteq Seen /\ IsFiniteSet(current)
        BY SeenType, FS_EmptySet DEF MailInv
      <3> QED BY <3>1, FS_Subset
    <2> HIDE DEF toSub, toUnsub
    <2> QED BY <2>1, <2>2 DEF HubMail
  <1>3. outbox \in Seq(HubMail)
    BY DEF MailInv
  <1>4. u.coords = toUnsub /\ u.type = "Unsubscribe" /\ s.coords = toSub /\ s.type = "Subscribe"
    OBVIOUS
  <1> HIDE DEF u, s, HubMail
  <1>5. outbox \o us = one /\ one \in Seq(HubMail)
    <2>1. outbox \o << >> = outbox /\ outbox \o <<u>> = Append(outbox, u) /\ Append(outbox, u) \in Seq(HubMail)
      BY <1>2, <1>3, ConcatEmptySeq, AppendIsConcat, AppendProperties
    <2> QED BY <1>3, <2>1
  <1> HIDE DEF us, one
  <1>6. one \o ss = both /\ both \in Seq(HubMail)
    <2>1. one \o << >> = one /\ one \o <<s>> = Append(one, s) /\ Append(one, s) \in Seq(HubMail)
      BY <1>2, <1>5, ConcatEmptySeq, AppendIsConcat, AppendProperties
    <2> QED BY <1>5, <2>1
  <1> HIDE DEF ss, both
  <1>7. outbox' \in Seq(HubMail)
    BY <1>1, <1>3, <1>5, <1>6
  <1>8. ASSUME connected, NEW c PROVE Asked(outbox', interest', c) <=> c \in next
    <2>1. outbox' = both
      BY <1>1, <1>5, <1>6, <1>8
    <2>2. Asked(outbox, interest, c) <=> c \in current
      BY <1>8 DEF AskedInv
    <2>3. Asked(one, interest, c) <=> c \in current /\ c \notin toUnsub
      <3>1. Asked(Append(outbox, u), interest, c)
              <=> IF c \in u.coords THEN u.type = "Subscribe" ELSE Asked(outbox, interest, c)
        BY <1>2, <1>3, AskedMore
      <3>2. CASE toUnsub = {}
        BY <2>2, <3>2 DEF one
      <3>3. CASE toUnsub # {}
        <4>1. one = Append(outbox, u)
          BY <3>3 DEF one
        <4> QED BY <1>4, <2>2, <3>1, <4>1
      <3> QED BY <3>2, <3>3
    <2>4. Asked(both, interest, c) <=> c \in toSub \/ (c \in current /\ c \notin toUnsub)
      <3>1. Asked(Append(one, s), interest, c)
              <=> IF c \in s.coords THEN s.type = "Subscribe" ELSE Asked(one, interest, c)
        BY <1>2, <1>5, AskedMore
      <3>2. CASE toSub = {}
        BY <2>3, <3>2 DEF both
      <3>3. CASE toSub # {}
        <4>1. both = Append(one, s)
          BY <3>3 DEF both
        <4> QED BY <1>4, <2>3, <3>1, <4>1
      <3> QED BY <3>2, <3>3
    <2> QED BY <1>1, <2>1, <2>4
  <1>9. AskedInv'
    BY <1>1, <1>8 DEF AskedInv
  <1> QED BY <1>7, <1>9

-----------------------------------------------------------------------------
(* The cache. *)

LEMMA Capacity ==
  ASSUME MailInv
  PROVE  Cardinality(current) + CACHE_BUFFER \in Nat
  <1>1. IsFiniteSet(current)
    BY SeenType, FS_EmptySet DEF MailInv
  <1>2. Cardinality(current) \in Nat
    BY <1>1, FS_CardinalityType
  <1> QED BY <1>2, ClientAssumption

LEMMA AppendOnce ==
  ASSUME NEW o \in Seq(Seen), Once(o), NEW c \in Seen, c \notin Range(o)
  PROVE  /\ Append(o, c) \in Seq(Seen)
         /\ Once(Append(o, c))
         /\ Range(Append(o, c)) = Range(o) \cup {c}
  <1> DEFINE t == Append(o, c)
             n == Len(o)
  <1>1. /\ t \in Seq(Seen) /\ n \in Nat /\ DOMAIN o = 1..n /\ DOMAIN t = 1..(n + 1)
        /\ t[n + 1] = c /\ \A i \in 1..n : t[i] = o[i]
    OBVIOUS
  <1> HIDE DEF t, n
  <1>2. \A i \in DOMAIN o : o[i] # c
    BY DEF Range
  <1>3. Once(t)
    BY <1>1, <1>2 DEF Once
  <1>4. Range(t) = Range(o) \cup {c}
    <2>1. \A i \in DOMAIN t : t[i] \in Range(o) \cup {c}
      BY <1>1 DEF Range
    <2>2. \A i \in DOMAIN o : o[i] \in Range(t)
      BY <1>1 DEF Range
    <2>3. c \in Range(t)
      <3>1. n + 1 \in DOMAIN t
        BY <1>1
      <3> QED BY <1>1, <3>1 DEF Range
    <2> QED BY <2>1, <2>2, <2>3 DEF Range
  <1> QED BY <1>1, <1>3, <1>4 DEF t

LEMMA RemainingIs ==
  ASSUME NEW f, f \in [DOMAIN f -> Rows], NEW o, Range(o) \subseteq DOMAIN f, Remaining(f, o)
  PROVE  order' = o /\ DOMAIN cache' = Range(o) /\ cache' \in [DOMAIN cache' -> Rows]
  <1>1. order' = o /\ cache' = [k \in Range(o) |-> f[k]]
    BY DEF Remaining, Restrict
  <1> HIDE DEF Rows
  <1> QED BY <1>1

LEMMA InboxHead ==
  ASSUME MailInv, NEW type, Message(type)
  PROVE  /\ inbox # << >> /\ inbox' = Tail(inbox) /\ inbox' \in Seq(Mail)
         /\ Head(inbox) \in Mail /\ Head(inbox).type = type
         /\ UNCHANGED <<server_vars, world, interest, mirror, outbox, connected, current>>
  <1>1. inbox \in Seq(Mail)
    BY DEF MailInv
  <1>2. inbox # << >> /\ inbox' = Tail(inbox) /\ Head(inbox).type = type
        /\ UNCHANGED <<server_vars, world, interest, mirror, outbox, connected, current>>
    BY DEF Message, server_vars, sim_vars, hub_vars
  <1> HIDE DEF Mail
  <1> QED BY <1>1, <1>2, HeadTailProperties

\* A step of the client alone.
LEMMA ServerSame ==
  ASSUME ServerInv, UNCHANGED server_vars
  PROVE  ServerInv' /\ UNCHANGED <<world, interest, mirror>>
  BY DEF ServerInv, MirrorInv, server_vars, sim_vars, hub_vars

LEMMA MailIs ==
  ASSUME NEW m \in Mail
  PROVE  /\ m.type \in {"ChunkState", "ChunkDelta"} => m.coord \in Seen /\ m.rows \in Rows
         /\ m.type = "EditApplied" => m.x \in Idx /\ m.y \in Idx
  BY DEF Mail

LEMMA PutCache ==
  ASSUME MailInv, CacheInv, NEW c \in Seen, NEW rows \in Rows, Put(c, rows),
         UNCHANGED <<interest, current>>, updated' \subseteq Seen
  PROVE  CacheInv' /\ DOMAIN cache' \subseteq DOMAIN cache \cup {c}
  <1> DEFINE s == Append(Without(order, {c}), c)
             n == Cardinality(current) + CACHE_BUFFER
             o == Evicted(s, n)
             f == [k \in DOMAIN cache \cup {c} |-> IF k = c THEN rows ELSE cache[k]]
  <1>1. Remaining(f, o) /\ assured' = assured \ ((DOMAIN cache \cup {c}) \ Range(o))
    BY DEF Put
  <1>2. /\ Without(order, {c}) \in Seq(Seen)
        /\ Once(Without(order, {c}))
        /\ Range(Without(order, {c})) = DOMAIN cache \ {c}
    BY WithoutIs DEF CacheInv
  <1>3. s \in Seq(Seen) /\ Once(s) /\ Range(s) = DOMAIN cache \cup {c}
    <2> DEFINE q == Without(order, {c})
    <2> HIDE DEF q
    <2>1. q \in Seq(Seen) /\ Once(q) /\ c \notin Range(q) /\ Range(q) = DOMAIN cache \ {c}
      BY <1>2 DEF q
    <2>2. Append(q, c) \in Seq(Seen) /\ Once(Append(q, c)) /\ Range(Append(q, c)) = Range(q) \cup {c}
      BY <2>1, AppendOnce
    <2> QED BY <2>1, <2>2 DEF q
  <1>4. n \in Nat
    BY Capacity
  <1> HIDE DEF s, n
  <1>5. o \in Seq(Seen) /\ Len(o) <= n /\ Range(o) \subseteq DOMAIN cache \cup {c} /\ Once(o)
    BY <1>3, <1>4, EvictedIs
  <1>6. f \in [DOMAIN f -> Rows] /\ DOMAIN f = DOMAIN cache \cup {c}
    <2> HIDE DEF Rows
    <2> QED BY DEF CacheInv
  <1> HIDE DEF f, o
  <1>7. order' = o /\ DOMAIN cache' = Range(o) /\ cache' \in [DOMAIN cache' -> Rows]
    BY <1>1, <1>5, <1>6, RemainingIs
  <1>8. assured' \subseteq interest'
    BY <1>1 DEF CacheInv
  <1> QED BY <1>5, <1>7, <1>8 DEF CacheInv, n

\* A cached chunk is a chunk, and stays one when it is stepped.
LEMMA EntryType ==
  ASSUME CacheInv, NEW c \in DOMAIN cache
  PROVE  Entry(c) \in Chunk
  <1>1. cache[c] \in Rows
    BY DEF CacheInv
  <1>2. Mask(c) \in Rows
    BY DEF Mask, Rows, Row
  <1>3. [y \in Idx |-> cache[c][y] \cap Mask(c)[y]] \in Rows
    BY <1>1 DEF Rows, Row
  <1> QED BY <1>1, <1>2, <1>3 DEF Entry, Chunk, Frozen

LEMMA StepCacheType ==
  ASSUME CacheInv
  PROVE  StepCache \in [DOMAIN cache -> Rows]
  <1> DEFINE edges == EdgesOf(Entries)
  <1>1. \A k \in DOMAIN edges : edges[k] \in EdgeBundle
    <2>1. DOMAIN edges = DOMAIN cache /\ \A k \in DOMAIN cache : edges[k] = Edges(Entry(k))
      BY DEF EdgesOf, Entries
    <2> HIDE DEF edges
    <2> QED BY <2>1, EntryType, EdgesType
  <1> HIDE DEF edges
  <1>2. ASSUME NEW c \in DOMAIN cache
        PROVE  cache[c] \in Rows /\ Step(Entry(c), Halo(edges, c)).rows \in Rows
    <2>1. Entry(c) \in Chunk /\ Halo(edges, c) \in EdgeBundle
      BY <1>1, EntryType, HaloType
    <2>2. Step(Entry(c), Halo(edges, c)) \in Chunk
      BY <2>1, StepType
    <2> HIDE DEF Rows
    <2> QED BY <2>2 DEF Chunk, CacheInv
  <1>3. StepCache = [c \in DOMAIN cache |-> IF c \in updated THEN cache[c] ELSE Step(Entry(c), Halo(edges, c)).rows]
    BY DEF StepCache, edges
  <1> HIDE DEF Rows
  <1> QED BY <1>2, <1>3

LEMMA DropCache ==
  ASSUME MailInv, MailInv', CacheInv, NEW S, NEW o \in Seq(Seen), Once(o), Range(o) \subseteq DOMAIN cache,
         Len(o) <= Cardinality(current') + CACHE_BUFFER,
         Remaining(cache, Without(o, S)), updated' \subseteq updated, assured' \subseteq assured, interest' = interest
  PROVE  CacheInv' /\ DOMAIN cache' \subseteq DOMAIN cache \ S
  <1> DEFINE q == Without(o, S)
  <1>1. q \in Seq(Seen) /\ Len(q) <= Len(o) /\ Range(q) = Range(o) \ S /\ Once(q)
    BY WithoutIs
  <1> HIDE DEF q
  <1>2. order' = q /\ DOMAIN cache' = Range(q) /\ cache' \in [DOMAIN cache' -> Rows]
    <2>1. cache \in [DOMAIN cache -> Rows] /\ Range(q) \subseteq DOMAIN cache /\ Remaining(cache, q)
      BY <1>1 DEF CacheInv, q
    <2> QED BY <2>1, RemainingIs
  <1>3. (Cardinality(current) + CACHE_BUFFER)' \in Nat
    <2>1. IsFiniteSet(current')
      BY SeenType, FS_EmptySet DEF MailInv
    <2>2. Cardinality(current') \in Nat
      BY <2>1, FS_CardinalityType
    <2> QED BY <2>2, ClientAssumption
  <1>4. Len(q) <= Cardinality(current') + CACHE_BUFFER
    <2>1. Len(q) \in Nat /\ Len(o) \in Nat
      BY <1>1
    <2> DEFINE n == Cardinality(current') + CACHE_BUFFER
    <2>2. n \in Nat
      BY <1>3
    <2> HIDE DEF n
    <2>3. Len(o) <= n
      BY DEF n
    <2>4. Len(q) <= n
      BY <1>1, <2>1, <2>2, <2>3
    <2> QED BY <2>4 DEF n
  <1> QED BY <1>1, <1>2, <1>4 DEF CacheInv

-----------------------------------------------------------------------------
(* The steps. *)

LEMMA ServerStep ==
  ASSUME ClientInv, ServerEffect, UNCHANGED client_vars, outbox' \in Seq(HubMail), AskedInv',
         ~connected => interest' = {} /\ outbox' = << >>
  PROVE  ClientInv'
  <1>1. PICK msgs : Honest(msgs, DOMAIN mirror, DOMAIN mirror') /\ Send(msgs)
    BY DEF ServerEffect
  <1>2. UNCHANGED <<connected, current, cache, order, updated>>
    BY DEF client_vars
  <1>3. MailInv /\ CacheInv /\ OfflineInv /\ HeldInv
    BY DEF ClientInv
  <1>4. inbox' \in Seq(Mail)
    <2>1. inbox \in Seq(Mail) /\ msgs \in Seq(Mail)
      BY <1>1, <1>3 DEF MailInv, Honest
    <2> HIDE DEF Mail
    <2>2. inbox \o msgs \in Seq(Mail)
      BY <2>1, ConcatProperties
    <2> QED BY <1>1, <2>1, <2>2 DEF Send
  <1>5. MailInv'
    BY <1>2, <1>3, <1>4 DEF MailInv
  <1>6. CacheInv'
    BY <1>2, <1>3 DEF CacheInv, ServerEffect
  <1>7. OfflineInv'
    BY <1>1, <1>2, <1>3 DEF OfflineInv, Send
  <1>8. HeldInv'
    BY <1>1, <1>2, <1>3, HeldMore
  <1> QED BY <1>5, <1>6, <1>7, <1>8 DEF ClientInv, ServerEffect

\* An action of the server that does not read a request.
LEMMA CommandStep ==
  ASSUME ClientInv, ServerEffect, UNCHANGED <<interest, outbox, client_vars>>
  PROVE  ClientInv'
  <1>1. UNCHANGED <<connected, current>>
    BY DEF client_vars
  <1>2. AskedInv'
    BY <1>1 DEF ClientInv, AskedInv
  <1>3. outbox' \in Seq(HubMail)
    BY DEF ClientInv, MailInv
  <1>4. ~connected => interest' = {} /\ outbox' = << >>
    BY DEF ClientInv, OfflineInv
  <1> QED BY <1>2, <1>3, <1>4, ServerStep

LEMMA MessageStep ==
  ASSUME ClientInv, NEW type, Message(type), CacheInv',
         \A c \in DOMAIN cache' : IsPut(Head(inbox), c) \/ (c \in DOMAIN cache /\ ~IsReaped(Head(inbox), c))
  PROVE  ClientInv'
  <1>1. MailInv /\ ServerInv /\ OfflineInv /\ AskedInv /\ HeldInv
    BY DEF ClientInv
  <1>2. /\ inbox # << >> /\ inbox' = Tail(inbox) /\ inbox' \in Seq(Mail)
        /\ UNCHANGED <<server_vars, world, interest, mirror, outbox, connected, current>>
    BY <1>1, InboxHead
  <1>3. MailInv'
    BY <1>1, <1>2 DEF MailInv
  <1>4. ServerInv'
    BY <1>1, <1>2, ServerSame
  <1>5. OfflineInv'
    BY <1>1, <1>2 DEF OfflineInv
  <1>6. AskedInv'
    BY <1>1, <1>2 DEF AskedInv
  <1>7. HeldInv'
    BY <1>1, <1>2, HeldLess
  <1> QED BY <1>3, <1>4, <1>5, <1>6, <1>7 DEF ClientInv

LEMMA StateStep ==
  ASSUME ClientInv, OnChunkState \/ OnChunkDelta
  PROVE  ClientInv'
  <1> DEFINE m == Head(inbox)
  <1>1. MailInv /\ CacheInv
    BY DEF ClientInv
  <1>2. PICK type \in {"ChunkState", "ChunkDelta"} : Message(type)
    BY DEF OnChunkState, OnChunkDelta
  <1>3. m \in Mail /\ m.type = type /\ UNCHANGED <<interest, current>>
    BY <1>1, <1>2, InboxHead
  <1>4. m.coord \in Seen /\ m.rows \in Rows /\ IsPut(m, m.coord)
    BY <1>3, MailIs DEF IsPut
  <1>5. Put(m.coord, m.rows) /\ updated' \subseteq updated \cup {m.coord}
    BY DEF OnChunkState, OnChunkDelta
  <1>6. updated' \subseteq Seen
    BY <1>1, <1>4, <1>5 DEF CacheInv
  <1> HIDE DEF m
  <1>7. CacheInv' /\ DOMAIN cache' \subseteq DOMAIN cache \cup {m.coord}
    BY <1>1, <1>3, <1>4, <1>5, <1>6, PutCache
  <1>8. \A c : ~IsReaped(m, c)
    BY <1>3 DEF IsReaped
  <1>9. \A c \in DOMAIN cache' : IsPut(m, c) \/ (c \in DOMAIN cache /\ ~IsReaped(m, c))
    BY <1>4, <1>7, <1>8
  <1> QED BY <1>2, <1>7, <1>9, MessageStep DEF m

LEMMA ReapedStep ==
  ASSUME ClientInv, OnReaped
  PROVE  ClientInv'
  <1> DEFINE m == Head(inbox)
  <1>1. MailInv /\ CacheInv
    BY DEF ClientInv
  <1>2. Message("Reaped") /\ Drop({m.coord}) /\ assured' = assured
    BY DEF OnReaped
  <1>3. /\ m \in Mail /\ m.type = "Reaped" /\ inbox' \in Seq(Mail)
        /\ UNCHANGED <<interest, current, outbox, connected>>
    BY <1>1, <1>2, InboxHead
  <1>4. MailInv'
    BY <1>1, <1>3 DEF MailInv
  <1>5. Remaining(cache, Without(order, {m.coord})) /\ updated' \subseteq updated
    BY <1>2 DEF Drop
  <1> HIDE DEF m
  <1>6. CacheInv' /\ DOMAIN cache' \subseteq DOMAIN cache \ {m.coord}
    <2>1. /\ order \in Seq(Seen) /\ Once(order) /\ Range(order) \subseteq DOMAIN cache
          /\ Len(order) <= Cardinality(current') + CACHE_BUFFER
      BY <1>1, <1>3 DEF CacheInv
    <2> QED BY <1>1, <1>2, <1>3, <1>4, <1>5, <2>1, DropCache
  <1>7. \A c \in DOMAIN cache' : c \in DOMAIN cache /\ ~IsReaped(m, c)
    BY <1>6 DEF IsReaped
  <1> QED BY <1>2, <1>6, <1>7, MessageStep DEF m

LEMMA AppliedStep ==
  ASSUME ClientInv, OnEditApplied
  PROVE  ClientInv'
  <1> DEFINE m == Head(inbox)
             New(old) == IF m.alive THEN old \cup {m.x} ELSE old \ {m.x}
  <1>1. MailInv /\ CacheInv
    BY DEF ClientInv
  <1>2. /\ Message("EditApplied") /\ UNCHANGED <<order, updated>>
        /\ assured' \subseteq assured
        /\ IF m.coord \in DOMAIN cache THEN cache' = [cache EXCEPT ![m.coord][m.y] = New(@)] ELSE cache' = cache
    BY DEF OnEditApplied
  <1>3. m \in Mail /\ m.type = "EditApplied" /\ UNCHANGED <<interest, current>>
    BY <1>1, <1>2, InboxHead
  <1>4. m.x \in Idx /\ m.y \in Idx
    BY <1>3, MailIs
  <1>5. \A c : ~IsReaped(m, c)
    BY <1>3 DEF IsReaped
  <1> HIDE DEF m
  <1>6. DOMAIN cache' = DOMAIN cache /\ cache' \in [DOMAIN cache -> Rows]
    <2>1. cache \in [DOMAIN cache -> Rows]
      BY <1>1 DEF CacheInv
    <2>2. \A r \in Row : New(r) \in Row
      BY <1>4 DEF Row
    <2> HIDE DEF New
    <2>3. CASE m.coord \in DOMAIN cache
      <3>1. cache[m.coord] \in [Idx -> Row]
        BY <2>1, <2>3 DEF Rows
      <3> DEFINE rows == [cache[m.coord] EXCEPT ![m.y] = New(cache[m.coord][m.y])]
      <3>2. rows \in Rows
        BY <1>4, <2>2, <3>1 DEF Rows
      <3>3. cache' = [cache EXCEPT ![m.coord] = rows]
        BY <1>2, <2>3
      <3> HIDE DEF Rows, rows
      <3> QED BY <2>1, <2>3, <3>2, <3>3
    <2> QED BY <1>2, <2>1, <2>3
  <1>7. CacheInv'
    BY <1>1, <1>2, <1>3, <1>6 DEF CacheInv
  <1>8. \A c \in DOMAIN cache' : c \in DOMAIN cache /\ ~IsReaped(m, c)
    BY <1>5, <1>6
  <1> QED BY <1>2, <1>7, <1>8, MessageStep DEF m

LEMMA SyncStep ==
  ASSUME ClientInv, OnSync
  PROVE  ClientInv'
  <1> DEFINE m == Head(inbox)
  <1>1. MailInv /\ CacheInv
    BY DEF ClientInv
  <1>2. /\ Message("Sync") /\ order' = order /\ updated' = {}
        /\ assured' \subseteq assured /\ cache' = StepCache
    BY DEF OnSync
  <1>3. m \in Mail /\ m.type = "Sync" /\ UNCHANGED <<interest, current>>
    BY <1>1, <1>2, InboxHead
  <1>4. \A c : ~IsReaped(m, c)
    BY <1>3 DEF IsReaped
  <1> HIDE DEF m
  <1>5. DOMAIN cache' = DOMAIN cache /\ cache' \in [DOMAIN cache -> Rows]
    BY <1>1, <1>2, StepCacheType
  <1>6. CacheInv'
    BY <1>1, <1>2, <1>3, <1>5 DEF CacheInv
  <1>7. \A c \in DOMAIN cache' : c \in DOMAIN cache /\ ~IsReaped(m, c)
    BY <1>4, <1>5
  <1> QED BY <1>2, <1>6, <1>7, MessageStep DEF m

LEMMA PanStep ==
  ASSUME ClientInv, NEW next \in Views, Pan(next)
  PROVE  ClientInv'
  <1> DEFINE n == Cardinality(next) + CACHE_BUFFER
             o == Evicted(order, n)
             toUnsub == current \ next
  <1>1. MailInv /\ CacheInv /\ ServerInv /\ OfflineInv /\ AskedInv /\ HeldInv
    BY DEF ClientInv
  <1>2. /\ current' = next /\ UNCHANGED <<server_vars, world, interest, mirror, inbox, connected>>
        /\ Remaining(cache, Without(o, toUnsub))
        /\ updated' \subseteq updated /\ assured' \subseteq assured
        /\ ~connected => outbox' = outbox
    BY DEF Pan, Look, server_vars, sim_vars, hub_vars
  <1>3. AskedInv' /\ outbox' \in Seq(HubMail)
    BY <1>1, AskedPan
  <1>4. MailInv'
    BY <1>1, <1>2, <1>3 DEF MailInv
  <1>5. n \in Nat
    <2>1. Cardinality(next) \in Nat
      BY SeenType, FS_CardinalityType
    <2> QED BY <2>1, ClientAssumption
  <1>6. o \in Seq(Seen) /\ Once(o) /\ Range(o) \subseteq DOMAIN cache /\ Len(o) <= n
    <2> HIDE DEF n
    <2> QED BY <1>1, <1>5, EvictedIs DEF CacheInv
  <1>7. CacheInv' /\ DOMAIN cache' \subseteq DOMAIN cache \ toUnsub
    <2>1. Len(o) <= Cardinality(current') + CACHE_BUFFER
      BY <1>2, <1>6
    <2> HIDE DEF o, n, toUnsub
    <2> QED BY <1>1, <1>2, <1>4, <1>6, <2>1, DropCache
  <1>8. ServerInv'
    BY <1>1, <1>2, ServerSame
  <1>9. OfflineInv'
    <2>1. CASE ~connected
      <3>1. DOMAIN cache' = {}
        BY <1>1, <1>7, <2>1 DEF OfflineInv, NoChunks
      <3>2. cache' = NoChunks
        BY <1>7, <3>1 DEF CacheInv, NoChunks
      <3> QED BY <1>1, <1>2, <2>1, <3>2 DEF OfflineInv
    <2> QED BY <1>2, <2>1 DEF OfflineInv
  <1>10. HeldInv'
    BY <1>1, <1>2, <1>7 DEF HeldInv, MayHold
  <1> QED BY <1>3, <1>4, <1>7, <1>8, <1>9, <1>10 DEF ClientInv

LEMMA CloseStep ==
  ASSUME ClientInv, Close
  PROVE  ClientInv'
  <1>1. /\ connected' = FALSE /\ interest' = {} /\ inbox' = << >> /\ outbox' = << >>
        /\ Remaining(NoChunks, << >>) /\ updated' = {} /\ assured' = {} /\ current' = {}
        /\ Order(Forget(interest)) /\ UNCHANGED <<world, subscribed, mirror, haunted>>
    BY DEF Close, Reset, sim_vars
  <1>2. Range(<< >>) = {}
    BY DEF Range
  <1>3. order' = << >> /\ cache' = NoChunks
    BY <1>1, <1>2 DEF Remaining, Restrict, NoChunks
  <1>4. ServerInv'
    <2>1. sim_cmd' \in Seq(SimMail)
      <3>1. Forget(interest) \in SimMail
        BY DEF ClientInv, ServerInv, Forget, SimMail
      <3> QED BY <1>1, <3>1, OrderType DEF ClientInv, ServerInv
    <2>2. MirrorInv'
      BY <1>1 DEF ClientInv, ServerInv, MirrorInv
    <2> QED BY <1>1, <2>1, <2>2, FS_EmptySet DEF ClientInv, ServerInv
  <1>5. MailInv'
    <2>1. << >> \in Seq(Mail) /\ << >> \in Seq(HubMail)
      BY EmptySeq
    <2> QED BY <1>1, <2>1 DEF MailInv
  <1>6. CacheInv'
    <2>1. /\ cache' \in [DOMAIN cache' -> Rows] /\ DOMAIN cache' = {}
      BY <1>3 DEF NoChunks
    <2>2. << >> \in Seq(Seen) /\ Once(<< >>) /\ Len(<< >>) = 0
      BY EmptySeq DEF Once
    <2>3. 0 <= Cardinality({}) + CACHE_BUFFER
      BY FS_EmptySet, ClientAssumption
    <2> QED BY <1>1, <1>2, <1>3, <2>1, <2>2, <2>3 DEF CacheInv
  <1>7. OfflineInv' /\ AskedInv'
    BY <1>1, <1>3 DEF OfflineInv, AskedInv
  <1>8. HeldInv'
    <2>1. DOMAIN inbox' = {} /\ DOMAIN cache' = {}
      BY <1>1, <1>3 DEF NoChunks
    <2> QED BY <2>1 DEF HeldInv, MayHold
  <1> QED BY <1>4, <1>5, <1>6, <1>7, <1>8 DEF ClientInv

LEMMA OpenStep ==
  ASSUME ClientInv, Open
  PROVE  ClientInv'
  <1>1. /\ ~connected /\ connected' = TRUE /\ current' = {}
        /\ UNCHANGED <<server_vars, world, interest, mirror, inbox, outbox, cache, order, updated, assured>>
    BY DEF Open, Reset, server_vars, sim_vars, hub_vars
  <1>2. interest = {} /\ outbox = << >> /\ cache = NoChunks
    BY <1>1 DEF ClientInv, OfflineInv
  <1>3. ServerInv' /\ OfflineInv' /\ HeldInv'
    BY <1>1, ServerSame DEF ClientInv, OfflineInv, HeldInv, MayHold
  <1>4. MailInv'
    BY <1>1 DEF ClientInv, MailInv
  <1>5. CacheInv'
    <2>1. order \in Seq(Seen) /\ Range(order) = {}
      BY <1>2 DEF ClientInv, CacheInv, NoChunks
    <2>2. Len(order) = 0
      <3>1. DOMAIN order = 1..Len(order) /\ Len(order) \in Nat
        BY <2>1
      <3>2. \A i \in DOMAIN order : order[i] \in Range(order)
        BY DEF Range
      <3>3. DOMAIN order = {}
        BY <2>1, <3>2
      <3> QED BY <3>1, <3>3
    <2>3. 0 <= Cardinality({}) + CACHE_BUFFER
      BY FS_EmptySet, ClientAssumption
    <2> QED BY <1>1, <2>2, <2>3 DEF ClientInv, CacheInv
  <1>6. AskedInv'
    <2>1. DOMAIN outbox = {}
      BY <1>2
    <2> QED BY <1>1, <1>2, <2>1 DEF AskedInv, Asked
  <1> QED BY <1>3, <1>4, <1>5, <1>6 DEF ClientInv

LEMMA ClientInit == Init => ClientInv
  <1> SUFFICES ASSUME Init PROVE ClientInv
    OBVIOUS
  <1>1. PICK board \in Boards :
          world = [chunks |-> Loaded(board, RegionAlive, RegionDead), paused |-> {}, owned |-> {}, tick |-> 0]
    BY DEF Init
  <1> DEFINE chunks == Loaded(board, RegionAlive, RegionDead)
  <1>2. /\ interest = {} /\ inbox = << >> /\ outbox = << >> /\ connected = TRUE /\ current = {}
        /\ cache = NoChunks /\ order = << >> /\ updated = {} /\ assured = {}
        /\ subscribed = {} /\ sim_cmd = << >> /\ haunted = {}
        /\ mirror = [c \in DOMAIN world.chunks |-> world.chunks[c].rows]
    BY DEF Init
  <1>3. /\ board \in SUBSET (Int \X Int) /\ IsFiniteSet(board)
        /\ RegionAlive \in SUBSET (Int \X Int) /\ IsFiniteSet(RegionAlive)
        /\ RegionDead \in SUBSET (Int \X Int) /\ IsFiniteSet(RegionDead)
    BY ClientAssumption
  <1>4. chunks \in [DOMAIN chunks -> Chunk] /\ DOMAIN chunks \subseteq ChunkCoord
    BY <1>3, LoadedType
  <1>5. IsFiniteSet(DOMAIN chunks)
    BY <1>3, LoadedFinite
  <1> HIDE DEF chunks
  <1>6. world = [chunks |-> chunks, paused |-> {}, owned |-> {}, tick |-> 0]
    BY <1>1 DEF chunks
  <1>7. PausedCoords(world) = {}
    BY <1>6 DEF PausedCoords
  <1>8. WorldType(world)
    BY <1>4, <1>6 DEF WorldType, IsRecord
  <1>9. Apart(world) /\ Solo(world)
    BY <1>6, <1>7 DEF Apart, Disjoint, Solo
  <1>16. MirrorInv
    <2>1. mirror = [c \in DOMAIN chunks |-> chunks[c].rows]
      BY <1>2, <1>6
    <2>2. \A c \in DOMAIN chunks : chunks[c].rows \in Rows
      BY <1>4 DEF Chunk
    <2>3. DOMAIN mirror = DOMAIN chunks /\ mirror \in [DOMAIN mirror -> Rows]
      BY <2>1, <2>2
    <2>4. DOMAIN mirror \subseteq Present(world)
      BY <1>6, <2>3 DEF Present
    <2> QED BY <1>2, <1>4, <1>5, <2>3, <2>4 DEF MirrorInv
  <1>10. ServerInv
    <2>1. << >> \in Seq(SimMail)
      BY EmptySeq
    <2>2. IsFiniteSet(Present(world))
      BY <1>5, <1>6, <1>7 DEF Present
    <2> QED BY <1>2, <1>8, <1>9, <1>16, <2>1, <2>2, FS_EmptySet DEF ServerInv
  <1>11. MailInv
    <2>1. << >> \in Seq(Mail) /\ << >> \in Seq(HubMail)
      BY EmptySeq
    <2> QED BY <1>2, <2>1 DEF MailInv
  <1>12. CacheInv
    <2>1. cache \in [DOMAIN cache -> Rows] /\ DOMAIN cache = {}
      BY <1>2 DEF NoChunks
    <2>2. << >> \in Seq(Seen) /\ Once(<< >>) /\ Len(<< >>) = 0 /\ Range(<< >>) = {}
      BY EmptySeq DEF Once, Range
    <2>3. 0 <= Cardinality({}) + CACHE_BUFFER
      BY FS_EmptySet, ClientAssumption
    <2> QED BY <1>2, <2>1, <2>2, <2>3 DEF CacheInv
  <1>13. OfflineInv
    BY <1>2 DEF OfflineInv
  <1>14. AskedInv
    <2>1. DOMAIN outbox = {}
      BY <1>2
    <2> QED BY <1>2, <2>1 DEF AskedInv, Asked
  <1>15. HeldInv
    <2>1. DOMAIN inbox = {} /\ DOMAIN cache = {}
      BY <1>2 DEF NoChunks
    <2> QED BY <2>1 DEF HeldInv, MayHold
  <1> QED BY <1>10, <1>11, <1>12, <1>13, <1>14, <1>15 DEF ClientInv

LEMMA ClientNext == ClientInv /\ [Next]_vars => ClientInv'
  <1> SUFFICES ASSUME ClientInv, [Next]_vars PROVE ClientInv'
    OBVIOUS
  <1>0. ServerInv /\ MailInv /\ CacheInv /\ OfflineInv /\ AskedInv
    BY DEF ClientInv
  <1>1. ASSUME NEW p \in EditCells, NEW alive \in BOOLEAN, Edit(p, alive) PROVE ClientInv'
    <2>1. ServerEffect
      BY <1>0, <1>1, EditServer
    <2>2. UNCHANGED <<interest, outbox, client_vars>>
      BY <1>1 DEF Edit, Command
    <2> QED BY <2>1, <2>2, CommandStep
  <1>2. ASSUME NEW S \in Claims, SetOwned(S) PROVE ClientInv'
    <2>1. ServerEffect
      BY <1>0, <1>2, SetOwnedServer
    <2>2. UNCHANGED <<interest, outbox, client_vars>>
      BY <1>2 DEF SetOwned, Command
    <2> QED BY <2>1, <2>2, CommandStep
  <1>3. CASE SimReap \/ SimSubscribe \/ SimUnsubscribe \/ SimSetOwned
    <2>1. ServerEffect
      BY <1>0, <1>3, SimReapServer, SimSubscribeServer, SimUnsubscribeServer, SimSetOwnedServer
    <2>2. UNCHANGED <<interest, outbox, client_vars>>
      BY <1>3 DEF SimReap, SimSubscribe, SimUnsubscribe, SimSetOwned, SimTake
    <2> QED BY <2>1, <2>2, CommandStep
  <1>4. CASE Tick
    <2>1. ServerEffect
      BY <1>0, <1>4, TickServer
    <2>2. UNCHANGED <<interest, outbox, client_vars>>
      BY <1>4, TickIs
    <2> QED BY <2>1, <2>2, CommandStep
  <1>5. CASE HubReceive
    <2>1. ServerEffect
      BY <1>0, <1>5, HubReceiveServer
    <2>2. AskedInv'
      BY <1>0, <1>5, AskedHub
    <2>3. UNCHANGED client_vars /\ outbox # << >> /\ outbox' = Tail(outbox)
      BY <1>5 DEF HubReceive
    <2>4. outbox' \in Seq(HubMail)
      BY <1>0, <2>3, OutboxHead
    <2>5. connected
      BY <1>0, <2>3 DEF OfflineInv
    <2> QED BY <2>1, <2>2, <2>3, <2>4, <2>5, ServerStep
  <1>6. CASE OnChunkState
    BY <1>6, StateStep
  <1>7. CASE OnChunkDelta
    BY <1>7, StateStep
  <1>8. CASE OnReaped
    BY <1>8, ReapedStep
  <1>9. CASE OnEditApplied
    BY <1>9, AppliedStep
  <1>10. CASE OnSync
    BY <1>10, SyncStep
  <1>11. ASSUME NEW next \in Views, Pan(next) PROVE ClientInv'
    BY <1>11, PanStep
  <1>12. CASE Close
    BY <1>12, CloseStep
  <1>13. CASE Open
    BY <1>13, OpenStep
  <1>14. CASE UNCHANGED vars
    <2>1. UNCHANGED <<server_vars, inbox, outbox, connected, current, cache, order, updated, assured>>
      BY <1>14 DEF vars, client_vars
    <2>2. ServerInv' /\ UNCHANGED <<interest, mirror>>
      BY <1>0, <2>1, ServerSame
    <2> QED BY <2>1, <2>2 DEF ClientInv, MailInv, CacheInv, OfflineInv, AskedInv, HeldInv, MayHold
  <1> QED BY <1>1, <1>2, <1>3, <1>4, <1>5, <1>6, <1>7, <1>8, <1>9, <1>10, <1>11, <1>12, <1>13, <1>14 DEF Next

LEMMA ClientAlways == Spec => []ClientInv
  BY ClientInit, ClientNext, PTL DEF Spec

\* A sequence of distinct elements is as long as its range is large.
LEMMA OnceLen ==
  ASSUME NEW T, NEW o \in Seq(T), Once(o)
  PROVE  Len(o) = Cardinality(Range(o))
  <1>1. Len(o) \in Nat /\ DOMAIN o = 1..Len(o)
    OBVIOUS
  <1>2. o \in Surjection(1..Len(o), Range(o))
    BY <1>1 DEF Surjection, Range
  <1>3. o \in Injection(1..Len(o), Range(o))
    BY <1>1, <1>2 DEF Surjection, Injection, IsInjective, Once
  <1>4. IsFiniteSet(1..Len(o)) /\ Cardinality(1..Len(o)) = Len(o)
    <2> DEFINE n == Len(o)
    <2>1. n \in Int /\ 1 \in Int /\ (IF 1 > n THEN 0 ELSE n - 1 + 1) = n
      BY <1>1
    <2> HIDE DEF n
    <2>2. IsFiniteSet(1..n) /\ Cardinality(1..n) = IF 1 > n THEN 0 ELSE n - 1 + 1
      BY <2>1, FS_Interval
    <2> QED BY <2>1, <2>2 DEF n
  <1> QED BY <1>2, <1>3, <1>4, FS_Surjection

(***************************************************************************)
(* Every variable keeps its type, and the cache of web/src/world.ts its    *)
(* bound: each cached coord has one place in the order of the puts, and    *)
(* they are never more than the chunks in view and the buffer, whatever    *)
(* arrives after the view has moved on.  Nothing is kept from one          *)
(* connection to the next.                                                 *)
(***************************************************************************)
THEOREM ClientTypes == Spec => []TypeOK
  <1>1. ClientInv => TypeOK
    <2> SUFFICES ASSUME ClientInv PROVE TypeOK
      OBVIOUS
    <2>1. ServerInv /\ MailInv /\ CacheInv /\ OfflineInv
      BY DEF ClientInv
    <2>2. \A c \in DOMAIN world.chunks : c \in ChunkCoord /\ world.chunks[c] \in Chunk
      BY <2>1 DEF ServerInv, WorldType
    <2>3. \A i \in DOMAIN inbox : inbox[i].type \in {"ChunkState", "ChunkDelta", "Reaped", "EditApplied", "Sync"}
      <3>1. \A m \in Mail : m.type \in {"ChunkState", "ChunkDelta", "Reaped", "EditApplied", "Sync"}
        BY DEF Mail
      <3>2. \A i \in DOMAIN inbox : inbox[i] \in Mail
        <4>1. inbox \in Seq(Mail)
          BY <2>1 DEF MailInv
        <4> HIDE DEF Mail
        <4> QED BY <4>1
      <3> QED BY <3>1, <3>2
    <2>4. \A i \in DOMAIN outbox : outbox[i].type \in {"Subscribe", "Unsubscribe"} /\ outbox[i].coords \subseteq UNION Views
      <3>1. \A m \in HubMail : m.type \in {"Subscribe", "Unsubscribe"} /\ m.coords \subseteq UNION Views
        BY DEF HubMail, Seen
      <3>2. \A i \in DOMAIN outbox : outbox[i] \in HubMail
        <4>1. outbox \in Seq(HubMail)
          BY <2>1 DEF MailInv
        <4> HIDE DEF HubMail
        <4> QED BY <4>1
      <3> QED BY <3>1, <3>2
    <2>5. /\ \A c \in DOMAIN cache : cache[c] \in Rows
          /\ Range(order) = DOMAIN cache
          /\ Len(order) = Cardinality(DOMAIN cache)
          /\ Len(order) <= Cardinality(current) + CACHE_BUFFER
      <3>1. Len(order) = Cardinality(Range(order))
        BY <2>1, OnceLen DEF CacheInv
      <3> HIDE DEF Rows
      <3> QED BY <2>1, <3>1 DEF CacheInv
    <2>6. interest \subseteq UNION Views /\ updated \subseteq UNION Views /\ assured \subseteq interest
      BY <2>1 DEF ServerInv, CacheInv, Seen
    <2>7. connected \in BOOLEAN /\ current \in Views \cup {{}}
      BY <2>1 DEF MailInv
    <2>8. \A i \in DOMAIN sim_cmd : sim_cmd[i].type \in {"Reap", "Subscribe", "Unsubscribe", "SetOwned"}
      <3>1. \A m \in SimMail : m.type \in {"Reap", "Subscribe", "Unsubscribe", "SetOwned"}
        BY DEF SimMail
      <3>2. \A i \in DOMAIN sim_cmd : sim_cmd[i] \in SimMail
        <4>1. sim_cmd \in Seq(SimMail)
          BY <2>1 DEF ServerInv
        <4> HIDE DEF SimMail
        <4> QED BY <4>1
      <3> QED BY <3>1, <3>2
    <2>9. /\ subscribed \subseteq UNION Views
          /\ \A c \in DOMAIN mirror : c \in ChunkCoord /\ mirror[c] \in Rows
          /\ haunted \subseteq DOMAIN mirror
      <3> HIDE DEF Rows
      <3> QED BY <2>1 DEF ServerInv, MirrorInv, Seen
    <2> QED BY <2>1, <2>2, <2>3, <2>4, <2>5, <2>6, <2>7, <2>8, <2>9 DEF TypeOK, OfflineInv
  <1> QED BY <1>1, ClientAlways, PTL

(***************************************************************************)
(* NoLeftovers: a client that has read its mail has no chunk in its cache  *)
(* that the sim has not, except those that an event brought back to the    *)
(* hub between the reaper's command and its execution.  Deltas and Reaped  *)
(* travel in one queue, a removal is told to every peer (hub.rs), and what *)
(* is put after it the hub mirrors.                                        *)
(***************************************************************************)
THEOREM LeftoversGo == Spec => []NoLeftovers
  <1>1. ClientInv => NoLeftovers
    <2> SUFFICES ASSUME ClientInv, CaughtUp, NEW c \in DOMAIN cache, c \notin haunted
                 PROVE  Shown(world, c) # NoHash
      BY DEF NoLeftovers
    <2>1. DOMAIN inbox = {}
      BY DEF CaughtUp
    <2>2. c \in DOMAIN mirror
      BY <2>1 DEF ClientInv, HeldInv, MayHold
    <2>3. c \in Present(world)
      BY <2>2 DEF ClientInv, ServerInv, MirrorInv
    <2> QED BY <2>3, ShownIs DEF ClientInv, ServerInv, Present
  <1> QED BY <1>1, ClientAlways, PTL

(***************************************************************************)
(* InterestAgreed: once the hub has read the requests, it has the chunks   *)
(* in view in its table and no others, over any number of connections and  *)
(* whatever was looked at in between (web/src/subscription.ts).            *)
(***************************************************************************)
THEOREM InterestSettles == Spec => []InterestAgreed
  <1>1. ClientInv => InterestAgreed
    <2> SUFFICES ASSUME ClientInv, connected, outbox = << >> PROVE interest = current
      BY DEF InterestAgreed
    <2>1. DOMAIN outbox = {}
      OBVIOUS
    <2>2. \A c : c \in interest <=> c \in current
      BY <2>1 DEF ClientInv, AskedInv, Asked
    <2> QED BY <2>2
  <1> QED BY <1>1, ClientAlways, PTL

-----------------------------------------------------------------------------
(* What is shown.  A chunk as the client has it, and what the messages     *)
(* make of it as long as it stays assured.                                 *)

Here(c) == [kept |-> c \in DOMAIN cache, rows |-> View(c), new |-> c \in updated]

SetAt(rows, x, y, alive) == [rows EXCEPT ![y] = IF alive THEN @ \cup {x} ELSE @ \ {x}]

\* A step by itself, locked cells staying what they are.
Alone(c, rows) ==
  Step([rows |-> rows, frozen |-> [mask |-> Mask(c), value |-> [y \in Idx |-> rows[y] \cap Mask(c)[y]]]],
       EmptyBundle).rows

Passes(m, c) == m.type # "Sync" /\ m.coord # c

\* The message m may take the client from s to t at c.  Where it costs c its
\* assurance there is no t; where a chunk told of in a Sync came by no delta
\* (it has been dropped since) its rows are left open.
Reads(m, c, s, t) ==
  \/ Passes(m, c) /\ t = s
  \/ m.type = "ChunkState" /\ m.coord = c /\ t = [kept |-> TRUE, rows |-> m.rows, new |-> s.new]
  \/ m.type = "ChunkDelta" /\ m.coord = c /\ t = [kept |-> TRUE, rows |-> m.rows, new |-> TRUE]
  \/ m.type = "Reaped" /\ m.coord = c /\ t = [kept |-> FALSE, rows |-> EmptyRows, new |-> FALSE]
  \/ m.type = "EditApplied" /\ m.coord = c /\ s.kept
       /\ t = [kept |-> TRUE, rows |-> SetAt(s.rows, m.x, m.y, m.alive), new |-> s.new]
  \/ m.type = "Sync" /\ t.kept = s.kept /\ t.new = FALSE
       /\ IF c \in m.told THEN s.new \/ ~s.kept => t.rows = s.rows
          ELSE ~s.new /\ t.rows = Alone(c, s.rows)

IsReading(f, msgs, c) == \A i \in 1..Len(msgs) : Reads(msgs[i], c, f[i - 1], f[i])

\* Some reading of msgs leads from s to e.
Leads(msgs, c, s, e) == \E f : f[0] = s /\ f[Len(msgs)] = e /\ IsReading(f, msgs, c)

LEMMA LeadsNothing ==
  ASSUME NEW c, NEW s, NEW e, Leads(<< >>, c, s, e)
  PROVE  e = s
  <1>1. Len(<< >>) = 0
    OBVIOUS
  <1> QED BY <1>1 DEF Leads

LEMMA LeadsOne ==
  ASSUME NEW m, NEW c, NEW s, NEW e, Leads(<<m>>, c, s, e)
  PROVE  Reads(m, c, s, e)
  <1>1. PICK f : f[0] = s /\ f[Len(<<m>>)] = e /\ IsReading(f, <<m>>, c)
    BY DEF Leads
  <1>2. Len(<<m>>) = 1 /\ <<m>>[1] = m /\ 1 - 1 = 0 /\ 1 \in 1..1
    OBVIOUS
  <1>3. Reads(<<m>>[1], c, f[1 - 1], f[1])
    BY <1>1, <1>2 DEF IsReading
  <1> QED BY <1>1, <1>2, <1>3

LEMMA LeadsBoth ==
  ASSUME NEW a \in Seq(Mail), NEW b \in Seq(Mail), NEW c, NEW s, NEW e, Leads(a \o b, c, s, e)
  PROVE  \E t : Leads(a, c, s, t) /\ Leads(b, c, t, e)
  <1> DEFINE q == a \o b
             n == Len(a)
             k == Len(b)
  <1>1. PICK f : f[0] = s /\ f[Len(q)] = e /\ IsReading(f, q, c)
    BY DEF Leads
  <1>2. /\ n \in Nat /\ k \in Nat /\ Len(q) = n + k
        /\ \A i \in 1..(n + k) : q[i] = IF i <= n THEN a[i] ELSE b[i - n]
    <2> HIDE DEF Mail
    <2> QED BY ConcatProperties, LenProperties
  <1> HIDE DEF q
  <1>3. Leads(a, c, s, f[n])
    <2>1. IsReading(f, a, c)
      <3> SUFFICES ASSUME NEW i \in 1..n PROVE Reads(a[i], c, f[i - 1], f[i])
        BY DEF IsReading
      <3>1. i \in 1..(n + k) /\ q[i] = a[i]
        BY <1>2
      <3> HIDE DEF n, k
      <3> QED BY <1>1, <1>2, <3>1 DEF IsReading
    <2> QED BY <1>1, <2>1 DEF Leads
  <1>4. Leads(b, c, f[n], e)
    <2> DEFINE g == [i \in 0..k |-> f[n + i]]
    <2>1. IsReading(g, b, c)
      <3> SUFFICES ASSUME NEW i \in 1..k PROVE Reads(b[i], c, g[i - 1], g[i])
        BY DEF IsReading
      <3>1. n + i \in 1..(n + k) /\ q[n + i] = b[i] /\ (n + i) - 1 = n + (i - 1) /\ i - 1 \in 0..k /\ i \in 0..k
        <4>1. n \in Nat /\ k \in Nat /\ \A j \in 1..(n + k) : q[j] = IF j <= n THEN a[j] ELSE b[j - n]
          BY <1>2
        <4> HIDE DEF n, k
        <4>2. n + i \in 1..(n + k) /\ ~(n + i <= n) /\ (n + i) - n = i
          BY <4>1
        <4>3. q[n + i] = b[(n + i) - n]
          BY <4>1, <4>2
        <4> QED BY <4>1, <4>2, <4>3
      <3>2. Reads(q[n + i], c, f[(n + i) - 1], f[n + i])
        BY <1>1, <1>2, <3>1 DEF IsReading
      <3> HIDE DEF n, k
      <3> QED BY <3>1, <3>2
    <2>2. g[0] = f[n] /\ g[k] = e
      <3>1. n + 0 = n /\ 0 \in 0..k /\ k \in 0..k
        BY <1>2
      <3> HIDE DEF n, k
      <3> QED BY <1>1, <1>2, <3>1
    <2> HIDE DEF g
    <2> QED BY <2>1, <2>2 DEF Leads
  <1> QED BY <1>3, <1>4

\* One message more at the front.
LEMMA LeadsAll ==
  ASSUME NEW q \in Seq(Mail), q # << >>, NEW c, NEW s, NEW t, NEW e,
         Reads(Head(q), c, s, t), Leads(Tail(q), c, t, e)
  PROVE  Leads(q, c, s, e)
  <1> DEFINE r == Tail(q)
             n == Len(r)
  <1>1. PICK g : g[0] = t /\ g[n] = e /\ IsReading(g, r, c)
    BY DEF Leads
  <1>2. n \in Nat /\ Len(q) = n + 1 /\ q[1] = Head(q) /\ \A i \in 1..n : r[i] = q[i + 1]
    <2> HIDE DEF Mail
    <2> QED BY HeadTailProperties, LenProperties
  <1> HIDE DEF r, n
  <1> DEFINE f == [i \in 0..(n + 1) |-> IF i = 0 THEN s ELSE g[i - 1]]
  <1>3. f[0] = s /\ f[n + 1] = e
    <2>1. 0 \in 0..(n + 1) /\ n + 1 \in 0..(n + 1) /\ n + 1 # 0 /\ (n + 1) - 1 = n
      BY <1>2
    <2> QED BY <1>1, <2>1
  <1>4. ASSUME NEW i \in 1..(n + 1) PROVE Reads(q[i], c, f[i - 1], f[i])
    <2>1. i \in 0..(n + 1) /\ i - 1 \in 0..(n + 1) /\ i # 0
      BY <1>2
    <2>2. CASE i = 1
      <3>1. f[i - 1] = s /\ f[i] = t
        BY <1>1, <2>1, <2>2
      <3> QED BY <1>2, <2>2, <3>1
    <2>3. CASE i # 1
      <3>1. i - 1 \in 1..n /\ (i - 1) + 1 = i /\ i - 1 # 0 /\ (i - 1) - 1 = i - 2
        BY <1>2, <2>3
      <3>2. Reads(r[i - 1], c, g[(i - 1) - 1], g[i - 1])
        BY <1>1, <3>1 DEF IsReading, n
      <3>3. f[i - 1] = g[(i - 1) - 1] /\ f[i] = g[i - 1] /\ r[i - 1] = q[i]
        BY <1>2, <2>1, <3>1
      <3> QED BY <3>2, <3>3
    <2> QED BY <2>2, <2>3
  <1> HIDE DEF f
  <1>5. IsReading(f, q, c)
    BY <1>2, <1>4 DEF IsReading
  <1> QED BY <1>2, <1>3, <1>5 DEF Leads

\* Messages of which those about c all say r.
LEMMA LeadsTo ==
  ASSUME NEW msgs \in Seq(Mail), NEW c, NEW s, NEW r, NEW e, Leads(msgs, c, s, e),
         \A i \in DOMAIN msgs : Passes(msgs[i], c)
                                  \/ \A t : Reads(msgs[i], c, s, t) \/ Reads(msgs[i], c, r, t) => t = r
  PROVE  e = IF \A i \in DOMAIN msgs : Passes(msgs[i], c) THEN s ELSE r
  <1>1. PICK f : f[0] = s /\ f[Len(msgs)] = e /\ IsReading(f, msgs, c)
    BY DEF Leads
  <1>2. Len(msgs) \in Nat /\ DOMAIN msgs = 1..Len(msgs)
    OBVIOUS
  <1> DEFINE At(n) == IF \A i \in 1..n : Passes(msgs[i], c) THEN s ELSE r
             N == {n \in Nat : n <= Len(msgs) => f[n] = At(n)}
  <1>3. 0 \in N
    <2>1. 1..0 = {}
      OBVIOUS
    <2> QED BY <1>1, <2>1
  <1>4. ASSUME NEW n \in Nat, n \in N PROVE n + 1 \in N
    <2> SUFFICES ASSUME n + 1 <= Len(msgs) PROVE f[n + 1] = At(n + 1)
      OBVIOUS
    <2>1. n + 1 \in 1..Len(msgs) /\ (n + 1) - 1 = n /\ n <= Len(msgs) /\ 1..(n + 1) = (1..n) \cup {n + 1}
      BY <1>2
    <2>2. Reads(msgs[n + 1], c, f[n], f[n + 1])
      BY <1>1, <2>1 DEF IsReading
    <2>3. f[n] = At(n)
      BY <1>4, <2>1
    <2>4. CASE Passes(msgs[n + 1], c)
      <3>1. f[n + 1] = f[n]
        BY <2>2, <2>4 DEF Reads, Passes
      <3> QED BY <2>1, <2>3, <2>4, <3>1
    <2>5. CASE ~Passes(msgs[n + 1], c)
      <3>1. f[n + 1] = r
        BY <1>2, <2>1, <2>2, <2>3, <2>5
      <3> QED BY <2>1, <2>5, <3>1
    <2> QED BY <2>4, <2>5
  <1> HIDE DEF N
  <1>5. Nat \subseteq N
    BY <1>3, <1>4, SetInduction
  <1>6. f[Len(msgs)] = At(Len(msgs))
    BY <1>2, <1>5 DEF N
  <1> QED BY <1>1, <1>2, <1>6

LEMMA LeadsPast ==
  ASSUME NEW msgs \in Seq(Mail), NEW c, NEW s, NEW e, Leads(msgs, c, s, e),
         \A i \in DOMAIN msgs : Passes(msgs[i], c)
  PROVE  e = s
  BY LeadsTo

LEMMA AloneEmpty == \A c : Alone(c, EmptyRows) = EmptyRows
  BY DEF Alone, Step, IsEmpty

\* The request that ends the interest in c is on its way.
Leaving(c) == \E i \in DOMAIN outbox : outbox[i].type = "Unsubscribe" /\ c \in outbox[i].coords

\* However the mail is read, an assured chunk comes out as it is on the server.
ShownInv ==
  \A c \in assured : ~Leaving(c) => \A e : Leads(inbox, c, Here(c), e) => e.rows = Truth(c)

\* Neither cached nor put by the mail: nothing of it is shown in the end.
LEMMA GoneEmpty ==
  ASSUME MailInv, NEW c, ~MayHold(c), NEW e, Leads(inbox, c, Here(c), e)
  PROVE  e.rows = EmptyRows
  <1>1. PICK f : f[0] = Here(c) /\ f[Len(inbox)] = e /\ IsReading(f, inbox, c)
    BY DEF Leads
  <1>2. Len(inbox) \in Nat /\ DOMAIN inbox = 1..Len(inbox)
    <2>1. inbox \in Seq(Mail)
      BY DEF MailInv
    <2> HIDE DEF Mail
    <2> QED BY <2>1
  <1> DEFINE Holds(n) ==
               \/ \E i \in 1..n : IsPut(inbox[i], c) /\ \A j \in (i + 1)..n : ~IsReaped(inbox[j], c)
               \/ c \in DOMAIN cache /\ \A j \in 1..n : ~IsReaped(inbox[j], c)
             Fits(n) == IF f[n].kept THEN Holds(n) ELSE f[n].rows = EmptyRows
             N == {n \in Nat : n <= Len(inbox) => Fits(n)}
  <1>3. 0 \in N
    <2>1. f[0].kept <=> c \in DOMAIN cache
      <3>1. Here(c).kept = (c \in DOMAIN cache)
        BY DEF Here
      <3> QED BY <1>1, <3>1
    <2>2. f[0].rows = View(c)
      BY <1>1 DEF Here
    <2> QED BY <2>1, <2>2 DEF View
  <1>4. ASSUME NEW n \in Nat, n \in N PROVE n + 1 \in N
    <2> SUFFICES ASSUME n + 1 <= Len(inbox) PROVE Fits(n + 1)
      OBVIOUS
    <2> DEFINE m == inbox[n + 1]
    <2>1. n + 1 \in 1..Len(inbox) /\ (n + 1) - 1 = n /\ n <= Len(inbox)
      BY <1>2
    <2>2. Reads(m, c, f[n], f[n + 1])
      BY <1>1, <2>1 DEF IsReading
    <2>3. Fits(n)
      BY <1>4, <2>1
    <2>4. IsPut(m, c) => Holds(n + 1)
      <3>1. ((n + 1) + 1)..(n + 1) = {} /\ n + 1 \in 1..(n + 1)
        OBVIOUS
      <3> QED BY <3>1
    <2>5. ~IsReaped(m, c) /\ Holds(n) => Holds(n + 1)
      <3> SUFFICES ASSUME ~IsReaped(m, c), Holds(n) PROVE Holds(n + 1)
        OBVIOUS
      <3>1. 1..(n + 1) = (1..n) \cup {n + 1} /\ \A i \in 1..n : (i + 1)..(n + 1) \subseteq ((i + 1)..n) \cup {n + 1}
        OBVIOUS
      <3> HIDE DEF m
      <3>2. \A j \in {n + 1} : ~IsReaped(inbox[j], c)
        BY DEF m
      <3>3. CASE \E i \in 1..n : IsPut(inbox[i], c) /\ \A j \in (i + 1)..n : ~IsReaped(inbox[j], c)
        BY <3>1, <3>2, <3>3
      <3>4. CASE c \in DOMAIN cache /\ \A j \in 1..n : ~IsReaped(inbox[j], c)
        BY <3>1, <3>2, <3>4
      <3> QED BY <3>3, <3>4
    <2> HIDE DEF m, Holds
    <2>6. CASE Passes(m, c)
      <3>1. f[n + 1] = f[n]
        BY <2>2, <2>6 DEF Reads, Passes
      <3>2. ~IsReaped(m, c)
        BY <2>6 DEF Passes, IsReaped
      <3> QED BY <2>3, <2>5, <3>1, <3>2
    <2>7. CASE m.type \in {"ChunkState", "ChunkDelta"} /\ m.coord = c
      <3>1. f[n + 1].kept
        BY <2>2, <2>7 DEF Reads, Passes
      <3>2. IsPut(m, c)
        BY <2>7 DEF IsPut
      <3> QED BY <2>4, <3>1, <3>2
    <2>8. CASE m.type = "Reaped" /\ m.coord = c
      BY <2>2, <2>8 DEF Reads, Passes
    <2>9. CASE m.type = "EditApplied" /\ m.coord = c
      <3>1. f[n].kept /\ f[n + 1].kept /\ ~IsReaped(m, c)
        BY <2>2, <2>9 DEF Reads, Passes, IsReaped
      <3> QED BY <2>3, <2>5, <3>1
    <2>10. CASE m.type = "Sync"
      <3>1. /\ f[n + 1].kept = f[n].kept /\ ~IsReaped(m, c)
            /\ IF c \in m.told THEN ~f[n].kept => f[n + 1].rows = f[n].rows
               ELSE f[n + 1].rows = Alone(c, f[n].rows)
        BY <2>2, <2>10 DEF Reads, Passes, IsReaped
      <3> QED BY <2>3, <2>5, <3>1, AloneEmpty
    <2> QED BY <2>2, <2>6, <2>7, <2>8, <2>9, <2>10 DEF Reads
  <1> HIDE DEF N, Holds
  <1>5. Nat \subseteq N
    BY <1>3, <1>4, SetInduction
  <1>6. Fits(Len(inbox))
    BY <1>2, <1>5 DEF N
  <1>7. ~Holds(Len(inbox))
    BY <1>2 DEF MayHold, Holds
  <1> QED BY <1>1, <1>6, <1>7

-----------------------------------------------------------------------------
(* The client's steps. *)

LEMMA ShownLess ==
  ASSUME MailInv, ShownInv, NEW type, Message(type), assured' \subseteq assured,
         \A c \in assured' : Reads(Head(inbox), c, Here(c), Here(c)')
  PROVE  ShownInv'
  <1>1. inbox # << >> /\ inbox' = Tail(inbox) /\ world' = world /\ outbox' = outbox
    BY InboxHead
  <1>2. inbox \in Seq(Mail)
    BY DEF MailInv
  <1> SUFFICES ASSUME NEW c \in assured', ~Leaving(c)', NEW e, Leads(inbox', c, Here(c)', e)
               PROVE  e.rows = Truth(c)'
    BY DEF ShownInv
  <1>3. Leads(inbox, c, Here(c), e)
    <2>1. Reads(Head(inbox), c, Here(c), Here(c)')
      OBVIOUS
    <2> DEFINE s == Here(c)
               t == Here(c)'
               q == inbox
    <2>2. Reads(Head(q), c, s, t) /\ Leads(Tail(q), c, t, e) /\ q # << >> /\ q \in Seq(Mail)
      BY <1>1, <1>2, <2>1
    <2> HIDE DEF s, t, q, Mail
    <2>3. Leads(q, c, s, e)
      BY <2>2, LeadsAll
    <2> QED BY <2>3 DEF s, q
  <1>4. ~Leaving(c)
    BY <1>1 DEF Leaving
  <1> QED BY <1>1, <1>3, <1>4 DEF ShownInv, Truth

LEMMA PutShown ==
  ASSUME MailInv, CacheInv, NEW k \in Seen, NEW rows \in Rows, Put(k, rows),
         UNCHANGED <<interest, current>>, updated' \subseteq Seen, NEW c \in assured'
  PROVE  /\ c \in assured
         /\ c # k => View(c)' = View(c) /\ (c \in DOMAIN cache' <=> c \in DOMAIN cache)
         /\ c = k => View(c)' = rows /\ c \in DOMAIN cache'
  <1> DEFINE n == Cardinality(current) + CACHE_BUFFER
             o == Evicted(Append(Without(order, {k}), k), n)
             f == [j \in DOMAIN cache \cup {k} |-> IF j = k THEN rows ELSE cache[j]]
  <1>1. Remaining(f, o) /\ assured' = assured \ ((DOMAIN cache \cup {k}) \ Range(o))
    BY DEF Put
  <1> HIDE DEF o
  <1>2. cache' = [j \in Range(o) |-> f[j]]
    BY <1>1 DEF Remaining, Restrict
  <1>3. DOMAIN cache' \subseteq DOMAIN cache \cup {k}
    BY PutCache
  <1>4. c \in DOMAIN cache' <=> c \in DOMAIN cache \cup {k}
    BY <1>1, <1>2, <1>3
  <1>5. c \in DOMAIN cache' => cache'[c] = IF c = k THEN rows ELSE cache[c]
    BY <1>2, <1>4
  <1> QED BY <1>1, <1>4, <1>5 DEF View

LEMMA StateShown ==
  ASSUME ClientInv, ShownInv, OnChunkState \/ OnChunkDelta
  PROVE  ShownInv'
  <1> DEFINE m == Head(inbox)
  <1>1. MailInv /\ CacheInv
    BY DEF ClientInv
  <1>2. PICK type \in {"ChunkState", "ChunkDelta"} : /\ Message(type)
                                                     /\ updated' = IF type = "ChunkDelta" THEN updated \cup {m.coord} ELSE updated
    BY DEF OnChunkState, OnChunkDelta
  <1>3. m \in Mail /\ m.type = type /\ UNCHANGED <<interest, current>>
    BY <1>1, <1>2, InboxHead
  <1>4. m.coord \in Seen /\ m.rows \in Rows
    BY <1>3, MailIs
  <1>5. Put(m.coord, m.rows)
    BY DEF OnChunkState, OnChunkDelta
  <1>6. updated' \subseteq Seen
    BY <1>1, <1>2, <1>4 DEF CacheInv
  <1> HIDE DEF m
  <1>7. ASSUME NEW c \in assured'
        PROVE  c \in assured /\ Reads(m, c, Here(c), Here(c)')
    <2>1. /\ c \in assured
          /\ c # m.coord => View(c)' = View(c) /\ (c \in DOMAIN cache' <=> c \in DOMAIN cache)
          /\ c = m.coord => View(c)' = m.rows /\ c \in DOMAIN cache'
      BY <1>1, <1>3, <1>4, <1>5, <1>6, PutShown
    <2>2. CASE c # m.coord
      <3>1. Passes(m, c)
        BY <1>3, <2>2 DEF Passes
      <3>2. Here(c)' = Here(c)
        BY <1>2, <2>1, <2>2 DEF Here
      <3> QED BY <2>1, <3>1, <3>2 DEF Reads
    <2>3. CASE c = m.coord
      <3>1. Here(c)' = [kept |-> TRUE, rows |-> m.rows, new |-> IF type = "ChunkDelta" THEN TRUE ELSE Here(c).new]
        BY <1>2, <2>1, <2>3 DEF Here
      <3> QED BY <1>2, <1>3, <2>1, <2>3, <3>1 DEF Reads
    <2> QED BY <2>2, <2>3
  <1> QED BY <1>1, <1>2, <1>7, ShownLess DEF m

LEMMA ReapedShown ==
  ASSUME ClientInv, ShownInv, OnReaped
  PROVE  ShownInv'
  <1> DEFINE m == Head(inbox)
  <1>1. MailInv /\ CacheInv
    BY DEF ClientInv
  <1>2. Message("Reaped") /\ Drop({m.coord}) /\ assured' = assured
    BY DEF OnReaped
  <1>3. m.type = "Reaped"
    BY <1>1, <1>2, InboxHead
  <1> HIDE DEF m
  <1>4. updated' = updated \ {m.coord} /\ cache' = [j \in DOMAIN cache \ {m.coord} |-> cache[j]]
    <2>1. Range(Without(order, {m.coord})) = DOMAIN cache \ {m.coord}
      BY <1>1, WithoutIs DEF CacheInv
    <2> QED BY <1>2, <2>1 DEF Drop, Remaining, Restrict
  <1>5. ASSUME NEW c \in assured'
        PROVE  Reads(m, c, Here(c), Here(c)')
    <2>1. CASE c # m.coord
      <3>1. Passes(m, c)
        BY <1>3, <2>1 DEF Passes
      <3>2. Here(c)' = Here(c)
        BY <1>4, <2>1 DEF Here, View
      <3> QED BY <3>1, <3>2 DEF Reads
    <2>2. CASE c = m.coord
      <3>1. Here(c)' = [kept |-> FALSE, rows |-> EmptyRows, new |-> FALSE]
        <4>1. c \notin DOMAIN cache' /\ c \notin updated' /\ View(c)' = EmptyRows
          BY <1>4, <2>2 DEF View
        <4>2. (c \in DOMAIN cache') = FALSE /\ (c \in updated') = FALSE
          BY <4>1
        <4>3. Here(c)' = [kept |-> c \in DOMAIN cache', rows |-> View(c)', new |-> c \in updated']
          BY DEF Here
        <4> QED BY <4>1, <4>2, <4>3
      <3> QED BY <1>3, <2>2, <3>1 DEF Reads
    <2> QED BY <2>1, <2>2
  <1> QED BY <1>1, <1>2, <1>5, ShownLess DEF m

LEMMA AppliedShown ==
  ASSUME ClientInv, ShownInv, OnEditApplied
  PROVE  ShownInv'
  <1> DEFINE m == Head(inbox)
             rows == SetAt(cache[m.coord], m.x, m.y, m.alive)
  <1>1. MailInv /\ CacheInv
    BY DEF ClientInv
  <1>2. /\ Message("EditApplied") /\ updated' = updated
        /\ IF m.coord \in DOMAIN cache THEN cache' = [cache EXCEPT ![m.coord] = rows] /\ assured' = assured
           ELSE cache' = cache /\ assured' = assured \ {m.coord}
    BY DEF OnEditApplied, SetAt
  <1>3. m.type = "EditApplied"
    BY <1>1, <1>2, InboxHead
  <1> HIDE DEF m, rows
  <1>4. ASSUME NEW c \in assured'
        PROVE  c \in assured /\ Reads(m, c, Here(c), Here(c)')
    <2>1. CASE c # m.coord
      <3>1. Passes(m, c)
        BY <1>3, <2>1 DEF Passes
      <3>2. Here(c)' = Here(c)
        BY <1>2, <2>1 DEF Here, View
      <3> QED BY <1>2, <3>1, <3>2 DEF Reads
    <2>2. CASE c = m.coord
      <3>1. c \in DOMAIN cache /\ cache' = [cache EXCEPT ![c] = rows]
        BY <1>2, <2>2
      <3>2. c \in DOMAIN cache' /\ cache'[c] = rows
        BY <3>1
      <3>3. Here(c)' = [kept |-> TRUE, rows |-> rows, new |-> Here(c).new] /\ Here(c).kept /\ Here(c).rows = cache[c]
        BY <1>2, <3>1, <3>2 DEF Here, View
      <3> QED BY <1>2, <1>3, <2>2, <3>3 DEF Reads, rows
    <2> QED BY <2>1, <2>2
  <1> QED BY <1>1, <1>2, <1>4, ShownLess DEF m

LEMMA SyncShown ==
  ASSUME ClientInv, ShownInv, OnSync
  PROVE  ShownInv'
  <1> DEFINE m == Head(inbox)
             edges == EdgesOf(Entries)
  <1>1. MailInv /\ CacheInv
    BY DEF ClientInv
  <1>2. /\ Message("Sync") /\ updated' = {} /\ cache' = StepCache
        /\ assured' = assured \ ((Disturbed(Entries) \cup updated) \ m.told)
    BY DEF OnSync
  <1>3. m.type = "Sync"
    BY <1>1, <1>2, InboxHead
  <1>4. cache' = [c \in DOMAIN cache |-> IF c \in updated THEN cache[c] ELSE Step(Entry(c), Halo(edges, c)).rows]
    BY <1>2 DEF StepCache
  <1> HIDE DEF m
  <1>5. ASSUME NEW c \in assured'
        PROVE  Reads(m, c, Here(c), Here(c)')
    <2>1. Here(c).kept = Here(c)'.kept /\ Here(c)'.new = FALSE
      <3>1. /\ Here(c).kept = (c \in DOMAIN cache) /\ Here(c)'.kept = (c \in DOMAIN cache')
            /\ Here(c)'.new = (c \in updated')
        BY DEF Here
      <3>2. (c \in DOMAIN cache') = (c \in DOMAIN cache) /\ (c \in updated') = FALSE
        BY <1>2, <1>4
      <3> QED BY <3>1, <3>2
    <2>2. CASE c \in m.told
      <3>1. c \in updated \/ c \notin DOMAIN cache => View(c)' = View(c)
        BY <1>4 DEF View
      <3> QED BY <1>3, <2>1, <2>2, <3>1 DEF Reads, Here
    <2>3. CASE c \notin m.told
      <3>1. c \notin Disturbed(Entries) /\ c \notin updated /\ c \in interest
        BY <1>1, <1>2, <2>3 DEF CacheInv
      <3>2. Halo(edges, c) = EmptyBundle
        BY <3>1 DEF Disturbed
      <3>3. View(c)' = Alone(c, View(c))
        <4>1. CASE c \in DOMAIN cache
          <5>1. View(c)' = Step(Entry(c), EmptyBundle).rows /\ View(c) = cache[c]
            BY <1>4, <3>1, <3>2, <4>1 DEF View
          <5> QED BY <5>1 DEF Alone, Entry
        <4>2. CASE c \notin DOMAIN cache
          BY <1>4, <4>2, AloneEmpty DEF View
        <4> QED BY <4>1, <4>2
      <3> QED BY <1>3, <2>1, <2>3, <3>1, <3>3 DEF Reads, Here
    <2> QED BY <2>2, <2>3
  <1> QED BY <1>1, <1>2, <1>5, ShownLess DEF m

LEMMA PanShown ==
  ASSUME ClientInv, ShownInv, NEW next \in Views, Pan(next)
  PROVE  ShownInv'
  <1> DEFINE toSub   == next \ current
             toUnsub == current \ next
             Request(type, S) == IF S = {} THEN << >> ELSE <<[type |-> type, coords |-> S]>>
             o == Evicted(order, Cardinality(next) + CACHE_BUFFER)
             left == Request("Unsubscribe", toUnsub)
             more == Request("Subscribe", toSub)
  <1>1. MailInv /\ CacheInv /\ OfflineInv /\ ServerInv
    BY DEF ClientInv
  <1>2. /\ UNCHANGED <<world, interest, inbox, connected>>
        /\ Remaining(cache, Without(o, toUnsub))
        /\ updated' = updated \ toUnsub
        /\ assured' = assured \ (Range(order) \ Range(o))
        /\ outbox' = IF connected THEN outbox \o left \o more ELSE outbox
    BY DEF Pan, Look, server_vars, sim_vars, hub_vars
  <1>3. CASE ~connected
    <2>1. assured' = {}
      BY <1>1, <1>2, <1>3 DEF OfflineInv, CacheInv
    <2> QED BY <2>1 DEF ShownInv
  <1>4. CASE connected
    <2>1. Range(o) \subseteq Range(order) /\ o \in Seq(Seen)
      <3>1. Cardinality(next) + CACHE_BUFFER \in Nat
        BY SeenType, FS_CardinalityType, ClientAssumption
      <3> QED BY <1>1, <3>1, EvictedIs DEF CacheInv
    <2> HIDE DEF o
    <2>2. Range(Without(o, toUnsub)) = Range(o) \ toUnsub
      BY <2>1, WithoutIs
    <2>3. cache' = [c \in Range(o) \ toUnsub |-> cache[c]]
      BY <1>2, <2>2 DEF Remaining, Restrict
    <2>4. Range(order) = DOMAIN cache
      BY <1>1 DEF CacheInv
    <2> DEFINE n == Len(outbox)
    <2>5. /\ outbox' \in Seq(HubMail) /\ n \in Nat /\ DOMAIN outbox = 1..n /\ DOMAIN outbox' = 1..Len(outbox')
          /\ Len(outbox') >= n /\ \A i \in 1..n : outbox'[i] = outbox[i]
          /\ toUnsub # {} => n + 1 \in DOMAIN outbox' /\ outbox'[n + 1] = [type |-> "Unsubscribe", coords |-> toUnsub]
      <3>1. /\ toUnsub # {} => left = <<[type |-> "Unsubscribe", coords |-> toUnsub]>>
            /\ toUnsub = {} => left = << >>
            /\ toSub # {} => more = <<[type |-> "Subscribe", coords |-> toSub]>>
            /\ toSub = {} => more = << >>
        OBVIOUS
      <3>2. toSub \subseteq Seen /\ toUnsub \subseteq Seen /\ IsFiniteSet(toSub) /\ IsFiniteSet(toUnsub)
        <4>1. next \subseteq Seen /\ IsFiniteSet(next) /\ current \subseteq Seen /\ IsFiniteSet(current)
          BY <1>1, SeenType, FS_EmptySet DEF MailInv
        <4> QED BY <4>1, FS_Subset
      <3>3. [type |-> "Unsubscribe", coords |-> toUnsub] \in HubMail /\ [type |-> "Subscribe", coords |-> toSub] \in HubMail
        BY <3>2 DEF HubMail
      <3> DEFINE e == [type |-> "Unsubscribe", coords |-> toUnsub]
                 a == outbox
                 k == [type |-> "Subscribe", coords |-> toSub]
      <3> HIDE DEF toSub, toUnsub, HubMail, left, more
      <3>0. /\ toUnsub # {} => left = <<e>>
            /\ toUnsub = {} => left = << >>
            /\ toSub # {} => more = <<k>>
            /\ toSub = {} => more = << >>
            /\ e \in HubMail /\ k \in HubMail
        BY <3>1, <3>3
      <3> HIDE DEF e, k
      <3>4. left \in Seq(HubMail) /\ more \in Seq(HubMail) /\ a \in Seq(HubMail)
            /\ (toUnsub # {} => Len(left) = 1 /\ left[1] = e)
        <4>1. <<e>> \in Seq(HubMail) /\ <<k>> \in Seq(HubMail) /\ << >> \in Seq(HubMail) /\ Len(<<e>>) = 1 /\ <<e>>[1] = e
          BY <3>0
        <4>2. left \in Seq(HubMail) /\ (toUnsub # {} => Len(left) = 1 /\ left[1] = e)
          BY <3>0, <4>1
        <4>3. more \in Seq(HubMail)
          BY <3>0, <4>1
        <4> QED BY <1>1, <4>2, <4>3 DEF MailInv
      <3>5. PICK b \in Seq(HubMail) : b = a \o left
        BY <3>4, ConcatProperties
      <3>6. PICK d \in Seq(HubMail) : d = b \o more
        BY <3>4, <3>5, ConcatProperties
      <3>7. outbox' = d
        BY <1>2, <1>4, <3>5, <3>6
      <3>8. /\ Len(b) = Len(a) + Len(left) /\ Len(d) = Len(b) + Len(more)
            /\ Len(a) \in Nat /\ Len(left) \in Nat /\ Len(more) \in Nat
            /\ DOMAIN a = 1..Len(a) /\ DOMAIN d = 1..Len(d)
        BY <3>4, <3>5, <3>6, ConcatProperties, LenProperties
      <3>9. /\ \A i \in 1..(Len(a) + Len(left)) : b[i] = IF i <= Len(a) THEN a[i] ELSE left[i - Len(a)]
            /\ \A i \in 1..(Len(b) + Len(more)) : d[i] = IF i <= Len(b) THEN b[i] ELSE more[i - Len(b)]
        BY <3>4, <3>5, <3>6, ConcatProperties
      <3>10. \A i \in 1..Len(a) : d[i] = a[i]
        BY <3>8, <3>9
      <3>11. ASSUME toUnsub # {} PROVE Len(a) + 1 \in DOMAIN d /\ d[Len(a) + 1] = e
        <4>0. Len(left) = 1
          BY <3>4, <3>11
        <4>1. Len(a) + 1 <= Len(b) /\ (Len(a) + 1) - Len(a) = 1 /\ ~(Len(a) + 1 <= Len(a))
          BY <3>8, <4>0
        <4> QED BY <3>4, <3>8, <3>9, <3>11, <4>1
      <3>12. Len(d) >= Len(a)
        BY <3>8
      <3> QED BY <3>7, <3>8, <3>10, <3>11, <3>12 DEF e
    <2> SUFFICES ASSUME NEW c \in assured', ~Leaving(c)', NEW e, Leads(inbox', c, Here(c)', e)
                 PROVE  e.rows = Truth(c)'
      BY DEF ShownInv
    <2>6. c \notin toUnsub
      <3> SUFFICES ASSUME c \in toUnsub PROVE FALSE
        OBVIOUS
      <3>1. n + 1 \in DOMAIN outbox' /\ outbox'[n + 1] = [type |-> "Unsubscribe", coords |-> toUnsub]
        BY <2>5
      <3> QED BY <3>1 DEF Leaving
    <2>7. ~Leaving(c)
      <3>1. \A i \in DOMAIN outbox : i \in DOMAIN outbox' /\ outbox'[i] = outbox[i]
        BY <2>5
      <3> QED BY <3>1 DEF Leaving
    <2>8. Here(c)' = Here(c)
      <3>1. (c \in DOMAIN cache') = (c \in DOMAIN cache) /\ (c \in updated') = (c \in updated)
        <4>1. c \in DOMAIN cache' <=> c \in DOMAIN cache
          BY <1>2, <2>1, <2>3, <2>4, <2>6
        <4>2. c \in updated' <=> c \in updated
          BY <1>2, <2>6
        <4> QED BY <4>1, <4>2
      <3>2. View(c)' = View(c)
        BY <2>3, <3>1 DEF View
      <3> QED BY <3>1, <3>2 DEF Here
    <2>9. c \in assured /\ Leads(inbox, c, Here(c), e)
      BY <1>2, <2>8
    <2> QED BY <1>2, <2>7, <2>9 DEF ShownInv, Truth
  <1> QED BY <1>3, <1>4

LEMMA CloseShown ==
  ASSUME Close
  PROVE  ShownInv'
  <1>1. assured' = {}
    BY DEF Close
  <1> QED BY <1>1 DEF ShownInv

LEMMA OpenShown ==
  ASSUME ClientInv, Open
  PROVE  ShownInv'
  <1>1. assured' = {}
    BY DEF Open, ClientInv, OfflineInv, CacheInv
  <1> QED BY <1>1 DEF ShownInv

-----------------------------------------------------------------------------
(* The world, chunk by chunk. *)

\* The rows a chunk has in w, paused or not; none where there is no chunk.
RowsIn(w, c) == ChunkAt(Whole(w), c).rows

LEMMA TruthIs == \A c : Truth(c) = RowsIn(world, c)
  BY DEF Truth, RowsIn, Whole

LEMMA TruthNext == \A c : Truth(c)' = RowsIn(world', c)
  BY DEF Truth, RowsIn, Whole, ChunkAt, EmptyChunk

\* A running chunk has its own rows, and what is not there none.
LEMMA RowsAre ==
  ASSUME NEW w, WorldType(w), Apart(w)
  PROVE  /\ \A c \in DOMAIN w.chunks : RowsIn(w, c) = w.chunks[c].rows
         /\ \A c : c \notin Present(w) => RowsIn(w, c) = EmptyRows
  BY WholeIs DEF RowsIn, ChunkAt, EmptyChunk, Present

LEMMA WakeRows ==
  ASSUME NEW w, WorldType(w), Apart(w), NEW S
  PROVE  \A c : RowsIn(Wake(w, S), c) = RowsIn(w, c)
  BY WakeWhole DEF RowsIn

LEMMA SetCellRows ==
  ASSUME NEW w, WorldType(w), Apart(w), NEW c \in ChunkCoord, c \notin PausedCoords(w),
         NEW x \in Idx, NEW y \in Idx, NEW alive \in BOOLEAN, NEW u, u = SetCellAt(w, c, x, y, alive)
  PROVE  /\ WorldType(u) /\ Apart(u)
         /\ c \in DOMAIN u.chunks /\ u.chunks[c] = SetCell(ChunkAt(w.chunks, c), x, y, alive)
         /\ ChunkAt(w.chunks, c).rows = RowsIn(w, c)
         /\ \A k : k # c => RowsIn(u, k) = RowsIn(w, k)
         /\ u.paused = w.paused
  <1> DEFINE ch == SetCell(ChunkAt(w.chunks, c), x, y, alive)
  <1>1. u.chunks = [k \in DOMAIN w.chunks \cup {c} |-> IF k = c THEN ch ELSE w.chunks[k]] /\ u.paused = w.paused
        /\ u.tick = w.tick
    BY DEF SetCellAt, WorldType, IsRecord
  <1>2. WorldType(u) /\ Apart(u)
    BY SetCellAtOK
  <1> HIDE DEF ch
  <1>3. c \in DOMAIN u.chunks /\ u.chunks[c] = ch
    BY <1>1
  <1>4. /\ DOMAIN Whole(w) = DOMAIN w.chunks \cup PausedCoords(w)
        /\ \A k \in DOMAIN w.chunks : Whole(w)[k] = w.chunks[k]
        /\ \A g \in w.paused : \A k \in Members(g) : Whole(w)[k] = Awake(g, w.tick)[k]
    BY WholeIs
  <1>5. /\ DOMAIN Whole(u) = DOMAIN u.chunks \cup PausedCoords(u)
        /\ \A k \in DOMAIN u.chunks : Whole(u)[k] = u.chunks[k]
        /\ \A g \in u.paused : \A k \in Members(g) : Whole(u)[k] = Awake(g, u.tick)[k]
    BY <1>2, WholeIs
  <1>6. PausedCoords(u) = PausedCoords(w)
    BY <1>1 DEF PausedCoords
  <1>7. ChunkAt(w.chunks, c).rows = RowsIn(w, c)
    BY <1>4 DEF ChunkAt, RowsIn
  <1>8. ASSUME NEW k, k # c PROVE RowsIn(u, k) = RowsIn(w, k)
    <2>1. k \in DOMAIN Whole(u) <=> k \in DOMAIN Whole(w)
      BY <1>1, <1>4, <1>5, <1>6, <1>8
    <2>2. CASE k \in DOMAIN w.chunks
      <3>1. Whole(u)[k] = Whole(w)[k]
        BY <1>1, <1>4, <1>5, <1>8, <2>2
      <3> QED BY <2>1, <3>1 DEF RowsIn, ChunkAt
    <2>3. CASE k \in PausedCoords(w)
      <3>1. PICK g \in w.paused : k \in Members(g)
        BY <2>3 DEF PausedCoords
      <3>2. Whole(u)[k] = Whole(w)[k]
        BY <1>1, <1>4, <1>5, <3>1
      <3> QED BY <2>1, <3>2 DEF RowsIn, ChunkAt
    <2>4. CASE k \notin DOMAIN Whole(w)
      BY <2>1, <2>4 DEF RowsIn, ChunkAt
    <2> QED BY <1>4, <2>2, <2>3, <2>4
  <1> QED BY <1>1, <1>2, <1>3, <1>7, <1>8 DEF ch

\* Every paused pattern is back where it was after its period.
RecursIn(w) == \A g \in w.paused : Phase(g.members, g.period) = g.members

LEMMA RecursPause ==
  ASSUME WorldType(world), RecursIn(world), NEW Q \in SUBSET Pausable
  PROVE  RecursIn(Pause(world, Q))
  <1> DEFINE G(q) == [members |-> Restrict(world.chunks, q.members), period |-> q.period, paused_at_tick |-> world.tick]
             w == Pause(world, Q)
  <1>1. w.paused = world.paused \cup {G(q) : q \in Q}
    BY DEF WorldType, IsRecord, Pause
  <1>2. ASSUME NEW q \in Q PROVE Phase(G(q).members, G(q).period) = G(q).members
    <2>1. PICK c \in DOMAIN world.chunks \ subscribed, p \in 1..MAX_PERIOD : q = [members |-> {c}, period |-> p]
      BY DEF Pausable
    <2>2. q.members = {c} /\ q.period = p
      BY <2>1
    <2>3. Recurs(c, p)
      BY <2>2 DEF Pausable
    <2>4. G(q).members = Restrict(world.chunks, {c}) /\ G(q).period = p
      BY <2>2
    <2> HIDE DEF G
    <2> QED BY <2>3, <2>4 DEF Recurs
  <1> HIDE DEF G, w
  <1>3. RecursIn(w)
    BY <1>1, <1>2 DEF RecursIn
  <1> QED BY <1>3 DEF w

LEMMA RecursLess ==
  ASSUME NEW w, RecursIn(w), NEW u, u.paused \subseteq w.paused
  PROVE  RecursIn(u)
  BY DEF RecursIn

LEMMA Elsewhere ==
  ASSUME NEW c \in ChunkCoord, NEW d \in Dir
  PROVE  To(c, d) # c
  <1>1. PICK i, j \in -1..1 : d = <<i, j>> /\ ~(i = 0 /\ j = 0)
    BY DEF Dir
  <1>2. PICK x, y \in Int : c = <<x, y>>
    BY DEF ChunkCoord
  <1>3. To(c, d) = <<x + i, y + j>>
    BY <1>1, <1>2 DEF To
  <1>4. x + i # x \/ y + j # y
    BY <1>1, <1>2
  <1> QED BY <1>2, <1>3, <1>4

\* A tick of a chunk no running chunk shows a cell: paused or not, it makes a
\* step by itself.
LEMMA TickQuiet ==
  ASSUME NEW w, WorldType(w), Apart(w), Solo(w), RecursIn(w), NEW c \in ChunkCoord,
         Halo(EdgesOf(w.chunks), c) = EmptyBundle,
         NEW u, u = AfterTick(w, TickInto(w))
  PROVE  RowsIn(u, c) = Step(ChunkAt(Whole(w), c), EmptyBundle).rows
  <1> DEFINE V == Whole(w)
  <1>1. /\ DOMAIN V = DOMAIN w.chunks \cup PausedCoords(w)
        /\ \A k \in DOMAIN w.chunks : V[k] = w.chunks[k]
        /\ \A g \in w.paused : \A k \in Members(g) : V[k] = Awake(g, w.tick)[k]
        /\ IsChunks(V)
    BY WholeIs
  <1> HIDE DEF V
  <1>2. u.paused \subseteq w.paused
    BY DEF AfterTick, WorldType, IsRecord
  <1>3. ASSUME NEW g \in u.paused, c \in Members(g) PROVE Steady(w, g)
    <2>1. g \in w.paused
      BY <1>2
    <2>2. Members(g) = {c}
      BY <1>3, <2>1 DEF Solo
    <2>3. Phase(g.members, g.period) = g.members
      BY <2>1 DEF RecursIn
    <2> QED BY <2>2, <2>3 DEF Steady
  <1>4. IF c \in DOMAIN Whole(u) THEN Whole(u)[c] = Stepping(w, c)
        ELSE IsEmpty(Stepping(w, c)) /\ ~IsFrozen(Stepping(w, c))
    BY <1>3, TickWhole
  <1>5. RowsIn(u, c) = Stepping(w, c).rows
    BY <1>4 DEF RowsIn, ChunkAt, EmptyChunk, IsEmpty
  <1> DEFINE F == Felt(V, w.owned, c)
  <1>6. HaloWithin(EdgesOf(V), w.owned, c) = EmptyBundle
    <2>1. /\ \A n \in DOMAIN F : n \in DOMAIN V /\ F[n] = V[n]
          /\ HaloWithin(EdgesOf(V), w.owned, c) = Halo(EdgesOf(F), c)
      BY FeltIs
    <2> HIDE DEF F
    <2>2. \A n \in DOMAIN F : F[n] \in Chunk
      BY <1>1, <2>1 DEF IsChunks
    <2>3. ASSUME NEW d \in Dir, ShowsTo(F, c, d) PROVE FALSE
      <3> DEFINE n == To(c, d)
      <3>1. n \in DOMAIN V /\ Shows(V[n], Opp(d))
        BY <2>1, <2>3 DEF ShowsTo
      <3>2. Opp(d) \in Dir /\ To(n, Opp(d)) = c
        BY OppIs
      <3>3. CASE n \in DOMAIN w.chunks
        <4>1. ~Shows(w.chunks[n], Opp(d))
          BY <3>3, HaloShown DEF WorldType
        <4> QED BY <1>1, <3>1, <3>3, <4>1
      <3>4. CASE n \in PausedCoords(w)
        <4>0. n # c
          BY Elsewhere
        <4> HIDE DEF n
        <4>1. PICK g \in w.paused : n \in Members(g)
          BY <3>4 DEF PausedCoords
        <4>2. GroupType(g, w.tick) /\ Sealed(g) /\ w.tick \in Int
          BY <4>1 DEF WorldType, Apart
        <4>3. PICK k \in 0..(g.period - 1) : Awake(g, w.tick) = Phase(g.members, k)
          BY <4>2, AwakePhase
        <4>4. Shows(Phase(g.members, k)[n], Opp(d))
          BY <1>1, <3>1, <4>1, <4>3
        <4>5. c \in Members(g)
          BY <3>2, <4>1, <4>2, <4>4 DEF Sealed
        <4> QED BY <4>0, <4>1, <4>5 DEF Solo
      <3> QED BY <1>1, <3>1, <3>3, <3>4
    <2> QED BY <2>1, <2>2, <2>3, NoHalo
  <1> QED BY <1>5, <1>6 DEF Stepping, V

\* The region's cells are locked, alive or dead as it says, paused or not.
LockedInv ==
  /\ Stamped(Whole(world), RegionAlive, RegionDead)
  /\ (RegionDead \ RegionAlive) \cap CellsOf(Whole(world)) = {}

RecursInv == RecursIn(world)

LEMMA RegionCells == RegionAlive \in SUBSET (Int \X Int) /\ RegionDead \in SUBSET (Int \X Int)
  BY ClientAssumption

\* The client's mask and values are the server's, so a step by itself is the
\* same step on either side.
LEMMA AloneIs ==
  ASSUME WorldType(world), Apart(world), LockedInv, NEW c \in ChunkCoord
  PROVE  Alone(c, RowsIn(world, c)) = Step(ChunkAt(Whole(world), c), EmptyBundle).rows
  <1> DEFINE V == Whole(world)
             ch == ChunkAt(V, c)
             st == Stamp(c, RegionAlive, RegionDead)
  <1>1. IsChunks(V)
    BY WholeIs
  <1>2. /\ \A p \in RegionAlive \cup RegionDead : Home(p) \in DOMAIN V
        /\ \A k \in DOMAIN V : V[k].frozen = Stamp(k, RegionAlive, RegionDead)
        /\ RegionAlive \subseteq CellsOf(V)
        /\ (RegionDead \ RegionAlive) \cap CellsOf(V) = {}
    BY DEF LockedInv, Stamped
  <1> HIDE DEF V
  <1>3. ch \in Chunk /\ ch.frozen = st
    <2>1. CASE c \in DOMAIN V
      BY <1>1, <1>2, <2>1 DEF ChunkAt, IsChunks
    <2>2. CASE c \notin DOMAIN V
      <3>1. ~\E p \in RegionAlive \cup RegionDead : Home(p) = c
        BY <1>2, <2>2
      <3>2. st = Unlocked
        BY <3>1, RegionCells, StampFree
      <3> QED BY <2>2, <3>2, Sizes DEF ChunkAt, EmptyChunk
    <2> QED BY <2>1, <2>2
  <1>4. \A x, y \in Idx : x \in ch.rows[y] <=> CellAt(c, x, y) \in CellsOf(V)
    <2> TAKE x, y \in Idx
    <2>1. CellAt(c, x, y) \in CellsOf(V) <=> c \in DOMAIN V /\ x \in V[c].rows[y]
      BY <1>1, CellsAre
    <2> QED BY <2>1 DEF ChunkAt, EmptyChunk, EmptyRows
  <1> HIDE DEF ch
  <1>5. Mask(c) = st.mask
    BY DEF Mask, Stamp, CellAt, Region
  <1>6. [y \in Idx |-> ch.rows[y] \cap Mask(c)[y]] = st.value
    <2>1. ch.rows \in Rows /\ Mask(c) \in Rows /\ st.value \in Rows
      <3>1. Mask(c) \in Rows
        BY DEF Mask, Rows, Row
      <3>2. st.value \in Rows
        BY DEF Stamp, Rows, Row
      <3>3. ch.rows \in Rows
        BY <1>3 DEF Chunk
      <3> QED BY <3>1, <3>2, <3>3
    <2>2. ASSUME NEW y \in Idx PROVE ch.rows[y] \cap Mask(c)[y] = st.value[y]
      <3>1. ch.rows[y] \subseteq Idx /\ Mask(c)[y] \subseteq Idx /\ st.value[y] \subseteq Idx
        BY <2>1 DEF Rows, Row
      <3>2. ASSUME NEW x \in Idx PROVE x \in ch.rows[y] /\ x \in Mask(c)[y] <=> x \in st.value[y]
        <4>1. x \in st.mask[y] <=> CellAt(c, x, y) \in RegionAlive \cup RegionDead
          BY StampIs
        <4>2. x \in st.value[y] <=> CellAt(c, x, y) \in RegionAlive
          BY StampIs
        <4> HIDE DEF st
        <4> QED BY <1>2, <1>4, <1>5, <4>1, <4>2
      <3> HIDE DEF st
      <3> QED BY <3>1, <3>2
    <2> HIDE DEF st
    <2> QED BY <2>1, <2>2 DEF Rows, Row
  <1>7. [rows |-> ch.rows, frozen |-> [mask |-> Mask(c), value |-> [y \in Idx |-> ch.rows[y] \cap Mask(c)[y]]]] = ch
    <2>1. st = [mask |-> st.mask, value |-> st.value]
      BY DEF Stamp
    <2>2. ch = [rows |-> ch.rows, frozen |-> ch.frozen]
      BY <1>3 DEF Chunk
    <2> HIDE DEF st
    <2> QED BY <1>3, <1>5, <1>6, <2>1, <2>2
  <1> QED BY <1>7 DEF Alone, RowsIn, ch, V

LEMMA LockedInit ==
  ASSUME Init, ServerInv
  PROVE  LockedInv
  <1>1. PICK board \in Boards :
          world = [chunks |-> Loaded(board, RegionAlive, RegionDead), paused |-> {}, owned |-> {}, tick |-> 0]
    BY DEF Init
  <1> DEFINE L == Loaded(board, RegionAlive, RegionDead)
             cells == (board \ RegionDead) \cup RegionAlive
  <1>2. world.chunks = L /\ world.paused = {} /\ WorldType(world) /\ Apart(world)
    BY <1>1 DEF ServerInv
  <1>3. board \in SUBSET (Int \X Int)
    BY ClientAssumption
  <1>4. Stamped(Whole(world), RegionAlive, RegionDead)
    <2> HIDE DEF L
    <2>1. world.chunks = Loaded(board, RegionAlive, RegionDead)
      BY <1>2 DEF L
    <2> QED BY <1>2, <1>3, <2>1, RegionCells, LoadedInPlane
  <1>5. ASSUME NEW p \in RegionDead \ RegionAlive PROVE p \notin CellsOf(Whole(world))
    <2> DEFINE c == Home(p)
               x == p[1] % CHUNK_SIZE
               y == p[2] % CHUNK_SIZE
               rows == [b \in Idx |-> {a \in Idx : <<c[1] * CHUNK_SIZE + a, c[2] * CHUNK_SIZE + b>> \in cells}]
    <2>1. p \in Int \X Int
      BY RegionCells
    <2>2. c \in ChunkCoord /\ x \in Idx /\ y \in Idx /\ p = CellAt(c, x, y)
      BY <2>1, HomeType, HomeCell
    <2>3. p \notin cells
      BY <1>5
    <2>4. c \in DOMAIN L => L[c].rows = rows
      BY DEF Loaded
    <2>5. x \in rows[y] => p \in cells
      BY <2>2 DEF CellAt
    <2>6. CellAt(c, x, y) \in CellsOf(Whole(world)) <=> c \in DOMAIN Whole(world) /\ x \in Whole(world)[c].rows[y]
      BY <1>2, <2>2, WholeIs, CellsAre
    <2>7. DOMAIN Whole(world) = DOMAIN L /\ \A k \in DOMAIN L : Whole(world)[k] = L[k]
      <3>1. PausedCoords(world) = {}
        BY <1>2 DEF PausedCoords
      <3> HIDE DEF L
      <3> QED BY <1>2, <3>1, WholeIs
    <2> HIDE DEF c, x, y, cells, rows, L
    <2> QED BY <2>2, <2>3, <2>4, <2>5, <2>6, <2>7
  <1> QED BY <1>4, <1>5 DEF LockedInv

LEMMA LockedEdit ==
  ASSUME ServerInv, LockedInv, NEW p \in EditCells, NEW alive \in BOOLEAN, Edit(p, alive)
  PROVE  LockedInv'
  <1>1. p \in Int \X Int /\ WorldType(world) /\ Apart(world)
    BY ClientAssumption DEF ServerInv
  <1>2. world' = Edited(world, p, alive)
    BY DEF Edit, Edited
  <1>3. Stamped(Whole(world), RegionAlive, RegionDead)
    BY DEF LockedInv
  <1>4. /\ CellsOf(Whole(world')) = IF p \in RegionAlive \cup RegionDead THEN CellsOf(Whole(world))
                                   ELSE IF alive THEN CellsOf(Whole(world)) \cup {p} ELSE CellsOf(Whole(world)) \ {p}
        /\ Stamped(Whole(world'), RegionAlive, RegionDead)
    BY <1>1, <1>2, <1>3, RegionCells, EditInPlane
  <1> QED BY <1>4 DEF LockedInv

LEMMA LockedSimSetOwned ==
  ASSUME ServerInv, ServerInv', LockedInv, SimSetOwned
  PROVE  LockedInv'
  <1>1. WorldType(world) /\ Apart(world) /\ WorldType(world') /\ Apart(world')
    BY DEF ServerInv
  <1>2. world'.chunks = world.chunks /\ world'.paused = world.paused /\ world'.tick = world.tick
    BY <1>1 DEF SimSetOwned, WorldType, IsRecord
  <1>3. Whole(world') = Whole(world)
    BY <1>1, <1>2, ClaimInPlane
  <1> QED BY <1>3 DEF LockedInv

LEMMA LockedSimReap ==
  ASSUME ServerInv, LockedInv, SimReap
  PROVE  LockedInv'
  <1> DEFINE S == Head(sim_cmd).coords
             U == Whole(world')
             V == Whole(world)
  <1>1. WorldType(world) /\ Apart(world) /\ Solo(world) /\ SimTake("Reap") /\ sim_cmd \in Seq(SimMail)
    BY DEF ServerInv, SimReap
  <1>2. /\ WorldType(world') /\ Apart(world')
        /\ DOMAIN U = DOMAIN V \ S
        /\ \A c \in DOMAIN U : U[c] = V[c]
    <2>1. world' = [world EXCEPT !.chunks = Restrict(@, DOMAIN @ \ S), !.paused = @ \ Hit(world, S)]
      BY DEF SimReap
    <2> HIDE DEF S
    <2>2. WorldType(world') /\ Apart(world') /\ IsLeft(world', world, S)
      BY <1>1, <2>1, ReapPresent
    <2> QED BY <2>2 DEF IsLeft
  <1>3. \A p \in RegionAlive \cup RegionDead : Home(p) \notin S
    <2>1. \A c \in S : ~InRegion(c)
      BY <1>1, SimHead
    <2> QED BY <2>1 DEF InRegion, Region
  <1>4. IsChunks(U) /\ IsChunks(V)
    BY <1>1, <1>2, WholeIs
  <1> HIDE DEF S, U, V
  <1>5. ASSUME NEW p \in RegionAlive \cup RegionDead PROVE p \in CellsOf(U) <=> p \in CellsOf(V)
    <2> DEFINE c == Home(p)
               x == p[1] % CHUNK_SIZE
               y == p[2] % CHUNK_SIZE
    <2>1. c \in ChunkCoord /\ x \in Idx /\ y \in Idx /\ p = CellAt(c, x, y) /\ c \notin S
      BY <1>3, RegionCells, HomeType, HomeCell
    <2> HIDE DEF c, x, y
    <2>2. CellAt(c, x, y) \in CellsOf(U) <=> c \in DOMAIN U /\ x \in U[c].rows[y]
      BY <1>4, <2>1, CellsAre
    <2>3. CellAt(c, x, y) \in CellsOf(V) <=> c \in DOMAIN V /\ x \in V[c].rows[y]
      BY <1>4, <2>1, CellsAre
    <2>4. c \in DOMAIN U <=> c \in DOMAIN V
      BY <1>2, <2>1
    <2>5. c \in DOMAIN U => U[c] = V[c]
      BY <1>2
    <2> QED BY <2>1, <2>2, <2>3, <2>4, <2>5
  <1>6. /\ \A p \in RegionAlive \cup RegionDead : Home(p) \in DOMAIN V
        /\ \A c \in DOMAIN V : V[c].frozen = Stamp(c, RegionAlive, RegionDead)
        /\ RegionAlive \subseteq CellsOf(V)
        /\ (RegionDead \ RegionAlive) \cap CellsOf(V) = {}
    BY DEF LockedInv, Stamped, V
  <1>7. Stamped(U, RegionAlive, RegionDead)
    BY <1>2, <1>3, <1>5, <1>6 DEF Stamped
  <1>8. (RegionDead \ RegionAlive) \cap CellsOf(U) = {}
    BY <1>5, <1>6
  <1> QED BY <1>7, <1>8 DEF LockedInv, U

LEMMA LockedTick ==
  ASSUME ServerInv, LockedInv, NEW Q \in SUBSET Pausable,
         NEW w, w = Pause(world, Q), world' = AfterTick(w, TickInto(w))
  PROVE  LockedInv'
  <1>1. WorldType(world) /\ Apart(world) /\ Stamped(Whole(world), RegionAlive, RegionDead)
    BY DEF ServerInv, LockedInv
  <1>2. /\ \A q \in Q : MayPause(world, q)
        /\ \A q, r \in Q : q # r => q.members \cap r.members = {}
    BY <1>1, PausableMay
  <1>3. WorldType(w) /\ Apart(w) /\ Whole(w) = Whole(world)
    BY <1>1, <1>2, PauseOK, PauseWhole
  <1>4. Stamped(Whole(w), RegionAlive, RegionDead)
    BY <1>1, <1>3
  <1> DEFINE u == AfterTick(w, TickInto(w))
  <1>5. WorldType(u) /\ Apart(u) /\ Stamped(Whole(u), RegionAlive, RegionDead)
    BY <1>3, <1>4, TickOK, TickStamped, RegionCells
  <1>6. ASSUME NEW p \in RegionDead \ RegionAlive PROVE p \notin CellsOf(Whole(u))
    <2>1. p \in Int \X Int
      BY RegionCells
    <2>2. ASSUME NEW k \in PausedCoords(u) PROVE \A q \in RegionAlive \cup RegionDead : Home(q) # k
      <3> HIDE DEF u
      <3> QED BY <1>5, RegionCells, PausedUnlocked
    <2>3. \A g \in u.paused : Home(p) \notin Members(g)
      BY <2>2 DEF PausedCoords
    <2>4. p \in CellsOf(Whole(u)) <=> NextAlive(CellsOf(Whole(w)), w.owned, RegionAlive, RegionDead, p)
      <3>1. \A g \in u.paused : Home(p) \in Members(g) => Steady(w, g)
        BY <2>3
      <3> QED BY <1>3, <1>4, <2>1, <3>1, RegionCells, TickInPlane
    <2> QED BY <2>4 DEF NextAlive
  <1> QED BY <1>5, <1>6 DEF LockedInv

LEMMA LockedSimSubscribe ==
  ASSUME ServerInv, LockedInv, SimSubscribe
  PROVE  LockedInv'
  <1>1. WorldType(world) /\ Apart(world)
    BY DEF ServerInv
  <1>2. world' = Wake(world, Head(sim_cmd).coords \ subscribed)
    BY DEF SimSubscribe
  <1>3. Whole(world') = Whole(world)
    BY <1>1, <1>2, WakeWhole
  <1> QED BY <1>3 DEF LockedInv

-----------------------------------------------------------------------------
(* The server's steps: what they send, and what it does to what is shown. *)

\* Whatever the client had made of its mail before, the new mail brings c up to
\* date; what counted on being right still counts on the mail before.
Repairs(msgs, c) ==
  \A s, e : Leads(inbox, c, Here(c), s) /\ Leads(msgs, c, s, e) /\ (c \in assured /\ ~Leaving(c) => s.rows = Truth(c))
              => e.rows = Truth(c)'

LEMMA ShownMore ==
  ASSUME MailInv, ShownInv, NEW msgs \in Seq(Mail), Send(msgs), UNCHANGED client_vars,
         connected \/ assured' = {},
         \A c \in assured' : ~Leaving(c)' => Repairs(msgs, c)
  PROVE  ShownInv'
  <1>1. CASE ~connected
    BY <1>1 DEF ShownInv
  <1>2. CASE connected
    <2>1. inbox' = inbox \o msgs /\ inbox \in Seq(Mail)
      BY <1>2 DEF Send, MailInv
    <2> SUFFICES ASSUME NEW c \in assured', ~Leaving(c)', NEW e, Leads(inbox', c, Here(c)', e)
                 PROVE  e.rows = Truth(c)'
      BY DEF ShownInv
    <2>2. Here(c)' = Here(c)
      BY DEF client_vars, Here, View
    <2>3. PICK s : Leads(inbox, c, Here(c), s) /\ Leads(msgs, c, s, e)
      <3> DEFINE h == Here(c)
                 a == inbox
      <3>1. Leads(a \o msgs, c, h, e) /\ a \in Seq(Mail)
        BY <2>1, <2>2
      <3> HIDE DEF h, a, Mail
      <3>2. \E t : Leads(a, c, h, t) /\ Leads(msgs, c, t, e)
        BY <3>1, LeadsBoth
      <3> QED BY <3>2 DEF h, a
    <2>4. c \in assured /\ ~Leaving(c) => s.rows = Truth(c)
      BY <2>3 DEF ShownInv
    <2> QED BY <2>3, <2>4 DEF Repairs
  <1> QED BY <1>1, <1>2

\* Nothing said of a chunk that stays as it is.
LEMMA RepairsPast ==
  ASSUME NEW msgs \in Seq(Mail), NEW c \in assured, ~Leaving(c), \A i \in DOMAIN msgs : Passes(msgs[i], c),
         Truth(c)' = Truth(c)
  PROVE  Repairs(msgs, c)
  <1> SUFFICES ASSUME NEW s, NEW e, Leads(msgs, c, s, e), s.rows = Truth(c)
               PROVE  e.rows = Truth(c)'
    BY DEF Repairs
  <1>1. e = s
    BY LeadsPast
  <1> QED BY <1>1

\* Deltas: a chunk is as it was told of, or not spoken of.
LEMMA LeadsDeltas ==
  ASSUME NEW w, NEW S, NEW cs \in Seq(S), Range(cs) = S, Deltas(w, cs) \in Seq(Mail), NEW c, NEW s, NEW e,
         Leads(Deltas(w, cs), c, s, e)
  PROVE  e = IF c \in S THEN [kept |-> TRUE, rows |-> w.chunks[c].rows, new |-> TRUE] ELSE s
  <1> DEFINE msgs == Deltas(w, cs)
             r == [kept |-> TRUE, rows |-> w.chunks[c].rows, new |-> TRUE]
  <1>1. DOMAIN msgs = DOMAIN cs /\ \A i \in DOMAIN cs : msgs[i] = ChunkDelta(cs[i], w.chunks[cs[i]].rows)
    BY DEF Deltas
  <1>2. \A i \in DOMAIN cs : msgs[i].type = "ChunkDelta" /\ msgs[i].coord = cs[i] /\ msgs[i].rows = w.chunks[cs[i]].rows
    BY <1>1 DEF ChunkDelta
  <1>3. msgs \in Seq(Mail) /\ Leads(msgs, c, s, e)
    OBVIOUS
  <1> HIDE DEF msgs, r, Mail
  <1>4. ASSUME NEW i \in DOMAIN msgs
        PROVE  Passes(msgs[i], c) \/ \A t : Reads(msgs[i], c, s, t) \/ Reads(msgs[i], c, r, t) => t = r
    <2>1. CASE cs[i] # c
      BY <1>1, <1>2, <2>1 DEF Passes
    <2>2. CASE cs[i] = c
      BY <1>1, <1>2, <2>2 DEF Reads, Passes, r
    <2> QED BY <2>1, <2>2
  <1>5. e = IF \A i \in DOMAIN msgs : Passes(msgs[i], c) THEN s ELSE r
    BY <1>3, <1>4, LeadsTo
  <1>6. (\A i \in DOMAIN msgs : Passes(msgs[i], c)) <=> c \notin S
    <2>1. \A i \in DOMAIN msgs : Passes(msgs[i], c) <=> cs[i] # c
      BY <1>1, <1>2 DEF Passes
    <2> QED BY <1>1, <2>1 DEF Range
  <1> QED BY <1>5, <1>6 DEF r

\* Interest while connected only.
LEMMA Assured ==
  ASSUME ClientInv
  PROVE  assured \subseteq interest /\ interest \subseteq ChunkCoord /\ (connected \/ interest = {})
  BY SeenType DEF ClientInv, CacheInv, ServerInv, OfflineInv

LEMMA EditShown ==
  ASSUME ClientInv, LockedInv, ShownInv,
         NEW p \in EditCells, NEW alive \in BOOLEAN, Edit(p, alive)
  PROVE  ShownInv'
  <1> DEFINE c == Home(p)
             x == p[1] % CHUNK_SIZE
             y == p[2] % CHUNK_SIZE
             v == Wake(world, {c})
             w == SetCellAt(v, c, x, y, alive)
             told == {k \in {c} \cap interest : Sent(w, k)}
             list == IF told = {} THEN << >> ELSE <<c>>
             m == EditApplied(p, alive)
  <1>1. /\ world' = w /\ UNCHANGED <<interest, outbox>> /\ UNCHANGED client_vars
        /\ IF c \in interest THEN Send(Deltas(w, list) \o <<m>>) ELSE UNCHANGED inbox
        /\ assured' = IF p \in Region THEN assured \ {c} ELSE assured \cup told
    BY DEF Edit, Command
  <1>2. p \in Int \X Int /\ c \in ChunkCoord /\ x \in Idx /\ y \in Idx /\ p = CellAt(c, x, y)
    BY ClientAssumption, HomeType, HomeCell
  <1>3. WorldType(world) /\ Apart(world) /\ MailInv /\ CacheInv /\ interest \subseteq Seen
    BY DEF ClientInv, ServerInv
  <1>4. WorldType(v) /\ Apart(v) /\ c \notin PausedCoords(v) /\ \A k : RowsIn(v, k) = Truth(k)
    <2>1. WorldType(v) /\ Apart(v) /\ c \notin PausedCoords(v)
      BY <1>3, WakeOK
    <2>2. \A k : RowsIn(v, k) = RowsIn(world, k)
      BY <1>3, WakeRows
    <2> HIDE DEF v
    <2> QED BY <2>1, <2>2, TruthIs
  <1>5. m.type = "EditApplied" /\ m.coord = c /\ m.x = x /\ m.y = y /\ m.alive = alive
    BY DEF EditApplied
  <1> HIDE DEF m
  <1>6. /\ c \in DOMAIN w.chunks /\ w.chunks[c] = SetCell(ChunkAt(v.chunks, c), x, y, alive)
        /\ WorldType(w) /\ Apart(w)
        /\ ChunkAt(v.chunks, c).rows = Truth(c)
        /\ \A k : k # c => RowsIn(w, k) = Truth(k)
    <2> HIDE DEF v, c, x, y
    <2>1. /\ WorldType(w) /\ Apart(w)
          /\ c \in DOMAIN w.chunks /\ w.chunks[c] = SetCell(ChunkAt(v.chunks, c), x, y, alive)
          /\ ChunkAt(v.chunks, c).rows = RowsIn(v, c)
          /\ \A k : k # c => RowsIn(w, k) = RowsIn(v, k)
      BY <1>2, <1>4, SetCellRows
    <2> HIDE DEF w
    <2> QED BY <1>4, <2>1
  <1>7. told \subseteq {c} \cap interest
    OBVIOUS
  <1> HIDE DEF told
  <1>8. \A k : Truth(k)' = RowsIn(w, k)
    <2> HIDE DEF w
    <2> QED BY <1>1, TruthNext
  <1>9. ASSUME p \notin Region
        PROVE  /\ w.chunks[c].rows = SetAt(Truth(c), x, y, alive)
               /\ SetAt(w.chunks[c].rows, x, y, alive) = w.chunks[c].rows
    <2> DEFINE ch == ChunkAt(v.chunks, c)
    <2>1. ch.rows = Truth(c)
      BY <1>6
    <2>2. ch \in Chunk
      BY <1>4, Sizes DEF WorldType, ChunkAt
    <2>3. x \notin ch.frozen.mask[y]
      <3>1. Stamped(Whole(v), RegionAlive, RegionDead)
        BY <1>3, WakeWhole DEF LockedInv
      <3>2. CASE c \in DOMAIN v.chunks
        <4>1. ch = Whole(v)[c] /\ c \in DOMAIN Whole(v)
          BY <1>4, <3>2, WholeIs DEF ChunkAt
        <4>2. ch.frozen = Stamp(c, RegionAlive, RegionDead)
          BY <3>1, <4>1 DEF Stamped
        <4> HIDE DEF c, x, y, ch
        <4> QED BY <1>2, <1>9, <4>2, StampIs DEF Region
      <3>3. CASE c \notin DOMAIN v.chunks
        BY <1>2, <3>3 DEF ChunkAt, EmptyChunk, Unlocked, EmptyRows
      <3> QED BY <3>2, <3>3
    <2>4. w.chunks[c] = SetCell(ch, x, y, alive)
      BY <1>6
    <2> HIDE DEF ch, x, y, c, w
    <2>5. w.chunks[c].rows = SetAt(ch.rows, x, y, alive)
      BY <2>2, <2>3, <2>4 DEF SetCell, SetAt, Chunk
    <2>6. SetAt(SetAt(ch.rows, x, y, alive), x, y, alive) = SetAt(ch.rows, x, y, alive)
      <3>1. ch.rows = [b \in Idx |-> ch.rows[b]]
        BY <2>2 DEF Chunk, Rows
      <3> QED BY <1>2, <3>1 DEF SetAt
    <2> QED BY <2>1, <2>5, <2>6
  <1> DEFINE d == Deltas(w, list)
  <1>10. list \in Seq(told) /\ Range(list) = told
    <2>1. CASE told = {}
      BY <2>1 DEF Range
    <2>2. CASE told # {}
      <3>1. told = {c} /\ list = <<c>>
        BY <1>7, <2>2
      <3> HIDE DEF list, c
      <3> QED BY <3>1 DEF Range
    <2> QED BY <2>1, <2>2
  <1>11. d \in Seq(Mail)
    <2>1. told \subseteq Seen /\ told \subseteq DOMAIN w.chunks /\ WorldType(w)
      <3> HIDE DEF w, v
      <3> QED BY <1>3, <1>6, <1>7
    <2> HIDE DEF w, list
    <2> QED BY <1>10, <2>1, DeltasCarry DEF Carries
  <1> HIDE DEF w, list, c, x, y
  <1>12. CASE c \in interest
    <2> DEFINE msgs == d \o <<m>>
    <2>1. m \in Mail /\ <<m>> \in Seq(Mail)
      <3>1. m \in Mail
        BY <1>2, <1>3, <1>12 DEF EditApplied, Mail, m, c, x, y
      <3> HIDE DEF Mail
      <3> QED BY <3>1
    <2>2. msgs \in Seq(Mail)
      <3> HIDE DEF d, Mail
      <3> QED BY <1>11, <2>1, ConcatProperties
    <2>3. Send(msgs)
      BY <1>1, <1>12
    <2>4. ASSUME NEW k \in assured', ~Leaving(k)'
          PROVE  Repairs(msgs, k)
      <3> SUFFICES ASSUME NEW s, NEW e, Leads(msgs, k, s, e), k \in assured /\ ~Leaving(k) => s.rows = Truth(k)
                   PROVE  e.rows = Truth(k)'
        BY DEF Repairs
      <3>1. PICK t : Leads(d, k, s, t) /\ Leads(<<m>>, k, t, e)
        <4> HIDE DEF d, Mail
        <4> QED BY <1>11, <2>1, LeadsBoth
      <3>2. t = IF k \in told THEN [kept |-> TRUE, rows |-> w.chunks[k].rows, new |-> TRUE] ELSE s
        BY <1>10, <1>11, <3>1, LeadsDeltas
      <3>3. Reads(m, k, t, e)
        BY <3>1, LeadsOne
      <3>4. ~Leaving(k)
        BY <1>1, <2>4 DEF Leaving
      <3>5. CASE k # c
        <4>1. k \notin told /\ k \in assured /\ t = s
          BY <1>1, <1>7, <2>4, <3>2, <3>5
        <4>2. e = s
          BY <1>5, <3>3, <3>5, <4>1 DEF Reads
        <4>3. Truth(k)' = Truth(k)
          BY <1>6, <1>8, <3>5
        <4> QED BY <3>4, <4>1, <4>2, <4>3
      <3>6. CASE k = c
        <4>1. p \notin Region
          BY <1>1, <2>4, <3>6
        <4>2. e.rows = SetAt(t.rows, x, y, alive)
          BY <1>5, <3>3, <3>6 DEF Reads, Passes
        <4>3. Truth(c)' = w.chunks[c].rows
          BY <1>6, <1>8, RowsAre
        <4>4. CASE k \in told
          <5>1. t.rows = w.chunks[c].rows
            BY <3>2, <3>6, <4>4
          <5> QED BY <1>9, <1>12, <3>6, <4>1, <4>2, <4>3, <5>1
        <4>5. CASE k \notin told
          <5>1. k \in assured /\ t = s
            BY <1>1, <3>2, <4>1, <4>5, <2>4
          <5> QED BY <1>9, <1>12, <3>4, <3>6, <4>1, <4>2, <4>3, <5>1
        <4> QED BY <4>4, <4>5
      <3> QED BY <3>5, <3>6
    <2>5. connected
      BY <1>12, Assured
    <2> HIDE DEF msgs
    <2> QED BY <1>1, <1>3, <2>2, <2>3, <2>4, <2>5, ShownMore
  <1>13. CASE c \notin interest
    <2>1. Send(<< >>)
      <3>1. inbox \o << >> = inbox
        <4>1. inbox \in Seq(Mail)
          BY <1>3 DEF MailInv
        <4> HIDE DEF Mail
        <4> QED BY <4>1, ConcatEmptySeq
      <3> QED BY <1>1, <1>13, <3>1 DEF Send
    <2>2. assured' \subseteq assured /\ c \notin assured'
      BY <1>1, <1>3, <1>7, <1>13 DEF CacheInv
    <2>3. ASSUME NEW k \in assured', ~Leaving(k)'
          PROVE  Repairs(<< >>, k)
      <3>1. ~Leaving(k) /\ k \in assured /\ k \in interest /\ k # c
        BY <1>1, <1>3, <2>2, <2>3 DEF Leaving, CacheInv
      <3>2. Truth(k)' = Truth(k)
        BY <1>6, <1>8, <3>1
      <3>3. << >> \in Seq(Mail) /\ DOMAIN << >> = {}
        OBVIOUS
      <3> QED BY <3>1, <3>2, <3>3, RepairsPast
    <2>4. << >> \in Seq(Mail)
      OBVIOUS
    <2>5. connected \/ assured' = {}
      BY <2>2, Assured
    <2> HIDE DEF Mail
    <2> QED BY <1>1, <1>3, <2>1, <2>3, <2>4, <2>5, ShownMore
  <1> QED BY <1>12, <1>13

\* No mail, and nothing in view has changed.
LEMMA SilentShown ==
  ASSUME ClientInv, ShownInv, UNCHANGED <<inbox, client_vars>>, assured' \subseteq assured,
         \A c \in assured' : ~Leaving(c)' => ~Leaving(c) /\ Truth(c)' = Truth(c)
  PROVE  ShownInv'
  <1>1. MailInv
    BY DEF ClientInv
  <1>2. << >> \in Seq(Mail) /\ DOMAIN << >> = {}
    OBVIOUS
  <1>3. Send(<< >>)
    <2>1. inbox \o << >> = inbox
      <3>1. inbox \in Seq(Mail)
        BY <1>1 DEF MailInv
      <3> HIDE DEF Mail
      <3> QED BY <3>1, ConcatEmptySeq
    <2> QED BY <2>1 DEF Send
  <1>4. ASSUME NEW c \in assured', ~Leaving(c)' PROVE Repairs(<< >>, c)
    BY <1>2, <1>4, RepairsPast
  <1>5. connected \/ assured' = {}
    BY Assured
  <1> HIDE DEF Mail
  <1> QED BY <1>1, <1>2, <1>3, <1>4, <1>5, ShownMore

LEMMA SetOwnedShown ==
  ASSUME ClientInv, ShownInv, NEW S, SetOwned(S)
  PROVE  ShownInv'
  <1>1. UNCHANGED <<world, inbox, assured, outbox, client_vars>>
    BY DEF SetOwned, Command, sim_vars
  <1>2. \A c : Truth(c)' = Truth(c) /\ (Leaving(c)' <=> Leaving(c))
    BY <1>1 DEF Truth, Leaving
  <1> QED BY <1>1, <1>2, SilentShown

LEMMA SimSetOwnedShown ==
  ASSUME ClientInv, ServerInv', ShownInv, SimSetOwned
  PROVE  ShownInv'
  <1>1. WorldType(world) /\ Apart(world) /\ WorldType(world') /\ Apart(world')
    BY DEF ClientInv, ServerInv
  <1>2. /\ world' = [world EXCEPT !.owned = Head(sim_cmd).coords]
        /\ UNCHANGED <<inbox, assured, outbox, client_vars>>
    BY DEF SimSetOwned, SimTake
  <1>3. world'.chunks = world.chunks /\ world'.paused = world.paused /\ world'.tick = world.tick
    BY <1>1, <1>2 DEF WorldType, IsRecord
  <1>4. Whole(world') = Whole(world)
    BY <1>1, <1>3, ClaimInPlane
  <1>5. \A c : Truth(c)' = Truth(c) /\ (Leaving(c)' <=> Leaving(c))
    BY <1>2, <1>4, TruthIs, TruthNext DEF RowsIn, Leaving
  <1> QED BY <1>2, <1>5, SilentShown

LEMMA SimUnsubscribeShown ==
  ASSUME ClientInv, ShownInv, SimUnsubscribe
  PROVE  ShownInv'
  <1>1. UNCHANGED <<world, inbox, assured, outbox, client_vars>>
    BY DEF SimUnsubscribe, SimTake
  <1>2. \A c : Truth(c)' = Truth(c) /\ (Leaving(c)' <=> Leaving(c))
    BY <1>1 DEF Truth, Leaving
  <1> QED BY <1>1, <1>2, SilentShown

\* What the sim removes is vouched for no longer; the rest stays as it is.
LEMMA SimReapShown ==
  ASSUME ClientInv, ShownInv, SimReap
  PROVE  ShownInv'
  <1> DEFINE S == Head(sim_cmd).coords
  <1>1. /\ world' = [world EXCEPT !.chunks = Restrict(@, DOMAIN @ \ S), !.paused = @ \ Hit(world, S)]
        /\ assured' = assured \ S
        /\ UNCHANGED <<inbox, outbox, client_vars>>
    BY DEF SimReap, SimTake
  <1>2. WorldType(world) /\ Apart(world) /\ Solo(world)
    BY DEF ClientInv, ServerInv
  <1> HIDE DEF S
  <1>3. IsLeft(world', world, S)
    BY <1>1, <1>2, ReapPresent
  <1>4. \A c : c \notin S => Truth(c)' = Truth(c)
    <2>1. \A c : c \notin S => ChunkAt(Whole(world'), c) = ChunkAt(Whole(world), c)
      BY <1>3 DEF ChunkAt, IsLeft
    <2> QED BY <2>1, TruthIs, TruthNext DEF RowsIn
  <1>5. \A c \in assured' : ~Leaving(c)' => ~Leaving(c) /\ Truth(c)' = Truth(c)
    BY <1>1, <1>4 DEF Leaving
  <1> QED BY <1>1, <1>5, SilentShown

\* What is woken and sent comes as it is, and waking changes nothing.
LEMMA SimSubscribeShown ==
  ASSUME ClientInv, ShownInv, SimSubscribe
  PROVE  ShownInv'
  <1> DEFINE S     == Head(sim_cmd).coords
             woken == (S \ subscribed) \cap PausedCoords(world)
             w     == Wake(world, S \ subscribed)
             told  == {c \in woken \cap interest : Sent(w, c)}
  <1>1. /\ world' = w
        /\ assured' = assured \cup told
        /\ UNCHANGED <<interest, outbox, client_vars>>
    BY DEF SimSubscribe, SimTake
  <1>2. PICK news \in Orders(told) : Send(Deltas(w, news))
    BY DEF SimSubscribe
  <1>3. /\ WorldType(world) /\ Apart(world) /\ Solo(world) /\ IsFiniteSet(Present(world)) /\ MailInv
        /\ interest \subseteq Seen /\ IsFiniteSet(interest)
    BY DEF ClientInv, ServerInv
  <1>4. WorldType(w) /\ Apart(w) /\ \A c : RowsIn(w, c) = RowsIn(world, c)
    BY <1>3, WakeOK, WakeRows
  <1>5. woken \subseteq DOMAIN w.chunks
    <2>1. DOMAIN w.chunks = DOMAIN world.chunks \cup Woken(world, S \ subscribed)
      BY <1>3, WakeChunks
    <2>2. (S \ subscribed) \cap PausedCoords(world) \subseteq Woken(world, S \ subscribed)
      BY DEF PausedCoords, Woken, Hit
    <2> HIDE DEF w, S
    <2> QED BY <2>1, <2>2
  <1>6. told \subseteq woken /\ told \subseteq interest
    OBVIOUS
  <1> HIDE DEF S, w, woken, told
  <1>7. \A c : Truth(c)' = Truth(c)
    BY <1>1, <1>4, TruthIs, TruthNext
  <1>8. \A c \in told : w.chunks[c].rows = Truth(c)
    BY <1>4, <1>5, <1>6, RowsAre, TruthIs
  <1>9. news \in Seq(told) /\ Range(news) = told
    <2>1. IsFiniteSet(told)
      BY <1>3, <1>6, FS_Subset
    <2> QED BY <2>1, OrdersAre
  <1> DEFINE deltas == Deltas(w, news)
  <1>10. deltas \in Seq(Mail)
    <2>1. told \subseteq Seen /\ told \subseteq DOMAIN w.chunks
      BY <1>3, <1>5, <1>6
    <2> QED BY <1>4, <1>9, <2>1, DeltasCarry DEF Carries
  <1> HIDE DEF Mail
  <1>11. ASSUME NEW c \in assured', ~Leaving(c)' PROVE Repairs(deltas, c)
    <2> SUFFICES ASSUME NEW s, NEW e, Leads(deltas, c, s, e), c \in assured /\ ~Leaving(c) => s.rows = Truth(c)
                 PROVE  e.rows = Truth(c)'
      BY DEF Repairs
    <2>1. e = IF c \in told THEN [kept |-> TRUE, rows |-> w.chunks[c].rows, new |-> TRUE] ELSE s
      BY <1>9, <1>10, LeadsDeltas
    <2>2. ~Leaving(c)
      BY <1>1, <1>11 DEF Leaving
    <2>3. CASE c \in told
      BY <1>7, <1>8, <2>1, <2>3
    <2>4. CASE c \notin told
      BY <1>1, <1>7, <1>11, <2>1, <2>2, <2>4
    <2> QED BY <2>3, <2>4
  <1>12. connected \/ assured' = {}
    BY <1>1, <1>6, Assured
  <1>13. Send(deltas)
    BY <1>2
  <1> HIDE DEF deltas
  <1> QED BY <1>1, <1>3, <1>10, <1>11, <1>12, <1>13, ShownMore

\* A request that the hub has not taken yet is still on its way.
LEMMA StillLeaving ==
  ASSUME MailInv, outbox # << >>, outbox' = Tail(outbox), NEW c,
         Head(outbox).type = "Subscribe" \/ c \notin Head(outbox).coords, Leaving(c)
  PROVE  Leaving(c)'
  <1>1. PICK i \in DOMAIN outbox : outbox[i].type = "Unsubscribe" /\ c \in outbox[i].coords
    BY DEF Leaving
  <1> DEFINE t == Tail(outbox)
  <1>2. /\ DOMAIN outbox = 1..Len(outbox) /\ Len(outbox) \in Nat /\ Head(outbox) = outbox[1]
        /\ DOMAIN t = 1..(Len(outbox) - 1)
        /\ \A j \in 1..(Len(outbox) - 1) : t[j] = outbox[j + 1]
    BY OutboxHead
  <1>3. outbox' = t
    OBVIOUS
  <1> HIDE DEF t
  <1>4. i # 1
    BY <1>1, <1>2
  <1>5. i - 1 \in DOMAIN t /\ t[i - 1] = outbox[i]
    BY <1>1, <1>2, <1>4
  <1> QED BY <1>1, <1>3, <1>5 DEF Leaving

LEMMA UnsubscribeShown ==
  ASSUME ClientInv, ShownInv, HubReceive, Head(outbox).type # "Subscribe"
  PROVE  ShownInv'
  <1>1. /\ outbox # << >> /\ outbox' = Tail(outbox) /\ UNCHANGED <<world, inbox, client_vars>>
        /\ assured' = assured \ Head(outbox).coords
    BY DEF HubReceive, Unsubscribe, sim_vars
  <1>2. MailInv
    BY DEF ClientInv
  <1>3. \A c \in assured' : Leaving(c) => Leaving(c)'
    BY <1>1, <1>2, StillLeaving
  <1>4. \A c \in assured' : ~Leaving(c)' => ~Leaving(c) /\ Truth(c)' = Truth(c)
    BY <1>1, <1>3 DEF Truth
  <1> QED BY <1>1, <1>4, SilentShown

\* Reapings: a chunk is gone, or not spoken of.
LEMMA LeadsReaped ==
  ASSUME NEW S, NEW cs \in Seq(S), Range(cs) = S, NEW msgs \in Seq(Mail), DOMAIN msgs = DOMAIN cs,
         \A i \in DOMAIN cs : msgs[i].type = "Reaped" /\ msgs[i].coord = cs[i],
         NEW c, NEW s, NEW e, Leads(msgs, c, s, e)
  PROVE  e = IF c \in S THEN [kept |-> FALSE, rows |-> EmptyRows, new |-> FALSE] ELSE s
  <1> DEFINE r == [kept |-> FALSE, rows |-> EmptyRows, new |-> FALSE]
  <1> HIDE DEF r, Mail
  <1>1. ASSUME NEW i \in DOMAIN msgs
        PROVE  Passes(msgs[i], c) \/ \A t : Reads(msgs[i], c, s, t) \/ Reads(msgs[i], c, r, t) => t = r
    <2>1. CASE cs[i] # c
      BY <2>1 DEF Passes
    <2>2. CASE cs[i] = c
      BY <2>2 DEF Reads, Passes, r
    <2> QED BY <2>1, <2>2
  <1>2. e = IF \A i \in DOMAIN msgs : Passes(msgs[i], c) THEN s ELSE r
    BY <1>1, LeadsTo
  <1>3. (\A i \in DOMAIN msgs : Passes(msgs[i], c)) <=> c \notin S
    <2>1. \A i \in DOMAIN msgs : Passes(msgs[i], c) <=> cs[i] # c
      BY DEF Passes
    <2> QED BY <2>1 DEF Range
  <1> QED BY <1>2, <1>3 DEF r

\* What a tick's mail makes of a chunk.
LEMMA LeadsTick ==
  ASSUME NEW reaps \in Seq(Mail), NEW removed, NEW gone \in Seq(removed), Range(gone) = removed,
         DOMAIN reaps = DOMAIN gone, \A i \in DOMAIN gone : reaps[i].type = "Reaped" /\ reaps[i].coord = gone[i],
         NEW u, NEW told, NEW news \in Seq(told), Range(news) = told,
         NEW deltas \in Seq(Mail), deltas = Deltas(u, news),
         NEW sync \in Mail, sync = Sync(told),
         NEW c, NEW s, NEW e, Leads((reaps \o deltas) \o <<sync>>, c, s, e)
  PROVE  /\ c \in told => e.rows = u.chunks[c].rows
         /\ c \in removed \ told => e.rows = EmptyRows
         /\ c \notin removed \cup told => e.rows = Alone(c, s.rows)
  <1>1. PICK t, v : Leads(reaps, c, s, t) /\ Leads(deltas, c, t, v) /\ Reads(sync, c, v, e)
    <2> HIDE DEF Mail
    <2> DEFINE both == reaps \o deltas
               last == <<sync>>
    <2>1. both \in Seq(Mail) /\ last \in Seq(Mail) /\ Leads(both \o last, c, s, e)
      BY ConcatProperties
    <2> HIDE DEF both, last
    <2>2. PICK v : Leads(both, c, s, v) /\ Leads(last, c, v, e)
      BY <2>1, LeadsBoth
    <2>3. PICK t : Leads(reaps, c, s, t) /\ Leads(deltas, c, t, v)
      <3>1. Leads(reaps \o deltas, c, s, v)
        BY <2>2 DEF both
      <3> QED BY <3>1, LeadsBoth
    <2>4. Reads(sync, c, v, e)
      <3>1. Leads(<<sync>>, c, v, e)
        BY <2>2 DEF last
      <3> QED BY <3>1, LeadsOne
    <2> QED BY <2>3, <2>4
  <1>2. t = IF c \in removed THEN [kept |-> FALSE, rows |-> EmptyRows, new |-> FALSE] ELSE s
    BY <1>1, LeadsReaped
  <1>3. v = IF c \in told THEN [kept |-> TRUE, rows |-> u.chunks[c].rows, new |-> TRUE] ELSE t
    <2> HIDE DEF Mail
    <2>1. Deltas(u, news) \in Seq(Mail) /\ Leads(Deltas(u, news), c, t, v)
      BY <1>1
    <2> QED BY <2>1, LeadsDeltas
  <1>4. sync.type = "Sync" /\ sync.told = told
    BY DEF Sync
  <1>5. IF c \in told THEN v.new \/ ~v.kept => e.rows = v.rows ELSE e.rows = Alone(c, v.rows)
    BY <1>1, <1>4 DEF Reads, Passes
  <1>6. c \in told => e.rows = u.chunks[c].rows
    BY <1>3, <1>5
  <1>7. c \in removed \ told => e.rows = EmptyRows
    BY <1>2, <1>3, <1>5, AloneEmpty
  <1>8. c \notin removed \cup told => e.rows = Alone(c, s.rows)
    BY <1>2, <1>3, <1>5
  <1> QED BY <1>6, <1>7, <1>8

\* A watched chunk no running chunk shows a cell takes the step the browser takes.
LEMMA TickTruth ==
  ASSUME ServerInv, LockedInv, RecursInv, NEW Q \in SUBSET Pausable, NEW w, w = Pause(world, Q),
         NEW u, u = AfterTick(w, TickInto(w)), NEW c \in interest, c \notin Disturbed(w.chunks)
  PROVE  RowsIn(u, c) = Alone(c, Truth(c))
  <1>1. WorldType(world) /\ Apart(world) /\ Solo(world) /\ c \in ChunkCoord
    BY SeenType DEF ServerInv
  <1>2. /\ \A q \in Q : MayPause(world, q) /\ \E k : q.members = {k}
        /\ \A q, r \in Q : q # r => q.members \cap r.members = {}
    BY <1>1, PausableMay
  <1>3. WorldType(w) /\ Apart(w) /\ Solo(w) /\ Whole(w) = Whole(world)
    BY <1>1, <1>2, PauseOK, PausePresent, PauseWhole
  <1>4. RecursIn(w)
    BY <1>1, RecursPause DEF RecursInv
  <1>5. Halo(EdgesOf(w.chunks), c) = EmptyBundle
    BY DEF Disturbed
  <1>6. RowsIn(u, c) = Step(ChunkAt(Whole(w), c), EmptyBundle).rows
    BY <1>1, <1>3, <1>4, <1>5, TickQuiet
  <1>7. Alone(c, RowsIn(world, c)) = Step(ChunkAt(Whole(world), c), EmptyBundle).rows
    BY <1>1, AloneIs
  <1> QED BY <1>3, <1>6, <1>7, TruthIs

LEMMA TickShown ==
  ASSUME ClientInv, LockedInv, RecursInv, ShownInv, Tick
  PROVE  ShownInv' /\ LockedInv' /\ RecursInv'
  <1>1. PICK Q, S, gone, news, reaped : TickOf(Q, S, gone, news, reaped)
    BY TickIs
  <1>2. UNCHANGED <<interest, outbox>> /\ UNCHANGED client_vars
    BY TickIs
  <1> DEFINE w       == Pause(world, Q)
             t       == TickInto(w)
             after   == AfterTick(w, t)
             changed == t.changed \cap DOMAIN after.chunks
             told    == {c \in changed \cap interest : Sent(after, c)}
             m       == Mirrored(after, changed, t.removed)
  <1>3. /\ Q \in SUBSET Pausable /\ S \in Reapable(m)
        /\ gone \in Orders(t.removed) /\ news \in Orders(told) /\ reaped \in Orders(S)
        /\ world' = after
        /\ assured' = (assured \ Disturbed(w.chunks)) \cup told \cup (t.removed \cap interest)
    BY <1>1 DEF TickOf
  <1>4. Send(Reaps(gone) \o Deltas(after, news) \o <<Sync(told)>> \o Reaps(reaped))
    BY <1>1 DEF TickOf
  <1>5. /\ ServerInv /\ MailInv /\ assured \subseteq interest /\ interest \subseteq ChunkCoord
        /\ WorldType(world) /\ Apart(world) /\ Solo(world) /\ IsFiniteSet(Present(world)) /\ MirrorInv
    BY Assured DEF ClientInv, ServerInv
  <1>6. /\ \A q \in Q : MayPause(world, q) /\ \E c : q.members = {c}
        /\ \A q, r \in Q : q # r => q.members \cap r.members = {}
    BY <1>3, <1>5, PausableMay
  <1>7. WorldType(w) /\ Apart(w) /\ Present(w) = Present(world) /\ Solo(w)
    BY <1>5, <1>6, PauseOK, PausePresent
  <1>8. LockedInv'
    BY <1>3, <1>5, LockedTick
  <1>9. RecursInv'
    <2>1. RecursIn(w)
      BY <1>3, <1>5, RecursPause DEF RecursInv
    <2> HIDE DEF w
    <2>2. after.paused \subseteq w.paused
      BY <1>7 DEF AfterTick, WorldType, IsRecord
    <2>3. RecursIn(after)
      BY <2>1, <2>2, RecursLess
    <2> HIDE DEF after
    <2> QED BY <1>3, <2>3 DEF RecursInv, RecursIn
  <1>10. \A c \in interest \ Disturbed(w.chunks) : RowsIn(after, c) = Alone(c, Truth(c))
    BY <1>3, <1>5, TickTruth DEF RecursInv
  <1> HIDE DEF w
  <1>11. WorldType(after) /\ Apart(after)
    BY <1>7, TickOK
  <1>12. /\ IsFiniteSet(t.removed) /\ t.removed \subseteq ChunkCoord /\ t.removed \cap Present(after) = {}
         /\ IsFiniteSet(Present(after))
    BY <1>5, <1>7, TickPresent
  <1>13. /\ told \subseteq interest /\ told \subseteq changed /\ changed \subseteq DOMAIN after.chunks
         /\ IsFiniteSet(changed) /\ IsFiniteSet(told) /\ told \subseteq Seen
    <2>1. told \subseteq interest /\ told \subseteq changed /\ changed \subseteq DOMAIN after.chunks
      OBVIOUS
    <2> HIDE DEF told, changed, after
    <2>2. changed \subseteq Present(after)
      BY <2>1 DEF Present
    <2> QED BY <1>5, <1>12, <2>1, <2>2, FS_Subset DEF ServerInv
  <1> HIDE DEF t, after, changed, told
  <1>14. S \cap interest = {} /\ S \subseteq ChunkCoord /\ IsFiniteSet(S)
    <2>1. DOMAIN m \subseteq ChunkCoord /\ IsFiniteSet(DOMAIN m)
      BY <1>5, <1>11, <1>13, MirroredIs
    <2> HIDE DEF m
    <2>2. S \subseteq DOMAIN m \ interest
      BY <1>3 DEF Reapable
    <2> QED BY <2>1, <2>2, FS_Subset
  <1> HIDE DEF m
  <1>15. /\ gone \in Seq(t.removed) /\ Range(gone) = t.removed
         /\ news \in Seq(told) /\ Range(news) = told
         /\ reaped \in Seq(S) /\ Range(reaped) = S
    BY <1>3, <1>12, <1>13, <1>14, OrdersAre
  <1> DEFINE reaps  == Reaps(gone)
             deltas == Deltas(after, news)
             sync   == Sync(told)
             front  == (reaps \o deltas) \o <<sync>>
             back   == Reaps(reaped)
             msgs   == front \o back
  <1>16. /\ reaps \in Seq(Mail) /\ DOMAIN reaps = DOMAIN gone
         /\ \A i \in DOMAIN gone : reaps[i].type = "Reaped" /\ reaps[i].coord = gone[i]
    BY <1>12, <1>15, ReapsAre
  <1>17. /\ back \in Seq(Mail) /\ DOMAIN back = DOMAIN reaped
         /\ \A i \in DOMAIN reaped : back[i].type = "Reaped" /\ back[i].coord = reaped[i]
    BY <1>14, <1>15, ReapsAre
  <1>18. deltas \in Seq(Mail)
    <2>1. told \subseteq DOMAIN after.chunks
      BY <1>13
    <2> QED BY <1>11, <1>13, <1>15, <2>1, DeltasCarry DEF Carries
  <1>19. sync \in Mail
    BY <1>13 DEF Sync, Mail
  <1>20. Send(msgs)
    BY <1>4
  <1> HIDE DEF reaps, back, Mail
  <1>21. front \in Seq(Mail)
    <2> HIDE DEF deltas, sync
    <2>1. <<sync>> \in Seq(Mail)
      BY <1>19
    <2>2. reaps \o deltas \in Seq(Mail)
      BY <1>16, <1>18, ConcatProperties
    <2> QED BY <2>1, <2>2, ConcatProperties
  <1>22. ASSUME NEW c, NEW s, NEW e, Leads(front, c, s, e)
         PROVE  /\ c \in told => e.rows = after.chunks[c].rows
                /\ c \in t.removed \ told => e.rows = EmptyRows
                /\ c \notin t.removed \cup told => e.rows = Alone(c, s.rows)
    BY <1>15, <1>16, <1>18, <1>19, <1>22, LeadsTick, SMTT(30)
  <1> HIDE DEF front
  <1>23. msgs \in Seq(Mail)
    BY <1>17, <1>21, ConcatProperties
  <1>24. ASSUME NEW c \in interest, NEW s, NEW e, Leads(msgs, c, s, e)
         PROVE  Leads(front, c, s, e)
    <2>1. PICK v : Leads(front, c, s, v) /\ Leads(back, c, v, e)
      BY <1>17, <1>21, <1>24, LeadsBoth
    <2>2. e = IF c \in S THEN [kept |-> FALSE, rows |-> EmptyRows, new |-> FALSE] ELSE v
      BY <1>15, <1>17, <2>1, LeadsReaped
    <2> QED BY <1>14, <2>1, <2>2
  <1> HIDE DEF msgs
  <1>25. \A c : Truth(c)' = RowsIn(after, c)
    BY <1>3, TruthNext
  <1>26. ASSUME NEW c \in assured', ~Leaving(c)' PROVE Repairs(msgs, c)
    <2> SUFFICES ASSUME NEW s, NEW e, Leads(msgs, c, s, e), c \in assured /\ ~Leaving(c) => s.rows = Truth(c)
                 PROVE  e.rows = Truth(c)'
      BY DEF Repairs
    <2>1. ~Leaving(c)
      BY <1>2, <1>26 DEF Leaving
    <2>2. c \in interest
      BY <1>3, <1>5, <1>13, <1>26
    <2>3. Leads(front, c, s, e)
      BY <1>24, <2>2
    <2>4. CASE c \in told
      <3>1. RowsIn(after, c) = after.chunks[c].rows
        BY <1>11, <1>13, <2>4, RowsAre
      <3> QED BY <1>22, <1>25, <2>3, <2>4, <3>1
    <2>5. CASE c \in t.removed \ told
      <3>1. RowsIn(after, c) = EmptyRows
        BY <1>11, <1>12, <2>5, RowsAre
      <3> QED BY <1>22, <1>25, <2>3, <2>5, <3>1
    <2>6. CASE c \notin t.removed \cup told
      <3>1. c \in assured /\ c \in interest \ Disturbed(w.chunks)
        BY <1>3, <1>5, <1>26, <2>6
      <3>2. s.rows = Truth(c)
        BY <2>1, <3>1
      <3> QED BY <1>10, <1>22, <1>25, <2>3, <2>6, <3>1, <3>2
    <2> QED BY <2>4, <2>5, <2>6
  <1>27. connected \/ assured' = {}
    BY <1>3, <1>5, <1>13, Assured
  <1>28. ShownInv'
    BY <1>2, <1>5, <1>20, <1>23, <1>26, <1>27, ShownMore
  <1> QED BY <1>8, <1>9, <1>28

\* States: a chunk is as it was told of, or not spoken of.
LEMMA LeadsStates ==
  ASSUME NEW S, NEW cs \in Seq(S), Range(cs) = S, NEW msgs \in Seq(Mail), DOMAIN msgs = DOMAIN cs,
         \A i \in DOMAIN cs : /\ msgs[i].type = "ChunkState" /\ msgs[i].coord = cs[i]
                              /\ msgs[i].rows = mirror[cs[i]],
         NEW c, NEW s, NEW e, Leads(msgs, c, s, e)
  PROVE  e.rows = IF c \in S THEN mirror[c] ELSE s.rows
  <1> DEFINE rows == mirror[c]
             r == [kept |-> TRUE, rows |-> rows, new |-> s.new]
  <1> HIDE DEF Mail, rows, r
  <1>1. ASSUME NEW i \in DOMAIN msgs
        PROVE  Passes(msgs[i], c) \/ \A t : Reads(msgs[i], c, s, t) \/ Reads(msgs[i], c, r, t) => t = r
    <2>1. CASE cs[i] # c
      BY <2>1 DEF Passes
    <2>2. CASE cs[i] = c
      <3>1. msgs[i].type = "ChunkState" /\ msgs[i].coord = c /\ msgs[i].rows = rows
        BY <2>2 DEF rows
      <3> QED BY <3>1 DEF Reads, Passes, r
    <2> QED BY <2>1, <2>2
  <1>2. e = IF \A i \in DOMAIN msgs : Passes(msgs[i], c) THEN s ELSE r
    <2>1. msgs \in Seq(Mail) /\ Leads(msgs, c, s, e)
      OBVIOUS
    <2> QED BY ONLY <1>1, <2>1, LeadsTo
  <1>3. (\A i \in DOMAIN msgs : Passes(msgs[i], c)) <=> c \notin S
    <2>1. \A i \in DOMAIN msgs : Passes(msgs[i], c) <=> cs[i] # c
      BY DEF Passes
    <2> QED BY <2>1 DEF Range
  <1> QED BY <1>2, <1>3 DEF r, rows

\* What is seeded comes as it is mirrored, and what is not was not cached.
LEMMA SubscribeShown ==
  ASSUME ClientInv, ShownInv, HubReceive, Head(outbox).type = "Subscribe"
  PROVE  ShownInv'
  <1> DEFINE S     == Head(outbox).coords
             new   == S \ interest
             seed  == {c \in new \cap DOMAIN mirror : mirror[c] # EmptyRows \/ InRegion(c)}
             fresh == {c \in new : IF c \in seed THEN mirror[c] = Truth(c)
                                   ELSE c \notin DOMAIN mirror /\ Truth(c) = EmptyRows}
  <1>1. /\ outbox # << >> /\ outbox' = Tail(outbox) /\ UNCHANGED <<world, client_vars>>
        /\ Subscribe(S)
    BY DEF HubReceive, sim_vars
  <1>2. assured' = assured \cup fresh
    BY <1>1 DEF Subscribe
  <1>3. PICK first \in Orders(seed) : Send([i \in DOMAIN first |-> ChunkState(first[i], mirror[first[i]])])
    BY <1>1 DEF Subscribe
  <1>4. /\ ServerInv /\ MailInv /\ HeldInv /\ OfflineInv /\ assured \subseteq interest /\ MirrorInv
    BY Assured DEF ClientInv, ServerInv
  <1>5. S \subseteq Seen /\ IsFiniteSet(S)
    <2>1. Head(outbox) \in HubMail
      BY <1>1, <1>4, OutboxHead
    <2> QED BY <2>1 DEF HubMail
  <1>6. /\ seed \subseteq S /\ seed \subseteq DOMAIN mirror /\ seed \cap interest = {}
        /\ \A c \in fresh \cap seed : mirror[c] = Truth(c)
        /\ \A c \in fresh \ seed : c \notin DOMAIN mirror /\ Truth(c) = EmptyRows
    OBVIOUS
  <1> HIDE DEF S, new, seed, fresh
  <1>7. seed \subseteq Seen /\ first \in Seq(seed) /\ Range(first) = seed
    <2>1. seed \subseteq Seen /\ IsFiniteSet(seed)
      BY <1>5, <1>6, FS_Subset
    <2> QED BY <2>1, OrdersAre
  <1> DEFINE states == [i \in DOMAIN first |-> ChunkState(first[i], mirror[first[i]])]
  <1>8. states \in Seq(Mail)
    <2>1. mirror \in [DOMAIN mirror -> Rows]
      BY <1>4 DEF MirrorInv
    <2> QED BY <1>6, <1>7, <2>1, StatesCarry DEF Carries
  <1>9. DOMAIN states = DOMAIN first
        /\ \A i \in DOMAIN first : /\ states[i].type = "ChunkState" /\ states[i].coord = first[i]
                                   /\ states[i].rows = mirror[first[i]]
    BY DEF ChunkState
  <1> HIDE DEF states, Mail
  <1>10. ASSUME NEW c, NEW s, NEW e, Leads(states, c, s, e)
         PROVE  e.rows = IF c \in seed THEN mirror[c] ELSE s.rows
    BY <1>7, <1>8, <1>9, <1>10, LeadsStates
  <1>11. \A c : Truth(c)' = Truth(c)
    BY <1>1 DEF Truth
  <1>12. ASSUME NEW c \in assured', ~Leaving(c)' PROVE Repairs(states, c)
    <2> SUFFICES ASSUME NEW s, NEW e, Leads(inbox, c, Here(c), s), Leads(states, c, s, e),
                        c \in assured /\ ~Leaving(c) => s.rows = Truth(c)
                 PROVE  e.rows = Truth(c)'
      BY DEF Repairs
    <2>1. CASE c \in fresh \cap seed
      BY <1>6, <1>10, <1>11, <2>1
    <2>2. CASE c \in fresh \ seed
      <3>1. s.rows = EmptyRows
        BY <1>4, <1>6, <2>2, GoneEmpty DEF HeldInv
      <3> QED BY <1>6, <1>10, <1>11, <2>2, <3>1
    <2>3. CASE c \notin fresh
      <3>1. c \in assured /\ c \notin seed
        BY <1>2, <1>4, <1>6, <1>12, <2>3
      <3>2. ~Leaving(c)
        BY <1>1, <1>4, <1>12, StillLeaving
      <3> QED BY <1>10, <1>11, <3>1, <3>2
    <2> QED BY <2>1, <2>2, <2>3
  <1>13. connected
    BY <1>1, <1>4 DEF OfflineInv
  <1>14. Send(states)
    BY <1>3 DEF states
  <1> QED BY <1>1, <1>4, <1>8, <1>12, <1>13, <1>14, ShownMore

-----------------------------------------------------------------------------
(* What is shown is right, always. *)

ViewInv == ClientInv /\ LockedInv /\ RecursInv /\ ShownInv

LEMMA ViewInit == Init => ViewInv
  <1> SUFFICES ASSUME Init PROVE ViewInv
    OBVIOUS
  <1>1. ClientInv
    BY ClientInit
  <1>2. LockedInv
    BY <1>1, LockedInit DEF ClientInv
  <1>3. assured = {} /\ world.paused = {}
    BY DEF Init
  <1> QED BY <1>1, <1>2, <1>3 DEF ViewInv, RecursInv, RecursIn, ShownInv

\* The steps that leave the world alone.
LEMMA ViewClient ==
  ASSUME ViewInv, ClientInv', ShownInv', UNCHANGED world
  PROVE  ViewInv'
  BY DEF ViewInv, LockedInv, RecursInv

\* The steps that only wake or remove what is paused.
LEMMA ViewSim ==
  ASSUME ViewInv, ClientInv', LockedInv', ShownInv', world'.paused \subseteq world.paused
  PROVE  ViewInv'
  <1>1. RecursInv'
    BY RecursLess DEF ViewInv, RecursInv, RecursIn
  <1> QED BY <1>1 DEF ViewInv

LEMMA ViewNext == ViewInv /\ [Next]_vars => ViewInv'
  <1> SUFFICES ASSUME ViewInv, [Next]_vars PROVE ViewInv'
    OBVIOUS
  <1>0. /\ ClientInv /\ LockedInv /\ RecursInv /\ ShownInv /\ ServerInv /\ MailInv /\ ClientInv' /\ ServerInv'
        /\ WorldType(world) /\ Apart(world)
    BY ClientNext DEF ViewInv, ClientInv, ServerInv
  <1>1. ASSUME NEW p \in EditCells, NEW alive \in BOOLEAN, Edit(p, alive) PROVE ViewInv'
    <2>1. LockedInv' /\ ShownInv'
      BY <1>0, <1>1, LockedEdit, EditShown
    <2>2. world'.paused \subseteq world.paused
      <3> DEFINE v == Wake(world, {Home(p)})
      <3>1. world' = SetCellAt(v, Home(p), p[1] % CHUNK_SIZE, p[2] % CHUNK_SIZE, alive)
        BY <1>1 DEF Edit
      <3>2. IsRecord(v) /\ v.paused = world.paused \ Hit(world, {Home(p)})
        BY <1>0, WakeIs DEF WorldType
      <3> HIDE DEF v
      <3>3. world'.paused = v.paused
        BY <3>1, <3>2 DEF SetCellAt, IsRecord
      <3> QED BY <3>2, <3>3
    <2> QED BY <1>0, <2>1, <2>2, ViewSim
  <1>2. ASSUME NEW S \in Claims, SetOwned(S) PROVE ViewInv'
    <2>1. UNCHANGED world
      BY <1>2 DEF SetOwned, sim_vars
    <2> QED BY <1>0, <1>2, <2>1, SetOwnedShown, ViewClient
  <1>3. CASE Tick
    BY <1>0, <1>3, TickShown DEF ViewInv
  <1>4. CASE SimReap
    <2>1. world'.paused \subseteq world.paused
      BY <1>0, <1>4 DEF SimReap, WorldType, IsRecord
    <2> QED BY <1>0, <1>4, <2>1, LockedSimReap, SimReapShown, ViewSim
  <1>5. CASE SimSubscribe
    <2>1. world'.paused \subseteq world.paused
      <3> DEFINE S == Head(sim_cmd).coords \ subscribed
      <3>1. world' = Wake(world, S)
        BY <1>5 DEF SimSubscribe
      <3> HIDE DEF S
      <3>2. Wake(world, S).paused = world.paused \ Hit(world, S)
        BY <1>0, WakeIs DEF WorldType
      <3> QED BY <3>1, <3>2
    <2> QED BY <1>0, <1>5, <2>1, LockedSimSubscribe, SimSubscribeShown, ViewSim
  <1>6. CASE SimUnsubscribe
    <2>1. UNCHANGED world
      BY <1>6 DEF SimUnsubscribe
    <2> QED BY <1>0, <1>6, <2>1, SimUnsubscribeShown, ViewClient
  <1>7. CASE SimSetOwned
    <2>1. world'.paused \subseteq world.paused
      BY <1>0, <1>7 DEF SimSetOwned, WorldType, IsRecord
    <2> QED BY <1>0, <1>7, <2>1, LockedSimSetOwned, SimSetOwnedShown, ViewSim
  <1>8. CASE HubReceive
    <2>1. UNCHANGED world
      BY <1>8 DEF HubReceive, sim_vars
    <2>2. ShownInv'
      BY <1>0, <1>8, SubscribeShown, UnsubscribeShown
    <2> QED BY <1>0, <2>1, <2>2, ViewClient
  <1>9. ASSUME NEW type, Message(type), ShownInv' PROVE ViewInv'
    BY <1>0, <1>9, ViewClient DEF Message, server_vars, sim_vars
  <1>10. CASE OnChunkState
    BY <1>0, <1>9, <1>10, StateShown DEF OnChunkState
  <1>11. CASE OnChunkDelta
    BY <1>0, <1>9, <1>11, StateShown DEF OnChunkDelta
  <1>12. CASE OnReaped
    BY <1>0, <1>9, <1>12, ReapedShown DEF OnReaped
  <1>13. CASE OnEditApplied
    BY <1>0, <1>9, <1>13, AppliedShown DEF OnEditApplied
  <1>14. CASE OnSync
    BY <1>0, <1>9, <1>14, SyncShown DEF OnSync
  <1>15. ASSUME NEW next \in Views, Pan(next) PROVE ViewInv'
    <2>1. UNCHANGED world
      BY <1>15 DEF Pan, Look, server_vars, sim_vars
    <2> QED BY <1>0, <1>15, <2>1, PanShown, ViewClient
  <1>16. CASE Close
    <2>1. UNCHANGED world
      BY <1>16 DEF Close, sim_vars
    <2> QED BY <1>0, <1>16, <2>1, CloseShown, ViewClient
  <1>17. CASE Open
    <2>1. UNCHANGED world
      BY <1>17 DEF Open, server_vars, sim_vars
    <2> QED BY <1>0, <1>17, <2>1, OpenShown, ViewClient
  <1>18. CASE UNCHANGED vars
    <2>1. UNCHANGED <<world, interest, inbox, outbox, assured, cache, updated>>
      BY <1>18 DEF vars, server_vars, sim_vars, hub_vars, client_vars
    <2>2. ShownInv'
      BY <1>0, <2>1 DEF ShownInv, Leaving, Here, View, Truth
    <2> QED BY <1>0, <2>1, <2>2, ViewClient
  <1> QED BY <1>1, <1>2, <1>3, <1>4, <1>5, <1>6, <1>7, <1>8, <1>10, <1>11, <1>12, <1>13, <1>14, <1>15, <1>16,
             <1>17, <1>18 DEF Next

LEMMA ViewAlways == Spec => []ViewInv
  BY ViewInit, ViewNext, PTL DEF Spec

(***************************************************************************)
(* ViewExact: a browser that has read its mail shows what the server has   *)
(* of every chunk it has no excuse for, in any order of ticks, edits,      *)
(* claims, reapings, requests and changes of the view, however late the    *)
(* sim takes what the hub asks of it, and over any number of connections.  *)
(* So the deltas hub.rs leaves out are only ones the step of               *)
(* web/src/world.ts makes up for, and a chunk subscribed to again before   *)
(* the sim has reaped it is right until it does.                           *)
(***************************************************************************)
THEOREM ViewSettles == Spec => []ViewExact
  <1>1. ViewInv => ViewExact
    <2> SUFFICES ASSUME ViewInv, CaughtUp, NEW c \in assured
                 PROVE  View(c) = Truth(c)
      BY DEF ViewExact
    <2>1. inbox = << >> /\ outbox = << >> /\ Len(<< >>) = 0 /\ DOMAIN << >> = {}
      BY DEF CaughtUp
    <2>2. ~Leaving(c)
      BY <2>1 DEF Leaving
    <2>3. Leads(inbox, c, Here(c), Here(c))
      <3> DEFINE f == [i \in {0} |-> Here(c)]
      <3>1. f[0] = Here(c) /\ f[Len(inbox)] = Here(c) /\ IsReading(f, inbox, c)
        BY <2>1 DEF IsReading
      <3> QED BY <3>1 DEF Leads
    <2>4. Here(c).rows = Truth(c)
      BY <2>2, <2>3 DEF ViewInv, ShownInv
    <2> QED BY <2>4 DEF Here
  <1> QED BY <1>1, ViewAlways, PTL

=============================================================================
