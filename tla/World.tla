------------------------------- MODULE World --------------------------------
(***************************************************************************)
(* The sparse world of simulation/src/world.rs as operators on a record:   *)
(*   chunks  the chunks being stepped, a function on their coords          *)
(*   paused  the patterns taken out of the stepping, each a record of its  *)
(*           members (coord -> chunk), their common period and the tick of *)
(*           the pause: an Oscillator has one member, an OscillatorGroup   *)
(*           several                                                       *)
(*   owned   the chunks under a claim                                      *)
(*   tick    the tick number                                               *)
(* A coord is a pair of integers; there is no border.                      *)
(***************************************************************************)
EXTENDS Chunks, Detector

ChunkCoord == Int \X Int
Dir        == ((-1..1) \X (-1..1)) \ {<<0, 0>>}

To(c, d) == <<c[1] + d[1], c[2] + d[2]>>
Opp(d)   == <<-d[1], -d[2]>>

\* Cells of ch on the side (or in the corner) that faces direction d.
Shows(ch, d) ==
  \E y \in Idx, x \in Idx :
    /\ x \in ch.rows[y]
    /\ d[1] = -1 => x = 0
    /\ d[1] = 1  => x = Last
    /\ d[2] = -1 => y = 0
    /\ d[2] = 1  => y = Last

EdgesOf(chunks) == [c \in DOMAIN chunks |-> Edges(chunks[c])]

\* What the chunks around c, as far as they are in `edges`, show it.
Halo(edges, c) ==
  LET At(dx, dy) == LET n == To(c, <<dx, dy>>) IN IF n \in DOMAIN edges THEN edges[n] ELSE EmptyBundle
  IN [top     |-> At(0, -1).bottom, bottom |-> At(0, 1).top,
      left    |-> At(-1, 0).right,  right  |-> At(1, 0).left,
      corners |-> {k \in Corner : \/ k = "TL" /\ "BR" \in At(-1, -1).corners
                                  \/ k = "TR" /\ "BL" \in At(1, -1).corners
                                  \/ k = "BL" /\ "TR" \in At(-1, 1).corners
                                  \/ k = "BR" /\ "TL" \in At(1, 1).corners}]

-----------------------------------------------------------------------------
(* Pausing and waking. *)

Members(g)      == DOMAIN g.members
Hit(w, S)       == {g \in w.paused : Members(g) \cap S # {}}
Woken(w, S)     == UNION {Members(g) : g \in Hit(w, S)}
PausedCoords(w) == UNION {Members(g) : g \in w.paused}

\* A few chunks by themselves, n steps on: nobody else is looked at.
StepTogether(chunks) == LET e == EdgesOf(chunks) IN [c \in DOMAIN chunks |-> Step(chunks[c], Halo(e, c))]
Phase(chunks, n) ==
  LET after[k \in 0..n] == IF k = 0 THEN chunks ELSE StepTogether(after[k - 1]) IN after[n]

\* The members of g at the given tick.
Awake(g, tick) == Phase(g.members, (tick - g.paused_at_tick) % g.period)

\* The members of the groups of S go back to the chunks, at their current phase.
Wake(w, S) ==
  [w EXCEPT !.paused = @ \ Hit(w, S),
            !.chunks = [c \in DOMAIN @ \cup Woken(w, S) |->
                          IF c \in Woken(w, S)
                          THEN Awake(CHOOSE g \in w.paused : c \in Members(g), w.tick)[c]
                          ELSE @[c]]]

LiveEdges(w) == EdgesOf(Restrict(w.chunks, {c \in DOMAIN w.chunks : ~IsEmpty(w.chunks[c])}))

\* The gate of promote_oscillator.  That the period is right is not verified.
CanPause(w, c, period) ==
  /\ period \in 1..MAX_PERIOD
  /\ c \in DOMAIN w.chunks
  /\ ~IsFrozen(w.chunks[c])
  /\ Halo(LiveEdges(w), c) = EmptyBundle
  /\ \A k \in 0..(period - 1) : Edges(Phase(Restrict(w.chunks, {c}), k)[c]) = EmptyBundle

\* The gate of promote_oscillator_group: nobody outside shows the members a
\* cell now, they show nobody outside one in any phase, and they recur.
CanPauseGroup(w, M, period) ==
  /\ period \in 1..MAX_PERIOD
  /\ \A c \in M : c \in DOMAIN w.chunks /\ ~IsFrozen(w.chunks[c])
  /\ \A c \in M, d \in Dir :
       To(c, d) \in DOMAIN w.chunks \ M => ~Shows(w.chunks[To(c, d)], Opp(d))
  /\ LET start == Restrict(w.chunks, M)
     IN /\ \A k \in 0..(period - 1), c \in M, d \in Dir :
             Shows(Phase(start, k)[c], d) => To(c, d) \in M
        /\ \A c \in M : Phase(start, period)[c].rows = start[c].rows

\* Q: what to pause, a set of [members: set of coords, period].
Pause(w, Q) ==
  LET gone == UNION {q.members : q \in Q}
  IN [w EXCEPT !.chunks = Restrict(@, DOMAIN @ \ gone),
               !.paused = @ \cup {[members        |-> Restrict(w.chunks, q.members),
                                   period         |-> q.period,
                                   paused_at_tick |-> w.tick] : q \in Q}]

-----------------------------------------------------------------------------
(* Editing, removing, stepping. *)

ChunkAt(chunks, c) == IF c \in DOMAIN chunks THEN chunks[c] ELSE EmptyChunk

SetCellAt(w, c, x, y, alive) ==
  [w EXCEPT !.chunks = [k \in DOMAIN @ \cup {c} |->
                          IF k = c THEN SetCell(ChunkAt(@, c), x, y, alive) ELSE @[k]]]

\* A paused group goes as a whole.
RemoveChunk(w, c) ==
  [w EXCEPT !.chunks = Restrict(@, DOMAIN @ \ {c}), !.paused = @ \ Hit(w, {c})]

\* Mutant: only the chunks above and below are looked at.
PerturbedVertically(w) ==
  {c \in PausedCoords(w) : \E d \in Dir :
     /\ d[1] = 0
     /\ To(c, d) \in DOMAIN w.chunks
     /\ Shows(w.chunks[To(c, d)], Opp(d))}

\* Paused coords a running chunk shows a cell to.
Perturbed(w) ==
  {c \in PausedCoords(w) : \E d \in Dir :
     To(c, d) \in DOMAIN w.chunks /\ Shows(w.chunks[To(c, d)], Opp(d))}

\* The coords of the running chunks that take part in a tick and of those they
\* show a cell to.
Active(chunks, woken) == {c \in DOMAIN chunks : c \in woken \/ ~IsEmpty(chunks[c])}
Candidates(chunks, active) ==
  active \cup {To(p[1], p[2]) : p \in {p \in active \X Dir : Shows(chunks[p[1]], p[2])}}

\* An owned chunk sees owned chunks only.
HaloWithin(edges, owned, c) ==
  Halo(IF c \in owned THEN Restrict(edges, DOMAIN edges \cap owned) ELSE edges, c)

\* What becomes of a candidate; idle: the step answered Unchanged.
Candidate(old, halo) ==
  [idle |-> IsEmpty(old) /\ halo = EmptyBundle, next |-> Step(old, halo)]

\* All candidates, each computed from the chunks as they are at the start.
Stepped(chunks, active, owned) ==
  LET edges == EdgesOf(Restrict(chunks, active))
  IN [c \in Candidates(chunks, active) |->
        Candidate(ChunkAt(chunks, c), HaloWithin(edges, owned, c))]

\* Mutant: an emptied chunk is kept.
KeptEmptied(s) == {c \in DOMAIN s : ~s[c].idle}

\* Stepped candidates worth keeping.
Kept(s) == {c \in DOMAIN s : ~s[c].idle /\ (~IsEmpty(s[c].next) \/ IsFrozen(s[c].next))}

\* What an absent chunk's report holds in place of a hash.
NoHash == << >>
RowsAt(chunks, c) == IF c \in DOMAIN chunks THEN chunks[c].rows ELSE NoHash

\* Mutant: only what a step changed is reported, not what was woken.
OutcomeOfSteps(chunks, woken, s, kept) ==
  LET gone == {c \in DOMAIN s \ kept : ~s[c].idle} \cap DOMAIN chunks
  IN [chunks  |-> [c \in (DOMAIN chunks \ gone) \cup kept |->
                     IF c \in kept THEN s[c].next ELSE chunks[c]],
      changed |-> {c \in kept : s[c].next.rows # RowsAt(chunks, c)},
      removed |-> gone,
      reports |-> [c \in {c \in DOMAIN s : c \in kept \/ s[c].idle} |->
                     IF c \in kept THEN s[c].next.rows ELSE RowsAt(chunks, c)]]

\* The end of a tick: the running chunks, and the TickOutcome.  Hash reports
\* carry the rows themselves.
Outcome(chunks, woken, s, kept) ==
  LET gone == {c \in DOMAIN s \ kept : ~s[c].idle} \cap DOMAIN chunks
  IN [chunks  |-> [c \in (DOMAIN chunks \ gone) \cup kept |->
                     IF c \in kept THEN s[c].next ELSE chunks[c]],
      changed |-> woken \cup {c \in kept : s[c].next.rows # RowsAt(chunks, c)},
      removed |-> gone,
      reports |-> [c \in {c \in DOMAIN s : c \in kept \/ s[c].idle} |->
                     IF c \in kept THEN s[c].next.rows ELSE RowsAt(chunks, c)]]

StepAll(chunks, woken, owned) ==
  LET s == Stepped(chunks, Active(chunks, woken), owned) IN Outcome(chunks, woken, s, Kept(s))

\* One tick of the world: wake what is perturbed, then step.
TickInto(w) == StepAll(Wake(w, Perturbed(w)).chunks, Woken(w, Perturbed(w)), w.owned)
AfterTick(w, t) ==
  [w EXCEPT !.tick = @ + 1, !.chunks = t.chunks, !.paused = @ \ Hit(w, Perturbed(w))]

-----------------------------------------------------------------------------
\* The live cells of a set of chunks, in the plane.
CellsOf(chunks) ==
  UNION {{<<c[1] * CHUNK_SIZE + x, c[2] * CHUNK_SIZE + y>> : x \in chunks[c].rows[y]}
           : c \in DOMAIN chunks, y \in Idx}

\* The chunk a cell lies in.
Home(p) == <<p[1] \div CHUNK_SIZE, p[2] \div CHUNK_SIZE>>

\* The cells of the whole world, with what is paused in its current phase.
Now(w) == CellsOf(w.chunks) \cup UNION {CellsOf(Awake(g, w.tick)) : g \in w.paused}

-----------------------------------------------------------------------------
\* A world as loaded: the board, with the locked cells stamped on it and locked,
\* in chunks of their own if it has none yet.
Loaded(board, alive, dead) ==
  LET cells == (board \ dead) \cup alive
  IN [c \in {Home(p) : p \in cells \cup alive \cup dead} |->
        LET In(S) == [y \in Idx |-> {x \in Idx : <<c[1] * CHUNK_SIZE + x, c[2] * CHUNK_SIZE + y>> \in S}]
        IN [rows |-> In(cells), frozen |-> [mask |-> In(alive \cup dead), value |-> In(alive)]]]

\* The chunk a snapshot or an event shows at c.
Shown(w, c) ==
  IF c \in DOMAIN w.chunks THEN w.chunks[c].rows
  ELSE IF c \in PausedCoords(w) THEN (CHOOSE g \in w.paused : c \in Members(g)).members[c].rows
  ELSE NoHash

=============================================================================
