---------------------------- MODULE StorageProofs ----------------------------
(***************************************************************************)
(* What holds of Storage for any edits, rules, capacities and intervals.   *)
(***************************************************************************)
EXTENDS Storage, Basics, SequenceTheorems

-----------------------------------------------------------------------------
(* Replay folded over a log. *)

\* The function FoldLeft computes, on the sets of the first n positions of log.
IsFold(g, base, log, n) ==
  g = [S \in SUBSET (1..n) |->
         IF S = {} THEN base ELSE Replay(g[S \ {Max(S)}], log[Max(S)])]

\* The greatest of the first n + 1 positions, if it is there, is n + 1.
LEMMA MaxOfPositions ==
  ASSUME NEW n \in Nat, NEW S \in SUBSET (1..(n + 1)), n + 1 \in S
  PROVE  Max(S) = n + 1
  <1>1. \A x \in S : x <= n + 1 /\ x \in Nat
    OBVIOUS
  <1>2. Max(S) = CHOOSE x \in S : \A y \in S : x >= y
    BY DEF Max
  <1>3. \A x \in S : (\A y \in S : x >= y) => x = n + 1
    BY <1>1
  <1>4. \A y \in S : n + 1 >= y
    BY <1>1
  <1> QED BY <1>2, <1>3, <1>4

\* There is such a function.
LEMMA FoldExists ==
  ASSUME NEW base, NEW log
  PROVE  \A n \in Nat : \E g : IsFold(g, base, log, n)
  <1> DEFINE N == {n \in Nat : \E g : IsFold(g, base, log, n)}
  <1>1. 0 \in N
    <2> DEFINE g == [S \in SUBSET (1..0) |-> base]
    <2>1. \A S \in SUBSET (1..0) : S = {}
      OBVIOUS
    <2>2. g = [S \in SUBSET (1..0) |->
                 IF S = {} THEN base ELSE Replay(g[S \ {Max(S)}], log[Max(S)])]
      BY <2>1
    <2> QED BY <2>2 DEF IsFold
  <1>2. ASSUME NEW n \in Nat, n \in N
        PROVE  n + 1 \in N
    <2>1. PICK g : IsFold(g, base, log, n)
      BY <1>2
    <2> DEFINE D == SUBSET (1..(n + 1))
               h == [S \in D |-> IF n + 1 \in S THEN Replay(g[S \ {n + 1}], log[n + 1]) ELSE g[S]]
    <2>2. \A S \in D : n + 1 \notin S => S \in SUBSET (1..n)
      OBVIOUS
    <2>3. \A S \in D : S \ {n + 1} \in SUBSET (1..n) /\ n + 1 \notin S \ {n + 1}
      OBVIOUS
    <2>4. ASSUME NEW S \in D
          PROVE  h[S] = IF S = {} THEN base ELSE Replay(h[S \ {Max(S)}], log[Max(S)])
      <3>1. CASE n + 1 \in S
        <4>1. Max(S) = n + 1
          BY <3>1, MaxOfPositions
        <4>2. h[S \ {n + 1}] = g[S \ {n + 1}]
          BY <2>3
        <4> QED BY <3>1, <4>1, <4>2
      <3>2. CASE n + 1 \notin S
        <4>1. S \in SUBSET (1..n) /\ S \ {Max(S)} \in SUBSET (1..n)
          BY <2>2, <3>2
        <4>2. g[S] = IF S = {} THEN base ELSE Replay(g[S \ {Max(S)}], log[Max(S)])
          BY <2>1, <4>1 DEF IsFold
        <4>3. S \ {Max(S)} \in D /\ n + 1 \notin S \ {Max(S)}
          BY <3>2
        <4>4. h[S] = g[S] /\ h[S \ {Max(S)}] = g[S \ {Max(S)}]
          BY <3>2, <4>3
        <4> HIDE DEF h
        <4> QED BY <4>2, <4>4
      <3> QED BY <3>1, <3>2
    <2>5. h = [S \in D |-> IF S = {} THEN base ELSE Replay(h[S \ {Max(S)}], log[Max(S)])]
      <3>1. h = [S \in D |-> h[S]]
        OBVIOUS
      <3> HIDE DEF h
      <3> QED BY <2>4, <3>1
    <2>6. IsFold(h, base, log, n + 1)
      BY <2>5 DEF IsFold
    <2> HIDE DEF h
    <2> QED BY <2>6
  <1> HIDE DEF N
  <1>3. Nat \subseteq N
    BY <1>1, <1>2, SetInduction
  <1> QED BY <1>3 DEF N

Replayed(base, log) == FoldLeft(Replay, base, log)

\* Replay folded over a log passes through a world per record.
LEMMA FoldIs ==
  ASSUME NEW base, NEW log, NEW n \in Nat, DOMAIN log = 1..n
  PROVE  \E f : /\ f[0] = base
                /\ \A k \in 1..n : f[k] = Replay(f[k - 1], log[k])
                /\ Replayed(base, log) = f[n]
  <1> DEFINE g == CHOOSE g : IsFold(g, base, log, n)
             f == [k \in 0..n |-> g[1..k]]
  <1>1. IsFold(g, base, log, n)
    BY FoldExists
  <1>2. Replayed(base, log) = g[1..n]
    BY DEF Replayed, FoldLeft, MapThenFoldSet, IsFold
  <1> HIDE DEF g
  <1>3. f[0] = base
    BY <1>1 DEF IsFold
  <1>4. ASSUME NEW k \in 1..n
        PROVE  f[k] = Replay(f[k - 1], log[k])
    <2>1. k - 1 \in Nat /\ 1..k \in SUBSET (1..((k - 1) + 1)) /\ k \in 1..k
      OBVIOUS
    <2>2. Max(1..k) = k
      <3>1. PICK m \in Nat : m = k - 1
        BY <2>1
      <3>2. k = m + 1
        BY <3>1
      <3> HIDE <2>1
      <3>3. 1..(m + 1) \in SUBSET (1..(m + 1)) /\ m + 1 \in 1..(m + 1)
        OBVIOUS
      <3>4. Max(1..(m + 1)) = m + 1
        BY <3>3, MaxOfPositions
      <3> QED BY <3>2, <3>4
    <2>3. (1..k) \ {k} = 1..(k - 1)
      OBVIOUS
    <2>4. 1..k \in SUBSET (1..n) /\ k \in 1..k
      OBVIOUS
    <2>5. g[1..k] = Replay(g[1..(k - 1)], log[k])
      BY <1>1, <2>2, <2>3, <2>4 DEF IsFold
    <2> QED BY <2>5
  <1>5. f[n] = g[1..n]
    OBVIOUS
  <1> HIDE DEF f
  <1> QED BY <1>2, <1>3, <1>4, <1>5

-----------------------------------------------------------------------------
(* Types. *)

Entry  == EditId \cup Rules
Logged == [op: {"AppendEdits"}, tick: 0..MaxTick, edit: EditId]

\* The records of q are of edits that were made.
Known(q) == \A i \in DOMAIN q : q[i].op = "AppendEdits" => q[i].edit \in used

\* Inductive: with the types, what IoFsync and the queues rely on.
TypeInv ==
  /\ TypeOK
  /\ io.at = "fsync" => wal # << >> /\ wal[Len(wal)].op = "AppendEdits"
  /\ Known(wal) /\ Known(io_queue) /\ Known(outbox)

\* The history of a world that is stepped and edited is a history.
LEMMA ReplayType ==
  ASSUME NEW w \in World, NEW r \in Logged
  PROVE  Replay(w, r) \in World
  <1> DEFINE steps == [i \in 1..(r.tick - w.tick) |-> ReplayRule]
  <1>1. /\ r.tick \in 0..MaxTick /\ r.edit \in Entry /\ w.tick \in 0..MaxTick /\ w.history \in Seq(Entry)
        /\ w.reaped \in SUBSET (Nat \X ReapId)
    BY DEF World, Logged, Entry
  <1>2. ReplayRule \in Entry
    BY DEF ReplayRule, Rules, Entry
  <1>3. CASE r.tick >= w.tick
    <2>1. r.tick - w.tick \in Nat
      BY <1>1, <1>3, StorageAssumption
    <2>2. steps \in Seq(Entry)
      BY <1>2, <2>1
    <2>3. << r.edit >> \in Seq(Entry)
      BY <1>1
    <2>4. w.history \o steps \o << r.edit >> \in Seq(Entry)
      BY <1>1, <2>2, <2>3, ConcatProperties
    <2>5. Replay(w, r) =
            [tick |-> r.tick, history |-> w.history \o steps \o << r.edit >>, reaped |-> w.reaped]
      <3>1. Replay(w, r) = [w EXCEPT !.tick = r.tick, !.history = w.history \o steps \o << r.edit >>]
        BY <1>1, <1>3, StorageAssumption DEF Replay
      <3> HIDE DEF steps
      <3> QED BY <3>1 DEF World
    <2> HIDE DEF steps
    <2> QED BY <1>1, <2>4, <2>5 DEF World, Entry
  <1>4. CASE r.tick < w.tick
    BY <1>4 DEF Replay
  <1> QED BY <1>1, <1>3, <1>4, StorageAssumption

\* What is left of the log before the first torn record is a log of records.
LEMMA IntactType ==
  ASSUME wal \in Seq(WalItem)
  PROVE  /\ Intact \in Seq(Logged)
         /\ Damaged = {} => Intact = wal
  <1>1. CASE Damaged = {}
    <2>1. \A i \in 1..Len(wal) : wal[i] \in Logged
      BY <1>1 DEF Damaged, WalItem, Logged
    <2> QED BY <1>1, <2>1 DEF Intact
  <1>2. CASE Damaged # {}
    <2>1. Damaged \in SUBSET Nat /\ \A x \in Damaged : x \in 1..Len(wal)
      BY DEF Damaged
    <2>2. PICK x \in Damaged : \A y \in Damaged : x <= y
      BY <1>2, <2>1, LeastElement
    <2>3. \A z \in Damaged : (\A y \in Damaged : z <= y) => z = x
      BY <2>1, <2>2
    <2>4. Min(Damaged) = x
      BY <2>2, <2>3 DEF Min
    <2>5. Intact = SubSeq(wal, 1, x - 1)
      BY <1>2, <2>4 DEF Intact
    <2>6. x - 1 \in 0..Len(wal) /\ \A i \in 1..(x - 1) : i \in DOMAIN wal /\ i \notin Damaged
      BY <2>1, <2>2
    <2>7. \A i \in 1..(x - 1) : wal[i] \in Logged
      BY <2>6 DEF Damaged, WalItem, Logged
    <2>8. SubSeq(wal, 1, x - 1) = [i \in 1..(x - 1) |-> wal[i]]
      BY <2>6
    <2>9. x - 1 \in Nat
      BY <2>6
    <2> QED BY <1>2, <2>5, <2>7, <2>8, <2>9
  <1> QED BY <1>1, <1>2

\* What a boot makes of files of the right types is a world.
LEMMA RecoveredType ==
  ASSUME wal \in Seq(WalItem), snapshot \in World \cup {NoFile}
  PROVE  Recovered \in World
  <1>1. Loaded \in World
    BY StorageAssumption DEF Loaded, Fresh, World
  <1>2. PICK n \in Nat : n = Len(Intact) /\ DOMAIN Intact = 1..n
    BY IntactType
  <1>3. PICK f : /\ f[0] = Loaded
                 /\ \A k \in 1..n : f[k] = Replay(f[k - 1], Intact[k])
                 /\ Replayed(Loaded, Intact) = f[n]
    BY <1>2, FoldIs
  <1> DEFINE N == {k \in Nat : k <= n => f[k] \in World}
  <1>4. 0 \in N
    BY <1>1, <1>3
  <1>5. ASSUME NEW k \in Nat, k \in N
        PROVE  k + 1 \in N
    <2> SUFFICES ASSUME k + 1 <= n
                 PROVE  f[k + 1] \in World
      OBVIOUS
    <2>1. k + 1 \in 1..n /\ (k + 1) - 1 = k /\ f[k] \in World
      BY <1>5
    <2>2. Intact[k + 1] \in Logged
      BY <1>2, <2>1, IntactType
    <2>3. f[k + 1] = Replay(f[k], Intact[k + 1])
      BY <1>3, <2>1
    <2> QED BY <2>1, <2>2, <2>3, ReplayType
  <1> HIDE DEF N
  <1>6. Nat \subseteq N
    BY <1>4, <1>5, SetInduction
  <1>7. f[n] \in World
    BY <1>6 DEF N
  <1>8. [f[n] EXCEPT !.history = Append(@, Misread)] \in World
    <2>1. PICK w \in World : w = f[n]
      BY <1>7
    <2>2. w.history \in Seq(EditId \cup Rules) /\ Misread \in EditId \cup Rules
      BY DEF World, Rules
    <2>3. Append(w.history, Misread) \in Seq(EditId \cup Rules)
      BY <2>2
    <2> QED BY <2>1, <2>3 DEF World
  <1>9. FoldLeft(Replay, Loaded, Intact) = f[n]
    BY <1>3 DEF Replayed
  <1> QED BY <1>7, <1>8, <1>9 DEF Recovered

LEMMA InitTypes == Init => TypeInv
  <1> SUFFICES ASSUME Init
               PROVE  TypeInv
    OBVIOUS
  <1>1. << >> \in Seq(IoCmd) /\ << >> \in Seq(WalItem) /\ << >> \in Seq(EditId \cup Rules) /\ Len(<< >>) = 0
    OBVIOUS
  <1>2. Fresh \in World /\ 0 <= IoCap /\ 0 \in 0..(MaxTick + SnapshotInterval)
    BY <1>1, StorageAssumption DEF Fresh, World
  <1>3. TypeOK
    BY <1>1, <1>2 DEF Init, TypeOK
  <1>4. Known(wal) /\ Known(io_queue) /\ Known(outbox)
    BY DEF Init, Known
  <1> QED BY <1>3, <1>4 DEF Init, TypeInv

\* A queue that loses its head is known if it was.
LEMMA KnownTail ==
  ASSUME NEW S, NEW q \in Seq(S), q # << >>, Known(q)
  PROVE  Known(Tail(q)) /\ (Head(q).op = "AppendEdits" => Head(q).edit \in used)
  <1>1. Head(q) = q[1] /\ 1 \in DOMAIN q
    OBVIOUS
  <1>2. \A i \in DOMAIN Tail(q) : i + 1 \in DOMAIN q /\ Tail(q)[i] = q[i + 1]
    OBVIOUS
  <1> QED BY <1>1, <1>2 DEF Known

LEMMA KnownAppend ==
  ASSUME NEW S, NEW q \in Seq(S), NEW m \in S, Known(q), m.op = "AppendEdits" => m.edit \in used
  PROVE  Known(Append(q, m))
  <1>1. \A i \in DOMAIN Append(q, m) : (i \in DOMAIN q /\ Append(q, m)[i] = q[i]) \/ Append(q, m)[i] = m
    OBVIOUS
  <1> QED BY <1>1 DEF Known

LEMMA SimKeepsTypes ==
  ASSUME TypeInv, SimStep
  PROVE  TypeInv'
  <1> USE StorageAssumption
  <1>1. ASSUME NEW e \in EditId, SimEdit(e)
        PROVE  TypeInv'
    <2>1. world.tick \in 0..MaxTick /\ world.history \in Seq(EditId \cup Rules)
      BY DEF TypeInv, TypeOK, World
    <2>2. world' \in World
      <3>1. Append(world.history, e) \in Seq(EditId \cup Rules)
        BY <2>1
      <3>2. world' = [tick |-> world.tick, history |-> Append(world.history, e), reaped |-> world.reaped]
        BY <1>1 DEF SimEdit, TypeInv, TypeOK, World
      <3> QED BY <2>1, <3>1, <3>2 DEF World, TypeInv, TypeOK
    <2>3. Record(world.tick, e) \in IoCmd
      BY <2>1 DEF Record, IoCmd
    <2>4. TypeOK'
      BY <1>1, <2>2, <2>3 DEF SimEdit, SimReady, disk, TypeInv, TypeOK
    <2>5. Known(outbox)'
      BY <1>1 DEF SimEdit, Record, Known
    <2> QED BY <1>1, <2>4, <2>5 DEF SimEdit, disk, TypeInv, Known
  <1>2. CASE SimTick
    <2>1. world.tick \in Nat /\ world.tick < MaxTick /\ world.history \in Seq(EditId \cup Rules)
      BY <1>2 DEF SimTick, TypeInv, TypeOK, World
    <2>2. world' \in World
      <3>1. Append(world.history, Rule) \in Seq(EditId \cup Rules)
        BY <2>1 DEF Rules
      <3>2. world' = [tick |-> world.tick + 1, history |-> Append(world.history, Rule),
                      reaped |-> world.reaped]
        BY <1>2 DEF SimTick, TypeInv, TypeOK, World
      <3>3. world.reaped \in SUBSET (Nat \X ReapId) /\ world.tick + 1 \in 0..MaxTick
        BY <2>1 DEF TypeInv, TypeOK, World
      <3> QED BY <3>1, <3>2, <3>3 DEF World
    <2>3. /\ next_snapshot' \in 0..(MaxTick + SnapshotInterval)
          /\ outbox' = << >> \/ outbox' = << SnapshotOf(world') >>
      BY <1>2, <2>1 DEF SimTick, SimReady, TypeInv, TypeOK
    <2>4. SnapshotOf(world') \in IoCmd
      BY <2>2 DEF SnapshotOf, IoCmd
    <2>5. outbox' \in Seq(IoCmd)
      <3>1. << >> \in Seq(IoCmd) /\ << SnapshotOf(world') >> \in Seq(IoCmd)
        BY <2>4
      <3> QED BY <2>3, <3>1
    <2>6. TypeOK'
      BY <1>2, <2>2, <2>3, <2>5 DEF SimTick, disk, TypeInv, TypeOK
    <2>7. Known(outbox)'
      BY <2>3 DEF SnapshotOf, Known
    <2> QED BY <1>2, <2>6, <2>7 DEF SimTick, disk, TypeInv, Known
  <1>3. CASE SimSend
    <2>1. outbox \in Seq(IoCmd) /\ outbox # << >> /\ io_queue \in Seq(IoCmd) /\ Len(io_queue) < IoCap
      BY <1>3 DEF SimSend, TypeInv, TypeOK
    <2>2. /\ Head(outbox) \in IoCmd /\ Tail(outbox) \in Seq(IoCmd)
          /\ Append(io_queue, Head(outbox)) \in Seq(IoCmd)
          /\ Len(Append(io_queue, Head(outbox))) <= IoCap
      BY <2>1
    <2>3. TypeOK'
      BY <1>3, <2>2 DEF SimSend, disk, TypeInv, TypeOK
    <2>4. Known(Tail(outbox)) /\ Known(Append(io_queue, Head(outbox)))
      BY <2>1, <2>2, KnownTail, KnownAppend DEF TypeInv
    <2> QED BY <1>3, <2>3, <2>4 DEF SimSend, disk, TypeInv, Known
  <1>4. ASSUME NEW r \in ReapId, SimReap(r)
        PROVE  TypeInv'
    <2>1. world.history \in Seq(EditId \cup Rules) /\ world.reaped \in SUBSET (Nat \X ReapId)
      BY DEF TypeInv, TypeOK, World
    <2>2. <<Len(world.history), r>> \in Nat \X ReapId
      BY <2>1
    <2>3. world' \in World
      BY <1>4, <2>1, <2>2 DEF SimReap, World, TypeInv, TypeOK
    <2>4. used' \subseteq EditId \cup ReapId /\ used \subseteq used'
      BY <1>4 DEF SimReap, TypeInv, TypeOK
    <2>5. TypeOK'
      BY <1>4, <2>3, <2>4 DEF SimReap, disk, TypeInv, TypeOK
    <2>6. Known(wal)' /\ Known(io_queue)' /\ Known(outbox)'
      BY <1>4, <2>4 DEF SimReap, disk, TypeInv, Known
    <2> QED BY <1>4, <2>5, <2>6 DEF SimReap, disk, TypeInv
  <1> QED BY <1>1, <1>2, <1>3, <1>4 DEF SimStep

LEMMA IoKeepsTypes ==
  ASSUME TypeInv, IoStep
  PROVE  TypeInv'
  <1> USE DEF TypeInv, sim_part
  <1>1. CASE IoOpen
    <2>1. << >> \in Seq(WalItem)
      OBVIOUS
    <2>2. /\ wal' = << >> \/ wal' = wal
          /\ wal_header' = "short" \/ wal_header' = wal_header
          /\ io' \in [at : {"idle", "header"}]
      BY <1>1 DEF IoOpen
    <2>3. wal' \in Seq(WalItem) /\ Known(wal')
      <3>1. Known(<< >>)
        BY DEF Known
      <3>2. wal \in Seq(WalItem) /\ Known(wal)
        BY DEF TypeOK
      <3> QED BY <2>1, <2>2, <3>1, <3>2
    <2>4. TypeOK'
      BY <1>1, <2>2, <2>3 DEF IoOpen, TypeOK
    <2> QED BY <1>1, <2>2, <2>3, <2>4 DEF IoOpen, Known
  <1>2. CASE IoWriteHeader
    BY <1>2 DEF IoWriteHeader, TypeOK, Known
  <1>3. CASE IoTake
    <2>1. PICK cmd : cmd = Head(io_queue)
      OBVIOUS
    <2>2. io_queue \in Seq(IoCmd) /\ io_queue # << >>
      BY <1>3 DEF IoTake, TypeOK
    <2>3. cmd \in IoCmd /\ Tail(io_queue) \in Seq(IoCmd) /\ Len(Tail(io_queue)) <= IoCap
      BY <2>1, <2>2, StorageAssumption DEF TypeOK
    <2>4. Known(Tail(io_queue)) /\ (cmd.op = "AppendEdits" => cmd.edit \in used)
      BY <2>1, <2>2, KnownTail
    <2>5. CASE cmd.op = "AppendEdits" /\ wal' = Append(wal, cmd) /\ io' = [at |-> "fsync"] /\ UNCHANGED snapshot
      <3>1. cmd \in WalItem
        BY <2>3, <2>5 DEF IoCmd, WalItem
      <3>2. wal' \in Seq(WalItem) /\ wal' # << >> /\ wal'[Len(wal')] = cmd
        BY <2>5, <3>1 DEF TypeOK
      <3>3. Known(wal')
        BY <2>4, <2>5, <3>1, KnownAppend DEF TypeOK
      <3>4. TypeOK'
        BY <1>3, <2>3, <2>5, <3>2 DEF IoTake, TypeOK
      <3> QED BY <1>3, <2>4, <2>5, <3>2, <3>3, <3>4 DEF IoTake, Known
    <2>6. CASE cmd.op = "Snapshot" /\ io' = [at |-> "rename", saved |-> cmd.saved] /\ UNCHANGED <<wal, snapshot>>
      <3>1. cmd.saved \in World
        BY <2>3, <2>6 DEF IoCmd
      <3>2. TypeOK'
        BY <1>3, <2>3, <2>6, <3>1 DEF IoTake, TypeOK
      <3> QED BY <1>3, <2>4, <2>6, <3>2 DEF IoTake, Known
    <2> QED BY <1>3, <2>1, <2>5, <2>6 DEF IoTake
  <1>4. CASE IoFsync
    <2>1. Last(wal) = wal[Len(wal)] /\ Len(wal) \in DOMAIN wal /\ wal[Len(wal)].op = "AppendEdits"
      BY <1>4 DEF IoFsync, Io, Last, TypeOK
    <2>2. Last(wal).edit \in used
      BY <2>1 DEF Known
    <2> QED BY <1>4, <2>2 DEF IoFsync, disk, TypeOK, Known
  <1>5. CASE IoRename
    <2>1. io.saved \in World
      BY <1>5 DEF IoRename, Io, TypeOK
    <2> QED BY <1>5, <2>1 DEF IoRename, TypeOK, Known
  <1>6. CASE IoTruncate
    BY <1>6 DEF IoTruncate, TypeOK, Known
  <1> QED BY <1>1, <1>2, <1>3, <1>4, <1>5, <1>6 DEF IoStep

\* What a crash leaves of the log is a log.
LEMMA RemainsType ==
  ASSUME TypeInv, NEW log \in Remains(wal)
  PROVE  log \in Seq(WalItem) /\ Known(log)
  <1>1. CASE log = wal
    BY <1>1 DEF TypeInv, TypeOK
  <1>2. CASE log # wal
    <2>1. wal \in Seq(WalItem) /\ wal # << >> /\ Known(wal)
      BY <1>2 DEF TypeInv, TypeOK, Remains
    <2>2. Front(wal) = SubSeq(wal, 1, Len(wal) - 1)
      BY DEF Front
    <2>3. Front(wal) \in Seq(WalItem) /\ \A i \in DOMAIN Front(wal) : i \in DOMAIN wal /\ Front(wal)[i] = wal[i]
      BY <2>1, <2>2
    <2>4. Known(Front(wal))
      BY <2>1, <2>3 DEF Known
    <2>5. \A shape \in {"tear8", "tear"} : Torn(shape) \in WalItem /\ Torn(shape).op # "AppendEdits"
      BY DEF Torn, WalItem
    <2>6. \A shape \in {"tear8", "tear"} :
            Append(Front(wal), Torn(shape)) \in Seq(WalItem) /\ Known(Append(Front(wal), Torn(shape)))
      BY <2>3, <2>4, <2>5, KnownAppend
    <2> QED BY <1>2, <2>3, <2>4, <2>6 DEF Remains
  <1> QED BY <1>1, <1>2

LEMMA CrashKeepsTypes ==
  ASSUME TypeInv, Crash
  PROVE  TypeInv'
  <1>1. wal' \in Seq(WalItem) /\ Known(wal')
    BY RemainsType DEF Crash
  <1>2. TypeOK'
    <2>1. << >> \in Seq(IoCmd) /\ Len(<< >>) <= IoCap
      BY StorageAssumption
    <2> QED BY <1>1, <2>1 DEF Crash, TypeInv, TypeOK
  <1> QED BY <1>1, <1>2 DEF Crash, TypeInv, Known

LEMMA BootKeepsTypes ==
  ASSUME TypeInv, Boot
  PROVE  TypeInv'
  <1>1. Recovered \in World
    BY RecoveredType DEF TypeInv, TypeOK
  <1>2. Recovered.tick \in 0..MaxTick
    BY <1>1 DEF World
  <1>3. next_snapshot' \in 0..(MaxTick + SnapshotInterval)
    BY <1>2, StorageAssumption DEF Boot
  <1>4. TypeOK'
    BY <1>1, <1>3 DEF Boot, disk, TypeInv, TypeOK
  <1> QED BY <1>4 DEF Boot, disk, TypeInv, Known

\* Queues, files and worlds hold what they are meant to, whatever is lost, torn
\* or replayed; the channel to the io task keeps to its capacity.
THEOREM TypeCorrect == Spec => []TypeOK
  <1>1. TypeInv /\ [Next]_vars => TypeInv'
    <2> SUFFICES ASSUME TypeInv, [Next]_vars
                 PROVE  TypeInv'
      OBVIOUS
    <2>1. CASE UNCHANGED vars
      BY <2>1 DEF vars, sim_part, disk, TypeInv, TypeOK, Known
    <2> QED BY <2>1, SimKeepsTypes, IoKeepsTypes, CrashKeepsTypes, BootKeepsTypes DEF Next
  <1>2. TypeInv => TypeOK
    BY DEF TypeInv
  <1> QED BY <1>1, <1>2, InitTypes, PTL DEF Spec

-----------------------------------------------------------------------------
(* Order: as long as no write is lost or torn, what is logged, what is being *)
(* made a snapshot and what is queued follow each other.                     *)

Queue == io_queue \o outbox

IsRecord(m)   == m.op = "AppendEdits"
IsSnapshot(m) == m.op = "Snapshot"

\* Message a may come before message b: by tick, and a snapshot has the edits of
\* the records it follows.
Before(a, b) ==
  /\ IsRecord(a) /\ IsRecord(b) => a.tick <= b.tick
  /\ IsRecord(a) /\ IsSnapshot(b) => a.tick < b.saved.tick /\ a.edit \in ToSet(b.saved.history)
  /\ IsSnapshot(a) /\ IsRecord(b) => a.saved.tick <= b.tick

Ordered(q)      == \A i, j \in DOMAIN q : i < j => Before(q[i], q[j])
AllBefore(q, r) == \A i \in DOMAIN q, j \in DOMAIN r : Before(q[i], r[j])

\* World w has all that message m tells of.
Has(w, m) ==
  /\ IsRecord(m) => m.tick <= w.tick /\ m.edit \in ToSet(w.history)
  /\ IsSnapshot(m) => m.saved.tick <= w.tick

\* The snapshot that waits for its rename, as a queue of one or none.
Pending == IF io.at = "rename" THEN << SnapshotOf(io.saved) >> ELSE << >>

OrderInv ==
  /\ \A i \in DOMAIN wal : IsRecord(wal[i])
  /\ Ordered(wal) /\ Ordered(Queue) /\ AllBefore(wal, Queue)
  /\ AllBefore(wal, Pending) /\ AllBefore(Pending, Queue)
  /\ \A i \in DOMAIN Queue : IsRecord(Queue[i]) => Loaded.tick <= Queue[i].tick
  /\ running => /\ \A i \in DOMAIN wal : Has(world, wal[i])
                /\ \A i \in DOMAIN Pending : Has(world, Pending[i])
                /\ \A i \in DOMAIN Queue : Has(world, Queue[i])
                /\ Loaded.tick <= world.tick
  /\ ~running => Queue = << >> /\ Pending = << >>
  /\ wal_header = "absent" => wal = << >> /\ (running => io.at = "opening")

\* Where the edits are whose record was fsynced.
DurableInv ==
  /\ synced \subseteq ToSet(Loaded.history) \cup {wal[i].edit : i \in DOMAIN wal}
  /\ \A i \in DOMAIN wal : wal[i].tick < Loaded.tick => wal[i].edit \in ToSet(Loaded.history)
  /\ io.at = "truncate" => \A i \in DOMAIN wal : wal[i].edit \in ToSet(Loaded.history)
  /\ \A i \in DOMAIN Pending : synced \subseteq ToSet(Pending[i].saved.history)
  /\ \A i \in DOMAIN Queue : IsSnapshot(Queue[i]) => synced \subseteq ToSet(Queue[i].saved.history)
  /\ running => synced \subseteq ToSet(world.history)

\* One record replayed: the tick does not go back, no edit is lost, and that of
\* the record is there unless it is older than the world.
LEMMA ReplayHas ==
  ASSUME NEW w \in World, NEW r \in Logged
  PROVE  LET v == Replay(w, r)
         IN /\ v.tick = IF r.tick < w.tick THEN w.tick ELSE r.tick
            /\ ToSet(w.history) \subseteq ToSet(v.history)
            /\ r.tick >= w.tick => r.edit \in ToSet(v.history)
  <1> DEFINE steps == [i \in 1..(r.tick - w.tick) |-> ReplayRule]
             v     == Replay(w, r)
  <1>1. r.tick \in Int /\ w.tick \in Int /\ w.history \in Seq(Entry) /\ r.edit \in Entry
    BY StorageAssumption DEF World, Logged, Entry
  <1>2. CASE r.tick < w.tick
    BY <1>1, <1>2 DEF Replay
  <1>3. CASE r.tick >= w.tick
    <2>1. PICK n \in Nat : n = r.tick - w.tick
      BY <1>1, <1>3
    <2>2. ReplayRule \in Entry
      BY DEF ReplayRule, Rules, Entry
    <2>3. PICK u \in Seq(Entry) : u = steps
      <3>1. steps = [i \in 1..n |-> ReplayRule]
        BY <2>1
      <3>2. [i \in 1..n |-> ReplayRule] \in Seq(Entry)
        BY <2>2
      <3> HIDE DEF steps
      <3> QED BY <3>1, <3>2
    <2>4. v = [w EXCEPT !.tick = r.tick, !.history = @ \o u \o << r.edit >>]
      BY <1>1, <1>3, <2>3 DEF Replay
    <2>5. PICK h : h = w.history \o u \o << r.edit >>
      OBVIOUS
    <2>6. /\ \A i \in DOMAIN w.history : i \in DOMAIN h /\ h[i] = w.history[i]
          /\ Len(w.history) + Len(u) + 1 \in DOMAIN h
          /\ h[Len(w.history) + Len(u) + 1] = r.edit
      <3>1. PICK a \in Seq(Entry) : a = w.history
        BY <1>1
      <3>2. << r.edit >> \in Seq(Entry) /\ Len(<< r.edit >>) = 1 /\ << r.edit >>[1] = r.edit
        BY <1>1
      <3>3. /\ Len(a \o u) = Len(a) + Len(u) /\ a \o u \in Seq(Entry)
            /\ \A i \in 1..Len(a) : (a \o u)[i] = a[i]
        BY ConcatProperties
      <3>4. /\ h \in Seq(Entry)
            /\ Len(h) = Len(a) + Len(u) + 1
            /\ \A i \in 1..(Len(a) + Len(u) + 1) :
                 h[i] = IF i <= Len(a) + Len(u) THEN (a \o u)[i] ELSE << r.edit >>[i - (Len(a) + Len(u))]
        BY <2>5, <3>1, <3>2, <3>3, ConcatProperties
      <3>5. Len(a) \in Nat /\ Len(u) \in Nat /\ DOMAIN a = 1..Len(a) /\ DOMAIN h = 1..Len(h)
        BY <3>4
      <3> HIDE <2>5
      <3>6. ASSUME NEW i \in DOMAIN a PROVE i \in DOMAIN h /\ h[i] = a[i]
        <4>1. i \in 1..Len(a) /\ i \in 1..(Len(a) + Len(u) + 1) /\ i <= Len(a) + Len(u)
          BY <3>5
        <4> QED BY <3>3, <3>4, <3>5, <4>1
      <3>7. Len(a) + Len(u) + 1 \in DOMAIN h /\ h[Len(a) + Len(u) + 1] = r.edit
        <4> DEFINE k == Len(a) + Len(u)
        <4>1. k \in Nat /\ k + 1 \in 1..(k + 1) /\ ~(k + 1 <= k) /\ (k + 1) - k = 1
          BY <3>5
        <4>2. h[k + 1] = << r.edit >>[(k + 1) - k]
          BY <3>4, <4>1
        <4> HIDE DEF k
        <4> QED BY <3>2, <3>4, <3>5, <4>1, <4>2 DEF k
      <3> QED BY <3>1, <3>6, <3>7
    <2>7. v.history = h /\ v.tick = r.tick
      BY <2>4, <2>5 DEF World
    <2>8. ToSet(w.history) \subseteq ToSet(h) /\ r.edit \in ToSet(h)
      BY <2>6 DEF ToSet
    <2> QED BY <1>1, <1>3, <2>7, <2>8
  <1> QED BY <1>1, <1>2, <1>3

\* What a boot recovers from an ordered log.
LEMMA RecoveredHas ==
  ASSUME TypeInv, \A i \in DOMAIN wal : IsRecord(wal[i]), Ordered(wal)
  PROVE  /\ Loaded.tick <= Recovered.tick
         /\ ToSet(Loaded.history) \subseteq ToSet(Recovered.history)
         /\ \A i \in DOMAIN wal :
              /\ wal[i].tick <= Recovered.tick
              /\ Loaded.tick <= wal[i].tick => wal[i].edit \in ToSet(Recovered.history)
  <1>1. Damaged = {} /\ Intact = wal
    BY IntactType DEF Damaged, IsRecord, TypeInv, TypeOK
  <1>2. Recovered = Replayed(Loaded, wal)
    BY <1>1 DEF Recovered, Replayed
  <1>3. Loaded \in World
    BY StorageAssumption DEF Loaded, Fresh, World, TypeInv, TypeOK
  <1>4. PICK n \in Nat : n = Len(wal) /\ DOMAIN wal = 1..n /\ \A i \in 1..n : wal[i] \in Logged
    BY <1>1, IntactType DEF TypeInv, TypeOK
  <1>5. PICK f : /\ f[0] = Loaded
                 /\ \A k \in 1..n : f[k] = Replay(f[k - 1], wal[k])
                 /\ Replayed(Loaded, wal) = f[n]
    BY <1>4, FoldIs
  <1>6. \A i \in 1..n : wal[i].tick \in Int
    BY <1>4, StorageAssumption DEF Logged
  <1>7. \A i, j \in 1..n : i < j => wal[i].tick <= wal[j].tick
    BY <1>4 DEF Ordered, Before, IsRecord
  <1> DEFINE Good(k) ==
        /\ f[k] \in World
        /\ Loaded.tick <= f[k].tick
        /\ f[k].tick = Loaded.tick \/ \E i \in 1..k : f[k].tick = wal[i].tick
        /\ ToSet(Loaded.history) \subseteq ToSet(f[k].history)
        /\ \A i \in 1..k : /\ wal[i].tick <= f[k].tick
                           /\ Loaded.tick <= wal[i].tick => wal[i].edit \in ToSet(f[k].history)
  <1>8. Good(0)
    BY <1>3, <1>5, StorageAssumption DEF World
  <1>9. ASSUME NEW k \in Nat, k + 1 <= n, Good(k)
        PROVE  Good(k + 1)
    <2>1. PICK w \in World : w = f[k]
      BY <1>9
    <2>2. PICK r \in Logged : r = wal[k + 1]
      BY <1>4, <1>9
    <2>3. PICK v : v = Replay(w, r)
      OBVIOUS
    <2>4. f[k + 1] = v
      <3>1. k + 1 \in 1..n /\ (k + 1) - 1 = k
        BY <1>9
      <3> QED BY <1>5, <2>1, <2>2, <2>3, <3>1
    <2>5. /\ v \in World
          /\ v.tick = IF r.tick < w.tick THEN w.tick ELSE r.tick
          /\ ToSet(w.history) \subseteq ToSet(v.history)
          /\ r.tick >= w.tick => r.edit \in ToSet(v.history)
      BY <2>3, ReplayType, ReplayHas
    <2>6. w.tick \in Int /\ r.tick \in Int /\ Loaded.tick \in Int
      BY <1>3, StorageAssumption DEF World, Logged
    <2>7. \A i \in 1..(k + 1) : i \in 1..k \/ i = k + 1
      OBVIOUS
    <2>8. \A i \in 1..k : i \in 1..n /\ i < k + 1 /\ k + 1 \in 1..n
      BY <1>9
    <2>9. \A i \in 1..k : wal[i].tick <= r.tick /\ wal[i].tick \in Int
      BY <1>6, <1>7, <2>2, <2>8
    <2>10. Loaded.tick <= r.tick => w.tick <= r.tick
      BY <1>9, <2>1, <2>6, <2>9
    <2>11. Loaded.tick <= v.tick /\ r.tick <= v.tick /\ w.tick <= v.tick
      BY <1>9, <2>1, <2>5, <2>6
    <2>12. v.tick = Loaded.tick \/ \E i \in 1..(k + 1) : v.tick = wal[i].tick
      <3>1. \A i \in 1..k : i \in 1..(k + 1)
        OBVIOUS
      <3>2. k + 1 \in 1..(k + 1)
        OBVIOUS
      <3> QED BY <1>9, <2>1, <2>2, <2>5, <3>1, <3>2
    <2>13. ASSUME NEW i \in 1..(k + 1)
           PROVE  wal[i].tick <= v.tick /\ (Loaded.tick <= wal[i].tick => wal[i].edit \in ToSet(v.history))
      <3>1. CASE i = k + 1
        BY <2>2, <2>5, <2>6, <2>10, <2>11, <3>1
      <3>2. CASE i \in 1..k
        <4>1. wal[i].tick <= w.tick /\ (Loaded.tick <= wal[i].tick => wal[i].edit \in ToSet(w.history))
          BY <1>9, <2>1, <3>2
        <4>2. wal[i].tick \in Int /\ v.tick \in Int
          BY <2>5, <2>6, <2>9, <3>2
        <4> QED BY <2>5, <2>6, <2>11, <4>1, <4>2
      <3> QED BY <2>7, <3>1, <3>2
    <2>14. ToSet(Loaded.history) \subseteq ToSet(v.history)
      BY <1>9, <2>1, <2>5
    <2> QED BY <2>4, <2>5, <2>11, <2>12, <2>13, <2>14
  <1> DEFINE N == {k \in Nat : k <= n => Good(k)}
  <1>10. Nat \subseteq N
    <2> HIDE DEF Good
    <2>1. 0 \in N
      BY <1>8
    <2>2. ASSUME NEW k \in Nat, k \in N
          PROVE  k + 1 \in N
      BY <1>9, <2>2
    <2> HIDE DEF N
    <2> QED BY <2>1, <2>2, SetInduction
  <1>11. Good(n)
    <2> HIDE DEF Good
    <2> QED BY <1>10
  <1> QED BY <1>2, <1>4, <1>5, <1>11

LEMMA QueueType ==
  ASSUME TypeInv
  PROVE  Queue \in Seq(IoCmd) /\ Queue = io_queue \o outbox
  BY ConcatProperties DEF Queue, TypeInv, TypeOK

\* What a queue holds is ordered without its head, and follows the head.
LEMMA OrderedTail ==
  ASSUME NEW S, NEW q \in Seq(S), q # << >>
  PROVE  /\ \A i \in DOMAIN Tail(q) : i + 1 \in DOMAIN q /\ Tail(q)[i] = q[i + 1]
         /\ 1 \in DOMAIN q /\ Head(q) = q[1]
         /\ Ordered(q) => /\ Ordered(Tail(q))
                          /\ \A i \in DOMAIN Tail(q) : Before(Head(q), Tail(q)[i])
  <1>1. \A i \in DOMAIN Tail(q) : i \in Nat /\ i + 1 \in DOMAIN q /\ Tail(q)[i] = q[i + 1] /\ 1 < i + 1
    OBVIOUS
  <1>2. 1 \in DOMAIN q /\ Head(q) = q[1]
    OBVIOUS
  <1>3. \A i, j \in DOMAIN Tail(q) : i < j => i + 1 < j + 1
    BY <1>1
  <1> QED BY <1>1, <1>2, <1>3 DEF Ordered

LEMMA OrderedAppend ==
  ASSUME NEW S, NEW q \in Seq(S), NEW m \in S, Ordered(q), \A i \in DOMAIN q : Before(q[i], m)
  PROVE  Ordered(Append(q, m))
  <1>1. DOMAIN Append(q, m) = 1..(Len(q) + 1) /\ Append(q, m)[Len(q) + 1] = m
    OBVIOUS
  <1>2. \A i \in 1..(Len(q) + 1) : i # Len(q) + 1 => i \in DOMAIN q /\ Append(q, m)[i] = q[i]
    OBVIOUS
  <1>3. \A i, j \in 1..(Len(q) + 1) : i < j => i # Len(q) + 1
    OBVIOUS
  <1> QED BY <1>1, <1>2, <1>3 DEF Ordered

\* An append to a queue or to a log, element by element.
LEMMA Appended ==
  ASSUME NEW S, NEW q \in Seq(S), NEW m \in S
  PROVE  \A i \in DOMAIN Append(q, m) :
           (i \in DOMAIN q /\ Append(q, m)[i] = q[i]) \/ Append(q, m)[i] = m
  OBVIOUS

\* How the steps of the sim and of the io task change the queue as a whole.
LEMMA QueueSteps ==
  ASSUME TypeInv
  PROVE  /\ SimSend => Queue' = Queue
         /\ outbox = << >> => Queue = io_queue
         /\ io_queue # << >> => /\ Queue # << >> /\ Head(Queue) = Head(io_queue)
                                /\ Tail(io_queue) \o outbox = Tail(Queue)
  <1>1. io_queue \in Seq(IoCmd) /\ outbox \in Seq(IoCmd)
    BY DEF TypeInv, TypeOK
  <1>2. ASSUME SimSend
        PROVE  Queue' = Queue
    <2>1. PICK a \in Seq(IoCmd), b \in Seq(IoCmd) : a = io_queue /\ b = outbox /\ b # << >>
      BY <1>1, <1>2 DEF SimSend
    <2>2. Append(a, Head(b)) \o Tail(b) = a \o b
      <3>1. Head(b) \in IoCmd /\ Tail(b) \in Seq(IoCmd) /\ Append(a, Head(b)) \in Seq(IoCmd)
        BY <2>1
      <3>2. /\ Len(Append(a, Head(b))) = Len(a) + 1 /\ Len(Tail(b)) = Len(b) - 1 /\ Len(b) > 0
            /\ \A i \in 1..Len(a) : Append(a, Head(b))[i] = a[i]
            /\ Append(a, Head(b))[Len(a) + 1] = b[1]
            /\ \A i \in 1..(Len(b) - 1) : Tail(b)[i] = b[i + 1]
        BY <2>1
      <3>3. /\ Append(a, Head(b)) \o Tail(b) \in Seq(IoCmd) /\ a \o b \in Seq(IoCmd)
            /\ Len(Append(a, Head(b)) \o Tail(b)) = Len(a) + Len(b)
            /\ Len(a \o b) = Len(a) + Len(b)
        BY <3>1, <3>2, ConcatProperties
      <3>4. \A i \in 1..(Len(a) + Len(b)) : (Append(a, Head(b)) \o Tail(b))[i] = (a \o b)[i]
        BY <2>1, <3>1, <3>2, ConcatProperties
      <3> QED BY <3>3, <3>4, SeqEqual
    <2>3. outbox' = Tail(b) /\ io_queue' = Append(a, Head(b))
      BY <1>2, <2>1 DEF SimSend
    <2> QED BY <2>1, <2>2, <2>3 DEF Queue
  <1>3. outbox = << >> => Queue = io_queue
    BY <1>1, ConcatEmptySeq DEF Queue
  <1>4. ASSUME io_queue # << >>
        PROVE  /\ Queue # << >> /\ Head(Queue) = Head(io_queue)
               /\ Tail(io_queue) \o outbox = Tail(Queue)
    <2>1. PICK a \in Seq(IoCmd), b \in Seq(IoCmd) : a = io_queue /\ b = outbox /\ a # << >>
      BY <1>1, <1>4
    <2>2. a \o b \in Seq(IoCmd) /\ Len(a \o b) = Len(a) + Len(b) /\ Len(a) > 0
      BY <2>1, ConcatProperties
    <2>3. a \o b # << >> /\ Head(a \o b) = Head(a)
      BY <2>1, <2>2, ConcatProperties
    <2>4. Tail(a) \in Seq(IoCmd) /\ Len(Tail(a)) = Len(a) - 1 /\ Tail(a \o b) \in Seq(IoCmd)
      BY <2>1, <2>2, <2>3
    <2>5. Tail(a) \o b = Tail(a \o b)
      <3>1. /\ Tail(a) \o b \in Seq(IoCmd)
            /\ Len(Tail(a) \o b) = Len(a) + Len(b) - 1 /\ Len(Tail(a \o b)) = Len(a) + Len(b) - 1
        BY <2>2, <2>3, <2>4, ConcatProperties
      <3>2. \A i \in 1..(Len(a) + Len(b) - 1) : (Tail(a) \o b)[i] = (a \o b)[i + 1]
        BY <2>1, <2>2, <2>4, ConcatProperties
      <3>3. \A i \in 1..(Len(a) + Len(b) - 1) : Tail(a \o b)[i] = (a \o b)[i + 1]
        BY <2>2, <2>3
      <3> QED BY <2>4, <3>1, <3>2, <3>3, SeqEqual
    <2> QED BY <2>1, <2>3, <2>5 DEF Queue
  <1> QED BY <1>2, <1>3, <1>4

\* Ticks are numbers, wherever they stand.
LEMMA Ticks ==
  ASSUME TypeInv
  PROVE  /\ world.tick \in Int /\ Loaded \in World /\ Loaded.tick \in Int
         /\ \A i \in DOMAIN wal : IsRecord(wal[i]) => wal[i].tick \in Int
         /\ \A m \in IoCmd : /\ IsRecord(m) => m.tick \in Int
                             /\ IsSnapshot(m) => m.saved.tick \in Int
         /\ \A i \in DOMAIN Queue : Queue[i] \in IoCmd
         /\ Pending \in Seq(IoCmd) /\ \A i \in DOMAIN Pending : Pending[i] \in IoCmd
  <1>1. world.tick \in Int /\ Loaded \in World /\ Loaded.tick \in Int
    BY StorageAssumption DEF Loaded, Fresh, World, TypeInv, TypeOK
  <1>2. \A i \in DOMAIN wal : IsRecord(wal[i]) => wal[i].tick \in Int
    <2>1. \A i \in DOMAIN wal : wal[i] \in WalItem
      BY DEF TypeInv, TypeOK
    <2> QED BY <2>1, StorageAssumption DEF WalItem, IsRecord
  <1>3. \A m \in IoCmd : (IsRecord(m) => m.tick \in Int) /\ (IsSnapshot(m) => m.saved.tick \in Int)
    BY StorageAssumption DEF IoCmd, IsRecord, IsSnapshot, World
  <1>4. \A i \in DOMAIN Queue : Queue[i] \in IoCmd
    BY QueueType
  <1>5. Pending \in Seq(IoCmd) /\ \A i \in DOMAIN Pending : Pending[i] \in IoCmd
    <2>1. CASE io.at = "rename"
      <3>1. SnapshotOf(io.saved) \in IoCmd
        BY <2>1 DEF SnapshotOf, IoCmd, TypeInv, TypeOK
      <3> QED BY <2>1, <3>1 DEF Pending
    <2>2. CASE io.at # "rename"
      BY <2>2 DEF Pending
    <2> QED BY <2>1, <2>2
  <1> QED BY <1>1, <1>2, <1>3, <1>4, <1>5

\* A later world has what an earlier one had.
LEMMA HasGrows ==
  ASSUME NEW w, NEW v, NEW m, Has(w, m),
         w.tick \in Int, v.tick \in Int, w.tick <= v.tick,
         ToSet(w.history) \subseteq ToSet(v.history),
         IsRecord(m) => m.tick \in Int, IsSnapshot(m) => m.saved.tick \in Int
  PROVE  Has(v, m)
  <1>1. IsRecord(m) => m.tick <= v.tick
    BY DEF Has
  <1>2. IsSnapshot(m) => m.saved.tick <= v.tick
    BY DEF Has
  <1> QED BY <1>1, <1>2 DEF Has

\* What a world has comes before what is sent of it later.
LEMMA HadBefore ==
  ASSUME NEW w, NEW a, NEW m, Has(w, a),
         w.tick \in Int,
         IsRecord(a) => a.tick \in Int, IsSnapshot(a) => a.saved.tick \in Int,
         IsRecord(m) => m.tick \in Int /\ w.tick <= m.tick,
         IsSnapshot(m) => /\ m.saved.tick \in Int /\ w.tick < m.saved.tick
                          /\ ToSet(w.history) \subseteq ToSet(m.saved.history)
  PROVE  Before(a, m)
  <1>1. IsRecord(a) /\ IsRecord(m) => a.tick <= m.tick
    BY DEF Has
  <1>2. IsRecord(a) /\ IsSnapshot(m) => a.tick < m.saved.tick /\ a.edit \in ToSet(m.saved.history)
    BY DEF Has
  <1>3. IsSnapshot(a) /\ IsRecord(m) => a.saved.tick <= m.tick
    BY DEF Has
  <1> QED BY <1>1, <1>2, <1>3 DEF Before

\* The sim goes on to a later world and may queue a message of it.
LEMMA SimGoesOn ==
  ASSUME TypeInv, OrderInv, DurableInv, running,
         UNCHANGED <<running, io, disk, synced>>,
         world'.tick \in Int, world.tick <= world'.tick, ToSet(world.history) \subseteq ToSet(world'.history),
         \/ Queue' = Queue
         \/ \E m \in IoCmd :
              /\ Queue' = Append(Queue, m)
              /\ Has(world', m)
              /\ IsRecord(m) => world.tick <= m.tick
              /\ IsSnapshot(m) => world.tick < m.saved.tick /\ ToSet(world.history) \subseteq ToSet(m.saved.history)
  PROVE  OrderInv' /\ DurableInv'
  <1>1. /\ wal' = wal /\ io' = io /\ snapshot' = snapshot /\ wal_header' = wal_header
        /\ synced' = synced /\ running' = running
    BY DEF disk
  <1>2. Pending' = Pending /\ Loaded' = Loaded
    BY <1>1 DEF Pending, Loaded
  <1>3. Queue \in Seq(IoCmd)
    BY QueueType
  <1>4. /\ \A i \in DOMAIN wal : Has(world, wal[i])
        /\ \A i \in DOMAIN Pending : Has(world, Pending[i])
        /\ \A i \in DOMAIN Queue : Has(world, Queue[i])
        /\ Loaded.tick <= world.tick
        /\ \A i \in DOMAIN wal : IsRecord(wal[i])
    BY DEF OrderInv
  <1>5. /\ \A i \in DOMAIN wal : Has(world', wal[i])
        /\ \A i \in DOMAIN Pending : Has(world', Pending[i])
        /\ \A i \in DOMAIN Queue : Has(world', Queue[i])
        /\ Loaded.tick <= world'.tick
    <2>1. \A i \in DOMAIN wal : Has(world', wal[i])
      <3>1. \A i \in DOMAIN wal : ~IsSnapshot(wal[i])
        BY <1>4 DEF IsRecord, IsSnapshot
      <3> QED BY <1>4, <3>1, Ticks, HasGrows
    <2>2. \A i \in DOMAIN Pending : Has(world', Pending[i])
      BY <1>4, Ticks, HasGrows
    <2>3. \A i \in DOMAIN Queue : Has(world', Queue[i])
      BY <1>4, Ticks, HasGrows
    <2> QED BY <1>4, <2>1, <2>2, <2>3, Ticks
  <1>6. CASE Queue' = Queue
    <2>1. OrderInv'
      BY <1>1, <1>2, <1>5, <1>6 DEF OrderInv
    <2>2. DurableInv'
      BY <1>1, <1>2, <1>6 DEF DurableInv
    <2> QED BY <2>1, <2>2
  <1>7. ASSUME NEW m \in IoCmd, Queue' = Append(Queue, m), Has(world', m),
               IsRecord(m) => world.tick <= m.tick,
               IsSnapshot(m) => world.tick < m.saved.tick /\ ToSet(world.history) \subseteq ToSet(m.saved.history)
        PROVE  OrderInv' /\ DurableInv'
    <2>1. IsRecord(m) => m.tick \in Int
      BY Ticks
    <2>2. IsSnapshot(m) => m.saved.tick \in Int
      BY Ticks
    <2>3. \A i \in DOMAIN wal : Before(wal[i], m)
      <3>1. \A i \in DOMAIN wal : ~IsSnapshot(wal[i])
        BY <1>4 DEF IsRecord, IsSnapshot
      <3> QED BY <1>4, <1>7, <2>1, <2>2, <3>1, Ticks, HadBefore
    <2>4. \A i \in DOMAIN Pending : Before(Pending[i], m)
      BY <1>4, <1>7, <2>1, <2>2, Ticks, HadBefore
    <2>5. \A i \in DOMAIN Queue : Before(Queue[i], m)
      BY <1>4, <1>7, <2>1, <2>2, Ticks, HadBefore
    <2>6. \A i \in DOMAIN Queue' : (i \in DOMAIN Queue /\ Queue'[i] = Queue[i]) \/ Queue'[i] = m
      BY <1>3, <1>7, Appended
    <2>7. Ordered(Queue') /\ AllBefore(wal, Queue') /\ AllBefore(Pending, Queue')
      <3>1. Ordered(Queue')
        BY <1>3, <1>7, <2>5, OrderedAppend DEF OrderInv
      <3> QED BY <2>3, <2>4, <2>6, <3>1 DEF AllBefore, OrderInv
    <2>8. \A i \in DOMAIN Queue' : IsRecord(Queue'[i]) => Loaded.tick <= Queue'[i].tick
      BY <1>4, <1>7, <2>1, <2>6, Ticks DEF OrderInv
    <2>9. \A i \in DOMAIN Queue' : Has(world', Queue'[i])
      BY <1>5, <1>7, <2>6
    <2>10. OrderInv'
      BY <1>1, <1>2, <1>5, <2>7, <2>8, <2>9 DEF OrderInv, Ordered, AllBefore
    <2>11. \A i \in DOMAIN Queue' : IsSnapshot(Queue'[i]) => synced \subseteq ToSet(Queue'[i].saved.history)
      BY <1>7, <2>6 DEF DurableInv
    <2>12. synced \subseteq ToSet(world'.history)
      BY DEF DurableInv
    <2>13. DurableInv'
      BY <1>1, <1>2, <2>11, <2>12 DEF DurableInv
    <2> QED BY <2>10, <2>13
  <1> QED BY <1>6, <1>7

LEMMA SimKeepsOrder ==
  ASSUME TypeInv, OrderInv, DurableInv, SimStep
  PROVE  OrderInv' /\ DurableInv'
  <1>1. world.tick \in Int /\ world.history \in Seq(Entry)
    BY StorageAssumption DEF World, Entry, TypeInv, TypeOK
  <1>2. io_queue \in Seq(IoCmd)
    BY DEF TypeInv, TypeOK
  <1>3. \A e : ToSet(Append(world.history, e)) = ToSet(world.history) \cup {e}
    <2> TAKE e
    <2>1. DOMAIN Append(world.history, e) = 1..(Len(world.history) + 1)
      BY <1>1
    <2>2. /\ Append(world.history, e)[Len(world.history) + 1] = e
          /\ \A i \in 1..Len(world.history) : Append(world.history, e)[i] = world.history[i]
      BY <1>1
    <2>3. DOMAIN world.history = 1..Len(world.history)
      BY <1>1
    <2> QED BY <2>1, <2>2, <2>3 DEF ToSet
  <1>4. ASSUME NEW e \in EditId, SimEdit(e)
        PROVE  OrderInv' /\ DurableInv'
    <2>1. PICK m : m = Record(world.tick, e)
      OBVIOUS
    <2>2. m \in IoCmd /\ IsRecord(m) /\ ~IsSnapshot(m) /\ m.tick = world.tick /\ m.edit = e
      <3>1. world.tick \in 0..MaxTick
        BY DEF World, TypeInv, TypeOK
      <3> QED BY <2>1, <3>1 DEF Record, IoCmd, IsRecord, IsSnapshot
    <2>3. Queue = io_queue
      BY <1>4, QueueSteps DEF SimEdit, SimReady
    <2>4. Queue' = io_queue \o << m >>
      BY <1>4, <2>1 DEF Queue, SimEdit
    <2>5. Queue' = Append(Queue, m)
      BY <1>2, <2>2, <2>3, <2>4, AppendIsConcat
    <2>6. world'.tick = world.tick /\ world'.history = Append(world.history, e)
      BY <1>4 DEF SimEdit, TypeInv, TypeOK, World
    <2>7. Has(world', m)
      BY <1>1, <1>3, <2>2, <2>6 DEF Has
    <2>8. UNCHANGED <<running, io, disk, synced>> /\ running
      BY <1>4 DEF SimEdit, SimReady
    <2>9. /\ world'.tick \in Int /\ world.tick <= world'.tick
          /\ ToSet(world.history) \subseteq ToSet(world'.history)
      BY <1>1, <1>3, <2>6
    <2>10. world.tick <= m.tick
      BY <1>1, <2>2
    <2> QED BY <2>2, <2>5, <2>7, <2>8, <2>9, <2>10, SimGoesOn
  <1>5. CASE SimTick
    <2>1. world'.tick = world.tick + 1 /\ world'.history = Append(world.history, Rule)
      BY <1>5 DEF SimTick, TypeInv, TypeOK, World
    <2>2. Queue = io_queue
      BY <1>5, QueueSteps DEF SimTick, SimReady
    <2>8. UNCHANGED <<running, io, disk, synced>> /\ running
      BY <1>5 DEF SimTick, SimReady
    <2>9. /\ world'.tick \in Int /\ world.tick <= world'.tick /\ world.tick < world'.tick
          /\ ToSet(world.history) \subseteq ToSet(world'.history)
      BY <1>1, <1>3, <2>1
    <2>3. CASE outbox' = << >>
      <3>1. Queue' = io_queue
        BY <1>2, <1>5, <2>3, ConcatEmptySeq DEF Queue, SimTick
      <3> QED BY <2>2, <2>8, <2>9, <3>1, SimGoesOn
    <2>4. CASE outbox' = << SnapshotOf(world') >>
      <3>1. PICK m : m = SnapshotOf(world')
        OBVIOUS
      <3>2. m \in IoCmd /\ IsSnapshot(m) /\ ~IsRecord(m) /\ m.saved = world'
        <4>1. world' \in World
          BY <1>5, SimKeepsTypes DEF SimStep, TypeInv, TypeOK
        <4> QED BY <3>1, <4>1 DEF SnapshotOf, IoCmd, IsSnapshot, IsRecord
      <3>3. Queue' = io_queue \o << m >>
        BY <1>5, <2>4, <3>1 DEF Queue, SimTick
      <3>4. Queue' = Append(Queue, m)
        BY <1>2, <2>2, <3>2, <3>3, AppendIsConcat
      <3>5. Has(world', m)
        BY <1>1, <2>1, <3>2 DEF Has
      <3> QED BY <2>8, <2>9, <3>2, <3>4, <3>5, SimGoesOn
    <2> QED BY <1>5, <2>3, <2>4 DEF SimTick, SimReady
  <1>6. CASE SimSend
    BY <1>1, <1>6, QueueSteps, SimGoesOn DEF SimSend
  <1>7. ASSUME NEW r \in ReapId, SimReap(r)
        PROVE  OrderInv' /\ DurableInv'
    <2>1. world'.tick = world.tick /\ world'.history = world.history
      BY <1>7 DEF SimReap, TypeInv, TypeOK, World
    <2>2. UNCHANGED <<running, io, disk, synced>> /\ running /\ Queue' = Queue
      BY <1>7 DEF SimReap, SimReady, Queue
    <2>3. world.tick <= world'.tick
      BY <1>1, <2>1
    <2> QED BY <1>1, <2>1, <2>2, <2>3, SimGoesOn
  <1> QED BY <1>4, <1>5, <1>6, <1>7 DEF SimStep

\* Emptied and written, the log and the snapshots of the io task keep the order.
LEMMA IoTakeKeepsOrder ==
  ASSUME TypeInv, OrderInv, DurableInv, IoTake
  PROVE  OrderInv' /\ DurableInv'
  <1>1. /\ running /\ running' /\ io.at = "idle" /\ world' = world /\ synced' = synced
        /\ snapshot' = snapshot /\ wal_header' = wal_header /\ io_queue # << >>
        /\ Loaded' = Loaded
    BY DEF IoTake, Io, sim_part, Loaded
  <1>2. wal_header # "absent"
    BY <1>1 DEF OrderInv
  <1>3. PICK q \in Seq(IoCmd) : q = Queue
    BY QueueType
  <1>4. q # << >> /\ Head(q) = Head(io_queue) /\ Queue' = Tail(q)
    <2>1. Queue' = Tail(io_queue) \o outbox
      BY DEF IoTake, Queue, sim_part
    <2> QED BY <1>1, <1>3, <2>1, QueueSteps
  <1>5. PICK m \in IoCmd : m = Head(q) /\ m = q[1] /\ 1 \in DOMAIN q
    BY <1>4, OrderedTail
  <1>6. \A i \in DOMAIN Tail(q) : i + 1 \in DOMAIN q /\ Tail(q)[i] = q[i + 1]
    BY <1>4, OrderedTail
  <1>7. Ordered(Tail(q)) /\ \A i \in DOMAIN Tail(q) : Before(m, Tail(q)[i])
    BY <1>3, <1>4, <1>5, OrderedTail DEF OrderInv
  <1>8. /\ \A i \in DOMAIN q : Has(world, q[i])
        /\ \A i \in DOMAIN q : IsRecord(q[i]) => Loaded.tick <= q[i].tick
        /\ \A i \in DOMAIN wal : Before(wal[i], m)
        /\ AllBefore(wal, Tail(q))
    BY <1>1, <1>3, <1>5, <1>6 DEF OrderInv, AllBefore
  <1>9. \A i \in DOMAIN q : IsSnapshot(q[i]) => synced \subseteq ToSet(q[i].saved.history)
    BY <1>3 DEF DurableInv
  <1>10. Pending = << >>
    BY <1>1 DEF Pending
  <1>11. /\ \A i \in DOMAIN wal : IsRecord(wal[i]) /\ Has(world, wal[i])
         /\ Ordered(wal) /\ Loaded.tick <= world.tick
    BY <1>1 DEF OrderInv
  <1>12. CASE m.op = "AppendEdits"
    <2>1. IsRecord(m) /\ wal' = Append(wal, m) /\ io' = [at |-> "fsync"]
      BY <1>4, <1>5, <1>12 DEF IoTake, IsRecord
    <2>2. Pending' = << >>
      BY <2>1 DEF Pending
    <2>3. wal \in Seq(WalItem) /\ m \in WalItem
      BY <1>12 DEF TypeInv, TypeOK, IoCmd, WalItem
    <2>4. PICK log : log = Append(wal, m)
      OBVIOUS
    <2>5. \A i \in DOMAIN log : (i \in DOMAIN wal /\ log[i] = wal[i]) \/ log[i] = m
      BY <2>3, <2>4, Appended
    <2>6. Ordered(log)
      BY <1>8, <1>11, <2>3, <2>4, OrderedAppend
    <2>7. /\ \A i \in DOMAIN log : IsRecord(log[i]) /\ Has(world, log[i])
          /\ AllBefore(log, Tail(q))
      BY <1>5, <1>7, <1>8, <1>11, <2>1, <2>5 DEF AllBefore
    <2>8. wal' = log
      BY <2>1, <2>4
    <2>9. OrderInv'
      BY <1>1, <1>2, <1>4, <1>6, <1>7, <1>8, <1>11, <2>2, <2>6, <2>7, <2>8 DEF OrderInv, AllBefore, Ordered
    <2>10. synced \subseteq ToSet(Loaded.history) \cup {log[i].edit : i \in DOMAIN log}
      <3>1. \A i \in DOMAIN wal : i \in DOMAIN log /\ log[i] = wal[i]
        BY <2>3, <2>4
      <3> QED BY <3>1 DEF DurableInv
    <2>11. \A i \in DOMAIN log : log[i].tick < Loaded.tick => log[i].edit \in ToSet(Loaded.history)
      <3>1. Loaded.tick <= m.tick /\ Loaded.tick \in Int /\ m.tick \in Int
        BY <1>5, <1>8, <2>1, Ticks
      <3> QED BY <2>5, <3>1 DEF DurableInv
    <2>12. DurableInv'
      BY <1>1, <1>4, <1>6, <1>9, <2>1, <2>2, <2>8, <2>10, <2>11 DEF DurableInv
    <2> QED BY <2>9, <2>12
  <1>13. CASE m.op = "Snapshot"
    <2>1. IsSnapshot(m) /\ wal' = wal /\ io' = [at |-> "rename", saved |-> m.saved]
      BY <1>4, <1>5, <1>13 DEF IoTake, IsSnapshot
    <2>2. m = SnapshotOf(m.saved)
      BY <1>13 DEF IoCmd, SnapshotOf
    <2>3. Pending' = << m >>
      <3>1. io'.at = "rename" /\ io'.saved = m.saved
        BY <2>1
      <3> QED BY <2>2, <3>1 DEF Pending
    <2>4. PICK p : p = << m >> /\ DOMAIN p = {1} /\ p[1] = m
      <3>1. DOMAIN << m >> = 1..1 /\ << m >>[1] = m
        OBVIOUS
      <3>2. 1..1 = {1}
        OBVIOUS
      <3> QED BY <3>1, <3>2
    <2>5. OrderInv'
      BY <1>1, <1>2, <1>4, <1>5, <1>6, <1>7, <1>8, <1>11, <2>1, <2>3, <2>4 DEF OrderInv, AllBefore, Ordered
    <2>6. DurableInv'
      BY <1>1, <1>4, <1>5, <1>6, <1>9, <2>1, <2>3, <2>4 DEF DurableInv
    <2> QED BY <2>5, <2>6
  <1> QED BY <1>5, <1>12, <1>13 DEF IoCmd

LEMMA IoKeepsOrder ==
  ASSUME TypeInv, OrderInv, DurableInv, IoStep
  PROVE  OrderInv' /\ DurableInv'
  <1>1. CASE IoOpen
    <2>1. io.at = "opening" /\ io'.at \in {"header", "idle"}
      BY <1>1 DEF IoOpen, Io
    <2>2. wal' = wal
      BY <1>1 DEF IoOpen, OrderInv
    <2>3. Pending = << >> /\ Pending' = << >>
      BY <2>1 DEF Pending
    <2>4. Queue' = Queue /\ Loaded' = Loaded
      BY <1>1 DEF IoOpen, Queue, Loaded, sim_part
    <2>5. wal_header' # "absent" /\ running /\ running' /\ world' = world /\ synced' = synced
      BY <1>1 DEF IoOpen, Io, sim_part
    <2> QED BY <2>1, <2>2, <2>3, <2>4, <2>5 DEF OrderInv, DurableInv, Ordered, AllBefore
  <1>2. CASE IoWriteHeader
    <2>1. io.at = "header" /\ io'.at = "idle"
      BY <1>2 DEF IoWriteHeader, Io
    <2>2. Pending = << >> /\ Pending' = << >>
      BY <2>1 DEF Pending
    <2>3. Queue' = Queue /\ Loaded' = Loaded /\ wal' = wal
      BY <1>2 DEF IoWriteHeader, Queue, Loaded, sim_part
    <2>4. wal_header' # "absent" /\ running /\ running' /\ world' = world /\ synced' = synced
      BY <1>2 DEF IoWriteHeader, Io, sim_part
    <2> QED BY <2>1, <2>2, <2>3, <2>4 DEF OrderInv, DurableInv, Ordered, AllBefore
  <1>3. CASE IoTake
    BY <1>3, IoTakeKeepsOrder
  <1>4. CASE IoFsync
    <2>1. io.at = "fsync" /\ io'.at = "idle" /\ running /\ running'
      BY <1>4 DEF IoFsync, Io
    <2>2. Pending = << >> /\ Pending' = << >>
      BY <2>1 DEF Pending
    <2>3. /\ Queue' = Queue /\ Loaded' = Loaded /\ wal' = wal /\ wal_header' = wal_header
          /\ world' = world
      BY <1>4 DEF IoFsync, Queue, Loaded, sim_part, disk
    <2>4. OrderInv'
      BY <2>1, <2>2, <2>3 DEF OrderInv, Ordered, AllBefore
    <2>5. PICK n \in DOMAIN wal : synced' = synced \cup {wal[n].edit}
      BY <1>4, <2>1 DEF IoFsync, Last, TypeInv, TypeOK
    <2>6. wal[n].edit \in ToSet(world.history)
      BY <2>1 DEF OrderInv, Has
    <2>7. \A i \in DOMAIN Queue : IsSnapshot(Queue[i]) => wal[n].edit \in ToSet(Queue[i].saved.history)
      BY DEF OrderInv, AllBefore, Before
    <2> QED BY <2>1, <2>2, <2>3, <2>4, <2>5, <2>6, <2>7 DEF DurableInv
  <1>5. CASE IoRename
    <2>1. io.at = "rename" /\ io'.at = "truncate" /\ running /\ running' /\ snapshot' = io.saved
      BY <1>5 DEF IoRename, Io
    <2>2. io.saved \in World
      BY <2>1 DEF TypeInv, TypeOK
    <2>3. Loaded' = io.saved
      BY <2>1, <2>2, NoFileAssumption DEF Loaded
    <2>4. PICK m : m = SnapshotOf(io.saved) /\ IsSnapshot(m) /\ ~IsRecord(m) /\ m.saved = io.saved
      <3>1. SnapshotOf(io.saved).op = "Snapshot" /\ SnapshotOf(io.saved).saved = io.saved
        BY DEF SnapshotOf
      <3> QED BY <3>1 DEF IsSnapshot, IsRecord
    <2>5. PICK p : p = << m >> /\ DOMAIN p = {1} /\ p[1] = m
      <3>1. DOMAIN << m >> = 1..1 /\ << m >>[1] = m
        OBVIOUS
      <3>2. 1..1 = {1}
        OBVIOUS
      <3> QED BY <3>1, <3>2
    <2>6. Pending = p /\ Pending' = << >>
      BY <2>1, <2>4, <2>5 DEF Pending
    <2>7. /\ Queue' = Queue /\ wal' = wal /\ wal_header' = wal_header
          /\ world' = world /\ synced' = synced
      BY <1>5 DEF IoRename, Queue, sim_part
    <2>8. /\ \A i \in DOMAIN Queue : IsRecord(Queue[i]) => io.saved.tick <= Queue[i].tick
          /\ \A i \in DOMAIN wal : wal[i].edit \in ToSet(io.saved.history)
          /\ io.saved.tick <= world.tick
      BY <2>1, <2>4, <2>5, <2>6 DEF OrderInv, AllBefore, Before, Has
    <2>9. synced \subseteq ToSet(io.saved.history)
      BY <2>4, <2>5, <2>6 DEF DurableInv
    <2>10. OrderInv'
      BY <2>1, <2>3, <2>6, <2>7, <2>8 DEF OrderInv, Ordered, AllBefore
    <2>11. DurableInv'
      BY <2>1, <2>3, <2>6, <2>7, <2>8, <2>9 DEF DurableInv
    <2> QED BY <2>10, <2>11
  <1>6. CASE IoTruncate
    <2>1. io.at = "truncate" /\ io'.at = "header" /\ running /\ running'
      BY <1>6 DEF IoTruncate, Io
    <2>2. Pending = << >> /\ Pending' = << >>
      BY <2>1 DEF Pending
    <2>3. Queue' = Queue /\ Loaded' = Loaded /\ wal' = << >> /\ wal_header' = "short"
      BY <1>6 DEF IoTruncate, Queue, Loaded, sim_part
    <2>4. world' = world /\ synced' = synced
      BY <1>6 DEF IoTruncate, sim_part
    <2>5. DOMAIN << >> = {}
      OBVIOUS
    <2>6. synced \subseteq ToSet(Loaded.history)
      BY <2>1 DEF DurableInv
    <2> QED BY <2>1, <2>2, <2>3, <2>4, <2>5, <2>6 DEF OrderInv, DurableInv, Ordered, AllBefore
  <1> QED BY <1>1, <1>2, <1>3, <1>4, <1>5, <1>6 DEF IoStep

\* A crash that loses no write leaves the log as it is.
LEMMA CrashKeepsOrder ==
  ASSUME ~PowerLoss, TypeInv, OrderInv, DurableInv, Crash
  PROVE  OrderInv' /\ DurableInv'
  <1>1. wal' = wal
    BY DEF Crash, Remains
  <1>2. Queue' = << >> /\ Pending' = << >> /\ Loaded' = Loaded
    <2>1. << >> \o << >> = << >>
      OBVIOUS
    <2> QED BY <2>1 DEF Crash, Queue, Pending, Loaded
  <1>3. DOMAIN << >> = {}
    OBVIOUS
  <1>4. ~running' /\ io'.at = "idle" /\ wal_header' = wal_header /\ synced' = synced
    BY DEF Crash
  <1> QED BY <1>1, <1>2, <1>3, <1>4 DEF OrderInv, DurableInv, Ordered, AllBefore

LEMMA BootKeepsOrder ==
  ASSUME TypeInv, OrderInv, DurableInv, Boot
  PROVE  OrderInv' /\ DurableInv'
  <1>1. /\ Loaded.tick <= Recovered.tick
        /\ ToSet(Loaded.history) \subseteq ToSet(Recovered.history)
        /\ \A i \in DOMAIN wal :
             /\ wal[i].tick <= Recovered.tick
             /\ Loaded.tick <= wal[i].tick => wal[i].edit \in ToSet(Recovered.history)
    BY RecoveredHas DEF OrderInv
  <1>2. PICK w : w = Recovered /\ world' = w
    BY DEF Boot
  <1>3. /\ wal' = wal /\ Loaded' = Loaded /\ wal_header' = wal_header /\ synced' = synced
        /\ running' /\ io'.at = "opening" /\ ~running
    BY DEF Boot, disk, Loaded
  <1>4. Queue = << >> /\ Queue' = << >> /\ Pending = << >> /\ Pending' = << >>
    <2>1. Queue' = Queue
      BY DEF Boot, Queue
    <2> QED BY <1>3, <2>1 DEF OrderInv, Pending
  <1>5. DOMAIN << >> = {}
    OBVIOUS
  <1>6. \A i \in DOMAIN wal : wal[i].edit \in ToSet(w.history)
    <2> TAKE i \in DOMAIN wal
    <2>1. IsRecord(wal[i])
      BY DEF OrderInv
    <2>2. wal[i].tick \in Int /\ Loaded.tick \in Int
      BY <2>1, Ticks
    <2>3. CASE Loaded.tick <= wal[i].tick
      BY <1>1, <1>2, <2>3
    <2>4. CASE wal[i].tick < Loaded.tick
      BY <1>1, <1>2, <2>4 DEF DurableInv
    <2> QED BY <2>2, <2>3, <2>4
  <1>7. \A i \in DOMAIN wal : Has(w, wal[i])
    BY <1>1, <1>2, <1>6 DEF OrderInv, Has, IsRecord, IsSnapshot
  <1>8. OrderInv'
    BY <1>1, <1>2, <1>3, <1>4, <1>5, <1>7 DEF OrderInv, Ordered, AllBefore
  <1>9. synced \subseteq ToSet(w.history)
    BY <1>1, <1>2, <1>6 DEF DurableInv
  <1>10. DurableInv'
    BY <1>2, <1>3, <1>4, <1>5, <1>9 DEF DurableInv
  <1> QED BY <1>8, <1>10

LEMMA InitOrder == Init => OrderInv /\ DurableInv
  <1> SUFFICES ASSUME Init
               PROVE  OrderInv /\ DurableInv
    OBVIOUS
  <1>1. Queue = << >> /\ Pending = << >> /\ wal = << >> /\ ~running /\ synced = {} /\ io.at = "idle"
    <2>1. << >> \o << >> = << >>
      OBVIOUS
    <2> QED BY <2>1 DEF Init, Queue, Pending
  <1>2. DOMAIN << >> = {}
    OBVIOUS
  <1> QED BY <1>1, <1>2 DEF OrderInv, DurableInv, Ordered, AllBefore

\* The types, the order and the place of the durable edits are kept together.
LEMMA OrderInvariant == ASSUME ~PowerLoss PROVE Spec => [](TypeInv /\ OrderInv /\ DurableInv)
  <1>1. TypeInv /\ OrderInv /\ DurableInv /\ [Next]_vars => (TypeInv /\ OrderInv /\ DurableInv)'
    <2> SUFFICES ASSUME TypeInv, OrderInv, DurableInv, [Next]_vars
                 PROVE  (TypeInv /\ OrderInv /\ DurableInv)'
      OBVIOUS
    <2>1. CASE UNCHANGED vars
      <3>1. Queue' = Queue /\ Pending' = Pending /\ Loaded' = Loaded
        BY <2>1 DEF vars, sim_part, disk, Queue, Pending, Loaded
      <3>2. TypeInv'
        BY <2>1 DEF vars, sim_part, disk, TypeInv, TypeOK, Known
      <3>3. OrderInv' /\ DurableInv'
        BY <2>1, <3>1 DEF vars, sim_part, disk, OrderInv, DurableInv, Ordered, AllBefore
      <3> QED BY <3>2, <3>3
    <2>2. CASE SimStep
      BY <2>2, SimKeepsTypes, SimKeepsOrder
    <2>3. CASE IoStep
      BY <2>3, IoKeepsTypes, IoKeepsOrder
    <2>4. CASE Crash
      BY <2>4, CrashKeepsTypes, CrashKeepsOrder
    <2>5. CASE Boot
      BY <2>5, BootKeepsTypes, BootKeepsOrder
    <2> QED BY <2>1, <2>2, <2>3, <2>4, <2>5 DEF Next
  <1> QED BY <1>1, InitTypes, InitOrder, PTL DEF Spec

\* "Recent edits survive a crash": as long as the disk keeps what was written, a
\* server that is up has every edit whose record was fsynced, wherever in writing
\* a record, a snapshot or the log's header it was stopped, and however often.
THEOREM FsyncedSurvives == ASSUME ~PowerLoss PROVE Spec => []DurableSurvives
  <1>1. TypeInv /\ OrderInv /\ DurableInv => DurableSurvives
    BY DEF DurableInv, DurableSurvives
  <1> QED BY <1>1, OrderInvariant, PTL

\* IoCmd: "Must arrive in tick order".  As long as the disk keeps what was written,
\* log, channel and outbox of a running server hold records by tick, none from the
\* future, and the snapshots cut them at their tick.
THEOREM TicksInOrder == ASSUME ~PowerLoss PROVE Spec => []TickOrder
  <1>1. TypeInv /\ OrderInv => TickOrder
    <2> SUFFICES ASSUME TypeInv, OrderInv, running
                 PROVE  TickOrder
      BY DEF TickOrder
    <2> DEFINE S == WalItem \cup IoCmd
    <2>1. PICK a \in Seq(S), b \in Seq(S), c \in Seq(S) : a = wal /\ b = io_queue /\ c = outbox
      BY DEF TypeInv, TypeOK
    <2> HIDE DEF S
    <2>2. PICK q \in Seq(S) : q = b \o c
      BY ConcatProperties
    <2>3. PICK s \in Seq(S) : s = a \o q
      BY ConcatProperties
    <2>4. Stream = s /\ Queue = q
      <3>1. (a \o b) \o c = a \o (b \o c)
        BY ConcatAssociative, SMTT(30)
      <3> QED BY <2>1, <2>2, <2>3, <3>1 DEF Stream, Queue
    <2>5. \A i \in DOMAIN s : \/ i \in DOMAIN a /\ s[i] = a[i]
                              \/ i - Len(a) \in DOMAIN q /\ s[i] = q[i - Len(a)] /\ i > Len(a)
      <3>1. Len(s) = Len(a) + Len(q) /\ Len(a) \in Nat /\ Len(q) \in Nat
        BY <2>3, ConcatProperties
      <3>2. \A i \in 1..Len(a) + Len(q) : s[i] = IF i <= Len(a) THEN a[i] ELSE q[i - Len(a)]
        BY <2>3, ConcatProperties
      <3>3. DOMAIN s = 1..Len(s) /\ DOMAIN a = 1..Len(a) /\ DOMAIN q = 1..Len(q)
        OBVIOUS
      <3> TAKE i \in DOMAIN s
      <3>4. CASE i <= Len(a)
        <4>1. i \in 1..Len(a) /\ i \in 1..Len(a) + Len(q)
          BY <3>1, <3>3, <3>4
        <4>2. s[i] = a[i]
          BY <3>2, <3>4, <4>1
        <4>3. i \in DOMAIN a
          BY <3>3, <4>1
        <4> QED BY <4>2, <4>3
      <3>5. CASE ~(i <= Len(a))
        <4>1. i > Len(a) /\ i - Len(a) \in 1..Len(q)
          BY <3>1, <3>3, <3>5
        <4> QED BY <3>1, <3>2, <3>3, <3>5, <4>1
      <3> QED BY <3>4, <3>5
    <2>6. \A i \in DOMAIN s : Has(world, s[i])
      BY <2>1, <2>4, <2>5 DEF OrderInv
    <2>7. ASSUME NEW i \in DOMAIN s, NEW j \in DOMAIN s, i < j
          PROVE  Before(s[i], s[j])
      <3>1. DOMAIN a = 1..Len(a) /\ Len(a) \in Nat /\ i \in Int /\ j \in Int
        OBVIOUS
      <3>2. Ordered(a) /\ Ordered(q) /\ AllBefore(a, q)
        BY <2>1, <2>4 DEF OrderInv
      <3>3. CASE i \in DOMAIN a /\ s[i] = a[i] /\ j \in DOMAIN a /\ s[j] = a[j]
        BY <2>7, <3>2, <3>3 DEF Ordered
      <3>4. CASE i \in DOMAIN a /\ s[i] = a[i] /\ j - Len(a) \in DOMAIN q /\ s[j] = q[j - Len(a)]
        BY <3>2, <3>4 DEF AllBefore
      <3>5. CASE /\ i - Len(a) \in DOMAIN q /\ s[i] = q[i - Len(a)] /\ i > Len(a)
                 /\ j - Len(a) \in DOMAIN q /\ s[j] = q[j - Len(a)]
        <4>1. i - Len(a) < j - Len(a)
          BY <2>7, <3>1
        <4> QED BY <3>2, <3>5, <4>1 DEF Ordered
      <3>6. CASE i > Len(a) /\ j \in DOMAIN a
        BY <2>7, <3>1, <3>6
      <3> QED BY <2>5, <3>3, <3>4, <3>5, <3>6
    <2> QED BY <2>4, <2>6, <2>7 DEF TickOrder, Has, Before, IsRecord, IsSnapshot
  <1> QED BY <1>1, OrderInvariant, PTL

-----------------------------------------------------------------------------
(* History: what the log tells of worlds.  Log and queues lead from what is  *)
(* loaded to the running world, told by its edits and the ticks between.     *)

Item == EditId \cup {"tick"}

\* What could be told of a world: its script, instead of its history.
Telling == [tick: 0..MaxTick, history: Seq(Item)]
Told(w) == [tick |-> w.tick, history |-> Script(w.history)]

\* The script of n ticks.
Stepped(n) == [i \in 1..n |-> "tick"]

\* Telling v, stepped on, is telling w.
Caught(v, w) == v.tick <= w.tick /\ w.history = v.history \o Stepped(w.tick - v.tick)

\* Replay, as it is told.
Redo(w, r) ==
  IF r.tick < w.tick THEN w
  ELSE [tick |-> r.tick, history |-> w.history \o Stepped(r.tick - w.tick) \o << r.edit >>]

\* Message m leads from telling v to telling w.
Meets(v, m, w) ==
  \/ IsRecord(m) /\ w = Redo(v, m)
  \/ IsSnapshot(m) /\ w = Told(m.saved) /\ Caught(v, w)

Leads(v, q, w) ==
  \E f : f[0] = v /\ f[Len(q)] = w /\ \A i \in 1..Len(q) : Meets(f[i - 1], q[i], f[i])

Begins(h, k) == \E u \in Seq(Item) : k = h \o u

\* A script is as long as its history, and has item by item what is told of it.
LEMMA ScriptType ==
  ASSUME NEW h \in Seq(Entry)
  PROVE  /\ Script(h) \in Seq(Item) /\ Len(Script(h)) = Len(h)
         /\ \A i \in 1..Len(h) : Script(h)[i] = IF h[i] \in EditId THEN h[i] ELSE "tick"
  <1>1. PICK n \in Nat : n = Len(h) /\ DOMAIN h = 1..n
    OBVIOUS
  <1>2. Script(h) = [i \in 1..n |-> IF h[i] \in EditId THEN h[i] ELSE "tick"]
    BY <1>1 DEF Script
  <1>3. \A i \in 1..n : (IF h[i] \in EditId THEN h[i] ELSE "tick") \in Item
    BY DEF Item
  <1>4. Script(h) \in Seq(Item) /\ Len(Script(h)) = n
    BY <1>2, <1>3
  <1> QED BY <1>1, <1>2, <1>4

LEMMA ScriptAppend ==
  ASSUME NEW h \in Seq(Entry), NEW e \in Entry
  PROVE  /\ e \in EditId => Script(Append(h, e)) = Append(Script(h), e)
         /\ e \notin EditId => Script(Append(h, e)) = Append(Script(h), "tick")
  <1>1. PICK k \in Seq(Entry) : k = Append(h, e)
    <2>1. Append(h, e) \in Seq(Entry)
      OBVIOUS
    <2> QED BY <2>1
  <1>2. Len(k) = Len(h) + 1 /\ k[Len(h) + 1] = e /\ \A i \in 1..Len(h) : k[i] = h[i]
    BY <1>1
  <1>3. PICK a \in Seq(Item), b \in Seq(Item) : a = Script(h) /\ b = Script(k)
    BY ScriptType
  <1>4. /\ Len(a) = Len(h) /\ Len(b) = Len(h) + 1
        /\ \A i \in 1..Len(h) : a[i] = IF h[i] \in EditId THEN h[i] ELSE "tick"
        /\ \A i \in 1..Len(h) + 1 : b[i] = IF k[i] \in EditId THEN k[i] ELSE "tick"
    BY <1>2, <1>3, ScriptType
  <1>5. \A i \in 1..Len(h) : b[i] = a[i]
    BY <1>2, <1>4
  <1>6. ASSUME NEW x \in Item, x = b[Len(h) + 1]
        PROVE  b = Append(a, x)
    <2>1. Append(a, x) \in Seq(Item) /\ Len(Append(a, x)) = Len(h) + 1
      BY <1>4
    <2>2. \A i \in 1..Len(h) + 1 : b[i] = Append(a, x)[i]
      BY <1>4, <1>5, <1>6
    <2> QED BY <1>4, <2>1, <2>2, SeqEqual
  <1>7. b[Len(h) + 1] = IF e \in EditId THEN e ELSE "tick"
    BY <1>2, <1>4
  <1> QED BY <1>1, <1>3, <1>6, <1>7 DEF Item

LEMMA ToldType ==
  ASSUME NEW w \in World
  PROVE  Told(w) \in Telling /\ Told(w).tick = w.tick /\ Told(w).history = Script(w.history)
  <1>1. w.tick \in 0..MaxTick /\ w.history \in Seq(Entry)
    BY DEF World, Entry
  <1> QED BY <1>1, ScriptType DEF Told, Telling

LEMMA SteppedType ==
  /\ \A n \in Nat : Stepped(n) \in Seq(Item) /\ Append(Stepped(n), "tick") = Stepped(n + 1)
  /\ Stepped(0) = << >>
  <1>1. "tick" \in Item
    BY DEF Item
  <1>2. ASSUME NEW n \in Nat
        PROVE  Stepped(n) \in Seq(Item) /\ Append(Stepped(n), "tick") = Stepped(n + 1)
    <2>1. \A k \in Nat : Stepped(k) \in Seq(Item) /\ Len(Stepped(k)) = k /\ \A i \in 1..k : Stepped(k)[i] = "tick"
      BY <1>1 DEF Stepped
    <2>2. PICK a \in Seq(Item), b \in Seq(Item) : a = Stepped(n) /\ b = Stepped(n + 1)
      BY <2>1
    <2>3. Len(a) = n /\ Len(b) = n + 1 /\ (\A i \in 1..n : a[i] = "tick") /\ \A i \in 1..(n + 1) : b[i] = "tick"
      BY <2>1, <2>2
    <2>4. Append(a, "tick") = b
      <3>1. Append(a, "tick") \in Seq(Item) /\ Len(Append(a, "tick")) = n + 1
        BY <1>1, <2>3
      <3>2. \A i \in 1..(n + 1) : Append(a, "tick")[i] = b[i]
        BY <1>1, <2>3
      <3> QED BY <2>3, <3>1, <3>2, SeqEqual
    <2> QED BY <2>1, <2>2, <2>4
  <1>3. Stepped(0) = << >>
    BY DEF Stepped
  <1> QED BY <1>2, <1>3

\* A history that begins as another is no shorter, and has it as prefix.
LEMMA BeginsProperties ==
  ASSUME NEW h \in Seq(Item), NEW k \in Seq(Item), Begins(h, k)
  PROVE  Len(h) <= Len(k) /\ IsPrefix(h, k) /\ h = SubSeq(k, 1, Len(h))
  <1>1. PICK u \in Seq(Item) : k = h \o u
    BY DEF Begins
  <1>2. Len(k) = Len(h) + Len(u) /\ Len(h) \in Nat /\ Len(u) \in Nat
    BY <1>1, ConcatProperties
  <1>3. \A i \in 1..Len(h) : k[i] = h[i]
    BY <1>1, <1>2, ConcatProperties
  <1>4. SubSeq(h, 1, Len(h)) = h
    BY SubSeqFull
  <1>5. PICK g \in Seq(Item) : g = SubSeq(k, 1, Len(h)) /\ Len(g) = Len(h) /\ \A i \in 1..Len(h) : g[i] = k[i]
    <2>1. \A i \in 1..Len(h) : k[i] \in Item
      BY <1>2
    <2>2. PICK n \in Int : n = Len(h) /\ n \in Nat
      BY <1>2
    <2>3. SubSeq(k, 1, n) \in Seq(Item) /\ Len(SubSeq(k, 1, n)) = n
      BY <2>1, <2>2, SubSeqProperties
    <2>4. \A i \in 1..n : SubSeq(k, 1, n)[i] = k[i]
      BY <1>2, <2>2
    <2> QED BY <2>2, <2>3, <2>4
  <1>6. g = h
    BY <1>3, <1>5, SeqEqual
  <1> QED BY <1>2, <1>4, <1>5, <1>6 DEF IsPrefix

LEMMA BeginsOn ==
  ASSUME NEW h \in Seq(Item), NEW k \in Seq(Item), NEW l \in Seq(Item), Begins(h, k), Begins(k, l)
  PROVE  Begins(h, l)
  <1>1. PICK u \in Seq(Item) : k = h \o u
    BY DEF Begins
  <1>2. PICK v \in Seq(Item) : l = k \o v
    BY DEF Begins
  <1>3. l = h \o (u \o v) /\ u \o v \in Seq(Item)
    BY <1>1, <1>2, ConcatAssociative, ConcatProperties, SMTT(30)
  <1> QED BY <1>3 DEF Begins

LEMMA BeginsSelf == ASSUME NEW h \in Seq(Item) PROVE Begins(h, h)
  <1>1. h = h \o << >> /\ << >> \in Seq(Item)
    BY ConcatEmptySeq
  <1> QED BY <1>1 DEF Begins

LEMMA CaughtBegins ==
  ASSUME NEW v \in Telling, NEW w \in Telling, Caught(v, w)
  PROVE  Begins(v.history, w.history)
  <1>1. w.tick - v.tick \in Nat
    BY StorageAssumption DEF Telling, Caught
  <1> QED BY <1>1, SteppedType DEF Caught, Begins

\* What a message leads to begins as what was told before.
LEMMA MeetsType ==
  ASSUME NEW v \in Telling, NEW m \in IoCmd, NEW w, Meets(v, m, w)
  PROVE  w \in Telling /\ Begins(v.history, w.history)
  <1>1. v.tick \in 0..MaxTick /\ v.history \in Seq(Item)
    BY DEF Telling, Item
  <1>2. CASE IsSnapshot(m)
    <2>1. ~IsRecord(m)
      BY <1>2 DEF IsRecord, IsSnapshot
    <2>2. w = Told(m.saved) /\ Caught(v, w) /\ m.saved \in World
      BY <1>2, <2>1 DEF Meets, IoCmd, IsSnapshot
    <2>3. w \in Telling
      BY <2>2, ToldType
    <2> QED BY <2>2, <2>3, CaughtBegins
  <1>3. CASE IsRecord(m)
    <2>1. ~IsSnapshot(m) /\ m.tick \in 0..MaxTick /\ m.edit \in Item
      BY <1>3 DEF IsRecord, IsSnapshot, IoCmd, Item
    <2>2. w = Redo(v, m)
      BY <2>1 DEF Meets
    <2>3. CASE m.tick < v.tick
      BY <1>1, <2>2, <2>3, BeginsSelf DEF Redo
    <2>4. CASE ~(m.tick < v.tick)
      <3>1. PICK u \in Seq(Item) : u = Stepped(m.tick - v.tick)
        <4>1. m.tick - v.tick \in Nat
          BY <1>1, <2>1, <2>4, StorageAssumption
        <4> QED BY <4>1, SteppedType
      <3>2. PICK e \in Seq(Item) : e = << m.edit >>
        <4>1. << m.edit >> \in Seq(Item)
          BY <2>1
        <4> QED BY <4>1
      <3>3. w = [tick |-> m.tick, history |-> (v.history \o u) \o e]
        BY <2>2, <2>4, <3>1, <3>2 DEF Redo
      <3>4. (v.history \o u) \o e = v.history \o (u \o e) /\ u \o e \in Seq(Item)
        <4>1. PICK h \in Seq(Item) : h = v.history
          BY <1>1
        <4>2. (h \o u) \o e = h \o (u \o e)
          BY ConcatAssociative, SMTT(30)
        <4>3. u \o e \in Seq(Item)
          BY ConcatProperties
        <4> QED BY <4>1, <4>2, <4>3
      <3>5. (v.history \o u) \o e \in Seq(Item)
        BY <1>1, <3>4, ConcatProperties
      <3> QED BY <2>1, <3>3, <3>4, <3>5 DEF Telling, Begins, Item
    <2> QED BY <2>3, <2>4
  <1> QED BY <1>2, <1>3 DEF Meets

LEMMA LeadsNone ==
  ASSUME NEW v, NEW w
  PROVE  Leads(v, << >>, w) <=> v = w
  <1>1. Len(<< >>) = 0 /\ 1..0 = {}
    OBVIOUS
  <1>2. ASSUME v = w
        PROVE  Leads(v, << >>, w)
    <2> DEFINE f == [i \in {0} |-> v]
    <2>1. f[0] = v
      OBVIOUS
    <2> HIDE DEF f
    <2> QED BY <1>1, <1>2, <2>1 DEF Leads
  <1> QED BY <1>1, <1>2 DEF Leads

\* One message more.
LEMMA LeadsOn ==
  ASSUME NEW S, NEW q \in Seq(S), NEW m \in S, NEW v, NEW w, NEW x, Leads(v, q, w), Meets(w, m, x)
  PROVE  Leads(v, Append(q, m), x)
  <1>1. PICK n \in Nat : n = Len(q)
    OBVIOUS
  <1>2. PICK f : f[0] = v /\ f[n] = w /\ \A i \in 1..n : Meets(f[i - 1], q[i], f[i])
    BY <1>1 DEF Leads
  <1>3. PICK p \in Seq(S) : p = Append(q, m) /\ Len(p) = n + 1 /\ p[n + 1] = m /\ \A i \in 1..n : p[i] = q[i]
    <2>1. Append(q, m) \in Seq(S) /\ Len(Append(q, m)) = n + 1 /\ Append(q, m)[n + 1] = m
      BY <1>1
    <2>2. \A i \in 1..n : Append(q, m)[i] = q[i]
      BY <1>1
    <2> QED BY <2>1, <2>2
  <1> DEFINE g == [i \in 0..(n + 1) |-> IF i = n + 1 THEN x ELSE f[i]]
  <1>4. g[0] = v /\ g[n + 1] = x /\ \A i \in 0..n : g[i] = f[i]
    BY <1>2
  <1>5. ASSUME NEW i \in 1..(n + 1)
        PROVE  Meets(g[i - 1], p[i], g[i])
    <2>1. i - 1 \in 0..n
      OBVIOUS
    <2>2. CASE i = n + 1
      <3>1. i - 1 = n
        BY <2>2
      <3> HIDE DEF g
      <3> QED BY <1>2, <1>3, <1>4, <2>1, <2>2, <3>1
    <2>3. CASE i \in 1..n
      <3>1. i \in 0..n
        BY <2>3
      <3> HIDE DEF g
      <3> QED BY <1>2, <1>3, <1>4, <2>1, <2>3, <3>1
    <2> QED BY <2>2, <2>3
  <1> HIDE DEF g
  <1> QED BY <1>3, <1>4, <1>5 DEF Leads

\* The first message, and the rest.
LEMMA LeadsFrom ==
  ASSUME NEW S, NEW q \in Seq(S), NEW v, NEW w, q # << >>, Leads(v, q, w)
  PROVE  \E x : Meets(v, Head(q), x) /\ Leads(x, Tail(q), w)
  <1>1. PICK n \in Nat : n + 1 = Len(q)
    <2>1. Len(q) - 1 \in Nat /\ (Len(q) - 1) + 1 = Len(q)
      OBVIOUS
    <2> QED BY <2>1
  <1>2. PICK f : f[0] = v /\ f[n + 1] = w /\ \A i \in 1..(n + 1) : Meets(f[i - 1], q[i], f[i])
    BY <1>1 DEF Leads
  <1>3. PICK p \in Seq(S) : p = Tail(q) /\ Len(p) = n /\ \A i \in 1..n : p[i] = q[i + 1]
    <2>1. Tail(q) \in Seq(S) /\ Len(Tail(q)) = n
      BY <1>1
    <2>2. \A i \in 1..n : Tail(q)[i] = q[i + 1]
      BY <1>1
    <2> QED BY <2>1, <2>2
  <1>4. Head(q) = q[1]
    OBVIOUS
  <1>5. Meets(v, Head(q), f[1])
    <2>1. 1 \in 1..(n + 1) /\ 1 - 1 = 0
      OBVIOUS
    <2> QED BY <1>2, <1>4, <2>1
  <1> DEFINE g == [i \in 0..n |-> f[i + 1]]
  <1>6. g[0] = f[1] /\ g[n] = w
    BY <1>2
  <1>7. ASSUME NEW i \in 1..n
        PROVE  Meets(g[i - 1], p[i], g[i])
    <2>1. i + 1 \in 1..(n + 1) /\ (i + 1) - 1 = i
      OBVIOUS
    <2>2. g[i] = f[i + 1] /\ g[i - 1] = f[i]
      OBVIOUS
    <2> HIDE DEF g
    <2> QED BY <1>2, <1>3, <2>1, <2>2
  <1>8. Leads(f[1], p, w)
    <2> HIDE DEF g
    <2> QED BY <1>3, <1>6, <1>7 DEF Leads
  <1>9. Leads(f[1], Tail(q), w)
    BY ONLY <1>3, <1>8
  <1> QED BY ONLY <1>5, <1>9, Zenon

\* Records lead to one telling only.
LEMMA LeadsOnce ==
  ASSUME NEW S, NEW q \in Seq(S), \A i \in DOMAIN q : IsRecord(q[i]),
         NEW v, NEW w, NEW x, Leads(v, q, w), Leads(v, q, x)
  PROVE  w = x
  <1>1. PICK n \in Nat : n = Len(q) /\ DOMAIN q = 1..n
    OBVIOUS
  <1>2. PICK f : f[0] = v /\ f[n] = w /\ \A i \in 1..n : Meets(f[i - 1], q[i], f[i])
    BY <1>1 DEF Leads
  <1>3. PICK g : g[0] = v /\ g[n] = x /\ \A i \in 1..n : Meets(g[i - 1], q[i], g[i])
    BY <1>1 DEF Leads
  <1>4. \A i \in 1..n : f[i] = Redo(f[i - 1], q[i]) /\ g[i] = Redo(g[i - 1], q[i])
    BY <1>1, <1>2, <1>3 DEF Meets, IsRecord, IsSnapshot
  <1> DEFINE N == {k \in Nat : k <= n => f[k] = g[k]}
  <1>5. 0 \in N
    BY <1>2, <1>3
  <1>6. ASSUME NEW k \in Nat, k \in N
        PROVE  k + 1 \in N
    <2> SUFFICES ASSUME k + 1 <= n
                 PROVE  f[k + 1] = g[k + 1]
      OBVIOUS
    <2>1. k + 1 \in 1..n /\ (k + 1) - 1 = k /\ f[k] = g[k]
      BY <1>6
    <2> QED BY <1>4, <2>1
  <1> HIDE DEF N
  <1>7. Nat \subseteq N
    BY <1>5, <1>6, SetInduction
  <1>8. f[n] = g[n]
    BY <1>7 DEF N
  <1> QED BY <1>2, <1>3, <1>8

\* Records that are older than what is told lead nowhere.
LEMMA LeadsNowhere ==
  ASSUME NEW S, NEW q \in Seq(S), NEW v, \A i \in DOMAIN q : IsRecord(q[i]) /\ q[i].tick < v.tick
  PROVE  Leads(v, q, v)
  <1>1. PICK n \in Nat : n = Len(q) /\ DOMAIN q = 1..n
    OBVIOUS
  <1> DEFINE f == [i \in 0..n |-> v]
  <1>2. \A i \in 0..n : f[i] = v
    OBVIOUS
  <1> HIDE DEF f
  <1>3. \A i \in 1..n : i \in 0..n /\ i - 1 \in 0..n /\ Meets(v, q[i], v)
    <2>1. \A i \in 1..n : i \in 0..n /\ i - 1 \in 0..n
      OBVIOUS
    <2>2. \A i \in 1..n : Meets(v, q[i], v)
      BY <1>1 DEF Meets, Redo
    <2> QED BY <2>1, <2>2
  <1>4. \A i \in 1..n : Meets(f[i - 1], q[i], f[i])
    BY <1>2, <1>3
  <1>5. f[0] = v /\ f[n] = v
    BY <1>2
  <1> QED BY <1>1, <1>4, <1>5 DEF Leads

\* What commands lead to begins as what was told before.
LEMMA LeadsType ==
  ASSUME NEW q \in Seq(IoCmd), NEW v \in Telling, NEW w, Leads(v, q, w)
  PROVE  w \in Telling /\ Begins(v.history, w.history)
  <1>1. PICK n \in Nat : n = Len(q) /\ \A i \in 1..n : q[i] \in IoCmd
    OBVIOUS
  <1>2. PICK f : f[0] = v /\ f[n] = w /\ \A i \in 1..n : Meets(f[i - 1], q[i], f[i])
    BY <1>1 DEF Leads
  <1> DEFINE N == {k \in Nat : k <= n => f[k] \in Telling /\ Begins(v.history, f[k].history)}
  <1>3. v.history \in Seq(Item)
    BY DEF Telling, Item
  <1>4. 0 \in N
    BY <1>2, <1>3, BeginsSelf
  <1>5. ASSUME NEW k \in Nat, k \in N
        PROVE  k + 1 \in N
    <2> SUFFICES ASSUME k + 1 <= n
                 PROVE  f[k + 1] \in Telling /\ Begins(v.history, f[k + 1].history)
      OBVIOUS
    <2>1. k + 1 \in 1..n /\ (k + 1) - 1 = k /\ f[k] \in Telling /\ Begins(v.history, f[k].history)
      BY <1>5
    <2>2. Meets(f[k], q[k + 1], f[k + 1]) /\ q[k + 1] \in IoCmd
      BY <1>1, <1>2, <2>1
    <2>3. f[k + 1] \in Telling /\ Begins(f[k].history, f[k + 1].history)
      BY <2>1, <2>2, MeetsType
    <2>4. f[k].history \in Seq(Item) /\ f[k + 1].history \in Seq(Item)
      BY <2>1, <2>3 DEF Telling, Item
    <2> QED BY <1>3, <2>1, <2>3, <2>4, BeginsOn
  <1> HIDE DEF N
  <1>6. Nat \subseteq N
    BY <1>4, <1>5, SetInduction
  <1>7. f[n] \in Telling /\ Begins(v.history, f[n].history)
    BY <1>6 DEF N
  <1> QED BY <1>2, <1>7

\* What could be told of the running world, and of that which a boot would recover.
Now  == Told(world)
Kept == Told(Recovered)

\* What a boot would recover is where the log leads.
HistInv == Kept \in Telling /\ Leads(Told(Loaded), wal, Kept)

\* A record replayed is told as it is done again.
LEMMA ReplayTold ==
  ASSUME NEW w \in World, NEW r \in Logged
  PROVE  Told(Replay(w, r)) = Redo(Told(w), r)
  <1> DEFINE steps == [i \in 1..(r.tick - w.tick) |-> ReplayRule]
  <1>1. r.tick \in Int /\ w.tick \in Int /\ w.history \in Seq(Entry) /\ r.edit \in EditId
    BY StorageAssumption DEF World, Logged, Entry
  <1>2. CASE r.tick < w.tick
    BY <1>2 DEF Replay, Redo, Told
  <1>3. CASE ~(r.tick < w.tick)
    <2>1. PICK n \in Nat : n = r.tick - w.tick
      BY <1>1, <1>3
    <2>2. ReplayRule \in Entry /\ ReplayRule \notin EditId /\ r.edit \in Entry
      <3>1. ReplayRule \in {{}, Rule \ {"owned"}} /\ ReplayRule \in SUBSET {"frozen", "owned"}
        BY StorageAssumption DEF ReplayRule
      <3> QED BY <1>1, <3>1, StorageAssumption DEF Rules, Entry
    <2>3. PICK u \in Seq(Entry) : u = steps /\ Len(u) = n /\ \A i \in 1..n : u[i] = ReplayRule
      <3>1. steps = [i \in 1..n |-> ReplayRule]
        BY <2>1
      <3> HIDE DEF steps
      <3>2. steps \in Seq(Entry) /\ Len(steps) = n /\ \A i \in 1..n : steps[i] = ReplayRule
        BY <2>2, <3>1
      <3> QED BY <3>2
    <2>4. PICK h \in Seq(Entry), p \in Seq(Entry) : h = w.history /\ p = h \o u
      BY <1>1, ConcatProperties
    <2>5. PICK v : v = Replay(w, r)
      OBVIOUS
    <2>6. v.tick = r.tick /\ v.history = p \o << r.edit >>
      <3>1. v = [w EXCEPT !.tick = r.tick, !.history = w.history \o u \o << r.edit >>]
        BY <1>3, <2>3, <2>5 DEF Replay
      <3> QED BY <2>4, <3>1 DEF World
    <2>7. p \o << r.edit >> = Append(p, r.edit)
      BY <2>2, AppendIsConcat
    <2>8. Script(Append(p, r.edit)) = Append(Script(p), r.edit)
      BY <1>1, <2>2, ScriptAppend
    <2>9. PICK a \in Seq(Item), b \in Seq(Item), c \in Seq(Item) :
            a = Script(h) /\ b = Stepped(n) /\ c = Script(p)
      BY <2>4, ScriptType, SteppedType
    <2>10. c = a \o b
      <3>0. Len(h \o u) = Len(h) + Len(u)
        BY ConcatProperties
      <3>1. Len(p) = Len(h) + n /\ Len(c) = Len(h) + n /\ Len(a) = Len(h) /\ Len(h) \in Nat
        <4>1. Len(p) = Len(h) + n
          BY <2>3, <2>4, <3>0
        <4>2. Len(c) = Len(p)
          BY <2>9, ScriptType
        <4>3. Len(a) = Len(h)
          BY <2>9, ScriptType
        <4>4. Len(h) \in Nat
          BY <2>4
        <4> QED BY <4>1, <4>2, <4>3, <4>4
      <3>2. Len(b) = n /\ \A i \in 1..n : b[i] = "tick"
        BY <2>9 DEF Stepped
      <3>3. /\ a \o b \in Seq(Item) /\ Len(a \o b) = Len(h) + n
            /\ \A i \in 1..(Len(h) + n) :
                 (a \o b)[i] = IF i <= Len(h) THEN a[i] ELSE b[i - Len(h)]
        <4>1. /\ Len(a \o b) = Len(a) + Len(b) /\ a \o b \in Seq(Item)
              /\ \A i \in 1..(Len(a) + Len(b)) : (a \o b)[i] = IF i <= Len(a) THEN a[i] ELSE b[i - Len(a)]
          BY ConcatProperties
        <4> QED BY <3>1, <3>2, <4>1
      <3>4. \A i \in 1..(Len(h) + n) : p[i] = IF i <= Len(h) THEN h[i] ELSE u[i - Len(h)]
        <4>1. \A i \in 1..(Len(h) + Len(u)) : (h \o u)[i] = IF i <= Len(h) THEN h[i] ELSE u[i - Len(h)]
          BY ConcatProperties
        <4> QED BY <2>3, <2>4, <4>1
      <3>5. /\ \A i \in 1..(Len(h) + n) : c[i] = IF p[i] \in EditId THEN p[i] ELSE "tick"
            /\ \A i \in 1..Len(h) : a[i] = IF h[i] \in EditId THEN h[i] ELSE "tick"
        BY <2>9, <3>1, ScriptType
      <3>6. ASSUME NEW i \in 1..(Len(h) + n)
            PROVE  c[i] = (a \o b)[i]
        <4>1. Len(h) \in Nat /\ i \in Nat
          OBVIOUS
        <4>2. CASE i <= Len(h)
          <5>1. i \in 1..Len(h)
            BY <4>1, <4>2
          <5>2. p[i] = h[i] /\ (a \o b)[i] = a[i]
            BY <3>3, <3>4, <4>2
          <5> QED BY <3>5, <5>1, <5>2
        <4>3. CASE ~(i <= Len(h))
          <5>1. i - Len(h) \in 1..n
            BY <4>1, <4>3
          <5>2. p[i] = ReplayRule /\ (a \o b)[i] = "tick"
            BY <2>3, <3>2, <3>3, <3>4, <4>3, <5>1
          <5> QED BY <2>2, <3>5, <5>2
        <4> QED BY <4>2, <4>3
      <3> QED BY <3>1, <3>3, <3>6, SeqEqual
    <2>11. PICK l \in Seq(Item) : l = << r.edit >>
      <3>1. << r.edit >> \in Seq(Item)
        BY <1>1 DEF Item
      <3> QED BY <3>1
    <2>12. Append(a \o b, r.edit) = (a \o b) \o l
      BY <1>1, <2>11, AppendIsConcat, ConcatProperties DEF Item
    <2>13. Told(v) = [tick |-> r.tick, history |-> (a \o b) \o l]
      BY <2>6, <2>7, <2>8, <2>9, <2>10, <2>12 DEF Told
    <2>14. Redo(Told(w), r) = [tick |-> r.tick, history |-> (a \o b) \o l]
      <3>1. Told(w).tick = w.tick /\ Told(w).history = a
        BY <2>4, <2>9 DEF Told
      <3> QED BY <1>3, <2>1, <2>9, <2>11, <3>1 DEF Redo
    <2> QED BY <2>5, <2>13, <2>14
  <1> QED BY <1>2, <1>3

LEMMA RecoveredLeads ==
  ASSUME TypeInv, OrderInv
  PROVE  HistInv
  <1>1. Recovered \in World /\ Loaded \in World
    BY RecoveredType, Ticks DEF TypeInv, TypeOK
  <1>2. \A i \in DOMAIN wal : IsRecord(wal[i])
    BY DEF OrderInv
  <1>3. Damaged = {} /\ Intact = wal /\ wal \in Seq(Logged)
    BY <1>2, IntactType DEF Damaged, IsRecord, TypeInv, TypeOK
  <1>4. Recovered = Replayed(Loaded, wal)
    BY <1>3 DEF Recovered, Replayed
  <1>5. PICK n \in Nat : n = Len(wal) /\ DOMAIN wal = 1..n
    BY <1>3
  <1>6. PICK f : /\ f[0] = Loaded
                 /\ \A k \in 1..n : f[k] = Replay(f[k - 1], wal[k])
                 /\ Replayed(Loaded, wal) = f[n]
    BY <1>5, FoldIs
  <1>7. \A k \in 1..n : wal[k] \in Logged
    BY <1>3, <1>5
  <1> DEFINE N == {k \in Nat : k <= n => f[k] \in World}
  <1>8. 0 \in N
    BY <1>1, <1>6
  <1>9. ASSUME NEW k \in Nat, k \in N
        PROVE  k + 1 \in N
    <2> SUFFICES ASSUME k + 1 <= n
                 PROVE  f[k + 1] \in World
      OBVIOUS
    <2>1. k + 1 \in 1..n /\ (k + 1) - 1 = k /\ f[k] \in World
      BY <1>9
    <2>2. wal[k + 1] \in Logged /\ f[k + 1] = Replay(f[k], wal[k + 1])
      BY <1>6, <1>7, <2>1
    <2> QED BY <2>1, <2>2, ReplayType
  <1> HIDE DEF N
  <1>10. Nat \subseteq N
    BY <1>8, <1>9, SetInduction
  <1>11. \A k \in 0..n : f[k] \in World
    BY <1>10 DEF N
  <1> DEFINE g == [k \in 0..n |-> Told(f[k])]
  <1>12. \A k \in 0..n : g[k] = Told(f[k])
    OBVIOUS
  <1> HIDE DEF g
  <1>13. g[0] = Told(Loaded) /\ g[n] = Kept
    BY <1>4, <1>6, <1>12 DEF Kept
  <1>14. ASSUME NEW k \in 1..n
         PROVE  Meets(g[k - 1], wal[k], g[k])
    <2>1. k \in 0..n /\ k - 1 \in 0..n
      OBVIOUS
    <2>2. f[k] = Replay(f[k - 1], wal[k]) /\ wal[k] \in Logged /\ f[k - 1] \in World
      BY <1>6, <1>7, <1>11, <2>1
    <2>3. g[k] = Redo(g[k - 1], wal[k])
      BY <1>12, <2>1, <2>2, ReplayTold
    <2> QED BY <1>2, <1>5, <2>3 DEF Meets
  <1>15. Kept \in Telling
    BY <1>1, ToldType DEF Kept
  <1> QED BY <1>5, <1>13, <1>14, <1>15 DEF HistInv, Leads

\* What the queued messages lead on from.
Base == IF io.at = "rename" THEN Told(io.saved) ELSE Kept

\* A running server's world is where log, snapshot and queues lead, stepped on;
\* that of a server that is down began as the one it will recover.
WorldInv ==
  /\ running => /\ io.at = "rename" => Caught(Kept, Told(io.saved))
                /\ \E z \in Telling : Leads(Base, Queue, z) /\ Caught(z, Now)
  /\ io.at = "truncate" => \A i \in DOMAIN wal : wal[i].tick < Loaded.tick
  /\ ~running => Begins(Kept.history, Now.history)

LEMMA SameLog ==
  ASSUME TypeInv, OrderInv, HistInv, HistInv', Loaded' = Loaded, wal' = wal
  PROVE  Kept' = Kept
  <1>1. Leads(Told(Loaded), wal, Kept) /\ Leads(Told(Loaded'), wal', Kept')
    BY DEF HistInv, Told, Script
  <1>2. wal \in Seq(WalItem) /\ \A i \in DOMAIN wal : IsRecord(wal[i])
    BY DEF TypeInv, TypeOK, OrderInv
  <1> QED BY <1>1, <1>2, LeadsOnce

\* What is told of a world is a telling, of its tick.
LEMMA NowTelling ==
  ASSUME TypeInv
  PROVE  /\ Now \in Telling /\ Now.tick = world.tick /\ Now.history = Script(world.history)
         /\ io.at = "rename" => Told(io.saved) \in Telling /\ Told(io.saved).tick = io.saved.tick
         /\ Told(Loaded).tick = Loaded.tick
  <1>1. io.at = "rename" => io.saved \in World
    BY DEF TypeInv, TypeOK
  <1> QED BY <1>1, ToldType, Ticks DEF Now, TypeInv, TypeOK

\* At all times: what is safe begins what could be told of the world.
LEMMA SafeBegins ==
  ASSUME TypeInv, HistInv, WorldInv
  PROVE  Begins(Kept.history, Now.history)
  <1>1. CASE ~running
    BY <1>1 DEF WorldInv
  <1>2. CASE running
    <2>1. PICK z \in Telling : Leads(Base, Queue, z) /\ Caught(z, Now)
      BY <1>2 DEF WorldInv
    <2>2. Now \in Telling /\ Kept \in Telling /\ (io.at = "rename" => Told(io.saved) \in Telling)
      BY NowTelling DEF HistInv
    <2>3. PICK b \in Telling : b = Base
      BY <2>2 DEF Base
    <2>4. b.history \in Seq(Item) /\ z.history \in Seq(Item) /\ Now.history \in Seq(Item)
          /\ Kept.history \in Seq(Item)
      BY <2>2 DEF Telling
    <2>5. Begins(Kept.history, b.history)
      BY <1>2, <2>2, <2>3, <2>4, BeginsSelf, CaughtBegins DEF Base, WorldInv
    <2>6. Begins(b.history, z.history)
      BY <2>1, <2>3, QueueType, LeadsType
    <2>7. Begins(z.history, Now.history)
      BY <2>1, <2>2, CaughtBegins
    <2>8. Begins(Kept.history, z.history)
      BY <2>4, <2>5, <2>6, BeginsOn
    <2> QED BY <2>4, <2>7, <2>8, BeginsOn
  <1> QED BY <1>1, <1>2

LEMMA CaughtSelf == ASSUME NEW w \in Telling PROVE Caught(w, w)
  <1>1. w.tick \in Nat /\ w.history \in Seq(Item) /\ w.tick - w.tick = 0
    BY StorageAssumption DEF Telling
  <1>2. w.history \o << >> = w.history
    BY <1>1, ConcatEmptySeq
  <1>3. Stepped(w.tick - w.tick) = << >>
    BY <1>1, SteppedType
  <1>4. w.tick <= w.tick
    BY <1>1
  <1>5. w.history = w.history \o Stepped(w.tick - w.tick)
    BY <1>2, <1>3
  <1> QED BY <1>4, <1>5 DEF Caught

\* A tick more.
LEMMA CaughtOn ==
  ASSUME NEW z \in Telling, NEW w \in Telling, Caught(z, w),
         NEW v, v.tick = w.tick + 1, v.history = Append(w.history, "tick")
  PROVE  Caught(z, v)
  <1>1. z.tick \in Nat /\ w.tick \in Nat /\ z.history \in Seq(Item) /\ "tick" \in Item
    BY StorageAssumption DEF Telling, Item
  <1>2. PICK n \in Nat : n = w.tick - z.tick /\ v.tick - z.tick = n + 1 /\ z.tick <= v.tick
    BY <1>1 DEF Caught
  <1>3. PICK h \in Seq(Item), u \in Seq(Item) : h = z.history /\ u = Stepped(n)
    BY <1>1, SteppedType
  <1>4. PICK l \in Seq(Item) : l = << "tick" >>
    <2>1. << "tick" >> \in Seq(Item)
      BY <1>1
    <2> QED BY <2>1
  <1>5. Append(h \o u, "tick") = (h \o u) \o l /\ Append(u, "tick") = u \o l
    <2>1. h \o u \in Seq(Item)
      BY ConcatProperties
    <2> QED BY <1>1, <1>4, <2>1, AppendIsConcat
  <1>6. (h \o u) \o l = h \o (u \o l)
    BY ConcatAssociative, SMTT(30)
  <1>7. Append(u, "tick") = Stepped(n + 1)
    BY <1>3, SteppedType
  <1>8. v.history = h \o Stepped(n + 1)
    BY <1>2, <1>3, <1>5, <1>6, <1>7 DEF Caught
  <1> QED BY <1>2, <1>3, <1>8 DEF Caught

LEMMA SimKeepsWorld ==
  ASSUME TypeInv, TypeInv', OrderInv, HistInv, HistInv', WorldInv, SimStep
  PROVE  WorldInv'
  <1>1. running /\ running' /\ io' = io /\ wal' = wal /\ Loaded' = Loaded
    BY DEF SimStep, SimEdit, SimTick, SimSend, SimReap, SimReady, disk, Loaded
  <1>2. Kept' = Kept
    BY <1>1, SameLog
  <1>3. Base' = Base
    BY <1>1, <1>2 DEF Base, Told, Script
  <1>4. PICK z \in Telling : Leads(Base, Queue, z) /\ Caught(z, Now)
    BY <1>1 DEF WorldInv
  <1>5. ASSUME NEW y \in Telling, Leads(Base, Queue', y), Caught(y, Now')
        PROVE  WorldInv'
    BY <1>1, <1>2, <1>3, <1>5 DEF WorldInv
  <1>6. /\ world \in World /\ world' \in World
        /\ Now \in Telling /\ Now.tick = world.tick /\ Now.history = Script(world.history)
        /\ Now' \in Telling /\ Now' = Told(world')
    BY NowTelling, ToldType DEF TypeInv, TypeOK, Now, Told, Script
  <1>7. Queue \in Seq(IoCmd) /\ io_queue \in Seq(IoCmd)
    BY QueueType DEF TypeInv, TypeOK
  <1>8. ASSUME NEW e \in EditId, SimEdit(e)
        PROVE  WorldInv'
    <2>1. PICK m : m = Record(world.tick, e)
      OBVIOUS
    <2>2. m \in IoCmd /\ IsRecord(m) /\ m.tick = world.tick /\ m.edit = e
      <3>1. world.tick \in 0..MaxTick
        BY <1>6 DEF World
      <3> QED BY <2>1, <3>1 DEF Record, IoCmd, IsRecord
    <2>3. Queue' = Append(Queue, m)
      <3>1. Queue = io_queue
        BY <1>8, QueueSteps DEF SimEdit, SimReady
      <3>2. Queue' = io_queue \o << m >>
        BY <1>8, <2>1 DEF Queue, SimEdit
      <3> QED BY <1>7, <2>2, <3>1, <3>2, AppendIsConcat
    <2>4. Now' = [tick |-> Now.tick, history |-> Now.history \o << e >>]
      <3>1. Now.history \in Seq(Item) /\ e \in Item /\ e \in Entry /\ world.history \in Seq(Entry)
        BY <1>6 DEF Telling, World, Item, Entry
      <3>2. Append(Now.history, e) = Now.history \o << e >>
        BY <3>1, AppendIsConcat
      <3>3. world'.tick = world.tick /\ world'.history = Append(world.history, e)
        BY <1>6, <1>8 DEF SimEdit, World
      <3>4. Script(Append(world.history, e)) = Append(Script(world.history), e)
        BY <3>1, ScriptAppend
      <3> QED BY <1>6, <3>2, <3>3, <3>4 DEF Told
    <2>5. Now' = Redo(z, m)
      <3>1. ~(m.tick < z.tick)
        BY <1>4, <1>6, <2>2, StorageAssumption DEF Caught, Telling
      <3>2. Redo(z, m) = [tick |-> m.tick, history |-> z.history \o Stepped(m.tick - z.tick) \o << m.edit >>]
        BY <3>1 DEF Redo
      <3> QED BY <1>4, <1>6, <2>2, <2>4, <3>2 DEF Caught
    <2>6. Leads(Base, Queue', Now')
      BY <1>4, <1>7, <2>2, <2>3, <2>5, LeadsOn DEF Meets
    <2> QED BY <1>5, <1>6, <2>6, CaughtSelf
  <1>9. CASE SimTick
    <2>1. Now'.tick = Now.tick + 1 /\ Now'.history = Append(Now.history, "tick")
      <3>1. world'.tick = world.tick + 1 /\ world'.history = Append(world.history, Rule)
        BY <1>6, <1>9 DEF SimTick, World
      <3>2. world.history \in Seq(Entry) /\ Rule \in Entry /\ Rule \notin EditId
        BY <1>6, StorageAssumption DEF World, Entry, Rules
      <3>3. Script(Append(world.history, Rule)) = Append(Script(world.history), "tick")
        BY <3>2, ScriptAppend
      <3> QED BY <1>6, <3>1, <3>3 DEF Told
    <2>2. Queue = io_queue
      BY <1>9, QueueSteps DEF SimTick, SimReady
    <2>3. Caught(z, Now')
      BY <1>4, <1>6, <2>1, CaughtOn
    <2>4. CASE outbox' = << >>
      <3>1. Queue' = Queue
        BY <1>7, <1>9, <2>2, <2>4, ConcatEmptySeq DEF Queue, SimTick
      <3> QED BY <1>4, <1>5, <2>3, <3>1
    <2>5. CASE outbox' = << SnapshotOf(world') >>
      <3>1. PICK m : m = SnapshotOf(world')
        OBVIOUS
      <3>2. m \in IoCmd /\ IsSnapshot(m) /\ m.saved = world'
        BY <1>6, <3>1 DEF SnapshotOf, IoCmd, IsSnapshot
      <3>3. Queue' = io_queue \o << m >>
        BY <1>9, <2>5, <3>1 DEF Queue, SimTick
      <3>4. Queue' = Append(Queue, m)
        BY <1>7, <2>2, <3>2, <3>3, AppendIsConcat
      <3>5. Leads(Base, Queue', Now')
        BY <1>4, <1>6, <1>7, <2>3, <3>2, <3>4, LeadsOn DEF Meets
      <3> QED BY <1>5, <1>6, <3>5, CaughtSelf
    <2> QED BY <1>9, <2>4, <2>5 DEF SimTick, SimReady
  <1>10. CASE SimSend
    <2>1. Queue' = Queue /\ Now' = Now
      BY <1>10, QueueSteps DEF SimSend, Now, Told, Script
    <2> QED BY <1>4, <1>5, <2>1
  <1>11. ASSUME NEW r \in ReapId, SimReap(r)
         PROVE  WorldInv'
    <2>1. world'.tick = world.tick /\ world'.history = world.history
      BY <1>6, <1>11 DEF SimReap, World
    <2>2. Now' = Now
      BY <1>6, <2>1 DEF Told, Now
    <2>3. Queue' = Queue
      BY <1>11 DEF SimReap, Queue
    <2> QED BY <1>4, <1>5, <2>2, <2>3
  <1> QED BY <1>8, <1>9, <1>10, <1>11 DEF SimStep

LEMMA IoKeepsWorld ==
  ASSUME TypeInv, TypeInv', OrderInv, OrderInv', HistInv, HistInv', WorldInv, IoStep
  PROVE  WorldInv' /\ Begins(Kept.history, Kept'.history)
  <1>1. running /\ running' /\ Now' = Now
    <2>1. running /\ running' /\ world' = world
      BY DEF IoStep, IoOpen, IoWriteHeader, IoTake, IoFsync, IoRename, IoTruncate, Io, sim_part
    <2> QED BY <2>1 DEF Now, Told, Script
  <1>2. PICK z \in Telling : Leads(Base, Queue, z) /\ Caught(z, Now)
    BY <1>1 DEF WorldInv
  <1>3. wal \in Seq(WalItem) /\ \A i \in DOMAIN wal : IsRecord(wal[i])
    BY DEF TypeInv, TypeOK, OrderInv
  <1>4. wal' \in Seq(WalItem) /\ \A i \in DOMAIN wal' : IsRecord(wal'[i])
    BY DEF TypeInv, TypeOK, OrderInv
  <1>5. ASSUME NEW x, Leads(Told(Loaded'), wal', x)
        PROVE  Kept' = x
    <2>1. Leads(Told(Loaded'), wal', Kept')
      BY DEF HistInv, Told, Script
    <2> QED BY <1>4, <1>5, <2>1, LeadsOnce
  <1>6. Kept \in Telling /\ Begins(Kept.history, Kept.history)
    BY BeginsSelf DEF HistInv, Telling
  <1>7. ASSUME io.at \notin {"rename", "truncate"}, io'.at \notin {"rename", "truncate"},
               wal' = wal, Loaded' = Loaded, Queue' = Queue
        PROVE  WorldInv' /\ Begins(Kept.history, Kept'.history)
    <2>1. Kept' = Kept
      BY <1>7, SameLog
    <2>2. Base' = Base
      BY <1>7, <2>1 DEF Base
    <2>3. WorldInv'
      BY <1>1, <1>2, <1>7, <2>2 DEF WorldInv
    <2> QED BY <1>6, <2>1, <2>3
  <1>8. CASE IoOpen
    <2>1. wal' = wal
      BY <1>8 DEF IoOpen, OrderInv
    <2> QED BY <1>7, <1>8, <2>1 DEF IoOpen, Io, Queue, Loaded, sim_part
  <1>9. CASE IoWriteHeader
    BY <1>7, <1>9 DEF IoWriteHeader, Io, Queue, Loaded, sim_part
  <1>10. CASE IoFsync
    BY <1>7, <1>10 DEF IoFsync, Io, Queue, Loaded, sim_part, disk
  <1>11. CASE IoTake
    <2>1. PICK q \in Seq(IoCmd) : q = Queue
      BY QueueType
    <2>2. io.at = "idle" /\ io_queue # << >> /\ Loaded' = Loaded
      BY <1>11 DEF IoTake, Io, Loaded
    <2>3. q # << >> /\ Head(q) = Head(io_queue) /\ Queue' = Tail(q)
      <3>1. Queue' = Tail(io_queue) \o outbox
        BY <1>11 DEF IoTake, Queue, sim_part
      <3> QED BY <2>1, <2>2, <3>1, QueueSteps
    <2>4. PICK m \in IoCmd : m = Head(q)
      BY <2>3
    <2>5. Base = Kept
      BY <2>2 DEF Base
    <2>6. PICK x : Meets(Kept, m, x) /\ Leads(x, Tail(q), z)
      BY <1>2, <2>1, <2>3, <2>4, <2>5, LeadsFrom
    <2>7. CASE m.op = "AppendEdits"
      <3>1. wal' = Append(wal, m) /\ io' = [at |-> "fsync"]
        BY <1>11, <2>3, <2>4, <2>7 DEF IoTake
      <3>2. m \in WalItem
        BY <2>7 DEF IoCmd, WalItem
      <3>3. Leads(Told(Loaded), wal, Kept)
        BY DEF HistInv
      <3>4. Leads(Told(Loaded'), wal', x)
        BY <1>3, <2>2, <2>6, <3>1, <3>2, <3>3, LeadsOn
      <3>5. Kept' = x
        BY <1>5, <3>4
      <3>6. io'.at = "fsync"
        BY <3>1
      <3>7. Base' = x
        BY <3>5, <3>6 DEF Base
      <3>8. WorldInv'
        BY <1>1, <1>2, <2>3, <2>6, <3>6, <3>7 DEF WorldInv
      <3>9. Begins(Kept.history, x.history)
        BY <1>6, <2>4, <2>6, MeetsType
      <3> QED BY <3>5, <3>8, <3>9
    <2>8. CASE m.op = "Snapshot"
      <3>1. wal' = wal /\ io' = [at |-> "rename", saved |-> m.saved]
        BY <1>11, <2>3, <2>4, <2>8 DEF IoTake
      <3>2. Kept' = Kept
        BY <2>2, <3>1, SameLog
      <3>3. x = Told(m.saved) /\ Caught(Kept, Told(m.saved))
        BY <2>6, <2>8 DEF Meets, IsRecord
      <3>4. io'.at = "rename" /\ io'.saved = m.saved
        BY <3>1
      <3>5. Base' = x
        BY <3>3, <3>4 DEF Base, Told, Script
      <3>6. WorldInv'
        <4>1. Told(io.saved)' = Told(m.saved)
          BY <3>4 DEF Told, Script
        <4> QED BY <1>1, <1>2, <2>3, <2>6, <3>2, <3>3, <3>4, <3>5, <4>1 DEF WorldInv
      <3> QED BY <1>6, <3>2, <3>6
    <2> QED BY <2>4, <2>7, <2>8 DEF IoCmd
  <1>12. CASE IoRename
    <2>1. io.at = "rename" /\ io' = [at |-> "truncate"] /\ snapshot' = io.saved /\ wal' = wal /\ Queue' = Queue
      BY <1>12 DEF IoRename, Io, Queue, sim_part
    <2>2. io.saved \in World
      BY <2>1 DEF TypeInv, TypeOK
    <2>3. Loaded' = io.saved
      BY <2>1, <2>2, NoFileAssumption DEF Loaded
    <2>4. \A i \in DOMAIN wal : wal[i].tick < io.saved.tick
      <3>1. PICK m : m = SnapshotOf(io.saved) /\ IsSnapshot(m) /\ m.saved = io.saved
        <4>1. SnapshotOf(io.saved).op = "Snapshot" /\ SnapshotOf(io.saved).saved = io.saved
          BY DEF SnapshotOf
        <4> QED BY <4>1 DEF IsSnapshot
      <3>2. PICK p : p = << m >> /\ 1 \in DOMAIN p /\ p[1] = m
        <4>1. 1 \in DOMAIN << m >> /\ << m >>[1] = m
          OBVIOUS
        <4> QED BY <4>1
      <3>3. Pending = p
        BY <2>1, <3>1, <3>2 DEF Pending
      <3> QED BY <1>3, <3>1, <3>2, <3>3 DEF OrderInv, AllBefore, Before
    <2>5. Leads(Told(Loaded'), wal', Told(io.saved))
      BY <1>3, <2>1, <2>3, <2>4, LeadsNowhere, NowTelling
    <2>6. Kept' = Told(io.saved)
      BY <1>5, <2>5
    <2>7. io'.at = "truncate"
      BY <2>1
    <2>8. Base = Told(io.saved) /\ Base' = Told(io.saved)
      BY <2>1, <2>6, <2>7 DEF Base
    <2>9. WorldInv'
      BY <1>1, <1>2, <2>1, <2>3, <2>4, <2>7, <2>8 DEF WorldInv
    <2>10. Begins(Kept.history, Told(io.saved).history)
      BY <1>1, <1>6, <2>1, NowTelling, CaughtBegins DEF WorldInv
    <2> QED BY <2>6, <2>9, <2>10
  <1>13. CASE IoTruncate
    <2>1. io.at = "truncate" /\ io' = [at |-> "header"] /\ wal' = << >> /\ Loaded' = Loaded /\ Queue' = Queue
      BY <1>13 DEF IoTruncate, Io, Queue, Loaded, sim_part
    <2>2. Leads(Told(Loaded), wal, Told(Loaded))
      BY <1>3, <2>1, LeadsNowhere, NowTelling DEF WorldInv
    <2>3. Leads(Told(Loaded), wal, Kept)
      BY DEF HistInv
    <2>4. Kept = Told(Loaded)
      BY <1>3, <2>2, <2>3, LeadsOnce
    <2>5. Kept' = Told(Loaded)
      BY <1>5, <2>1, LeadsNone
    <2>6. io'.at = "header"
      BY <2>1
    <2>7. Base = Told(Loaded) /\ Base' = Told(Loaded)
      BY <2>1, <2>4, <2>5, <2>6 DEF Base
    <2>8. WorldInv'
      BY <1>1, <1>2, <2>1, <2>6, <2>7 DEF WorldInv
    <2> QED BY <1>6, <2>4, <2>5, <2>8
  <1> QED BY <1>8, <1>9, <1>10, <1>11, <1>12, <1>13 DEF IoStep

LEMMA CrashKeepsWorld ==
  ASSUME ~PowerLoss, TypeInv, OrderInv, HistInv, HistInv', WorldInv, Crash
  PROVE  WorldInv'
  <1>1. wal' = wal /\ Loaded' = Loaded /\ Now' = Now /\ ~running' /\ io'.at = "idle"
    BY DEF Crash, Remains, Loaded, Now, Told, Script
  <1>2. Kept' = Kept
    BY <1>1, SameLog
  <1> QED BY <1>1, <1>2, SafeBegins DEF WorldInv

LEMMA BootKeepsWorld ==
  ASSUME TypeInv, OrderInv, OrderInv', HistInv, HistInv', WorldInv, Boot
  PROVE  WorldInv'
  <1>1. wal' = wal /\ Loaded' = Loaded /\ running' /\ io'.at = "opening" /\ Now' = Kept /\ ~running
    BY DEF Boot, disk, Loaded, Now, Kept, Told, Script
  <1>2. Kept' = Kept
    BY <1>1, SameLog
  <1>3. Base' = Kept
    BY <1>1, <1>2 DEF Base
  <1>4. Queue' = << >>
    <2>1. Queue' = Queue
      BY DEF Boot, Queue
    <2> QED BY <1>1, <2>1 DEF OrderInv
  <1>5. Leads(Kept, << >>, Kept) /\ Caught(Kept, Kept) /\ Kept \in Telling
    BY LeadsNone, CaughtSelf DEF HistInv
  <1> QED BY <1>1, <1>3, <1>4, <1>5 DEF WorldInv

LEMMA InitWorld == ASSUME Init, HistInv PROVE WorldInv
  <1>1. ~running /\ io.at = "idle" /\ wal = << >> /\ Loaded = Fresh /\ world = Fresh
    BY DEF Init, Loaded
  <1>2. Kept = Told(Fresh) /\ Now = Told(Fresh)
    BY <1>1, LeadsNone DEF HistInv, Now
  <1>3. Kept.history \in Seq(Item)
    BY DEF HistInv, Telling
  <1> QED BY <1>1, <1>2, <1>3, BeginsSelf DEF WorldInv

\* All of it is kept together.
LEMMA HistoryInvariant ==
  ASSUME ~PowerLoss
  PROVE  Spec => [](TypeInv /\ OrderInv /\ HistInv /\ WorldInv)
  <1>1. TypeInv /\ OrderInv => HistInv
    BY RecoveredLeads
  <1>2. Init /\ HistInv => WorldInv
    BY InitWorld
  <1>3. TypeInv /\ OrderInv /\ HistInv /\ TypeInv' /\ OrderInv' /\ HistInv' /\ WorldInv /\ [Next]_vars
          => WorldInv'
    <2> SUFFICES ASSUME TypeInv, OrderInv, HistInv, TypeInv', OrderInv', HistInv', WorldInv, [Next]_vars
                 PROVE  WorldInv'
      OBVIOUS
    <2>1. CASE UNCHANGED vars
      <3>1. Loaded' = Loaded /\ wal' = wal /\ Queue' = Queue
        BY <2>1 DEF vars, sim_part, disk, Loaded, Queue
      <3>2. Kept' = Kept
        BY <3>1, SameLog
      <3>3. Base' = Base
        BY <2>1, <3>2 DEF vars, Base, Told, Script
      <3>4. Now' = Now /\ Told(io.saved)' = Told(io.saved)
        BY <2>1 DEF vars, sim_part, Now, Told, Script
      <3> QED BY <2>1, <3>1, <3>2, <3>3, <3>4 DEF vars, sim_part, WorldInv
    <2> QED BY <2>1, SimKeepsWorld, IoKeepsWorld, CrashKeepsWorld, BootKeepsWorld DEF Next
  <1> QED BY <1>1, <1>2, <1>3, OrderInvariant, PTL DEF Spec

-----------------------------------------------------------------------------
(* The past: a snapshot is of what the world once was, to the last rule and  *)
(* the last reaping.                                                         *)

\* World s is what world w was when its history was as long.
Was(s, w) ==
  /\ Len(s.history) <= Len(w.history) /\ \A i \in 1..Len(s.history) : w.history[i] = s.history[i]
  /\ s.reaped = {p \in w.reaped : p[1] < Len(s.history)}

PastInv ==
  /\ Was(Loaded, world)
  /\ \A i \in DOMAIN Pending : Was(Pending[i].saved, world)
  /\ \A i \in DOMAIN Queue : IsSnapshot(Queue[i]) => Was(Queue[i].saved, world)
  /\ \A p \in world.reaped : p[1] <= Len(world.history)

\* An edit, a tick or a reaping more: what was, was.
LEMMA WasOn ==
  ASSUME NEW s \in World, NEW w \in World, NEW v \in World, Was(s, w),
         Len(w.history) <= Len(v.history), \A i \in 1..Len(w.history) : v.history[i] = w.history[i],
         w.reaped \subseteq v.reaped, \A p \in v.reaped : p \notin w.reaped => Len(w.history) <= p[1]
  PROVE  Was(s, v)
  <1>1. Len(s.history) \in Nat /\ Len(w.history) \in Nat /\ Len(v.history) \in Nat
    BY DEF World
  <1>2. Len(s.history) <= Len(v.history) /\ \A i \in 1..Len(s.history) : v.history[i] = s.history[i]
    <2>1. \A i \in 1..Len(s.history) : i \in 1..Len(w.history)
      BY <1>1 DEF Was
    <2> QED BY <1>1, <2>1 DEF Was
  <1>3. \A p \in v.reaped : p[1] \in Nat
    BY DEF World
  <1>4. ASSUME NEW p \in v.reaped, p[1] < Len(s.history)
        PROVE  p \in w.reaped
    <2>1. Len(s.history) <= Len(w.history)
      BY DEF Was
    <2>2. ~(Len(w.history) <= p[1])
      BY <1>1, <1>3, <1>4, <2>1
    <2> QED BY <1>4, <2>2
  <1>5. {p \in v.reaped : p[1] < Len(s.history)} = {p \in w.reaped : p[1] < Len(s.history)}
    BY <1>4
  <1> QED BY <1>2, <1>5 DEF Was

\* The worlds of a queue, and of the snapshot that waits, are worlds.
LEMMA SavedWorlds ==
  ASSUME TypeInv
  PROVE  /\ Loaded \in World /\ world \in World
         /\ \A i \in DOMAIN Pending : Pending[i].saved \in World /\ io.at = "rename" /\ Pending[i].saved = io.saved
         /\ \A i \in DOMAIN Queue : IsSnapshot(Queue[i]) => Queue[i].saved \in World
  <1>1. \A i \in DOMAIN Queue : IsSnapshot(Queue[i]) => Queue[i].saved \in World
    BY Ticks DEF IoCmd, IsSnapshot
  <1>2. ASSUME NEW i \in DOMAIN Pending
        PROVE  Pending[i].saved \in World /\ io.at = "rename" /\ Pending[i].saved = io.saved
    <2>1. CASE io.at # "rename"
      <3>1. Pending = << >>
        BY <2>1 DEF Pending
      <3> QED BY <1>2, <3>1
    <2>2. CASE io.at = "rename"
      <3>1. PICK m : m = SnapshotOf(io.saved) /\ m.saved = io.saved
        <4>1. SnapshotOf(io.saved).saved = io.saved
          BY DEF SnapshotOf
        <4> QED BY <4>1
      <3>2. Pending = << m >>
        BY <2>2, <3>1 DEF Pending
      <3>3. i = 1 /\ << m >>[1] = m
        BY <1>2, <3>2
      <3>4. Pending[i].saved = io.saved
        BY <3>1, <3>2, <3>3
      <3> QED BY <2>2, <3>4 DEF TypeInv, TypeOK
    <2> QED BY <2>1, <2>2
  <1> QED BY <1>1, <1>2, Ticks DEF TypeInv, TypeOK

\* What a step of the sim does to the world is no change of its past.
LEMMA SimKeepsPast ==
  ASSUME TypeInv, TypeInv', OrderInv, PastInv, SimStep
  PROVE  PastInv'
  <1>1. io' = io /\ Loaded' = Loaded /\ Pending' = Pending
    BY DEF SimStep, SimEdit, SimTick, SimSend, SimReap, disk, Loaded, Pending
  <1>2. PICK w \in World, v \in World : w = world /\ v = world'
    BY DEF TypeInv, TypeOK
  <1>3. w.history \in Seq(Entry) /\ Len(w.history) \in Nat /\ w.reaped \in SUBSET (Nat \X ReapId)
    BY DEF World, Entry
  <1>4. Queue \in Seq(IoCmd) /\ io_queue \in Seq(IoCmd)
    BY QueueType DEF TypeInv, TypeOK
  <1>5. ASSUME \A s \in World : Was(s, w) => Was(s, v),
               \A p \in v.reaped : p[1] <= Len(v.history),
               \/ Queue' = Queue
               \/ \E m \in IoCmd : Queue' = Append(Queue, m) /\ (IsSnapshot(m) => Was(m.saved, v))
        PROVE  PastInv'
    <2>1. \A i \in DOMAIN Queue : IsSnapshot(Queue[i]) => Was(Queue[i].saved, v)
      BY <1>2, <1>5, SavedWorlds DEF PastInv
    <2>2. \A i \in DOMAIN Queue' : IsSnapshot(Queue'[i]) => Was(Queue'[i].saved, v)
      <3>1. CASE Queue' = Queue
        BY <2>1, <3>1
      <3>2. ASSUME NEW m \in IoCmd, Queue' = Append(Queue, m), IsSnapshot(m) => Was(m.saved, v)
            PROVE  \A i \in DOMAIN Queue' : IsSnapshot(Queue'[i]) => Was(Queue'[i].saved, v)
        <4>1. \A i \in DOMAIN Queue' : (i \in DOMAIN Queue /\ Queue'[i] = Queue[i]) \/ Queue'[i] = m
          BY <1>4, <3>2, Appended
        <4> QED BY <2>1, <3>2, <4>1
      <3> QED BY <1>5, <3>1, <3>2
    <2>3. Was(Loaded, v) /\ \A i \in DOMAIN Pending : Was(Pending[i].saved, v)
      BY <1>2, <1>5, SavedWorlds DEF PastInv
    <2> QED BY <1>1, <1>2, <1>5, <2>2, <2>3 DEF PastInv
  <1>6. ASSUME NEW e \in Entry, v.history = Append(w.history, e), v.reaped = w.reaped
        PROVE  /\ \A s \in World : Was(s, w) => Was(s, v)
               /\ \A p \in v.reaped : p[1] < Len(v.history) /\ p[1] <= Len(v.history)
    <2>1. Len(v.history) = Len(w.history) + 1 /\ \A i \in 1..Len(w.history) : v.history[i] = w.history[i]
      BY <1>3, <1>6
    <2>2. Len(w.history) <= Len(v.history)
      BY <1>3, <2>1
    <2>3. ASSUME NEW p \in v.reaped
          PROVE  p[1] < Len(v.history) /\ p[1] <= Len(v.history)
      <3>1. p[1] <= Len(w.history) /\ p[1] \in Nat
        BY <1>2, <1>3, <1>6 DEF PastInv
      <3> QED BY <1>3, <2>1, <3>1
    <2> QED BY <1>6, <2>1, <2>2, <2>3, WasOn
  <1>7. ASSUME NEW e \in EditId, SimEdit(e)
        PROVE  PastInv'
    <2>1. v.history = Append(w.history, e) /\ v.reaped = w.reaped /\ e \in Entry
      BY <1>2, <1>7 DEF SimEdit, World, Entry
    <2>2. PICK m : m = Record(world.tick, e)
      OBVIOUS
    <2>3. m \in IoCmd /\ ~IsSnapshot(m)
      <3>1. world.tick \in 0..MaxTick
        BY <1>2 DEF World
      <3> QED BY <2>2, <3>1 DEF Record, IoCmd, IsSnapshot
    <2>4. Queue' = Append(Queue, m)
      <3>1. Queue = io_queue
        BY <1>7, QueueSteps DEF SimEdit, SimReady
      <3>2. Queue' = io_queue \o << m >>
        BY <1>7, <2>2 DEF Queue, SimEdit
      <3> QED BY <1>4, <2>3, <3>1, <3>2, AppendIsConcat
    <2> QED BY <1>5, <1>6, <2>1, <2>3, <2>4
  <1>8. CASE SimTick
    <2>1. v.history = Append(w.history, Rule) /\ v.reaped = w.reaped /\ Rule \in Entry
      BY <1>2, <1>8 DEF SimTick, World, Entry, Rules
    <2>2. Queue = io_queue
      BY <1>8, QueueSteps DEF SimTick, SimReady
    <2>3. CASE outbox' = << >>
      <3>1. Queue' = Queue
        BY <1>4, <1>8, <2>2, <2>3, ConcatEmptySeq DEF Queue, SimTick
      <3> QED BY <1>5, <1>6, <2>1, <3>1
    <2>4. CASE outbox' = << SnapshotOf(world') >>
      <3>1. PICK m : m = SnapshotOf(v)
        OBVIOUS
      <3>2. m \in IoCmd /\ m.saved = v
        BY <3>1 DEF SnapshotOf, IoCmd
      <3>3. Queue' = io_queue \o << m >>
        BY <1>2, <1>8, <2>4, <3>1 DEF Queue, SimTick
      <3>4. Queue' = Append(Queue, m)
        BY <1>4, <2>2, <3>2, <3>3, AppendIsConcat
      <3>5. Was(v, v)
        <4>1. Len(v.history) \in Nat
          BY DEF World
        <4>2. {p \in v.reaped : p[1] < Len(v.history)} = v.reaped
          BY <1>6, <2>1
        <4> QED BY <4>1, <4>2 DEF Was
      <3> QED BY <1>5, <1>6, <2>1, <3>2, <3>4, <3>5
    <2> QED BY <1>8, <2>3, <2>4 DEF SimTick, SimReady
  <1>9. CASE SimSend
    <2>1. Queue' = Queue /\ v = w
      BY <1>2, <1>9, QueueSteps DEF SimSend
    <2> QED BY <1>2, <1>5, <2>1 DEF PastInv
  <1>10. ASSUME NEW r \in ReapId, SimReap(r)
         PROVE  PastInv'
    <2>1. v.history = w.history /\ v.reaped = w.reaped \cup {<<Len(w.history), r>>} /\ Queue' = Queue
      BY <1>2, <1>10 DEF SimReap, World, Queue
    <2>2. \A p \in v.reaped : p \notin w.reaped => p[1] = Len(w.history)
      BY <2>1
    <2>3. Len(w.history) <= Len(v.history) /\ \A i \in 1..Len(w.history) : v.history[i] = w.history[i]
      BY <1>3, <2>1
    <2>4. \A p \in v.reaped : p \notin w.reaped => Len(w.history) <= p[1]
      BY <1>3, <2>2
    <2>5. \A s \in World : Was(s, w) => Was(s, v)
      BY <2>1, <2>3, <2>4, WasOn
    <2>6. \A p \in v.reaped : p[1] <= Len(v.history)
      <3>1. \A p \in w.reaped : p[1] <= Len(w.history)
        BY <1>2 DEF PastInv
      <3> QED BY <1>3, <2>1, <2>2, <3>1
    <2> QED BY <1>5, <2>1, <2>5, <2>6
  <1> QED BY <1>7, <1>8, <1>9, <1>10 DEF SimStep

\* The io task moves snapshots on; what they are of stays the past.
LEMMA IoKeepsPast ==
  ASSUME TypeInv, PastInv, IoStep
  PROVE  PastInv'
  <1>1. world' = world
    BY DEF IoStep, IoOpen, IoWriteHeader, IoTake, IoFsync, IoRename, IoTruncate, sim_part
  <1>2. ASSUME io.at # "rename", io'.at # "rename", Loaded' = Loaded, Queue' = Queue
        PROVE  PastInv'
    <2>1. Pending' = << >> /\ DOMAIN << >> = {}
      BY <1>2 DEF Pending
    <2> QED BY <1>1, <1>2, <2>1 DEF PastInv
  <1>3. CASE IoOpen
    BY <1>2, <1>3 DEF IoOpen, Io, Queue, Loaded, sim_part
  <1>4. CASE IoWriteHeader
    BY <1>2, <1>4 DEF IoWriteHeader, Io, Queue, Loaded, sim_part
  <1>5. CASE IoFsync
    BY <1>2, <1>5 DEF IoFsync, Io, Queue, Loaded, sim_part, disk
  <1>6. CASE IoTruncate
    BY <1>2, <1>6 DEF IoTruncate, Io, Queue, Loaded, sim_part
  <1>7. CASE IoTake
    <2>1. PICK q \in Seq(IoCmd) : q = Queue
      BY QueueType
    <2>2. Loaded' = Loaded /\ io_queue # << >>
      BY <1>7 DEF IoTake, Loaded
    <2>3. q # << >> /\ Head(q) = Head(io_queue) /\ Queue' = Tail(q)
      <3>1. Queue' = Tail(io_queue) \o outbox
        BY <1>7 DEF IoTake, Queue, sim_part
      <3> QED BY <2>1, <2>2, <3>1, QueueSteps
    <2>4. PICK m \in IoCmd : m = Head(q) /\ m = q[1] /\ 1 \in DOMAIN q
      BY <2>3, OrderedTail
    <2>5. \A i \in DOMAIN Tail(q) : i + 1 \in DOMAIN q /\ Tail(q)[i] = q[i + 1]
      BY <2>3, OrderedTail
    <2>6. /\ \A i \in DOMAIN Tail(q) : IsSnapshot(Tail(q)[i]) => Was(Tail(q)[i].saved, world)
          /\ IsSnapshot(m) => Was(m.saved, world)
      BY <2>1, <2>4, <2>5 DEF PastInv
    <2>7. \A i \in DOMAIN Pending' : Was(Pending'[i].saved, world)
      <3>1. CASE m.op = "AppendEdits"
        <4>1. io' = [at |-> "fsync"]
          BY <1>7, <2>3, <2>4, <3>1 DEF IoTake
        <4>2. io'.at = "fsync"
          BY <4>1
        <4>3. Pending' = << >> /\ DOMAIN << >> = {}
          BY <4>2 DEF Pending
        <4> QED BY <4>3
      <3>2. CASE m.op = "Snapshot"
        <4>1. io' = [at |-> "rename", saved |-> m.saved]
          BY <1>7, <2>3, <2>4, <3>2 DEF IoTake
        <4>2. io'.at = "rename" /\ io'.saved = m.saved
          BY <4>1
        <4>3. PICK n : n = SnapshotOf(m.saved) /\ n.saved = m.saved
          <5>1. SnapshotOf(m.saved).saved = m.saved
            BY DEF SnapshotOf
          <5> QED BY <5>1
        <4>4. Pending' = << n >>
          BY <4>2, <4>3 DEF Pending
        <4>5. \A i \in DOMAIN << n >> : << n >>[i] = n
          OBVIOUS
        <4> QED BY <2>6, <3>2, <4>3, <4>4, <4>5 DEF IsSnapshot
      <3> QED BY <3>1, <3>2 DEF IoCmd
    <2> QED BY <1>1, <2>2, <2>3, <2>6, <2>7 DEF PastInv
  <1>8. CASE IoRename
    <2>1. io.at = "rename" /\ io' = [at |-> "truncate"] /\ snapshot' = io.saved /\ Queue' = Queue
      BY <1>8 DEF IoRename, Io, Queue, sim_part
    <2>2. io.saved \in World
      BY <2>1 DEF TypeInv, TypeOK
    <2>3. Loaded' = io.saved
      BY <2>1, <2>2, NoFileAssumption DEF Loaded
    <2>4. Was(io.saved, world)
      <3>1. PICK m : m = SnapshotOf(io.saved) /\ m.saved = io.saved
        <4>1. SnapshotOf(io.saved).saved = io.saved
          BY DEF SnapshotOf
        <4> QED BY <4>1
      <3>2. Pending = << m >> /\ 1 \in DOMAIN << m >> /\ << m >>[1] = m
        BY <2>1, <3>1 DEF Pending
      <3> QED BY <3>1, <3>2 DEF PastInv
    <2>5. io'.at = "truncate"
      BY <2>1
    <2>6. Pending' = << >> /\ DOMAIN << >> = {}
      BY <2>5 DEF Pending
    <2> QED BY <1>1, <2>1, <2>3, <2>4, <2>6 DEF PastInv
  <1> QED BY <1>3, <1>4, <1>5, <1>6, <1>7, <1>8 DEF IoStep

\* Replay takes nothing from what a world was, and reaps nothing.
LEMMA ReplayWas ==
  ASSUME NEW w \in World, NEW r \in Logged
  PROVE  LET v == Replay(w, r)
         IN /\ Len(w.history) <= Len(v.history) /\ \A i \in 1..Len(w.history) : v.history[i] = w.history[i]
            /\ v.reaped = w.reaped
  <1> DEFINE steps == [i \in 1..(r.tick - w.tick) |-> ReplayRule]
  <1>1. r.tick \in Int /\ w.tick \in Int /\ w.history \in Seq(Entry) /\ r.edit \in Entry
    BY StorageAssumption DEF World, Logged, Entry
  <1>2. CASE r.tick < w.tick
    BY <1>1, <1>2 DEF Replay
  <1>3. CASE ~(r.tick < w.tick)
    <2>1. PICK n \in Nat : n = r.tick - w.tick
      BY <1>1, <1>3
    <2>2. PICK u \in Seq(Entry) : u = steps
      <3>1. steps = [i \in 1..n |-> ReplayRule] /\ ReplayRule \in Entry
        BY <2>1 DEF ReplayRule, Rules, Entry
      <3> HIDE DEF steps
      <3>2. steps \in Seq(Entry)
        BY <3>1
      <3> QED BY <3>2
    <2>3. PICK h \in Seq(Entry), l \in Seq(Entry) : h = w.history /\ l = << r.edit >>
      <3>1. << r.edit >> \in Seq(Entry)
        BY <1>1
      <3> QED BY <1>1, <3>1
    <2>4. PICK v : v = Replay(w, r) /\ v.history = (h \o u) \o l /\ v.reaped = w.reaped
      <3>1. PICK v : v = Replay(w, r)
        OBVIOUS
      <3>2. v = [w EXCEPT !.tick = r.tick, !.history = (h \o u) \o l]
        BY <1>3, <2>2, <2>3, <3>1 DEF Replay
      <3> HIDE DEF steps
      <3>3. v.history = (h \o u) \o l /\ v.reaped = w.reaped
        BY <3>2 DEF World
      <3> QED BY <3>1, <3>3
    <2>5. /\ h \o u \in Seq(Entry) /\ Len(h \o u) = Len(h) + Len(u)
          /\ \A i \in 1..Len(h) : (h \o u)[i] = h[i]
      BY ConcatProperties
    <2>6. PICK k \in Seq(Entry) : k = (h \o u) \o l
      BY <2>5, ConcatProperties
    <2>7. Len(k) = Len(h) + Len(u) + Len(l) /\ \A i \in 1..Len(h) : k[i] = h[i]
      <3>1. PICK g \in Seq(Entry) : g = h \o u
        BY <2>5
      <3>2. Len(k) = Len(g) + Len(l) /\ \A i \in 1..Len(g) : k[i] = g[i]
        BY <2>6, <3>1, ConcatProperties
      <3>3. \A i \in 1..Len(h) : i \in 1..Len(g)
        BY <2>5, <3>1
      <3> QED BY <2>5, <3>1, <3>2, <3>3
    <2>8. Len(h) <= Len(k)
      BY <2>7
    <2> QED BY <2>3, <2>4, <2>6, <2>7, <2>8
  <1> QED BY <1>2, <1>3

\* A boot's world has what was loaded as its past.
LEMMA RecoveredWas ==
  ASSUME TypeInv, \A i \in DOMAIN wal : IsRecord(wal[i])
  PROVE  /\ Recovered \in World /\ Recovered.reaped = Loaded.reaped
         /\ Len(Loaded.history) <= Len(Recovered.history)
         /\ \A i \in 1..Len(Loaded.history) : Recovered.history[i] = Loaded.history[i]
  <1>1. Recovered \in World /\ Loaded \in World
    BY RecoveredType, Ticks DEF TypeInv, TypeOK
  <1>2. Damaged = {} /\ Intact = wal /\ wal \in Seq(Logged)
    BY IntactType DEF Damaged, IsRecord, TypeInv, TypeOK
  <1>3. Recovered = Replayed(Loaded, wal)
    BY <1>2 DEF Recovered, Replayed
  <1>4. PICK n \in Nat : n = Len(wal) /\ DOMAIN wal = 1..n /\ \A i \in 1..n : wal[i] \in Logged
    BY <1>2
  <1>5. PICK f : /\ f[0] = Loaded
                 /\ \A k \in 1..n : f[k] = Replay(f[k - 1], wal[k])
                 /\ Replayed(Loaded, wal) = f[n]
    BY <1>4, FoldIs
  <1> DEFINE Good(k) ==
        /\ f[k] \in World /\ f[k].reaped = Loaded.reaped
        /\ Len(Loaded.history) <= Len(f[k].history)
        /\ \A i \in 1..Len(Loaded.history) : f[k].history[i] = Loaded.history[i]
  <1>6. Good(0)
    <2>1. Len(Loaded.history) \in Nat
      BY <1>1 DEF World
    <2> QED BY <1>1, <1>5, <2>1
  <1>7. ASSUME NEW k \in Nat, k + 1 <= n, Good(k)
        PROVE  Good(k + 1)
    <2>1. k + 1 \in 1..n /\ (k + 1) - 1 = k
      BY <1>7
    <2>2. PICK w \in World, r \in Logged : w = f[k] /\ r = wal[k + 1]
      BY <1>4, <1>7, <2>1
    <2>0. PICK v : v = f[k + 1]
      OBVIOUS
    <2>3. v = Replay(w, r)
      BY <1>5, <2>0, <2>1, <2>2
    <2>4. /\ v \in World /\ v.reaped = w.reaped
          /\ Len(w.history) <= Len(v.history) /\ \A i \in 1..Len(w.history) : v.history[i] = w.history[i]
      BY <2>3, ReplayType, ReplayWas
    <2>5. Len(w.history) \in Nat /\ Len(v.history) \in Nat /\ Len(Loaded.history) \in Nat
      BY <1>1, <2>4 DEF World
    <2>6. Len(Loaded.history) <= Len(w.history) /\ w.reaped = Loaded.reaped
          /\ \A i \in 1..Len(Loaded.history) : w.history[i] = Loaded.history[i]
      BY <1>7, <2>2
    <2>7. \A i \in 1..Len(Loaded.history) : i \in 1..Len(w.history)
      BY <2>5, <2>6
    <2> QED BY <2>0, <2>4, <2>5, <2>6, <2>7
  <1> DEFINE N == {k \in Nat : k <= n => Good(k)}
  <1>8. Nat \subseteq N
    <2> HIDE DEF Good
    <2>1. 0 \in N
      BY <1>6
    <2>2. ASSUME NEW k \in Nat, k \in N
          PROVE  k + 1 \in N
      BY <1>7, <2>2
    <2> HIDE DEF N
    <2> QED BY <2>1, <2>2, SetInduction
  <1>9. Good(n)
    <2> HIDE DEF Good
    <2> QED BY <1>8
  <1> QED BY <1>3, <1>5, <1>9

LEMMA CrashKeepsPast ==
  ASSUME PastInv, Crash
  PROVE  PastInv'
  <1>1. world' = world /\ Loaded' = Loaded
    BY DEF Crash, Loaded
  <1>2. Queue' = << >> /\ Pending' = << >> /\ DOMAIN << >> = {}
    <2>1. << >> \o << >> = << >>
      OBVIOUS
    <2> QED BY <2>1 DEF Crash, Queue, Pending
  <1> QED BY <1>1, <1>2 DEF PastInv

LEMMA BootKeepsPast ==
  ASSUME TypeInv, OrderInv, PastInv, Boot
  PROVE  PastInv'
  <1>1. Loaded' = Loaded /\ world' = Recovered /\ io'.at = "opening" /\ Queue' = Queue /\ ~running
    BY DEF Boot, disk, Loaded, Queue
  <1>2. Queue' = << >> /\ Pending' = << >> /\ DOMAIN << >> = {}
    BY <1>1 DEF OrderInv, Pending
  <1>3. PICK w \in World, l \in World : w = Recovered /\ l = Loaded
    BY RecoveredWas, Ticks DEF OrderInv
  <1>4. /\ w.reaped = l.reaped /\ Len(l.history) <= Len(w.history)
        /\ \A i \in 1..Len(l.history) : w.history[i] = l.history[i]
    BY <1>3, RecoveredWas DEF OrderInv
  <1>5. \A p \in l.reaped : p[1] < Len(l.history) /\ p[1] \in Nat
    <2>1. l.reaped \in SUBSET (Nat \X ReapId)
      BY DEF World
    <2> QED BY <1>3, <2>1 DEF PastInv, Was
  <1>6. Len(l.history) \in Nat /\ Len(w.history) \in Nat
    BY DEF World
  <1>7. Was(l, w)
    <2>1. {p \in w.reaped : p[1] < Len(l.history)} = l.reaped
      BY <1>4, <1>5
    <2> QED BY <1>4, <2>1 DEF Was
  <1>8. \A p \in w.reaped : p[1] <= Len(w.history)
    BY <1>4, <1>5, <1>6
  <1> QED BY <1>1, <1>2, <1>3, <1>7, <1>8 DEF PastInv

LEMMA InitPast == Init => PastInv
  <1> SUFFICES ASSUME Init
               PROVE  PastInv
    OBVIOUS
  <1>1. Loaded = Fresh /\ world = Fresh /\ Fresh.history = << >> /\ Fresh.reaped = {} /\ Len(<< >>) = 0
    BY DEF Init, Loaded, Fresh
  <1>2. Queue = << >> /\ Pending = << >> /\ DOMAIN << >> = {}
    <2>1. << >> \o << >> = << >>
      OBVIOUS
    <2> QED BY <2>1 DEF Init, Queue, Pending
  <1>3. Was(Fresh, Fresh)
    BY <1>1 DEF Was
  <1> QED BY <1>1, <1>2, <1>3 DEF PastInv

LEMMA PastInvariant ==
  ASSUME ~PowerLoss
  PROVE  Spec => []PastInv
  <1>1. TypeInv /\ TypeInv' /\ OrderInv /\ PastInv /\ [Next]_vars => PastInv'
    <2> SUFFICES ASSUME TypeInv, TypeInv', OrderInv, PastInv, [Next]_vars
                 PROVE  PastInv'
      OBVIOUS
    <2>1. CASE UNCHANGED vars
      <3>1. Queue' = Queue /\ Pending' = Pending /\ Loaded' = Loaded /\ world' = world
        BY <2>1 DEF vars, sim_part, disk, Queue, Pending, Loaded
      <3> QED BY <3>1 DEF PastInv
    <2> QED BY <2>1, SimKeepsPast, IoKeepsPast, CrashKeepsPast, BootKeepsPast DEF Next
  <1> QED BY <1>1, InitPast, OrderInvariant, PTL DEF Spec

-----------------------------------------------------------------------------
(* What follows for restarts. *)

\* A restart goes back in time: as long as the disk keeps what was written, what
\* a boot makes of snapshot and log has the edits and ticks the world had up to
\* some moment, and all that the world was up to the snapshot; of what was reaped
\* since, nothing.
THEOREM RestartGoesBack == ASSUME ~PowerLoss PROVE Spec => RecoversHistory
  <1> DEFINE Goes == /\ IsPrefix(Script(world'.history), Script(world.history))
                     /\ IsPrefix(Loaded.history, world.history)
                     /\ world'.reaped = {p \in world.reaped : p[1] < Len(Loaded.history)}
  <1>1. TypeInv /\ OrderInv /\ HistInv /\ WorldInv /\ PastInv => (Boot => Goes)
    <2> SUFFICES ASSUME TypeInv, OrderInv, HistInv, WorldInv, PastInv, Boot
                 PROVE  Goes
      OBVIOUS
    <2>1. world' = Recovered
      BY DEF Boot
    <2>2. IsPrefix(Script(world'.history), Script(world.history))
      <3>1. Begins(Kept.history, Now.history)
        BY SafeBegins
      <3>2. Kept.history \in Seq(Item) /\ Now.history \in Seq(Item)
        BY NowTelling DEF HistInv, Telling
      <3>3. Kept.history = Script(world'.history) /\ Now.history = Script(world.history)
        BY <2>1 DEF Kept, Now, Told
      <3> QED BY <3>1, <3>2, <3>3, BeginsProperties
    <2>3. Was(Loaded, world)
      BY DEF PastInv
    <2>4. IsPrefix(Loaded.history, world.history)
      <3>1. PICK h \in Seq(Entry), k \in Seq(Entry) : h = Loaded.history /\ k = world.history
        BY Ticks DEF World, Entry, TypeInv, TypeOK
      <3>2. Len(h) <= Len(k) /\ \A i \in 1..Len(h) : k[i] = h[i]
        BY <2>3, <3>1 DEF Was
      <3>3. SubSeq(h, 1, Len(h)) = SubSeq(k, 1, Len(h))
        BY <3>2
      <3> QED BY <3>1, <3>2, <3>3 DEF IsPrefix
    <2>5. world'.reaped = {p \in world.reaped : p[1] < Len(Loaded.history)}
      BY <2>1, <2>3, RecoveredWas DEF OrderInv, Was
    <2> QED BY <2>2, <2>4, <2>5
  <1>2. TypeInv /\ OrderInv /\ HistInv /\ WorldInv /\ PastInv => [Boot => Goes]_vars
    BY <1>1
  <1> QED BY <1>2, HistoryInvariant, PastInvariant, PTL DEF RecoversHistory

\* Every step of the storage is one of a durable log, or leaves it alone.
LEMMA LogSteps ==
  ASSUME ~PowerLoss, TypeInv, OrderInv, HistInv, WorldInv,
         TypeInv', OrderInv', HistInv', WorldInv', [Next]_vars
  PROVE  [Log!Next]_<<Script(world.history), Len(Recovered.history)>>
  <1>1. PICK h \in Seq(Item), k \in Seq(Item), r \in Seq(Item), t \in Seq(Item) :
          /\ h = Now.history /\ k = Now'.history
          /\ r = Kept.history /\ t = Kept'.history
    <2>1. (TypeInv => Now \in Telling)' /\ (TypeInv => Now \in Telling)
      BY NowTelling, PTL
    <2>2. Now \in Telling /\ Now' \in Telling /\ Kept \in Telling /\ Kept' \in Telling
      BY <2>1 DEF HistInv, Telling, Item
    <2> QED BY <2>2 DEF Telling
  <1>2. Script(world.history) = h /\ Script(world'.history) = k
    BY <1>1 DEF Now, Told, Script
  <1>3. Len(Recovered.history) = Len(r) /\ Len(Recovered'.history) = Len(t)
    <2>1. (TypeInv => Recovered \in World)' /\ (TypeInv => Recovered \in World)
      BY RecoveredType, PTL DEF TypeInv, TypeOK
    <2>2. Recovered.history \in Seq(Entry) /\ Recovered'.history \in Seq(Entry)
      BY <2>1 DEF World, Entry
    <2>3. r = Script(Recovered.history) /\ t = Script(Recovered'.history)
      BY <1>1 DEF Kept, Told, Script
    <2> QED BY <2>2, <2>3, ScriptType
  <1>4. Begins(r, h)
    BY <1>1, SafeBegins
  <1>5. Begins(t, k)
    <2>1. (TypeInv /\ HistInv /\ WorldInv => Begins(Kept.history, Now.history))'
      BY SafeBegins, PTL
    <2> QED BY <1>1, <2>1
  <1>6. Len(r) <= Len(h) /\ Len(t) <= Len(k) /\ r = SubSeq(h, 1, Len(r))
    BY <1>4, <1>5, BeginsProperties
  <1>7. Len(r) \in Nat /\ Len(h) \in Nat /\ Len(t) \in Nat /\ Len(k) \in Nat
    OBVIOUS
  <1>8. ASSUME k = h, t = r
        PROVE  UNCHANGED <<Script(world.history), Len(Recovered.history)>>
    <2>1. Script(world.history)' = Script(world'.history)
      BY DEF Script
    <2> QED BY <1>2, <1>3, <1>8, <2>1
  <1>9. ASSUME NEW item \in EditId \cup {"tick"}, k = Append(h, item), t = r
        PROVE  Log!Happen
    <2>1. Script(world.history)' = Script(world'.history)
      BY DEF Script
    <2> QED BY <1>2, <1>3, <1>9, <2>1 DEF Log!Happen
  <1>10. world' = world => k = h
    BY <1>1 DEF Now, Told, Script
  <1>11. CASE UNCHANGED vars
    <2>1. wal' = wal /\ Loaded' = Loaded /\ world' = world
      BY <1>11 DEF vars, sim_part, disk, Loaded
    <2> QED BY <1>1, <1>8, <1>10, <2>1, SameLog
  <1>12. CASE SimStep
    <2>1. wal' = wal /\ Loaded' = Loaded
      BY <1>12 DEF SimStep, SimEdit, SimTick, SimSend, SimReap, disk, Loaded
    <2>2. t = r
      BY <1>1, <2>1, SameLog
    <2>3. world \in World /\ world.history \in Seq(Entry)
      BY DEF TypeInv, TypeOK, World, Entry
    <2>4. ASSUME NEW e \in EditId, SimEdit(e)
          PROVE  k = Append(h, e)
      <3>1. world'.history = Append(world.history, e) /\ e \in Entry
        BY <2>3, <2>4 DEF SimEdit, World, Entry
      <3> QED BY <1>2, <2>3, <3>1, ScriptAppend
    <2>5. ASSUME SimTick
          PROVE  k = Append(h, "tick")
      <3>1. world'.history = Append(world.history, Rule) /\ Rule \in Entry /\ Rule \notin EditId
        BY <2>3, <2>5, StorageAssumption DEF SimTick, World, Entry, Rules
      <3> QED BY <1>2, <2>3, <3>1, ScriptAppend
    <2>6. SimSend => k = h
      BY <1>10 DEF SimSend
    <2>7. ASSUME NEW c \in ReapId, SimReap(c)
          PROVE  k = h
      <3>1. world'.history = world.history
        BY <2>3, <2>7 DEF SimReap, World
      <3> QED BY <1>2, <3>1
    <2> QED BY <1>8, <1>9, <1>12, <2>2, <2>4, <2>5, <2>6, <2>7 DEF SimStep, Log!Next
  <1>13. CASE IoStep
    <2>1. k = h
      BY <1>10, <1>13 DEF IoStep, IoOpen, IoWriteHeader, IoTake, IoFsync, IoRename, IoTruncate, sim_part
    <2>2. Begins(r, t)
      BY <1>1, <1>13, IoKeepsWorld
    <2>3. Len(r) <= Len(t)
      BY <2>2, BeginsProperties
    <2>4. Len(t) \in Len(r)..Len(h)
      BY <1>6, <1>7, <2>1, <2>3
    <2>5. Script(world.history)' = Script(world'.history)
      BY DEF Script
    <2> QED BY <1>2, <1>3, <2>1, <2>4, <2>5 DEF Log!MakeSafe, Log!Next
  <1>14. CASE Crash
    <2>1. wal' = wal /\ Loaded' = Loaded /\ world' = world
      BY <1>14 DEF Crash, Remains, Loaded
    <2> QED BY <1>1, <1>8, <1>10, <2>1, SameLog
  <1>15. CASE Boot
    <2>1. wal' = wal /\ Loaded' = Loaded /\ world' = Recovered
      BY <1>15 DEF Boot, disk, Loaded
    <2>2. t = r /\ k = r
      <3>1. Now' = Kept
        BY <2>1 DEF Now, Kept, Told, Script
      <3> QED BY <1>1, <2>1, <3>1, SameLog
    <2>3. Len(r) \in Len(r)..Len(h) /\ Len(t) \in Len(r)..Len(k)
      BY <1>6, <1>7, <2>2
    <2>4. k = SubSeq(h, 1, Len(r))
      BY <1>6, <2>2
    <2>5. Script(world.history)' = Script(world'.history)
      BY DEF Script
    <2> QED BY <1>2, <1>3, <2>3, <2>4, <2>5 DEF Log!Restart, Log!Next
  <1> QED BY <1>11, <1>12, <1>13, <1>14, <1>15 DEF Next

\* As long as the disk keeps what was written, snapshot, log and replay implement a
\* durable log of edits and ticks: what happened only grows while the server runs, a restart takes back an end of it at
\* most, and what the files hold of it is never taken back.
THEOREM ImplementsDurableLog == ASSUME ~PowerLoss PROVE Spec => IsDurableLog
  <1>1. Init /\ HistInv => Log!Init
    <2> SUFFICES ASSUME Init, HistInv
                 PROVE  Log!Init
      OBVIOUS
    <2>1. wal = << >> /\ Loaded = Fresh /\ world = Fresh
      BY DEF Init, Loaded
    <2>2. Kept = Told(Fresh)
      BY <2>1, LeadsNone DEF HistInv
    <2>3. Fresh.history = << >> /\ << >> \in Seq(Entry) /\ Len(<< >>) = 0 /\ DOMAIN << >> = {}
      BY DEF Fresh
    <2>4. Script(<< >>) \in Seq(Item) /\ Len(Script(<< >>)) = 0
      BY <2>3, ScriptType
    <2>5. Script(<< >>) = << >>
      BY <2>4
    <2>6. Len(Recovered.history) = 0
      <3>1. Recovered \in World
        BY InitTypes, RecoveredType DEF TypeInv, TypeOK
      <3>2. Recovered.history \in Seq(Entry)
        BY <3>1 DEF World, Entry
      <3>3. Script(Recovered.history) = << >>
        BY <2>2, <2>3, <2>5 DEF Kept, Told
      <3> QED BY <2>3, <3>2, <3>3, ScriptType
    <2> QED BY <2>1, <2>3, <2>5, <2>6 DEF Log!Init
  <1> DEFINE Inv == TypeInv /\ OrderInv /\ HistInv /\ WorldInv
  <1>2. Inv /\ Inv' /\ [Next]_vars => [Log!Next]_<<Script(world.history), Len(Recovered.history)>>
    BY LogSteps
  <1>3. Inv => HistInv
    OBVIOUS
  <1>4. Spec => []Inv
    BY HistoryInvariant
  <1> HIDE DEF Inv
  <1> QED BY <1>1, <1>2, <1>3, <1>4, PTL DEF Spec, IsDurableLog, Log!Spec

=============================================================================
