---------------------------- MODULE ClaimsProofs ----------------------------
(***************************************************************************)
(* Invariants of Claims, proved for all users, connections, sites, static  *)
(* regions and sizes of chunks and claims.                                 *)
(***************************************************************************)
EXTENDS Claims, SequenceTheorems, TLAPS

-----------------------------------------------------------------------------
(* Registries *)

LEMMA RegistryFacts ==
  ASSUME NEW f \in Registry
  PROVE  f \in [DOMAIN f -> Site] /\ DOMAIN f \subseteq User
BY DEF Registry

LEMMA IsRegistry ==
  ASSUME NEW S \in SUBSET User, NEW f \in [S -> Site]
  PROVE  f \in Registry
BY DEF Registry

LEMMA NoClaimsType == NoClaims \in Registry /\ DOMAIN NoClaims = {}
<1>1. NoClaims \in [{} -> Site]
  BY DEF NoClaims
<1> QED BY <1>1, IsRegistry DEF NoClaims

LEMMA WithType ==
  ASSUME NEW f \in Registry, NEW u \in User, NEW c \in Site
  PROVE  /\ With(f, u, c) \in Registry
         /\ DOMAIN With(f, u, c) = DOMAIN f \cup {u}
         /\ With(f, u, c)[u] = c
         /\ \A v \in DOMAIN f \ {u} : With(f, u, c)[v] = f[v]
<1>1. With(f, u, c) \in [DOMAIN f \cup {u} -> Site]
  BY RegistryFacts DEF With
<1>2. DOMAIN f \cup {u} \in SUBSET User
  BY RegistryFacts
<1>3. With(f, u, c) \in Registry
  BY <1>1, <1>2, IsRegistry
<1> QED BY <1>3 DEF With

LEMMA WithoutType ==
  ASSUME NEW f \in Registry, NEW u \in User
  PROVE  /\ Without(f, u) \in Registry
         /\ DOMAIN Without(f, u) = DOMAIN f \ {u}
         /\ \A v \in DOMAIN f \ {u} : Without(f, u)[v] = f[v]
<1>1. Without(f, u) \in [DOMAIN f \ {u} -> Site]
  BY RegistryFacts DEF Without, Restrict
<1>2. DOMAIN f \ {u} \in SUBSET User
  BY RegistryFacts
<1>3. Without(f, u) \in Registry
  BY <1>1, <1>2, IsRegistry
<1> QED BY <1>3 DEF Without, Restrict

LEMMA CoveredType ==
  ASSUME NEW c \in ChunkCoord
  PROVE  Covered(c) \subseteq ChunkCoord
BY ExtentAssumption DEF Covered, ChunkCoord

LEMMA LockedType == LockedChunks \subseteq ChunkCoord
<1>1. \A p \in Cell : ChunkOf(p) \in ChunkCoord
  BY ChunkAssumption DEF ChunkOf, ChunkCoord, Cell
<1>2. \A r \in StaticRegions : r.cells \subseteq Cell
  BY StaticAssumption
<1> QED BY <1>1, <1>2 DEF LockedChunks

LEMMA IsolateType ==
  ASSUME NEW C \in Registry
  PROVE  ToIsolate(C) \in SUBSET ChunkCoord
<1>1. \A u \in DOMAIN C : Covered(C[u]) \subseteq ChunkCoord
  BY RegistryFacts, SiteAssumption, CoveredType
<1> QED BY <1>1, LockedType DEF ToIsolate, OwnedChunks

LEMMA SetOwnedType ==
  ASSUME NEW C \in Registry
  PROVE  SetOwned(ToIsolate(C), C) \in SimCmd
BY IsolateType DEF SetOwned, SimCmd

LEMMA EditType ==
  ASSUME NEW p \in Editable, NEW u \in User \cup {NoUser}
  PROVE  EditOf(p, u) \in SimCmd
BY DEF EditOf, SimCmd

-----------------------------------------------------------------------------
(* Type correctness *)

LEMMA InitType == Init => TypeOK
<1> SUFFICES ASSUME Init PROVE TypeOK
  OBVIOUS
<1>1. sim_owned \in SUBSET ChunkCoord
  BY NoClaimsType, IsolateType DEF Init
<1>2. requests \in 0..MaxRequests /\ restarts \in 0..MaxRestarts
  BY BoundAssumption DEF Init
<1> QED BY <1>1, <1>2, NoClaimsType DEF Init, TypeOK

LEMMA IdentityType ==
  ASSUME TypeOK, NEW p \in Peer, (\E u \in User : AuthPeer(p, u)) \/ DropPeer(p)
  PROVE  TypeOK'
<1>1. peer_user' \in [Peer -> User \cup {NoUser}]
  BY DEF AuthPeer, DropPeer, TypeOK
<1>2. UNCHANGED <<claims, sim_vars, disk_vars, history_vars, requests>>
  BY DEF AuthPeer, DropPeer
<1> QED BY <1>1, <1>2 DEF TypeOK, sim_vars, disk_vars, history_vars

LEMMA RequestType ==
  ASSUME TypeOK, Request
  PROVE  /\ requests' \in 0..MaxRequests
         /\ requests < requests'
         /\ requests \in Nat
BY BoundAssumption DEF TypeOK, Request

LEMMA ApplyType ==
  ASSUME TypeOK, NEW C \in Registry, ApplyClaims(C)
  PROVE  claims' \in Registry /\ sim_cmd' \in Seq(SimCmd)
BY SetOwnedType, AppendProperties DEF ApplyClaims, TypeOK

LEMMA OldWritesType ==
  ASSUME TypeOK, Request, NEW w \in writes
  PROVE  w \in Write /\ w.id < requests'
<1>1. w \in Write /\ w.id < requests
  BY DEF TypeOK
<1> QED BY <1>1, RequestType DEF Write

LEMMA CreateType ==
  ASSUME TypeOK, NEW p \in Peer, NEW c \in Site, ClaimCreate(p, c)
  PROVE  TypeOK'
<1> DEFINE u == peer_user[p]
<1>1. Request /\ u \in User
  BY DEF ClaimCreate, TypeOK
<1>2. claims' \in Registry /\ sim_cmd' \in Seq(SimCmd)
  BY <1>1, WithType, ApplyType DEF ClaimCreate, TypeOK
<1>3. Put(u, c) \in Write /\ Put(u, c).id < requests'
  BY <1>1, RequestType DEF Put, Write
<1>4. writes' \in SUBSET Write /\ \A w \in writes' : w.id < requests'
  BY <1>1, <1>3, OldWritesType DEF ClaimCreate
<1> QED BY <1>1, <1>2, <1>4, RequestType DEF TypeOK, Request, history_vars

LEMMA DeleteType ==
  ASSUME TypeOK, NEW p \in Peer, ClaimDelete(p)
  PROVE  TypeOK'
<1> DEFINE u == peer_user[p]
<1>1. Request /\ u \in DOMAIN claims /\ u \in User /\ claims[u] \in Site
  BY RegistryFacts DEF ClaimDelete, TypeOK
<1>2. claims' \in Registry /\ sim_cmd' \in Seq(SimCmd)
  BY <1>1, WithoutType, ApplyType DEF ClaimDelete, TypeOK
<1>3. Delete(u) \in Write /\ Delete(u).id < requests'
  BY <1>1, RequestType DEF Delete, Write
<1>4. writes' \in SUBSET Write /\ \A w \in writes' : w.id < requests'
  BY <1>1, <1>3, OldWritesType DEF ClaimDelete
<1> QED BY <1>1, <1>2, <1>4, RequestType DEF TypeOK, Request, history_vars

LEMMA EditStepType ==
  ASSUME TypeOK, NEW p \in Peer, NEW cell \in Editable, Edit(p, cell)
  PROVE  TypeOK'
<1>1. Request /\ UNCHANGED <<claims, writes>>
  BY DEF Edit
<1>2. sim_cmd' \in Seq(SimCmd)
  BY EditType, AppendProperties DEF Edit, TypeOK
<1>3. writes' \in SUBSET Write /\ \A w \in writes' : w.id < requests'
  BY <1>1, OldWritesType
<1> QED BY <1>1, <1>2, <1>3, RequestType DEF TypeOK, Request, history_vars

LEMMA SimCommandType ==
  ASSUME TypeOK, SimCommand
  PROVE  TypeOK'
<1>1. sim_cmd' \in Seq(SimCmd) /\ Head(sim_cmd) \in SimCmd
  BY HeadTailProperties DEF SimCommand, TypeOK
<1>2. sim_owned' \in SUBSET ChunkCoord /\ in_force' \in Registry
  BY <1>1 DEF SimCommand, SimCmd, TypeOK
<1>3. UNCHANGED <<hub_vars, disk_vars, history_vars, requests>>
  BY DEF SimCommand
<1> QED BY <1>1, <1>2, <1>3 DEF TypeOK, hub_vars, disk_vars, history_vars

LEMMA TaskType ==
  ASSUME TypeOK, NEW w \in writes, WriteTmp(w) \/ Rename(w) \/ Remove(w) \/ WriteFails(w)
  PROVE  TypeOK'
<1>1. w \in Write /\ w.id < requests
  BY DEF TypeOK
<1>2. w.user \in User /\ w.coord \in Site
  BY <1>1 DEF Write
<1>3. files' \in Registry
  <2>1. CASE UNCHANGED files
    BY <2>1 DEF TypeOK
  <2>2. CASE Remove(w)
    BY <2>2, <1>2, WithoutType DEF Remove, TypeOK
  <2>3. CASE Rename(w) /\ w.user \in DOMAIN tmps
    <3>1. tmps[w.user] \in Site
      BY <2>3, RegistryFacts DEF TypeOK
    <3>2. With(files, w.user, tmps[w.user]) \in Registry
      BY <3>1, <1>2, WithType DEF TypeOK
    <3> QED BY <2>3, <3>2 DEF Rename
  <2> QED BY <2>1, <2>2, <2>3 DEF WriteTmp, Rename, WriteFails
<1>4. tmps' \in Registry
  <2>1. With(tmps, w.user, w.coord) \in Registry /\ Without(tmps, w.user) \in Registry
    BY <1>2, WithType, WithoutType DEF TypeOK
  <2>2. \/ UNCHANGED tmps
        \/ tmps' = With(tmps, w.user, w.coord)
        \/ tmps' = Without(tmps, w.user)
    BY DEF WriteTmp, Rename, Remove, WriteFails
  <2> QED BY <2>1, <2>2 DEF TypeOK
<1>5. writes' \in SUBSET Write /\ \A v \in writes' : v.id < requests
  <2> DEFINE done == [w EXCEPT !.written = TRUE]
  <2>1. done \in Write /\ done.id = w.id
    BY <1>1 DEF Write
  <2>2. writes' \subseteq writes \cup {done}
    BY DEF WriteTmp, Rename, Remove, WriteFails
  <2> HIDE DEF done
  <2> QED BY <2>1, <2>2, <1>1 DEF TypeOK
<1>6. astray' \in SUBSET User
  BY <1>2 DEF WriteTmp, Rename, Remove, WriteFails, Overtaken, TypeOK
<1>7. UNCHANGED <<hub_vars, sim_vars, history_vars, requests>>
  BY DEF WriteTmp, Rename, Remove, WriteFails, Task
<1> QED BY <1>3, <1>4, <1>5, <1>6, <1>7 DEF TypeOK, hub_vars, sim_vars, history_vars

LEMMA RestartType ==
  ASSUME TypeOK, Restart
  PROVE  TypeOK'
<1>1. sim_owned' \in SUBSET ChunkCoord
  BY IsolateType DEF Restart, TypeOK
<1>2. NoOverlap(files) \in BOOLEAN
  BY DEF NoOverlap
<1>3. restarts' \in 0..MaxRestarts
  BY BoundAssumption DEF Restart, TypeOK
<1> QED BY <1>1, <1>2, <1>3 DEF Restart, TypeOK

(***************************************************************************)
(* Every variable keeps its type: the hub's registry and the disk hold at  *)
(* most one claim per user, at a coord somebody asked for.                 *)
(***************************************************************************)
THEOREM TypeCorrect == Spec => []TypeOK
<1>1. TypeOK /\ [Next]_vars => TypeOK'
  <2> SUFFICES ASSUME TypeOK, [Next]_vars PROVE TypeOK'
    OBVIOUS
  <2>1. CASE UNCHANGED vars
    BY <2>1 DEF TypeOK, vars, hub_vars, sim_vars, disk_vars, history_vars
  <2>2. CASE Next
    <3>1. CASE \E p \in Peer : (\E u \in User : AuthPeer(p, u)) \/ DropPeer(p)
      BY <3>1, IdentityType
    <3>2. CASE \E p \in Peer : \/ \E c \in Site : ClaimCreate(p, c)
                             \/ ClaimDelete(p)
                             \/ \E cell \in Editable : Edit(p, cell)
      BY <3>2, CreateType, DeleteType, EditStepType
    <3>3. CASE SimCommand \/ Restart
      BY <3>3, SimCommandType, RestartType
    <3>4. CASE \E w \in writes : WriteTmp(w) \/ Rename(w) \/ Remove(w) \/ WriteFails(w)
      BY <3>4, TaskType
    <3> QED BY <2>2, <3>1, <3>2, <3>3, <3>4 DEF Next
  <2> QED BY <2>1, <2>2
<1> QED BY <1>1, InitType, PTL DEF Spec

-----------------------------------------------------------------------------
(* Claims that do not overlap *)

LEMMA OwnerEdits ==
  ASSUME NEW C \in Registry, NoOverlap(C),
         NEW u \in DOMAIN C, NEW p \in CellsAt(C[u]), NEW v \in User \cup {NoUser}
  PROVE  CanEdit(C, p, v) <=> v = u
<1> DEFINE S == Locking(StaticRegions, p)
           K == Locking(ClaimRegions(C), p)
           own == ClaimRegion(u, C[u])
<1>1. u # NoUser
  BY RegistryFacts, UserAssumption
<1>2. own \in K
  BY DEF Locking, ClaimRegions, ClaimRegion
<1>3. \A r \in K : r = own
  <2> SUFFICES ASSUME NEW r \in K PROVE r = own
    OBVIOUS
  <2>1. PICK w \in DOMAIN C : r = ClaimRegion(w, C[w])
    BY DEF Locking, ClaimRegions
  <2>2. p \in CellsAt(C[w])
    BY <2>1 DEF Locking, ClaimRegion
  <2> QED BY <2>1, <2>2 DEF NoOverlap
<1>4. Admits(own, v) <=> v = u
  BY <1>1 DEF Admits, ClaimRegion
<1>5. \A r \in S : Admits(r, v) <=> v = u
  <2> SUFFICES ASSUME NEW r \in S PROVE Admits(r, v) <=> v = u
    OBVIOUS
  <2>1. ~Blocks(r, u, C[u]) /\ p \in r.cells /\ "LOCKED" \in r.flags
    BY DEF NoOverlap, Locking
  <2>2. "OWNED" \in r.flags /\ r.owner = u
    BY <2>1 DEF Blocks
  <2> QED BY <2>2, <1>1 DEF Admits
<1> HIDE DEF S, K, own
<1>6. CanEdit(C, p, v) <=> IF S # {} THEN \E r \in S : Admits(r, v)
                           ELSE K = {} \/ \E r \in K : Admits(r, v)
  BY DEF CanEdit, S, K
<1> QED BY <1>2, <1>3, <1>4, <1>5, <1>6

\* A claim that may be placed overlaps no other, and replaces the user's own.
LEMMA WithNoOverlap ==
  ASSUME NEW C \in Registry, NoOverlap(C), NEW u \in User, NEW c \in Site, MayClaim(C, u, c)
  PROVE  NoOverlap(With(C, u, c))
<1> DEFINE D == With(C, u, c)
<1>1. DOMAIN D = DOMAIN C \cup {u} /\ D[u] = c /\ \A v \in DOMAIN C \ {u} : D[v] = C[v]
  BY DEF With
<1>2. \A v \in DOMAIN C \ {u} : CellsAt(C[v]) \cap CellsAt(c) = {}
  <2> SUFFICES ASSUME NEW v \in DOMAIN C \ {u} PROVE CellsAt(C[v]) \cap CellsAt(c) = {}
    OBVIOUS
  <2>1. ~Blocks(ClaimRegion(v, C[v]), u, c)
    BY DEF MayClaim, ClaimRegions
  <2> QED BY <2>1 DEF Blocks, ClaimRegion
<1>3. \A r \in StaticRegions : ~Blocks(r, u, c)
  BY DEF MayClaim
<1> HIDE DEF D
<1>4. \A v \in DOMAIN D : \A r \in StaticRegions : ~Blocks(r, v, D[v])
  BY <1>1, <1>3 DEF NoOverlap
<1>5. \A v \in DOMAIN D : \A w \in DOMAIN D \ {v} : CellsAt(D[v]) \cap CellsAt(D[w]) = {}
  BY <1>1, <1>2 DEF NoOverlap
<1>6. NoOverlap(D)
  BY <1>4, <1>5 DEF NoOverlap
<1> QED BY <1>6 DEF D

LEMMA WithoutNoOverlap ==
  ASSUME NEW C \in Registry, NoOverlap(C), NEW u \in User
  PROVE  NoOverlap(Without(C, u))
<1> DEFINE D == Without(C, u)
<1>1. DOMAIN D = DOMAIN C \ {u} /\ \A v \in DOMAIN D : D[v] = C[v]
  BY DEF Without, Restrict
<1> HIDE DEF D
<1>2. NoOverlap(D)
  BY <1>1 DEF NoOverlap
<1> QED BY <1>2 DEF D

\* After a clean start claims never overlap.
Apart == clean => NoOverlap(claims)

LEMMA NextApart ==
  ASSUME TypeOK, Apart, [Next]_vars
  PROVE  Apart'
<1>1. CASE \E p \in Peer, c \in Site : ClaimCreate(p, c)
  <2> PICK p \in Peer, c \in Site : ClaimCreate(p, c)
    BY <1>1
  <2>1. peer_user[p] \in User /\ claims \in Registry
    BY DEF ClaimCreate, TypeOK
  <2>2. MayClaim(claims, peer_user[p], c) /\ claims' = With(claims, peer_user[p], c) /\ clean' = clean
    BY DEF ClaimCreate, ApplyClaims, Request, history_vars
  <2> QED BY <2>1, <2>2, WithNoOverlap DEF Apart
<1>2. CASE \E p \in Peer : ClaimDelete(p)
  <2> PICK p \in Peer : ClaimDelete(p)
    BY <1>2
  <2>1. peer_user[p] \in User /\ claims \in Registry
    BY RegistryFacts DEF ClaimDelete, TypeOK
  <2>2. claims' = Without(claims, peer_user[p]) /\ clean' = clean
    BY DEF ClaimDelete, ApplyClaims, Request, history_vars
  <2> QED BY <2>1, <2>2, WithoutNoOverlap DEF Apart
<1>3. CASE Restart
  BY <1>3 DEF Restart, Apart
<1>4. CASE UNCHANGED <<claims, clean>>
  BY <1>4 DEF Apart, NoOverlap
<1>5. CASE \E p \in Peer : \/ \E u \in User : AuthPeer(p, u)
                           \/ DropPeer(p)
                           \/ \E cell \in Editable : Edit(p, cell)
  BY <1>5, <1>4 DEF AuthPeer, DropPeer, Edit, Request, history_vars
<1>6. CASE SimCommand \/ \E w \in writes : WriteTmp(w) \/ Rename(w) \/ Remove(w) \/ WriteFails(w)
  BY <1>6, <1>4 DEF SimCommand, WriteTmp, Rename, Remove, WriteFails, Task, hub_vars, history_vars
<1>7. CASE UNCHANGED vars
  BY <1>7, <1>4 DEF vars, hub_vars, history_vars
<1> QED BY <1>1, <1>2, <1>3, <1>5, <1>6, <1>7 DEF Next

(***************************************************************************)
(* Whoever claims, moves and gives up what: a claim can be edited by its   *)
(* owner in all its cells and by nobody else in any (region.rs, claims.rs),*)
(* as long as the files of the last start did not overlap.                 *)
(***************************************************************************)
THEOREM OwnersOnly == Spec => []OwnerRules
<1>1. Init => Apart
  BY NoClaimsType DEF Init, Apart, NoOverlap
<1>2. TypeOK /\ Apart => OwnerRules
  <2> SUFFICES ASSUME TypeOK, Apart, clean,
                      NEW u \in DOMAIN claims, NEW p \in CellsAt(claims[u]),
                      NEW v \in User \cup {NoUser}
               PROVE  CanEdit(claims, p, v) <=> v = u
    BY DEF OwnerRules
  <2> QED BY OwnerEdits DEF TypeOK, Apart
<1> QED BY <1>1, <1>2, TypeCorrect, NextApart, PTL DEF Spec

-----------------------------------------------------------------------------
(* Commands under way *)

LEMMA AppendedCommands ==
  ASSUME sim_cmd \in Seq(SimCmd), NEW cmd \in SimCmd, sim_cmd' = Append(sim_cmd, cmd)
  PROVE  /\ Len(sim_cmd') = Len(sim_cmd) + 1
         /\ \A i \in 1..Len(sim_cmd) : sim_cmd'[i] = sim_cmd[i]
         /\ sim_cmd'[Len(sim_cmd) + 1] = cmd
BY AppendProperties

LEMMA AppendedBetween ==
  ASSUME sim_cmd \in Seq(SimCmd), NEW cmd \in SimCmd, sim_cmd' = Append(sim_cmd, cmd),
         NEW i \in 1..(Len(sim_cmd) + 1)
  PROVE  /\ \A j \in 0..Len(sim_cmd) : NoneBetween(i, j)' <=> NoneBetween(i, j)
         /\ NoneBetween(i, Len(sim_cmd))' <=> NoneBetween(i, Len(sim_cmd)) /\ cmd.type # "SetOwned"
<1> DEFINE n == Len(sim_cmd)
<1>1. /\ n \in Nat /\ Len(sim_cmd') = n + 1
      /\ \A k \in 1..n : sim_cmd'[k] = sim_cmd[k]
      /\ sim_cmd'[n + 1] = cmd
  BY AppendedCommands
<1>2. \A j \in 0..n : NoneBetween(i, j)' <=> NoneBetween(i, j)
  BY <1>1 DEF NoneBetween
<1>3. NoneBetween(i, Len(sim_cmd))' <=> \A k \in i..(n + 1) : sim_cmd'[k].type # "SetOwned"
  BY <1>1 DEF NoneBetween
<1>4. (\A k \in i..(n + 1) : sim_cmd'[k].type # "SetOwned")
        <=> (\A k \in i..n : sim_cmd[k].type # "SetOwned") /\ cmd.type # "SetOwned"
  BY <1>1
<1> QED BY <1>2, <1>3, <1>4 DEF NoneBetween

LEMMA TakenCommands ==
  ASSUME sim_cmd \in Seq(SimCmd), sim_cmd # << >>, sim_cmd' = Tail(sim_cmd)
  PROVE  /\ Len(sim_cmd) \in Nat \ {0}
         /\ Len(sim_cmd') = Len(sim_cmd) - 1
         /\ \A i \in 1..(Len(sim_cmd) - 1) : sim_cmd'[i] = sim_cmd[i + 1]
         /\ Head(sim_cmd) = sim_cmd[1]
         /\ sim_cmd[1] \in SimCmd
BY HeadTailProperties, EmptySeq

LEMMA TakenBetween ==
  ASSUME sim_cmd \in Seq(SimCmd), sim_cmd # << >>, sim_cmd' = Tail(sim_cmd),
         NEW i \in 1..Len(sim_cmd), NEW j \in 0..(Len(sim_cmd) - 1)
  PROVE  NoneBetween(i, j)' <=> NoneBetween(i + 1, j + 1)
<1> DEFINE n == Len(sim_cmd)
<1>1. n \in Nat /\ \A k \in 1..(n - 1) : sim_cmd'[k] = sim_cmd[k + 1]
  BY TakenCommands
<1>2. ASSUME NoneBetween(i + 1, j + 1) PROVE NoneBetween(i, j)'
  <2> SUFFICES ASSUME NEW k \in i..j PROVE sim_cmd'[k].type # "SetOwned"
    BY DEF NoneBetween
  <2>1. k + 1 \in (i + 1)..(j + 1) /\ sim_cmd'[k] = sim_cmd[k + 1]
    BY <1>1
  <2> QED BY <1>2, <2>1 DEF NoneBetween
<1>3. ASSUME NoneBetween(i, j)' PROVE NoneBetween(i + 1, j + 1)
  <2> SUFFICES ASSUME NEW k \in (i + 1)..(j + 1) PROVE sim_cmd[k].type # "SetOwned"
    BY DEF NoneBetween
  <2>1. k - 1 \in i..j /\ k - 1 \in 1..(n - 1) /\ (k - 1) + 1 = k
    BY <1>1
  <2>2. sim_cmd'[k - 1] = sim_cmd[k]
    BY <1>1, <2>1
  <2> QED BY <1>3, <2>1, <2>2 DEF NoneBetween
<1> QED BY <1>2, <1>3

\* The last of the claims on their way to the sim are the hub's.
LatestLaw ==
  /\ NoneBetween(1, Len(sim_cmd)) => in_force = claims
  /\ \A i \in 1..Len(sim_cmd) :
       sim_cmd[i].type = "SetOwned" /\ NoneBetween(i + 1, Len(sim_cmd)) => sim_cmd[i].law = claims

\* Owned chunks are those of the claims they were computed from.
OwnedByLaw ==
  /\ sim_owned = ToIsolate(in_force)
  /\ \A i \in 1..Len(sim_cmd) :
       sim_cmd[i].type = "SetOwned" => sim_cmd[i].owned = ToIsolate(sim_cmd[i].law)

CommandsInv == LatestLaw /\ OwnedByLaw /\ EditsLawful

LEMMA ApplyCommands ==
  ASSUME TypeOK, CommandsInv, NEW C \in Registry, ApplyClaims(C), UNCHANGED <<sim_owned, in_force>>
  PROVE  CommandsInv'
<1> DEFINE n == Len(sim_cmd)
           cmd == SetOwned(ToIsolate(C), C)
<1>1. n \in Nat /\ sim_cmd \in Seq(SimCmd) /\ cmd \in SimCmd
  BY SetOwnedType DEF TypeOK
<1>2. sim_cmd' = Append(sim_cmd, cmd) /\ claims' = C
  BY DEF ApplyClaims
<1>3. cmd.type = "SetOwned" /\ cmd.law = C /\ cmd.owned = ToIsolate(C)
  BY DEF SetOwned
<1>4. /\ Len(sim_cmd') = n + 1
      /\ \A i \in 1..n : sim_cmd'[i] = sim_cmd[i]
      /\ sim_cmd'[n + 1] = cmd
  BY <1>1, <1>2, AppendedCommands
<1>5. \A i \in 1..(n + 1), j \in 0..n : NoneBetween(i, j)' <=> NoneBetween(i, j)
  BY <1>1, <1>2, AppendedBetween
<1>6. \A i \in 1..(n + 1) : ~NoneBetween(i, Len(sim_cmd))'
  BY <1>1, <1>2, <1>3, AppendedBetween
<1> HIDE DEF n, cmd
<1>7. LatestLaw'
  <2>1. ~NoneBetween(1, Len(sim_cmd))'
    BY <1>1, <1>4, <1>6
  <2>2. ASSUME NEW i \in 1..Len(sim_cmd'), NoneBetween(i + 1, Len(sim_cmd))'
        PROVE  sim_cmd'[i].law = claims'
    <3>1. i = n + 1
      BY <1>1, <1>4, <1>6, <2>2
    <3> QED BY <3>1, <1>2, <1>3, <1>4
  <2> QED BY <2>1, <2>2 DEF LatestLaw
<1>8. OwnedByLaw'
  BY <1>1, <1>3, <1>4 DEF OwnedByLaw, CommandsInv, n
<1>9. EditsLawful'
  <2> SUFFICES ASSUME NEW i \in 1..Len(sim_cmd'), sim_cmd'[i].type = "Edit"
               PROVE  /\ NoneBetween(1, i - 1)' => CanEdit(in_force', sim_cmd'[i].cell, sim_cmd'[i].by)
                      /\ \A k \in 1..(i - 1) :
                           sim_cmd'[k].type = "SetOwned" /\ NoneBetween(k + 1, i - 1)'
                             => CanEdit(sim_cmd'[k].law, sim_cmd'[i].cell, sim_cmd'[i].by)
    BY DEF EditsLawful
  <2>1. i \in 1..n /\ sim_cmd'[i] = sim_cmd[i]
    BY <1>1, <1>3, <1>4
  <2>2. /\ NoneBetween(1, i - 1)' <=> NoneBetween(1, i - 1)
        /\ \A k \in 1..(i - 1) : (NoneBetween(k + 1, i - 1)' <=> NoneBetween(k + 1, i - 1)) /\ sim_cmd'[k] = sim_cmd[k]
    BY <1>1, <1>4, <1>5, <2>1
  <2> QED BY <2>1, <2>2 DEF EditsLawful, CommandsInv, n
<1> QED BY <1>7, <1>8, <1>9 DEF CommandsInv

LEMMA EditCommands ==
  ASSUME TypeOK, CommandsInv, NEW p \in Peer, NEW cell \in Editable, Edit(p, cell)
  PROVE  CommandsInv'
<1> DEFINE n == Len(sim_cmd)
           cmd == EditOf(cell, peer_user[p])
<1>1. n \in Nat /\ sim_cmd \in Seq(SimCmd) /\ cmd \in SimCmd
  BY EditType DEF TypeOK
<1>2. sim_cmd' = Append(sim_cmd, cmd) /\ UNCHANGED <<claims, in_force, sim_owned>>
  BY DEF Edit, Request
<1>3. cmd.type = "Edit" /\ CanEdit(claims, cmd.cell, cmd.by)
  BY DEF EditOf, Edit
<1>4. /\ Len(sim_cmd') = n + 1
      /\ \A i \in 1..n : sim_cmd'[i] = sim_cmd[i]
      /\ sim_cmd'[n + 1] = cmd
  BY <1>1, <1>2, AppendedCommands
<1>5. \A i \in 1..(n + 1), j \in 0..n : NoneBetween(i, j)' <=> NoneBetween(i, j)
  BY <1>1, <1>2, AppendedBetween
<1>6. \A i \in 1..(n + 1) : NoneBetween(i, Len(sim_cmd))' <=> NoneBetween(i, n)
  BY <1>1, <1>2, <1>3, AppendedBetween
<1> HIDE DEF n, cmd
<1>7. LatestLaw'
  <2>1. NoneBetween(1, Len(sim_cmd))' => in_force' = claims'
    BY <1>1, <1>2, <1>4, <1>6 DEF LatestLaw, CommandsInv, n
  <2>2. ASSUME NEW i \in 1..Len(sim_cmd'), sim_cmd'[i].type = "SetOwned", NoneBetween(i + 1, Len(sim_cmd))'
        PROVE  sim_cmd'[i].law = claims'
    <3>1. i \in 1..n /\ i + 1 \in 1..(n + 1)
      BY <1>1, <1>3, <1>4, <2>2
    <3>2. sim_cmd'[i] = sim_cmd[i] /\ NoneBetween(i + 1, n)
      BY <3>1, <1>4, <1>6, <2>2
    <3> QED BY <3>1, <3>2, <1>2, <2>2 DEF LatestLaw, CommandsInv, n
  <2> QED BY <2>1, <2>2 DEF LatestLaw
<1>8. OwnedByLaw'
  BY <1>1, <1>2, <1>3, <1>4 DEF OwnedByLaw, CommandsInv, n
<1>9. EditsLawful'
  <2> SUFFICES ASSUME NEW i \in 1..Len(sim_cmd'), sim_cmd'[i].type = "Edit"
               PROVE  /\ NoneBetween(1, i - 1)' => CanEdit(in_force', sim_cmd'[i].cell, sim_cmd'[i].by)
                      /\ \A k \in 1..(i - 1) :
                           sim_cmd'[k].type = "SetOwned" /\ NoneBetween(k + 1, i - 1)'
                             => CanEdit(sim_cmd'[k].law, sim_cmd'[i].cell, sim_cmd'[i].by)
    BY DEF EditsLawful
  <2>0. i \in 1..(n + 1)
    BY <1>4
  <2>1. /\ NoneBetween(1, i - 1)' <=> NoneBetween(1, i - 1)
        /\ \A k \in 1..(i - 1) : (NoneBetween(k + 1, i - 1)' <=> NoneBetween(k + 1, i - 1)) /\ sim_cmd'[k] = sim_cmd[k]
    BY <1>1, <1>4, <1>5, <2>0
  <2>2. CASE i \in 1..n
    <3>1. sim_cmd'[i] = sim_cmd[i]
      BY <2>2, <1>4
    <3> QED BY <2>1, <2>2, <3>1, <1>2 DEF EditsLawful, CommandsInv, n
  <2>3. CASE i = n + 1
    <3>1. sim_cmd'[i] = cmd /\ i - 1 = n
      BY <2>3, <1>1, <1>4
    <3>2. NoneBetween(1, n) => in_force' = claims
      BY <1>2 DEF LatestLaw, CommandsInv, n
    <3>3. \A k \in 1..n : sim_cmd[k].type = "SetOwned" /\ NoneBetween(k + 1, n) => sim_cmd[k].law = claims
      BY DEF LatestLaw, CommandsInv, n
    <3> QED BY <2>1, <3>1, <3>2, <3>3, <1>3
  <2> QED BY <2>0, <2>2, <2>3, <1>1
<1> QED BY <1>7, <1>8, <1>9 DEF CommandsInv

LEMMA TakeCommands ==
  ASSUME TypeOK, CommandsInv, SimCommand
  PROVE  CommandsInv'
<1> DEFINE n == Len(sim_cmd)
<1>1. sim_cmd \in Seq(SimCmd) /\ sim_cmd # << >> /\ sim_cmd' = Tail(sim_cmd) /\ claims' = claims
  BY DEF SimCommand, TypeOK, hub_vars
<1>2. /\ n \in Nat \ {0}
      /\ Len(sim_cmd') = n - 1
      /\ \A i \in 1..(n - 1) : sim_cmd'[i] = sim_cmd[i + 1]
      /\ Head(sim_cmd) = sim_cmd[1]
  BY <1>1, TakenCommands
<1>3. \A i \in 1..n, j \in 0..(n - 1) : NoneBetween(i, j)' <=> NoneBetween(i + 1, j + 1)
  BY <1>1, TakenBetween
<1>4. \A j \in 0..(n - 1) : NoneBetween(1, j + 1) <=> sim_cmd[1].type # "SetOwned" /\ NoneBetween(2, j + 1)
  BY <1>2 DEF NoneBetween
<1>5. IF sim_cmd[1].type = "SetOwned"
      THEN sim_owned' = sim_cmd[1].owned /\ in_force' = sim_cmd[1].law
      ELSE sim_owned' = sim_owned /\ in_force' = in_force
  BY <1>2 DEF SimCommand
<1>6. 1 \in 1..n
  BY <1>2
<1> HIDE DEF n
<1>7. LatestLaw'
  <2>1. ASSUME NoneBetween(1, Len(sim_cmd))' PROVE in_force' = claims
    <3>1. NoneBetween(2, n)
      BY <1>2, <1>3, <1>6, <2>1
    <3>2. CASE sim_cmd[1].type = "SetOwned"
      BY <3>1, <3>2, <1>5, <1>6 DEF LatestLaw, CommandsInv, n
    <3>3. CASE sim_cmd[1].type # "SetOwned"
      <4>1. NoneBetween(1, n)
        BY <3>1, <3>3, <1>2, <1>4
      <4> QED BY <4>1, <3>3, <1>5 DEF LatestLaw, CommandsInv, n
    <3> QED BY <3>2, <3>3
  <2>2. ASSUME NEW i \in 1..Len(sim_cmd'), sim_cmd'[i].type = "SetOwned", NoneBetween(i + 1, Len(sim_cmd))'
        PROVE  sim_cmd'[i].law = claims
    <3>1. i \in 1..(n - 1) /\ i + 1 \in 1..n /\ i + 1 + 1 = (i + 1) + 1
      BY <1>2
    <3>2. sim_cmd'[i] = sim_cmd[i + 1] /\ NoneBetween(i + 1 + 1, n)
      BY <3>1, <1>2, <1>3, <2>2
    <3> QED BY <3>1, <3>2, <2>2 DEF LatestLaw, CommandsInv, n
  <2> QED BY <2>1, <2>2, <1>1 DEF LatestLaw
<1>8. OwnedByLaw'
  <2>1. sim_owned' = ToIsolate(in_force')
    BY <1>5, <1>6 DEF OwnedByLaw, CommandsInv, n
  <2>2. ASSUME NEW i \in 1..Len(sim_cmd'), sim_cmd'[i].type = "SetOwned"
        PROVE  sim_cmd'[i].owned = ToIsolate(sim_cmd'[i].law)
    <3>1. i + 1 \in 1..n /\ sim_cmd'[i] = sim_cmd[i + 1]
      BY <1>2
    <3> QED BY <3>1, <2>2 DEF OwnedByLaw, CommandsInv, n
  <2> QED BY <2>1, <2>2 DEF OwnedByLaw
<1>9. EditsLawful'
  <2> SUFFICES ASSUME NEW i \in 1..Len(sim_cmd'), sim_cmd'[i].type = "Edit"
               PROVE  /\ NoneBetween(1, i - 1)' => CanEdit(in_force', sim_cmd'[i].cell, sim_cmd'[i].by)
                      /\ \A k \in 1..(i - 1) :
                           sim_cmd'[k].type = "SetOwned" /\ NoneBetween(k + 1, i - 1)'
                             => CanEdit(sim_cmd'[k].law, sim_cmd'[i].cell, sim_cmd'[i].by)
    BY DEF EditsLawful
  <2>1. i \in 1..(n - 1) /\ i + 1 \in 1..n /\ sim_cmd'[i] = sim_cmd[i + 1]
    BY <1>2
  <2>2. sim_cmd[i + 1].type = "Edit"
    BY <2>1
  <2>3. NoneBetween(1, i) => CanEdit(in_force, sim_cmd[i + 1].cell, sim_cmd[i + 1].by)
    <3>1. (i + 1) - 1 = i
      BY <2>1
    <3> QED BY <2>1, <2>2, <3>1 DEF EditsLawful, CommandsInv, n
  <2>4. \A k \in 1..i : sim_cmd[k].type = "SetOwned" /\ NoneBetween(k + 1, i)
                          => CanEdit(sim_cmd[k].law, sim_cmd[i + 1].cell, sim_cmd[i + 1].by)
    <3>1. (i + 1) - 1 = i
      BY <2>1
    <3> QED BY <2>1, <2>2, <3>1 DEF EditsLawful, CommandsInv, n
  <2>5. NoneBetween(1, i - 1)' => CanEdit(in_force', sim_cmd'[i].cell, sim_cmd'[i].by)
    <3> SUFFICES ASSUME NoneBetween(1, i - 1)'
                 PROVE  CanEdit(in_force', sim_cmd'[i].cell, sim_cmd'[i].by)
      OBVIOUS
    <3>1. i - 1 \in 0..(n - 1) /\ (i - 1) + 1 = i
      BY <2>1, <1>2
    <3>2. NoneBetween(2, i)
      BY <3>1, <1>3, <1>6
    <3>3. CASE sim_cmd[1].type = "SetOwned"
      BY <3>2, <3>3, <2>1, <2>4, <1>5
    <3>4. CASE sim_cmd[1].type # "SetOwned"
      <4>1. NoneBetween(1, i)
        BY <3>1, <3>2, <3>4, <1>4
      <4> QED BY <4>1, <3>4, <2>1, <2>3, <1>5
    <3> QED BY <3>3, <3>4
  <2>6. ASSUME NEW k \in 1..(i - 1), sim_cmd'[k].type = "SetOwned", NoneBetween(k + 1, i - 1)'
        PROVE  CanEdit(sim_cmd'[k].law, sim_cmd'[i].cell, sim_cmd'[i].by)
    <3>1. k \in 1..(n - 1) /\ k + 1 \in 1..n /\ k + 1 \in 1..i /\ i - 1 \in 0..(n - 1) /\ (i - 1) + 1 = i
      BY <2>1, <1>2
    <3>2. sim_cmd'[k] = sim_cmd[k + 1] /\ NoneBetween(k + 1 + 1, i)
      BY <3>1, <1>2, <1>3, <2>6
    <3> QED BY <3>1, <3>2, <2>1, <2>4, <2>6
  <2> QED BY <2>5, <2>6
<1> QED BY <1>7, <1>8, <1>9 DEF CommandsInv

LEMMA EmptyCommands ==
  ASSUME sim_cmd = << >>, in_force = claims, sim_owned = ToIsolate(in_force)
  PROVE  CommandsInv
BY DEF CommandsInv, LatestLaw, OwnedByLaw, EditsLawful

LEMMA NextCommands ==
  ASSUME TypeOK, CommandsInv, [Next]_vars
  PROVE  CommandsInv'
<1>1. CASE UNCHANGED <<claims, sim_cmd, sim_owned, in_force>>
  BY <1>1 DEF CommandsInv, LatestLaw, OwnedByLaw, EditsLawful, NoneBetween
<1>2. CASE \E p \in Peer, c \in Site : ClaimCreate(p, c)
  <2> PICK p \in Peer, c \in Site : ClaimCreate(p, c)
    BY <1>2
  <2>1. peer_user[p] \in User /\ claims \in Registry
    BY DEF ClaimCreate, TypeOK
  <2>2. ApplyClaims(With(claims, peer_user[p], c)) /\ UNCHANGED <<sim_owned, in_force>>
    BY DEF ClaimCreate, Request
  <2> QED BY <2>1, <2>2, WithType, ApplyCommands
<1>3. CASE \E p \in Peer : ClaimDelete(p)
  <2> PICK p \in Peer : ClaimDelete(p)
    BY <1>3
  <2>1. Without(claims, peer_user[p]) \in Registry
    BY RegistryFacts, WithoutType DEF ClaimDelete, TypeOK
  <2>2. ApplyClaims(Without(claims, peer_user[p])) /\ UNCHANGED <<sim_owned, in_force>>
    BY DEF ClaimDelete, Request
  <2> QED BY <2>1, <2>2, ApplyCommands
<1>4. CASE \E p \in Peer, cell \in Editable : Edit(p, cell)
  BY <1>4, EditCommands
<1>5. CASE SimCommand
  BY <1>5, TakeCommands
<1>6. CASE Restart
  <2>1. (sim_cmd = << >> /\ in_force = claims /\ sim_owned = ToIsolate(in_force))'
    BY <1>6 DEF Restart
  <2> QED BY <2>1, EmptyCommands, PTL
<1>7. CASE \/ \E p \in Peer : (\E u \in User : AuthPeer(p, u)) \/ DropPeer(p)
           \/ \E w \in writes : WriteTmp(w) \/ Rename(w) \/ Remove(w) \/ WriteFails(w)
           \/ UNCHANGED vars
  <2>1. UNCHANGED <<claims, sim_cmd, sim_owned, in_force>>
    BY <1>7 DEF AuthPeer, DropPeer, WriteTmp, Rename, Remove, WriteFails, Task, vars, hub_vars, sim_vars
  <2> QED BY <2>1, <1>1
<1> QED BY <1>2, <1>3, <1>4, <1>5, <1>6, <1>7 DEF Next

LEMMA CommandsAlways == Spec => []CommandsInv
<1>1. Init => CommandsInv
  BY EmptyCommands DEF Init
<1> QED BY <1>1, TypeCorrect, NextCommands, PTL DEF Spec

(***************************************************************************)
(* The sim isolates the chunks of the hub's claims and the static locked   *)
(* ones once it has taken the commands under way, restarted or not         *)
(* (apply_claims_update, main.rs).                                         *)
(***************************************************************************)
THEOREM ClaimsIsolated == Spec => []SimIsolates
<1>1. CommandsInv => SimIsolates
  BY DEF CommandsInv, LatestLaw, OwnedByLaw, SimIsolates
<1> QED BY <1>1, CommandsAlways, PTL

(***************************************************************************)
(* An edit is checked when the hub takes the request (hub.rs) and made     *)
(* when the sim takes the command: it is lawful then, too, although claims *)
(* may have changed in between.                                            *)
(***************************************************************************)
THEOREM LawfulWhenMade == Spec => []EditsLawful
BY CommandsAlways, PTL DEF CommandsInv

-----------------------------------------------------------------------------
(* The disk *)

\* Of the user's unfinished tasks, w was spawned first, or last.
First(w) == \A v \in writes : v.user = w.user => w.id <= v.id
Newest(w) == \A v \in writes : v.user = w.user => v.id <= w.id

\* What w leaves on the disk is what the hub has.
Intended(w) ==
  IF w.op = "put" THEN w.user \in DOMAIN claims /\ claims[w.user] = w.coord
  ELSE w.user \notin DOMAIN claims

\* As long as a user's tasks run in order, the newest is going to bring the
\* disk up to date, and the only half done one is the first: the temporary
\* file is its own.
UserDisk(u) ==
  /\ (\A w \in writes : w.user # u) => SameAt(files, claims, u)
  /\ \A w \in writes : w.user = u =>
       /\ Newest(w) => Intended(w)
       /\ w.written => First(w) /\ w.op = "put" /\ u \in DOMAIN tmps /\ tmps[u] = w.coord

UniqueIds == \A v, w \in writes : v.id = w.id => v = w

DiskInv == UniqueIds /\ \A u \in User \ astray : UserDisk(u)

\* A step that does not concern u.
LEMMA OtherUser ==
  ASSUME NEW u \in User, UserDisk(u),
         \A v : v.user = u => (v \in writes' <=> v \in writes),
         SameAt(files', files, u), SameAt(tmps', tmps, u), SameAt(claims', claims, u)
  PROVE  UserDisk(u)'
<1>1. (\A w \in writes' : w.user # u) => SameAt(files', claims', u)
  BY DEF UserDisk, SameAt
<1>2. ASSUME NEW w \in writes', w.user = u
      PROVE  /\ Newest(w)' => Intended(w)'
             /\ w.written => First(w)' /\ w.op = "put" /\ u \in DOMAIN tmps' /\ tmps'[u] = w.coord
  <2>1. w \in writes
    BY <1>2
  <2>2. (Newest(w)' <=> Newest(w)) /\ (First(w)' <=> First(w))
    BY <1>2 DEF Newest, First
  <2>3. Intended(w)' <=> Intended(w)
    BY <1>2 DEF Intended, SameAt
  <2>4. u \in DOMAIN tmps /\ tmps[u] = w.coord => u \in DOMAIN tmps' /\ tmps'[u] = w.coord
    BY DEF SameAt
  <2> QED BY <1>2, <2>1, <2>2, <2>3, <2>4 DEF UserDisk
<1> QED BY <1>1, <1>2 DEF UserDisk

LEMMA SameAtSelf == \A f, u : SameAt(f, f, u)
BY DEF SameAt

\* A request spawns the task w0 for what it made of the user's claim.
LEMMA SpawnedTask ==
  ASSUME TypeOK, DiskInv, NEW w0 \in Write, w0.id = requests, ~w0.written,
         writes' = writes \cup {w0}, UNCHANGED <<files, tmps, astray>>,
         \A u \in User \ {w0.user} : SameAt(claims', claims, u),
         Intended(w0)'
  PROVE  DiskInv'
<1>1. \A w \in writes : w \in Write /\ w.id < w0.id /\ w.id \in Nat
  BY DEF TypeOK, Write
<1>2. UniqueIds'
  BY <1>1 DEF DiskInv, UniqueIds, Write
<1>3. ASSUME NEW u \in User \ astray, u # w0.user PROVE UserDisk(u)'
  <2>1. \A v : v.user = u => (v \in writes' <=> v \in writes)
    BY <1>3
  <2> QED BY <2>1, <1>3, OtherUser, SameAtSelf DEF DiskInv
<1>4. ASSUME NEW u \in User \ astray, u = w0.user PROVE UserDisk(u)'
  <2>1. ~\A w \in writes' : w.user # u
    BY <1>4
  <2>2. ASSUME NEW w \in writes, w.user = u
        PROVE  /\ ~Newest(w)'
               /\ w.written => First(w)' /\ w.op = "put" /\ u \in DOMAIN tmps /\ tmps[u] = w.coord
    <3>1. w.id < w0.id /\ w.id \in Nat /\ w0.id \in Nat
      BY <1>1 DEF Write
    <3>2. ~Newest(w)'
      BY <3>1, <2>2, <1>4 DEF Newest
    <3>3. First(w) => First(w)'
      BY <3>1 DEF First
    <3> QED BY <3>2, <3>3, <2>2 DEF DiskInv, UserDisk
  <2> QED BY <2>1, <2>2, <1>4 DEF UserDisk
<1> QED BY <1>2, <1>3, <1>4 DEF DiskInv

LEMMA CreateDisk ==
  ASSUME TypeOK, DiskInv, NEW p \in Peer, NEW c \in Site, ClaimCreate(p, c)
  PROVE  DiskInv'
<1> PICK u : u = peer_user[p]
  OBVIOUS
<1>1. u \in User /\ requests \in Nat /\ claims \in Registry
  BY BoundAssumption DEF ClaimCreate, TypeOK
<1> PICK w0 : w0 = Put(u, c)
  OBVIOUS
<1>2. w0 \in Write /\ w0.id = requests /\ ~w0.written /\ w0.user = u /\ w0.op = "put" /\ w0.coord = c
  BY <1>1 DEF Put, Write
<1>3. writes' = writes \cup {w0} /\ UNCHANGED <<files, tmps, astray>> /\ claims' = With(claims, u, c)
  BY DEF ClaimCreate, ApplyClaims, Request
<1>4. \A v \in User \ {u} : SameAt(claims', claims, v)
  BY <1>3 DEF With, SameAt
<1>5. u \in DOMAIN claims' /\ claims'[u] = c
  BY <1>3 DEF With
<1>6. Intended(w0)'
  BY <1>2, <1>5 DEF Intended
<1> QED BY <1>2, <1>3, <1>4, <1>6, SpawnedTask

LEMMA DeleteDisk ==
  ASSUME TypeOK, DiskInv, NEW p \in Peer, ClaimDelete(p)
  PROVE  DiskInv'
<1> PICK u : u = peer_user[p]
  OBVIOUS
<1>1. u \in User /\ requests \in Nat /\ claims[u] \in Site
  BY BoundAssumption, RegistryFacts DEF ClaimDelete, TypeOK
<1> PICK w0 : w0 = Delete(u)
  OBVIOUS
<1>2. w0 \in Write /\ w0.id = requests /\ ~w0.written /\ w0.user = u /\ w0.op = "delete"
  BY <1>1 DEF Delete, Write
<1>3. writes' = writes \cup {w0} /\ UNCHANGED <<files, tmps, astray>> /\ claims' = Without(claims, u)
  BY DEF ClaimDelete, ApplyClaims, Request
<1>4. \A v \in User \ {u} : SameAt(claims', claims, v)
  BY <1>3 DEF Without, Restrict, SameAt
<1>5. u \notin DOMAIN claims'
  BY <1>3 DEF Without, Restrict
<1>6. Intended(w0)'
  BY <1>2, <1>5 DEF Intended
<1> QED BY <1>2, <1>3, <1>4, <1>6, SpawnedTask

\* If w's turn has come, nothing of its user is half done but perhaps w, and
\* w's leaving does not make another task the newest.
LEMMA InTurn ==
  ASSUME TypeOK, DiskInv, NEW w \in writes, w.user \notin astray, Overtaken(w) = {},
         NEW v \in writes, v # w, v.user = w.user
  PROVE  /\ ~v.written
         /\ w.id <= v.id
<1>1. w \in Write /\ v \in Write
  BY DEF TypeOK
<1>2. First(w)
  BY <1>1 DEF Overtaken, First, TypeOK, Write
<1>3. ~v.written
  <2> SUFFICES ASSUME v.written PROVE FALSE
    OBVIOUS
  <2>1. First(v)
    BY <1>1 DEF DiskInv, UserDisk, Write
  <2>2. v.id = w.id
    BY <1>1, <1>2, <2>1 DEF First, Write
  <2> QED BY <2>2 DEF DiskInv, UniqueIds
<1> QED BY <1>2, <1>3 DEF First

LEMMA WriteTmpDisk ==
  ASSUME TypeOK, DiskInv, NEW w \in writes, WriteTmp(w)
  PROVE  DiskInv'
<1> DEFINE d == [w EXCEPT !.written = TRUE]
<1>1. w \in Write
  BY DEF TypeOK
<1>2. /\ d.id = w.id /\ d.user = w.user /\ d.op = "put" /\ d.coord = w.coord /\ d.written
      /\ d \in Write
  BY <1>1 DEF WriteTmp, Write
<1>3. /\ writes' = (writes \ {w}) \cup {d}
      /\ tmps' = With(tmps, w.user, w.coord)
      /\ astray' = astray \cup Overtaken(w)
      /\ UNCHANGED <<files, claims>>
      /\ w.op = "put"
  BY DEF WriteTmp, Task, hub_vars
<1> HIDE DEF d
<1>4. UniqueIds'
  BY <1>2, <1>3 DEF DiskInv, UniqueIds
<1>5. ASSUME NEW u \in User \ astray', u # w.user PROVE UserDisk(u)'
  <2>1. \A v : v.user = u => (v \in writes' <=> v \in writes)
    BY <1>2, <1>3, <1>5
  <2>2. SameAt(tmps', tmps, u)
    BY <1>3, <1>5 DEF SameAt, With
  <2> QED BY <2>1, <2>2, <1>3, <1>5, OtherUser, SameAtSelf DEF DiskInv
<1>6. ASSUME NEW u \in User \ astray', u = w.user PROVE UserDisk(u)'
  <2>1. u \notin astray /\ Overtaken(w) = {}
    BY <1>3, <1>6 DEF Overtaken
  <2>2. \A v \in writes : v # w /\ v.user = u => ~v.written /\ w.id <= v.id
    BY <2>1, <1>6, InTurn
  <2>3. UserDisk(u)
    BY <2>1 DEF DiskInv
  <2>4. ~\A v \in writes' : v.user # u
    BY <1>2, <1>3, <1>6
  <2>5. /\ Newest(d)' => Intended(d)'
        /\ First(d)' /\ d.op = "put" /\ u \in DOMAIN tmps' /\ tmps'[u] = d.coord
    <3>1. Newest(d)' => Newest(w)
      BY <1>1, <1>2, <1>3 DEF Newest, Write
    <3>2. Newest(w) => Intended(w)
      BY <2>3, <1>6 DEF UserDisk
    <3>3. Intended(w) => Intended(d)'
      BY <1>2, <1>3 DEF Intended
    <3>4. First(d)'
      BY <1>1, <1>2, <1>3, <1>6, <2>2 DEF First, Write
    <3>5. u \in DOMAIN tmps' /\ tmps'[u] = d.coord
      BY <1>2, <1>3, <1>6 DEF With
    <3> QED BY <3>1, <3>2, <3>3, <3>4, <3>5, <1>2
  <2>6. ASSUME NEW v \in writes, v # w, v.user = u
        PROVE  ~v.written /\ (Newest(v)' => Intended(v)')
    <3>1. Newest(v)' => Newest(v)
      BY <1>2, <1>3, <2>2, <2>6 DEF Newest
    <3>2. Intended(v) => Intended(v)'
      BY <1>3 DEF Intended
    <3> QED BY <3>1, <3>2, <2>2, <2>3, <2>6 DEF UserDisk
  <2> QED BY <2>4, <2>5, <2>6, <1>3 DEF UserDisk
<1> QED BY <1>4, <1>5, <1>6 DEF DiskInv

\* The last step of a task: of a put, or of a delete.
LEMMA FinishedDisk ==
  ASSUME TypeOK, DiskInv, NEW w \in writes, Rename(w) \/ Remove(w)
  PROVE  DiskInv'
<1>1. w \in Write
  BY DEF TypeOK
<1>2. writes' = writes \ {w} /\ astray' = astray \cup Overtaken(w) /\ UNCHANGED claims
  BY DEF Rename, Remove, Task, hub_vars
<1>3. UniqueIds'
  BY <1>2 DEF DiskInv, UniqueIds
<1>4. ASSUME NEW u \in User \ astray', u # w.user PROVE UserDisk(u)'
  <2>1. \A v : v.user = u => (v \in writes' <=> v \in writes)
    BY <1>2, <1>4
  <2>2. SameAt(tmps', tmps, u) /\ SameAt(files', files, u)
    BY <1>4 DEF Rename, Remove, SameAt, With, Without, Restrict
  <2> QED BY <2>1, <2>2, <1>2, <1>4, OtherUser, SameAtSelf DEF DiskInv
<1>5. ASSUME NEW u \in User \ astray', u = w.user PROVE UserDisk(u)'
  <2>1. u \notin astray /\ Overtaken(w) = {}
    BY <1>2, <1>5 DEF Overtaken
  <2>2. \A v \in writes : v # w /\ v.user = u => ~v.written /\ w.id <= v.id
    BY <2>1, <1>5, InTurn
  <2>3. UserDisk(u)
    BY <2>1 DEF DiskInv
  <2>4. ASSUME \A v \in writes' : v.user # u PROVE SameAt(files', claims', u)
    <3>1. Newest(w)
      BY <1>1, <1>2, <1>5, <2>4 DEF Newest, Write
    <3>2. Intended(w)
      BY <3>1, <2>3, <1>5 DEF UserDisk
    <3>3. CASE Rename(w)
      <4>1. u \in DOMAIN tmps /\ tmps[u] = w.coord
        BY <3>3, <2>3, <1>5 DEF Rename, UserDisk
      <4>2. files' = With(files, u, w.coord) /\ w.op = "put"
        BY <3>3, <4>1, <1>5 DEF Rename
      <4> QED BY <4>2, <3>2, <1>2, <1>5 DEF Intended, With, SameAt
    <3>4. CASE Remove(w)
      BY <3>4, <3>2, <1>2, <1>5 DEF Remove, Intended, Without, Restrict, SameAt
    <3> QED BY <3>3, <3>4
  <2>5. ASSUME NEW v \in writes, v # w, v.user = u
        PROVE  ~v.written /\ (Newest(v)' => Intended(v)')
    <3>1. Newest(v)' => Newest(v)
      BY <1>2, <2>2, <2>5 DEF Newest
    <3>2. Intended(v) => Intended(v)'
      BY <1>2 DEF Intended
    <3> QED BY <3>1, <3>2, <2>2, <2>3, <2>5 DEF UserDisk
  <2> QED BY <2>4, <2>5, <1>2 DEF UserDisk
<1> QED BY <1>3, <1>4, <1>5 DEF DiskInv

LEMMA WriteFailsDisk ==
  ASSUME DiskInv, NEW w \in writes, WriteFails(w)
  PROVE  DiskInv'
<1>1. writes' = writes \ {w} /\ astray' = astray \cup {w.user} /\ UNCHANGED <<files, tmps, claims>>
  BY DEF WriteFails, Task, hub_vars
<1>2. UniqueIds'
  BY <1>1 DEF DiskInv, UniqueIds
<1>3. ASSUME NEW u \in User \ astray' PROVE UserDisk(u)'
  <2>1. \A v : v.user = u => (v \in writes' <=> v \in writes)
    BY <1>1, <1>3
  <2> QED BY <2>1, <1>1, <1>3, OtherUser, SameAtSelf DEF DiskInv
<1> QED BY <1>2, <1>3 DEF DiskInv

LEMMA RestartDisk ==
  ASSUME Restart
  PROVE  DiskInv'
BY SameAtSelf DEF Restart, DiskInv, UniqueIds, UserDisk

LEMMA NextDisk ==
  ASSUME TypeOK, DiskInv, [Next]_vars
  PROVE  DiskInv'
<1>1. CASE \E p \in Peer : (\E c \in Site : ClaimCreate(p, c)) \/ ClaimDelete(p)
  BY <1>1, CreateDisk, DeleteDisk
<1>2. CASE \E w \in writes : WriteTmp(w) \/ Rename(w) \/ Remove(w) \/ WriteFails(w)
  BY <1>2, WriteTmpDisk, FinishedDisk, WriteFailsDisk
<1>3. CASE Restart
  BY <1>3, RestartDisk
<1>4. CASE \/ \E p \in Peer : \/ \E u \in User : AuthPeer(p, u)
                              \/ DropPeer(p)
                              \/ \E cell \in Editable : Edit(p, cell)
           \/ SimCommand
           \/ UNCHANGED vars
  <2>1. UNCHANGED <<claims, files, tmps, writes, astray>>
    BY <1>4 DEF AuthPeer, DropPeer, Edit, Request, SimCommand, vars, hub_vars, disk_vars
  <2> QED BY <2>1 DEF DiskInv, UniqueIds, UserDisk, Newest, First, Intended, SameAt
<1> QED BY <1>1, <1>2, <1>3, <1>4 DEF Next

(***************************************************************************)
(* A user's file holds the user's claim when the tasks spawned for it      *)
(* (claims.rs) are done, if they ran in order and none failed, although    *)
(* all of them share one temporary file (claim_store.rs) and a restart may *)
(* leave one behind.                                                       *)
(***************************************************************************)
THEOREM FilesFollow == Spec => []DiskFollows
<1>1. Init => DiskInv
  BY SameAtSelf DEF Init, DiskInv, UniqueIds, UserDisk
<1>2. DiskInv => DiskFollows
  BY DEF DiskInv, UserDisk, DiskFollows
<1> QED BY <1>1, <1>2, TypeCorrect, NextDisk, PTL DEF Spec

=============================================================================
