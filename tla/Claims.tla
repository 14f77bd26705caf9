------------------------------- MODULE Claims --------------------------------
(***************************************************************************)
(* Claims: users reserve rectangles of chunks.  The hub keeps the registry *)
(* (server/src/claims.rs), tells the sim which chunks to isolate, and      *)
(* leaves the writing of each change to a detached task on the claim store *)
(* (server/src/claim_store.rs).  A restart loads what is on disk.          *)
(***************************************************************************)
EXTENDS Regions, Sequences, FiniteSets, Functions

CONSTANTS
  Peer,          \* connections; a peer that left may come back as a new one
  Site,          \* bound: coords somebody may claim
  Editable,      \* bound: cells somebody may edit
  MaxRequests,   \* bound: requests of a behaviour
  MaxRestarts    \* bound: restarts of a behaviour

ASSUME SiteAssumption == Site \subseteq ChunkCoord
ASSUME EditAssumption == Editable \subseteq Cell
ASSUME BoundAssumption == MaxRequests \in Nat /\ MaxRestarts \in Nat

VARIABLES
  claims,        \* hub: ClaimManager::claims, at most one per user
  peer_user,     \* hub: who a peer is, NoUser for an anonymous one
  sim_cmd,       \* commands from the hub to the sim
  sim_owned,     \* sim: the world's owned chunks
  files,         \* disk: the claim in each user's file
  tmps,          \* disk: the claim in each user's temporary file
  writes,        \* detached tasks that have not finished
  requests,      \* requests so far: the next task's number
  restarts,      \* restarts so far
  in_force,      \* history: the claims behind sim_owned
  clean,         \* history: the files of the last start did not overlap
  astray         \* history: users whose writes failed or ran out of order

hub_vars     == <<claims, peer_user>>
sim_vars     == <<sim_cmd, sim_owned, in_force>>
disk_vars    == <<files, tmps, writes, astray>>
history_vars == <<clean, restarts>>
vars == <<hub_vars, sim_vars, disk_vars, history_vars, requests>>

\* Partial functions from users to coords: a registry, or a directory.
Registry == UNION {[S -> Site] : S \in SUBSET User}
NoClaims == [u \in {} |-> <<0, 0>>]
With(f, u, c) == [v \in DOMAIN f \cup {u} |-> IF v = u THEN c ELSE f[v]]
Without(f, u) == Restrict(f, DOMAIN f \ {u})
SameAt(f, g, u) == (u \in DOMAIN f <=> u \in DOMAIN g) /\ (u \in DOMAIN f => f[u] = g[u])

\* The world isolates static locked chunks, too.
ToIsolate(C) == LockedChunks \cup OwnedChunks(C)

\* SetOwned names chunks only; `law`, the claims behind them, and `by`, who
\* made an edit, are kept for the properties.
SetOwned(owned, law) == [type |-> "SetOwned", owned |-> owned, law |-> law]
EditOf(p, u)         == [type |-> "Edit", cell |-> p, by |-> u]
SimCmd ==
  [type: {"SetOwned"}, owned: SUBSET ChunkCoord, law: Registry]
    \cup [type: {"Edit"}, cell: Editable, by: User \cup {NoUser}]

Put(u, c) == [id |-> requests, user |-> u, op |-> "put", coord |-> c, written |-> FALSE]
Delete(u) == [id |-> requests, user |-> u, op |-> "delete", coord |-> claims[u], written |-> FALSE]
Write == [id: Nat, user: User, op: {"put", "delete"}, coord: Site, written: BOOLEAN]

\* try_create, for the regions the hub broadcasts.
MayClaim(C, u, c) == \A r \in StaticRegions \cup ClaimRegions(C) : ~Blocks(r, u, c)

\* No claim of C lies on a region that forbids it.
NoOverlap(C) ==
  \A u \in DOMAIN C :
    /\ \A r \in StaticRegions : ~Blocks(r, u, C[u])
    /\ \A v \in DOMAIN C \ {u} : CellsAt(C[u]) \cap CellsAt(C[v]) = {}

\* A server that starts with no files.
Init ==
  /\ files = NoClaims
  /\ tmps = NoClaims
  /\ claims = NoClaims
  /\ peer_user = [p \in Peer |-> NoUser]
  /\ sim_cmd = << >>
  /\ sim_owned = ToIsolate(NoClaims)
  /\ in_force = NoClaims
  /\ writes = {}
  /\ clean = TRUE
  /\ astray = {}
  /\ requests = 0
  /\ restarts = 0

-----------------------------------------------------------------------------
(* The hub. *)

\* AuthPeer: a session cookie was valid when the socket was opened.
AuthPeer(p, u) ==
  /\ peer_user[p] = NoUser
  /\ peer_user' = [peer_user EXCEPT ![p] = u]
  /\ UNCHANGED <<claims, sim_vars, disk_vars, history_vars, requests>>

\* Leave, or dropped by the hub: until the socket closes the hub still takes
\* requests from it, as from an anonymous peer.
DropPeer(p) ==
  /\ peer_user[p] # NoUser
  /\ peer_user' = [peer_user EXCEPT ![p] = NoUser]
  /\ UNCHANGED <<claims, sim_vars, disk_vars, history_vars, requests>>

Request ==
  /\ requests < MaxRequests
  /\ requests' = requests + 1
  /\ UNCHANGED <<peer_user, sim_owned, in_force, files, tmps, astray, history_vars>>

\* Mutant: the static locked chunks are not isolated any more.
UpdateClaims(C) ==
  /\ claims' = C
  /\ sim_cmd' = Append(sim_cmd, SetOwned(OwnedChunks(C), C))

\* apply_claims_update, with the change itself.
ApplyClaims(C) ==
  /\ claims' = C
  /\ sim_cmd' = Append(sim_cmd, SetOwned(ToIsolate(C), C))

\* Mutant: anonymous peers may claim.
ClaimCreateAnonymous(p, c) ==
  LET u == peer_user[p]
  IN /\ Request
     /\ MayClaim(claims, u, c)
     /\ writes' = writes \cup {Put(u, c)}
     /\ ApplyClaims(With(claims, u, c))

\* A claim is placed or moved.  (Refused requests change nothing.)
ClaimCreate(p, c) ==
  LET u == peer_user[p]
  IN /\ Request
     /\ u # NoUser
     /\ MayClaim(claims, u, c)
     /\ writes' = writes \cup {Put(u, c)}
     /\ ApplyClaims(With(claims, u, c))

\* Mutant: the file stays.
ClaimDeleteForgetful(p) ==
  LET u == peer_user[p]
  IN /\ Request
     /\ u \in DOMAIN claims
     /\ ApplyClaims(Without(claims, u))
     /\ UNCHANGED writes

ClaimDelete(p) ==
  LET u == peer_user[p]
  IN /\ Request
     /\ u \in DOMAIN claims
     /\ writes' = writes \cup {Delete(u)}
     /\ ApplyClaims(Without(claims, u))

\* Mutant: judged by the claims the sim isolates at this moment.
EditByLaw(p, cell) ==
  /\ Request
  /\ CanEdit(in_force, cell, peer_user[p])
  /\ sim_cmd' = Append(sim_cmd, EditOf(cell, peer_user[p]))
  /\ UNCHANGED <<claims, writes>>

\* Cells the sender may not edit are filtered out here; the sim asks nobody.
Edit(p, cell) ==
  /\ Request
  /\ CanEdit(claims, cell, peer_user[p])
  /\ sim_cmd' = Append(sim_cmd, EditOf(cell, peer_user[p]))
  /\ UNCHANGED <<claims, writes>>

-----------------------------------------------------------------------------
(* The sim, which takes its commands in order. *)

SimCommand ==
  /\ sim_cmd # << >>
  /\ sim_cmd' = Tail(sim_cmd)
  /\ IF Head(sim_cmd).type = "SetOwned"
     THEN sim_owned' = Head(sim_cmd).owned /\ in_force' = Head(sim_cmd).law
     ELSE UNCHANGED <<sim_owned, in_force>>
  /\ UNCHANGED <<hub_vars, disk_vars, history_vars, requests>>

-----------------------------------------------------------------------------
(* The detached tasks: they run concurrently and in no order. *)

Task ==
  UNCHANGED <<hub_vars, sim_vars, history_vars, requests>>

\* A step of w goes astray if a task for the same file was spawned before it.
Overtaken(w) == {w.user : v \in {v \in writes : v.user = w.user /\ v.id < w.id}}

\* Mutant: a temporary file left behind is in the way.
WriteTmpExclusive(w) ==
  /\ w.op = "put" /\ ~w.written
  /\ w.user \notin DOMAIN tmps
  /\ tmps' = With(tmps, w.user, w.coord)
  /\ writes' = (writes \ {w}) \cup {[w EXCEPT !.written = TRUE]}
  /\ astray' = astray \cup Overtaken(w)
  /\ UNCHANGED files
  /\ Task

\* put, first half: the temporary file, of which a user has one.
WriteTmp(w) ==
  /\ w.op = "put" /\ ~w.written
  /\ tmps' = With(tmps, w.user, w.coord)
  /\ writes' = (writes \ {w}) \cup {[w EXCEPT !.written = TRUE]}
  /\ astray' = astray \cup Overtaken(w)
  /\ UNCHANGED files
  /\ Task

\* put, second half.  Another task may have renamed the file away: an error,
\* which is logged.
Rename(w) ==
  /\ w.op = "put" /\ w.written
  /\ IF w.user \in DOMAIN tmps
     THEN /\ files' = With(files, w.user, tmps[w.user])
          /\ tmps' = Without(tmps, w.user)
     ELSE UNCHANGED <<files, tmps>>
  /\ writes' = writes \ {w}
  /\ astray' = astray \cup Overtaken(w)
  /\ Task

\* delete; a file that is not there is fine.
Remove(w) ==
  /\ w.op = "delete"
  /\ files' = Without(files, w.user)
  /\ writes' = writes \ {w}
  /\ astray' = astray \cup Overtaken(w)
  /\ UNCHANGED tmps
  /\ Task

\* Any other I/O error is logged and nothing is tried again.
WriteFails(w) ==
  /\ writes' = writes \ {w}
  /\ astray' = astray \cup {w.user}
  /\ UNCHANGED <<files, tmps>>
  /\ Task

\* The process dies, with its detached tasks, and starts again: the files are
\* loaded and the world is told which chunks they cover.
Restart ==
  /\ restarts < MaxRestarts
  /\ restarts' = restarts + 1
  /\ claims' = files
  /\ peer_user' = [p \in Peer |-> NoUser]
  /\ sim_cmd' = << >>
  /\ sim_owned' = ToIsolate(files)
  /\ in_force' = files
  /\ writes' = {}
  /\ clean' = NoOverlap(files)
  /\ astray' = {}
  /\ UNCHANGED <<files, tmps, requests>>

-----------------------------------------------------------------------------
Next ==
  \/ \E p \in Peer :
       \/ \E u \in User : AuthPeer(p, u)
       \/ DropPeer(p)
       \/ \E c \in Site : ClaimCreate(p, c)
       \/ ClaimDelete(p)
       \/ \E cell \in Editable : Edit(p, cell)
  \/ SimCommand
  \/ \E w \in writes : WriteTmp(w) \/ Rename(w) \/ Remove(w) \/ WriteFails(w)
  \/ Restart

Spec == Init /\ [][Next]_vars

\* The sim takes its commands, and spawned tasks run to their end.
FairSpec ==
  /\ Spec
  /\ WF_vars(SimCommand)
  /\ WF_vars(\E w \in writes : WriteTmp(w) \/ Rename(w) \/ Remove(w))

-----------------------------------------------------------------------------
TypeOK ==
  /\ claims \in Registry
  /\ files \in Registry
  /\ tmps \in Registry
  /\ peer_user \in [Peer -> User \cup {NoUser}]
  /\ sim_cmd \in Seq(SimCmd)
  /\ sim_owned \in SUBSET ChunkCoord
  /\ in_force \in Registry
  /\ writes \in SUBSET Write
  /\ \A w \in writes : w.id < requests
  /\ requests \in 0..MaxRequests
  /\ restarts \in 0..MaxRestarts
  /\ clean \in BOOLEAN
  /\ astray \in SUBSET User

(***************************************************************************)
(* region.rs: an owned region may be edited "only [by] the owner".  In a   *)
(* claim its owner may edit every cell and nobody else any, whatever was   *)
(* claimed, moved and given up before, by whom and on which connection -   *)
(* as long as the files the server started from did not overlap.           *)
(***************************************************************************)
OwnerRules ==
  clean => \A u \in DOMAIN claims : \A p \in CellsAt(claims[u]) : \A v \in User \cup {NoUser} :
             CanEdit(claims, p, v) <=> v = u

(***************************************************************************)
(* The same without the condition: region.rs and claims.rs promise it of   *)
(* every server, restarted or not.                                         *)
(***************************************************************************)
OnlyOwnerEdits ==
  \A u \in DOMAIN claims : \A p \in CellsAt(claims[u]) : \A v \in User \cup {NoUser} :
    CanEdit(claims, p, v) => v = u

\* No SetOwned among the commands from i to j.
NoneBetween(i, j) == \A k \in i..j : sim_cmd[k].type # "SetOwned"

(***************************************************************************)
(* The sim isolates the chunks of the hub's claims and the static locked   *)
(* ones, once it has taken the commands under way, restarted or not.       *)
(***************************************************************************)
SimIsolates ==
  /\ NoneBetween(1, Len(sim_cmd)) => sim_owned = ToIsolate(claims)
  /\ \A i \in 1..Len(sim_cmd) :
       sim_cmd[i].type = "SetOwned" /\ NoneBetween(i + 1, Len(sim_cmd))
         => sim_cmd[i].owned = ToIsolate(claims)

(***************************************************************************)
(* The right to edit is checked when the hub takes the request, and the    *)
(* edit is made later, when claims may have come and gone: it is still     *)
(* lawful under the claims the sim isolates when its turn comes.           *)
(***************************************************************************)
EditsLawful ==
  \A i \in 1..Len(sim_cmd) : sim_cmd[i].type = "Edit" =>
    /\ NoneBetween(1, i - 1) => CanEdit(in_force, sim_cmd[i].cell, sim_cmd[i].by)
    /\ \A k \in 1..(i - 1) :
         sim_cmd[k].type = "SetOwned" /\ NoneBetween(k + 1, i - 1)
           => CanEdit(sim_cmd[k].law, sim_cmd[i].cell, sim_cmd[i].by)

(***************************************************************************)
(* A user's file holds the user's claim once the tasks spawned for it are  *)
(* done, if they ran one after the other as spawned and none failed.  A    *)
(* temporary file left behind by an earlier run is never taken for a claim.*)
(***************************************************************************)
DiskFollows ==
  \A u \in User \ astray :
    (\A w \in writes : w.user # u) => SameAt(files, claims, u)

(***************************************************************************)
(* When requests and restarts have ended, the sim comes to isolate what is *)
(* claimed and the disk comes to hold it, for good.                        *)
(***************************************************************************)
ClaimsSettle ==
  <>[](sim_owned = ToIsolate(claims) /\ \A u \in User \ astray : SameAt(files, claims, u))

=============================================================================
