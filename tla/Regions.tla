------------------------------ MODULE Regions -------------------------------
(***************************************************************************)
(* Regions (server/src/region.rs) and the regions that claims add to them  *)
(* (server/src/claims.rs).  A region is its set of cells, its flags and    *)
(* its owner; a rectangle of the code is such a set, and two rectangles    *)
(* overlap when they share a cell.                                         *)
(***************************************************************************)
EXTENDS Integers

CONSTANTS
  CHUNK_SIZE,      \* cells along the side of a chunk: 64 in the code
  ClaimW,          \* config.claim_w_chunks and ...
  ClaimH,          \* ... config.claim_h_chunks: chunks a claim is wide and high
  User,            \* user ids
  NoUser,          \* no session, and the owner of a region that has none
  StaticRegions    \* what regions.toml holds

Flag   == {"FROZEN", "LOCKED", "OWNED"}
Cell   == Int \X Int
Region == [cells: SUBSET Cell, flags: SUBSET Flag, owner: User \cup {NoUser}]

ASSUME ChunkAssumption  == CHUNK_SIZE \in Nat \ {0}
ASSUME ExtentAssumption == ClaimW \in Nat \ {0} /\ ClaimH \in Nat \ {0}
ASSUME UserAssumption   == NoUser \notin User
ASSUME StaticAssumption ==
  \A r \in StaticRegions :
    /\ r.flags \subseteq Flag
    /\ r.owner \in User \cup {NoUser}
    /\ \A p \in r.cells : p \in Cell

ChunkCoord == Int \X Int
ChunkOf(p) == <<p[1] \div CHUNK_SIZE, p[2] \div CHUNK_SIZE>>

\* The chunks of a claim with its upper left chunk at c, and their cells.
Covered(c) == {<<c[1] + dx, c[2] + dy>> : dx \in 0..(ClaimW - 1), dy \in 0..(ClaimH - 1)}
CellsAt(c) ==
  {<<c[1] * CHUNK_SIZE + x, c[2] * CHUNK_SIZE + y>> :
     x \in 0..(ClaimW * CHUNK_SIZE - 1), y \in 0..(ClaimH * CHUNK_SIZE - 1)}

\* What claims, a partial function from users to coords, add to the regions.
ClaimRegion(u, c) == [cells |-> CellsAt(c), flags |-> {"LOCKED", "OWNED"}, owner |-> u]
ClaimRegions(claims) == {ClaimRegion(u, claims[u]) : u \in DOMAIN claims}

OwnedChunks(claims) == UNION {Covered(claims[u]) : u \in DOMAIN claims}
LockedChunks == {ChunkOf(p) : p \in UNION {r.cells : r \in {r \in StaticRegions : "LOCKED" \in r.flags}}}

-----------------------------------------------------------------------------
\* The regions of R that lock p.  The first of them in the list decides on an
\* edit.  Static regions are listed before claims; which of several regions of
\* the same kind comes first is left open.
Locking(R, p) == {r \in R : p \in r.cells /\ "LOCKED" \in r.flags}

Admits(r, u) == "OWNED" \in r.flags /\ u # NoUser /\ u = r.owner

\* can_edit: u may edit the cell p while `claims` are in force.
CanEdit(claims, p, u) ==
  LET S == Locking(StaticRegions, p)
      C == Locking(ClaimRegions(claims), p)
  IN IF S # {} THEN \E r \in S : Admits(r, u)
     ELSE C = {} \/ \E r \in C : Admits(r, u)

\* Mutant: any region with an owner may be claimed over.
BlocksOthers(r, u, c) ==
  /\ r.flags \cap {"LOCKED", "FROZEN"} # {}
  /\ "OWNED" \notin r.flags
  /\ r.cells \cap CellsAt(c) # {}

\* The region r forbids u a claim at c.
Blocks(r, u, c) ==
  /\ r.flags \cap {"LOCKED", "FROZEN"} # {}
  /\ ~("OWNED" \in r.flags /\ r.owner = u)
  /\ r.cells \cap CellsAt(c) # {}

=============================================================================
