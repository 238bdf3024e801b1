------------------------------- MODULE Cells -------------------------------
(***************************************************************************)
(* The Cells registry of auraed (runtime/cell_service/cells/cells.rs): an  *)
(* in-memory cache CellName -> Cell that treats the cgroup filesystem as   *)
(* ground truth and reconciles against it on every call.                   *)
(*                                                                         *)
(* Every public method takes &mut self and runs without an await, so each  *)
(* one is a single atomic step.  The Cell it manages (cells/cell.rs, not   *)
(* in this source tree) is modelled from its documented contract: its      *)
(* state Unallocated -> Allocated -> Freed, and the cgroup it creates and  *)
(* destroys.  The cgroup filesystem is shared with the rest of the host:   *)
(* an operator may delete a cgroup, and foreign code may create one.       *)
(***************************************************************************)
EXTENDS Naturals, FiniteSets

CONSTANTS Names   \* the single-segment CellNames this agent is asked about

ASSUME NamesAssumption == IsFiniteSet(Names) /\ Names # {}

VARIABLES
  cache,    \* cache[n]: the state of the Cell cached under n, or Absent
  cgroup,   \* cgroup[n]: the cgroup directory of n: "none", or made by
            \* this agent ("ours"), or made out-of-band ("foreign"); the
            \* code can only ask whether it exists
  ret       \* what the last Cells method returned

vars == <<cache, cgroup, ret>>

Absent == "absent"

CellStates == {"unallocated", "allocated", "freed"}

CgroupStates == {"none", "ours", "foreign"}

\* Ok and the CellsError variants the registry methods can return;
\* AllocateFailed and FreeFailed stand for every error of Cell::allocate
\* (cgroup, controller or isolation failure) and of Cell::free.
Results == {"Ok", "CellExists", "CgroupIsNotACell", "CellNotFound",
            "CgroupNotFound", "CellNotAllocated", "AllocateFailed",
            "FreeFailed"}

\* Cgroup::exists(cell_name): the directory is there, whoever made it.
Exists(n) == cgroup[n] # "none"

TypeOK ==
  /\ cache \in [Names -> CellStates \cup {Absent}]
  /\ cgroup \in [Names -> CgroupStates]
  /\ ret \in Results

(* No cell is cached; cgroups left behind by foreign code or by an earlier *)
(* run of the agent may already exist, and the registry does not adopt     *)
(* them.                                                                   *)
Init ==
  /\ cache = [n \in Names |-> Absent]
  /\ cgroup \in [Names -> {"none", "foreign"}]
  /\ ret = "Ok"

-----------------------------------------------------------------------------
(* Cell::allocate on the fresh Unallocated cell: either the cgroup is      *)
(* created and the nested auraed spawned into it (Allocated), or a step    *)
(* fails, the cgroup it made is unwound, and the cell stays Unallocated.   *)
CellAllocate(n) ==
  \/ /\ cache' = [cache EXCEPT ![n] = "allocated"]
     /\ cgroup' = [cgroup EXCEPT ![n] = "ours"]
     /\ ret' = "Ok"
  \/ /\ cache' = [cache EXCEPT ![n] = "unallocated"]
     /\ ret' = "AllocateFailed"
     /\ UNCHANGED cgroup

(* The outcomes of Cell::free on a cell in state s whose cgroup is g: an   *)
(* Allocated cell shuts its nested auraed down and destroys its cgroup, or *)
(* fails and is left as it was; any other cell has nothing to tear down.   *)
CellFreeOutcomes(s, g) ==
  IF s = "allocated"
    THEN {[res |-> "Ok", cg |-> "none"], [res |-> "FreeFailed", cg |-> g]}
    ELSE {[res |-> "Ok", cg |-> g]}

\* Mutant: the cgroup existence check is skipped, so a name is allocated
\* again over the cgroup it already owns.
AllocateIgnoringCgroup(n) ==
  \/ /\ Exists(n)
     /\ cache[n] = Absent
     /\ ret' = "CgroupIsNotACell"
     /\ UNCHANGED <<cache, cgroup>>
  \/ /\ ~(Exists(n) /\ cache[n] = Absent)
     /\ CellAllocate(n)

(* Cells::allocate.  An existing cgroup is refused: CellExists when it is *)
(* cached, CgroupIsNotACell when not.  Otherwise a cached entry is stale  *)
(* and replaced by a fresh Cell, which is then allocated; the entry stays *)
(* in the cache whether or not that succeeds.                             *)
Allocate(n) ==
  \/ /\ Exists(n)
     /\ ret' = IF cache[n] # Absent THEN "CellExists" ELSE "CgroupIsNotACell"
     /\ UNCHANGED <<cache, cgroup>>
  \/ /\ ~Exists(n)
     /\ CellAllocate(n)

(* Cells::handle_cgroup_does_not_exist, taking its error path: the cgroup  *)
(* is gone, so any cached entry is evicted.                                *)
HandleCgroupDoesNotExist(n) ==
  /\ ~Exists(n)
  /\ cache' = [cache EXCEPT ![n] = Absent]
  /\ ret' = IF cache[n] = Absent THEN "CellNotFound" ELSE "CgroupNotFound"
  /\ UNCHANGED cgroup

(* Cells::get / get_mut finding a cgroup that no cached cell owns.         *)
NotACell(n) ==
  /\ Exists(n)
  /\ cache[n] = Absent
  /\ ret' = "CgroupIsNotACell"
  /\ UNCHANGED <<cache, cgroup>>

(* Cells::get(n, |cell| cell.client_config()), the registry read the      *)
(* router makes before proxying: a cell that is not Allocated answers     *)
(* CellNotAllocated and is evicted.                                        *)
Get(n) ==
  \/ HandleCgroupDoesNotExist(n)
  \/ NotACell(n)
  \/ /\ Exists(n)
     /\ cache[n] # Absent
     /\ IF cache[n] = "allocated"
          THEN /\ ret' = "Ok"
               /\ UNCHANGED cache
          ELSE /\ ret' = "CellNotAllocated"
               /\ cache' = [cache EXCEPT ![n] = Absent]
     /\ UNCHANGED cgroup

\* Mutant: the error of Cell::free is ignored and the entry removed anyway.
FreeIgnoringCellError(n) ==
  /\ Exists(n)
  /\ cache[n] # Absent
  /\ \E o \in CellFreeOutcomes(cache[n], cgroup[n]) :
       /\ cgroup' = [cgroup EXCEPT ![n] = o.cg]
       /\ cache' = [cache EXCEPT ![n] = Absent]
       /\ ret' = o.res

(* Cells::get_mut(n, |cell| cell.free()) on a cached cell whose cgroup   *)
(* exists, followed by Cells::free's removal of the entry, which runs      *)
(* only when Cell::free succeeded.                                        *)
FreeCached(n) ==
  /\ Exists(n)
  /\ cache[n] # Absent
  /\ \E o \in CellFreeOutcomes(cache[n], cgroup[n]) :
       /\ cgroup' = [cgroup EXCEPT ![n] = o.cg]
       /\ cache' = IF o.res = "Ok" THEN [cache EXCEPT ![n] = Absent]
                                   ELSE cache
       /\ ret' = o.res

(* Cells::free: reconcile, then Cell::free through get_mut, and remove the *)
(* entry only when that succeeded.                                         *)
Free(n) ==
  \/ HandleCgroupDoesNotExist(n)
  \/ NotACell(n)
  \/ FreeCached(n)

(* CellService::free_all: under one lock, Cells::broadcast_free then       *)
(* Cells::broadcast_kill.  broadcast_free removes the cells whose free     *)
(* succeeded (graceful, or not Allocated); Cell::kill swallows its errors  *)
(* and destroys the cgroup unconditionally, so broadcast_kill removes the  *)
(* rest.                                                                   *)
FreeAll ==
  \E graceful \in SUBSET {n \in Names : cache[n] = "allocated"} :
    LET afterFree == [n \in Names |->
                        IF cache[n] = "allocated" /\ n \notin graceful
                          THEN cache[n] ELSE Absent]
        cgAfterFree == [n \in Names |->
                          IF n \in graceful THEN "none" ELSE cgroup[n]]
    IN /\ cache' = [n \in Names |-> Absent]
       /\ cgroup' = [n \in Names |->
                       IF afterFree[n] = "allocated" THEN "none"
                                                     ELSE cgAfterFree[n]]
       /\ ret' = "Ok"

-----------------------------------------------------------------------------
(* The host: foreign code creates a cgroup at a cell's path, or an         *)
(* operator removes one.  Neither goes through the registry.               *)
ExternalCreate(n) ==
  /\ ~Exists(n)
  /\ cgroup' = [cgroup EXCEPT ![n] = "foreign"]
  /\ UNCHANGED <<cache, ret>>

ExternalDelete(n) ==
  /\ Exists(n)
  /\ cgroup' = [cgroup EXCEPT ![n] = "none"]
  /\ UNCHANGED <<cache, ret>>

Next ==
  \/ \E n \in Names :
       \/ Allocate(n)
       \/ Free(n)
       \/ Get(n)
       \/ ExternalCreate(n)
       \/ ExternalDelete(n)
  \/ FreeAll

Spec == Init /\ [][Next]_vars

-----------------------------------------------------------------------------
(* No leaked cgroup: every cgroup this agent created is owned by an        *)
(* Allocated cell in the cache, so Free or free_all can still tear it      *)
(* down.  Failed frees, failed allocations, stale entries and the          *)
(* shutdown broadcast must all keep the cache and the filesystem in step.  *)
NoLeakedCgroup ==
  \A n \in Names : cgroup[n] = "ours" => cache[n] = "allocated"

(* Spec section 3, I1: a name is in the registry only if its Cell was      *)
(* successfully Allocated.  Cells::allocate inserts the Cell before        *)
(* calling Cell::allocate and does not remove it when that fails.          *)
RegistryMembersAllocated ==
  \A n \in Names : cache[n] \in {Absent, "allocated"}

(* Spec section 3, I3: the agent never operates on a foreign cgroup; it    *)
(* answers CgroupIsNotACell.  Only the host may remove a foreign cgroup.   *)
ForeignCgroupPreserved ==
  [][\A n \in Names :
       (cgroup[n] = "foreign" /\ cgroup'[n] = "none") => ExternalDelete(n)]_vars

-----------------------------------------------------------------------------
(* The refinement mapping: a name owns a cell when its cgroup is this     *)
(* agent's, and is registered when the cache holds an entry for it.       *)
OwnedCells == {n \in Names : cgroup[n] = "ours"}

Registered == {n \in Names : cache[n] # Absent}

AC == INSTANCE AbstractCells WITH cells <- OwnedCells, registry <- Registered

(* The registry implements its abstract specification: Allocate creates   *)
(* a cell only under a name whose cgroup is not already the agent's; an   *)
(* eviction, a failed allocation or a free of a cell that owns nothing    *)
(* never touches an owned cgroup; only Free, free_all and the host remove *)
(* one; and free_all empties both the registry and the agent's cgroups.   *)
CellsRefinesAbstract == AC!ASpec

=============================================================================
