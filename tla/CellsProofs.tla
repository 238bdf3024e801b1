---------------------------- MODULE CellsProofs ----------------------------
(***************************************************************************)
(* Proofs about the Cells registry, for every set of cell names.           *)
(***************************************************************************)
EXTENDS Cells, TLAPS

(* Every registry method and host change keeps the cache, the cgroup       *)
(* filesystem and the returned value within their types.                   *)
LEMMA TypeNext == TypeOK /\ [Next]_vars => TypeOK'
<1> SUFFICES ASSUME TypeOK, [Next]_vars PROVE TypeOK'
  OBVIOUS
<1>1. ASSUME NEW n \in Names, Allocate(n) PROVE TypeOK'
  BY <1>1 DEF Allocate, CellAllocate, TypeOK, Results, CellStates,
              CgroupStates, Absent
<1>2. ASSUME NEW n \in Names, Free(n) PROVE TypeOK'
  BY <1>2 DEF Free, FreeCached, HandleCgroupDoesNotExist, NotACell, CellFreeOutcomes,
              TypeOK, Results, CellStates, CgroupStates, Absent
<1>3. ASSUME NEW n \in Names, Get(n) PROVE TypeOK'
  BY <1>3 DEF Get, HandleCgroupDoesNotExist, NotACell, TypeOK, Results,
              CellStates, CgroupStates, Absent
<1>4. ASSUME NEW n \in Names, ExternalCreate(n) \/ ExternalDelete(n)
      PROVE TypeOK'
  BY <1>4 DEF ExternalCreate, ExternalDelete, TypeOK, CgroupStates
<1>5. CASE FreeAll
  BY <1>5 DEF FreeAll, TypeOK, Results, CellStates, CgroupStates, Absent
<1>6. CASE UNCHANGED vars
  BY <1>6 DEF vars, TypeOK
<1>7. QED
  BY <1>1, <1>2, <1>3, <1>4, <1>5, <1>6 DEF Next

(* The type invariant of the registry.                                     *)
THEOREM TypeCorrect == Spec => []TypeOK
<1>1. Init => TypeOK
  BY DEF Init, TypeOK, CgroupStates, CellStates, Results, Absent
<1>2. QED
  BY <1>1, TypeNext, PTL DEF Spec

-----------------------------------------------------------------------------
(* The inductive invariant: NoLeakedCgroup under the type invariant.  No  *)
(* further strengthening is needed: each registry method decides from the *)
(* existence of one name's cgroup and its cached state, and free_all      *)
(* treats every name alike.                                               *)
IInv == TypeOK /\ NoLeakedCgroup

LEMMA LeakNext == IInv /\ [Next]_vars => NoLeakedCgroup'
<1> SUFFICES ASSUME IInv, [Next]_vars PROVE NoLeakedCgroup'
  OBVIOUS
<1> USE DEF IInv, TypeOK, NoLeakedCgroup, Absent
<1>1. ASSUME NEW n \in Names, Allocate(n) PROVE NoLeakedCgroup'
  BY <1>1 DEF Allocate, CellAllocate, Exists
<1>2. ASSUME NEW n \in Names, Free(n) PROVE NoLeakedCgroup'
  BY <1>2 DEF Free, FreeCached, HandleCgroupDoesNotExist, NotACell, CellFreeOutcomes,
              Exists
<1>3. ASSUME NEW n \in Names, Get(n) PROVE NoLeakedCgroup'
  BY <1>3 DEF Get, HandleCgroupDoesNotExist, NotACell, Exists
<1>4. ASSUME NEW n \in Names, ExternalCreate(n) \/ ExternalDelete(n)
      PROVE NoLeakedCgroup'
  BY <1>4 DEF ExternalCreate, ExternalDelete, Exists
<1>5. CASE FreeAll
  BY <1>5 DEF FreeAll
<1>6. CASE UNCHANGED vars
  BY <1>6 DEF vars
<1>7. QED
  BY <1>1, <1>2, <1>3, <1>4, <1>5, <1>6 DEF Next

(* The agent starts with an empty cache, so nothing it made can leak.     *)
LEMMA CellsIInvInit == Init => IInv
BY DEF Init, IInv, TypeOK, NoLeakedCgroup, CgroupStates, CellStates,
       Results, Absent

(* Every registry method and host change keeps the inductive invariant.   *)
LEMMA CellsIInvNext == IInv /\ [Next]_vars => IInv'
BY LeakNext, TypeNext DEF IInv

(* No leaked cgroup, for every set of names: every cgroup the agent       *)
(* created belongs to an Allocated cell of the registry, whatever mix of  *)
(* failed allocations, failed frees, evictions, host changes and shutdown *)
(* broadcasts came before.                                                *)
THEOREM NoLeak == Spec => []NoLeakedCgroup
<1>1. IInv => NoLeakedCgroup
  BY DEF IInv
<1>2. QED
  BY CellsIInvInit, CellsIInvNext, <1>1, PTL DEF Spec

-----------------------------------------------------------------------------
(* Spec section 8, P6: after free_all the registry is empty and no cgroup *)
(* this agent made is left, whichever cells freed gracefully: the ones    *)
(* that did not are killed, and no other cell owns a cgroup.              *)
LEMMA FreeAllEmpties ==
  ASSUME IInv, FreeAll
  PROVE  /\ \A n \in Names : cache'[n] = Absent
         /\ \A n \in Names : cgroup'[n] # "ours"
<1>1. PICK graceful \in SUBSET {n \in Names : cache[n] = "allocated"} :
        /\ cache' = [n \in Names |-> Absent]
        /\ cgroup' = [n \in Names |->
                        IF cache[n] = "allocated" /\ n \notin graceful
                          THEN "none"
                          ELSE IF n \in graceful THEN "none" ELSE cgroup[n]]
  BY DEF FreeAll, Absent
<1>2. \A n \in Names : cgroup[n] = "ours" => cache[n] = "allocated"
  BY DEF IInv, NoLeakedCgroup
<1>3. QED
  BY <1>1, <1>2

(* The registry starts empty and owns nothing.                            *)
LEMMA RefineInit == Init => AC!AInit
BY DEF Init, AC!AInit, OwnedCells, Registered, Absent

(* Each registry step is a step of the abstract registry, or leaves the   *)
(* owned and registered names alone.  NoLeakedCgroup is what makes an     *)
(* eviction, or a free of a cell that is not Allocated, a step that owns  *)
(* nothing, and what makes free_all reach every owned cgroup.             *)
LEMMA RefineNext ==
  IInv /\ [Next]_vars => [AC!ANext]_AC!avars
<1> SUFFICES ASSUME IInv, [Next]_vars
             PROVE  [AC!ANext]_AC!avars
  OBVIOUS
<1> USE DEF IInv, TypeOK, NoLeakedCgroup, Absent, OwnedCells, Registered,
            AC!avars
<1>1. ASSUME NEW n \in Names, Allocate(n)
      PROVE  [AC!ANext]_AC!avars
  <2>1. CASE Exists(n)
    BY <1>1, <2>1 DEF Allocate
  <2>2. CASE ~Exists(n) /\ ret' = "Ok"
    <3>1. AC!AAllocate(n)
      BY <1>1, <2>2 DEF Allocate, CellAllocate, Exists, AC!AAllocate
    <3>2. QED
      BY <3>1 DEF AC!ANext
  <2>3. CASE ~Exists(n) /\ ret' # "Ok"
    <3>1. AC!ARecord(n)
      BY <1>1, <2>3 DEF Allocate, CellAllocate, Exists, AC!ARecord
    <3>2. QED
      BY <3>1 DEF AC!ANext
  <2>4. QED
    BY <2>1, <2>2, <2>3
<1>2. ASSUME NEW n \in Names, HandleCgroupDoesNotExist(n)
      PROVE  AC!AForget(n)
  BY <1>2 DEF HandleCgroupDoesNotExist, Exists, AC!AForget
<1>3. ASSUME NEW n \in Names, Get(n)
      PROVE  [AC!ANext]_AC!avars
  <2>1. CASE HandleCgroupDoesNotExist(n)
    BY <1>2, <2>1 DEF AC!ANext
  <2>2. CASE NotACell(n)
    BY <2>2 DEF NotACell
  <2>3. CASE Exists(n) /\ cache[n] = "allocated" /\ cache' = cache
              /\ UNCHANGED cgroup
    BY <2>3
  <2>4. CASE Exists(n) /\ cache[n] \notin {Absent, "allocated"}
              /\ cache' = [cache EXCEPT ![n] = Absent] /\ UNCHANGED cgroup
    <3>1. AC!AForget(n)
      BY <2>4 DEF AC!AForget
    <3>2. QED
      BY <3>1 DEF AC!ANext
  <2>5. QED
    BY <1>3, <2>1, <2>2, <2>3, <2>4 DEF Get
<1>4. ASSUME NEW n \in Names, Free(n)
      PROVE  [AC!ANext]_AC!avars
  <2>1. CASE HandleCgroupDoesNotExist(n)
    BY <1>2, <2>1 DEF AC!ANext
  <2>2. CASE NotACell(n)
    BY <2>2 DEF NotACell
  <2>3. CASE FreeCached(n)
    <3>1. PICK o \in CellFreeOutcomes(cache[n], cgroup[n]) :
                  /\ cgroup' = [cgroup EXCEPT ![n] = o.cg]
                  /\ cache' = IF o.res = "Ok" THEN [cache EXCEPT ![n] = Absent]
                                              ELSE cache
      BY <2>3 DEF FreeCached
    <3>2. CASE o.res # "Ok"
      BY <3>1, <3>2 DEF CellFreeOutcomes
    <3>3. CASE o.res = "Ok" /\ cgroup[n] = "ours"
      <4>1. AC!AFree(n)
        BY <2>3, <3>1, <3>3 DEF FreeCached, CellFreeOutcomes, AC!AFree
      <4>2. QED
        BY <4>1 DEF AC!ANext
    <3>4. CASE o.res = "Ok" /\ cgroup[n] # "ours"
      <4>1. AC!AForget(n)
        BY <2>3, <3>1, <3>4 DEF FreeCached, CellFreeOutcomes, AC!AForget
      <4>2. QED
        BY <4>1 DEF AC!ANext
    <3>5. QED
      BY <3>2, <3>3, <3>4
  <2>4. QED
    BY <1>4, <2>1, <2>2, <2>3 DEF Free
<1>5. ASSUME NEW n \in Names, ExternalCreate(n)
      PROVE  [AC!ANext]_AC!avars
  BY <1>5 DEF ExternalCreate, Exists
<1>6. ASSUME NEW n \in Names, ExternalDelete(n)
      PROVE  [AC!ANext]_AC!avars
  <2>1. CASE cgroup[n] = "ours"
    <3>1. AC!AVanish(n)
      BY <1>6, <2>1 DEF ExternalDelete, AC!AVanish
    <3>2. QED
      BY <3>1 DEF AC!ANext
  <2>2. CASE cgroup[n] # "ours"
    BY <1>6, <2>2 DEF ExternalDelete
  <2>3. QED
    BY <2>1, <2>2
<1>7. CASE FreeAll
  <2>1. AC!AFreeAll
    BY <1>7, FreeAllEmpties DEF AC!AFreeAll
  <2>2. QED
    BY <2>1 DEF AC!ANext
<1>8. CASE UNCHANGED vars
  BY <1>8 DEF vars
<1>9. QED
  BY <1>1, <1>3, <1>4, <1>5, <1>6, <1>7, <1>8 DEF Next

(* The registry implements its abstract specification under the mapping   *)
(* OwnedCells / Registered, for every set of names: every Cells method    *)
(* and every change the host makes is an abstract step or a stutter.      *)
THEOREM Refinement == Spec => CellsRefinesAbstract
BY RefineInit, CellsIInvInit, CellsIInvNext, RefineNext, PTL
   DEF Spec, CellsRefinesAbstract, AC!ASpec

=============================================================================
