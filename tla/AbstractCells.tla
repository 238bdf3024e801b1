--------------------------- MODULE AbstractCells ---------------------------
(***************************************************************************)
(* What the Cells registry promises, without the Cell, the cache entries'  *)
(* states or the cgroup filesystem's foreign directories: a set of names   *)
(* that own a cgroup this agent made, inside the set of names the          *)
(* registry holds.  A cell comes into being only fresh, leaves only        *)
(* through Free, a shutdown or the host, and the registry forgets a name   *)
(* only when it owns nothing.                                              *)
(***************************************************************************)
CONSTANTS Names

VARIABLES
  cells,     \* names that own a cgroup this agent created
  registry   \* names the registry holds an entry for

avars == <<cells, registry>>

AInit == cells = {} /\ registry = {}

(* A fresh cell is allocated under a name that owns nothing.               *)
AAllocate(n) ==
  /\ n \notin cells
  /\ cells' = cells \cup {n}
  /\ registry' = registry \cup {n}

(* An entry that owns nothing is recorded (an allocation that failed).     *)
ARecord(n) ==
  /\ n \notin cells
  /\ registry' = registry \cup {n}
  /\ UNCHANGED cells

(* An entry that owns nothing is forgotten.                                *)
AForget(n) ==
  /\ n \notin cells
  /\ registry' = registry \ {n}
  /\ UNCHANGED cells

(* A cell is freed: its cgroup goes, and so does its entry.                *)
AFree(n) ==
  /\ n \in cells
  /\ cells' = cells \ {n}
  /\ registry' = registry \ {n}

(* The host removes a cell's cgroup behind the registry's back.            *)
AVanish(n) ==
  /\ n \in cells
  /\ cells' = cells \ {n}
  /\ UNCHANGED registry

(* Shutdown leaves nothing behind.                                         *)
AFreeAll ==
  /\ cells' = {}
  /\ registry' = {}

ANext ==
  \/ \E n \in Names :
       AAllocate(n) \/ ARecord(n) \/ AForget(n) \/ AFree(n) \/ AVanish(n)
  \/ AFreeAll

ASpec == AInit /\ [][ANext]_avars

=============================================================================
