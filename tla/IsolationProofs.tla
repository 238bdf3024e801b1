-------------------------- MODULE IsolationProofs --------------------------
(***************************************************************************)
(* Proofs about the isolation builder, for every set of spawned children   *)
(* and every combination of their IsolationControls and failures.         *)
(***************************************************************************)
EXTENDS Isolation, TLAPS

(* What each finished step leaves behind in a process-isolated child:    *)
(* past setup, / and its submounts are private; past isolate_process,    *)
(* /proc, hostname and domainname are done.                                *)
StepsDone ==
  \A c \in Children :
    /\ iso[c].process /\ phase[c] \in {"process", "network", "exec", "serving"}
         => rootProp[c] = "private" /\ subProp[c] = "private"
    /\ iso[c].process /\ phase[c] \in {"network", "exec", "serving"}
         => procMounted[c] /\ hostnameSet[c] /\ domainSet[c]

IsoIInv == IsoTypeOK /\ StepsDone /\ HostMountsUntouched

(* Each builder step of a child keeps the inductive invariant.             *)
LEMMA IsoIInvNext == IsoIInv /\ [IsoNext]_isoVars => IsoIInv'
<1> SUFFICES ASSUME IsoIInv, [IsoNext]_isoVars PROVE IsoIInv'
  OBVIOUS
<1> USE DEF IsoIInv, IsoTypeOK, StepsDone, HostMountsUntouched,
           IsolationControls, Phases
<1>1. ASSUME NEW c \in Children, Setup(c) PROVE IsoIInv'
  BY <1>1 DEF Setup
<1>2. ASSUME NEW c \in Children, IsolateProcess(c) PROVE IsoIInv'
  <2>1. CASE ~iso[c].process
    BY <1>2, <2>1 DEF IsolateProcess
  <2>2. CASE iso[c].process
    <3>1. subProp[c] = "private"
      BY <1>2, <2>2 DEF IsolateProcess
    <3>2. PICK k \in 0..3 :
            /\ ProcessSteps(c, k)
            /\ phase' = [phase EXCEPT ![c] = IF k = 3 THEN "network"
                                                      ELSE "failed"]
      BY <1>2, <2>2 DEF IsolateProcess
    <3>3. QED
      BY <1>2, <3>1, <3>2 DEF IsolateProcess, ProcessSteps
  <2>3. QED
    BY <2>1, <2>2
<1>3. ASSUME NEW c \in Children, IsolateNetwork(c) \/ Exec(c) PROVE IsoIInv'
  BY <1>3 DEF IsolateNetwork, Exec
<1>4. CASE UNCHANGED isoVars
  BY <1>4 DEF isoVars
<1>5. QED
  BY <1>1, <1>2, <1>3, <1>4 DEF IsoNext

(* A freshly cloned child, before the builder, satisfies the invariant.   *)
LEMMA IsoIInvInit == IsoInit => IsoIInv
BY DEF IsoInit, IsoIInv, IsoTypeOK, StepsDone, HostMountsUntouched, Phases

(* No mount of any cell's builder ever propagates to the host, for every  *)
(* set of children: isolate_process mounts proc only after setup's        *)
(* MS_PRIVATE | MS_REC rebind has made /proc private.                     *)
THEOREM HostUntouched == IsoSpec => []HostMountsUntouched
<1>1. IsoIInv => HostMountsUntouched
  BY DEF IsoIInv
<1>2. QED
  BY IsoIInvInit, IsoIInvNext, <1>1, PTL DEF IsoSpec

(* A process-isolated nested auraed serves only after every builder step  *)
(* succeeded: a failed system call stops the child before exec.           *)
THEOREM FullyIsolated == IsoSpec => []ServesFullyIsolated
<1>1. IsoIInv => ServesFullyIsolated
  BY DEF IsoIInv, StepsDone, ServesFullyIsolated
<1>2. QED
  BY IsoIInvInit, IsoIInvNext, <1>1, PTL DEF IsoSpec

=============================================================================
