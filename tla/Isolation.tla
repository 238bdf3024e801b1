----------------------------- MODULE Isolation -----------------------------
(***************************************************************************)
(* The isolation builder of a nested auraed (executables/auraed/           *)
(* isolation_controls.rs), as the spawned child runs it: setup, then       *)
(* isolate_process, then isolate_network, then exec of the nested auraed,  *)
(* which serves.  Any error is fatal to the child.                          *)
(*                                                                         *)
(* The spawn itself (clone flags, cgroup attach) is in nested_auraed.rs,   *)
(* not in this source tree; it is modelled from the spec: isolate_process  *)
(* gives the child a new mount, PID and UTS namespace.  A new mount        *)
(* namespace starts as a copy of the host's, with the host's propagation:  *)
(* its root and every submount (such as /proc) are shared with the host,   *)
(* so a mount made under a shared mount point appears on the host too.     *)
(***************************************************************************)
EXTENDS Naturals

CONSTANTS Children   \* nested auraed processes being spawned

VARIABLES
  iso,          \* iso[c]: the IsolationControls of c's CellSpec
  phase,        \* phase[c]: the step child c is at: "setup", "process",
                \* "network", "exec", "serving", or "failed" (exited)
  rootProp,     \* rootProp[c]: propagation of / in c's mount namespace
  subProp,      \* subProp[c]: propagation of the submounts under /
  procMounted,  \* procMounted[c]: a fresh proc is mounted on /proc
  hostnameSet,  \* hostnameSet[c]: c's UTS hostname is the cell name
  domainSet,    \* domainSet[c]: c's UTS domainname is the cell name
  hostLeak      \* children whose mounts propagated to the host

isoVars == <<iso, phase, rootProp, subProp, procMounted, hostnameSet,
             domainSet, hostLeak>>

\* IsolationControls { isolate_process, isolate_network }.
IsolationControls == [process : BOOLEAN, network : BOOLEAN]

Phases == {"setup", "process", "network", "exec", "serving", "failed"}

IsoTypeOK ==
  /\ iso \in [Children -> IsolationControls]
  /\ phase \in [Children -> Phases]
  /\ rootProp \in [Children -> {"shared", "private"}]
  /\ subProp \in [Children -> {"shared", "private"}]
  /\ procMounted \in [Children -> BOOLEAN]
  /\ hostnameSet \in [Children -> BOOLEAN]
  /\ domainSet \in [Children -> BOOLEAN]
  /\ hostLeak \subseteq Children

(* Each child has been cloned with the namespaces its IsolationControls   *)
(* ask for and attached to its cgroup; it inherits the host's mount       *)
(* propagation and has not run the builder yet.                            *)
IsoInit ==
  /\ iso \in [Children -> IsolationControls]
  /\ phase = [c \in Children |-> "setup"]
  /\ rootProp = [c \in Children |-> "shared"]
  /\ subProp = [c \in Children |-> "shared"]
  /\ procMounted = [c \in Children |-> FALSE]
  /\ hostnameSet = [c \in Children |-> FALSE]
  /\ domainSet = [c \in Children |-> FALSE]
  /\ hostLeak = {}

-----------------------------------------------------------------------------
\* Mutant: the bind of / is made private without MS_REC, so the submounts
\* keep the host's propagation.
SetupWithoutRec(c) ==
  /\ phase[c] = "setup"
  /\ IF ~iso[c].process
       THEN /\ phase' = [phase EXCEPT ![c] = "process"]
            /\ UNCHANGED <<rootProp, subProp>>
       ELSE \/ /\ rootProp' = [rootProp EXCEPT ![c] = "private"]
               /\ phase' = [phase EXCEPT ![c] = "process"]
               /\ UNCHANGED subProp
            \/ /\ phase' = [phase EXCEPT ![c] = "failed"]
               /\ UNCHANGED <<rootProp, subProp>>
  /\ UNCHANGED <<iso, procMounted, hostnameSet, domainSet, hostLeak>>

(* Isolation::setup: a no-op unless isolate_process; otherwise mount / on *)
(* itself with MS_PRIVATE | MS_REC, which makes / and every submount      *)
(* private, or fail with the errno (fatal to the child).                  *)
Setup(c) ==
  /\ phase[c] = "setup"
  /\ IF ~iso[c].process
       THEN /\ phase' = [phase EXCEPT ![c] = "process"]
            /\ UNCHANGED <<rootProp, subProp>>
       ELSE \/ /\ rootProp' = [rootProp EXCEPT ![c] = "private"]
               /\ subProp' = [subProp EXCEPT ![c] = "private"]
               /\ phase' = [phase EXCEPT ![c] = "process"]
            \/ /\ phase' = [phase EXCEPT ![c] = "failed"]
               /\ UNCHANGED <<rootProp, subProp>>
  /\ UNCHANGED <<iso, procMounted, hostnameSet, domainSet, hostLeak>>

(* The first k of isolate_process's three system calls (mount proc on     *)
(* /proc, sethostname, setdomainname) have succeeded.  A proc mount on a  *)
(* /proc that is still shared propagates to the host.                     *)
ProcessSteps(c, k) ==
  /\ procMounted' = [procMounted EXCEPT ![c] = k >= 1]
  /\ hostnameSet' = [hostnameSet EXCEPT ![c] = k >= 2]
  /\ domainSet' = [domainSet EXCEPT ![c] = k >= 3]
  /\ hostLeak' = IF k >= 1 /\ subProp[c] = "shared" THEN hostLeak \cup {c}
                                                     ELSE hostLeak

\* Mutant: the == -1 check after sethostname is dropped, so its failure
\* goes unnoticed and setdomainname still runs.
IsolateProcessIgnoringHostname(c) ==
  /\ phase[c] = "process"
  /\ IF ~iso[c].process
       THEN /\ phase' = [phase EXCEPT ![c] = "network"]
            /\ UNCHANGED <<procMounted, hostnameSet, domainSet, hostLeak>>
       ELSE \/ \E k \in 0..3 :
                 /\ ProcessSteps(c, k)
                 /\ phase' = [phase EXCEPT ![c] = IF k = 3 THEN "network"
                                                           ELSE "failed"]
            \/ /\ procMounted' = [procMounted EXCEPT ![c] = TRUE]
               /\ domainSet' = [domainSet EXCEPT ![c] = TRUE]
               /\ hostLeak' = IF subProp[c] = "shared" THEN hostLeak \cup {c}
                                                       ELSE hostLeak
               /\ phase' = [phase EXCEPT ![c] = "network"]
               /\ UNCHANGED hostnameSet
  /\ UNCHANGED <<iso, rootProp, subProp>>

(* Isolation::isolate_process: a no-op unless isolate_process; otherwise  *)
(* mount proc on /proc, then sethostname, then setdomainname, each to the *)
(* cell's name; the first that fails returns its error, leaving the       *)
(* earlier ones done.                                                      *)
IsolateProcess(c) ==
  /\ phase[c] = "process"
  /\ IF ~iso[c].process
       THEN /\ phase' = [phase EXCEPT ![c] = "network"]
            /\ UNCHANGED <<procMounted, hostnameSet, domainSet, hostLeak>>
       ELSE \E k \in 0..3 :
              /\ ProcessSteps(c, k)
              /\ phase' = [phase EXCEPT ![c] = IF k = 3 THEN "network"
                                                        ELSE "failed"]
  /\ UNCHANGED <<iso, rootProp, subProp>>

(* Isolation::isolate_network: the network namespace was entered at       *)
(* clone; the call only logs and returns Ok, whatever the flag.           *)
IsolateNetwork(c) ==
  /\ phase[c] = "network"
  /\ phase' = [phase EXCEPT ![c] = "exec"]
  /\ UNCHANGED <<iso, rootProp, subProp, procMounted, hostnameSet, domainSet,
                 hostLeak>>

(* The child execs the nested auraed, which starts serving RPCs.          *)
Exec(c) ==
  /\ phase[c] = "exec"
  /\ phase' = [phase EXCEPT ![c] = "serving"]
  /\ UNCHANGED <<iso, rootProp, subProp, procMounted, hostnameSet, domainSet,
                 hostLeak>>

IsoNext ==
  \E c \in Children :
    \/ Setup(c)
    \/ IsolateProcess(c)
    \/ IsolateNetwork(c)
    \/ Exec(c)

IsoSpec == IsoInit /\ [][IsoNext]_isoVars

-----------------------------------------------------------------------------
(* The spec's namespace entry ordering: a cell's mounts never leak into   *)
(* the host.  Setup's recursive private rebind must have taken effect on  *)
(* /proc before isolate_process mounts proc there, in every child,        *)
(* whatever its flags and wherever a step fails.                          *)
HostMountsUntouched == hostLeak = {}

(* A nested auraed of a process-isolated cell serves only once the whole  *)
(* builder has succeeded: / private, a fresh /proc, and hostname and      *)
(* domainname set to the cell's name.  A failure at any step must stop    *)
(* the child before exec.                                                  *)
ServesFullyIsolated ==
  \A c \in Children :
    (phase[c] = "serving" /\ iso[c].process) =>
      /\ rootProp[c] = "private" /\ subProp[c] = "private"
      /\ procMounted[c] /\ hostnameSet[c] /\ domainSet[c]

=============================================================================
