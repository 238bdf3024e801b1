---------------------------- MODULE CellService ----------------------------
(***************************************************************************)
(* The CellService of auraed (runtime/cell_service/cell_service.rs): the   *)
(* gRPC handlers that route a cell path either to the local Cells registry *)
(* or, through do_in_cell!, to the nested auraed of the path's head cell.  *)
(*                                                                         *)
(* Each inbound RPC is a tokio task (a handler r in Reqs).  The Cells      *)
(* registry sits behind one async mutex, `lock`; do_in_cell! takes it to   *)
(* read client_config and keeps the guard until the proxied call returns. *)
(* The nested auraed of each Allocated cell runs the same service; here it *)
(* is abstracted to the child cells and executables it holds and answers   *)
(* one request at a time.  The connection to it can drop a request or its  *)
(* reply ("transport error"), which the router retries under a backoff     *)
(* budget of MaxRetries attempts.                                          *)
(***************************************************************************)
EXTENDS Cells, Sequences

CONSTANTS
  Reqs,        \* the handler tasks serving inbound RPCs
  Exes,        \* executable names
  MaxRetries,  \* retries the backoff allows before its 20 s budget is spent
  NoHolder     \* the mutex is free

ASSUME ServiceAssumption ==
  /\ MaxRetries \in Nat
  /\ NoHolder \notin Reqs

VARIABLES
  lock,         \* holder of the Cells mutex, or NoHolder
  pc,           \* pc[r]: "idle", "recv" (routing, waiting for the lock),
                \* "dial" (connecting to the nested auraed), "rpc" (proxying)
  req,          \* req[r]: the request handler r is serving
  budget,       \* budget[r]: retries left in the backoff
  chan,         \* chan[r]: the proxied call: "none", "sent", "lost", or the
                \* nested auraed's answer
  first,        \* first[r]: the nested auraed's answer to the first delivery
                \* of the current request (history), or "none"
  agentUp,      \* agentUp[n]: the nested auraed of n accepts connections
  nestedCells,  \* nestedCells[n]: cells allocated inside n's nested auraed
  nestedExes,   \* nestedExes[n]: executables running in n's nested auraed
  exes,         \* executables started by this auraed
  exeLock       \* holder of the Executables mutex, or NoHolder

svcVars == <<lock, pc, req, budget, chan, first, agentUp, nestedCells,
             nestedExes, exes, exeLock>>

allVars == <<vars, svcVars>>

CellPaths == {<<n>> : n \in Names} \cup {<<n, m>> : n, m \in Names}

ExePaths == {<<>>} \cup {<<n>> : n \in Names}

Requests ==
  [op : {"allocate", "free"}, path : CellPaths] \cup
  [op : {"start", "stop"}, path : ExePaths, exe : Exes]

NoReq == [op |-> "none", path |-> <<>>]

\* What a nested auraed answers to a request it serves locally.
NestedResults == {"Ok", "CellExists", "CellNotFound", "ExecutableExists",
                  "ExecutableNotFound"}

\* The routing rule of the CellService trait impl: Allocate and Free run
\* here when the path has no separator, Start and Stop when it is empty.
IsLocal(q) ==
  IF q.op \in {"allocate", "free"} THEN Len(q.path) = 1 ELSE q.path = <<>>

SvcTypeOK ==
  /\ TypeOK
  /\ lock \in Reqs \cup {NoHolder}
  /\ pc \in [Reqs -> {"idle", "recv", "dial", "rpc", "stopwait"}]
  /\ req \in [Reqs -> Requests \cup {NoReq}]
  /\ budget \in [Reqs -> 0..MaxRetries]
  /\ chan \in [Reqs -> {"none", "sent", "lost"} \cup NestedResults]
  /\ first \in [Reqs -> {"none"} \cup NestedResults]
  /\ agentUp \in [Names -> BOOLEAN]
  /\ nestedCells \in [Names -> SUBSET Names]
  /\ nestedExes \in [Names -> SUBSET Exes]
  /\ exes \in SUBSET Exes
  /\ exeLock \in Reqs \cup {NoHolder}

SvcInit ==
  /\ Init
  /\ lock = NoHolder
  /\ pc = [r \in Reqs |-> "idle"]
  /\ req = [r \in Reqs |-> NoReq]
  /\ budget = [r \in Reqs |-> 0]
  /\ chan = [r \in Reqs |-> "none"]
  /\ first = [r \in Reqs |-> "none"]
  /\ agentUp = [n \in Names |-> FALSE]
  /\ nestedCells = [n \in Names |-> {}]
  /\ nestedExes = [n \in Names |-> {}]
  /\ exes = {}
  /\ exeLock = NoHolder

-----------------------------------------------------------------------------
(* A registry step keeps the nested auraed of n only when n stays the same *)
(* Allocated cell; one that is freed, killed, evicted or replaced takes    *)
(* its nested auraed, with everything inside it, away.                     *)
Survives(n) ==
  /\ cache[n] = "allocated"
  /\ cache'[n] = "allocated"
  /\ cgroup'[n] = cgroup[n]

ReapNested ==
  /\ agentUp' = [n \in Names |-> agentUp[n] /\ Survives(n)]
  /\ nestedCells' = [n \in Names |-> IF Survives(n) THEN nestedCells[n] ELSE {}]
  /\ nestedExes' = [n \in Names |-> IF Survives(n) THEN nestedExes[n] ELSE {}]

\* The handler answers and its task ends; the mutex guard, if held, drops.
Finish(r) ==
  /\ pc' = [pc EXCEPT ![r] = "idle"]
  /\ req' = [req EXCEPT ![r] = NoReq]
  /\ chan' = [chan EXCEPT ![r] = "none"]
  /\ first' = [first EXCEPT ![r] = "none"]
  /\ budget' = [budget EXCEPT ![r] = 0]
  /\ lock' = IF lock = r THEN NoHolder ELSE lock

(* An inbound RPC reaches handler r (its validation is not modelled: only *)
(* requests that pass it are generated).                                  *)
Receive(r, q) ==
  /\ pc[r] = "idle"
  /\ pc' = [pc EXCEPT ![r] = "recv"]
  /\ req' = [req EXCEPT ![r] = q]
  /\ UNCHANGED <<vars, lock, budget, chan, first, agentUp, nestedCells,
                 nestedExes, exes, exeLock>>

(* CellService::allocate with a single-segment path: lock the registry,  *)
(* run Cells::allocate, answer, and drop the guard.                        *)
LocalAllocate(r) ==
  /\ pc[r] = "recv"
  /\ req[r].op = "allocate"
  /\ IsLocal(req[r])
  /\ lock = NoHolder
  /\ Allocate(req[r].path[1])
  /\ ReapNested
  /\ Finish(r)
  /\ UNCHANGED <<exes, exeLock>>

(* CellService::free with a single-segment path: lock the registry, run   *)
(* Cells::free, answer, and drop the guard.                                *)
LocalFree(r) ==
  /\ pc[r] = "recv"
  /\ req[r].op = "free"
  /\ IsLocal(req[r])
  /\ lock = NoHolder
  /\ Free(req[r].path[1])
  /\ ReapNested
  /\ Finish(r)
  /\ UNCHANGED <<exes, exeLock>>

(* CellService::start with an empty path: lock the Executables, and      *)
(* Executables::start spawns the command unless the name is taken          *)
(* (ExecutableExists); a spawn that fails records nothing.  No await while *)
(* the guard is held.                                                      *)
LocalStart(r) ==
  /\ pc[r] = "recv"
  /\ req[r].op = "start"
  /\ IsLocal(req[r])
  /\ exeLock = NoHolder
  /\ \/ exes' = exes \cup {req[r].exe}
     \/ /\ req[r].exe \notin exes
        /\ UNCHANGED exes
  /\ Finish(r)
  /\ UNCHANGED <<vars, agentUp, nestedCells, nestedExes, exeLock>>

\* Mutant: the Executables guard is not kept across the await on the
\* child's exit.
LocalStopBeginUnlocked(r) ==
  /\ pc[r] = "recv"
  /\ req[r].op = "stop"
  /\ IsLocal(req[r])
  /\ exeLock = NoHolder
  /\ IF req[r].exe \in exes
       THEN /\ pc' = [pc EXCEPT ![r] = "stopwait"]
            /\ UNCHANGED <<lock, req, budget, chan, first>>
       ELSE Finish(r)
  /\ UNCHANGED <<vars, agentUp, nestedCells, nestedExes, exes, exeLock>>

(* CellService::stop with an empty path, up to its await: lock the        *)
(* Executables; Executables::stop answers ExecutableNotFound for an       *)
(* unknown name, and otherwise signals the child and awaits its exit      *)
(* with the guard held.                                                   *)
LocalStopBegin(r) ==
  /\ pc[r] = "recv"
  /\ req[r].op = "stop"
  /\ IsLocal(req[r])
  /\ exeLock = NoHolder
  /\ IF req[r].exe \in exes
       THEN /\ exeLock' = r
            /\ pc' = [pc EXCEPT ![r] = "stopwait"]
            /\ UNCHANGED <<lock, req, budget, chan, first>>
       ELSE /\ Finish(r)
            /\ UNCHANGED exeLock
  /\ UNCHANGED <<vars, agentUp, nestedCells, nestedExes, exes>>

(* The signalled child exits and is reaped: Executables::stop removes it  *)
(* and returns; the handler answers and the guard drops.                   *)
LocalStopEnd(r) ==
  /\ pc[r] = "stopwait"
  /\ exes' = exes \ {req[r].exe}
  /\ exeLock' = IF exeLock = r THEN NoHolder ELSE exeLock
  /\ Finish(r)
  /\ UNCHANGED <<vars, agentUp, nestedCells, nestedExes>>

\* Mutant: the guard is dropped once client_config has been read, as the
\* ordering paragraph of spec section 4.6 describes.
DoInCellGetUnlocking(r) ==
  /\ pc[r] = "recv"
  /\ ~IsLocal(req[r])
  /\ lock = NoHolder
  /\ Get(req[r].path[1])
  /\ ReapNested
  /\ IF ret' = "Ok"
       THEN /\ pc' = [pc EXCEPT ![r] = "dial"]
            /\ budget' = [budget EXCEPT ![r] = MaxRetries]
            /\ UNCHANGED <<lock, req, chan, first>>
       ELSE Finish(r)
  /\ UNCHANGED <<exes, exeLock>>

(* do_in_cell!, first part: lock the registry and read the head cell's    *)
(* client_config through Cells::get.  An error returns at once (the guard *)
(* drops); on success the guard is kept for the rest of the macro.        *)
DoInCellGet(r) ==
  /\ pc[r] = "recv"
  /\ ~IsLocal(req[r])
  /\ lock = NoHolder
  /\ Get(req[r].path[1])
  /\ ReapNested
  /\ IF ret' = "Ok"
       THEN /\ lock' = r
            /\ pc' = [pc EXCEPT ![r] = "dial"]
            /\ budget' = [budget EXCEPT ![r] = MaxRetries]
            /\ UNCHANGED <<req, chan, first>>
       ELSE Finish(r)
  /\ UNCHANGED <<exes, exeLock>>

\* Mutant: a ConnectionError is retried even when the backoff is spent.
DialPastBudget(r) ==
  /\ pc[r] = "dial"
  /\ \/ /\ agentUp[req[r].path[1]]
        /\ pc' = [pc EXCEPT ![r] = "rpc"]
        /\ chan' = [chan EXCEPT ![r] = "sent"]
        /\ budget' = [budget EXCEPT ![r] = MaxRetries]
        /\ UNCHANGED <<lock, req, first>>
     \/ /\ ~agentUp[req[r].path[1]]
        /\ budget' = [budget EXCEPT ![r] = @ - 1]
        /\ UNCHANGED <<lock, pc, req, chan, first>>
     \/ /\ ~agentUp[req[r].path[1]]
        /\ budget[r] = 0
        /\ Finish(r)
     \/ Finish(r)
  /\ UNCHANGED <<vars, agentUp, nestedCells, nestedExes, exes, exeLock>>

(* do_in_cell!, the dial loop: AuraeClient::new connects when the nested  *)
(* auraed listens; a ConnectionError sleeps and retries while the backoff *)
(* allows, and is returned when it is spent; any other error returns at   *)
(* once.  Once connected, backoff::future::retry (which resets the        *)
(* backoff) sends the rewritten request.                                  *)
Dial(r) ==
  /\ pc[r] = "dial"
  /\ \/ /\ agentUp[req[r].path[1]]
        /\ pc' = [pc EXCEPT ![r] = "rpc"]
        /\ chan' = [chan EXCEPT ![r] = "sent"]
        /\ budget' = [budget EXCEPT ![r] = MaxRetries]
        /\ UNCHANGED <<lock, req, first>>
     \/ /\ ~agentUp[req[r].path[1]]
        /\ budget[r] > 0
        /\ budget' = [budget EXCEPT ![r] = @ - 1]
        /\ UNCHANGED <<lock, pc, req, chan, first>>
     \/ /\ ~agentUp[req[r].path[1]]
        /\ budget[r] = 0
        /\ Finish(r)
     \/ Finish(r)
  /\ UNCHANGED <<vars, agentUp, nestedCells, nestedExes, exes, exeLock>>

(* The trait handler of a request that is not local: validate it, split  *)
(* the path into its head cell and the rest (into_child), and put the     *)
(* rest back into the request that do_in_cell! sends to the head cell.    *)
Rewrite(q) == [q EXCEPT !.path = Tail(q.path)]

(* The nested auraed of n serves the rewritten request (path without its  *)
(* head) locally, on its own registry and executables.                    *)
NestedServe(r) ==
  LET n == req[r].path[1]
      q == Rewrite(req[r])
      res == CASE q.op = "allocate" ->
                    IF q.path[1] \in nestedCells[n] THEN "CellExists" ELSE "Ok"
               [] q.op = "free" ->
                    IF q.path[1] \in nestedCells[n] THEN "Ok" ELSE "CellNotFound"
               [] q.op = "start" ->
                    IF q.exe \in nestedExes[n] THEN "ExecutableExists" ELSE "Ok"
               [] q.op = "stop" ->
                    IF q.exe \in nestedExes[n] THEN "Ok" ELSE "ExecutableNotFound"
  IN /\ chan[r] = "sent"
     /\ chan' = [chan EXCEPT ![r] = res]
     /\ first' = [first EXCEPT ![r] = IF @ = "none" THEN res ELSE @]
     /\ nestedCells' = CASE q.op = "allocate" ->
                              [nestedCells EXCEPT ![n] = @ \cup {q.path[1]}]
                         [] q.op = "free" ->
                              [nestedCells EXCEPT ![n] = @ \ {q.path[1]}]
                         [] OTHER -> nestedCells
     /\ nestedExes' = CASE q.op = "start" -> [nestedExes EXCEPT ![n] = @ \cup {q.exe}]
                        [] q.op = "stop" -> [nestedExes EXCEPT ![n] = @ \ {q.exe}]
                        [] OTHER -> nestedExes
     /\ UNCHANGED <<vars, lock, pc, req, budget, agentUp, exes, exeLock>>

(* The connection drops the request before it is served, or its reply     *)
(* after: either way tonic reports Unknown "transport error".             *)
TransportLoss(r) ==
  /\ chan[r] \notin {"none", "lost"}
  /\ chan' = [chan EXCEPT ![r] = "lost"]
  /\ UNCHANGED <<vars, lock, pc, req, budget, first, agentUp, nestedCells,
                 nestedExes, exes, exeLock>>

\* Mutant: a transient is retried without consuming the backoff.
RpcRetryingForever(r) ==
  /\ pc[r] = "rpc"
  /\ chan[r] \notin {"none", "sent"}
  /\ \/ /\ chan[r] = "lost"
        /\ chan' = [chan EXCEPT ![r] = "sent"]
        /\ UNCHANGED <<lock, pc, req, first, budget>>
     \/ /\ chan[r] \in NestedResults
        /\ Finish(r)
  /\ UNCHANGED <<vars, agentUp, nestedCells, nestedExes, exes, exeLock>>

(* do_in_cell!, the retried call: a transport error is transient and sent *)
(* again while the backoff allows; any answer of the nested auraed, and   *)
(* the transient once the budget is is returned to the caller.     *)
RpcReturn(r) ==
  /\ pc[r] = "rpc"
  /\ chan[r] \notin {"none", "sent"}
  /\ \/ /\ chan[r] = "lost"
        /\ budget[r] > 0
        /\ budget' = [budget EXCEPT ![r] = @ - 1]
        /\ chan' = [chan EXCEPT ![r] = "sent"]
        /\ UNCHANGED <<lock, pc, req, first>>
     \/ /\ chan[r] = "lost"
        /\ budget[r] = 0
        /\ Finish(r)
     \/ /\ chan[r] \in NestedResults
        /\ Finish(r)
  /\ UNCHANGED <<vars, agentUp, nestedCells, nestedExes, exes, exeLock>>

(* The nested auraed spawned for an Allocated cell starts listening.       *)
NestedAgentReady(n) ==
  /\ cache[n] = "allocated"
  /\ ~agentUp[n]
  /\ agentUp' = [agentUp EXCEPT ![n] = TRUE]
  /\ UNCHANGED <<vars, lock, pc, req, budget, chan, first, nestedCells,
                 nestedExes, exes, exeLock>>

(* CellService::free_all at shutdown, under the registry mutex.            *)
ShutdownFreeAll ==
  /\ lock = NoHolder
  /\ FreeAll
  /\ ReapNested
  /\ UNCHANGED <<lock, pc, req, budget, chan, first, exes, exeLock>>

(* The host changes the cgroup filesystem behind the registry's back.      *)
HostChange(n) ==
  /\ ExternalCreate(n) \/ ExternalDelete(n)
  /\ UNCHANGED svcVars

Handler(r) ==
  \/ LocalAllocate(r)
  \/ LocalFree(r)
  \/ LocalStart(r)
  \/ LocalStopBegin(r)
  \/ LocalStopEnd(r)
  \/ DoInCellGet(r)
  \/ Dial(r)
  \/ RpcReturn(r)

SvcNext ==
  \/ \E r \in Reqs :
       \/ \E q \in Requests : Receive(r, q)
       \/ Handler(r)
       \/ NestedServe(r)
       \/ TransportLoss(r)
  \/ \E n \in Names : NestedAgentReady(n) \/ HostChange(n)
  \/ ShutdownFreeAll

(* tokio schedules every ready task, and its Mutex hands the guard out in *)
(* FIFO order, so a handler waiting for either lock gets it if it is free *)
(* infinitely often (strong fairness); a handler waits on at most one     *)
(* lock acquisition at a time, so one condition per mutex covers them.    *)
(* A stopped child is killed, so it exits.  A nested auraed that received *)
(* a request eventually answers it or the connection fails.               *)
HandlerFairness ==
  \A r \in Reqs :
    /\ SF_allVars(LocalAllocate(r) \/ LocalFree(r) \/ DoInCellGet(r))
    /\ SF_allVars(LocalStart(r) \/ LocalStopBegin(r))
    /\ WF_allVars(LocalStopEnd(r))
    /\ WF_allVars(Dial(r))
    /\ WF_allVars(RpcReturn(r))

SvcFairness ==
  /\ HandlerFairness
  /\ \A r \in Reqs : WF_allVars(NestedServe(r) \/ TransportLoss(r))

SvcSpec == SvcInit /\ [][SvcNext]_allVars /\ SvcFairness

(* The same router when a nested auraed may accept a call and never       *)
(* answer while the connection stays up: do_in_cell! sets no per-attempt  *)
(* timeout, so nothing but the nested auraed ends the call.               *)
SvcSpecHungNested == SvcInit /\ [][SvcNext]_allVars /\ HandlerFairness

-----------------------------------------------------------------------------
(* A proxied request only ever reaches the nested auraed of a cell that is *)
(* Allocated in this registry: between reading client_config and the end  *)
(* of the proxied call no Free, eviction or free_all can tear the cell     *)
(* down, because do_in_cell! keeps the registry guard across the call.    *)
NestedTargetAllocated ==
  \A r \in Reqs :
    (pc[r] = "rpc" /\ chan[r] = "sent") => cache[req[r].path[1]] = "allocated"

(* Spec section 8, P5: every request is answered; the backoff bounds the  *)
(* dial and retry loops, and no handler waits on the mutex forever.       *)
EveryRequestAnswered ==
  \A r \in Reqs : pc[r] # "idle" ~> pc[r] = "idle"

(* Spec sections 4.6 and 7: transport transients are invisible to the     *)
(* caller; what a proxied request returns is the nested auraed's answer   *)
(* to that request.  A retry after a lost reply re-executes it.           *)
TransientsInvisible ==
  [][\A r \in Reqs :
       (pc[r] = "rpc" /\ pc'[r] = "idle" /\ chan[r] \in NestedResults)
         => chan[r] = first[r]]_allVars

(* Spec section 4.6, Ordering: the registry mutex is not held while the   *)
(* router dials the nested auraed or waits for its answer.                *)
LockFreeWhileProxying ==
  \A r \in Reqs : pc[r] \in {"dial", "rpc"} => lock # r

(* A handler awaiting a child's exit in stop waits on an executable that  *)
(* is still recorded: the Executables guard held across the await keeps  *)
(* a concurrent stop of the same name from reaping and removing it first. *)
StopTargetRecorded ==
  \A r \in Reqs : pc[r] = "stopwait" => req[r].exe \in exes

=============================================================================
