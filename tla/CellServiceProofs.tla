------------------------- MODULE CellServiceProofs -------------------------
(***************************************************************************)
(* Proofs about the CellService router, for every set of handlers, cell    *)
(* names, executables and every retry budget.                              *)
(***************************************************************************)
EXTENDS CellService, CellsProofs

(* The shape of a handler's state: a busy handler serves a validated       *)
(* request, a handler dialling or proxying serves a nested one, and a call *)
(* is in flight only while proxying.                                       *)
Shape ==
  \A r \in Reqs :
    /\ pc[r] # "idle" => req[r] \in Requests
    /\ pc[r] \in {"dial", "rpc"} => ~IsLocal(req[r])
    /\ chan[r] # "none" => pc[r] = "rpc"
    /\ pc[r] = "stopwait" => req[r].op = "stop" /\ IsLocal(req[r])

(* Whoever holds the registry mutex is dialling or proxying.               *)
LockHeld ==
  lock # NoHolder => pc[lock] \in {"dial", "rpc"}

(* A handler dialling or proxying holds the mutex, and the cell at the     *)
(* head of its path is Allocated.                                          *)
LockInv ==
  \A r \in Reqs :
    pc[r] \in {"dial", "rpc"} => lock = r /\ cache[req[r].path[1]] = "allocated"

(* Whoever holds the Executables mutex is awaiting a child's exit in      *)
(* stop, and a handler awaiting one holds the mutex over a recorded       *)
(* executable.                                                             *)
ExeHeld ==
  /\ exeLock # NoHolder => pc[exeLock] = "stopwait"
  /\ \A r \in Reqs : pc[r] = "stopwait" => exeLock = r /\ req[r].exe \in exes

SvcIInv == SvcTypeOK /\ Shape /\ LockHeld /\ LockInv /\ ExeHeld

-----------------------------------------------------------------------------
(* What validation guarantees of a routed request: an Allocate or Free    *)
(* path starts with a cell name and, when not local, names a child cell;  *)
(* a Start or Stop names an executable and, when not local, a cell.       *)
LEMMA RequestShape ==
  ASSUME NEW q \in Requests
  PROVE  /\ q # NoReq
         /\ q.op \in {"allocate", "free", "start", "stop"}
         /\ q.op \in {"allocate", "free"} =>
              /\ q.path[1] \in Names
              /\ ~IsLocal(q) => q.path[2] \in Names
         /\ q.op \in {"start", "stop"} =>
              /\ q.exe \in Exes
              /\ ~IsLocal(q) => q.path[1] \in Names
<1>1. CASE q \in [op : {"allocate", "free"}, path : CellPaths]
  <2>1. PICK n \in Names, m \in Names : q.path = <<n>> \/ q.path = <<n, m>>
    BY <1>1 DEF CellPaths
  <2>2. q.op \in {"allocate", "free"} /\ q # NoReq
    BY <1>1 DEF NoReq
  <2>3. CASE q.path = <<n>>
    BY <2>2, <2>3 DEF IsLocal
  <2>4. CASE q.path = <<n, m>>
    BY <2>2, <2>4 DEF IsLocal
  <2>5. QED
    BY <2>1, <2>2, <2>3, <2>4
<1>2. CASE q \in [op : {"start", "stop"}, path : ExePaths, exe : Exes]
  <2>1. q.path = <<>> \/ \E n \in Names : q.path = <<n>>
    BY <1>2 DEF ExePaths
  <2>2. q.op \in {"start", "stop"} /\ q.exe \in Exes /\ q # NoReq
    BY <1>2 DEF NoReq
  <2>3. QED
    BY <2>1, <2>2 DEF IsLocal
<1>3. QED
  BY <1>1, <1>2 DEF Requests

(* The request the trait handler rewrites for the head cell's nested      *)
(* auraed keeps its operation and executable, and an Allocate or Free      *)
(* still names a cell.                                                     *)
LEMMA RewriteShape ==
  ASSUME NEW q \in Requests, ~IsLocal(q)
  PROVE  /\ Rewrite(q).op = q.op
         /\ q.op \in {"allocate", "free"} => Rewrite(q).path[1] \in Names
         /\ q.op \in {"start", "stop"} => Rewrite(q).exe = q.exe
<1>1. CASE q \in [op : {"allocate", "free"}, path : CellPaths]
  <2>1. PICK n \in Names, m \in Names : q.path = <<n, m>>
    BY <1>1, ~IsLocal(q) DEF CellPaths, IsLocal
  <2>2. Rewrite(q) = [op |-> q.op, path |-> <<m>>]
    BY <1>1, <2>1 DEF Rewrite
  <2>3. QED
    BY <1>1, <2>2
<1>2. CASE q \in [op : {"start", "stop"}, path : ExePaths, exe : Exes]
  <2>1. Rewrite(q).op = q.op /\ Rewrite(q).exe = q.exe
    BY <1>2 DEF Rewrite
  <2>2. QED
    BY <1>2, <2>1
<1>3. QED
  BY <1>1, <1>2 DEF Requests

(* The registry methods a handler calls keep the registry's types.        *)
LEMMA RegistryOpType ==
  ASSUME TypeOK, NEW n \in Names, Allocate(n) \/ Free(n) \/ Get(n) \/ FreeAll
  PROVE  TypeOK'
BY TypeNext DEF Next

(* Cells::get answers Ok only for an Allocated cell, and then leaves the  *)
(* cache alone.                                                            *)
LEMMA GetOk ==
  ASSUME NEW n, Get(n), ret' = "Ok"
  PROVE  cache[n] = "allocated" /\ cache' = cache
BY DEF Get, HandleCgroupDoesNotExist, NotACell

(* Tearing nested agents down keeps their abstract state typed.            *)
LEMMA ReapType ==
  ASSUME SvcTypeOK, ReapNested
  PROVE  /\ agentUp' \in [Names -> BOOLEAN]
         /\ nestedCells' \in [Names -> SUBSET Names]
         /\ nestedExes' \in [Names -> SUBSET Exes]
BY DEF SvcTypeOK, ReapNested

(* With the mutex free, no handler is dialling or proxying.                *)
LEMMA FreeLockIdle ==
  ASSUME LockInv, lock = NoHolder, ServiceAssumption,
         NEW s \in Reqs
  PROVE  pc[s] \notin {"dial", "rpc"}
BY DEF LockInv

-----------------------------------------------------------------------------
(* Every step of a handler, of a nested auraed, of the connection, of the  *)
(* host and of shutdown keeps the inductive invariant.                     *)
LEMMA IInvNext == SvcIInv /\ [SvcNext]_allVars => SvcIInv'
<1> SUFFICES ASSUME SvcIInv, [SvcNext]_allVars PROVE SvcIInv'
  OBVIOUS
<1> USE ServiceAssumption
<1>1. ASSUME NEW r \in Reqs, NEW q \in Requests, Receive(r, q) PROVE SvcIInv'
  BY <1>1, RequestShape
     DEF TypeOK, Receive, SvcIInv, SvcTypeOK, Shape, LockHeld, LockInv, ExeHeld, vars
<1>2. ASSUME NEW r \in Reqs, LocalAllocate(r) \/ LocalFree(r) PROVE SvcIInv'
  <2>1. req[r] \in Requests /\ req[r].op \in {"allocate", "free"} /\ IsLocal(req[r])
    BY <1>2 DEF SvcIInv, Shape, LocalAllocate, LocalFree
  <2>2. req[r].path[1] \in Names
    BY <2>1, RequestShape
  <2>3. TypeOK'
    BY <1>2, <2>2, RegistryOpType DEF LocalAllocate, LocalFree, SvcIInv, SvcTypeOK
  <2>4. \A s \in Reqs : pc[s] \notin {"dial", "rpc"}
    BY <1>2, FreeLockIdle DEF LocalAllocate, LocalFree, SvcIInv
  <2>5. CASE LocalAllocate(r)
    BY <2>3, <2>4, <2>5, ReapType
       DEF LocalAllocate, Finish, SvcIInv, SvcTypeOK, Shape, LockHeld, LockInv, ExeHeld
  <2>6. CASE LocalFree(r)
    BY <2>3, <2>4, <2>6, ReapType
       DEF LocalFree, Finish, SvcIInv, SvcTypeOK, Shape, LockHeld, LockInv, ExeHeld
  <2>7. QED
    BY <1>2, <2>5, <2>6
<1>3. ASSUME NEW r \in Reqs,
             LocalStart(r) \/ LocalStopBegin(r) \/ LocalStopEnd(r)
      PROVE SvcIInv'
  <2>1. req[r] \in Requests /\ req[r].op \in {"start", "stop"}
    BY <1>3 DEF SvcIInv, Shape, LocalStart, LocalStopBegin, LocalStopEnd
  <2>2. req[r].exe \in Exes /\ lock # r
    BY <1>3, <2>1, RequestShape
       DEF SvcIInv, LockHeld, LocalStart, LocalStopBegin, LocalStopEnd
  <2>3. CASE LocalStart(r)
    <3>1. exeLock # r
      BY <2>3 DEF LocalStart, SvcIInv, SvcTypeOK, ServiceAssumption
    <3>2. QED
      BY <2>2, <2>3, <3>1
         DEF TypeOK, LocalStart, Finish, vars, SvcIInv, SvcTypeOK, Shape,
             LockHeld, LockInv, ExeHeld
  <2>4. CASE LocalStopBegin(r)
    <3>1. exeLock = NoHolder /\ \A s \in Reqs : pc[s] # "stopwait"
      BY <2>4 DEF LocalStopBegin, SvcIInv, ExeHeld, ServiceAssumption
    <3>2. QED
      BY <2>1, <2>2, <2>4, <3>1
         DEF TypeOK, LocalStopBegin, Finish, vars, SvcIInv, SvcTypeOK, Shape,
             LockHeld, LockInv, ExeHeld
  <2>5. CASE LocalStopEnd(r)
    <3>1. exeLock = r /\ \A s \in Reqs \ {r} : pc[s] # "stopwait"
      BY <2>5 DEF LocalStopEnd, SvcIInv, ExeHeld
    <3>2. QED
      BY <2>2, <2>5, <3>1
         DEF TypeOK, LocalStopEnd, Finish, vars, SvcIInv, SvcTypeOK, Shape,
             LockHeld, LockInv, ExeHeld
  <2>6. QED
    BY <1>3, <2>3, <2>4, <2>5
<1>4. ASSUME NEW r \in Reqs, DoInCellGet(r) PROVE SvcIInv'
  <2>1. req[r] \in Requests /\ ~IsLocal(req[r])
    BY <1>4 DEF SvcIInv, Shape, DoInCellGet
  <2>2. req[r].path[1] \in Names
    BY <2>1, RequestShape
  <2>3. TypeOK'
    BY <1>4, <2>2, RegistryOpType DEF DoInCellGet, SvcIInv, SvcTypeOK
  <2>4. \A s \in Reqs : pc[s] \notin {"dial", "rpc"}
    BY <1>4, FreeLockIdle DEF DoInCellGet, SvcIInv
  <2>5. CASE ret' = "Ok"
    <3>1. cache[req[r].path[1]] = "allocated" /\ cache' = cache
      BY <1>4, <2>5, GetOk DEF DoInCellGet
    <3>2. QED
      BY <1>4, <2>1, <2>3, <2>4, <2>5, <3>1, ReapType
         DEF DoInCellGet, SvcIInv, SvcTypeOK, Shape, LockHeld, LockInv, ExeHeld
  <2>6. CASE ret' # "Ok"
    BY <1>4, <2>3, <2>4, <2>6, ReapType
       DEF DoInCellGet, Finish, SvcIInv, SvcTypeOK, Shape, LockHeld, LockInv, ExeHeld
  <2>7. QED
    BY <2>5, <2>6
<1>5. ASSUME NEW r \in Reqs, Dial(r) PROVE SvcIInv'
  BY <1>5 DEF TypeOK, Dial, Finish, vars, SvcIInv, SvcTypeOK, Shape, LockHeld, LockInv, ExeHeld
<1>6. ASSUME NEW r \in Reqs, RpcReturn(r) PROVE SvcIInv'
  <2> USE DEF TypeOK, vars, SvcIInv, SvcTypeOK, Shape, LockHeld, LockInv, ExeHeld
  <2>1. pc[r] = "rpc" /\ UNCHANGED <<vars, agentUp, nestedCells, nestedExes, exes, exeLock>>
    BY <1>6 DEF RpcReturn
  <2>2. CASE /\ chan[r] = "lost"
             /\ budget[r] > 0
             /\ budget' = [budget EXCEPT ![r] = @ - 1]
             /\ chan' = [chan EXCEPT ![r] = "sent"]
             /\ UNCHANGED <<lock, pc, req, first>>
    BY <2>1, <2>2
  <2>3. CASE Finish(r)
    BY <2>1, <2>3 DEF Finish
  <2>4. QED
    BY <1>6, <2>2, <2>3 DEF RpcReturn
<1>7. ASSUME NEW r \in Reqs, NestedServe(r) PROVE SvcIInv'
  <2>1. req[r] \in Requests /\ ~IsLocal(req[r])
    BY <1>7 DEF NestedServe, SvcIInv, Shape
  <2>2. QED
    BY <1>7, <2>1, RequestShape, RewriteShape
       DEF TypeOK, NestedServe, vars, SvcIInv, SvcTypeOK, Shape, LockHeld, LockInv, ExeHeld,
           NestedResults
<1>8. ASSUME NEW r \in Reqs, TransportLoss(r) PROVE SvcIInv'
  BY <1>8 DEF TypeOK, TransportLoss, vars, SvcIInv, SvcTypeOK, Shape, LockHeld,
               LockInv, ExeHeld
<1>9. ASSUME NEW n \in Names, NestedAgentReady(n) \/ HostChange(n)
      PROVE SvcIInv'
  <2>1. TypeOK'
    BY <1>9, TypeNext DEF NestedAgentReady, HostChange, Next, vars, SvcIInv,
                          SvcTypeOK
  <2>2. QED
    BY <1>9, <2>1 DEF NestedAgentReady, HostChange, ExternalCreate,
                      ExternalDelete, svcVars, vars, SvcIInv, SvcTypeOK,
                      Shape, LockHeld, LockInv, ExeHeld
<1>10. CASE ShutdownFreeAll
  <2>1. TypeOK'
    BY <1>10, TypeNext DEF ShutdownFreeAll, Next, SvcIInv, SvcTypeOK
  <2>2. \A s \in Reqs : pc[s] \notin {"dial", "rpc"}
    BY <1>10, FreeLockIdle DEF ShutdownFreeAll, SvcIInv
  <2>3. QED
    BY <1>10, <2>1, <2>2, ReapType
       DEF ShutdownFreeAll, SvcIInv, SvcTypeOK, Shape, LockHeld, LockInv, ExeHeld
<1>11. CASE UNCHANGED allVars
  BY <1>11 DEF allVars, vars, svcVars, SvcIInv, SvcTypeOK, Shape, LockHeld,
                LockInv, ExeHeld, TypeOK
<1>12. QED
  BY <1>1, <1>2, <1>3, <1>4, <1>5, <1>6, <1>7, <1>8, <1>9, <1>10, <1>11
     DEF SvcNext, Handler

(* Every state the router starts in satisfies the inductive invariant.    *)
LEMMA IInvInit == SvcInit => SvcIInv
BY ServiceAssumption
   DEF SvcInit, Init, SvcIInv, SvcTypeOK, TypeOK, Shape, LockHeld, LockInv,
       ExeHeld,
       CgroupStates, CellStates, Results, Absent, NoReq

(* The router's type invariant, for every set of handlers, names and       *)
(* executables and every retry budget: the dial loop and the retried call  *)
(* never drive the backoff below zero, and every routed path and request   *)
(* the handlers and nested agents act on is one validation lets through.   *)
THEOREM SvcTypeCorrect == SvcSpec => []SvcTypeOK
<1>1. SvcIInv => SvcTypeOK
  BY DEF SvcIInv
<1>2. QED
  BY IInvInit, IInvNext, <1>1, PTL DEF SvcSpec

(* A proxied call reaches only the nested auraed of a cell that is         *)
(* Allocated in the registry, whatever the handlers, the host, the         *)
(* connection and shutdown interleave: do_in_cell! keeps the registry      *)
(* guard from Cells::get to the end of the call, so no Free, eviction or   *)
(* free_all can tear the cell down in between.                             *)
THEOREM ProxyTargetAllocated == SvcSpec => []NestedTargetAllocated
<1>1. SvcIInv => NestedTargetAllocated
  BY DEF SvcIInv, LockInv, NestedTargetAllocated
<1>2. QED
  BY IInvInit, IInvNext, <1>1, PTL DEF SvcSpec

(* A stop awaiting a child's exit always waits on an executable that is   *)
(* still recorded, for every number of concurrent handlers: the           *)
(* Executables guard kept across the await serialises stops of one name.  *)
THEOREM StopRecorded == SvcSpec => []StopTargetRecorded
<1>1. SvcIInv => StopTargetRecorded
  BY DEF SvcIInv, ExeHeld, StopTargetRecorded
<1>2. QED
  BY IInvInit, IInvNext, <1>1, PTL DEF SvcSpec

=============================================================================
