# TLA+ verification of the auraed cell service

This directory models the cell service of `auraed` (`src/auraed/src/runtime/cell_service/`).
It contains TLA+ modules, TLC configurations that model-check them on small instances,
and TLAPS proofs that hold for every value of the constants.

## 1. Inventory

| Component | Source | State it keeps | Operations |
|---|---|---|---|
| **Cells registry (C4)** | `cells/cells.rs` | `cache: HashMap<CellName, Cell>` | `allocate`, `free`, `get`/`get_mut`, `handle_cgroup_does_not_exist`, `broadcast_free`, `broadcast_kill` |
| **Cell (C3)** | `cells/cell.rs` (not in this tree) | state Unallocated / Allocated{cgroup, nested auraed} / Freed | `allocate`, `free`, `kill`, `client_config` |
| **Cgroup backend (C1)** | `cells/cgroups` (not in this tree) | a directory per cell name on the cgroup v2 filesystem, shared with the host | `exists`, create, delete |
| **Path router / proxy (C6)** | `cell_service.rs` | `Arc<Mutex<Cells>>`, `Arc<Mutex<Executables>>` | the four gRPC handlers, the local `allocate`/`free`/`start`/`stop`, `do_in_cell!`, `free_all` |
| **Executables (C5)** | `executables/` (not in this tree) | name to child process | `start`, `stop` |
| **Validation (C7)** | `validation.rs` | none (pure) | request to validated request |
| **Isolation builder (C2)** | `executables/auraed/isolation_controls.rs` | none (side effects on the kernel) | `setup`, `isolate_process`, `isolate_network` |
| AuraeScript client | `auraescript/src/builtin/client.rs` | a gRPC channel | connect (front-end, out of the core) |

**How the components interact.** Each inbound RPC is a tokio task. A handler decides from
the cell path whether the request is local (`Allocate`/`Free`: one segment; `Start`/`Stop`:
empty path) or nested. A local cell operation locks the registry and calls one `Cells`
method. That method reconciles the cache with the cgroup filesystem and calls into the
`Cell`. A nested request enters `do_in_cell!`. The macro locks the registry and reads the
head cell's `client_config`. It then dials the cell's nested auraed with an exponential
backoff. Finally it sends the request with the head segment stripped, retrying
`Unknown "transport error"` under the same backoff. The nested auraed runs this same
service. `free_all` runs at shutdown and holds the lock across `broadcast_free` then
`broadcast_kill`.

**What makes it hard.**
- The cgroup filesystem is ground truth outside the process. An operator may delete
  a cgroup, and foreign code may create one.
- Tasks interleave on the registry mutex.
- The connection to a nested auraed may drop a request, or may drop the reply to a
  request that was already executed.
- Retries are bounded by a time budget.
- A `Cell` operation can fail half-way, and the shutdown broadcasts swallow those
  failures.

**What makes each component correct.**
- Registry:
  - every cgroup the agent made stays reachable through an Allocated cached cell (no leak);
  - a foreign cgroup is never adopted or destroyed (spec I3);
  - a cached name was allocated (spec I1);
  - at most one Cell per name (I4, which holds by construction of a map).
- Router:
  - a proxied call reaches only a live cell's nested auraed;
  - every request is answered (spec P5);
  - transients are invisible to the caller;
  - each hop strips exactly one segment (spec P4).
- Isolation: namespace entry, cgroup attach, private rebind, `/proc` and hostname happen
  in that order, before the nested auraed serves.

The hazards these properties are aimed at are listed, each at its line, in
`PROJECT.json` under `"hazards"`.

## 2. Modules and how they map to the code

### `Cells.tla`: the registry (`cells.rs`)
- **Variables.**
  - `cache[n]`: the cached Cell's state, or `"absent"`.
  - `cgroup[n]`: `"none"`, `"ours"` or `"foreign"`. The owner is a ghost: the code can only
    call `Cgroup::exists`, which is `Exists(n)`.
  - `ret`: the value the last method returned.
- **Atomicity.** Every `Cells` method runs under `&mut self` with no await, so each is
  one action:
  - `Allocate` is `Cells::allocate`, including its call to `Cell::allocate`;
  - `Free` is `Cells::free`: `HandleCgroupDoesNotExist`, `NotACell`, or `FreeCached`,
    which is `get_mut` running `Cell::free` followed by the removal of the entry;
  - `Get` is `Cells::get` with `client_config`;
  - `FreeAll` is `broadcast_free` then `broadcast_kill`.
- **The Cell, modelled from the spec.** `cell.rs` is not in this tree, so
  `CellAllocate` and `CellFreeOutcomes` follow the spec's contract:
  - a failed allocate unwinds its cgroup and leaves the cell Unallocated;
  - a free of an Allocated cell either destroys its cgroup or fails and changes nothing;
  - `kill` swallows its errors and destroys the cgroup unconditionally.
- **The host.** `ExternalCreate` and `ExternalDelete` are the host changing the cgroup
  filesystem.
- **Initial state.** `Init` lets foreign cgroups exist already: the spec says cgroups
  left from an earlier run are not adopted.

### `CellService.tla`: the router (`cell_service.rs`)
It extends `Cells` and composes it with the handlers.
- **Variables.**
  - `lock`: the holder of the registry mutex.
  - `pc[r]`, `req[r]`: each handler task's phase and request.
  - `budget[r]`: the backoff retries left.
  - `chan[r]`: the proxied call in flight: sent, lost, or the answer.
  - `first[r]`: a ghost, the nested auraed's answer to the first delivery.
  - `agentUp`, `nestedCells`, `nestedExes`: each cell's nested auraed, abstracted to
    whether it listens and what it holds.
  - `exes`: local executables.
  - `exeLock`: the holder of the Executables mutex.
- **Actions.**

  | Action | Code |
  |---|---|
  | `Receive` | an RPC arrives |
  | `LocalAllocate`, `LocalFree` | `CellService::allocate`/`free` (lock, `Cells` call, answer) |
  | `LocalStart` | `CellService::start` (Executables lock, `start` records the child or its spawn fails, answer; no await) |
  | `LocalStopBegin` | `CellService::stop` up to its await: lock, then `ExecutableNotFound` or the child signalled |
  | `LocalStopEnd` | the child exits and is reaped; the handler answers and the guard drops |
  | `DoInCellGet` | lock + `cells.get(client_config)`; the guard is kept on success |
  | `Dial` | the `AuraeClient::new` loop |
  | `RpcReturn` | the retried call of `backoff::future::retry` |
  | `ShutdownFreeAll` | `free_all` |

- **Environment actions.**
  - `NestedServe`: the nested auraed serving the rewritten request on its own state.
    `Rewrite` is the trait handler's `into_child` and path rewrite: the request sent
    down has its head segment removed.
  - `TransportLoss`: the connection dropping the request, or its reply.
  - `NestedAgentReady`: a spawned nested auraed starting to listen.
  - `HostChange`: the host changing the cgroup filesystem.
- **Tearing down a nested auraed.** A registry step that frees, kills, evicts or
  replaces a cell takes that cell's nested auraed away (`ReapNested`).
- **Abstractions.**
  - Validation is modelled by generating only requests that pass it.
  - The nested auraed answers like a registry of names and executables. Its own
    reconciliation is what `Cells.tla` checks.
  - The backoff's 20 s budget is `MaxRetries` attempts. `backoff::future::retry` resets
    the backoff it is given, so the call phase gets a fresh budget (`Dial`'s connect
    disjunct sets `budget` back to `MaxRetries`). The run `service_budget` shows what
    this costs.
- **`MC_CellServiceBudget.tla`** adds a history variable `spent[r]` to the
  `MC_CellService` instance. It counts the backoff delays a request has slept through,
  in the dial and the call together. It is updated from the step's effect on `budget`,
  so the router's steps are those of `CellService`.

### `AbstractCells.tla`: what the registry promises
- **State.** `cells` holds the names that own a cgroup this agent made. `registry`
  holds the names the registry has an entry for.
- **Actions.**
  - `AAllocate` allocates only a name that owns nothing.
  - `ARecord` and `AForget` add or drop an entry that owns nothing.
  - `AFree` removes a cell with its entry.
  - `AVanish` is the host removing a cell's cgroup.
  - `AFreeAll` empties both sets.
- **Refinement.** `Cells.tla` instantiates it as
  `AC == INSTANCE AbstractCells WITH cells <- OwnedCells, registry <- Registered`, where:
  - `OwnedCells` is the set of names whose cgroup is `"ours"`;
  - `Registered` is the set of names whose cache entry is not `"absent"`.
- **What it checks.** `CellsRefinesAbstract == AC!ASpec`. Every registry method and host
  change is an abstract step or a stutter.
  - An eviction, a failed allocation, or a free of a non-Allocated cell is `AForget` or
    `ARecord`. This holds only because such a name owns no cgroup, which is
    `NoLeakedCgroup`.
  - `free_all` is `AFreeAll`, which is spec P6 under the mapping.

### `Isolation.tla`: the isolation builder (`isolation_controls.rs`)
- **Variables.**
  - `phase[c]`: each spawned child's step.
  - `iso[c]`: its `IsolationControls`.
  - The mount propagation of its `/` (`rootProp`) and of the submounts under it
    (`subProp`).
  - Whether `/proc`, hostname and domainname are done.
  - `hostLeak`: the children whose mounts reached the host.
- **Actions.**
  - `Setup`: `Isolation::setup`. It is a no-op without `isolate_process`. Otherwise the
    `MS_PRIVATE | MS_REC` bind of `/` succeeds, or the child fails.
  - `IsolateProcess`: `Isolation::isolate_process`. Its three system calls (mount proc,
    `sethostname`, `setdomainname`) run in order, and the first one that fails returns.
    This is `ProcessSteps(c, k)`.
  - `IsolateNetwork`: `Isolation::isolate_network`, which only logs.
  - `Exec`: the nested auraed starting to serve.
- **Modelled from the spec.** The clone flags and the caller that runs the three calls
  in order (`nested_auraed.rs`, not in this tree).
- **Mount propagation.** A new mount namespace copies the host's, whose mounts are
  shared. So a proc mount on a still-shared `/proc` appears on the host.
- **Relation to `CellService`.** The two modules are not composed. `CellService`'s
  `NestedAgentReady` stands for the moment this module's `Exec` step is reached, and
  that correspondence is informal: no module instantiates one in the other.

## 3. Runs

| Run | cfg | Expect | What it shows |
|---|---|---|---|
| cells_noleak | `MC_Cells.cfg` | pass | `NoLeakedCgroup` over 3 names (symmetry) |
| cells_i1 | `MC_Cells_I1.cfg` | violation | spec I1 fails after one failed `Cell::allocate` (`cells.rs:84`) |
| cells_foreign | `MC_Cells_Foreign.cfg` | violation | delete + foreign re-create, then `Free` destroys the foreign cgroup (`cells.rs:145`). On cgroup v2 the `rmdir` succeeds only when the foreign cgroup holds no process (otherwise `EBUSY`, and the cell stays cached); the model does not track processes in cgroups |
| cells_refine | `MC_Cells_Refine.cfg` | pass | `CellsRefinesAbstract`: `Cells` implements `AbstractCells`, 3 names (symmetry) |
| service_safety | `MC_CellService.cfg` | pass | `SvcTypeOK`, `NestedTargetAllocated`, `StopTargetRecorded`: 2 handlers, 2 names, depth-2 paths, 1 executable, 1 retry (symmetry); about 2.6M states, 2 minutes |
| service_liveness | `MC_CellService_Live.cfg` | pass | `EveryRequestAnswered`, 2 handlers, 1 name (no symmetry, since it is unsound for liveness) |
| service_transient | `MC_CellService_Transient.cfg` | violation | a lost reply is retried, the nested Allocate runs twice, and the caller gets `CellExists` |
| service_lock | `MC_CellService_Lock.cfg` | violation | the registry guard is held across the dial and the call (`cell_service.rs:60`) |
| service_hung | `MC_CellService_Hang.cfg` | violation | a nested auraed that never answers a delivered call keeps the request, and the registry guard, forever (`cell_service.rs:93`). Spec section 5 itself imposes no per-attempt timeout and leaves the deadline to the caller, so this is a gap between P5's 20 s bound and that rule, not the code departing from the spec |
| service_budget | `MC_CellService_Budget.cfg` (`MC_CellServiceBudget`) | violation | `SharedBackoffBudget`: a request retries the dial once, connects, loses the call's reply and retries again, sleeping two delays against a budget of one. `backoff::future::retry` resets the backoff the dial loop drew from (`cell_service.rs:90`), so dial plus retry can take about 40 s, not the 20 s of spec sections 4.6 and 5 |
| isolation_safety | `MC_Isolation.cfg` | pass | `HostMountsUntouched`, `ServesFullyIsolated`: 2 children, every flag combination, a failure at every system call |

**Why the bounds are enough.**
- Two handlers give every interleaving of a nested call with a concurrent local call on
  the same name.
- Two names give paths `a`, `a/b` and `a/a`.
- One retry lets a lost reply be re-sent.
- Three names in `MC_Cells` let one `FreeAll` mix graceful, failed and never-allocated
  cells.
- One name in `service_budget` suffices: the excess needs one request, one dial retry
  and one lost reply.

Each passing property has a mutant in `PROJECT.json` that TLC must catch:
- `FreeCached` ignoring `Cell::free`'s error breaks `NoLeakedCgroup`;
- `Dial` retrying past the budget breaks `SvcTypeOK`;
- dropping the guard after `client_config` (the spec's own design) breaks
  `NestedTargetAllocated`;
- a retry that does not consume the budget breaks `EveryRequestAnswered`;
- `Allocate` skipping the cgroup existence check breaks `CellsRefinesAbstract`;
- `stop` not keeping the Executables guard across its await breaks `StopTargetRecorded`;
- `setup` without `MS_REC` breaks `HostMountsUntouched`;
- `isolate_process` ignoring a failed `sethostname` breaks `ServesFullyIsolated`.

`MC_Isolation.cfg` sets `CHECK_DEADLOCK FALSE`. Every child really stops, either
serving or failed.

**Fairness.** `EveryRequestAnswered` assumes the following:
- **Strong fairness on lock acquisition.** tokio's `Mutex` is FIFO-fair, so a task whose
  lock is free infinitely often gets it. A handler waits for at most one acquisition at
  a time, so there is one condition per mutex: `LocalAllocate`, `LocalFree` or
  `DoInCellGet` for the registry, `LocalStart` or `LocalStopBegin` for the Executables.
- **Weak fairness on each handler step.** tokio runs every ready task. A stopped child is
  killed, so it exits, which gives weak fairness on `LocalStopEnd`.
- **Weak fairness on "the nested auraed answers, or the connection drops".** The code has
  no per-attempt timeout. A nested auraed that hangs while connected would hold the
  registry lock forever (hazard at `cell_service.rs:93`). The run `service_hung` drops
  this assumption (`SvcSpecHungNested`) and shows the request is then never answered.

No fairness is assumed for clients, the host, or a nested auraed starting up.

## 4. Proofs (TLAPS)

`CellsProofs.tla`:
- `TypeCorrect`: `Spec => []TypeOK`.
- `NoLeak`: `Spec => []NoLeakedCgroup`, for every set of names, from `NamesAssumption`.
  - The inductive invariant is `IInv == TypeOK /\ NoLeakedCgroup`. It needs no further
    strengthening: every method acts on one name and decides from that name's cgroup
    existence and cached state, and `FreeAll` treats every name alike.
  - `LeakNext` has one step per action. The crucial cases:
    - `Get` evicts only non-Allocated cells, whose cgroup therefore is not the agent's;
    - `Free` removes an entry only when `Cell::free` succeeded, and success destroyed an
      Allocated cell's cgroup;
    - `FreeAll` destroys the cgroup of every Allocated cell, gracefully or by kill.

`CellServiceProofs.tla` (from `NamesAssumption` and `ServiceAssumption`: `MaxRetries` is
a natural and `NoHolder` is not a handler):
- `SvcTypeCorrect`: `SvcSpec => []SvcTypeOK`.
- `ProxyTargetAllocated`: `SvcSpec => []NestedTargetAllocated`.
- Neither invariant is inductive alone. Both follow from `SvcIInv`, which TLC also
  checked on the `service_safety` instance without symmetry (9.9M states). It is
  `SvcTypeOK` plus three facts:
  - `Shape`: a busy handler serves a validated request; a dialling or proxying one
    serves a nested request; a call is in flight only while proxying. Typing
    `NestedServe` needs this, because it reads the rewritten path or `exe` (lemma
    `RewriteShape`).
  - `LockHeld`: the mutex holder is dialling or proxying. Without it, `Finish` in a
    local handler could seem to release a guard another handler holds.
  - `LockInv`: a dialling or proxying handler holds the mutex, and its head cell is
    Allocated.
- The argument in `IInvNext`, which has one step per action:
  - every action that changes the registry requires the mutex free, so by `LockInv`
    no handler is dialling or proxying at that moment;
  - `DoInCellGet` enters `dial` only when `Cells::get` returned Ok, which happens only
    for an Allocated cell that `Get` leaves cached (lemma `GetOk`).
- Lemma `RequestShape` states what validation guarantees of a routed path.

`CellsProofs.tla` also proves `Refinement`: `Spec => CellsRefinesAbstract`.
- `Init` maps to `AC!AInit`. Foreign cgroups only exist at start, and the cache is empty.
- `RefineNext` shows that under `IInv` every step is an `AC!ANext` step or leaves
  `<<OwnedCells, Registered>>` unchanged. It has one step per action and, under it, one
  per outcome.

`CellServiceProofs.tla` also proves `StopRecorded`: `SvcSpec => []StopTargetRecorded`.
- `SvcIInv` gains `ExeHeld`: the Executables guard is held exactly by the handler
  awaiting a child's exit, and that child is still recorded.

`IsolationProofs.tla` proves `HostUntouched` (`IsoSpec => []HostMountsUntouched`) and
`FullyIsolated` (`IsoSpec => []ServesFullyIsolated`).
- The inductive invariant `StepsDone` says what each finished step left behind in a
  process-isolated child:
  - past `setup`, `/` and its submounts are private;
  - past `isolate_process`, `/proc`, hostname and domainname are done.

`CellsProofs.tla` also proves lemma `FreeAllEmpties` (spec P6): under `IInv`, `FreeAll`
leaves no cache entry and no cgroup of the agent's. `RefineNext` cites it for the
`AFreeAll` case.

**Left to TLC only.**
- Liveness (`EveryRequestAnswered`): TLAPS does not handle the fairness and ENABLED
  reasoning.
- The violation runs' properties are false of the code, by design.
- Every other property of a passing run (the invariants and the refinement
  `CellsRefinesAbstract`) is stated by a proved theorem.

## 5. Plan

1. Done: `Cells` (registry + Cell contract + host) with the no-leak proof.
2. Done: `CellService` (routing, lock, dial/backoff, retried call, lossy connection,
   shutdown), with the safety, liveness and violation runs above. `stop` is split at
   its await on child exit, with the Executables guard held (`StopTargetRecorded`,
   proved).
3. Done: the isolation builder (`Isolation.tla`), with both properties proved.
4. Done: the abstract registry (`AbstractCells.tla`). `Cells` refines it, which TLC
   checks and TLAPS proves.
5. **Next.**
   - Replace the abstract nested registry by an instance of `Cells` per nested auraed,
     so nested allocation goes through the same reconciliation.
   - Model nested auraed process lifetime, so that eviction without kill (hazard at
     `cells.rs:72`) can be checked. cgroup v2 refuses `rmdir` while processes are
     inside, so an orphaned cell needs its auraed to have died first.
   - Add the routing property P4 (each hop strips exactly one segment) over paths of
     depth 3.

## 6. Not modelled

- **The AuraeScript client (`client.rs`).** Front-end I/O: it builds a channel from
  configuration and forwards calls. It has no state the agent reads.
- **`cells/mod.rs`.** Declarations and a `CellSpec` constructor used by tests. It has
  nothing to model.
- **TLS and identity loading.**
- **Cgroup controller settings.** The registry never reads this data.
- **Validation's field syntax.** It is pure, and its rejections change nothing.
- **The clone itself (`nested_auraed.rs`).** It is not in this tree. Its effect
  (namespaces inherited from the host) is `IsoInit`.
- **Persistence.** There is none; a restart is `Init` with foreign cgroups.
