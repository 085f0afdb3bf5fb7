# A TLA+ model of the OpenVMM lifecycle

OpenVMM is a virtual machine monitor. This directory models the part of it that
decides when a virtual machine may run and what survives when it stops: the state
units that start, stop, save and restore every device, the partition unit that owns
the virtual processors, the task control that device workers are built on, the VM
worker and its controller with the snapshots a guest takes of itself, and the guest
state file. The modules are translated from the Rust source. TLC checks them on small
instances, and TLAPS proves the safety properties, all but two, for every instance.

## The system and its parts

A controller (`openvmm_entry/src/vm_controller.rs`) starts a VM worker
(`openvmm_core/src/worker/dispatch.rs`), which serves management requests. The worker
changes the state of the VM through `StateUnits` (`vmm_core/state_unit`): a registry
of units, one for each device, with dependencies between them. Each unit is a task
that receives `Start`, `Stop`, `Reset`, `Save` and `Restore` over a channel. One unit
is the partition unit (`vmm_core/src/partition_unit.rs`). It owns the VP set
(`vp_set.rs`), one runner thread for each virtual processor, and takes requests from
the worker, halts from VPs and devices, and a debugger. Inside a unit, a device
usually keeps its workers in `TaskControl` (`support/task_control`).

A microVM guest asks for a snapshot by writing to a port of the chipset. The worker
stops it at that boundary and gates host input, and the controller decides: quiesce,
publish the snapshot on disk (`openvmm_helpers/src/snapshot`) and end the source, or
roll back. Other processes restore the snapshot. Firmware and attestation state is
kept in the guest state file (`vm/vmgs`).

| Part | State | Operations | What makes it hard | Properties |
| --- | --- | --- | --- | --- |
| State units | registry, dependencies, recorded state of each unit, `running` | build, remove, start with rollback, stop, reset, save, restore, advance_time, quiesce, resume | all units move concurrently; units fail, die, stay silent; deadlines; handles dropped at any time | order, recorded state against real state, no overlapping transitions, asserts, operations end, the promise to the worker |
| Partition unit | `unit_started`, `vp_stop_count`, `halt_reason`, `needs_reset`, initial registers, frozen time | start, stop, reset, save, restore, clear_halt, set_initial_regs, accept_initial_pages, stop and start VPs, dump, boundary, debugger | one task that awaits the VPs while halts, guards and requests arrive | who may run when, accounts of halts and stop references, asserts, calls end |
| VP set | `started`, channel and state of each VP, halt latch | start, stop, state requests, halt, clear | VP threads polling several sources; abandoned requests | state touched only on stopped VPs |
| Snapshot port | deferred write, transaction | write, poll, release, completion, stop, reset | the release must follow the queued stops; a write that arrives before an old transaction is reaped | the writing VP stays at the boundary; every write is served |
| Task control | box, calls, two wakers, stop flag | insert, start, update_with, inspect, stop, remove | a stop that is dropped; wake-ups; calls racing a stop | one holder, no lost call, no lost wake-up |
| VM worker | `running`, boundary, restore gate, the script of the handler in hand | RPCs, boundary, quiesce, resume, restore, restart, teardown | flags that must follow the state units through every failure; input requests handled late | gated capture, flags against units, gated restore, calls end |
| VM controller | the call it waits for, exit code | snapshot requests, rollback, reset, save-snapshot, exit | answers that are lost or uncertain | a shared source stays quiet, every boundary has an owner |
| Snapshot store | staging directory, artifacts, what is durable, claim | stage, flush, rename, roll back, claim, resume | crashes between any two steps; RAM that is linked and not copied | complete when visible, durable when reported, resumed once |
| Guest state file | two headers, file table, files, keys, allocation | open, format, write, move, delete, unlock, update key | a commit is one header write; crashes, power loss and disk errors anywhere | files and keys survive, memory follows the disk |
| VMBus, storage, network, virtio, PCI, mesh, OpenHCL and others | see `components` in `PROJECT.json` | | | left out, with a reason for each |

`PROJECT.json` lists every part with its status, the code each definition
translates, and the hazards with the line where each one bites.

## Modules

**`StateUnits`** models `state_unit/src/lib.rs`, `start.rs`, `quiesce.rs` and
`advance_time.rs`. `registered`, `dependencies`, `dependents`, `state` and
`nextId` are the registry (`Inner`); `running` is the flag of `StateUnits`; `op`
and `task[u]` are the operation in progress and how far each unit's future in its
`join_all` got. `pending[u]` is the request in a unit's channel, `alive[u]` says
that its task still runs, and `device[u]` is what the device really does, which
the registry can only infer. An operation is entered in one step, under the
registry lock, its unit futures interleave, and it is left in one step, again
under the lock. A unit's name, its saved bytes and its error text are left out.
Constants say which units may fail, die, be slow, or be removed.

**`Lifecycle`** is what the state units promise their caller. Its state is the set of
states that units are in between operations, the `running` flag, the operation in
progress, and whether the caller was told to terminate the VM. `StateUnits`
instantiates it as `Promise`; the mapping takes a unit in the middle of an operation
to the state it had before (`Before`), and a rollback to the start it belongs to.

**`VpSet`** models the VP runner (`run_inner`), the channel of each VP, the halt
latch and the deferred write of the snapshot port. **`PartitionUnit`** extends it
with the unit's task. `pc` is the await the task is in; everything between two
awaits is one step, so the VPs, the devices and the worker interleave exactly
where the code lets them. The worker is a client with one outstanding call, plus
the guards it holds. Register contents, VTLs and dump contents are left out. A
dump visits the VPs one by one, as the code does. `DebugRequest::Detach` has a
handler and no sender, so it is not an action.

**`TaskControl`** models `task_control/src/lib.rs`. `holders` says where the
`TaskAndState` box is; a step is one critical section of the shared mutex, or the
code between two of them. A call is represented by its number, so that order and
loss can be seen. `owner` is the future of `stop()`, which may be dropped.

**`VmWorker`** models the loop of `LoadedVm::run` and the microVM parts of the worker
(`dispatch/microvm.rs`, `restore.rs`, `snapshot_rpc.rs`), and the operations of the
snapshot port. It extends `Lifecycle`, so the worker runs on what the state units
promise and not on their details. The event in hand is a script: `steps` is the
sequence of awaits its handler still has to make, and an error drops the rest, as `?`
does. `input` and `lag` are the host input gate and the input requests that a slow
unit has not handled, because `run_input_op` drops its waits at a deadline while the
requests stay queued. A machine that is not a microVM has PCIe bridges, and a microVM
has no hot-plug bus.

**`SnapshotStore`** models `snapshot/publish.rs`, `fs.rs` and `restore.rs` for a Unix
host: artifacts that are written, flushed and renamed, the hard link of guest RAM, the
cleanup of each failure, the exclusive claim of a single-use snapshot, and a host crash
that keeps what was flushed. **`GuestSnapshot`** composes it with the worker and adds
the controller (`vm_controller.rs`, `vm_controller/microvm.rs`), the death of the
process and the crash of the host. A guest that powers off, and an `Exit`, end the
process like a death.

**`Vmgs`** models `vmgs/src/vmgs_impl.rs` and `storage.rs`. `disk` is what reads
return and `stable` what the last flush made safe. Location 0 and 1 are the headers.
An operation allocates and fills `temp` (its `temp_state`) in one step, since nothing
awaits there, and then makes its disk requests one at a time: `pc` names the next. A
fault may come before any of them or tear the header that it writes. `wrote`, `target`
and `hardened` record what clients may expect of their files, and `known` which keys
they hold. A random metadata key is one that was never used. **`VmgsAllocation`** has
the allocator as the loop it is; `Vmgs` only says which block it finds.

`MCStateUnits`, `MCPartitionUnit`, `MCGuestSnapshot` and `MCVmgs` hold the values for
TLC. `TaskControl` needs none. The proofs are in the modules whose names end in
`Proofs`. The invariant of the worker and its controller is long enough to have a module
of its own, `GuestSnapshotInvariant`.

In the modules a definition whose comment begins with "Variant:" is a plausible
mistake in the definition that follows it. Substituting it makes TLC report the
property that `PROJECT.json` pairs with it.

## Runs

| Run | What it asks | Result |
| --- | --- | --- |
| `su` | four safety properties of the state units, that they implement `Lifecycle`, and that every operation ends unless it waits for a silent unit, the bounded ones even then | holds |
| `su_rollback_removal` | a unit removed during an operation is tolerated | violated |
| `pu_safety` | types and six safety properties of the partition unit and its VPs | holds |
| `pu_live` | calls end, halts are handled | holds |
| `pu_halt_race` | a stop of the VPs ends, with the snapshot port in use | violated |
| `pu_disconnect` | the client hears of a halt when the debugger is gone | violated |
| `tc` | the box, calls and wakers of a task; stop ends; calls are applied | holds |
| `tc_restart` | `start()` returning true means the task runs | violated |
| `vw` | ten safety properties of worker, controller, snapshot store and restoring processes | holds |
| `vw_live` | calls, guest writes and boundaries end unless the worker waits forever for a unit; committed and condemned sources end | holds |
| `vw_ready` | a gated restore reports readiness only after the guest acknowledged | violated |
| `vmgs` | files, keys and the format marker survive faults; the allocator finds the best fit | holds |

The five violations are disagreements between the code and its own comments or the Guide.

* `su_rollback_removal`: `start_with_rollback` releases the registry lock and then
  rolls back by indexing units by id. A handle dropped in between makes it panic,
  while `run_op` says that a removed unit is ignored.
* `pu_halt_race`: the unit's task serves a halt by awaiting `VpSet::stop`. A VP
  whose snapshot write is deferred answers only after the boundary request, which
  is queued behind that await.
* `pu_disconnect`: nothing sends `Detach`, so after a debugger went away the halt
  reason is never reported to the client.
* `tc_restart`: a dropped `stop()` leaves the stop flag set. `start()` then returns
  true without clearing it.
* `vw_ready`: `start_state_units` writes the readiness event as soon as the units have
  started, for a gated restore too. The Guide (`Guide/src/user_guide/openvmm/snapshots.md`)
  has gated restores publish it after the guest acknowledged and input is enabled again.

### What the properties except

Several properties hold only with an exception, and the exception is a fact about the
code. Taking `Forget` or `exposed` away makes TLC find a counterexample.

* `CrashKeepsFiles` promises nothing of a file that is being deleted or overwritten by
  a move (`Forget`). Both operations drop its entry before the new table is allocated,
  so the table may take its blocks before the commit. A crash or a disk error then
  leaves the file listed with damaged contents.
* `PowerLossKeepsFiles` excepts the time in which `exposed` is set. A header is flushed
  only by the next operation, and that operation may overwrite blocks that the last
  commit freed, while the header that still needs them is the one on stable storage.
* Nothing is promised while a format runs or after one was interrupted (`intact`).
  A format first clears the second header slot, so that an older header can become
  current, with its marker, and make `request_format` skip.
* A power loss may take back operations that were acknowledged.
* `TeardownQuiet` excepts a worker that was condemned: after a failed rollback
  `running` is false although units may run, so the `pause` at the end of the loop does
  nothing, while the comment there says that devices are stopped first.
* `AssertsNeedFailure`, a part of `WorkerKnowsUnits`, names the failures after which the
  worker's next call asserts. One of them takes no failure: a client that resumes the VM
  between the two RPCs of `handle_save_snapshot`.
* `RpcAnswered`, `WriteAnswered` and `BoundaryEnds` except a worker that waits forever for
  a unit (`Unbounded`). Only the quiesce and the resume of a snapshot and the input
  requests have deadlines; the stop at the boundary and the other operations have none.
  `pu_halt_race` shows a partition unit that never answers: a halt is served before the
  boundary request, and the guest's write stays deferred. `SourceEnds` has no exception,
  because a source that was committed or condemned makes no such wait.
* `RestoreIsGated` says nothing of the readiness event, see `vw_ready`. If writing the
  event fails, the sink is gone, and a later `Resume` starts the VM without it.
* `RequestsFit` is about lifecycle transitions. The input requests share the channel of a
  unit. They are modelled in `VmWorker`, for all units together, so an input request that
  overlaps a transition of the same unit is not looked for.

### Bounds

* Three units are the fewest that give a chain, a fork and a join, and a unit in
  the middle that fails. `su` lets every unit fail. The second one, which can have both
  dependencies and dependents, can also die and be removed, and the first need not
  answer. All safety properties of the run are proved for any choice.
* Two VPs are enough for one to stop while the other runs, and for a request to be
  abandoned because another VP failed. They are interchangeable, so `pu_safety`
  uses symmetry; the liveness runs do not.
* `MaxHalts = 2` gives a halt that arrives while another is in hand or recorded.
  `MaxGuards = 1` together with the dump and the boundary gives several stop
  references at once. The proofs do not depend on either bound.
* `MaxCalls = 4` gives calls queued before, during and after a stop.
* `MaxWrites = 2` gives a write that meets the transaction of an earlier one, `MaxLag = 2`
  an input request queued behind one that was given up, and `MaxCrashes = 1` with two
  restorers a claim before and after a crash. `vw` has all RPCs of clients; `vw_live`
  has those that start and stop units, one write and no restorer.
* `vmgs` has two files, values of one and two blocks, two keys, ten blocks, four requests
  (`MaxRequests`) and two faults (`MaxFaults`). Ten blocks hold a fragmented layout with
  two equal gaps. `SeqWrap = 3` makes sequence numbers wrap within a run. Metadata keys
  are drawn in increasing order, which stands for random ones. Files and keys are
  interchangeable.
* Deadlock is not checked where the system may stop: `pu_safety` and `pu_halt_race` (the
  state found by `pu_halt_race` is one in which the system really stops), `vw` and
  `vw_live` (the process ends), and `vmgs` (the requests are used up). `pu_safety`
  leaves the debugger out, and `pu_live` has it.

### Fairness

* State units: the executor polls futures that are ready, a deadline passes, and a
  unit that is not slow handles its request. A slow unit is under no fairness.
* Partition unit: its task continues when its await is over, and VP threads run.
  The branches of the task's select are under strong fairness, because the code's
  select picks among the ready branches at random. The guest itself is under no
  fairness, and a debugger need never resume.
* Task control: the backing task is polled when woken, and an owner that was woken
  polls `stop()` again unless it drops it. That a task leaves `until_stopped` when
  it is cancelled is the contract of `AsyncRun::run`. `Complete` and `Event` are
  under no fairness.
* Worker and controller: each continues when its await is over, units handle input
  requests, and deadlines pass (weak fairness). An answer of the units that no deadline
  bounds (`Unbounded`) is under no fairness: it may never come. The sources that a loop
  races are under strong fairness. The guest, clients, faults and restorers are under no
  fairness.

## Proofs

All proofs hold for every value of the constants that satisfies the named
assumptions: the constants have their types, the set of VPs is finite and not
empty, and the sequence numbers of the guest state file have at least three values.

* **State units** (`StateUnitsProofs`). The five safety properties of `su` and the type
  invariant are theorems. None but the type invariant is inductive, because what an
  operation may assume of a unit depends on how far that unit's task got and on what
  earlier operations left. The inductive invariant `Safe` says, for each stage of a
  unit's task, what its channel and device can be (`UnitInv`); that a task which sent
  its request has seen the units it follows succeed (`OrderInv`); that a stop abandoned
  by an expired quiesce can only sit in the channel of an uncertain unit (`LateStop`);
  and what the flags seen by callers imply (`FlagInv`). There is one lemma for each
  action. `UncertainIsTerminal` says that a unit whose state became uncertain is never
  taken for a known one again. `PromiseKept` is the refinement: `StateUnits` implements
  `Lifecycle`. It needs `Safe` and `RollbackInv`, that a rollback has a task for every
  unit it has to stop.
* **Partition unit** (`PartitionUnitProofs`). All properties of `pu_safety` but
  `TypeOK`, for any number of VPs, halts and guards. There are two invariants. `Ledger`
  accounts for the stop references and the halts, and says that the VPs are not started
  from a stop to the end of the handler that made it, and that the boundary and the
  deferred write follow each other. `Controlled` is about the VPs. Its `Channels` says
  of each VP what its queue can hold, in which order, and what that implies for its
  runner: a stop that is awaited is in the queue, in the runner's hands or answered, and
  a start follows only a stop that was answered. `HandlerInv` and `CallInv` tie this to
  the await the task is in and to what the worker established before its call. Both are
  needed: that a handler touches only stopped VPs follows from the answers it waited
  for, and that nothing starts them again follows from the ledger.
  `UnseenHaltIsDebuggers`, that a recorded halt nobody heard of waits for an attached
  debugger, is inductive by itself.
* **Task control** (`TaskControlProofs`). `TypeOK`, `OneHolder`, `CallsAreFlushed`,
  `NoLostWakeup` and `CompletedStaysDone`. They are inductive together with `Phases`,
  which says that a stop is pending only for a running task, that a batch is held only
  to be run, and that only a task that has not completed is polled.
* **Snapshot store** (`GuestSnapshotProofs`). `VisibleIsComplete`, `ResumedOnce` and
  `ExitZeroIsDurable`, for any number of restoring processes and crashes.
  `DirectoryInv` says that while staging the artifacts written and those still planned
  are the ones needed, and that from the flush on what is there is durable; `ClaimInv`
  that one process made the claim, and that it is durable before the guest runs.
* **Worker and controller** (`GuestSnapshotScriptProofs`, `GuestSnapshotWorkerProofs`,
  `GuestSnapshotProofs`). `TypeOK` and the other seven properties of `vw`, for any
  number of writes and any lag. The invariant is `WorkerInv` (in
  `GuestSnapshotInvariant`), said of a living worker. Its core is `ScriptInv`: a handler
  can be left at every await, so what the flags are is known only relative to the step
  that is next. `Chain` says which steps belong to a handler and which may follow each
  other, and `Pre` what `vmRunning` and the flag of the state units are when a step
  begins. The other parts say that the operation in flight is that of the step
  (`OpInv`), how the states of the units go with the flags (`UnitInv`), that the input
  request in hand is the last one sent (`InputInv`), who has the deferred write
  (`PortInv`), that each caller has one RPC in the channel or in hand (`QueueInv`), that
  exactly one party answers for a boundary (`BoundaryInv`), and that nothing moves from
  the capture to the decision (`CaptureInv`). The first module proves that every handler
  begins with a script of that shape and that a step leaves the rest of it; the second
  that the worker, the units, the port and the input gate keep the invariant; the third
  adds the controller, the store and the faults, and has the theorems.
* **Guest state file** (`VmgsProofs`, and `VmgsKeyProofs` for the keys). `TypeOK` and
  all properties of `vmgs` but `AllocatorIsBestFit`, for any number and size of files,
  any keys and any capacity. For files the invariant has four parts. `DiskInv`: the disk
  has the files of `wrote`, and so has the flushed copy if the header was flushed, while
  otherwise only the current header differs and the other one leads to `hardened`.
  `MemoryInv`: the state in memory is the one on disk. `StepInv`: the blocks still to be
  written are not needed by the current header, and what was written is in place.
  `FormatInv`: the same for a format. That a new header is the current one needs three
  sequence numbers. The format marker needs `RequestInv`: from a boot that asked for a
  format on, the marker is in the current header, in the one that a power loss goes back
  to and in every state that may become a header, unless there is no file to lose. The
  keys need `LockInv`: both of those headers open with a key that the client holds
  (`HeadersOpen`), the metadata key in memory is the one that the extended table on disk
  is sealed with (`StateLock`), the same holds of what is about to be committed, whose
  pending blocks avoid the extended table still in use (`TempLock`), and the old key is
  removed only when the slot of the new one is committed (`UpdateLock`).

Only model-checked are:

* liveness (`OperationsEnd`, `CallsEnd`, `HaltsAreHandled`, `StopEnds`,
  `CallsAreApplied`, `RpcAnswered`, `WriteAnswered`, `BoundaryEnds`, `SourceEnds`): the
  prover does not handle fairness;
* the five violations;
* `AllocatorIsBestFit`: what the loop over the gaps returns for every layout needs an
  induction over the sorted allocations, which the prover cannot do;
* `TypeOK` of the partition unit. The parts that other proofs rest on, the counts and the
  channels, are proved with `Ledger` (`LedgerTypes`) and `Channels` (`VpTypes`).

## Not modelled

The map covers about 5,400 source lines of a repository of about 870,000, well under
one percent. Most of the rest is device emulation, drivers and protocol stacks. The
parts left out are listed in `PROJECT.json` with the reason. Inside the modelled parts
these are left out:

* State units, partition unit, task control: inspection where it changes nothing, weak
  memory effects, and the contents of registers, memory and saved state. Channels of
  mesh are modelled as reliable FIFO queues, as their users rely on. Draining halts in
  `PartitionUnitRunner::stop` loops for as long as devices keep halting, so `pu_live`
  assumes that devices do not halt on their own account.
* Worker and controller: building the VM, IGVM reload, hvsock and memory access, VTL2
  servicing, the VNC and debug workers, and the controller's profiling events. The
  `DumpState` RPC pauses the VM, reads it and resumes it, which the `Pause` and `Resume`
  of a client stand for. A worker restart that reaches the end of the serialization panics, as the `todo!()` there does.
* Snapshot store: the contents of artifacts and their validation, and the durability
  rules of Windows.
* Guest state file: encryption of single files (a store that is locked keeps its
  extended table as it is), versions before 3 and the v1 format, which are refused, and
  `save` and `open_from_saved`, which copy the state. A header write that reports an
  error although it took effect is not modelled, nor are intermediate contents of a
  block that is written twice between two flushes. A block that is not a table is
  refused when read as one. Clients replace a key by a different one, as
  `underhill_attestation` does. The broker serves one request at a time, so operations
  do not overlap.

What would come next: the log of VHDX, in the style of `Vmgs`; the channel states of the
VMBus server; and the two parts of the worker that the composition takes as given, the
partition unit below `Lifecycle` and the devices behind the input gate.
