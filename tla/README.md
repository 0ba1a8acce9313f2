# HypeR I/O VM: a TLA+ model

The HypeR I/O VM is a small Linux appliance that serves the storage and network
devices of other guests. It contains two kernel modules (`modules/`), one
service process per client with a supervisor (`service/`), shared headers
(`include/`), two vhost patches (`patches/linux`), a boot script and build
tools. This directory models the parts where the order of events decides
whether guest memory, DMA and the control protocol stay correct.

## 1. Inventory

| component | state | operations | interacts with |
|---|---|---|---|
| granule registry (`modules/guest-memory/granules.c`) | xarray of 2 MiB granules, user counts, resource claims, retirement work | `hyper_granule_get`, `hyper_granules_put`, `granule_retire` | guest-memory driver (callers), Linux memremap and workqueue |
| guest-memory driver (`modules/guest-memory/memory.c`) | per device: live, opened, VMA count, pfns, granules | open, release, mmap, INFO, PREPARE, RELEASE, probe, remove | registry; the service |
| control mailbox driver (`modules/io-bridge`) | mask and status registers, IRQ generation, wait queue, control lock, dead | read, write, threaded interrupt, release, remove | host; the service |
| notification driver (`modules/io-bridge`) | bound, eventfds, wait entries, IRQ enable | ADMIT, EXTENT, QUIESCENT, BIND, UNBIND, interrupt, call wakeup | host; vhost eventfds; the service |
| control session (`include/hyper_io_session.h`, `service/hyper-io-service.c`) | binding, epoch per device, retired, last transaction, cached reply | admit, dispatch of every operation, replay | mailbox (requests), backend (operations) |
| client backend (`service/memory.c`, `vhost.c`, `network.c`) | mapping, memory fd, token, two endpoints (fd, bound, attached), TAP | prepare, release, activate, reset, quiesce | both drivers, vhost, TAP |
| block owner (`service/block.c`, `block-target.c`) | inventory, bindings, LIO and device-mapper objects | inventory, read, bind, publish | LIO, device mapper, data services |
| supervisor (`service/hyper-io-supervisor.c`) | children, stopping, failed | fork, signal, wait | services, init |
| range checks (`include/hyper_io_layout.h`, `hyper_io.h`, `hyper_block_policy.h`) | none | pure functions on 64-bit words | backend, drivers, block owner |
| client configuration (`service/client-config.c`) | accepted lines | `hyper_clients_read` | supervisor, block owner |
| other parsers, boot script, build tools | none | scripts, pure functions | - |

Hard behaviours, each with its line in `PROJECT.json` under `hazards`:
interrupt threads that run late, close and removal racing file operations,
signals lost before a blocking call or around `execl`; retirement callbacks
racing admission of the same pages, shared granules, rollback of a partial
acquisition; mappings that outlive descriptors, forks and half-made mappings;
eventfd callbacks that run while they are attached or detached; failure of any
one system call in the middle of a multi-step activation, release or
publication, failure of its rollback, and the retry; disks replaced between two
looks at them; the death of a process between the admission of a grant and its
retirement proof; records repeated, delayed or reordered by the host across
bindings and epochs; sums that wrap around.

What makes each part correct:

* registry: a held granule is usable, counts and claims are exact, no callback
  touches a freed object, every put returns;
* guest-memory driver: no mapping or DMA outlives its pages, the object dies
  once and gives everything back, RELEASE returns;
* mailbox: no lost wakeup, exactly-once delivery, no register access after
  removal;
* notification: no call lost or invented, no callback after its eventfd is
  gone, a route is bound completely or not at all, a rejected token is retired;
* session: at-most-once execution, stale records never move it back, resources
  belong to the open binding;
* backend: devices only borrow memory, the retirement proof comes last, no
  admission is lost, every operation is atomic towards the session;
* block owner: a target that can be found is complete, writers never overlap,
  an identifier keeps naming its disk, OK means published;
* supervisor: a failure stops everything, a normal end stops nobody else, the
  appliance powers off only without services and reports failures;
* range checks: what is accepted is in bounds, exact and disjoint, and the next
  component accepts it too.

## 2. Modules

| module | models | state and actions |
|---|---|---|
| `Granules` | the registry, and PREPARE, RELEASE and close as far as they drive it | one thread per grant (`pc`), one action per critical section of `granules_lock`, one per step of the retirement callback |
| `GuestMemory` | one device of the guest-memory driver from probe to destruction | fields of `struct hyper_guest_memory`, life of each file and mapping; one action per file operation, VMA callback and step of probe and removal; mm's own steps are external |
| `Mailbox` | `wait_status`, read, write, the interrupt, removal, the loop of `serve` around them | `pc` at every register access, the mask and status registers, the scheduler state of the task, the signal |
| `Notification` | the notification device: ADMIT, QUIESCENT, BIND, UNBIND, release, removal, interrupt, eventfd callbacks | `holder` and `at` say who has `bind_lock` and where it is, `kick`, `event` and `wait` which fields of the route are set, `count` the eventfd counters |
| `ClientResources` | abstract contract of the backend | memory `none/ready/partial`, device `down/held`, one atomic action per operation and status |
| `Backend` | the backend, one step per system call that can fail | `pc` is the position in the handler, `open/bound/attached/held/token` are the fields of `struct backend`, `configured` the devices the client has, `grant` is the host's view of each token, `dma` is vhost at work |
| `ControlSession` | `serve`, `dispatch`, the session rules | the five session variables, the abstract backend as an instance of `ClientResources`, one action per operation |
| `BlockPolicy` | `hyper_block_policy.h` | operators in wrapping arithmetic, with reference definitions over sets |
| `BlockOwner` | inventory, BIND, publication and rollback | `disks` and `bindings` are the owner's tables, `built` the kernel objects of each target, one action per call of `block_target_publish` |
| `ClientConfig` | `hyper_clients_read` | operators: which line is acceptable after which others |
| `Supervisor` | the supervisor with the life of its services, and the power-off | fields of `main`, `proc/stop/exit` of each service process |
| `Layout` | range checks from a record to an address that is used | the region, page array, ring parts and disk read accepted so far; one action per accepted element |
| `GranulesProofs`, `GuestMemoryProofs`, `MailboxProofs`, `NotificationProofs`, `ControlSessionProofs`, `BackendProofs`, `SupervisorProofs`; `RangeProofs` | proofs about the module of the same name; `RangeProofs` about `BlockOwner` and `Layout`, which share the arithmetic of ranges (the specification of `Layout` therefore has names of its own, `LayoutSpec`, `LayoutNext`...) | its inductive invariant, one lemma per action or group of actions, the theorems |
| `MC*` | instances for TLC | finite sets, symmetry |

How they fit together: `Backend` implements `ClientResources` (property
`AtomicOperations` of run `backend`, theorem `HandlersAtomic`), and `ControlSession` uses
`ClientResources` as its backend, so what the session run shows holds for the
session over the real backend. `GuestMemory` sees the registry of `Granules`
from one holder; `Supervisor` and `BlockOwner` extend `ClientConfig` and
`BlockPolicy`; `Layout` follows one grant through the service, the driver and
vhost. Definitions whose comment begins with "Faulty variant" are deliberate
mistakes: `PROJECT.json` pairs each with a property that must notice it.

Abstractions worth knowing:

* A granule array is a set: its entries are unique and no step depends on
  their order. A section of `granules_lock` is one step, because nothing reads
  the registry or a count outside it.
* In `GuestMemory` an operation under `memory->lock` is one step. Only teardown
  is two, because it waits for page references with the lock held. mm clears
  page tables before it calls `hyper_vma_close`, and undoes a failed mmap after
  the driver has returned.
* The interrupt generation is kept only as "moved since sampled". 64-bit
  wrap-around of the generation is out of scope.
* `Mailbox` keeps the contents of records as a sequence number. A copy that
  fails stands for a bad length and a failing `copy_to_user`. The `ERROR` bit
  is the result `refused` of the read-back.
* In `Notification` a wake callback is one step: it runs under the wait-queue
  lock of its eventfd. EXTENT only copies registers and is left out.
* In `Backend`, the vhost set-up ioctls, eventfds and BIND between two
  observable changes are one step with one failure: all failures run the same
  error path and leave the same fields. Checks of the wire record are a
  nondeterministic refusal; `Layout` has the checks themselves.
* `ControlSession` covers a managed data client. A record with a bad header
  ends `serve` and is part of `Finish`; a record of the wrong size or of an
  unknown operation is `other`.
* In `BlockOwner` a step of publication stands for the calls that fail
  together. The directory is scanned in any order. A removal fails while
  something depends on the object, as configfs and device mapper have it.
* In `Supervisor` a signal that meets a process at its blocking call either
  interrupts it or is spent just before it: both outcomes are steps. A line of
  the configuration that is wrong by itself is `Unreadable`.
* `Layout` uses words of 0..63, pages of 8 and granules of 16 units; the unit
  is two bytes, so a ring part keeps its proportions and alignment. Sums wrap
  where the code's sums can.
* The death of a process frees what it held at once; the kernel's own teardown
  order is external.

## 3. Runs

| run | bounds | shows |
|---|---|---|
| `granules` | 2 grants, 2 indices, 3 objects, batch 1 | `OwnedStaysUsable`, `UsersAccounted`, `ExclusiveClaim`, `PinnedStaysMapped`, and that every put returns (`PutReturns`). Three objects let an index be claimed anew while an older object of it is unfreed; batch 1 with two indices forces several batches; the theorems cover more grants |
| `backend` | 2 tokens, storage, network or both, 3 faults | `BorrowedMemory`, `UseUnderAdmission`, `AdmissionTracked`, that `ClientResources` is implemented (`AtomicOperations`) and that every grant is returned (`GrantReturned`). Three faults allow a failed operation, its failed rollback and a failed retry; the second token is admitted after the first was retired |
| `session` | 2 bindings, 2 epochs, 3 transactions | `AtMostOnce`, `RepeatRecognised`, `ResourcesOwned`, `SessionMonotone`. Three transactions are one to prepare, one to release and one after it; the theorems cover every other size |
| `mailbox` | 3 requests | `DeliveredOnce`, `NoAccessAfterRemove`, `NoLostWakeup`, `RemoveCompletes`. The second request is enough for a delayed interrupt of the first wait to meet the arm of the next |
| `mailbox_close` (violation) | 1 request | finding 1 |
| `guest_memory` | 2 pages in 2 granules, 2 files, 2 mappings, dynamic and reserved | `MappedIsPrepared`, `ReferencedExists`, `ObjectLifetime`, and RELEASE returns (`ReleaseReturns`). Two mappings are the original and its fork or split, two files an owner and the next |
| `notification` | 2 queues, 2 calls each, 1 token | `NoCallStuck`, `NoSpuriousCall`, `NoUseAfterRelease`, `AllOrNothing` (routes and admissions), `RemovalEnds`. A second queue lets BIND fail with the first attached; a second call arrives while the first is drained |
| `block_owner` | 2 devices (one read-only), 2 clients, 2 disks ever attached, every range of a 3-value word, 2 faults | `LunComplete`, `WritersAlone`, `IdentifiersStable`, `ReplacementConfined`, `OkMeansPublished`. Two disks allow a replacement under one device number, two clients a second BIND of the identifier after it, two faults a failed step and its failed rollback |
| `block_owner_replaced` (violation) | as `block_owner` | finding 3 |
| `supervisor` | every file of up to 3 clients with one MAC | `ChildrenAccounted` (power-off only without services), `StopsForCause`, `SuccessIsHonest`, `ServicesDistinct`, and that a failure ends in power-off unless a service is deaf to its signal (`FailureStops`). Three services are one that fails, one that ends normally and one that remains |
| `supervisor_failure` (violation) | 2 clients | finding 2 |
| `layout` | 64-value word, 3 pages, 3 queue slots, every even address | `GrantSound` (array in bounds, exact pages, granules in the aperture), `ActivationSound` (disjoint rings in memory, agreement of service and driver), `ReadInBounds`. Regions at 0, in the middle and at the top of the word. The disk is smaller than the signed file offset allows, as every real one is, so that its own bound decides; disk and memory bound each have a mutant |

`TypeOK` is a conjunct of one of the properties named here or, in `Granules` and
`ControlSession`, a theorem of its own.

Deadlock is checked for `Granules` and `Layout`. The other systems really stop:
a service ends, a device goes, the appliance powers off, the bounded supply of
requests or disks is used up.

### Fairness

* `Granules`: the calling thread and started callbacks are scheduled (weak). A
  queued item starts if it repeatedly could (strong), because the workqueue
  activates items in order and has a rescuer (`WQ_MEM_RECLAIM`). A page
  reference is dropped eventually: devices complete requests.
* `GuestMemory`: a teardown goes on when nothing refers to its pages, the kernel
  undoes a failed mmap, and pins are dropped. That anybody unmaps or closes is
  not assumed.
* `Backend`: the service is scheduled (weak). The host asks for RELEASE_MEMORY
  again and again (strong): while the service handles other requests it is not
  continuously enabled. Failures are bounded by `MaxFaults`.
* `Mailbox`: the service, the interrupt thread and a started removal are
  scheduled, and the host takes replies. Requests, closing, removal and SIGTERM
  are never assumed to come.
* `Notification`: the holder of `bind_lock` and a pending interrupt are
  scheduled (weak), and a waiting removal gets the lock if it is free again and
  again (strong), because kernel mutexes hand the lock over to a waiter.
* `Supervisor`: the supervisor and every service are scheduled (weak). Records,
  closed endpoints, errors, crashes and signals from outside are not assumed.
* `ControlSession`, `BlockOwner`, `Layout`: only safety.

### Findings

1. A control endpoint that closes while a reply is written yields `EIO`
   (`hyper_io_bridge.c:446`), not `EPIPE`; the service fails and the supervisor
   stops all clients, against its comment at `hyper-io-supervisor.c:106`.
2. A SIGTERM handled between the test of `stopping` and the blocking read
   (`hyper-io-service.c:209`) is lost, as is one that reaches a child before its
   `execl`. The supervisor signals once and waits for ever, so a service failure
   need not terminate the VM as `rootfs/init:127` has it. `FailureStops` shows
   that this and a retained backend are the only ways to miss it.
3. BIND checks a disk through its open descriptor (`block.c:169`) and hands device
   mapper the device number several calls later (`block-target.c:52`). A medium or
   disk replaced in between is published under the old identifier and BIND answers
   OK, against the comment at `block.c:34` ("An ID cannot silently select a
   replacement device during this boot"). `ReplacementConfined` bounds the damage:
   the sequence number of the replacement is new, so the identifier is refused from
   then on, and at most the client being bound is misdirected.

Without a run of its own: a grant's release does not wait for page references taken
through it when another grant shares the granule (`granules.c:103`), against the
comments at `memory.c:56` and `granules.c:113`. `ReleaseWaitsForPins` of `Granules`
states what they say; as an invariant of `MCGranules.cfg` it fails after eleven
steps, in which two grants acquire one index, one pins, releases and is idle with its
pin left. `PinnedStaysMapped` shows that the pages nevertheless stay mapped while
referenced; what is lost is the meaning of the retirement proof for that grant.

## 4. Proofs

`GranulesProofs` proves every safety property that holds of `Granules` for any
finite set of grants and of granule objects, any set of indices and any positive
batch size, `TypeOK`, `ClaimAccounted` (a claim lasts exactly as long as an
unretired granule) and `NoUseAfterFree` (no callback on a freed one) among them.
None of them is inductive alone. The invariant `Inv` adds where a granule
can be: what is registered is live, idle and at its index; what is owned is
registered; what is detached is live, unregistered and belongs to one caller;
work is pending only on detached objects; the claim of an index is held by
exactly one unfinished object; a live object is either registered and used or
detached; and pinned indices are mapped. The count (`users` is the number of
holders) needs finiteness of the set of grants and the lemma that removing one
holder lowers the cardinality by one. There is one lemma per action.

`ControlSessionProofs` proves the safety properties of `ControlSession` for all
sets of positive binding, epoch and transaction numbers. `AtMostOnce` needs
`RunsBehind`: whatever was executed belongs to an older binding, or to the open
one at or before `last`. One comparison with `last` is therefore enough, and
reopening an old binding would break it. `ResourcesOwned` and
`RetiredHoldsNothing` follow from the contract of `ClientResources`.

`MailboxProofs` proves `NoAccessAfterRemove` and `DeliveredOnce` for any number
of requests. The invariant adds who has `control_lock` at which position
(`LockHeld`), that after removal had the lock a file operation only finds the
device dead (`RemovedOutside`), that the interrupt is gone with the device, and
that a record being copied or consumed is still the one in the mailbox
(`RecordKept`). The last is why a failed copy may simply be repeated.

`NotificationProofs` proves all four safety properties for any non-empty set of
queues, any tokens and any number of calls. `AllOrNothing` speaks only of states
without a lock holder; `RouteInv` says what the route looks like while BIND and
unbind are under way: exactly the queues BIND is past are attached, a wait entry
has its eventfd, the interrupt is enabled exactly on a bound route, its thread
runs only on a complete one. `NoSpuriousCall` is an action property, proved step
by step from the same invariant. `GrantsAnswered` covers the one token that
ADMIT has bound at the host and not judged yet.

`BackendProofs` proves `BorrowedMemory`, `UseUnderAdmission` and
`AdmissionTracked` for any set of tokens and any number of failing calls. The
invariant follows the handlers: `EndpointOrder` (the parts of an endpoint come
and go in order, data transfer innermost), `Borrowing` (`release_memory` passes
the drains only when no device is left), `MemoryOrder` and `MemoryAt` (mapping
needs pages, pages need the descriptor and the admission, and how far
`prepare_memory` and `release_memory` have come).

`HandlersAtomic` is the refinement `Spec => AtomicOperations`. A handler in
progress maps to the abstract state in which it was called, kept in `before`,
and its answer maps to one atomic operation with that status. The link between
`before` and the current state (`LinkPrepare`, `LinkActivate`, `LinkReset`,
`LinkRelease`) is itself inductive relative to `Inv`: a device other than the
one at hand is as it was, a device still held was held before, memory is as it
was until the driver's release. Every step that does not answer is a stutter,
and every step that answers has its own lemma (`Refine...`).

`GuestMemoryProofs` proves `MappedIsPrepared`, `ReferencedExists` and
`ObjectLifetime` for any pages and granules and any finite sets of files and
mappings. The invariant says what the counters count (`Counts`), what a dynamic
device holds between operations and while a teardown waits with the lock
(`Grant`, `Locking`), what a reserved pool retains (`Pool`), and that a mapping
keeps its file open and shows prepared pages only (`Mappings`). The counts rest on
cardinality lemmas for adding and removing one file or mapping.

`RangeProofs` proves the five properties of `BlockOwner` for every word
size, disk geometry, set of clients and number of failures. The operator lemmas
`Division`, `ValidRange` and `NoConflict` show that a range accepted by
`hyper_block_range_valid` never wraps, and that for such ranges
`hyper_block_ranges_conflict`, whose sums are modular, misses no overlap. The
invariant follows a publication: what was requested conflicts with no binding,
also when the owner dies before it records it (`Requested`), the objects before
the current step exist and the link does not (`Publication`), and whatever can be
found is complete and reserved (`Published`, `Bound`). `IdentifiersStable` is an
action property from `Inventory`. `ReplacementConfined` needs a second invariant,
`Replacement`, inductive relative to the first: sequence numbers are issued once
(`Issued`), a table names an inventoried disk (`Tabled`), the disk of a misdirected
table is not current and never will be, and while a publication runs no other
client's table of that identifier is misdirected (`Confined`).

`RangeProofs` also proves the three properties of `Layout` for every word, page
and granule size, aperture, disk and number of queues. The properties say where
accepted elements lie; the inductive invariant `LayoutInv` adds what makes the
next check sound:

* `RegionMapped`: the length is whole pages, and a mapped region ends below the
  top of the word. Without it the address of a ring could wrap.
* `PageArray` and `ExtentExact`: the cursor is a multiple of the page and at most
  the length, and exactly the entries before it are filled. An accepted extent adds
  whole pages, so by the lemmas `Multiples` and `Quotient` it neither leaves a hole
  in the array nor writes past its end.
* `GranulesInAperture`: the granule of an accepted page lies in the aperture as a
  whole, also at the top of the word (`ApertureHolds`).
* `QueueProgress` and `RingsInMemory`: the queue at hand has at most two of its
  three parts, so the next part has a size, and a placed part lies in the mapping
  without wrapping (`PlacedPart`); every required queue before it is present.
* `ReadHeld`: a read in progress has its memory, and stays within it and the disk.

`SupervisorProofs` proves `ChildrenAccounted`, `StopsForCause`,
`SuccessIsHonest` and `ServicesDistinct` for any limit on the clients. The
invariant adds how far the fork loop has come (`Progress`), what `failed` leaves
out (`Failures`) and that the accepted lines are free of clashes before the
first fork (`Accepted`).

Assumptions, all evaluated by TLC on the instances:

| module | assumption |
|---|---|
| `Granules` | finite sets of grants and granules, `NoGranuleFresh`, `BatchPositive` |
| `GuestMemory` | every page has a granule, finite sets of files and mappings, `Free` is no file |
| `Mailbox`, `Notification` | the bounds `MaxSeq` and `MaxCalls` are numbers (the first positive), there is a queue |
| `ControlSession` | numbers are positive (a zero number is refused by `serve`), the primary device is a device |
| `Backend` | the window and "none" are no tokens, the bound on failures is a number |
| `BlockPolicy`, `BlockOwner` | the word is positive, a sector size is a positive word, the size of a disk is a word, bounds are numbers |
| `Layout` | `PageSizes`: page and granule are positive, a granule is whole pages, the word whole granules; `QueueCounts`: a device has at most `MaxQueues` queues; `RecordWords`: the numbers of the records, the mappings, the aperture and the size of the disk are words |
| `ClientConfig`, `Supervisor` | at least one client is allowed, and a missing MAC is no MAC |

The bounds `MaxSeq`, `MaxCalls`, `MaxFaults`, `MaxSequence` and `MaxDisks` occur
in guards, but the theorems hold for every value of them.

Only model-checked:

* all liveness properties (`PutReturns`, `GrantReturned`, `NoLostWakeup`,
  `RemoveCompletes`, `ReleaseReturns`, `RemovalEnds`, `FailureStops`): fairness
  is outside the prover;
* the three violations, which are counterexamples.

## 5. Not modelled

* Linux vhost patches: they are diffs against a kernel that is not part of the
  repository, so the functions around the changed lines cannot be read here.
  vhost, LIO, TAP, mm and the hypervisor are external and appear by their effect
  on the calls.
* `network-config.c` and `hyper-networks.c` read one file at boot and create
  bridges in sequence; no other component runs yet. The text of a line of the
  client configuration is abstracted too.
* The boot script (except the power-off), the guest agent and the build tools
  have no concurrent or recoverable state.
* The standalone three-argument mode of the service is a test fixture.

## 6. Plan

Done: every component of section 2 modelled and checked by TLC; every safety
property of the passing runs, invariants and action properties alike, proved for
every value of the constants; the refinement of `ClientResources` by `Backend`
proved.

Left: nothing that the proofs can reach. When the code changes, the places to look
at first are the lines of the findings, and, once the vhost patches can be read
with the kernel around them, `dma` of `Backend`, which is external now.
