------------------------------ MODULE Granules ------------------------------
(***************************************************************************)
(* The shared device-page metadata registry of the guest-memory driver     *)
(* (modules/guest-memory/granules.c), together with the two loops of       *)
(* memory.c that use it: admission (hyper_memory_prepare acquires one      *)
(* granule per 2 MiB index) and teardown (hyper_memory_unprepare and the   *)
(* admission rollback hand the acquired array to hyper_granules_put).      *)
(*                                                                         *)
(* A granule is a heap object.  Two objects of one index can exist at the  *)
(* same time: an old one whose retirement has released the resource claim  *)
(* but which its caller has not freed yet, and a new one created since.    *)
(*                                                                         *)
(* Atomicity.  granules_lock covers the whole of hyper_granule_get and the *)
(* detach loop of hyper_granules_put, and nothing outside those sections   *)
(* reads the registry or a user count, so each section is one step.  The   *)
(* retirement callbacks take no lock and interleave with everything.       *)
(* Arrays are sets: the entries are unique and no step depends on their    *)
(* order, so a batch is any subset of the right size.                      *)
(***************************************************************************)
EXTENDS Naturals, FiniteSets

CONSTANTS
  Grant,      \* the hyper_guest_memory devices, each serialised by its own lock
  Index,      \* the 2 MiB granule indices of the physical aperture
  Granule,    \* the addresses kzalloc can return
  NoGranule,  \* a registry slot that holds nothing
  Batch       \* HYPER_GRANULE_RETIRE_BATCH, also the workqueue's max_active

ASSUME GrantFinite == IsFiniteSet(Grant)
ASSUME GranuleFinite == IsFiniteSet(Granule)
ASSUME NoGranuleFresh == NoGranule \notin Granule
ASSUME BatchPositive == Batch \in Nat \ {0}

VARIABLES
  pc,        \* where each grant's thread is in prepare or in put
  want,      \* indices the prepare loop has still to acquire
  owned,     \* the acquired array: granules counted in users for this grant
  detached,  \* entries of the current put batch this caller must retire
  registry,  \* the granules xarray
  claimed,   \* request_mem_region claims, by index
  live,      \* allocated granule objects
  index,     \* granule->pgmap.range.start / SZ_2M
  users,     \* granule->users
  work,      \* progress of granule->retire_work
  pins       \* page references (GUP, DMA) taken through a grant, by index

vars == <<pc, want, owned, detached, registry, claimed,
          live, index, users, work, pins>>

heap == <<live, index, users, work>>

PcState == {"idle", "get", "held", "put", "queue", "join"}

\* init: never queued, the pages are mapped; running: inside memunmap_pages;
\* unmapped: memunmap_pages returned, the claim is still held; done: the
\* callback returned.
WorkState == {"init", "queued", "running", "unmapped", "done"}

Pending == {"queued", "running", "unmapped"}

TypeOK ==
  /\ pc \in [Grant -> PcState]
  /\ want \in [Grant -> SUBSET Index]
  /\ owned \in [Grant -> SUBSET Granule]
  /\ detached \in [Grant -> SUBSET Granule]
  /\ registry \in [Index -> Granule \cup {NoGranule}]
  /\ claimed \in SUBSET Index
  /\ live \in SUBSET Granule
  /\ index \in [Granule -> Index]
  /\ users \in [Granule -> Nat]
  /\ work \in [Granule -> WorkState]
  /\ pins \in [Grant -> SUBSET Index]

Init ==
  /\ pc = [c \in Grant |-> "idle"]
  /\ want = [c \in Grant |-> {}]
  /\ owned = [c \in Grant |-> {}]
  /\ detached = [c \in Grant |-> {}]
  /\ registry = [i \in Index |-> NoGranule]
  /\ claimed = {}
  /\ live = {}
  /\ index \in [Granule -> Index]
  /\ users = [g \in Granule |-> 0]
  /\ work = [g \in Granule |-> "init"]
  /\ pins = [c \in Grant |-> {}]

-----------------------------------------------------------------------------
(* Admission: the acquisition loop of hyper_memory_prepare.                *)

\* PREPARE found no earlier admission (memory->pfns is NULL) and reduced the
\* requested pages to a sorted list of distinct granule indices.
Prepare(c) ==
  /\ pc[c] = "idle"
  /\ \E W \in (SUBSET Index) \ {{}} : want' = [want EXCEPT ![c] = W]
  /\ pc' = [pc EXCEPT ![c] = "get"]
  /\ UNCHANGED <<owned, detached, registry, claimed, heap, pins>>

Acquire(c, i, g) ==
  /\ owned' = [owned EXCEPT ![c] = @ \cup {g}]
  /\ want' = [want EXCEPT ![c] = @ \ {i}]

\* Faulty variant: admission without the resource claim.
ClaimableAlways(i) == TRUE

\* request_mem_region: refused while an older granule of this index retires.
Claimable(i) == i \notin claimed

\* hyper_granule_get finds the index registered: one more user.
GetShared(c, i) ==
  /\ pc[c] = "get" /\ i \in want[c]
  /\ registry[i] # NoGranule
  /\ users' = [users EXCEPT ![registry[i]] = @ + 1]
  /\ Acquire(c, i, registry[i])
  /\ UNCHANGED <<pc, detached, registry, claimed, live, index, work, pins>>

\* hyper_granule_get creates the granule: claim, map, store, one user.
GetNew(c, i) ==
  /\ pc[c] = "get" /\ i \in want[c]
  /\ registry[i] = NoGranule
  /\ Claimable(i)
  /\ \E g \in Granule \ live :
       /\ live' = live \cup {g}
       /\ index' = [index EXCEPT ![g] = i]
       /\ users' = [users EXCEPT ![g] = 1]
       /\ work' = [work EXCEPT ![g] = "init"]
       /\ registry' = [registry EXCEPT ![i] = g]
       /\ Acquire(c, i, g)
  /\ claimed' = claimed \cup {i}
  /\ UNCHANGED <<pc, detached, pins>>

\* Faulty variant: the error return forgets the rollback.
GetFailsLeaks(c, i) ==
  /\ pc[c] = "get" /\ i \in want[c]
  /\ registry[i] = NoGranule
  /\ want' = [want EXCEPT ![c] = {}]
  /\ owned' = [owned EXCEPT ![c] = {}]
  /\ pc' = [pc EXCEPT ![c] = "idle"]
  /\ UNCHANGED <<detached, registry, claimed, heap, pins>>

\* hyper_granule_get fails: EBUSY from the claim, or ENOMEM, memremap_pages
\* or xa_store, each of which undoes its own steps under the lock.  The
\* prepare loop jumps to its rollback with what it acquired so far.
GetFails(c, i) ==
  /\ pc[c] = "get" /\ i \in want[c]
  /\ registry[i] = NoGranule
  /\ want' = [want EXCEPT ![c] = {}]
  /\ pc' = [pc EXCEPT ![c] = "put"]
  /\ UNCHANGED <<owned, detached, registry, claimed, heap, pins>>

\* Every index was acquired: the arrays are published in the device.
Publish(c) ==
  /\ pc[c] = "get" /\ want[c] = {}
  /\ pc' = [pc EXCEPT ![c] = "held"]
  /\ UNCHANGED <<want, owned, detached, registry, claimed, heap, pins>>

-----------------------------------------------------------------------------
(* Teardown: hyper_granules_put.                                           *)

\* hyper_memory_unprepare of a prepared grant, from RELEASE or final close.
Unprepare(c) ==
  /\ pc[c] = "held"
  /\ pc' = [pc EXCEPT ![c] = "put"]
  /\ UNCHANGED <<want, owned, detached, registry, claimed, heap, pins>>

BatchSize(n) == IF n < Batch THEN n ELSE Batch

\* Faulty variant: every entry is retired, shared or not.
FinalUsersAll(B) == B

\* The entries of a batch whose user count drops to zero.
FinalUsers(B) == {g \in B : users[g] = 1}

\* One pass of the locked detach loop: every entry of the batch loses this
\* caller as a user; the final ones leave the registry and become this
\* caller's to retire, the shared ones stay discoverable.
Detach(c) ==
  /\ pc[c] = "put"
  /\ \E B \in (SUBSET owned[c]) \ {{}} :
       /\ Cardinality(B) = BatchSize(Cardinality(owned[c]))
       /\ users' = [g \in Granule |-> IF g \in B THEN users[g] - 1 ELSE users[g]]
       /\ registry' = [i \in Index |-> IF registry[i] \in FinalUsers(B)
                                       THEN NoGranule ELSE registry[i]]
       /\ detached' = [detached EXCEPT ![c] = FinalUsers(B)]
       /\ owned' = [owned EXCEPT ![c] = @ \ B]
  /\ pc' = [pc EXCEPT ![c] = "queue"]
  /\ UNCHANGED <<want, claimed, live, index, work, pins>>

\* queue_work for every detached entry of the batch.
Queue(c) ==
  /\ pc[c] = "queue"
  /\ work' = [g \in Granule |-> IF g \in detached[c] THEN "queued" ELSE work[g]]
  /\ pc' = [pc EXCEPT ![c] = "join"]
  /\ UNCHANGED <<want, owned, detached, registry, claimed, live, index, users, pins>>

\* Faulty variant: the entry is freed without joining its callback.
FlushedAlways(g) == TRUE

\* flush_work returns when the callback has returned, and at once when the work
\* was never queued.
Flushed(g) == work[g] \notin Pending

\* flush_work, then kfree, of one detached entry.
Join(c, g) ==
  /\ pc[c] = "join" /\ g \in detached[c]
  /\ Flushed(g)
  /\ live' = live \ {g}
  /\ detached' = [detached EXCEPT ![c] = @ \ {g}]
  /\ UNCHANGED <<pc, want, owned, registry, claimed, index, users, work, pins>>

\* The batch is joined; the while loop tests first < count again.
EndBatch(c) ==
  /\ pc[c] = "join" /\ detached[c] = {}
  /\ pc' = [pc EXCEPT ![c] = "put"]
  /\ UNCHANGED <<want, owned, detached, registry, claimed, heap, pins>>

\* hyper_granules_put returns; the arrays are freed and the grant is idle.
Return(c) ==
  /\ pc[c] = "put" /\ owned[c] = {}
  /\ pc' = [pc EXCEPT ![c] = "idle"]
  /\ UNCHANGED <<want, owned, detached, registry, claimed, heap, pins>>

-----------------------------------------------------------------------------
(* The retirement workqueue and Linux page references.                     *)

\* A worker, or the rescuer, starts a queued callback; max_active bounds how
\* many run at the same time.
WorkStart(g) ==
  /\ work[g] = "queued"
  /\ Cardinality({h \in Granule : work[h] \in {"running", "unmapped"}}) < Batch
  /\ work' = [work EXCEPT ![g] = "running"]
  /\ UNCHANGED <<pc, want, owned, detached, registry, claimed,
                 live, index, users, pins>>

\* memunmap_pages returns once no page of the granule is referenced, whoever
\* took the reference.
WorkUnmap(g) ==
  /\ work[g] = "running"
  /\ \A c \in Grant : index[g] \notin pins[c]
  /\ work' = [work EXCEPT ![g] = "unmapped"]
  /\ UNCHANGED <<pc, want, owned, detached, registry, claimed,
                 live, index, users, pins>>

\* Faulty variant: the callback takes the lock of its owner, which the joining
\* caller holds.
WorkReleaseLocked(g) ==
  /\ work[g] = "unmapped"
  /\ \A c \in Grant : g \in detached[c] => pc[c] # "join"
  /\ claimed' = claimed \ {index[g]}
  /\ work' = [work EXCEPT ![g] = "done"]
  /\ UNCHANGED <<pc, want, owned, detached, registry, live, index, users, pins>>

\* release_mem_region, after which the callback returns.
WorkRelease(g) ==
  /\ work[g] = "unmapped"
  /\ claimed' = claimed \ {index[g]}
  /\ work' = [work EXCEPT ![g] = "done"]
  /\ UNCHANGED <<pc, want, owned, detached, registry, live, index, users, pins>>

\* vhost pins a page of a published grant for an I/O request.
Pin(c, i) ==
  /\ pc[c] = "held"
  /\ \E g \in owned[c] : index[g] = i
  /\ pins' = [pins EXCEPT ![c] = @ \cup {i}]
  /\ UNCHANGED <<pc, want, owned, detached, registry, claimed, heap>>

\* The request completes, possibly long after the mapping is gone.
Unpin(c, i) ==
  /\ i \in pins[c]
  /\ pins' = [pins EXCEPT ![c] = @ \ {i}]
  /\ UNCHANGED <<pc, want, owned, detached, registry, claimed, heap>>

-----------------------------------------------------------------------------
Get(c) == \E i \in Index : GetShared(c, i) \/ GetNew(c, i) \/ GetFails(c, i)

Put(c) == Detach(c) \/ Queue(c) \/ EndBatch(c) \/ Return(c)
          \/ \E g \in Granule : Join(c, g)

Worker(g) == WorkStart(g) \/ WorkUnmap(g) \/ WorkRelease(g)

Next ==
  \/ \E c \in Grant : Prepare(c) \/ Get(c) \/ Publish(c) \/ Unprepare(c) \/ Put(c)
  \/ \E g \in Granule : Worker(g)
  \/ \E c \in Grant, i \in Index : Pin(c, i) \/ Unpin(c, i)

Spec == Init /\ [][Next]_vars

\* The kernel schedules the calling thread and every callback it started.  The
\* workqueue activates queued items first in, first out, with a rescuer under
\* memory pressure, so an item that repeatedly could start does start.  A
\* device completes the requests it was given.  Nobody is obliged to prepare
\* or to release a grant.
Fairness ==
  /\ \A c \in Grant : WF_vars(Put(c))
  /\ \A g \in Granule : SF_vars(WorkStart(g)) /\ WF_vars(WorkUnmap(g) \/ WorkRelease(g))
  /\ \A c \in Grant, i \in Index : WF_vars(Unpin(c, i))

FairSpec == Spec /\ Fairness

-----------------------------------------------------------------------------
(* Properties.                                                             *)

\* The pages of the granule are still mapped: memunmap_pages has not returned.
Mapped(g) == g \in live /\ work[g] \in {"init", "queued", "running"}

\* Whatever a grant holds, prepared or still acquiring, is a live granule that
\* hyper_granule_get still finds and that nobody has started to retire: a
\* teardown by another grant sharing it, or a rollback, never takes it away.
OwnedStaysUsable ==
  \A c \in Grant : \A g \in owned[c] :
    /\ g \in live
    /\ registry[index[g]] = g
    /\ work[g] = "init"

\* granule->users counts the grants that hold the granule, and a granule
\* nobody holds is owned by the one put call that will retire and free it:
\* no path through prepare, rollback, RELEASE or close leaks an object.
UsersAccounted ==
  \A g \in live :
    /\ users[g] = Cardinality({c \in Grant : g \in owned[c]})
    /\ users[g] = 0 => \E c \in Grant : g \in detached[c]

\* At most one granule of an index is between request_mem_region and
\* release_mem_region ("The resource claim excludes new admission").
ExclusiveClaim ==
  \A g, h \in live :
    /\ index[g] = index[h]
    /\ work[g] # "done" /\ work[h] # "done"
    => g = h

\* The claim of an index is held exactly as long as some granule of it is not
\* fully retired: never given back early, never leaked.
ClaimAccounted ==
  claimed = {index[g] : g \in {h \in live : work[h] # "done"}}

\* A queued or running callback never touches a freed granule: the joining
\* caller retains the work object until flush_work returns.
NoUseAfterFree == \A g \in Granule : work[g] \in Pending => g \in live

\* A referenced page always has its mapping: memunmap_pages is waited for
\* before the object goes, even when the grant that took the reference is gone.
PinnedStaysMapped ==
  \A c \in Grant : \A i \in pins[c] : \E g \in Granule : Mapped(g) /\ index[g] = i

\* A put call, also one of several batches, always returns: the callbacks it joins
\* need nothing that it holds, and page references are given up in time.
PutReturns == \A c \in Grant : pc[c] = "put" ~> pc[c] = "idle"

\* What the comments at hyper_memory_unprepare ("waits for every GUP/DMA page
\* reference") and in hyper_granules_put ("never acknowledge release ... while
\* Linux still owns a page") say: once teardown has returned, no page reference
\* taken through the grant is left.
ReleaseWaitsForPins == \A c \in Grant : pc[c] = "idle" => pins[c] = {}
=============================================================================
