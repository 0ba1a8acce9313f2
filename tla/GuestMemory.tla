----------------------------- MODULE GuestMemory -----------------------------
(***************************************************************************)
(* One hyper_guest_memory device (modules/guest-memory/memory.c) from      *)
(* probe to destruction: file operations, memory mappings and removal, as  *)
(* processes, forks and the kernel's mm interleave them.                   *)
(*                                                                         *)
(* Every operation runs under memory->lock, so it is one step, except that *)
(* hyper_memory_unprepare waits for page references with the lock held:    *)
(* lock is then the file whose RELEASE or last close is waiting.  What mm  *)
(* does to a mapping around the driver's callbacks happens outside the     *)
(* lock.  The granule registry is the one of Granules, seen from one       *)
(* holder: other is what other devices hold, retiring what is unmapped as  *)
(* soon as its pages have no reference left.  Refused calls change nothing *)
(* and are left out.                                                       *)
(***************************************************************************)
EXTENDS Naturals, FiniteSets

CONSTANTS
  Page,        \* page aliases
  Granule,     \* 2 MiB granules
  GranuleOf,   \* the granule a page lies in
  File,        \* open file descriptions
  Area,        \* memory mappings (VMAs)
  Free         \* no file: nobody holds the lock

ASSUME GranuleOfType == GranuleOf \in [Page -> Granule]
ASSUME FreeFresh == Free \notin File
ASSUME FileFinite == IsFiniteSet(File)
ASSUME AreaFinite == IsFiniteSet(Area)

VARIABLES
  phase,                      \* of the platform device
  dynamic, live, opened,      \* the fields of struct hyper_guest_memory
  refs, vmas,
  pages, granules,            \* pfns (or the reserved pool) and its granules
  retained,                   \* pool pages whose reference the driver holds
  lock,
  fd,                         \* files some descriptor still refers to
  file,                       \* life of a file
  area, areaFile, ptes,       \* life, file and page-table entries of a mapping
  pins,                       \* pages referenced by GUP or DMA
  other, retiring             \* the rest of the granule registry

device == <<phase, dynamic, live>>
content == <<pages, granules, retiring>>
files == <<fd, file, opened, lock>>
mm == <<area, areaFile, ptes, vmas>>
vars == <<device, content, files, mm, refs, retained, pins, other>>

Registered == {"bound", "dying"}
DriverHolds == {"probing", "bound", "dying", "deregistered"}

\* The granules hyper_memory_prepare derives from its sorted, unique indices.
Granules(S) == {GranuleOf[p] : p \in S}

\* Pages with a reference: a page-table entry or a pin.
Referenced == pins \cup UNION {ptes[v] : v \in Area}

TypeOK ==
  /\ phase \in {"unbound", "removed"} \cup DriverHolds
  /\ dynamic \in BOOLEAN /\ live \in BOOLEAN /\ opened \in BOOLEAN
  /\ refs \in 0..(1 + Cardinality(File)) /\ vmas \in 0..Cardinality(Area)
  /\ pages \in SUBSET Page /\ granules \in SUBSET Granule
  /\ retained \in SUBSET Page
  /\ lock \in File \cup {Free}
  /\ fd \in SUBSET File /\ file \in [File -> {"closed", "open", "releasing"}]
  /\ area \in [Area -> {"none", "failing", "mapped", "unmapped"}]
  /\ areaFile \in [Area -> File \cup {Free}] /\ ptes \in [Area -> SUBSET Page]
  /\ pins \in SUBSET Page
  /\ other \in SUBSET Granule /\ retiring \in SUBSET Granule

Init ==
  /\ phase = "unbound" /\ dynamic = FALSE /\ live = FALSE /\ opened = FALSE
  /\ refs = 0 /\ vmas = 0 /\ pages = {} /\ granules = {} /\ retained = {}
  /\ lock = Free /\ fd = {} /\ file = [f \in File |-> "closed"]
  /\ area = [v \in Area |-> "none"] /\ areaFile = [v \in Area |-> Free]
  /\ ptes = [v \in Area |-> {}] /\ pins = {} /\ other = {} /\ retiring = {}

-----------------------------------------------------------------------------
(* Probe and removal.                                                      *)

\* Faulty variant: the last reference forgets the pages of the reserved pool.
KrefPutLeaks == refs' = refs - 1 /\ UNCHANGED retained

\* kref_put; hyper_memory_destroy gives back the pages probe has retained.
KrefPut ==
  /\ refs' = refs - 1
  /\ retained' = IF refs = 1 /\ ~dynamic THEN retained \ pages ELSE retained

Probe ==
  /\ phase = "unbound" /\ phase' = "probing"
  /\ dynamic' \in BOOLEAN /\ refs' = 1
  /\ UNCHANGED <<live, content, files, mm, retained, pins, other>>

\* The loop of probe: one more page of the pool is checked and retained.
Retain(p) ==
  /\ phase = "probing" /\ ~dynamic /\ p \notin retained
  /\ pages' = pages \cup {p} /\ retained' = retained \cup {p}
  /\ UNCHANGED <<device, granules, retiring, files, mm, refs, pins, other>>

Register ==
  /\ phase = "probing" /\ (dynamic \/ retained = Page)
  /\ phase' = "bound" /\ live' = TRUE
  /\ UNCHANGED <<dynamic, content, files, mm, refs, retained, pins, other>>

\* A page of the pool, the properties or misc_register fail.
ProbeFails ==
  /\ phase = "probing" /\ phase' = "removed"
  /\ KrefPut
  /\ UNCHANGED <<dynamic, live, content, files, mm, pins, other>>

RemoveLive ==
  /\ phase = "bound" /\ lock = Free
  /\ phase' = "dying" /\ live' = FALSE
  /\ UNCHANGED <<dynamic, content, files, mm, refs, retained, pins, other>>

\* misc_deregister waits for a running misc_open, which needs the lock.
Deregister ==
  /\ phase = "dying" /\ phase' = "deregistered"
  /\ UNCHANGED <<dynamic, live, content, files, mm, refs, retained, pins, other>>

RemovePut ==
  /\ phase = "deregistered" /\ phase' = "removed"
  /\ KrefPut
  /\ UNCHANGED <<dynamic, live, content, files, mm, pins, other>>

-----------------------------------------------------------------------------
(* Files.                                                                  *)

\* A dynamic device has one owner at a time.
MayOpen == ~(dynamic /\ opened)

Open(f) ==
  /\ phase \in Registered /\ lock = Free /\ file[f] = "closed"
  /\ live /\ MayOpen
  /\ refs' = refs + 1 /\ opened' = TRUE
  /\ fd' = fd \cup {f} /\ file' = [file EXCEPT ![f] = "open"]
  /\ UNCHANGED <<device, content, lock, mm, retained, pins, other>>

\* close(fd); a mapping keeps the file.
Close(f) ==
  /\ f \in fd /\ lock # f
  /\ fd' = fd \ {f}
  /\ UNCHANGED <<device, content, file, opened, lock, mm, refs, retained, pins, other>>

\* hyper_granules_put: the granules nobody else holds are retired.
Unprepare(f) ==
  /\ lock' = f
  /\ retiring' = granules \ other
  /\ granules' = {}

\* Faulty variant: RELEASE does not look at the mappings.
ReleaseWhileMapped == TRUE

\* HYPER_MEMORY_RELEASE is refused with EBUSY while a mapping is counted.
NoMapping == vmas = 0

ReleaseIoctl(f) ==
  /\ f \in fd /\ lock = Free /\ live
  /\ NoMapping
  /\ Unprepare(f)
  /\ UNCHANGED <<device, pages, fd, file, opened, mm, refs, retained, pins, other>>

\* The last reference to the file is gone: hyper_memory_release begins.
LastClose(f) ==
  /\ file[f] = "open" /\ f \notin fd /\ lock = Free
  /\ \A v \in Area : areaFile[v] # f
  /\ file' = [file EXCEPT ![f] = "releasing"]
  /\ Unprepare(f)
  /\ UNCHANGED <<device, pages, fd, opened, mm, refs, retained, pins, other>>

\* A dynamic device forgets its pages, a reserved pool keeps them.
UnpreparedPages == IF dynamic THEN {} ELSE pages

\* No retired granule has a referenced page: hyper_granules_put returns, and
\* with it RELEASE, or hyper_memory_release, which drops the file's reference.
Unprepared(f) ==
  /\ lock = f /\ Granules(Referenced) \cap retiring = {}
  /\ lock' = Free /\ retiring' = {} /\ pages' = UnpreparedPages
  /\ IF file[f] = "releasing"
     THEN /\ file' = [file EXCEPT ![f] = "closed"] /\ opened' = FALSE
          /\ KrefPut
     ELSE UNCHANGED <<file, opened, refs, retained>>
  /\ UNCHANGED <<device, granules, fd, mm, pins, other>>

\* HYPER_MEMORY_PREPARE: all granules are acquired, or nothing is published.
Prepare(f, S) ==
  /\ f \in fd /\ lock = Free /\ live
  /\ dynamic /\ pages = {} /\ S # {}
  /\ pages' = S /\ granules' = Granules(S)
  /\ UNCHANGED <<device, retiring, files, mm, refs, retained, pins, other>>

-----------------------------------------------------------------------------
(* Mappings.                                                               *)

\* Faulty variant: mmap trusts the caller's offset and length.
MmapRange == Page

\* The pages an mmap may ask for: vm_pgoff and count lie within memory->pages.
MmapPages == pages

\* hyper_memory_mmap inserts the pages, or some of them before it fails.
Mmap(f, v, S) ==
  /\ f \in fd /\ lock = Free /\ live /\ area[v] = "none"
  /\ S # {} /\ S \subseteq MmapPages
  /\ areaFile' = [areaFile EXCEPT ![v] = f]
  /\ \/ /\ area' = [area EXCEPT ![v] = "mapped"]
        /\ ptes' = [ptes EXCEPT ![v] = S]
        /\ vmas' = vmas + 1
     \/ /\ area' = [area EXCEPT ![v] = "failing"]
        /\ \E p \in S : ptes' = [ptes EXCEPT ![v] = S \ {p}]
        /\ UNCHANGED vmas
  /\ UNCHANGED <<device, content, files, refs, retained, pins, other>>

\* mm undoes a failed mapping after the driver has returned.
UndoMmap(v) ==
  /\ area[v] = "failing"
  /\ area' = [area EXCEPT ![v] = "none"] /\ ptes' = [ptes EXCEPT ![v] = {}]
  /\ areaFile' = [areaFile EXCEPT ![v] = Free]
  /\ UNCHANGED <<device, content, files, vmas, refs, retained, pins, other>>

\* hyper_vma_open.
VmaOpen == vmas' = vmas + 1

\* fork or a split copies a mapping.
Fork(v, w) ==
  /\ area[v] = "mapped" /\ area[w] = "none" /\ lock = Free
  /\ area' = [area EXCEPT ![w] = "mapped"]
  /\ areaFile' = [areaFile EXCEPT ![w] = areaFile[v]]
  /\ ptes' = [ptes EXCEPT ![w] = ptes[v]]
  /\ VmaOpen
  /\ UNCHANGED <<device, content, files, refs, retained, pins, other>>

\* munmap or exit: mm clears the page tables first and calls the driver later.
Munmap(v) ==
  /\ area[v] = "mapped"
  /\ area' = [area EXCEPT ![v] = "unmapped"] /\ ptes' = [ptes EXCEPT ![v] = {}]
  /\ UNCHANGED <<device, content, files, areaFile, vmas, refs, retained, pins, other>>

\* hyper_vma_close; then mm drops the mapping's reference to the file.
VmaClose(v) ==
  /\ area[v] = "unmapped" /\ lock = Free
  /\ area' = [area EXCEPT ![v] = "none"] /\ areaFile' = [areaFile EXCEPT ![v] = Free]
  /\ vmas' = vmas - 1
  /\ UNCHANGED <<device, content, files, ptes, refs, retained, pins, other>>

\* vhost takes a reference to a page of a mapping, and drops it later.
Pin(v, p) ==
  /\ area[v] = "mapped" /\ p \in ptes[v] \ pins
  /\ pins' = pins \cup {p}
  /\ UNCHANGED <<device, content, files, mm, refs, retained, other>>

Unpin(p) ==
  /\ p \in pins
  /\ pins' = pins \ {p}
  /\ UNCHANGED <<device, content, files, mm, refs, retained, other>>

\* Another device acquires a granule that is not being retired, or gives one up:
\* its put returns only when no page of a granule it was last to hold is used.
OtherGet(g) ==
  /\ g \notin other \cup retiring
  /\ other' = other \cup {g}
  /\ UNCHANGED <<device, content, files, mm, refs, retained, pins>>

OtherPut(g) ==
  /\ g \in other /\ (g \in granules \/ g \notin Granules(Referenced))
  /\ other' = other \ {g}
  /\ UNCHANGED <<device, content, files, mm, refs, retained, pins>>

-----------------------------------------------------------------------------
DeviceStep == Probe \/ Register \/ ProbeFails \/ RemoveLive \/ Deregister \/ RemovePut
FileStep(f) == Open(f) \/ Close(f) \/ ReleaseIoctl(f) \/ LastClose(f) \/ Unprepared(f)
AreaStep(v) == UndoMmap(v) \/ Munmap(v) \/ VmaClose(v)

Next ==
  \/ DeviceStep
  \/ \E p \in Page : Retain(p) \/ Unpin(p)
  \/ \E f \in File : FileStep(f)
  \/ \E f \in File, S \in SUBSET Page : Prepare(f, S) \/ \E v \in Area : Mmap(f, v, S)
  \/ \E v \in Area : AreaStep(v) \/ (\E w \in Area : Fork(v, w)) \/ (\E p \in Page : Pin(v, p))
  \/ \E g \in Granule : OtherGet(g) \/ OtherPut(g)

Spec == Init /\ [][Next]_vars

\* A system call that can go on does, mm finishes undoing a mapping, and devices
\* complete their requests.  Nobody is assumed to unmap or close anything.
FairSpec ==
  /\ Spec
  /\ \A f \in File : WF_vars(Unprepared(f))
  /\ \A v \in Area : WF_vars(UndoMmap(v))
  /\ \A p \in Page : WF_vars(Unpin(p))

-----------------------------------------------------------------------------
(* Properties.                                                             *)

\* No mapping survives the release of its pages: the VMA count, which mmap,
\* fork and munmap maintain around RELEASE, and the file a mapping keeps alive
\* make hyper_memory_unprepare run only when nothing of this device is mapped,
\* also where another device keeps the granule itself from being retired.
MappedIsPrepared ==
  \A v \in Area : area[v] = "mapped" =>
    /\ ptes[v] \subseteq pages
    /\ dynamic => Granules(ptes[v]) \subseteq granules

\* Whatever refers to a page of a grant, a mapping mmap could not complete and
\* a DMA still in flight included, its granule exists.
ReferencedExists ==
  dynamic => Granules(Referenced) \subseteq granules \cup other \cup retiring

\* The object lives exactly as long as the driver or a file refers to it, and
\* when it dies it gives back every page and granule it held, whatever probe or
\* removal was interrupted.
ObjectLifetime ==
  /\ TypeOK
  /\ refs = (IF phase \in DriverHolds THEN 1 ELSE 0) + Cardinality({f \in File : file[f] # "closed"})
  /\ refs = 0 => retained = {} /\ granules = {} /\ retiring = {}
  /\ ~dynamic /\ live => retained = Page

\* RELEASE and the last close return: what they wait for with memory->lock held
\* never depends on somebody unmapping or on an operation that needs the lock.
ReleaseReturns == \A f \in File : lock = f ~> lock # f
=============================================================================
