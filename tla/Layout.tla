------------------------------- MODULE Layout -------------------------------
(* The range checks between a record of the host and an address the appliance *)
(* uses, in the machine's arithmetic: Word stands for 2^64 and sums wrap.      *)
(*   - PREPARE_MEMORY and its extents (src/service/memory.c and                *)
(*     hyper_io_extent_valid of src/include/hyper_io_layout.h);                *)
(*   - the aperture of the guest-memory driver (hyper_io_page_aperture);       *)
(*   - the parts of the virtqueues (queue_address and configure_vhost of       *)
(*     src/service/vhost.c) and the descriptors BIND accepts                   *)
(*     (hyper_io_eventfds_valid of src/include/hyper_io.h);                    *)
(*   - BLOCK_READ (src/service/block.c).                                       *)
(* Every number in a record is any word of Addresses; the properties are       *)
(* stated with sets and unbounded numbers.  The unit is two bytes: a queue of  *)
(* n entries has 8n, 3+n and 3+4n units, aligned to 8, 1 and 2.                *)
EXTENDS BlockPolicy, FiniteSets, Sequences

CONSTANTS
  Page, Granule,          \* 4096 and SZ_2M
  MaxPages,               \* HYPER_IO_MAX_GRANT_PAGES
  Aperture,               \* [start, end] of the driver, from the device tree
  Mappings,               \* addresses mmap may return
  MaxQueues,              \* HYPER_IO_QUEUES
  NetworkQueues,          \* HYPER_IO_NETWORK_QUEUES
  StorageQueues,          \* request_queues + 2, what the service advertises
  StorageRequired,        \* 3
  MaxSize,                \* 128
  DiskBytes, DiskSector,  \* the disk that BLOCK_READ reads
  Requests,               \* base and length of PREPARE_MEMORY
  Addresses, Lengths      \* words that occur in the other records

ASSUME PageSizes ==
  /\ Page \in Nat \ {0} /\ Granule \in Nat \ {0}
  /\ Granule % Page = 0 /\ Word % Granule = 0
ASSUME QueueCounts ==
  /\ NetworkQueues \in 0..MaxQueues /\ StorageQueues \in 0..MaxQueues
  /\ StorageRequired \in 0..StorageQueues
  /\ MaxQueues \in Nat /\ MaxSize \in Nat /\ MaxPages \in Nat
ASSUME RecordWords ==
  /\ Addresses \subseteq 0..(Word - 1) /\ Lengths \subseteq 0..(Word - 1)
  /\ Mappings \subseteq 0..(Word - 1)
  /\ Requests \subseteq [base : 0..(Word - 1), length : 0..(Word - 1)]
  /\ Aperture \in [start : 0..(Word - 1), end : 0..(Word - 1)]
  /\ DiskBytes \in 0..(Word - 1)

VARIABLES
  service,    \* "owner" of the disks, or the "storage" or "network" of a client
  phase,      \* "empty", "extents", "driver", "map", "ready", "queues", "active"
  base, length,  \* guest_base and length of the region
  cursor, pages, \* prepare_memory's progress and its array
  extent,     \* the extent accepted last
  granules,   \* indices the driver acquired
  memory,     \* where the region is mapped
  queue,      \* the queue configure_vhost is at, from 0
  size,       \* its entries
  parts,      \* the ring parts accepted: queue, gpa, start and end
  present,    \* queues with descriptors
  read        \* the BLOCK_READ in progress

grant == <<base, length, cursor, pages, extent, granules>>
rings == <<queue, size, parts, present>>
layout == <<service, phase, base, length, cursor, pages, extent, granules, memory,
            queue, size, parts, present, read>>

None == [alias |-> 0, offset |-> 0, length |-> 0]
NoRead == [offset |-> 0, length |-> 0, at |-> 0]

Words == 0..(Word - 1)

LayoutTypeOK ==
  /\ service \in {"owner", "storage", "network"}
  /\ phase \in {"empty", "extents", "driver", "map", "ready", "queues", "active"}
  /\ base \in Words /\ length \in Words /\ cursor \in Words /\ memory \in Words
  /\ DOMAIN pages \subseteq 0..(MaxPages - 1) /\ \A i \in DOMAIN pages : pages[i] \in Words
  /\ extent \in [alias : Words, offset : Words, length : Words]
  /\ granules \subseteq 0..(Word \div Granule - 1)
  /\ queue \in 0..MaxQueues /\ size \in 0..MaxSize
  /\ parts \in Seq([queue : 0..(MaxQueues - 1), gpa : Words, start : Words, end : Words])
  /\ present \subseteq 0..(MaxQueues - 1)
  /\ read \in [offset : Words, length : Words, at : Words]

LayoutInit ==
  /\ service \in {"owner", "storage", "network"}
  /\ phase = "empty" /\ base = 0 /\ length = 0 /\ cursor = 0 /\ pages = <<>>
  /\ extent = None /\ granules = {} /\ memory = 0
  /\ queue = 0 /\ size = 0 /\ parts = <<>> /\ present = {} /\ read = NoRead

-----------------------------------------------------------------------------
(* PREPARE_MEMORY.                                                         *)

RegionValid(b, l) ==
  /\ l # 0 /\ l % Page = 0 /\ b % Page = 0
  /\ b <= (Word - 1) - l

\* With a token the host describes the pages by extents; without one they are
\* an alias window.  The owner reads into a window of limited length.
Prepare(b, l, token) ==
  /\ phase = "empty" /\ RegionValid(b, l)
  /\ service = "owner" => ~token /\ l <= MaxRead
  /\ token => l \div Page <= MaxPages
  /\ base' = b /\ length' = l
  /\ phase' = IF token THEN "extents" ELSE "map"
  /\ UNCHANGED <<service, cursor, pages, extent, granules, memory, rings, read>>

\* Faulty variant: an extent may run over the top of the address space.
ExtentValidWraps(at, total, alias, offset, len) ==
  /\ at <= total /\ offset = at /\ len # 0 /\ len % Page = 0
  /\ alias % Page = 0 /\ len <= total - at

ExtentValid(at, total, alias, offset, len) ==
  /\ at <= total /\ offset = at /\ len # 0 /\ len % Page = 0
  /\ alias % Page = 0 /\ alias <= (Word - 1) - len /\ len <= total - at

\* One extent of the host, spread over the array of pages.
Extent(alias, offset, len) ==
  /\ phase = "extents" /\ ExtentValid(cursor, length, alias, offset, len)
  /\ LET first == cursor \div Page
         new == first..(first + len \div Page - 1)
     IN  pages' = [i \in DOMAIN pages \cup new |->
                     IF i \in new THEN WordOf(alias + (i - first) * Page) ELSE pages[i]]
  /\ cursor' = WordOf(cursor + len)
  /\ extent' = [alias |-> alias, offset |-> offset, length |-> len]
  /\ UNCHANGED <<service, phase, base, length, granules, memory, rings, read>>

ExtentsEnd ==
  /\ phase = "extents" /\ cursor = length /\ phase' = "driver"
  /\ UNCHANGED <<service, grant, memory, rings, read>>

\* Any refused extent, page or call: prepare_memory releases what it has.
PrepareFails ==
  /\ phase \in {"extents", "driver", "map"} /\ phase' = "empty"
  /\ base' = 0 /\ length' = 0 /\ cursor' = 0 /\ pages' = <<>> /\ extent' = None
  /\ granules' = {}
  /\ UNCHANGED <<service, memory, rings, read>>

PageAperture(alias) ==
  LET granule == alias - (alias % Granule)
  IN  /\ alias % Page = 0
      /\ granule >= Aperture.start /\ granule <= Aperture.end
      /\ Aperture.end - granule >= Granule - 1

\* hyper_memory_prepare maps the granules of the pages; the array is freed.
PreparePages ==
  /\ phase = "driver"
  /\ Cardinality(DOMAIN pages) = length \div Page
  /\ \A i \in DOMAIN pages : PageAperture(pages[i])
  /\ granules' = {pages[i] \div Granule : i \in DOMAIN pages}
  /\ phase' = "map" /\ cursor' = 0 /\ pages' = <<>> /\ extent' = None
  /\ UNCHANGED <<service, base, length, memory, rings, read>>

\* The mapping is below the top of the address space.
Mmap(address) ==
  /\ phase = "map" /\ address + length < Word
  /\ memory' = address /\ phase' = "ready"
  /\ UNCHANGED <<service, grant, rings, read>>

Release ==
  /\ phase \in {"ready", "active"} /\ read = NoRead /\ phase' = "empty"
  /\ base' = 0 /\ length' = 0 /\ granules' = {} /\ memory' = 0
  /\ queue' = 0 /\ size' = 0 /\ parts' = <<>> /\ present' = {}
  /\ UNCHANGED <<service, cursor, pages, extent, read>>

-----------------------------------------------------------------------------
(* ACTIVATE: the queues of configure_vhost, one part at a time.            *)

Count == IF service = "network" THEN NetworkQueues ELSE StorageQueues
Required == IF service = "network" THEN NetworkQueues ELSE StorageRequired

Activate ==
  /\ phase = "ready" /\ service # "owner" /\ phase' = "queues"
  /\ UNCHANGED <<service, grant, memory, rings, read>>

MayBeAbsent(i) == i >= Required

\* A queue of size 0 without addresses.
Absent ==
  /\ phase = "queues" /\ queue < Count /\ size = 0 /\ MayBeAbsent(queue)
  /\ queue' = queue + 1
  /\ UNCHANGED <<service, phase, grant, memory, size, parts, present, read>>

PowersOfTwo == {1, 2, 4, 8, 16, 32, 64, 128}

Queue(n) ==
  /\ phase = "queues" /\ queue < Count /\ size = 0
  /\ n \in 1..MaxSize \cap PowersOfTwo
  /\ size' = n
  /\ UNCHANGED <<service, phase, grant, memory, queue, parts, present, read>>

\* Faulty variant: ends are computed and compared.
QueueAddressSum(gpa, bytes, alignment) ==
  /\ gpa >= base /\ gpa % alignment = 0
  /\ WordOf(gpa + bytes) <= WordOf(base + length)

QueueAddress(gpa, bytes, alignment) ==
  /\ gpa >= base /\ gpa % alignment = 0
  /\ bytes <= length /\ gpa - base <= length - bytes

Overlaps(part, old) == part.start < old.end /\ old.start < part.end

\* Descriptors, available and used ring of the queue at hand, in this order.
PartLength(k) == CASE k = 0 -> 8 * size [] k = 1 -> 3 + size [] k = 2 -> 3 + 4 * size
PartAlignment(k) == CASE k = 0 -> 8 [] k = 1 -> 1 [] k = 2 -> 2

Placed == Cardinality({i \in 1..Len(parts) : parts[i].queue = queue})

Place(gpa) ==
  /\ phase = "queues" /\ size # 0
  /\ QueueAddress(gpa, PartLength(Placed), PartAlignment(Placed))
  /\ LET start == WordOf(memory + (gpa - base))
         part == [queue |-> queue, gpa |-> gpa, start |-> start,
                  end |-> WordOf(start + PartLength(Placed))]
     IN  /\ \A i \in 1..Len(parts) : ~Overlaps(part, parts[i])
         /\ parts' = Append(parts, part)
  /\ IF Placed = 2
     THEN queue' = queue + 1 /\ size' = 0 /\ present' = present \cup {queue}
     ELSE UNCHANGED <<queue, size, present>>
  /\ UNCHANGED <<service, phase, grant, memory, read>>

\* Any refused queue: nothing was opened yet.
Invalid ==
  /\ phase = "queues" /\ phase' = "ready"
  /\ queue' = 0 /\ size' = 0 /\ parts' = <<>> /\ present' = {}
  /\ UNCHANGED <<service, grant, memory, read>>

\* vhost takes the rings and BIND the descriptors.
BindQueues ==
  /\ phase = "queues" /\ queue = Count /\ phase' = "active"
  /\ UNCHANGED <<service, grant, memory, rings, read>>

\* hyper_io_eventfds_valid: a network has exactly two queues, a disk at least
\* three.  The driver does not know how many the service advertises.
EventfdsValid(fds) ==
  LET maximum == IF service = "network" THEN NetworkQueues ELSE MaxQueues
  IN  0..(Required - 1) \subseteq fds /\ fds \subseteq 0..(maximum - 1)

-----------------------------------------------------------------------------
(* BLOCK_READ of the owner.                                                *)

Read(offset, len, at) ==
  /\ phase = "ready" /\ service = "owner" /\ read = NoRead
  /\ ReadValid(DiskBytes, DiskSector, offset, len, length, at)
  /\ offset < Word \div 2 /\ len <= Word \div 2 - 1 - offset  \* INT64_MAX
  /\ read' = [offset |-> offset, length |-> len, at |-> at]
  /\ UNCHANGED <<service, phase, grant, memory, rings>>

ReadEnds ==
  /\ read # NoRead /\ read' = NoRead
  /\ UNCHANGED <<service, phase, grant, memory, rings>>

-----------------------------------------------------------------------------
Extents == \E alias, offset \in Addresses, len \in Lengths : Extent(alias, offset, len)
Reads == \E offset, at \in Addresses, len \in Lengths : Read(offset, len, at)

LayoutNext ==
  \/ \E r \in Requests, token \in BOOLEAN : Prepare(r.base, r.length, token)
  \/ phase = "extents" /\ Extents
  \/ ExtentsEnd \/ PrepareFails \/ PreparePages
  \/ \E address \in Mappings : Mmap(address)
  \/ Release \/ Activate \/ Absent \/ Invalid \/ BindQueues
  \/ \E n \in 1..(MaxSize + 1) : Queue(n)
  \/ \E gpa \in Addresses : Place(gpa)
  \/ phase = "ready" /\ service = "owner" /\ Reads
  \/ ReadEnds

LayoutSpec == LayoutInit /\ [][LayoutNext]_layout

-----------------------------------------------------------------------------
(* Properties.                                                             *)

\* The array of pages is written from its start, without a hole and never past
\* its end, whatever extents the host describes.
PagesInBounds ==
  phase \in {"extents", "driver"} =>
    /\ DOMAIN pages = 0..(cursor \div Page - 1)
    /\ Cardinality(DOMAIN pages) * Page <= length

\* Every page of an extent is the one the host described: no address wrapped
\* around and no later extent overwrote it.
ExtentExact ==
  \A k \in 0..(extent.length \div Page - 1) :
    /\ (extent.offset \div Page + k) \in DOMAIN pages
    /\ pages[extent.offset \div Page + k] = extent.alias + k * Page

\* The driver maps whole granules, and only those that lie in its aperture:
\* it never makes memory of the appliance itself reachable.
GranulesInAperture ==
  \A g \in granules :
    (g * Granule)..(g * Granule + Granule - 1) \subseteq Aperture.start..Aperture.end

RingUnits(p) == p.start..(p.end - 1)

\* The rings given to vhost are pairwise disjoint, lie in the mapping and are
\* the guest's: an accepted address never wraps around.
RingsInMemory ==
  \A i \in 1..Len(parts) :
    /\ RingUnits(parts[i]) # {}
    /\ RingUnits(parts[i]) \subseteq memory..(memory + length - 1)
    /\ parts[i].gpa - base = parts[i].start - memory
    /\ \A j \in 1..Len(parts) : i # j => RingUnits(parts[i]) \cap RingUnits(parts[j]) = {}

\* What the service accepts as a set of queues, the notification driver accepts
\* as a set of descriptors: no valid activation fails at BIND for its shape.
ActivationBindable == phase = "active" => EventfdsValid(present)

\* What prepare_memory and the guest-memory driver accept of a grant: the page
\* array is filled within its bounds with exactly the pages of the extents, and
\* every granule the driver will map lies in the aperture.
GrantSound == LayoutTypeOK /\ PagesInBounds /\ ExtentExact /\ GranulesInAperture

\* What ACTIVATE accepts: ring parts inside the client's memory, apart from each
\* other and translated right, in a set of queues that BIND takes.
ActivationSound == RingsInMemory /\ ActivationBindable

\* A disk read stays within the disk and within the memory of the owner.
ReadInBounds ==
  read # NoRead => RefReadInBounds(DiskBytes, read.offset, read.length, length, read.at)
=============================================================================
