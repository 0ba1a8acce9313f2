-------------------------- MODULE GuestMemoryProofs --------------------------
(***************************************************************************)
(* One guest-memory device for every set of pages, granules, files and     *)
(* mappings: no mapping outlives the release of its pages, every referenced *)
(* page has its granule, and the object's references are counted exactly.  *)
(***************************************************************************)
EXTENDS GuestMemory, FiniteSetTheorems, TLAPS

OpenFiles == {f \in File : file[f] # "closed"}
Counted == {v \in Area : area[v] \in {"mapped", "unmapped"}}
DriverRefs == IF phase \in DriverHolds THEN 1 ELSE 0

\* TypeOK without the counters, whose bounds follow from what they count.
Types ==
  /\ phase \in {"unbound", "removed"} \cup DriverHolds
  /\ dynamic \in BOOLEAN /\ live \in BOOLEAN /\ opened \in BOOLEAN
  /\ pages \in SUBSET Page /\ granules \in SUBSET Granule
  /\ retained \in SUBSET Page
  /\ lock \in File \cup {Free}
  /\ fd \in SUBSET File /\ file \in [File -> {"closed", "open", "releasing"}]
  /\ area \in [Area -> {"none", "failing", "mapped", "unmapped"}]
  /\ areaFile \in [Area -> File \cup {Free}] /\ ptes \in [Area -> SUBSET Page]
  /\ pins \in SUBSET Page
  /\ other \in SUBSET Granule /\ retiring \in SUBSET Granule

\* The kref and the count of mappings.
Counts ==
  /\ refs = DriverRefs + Cardinality(OpenFiles)
  /\ vmas = Cardinality(Counted)

\* Before probe there is nothing; live is set exactly while the driver is bound.
Phases ==
  /\ phase = "unbound" => /\ OpenFiles = {} /\ pages = {} /\ granules = {} /\ retiring = {}
                          /\ retained = {} /\ pins = {}
  /\ live <=> phase = "bound"

\* A reserved pool: probe retains its pages, the last kref_put returns them.
Pool ==
  ~dynamic =>
    /\ granules = {} /\ retiring = {} /\ retained \subseteq pages
    /\ live => retained = Page
    /\ refs = 0 => retained = {}

\* A dynamic device: one owner, whose prepared pages hold the granules.
Grant ==
  dynamic =>
    /\ retained = {}
    /\ lock = Free => granules = Granules(pages)
    /\ \A f, g \in OpenFiles : f = g
    /\ ~opened => OpenFiles = {}
    /\ OpenFiles = {} => pages = {}

\* Who holds the lock while hyper_memory_unprepare waits.
Locking ==
  /\ lock = Free => retiring = {}
  /\ lock # Free => granules = {} /\ file[lock] # "closed"
  /\ \A f \in File : /\ file[f] = "releasing" => lock = f
                     /\ f \in fd => file[f] = "open"

\* A mapping keeps its file open; its page-table entries are prepared pages.
Mappings ==
  \A v \in Area :
    /\ area[v] \in {"none", "unmapped"} => ptes[v] = {}
    /\ area[v] # "none" => areaFile[v] \in File /\ file[areaFile[v]] = "open"
    /\ area[v] = "mapped" => ptes[v] \subseteq pages
    /\ dynamic /\ lock # Free => area[v] \in {"none", "failing"}

Inv ==
  /\ Types
  /\ Counts
  /\ Phases
  /\ Pool
  /\ Grant
  /\ Locking
  /\ Mappings
  /\ ReferencedExists

-----------------------------------------------------------------------------
\* The counters count finite sets.
LEMMA CountsFinite ==
  /\ IsFiniteSet(OpenFiles) /\ Cardinality(OpenFiles) \in 0..Cardinality(File)
  /\ IsFiniteSet(Counted) /\ Cardinality(Counted) \in 0..Cardinality(Area)
<1>1. OpenFiles \in SUBSET File /\ Counted \in SUBSET Area
  BY DEF OpenFiles, Counted
<1>2. /\ IsFiniteSet(OpenFiles) /\ Cardinality(OpenFiles) <= Cardinality(File)
      /\ IsFiniteSet(Counted) /\ Cardinality(Counted) <= Cardinality(Area)
  BY <1>1, FileFinite, AreaFinite, FS_Subset
<1>3. /\ Cardinality(OpenFiles) \in Nat /\ Cardinality(File) \in Nat
      /\ Cardinality(Counted) \in Nat /\ Cardinality(Area) \in Nat
  BY <1>2, FileFinite, AreaFinite, FS_CardinalityType
<1>. QED BY <1>2, <1>3

\* The invariant holds before probe.
LEMMA InitInv == Init => Inv
<1>. SUFFICES ASSUME Init PROVE Inv
  OBVIOUS
<1>1. Types
  BY DEF Init, Types
<1>2. OpenFiles = {} /\ Counted = {} /\ Referenced = {}
  BY DEF Init, OpenFiles, Counted, Referenced
<1>3. Counts
  BY <1>2, FS_EmptySet DEF Init, Counts, DriverRefs, DriverHolds
<1>4. Phases /\ Pool /\ Grant
  BY <1>2 DEF Init, Phases, Pool, Grant
<1>5. Locking /\ Mappings /\ ReferencedExists
  BY <1>2 DEF Init, Locking, Mappings, ReferencedExists
<1>. QED BY <1>1, <1>3, <1>4, <1>5 DEF Inv

\* The derived sets change only with the variables they are read from.
LEMMA SameSets ==
  /\ file' = file => OpenFiles' = OpenFiles
  /\ area' = area => Counted' = Counted
  /\ pins' = pins /\ ptes' = ptes => Referenced' = Referenced
  BY DEF OpenFiles, Counted, Referenced

-----------------------------------------------------------------------------
(* Probe and removal.                                                      *)

\* The driver's reference is taken by probe.
LEMMA ProbeStep ==
  ASSUME Inv, Probe PROVE Inv'
<1>. USE DEF device, content, files, mm
<1>0. /\ phase = "unbound" /\ phase' = "probing" /\ dynamic' \in BOOLEAN /\ refs' = 1
      /\ UNCHANGED <<live, content, files, mm, retained, pins, other>>
      /\ OpenFiles = {} /\ pages = {} /\ granules = {} /\ retiring = {} /\ retained = {} /\ pins = {}
  BY DEF Probe, Inv, Phases
<1>1. OpenFiles' = OpenFiles /\ Counted' = Counted /\ Referenced' = Referenced
  BY <1>0, SameSets
<1>2. Types'
  BY <1>0 DEF Inv, Types, DriverHolds
<1>3. Counts'
  BY <1>0, <1>1, FS_EmptySet DEF Inv, Counts, DriverRefs, DriverHolds
<1>4. \A v \in Area : area[v] = "none" /\ ptes[v] = {}
  BY <1>0 DEF Inv, Types, Mappings, OpenFiles
<1>5. Referenced = {}
  BY <1>0, <1>4 DEF Referenced
<1>6. lock = Free
  BY <1>0 DEF Inv, Types, Locking, OpenFiles
<1>7. Phases' /\ Pool' /\ Grant'
  <2>1. Granules({}) = {}
    BY DEF Granules
  <2>. QED BY <1>0, <1>1, <1>6, <2>1 DEF Inv, Phases, Pool, Grant, Granules
<1>8. Locking' /\ Mappings'
  BY <1>0, <1>4, <1>6 DEF Inv, Locking, Mappings
<1>9. ReferencedExists'
  BY <1>0, <1>1, <1>5 DEF ReferencedExists, Granules
<1>. QED BY <1>2, <1>3, <1>7, <1>8, <1>9 DEF Inv

\* The steps of probe and removal that take or give no reference.
LEMMA PhaseSteps ==
  ASSUME Inv, Register \/ RemoveLive \/ Deregister PROVE Inv'
<1>. USE DEF device, content, files, mm
<1>0. /\ UNCHANGED <<dynamic, content, files, mm, refs, retained, pins, other>>
      /\ phase \in DriverHolds /\ phase' \in {"bound", "dying", "deregistered"}
      /\ live' \in BOOLEAN /\ (live' <=> phase' = "bound")
      /\ live' => live \/ dynamic \/ retained = Page
  <2>1. CASE Register
    BY <2>1 DEF Register, DriverHolds
  <2>2. CASE RemoveLive
    BY <2>2 DEF RemoveLive, DriverHolds
  <2>3. CASE Deregister
    BY <2>3 DEF Deregister, DriverHolds, Inv, Phases, Types
  <2>. QED BY <2>1, <2>2, <2>3
<1>1. OpenFiles' = OpenFiles /\ Counted' = Counted /\ Referenced' = Referenced
  BY <1>0, SameSets
<1>2. Types'
  BY <1>0 DEF Inv, Types, DriverHolds
<1>3. Counts'
  BY <1>0, <1>1 DEF Inv, Counts, DriverRefs, DriverHolds
<1>4. Phases' /\ Pool' /\ Grant'
  BY <1>0, <1>1 DEF Inv, Phases, Pool, Grant, Granules
<1>5. Locking' /\ Mappings' /\ ReferencedExists'
  BY <1>0, <1>1 DEF Inv, Locking, Mappings, ReferencedExists, Granules
<1>. QED BY <1>2, <1>3, <1>4, <1>5 DEF Inv

\* The driver drops its reference; the last one returns the pool.
LEMMA PutSteps ==
  ASSUME Inv, ProbeFails \/ RemovePut PROVE Inv'
<1>. USE DEF device, content, files, mm
<1>0. /\ UNCHANGED <<dynamic, live, content, files, mm, pins, other>>
      /\ phase \in DriverHolds \ {"bound"} /\ phase' = "removed" /\ refs' = refs - 1
      /\ retained' = IF refs = 1 /\ ~dynamic THEN retained \ pages ELSE retained
  BY DEF ProbeFails, RemovePut, KrefPut, DriverHolds
<1>1. OpenFiles' = OpenFiles /\ Counted' = Counted /\ Referenced' = Referenced
  BY <1>0, SameSets
<1>2. Types'
  BY <1>0 DEF Inv, Types
<1>3. Counts' /\ refs \in Nat
  BY <1>0, <1>1, CountsFinite DEF Inv, Counts, DriverRefs, DriverHolds
<1>4. Phases' /\ Pool' /\ Grant'
  BY <1>0, <1>1, <1>3 DEF Inv, Phases, Pool, Grant, Granules
<1>5. Locking' /\ Mappings' /\ ReferencedExists'
  BY <1>0, <1>1 DEF Inv, Locking, Mappings, ReferencedExists, Granules
<1>. QED BY <1>2, <1>3, <1>4, <1>5 DEF Inv

\* Probe retains one more page of the pool.
LEMMA RetainStep ==
  ASSUME Inv, NEW p \in Page, Retain(p) PROVE Inv'
<1>. USE DEF device, content, files, mm
<1>0. /\ phase = "probing" /\ ~dynamic
      /\ pages' = pages \cup {p} /\ retained' = retained \cup {p}
      /\ UNCHANGED <<device, granules, retiring, files, mm, refs, pins, other>>
  BY DEF Retain
<1>1. OpenFiles' = OpenFiles /\ Counted' = Counted /\ Referenced' = Referenced
  BY <1>0, SameSets
<1>2. Types'
  BY <1>0 DEF Inv, Types
<1>3. Counts' /\ refs # 0
  BY <1>0, <1>1, CountsFinite DEF Inv, Counts, DriverRefs, DriverHolds
<1>4. Phases' /\ Pool' /\ Grant'
  BY <1>0, <1>1, <1>3 DEF Inv, Phases, Pool, Grant, Granules
<1>5. Locking' /\ Mappings' /\ ReferencedExists'
  BY <1>0, <1>1 DEF Inv, Locking, Mappings, ReferencedExists, Granules
<1>. QED BY <1>2, <1>3, <1>4, <1>5 DEF Inv

-----------------------------------------------------------------------------
(* Files.                                                                  *)

\* An open file holds a reference; a dynamic device has one at a time.
LEMMA OpenStep ==
  ASSUME Inv, NEW f \in File, Open(f) PROVE Inv'
<1>. USE DEF device, content, files, mm
<1>0. /\ lock = Free /\ file[f] = "closed" /\ live /\ ~(dynamic /\ opened)
      /\ refs' = refs + 1 /\ opened' = TRUE
      /\ fd' = fd \cup {f} /\ file' = [file EXCEPT ![f] = "open"]
      /\ UNCHANGED <<device, content, lock, mm, retained, pins, other>>
  BY DEF Open, MayOpen
<1>1. Counted' = Counted /\ Referenced' = Referenced
  BY <1>0, SameSets
<1>2. Types'
  BY <1>0 DEF Inv, Types
<1>3. OpenFiles' = OpenFiles \cup {f} /\ f \notin OpenFiles
  BY <1>0 DEF Inv, Types, OpenFiles
<1>4. Cardinality(OpenFiles') = Cardinality(OpenFiles) + 1
  BY <1>3, CountsFinite, FS_AddElement
<1>5. Counts' /\ refs' # 0
  BY <1>0, <1>1, <1>4, CountsFinite DEF Inv, Counts, DriverRefs, DriverHolds
<1>6. Phases' /\ Pool' /\ Grant'
  BY <1>0, <1>3, <1>5 DEF Inv, Types, Phases, Pool, Grant, Granules
<1>7. Locking'
  BY <1>0, <1>2 DEF Inv, Types, Locking
<1>8. Mappings'
  BY <1>0 DEF Inv, Types, Mappings
<1>9. ReferencedExists'
  BY <1>0, <1>1 DEF Inv, ReferencedExists, Granules
<1>. QED BY <1>2, <1>5, <1>6, <1>7, <1>8, <1>9 DEF Inv

\* A descriptor goes away; the file stays for the mappings or the last close.
LEMMA CloseStep ==
  ASSUME Inv, NEW f \in File, Close(f) PROVE Inv'
<1>. USE DEF device, content, files, mm
<1>0. /\ fd' = fd \ {f}
      /\ UNCHANGED <<device, content, file, opened, lock, mm, refs, retained, pins, other>>
  BY DEF Close
<1>1. OpenFiles' = OpenFiles /\ Counted' = Counted /\ Referenced' = Referenced
  BY <1>0, SameSets
<1>2. Types' /\ Counts'
  BY <1>0, <1>1 DEF Inv, Types, Counts, DriverRefs
<1>3. Phases' /\ Pool' /\ Grant'
  BY <1>0, <1>1 DEF Inv, Phases, Pool, Grant, Granules
<1>4. Locking' /\ Mappings' /\ ReferencedExists'
  BY <1>0, <1>1 DEF Inv, Types, Locking, Mappings, ReferencedExists, Granules
<1>. QED BY <1>2, <1>3, <1>4 DEF Inv

\* hyper_memory_unprepare begins, in RELEASE or in the last close, when nothing
\* of a dynamic device is mapped.
LEMMA UnprepareStep ==
  ASSUME Inv, NEW f \in File, ReleaseIoctl(f) \/ LastClose(f) PROVE Inv'
<1>. USE DEF device, content, files, mm
<1>0. /\ lock = Free /\ lock' = f /\ retiring' = granules \ other /\ granules' = {}
      /\ UNCHANGED <<device, pages, fd, opened, mm, refs, retained, pins, other>>
      /\ file[f] = "open"
      /\ file' = file \/ (f \notin fd /\ file' = [file EXCEPT ![f] = "releasing"])
  BY DEF ReleaseIoctl, LastClose, Unprepare, Inv, Locking
<1>1. Counted' = Counted /\ Referenced' = Referenced
  BY <1>0, SameSets
<1>2. OpenFiles' = OpenFiles
  BY <1>0 DEF Inv, Types, OpenFiles
<1>3. Types' /\ Counts'
  BY <1>0, <1>1, <1>2 DEF Inv, Types, Counts, DriverRefs
<1>4. Phases'
  BY <1>0, <1>2 DEF Inv, Phases, OpenFiles
<1>5. Pool' /\ Grant'
  BY <1>0, <1>2, FreeFresh DEF Inv, Pool, Grant
<1>6. Locking'
  BY <1>0, FreeFresh DEF Inv, Types, Locking
<1>7. ASSUME dynamic, NEW v \in Area PROVE area[v] \in {"none", "failing"}
  <2>1. CASE ReleaseIoctl(f)
    <3>1. Counted = {}
      BY <2>1, CountsFinite, FS_EmptySet DEF ReleaseIoctl, NoMapping, Inv, Counts
    <3>. QED BY <3>1 DEF Counted, Inv, Types
  <2>2. CASE LastClose(f)
    <3>1. areaFile[v] # f /\ f \in OpenFiles
      BY <1>0, <2>2 DEF LastClose, OpenFiles
    <3>2. ASSUME area[v] # "none" PROVE areaFile[v] = f
      BY <1>7, <3>1, <3>2 DEF Inv, Mappings, Grant, OpenFiles
    <3>. QED BY <3>1, <3>2
  <2>. QED BY <2>1, <2>2
<1>8. Mappings'
  <2>1. \A v \in Area : area[v] # "none" => file'[areaFile[v]] = "open"
    <3>1. CASE ReleaseIoctl(f)
      BY <3>1 DEF ReleaseIoctl, Inv, Mappings
    <3>2. CASE LastClose(f)
      BY <1>0, <3>2 DEF LastClose, Inv, Types, Mappings
    <3>. QED BY <3>1, <3>2
  <2>. QED BY <1>0, <1>7, <2>1 DEF Inv, Mappings
<1>9. ReferencedExists'
  BY <1>0, <1>1 DEF Inv, Locking, ReferencedExists, Granules
<1>. QED BY <1>3, <1>4, <1>5, <1>6, <1>8, <1>9 DEF Inv

\* hyper_granules_put has returned: a dynamic device has no pages any more, and
\* a closing file drops its reference.
LEMMA UnpreparedStep ==
  ASSUME Inv, NEW f \in File, Unprepared(f) PROVE Inv'
<1>. USE DEF device, content, files, mm
<1>0. /\ lock = f /\ Granules(Referenced) \cap retiring = {}
      /\ lock' = Free /\ retiring' = {} /\ pages' = IF dynamic THEN {} ELSE pages
      /\ UNCHANGED <<device, granules, fd, mm, pins, other>>
      /\ granules = {} /\ file[f] # "closed"
  BY FreeFresh DEF Unprepared, UnpreparedPages, Inv, Locking
<1>1. Counted' = Counted /\ Referenced' = Referenced
  BY <1>0, SameSets
<1>2. ReferencedExists'
  BY <1>0, <1>1 DEF Inv, ReferencedExists, Granules
<1>3. \A v \in Area : area[v] = "mapped" => ptes[v] \subseteq pages'
  BY <1>0, FreeFresh DEF Inv, Mappings
<1>4. CASE file[f] = "releasing"
  <2>0. /\ file' = [file EXCEPT ![f] = "closed"] /\ opened' = FALSE /\ refs' = refs - 1
        /\ retained' = IF refs = 1 /\ ~dynamic THEN retained \ pages ELSE retained
    BY <1>4 DEF Unprepared, KrefPut
  <2>1. OpenFiles' = OpenFiles \ {f} /\ f \in OpenFiles
    BY <1>0, <2>0 DEF Inv, Types, OpenFiles
  <2>2. Cardinality(OpenFiles') = Cardinality(OpenFiles) - 1 /\ Cardinality(OpenFiles) # 0
    BY <2>1, CountsFinite, FS_RemoveElement, FS_EmptySet
  <2>3. Counts' /\ refs \in Nat
    BY <1>0, <1>1, <2>0, <2>2, CountsFinite DEF Inv, Counts, DriverRefs
  <2>4. Types'
    BY <1>0, <2>0 DEF Inv, Types
  <2>5. phase # "unbound" /\ (live => refs # 1)
    BY <2>1, <2>2, CountsFinite DEF Inv, Phases, Counts, DriverRefs, DriverHolds
  <2>6. Phases'
    BY <1>0, <2>5 DEF Inv, Phases
  <2>7. Pool'
    BY <1>0, <2>0, <2>3, <2>5 DEF Inv, Pool
  <2>8. Grant'
    <3>1. dynamic => OpenFiles' = {}
      BY <2>1 DEF Inv, Grant
    <3>. QED BY <1>0, <2>0, <3>1 DEF Inv, Grant, Granules
  <2>9. Locking'
    BY <1>0, <1>4, <2>0, FreeFresh DEF Inv, Types, Locking
  <2>10. Mappings'
    BY <1>0, <1>3, <1>4, <2>0 DEF Inv, Types, Mappings
  <2>. QED BY <1>2, <2>3, <2>4, <2>6, <2>7, <2>8, <2>9, <2>10 DEF Inv
<1>5. CASE file[f] # "releasing"
  <2>0. UNCHANGED <<file, opened, refs, retained>>
    BY <1>5 DEF Unprepared
  <2>1. OpenFiles' = OpenFiles /\ f \in OpenFiles
    BY <1>0, <2>0 DEF OpenFiles
  <2>2. Types' /\ Counts'
    BY <1>0, <1>1, <2>0, <2>1 DEF Inv, Types, Counts, DriverRefs
  <2>3. Phases' /\ Pool' /\ Grant'
    BY <1>0, <2>0, <2>1 DEF Inv, Phases, Pool, Grant, Granules
  <2>4. Locking'
    BY <1>0, <1>5, <2>0, FreeFresh DEF Inv, Types, Locking
  <2>5. Mappings'
    BY <1>0, <1>3, <2>0 DEF Inv, Types, Mappings
  <2>. QED BY <1>2, <2>2, <2>3, <2>4, <2>5 DEF Inv
<1>. QED BY <1>4, <1>5

\* PREPARE publishes pages and granules together.
LEMMA PrepareStep ==
  ASSUME Inv, NEW f \in File, NEW S \in SUBSET Page, Prepare(f, S) PROVE Inv'
<1>. USE DEF device, content, files, mm
<1>0. /\ f \in fd /\ lock = Free /\ live /\ dynamic /\ pages = {}
      /\ pages' = S /\ granules' = Granules(S)
      /\ UNCHANGED <<device, retiring, files, mm, refs, retained, pins, other>>
  BY DEF Prepare
<1>1. OpenFiles' = OpenFiles /\ Counted' = Counted /\ Referenced' = Referenced
  BY <1>0, SameSets
<1>2. f \in OpenFiles /\ granules = {} /\ Granules(S) \in SUBSET Granule
  BY <1>0, GranuleOfType DEF Inv, Locking, OpenFiles, Grant, Granules
<1>3. Types' /\ Counts'
  BY <1>0, <1>1, <1>2 DEF Inv, Types, Counts, DriverRefs
<1>4. Phases' /\ Pool' /\ Grant'
  BY <1>0, <1>1, <1>2 DEF Inv, Phases, Pool, Grant, Granules
<1>5. Locking' /\ Mappings'
  BY <1>0 DEF Inv, Locking, Mappings
<1>6. ReferencedExists'
  BY <1>0, <1>1, <1>2 DEF Inv, ReferencedExists, Granules
<1>. QED BY <1>3, <1>4, <1>5, <1>6 DEF Inv

-----------------------------------------------------------------------------
(* Mappings, references and other devices.                                 *)

\* mmap inserts prepared pages only, and a mapping it counts is complete.
LEMMA MmapStep ==
  ASSUME Inv, NEW f \in File, NEW v \in Area, NEW S \in SUBSET Page, Mmap(f, v, S) PROVE Inv'
<1>. USE DEF device, content, files, mm
<1>0. /\ f \in fd /\ lock = Free /\ area[v] = "none" /\ S \subseteq pages
      /\ areaFile' = [areaFile EXCEPT ![v] = f]
      /\ UNCHANGED <<device, content, files, refs, retained, pins, other>>
  BY DEF Mmap, MmapPages
<1>1. PICK T \in SUBSET S : ptes' = [ptes EXCEPT ![v] = T]
  BY DEF Mmap
<1>2. \/ area' = [area EXCEPT ![v] = "mapped"] /\ vmas' = vmas + 1
      \/ area' = [area EXCEPT ![v] = "failing"] /\ vmas' = vmas
  BY DEF Mmap
<1>3. OpenFiles' = OpenFiles
  BY <1>0, SameSets
<1>4. Types'
  BY <1>0, <1>1, <1>2 DEF Inv, Types
<1>5. Counts'
  <2>1. CASE area' = [area EXCEPT ![v] = "mapped"] /\ vmas' = vmas + 1
    <3>1. Counted' = Counted \cup {v} /\ v \notin Counted
      BY <1>0, <2>1 DEF Inv, Types, Counted
    <3>2. Cardinality(Counted') = Cardinality(Counted) + 1
      BY <3>1, CountsFinite, FS_AddElement
    <3>. QED BY <1>0, <1>3, <2>1, <3>2 DEF Inv, Counts, DriverRefs
  <2>2. CASE area' = [area EXCEPT ![v] = "failing"] /\ vmas' = vmas
    <3>1. Counted' = Counted
      BY <1>0, <2>2 DEF Inv, Types, Counted
    <3>. QED BY <1>0, <1>3, <2>2, <3>1 DEF Inv, Counts, DriverRefs
  <2>. QED BY <1>2, <2>1, <2>2
<1>6. Phases' /\ Pool' /\ Grant'
  BY <1>0, <1>3 DEF Inv, Phases, Pool, Grant, Granules
<1>7. Locking'
  BY <1>0 DEF Inv, Locking
<1>8. Mappings'
  <2>1. file[f] = "open"
    BY <1>0 DEF Inv, Locking
  <2>. QED BY <1>0, <1>1, <1>2, <2>1 DEF Inv, Types, Mappings
<1>9. ReferencedExists'
  <2>1. Referenced' \subseteq Referenced \cup pages
    BY <1>0, <1>1 DEF Inv, Types, Referenced
  <2>2. dynamic => Granules(Referenced') \subseteq Granules(Referenced) \cup granules
    BY <1>0, <2>1 DEF Inv, Grant, Granules
  <2>. QED BY <1>0, <2>2 DEF Inv, ReferencedExists, Granules
<1>. QED BY <1>4, <1>5, <1>6, <1>7, <1>8, <1>9 DEF Inv

\* A copied mapping is counted by hyper_vma_open.
LEMMA ForkStep ==
  ASSUME Inv, NEW v \in Area, NEW w \in Area, Fork(v, w) PROVE Inv'
<1>. USE DEF device, content, files, mm
<1>0. /\ area[v] = "mapped" /\ area[w] = "none" /\ lock = Free /\ vmas' = vmas + 1
      /\ area' = [area EXCEPT ![w] = "mapped"] /\ areaFile' = [areaFile EXCEPT ![w] = areaFile[v]]
      /\ ptes' = [ptes EXCEPT ![w] = ptes[v]]
      /\ UNCHANGED <<device, content, files, refs, retained, pins, other>>
  BY DEF Fork, VmaOpen
<1>1. OpenFiles' = OpenFiles
  BY <1>0, SameSets
<1>2. Referenced' \subseteq Referenced
  BY <1>0 DEF Inv, Types, Referenced
<1>3. Counted' = Counted \cup {w} /\ w \notin Counted
  BY <1>0 DEF Inv, Types, Counted
<1>4. Cardinality(Counted') = Cardinality(Counted) + 1
  BY <1>3, CountsFinite, FS_AddElement
<1>5. Types' /\ Counts'
  BY <1>0, <1>1, <1>4 DEF Inv, Types, Counts, DriverRefs
<1>6. Phases' /\ Pool' /\ Grant'
  BY <1>0, <1>1 DEF Inv, Phases, Pool, Grant, Granules
<1>7. Locking' /\ Mappings'
  BY <1>0 DEF Inv, Types, Locking, Mappings
<1>8. ReferencedExists'
  BY <1>0, <1>2 DEF Inv, ReferencedExists, Granules
<1>. QED BY <1>5, <1>6, <1>7, <1>8 DEF Inv

\* mm takes a mapping apart, around the driver's callback.
LEMMA AreaSteps ==
  ASSUME Inv, NEW v \in Area, AreaStep(v) PROVE Inv'
<1>. USE DEF device, content, files, mm
<1>0. /\ UNCHANGED <<device, content, files, refs, retained, pins, other>>
      /\ ptes' = ptes \/ ptes' = [ptes EXCEPT ![v] = {}]
      /\ \/ /\ area[v] = "failing" /\ area' = [area EXCEPT ![v] = "none"]
            /\ areaFile' = [areaFile EXCEPT ![v] = Free] /\ vmas' = vmas
            /\ ptes' = [ptes EXCEPT ![v] = {}]
         \/ /\ area[v] = "mapped" /\ area' = [area EXCEPT ![v] = "unmapped"]
            /\ areaFile' = areaFile /\ vmas' = vmas
            /\ ptes' = [ptes EXCEPT ![v] = {}]
         \/ /\ area[v] = "unmapped" /\ area' = [area EXCEPT ![v] = "none"]
            /\ areaFile' = [areaFile EXCEPT ![v] = Free] /\ vmas' = vmas - 1
            /\ ptes' = ptes /\ lock = Free
  BY DEF AreaStep, UndoMmap, Munmap, VmaClose
<1>1. OpenFiles' = OpenFiles
  BY <1>0, SameSets
<1>2. Referenced' \subseteq Referenced
  BY <1>0 DEF Inv, Types, Referenced
<1>3. Types'
  BY <1>0 DEF Inv, Types
<1>4. Counts'
  <2>1. CASE area[v] = "unmapped"
    <3>1. Counted' = Counted \ {v} /\ v \in Counted
      BY <1>0, <2>1 DEF Inv, Types, Counted
    <3>2. Cardinality(Counted') = Cardinality(Counted) - 1
      BY <3>1, CountsFinite, FS_RemoveElement
    <3>. QED BY <1>0, <1>1, <2>1, <3>2 DEF Inv, Counts, DriverRefs
  <2>2. CASE area[v] # "unmapped"
    <3>1. Counted' = Counted
      BY <1>0, <2>2 DEF Inv, Types, Counted
    <3>. QED BY <1>0, <1>1, <2>2, <3>1 DEF Inv, Counts, DriverRefs
  <2>. QED BY <2>1, <2>2
<1>5. Phases' /\ Pool' /\ Grant'
  BY <1>0, <1>1 DEF Inv, Phases, Pool, Grant, Granules
<1>6. Locking'
  BY <1>0 DEF Inv, Locking
<1>7. Mappings'
  BY <1>0 DEF Inv, Types, Mappings, Locking
<1>8. ReferencedExists'
  BY <1>0, <1>2 DEF Inv, ReferencedExists, Granules
<1>. QED BY <1>3, <1>4, <1>5, <1>6, <1>7, <1>8 DEF Inv

\* Page references come from mappings, and go.
LEMMA PinSteps ==
  ASSUME Inv, (\E v \in Area, p \in Page : Pin(v, p)) \/ (\E p \in Page : Unpin(p)) PROVE Inv'
<1>. USE DEF device, content, files, mm
<1>0. /\ UNCHANGED <<device, content, files, mm, refs, retained, other>>
      /\ pins' \in SUBSET Page /\ pins' \subseteq Referenced
      /\ phase = "unbound" => pins' = {}
  <2>1. ASSUME NEW v \in Area, NEW p \in Page, Pin(v, p)
        PROVE  pins' \in SUBSET Page /\ pins' \subseteq Referenced /\ phase # "unbound"
    BY <2>1 DEF Pin, Referenced, Inv, Types, Mappings, Phases, OpenFiles
  <2>2. ASSUME NEW p \in Page, Unpin(p)
        PROVE  pins' \in SUBSET Page /\ pins' \subseteq Referenced /\ (phase = "unbound" => pins' = {})
    BY <2>2 DEF Unpin, Referenced, Inv, Types, Phases
  <2>3. UNCHANGED <<device, content, files, mm, refs, retained, other>>
    BY DEF Pin, Unpin
  <2>. QED BY <2>1, <2>2, <2>3
<1>1. OpenFiles' = OpenFiles /\ Counted' = Counted
  BY <1>0, SameSets
<1>2. Referenced' \subseteq Referenced
  BY <1>0 DEF Referenced
<1>3. Types' /\ Counts'
  BY <1>0, <1>1 DEF Inv, Types, Counts, DriverRefs
<1>4. Phases' /\ Pool' /\ Grant'
  BY <1>0, <1>1 DEF Inv, Phases, Pool, Grant, Granules
<1>5. Locking' /\ Mappings'
  BY <1>0 DEF Inv, Locking, Mappings
<1>6. ReferencedExists'
  BY <1>0, <1>2 DEF Inv, ReferencedExists, Granules
<1>. QED BY <1>3, <1>4, <1>5, <1>6 DEF Inv

\* Other devices share granules under the rules of the registry.
LEMMA OtherSteps ==
  ASSUME Inv, NEW g \in Granule, OtherGet(g) \/ OtherPut(g) PROVE Inv'
<1>. USE DEF device, content, files, mm
<1>0. /\ UNCHANGED <<device, content, files, mm, refs, retained, pins>>
      /\ \/ other' = other \cup {g}
         \/ other' = other \ {g} /\ (g \in granules \/ g \notin Granules(Referenced))
  BY DEF OtherGet, OtherPut
<1>1. OpenFiles' = OpenFiles /\ Counted' = Counted /\ Referenced' = Referenced
  BY <1>0, SameSets
<1>2. Types' /\ Counts'
  BY <1>0, <1>1 DEF Inv, Types, Counts, DriverRefs
<1>3. Phases' /\ Pool' /\ Grant'
  BY <1>0, <1>1 DEF Inv, Phases, Pool, Grant, Granules
<1>4. Locking' /\ Mappings'
  BY <1>0 DEF Inv, Locking, Mappings
<1>5. ReferencedExists'
  BY <1>0, <1>1 DEF Inv, ReferencedExists, Granules
<1>. QED BY <1>2, <1>3, <1>4, <1>5 DEF Inv

\* Every step preserves the invariant.
LEMMA NextInv == Inv /\ [Next]_vars => Inv'
<1>. SUFFICES ASSUME Inv, [Next]_vars PROVE Inv'
  OBVIOUS
<1>1. CASE DeviceStep
  BY <1>1, ProbeStep, PhaseSteps, PutSteps DEF DeviceStep
<1>2. CASE \E p \in Page : Retain(p)
  BY <1>2, RetainStep
<1>3. CASE \E f \in File : FileStep(f)
  BY <1>3, OpenStep, CloseStep, UnprepareStep, UnpreparedStep DEF FileStep
<1>4. CASE \E f \in File, S \in SUBSET Page : Prepare(f, S) \/ \E v \in Area : Mmap(f, v, S)
  BY <1>4, PrepareStep, MmapStep
<1>5. CASE \E v \in Area : AreaStep(v) \/ (\E w \in Area : Fork(v, w))
  BY <1>5, AreaSteps, ForkStep
<1>6. CASE (\E v \in Area, p \in Page : Pin(v, p)) \/ (\E p \in Page : Unpin(p))
  BY <1>6, PinSteps
<1>7. CASE \E g \in Granule : OtherGet(g) \/ OtherPut(g)
  BY <1>7, OtherSteps
<1>8. CASE UNCHANGED vars
  <2>1. /\ UNCHANGED <<device, content, files, mm, refs, retained, pins, other>>
        /\ OpenFiles' = OpenFiles /\ Counted' = Counted /\ Referenced' = Referenced
    BY <1>8, SameSets DEF vars, files, mm
  <2>2. Types' /\ Counts' /\ Locking' /\ Mappings'
    BY <2>1 DEF Inv, Types, Counts, DriverRefs, Locking, Mappings, device, content, files, mm
  <2>3. Phases' /\ Pool' /\ Grant' /\ ReferencedExists'
    BY <2>1 DEF Inv, Phases, Pool, Grant, ReferencedExists, Granules, device, content, files, mm
  <2>. QED BY <2>2, <2>3 DEF Inv
<1>. QED BY <1>1, <1>2, <1>3, <1>4, <1>5, <1>6, <1>7, <1>8 DEF Next

-----------------------------------------------------------------------------
(* The properties.                                                         *)

\* The inductive invariant holds from before probe to after destruction.
THEOREM Invariance == Spec => []Inv
  BY InitInv, NextInv, PTL DEF Spec

\* No mapping outlives the release of its pages or of their granules.
THEOREM MappingsPrepared == Spec => []MappedIsPrepared
<1>1. Inv => MappedIsPrepared
  BY DEF Inv, Mappings, Grant, MappedIsPrepared, Granules
<1>. QED BY <1>1, Invariance, PTL

\* Whatever refers to a page of a grant, its granule exists.
THEOREM ReferencesExist == Spec => []ReferencedExists
<1>1. Inv => ReferencedExists
  BY DEF Inv
<1>. QED BY <1>1, Invariance, PTL

\* The kref is exact, and the last one returns every page and granule.
THEOREM LifetimeExact == Spec => []ObjectLifetime
<1>1. ASSUME Inv PROVE ObjectLifetime
  <2>1. TypeOK
    <3>1. refs \in 0..(1 + Cardinality(File)) /\ vmas \in 0..Cardinality(Area)
      BY <1>1, CountsFinite, FileFinite, FS_CardinalityType DEF Inv, Counts, DriverRefs
    <3>. QED BY <1>1, <3>1 DEF Inv, Types, TypeOK
  <2>2. refs = 0 => OpenFiles = {} /\ lock = Free
    <3>1. refs = 0 => OpenFiles = {}
      BY <1>1, CountsFinite, FS_EmptySet DEF Inv, Counts, DriverRefs
    <3>. QED BY <1>1, <3>1 DEF Inv, Types, Locking, OpenFiles
  <2>3. refs = 0 => retained = {} /\ granules = {} /\ retiring = {}
    BY <1>1, <2>2 DEF Inv, Types, Pool, Grant, Locking, Granules
  <2>4. refs = (IF phase \in DriverHolds THEN 1 ELSE 0) + Cardinality({f \in File : file[f] # "closed"})
    BY <1>1 DEF Inv, Counts, DriverRefs, OpenFiles
  <2>. QED BY <1>1, <2>1, <2>3, <2>4 DEF Inv, Pool, ObjectLifetime
<1>2. Inv => ObjectLifetime
  BY <1>1
<1>. QED BY <1>2, Invariance, PTL
=============================================================================
