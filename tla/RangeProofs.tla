----------------------------- MODULE RangeProofs -----------------------------
(***************************************************************************)
(* The two machines that rest on range checks in wrapping arithmetic.      *)
(*                                                                         *)
(* The block owner, for every geometry, word size, set of clients, disks   *)
(* and number of failing calls: identifiers are stable, a target that can  *)
(* be found is complete and reserved, no two clients share a sector one of *)
(* them may write, OK is answered only for what is published, and a        *)
(* replaced disk misdirects at most one client of its identifier.          *)
(*                                                                         *)
(* The checks of Layout, for every word, page, granule and queue size: the *)
(* page array is filled within its bounds, only granules of the aperture   *)
(* are mapped, ring parts lie disjoint in memory, and reads stay within    *)
(* the disk and the memory.                                                *)
(***************************************************************************)
EXTENDS BlockOwner, Layout, FiniteSetTheorems, TLAPS

-----------------------------------------------------------------------------
(* Division and multiples.                                                 *)

\* Quotient and remainder.
LEMMA Division ==
  ASSUME NEW n \in Nat, NEW p \in Nat \ {0}
  PROVE  /\ n \div p \in Nat /\ n % p \in 0..(p - 1) /\ n = p * (n \div p) + (n % p)
         /\ n \div p <= n
<1>1. n \div p \in Int
  OBVIOUS
<1>2. n % p \in 0..(p - 1)
  OBVIOUS
<1>3. n = p * (n \div p) + (n % p)
  OBVIOUS
<1>4. ASSUME NEW q \in Int, NEW m \in 0..(p - 1), n = p * q + m PROVE q \in 0..n
  <2>1. q >= 0
    BY <1>4
  <2>2. q <= p * q
    BY <2>1
  <2>. QED BY <1>4, <2>1, <2>2
<1>. QED BY <1>1, <1>2, <1>3, <1>4

\* Multiplication keeps the order.
LEMMA Scaled ==
  ASSUME NEW p \in Nat \ {0}, NEW q \in Int, NEW r \in Int
  PROVE  /\ q < r => p * q + p <= p * r
         /\ q <= r => p * q <= p * r
         /\ p * q < p * r => q < r
         /\ p * q < p * r + p => q <= r
<1>1. q < r => p * q + p <= p * r
  <2>1. ASSUME q < r PROVE p * (r - q) >= p
    BY <2>1
  <2>2. p * (r - q) = p * r - p * q
    OBVIOUS
  <2>. QED BY <2>1, <2>2
<1>2. r < q => p * r + p <= p * q
  <2>1. ASSUME r < q PROVE p * (q - r) >= p
    BY <2>1
  <2>2. p * (q - r) = p * q - p * r
    OBVIOUS
  <2>. QED BY <2>1, <2>2
<1>3. q = r => p * q = p * r
  OBVIOUS
<1>4. p * q \in Int /\ p * r \in Int
  OBVIOUS
<1>. HIDE <1>4
<1>. QED BY <1>1, <1>2, <1>3, <1>4

\* A quotient is determined by its remainder.
LEMMA Quotient ==
  ASSUME NEW p \in Nat \ {0}, NEW q \in Nat, NEW r \in 0..(p - 1)
  PROVE  (p * q + r) \div p = q /\ (p * q + r) % p = r
<1>. DEFINE n == p * q + r
           d == n \div p
           m == n % p
<1>1. n \in Nat /\ p * q \in Nat
  OBVIOUS
<1>2. d \in Nat /\ m \in 0..(p - 1) /\ n = p * d + m
  BY <1>1, Division
<1>3. p * d \in Int /\ n = p * q + r
  BY <1>2
<1>. HIDE DEF n, d, m
<1>4. d <= q
  BY <1>1, <1>2, <1>3, Scaled
<1>5. q <= d
  BY <1>1, <1>2, <1>3, Scaled
<1>6. d = q
  BY <1>2, <1>4, <1>5
<1>7. m = r
  BY <1>1, <1>2, <1>3, <1>6
<1>. QED BY <1>6, <1>7 DEF n, d, m

\* Multiples of p are the products with p; they add up with their quotients.
LEMMA Multiples ==
  ASSUME NEW p \in Nat \ {0}, NEW a \in Nat, NEW b \in Nat, a % p = 0, b % p = 0
  PROVE  /\ a = p * (a \div p) /\ (a + b) % p = 0
         /\ (a + b) \div p = (a \div p) + (b \div p)
         /\ a <= b <=> a \div p <= b \div p
<1>. DEFINE q == a \div p
           r == b \div p
<1>1. q \in Nat /\ r \in Nat /\ a = p * q /\ b = p * r
  BY Division
<1>. HIDE DEF q, r
<1>2. a + b = p * (q + r) + 0 /\ q + r \in Nat /\ 0 \in 0..(p - 1)
  BY <1>1
<1>3. (a + b) \div p = q + r /\ (a + b) % p = 0
  <2>1. (p * (q + r) + 0) \div p = q + r /\ (p * (q + r) + 0) % p = 0
    BY <1>2, Quotient
  <2>. QED BY <1>2, <2>1
<1>4. (q <= r => p * q <= p * r) /\ (r < q => p * r + p <= p * q)
  BY <1>1, Scaled
<1>5. a <= b <=> q <= r
  BY <1>1, <1>4
<1>. QED BY <1>1, <1>3, <1>5 DEF q, r

-----------------------------------------------------------------------------
(* The block owner.                                                        *)

Serving == at \in {"publish", "rollback", "record"}
BindRequests == [client : Client, range : BlockRange]
Maps == [device : Device \cup {0}, sequence : 0..MaxSequence, range : BlockRange]

\* TypeOK, and the types of the variables it leaves open.
Types ==
  /\ slot \in [Device -> 0..MaxSequence] /\ attached \in 0..MaxSequence
  /\ disks \in Seq(Entry) /\ Len(disks) <= MaxDisks
  /\ bindings \in [Client -> BlockRange]
  /\ at \in {"idle", "scan", "publish", "rollback", "record", "dead"}
  /\ todo \in SUBSET Device
  /\ request \in BindRequests \cup {NoRequest}
  /\ step \in 1..10 /\ undo \in Seq(Object) /\ faults \in 0..MaxFaults
  /\ built \in [Client -> SUBSET Object] /\ mapper \in [Client -> Maps]
  /\ acked \in [Client -> BlockRange]

\* A range that passed the checks of bind_range: it names an inventoried disk and
\* lies within it, without wrapping around the word.
Good(r) ==
  /\ r.disk \in DOMAIN disks /\ r.disk # 0
  /\ r.first + r.count < Word /\ Sane(r)

\* Two ranges that may be bound to two clients.
Apart(a, b) ==
  \/ a.disk = 0 \/ b.disk = 0 \/ a.disk # b.disk
  \/ a.read_only = 1 /\ b.read_only = 1
  \/ RefSectors(a) \cap RefSectors(b) = {}

\* No device number is in the inventory twice.
Inventory ==
  \A i, j \in DOMAIN disks : disks[i].device = disks[j].device => i = j

\* The request being served, or left by a dead owner, conflicts with no binding.
Requested ==
  /\ at \in {"idle", "scan"} => request = NoRequest
  /\ Serving => request \in BindRequests /\ request.range.disk # 0 /\ bindings[me] = NoRange
  /\ request.range.disk # 0 =>
       /\ request \in BindRequests /\ Good(request.range)
       /\ \A c \in Client : Apart(bindings[c], request.range)

\* What a client's table says of its disk.
TableFor(c, r) == mapper[c].range = r /\ mapper[c].device = disks[r.disk].device

\* How far the publication has come: the objects before step are there, the link
\* is not, and the table is the request's.
Publication ==
  /\ at \in {"publish", "rollback"} => "link" \notin built[me]
  /\ at = "publish" =>
       /\ \A i \in 1..10 : i < step => Steps[i] \in built[me]
       /\ step > 2 => TableFor(me, request.range)
  /\ at = "record" => Ready(me) /\ TableFor(me, request.range)

\* A published target is complete and its range is reserved.
Published ==
  \A c \in Client : Ready(c) =>
    /\ built[c] = Object /\ Good(mapper[c].range) /\ TableFor(c, mapper[c].range)
    /\ \/ bindings[c] = mapper[c].range
       \/ at \in {"record", "dead"} /\ request = [client |-> c, range |-> mapper[c].range]

\* A binding is published, and bindings do not conflict.
Bound ==
  /\ \A c \in Client : bindings[c] = NoRange \/ (Ready(c) /\ mapper[c].range = bindings[c])
  /\ \A c, o \in Client : c # o => Apart(bindings[c], bindings[o])

Inv ==
  /\ Types
  /\ Inventory
  /\ Requested
  /\ Publication
  /\ Published
  /\ Bound
  /\ OkMeansPublished

-----------------------------------------------------------------------------
(* Facts about the operators.                                              *)

\* The ten steps, in order, and the objects they make.
LEMMA StepsFacts ==
  /\ Len(Steps) = 10 /\ DOMAIN Steps = 1..10
  /\ \A i \in 1..10 : Steps[i] \in Object
  /\ Object = {"mapper", "table", "node", "core", "enable", "target", "group", "lun", "nexus", "link"}
  /\ Steps[2] = "table" /\ Steps[10] = "link"
  /\ \A i \in 1..10 : (Steps[i] = "table" => i = 2) /\ (Steps[i] = "link" => i = 10)
  /\ \A o \in Object : \E i \in 1..10 : Steps[i] = o
<1>1. Len(Steps) = 10 /\ DOMAIN Steps = 1..10
  BY DEF Steps
<1>2. \A i \in 1..10 : Steps[i] \in Object
  BY <1>1 DEF Object, ToSet
<1>3. \A o \in Object : \E i \in 1..10 : Steps[i] = o
  BY <1>1 DEF Object, ToSet
<1>4. /\ Steps[1] = "mapper" /\ Steps[2] = "table" /\ Steps[3] = "node" /\ Steps[4] = "core"
      /\ Steps[5] = "enable" /\ Steps[6] = "target" /\ Steps[7] = "group" /\ Steps[8] = "lun"
      /\ Steps[9] = "nexus" /\ Steps[10] = "link"
  BY DEF Steps
<1>5. \A i \in 1..10 : i \in {1, 2, 3, 4, 5, 6, 7, 8, 9, 10}
  OBVIOUS
<1>6. \A i \in 1..10 : (Steps[i] = "table" => i = 2) /\ (Steps[i] = "link" => i = 10)
  BY <1>4, <1>5
<1>7. Object = {"mapper", "table", "node", "core", "enable", "target", "group", "lun", "nexus", "link"}
  BY <1>2, <1>3, <1>4, <1>5
<1>. QED BY <1>1, <1>2, <1>3, <1>4, <1>6, <1>7

\* What hyper_block_range_valid guarantees: the range lies within the disk and
\* its end does not wrap.
LEMMA ValidRange ==
  ASSUME NEW r \in BlockRange, NEW ro, RangeValid(Bytes, Sector, ro, r)
  PROVE  r.disk # 0 /\ r.first + r.count < Word /\ Sane(r)
<1>1. Sector \in Nat \ {0} /\ Bytes \in Nat /\ Bytes < Word /\ Word \in Nat
  BY Geometry, WordPositive, SectorSizes DEF RangeValid
<1>. DEFINE n == Bytes \div Sector
<1>2. n \in 0..Bytes
  BY <1>1, Division
<1>3. r.first \in Nat /\ r.count \in Nat /\ r.first < n /\ r.count <= n - r.first /\ r.disk # 0
  BY <1>1 DEF RangeValid, BlockRange
<1>. HIDE DEF n
<1>4. r.first + r.count < Word
  BY <1>1, <1>2, <1>3
<1>5. RefSectors(r) \subseteq 0..(n - 1)
  BY <1>1, <1>2, <1>3 DEF RefSectors
<1>. QED BY <1>3, <1>4, <1>5 DEF n, Sane

\* hyper_block_ranges_conflict, with its sums modulo the word, misses no overlap
\* of two ranges whose ends do not wrap.
LEMMA NoConflict ==
  ASSUME NEW a \in BlockRange, NEW b \in BlockRange,
         a.first + a.count < Word, b.first + b.count < Word, ~RangesConflict(a, b)
  PROVE  Apart(a, b)
<1>1. /\ a.first \in Nat /\ a.count \in Nat /\ b.first \in Nat /\ b.count \in Nat
      /\ Word \in Nat \ {0}
  BY WordPositive DEF BlockRange
<1>2. \A n \in Nat : n < Word => WordOf(n) = n
  BY <1>1 DEF WordOf
<1>3. WordOf(a.first + a.count) = a.first + a.count /\ WordOf(b.first + b.count) = b.first + b.count
  BY <1>1, <1>2
<1>4. CASE a.first < b.first + b.count /\ b.first < a.first + a.count
  BY <1>3, <1>4 DEF RangesConflict, Apart
<1>5. CASE ~(a.first < b.first + b.count /\ b.first < a.first + a.count)
  BY <1>1, <1>5 DEF Apart, RefSectors
<1>. QED BY <1>4, <1>5

-----------------------------------------------------------------------------
(* The steps.                                                              *)

\* The invariant holds when the owner starts.
LEMMA InitInv == Init => Inv
<1>. SUFFICES ASSUME Init PROVE Inv
  OBVIOUS
<1>1. NoRange \in BlockRange
  BY WordPositive DEF NoRange, BlockRange
<1>2. NoMap \in Maps
  BY <1>1, BoundsNat DEF NoMap, Maps
<1>3. /\ slot \in [Device -> 0..MaxSequence] /\ attached \in 0..MaxSequence
      /\ disks \in Seq(Entry) /\ Len(disks) <= MaxDisks /\ undo \in Seq(Object)
      /\ step \in 1..10 /\ faults \in 0..MaxFaults
  BY BoundsNat DEF Init
<1>4. Types
  BY <1>1, <1>2, <1>3 DEF Init, Types
<1>5. Inventory /\ Requested /\ Publication
  BY DEF Init, Inventory, Requested, Publication, Serving, NoRequest, NoRange
<1>6. Published /\ Bound /\ OkMeansPublished
  BY DEF Init, Published, Bound, OkMeansPublished, Ready, Apart, NoRange
<1>. QED BY <1>4, <1>5, <1>6 DEF Inv

\* Disks appear and vanish without touching the owner or the targets.
LEMMA HardwareStep ==
  ASSUME Inv, NEW d \in Device, Attach(d) \/ Vanish(d) PROVE Inv'
<1>. USE DEF owner, targets
<1>0. /\ slot' \in [Device -> 0..MaxSequence] /\ attached' \in 0..MaxSequence
      /\ UNCHANGED <<owner, targets, acked>>
  <2>1. CASE Attach(d)
    BY <2>1, BoundsNat DEF Attach, Inv, Types
  <2>2. CASE Vanish(d)
    BY <2>2, BoundsNat DEF Vanish, Inv, Types
  <2>. QED BY <2>1, <2>2
<1>1. Types'
  BY <1>0 DEF Inv, Types
<1>2. Inventory' /\ Requested'
  BY <1>0 DEF Inv, Inventory, Requested, Serving, Good, me
<1>3. Publication'
  BY <1>0 DEF Inv, Publication, TableFor, me, PhysicalDevice, Ready
<1>4. Published' /\ Bound' /\ OkMeansPublished'
  BY <1>0 DEF Inv, Published, Bound, OkMeansPublished, Ready, Good, TableFor
<1>. QED BY <1>1, <1>2, <1>3, <1>4 DEF Inv

\* Enumeration only ever appends to the inventory.
LEMMA ScanEffect ==
  ASSUME Inv, Enumerate \/ ScanDone \/ \E d \in Device : Scan(d)
  PROVE  /\ at \in {"idle", "scan"} /\ at' \in {"idle", "scan"} /\ todo' \in SUBSET Device
         /\ disks' \in Seq(Entry) /\ Len(disks') <= MaxDisks /\ Len(disks) <= Len(disks')
         /\ \A i \in 1..Len(disks) : disks'[i] = disks[i]
         /\ Inventory'
         /\ UNCHANGED <<hardware, bindings, request, step, undo, faults, targets, acked>>
<1>0. disks \in Seq(Entry) /\ Len(disks) \in Nat /\ DOMAIN disks = 1..Len(disks)
      /\ Len(disks) <= MaxDisks
  BY DEF Inv, Types
<1>1. ASSUME UNCHANGED disks PROVE Inventory'
  BY <1>1 DEF Inv, Inventory
<1>2. CASE Enumerate \/ ScanDone
  BY <1>0, <1>1, <1>2 DEF Enumerate, ScanDone, Inv, Types
<1>3. ASSUME NEW d \in Device, Scan(d)
      PROVE  /\ at \in {"idle", "scan"} /\ at' \in {"idle", "scan"} /\ todo' \in SUBSET Device
             /\ disks' \in Seq(Entry) /\ Len(disks') <= MaxDisks /\ Len(disks) <= Len(disks')
             /\ \A i \in 1..Len(disks) : disks'[i] = disks[i]
             /\ Inventory'
             /\ UNCHANGED <<hardware, bindings, request, step, undo, faults, targets, acked>>
  <2>1. /\ at = "scan" /\ at' \in {"idle", "scan"} /\ todo' \in SUBSET Device
        /\ UNCHANGED <<hardware, bindings, request, step, undo, faults, targets, acked>>
    BY <1>3 DEF Scan, Inv, Types
  <2>2. CASE UNCHANGED disks
    BY <1>0, <1>1, <2>1, <2>2
  <2>3. CASE /\ slot[d] # 0 /\ ~Known(d) /\ Len(disks) < MaxDisks
             /\ disks' = Append(disks, [device |-> d, sequence |-> slot[d]])
    <3>1. [device |-> d, sequence |-> slot[d]] \in Entry
      BY <2>3, BoundsNat DEF Inv, Types, Entry
    <3>2. /\ disks' \in Seq(Entry) /\ Len(disks') = Len(disks) + 1 /\ DOMAIN disks' = 1..(Len(disks) + 1)
          /\ \A i \in 1..Len(disks) : disks'[i] = disks[i]
          /\ disks'[Len(disks) + 1].device = d
      BY <1>0, <2>3, <3>1
    <3>3. \A i \in 1..Len(disks) : disks[i].device # d
      BY <1>0, <2>3 DEF Known
    <3>4. Inventory'
      BY <1>0, <3>2, <3>3 DEF Inv, Inventory
    <3>. QED BY <1>0, <2>1, <2>3, <3>2, <3>4, BoundsNat
  <2>. QED BY <1>3, <2>2, <2>3 DEF Scan
<1>. QED BY <1>2, <1>3

\* Enumeration preserves the invariant: what names a disk names the same one.
LEMMA ScanStep ==
  ASSUME Inv, Enumerate \/ ScanDone \/ \E d \in Device : Scan(d) PROVE Inv'
<1>. USE DEF hardware, targets
<1>0. /\ at \in {"idle", "scan"} /\ at' \in {"idle", "scan"} /\ todo' \in SUBSET Device
      /\ disks' \in Seq(Entry) /\ Len(disks') <= MaxDisks /\ Len(disks) <= Len(disks')
      /\ \A i \in 1..Len(disks) : disks'[i] = disks[i]
      /\ UNCHANGED <<hardware, bindings, request, step, undo, faults, targets, acked>>
  BY ScanEffect
<1>1. \A i \in DOMAIN disks : i \in DOMAIN disks' /\ disks'[i] = disks[i]
  BY <1>0 DEF Inv, Types
<1>2. Inventory'
  BY ScanEffect
<1>3. Types'
  BY <1>0 DEF Inv, Types
<1>4. Requested' /\ Publication'
  BY <1>0 DEF Inv, Requested, Publication, Serving, NoRequest, NoRange
<1>5. Published'
  BY <1>0, <1>1 DEF Inv, Published, Ready, Good, TableFor
<1>6. Bound' /\ OkMeansPublished'
  BY <1>0 DEF Inv, Bound, OkMeansPublished, Ready
<1>. QED BY <1>2, <1>3, <1>4, <1>5, <1>6 DEF Inv

\* bind_range accepts a range only if it is within the disk and apart from what
\* is bound.
LEMMA BindStep ==
  ASSUME Inv, NEW c \in Client, NEW r \in BlockRange, Bind(c, r) PROVE Inv'
<1>. USE DEF hardware, targets
<1>0. /\ at = "idle" /\ at' = "publish" /\ step' = 1 /\ request' = [client |-> c, range |-> r]
      /\ r.disk \in DOMAIN disks /\ slot[disks[r.disk].device] = disks[r.disk].sequence
      /\ RangeValid(Bytes, Sector, disks[r.disk].device \in ReadOnlyDisk, r)
      /\ bindings[c].disk = 0 /\ \A o \in Client : ~RangesConflict(bindings[o], r)
      /\ UNCHANGED <<hardware, disks, bindings, todo, undo, faults, targets, acked>>
  BY DEF Bind, DiskCurrent
<1>1. r.disk # 0 /\ r.first + r.count < Word /\ Sane(r)
  BY <1>0, ValidRange
<1>2. Types'
  BY <1>0 DEF Inv, Types, BindRequests
<1>3. \A o \in Client : bindings[o] = NoRange \/ Good(bindings[o])
  BY DEF Inv, Bound, Published
<1>4. ASSUME NEW o \in Client PROVE Apart(bindings[o], r)
  <2>1. CASE bindings[o] = NoRange
    BY <2>1 DEF Apart, NoRange
  <2>2. CASE Good(bindings[o])
    <3>1. bindings[o] \in BlockRange /\ bindings[o].first + bindings[o].count < Word
      BY <2>2 DEF Inv, Types, Good
    <3>. QED BY <1>0, <1>1, <3>1, NoConflict
  <2>. QED BY <1>3, <2>1, <2>2
<1>5. bindings[c] = NoRange /\ ~Ready(c)
  <2>1. bindings[c] = NoRange
    BY <1>0, <1>3 DEF Good
  <2>2. Ready(c) => mapper[c].range = NoRange /\ Good(mapper[c].range)
    BY <1>0, <2>1 DEF Inv, Published
  <2>. QED BY <2>1, <2>2 DEF Good, NoRange
<1>6. Requested' /\ Inventory'
  BY <1>0, <1>1, <1>4, <1>5 DEF Inv, Requested, Inventory, BindRequests, Serving, me, Good, Apart
<1>7. Publication'
  BY <1>0, <1>5 DEF Publication, me, PhysicalDevice, Ready
<1>8. Published' /\ Bound' /\ OkMeansPublished'
  BY <1>0 DEF Inv, Published, Bound, OkMeansPublished, Ready, Good, TableFor
<1>. QED BY <1>2, <1>6, <1>7, <1>8 DEF Inv

\* A repeated BIND is answered OK for the binding there is.
LEMMA RebindStep ==
  ASSUME Inv, NEW c \in Client, NEW r \in BlockRange, Rebind(c, r) PROVE Inv'
<1>. USE DEF hardware, targets, owner
<1>0. /\ bindings[c].disk # 0 /\ bindings[c] = r /\ acked' = [acked EXCEPT ![c] = r]
      /\ UNCHANGED <<hardware, owner, targets>>
  BY DEF Rebind, SameBind, Ok
<1>1. Ready(c) /\ mapper[c].range = r
  BY <1>0 DEF Inv, Bound, NoRange
<1>2. Types' /\ Inventory'
  BY <1>0 DEF Inv, Types, Inventory
<1>3. Requested' /\ Publication'
  BY <1>0 DEF Inv, Requested, Publication, Serving, Good, TableFor, me, PhysicalDevice, Ready
<1>4. Published' /\ Bound'
  BY <1>0 DEF Inv, Published, Bound, Ready, Good, TableFor
<1>5. OkMeansPublished'
  BY <1>0, <1>1 DEF Inv, Types, OkMeansPublished, Ready
<1>. QED BY <1>2, <1>3, <1>4, <1>5 DEF Inv

\* A step of the publication or of its rollback touches the target of the client
\* being served, which is not bound; the other clients keep theirs.
LEMMA OtherTargets ==
  ASSUME Inv, at \in {"publish", "rollback"}, at' \in {"publish", "rollback", "record"},
         UNCHANGED <<disks, bindings, request, acked>>,
         \A c \in Client \ {me} : built'[c] = built[c] /\ mapper'[c] = mapper[c],
         Ready(me)' => /\ at' = "record" /\ built'[me] = Object
                       /\ TableFor(me, request.range)'
  PROVE  Inventory' /\ Requested' /\ Published' /\ Bound' /\ OkMeansPublished'
<1>1. /\ request \in BindRequests /\ me \in Client /\ bindings[me] = NoRange /\ me' = me
      /\ Good(request.range) /\ ~Ready(me)
  BY DEF Inv, Requested, Serving, BindRequests, me, Publication, Ready
<1>2. Inventory'
  BY DEF Inv, Inventory
<1>3. Requested'
  BY <1>1 DEF Inv, Requested, Serving, Good, Apart, me
<1>4. \A c \in Client \ {me} : Ready(c)' <=> Ready(c)
  BY DEF Ready
<1>5. Published'
  <2>1. ASSUME NEW c \in Client \ {me}, Ready(c)'
        PROVE  /\ built'[c] = Object /\ Good(mapper[c].range)' /\ TableFor(c, mapper[c].range)'
               /\ bindings'[c] = mapper'[c].range
    BY <1>4, <2>1 DEF Inv, Published, Good, TableFor
  <2>2. ASSUME Ready(me)'
        PROVE  /\ built'[me] = Object /\ Good(mapper[me].range)' /\ TableFor(me, mapper[me].range)'
               /\ at' = "record" /\ request' = [client |-> me, range |-> mapper'[me].range]
    <3>1. /\ mapper'[me].range = request.range
          /\ mapper'[me].device = disks[request.range.disk].device
      BY <1>1, <2>2 DEF TableFor
    <3>2. Good(mapper[me].range)'
      BY <1>1, <3>1 DEF Good
    <3>3. request' = [client |-> me, range |-> mapper'[me].range]
      BY <1>1, <3>1 DEF me, BindRequests
    <3>. QED BY <1>1, <2>2, <3>1, <3>2, <3>3 DEF TableFor
  <2>. QED BY <1>1, <2>1, <2>2 DEF Published
<1>6. Bound'
  BY <1>1, <1>4 DEF Inv, Bound, Apart
<1>7. OkMeansPublished'
  BY <1>1, <1>4 DEF Inv, OkMeansPublished
<1>. QED BY <1>2, <1>3, <1>5, <1>6, <1>7

\* Each call of the publication adds its object; the link completes the target.
LEMMA MakeStep ==
  ASSUME Inv, Make PROVE Inv'
<1>. USE DEF hardware
<1>0. /\ at = "publish" /\ built' = [built EXCEPT ![me] = @ \cup {Step}]
      /\ UNCHANGED <<hardware, disks, bindings, todo, request, undo, faults, acked>>
      /\ \/ step = 10 /\ at' = "record" /\ step' = step
         \/ step # 10 /\ at' = at /\ step' = step + 1
  BY StepsFacts DEF Make
<1>1. /\ request \in BindRequests /\ me \in Client /\ me' = me /\ Good(request.range)
      /\ request.range \in BlockRange /\ step \in 1..10 /\ Step \in Object /\ ~Ready(me)
      /\ \A i \in 1..10 : i < step => Steps[i] \in built[me]
      /\ step > 2 => TableFor(me, request.range)
  BY <1>0, StepsFacts DEF Inv, Types, Requested, Serving, BindRequests, me, Publication, Ready, Step
<1>2. PhysicalDevice \in Device /\ slot[PhysicalDevice] \in 0..MaxSequence
  <2>1. request.range.disk \in DOMAIN disks /\ disks \in Seq(Entry)
    BY <1>1 DEF Inv, Types, Good
  <2>2. disks[request.range.disk] \in Entry
    BY <2>1
  <2>3. PhysicalDevice \in Device
    BY <2>2 DEF PhysicalDevice, Entry
  <2>. QED BY <2>3 DEF Inv, Types
<1>3. /\ mapper' \in [Client -> Maps]
      /\ \A c \in Client \ {me} : mapper'[c] = mapper[c]
      /\ step # 2 => mapper' = mapper
      /\ step = 2 => mapper'[me] = [device |-> PhysicalDevice, sequence |-> slot[PhysicalDevice],
                                    range |-> request.range]
  <2>1. [device |-> PhysicalDevice, sequence |-> slot[PhysicalDevice],
         range |-> request.range] \in Maps
    BY <1>1, <1>2 DEF Maps, Inv, Types
  <2>2. Step = "table" <=> step = 2
    BY <1>1, StepsFacts DEF Step
  <2>. QED BY <1>1, <2>1, <2>2 DEF Make, Inv, Types
<1>4. /\ built' \in [Client -> SUBSET Object] /\ built'[me] = built[me] \cup {Step}
      /\ \A c \in Client \ {me} : built'[c] = built[c]
  BY <1>0, <1>1 DEF Inv, Types
<1>5. Types'
  BY <1>0, <1>3, <1>4 DEF Inv, Types
<1>6. step >= 2 => TableFor(me, request.range)'
  <2>1. CASE step = 2
    BY <1>0, <1>1, <1>3, <2>1 DEF TableFor, PhysicalDevice
  <2>2. CASE step > 2
    BY <1>0, <1>1, <1>3, <2>2 DEF TableFor
  <2>. QED BY <1>1, <2>1, <2>2
<1>7. Ready(me)' => at' = "record" /\ step = 10
  BY <1>0, <1>1, <1>4, StepsFacts DEF Ready, Step
<1>8. step = 10 => built'[me] = Object
  <2>1. ASSUME step = 10 PROVE \A i \in 1..10 : Steps[i] \in built'[me]
    BY <1>1, <1>4, <2>1 DEF Step
  <2>2. ASSUME step = 10 PROVE Object \subseteq built'[me]
    BY <2>1, <2>2, StepsFacts
  <2>. QED BY <1>1, <1>4, <2>2
<1>9. Inventory' /\ Requested' /\ Published' /\ Bound' /\ OkMeansPublished'
  BY <1>0, <1>1, <1>3, <1>4, <1>6, <1>7, <1>8, OtherTargets
<1>10. Publication'
  <2>1. CASE step = 10
    <3>1. Ready(me)' /\ TableFor(me, request.range)' /\ at' = "record"
      BY <1>0, <1>1, <1>6, <1>8, <2>1, StepsFacts DEF Ready
    <3>. QED BY <1>1, <3>1 DEF Publication
  <2>2. CASE step # 10
    <3>1. at' = "publish" /\ step' = step + 1 /\ "link" \notin built'[me]
      BY <1>0, <1>7, <2>2 DEF Ready, me
    <3>2. \A i \in 1..10 : i < step' => Steps[i] \in built'[me]
      BY <1>1, <1>4, <3>1 DEF Step
    <3>3. step' > 2 => TableFor(me, request.range)'
      BY <1>1, <1>6, <3>1
    <3>. QED BY <1>1, <3>1, <3>2, <3>3 DEF Publication
  <2>. QED BY <2>1, <2>2
<1>. QED BY <1>5, <1>9, <1>10 DEF Inv

\* A failing call turns to the rollback of what this attempt made.
LEMMA MakeFailsStep ==
  ASSUME Inv, MakeFails PROVE Inv'
<1>. USE DEF hardware, targets
<1>0. /\ at = "publish" /\ at' = "rollback" /\ undo' = Undo
      /\ UNCHANGED <<hardware, disks, bindings, todo, request, step, targets, acked>>
      /\ faults' \in 0..MaxFaults
  BY BoundsNat DEF MakeFails, Fault, Inv, Types
<1>1. \A o \in Object : Made(o) \in Seq(Object)
  BY DEF Made
<1>2. {"nexus", "lun", "group", "target", "core", "mapper", "node"} \subseteq Object
  BY StepsFacts
<1>3. undo' \in Seq(Object)
  BY <1>0, <1>1, <1>2 DEF Undo
<1>4. Types'
  BY <1>0, <1>3 DEF Inv, Types
<1>5. ~Ready(me) /\ me' = me
  BY <1>0 DEF Inv, Publication, Ready, me
<1>6. Inventory' /\ Requested' /\ Published' /\ Bound' /\ OkMeansPublished'
  BY <1>0, <1>5, OtherTargets DEF Ready
<1>7. Publication'
  BY <1>0, <1>5 DEF Publication, Ready
<1>. QED BY <1>4, <1>6, <1>7 DEF Inv

\* The rollback only takes objects away from a target without a link.
LEMMA RollbackStep ==
  ASSUME Inv, Rollback PROVE Inv'
<1>. USE DEF hardware, targets
<1>0. /\ at = "rollback" /\ at' = "rollback" /\ undo # <<>> /\ undo' = Tail(undo)
      /\ UNCHANGED <<hardware, disks, bindings, todo, request, step, acked>>
      /\ faults' \in 0..MaxFaults
  BY BoundsNat DEF Rollback, Fault, Inv, Types
<1>1. me \in Client /\ me' = me /\ "link" \notin built[me]
  BY <1>0 DEF Inv, Requested, Serving, BindRequests, me, Publication
<1>2. /\ built' \in [Client -> SUBSET Object] /\ built'[me] \subseteq built[me]
      /\ \A c \in Client \ {me} : built'[c] = built[c]
  BY <1>1 DEF Rollback, Inv, Types
<1>3. mapper' \in [Client -> Maps] /\ \A c \in Client \ {me} : mapper'[c] = mapper[c]
  <2>1. NoMap \in Maps
    BY WordPositive, BoundsNat DEF NoMap, Maps, NoRange, BlockRange
  <2>. QED BY <1>1, <2>1 DEF Rollback, Inv, Types
<1>4. undo' \in Seq(Object)
  BY <1>0 DEF Inv, Types
<1>5. Types'
  BY <1>0, <1>2, <1>3, <1>4 DEF Inv, Types
<1>6. ~Ready(me)'
  BY <1>1, <1>2 DEF Ready
<1>7. Inventory' /\ Requested' /\ Published' /\ Bound' /\ OkMeansPublished'
  BY <1>0, <1>1, <1>2, <1>3, <1>6, OtherTargets
<1>8. Publication'
  BY <1>0, <1>6 DEF Publication, Ready
<1>. QED BY <1>5, <1>7, <1>8 DEF Inv

\* The failed request is forgotten.
LEMMA RollbackDoneStep ==
  ASSUME Inv, RollbackDone PROVE Inv'
<1>. USE DEF hardware, targets
<1>0. /\ at = "rollback" /\ at' = "idle" /\ step' = 1 /\ request' = NoRequest
      /\ UNCHANGED <<hardware, disks, bindings, todo, undo, faults, targets, acked>>
  BY DEF RollbackDone
<1>1. Types' /\ Inventory'
  <2>1. step' \in 1..10 /\ request' \in BindRequests \cup {NoRequest}
    BY <1>0
  <2>. QED BY <1>0, <2>1 DEF Inv, Types, Inventory
<1>2. Requested' /\ Publication'
  BY <1>0 DEF Requested, Publication, Serving, NoRequest, NoRange
<1>3. Published' /\ Bound' /\ OkMeansPublished'
  BY <1>0 DEF Inv, Published, Bound, OkMeansPublished, Ready, Good, TableFor
<1>. QED BY <1>1, <1>2, <1>3 DEF Inv

\* The published range is recorded and answered.
LEMMA RecordStep ==
  ASSUME Inv, Record PROVE Inv'
<1>. USE DEF hardware, targets
<1>0. /\ at = "record" /\ at' = "idle" /\ step' = 1 /\ request' = NoRequest
      /\ bindings' = [bindings EXCEPT ![me] = request.range]
      /\ acked' = [acked EXCEPT ![me] = request.range]
      /\ UNCHANGED <<hardware, disks, todo, undo, faults, targets>>
  BY DEF Record, Ok
<1>1. /\ me \in Client /\ request.range \in BlockRange /\ Ready(me) /\ mapper[me].range = request.range
      /\ \A c \in Client : Apart(bindings[c], request.range)
  BY <1>0 DEF Inv, Requested, Serving, BindRequests, me, Publication, TableFor
<1>2. \A c \in Client : bindings'[c] = IF c = me THEN request.range ELSE bindings[c]
  BY <1>0 DEF Inv, Types
<1>3. Types' /\ Inventory'
  <2>1. step' \in 1..10 /\ request' \in BindRequests \cup {NoRequest}
    BY <1>0
  <2>2. bindings' \in [Client -> BlockRange] /\ acked' \in [Client -> BlockRange]
    BY <1>0, <1>1 DEF Inv, Types
  <2>. QED BY <1>0, <2>1, <2>2 DEF Inv, Types, Inventory
<1>4. Requested' /\ Publication'
  BY <1>0 DEF Requested, Publication, Serving, NoRequest, NoRange
<1>5. Published'
  <2>1. ASSUME NEW c \in Client, Ready(c)' PROVE bindings'[c] = mapper[c].range
    <3>1. CASE c = me
      BY <1>1, <1>2, <3>1
    <3>2. CASE c # me
      BY <1>0, <1>2, <2>1, <3>2 DEF Inv, Published, Ready, me
    <3>. QED BY <3>1, <3>2
  <2>. QED BY <1>0, <2>1 DEF Inv, Published, Ready, Good, TableFor
<1>6. Bound'
  <2>1. \A c \in Client : bindings'[c] = NoRange \/ (Ready(c)' /\ mapper'[c].range = bindings'[c])
    BY <1>0, <1>1, <1>2 DEF Inv, Bound, Ready
  <2>2. \A a, b \in BlockRange : Apart(a, b) => Apart(b, a)
    BY DEF Apart
  <2>3. ASSUME NEW c \in Client, NEW o \in Client, c # o PROVE Apart(bindings'[c], bindings'[o])
    BY <1>1, <1>2, <2>2, <2>3 DEF Inv, Types, Bound
  <2>. QED BY <2>1, <2>3 DEF Bound, Apart
<1>7. OkMeansPublished'
  BY <1>0, <1>1 DEF Inv, Types, OkMeansPublished, Ready
<1>. QED BY <1>3, <1>4, <1>5, <1>6, <1>7 DEF Inv

\* A dead owner leaves everything as it is.
LEMMA DieStep ==
  ASSUME Inv, Die \/ UNCHANGED vars PROVE Inv'
<1>. USE DEF hardware, targets, owner
<1>0. /\ at' = "dead" \/ at' = at
      /\ UNCHANGED <<hardware, disks, bindings, todo, request, step, undo, faults, targets, acked>>
  BY DEF Die, vars
<1>1. Types' /\ Inventory'
  BY <1>0 DEF Inv, Types, Inventory
<1>2. Requested' /\ Publication'
  BY <1>0 DEF Inv, Requested, Publication, Serving, Good, TableFor, me, PhysicalDevice, Ready
<1>3. Published' /\ Bound' /\ OkMeansPublished'
  BY <1>0 DEF Inv, Published, Bound, OkMeansPublished, Ready, Good, TableFor
<1>. QED BY <1>1, <1>2, <1>3 DEF Inv

\* Every step preserves the invariant.
LEMMA NextInv == Inv /\ [Next]_vars => Inv'
<1>. SUFFICES ASSUME Inv, [Next]_vars PROVE Inv'
  OBVIOUS
<1>1. CASE \E d \in Device : Attach(d) \/ Vanish(d)
  BY <1>1, HardwareStep
<1>2. CASE Enumerate \/ ScanDone \/ \E d \in Device : Scan(d)
  BY <1>2, ScanStep
<1>3. CASE \E c \in Client, r \in BlockRange : Bind(c, r) \/ Rebind(c, r)
  BY <1>3, BindStep, RebindStep
<1>4. CASE Make \/ MakeFails \/ Rollback
  BY <1>4, MakeStep, MakeFailsStep, RollbackStep
<1>5. CASE RollbackDone \/ Record
  BY <1>5, RollbackDoneStep, RecordStep
<1>6. CASE Die \/ UNCHANGED vars
  BY <1>6, DieStep
<1>. QED BY <1>1, <1>2, <1>3, <1>4, <1>5, <1>6 DEF Next

-----------------------------------------------------------------------------
(* The properties.                                                         *)

\* The inductive invariant holds in every state of the owner, dead or alive.
THEOREM Invariance == Spec => []Inv
  BY InitInv, NextInv, PTL DEF Spec

\* Only the scan touches the inventory, and it only appends new devices.
THEOREM IdentifiersKept == Spec => IdentifiersStable
<1>1. ASSUME Inv, Inv', [Next]_vars
      PROVE  /\ IsPrefix(disks, disks')
             /\ \A i, j \in DOMAIN disks' : disks'[i].device = disks'[j].device => i = j
  <2>0. disks \in Seq(Entry) /\ Len(disks) \in Nat
    BY <1>1 DEF Inv, Types
  <2>1. CASE Enumerate \/ ScanDone \/ \E d \in Device : Scan(d)
    <3>1. /\ disks' \in Seq(Entry) /\ Len(disks) <= Len(disks')
          /\ \A i \in 1..Len(disks) : disks'[i] = disks[i]
      BY <1>1, <2>1, ScanEffect
    <3>. QED BY <1>1, <2>0, <3>1 DEF IsPrefix, Inv, Inventory
  <2>2. CASE UNCHANGED disks
    BY <1>1, <2>0, <2>2 DEF IsPrefix, Inv, Inventory
  <2>3. CASE \/ \E d \in Device : Attach(d) \/ Vanish(d)
             \/ \E c \in Client, r \in BlockRange : Bind(c, r) \/ Rebind(c, r)
    BY <2>2, <2>3 DEF Attach, Vanish, Bind, Rebind, owner
  <2>4. CASE Make \/ MakeFails \/ Rollback \/ RollbackDone \/ Record \/ Die \/ UNCHANGED vars
    BY <2>2, <2>4 DEF Make, MakeFails, Rollback, RollbackDone, Record, Die, vars, owner
  <2>. QED BY <1>1, <2>1, <2>3, <2>4 DEF Next
<1>2. Inv /\ Inv' /\ [Next]_vars =>
        [/\ IsPrefix(disks, disks')
         /\ \A i, j \in DOMAIN disks' : disks'[i].device = disks'[j].device => i = j]_vars
  BY <1>1
<1>. QED BY <1>2, Invariance, PTL DEF Spec, IdentifiersStable

\* A target a data service can find is complete, and its range is reserved.
THEOREM TargetsComplete == Spec => []LunComplete
<1>1. ASSUME Inv PROVE LunComplete
  <2>1. \A c \in Client : Sane(bindings[c])
    BY <1>1 DEF Inv, Bound, Published, Good, Sane
  <2>2. TypeOK
    BY <1>1, <2>1, StepsFacts DEF Inv, Types, TypeOK, BindRequests
  <2>. QED BY <1>1, <2>2 DEF Inv, Published, LunComplete
<1>2. Inv => LunComplete
  BY <1>1
<1>. QED BY <1>2, Invariance, PTL

\* No two reachable targets share a sector one of them may write.
THEOREM WritersApart == Spec => []WritersAlone
<1>1. ASSUME Inv, NEW c \in Client, NEW o \in Client, c # o, Ready(c), Ready(o),
             mapper[c].device = mapper[o].device
      PROVE  \/ mapper[c].range.read_only = 1 /\ mapper[o].range.read_only = 1
             \/ RefSectors(mapper[c].range) \cap RefSectors(mapper[o].range) = {}
  <2>1. mapper[c].range.disk = mapper[o].range.disk /\ mapper[c].range.disk # 0
    BY <1>1 DEF Inv, Published, Good, TableFor, Inventory
  <2>2. /\ bindings[c] = mapper[c].range \/ request = [client |-> c, range |-> mapper[c].range]
        /\ bindings[o] = mapper[o].range \/ request = [client |-> o, range |-> mapper[o].range]
    BY <1>1 DEF Inv, Published
  <2>3. \A a \in Client : request.range.disk # 0 => Apart(bindings[a], request.range)
    BY <1>1 DEF Inv, Requested
  <2>4. Apart(mapper[c].range, mapper[o].range) \/ Apart(mapper[o].range, mapper[c].range)
    <3>1. CASE bindings[c] = mapper[c].range /\ bindings[o] = mapper[o].range
      BY <1>1, <3>1 DEF Inv, Bound
    <3>2. CASE request = [client |-> c, range |-> mapper[c].range]
      BY <1>1, <2>1, <2>2, <2>3, <3>2
    <3>3. CASE request = [client |-> o, range |-> mapper[o].range]
      BY <1>1, <2>1, <2>2, <2>3, <3>3
    <3>. QED BY <2>2, <3>1, <3>2, <3>3
  <2>. QED BY <2>1, <2>4 DEF Apart
<1>2. Inv => WritersAlone
  BY <1>1 DEF WritersAlone
<1>. QED BY <1>2, Invariance, PTL

-----------------------------------------------------------------------------
(* Replaced disks.                                                         *)

\* Sequence numbers are issued once: a disk that is attached later has another
\* number than any in the inventory.
Issued ==
  /\ \A d \in Device : slot[d] <= attached
  /\ \A i \in DOMAIN disks : disks[i].sequence <= attached

\* A table names an inventoried disk.
Tabled == \A c \in Client : mapper[c].range.disk # 0 => mapper[c].range.disk \in DOMAIN disks

\* The disk of a misdirected table is gone for good; a BIND that passed its check
\* met no other misdirected table of its identifier.
Confined ==
  /\ \A c \in Client : Misdirected(c) => ~DiskCurrent(disks[mapper[c].range.disk])
  /\ at = "publish" => \A c \in Client :
       Misdirected(c) /\ mapper[c].range.disk = request.range.disk => c = me
  /\ ReplacementConfined

Replacement == Issued /\ Tabled /\ Confined

\* Nothing is mapped when the owner starts.
LEMMA InitReplacement == Init => Replacement
<1>. SUFFICES ASSUME Init PROVE Replacement
  OBVIOUS
<1>1. Issued
  BY DEF Init, Issued
<1>2. \A c \in Client : mapper[c].range.disk = 0
  BY DEF Init, NoMap, NoRange
<1>3. Tabled /\ Confined
  BY <1>2 DEF Init, Tabled, Confined, ReplacementConfined, Misdirected
<1>. QED BY <1>1, <1>3 DEF Replacement

\* A step that leaves hardware, inventory, tables and request alone changes
\* nothing; it may end a publication, but not begin one.
LEMMA ReplacementKept ==
  ASSUME Replacement, UNCHANGED <<hardware, disks, mapper>>,
         at' = "publish" => at = "publish" /\ request' = request
  PROVE  Replacement'
<1>. USE DEF hardware
<1>1. Issued' /\ Tabled'
  BY DEF Replacement, Issued, Tabled
<1>2. \A c \in Client : Misdirected(c)' <=> Misdirected(c)
  BY DEF Misdirected
<1>3. Confined'
  BY <1>2 DEF Replacement, Confined, ReplacementConfined, DiskCurrent, me
<1>. QED BY <1>1, <1>3 DEF Replacement

\* A new disk has a new number and a vanished one has none, so an identifier whose
\* disk was replaced stays refused.
LEMMA ReplacementHardware ==
  ASSUME Inv, Replacement, NEW d \in Device, Attach(d) \/ Vanish(d) PROVE Replacement'
<1>. USE DEF owner, targets
<1>1. /\ attached \in Nat /\ attached' \in Nat /\ attached <= attached'
      /\ slot'[d] <= attached' /\ (slot'[d] = 0 \/ slot'[d] > attached)
      /\ slot' = [slot EXCEPT ![d] = slot'[d]] /\ slot \in [Device -> Nat]
      /\ UNCHANGED <<owner, targets>>
  BY BoundsNat DEF Attach, Vanish, Inv, Types
<1>2. \A i \in DOMAIN disks : disks[i].device \in Device /\ disks[i].sequence \in Nat \ {0}
  <2>1. disks \in Seq(Entry)
    BY DEF Inv, Types
  <2>2. \A i \in DOMAIN disks : disks[i] \in Entry
    BY <2>1
  <2>. QED BY <2>2, BoundsNat DEF Entry
<1>3. Issued'
  BY <1>1, <1>2 DEF Replacement, Issued
<1>4. Tabled'
  BY <1>1 DEF Replacement, Tabled
<1>5. \A i \in DOMAIN disks : ~DiskCurrent(disks[i]) => ~DiskCurrent(disks[i])'
  BY <1>1, <1>2 DEF Replacement, Issued, DiskCurrent
<1>6. \A c \in Client : Misdirected(c)' <=> Misdirected(c)
  BY <1>1 DEF Misdirected
<1>7. Confined'
  BY <1>1, <1>5, <1>6 DEF Replacement, Tabled, Confined, ReplacementConfined, Misdirected,
       DiskCurrent, me
<1>. QED BY <1>3, <1>4, <1>7 DEF Replacement

\* Enumeration appends disks that are there.
LEMMA ReplacementScan ==
  ASSUME Inv, Replacement, Enumerate \/ ScanDone \/ \E d \in Device : Scan(d)
  PROVE  Replacement'
<1>. USE DEF hardware, targets
<1>0. /\ at' # "publish" /\ UNCHANGED <<hardware, targets>>
      /\ disks \in Seq(Entry) /\ disks' \in Seq(Entry) /\ Len(disks) <= Len(disks')
      /\ \A i \in 1..Len(disks) : disks'[i] = disks[i]
  BY ScanEffect DEF Inv, Types
<1>1. \A i \in DOMAIN disks : i \in DOMAIN disks' /\ disks'[i] = disks[i]
  BY <1>0
<1>2. \/ disks' = disks
      \/ \E d \in Device : disks' = Append(disks, [device |-> d, sequence |-> slot[d]])
  BY DEF Enumerate, ScanDone, Scan
<1>3. Issued'
  <2>1. CASE disks' = disks
    BY <1>0, <2>1 DEF Replacement, Issued
  <2>2. ASSUME NEW d \in Device, disks' = Append(disks, [device |-> d, sequence |-> slot[d]])
        PROVE  \A i \in DOMAIN disks' : disks'[i].sequence <= attached
    <3>1. DOMAIN disks' = 1..(Len(disks) + 1) /\ Len(disks) \in Nat /\ DOMAIN disks = 1..Len(disks)
      BY <1>0, <2>2
    <3>2. disks'[Len(disks) + 1].sequence = slot[d]
      BY <1>0, <2>2
    <3>. QED BY <1>0, <3>1, <3>2 DEF Replacement, Issued
  <2>. QED BY <1>0, <1>2, <2>1, <2>2 DEF Replacement, Issued
<1>4. Tabled'
  BY <1>0, <1>1 DEF Replacement, Tabled
<1>5. \A c \in Client : Misdirected(c)' <=> Misdirected(c)
  BY <1>0, <1>1 DEF Replacement, Tabled, Misdirected
<1>6. Confined'
  BY <1>0, <1>1, <1>5 DEF Replacement, Tabled, Confined, ReplacementConfined, Misdirected, DiskCurrent
<1>. QED BY <1>3, <1>4, <1>6 DEF Replacement

\* disk_current passes only for an identifier without a misdirected table.
LEMMA ReplacementBind ==
  ASSUME Replacement, NEW c \in Client, NEW r \in BlockRange, Bind(c, r) PROVE Replacement'
<1>. USE DEF hardware, targets
<1>0. /\ UNCHANGED <<hardware, disks, mapper>> /\ request' = [client |-> c, range |-> r]
      /\ DiskCurrent(disks[r.disk])
  BY DEF Bind
<1>1. Issued' /\ Tabled'
  BY <1>0 DEF Replacement, Issued, Tabled
<1>2. \A o \in Client : Misdirected(o)' <=> Misdirected(o)
  BY <1>0 DEF Misdirected
<1>3. \A o \in Client : Misdirected(o) => mapper[o].range.disk # r.disk
  BY <1>0 DEF Replacement, Confined
<1>4. Confined'
  BY <1>0, <1>2, <1>3 DEF Replacement, Confined, ReplacementConfined, DiskCurrent
<1>. QED BY <1>1, <1>4 DEF Replacement

\* DM_TABLE_LOAD takes the disk that is there now: if it is another one, the
\* identifier is not current any more.
LEMMA ReplacementMake ==
  ASSUME Inv, Replacement, Make PROVE Replacement'
<1>. USE DEF hardware
<1>0. /\ at = "publish" /\ UNCHANGED <<hardware, disks, request>> /\ me' = me
  BY DEF Make, me
<1>1. me \in Client /\ request.range.disk # 0 /\ request.range.disk \in DOMAIN disks
  BY <1>0 DEF Inv, Requested, Serving, BindRequests, me, Good
<1>2. CASE mapper' = mapper
  BY <1>0, <1>2, ReplacementKept
<1>3. CASE mapper' = [mapper EXCEPT ![me] = [device |-> PhysicalDevice,
                         sequence |-> slot[PhysicalDevice], range |-> request.range]]
  <2>1. /\ mapper'[me].range.disk = request.range.disk
        /\ mapper'[me].sequence = slot[disks[request.range.disk].device]
        /\ \A c \in Client \ {me} : mapper'[c] = mapper[c]
    BY <1>1, <1>3 DEF Inv, Types, PhysicalDevice
  <2>2. Issued' /\ Tabled'
    BY <1>0, <1>1, <2>1 DEF Replacement, Issued, Tabled
  <2>3. \A c \in Client \ {me} : Misdirected(c)' <=> Misdirected(c)
    BY <1>0, <2>1 DEF Misdirected
  <2>4. Misdirected(me)' => ~DiskCurrent(disks[request.range.disk])
    BY <1>0, <2>1 DEF Misdirected, DiskCurrent
  <2>5. \A c \in Client \ {me} : Misdirected(c) => mapper[c].range.disk # request.range.disk
    BY <1>0 DEF Replacement, Confined
  <2>6. \A c \in Client : Misdirected(c)' => ~DiskCurrent(disks[mapper[c].range.disk])'
    BY <1>0, <2>1, <2>3, <2>4 DEF Replacement, Confined, DiskCurrent
  <2>7. ReplacementConfined'
    BY <2>1, <2>3, <2>5 DEF Replacement, Confined, ReplacementConfined
  <2>8. \A c \in Client : Misdirected(c)' /\ mapper'[c].range.disk = request'.range.disk => c = me'
    BY <1>0, <2>1, <2>3, <2>5
  <2>. QED BY <2>2, <2>6, <2>7, <2>8 DEF Replacement, Confined
<1>. QED BY <1>2, <1>3 DEF Make

\* A rollback removes a table or leaves it.
LEMMA ReplacementRollback ==
  ASSUME Inv, Replacement, Rollback PROVE Replacement'
<1>. USE DEF hardware, targets
<1>0. at' = "rollback" /\ UNCHANGED <<hardware, disks, request>>
  BY DEF Rollback
<1>1. CASE mapper' = mapper
  BY <1>0, <1>1, ReplacementKept
<1>2. CASE mapper' = [mapper EXCEPT ![me] = NoMap]
  <2>1. \A c \in Client : mapper'[c] = mapper[c] \/ mapper'[c].range.disk = 0
    BY <1>2 DEF Inv, Types, NoMap, NoRange
  <2>2. Issued' /\ Tabled'
    BY <1>0, <2>1 DEF Replacement, Issued, Tabled
  <2>3. \A c \in Client : Misdirected(c)' => Misdirected(c) /\ mapper'[c] = mapper[c]
    BY <1>0, <2>1 DEF Misdirected
  <2>4. Confined'
    BY <1>0, <2>3 DEF Replacement, Confined, ReplacementConfined, DiskCurrent
  <2>. QED BY <2>2, <2>4 DEF Replacement
<1>. QED BY <1>1, <1>2 DEF Rollback

\* A replaced disk misdirects at most the client being bound when it is replaced.
THEOREM ReplacementsConfined == Spec => []ReplacementConfined
<1>1. ASSUME Inv, Replacement, [Next]_vars PROVE Replacement'
  <2>1. CASE \E d \in Device : Attach(d) \/ Vanish(d)
    BY <1>1, <2>1, ReplacementHardware
  <2>2. CASE Enumerate \/ ScanDone \/ \E d \in Device : Scan(d)
    BY <1>1, <2>2, ReplacementScan
  <2>3. CASE \E c \in Client, r \in BlockRange : Bind(c, r)
    BY <1>1, <2>3, ReplacementBind
  <2>4. CASE Make \/ Rollback
    BY <1>1, <2>4, ReplacementMake, ReplacementRollback
  <2>5. CASE \/ \E c \in Client, r \in BlockRange : Rebind(c, r)
             \/ MakeFails \/ RollbackDone \/ Record \/ Die \/ UNCHANGED vars
    <3>1. /\ UNCHANGED <<hardware, disks, mapper>>
          /\ at' = "publish" => at = "publish" /\ request' = request
      BY <2>5 DEF Rebind, MakeFails, RollbackDone, Record, Die, vars, owner, targets
    <3>. QED BY <1>1, <3>1, ReplacementKept
  <2>. QED BY <1>1, <2>1, <2>2, <2>3, <2>4, <2>5 DEF Next
<1>2. Replacement => ReplacementConfined
  BY DEF Replacement, Confined
<1>. QED BY <1>1, <1>2, InitReplacement, Invariance, PTL DEF Spec

\* BIND answers OK only for what is published.
THEOREM OkPublished == Spec => []OkMeansPublished
<1>1. Inv => OkMeansPublished
  BY DEF Inv
<1>. QED BY <1>1, Invariance, PTL

-----------------------------------------------------------------------------
(* The checks of Layout.                                                   *)

\* The phases with a page array, with a mapping and with queues.
Describing == {"extents", "driver"}
Mapped == {"ready", "queues", "active"}
Queueing == {"queues", "active"}

\* An accepted region is whole pages and its mapping does not wrap.
RegionMapped ==
  /\ length % Page = 0
  /\ phase \in Mapped => memory + length < Word

\* The array holds exactly the pages before the cursor, and there is none
\* before and after PREPARE_MEMORY.
PageArray ==
  /\ phase \in Describing =>
       /\ cursor <= length /\ cursor % Page = 0 /\ length \div Page <= MaxPages
       /\ DOMAIN pages = 0..(cursor \div Page - 1)
  /\ phase \notin Describing => cursor = 0 /\ pages = <<>> /\ extent = None

\* How far configure_vhost has come: the queues before queue are decided, the one
\* at hand has at most two of its three parts.
QueueProgress ==
  /\ phase \notin Queueing => queue = 0 /\ size = 0 /\ parts = <<>> /\ present = {}
  /\ queue <= Count
  /\ size # 0 => phase = "queues" /\ queue < Count /\ Placed \in 0..2
  /\ phase = "active" => queue = Count
  /\ present \subseteq 0..(queue - 1)
  /\ \A q \in 0..(queue - 1) : q < Required => q \in present
  /\ \A i \in 1..Len(parts) : parts[i].queue <= queue /\ (size = 0 => parts[i].queue < queue)

\* A read lasts only while its memory does.
ReadHeld ==
  /\ read # NoRead => phase = "ready" /\ service = "owner"
  /\ ReadInBounds

LayoutInv ==
  /\ LayoutTypeOK
  /\ RegionMapped
  /\ PageArray
  /\ ExtentExact
  /\ GranulesInAperture
  /\ QueueProgress
  /\ RingsInMemory
  /\ ReadHeld

\* The machine word as the proofs use it.
LEMMA Machine ==
  /\ Word \in Nat \ {0} /\ Words \subseteq Nat /\ 0 \in Words
  /\ \A n \in Nat : WordOf(n) \in Words /\ (n < Word => WordOf(n) = n)
<1>1. Word \in Nat \ {0} /\ Words \subseteq Nat /\ 0 \in Words
  BY WordPositive DEF Words
<1>2. ASSUME NEW n \in Nat PROVE WordOf(n) \in Words /\ (n < Word => WordOf(n) = n)
  <2>1. n % Word \in 0..(Word - 1)
    BY <1>1, Division
  <2>2. n < Word => n % Word = n
    BY <1>1
  <2>. QED BY <2>1, <2>2 DEF WordOf, Words
<1>. QED BY <1>1, <1>2

\* No extent, no page and no queue.
LEMMA Nothing ==
  /\ None \in [alias : Words, offset : Words, length : Words]
  /\ NoRead \in [offset : Words, length : Words, at : Words]
  /\ None.length \div Page = 0 /\ 0 % Page = 0 /\ 0 \div Page = 0
  /\ Count \in 0..MaxQueues /\ Required \in 0..Count
<1>1. 0 = Page * 0 + 0 /\ 0 \in Nat /\ 0 \in 0..(Page - 1) /\ Page \in Nat \ {0}
  BY PageSizes
<1>2. (Page * 0 + 0) \div Page = 0 /\ (Page * 0 + 0) % Page = 0
  BY <1>1, Quotient
<1>3. None.length \div Page = 0 /\ 0 % Page = 0 /\ 0 \div Page = 0
  BY <1>1, <1>2 DEF None
<1>4. Count \in 0..MaxQueues /\ Required \in 0..Count
  BY QueueCounts DEF Count, Required
<1>. QED BY <1>3, <1>4, Machine DEF None, NoRead

\* The invariant holds before the first record.
LEMMA LayoutInitInv == LayoutInit => LayoutInv
<1>. SUFFICES ASSUME LayoutInit PROVE LayoutInv
  OBVIOUS
<1>. USE Machine, Nothing DEF LayoutInit
<1>1. LayoutTypeOK
  BY QueueCounts DEF LayoutTypeOK
<1>2. RegionMapped /\ PageArray
  BY DEF RegionMapped, PageArray, Mapped, Describing
<1>3. ExtentExact /\ GranulesInAperture /\ RingsInMemory /\ ReadHeld
  BY DEF ExtentExact, GranulesInAperture, RingsInMemory, ReadHeld, ReadInBounds
<1>4. QueueProgress
  BY DEF QueueProgress, Queueing
<1>. QED BY <1>1, <1>2, <1>3, <1>4 DEF LayoutInv

\* What QueueProgress, RingsInMemory and ReadHeld say is kept by steps that leave
\* the queues and the read alone and do not touch a region in use.
LEMMA RingsKept ==
  ASSUME LayoutInv, UNCHANGED <<service, rings, read>>,
         parts = <<>> \/ UNCHANGED <<base, length, memory>>,
         phase' = phase \/ (phase \notin Queueing /\ phase' \notin Queueing),
         read = NoRead \/ UNCHANGED <<phase, length>>
  PROVE  QueueProgress' /\ RingsInMemory' /\ ReadHeld'
<1>1. QueueProgress'
  BY DEF LayoutInv, QueueProgress, rings, Placed, Count, Required, Queueing
<1>2. RingsInMemory'
  BY DEF LayoutInv, RingsInMemory, rings, RingUnits
<1>3. ReadHeld'
  BY DEF LayoutInv, ReadHeld, ReadInBounds
<1>. QED BY <1>1, <1>2, <1>3

\* PREPARE_MEMORY accepts a region of whole pages that does not wrap.
LEMMA PrepareRegion ==
  ASSUME LayoutInv, NEW r \in Requests, NEW token \in BOOLEAN, Prepare(r.base, r.length, token)
  PROVE  LayoutInv'
<1>1. /\ phase = "empty" /\ phase' \in {"extents", "map"}
      /\ base' = r.base /\ length' = r.length /\ r.length % Page = 0
      /\ phase' = "extents" => r.length \div Page <= MaxPages
      /\ UNCHANGED <<service, cursor, pages, extent, granules, memory, rings, read>>
  BY DEF Prepare, RegionValid
<1>2. r.base \in Words /\ r.length \in Words
  BY RecordWords DEF Words
<1>3. read = NoRead /\ parts = <<>>
  BY <1>1 DEF LayoutInv, ReadHeld, QueueProgress, Queueing
<1>4. LayoutTypeOK'
  BY <1>1, <1>2 DEF LayoutInv, LayoutTypeOK, rings
<1>5. RegionMapped'
  BY <1>1 DEF RegionMapped, Mapped
<1>6. PageArray'
  <2>1. cursor = 0 /\ pages = <<>> /\ extent = None /\ DOMAIN pages = {}
    BY <1>1 DEF LayoutInv, PageArray, Describing
  <2>2. cursor' = 0 /\ cursor' \div Page = 0 /\ cursor' % Page = 0
    BY <1>1, <2>1, Nothing
  <2>3. 0 <= r.length
    BY <1>2, WordPositive DEF Words
  <2>4. 0..(0 - 1) = {}
    OBVIOUS
  <2>. QED BY <1>1, <2>1, <2>2, <2>3, <2>4 DEF PageArray, Describing
<1>7. ExtentExact' /\ GranulesInAperture'
  BY <1>1 DEF LayoutInv, ExtentExact, GranulesInAperture
<1>8. QueueProgress' /\ RingsInMemory' /\ ReadHeld'
  BY <1>1, <1>3, RingsKept DEF Queueing
<1>. QED BY <1>4, <1>5, <1>6, <1>7, <1>8 DEF LayoutInv

\* What an accepted extent does to the array: it fills the pages after the cursor,
\* inside the region, with addresses that do not wrap.
LEMMA ExtentEffect ==
  ASSUME LayoutInv, NEW alias \in Words, NEW offset \in Words, NEW len \in Words,
         Extent(alias, offset, len)
  PROVE  LET first == cursor \div Page
             n == len \div Page
         IN  /\ first \in Nat /\ n \in Nat /\ offset = cursor
             /\ cursor' = cursor + len /\ cursor' <= length /\ cursor' % Page = 0
             /\ cursor' \div Page = first + n /\ first + n <= MaxPages
             /\ DOMAIN pages = 0..(first - 1) /\ DOMAIN pages' = 0..(first + n - 1)
             /\ \A i \in 0..(first - 1) : pages'[i] = pages[i]
             /\ \A k \in 0..(n - 1) : /\ pages'[first + k] = alias + k * Page
                                       /\ alias + k * Page \in Words
<1>. DEFINE first == cursor \div Page
           n == len \div Page
           new == first..(first + n - 1)
<1>1. Page \in Nat \ {0} /\ Word \in Nat /\ MaxPages \in Nat
  BY PageSizes, Machine, QueueCounts
<1>2. /\ cursor \in Nat /\ length \in Nat /\ len \in Nat /\ alias \in Nat /\ length < Word
      /\ cursor % Page = 0 /\ length % Page = 0 /\ length \div Page <= MaxPages
      /\ DOMAIN pages = 0..(first - 1)
  BY Machine DEF LayoutInv, LayoutTypeOK, RegionMapped, PageArray, Describing, Extent, Words
<1>3. /\ offset = cursor /\ len % Page = 0 /\ alias <= (Word - 1) - len /\ cursor <= length
      /\ len <= length - cursor /\ cursor' = WordOf(cursor + len)
  BY DEF Extent, ExtentValid
<1>4. pages' = [i \in DOMAIN pages \cup new |->
                  IF i \in new THEN WordOf(alias + (i - first) * Page) ELSE pages[i]]
  BY DEF Extent
<1>. HIDE DEF first, n, new
<1>5. cursor' = cursor + len /\ cursor' <= length
  <2>1. cursor + len \in Nat /\ cursor + len <= length /\ cursor + len < Word
    BY <1>1, <1>2, <1>3
  <2>. QED BY <1>3, <2>1, Machine
<1>6. /\ first \in Nat /\ n \in Nat /\ len = Page * n
      /\ cursor' % Page = 0 /\ cursor' \div Page = first + n
  <2>1. first \in Nat /\ n \in Nat
    BY <1>1, <1>2, Division DEF first, n
  <2>2. len = Page * n
    BY <1>1, <1>2, <1>3, Multiples DEF n
  <2>3. (cursor + len) % Page = 0 /\ (cursor + len) \div Page = first + n
    BY <1>1, <1>2, <1>3, Multiples DEF first, n
  <2>. QED BY <1>5, <2>1, <2>2, <2>3
<1>7. first + n <= MaxPages
  <2>. DEFINE total == length \div Page
  <2>1. cursor' \in Nat
    BY <1>2, <1>5
  <2>2. total \in Nat /\ total <= MaxPages
    BY <1>1, <1>2, Division
  <2>3. cursor' \div Page <= total
    BY <1>1, <1>2, <1>5, <1>6, <2>1, Multiples
  <2>. HIDE DEF total
  <2>. QED BY <1>1, <1>6, <2>2, <2>3
<1>8. DOMAIN pages' = 0..(first + n - 1)
  BY <1>2, <1>4, <1>6 DEF new
<1>9. \A i \in 0..(first - 1) : pages'[i] = pages[i]
  BY <1>2, <1>4, <1>6 DEF new
<1>10. ASSUME NEW k \in 0..(n - 1)
       PROVE  pages'[first + k] = alias + k * Page /\ alias + k * Page \in Words
  <2>1. k \in Nat /\ k < n /\ first + k \in new /\ (first + k) - first = k
    BY <1>6 DEF new
  <2>2. pages'[first + k] = WordOf(alias + k * Page)
    BY <1>4, <2>1
  <2>3. Page * k + Page <= len /\ k * Page = Page * k /\ k * Page \in Nat
    BY <1>1, <1>6, <2>1, Scaled
  <2>4. alias + k * Page \in Nat /\ alias + k * Page < Word
    <3>1. ASSUME NEW m \in Nat, m + Page <= len PROVE alias + m \in Nat /\ alias + m < Word
      BY <1>1, <1>2, <1>3, <3>1
    <3>. QED BY <2>3, <3>1
  <2>. QED BY <1>1, <2>2, <2>4, Machine DEF Words
<1>. QED BY <1>2, <1>3, <1>5, <1>6, <1>7, <1>8, <1>9, <1>10 DEF first, n

\* An extent keeps the array in bounds and exact.
LEMMA ExtentStep ==
  ASSUME LayoutInv, NEW alias \in Words, NEW offset \in Words, NEW len \in Words,
         Extent(alias, offset, len)
  PROVE  LayoutInv'
<1>. DEFINE first == cursor \div Page
           n == len \div Page
<1>1. /\ first \in Nat /\ n \in Nat /\ offset = cursor
      /\ cursor' = cursor + len /\ cursor' <= length /\ cursor' % Page = 0
      /\ cursor' \div Page = first + n /\ first + n <= MaxPages
      /\ DOMAIN pages = 0..(first - 1) /\ DOMAIN pages' = 0..(first + n - 1)
      /\ \A i \in 0..(first - 1) : pages'[i] = pages[i]
      /\ \A k \in 0..(n - 1) : /\ pages'[first + k] = alias + k * Page
                                /\ alias + k * Page \in Words
  BY ExtentEffect
<1>2. /\ phase = "extents" /\ extent' = [alias |-> alias, offset |-> offset, length |-> len]
      /\ UNCHANGED <<service, phase, base, length, granules, memory, rings, read>>
  BY DEF Extent
<1>. HIDE DEF first, n
<1>3. \A i \in DOMAIN pages' : pages'[i] \in Words
  <2>1. ASSUME NEW i \in 0..(first + n - 1), i >= first PROVE pages'[i] \in Words
    <3>1. i - first \in 0..(n - 1) /\ first + (i - first) = i
      BY <1>1, <2>1
    <3>2. pages'[first + (i - first)] \in Words
      BY <1>1, <3>1
    <3>. QED BY <3>1, <3>2
  <2>2. \A i \in 0..(first - 1) : pages'[i] \in Words
    BY <1>1 DEF LayoutInv, LayoutTypeOK
  <2>. QED BY <1>1, <2>1, <2>2
<1>4. cursor' \in Words /\ DOMAIN pages' \subseteq 0..(MaxPages - 1)
  <2>1. length \in Words /\ cursor \in Words /\ MaxPages \in Nat /\ Word \in Nat
    BY QueueCounts, Machine DEF LayoutInv, LayoutTypeOK
  <2>2. cursor' \in Words
    BY <1>1, <2>1 DEF Words
  <2>3. DOMAIN pages' \subseteq 0..(MaxPages - 1)
    BY <1>1, <2>1
  <2>. QED BY <2>2, <2>3
<1>5. LayoutTypeOK'
  BY <1>2, <1>3, <1>4 DEF LayoutInv, LayoutTypeOK, rings
<1>6. RegionMapped'
  BY <1>2 DEF LayoutInv, RegionMapped
<1>7. PageArray'
  BY <1>1, <1>2 DEF LayoutInv, PageArray, Describing
<1>8. ExtentExact'
  BY <1>1, <1>2 DEF ExtentExact, first, n
<1>9. GranulesInAperture'
  BY <1>2 DEF LayoutInv, GranulesInAperture
<1>10. QueueProgress' /\ RingsInMemory' /\ ReadHeld'
  BY <1>2, RingsKept
<1>. QED BY <1>5, <1>6, <1>7, <1>8, <1>9, <1>10 DEF LayoutInv

\* The array is handed over, given up or freed: nothing is left of it.
LEMMA GrantStep ==
  ASSUME LayoutInv, ExtentsEnd \/ PrepareFails
  PROVE  LayoutInv'
<1>0. read = NoRead /\ parts = <<>>
  BY DEF ExtentsEnd, PrepareFails, LayoutInv, ReadHeld, QueueProgress, Queueing
<1>1. CASE ExtentsEnd
  <2>1. /\ phase = "extents" /\ phase' = "driver"
        /\ UNCHANGED <<service, grant, memory, rings, read>>
    BY <1>1 DEF ExtentsEnd
  <2>2. LayoutTypeOK' /\ RegionMapped' /\ PageArray'
    BY <2>1 DEF LayoutInv, LayoutTypeOK, RegionMapped, PageArray, Mapped, Describing, grant, rings
  <2>3. ExtentExact' /\ GranulesInAperture'
    BY <2>1 DEF LayoutInv, ExtentExact, GranulesInAperture, grant
  <2>4. QueueProgress' /\ RingsInMemory' /\ ReadHeld'
    BY <1>0, <2>1, RingsKept DEF Queueing
  <2>. QED BY <2>2, <2>3, <2>4 DEF LayoutInv
<1>2. CASE PrepareFails
  <2>1. /\ phase \in {"extents", "driver", "map"} /\ phase' = "empty"
        /\ base' = 0 /\ length' = 0 /\ cursor' = 0 /\ pages' = <<>> /\ extent' = None
        /\ granules' = {} /\ UNCHANGED <<service, memory, rings, read>>
    BY <1>2 DEF PrepareFails
  <2>2. LayoutTypeOK'
    BY <2>1, Machine, Nothing DEF LayoutInv, LayoutTypeOK, rings
  <2>3. RegionMapped' /\ PageArray'
    BY <2>1, Nothing DEF RegionMapped, PageArray, Mapped, Describing
  <2>4. ExtentExact' /\ GranulesInAperture'
    BY <2>1, Nothing DEF ExtentExact, GranulesInAperture
  <2>5. QueueProgress' /\ RingsInMemory' /\ ReadHeld'
    BY <1>0, <2>1, RingsKept DEF Queueing
  <2>. QED BY <2>2, <2>3, <2>4, <2>5 DEF LayoutInv
<1>. QED BY <1>1, <1>2

\* hyper_io_page_aperture accepts a page only if its whole granule is in the
\* aperture, and the granule's index is in range.
LEMMA ApertureHolds ==
  ASSUME NEW a \in Words, PageAperture(a)
  PROVE  LET g == a \div Granule
         IN  /\ g \in 0..(Word \div Granule - 1)
             /\ (g * Granule)..(g * Granule + Granule - 1) \subseteq Aperture.start..Aperture.end
<1>. DEFINE g == a \div Granule
           m == a % Granule
           w == Word \div Granule
<1>1. /\ Granule \in Nat \ {0} /\ Word \in Nat /\ Word % Granule = 0
      /\ Aperture.start \in Nat /\ Aperture.end \in Nat /\ a \in Nat /\ a < Word
  BY PageSizes, RecordWords, WordPositive DEF Words
<1>2. g \in Nat /\ m \in 0..(Granule - 1) /\ a = Granule * g + m
  BY <1>1, Division
<1>3. w \in Nat /\ Word = Granule * w
  BY <1>1, Division, Multiples
<1>4. a - m >= Aperture.start /\ a - m <= Aperture.end /\ Aperture.end - (a - m) >= Granule - 1
  BY DEF PageAperture
<1>. HIDE DEF g, m, w
<1>5. g < w
  <2>1. Granule * g \in Nat /\ Granule * w \in Nat /\ Granule * g <= a
    BY <1>1, <1>2, <1>3
  <2>2. Granule * g < Granule * w
    BY <1>1, <1>3, <2>1
  <2>. QED BY <1>1, <1>2, <1>3, <2>2, Scaled
<1>6. a - m = g * Granule /\ g * Granule \in Nat
  BY <1>1, <1>2
<1>7. (g * Granule)..(g * Granule + Granule - 1) \subseteq Aperture.start..Aperture.end
  <2>1. ASSUME NEW b \in Nat, b = a - m
        PROVE  b..(b + Granule - 1) \subseteq Aperture.start..Aperture.end
    BY <1>1, <1>4, <2>1
  <2>. QED BY <1>6, <2>1
<1>. QED BY <1>2, <1>3, <1>5, <1>7 DEF g, w

\* hyper_memory_prepare takes the granules of the pages it has checked.
LEMMA PreparePagesStep ==
  ASSUME LayoutInv, PreparePages
  PROVE  LayoutInv'
<1>1. /\ phase = "driver" /\ phase' = "map" /\ cursor' = 0 /\ pages' = <<>> /\ extent' = None
      /\ \A i \in DOMAIN pages : PageAperture(pages[i])
      /\ granules' = {pages[i] \div Granule : i \in DOMAIN pages}
      /\ UNCHANGED <<service, base, length, memory, rings, read>>
  BY DEF PreparePages
<1>2. \A i \in DOMAIN pages : pages[i] \in Words
  BY DEF LayoutInv, LayoutTypeOK
<1>3. ASSUME NEW h \in granules'
      PROVE  /\ h \in 0..(Word \div Granule - 1)
             /\ (h * Granule)..(h * Granule + Granule - 1) \subseteq Aperture.start..Aperture.end
  <2>1. PICK i \in DOMAIN pages : h = pages[i] \div Granule
    BY <1>1
  <2>. QED BY <1>1, <1>2, <2>1, ApertureHolds
<1>4. LayoutTypeOK'
  BY <1>1, <1>3, Machine, Nothing DEF LayoutInv, LayoutTypeOK, rings
<1>5. RegionMapped' /\ PageArray'
  BY <1>1 DEF LayoutInv, RegionMapped, PageArray, Mapped, Describing
<1>6. ExtentExact'
  BY <1>1, Nothing DEF ExtentExact
<1>7. GranulesInAperture'
  BY <1>3 DEF GranulesInAperture
<1>8. read = NoRead /\ parts = <<>>
  BY <1>1 DEF LayoutInv, ReadHeld, QueueProgress, Queueing
<1>9. QueueProgress' /\ RingsInMemory' /\ ReadHeld'
  BY <1>1, <1>8, RingsKept DEF Queueing
<1>. QED BY <1>4, <1>5, <1>6, <1>7, <1>9 DEF LayoutInv

\* The mapping lies below the top of the address space, and RELEASE_MEMORY and
\* the final release give everything back at once.
LEMMA MemoryStep ==
  ASSUME LayoutInv, Release \/ \E address \in Mappings : Mmap(address)
  PROVE  LayoutInv'
<1>1. ASSUME NEW address \in Mappings, Mmap(address) PROVE LayoutInv'
  <2>1. /\ phase = "map" /\ phase' = "ready" /\ memory' = address /\ address + length < Word
        /\ UNCHANGED <<service, grant, rings, read>>
    BY <1>1 DEF Mmap
  <2>2. LayoutTypeOK'
    BY <2>1, RecordWords DEF LayoutInv, LayoutTypeOK, grant, rings, Words
  <2>3. RegionMapped' /\ PageArray'
    BY <2>1 DEF LayoutInv, RegionMapped, PageArray, Describing, grant
  <2>4. ExtentExact' /\ GranulesInAperture'
    BY <2>1 DEF LayoutInv, ExtentExact, GranulesInAperture, grant
  <2>5. read = NoRead /\ parts = <<>>
    BY <2>1 DEF LayoutInv, ReadHeld, QueueProgress, Queueing
  <2>6. QueueProgress' /\ RingsInMemory' /\ ReadHeld'
    BY <2>1, <2>5, RingsKept DEF Queueing
  <2>. QED BY <2>2, <2>3, <2>4, <2>6 DEF LayoutInv
<1>2. CASE Release
  <2>1. /\ phase \in {"ready", "active"} /\ read = NoRead /\ phase' = "empty"
        /\ base' = 0 /\ length' = 0 /\ granules' = {} /\ memory' = 0
        /\ queue' = 0 /\ size' = 0 /\ parts' = <<>> /\ present' = {}
        /\ UNCHANGED <<service, cursor, pages, extent, read>>
    BY <1>2 DEF Release
  <2>2. LayoutTypeOK'
    BY <2>1, Machine, QueueCounts DEF LayoutInv, LayoutTypeOK
  <2>3. RegionMapped' /\ PageArray'
    BY <2>1, Nothing DEF LayoutInv, RegionMapped, PageArray, Mapped, Describing
  <2>4. ExtentExact' /\ GranulesInAperture' /\ RingsInMemory' /\ ReadHeld'
    BY <2>1 DEF LayoutInv, ExtentExact, GranulesInAperture, RingsInMemory, ReadHeld, ReadInBounds
  <2>5. Count' \in Nat
    BY <2>1, Nothing, QueueCounts DEF Count
  <2>6. QueueProgress'
    BY <2>1, <2>5 DEF QueueProgress, Queueing
  <2>. QED BY <2>2, <2>3, <2>4, <2>6 DEF LayoutInv
<1>. QED BY <1>1, <1>2

\* What the grant and the read say is kept by steps of configure_vhost.
LEMMA GrantKept ==
  ASSUME LayoutInv, UNCHANGED <<service, grant, memory, read>>,
         phase \in Mapped, phase' \in Mapped, read = NoRead
  PROVE  RegionMapped' /\ PageArray' /\ ExtentExact' /\ GranulesInAperture' /\ ReadHeld'
<1>1. RegionMapped' /\ PageArray'
  BY DEF LayoutInv, RegionMapped, PageArray, Mapped, Describing, grant
<1>2. ExtentExact' /\ GranulesInAperture' /\ ReadHeld'
  BY DEF LayoutInv, ExtentExact, GranulesInAperture, ReadHeld, ReadInBounds, grant
<1>. QED BY <1>1, <1>2

\* The fields of the parts are numbers.
LEMMA PartFields ==
  ASSUME LayoutInv
  PROVE  /\ Len(parts) \in Nat /\ queue \in Nat
         /\ \A i \in 1..Len(parts) : /\ parts[i].queue \in Nat
                                      /\ parts[i].start \in Nat /\ parts[i].end \in Nat
<1>. DEFINE R == [queue : 0..(MaxQueues - 1), gpa : Words, start : Words, end : Words]
<1>1. parts \in Seq(R) /\ queue \in 0..MaxQueues
  BY DEF LayoutInv, LayoutTypeOK
<1>2. \A r \in R : r.queue \in Nat /\ r.start \in Nat /\ r.end \in Nat
  BY QueueCounts, WordPositive DEF Words
<1>. HIDE DEF R
<1>3. Len(parts) \in Nat /\ \A i \in 1..Len(parts) : parts[i] \in R
  BY <1>1
<1>. QED BY <1>1, <1>2, <1>3, QueueCounts

\* The number of parts of the queue at hand, counted by index.
LEMMA PlacedCount ==
  ASSUME LayoutInv
  PROVE  /\ Placed \in Nat /\ Len(parts) \in Nat
         /\ size = 0 => Placed = 0
<1>. DEFINE S == {i \in 1..Len(parts) : parts[i].queue = queue}
<1>1. Len(parts) \in Nat
  BY PartFields
<1>2. IsFiniteSet(S)
  <2>1. IsFiniteSet(1..Len(parts))
    BY <1>1, FS_Interval
  <2>. QED BY <2>1, FS_Subset
<1>3. Placed \in Nat
  BY <1>2, FS_CardinalityType DEF Placed
<1>4. ASSUME size = 0 PROVE S = {}
  <2>1. \A i \in 1..Len(parts) : parts[i].queue < queue
    BY <1>4 DEF LayoutInv, QueueProgress
  <2>. QED BY <2>1, PartFields
<1>. QED BY <1>1, <1>3, <1>4, FS_EmptySet DEF Placed

\* A queue is entered, left out or refused, or all are handed to vhost and BIND.
LEMMA QueueStep ==
  ASSUME LayoutInv, \/ Activate \/ Absent \/ Invalid \/ BindQueues
                    \/ \E n \in 1..(MaxSize + 1) : Queue(n)
  PROVE  LayoutInv'
<1>0. /\ read = NoRead /\ Count' = Count /\ Required' = Required /\ Count \in 0..MaxQueues
      /\ UNCHANGED <<service, grant, memory, read>> /\ phase \in Mapped /\ phase' \in Mapped
      /\ queue \in 0..MaxQueues /\ size \in 0..MaxSize
  <2>1. service' = service /\ read' = read /\ UNCHANGED grant /\ memory' = memory
    BY DEF Activate, Absent, Invalid, BindQueues, Queue
  <2>2. phase \in {"ready", "queues"} /\ phase' \in Mapped
    BY DEF Activate, Absent, Invalid, BindQueues, Queue, Mapped
  <2>3. read = NoRead
    BY DEF Activate, Absent, Invalid, BindQueues, Queue, LayoutInv, ReadHeld
  <2>4. Count' = Count /\ Required' = Required
    BY <2>1 DEF Count, Required
  <2>. QED BY <2>1, <2>2, <2>3, <2>4, Nothing DEF Mapped, LayoutInv, LayoutTypeOK
<1>1. RegionMapped' /\ PageArray' /\ ExtentExact' /\ GranulesInAperture' /\ ReadHeld'
  BY <1>0, GrantKept
<1>2. CASE Activate \/ BindQueues
  <2>1. UNCHANGED rings /\ phase' \in {"queues", "active"}
    BY <1>2 DEF Activate, BindQueues
  <2>2. LayoutTypeOK'
    BY <1>0, <2>1 DEF LayoutInv, LayoutTypeOK, grant, rings
  <2>3. RingsInMemory'
    BY <1>0, <2>1 DEF LayoutInv, RingsInMemory, RingUnits, grant, rings
  <2>4. Placed' = Placed
    BY <2>1 DEF Placed, rings
  <2>5. QueueProgress'
    BY <1>0, <1>2, <2>1, <2>4 DEF LayoutInv, QueueProgress, Queueing, Activate, BindQueues, rings
  <2>. QED BY <1>1, <2>2, <2>3, <2>5 DEF LayoutInv
<1>3. CASE Absent
  <2>1. /\ phase = "queues" /\ phase' = phase /\ queue < Count /\ size = 0 /\ queue' = queue + 1
        /\ ~(queue < Required) /\ UNCHANGED <<size, parts, present>>
    BY <1>0, <1>3, Nothing DEF Absent, MayBeAbsent
  <2>2. LayoutTypeOK'
    BY <1>0, <2>1, QueueCounts DEF LayoutInv, LayoutTypeOK, grant
  <2>3. RingsInMemory'
    BY <1>0, <2>1 DEF LayoutInv, RingsInMemory, RingUnits, grant
  <2>5. QueueProgress'
    BY <1>0, <2>1, PartFields DEF LayoutInv, QueueProgress, Queueing
  <2>. QED BY <1>1, <2>2, <2>3, <2>5 DEF LayoutInv
<1>4. CASE Invalid
  <2>1. phase' = "ready" /\ queue' = 0 /\ size' = 0 /\ parts' = <<>> /\ present' = {}
    BY <1>4 DEF Invalid
  <2>2. LayoutTypeOK'
    BY <1>0, <2>1, QueueCounts DEF LayoutInv, LayoutTypeOK, grant
  <2>3. QueueProgress' /\ RingsInMemory'
    BY <1>0, <2>1 DEF QueueProgress, Queueing, RingsInMemory
  <2>. QED BY <1>1, <2>2, <2>3 DEF LayoutInv
<1>5. ASSUME NEW n \in 1..(MaxSize + 1), Queue(n) PROVE LayoutInv'
  <2>1. /\ phase = "queues" /\ phase' = phase /\ queue < Count /\ size = 0 /\ size' = n
        /\ n \in 1..MaxSize /\ UNCHANGED <<queue, parts, present>>
    BY <1>5 DEF Queue
  <2>2. LayoutTypeOK'
    BY <1>0, <2>1 DEF LayoutInv, LayoutTypeOK, grant
  <2>3. RingsInMemory'
    BY <1>0, <2>1 DEF LayoutInv, RingsInMemory, RingUnits, grant
  <2>4. Placed' = 0
    BY <2>1, PlacedCount DEF Placed
  <2>5. QueueProgress'
    BY <1>0, <2>1, <2>4 DEF LayoutInv, QueueProgress, Queueing
  <2>. QED BY <1>1, <2>2, <2>3, <2>5 DEF LayoutInv
<1>. QED BY <1>2, <1>3, <1>4, <1>5

\* What queue_address accepts and where the part then lies: inside the mapping,
\* without wrapping, and not empty.
LEMMA PlacedPart ==
  ASSUME LayoutInv, NEW gpa \in Words, Place(gpa)
  PROVE  LET bytes == PartLength(Placed)
             start == memory + (gpa - base)
             part == [queue |-> queue, gpa |-> gpa, start |-> start, end |-> start + bytes]
         IN  /\ bytes \in Nat /\ bytes > 0 /\ start \in Words /\ start + bytes \in Words
             /\ memory <= start /\ start + bytes <= memory + length
             /\ \A i \in 1..Len(parts) : ~Overlaps(part, parts[i])
             /\ parts' = Append(parts, part)
<1>. DEFINE bytes == PartLength(Placed)
           start == memory + (gpa - base)
<1>1. /\ memory \in Nat /\ base \in Nat /\ length \in Nat /\ gpa \in Nat /\ size \in Nat
      /\ Word \in Nat
  BY WordPositive, QueueCounts DEF LayoutInv, LayoutTypeOK, Words
<1>2. size # 0 /\ Placed \in 0..2 /\ memory + length < Word
  BY DEF Place, LayoutInv, QueueProgress, RegionMapped, Mapped
<1>3. bytes \in Nat /\ bytes > 0
  <2>1. Placed \in {0, 1, 2}
    BY <1>2
  <2>2. 8 * size \in Nat /\ 8 * size > 0 /\ 3 + size \in Nat /\ 3 + 4 * size \in Nat
    BY <1>1, <1>2
  <2>. QED BY <1>1, <2>1, <2>2 DEF PartLength
<1>4. gpa >= base /\ bytes <= length /\ gpa - base <= length - bytes
  BY DEF Place, QueueAddress
<1>. HIDE DEF bytes
<1>5. /\ start \in Nat /\ start + bytes \in Nat /\ memory <= start
      /\ start + bytes <= memory + length /\ start + bytes < Word /\ start < Word
  BY <1>1, <1>2, <1>3, <1>4
<1>6. WordOf(start) = start /\ WordOf(start + bytes) = start + bytes
  BY <1>5, Machine
<1>7. start \in Words /\ start + bytes \in Words
  BY <1>1, <1>5 DEF Words
<1>. HIDE DEF start
<1>8. LET part == [queue |-> queue, gpa |-> gpa, start |-> start, end |-> start + bytes]
      IN  /\ \A i \in 1..Len(parts) : ~Overlaps(part, parts[i])
          /\ parts' = Append(parts, part)
  BY <1>6 DEF Place, bytes, start
<1>. QED BY <1>3, <1>5, <1>7, <1>8 DEF bytes, start

\* The next part: the rings stay in memory and apart, and the third part of a
\* queue completes it.
LEMMA PlaceStep ==
  ASSUME LayoutInv, NEW gpa \in Words, Place(gpa)
  PROVE  LayoutInv'
<1>. DEFINE bytes == PartLength(Placed)
           start == memory + (gpa - base)
           part == [queue |-> queue, gpa |-> gpa, start |-> start, end |-> start + bytes]
           n == Len(parts)
<1>1. /\ bytes \in Nat /\ bytes > 0 /\ start \in Words /\ start + bytes \in Words
      /\ memory <= start /\ start + bytes <= memory + length
      /\ \A i \in 1..n : ~Overlaps(part, parts[i])
      /\ parts' = Append(parts, part)
  BY PlacedPart
<1>2. /\ phase = "queues" /\ size # 0 /\ UNCHANGED <<service, phase, grant, memory, read>>
      /\ IF Placed = 2
         THEN queue' = queue + 1 /\ size' = 0 /\ present' = present \cup {queue}
         ELSE UNCHANGED <<queue, size, present>>
  BY DEF Place
<1>3. /\ memory \in Nat /\ base \in Nat /\ length \in Nat /\ size \in 0..MaxSize /\ n \in Nat
      /\ queue \in 0..MaxQueues /\ gpa \in Nat /\ read = NoRead /\ Words \subseteq Nat
      /\ parts \in Seq([queue : 0..(MaxQueues - 1), gpa : Words, start : Words, end : Words])
  BY <1>2, WordPositive DEF LayoutInv, LayoutTypeOK, Words, ReadHeld
<1>4. /\ Count' = Count /\ Required' = Required /\ Count \in 0..MaxQueues
      /\ queue < Count /\ Placed \in 0..2
  BY <1>2, Nothing DEF Count, Required, LayoutInv, QueueProgress
<1>5. RegionMapped' /\ PageArray' /\ ExtentExact' /\ GranulesInAperture' /\ ReadHeld'
  BY <1>2, <1>3, GrantKept DEF Mapped
<1>. HIDE DEF bytes, start, n
<1>6. part \in [queue : 0..(MaxQueues - 1), gpa : Words, start : Words, end : Words]
  BY <1>1, <1>3, <1>4, QueueCounts
<1>7. /\ parts' \in Seq([queue : 0..(MaxQueues - 1), gpa : Words, start : Words, end : Words])
      /\ Len(parts') = n + 1 /\ \A i \in 1..n : parts'[i] = parts[i]
      /\ parts'[n + 1] = part
  BY <1>1, <1>3, <1>6 DEF n
<1>8. LayoutTypeOK'
  <2>1. /\ queue' \in 0..MaxQueues /\ size' \in 0..MaxSize
        /\ present' \subseteq 0..(MaxQueues - 1)
    <3>1. present \subseteq 0..(MaxQueues - 1) /\ queue \in 0..(MaxQueues - 1)
      BY <1>3, <1>4, QueueCounts DEF LayoutInv, LayoutTypeOK
    <3>2. CASE Placed = 2
      <4>1. queue' = queue + 1 /\ size' = 0 /\ present' = present \cup {queue}
        BY <1>2, <3>2
      <4>. QED BY <3>1, <4>1, QueueCounts
    <3>3. CASE Placed # 2
      BY <1>2, <1>3, <3>1, <3>3
    <3>. QED BY <3>2, <3>3
  <2>. QED BY <1>2, <1>7, <2>1 DEF LayoutInv, LayoutTypeOK, grant
<1>9. RingsInMemory'
  <2>. USE DEF RingUnits
  <2>1. /\ \A i \in 1..n : /\ parts[i].start \in Nat /\ parts[i].end \in Nat
                            /\ RingUnits(part) \cap RingUnits(parts[i]) = {}
        /\ start \in Nat /\ bytes \in Nat
    <3>1. \A i \in 1..n : parts[i].start \in Nat /\ parts[i].end \in Nat
      BY PartFields DEF n
    <3>2. start \in Nat /\ bytes \in Nat
      BY <1>1, <1>3
    <3>3. part.start = start /\ part.end = start + bytes
      OBVIOUS
    <3>. HIDE DEF part
    <3>4. ASSUME NEW i \in 1..n PROVE RingUnits(part) \cap RingUnits(parts[i]) = {}
      <4>1. ~(start < parts[i].end /\ parts[i].start < start + bytes)
        BY <1>1, <3>3 DEF Overlaps
      <4>2. ASSUME NEW x \in start..(start + bytes - 1), x \in parts[i].start..(parts[i].end - 1)
            PROVE  FALSE
        BY <3>1, <3>2, <4>1, <4>2
      <4>3. RingUnits(part) = start..(start + bytes - 1)
        BY <3>2, <3>3
      <4>4. RingUnits(parts[i]) = parts[i].start..(parts[i].end - 1)
        OBVIOUS
      <4>. HIDE DEF RingUnits
      <4>. QED BY <4>2, <4>3, <4>4
    <3>. QED BY <3>1, <3>2, <3>4
  <2>2. /\ RingUnits(part) # {} /\ RingUnits(part) \subseteq memory..(memory + length - 1)
        /\ part.gpa - base = part.start - memory
    <3>1. part.start = start /\ part.end = start + bytes /\ part.gpa = gpa
      OBVIOUS
    <3>. HIDE DEF part
    <3>2. start \in start..(start + bytes - 1)
      BY <1>1, <2>1
    <3>3. start..(start + bytes - 1) \subseteq memory..(memory + length - 1)
      BY <1>1, <1>3, <2>1
    <3>4. gpa - base = start - memory
      BY <1>3 DEF start
    <3>5. RingUnits(part) = start..(start + bytes - 1)
      BY <2>1, <3>1
    <3>. HIDE DEF RingUnits
    <3>. QED BY <3>1, <3>2, <3>3, <3>4, <3>5
  <2>. HIDE DEF part, RingUnits
  <2>3. memory' = memory /\ length' = length /\ base' = base
    BY <1>2 DEF grant
  <2>4. \A i \in 1..n : /\ RingUnits(parts[i]) # {}
                         /\ RingUnits(parts[i]) \subseteq memory..(memory + length - 1)
                         /\ parts[i].gpa - base = parts[i].start - memory
                         /\ \A j \in 1..n : i # j => RingUnits(parts[i]) \cap RingUnits(parts[j]) = {}
    BY DEF LayoutInv, RingsInMemory, n
  <2>5. \A i \in 1..(n + 1) : i \in 1..n \/ i = n + 1
    BY <1>3
  <2>6. ASSUME NEW i \in 1..(n + 1)
        PROVE  /\ RingUnits(parts'[i]) # {}
               /\ RingUnits(parts'[i]) \subseteq memory..(memory + length - 1)
               /\ parts'[i].gpa - base = parts'[i].start - memory
    BY <1>7, <2>2, <2>4, <2>5
  <2>7. ASSUME NEW i \in 1..(n + 1), NEW j \in 1..(n + 1), i # j
        PROVE  RingUnits(parts'[i]) \cap RingUnits(parts'[j]) = {}
    BY <1>7, <2>1, <2>4, <2>5, <2>7
  <2>8. \A i : RingUnits(parts[i])' = RingUnits(parts'[i])
    BY DEF RingUnits
  <2>. QED BY <1>7, <2>3, <2>6, <2>7, <2>8 DEF RingsInMemory
<1>10. QueueProgress'
  <2>. DEFINE S == {i \in 1..n : parts[i].queue = queue}
  <2>1. IsFiniteSet(S) /\ Cardinality(S) = Placed /\ n + 1 \notin S
    <3>1. IsFiniteSet(1..n)
      BY <1>3, FS_Interval
    <3>. QED BY <1>3, <3>1, FS_Subset DEF Placed, n
  <2>2. \A i \in 1..(n + 1) : i \in 1..n \/ i = n + 1
    BY <1>3
  <2>3. part.queue = queue
    OBVIOUS
  <2>. HIDE DEF part
  <2>4. {i \in 1..(n + 1) : parts'[i].queue = queue} = S \cup {n + 1}
    BY <1>3, <1>7, <2>2, <2>3
  <2>5. queue' = queue => Placed' = Placed + 1
    <3>1. Cardinality(S \cup {n + 1}) = Placed + 1
      BY <2>1, FS_AddElement
    <3>. QED BY <1>7, <2>4, <3>1 DEF Placed
  <2>6. \A i \in 1..Len(parts') : parts'[i].queue \in Nat /\ parts'[i].queue <= queue
    <3>1. \A i \in 1..n : parts[i].queue \in Nat /\ parts[i].queue <= queue
      BY PartFields DEF LayoutInv, QueueProgress, n
    <3>. QED BY <1>3, <1>7, <2>2, <2>3, <3>1
  <2>7. /\ phase' = "queues" /\ present \subseteq 0..(queue - 1)
        /\ \A q \in 0..(queue - 1) : q < Required => q \in present
    BY <1>2 DEF LayoutInv, QueueProgress
  <2>8. CASE Placed = 2
    <3>1. queue' = queue + 1 /\ size' = 0 /\ present' = present \cup {queue}
      BY <1>2, <2>8
    <3>2. queue' <= Count /\ present' \subseteq 0..(queue' - 1)
      BY <1>3, <1>4, <2>7, <3>1, QueueCounts
    <3>3. \A q \in 0..(queue' - 1) : q < Required => q \in present'
      BY <1>3, <2>7, <3>1, QueueCounts
    <3>4. \A i \in 1..Len(parts') : parts'[i].queue <= queue' /\ parts'[i].queue < queue'
      BY <1>3, <2>6, <3>1, QueueCounts
    <3>. QED BY <1>4, <2>7, <3>1, <3>2, <3>3, <3>4 DEF QueueProgress, Queueing
  <2>9. CASE Placed # 2
    <3>1. UNCHANGED <<queue, size, present>>
      BY <1>2, <2>9
    <3>2. Placed' \in 0..2
      BY <1>4, <2>5, <2>9, <3>1
    <3>3. queue <= Count
      BY <1>3, <1>4, QueueCounts
    <3>. QED BY <1>2, <1>4, <2>6, <2>7, <3>1, <3>2, <3>3 DEF QueueProgress, Queueing
  <2>. QED BY <2>8, <2>9
<1>. QED BY <1>5, <1>8, <1>9, <1>10 DEF LayoutInv

\* BLOCK_READ is checked against the disk and the memory that it then uses.
LEMMA ReadStep ==
  ASSUME LayoutInv, \/ \E offset, buffer \in Addresses, len \in Lengths : Read(offset, len, buffer)
                    \/ ReadEnds
  PROVE  LayoutInv'
<1>0. UNCHANGED <<service, phase, grant, memory, rings>>
  BY DEF Read, ReadEnds
<1>1. /\ RegionMapped' /\ PageArray' /\ ExtentExact' /\ GranulesInAperture'
      /\ QueueProgress' /\ RingsInMemory'
  BY <1>0 DEF LayoutInv, RegionMapped, PageArray, ExtentExact, GranulesInAperture,
       QueueProgress, RingsInMemory, RingUnits, Placed, Count, Required, grant, rings
<1>2. ASSUME NEW offset \in Addresses, NEW buffer \in Addresses, NEW len \in Lengths,
             Read(offset, len, buffer)
      PROVE  LayoutTypeOK' /\ ReadHeld'
  <2>1. /\ phase = "ready" /\ service = "owner"
        /\ len <= DiskBytes /\ offset <= DiskBytes - len /\ len <= length /\ buffer <= length - len
        /\ read' = [offset |-> offset, length |-> len, at |-> buffer]
    BY <1>2 DEF Read, ReadValid
  <2>2. offset \in Words /\ buffer \in Words /\ len \in Words
    BY RecordWords DEF Words
  <2>3. /\ offset \in Nat /\ buffer \in Nat /\ len \in Nat /\ length \in Nat /\ DiskBytes \in Nat
    BY <2>2, RecordWords, WordPositive DEF LayoutInv, LayoutTypeOK, Words
  <2>4. RefReadInBounds(DiskBytes, offset, len, length, buffer)
    BY <2>1, <2>3 DEF RefReadInBounds
  <2>5. LayoutTypeOK'
    BY <1>0, <2>1, <2>2 DEF LayoutInv, LayoutTypeOK, grant, rings
  <2>. QED BY <1>0, <2>1, <2>4, <2>5 DEF ReadHeld, ReadInBounds, grant
<1>3. CASE ReadEnds
  <2>1. read' = NoRead
    BY <1>3 DEF ReadEnds
  <2>2. LayoutTypeOK'
    BY <1>0, <2>1, Nothing DEF LayoutInv, LayoutTypeOK, grant, rings
  <2>. QED BY <1>1, <2>1, <2>2 DEF LayoutInv, ReadHeld, ReadInBounds
<1>. QED BY <1>1, <1>2, <1>3 DEF LayoutInv

\* Every accepted element keeps the invariant.
LEMMA LayoutNextInv == LayoutInv /\ [LayoutNext]_layout => LayoutInv'
<1>. SUFFICES ASSUME LayoutInv, [LayoutNext]_layout PROVE LayoutInv'
  OBVIOUS
<1>1. CASE \E r \in Requests, token \in BOOLEAN : Prepare(r.base, r.length, token)
  BY <1>1, PrepareRegion
<1>2. CASE Extents
  BY <1>2, ExtentStep, RecordWords DEF Extents, Words
<1>3. CASE ExtentsEnd \/ PrepareFails
  BY <1>3, GrantStep
<1>4. CASE PreparePages
  BY <1>4, PreparePagesStep
<1>5. CASE Release \/ \E address \in Mappings : Mmap(address)
  BY <1>5, MemoryStep
<1>6. CASE Activate \/ Absent \/ Invalid \/ BindQueues \/ \E n \in 1..(MaxSize + 1) : Queue(n)
  BY <1>6, QueueStep
<1>7. CASE \E gpa \in Addresses : Place(gpa)
  BY <1>7, PlaceStep, RecordWords DEF Words
<1>8. CASE Reads \/ ReadEnds
  BY <1>8, ReadStep DEF Reads
<1>9. CASE UNCHANGED layout
  <2>. USE <1>9 DEF layout
  <2>1. LayoutTypeOK' /\ RegionMapped' /\ PageArray'
    BY DEF LayoutInv, LayoutTypeOK, RegionMapped, PageArray
  <2>2. ExtentExact' /\ GranulesInAperture' /\ ReadHeld'
    BY DEF LayoutInv, ExtentExact, GranulesInAperture, ReadHeld, ReadInBounds
  <2>3. QueueProgress' /\ RingsInMemory'
    BY DEF LayoutInv, QueueProgress, RingsInMemory, RingUnits, Placed, Count, Required
  <2>. QED BY <2>1, <2>2, <2>3 DEF LayoutInv
<1>. QED BY <1>1, <1>2, <1>3, <1>4, <1>5, <1>6, <1>7, <1>8, <1>9 DEF LayoutNext

\* The inductive invariant of the range checks.
THEOREM LayoutInvariance == LayoutSpec => []LayoutInv
  BY LayoutInitInv, LayoutNextInv, PTL DEF LayoutSpec

\* For every word, page and granule size, prepare_memory fills its array within
\* its bounds with exactly the pages of the extents, and hyper_memory_prepare
\* acquires no granule that is not wholly in the aperture.
THEOREM GrantsSound == LayoutSpec => []GrantSound
<1>1. ASSUME LayoutInv PROVE PagesInBounds
  <2>1. SUFFICES ASSUME phase \in Describing
                 PROVE  /\ DOMAIN pages = 0..(cursor \div Page - 1)
                        /\ Cardinality(DOMAIN pages) * Page <= length
    BY DEF PagesInBounds, Describing
  <2>. DEFINE n == cursor \div Page
  <2>2. /\ DOMAIN pages = 0..(n - 1) /\ cursor <= length /\ cursor % Page = 0
    BY <1>1, <2>1 DEF LayoutInv, PageArray
  <2>3. Page \in Nat \ {0} /\ cursor \in Nat /\ length \in Nat
    BY <1>1, PageSizes, WordPositive DEF LayoutInv, LayoutTypeOK, Words
  <2>4. n \in Nat /\ cursor = Page * n
    BY <2>2, <2>3, Division, Multiples
  <2>. HIDE DEF n
  <2>5. Cardinality(0..(n - 1)) = n
    BY <2>4, FS_Interval
  <2>6. n * Page = cursor
    BY <2>3, <2>4
  <2>. QED BY <2>2, <2>5, <2>6 DEF n
<1>2. LayoutInv => GrantSound
  BY <1>1 DEF LayoutInv, GrantSound
<1>. QED BY <1>2, LayoutInvariance, PTL

\* The ring parts configure_vhost hands to vhost lie in the client's mapping, are
\* disjoint and translated right, and hyper_io_eventfds_valid accepts every set
\* of queues the service accepts.
THEOREM ActivationsSound == LayoutSpec => []ActivationSound
<1>1. ASSUME LayoutInv, phase = "active" PROVE EventfdsValid(present)
  <2>1. /\ queue = Count /\ present \subseteq 0..(Count - 1)
        /\ \A q \in 0..(Count - 1) : q < Required => q \in present
    BY <1>1 DEF LayoutInv, QueueProgress
  <2>2. Count \in 0..MaxQueues /\ Required \in 0..Count
        /\ Count <= IF service = "network" THEN NetworkQueues ELSE MaxQueues
    BY Nothing, QueueCounts DEF Count
  <2>3. 0..(Required - 1) \subseteq present
    BY <2>1, <2>2, QueueCounts
  <2>. QED BY <2>1, <2>2, <2>3, QueueCounts DEF EventfdsValid
<1>2. LayoutInv => ActivationSound
  BY <1>1 DEF LayoutInv, ActivationSound, ActivationBindable
<1>. QED BY <1>2, LayoutInvariance, PTL

\* A BLOCK_READ in progress stays within the disk and within the owner's memory,
\* which nothing takes away before it has ended.
THEOREM ReadsSound == LayoutSpec => []ReadInBounds
<1>1. LayoutInv => ReadInBounds
  BY DEF LayoutInv, ReadHeld
<1>. QED BY <1>1, LayoutInvariance, PTL
==============================================================================
