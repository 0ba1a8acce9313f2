----------------------------- MODULE BlockOwner -----------------------------
(***************************************************************************)
(* The block owner (service/block.c, block-target.c): it inventories the   *)
(* physical disks, binds a range of one to each client and publishes it as *)
(* a device-mapper device and a LIO target.                                *)
(*                                                                         *)
(* The owner is one thread; between its system calls disks appear, vanish  *)
(* and are replaced, data services look for their target, and every call   *)
(* can fail.  A target is the set of kernel objects built so far.  Disk    *)
(* identifiers are positions in disks, from 1.                             *)
(***************************************************************************)
EXTENDS BlockPolicy, SequencesExt

CONSTANTS
  Device,       \* device numbers
  Client,       \* data clients with a notification device
  ReadOnlyDisk, \* devices that are read-only hardware
  Bytes, Sector, \* geometry of the disks
  MaxDisks,     \* HYPER_BLOCK_DISKS
  MaxSequence,  \* bound on disks ever attached
  MaxFaults     \* bound on system calls that fail without a reason

ASSUME Geometry == Bytes \in 0..(Word - 1) /\ Sector \in 0..(Word - 1)
ASSUME BoundsNat == MaxDisks \in Nat /\ MaxSequence \in Nat /\ MaxFaults \in Nat

VARIABLES
  slot,        \* sequence number of the disk at each device number, 0 if none
  attached,    \* disks attached so far
  disks,       \* owner->disks: device and sequence
  bindings,    \* owner->bindings
  at,          \* the owner: idle, scan, publish, rollback, record, dead
  todo,        \* devices the scan has still to visit
  request,     \* client and range of the BIND being served
  faults,      \* calls that have failed
  step, undo,  \* next object to make; objects the rollback has still to remove
  built,       \* the objects of each client's target
  mapper,      \* what each client's mapper table points at
  acked        \* history: the range BIND last answered OK for, per client

hardware == <<slot, attached>>
owner == <<disks, bindings, at, todo, request, step, undo, faults>>
targets == <<built, mapper>>
vars == <<hardware, owner, targets, acked>>

\* Faulty variant: the LUN is linked before the nexus exists.
StepsLinkEarly ==
  <<"mapper", "table", "node", "core", "enable", "target", "group", "lun", "link", "nexus">>

\* The order in which block_target_publish makes a target, the link last.  A step
\* stands for the calls that fail together: table for load and resume, enable
\* for the attributes of the block object.
Steps ==
  <<"mapper", "table", "node", "core", "enable", "target", "group", "lun", "nexus", "link">>

Object == ToSet(Steps)
Entry == [device : Device, sequence : 1..MaxSequence]
NoRequest == [client |-> 0, range |-> NoRange]
NoMap == [device |-> 0, sequence |-> 0, range |-> NoRange]

\* Within the geometry of a disk.
Sane(r) == r = NoRange \/ RefSectors(r) \subseteq 0..(Bytes \div Sector - 1)

TypeOK ==
  /\ slot \in [Device -> 0..MaxSequence] /\ attached \in 0..MaxSequence
  /\ disks \in Seq(Entry) /\ Len(disks) <= MaxDisks
  /\ \A c \in Client : bindings[c] \in BlockRange /\ Sane(bindings[c])
  /\ at \in {"idle", "scan", "publish", "rollback", "record", "dead"}
  /\ todo \in SUBSET Device
  /\ request \in [client : Client, range : BlockRange] \cup {NoRequest}
  /\ step \in 1..Len(Steps) /\ undo \in Seq(Object) /\ faults \in 0..MaxFaults
  /\ built \in [Client -> SUBSET Object]
  /\ acked \in [Client -> BlockRange]

Init ==
  /\ slot = [d \in Device |-> 0] /\ attached = 0
  /\ disks = <<>> /\ bindings = [c \in Client |-> NoRange]
  /\ at = "idle" /\ todo = {} /\ step = 1 /\ undo = <<>> /\ faults = 0
  /\ request = NoRequest
  /\ built = [c \in Client |-> {}] /\ mapper = [c \in Client |-> NoMap]
  /\ acked = [c \in Client |-> NoRange]

-----------------------------------------------------------------------------
(* Hardware.  A replaced medium or a recycled device number shows as a new *)
(* sequence number, a vanished disk as none.                               *)

Attach(d) ==
  /\ attached < MaxSequence /\ at # "dead"
  /\ attached' = attached + 1
  /\ slot' = [slot EXCEPT ![d] = attached + 1]
  /\ UNCHANGED <<owner, targets, acked>>

Vanish(d) ==
  /\ slot[d] # 0 /\ at # "dead"
  /\ slot' = [slot EXCEPT ![d] = 0]
  /\ UNCHANGED <<attached, owner, targets, acked>>

-----------------------------------------------------------------------------
(* BLOCK_ENUM with cursor 0: discover_disks.                               *)

Enumerate ==
  /\ at = "idle"
  /\ at' = "scan" /\ todo' = Device
  /\ UNCHANGED <<hardware, disks, bindings, request, step, undo, faults, targets, acked>>

\* Faulty variant: a replaced disk is a new disk.
KnownSame(d) == \E i \in DOMAIN disks : disks[i] = [device |-> d, sequence |-> slot[d]]

\* The device number is in the inventory.
Known(d) == \E i \in DOMAIN disks : disks[i].device = d

Unchanged(d) == \E i \in DOMAIN disks : disks[i] = [device |-> d, sequence |-> slot[d]]

\* One directory entry: skip what is not there yet, stop at a replaced disk, an
\* unreadable one or a full table, skip a known disk, append a new one.
Scan(d) ==
  /\ at = "scan" /\ d \in todo
  /\ \/ slot[d] = 0 /\ todo' = todo \ {d} /\ UNCHANGED <<at, disks>>
     \/ slot[d] # 0 /\ at' = "idle" /\ todo' = {} /\ UNCHANGED disks
     \/ /\ slot[d] # 0 /\ Known(d) /\ Unchanged(d)
        /\ todo' = todo \ {d} /\ UNCHANGED <<at, disks>>
     \/ /\ slot[d] # 0 /\ ~Known(d) /\ Len(disks) < MaxDisks
        /\ disks' = Append(disks, [device |-> d, sequence |-> slot[d]])
        /\ todo' = todo \ {d} /\ UNCHANGED at
  /\ UNCHANGED <<hardware, bindings, request, step, undo, faults, targets, acked>>

ScanDone ==
  /\ at = "scan" /\ todo = {}
  /\ at' = "idle"
  /\ UNCHANGED <<hardware, disks, bindings, todo, request, step, undo, faults, targets, acked>>

-----------------------------------------------------------------------------
(* BLOCK_BIND: bind_range.                                                 *)

\* The answer OK; other answers change nothing.
Ok(c, r) == acked' = [acked EXCEPT ![c] = r]

\* Faulty variant: the disk behind an identifier is taken for granted.
DiskTrusted(e) == slot[e.device] # 0

\* disk_current: the open disk still has the sequence that was inventoried.
DiskCurrent(e) == slot[e.device] = e.sequence

\* Faulty variant: any BIND of a bound client succeeds.
AnyRebind(old, new) == TRUE

\* A repeated BIND succeeds if it asks for what is bound.
SameBind(old, new) == old = new

\* Every check of bind_range passes, and publication begins.
Bind(c, r) ==
  /\ at = "idle" /\ r.disk \in DOMAIN disks /\ DiskCurrent(disks[r.disk])
  /\ RangeValid(Bytes, Sector, disks[r.disk].device \in ReadOnlyDisk, r)
  /\ bindings[c].disk = 0
  /\ \A o \in Client : ~RangesConflict(bindings[o], r)
  /\ at' = "publish" /\ step' = 1 /\ request' = [client |-> c, range |-> r]
  /\ UNCHANGED <<hardware, disks, bindings, todo, undo, faults, targets, acked>>

Rebind(c, r) ==
  /\ at = "idle" /\ r.disk \in DOMAIN disks /\ DiskCurrent(disks[r.disk])
  /\ RangeValid(Bytes, Sector, disks[r.disk].device \in ReadOnlyDisk, r)
  /\ bindings[c].disk # 0 /\ SameBind(bindings[c], r)
  /\ Ok(c, r)
  /\ UNCHANGED <<hardware, owner, targets>>

-----------------------------------------------------------------------------
(* block_target_publish: mapper_create and target_create.                  *)

me == request.client
PhysicalDevice == disks[request.range.disk].device
Step == Steps[step]

\* Made objects that must be gone before an object can be removed.
Dependents(o) ==
  CASE o = "mapper" -> {"enable"} [] o = "core" -> {"link"} [] o = "target" -> {"group"}
    [] o = "group" -> {"lun"} [] o = "lun" -> {"link"} [] OTHER -> {}

\* What disappears with an object.
Owned(o) ==
  CASE o = "mapper" -> {"mapper", "table"} [] o = "core" -> {"core", "enable"}
    [] OTHER -> {o}

\* The call cannot succeed: the object exists, or the disk does not.
Impossible == Step \in built[me] \/ (Step = "table" /\ slot[PhysicalDevice] = 0)

Fault == faults < MaxFaults /\ faults' = faults + 1

Make ==
  /\ at = "publish" /\ ~Impossible
  /\ built' = [built EXCEPT ![me] = @ \cup {Step}]
  /\ mapper' = IF Step = "table"
               THEN [mapper EXCEPT ![me] = [device |-> PhysicalDevice, sequence |-> slot[PhysicalDevice],
                                            range |-> request.range]]
               ELSE mapper
  /\ IF step = Len(Steps) THEN at' = "record" /\ UNCHANGED step
                          ELSE step' = step + 1 /\ UNCHANGED at
  /\ UNCHANGED <<hardware, disks, bindings, todo, request, undo, faults, acked>>

\* Removing an object is up to this attempt if this attempt has made it.
Made(o) == IF \E i \in 1..(step - 1) : Steps[i] = o THEN <<o>> ELSE <<>>

\* What target_create's made counter and block_target_publish remove: only what
\* this attempt made, and the node only if target_create was reached.
Undo ==
  Made("nexus") \o Made("lun") \o Made("group") \o Made("target") \o Made("core")
    \o Made("mapper") \o Made("node")

\* A call fails, as it must where an earlier rollback left its object behind.
MakeFails ==
  /\ at = "publish"
  /\ \/ Impossible /\ UNCHANGED faults
     \/ ~Impossible /\ Fault
  /\ at' = "rollback" /\ undo' = Undo
  /\ UNCHANGED <<hardware, disks, bindings, todo, request, step, targets, acked>>

\* An object in use cannot be removed, and the device node goes only after the
\* mapper did.
Held ==
  \/ Dependents(Head(undo)) \cap built[me] # {}
  \/ Head(undo) = "node" /\ "mapper" \in built[me]

\* One call of the rollback succeeds, or its failure is reported and ignored.
Rollback ==
  /\ at = "rollback" /\ undo # <<>>
  /\ undo' = Tail(undo)
  /\ \/ Held /\ UNCHANGED <<targets, faults>>
     \/ ~Held /\ Fault /\ UNCHANGED targets
     \/ /\ ~Held /\ UNCHANGED faults
        /\ built' = [built EXCEPT ![me] = @ \ Owned(Head(undo))]
        /\ mapper' = IF Head(undo) = "mapper" THEN [mapper EXCEPT ![me] = NoMap] ELSE mapper
  /\ UNCHANGED <<hardware, disks, bindings, at, todo, request, step, acked>>

RollbackDone ==
  /\ at = "rollback" /\ undo = <<>>
  /\ at' = "idle" /\ step' = 1 /\ request' = NoRequest
  /\ UNCHANGED <<hardware, disks, bindings, todo, undo, faults, targets, acked>>

Record ==
  /\ at = "record"
  /\ at' = "idle" /\ step' = 1 /\ request' = NoRequest
  /\ bindings' = [bindings EXCEPT ![me] = request.range] /\ Ok(me, request.range)
  /\ UNCHANGED <<hardware, disks, todo, undo, faults, targets>>

\* The owner ends or dies; what it published stays, and nobody restarts it.
Die ==
  /\ at # "dead" /\ at' = "dead"
  /\ UNCHANGED <<hardware, disks, bindings, todo, request, step, undo, faults, targets, acked>>

-----------------------------------------------------------------------------
Next ==
  \/ \E d \in Device : Attach(d) \/ Vanish(d) \/ Scan(d)
  \/ Enumerate \/ ScanDone
  \/ \E c \in Client, r \in BlockRange : Bind(c, r) \/ Rebind(c, r)
  \/ Make \/ MakeFails \/ Rollback \/ RollbackDone \/ Record \/ Die

Spec == Init /\ [][Next]_vars

-----------------------------------------------------------------------------
(* Properties.                                                             *)

\* block_target_ready looks for the link.
Ready(c) == "link" \in built[c]

\* A data service that finds its target finds all of it, made for one range, and
\* that range is reserved: no failure, residue of an earlier attempt or death of
\* the owner lets a half-built LUN be seen.
LunComplete ==
  /\ TypeOK
  /\ \A c \in Client : Ready(c) =>
       /\ built[c] = Object
       /\ \/ bindings[c] = mapper[c].range
          \/ at \in {"record", "dead"} /\ request = [client |-> c, range |-> mapper[c].range]

\* Clients that can reach their targets never share a sector one of them may
\* write: binding records, identifiers and published tables agree.
WritersAlone ==
  \A c, o \in Client :
    c # o /\ Ready(c) /\ Ready(o) /\ mapper[c].device = mapper[o].device =>
      \/ mapper[c].range.read_only = 1 /\ mapper[o].range.read_only = 1
      \/ RefSectors(mapper[c].range) \cap RefSectors(mapper[o].range) = {}

\* An identifier keeps naming the disk it was issued for, and no disk has two.
IdentifiersStable ==
  [][/\ IsPrefix(disks, disks')
     /\ \A i, j \in DOMAIN disks' : disks'[i].device = disks'[j].device => i = j]_vars

\* The table of a client, if it has one, points at another disk than the one that
\* was enumerated under its identifier.
Misdirected(c) ==
  /\ mapper[c].range.disk # 0
  /\ mapper[c].sequence # disks[mapper[c].range.disk].sequence

\* A disk that is replaced between BIND's check and DM_TABLE_LOAD misdirects at
\* most the client being bound: disk_current refuses the identifier from then on,
\* so no second client's table ever points at the replacement, be it published
\* or left behind by a failed rollback.
ReplacementConfined ==
  \A c, o \in Client :
    Misdirected(c) /\ Misdirected(o) /\ mapper[c].range.disk = mapper[o].range.disk => c = o

\* What the comment at discover_disks says ("An ID cannot silently select a
\* replacement device during this boot"): a published table points at the disk
\* that was enumerated under the identifier.
ReplacementNotSelected == \A c \in Client : Ready(c) => ~Misdirected(c)

\* BIND answers OK exactly for what is published, also when it is repeated.
OkMeansPublished ==
  \A c \in Client : acked[c] # NoRange => Ready(c) /\ mapper[c].range = acked[c]
=============================================================================
