----------------------------- MODULE BlockPolicy -----------------------------
(***************************************************************************)
(* The range rules of include/hyper_block_policy.h, in the machine's       *)
(* arithmetic: Word stands for 2^64, and sums are taken modulo Word.       *)
(* Ref... are the same rules stated over sets of numbers.                  *)
(***************************************************************************)
EXTENDS Naturals

CONSTANTS
  Word,        \* words are 0..Word-1
  SectorSize,  \* admitted logical sector sizes: powers of two, 512 to 65536
  MaxRead      \* largest BLOCK_READ, 2^20

ASSUME WordPositive == Word \in Nat \ {0}
ASSUME SectorSizes == SectorSize \subseteq (1..(Word - 1))
ASSUME MaxReadNat == MaxRead \in Nat

WordOf(n) == n % Word

BlockRange == [disk : 0..(Word - 1), first : 0..(Word - 1), count : 0..(Word - 1), read_only : 0..2]

\* A range whose disk is 0 is no range.
NoRange == [disk |-> 0, first |-> 0, count |-> 0, read_only |-> 0]

RangeValid(bytes, sector, diskReadOnly, r) ==
  /\ sector \in SectorSize /\ bytes # 0 /\ bytes % sector = 0
  /\ r.disk # 0 /\ r.count # 0 /\ r.read_only <= 1
  /\ diskReadOnly => r.read_only = 1
  /\ LET sectors == bytes \div sector
     IN r.first < sectors /\ r.count <= sectors - r.first

\* Faulty variant: a reader does not conflict with a writer.
RangesConflictWriters(a, b) ==
  /\ a.disk # 0 /\ a.disk = b.disk /\ a.read_only = 0 /\ b.read_only = 0
  /\ a.first < WordOf(b.first + b.count) /\ b.first < WordOf(a.first + a.count)

RangesConflict(a, b) ==
  /\ a.disk # 0 /\ a.disk = b.disk /\ ~(a.read_only = 1 /\ b.read_only = 1)
  /\ a.first < WordOf(b.first + b.count) /\ b.first < WordOf(a.first + a.count)

\* The sectors of a range.
RefSectors(r) == r.first..(r.first + r.count - 1)

\* Faulty variant: the memory bound is not reduced by the length.
ReadValidOffset(bytes, sector, offset, length, memory, at) ==
  /\ sector # 0 /\ length # 0 /\ length <= MaxRead
  /\ offset % sector = 0 /\ length % sector = 0
  /\ length <= bytes /\ offset <= bytes - length
  /\ length <= memory /\ at <= memory

\* Faulty variant: the disk bound is not reduced by the length.
ReadValidPastDisk(bytes, sector, offset, length, memory, at) ==
  /\ sector # 0 /\ length # 0 /\ length <= MaxRead
  /\ offset % sector = 0 /\ length % sector = 0
  /\ length <= bytes /\ offset <= bytes
  /\ length <= memory /\ at <= memory - length

ReadValid(bytes, sector, offset, length, memory, at) ==
  /\ sector # 0 /\ length # 0 /\ length <= MaxRead
  /\ offset % sector = 0 /\ length % sector = 0
  /\ length <= bytes /\ offset <= bytes - length
  /\ length <= memory /\ at <= memory - length

\* A read stays within the disk and within the mapped memory.
RefReadInBounds(bytes, offset, length, memory, at) ==
  offset + length <= bytes /\ at + length <= memory
=============================================================================
