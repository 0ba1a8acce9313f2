--------------------------- MODULE MailboxProofs ---------------------------
(***************************************************************************)
(* The safety of the control mailbox, without a bound on the requests: no  *)
(* register is touched after removal, the interrupt source is armed only   *)
(* while wait_status waits, and every request is delivered exactly once.   *)
(***************************************************************************)
EXTENDS Mailbox, TLAPS

\* Where the service has control_lock.
Locked == Kernel \ {"lock", "release"}

\* control_lock is held by who is in a section of it.
LockHeld ==
  /\ lock = "service" <=> pc \in Locked
  /\ lock = "remover" <=> rem = "irq"

\* Once removal had the lock, a file operation only finds the device dead.
RemovedOutside == rem \in {"irq", "gone"} => pc \notin Locked \ {"dead", "unlock"}

InterruptGone == rem = "gone" => irq = "off"

ArmedWaiting == mask # {} => pc \in Armed

\* A record that is being copied or consumed is still in the mailbox, and the
\* copied one is the latest: nothing but Consume takes it away.
RecordKept ==
  /\ pc \in {"copy", "consume"} => "rx" \in status
  /\ pc = "consume" => got = seq

Inv ==
  /\ TypeOK
  /\ LockHeld
  /\ RemovedOutside
  /\ InterruptGone
  /\ ArmedWaiting
  /\ RecordKept
  /\ DeliveredOnce

-----------------------------------------------------------------------------
\* The invariant holds when the service opens the mailbox.
LEMMA InitInv == Init => Inv
  BY MaxSeqPositive
     DEF Init, Inv, TypeOK, LockHeld, RemovedOutside, InterruptGone, ArmedWaiting,
         RecordKept, DeliveredOnce, Locked, Kernel, User, Armed

\* The loop of serve and the lock: the registers are not touched, except that
\* closing the file disarms a device that is not dead.
LEMMA UserStep ==
  ASSUME Inv, Loop \/ Enter \/ After \/ Release \/ Lock \/ Unlock
  PROVE  Inv'
<1>. USE DEF Inv, TypeOK, LockHeld, RemovedOutside, InterruptGone, ArmedWaiting,
         RecordKept, DeliveredOnce, Locked, Kernel, User, Armed, Goto, Finish, device, waiter
<1>1. CASE Loop
  BY <1>1 DEF Loop
<1>2. CASE Enter
  BY <1>2 DEF Enter
<1>3. CASE After
  BY <1>3 DEF After
<1>4. CASE Release
  BY <1>4 DEF Release, dead
<1>5. CASE Lock
  BY <1>5 DEF Lock, Interrupted
<1>6. CASE Unlock
  BY <1>6 DEF Unlock
<1>. QED BY <1>1, <1>2, <1>3, <1>4, <1>5, <1>6

\* wait_status: what it arms it disarms before it leaves the loop, and a record
\* it hands on is in the mailbox.
LEMMA WaitStep ==
  ASSUME Inv, WaitStatus
  PROVE  Inv'
<1>. USE DEF Inv, TypeOK, LockHeld, RemovedOutside, InterruptGone, ArmedWaiting,
         RecordKept, DeliveredOnce, Locked, Kernel, User, Armed, Goto, Leave, device,
         waiter, wanted, dead
<1>1. CASE TestDead
  BY <1>1 DEF TestDead
<1>2. CASE TestStatus
  BY <1>2 DEF TestStatus
<1>3. CASE Sample
  BY <1>3 DEF Sample
<1>4. CASE Arm
  BY <1>4 DEF Arm, Sources
<1>5. CASE Queue
  BY <1>5 DEF Queue
<1>6. CASE Test
  BY <1>6 DEF Test
<1>7. CASE TestGeneration
  BY <1>7 DEF TestGeneration, GenerationMoved
<1>8. CASE Wake
  BY <1>8 DEF Wake
<1>9. CASE Disarm
  BY <1>9 DEF Disarm, Disarmed
<1>. QED BY <1>1, <1>2, <1>3, <1>4, <1>5, <1>6, <1>7, <1>8, <1>9 DEF WaitStatus

\* control_read and control_write: a record leaves the mailbox only after it
\* was copied out.
LEMMA RecordStep ==
  ASSUME Inv, Copy \/ Consume \/ Commit \/ Verify
  PROVE  Inv'
<1>. USE DEF Inv, TypeOK, LockHeld, RemovedOutside, InterruptGone, ArmedWaiting,
         RecordKept, DeliveredOnce, Locked, Kernel, User, Armed, Goto, Leave, device, waiter
<1>1. CASE Copy
  BY <1>1 DEF Copy, StatusCopied
<1>2. CASE Consume
  BY <1>2 DEF Consume
<1>3. CASE Commit
  BY <1>3 DEF Commit
<1>4. CASE Verify
  BY <1>4 DEF Verify
<1>. QED BY <1>1, <1>2, <1>3, <1>4

\* The interrupt thread, whenever it runs.
LEMMA InterruptStep ==
  ASSUME Inv, Interrupt
  PROVE  Inv'
<1>. USE DEF Inv, TypeOK, LockHeld, RemovedOutside, InterruptGone, ArmedWaiting,
         RecordKept, DeliveredOnce, device, waiter
<1>1. CASE Raise
  BY <1>1 DEF Raise
<1>2. CASE IrqMask
  BY <1>2 DEF IrqMask
<1>3. CASE IrqCount
  BY <1>3 DEF IrqCount
<1>4. CASE IrqWake
  BY <1>4 DEF IrqWake
<1>. QED BY <1>1, <1>2, <1>3, <1>4 DEF Interrupt

\* bridge_remove: taking control_lock excludes every register access, and
\* devm_free_irq the interrupt thread.
LEMMA RemovalStep ==
  ASSUME Inv, RemoveStart \/ Removal
  PROVE  Inv'
<1>. USE DEF Inv, TypeOK, LockHeld, RemovedOutside, InterruptGone, ArmedWaiting,
         RecordKept, DeliveredOnce, Locked, Kernel, User, Armed, device, waiter
<1>1. CASE RemoveStart
  BY <1>1 DEF RemoveStart
<1>2. CASE RemoveWake
  BY <1>2 DEF RemoveWake, Woken
<1>3. CASE RemoveLock
  BY <1>3 DEF RemoveLock, Lockable
<1>4. CASE RemoveFinish
  BY <1>4 DEF RemoveFinish
<1>. QED BY <1>1, <1>2, <1>3, <1>4 DEF Removal

\* The host and the signal: a new request is one the service has not copied.
LEMMA OutsideStep ==
  ASSUME Inv, Post \/ TakeReply \/ Close \/ Term
  PROVE  Inv'
<1>. USE DEF Inv, TypeOK, LockHeld, RemovedOutside, InterruptGone, ArmedWaiting,
         RecordKept, DeliveredOnce, device, waiter
<1>1. CASE Post
  BY <1>1, MaxSeqPositive DEF Post
<1>2. CASE TakeReply
  BY <1>2 DEF TakeReply
<1>3. CASE Close
  BY <1>3 DEF Close
<1>4. CASE Term
  BY <1>4 DEF Term
<1>. QED BY <1>1, <1>2, <1>3, <1>4

\* Every step of every context preserves the invariant.
LEMMA NextInv == Inv /\ [Next]_vars => Inv'
<1>. SUFFICES ASSUME Inv, [Next]_vars PROVE Inv'
  OBVIOUS
<1>1. CASE Service
  BY <1>1, UserStep, WaitStep, RecordStep DEF Service
<1>2. CASE Interrupt
  BY <1>2, InterruptStep
<1>3. CASE RemoveStart \/ Removal
  BY <1>3, RemovalStep
<1>4. CASE Post \/ TakeReply \/ Close \/ Term
  BY <1>4, OutsideStep
<1>5. CASE UNCHANGED vars
  BY <1>5 DEF vars, Inv, TypeOK, LockHeld, RemovedOutside, InterruptGone, ArmedWaiting,
              RecordKept, DeliveredOnce
<1>. QED BY <1>1, <1>2, <1>3, <1>4, <1>5 DEF Next

\* The inductive invariant holds in every state of the mailbox.
THEOREM Invariance == Spec => []Inv
  BY InitInv, NextInv, PTL DEF Spec

-----------------------------------------------------------------------------
(* The properties.                                                         *)

\* After bridge_remove nobody touches the registers, and no return path of
\* wait_status leaves the interrupt source enabled.
THEOREM RemovalSafe == Spec => []NoAccessAfterRemove
<1>1. Inv => NoAccessAfterRemove
  BY DEF Inv, RemovedOutside, InterruptGone, ArmedWaiting, NoAccessAfterRemove, Mmio, Locked, Kernel
<1>. QED BY <1>1, Invariance, PTL

\* Every request is delivered exactly once, however many the host posts.
THEOREM DeliveryExact == Spec => []DeliveredOnce
<1>1. Inv => DeliveredOnce
  BY DEF Inv
<1>. QED BY <1>1, Invariance, PTL
=============================================================================
