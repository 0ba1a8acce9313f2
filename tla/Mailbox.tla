------------------------------- MODULE Mailbox -------------------------------
(***************************************************************************)
(* The control mailbox: the blocking read and write of hyper_io_bridge.c,  *)
(* its interrupt handler and the removal of its device, used by the loop   *)
(* of serve in hyper-io-service.c, which reads a request and writes its    *)
(* reply.  The mailbox registers and the host behind them are external.    *)
(*                                                                         *)
(* Every register access, every read of state another context writes and   *)
(* every step of wait_event_interruptible is a step of its own.  The       *)
(* interrupt is a level: it is raised while an enabled status bit is set,  *)
(* and its one-shot thread may run long after that changed.  The interrupt *)
(* generation is modelled by whether it moved since it was sampled.        *)
(***************************************************************************)
EXTENDS Naturals

CONSTANT MaxSeq    \* bound on the requests the host posts

ASSUME MaxSeqPositive == MaxSeq \in Nat \ {0}

VARIABLES
  status,    \* MB_STATUS: rx (RX_READY), tx (TX_SPACE), closed
  mask,      \* MB_MASK
  seq,       \* MB_RX_SEQ: number of the latest request posted
  got,       \* number of the latest request copied to the service
  irq,       \* the interrupt thread: off, or the step it is about to take
  moved,     \* irq_generation differs from the value wait_status sampled
  task,      \* scheduler state of the service
  pc, call,  \* where the service is, and in which system call
  result,    \* result of the system call
  lock,      \* control_lock: free, service, remover
  rem,       \* progress of bridge_remove
  sig,       \* SIGTERM: none, pending in the kernel, handled (stopping is set)
  exit       \* how serve returned: running, normal (0), failed (-1)

device == <<status, seq>>
waiter == <<moved, task>>
vars == <<status, mask, seq, got, irq, moved, task, pc, call, result, lock,
          rem, sig, exit>>

User == {"loop", "enter", "after", "done"}
Kernel == {"lock", "dead", "status", "sample", "arm", "queue", "test", "generation",
           "sleep", "disarm", "copy", "consume", "commit", "verify", "unlock", "release"}

\* Between arming and disarming in wait_status.
Armed == {"queue", "test", "generation", "sleep", "disarm"}

\* The steps that access the mailbox registers.
Mmio == {"status", "arm", "test", "disarm", "copy", "consume", "commit", "verify"}

TypeOK ==
  /\ status \in SUBSET {"rx", "tx", "closed"}
  /\ mask \in SUBSET {"rx", "tx", "closed"}
  /\ seq \in 0..MaxSeq /\ got \in 0..MaxSeq
  /\ irq \in {"off", "mask", "count", "wake"}
  /\ moved \in {"no", "yes"}
  /\ task \in {"running", "interruptible"}
  /\ pc \in User \cup Kernel
  /\ call \in {"read", "write"}
  /\ result \in {"ok", "eintr", "epipe", "enodev", "efault", "refused", "eio"}
  /\ lock \in {"free", "service", "remover"}
  /\ rem \in {"none", "wake", "lock", "irq", "gone"}
  /\ sig \in {"none", "pending", "handled"}
  /\ exit \in {"running", "normal", "failed"}

Init ==
  /\ status = {"tx"} /\ mask = {} /\ seq = 0 /\ got = 0
  /\ irq = "off" /\ moved = "no" /\ task = "running"
  /\ pc = "loop" /\ call = "read" /\ result = "ok"
  /\ lock = "free" /\ rem = "none" /\ sig = "none" /\ exit = "running"

dead == rem # "none"
wanted == IF call = "read" THEN "rx" ELSE "tx"

-----------------------------------------------------------------------------
(* The service: the loop of serve.                                         *)

Goto(label) == pc' = label

Finish(how) == exit' = how /\ pc' = "release"

\* while (!stopping): the test and the system call that follows are separate.
Loop ==
  /\ pc = "loop"
  /\ \/ sig = "handled" /\ Finish("normal") /\ UNCHANGED call
     \/ sig # "handled" /\ Goto("enter") /\ call' = "read" /\ UNCHANGED exit
  /\ UNCHANGED <<device, mask, got, irq, waiter, result, lock, rem, sig>>

Enter ==
  /\ pc = "enter" /\ Goto("lock")
  /\ UNCHANGED <<device, mask, got, irq, waiter, call, result, lock, rem, sig, exit>>

\* What serve makes of the result: stop quietly on a signal or EPIPE, fail on
\* any other error, else reply to the request, or go round again.
After ==
  /\ pc = "after"
  /\ \/ (sig = "handled" \/ result = "epipe") /\ Finish("normal") /\ UNCHANGED call
     \/ /\ sig # "handled" /\ result \notin {"ok", "epipe", "eintr"}
        /\ Finish("failed") /\ UNCHANGED call
     \/ /\ sig # "handled" /\ result = "ok"
        /\ IF call = "read" THEN Goto("enter") /\ call' = "write"
                            ELSE Goto("loop") /\ UNCHANGED call
        /\ UNCHANGED exit
  /\ UNCHANGED <<device, mask, got, irq, waiter, result, lock, rem, sig>>

\* bridge_release of the control file.
Release ==
  /\ pc = "release" /\ lock = "free"
  /\ mask' = IF dead THEN mask ELSE {}
  /\ Goto("done")
  /\ UNCHANGED <<device, got, irq, waiter, call, result, lock, rem, sig, exit>>

-----------------------------------------------------------------------------
(* wait_status.                                                            *)

\* goto out with a result.
Leave(r) == pc' = "unlock" /\ result' = r

Interrupted == "eintr"

\* mutex_lock_interruptible of control_lock.
Lock ==
  /\ pc = "lock"
  /\ \/ lock = "free" /\ lock' = "service" /\ Goto("dead") /\ UNCHANGED <<result, sig>>
     \/ /\ lock # "free" /\ sig = "pending"
        /\ sig' = "handled" /\ result' = Interrupted /\ Goto("after") /\ UNCHANGED lock
  /\ UNCHANGED <<device, mask, got, irq, waiter, call, rem, exit>>

TestDead ==
  /\ pc = "dead"
  /\ \/ dead /\ Leave("enodev")
     \/ ~dead /\ Goto("status") /\ UNCHANGED result
  /\ UNCHANGED <<device, mask, got, irq, waiter, call, lock, rem, sig, exit>>

\* The durable status decides: closed, ready, or wait.
TestStatus ==
  /\ pc = "status"
  /\ \/ "closed" \in status /\ Leave("epipe")
     \/ /\ "closed" \notin status /\ wanted \in status
        /\ Goto(IF call = "read" THEN "copy" ELSE "commit") /\ UNCHANGED result
     \/ /\ {"closed", wanted} \cap status = {}
        /\ Goto("sample") /\ UNCHANGED result
  /\ UNCHANGED <<device, mask, got, irq, waiter, call, lock, rem, sig, exit>>

Sample ==
  /\ pc = "sample" /\ moved' = "no" /\ Goto("arm")
  /\ UNCHANGED <<device, mask, got, irq, task, call, result, lock, rem, sig, exit>>

Sources == {wanted, "closed"}

Arm ==
  /\ pc = "arm" /\ mask' = Sources /\ Goto("queue")
  /\ UNCHANGED <<device, got, irq, waiter, call, result, lock, rem, sig, exit>>

\* prepare_to_wait_event.
Queue ==
  /\ pc = "queue" /\ task' = "interruptible" /\ Goto("test")
  /\ UNCHANGED <<device, mask, got, irq, moved, call, result, lock, rem, sig, exit>>

\* The condition: dead, then the status register, then the generation.
Test ==
  /\ pc = "test"
  /\ \/ (dead \/ {"closed", wanted} \cap status # {}) /\ Goto("disarm") /\ task' = "running"
     \/ (~dead /\ {"closed", wanted} \cap status = {}) /\ Goto("generation") /\ UNCHANGED task
  /\ UNCHANGED <<device, mask, got, irq, moved, call, result, lock, rem, sig, exit>>

\* Faulty variant: hyper_io_wait_ready without the generation.
GenerationMovedNever == FALSE

GenerationMoved == moved = "yes"

\* The last part of the condition; then a pending signal; then sleep.
TestGeneration ==
  /\ pc = "generation"
  /\ \/ GenerationMoved /\ Goto("disarm") /\ task' = "running" /\ UNCHANGED result
     \/ /\ ~GenerationMoved /\ sig = "pending"
        /\ Goto("disarm") /\ task' = "running" /\ result' = "eintr"
     \/ ~GenerationMoved /\ sig # "pending" /\ Goto("sleep") /\ UNCHANGED <<task, result>>
  /\ UNCHANGED <<device, mask, got, irq, moved, call, lock, rem, sig, exit>>

\* schedule returns when somebody made the task runnable; test again.
Wake ==
  /\ pc = "sleep" /\ task = "running" /\ Goto("queue")
  /\ UNCHANGED <<device, mask, got, irq, waiter, call, result, lock, rem, sig, exit>>

Disarmed == {}

Disarm ==
  /\ pc = "disarm"
  /\ mask' = Disarmed
  /\ Goto(IF result = "eintr" THEN "unlock" ELSE "dead")
  /\ UNCHANGED <<device, got, irq, waiter, call, result, lock, rem, sig, exit>>

-----------------------------------------------------------------------------
(* control_read and control_write with the mailbox ready.                  *)

\* Faulty variant: the record is consumed before it is copied out.
StatusConsumed == status \ {"rx"}

StatusCopied == status

\* Length, sequence and data are read and copied to the service; a bad length
\* or a failing copy leaves the record in the mailbox.
Copy ==
  /\ pc = "copy" /\ status' = StatusCopied
  /\ \/ got' = seq /\ Goto("consume") /\ UNCHANGED result
     \/ Leave("efault") /\ UNCHANGED got
  /\ UNCHANGED <<seq, mask, irq, waiter, call, lock, rem, sig, exit>>

Consume ==
  /\ pc = "consume"
  /\ status' = status \ {"rx"}
  /\ Leave("ok")
  /\ UNCHANGED <<seq, mask, got, irq, waiter, call, lock, rem, sig, exit>>

\* The reply is written and committed; a closed mailbox drops it.
Commit ==
  /\ pc = "commit"
  /\ status' = IF "closed" \in status THEN status ELSE status \ {"tx"}
  /\ Goto("verify")
  /\ UNCHANGED <<seq, mask, got, irq, waiter, call, result, lock, rem, sig, exit>>

\* The status is read back: EIO when it says CLOSED, or ERROR ("refused": the
\* host did not accept the record).
Verify ==
  /\ pc = "verify"
  /\ \/ "closed" \in status /\ Leave("eio")
     \/ "closed" \notin status /\ (Leave("ok") \/ Leave("refused"))
  /\ UNCHANGED <<device, mask, got, irq, waiter, call, lock, rem, sig, exit>>

\* Return to user mode, where a pending signal is handled first.
Unlock ==
  /\ pc = "unlock" /\ lock' = "free" /\ Goto("after")
  /\ sig' = IF sig = "pending" THEN "handled" ELSE sig
  /\ UNCHANGED <<device, mask, got, irq, waiter, call, result, rem, exit>>

-----------------------------------------------------------------------------
(* bridge_irq, bridge_remove, the host and SIGTERM.                        *)

Raise ==
  /\ irq = "off" /\ rem # "gone"
  /\ status \cap mask # {}
  /\ irq' = "mask"
  /\ UNCHANGED <<device, mask, got, waiter, pc, call, result, lock, rem, sig, exit>>

IrqMask ==
  /\ irq = "mask" /\ mask' = {} /\ irq' = "count"
  /\ UNCHANGED <<device, got, waiter, pc, call, result, lock, rem, sig, exit>>

IrqCount ==
  /\ irq = "count" /\ moved' = "yes" /\ irq' = "wake"
  /\ UNCHANGED <<device, mask, got, task, pc, call, result, lock, rem, sig, exit>>

IrqWake ==
  /\ irq = "wake" /\ task' = "running" /\ irq' = "off"
  /\ UNCHANGED <<device, mask, got, moved, pc, call, result, lock, rem, sig, exit>>

\* misc_deregister, then dead is set.
RemoveStart ==
  /\ rem = "none" /\ rem' = "wake"
  /\ UNCHANGED <<device, mask, got, irq, waiter, pc, call, result, lock, sig, exit>>

\* Faulty variant: bridge_remove does not wake the blocked reader.
WokenNever == task

Woken == "running"

RemoveWake ==
  /\ rem = "wake" /\ task' = Woken /\ rem' = "lock"
  /\ UNCHANGED <<device, mask, got, irq, moved, pc, call, result, lock, sig, exit>>

\* Faulty variant: bridge_remove does not wait for the file operation.
Unlocked == TRUE

Lockable == lock = "free"

\* control_lock, then the source is masked.
RemoveLock ==
  /\ rem = "lock" /\ Lockable /\ lock' = "remover"
  /\ mask' = {} /\ rem' = "irq"
  /\ UNCHANGED <<device, got, irq, waiter, pc, call, result, sig, exit>>

\* devm_free_irq waits for the handler; then the registers are unmapped.
RemoveFinish ==
  /\ rem = "irq" /\ irq = "off"
  /\ rem' = "gone" /\ lock' = "free"
  /\ UNCHANGED <<device, mask, got, irq, waiter, pc, call, result, sig, exit>>

Post ==
  /\ {"rx", "closed"} \cap status = {} /\ seq < MaxSeq
  /\ status' = status \cup {"rx"} /\ seq' = seq + 1
  /\ UNCHANGED <<mask, got, irq, waiter, pc, call, result, lock, rem, sig, exit>>

TakeReply ==
  /\ "tx" \notin status /\ status' = status \cup {"tx"}
  /\ UNCHANGED <<seq, mask, got, irq, waiter, pc, call, result, lock, rem, sig, exit>>

Close ==
  /\ "closed" \notin status /\ status' = status \cup {"closed"}
  /\ UNCHANGED <<seq, mask, got, irq, waiter, pc, call, result, lock, rem, sig, exit>>

\* SIGTERM: the handler runs at once in user mode; in the kernel the signal
\* stays pending and an interruptible sleeper is woken.
Term ==
  /\ sig = "none" /\ exit = "running"
  /\ \/ pc \in User /\ sig' = "handled" /\ UNCHANGED task
     \/ pc \in Kernel /\ sig' = "pending" /\ task' = "running"
  /\ UNCHANGED <<device, mask, got, irq, moved, pc, call, result, lock, rem, exit>>

-----------------------------------------------------------------------------
WaitStatus == TestDead \/ TestStatus \/ Sample \/ Arm \/ Queue \/ Test
              \/ TestGeneration \/ Wake \/ Disarm
Service == Loop \/ Enter \/ After \/ Release \/ Lock \/ WaitStatus
           \/ Copy \/ Consume \/ Commit \/ Verify \/ Unlock
Interrupt == Raise \/ IrqMask \/ IrqCount \/ IrqWake
Removal == RemoveWake \/ RemoveLock \/ RemoveFinish

Next == Service \/ Interrupt \/ RemoveStart \/ Removal
        \/ Post \/ TakeReply \/ Close \/ Term

Spec == Init /\ [][Next]_vars

\* Threads and the interrupt are scheduled, and the host takes the replies it
\* is sent.  Requests, closing, removal and signals may never come.
FairSpec ==
  /\ Spec
  /\ WF_vars(Service) /\ WF_vars(Interrupt) /\ WF_vars(Removal) /\ WF_vars(TakeReply)

-----------------------------------------------------------------------------
(* Properties.                                                             *)

\* No context touches the registers after bridge_remove lets them be unmapped:
\* the service is outside every operation that reads or writes them and the
\* interrupt thread has ended.  Before that, the source is armed only while
\* wait_status waits: no return path leaves it enabled.
NoAccessAfterRemove ==
  /\ TypeOK
  /\ rem = "gone" => pc \notin Mmio /\ irq = "off"
  /\ mask # {} => pc \in Armed

\* A request is delivered exactly once: it stays in the mailbox until it has
\* been copied out, and a copied one is consumed before the mailbox is looked
\* at again, also when the copy fails or a signal interferes.
DeliveredOnce ==
  /\ "rx" \notin status => got = seq
  /\ "rx" \in status /\ got = seq => pc = "consume"

\* No wakeup is lost: a posted request is read, unless the mailbox closes, the
\* device goes or the service stops first, and a service blocked in read or
\* write notices that the mailbox closed.  A delayed interrupt of an earlier
\* wait may mask the newer arm, but never leaves the service asleep.
NoLostWakeup ==
  /\ "rx" \in status ~> ("rx" \notin status \/ "closed" \in status \/ dead \/ exit # "running")
  /\ "closed" \in status ~> exit # "running"

\* bridge_remove finishes although the service may be blocked in the device.
RemoveCompletes == dead ~> rem = "gone"

\* A closed mailbox ends the service normally, as the supervisor's comment "A
\* normally closed control endpoint retires only that client" has it.
CloseIsNormal ==
  exit = "failed" => "closed" \notin status \/ dead \/ result \in {"efault", "refused"}
=============================================================================
