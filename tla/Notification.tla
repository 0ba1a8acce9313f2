----------------------------- MODULE Notification -----------------------------
(***************************************************************************)
(* The notification side of modules/io-bridge/hyper_io_bridge.c: one route *)
(* between a device's eventfds and the host.  The service binds and        *)
(* unbinds eventfds and admits grants, vhost signals calls, the host sends *)
(* kicks through a threaded interrupt, and the platform device may be      *)
(* removed at any time.                                                    *)
(*                                                                         *)
(* All ioctls, release and removal run unbind or BIND under bind_lock:     *)
(* holder is who has the lock, at where it is, and cur the queue it is at. *)
(* A wake callback runs atomically under the eventfd's wait-queue lock.    *)
(* Refused calls change nothing and are left out.                          *)
(***************************************************************************)
EXTENDS Naturals, FiniteSets

CONSTANTS
  Queue,      \* the queues whose eventfds BIND is given
  Token,      \* page-grant tokens of the host
  MaxCalls    \* bound on the calls vhost signals on one queue

ASSUME QueueNonEmpty == Queue # {}
ASSUME MaxCallsNat == MaxCalls \in Nat

VARIABLES
  holder, at, cur, left,  \* bind_lock, its owner's position, BIND's loop
  opened,                 \* the file is open
  removal,                \* progress of bridge_remove
  bound, irqOn,           \* bound, irq_enabled
  kick, event, wait,      \* queues with kick[i], call[i].event, call[i].queue
  count,                  \* counter of each call eventfd
  sent, forwarded,        \* history: calls signalled, calls written to the host
  pending, running, todo, \* kick bits of the host, the interrupt thread
  grant, accepted         \* the host's view of a token; tokens ADMIT accepted

thread == <<holder, at, cur, left>>
route == <<bound, irqOn, kick, event, wait>>
calls == <<count, sent, forwarded>>
irq == <<pending, running, todo>>
grants == <<grant, accepted>>
vars == <<thread, opened, removal, route, calls, irq, grants>>

Dead == removal \in {"dead", "unbinding", "done"}

TypeOK ==
  /\ holder \in {"none", "ioctl", "release", "remove"}
  /\ at \in {"none", "bind", "poll", "drain", "irq", "sync", "detach", "put", "facts"}
  /\ (holder = "none") = (at = "none")
  /\ cur \in Queue /\ left \in SUBSET Queue
  /\ opened \in BOOLEAN /\ bound \in BOOLEAN /\ irqOn \in BOOLEAN
  /\ removal \in {"no", "deregistered", "dead", "unbinding", "done"}
  /\ kick \in SUBSET Queue /\ event \in SUBSET Queue /\ wait \in SUBSET Queue
  /\ count \in [Queue -> 0..MaxCalls] /\ sent \in [Queue -> 0..MaxCalls]
  /\ forwarded \in [Queue -> 0..MaxCalls]
  /\ pending \in SUBSET Queue /\ running \in BOOLEAN /\ todo \in SUBSET Queue
  /\ grant \in [Token -> {"offered", "admitted", "retired"}]
  /\ accepted \in SUBSET Token

Init ==
  /\ holder = "none" /\ at = "none" /\ left = {} /\ cur = CHOOSE q \in Queue : TRUE
  /\ opened = FALSE /\ removal = "no" /\ bound = FALSE /\ irqOn = FALSE
  /\ kick = {} /\ event = {} /\ wait = {}
  /\ count = [q \in Queue |-> 0] /\ sent = count /\ forwarded = count
  /\ pending = {} /\ running = FALSE /\ todo = {}
  /\ grant = [t \in Token |-> "offered"] /\ accepted = {}

-----------------------------------------------------------------------------
(* Calls: vhost to the host.                                               *)

\* Faulty variant: a drained counter is forwarded as well.
NotifyAlways(q) ==
  /\ forwarded' = [forwarded EXCEPT ![q] = @ + 1]
  /\ count' = [count EXCEPT ![q] = 0]

\* notify_call: drain the counter, and tell the host if there was anything.
NotifyCall(q) ==
  /\ forwarded' = [forwarded EXCEPT ![q] = IF count[q] > 0 THEN @ + 1 ELSE @]
  /\ count' = [count EXCEPT ![q] = 0]

\* vhost signals a call; call_wakeup runs if its entry is in the wait queue.
Call(q) ==
  /\ sent[q] < MaxCalls
  /\ sent' = [sent EXCEPT ![q] = @ + 1]
  /\ IF q \in wait
     THEN /\ forwarded' = [forwarded EXCEPT ![q] = @ + 1]
          /\ count' = [count EXCEPT ![q] = 0]
     ELSE count' = [count EXCEPT ![q] = @ + 1] /\ UNCHANGED forwarded
  /\ UNCHANGED <<thread, opened, removal, route, irq, grants>>

-----------------------------------------------------------------------------
(* Kicks: the host to vhost.                                               *)

Kick(q) ==
  /\ q \notin pending /\ removal # "done"
  /\ pending' = pending \cup {q}
  /\ UNCHANGED <<thread, opened, removal, route, calls, running, todo, grants>>

\* Faulty variant: the handler takes bind_lock to read kick[].
ReadsKickLocked == holder = "none"

\* bridge_irq reads kick[] without a lock.
ReadsKick == TRUE

\* The interrupt thread takes the pending bits, and signals each kick eventfd.
Irq ==
  /\ ReadsKick
  /\ \/ /\ irqOn /\ ~running /\ pending # {}
        /\ running' = TRUE /\ todo' = pending /\ pending' = {}
     \/ \E q \in todo : todo' = todo \ {q} /\ UNCHANGED <<pending, running>>
     \/ running /\ todo = {} /\ running' = FALSE /\ UNCHANGED <<pending, todo>>
  /\ UNCHANGED <<thread, opened, removal, route, calls, grants>>

-----------------------------------------------------------------------------
(* bind_lock.                                                              *)

Enter(who, label) ==
  /\ holder = "none" /\ holder' = who /\ at' = label

Leave == holder' = "none" /\ at' = "none"

Goto(label) == at' = label /\ UNCHANGED holder

\* An ioctl on an open file whose device is not dead when the lock is taken.
Ioctl(label) == opened /\ ~Dead /\ Enter("ioctl", label)

Open ==
  /\ ~opened /\ removal = "no"
  /\ opened' = TRUE
  /\ UNCHANGED <<thread, removal, route, calls, irq, grants>>

\* HYPER_IO_BIND with a valid record of the current epoch.
Bind ==
  /\ ~bound /\ Ioctl("bind")
  /\ left' = Queue
  /\ UNCHANGED <<cur, opened, removal, route, calls, irq, grants>>

\* Faulty variant: a failing BIND just returns.
BindFailsAndReturns == Leave

\* A failing BIND undoes what it did with unbind.
BindFails == Goto("irq")

\* One turn of BIND's loop: take the kick and call eventfds, and let vfs_poll
\* add the wait entry; any of them may fail and leave the ones before.
BindQueue(q) ==
  /\ at = "bind" /\ q \in left
  /\ cur' = q /\ left' = left \ {q}
  /\ \/ /\ kick' = kick \cup {q} /\ event' = event \cup {q} /\ wait' = wait \cup {q}
        /\ Goto("poll")
     \/ /\ kick' \in {kick, kick \cup {q}} /\ UNCHANGED <<event, wait>>
        /\ BindFails
  /\ UNCHANGED <<opened, removal, bound, irqOn, calls, irq, grants>>

\* Faulty variant: what was signalled before the entry was added is not looked at.
NeverReady == FALSE

\* vfs_poll reads the counter after it has added the entry.
Ready == count[cur] > 0

Poll ==
  /\ at = "poll"
  /\ Goto(IF Ready THEN "drain" ELSE "bind")
  /\ UNCHANGED <<cur, left, opened, removal, route, calls, irq, grants>>

\* notify_call under the wait-queue lock.
Drain ==
  /\ at = "drain"
  /\ NotifyCall(cur)
  /\ Goto("bind")
  /\ UNCHANGED <<cur, left, opened, removal, route, sent, irq, grants>>

EnableIrq == irqOn' = TRUE

BindDone ==
  /\ at = "bind" /\ left = {}
  /\ bound' = TRUE /\ EnableIrq
  /\ Leave
  /\ UNCHANGED <<cur, left, opened, removal, kick, event, wait, calls, irq, grants>>

-----------------------------------------------------------------------------
(* unbind, which UNBIND, a failed BIND, release and removal run.           *)

Unbind ==
  /\ Ioctl("irq")
  /\ UNCHANGED <<cur, left, opened, removal, route, calls, irq, grants>>

\* bridge_release leaves a dead device to bridge_remove.
Release ==
  /\ opened
  /\ IF Dead THEN holder = "none" /\ opened' = FALSE /\ UNCHANGED <<holder, at>>
             ELSE Enter("release", "irq") /\ UNCHANGED opened
  /\ UNCHANGED <<cur, left, removal, route, calls, irq, grants>>

\* disable_irq masks the interrupt and waits for its thread.
IrqOff ==
  /\ at = "irq"
  /\ irqOn' = FALSE
  /\ Goto(IF irqOn THEN "sync" ELSE "detach")
  /\ UNCHANGED <<cur, left, opened, removal, bound, kick, event, wait, calls, irq, grants>>

\* Faulty variant: disable_irq_nosync.
IrqNosync == TRUE

IrqIdle == ~running

IrqSync ==
  /\ at = "sync" /\ IrqIdle
  /\ Goto("detach")
  /\ UNCHANGED <<cur, left, opened, removal, route, calls, irq, grants>>

\* Per queue: remove the wait entry and drain, then drop the eventfds.
Detach(q) ==
  /\ at = "detach" /\ q \in kick \cup event \cup wait
  /\ cur' = q /\ wait' = wait \ {q}
  /\ count' = [count EXCEPT ![q] = IF q \in wait THEN 0 ELSE @]
  /\ Goto("put")
  /\ UNCHANGED <<left, opened, removal, bound, irqOn, kick, event, sent, forwarded, irq, grants>>

Put ==
  /\ at = "put"
  /\ event' = event \ {cur} /\ kick' = kick \ {cur}
  /\ Goto("detach")
  /\ UNCHANGED <<cur, left, opened, removal, bound, irqOn, wait, calls, irq, grants>>

UnbindDone ==
  /\ at = "detach" /\ kick \cup event \cup wait = {}
  /\ bound' = FALSE
  /\ opened' = (opened /\ holder # "release")
  /\ removal' = IF holder = "remove" THEN "done" ELSE removal
  /\ Leave
  /\ UNCHANGED <<cur, left, irqOn, kick, event, wait, calls, irq, grants>>

-----------------------------------------------------------------------------
(* bridge_remove: deregister, dead, lock, unbind; then devm takes the      *)
(* registers and the interrupt away.                                       *)

RemoveStart ==
  /\ \/ removal = "no" /\ removal' = "deregistered"
     \/ removal = "deregistered" /\ removal' = "dead"
  /\ UNCHANGED <<thread, opened, route, calls, irq, grants>>

RemoveLock ==
  /\ removal = "dead" /\ removal' = "unbinding"
  /\ Enter("remove", "irq")
  /\ UNCHANGED <<cur, left, opened, route, calls, irq, grants>>

-----------------------------------------------------------------------------
(* Grants: HYPER_IO_ADMIT and HYPER_IO_QUIESCENT.                          *)

\* The token is written; the host admits it if it is on offer.
Admit(t) ==
  /\ ~bound /\ grant[t] = "offered" /\ Ioctl("facts")
  /\ grant' = [grant EXCEPT ![t] = "admitted"]
  /\ UNCHANGED <<cur, left, opened, removal, route, calls, irq, accepted>>

\* Retire an admitted token that is rejected before it was touched.
Reject(t) == grant' = [grant EXCEPT ![t] = "retired"]

\* The host's facts agree with the request and reach the caller, or not.
Facts(t) ==
  /\ at = "facts" /\ grant[t] = "admitted" /\ t \notin accepted
  /\ \/ accepted' = accepted \cup {t} /\ UNCHANGED grant
     \/ Reject(t) /\ UNCHANGED accepted
  /\ Leave
  /\ UNCHANGED <<cur, left, opened, removal, route, calls, irq>>

Quiescent(t) ==
  /\ opened /\ ~Dead /\ holder = "none" /\ ~bound /\ t \in accepted
  /\ grant' = [grant EXCEPT ![t] = "retired"] /\ accepted' = accepted \ {t}
  /\ UNCHANGED <<thread, opened, removal, route, calls, irq>>

-----------------------------------------------------------------------------
LockStep ==
  \/ Poll \/ Drain \/ BindDone \/ IrqOff \/ IrqSync \/ Put \/ UnbindDone
  \/ \E q \in Queue : BindQueue(q) \/ Detach(q)
  \/ \E t \in Token : Facts(t)

Request == Open \/ Bind \/ Unbind \/ Release \/ \E t \in Token : Admit(t) \/ Quiescent(t)

Next ==
  \/ Request \/ LockStep \/ Irq \/ RemoveStart \/ RemoveLock
  \/ \E q \in Queue : Call(q) \/ Kick(q)

Spec == Init /\ [][Next]_vars

\* The owner of the lock, the interrupt thread and a removal that has begun are
\* scheduled; mutexes are handed over.
FairSpec ==
  Spec /\ WF_vars(LockStep) /\ WF_vars(Irq) /\ WF_vars(RemoveStart /\ removal # "no")
       /\ SF_vars(RemoveLock)

-----------------------------------------------------------------------------
(* Properties.                                                             *)

\* Nothing asynchronous uses what unbind or removal gave away: a wake callback
\* has its eventfd and the registers, the interrupt thread all kick eventfds.
NoUseAfterRelease ==
  /\ TypeOK
  /\ wait \subseteq event
  /\ running => kick = Queue
  /\ removal = "done" => wait = {} /\ ~irqOn /\ ~running /\ holder = "none"

\* No call is stuck: one that was signalled while BIND attached the callback is
\* still seen by vfs_poll or by the drain that follows.
NoCallStuck ==
  \A q \in wait : count[q] > 0 => at \in {"poll", "drain"} /\ cur = q

\* No call is invented: the wake callback and BIND's own drain never forward the
\* same signal twice.  What is written to the host stands for a signal that is
\* still in the counter or arrives in this step.
NoSpuriousCall ==
  [][\A q \in Queue : forwarded'[q] > forwarded[q] => count[q] > 0 \/ sent'[q] > sent[q]]_vars

\* Between two operations a route is bound completely or not at all, whatever
\* failed in BIND and whoever unbound it, and the tokens the host holds admitted
\* are those ADMIT accepted: a later rejection retires the token.
AllOrNothing ==
  holder = "none" =>
    /\ IF bound THEN irqOn /\ kick = Queue /\ event = Queue /\ wait = Queue
       ELSE ~irqOn /\ kick = {} /\ event = {} /\ wait = {}
    /\ \A t \in Token : grant[t] = "admitted" <=> t \in accepted

\* Removal ends: waiting for the interrupt thread under bind_lock cannot block it.
RemovalEnds == removal = "deregistered" ~> removal = "done"
=============================================================================
