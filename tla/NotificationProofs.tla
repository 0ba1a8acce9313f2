------------------------- MODULE NotificationProofs -------------------------
(***************************************************************************)
(* The safety of the notification route for every set of queues and of     *)
(* tokens and any number of calls: no callback outlives what it uses, no   *)
(* call is lost or invented, a route is bound completely or not at all.    *)
(***************************************************************************)
EXTENDS Notification, TLAPS

\* The positions of BIND's loop, and those of unbind once the interrupt thread
\* has been waited for.
Binding == {"bind", "poll", "drain"}
Detaching == {"detach", "put"}

\* BIND and ADMIT work on an unbound route; removal holds the lock while it
\* unbinds.
LockHolder ==
  /\ at \in Binding \cup {"facts"} => holder = "ioctl" /\ ~bound
  /\ holder = "remove" <=> removal = "unbinding"
  /\ removal = "done" => holder = "none" /\ ~bound

\* A bound route is complete until unbind detaches it, and nothing is left of a
\* route that is neither bound nor being bound or unbound.
RouteComplete ==
  /\ bound /\ at \notin Detaching => kick = Queue /\ event = Queue /\ wait = Queue
  /\ ~bound /\ at \in {"none", "facts"} => kick = {} /\ event = {} /\ wait = {}

\* The interrupt is enabled exactly on a bound route that unbind has not reached.
InterruptOnRoute == irqOn <=> bound /\ at \notin Detaching \cup {"sync"}

\* BIND has attached exactly the queues it is past.
BindProgress ==
  at \in Binding => kick = Queue \ left /\ event = Queue \ left /\ wait = Queue \ left

\* A wait entry has its eventfd; the one being put is out of the wait queue.
EntryBacked ==
  /\ wait \subseteq event /\ event \subseteq kick
  /\ at = "put" => cur \notin wait

\* The interrupt thread runs only on a complete route.
ThreadOnRoute ==
  /\ running => bound /\ at \notin Detaching
  /\ todo # {} => running

\* What was forwarded and what still waits in a counter was signalled.
CallsCounted == \A q \in Queue : forwarded[q] + count[q] <= sent[q]

\* Admitted tokens are the accepted ones and the one ADMIT is about to judge.
GrantsAnswered ==
  /\ \A t \in accepted : grant[t] = "admitted"
  /\ at # "facts" => \A t \in Token : grant[t] = "admitted" => t \in accepted
  /\ \A t, u \in Token : /\ grant[t] = "admitted" /\ t \notin accepted
                         /\ grant[u] = "admitted" /\ u \notin accepted
                         => t = u

RouteInv ==
  /\ LockHolder
  /\ RouteComplete
  /\ InterruptOnRoute
  /\ BindProgress
  /\ EntryBacked
  /\ ThreadOnRoute

Inv ==
  /\ TypeOK
  /\ RouteInv
  /\ CallsCounted
  /\ NoCallStuck
  /\ GrantsAnswered

-----------------------------------------------------------------------------
\* The invariant holds after probe.
LEMMA InitInv == Init => Inv
<1>. SUFFICES ASSUME Init PROVE Inv
  OBVIOUS
<1>1. cur \in Queue
  BY QueueNonEmpty DEF Init
<1>2. TypeOK
  <2>1. /\ holder = "none" /\ at = "none" /\ left = {} /\ removal = "no"
        /\ opened = FALSE /\ bound = FALSE /\ irqOn = FALSE /\ running = FALSE
        /\ kick = {} /\ event = {} /\ wait = {} /\ pending = {} /\ todo = {}
    BY DEF Init
  <2>2. count \in [Queue -> 0..MaxCalls] /\ sent = count /\ forwarded = count
    BY MaxCallsNat DEF Init
  <2>3. grant \in [Token -> {"offered", "admitted", "retired"}] /\ accepted = {}
    BY DEF Init
  <2>. QED BY <1>1, <2>1, <2>2, <2>3 DEF TypeOK
<1>3. RouteInv
  BY DEF Init, RouteInv, LockHolder, RouteComplete, InterruptOnRoute, BindProgress,
         EntryBacked, ThreadOnRoute, Binding, Detaching
<1>4. CallsCounted /\ NoCallStuck /\ GrantsAnswered
  BY DEF Init, CallsCounted, NoCallStuck, GrantsAnswered
<1>. QED BY <1>2, <1>3, <1>4 DEF Inv

-----------------------------------------------------------------------------
(* Calls.                                                                  *)

\* A signalled call reaches the host at once or waits in its counter for BIND.
LEMMA CallStep ==
  ASSUME Inv, NEW q \in Queue, Call(q)
  PROVE  Inv'
<1>. USE DEF Inv, TypeOK, thread, route, irq, grants
<1>0. count[q] \in Nat /\ sent[q] \in Nat /\ forwarded[q] \in Nat /\ sent[q] + 1 <= MaxCalls
      /\ forwarded[q] + count[q] <= sent[q]
  BY MaxCallsNat DEF Call, CallsCounted
<1>1. RouteInv' /\ GrantsAnswered'
  BY DEF Call, RouteInv, LockHolder, RouteComplete, InterruptOnRoute, BindProgress,
         EntryBacked, ThreadOnRoute, GrantsAnswered
<1>2. CASE q \in wait
  <2>1. /\ forwarded' = [forwarded EXCEPT ![q] = @ + 1]
        /\ count' = [count EXCEPT ![q] = 0] /\ sent' = [sent EXCEPT ![q] = @ + 1]
    BY <1>2 DEF Call
  <2>2. TypeOK'
    BY <2>1, <1>0, MaxCallsNat DEF Call
  <2>3. CallsCounted'
    BY <2>1, <1>0, MaxCallsNat DEF CallsCounted
  <2>4. NoCallStuck'
    BY <2>1 DEF Call, NoCallStuck
  <2>. QED BY <1>1, <2>2, <2>3, <2>4
<1>3. CASE q \notin wait
  <2>1. /\ forwarded' = forwarded
        /\ count' = [count EXCEPT ![q] = @ + 1] /\ sent' = [sent EXCEPT ![q] = @ + 1]
    BY <1>3 DEF Call
  <2>2. TypeOK'
    BY <2>1, <1>0, MaxCallsNat DEF Call
  <2>3. CallsCounted'
    BY <2>1, <1>0, MaxCallsNat DEF CallsCounted
  <2>4. NoCallStuck'
    BY <2>1, <1>3 DEF Call, NoCallStuck
  <2>. QED BY <1>1, <2>2, <2>3, <2>4
<1>. QED BY <1>2, <1>3

-----------------------------------------------------------------------------
(* Kicks, opening and the progress of removal.                             *)

\* What comes from outside bind_lock, a kick, an interrupt, an open or the begin
\* of removal, never changes the route.
LEMMA AsyncStep ==
  ASSUME Inv, \/ \E q \in Queue : Kick(q)
              \/ Irq \/ Open \/ RemoveStart
  PROVE  Inv'
<1>. USE DEF Inv, TypeOK, thread, route, calls, irq, grants, CallsCounted, NoCallStuck,
       GrantsAnswered, RouteInv, LockHolder, RouteComplete, InterruptOnRoute,
       BindProgress, EntryBacked, ThreadOnRoute, Binding, Detaching
<1>1. CASE \E q \in Queue : Kick(q)
  BY <1>1 DEF Kick
<1>2. CASE Irq
  <2>1. UNCHANGED <<thread, opened, removal, route, calls, grants>>
    BY <1>2 DEF Irq
  <2>2. /\ pending' \in SUBSET Queue /\ running' \in BOOLEAN /\ todo' \in SUBSET Queue
        /\ ThreadOnRoute'
    <3>1. CASE irqOn /\ running' = TRUE /\ todo' = pending /\ pending' = {}
      BY <2>1, <3>1
    <3>2. CASE \E q \in todo : todo' = todo \ {q} /\ UNCHANGED <<pending, running>>
      BY <2>1, <3>2
    <3>3. CASE todo = {} /\ running' = FALSE /\ UNCHANGED <<pending, todo>>
      BY <2>1, <3>3
    <3>. QED BY <1>2, <3>1, <3>2, <3>3 DEF Irq
  <2>. QED BY <2>1, <2>2
<1>3. CASE Open
  BY <1>3 DEF Open
<1>4. CASE RemoveStart
  BY <1>4 DEF RemoveStart
<1>. QED BY <1>1, <1>2, <1>3, <1>4

-----------------------------------------------------------------------------
(* BIND.                                                                   *)

\* BIND starts with no queue attached and finishes when every queue is.
LEMMA BindStep ==
  ASSUME Inv, Bind \/ BindDone
  PROVE  Inv'
<1>. USE DEF Inv, TypeOK, route, calls, irq, grants, CallsCounted, NoCallStuck,
       GrantsAnswered, RouteInv, LockHolder, RouteComplete, InterruptOnRoute,
       BindProgress, EntryBacked, ThreadOnRoute, Binding, Detaching
<1>1. CASE Bind
  BY <1>1 DEF Bind, Ioctl, Enter, Dead
<1>2. CASE BindDone
  BY <1>2 DEF BindDone, EnableIrq, Leave
<1>. QED BY <1>1, <1>2

\* One turn of the loop; a call signalled before the entry was added is the
\* business of the poll that follows.
LEMMA BindQueueStep ==
  ASSUME Inv, NEW q \in Queue, BindQueue(q)
  PROVE  Inv'
<1>. USE DEF Inv, calls, irq, grants, Goto, BindFails
<1>1. TypeOK'
  BY DEF BindQueue, TypeOK
<1>2. RouteInv'
  BY DEF BindQueue, TypeOK, RouteInv, LockHolder, RouteComplete, InterruptOnRoute,
       BindProgress, EntryBacked, ThreadOnRoute, Binding, Detaching
<1>3. CallsCounted' /\ GrantsAnswered'
  BY DEF BindQueue, CallsCounted, GrantsAnswered
<1>4. NoCallStuck'
  BY DEF BindQueue, NoCallStuck
<1>. QED BY <1>1, <1>2, <1>3, <1>4

\* vfs_poll and the drain leave no signal behind in an attached counter.
LEMMA PollStep ==
  ASSUME Inv, Poll \/ Drain
  PROVE  Inv'
<1>. USE DEF Inv, route, calls, irq, grants, Goto
<1>0. cur \in Queue /\ count[cur] \in 0..MaxCalls /\ forwarded[cur] \in 0..MaxCalls
      /\ sent[cur] \in 0..MaxCalls /\ forwarded[cur] + count[cur] <= sent[cur]
  BY DEF TypeOK, CallsCounted
<1>1. CASE Poll
  <2>1. TypeOK' /\ RouteInv'
    BY <1>1 DEF Poll, TypeOK, RouteInv, LockHolder, RouteComplete, InterruptOnRoute,
         BindProgress, EntryBacked, ThreadOnRoute, Binding, Detaching
  <2>2. CallsCounted' /\ GrantsAnswered'
    BY <1>1 DEF Poll, CallsCounted, GrantsAnswered
  <2>3. NoCallStuck'
    BY <1>1 DEF Poll, NoCallStuck, Ready
  <2>. QED BY <2>1, <2>2, <2>3
<1>2. CASE Drain
  <2>0. /\ count' = [count EXCEPT ![cur] = 0] /\ sent' = sent /\ wait' = wait /\ cur' = cur
        /\ forwarded' = [forwarded EXCEPT ![cur] = IF count[cur] > 0 THEN @ + 1 ELSE @]
    BY <1>2 DEF Drain, NotifyCall
  <2>1. TypeOK'
    BY <1>0, <1>2, <2>0, MaxCallsNat DEF Drain, TypeOK
  <2>2. RouteInv'
    BY <1>2 DEF Drain, TypeOK, RouteInv, LockHolder, RouteComplete, InterruptOnRoute,
         BindProgress, EntryBacked, ThreadOnRoute, Binding, Detaching
  <2>3. CallsCounted'
    BY <1>0, <2>0, MaxCallsNat DEF TypeOK, CallsCounted
  <2>4. GrantsAnswered'
    BY <1>2 DEF Drain, GrantsAnswered
  <2>5. NoCallStuck'
    BY <1>2, <2>0 DEF Drain, TypeOK, NoCallStuck
  <2>. QED BY <2>1, <2>2, <2>3, <2>4, <2>5
<1>. QED BY <1>1, <1>2

-----------------------------------------------------------------------------
(* unbind.                                                                 *)

\* unbind, whoever calls it: the interrupt is off and its thread has ended before
\* the first eventfd is put.
LEMMA UnbindStep ==
  ASSUME Inv, Unbind \/ Release \/ RemoveLock \/ IrqOff \/ IrqSync \/ Put \/ UnbindDone
  PROVE  Inv'
<1>. USE DEF Inv, TypeOK, route, calls, irq, grants, CallsCounted, NoCallStuck,
       GrantsAnswered, RouteInv, LockHolder, RouteComplete, InterruptOnRoute,
       BindProgress, EntryBacked, ThreadOnRoute, Binding, Detaching, Goto, Enter, Leave
<1>1. CASE Unbind
  BY <1>1 DEF Unbind, Ioctl, Dead
<1>2. CASE Release
  BY <1>2 DEF Release, Dead
<1>3. CASE RemoveLock
  BY <1>3 DEF RemoveLock
<1>4. CASE IrqOff
  BY <1>4 DEF IrqOff
<1>5. CASE IrqSync
  BY <1>5 DEF IrqSync, IrqIdle
<1>6. CASE Put
  BY <1>6 DEF Put
<1>7. CASE UnbindDone
  BY <1>7 DEF UnbindDone
<1>. QED BY <1>1, <1>2, <1>3, <1>4, <1>5, <1>6, <1>7

\* The entry is out of the wait queue and its counter drained before Put drops the
\* eventfd; a discarded call was never forwarded.
LEMMA DetachStep ==
  ASSUME Inv, NEW q \in Queue, Detach(q)
  PROVE  Inv'
<1>. USE DEF Inv, irq, grants, Goto
<1>1. TypeOK'
  BY MaxCallsNat DEF Detach, TypeOK
<1>2. RouteInv'
  BY DEF Detach, TypeOK, RouteInv, LockHolder, RouteComplete, InterruptOnRoute,
       BindProgress, EntryBacked, ThreadOnRoute, Binding, Detaching
<1>3. CallsCounted'
  BY MaxCallsNat DEF Detach, TypeOK, CallsCounted
<1>4. GrantsAnswered' /\ NoCallStuck'
  BY DEF Detach, TypeOK, GrantsAnswered, NoCallStuck
<1>. QED BY <1>1, <1>2, <1>3, <1>4

-----------------------------------------------------------------------------
(* Grants.                                                                 *)

\* ADMIT and QUIESCENT: a token whose facts are refused is retired under the lock.
LEMMA GrantStep ==
  ASSUME Inv, NEW t \in Token, Admit(t) \/ Facts(t) \/ Quiescent(t)
  PROVE  Inv'
<1>. USE DEF Inv, TypeOK, thread, route, calls, irq, CallsCounted, NoCallStuck,
       GrantsAnswered, RouteInv, LockHolder, RouteComplete, InterruptOnRoute,
       BindProgress, EntryBacked, ThreadOnRoute, Binding, Detaching
<1>1. CASE Admit(t)
  BY <1>1 DEF Admit, Ioctl, Enter, Dead
<1>2. CASE Facts(t)
  BY <1>2 DEF Facts, Reject, Leave
<1>3. CASE Quiescent(t)
  BY <1>3 DEF Quiescent, Dead
<1>. QED BY <1>1, <1>2, <1>3

-----------------------------------------------------------------------------
\* Every step preserves the invariant.
LEMMA NextInv == Inv /\ [Next]_vars => Inv'
<1>. SUFFICES ASSUME Inv, [Next]_vars PROVE Inv'
  OBVIOUS
<1>1. CASE Request
  BY <1>1, AsyncStep, BindStep, UnbindStep, GrantStep DEF Request
<1>2. CASE LockStep
  BY <1>2, BindStep, BindQueueStep, PollStep, UnbindStep, DetachStep, GrantStep DEF LockStep
<1>3. CASE Irq \/ RemoveStart \/ RemoveLock \/ \E q \in Queue : Call(q) \/ Kick(q)
  BY <1>3, AsyncStep, UnbindStep, CallStep
<1>4. CASE UNCHANGED vars
  BY <1>4 DEF vars, Inv, TypeOK, thread, route, calls, irq, grants, CallsCounted, NoCallStuck,
       GrantsAnswered, RouteInv, LockHolder, RouteComplete, InterruptOnRoute,
       BindProgress, EntryBacked, ThreadOnRoute
<1>. QED BY <1>1, <1>2, <1>3, <1>4 DEF Next

\* The inductive invariant holds in every state of the route.
THEOREM Invariance == Spec => []Inv
  BY InitInv, NextInv, PTL DEF Spec

-----------------------------------------------------------------------------
(* The properties.                                                         *)

\* A wake callback has its eventfd, the interrupt thread every kick eventfd, and
\* after removal there is neither.
THEOREM ReleaseSafe == Spec => []NoUseAfterRelease
<1>1. Inv => NoUseAfterRelease
  BY DEF Inv, TypeOK, RouteInv, LockHolder, RouteComplete, InterruptOnRoute, EntryBacked,
       ThreadOnRoute, NoUseAfterRelease
<1>. QED BY <1>1, Invariance, PTL

\* A call signalled at any moment of BIND is forwarded.
THEOREM CallsSeen == Spec => []NoCallStuck
<1>1. Inv => NoCallStuck
  BY DEF Inv
<1>. QED BY <1>1, Invariance, PTL

\* Between operations a route is bound completely or not at all, and the tokens
\* the host holds admitted are those ADMIT accepted.
THEOREM RouteAtomic == Spec => []AllOrNothing
<1>1. Inv => AllOrNothing
  BY DEF Inv, TypeOK, RouteInv, RouteComplete, InterruptOnRoute, GrantsAnswered, AllOrNothing, Detaching
<1>. QED BY <1>1, Invariance, PTL

\* No call is invented: what is forwarded was in the counter or has just arrived.
THEOREM CallsGenuine == Spec => NoSpuriousCall
<1> DEFINE Genuine == \A q \in Queue : forwarded'[q] > forwarded[q] =>
                                         count[q] > 0 \/ sent'[q] > sent[q]
<1>1. Inv /\ [Next]_vars => [Genuine]_vars
  <2>. SUFFICES ASSUME Inv, Next PROVE Genuine
    OBVIOUS
  <2>0. /\ \A q \in Queue : forwarded[q] \in Nat /\ count[q] \in Nat /\ sent[q] \in Nat
        /\ count \in [Queue -> 0..MaxCalls] /\ sent \in [Queue -> 0..MaxCalls]
        /\ forwarded \in [Queue -> 0..MaxCalls] /\ cur \in Queue
    BY MaxCallsNat DEF Inv, TypeOK
  <2>1. ASSUME forwarded' = forwarded PROVE Genuine
    BY <2>0, <2>1
  <2>2. ASSUME NEW q \in Queue, Call(q) PROVE Genuine
    BY <2>0, <2>2 DEF Call
  <2>3. CASE Drain
    BY <2>0, <2>3 DEF Drain, NotifyCall
  <2>4. CASE Request
    BY <2>1, <2>4 DEF Request, Open, Bind, Unbind, Release, Admit, Quiescent, calls
  <2>5. ASSUME LockStep, ~Drain PROVE Genuine
    BY <2>1, <2>5 DEF LockStep, Poll, BindDone, IrqOff, IrqSync, Put, UnbindDone, BindQueue,
         Detach, Facts, calls
  <2>6. CASE Irq \/ RemoveStart \/ RemoveLock \/ \E q \in Queue : Kick(q)
    BY <2>1, <2>6 DEF Irq, RemoveStart, RemoveLock, Kick, calls
  <2>. QED BY <2>2, <2>3, <2>4, <2>5, <2>6 DEF Next
<1>. QED BY <1>1, Invariance, PTL DEF Spec, NoSpuriousCall
=============================================================================
