------------------------------- MODULE Backend -------------------------------
(***************************************************************************)
(* One managed client's backend (service/memory.c, vhost.c, network.c) as  *)
(* the service process runs it: one step per system call that can fail,    *)
(* interleaved with vhost, which moves data on its own, with the host,     *)
(* which owns the grant tokens, and with the death of the process.         *)
(*                                                                         *)
(* The service is one thread: pc is where it is, op the operation it is    *)
(* serving, cur the device being configured or quiesced, and failed the    *)
(* result quiesce_all has collected so far.  vhost, TAP, the notification  *)
(* driver and the host's token registers are external and appear as the    *)
(* effect of the call on them.  A call fails at most MaxFaults times.      *)
(***************************************************************************)
EXTENDS Naturals, FiniteSets

CONSTANTS
  Token,     \* one-use page-grant tokens of the host
  Window,    \* stands for token 0: the static alias window, no admission
  None,      \* no token, no pages
  MaxFaults  \* bound on failing system calls

ASSUME TokenFresh == Window \notin Token /\ None \notin Token /\ Window # None
ASSUME MaxFaultsNat == MaxFaults \in Nat

Device == {"disk", "net"}

VARIABLES
  configured,               \* the devices of this client, from main's arguments
  pc, op, cur, failed,      \* the thread
  arg,                      \* token of the PREPARE_MEMORY being served
  open, bound, attached,    \* devices with endpoint.fd >= 0, .bound, .attached
  held,                     \* of memory (the mapping), memory_fd and tap
  token,                    \* b->token
  pages,                    \* region the guest-memory driver has prepared
  grant,                    \* the host's view of every token
  dma,                      \* devices with requests in flight on guest pages
  faults,                   \* failed calls so far
  reply,                    \* last operation answered, and its status
  before                    \* history: what was held when op was accepted

thread == <<pc, op, cur, failed, arg>>
endpoints == <<open, bound, attached>>
store == <<held, token, pages, grant>>
vars == <<configured, thread, endpoints, store, dma, faults, reply, before>>

\* A client with storage admits and proves through the disk's notification.
memory_endpoint == IF "disk" \in configured THEN "disk" ELSE "net"

PC == {"idle", "admit", "extents", "open", "prepare", "mmap",
       "configure", "bind", "tap", "attach", "attach_tx",
       "drain", "close", "munmap", "driver", "proof", "gone", "retained"}
Op == {"none", "prepare", "activate", "reset", "release", "exit"}
Region == Token \cup {Window}

TypeOK ==
  /\ configured \in (SUBSET Device) \ {{}}
  /\ pc \in PC /\ op \in Op /\ cur \in Device
  /\ failed \in {"no", "yes"}
  /\ arg \in Region \cup {None}
  /\ open \in SUBSET Device /\ bound \in SUBSET Device
  /\ attached \in SUBSET Device
  /\ held \in SUBSET {"memory", "memory_fd", "tap"}
  /\ token \in Token \cup {None}
  /\ pages \in Region \cup {None}
  /\ grant \in [Token -> {"offered", "admitted", "retired"}]
  /\ dma \in SUBSET Device
  /\ faults \in 0..MaxFaults

\* What ClientResources calls the state of the memory and of the devices.
MemState ==
  IF "memory" \in held THEN "ready"
  ELSE IF "memory_fd" \in held \/ token # None THEN "partial" ELSE "none"

DevHeld(d) ==
  d \in open \cup bound \cup attached \/ (d = "net" /\ "tap" \in held)

DevState == [d \in Device |-> IF DevHeld(d) THEN "held" ELSE "down"]

Snapshot == [mem |-> MemState, dev |-> DevState]

Init ==
  /\ configured \in (SUBSET Device) \ {{}}
  /\ pc = "idle" /\ op = "none" /\ cur = "disk" /\ failed = "no" /\ arg = None
  /\ open = {} /\ bound = {} /\ attached = {} /\ held = {}
  /\ token = None /\ pages = None
  /\ grant = [t \in Token |-> "offered"]
  /\ dma = {} /\ faults = 0
  /\ reply = [op |-> "none", status |-> "none"]
  /\ before = Snapshot

-----------------------------------------------------------------------------
(* The ways an operation continues.                                        *)

Goto(label) == pc' = label /\ UNCHANGED <<op, cur, failed, arg, reply>>

\* The handler returns a status; the session sends it.
Return(status) ==
  /\ pc' = "idle"
  /\ reply' = [op |-> op, status |-> status]
  /\ UNCHANGED <<op, cur, failed, arg>>

Refuse(o, status) ==
  /\ reply' = [op |-> o, status |-> status]
  /\ UNCHANGED <<configured, thread, endpoints, store, dma, faults, before>>

Accept(o, label, d) ==
  /\ op' = o /\ pc' = label /\ cur' = d /\ failed' = "no"
  /\ before' = Snapshot
  /\ UNCHANGED <<configured, endpoints, store, dma, faults, reply>>

\* A system call fails; what follows is the caller's error path.
Fault == faults < MaxFaults /\ faults' = faults + 1

\* Every error path of an activation is quiesce_disk or quiesce_network.
QuiesceDevice == Goto("drain")

\* release_memory begins with quiesce_all, which begins with the disk.
ReleaseMemory ==
  /\ pc' = "drain" /\ cur' = "disk" /\ failed' = "no"
  /\ UNCHANGED <<op, arg, reply>>

\* What the caller makes of release_memory's result.
Released ==
  CASE op = "release" -> Return("ok")
    [] op = "prepare" -> Return("failure")
    [] op = "exit"    -> Goto("gone")

NotReleased ==
  CASE op \in {"release", "prepare"} -> Return("quiescence")
    [] op = "exit"                   -> Goto("retained")

\* Faulty variant: quiesce_all forgets what became of the disk.
CollectedLast(result) == {result}

Collected(result) == {failed, result}

\* quiesce_disk or quiesce_network returns to activate_*, to dispatch, or to
\* quiesce_all, which tries the network whatever became of the disk.
Quiesced(result) ==
  CASE op = "activate" -> Return(IF result = "yes" THEN "quiescence" ELSE "failure")
    [] op = "reset"    -> Return(IF result = "yes" THEN "quiescence" ELSE "ok")
    [] op \in {"release", "prepare", "exit"} ->
         IF cur = "disk"
         THEN /\ pc' = "drain" /\ cur' = "net" /\ failed' = result
              /\ UNCHANGED <<op, arg, reply>>
         ELSE IF "yes" \in Collected(result) THEN NotReleased ELSE Goto("munmap")

-----------------------------------------------------------------------------
(* PREPARE_MEMORY: prepare_memory in memory.c.                             *)

\* Faulty variant: only the mapping is looked at.
UnpreparedMapping == "memory" \notin held

Unprepared == held \cap {"memory", "memory_fd"} = {} /\ token = None

PrepareRefused ==
  /\ pc = "idle"
  /\ \/ ~Unprepared /\ Refuse("prepare", "busy")
     \/ Unprepared /\ Refuse("prepare", "invalid")

Prepare(t) ==
  /\ pc = "idle" /\ Unprepared
  /\ arg' = t
  /\ Accept("prepare", IF t = Window THEN "open" ELSE "admit", "disk")

\* Faulty variant: b->token is recorded only when the mapping is complete.
AdmittedLater == None

Admitted == arg

\* HYPER_IO_ADMIT succeeds for a token the host still offers to this route.
Admit ==
  /\ pc = "admit"
  /\ grant[arg] = "offered" /\ memory_endpoint \notin bound
  /\ grant' = [grant EXCEPT ![arg] = "admitted"]
  /\ token' = Admitted
  /\ Goto("extents")
  /\ UNCHANGED <<endpoints, held, pages, dma, faults, before>>

\* HYPER_IO_ADMIT fails: the token is not on offer, or the call fails before
\* the host is asked, or the grant's facts disagree with the request, in which
\* case the driver retires the untouched token at once.
AdmitFails ==
  /\ pc = "admit"
  /\ \/ /\ grant[arg] # "offered" \/ memory_endpoint \in bound
        /\ UNCHANGED <<grant, faults>>
     \/ /\ grant[arg] = "offered" /\ Fault
        /\ grant' \in {grant, [grant EXCEPT ![arg] = "retired"]}
  /\ Return("invalid")
  /\ UNCHANGED <<endpoints, held, token, pages, dma, before>>

\* calloc, the HYPER_IO_EXTENT loop and its layout checks.
Extents ==
  /\ pc = "extents"
  /\ \/ Goto("open") /\ UNCHANGED faults
     \/ Fault /\ ReleaseMemory
  /\ UNCHANGED <<endpoints, store, dma, before>>

OpenMemory ==
  /\ pc = "open"
  /\ \/ Goto("prepare") /\ held' = held \cup {"memory_fd"} /\ UNCHANGED faults
     \/ Fault /\ ReleaseMemory /\ UNCHANGED held
  /\ UNCHANGED <<endpoints, token, pages, grant, dma, before>>

\* HYPER_MEMORY_INFO and HYPER_MEMORY_PREPARE on the new descriptor.
PreparePages ==
  /\ pc = "prepare"
  /\ \/ Goto("mmap") /\ pages' = arg /\ UNCHANGED faults
     \/ Fault /\ ReleaseMemory /\ UNCHANGED pages
  /\ UNCHANGED <<endpoints, held, token, grant, dma, before>>

Recorded == IF arg = Window THEN None ELSE arg

Mmap ==
  /\ pc = "mmap"
  /\ \/ /\ held' = held \cup {"memory"}
        /\ token' = Recorded
        /\ Return("ok")
        /\ UNCHANGED faults
     \/ Fault /\ ReleaseMemory /\ UNCHANGED <<held, token>>
  /\ UNCHANGED <<endpoints, pages, grant, dma, before>>

-----------------------------------------------------------------------------
(* ACTIVATE: activate_disk, activate_network, configure_vhost.             *)

\* The configuration, the feature, queue and layout checks, block_target_ready,
\* and the test that the endpoint is free; memory must be mapped.
ActivateRefused(d) ==
  /\ pc = "idle"
  /\ \/ d \notin configured /\ Refuse("activate", "unsupported")
     \/ d \in configured /\ Refuse("activate", "busy")
     \/ d \in configured /\ Refuse("activate", "invalid")

Activate(d) ==
  /\ pc = "idle" /\ d \in configured
  /\ ~DevHeld(d) /\ "memory" \in held
  /\ Accept("activate", "configure", d)
  /\ UNCHANGED arg

OpenVhost ==
  /\ pc = "configure"
  /\ \/ open' = open \cup {cur} /\ Goto("bind") /\ UNCHANGED faults
     \/ Fault /\ QuiesceDevice /\ UNCHANGED open
  /\ UNCHANGED <<bound, attached, store, dma, before>>

\* The vhost set-up ioctls, the eventfds, and last HYPER_IO_BIND.
BindNotification ==
  /\ pc = "bind"
  /\ \/ /\ bound' = bound \cup {cur}
        /\ Goto(IF cur = "net" THEN "tap" ELSE "attach")
        /\ UNCHANGED faults
     \/ Fault /\ QuiesceDevice /\ UNCHANGED bound
  /\ UNCHANGED <<open, attached, store, dma, before>>

\* create_tap; a failure can leave the descriptor open or not.
CreateTap ==
  /\ pc = "tap"
  /\ \/ held' = held \cup {"tap"} /\ Goto("attach") /\ UNCHANGED faults
     \/ Fault /\ QuiesceDevice /\ held' \in {held, held \cup {"tap"}}
  /\ UNCHANGED <<endpoints, token, pages, grant, dma, before>>

\* VHOST_SCSI_SET_ENDPOINT, or VHOST_NET_SET_BACKEND of the receive queue.
Attach ==
  /\ pc = "attach"
  /\ \/ /\ attached' = attached \cup {cur}
        /\ IF cur = "net" THEN Goto("attach_tx") ELSE Return("ok")
        /\ UNCHANGED faults
     \/ Fault /\ QuiesceDevice /\ UNCHANGED attached
  /\ UNCHANGED <<open, bound, store, dma, before>>

\* VHOST_NET_SET_BACKEND of the transmit queue; the receive queue is running.
AttachTx ==
  /\ pc = "attach_tx"
  /\ \/ Return("ok") /\ UNCHANGED faults
     \/ Fault /\ QuiesceDevice
  /\ UNCHANGED <<endpoints, store, dma, before>>

-----------------------------------------------------------------------------
(* RESET and STOP_QUEUE, and the quiescence of one device.                 *)

\* A malformed request, or a device this client does not have.
ResetRefused(d) ==
  /\ pc = "idle"
  /\ \/ d \notin configured /\ Refuse("reset", "unsupported")
     \/ Refuse("reset", "invalid")

Reset(d) ==
  /\ pc = "idle" /\ d \in configured
  /\ Accept("reset", "drain", d)
  /\ UNCHANGED arg

DrainFails == Quiesced("yes")

\* CLEAR_ENDPOINT or RESET_OWNER of an attached device: it returns when no
\* request is in flight any more, or fails and everything is retained.
Drain ==
  /\ pc = "drain"
  /\ \/ /\ attached' = attached \ {cur} /\ dma' = dma \ {cur}
        /\ Goto("close") /\ UNCHANGED faults
     \/ /\ cur \in attached
        /\ Fault /\ DrainFails /\ UNCHANGED <<attached, dma>>
  /\ UNCHANGED <<open, bound, store, before>>

\* endpoint_close, and for the network the TAP: close vhost, then UNBIND, which
\* can fail with vhost already closed, then the eventfds and the TAP.
Close ==
  /\ pc = "close"
  /\ open' = open \ {cur}
  /\ \/ /\ bound' = bound \ {cur}
        /\ held' = IF cur = "net" THEN held \ {"tap"} ELSE held
        /\ Quiesced("no") /\ UNCHANGED faults
     \/ /\ cur \in bound
        /\ Fault /\ Quiesced("yes") /\ UNCHANGED <<bound, held>>
  /\ UNCHANGED <<attached, token, pages, grant, dma, before>>

-----------------------------------------------------------------------------
(* RELEASE_MEMORY: release_memory, which prepare_memory's error paths and  *)
(* the end of main also run.                                               *)

Release ==
  /\ pc = "idle"
  /\ Accept("release", "drain", "disk")
  /\ UNCHANGED arg

\* The control endpoint closed or a signal arrived: main releases and exits.
Exit ==
  /\ pc = "idle"
  /\ Accept("exit", "drain", "disk")
  /\ UNCHANGED arg

Munmap ==
  /\ pc = "munmap"
  /\ \/ held' = held \ {"memory"} /\ Goto("driver") /\ UNCHANGED faults
     \/ "memory" \in held /\ Fault /\ NotReleased /\ UNCHANGED held
  /\ UNCHANGED <<endpoints, token, pages, grant, dma, before>>

\* Faulty variant: a failed HYPER_MEMORY_RELEASE is not noticed.
PagesForgotten == Goto("proof") /\ held' = held \ {"memory_fd"}

PagesKept == NotReleased /\ UNCHANGED held

\* HYPER_MEMORY_RELEASE, which waits for every page reference, then close.
ReleasePages ==
  /\ pc = "driver"
  /\ \/ /\ held' = held \ {"memory_fd"}
        /\ pages' = None
        /\ Goto("proof") /\ UNCHANGED faults
     \/ "memory_fd" \in held /\ Fault /\ PagesKept /\ UNCHANGED pages
  /\ UNCHANGED <<endpoints, token, grant, dma, before>>

\* Faulty variant: an admission that failed before mmap sends no proof.
OwedAfterMmap == token # None /\ op # "prepare"

Owed == token # None

\* HYPER_IO_QUIESCENT: the authenticated proof that ends the host's grant.  The
\* driver refuses it while the endpoint is bound.
Proof ==
  /\ pc = "proof"
  /\ \/ ~Owed /\ token' = None /\ Released /\ UNCHANGED <<grant, faults>>
     \/ /\ Owed /\ memory_endpoint \notin bound
        /\ grant' = [grant EXCEPT ![token] = "retired"]
        /\ token' = None
        /\ Released /\ UNCHANGED faults
     \/ /\ Owed
        /\ IF memory_endpoint \in bound THEN UNCHANGED faults ELSE Fault
        /\ NotReleased /\ UNCHANGED <<token, grant>>
  /\ UNCHANGED <<endpoints, held, pages, dma, before>>

-----------------------------------------------------------------------------
(* vhost and the death of the process.                                     *)

\* The guest kicks, or a packet arrives: vhost reads and writes guest pages.
Transfer(d) ==
  /\ d \in attached \ dma
  /\ dma' = dma \cup {d}
  /\ UNCHANGED <<configured, thread, endpoints, store, faults, reply, before>>

Complete(d) ==
  /\ d \in dma
  /\ dma' = dma \ {d}
  /\ UNCHANGED <<configured, thread, endpoints, store, faults, reply, before>>

\* The process dies anywhere.  Closing its descriptors drains vhost and gives
\* the pages back; the token dies with the process and no proof is sent.
Crash ==
  /\ pc # "gone"
  /\ pc' = "gone"
  /\ open' = {} /\ bound' = {} /\ attached' = {} /\ held' = {}
  /\ token' = None /\ pages' = None /\ dma' = {}
  /\ UNCHANGED <<configured, op, cur, failed, arg, grant, faults, reply, before>>

-----------------------------------------------------------------------------
PrepareStep == Admit \/ AdmitFails \/ Extents \/ OpenMemory \/ PreparePages \/ Mmap
ActivateStep == OpenVhost \/ BindNotification \/ CreateTap \/ Attach \/ AttachTx
QuiesceStep == Drain \/ Close
ReleaseStep == Munmap \/ ReleasePages \/ Proof
ServiceStep ==
  /\ PrepareStep \/ ActivateStep \/ QuiesceStep \/ ReleaseStep
  /\ UNCHANGED configured

Request ==
  \/ PrepareRefused \/ \E t \in Region : Prepare(t)
  \/ \E d \in Device : ActivateRefused(d) \/ Activate(d) \/ ResetRefused(d) \/ Reset(d)
  \/ Release \/ Exit

Next ==
  \/ Request
  \/ ServiceStep
  \/ \E d \in Device : Transfer(d) \/ Complete(d)
  \/ Crash

Spec == Init /\ [][Next]_vars

\* The kernel schedules the service, and the host repeats RELEASE_MEMORY as long
\* as the control channel lives, whatever else it asks in between.
FairSpec == Spec /\ WF_vars(ServiceStep) /\ SF_vars(Release)

-----------------------------------------------------------------------------
(* Properties.                                                             *)

\* The ownership rule of backend.h: whatever remains of a device, attached or
\* half torn down, the memory it borrows is still mapped.  Every failure path
\* of ACTIVATE, RESET, RELEASE_MEMORY and the final release keeps to it.  A device
\* at work also has its descriptor open and its notifications bound: producers
\* are removed before the callbacks they call.
BorrowedMemory ==
  /\ TypeOK
  /\ \A d \in Device : DevHeld(d) => "memory" \in held
  /\ dma \subseteq attached /\ attached \subseteq open \cap bound

\* Guest pages are reachable only under an admission the host has not ended:
\* QUIESCENT is the last thing that happens to a grant, after the drains, the
\* unmapping and the driver's release, on every path and after every failure.
UseUnderAdmission ==
  /\ pages \in Token => grant[pages] = "admitted"
  /\ "memory" \in held => pages # None
  /\ dma # {} => "memory" \in held

\* As long as the process lives, the admissions the host holds open are exactly
\* the one b->token remembers: no error path of prepare_memory loses one, and
\* no path answers twice for the same token.
AdmissionTracked ==
  pc # "gone" => \A t \in Token : grant[t] = "admitted" <=> token = t

Serving == pc \notin {"idle", "gone", "retained"}

Resources == INSTANCE ClientResources WITH
  mem <- IF Serving THEN before.mem ELSE MemState,
  dev <- IF Serving THEN before.dev ELSE DevState

\* Every handler, with all its failures, looks to the session like one atomic
\* operation of ClientResources with the status it answered; in particular a
\* device reset leaves the memory and the other device alone, and a failed
\* RELEASE_MEMORY never takes the memory from a device it could not drain.
AtomicOperations == Resources!Spec

\* With failures that end and a host that repeats RELEASE_MEMORY, every
\* admitted grant is returned, unless the service stopped first.
GrantReturned ==
  \A t \in Token : grant[t] = "admitted" ~> (grant[t] = "retired" \/ pc \in {"gone", "retained"})
=============================================================================
