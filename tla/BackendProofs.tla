---------------------------- MODULE BackendProofs ----------------------------
(***************************************************************************)
(* The backend of one client, for every set of grant tokens and any number *)
(* of failing calls: devices only borrow memory, pages are reachable only  *)
(* under an open admission, no admission is lost, and every operation with *)
(* all its failures implements one atomic operation of ClientResources.    *)
(***************************************************************************)
EXTENDS Backend, TLAPS

PreparePC == {"admit", "extents", "open", "prepare", "mmap"}
ActivatePC == {"configure", "bind", "tap", "attach", "attach_tx"}
QuiescePC == {"drain", "close"}
ReleasePC == {"munmap", "driver", "proof"}
Releasing == {"release", "prepare", "exit"}

\* Which operation runs which code, with which argument.
OpAt ==
  /\ pc \in PreparePC => op = "prepare" /\ arg \in Region
  /\ pc \in {"admit", "extents"} => arg \in Token
  /\ pc \in ActivatePC => op = "activate"
  /\ pc \in {"tap", "attach_tx"} => cur = "net"
  /\ pc \in QuiescePC => op # "none"
  /\ pc \in ReleasePC => op \in Releasing

\* The parts of an endpoint come and go in order, data transfer innermost.
EndpointOrder ==
  /\ dma \subseteq attached /\ attached \subseteq open \cap bound
  /\ pc \in {"bind", "tap", "attach", "attach_tx"} => cur \in open
  /\ pc \in {"tap", "attach", "attach_tx"} => cur \in bound
  /\ pc = "attach_tx" => cur \in attached
  /\ pc = "close" => cur \notin attached

\* Devices borrow mapped memory; release_memory passes quiesce_all only when no
\* device is left, and failed says what became of the disk.
Borrowing ==
  /\ \A d \in Device : DevHeld(d) => "memory" \in held
  /\ pc \in ReleasePC => \A d \in Device : ~DevHeld(d)
  /\ pc \in QuiescePC /\ op \in Releasing /\ cur = "net" =>
       (failed = "yes" <=> DevHeld("disk"))

\* The mapping needs the prepared pages, the pages need the descriptor and, with
\* a token, the admission.
MemoryOrder ==
  /\ "memory" \in held => "memory_fd" \in held /\ pages # None
  /\ pages # None => "memory_fd" \in held
  /\ pages \in Token => token = pages
  /\ Serving /\ op = "prepare" => "memory" \notin held
  /\ Serving /\ op = "activate" => "memory" \in held
  /\ pc = "gone" => pages = None

\* How far prepare_memory and release_memory have come.
MemoryAt ==
  /\ pc = "admit" => token = None
  /\ pc \in {"admit", "extents", "open"} => "memory_fd" \notin held
  /\ pc = "extents" => token = arg
  /\ pc \in {"open", "prepare", "mmap"} => token = Recorded
  /\ pc = "prepare" => "memory_fd" \in held
  /\ pc = "mmap" => pages = arg
  /\ pc \in {"driver", "proof"} => "memory" \notin held
  /\ pc = "proof" => "memory_fd" \notin held

Inv ==
  /\ TypeOK
  /\ OpAt
  /\ EndpointOrder
  /\ Borrowing
  /\ MemoryOrder
  /\ MemoryAt
  /\ AdmissionTracked

-----------------------------------------------------------------------------
\* The invariant holds when main enters serve.
LEMMA InitInv == Init => Inv
<1>. SUFFICES ASSUME Init PROVE Inv
  OBVIOUS
<1>1. TypeOK
  BY MaxFaultsNat DEF Init, TypeOK, Device, PC, Op
<1>2. OpAt /\ EndpointOrder /\ Borrowing /\ MemoryOrder /\ MemoryAt /\ AdmissionTracked
  BY TokenFresh DEF Init, OpAt, EndpointOrder, Borrowing, MemoryOrder, MemoryAt,
     AdmissionTracked, Recorded, DevHeld, Serving, PreparePC, ActivatePC, QuiescePC, ReleasePC
<1>. QED BY <1>1, <1>2 DEF Inv

\* A step that changes nothing the invariant is about.
LEMMA NothingStep ==
  ASSUME Inv, UNCHANGED <<configured, thread, endpoints, store, dma, faults>>
  PROVE  Inv'
<1>. USE DEF thread, endpoints, store
<1>1. TypeOK'
  BY DEF Inv, TypeOK
<1>2. OpAt' /\ EndpointOrder' /\ Borrowing'
  BY DEF Inv, OpAt, EndpointOrder, Borrowing, DevHeld
<1>3. MemoryOrder' /\ MemoryAt'
  BY DEF Inv, MemoryOrder, MemoryAt, Recorded, Serving
<1>4. AdmissionTracked'
  BY DEF Inv, AdmissionTracked
<1>. QED BY <1>1, <1>2, <1>3, <1>4 DEF Inv

\* Requests change the thread only.
LEMMA RequestStep ==
  ASSUME Inv, Request
  PROVE  Inv'
<1>1. CASE PrepareRefused
  BY <1>1, NothingStep DEF PrepareRefused, Refuse
<1>2. ASSUME NEW d \in Device, ActivateRefused(d) \/ ResetRefused(d) PROVE Inv'
  BY <1>2, NothingStep DEF ActivateRefused, ResetRefused, Refuse
<1>. USE TokenFresh DEF Inv, TypeOK, OpAt, EndpointOrder, Borrowing, MemoryOrder, MemoryAt,
     AdmissionTracked, Recorded, DevHeld, Serving, PreparePC, ActivatePC, QuiescePC, ReleasePC,
     Releasing, thread, endpoints, store, Accept, Device, PC, Op, Region
<1>3. ASSUME NEW t \in Region, Prepare(t) PROVE Inv'
  BY <1>3 DEF Prepare, Unprepared
<1>4. ASSUME NEW d \in Device, Activate(d) PROVE Inv'
  BY <1>4 DEF Activate
<1>5. ASSUME NEW d \in Device, Reset(d) PROVE Inv'
  BY <1>5 DEF Reset
<1>6. CASE Release \/ Exit
  BY <1>6 DEF Release, Exit
<1>. QED BY <1>1, <1>2, <1>3, <1>4, <1>5, <1>6 DEF Request

\* prepare_memory up to mmap: each step adds one part in the order MemoryOrder has
\* them, and every failure enters release_memory or answers with nothing added.
LEMMA PrepareStepInv ==
  ASSUME Inv, PrepareStep, UNCHANGED configured
  PROVE  Inv'
<1>. USE TokenFresh, MaxFaultsNat DEF Inv, TypeOK, OpAt, EndpointOrder, Borrowing, MemoryOrder, MemoryAt,
     AdmissionTracked, Recorded, DevHeld, Serving, PreparePC, ActivatePC, QuiescePC, ReleasePC,
     Releasing, thread, endpoints, store, Goto, Return, Fault, ReleaseMemory, Device, PC, Op, Region
<1>1. CASE Admit
  BY <1>1 DEF Admit, Admitted
<1>2. CASE AdmitFails
  BY <1>2 DEF AdmitFails
<1>3. CASE Extents
  BY <1>3 DEF Extents
<1>4. CASE OpenMemory
  <2>1. CASE Goto("prepare") /\ held' = held \cup {"memory_fd"} /\ UNCHANGED faults
    BY <1>4, <2>1 DEF OpenMemory
  <2>2. CASE Fault /\ ReleaseMemory /\ UNCHANGED held
    BY <1>4, <2>2 DEF OpenMemory
  <2>. QED BY <1>4, <2>1, <2>2 DEF OpenMemory
<1>5. CASE PreparePages
  BY <1>5 DEF PreparePages
<1>6. CASE Mmap
  <2>1. CASE held' = held \cup {"memory"} /\ Return("ok") /\ token' = Recorded /\ UNCHANGED faults
    BY <1>6, <2>1 DEF Mmap
  <2>2. CASE Fault /\ ReleaseMemory /\ UNCHANGED <<held, token>>
    BY <1>6, <2>2 DEF Mmap
  <2>. QED BY <1>6, <2>1, <2>2 DEF Mmap
<1>. QED BY <1>1, <1>2, <1>3, <1>4, <1>5, <1>6 DEF PrepareStep

\* Activation and quiescence of devices leave the memory alone.
LEMMA MemoryKept ==
  ASSUME Inv, UNCHANGED <<token, pages, grant, arg, op>>,
         "memory" \in held' <=> "memory" \in held,
         "memory_fd" \in held' <=> "memory_fd" \in held,
         pc \in ActivatePC \cup QuiescePC,
         pc' \in ActivatePC \cup QuiescePC \cup {"idle", "munmap", "retained"}
  PROVE  MemoryOrder' /\ MemoryAt' /\ AdmissionTracked'
<1>1. MemoryOrder'
  BY DEF Inv, MemoryOrder, Serving, ActivatePC, QuiescePC
<1>2. MemoryAt'
  BY DEF Inv, MemoryAt, ActivatePC, QuiescePC
<1>3. AdmissionTracked'
  BY DEF Inv, AdmissionTracked, ActivatePC, QuiescePC
<1>. QED BY <1>1, <1>2, <1>3

\* Every call of an activation adds one part to the endpoint, or fails and turns
\* to the quiescence of the device.
LEMMA ActivateStepInv ==
  ASSUME Inv, ActivateStep, UNCHANGED configured
  PROVE  Inv'
<1>. USE DEF Goto, Return, QuiesceDevice, store, endpoints
<1>1. /\ pc \in ActivatePC /\ op = "activate" /\ "memory" \in held
      /\ UNCHANGED <<token, pages, grant, arg, op, cur, failed, dma>>
      /\ pc' \in ActivatePC \cup {"drain", "idle"}
      /\ held' \in {held, held \cup {"tap"}}
      /\ faults' = faults \/ Fault
    BY DEF ActivateStep, OpenVhost, BindNotification, CreateTap, Attach, AttachTx,
           ActivatePC, Inv, OpAt, MemoryOrder, Serving
<1>2. open' \in {open, open \cup {cur}} /\ bound' \in {bound, bound \cup {cur}}
      /\ attached' \in {attached, attached \cup {cur}}
    BY DEF ActivateStep, OpenVhost, BindNotification, CreateTap, Attach, AttachTx
<1>3. MemoryOrder' /\ MemoryAt' /\ AdmissionTracked'
    BY <1>1, MemoryKept DEF QuiescePC
<1>4. TypeOK'
    BY <1>1, <1>2, MaxFaultsNat DEF Inv, TypeOK, Fault, PC, ActivatePC
<1>5. EndpointOrder'
    BY DEF ActivateStep, OpenVhost, BindNotification, CreateTap, Attach, AttachTx,
           Inv, TypeOK, EndpointOrder
<1>6. OpAt'
    BY <1>1 DEF ActivateStep, OpenVhost, BindNotification, CreateTap, Attach, AttachTx,
           Inv, TypeOK, Device, OpAt, ActivatePC, PreparePC, QuiescePC, ReleasePC
<1>7. Borrowing'
    BY <1>1, <1>2 DEF Borrowing, DevHeld, ActivatePC, QuiescePC, ReleasePC, Releasing
<1>. QED BY <1>3, <1>4, <1>5, <1>6, <1>7 DEF Inv

\* What follows the quiescence of one device.
LEMMA QuiescedStep ==
  ASSUME Inv, pc \in QuiescePC, NEW result \in {"no", "yes"}, Quiesced(result)
  PROVE  /\ UNCHANGED <<arg, op>> /\ cur' \in Device /\ failed' \in {"no", "yes"}
         /\ \/ pc' \in {"idle", "retained"}
            \/ pc' = "drain" /\ op \in Releasing /\ cur = "disk" /\ cur' = "net" /\ failed' = result
            \/ pc' = "munmap" /\ op \in Releasing /\ cur = "net" /\ failed = "no" /\ result = "no"
<1>1. op \in {"activate", "reset", "release", "prepare", "exit"} /\ cur \in Device
      /\ failed \in {"no", "yes"}
  BY DEF Inv, OpAt, TypeOK, Op
<1>2. CASE op = "activate"
  BY <1>1, <1>2 DEF Quiesced, Return
<1>3. CASE op = "reset"
  BY <1>1, <1>3 DEF Quiesced, Return
<1>4. CASE op \in Releasing
  BY <1>1, <1>4 DEF Quiesced, Return, NotReleased, Goto, Collected, Releasing, Device
<1>. QED BY <1>1, <1>2, <1>3, <1>4 DEF Releasing

\* Draining and closing only take away; what stays of a device is reported.
LEMMA QuiesceStepInv ==
  ASSUME Inv, QuiesceStep, UNCHANGED configured
  PROVE  Inv'
<1>0. /\ cur \in Device /\ op \in Op /\ op # "none" /\ pc \in QuiescePC
      /\ UNCHANGED <<token, pages, grant>>
      /\ "memory" \in held' <=> "memory" \in held
      /\ "memory_fd" \in held' <=> "memory_fd" \in held
      /\ held' \in SUBSET {"memory", "memory_fd", "tap"}
      /\ faults' = faults \/ Fault
  BY DEF Inv, TypeOK, OpAt, QuiesceStep, Drain, Close, QuiescePC, store
<1>1. ASSUME pc' \in QuiescePC \cup {"idle", "munmap", "retained"}, UNCHANGED <<op, arg>>,
             cur' \in Device, failed' \in {"no", "yes"},
             open' \subseteq open, bound' \subseteq bound, attached' \subseteq attached,
             dma' \subseteq dma
      PROVE  TypeOK' /\ MemoryOrder' /\ MemoryAt' /\ AdmissionTracked'
  <2>1. MemoryOrder' /\ MemoryAt' /\ AdmissionTracked'
    BY <1>0, <1>1, MemoryKept
  <2>2. TypeOK'
    BY <1>0, <1>1, MaxFaultsNat DEF Inv, TypeOK, Fault, PC, QuiescePC
  <2>. QED BY <2>1, <2>2
<1>2. ASSUME Drain, attached' = attached \ {cur}, dma' = dma \ {cur}, Goto("close")
      PROVE  Inv'
  <2>1. UNCHANGED <<open, bound, held, op, cur, failed, arg>> /\ pc' = "close" /\ pc = "drain"
    BY <1>2 DEF Drain, Goto, store
  <2>2. OpAt'
    BY <2>1 DEF Inv, OpAt, PreparePC, ActivatePC, QuiescePC, ReleasePC
  <2>3. EndpointOrder'
    BY <1>2, <2>1 DEF Inv, EndpointOrder
  <2>4. Borrowing'
    <3>1. \A d \in Device : DevHeld(d)' <=> DevHeld(d)
      BY <1>2, <2>1 DEF Inv, EndpointOrder, DevHeld
    <3>. QED BY <2>1, <3>1 DEF Inv, Borrowing, QuiescePC, ReleasePC, Device
  <2>. QED BY <1>1, <1>2, <2>1, <2>2, <2>3, <2>4 DEF Inv, TypeOK, QuiescePC
<1>3. ASSUME Drain, Quiesced("yes"), UNCHANGED <<attached, dma>>, cur \in attached
      PROVE  Inv'
  <2>1. UNCHANGED <<open, bound, held>> /\ pc = "drain"
    BY <1>3 DEF Drain, store
  <2>2. /\ UNCHANGED <<arg, op>> /\ cur' \in Device /\ failed' \in {"no", "yes"}
        /\ \/ pc' \in {"idle", "retained"}
           \/ pc' = "drain" /\ op \in Releasing /\ cur = "disk" /\ cur' = "net" /\ failed' = "yes"
    BY <1>0, <1>3, QuiescedStep
  <2>3. \A d \in Device : (DevHeld(d)' <=> DevHeld(d)) /\ (d = cur => DevHeld(d))
    BY <1>3, <2>1 DEF DevHeld
  <2>4. OpAt' /\ EndpointOrder' /\ Borrowing'
    BY <1>0, <1>3, <2>1, <2>2, <2>3 DEF Inv, OpAt, EndpointOrder, Borrowing, PreparePC, ActivatePC,
         QuiescePC, ReleasePC, Device
  <2>. QED BY <1>1, <1>3, <2>1, <2>2, <2>4 DEF Inv, QuiescePC
<1>4. ASSUME Close, bound' = bound \ {cur}, Quiesced("no"),
             held' = IF cur = "net" THEN held \ {"tap"} ELSE held
      PROVE  Inv'
  <2>1. open' = open \ {cur} /\ UNCHANGED <<attached, dma>> /\ pc = "close"
        /\ cur \notin attached
    BY <1>4 DEF Close, Inv, EndpointOrder
  <2>2. /\ UNCHANGED <<arg, op>> /\ cur' \in Device /\ failed' \in {"no", "yes"}
        /\ \/ pc' \in {"idle", "retained"}
           \/ pc' = "drain" /\ op \in Releasing /\ cur = "disk" /\ cur' = "net" /\ failed' = "no"
           \/ pc' = "munmap" /\ op \in Releasing /\ cur = "net" /\ failed = "no"
    BY <1>0, <1>4, QuiescedStep
  <2>3. \A d \in Device : DevHeld(d)' <=> DevHeld(d) /\ d # cur
    BY <1>0, <1>4, <2>1 DEF DevHeld, Device
  <2>4. OpAt' /\ EndpointOrder'
    BY <1>0, <1>4, <2>1, <2>2 DEF Inv, OpAt, EndpointOrder, PreparePC, ActivatePC,
         QuiescePC, ReleasePC
  <2>5. Borrowing'
    BY <1>0, <2>1, <2>2, <2>3 DEF Inv, Borrowing, QuiescePC, ReleasePC, Device
  <2>. QED BY <1>1, <1>4, <2>1, <2>2, <2>4, <2>5 DEF Inv, QuiescePC
<1>5. ASSUME Close, cur \in bound, Quiesced("yes"), UNCHANGED <<bound, held>>
      PROVE  Inv'
  <2>1. open' = open \ {cur} /\ UNCHANGED <<attached, dma>> /\ pc = "close"
        /\ cur \notin attached
    BY <1>5 DEF Close, Inv, EndpointOrder
  <2>2. /\ UNCHANGED <<arg, op>> /\ cur' \in Device /\ failed' \in {"no", "yes"}
        /\ \/ pc' \in {"idle", "retained"}
           \/ pc' = "drain" /\ op \in Releasing /\ cur = "disk" /\ cur' = "net" /\ failed' = "yes"
    BY <1>0, <1>5, QuiescedStep
  <2>3. \A d \in Device : (DevHeld(d)' <=> DevHeld(d)) /\ (d = cur => DevHeld(d))
    BY <1>5, <2>1 DEF DevHeld
  <2>4. OpAt' /\ EndpointOrder' /\ Borrowing'
    BY <1>0, <1>5, <2>1, <2>2, <2>3 DEF Inv, OpAt, EndpointOrder, Borrowing, PreparePC, ActivatePC,
         QuiescePC, ReleasePC, Device
  <2>. QED BY <1>1, <1>5, <2>1, <2>2, <2>4 DEF Inv, QuiescePC
<1>6. CASE Drain
  BY <1>2, <1>3, <1>6 DEF Drain, DrainFails
<1>7. CASE Close
  BY <1>4, <1>5, <1>7 DEF Close
<1>. QED BY <1>6, <1>7 DEF QuiesceStep

\* release_memory gives back mapping, pages and descriptor in this order, and
\* only then the admission.
LEMMA ReleaseStepInv ==
  ASSUME Inv, ReleaseStep, UNCHANGED configured
  PROVE  Inv'
<1>0. /\ pc \in ReleasePC /\ op \in Releasing /\ \A d \in Device : ~DevHeld(d)
      /\ "tap" \notin held /\ UNCHANGED <<endpoints, dma>>
      /\ faults' = faults \/ Fault
  BY DEF Inv, OpAt, Borrowing, DevHeld, Device, ReleaseStep, Munmap, ReleasePages, Proof, ReleasePC,
         endpoints
<1>1. ASSUME UNCHANGED <<op, cur, failed, arg>>, held' \subseteq held,
             pc' \in {"driver", "proof", "idle", "gone", "retained"}
      PROVE  OpAt' /\ EndpointOrder' /\ Borrowing'
  <2>1. \A d \in Device : ~DevHeld(d)'
    BY <1>0, <1>1 DEF DevHeld, endpoints
  <2>. QED BY <1>0, <1>1, <2>1 DEF Inv, OpAt, EndpointOrder, Borrowing, PreparePC, ActivatePC,
         QuiescePC, ReleasePC, endpoints, Device
<1>2. ASSUME NotReleased, UNCHANGED <<held, token, pages, grant>>
      PROVE  Inv'
  <2>1. UNCHANGED <<op, cur, failed, arg>> /\ pc' \in {"idle", "retained"}
    BY <1>0, <1>2 DEF NotReleased, Return, Goto, Releasing
  <2>2. TypeOK'
    BY <1>0, <1>2, <2>1, MaxFaultsNat DEF Inv, TypeOK, Fault, PC, endpoints
  <2>3. MemoryOrder' /\ MemoryAt' /\ AdmissionTracked'
    BY <1>0, <1>2, <2>1 DEF Inv, MemoryOrder, MemoryAt, AdmissionTracked, Serving, ReleasePC
  <2>. QED BY <1>1, <1>2, <2>1, <2>2, <2>3 DEF Inv
<1>3. ASSUME Munmap, held' = held \ {"memory"}, Goto("driver") PROVE Inv'
  <2>1. UNCHANGED <<token, pages, grant, op, cur, failed, arg>> /\ pc' = "driver" /\ pc = "munmap"
    BY <1>3 DEF Munmap, Goto
  <2>2. TypeOK'
    BY <1>0, <1>3, <2>1, MaxFaultsNat DEF Inv, TypeOK, Fault, PC, endpoints
  <2>3. MemoryOrder' /\ MemoryAt' /\ AdmissionTracked'
    BY <1>0, <1>3, <2>1 DEF Inv, MemoryOrder, MemoryAt, AdmissionTracked, Serving, Releasing
  <2>. QED BY <1>1, <1>3, <2>1, <2>2, <2>3 DEF Inv
<1>4. ASSUME ReleasePages, held' = held \ {"memory_fd"}, pages' = None, Goto("proof") PROVE Inv'
  <2>1. UNCHANGED <<token, grant, op, cur, failed, arg>> /\ pc' = "proof" /\ pc = "driver"
    BY <1>4 DEF ReleasePages, Goto
  <2>2. TypeOK'
    BY <1>0, <1>4, <2>1, MaxFaultsNat DEF Inv, TypeOK, Fault, PC, endpoints
  <2>3. MemoryOrder' /\ MemoryAt' /\ AdmissionTracked'
    BY <1>0, <1>4, <2>1, TokenFresh DEF Inv, MemoryOrder, MemoryAt, AdmissionTracked, Serving, Releasing
  <2>. QED BY <1>1, <1>4, <2>1, <2>2, <2>3 DEF Inv
<1>5. ASSUME Proof, token' = None, Released,
             \/ grant' = grant /\ token = None
             \/ grant' = [grant EXCEPT ![token] = "retired"] /\ token # None
      PROVE  Inv'
  <2>1. UNCHANGED <<held, pages, op, cur, failed, arg>> /\ pc' \in {"idle", "gone"} /\ pc = "proof"
    BY <1>0, <1>5 DEF Proof, Released, Return, Goto, Releasing
  <2>2. TypeOK'
    BY <1>0, <1>5, <2>1, MaxFaultsNat DEF Inv, TypeOK, Fault, PC, endpoints
  <2>3. "memory" \notin held /\ "memory_fd" \notin held /\ pages = None
    BY <2>1 DEF Inv, MemoryOrder, MemoryAt
  <2>4. MemoryOrder' /\ MemoryAt'
    BY <1>5, <2>1, <2>3, TokenFresh DEF MemoryOrder, MemoryAt, Serving
  <2>5. AdmissionTracked'
    BY <1>5, <2>1, TokenFresh DEF Inv, TypeOK, AdmissionTracked
  <2>. QED BY <1>1, <2>1, <2>2, <2>4, <2>5 DEF Inv
<1>6. CASE Munmap
  BY <1>2, <1>3, <1>6 DEF Munmap
<1>7. CASE ReleasePages
  BY <1>2, <1>4, <1>7 DEF ReleasePages, PagesKept
<1>8. CASE Proof
  <2>1. UNCHANGED <<held, pages>>
    BY <1>8 DEF Proof
  <2>2. CASE NotReleased /\ UNCHANGED <<token, grant>>
    BY <1>2, <2>1, <2>2
  <2>3. CASE token = None /\ token' = None /\ Released /\ grant' = grant
    BY <1>5, <1>8, <2>3
  <2>4. CASE /\ token # None /\ token' = None /\ Released
             /\ grant' = [grant EXCEPT ![token] = "retired"]
    BY <1>5, <1>8, <2>4
  <2>. QED BY <1>8, <2>2, <2>3, <2>4 DEF Proof, Owed
<1>. QED BY <1>6, <1>7, <1>8 DEF ReleaseStep

\* vhost moves data, and the process dies.
LEMMA OutsideStep ==
  ASSUME Inv, Crash \/ \E d \in Device : Transfer(d) \/ Complete(d)
  PROVE  Inv'
<1>1. CASE Crash
  <2>1. TypeOK' /\ AdmissionTracked'
    BY <1>1 DEF Inv, TypeOK, PC, Crash, AdmissionTracked
  <2>2. OpAt' /\ EndpointOrder' /\ Borrowing' /\ MemoryOrder' /\ MemoryAt'
    BY <1>1, TokenFresh DEF Crash, OpAt, EndpointOrder, Borrowing, MemoryOrder, MemoryAt, DevHeld,
         Serving, PreparePC, ActivatePC, QuiescePC, ReleasePC
  <2>. QED BY <2>1, <2>2 DEF Inv
<1>2. ASSUME NEW d \in Device, Transfer(d) \/ Complete(d) PROVE Inv'
  <2>1. UNCHANGED <<configured, thread, endpoints, store, faults>> /\ dma' \subseteq attached
        /\ attached \subseteq Device
    BY <1>2 DEF Transfer, Complete, Inv, EndpointOrder, TypeOK
  <2>2. TypeOK' /\ EndpointOrder'
    BY <2>1 DEF Inv, TypeOK, EndpointOrder, thread, endpoints, store
  <2>3. OpAt' /\ Borrowing' /\ MemoryOrder' /\ MemoryAt' /\ AdmissionTracked'
    BY <2>1 DEF Inv, OpAt, Borrowing, DevHeld, MemoryOrder, MemoryAt, Recorded, Serving,
         AdmissionTracked, thread, endpoints, store
  <2>. QED BY <2>2, <2>3 DEF Inv
<1>. QED BY <1>1, <1>2

\* Every step preserves the invariant.
LEMMA NextInv == Inv /\ [Next]_vars => Inv'
<1>. SUFFICES ASSUME Inv, [Next]_vars PROVE Inv'
  OBVIOUS
<1>1. CASE Request
  BY <1>1, RequestStep
<1>2. CASE ServiceStep
  BY <1>2, PrepareStepInv, ActivateStepInv, QuiesceStepInv, ReleaseStepInv DEF ServiceStep
<1>3. CASE Crash \/ \E d \in Device : Transfer(d) \/ Complete(d)
  BY <1>3, OutsideStep
<1>4. CASE UNCHANGED vars
  BY <1>4, NothingStep DEF vars
<1>. QED BY <1>1, <1>2, <1>3, <1>4 DEF Next

\* The inductive invariant holds in every state of the backend.
THEOREM Invariance == Spec => []Inv
  BY InitInv, NextInv, PTL DEF Spec

-----------------------------------------------------------------------------
(* The properties.                                                         *)

\* Devices only borrow memory, and what vhost uses outlives its use.
THEOREM DevicesBorrow == Spec => []BorrowedMemory
<1>1. Inv => BorrowedMemory
  BY DEF Inv, EndpointOrder, Borrowing, BorrowedMemory
<1>. QED BY <1>1, Invariance, PTL

\* Guest pages are reachable only under an admission the host has not ended.
THEOREM PagesAdmitted == Spec => []UseUnderAdmission
<1>1. Inv => UseUnderAdmission
  BY TokenFresh DEF Inv, EndpointOrder, Borrowing, MemoryOrder, AdmissionTracked, DevHeld, TypeOK,
       UseUnderAdmission
<1>. QED BY <1>1, Invariance, PTL

\* The service never loses track of an admission, and never proves one twice.
THEOREM AdmissionsTracked == Spec => []AdmissionTracked
<1>1. Inv => AdmissionTracked
  BY DEF Inv
<1>. QED BY <1>1, Invariance, PTL

-----------------------------------------------------------------------------
(* The operations are atomic.  While a request is served, the abstract     *)
(* state is what was held when it was accepted; Link says how far the      *)
(* service has moved away from it.                                         *)

LinkPrepare ==
  Serving /\ op = "prepare" => before.mem = "none" /\ before.dev = [d \in Device |-> "down"]

LinkActivate ==
  Serving /\ op = "activate" =>
    /\ before.mem = "ready" /\ before.dev[cur] = "down"
    /\ \A d \in Device \ {cur} : before.dev[d] = DevState[d]

LinkReset ==
  Serving /\ op = "reset" =>
    /\ before.mem = MemState
    /\ \A d \in Device \ {cur} : before.dev[d] = DevState[d]
    /\ DevHeld(cur) => before.dev[cur] = "held"

LinkRelease ==
  Serving /\ op \in {"release", "exit"} =>
    /\ \A d \in Device : DevHeld(d) => before.dev[d] = "held"
    /\ pc \in {"drain", "close", "munmap"} => before.mem = MemState
    /\ pc \in {"driver", "proof"} /\ MemState # "none" => before.mem # "none"

Link ==
  /\ before \in [mem : {"none", "ready", "partial"}, dev : [Device -> {"down", "held"}]]
  /\ LinkPrepare
  /\ LinkActivate
  /\ LinkReset
  /\ LinkRelease

\* The states of memory and devices, as ClientResources names them.
LEMMA StateTypes ==
  /\ MemState \in {"none", "ready", "partial"}
  /\ DevState \in [Device -> {"down", "held"}]
  /\ \A d \in Device : DevState[d] = IF DevHeld(d) THEN "held" ELSE "down"
  BY DEF MemState, DevState

\* What a step of quiesce_disk or quiesce_network does to the device, and what
\* it reports: success takes the whole device away, failure leaves it held.
LEMMA QuiesceEffect ==
  ASSUME Inv, QuiesceStep
  PROVE  /\ Serving /\ pc \in QuiescePC /\ cur \in Device /\ op \in Op \ {"none"}
         /\ UNCHANGED <<before, MemState>>
         /\ \/ Goto("close") /\ \A d \in Device : DevHeld(d)' <=> DevHeld(d)
            \/ /\ Quiesced("yes") /\ DevHeld(cur)
               /\ \A d \in Device : DevHeld(d)' <=> DevHeld(d)
            \/ Quiesced("no") /\ \A d \in Device : DevHeld(d)' <=> DevHeld(d) /\ d # cur
<1>1. /\ Serving /\ pc \in QuiescePC /\ cur \in Device /\ op \in Op \ {"none"}
      /\ UNCHANGED <<before, token>>
      /\ "memory" \in held' <=> "memory" \in held
      /\ "memory_fd" \in held' <=> "memory_fd" \in held
  BY DEF Inv, TypeOK, OpAt, QuiesceStep, Drain, Close, QuiescePC, store, Serving
<1>2. UNCHANGED MemState
  BY <1>1 DEF MemState
<1>3. ASSUME Drain, attached' = attached \ {cur}, Goto("close")
      PROVE  \A d \in Device : DevHeld(d)' <=> DevHeld(d)
  BY <1>3 DEF Inv, EndpointOrder, DevHeld, Drain, store
<1>4. ASSUME Drain, cur \in attached, UNCHANGED attached
      PROVE  DevHeld(cur) /\ \A d \in Device : DevHeld(d)' <=> DevHeld(d)
  BY <1>4 DEF DevHeld, Drain, store
<1>5. ASSUME Close, bound' = bound \ {cur},
             held' = IF cur = "net" THEN held \ {"tap"} ELSE held
      PROVE  \A d \in Device : DevHeld(d)' <=> DevHeld(d) /\ d # cur
  BY <1>1, <1>5 DEF Inv, EndpointOrder, DevHeld, Device, Close
<1>6. ASSUME Close, cur \in bound, UNCHANGED <<bound, held>>
      PROVE  DevHeld(cur) /\ \A d \in Device : DevHeld(d)' <=> DevHeld(d)
  BY <1>6 DEF DevHeld, Close
<1>7. CASE Drain
  BY <1>1, <1>2, <1>3, <1>4, <1>7 DEF Drain, DrainFails
<1>8. CASE Close
  BY <1>1, <1>2, <1>5, <1>6, <1>8 DEF Close
<1>. QED BY <1>7, <1>8 DEF QuiesceStep

\* ACTIVATE only touches its own device.
LEMMA ActivateEffect ==
  ASSUME Inv, ActivateStep
  PROVE  /\ Serving /\ op = "activate" /\ cur \in Device
         /\ UNCHANGED <<op, cur, before, MemState>>
         /\ \A d \in Device \ {cur} : DevHeld(d)' <=> DevHeld(d)
         /\ \/ pc' \in ActivatePC \cup {"drain"} /\ UNCHANGED reply
            \/ /\ pc' = "idle" /\ reply' = [op |-> "activate", status |-> "ok"]
               /\ DevHeld(cur)'
<1>. USE DEF Goto, Return, QuiesceDevice, store, endpoints
<1>1. /\ Serving /\ op = "activate" /\ cur \in Device
      /\ UNCHANGED <<op, cur, before, token>>
      /\ held' \in {held, held \cup {"tap"}} /\ (pc # "tap" => held' = held)
    BY DEF ActivateStep, OpenVhost, BindNotification, CreateTap, Attach, AttachTx,
           ActivatePC, Inv, OpAt, Serving, TypeOK
<1>2. UNCHANGED MemState
    BY <1>1 DEF MemState
<1>3. open' \in {open, open \cup {cur}} /\ bound' \in {bound, bound \cup {cur}}
      /\ attached' \in {attached, attached \cup {cur}}
    BY DEF ActivateStep, OpenVhost, BindNotification, CreateTap, Attach, AttachTx
<1>4. \A d \in Device \ {cur} : DevHeld(d)' <=> DevHeld(d)
    BY <1>1, <1>3 DEF DevHeld, Device, Inv, OpAt
<1>5. \/ pc' \in ActivatePC \cup {"drain"} /\ UNCHANGED reply
      \/ /\ pc' = "idle" /\ reply' = [op |-> "activate", status |-> "ok"]
         /\ cur \in attached'
    BY <1>1 DEF ActivateStep, OpenVhost, BindNotification, CreateTap, Attach, AttachTx,
           ActivatePC, Inv, EndpointOrder
<1>. QED BY <1>1, <1>2, <1>4, <1>5 DEF DevHeld

\* PREPARE_MEMORY runs with every device down, and answers success with the
\* mapping or a refusal with nothing held.
LEMMA PrepareEffect ==
  ASSUME Inv, PrepareStep
  PROVE  /\ Serving /\ op = "prepare" /\ UNCHANGED <<op, before>>
         /\ \A d \in Device : ~DevHeld(d) /\ ~DevHeld(d)'
         /\ \/ Serving' /\ UNCHANGED reply
            \/ /\ pc' = "idle" /\ reply' = [op |-> "prepare", status |-> "invalid"]
               /\ MemState' = "none"
            \/ /\ pc' = "idle" /\ reply' = [op |-> "prepare", status |-> "ok"]
               /\ MemState' = "ready"
<1>. USE DEF Goto, Return, ReleaseMemory, endpoints, store
<1>1. Serving /\ op = "prepare" /\ UNCHANGED <<op, before, open, bound, attached>>
  BY DEF PrepareStep, Admit, AdmitFails, Extents, OpenMemory, PreparePages, Mmap,
         Inv, OpAt, PreparePC, Serving
<1>2. "tap" \in held' <=> "tap" \in held
  BY DEF PrepareStep, Admit, AdmitFails, Extents, OpenMemory, PreparePages, Mmap
<1>3. \A d \in Device : ~DevHeld(d) /\ ~DevHeld(d)'
  BY <1>1, <1>2 DEF Inv, Borrowing, MemoryOrder, DevHeld
<1>4. CASE AdmitFails
  <2>1. MemState' = "none"
    BY <1>1, <1>4 DEF AdmitFails, MemState, Inv, MemoryOrder, MemoryAt
  <2>. QED BY <1>1, <1>3, <1>4, <2>1 DEF AdmitFails
<1>5. CASE Mmap
  <2>1. \/ pc' = "drain" /\ UNCHANGED reply
        \/ /\ pc' = "idle" /\ reply' = [op |-> op, status |-> "ok"]
           /\ "memory" \in held'
    BY <1>5 DEF Mmap
  <2>. QED BY <1>1, <1>3, <2>1 DEF MemState, Serving
<1>6. CASE Admit \/ Extents \/ OpenMemory \/ PreparePages
  <2>1. Serving' /\ UNCHANGED reply
    BY <1>6 DEF Admit, Extents, OpenMemory, PreparePages, Serving
  <2>. QED BY <1>1, <1>3, <2>1
<1>. QED BY <1>4, <1>5, <1>6 DEF PrepareStep

\* release_memory past quiesce_all: no device is left; it goes on, gives up with
\* something of the memory still held, or ends with nothing held.
LEMMA ReleaseEffect ==
  ASSUME Inv, ReleaseStep
  PROVE  /\ Serving /\ op \in Releasing /\ UNCHANGED <<op, before>>
         /\ \A d \in Device : ~DevHeld(d) /\ ~DevHeld(d)'
         /\ \/ /\ pc' \in {"driver", "proof"} /\ UNCHANGED reply
               /\ MemState' # "none" => MemState # "none"
            \/ /\ NotReleased /\ MemState' = MemState /\ MemState # "none"
               /\ pc = "munmap" \/ MemState = "partial"
            \/ Released /\ MemState' = "none"
<1>1. Serving /\ op \in Releasing /\ UNCHANGED <<before, open, bound, attached>>
      /\ pc \in ReleasePC
  BY DEF ReleaseStep, Munmap, ReleasePages, Proof, Inv, OpAt, ReleasePC, Serving, endpoints
<1>2. "tap" \in held' <=> "tap" \in held
  BY DEF ReleaseStep, Munmap, ReleasePages, Proof, PagesKept
<1>3. \A d \in Device : ~DevHeld(d) /\ ~DevHeld(d)'
  BY <1>1, <1>2 DEF Inv, Borrowing, DevHeld
<1>4. ASSUME NotReleased \/ Released PROVE UNCHANGED op
  BY <1>1, <1>4 DEF NotReleased, Released, Return, Goto, Releasing
<1>5. CASE Munmap
  <2>1. CASE held' = held \ {"memory"} /\ Goto("driver")
    <3>1. MemState' # "none" => MemState # "none"
      BY <1>5, <2>1 DEF MemState, Munmap
    <3>. QED BY <1>1, <1>3, <2>1, <3>1 DEF Goto
  <2>2. CASE "memory" \in held /\ NotReleased /\ UNCHANGED held
    <3>1. MemState' = MemState /\ MemState # "none" /\ pc = "munmap"
      BY <1>5, <2>2 DEF MemState, Munmap
    <3>. QED BY <1>1, <1>3, <1>4, <2>2, <3>1
  <2>. QED BY <1>5, <2>1, <2>2 DEF Munmap
<1>6. CASE ReleasePages
  <2>0. "memory" \notin held /\ UNCHANGED token
    BY <1>6 DEF ReleasePages, Inv, MemoryAt
  <2>1. CASE held' = held \ {"memory_fd"} /\ Goto("proof")
    <3>1. MemState' # "none" => MemState # "none"
      BY <2>0, <2>1 DEF MemState
    <3>. QED BY <1>1, <1>3, <2>1, <3>1 DEF Goto
  <2>2. CASE "memory_fd" \in held /\ NotReleased /\ UNCHANGED held
    <3>1. MemState' = MemState /\ MemState = "partial"
      BY <2>0, <2>2 DEF MemState
    <3>. QED BY <1>1, <1>3, <1>4, <2>2, <3>1
  <2>. QED BY <1>6, <2>1, <2>2 DEF ReleasePages, PagesKept
<1>7. CASE Proof
  <2>0. "memory" \notin held /\ "memory_fd" \notin held /\ UNCHANGED held
    BY <1>7 DEF Proof, Inv, MemoryAt
  <2>1. CASE Released /\ token' = None
    <3>1. MemState' = "none"
      BY <2>0, <2>1 DEF MemState
    <3>. QED BY <1>1, <1>3, <1>4, <2>1, <3>1
  <2>2. CASE NotReleased /\ token # None /\ UNCHANGED token
    <3>1. MemState' = MemState /\ MemState = "partial"
      BY <2>0, <2>2 DEF MemState
    <3>. QED BY <1>1, <1>3, <1>4, <2>2, <3>1
  <2>. QED BY <1>7, <2>1, <2>2 DEF Proof, Owed
<1>. QED BY <1>5, <1>6, <1>7 DEF ReleaseStep

\* Accepting a request remembers the state the session knows.
LEMMA LinkAccept ==
  ASSUME Inv, ~Serving, before' = Snapshot, UNCHANGED <<endpoints, store>>,
         op' = "prepare" => Unprepared,
         op' = "activate" => "memory" \in held /\ ~DevHeld(cur'), cur' \in Device,
         pc' \notin {"driver", "proof"}
  PROVE  Link'
<1>1. UNCHANGED <<MemState, DevState>> /\ \A d \in Device : DevHeld(d)' <=> DevHeld(d)
  BY DEF MemState, DevState, DevHeld, endpoints, store
<1>2. before' = [mem |-> MemState, dev |-> DevState]
  BY DEF Snapshot
<1>3. ASSUME op' = "prepare" PROVE MemState = "none" /\ DevState = [d \in Device |-> "down"]
  BY <1>3 DEF Unprepared, MemState, DevState, Inv, Borrowing
<1>4. ASSUME op' = "activate" PROVE MemState = "ready" /\ DevState[cur'] = "down"
  BY <1>4, StateTypes DEF MemState
<1>5. LinkPrepare' /\ LinkActivate'
  BY <1>1, <1>2, <1>3, <1>4 DEF LinkPrepare, LinkActivate
<1>6. LinkReset' /\ LinkRelease'
  BY <1>1, <1>2, StateTypes DEF LinkReset, LinkRelease
<1>. QED BY <1>2, <1>5, <1>6, StateTypes DEF Link

\* A step that ends the operation leaves nothing to relate.
LEMMA LinkEnd ==
  ASSUME Link, UNCHANGED before, ~Serving' PROVE Link'
  BY DEF Link, LinkPrepare, LinkActivate, LinkReset, LinkRelease

\* A step of another process, or a refusal, changes neither side.
LEMMA LinkSame ==
  ASSUME Link, UNCHANGED <<thread, endpoints, store, before>> PROVE Link'
<1>1. /\ UNCHANGED <<MemState, DevState, pc, op, cur, before>> /\ (Serving' <=> Serving)
      /\ DevHeld("disk")' <=> DevHeld("disk")
      /\ DevHeld("net")' <=> DevHeld("net")
      /\ DevHeld(cur)' <=> DevHeld(cur)
  BY DEF MemState, DevState, DevHeld, Serving, thread, endpoints, store
<1>2. LinkPrepare' /\ LinkActivate'
  BY <1>1 DEF Link, LinkPrepare, LinkActivate
<1>3. LinkReset'
  BY <1>1 DEF Link, LinkReset
<1>4. LinkRelease'
  BY <1>1 DEF Link, LinkRelease, Device
<1>. QED BY <1>1, <1>2, <1>3, <1>4 DEF Link

\* Serving a request keeps the relation to the state it was accepted in.
LEMMA LinkService ==
  ASSUME Inv, Link, PrepareStep \/ ActivateStep \/ QuiesceStep \/ ReleaseStep PROVE Link'
<1>1. CASE PrepareStep
  BY <1>1, PrepareEffect, LinkEnd DEF Link, LinkPrepare, LinkActivate, LinkReset, LinkRelease
<1>2. CASE ActivateStep
  <2>1. op = "activate" /\ Serving /\ UNCHANGED <<op, cur, before>>
    BY <1>2, ActivateEffect
  <2>2. \A d \in Device \ {cur} : DevState'[d] = DevState[d]
    BY <1>2, ActivateEffect DEF DevState
  <2>. QED BY <2>1, <2>2 DEF Link, LinkPrepare, LinkActivate, LinkReset, LinkRelease
<1>3. CASE QuiesceStep
  <2>0. /\ Serving /\ pc \in QuiescePC /\ cur \in Device /\ op \in Op \ {"none"}
        /\ UNCHANGED <<before, MemState>> /\ \A d \in Device : DevHeld(d)' => DevHeld(d)
    BY <1>3, QuiesceEffect
  <2>1. ASSUME Serving', UNCHANGED <<op, cur>>, pc' = "close", \A d \in Device : DevHeld(d)' <=> DevHeld(d)
        PROVE  Link'
    <3>1. \A d \in Device \ {cur} : DevState[d]' = DevState[d]
      BY <2>1 DEF DevState
    <3>. QED BY <2>0, <2>1, <3>1 DEF Link, LinkPrepare, LinkActivate, LinkReset, LinkRelease, QuiescePC
  <2>2. ASSUME Serving', UNCHANGED op, pc' \in {"drain", "munmap"}, op \in Releasing
        PROVE  Link'
    <3>. QED BY <2>0, <2>2 DEF Link, LinkPrepare, LinkActivate, LinkReset, LinkRelease, QuiescePC, Releasing
  <2>3. ASSUME NEW result \in {"no", "yes"}, Quiesced(result) PROVE Link'
    BY <2>0, <2>2, <2>3, QuiescedStep, LinkEnd DEF Serving
  <2>4. CASE Goto("close") /\ \A d \in Device : DevHeld(d)' <=> DevHeld(d)
    BY <2>1, <2>4 DEF Goto, Serving
  <2>. QED BY <1>3, <2>3, <2>4, QuiesceEffect
<1>4. CASE ReleaseStep
  <2>0. Serving /\ op \in Releasing /\ pc \in ReleasePC /\ UNCHANGED <<op, before>>
        /\ \A d \in Device : ~DevHeld(d)'
    BY <1>4, ReleaseEffect DEF ReleaseStep, Munmap, ReleasePages, Proof, ReleasePC
  <2>1. ASSUME pc' \in {"driver", "proof"}, MemState' # "none" => MemState # "none" PROVE Link'
    BY <2>0, <2>1 DEF Link, LinkPrepare, LinkActivate, LinkReset, LinkRelease, ReleasePC, Releasing
  <2>2. ASSUME NotReleased \/ Released PROVE Link'
    <3>1. ~Serving'
      BY <2>0, <2>2 DEF NotReleased, Released, Return, Goto, Releasing, Serving
    <3>. QED BY <2>0, <3>1, LinkEnd
  <2>. QED BY <1>4, <2>1, <2>2, ReleaseEffect
<1>. QED BY <1>1, <1>2, <1>3, <1>4

\* Link is an invariant, given Inv.
LEMMA LinkNext == Inv /\ Link /\ [Next]_vars => Link'
<1>. SUFFICES ASSUME Inv, Link, [Next]_vars PROVE Link'
  OBVIOUS
<1>1. ASSUME NEW o, NEW s, Refuse(o, s) PROVE Link'
  BY <1>1, LinkSame DEF Refuse
<1>2. ASSUME NEW o, NEW label \in {"open", "admit", "configure", "drain"}, NEW d \in Device,
             pc = "idle", Accept(o, label, d), o = "prepare" => Unprepared,
             o = "activate" => "memory" \in held /\ ~DevHeld(d)
      PROVE  Link'
  <2>1. /\ ~Serving /\ before' = Snapshot /\ UNCHANGED <<endpoints, store>>
        /\ op' = o /\ pc' = label /\ cur' = d
    BY <1>2 DEF Accept, Serving
  <2>. QED BY <1>2, <2>1, LinkAccept
<1>3. CASE PrepareRefused \/ \E d \in Device : ActivateRefused(d) \/ ResetRefused(d)
  BY <1>1, <1>3 DEF PrepareRefused, ActivateRefused, ResetRefused
<1>4. CASE \E t \in Region : Prepare(t)
  BY <1>2, <1>4 DEF Prepare, Device
<1>5. CASE \E d \in Device : Activate(d) \/ Reset(d)
  BY <1>2, <1>5 DEF Activate, Reset
<1>6. CASE Release \/ Exit
  BY <1>2, <1>6 DEF Release, Exit, Device
<1>7. CASE ServiceStep
  BY <1>7, LinkService DEF ServiceStep
<1>8. CASE \E d \in Device : Transfer(d) \/ Complete(d)
  BY <1>8, LinkSame DEF Transfer, Complete
<1>9. CASE Crash
  BY <1>9, LinkEnd DEF Crash, Serving
<1>10. CASE UNCHANGED vars
  BY <1>10, LinkSame DEF vars
<1>. QED BY <1>3, <1>4, <1>5, <1>6, <1>7, <1>8, <1>9, <1>10 DEF Next, Request

-----------------------------------------------------------------------------
(* The operations of ClientResources, as the answers that complete them.   *)

\* PREPARE_MEMORY answers.
LEMMA AnswerPrepare ==
  ASSUME Serving, ~Serving', before.mem = "none", DevState' = before.dev,
         NEW s, reply' = [op |-> "prepare", status |-> s],
         \/ s = "ok" /\ MemState' = "ready"
         \/ s = "failure" /\ MemState' = "none"
         \/ s = "quiescence" /\ MemState' = "partial"
  PROVE  Resources!Next
<1>1. Resources!Prepare(s)
  BY DEF Resources!Prepare, Resources!Answer
<1>. QED BY <1>1 DEF Resources!Next, Resources!Status

\* PREPARE_MEMORY refused by the admission answers with nothing changed.
LEMMA AnswerRefusal ==
  ASSUME Serving, ~Serving', before.mem = MemState', before.dev = DevState',
         reply' = [op |-> "prepare", status |-> "invalid"]
  PROVE  Resources!Next
<1>1. Resources!Refuse("prepare", "invalid")
  BY DEF Resources!Refuse, Resources!Answer, Resources!Refusal, Resources!resources
<1>. QED BY <1>1 DEF Resources!Next, Resources!Refusal

\* ACTIVATE answers.
LEMMA AnswerActivate ==
  ASSUME Serving, ~Serving', NEW d \in Device,
         before.mem = "ready", MemState' = "ready", before.dev[d] = "down",
         before.dev \in [Device -> {"down", "held"}],
         \A e \in Device \ {d} : DevState'[e] = before.dev[e],
         NEW s, reply' = [op |-> "activate", status |-> s],
         \/ s \in {"ok", "quiescence"} /\ DevState'[d] = "held"
         \/ s = "failure" /\ DevState'[d] = "down"
  PROVE  Resources!Next
<1>1. DevState' \in [Device -> {"down", "held"}]
  BY DEF DevState
<1>2. s \in {"ok", "quiescence"} => DevState' = [before.dev EXCEPT ![d] = "held"]
  BY <1>1
<1>3. s = "failure" => DevState' = before.dev
  BY <1>1
<1>4. Resources!Activate(d, s)
  BY <1>2, <1>3 DEF Resources!Activate, Resources!Answer
<1>. QED BY <1>4 DEF Resources!Next, Resources!Status

\* RESET and STOP_QUEUE answer.
LEMMA AnswerReset ==
  ASSUME Serving, ~Serving', NEW d \in Device, before.mem = MemState',
         before.dev \in [Device -> {"down", "held"}],
         \A e \in Device \ {d} : DevState'[e] = before.dev[e],
         NEW s, reply' = [op |-> "reset", status |-> s],
         \/ s = "ok" /\ DevState'[d] = "down"
         \/ s = "quiescence" /\ DevState'[d] = "held" /\ before.dev[d] = "held"
  PROVE  Resources!Next
<1>1. DevState' \in [Device -> {"down", "held"}]
  BY DEF DevState
<1>2. s = "ok" => DevState' = [before.dev EXCEPT ![d] = "down"]
  BY <1>1
<1>3. s = "quiescence" => DevState' = before.dev
  BY <1>1
<1>4. Resources!Reset(d, s)
  BY <1>2, <1>3 DEF Resources!Reset, Resources!Answer
<1>. QED BY <1>4 DEF Resources!Next, Resources!Status

\* A completed release: RELEASE_MEMORY answers, or the exiting process is gone.
LEMMA AnswerReleased ==
  ASSUME Serving, ~Serving', MemState' = "none", \A d \in Device : ~DevHeld(d)',
         reply' = [op |-> "release", status |-> "ok"] \/ UNCHANGED reply
  PROVE  Resources!Next
<1>1. DevState' = Resources!AllDown
  BY DEF DevState, Resources!AllDown
<1>2. CASE reply' = [op |-> "release", status |-> "ok"]
  <2>1. Resources!Release("ok")
    BY <1>1, <1>2 DEF Resources!Release, Resources!Answer
  <2>. QED BY <2>1 DEF Resources!Next, Resources!Status
<1>3. CASE UNCHANGED reply
  <2>1. Resources!Vanish
    BY <1>1, <1>3 DEF Resources!Vanish
  <2>. QED BY <2>1 DEF Resources!Next
<1>. QED BY <1>2, <1>3

\* A failed release keeps devices with their memory, or memory without devices;
\* RELEASE_MEMORY says so, an exiting service retains it silently.
LEMMA AnswerRetained ==
  ASSUME Serving, ~Serving', before.mem # "none",
         before.dev \in [Device -> {"down", "held"}],
         \A d \in Device : DevHeld(d)' => before.dev[d] = "held",
         \/ MemState' = before.mem
         \/ MemState' = "partial" /\ \A d \in Device : ~DevHeld(d)',
         reply' = [op |-> "release", status |-> "quiescence"] \/ UNCHANGED reply
  PROVE  Resources!Next
<1>. DEFINE H == {d \in Device : DevHeld(d)'}
<1>1. H \in SUBSET {d \in Device : before.dev[d] = "held"}
  OBVIOUS
<1>2. DevState' = [d \in Device |-> IF d \in H THEN "held" ELSE "down"]
  BY DEF DevState
<1>3. H = {} => DevState' = Resources!AllDown
  BY <1>2 DEF Resources!AllDown
<1>4. \/ MemState' = before.mem
      \/ H = {} /\ MemState' = "partial"
  OBVIOUS
<1>. HIDE DEF H
<1>5. CASE reply' = [op |-> "release", status |-> "quiescence"]
  <2>1. Resources!Release("quiescence")
    <3>1. CASE H = {}
      <4>1. DevState' = Resources!AllDown /\ MemState' \in {before.mem, "partial"}
        BY <1>3, <1>4, <3>1
      <4>. QED BY <1>5, <4>1 DEF Resources!Release, Resources!Answer
    <3>2. CASE H # {}
      BY <1>1, <1>2, <1>4, <1>5, <3>2 DEF Resources!Release, Resources!Answer
    <3>. QED BY <3>1, <3>2
  <2>. QED BY <2>1 DEF Resources!Next, Resources!Status
<1>6. CASE UNCHANGED reply
  <2>1. Resources!Retain
    BY <1>1, <1>2, <1>4, <1>6 DEF Resources!Retain
  <2>. QED BY <2>1 DEF Resources!Next
<1>. QED BY <1>5, <1>6

\* Whatever is invisible to the session is a stuttering step.
LEMMA Invisible ==
  ASSUME Serving' <=> Serving, UNCHANGED reply,
         Serving => UNCHANGED before, ~Serving => UNCHANGED <<MemState, DevState>>
  PROVE  UNCHANGED Resources!vars
<1>1. CASE Serving
  BY <1>1 DEF Resources!vars
<1>2. CASE ~Serving
  BY <1>2 DEF Resources!vars
<1>. QED BY <1>1, <1>2

\* A step of a release that gives up is the failed release of ClientResources.
LEMMA RefineNotReleased ==
  ASSUME Inv, Link, Serving, op \in Releasing, NotReleased, UNCHANGED <<before, MemState>>,
         \A d \in Device : DevHeld(d)' => DevHeld(d),
         op # "prepare" => before.mem # "none" /\ MemState \in {before.mem, "partial"},
         MemState # "none", MemState # before.mem => \A d \in Device : ~DevHeld(d)'
  PROVE  Resources!Next
<1>1. ~Serving'
  BY DEF NotReleased, Return, Goto, Serving, Releasing
<1>2. CASE op = "prepare"
  <2>1. MemState' = "partial" /\ before.mem = "none" /\ \A d \in Device : ~DevHeld(d)'
    BY <1>2 DEF Link, LinkPrepare, Inv, MemoryOrder, Borrowing, MemState
  <2>2. DevState' = before.dev
    BY <1>2, <2>1 DEF Link, LinkPrepare, DevState
  <2>3. reply' = [op |-> "prepare", status |-> "quiescence"]
    BY <1>2 DEF NotReleased, Return
  <2>. QED BY <1>1, <2>1, <2>2, <2>3, AnswerPrepare
<1>3. CASE op \in {"release", "exit"}
  <2>1. \A d \in Device : DevHeld(d)' => before.dev[d] = "held"
    BY <1>3 DEF Link, LinkRelease
  <2>2. before.dev \in [Device -> {"down", "held"}]
    BY DEF Link
  <2>3. reply' = [op |-> "release", status |-> "quiescence"] \/ UNCHANGED reply
    BY <1>3 DEF NotReleased, Return, Goto
  <2>4. \/ MemState' = before.mem
        \/ MemState' = "partial" /\ \A d \in Device : ~DevHeld(d)'
    BY <1>3
  <2>. QED BY <1>1, <1>3, <2>1, <2>2, <2>3, <2>4, AnswerRetained
<1>. QED BY <1>2, <1>3 DEF Releasing

\* The steps of PREPARE_MEMORY.
LEMMA RefinePrepare ==
  ASSUME Inv, Link, PrepareStep PROVE [Resources!Next]_Resources!vars
<1>1. /\ Serving /\ UNCHANGED before /\ before.mem = "none" /\ DevState' = before.dev
  BY PrepareEffect DEF Link, LinkPrepare, DevState
<1>2. CASE Serving' /\ UNCHANGED reply
  BY <1>1, <1>2, Invisible
<1>3. CASE /\ pc' = "idle" /\ reply' = [op |-> "prepare", status |-> "invalid"]
           /\ MemState' = "none"
  BY <1>1, <1>3, AnswerRefusal DEF Serving
<1>4. CASE /\ pc' = "idle" /\ reply' = [op |-> "prepare", status |-> "ok"]
           /\ MemState' = "ready"
  BY <1>1, <1>4, AnswerPrepare DEF Serving
<1>. QED BY <1>2, <1>3, <1>4, PrepareEffect

\* The steps of ACTIVATE.
LEMMA RefineActivate ==
  ASSUME Inv, Link, ActivateStep PROVE [Resources!Next]_Resources!vars
<1>1. /\ Serving /\ UNCHANGED <<before, MemState>> /\ cur \in Device /\ op = "activate"
      /\ before.mem = "ready" /\ before.dev[cur] = "down"
      /\ before.dev \in [Device -> {"down", "held"}]
  BY ActivateEffect DEF Link, LinkActivate
<1>2. MemState = "ready"
  BY <1>1 DEF Inv, MemoryOrder, MemState
<1>3. \A e \in Device \ {cur} : DevState'[e] = before.dev[e]
  BY <1>1, ActivateEffect DEF Link, LinkActivate, DevState
<1>4. CASE pc' \in ActivatePC \cup {"drain"} /\ UNCHANGED reply
  BY <1>1, <1>4, Invisible DEF Serving, ActivatePC
<1>5. CASE /\ pc' = "idle" /\ reply' = [op |-> "activate", status |-> "ok"]
           /\ DevHeld(cur)'
  <2>1. DevState'[cur] = "held"
    BY <1>1, <1>5, ActivateEffect DEF DevState
  <2>2. ~Serving'
    BY <1>5 DEF Serving
  <2>. QED BY <1>1, <1>2, <1>3, <1>5, <2>1, <2>2, AnswerActivate
<1>. QED BY <1>4, <1>5, ActivateEffect

\* The steps of quiesce_disk and quiesce_network, in whichever operation.
LEMMA RefineQuiesce ==
  ASSUME Inv, Link, QuiesceStep PROVE [Resources!Next]_Resources!vars
<1>1. /\ Serving /\ pc \in QuiescePC /\ cur \in Device /\ op \in Op \ {"none"}
      /\ UNCHANGED <<before, MemState>> /\ before.dev \in [Device -> {"down", "held"}]
  BY QuiesceEffect DEF Link
<1>2. CASE Goto("close")
  BY <1>1, <1>2, Invisible DEF Goto, Serving
<1>3. ASSUME NEW result \in {"no", "yes"}, Quiesced(result),
             result = "yes" => DevHeld(cur) /\ \A d \in Device : DevHeld(d)' <=> DevHeld(d),
             result = "no" => \A d \in Device : DevHeld(d)' <=> DevHeld(d) /\ d # cur
      PROVE  [Resources!Next]_Resources!vars
  <2>1. \A d \in Device : DevState'[d] = IF d = cur THEN (IF result = "yes" THEN "held" ELSE "down")
                                         ELSE DevState[d]
    BY <1>3 DEF DevState
  <2>2. CASE op = "activate"
    <3>1. ~Serving' /\ reply' = [op |-> "activate",
                                 status |-> IF result = "yes" THEN "quiescence" ELSE "failure"]
      BY <1>3, <2>2 DEF Quiesced, Return, Serving
    <3>2. before.mem = "ready" /\ before.dev[cur] = "down"
          /\ \A e \in Device \ {cur} : DevState'[e] = before.dev[e]
      BY <1>1, <2>1, <2>2 DEF Link, LinkActivate
    <3>3. MemState' = "ready"
      BY <1>1, <2>2 DEF Inv, MemoryOrder, MemState
    <3>4. CASE result = "yes"
      BY <1>1, <2>1, <3>1, <3>2, <3>3, <3>4, AnswerActivate
    <3>5. CASE result = "no"
      BY <1>1, <2>1, <3>1, <3>2, <3>3, <3>5, AnswerActivate
    <3>. QED BY <1>3, <3>4, <3>5
  <2>3. CASE op = "reset"
    <3>1. ~Serving' /\ reply' = [op |-> "reset",
                                 status |-> IF result = "yes" THEN "quiescence" ELSE "ok"]
      BY <1>3, <2>3 DEF Quiesced, Return, Serving
    <3>2. /\ before.mem = MemState' /\ (result = "yes" => before.dev[cur] = "held")
          /\ \A e \in Device \ {cur} : DevState'[e] = before.dev[e]
      BY <1>1, <1>3, <2>1, <2>3 DEF Link, LinkReset
    <3>3. CASE result = "yes"
      BY <1>1, <2>1, <3>1, <3>2, <3>3, AnswerReset
    <3>4. CASE result = "no"
      BY <1>1, <2>1, <3>1, <3>2, <3>4, AnswerReset
    <3>. QED BY <1>3, <3>3, <3>4
  <2>4. CASE op \in Releasing
    <3>1. CASE cur = "disk"
      BY <1>1, <1>3, <2>4, <3>1, Invisible DEF Quiesced, Releasing, Serving
    <3>2. CASE cur # "disk" /\ "yes" \notin Collected(result)
      BY <1>1, <1>3, <2>4, <3>2, Invisible DEF Quiesced, Releasing, Goto, Serving
    <3>3. CASE cur # "disk" /\ "yes" \in Collected(result)
      <4>1. NotReleased
        BY <1>3, <2>4, <3>3 DEF Quiesced, Releasing
      <4>2. cur = "net" /\ (failed = "yes" \/ result = "yes")
        BY <1>1, <3>3 DEF Device, Collected
      <4>3. "memory" \in held
        BY <1>1, <1>3, <2>4, <4>2 DEF Inv, Borrowing, Device
      <4>4. MemState = "ready" /\ (op # "prepare" => before.mem = MemState)
        BY <1>1, <2>4, <4>3 DEF MemState, Link, LinkRelease, QuiescePC, Releasing
      <4>5. op # "prepare"
        BY <1>1, <4>3 DEF Inv, MemoryOrder
      <4>6. \A d \in Device : DevHeld(d)' => DevHeld(d)
        BY <1>3
      <4>. QED BY <1>1, <2>4, <4>1, <4>4, <4>5, <4>6, RefineNotReleased
    <3>. QED BY <3>1, <3>2, <3>3
  <2>. QED BY <1>1, <2>2, <2>3, <2>4 DEF Op, Releasing
<1>. QED BY <1>2, <1>3, QuiesceEffect

\* The rest of release_memory.
LEMMA RefineRelease ==
  ASSUME Inv, Link, ReleaseStep PROVE [Resources!Next]_Resources!vars
<1>1. /\ Serving /\ op \in Releasing /\ UNCHANGED <<op, before>> /\ pc \in ReleasePC
      /\ \A d \in Device : ~DevHeld(d) /\ ~DevHeld(d)'
  BY ReleaseEffect DEF ReleaseStep, Munmap, ReleasePages, Proof, ReleasePC
<1>2. CASE pc' \in {"driver", "proof"} /\ UNCHANGED reply
  BY <1>1, <1>2, Invisible DEF Serving
<1>3. CASE /\ NotReleased /\ MemState' = MemState /\ MemState # "none"
           /\ pc = "munmap" \/ MemState = "partial"
  <2>1. op # "prepare" => before.mem # "none" /\ MemState \in {before.mem, "partial"}
    BY <1>1, <1>3 DEF Link, LinkRelease, ReleasePC, Releasing
  <2>. QED BY <1>1, <1>3, <2>1, RefineNotReleased
<1>4. CASE Released /\ MemState' = "none"
  <2>1. ~Serving'
    BY <1>1, <1>4 DEF Released, Return, Goto, Serving, Releasing
  <2>2. CASE op = "prepare"
    <3>1. before.mem = "none" /\ DevState' = before.dev
      BY <1>1, <2>2 DEF Link, LinkPrepare, DevState
    <3>2. reply' = [op |-> "prepare", status |-> "failure"]
      BY <1>4, <2>2 DEF Released, Return
    <3>. QED BY <1>1, <1>4, <2>1, <3>1, <3>2, AnswerPrepare
  <2>3. CASE op \in {"release", "exit"}
    <3>1. reply' = [op |-> "release", status |-> "ok"] \/ UNCHANGED reply
      BY <1>4, <2>3 DEF Released, Return, Goto
    <3>. QED BY <1>1, <1>4, <2>1, <3>1, AnswerReleased
  <2>. QED BY <1>1, <2>2, <2>3 DEF Releasing
<1>. QED BY <1>2, <1>3, <1>4, ReleaseEffect

\* A request refused at once is the refusal of ClientResources; accepting one is
\* invisible until it is answered.
LEMMA RefineRequest ==
  ASSUME Inv, Request PROVE [Resources!Next]_Resources!vars
<1>1. ASSUME NEW o \in {"prepare", "activate", "reset"}, NEW s \in {"unsupported", "invalid", "busy"},
             pc = "idle", Refuse(o, s)
      PROVE  Resources!Next
  <2>1. ~Serving /\ ~Serving' /\ UNCHANGED <<MemState, DevState>>
        /\ reply' = [op |-> o, status |-> s]
    BY <1>1 DEF Refuse, Serving, thread, endpoints, store, MemState, DevState, DevHeld
  <2>2. Resources!Refuse(o, s)
    BY <2>1 DEF Resources!Refuse, Resources!Answer, Resources!Refusal, Resources!resources
  <2>. QED BY <2>2 DEF Resources!Next, Resources!Refusal
<1>2. ASSUME NEW o, NEW label \in {"open", "admit", "configure", "drain"}, NEW d,
             pc = "idle", Accept(o, label, d)
      PROVE  UNCHANGED Resources!vars
  <2>1. ~Serving /\ Serving' /\ UNCHANGED reply
        /\ before' = [mem |-> MemState, dev |-> DevState]
    BY <1>2 DEF Accept, Serving, Snapshot
  <2>. QED BY <2>1 DEF Resources!vars
<1>3. CASE PrepareRefused \/ \E d \in Device : ActivateRefused(d) \/ ResetRefused(d)
  BY <1>1, <1>3 DEF PrepareRefused, ActivateRefused, ResetRefused
<1>4. CASE \E t \in Region : Prepare(t)
  BY <1>2, <1>4 DEF Prepare
<1>5. CASE \E d \in Device : Activate(d) \/ Reset(d)
  BY <1>2, <1>5 DEF Activate, Reset
<1>6. CASE Release \/ Exit
  BY <1>2, <1>6 DEF Release, Exit
<1>. QED BY <1>3, <1>4, <1>5, <1>6 DEF Request

\* Every step is one step of ClientResources, or invisible.
LEMMA RefineNext == Inv /\ Link /\ [Next]_vars => [Resources!Next]_Resources!vars
<1>. SUFFICES ASSUME Inv, Link, [Next]_vars PROVE [Resources!Next]_Resources!vars
  OBVIOUS
<1>1. CASE Request
  BY <1>1, RefineRequest
<1>2. CASE ServiceStep
  BY <1>2, RefinePrepare, RefineActivate, RefineQuiesce, RefineRelease DEF ServiceStep
<1>3. CASE Crash
  <2>1. MemState' = "none" /\ DevState' = Resources!AllDown /\ ~Serving' /\ UNCHANGED reply
    BY <1>3 DEF Crash, MemState, DevState, DevHeld, Serving, Resources!AllDown
  <2>2. Resources!Vanish
    BY <2>1 DEF Resources!Vanish
  <2>. QED BY <2>2 DEF Resources!Next
<1>4. CASE UNCHANGED vars \/ \E d \in Device : Transfer(d) \/ Complete(d)
  <2>1. UNCHANGED <<thread, endpoints, store, reply, before>>
    BY <1>4 DEF vars, Transfer, Complete
  <2>2. (Serving' <=> Serving) /\ UNCHANGED <<MemState, DevState>>
    BY <2>1 DEF Serving, MemState, DevState, DevHeld, thread, endpoints, store
  <2>. QED BY <2>1, <2>2, Invisible
<1>. QED BY <1>1, <1>2, <1>3, <1>4 DEF Next

\* Every handler, with all its failures and the death of the process, looks to
\* the session like one atomic operation of ClientResources: Backend implements
\* ClientResources under the mapping of Resources.
THEOREM HandlersAtomic == Spec => AtomicOperations
<1>1. Init => Link
  <2>. SUFFICES ASSUME Init PROVE Link
    OBVIOUS
  <2>1. ~Serving /\ before = [mem |-> MemState, dev |-> DevState]
    BY DEF Init, Serving, Snapshot
  <2>. QED BY <2>1, StateTypes DEF Link, LinkPrepare, LinkActivate, LinkReset, LinkRelease
<1>2. Init => Resources!Init
  BY DEF Init, Resources!Init, Resources!AllDown, Serving, MemState, DevState, DevHeld
<1>. QED BY <1>1, <1>2, InitInv, NextInv, LinkNext, RefineNext, PTL
       DEF Spec, AtomicOperations, Resources!Spec
=============================================================================
