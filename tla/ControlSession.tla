--------------------------- MODULE ControlSession ---------------------------
(***************************************************************************)
(* The control service of one managed client: serve and dispatch in        *)
(* hyper-io-service.c and the session rules of hyper_io_session.h.         *)
(*                                                                         *)
(* The host side of the mailbox may repeat, delay or reorder records, and  *)
(* keep sending those of an older binding or device epoch: any record may  *)
(* arrive at any time.  A record is answered before the next is read, so   *)
(* one iteration of serve is one step.  The backend behind dispatch is     *)
(* ClientResources, which Backend implements.                              *)
(***************************************************************************)
EXTENDS Naturals

CONSTANTS
  Binding, Epoch, Transaction,   \* the numbers records carry, all nonzero
  Primary,                       \* device whose HELLO opens a binding
  NoRecord                       \* nothing cached

Device == {"disk", "net"}

ASSUME NumbersPositive ==
  Binding \subseteq Nat \ {0} /\ Epoch \subseteq Nat \ {0} /\ Transaction \subseteq Nat \ {0}
ASSUME PrimaryDevice == Primary \in Device

VARIABLES
  binding, epoch, retired,   \* struct hyper_io_session
  last,                      \* last_transaction
  previous,                  \* the record last executed, with its reply
  mem, dev,                  \* the backend, see ClientResources
  reply,                     \* the operation answered last, and the status sent
  serving,                   \* whether the loop of serve still runs
  runs,                      \* history: executions of each <<binding, transaction>>
  owner                      \* history: binding that prepared what mem holds

Resources == INSTANCE ClientResources

session == <<binding, epoch, retired, last, previous>>
backend == <<mem, dev>>
vars == <<session, backend, reply, serving, runs, owner>>

\* PREPARE_MEMORY and RELEASE_MEMORY carry the epoch of the primary device;
\* "other" is an unknown operation or a known one of the wrong size.
Request ==
  {[op |-> o, dev |-> d] : o \in {"hello", "activate", "reset", "other"}, d \in Device}
    \cup {[op |-> o, dev |-> Primary] : o \in {"prepare", "release"}}

Record == [req : Request, binding : Binding, epoch : Epoch, transaction : Transaction]

Answered == [record : Record, status : Resources!Status]

TypeOK ==
  /\ binding \in Binding \cup {0}
  /\ epoch \in [Device -> Epoch \cup {0}]
  /\ retired \in {"no", "yes"}
  /\ last \in Transaction \cup {0}
  /\ previous \in Answered \cup {NoRecord}
  /\ Resources!TypeOK
  /\ serving \in {"yes", "no"}
  /\ runs \in [Binding \X Transaction -> Nat]
  /\ owner \in Binding \cup {0}

Init ==
  /\ binding = 0
  /\ epoch = [d \in Device |-> 0]
  /\ retired = "no"
  /\ last = 0
  /\ previous = NoRecord
  /\ Resources!Init
  /\ serving = "yes"
  /\ runs = [k \in Binding \X Transaction |-> 0]
  /\ owner = 0

-----------------------------------------------------------------------------
(* hyper_io_session_admit.                                                 *)

\* Faulty variant: any other binding replaces the current one.
OpensAny(m) ==
  /\ m.binding # binding
  /\ m.req = [op |-> "hello", dev |-> Primary]
  /\ Resources!Idle

\* Faulty variant: a new binding does not wait for the old one's resources.
OpensBusy(m) ==
  /\ m.binding > binding
  /\ m.req = [op |-> "hello", dev |-> Primary]

\* The primary HELLO of a newer binding opens it, if nothing is held.
Opens(m) ==
  /\ m.binding > binding
  /\ m.req = [op |-> "hello", dev |-> Primary]
  /\ Resources!Idle

\* Faulty variant: an epoch must be new, as if every record were a reset.
CurrentStrict(m) == m.binding = binding /\ m.epoch > epoch[m.req.dev]

\* Faulty variant: the epoch is not looked at.
CurrentAnyEpoch(m) == m.binding = binding

\* A record of the open binding, not older than its device's epoch.
Current(m) == m.binding = binding /\ m.epoch >= epoch[m.req.dev]

\* A transaction not executed in this binding.
Fresh(m) == m.transaction > last

\* hyper_io_session_preparable.
Preparable == binding # 0 /\ retired = "no"

-----------------------------------------------------------------------------
(* serve.                                                                  *)

\* The reply goes, with the record, into the cache; the epoch and the
\* transaction count as seen whatever the status.
Commit(m, status) ==
  /\ last' = m.transaction
  /\ previous' = [record |-> m, status |-> status]
  /\ runs' = [runs EXCEPT ![<<m.binding, m.transaction>>] = @ + 1]
  /\ UNCHANGED serving

\* A record admitted into the open binding and not executed before.
Admitted(m) == serving = "yes" /\ Current(m) /\ Fresh(m)

Execute(m, status) ==
  /\ Commit(m, status)
  /\ epoch' = [epoch EXCEPT ![m.req.dev] = m.epoch]
  /\ UNCHANGED binding

\* A HELLO opens a new binding and is then dispatched like any other.
Open(m) ==
  /\ serving = "yes"
  /\ Opens(m)
  /\ binding' = m.binding
  /\ epoch' = [d \in Device |-> IF d = m.req.dev THEN m.epoch ELSE 0]
  /\ retired' = "no"
  /\ \E status \in {"ok", "busy", "unsupported"} :
       Commit(m, status) /\ Resources!Answer("hello", status)
  /\ UNCHANGED <<backend, owner>>

\* A HELLO inside the binding: the device's features, or not ready.
Hello(m) ==
  /\ Admitted(m) /\ Preparable
  /\ m.req.op = "hello"
  /\ \E status \in {"ok", "busy", "unsupported"} :
       Execute(m, status) /\ Resources!Answer("hello", status)
  /\ UNCHANGED <<backend, owner, retired>>

\* PREPARE_MEMORY, executed or refused by prepare_memory.
Prepare(m) ==
  /\ Admitted(m) /\ Preparable
  /\ m.req.op = "prepare"
  /\ \E status \in Resources!Status :
       /\ \/ Resources!Prepare(status)
          \/ status = "busy" /\ mem # "none" /\ Resources!Refuse("prepare", status)
          \/ status = "invalid" /\ mem = "none" /\ Resources!Refuse("prepare", status)
       /\ Execute(m, status)
  /\ owner' = IF mem' # mem THEN binding ELSE owner
  /\ UNCHANGED retired

\* ACTIVATE and NETWORK_ACTIVATE, executed or refused.
Activate(m) ==
  /\ Admitted(m) /\ Preparable
  /\ m.req.op = "activate"
  /\ \E status \in Resources!Status :
       /\ Resources!Activate(m.req.dev, status) \/ Resources!Refuse("activate", status)
       /\ Execute(m, status)
  /\ UNCHANGED <<owner, retired>>

\* RESET and STOP_QUEUE of either device.
Reset(m) ==
  /\ Admitted(m) /\ Preparable
  /\ m.req.op = "reset"
  /\ \E status \in Resources!Status :
       /\ \/ Resources!Reset(m.req.dev, status)
          \/ status # "busy" /\ Resources!Refuse("reset", status)
       /\ Execute(m, status)
  /\ UNCHANGED <<owner, retired>>

\* RELEASE_MEMORY is dispatched before the preparable test; success retires the
\* binding.
Release(m) ==
  /\ Admitted(m)
  /\ m.req.op = "release"
  /\ \E status \in Resources!Status :
       /\ Resources!Release(status)
       /\ Execute(m, status)
       /\ retired' = IF status = "ok" THEN "yes" ELSE retired
  /\ UNCHANGED owner

\* What dispatch does not understand is answered, cached and counted too.
Other(m) ==
  /\ Admitted(m) /\ Preparable
  /\ m.req.op = "other"
  /\ \E status \in {"unsupported", "invalid"} :
       Execute(m, status) /\ Resources!Answer("other", status)
  /\ UNCHANGED <<backend, owner, retired>>

\* Anything else in a binding that is retired is invalid, and cached as such.
AfterRetirement(m) ==
  /\ Admitted(m) /\ ~Preparable
  /\ m.req.op # "release"
  /\ Execute(m, "invalid") /\ Resources!Answer(m.req.op, "invalid")
  /\ UNCHANGED <<backend, owner, retired>>

\* The record executed last, byte for byte: the cached reply, nothing else.
IsRepeat(m) == previous # NoRecord /\ previous.record = m

Repeat(m) ==
  /\ serving = "yes"
  /\ Current(m) /\ ~Fresh(m) /\ IsRepeat(m)
  /\ Resources!Answer(m.req.op, previous.status)
  /\ UNCHANGED <<session, backend, serving, runs, owner>>

\* Everything else is answered INVALID and leaves no trace.
Reject(m) ==
  /\ serving = "yes"
  /\ ~Opens(m)
  /\ ~(Current(m) /\ (Fresh(m) \/ IsRepeat(m)))
  /\ Resources!Answer(m.req.op, "invalid")
  /\ UNCHANGED <<session, backend, serving, runs, owner>>

\* The control endpoint closes, a malformed record arrives or a signal does:
\* serve returns and main releases everything or retains what it must.
Finish ==
  /\ serving = "yes"
  /\ serving' = "no"
  /\ Resources!Vanish \/ Resources!Retain
  /\ UNCHANGED <<session, runs, owner>>

Serve(m) ==
  \/ Open(m) \/ Hello(m) \/ Prepare(m) \/ Activate(m) \/ Reset(m) \/ Release(m)
  \/ Other(m) \/ AfterRetirement(m) \/ Repeat(m) \/ Reject(m)

Next == (\E m \in Record : Serve(m)) \/ Finish

Spec == Init /\ [][Next]_vars

-----------------------------------------------------------------------------
(* Properties.                                                             *)

\* No transaction of any binding is executed twice, whatever is repeated,
\* delayed or reordered and however many bindings have come and gone.
AtMostOnce == \A k \in Binding \X Transaction : runs[k] <= 1

\* What is held was prepared in the binding that is open: nothing of an older
\* binding survives into a newer one.
ResourcesOwned == mem # "none" => owner = binding

\* A retired binding holds nothing and nothing is prepared in it again.
RetiredHoldsNothing == retired = "yes" /\ serving = "yes" => Resources!Idle

\* Sending the last executed record again always reaches the cached reply: it
\* is neither refused as stale or foreign nor executed again.
RepeatRecognised ==
  previous # NoRecord => Current(previous.record) /\ ~Fresh(previous.record)

\* Bindings only grow, and within a binding so does each device's epoch; a
\* record of an older binding or epoch never moves the session back.
SessionMonotone ==
  [][/\ binding' >= binding
     /\ binding' = binding => \A d \in Device : epoch'[d] >= epoch[d]]_vars
=============================================================================
