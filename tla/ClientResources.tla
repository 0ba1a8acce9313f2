--------------------------- MODULE ClientResources ---------------------------
(***************************************************************************)
(* What one client's backend promises to the control session: every       *)
(* operation is atomic, answers with a status, and the status says what    *)
(* became of the client's memory and of its devices.  backend.h states the *)
(* ownership rule: "One client owns memory; devices may only borrow it     *)
(* until their drain."                                                     *)
(*                                                                         *)
(* Backend implements this specification with one step per system call;    *)
(* ControlSession uses it as the backend behind the protocol.              *)
(***************************************************************************)
EXTENDS Naturals

CONSTANT Device   \* the devices of the client: storage, network or both

VARIABLES
  mem,    \* none; ready: mapped and usable; partial: half torn down
  dev,    \* down: drained and closed; held: anything of the device remains
  reply   \* the last operation and its status

resources == <<mem, dev>>
vars == <<mem, dev, reply>>

Operation == {"none", "hello", "prepare", "activate", "reset", "release", "other"}
Status == {"none", "ok", "unsupported", "invalid", "busy", "failure", "quiescence"}
Refusal == {"unsupported", "invalid", "busy"}

TypeOK ==
  /\ mem \in {"none", "ready", "partial"}
  /\ dev \in [Device -> {"down", "held"}]
  /\ reply \in [op : Operation, status : Status]

AllDown == [d \in Device |-> "down"]

\* Nothing of the client is held: the condition for a new binding.
Idle == mem = "none" /\ dev = AllDown

Init ==
  /\ mem = "none"
  /\ dev = AllDown
  /\ reply = [op |-> "none", status |-> "none"]

Answer(o, s) == reply' = [op |-> o, status |-> s]

\* An operation refused by its checks has changed nothing.
Refuse(o, s) ==
  /\ o \in {"prepare", "activate", "reset"} /\ s \in Refusal
  /\ Answer(o, s)
  /\ UNCHANGED resources

\* PREPARE_MEMORY starts from nothing and ends in a mapping, in nothing, or in
\* a rollback that could not be completed.
Prepare(s) ==
  /\ mem = "none"
  /\ \/ s = "ok" /\ mem' = "ready"
     \/ s = "failure" /\ mem' = "none"
     \/ s = "quiescence" /\ mem' = "partial"
  /\ Answer("prepare", s)
  /\ UNCHANGED dev

\* ACTIVATE and NETWORK_ACTIVATE of a device that is down, with memory ready.
Activate(d, s) ==
  /\ mem = "ready" /\ dev[d] = "down"
  /\ \/ s \in {"ok", "quiescence"} /\ dev' = [dev EXCEPT ![d] = "held"]
     \/ s = "failure" /\ UNCHANGED dev
  /\ Answer("activate", s)
  /\ UNCHANGED mem

\* RESET and STOP_QUEUE: the device alone, success also when it is down.
Reset(d, s) ==
  /\ \/ s = "ok" /\ dev' = [dev EXCEPT ![d] = "down"]
     \/ s = "quiescence" /\ dev[d] = "held" /\ UNCHANGED dev
  /\ Answer("reset", s)
  /\ UNCHANGED mem

\* RELEASE_MEMORY: everything is gone, or the failure left some devices held
\* with the memory untouched, or left no device and less memory than before.
Release(s) ==
  /\ \/ s = "ok" /\ mem' = "none" /\ dev' = AllDown
     \/ /\ s = "quiescence"
        /\ mem # "none"
        /\ \/ /\ \E H \in (SUBSET {d \in Device : dev[d] = "held"}) \ {{}} :
                   dev' = [d \in Device |-> IF d \in H THEN "held" ELSE "down"]
              /\ mem' = mem
           \/ /\ dev' = AllDown
              /\ mem' \in {mem, "partial"}
  /\ Answer("release", s)

\* The process is gone; the kernel closed what it held.
Vanish ==
  /\ mem' = "none"
  /\ dev' = AllDown
  /\ UNCHANGED reply

\* The final release of an exiting service fails: it keeps what is left and
\* answers nobody.
Retain ==
  /\ mem # "none"
  /\ \E H \in SUBSET {d \in Device : dev[d] = "held"} :
       /\ dev' = [d \in Device |-> IF d \in H THEN "held" ELSE "down"]
       /\ mem' \in IF H = {} THEN {mem, "partial"} ELSE {mem}
  /\ UNCHANGED reply

Next ==
  \/ \E s \in Refusal, o \in {"prepare", "activate", "reset"} : Refuse(o, s)
  \/ \E s \in Status : Prepare(s)
  \/ \E s \in Status, d \in Device : Activate(d, s) \/ Reset(d, s)
  \/ \E s \in Status : Release(s)
  \/ Vanish
  \/ Retain

Spec == Init /\ [][Next]_vars
=============================================================================
