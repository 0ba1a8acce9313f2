------------------------ MODULE ControlSessionProofs ------------------------
(***************************************************************************)
(* Proofs about ControlSession for every set of bindings, epochs and       *)
(* transaction numbers: what is executed is executed once, what is held    *)
(* belongs to the open binding, and the session never moves back.          *)
(***************************************************************************)
EXTENDS ControlSession, TLAPS

\* Whatever was executed lies behind the session: in an older binding, or in
\* the open one at or before the last transaction.  This is why comparing with
\* one number is enough to execute every record at most once.
RunsBehind ==
  \A b \in Binding, x \in Transaction :
    runs[<<b, x>>] > 0 => b < binding \/ (b = binding /\ x <= last)

Inv ==
  /\ TypeOK
  /\ AtMostOnce
  /\ RunsBehind
  /\ ResourcesOwned
  /\ RetiredHoldsNothing
  /\ RepeatRecognised

-----------------------------------------------------------------------------
(* Shapes of steps.                                                        *)

\* The fields of a record have the types the session compares.
LEMMA RecordFields ==
  ASSUME NEW m \in Record
  PROVE  /\ m.req.dev \in Device
         /\ m.binding \in Binding /\ m.binding \in Nat /\ m.binding # 0
         /\ m.epoch \in Epoch /\ m.epoch \in Nat
         /\ m.transaction \in Transaction /\ m.transaction \in Nat
<1>1. m.req \in Request /\ m.binding \in Binding /\ m.epoch \in Epoch
      /\ m.transaction \in Transaction
  BY DEF Record
<1>2. m.req.dev \in Device
  BY <1>1, PrimaryDevice DEF Request
<1> QED
  BY <1>1, <1>2, NumbersPositive

\* The session's numbers are natural.
LEMMA SessionNumbers ==
  ASSUME TypeOK
  PROVE  binding \in Nat /\ last \in Nat /\ \A d \in Device : epoch[d] \in Nat
<1>1. binding \in Binding \cup {0} /\ last \in Transaction \cup {0}
      /\ epoch \in [Device -> Epoch \cup {0}]
  BY DEF TypeOK
<1>2. binding \in Nat /\ last \in Nat
  BY <1>1, NumbersPositive
<1>3. Epoch \cup {0} \subseteq Nat
  BY NumbersPositive
<1>4. \A d \in Device : epoch[d] \in Nat
  BY <1>1, <1>3
<1> QED
  BY <1>2, <1>4

\* Executing a record that is ahead of the session (of a newer binding, or of
\* the open one with a larger transaction) counts it once and moves the
\* session to it.
LEMMA CommitAhead ==
  ASSUME TypeOK, AtMostOnce, RunsBehind,
         NEW m \in Record, NEW status, Commit(m, status),
         binding' = m.binding,
         m.binding > binding \/ (m.binding = binding /\ m.transaction > last)
  PROVE  AtMostOnce' /\ RunsBehind'
<1> DEFINE k == <<m.binding, m.transaction>>
<1>1. k \in Binding \X Transaction
  BY RecordFields
<1>2. runs[k] = 0
  <2>1. runs[k] \in Nat
    BY <1>1 DEF TypeOK
  <2>2. ~(runs[k] > 0)
    BY RecordFields, SessionNumbers DEF RunsBehind
  <2> QED
    BY <2>1, <2>2
<1>3. \A j \in Binding \X Transaction : runs'[j] = IF j = k THEN 1 ELSE runs[j]
  BY <1>1, <1>2 DEF TypeOK, Commit
<1>4. AtMostOnce'
  BY <1>3 DEF AtMostOnce
<1>5. ASSUME NEW b \in Binding, NEW x \in Transaction, runs'[<<b, x>>] > 0
      PROVE  b < binding' \/ (b = binding' /\ x <= last')
  <2>1. last' = m.transaction
    BY DEF Commit
  <2>2. CASE <<b, x>> = k
    <3>1. b = m.binding /\ x = m.transaction
      BY <2>2
    <3> QED
      BY <3>1, <2>1, RecordFields
  <2>3. CASE <<b, x>> # k
    <3>1. runs[<<b, x>>] > 0
      BY <1>3, <1>5, <2>3
    <3>2. b < binding \/ (b = binding /\ x <= last)
      BY <3>1 DEF RunsBehind
    <3>3. b \in Nat /\ x \in Nat
      BY NumbersPositive
    <3> QED
      BY <3>2, <3>3, <2>1, RecordFields, SessionNumbers
  <2> QED
    BY <2>2, <2>3
<1> QED
  BY <1>4, <1>5 DEF RunsBehind

\* A record executed in the open binding keeps the types of the session, and
\* is recognised when it is sent again.
LEMMA ExecuteStep ==
  ASSUME TypeOK, AtMostOnce, RunsBehind,
         NEW m \in Record, NEW status \in Resources!Status,
         Admitted(m), Execute(m, status)
  PROVE  /\ binding' \in Binding \cup {0} /\ binding' = binding
         /\ epoch' \in [Device -> Epoch \cup {0}]
         /\ last' \in Transaction \cup {0}
         /\ previous' \in Answered \cup {NoRecord}
         /\ serving' = serving /\ serving = "yes"
         /\ runs' \in [Binding \X Transaction -> Nat]
         /\ AtMostOnce' /\ RunsBehind' /\ RepeatRecognised'
<1>1. binding' = binding /\ m.binding = binding /\ m.transaction > last
  BY DEF Admitted, Execute, Current, Fresh
<1>2. AtMostOnce' /\ RunsBehind'
  BY <1>1, CommitAhead DEF Execute
<1>3. epoch' \in [Device -> Epoch \cup {0}] /\ epoch'[m.req.dev] = m.epoch
  BY RecordFields DEF Execute, TypeOK
<1>4. previous' = [record |-> m, status |-> status] /\ last' = m.transaction
      /\ serving' = serving
  BY DEF Execute, Commit
<1>5. RepeatRecognised'
  BY <1>1, <1>3, <1>4, RecordFields DEF RepeatRecognised, Current, Fresh
<1>6. runs' \in [Binding \X Transaction -> Nat]
  BY RecordFields DEF Execute, Commit, TypeOK
<1> QED
  BY <1>1, <1>2, <1>3, <1>4, <1>5, <1>6, RecordFields
     DEF TypeOK, Answered, Admitted

\* So does the HELLO that opens a binding; every other epoch starts at zero.
LEMMA OpenStep ==
  ASSUME Inv, NEW m \in Record, Open(m)
  PROVE  Inv'
<1>1. PICK status \in {"ok", "busy", "unsupported"} :
        Commit(m, status) /\ Resources!Answer("hello", status)
  BY DEF Open
<1>2. binding' = m.binding /\ m.binding > binding
  BY DEF Open, Opens
<1>3. epoch' \in [Device -> Epoch \cup {0}] /\ epoch'[m.req.dev] = m.epoch
  BY RecordFields DEF Open
<1>4. AtMostOnce' /\ RunsBehind'
  BY <1>1, <1>2, CommitAhead DEF Inv
<1>5. previous' = [record |-> m, status |-> status] /\ last' = m.transaction
      /\ serving' = serving
  BY <1>1 DEF Commit
<1>6. RepeatRecognised'
  BY <1>2, <1>3, <1>5, RecordFields DEF RepeatRecognised, Current, Fresh
<1>7. mem' = mem /\ dev' = dev /\ owner' = owner /\ retired' = "no" /\ mem = "none"
  BY DEF Open, Opens, backend, Resources!Idle
<1>8. TypeOK'
  <2>1. Resources!TypeOK'
    BY <1>1, <1>7 DEF Inv, TypeOK, Resources!TypeOK, Resources!Answer,
                      Resources!Operation, Resources!Status
  <2>2. runs' \in [Binding \X Transaction -> Nat]
    BY <1>1, RecordFields DEF Inv, Commit, TypeOK
  <2>3. previous' \in Answered
    BY <1>5 DEF Answered, Resources!Status
  <2> QED
    BY <2>1, <2>2, <2>3, <1>2, <1>3, <1>5, <1>7, RecordFields DEF Inv, TypeOK
<1>9. ResourcesOwned' /\ RetiredHoldsNothing'
  BY <1>7 DEF ResourcesOwned, RetiredHoldsNothing
<1> QED
  BY <1>4, <1>6, <1>8, <1>9 DEF Inv

-----------------------------------------------------------------------------
(* The inductive invariant.                                                *)

\* The invariant holds before the first record: nothing was executed or prepared.
LEMMA InitInv == Init => Inv
<1> SUFFICES ASSUME Init PROVE Inv
  OBVIOUS
<1>1. TypeOK
  BY DEF Init, TypeOK, Resources!Init, Resources!TypeOK, Resources!AllDown,
         Resources!Operation, Resources!Status
<1>2. \A k \in Binding \X Transaction : runs[k] = 0
  BY DEF Init
<1>3. AtMostOnce /\ RunsBehind
  BY <1>2 DEF AtMostOnce, RunsBehind
<1>4. ResourcesOwned /\ RetiredHoldsNothing /\ RepeatRecognised
  BY DEF Init, Resources!Init, ResourcesOwned, RetiredHoldsNothing, RepeatRecognised
<1> QED
  BY <1>1, <1>3, <1>4 DEF Inv

\* Every operation of dispatch, and the end of serve, keeps the invariant.
LEMMA NextInv == Inv /\ [Next]_vars => Inv'
<1> SUFFICES ASSUME Inv, [Next]_vars PROVE Inv'
  OBVIOUS
<1> USE DEF Inv
<1>1. ASSUME NEW m \in Record, Open(m) PROVE Inv'
  BY <1>1, OpenStep
<1>2. ASSUME NEW m \in Record, Hello(m) PROVE Inv'
  <2>1. PICK status \in {"ok", "busy", "unsupported"} :
          Execute(m, status) /\ Resources!Answer("hello", status)
    BY <1>2 DEF Hello
  <2>2. status \in Resources!Status
    BY DEF Resources!Status
  <2>3. Admitted(m) /\ mem' = mem /\ dev' = dev /\ owner' = owner
        /\ retired' = retired /\ retired = "no"
    BY <1>2 DEF Hello, backend, Preparable
  <2>4. Resources!TypeOK'
    BY <2>1, <2>3 DEF TypeOK, Resources!TypeOK, Resources!Answer,
                      Resources!Operation, Resources!Status
  <2> QED
    BY <2>1, <2>2, <2>3, <2>4, ExecuteStep DEF TypeOK, ResourcesOwned, RetiredHoldsNothing
<1>3. ASSUME NEW m \in Record, Prepare(m) PROVE Inv'
  <2>1. PICK status \in Resources!Status :
          /\ Resources!Prepare(status) \/ Resources!Refuse("prepare", status)
          /\ Execute(m, status)
    BY <1>3 DEF Prepare
  <2>2. Admitted(m) /\ retired' = retired /\ retired = "no"
        /\ owner' = IF mem' # mem THEN binding ELSE owner
    BY <1>3 DEF Prepare, Preparable
  <2>3. Resources!TypeOK'
    BY <2>1 DEF TypeOK, Resources!TypeOK, Resources!Prepare, Resources!Refuse,
                Resources!resources, Resources!Answer, Resources!Operation, Resources!Status
  <2>4. owner' \in Binding \cup {0}
    BY <2>2 DEF TypeOK
  <2>5. binding' = binding
    BY <2>1 DEF Execute
  <2>6. ResourcesOwned'
    BY <2>2, <2>5 DEF ResourcesOwned
  <2> QED
    BY <2>1, <2>2, <2>3, <2>4, <2>6, ExecuteStep DEF TypeOK, RetiredHoldsNothing
<1>4. ASSUME NEW m \in Record, Activate(m) PROVE Inv'
  <2>1. PICK status \in Resources!Status :
          /\ Resources!Activate(m.req.dev, status) \/ Resources!Refuse("activate", status)
          /\ Execute(m, status)
    BY <1>4 DEF Activate
  <2>2. Admitted(m) /\ retired' = retired /\ retired = "no" /\ owner' = owner
    BY <1>4 DEF Activate, Preparable
  <2>3. Resources!TypeOK' /\ mem' = mem
    BY <2>1, RecordFields
       DEF TypeOK, Resources!TypeOK, Resources!Activate, Resources!Refuse,
           Resources!resources, Resources!Answer, Resources!Operation, Resources!Status
  <2>4. binding' = binding
    BY <2>1 DEF Execute
  <2> QED
    BY <2>1, <2>2, <2>3, <2>4, ExecuteStep DEF TypeOK, ResourcesOwned, RetiredHoldsNothing
<1>5. ASSUME NEW m \in Record, Reset(m) PROVE Inv'
  <2>1. PICK status \in Resources!Status :
          /\ Resources!Reset(m.req.dev, status) \/ Resources!Refuse("reset", status)
          /\ Execute(m, status)
    BY <1>5 DEF Reset
  <2>2. Admitted(m) /\ retired' = retired /\ retired = "no" /\ owner' = owner
    BY <1>5 DEF Reset, Preparable
  <2>3. Resources!TypeOK' /\ mem' = mem
    BY <2>1, RecordFields
       DEF TypeOK, Resources!TypeOK, Resources!Reset, Resources!Refuse,
           Resources!resources, Resources!Answer, Resources!Operation, Resources!Status
  <2>4. binding' = binding
    BY <2>1 DEF Execute
  <2> QED
    BY <2>1, <2>2, <2>3, <2>4, ExecuteStep DEF TypeOK, ResourcesOwned, RetiredHoldsNothing
<1>6. ASSUME NEW m \in Record, Release(m) PROVE Inv'
  <2>1. PICK status \in Resources!Status :
          /\ Resources!Release(status)
          /\ Execute(m, status)
          /\ retired' = IF status = "ok" THEN "yes" ELSE retired
    BY <1>6 DEF Release
  <2>2. Admitted(m) /\ owner' = owner
    BY <1>6 DEF Release
  <2>3. Resources!TypeOK' /\ (mem' # "none" => mem # "none")
    BY <2>1 DEF TypeOK, Resources!TypeOK, Resources!Release, Resources!AllDown,
                Resources!Answer, Resources!Operation, Resources!Status
  <2>4. binding' = binding
    BY <2>1 DEF Execute
  <2>5. ResourcesOwned'
    BY <2>2, <2>3, <2>4 DEF ResourcesOwned
  <2>6. RetiredHoldsNothing'
    <3>1. CASE status = "ok"
      BY <3>1, <2>1 DEF RetiredHoldsNothing, Resources!Release, Resources!Idle,
                        Resources!AllDown
    <3>2. CASE status # "ok"
      BY <3>2, <2>1, <2>2 DEF RetiredHoldsNothing, Resources!Release, Resources!Idle,
                              Admitted
    <3> QED
      BY <3>1, <3>2
  <2>7. retired' \in {"no", "yes"}
    BY <2>1 DEF TypeOK
  <2> QED
    BY <2>1, <2>2, <2>3, <2>5, <2>6, <2>7, ExecuteStep DEF TypeOK
<1>7. ASSUME NEW m \in Record, Other(m) PROVE Inv'
  <2>1. PICK status \in {"unsupported", "invalid"} :
          Execute(m, status) /\ Resources!Answer("other", status)
    BY <1>7 DEF Other
  <2>2. status \in Resources!Status
    BY DEF Resources!Status
  <2>3. Admitted(m) /\ mem' = mem /\ dev' = dev /\ owner' = owner
        /\ retired' = retired /\ retired = "no"
    BY <1>7 DEF Other, backend, Preparable
  <2>4. Resources!TypeOK'
    BY <2>1, <2>3 DEF TypeOK, Resources!TypeOK, Resources!Answer,
                      Resources!Operation, Resources!Status
  <2> QED
    BY <2>1, <2>2, <2>3, <2>4, ExecuteStep DEF TypeOK, ResourcesOwned, RetiredHoldsNothing
<1>8. ASSUME NEW m \in Record, AfterRetirement(m) PROVE Inv'
  <2>1. Admitted(m) /\ Execute(m, "invalid") /\ Resources!Answer(m.req.op, "invalid")
        /\ mem' = mem /\ dev' = dev /\ owner' = owner /\ retired' = retired
    BY <1>8 DEF AfterRetirement, backend
  <2>2. "invalid" \in Resources!Status
    BY DEF Resources!Status
  <2>3. m.req.op \in Resources!Operation
    BY DEF Record, Request, Resources!Operation
  <2>4. Resources!TypeOK'
    BY <2>1, <2>2, <2>3 DEF TypeOK, Resources!TypeOK, Resources!Answer
  <2>5. binding' = binding /\ serving' = serving
    BY <2>1 DEF Execute, Commit
  <2>6. RetiredHoldsNothing' /\ ResourcesOwned'
    BY <2>1, <2>5 DEF RetiredHoldsNothing, ResourcesOwned, Resources!Idle, Resources!AllDown
  <2> QED
    BY <2>1, <2>2, <2>4, <2>6, ExecuteStep DEF TypeOK
<1>9. ASSUME NEW m \in Record, Repeat(m) \/ Reject(m) PROVE Inv'
  <2>1. /\ UNCHANGED <<session, backend, serving, runs, owner>>
        /\ \/ Resources!Answer(m.req.op, "invalid")
           \/ previous # NoRecord /\ Resources!Answer(m.req.op, previous.status)
    BY <1>9 DEF Repeat, Reject, IsRepeat
  <2>2. m.req.op \in Resources!Operation
    BY DEF Record, Request, Resources!Operation
  <2>3. reply' \in [op : Resources!Operation, status : Resources!Status]
    <3>1. CASE Resources!Answer(m.req.op, "invalid")
      BY <3>1, <2>2 DEF Resources!Answer, Resources!Status
    <3>2. CASE previous # NoRecord /\ Resources!Answer(m.req.op, previous.status)
      BY <3>2, <2>2 DEF Resources!Answer, TypeOK, Answered
    <3> QED
      BY <2>1, <3>1, <3>2
  <2>4. TypeOK'
    BY <2>1, <2>3 DEF TypeOK, Resources!TypeOK, session, backend
  <2> QED
    BY <2>1, <2>4 DEF session, backend, AtMostOnce, RunsBehind, ResourcesOwned,
         RetiredHoldsNothing, RepeatRecognised, Current, Fresh, Resources!Idle,
         Resources!AllDown
<1>10. ASSUME Finish PROVE Inv'
  <2>1. /\ UNCHANGED <<session, runs, owner>> /\ serving' = "no"
        /\ Resources!Vanish \/ Resources!Retain
    BY <1>10 DEF Finish
  <2>2. Resources!TypeOK' /\ (mem' # "none" => mem # "none")
    BY <2>1 DEF TypeOK, Resources!TypeOK, Resources!Vanish, Resources!Retain,
                Resources!AllDown
  <2>3. TypeOK'
    BY <2>1, <2>2 DEF TypeOK, session
  <2> QED
    BY <2>1, <2>2, <2>3 DEF session, AtMostOnce, RunsBehind, ResourcesOwned,
         RetiredHoldsNothing, RepeatRecognised, Current, Fresh
<1>11. ASSUME UNCHANGED vars PROVE Inv'
  BY <1>11 DEF vars, session, backend, TypeOK, AtMostOnce, RunsBehind, ResourcesOwned,
       RetiredHoldsNothing, RepeatRecognised, Current, Fresh, Resources!TypeOK,
       Resources!Idle, Resources!AllDown
<1> QED
  BY <1>1, <1>2, <1>3, <1>4, <1>5, <1>6, <1>7, <1>8, <1>9, <1>10, <1>11 DEF Next, Serve

\* The inductive invariant holds in every state of the control service.
THEOREM Invariance == Spec => []Inv
  BY InitInv, NextInv, PTL DEF Spec

-----------------------------------------------------------------------------
(* The properties.                                                         *)

\* Type correctness, whatever records arrive.
THEOREM TypeCorrect == Spec => []TypeOK
<1>1. Inv => TypeOK
  BY DEF Inv
<1> QED
  BY <1>1, Invariance, PTL

\* serve executes every transaction of every binding at most once, for any
\* number of bindings, devices' epochs and transactions.
THEOREM ExecutedOnce == Spec => []AtMostOnce
<1>1. Inv => AtMostOnce
  BY DEF Inv
<1> QED
  BY <1>1, Invariance, PTL

\* What the backend holds was prepared in the open binding.
THEOREM OwnedByBinding == Spec => []ResourcesOwned
<1>1. Inv => ResourcesOwned
  BY DEF Inv
<1> QED
  BY <1>1, Invariance, PTL

\* A retired binding holds nothing as long as the service runs.
THEOREM RetiredEmpty == Spec => []RetiredHoldsNothing
<1>1. Inv => RetiredHoldsNothing
  BY DEF Inv
<1> QED
  BY <1>1, Invariance, PTL

\* The record executed last is recognised when it is sent again.
THEOREM RepeatCorrect == Spec => []RepeatRecognised
<1>1. Inv => RepeatRecognised
  BY DEF Inv
<1> QED
  BY <1>1, Invariance, PTL

\* Bindings and epochs never move back.
THEOREM Monotone == Spec => SessionMonotone
<1> DEFINE Forward == /\ binding' >= binding
                      /\ binding' = binding => \A d \in Device : epoch'[d] >= epoch[d]
<1>1. Inv /\ [Next]_vars => [Forward]_vars
  <2> SUFFICES ASSUME Inv, Next PROVE Forward
    OBVIOUS
  <2>1. binding \in Nat /\ \A d \in Device : epoch[d] \in Nat
    BY SessionNumbers DEF Inv
  <2>2. ASSUME NEW m \in Record, Open(m) PROVE Forward
    BY <2>1, <2>2, RecordFields DEF Open, Opens
  <2>3. ASSUME NEW m \in Record, NEW status, Admitted(m), Execute(m, status)
        PROVE  Forward
    BY <2>1, <2>3, RecordFields DEF Execute, Admitted, Current, Inv, TypeOK
  <2>4. ASSUME UNCHANGED session PROVE Forward
    BY <2>1, <2>4 DEF session
  <2> QED
    BY <2>2, <2>3, <2>4 DEF Next, Serve, Hello, Prepare, Activate, Reset, Release,
         Other, AfterRetirement, Repeat, Reject, Finish
<1> QED
  BY <1>1, Invariance, PTL DEF Spec, SessionMonotone
=============================================================================
