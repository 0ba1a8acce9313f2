-------------------------- MODULE SupervisorProofs --------------------------
(* The supervisor's accounts for every number of clients: children[] and live *)
(* are exact whatever the services do and whenever SIGTERM comes, services    *)
(* are stopped for a cause only, success is reported only when it is true,    *)
(* and what was accepted from the configuration stays free of clashes.        *)
EXTENDS Supervisor, FiniteSetTheorems, TLAPS

\* children[] and live.
Accounts ==
  /\ children = Unreaped /\ live = Cardinality(Unreaped)
  /\ pc = "off" => Unreaped = {}

\* How far main has come: the slots before next have been forked, no child is
\* reaped before the fork loop ends, and no signal counts before it starts.
Progress ==
  /\ next <= Len(clients) + 1
  /\ \A i \in Slots : proc[i] = "none" <=> i >= next
  /\ pc = "config" => next = 1 /\ ~stopping
  /\ pc = "fork" => \A i \in Slots : proc[i] # "reaped"

\* Why services are stopped.
Causes ==
  /\ signalled => stopping
  /\ StopsForCause

\* What failed leaves out: children that ended badly, clients never started, a
\* configuration without the block owner.
Failures ==
  ~failed =>
    /\ \A i \in Slots : proc[i] = "reaped" => exit[i] = "ok"
    /\ pc \in {"loop", "wait", "off"} /\ ~term => next > Len(clients)
    /\ pc # "config" => Complete(clients)

\* The clients accepted so far differ in identifier and MAC address, and the
\* services start only with the block owner among them.
Accepted ==
  /\ \A i, j \in 1..Len(clients) : i # j =>
       /\ clients[i].id # clients[j].id
       /\ clients[i].mac # None => clients[i].mac # clients[j].mac
  /\ pc \in {"fork", "loop", "wait"} => Complete(clients)

Inv ==
  /\ TypeOK
  /\ Accounts
  /\ Progress
  /\ Causes
  /\ Failures
  /\ Accepted

-----------------------------------------------------------------------------
\* There are finitely many service processes.
LEMMA UnreapedFinite ==
  /\ IsFiniteSet(Slots) /\ IsFiniteSet(Unreaped)
  /\ Cardinality(Unreaped) \in 0..MaxClients
<1>1. IsFiniteSet(Slots) /\ Cardinality(Slots) = MaxClients
  BY ConfigAssumption, FS_Interval DEF Slots
<1>2. Unreaped \in SUBSET Slots
  BY DEF Unreaped
<1>3. IsFiniteSet(Unreaped) /\ Cardinality(Unreaped) <= Cardinality(Slots)
  BY <1>1, <1>2, FS_Subset
<1>. QED BY <1>1, <1>3, FS_CardinalityType, ConfigAssumption

\* The supervisor starts with nothing.
LEMMA InitInv == Init => Inv
<1>. SUFFICES ASSUME Init PROVE Inv
  OBVIOUS
<1>1. Unreaped = {}
  BY DEF Init, Unreaped
<1>2. TypeOK
  <2>1. /\ clients \in Seq(Client) /\ Len(clients) <= MaxClients
        /\ next \in 1..(MaxClients + 1) /\ live \in 0..MaxClients
    BY ConfigAssumption DEF Init
  <2>2. /\ proc \in [Slots -> Life] /\ stop \in [Slots -> BOOLEAN]
        /\ exit \in [Slots -> {"ok", "error", "killed"}]
    BY DEF Init, Life
  <2>. QED BY <2>1, <2>2 DEF Init, TypeOK
<1>3. Accounts
  BY <1>1, FS_EmptySet DEF Init, Accounts
<1>4. Progress /\ Causes /\ Failures /\ Accepted
  BY ConfigAssumption DEF Init, Progress, Causes, StopsForCause, Failures, Accepted, Slots
<1>. QED BY <1>2, <1>3, <1>4 DEF Inv

\* A service process that lives on or becomes a zombie changes no account.
LEMMA ServiceStep ==
  ASSUME Inv, NEW i \in Slots, proc[i] \notin {"none", "reaped"},
         NEW state \in Life \ {"none", "reaped"}, proc' = [proc EXCEPT ![i] = state],
         NEW status \in {"ok", "error", "killed"}, exit' = [exit EXCEPT ![i] = status],
         NEW flag \in BOOLEAN, stop' = [stop EXCEPT ![i] = flag],
         UNCHANGED <<config, supervisor>>
  PROVE  Inv'
<1>. USE DEF config, supervisor
<1>1. TypeOK'
  BY DEF Inv, TypeOK
<1>2. \A j \in Slots : /\ (proc'[j] = "none") <=> (proc[j] = "none")
                       /\ (proc'[j] = "reaped") <=> (proc[j] = "reaped")
                       /\ proc[j] = "reaped" => exit'[j] = exit[j]
  BY DEF Inv, TypeOK
<1>3. Unreaped' = Unreaped
  BY <1>2 DEF Unreaped
<1>4. Accounts'
  BY <1>3 DEF Inv, Accounts
<1>5. Progress'
  BY <1>2 DEF Inv, Progress
<1>6. Causes'
  BY <1>2 DEF Inv, Causes, StopsForCause
<1>7. Failures' /\ Accepted'
  BY <1>2 DEF Inv, Failures, Accepted, Complete
<1>. QED BY <1>1, <1>4, <1>5, <1>6, <1>7 DEF Inv

\* Every step of a service process.
LEMMA ProcessSteps ==
  ASSUME Inv, NEW i \in Slots,
         \/ Starts(i) \/ Ends(i)
         \/ Receive(i) \/ EndpointClosed(i) \/ ServeFails(i) \/ Crash(i)
  PROVE  Inv'
<1>0. /\ proc \in [Slots -> Life] /\ stop \in [Slots -> BOOLEAN]
      /\ exit \in [Slots -> {"ok", "error", "killed"}]
  BY DEF Inv, TypeOK
<1>1. /\ proc[i] \notin {"none", "reaped"} /\ UNCHANGED <<config, supervisor>>
      /\ \E state \in Life \ {"none", "reaped"} : proc' = [proc EXCEPT ![i] = state]
  BY <1>0 DEF Starts, Exec, Handle, SetUpFails, Loop, Ends, ReleaseMemory, Retain, Receive, EndpointClosed,
       ServeFails, Crash, Die, Become, Alive, Life
<1>2. \E status \in {"ok", "error", "killed"} : exit' = [exit EXCEPT ![i] = status]
  <2>1. exit = [exit EXCEPT ![i] = exit[i]] /\ exit[i] \in {"ok", "error", "killed"}
    BY <1>0
  <2>2. exit' = exit \/ \E status \in {"ok", "error", "killed"} : exit' = [exit EXCEPT ![i] = status]
    BY DEF Starts, Exec, Handle, SetUpFails, Loop, Ends, ReleaseMemory, Retain, Receive, EndpointClosed,
         ServeFails, Crash, Die
  <2>. QED BY <2>1, <2>2
<1>3. \E flag \in BOOLEAN : stop' = [stop EXCEPT ![i] = flag]
  <2>1. stop = [stop EXCEPT ![i] = stop[i]] /\ stop[i] \in BOOLEAN
    BY <1>0
  <2>2. stop' = stop \/ stop' = [stop EXCEPT ![i] = FALSE]
    BY DEF Starts, Exec, Handle, SetUpFails, Loop, Ends, ReleaseMemory, Retain, Receive, EndpointClosed,
         ServeFails, Crash, Die
  <2>. QED BY <2>1, <2>2
<1>. QED BY <1>1, <1>2, <1>3, ServiceStep

-----------------------------------------------------------------------------
(* The steps of the supervisor.                                            *)

\* A step that moves the supervisor on without touching the services: what it
\* has to keep.
LEMMA SupervisorStep ==
  ASSUME Inv, UNCHANGED <<clients, next, children, live, services>>,
         pc' \in {"config", "fork", "loop", "wait", "off"}, pc # "config", pc' # "config",
         pc' = "fork" => pc = "fork",
         failed' \in BOOLEAN, stopping' \in BOOLEAN, signalled' \in BOOLEAN, term' \in BOOLEAN,
         pc' = "off" => Unreaped = {}, pc # "off",
         signalled' => stopping', Causes',
         failed => failed', term => term',
         ~failed' /\ ~term' /\ pc' # "fork" => next > Len(clients)
  PROVE  Inv'
<1>. USE DEF services
<1>1. TypeOK'
  BY DEF Inv, TypeOK
<1>2. Unreaped' = Unreaped
  BY DEF Unreaped
<1>3. Accounts'
  BY <1>2 DEF Inv, Accounts
<1>4. Progress'
  BY DEF Inv, Progress
<1>5. Accepted'
  BY DEF Inv, Accepted, Complete, TypeOK
<1>6. Failures'
  <2>1. Complete(clients)
    BY DEF Inv, Accepted, TypeOK
  <2>. QED BY <2>1 DEF Inv, Failures, Complete, TypeOK
<1>. QED BY <1>1, <1>3, <1>4, <1>5, <1>6 DEF Inv

\* hyper_clients_read accepts a line only when it clashes with none before.
LEMMA ReadLineStep ==
  ASSUME Inv, NEW line \in Lines, ReadLine(line) PROVE Inv'
<1>0. /\ pc = "config" /\ next = 1 /\ ~stopping /\ ~signalled
      /\ UNCHANGED <<term, next, children, live, stopping, signalled, proc, stop, exit>>
  BY DEF Inv, Progress, Causes, ReadLine, services
<1>1. Unreaped = {} /\ Unreaped' = {}
  BY <1>0 DEF Inv, Progress, Unreaped, Slots
<1>2. Accounts'
  BY <1>0, <1>1 DEF Inv, Accounts
<1>3. Causes'
  BY <1>0 DEF Causes, StopsForCause
<1>4. CASE Acceptable(clients, line)
  <2>1. clients' = Append(clients, line) /\ UNCHANGED <<pc, failed>>
    BY <1>4 DEF ReadLine
  <2>2. /\ line \in [id : 0..MaxClients, mac : Macs \cup {None}] /\ line.id < MaxClients
        /\ Len(clients) < MaxClients /\ \A i \in 1..Len(clients) : ~Clashes(clients[i], line)
    BY <1>4 DEF Acceptable, Lines, KnownId
  <2>3. line \in Client
    BY <2>2, ConfigAssumption DEF Client
  <2>4. /\ clients' \in Seq(Client) /\ Len(clients') = Len(clients) + 1 /\ Len(clients) \in Nat
        /\ \A i \in 1..Len(clients) : clients'[i] = clients[i]
        /\ clients'[Len(clients) + 1] = line
    BY <2>1, <2>3 DEF Inv, TypeOK
  <2>5. TypeOK'
    BY <1>0, <2>1, <2>2, <2>4, ConfigAssumption DEF Inv, TypeOK
  <2>6. Progress' /\ Failures'
    BY <1>0, <2>1, <2>4 DEF Inv, Progress, Failures
  <2>7. ASSUME NEW i \in 1..Len(clients'), NEW j \in 1..Len(clients'), i # j
        PROVE  /\ clients'[i].id # clients'[j].id
               /\ clients'[i].mac # None => clients'[i].mac # clients'[j].mac
    <3>1. CASE i <= Len(clients) /\ j <= Len(clients)
      BY <2>4, <2>7, <3>1 DEF Inv, Accepted
    <3>2. CASE i = Len(clients) + 1
      BY <2>2, <2>4, <2>7, <3>2 DEF Clashes
    <3>3. CASE j = Len(clients) + 1
      BY <2>2, <2>4, <2>7, <3>3 DEF Clashes
    <3>. QED BY <2>4, <3>1, <3>2, <3>3
  <2>8. Accepted'
    BY <1>0, <2>1, <2>7 DEF Accepted
  <2>. QED BY <1>2, <1>3, <2>5, <2>6, <2>8 DEF Inv
<1>5. CASE ~Acceptable(clients, line)
  <2>1. pc' = "off" /\ failed' = TRUE /\ UNCHANGED clients
    BY <1>5 DEF ReadLine
  <2>2. TypeOK'
    BY <1>0, <2>1 DEF Inv, TypeOK
  <2>. QED BY <1>0, <1>2, <1>3, <2>1, <2>2 DEF Inv, Progress, Failures, Accepted
<1>. QED BY <1>4, <1>5

\* The end of the file decides whether services are started at all.
LEMMA EndOfFileStep ==
  ASSUME Inv, EndOfFile PROVE Inv'
<1>0. /\ pc = "config" /\ next = 1 /\ ~stopping /\ ~signalled
      /\ UNCHANGED <<clients, term, next, children, live, stopping, signalled, proc, stop, exit>>
      /\ \/ pc' = "fork" /\ Complete(clients) /\ UNCHANGED failed
         \/ pc' = "off" /\ failed' = TRUE
  BY DEF Inv, Progress, Causes, EndOfFile, services, config
<1>1. Unreaped = {} /\ Unreaped' = {}
  BY <1>0 DEF Inv, Progress, Unreaped, Slots
<1>2. Accounts'
  BY <1>0, <1>1 DEF Inv, Accounts
<1>3. TypeOK'
  BY <1>0 DEF Inv, TypeOK
<1>4. Progress' /\ Causes'
  BY <1>0 DEF Inv, Progress, Causes, StopsForCause, Slots
<1>5. Failures' /\ Accepted'
  BY <1>0 DEF Inv, Failures, Accepted, Complete
<1>. QED BY <1>2, <1>3, <1>4, <1>5 DEF Inv

\* A fork adds the next client to children[] and to live.
LEMMA ForkStep ==
  ASSUME Inv, Fork PROVE Inv'
<1>0. /\ pc = "fork" /\ next <= Len(clients) /\ ~stopping /\ ~signalled
      /\ next' = next + 1 /\ children' = children \cup {next} /\ live' = live + 1
      /\ proc' = [proc EXCEPT ![next] = "forked"]
      /\ UNCHANGED <<clients, term, pc, stopping, signalled, failed, stop, exit>>
  BY DEF Fork, config, Inv, Causes
<1>1. next \in Slots /\ next \in 1..MaxClients /\ proc[next] = "none" /\ Len(clients) \in Nat
  BY <1>0, ConfigAssumption DEF Inv, TypeOK, Progress, Slots
<1>2. \A j \in Slots : proc'[j] = IF j = next THEN "forked" ELSE proc[j]
  BY <1>0 DEF Inv, TypeOK
<1>3. Unreaped' = Unreaped \cup {next} /\ next \notin Unreaped
  BY <1>1, <1>2 DEF Unreaped
<1>4. Cardinality(Unreaped') = Cardinality(Unreaped) + 1 /\ Cardinality(Unreaped') \in 0..MaxClients
  <2>1. Cardinality(Unreaped') = Cardinality(Unreaped) + 1
    BY <1>3, UnreapedFinite, FS_AddElement
  <2>2. Unreaped' \in SUBSET Slots
    BY DEF Unreaped
  <2>3. Cardinality(Slots) = MaxClients
    BY ConfigAssumption, FS_Interval DEF Slots
  <2>4. Cardinality(Unreaped') <= MaxClients
    BY <2>2, <2>3, UnreapedFinite, FS_Subset
  <2>. QED BY <2>1, <2>4, UnreapedFinite, ConfigAssumption
<1>5. Accounts'
  BY <1>0, <1>3, <1>4 DEF Inv, Accounts
<1>6. TypeOK'
  <2>1. next' \in 1..(MaxClients + 1) /\ children' \subseteq Slots /\ live' \in 0..MaxClients
    BY <1>0, <1>1, <1>4, ConfigAssumption DEF Inv, Accounts, TypeOK
  <2>2. proc' \in [Slots -> Life]
    BY <1>0 DEF Inv, TypeOK, Life
  <2>. QED BY <1>0, <2>1, <2>2 DEF Inv, TypeOK
<1>7. Progress'
  <2>1. \A j \in Slots : proc'[j] = "none" <=> j >= next'
    BY <1>0, <1>1, <1>2 DEF Inv, Progress, Slots
  <2>. QED BY <1>0, <1>1, <1>2, <2>1 DEF Inv, Progress
<1>8. Causes' /\ Failures' /\ Accepted'
  BY <1>0, <1>2 DEF Inv, Causes, StopsForCause, Failures, Accepted, Complete, Progress
<1>. QED BY <1>5, <1>6, <1>7, <1>8 DEF Inv

\* The fork loop ends, with a failure, a signal, or every client started.
LEMMA ForkEnds ==
  ASSUME Inv, ForkFails \/ Forked PROVE Inv'
<1>0. /\ pc = "fork" /\ pc' = "loop"
      /\ UNCHANGED <<clients, term, next, children, live, signalled, services>>
  BY DEF ForkFails, Forked, config
<1>1. \A i \in Slots : proc[i] # "reaped"
  BY <1>0 DEF Inv, Progress
<1>2. stopping => term
  BY <1>0, <1>1 DEF Inv, Causes, StopsForCause
<1>3. CASE ForkFails
  <2>1. failed' = TRUE /\ stopping' = TRUE /\ next <= Len(clients)
    BY <1>3 DEF ForkFails
  <2>2. Causes'
    BY <1>0, <2>1 DEF Causes, StopsForCause
  <2>. QED BY <1>0, <2>1, <2>2, SupervisorStep DEF Inv, TypeOK
<1>4. CASE Forked
  <2>1. UNCHANGED <<stopping, failed>> /\ (stopping \/ next > Len(clients))
    BY <1>4 DEF Forked
  <2>2. Causes'
    BY <1>0, <1>2, <2>1 DEF Inv, Causes, StopsForCause
  <2>. QED BY <1>0, <1>2, <2>1, <2>2, SupervisorStep DEF Inv, TypeOK, Causes
<1>. QED BY <1>3, <1>4

\* kill leaves every child running or a zombie.
LEMMA SignalStep ==
  ASSUME Inv, SignalAll PROVE Inv'
<1>0. /\ pc = "loop" /\ pc' = "wait" /\ stopping /\ signalled' = TRUE
      /\ UNCHANGED <<clients, term, next, children, live, stopping, failed>>
  BY DEF SignalAll, config
<1>1. PICK asleep \in SUBSET {i \in children : proc[i] = "read"} :
        LET after == [i \in Slots |->
                        IF i \in children THEN Delivered(i, i \in asleep)
                        ELSE [proc |-> proc[i], stop |-> stop[i], exit |-> exit[i]]]
        IN  /\ proc' = [i \in Slots |-> after[i].proc]
            /\ stop' = [i \in Slots |-> after[i].stop]
            /\ exit' = [i \in Slots |-> after[i].exit]
  BY DEF SignalAll
<1>2. \A i \in Slots : i \in children <=> proc[i] \notin {"none", "reaped"}
  BY DEF Inv, Accounts, Unreaped
<1>3. ASSUME NEW i \in Slots
      PROVE  /\ proc'[i] \in Life /\ stop'[i] \in BOOLEAN /\ exit'[i] \in {"ok", "error", "killed"}
             /\ (proc'[i] = "none") <=> (proc[i] = "none")
             /\ (proc'[i] = "reaped") <=> (proc[i] = "reaped")
             /\ proc[i] = "reaped" => exit'[i] = exit[i]
  <2>0. proc[i] \in Life /\ stop[i] \in BOOLEAN /\ exit[i] \in {"ok", "error", "killed"}
    BY DEF Inv, TypeOK
  <2>1. CASE i \notin children
    BY <1>1, <2>0, <2>1
  <2>2. CASE i \in children
    <3>1. /\ proc'[i] = Delivered(i, i \in asleep).proc
          /\ stop'[i] = Delivered(i, i \in asleep).stop
          /\ exit'[i] = Delivered(i, i \in asleep).exit
      BY <1>1, <2>2
    <3>2. proc[i] \notin {"none", "reaped"}
      BY <1>2, <2>2
    <3>3. CASE proc[i] = "execed"
      BY <2>0, <3>1, <3>3 DEF Delivered, Life
    <3>4. CASE proc[i] # "execed" /\ proc[i] = "read" /\ i \in asleep
      BY <2>0, <3>1, <3>4 DEF Delivered, Life
    <3>5. CASE proc[i] # "execed" /\ ~(proc[i] = "read" /\ i \in asleep)
      BY <2>0, <3>1, <3>2, <3>5 DEF Delivered, Life, Alive
    <3>. QED BY <3>3, <3>4, <3>5
  <2>. QED BY <2>1, <2>2
<1>4. TypeOK'
  <2>1. /\ proc' \in [Slots -> Life] /\ stop' \in [Slots -> BOOLEAN]
        /\ exit' \in [Slots -> {"ok", "error", "killed"}]
    BY <1>1, <1>3
  <2>. QED BY <1>0, <2>1 DEF Inv, TypeOK
<1>5. Unreaped' = Unreaped
  BY <1>3 DEF Unreaped
<1>6. Accounts'
  BY <1>0, <1>5 DEF Inv, Accounts
<1>7. Progress'
  BY <1>0, <1>3 DEF Inv, Progress
<1>8. Causes'
  BY <1>0, <1>3 DEF Inv, Causes, StopsForCause
<1>9. Failures' /\ Accepted'
  BY <1>0, <1>3 DEF Inv, Failures, Accepted, Complete
<1>. QED BY <1>4, <1>6, <1>7, <1>8, <1>9 DEF Inv

\* waitpid takes one zombie out of children[] and live, and looks at its status.
LEMMA ReapStep ==
  ASSUME Inv, NEW i \in Slots, Reap(i) PROVE Inv'
<1>0. /\ pc = "wait" /\ pc' = "loop" /\ proc[i] = "zombie"
      /\ proc' = [proc EXCEPT ![i] = "reaped"]
      /\ children' = children \ {i} /\ live' = live - 1
      /\ UNCHANGED <<clients, term, next, signalled, stop, exit>>
      /\ failed' = (failed \/ exit[i] # "ok") /\ stopping' = (stopping \/ exit[i] # "ok")
  BY DEF Reap, config, Remaining, BadStatus
<1>1. \A j \in Slots : proc'[j] = IF j = i THEN "reaped" ELSE proc[j]
  BY <1>0 DEF Inv, TypeOK
<1>2. Unreaped' = Unreaped \ {i} /\ i \in Unreaped
  BY <1>0, <1>1 DEF Unreaped
<1>3. Cardinality(Unreaped') = Cardinality(Unreaped) - 1
  BY <1>2, UnreapedFinite, FS_RemoveElement
<1>4. IsFiniteSet(Unreaped') /\ Cardinality(Unreaped') \in Nat
  BY <1>2, UnreapedFinite, FS_RemoveElement, FS_CardinalityType
<1>5. Accounts'
  BY <1>0, <1>2, <1>3 DEF Inv, Accounts
<1>6. TypeOK'
  <2>1. children' \subseteq Slots /\ live' \in 0..MaxClients
    BY <1>0, <1>3, <1>4, ConfigAssumption DEF Inv, Accounts, TypeOK
  <2>2. proc' \in [Slots -> Life]
    BY <1>0 DEF Inv, TypeOK, Life
  <2>3. failed' \in BOOLEAN /\ stopping' \in BOOLEAN
    BY <1>0
  <2>. QED BY <1>0, <2>1, <2>2, <2>3 DEF Inv, TypeOK
<1>7. Progress'
  BY <1>0, <1>1 DEF Inv, Progress
<1>8. Causes'
  <2>1. signalled' => stopping'
    BY <1>0 DEF Inv, Causes
  <2>2. CASE exit[i] # "ok"
    <3>1. proc'[i] = "reaped" /\ exit'[i] # "ok"
      BY <1>0, <1>1, <2>2
    <3>. QED BY <2>1, <3>1 DEF Causes, StopsForCause
  <2>3. CASE exit[i] = "ok"
    <3>1. stopping' => stopping
      BY <1>0, <2>3
    <3>2. \A j \in Slots : proc[j] = "reaped" => proc'[j] = "reaped"
      BY <1>1
    <3>. QED BY <1>0, <2>1, <3>1, <3>2 DEF Inv, Causes, StopsForCause
  <2>. QED BY <2>2, <2>3
<1>9. Failures' /\ Accepted'
  <2>1. ~failed' => ~failed /\ exit[i] = "ok"
    BY <1>0
  <2>2. Failures'
    BY <1>0, <1>1, <2>1 DEF Inv, Failures, Complete
  <2>3. Accepted'
    BY <1>0 DEF Inv, Accepted, Complete
  <2>. QED BY <2>2, <2>3
<1>. QED BY <1>5, <1>6, <1>7, <1>8, <1>9 DEF Inv

\* The loop goes on, the appliance powers off, or SIGTERM comes.
LEMMA LoopSteps ==
  ASSUME Inv, Wait \/ PowerOff \/ Term PROVE Inv'
<1>0. UNCHANGED <<clients, next, children, live, failed, services>>
  BY DEF Wait, PowerOff, Term, config
<1>1. CASE Wait \/ PowerOff
  <2>1. /\ pc = "loop" /\ pc' \in {"wait", "off"} /\ UNCHANGED <<term, stopping, signalled>>
        /\ pc' = "off" => live = 0
    BY <1>1 DEF Wait, PowerOff, AllReaped, config
  <2>2. Causes'
    BY <1>0, <2>1 DEF Inv, Causes, StopsForCause, services
  <2>3. pc' = "off" => Unreaped = {}
    BY <2>1, UnreapedFinite, FS_EmptySet DEF Inv, Accounts
  <2>. QED BY <1>0, <2>1, <2>2, <2>3, SupervisorStep DEF Inv, TypeOK, Causes, Failures
<1>2. CASE Term
  <2>1. /\ pc \in {"fork", "loop", "wait"} /\ pc' \in {"fork", "loop", "wait"}
        /\ (pc' = "fork" => pc = "fork")
        /\ term' = TRUE /\ stopping' = TRUE /\ UNCHANGED signalled
    BY <1>2 DEF Term
  <2>2. Causes'
    BY <2>1 DEF Causes, StopsForCause
  <2>. QED BY <1>0, <2>1, <2>2, SupervisorStep DEF Inv, TypeOK
<1>. QED BY <1>1, <1>2

\* Every step preserves the invariant.
LEMMA NextInv == Inv /\ [Next]_vars => Inv'
<1>. SUFFICES ASSUME Inv, [Next]_vars PROVE Inv'
  OBVIOUS
<1>1. CASE \E line \in Lines : ReadLine(line)
  BY <1>1, ReadLineStep
<1>2. CASE EndOfFile
  BY <1>2, EndOfFileStep
<1>3. CASE Forks
  BY <1>3, ForkStep, ForkEnds DEF Forks
<1>4. CASE Waits
  BY <1>4, SignalStep, ReapStep, LoopSteps DEF Waits
<1>5. CASE Term
  BY <1>5, LoopSteps
<1>6. CASE \E i \in Slots : \/ Starts(i) \/ Ends(i)
                            \/ Receive(i) \/ EndpointClosed(i) \/ ServeFails(i) \/ Crash(i)
  BY <1>6, ProcessSteps
<1>7. CASE UNCHANGED vars
  <2>1. Unreaped' = Unreaped
    BY <1>7 DEF vars, Unreaped
  <2>. QED BY <1>7, <2>1 DEF vars, Inv, TypeOK, Accounts, Progress, Causes, StopsForCause, Failures,
         Accepted, Complete
<1>. QED BY <1>1, <1>2, <1>3, <1>4, <1>5, <1>6, <1>7 DEF Next

-----------------------------------------------------------------------------
(* The properties.                                                         *)

\* The inductive invariant holds in every state of the appliance.
THEOREM Invariance == Spec => []Inv
  BY InitInv, NextInv, PTL DEF Spec

\* children[] and live are exact, and the power-off comes after the last child.
THEOREM ChildrenExact == Spec => []ChildrenAccounted
<1>1. Inv => ChildrenAccounted
  BY DEF Inv, Accounts, ChildrenAccounted
<1>. QED BY <1>1, Invariance, PTL

\* Services are told to stop only because something failed or SIGTERM came.
THEOREM StopsCaused == Spec => []StopsForCause
<1>1. Inv => StopsForCause
  BY DEF Inv, Causes
<1>. QED BY <1>1, Invariance, PTL

\* The status the supervisor returns is true of every process it started.
THEOREM SuccessTrue == Spec => []SuccessIsHonest
<1>1. ASSUME Inv, pc = "off", ~failed PROVE SuccessIsHonest
  <2>1. \A i \in Slots : proc[i] = "reaped" => exit[i] = "ok"
    BY <1>1 DEF Inv, Failures
  <2>2. ASSUME ~term PROVE Len(clients) > 0 /\ \A i \in 1..Len(clients) : proc[i] = "reaped"
    <3>1. /\ next > Len(clients) /\ Complete(clients) /\ Unreaped = {}
          /\ Len(clients) \in Nat /\ Len(clients) <= MaxClients /\ next \in Nat
      BY <1>1, <2>2, ConfigAssumption DEF Inv, Failures, Accounts, TypeOK
    <3>2. Len(clients) > 0
      BY <3>1 DEF Complete
    <3>3. ASSUME NEW i \in 1..Len(clients) PROVE proc[i] = "reaped"
      <4>1. i \in Slots /\ ~(i >= next)
        BY <3>1, ConfigAssumption DEF Slots
      <4>. QED BY <1>1, <3>1, <4>1 DEF Inv, Progress, Unreaped
    <3>. QED BY <3>2, <3>3
  <2>. QED BY <2>1, <2>2 DEF SuccessIsHonest
<1>2. Inv => SuccessIsHonest
  BY <1>1 DEF SuccessIsHonest
<1>. QED BY <1>2, Invariance, PTL

\* Services that run were started from a configuration without clashes.
THEOREM ServicesApart == Spec => []ServicesDistinct
<1>1. ASSUME Inv, Unreaped # {} PROVE Complete(clients)
  <2>1. pc # "off"
    BY <1>1 DEF Inv, Accounts
  <2>2. pc # "config"
    BY <1>1 DEF Inv, Progress, Unreaped, Slots
  <2>. QED BY <1>1, <2>1, <2>2 DEF Inv, Accepted, TypeOK
<1>2. Inv => ServicesDistinct
  BY <1>1 DEF Inv, Accepted, ServicesDistinct, Complete
<1>. QED BY <1>2, Invariance, PTL
=============================================================================
