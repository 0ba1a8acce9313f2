----------------------------- MODULE Supervisor -----------------------------
(* The supervisor of the appliance, src/service/hyper-io-supervisor.c, with   *)
(* the life of each service process it starts (main and serve of              *)
(* src/service/hyper-io-service.c) and the power-off of src/rootfs/init that  *)
(* follows it.  The question is what SIGTERM, sent once and never blocked,    *)
(* does to processes that test a flag and then sleep in a system call.        *)
(*                                                                           *)
(* A signal that arrives while a process is at its blocking call may find it  *)
(* asleep (the call returns EINTR) or still on the way there (the handler     *)
(* runs, then the process sleeps): both are steps of the model.               *)
EXTENDS ClientConfig, FiniteSets

VARIABLES
  clients,    \* the accepted lines
  pc,         \* the supervisor: "config", "fork", "loop", "wait", then "off"
  next,       \* the client to fork next
  children,   \* the nonzero entries of children[]
  live,       \* how many children are not reaped
  stopping,   \* set by the handler, by a failed fork, by a failed service
  signalled,
  failed,
  term,       \* somebody sent the supervisor SIGTERM
  proc,       \* what each service process is doing
  stop,       \* its own stopping flag
  exit        \* the status it has, or will have, for waitpid

config == <<clients, term>>
supervisor == <<pc, next, children, live, stopping, signalled, failed>>
services == <<proc, stop, exit>>
vars == <<clients, term, pc, next, children, live, stopping, signalled, failed,
          proc, stop, exit>>

Slots == 1..MaxClients

\* fork copies the handler; execl resets it; main installs it again; then the
\* service reads, serves, releases its memory and exits, or stays for ever
\* with a backend that cannot be quiesced.
Life == {"none", "forked", "execed", "setup", "read", "serving", "release",
         "retained", "zombie", "reaped"}

Alive(i) == proc[i] \notin {"none", "zombie", "reaped"}

TypeOK ==
  /\ clients \in Seq(Client) /\ Len(clients) <= MaxClients
  /\ pc \in {"config", "fork", "loop", "wait", "off"}
  /\ next \in 1..(MaxClients + 1)
  /\ children \subseteq Slots /\ live \in 0..MaxClients
  /\ stopping \in BOOLEAN /\ signalled \in BOOLEAN
  /\ failed \in BOOLEAN /\ term \in BOOLEAN
  /\ proc \in [Slots -> Life] /\ stop \in [Slots -> BOOLEAN]
  /\ exit \in [Slots -> {"ok", "error", "killed"}]

Init ==
  /\ clients = <<>> /\ pc = "config" /\ next = 1
  /\ children = {} /\ live = 0
  /\ stopping = FALSE /\ signalled = FALSE /\ failed = FALSE /\ term = FALSE
  /\ proc = [i \in Slots |-> "none"] /\ stop = [i \in Slots |-> FALSE]
  /\ exit = [i \in Slots |-> "ok"]

-----------------------------------------------------------------------------
(* The supervisor.                                                         *)

ReadLine(line) ==
  /\ pc = "config"
  /\ IF Acceptable(clients, line)
     THEN clients' = Append(clients, line) /\ UNCHANGED <<pc, failed>>
     ELSE pc' = "off" /\ failed' = TRUE /\ UNCHANGED clients
  /\ UNCHANGED <<term, next, children, live, stopping, signalled, services>>

EndOfFile ==
  /\ pc = "config"
  /\ IF Complete(clients)
     THEN pc' = "fork" /\ UNCHANGED failed
     ELSE pc' = "off" /\ failed' = TRUE
  /\ UNCHANGED <<config, next, children, live, stopping, signalled, services>>

\* The test of stopping comes before each fork; SIGTERM may fall in between.
Fork ==
  /\ pc = "fork" /\ next <= Len(clients) /\ ~stopping
  /\ next' = next + 1
  /\ children' = children \cup {next} /\ live' = live + 1
  /\ proc' = [proc EXCEPT ![next] = "forked"]
  /\ UNCHANGED <<config, pc, stopping, signalled, failed, stop, exit>>

\* Faulty variant: nobody is stopped when a fork fails.
ForkFailsOnly ==
  /\ pc = "fork" /\ next <= Len(clients) /\ ~stopping
  /\ failed' = TRUE /\ pc' = "loop"
  /\ UNCHANGED <<config, next, children, live, stopping, signalled, services>>

ForkFails ==
  /\ pc = "fork" /\ next <= Len(clients) /\ ~stopping
  /\ failed' = TRUE /\ stopping' = TRUE /\ pc' = "loop"
  /\ UNCHANGED <<config, next, children, live, signalled, services>>

Forked ==
  /\ pc = "fork" /\ (stopping \/ next > Len(clients))
  /\ pc' = "loop"
  /\ UNCHANGED <<config, next, children, live, stopping, signalled, failed, services>>

\* What SIGTERM does to a process.  The handler sets the flag; without one
\* (after execl, before sigaction) the process dies.  asleep says that it was
\* inside its system call.
Delivered(i, asleep) ==
  IF proc[i] = "execed" THEN [proc |-> "zombie", stop |-> stop[i], exit |-> "killed"]
  ELSE IF proc[i] = "read" /\ asleep
       THEN [proc |-> "release", stop |-> TRUE, exit |-> "ok"]
       ELSE [proc |-> proc[i], stop |-> stop[i] \/ Alive(i), exit |-> exit[i]]

\* kill of every entry of children[], once.
SignalAll ==
  /\ pc = "loop" /\ live # 0 /\ stopping /\ ~signalled
  /\ \E asleep \in SUBSET {i \in children : proc[i] = "read"} :
       LET after == [i \in Slots |->
                       IF i \in children THEN Delivered(i, i \in asleep)
                       ELSE [proc |-> proc[i], stop |-> stop[i], exit |-> exit[i]]]
       IN  /\ proc' = [i \in Slots |-> after[i].proc]
           /\ stop' = [i \in Slots |-> after[i].stop]
           /\ exit' = [i \in Slots |-> after[i].exit]
  /\ signalled' = TRUE /\ pc' = "wait"
  /\ UNCHANGED <<config, next, children, live, stopping, failed>>

Wait ==
  /\ pc = "loop" /\ live # 0 /\ (stopping => signalled)
  /\ pc' = "wait"
  /\ UNCHANGED <<config, next, children, live, stopping, signalled, failed, services>>

\* Faulty variant: a service killed by a signal has exit status 0.
BadStatusCodeOnly(status) == status = "error"

\* Faulty variant: every service that ends stops the others.
BadStatusAny(status) == TRUE

BadStatus(status) == status # "ok"

\* Faulty variant: the entry of the reaped child stays.
RemainingAll(i) == children

Remaining(i) == children \ {i}

\* waitpid returns one child that has ended.
Reap(i) ==
  /\ pc = "wait" /\ proc[i] = "zombie"
  /\ proc' = [proc EXCEPT ![i] = "reaped"]
  /\ children' = Remaining(i) /\ live' = live - 1
  /\ failed' = (failed \/ BadStatus(exit[i]))
  /\ stopping' = (stopping \/ BadStatus(exit[i]))
  /\ pc' = "loop"
  /\ UNCHANGED <<config, next, signalled, stop, exit>>

AllReaped == live = 0

\* main returns and init powers the appliance off, whatever the status.
PowerOff ==
  /\ pc = "loop" /\ AllReaped /\ pc' = "off"
  /\ UNCHANGED <<config, next, children, live, stopping, signalled, failed, services>>

\* SIGTERM to the supervisor: waitpid returns EINTR, or is not there yet.
Term ==
  /\ ~term /\ pc \in {"fork", "loop", "wait"}
  /\ term' = TRUE /\ stopping' = TRUE
  /\ pc' \in IF pc = "wait" THEN {"wait", "loop"} ELSE {pc}
  /\ UNCHANGED <<clients, next, children, live, signalled, failed, services>>

-----------------------------------------------------------------------------
(* A service process.                                                      *)

Become(i, state) == proc' = [proc EXCEPT ![i] = state]

Die(i, status) == Become(i, "zombie") /\ exit' = [exit EXCEPT ![i] = status]

\* execl replaces the process image: handler and flag are gone.
Exec(i) ==
  /\ proc[i] = "forked"
  /\ \/ Become(i, "execed") /\ stop' = [stop EXCEPT ![i] = FALSE] /\ UNCHANGED exit
     \/ Die(i, "error") /\ UNCHANGED stop
  /\ UNCHANGED <<config, supervisor>>

\* Arguments, then sigaction.
Handle(i) ==
  /\ proc[i] = "execed"
  /\ \/ Become(i, "setup") /\ UNCHANGED exit
     \/ Die(i, "error")
  /\ UNCHANGED <<config, supervisor, stop>>

\* The files, networks and backends the service needs; one may be missing.
SetUpFails(i) ==
  /\ proc[i] = "setup" /\ Die(i, "error")
  /\ UNCHANGED <<config, supervisor, stop>>

\* while (!stopping) before the blocking read.
Loop(i) ==
  /\ proc[i] \in {"setup", "serving"}
  /\ Become(i, IF stop[i] THEN "release" ELSE "read")
  /\ UNCHANGED <<config, supervisor, stop, exit>>

\* A record of the host; a service that is stopping does not look at it.
Receive(i) ==
  /\ proc[i] = "read" /\ Become(i, IF stop[i] THEN "release" ELSE "serving")
  /\ UNCHANGED <<config, supervisor, stop, exit>>

\* serve returns 0 when the host closed the endpoint (EPIPE) ...
EndpointClosed(i) ==
  /\ proc[i] \in {"read", "serving"} /\ Become(i, "release")
  /\ UNCHANGED <<config, supervisor, stop, exit>>

\* ... and -1 on a bad record, and on any other error unless it is stopping.
ServeFails(i) ==
  /\ proc[i] = "serving" \/ (proc[i] = "read" /\ ~stop[i])
  /\ Become(i, "release") /\ exit' = [exit EXCEPT ![i] = "error"]
  /\ UNCHANGED <<config, supervisor, stop>>

ReleaseMemory(i) ==
  /\ proc[i] = "release" /\ Become(i, "zombie")
  /\ UNCHANGED <<config, supervisor, stop, exit>>

\* release_memory fails: for (;;) pause().
Retain(i) ==
  /\ proc[i] = "release" /\ Become(i, "retained")
  /\ UNCHANGED <<config, supervisor, stop, exit>>

\* A fatal signal of the kernel.
Crash(i) ==
  /\ Alive(i) /\ Die(i, "killed")
  /\ UNCHANGED <<config, supervisor, stop>>

-----------------------------------------------------------------------------
Starts(i) == Exec(i) \/ Handle(i) \/ SetUpFails(i) \/ Loop(i)
Ends(i) == ReleaseMemory(i) \/ Retain(i)
Forks == Fork \/ ForkFails \/ Forked
Waits == SignalAll \/ Wait \/ PowerOff \/ \E i \in Slots : Reap(i)

Next ==
  \/ \E line \in Lines : ReadLine(line)
  \/ EndOfFile \/ Forks \/ Waits \/ Term
  \/ \E i \in Slots : \/ Starts(i) \/ Ends(i)
                      \/ Receive(i) \/ EndpointClosed(i) \/ ServeFails(i) \/ Crash(i)

Spec == Init /\ [][Next]_vars

\* Every process is scheduled.  Records, closed endpoints, errors, crashes and
\* signals to the supervisor may never come.
FairSpec ==
  /\ Spec
  /\ WF_vars(Forks) /\ WF_vars(Waits)
  /\ \A i \in Slots : WF_vars(Starts(i)) /\ WF_vars(Ends(i))

-----------------------------------------------------------------------------
(* Properties.                                                             *)

Unreaped == {i \in Slots : proc[i] \notin {"none", "reaped"}}

\* children[] names exactly the processes that waitpid has not returned, and
\* live counts them: no pid that the kernel may have given to somebody else is
\* signalled, and the appliance powers off only when no service process exists
\* any more, so that every client's memory was released or its process is gone.
ChildrenAccounted ==
  /\ TypeOK
  /\ children = Unreaped /\ live = Cardinality(Unreaped)
  /\ pc = "off" => Unreaped = {}

\* A service that ends normally retires only its client: the others are told to
\* stop only because a service failed, a fork failed (the loop was left with
\* clients to start) or somebody sent the supervisor SIGTERM.
StopsForCause ==
  stopping \/ signalled => \/ term
                           \/ \E i \in Slots : proc[i] = "reaped" /\ exit[i] # "ok"
                           \/ pc # "fork" /\ next <= Len(clients)

\* The supervisor returns 0 only if every process it started ended normally,
\* and all were started unless it was told to stop.
SuccessIsHonest ==
  pc = "off" /\ ~failed =>
    /\ \A i \in Slots : proc[i] = "reaped" => exit[i] = "ok"
    /\ ~term => Len(clients) > 0 /\ \A i \in 1..Len(clients) : proc[i] = "reaped"

\* No two services are started with the same devices or the same MAC address,
\* and the block owner is one of the clients whenever any service runs.
ServicesDistinct ==
  Unreaped # {} =>
    /\ \E i \in 1..Len(clients) : clients[i].id = Owner
    /\ \A i, j \in 1..Len(clients) : i # j =>
         /\ clients[i].id # clients[j].id
         /\ clients[i].mac # None => clients[i].mac # clients[j].mac

\* A service that SIGTERM did not stop: the signal came before execl, or before
\* the read it was meant to interrupt, or the backend is retained.
Deaf(i) ==
  /\ signalled /\ Alive(i)
  /\ proc[i] \in {"read", "retained"} \/ ~stop[i]

\* A failure ends in the power-off, unless a service misses its one signal or
\* retains its backend.
FailureStops == failed ~> (pc = "off" \/ \E i \in Slots : Deaf(i))

\* A service failure terminates the appliance, as src/rootfs/init:127 has it,
\* unless a backend that cannot be quiesced is retained on purpose.
FailureTerminates == failed ~> (pc = "off" \/ \E i \in Slots : proc[i] = "retained")
=============================================================================
