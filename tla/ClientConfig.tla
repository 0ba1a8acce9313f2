---------------------------- MODULE ClientConfig ----------------------------
(* hyper_clients_read of src/service/client-config.c: which lines of         *)
(* /etc/hyper-clients.conf are accepted after which others.  A line is what   *)
(* its fields say: a client identifier and a MAC address, or None for a       *)
(* client without a network.  Unreadable stands for every line rejected for   *)
(* its own text: field count, digits, resource limits, names, a malformed     *)
(* MAC, a network without a MAC; the first line and a failing read as well.   *)
EXTENDS Naturals, Sequences

CONSTANTS MaxClients,  \* HYPER_BLOCK_CLIENTS
          Macs,        \* valid MAC addresses; the text of one is unique
          None,
          Unreadable

ASSUME ConfigAssumption ==
  /\ MaxClients \in Nat \ {0}
  /\ None \notin Macs

Owner == 0

\* One identifier too many shows the range check at work.
Lines == [id : 0..MaxClients, mac : Macs \cup {None}] \cup {Unreadable}

Client == [id : 0..(MaxClients - 1), mac : Macs \cup {None}]

KnownId(id) == id < MaxClients

\* Faulty variant: only identifiers are compared.
ClashesById(a, b) == a.id = b.id

Clashes(a, b) == a.id = b.id \/ (b.mac # None /\ a.mac = b.mac)

\* The block owner has no network.
Acceptable(clients, line) ==
  /\ Len(clients) < MaxClients
  /\ line # Unreadable
  /\ KnownId(line.id)
  /\ line.mac # None => line.id # Owner
  /\ \A i \in 1..Len(clients) : ~Clashes(clients[i], line)

Complete(clients) == \E i \in 1..Len(clients) : clients[i].id = Owner
=============================================================================
