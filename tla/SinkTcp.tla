------------------------------- MODULE SinkTcp -------------------------------
(***************************************************************************)
(* sink_tcp.c: the raw TCP port.  accept_task fills a table of slots, one  *)
(* client_task per slot reads its socket into the bridge, and the sources' *)
(* tasks write to all of them in on_rx, with S.mtx held for the whole loop.*)
(*                                                                         *)
(* Descriptors are reused: a closed one may name the next connection.  The *)
(* bytes are left out, and so are the statistics but for active_clients.   *)
(* slot->task, written by two tasks without the mutex, is never read and   *)
(* is left out.                                                            *)
(***************************************************************************)
EXTENDS Integers, FiniteSets

CONSTANTS
  NSlots,      \* SINK_TCP_MAX_CLIENTS
  Conns,       \* connections of peers
  Fds,         \* descriptors
  None         \* no connection, no descriptor (-1), no slot

ASSUME TcpAssumption ==
  /\ NSlots \in Nat \ {0}
  /\ None \notin Conns \cup Fds \cup 1 .. NSlots

VARIABLES
  peer,        \* each connection: none, in the backlog, open, closed, or broken
  file,        \* the connection a descriptor names
  sock,        \* clients[i].sock
  active,      \* clients[i].active
  count,       \* stats.active_clients
  acc,         \* accept_task: what it is about to do,
  cs, slot,    \* ... the descriptor it has accepted and the slot it has filled
  task,        \* the client_task of each slot
  got,         \* ... and whose bytes it has in the bridge
  fan,         \* the slot on_rx is at, and 0 when nobody has S.mtx
  owner,       \* history: the connection a slot was filled for
  unserved     \* history: slots whose client_task could not be created

table == <<sock, active, count>>
accept == <<acc, cs, slot>>
history == <<owner, unserved>>
vars == <<peer, file, table, accept, task, got, fan, history>>

Slots == 1 .. NSlots

TypeOK ==
  /\ peer \in [Conns -> {"away", "queued", "open", "closed", "broken"}]
  /\ file \in [Fds -> Conns \cup {None}]
  /\ sock \in [Slots -> Fds \cup {None}]
  /\ active \in [Slots -> BOOLEAN]
  /\ count \in Int
  /\ acc \in {"accept", "claim", "spawn"}
  /\ cs \in Fds \cup {None} /\ slot \in Slots \cup {None}
  /\ task \in [Slots -> {"none", "recv", "tx", "closing"}]
  /\ got \in [Slots -> Conns \cup {None}]
  /\ fan \in 0 .. NSlots
  /\ owner \in [Slots -> Conns \cup {None}]
  /\ unserved \in SUBSET Slots

Init ==
  /\ peer = [c \in Conns |-> "away"]
  /\ file = [f \in Fds |-> None]
  /\ sock = [i \in Slots |-> None]
  /\ active = [i \in Slots |-> FALSE]
  /\ count = 0
  /\ acc = "accept" /\ cs = None /\ slot = None
  /\ task = [i \in Slots |-> "none"]
  /\ got = [i \in Slots |-> None]
  /\ fan = 0
  /\ owner = [i \in Slots |-> None] /\ unserved = {}

-----------------------------------------------------------------------------
(* Peers                                                                   *)

Alive(c) == peer[c] \in {"queued", "open"}

Connects(c) ==
  /\ peer[c] = "away"
  /\ peer' = [peer EXCEPT ![c] = "queued"]
  /\ UNCHANGED <<file, table, accept, task, got, fan, history>>

\* The peer closes its end, or the connection breaks (a vanished peer is found out by
\* SO_KEEPALIVE).  accept() hands out what is still in the backlog all the same.
Ends(c, how) ==
  /\ peer[c] = "open"
  /\ peer' = [peer EXCEPT ![c] = how]
  /\ UNCHANGED <<file, table, accept, task, got, fan, history>>

-----------------------------------------------------------------------------
(* Closing.  close(f), by the one task that uses f.                        *)

Freed(f) == [file EXCEPT ![f] = None]

Gone(f) == [peer EXCEPT ![file[f]] = "away"]

Left == count - 1

\* close_client, with S.mtx held and clients[i].active.
CloseClient(i) ==
  /\ file' = Freed(sock[i]) /\ peer' = Gone(sock[i])
  /\ sock' = [sock EXCEPT ![i] = None]
  /\ active' = [active EXCEPT ![i] = FALSE]
  /\ count' = Left

-----------------------------------------------------------------------------
(* accept_task                                                             *)

Accepts(c, f) ==
  /\ acc = "accept"
  /\ peer[c] = "queued" /\ file[f] = None
  /\ peer' = [peer EXCEPT ![c] = "open"]
  /\ file' = [file EXCEPT ![f] = c]
  /\ acc' = "claim" /\ cs' = f
  /\ UNCHANGED <<table, slot, task, got, fan, history>>

Free == {i \in Slots : ~active[i]}

\* find_free_slot.
FirstFree == CHOOSE i \in Free : \A j \in Free : i <= j

\* Mutant of Refused: the connection nobody has a slot for is not closed.
RefusedOpen == UNCHANGED <<file, peer>>

Refused == file' = Freed(cs) /\ peer' = Gone(cs)

Refuses ==
  /\ acc = "claim" /\ fan = 0
  /\ Free = {}
  /\ Refused
  /\ acc' = "accept" /\ cs' = None
  /\ UNCHANGED <<table, slot, task, got, fan, history>>

Claims ==
  /\ acc = "claim" /\ fan = 0
  /\ Free # {}
  /\ LET i == FirstFree IN
       /\ sock' = [sock EXCEPT ![i] = cs]
       /\ active' = [active EXCEPT ![i] = TRUE]
       /\ count' = count + 1
       /\ slot' = i
       /\ owner' = [owner EXCEPT ![i] = file[cs]]
  /\ acc' = "spawn" /\ cs' = None
  /\ UNCHANGED <<peer, file, task, got, fan, unserved>>

Spawns ==
  /\ acc = "spawn"
  /\ task' = [task EXCEPT ![slot] = "recv"]
  /\ acc' = "accept" /\ slot' = None
  /\ UNCHANGED <<peer, file, table, cs, got, fan, history>>

\* xTaskCreate fails, and nobody looks.
SpawnFails ==
  /\ acc = "spawn"
  /\ unserved' = unserved \cup {slot}
  /\ acc' = "accept" /\ slot' = None
  /\ UNCHANGED <<peer, file, table, cs, task, got, fan, owner>>

-----------------------------------------------------------------------------
(* client_task                                                             *)

\* The connection that recv() on clients[i].sock reads.
Read(i) == file[sock[i]]

Receives(i) ==
  /\ task[i] = "recv" /\ sock[i] # None /\ Read(i) # None
  /\ peer[Read(i)] = "open"
  /\ task' = [task EXCEPT ![i] = "tx"]
  /\ got' = [got EXCEPT ![i] = Read(i)]
  /\ UNCHANGED <<peer, file, table, accept, fan, history>>

\* bridge_tx_to_source, whatever its result.
Forwarded(i) ==
  /\ task[i] = "tx"
  /\ task' = [task EXCEPT ![i] = "recv"]
  /\ got' = [got EXCEPT ![i] = None]
  /\ UNCHANGED <<peer, file, table, accept, fan, history>>

\* Mutant of Over: every error is taken for EINTR.
OverIfClosed(i) == sock[i] = None \/ Read(i) = None \/ peer[Read(i)] = "closed"

\* The loop ends: no socket, end of file or an error.
Over(i) == sock[i] = None \/ Read(i) = None \/ ~Alive(Read(i))

Stops(i) ==
  /\ task[i] = "recv" /\ Over(i)
  /\ task' = [task EXCEPT ![i] = "closing"]
  /\ UNCHANGED <<peer, file, table, accept, got, fan, history>>

Leaves(i) ==
  /\ task[i] = "closing" /\ fan = 0
  /\ IF active[i] THEN CloseClient(i) ELSE UNCHANGED <<peer, file, table>>
  /\ task' = [task EXCEPT ![i] = "none"]
  /\ UNCHANGED <<accept, got, fan, history>>

-----------------------------------------------------------------------------
(* on_rx                                                                   *)

\* Mutants of Shut: the fan-out closes the socket it could not write to, with or without
\* the slot.
ShutByClose(i) ==
  /\ file' = Freed(sock[i]) /\ peer' = Gone(sock[i])
  /\ UNCHANGED table

ShutByCloseClient(i) == CloseClient(i)

\* shutdown() only: clients[i]'s own task closes.
Shut(i) ==
  /\ peer' = [peer EXCEPT ![Read(i)] = "closed"]
  /\ UNCHANGED <<file, table>>

NextSlot == IF fan < NSlots THEN fan + 1 ELSE 0

StartsFan ==
  /\ fan = 0
  /\ fan' = 1
  /\ UNCHANGED <<peer, file, table, accept, task, got, history>>

\* A slot without a client, or send() took the chunk, a part of it, or nothing (EAGAIN).
Sends ==
  /\ fan # 0
  /\ fan' = NextSlot
  /\ UNCHANGED <<peer, file, table, accept, task, got, history>>

SendFails ==
  /\ fan # 0 /\ active[fan] /\ sock[fan] # None
  /\ Read(fan) # None
  /\ Shut(fan)
  /\ fan' = NextSlot
  /\ UNCHANGED <<accept, task, got, history>>

-----------------------------------------------------------------------------

Client(i) == Receives(i) \/ Forwarded(i) \/ Stops(i) \/ Leaves(i)

Next ==
  \/ \E c \in Conns : Connects(c) \/ \E how \in {"closed", "broken"} : Ends(c, how)
  \/ \E c \in Conns, f \in Fds : Accepts(c, f)
  \/ Refuses \/ Claims \/ Spawns \/ SpawnFails
  \/ \E i \in Slots : Client(i)
  \/ StartsFan \/ Sends \/ SendFails

\* The tasks run.  What a client has sent ends up in the bridge sometime (a source's time-out
\* bounds it), and the mutex that on_rx gives back again and again is had by those
\* who wait for it.  No peer and no source has to do anything.
Fairness ==
  /\ SF_vars(Refuses \/ Claims) /\ WF_vars(Spawns \/ SpawnFails)
  /\ WF_vars(Sends)
  /\ \A i \in Slots :
       WF_vars(Forwarded(i)) /\ WF_vars(Stops(i)) /\ SF_vars(Leaves(i))

Spec == Init /\ [][Next]_vars /\ Fairness

-----------------------------------------------------------------------------
(* Properties                                                              *)

\* A slot in use names the descriptor of the connection it was filled for, so that on_rx
\* writes to it and its task reads from it, however descriptors are reused
\* (sink_tcp.c:188-192, 203-206).
OwnSocket ==
  \A i \in Slots :
    /\ active[i] => sock[i] # None /\ file[sock[i]] = owner[i]
    /\ task[i] = "tx" => got[i] = owner[i]

\* No descriptor is lost: one that is open is about to be claimed or is in the one slot
\* that will close it.
NoSocketLost ==
  \A f \in Fds : file[f] # None =>
    \/ acc = "claim" /\ cs = f
    \/ \E i \in Slots : active[i] /\ sock[i] = f
                        /\ \A j \in Slots : sock[j] = f => j = i

\* A slot is in use exactly as long as there is a task to free it, but for one whose task
\* could not be created.
SlotServed ==
  \A i \in Slots :
    active[i] <=> \/ task[i] # "none"
                  \/ acc = "spawn" /\ slot = i
                  \/ i \in unserved

\* What the web interface shows as active_clients.
CountMatches == count = Cardinality({i \in Slots : active[i]})

\* A client that has left, or cannot be written to, gives its slot back, unless it never
\* had a task.
EndedIsFreed ==
  \A i \in Slots :
    (active[i] /\ owner[i] \in Conns /\ ~Alive(owner[i]))
      ~> (~active[i] \/ i \in unserved)
=============================================================================
