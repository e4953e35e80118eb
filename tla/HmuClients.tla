----------------------------- MODULE HmuClients -----------------------------
(***************************************************************************)
(* sink_hmuartlgw_legacy.c: the client slots.  Each connection gets a slot *)
(* of S.clients and a task; a timer per slot pushes "Co_CPU_BL" until the  *)
(* client's first probe; in bypass mode, when the source speaks the legacy *)
(* protocol itself, the source's RX task copies its bytes to all clients.  *)
(*                                                                         *)
(* S.mtx guards the giving and the taking back of a slot and no more: the  *)
(* timer's callback runs in the esp_timer task without it, and the fan-out *)
(* sends to sockets it has read earlier.  lwIP hands out a closed          *)
(* descriptor again, to this sink or to another server (`Other').  A timer *)
(* that is deleted in its own callback cannot be started again.            *)
(*                                                                         *)
(* What is said to a client after its probe is in HmuAcks.  The broadcast  *)
(* of radio frames, one critical section that changes no slot, is left     *)
(* out, as are frames that are not probes; the answer to any of them       *)
(* changes nothing.                                                        *)
(***************************************************************************)
EXTENDS HmuSink, Naturals

CONSTANTS
  Fds,         \* descriptors
  Other        \* another server's connection

ASSUME ClientsAssumption ==
  /\ {Other, None} \cap (Conns \cup Fds \cup Slots) = {} /\ Other # None
  /\ Fds \cap Slots = {}

VARIABLES
  bypass,      \* is_bypass_mode(): the source in use says it is a Co_CPU_App
  fd,          \* the connection behind each descriptor
  down,        \* the descriptors whose connection is over
  fresh,      \* the connections that have not been made yet
  acc,         \* accept_task: the new socket, or the slot it is making a task for
  mtx,         \* S.mtx: the slot that is being closed under it
  sock, active, awaiting,     \* of each slot; awaiting: host = HOST_AWAITING_PROBE
  timer, repeating,           \* its hello_timer (none, idle, armed), hello_repeating
  orphans,     \* its timers that are armed and that nobody has a handle of
  stage,       \* client_task of each slot
  shot,        \* the esp_timer task in hello_trampoline: where, for which slot, on which fd
  fan,         \* the RX task in the fan-out: the sockets to go, the one whose send failed
  owner,       \* history: the connection a slot was given for
  greeted,     \* history: the open connections that got a hello
  settled,     \* history: ... that had their probe answered or came in bypass mode
  late, again, \* history: ... that got a hello although settled; one got two
  raced,       \* history: the slots whose callback has started the timer again after
               \* cancel_hello stopped it, and before it deletes it
  lost         \* history: the handle of a timer that was not raced has been overwritten

slots   == <<sock, active, awaiting, timer, repeating, orphans>>
histories == <<owner, greeted, settled, late, again, raced, lost>>
hcVars    == <<bypass, fd, down, fresh, acc, mtx, slots, stage, shot, fan, histories>>

HCTypeOK ==
  /\ bypass \in BOOLEAN
  /\ fd \in [Fds -> Conns \cup {Other, None}]
  /\ down \subseteq Fds /\ fresh \subseteq Conns
  /\ acc \in Fds \cup Slots \cup {None}
  /\ mtx \in Slots \cup {None}
  /\ sock \in [Slots -> Fds \cup {None}]
  /\ active \in [Slots -> BOOLEAN] /\ awaiting \in [Slots -> BOOLEAN]
  /\ timer \in [Slots -> {"none", "idle", "armed"}]
  /\ repeating \in [Slots -> BOOLEAN] /\ orphans \in [Slots -> Nat]
  /\ stage \in [Slots -> {"none", "spawn", "start", "created", "arm", "recv", "probed", "hushed",
                       "stopped", "refused", "answer", "close", "closing", "quiet", "halted",
                       "kept", "shut"}]
  /\ shot \in [at : {"idle", "entered", "active", "quiet", "hello", "send", "after", "rearm"},
              slot : Slots \cup {None}, fd : Fds \cup {None}]
  /\ fan \in [socks : SUBSET Fds, failed : Fds \cup {None}]
  /\ owner \in [Slots -> Conns \cup {None}]
  /\ greeted \subseteq Conns /\ settled \subseteq Conns /\ late \subseteq Conns
  /\ raced \subseteq Slots /\ again \in BOOLEAN /\ lost \in BOOLEAN

NoShot == [at |-> "idle", slot |-> None, fd |-> None]

HCInit ==
  /\ bypass = FALSE
  /\ fd = [f \in Fds |-> None] /\ down = {} /\ fresh = Conns
  /\ acc = None /\ mtx = None
  /\ sock = [s \in Slots |-> None]
  /\ active = [s \in Slots |-> FALSE] /\ awaiting = [s \in Slots |-> TRUE]
  /\ timer = [s \in Slots |-> "none"] /\ repeating = [s \in Slots |-> FALSE]
  /\ orphans = [s \in Slots |-> 0]
  /\ stage = [s \in Slots |-> "none"]
  /\ shot = NoShot
  /\ fan = [socks |-> {}, failed |-> None]
  /\ owner = [s \in Slots |-> None]
  /\ greeted = {} /\ settled = {} /\ late = {} /\ again = FALSE
  /\ raced = {} /\ lost = FALSE

-----------------------------------------------------------------------------
(* The source, the peers, the other servers                                *)

Switches ==
  /\ bypass' = ~bypass
  /\ UNCHANGED <<fd, down, fresh, acc, mtx, slots, stage, shot, fan, histories>>

PeerLeaves(f) ==
  /\ fd[f] \in Conns /\ f \notin down
  /\ down' = down \cup {f}
  /\ UNCHANGED <<bypass, fd, fresh, acc, mtx, slots, stage, shot, fan, histories>>

OtherTakes(f) ==
  /\ fd[f] = None
  /\ fd' = [fd EXCEPT ![f] = Other]
  /\ UNCHANGED <<bypass, down, fresh, acc, mtx, slots, stage, shot, fan, histories>>

OtherLeaves(f) ==
  /\ fd[f] = Other
  /\ fd' = [fd EXCEPT ![f] = None]
  /\ down' = down \ {f}
  /\ UNCHANGED <<bypass, fresh, acc, mtx, slots, stage, shot, fan, histories>>

-----------------------------------------------------------------------------
(* accept_task                                                             *)

Connects(f) ==
  /\ acc = None /\ fd[f] = None
  /\ \E c \in fresh :
       /\ fd' = [fd EXCEPT ![f] = c]
       /\ fresh' = fresh \ {c}
  /\ acc' = f
  /\ UNCHANGED <<bypass, down, mtx, slots, stage, shot, fan, histories>>

\* shutdown and close: the descriptor is free.
Closed(f) ==
  /\ fd' = [fd EXCEPT ![f] = None]
  /\ down' = down \ {f}

Rejects ==
  /\ acc \in Fds /\ mtx = None
  /\ \A s \in Slots : active[s]
  /\ Closed(acc)
  /\ acc' = None
  /\ UNCHANGED <<bypass, fresh, mtx, slots, stage, shot, fan, histories>>

\* A free slot is cleared and given to the connection.
Gives(s) ==
  /\ acc \in Fds /\ mtx = None
  /\ ~active[s]
  /\ sock' = [sock EXCEPT ![s] = acc]
  /\ active' = [active EXCEPT ![s] = TRUE]
  /\ awaiting' = [awaiting EXCEPT ![s] = TRUE]
  /\ timer' = [timer EXCEPT ![s] = "none"]
  /\ repeating' = [repeating EXCEPT ![s] = FALSE]
  /\ lost' = (lost \/ timer[s] # "none")
  /\ stage' = [stage EXCEPT ![s] = "spawn"]
  /\ owner' = [owner EXCEPT ![s] = fd[acc]]
  /\ acc' = s
  /\ UNCHANGED <<bypass, fd, down, fresh, mtx, orphans, shot, fan, greeted, settled, late,
                 again, raced>>

Spawns(s) ==
  /\ stage[s] = "spawn"
  /\ stage' = [stage EXCEPT ![s] = "start"]
  /\ acc' = None
  /\ UNCHANGED <<bypass, fd, down, fresh, mtx, slots, shot, fan, histories>>

\* Mutant of SpawnFails: the slot is forgotten.
SpawnFailsOnly(s) ==
  /\ stage[s] = "spawn"
  /\ stage' = [stage EXCEPT ![s] = "none"]
  /\ acc' = None
  /\ UNCHANGED <<bypass, fd, down, fresh, mtx, slots, shot, fan, histories>>

\* No task: accept_task closes the client itself, without S.mtx.
SpawnFails(s) ==
  /\ stage[s] = "spawn"
  /\ stage' = [stage EXCEPT ![s] = "closing"]
  /\ UNCHANGED <<bypass, fd, down, fresh, acc, mtx, slots, shot, fan, histories>>

-----------------------------------------------------------------------------
(* client_task                                                             *)

\* schedule_hello in bypass mode: the source says hello itself.
Skips(s) ==
  /\ stage[s] = "start" /\ bypass
  /\ awaiting' = [awaiting EXCEPT ![s] = FALSE]
  /\ settled' = settled \cup {owner[s]}
  /\ stage' = [stage EXCEPT ![s] = "recv"]
  /\ UNCHANGED <<bypass, fd, down, fresh, acc, mtx, sock, active, timer, repeating, orphans,
                 shot, fan, owner, greeted, late, again, raced, lost>>

CreatesTimer(s) ==
  /\ stage[s] = "start" /\ ~bypass
  /\ \/ /\ timer' = [timer EXCEPT ![s] = "idle"]
        /\ stage' = [stage EXCEPT ![s] = "created"]
     \/ /\ stage' = [stage EXCEPT ![s] = "recv"]          \* it could not be created
        /\ UNCHANGED timer
  /\ UNCHANGED <<bypass, fd, down, fresh, acc, mtx, sock, active, awaiting, repeating,
                 orphans, shot, fan, histories>>

Repeats(s) ==
  /\ stage[s] = "created"
  /\ repeating' = [repeating EXCEPT ![s] = TRUE]
  /\ stage' = [stage EXCEPT ![s] = "arm"]
  /\ UNCHANGED <<bypass, fd, down, fresh, acc, mtx, sock, active, awaiting, timer, orphans,
                 shot, fan, histories>>

\* esp_timer_start_once: refused if the timer is armed or gone.
Started(s) == timer' = [timer EXCEPT ![s] = IF @ = "idle" THEN "armed" ELSE @]

\* Mutant of Arms: the first hello is left to the repetition.
ArmsNot(s) ==
  /\ stage[s] = "arm"
  /\ stage' = [stage EXCEPT ![s] = "recv"]
  /\ UNCHANGED <<bypass, fd, down, fresh, acc, mtx, slots, shot, fan, histories>>

Arms(s) ==
  /\ stage[s] = "arm"
  /\ Started(s)
  /\ stage' = [stage EXCEPT ![s] = "recv"]
  /\ UNCHANGED <<bypass, fd, down, fresh, acc, mtx, sock, active, awaiting, repeating,
                 orphans, shot, fan, histories>>

\* Mutant of HostProbes: rfd's is not known.
HostProbesFhem == {"OS_GET_APP"}

\* FHEM's first frame, and Homegear's or rfd's
HostProbes == {"OS_GET_APP", "OS_CHANGE_APP"}

\* on_frame, for the first frame of either kind of host
Probed(s) ==
  /\ stage[s] = "recv" /\ ~bypass /\ awaiting[s] /\ sock[s] \notin down
  /\ \E cmd \in {"OS_GET_APP", "OS_CHANGE_APP"} :
       IF cmd \in HostProbes
         THEN /\ awaiting' = [awaiting EXCEPT ![s] = FALSE]
              /\ stage' = [stage EXCEPT ![s] = "probed"]
         ELSE /\ stage' = [stage EXCEPT ![s] = "answer"]
              /\ UNCHANGED awaiting
  /\ UNCHANGED <<bypass, fd, down, fresh, acc, mtx, sock, active, timer, repeating, orphans,
                 shot, fan, histories>>

\* respond_os
Answers(s) ==
  /\ stage[s] = "answer"
  /\ settled' = settled \cup {owner[s]}
  /\ stage' = [stage EXCEPT ![s] = "recv"]
  /\ UNCHANGED <<bypass, fd, down, fresh, acc, mtx, slots, shot, fan, owner, greeted, late,
                 again, raced, lost>>

\* recv says that the connection is over.
Ends(s) ==
  /\ stage[s] = "recv" /\ sock[s] \in down
  /\ stage' = [stage EXCEPT ![s] = "close"]
  /\ UNCHANGED <<bypass, fd, down, fresh, acc, mtx, slots, shot, fan, histories>>

Locks(s) ==
  /\ stage[s] = "close" /\ mtx = None
  /\ mtx' = s
  /\ stage' = [stage EXCEPT ![s] = "closing"]
  /\ UNCHANGED <<bypass, fd, down, fresh, acc, slots, shot, fan, histories>>

-----------------------------------------------------------------------------
(* cancel_hello, close_client                                              *)

\* What follows cancel_hello: the answer to the probe, or the socket
Done(at) == IF at \in {"probed", "stopped", "refused"} THEN "answer" ELSE "shut"

\* With what comes next if there is no timer to cancel
Hushes(s) ==
  /\ stage[s] \in {"probed", "closing"}
  /\ repeating' = [repeating EXCEPT ![s] = FALSE]
  /\ stage' = [stage EXCEPT ![s] =
                 IF timer[s] = "none" THEN Done(@)
                 ELSE IF @ = "probed" THEN "hushed" ELSE "quiet"]
  /\ UNCHANGED <<bypass, fd, down, fresh, acc, mtx, sock, active, awaiting, timer, orphans,
                 shot, fan, histories>>

\* Mutant of StopsTimer: it is not stopped before it is deleted.
StopsTimerNot(s) ==
  /\ stage[s] \in {"hushed", "quiet"}
  /\ stage' = [stage EXCEPT ![s] = IF @ = "hushed" THEN "stopped" ELSE "halted"]
  /\ UNCHANGED <<bypass, fd, down, fresh, acc, mtx, slots, shot, fan, histories>>

\* esp_timer_stop
StopsTimer(s) ==
  /\ stage[s] \in {"hushed", "quiet"}
  /\ timer' = [timer EXCEPT ![s] = "idle"]
  /\ stage' = [stage EXCEPT ![s] = IF @ = "hushed" THEN "stopped" ELSE "halted"]
  /\ UNCHANGED <<bypass, fd, down, fresh, acc, mtx, sock, active, awaiting, repeating,
                 orphans, shot, fan, histories>>

\* esp_timer_delete: from here on it cannot be started, by its handle nor by NULL.
DeletesTimer(s) ==
  /\ stage[s] \in {"stopped", "halted"} /\ timer[s] = "idle"
  /\ timer' = [timer EXCEPT ![s] = "none"]
  /\ raced' = raced \ {s}
  /\ stage' = [stage EXCEPT ![s] = Done(@)]
  /\ UNCHANGED <<bypass, fd, down, fresh, acc, mtx, sock, active, awaiting, repeating,
                 orphans, shot, fan, owner, greeted, settled, late, again, lost>>

\* An armed timer is not deleted ...
DeleteRefused(s) ==
  /\ stage[s] \in {"stopped", "halted"} /\ timer[s] = "armed"
  /\ stage' = [stage EXCEPT ![s] = IF @ = "stopped" THEN "refused" ELSE "kept"]
  /\ UNCHANGED <<bypass, fd, down, fresh, acc, mtx, slots, shot, fan, histories>>

\* ... and the handle is set to NULL all the same.
ForgetsTimer(s) ==
  /\ stage[s] \in {"refused", "kept"}
  /\ timer' = [timer EXCEPT ![s] = "none"]
  /\ orphans' = IF timer[s] = "armed" THEN [orphans EXCEPT ![s] = @ + 1] ELSE orphans
  /\ lost' = (lost \/ s \notin raced)
  /\ raced' = raced \ {s}
  /\ stage' = [stage EXCEPT ![s] = Done(@)]
  /\ UNCHANGED <<bypass, fd, down, fresh, acc, mtx, sock, active, awaiting, repeating, shot,
                 fan, owner, greeted, settled, late, again>>

\* The socket is closed, and the slot is free: one step, since the trampoline may have
\* read the descriptor before.
ClosesClient(s) ==
  /\ stage[s] = "shut"
  /\ Closed(sock[s])
  /\ sock' = [sock EXCEPT ![s] = None]
  /\ active' = [active EXCEPT ![s] = FALSE]
  /\ stage' = [stage EXCEPT ![s] = "none"]
  /\ mtx' = IF mtx = s THEN None ELSE mtx
  /\ acc' = IF acc = s THEN None ELSE acc
  /\ owner' = [owner EXCEPT ![s] = None] /\ greeted' = greeted \ {owner[s]}
  /\ UNCHANGED <<bypass, fresh, awaiting, timer, repeating, orphans, shot, fan, settled,
                 late, again, raced, lost>>

-----------------------------------------------------------------------------
(* The esp_timer task: hello_trampoline                                    *)

Fires(s) ==
  /\ shot = NoShot /\ timer[s] = "armed"
  /\ timer' = [timer EXCEPT ![s] = "idle"]
  /\ shot' = [NoShot EXCEPT !.at = "entered", !.slot = s]
  /\ UNCHANGED <<bypass, fd, down, fresh, acc, mtx, sock, active, awaiting, repeating,
                 orphans, stage, fan, histories>>

\* A timer without a handle calls back for its slot like any other, once: what it starts
\* again is the slot's timer of the day.
OrphanFires(s) ==
  /\ shot = NoShot /\ orphans[s] > 0
  /\ orphans' = [orphans EXCEPT ![s] = @ - 1]
  /\ shot' = [NoShot EXCEPT !.at = "entered", !.slot = s]
  /\ UNCHANGED <<bypass, fd, down, fresh, acc, mtx, sock, active, awaiting, timer, repeating,
                 stage, fan, histories>>

LooksActive(s) ==
  /\ shot.at = "entered"
  /\ shot' = IF active[s] THEN [shot EXCEPT !.at = "active"] ELSE NoShot
  /\ UNCHANGED <<bypass, fd, down, fresh, acc, mtx, slots, stage, fan, histories>>

LooksAwaiting(s) ==
  /\ shot.at = "active"
  /\ shot' = [shot EXCEPT !.at = IF awaiting[s] THEN "hello" ELSE "quiet"]
  /\ UNCHANGED <<bypass, fd, down, fresh, acc, mtx, slots, stage, fan, histories>>

Quiets(s) ==
  /\ shot.at = "quiet"
  /\ repeating' = [repeating EXCEPT ![s] = FALSE]
  /\ shot' = NoShot
  /\ UNCHANGED <<bypass, fd, down, fresh, acc, mtx, sock, active, awaiting, timer, orphans,
                 stage, fan, histories>>

\* send_frame reads c->sock ...
ReadsSock(s) ==
  /\ shot.at = "hello"
  /\ shot' = IF sock[s] = None THEN [shot EXCEPT !.at = "after"]
             ELSE [shot EXCEPT !.at = "send", !.fd = sock[s]]
  /\ UNCHANGED <<bypass, fd, down, fresh, acc, mtx, slots, stage, fan, histories>>

\* ... and sends to whatever connection has the descriptor now.
SendsHello ==
  /\ shot.at = "send"
  /\ LET c == fd[shot.fd]
     IN  IF c \in Conns
           THEN /\ greeted' = greeted \cup {c}
                /\ late' = IF c \in settled THEN late \cup {c} ELSE late
                /\ again' = (again \/ c \in late)
           ELSE UNCHANGED <<greeted, late, again>>
  /\ shot' = [shot EXCEPT !.at = "after", !.fd = None]
  /\ UNCHANGED <<bypass, fd, down, fresh, acc, mtx, slots, stage, fan, owner, settled, raced,
                 lost>>

LooksRepeating(s) ==
  /\ shot.at = "after"
  /\ shot' = IF repeating[s] THEN [shot EXCEPT !.at = "rearm"] ELSE NoShot
  /\ UNCHANGED <<bypass, fd, down, fresh, acc, mtx, slots, stage, fan, histories>>

Rearms(s) ==
  /\ shot.at = "rearm"
  /\ Started(s)
  /\ raced' = IF stage[s] \in {"stopped", "halted"} THEN raced \cup {s} ELSE raced
  /\ shot' = NoShot
  /\ UNCHANGED <<bypass, fd, down, fresh, acc, mtx, sock, active, awaiting, repeating,
                 orphans, stage, fan, owner, greeted, settled, late, again, lost>>

TimerTask ==
  \/ \E s \in Slots : Fires(s) \/ OrphanFires(s)
  \/ \E s \in Slots \cap {shot.slot} :
       \/ LooksActive(s) \/ LooksAwaiting(s) \/ Quiets(s)
       \/ ReadsSock(s) \/ SendsHello \/ LooksRepeating(s) \/ Rearms(s)

-----------------------------------------------------------------------------
(* The source's RX task: s_on_source_rx in bypass mode                     *)

Snapshots ==
  /\ fan.socks = {} /\ fan.failed = None
  /\ bypass /\ mtx = None
  /\ fan' = [fan EXCEPT !.socks = {sock[s] : s \in {t \in Slots : active[t]}} \ {None}]
  /\ UNCHANGED <<bypass, fd, down, fresh, acc, mtx, slots, stage, shot, histories>>

\* The chunk is sent, or dropped (EAGAIN); the descriptor of a closed connection, or of
\* one that is over, gives an error.
Copies(f) ==
  /\ f \in fan.socks /\ fan.failed = None
  /\ \/ /\ fd[f] # None
        /\ fan' = [fan EXCEPT !.socks = @ \ {f}]
     \/ /\ fd[f] = None \/ f \in down
        /\ fan' = [socks |-> fan.socks \ {f}, failed |-> f]
  /\ UNCHANGED <<bypass, fd, down, fresh, acc, mtx, slots, stage, shot, histories>>

\* Mutant of Shuts: the fan-out closes the socket.
ShutsAndCloses ==
  /\ fan.failed # None
  /\ Closed(fan.failed)
  /\ fan' = [fan EXCEPT !.failed = None]
  /\ UNCHANGED <<bypass, fresh, acc, mtx, slots, stage, shot, histories>>

\* shutdown, of the connection that has the descriptor by now.
Shuts ==
  /\ fan.failed # None
  /\ down' = IF fd[fan.failed] = None THEN down ELSE down \cup {fan.failed}
  /\ fan' = [fan EXCEPT !.failed = None]
  /\ UNCHANGED <<bypass, fd, fresh, acc, mtx, slots, stage, shot, histories>>

FanOut == Shuts \/ \E f \in Fds : Copies(f)

-----------------------------------------------------------------------------

AcceptTask == Rejects \/ \E s \in Slots : Gives(s) \/ Spawns(s) \/ SpawnFails(s)

CancelHello(s) ==
  \/ Hushes(s) \/ StopsTimer(s)
  \/ DeletesTimer(s) \/ DeleteRefused(s) \/ ForgetsTimer(s)

ClientTask(s) ==
  \/ Skips(s) \/ CreatesTimer(s) \/ Repeats(s) \/ Arms(s) \/ Answers(s)
  \/ Ends(s) \/ Locks(s) \/ CancelHello(s) \/ ClosesClient(s)

HCNext ==
  \/ Switches
  \/ \E f \in Fds : PeerLeaves(f) \/ OtherTakes(f) \/ OtherLeaves(f) \/ Connects(f)
  \/ AcceptTask
  \/ \E s \in Slots : ClientTask(s) \/ Probed(s)
  \/ TimerTask
  \/ Snapshots \/ FanOut

\* Every task runs when it can, and the timer fires.
HCFairness ==
  /\ WF_hcVars(AcceptTask)
  /\ \A s \in Slots : WF_hcVars(ClientTask(s))
  /\ WF_hcVars(TimerTask)

HCSpec == HCInit /\ [][HCNext]_hcVars /\ HCFairness

-----------------------------------------------------------------------------
(* Properties                                                              *)

\* A task never reads or writes another connection than the one its slot was given for,
\* although descriptors are reused and the fan-out and the timer use old ones.
OwnConnection ==
  \A s \in Slots :
    stage[s] # "none" => sock[s] # None /\ fd[sock[s]] = owner[s] /\ owner[s] # None

\* "Co_CPU_BL" after its probe was answered, or although it came in bypass mode, reaches
\* a client at most once: the timer's callback may be past its checks just then.
AtMostOneLateHello == ~again

\* A timer is lost, and nobody can stop or delete it any more, in one case only: a callback
\* that was past its look at hello_repeating starts it again between the stop and the
\* delete of cancel_hello, which ignores that the delete is refused.
LostOnlyIfRaced == ~lost

AwaitsProbe(s) == awaiting[s] /\ stage[s] \in {"arm", "recv"}

\* A client whose timer could be created gets its first hello, whatever the callback for
\* the slot's last client is still doing, unless it probes or leaves before.
Greeted ==
  \A s \in Slots : stage[s] = "arm" ~> (owner[s] \in greeted \/ ~AwaitsProbe(s))

\* The slot of a connection that is over, or that got no task, becomes free.
SlotsComeBack ==
  \A s \in Slots :
    active[s] /\ (stage[s] = "none" \/ sock[s] \in down) ~> ~active[s]

=============================================================================
