------------------------------- MODULE HbRfEth ------------------------------
(***************************************************************************)
(* sink_hbrfeth.c: the HB-RF-ETH UDP tunnel.  Three tasks share the client *)
(* table under S.mtx: rx_task handles one packet at a time, the esp_timer  *)
(* task sweeps the table once a second, and the task of each source calls  *)
(* on_rx.  A section under the mutex is one action, except T_RESET, which  *)
(* keeps the mutex while the module is reset.                              *)
(*                                                                         *)
(* A packet with a bad CRC changes nothing.  The endpoint id and tx_counter*)
(* are only written into replies and are left out, and so are the          *)
(* statistics but for active_clients.                                      *)
(***************************************************************************)
EXTENDS Integers, FiniteSets

CONSTANTS
  NSlots,      \* SINK_HBRFETH_MAX_CLIENTS
  Addrs,       \* (IP, port) pairs packets come from
  Ip,          \* the IP of each
  Pumps,       \* the tasks that call on_rx, one per source
  KaTimeout,   \* KA_TIMEOUT_US, in clock ticks
  MaxLag,      \* bound: ticks the timer task may wait for S.mtx
  Wrap,        \* 2^64 of the uint64_t that holds an elapsed time
  None         \* no address: the slot is not connected

ASSUME HbAssumption ==
  /\ NSlots \in Nat \ {0}
  /\ KaTimeout \in Nat
  /\ MaxLag \in Nat
  /\ Wrap \in Nat /\ Wrap > 2 * (KaTimeout + MaxLag + 1)
  /\ None \notin Addrs
  /\ DOMAIN Ip = Addrs

VARIABLES
  addr,        \* clients[i].ip and .port, or None while ~clients[i].connected
  started,     \* clients[i].started
  age,         \* now - clients[i].last_rx_us, counted up to OldAge
  active,      \* stats.active_clients
  rx,          \* where rx_task is: waiting, in T_RESET, or in the bridge
  lag,         \* ticks since keepalive_tick read its `now`, or Idle
  frames,      \* the recipients a call of on_rx has still to emit to
  late         \* history: frames each pump sent an address it had not started

table == <<addr, started, age, active>>
vars == <<table, rx, lag, frames, late>>

Slots == 1 .. NSlots
Idle  == -1

\* An age that is over the timeout however long the timer task has waited.
OldAge == KaTimeout + MaxLag + 1

TypeOK ==
  /\ addr \in [Slots -> Addrs \cup {None}]
  /\ started \in [Slots -> BOOLEAN]
  /\ age \in [Slots -> 0 .. OldAge]
  /\ active \in Int
  /\ rx \in {"waiting", "reset", "bridge"}
  /\ lag \in 0 .. MaxLag \cup {Idle}
  /\ frames \in [Pumps -> SUBSET Addrs]
  /\ late \in [Pumps -> [Addrs -> 0 .. 2]]

Init ==
  /\ addr = [i \in Slots |-> None]
  /\ started = [i \in Slots |-> FALSE]
  /\ age = [i \in Slots |-> 0]
  /\ active = 0
  /\ rx = "waiting"
  /\ lag = Idle
  /\ frames = [p \in Pumps |-> {}]
  /\ late = [p \in Pumps |-> [a \in Addrs |-> 0]]

MtxFree == rx # "reset"

Connected == {i \in Slots : addr[i] # None}

\* find: the slots of address a.
SlotsOf(a) == {i \in Slots : addr[i] = a}

-----------------------------------------------------------------------------
(* handle_packet                                                           *)

\* client_disconnect of every slot in D: memset, and one client less for each.
Dropped(D) ==
  /\ addr' = [i \in Slots |-> IF i \in D THEN None ELSE addr[i]]
  /\ started' = [i \in Slots |-> IF i \in D THEN FALSE ELSE started[i]]
  /\ age' = [i \in Slots |-> IF i \in D THEN 0 ELSE age[i]]
  /\ active' = active - Cardinality(D)

\* Mutant of SameIp: a host that comes back from another port keeps its old slot.
NoEviction(a) == {}

\* The slots find_or_create gives up when a new port of a known host connects.
SameIp(a) == {i \in Connected : Ip[addr[i]] = Ip[a]}

\* Mutant of Enter: an evicted client stays counted.
EnterUncounted(a, i, D) ==
  /\ addr' = [j \in Slots |-> IF j = i THEN a ELSE IF j \in D THEN None ELSE addr[j]]
  /\ started' = [j \in Slots |-> IF j \in D \cup {i} THEN FALSE ELSE started[j]]
  /\ age' = [j \in Slots |-> IF j \in D \cup {i} THEN 0 ELSE age[j]]
  /\ active' = active + 1

\* A client at address a takes slot i after those in D have been disconnected.
Enter(a, i, D) ==
  /\ addr' = [j \in Slots |-> IF j = i THEN a ELSE IF j \in D THEN None ELSE addr[j]]
  /\ started' = [j \in Slots |-> IF j \in D \cup {i} THEN FALSE ELSE started[j]]
  /\ age' = [j \in Slots |-> IF j \in D \cup {i} THEN 0 ELSE age[j]]
  /\ active' = active - Cardinality(D) + 1

\* The first free slot, if there is one; otherwise the CONNECT is rejected.
ConnectNew(a) ==
  /\ rx = "waiting"
  /\ SlotsOf(a) = {}
  /\ \E i \in Slots \ (Connected \ SameIp(a)) :
       /\ \A j \in 1 .. i - 1 : j \in Connected \ SameIp(a)
       /\ Enter(a, i, SameIp(a))
  /\ UNCHANGED <<rx, lag, frames, late>>

\* What a packet of a known client does to its slot.
Heard(a, s) ==
  /\ SlotsOf(a) # {}
  /\ started' = [i \in Slots |-> IF addr[i] = a THEN s[i] ELSE started[i]]
  /\ age' = [i \in Slots |-> IF addr[i] = a THEN 0 ELSE age[i]]
  /\ UNCHANGED <<addr, active>>

ConnectAgain(a) ==
  /\ rx = "waiting"
  /\ Heard(a, [i \in Slots |-> FALSE])
  /\ UNCHANGED <<rx, lag, frames, late>>

Disconnect(a) ==
  /\ rx = "waiting"
  /\ SlotsOf(a) # {}
  /\ Dropped(SlotsOf(a))
  /\ UNCHANGED <<rx, lag, frames, late>>

\* T_KEEPALIVE, T_LED and unknown types
KeepAlive(a) ==
  /\ rx = "waiting"
  /\ Heard(a, started)
  /\ UNCHANGED <<rx, lag, frames, late>>

StartConn(a) ==
  /\ rx = "waiting"
  /\ Heard(a, [i \in Slots |-> TRUE])
  /\ late' = [p \in Pumps |-> [late[p] EXCEPT ![a] = 0]]
  /\ UNCHANGED <<rx, lag, frames>>

StopConn(a) ==
  /\ rx = "waiting"
  /\ Heard(a, [i \in Slots |-> FALSE])
  /\ UNCHANGED <<rx, lag, frames, late>>

\* T_RESET: source_uart_pulse_rst_only runs with S.mtx held.
Reset(a) ==
  /\ rx = "waiting"
  /\ Heard(a, started)
  /\ rx' = "reset"
  /\ UNCHANGED <<lag, frames, late>>

\* T_FRAME: bridge_tx_to_source runs after S.mtx has been given back.
Frame(a) ==
  /\ rx = "waiting"
  /\ Heard(a, started)
  /\ rx' = "bridge"
  /\ UNCHANGED <<lag, frames, late>>

RxReturns ==
  /\ rx # "waiting"
  /\ rx' = "waiting"
  /\ UNCHANGED <<table, lag, frames, late>>

-----------------------------------------------------------------------------
(* keepalive_tick                                                          *)

KaReadsNow ==
  /\ lag = Idle
  /\ lag' = 0
  /\ UNCHANGED <<table, rx, frames, late>>

\* (uint64_t)(now - c->last_rx_us) > KA_TIMEOUT_US, with the `now` read before
\* the mutex was taken.
Elapsed(i) == (age[i] - lag) % Wrap
Expired == {i \in Connected : Elapsed(i) > KaTimeout}

\* Mutant of KaSweeps: the keepalive that is sent counts as one received.
KaSweepsAndRefreshes ==
  /\ lag # Idle
  /\ MtxFree
  /\ addr' = [i \in Slots |-> IF i \in Expired THEN None ELSE addr[i]]
  /\ started' = [i \in Slots |-> IF i \in Expired THEN FALSE ELSE started[i]]
  /\ age' = [i \in Slots |-> 0]
  /\ active' = active - Cardinality(Expired)
  /\ lag' = Idle
  /\ UNCHANGED <<rx, frames, late>>

KaSweeps ==
  /\ lag # Idle
  /\ MtxFree
  /\ Dropped(Expired)
  /\ lag' = Idle
  /\ UNCHANGED <<rx, frames, late>>

-----------------------------------------------------------------------------
(* on_rx: the recipients are chosen under the mutex, the packets go out     *)
(* after it has been given back.                                           *)

Starters == {addr[i] : i \in {j \in Connected : started[j]}}

\* Mutant of Recipients: `started` is not looked at.
AllConnected == {addr[i] : i \in Connected}

Recipients == Starters

OnRx(p) ==
  /\ MtxFree
  /\ frames[p] = {}
  /\ frames' = [frames EXCEPT ![p] = Recipients]
  /\ UNCHANGED <<table, rx, lag, late>>

Emit(p) ==
  /\ frames[p] # {}
  /\ frames' = [frames EXCEPT ![p] = {}]
  /\ late' = [late EXCEPT ![p] =
                [a \in Addrs |-> IF a \in frames[p] \ Starters /\ late[p][a] < 2
                                   THEN late[p][a] + 1 ELSE late[p][a]]]
  /\ UNCHANGED <<table, rx, lag>>

-----------------------------------------------------------------------------

Older(n) == IF n < OldAge THEN n + 1 ELSE n

Tick ==
  /\ lag < MaxLag
  /\ lag' = IF lag = Idle THEN Idle ELSE lag + 1
  /\ age' = [i \in Slots |-> IF addr[i] = None THEN 0 ELSE Older(age[i])]
  /\ UNCHANGED <<addr, started, active, rx, frames, late>>

Packet(a) ==
  \/ ConnectNew(a)
  \/ ConnectAgain(a)
  \/ Disconnect(a)
  \/ KeepAlive(a)
  \/ StartConn(a)
  \/ StopConn(a)
  \/ Reset(a)
  \/ Frame(a)

Next ==
  \/ \E a \in Addrs : Packet(a)
  \/ RxReturns
  \/ KaReadsNow
  \/ KaSweeps
  \/ \E p \in Pumps : OnRx(p) \/ Emit(p)
  \/ Tick

Spec == Init /\ [][Next]_vars

\* The timer task has the highest priority of those that want S.mtx, so it gets
\* the mutex when it is given back (strong fairness); the reset and the bridge's
\* transmission end by their own timeouts.  No host is made to send anything.
FairSpec ==
  /\ Spec
  /\ WF_vars(Tick)
  /\ WF_vars(RxReturns)
  /\ WF_vars(KaReadsNow)
  /\ SF_vars(KaSweeps)

-----------------------------------------------------------------------------
(* Properties                                                              *)

\* active_clients, kept up by increments on four paths (connect, eviction,
\* disconnect, timeout), is the number of connected slots (sink_hbrfeth.c:84-107,
\* 194-198, 377).
CountMatches == active = Cardinality(Connected)

\* A host has one slot at most, whatever ports it retries from and whatever the
\* timer does in between (sink_hbrfeth.c:77-87).
OneSlotPerIp ==
  \A i, j \in Connected : Ip[addr[i]] = Ip[addr[j]] => i = j

\* ... and gets no chunk twice, although a fan-out sends to addresses it has chosen before
\* (sink_hbrfeth.c:402-427): a host's retries never compete with each other.  That two
\* programs on one host can't be clients at once is the other side of it, and contradicts
\* sink_hbrfeth.h:25, which promises every (IP, port) a slot.
OncePerHost ==
  /\ OneSlotPerIp
  /\ \A p \in Pumps : \A a, b \in frames[p] : Ip[a] = Ip[b] => a = b

\* An address that is not (or no longer) started gets at most one frame from each
\* source: the one whose recipients had been chosen before (sink_hbrfeth.c:402-427).
AtMostOneLateFrame == \A p \in Pumps, a \in Addrs : late[p][a] <= 1

\* A client that keeps its slot for ever goes on sending for ever: a host that has
\* gone without a DISCONNECT loses its slot (sink_hbrfeth.c:354-379).
SilentClientIsDropped ==
  \A a \in Addrs : <>[](SlotsOf(a) # {}) => []<><<Packet(a)>>_vars

\* What sink_hbrfeth.h:18 says of the keepalive: the timer drops a client only
\* after it has sent nothing for the length of the timeout.
TimeoutMeansSilence ==
  [][ lag # Idle /\ lag' = Idle
      => \A i \in Connected : addr'[i] = None => age[i] > KaTimeout ]_vars
=============================================================================
