------------------------------- MODULE Bridge -------------------------------
(***************************************************************************)
(* bridge.c: the one component that knows which source (USB stick or UART  *)
(* module) feeds which sinks (debug, rawuart, hbrfeth, hmu), and the soft  *)
(* lock that decides which sink may transmit.                              *)
(*                                                                         *)
(* s_br.mtx is never held across a call into a source or a sink, so every  *)
(* critical section is one action; what a task does between two of them    *)
(* is the program counter of that task.  The statistics of s_br.stats and  *)
(* the reject counters influence nothing and are left out, and so is       *)
(* who == NULL, which no caller in the tree passes.                        *)
(***************************************************************************)
EXTENDS Integers, Sequences

CONSTANTS
  Sources,     \* the source_t objects
  Sinks,       \* the sink_t objects
  Tasks,       \* the tasks that call bridge_tx_to_source
  Who,         \* the sink each of them names as the sender
  MaxSinks,    \* BRIDGE_MAX_SINKS
  IdleLimit,   \* BRIDGE_TX_AUTO_IDLE_US, in clock ticks
  NoSource,    \* s_br.source == NULL
  NoSink       \* tx_owner_idx == -1

ASSUME BridgeAssumption ==
  /\ NoSource \notin Sources
  /\ NoSink \notin Sinks
  /\ Who \in [Tasks -> Sinks]
  /\ MaxSinks \in Nat
  /\ IdleLimit \in Nat

VARIABLES
  ready,       \* what ops->ready of each source answers
  source,      \* s_br.source
  rx_sink,     \* source_t.rx_sink is bridge_on_source_rx (else NULL)
  sinks,       \* s_br.sinks, in the order of registration
  tx_mode,     \* s_br.tx_mode
  tx_owner,    \* the sink at s_br.tx_owner_idx, or NoSink
  silence,     \* now - s_br.tx_last_us, counted up to IdleLimit + 1
  pc, src,     \* where each task is in bridge_tx_to_source, and its snapshot
  rx,          \* where each source's RX path is
  heard,       \* history: ticks since the owner, as owner, completed a TX
  late         \* history: chunks fanned out since the source was unhooked

lockVars == <<tx_mode, tx_owner, silence, heard>>
wireVars == <<source, rx_sink, sinks, late>>
taskVars == <<pc, src>>
vars == <<ready, wireVars, lockVars, taskVars, rx>>

Never == -1
Ages  == 0 .. IdleLimit + 1

TypeOK ==
  /\ ready \in [Sources -> BOOLEAN]
  /\ source \in Sources \cup {NoSource}
  /\ rx_sink \in [Sources -> BOOLEAN]
  /\ sinks \in Seq(Sinks)
  /\ tx_mode \in {"AUTO", "PINNED"}
  /\ tx_owner \in Sinks \cup {NoSink}
  /\ silence \in Ages
  /\ pc \in [Tasks -> {"idle", "checked", "sending", "returned"}]
  /\ src \in [Tasks -> Sources \cup {NoSource}]
  /\ rx \in [Sources -> {"idle", "called"}]
  /\ heard \in Ages \cup {Never}
  /\ late \in [Sources -> 0 .. 2]

Attached == {sinks[i] : i \in 1 .. Len(sinks)}

\* One more, up to the bound above which nothing compares it.
Older(age) == IF age > IdleLimit THEN age ELSE age + 1

Init ==
  /\ ready = [s \in Sources |-> FALSE]
  /\ source = NoSource
  /\ rx_sink = [s \in Sources |-> FALSE]
  /\ sinks = <<>>
  /\ tx_mode = "AUTO"
  /\ tx_owner = NoSink
  /\ silence = 0
  /\ pc = [t \in Tasks |-> "idle"]
  /\ src = [t \in Tasks |-> NoSource]
  /\ rx = [s \in Sources |-> "idle"]
  /\ heard = Never
  /\ late = [s \in Sources |-> 0]

-----------------------------------------------------------------------------
(* Wiring *)

\* Mutant of Rehooked: a swap leaves the old source hooked.
RehookedKeepingOld(s) == [rx_sink EXCEPT ![s] = TRUE]

\* The rx_sink fields after s has been attached: the source that was attached
\* before loses its hook.
Rehooked(s) ==
  [x \in Sources |-> IF x = s THEN TRUE
                     ELSE IF x = source THEN FALSE ELSE rx_sink[x]]

AttachSource(s) ==
  /\ source' = s
  /\ rx_sink' = Rehooked(s)
  /\ late' = [late EXCEPT ![s] = 0]
  /\ UNCHANGED <<ready, sinks, lockVars, taskVars, rx>>

DetachSource(s) ==
  /\ source = s
  /\ rx_sink' = [rx_sink EXCEPT ![s] = FALSE]
  /\ source' = NoSource
  /\ UNCHANGED <<ready, sinks, late, lockVars, taskVars, rx>>

\* ESP_ERR_NO_MEM leaves the list as it is; app_main ignores it.
AttachSink(k) ==
  /\ k \notin Attached
  /\ sinks' = IF Len(sinks) < MaxSinks THEN Append(sinks, k) ELSE sinks
  /\ UNCHANGED <<ready, source, rx_sink, late, lockVars, taskVars, rx>>

-----------------------------------------------------------------------------
(* RX: the source's own task reads its rx_sink and calls it, if there is   *)
(* one; the call fans the chunk out to the sinks it finds in the list.      *)

\* uart_rx_task and cdc_data_cb test rx_sink and then call what they read anew; no swap
\* is possible between the two here.
SourceRx(s) ==
  /\ rx[s] = "idle"
  /\ rx_sink[s]
  /\ rx' = [rx EXCEPT ![s] = "called"]
  /\ UNCHANGED <<ready, wireVars, lockVars, taskVars>>

\* bridge_on_source_rx: a sink is never unregistered, so the snapshot it takes
\* is good for as long as it uses it.  What a sink does with a chunk is in the
\* module of that sink.
OnSourceRx(s) ==
  /\ rx[s] = "called"
  /\ rx' = [rx EXCEPT ![s] = "idle"]
  /\ late' = IF source # s /\ late[s] < 2
               THEN [late EXCEPT ![s] = late[s] + 1] ELSE late
  /\ UNCHANGED <<ready, source, rx_sink, sinks, lockVars, taskVars>>

-----------------------------------------------------------------------------
(* TX: bridge_tx_to_source                                                 *)

\* Mutant of TxSnapshot: it asks for a ready source, not for the attached one.
TxSnapshotOfReady(t) ==
  /\ pc[t] = "idle"
  /\ \E s \in Sources : ready[s] /\ src' = [src EXCEPT ![t] = s]
  /\ pc' = [pc EXCEPT ![t] = "checked"]
  /\ UNCHANGED <<ready, wireVars, lockVars, rx>>

\* ESP_ERR_INVALID_STATE only counts a drop: the task stays idle.
TxSnapshot(t) ==
  /\ pc[t] = "idle"
  /\ source # NoSource
  /\ ready[source]
  /\ pc' = [pc EXCEPT ![t] = "checked"]
  /\ src' = [src EXCEPT ![t] = source]
  /\ UNCHANGED <<ready, wireVars, lockVars, rx>>

\* Mutant of Free: the idle window ends one tick early.
FreeOneEarly == tx_owner = NoSink \/ silence >= IdleLimit

\* What the code calls `idle`.
Free == tx_owner = NoSink \/ silence > IdleLimit

\* Mutant of Allowed: the mode is not looked at.
AllowedInAnyMode(k) == k \in Attached /\ (k = tx_owner \/ Free)

\* What the code calls `allowed`.
Allowed(k) ==
  /\ k \in Attached
  /\ k = tx_owner \/ (tx_mode = "AUTO" /\ Free)

TxAdmit(t) ==
  /\ pc[t] = "checked"
  /\ Allowed(Who[t])
  /\ pc' = [pc EXCEPT ![t] = "sending"]
  /\ tx_owner' = IF tx_mode = "AUTO" THEN Who[t] ELSE tx_owner
  /\ heard' = IF Who[t] = tx_owner THEN heard ELSE Never
  /\ UNCHANGED <<ready, wireVars, tx_mode, silence, src, rx>>

\* Mutant of TxReject: a refused attempt restarts the idle window.
TxRejectRefreshing(t) ==
  /\ pc[t] = "checked"
  /\ ~Allowed(Who[t])
  /\ pc' = [pc EXCEPT ![t] = "idle"]
  /\ src' = [src EXCEPT ![t] = NoSource]
  /\ silence' = 0
  /\ UNCHANGED <<ready, wireVars, tx_mode, tx_owner, heard, rx>>

\* BRIDGE_ERR_TX_LOCKED
TxReject(t) ==
  /\ pc[t] = "checked"
  /\ ~Allowed(Who[t])
  /\ pc' = [pc EXCEPT ![t] = "idle"]
  /\ src' = [src EXCEPT ![t] = NoSource]
  /\ UNCHANGED <<ready, wireVars, lockVars, rx>>

\* source_tx(src, ...) comes back, with ESP_OK or with an error.
TxReturn(t) ==
  /\ pc[t] = "sending"
  /\ \/ pc' = [pc EXCEPT ![t] = "returned"]
     \/ pc' = [pc EXCEPT ![t] = "idle"]
  /\ src' = [src EXCEPT ![t] = NoSource]
  /\ UNCHANGED <<ready, wireVars, lockVars, rx>>

TxRecord(t) ==
  /\ pc[t] = "returned"
  /\ pc' = [pc EXCEPT ![t] = "idle"]
  /\ silence' = 0
  /\ heard' = IF Who[t] = tx_owner THEN 0 ELSE heard
  /\ UNCHANGED <<ready, wireVars, tx_mode, tx_owner, src, rx>>

-----------------------------------------------------------------------------
(* bridge_set_tx_master: an unknown id is ESP_ERR_NOT_FOUND, no change.    *)

SetAuto ==
  /\ tx_mode' = "AUTO"
  /\ tx_owner' = NoSink
  /\ heard' = Never
  /\ UNCHANGED <<ready, wireVars, silence, taskVars, rx>>

Pin(k) ==
  /\ k \in Attached
  /\ tx_mode' = "PINNED"
  /\ tx_owner' = k
  /\ heard' = IF k = tx_owner THEN heard ELSE Never
  /\ UNCHANGED <<ready, wireVars, silence, taskVars, rx>>

-----------------------------------------------------------------------------
(* The surroundings: sources come up and go down, and time passes.         *)

ReadyChanges(s) ==
  /\ ready' = [ready EXCEPT ![s] = ~ready[s]]
  /\ UNCHANGED <<wireVars, lockVars, taskVars, rx>>

Tick ==
  /\ silence' = Older(silence)
  /\ heard' = IF heard = Never THEN Never ELSE Older(heard)
  /\ UNCHANGED <<ready, wireVars, tx_mode, tx_owner, taskVars, rx>>

SourceNext(s) ==
  \/ AttachSource(s)
  \/ DetachSource(s)
  \/ SourceRx(s)
  \/ OnSourceRx(s)
  \/ ReadyChanges(s)

SinkNext(k) == AttachSink(k) \/ Pin(k)

TaskNext(t) ==
  \/ TxSnapshot(t)
  \/ TxAdmit(t)
  \/ TxReject(t)
  \/ TxReturn(t)
  \/ TxRecord(t)

Next ==
  \/ \E s \in Sources : SourceNext(s)
  \/ \E k \in Sinks : SinkNext(k)
  \/ \E t \in Tasks : TaskNext(t)
  \/ SetAuto
  \/ Tick

Spec == Init /\ [][Next]_vars

\* Time passes, and a task inside bridge_tx_to_source gets on: mtx is held for
\* a few instructions and every source's tx is bounded by a timeout.  Nobody
\* is made to call the bridge in the first place.
Fairness ==
  /\ WF_vars(Tick)
  /\ \A t \in Tasks :
       /\ WF_vars(TxAdmit(t) \/ TxReject(t))
       /\ WF_vars(TxReturn(t))
       /\ WF_vars(TxRecord(t))

FairSpec == Spec /\ Fairness

-----------------------------------------------------------------------------
(* Properties                                                              *)

\* A source is hooked to the fan-out exactly while it is the attached one:
\* after any sequence of attach, swap and detach (bridge.c:60-90).
WiredIffAttached == \A s \in Sources : rx_sink[s] <=> source = s

\* The lock belongs to nobody or to a registered sink, and a pinned lock to a
\* registered sink: a pin can't leave every sender locked out (bridge.c:217-238).
OwnerIsAttached ==
  /\ tx_owner # NoSink => tx_owner \in Attached
  /\ tx_mode = "PINNED" => tx_owner # NoSink

\* A source that has been swapped out or detached puts at most one more chunk
\* into the fan-out, the one whose call had left before (bridge.c:123-144).
AtMostOneLateChunk == \A s \in Sources : late[s] <= 1

\* The tasks that have yet to finish with a source that isn't attached.
StaleTx == {t \in Tasks : src[t] \notin {source, NoSource}}

\* A swap or detach lets the calls in progress finish on the old source, and no
\* later call gets there (bridge.c:148-158, 207).
SwapDrains == [][ source' = source => StaleTx' \subseteq StaleTx ]_vars

\* In AUTO, once the owner has completed a transmission as owner, no other
\* sink gets the lock until that is more than IdleLimit ago, whatever the
\* other tasks, late completions and failures do (bridge.h:19-20).
LeaseHonoured ==
  [][ /\ tx_mode = "AUTO" /\ tx_mode' = "AUTO"
      /\ tx_owner # NoSink
      /\ tx_owner' \notin {tx_owner, NoSink}
      => heard = Never \/ heard > IdleLimit ]_vars

\* The tasks on their way into or out of a source whose sink is not the owner.
Foreign == {t \in Tasks : pc[t] \in {"sending", "returned"} /\ Who[t] # tx_owner}

\* While a pin stands, no task of another sink gets through to a source: those
\* that were already past the check drain, and none joins them (bridge.h:21-22).
PinDrains ==
  [][ /\ tx_mode = "PINNED" /\ tx_mode' = "PINNED"
      /\ tx_owner' = tx_owner
      => Foreign' \subseteq Foreign ]_vars

\* A sender that keeps trying while every other sink has gone quiet gets the
\* lock: the silent owner loses it (bridge.h:19-20).
Alone(t) ==
  /\ tx_mode = "AUTO"
  /\ Who[t] \in Attached
  /\ \A u \in Tasks : Who[u] # Who[t] => pc[u] = "idle"

Handover ==
  \A t \in Tasks :
    <>[]Alone(t) /\ []<>(pc[t] = "checked") => []<>(pc[t] = "sending")
=============================================================================
