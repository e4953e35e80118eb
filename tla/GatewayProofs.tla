---------------------------- MODULE GatewayProofs ---------------------------
(***************************************************************************)
(* What holds of the bridge for any number of sources, sinks and tasks and *)
(* any idle window; that all of it carries over to the firmware on top;    *)
(* that a flash session is disturbed at most once; and that one calm round *)
(* of the supervisor is enough.                                            *)
(***************************************************************************)
EXTENDS Gateway, TLAPS

-----------------------------------------------------------------------------
(* The bridge.  No fact about main.c is used here.                          *)

\* The idle window the code looks at never ends later than the one that counts
\* from the owner's own last completed transmission: other tasks' completions
\* only restart it.
SilenceBehind == heard # Never => silence <= heard

\* A chunk on its way from an unhooked source is the first one since.
LateBookkeeping ==
  \A s \in Sources :
    /\ late[s] <= 1
    /\ source = s \/ rx[s] = "called" => late[s] = 0

IInv ==
  /\ TypeOK
  /\ WiredIffAttached
  /\ OwnerIsAttached
  /\ SilenceBehind
  /\ LateBookkeeping

-----------------------------------------------------------------------------

\* Aging keeps an age in bounds and never reorders two ages.
LEMMA OlderIsAge ==
  ASSUME NEW a \in Ages, NEW b \in Ages, a <= b
  PROVE  /\ Older(a) \in Ages
         /\ Older(b) \in Ages
         /\ Older(a) <= Older(b)
  BY BridgeAssumption DEF Ages, Older

\* Registering a sink keeps the ones already registered.
LEMMA AppendKeepsAttached ==
  ASSUME sinks \in Seq(Sinks), NEW k \in Sinks, AttachSink(k)
  PROVE  /\ sinks' \in Seq(Sinks)
         /\ Attached \subseteq Attached'
  <1>1. CASE Len(sinks) < MaxSinks
    <2>1. sinks' = Append(sinks, k)
      BY <1>1 DEF AttachSink
    <2>2. /\ sinks' \in Seq(Sinks)
          /\ Len(sinks') = Len(sinks) + 1
          /\ \A i \in 1 .. Len(sinks) : sinks'[i] = sinks[i]
      BY <2>1
    <2>3. 1 .. Len(sinks) \subseteq 1 .. Len(sinks')
      BY <2>2
    <2> QED BY <2>2, <2>3 DEF Attached
  <1>2. CASE ~(Len(sinks) < MaxSinks)
    BY <1>2 DEF AttachSink, Attached
  <1> QED BY <1>1, <1>2

\* The invariant the theorems rest on is inductive.
LEMMA Invariance == Spec => []IInv
<1>1. Init => IInv
  BY BridgeAssumption
     DEF Init, IInv, TypeOK, WiredIffAttached, OwnerIsAttached, SilenceBehind,
         LateBookkeeping, Attached, Ages, Never
<1>2. IInv /\ [Next]_vars => IInv'
  <2> SUFFICES ASSUME IInv, [Next]_vars PROVE IInv'
    OBVIOUS
  <2> USE BridgeAssumption DEF IInv, vars, wireVars, lockVars, taskVars
  <2>1. ASSUME NEW s \in Sources, AttachSource(s) PROVE IInv'
    <3>1. TypeOK'
      <4>1. Rehooked(s) \in [Sources -> BOOLEAN]
        BY Zenon DEF Rehooked, TypeOK
      <4>2. rx_sink' \in [Sources -> BOOLEAN]
        BY <2>1, <4>1 DEF AttachSource
      <4>3. late' \in [Sources -> 0 .. 2]
        BY <2>1 DEF AttachSource, TypeOK
      <4> QED BY <2>1, <4>2, <4>3 DEF AttachSource, TypeOK
    <3>2. WiredIffAttached'
      BY <2>1 DEF AttachSource, Rehooked, WiredIffAttached, TypeOK
    <3>3. OwnerIsAttached' BY <2>1 DEF AttachSource, OwnerIsAttached, Attached
    <3>4. SilenceBehind' BY <2>1 DEF AttachSource, SilenceBehind
    <3>5. LateBookkeeping'
      BY <2>1 DEF AttachSource, LateBookkeeping, TypeOK
    <3> QED BY <3>1, <3>2, <3>3, <3>4, <3>5
  <2>2. ASSUME NEW s \in Sources, DetachSource(s) PROVE IInv'
    <3>1. TypeOK' BY <2>2 DEF DetachSource, TypeOK
    <3>2. WiredIffAttached'
      BY <2>2 DEF DetachSource, WiredIffAttached, TypeOK
    <3>3. OwnerIsAttached' BY <2>2 DEF DetachSource, OwnerIsAttached, Attached
    <3>4. SilenceBehind' BY <2>2 DEF DetachSource, SilenceBehind
    <3>5. LateBookkeeping' BY <2>2 DEF DetachSource, LateBookkeeping, TypeOK
    <3> QED BY <3>1, <3>2, <3>3, <3>4, <3>5
  <2>3. ASSUME NEW s \in Sources, SourceRx(s) PROVE IInv'
    <3>1. TypeOK' BY <2>3 DEF SourceRx, TypeOK
    <3>2. WiredIffAttached' BY <2>3 DEF SourceRx, WiredIffAttached
    <3>3. OwnerIsAttached' BY <2>3 DEF SourceRx, OwnerIsAttached, Attached
    <3>4. SilenceBehind' BY <2>3 DEF SourceRx, SilenceBehind
    <3>5. LateBookkeeping'
      BY <2>3 DEF SourceRx, LateBookkeeping, WiredIffAttached, TypeOK
    <3> QED BY <3>1, <3>2, <3>3, <3>4, <3>5
  <2>4. ASSUME NEW s \in Sources, OnSourceRx(s) PROVE IInv'
    <3>1. TypeOK' BY <2>4 DEF OnSourceRx, TypeOK, LateBookkeeping
    <3>2. WiredIffAttached' BY <2>4 DEF OnSourceRx, WiredIffAttached
    <3>3. OwnerIsAttached' BY <2>4 DEF OnSourceRx, OwnerIsAttached, Attached
    <3>4. SilenceBehind' BY <2>4 DEF OnSourceRx, SilenceBehind
    <3>5. LateBookkeeping' BY <2>4 DEF OnSourceRx, LateBookkeeping, TypeOK
    <3> QED BY <3>1, <3>2, <3>3, <3>4, <3>5
  <2>5. ASSUME NEW s \in Sources, ReadyChanges(s) PROVE IInv'
    BY <2>5 DEF ReadyChanges, TypeOK, WiredIffAttached, OwnerIsAttached,
                Attached, SilenceBehind, LateBookkeeping
  <2>6. ASSUME NEW k \in Sinks, AttachSink(k) PROVE IInv'
    <3>1. sinks' \in Seq(Sinks) /\ Attached \subseteq Attached'
      BY <2>6, AppendKeepsAttached DEF TypeOK
    <3>2. UNCHANGED <<ready, source, rx_sink, late, lockVars, taskVars, rx>>
      BY <2>6 DEF AttachSink
    <3>3. TypeOK' BY <3>1, <3>2 DEF TypeOK
    <3>4. OwnerIsAttached' BY <3>1, <3>2 DEF OwnerIsAttached
    <3> QED BY <3>2, <3>3, <3>4 DEF WiredIffAttached, SilenceBehind, LateBookkeeping
  <2>7. ASSUME NEW k \in Sinks, Pin(k) PROVE IInv'
    <3>1. TypeOK' BY <2>7 DEF Pin, TypeOK
    <3>2. OwnerIsAttached' BY <2>7 DEF Pin, OwnerIsAttached, Attached
    <3> QED BY <2>7, <3>1, <3>2 DEF Pin, WiredIffAttached, SilenceBehind, LateBookkeeping
  <2>8. ASSUME NEW t \in Tasks, TxSnapshot(t) PROVE IInv'
    <3>1. TypeOK' BY <2>8 DEF TxSnapshot, TypeOK
    <3> QED BY <2>8, <3>1 DEF TxSnapshot, WiredIffAttached, OwnerIsAttached, Attached,
                              SilenceBehind, LateBookkeeping
  <2>9. ASSUME NEW t \in Tasks, TxAdmit(t) PROVE IInv'
    <3>1. TypeOK' BY <2>9 DEF TxAdmit, TypeOK
    <3>2. OwnerIsAttached' BY <2>9 DEF TxAdmit, Allowed, OwnerIsAttached, Attached
    <3>3. SilenceBehind' BY <2>9 DEF TxAdmit, SilenceBehind
    <3> QED BY <2>9, <3>1, <3>2, <3>3 DEF TxAdmit, WiredIffAttached, LateBookkeeping
  <2>10. ASSUME NEW t \in Tasks, TxReject(t) PROVE IInv'
    <3>1. TypeOK' BY <2>10 DEF TxReject, TypeOK
    <3> QED BY <2>10, <3>1 DEF TxReject, WiredIffAttached, OwnerIsAttached, Attached,
                               SilenceBehind, LateBookkeeping
  <2>11. ASSUME NEW t \in Tasks, TxReturn(t) PROVE IInv'
    <3>1. TypeOK' BY <2>11 DEF TxReturn, TypeOK
    <3> QED BY <2>11, <3>1 DEF TxReturn, WiredIffAttached, OwnerIsAttached, Attached,
                               SilenceBehind, LateBookkeeping
  <2>12. ASSUME NEW t \in Tasks, TxRecord(t) PROVE IInv'
    <3>1. TypeOK' BY <2>12 DEF TxRecord, TypeOK, Ages
    <3>2. SilenceBehind' BY <2>12 DEF TxRecord, SilenceBehind, TypeOK, Ages, Never
    <3> QED BY <2>12, <3>1, <3>2 DEF TxRecord, WiredIffAttached, OwnerIsAttached, Attached,
                                     LateBookkeeping
  <2>13. CASE SetAuto
    <3>1. TypeOK' BY <2>13 DEF SetAuto, TypeOK
    <3> QED BY <2>13, <3>1 DEF SetAuto, WiredIffAttached, OwnerIsAttached, Attached,
                               SilenceBehind, LateBookkeeping
  <2>14. CASE Tick
    <3>1. Older(silence) \in Ages
      BY OlderIsAge DEF TypeOK, Ages
    <3>2. heard # Never => /\ heard \in Ages
                           /\ Older(heard) \in Ages
                           /\ Older(silence) <= Older(heard)
      BY OlderIsAge DEF TypeOK, SilenceBehind
    <3>3. TypeOK' BY <2>14, <3>1, <3>2 DEF Tick, TypeOK
    <3>4. SilenceBehind' BY <2>14, <3>2 DEF Tick, SilenceBehind
    <3> QED BY <2>14, <3>3, <3>4 DEF Tick, WiredIffAttached, OwnerIsAttached, Attached,
                                     LateBookkeeping
  <2>15. CASE UNCHANGED vars
    BY <2>15 DEF TypeOK, WiredIffAttached, OwnerIsAttached, Attached, SilenceBehind,
                 LateBookkeeping
  <2> QED
    BY <2>1, <2>2, <2>3, <2>4, <2>5, <2>6, <2>7, <2>8, <2>9, <2>10, <2>11, <2>12,
       <2>13, <2>14, <2>15 DEF Next, SourceNext, SinkNext, TaskNext
<1> QED BY <1>1, <1>2, PTL DEF Spec

-----------------------------------------------------------------------------

\* Every variable keeps its type (bridge.c:17-31).
THEOREM TypeCorrect == Spec => []TypeOK
  BY Invariance, PTL DEF IInv

\* A source is hooked to the fan-out exactly while it is attached (bridge.c:60-90).
THEOREM Wiring == Spec => []WiredIffAttached
  BY Invariance, PTL DEF IInv

\* The lock is free or belongs to a registered sink (bridge.c:217-238).
THEOREM Ownership == Spec => []OwnerIsAttached
  BY Invariance, PTL DEF IInv

\* An unhooked source fans out at most one more chunk (bridge.c:123-144).
THEOREM LateChunks == Spec => []AtMostOneLateChunk
<1>1. IInv => AtMostOneLateChunk
  BY DEF IInv, LateBookkeeping, AtMostOneLateChunk
<1> QED BY <1>1, Invariance, PTL

\* Only a transmission's admission moves an AUTO lock from sink to sink, and the
\* idle window it went by ends no earlier than the owner's own (bridge.h:19-20).
THEOREM Lease == Spec => LeaseHonoured
<1> DEFINE Moved == /\ tx_mode = "AUTO" /\ tx_mode' = "AUTO"
                    /\ tx_owner # NoSink
                    /\ tx_owner' \notin {tx_owner, NoSink}
<1>1. IInv /\ [Next]_vars => [Moved => heard = Never \/ heard > IdleLimit]_vars
  <2> SUFFICES ASSUME IInv, Next, Moved, heard # Never PROVE heard > IdleLimit
    OBVIOUS
  <2>1. PICK t \in Tasks : TxAdmit(t)
    BY DEF Next, SourceNext, SinkNext, TaskNext, AttachSource, DetachSource, SourceRx,
           OnSourceRx, ReadyChanges, AttachSink, Pin, TxSnapshot, TxReject, TxReturn,
           TxRecord, SetAuto, Tick, lockVars
  <2>2. silence > IdleLimit
    BY <2>1 DEF TxAdmit, Allowed, Free
  <2>3. silence <= heard /\ heard \in Ages /\ silence \in Ages
    BY DEF IInv, TypeOK, SilenceBehind
  <2> QED BY <2>2, <2>3, BridgeAssumption DEF Ages
<1> QED BY <1>1, Invariance, PTL DEF Spec, LeaseHonoured

\* While a pin stands, no foreign task gets past the lock (bridge.h:21-22).
THEOREM PinnedExclusion == Spec => PinDrains
<1> DEFINE Stands == /\ tx_mode = "PINNED" /\ tx_mode' = "PINNED"
                     /\ tx_owner' = tx_owner
<1>1. IInv /\ [Next]_vars => [Stands => Foreign' \subseteq Foreign]_vars
  <2> SUFFICES ASSUME IInv, Next, Stands,
                      NEW u \in Tasks,
                      pc'[u] \in {"sending", "returned"}, Who[u] # tx_owner
               PROVE  pc[u] \in {"sending", "returned"}
    BY DEF Foreign
  <2> USE DEF TypeOK, IInv
  <2>1. CASE pc' = pc
    BY <2>1
  <2>2. ASSUME NEW t \in Tasks, TaskNext(t) PROVE pc[u] \in {"sending", "returned"}
    <3>1. CASE TxSnapshot(t) BY <3>1 DEF TxSnapshot
    <3>2. CASE TxAdmit(t) BY <3>2 DEF TxAdmit, Allowed
    <3>3. CASE TxReject(t) BY <3>3 DEF TxReject
    <3>4. CASE TxReturn(t) BY <3>4 DEF TxReturn
    <3>5. CASE TxRecord(t) BY <3>5 DEF TxRecord
    <3> QED BY <2>2, <3>1, <3>2, <3>3, <3>4, <3>5 DEF TaskNext
  <2> QED
    BY <2>1, <2>2 DEF Next, SourceNext, SinkNext, AttachSource, DetachSource, SourceRx,
       OnSourceRx, ReadyChanges, AttachSink, Pin, SetAuto, Tick, taskVars
<1> QED BY <1>1, Invariance, PTL DEF Spec, PinDrains

\* Only a change of the attached source makes a snapshot stale (bridge.c:148-158).
THEOREM Draining == Spec => SwapDrains
<1>1. IInv /\ [Next]_vars => [source' = source => StaleTx' \subseteq StaleTx]_vars
  <2> SUFFICES ASSUME IInv, Next, source' = source,
                      NEW u \in Tasks, src'[u] \notin {source, NoSource}
               PROVE  src[u] \notin {source, NoSource}
    BY DEF StaleTx
  <2> USE DEF TypeOK, IInv
  <2>1. CASE src' = src
    BY <2>1
  <2>2. ASSUME NEW t \in Tasks, TaskNext(t) PROVE src[u] \notin {source, NoSource}
    BY <2>2 DEF TaskNext, TxSnapshot, TxAdmit, TxReject, TxReturn, TxRecord
  <2> QED
    BY <2>1, <2>2 DEF Next, SourceNext, SinkNext, AttachSource, DetachSource, SourceRx,
       OnSourceRx, ReadyChanges, AttachSink, Pin, SetAuto, Tick, taskVars
<1> QED BY <1>1, Invariance, PTL DEF Spec, SwapDrains

-----------------------------------------------------------------------------
(* The firmware on top of it *)

\* The part of the type invariant that concerns main.c.
MainTypeOK ==
  /\ flash_lock \in BOOLEAN
  /\ boot \in 0 .. Len(SinkOrder) + 1
  /\ sup \in {"sleep", "locked?", "pin", "usb?", "uart?", "swap"}
  /\ cur \in Sources \cup {NoSource}
  /\ want \in Sources \cup {NoSource}
  /\ strays \in 0 .. 2

\* A stray swap takes a decision made before the lock; after it, the supervisor
\* finds the lock before it decides again.
StrayBookkeeping ==
  /\ strays <= 1
  /\ ~flash_lock \/ sup \in {"usb?", "uart?", "swap"} => strays = 0

GInv == MainTypeOK /\ StrayBookkeeping

\* The type of s_br.source is all that main.c needs to know of the bridge.
SourceType == source \in Sources \cup {NoSource}

-----------------------------------------------------------------------------

\* A step of the firmware is a step of the bridge, or leaves it alone.
LEMMA StepsSimulate ==
  ASSUME MainTypeOK, [GNext]_gvars
  PROVE  [Next]_vars
  <1> USE GatewayAssumption
  <1>1. CASE BootSource
    BY <1>1 DEF BootSource, Next, SourceNext
  <1>2. CASE BootSink
    <2>1. SinkOrder[boot] \in Sinks
      BY <1>2 DEF BootSink
    <2> QED BY <1>2, <2>1 DEF BootSink, Next, SinkNext
  <1>3. CASE Supervisor
    <2>1. CASE SupWakes \/ SupLocked \/ SupReadsUsb \/ SupReadsUart
      BY <2>1 DEF SupWakes, SupLocked, SupReadsUsb, SupReadsUart
    <2>2. CASE SupPins
      BY <2>2 DEF SupPins, Next, SourceNext
    <2>3. CASE SupSwaps
      <3>1. CASE want = cur
        BY <2>3, <3>1 DEF SupSwaps
      <3>2. CASE want # cur /\ want # NoSource
        <4>1. want \in Sources BY <3>2 DEF MainTypeOK
        <4>2. AttachSource(want) BY <2>3, <3>2 DEF SupSwaps
        <4> QED BY <4>1, <4>2 DEF Next, SourceNext
      <3>3. CASE want # cur /\ want = NoSource
        <4>1. cur \in Sources BY <3>3 DEF MainTypeOK
        <4>2. DetachSource(cur) BY <2>3, <3>3 DEF SupSwaps
        <4> QED BY <4>1, <4>2 DEF Next, SourceNext
      <3> QED BY <3>1, <3>2, <3>3
    <2> QED BY <1>3, <2>1, <2>2, <2>3 DEF Supervisor
  <1>4. CASE FlashLockChanges
    BY <1>4 DEF FlashLockChanges
  <1>5. ASSUME NEW t \in Tasks, SinkTask(t) PROVE Next
    BY <1>5 DEF SinkTask, Next
  <1>6. ASSUME NEW s \in Sources, SourceTask(s) PROVE Next
    BY <1>6 DEF SourceTask, Next, SourceNext
  <1>7. CASE WebUI
    BY <1>7 DEF WebUI, Next, SinkNext
  <1>8. CASE Clock
    BY <1>8 DEF Clock, Next
  <1>9. CASE UNCHANGED gvars
    BY <1>9 DEF gvars
  <1> QED BY <1>1, <1>2, <1>3, <1>4, <1>5, <1>6, <1>7, <1>8, <1>9 DEF GNext

\* The supervisor's variables keep their types and their bookkeeping.
LEMMA MainInvariance == GSpec => [](GInv /\ SourceType)
<1>1. GInit => GInv /\ SourceType
  <2> SUFFICES ASSUME GInit PROVE GInv /\ SourceType
    OBVIOUS
  <2>1. 0 \in 0 .. Len(SinkOrder) + 1
    <3>1. Len(SinkOrder) \in Nat
      BY GatewayAssumption
    <3> QED BY <3>1
  <2>2. MainTypeOK
    <3>1. flash_lock \in BOOLEAN BY DEF GInit
    <3>2. strays \in 0 .. 2 BY DEF GInit
    <3>3. /\ sup \in {"sleep", "locked?", "pin", "usb?", "uart?", "swap"}
          /\ cur \in Sources \cup {NoSource}
          /\ want \in Sources \cup {NoSource}
      BY DEF GInit
    <3> QED BY <2>1, <3>1, <3>2, <3>3 DEF GInit, MainTypeOK
  <2> QED BY <2>2 DEF GInit, Init, GInv, StrayBookkeeping, SourceType
<1>2. GInv /\ SourceType /\ [GNext]_gvars => (GInv /\ SourceType)'
  <2> SUFFICES ASSUME GInv, SourceType, [GNext]_gvars PROVE (GInv /\ SourceType)'
    OBVIOUS
  <2> USE GatewayAssumption DEF GInv, MainTypeOK, StrayBookkeeping, SourceType
  <2>1. CASE BootSource
    BY <2>1 DEF BootSource, AttachSource, vars, wireVars
  <2>2. CASE BootSink
    BY <2>2 DEF BootSink, AttachSink
  <2>3. CASE SupWakes
    BY <2>3 DEF SupWakes, vars, wireVars
  <2>4. CASE SupLocked
    BY <2>4 DEF SupLocked, vars, wireVars
  <2>5. CASE SupPins
    BY <2>5 DEF SupPins, AttachSource
  <2>6. CASE SupReadsUsb
    BY <2>6 DEF SupReadsUsb, vars, wireVars
  <2>7. CASE SupReadsUart
    BY <2>7 DEF SupReadsUart, vars, wireVars
  <2>8. CASE SupSwaps
    <3>1. SourceType'
      BY <2>8 DEF SupSwaps, AttachSource, DetachSource, vars, wireVars
    <3>2. sup = "swap" /\ sup' = "sleep" /\ strays = 0
      BY <2>8 DEF SupSwaps
    <3>3. strays' \in {strays, strays + 1} /\ (~flash_lock => strays' = strays)
      BY <2>8 DEF SupSwaps
    <3> QED BY <2>8, <3>1, <3>2, <3>3 DEF SupSwaps
  <2>9. CASE FlashLockChanges
    BY <2>9 DEF FlashLockChanges, vars, wireVars
  <2>10. ASSUME NEW t \in Tasks, SinkTask(t) PROVE (GInv /\ SourceType)'
    BY <2>10 DEF SinkTask, mainVars, wireVars, TaskNext, TxSnapshot, TxAdmit, TxReject,
                 TxReturn, TxRecord
  <2>11. ASSUME NEW s \in Sources, SourceTask(s) PROVE (GInv /\ SourceType)'
    BY <2>11 DEF SourceTask, mainVars, wireVars, SourceRx, OnSourceRx, ReadyChanges
  <2>12. CASE WebUI
    BY <2>12 DEF WebUI, mainVars, wireVars, SetAuto, Pin
  <2>13. CASE Clock
    BY <2>13 DEF Clock, mainVars, wireVars, Tick
  <2>14. CASE UNCHANGED gvars
    BY <2>14 DEF gvars, mainVars, vars, wireVars
  <2> QED
    BY <2>1, <2>2, <2>3, <2>4, <2>5, <2>6, <2>7, <2>8, <2>9, <2>10, <2>11, <2>12,
       <2>13, <2>14 DEF GNext, Supervisor
<1> QED BY <1>1, <1>2, PTL DEF GSpec

-----------------------------------------------------------------------------

\* Every step of app_main, the supervisor and the tasks is one of the bridge's own or none of it.
LEMMA Implements == GSpec => Spec
<1>1. GInit => Init
  BY DEF GInit
<1>2. GInv /\ [GNext]_gvars => [Next]_vars
  BY StepsSimulate DEF GInv
<1> QED BY <1>1, <1>2, MainInvariance, PTL DEF GSpec, Spec

\* What the bridge promises under any use, it keeps in the firmware: whatever the supervisor,
\* the boot order and the web interface do, the lease, the pin and a swap hold, and a source
\* that was swapped out is late with one chunk at most.
THEOREM FirmwareInherits ==
  GSpec => []AtMostOneLateChunk /\ LeaseHonoured /\ PinDrains /\ SwapDrains
  BY Implements, LateChunks, Lease, PinnedExclusion, Draining, Zenon

\* Every variable of the firmware keeps its type (main.c:46-113).
THEOREM GTypeCorrect == GSpec => []GTypeOK
<1>1. TypeOK /\ GInv => GTypeOK
  BY DEF GInv, MainTypeOK, GTypeOK
<1> QED BY <1>1, Implements, TypeCorrect, MainInvariance, PTL

\* A flash session loses the bridge to at most one swap (main.c:57-61, 88-94).
THEOREM FlashSession == GSpec => []AtMostOneStray
<1>1. GInv => AtMostOneStray
  BY DEF GInv, StrayBookkeeping, AtMostOneStray
<1> QED BY <1>1, MainInvariance, PTL

-----------------------------------------------------------------------------
(* The safety half of Settles: what a round of the supervisor comes to.    *)

\* Nobody but the supervisor moves the bridge's source once it runs, so that `cur' stays true
\* for the whole of its round.
RoundBookkeeping == sup # "sleep" => Booted /\ cur = source

LEMMA RoundInvariance == GSpec => []RoundBookkeeping
<1>1. GInit => RoundBookkeeping
  BY DEF GInit, RoundBookkeeping
<1>2. RoundBookkeeping /\ [GNext]_gvars => RoundBookkeeping'
  <2> SUFFICES ASSUME RoundBookkeeping, [GNext]_gvars PROVE RoundBookkeeping'
    OBVIOUS
  <2> USE DEF RoundBookkeeping, Booted
  <2>1. CASE BootSource
    <3>1. sup = "sleep"
      <4>1. 0 # Len(SinkOrder) + 1
        BY GatewayAssumption
      <4> QED BY <2>1, <4>1 DEF BootSource
    <3> QED BY <2>1, <3>1 DEF BootSource
  <2>2. CASE BootSink
    <3>1. sup = "sleep"
      <4>1. Len(SinkOrder) + 1 \notin 1 .. Len(SinkOrder)
        BY GatewayAssumption
      <4> QED BY <2>2, <4>1 DEF BootSink
    <3> QED BY <2>2, <3>1 DEF BootSink
  <2>3. CASE SupWakes
    BY <2>3 DEF SupWakes, vars, wireVars
  <2>4. CASE SupLocked \/ SupReadsUsb \/ SupReadsUart
    BY <2>4 DEF SupLocked, SupReadsUsb, SupReadsUart, vars, wireVars
  <2>5. CASE SupPins \/ SupSwaps
    BY <2>5 DEF SupPins, SupSwaps
  <2>6. CASE FlashLockChanges
    BY <2>6 DEF FlashLockChanges, vars, wireVars
  <2>7. ASSUME NEW t \in Tasks, SinkTask(t) PROVE RoundBookkeeping'
    BY <2>7 DEF SinkTask, mainVars, wireVars, TaskNext, TxSnapshot, TxAdmit, TxReject,
                TxReturn, TxRecord
  <2>8. ASSUME NEW s \in Sources, SourceTask(s) PROVE RoundBookkeeping'
    BY <2>8 DEF SourceTask, mainVars, wireVars, SourceRx, OnSourceRx, ReadyChanges
  <2>9. CASE WebUI \/ Clock
    BY <2>9 DEF WebUI, Clock, mainVars, wireVars, SetAuto, Pin, Tick
  <2>10. CASE UNCHANGED gvars
    BY <2>10 DEF gvars, mainVars, vars, wireVars
  <2> QED BY <2>1, <2>2, <2>3, <2>4, <2>5, <2>6, <2>7, <2>8, <2>9, <2>10
          DEF GNext, Supervisor
<1> QED BY <1>1, <1>2, PTL DEF GSpec

LEMMA RoundStep ==
  ASSUME MainTypeOK, RoundBookkeeping, [GNext]_gvars, UNCHANGED <<ready, flash_lock>>
  PROVE  OneRound
<1> USE GatewayAssumption
<1>0. Wanted' = Wanted
  BY DEF Wanted
<1>1. CASE BootSource \/ BootSink
  <2>1. sup = "sleep" /\ sup' = "sleep" /\ ~Booted
    <3>1. 0 # Len(SinkOrder) + 1 /\ Len(SinkOrder) + 1 \notin 1 .. Len(SinkOrder)
      OBVIOUS
    <3> QED BY <1>1, <3>1 DEF BootSource, BootSink, RoundBookkeeping, Booted
  <2>2. ~Supervisor
    BY <2>1 DEF Supervisor, SupWakes, SupLocked, SupPins, SupReadsUsb, SupReadsUart, SupSwaps
  <2> QED BY <2>1, <2>2 DEF OneRound, UpToDate
<1>2. CASE Supervisor
  <2>1. CASE SupWakes
    BY <1>0, <2>1 DEF SupWakes, OneRound, UpToDate, vars, wireVars
  <2>2. CASE SupLocked
    BY <1>0, <2>2 DEF SupLocked, OneRound, UpToDate, Wanted, RoundBookkeeping, vars,
       wireVars
  <2>3. CASE SupPins
    BY <1>0, <2>3 DEF SupPins, AttachSource, OneRound, UpToDate, Wanted
  <2>4. CASE SupReadsUsb
    BY <1>0, <2>4 DEF SupReadsUsb, OneRound, UpToDate, Wanted, vars, wireVars
  <2>5. CASE SupReadsUart
    BY <1>0, <2>5 DEF SupReadsUart, OneRound, UpToDate, Wanted, vars, wireVars
  <2>6. CASE SupSwaps
    <3>1. sup = "swap" /\ sup' = "sleep" /\ cur = source
      BY <2>6 DEF SupSwaps, RoundBookkeeping
    <3>2. source' = want
      BY <2>6, <3>1 DEF SupSwaps, AttachSource, DetachSource, vars, wireVars
    <3> QED BY <1>0, <3>1, <3>2 DEF OneRound, UpToDate
  <2> QED BY <1>2, <2>1, <2>2, <2>3, <2>4, <2>5, <2>6 DEF Supervisor
<1>3. ASSUME UNCHANGED <<source, sup, want>>
      PROVE  OneRound
  <2>1. ~Supervisor
    BY <1>3 DEF Supervisor, SupWakes, SupLocked, SupPins, SupReadsUsb, SupReadsUart, SupSwaps
  <2> QED BY <1>0, <1>3, <2>1 DEF OneRound, UpToDate
<1>4. CASE FlashLockChanges \/ WebUI \/ Clock \/ UNCHANGED gvars
  <2>1. UNCHANGED <<source, sup, want>>
    BY <1>4 DEF FlashLockChanges, WebUI, Clock, gvars, mainVars, vars, wireVars, SetAuto, Pin,
       Tick
  <2> QED BY <1>3, <2>1
<1>5. ASSUME NEW t \in Tasks, SinkTask(t)
      PROVE  UNCHANGED <<source, sup, want>>
  BY <1>5 DEF SinkTask, mainVars, wireVars, TaskNext, TxSnapshot, TxAdmit, TxReject, TxReturn,
     TxRecord
<1>6. ASSUME NEW s \in Sources, SourceTask(s)
      PROVE  UNCHANGED <<source, sup, want>>
  BY <1>6 DEF SourceTask, mainVars, wireVars, SourceRx, OnSourceRx, ReadyChanges
<1> QED BY <1>1, <1>2, <1>3, <1>4, <1>5, <1>6 DEF GNext

\* The safety half of Settles: a round that nothing interrupts - and each one is up to date when
\* it begins - has the wanted source attached when it ends and leaves it attached (main.c:78-111).
THEOREM SettlesInOneRound == GSpec => CalmRounds
<1>1. GInv /\ RoundBookkeeping /\ [GNext]_gvars
        => [UNCHANGED <<ready, flash_lock>> => OneRound]_gvars
  BY RoundStep DEF GInv
<1> QED BY <1>1, MainInvariance, RoundInvariance, PTL DEF GSpec, CalmRounds
=============================================================================
