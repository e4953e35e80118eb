------------------------------ MODULE NetProofs ------------------------------
(* Proofs about Net, for any number of retries, and about LogBuffer, for a  *)
(* ring of any size and runs of any length.                                 *)
EXTENDS Net, LogBuffer, TLAPS

USE NetAssumption DEF NetAssumption

Kinds == {"start", "disconnected", "gotip"}

-----------------------------------------------------------------------------
(* Types                                                                   *)

\* What the driver posts, and what is left when an event has been handled.
LEMMA PostedType ==
  ASSUME events \in Seq(Kinds), Len(events) <= MaxEvents, Room, NEW e \in Kinds
  PROVE  /\ Append(events, e) \in Seq(Kinds) /\ Len(Append(events, e)) <= MaxEvents
         /\ Append(events, e) # <<>>
  BY DEF Room

LEMMA HandledType ==
  ASSUME events \in Seq(Kinds), Len(events) <= MaxEvents, events # <<>>
  PROVE  Tail(events) \in Seq(Kinds) /\ Len(Tail(events)) <= MaxEvents
  OBVIOUS

LEMMA BootType == <<"start">> \in Seq(Kinds) /\ Len(<<"start">>) <= MaxEvents
  BY DEF Kinds

LEMMA EventsType == TypeOK /\ [Next]_vars =>
                      events' \in Seq(Kinds) /\ Len(events') <= MaxEvents
<1> SUFFICES ASSUME TypeOK, [Next]_vars
             PROVE  events' \in Seq(Kinds) /\ Len(events') <= MaxEvents
  OBVIOUS
<1>0. events \in Seq(Kinds) /\ Len(events) <= MaxEvents
  BY DEF TypeOK, Kinds
<1>1. CASE Reboots
  BY <1>1, BootType DEF Reboots, Booted
<1>2. CASE FailsToJoin \/ Drops \/ Leases
  <2>1. Room /\ \E e \in Kinds : events' = Append(events, e)
    BY <1>2 DEF FailsToJoin, Drops, Leases, Kinds
  <2> QED BY <2>1, <1>0, PostedType
<1>3. CASE Event
  <2>1. events # <<>> /\ events' = Tail(events)
    BY <1>3 DEF Event, Handles, OnStart, OnGotIp, OnDisconnectedIgnored,
       OnDisconnectedRetries, OnDisconnectedGivesUp, OnDisconnectedWithoutCreds
  <2> QED BY <2>1, <1>0, HandledType
<1>4. CASE ImprovGivesUp \/ \E c \in {"good", "bad"} : ImprovTries(c)
  <2>1. events' = AfterLeaving /\ (sta # "idle" => Room)
    BY <1>4 DEF ImprovGivesUp, ImprovTries
  <2>2. "disconnected" \in Kinds
    BY DEF Kinds
  <2> QED BY <2>1, <2>2, <1>0, PostedType DEF AfterLeaving
<1>5. CASE UNCHANGED events
  BY <1>5, <1>0
<1>6. CASE \/ AirChanges \/ Joins \/ FallbackFires \/ RecoveryTries
           \/ WebClears \/ WebClearFails \/ ImprovInit \/ ImprovSucceeds \/ ImprovCloses
           \/ (\E c \in {"good", "bad"} : WebSaves(c)) \/ UNCHANGED vars
  <2>1. UNCHANGED events
    BY <1>6 DEF AirChanges, Joins, FallbackFires, RecoveryTries, WebClears, WebClearFails,
       ImprovInit, ImprovOpens, ImprovHasNoUart, ImprovHasNoTask, ImprovSucceeds,
       ImprovCloses, WebSaves, vars, driver
  <2> QED BY <2>1, <1>5
<1> QED BY <1>1, <1>2, <1>3, <1>4, <1>6 DEF Next

LEMMA SavesWord ==
  ASSUME TypeOK, NEW c \in {"none", "good", "bad"}, Saves(c)
  PROVE  nvs' \in {"none", "half", "good", "bad"}
  BY DEF TypeOK, Saves

LEMMA SavesFlag ==
  ASSUME TypeOK, NEW c, Saves(c)
  PROVE  ssid' \in BOOLEAN
<1>1. ssid \in BOOLEAN
  BY DEF TypeOK
<1> QED BY <1>1, Zenon DEF Saves

Words ==
  /\ sta \in {"idle", "trying", "joined", "up"}
  /\ cfg \in {"none", "good", "bad"}
  /\ nvs \in {"none", "half", "good", "bad"}
  /\ retry \in 0..MaxRetry
  /\ fallback \in {"none", "waiting", "done"}
  /\ window \in {"unopened", "open", "closed"}

Flags ==
  /\ air \in BOOLEAN /\ ssid \in BOOLEAN /\ connected \in BOOLEAN
  /\ apActive \in BOOLEAN /\ recovery \in {"none", "running", "failed"}
  /\ external \in BOOLEAN /\ attempt \in BOOLEAN
  /\ doomed \in BOOLEAN /\ deaf \in BOOLEAN

LEMMA TypeParts ==
  TypeOK <=> Words /\ Flags /\ events \in Seq(Kinds) /\ Len(events) <= MaxEvents
  BY DEF TypeOK, Words, Flags, Kinds

LEMMA WordsStep == TypeOK /\ [Next]_vars => Words'
<1> SUFFICES ASSUME TypeOK, [Next]_vars  PROVE Words'
  OBVIOUS
<1>0. Words
  BY TypeParts
<1> USE DEF Words, driver, store, ap, improv, Connected
<1>1. CASE Reboots
  BY <1>0, <1>1 DEF Reboots, Booted, HaveCreds, FallbackAtBoot
<1>2. CASE AirChanges \/ Joins \/ FailsToJoin \/ Drops \/ Leases
  BY <1>0, <1>2 DEF AirChanges, Joins, FailsToJoin, Drops, Leases
<1>3. CASE OnStart \/ OnGotIp \/ OnDisconnectedIgnored
  BY <1>0, <1>3 DEF OnStart, OnGotIp, OnDisconnectedIgnored, Handles
<1>4. CASE OnDisconnectedRetries \/ OnDisconnectedGivesUp \/ OnDisconnectedWithoutCreds
  BY <1>0, <1>4 DEF OnDisconnectedRetries, OnDisconnectedGivesUp, OnDisconnectedWithoutCreds,
     Handles, HasBudget, Counted
<1>5. CASE FallbackFires \/ RecoveryTries
  BY <1>0, <1>5 DEF FallbackFires, RecoveryTries
<1>6. CASE \E c \in {"good", "bad"} : WebSaves(c)
  BY <1>0, <1>6, SavesWord DEF WebSaves
<1>7. CASE ImprovSucceeds
  <2>1. nvs' \in {"none", "half", "good", "bad"}
    BY <1>0, <1>7, SavesWord DEF ImprovSucceeds
  <2>2. UNCHANGED <<sta, cfg, retry, fallback, window>>
    BY <1>7 DEF ImprovSucceeds
  <2> QED BY <2>1, <2>2, <1>0
<1>8. CASE \/ WebClears \/ WebClearFails \/ ImprovInit \/ ImprovGivesUp \/ ImprovCloses
           \/ \E c \in {"good", "bad"} : ImprovTries(c)
  BY <1>0, <1>8 DEF WebClears, WebClearFails, ImprovInit, ImprovOpens, ImprovHasNoUart,
     ImprovHasNoTask, ImprovGivesUp, ImprovCloses, ImprovTries
<1>9. CASE UNCHANGED vars
  BY <1>0, <1>9 DEF vars
<1> QED BY <1>1, <1>2, <1>3, <1>4, <1>5, <1>6, <1>7, <1>8, <1>9 DEF Next, Event

LEMMA FlagsStep == TypeOK /\ [Next]_vars => Flags'
<1> SUFFICES ASSUME TypeOK, [Next]_vars  PROVE Flags'
  OBVIOUS
<1>0. Flags
  BY TypeParts
<1> USE DEF Flags, driver, store, ap, improv
<1>1. CASE Reboots
  BY <1>0, <1>1, Zenon DEF Reboots, Booted
<1>2. CASE AirChanges \/ Joins \/ FailsToJoin \/ Drops \/ Leases
  BY <1>0, <1>2, Zenon DEF AirChanges, Joins, FailsToJoin, Drops, Leases
<1>3. CASE OnStart \/ OnGotIp \/ OnDisconnectedIgnored
  BY <1>0, <1>3, Zenon DEF OnStart, OnGotIp, OnDisconnectedIgnored, Handles
<1>4. CASE OnDisconnectedRetries \/ OnDisconnectedWithoutCreds
  BY <1>0, <1>4, Zenon DEF OnDisconnectedRetries, OnDisconnectedWithoutCreds, Handles
<1>5. CASE OnDisconnectedGivesUp
  BY <1>0, <1>5, Zenon DEF OnDisconnectedGivesUp, Handles, RecoveryArmed
<1>6. CASE FallbackFires
  <2>1. recovery' \in {"none", "running", "failed"}
    BY <1>0, <1>6, Zenon DEF FallbackFires, RecoveryArmed
  <2> QED BY <2>1, <1>0, <1>6, Zenon DEF FallbackFires
<1>7. CASE RecoveryTries
  BY <1>0, <1>7, Zenon DEF RecoveryTries
<1>8. CASE \E c \in {"good", "bad"} : WebSaves(c)
  <2>1. ssid' \in BOOLEAN
    BY <1>8, SavesFlag, Zenon DEF WebSaves
  <2> QED BY <2>1, <1>0, <1>8, Zenon DEF WebSaves
<1>9. CASE ImprovSucceeds
  <2>3. ssid' \in BOOLEAN
    BY <1>9, SavesFlag, Zenon DEF ImprovSucceeds
  <2> QED BY <2>3, <1>0, <1>9, Zenon DEF ImprovSucceeds
<1>10. CASE \/ WebClears \/ WebClearFails \/ ImprovInit \/ ImprovGivesUp \/ ImprovCloses
            \/ \E c \in {"good", "bad"} : ImprovTries(c)
  <2>1. CASE WebClears \/ WebClearFails
    BY <1>0, <2>1, Zenon DEF WebClears, WebClearFails
  <2>2. CASE ImprovInit
    BY <1>0, <2>2, Zenon DEF ImprovInit, ImprovOpens, ImprovHasNoUart, ImprovHasNoTask
  <2>3. CASE ImprovGivesUp \/ ImprovCloses
    BY <1>0, <2>3, Zenon DEF ImprovGivesUp, ImprovCloses
  <2>4. CASE \E c \in {"good", "bad"} : ImprovTries(c)
    BY <1>0, <2>4, Zenon DEF ImprovTries
  <2> QED BY <1>10, <2>1, <2>2, <2>3, <2>4, Zenon
<1>11. CASE UNCHANGED vars
  BY <1>0, <1>11, Zenon DEF vars
<1> QED BY <1>1, <1>2, <1>3, <1>4, <1>5, <1>6, <1>7, <1>8, <1>9, <1>10, <1>11
        DEF Next, Event

LEMMA InitType == Init => TypeOK
<1> SUFFICES ASSUME Init  PROVE TypeOK
  OBVIOUS
<1>1. Words
  BY DEF Init, Words, Booted, HaveCreds, FallbackAtBoot
<1>2. Flags
  BY Zenon DEF Init, Flags, Booted
<1>3. events = <<"start">>
  BY DEF Init, Booted
<1> QED BY <1>1, <1>2, <1>3, BootType, TypeParts

LEMMA TypeStep == TypeOK /\ [Next]_vars => TypeOK'
  BY WordsStep, FlagsStep, EventsType DEF TypeOK, Words, Flags, Kinds

\* Every variable keeps its type; in particular no retry is counted beyond the budget.
THEOREM TypeCorrect == Spec => []TypeOK
  BY InitType, TypeStep, PTL DEF Spec

-----------------------------------------------------------------------------
(* The soft AP                                                             *)

\* A gateway that booted with credentials and has ended up as a soft AP has the recovery
\* task (net.c:324-327): only event_cb starts the AP then, with credentials in memory.
THEOREM SoftApHasRecoveryHolds == Spec => []SoftApHasRecovery
<1>1. Init => SoftApHasRecovery
  BY DEF Init, SoftApHasRecovery
<1>2. SoftApHasRecovery /\ [Next]_vars => SoftApHasRecovery'
  <2> SUFFICES ASSUME SoftApHasRecovery, [Next]_vars  PROVE SoftApHasRecovery'
    OBVIOUS
  <2> USE DEF SoftApHasRecovery
  <2>1. CASE Reboots
    BY <2>1, Zenon DEF Reboots
  <2>2. CASE FallbackFires
    BY <2>2 DEF FallbackFires
  <2>3. CASE OnDisconnectedGivesUp
    BY <2>3, Zenon DEF OnDisconnectedGivesUp, Handles, RecoveryArmed
  <2>4. CASE OnStart \/ OnGotIp \/ OnDisconnectedIgnored
             \/ OnDisconnectedRetries \/ OnDisconnectedWithoutCreds
    BY <2>4, Zenon DEF OnStart, OnGotIp, OnDisconnectedIgnored, OnDisconnectedRetries,
       OnDisconnectedWithoutCreds, Handles
  <2>5. CASE UNCHANGED ap
    BY <2>5 DEF ap
  <2>6. CASE \/ AirChanges \/ Joins \/ FailsToJoin \/ Drops \/ Leases \/ RecoveryTries
             \/ WebClears \/ WebClearFails \/ ImprovInit \/ ImprovSucceeds
             \/ ImprovGivesUp \/ ImprovCloses \/ UNCHANGED vars
             \/ \E c \in {"good", "bad"} : WebSaves(c) \/ ImprovTries(c)
    <3>1. UNCHANGED ap
      BY <2>6, Zenon DEF AirChanges, Joins, FailsToJoin, Drops, Leases, RecoveryTries, WebClears,
         WebClearFails, ImprovInit, ImprovOpens, ImprovHasNoUart, ImprovHasNoTask,
         ImprovSucceeds, ImprovGivesUp, ImprovCloses, WebSaves, ImprovTries, vars
    <3> QED BY <3>1, <2>5
  <2> QED BY <2>1, <2>2, <2>3, <2>4, <2>6 DEF Next, Event
<1> QED BY <1>1, <1>2, PTL DEF Spec

-----------------------------------------------------------------------------
(* Never stranded.  esp_wifi_connect does nothing without a configuration, *)
(* and then only the soft AP helps: as long as the driver has none, the    *)
(* fallback task is waiting or has started it, for nothing could make the  *)
(* gateway connected.                                                      *)

Unleased == \A i \in 1 .. Len(events) : events[i] # "gotip"

Unconfigured ==
  cfg = "none" => /\ ~connected /\ sta = "idle" /\ Unleased
                  /\ fallback = "waiting" \/ apActive

LEMMA UnleasedAppend ==
  ASSUME events \in Seq(Kinds), Unleased, NEW e \in Kinds, e # "gotip",
         events' = Append(events, e)
  PROVE  Unleased'
  BY DEF Unleased

LEMMA UnleasedTail ==
  ASSUME events \in Seq(Kinds), Unleased, events # <<>>, events' = Tail(events)
  PROVE  Unleased' /\ Head(events) # "gotip"
  BY DEF Unleased

LEMMA UnconfiguredStep == TypeOK /\ Unconfigured /\ [Next]_vars => Unconfigured'
<1> SUFFICES ASSUME TypeOK, Unconfigured, [Next]_vars, cfg' = "none"
             PROVE  /\ ~connected' /\ sta' = "idle" /\ Unleased'
                    /\ fallback' = "waiting" \/ apActive'
  BY DEF Unconfigured
<1>0. events \in Seq(Kinds)
  BY DEF TypeOK, Kinds
<1>1. CASE Reboots
  <2>1. ~connected' /\ sta' = "idle" /\ events' = <<"start">>
    BY <1>1 DEF Reboots, Booted
  <2>2. fallback' = "waiting"
    BY <1>1 DEF Reboots, Booted, FallbackAtBoot, HaveCreds
  <2> QED BY <2>1, <2>2 DEF Unleased
<1>2. CASE ~Reboots
  <2>1. cfg = "none"
    <3>1. CASE \E c \in {"good", "bad"} : ImprovTries(c)
      BY <3>1 DEF ImprovTries
    <3>2. CASE UNCHANGED cfg
      BY <3>2
    <3>3. CASE \/ AirChanges \/ Joins \/ FailsToJoin \/ Drops \/ Leases \/ Event
               \/ FallbackFires \/ RecoveryTries \/ WebClears \/ WebClearFails
               \/ ImprovInit \/ ImprovSucceeds \/ ImprovGivesUp \/ ImprovCloses
               \/ UNCHANGED vars \/ \E c \in {"good", "bad"} : WebSaves(c)
      <4>1. UNCHANGED cfg
        BY <3>3, Zenon DEF AirChanges, Joins, FailsToJoin, Drops, Leases, Event, OnStart, OnGotIp,
           OnDisconnectedIgnored, OnDisconnectedRetries, OnDisconnectedGivesUp,
           OnDisconnectedWithoutCreds, Handles, FallbackFires, RecoveryTries, WebClears,
           WebClearFails, ImprovInit, ImprovOpens, ImprovHasNoUart, ImprovHasNoTask,
           ImprovSucceeds, ImprovGivesUp, ImprovCloses, WebSaves, vars, driver
      <4> QED BY <4>1, <3>2
    <3> QED BY <1>2, <3>1, <3>3 DEF Next
  <2>2. ~connected /\ sta = "idle" /\ Unleased /\ (fallback = "waiting" \/ apActive)
    BY <2>1 DEF Unconfigured
  <2>3. CASE Joins \/ FailsToJoin \/ Drops \/ Leases
    BY <2>2, <2>3 DEF Joins, FailsToJoin, Drops, Leases
  <2>4. CASE Event
    <3>1. events # <<>> /\ events' = Tail(events) /\ fallback' = fallback
      BY <2>4, Zenon DEF Event, Handles, OnStart, OnGotIp, OnDisconnectedIgnored,
         OnDisconnectedRetries, OnDisconnectedGivesUp, OnDisconnectedWithoutCreds
    <3>2. Unleased' /\ Head(events) # "gotip"
      BY <3>1, <1>0, <2>2, UnleasedTail
    <3>3. ~OnGotIp
      BY <3>2 DEF OnGotIp, Handles
    <3>4. sta' = sta
      BY <2>4, <3>3, <2>1, <2>2 DEF Event, OnStart, OnDisconnectedIgnored,
         OnDisconnectedRetries, OnDisconnectedGivesUp, OnDisconnectedWithoutCreds, Connected
    <3>5. ~connected'
      BY <2>4, <3>3, <2>2, Zenon DEF Event, OnStart, OnDisconnectedIgnored,
         OnDisconnectedRetries, OnDisconnectedGivesUp, OnDisconnectedWithoutCreds
    <3>6. apActive => apActive'
      BY <2>4, Zenon DEF Event, OnStart, OnGotIp, OnDisconnectedIgnored,
         OnDisconnectedRetries, OnDisconnectedGivesUp, OnDisconnectedWithoutCreds
    <3> QED BY <3>1, <3>2, <3>4, <3>5, <3>6, <2>2
  <2>5. CASE FallbackFires
    <3>1. UNCHANGED <<connected, sta, events>>
      BY <2>5 DEF FallbackFires, driver
    <3>2. apActive'
      BY <2>5, <2>2, Zenon DEF FallbackFires
    <3> QED BY <3>1, <3>2, <2>2 DEF Unleased
  <2>6. CASE RecoveryTries
    <3>1. UNCHANGED <<connected, events, fallback, apActive>> /\ sta' = sta
      BY <2>6, <2>1, <2>2 DEF RecoveryTries, ap, Connected
    <3> QED BY <3>1, <2>2 DEF Unleased
  <2>7. CASE \E c \in {"good", "bad"} : ImprovTries(c)
    BY <2>7 DEF ImprovTries
  <2>8. CASE ImprovGivesUp
    <3>1. UNCHANGED <<connected, sta, events, fallback, apActive>>
      BY <2>8, <2>2 DEF ImprovGivesUp, AfterLeaving, ap
    <3> QED BY <3>1, <2>2 DEF Unleased
  <2>9. CASE \/ AirChanges \/ WebClears \/ WebClearFails \/ ImprovInit \/ ImprovSucceeds
             \/ ImprovCloses \/ UNCHANGED vars \/ \E c \in {"good", "bad"} : WebSaves(c)
    <3>1. UNCHANGED <<connected, sta, events, fallback, apActive>>
      BY <2>9, Zenon DEF AirChanges, WebClears, WebClearFails, ImprovInit, ImprovOpens,
         ImprovHasNoUart, ImprovHasNoTask, ImprovSucceeds, ImprovCloses, WebSaves,
         vars, driver, ap
    <3> QED BY <3>1, <2>2 DEF Unleased
  <2> QED BY <1>2, <2>3, <2>4, <2>5, <2>6, <2>7, <2>8, <2>9 DEF Next
<1> QED BY <1>1, <1>2

\* esp_wifi_connect brings something under way, unless the fallback or the soft AP has to.
LEMMA ConnectHelps ==
  ASSUME TypeOK, Unconfigured, sta' = Connected, fallback' = fallback, apActive' = apActive
  PROVE  Underway' \/ apActive'
  BY DEF Connected, Underway, Unconfigured

LEMMA StrandedStep ==
  TypeOK /\ Unconfigured /\ NeverStranded /\ [Next]_vars => NeverStranded'
<1> SUFFICES ASSUME TypeOK, Unconfigured, NeverStranded, [Next]_vars, ssid', ~deaf'
             PROVE  connected' \/ apActive' \/ Underway'
  BY DEF NeverStranded
<1>0. events \in Seq(Kinds)
  BY DEF TypeOK, Kinds
<1>1. CASE Reboots
  BY <1>1 DEF Reboots, Booted, Underway
<1>2. CASE Joins
  BY <1>2 DEF Joins, Underway
<1>3. CASE FailsToJoin \/ Drops \/ Leases
  <2>1. Room /\ \E e \in Kinds : events' = Append(events, e)
    BY <1>3 DEF FailsToJoin, Drops, Leases, Kinds
  <2> QED BY <2>1, <1>0 DEF Underway
<1>4. CASE OnStart
  <2>1. ~external /\ ssid
    BY <1>4, Zenon DEF OnStart, Handles, store
  <2>2. sta' = Connected /\ UNCHANGED <<fallback, apActive>>
    BY <1>4, <2>1 DEF OnStart, Handles
  <2> QED BY <2>2, ConnectHelps, Zenon
<1>5. CASE OnDisconnectedRetries
  <2>1. sta' = Connected /\ UNCHANGED <<fallback, apActive>>
    BY <1>5 DEF OnDisconnectedRetries, Handles
  <2> QED BY <2>1, ConnectHelps, Zenon
<1>6. CASE RecoveryTries
  <2>1. sta' = Connected /\ UNCHANGED <<fallback, apActive>>
    BY <1>6 DEF RecoveryTries, ap
  <2> QED BY <2>1, ConnectHelps, Zenon
<1>7. CASE OnGotIp
  BY <1>7 DEF OnGotIp
<1>8. CASE OnDisconnectedIgnored
  BY <1>8, Zenon DEF OnDisconnectedIgnored
<1>9. CASE OnDisconnectedGivesUp
  BY <1>9, Zenon DEF OnDisconnectedGivesUp
<1>10. CASE OnDisconnectedWithoutCreds
  BY <1>10, Zenon DEF OnDisconnectedWithoutCreds, Handles, store
<1>11. CASE FallbackFires
  <2>1. apActive' \/ connected
    BY <1>11, Zenon DEF FallbackFires
  <2>2. connected' = connected
    BY <1>11 DEF FallbackFires
  <2> QED BY <2>1, <2>2, Zenon
<1>12. CASE \E c \in {"good", "bad"} : WebSaves(c)
  <2>1. UNCHANGED <<sta, apActive>> /\ (sta = "up" \/ apActive)
    BY <1>12 DEF WebSaves, WebUp, driver, ap
  <2> QED BY <2>1 DEF Underway
<1>13. CASE WebClears
  BY <1>13, Zenon DEF WebClears
<1>14. CASE ImprovSucceeds
  BY <1>14 DEF ImprovSucceeds, driver, Underway
<1>15. CASE \E c \in {"good", "bad"} : ImprovTries(c)
  BY <1>15 DEF ImprovTries, Underway
<1>16. CASE ImprovGivesUp
  <2>1. CASE sta = "idle"
    <3>1. UNCHANGED <<connected, apActive, sta, events, fallback, ssid, deaf>>
      BY <1>16, <2>1 DEF ImprovGivesUp, AfterLeaving, ap, store
    <3> QED BY <3>1, Zenon DEF NeverStranded, Underway
  <2>2. CASE sta # "idle"
    <3>1. events' = Append(events, "disconnected")
      BY <1>16, <2>2 DEF ImprovGivesUp, AfterLeaving
    <3> QED BY <3>1, <1>0 DEF Underway
  <2> QED BY <2>1, <2>2
<1>17. CASE \/ AirChanges \/ WebClearFails \/ ImprovInit \/ ImprovCloses \/ UNCHANGED vars
  <2>1. UNCHANGED <<connected, apActive, sta, events, fallback, ssid, deaf>>
    BY <1>17, Zenon DEF AirChanges, WebClearFails, ImprovInit, ImprovOpens, ImprovHasNoUart,
       ImprovHasNoTask, ImprovCloses, vars, driver, ap, store
  <2> QED BY <2>1, Zenon DEF NeverStranded, Underway
<1> QED BY <1>1, <1>2, <1>3, <1>4, <1>5, <1>6, <1>7, <1>8, <1>9, <1>10, <1>11, <1>12,
           <1>13, <1>14, <1>15, <1>16, <1>17 DEF Next, Event

\* A gateway with credentials in memory always has something ahead of it, an event left
\* to Improv excepted (net.c:76-93, 202-214), however often boot, saving and
\* connecting fail half-way.
THEOREM NeverStrandedHolds == Spec => []NeverStranded
<1>1. Init => Unconfigured /\ NeverStranded
  <2> SUFFICES ASSUME Init  PROVE Unconfigured /\ NeverStranded
    OBVIOUS
  <2>1. events = <<"start">> /\ sta = "idle" /\ ~connected
    BY DEF Init, Booted
  <2>2. cfg = "none" => fallback = "waiting"
    BY DEF Init, Booted, FallbackAtBoot, HaveCreds
  <2> QED BY <2>1, <2>2 DEF Unconfigured, Unleased, NeverStranded, Underway
<1>2. Unconfigured /\ NeverStranded /\ TypeOK /\ [Next]_vars
        => Unconfigured' /\ NeverStranded'
  BY UnconfiguredStep, StrandedStep
<1> QED BY <1>1, <1>2, TypeCorrect, PTL DEF Spec

-----------------------------------------------------------------------------
(* LogBuffer: the ring                                                     *)

HIDE NetAssumption DEF NetAssumption
USE LogAssumption

LEMMA Division ==
  ASSUME NEW a \in Nat
  PROVE  a \div MaxLines \in Int /\ a % MaxLines \in 0 .. MaxLines - 1
         /\ a = MaxLines * (a \div MaxLines) + (a % MaxLines)
<1>1. a \div MaxLines \in Int
  OBVIOUS
<1>2. a % MaxLines \in 0 .. MaxLines - 1
  OBVIOUS
<1>3. a = MaxLines * (a \div MaxLines) + (a % MaxLines)
  OBVIOUS
<1> QED BY <1>1, <1>2, <1>3

\* Lines less than a ring apart have places of their own.
LEMMA OwnPlace ==
  ASSUME NEW a \in Nat, NEW b \in Nat, a < b, b < a + MaxLines
  PROVE  a % MaxLines # b % MaxLines
<1> SUFFICES ASSUME a % MaxLines = b % MaxLines  PROVE FALSE
  OBVIOUS
<1> DEFINE q == a \div MaxLines
           r == b \div MaxLines
<1>1. q \in Int /\ r \in Int
  BY Division
<1>2. MaxLines * q \in Int /\ MaxLines * r \in Int
  BY <1>1
<1>3. MaxLines * r - MaxLines * q = b - a
  BY <1>2, Division
<1> HIDE DEF q, r
<1>4. MaxLines * r - MaxLines * q = MaxLines * (r - q)
  BY <1>1
<1>5. CASE r - q >= 1
  <2>1. \A m \in Int : m >= 1 => MaxLines * m >= MaxLines
    OBVIOUS
  <2> QED BY <1>1, <1>3, <1>4, <1>5, <2>1
<1>6. CASE r - q <= 0
  <2>1. \A m \in Int : m <= 0 => MaxLines * m <= 0
    OBVIOUS
  <2> QED BY <1>1, <1>3, <1>4, <1>6, <2>1
<1> QED BY <1>1, <1>5, <1>6

Line == [line : Nat, lost : Nat]

Log == [lines : [0 .. MaxLines - 1 -> Line], head : Nat, dropped : Nat, all : Seq(Line)]

\* The ring holds the last lines, each in its place.
Ring(log) ==
  /\ log \in Log
  /\ log.head = Len(log.all)
  /\ \A s \in 0 .. log.head - 1 :
       s + MaxLines >= log.head => log.lines[s % MaxLines] = log.all[s + 1]

LEMMA PutFields ==
  ASSUME NEW log \in Log, NEW entry \in Line
  PROVE  /\ Put(log, entry) \in Log
         /\ Put(log, entry).lines = [log.lines EXCEPT ![log.head % MaxLines] = entry]
         /\ Put(log, entry).head = log.head + 1
         /\ Put(log, entry).all = Append(log.all, entry)
         /\ Put(log, entry).dropped = log.dropped
<1>1. log.head % MaxLines \in 0 .. MaxLines - 1
  BY Division DEF Log
<1>3. [log.lines EXCEPT ![log.head % MaxLines] = entry] \in [0 .. MaxLines - 1 -> Line]
  BY <1>1 DEF Log
<1>4. Append(log.all, entry) \in Seq(Line) /\ log.head + 1 \in Nat /\ log.dropped \in Nat
  BY DEF Log
<1> QED BY <1>3, <1>4 DEF Put, Log

LEMMA PutRing ==
  ASSUME NEW log, Ring(log), NEW entry \in Line
  PROVE  Ring(Put(log, entry))
<1> DEFINE new == Put(log, entry)
<1>0. log \in Log /\ log.head = Len(log.all)
  BY DEF Ring
<1>1. /\ new \in Log /\ new.head = log.head + 1 /\ new.all = Append(log.all, entry)
      /\ new.lines = [log.lines EXCEPT ![log.head % MaxLines] = entry]
  BY <1>0, PutFields
<1> HIDE DEF new
<1>2. log.head \in Nat /\ log.lines \in [0 .. MaxLines - 1 -> Line] /\ log.all \in Seq(Line)
  BY <1>0 DEF Log
<1>3. new.head = Len(new.all)
  BY <1>0, <1>1, <1>2
<1>4. ASSUME NEW s \in 0 .. new.head - 1, s + MaxLines >= new.head
      PROVE  new.lines[s % MaxLines] = new.all[s + 1]
  <2>0. s \in Nat /\ s <= log.head
    BY <1>1, <1>2, <1>4
  <2>1. log.head % MaxLines \in 0 .. MaxLines - 1 /\ s % MaxLines \in 0 .. MaxLines - 1
    BY <1>2, <2>0, Division
  <2>2. CASE s = log.head
    <3>1. new.lines[s % MaxLines] = entry
      BY <1>1, <1>2, <2>1, <2>2
    <3>2. new.all[s + 1] = entry
      BY <1>0, <1>1, <1>2, <2>2
    <3> QED BY <3>1, <3>2
  <2>3. CASE s < log.head
    <3>1. s % MaxLines # log.head % MaxLines
      <4>1. log.head < s + MaxLines
        BY <1>1, <1>2, <1>4, <2>0
      <4> QED BY <1>2, <2>0, <2>3, <4>1, OwnPlace
    <3>2. new.lines[s % MaxLines] = log.lines[s % MaxLines]
      BY <1>1, <1>2, <2>1, <3>1
    <3>3. new.all[s + 1] = log.all[s + 1]
      BY <1>0, <1>1, <1>2, <1>4, <2>3
    <3>4. s \in 0 .. log.head - 1 /\ s + MaxLines >= log.head
      BY <1>1, <1>2, <1>4, <2>0, <2>3
    <3>5. log.lines[s % MaxLines] = log.all[s + 1]
      BY <3>4 DEF Ring
    <3> QED BY <3>2, <3>3, <3>5
  <2> QED BY <1>2, <2>0, <2>2, <2>3
<1> QED BY <1>1, <1>3, <1>4 DEF new, Ring

LEMMA UndroppedRing ==
  ASSUME NEW log, Ring(log), NEW k \in Nat
  PROVE  Ring([log EXCEPT !.dropped = k])
<1>1. log \in Log
  BY DEF Ring
<1>2. /\ [log EXCEPT !.dropped = k] \in Log
      /\ [log EXCEPT !.dropped = k].lines = log.lines
      /\ [log EXCEPT !.dropped = k].head = log.head
      /\ [log EXCEPT !.dropped = k].all = log.all
  BY <1>1 DEF Log
<1> QED BY <1>2 DEF Ring

LEMMA DroppedRing ==
  ASSUME NEW log, Ring(log)
  PROVE  /\ Ring(Dropped(log))
         /\ Dropped(log).all = log.all /\ Dropped(log).head = log.head
         /\ Dropped(log).dropped = log.dropped + 1
<1>1. log \in Log /\ log.dropped + 1 \in Nat
  BY DEF Ring, Log
<1>2. Dropped(log) = [log EXCEPT !.dropped = log.dropped + 1]
  BY DEF Dropped
<1>3. /\ Dropped(log).all = log.all /\ Dropped(log).head = log.head
      /\ Dropped(log).dropped = log.dropped + 1
  BY <1>1 DEF Dropped, Log
<1> QED BY <1>1, <1>2, <1>3, UndroppedRing

\* What is put into the ring with a line: the marker before it, if lines were lost.
LEMMA StoredRing ==
  ASSUME NEW log, Ring(log), NEW n \in Nat
  PROVE  /\ Ring(Stored(log, n)) /\ Stored(log, n).dropped = 0
         /\ log.dropped = 0 => Stored(log, n).all = Append(log.all, LineOf(n))
         /\ log.dropped # 0 => Stored(log, n).all =
                                 Append(Append(log.all, Marker(log.dropped)), LineOf(n))
         /\ Stored(log, n).head >= log.head
<1>0. log \in Log /\ log.dropped \in Nat /\ log.head \in Nat
  BY DEF Ring, Log
<1>1. LineOf(n) \in Line /\ Marker(log.dropped) \in Line
  BY <1>0 DEF LineOf, Marker, Line
<1>2. CASE log.dropped = 0
  <2>1. Stored(log, n) = Put(log, LineOf(n))
    BY <1>2 DEF Stored
  <2>2. Ring(Put(log, LineOf(n)))
    BY <1>1, PutRing
  <2>3. /\ Put(log, LineOf(n)).dropped = log.dropped
        /\ Put(log, LineOf(n)).all = Append(log.all, LineOf(n))
        /\ Put(log, LineOf(n)).head = log.head + 1
    BY <1>0, <1>1, PutFields
  <2> QED BY <1>0, <1>2, <2>1, <2>2, <2>3
<1>3. CASE log.dropped # 0
  <2> DEFINE put == Put(log, Marker(log.dropped))
             marked == [put EXCEPT !.dropped = 0]
  <2>1. Stored(log, n) = Put(marked, LineOf(n))
    BY <1>3 DEF Stored
  <2>2. put \in Log /\ put.all = Append(log.all, Marker(log.dropped)) /\ put.head = log.head + 1
    BY <1>0, <1>1, PutFields
  <2>3. Ring(put)
    BY <1>1, PutRing
  <2> HIDE DEF put
  <2>4. Ring(marked) /\ marked.dropped = 0 /\ marked.all = put.all /\ marked.head = put.head
    <3>1. Ring(marked)
      BY <2>3, UndroppedRing
    <3>2. marked.dropped = 0 /\ marked.all = put.all /\ marked.head = put.head
      BY <2>2 DEF Log
    <3> QED BY <3>1, <3>2
  <2> HIDE DEF marked
  <2>5. marked \in Log
    BY <2>4 DEF Ring
  <2>6. /\ Ring(Put(marked, LineOf(n))) /\ Put(marked, LineOf(n)).dropped = 0
        /\ Put(marked, LineOf(n)).all = Append(marked.all, LineOf(n))
        /\ Put(marked, LineOf(n)).head = marked.head + 1
    BY <1>1, <2>4, <2>5, PutRing, PutFields
  <2> QED BY <1>0, <1>3, <2>1, <2>2, <2>4, <2>6
<1> QED BY <1>2, <1>3

LEMMA NoLogRing == Ring(NoLog)
<1>1. NoLog \in Log
  <2>1. [i \in 0 .. MaxLines - 1 |-> Marker(0)] \in [0 .. MaxLines - 1 -> Line]
    BY DEF Marker, Line
  <2>2. <<>> \in Seq(Line)
    OBVIOUS
  <2> QED BY <2>1, <2>2 DEF NoLog, Log
<1>2. NoLog.head = 0 /\ NoLog.all = <<>>
  BY DEF NoLog
<1> QED BY <1>1, <1>2 DEF Ring

\* An answer has the lines from a number on, as many as there are and fit.
Answers(log, since, room, from, count) ==
  /\ from = IF since < Oldest(log) THEN Oldest(log) ELSE since
  /\ count = IF from >= log.head THEN 0
             ELSE IF log.head - from < room THEN log.head - from ELSE room
  /\ GetSince(log, since, room).lines
       = [i \in 1 .. count |-> [seq |-> from + i - 1, entry |-> log.all[from + i]]]

LEMMA GetSinceLines ==
  ASSUME NEW log, Ring(log), NEW since \in Nat, NEW room \in Nat
  PROVE  /\ \E from, count \in Nat : Answers(log, since, room, from, count)
         /\ Oldest(log) \in Nat
         /\ \A s \in 0 .. log.head - 1 : s + MaxLines >= log.head <=> s >= Oldest(log)
<1>0. log.head \in Nat /\ log \in Log
  BY DEF Ring, Log
<1>1. /\ Oldest(log) \in Nat
      /\ \A s \in 0 .. log.head - 1 : s + MaxLines >= log.head <=> s >= Oldest(log)
  BY <1>0 DEF Oldest
<1> DEFINE from == IF since < Oldest(log) THEN Oldest(log) ELSE since
           left == IF from < log.head THEN log.head - from ELSE 0
           count == IF left < room THEN left ELSE room
<1>2. from \in Nat
  BY <1>1
<1>3. count \in Nat /\ count = IF from >= log.head THEN 0
                               ELSE IF log.head - from < room THEN log.head - from ELSE room
  BY <1>0, <1>2
<1>4. GetSince(log, since, room).lines
        = [i \in 1 .. count |-> [seq |-> from + i - 1,
                                 entry |-> log.lines[(from + i - 1) % MaxLines]]]
  BY DEF GetSince
<1>5. from >= Oldest(log)
  BY <1>1
<1> HIDE DEF from
<1>6. ASSUME NEW i \in 1 .. count
      PROVE  log.lines[(from + i - 1) % MaxLines] = log.all[from + i]
  <2>1. from + i - 1 \in 0 .. log.head - 1
    BY <1>0, <1>2, <1>3, <1>6
  <2>2. from + i - 1 >= Oldest(log)
    BY <1>1, <1>2, <1>5, <1>3
  <2>3. log.lines[(from + i - 1) % MaxLines] = log.all[(from + i - 1) + 1]
    BY <1>1, <2>1, <2>2 DEF Ring
  <2>4. (from + i - 1) + 1 = from + i
    BY <1>2, <1>3
  <2> QED BY <2>3, <2>4
<1> HIDE DEF count
<1>7. GetSince(log, since, room).lines
        = [i \in 1 .. count |-> [seq |-> from + i - 1, entry |-> log.all[from + i]]]
  BY <1>4, <1>6
<1>8. from = IF since < Oldest(log) THEN Oldest(log) ELSE since
  BY DEF from
<1>9. Answers(log, since, room, from, count)
  BY <1>3, <1>7, <1>8 DEF Answers
<1> QED BY <1>1, <1>2, <1>3, <1>9

\* A reader gets the tail of what was logged.
LEMMA RingTail ==
  ASSUME NEW log, Ring(log), NEW since \in Nat, NEW room \in Nat
  PROVE  IsTheTail(log, since, room)
<1> DEFINE got == GetSince(log, since, room).lines
<1>0. log.head \in Nat
  BY DEF Ring, Log
<1>a. PICK from, count \in Nat : Answers(log, since, room, from, count)
  BY GetSinceLines
<1>1. /\ from = IF since < Oldest(log) THEN Oldest(log) ELSE since
      /\ count = IF from >= log.head THEN 0
                 ELSE IF log.head - from < room THEN log.head - from ELSE room
      /\ got = [i \in 1 .. count |-> [seq |-> from + i - 1, entry |-> log.all[from + i]]]
      /\ Oldest(log) \in Nat
      /\ \A s \in 0 .. log.head - 1 : s + MaxLines >= log.head <=> s >= Oldest(log)
  BY <1>a, GetSinceLines DEF Answers
<1> HIDE DEF got
<1>2. DOMAIN got = 1 .. count /\ Len(got) = count
  BY <1>1
<1>3. ASSUME NEW i \in 1 .. count
      PROVE  got[i].seq = from + i - 1 /\ got[i].entry = log.all[from + i]
  BY <1>1
<1>4. ASSUME NEW i \in DOMAIN got
      PROVE  /\ got[i].seq \in {s \in since .. log.head - 1 : s + MaxLines >= log.head}
             /\ got[i].seq = got[1].seq + i - 1
             /\ got[i].entry = log.all[got[i].seq + 1]
  <2>1. i \in 1 .. count /\ 1 \in 1 .. count
    BY <1>2, <1>4
  <2>2. got[i].seq = from + i - 1 /\ got[1].seq = from
    BY <1>1, <1>3, <2>1
  <2>3. from + i - 1 \in since .. log.head - 1 /\ from + i - 1 >= Oldest(log)
    <3>1. i \in Nat /\ i >= 1 /\ i <= count /\ count \in Nat
      BY <2>1
    <3>2. from >= since /\ from >= Oldest(log) /\ count <= log.head - from
      BY <1>0, <1>1, <3>1
    <3>3. Oldest(log) \in Nat
      BY <1>1
    <3> QED BY <1>0, <3>1, <3>2, <3>3
  <2>4. (from + i - 1) + MaxLines >= log.head
    BY <1>1, <2>3
  <2>5. got[i].seq + 1 = from + i
    BY <1>1, <2>1, <2>2
  <2> QED BY <1>1, <1>3, <2>1, <2>2, <2>3, <2>4, <2>5
<1>5. ASSUME NEW s \in since .. log.head - 1, s + MaxLines >= log.head
      PROVE  \/ \E i \in DOMAIN got : got[i].seq = s
             \/ Len(got) = room /\ \A i \in DOMAIN got : got[i].seq < s
  <2>1. s \in Nat /\ s >= from /\ s < log.head
    BY <1>0, <1>1, <1>5
  <2>2. CASE s < from + count
    <3>1. s - from + 1 \in 1 .. count
      BY <1>1, <2>1, <2>2
    <3>2. got[s - from + 1].seq = s
      BY <1>1, <1>3, <2>1, <3>1
    <3> QED BY <1>2, <3>1, <3>2
  <2>3. CASE s >= from + count
    <3>1. count = room
      BY <1>0, <1>1, <2>1, <2>3
    <3>2. \A i \in 1 .. count : got[i].seq < s
      BY <1>1, <1>3, <2>1, <2>3
    <3> QED BY <1>2, <3>1, <3>2
  <2>4. from + count \in Int
    BY <1>1
  <2> QED BY <2>1, <2>2, <2>3, <2>4
<1> QED BY <1>4, <1>5 DEF IsTheTail, got

-----------------------------------------------------------------------------
(* LogBuffer: what was logged                                              *)

LastNumber(all) == IF all = <<>> THEN 0 ELSE all[Len(all)].line

EndsWithLine(all) == all # <<>> => all[Len(all)].lost = 0

LEMMA LastNumberType ==
  ASSUME NEW all \in Seq(Line)
  PROVE  LastNumber(all) \in Nat
<1>1. all # <<>> => all[Len(all)] \in Line
  OBVIOUS
<1> QED BY <1>1 DEF LastNumber, Line

\* Accounted, for one entry; and it stays so when more entries follow.
Counts(all, i) ==
  IF all[i].lost > 0 THEN i + 1 \in DOMAIN all /\ ~(all[i + 1].lost > 0)
  ELSE all[i].line = IF i - 1 \in DOMAIN all /\ all[i - 1].lost > 0
                     THEN (IF i - 2 = 0 THEN 0 ELSE all[i - 2].line) + all[i - 1].lost + 1
                     ELSE (IF i - 1 = 0 THEN 0 ELSE all[i - 1].line) + 1

LEMMA AccountedCounts ==
  ASSUME NEW all
  PROVE  Accounted(all) <=> \A i \in DOMAIN all : Counts(all, i)
  BY DEF Accounted, Counts

LEMMA StillCounts ==
  ASSUME NEW all \in Seq(Line), NEW next \in Seq(Line), Len(next) > Len(all),
         \A i \in 1 .. Len(all) : next[i] = all[i],
         NEW i \in 1 .. Len(all), Counts(all, i)
  PROVE  Counts(next, i)
<1> DEFINE len == Len(all)
<1>0. /\ len \in Nat /\ DOMAIN all = 1 .. len /\ i \in 1 .. len
      /\ Len(next) \in Nat /\ DOMAIN next = 1 .. Len(next) /\ Len(next) > len
  OBVIOUS
<1> HIDE DEF len
<1>1. next[i] = all[i] /\ i - 1 \in 0 .. len /\ (i - 1 # 0 => next[i - 1] = all[i - 1])
  BY <1>0 DEF len
<1>2. CASE all[i].lost > 0
  <2>1. i + 1 \in 1 .. len /\ ~(all[i + 1].lost > 0)
    BY <1>0, <1>2 DEF Counts
  <2>2. next[i + 1] = all[i + 1] /\ i + 1 \in DOMAIN next
    BY <1>0, <2>1 DEF len
  <2> QED BY <1>1, <1>2, <2>1, <2>2 DEF Counts
<1>3. CASE ~(all[i].lost > 0)
  <2>1. CASE i - 1 \in 1 .. len /\ all[i - 1].lost > 0
    <3>1. i - 2 # 0 => next[i - 2] = all[i - 2]
      BY <1>0, <2>1 DEF len
    <3>2. i - 1 \in DOMAIN next /\ next[i - 1] = all[i - 1]
      BY <1>0, <1>1, <2>1
    <3>3. all[i].line = (IF i - 2 = 0 THEN 0 ELSE all[i - 2].line) + all[i - 1].lost + 1
      BY <1>0, <1>3, <2>1 DEF Counts
    <3> QED BY <1>1, <1>3, <2>1, <3>1, <3>2, <3>3 DEF Counts
  <2>2. CASE ~(i - 1 \in 1 .. len /\ all[i - 1].lost > 0)
    <3>1. all[i].line = (IF i - 1 = 0 THEN 0 ELSE all[i - 1].line) + 1
      BY <1>0, <1>3, <2>2 DEF Counts
    <3>2. ~(i - 1 \in DOMAIN next /\ next[i - 1].lost > 0)
      BY <1>0, <1>1, <2>2
    <3> QED BY <1>1, <1>3, <3>1, <3>2 DEF Counts
  <2> QED BY <2>1, <2>2
<1> QED BY <1>2, <1>3

\* The next line, and the next line after a marker, keep the count.
LEMMA NextLine ==
  ASSUME NEW all \in Seq(Line), Accounted(all), EndsWithLine(all)
  PROVE  /\ Accounted(Append(all, LineOf(LastNumber(all) + 1)))
         /\ EndsWithLine(Append(all, LineOf(LastNumber(all) + 1)))
         /\ LastNumber(Append(all, LineOf(LastNumber(all) + 1))) = LastNumber(all) + 1
<1> DEFINE entry == LineOf(LastNumber(all) + 1)
           next == Append(all, entry)
           len == Len(all)
<1>0. len \in Nat /\ DOMAIN all = 1 .. len /\ \A i \in 1 .. len : all[i] \in Line
  OBVIOUS
<1>1. LastNumber(all) \in Nat
  BY LastNumberType
<1>2. entry.line = LastNumber(all) + 1 /\ entry.lost = 0
  BY DEF LineOf
<1>3. /\ DOMAIN next = 1 .. len + 1 /\ next[len + 1] = entry
      /\ Len(next) = len + 1 /\ next # <<>>
      /\ \A i \in 1 .. len : next[i] = all[i]
  <2>1. ASSUME NEW e \in Line
        PROVE  /\ DOMAIN Append(all, e) = 1 .. Len(all) + 1
               /\ Append(all, e)[Len(all) + 1] = e
               /\ Len(Append(all, e)) = Len(all) + 1 /\ Append(all, e) # <<>>
               /\ \A i \in 1 .. Len(all) : Append(all, e)[i] = all[i]
    OBVIOUS
  <2>2. entry \in Line
    BY <1>1 DEF LineOf, Line
  <2> QED BY <2>1, <2>2
<1> HIDE DEF entry, next
<1>4. ASSUME NEW i \in 1 .. len
      PROVE  Counts(next, i)
  <2>1. next \in Seq(Line)
    BY <1>0, <1>1 DEF next, entry, LineOf, Line
  <2>2. Counts(all, i)
    BY <1>0, AccountedCounts
  <2> QED BY <1>0, <1>3, <2>1, <2>2, StillCounts
<1>5. next[len + 1].lost = 0 /\ next[len + 1].line = LastNumber(all) + 1
  BY <1>2, <1>3
<1>6. /\ ~(len \in 1 .. len + 1 /\ next[len].lost > 0)
      /\ LastNumber(all) = IF len = 0 THEN 0 ELSE next[len].line
  <2>1. CASE all = <<>>
    BY <2>1, <1>0 DEF LastNumber
  <2>2. CASE all # <<>>
    BY <2>2, <1>0, <1>3 DEF LastNumber, EndsWithLine
  <2> QED BY <2>1, <2>2
<1>7. Accounted(next)
  <2> SUFFICES ASSUME NEW i \in 1 .. len + 1  PROVE Counts(next, i)
    BY <1>3, AccountedCounts
  <2>1. CASE i \in 1 .. len
    BY <1>4, <2>1
  <2>2. CASE i = len + 1
    <3>1. (len + 1) - 1 = len
      BY <1>0
    <3> QED BY <1>0, <1>3, <1>5, <1>6, <2>2, <3>1 DEF Counts
  <2> QED BY <1>0, <2>1, <2>2
<1>8. EndsWithLine(next) /\ LastNumber(next) = LastNumber(all) + 1
  BY <1>2, <1>3 DEF EndsWithLine, LastNumber
<1> QED BY <1>7, <1>8 DEF next, entry

LEMMA LineAfterGap ==
  ASSUME NEW all \in Seq(Line), Accounted(all), EndsWithLine(all), NEW k \in Nat, k > 0,
         NEW next, next = Append(Append(all, Marker(k)), LineOf(LastNumber(all) + k + 1))
  PROVE  Accounted(next) /\ EndsWithLine(next) /\ LastNumber(next) = LastNumber(all) + k + 1
<1> DEFINE len == Len(all)
           marker == Marker(k)
           entry == LineOf(LastNumber(all) + k + 1)
<1>0. len \in Nat /\ DOMAIN all = 1 .. len /\ \A i \in 1 .. len : all[i] \in Line
  OBVIOUS
<1>1. LastNumber(all) \in Nat
  BY LastNumberType
<1>2. entry.line = LastNumber(all) + k + 1 /\ entry.lost = 0 /\ marker.lost = k
  BY DEF LineOf, Marker
<1>3. /\ DOMAIN next = 1 .. len + 2 /\ next[len + 1] = marker /\ next[len + 2] = entry
      /\ Len(next) = len + 2 /\ next # <<>>
      /\ \A i \in 1 .. len : next[i] = all[i]
  BY <1>0
<1> HIDE DEF entry, marker
<1>4. ASSUME NEW i \in 1 .. len
      PROVE  Counts(next, i)
  <2>1. next \in Seq(Line)
    BY <1>0, <1>1 DEF LineOf, Marker, Line
  <2>2. Counts(all, i)
    BY <1>0, AccountedCounts
  <2>3. Len(next) > len /\ \A j \in 1 .. len : next[j] = all[j]
    BY <1>0, <1>3
  <2> QED BY <2>1, <2>2, <2>3, StillCounts
<1>5. /\ next[len + 2].lost = 0 /\ next[len + 2].line = LastNumber(all) + k + 1
      /\ next[len + 1].lost = k
  BY <1>2, <1>3
<1>6. LastNumber(all) = IF len = 0 THEN 0 ELSE next[len].line
  <2>1. CASE all = <<>>
    BY <2>1, <1>0 DEF LastNumber
  <2>2. CASE all # <<>>
    <3>1. len # 0 /\ len \in 1 .. len
      BY <1>0, <2>2
    <3>2. next[len] = all[len]
      BY <1>3, <3>1
    <3> QED BY <2>2, <3>1, <3>2 DEF LastNumber
  <2> QED BY <2>1, <2>2
<1>7. Accounted(next)
  <2> SUFFICES ASSUME NEW i \in 1 .. len + 2  PROVE Counts(next, i)
    BY <1>3, AccountedCounts
  <2>1. CASE i \in 1 .. len
    BY <1>4, <2>1
  <2>2. CASE i = len + 1
    <3>1. (len + 1) + 1 = len + 2 /\ len + 2 \in 1 .. len + 2
      BY <1>0
    <3>2. next[i].lost > 0 /\ ~(next[i + 1].lost > 0)
      BY <1>5, <2>2, <3>1
    <3> QED BY <1>3, <2>2, <3>1, <3>2 DEF Counts
  <2>3. CASE i = len + 2
    <3>1. (len + 2) - 1 = len + 1 /\ (len + 2) - 2 = len /\ len + 1 \in 1 .. len + 2
      BY <1>0
    <3>2. ~(next[i].lost > 0) /\ next[i].line = LastNumber(all) + k + 1
      BY <1>5, <2>3
    <3>3. i - 1 \in 1 .. len + 2 /\ next[i - 1].lost > 0 /\ next[i - 1].lost = k
      BY <1>5, <2>3, <3>1
    <3>4. LastNumber(all) = IF i - 2 = 0 THEN 0 ELSE next[i - 2].line
      BY <1>6, <2>3, <3>1
    <3> QED BY <1>3, <3>2, <3>3, <3>4 DEF Counts
  <2> QED BY <1>0, <2>1, <2>2, <2>3
<1>8. EndsWithLine(next) /\ LastNumber(next) = LastNumber(all) + k + 1
  BY <1>2, <1>3 DEF EndsWithLine, LastNumber
<1> QED BY <1>7, <1>8

-----------------------------------------------------------------------------
(* LogBuffer: the console                                                  *)

Shown == [boot : Nat, seq : Nat, entry : Line]

\* What a state of a run is made of.  No line is forgotten: the last number and what has been
\* dropped since make up the number of all lines.
WorldOK(w) ==
  /\ DOMAIN w = {"log", "con", "boot", "n", "head"}
  /\ Ring(w.log)
  /\ w.n \in Nat /\ w.boot \in Nat /\ w.head \in Nat
  /\ w.con \in [seq : Nat, shown : Seq(Shown)]
  /\ Accounted(w.log.all) /\ EndsWithLine(w.log.all)
  /\ w.n = LastNumber(w.log.all) + w.log.dropped

LEMMA FirstWorld == WorldOK(World)
<1>1. Ring(NoLog) /\ NoLog.all = <<>> /\ NoLog.dropped = 0
  BY NoLogRing DEF NoLog
<1>2. Accounted(<<>>) /\ EndsWithLine(<<>>) /\ LastNumber(<<>>) = 0
  BY DEF Accounted, EndsWithLine, LastNumber
<1>3. Closed \in [seq : Nat, shown : Seq(Shown)]
  BY DEF Closed
<1> QED BY <1>1, <1>2, <1>3 DEF WorldOK, World

LEMMA AfterLine ==
  ASSUME NEW w, WorldOK(w)
  PROVE  /\ WorldOK(After(w, "line"))
         /\ After(w, "line").con = w.con /\ After(w, "line").boot = w.boot
         /\ After(w, "line").head = w.head /\ After(w, "line").log.head >= w.log.head
<1> DEFINE log == Stored(w.log, w.n + 1)
           v == After(w, "line")
<1>0. Ring(w.log) /\ w.n \in Nat /\ w.log \in Log
  BY DEF WorldOK, Ring
<1>1. v = [[w EXCEPT !.n = w.n + 1] EXCEPT !.log = log]
  BY DEF After
<1>2. /\ DOMAIN v = DOMAIN w /\ v.n = w.n + 1 /\ v.log = log /\ v.con = w.con
      /\ v.boot = w.boot /\ v.head = w.head
  BY <1>1 DEF WorldOK
<1> HIDE DEF v
<1>3. /\ Ring(log) /\ log.dropped = 0 /\ log.head >= w.log.head
      /\ w.log.dropped = 0 => log.all = Append(w.log.all, LineOf(w.n + 1))
      /\ w.log.dropped # 0 => log.all = Append(Append(w.log.all, Marker(w.log.dropped)),
                                               LineOf(w.n + 1))
  BY <1>0, StoredRing, w.n + 1 \in Nat
<1> HIDE DEF log
<1>4. /\ w.log.all \in Seq(Line) /\ w.log.dropped \in Nat
      /\ Accounted(w.log.all) /\ EndsWithLine(w.log.all)
      /\ w.n = LastNumber(w.log.all) + w.log.dropped
  BY <1>0 DEF WorldOK, Log
<1>4a. LastNumber(w.log.all) \in Nat
  BY <1>4, LastNumberType
<1>5. Accounted(log.all) /\ EndsWithLine(log.all) /\ LastNumber(log.all) = w.n + 1
  <2>1. CASE w.log.dropped = 0
    <3>1. w.n + 1 = LastNumber(w.log.all) + 1
      BY <1>4, <1>4a, <2>1
    <3> QED BY <1>3, <1>4, <2>1, <3>1, NextLine
  <2>2. CASE w.log.dropped # 0
    <3>1. w.n + 1 = LastNumber(w.log.all) + w.log.dropped + 1 /\ w.log.dropped > 0
      BY <1>4, <1>4a, <2>2
    <3> QED BY <1>3, <1>4, <2>2, <3>1, LineAfterGap
  <2> QED BY <2>1, <2>2
<1>6. WorldOK(v)
  BY <1>0, <1>2, <1>3, <1>5 DEF WorldOK
<1> QED BY <1>2, <1>3, <1>6 DEF v

LEMMA AfterDrop ==
  ASSUME NEW w, WorldOK(w)
  PROVE  /\ WorldOK(After(w, "drop"))
         /\ After(w, "drop").con = w.con /\ After(w, "drop").boot = w.boot
         /\ After(w, "drop").head = w.head /\ After(w, "drop").log.head = w.log.head
<1> DEFINE log == Dropped(w.log)
           v == After(w, "drop")
<1>0. Ring(w.log) /\ w.n \in Nat /\ w.log \in Log
  BY DEF WorldOK, Ring
<1>1. v = [[w EXCEPT !.n = w.n + 1] EXCEPT !.log = log]
  BY DEF After
<1>2. /\ DOMAIN v = DOMAIN w /\ v.n = w.n + 1 /\ v.log = log /\ v.con = w.con
      /\ v.boot = w.boot /\ v.head = w.head
  BY <1>1 DEF WorldOK
<1> HIDE DEF v
<1>3. /\ Ring(log) /\ log.all = w.log.all /\ log.head = w.log.head
      /\ log.dropped = w.log.dropped + 1
  BY <1>0, DroppedRing
<1> HIDE DEF log
<1>4. /\ w.log.all \in Seq(Line) /\ w.log.dropped \in Nat
      /\ Accounted(w.log.all) /\ EndsWithLine(w.log.all)
      /\ w.n = LastNumber(w.log.all) + w.log.dropped
  BY <1>0 DEF WorldOK, Log
<1>5. LastNumber(w.log.all) \in Nat
  BY <1>4, LastNumberType
<1>6. w.n + 1 = LastNumber(w.log.all) + (w.log.dropped + 1)
  BY <1>4, <1>5
<1>7. WorldOK(v)
  BY <1>0, <1>2, <1>3, <1>4, <1>6 DEF WorldOK
<1> QED BY <1>2, <1>3, <1>7 DEF v

LEMMA AfterReboot ==
  ASSUME NEW w, WorldOK(w)
  PROVE  /\ WorldOK(After(w, "reboot"))
         /\ After(w, "reboot").con = w.con /\ After(w, "reboot").boot = w.boot + 1
<1> DEFINE v == After(w, "reboot")
<1>1. v = [[[w EXCEPT !.boot = w.boot + 1] EXCEPT !.log = NoLog] EXCEPT !.n = 0]
  BY DEF After
<1>2. /\ DOMAIN v = DOMAIN w /\ v.n = 0 /\ v.log = NoLog /\ v.con = w.con
      /\ v.boot = w.boot + 1 /\ v.head = w.head
  BY <1>1 DEF WorldOK
<1> HIDE DEF v
<1>3. Ring(NoLog) /\ NoLog.all = <<>> /\ NoLog.dropped = 0
  BY NoLogRing DEF NoLog
<1>4. Accounted(<<>>) /\ EndsWithLine(<<>>) /\ LastNumber(<<>>) = 0
  BY DEF Accounted, EndsWithLine, LastNumber
<1>5. WorldOK(v)
  BY <1>2, <1>3, <1>4 DEF WorldOK
<1> QED BY <1>2, <1>5 DEF v

\* A poll leaves the ring alone.  The first answer only sets the cursor; any other is shown and
\* takes the cursor to the head.
Starts(w) == w.con.seq = 0 /\ w.log.head > 0

Shows(con, w, from, count) ==
  /\ from = IF w.con.seq < Oldest(w.log) THEN Oldest(w.log) ELSE w.con.seq
  /\ count > 0 => from + count <= w.log.head
  /\ Len(con.shown) = Len(w.con.shown) + count
  /\ \A i \in 1 .. Len(w.con.shown) : con.shown[i] = w.con.shown[i]
  /\ \A i \in 1 .. count : LET new == con.shown[Len(w.con.shown) + i]
                          IN  new.boot = w.boot /\ new.seq = from + i - 1

LEMMA ShownAfter ==
  ASSUME NEW s \in Seq(Shown), NEW t \in Seq(Shown)
  PROVE  /\ Len(s \o t) = Len(s) + Len(t)
         /\ \A i \in 1 .. Len(s) : (s \o t)[i] = s[i]
         /\ \A i \in 1 .. Len(t) : (s \o t)[Len(s) + i] = t[i]
  OBVIOUS

LEMMA AfterPoll ==
  ASSUME NEW w, WorldOK(w), NEW room \in Nat
  PROVE  /\ WorldOK(Polls(w, room))
         /\ Polls(w, room).log = w.log /\ Polls(w, room).boot = w.boot
         /\ Polls(w, room).head = w.log.head
         /\ Starts(w) => /\ Polls(w, room).con.seq = Oldest(w.log)
                         /\ Polls(w, room).con.shown = w.con.shown
         /\ ~Starts(w) => /\ Polls(w, room).con.seq = w.log.head
                          /\ \E from, count \in Nat :
                               /\ Shows(Polls(w, room).con, w, from, count)
                               /\ room >= w.log.head - from => from + count >= w.log.head
<1> DEFINE answer == GetSince(w.log, w.con.seq, room)
           con == LogTick(w.con, answer, w.boot)
           v == Polls(w, room)
<1>0. /\ Ring(w.log) /\ w.con \in [seq : Nat, shown : Seq(Shown)] /\ w.con.seq \in Nat
      /\ w.con.shown \in Seq(Shown) /\ w.log.head \in Nat /\ w.boot \in Nat
      /\ w.log.all \in Seq(Line) /\ w.log.head = Len(w.log.all)
  BY DEF WorldOK, Ring, Log
<1>1. PICK from, count \in Nat : Answers(w.log, w.con.seq, room, from, count)
  BY <1>0, GetSinceLines
<1>2. /\ answer.head = w.log.head /\ answer.oldest = Oldest(w.log) /\ Oldest(w.log) \in Nat
      /\ from = IF w.con.seq < Oldest(w.log) THEN Oldest(w.log) ELSE w.con.seq
      /\ count = IF from >= w.log.head THEN 0
                 ELSE IF w.log.head - from < room THEN w.log.head - from ELSE room
      /\ answer.lines
           = [i \in 1 .. count |-> [seq |-> from + i - 1, entry |-> w.log.all[from + i]]]
  BY <1>0, <1>1, GetSinceLines DEF GetSince, Answers
<1>2a. /\ count > 0 => from + count <= w.log.head
       /\ room >= w.log.head - from => from + count >= w.log.head
  <2>1. count = IF from >= w.log.head THEN 0
                ELSE IF w.log.head - from < room THEN w.log.head - from ELSE room
    BY <1>2
  <2> QED BY <2>1, <1>0
<1>3. /\ DOMAIN v = DOMAIN w /\ v.log = w.log /\ v.boot = w.boot /\ v.n = w.n
      /\ v.head = w.log.head /\ v.con = con
  BY DEF Polls, WorldOK
<1> HIDE DEF v, answer
<1>4. CASE Starts(w)
  <2>1. con = [w.con EXCEPT !.seq = Oldest(w.log)]
    BY <1>2, <1>4 DEF LogTick, Starts
  <2>2. /\ con \in [seq : Nat, shown : Seq(Shown)]
        /\ con.seq = Oldest(w.log) /\ con.shown = w.con.shown
    BY <1>0, <1>2, <2>1
  <2> QED BY <1>3, <1>4, <1>0, <2>2 DEF WorldOK, v
<1>5. CASE ~Starts(w)
  <2> DEFINE new == [i \in DOMAIN answer.lines |->
                       [boot |-> w.boot, seq |-> answer.lines[i].seq,
                        entry |-> answer.lines[i].entry]]
  <2>1. con = [[w.con EXCEPT !.seq = answer.head] EXCEPT !.shown = w.con.shown \o new]
    BY <1>2, <1>5 DEF LogTick, Starts
  <2>2. new = [i \in 1 .. count |-> [boot |-> w.boot, seq |-> from + i - 1,
                                     entry |-> w.log.all[from + i]]]
    <3>1. DOMAIN answer.lines = 1 .. count
      BY <1>2
    <3>2. \A i \in 1 .. count : /\ answer.lines[i].seq = from + i - 1
                               /\ answer.lines[i].entry = w.log.all[from + i]
      BY <1>2
    <3> QED BY <3>1, <3>2
  <2> HIDE DEF new
  <2>3. ASSUME NEW i \in 1 .. count
        PROVE  new[i] \in Shown /\ new[i].boot = w.boot /\ new[i].seq = from + i - 1
    <3>1. from + i \in 1 .. Len(w.log.all) /\ from + i - 1 \in Nat
      <4>1. from + count <= w.log.head
        BY <1>2a
      <4> QED BY <1>0, <4>1
    <3>2. w.log.all[from + i] \in Line
      BY <1>0, <3>1
    <3> QED BY <1>0, <2>2, <3>1, <3>2 DEF Shown
  <2>4. new \in Seq(Shown) /\ Len(new) = count
    <3>1. DOMAIN new = 1 .. count /\ new = [i \in 1 .. count |-> new[i]]
      BY <2>2
    <3>2. new \in [1 .. count -> Shown]
      BY <2>3, <3>1
    <3> QED BY <3>2
  <2>5. con.seq = w.log.head /\ con.shown = w.con.shown \o new
    <3>1. con = [[w.con EXCEPT !.seq = w.log.head] EXCEPT !.shown = w.con.shown \o new]
      BY <1>2, <2>1
    <3> QED BY <1>0, <3>1
  <2>6. w.con.shown \o new \in Seq(Shown)
    BY <1>0, <2>4
  <2>7. con \in [seq : Nat, shown : Seq(Shown)]
    BY <1>0, <1>2, <2>1, <2>6
  <2> HIDE DEF con
  <2>8. WorldOK(v)
    BY <1>3, <1>0, <2>7 DEF WorldOK
  <2>9. Shows(v.con, w, from, count)
    <3>1. count > 0 => from + count <= w.log.head
      BY <1>2a
    <3>6. /\ Len(w.con.shown \o new) = Len(w.con.shown) + count
          /\ \A i \in 1 .. Len(w.con.shown) : (w.con.shown \o new)[i] = w.con.shown[i]
          /\ \A i \in 1 .. count : (w.con.shown \o new)[Len(w.con.shown) + i] = new[i]
      BY <1>0, <2>4, ShownAfter
    <3>2. Len(con.shown) = Len(w.con.shown) + count
      BY <2>5, <3>6
    <3>3. \A i \in 1 .. Len(w.con.shown) : con.shown[i] = w.con.shown[i]
      BY <2>5, <3>6
    <3>4. \A i \in 1 .. count : con.shown[Len(w.con.shown) + i] = new[i]
      BY <2>5, <3>6
    <3>5. from = IF w.con.seq < Oldest(w.log) THEN Oldest(w.log) ELSE w.con.seq
      BY <1>2
    <3> HIDE DEF LogTick
    <3> QED BY <1>3, <2>3, <3>1, <3>2, <3>3, <3>4, <3>5 DEF Shows
  <2>10. room >= w.log.head - from => from + count >= w.log.head
    BY <1>2a
  <2> QED BY <1>3, <1>5, <2>5, <2>8, <2>9, <2>10 DEF v
<1> QED BY <1>4, <1>5

-----------------------------------------------------------------------------
(* LogBuffer: its runs                                                     *)

VARIABLE world

\* What happens in any order and for ever, out of what may happen.
LogRuns(ops) == world = World /\ [][\E op \in ops : world' = After(world, op)]_world

LEMMA LogStep ==
  ASSUME WorldOK(world), [\E op \in Ops : world' = After(world, op)]_world
  PROVE  WorldOK(world)'
<1>1. CASE \E op \in Ops : world' = After(world, op)
  <2>1. PICK op \in Ops : world' = After(world, op)
    BY <1>1
  <2>2. CASE op = "poll" \/ op = "short"
    <3>1. \E room \in Nat : world' = Polls(world, room)
      <4>1. MaxLines \in Nat /\ 1 \in Nat
        OBVIOUS
      <4> QED BY <2>1, <2>2, <4>1 DEF After
    <3> QED BY <3>1, AfterPoll
  <2>3. CASE op \in {"line", "drop", "reboot"}
    BY <2>1, <2>3, AfterLine, AfterDrop, AfterReboot
  <2> QED BY <2>2, <2>3 DEF Ops
<1>2. CASE UNCHANGED world
  BY <1>2
<1> QED BY <1>1, <1>2

LEMMA WorldAlwaysOK == LogRuns(Ops) => []WorldOK(world)
<1>1. world = World => WorldOK(world)
  BY FirstWorld
<1>2. WorldOK(world) /\ [\E op \in Ops : world' = After(world, op)]_world => WorldOK(world)'
  BY LogStep
<1> QED BY <1>1, <1>2, PTL DEF LogRuns

\* Whatever was logged, dropped and lost with restarts, a reader with any cursor and any room
\* is given the tail of it (lb_get_since).
THEOREM ReadersGetTheTail ==
  LogRuns(Ops) => [](\A since, room \in Nat : IsTheTail(world.log, since, room))
<1>1. WorldOK(world) => \A since, room \in Nat : IsTheTail(world.log, since, room)
  BY RingTail DEF WorldOK
<1> QED BY <1>1, WorldAlwaysOK, PTL

\* Every line that the hook could not store is counted by a marker before the next line that
\* it could, and none is counted twice (log_vprintf_hook).
THEOREM LossesAreMarked ==
  LogRuns(Ops) => [](/\ Accounted(world.log.all)
                     /\ world.n = LastNumber(world.log.all) + world.log.dropped)
<1>1. WorldOK(world) => /\ Accounted(world.log.all)
                        /\ world.n = LastNumber(world.log.all) + world.log.dropped
  BY DEF WorldOK
<1> QED BY <1>1, WorldAlwaysOK, PTL

-----------------------------------------------------------------------------
(* LogBuffer: the console goes forward                                     *)

\* What is shown is behind the cursor and in the ring, or from before the last restart.
Forward(w) ==
  /\ NeverTwice(w.con.shown)
  /\ \A i \in DOMAIN w.con.shown :
       /\ w.con.shown[i].boot <= w.boot
       /\ w.con.shown[i].boot = w.boot =>
            w.con.shown[i].seq < w.con.seq /\ w.con.shown[i].seq < w.log.head

LEMMA PollForward ==
  ASSUME NEW w, WorldOK(w), Forward(w), NEW room \in Nat
  PROVE  Forward(Polls(w, room))
<1> DEFINE v == Polls(w, room)
           shown == w.con.shown
           len == Len(shown)
<1>0. /\ shown \in Seq(Shown) /\ w.con.seq \in Nat /\ w.boot \in Nat /\ w.log.head \in Nat
      /\ len \in Nat /\ DOMAIN shown = 1 .. len
      /\ \A i \in 1 .. len : shown[i].boot \in Nat /\ shown[i].seq \in Nat
  <2>1. shown \in Seq(Shown) /\ w.con.seq \in Nat /\ w.boot \in Nat /\ w.log.head \in Nat
    BY DEF WorldOK, Ring, Log
  <2>2. \A i \in 1 .. len : shown[i] \in Shown
    BY <2>1
  <2> QED BY <2>1, <2>2 DEF Shown
<1>1. /\ WorldOK(v) /\ v.log = w.log /\ v.boot = w.boot
      /\ Starts(w) => v.con.seq = Oldest(w.log) /\ v.con.shown = shown
      /\ ~Starts(w) => /\ v.con.seq = w.log.head
                       /\ \E from, count \in Nat : Shows(v.con, w, from, count)
  BY AfterPoll
<1> HIDE DEF v, len
<1>2. CASE Starts(w)
  <2>1. w.con.seq = 0 /\ v.con.shown = shown
    BY <1>1, <1>2 DEF Starts
  <2>2. \A i \in 1 .. len : shown[i].boot <= w.boot /\ shown[i].boot # w.boot
    BY <1>0, <2>1 DEF Forward
  <2> QED BY <1>0, <1>1, <2>1, <2>2 DEF Forward, v
<1>3. CASE ~Starts(w)
  <2> PICK from, count \in Nat : Shows(v.con, w, from, count)
    BY <1>1, <1>3
  <2> DEFINE new == v.con.shown
  <2>1. /\ from >= w.con.seq
        /\ count > 0 => from + count <= w.log.head
        /\ Len(new) = len + count
        /\ \A i \in 1 .. len : new[i] = shown[i]
        /\ \A i \in 1 .. count : new[len + i].boot = w.boot /\ new[len + i].seq = from + i - 1
    BY <1>0 DEF Shows, len
  <2>2. new \in Seq(Shown) /\ DOMAIN new = 1 .. len + count /\ v.con.seq = w.log.head
    <3>1. new \in Seq(Shown)
      BY <1>1 DEF WorldOK
    <3> QED BY <3>1, <2>1, <1>1, <1>3
  <2> HIDE DEF new
  <2>3. ASSUME NEW i \in len + 1 .. len + count
        PROVE  new[i].boot = w.boot /\ new[i].seq = from + (i - len) - 1
    <3>1. i - len \in 1 .. count /\ len + (i - len) = i
      BY <1>0
    <3> QED BY <2>1, <3>1
  <2>4. ASSUME NEW i \in 1 .. len
        PROVE  /\ new[i].boot = shown[i].boot /\ new[i].seq = shown[i].seq
               /\ shown[i].boot <= w.boot
               /\ shown[i].boot = w.boot =>
                    shown[i].seq < w.con.seq /\ shown[i].seq < w.log.head
    BY <2>1, <1>0 DEF Forward
  <2>5. ASSUME NEW i \in 1 .. len + count
        PROVE  new[i].boot <= w.boot /\ (new[i].boot = w.boot => new[i].seq < w.log.head)
    <3>1. CASE i \in 1 .. len
      BY <2>4, <3>1
    <3>2. CASE i \in len + 1 .. len + count
      <4>1. i - len \in 1 .. count /\ new[i].boot = w.boot /\ new[i].seq = from + (i - len) - 1
        BY <1>0, <2>3, <3>2
      <4>2. from + count <= w.log.head
        <5>1. count > 0
          BY <4>1
        <5> QED BY <2>1, <5>1
      <4>3. from + (i - len) - 1 < from + count /\ from + (i - len) - 1 \in Int
        BY <1>0, <4>1
      <4>4. from + (i - len) - 1 < w.log.head
        BY <1>0, <4>2, <4>3
      <4> QED BY <1>0, <4>1, <4>4
    <3> QED BY <1>0, <3>1, <3>2
  <2>6. ASSUME NEW i \in 1 .. len + count, NEW j \in 1 .. len + count, i < j
        PROVE  \/ new[i].boot < new[j].boot
               \/ new[i].boot = new[j].boot /\ new[i].seq < new[j].seq
    <3>1. CASE j \in 1 .. len
      <4>1. i \in 1 .. len
        BY <1>0, <2>6, <3>1
      <4>2. \/ shown[i].boot < shown[j].boot
            \/ shown[i].boot = shown[j].boot /\ shown[i].seq < shown[j].seq
        BY <1>0, <2>6, <3>1, <4>1 DEF Forward, NeverTwice
      <4> QED BY <2>4, <3>1, <4>1, <4>2
    <3>2. CASE j \in len + 1 .. len + count
      <4>1. CASE i \in 1 .. len
        <5>1. new[i].boot \in Nat /\ new[i].seq \in Nat
          BY <1>0, <2>4, <4>1
        <5>2. new[j].boot = w.boot /\ new[j].seq >= from
          BY <1>0, <2>3, <3>2
        <5>3. new[j].seq \in Nat /\ from >= w.con.seq
          <6>1. j - len \in Nat /\ j - len >= 1
            BY <1>0, <3>2
          <6>2. from + (j - len) - 1 \in Nat
            BY <6>1
          <6>3. from >= w.con.seq
            BY <2>1
          <6> QED BY <2>3, <3>2, <6>2, <6>3
        <5>4. /\ new[i].boot <= w.boot
              /\ new[i].boot = w.boot => new[i].seq < w.con.seq
          BY <2>4, <4>1
        <5>5. CASE new[i].boot = w.boot
          <6>1. new[i].seq < new[j].seq
            BY <1>0, <5>1, <5>2, <5>3, <5>4, <5>5
          <6> QED BY <5>2, <5>5, <6>1
        <5>6. CASE new[i].boot # w.boot
          <6>1. new[i].boot < w.boot
            BY <1>0, <5>1, <5>4, <5>6
          <6> QED BY <5>2, <6>1
        <5> QED BY <5>5, <5>6
      <4>2. CASE i \in len + 1 .. len + count
        <5>1. /\ new[i].boot = w.boot /\ new[i].seq = from + (i - len) - 1
              /\ new[j].boot = w.boot /\ new[j].seq = from + (j - len) - 1
          BY <2>3, <3>2, <4>2
        <5>2. i \in Int /\ j \in Int
          BY <1>0
        <5>3. from + (i - len) - 1 < from + (j - len) - 1
          BY <1>0, <2>6, <5>2
        <5> QED BY <5>1, <5>3
      <4> QED BY <1>0, <4>1, <4>2
    <3> QED BY <1>0, <3>1, <3>2
  <2> QED BY <1>1, <2>2, <2>5, <2>6 DEF Forward, NeverTwice, new, v
<1> QED BY <1>2, <1>3

LEMMA ForwardStep ==
  ASSUME WorldOK(world), Forward(world), [\E op \in Ops : world' = After(world, op)]_world
  PROVE  Forward(world)'
<1>1. CASE \E op \in Ops : world' = After(world, op)
  <2>1. PICK op \in Ops : world' = After(world, op)
    BY <1>1
  <2>2. CASE op = "poll" \/ op = "short"
    <3>1. \E room \in Nat : world' = Polls(world, room)
      <4>1. MaxLines \in Nat /\ 1 \in Nat
        OBVIOUS
      <4> QED BY <2>1, <2>2, <4>1 DEF After
    <3> QED BY <3>1, PollForward
  <2>0. /\ world.log.head \in Nat /\ world.boot \in Nat
        /\ \A i \in DOMAIN world.con.shown : /\ world.con.shown[i].boot \in Nat
                                             /\ world.con.shown[i].seq \in Nat
    <3>1. world.con.shown \in Seq(Shown)
      BY DEF WorldOK
    <3>2. \A i \in DOMAIN world.con.shown : world.con.shown[i] \in Shown
      BY <3>1
    <3> QED BY <3>2 DEF WorldOK, Ring, Log, Shown
  <2>3. CASE op \in {"line", "drop"}
    <3>1. /\ world'.con = world.con /\ world'.boot = world.boot
          /\ world'.log.head >= world.log.head /\ world'.log.head \in Nat
      <4>1. WorldOK(world')
        BY <2>1, <2>3, AfterLine, AfterDrop
      <4>2. world'.log.head \in Nat
        BY <4>1 DEF WorldOK, Ring, Log
      <4> QED BY <2>0, <2>1, <2>3, <4>2, AfterLine, AfterDrop
    <3> QED BY <2>0, <3>1 DEF Forward
  <2>4. CASE op = "reboot"
    <3>1. world'.con = world.con /\ world'.boot = world.boot + 1
      BY <2>1, <2>4, AfterReboot
    <3> QED BY <2>0, <3>1 DEF Forward
  <2> QED BY <2>2, <2>3, <2>4 DEF Ops
<1>2. CASE UNCHANGED world
  BY <1>2
<1> QED BY <1>1, <1>2

\* The console shows no line twice and none out of order, over any number of restarts.
THEOREM ConsoleGoesForward == LogRuns(Ops) => []NeverTwice(world.con.shown)
<1>1. world = World => Forward(world)
  BY DEF World, Closed, Forward, NeverTwice
<1>2. WorldOK(world) /\ Forward(world) /\ [\E op \in Ops : world' = After(world, op)]_world
        => Forward(world)'
  BY ForwardStep
<1>3. Forward(world) => NeverTwice(world.con.shown)
  BY DEF Forward
<1> QED BY <1>1, <1>2, <1>3, WorldAlwaysOK, PTL DEF LogRuns

-----------------------------------------------------------------------------
(* LogBuffer: the console misses nothing                                   *)

\* Once something is shown the cursor is one behind it, and is where the last answer ended.
Seamless(w) ==
  /\ NothingSkipped(w.con.shown)
  /\ w.con.shown # <<>> => /\ w.con.seq > 0 /\ w.con.seq = w.head /\ w.head <= w.log.head
                           /\ w.con.shown[Len(w.con.shown)].seq = w.con.seq - 1

LEMMA PollSeamless ==
  ASSUME NEW w, WorldOK(w), Seamless(w), InTime(w)
  PROVE  Seamless(Polls(w, MaxLines))
<1> DEFINE v == Polls(w, MaxLines)
           shown == w.con.shown
           len == Len(shown)
           new == v.con.shown
<1>0. /\ shown \in Seq(Shown) /\ w.con.seq \in Nat /\ w.log.head \in Nat
      /\ len \in Nat /\ DOMAIN shown = 1 .. len /\ w.head \in Nat
      /\ \A i \in 1 .. len : shown[i].seq \in Nat
  <2>1. shown \in Seq(Shown) /\ w.con.seq \in Nat /\ w.head \in Nat /\ w.log.head \in Nat
    BY DEF WorldOK, Ring, Log
  <2>2. \A i \in 1 .. len : shown[i] \in Shown
    BY <2>1
  <2> QED BY <2>1, <2>2 DEF Shown
<1>1. /\ WorldOK(v) /\ v.log = w.log /\ v.head = w.log.head
      /\ Starts(w) => v.con.seq = Oldest(w.log) /\ v.con.shown = shown
      /\ ~Starts(w) => /\ v.con.seq = w.log.head
                       /\ \E from, count \in Nat :
                            /\ Shows(v.con, w, from, count)
                            /\ MaxLines >= w.log.head - from => from + count >= w.log.head
  <2>1. MaxLines \in Nat
    OBVIOUS
  <2> QED BY <2>1, AfterPoll
<1> HIDE DEF v, len
<1>2. CASE Starts(w)
  <2>1. shown = <<>>
    BY <1>0, <1>2 DEF Starts, Seamless, len
  <2> QED BY <1>1, <1>2, <2>1 DEF Seamless, NothingSkipped, v
<1>3. CASE ~Starts(w)
  <2> PICK from, count \in Nat : /\ Shows(v.con, w, from, count)
                                 /\ MaxLines >= w.log.head - from
                                      => from + count >= w.log.head
    BY <1>1, <1>3
  <2>1. /\ from = IF w.con.seq < Oldest(w.log) THEN Oldest(w.log) ELSE w.con.seq
        /\ Len(new) = len + count
        /\ \A i \in 1 .. len : new[i] = shown[i]
        /\ \A i \in 1 .. count : new[len + i].seq = from + i - 1
    BY <1>0 DEF Shows, len
  <2>2. new \in Seq(Shown) /\ DOMAIN new = 1 .. len + count /\ v.con.seq = w.log.head
    <3>1. new \in Seq(Shown)
      BY <1>1 DEF WorldOK
    <3> QED BY <3>1, <2>1, <1>1, <1>3
  <2>3. /\ w.log.head - from <= MaxLines
        /\ from >= w.con.seq
        /\ w.con.seq > 0 /\ w.con.seq = w.head => from = w.con.seq
    <3>1. /\ from = IF w.con.seq < Oldest(w.log) THEN Oldest(w.log) ELSE w.con.seq
          /\ w.con.seq \in Nat /\ w.log.head \in Nat /\ w.head \in Nat
      BY <1>0, <2>1
    <3>2. Oldest(w.log) \in Nat /\ w.log.head - Oldest(w.log) <= MaxLines
      BY <3>1 DEF Oldest
    <3>3. w.con.seq > 0 /\ w.con.seq = w.head => Oldest(w.log) <= w.con.seq
      BY <3>1 DEF Oldest, InTime
    <3> QED BY <3>1, <3>2, <3>3
  <2>4. from + count >= w.log.head /\ (count > 0 => from + count <= w.log.head)
    BY <1>0, <2>3 DEF Shows
  <2>5. len > 0 => /\ from = w.con.seq /\ w.con.seq > 0 /\ w.con.seq <= w.log.head
                   /\ shown[len].seq = from - 1
    BY <1>0, <2>3 DEF Seamless, len
  <2> HIDE DEF new
  <2>6. ASSUME NEW i \in len + 1 .. len + count
        PROVE  new[i].seq = from + (i - len) - 1
    <3>1. i - len \in 1 .. count /\ len + (i - len) = i
      BY <1>0
    <3> QED BY <2>1, <3>1
  <2>7. ASSUME NEW i \in 1 .. len
        PROVE  new[i].seq = shown[i].seq /\ shown[i].seq = shown[1].seq + i - 1
    BY <1>0, <2>1 DEF Seamless, NothingSkipped
  <2>8. ASSUME NEW i \in 1 .. len + count
        PROVE  new[i].seq = new[1].seq + i - 1
    <3>1. CASE len = 0
      <4>1. i \in len + 1 .. len + count /\ 1 \in len + 1 .. len + count /\ i \in Int
        BY <3>1
      <4>2. new[i].seq = from + (i - len) - 1 /\ new[1].seq = from + (1 - len) - 1
        BY <2>6, <4>1
      <4> QED BY <3>1, <4>1, <4>2
    <3>2. CASE len > 0
      <4>1. 1 \in 1 .. len /\ len \in 1 .. len
        BY <1>0, <3>2
      <4>2. new[1].seq = shown[1].seq /\ shown[len].seq = shown[1].seq + len - 1
        BY <2>7, <4>1
      <4>3. CASE i \in 1 .. len
        BY <2>7, <4>2, <4>3
      <4>4. CASE i \in len + 1 .. len + count
        <5>1. new[i].seq = from + (i - len) - 1 /\ shown[len].seq = from - 1
          BY <2>5, <2>6, <3>2, <4>4
        <5>2. shown[1].seq \in Nat /\ shown[len].seq \in Nat /\ i \in Int
          BY <1>0, <4>1
        <5>3. from = shown[1].seq + len
          <6>1. shown[1].seq + len - 1 = from - 1
            BY <4>2, <5>1
          <6>2. len \in Nat
            BY <1>0
          <6> QED BY <5>2, <6>1, <6>2
        <5>4. from + (i - len) - 1 = shown[1].seq + i - 1
          <6>1. \A a, b, c \in Int : (a + b) + (c - b) - 1 = a + c - 1
            OBVIOUS
          <6>2. shown[1].seq \in Int /\ len \in Int
            BY <1>0, <5>2
          <6>3. (shown[1].seq + len) + (i - len) - 1 = shown[1].seq + i - 1
            BY <5>2, <6>1, <6>2
          <6> QED BY <5>3, <6>3
        <5> QED BY <4>2, <5>1, <5>4
      <4> QED BY <1>0, <4>3, <4>4
    <3> QED BY <1>0, <3>1, <3>2
  <2>9. ASSUME new # <<>>
        PROVE  v.con.seq > 0 /\ new[Len(new)].seq = v.con.seq - 1
    <3>1. CASE count > 0
      <4>1. len + count \in len + 1 .. len + count
        BY <1>0, <3>1
      <4>2. new[len + count].seq = from + ((len + count) - len) - 1
        BY <2>6, <4>1
      <4>3. from + count = w.log.head
        BY <1>0, <2>4, <3>1
      <4>4. new[len + count].seq = w.log.head - 1 /\ w.log.head > 0
        BY <1>0, <3>1, <4>2, <4>3
      <4>5. Len(new) = len + count /\ v.con.seq = w.log.head
        BY <2>1, <2>2
      <4> QED BY <4>4, <4>5
    <3>2. CASE count = 0
      <4>1. len > 0 /\ Len(new) = len
        BY <1>0, <2>1, <2>2, <2>9, <3>2
      <4>2. new[len].seq = from - 1
        <5>1. len \in 1 .. len
          BY <1>0, <4>1
        <5> QED BY <2>5, <2>7, <4>1, <5>1
      <4>3. from = w.log.head
        BY <1>0, <2>4, <2>5, <3>2, <4>1
      <4> QED BY <1>0, <2>2, <2>5, <4>1, <4>2, <4>3
    <3> QED BY <3>1, <3>2
  <2>10. NothingSkipped(new)
    BY <2>2, <2>8 DEF NothingSkipped
  <2>11. v.con.seq = v.head /\ v.head <= v.log.head
    BY <1>0, <1>1, <2>2
  <2> QED BY <2>9, <2>10, <2>11 DEF Seamless, new, v
<1> QED BY <1>2, <1>3

LEMMA SeamlessStep ==
  ASSUME WorldOK(world), Seamless(world), InTime(world),
         [\E op \in {"line", "drop", "poll"} : world' = After(world, op)]_world
  PROVE  Seamless(world)'
<1>1. CASE \E op \in {"line", "drop", "poll"} : world' = After(world, op)
  <2>1. PICK op \in {"line", "drop", "poll"} : world' = After(world, op)
    BY <1>1
  <2>2. CASE op = "poll"
    <3>1. world' = Polls(world, MaxLines)
      BY <2>1, <2>2 DEF After
    <3> QED BY <3>1, PollSeamless
  <2>3. CASE op \in {"line", "drop"}
    <3>1. /\ world'.con = world.con /\ world'.head = world.head
          /\ world'.log.head >= world.log.head /\ world'.log.head \in Nat
          /\ world.log.head \in Nat /\ world.head \in Nat
      <4>1. WorldOK(world')
        BY <2>1, <2>3, AfterLine, AfterDrop
      <4>2. world'.log.head \in Nat /\ world.log.head \in Nat /\ world.head \in Nat
        BY <4>1 DEF WorldOK, Ring, Log
      <4> QED BY <2>1, <2>3, <4>2, AfterLine, AfterDrop
    <3>2. world'.head <= world'.log.head \/ ~(world.head <= world.log.head)
      BY <3>1
    <3> QED BY <3>1, <3>2 DEF Seamless
  <2> QED BY <2>2, <2>3
<1>2. CASE UNCHANGED world
  BY <1>2
<1> QED BY <1>1, <1>2

\* As long as the gateway is not restarted, and the console has room for the whole ring and
\* asks before the ring has come round, it shows every line from its first one on.
THEOREM ConsoleMissesNothing ==
  LogRuns({"line", "drop", "poll"}) /\ []InTime(world) => []NothingSkipped(world.con.shown)
<1>1. world = World => Seamless(world)
  BY DEF World, Closed, Seamless, NothingSkipped
<1>2. WorldOK(world) /\ Seamless(world) /\ InTime(world)
      /\ [\E op \in {"line", "drop", "poll"} : world' = After(world, op)]_world
        => Seamless(world)'
  BY SeamlessStep
<1>3. Seamless(world) => NothingSkipped(world.con.shown)
  BY DEF Seamless
<1>4. [\E op \in {"line", "drop", "poll"} : world' = After(world, op)]_world
        => [\E op \in Ops : world' = After(world, op)]_world
  BY DEF Ops
<1>5. LogRuns({"line", "drop", "poll"}) => LogRuns(Ops)
  BY <1>4, PTL DEF LogRuns
<1> QED BY <1>1, <1>2, <1>3, <1>5, WorldAlwaysOK, PTL DEF LogRuns

=============================================================================
