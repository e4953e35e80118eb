--------------------------------- MODULE Net ---------------------------------
(***************************************************************************)
(* net.c and improv_glue.cpp: one Wi-Fi station with two owners.  net.c    *)
(* handles the driver's events, retries, gives up into the soft AP, and    *)
(* there keeps trying (sta_recovery_task).  While the Improv window is     *)
(* open, `external' makes it leave the station to the Improv library,      *)
(* which sets the driver's configuration and connects on its own.          *)
(*                                                                         *)
(* Credentials are kept as what they are good for: "good" ones name the    *)
(* network at home with its passphrase, "bad" ones do not, and "half" is   *)
(* a name without a passphrase.  The station joins only if its driver is   *)
(* configured with good ones and the network is on the air.  The events    *)
(* that only set a bit or a log line are left out, as is the scan.         *)
(***************************************************************************)
EXTENDS Naturals, Sequences

CONSTANTS
  MaxRetry,    \* MAX_RETRY
  MaxEvents,   \* events the driver has posted and event_cb has not handled, at most
  Offered      \* the credentials that are entered over Improv-Serial

ASSUME NetAssumption ==
  /\ MaxRetry \in Nat \ {0}
  /\ MaxEvents \in Nat \ {0}
  /\ Offered \subseteq {"good", "bad"}

VARIABLES
  air,         \* the network at home is there
  sta,         \* the driver's station
  cfg,         \* the credentials the driver is configured with
  events,      \* posted by the driver, not handled yet
  nvs,         \* the credentials in flash
  ssid,        \* s_ssid_buf is not empty
  connected,   \* s_connected
  retry,       \* s_retry_count
  apActive,    \* s_ap_active
  recovery,    \* s_sta_recov_task: NULL, running, or NULL since it could not be created
  fallback,    \* deferred_ap_fallback_task
  external,    \* s_external_control
  window,      \* the Improv window: improv_init not reached, open, closed
  attempt,     \* the Improv library is connecting
  doomed,      \* delayed_reboot_task runs
  deaf         \* history: an event was left to Improv, and no connection has been
               \* asked for or made since

driver == <<sta, cfg, events>>
store  == <<nvs, ssid>>
ap     == <<apActive, recovery, fallback>>
improv == <<external, window, attempt>>
vars   == <<air, driver, store, connected, retry, ap, improv, doomed, deaf>>

TypeOK ==
  /\ air \in BOOLEAN
  /\ sta \in {"idle", "trying", "joined", "up"}
  /\ cfg \in {"none", "good", "bad"}
  /\ events \in Seq({"start", "disconnected", "gotip"}) /\ Len(events) <= MaxEvents
  /\ nvs \in {"none", "half", "good", "bad"} /\ ssid \in BOOLEAN
  /\ connected \in BOOLEAN /\ retry \in 0..MaxRetry
  /\ apActive \in BOOLEAN /\ recovery \in {"none", "running", "failed"}
  /\ fallback \in {"none", "waiting", "done"}
  /\ external \in BOOLEAN /\ window \in {"unopened", "open", "closed"}
  /\ attempt \in BOOLEAN /\ doomed \in BOOLEAN /\ deaf \in BOOLEAN

-----------------------------------------------------------------------------
(* Boot                                                                    *)

\* load_creds: name and passphrase are both there.
HaveCreds(n) == n \in {"good", "bad"}

\* Mutant of FallbackAtBoot: the name alone is taken for credentials.
FallbackByName(n) == IF n # "none" THEN "none" ELSE "waiting"

FallbackAtBoot(n) == IF HaveCreds(n) THEN "none" ELSE "waiting"

\* After net_init with n in flash.  A name without a passphrase is in s_ssid_buf all the
\* same.
Booted(n) ==
  [sta |-> "idle", cfg |-> IF HaveCreds(n) THEN n ELSE "none", events |-> <<"start">>,
   ssid |-> n # "none", fallback |-> FallbackAtBoot(n)]

Init ==
  /\ air \in BOOLEAN
  /\ nvs \in {"none", "good", "bad"}
  /\ sta = Booted(nvs).sta /\ cfg = Booted(nvs).cfg /\ events = Booted(nvs).events
  /\ ssid = Booted(nvs).ssid /\ fallback = Booted(nvs).fallback
  /\ connected = FALSE /\ retry = 0 /\ apActive = FALSE /\ recovery = "none"
  /\ external = FALSE /\ window = "unopened" /\ attempt = FALSE
  /\ doomed = FALSE /\ deaf = FALSE

\* By delayed_reboot_task, a crash or the plug.
Reboots ==
  /\ sta' = Booted(nvs).sta /\ cfg' = Booted(nvs).cfg /\ events' = Booted(nvs).events
  /\ ssid' = Booted(nvs).ssid /\ fallback' = Booted(nvs).fallback
  /\ connected' = FALSE /\ retry' = 0 /\ apActive' = FALSE /\ recovery' = "none"
  /\ external' = FALSE /\ window' = "unopened" /\ attempt' = FALSE
  /\ doomed' = FALSE /\ deaf' = FALSE
  /\ UNCHANGED <<air, nvs>>

-----------------------------------------------------------------------------
(* The driver                                                              *)

Room == Len(events) < MaxEvents

AirChanges ==
  /\ air' = ~air
  /\ UNCHANGED <<driver, store, connected, retry, ap, improv, doomed, deaf>>

Joins ==
  /\ sta = "trying" /\ air /\ cfg = "good"
  /\ sta' = "joined"
  /\ UNCHANGED <<air, cfg, events, store, connected, retry, ap, improv, doomed, deaf>>

FailsToJoin ==
  /\ sta = "trying" /\ ~(air /\ cfg = "good") /\ Room
  /\ sta' = "idle"
  /\ events' = Append(events, "disconnected")
  /\ UNCHANGED <<air, cfg, store, connected, retry, ap, improv, doomed, deaf>>

Drops ==
  /\ sta \in {"joined", "up"} /\ Room
  /\ sta' = "idle"
  /\ events' = Append(events, "disconnected")
  /\ UNCHANGED <<air, cfg, store, connected, retry, ap, improv, doomed, deaf>>

Leases ==
  /\ sta = "joined" /\ Room
  /\ sta' = "up"
  /\ events' = Append(events, "gotip")
  /\ UNCHANGED <<air, cfg, store, connected, retry, ap, improv, doomed, deaf>>

\* esp_wifi_connect: an error without a configuration, and nothing new while one is on.
Connected == IF sta = "idle" /\ cfg # "none" THEN "trying" ELSE sta

-----------------------------------------------------------------------------
(* event_cb                                                                *)

\* Mutant of RecoveryArmed: the soft AP starts its name server only.
RecoveryForgotten == {recovery}

\* net_start_softap: what becomes of the recovery task.  Its creation is not checked, and
\* with the soft AP up it is not tried again.
RecoveryArmed ==
  IF ~apActive /\ recovery # "running" /\ ssid THEN {"running", "failed"} ELSE {recovery}

HasBudget == retry < MaxRetry

\* Mutant of Counted: a retry that is not counted.
CountedNot == retry

Counted == retry + 1

Handles(e) ==
  /\ events # <<>> /\ Head(events) = e
  /\ events' = Tail(events)
  /\ UNCHANGED <<air, cfg, store, fallback, improv, doomed>>

OnStart ==
  /\ Handles("start")
  /\ sta' = IF ~external /\ ssid THEN Connected ELSE sta
  /\ deaf' = external
  /\ UNCHANGED <<connected, retry, apActive, recovery>>

\* Left to Improv.
OnDisconnectedIgnored ==
  /\ Handles("disconnected")
  /\ external
  /\ connected' = FALSE
  /\ deaf' = TRUE
  /\ UNCHANGED <<sta, retry, apActive, recovery>>

OnDisconnectedRetries ==
  /\ Handles("disconnected")
  /\ ~external /\ HasBudget /\ ssid
  /\ connected' = FALSE
  /\ retry' = Counted
  /\ sta' = Connected
  /\ deaf' = FALSE
  /\ UNCHANGED <<apActive, recovery>>

OnDisconnectedGivesUp ==
  /\ Handles("disconnected")
  /\ ~external /\ ~HasBudget /\ ssid
  /\ connected' = FALSE
  /\ apActive' = TRUE
  /\ recovery' \in RecoveryArmed
  /\ UNCHANGED <<sta, retry, deaf>>

OnDisconnectedWithoutCreds ==
  /\ Handles("disconnected")
  /\ ~external /\ ~ssid
  /\ connected' = FALSE
  /\ UNCHANGED <<sta, retry, apActive, recovery, deaf>>

OnGotIp ==
  /\ Handles("gotip")
  /\ connected' = TRUE
  /\ retry' = 0
  /\ deaf' = FALSE
  /\ UNCHANGED <<sta, apActive, recovery>>

Event ==
  \/ OnStart \/ OnGotIp
  \/ OnDisconnectedIgnored \/ OnDisconnectedRetries
  \/ OnDisconnectedGivesUp \/ OnDisconnectedWithoutCreds

-----------------------------------------------------------------------------
(* The tasks of net.c                                                      *)

\* deferred_ap_fallback_task, 130 s after a boot without credentials.
FallbackFires ==
  /\ fallback = "waiting" /\ window # "unopened"
  /\ fallback' = "done"
  /\ apActive' = (apActive \/ ~connected)
  /\ IF connected THEN recovery' = recovery ELSE recovery' \in RecoveryArmed
  /\ UNCHANGED <<air, driver, store, connected, retry, improv, doomed, deaf>>

\* Mutant of Due: no attempts while the soft AP is up.
DueWithoutAp == ~external /\ ~connected /\ ssid /\ ~apActive

Due == ~external /\ ~connected /\ ssid

RecoveryTries ==
  /\ recovery = "running" /\ Due
  /\ retry' = 0
  /\ sta' = Connected
  /\ deaf' = FALSE
  /\ UNCHANGED <<air, cfg, events, store, connected, ap, improv, doomed>>

-----------------------------------------------------------------------------
(* Credentials                                                             *)

\* net_persist_creds(c).  Memory follows a commit only.
Saves(c) ==
  \/ nvs' = c /\ ssid' = TRUE
  \/ nvs' = c /\ ssid' = ssid                  \* the commit has failed
  \/ nvs' = nvs /\ ssid' = ssid                \* the name has
  \/ /\ nvs' \in IF HaveCreds(nvs) THEN {"good", "bad"} ELSE {"half"}
     /\ ssid' = ssid                           \* the passphrase has

WebUp == window # "unopened" /\ (sta = "up" \/ apActive)

\* h_wifi: what the user types is kept for the next boot; the driver is not told.
WebSaves(c) ==
  /\ WebUp
  /\ Saves(c)
  /\ UNCHANGED <<air, driver, connected, retry, ap, improv, doomed, deaf>>

\* h_wifi_reset: net_clear_creds, then a reboot.
WebClears ==
  /\ WebUp
  /\ nvs' = "none" /\ ssid' = FALSE
  /\ doomed' = TRUE
  /\ UNCHANGED <<air, driver, connected, retry, ap, improv, deaf>>

\* ... whose commit fails after the keys are erased.
WebClearFails ==
  /\ WebUp
  /\ nvs' = "none"
  /\ UNCHANGED <<air, driver, ssid, connected, retry, ap, improv, doomed, deaf>>

-----------------------------------------------------------------------------
(* improv_glue.cpp                                                         *)

ImprovOpens ==
  /\ window = "unopened"
  /\ window' = "open" /\ external' = TRUE
  /\ UNCHANGED <<air, driver, store, connected, retry, ap, attempt, doomed, deaf>>

\* The UART driver cannot be installed.
ImprovHasNoUart ==
  /\ window = "unopened"
  /\ window' = "closed"
  /\ UNCHANGED <<air, driver, store, connected, retry, ap, external, attempt, doomed, deaf>>

\* improv_task cannot be created: control has been taken, and nobody gives it back.
ImprovHasNoTask ==
  /\ window = "unopened"
  /\ window' = "closed" /\ external' = TRUE
  /\ UNCHANGED <<air, driver, store, connected, retry, ap, attempt, doomed, deaf>>

\* The driver reports that the library has ended what was on.
AfterLeaving == IF sta = "idle" THEN events ELSE Append(events, "disconnected")

\* The library: a connection that is on is given up for the new one.
ImprovTries(c) ==
  /\ window = "open" /\ ~attempt /\ c \in Offered
  /\ sta # "idle" => Room
  /\ attempt' = TRUE
  /\ cfg' = c /\ sta' = "trying"
  /\ events' = AfterLeaving
  /\ UNCHANGED <<air, store, connected, retry, ap, external, window, doomed, deaf>>

\* on_connected_cb.
ImprovSucceeds ==
  /\ window = "open" /\ attempt /\ sta = "up"
  /\ attempt' = FALSE
  /\ Saves(cfg)
  /\ UNCHANGED <<air, driver, connected, retry, ap, external, window, doomed, deaf>>

ImprovGivesUp ==
  /\ window = "open" /\ attempt /\ sta # "up"
  /\ sta # "idle" => Room
  /\ attempt' = FALSE
  /\ sta' = "idle"
  /\ events' = AfterLeaving
  /\ UNCHANGED <<air, cfg, store, connected, retry, ap, external, window, doomed, deaf>>

\* improv_task after the idle time, or the library's own end.
ImprovCloses ==
  /\ window = "open"
  /\ window' = "closed" /\ attempt' = FALSE
  /\ external' = FALSE
  /\ UNCHANGED <<air, driver, store, connected, retry, ap, doomed, deaf>>

ImprovInit == ImprovOpens \/ ImprovHasNoUart \/ ImprovHasNoTask

Next ==
  \/ Reboots \/ AirChanges
  \/ Joins \/ FailsToJoin \/ Drops \/ Leases
  \/ Event \/ FallbackFires \/ RecoveryTries
  \/ \E c \in {"good", "bad"} : WebSaves(c) \/ ImprovTries(c)
  \/ WebClears \/ WebClearFails
  \/ ImprovInit \/ ImprovSucceeds \/ ImprovGivesUp \/ ImprovCloses

\* Boot gets on, the driver answers, events are handled, the two tasks' delays end, and the
\* window closes (the library's cap of one hour ends it at the latest).  A lease that
\* can be had again and again is had.  The network, users and crashes owe nothing.
Fairness ==
  /\ WF_vars(ImprovInit) /\ WF_vars(ImprovCloses)
  /\ WF_vars(Joins \/ FailsToJoin) /\ SF_vars(Leases)
  /\ WF_vars(Event)
  /\ WF_vars(FallbackFires) /\ WF_vars(RecoveryTries)
  /\ WF_vars(doomed /\ Reboots)

Spec == Init /\ [][Next]_vars /\ Fairness

-----------------------------------------------------------------------------
(* Properties                                                              *)

Underway == sta # "idle" \/ events # <<>> \/ fallback = "waiting"

\* A gateway with credentials in memory is never left with nothing to happen: it is
\* connected, or open as a soft AP, or something is under way that will make it so.  The
\* exception is an event that was left to Improv (net.c:76-93, 202-214).
NeverStranded == (ssid /\ ~deaf) => (connected \/ apActive \/ Underway)

\* A gateway that booted with credentials and has ended up as a soft AP has the task that
\* gets it out again, unless that could not be created (net.c:324-327).
SoftApHasRecovery == (fallback = "none" /\ apActive) => recovery # "none"

\* Someone may want to use it, and it owes nothing to Improv.
Settled == window = "closed" /\ ssid /\ ~deaf /\ ~doomed

\* Such a gateway gets onto the network or offers its own, however many attempts fail.
Reachable == Settled ~> (connected \/ apActive \/ ~Settled)

\* A soft AP with the recovery task and the right configuration does not stay off a network
\* that has come back, whatever the connection does then (net.c:335-349).
Recovers ==
  <>[](recovery = "running" /\ air /\ ssid /\ cfg = "good" /\ window = "closed" /\ ~external)
    => []<>connected

\* What web/index.html:201-202 says: the soft AP is the way in when the credentials do not
\* fit.  It does not hold of an attempt that net.c has begun itself with such credentials: if
\* it fails while the Improv window is open, even one nobody uses, that is never made up for.
\* A reboot, and control that is never given back, are taken out.
FallsBack ==
  (sta = "trying" /\ cfg = "bad" /\ ssid)
    ~> \/ apActive \/ ~ssid
       \/ window = "unopened"
       \/ window = "closed" /\ external
=============================================================================
