------------------------------ MODULE Gateway -------------------------------
(***************************************************************************)
(* main.c on top of the bridge: app_main registers the sinks one after the *)
(* other, then a supervisor task polls the sources every 500 ms and hangs  *)
(* the bridge on the one the policy wants - USB before UART, and UART      *)
(* alone while it is locked for flashing.  Each of its reads and its final *)
(* call is a step of its own: everything else runs in between.             *)
(***************************************************************************)
EXTENDS Bridge

CONSTANTS
  usb, uart,   \* s_src_usb, s_src_uart
  SinkOrder    \* the order in which app_main registers the sinks

ASSUME GatewayAssumption ==
  /\ Sources = {usb, uart}
  /\ usb # uart
  /\ SinkOrder \in Seq(Sinks)
  /\ \A i, j \in 1 .. Len(SinkOrder) : SinkOrder[i] = SinkOrder[j] => i = j
  /\ Len(SinkOrder) <= MaxSinks

VARIABLES
  flash_lock,  \* source_uart_is_flash_locked
  boot,        \* how far app_main is: 0, then one more than sinks registered
  sup,         \* where the supervisor is in its loop
  cur, want,   \* its locals
  strays       \* history: swaps away from UART since flash_lock was taken

mainVars == <<flash_lock, boot, sup, cur, want, strays>>
gvars == <<vars, mainVars>>

Booted == boot = Len(SinkOrder) + 1

GTypeOK ==
  /\ TypeOK
  /\ flash_lock \in BOOLEAN
  /\ boot \in 0 .. Len(SinkOrder) + 1
  /\ sup \in {"sleep", "locked?", "pin", "usb?", "uart?", "swap"}
  /\ cur \in Sources \cup {NoSource}
  /\ want \in Sources \cup {NoSource}
  /\ strays \in 0 .. 2

GInit ==
  /\ Init
  /\ flash_lock = FALSE
  /\ boot = 0
  /\ sup = "sleep"
  /\ cur = NoSource
  /\ want = NoSource
  /\ strays = 0

-----------------------------------------------------------------------------
(* app_main *)

BootSource ==
  /\ boot = 0
  /\ IF ready[uart] THEN AttachSource(uart) ELSE UNCHANGED vars
  /\ boot' = 1
  /\ UNCHANGED <<flash_lock, sup, cur, want, strays>>

BootSink ==
  /\ boot \in 1 .. Len(SinkOrder)
  /\ AttachSink(SinkOrder[boot])
  /\ boot' = boot + 1
  /\ UNCHANGED <<flash_lock, sup, cur, want, strays>>

-----------------------------------------------------------------------------
(* source_supervisor_task *)

\* Mutant of SupWakes: the loop goes by the source it last wanted, not by the bridge's.
SupWakesByMemory ==
  /\ Booted
  /\ sup = "sleep"
  /\ cur' = want
  /\ sup' = "locked?"
  /\ UNCHANGED <<vars, flash_lock, boot, want, strays>>

SupWakes ==
  /\ Booted
  /\ sup = "sleep"
  /\ cur' = source
  /\ sup' = "locked?"
  /\ UNCHANGED <<vars, flash_lock, boot, want, strays>>

SupLocked ==
  /\ sup = "locked?"
  /\ sup' = IF ~flash_lock THEN "usb?" ELSE IF cur # uart THEN "pin" ELSE "sleep"
  /\ UNCHANGED <<vars, flash_lock, boot, cur, want, strays>>

\* Mutant of SupPins: no `continue` after it.
SupPinsAndGoesOn ==
  /\ sup = "pin"
  /\ AttachSource(uart)
  /\ sup' = "usb?"
  /\ UNCHANGED <<flash_lock, boot, cur, want, strays>>

SupPins ==
  /\ sup = "pin"
  /\ AttachSource(uart)
  /\ sup' = "sleep"
  /\ UNCHANGED <<flash_lock, boot, cur, want, strays>>

SupReadsUsb ==
  /\ sup = "usb?"
  /\ IF ready[usb] THEN sup' = "swap" /\ want' = usb
                   ELSE sup' = "uart?" /\ UNCHANGED want
  /\ UNCHANGED <<vars, flash_lock, boot, cur, strays>>

SupReadsUart ==
  /\ sup = "uart?"
  /\ want' = IF ready[uart] THEN uart ELSE NoSource
  /\ sup' = "swap"
  /\ UNCHANGED <<vars, flash_lock, boot, cur, strays>>

\* Mutant of SupSwaps: without a fallback the lost source stays attached.
SupSwapsOnly ==
  /\ sup = "swap"
  /\ IF want \in {cur, NoSource} THEN UNCHANGED vars ELSE AttachSource(want)
  /\ sup' = "sleep"
  /\ strays' = strays
  /\ UNCHANGED <<flash_lock, boot, cur, want>>

SupSwaps ==
  /\ sup = "swap"
  /\ IF want = cur THEN UNCHANGED vars
     ELSE IF want # NoSource THEN AttachSource(want) ELSE DetachSource(cur)
  /\ sup' = "sleep"
  /\ strays' = IF flash_lock /\ source' \notin {source, uart} /\ strays < 2
                 THEN strays + 1 ELSE strays
  /\ UNCHANGED <<flash_lock, boot, cur, want>>

Supervisor ==
  \/ SupWakes
  \/ SupLocked
  \/ SupPins
  \/ SupReadsUsb
  \/ SupReadsUart
  \/ SupSwaps

-----------------------------------------------------------------------------
(* The rest of the firmware: a sink's tasks run once it has been started,   *)
(* the web server once webui_init has been called after the last sink.      *)

FlashLockChanges ==
  /\ flash_lock' = ~flash_lock
  /\ strays' = 0
  /\ UNCHANGED <<vars, boot, sup, cur, want>>

SinkTask(t) == Who[t] \in Attached /\ TaskNext(t) /\ UNCHANGED mainVars

SourceTask(s) ==
  /\ SourceRx(s) \/ OnSourceRx(s) \/ ReadyChanges(s)
  /\ UNCHANGED mainVars

WebUI ==
  /\ Booted
  /\ SetAuto \/ \E k \in Sinks : Pin(k)
  /\ UNCHANGED mainVars

Clock == Tick /\ UNCHANGED mainVars

GNext ==
  \/ BootSource
  \/ BootSink
  \/ Supervisor
  \/ FlashLockChanges
  \/ \E t \in Tasks : SinkTask(t)
  \/ \E s \in Sources : SourceTask(s)
  \/ WebUI
  \/ Clock

GSpec == GInit /\ [][GNext]_gvars

\* app_main never blocks for good, and the supervisor's loop is watched by the
\* task watchdog.
GFairSpec == GSpec /\ WF_gvars(BootSource \/ BootSink) /\ WF_gvars(Supervisor)

-----------------------------------------------------------------------------
(* Properties                                                              *)

\* What the supervisor's policy asks for (main.c:52-61).
Wanted ==
  IF flash_lock \/ (ready[uart] /\ ~ready[usb]) THEN uart
  ELSE IF ready[usb] THEN usb ELSE NoSource

\* Once the sources and the flash lock stop changing, the bridge settles on the
\* source the policy asks for, whatever the supervisor had read before.
Settles ==
  <>[][FALSE]_<<ready, flash_lock>> => <>[](source = Wanted)

\* What this round has read is what it would read now.
UpToDate ==
  /\ sup = "pin" => flash_lock
  /\ sup \in {"usb?", "uart?", "swap"} => ~flash_lock
  /\ sup = "uart?" => ~ready[usb]
  /\ sup = "swap" => want = Wanted

\* In a step in which neither a source nor the flash lock changes: a round that is up to date
\* stays so, never leaves the wanted source, and has it attached when it ends.
OneRound ==
  /\ UpToDate => UpToDate'
  /\ Booted /\ UpToDate /\ source = Wanted => source' = Wanted'
  /\ UpToDate /\ sup # "sleep" /\ sup' = "sleep" => source' = Wanted'

\* A round of the supervisor that nothing interrupts is enough, wherever earlier rounds, a pin or
\* the boot have left the bridge: it hangs the bridge on the source the policy asks for and never
\* on another in between (main.c:78-111).
CalmRounds == [][UNCHANGED <<ready, flash_lock>> => OneRound]_gvars

\* A flash session loses the bridge at most once: to the swap the supervisor had
\* decided on before the lock was taken (main.c:57-61, 88-94).
AtMostOneStray == strays <= 1
=============================================================================
