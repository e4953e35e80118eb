------------------------------ MODULE SourceUart -----------------------------
(***************************************************************************)
(* source_uart.c: the radio module on the UART header.  uart_rx_task posts *)
(* the tags the module announces into boot_q; init_task, the web server    *)
(* and the tunnel's T_RESET each reset the module and wait on that one     *)
(* queue, with no lock between them.  T_RESET does so with the tunnel's    *)
(* S.mtx held, which uart_rx_task needs to deliver a chunk to the tunnel.  *)
(*                                                                         *)
(* A wait is abstracted to: take an event, or time out while there is none.*)
(* A frame is a tag ("app"; "bl"; "odd", neither; "err", DUAL_ERR or a     *)
(* bootloader of no known family) or "data".  Neighbouring assignments to S*)
(* with no call between them are one step, but for the two with which      *)
(* uart_rx_task releases the flash lock: the web server has the lock too.  *)
(* op_reset has no caller.                                                 *)
(***************************************************************************)
EXTENDS Naturals, Sequences

CONSTANTS
  Fam,         \* the module that is plugged in: "HM" or "RF"
  Probers,     \* the tasks that reset it, out of "init", "web" and "hb"
  QLen,        \* the length of boot_q
  Backlog,     \* bound: frames under way in either direction
  Noise        \* the frames it sends unasked, out of "odd", "err" and "data"

ASSUME UartAssumption ==
  /\ Fam \in {"HM", "RF"}
  /\ Probers \subseteq {"init", "web", "hb"}
  /\ QLen \in Nat /\ Backlog \in Nat
  /\ Noise \subseteq {"odd", "err", "data"}

VARIABLES
  mode,        \* the module: in its bootloader, its application, or held in reset
  todo,        \* what it has yet to do: announce its tag, or start and announce
  wire,        \* the frames uart_rx_task has not read
  rx,          \* where uart_rx_task is: reading; about to renew the lock's stamp, to release
               \* the lock, or to clear the stamp; or in the bridge's fan-out
  boot_q,      \* S.boot_q
  pc, goal,    \* where each prober is, and what for
  ev,          \* its local `ev`
  ready, boot_done, app_tag, flash_lock,    \* the fields of S
  stamp,       \* S.flash_lock_us: 0, set, or "lost": a 0 written over the stamp of
               \* a lock
  amiss,       \* history: what went wrong: an answer under way came too "late" for its
               \* wait, or was "blocked" with uart_rx_task by T_RESET, or a "stray" tag
               \* came that nobody had asked for
  overlap      \* history: a prober started while another was at it

module == <<mode, todo, wire>>
fields == <<ready, boot_done, app_tag, flash_lock, stamp>>
probe  == <<pc, goal, ev>>
vars == <<module, rx, boot_q, probe, fields, amiss, overlap>>

Tags == {"app", "bl", "odd", "err"}

TypeOK ==
  /\ mode \in {"bl", "app", "held"}
  /\ todo \in Seq({"tag", "start"}) /\ Len(todo) <= Backlog + 1
  /\ mode = "held" => todo = <<>>
  /\ wire \in Seq(Tags \cup Noise) /\ Len(wire) <= Backlog
  /\ rx \in {"read", "touch", "expire", "clear", "fanout"}
  /\ boot_q \in Seq(Tags) /\ Len(boot_q) <= QLen
  /\ pc \in [Probers -> {"idle", "drain1", "pulse1", "wait1", "drain2", "pulse2", "wait2",
                         "answer", "burst", "quiet", "stamp", "started", "settle", "verify",
                         "final"}]
  /\ goal \in [Probers -> {"app", "hold", "pulse"}]
  /\ ev \in [Probers -> Tags \cup {"none"}]
  /\ ready \in BOOLEAN /\ boot_done \in BOOLEAN /\ flash_lock \in BOOLEAN
  /\ stamp \in {"none", "set", "lost"}
  /\ app_tag \in Tags \cup {"none"}
  /\ amiss \subseteq {"late", "blocked", "stray"} /\ overlap \in BOOLEAN

Init ==
  /\ mode \in {"bl", "app"}
  /\ todo = <<>> /\ wire = <<>>
  /\ rx = "read"
  /\ boot_q = <<>>
  /\ pc = [p \in Probers |-> IF p = "init" THEN "drain1" ELSE "idle"]
  /\ goal = [p \in Probers |-> "app"]
  /\ ev = [p \in Probers |-> "none"]
  /\ ready = FALSE /\ boot_done = FALSE /\ flash_lock = FALSE
  /\ stamp = "none"
  /\ app_tag = "none"
  /\ amiss = {} /\ overlap = FALSE

Probing(p) == p \in Probers /\ pc[p] # "idle"

\* S.mtx of the tunnel, while T_RESET is at it.
MtxHeld == Probing("hb")

-----------------------------------------------------------------------------
(* The module: it answers what it was asked in order, and talks unasked.    *)

Answers ==
  /\ todo # <<>> /\ Len(wire) < Backlog
  /\ mode' = IF Head(todo) = "start" THEN "app" ELSE mode
  /\ wire' = Append(wire, mode')
  /\ todo' = Tail(todo)
  /\ UNCHANGED <<rx, boot_q, probe, fields, amiss, overlap>>

Talks ==
  /\ mode # "held" /\ Len(wire) < Backlog
  /\ \E f \in Noise :
       /\ wire' = Append(wire, f)
       /\ amiss' = IF f \in Tags THEN amiss \cup {"stray"} ELSE amiss
  /\ UNCHANGED <<mode, todo, rx, boot_q, probe, fields, overlap>>

\* What a command does: a module in reset does not hear it.
Sent(c) ==
  todo' = IF mode = "held" \/ Len(todo) > Backlog THEN todo ELSE Append(todo, c)

-----------------------------------------------------------------------------
(* uart_rx_task                                                            *)

\* The lock's idle time: S.flash_lock && S.flash_lock_us > 0.
Timed == flash_lock /\ stamp = "set"

\* It is looked at after every read, with or without a chunk, and may be over at any of them.
RxChecks ==
  /\ rx = "read"
  /\ Timed
  /\ \/ rx' = "expire"
     \/ wire # <<>> /\ rx' = "touch"
  /\ UNCHANGED <<module, boot_q, probe, fields, amiss, overlap>>

RxReleases ==
  /\ rx = "expire"
  /\ flash_lock' = FALSE
  /\ rx' = "clear"
  /\ UNCHANGED <<module, boot_q, probe, ready, boot_done, app_tag, stamp, amiss, overlap>>

RxClears ==
  /\ rx = "clear"
  /\ stamp' = IF flash_lock THEN "lost" ELSE "none"
  /\ rx' = "read"
  /\ UNCHANGED <<module, boot_q, probe, ready, boot_done, app_tag, flash_lock, amiss, overlap>>

\* A chunk is decoded first, its tag posted if the queue has room; then it goes
\* to the bridge, if the bridge has hooked this source.
RxReads ==
  /\ \/ rx = "read" /\ ~Timed /\ UNCHANGED stamp
     \/ rx = "touch" /\ stamp' = "set"
  /\ wire # <<>>
  /\ boot_q' = IF Head(wire) \in Tags /\ Len(boot_q) < QLen
                 THEN Append(boot_q, Head(wire)) ELSE boot_q
  /\ wire' = Tail(wire)
  /\ rx' \in {"read", "fanout"}
  /\ UNCHANGED <<mode, todo, probe, ready, boot_done, app_tag, flash_lock, amiss, overlap>>

\* sink_hbrfeth's on_rx needs S.mtx.
RxFansOut ==
  /\ rx = "fanout"
  /\ ~MtxHeld
  /\ rx' = "read"
  /\ UNCHANGED <<module, boot_q, probe, fields, amiss, overlap>>

-----------------------------------------------------------------------------
(* The probers begin                                                       *)

Begin(p, g) ==
  /\ p \in Probers
  /\ pc[p] = "idle"
  /\ pc' = [pc EXCEPT ![p] = "drain1"]
  /\ goal' = [goal EXCEPT ![p] = g]
  /\ ev' = [ev EXCEPT ![p] = "none"]
  /\ overlap' = (overlap \/ \E q \in Probers \ {p} : Probing(q))
  /\ UNCHANGED <<module, rx, boot_q, amiss>>

\* source_uart_reset_for_flash(true)
WebHolds ==
  /\ Begin("web", "hold")
  /\ boot_done' = FALSE
  /\ app_tag' = "none"
  /\ UNCHANGED <<ready, flash_lock, stamp>>

\* Mutant of WebBoots: the lock is left to its time-out.
WebBootsLocked ==
  /\ Begin("web", "app")
  /\ ready' = FALSE
  /\ boot_done' = FALSE
  /\ UNCHANGED <<app_tag, flash_lock, stamp>>

\* source_uart_reset_for_flash(false)
WebBoots ==
  /\ Begin("web", "app")
  /\ flash_lock' = FALSE
  /\ stamp' = "none"
  /\ ready' = FALSE
  /\ boot_done' = FALSE
  /\ UNCHANGED app_tag

\* Mutant of HbResets: the status still says App.
HbResetsUnmarked == Begin("hb", "pulse") /\ UNCHANGED fields

\* source_uart_pulse_rst_only
HbResets ==
  /\ Begin("hb", "pulse")
  /\ boot_done' = FALSE
  /\ UNCHANGED <<ready, app_tag, flash_lock, stamp>>

-----------------------------------------------------------------------------
(* reset_and_get_banner: phase 1 pulses the HM-MOD pin with the RPI-RF-MOD  *)
(* held in reset, phase 2 the other way round.                              *)

Pin     == <<"HM", "RF">>
DrainAt == <<"drain1", "drain2">>
PulseAt == <<"pulse1", "pulse2">>
WaitAt  == <<"wait1", "wait2">>

Goto(p, s) == pc' = [pc EXCEPT ![p] = s]

Drains(p, k) ==
  /\ pc[p] = DrainAt[k]
  /\ Goto(p, PulseAt[k])
  /\ boot_q' = <<>>
  /\ IF Fam = Pin[k] THEN UNCHANGED <<mode, todo>> ELSE mode' = "held" /\ todo' = <<>>
  /\ UNCHANGED <<wire, rx, goal, ev, fields, amiss, overlap>>

Pulses(p, k) ==
  /\ pc[p] = PulseAt[k]
  /\ Goto(p, WaitAt[k])
  /\ IF Fam = Pin[k] THEN mode' = "bl" /\ todo' = <<"tag">> ELSE UNCHANGED <<mode, todo>>
  /\ UNCHANGED <<wire, rx, boot_q, goal, ev, fields, amiss, overlap>>

-----------------------------------------------------------------------------
(* wait_boot_event                                                         *)

\* It returns an event.
Gets(p) ==
  /\ boot_q # <<>>
  /\ boot_q' = Tail(boot_q)
  /\ UNCHANGED <<module, rx, goal, fields, amiss, overlap>>

\* An answer is under way.
Coming == todo # <<>> \/ \E i \in 1 .. Len(wire) : wire[i] \in Tags

\* It returns false: the wait for an answer is over.
GivesUp(p) ==
  /\ boot_q = <<>>
  /\ amiss' = amiss \cup (IF ~Coming THEN {} ELSE IF rx = "fanout" /\ MtxHeld
                                               THEN {"blocked"} ELSE {"late"})
  /\ UNCHANGED <<mode, wire, rx, boot_q, goal, ev, overlap>>

\* It returns false: no more frames in this burst.
Quiet(p) ==
  /\ boot_q = <<>>
  /\ UNCHANGED <<mode, wire, rx, boot_q, goal, ev, amiss, overlap>>

GetsTag(p) ==
  /\ pc[p] \in {"wait1", "wait2", "answer"}
  /\ Gets(p)
  /\ ev' = [ev EXCEPT ![p] = Head(boot_q)]
  /\ Goto(p, "burst")

TriesOtherPin(p) ==
  /\ pc[p] = "wait1"
  /\ GivesUp(p)
  /\ Goto(p, "drain2")
  /\ UNCHANGED <<todo, fields>>

\* Mutant of NoBanner: the second wait has no time-out.
NoBannerEver(p) == FALSE

\* boot_probe asks for the tag; the others only sweep up what still comes.
NoBanner(p) ==
  /\ pc[p] = "wait2"
  /\ GivesUp(p)
  /\ IF goal[p] = "app" THEN Sent("tag") /\ Goto(p, "answer")
                        ELSE UNCHANGED todo /\ Goto(p, "quiet")
  /\ UNCHANGED fields

\* A further frame of the burst: it counts only if the first one said nothing.
Extra(p) ==
  /\ pc[p] \in {"burst", "quiet", "settle", "final"}
  /\ Gets(p)
  /\ ev' = [ev EXCEPT ![p] = IF pc[p] = "burst" /\ ev[p] = "odd" THEN Head(boot_q) ELSE @]
  /\ UNCHANGED pc

-----------------------------------------------------------------------------
(* The ends of pulse_rst_only and reset_for_flash(true)                     *)

\* With a banner.
PulseDone(p) ==
  /\ pc[p] = "burst" /\ goal[p] # "app"
  /\ Quiet(p)
  /\ app_tag' = ev[p]
  /\ IF goal[p] = "hold" THEN flash_lock' = TRUE /\ Goto(p, "stamp")
                         ELSE flash_lock' = flash_lock /\ Goto(p, "idle")
  /\ UNCHANGED <<todo, ready, boot_done, stamp>>

\* ... whose hold comes into force when the clock has been read.
HoldStamps(p) ==
  /\ pc[p] = "stamp"
  /\ Goto(p, "idle")
  /\ stamp' = "set"
  /\ ready' = TRUE
  /\ UNCHANGED <<module, rx, boot_q, goal, ev, boot_done, app_tag, flash_lock, amiss, overlap>>

\* Without one.  The stamp of an earlier hold is left.
PulseFails(p) ==
  /\ pc[p] = "quiet"
  /\ Quiet(p)
  /\ Goto(p, "idle")
  /\ flash_lock' = IF goal[p] = "hold" THEN FALSE ELSE flash_lock
  /\ UNCHANGED <<todo, ready, boot_done, app_tag, stamp>>

-----------------------------------------------------------------------------
(* The rest of boot_probe                                                  *)

\* "bereits App", CHANGE_APP, or neither
BannerRead(p) ==
  /\ pc[p] = "burst" /\ goal[p] = "app"
  /\ Quiet(p)
  /\ \/ ev[p] = "app" /\ Sent("tag")   /\ Goto(p, "verify")
     \/ ev[p] = "bl"  /\ Sent("start") /\ Goto(p, "started")
     \/ ev[p] \in {"odd", "err"} /\ UNCHANGED todo /\ Goto(p, "idle")
  /\ UNCHANGED fields

GetsPush(p) ==
  /\ pc[p] = "started"
  /\ Gets(p)
  /\ ev' = [ev EXCEPT ![p] = Head(boot_q)]
  /\ Goto(p, IF Head(boot_q) = "app" THEN "settle" ELSE "idle")

NoAnswer(p) ==
  /\ pc[p] \in {"answer", "started"}
  /\ GivesUp(p)
  /\ Goto(p, "idle")
  /\ UNCHANGED <<todo, fields>>

AsksAgain(p) ==
  /\ pc[p] = "settle"
  /\ Quiet(p)
  /\ Sent("tag")
  /\ Goto(p, "verify")
  /\ UNCHANGED fields

\* The answer to the verifying IDENTIFY is only logged, and so is its absence.
Verifies(p) ==
  /\ pc[p] = "verify"
  /\ Goto(p, "final")
  /\ \/ Gets(p) /\ UNCHANGED ev
     \/ GivesUp(p) /\ UNCHANGED <<todo, fields>>

BootDone(p) ==
  /\ pc[p] = "final"
  /\ Quiet(p)
  /\ Goto(p, "idle")
  /\ app_tag' = "app"
  /\ ready' = TRUE
  /\ boot_done' = TRUE
  /\ UNCHANGED <<todo, flash_lock, stamp>>

Probe(p) ==
  \/ \E k \in {1, 2} : Drains(p, k) \/ Pulses(p, k)
  \/ GetsTag(p)
  \/ TriesOtherPin(p)
  \/ NoBanner(p)
  \/ Extra(p)
  \/ PulseDone(p)
  \/ HoldStamps(p)
  \/ PulseFails(p)
  \/ BannerRead(p)
  \/ GetsPush(p)
  \/ NoAnswer(p)
  \/ AsksAgain(p)
  \/ Verifies(p)
  \/ BootDone(p)

Next ==
  \/ Answers
  \/ Talks
  \/ RxChecks
  \/ RxReleases
  \/ RxClears
  \/ RxReads
  \/ RxFansOut
  \/ WebHolds
  \/ WebBoots
  \/ HbResets
  \/ \E p \in Probers : Probe(p)

Spec == Init /\ [][Next]_vars

\* A prober's waits end by their own time-outs.  uart_rx_task has a higher
\* priority than the tunnel's task, so S.mtx goes to it when it is given back.
FairSpec ==
  /\ Spec
  /\ \A p \in Probers : WF_vars(Probe(p))
  /\ SF_vars(RxFansOut)

-----------------------------------------------------------------------------
(* Properties                                                              *)

\* A flash session is whole: its way to the module is open and its idle time runs, once
\* reset_for_flash has set it up.  No boot probe, failed reset, reboot or time-out leaves the
\* lock behind without them; but uart_rx_task, on its way to clear the stamp of the lock it has
\* released, may clear that of a lock taken since, which then never times out
\* (source_uart.h:39-48, source_uart.c:419-429, 647-650).
FlashSessionIsWhole ==
  flash_lock => \/ ready /\ stamp # "none"
                \/ \E p \in Probers : pc[p] = "stamp"

\* As long as probers do not get in each other's way, a module that is locked for
\* flashing stays out of its application, however late it answers
\* (source_uart.h:39-48).
HoldKeepsBootloader == ~overlap /\ flash_lock => mode # "app"

\* As long as probers do not get in each other's way and nothing goes amiss, boot_done
\* means that the module runs its application (source_uart.h:28, 62).
SoloProbeTellsTruth == ~overlap /\ amiss = {} /\ boot_done => mode = "app"

\* T_RESET waits for the RX task while the RX task waits for the mutex that T_RESET
\* holds; every time this happens, it ends (sink_hbrfeth.c:273, 409).
RxRecovers == rx = "fanout" ~> rx = "read"
=============================================================================
