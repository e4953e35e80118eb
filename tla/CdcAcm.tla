------------------------------- MODULE CdcAcm -------------------------------
(***************************************************************************)
(* cdc_acm_host.c, the vendored CDC driver, as source_usb.c drives it: the *)
(* stick's task opens a handle, sends the CP210x requests, sits in its     *)
(* session and closes the handle; one transmission at a time (S.tx_mtx)    *)
(* goes out from the sinks' tasks or from the stick's task; the driver's   *)
(* client task runs the callbacks of finished transfers and the library's  *)
(* event messages.                                                         *)
(*                                                                         *)
(* The USB host library is external: it refuses a transfer that is already *)
(* in flight or whose device is lost, clears the in-flight mark before it  *)
(* runs a transfer's callback, and hands a lost device's transfers back    *)
(* before it sends DEV_GONE.  A handle freed with a transfer or a call     *)
(* still under way is undefined behaviour: the model ends there (`cut').   *)
(* Left out: uninstall, suspend and resume, remote wake-up, which the      *)
(* firmware never calls, and the descriptors (CdcParse).  A sink may come  *)
(* in whenever S.cdc is set, since it may have seen `ready' in an earlier  *)
(* session.                                                                *)
(***************************************************************************)
CONSTANTS
  Pipes,       \* the IN endpoints that are polled: bulk, and interrupt if there is one
  Sinks,       \* the sinks' tasks
  Stick,       \* stick_task, when it is the one that transmits
  None

ASSUME CdcAssumption ==
  /\ Stick \notin Sinks /\ None \notin Sinks \cup {Stick}
  /\ {"out", "ctrl"} \cap Pipes = {} /\ None \notin Pipes \cup {"out", "ctrl"}

Channels == {"out", "ctrl"}
Transfers == Pipes \cup Channels

VARIABLES
  plugged,     \* the stick is plugged in
  hdl,         \* the library's handle of the open device: none, open, lost (unplugged),
               \* gone (and its transfers are back)
  note,        \* a DEV_GONE message that names it is queued
  oldnote,     \* ... and one that names an earlier handle
  listed,      \* the driver's object is in cdc_devices_list
  muted,       \* its notif.cb and data.in_cb are NULL
  xfer,        \* each transfer: idle, in flight, or done and not yet taken by the client task
  status,      \* transfer->status: ok, an error (bad), or, as far as it matters, which is
               \* for a pipe, returned unfinished (back)
  cb,          \* the transfer whose callback the client task runs
  sem,         \* the semaphores of data.out_xfer and ctrl_transfer
  pc,          \* stick_task
  token,       \* S.disconnect_sem
  cdc,         \* S.cdc is not NULL
  who, at,     \* the task in cdc_acm_host_data_tx_blocking, and where
  sent,        \* history: the device took the piece that was submitted last
  overlapped,  \* history: a transmission began before the callback of the last one
  lied,        \* history: a piece counted as sent that was not, or not yet
  overwritten, \* history: the OUT buffer was written while in flight; neither of the two
               \* is recorded after an overlap
  erred,       \* history: the owner of this handle was told of an error
  told,        \* history: ... and of its loss, or the message came before it was listed
  cut          \* the handle was freed with a transfer or a call under way

device  == <<plugged, hdl>>
notes   == <<note, oldnote>>
object  == <<listed, muted>>
bus     == <<xfer, status, cb>>
task    == <<pc, token, cdc>>
caller  == <<who, at>>
history == <<sent, overlapped, lied, overwritten>>
verdict == <<erred, told, cut>>
vars    == <<device, notes, object, bus, sem, task, caller, history, verdict>>

TypeOK ==
  /\ plugged \in BOOLEAN /\ hdl \in {"none", "open", "lost", "gone"}
  /\ note \in BOOLEAN /\ oldnote \in BOOLEAN /\ listed \in BOOLEAN /\ muted \in BOOLEAN
  /\ xfer \in [Transfers -> {"idle", "flight", "done"}]
  /\ status \in [Transfers -> {"ok", "bad", "back"}]
  /\ cb \in Transfers \cup {None}
  /\ sem \in [Channels -> BOOLEAN]
  /\ pc \in {"find", "claim", "start", "list", "init", "request", "probe", "up",
             "mute", "reset", "free"}
  /\ token \in BOOLEAN /\ cdc \in BOOLEAN
  /\ who \in Sinks \cup {Stick, None}
  /\ at \in {"out", "clear", "submit", "wait", "expired"}
  /\ sent \in BOOLEAN /\ overlapped \in BOOLEAN /\ lied \in BOOLEAN
  /\ overwritten \in BOOLEAN
  /\ erred \in BOOLEAN /\ told \in BOOLEAN /\ cut \in BOOLEAN

Init ==
  /\ plugged = FALSE /\ hdl = "none" /\ note = FALSE /\ oldnote = FALSE
  /\ listed = FALSE /\ muted = FALSE
  /\ xfer = [x \in Transfers |-> "idle"] /\ status = [x \in Transfers |-> "ok"]
  /\ cb = None
  /\ sem = [c \in Channels |-> FALSE]
  /\ pc = "find" /\ token = FALSE /\ cdc = FALSE
  /\ who = None /\ at = "out"
  /\ sent = FALSE /\ overlapped = FALSE /\ lied = FALSE /\ overwritten = FALSE
  /\ erred = FALSE /\ told = FALSE /\ cut = FALSE

-----------------------------------------------------------------------------
(* The device and the library                                              *)

Plugs ==
  /\ ~plugged
  /\ plugged' = TRUE
  /\ UNCHANGED <<hdl, notes, object, bus, sem, task, caller, history, verdict>>

Unplugs ==
  /\ plugged
  /\ plugged' = FALSE
  /\ hdl' = IF hdl = "open" THEN "lost" ELSE hdl
  /\ UNCHANGED <<notes, object, bus, sem, task, caller, history, verdict>>

\* The transfers of X end unfinished: a flush, or the device is gone.
HandBack(X) ==
  LET flying == {x \in X : xfer[x] = "flight"}
  IN  /\ xfer' = [x \in Transfers |-> IF x \in flying THEN "done" ELSE xfer[x]]
      /\ status' = [x \in Transfers |->
                     IF x \notin flying THEN status[x] ELSE IF x \in Pipes THEN "back" ELSE "bad"]

ReportsLoss ==
  /\ hdl = "lost"
  /\ HandBack(Transfers)
  /\ hdl' = "gone" /\ note' = TRUE
  /\ UNCHANGED <<plugged, oldnote, object, cb, sem, task, caller, history, verdict>>

Completes(x) ==
  /\ xfer[x] = "flight" /\ hdl = "open"
  /\ xfer' = [xfer EXCEPT ![x] = "done"]
  /\ \E s \in {"ok", "bad"} :
       /\ status' = [status EXCEPT ![x] = s]
       /\ sent' = IF x = "out" THEN s = "ok" /\ ~overlapped ELSE sent
  /\ UNCHANGED <<device, notes, object, cb, sem, task, caller, overlapped, lied,
                 overwritten, verdict>>

Accepted(x) == xfer[x] = "idle" /\ hdl = "open"     \* usb_host_transfer_submit

-----------------------------------------------------------------------------
(* The client task                                                         *)

\* The in-flight mark is cleared; the callback comes next.
Takes(x) ==
  /\ cb = None /\ xfer[x] = "done"
  /\ xfer' = [xfer EXCEPT ![x] = "idle"]
  /\ cb' = x
  /\ UNCHANGED <<device, notes, object, status, sem, task, caller, history, verdict>>

\* Mutant of ErrorTold: an error is taken for a cancelled transfer.
ErrorQuiet(p) == FALSE

\* cdc_acm_is_transfer_completed: neither completed nor returned unfinished.
ErrorTold(p) == status[p] = "bad" /\ ~muted

\* in_xfer_cb, notif_xfer_cb: the owner gets the data or the error; only a completed
\* transfer is polled on, and what the new submission returns is ignored.  The status
\* is not read again.
PipeDone(p) ==
  /\ cb = p
  /\ cb' = None
  /\ xfer' = IF status[p] = "ok" /\ Accepted(p) THEN [xfer EXCEPT ![p] = "flight"] ELSE xfer
  /\ status' = [status EXCEPT ![p] = "ok"]
  /\ erred' = (erred \/ ErrorTold(p))
  /\ UNCHANGED <<device, notes, object, sem, task, caller, history, told, cut>>

\* The status of c has been read for the last time, unless a callback is to come.
Forgets(c) ==
  status' = IF xfer'[c] = "done" \/ cb' = c THEN status ELSE [status EXCEPT ![c] = "ok"]

Awaited(c) == IF c = "ctrl" THEN pc = "request" ELSE at \in {"submit", "wait"}

\* out_xfer_cb
ChannelDone(c) ==
  /\ cb = c
  /\ cb' = None
  /\ sem' = [sem EXCEPT ![c] = TRUE]
  /\ UNCHANGED <<device, notes, object, xfer, task, caller, history, verdict>>
  /\ IF Awaited(c) THEN UNCHANGED status ELSE Forgets(c)

\* Mutant of Tells: whatever device the message names.
TellsAnyone(mine) == listed /\ ~muted

\* usb_event_cb: the handle that the message names is told, if it is listed and not being
\* closed, and cdc_event_cb gives the token.
\* The driver tests notif.cb and then calls it without the critical section in which a
\* close clears it; the two are one step here.
Tells(mine) == mine /\ listed /\ ~muted

TakesNote(mine) ==
  /\ cb = None
  /\ IF mine THEN note ELSE oldnote
  /\ IF mine THEN note' = FALSE /\ UNCHANGED oldnote ELSE oldnote' = FALSE /\ UNCHANGED note
  /\ token' = (token \/ Tells(mine))
  /\ told' = (told \/ Tells(mine) \/ (mine /\ ~listed))
  /\ UNCHANGED <<device, object, bus, sem, pc, cdc, caller, history, erred, cut>>

ClientTask ==
  \/ \E x \in Transfers : Takes(x)
  \/ \E p \in Pipes : PipeDone(p)
  \/ \E c \in Channels : ChannelDone(c)
  \/ \E mine \in BOOLEAN : TakesNote(mine)

-----------------------------------------------------------------------------
(* cdc_acm_host_data_tx_blocking, under S.tx_mtx                           *)

Enter(t) ==
  /\ who = None /\ cdc
  /\ who' = t /\ at' = "clear"
  /\ UNCHANGED <<device, notes, object, bus, sem, task, history, verdict>>

\* It returns; a question of the boot probe that could not be sent ends the probe.
Leave(ok) ==
  /\ who' = None /\ at' = "out" /\ sent' = FALSE
  /\ overlapped' = (overlapped /\ xfer'["out"] = "flight")
  /\ pc' = IF who = Stick /\ ~ok THEN "up" ELSE pc

\* The callback of an earlier transfer is still to come; or it came in the middle of a
\* later transfer, which is still in flight.
Overlap == xfer["out"] = "done" \/ cb = "out" \/ (overlapped /\ xfer["out"] = "flight")

\* Mutant of Clears: the semaphore is left as the last transmission left it.
ClearsNot ==
  /\ at = "clear"
  /\ at' = "submit"
  /\ overlapped' = Overlap
  /\ UNCHANGED <<device, notes, object, bus, sem, task, who, sent, lied, overwritten,
                 verdict>>

\* "Make sure the semaphore is taken before we submit new transfer"
Clears ==
  /\ at = "clear"
  /\ at' = "submit"
  /\ sem' = [sem EXCEPT !["out"] = FALSE]
  /\ overlapped' = Overlap
  /\ UNCHANGED <<device, notes, object, bus, task, who, sent, lied, overwritten,
                 verdict>>

\* The copy into the transfer's buffer, and the submission.
Submits ==
  /\ at = "submit"
  /\ overwritten' = (overwritten \/ (xfer["out"] = "flight" /\ ~overlapped))
  /\ \/ /\ Accepted("out")
        /\ xfer' = [xfer EXCEPT !["out"] = "flight"]
        /\ sent' = FALSE
        /\ at' = "wait"
        /\ UNCHANGED <<pc, who, overlapped>>
     \/ /\ ~Accepted("out")
        /\ UNCHANGED xfer
        /\ Leave(FALSE)
  /\ UNCHANGED <<device, notes, object, status, cb, sem, token, cdc, lied, verdict>>

\* The piece is out; there is another one, or that was all.
PieceDone ==
  /\ at = "wait" /\ sem["out"] /\ status["out"] = "ok"
  /\ sem' = [sem EXCEPT !["out"] = FALSE]
  /\ lied' = (lied \/ ~(sent \/ overlapped))
  /\ UNCHANGED <<device, notes, object, xfer, cb, token, cdc, overwritten, verdict>>
  /\ Forgets("out")
  /\ \/ at' = "clear" /\ sent' = FALSE /\ UNCHANGED <<pc, who, overlapped>>
     \/ Leave(TRUE)

PieceFailed ==
  /\ at = "wait" /\ sem["out"] /\ status["out"] # "ok"
  /\ sem' = [sem EXCEPT !["out"] = FALSE]
  /\ UNCHANGED <<device, notes, object, xfer, cb, token, cdc, lied, overwritten,
                 verdict>>
  /\ Forgets("out")
  /\ Leave(FALSE)

\* The time is up, whether or not the semaphore was given in the end.
Expires ==
  /\ at = "wait"
  /\ at' = "expired"
  /\ sem' = [sem EXCEPT !["out"] = FALSE]
  /\ UNCHANGED <<device, notes, object, bus, task, who, history, verdict>>

\* Mutant of GivesUp: the transfer is left to itself.
GivesUpOnly ==
  /\ at = "expired"
  /\ UNCHANGED <<device, notes, object, bus, sem, token, cdc, lied, overwritten,
                 verdict>>
  /\ Leave(FALSE)

\* cdc_acm_reset_transfer_endpoint
GivesUp ==
  /\ at = "expired"
  /\ HandBack({"out"})
  /\ Leave(FALSE)
  /\ UNCHANGED <<device, notes, object, cb, sem, token, cdc, lied, overwritten,
                 verdict>>

Transmission == Clears \/ Submits \/ PieceDone \/ PieceFailed \/ Expires \/ GivesUp

-----------------------------------------------------------------------------
(* stick_task: cdc_acm_host_open                                           *)

\* The object and what belongs to it are freed.
Freed ==
  /\ hdl' = "none" /\ note' = FALSE
  /\ listed' = FALSE /\ muted' = FALSE
  /\ status' = [x \in Transfers |-> "ok"]
  /\ sem' = [c \in Channels |-> FALSE]
  /\ sent' = FALSE /\ overlapped' = FALSE /\ lied' = FALSE /\ overwritten' = FALSE
  /\ erred' = FALSE /\ told' = FALSE

Finds ==
  /\ pc = "find" /\ plugged
  /\ hdl' = "open"
  /\ pc' = "claim"
  /\ UNCHANGED <<plugged, notes, object, bus, sem, token, cdc, caller, history,
                 verdict>>

Claims ==
  /\ pc = "claim" /\ hdl = "open"
  /\ pc' = "start"
  /\ UNCHANGED <<device, notes, object, bus, sem, token, cdc, caller, history, verdict>>

\* Descriptors, transfers or the claim fail: nothing is in flight yet.
OpenFails ==
  /\ pc = "claim"
  /\ Freed
  /\ oldnote' = (oldnote \/ note)
  /\ pc' = "find"
  /\ UNCHANGED <<plugged, xfer, cb, token, cdc, caller, cut>>

Starts ==
  /\ pc = "start" /\ hdl = "open"
  /\ xfer' = [x \in Transfers |-> IF x \in Pipes THEN "flight" ELSE xfer[x]]
  /\ pc' = "list"
  /\ UNCHANGED <<device, notes, object, status, cb, sem, token, cdc, caller, history,
                 verdict>>

\* ESP_ERROR_CHECK(usb_host_transfer_submit(...)): the gateway restarts.
Aborts ==
  /\ pc = "start" /\ hdl # "open"
  /\ Freed
  /\ oldnote' = FALSE
  /\ pc' = "find" /\ token' = FALSE
  /\ UNCHANGED <<plugged, xfer, cb, cdc, caller, cut>>

\* The object is listed, open returns, and stick_task publishes the handle.
Lists ==
  /\ pc = "list"
  /\ listed' = TRUE /\ cdc' = TRUE
  /\ pc' = "init"
  /\ UNCHANGED <<device, notes, muted, bus, sem, token, caller, history, verdict>>

-----------------------------------------------------------------------------
(* stick_task: cp210x_init, cdc_acm_host_send_custom_request               *)

\* Mutant of InitFails: the handle is kept open for diagnosis.
InitFailsOpen ==
  /\ pc' = "up"
  /\ UNCHANGED <<token, cdc>>

InitFails ==
  /\ cdc' = FALSE
  /\ pc' = "mute"
  /\ UNCHANGED token

Asks ==
  /\ pc = "init"
  /\ \/ /\ Accepted("ctrl")
        /\ xfer' = [xfer EXCEPT !["ctrl"] = "flight"]
        /\ pc' = "request"
        /\ UNCHANGED <<token, cdc>>
     \/ ~Accepted("ctrl") /\ InitFails /\ UNCHANGED xfer
  /\ UNCHANGED <<device, notes, object, status, cb, sem, caller, history, verdict>>

Answered ==
  /\ pc = "request" /\ sem["ctrl"]
  /\ sem' = [sem EXCEPT !["ctrl"] = FALSE]
  /\ \/ /\ status["ctrl"] = "ok"
        /\ pc' \in {"init", "probe"}        \* the next of the six requests, or done
        /\ UNCHANGED <<token, cdc>>
     \/ status["ctrl"] # "ok" /\ InitFails
  /\ UNCHANGED <<device, notes, object, xfer, cb, caller, history, verdict>>
  /\ Forgets("ctrl")

\* The endpoint is not reset: "USBH will".
Unanswered ==
  /\ pc = "request" /\ ~sem["ctrl"]
  /\ InitFails
  /\ UNCHANGED <<device, notes, object, bus, sem, caller, history, verdict>>

-----------------------------------------------------------------------------
(* stick_task: boot probe, session, cdc_acm_host_close                     *)

StickEnters == pc = "probe" /\ Enter(Stick)

Settles ==
  /\ pc = "probe" /\ who # Stick
  /\ pc' = "up"
  /\ UNCHANGED <<device, notes, object, bus, sem, token, cdc, caller, history, verdict>>

TearsDown ==
  /\ pc = "up" /\ token
  /\ token' = FALSE /\ cdc' = FALSE
  /\ pc' = "mute"
  /\ UNCHANGED <<device, notes, object, bus, sem, caller, history, verdict>>

Mutes ==
  /\ pc = "mute"
  /\ muted' = TRUE
  /\ pc' = "reset"
  /\ UNCHANGED <<device, notes, listed, bus, sem, token, cdc, caller, history, verdict>>

\* "Cancel polling of BULK IN and INTERRUPT IN"
Resets ==
  /\ pc = "reset"
  /\ HandBack(Pipes)
  /\ pc' = "free"
  /\ UNCHANGED <<device, notes, object, cb, sem, token, cdc, caller, history, verdict>>

AtRest == who = None /\ cb = None /\ \A x \in Transfers : xfer[x] = "idle"

\* The interfaces are released, the object leaves the list and is freed.
Frees ==
  /\ pc = "free"
  /\ cut' = ~AtRest
  /\ Freed
  /\ oldnote' = (oldnote \/ note)
  /\ pc' = "find"
  /\ UNCHANGED <<plugged, xfer, cb, token, cdc, caller>>

StickTask ==
  \/ Finds \/ Claims \/ OpenFails \/ Starts \/ Aborts \/ Lists
  \/ Asks \/ Answered \/ Unanswered
  \/ StickEnters \/ Settles \/ TearsDown \/ Mutes \/ Resets \/ Frees

Next ==
  /\ ~cut
  /\ \/ Plugs \/ Unplugs \/ ReportsLoss
     \/ \E x \in Transfers : Completes(x)
     \/ ClientTask
     \/ \E t \in Sinks : Enter(t)
     \/ Transmission
     \/ StickTask

\* The library reports, the client task and stick_task run when they can, and a
\* transmission ends, at the latest by its time-out.  The device answers or not.
Fairness ==
  /\ WF_vars(~cut /\ ReportsLoss) /\ WF_vars(~cut /\ ClientTask)
  /\ WF_vars(~cut /\ Transmission) /\ WF_vars(~cut /\ StickTask)

Spec == Init /\ [][Next]_vars /\ Fairness

-----------------------------------------------------------------------------
(* Properties                                                              *)

\* A transmission that reports a piece as sent has sent it, unless it began before the
\* callback of an earlier one, which had timed out, gave the shared semaphore.
OkMeansSent == ~lied

\* With the same exception, the OUT buffer is not written while the bus reads it.
BufferIsStill == ~overwritten

\* An open handle whose device is there is polled on every pipe, or its owner was told
\* of an error: it does not go deaf in silence.
PolledOrTold ==
  listed /\ ~muted /\ hdl = "open" /\ ~erred =>
    \A p \in Pipes : xfer[p] # "idle" \/ cb = p

\* The driver keeps the promise of UsbLink.
LinkHandle ==
  IF ~listed \/ muted THEN "none"
  ELSE IF told THEN "over"
  ELSE IF hdl = "open" THEN "live" ELSE "lost"

Link == INSTANCE UsbLink WITH handle <- LinkHandle

LinkSpec == Link!Spec

\* However a stick is lost, during the search, the init, the probe, or later, its handle
\* is closed, so that the next stick can be opened.
GoneIsClosed == hdl \in {"lost", "gone"} ~> (hdl = "none" \/ cut)

=============================================================================
