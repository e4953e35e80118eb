------------------------------ MODULE SourceUsb ------------------------------
(***************************************************************************)
(* source_usb.c: the HmIP-RFUSB stick.  stick_task opens it, sets up its   *)
(* CP210x, probes it (IDENTIFY, CHANGE_APP for a boot loader, IDENTIFY     *)
(* again), and waits on a binary semaphore that the driver's event callback*)
(* gives when the stick is gone; then it closes the handle and starts over.*)
(* The sinks' tasks come in through op_tx, having seen `ready' in the      *)
(* bridge some time before.                                                *)
(*                                                                         *)
(* The driver reports a lost device to the handles it lists: to one that   *)
(* is not listed yet, or no longer, it does not.  The stick leaves its     *)
(* boot loader when it is told to and does not go back: a sink's frame     *)
(* that starts it again is left out.  What a driver call does with a       *)
(* handle closed under it is left out, and so are stick_connected          *)
(* and the tag's text, which are only shown.  S.boot_done and S.ready are  *)
(* assigned together and are one variable; neighbouring assignments of     *)
(* stick_task to S are one step.                                           *)
(***************************************************************************)
EXTENDS Naturals, Sequences

CONSTANTS
  Senders,     \* the sinks' tasks
  QLen,        \* length of S.boot_q
  Backlog,     \* questions, and sinks' frames, the stick has not answered, at most
  Stick,       \* stick_task, when it is in a transmission
  None

ASSUME UsbAssumption ==
  /\ QLen \in Nat \ {0} /\ Backlog \in Nat \ {0}
  /\ Stick \notin Senders /\ None \notin Senders \cup {Stick}

VARIABLES
  stick,       \* what is plugged in: nothing, a boot loader, or an application
  asked,       \* what it has been asked and not answered yet
  frames,      \* how many frames of the sinks it has not answered yet
  link,        \* the open handle's device is the stick
  gone,        \* the driver has yet to report that it is gone
  token,       \* S.disconnect_sem
  q,           \* S.boot_q
  cdc,         \* S.cdc is not NULL
  ready,       \* S.ready, S.boot_done
  pc,          \* stick_task
  phase, ev,   \* in boot_to_app: which question, and the answer that counts
  sender,      \* the sinks' tasks
  user,        \* who has S.tx_mtx and is in the driver
  verified,    \* history: the session has been probed to the end
  stray,       \* history: sessions torn down with the stick in place, since it was
               \* last unplugged
  strays,      \* history: each sender's transmissions in sessions that were not
               \* verified, since the last one that was
  faulty,      \* history: bus or stick have failed without being unplugged
  crossed      \* history: the answer to a sink's frame has fallen into a probe, since
               \* the stick was last unplugged

device  == <<stick, asked, frames>>
probe   == <<q, phase, ev>>
senders == <<sender, user>>
history == <<verified, stray, strays, faulty, crossed>>
vars    == <<device, link, gone, token, cdc, ready, pc, probe, senders, history>>

\* boot_class_t; "err" is DUAL_ERR, "odd" an answer with an unknown tag.
Tags == {"bl", "app", "err", "odd"}

TypeOK ==
  /\ stick \in {"absent", "bl", "app"}
  /\ asked \in Seq({"identify", "change"}) /\ Len(asked) <= Backlog
  /\ frames \in 0 .. Backlog
  /\ link \in BOOLEAN /\ gone \in BOOLEAN /\ token \in BOOLEAN
  /\ q \in Seq(Tags) /\ Len(q) <= QLen
  /\ cdc \in BOOLEAN /\ ready \in BOOLEAN
  /\ pc \in {"open", "init", "ask", "asking", "wait", "extra", "settled", "closing"}
  /\ phase \in {"identify", "change", "verify"}
  /\ ev \in Tags
  /\ sender \in [Senders -> {"idle", "go"}]
  /\ user \in Senders \cup {Stick, None}
  /\ verified \in BOOLEAN /\ faulty \in BOOLEAN /\ crossed \in BOOLEAN
  /\ stray \in Nat /\ strays \in [Senders -> Nat]

Init ==
  /\ stick = "absent" /\ asked = <<>> /\ frames = 0
  /\ link = FALSE /\ gone = FALSE /\ token = FALSE
  /\ q = <<>> /\ phase = "identify" /\ ev = "odd"
  /\ cdc = FALSE /\ ready = FALSE /\ pc = "open"
  /\ sender = [t \in Senders |-> "idle"] /\ user = None
  /\ verified = FALSE /\ stray = 0 /\ strays = [t \in Senders |-> 0]
  /\ faulty = FALSE /\ crossed = FALSE

-----------------------------------------------------------------------------
(* The stick and the driver's callbacks                                    *)

\* cdc_data_cb, usb_frame_cb, post_boot_event: an event that finds the queue full is
\* lost; no handle, no callback.
Posted(tag) == IF link /\ Len(q) < QLen THEN Append(q, tag) ELSE q

\* Mutant of Given: an error falls through to the case of a lost stick.
GivenAnyway(type) == TRUE

\* cdc_event_cb: the token after an event of this type.
Given(type) == token \/ type = "disconnected"

Plugs(m) ==
  /\ stick = "absent"
  /\ stick' = m
  /\ UNCHANGED <<asked, frames, link, gone, token, cdc, ready, pc, probe, senders, history>>

Unplugs ==
  /\ stick # "absent"
  /\ stick' = "absent" /\ asked' = <<>> /\ frames' = 0
  /\ link' = FALSE
  /\ gone' = (gone \/ link)
  /\ stray' = 0 /\ crossed' = FALSE
  /\ UNCHANGED <<token, cdc, ready, pc, probe, senders, verified, strays, faulty>>

ReportsGone ==
  /\ gone
  /\ gone' = FALSE
  /\ token' = Given("disconnected")
  /\ UNCHANGED <<device, link, cdc, ready, pc, probe, senders, history>>

ReportsError ==
  /\ link
  /\ token' = Given("error")
  /\ faulty' = TRUE
  /\ UNCHANGED <<device, link, gone, cdc, ready, pc, probe, senders, verified, stray, strays,
                 crossed>>

\* It says what it is, as an application also by a DUAL_ERR; or it leaves its boot loader
\* and says so.
Replies(question, mode) ==
  IF question = "identify" /\ mode = "app" THEN {"app", "err"} ELSE {mode}

Answers ==
  /\ asked # <<>>
  /\ stick' = IF Head(asked) = "change" THEN "app" ELSE stick
  /\ \E tag \in Replies(Head(asked), stick') : q' = Posted(tag)
  /\ asked' = Tail(asked)
  /\ UNCHANGED <<frames, link, gone, token, cdc, ready, pc, phase, ev, senders, history>>

StaysSilent ==
  /\ asked # <<>>
  /\ asked' = Tail(asked)
  /\ faulty' = TRUE
  /\ UNCHANGED <<stick, frames, link, gone, token, cdc, ready, pc, probe, senders, verified,
                 stray, strays, crossed>>

\* What it may say but in answer to a question of the probe: usb_frame_cb posts any
\* DUAL_ERR, and what it finds in place of a tag in any answer to COMMON.
Says(tag) ==
  /\ tag \in {stick, "err", "odd"}
  /\ q' = Posted(tag)

\* A frame nobody asked for.
SaysSomething ==
  /\ link
  /\ \E tag \in Tags : Says(tag)
  /\ faulty' = TRUE
  /\ UNCHANGED <<device, link, gone, token, cdc, ready, pc, phase, ev, senders, verified,
                 stray, strays, crossed>>

\* What is posted now will be taken for an answer.
Collects == pc \in {"asking", "wait", "extra"} \/ (pc = "ask" /\ phase # "identify")

\* The answer to a sink's frame is decoded and posted like any other.
AnswersSink ==
  /\ frames > 0
  /\ frames' = frames - 1
  /\ \E tag \in Tags : Says(tag)
  /\ crossed' = (crossed \/ (link /\ Collects))
  /\ UNCHANGED <<stick, asked, link, gone, token, cdc, ready, pc, phase, ev, senders, verified,
                 stray, strays, faulty>>

\* It has no answer, or one that is not posted.
IgnoresSink ==
  /\ frames > 0
  /\ frames' = frames - 1
  /\ UNCHANGED <<stick, asked, link, gone, token, cdc, ready, pc, probe, senders, history>>

-----------------------------------------------------------------------------
(* stick_task                                                              *)

Opens ==
  /\ pc = "open" /\ stick # "absent"
  /\ link' = TRUE /\ cdc' = TRUE
  /\ pc' = "init"
  /\ UNCHANGED <<device, gone, token, ready, probe, senders, history>>

\* The stick is pulled after the driver has found it and before it lists the handle.
OpensGone ==
  /\ pc = "open" /\ stick # "absent"
  /\ stick' = "absent" /\ asked' = <<>> /\ frames' = 0
  /\ stray' = 0 /\ crossed' = FALSE
  /\ cdc' = TRUE
  /\ pc' = "init"
  /\ UNCHANGED <<link, gone, token, ready, probe, senders, verified, strays, faulty>>

\* cp210x_init
InitOk ==
  /\ pc = "init" /\ link
  /\ q' = <<>>
  /\ pc' = "ask" /\ phase' = "identify"
  /\ UNCHANGED <<device, link, gone, token, cdc, ready, ev, senders, history>>

\* Mutant of InitFails: the handle is kept until the stick disconnects.
InitFailsOpen ==
  /\ pc = "init"
  /\ pc' = "settled"
  /\ faulty' = (faulty \/ link)
  /\ UNCHANGED <<device, link, gone, token, cdc, ready, probe, senders, verified, stray,
                 strays, crossed>>

InitFails ==
  /\ pc = "init"
  /\ cdc' = FALSE
  /\ pc' = "closing"
  /\ faulty' = (faulty \/ link)
  /\ UNCHANGED <<device, link, gone, token, ready, probe, senders, verified, stray,
                 strays, crossed>>

\* encode_and_send: the mutex is taken; the first question follows a drain.
Asks ==
  /\ pc = "ask" /\ user = None
  /\ user' = Stick
  /\ q' = IF phase = "identify" THEN <<>> ELSE q
  /\ pc' = "asking"
  /\ UNCHANGED <<device, link, gone, token, cdc, ready, phase, ev, sender, history>>

Asked ==
  /\ pc = "asking" /\ link
  /\ Len(asked) < Backlog
  /\ asked' = Append(asked, IF phase = "change" THEN "change" ELSE "identify")
  /\ user' = None
  /\ pc' = "wait"
  /\ UNCHANGED <<stick, frames, link, gone, token, cdc, ready, probe, sender, history>>

AskFails ==
  /\ pc = "asking"
  /\ user' = None
  /\ pc' = "settled"
  /\ faulty' = (faulty \/ link)
  /\ UNCHANGED <<device, link, gone, token, cdc, ready, probe, sender, verified, stray, strays,
                 crossed>>

\* Mutant of Gets: any answer will do.
GetsAnything ==
  /\ pc = "wait" /\ q # <<>>
  /\ ev' = Head(q) /\ q' = Tail(q)
  /\ pc' = "extra"
  /\ UNCHANGED <<device, link, gone, token, cdc, ready, phase, senders, history>>

\* The answers a question is content with: after CHANGE_APP only an application will do,
\* at the end a DUAL_ERR counts as one.
Welcome ==
  CASE phase = "identify" -> Tags
    [] phase = "change"   -> {"app"}
    [] phase = "verify"   -> {"app", "err"}

\* wait_boot_event
Gets ==
  /\ pc = "wait" /\ q # <<>>
  /\ ev' = Head(q) /\ q' = Tail(q)
  /\ pc' = IF Head(q) \in Welcome THEN "extra" ELSE "settled"
  /\ UNCHANGED <<device, link, gone, token, cdc, ready, phase, senders, history>>

TimesOut ==
  /\ pc = "wait" /\ q = <<>>
  /\ pc' = "settled"
  /\ faulty' = (faulty \/ link)
  /\ UNCHANGED <<device, link, gone, token, cdc, ready, probe, senders, verified, stray,
                 strays, crossed>>

\* For 200 ms whatever else comes is read, and ignored unless the first answer was odd.
GetsMore ==
  /\ pc = "extra" /\ q # <<>>
  /\ ev' = IF phase = "identify" /\ ev = "odd" THEN Head(q) ELSE ev
  /\ q' = Tail(q)
  /\ UNCHANGED <<device, link, gone, token, cdc, ready, pc, phase, senders, history>>

AsksNext(p) ==
  /\ phase' = p /\ pc' = "ask"
  /\ UNCHANGED <<device, link, gone, token, cdc, ready, q, ev, senders, history>>

ToVerify ==
  /\ pc = "extra" /\ q = <<>>
  /\ phase # "verify"
  /\ phase = "identify" => ev \in {"app", "err"}
  /\ AsksNext("verify")

ToChange ==
  /\ pc = "extra" /\ q = <<>>
  /\ phase = "identify" /\ ev = "bl"
  /\ AsksNext("change")

Unclassified ==
  /\ pc = "extra" /\ q = <<>>
  /\ phase = "identify" /\ ev = "odd"
  /\ pc' = "settled"
  /\ UNCHANGED <<device, link, gone, token, cdc, ready, probe, senders, history>>

BootDone ==
  /\ pc = "extra" /\ q = <<>>
  /\ phase = "verify"
  /\ ready' = TRUE
  /\ pc' = "settled"
  /\ verified' = TRUE /\ strays' = [t \in Senders |-> 0]
  /\ UNCHANGED <<device, link, gone, token, cdc, probe, senders, stray, faulty, crossed>>

\* Mutant of TearsDown: the source goes on claiming to be ready.
TearsDownReady ==
  /\ pc = "settled" /\ token
  /\ token' = FALSE
  /\ cdc' = FALSE
  /\ pc' = "closing"
  /\ verified' = FALSE
  /\ stray' = IF link THEN stray + 1 ELSE stray
  /\ UNCHANGED <<device, link, gone, ready, probe, senders, strays, faulty, crossed>>

TearsDown ==
  /\ pc = "settled" /\ token
  /\ token' = FALSE
  /\ ready' = FALSE /\ cdc' = FALSE
  /\ pc' = "closing"
  /\ verified' = FALSE
  /\ stray' = IF link THEN stray + 1 ELSE stray
  /\ UNCHANGED <<device, link, gone, probe, senders, strays, faulty, crossed>>

\* cdc_acm_host_close: no callbacks from here on.
Closes ==
  /\ pc = "closing"
  /\ link' = FALSE /\ gone' = FALSE
  /\ pc' = "open"
  /\ UNCHANGED <<device, token, cdc, ready, probe, senders, history>>

-----------------------------------------------------------------------------
(* op_ready and op_tx                                                      *)

Checks(t) ==
  /\ sender[t] = "idle" /\ ready
  /\ sender' = [sender EXCEPT ![t] = "go"]
  /\ UNCHANGED <<device, link, gone, token, cdc, ready, pc, probe, user, history>>

\* More than Backlog frames under way count as ignored.
Transmits(t) ==
  /\ sender[t] = "go" /\ user = None /\ cdc
  /\ user' = t
  /\ frames' = IF link /\ frames < Backlog THEN frames + 1 ELSE frames
  /\ strays' = IF verified THEN strays ELSE [strays EXCEPT ![t] = @ + 1]
  /\ UNCHANGED <<stick, asked, link, gone, token, cdc, ready, pc, probe, sender, verified,
                 stray, faulty, crossed>>

FindsNoHandle(t) ==
  /\ sender[t] = "go" /\ user = None /\ ~cdc
  /\ sender' = [sender EXCEPT ![t] = "idle"]
  /\ UNCHANGED <<device, link, gone, token, cdc, ready, pc, probe, user, history>>

Returns(t) ==
  /\ user = t
  /\ user' = None
  /\ sender' = [sender EXCEPT ![t] = "idle"]
  /\ UNCHANGED <<device, link, gone, token, cdc, ready, pc, probe, history>>

StickTask ==
  \/ Opens \/ OpensGone \/ InitOk \/ InitFails
  \/ Asks \/ Asked \/ AskFails \/ Gets \/ TimesOut \/ GetsMore
  \/ ToVerify \/ ToChange \/ Unclassified \/ BootDone
  \/ TearsDown \/ Closes

Next ==
  \/ \E m \in {"bl", "app"} : Plugs(m)
  \/ Unplugs \/ ReportsGone \/ ReportsError
  \/ Answers \/ StaysSilent \/ SaysSomething \/ AnswersSink \/ IgnoresSink
  \/ StickTask
  \/ \E t \in Senders : Checks(t) \/ Transmits(t) \/ FindsNoHandle(t) \/ Returns(t)

\* stick_task runs when it can, the driver reports, the stick answers, and a driver call
\* ends, at the latest by its time-out of 500 ms.
Fairness ==
  /\ WF_vars(StickTask) /\ WF_vars(ReportsGone) /\ WF_vars(Answers)
  /\ \A t \in Senders : WF_vars(Returns(t))

Spec == Init /\ [][Next]_vars /\ Fairness

-----------------------------------------------------------------------------
(* Properties                                                              *)

\* A source that claims to be ready has a stick that runs its application, whatever
\* answers came late, never, twice, in an earlier session or to somebody else's frame:
\* unless the answer that counted was a DUAL_ERR, which is taken for an application's
\* (and shown in place of its tag) and may be anybody's.
ReadyMeansApp == ready /\ link /\ ev # "err" => stick = "app"

\* The semaphore may hold a token of an earlier session, which ends a session with a
\* stick in place: at most once for each time the stick is unplugged.
AtMostOneStrayTeardown == stray <= 1

\* op_tx does not look at `ready', so a task may transmit to a stick that is not probed
\* yet: once, with what it saw before the last session ended.
AtMostOneStrayFrame == \A t \in Senders : strays[t] <= 1

\* A stick that is plugged in for good gets ready for good, unless bus or stick fail, or
\* the answer to a sink's frame falls into its probe, which nothing starts again:
\* whenever it was pulled and put back, and whatever tokens were left over.
ComesBack == (<>[](stick # "absent" /\ ~crossed) /\ []~faulty) => <>[]ready

\* The driver as it is seen here is that of UsbLink: each handle is told once that its
\* stick is gone, or never if that happened while it was opened.
LinkHandle ==
  IF pc = "open" THEN "none"
  ELSE IF link THEN "live"
  ELSE IF gone THEN "lost" ELSE "over"

Link == INSTANCE UsbLink WITH plugged <- (stick # "absent"), handle <- LinkHandle

LinkSpec == Link!Spec

=============================================================================
