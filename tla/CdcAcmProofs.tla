---------------------------- MODULE CdcAcmProofs ----------------------------
(***************************************************************************)
(* Proofs about CdcAcm: type correctness, that the driver's transmission   *)
(* neither lies nor writes a buffer in use, that a handle is polled or its *)
(* owner told, and that the driver keeps the promise of UsbLink.           *)
(***************************************************************************)
EXTENDS CdcAcm, TLAPS

USE DEF vars, device, notes, object, bus, task, caller, history, verdict,
        Channels, Transfers

LEMMA TypeStep == TypeOK /\ [Next]_vars => TypeOK'
<1> SUFFICES ASSUME TypeOK, [Next]_vars PROVE TypeOK'
  OBVIOUS
<1> USE CdcAssumption DEF TypeOK
<1>1. ASSUME Plugs PROVE TypeOK'
  BY <1>1 DEF Plugs
<1>2. ASSUME Unplugs PROVE TypeOK'
  <2>1. plugged' \in BOOLEAN
    BY <1>2 DEF Unplugs
  <2>2. hdl' \in {"none", "open", "lost", "gone"}
    BY <1>2 DEF Unplugs
  <2>3. UNCHANGED <<note, oldnote, listed, muted, xfer, status, cb, sem, pc, token,
                    cdc, who, at, sent, overlapped, lied, overwritten, erred, told,
                    cut>>
    BY <1>2 DEF Unplugs
  <2> QED
    BY <2>1, <2>2, <2>3
<1>3. ASSUME ReportsLoss PROVE TypeOK'
  BY <1>3 DEF ReportsLoss, HandBack
<1>4. ASSUME NEW x \in Transfers, Completes(x) PROVE TypeOK'
  <2>1. sent' \in BOOLEAN
    BY <1>4 DEF Completes
  <2>2. xfer' \in [Transfers -> {"idle", "flight", "done"}]
    BY <1>4 DEF Completes
  <2>3. status' \in [Transfers -> {"ok", "bad", "back"}]
    BY <1>4 DEF Completes
  <2>4. UNCHANGED <<plugged, hdl, note, oldnote, listed, muted, cb, sem, pc, token,
                    cdc, who, at, overlapped, lied, overwritten, erred, told, cut>>
    BY <1>4 DEF Completes
  <2> QED
    BY <2>1, <2>2, <2>3, <2>4
<1>5. ASSUME NEW x \in Transfers, Takes(x) PROVE TypeOK'
  BY <1>5 DEF Takes
<1>6. ASSUME NEW p \in Pipes, PipeDone(p) PROVE TypeOK'
  BY <1>6 DEF PipeDone, ErrorTold, Accepted
<1>7. ASSUME NEW c \in Channels, ChannelDone(c) PROVE TypeOK'
  BY <1>7 DEF ChannelDone, Forgets, Awaited
<1>8. ASSUME NEW mine \in BOOLEAN, TakesNote(mine) PROVE TypeOK'
  <2>1. note' \in BOOLEAN /\ oldnote' \in BOOLEAN /\ token' \in BOOLEAN /\ told' \in BOOLEAN
    BY <1>8 DEF TakesNote, Tells
  <2>2. UNCHANGED <<plugged, hdl, listed, muted, xfer, status, cb, sem, pc, cdc, who,
                    at, sent, overlapped, lied, overwritten, erred, cut>>
    BY <1>8 DEF TakesNote, Tells
  <2> QED
    BY <2>1, <2>2
<1>9. ASSUME NEW t \in Sinks, Enter(t) PROVE TypeOK'
  BY <1>9 DEF Enter
<1>10. ASSUME Clears PROVE TypeOK'
  BY <1>10 DEF Clears, Overlap
<1>11. ASSUME Submits PROVE TypeOK'
  <2>1. overwritten' \in BOOLEAN /\ sent' \in BOOLEAN /\ overlapped' \in BOOLEAN
    BY <1>11 DEF Submits, Accepted, Leave
  <2>2. xfer' \in [Transfers -> {"idle", "flight", "done"}]
    BY <1>11 DEF Submits, Accepted, Leave
  <2>3. at' \in {"out", "clear", "submit", "wait", "expired"}
    BY <1>11 DEF Submits, Accepted, Leave
  <2>4. who' \in Sinks \cup {Stick, None}
    BY <1>11 DEF Submits, Accepted, Leave
  <2>5. pc' \in {"find", "claim", "start", "list", "init", "request", "probe", "up",
             "mute", "reset", "free"}
    BY <1>11 DEF Submits, Accepted, Leave
  <2>6. UNCHANGED <<plugged, hdl, note, oldnote, listed, muted, status, cb, sem,
                    token, cdc, lied, erred, told, cut>>
    BY <1>11 DEF Submits, Accepted, Leave
  <2> QED
    BY <2>1, <2>2, <2>3, <2>4, <2>5, <2>6
<1>12. ASSUME PieceDone PROVE TypeOK'
  <2>1. sent' \in BOOLEAN /\ overlapped' \in BOOLEAN /\ lied' \in BOOLEAN
    BY <1>12 DEF PieceDone, Leave, Forgets
  <2>2. sem' \in [Channels -> BOOLEAN]
    BY <1>12 DEF PieceDone, Leave, Forgets
  <2>3. status' \in [Transfers -> {"ok", "bad", "back"}]
    BY <1>12 DEF PieceDone, Leave, Forgets
  <2>4. who' \in Sinks \cup {Stick, None}
    BY <1>12 DEF PieceDone, Leave, Forgets
  <2>5. at' \in {"out", "clear", "submit", "wait", "expired"}
    BY <1>12 DEF PieceDone, Leave, Forgets
  <2>6. pc' \in {"find", "claim", "start", "list", "init", "request", "probe", "up",
             "mute", "reset", "free"}
    BY <1>12 DEF PieceDone, Leave, Forgets
  <2>7. UNCHANGED <<plugged, hdl, note, oldnote, listed, muted, xfer, cb, token, cdc,
                    overwritten, erred, told, cut>>
    BY <1>12 DEF PieceDone, Leave, Forgets
  <2> QED
    BY <2>1, <2>2, <2>3, <2>4, <2>5, <2>6, <2>7
<1>13. ASSUME PieceFailed PROVE TypeOK'
  <2>1. sent' \in BOOLEAN /\ overlapped' \in BOOLEAN
    BY <1>13 DEF PieceFailed, Leave, Forgets
  <2>2. sem' \in [Channels -> BOOLEAN]
    BY <1>13 DEF PieceFailed, Leave, Forgets
  <2>3. status' \in [Transfers -> {"ok", "bad", "back"}]
    BY <1>13 DEF PieceFailed, Leave, Forgets
  <2>4. who' \in Sinks \cup {Stick, None}
    BY <1>13 DEF PieceFailed, Leave, Forgets
  <2>5. at' \in {"out", "clear", "submit", "wait", "expired"}
    BY <1>13 DEF PieceFailed, Leave, Forgets
  <2>6. pc' \in {"find", "claim", "start", "list", "init", "request", "probe", "up",
             "mute", "reset", "free"}
    BY <1>13 DEF PieceFailed, Leave, Forgets
  <2>7. UNCHANGED <<plugged, hdl, note, oldnote, listed, muted, xfer, cb, token, cdc,
                    lied, overwritten, erred, told, cut>>
    BY <1>13 DEF PieceFailed, Leave, Forgets
  <2> QED
    BY <2>1, <2>2, <2>3, <2>4, <2>5, <2>6, <2>7
<1>14. ASSUME Expires PROVE TypeOK'
  BY <1>14 DEF Expires
<1>15. ASSUME GivesUp PROVE TypeOK'
  <2>1. sent' \in BOOLEAN /\ overlapped' \in BOOLEAN
    BY <1>15 DEF GivesUp, Leave, HandBack
  <2>2. xfer' \in [Transfers -> {"idle", "flight", "done"}]
    BY <1>15 DEF GivesUp, Leave, HandBack
  <2>3. status' \in [Transfers -> {"ok", "bad", "back"}]
    BY <1>15 DEF GivesUp, Leave, HandBack
  <2>4. who' \in Sinks \cup {Stick, None}
    BY <1>15 DEF GivesUp, Leave, HandBack
  <2>5. at' \in {"out", "clear", "submit", "wait", "expired"}
    BY <1>15 DEF GivesUp, Leave, HandBack
  <2>6. pc' \in {"find", "claim", "start", "list", "init", "request", "probe", "up",
             "mute", "reset", "free"}
    BY <1>15 DEF GivesUp, Leave, HandBack
  <2>7. UNCHANGED <<plugged, hdl, note, oldnote, listed, muted, cb, sem, token, cdc,
                    lied, overwritten, erred, told, cut>>
    BY <1>15 DEF GivesUp, Leave, HandBack
  <2> QED
    BY <2>1, <2>2, <2>3, <2>4, <2>5, <2>6, <2>7
<1>16. ASSUME Finds PROVE TypeOK'
  BY <1>16 DEF Finds
<1>17. ASSUME Claims PROVE TypeOK'
  BY <1>17 DEF Claims
<1>18. ASSUME OpenFails PROVE TypeOK'
  BY <1>18 DEF OpenFails, Freed
<1>19. ASSUME Starts PROVE TypeOK'
  BY <1>19 DEF Starts
<1>20. ASSUME Aborts PROVE TypeOK'
  BY <1>20 DEF Aborts, Freed
<1>21. ASSUME Lists PROVE TypeOK'
  BY <1>21 DEF Lists
<1>22. ASSUME Asks PROVE TypeOK'
  <2>1. token' \in BOOLEAN /\ cdc' \in BOOLEAN
    BY <1>22 DEF Asks, Accepted, InitFails
  <2>2. xfer' \in [Transfers -> {"idle", "flight", "done"}]
    BY <1>22 DEF Asks, Accepted, InitFails
  <2>3. pc' \in {"find", "claim", "start", "list", "init", "request", "probe", "up",
             "mute", "reset", "free"}
    BY <1>22 DEF Asks, Accepted, InitFails
  <2>4. UNCHANGED <<plugged, hdl, note, oldnote, listed, muted, status, cb, sem, who,
                    at, sent, overlapped, lied, overwritten, erred, told, cut>>
    BY <1>22 DEF Asks, Accepted, InitFails
  <2> QED
    BY <2>1, <2>2, <2>3, <2>4
<1>23. ASSUME Answered PROVE TypeOK'
  <2>1. token' \in BOOLEAN /\ cdc' \in BOOLEAN
    BY <1>23 DEF Answered, InitFails, Forgets
  <2>2. sem' \in [Channels -> BOOLEAN]
    BY <1>23 DEF Answered, InitFails, Forgets
  <2>3. status' \in [Transfers -> {"ok", "bad", "back"}]
    BY <1>23 DEF Answered, InitFails, Forgets
  <2>4. pc' \in {"find", "claim", "start", "list", "init", "request", "probe", "up",
             "mute", "reset", "free"}
    BY <1>23 DEF Answered, InitFails, Forgets
  <2>5. UNCHANGED <<plugged, hdl, note, oldnote, listed, muted, xfer, cb, who, at,
                    sent, overlapped, lied, overwritten, erred, told, cut>>
    BY <1>23 DEF Answered, InitFails, Forgets
  <2> QED
    BY <2>1, <2>2, <2>3, <2>4, <2>5
<1>24. ASSUME Unanswered PROVE TypeOK'
  <2>1. token' \in BOOLEAN /\ cdc' \in BOOLEAN
    BY <1>24 DEF Unanswered, InitFails
  <2>2. pc' \in {"find", "claim", "start", "list", "init", "request", "probe", "up",
             "mute", "reset", "free"}
    BY <1>24 DEF Unanswered, InitFails
  <2>3. UNCHANGED <<plugged, hdl, note, oldnote, listed, muted, xfer, status, cb, sem,
                    who, at, sent, overlapped, lied, overwritten, erred, told, cut>>
    BY <1>24 DEF Unanswered, InitFails
  <2> QED
    BY <2>1, <2>2, <2>3
<1>25. ASSUME StickEnters PROVE TypeOK'
  BY <1>25 DEF StickEnters, Enter
<1>26. ASSUME Settles PROVE TypeOK'
  BY <1>26 DEF Settles
<1>27. ASSUME TearsDown PROVE TypeOK'
  <2>1. token' \in BOOLEAN /\ cdc' \in BOOLEAN
    BY <1>27 DEF TearsDown
  <2>2. pc' \in {"find", "claim", "start", "list", "init", "request", "probe", "up",
             "mute", "reset", "free"}
    BY <1>27 DEF TearsDown
  <2>3. UNCHANGED <<plugged, hdl, note, oldnote, listed, muted, xfer, status, cb, sem,
                    who, at, sent, overlapped, lied, overwritten, erred, told, cut>>
    BY <1>27 DEF TearsDown
  <2> QED
    BY <2>1, <2>2, <2>3
<1>28. ASSUME Mutes PROVE TypeOK'
  BY <1>28 DEF Mutes
<1>29. ASSUME Resets PROVE TypeOK'
  BY <1>29 DEF Resets, HandBack
<1>30. ASSUME Frees PROVE TypeOK'
  BY <1>30 DEF Frees, Freed, AtRest
<1>31. CASE UNCHANGED vars
  BY <1>31
<1> QED
  BY <1>1, <1>2, <1>3, <1>4, <1>5, <1>6, <1>7, <1>8, <1>9, <1>10, <1>11, <1>12, <1>13, <1>14, <1>15, <1>16, <1>17, <1>18, <1>19, <1>20, <1>21, <1>22, <1>23, <1>24, <1>25, <1>26, <1>27, <1>28, <1>29, <1>30, <1>31 DEF Next, ClientTask, Transmission, StickTask

-----------------------------------------------------------------------------
(* The inductive invariant                                                 *)

\* Where stick_task is says what it has published; nothing is said of a device that is
\* there, and the loss is said once.
Stages ==
  /\ listed <=> pc \in {"init", "request", "probe", "up", "mute", "reset", "free"}
  /\ muted <=> pc \in {"reset", "free"}
  /\ cdc <=> pc \in {"init", "request", "probe", "up"}
  /\ hdl = "none" <=> pc = "find"
  /\ hdl = "open" => plugged
  /\ note => hdl = "gone" /\ ~told
  /\ told => hdl = "gone"
  /\ cut => pc = "find"

\* Nobody uses a handle that is not published yet.
Calls ==
  /\ who = None <=> at = "out"
  /\ who = Stick => pc = "probe"
  /\ pc \in {"find", "claim", "start"} => AtRest
  /\ pc = "list" => who = None

\* A pipe of a device that is there is under way, or its error was told.
Polling ==
  \A p \in Pipes :
    /\ hdl \in {"none", "open"} /\ ~muted => status[p] # "back"
    /\ cb = p => xfer[p] = "idle"
    /\ pc \in {"list", "init", "request", "probe", "up", "mute"} /\ hdl = "open" /\ ~erred
         => xfer[p] # "idle" \/ cb = p

\* Unless transmissions overlap, the OUT transfer is in one place, and its success means
\* that the device has the piece.
OneAtATime ==
  /\ at \in {"out", "clear", "submit"} /\ xfer["out"] = "flight" => overlapped
  /\ at = "submit" /\ ~overlapped => xfer["out"] = "idle" /\ cb # "out" /\ ~sem["out"]
  /\ at = "wait" /\ ~overlapped =>
       /\ sem["out"] => xfer["out"] = "idle" /\ cb # "out"
       /\ cb = "out" => xfer["out"] = "idle"
       /\ xfer["out"] # "flight" /\ status["out"] = "ok" => sent

IInv ==
  /\ TypeOK
  /\ Stages
  /\ ~cut => Calls /\ Polling /\ OneAtATime
  /\ ~lied /\ ~overwritten

LEMMA StagesStep ==
  ASSUME TypeOK, Stages, Calls, ~cut, Next PROVE Stages'
<1> USE CdcAssumption DEF TypeOK, Stages, Calls
<1>1. ASSUME Plugs PROVE Stages'
  BY <1>1 DEF Plugs
<1>2. ASSUME Unplugs PROVE Stages'
  BY <1>2 DEF Unplugs
<1>3. ASSUME ReportsLoss PROVE Stages'
  BY <1>3 DEF ReportsLoss, HandBack
<1>4. ASSUME NEW x \in Transfers, Completes(x) PROVE Stages'
  BY <1>4 DEF Completes
<1>5. ASSUME NEW x \in Transfers, Takes(x) PROVE Stages'
  BY <1>5 DEF Takes
<1>6. ASSUME NEW p \in Pipes, PipeDone(p) PROVE Stages'
  BY <1>6 DEF PipeDone, ErrorTold, Accepted
<1>7. ASSUME NEW c \in Channels, ChannelDone(c) PROVE Stages'
  BY <1>7 DEF ChannelDone, Forgets, Awaited
<1>8. ASSUME NEW mine \in BOOLEAN, TakesNote(mine) PROVE Stages'
  BY <1>8 DEF TakesNote, Tells
<1>9. ASSUME NEW t \in Sinks, Enter(t) PROVE Stages'
  BY <1>9 DEF Enter
<1>10. ASSUME Clears PROVE Stages'
  BY <1>10 DEF Clears, Overlap
<1>11. ASSUME Submits PROVE Stages'
  BY <1>11 DEF Submits, Accepted, Leave
<1>12. ASSUME PieceDone PROVE Stages'
  BY <1>12 DEF PieceDone, Leave, Forgets
<1>13. ASSUME PieceFailed PROVE Stages'
  BY <1>13 DEF PieceFailed, Leave, Forgets
<1>14. ASSUME Expires PROVE Stages'
  BY <1>14 DEF Expires
<1>15. ASSUME GivesUp PROVE Stages'
  BY <1>15 DEF GivesUp, Leave, HandBack
<1>16. ASSUME Finds PROVE Stages'
  BY <1>16 DEF Finds
<1>17. ASSUME Claims PROVE Stages'
  BY <1>17 DEF Claims
<1>18. ASSUME OpenFails PROVE Stages'
  BY <1>18 DEF OpenFails, Freed
<1>19. ASSUME Starts PROVE Stages'
  BY <1>19 DEF Starts
<1>20. ASSUME Aborts PROVE Stages'
  BY <1>20 DEF Aborts, Freed
<1>21. ASSUME Lists PROVE Stages'
  BY <1>21 DEF Lists
<1>22. ASSUME Asks PROVE Stages'
  BY <1>22 DEF Asks, Accepted, InitFails
<1>23. ASSUME Answered PROVE Stages'
  <2>1. UNCHANGED <<plugged, hdl, note, listed, muted, told>>
    BY <1>23 DEF Answered
  <2>2. CASE pc' \in {"init", "probe"} /\ UNCHANGED cdc
    BY <1>23, <2>1, <2>2 DEF Answered
  <2>3. CASE InitFails
    BY <1>23, <2>1, <2>3 DEF Answered, InitFails
  <2> QED
    BY <1>23, <2>2, <2>3 DEF Answered
<1>24. ASSUME Unanswered PROVE Stages'
  BY <1>24 DEF Unanswered, InitFails
<1>25. ASSUME StickEnters PROVE Stages'
  BY <1>25 DEF StickEnters, Enter
<1>26. ASSUME Settles PROVE Stages'
  BY <1>26 DEF Settles
<1>27. ASSUME TearsDown PROVE Stages'
  BY <1>27 DEF TearsDown
<1>28. ASSUME Mutes PROVE Stages'
  BY <1>28 DEF Mutes
<1>29. ASSUME Resets PROVE Stages'
  BY <1>29 DEF Resets, HandBack
<1>30. ASSUME Frees PROVE Stages'
  BY <1>30 DEF Frees, Freed, AtRest
<1> QED
  BY <1>1, <1>2, <1>3, <1>4, <1>5, <1>6, <1>7, <1>8, <1>9, <1>10, <1>11, <1>12, <1>13, <1>14, <1>15, <1>16, <1>17, <1>18, <1>19, <1>20, <1>21, <1>22, <1>23, <1>24, <1>25, <1>26, <1>27, <1>28, <1>29, <1>30
  DEF Next, ClientTask, Transmission, StickTask

LEMMA CallsStep ==
  ASSUME TypeOK, Stages, Calls, ~cut, Next PROVE ~cut' => Calls'
<1> USE CdcAssumption DEF TypeOK, Stages, Calls, AtRest
<1>1. ASSUME Plugs PROVE ~cut' => Calls'
  BY <1>1 DEF Plugs
<1>2. ASSUME Unplugs PROVE ~cut' => Calls'
  BY <1>2 DEF Unplugs
<1>3. ASSUME ReportsLoss PROVE ~cut' => Calls'
  BY <1>3 DEF ReportsLoss, HandBack
<1>4. ASSUME NEW x \in Transfers, Completes(x) PROVE ~cut' => Calls'
  BY <1>4 DEF Completes
<1>5. ASSUME NEW x \in Transfers, Takes(x) PROVE ~cut' => Calls'
  BY <1>5 DEF Takes
<1>6. ASSUME NEW p \in Pipes, PipeDone(p) PROVE ~cut' => Calls'
  BY <1>6 DEF PipeDone, ErrorTold, Accepted
<1>7. ASSUME NEW c \in Channels, ChannelDone(c) PROVE ~cut' => Calls'
  BY <1>7 DEF ChannelDone, Forgets, Awaited
<1>8. ASSUME NEW mine \in BOOLEAN, TakesNote(mine) PROVE ~cut' => Calls'
  BY <1>8 DEF TakesNote, Tells
<1>9. ASSUME NEW t \in Sinks, Enter(t) PROVE ~cut' => Calls'
  BY <1>9 DEF Enter
<1>10. ASSUME Clears PROVE ~cut' => Calls'
  BY <1>10 DEF Clears, Overlap
<1>11. ASSUME Submits PROVE ~cut' => Calls'
  BY <1>11 DEF Submits, Accepted, Leave
<1>12. ASSUME PieceDone PROVE ~cut' => Calls'
  BY <1>12 DEF PieceDone, Leave, Forgets
<1>13. ASSUME PieceFailed PROVE ~cut' => Calls'
  BY <1>13 DEF PieceFailed, Leave, Forgets
<1>14. ASSUME Expires PROVE ~cut' => Calls'
  BY <1>14 DEF Expires
<1>15. ASSUME GivesUp PROVE ~cut' => Calls'
  BY <1>15 DEF GivesUp, Leave, HandBack
<1>16. ASSUME Finds PROVE ~cut' => Calls'
  BY <1>16 DEF Finds
<1>17. ASSUME Claims PROVE ~cut' => Calls'
  BY <1>17 DEF Claims
<1>18. ASSUME OpenFails PROVE ~cut' => Calls'
  BY <1>18 DEF OpenFails, Freed
<1>19. ASSUME Starts PROVE ~cut' => Calls'
  BY <1>19 DEF Starts
<1>20. ASSUME Aborts PROVE ~cut' => Calls'
  BY <1>20 DEF Aborts, Freed
<1>21. ASSUME Lists PROVE ~cut' => Calls'
  BY <1>21 DEF Lists
<1>22. ASSUME Asks PROVE ~cut' => Calls'
  BY <1>22 DEF Asks, Accepted, InitFails
<1>23. ASSUME Answered PROVE ~cut' => Calls'
  BY <1>23 DEF Answered, InitFails, Forgets
<1>24. ASSUME Unanswered PROVE ~cut' => Calls'
  BY <1>24 DEF Unanswered, InitFails
<1>25. ASSUME StickEnters PROVE ~cut' => Calls'
  BY <1>25 DEF StickEnters, Enter
<1>26. ASSUME Settles PROVE ~cut' => Calls'
  BY <1>26 DEF Settles
<1>27. ASSUME TearsDown PROVE ~cut' => Calls'
  BY <1>27 DEF TearsDown
<1>28. ASSUME Mutes PROVE ~cut' => Calls'
  BY <1>28 DEF Mutes
<1>29. ASSUME Resets PROVE ~cut' => Calls'
  BY <1>29 DEF Resets, HandBack
<1>30. ASSUME Frees PROVE ~cut' => Calls'
  BY <1>30 DEF Frees, Freed, AtRest
<1> QED
  BY <1>1, <1>2, <1>3, <1>4, <1>5, <1>6, <1>7, <1>8, <1>9, <1>10, <1>11, <1>12, <1>13, <1>14, <1>15, <1>16, <1>17, <1>18, <1>19, <1>20, <1>21, <1>22, <1>23, <1>24, <1>25, <1>26, <1>27, <1>28, <1>29, <1>30
  DEF Next, ClientTask, Transmission, StickTask

LEMMA PollingStep ==
  ASSUME TypeOK, Stages, Calls, Polling, ~cut, Next PROVE ~cut' => Polling'
<1> USE CdcAssumption DEF TypeOK, Stages, Calls, AtRest, Polling
<1>1. ASSUME Plugs PROVE ~cut' => Polling'
  BY <1>1 DEF Plugs
<1>2. ASSUME Unplugs PROVE ~cut' => Polling'
  BY <1>2 DEF Unplugs
<1>3. ASSUME ReportsLoss PROVE ~cut' => Polling'
  BY <1>3 DEF ReportsLoss, HandBack
<1>4. ASSUME NEW x \in Transfers, Completes(x) PROVE ~cut' => Polling'
  BY <1>4 DEF Completes
<1>5. ASSUME NEW x \in Transfers, Takes(x) PROVE ~cut' => Polling'
  BY <1>5 DEF Takes
<1>6. ASSUME NEW p \in Pipes, PipeDone(p) PROVE ~cut' => Polling'
  BY <1>6 DEF PipeDone, ErrorTold, Accepted
<1>7. ASSUME NEW c \in Channels, ChannelDone(c) PROVE ~cut' => Polling'
  BY <1>7 DEF ChannelDone, Forgets, Awaited
<1>8. ASSUME NEW mine \in BOOLEAN, TakesNote(mine) PROVE ~cut' => Polling'
  BY <1>8 DEF TakesNote, Tells
<1>9. ASSUME NEW t \in Sinks, Enter(t) PROVE ~cut' => Polling'
  BY <1>9 DEF Enter
<1>10. ASSUME Clears PROVE ~cut' => Polling'
  BY <1>10 DEF Clears, Overlap
<1>11. ASSUME Submits PROVE ~cut' => Polling'
  BY <1>11 DEF Submits, Accepted, Leave
<1>12. ASSUME PieceDone PROVE ~cut' => Polling'
  BY <1>12 DEF PieceDone, Leave, Forgets
<1>13. ASSUME PieceFailed PROVE ~cut' => Polling'
  BY <1>13 DEF PieceFailed, Leave, Forgets
<1>14. ASSUME Expires PROVE ~cut' => Polling'
  BY <1>14 DEF Expires
<1>15. ASSUME GivesUp PROVE ~cut' => Polling'
  BY <1>15 DEF GivesUp, Leave, HandBack
<1>16. ASSUME Finds PROVE ~cut' => Polling'
  BY <1>16 DEF Finds
<1>17. ASSUME Claims PROVE ~cut' => Polling'
  BY <1>17 DEF Claims
<1>18. ASSUME OpenFails PROVE ~cut' => Polling'
  BY <1>18 DEF OpenFails, Freed
<1>19. ASSUME Starts PROVE ~cut' => Polling'
  BY <1>19 DEF Starts
<1>20. ASSUME Aborts PROVE ~cut' => Polling'
  BY <1>20 DEF Aborts, Freed
<1>21. ASSUME Lists PROVE ~cut' => Polling'
  BY <1>21 DEF Lists
<1>22. ASSUME Asks PROVE ~cut' => Polling'
  BY <1>22 DEF Asks, Accepted, InitFails
<1>23. ASSUME Answered PROVE ~cut' => Polling'
  BY <1>23 DEF Answered, InitFails, Forgets
<1>24. ASSUME Unanswered PROVE ~cut' => Polling'
  BY <1>24 DEF Unanswered, InitFails
<1>25. ASSUME StickEnters PROVE ~cut' => Polling'
  BY <1>25 DEF StickEnters, Enter
<1>26. ASSUME Settles PROVE ~cut' => Polling'
  BY <1>26 DEF Settles
<1>27. ASSUME TearsDown PROVE ~cut' => Polling'
  BY <1>27 DEF TearsDown
<1>28. ASSUME Mutes PROVE ~cut' => Polling'
  BY <1>28 DEF Mutes
<1>29. ASSUME Resets PROVE ~cut' => Polling'
  BY <1>29 DEF Resets, HandBack
<1>30. ASSUME Frees PROVE ~cut' => Polling'
  BY <1>30 DEF Frees, Freed, AtRest
<1> QED
  BY <1>1, <1>2, <1>3, <1>4, <1>5, <1>6, <1>7, <1>8, <1>9, <1>10, <1>11, <1>12, <1>13, <1>14, <1>15, <1>16, <1>17, <1>18, <1>19, <1>20, <1>21, <1>22, <1>23, <1>24, <1>25, <1>26, <1>27, <1>28, <1>29, <1>30
  DEF Next, ClientTask, Transmission, StickTask

LEMMA OneAtATimeStep ==
  ASSUME TypeOK, Stages, Calls, OneAtATime, ~cut, Next PROVE ~cut' => OneAtATime'
<1> USE CdcAssumption DEF TypeOK, Stages, Calls, AtRest, OneAtATime
<1>1. ASSUME Plugs PROVE ~cut' => OneAtATime'
  BY <1>1 DEF Plugs
<1>2. ASSUME Unplugs PROVE ~cut' => OneAtATime'
  BY <1>2 DEF Unplugs
<1>3. ASSUME ReportsLoss PROVE ~cut' => OneAtATime'
  BY <1>3 DEF ReportsLoss, HandBack
<1>4. ASSUME NEW x \in Transfers, Completes(x) PROVE ~cut' => OneAtATime'
  BY <1>4 DEF Completes
<1>5. ASSUME NEW x \in Transfers, Takes(x) PROVE ~cut' => OneAtATime'
  BY <1>5 DEF Takes
<1>6. ASSUME NEW p \in Pipes, PipeDone(p) PROVE ~cut' => OneAtATime'
  BY <1>6 DEF PipeDone, ErrorTold, Accepted
<1>7. ASSUME NEW c \in Channels, ChannelDone(c) PROVE ~cut' => OneAtATime'
  BY <1>7 DEF ChannelDone, Forgets, Awaited
<1>8. ASSUME NEW mine \in BOOLEAN, TakesNote(mine) PROVE ~cut' => OneAtATime'
  BY <1>8 DEF TakesNote, Tells
<1>9. ASSUME NEW t \in Sinks, Enter(t) PROVE ~cut' => OneAtATime'
  BY <1>9 DEF Enter
<1>10. ASSUME Clears PROVE ~cut' => OneAtATime'
  BY <1>10 DEF Clears, Overlap
<1>11. ASSUME Submits PROVE ~cut' => OneAtATime'
  BY <1>11 DEF Submits, Accepted, Leave
<1>12. ASSUME PieceDone PROVE ~cut' => OneAtATime'
  BY <1>12 DEF PieceDone, Leave, Forgets
<1>13. ASSUME PieceFailed PROVE ~cut' => OneAtATime'
  BY <1>13 DEF PieceFailed, Leave, Forgets
<1>14. ASSUME Expires PROVE ~cut' => OneAtATime'
  BY <1>14 DEF Expires
<1>15. ASSUME GivesUp PROVE ~cut' => OneAtATime'
  BY <1>15 DEF GivesUp, Leave, HandBack
<1>16. ASSUME Finds PROVE ~cut' => OneAtATime'
  BY <1>16 DEF Finds
<1>17. ASSUME Claims PROVE ~cut' => OneAtATime'
  BY <1>17 DEF Claims
<1>18. ASSUME OpenFails PROVE ~cut' => OneAtATime'
  BY <1>18 DEF OpenFails, Freed
<1>19. ASSUME Starts PROVE ~cut' => OneAtATime'
  BY <1>19 DEF Starts
<1>20. ASSUME Aborts PROVE ~cut' => OneAtATime'
  BY <1>20 DEF Aborts, Freed
<1>21. ASSUME Lists PROVE ~cut' => OneAtATime'
  BY <1>21 DEF Lists
<1>22. ASSUME Asks PROVE ~cut' => OneAtATime'
  BY <1>22 DEF Asks, Accepted, InitFails
<1>23. ASSUME Answered PROVE ~cut' => OneAtATime'
  BY <1>23 DEF Answered, InitFails, Forgets
<1>24. ASSUME Unanswered PROVE ~cut' => OneAtATime'
  BY <1>24 DEF Unanswered, InitFails
<1>25. ASSUME StickEnters PROVE ~cut' => OneAtATime'
  BY <1>25 DEF StickEnters, Enter
<1>26. ASSUME Settles PROVE ~cut' => OneAtATime'
  BY <1>26 DEF Settles
<1>27. ASSUME TearsDown PROVE ~cut' => OneAtATime'
  BY <1>27 DEF TearsDown
<1>28. ASSUME Mutes PROVE ~cut' => OneAtATime'
  BY <1>28 DEF Mutes
<1>29. ASSUME Resets PROVE ~cut' => OneAtATime'
  BY <1>29 DEF Resets, HandBack
<1>30. ASSUME Frees PROVE ~cut' => OneAtATime'
  BY <1>30 DEF Frees, Freed, AtRest
<1> QED
  BY <1>1, <1>2, <1>3, <1>4, <1>5, <1>6, <1>7, <1>8, <1>9, <1>10, <1>11, <1>12, <1>13, <1>14, <1>15, <1>16, <1>17, <1>18, <1>19, <1>20, <1>21, <1>22, <1>23, <1>24, <1>25, <1>26, <1>27, <1>28, <1>29, <1>30
  DEF Next, ClientTask, Transmission, StickTask

LEMMA HistoryStep ==
  ASSUME TypeOK, Stages, Calls, OneAtATime, ~lied, ~overwritten, ~cut, Next PROVE ~lied' /\ ~overwritten'
<1> USE CdcAssumption DEF TypeOK, Stages, Calls, OneAtATime
<1>1. ASSUME Plugs PROVE ~lied' /\ ~overwritten'
  BY <1>1 DEF Plugs
<1>2. ASSUME Unplugs PROVE ~lied' /\ ~overwritten'
  BY <1>2 DEF Unplugs
<1>3. ASSUME ReportsLoss PROVE ~lied' /\ ~overwritten'
  BY <1>3 DEF ReportsLoss, HandBack
<1>4. ASSUME NEW x \in Transfers, Completes(x) PROVE ~lied' /\ ~overwritten'
  BY <1>4 DEF Completes
<1>5. ASSUME NEW x \in Transfers, Takes(x) PROVE ~lied' /\ ~overwritten'
  BY <1>5 DEF Takes
<1>6. ASSUME NEW p \in Pipes, PipeDone(p) PROVE ~lied' /\ ~overwritten'
  BY <1>6 DEF PipeDone, ErrorTold, Accepted
<1>7. ASSUME NEW c \in Channels, ChannelDone(c) PROVE ~lied' /\ ~overwritten'
  BY <1>7 DEF ChannelDone, Forgets, Awaited
<1>8. ASSUME NEW mine \in BOOLEAN, TakesNote(mine) PROVE ~lied' /\ ~overwritten'
  BY <1>8 DEF TakesNote, Tells
<1>9. ASSUME NEW t \in Sinks, Enter(t) PROVE ~lied' /\ ~overwritten'
  BY <1>9 DEF Enter
<1>10. ASSUME Clears PROVE ~lied' /\ ~overwritten'
  BY <1>10 DEF Clears, Overlap
<1>11. ASSUME Submits PROVE ~lied' /\ ~overwritten'
  BY <1>11 DEF Submits, Accepted, Leave
<1>12. ASSUME PieceDone PROVE ~lied' /\ ~overwritten'
  BY <1>12 DEF PieceDone, Leave, Forgets
<1>13. ASSUME PieceFailed PROVE ~lied' /\ ~overwritten'
  BY <1>13 DEF PieceFailed, Leave, Forgets
<1>14. ASSUME Expires PROVE ~lied' /\ ~overwritten'
  BY <1>14 DEF Expires
<1>15. ASSUME GivesUp PROVE ~lied' /\ ~overwritten'
  BY <1>15 DEF GivesUp, Leave, HandBack
<1>16. ASSUME Finds PROVE ~lied' /\ ~overwritten'
  BY <1>16 DEF Finds
<1>17. ASSUME Claims PROVE ~lied' /\ ~overwritten'
  BY <1>17 DEF Claims
<1>18. ASSUME OpenFails PROVE ~lied' /\ ~overwritten'
  BY <1>18 DEF OpenFails, Freed
<1>19. ASSUME Starts PROVE ~lied' /\ ~overwritten'
  BY <1>19 DEF Starts
<1>20. ASSUME Aborts PROVE ~lied' /\ ~overwritten'
  BY <1>20 DEF Aborts, Freed
<1>21. ASSUME Lists PROVE ~lied' /\ ~overwritten'
  BY <1>21 DEF Lists
<1>22. ASSUME Asks PROVE ~lied' /\ ~overwritten'
  BY <1>22 DEF Asks, Accepted, InitFails
<1>23. ASSUME Answered PROVE ~lied' /\ ~overwritten'
  BY <1>23 DEF Answered, InitFails, Forgets
<1>24. ASSUME Unanswered PROVE ~lied' /\ ~overwritten'
  BY <1>24 DEF Unanswered, InitFails
<1>25. ASSUME StickEnters PROVE ~lied' /\ ~overwritten'
  BY <1>25 DEF StickEnters, Enter
<1>26. ASSUME Settles PROVE ~lied' /\ ~overwritten'
  BY <1>26 DEF Settles
<1>27. ASSUME TearsDown PROVE ~lied' /\ ~overwritten'
  BY <1>27 DEF TearsDown
<1>28. ASSUME Mutes PROVE ~lied' /\ ~overwritten'
  BY <1>28 DEF Mutes
<1>29. ASSUME Resets PROVE ~lied' /\ ~overwritten'
  BY <1>29 DEF Resets, HandBack
<1>30. ASSUME Frees PROVE ~lied' /\ ~overwritten'
  BY <1>30 DEF Frees, Freed, AtRest
<1> QED
  BY <1>1, <1>2, <1>3, <1>4, <1>5, <1>6, <1>7, <1>8, <1>9, <1>10, <1>11, <1>12, <1>13, <1>14, <1>15, <1>16, <1>17, <1>18, <1>19, <1>20, <1>21, <1>22, <1>23, <1>24, <1>25, <1>26, <1>27, <1>28, <1>29, <1>30
  DEF Next, ClientTask, Transmission, StickTask

LEMMA InvInit == Init => IInv
  BY CdcAssumption DEF Init, IInv, TypeOK, Stages, Calls, Polling, OneAtATime, AtRest

LEMMA InvStep == IInv /\ [Next]_vars => IInv'
<1> SUFFICES ASSUME IInv, [Next]_vars PROVE IInv'
  OBVIOUS
<1>1. TypeOK'
  BY TypeStep DEF IInv
<1>2. CASE Next
  <2>1. ~cut
    BY <1>2 DEF Next
  <2>2. TypeOK /\ Stages /\ Calls /\ Polling /\ OneAtATime /\ ~lied /\ ~overwritten
    BY <2>1 DEF IInv
  <2>3. Stages'
    BY <1>2, <2>1, <2>2, StagesStep
  <2>4. ~cut' => Calls' /\ Polling' /\ OneAtATime'
    BY <1>2, <2>1, <2>2, CallsStep, PollingStep, OneAtATimeStep
  <2>5. ~lied' /\ ~overwritten'
    BY <1>2, <2>1, <2>2, HistoryStep
  <2> QED
    BY <1>1, <2>3, <2>4, <2>5 DEF IInv
<1>3. CASE UNCHANGED vars
  BY <1>1, <1>3 DEF IInv, Stages, Calls, Polling, OneAtATime, AtRest
<1> QED
  BY <1>2, <1>3

THEOREM Invariance == Spec => []IInv
  BY InvInit, InvStep, PTL DEF Spec

-----------------------------------------------------------------------------
(* The properties                                                          *)

\* Every variable keeps to its values.
THEOREM TypeCorrect == Spec => []TypeOK
<1>1. IInv => TypeOK
  BY DEF IInv
<1> QED
  BY <1>1, Invariance, PTL

\* For any number of pipes and of senders: a piece that counts as sent was sent.
THEOREM OkIsSent == Spec => []OkMeansSent
<1>1. IInv => OkMeansSent
  BY DEF IInv, OkMeansSent
<1> QED
  BY <1>1, Invariance, PTL

\* ... the OUT buffer is left alone while the bus reads it,
THEOREM BufferStaysStill == Spec => []BufferIsStill
<1>1. IInv => BufferIsStill
  BY DEF IInv, BufferIsStill
<1> QED
  BY <1>1, Invariance, PTL

\* ... and a pipe that is no longer polled has had its error told.
THEOREM NeverDeafInSilence == Spec => []PolledOrTold
<1>1. IInv => PolledOrTold
  BY DEF IInv, PolledOrTold, Polling, Stages
<1> QED
  BY <1>1, Invariance, PTL

\* The loss of a device that has accepted the CP210x's first request reaches the owner: the
\* message that names the handle is queued, or the token has been given.  In an earlier
\* stage it is not told at all (OpensGone of SourceUsb), and a request that fails ends the
\* session instead.
LossReaches == pc \in {"request", "probe", "up"} /\ hdl = "gone" => note \/ token

LEMMA LossReachesStep ==
  ASSUME TypeOK, Stages, Calls, ~cut, LossReaches, Next PROVE LossReaches'
<1> USE DEF Stages, Calls, LossReaches
<1>1. ASSUME Plugs PROVE LossReaches'
  BY <1>1 DEF Plugs
<1>2. ASSUME Unplugs PROVE LossReaches'
  BY <1>2 DEF Unplugs
<1>3. ASSUME ReportsLoss PROVE LossReaches'
  BY <1>3 DEF ReportsLoss, HandBack
<1>4. ASSUME NEW x \in Transfers, Completes(x) PROVE LossReaches'
  BY <1>4 DEF Completes
<1>5. ASSUME NEW x \in Transfers, Takes(x) PROVE LossReaches'
  BY <1>5 DEF Takes
<1>6. ASSUME NEW p \in Pipes, PipeDone(p) PROVE LossReaches'
  BY <1>6 DEF PipeDone
<1>7. ASSUME NEW c \in Channels, ChannelDone(c) PROVE LossReaches'
  BY <1>7 DEF ChannelDone, Forgets, Awaited
<1>8. ASSUME NEW mine \in BOOLEAN, TakesNote(mine) PROVE LossReaches'
  BY <1>8 DEF TakesNote, Tells
<1>9. ASSUME NEW t \in Sinks, Enter(t) PROVE LossReaches'
  BY <1>9 DEF Enter
<1>10. ASSUME Transmission PROVE LossReaches'
  BY <1>10 DEF Transmission, Clears, Submits, PieceDone, PieceFailed, Expires, GivesUp, Leave
<1>11. ASSUME Finds \/ Claims \/ OpenFails \/ Starts \/ Aborts \/ Lists PROVE LossReaches'
  BY <1>11 DEF Finds, Claims, OpenFails, Starts, Aborts, Lists, Freed
<1>12. ASSUME Asks PROVE LossReaches'
  BY <1>12 DEF Asks, Accepted, InitFails
<1>13. ASSUME Answered PROVE LossReaches'
  <2>1. pc = "request" /\ UNCHANGED <<hdl, note>>
    BY <1>13, Zenon DEF Answered
  <2>2. token' = token \/ pc' = "mute"
    BY <1>13, Zenon DEF Answered, InitFails
  <2> QED
    BY <2>1, <2>2
<1>14. ASSUME Unanswered PROVE LossReaches'
  BY <1>14 DEF Unanswered, InitFails
<1>15. ASSUME StickEnters \/ Settles PROVE LossReaches'
  BY <1>15 DEF StickEnters, Enter, Settles
<1>16. ASSUME TearsDown \/ Mutes \/ Resets \/ Frees PROVE LossReaches'
  BY <1>16 DEF TearsDown, Mutes, Resets, HandBack, Frees, Freed
<1> QED
  BY <1>1, <1>2, <1>3, <1>4, <1>5, <1>6, <1>7, <1>8, <1>9, <1>10, <1>11, <1>12, <1>13, <1>14, <1>15, <1>16
  DEF Next, ClientTask, StickTask

\* The safety half of GoneIsClosed: whenever stick_task waits in its session for a device
\* that is gone, the message that will wake it is there, or the token is.
THEOREM LossReachesTheOwner == Spec => []LossReaches
<1>1. Init => LossReaches
  BY DEF Init, LossReaches
<1>2. IInv /\ LossReaches /\ [Next]_vars => LossReaches'
  <2>1. CASE Next
    <3>1. Next => ~cut
      BY Zenon DEF Next
    <3> QED BY <2>1, <3>1, LossReachesStep DEF IInv
  <2>2. CASE UNCHANGED vars
    BY <2>2 DEF LossReaches
  <2> QED BY <2>1, <2>2
<1> QED
  BY <1>1, <1>2, Invariance, PTL DEF Spec

\* The driver, as the stick's task uses it, implements UsbLink: the loss of the device
\* of an open handle is told, once, and only when it is lost.
THEOREM Implements == Spec => LinkSpec
<1> USE DEF LinkHandle
<1>1. Init => Link!Init
  BY DEF Init, Link!Init
<1>2. IInv /\ [Next]_vars => [Link!Next]_(Link!vars)
  <2> SUFFICES ASSUME IInv, [Next]_vars PROVE [Link!Next]_(Link!vars)
    OBVIOUS
  <2> USE DEF Link!vars, Link!Next
  <2> USE DEF IInv, TypeOK, Stages
  <2>1. ASSUME Plugs PROVE [Link!Plug]_(Link!vars)
    BY <2>1 DEF Plugs, Link!Plug
  <2>2. ASSUME Unplugs PROVE [Link!Unplug]_(Link!vars)
    BY <2>2 DEF Unplugs, Link!Unplug
  <2>3. ASSUME ReportsLoss PROVE UNCHANGED Link!vars
    BY <2>3 DEF ReportsLoss, HandBack
  <2>4. ASSUME NEW x \in Transfers, Completes(x) PROVE UNCHANGED Link!vars
    BY <2>4 DEF Completes
  <2>5. ASSUME NEW x \in Transfers, Takes(x) PROVE UNCHANGED Link!vars
    BY <2>5 DEF Takes
  <2>6. ASSUME NEW p \in Pipes, PipeDone(p) PROVE UNCHANGED Link!vars
    BY <2>6 DEF PipeDone, ErrorTold, Accepted
  <2>7. ASSUME NEW c \in Channels, ChannelDone(c) PROVE UNCHANGED Link!vars
    BY <2>7 DEF ChannelDone, Forgets, Awaited
  <2>8. ASSUME NEW mine \in BOOLEAN, TakesNote(mine) PROVE [Link!Tell]_(Link!vars)
    BY <2>8 DEF TakesNote, Tells, Link!Tell
  <2>9. ASSUME NEW t \in Sinks, Enter(t) PROVE UNCHANGED Link!vars
    BY <2>9 DEF Enter
  <2>10. ASSUME Clears PROVE UNCHANGED Link!vars
    BY <2>10 DEF Clears, Overlap
  <2>11. ASSUME Submits PROVE UNCHANGED Link!vars
    BY <2>11 DEF Submits, Accepted, Leave
  <2>12. ASSUME PieceDone PROVE UNCHANGED Link!vars
    BY <2>12 DEF PieceDone, Leave, Forgets
  <2>13. ASSUME PieceFailed PROVE UNCHANGED Link!vars
    BY <2>13 DEF PieceFailed, Leave, Forgets
  <2>14. ASSUME Expires PROVE UNCHANGED Link!vars
    BY <2>14 DEF Expires
  <2>15. ASSUME GivesUp PROVE UNCHANGED Link!vars
    BY <2>15 DEF GivesUp, Leave, HandBack
  <2>16. ASSUME Finds PROVE UNCHANGED Link!vars
    BY <2>16 DEF Finds
  <2>17. ASSUME Claims PROVE UNCHANGED Link!vars
    BY <2>17 DEF Claims
  <2>18. ASSUME OpenFails PROVE [Link!Close]_(Link!vars)
    BY <2>18 DEF OpenFails, Freed, Link!Close
  <2>19. ASSUME Starts PROVE UNCHANGED Link!vars
    BY <2>19 DEF Starts
  <2>20. ASSUME Aborts PROVE [Link!Close]_(Link!vars)
    BY <2>20 DEF Aborts, Freed, Link!Close
  <2>21. ASSUME Lists PROVE [Link!Open]_(Link!vars)
    BY <2>21 DEF Lists, Link!Open
  <2>22. ASSUME Asks PROVE UNCHANGED Link!vars
    BY <2>22 DEF Asks, Accepted, InitFails
  <2>23. ASSUME Answered PROVE UNCHANGED Link!vars
    BY <2>23 DEF Answered, InitFails, Forgets
  <2>24. ASSUME Unanswered PROVE UNCHANGED Link!vars
    BY <2>24 DEF Unanswered, InitFails
  <2>25. ASSUME StickEnters PROVE UNCHANGED Link!vars
    BY <2>25 DEF StickEnters, Enter
  <2>26. ASSUME Settles PROVE UNCHANGED Link!vars
    BY <2>26 DEF Settles
  <2>27. ASSUME TearsDown PROVE UNCHANGED Link!vars
    BY <2>27 DEF TearsDown
  <2>28. ASSUME Mutes PROVE [Link!Close]_(Link!vars)
    BY <2>28 DEF Mutes, Link!Close
  <2>29. ASSUME Resets PROVE UNCHANGED Link!vars
    BY <2>29 DEF Resets, HandBack
  <2>30. ASSUME Frees PROVE [Link!Close]_(Link!vars)
    BY <2>30 DEF Frees, Freed, AtRest, Link!Close
  <2>31. CASE UNCHANGED vars
    BY <2>31
  <2> QED
    BY <2>1, <2>2, <2>3, <2>4, <2>5, <2>6, <2>7, <2>8, <2>9, <2>10, <2>11, <2>12, <2>13, <2>14, <2>15, <2>16, <2>17, <2>18, <2>19, <2>20, <2>21, <2>22, <2>23, <2>24, <2>25, <2>26, <2>27, <2>28, <2>29, <2>30, <2>31
    DEF Next, ClientTask, Transmission, StickTask
<1> QED
  BY <1>1, <1>2, Invariance, PTL DEF Spec, LinkSpec, Link!Spec

=============================================================================
