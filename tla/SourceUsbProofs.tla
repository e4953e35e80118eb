--------------------------- MODULE SourceUsbProofs ---------------------------
(* Proofs about SourceUsb, for any senders and any length of the boot queue. *)
EXTENDS SourceUsb, TLAPS

USE UsbAssumption DEF UsbAssumption, device, probe, senders, history

Questions == {"identify", "change"}

\* What is posted is in the queue, and nothing else is new.
LEMMA PostedType ==
  ASSUME q \in Seq(Tags), Len(q) <= QLen, NEW tag, link => tag \in Tags
  PROVE  /\ Posted(tag) \in Seq(Tags) /\ Len(Posted(tag)) <= QLen
         /\ \A i \in 1 .. Len(Posted(tag)) :
              \/ i \in 1 .. Len(q) /\ Posted(tag)[i] = q[i]
              \/ link /\ Posted(tag)[i] = tag
  BY DEF Posted

-----------------------------------------------------------------------------
(* Types.  The device and its links first: who is there when something is  *)
(* posted.                                                                 *)

Linked ==
  /\ link => stick # "absent" /\ ~gone
  /\ pc = "open" => ~link /\ ~gone

AskersHaveIt == pc = "asking" <=> user = Stick

TInv == TypeOK /\ Linked /\ AskersHaveIt

LEMMA LinkedStep == TInv /\ [Next]_vars => Linked'
<1> SUFFICES ASSUME TInv, [Next]_vars  PROVE Linked'
  OBVIOUS
<1> USE DEF TInv, Linked
<1>0. CASE Unplugs
  <2>1. link' = FALSE /\ pc' = pc
    BY <1>0, Zenon DEF Unplugs
  <2>2. ~gone /\ ~link => ~gone'
    BY <1>0, Zenon DEF Unplugs
  <2> QED BY <2>1, <2>2
<1>1. CASE (\E m \in {"bl", "app"} : Plugs(m)) \/ ReportsGone \/ ReportsError
  BY <1>1 DEF Plugs, ReportsGone, ReportsError
<1>2. CASE Answers \/ StaysSilent \/ SaysSomething \/ AnswersSink \/ IgnoresSink
  BY <1>2 DEF Answers, StaysSilent, SaysSomething, AnswersSink, IgnoresSink
<1>3. CASE Opens \/ OpensGone \/ InitOk \/ InitFails
  BY <1>3 DEF Opens, OpensGone, InitOk, InitFails
<1>4. CASE Asks \/ Asked \/ AskFails \/ Gets \/ TimesOut \/ GetsMore
  BY <1>4 DEF Asks, Asked, AskFails, Gets, TimesOut, GetsMore
<1>5. CASE ToVerify \/ ToChange \/ Unclassified \/ BootDone \/ TearsDown \/ Closes
  BY <1>5 DEF ToVerify, ToChange, AsksNext, Unclassified, BootDone, TearsDown, Closes
<1>6. CASE \E t \in Senders : Checks(t) \/ Transmits(t) \/ FindsNoHandle(t) \/ Returns(t)
  BY <1>6 DEF Checks, Transmits, FindsNoHandle, Returns
<1>7. CASE UNCHANGED vars
  BY <1>7 DEF vars
<1> QED BY <1>0, <1>1, <1>2, <1>3, <1>4, <1>5, <1>6, <1>7 DEF Next, StickTask

LEMMA AskersStep == TInv /\ [Next]_vars => AskersHaveIt'
<1> SUFFICES ASSUME TInv, [Next]_vars  PROVE AskersHaveIt'
  OBVIOUS
<1> USE DEF TInv, AskersHaveIt
<1>1. CASE (\E m \in {"bl", "app"} : Plugs(m)) \/ Unplugs \/ ReportsGone \/ ReportsError
  BY <1>1 DEF Plugs, Unplugs, ReportsGone, ReportsError
<1>2. CASE Answers \/ StaysSilent \/ SaysSomething \/ AnswersSink \/ IgnoresSink
  BY <1>2 DEF Answers, StaysSilent, SaysSomething, AnswersSink, IgnoresSink
<1>3. CASE Opens \/ OpensGone \/ InitOk \/ InitFails
  BY <1>3 DEF Opens, OpensGone, InitOk, InitFails
<1>4. CASE Asks \/ Asked \/ AskFails \/ Gets \/ TimesOut \/ GetsMore
  BY <1>4 DEF Asks, Asked, AskFails, Gets, TimesOut, GetsMore
<1>5. CASE ToVerify \/ ToChange \/ Unclassified \/ BootDone \/ TearsDown \/ Closes
  BY <1>5 DEF ToVerify, ToChange, AsksNext, Unclassified, BootDone, TearsDown, Closes
<1>6. CASE \E t \in Senders : Checks(t) \/ Transmits(t) \/ FindsNoHandle(t) \/ Returns(t)
  BY <1>6 DEF Checks, Transmits, FindsNoHandle, Returns
<1>7. CASE UNCHANGED vars
  BY <1>7 DEF vars
<1> QED BY <1>1, <1>2, <1>3, <1>4, <1>5, <1>6, <1>7 DEF Next, StickTask

LEMMA TypeStep == TInv /\ [Next]_vars => TypeOK'
<1> SUFFICES ASSUME TInv, [Next]_vars  PROVE TypeOK'
  OBVIOUS
<1> USE DEF TInv, Linked, TypeOK
<1>0. <<>> \in Seq(Tags) /\ <<>> \in Seq(Questions) /\ Len(<<>>) = 0
  OBVIOUS
<1>1. CASE (\E m \in {"bl", "app"} : Plugs(m)) \/ Unplugs
  <2>2. link' \in BOOLEAN /\ gone' \in BOOLEAN /\ token' \in BOOLEAN /\ cdc' \in BOOLEAN
        /\ ready' \in BOOLEAN /\ verified' \in BOOLEAN /\ faulty' \in BOOLEAN
        /\ crossed' \in BOOLEAN
    BY <1>0, <1>1 DEF Plugs, Unplugs, Questions
  <2>3. stick' \in {"absent", "bl", "app"} /\ pc' \in {"open", "init", "ask", "asking", "wait",
                                                     "extra", "settled", "closing"}
    BY <1>0, <1>1 DEF Plugs, Unplugs, Questions
  <2>4. /\ asked' \in Seq({"identify", "change"}) /\ Len(asked') <= Backlog
        /\ q' \in Seq(Tags) /\ Len(q') <= QLen
    <3>1. asked' \in {asked, <<>>} /\ q' \in {q, <<>>}
      BY <1>1 DEF Plugs, Unplugs
    <3>2. /\ asked \in Seq({"identify", "change"}) /\ Len(asked) <= Backlog
          /\ q \in Seq(Tags) /\ Len(q) <= QLen
      OBVIOUS
    <3>3. 0 <= Backlog /\ 0 <= QLen
      OBVIOUS
    <3> HIDE DEF TypeOK, TInv, UsbAssumption
    <3>4. asked' \in Seq({"identify", "change"}) /\ Len(asked') <= Backlog
      BY <1>0, <3>1, <3>2, <3>3 DEF Questions
    <3>5. q' \in Seq(Tags) /\ Len(q') <= QLen
      BY <1>0, <3>1, <3>2, <3>3
    <3> QED BY <3>4, <3>5
  <2>5. phase' \in {"identify", "change", "verify"} /\ ev' \in Tags
    BY <1>0, <1>1 DEF Plugs, Unplugs, Questions
  <2>6. sender' \in [Senders -> {"idle", "go"}] /\ user' \in Senders \cup {Stick, None}
    BY <1>0, <1>1 DEF Plugs, Unplugs, Questions
  <2>7. stray' \in Nat /\ strays' \in [Senders -> Nat] /\ frames' \in 0 .. Backlog
    BY <1>0, <1>1 DEF Plugs, Unplugs, Questions
  <2> QED BY <2>2, <2>3, <2>4, <2>5, <2>6, <2>7
<1>2. CASE ReportsGone \/ ReportsError
  <2>1. /\ UNCHANGED <<stick, asked, frames, link, cdc, ready, pc, q, phase, ev, sender, user,
                       verified, stray, strays, crossed>>
        /\ gone' \in {gone, FALSE} /\ faulty' \in {faulty, TRUE}
    BY <1>2, Zenon DEF ReportsGone, ReportsError
  <2>2. token' \in BOOLEAN
    BY <1>2 DEF ReportsGone, ReportsError, Given
  <2>3. gone' \in BOOLEAN /\ faulty' \in BOOLEAN
    BY <2>1
  <2>4. /\ stick' \in {"absent", "bl", "app"}
        /\ asked' \in Seq({"identify", "change"}) /\ Len(asked') <= Backlog
        /\ frames' \in 0 .. Backlog
        /\ q' \in Seq(Tags) /\ Len(q') <= QLen
    BY <2>1
  <2>5. /\ link' \in BOOLEAN /\ cdc' \in BOOLEAN /\ ready' \in BOOLEAN
        /\ verified' \in BOOLEAN /\ crossed' \in BOOLEAN
    BY <2>1
  <2>6. /\ pc' \in {"open", "init", "ask", "asking", "wait", "extra", "settled", "closing"}
        /\ phase' \in {"identify", "change", "verify"} /\ ev' \in Tags
        /\ sender' \in [Senders -> {"idle", "go"}] /\ user' \in Senders \cup {Stick, None}
        /\ stray' \in Nat /\ strays' \in [Senders -> Nat]
    BY <2>1
  <2> QED BY <2>2, <2>3, <2>4, <2>5, <2>6
<1>3. CASE Answers
  <2>1. stick' \in {"absent", "bl", "app"} /\ (link => stick' \in Tags)
    BY <1>3 DEF Answers, Tags
  <2>2. q' \in Seq(Tags) /\ Len(q') <= QLen
    <3>1. PICK tag \in Replies(Head(asked), stick') : q' = Posted(tag)
      BY <1>3, Zenon DEF Answers
    <3>2. link => tag \in Tags
      BY <2>1, <3>1 DEF Replies, Tags
    <3> QED BY <3>1, <3>2, PostedType
  <2>3. asked' \in Seq({"identify", "change"}) /\ Len(asked') <= Backlog
    BY <1>3 DEF Answers
  <2> QED BY <1>3, <2>1, <2>2, <2>3 DEF Answers
<1>4. CASE StaysSilent
  BY <1>4 DEF StaysSilent
<1>5. CASE SaysSomething
  <2>1. q' \in Seq(Tags) /\ Len(q') <= QLen
    BY <1>5, PostedType DEF SaysSomething, Says
  <2> QED BY <1>5, <2>1 DEF SaysSomething
<1>15. CASE AnswersSink \/ IgnoresSink
  <2>1. q' \in Seq(Tags) /\ Len(q') <= QLen
    BY <1>15, PostedType DEF AnswersSink, IgnoresSink, Says
  <2>2. frames' \in 0 .. Backlog /\ crossed' \in BOOLEAN
    BY <1>15 DEF AnswersSink, IgnoresSink
  <2>3. UNCHANGED <<stick, asked, link, gone, token, cdc, ready, pc, phase, ev, senders,
                    verified, stray, strays, faulty>>
    BY <1>15, Zenon DEF AnswersSink, IgnoresSink
  <2> QED BY <2>1, <2>2, <2>3
<1>6. CASE Opens \/ OpensGone \/ InitOk \/ InitFails
  <2>2. link' \in BOOLEAN /\ gone' \in BOOLEAN /\ token' \in BOOLEAN /\ cdc' \in BOOLEAN
        /\ ready' \in BOOLEAN /\ verified' \in BOOLEAN /\ faulty' \in BOOLEAN
        /\ crossed' \in BOOLEAN
    BY <1>0, <1>6 DEF Opens, OpensGone, InitOk, InitFails, Questions
  <2>3. stick' \in {"absent", "bl", "app"} /\ pc' \in {"open", "init", "ask", "asking", "wait",
                                                     "extra", "settled", "closing"}
    BY <1>0, <1>6 DEF Opens, OpensGone, InitOk, InitFails, Questions
  <2>4. /\ asked' \in Seq({"identify", "change"}) /\ Len(asked') <= Backlog
        /\ q' \in Seq(Tags) /\ Len(q') <= QLen
    <3>1. asked' \in {asked, <<>>} /\ q' \in {q, <<>>}
      BY <1>6 DEF Opens, OpensGone, InitOk, InitFails
    <3>2. /\ asked \in Seq({"identify", "change"}) /\ Len(asked) <= Backlog
          /\ q \in Seq(Tags) /\ Len(q) <= QLen
      OBVIOUS
    <3>3. 0 <= Backlog /\ 0 <= QLen
      OBVIOUS
    <3> HIDE DEF TypeOK, TInv, UsbAssumption
    <3>4. asked' \in Seq({"identify", "change"}) /\ Len(asked') <= Backlog
      BY <1>0, <3>1, <3>2, <3>3 DEF Questions
    <3>5. q' \in Seq(Tags) /\ Len(q') <= QLen
      BY <1>0, <3>1, <3>2, <3>3
    <3> QED BY <3>4, <3>5
  <2>5. phase' \in {"identify", "change", "verify"} /\ ev' \in Tags
    BY <1>0, <1>6 DEF Opens, OpensGone, InitOk, InitFails, Questions
  <2>6. sender' \in [Senders -> {"idle", "go"}] /\ user' \in Senders \cup {Stick, None}
    BY <1>0, <1>6 DEF Opens, OpensGone, InitOk, InitFails, Questions
  <2>7. stray' \in Nat /\ strays' \in [Senders -> Nat] /\ frames' \in 0 .. Backlog
    BY <1>0, <1>6 DEF Opens, OpensGone, InitOk, InitFails, Questions
  <2> QED BY <2>2, <2>3, <2>4, <2>5, <2>6, <2>7
<1>7. CASE Asks
  BY <1>0, <1>7 DEF Asks
<1>8. CASE Asked
  BY <1>8 DEF Asked
<1>9. CASE AskFails \/ TimesOut
  BY <1>9 DEF AskFails, TimesOut
<1>10. CASE Gets \/ GetsMore
  <2>1. Head(q) \in Tags /\ Tail(q) \in Seq(Tags) /\ Len(Tail(q)) <= QLen
    BY <1>10 DEF Gets, GetsMore
  <2>2. link' \in BOOLEAN /\ gone' \in BOOLEAN /\ token' \in BOOLEAN /\ cdc' \in BOOLEAN
        /\ ready' \in BOOLEAN /\ verified' \in BOOLEAN /\ faulty' \in BOOLEAN
        /\ crossed' \in BOOLEAN
    BY <1>10, <2>1 DEF Gets, GetsMore
  <2>3. stick' \in {"absent", "bl", "app"} /\ pc' \in {"open", "init", "ask", "asking", "wait",
                                                     "extra", "settled", "closing"}
    BY <1>10, <2>1 DEF Gets, GetsMore
  <2>4. /\ asked' \in Seq({"identify", "change"}) /\ Len(asked') <= Backlog
        /\ q' \in Seq(Tags) /\ Len(q') <= QLen
    BY <1>10, <2>1 DEF Gets, GetsMore
  <2>5. phase' \in {"identify", "change", "verify"} /\ ev' \in Tags
    BY <1>10, <2>1 DEF Gets, GetsMore
  <2>6. sender' \in [Senders -> {"idle", "go"}] /\ user' \in Senders \cup {Stick, None}
    BY <1>10, <2>1 DEF Gets, GetsMore
  <2>7. stray' \in Nat /\ strays' \in [Senders -> Nat] /\ frames' \in 0 .. Backlog
    BY <1>10, <2>1 DEF Gets, GetsMore
  <2> QED BY <2>2, <2>3, <2>4, <2>5, <2>6, <2>7
<1>11. CASE ToVerify \/ ToChange \/ Unclassified
  BY <1>11 DEF ToVerify, ToChange, AsksNext, Unclassified
<1>12. CASE BootDone \/ TearsDown \/ Closes
  <2>2. link' \in BOOLEAN /\ gone' \in BOOLEAN /\ token' \in BOOLEAN /\ cdc' \in BOOLEAN
        /\ ready' \in BOOLEAN /\ verified' \in BOOLEAN /\ faulty' \in BOOLEAN
        /\ crossed' \in BOOLEAN
    BY <1>12 DEF BootDone, TearsDown, Closes
  <2>3. stick' \in {"absent", "bl", "app"} /\ pc' \in {"open", "init", "ask", "asking", "wait",
                                                     "extra", "settled", "closing"}
    BY <1>12 DEF BootDone, TearsDown, Closes
  <2>4. /\ asked' \in Seq({"identify", "change"}) /\ Len(asked') <= Backlog
        /\ q' \in Seq(Tags) /\ Len(q') <= QLen
    BY <1>12 DEF BootDone, TearsDown, Closes
  <2>5. phase' \in {"identify", "change", "verify"} /\ ev' \in Tags
    BY <1>12 DEF BootDone, TearsDown, Closes
  <2>6. sender' \in [Senders -> {"idle", "go"}] /\ user' \in Senders \cup {Stick, None}
    BY <1>12 DEF BootDone, TearsDown, Closes
  <2>7. stray' \in Nat /\ strays' \in [Senders -> Nat] /\ frames' \in 0 .. Backlog
    BY <1>12 DEF BootDone, TearsDown, Closes
  <2> QED BY <2>2, <2>3, <2>4, <2>5, <2>6, <2>7
<1>13. CASE \E t \in Senders : Checks(t) \/ Transmits(t) \/ FindsNoHandle(t) \/ Returns(t)
  <2>2. link' \in BOOLEAN /\ gone' \in BOOLEAN /\ token' \in BOOLEAN /\ cdc' \in BOOLEAN
        /\ ready' \in BOOLEAN /\ verified' \in BOOLEAN /\ faulty' \in BOOLEAN
        /\ crossed' \in BOOLEAN
    BY <1>13 DEF Checks, Transmits, FindsNoHandle, Returns
  <2>3. stick' \in {"absent", "bl", "app"} /\ pc' \in {"open", "init", "ask", "asking", "wait",
                                                     "extra", "settled", "closing"}
    BY <1>13 DEF Checks, Transmits, FindsNoHandle, Returns
  <2>4. /\ asked' \in Seq({"identify", "change"}) /\ Len(asked') <= Backlog
        /\ q' \in Seq(Tags) /\ Len(q') <= QLen
    BY <1>13 DEF Checks, Transmits, FindsNoHandle, Returns
  <2>5. phase' \in {"identify", "change", "verify"} /\ ev' \in Tags
    BY <1>13 DEF Checks, Transmits, FindsNoHandle, Returns
  <2>6. sender' \in [Senders -> {"idle", "go"}] /\ user' \in Senders \cup {Stick, None}
    BY <1>13 DEF Checks, Transmits, FindsNoHandle, Returns
  <2>7. stray' \in Nat /\ strays' \in [Senders -> Nat] /\ frames' \in 0 .. Backlog
    <3>1. /\ stray' = stray
          /\ \/ strays' = strays
             \/ \E t \in Senders : strays' = [strays EXCEPT ![t] = @ + 1]
      BY <1>13, Zenon DEF Checks, Transmits, FindsNoHandle, Returns
    <3>2. frames' = frames \/ (frames < Backlog /\ frames' = frames + 1)
      BY <1>13 DEF Checks, Transmits, FindsNoHandle, Returns
    <3> QED BY <3>1, <3>2
  <2> QED BY <2>2, <2>3, <2>4, <2>5, <2>6, <2>7
<1>14. CASE UNCHANGED vars
  BY <1>14 DEF vars
<1> QED BY <1>1, <1>2, <1>3, <1>4, <1>5, <1>6, <1>7, <1>8, <1>9, <1>10, <1>11, <1>12, <1>13,
           <1>14, <1>15 DEF Next, StickTask

LEMMA TInvHolds == Spec => []TInv
<1>1. <<>> \in Seq(Tags) /\ <<>> \in Seq({"identify", "change"}) /\ Len(<<>>) = 0
  OBVIOUS
<1>2. Init => TInv
  <2>1. Init => Linked /\ AskersHaveIt
    BY DEF Init, Linked, AskersHaveIt
  <2>2. Init => TypeOK
    <3> SUFFICES ASSUME Init  PROVE TypeOK
      OBVIOUS
    <3>1. /\ stick \in {"absent", "bl", "app"}
          /\ asked \in Seq({"identify", "change"}) /\ Len(asked) <= Backlog
          /\ q \in Seq(Tags) /\ Len(q) <= QLen
      BY <1>1 DEF Init
    <3>2. /\ link \in BOOLEAN /\ gone \in BOOLEAN /\ token \in BOOLEAN
          /\ cdc \in BOOLEAN /\ ready \in BOOLEAN
          /\ verified \in BOOLEAN /\ faulty \in BOOLEAN
          /\ crossed \in BOOLEAN
      BY DEF Init
    <3>3. /\ pc = "open" /\ phase = "identify" /\ ev \in Tags
          /\ sender \in [Senders -> {"idle", "go"}] /\ user = None
          /\ stray \in Nat /\ strays \in [Senders -> Nat] /\ frames \in 0 .. Backlog
      BY DEF Init, Tags
    <3> QED BY <3>1, <3>2, <3>3 DEF TypeOK
  <2> QED BY <2>1, <2>2 DEF TInv
<1> QED BY <1>2, TypeStep, LinkedStep, AskersStep, PTL DEF Spec, TInv

\* SourceUsb's type invariant; the boot queue and the semaphore stay within their limits.
THEOREM TypeCorrect == Spec => []TypeOK
<1>1. TInv => TypeOK
  BY DEF TInv
<1> QED BY <1>1, TInvHolds, PTL

-----------------------------------------------------------------------------
(* Stray teardowns.  A token left over is spent on the first, and none can *)
(* come from a handle that is linked or no longer listed.                  *)

SInv == stray \in {0, 1} /\ (stray = 1 => ~token /\ ~gone)

\* A session is ended in spite of its stick at most once after each unplugging: the
\* semaphore is binary, and closing a handle ends its reports.
THEOREM StrayTeardowns == Spec => []AtMostOneStrayTeardown
<1>1. Init => SInv
  BY DEF Init, SInv
<1>2. TInv /\ SInv /\ [Next]_vars => SInv'
  <2> SUFFICES ASSUME TInv, SInv, [Next]_vars  PROVE SInv'
    OBVIOUS
  <2> USE DEF TInv, Linked, SInv
  <2>1. CASE Unplugs \/ OpensGone
    BY <2>1 DEF Unplugs, OpensGone
  <2>2. CASE ReportsGone \/ ReportsError
    <3>1. CASE ReportsGone
      <4>1. stray' = stray /\ gone
        BY <3>1, Zenon DEF ReportsGone
      <4> QED BY <4>1
    <3>2. CASE ReportsError
      <4>1. UNCHANGED <<stray, gone>>
        BY <3>2, Zenon DEF ReportsError
      <4>2. token' => token
        BY <3>2 DEF ReportsError, Given
      <4> QED BY <4>1, <4>2
    <3> QED BY <2>2, <3>1, <3>2
  <2>3. CASE TearsDown
    BY <2>3 DEF TearsDown
  <2>4. CASE UNCHANGED <<stray, token>> /\ (gone' => gone)
    BY <2>4
  <2>5. CASE \/ \E m \in {"bl", "app"} : Plugs(m)
             \/ Answers \/ StaysSilent \/ SaysSomething \/ AnswersSink \/ IgnoresSink
    <3>1. UNCHANGED <<stray, token, gone>>
      BY <2>5, Zenon DEF Plugs, Answers, StaysSilent, SaysSomething, AnswersSink, IgnoresSink
    <3> QED BY <2>4, <3>1
  <2>6. CASE Opens \/ InitOk \/ InitFails \/ Asks \/ Asked \/ AskFails
    BY <2>4, <2>6 DEF Opens, InitOk, InitFails, Asks, Asked, AskFails
  <2>7. CASE Gets \/ TimesOut \/ GetsMore \/ ToVerify \/ ToChange \/ Unclassified
    BY <2>4, <2>7 DEF Gets, TimesOut, GetsMore, ToVerify, ToChange, AsksNext, Unclassified
  <2>8. CASE BootDone \/ Closes
    BY <2>4, <2>8 DEF BootDone, Closes
  <2>9. CASE \E t \in Senders : Checks(t) \/ Transmits(t) \/ FindsNoHandle(t) \/ Returns(t)
    BY <2>4, <2>9 DEF Checks, Transmits, FindsNoHandle, Returns
  <2>10. CASE UNCHANGED vars
    BY <2>4, <2>10 DEF vars
  <2> QED BY <2>1, <2>2, <2>3, <2>5, <2>6, <2>7, <2>8, <2>9, <2>10 DEF Next, StickTask
<1>3. SInv => AtMostOneStrayTeardown
  BY DEF SInv, AtMostOneStrayTeardown
<1> QED BY <1>1, <1>2, <1>3, TInvHolds, PTL DEF Spec

-----------------------------------------------------------------------------
(* Stray frames.  Who has had one in a session that is not verified is     *)
(* still in it or has to look at `ready' again.                            *)

ReadyIsVerified == ready => verified
UserIsOnItsWay  == \A t \in Senders : user = t => sender[t] = "go"
NoneOrOne       == \A t \in Senders : strays[t] \in {0, 1}
OneIsUnverified == \A t \in Senders : strays[t] = 1 => verified = FALSE
OneIsTheLast    == \A t \in Senders : strays[t] = 1 /\ sender[t] = "go" => user = t

FInv ==
  /\ ReadyIsVerified
  /\ UserIsOnItsWay /\ NoneOrOne /\ OneIsUnverified /\ OneIsTheLast

\* A task that transmits to a stick that is not probed yet does so once.
THEOREM StrayFrames == Spec => []AtMostOneStrayFrame
<1>1. Init => FInv
  BY DEF Init, FInv, ReadyIsVerified, UserIsOnItsWay, NoneOrOne, OneIsUnverified,
         OneIsTheLast
<1>2. TInv /\ FInv /\ [Next]_vars => FInv'
  <2> SUFFICES ASSUME TInv, FInv, [Next]_vars  PROVE FInv'
    OBVIOUS
  <2> USE DEF FInv
  <2>0. user \in Senders \cup {Stick, None} /\ sender \in [Senders -> {"idle", "go"}]
        /\ strays \in [Senders -> Nat] /\ ready \in BOOLEAN /\ verified \in BOOLEAN
    BY DEF TInv, TypeOK
  <2>1. ASSUME NEW t \in Senders, Checks(t)  PROVE FInv'
    <3>1. ready /\ UNCHANGED <<ready, verified, user, strays>>
          /\ sender' = [sender EXCEPT ![t] = "go"]
      BY <2>1, Zenon DEF Checks
    <3>2. verified = TRUE
      BY <2>0, <3>1, Zenon DEF ReadyIsVerified
    <3>3. \A s \in Senders : strays[s] # 1
      BY <3>2, Zenon DEF OneIsUnverified
    <3>4. ReadyIsVerified'
      BY <3>1, Zenon DEF ReadyIsVerified
    <3>5. UserIsOnItsWay' /\ NoneOrOne' /\ OneIsUnverified' /\ OneIsTheLast'
      BY <2>0, <3>1, <3>3 DEF UserIsOnItsWay, NoneOrOne, OneIsUnverified, OneIsTheLast
    <3> QED BY <3>4, <3>5
  <2>2. ASSUME NEW t \in Senders, Transmits(t)  PROVE FInv'
    <3>1. /\ sender[t] = "go" /\ user = None /\ user' = t
          /\ UNCHANGED <<ready, verified, sender>>
      BY <2>2, Zenon DEF Transmits
    <3>2. /\ ReadyIsVerified'
          /\ UserIsOnItsWay'
      BY <3>1, Zenon DEF ReadyIsVerified, UserIsOnItsWay
    <3>3. strays[t] = 0
      BY <3>1 DEF NoneOrOne, OneIsTheLast
    <3>4. CASE verified
      <4>1. strays' = strays
        BY <2>2, <3>4, Zenon DEF Transmits
      <4> QED BY <3>1, <3>2, <3>3, <4>1 DEF NoneOrOne, OneIsUnverified, OneIsTheLast
    <3>5. CASE ~verified
      <4>1. strays' = [strays EXCEPT ![t] = @ + 1]
        BY <2>2, <3>5, Zenon DEF Transmits
      <4>2. verified = FALSE
        BY <2>0, <3>5
      <4>3. strays'[t] = 1 /\ \A s \in Senders \ {t} : strays'[s] = strays[s]
        BY <2>0, <3>3, <4>1
      <4>4. NoneOrOne' /\ OneIsUnverified' /\ OneIsTheLast'
        BY <3>1, <4>2, <4>3 DEF NoneOrOne, OneIsUnverified, OneIsTheLast
      <4> QED BY <3>2, <4>4
    <3> QED BY <3>4, <3>5
  <2>3. ASSUME NEW t \in Senders, FindsNoHandle(t) \/ Returns(t)  PROVE FInv'
    <3>1. UNCHANGED <<ready, verified, strays>>
      BY <2>3, Zenon DEF FindsNoHandle, Returns
    <3>2. ReadyIsVerified'
      BY <3>1, Zenon DEF ReadyIsVerified
    <3>3. /\ sender' = [sender EXCEPT ![t] = "idle"]
          /\ \/ user' = user /\ user = None
             \/ user = t /\ user' = None
      BY <2>3 DEF FindsNoHandle, Returns
    <3>4. UserIsOnItsWay' /\ NoneOrOne' /\ OneIsUnverified' /\ OneIsTheLast'
      BY <2>0, <3>1, <3>3 DEF UserIsOnItsWay, NoneOrOne, OneIsUnverified, OneIsTheLast
    <3> QED BY <3>2, <3>4
  <2>4. CASE BootDone
    <3>1. verified' = TRUE /\ strays' = [t \in Senders |-> 0] /\ UNCHANGED <<sender, user>>
      BY <2>4, Zenon DEF BootDone
    <3>2. ReadyIsVerified'
      BY <3>1, Zenon DEF ReadyIsVerified
    <3>3. UserIsOnItsWay' /\ NoneOrOne' /\ OneIsUnverified' /\ OneIsTheLast'
      BY <3>1 DEF UserIsOnItsWay, NoneOrOne, OneIsUnverified, OneIsTheLast
    <3> QED BY <3>2, <3>3
  <2>5. CASE TearsDown
    <3>1. verified' = FALSE /\ ready' = FALSE /\ UNCHANGED <<sender, user, strays>>
      BY <2>5, Zenon DEF TearsDown
    <3>2. ReadyIsVerified'
      BY <3>1, Zenon DEF ReadyIsVerified
    <3>3. UserIsOnItsWay' /\ NoneOrOne' /\ OneIsUnverified' /\ OneIsTheLast'
      BY <3>1 DEF UserIsOnItsWay, NoneOrOne, OneIsUnverified, OneIsTheLast
    <3> QED BY <3>2, <3>3
  <2>6. CASE Asks \/ Asked \/ AskFails
    <3>1. UNCHANGED <<sender, strays, verified, ready>>
      BY <2>6, Zenon DEF Asks, Asked, AskFails
    <3>2. user' \in {Stick, None} /\ \A t \in Senders : user # t
      BY <2>0, <2>6 DEF TInv, AskersHaveIt, Asks, Asked, AskFails
    <3>3. ReadyIsVerified'
      BY <3>1, Zenon DEF ReadyIsVerified
    <3>4. UserIsOnItsWay' /\ NoneOrOne' /\ OneIsUnverified' /\ OneIsTheLast'
      BY <3>1, <3>2 DEF UserIsOnItsWay, NoneOrOne, OneIsUnverified, OneIsTheLast
    <3> QED BY <3>3, <3>4
  <2>7. ASSUME UNCHANGED <<sender, user, strays, verified, ready>>  PROVE FInv'
    BY <2>7, Zenon DEF ReadyIsVerified, UserIsOnItsWay, NoneOrOne, OneIsUnverified, OneIsTheLast
  <2>8. CASE (\E m \in {"bl", "app"} : Plugs(m)) \/ Unplugs \/ ReportsGone \/ ReportsError
    BY <2>7, <2>8, Zenon DEF Plugs, Unplugs, ReportsGone, ReportsError
  <2>9. CASE Answers \/ StaysSilent \/ SaysSomething \/ AnswersSink \/ IgnoresSink
    BY <2>7, <2>9, Zenon DEF Answers, StaysSilent, SaysSomething, AnswersSink, IgnoresSink
  <2>10. CASE Opens \/ OpensGone \/ InitOk \/ InitFails \/ Closes
    BY <2>7, <2>10, Zenon DEF Opens, OpensGone, InitOk, InitFails, Closes
  <2>11. CASE Gets \/ TimesOut \/ GetsMore \/ ToVerify \/ ToChange \/ Unclassified
    BY <2>7, <2>11, Zenon DEF Gets, TimesOut, GetsMore, ToVerify, ToChange, AsksNext, Unclassified
  <2>12. CASE UNCHANGED vars
    BY <2>7, <2>12, Zenon DEF vars
  <2> QED BY <2>1, <2>2, <2>3, <2>4, <2>5, <2>6, <2>8, <2>9, <2>10, <2>11, <2>12
          DEF Next, StickTask
<1>3. FInv => AtMostOneStrayFrame
  <2>1. FInv => NoneOrOne
    BY DEF FInv
  <2>2. NoneOrOne => AtMostOneStrayFrame
    <3> SUFFICES ASSUME NoneOrOne, NEW t \in Senders  PROVE strays[t] <= 1
      BY DEF AtMostOneStrayFrame
    <3>1. strays[t] = 0 \/ strays[t] = 1
      BY DEF NoneOrOne
    <3> QED BY <3>1
  <2> QED BY <2>1, <2>2
<1> QED BY <1>1, <1>2, <1>3, TInvHolds, PTL DEF Spec

-----------------------------------------------------------------------------
(* Ready means application.  Between cp210x_init and the close of the      *)
(* handle, an event that says `application' comes from the stick that is   *)
(* linked, and there is no way back into its boot loader.                  *)

ReadyIsSettled == ready => pc = "settled"
EventsAreTrue  ==
  link /\ pc \notin {"init", "closing"} =>
    \A i \in 1 .. Len(q) : q[i] = "app" => stick = "app"
VerifyIsTrue   ==
  link /\ pc = "extra" /\ phase = "verify" => ev \in {"app", "err"} /\ (ev = "app" => stick = "app")

PInv == ReadyIsSettled /\ EventsAreTrue /\ VerifyIsTrue /\ ReadyMeansApp

\* What did not touch the queue, ready or the probe's place, and took no stick away.
LEMMA ProbeUndisturbed ==
  ASSUME PInv, UNCHANGED <<q, ready, pc, phase, ev>>, link' => link, link' => stick' = stick
  PROVE  PInv'
<1>1. ReadyIsSettled'
  BY Zenon DEF PInv, ReadyIsSettled
<1>2. EventsAreTrue'
  BY DEF PInv, EventsAreTrue
<1>3. VerifyIsTrue'
  BY DEF PInv, VerifyIsTrue
<1>4. ReadyMeansApp'
  BY DEF PInv, ReadyMeansApp
<1> QED BY <1>1, <1>2, <1>3, <1>4 DEF PInv

\* The probe's place moved on, to where no answer is collected.
LEMMA ProbeMoved ==
  ASSUME PInv, UNCHANGED <<stick, link, ready>>, ~ready,
         (q' = q /\ pc \notin {"init", "closing"}) \/ q' = <<>> \/ pc' = "closing",
         pc' # "extra"
  PROVE  PInv'
<1>1. ReadyIsSettled'
  BY Zenon DEF PInv, ReadyIsSettled
<1>2. EventsAreTrue'
  BY DEF PInv, EventsAreTrue
<1>3. VerifyIsTrue'
  BY DEF PInv, VerifyIsTrue
<1>4. ReadyMeansApp'
  BY DEF PInv, ReadyMeansApp
<1> QED BY <1>1, <1>2, <1>3, <1>4 DEF PInv

LEMMA ProbeStep == TInv /\ PInv /\ [Next]_vars => PInv'
<1> SUFFICES ASSUME TInv, PInv, [Next]_vars  PROVE PInv'
  OBVIOUS
<1>0. /\ q \in Seq(Tags) /\ Len(q) <= QLen
      /\ link => stick # "absent"
      /\ pc = "open" => ~link
  BY DEF TInv, TypeOK, Linked
<1>1. CASE (\E m \in {"bl", "app"} : Plugs(m)) \/ Unplugs \/ ReportsGone \/ ReportsError
          \/ StaysSilent \/ IgnoresSink
  <2>1. UNCHANGED <<q, ready, pc, phase, ev>>
    BY <1>1, Zenon DEF Plugs, Unplugs, ReportsGone, ReportsError, StaysSilent, IgnoresSink
  <2>2. (link' => link) /\ (link' => stick' = stick)
    BY <1>0, <1>1 DEF Plugs, Unplugs, ReportsGone, ReportsError, StaysSilent, IgnoresSink
  <2> QED BY <2>1, <2>2, ProbeUndisturbed
<1>2. CASE Answers \/ SaysSomething \/ AnswersSink
  <2>1. PICK tag \in Tags \cup {"absent"} :
                 /\ q' = Posted(tag) /\ (tag = "app" => stick' = "app")
                 /\ stick' \in {stick, "app"} /\ (link => tag \in Tags)
    <3>1. CASE Answers
      <4>1. PICK tag \in Replies(Head(asked), stick') : q' = Posted(tag)
        BY <3>1, Zenon DEF Answers
      <4>2. stick \in {"absent", "bl", "app"} /\ stick' \in {stick, "app"}
        BY <3>1 DEF Answers, TInv, TypeOK
      <4>3. tag \in {stick', "err"} /\ (tag = "err" => stick' = "app")
        BY <4>2 DEF Replies
      <4> QED BY <1>0, <4>1, <4>2, <4>3 DEF Tags
    <3>2. CASE SaysSomething \/ AnswersSink
      <4>1. PICK tag \in Tags : Says(tag)
        BY <3>2, Zenon DEF SaysSomething, AnswersSink
      <4>2. stick' = stick
        BY <3>2, Zenon DEF SaysSomething, AnswersSink, device
      <4> QED BY <4>1, <4>2 DEF Says
    <3> QED BY <1>2, <3>1, <3>2
  <2>2. UNCHANGED <<link, ready, pc, phase, ev>>
    BY <1>2, Zenon DEF Answers, SaysSomething, AnswersSink
  <2>3. \A i \in 1 .. Len(q') : \/ i \in 1 .. Len(q) /\ q'[i] = q[i]
                                \/ link /\ q'[i] = tag
    BY <1>0, <2>1, PostedType
  <2>4. EventsAreTrue'
    BY <2>1, <2>2, <2>3 DEF PInv, EventsAreTrue
  <2>5. ReadyIsSettled'
    BY <2>2, Zenon DEF PInv, ReadyIsSettled
  <2>6. VerifyIsTrue' /\ ReadyMeansApp'
    BY <2>1, <2>2 DEF PInv, VerifyIsTrue, ReadyMeansApp
  <2> QED BY <2>4, <2>5, <2>6 DEF PInv
<1>3. CASE Opens \/ OpensGone
  <2>1. pc = "open" /\ pc' = "init" /\ ready' = ready
    BY <1>3, Zenon DEF Opens, OpensGone
  <2>2. ~ready
    BY <2>1 DEF PInv, ReadyIsSettled
  <2>3. ReadyIsSettled' /\ ReadyMeansApp'
    BY <2>1, <2>2 DEF ReadyIsSettled, ReadyMeansApp
  <2>4. EventsAreTrue' /\ VerifyIsTrue'
    BY <2>1 DEF EventsAreTrue, VerifyIsTrue
  <2> QED BY <2>3, <2>4 DEF PInv
<1>4. CASE InitOk \/ InitFails \/ Asks \/ Asked \/ AskFails \/ TimesOut
  <2>1. UNCHANGED <<stick, link, ready>>
    BY <1>4, Zenon DEF InitOk, InitFails, Asks, Asked, AskFails, TimesOut
  <2>2. /\ pc \in {"init", "ask", "asking", "wait"}
        /\ pc' \in {"closing", "ask", "asking", "wait", "settled"}
    BY <1>4 DEF InitOk, InitFails, Asks, Asked, AskFails, TimesOut
  <2>3. (q' = q /\ pc \notin {"init", "closing"}) \/ q' = <<>> \/ pc' = "closing"
    BY <1>4 DEF InitOk, InitFails, Asks, Asked, AskFails, TimesOut
  <2>4. ~ready
    BY <2>2 DEF PInv, ReadyIsSettled
  <2> QED BY <2>1, <2>2, <2>3, <2>4, ProbeMoved
<1>5. CASE Gets \/ GetsMore
  <2>1. /\ q # <<>> /\ q' = Tail(q) /\ UNCHANGED <<stick, link, ready, phase>>
        /\ pc \in {"wait", "extra"} /\ pc' \in {"extra", "settled"}
    BY <1>5 DEF Gets, GetsMore
  <2>2. ~ready
    BY <2>1 DEF PInv, ReadyIsSettled
  <2>3. \A i \in 1 .. Len(q') : i + 1 \in 1 .. Len(q) /\ q'[i] = q[i + 1]
    BY <1>0, <2>1
  <2>4. EventsAreTrue'
    BY <2>1, <2>3 DEF PInv, EventsAreTrue
  <2>5. VerifyIsTrue'
    <3>1. CASE GetsMore
      BY <2>1, <3>1 DEF PInv, VerifyIsTrue, GetsMore
    <3>2. CASE Gets
      <4>1. 1 \in 1 .. Len(q) /\ Head(q) = q[1]
        BY <1>0, <2>1
      <4>2. pc' = "extra" /\ phase' = "verify" => ev' = q[1] /\ q[1] \in {"app", "err"}
        BY <2>1, <3>2, <4>1 DEF Gets, Welcome
      <4> QED BY <2>1, <4>1, <4>2 DEF PInv, EventsAreTrue, VerifyIsTrue
    <3> QED BY <1>5, <3>1, <3>2
  <2>6. ReadyIsSettled' /\ ReadyMeansApp'
    BY <2>1, <2>2 DEF ReadyIsSettled, ReadyMeansApp
  <2> QED BY <2>4, <2>5, <2>6 DEF PInv
<1>6. CASE ToVerify \/ ToChange \/ Unclassified
  <2>1. UNCHANGED <<stick, link, ready, q>> /\ pc = "extra" /\ pc' \in {"ask", "settled"}
    BY <1>6 DEF ToVerify, ToChange, AsksNext, Unclassified
  <2>2. ~ready
    BY <2>1 DEF PInv, ReadyIsSettled
  <2> QED BY <2>1, <2>2, ProbeMoved
<1>7. CASE BootDone
  <2>1. /\ UNCHANGED <<stick, link, q, ev>> /\ pc = "extra" /\ phase = "verify"
        /\ pc' = "settled"
    BY <1>7 DEF BootDone
  <2>2. ReadyIsSettled' /\ EventsAreTrue' /\ VerifyIsTrue'
    BY <2>1 DEF PInv, ReadyIsSettled, EventsAreTrue, VerifyIsTrue
  <2>3. ReadyMeansApp'
    BY <2>1 DEF PInv, VerifyIsTrue, ReadyMeansApp
  <2> QED BY <2>2, <2>3 DEF PInv
<1>8. CASE TearsDown \/ Closes
  <2>1. \/ pc' = "closing"
        \/ pc' = "open" /\ ~link'
    BY <1>8 DEF TearsDown, Closes
  <2>2. ~ready'
    <3>1. CASE TearsDown
      BY <3>1 DEF TearsDown
    <3>2. CASE Closes
      BY <3>2 DEF Closes, PInv, ReadyIsSettled
    <3> QED BY <1>8, <3>1, <3>2
  <2>3. EventsAreTrue' /\ VerifyIsTrue'
    BY <2>1 DEF EventsAreTrue, VerifyIsTrue
  <2>4. ReadyIsSettled' /\ ReadyMeansApp'
    BY <2>2 DEF ReadyIsSettled, ReadyMeansApp
  <2> QED BY <2>3, <2>4 DEF PInv
<1>9. CASE \E t \in Senders : Checks(t) \/ Transmits(t) \/ FindsNoHandle(t) \/ Returns(t)
  <2>1. UNCHANGED <<q, ready, pc, phase, ev, link, stick>>
    BY <1>9, Zenon DEF Checks, Transmits, FindsNoHandle, Returns
  <2> QED BY <2>1, ProbeUndisturbed
<1>10. CASE UNCHANGED vars
  <2>1. UNCHANGED <<q, ready, pc, phase, ev, link, stick>>
    BY <1>10, Zenon DEF vars
  <2> QED BY <2>1, ProbeUndisturbed
<1> QED BY <1>1, <1>2, <1>3, <1>4, <1>5, <1>6, <1>7, <1>8, <1>9, <1>10 DEF Next, StickTask

\* The source is never ready with a stick in its boot loader: not after late, lost or
\* unasked answers, answers to sinks' frames, a full queue, nor a change of stick at any
\* moment; unless it took a DUAL_ERR for the answer of an application.
THEOREM ReadyMeansAppHolds == Spec => []ReadyMeansApp
<1>1. Init => PInv
  BY DEF Init, PInv, ReadyIsSettled, EventsAreTrue, VerifyIsTrue, ReadyMeansApp
<1>2. PInv => ReadyMeansApp
  BY DEF PInv
<1> QED BY <1>1, <1>2, ProbeStep, TInvHolds, PTL DEF Spec

-----------------------------------------------------------------------------
(* A session ends.  stick_task sits in its session until the token comes:  *)
(* what has to be there when it does.                                      *)

\* Once the CP210x is set up, the loss of the stick is on its way or has come.
LostIsTold ==
  pc \in {"ask", "asking", "wait", "extra", "settled"} /\ ~link => gone \/ token

LEMMA LossStep == TInv /\ LostIsTold /\ [Next]_vars => LostIsTold'
<1> SUFFICES ASSUME TInv, LostIsTold, [Next]_vars  PROVE LostIsTold'
  OBVIOUS
<1> USE DEF LostIsTold
<1>1. CASE (\E m \in {"bl", "app"} : Plugs(m)) \/ Unplugs
  BY <1>1 DEF Plugs, Unplugs
<1>2. CASE ReportsGone \/ ReportsError
  BY <1>2 DEF ReportsGone, ReportsError, Given
<1>3. CASE Answers \/ StaysSilent \/ SaysSomething \/ AnswersSink \/ IgnoresSink
  BY <1>3 DEF Answers, StaysSilent, SaysSomething, AnswersSink, IgnoresSink
<1>4. CASE Opens \/ OpensGone \/ InitOk \/ InitFails
  BY <1>4 DEF Opens, OpensGone, InitOk, InitFails
<1>5. CASE Asks \/ Asked \/ AskFails \/ Gets \/ TimesOut \/ GetsMore
  BY <1>5 DEF Asks, Asked, AskFails, Gets, TimesOut, GetsMore
<1>6. CASE ToVerify \/ ToChange \/ Unclassified \/ BootDone \/ TearsDown \/ Closes
  BY <1>6 DEF ToVerify, ToChange, AsksNext, Unclassified, BootDone, TearsDown, Closes
<1>7. CASE \E t \in Senders : Checks(t) \/ Transmits(t) \/ FindsNoHandle(t) \/ Returns(t)
  BY <1>7 DEF Checks, Transmits, FindsNoHandle, Returns
<1>8. CASE UNCHANGED vars
  BY <1>8 DEF vars
<1> QED BY <1>1, <1>2, <1>3, <1>4, <1>5, <1>6, <1>7, <1>8 DEF Next, StickTask

\* While bus and stick do as they should and no sink's answer comes across: the probe goes
\* question by answer, with nothing left in the queue in between, and ends with `ready'.
Question == IF phase = "change" THEN "change" ELSE "identify"

ToBeAnswered == q = <<>> /\ asked = <<Question>> /\ (phase = "verify" => stick = "app")
Replied      == /\ asked = <<>> /\ \E tag \in Replies(Question, stick) : q = <<tag>>
                /\ phase # "identify" => stick = "app"

AsksAndWaits == asked # <<>> => pc = "wait" /\ link
NothingLeft  == pc \in {"asking", "extra"} \/ (pc = "ask" /\ phase # "identify") => q = <<>>
AppVerifies  == pc \in {"ask", "asking"} /\ phase = "verify" => stick = "app"
OneAtOnce    == pc = "wait" => ToBeAnswered \/ Replied
ItsAnswer    == pc = "extra" => /\ ev \in Replies("identify", stick)
                                /\ phase # "identify" => stick = "app"
EndsReady    == pc = "settled" => ready \/ token

Smooth ==
  ~faulty /\ ~crossed =>
    /\ AsksAndWaits
    /\ link => NothingLeft /\ AppVerifies /\ OneAtOnce /\ ItsAnswer /\ EndsReady

LEMMA ProbeGoesStep == TInv /\ Smooth /\ [Next]_vars => Smooth'
<1> SUFFICES ASSUME TInv, Smooth, [Next]_vars, ~faulty', ~crossed'  PROVE Smooth'
  BY DEF Smooth
<1>0. /\ link => stick \in {"bl", "app"} /\ ~gone
      /\ pc = "open" => ~link
      /\ QLen \in Nat /\ QLen >= 1
      /\ phase \in {"identify", "change", "verify"}
  BY DEF TInv, TypeOK, Linked
<1> HIDE UsbAssumption DEF UsbAssumption
<1> USE DEF Smooth, AsksAndWaits, NothingLeft, AppVerifies, OneAtOnce, ItsAnswer, EndsReady
<1>1. CASE Unplugs \/ OpensGone
  <2>1. asked' = <<>> /\ ~link'
    BY <1>0, <1>1 DEF Unplugs, OpensGone
  <2> QED BY <2>1
<1>2. CASE (\E m \in {"bl", "app"} : Plugs(m)) \/ ReportsGone \/ ReportsError
          \/ StaysSilent \/ SaysSomething
  BY <1>0, <1>2 DEF Plugs, ReportsGone, ReportsError, StaysSilent, SaysSomething
<1>3. CASE Answers
  <2>1. pc = "wait" /\ link /\ ToBeAnswered
    BY <1>3 DEF Answers, Replied
  <2>2. Head(asked) = Question /\ Tail(asked) = <<>>
    BY <2>1 DEF ToBeAnswered
  <2>3. PICK tag \in Replies(Question, stick') : q' = Posted(tag)
    BY <1>3, <2>2 DEF Answers
  <2>4. q' = <<tag>>
    <3>1. q = <<>> /\ Len(q) = 0
      BY <2>1 DEF ToBeAnswered
    <3>2. Posted(tag) = Append(q, tag)
      BY <1>0, <2>1, <3>1 DEF Posted
    <3> QED BY <2>3, <3>1, <3>2
  <2>5. /\ asked' = <<>> /\ UNCHANGED <<pc, link, phase, ready, token>>
        /\ stick' = IF Question = "change" THEN "app" ELSE stick
    BY <1>3, <2>2 DEF Answers
  <2>6. phase # "identify" => stick' = "app"
    BY <1>0, <2>1, <2>5 DEF ToBeAnswered, Question
  <2>7. Question' = Question
    BY <2>5 DEF Question
  <2>8. Replied'
    BY <2>3, <2>4, <2>5, <2>6, <2>7 DEF Replied
  <2> QED BY <2>1, <2>5, <2>8
<1>4. CASE Opens \/ InitOk \/ InitFails
  BY <1>0, <1>4 DEF Opens, InitOk, InitFails
<1>5. CASE Asks \/ AskFails \/ TimesOut
  BY <1>0, <1>5 DEF Asks, AskFails, TimesOut
<1>6. CASE Asked
  <2>1. /\ asked = <<>> /\ link /\ pc = "asking" /\ ~faulty /\ ~crossed
        /\ asked' = Append(asked, Question)
    BY <1>6 DEF Asked, Question
  <2>2. /\ asked' = <<Question>> /\ pc' = "wait" /\ link'
        /\ UNCHANGED <<q, phase, stick>>
    BY <1>6, <2>1 DEF Asked
  <2>3. ToBeAnswered'
    BY <2>1, <2>2 DEF ToBeAnswered, Question
  <2> QED BY <2>2, <2>3
<1>7. CASE Gets \/ GetsMore
  <2>1. CASE ~link
    BY <1>7, <2>1 DEF Gets, GetsMore
  <2>2. CASE link
    <3>1. Gets /\ Replied
      BY <1>7, <2>2 DEF Gets, GetsMore, ToBeAnswered
    <3>2. PICK tag \in Replies(Question, stick) : q = <<tag>>
      BY <3>1 DEF Replied
    <3>3. Head(q) = tag /\ Tail(q) = <<>>
      BY <3>2
    <3>4. /\ q' = <<>> /\ ev' = tag /\ UNCHANGED <<asked, stick, link, phase>>
          /\ asked = <<>> /\ (phase # "identify" => stick = "app")
      BY <3>1, <3>3 DEF Gets, Replied
    <3>5. tag \in Replies("identify", stick) /\ tag \in Welcome
      BY <1>0, <2>2, <3>4 DEF Replies, Question, Welcome, Tags
    <3>6. pc' = "extra"
      BY <3>1, <3>3, <3>5 DEF Gets
    <3> QED BY <3>4, <3>5, <3>6
  <2> QED BY <2>1, <2>2
<1>8. CASE ToVerify \/ ToChange \/ Unclassified \/ BootDone
  BY <1>0, <1>8 DEF ToVerify, ToChange, AsksNext, Unclassified, BootDone, Replies
<1>9. CASE TearsDown \/ Closes
  BY <1>0, <1>9 DEF TearsDown, Closes
<1>10. CASE \E t \in Senders : Checks(t) \/ Transmits(t) \/ FindsNoHandle(t) \/ Returns(t)
  <2>1. UNCHANGED <<stick, asked, q, link, token, ready, pc, phase, ev, faulty, crossed>>
    BY <1>10, Zenon DEF Checks, Transmits, FindsNoHandle, Returns
  <2> QED BY <2>1 DEF ToBeAnswered, Replied, Question, Replies
<1>11. CASE AnswersSink \/ IgnoresSink
  <2>1. UNCHANGED <<stick, asked, link, token, ready, pc, phase, ev, faulty>>
    BY <1>11, Zenon DEF AnswersSink, IgnoresSink
  <2>2. ~crossed /\ (q' = q \/ ~(link /\ Collects))
    <3>1. CASE AnswersSink
      <4>1. ~crossed /\ ~(link /\ Collects)
        BY <3>1, Zenon DEF AnswersSink
      <4> QED BY <4>1
    <3>2. CASE IgnoresSink
      BY <3>2, Zenon DEF IgnoresSink
    <3> QED BY <1>11, <3>1, <3>2
  <2> QED BY <2>1, <2>2 DEF ToBeAnswered, Replied, Question, Replies, Collects
<1>12. CASE UNCHANGED vars
  <2>1. UNCHANGED <<stick, asked, q, link, token, ready, pc, phase, ev, faulty, crossed>>
    BY <1>12, Zenon DEF vars
  <2> QED BY <2>1 DEF ToBeAnswered, Replied, Question, Replies
<1> QED BY <1>1, <1>2, <1>3, <1>4, <1>5, <1>6, <1>7, <1>8, <1>9, <1>10, <1>11, <1>12
        DEF Next, StickTask

\* stick_task never sits in its session for nothing: with a stick that is there, it is
\* ready, or a token is there to start over, unless bus or stick have failed or a sink's
\* answer came across; with one that is not, the token is there or on its way.
NeverStuck ==
  pc = "settled" => IF link THEN ready \/ token \/ faulty \/ crossed ELSE gone \/ token

\* The safety half of ComesBack, for any senders, any length of the queue, and a stick
\* that is pulled and put back at any moment: a session that is stuck has met a failure of
\* bus or stick, or the answer to a frame of a sink that had seen the last session ready.
THEOREM NeverStuckHolds == Spec => []NeverStuck
<1>1. Init => LostIsTold /\ Smooth
  BY DEF Init, LostIsTold, Smooth, AsksAndWaits
<1>2. LostIsTold /\ Smooth => NeverStuck
  BY DEF LostIsTold, Smooth, EndsReady, NeverStuck
<1> QED BY <1>1, <1>2, LossStep, ProbeGoesStep, TInvHolds, PTL DEF Spec

-----------------------------------------------------------------------------
(* The driver                                                              *)

\* Without a handle there is nothing to lose; the stick of a handle that is live is plugged
\* in and has not been lost; one that is not there has no question to answer.
LInv ==
  /\ pc = "open" => ~link /\ ~gone
  /\ link => stick # "absent" /\ ~gone
  /\ stick = "absent" => asked = <<>>

LEMMA LinkStep == LInv /\ [Next]_vars => LInv' /\ [Link!Next]_(Link!vars)
<1> SUFFICES ASSUME LInv, [Next]_vars  PROVE LInv' /\ [Link!Next]_(Link!vars)
  OBVIOUS
<1> USE DEF LInv, LinkHandle, Link!vars, Link!Next
<1>1. ASSUME NEW m \in {"bl", "app"}, Plugs(m)  PROVE LInv' /\ [Link!Plug]_(Link!vars)
  BY <1>1 DEF Plugs, Link!Plug
<1>2. CASE Unplugs
  BY <1>2 DEF Unplugs, Link!Unplug
<1>3. CASE ReportsGone
  BY <1>3 DEF ReportsGone, Link!Tell
<1>4. CASE Answers
  <2>1. stick # "absent" /\ stick' # "absent"
    BY <1>4 DEF Answers
  <2> QED BY <1>4, <2>1 DEF Answers
<1>5. CASE Opens
  BY <1>5 DEF Opens, device, Link!Open
<1>6. CASE OpensGone
  BY <1>6 DEF OpensGone, Link!Open
<1>7. CASE Closes
  BY <1>7 DEF Closes, device, Link!Close
<1>8. CASE Asked
  BY <1>8 DEF Asked
<1>9. CASE ReportsError \/ StaysSilent \/ SaysSomething \/ AnswersSink \/ IgnoresSink
  BY <1>9 DEF ReportsError, StaysSilent, SaysSomething, AnswersSink, IgnoresSink
<1>10. CASE InitOk \/ InitFails \/ Asks \/ AskFails
  BY <1>10 DEF InitOk, InitFails, Asks, AskFails
<1>11. CASE Gets \/ TimesOut \/ GetsMore \/ ToVerify \/ ToChange \/ Unclassified \/ BootDone
  BY <1>11 DEF Gets, TimesOut, GetsMore, ToVerify, ToChange, AsksNext, Unclassified, BootDone
<1>12. CASE TearsDown
  BY <1>12 DEF TearsDown
<1>13. ASSUME NEW t \in Senders, Checks(t) \/ Transmits(t) \/ FindsNoHandle(t) \/ Returns(t)
       PROVE  LInv' /\ UNCHANGED Link!vars
  BY <1>13 DEF Checks, Transmits, FindsNoHandle, Returns
<1>14. CASE UNCHANGED vars
  BY <1>14 DEF vars
<1> QED
  BY <1>1, <1>2, <1>3, <1>4, <1>5, <1>6, <1>7, <1>8, <1>9, <1>10, <1>11, <1>12, <1>13, <1>14
  DEF Next, StickTask

\* What this module takes for the driver tells of a lost stick as UsbLink says, which is
\* what the driver is proved to implement (CdcAcmProofs): once per handle, and never of a
\* stick that is there.
THEOREM LinkKept == Spec => LinkSpec
<1>1. Init => LInv /\ Link!Init
  BY DEF Init, LInv, LinkHandle, Link!Init
<1> QED BY <1>1, LinkStep, PTL DEF Spec, LinkSpec, Link!Spec
=============================================================================
