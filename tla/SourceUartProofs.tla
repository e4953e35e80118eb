--------------------------- MODULE SourceUartProofs --------------------------
(* Proofs about SourceUart, for every module, every set of probers and every *)
(* queue length.                                                             *)
EXTENDS SourceUart, TLAPS

USE UartAssumption

LEMMA SentType ==
  ASSUME TypeOK, NEW c \in {"tag", "start"}, Sent(c)
  PROVE  /\ todo' \in Seq({"tag", "start"}) /\ Len(todo') <= Backlog + 1
         /\ mode = "held" => todo' = <<>>
  BY DEF Sent, TypeOK

LEMMA GetsType ==
  ASSUME TypeOK, boot_q # <<>>, boot_q' = Tail(boot_q)
  PROVE  /\ boot_q' \in Seq(Tags) /\ Len(boot_q') <= QLen
         /\ Head(boot_q) \in Tags
  BY DEF TypeOK

\* What a step of a prober leaves of the types.
LEMMA ProbeTypes ==
  ASSUME TypeOK, NEW p \in Probers, Probe(p)
  PROVE  TypeOK'
<1> USE DEF TypeOK, module, fields, probe, Goto
<1>1. ASSUME NEW k \in {1, 2}, Drains(p, k)  PROVE TypeOK'
  <2>1. PulseAt[k] \in {"pulse1", "pulse2"}
    BY DEF PulseAt
  <2>2. pc' = [pc EXCEPT ![p] = PulseAt[k]] /\ boot_q' = <<>>
    BY <1>1 DEF Drains
  <2>3. \/ mode' = mode /\ todo' = todo
        \/ mode' = "held" /\ todo' = <<>>
    <3>1. CASE Fam = Pin[k]  BY <1>1, <3>1 DEF Drains
    <3>2. CASE Fam # Pin[k]  BY <1>1, <3>2 DEF Drains
    <3> QED BY <3>1, <3>2
  <2>4. UNCHANGED <<wire, rx, goal, ev, fields, amiss, overlap>>
    BY <1>1 DEF Drains
  <2>5. /\ todo' \in Seq({"tag", "start"}) /\ Len(todo') <= Backlog + 1
        /\ mode' \in {"bl", "app", "held"} /\ (mode' = "held" => todo' = <<>>)
    <3>1. <<>> \in Seq({"tag", "start"}) /\ Len(<<>>) = 0
      OBVIOUS
    <3>2. CASE mode' = mode /\ todo' = todo    BY <3>2
    <3>3. CASE mode' = "held" /\ todo' = <<>>  BY <3>1, <3>3
    <3> QED BY <2>3, <3>2, <3>3
  <2>6. boot_q' \in Seq(Tags) /\ Len(boot_q') <= QLen
    BY <2>2
  <2> QED BY <2>1, <2>2, <2>4, <2>5, <2>6
<1>2. ASSUME NEW k \in {1, 2}, Pulses(p, k)  PROVE TypeOK'
  <2>1. WaitAt[k] \in {"wait1", "wait2"}
    BY DEF WaitAt
  <2>2. pc' = [pc EXCEPT ![p] = WaitAt[k]]
    BY <1>2 DEF Pulses
  <2>3. \/ mode' = mode /\ todo' = todo
        \/ mode' = "bl" /\ todo' = <<"tag">>
    <3>1. CASE Fam = Pin[k]  BY <1>2, <3>1 DEF Pulses
    <3>2. CASE Fam # Pin[k]  BY <1>2, <3>2 DEF Pulses
    <3> QED BY <3>1, <3>2
  <2>4. UNCHANGED <<wire, rx, boot_q, goal, ev, fields, amiss, overlap>>
    BY <1>2 DEF Pulses
  <2>5. <<"tag">> \in Seq({"tag", "start"}) /\ Len(<<"tag">>) = 1
    OBVIOUS
  <2>6. /\ todo' \in Seq({"tag", "start"}) /\ Len(todo') <= Backlog + 1
        /\ mode' \in {"bl", "app", "held"} /\ (mode' = "held" => todo' = <<>>)
    <3>1. CASE mode' = mode /\ todo' = todo       BY <3>1
    <3>2. CASE mode' = "bl" /\ todo' = <<"tag">>  BY <2>5, <3>2
    <3> QED BY <2>3, <3>1, <3>2
  <2> QED BY <2>1, <2>2, <2>4, <2>6
<1>3. CASE GetsTag(p)
  BY <1>3, GetsType DEF GetsTag, Gets
<1>4. CASE TriesOtherPin(p)
  BY <1>4 DEF TriesOtherPin, GivesUp
<1>5. CASE NoBanner(p)
  BY <1>5, SentType DEF NoBanner, GivesUp
<1>6. CASE Extra(p)
  <2>1. ev' \in [Probers -> Tags \cup {"none"}]
    BY <1>6, GetsType DEF Extra, Gets
  <2> QED BY <1>6, <2>1, GetsType DEF Extra, Gets
<1>7. CASE PulseDone(p)
  BY <1>7 DEF PulseDone, Quiet
<1>15. CASE HoldStamps(p)
  BY <1>15 DEF HoldStamps
<1>8. CASE PulseFails(p)
  BY <1>8 DEF PulseFails, Quiet
<1>9. CASE BannerRead(p)
  BY <1>9, SentType DEF BannerRead, Quiet
<1>10. CASE GetsPush(p)
  BY <1>10, GetsType DEF GetsPush, Gets
<1>11. CASE NoAnswer(p)
  BY <1>11 DEF NoAnswer, GivesUp
<1>12. CASE AsksAgain(p)
  BY <1>12, SentType DEF AsksAgain, Quiet
<1>13. CASE Verifies(p)
  <2>1. CASE Gets(p) /\ UNCHANGED ev
    BY <1>13, <2>1, GetsType DEF Verifies, Gets
  <2>2. CASE GivesUp(p) /\ UNCHANGED <<todo, fields>>
    BY <1>13, <2>2 DEF Verifies, GivesUp
  <2> QED BY <1>13, <2>1, <2>2 DEF Verifies
<1>14. CASE BootDone(p)
  BY <1>14 DEF BootDone, Quiet, Tags
<1> QED
  BY <1>1, <1>2, <1>3, <1>4, <1>5, <1>6, <1>7, <1>8, <1>9, <1>10, <1>11, <1>12, <1>13,
     <1>14, <1>15 DEF Probe

LEMMA BeginTypes ==
  ASSUME TypeOK, NEW p \in {"web", "hb"}, NEW g \in {"app", "hold", "pulse"}, Begin(p, g)
  PROVE  /\ p \in Probers
         /\ pc' = [pc EXCEPT ![p] = "drain1"] /\ goal' = [goal EXCEPT ![p] = g]
         /\ ev' = [ev EXCEPT ![p] = "none"] /\ overlap' \in BOOLEAN
         /\ UNCHANGED <<mode, todo, wire, rx, boot_q, amiss>>
  BY DEF Begin, TypeOK, module

LEMMA TypeStep == TypeOK /\ [Next]_vars => TypeOK'
<1> SUFFICES ASSUME TypeOK, [Next]_vars  PROVE TypeOK'
  OBVIOUS
<1> USE DEF TypeOK, module, fields, probe
<1>1. CASE Answers
  <2>1. mode' \in {"bl", "app"} /\ todo' = Tail(todo) /\ todo # <<>>
    BY <1>1 DEF Answers
  <2>2. mode' \in Tags
    BY <2>1 DEF Tags
  <2> QED BY <1>1, <2>1, <2>2 DEF Answers
<1>2. CASE Talks
  BY <1>2 DEF Talks
<1>3. CASE RxReads
  BY <1>3 DEF RxReads
<1>4. CASE RxFansOut
  BY <1>4 DEF RxFansOut
<1>5. CASE RxChecks \/ RxReleases \/ RxClears
  BY <1>5 DEF RxChecks, RxReleases, RxClears
<1>6. CASE WebHolds
  BY <1>6, BeginTypes DEF WebHolds
<1>7. CASE WebBoots
  BY <1>7, BeginTypes DEF WebBoots
<1>8. CASE HbResets
  BY <1>8, BeginTypes DEF HbResets
<1>9. ASSUME NEW p \in Probers, Probe(p)  PROVE TypeOK'
  BY <1>9, ProbeTypes
<1>10. CASE UNCHANGED vars
  BY <1>10 DEF vars
<1> QED
  BY <1>1, <1>2, <1>3, <1>4, <1>5, <1>6, <1>7, <1>8, <1>9, <1>10 DEF Next

\* SourceUart's type invariant: the queue and the line stay within their limits, and a
\* module in reset has nothing left to do.
THEOREM TypeCorrect == Spec => []TypeOK
<1>1. Init => TypeOK
  <2> SUFFICES ASSUME Init  PROVE TypeOK
    OBVIOUS
  <2>1. \A S : <<>> \in Seq(S) /\ Len(<<>>) = 0
    OBVIOUS
  <2>2. /\ todo \in Seq({"tag", "start"}) /\ Len(todo) <= Backlog + 1
        /\ wire \in Seq(Tags \cup Noise) /\ Len(wire) <= Backlog
        /\ boot_q \in Seq(Tags) /\ Len(boot_q) <= QLen
    BY <2>1 DEF Init
  <2>3. /\ pc \in [Probers -> {"idle", "drain1", "pulse1", "wait1", "drain2", "pulse2",
                 "wait2", "answer", "burst", "quiet", "stamp", "started", "settle", "verify",
                 "final"}]
        /\ goal \in [Probers -> {"app", "hold", "pulse"}]
        /\ ev \in [Probers -> Tags \cup {"none"}]
    BY DEF Init
  <2> QED BY <2>2, <2>3 DEF Init, TypeOK
<1> QED BY <1>1, TypeStep, PTL DEF Spec

-----------------------------------------------------------------------------

\* The lock is made whole again before reset_for_flash returns, and only a reboot into the
\* application closes the way to the module, giving up the lock in the same breath
\* (source_uart.c:647-650, 658-661).
THEOREM FlashSessionIsWholeHolds == Spec => []FlashSessionIsWhole
<1>1. Init => FlashSessionIsWhole
  BY DEF Init, FlashSessionIsWhole
<1>2. TypeOK /\ FlashSessionIsWhole /\ [Next]_vars => FlashSessionIsWhole'
  <2> SUFFICES ASSUME TypeOK, FlashSessionIsWhole, [Next]_vars  PROVE FlashSessionIsWhole'
    OBVIOUS
  <2> USE DEF FlashSessionIsWhole, fields, probe
  <2>1. CASE Answers \/ Talks \/ RxReads \/ RxFansOut \/ RxChecks \/ RxReleases \/ RxClears
    BY <2>1 DEF Answers, Talks, RxReads, RxFansOut, RxChecks, RxReleases, RxClears
  <2>2. CASE WebBoots
    BY <2>2 DEF WebBoots
  <2>3. ASSUME NEW p \in Probers, pc[p] # "stamp", UNCHANGED <<ready, flash_lock, stamp>>,
               \A q \in Probers \ {p} : pc'[q] = pc[q]
        PROVE  FlashSessionIsWhole'
    BY <2>3
  <2>4. CASE WebHolds \/ HbResets
    <3>1. PICK p \in Probers : pc[p] = "idle" /\ pc' = [pc EXCEPT ![p] = "drain1"]
      BY <2>4 DEF WebHolds, HbResets, Begin
    <3>2. UNCHANGED <<ready, flash_lock, stamp>>
      BY <2>4 DEF WebHolds, HbResets
    <3>3. \A q \in Probers \ {p} : pc'[q] = pc[q]
      BY <3>1 DEF TypeOK
    <3> QED BY <2>3, <3>1, <3>2, <3>3
  <2>5. ASSUME NEW p \in Probers, Probe(p)  PROVE FlashSessionIsWhole'
    <3>0. \A s : Goto(p, s) => /\ pc'[p] = s
                              /\ \A q \in Probers \ {p} : pc'[q] = pc[q]
      BY DEF Goto, TypeOK
    <3>1. CASE PulseDone(p)
      <4>1. CASE goal[p] = "hold"
        BY <3>0, <3>1, <4>1 DEF PulseDone
      <4>2. CASE goal[p] # "hold"
        <5>1. pc[p] = "burst" /\ Goto(p, "idle") /\ UNCHANGED <<ready, flash_lock, stamp>>
          BY <3>1, <4>2 DEF PulseDone
        <5> QED BY <2>3, <3>0, <5>1
      <4> QED BY <4>1, <4>2
    <3>2. CASE HoldStamps(p)
      BY <3>2 DEF HoldStamps
    <3>3. CASE PulseFails(p)
      <4>1. CASE goal[p] = "hold"
        BY <3>3, <4>1 DEF PulseFails
      <4>2. CASE goal[p] # "hold"
        <5>1. pc[p] = "quiet" /\ Goto(p, "idle") /\ UNCHANGED <<ready, flash_lock, stamp>>
          BY <3>3, <4>2 DEF PulseFails
        <5> QED BY <2>3, <3>0, <5>1
      <4> QED BY <4>1, <4>2
    <3>4. CASE BootDone(p)
      <4>1. pc[p] = "final" /\ Goto(p, "idle") /\ UNCHANGED <<flash_lock, stamp>> /\ ready'
        BY <3>4 DEF BootDone
      <4> QED BY <3>0, <4>1
    <3>5. ASSUME NEW k \in {1, 2}, Drains(p, k) \/ Pulses(p, k)
          PROVE  FlashSessionIsWhole'
      <4>1. pc[p] # "stamp" /\ UNCHANGED <<ready, flash_lock, stamp>>
        BY <3>5 DEF Drains, Pulses, DrainAt, PulseAt
      <4>2. Goto(p, PulseAt[k]) \/ Goto(p, WaitAt[k])
        BY <3>5 DEF Drains, Pulses
      <4> QED BY <2>3, <3>0, <4>1, <4>2
    <3>6. CASE Extra(p)
      BY <3>6 DEF Extra, Gets
    <3>7. CASE \/ GetsTag(p) \/ TriesOtherPin(p) \/ NoBanner(p) \/ BannerRead(p) \/ GetsPush(p)
               \/ NoAnswer(p) \/ AsksAgain(p) \/ Verifies(p)
      <4>1. pc[p] # "stamp" /\ UNCHANGED <<ready, flash_lock, stamp>>
        BY <3>7 DEF GetsTag, TriesOtherPin, NoBanner, BannerRead, GetsPush, NoAnswer,
           AsksAgain, Verifies, Gets
      <4>2. \E s : Goto(p, s)
        BY <3>7 DEF GetsTag, TriesOtherPin, NoBanner, BannerRead, GetsPush, NoAnswer,
           AsksAgain, Verifies
      <4> QED BY <2>3, <3>0, <4>1, <4>2
    <3> QED BY <2>5, <3>1, <3>2, <3>3, <3>4, <3>5, <3>6, <3>7 DEF Probe
  <2>6. CASE UNCHANGED vars
    BY <2>6 DEF vars
  <2> QED BY <2>1, <2>2, <2>4, <2>5, <2>6 DEF Next
<1> QED BY <1>1, <1>2, TypeCorrect, PTL DEF Spec

-----------------------------------------------------------------------------
(* The bootloader is kept.                                                 *)

\* p has had the module in its hands: reset it, or holds it in reset.
Reset(p) ==
  \/ pc[p] \notin {"idle", "drain1", "pulse1"}
  \/ pc[p] = "pulse1" /\ Fam = "RF"

\* The module is out of its application and has not been told to start it.
Still == mode # "app" /\ todo \in Seq({"tag"})

\* Without an overlap there is one prober at a time; one that does not want the
\* application keeps the module still from its reset on, and so does the lock, under
\* which nobody wants the application.
HInv ==
  ~overlap =>
    /\ \A p, q \in Probers : Probing(p) /\ Probing(q) => p = q
    /\ \A p \in Probers : Reset(p) /\ goal[p] # "app" => Still
    /\ flash_lock => Still /\ \A p \in Probers : Probing(p) => goal[p] # "app"

\* A step that leaves the probers, the lock and the histories alone, and the module
\* still if it was.
LEMMA HStays ==
  ASSUME HInv, UNCHANGED <<pc, goal, overlap>>, flash_lock' => flash_lock, Still => Still'
  PROVE  HInv'
  BY DEF HInv, Probing, Reset

\* A step of p that locks only what it has in its hands, and keeps the module still
\* from its reset on unless it wants the application.
LEMMA HMoves ==
  ASSUME HInv, NEW p \in Probers, pc[p] # "idle",
         \A q \in Probers \ {p} : pc'[q] = pc[q], UNCHANGED <<goal, overlap>>,
         \/ flash_lock' = flash_lock
         \/ flash_lock' = FALSE
         \/ Reset(p) /\ goal[p] # "app",
         goal[p] # "app" => (Still => Still') /\ (Reset(p) \/ ~Reset(p)' \/ Still')
  PROVE  HInv'
<1> SUFFICES ASSUME ~overlap'  PROVE HInv'
  BY DEF HInv
<1>1. /\ \A q, r \in Probers : Probing(q) /\ Probing(r) => q = r
      /\ \A q \in Probers : Reset(q) /\ goal[q] # "app" => Still
      /\ flash_lock => Still /\ \A q \in Probers : Probing(q) => goal[q] # "app"
  BY DEF HInv
<1>2. \A q \in Probers \ {p} : ~Probing(q) /\ pc'[q] = "idle"
  BY <1>1 DEF Probing
<1>3. \A q, r \in Probers : Probing(q)' /\ Probing(r)' => q = r
  BY <1>2 DEF Probing
<1>4. \A q \in Probers : Reset(q)' /\ goal'[q] # "app" => Still'
  <2> SUFFICES ASSUME Reset(p)', goal[p] # "app"  PROVE Still'
    BY <1>2 DEF Reset
  <2> QED BY <1>1
<1>5. flash_lock' => Still' /\ goal[p] # "app"
  <2> SUFFICES ASSUME flash_lock'  PROVE Still' /\ goal[p] # "app"
    OBVIOUS
  <2>1. goal[p] # "app"
    BY <1>1 DEF Probing
  <2>2. Still
    BY <1>1
  <2> QED BY <2>1, <2>2
<1> QED BY <1>2, <1>3, <1>4, <1>5 DEF HInv, Probing

LEMMA StillSent == Still /\ Sent("tag") /\ mode' = mode => Still'
  BY DEF Still, Sent

LEMMA HProbe ==
  ASSUME TypeOK, HInv, NEW p \in Probers, Probe(p)
  PROVE  HInv'
<1>1. \A s : pc' = [pc EXCEPT ![p] = s] => \A q \in Probers \ {p} : pc'[q] = pc[q]
  BY DEF TypeOK
<1> USE DEF Goto, module, fields, probe
<1>2. ASSUME NEW k \in {1, 2}, Drains(p, k)  PROVE HInv'
  <2>1. /\ pc[p] # "idle" /\ pc' = [pc EXCEPT ![p] = PulseAt[k]]
        /\ UNCHANGED <<goal, overlap, flash_lock>>
    BY <1>2 DEF Drains, DrainAt
  <2>2. Still => Still'
    <3>1. <<>> \in Seq({"tag"}) /\ <<"tag">> \in Seq({"tag"})
      OBVIOUS
    <3>2. CASE Fam = Pin[k]  BY <1>2, <3>1, <3>2 DEF Drains, Still
    <3>3. CASE Fam # Pin[k]  BY <1>2, <3>1, <3>3 DEF Drains, Still
    <3> QED BY <3>2, <3>3
  <2>3. Reset(p)' /\ ~Reset(p) => Still'
    <3> SUFFICES ASSUME Reset(p)', ~Reset(p)  PROVE Still'
      OBVIOUS
    <3>1. k = 1 /\ Fam = "RF"
      BY <1>2, <2>1 DEF Reset, Drains, DrainAt, PulseAt
    <3> QED BY <1>2, <3>1 DEF Drains, Pin, Still
  <2> QED BY <1>1, <2>1, <2>2, <2>3, HMoves
<1>3. ASSUME NEW k \in {1, 2}, Pulses(p, k)  PROVE HInv'
  <2>1. /\ pc[p] # "idle" /\ pc' = [pc EXCEPT ![p] = WaitAt[k]]
        /\ UNCHANGED <<goal, overlap, flash_lock>>
    BY <1>3 DEF Pulses, PulseAt
  <2>2. Still => Still'
    <3>1. <<>> \in Seq({"tag"}) /\ <<"tag">> \in Seq({"tag"})
      OBVIOUS
    <3>2. CASE Fam = Pin[k]  BY <1>3, <3>1, <3>2 DEF Pulses, Still
    <3>3. CASE Fam # Pin[k]  BY <1>3, <3>1, <3>3 DEF Pulses, Still
    <3> QED BY <3>2, <3>3
  <2>3. Reset(p)' /\ ~Reset(p) => Still'
    <3> SUFFICES ASSUME ~Reset(p)  PROVE Still'
      OBVIOUS
    <3>1. k = 1 /\ Fam = "HM"
      BY <1>3 DEF Reset, Pulses, PulseAt
    <3>2. mode' = "bl" /\ todo' = <<"tag">>
      BY <1>3, <3>1 DEF Pulses, Pin
    <3>3. <<"tag">> \in Seq({"tag"})
      OBVIOUS
    <3> QED BY <3>2, <3>3 DEF Still
  <2> QED BY <1>1, <2>1, <2>2, <2>3, HMoves
<1>4. CASE GetsTag(p)
  <2>1. /\ Reset(p) /\ UNCHANGED <<goal, overlap, flash_lock>>
        /\ pc[p] # "idle" /\ pc' = [pc EXCEPT ![p] = "burst"]
    BY <1>4 DEF GetsTag, Gets, Reset
  <2>2. Still => Still'
    BY <1>4 DEF GetsTag, Gets, Still
  <2> QED BY <1>1, <2>1, <2>2, HMoves
<1>5. CASE TriesOtherPin(p)
  <2>1. /\ Reset(p) /\ UNCHANGED <<goal, overlap, flash_lock>>
        /\ pc[p] # "idle" /\ pc' = [pc EXCEPT ![p] = "drain2"]
    BY <1>5 DEF TriesOtherPin, GivesUp, Reset
  <2>2. Still => Still'
    BY <1>5 DEF TriesOtherPin, GivesUp, Still
  <2> QED BY <1>1, <2>1, <2>2, HMoves
<1>6. CASE NoBanner(p)
  <2>1. /\ Reset(p) /\ UNCHANGED <<goal, overlap, flash_lock>> /\ pc[p] # "idle"
        /\ \E s \in {"answer", "quiet"} : pc' = [pc EXCEPT ![p] = s]
    BY <1>6 DEF NoBanner, GivesUp, Reset
  <2>2. Still => Still'
    BY <1>6, StillSent DEF NoBanner, GivesUp, Still
  <2> QED BY <1>1, <2>1, <2>2, HMoves
<1>7. CASE Extra(p)
  <2>1. /\ UNCHANGED <<pc, goal, overlap, flash_lock>>
        /\ Still => Still'
    BY <1>7 DEF Extra, Gets, Still
  <2> QED BY <2>1, HStays
<1>16. CASE HoldStamps(p)
  <2>1. /\ Reset(p) /\ UNCHANGED <<goal, overlap, flash_lock>>
        /\ pc[p] # "idle" /\ pc' = [pc EXCEPT ![p] = "idle"]
    BY <1>16 DEF HoldStamps, Reset
  <2>2. Still => Still'
    BY <1>16 DEF HoldStamps, Still
  <2> QED BY <1>1, <2>1, <2>2, HMoves
<1>8. CASE PulseDone(p)
  <2>1. /\ Reset(p) /\ goal[p] # "app" /\ UNCHANGED <<goal, overlap>>
        /\ pc[p] # "idle" /\ \E s \in {"idle", "stamp"} : pc' = [pc EXCEPT ![p] = s]
    BY <1>8 DEF PulseDone, Quiet, Reset
  <2>2. Still => Still'
    BY <1>8 DEF PulseDone, Quiet, Still
  <2> QED BY <1>1, <2>1, <2>2, HMoves
<1>9. CASE PulseFails(p)
  <2>1. /\ Reset(p) /\ UNCHANGED <<goal, overlap>> 
        /\ flash_lock' = flash_lock \/ flash_lock' = FALSE
        /\ pc[p] # "idle" /\ pc' = [pc EXCEPT ![p] = "idle"]
    BY <1>9 DEF PulseFails, Quiet, Reset
  <2>2. Still => Still'
    BY <1>9 DEF PulseFails, Quiet, Still
  <2> QED BY <1>1, <2>1, <2>2, HMoves
<1>10. CASE BannerRead(p)
  <2>1. /\ Reset(p) /\ goal[p] = "app" /\ UNCHANGED <<goal, overlap, flash_lock>>
        /\ pc[p] # "idle"
        /\ \E s \in {"verify", "started", "idle"} : pc' = [pc EXCEPT ![p] = s]
    BY <1>10 DEF BannerRead, Quiet, Reset
  <2> QED BY <1>1, <2>1, HMoves
<1>11. CASE GetsPush(p)
  <2>1. /\ Reset(p) /\ UNCHANGED <<goal, overlap, flash_lock>> /\ pc[p] # "idle"
        /\ \E s \in {"settle", "idle"} : pc' = [pc EXCEPT ![p] = s]
    BY <1>11 DEF GetsPush, Gets, Reset
  <2>2. Still => Still'
    BY <1>11 DEF GetsPush, Gets, Still
  <2> QED BY <1>1, <2>1, <2>2, HMoves
<1>12. CASE NoAnswer(p)
  <2>1. /\ Reset(p) /\ UNCHANGED <<goal, overlap, flash_lock>>
        /\ pc[p] # "idle" /\ pc' = [pc EXCEPT ![p] = "idle"]
    BY <1>12 DEF NoAnswer, GivesUp, Reset
  <2>2. Still => Still'
    BY <1>12 DEF NoAnswer, GivesUp, Still
  <2> QED BY <1>1, <2>1, <2>2, HMoves
<1>13. CASE AsksAgain(p)
  <2>1. /\ Reset(p) /\ UNCHANGED <<goal, overlap, flash_lock>>
        /\ pc[p] # "idle" /\ pc' = [pc EXCEPT ![p] = "verify"]
    BY <1>13 DEF AsksAgain, Quiet, Reset
  <2>2. Still => Still'
    BY <1>13, StillSent DEF AsksAgain, Quiet
  <2> QED BY <1>1, <2>1, <2>2, HMoves
<1>14. CASE Verifies(p)
  <2>1. /\ Reset(p) /\ UNCHANGED <<goal, overlap, flash_lock>>
        /\ pc[p] # "idle" /\ pc' = [pc EXCEPT ![p] = "final"]
    BY <1>14 DEF Verifies, Gets, GivesUp, Reset
  <2>2. Still => Still'
    BY <1>14 DEF Verifies, Gets, GivesUp, Still
  <2> QED BY <1>1, <2>1, <2>2, HMoves
<1>15. CASE BootDone(p)
  <2>1. /\ Reset(p) /\ UNCHANGED <<goal, overlap, flash_lock>>
        /\ pc[p] # "idle" /\ pc' = [pc EXCEPT ![p] = "idle"]
    BY <1>15 DEF BootDone, Quiet, Reset
  <2>2. Still => Still'
    BY <1>15 DEF BootDone, Quiet, Still
  <2> QED BY <1>1, <2>1, <2>2, HMoves
<1> QED
  BY <1>2, <1>3, <1>4, <1>5, <1>6, <1>7, <1>8, <1>9, <1>10, <1>11, <1>12, <1>13, <1>14,
     <1>15, <1>16 DEF Probe

\* A prober that begins while no other is at it has not touched the module yet.
LEMMA HBegin ==
  ASSUME TypeOK, HInv, NEW p \in {"web", "hb"}, NEW g \in {"app", "hold", "pulse"},
         Begin(p, g), flash_lock' => flash_lock /\ g # "app"
  PROVE  HInv'
<1> SUFFICES ASSUME ~overlap'  PROVE HInv'
  BY DEF HInv
<1>1. /\ p \in Probers /\ pc' = [pc EXCEPT ![p] = "drain1"]
      /\ goal' = [goal EXCEPT ![p] = g] /\ UNCHANGED <<mode, todo>>
  BY BeginTypes
<1>2. ~overlap /\ \A q \in Probers \ {p} : pc[q] = "idle"
  BY DEF Begin, Probing
<1>3. \A q \in Probers : ~Reset(q)'
  BY <1>1, <1>2 DEF Reset, TypeOK
<1>4. \A q \in Probers : Probing(q)' => q = p /\ goal'[q] = g
  BY <1>1, <1>2 DEF Probing, TypeOK
<1>5. flash_lock => Still
  BY <1>2 DEF HInv
<1>6. Still => Still'
  BY <1>1 DEF Still
<1> QED BY <1>3, <1>4, <1>5, <1>6 DEF HInv

LEMMA HStep == TypeOK /\ HInv /\ [Next]_vars => HInv'
<1> SUFFICES ASSUME TypeOK, HInv, [Next]_vars  PROVE HInv'
  OBVIOUS
<1> USE DEF module, fields, probe
<1>1. CASE Answers
  <2>1. Still => Still'
    <3> SUFFICES ASSUME Still  PROVE Still'
      OBVIOUS
    <3>1. todo # <<>> /\ todo \in Seq({"tag"})
      BY <1>1 DEF Answers, Still
    <3>2. Head(todo) = "tag" /\ Tail(todo) \in Seq({"tag"})
      BY <3>1
    <3> QED BY <1>1, <3>2 DEF Answers, Still
  <2> QED BY <1>1, <2>1, HStays DEF Answers
<1>2. CASE Talks \/ RxReads \/ RxFansOut \/ RxChecks \/ RxReleases \/ RxClears
  <2>1. /\ UNCHANGED <<pc, goal, overlap>> /\ (flash_lock' => flash_lock)
        /\ UNCHANGED <<mode, todo>>
    BY <1>2 DEF Talks, RxReads, RxFansOut, RxChecks, RxReleases, RxClears
  <2> QED BY <2>1, HStays DEF Still
<1>3. CASE WebHolds
  BY <1>3, HBegin DEF WebHolds
<1>4. CASE WebBoots
  BY <1>4, HBegin DEF WebBoots
<1>5. CASE HbResets
  BY <1>5, HBegin DEF HbResets
<1>6. ASSUME NEW p \in Probers, Probe(p)  PROVE HInv'
  BY <1>6, HProbe
<1>7. CASE UNCHANGED vars
  BY <1>7, HStays DEF vars, Still
<1> QED BY <1>1, <1>2, <1>3, <1>4, <1>5, <1>6, <1>7 DEF Next

\* The module stays in its bootloader for as long as it is locked for flashing,
\* whatever it sends and however late, if no two probers are at it at once.
THEOREM HoldKeepsBootloaderHolds == Spec => []HoldKeepsBootloader
<1>1. Init => HInv
  BY DEF Init, HInv, Probing
<1>2. HInv => HoldKeepsBootloader
  BY DEF HInv, HoldKeepsBootloader, Still
<1> QED BY <1>1, <1>2, HStep, TypeCorrect, PTL DEF Spec

-----------------------------------------------------------------------------
(* The truth of boot_done: as long as nothing goes amiss there is at most one *)
(* answer to wait for, and it is true of the module when it is read.          *)

Tagless(w) == \A i \in 1 .. Len(w) : w[i] \notin Tags

\* Where the answer is: nowhere, with the module, under way, or in the queue.
Rest   == todo = <<>> /\ boot_q = <<>> /\ Tagless(wire)
Asked  == Len(todo) = 1 /\ boot_q = <<>> /\ Tagless(wire)
OnWire == /\ todo = <<>> /\ boot_q = <<>>
          /\ \E i \in 1 .. Len(wire) :
               /\ wire[i] = mode /\ mode \in Tags
               /\ \A j \in 1 .. Len(wire) : j # i => wire[j] \notin Tags
Posted == todo = <<>> /\ boot_q = <<mode>> /\ Tagless(wire)

OneAnswer == Rest \/ Asked \/ OnWire \/ Posted

Waiting(p) == pc[p] \in {"wait1", "wait2", "answer", "started", "verify"}

\* The prober has seen the application.
Started(p) == pc[p] \in {"settle", "verify", "final"}

Truthful ==
  /\ \A p, q \in Probers : Probing(p) /\ Probing(q) => p = q
  /\ OneAnswer
  /\ (\A p \in Probers : ~Waiting(p)) => Rest
  /\ \A p \in Probers : pc[p] = "burst" => ev[p] = mode
  /\ \A p \in Probers : Started(p) => mode = "app"
  /\ boot_done => mode = "app" /\ \A p \in Probers : ~Probing(p)

SInv == ~overlap /\ amiss = {} => Truthful

\* What the module and uart_rx_task do to the answer.
LEMMA AnswerMoves ==
  ASSUME TypeOK, OneAnswer, Answers
  PROVE  /\ OnWire' /\ ~Rest
         /\ mode' = mode \/ mode' = "app"
<1>1. todo # <<>> /\ Len(todo) \in Nat
  BY DEF Answers, TypeOK
<1>2. Asked
  BY <1>1 DEF OneAnswer, Rest, OnWire, Posted
<1>3. Tail(todo) = <<>> /\ mode \in {"bl", "app"}
  <2>1. todo \in Seq({"tag", "start"}) /\ Len(todo) = 1
    BY <1>2 DEF Asked, TypeOK
  <2>2. Tail(todo) \in Seq({"tag", "start"}) /\ Len(Tail(todo)) = 0
    BY <1>1, <2>1
  <2>3. \A q \in Seq({"tag", "start"}) : Len(q) = 0 => q = <<>>
    OBVIOUS
  <2>4. Tail(todo) = <<>>
    BY <2>2, <2>3
  <2> QED BY <1>1, <2>4 DEF TypeOK
<1>4. mode' \in {"bl", "app"} /\ (mode' = mode \/ mode' = "app")
  BY <1>3 DEF Answers
<1>5. /\ Len(wire') = Len(wire) + 1 /\ Len(wire) \in Nat /\ wire'[Len(wire')] = mode'
      /\ \A j \in 1 .. Len(wire) : wire'[j] = wire[j]
  BY DEF Answers, TypeOK
<1>6. \A j \in 1 .. Len(wire') : j # Len(wire') => wire'[j] \notin Tags
  BY <1>2, <1>5 DEF Asked, Tagless
<1>7. OnWire'
  <2>1. Len(wire') \in 1 .. Len(wire')
    BY <1>5
  <2> QED BY <1>2, <1>3, <1>4, <1>5, <1>6, <2>1 DEF OnWire, Answers, Asked, Tags
<1> QED BY <1>1, <1>4, <1>7 DEF Rest

LEMMA TalkKeeps ==
  ASSUME TypeOK, OneAnswer, Talks, amiss' = {}
  PROVE  OneAnswer' /\ (Rest => Rest')
<1>1. PICK f \in Noise : wire' = Append(wire, f) /\ f \notin Tags
  BY DEF Talks
<1>2. /\ Len(wire') = Len(wire) + 1 /\ Len(wire) \in Nat /\ wire'[Len(wire')] \notin Tags
      /\ \A j \in 1 .. Len(wire) : wire'[j] = wire[j]
  BY <1>1 DEF TypeOK
<1>3. Tagless(wire) => Tagless(wire')
  BY <1>2 DEF Tagless
<1>4. OnWire => OnWire'
  <2> SUFFICES ASSUME OnWire  PROVE OnWire'
    OBVIOUS
  <2>1. PICK i \in 1 .. Len(wire) :
          /\ wire[i] = mode /\ mode \in Tags
          /\ \A j \in 1 .. Len(wire) : j # i => wire[j] \notin Tags
    BY DEF OnWire
  <2>2. /\ i \in 1 .. Len(wire') /\ wire'[i] = mode
        /\ \A j \in 1 .. Len(wire') : j # i => wire'[j] \notin Tags
    BY <1>2, <2>1
  <2> QED BY <2>1, <2>2 DEF OnWire, Talks
<1> QED BY <1>3, <1>4 DEF OneAnswer, Rest, Asked, Posted, Talks

LEMMA ReadMoves ==
  ASSUME TypeOK, OneAnswer, RxReads
  PROVE  OneAnswer' /\ (Rest => Rest')
<1>1. /\ wire # <<>> /\ wire' = Tail(wire) /\ UNCHANGED <<mode, todo>>
      /\ Len(wire) \in Nat /\ Len(wire) > 0 /\ Head(wire) = wire[1]
      /\ Len(wire') = Len(wire) - 1
      /\ \A j \in 1 .. Len(wire') : wire'[j] = wire[j + 1]
  BY DEF RxReads, TypeOK
<1>2. CASE Tagless(wire)
  <2>1. Head(wire) \notin Tags
    BY <1>1, <1>2 DEF Tagless
  <2>2. boot_q' = boot_q
    BY <2>1 DEF RxReads
  <2>3. Tagless(wire')
    BY <1>1, <1>2 DEF Tagless
  <2>4. ~OnWire
    BY <1>2 DEF OnWire, Tagless
  <2> QED BY <1>1, <2>2, <2>3, <2>4 DEF OneAnswer, Rest, Asked, Posted
<1>3. CASE ~Tagless(wire)
  <2>1. OnWire /\ ~Rest
    BY <1>3 DEF OneAnswer, Rest, Asked, Posted
  <2>2. PICK i \in 1 .. Len(wire) :
          /\ wire[i] = mode /\ mode \in Tags
          /\ \A j \in 1 .. Len(wire) : j # i => wire[j] \notin Tags
    BY <2>1 DEF OnWire
  <2>3. CASE i = 1
    <3>1. Tagless(wire')
      BY <1>1, <2>2, <2>3 DEF Tagless
    <3>2. boot_q' = <<>> \/ boot_q' = <<mode>>
      BY <1>1, <2>1, <2>2, <2>3 DEF OnWire, RxReads
    <3> QED BY <1>1, <2>1, <3>1, <3>2 DEF OneAnswer, OnWire, Rest, Posted
  <2>4. CASE i # 1
    <3>1. Head(wire) \notin Tags
      BY <1>1, <2>2, <2>4
    <3>2. boot_q' = boot_q
      BY <3>1 DEF RxReads
    <3>3. i - 1 \in 1 .. Len(wire') /\ wire'[i - 1] = mode
      BY <1>1, <2>2, <2>4
    <3>4. \A j \in 1 .. Len(wire') : j # i - 1 => wire'[j] \notin Tags
      BY <1>1, <2>2
    <3>5. OnWire'
      BY <1>1, <2>1, <2>2, <3>2, <3>3, <3>4 DEF OnWire
    <3> QED BY <2>1, <3>5 DEF OneAnswer
  <2> QED BY <2>3, <2>4
<1> QED BY <1>2, <1>3

\* What a wait and a question do to it.
LEMMA GetTakesAll ==
  ASSUME TypeOK, OneAnswer, NEW p \in Probers, Gets(p)
  PROVE  Rest' /\ Head(boot_q) = mode /\ ~Rest
<1>1. Posted
  BY DEF OneAnswer, Rest, Asked, OnWire, Gets
<1> QED BY <1>1 DEF Posted, Rest, Gets, module

LEMMA GiveUpRests ==
  ASSUME TypeOK, OneAnswer, NEW p \in Probers, GivesUp(p), amiss' = {}
  PROVE  Rest
<1>1. boot_q = <<>> /\ ~Coming
  BY DEF GivesUp
<1>2. ~Asked /\ ~OnWire /\ ~Posted
  BY <1>1 DEF Asked, OnWire, Posted, Coming
<1> QED BY <1>2 DEF OneAnswer

LEMMA Question ==
  ASSUME TypeOK, Rest, NEW c \in {"tag", "start"}, Sent(c), UNCHANGED <<boot_q, wire, mode>>
  PROVE  OneAnswer'
<1>1. todo' = <<>> \/ todo' = <<c>>
  BY DEF Sent, Rest
<1> QED BY <1>1 DEF OneAnswer, Rest, Asked

\* A prober goes from one place to another.
MovesTo(p, s) ==
  /\ pc[p] # "idle" /\ pc' = [pc EXCEPT ![p] = s]
  /\ OneAnswer'
  /\ s \notin {"wait1", "wait2", "answer", "started", "verify"} => Rest'
  /\ s = "burst" => ev'[p] = mode'
  /\ s \in {"settle", "verify", "final"} => mode' = "app"
  /\ boot_done' => boot_done \/ (mode' = "app" /\ s = "idle")

LEMMA SMoves ==
  ASSUME TypeOK, Truthful, NEW p \in Probers, NEW s, MovesTo(p, s)
  PROVE  Truthful'
<1>0. /\ pc[p] # "idle" /\ pc' = [pc EXCEPT ![p] = s]
      /\ OneAnswer'
      /\ s \notin {"wait1", "wait2", "answer", "started", "verify"} => Rest'
      /\ s = "burst" => ev'[p] = mode'
      /\ s \in {"settle", "verify", "final"} => mode' = "app"
      /\ boot_done' => boot_done \/ (mode' = "app" /\ s = "idle")
  BY DEF MovesTo
<1>1. pc'[p] = s /\ \A q \in Probers \ {p} : pc'[q] = pc[q]
  BY <1>0 DEF TypeOK
<1>2. ~boot_done /\ \A q \in Probers \ {p} : pc[q] = "idle"
  BY <1>0 DEF Truthful, Probing
<1>3. \A q \in Probers \ {p} : pc'[q] = "idle"
  BY <1>1, <1>2
<1>4. \A q, r \in Probers : Probing(q)' /\ Probing(r)' => q = r
  BY <1>3 DEF Probing
<1>5. (\A q \in Probers : ~Waiting(q)') => Rest'
  BY <1>0, <1>1 DEF Waiting
<1>6. \A q \in Probers : (pc'[q] = "burst" => ev'[q] = mode') /\ (Started(q)' => mode' = "app")
  BY <1>0, <1>1, <1>3 DEF Started
<1>7. boot_done' => mode' = "app" /\ \A q \in Probers : ~Probing(q)'
  BY <1>0, <1>1, <1>2, <1>3 DEF Probing
<1> QED BY <1>0, <1>4, <1>5, <1>6, <1>7 DEF Truthful

LEMMA SProbe ==
  ASSUME TypeOK, Truthful, NEW p \in Probers, Probe(p), amiss' = {}
  PROVE  Truthful'
<1> USE DEF Goto, module, fields, probe
<1>0. /\ OneAnswer /\ (pc[p] # "idle" => ~boot_done)
      /\ pc[p] # "idle" /\ ~Waiting(p) => Rest
      /\ pc[p] = "burst" => ev[p] = mode
      /\ Started(p) => mode = "app"
  <2>1. pc[p] # "idle" => \A q \in Probers \ {p} : ~Waiting(q)
    BY DEF Truthful, Probing, Waiting
  <2> QED BY <2>1 DEF Truthful, Probing
<1>1. ASSUME NEW k \in {1, 2}, Drains(p, k)  PROVE Truthful'
  <2>1. /\ pc[p] \in {"drain1", "drain2"} /\ pc' = [pc EXCEPT ![p] = PulseAt[k]]
        /\ PulseAt[k] \in {"pulse1", "pulse2"} /\ UNCHANGED boot_done
    BY <1>1 DEF Drains, DrainAt, PulseAt
  <2>2. Rest
    BY <1>0, <2>1 DEF Waiting
  <2>3. todo' = <<>>
    <3>1. CASE Fam = Pin[k]  BY <1>1, <2>2, <3>1 DEF Drains, Rest
    <3>2. CASE Fam # Pin[k]  BY <1>1, <3>2 DEF Drains
    <3> QED BY <3>1, <3>2
  <2>4. Rest'
    BY <1>1, <2>2, <2>3 DEF Drains, Rest
  <2>5. MovesTo(p, PulseAt[k])
    BY <2>1, <2>4 DEF OneAnswer, MovesTo
  <2> QED BY <2>5, SMoves
<1>2. ASSUME NEW k \in {1, 2}, Pulses(p, k)  PROVE Truthful'
  <2>1. /\ pc[p] \in {"pulse1", "pulse2"} /\ pc' = [pc EXCEPT ![p] = WaitAt[k]]
        /\ WaitAt[k] \in {"wait1", "wait2"} /\ UNCHANGED boot_done
    BY <1>2 DEF Pulses, PulseAt, WaitAt
  <2>2. Rest
    BY <1>0, <2>1 DEF Waiting
  <2>3. todo' = <<>> \/ todo' = <<"tag">>
    <3>1. CASE Fam = Pin[k]  BY <1>2, <3>1 DEF Pulses
    <3>2. CASE Fam # Pin[k]  BY <1>2, <2>2, <3>2 DEF Pulses, Rest
    <3> QED BY <3>1, <3>2
  <2>4. OneAnswer'
    BY <1>2, <2>2, <2>3 DEF Pulses, OneAnswer, Rest, Asked
  <2>5. MovesTo(p, WaitAt[k])
    BY <2>1, <2>4 DEF MovesTo
  <2> QED BY <2>5, SMoves
<1>3. CASE GetsTag(p)
  <2>1. /\ Gets(p) /\ pc[p] # "idle" /\ pc' = [pc EXCEPT ![p] = "burst"]
        /\ ev' = [ev EXCEPT ![p] = Head(boot_q)] /\ UNCHANGED <<boot_done, mode>>
    BY <1>3 DEF GetsTag, Gets
  <2>2. Rest' /\ ev'[p] = mode'
    BY <1>0, <2>1, GetTakesAll DEF TypeOK
  <2>3. MovesTo(p, "burst")
    BY <2>1, <2>2 DEF OneAnswer, MovesTo
  <2> QED BY <2>3, SMoves
<1>4. CASE TriesOtherPin(p)
  <2>1. /\ GivesUp(p) /\ pc[p] # "idle" /\ pc' = [pc EXCEPT ![p] = "drain2"]
        /\ UNCHANGED <<boot_done, mode, todo, boot_q, wire>>
    BY <1>4 DEF TriesOtherPin, GivesUp
  <2>2. Rest'
    BY <1>0, <2>1, GiveUpRests DEF Rest
  <2>3. MovesTo(p, "drain2")
    BY <2>1, <2>2 DEF OneAnswer, MovesTo
  <2> QED BY <2>3, SMoves
<1>5. CASE NoBanner(p)
  <2>1. /\ GivesUp(p) /\ pc[p] # "idle" /\ UNCHANGED <<boot_done, mode, boot_q, wire>>
        /\ \/ Sent("tag") /\ pc' = [pc EXCEPT ![p] = "answer"]
           \/ UNCHANGED todo /\ pc' = [pc EXCEPT ![p] = "quiet"]
    BY <1>5 DEF NoBanner, GivesUp
  <2>2. Rest
    BY <1>0, <2>1, GiveUpRests
  <2>3. CASE Sent("tag") /\ pc' = [pc EXCEPT ![p] = "answer"]
    <3>1. OneAnswer'
      BY <2>1, <2>2, <2>3, Question
    <3>2. MovesTo(p, "answer")
      BY <2>1, <2>3, <3>1 DEF MovesTo
    <3> QED BY <3>2, SMoves
  <2>4. CASE UNCHANGED todo /\ pc' = [pc EXCEPT ![p] = "quiet"]
    <3>1. Rest'
      BY <2>1, <2>2, <2>4 DEF Rest
    <3>2. MovesTo(p, "quiet")
      BY <2>1, <2>4, <3>1 DEF OneAnswer, MovesTo
    <3> QED BY <3>2, SMoves
  <2> QED BY <2>1, <2>3, <2>4
<1>6. CASE Extra(p)
  <2>1. Gets(p) /\ pc[p] # "idle" /\ ~Waiting(p)
    BY <1>6 DEF Extra, Waiting
  <2> QED BY <1>0, <2>1, GetTakesAll
<1>7. CASE PulseDone(p) \/ HoldStamps(p) \/ PulseFails(p)
  <2>1. /\ pc[p] \in {"burst", "quiet", "stamp"}
        /\ \E s \in {"idle", "stamp"} : pc' = [pc EXCEPT ![p] = s]
        /\ UNCHANGED <<boot_done, mode, todo, boot_q, wire>>
    BY <1>7 DEF PulseDone, HoldStamps, PulseFails, Quiet
  <2>2. Rest'
    BY <1>0, <2>1 DEF Rest, Waiting
  <2>3. \E s \in {"idle", "stamp"} : MovesTo(p, s)
    BY <2>1, <2>2 DEF OneAnswer, MovesTo
  <2> QED BY <2>3, SMoves
<1>8. CASE BannerRead(p)
  <2>1. /\ pc[p] = "burst" /\ UNCHANGED <<boot_done, mode, boot_q, wire>>
        /\ \/ ev[p] = "app" /\ Sent("tag") /\ pc' = [pc EXCEPT ![p] = "verify"]
           \/ Sent("start") /\ pc' = [pc EXCEPT ![p] = "started"]
           \/ UNCHANGED todo /\ pc' = [pc EXCEPT ![p] = "idle"]
    BY <1>8 DEF BannerRead, Quiet
  <2>2. Rest /\ ev[p] = mode
    BY <1>0, <2>1 DEF Waiting
  <2>3. CASE ev[p] = "app" /\ Sent("tag") /\ pc' = [pc EXCEPT ![p] = "verify"]
    <3>1. OneAnswer' /\ mode' = "app"
      BY <2>1, <2>2, <2>3, Question
    <3>2. MovesTo(p, "verify")
      BY <2>1, <2>3, <3>1 DEF MovesTo
    <3> QED BY <3>2, SMoves
  <2>4. CASE Sent("start") /\ pc' = [pc EXCEPT ![p] = "started"]
    <3>1. OneAnswer'
      BY <2>1, <2>2, <2>4, Question
    <3>2. MovesTo(p, "started")
      BY <2>1, <2>4, <3>1 DEF MovesTo
    <3> QED BY <3>2, SMoves
  <2>5. CASE UNCHANGED todo /\ pc' = [pc EXCEPT ![p] = "idle"]
    <3>1. Rest'
      BY <2>1, <2>2, <2>5 DEF Rest
    <3>2. MovesTo(p, "idle")
      BY <2>1, <2>5, <3>1 DEF OneAnswer, MovesTo
    <3> QED BY <3>2, SMoves
  <2> QED BY <2>1, <2>3, <2>4, <2>5
<1>9. CASE GetsPush(p)
  <2>1. /\ Gets(p) /\ pc[p] # "idle" /\ UNCHANGED <<boot_done, mode>>
        /\ \/ Head(boot_q) = "app" /\ pc' = [pc EXCEPT ![p] = "settle"]
           \/ pc' = [pc EXCEPT ![p] = "idle"]
    BY <1>9 DEF GetsPush, Gets
  <2>2. Rest' /\ Head(boot_q) = mode
    BY <1>0, <2>1, GetTakesAll
  <2>3. CASE Head(boot_q) = "app" /\ pc' = [pc EXCEPT ![p] = "settle"]
    <3>1. MovesTo(p, "settle")
      BY <2>1, <2>2, <2>3 DEF OneAnswer, MovesTo
    <3> QED BY <3>1, SMoves
  <2>4. CASE pc' = [pc EXCEPT ![p] = "idle"]
    <3>1. MovesTo(p, "idle")
      BY <2>1, <2>2, <2>4 DEF OneAnswer, MovesTo
    <3> QED BY <3>1, SMoves
  <2> QED BY <2>1, <2>3, <2>4
<1>10. CASE NoAnswer(p)
  <2>1. /\ GivesUp(p) /\ pc[p] # "idle" /\ pc' = [pc EXCEPT ![p] = "idle"]
        /\ UNCHANGED <<boot_done, mode, todo, boot_q, wire>>
    BY <1>10 DEF NoAnswer, GivesUp
  <2>2. Rest'
    BY <1>0, <2>1, GiveUpRests DEF Rest
  <2>3. MovesTo(p, "idle")
    BY <2>1, <2>2 DEF OneAnswer, MovesTo
  <2> QED BY <2>3, SMoves
<1>11. CASE AsksAgain(p)
  <2>1. /\ pc[p] = "settle" /\ pc' = [pc EXCEPT ![p] = "verify"] /\ Sent("tag")
        /\ UNCHANGED <<boot_done, mode, boot_q, wire>>
    BY <1>11 DEF AsksAgain, Quiet
  <2>2. Rest /\ mode = "app"
    BY <1>0, <2>1 DEF Waiting, Started
  <2>3. OneAnswer'
    BY <2>1, <2>2, Question
  <2>4. MovesTo(p, "verify")
    BY <2>1, <2>2, <2>3 DEF MovesTo
  <2> QED BY <2>4, SMoves
<1>12. CASE Verifies(p)
  <2>1. /\ pc[p] = "verify" /\ pc' = [pc EXCEPT ![p] = "final"]
        /\ UNCHANGED <<boot_done, mode>>
        /\ \/ Gets(p)
           \/ GivesUp(p) /\ UNCHANGED <<todo, boot_q, wire>>
    <3>1. CASE Gets(p)
      BY <1>12, <3>1 DEF Verifies, Gets
    <3>2. CASE ~Gets(p)
      BY <1>12, <3>2 DEF Verifies, GivesUp
    <3> QED BY <3>1, <3>2
  <2>2. Rest'
    BY <1>0, <2>1, GetTakesAll, GiveUpRests DEF Rest
  <2>3. mode' = "app"
    BY <1>0, <2>1 DEF Started
  <2>4. MovesTo(p, "final")
    BY <2>1, <2>2, <2>3 DEF OneAnswer, MovesTo
  <2> QED BY <2>4, SMoves
<1>13. CASE BootDone(p)
  <2>1. /\ pc[p] = "final" /\ pc' = [pc EXCEPT ![p] = "idle"]
        /\ UNCHANGED <<mode, todo, boot_q, wire>>
    BY <1>13 DEF BootDone, Quiet
  <2>2. Rest' /\ mode' = "app"
    BY <1>0, <2>1 DEF Rest, Waiting, Started
  <2>3. MovesTo(p, "idle")
    BY <2>1, <2>2 DEF OneAnswer, MovesTo
  <2> QED BY <2>3, SMoves
<1> QED
  BY <1>1, <1>2, <1>3, <1>4, <1>5, <1>6, <1>7, <1>8, <1>9, <1>10, <1>11, <1>12, <1>13
  DEF Probe

\* A prober forgets nothing that went amiss.
LEMMA ProbeKeeps ==
  ASSUME NEW p \in Probers, Probe(p)
  PROVE  overlap' = overlap /\ amiss \subseteq amiss'
<1>1. ASSUME NEW k \in {1, 2}, Drains(p, k) \/ Pulses(p, k)
      PROVE  overlap' = overlap /\ amiss' = amiss
  BY <1>1 DEF Drains, Pulses
<1>2. CASE \/ GetsTag(p) \/ Extra(p) \/ PulseDone(p) \/ HoldStamps(p) \/ PulseFails(p) \/ BannerRead(p)
           \/ GetsPush(p) \/ AsksAgain(p) \/ BootDone(p)
  BY <1>2 DEF GetsTag, Extra, PulseDone, HoldStamps, PulseFails, BannerRead, GetsPush, AsksAgain,
              BootDone, Gets, Quiet
<1>3. CASE TriesOtherPin(p) \/ NoBanner(p) \/ NoAnswer(p) \/ Verifies(p)
  BY <1>3 DEF TriesOtherPin, NoBanner, NoAnswer, Verifies, Gets, GivesUp
<1> QED BY <1>1, <1>2, <1>3 DEF Probe

LEMMA SBegin ==
  ASSUME TypeOK, Truthful, NEW p \in {"web", "hb"}, NEW g \in {"app", "hold", "pulse"},
         Begin(p, g), ~boot_done', ~overlap'
  PROVE  Truthful'
<1>1. /\ p \in Probers /\ pc[p] = "idle" /\ pc' = [pc EXCEPT ![p] = "drain1"]
      /\ UNCHANGED <<mode, todo, wire, boot_q>>
  BY DEF Begin, module
<1>2. \A q \in Probers : pc[q] = "idle"
  BY <1>1 DEF Begin, Probing
<1>3. Rest'
  BY <1>1, <1>2 DEF Truthful, Waiting, Rest
<1>4. pc'[p] = "drain1" /\ \A q \in Probers \ {p} : pc'[q] = "idle"
  BY <1>1, <1>2 DEF TypeOK
<1> QED BY <1>3, <1>4 DEF Truthful, OneAnswer, Probing, Waiting, Started

LEMMA SStep == TypeOK /\ SInv /\ [Next]_vars => SInv'
<1> SUFFICES ASSUME TypeOK, SInv, [Next]_vars, ~overlap', amiss' = {}
             PROVE  Truthful'
  BY DEF SInv
<1> USE DEF module, fields, probe
<1>1. ~overlap /\ amiss = {}
  <2>1. ASSUME NEW p \in Probers, Probe(p)  PROVE ~overlap /\ amiss = {}
    <3>1. overlap' = overlap /\ amiss \subseteq amiss'
      BY <2>1, ProbeKeeps
    <3> QED BY <3>1
  <2>2. CASE Answers \/ Talks \/ RxReads \/ RxFansOut \/ RxChecks \/ RxReleases \/ RxClears
             \/ UNCHANGED vars
    BY <2>2 DEF Answers, Talks, RxReads, RxFansOut, RxChecks, RxReleases, RxClears, vars
  <2>3. CASE WebHolds \/ WebBoots \/ HbResets
    BY <2>3 DEF WebHolds, WebBoots, HbResets, Begin, TypeOK
  <2> QED BY <2>1, <2>2, <2>3 DEF Next
<1>2. Truthful /\ OneAnswer
  BY <1>1 DEF SInv, Truthful
<1>3. CASE Answers
  <2>1. /\ OnWire' /\ ~Rest /\ (mode' = mode \/ mode' = "app")
        /\ UNCHANGED <<pc, ev, boot_done>>
    BY <1>2, <1>3, AnswerMoves DEF Answers
  <2>2. PICK p \in Probers : Waiting(p)
    BY <1>2, <2>1 DEF Truthful
  <2>3. \A q \in Probers \ {p} : pc[q] = "idle"
    BY <1>2, <2>2 DEF Truthful, Probing, Waiting
  <2>4. pc[p] # "burst"
    BY <2>2 DEF Waiting
  <2> QED BY <1>2, <2>1, <2>2, <2>3, <2>4 DEF Truthful, OneAnswer, Probing, Waiting, Started
<1>4. CASE Talks
  BY <1>2, <1>4, TalkKeeps DEF Talks, Truthful, Probing, Waiting, Started
<1>5. CASE RxReads
  BY <1>2, <1>5, ReadMoves DEF RxReads, Truthful, Probing, Waiting, Started
<1>6. CASE RxFansOut \/ RxChecks \/ RxReleases \/ RxClears \/ UNCHANGED vars
  BY <1>2, <1>6 DEF RxFansOut, RxChecks, RxReleases, RxClears, vars, Truthful, Probing, Waiting, Started, OneAnswer,
                    Rest, Asked, OnWire, Posted
<1>7. CASE WebHolds
  BY <1>2, <1>7, SBegin DEF WebHolds
<1>8. CASE WebBoots
  BY <1>2, <1>8, SBegin DEF WebBoots
<1>9. CASE HbResets
  BY <1>2, <1>9, SBegin DEF HbResets
<1>10. ASSUME NEW p \in Probers, Probe(p)  PROVE Truthful'
  BY <1>2, <1>10, SProbe
<1> QED BY <1>3, <1>4, <1>5, <1>6, <1>7, <1>8, <1>9, <1>10 DEF Next

\* If no two probers are at it at once, and no answer comes late, unasked, or not at all
\* because T_RESET keeps the RX task waiting, boot_done means that the application runs.
THEOREM SoloProbeTellsTruthHolds == Spec => []SoloProbeTellsTruth
<1>1. Init => SInv
  BY DEF Init, SInv, Truthful, OneAnswer, Rest, Tagless, Probing, Waiting, Started
<1>2. SInv => SoloProbeTellsTruth
  BY DEF SInv, Truthful, SoloProbeTellsTruth
<1> QED BY <1>1, <1>2, SStep, TypeCorrect, PTL DEF Spec
=============================================================================
