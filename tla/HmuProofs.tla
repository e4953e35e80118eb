------------------------------ MODULE HmuProofs ------------------------------
(* Proofs about HmuAcks and HmuClients, for any number of clients, connections, *)
(* descriptors, counters and entries.                                           *)
EXTENDS HmuAcks, HmuClients, WellFoundedInduction, TLAPS

USE HmuAssumption

LEMMA LeastIn ==
  ASSUME NEW E \in SUBSET Entries, E # {}
  PROVE  Least(E) \in E
<1>1. E \subseteq Nat
  BY DEF Entries
<1>2. PICK e \in E : \A f \in E : ~ (<<f, e>> \in OpToRel(<, Nat))
  BY <1>1, NatLessThanWellFounded, WFMin
<1>3. \A i, j \in Nat : i < j => <<i, j>> \in OpToRel(<, Nat)
  BY Zenon DEF OpToRel
<1>4. \A f \in E : ~ (f < e)
  BY <1>1, <1>2, <1>3, Zenon
<1>5. \A f \in E : e <= f
  BY <1>1, <1>4
<1> QED BY <1>5 DEF Least

LEMMA KeptType ==
  ASSUME TypeOK
  PROVE  /\ Kept \in [Entries -> Entry \cup {None}]
         /\ \A e \in Entries : Kept[e] # None => Kept[e] = pending[e] /\ ~pending[e].old
         /\ \A e \in Entries : pending[e] # None /\ ~pending[e].old => Kept[e] = pending[e]
         /\ Vacant \subseteq Entries
  BY DEF TypeOK, Kept, Vacant

\* What Reserves does to the table.
LEMMA ReservesEntry ==
  ASSUME TypeOK, NEW s \in Slots, NEW n \in Cnts, Reserves(s, n)
  PROVE  \E e \in Entries :
           /\ Kept[e] = None
           /\ pending' = [Kept EXCEPT ![e] = [cnt |-> n, slot |-> s, old |-> FALSE,
                                              owner |-> conn[s]]]
           /\ ix' = [ix EXCEPT ![s] = e]
           /\ [cnt |-> n, slot |-> s, old |-> FALSE, owner |-> conn[s]] \in Entry
<1>1. Least(Vacant) \in Vacant
  BY KeptType, LeastIn DEF Reserves
<1>2. conn[s] \in Conns
  BY DEF TypeOK, Reserves
<1>3. [cnt |-> n, slot |-> s, old |-> FALSE, owner |-> conn[s]] \in Entry
  BY <1>2 DEF Entry
<1> QED BY <1>1, <1>3 DEF Reserves, Vacant

\* What AckRouted does: it takes an entry with the ACK's counter.
LEMMA RoutedEntry ==
  ASSUME TypeOK, NEW f \in air, AckRouted(f)
  PROVE  \E e \in Entries :
           /\ pending[e] \in Entry /\ pending[e] # None /\ pending[e].cnt = f.cnt
           /\ pending' = [pending EXCEPT ![e] = None]
           /\ \/ conn[pending[e].slot] = None /\ UNCHANGED <<open, unasked, astray>>
              \/ /\ conn[pending[e].slot] \in Conns
                 /\ Answered(conn[pending[e].slot], f.cnt)
                 /\ astray' = (astray \/ conn[pending[e].slot] # f.owner)
<1>1. Matching(f.cnt) # {} /\ Matching(f.cnt) \subseteq Entries
  BY DEF AckRouted, Matching
<1> DEFINE e == Least(Matching(f.cnt))
<1>2. e \in Matching(f.cnt)
  BY <1>1, LeastIn
<1>3. e \in Entries /\ pending[e] # None /\ pending[e].cnt = f.cnt /\ pending[e] \in Entry
  BY <1>2 DEF Matching, TypeOK
<1>4. conn[pending[e].slot] \in Conns \cup {None}
  BY <1>3 DEF Entry, TypeOK
<1> QED BY <1>3, <1>4 DEF AckRouted

LEMMA TypeStep == TypeOK /\ [Next]_vars => TypeOK'
<1> SUFFICES ASSUME TypeOK, [Next]_vars  PROVE TypeOK'
  OBVIOUS
<1> USE DEF task, history
<1>1. ASSUME NEW s \in Slots, Accepts(s)  PROVE TypeOK'
  BY <1>1 DEF Accepts, TypeOK
<1>2. ASSUME NEW s \in Slots, Closes(s)  PROVE TypeOK'
  BY <1>2 DEF Closes, TypeOK
<1>3. ASSUME NEW s \in Slots, PoolFull(s)  PROVE TypeOK'
  BY <1>3, KeptType DEF PoolFull, TypeOK
<1>4. ASSUME NEW s \in Slots, NEW n \in Cnts, Reserves(s, n)  PROVE TypeOK'
  <2>1. PICK e \in Entries : /\ pending' = [Kept EXCEPT ![e] = [cnt |-> n, slot |-> s,
                                             old |-> FALSE, owner |-> conn[s]]]
                             /\ ix' = [ix EXCEPT ![s] = e]
                             /\ [cnt |-> n, slot |-> s, old |-> FALSE, owner |-> conn[s]]
                                  \in Entry
    BY <1>4, ReservesEntry
  <2>2. pending' \in [Entries -> Entry \cup {None}]
    BY <2>1, KeptType
  <2>3. open' \in [Conns -> SUBSET Cnts]
    BY <1>4 DEF Reserves, TypeOK
  <2> QED BY <1>4, <2>1, <2>2, <2>3 DEF Reserves, TypeOK
<1>5. ASSUME NEW s \in Slots, Sends(s)  PROVE TypeOK'
  <2>1. [cnt |-> cnt[s], owner |-> conn[s], late |-> FALSE] \in Frame
    BY <1>5 DEF Sends, TypeOK, Frame
  <2> QED BY <1>5, <2>1 DEF Sends, TypeOK
<1>6. ASSUME NEW s \in Slots, Returns(s) \/ Fails(s)  PROVE TypeOK'
  BY <1>6 DEF Returns, Fails, TypeOK
<1>7. ASSUME NEW s \in Slots, Frees(s)  PROVE TypeOK'
  BY <1>7 DEF Frees, Answered, TypeOK
<1>8. ASSUME NEW n \in Cnts, ForeignSends(n)  PROVE TypeOK'
  <2>1. [cnt |-> n, owner |-> None, late |-> FALSE] \in Frame
    BY DEF Frame
  <2>2. mixed' \in BOOLEAN
    BY <1>8 DEF ForeignSends
  <2> QED BY <1>8, <2>1, <2>2 DEF ForeignSends, TypeOK
<1>9. ASSUME NEW f \in air, AckLost(f) \/ AckDropped(f)  PROVE TypeOK'
  BY <1>9 DEF AckLost, AckDropped, TypeOK
<1>10. ASSUME NEW f \in air, AckRouted(f)  PROVE TypeOK'
  <2>1. PICK e \in Entries :
           /\ pending' = [pending EXCEPT ![e] = None]
           /\ \/ conn[pending[e].slot] = None /\ UNCHANGED <<open, unasked, astray>>
              \/ /\ conn[pending[e].slot] \in Conns
                 /\ Answered(conn[pending[e].slot], f.cnt)
                 /\ astray' = (astray \/ conn[pending[e].slot] # f.owner)
    BY <1>10, RoutedEntry
  <2>2. /\ open' \in [Conns -> SUBSET Cnts]
        /\ unasked' \in BOOLEAN /\ astray' \in BOOLEAN
    <3>1. CASE UNCHANGED <<open, unasked, astray>>
      BY <3>1 DEF TypeOK
    <3>2. CASE ~UNCHANGED <<open, unasked, astray>>
      <4>1. open' \in [Conns -> SUBSET Cnts]
        BY <2>1, <3>2 DEF Answered, TypeOK
      <4>2. unasked' = (unasked \/ f.cnt \notin open[conn[pending[e].slot]])
        BY <2>1, <3>2 DEF Answered
      <4>3. astray' = (astray \/ conn[pending[e].slot] # f.owner)
        BY <2>1, <3>2
      <4> QED BY <4>1, <4>2, <4>3
    <3> QED BY <3>1, <3>2
  <2>3. /\ UNCHANGED <<unused, conn, task, mixed, slow>> /\ air' \subseteq air
    BY <1>10 DEF AckRouted
  <2> QED BY <2>1, <2>2, <2>3 DEF TypeOK
<1>11. ASSUME NEW e \in Entries, Ages(e)  PROVE TypeOK'
  <2>1. pending' \in [Entries -> Entry \cup {None}]
    BY <1>11 DEF Ages, TypeOK, Entry
  <2>2. air' \subseteq Frame
    <3> SUFFICES ASSUME NEW f \in air
                 PROVE  f \in Frame /\ [f EXCEPT !.late = TRUE] \in Frame
      BY <1>11 DEF Ages
    <3>1. f \in Frame
      BY DEF TypeOK
    <3>2. [f EXCEPT !.late = TRUE] \in Frame
      BY <3>1 DEF Frame
    <3> QED BY <3>1, <3>2
  <2> QED BY <1>11, <2>1, <2>2 DEF Ages, TypeOK
<1>12. CASE UNCHANGED vars
  BY <1>12 DEF vars, TypeOK
<1> QED
  BY <1>1, <1>2, <1>3, <1>4, <1>5, <1>6, <1>7, <1>8, <1>9, <1>10, <1>11, <1>12 DEF Next

\* HmuAcks' type invariant.
THEOREM TypeCorrect == Spec => []TypeOK
<1>1. Init => TypeOK
  BY DEF Init, TypeOK
<1> QED BY <1>1, TypeStep, PTL DEF Spec

-----------------------------------------------------------------------------
(* Who uses a counter.                                                     *)

Held(e) == pending[e] # None
Busy(s) == pc[s] # "recv"

\* Two entries, two frames, or two tasks have different counters.
EntriesApart ==
  \A e, g \in Entries : Held(e) /\ Held(g) /\ pending[e].cnt = pending[g].cnt => e = g
FramesApart == \A f, g \in air : f.cnt = g.cnt => f = g
TasksApart  == \A s, t \in Slots : Busy(s) /\ Busy(t) /\ cnt[s] = cnt[t] => s = t

\* An entry and a frame, a task and an entry, a task and a frame with one counter are of
\* one connection; the task's entry is where it left it, and its frame goes out last.
FrameOfEntry ==
  \A e \in Entries : \A f \in air :
    Held(e) /\ pending[e].cnt = f.cnt => f.owner = pending[e].owner
TaskOfEntry ==
  \A s \in Slots : \A e \in Entries :
    Busy(s) /\ Held(e) /\ pending[e].cnt = cnt[s] => e = ix[s] /\ pending[e].owner = conn[s]
TaskOfFrame ==
  \A s \in Slots : \A f \in air :
    Busy(s) /\ f.cnt = cnt[s] => pc[s] = "sending" /\ f.owner = conn[s]

\* The slot of an entry is its owner's or nobody's, and who is there waits for the answer.
SlotOfEntry ==
  \A e \in Entries :
    Held(e) => \/ conn[pending[e].slot] = None
               \/ /\ conn[pending[e].slot] = pending[e].owner
                  /\ pending[e].cnt \in open[pending[e].owner]
TaskWaits ==
  \A s \in Slots : pc[s] \in {"reserved", "failed"} => cnt[s] \in open[conn[s]]

Ordered ==
  /\ EntriesApart /\ FramesApart /\ TasksApart
  /\ FrameOfEntry /\ TaskOfEntry /\ TaskOfFrame
  /\ SlotOfEntry /\ TaskWaits
  /\ ~astray /\ ~unasked

RInv == ~mixed => Ordered

\* Fewer entries and fewer frames, and everything else as it was.
Fewer ==
  /\ UNCHANGED <<conn, cnt, ix, open, astray, unasked>>
  /\ \A s \in Slots : \/ pc'[s] \in {"recv", pc[s]}
                      \/ pc[s] = "reserved" /\ pc'[s] = "failed"
  /\ air' \subseteq air
  /\ \A e \in Entries : pending'[e] \in {None, pending[e]}

LEMMA FewerOrdered ==
  ASSUME TypeOK, Ordered, Fewer
  PROVE  Ordered'
<1> USE DEF Fewer
<1> USE DEF Ordered, Held, Busy
<1>1. EntriesApart' /\ FramesApart' /\ TasksApart'
  BY DEF EntriesApart, FramesApart, TasksApart
<1>2. FrameOfEntry'
  BY DEF FrameOfEntry
<1>3. TaskOfEntry'
  BY DEF TaskOfEntry
<1>4. TaskOfFrame'
  BY DEF TaskOfFrame
<1>5. SlotOfEntry'
  BY DEF SlotOfEntry
<1>6. TaskWaits'
  BY DEF TaskWaits
<1> QED BY <1>1, <1>2, <1>3, <1>4, <1>5, <1>6

LEMMA OrderedStep == TypeOK /\ RInv /\ [Next]_vars => RInv'
<1> SUFFICES ASSUME TypeOK, RInv, [Next]_vars, ~mixed'  PROVE Ordered'
  BY DEF RInv
<1>0. ~mixed /\ Ordered
  BY DEF Next, RInv, Accepts, Closes, PoolFull, Reserves, Sends, Returns, Fails, Frees,
         ForeignSends, AckLost, AckRouted, AckDropped, Ages, vars, history, TypeOK
<1> USE DEF task, history
<1>1. ASSUME NEW s \in Slots, Accepts(s)  PROVE Ordered'
  <2>1. \A e \in Entries : Held(e) => pending[e].slot # s
    BY <1>0, <1>1 DEF Accepts, Held
  <2>2. /\ UNCHANGED <<task, pending, air, open, astray, unasked>> /\ ~Busy(s)
        /\ \A t \in Slots \ {s} : conn'[t] = conn[t]
    BY <1>1 DEF Accepts, Busy, TypeOK
  <2>3. SlotOfEntry'
    <3> SUFFICES ASSUME NEW e \in Entries, Held(e)
                 PROVE  pending[e].slot \in Slots /\ conn'[pending[e].slot] = conn[pending[e].slot]
      BY <1>0, <2>2 DEF SlotOfEntry, Held, Ordered
    <3> QED BY <2>1, <2>2 DEF TypeOK, Entry, Held
  <2>4. EntriesApart' /\ FramesApart' /\ TasksApart' /\ FrameOfEntry'
    BY <1>0, <2>2 DEF Ordered, EntriesApart, FramesApart, TasksApart, FrameOfEntry, Held, Busy
  <2>5. TaskOfEntry' /\ TaskOfFrame' /\ TaskWaits'
    BY <1>0, <2>2 DEF Ordered, TaskOfEntry, TaskOfFrame, TaskWaits, Held, Busy
  <2> QED BY <1>0, <2>2, <2>3, <2>4, <2>5 DEF Ordered
<1>2. ASSUME NEW s \in Slots, Closes(s)  PROVE Ordered'
  <2>2. /\ UNCHANGED <<task, pending, air, open, astray, unasked>> /\ ~Busy(s)
        /\ \A t \in Slots \ {s} : conn'[t] = conn[t]
        /\ conn'[s] = None
    BY <1>2 DEF Closes, Busy, TypeOK
  <2>3. SlotOfEntry'
    <3> SUFFICES ASSUME NEW e \in Entries, Held(e)
                 PROVE  \/ conn'[pending[e].slot] = None
                        \/ conn'[pending[e].slot] = conn[pending[e].slot]
      BY <1>0, <2>2 DEF SlotOfEntry, Held, Ordered
    <3> QED BY <2>2 DEF TypeOK, Entry, Held
  <2>4. EntriesApart' /\ FramesApart' /\ TasksApart' /\ FrameOfEntry'
    BY <1>0, <2>2 DEF Ordered, EntriesApart, FramesApart, TasksApart, FrameOfEntry, Held, Busy
  <2>5. TaskOfEntry' /\ TaskOfFrame' /\ TaskWaits'
    BY <1>0, <2>2 DEF Ordered, TaskOfEntry, TaskOfFrame, TaskWaits, Held, Busy
  <2> QED BY <1>0, <2>2, <2>3, <2>4, <2>5 DEF Ordered
<1>3. ASSUME NEW s \in Slots, PoolFull(s)  PROVE Ordered'
  <2>1. UNCHANGED <<conn, cnt, ix, open, astray, unasked>>
    BY <1>3, Zenon DEF PoolFull
  <2>2. \A t \in Slots : \/ pc'[t] \in {"recv", pc[t]}
                         \/ pc[t] = "reserved" /\ pc'[t] = "failed"
    <3>1. pc' = pc
      BY <1>3, Zenon DEF PoolFull
    <3> QED BY <3>1
  <2>3. air' \subseteq air
    BY <1>3 DEF PoolFull
  <2>4. \A e \in Entries : pending'[e] \in {None, pending[e]}
    BY <1>3 DEF PoolFull, Kept
  <2>5. Fewer
    BY <2>1, <2>2, <2>3, <2>4 DEF Fewer
  <2> QED BY <1>0, <2>5, FewerOrdered
<1>4. ASSUME NEW s \in Slots, NEW n \in Cnts, Reserves(s, n)  PROVE Ordered'
  <2>1. PICK e \in Entries : /\ Kept[e] = None
                             /\ pending' = [Kept EXCEPT ![e] = [cnt |-> n, slot |-> s,
                                             old |-> FALSE, owner |-> conn[s]]]
                             /\ ix' = [ix EXCEPT ![s] = e]
                             /\ [cnt |-> n, slot |-> s, old |-> FALSE, owner |-> conn[s]]
                                  \in Entry
    BY <1>4, ReservesEntry
  <2>2. /\ pending'[e] # None /\ pending'[e].cnt = n /\ pending'[e].slot = s
        /\ pending'[e].owner = conn[s]
        /\ \A g \in Entries \ {e} : Held(g)' => Held(g) /\ pending'[g] = pending[g]
                                             /\ pending[g].cnt # n
    <3>1. \A g \in Entries : Kept[g] # None => Kept[g].cnt # n
      BY <1>4 DEF Reserves, InUse
    <3>2. \A g \in Entries \ {e} : pending'[g] = Kept[g]
      BY <2>1, KeptType
    <3>3. pending'[e] = [cnt |-> n, slot |-> s, old |-> FALSE, owner |-> conn[s]]
      BY <2>1, KeptType
    <3>4. pending'[e] # None
      BY <2>1, <3>3
    <3>5. \A g \in Entries \ {e} : Held(g)' => Held(g) /\ pending'[g] = pending[g]
                                                    /\ pending[g].cnt # n
      BY <3>1, <3>2, KeptType DEF Held
    <3> QED BY <3>3, <3>4, <3>5
  <2>3. /\ \A f \in air : f.cnt # n
        /\ \A t \in Slots : Busy(t) => cnt[t] # n
    BY <1>4 DEF Reserves, InUse, Busy
  <2>4. /\ UNCHANGED <<conn, air, astray, unasked>> /\ ~Busy(s) /\ pc'[s] = "reserved"
        /\ cnt'[s] = n /\ ix'[s] = e /\ conn[s] # None /\ conn[s] \in Conns
        /\ \A t \in Slots \ {s} : pc'[t] = pc[t] /\ cnt'[t] = cnt[t] /\ ix'[t] = ix[t]
        /\ \A c \in Conns : open[c] \subseteq open'[c]
        /\ n \in open'[conn[s]]
    BY <1>4, <2>1 DEF Reserves, Busy, TypeOK
  <2>5. EntriesApart' /\ FramesApart' /\ FrameOfEntry'
    BY <1>0, <2>2, <2>3, <2>4 DEF Ordered, EntriesApart, FramesApart, FrameOfEntry, Held
  <2>6. TasksApart' /\ TaskOfFrame'
    BY <1>0, <2>3, <2>4 DEF Ordered, TasksApart, TaskOfFrame, Busy
  <2>7. TaskOfEntry'
    BY <1>0, <2>2, <2>3, <2>4 DEF Ordered, TaskOfEntry, Busy, Held
  <2>8. SlotOfEntry'
    <3>1. \A g \in Entries : Held(g) => pending[g].owner \in Conns
      BY DEF TypeOK, Entry, Held
    <3> QED BY <1>0, <2>2, <2>4, <3>1 DEF Ordered, SlotOfEntry, Held
  <2>9. TaskWaits'
    <3>1. \A t \in Slots : Busy(t) => conn[t] \in Conns
      BY DEF TypeOK, Busy
    <3> QED BY <1>0, <2>4, <3>1 DEF Ordered, TaskWaits, Busy
  <2> QED BY <1>0, <2>4, <2>5, <2>6, <2>7, <2>8, <2>9 DEF Ordered
<1>5. ASSUME NEW s \in Slots, Sends(s)  PROVE Ordered'
  <2> DEFINE new == [cnt |-> cnt[s], owner |-> conn[s], late |-> FALSE]
  <2>1. /\ UNCHANGED <<conn, cnt, ix, pending, open, astray, unasked>>
        /\ Busy(s) /\ pc[s] = "reserved" /\ pc'[s] = "sending"
        /\ \A t \in Slots \ {s} : pc'[t] = pc[t]
        /\ air' = air \cup {new}
    BY <1>5 DEF Sends, TypeOK, Busy
  <2>2. \A f \in air : f.cnt # cnt[s]
    BY <1>0, <2>1 DEF Ordered, TaskOfFrame
  <2>3. FramesApart'
    <3>1. \A f \in air' : f = new \/ f \in air
      BY <2>1
    <3>2. \A f, g \in air : f.cnt = g.cnt => f = g
      BY <1>0 DEF Ordered, FramesApart
    <3>3. new.cnt = cnt[s]
      OBVIOUS
    <3> HIDE DEF new
    <3>4. \A f, g \in air' : f.cnt = g.cnt => f = g
      BY <2>2, <3>1, <3>2, <3>3
    <3> QED BY <3>4 DEF FramesApart
  <2>4. EntriesApart' /\ TasksApart'
    BY <1>0, <2>1 DEF Ordered, EntriesApart, TasksApart, Held, Busy
  <2>5. FrameOfEntry'
    BY <1>0, <2>1 DEF Ordered, FrameOfEntry, TaskOfEntry, Held
  <2>6. TaskOfEntry' /\ SlotOfEntry' /\ TaskWaits'
    BY <1>0, <2>1 DEF Ordered, TaskOfEntry, SlotOfEntry, TaskWaits, Held, Busy
  <2>7. TaskOfFrame'
    BY <1>0, <2>1 DEF Ordered, TaskOfFrame, TasksApart, Busy
  <2> QED BY <1>0, <2>1, <2>3, <2>4, <2>5, <2>6, <2>7 DEF Ordered
<1>6. ASSUME NEW s \in Slots, Returns(s) \/ Fails(s)  PROVE Ordered'
  <2>1. UNCHANGED <<conn, cnt, ix, open, astray, unasked>>
    BY <1>6, Zenon DEF Returns, Fails
  <2>2. \A t \in Slots : \/ pc'[t] \in {"recv", pc[t]}
                         \/ pc[t] = "reserved" /\ pc'[t] = "failed"
    <3>1. pc \in [Slots -> {"recv", "reserved", "sending", "failed"}]
      BY DEF TypeOK
    <3>2. \/ pc' = [pc EXCEPT ![s] = "recv"]
          \/ pc[s] = "reserved" /\ pc' = [pc EXCEPT ![s] = "failed"]
      BY <1>6, Zenon DEF Returns, Fails
    <3> QED BY <3>1, <3>2
  <2>3. air' \subseteq air
    BY <1>6 DEF Returns, Fails
  <2>4. \A e \in Entries : pending'[e] \in {None, pending[e]}
    BY <1>6 DEF Returns, Fails, Kept
  <2>5. Fewer
    BY <2>1, <2>2, <2>3, <2>4 DEF Fewer
  <2> QED BY <1>0, <2>5, FewerOrdered
<1>7. ASSUME NEW s \in Slots, Frees(s)  PROVE Ordered'
  <2>1. /\ Busy(s) /\ pc[s] = "failed" /\ ~Busy(s)'
        /\ conn[s] \in Conns /\ ix[s] \in Entries
        /\ \A t \in Slots \ {s} : pc'[t] = pc[t]
        /\ UNCHANGED <<conn, cnt, ix, air, astray>>
        /\ pending' = [pending EXCEPT ![ix[s]] = None]
        /\ Answered(conn[s], cnt[s])
    BY <1>7 DEF Frees, TypeOK, Busy
  <2>2. /\ \A e \in Entries : Held(e)' => Held(e) /\ pending'[e] = pending[e] /\ e # ix[s]
        /\ \A e \in Entries : Held(e)' => pending[e].cnt # cnt[s]
    BY <1>0, <2>1 DEF Held, Ordered, TaskOfEntry, TypeOK
  <2>3. /\ \A c \in Conns : \A n : n # cnt[s] => (n \in open'[c] <=> n \in open[c])
    BY <2>1 DEF Answered, TypeOK
  <2>4. ~unasked'
    BY <1>0, <2>1 DEF Answered, Ordered, TaskWaits
  <2>5. EntriesApart' /\ FramesApart' /\ FrameOfEntry'
    BY <1>0, <2>1, <2>2 DEF Ordered, EntriesApart, FramesApart, FrameOfEntry
  <2>6. TasksApart' /\ TaskOfFrame' /\ TaskOfEntry'
    BY <1>0, <2>1, <2>2 DEF Ordered, TasksApart, TaskOfFrame, TaskOfEntry, Busy
  <2>7. SlotOfEntry'
    <3>1. \A g \in Entries : Held(g) => pending[g].owner \in Conns
      BY DEF TypeOK, Entry, Held
    <3> QED BY <1>0, <2>1, <2>2, <2>3, <3>1 DEF Ordered, SlotOfEntry
  <2>8. TaskWaits'
    <3>1. \A t \in Slots : Busy(t) => conn[t] \in Conns
      BY DEF TypeOK, Busy
    <3>2. \A t \in Slots \ {s} : Busy(t) => cnt[t] # cnt[s]
      BY <1>0, <2>1 DEF Ordered, TasksApart
    <3> QED BY <1>0, <2>1, <2>3, <3>1, <3>2 DEF Ordered, TaskWaits, Busy
  <2> QED BY <1>0, <2>1, <2>4, <2>5, <2>6, <2>7, <2>8 DEF Ordered
<1>8. ASSUME NEW n \in Cnts, ForeignSends(n)  PROVE Ordered'
  <2> DEFINE new == [cnt |-> n, owner |-> None, late |-> FALSE]
  <2>1. /\ UNCHANGED <<conn, task, pending, open, astray, unasked>>
        /\ air' = air \cup {new}
    BY <1>8 DEF ForeignSends
  <2>2. /\ \A f \in air : f.cnt # n
        /\ \A t \in Slots : Busy(t) => cnt[t] # n
        /\ \A e \in Entries : Held(e) => pending[e].cnt # n
    BY <1>8 DEF ForeignSends, InUse, Busy, Held
  <2>3. FramesApart'
    <3>1. \A f \in air' : f = new \/ f \in air
      BY <2>1
    <3>2. \A f, g \in air : f.cnt = g.cnt => f = g
      BY <1>0 DEF Ordered, FramesApart
    <3>3. new.cnt = n
      OBVIOUS
    <3> HIDE DEF new
    <3>4. \A f, g \in air' : f.cnt = g.cnt => f = g
      BY <2>2, <3>1, <3>2, <3>3
    <3> QED BY <3>4 DEF FramesApart
  <2>4. FrameOfEntry' /\ TaskOfFrame'
    BY <1>0, <2>1, <2>2 DEF Ordered, FrameOfEntry, TaskOfFrame, Held, Busy
  <2>5. EntriesApart' /\ TasksApart' /\ TaskOfEntry' /\ SlotOfEntry' /\ TaskWaits'
    BY <1>0, <2>1 DEF Ordered, EntriesApart, TasksApart, TaskOfEntry, SlotOfEntry, TaskWaits,
                      Held, Busy
  <2> QED BY <1>0, <2>1, <2>3, <2>4, <2>5 DEF Ordered
<1>9. ASSUME NEW f \in air, AckLost(f) \/ AckDropped(f)  PROVE Ordered'
  <2>1. UNCHANGED <<conn, cnt, ix, open, astray, unasked>>
    BY <1>9, Zenon DEF AckLost, AckDropped
  <2>2. \A t \in Slots : \/ pc'[t] \in {"recv", pc[t]}
                         \/ pc[t] = "reserved" /\ pc'[t] = "failed"
    <3>1. pc' = pc
      BY <1>9, Zenon DEF AckLost, AckDropped
    <3> QED BY <3>1
  <2>3. air' \subseteq air
    BY <1>9 DEF AckLost, AckDropped
  <2>4. \A e \in Entries : pending'[e] \in {None, pending[e]}
    BY <1>9 DEF AckLost, AckDropped, Kept
  <2>5. Fewer
    BY <2>1, <2>2, <2>3, <2>4 DEF Fewer
  <2> QED BY <1>0, <2>5, FewerOrdered
<1>10. ASSUME NEW f \in air, AckRouted(f)  PROVE Ordered'
  <2>1. PICK e \in Entries :
           /\ pending[e] \in Entry /\ Held(e) /\ pending[e].cnt = f.cnt
           /\ pending' = [pending EXCEPT ![e] = None]
           /\ \/ conn[pending[e].slot] = None /\ UNCHANGED <<open, unasked, astray>>
              \/ /\ conn[pending[e].slot] \in Conns
                 /\ Answered(conn[pending[e].slot], f.cnt)
                 /\ astray' = (astray \/ conn[pending[e].slot] # f.owner)
    BY <1>10, RoutedEntry DEF Held
  <2>2. /\ UNCHANGED <<conn, task>> /\ air' \subseteq air
    BY <1>10 DEF AckRouted
  <2>3. /\ \A g \in Entries : Held(g)' => Held(g) /\ pending'[g] = pending[g] /\ g # e
        /\ \A g \in Entries : Held(g)' => pending[g].cnt # f.cnt
    BY <1>0, <2>1 DEF Held, Ordered, EntriesApart, TypeOK
  <2>4. CASE conn[pending[e].slot] = None /\ UNCHANGED <<open, unasked, astray>>
    <3>1. UNCHANGED <<conn, cnt, ix, open, astray, unasked>>
      BY <2>2, <2>4, Zenon
    <3>2. pc' = pc /\ \A g \in Entries : pending'[g] \in {None, pending[g]}
      BY <2>1, <2>2 DEF TypeOK
    <3>3. \A t \in Slots : pc'[t] \in {"recv", pc[t]}
      BY <3>2
    <3>4. Fewer
      BY <2>2, <3>1, <3>2, <3>3, Zenon DEF Fewer
    <3> QED BY <1>0, <3>4, FewerOrdered
  <2>5. CASE /\ conn[pending[e].slot] \in Conns
             /\ Answered(conn[pending[e].slot], f.cnt)
             /\ astray' = (astray \/ conn[pending[e].slot] # f.owner)
    <3> DEFINE c == conn[pending[e].slot]
    <3>1. c = pending[e].owner /\ f.cnt \in open[c] /\ f.owner = c
      BY <1>0, <2>1, <2>5 DEF Ordered, SlotOfEntry, FrameOfEntry
    <3>2. ~unasked' /\ ~astray'
      BY <1>0, <2>5, <3>1 DEF Answered, Ordered
    <3>3. \A d \in Conns : \A n : n # f.cnt => (n \in open'[d] <=> n \in open[d])
      BY <2>5 DEF Answered, TypeOK
    <3>4. EntriesApart' /\ FramesApart' /\ FrameOfEntry'
      BY <1>0, <2>2, <2>3 DEF Ordered, EntriesApart, FramesApart, FrameOfEntry
    <3>5. TasksApart' /\ TaskOfFrame' /\ TaskOfEntry'
      BY <1>0, <2>2, <2>3 DEF Ordered, TasksApart, TaskOfFrame, TaskOfEntry, Busy
    <3>6. SlotOfEntry'
      <4>1. \A g \in Entries : Held(g) => pending[g].owner \in Conns
        BY DEF TypeOK, Entry, Held
      <4> QED BY <1>0, <2>2, <2>3, <3>3, <4>1 DEF Ordered, SlotOfEntry
    <3>7. TaskWaits'
      <4>1. \A t \in Slots : Busy(t) => conn[t] \in Conns
        BY DEF TypeOK, Busy
      <4>2. \A t \in Slots : pc[t] \in {"reserved", "failed"} => cnt[t] # f.cnt
        BY <1>0 DEF Ordered, TaskOfFrame, Busy
      <4> QED BY <1>0, <2>2, <3>3, <4>1, <4>2 DEF Ordered, TaskWaits, Busy
    <3> QED BY <3>2, <3>4, <3>5, <3>6, <3>7 DEF Ordered
  <2> QED BY <2>1, <2>4, <2>5
<1>11. ASSUME NEW e \in Entries, Ages(e)  PROVE Ordered'
  <2>1. /\ UNCHANGED <<conn, task, open, astray, unasked>>
        /\ \A g \in Entries : /\ Held(g)' <=> Held(g)
                              /\ Held(g) => /\ pending'[g].cnt = pending[g].cnt
                                            /\ pending'[g].owner = pending[g].owner
                                            /\ pending'[g].slot = pending[g].slot
    BY <1>11 DEF Ages, Held, TypeOK, Entry
  <2>2. \A f \in air' : \E g \in air :
          /\ f.cnt = g.cnt /\ f.owner = g.owner
          /\ f = IF g.cnt = pending[e].cnt /\ g.owner = pending[e].owner
                   THEN [g EXCEPT !.late = TRUE] ELSE g
    <3> SUFFICES ASSUME NEW g \in air
                 PROVE  /\ [g EXCEPT !.late = TRUE].cnt = g.cnt
                        /\ [g EXCEPT !.late = TRUE].owner = g.owner
      <4> DEFINE aged(h) == IF h.cnt = pending[e].cnt /\ h.owner = pending[e].owner
                              THEN [h EXCEPT !.late = TRUE] ELSE h
      <4>1. air' = {aged(h) : h \in air}
        BY <1>11 DEF Ages
      <4>2. \A h \in air : aged(h).cnt = h.cnt /\ aged(h).owner = h.owner
        OBVIOUS
      <4> HIDE DEF aged
      <4>3. \A f \in air' : \E h \in air : f = aged(h)
        BY <4>1
      <4>4. \A f \in air' : \E h \in air : f.cnt = h.cnt /\ f.owner = h.owner /\ f = aged(h)
        BY <4>2, <4>3
      <4> QED BY <4>4 DEF aged
    <3>1. g \in Frame
      BY DEF TypeOK
    <3> QED BY <3>1 DEF Frame
  <2>3. FramesApart'
    <3>1. \A f, g \in air : f.cnt = g.cnt => f = g
      BY <1>0 DEF Ordered, FramesApart
    <3>2. ASSUME NEW f \in air', NEW g \in air', f.cnt = g.cnt  PROVE f = g
      <4>1. PICK h \in air : /\ f.cnt = h.cnt
                             /\ f = IF h.cnt = pending[e].cnt /\ h.owner = pending[e].owner
                                      THEN [h EXCEPT !.late = TRUE] ELSE h
        BY <2>2
      <4>2. PICK i \in air : /\ g.cnt = i.cnt
                             /\ g = IF i.cnt = pending[e].cnt /\ i.owner = pending[e].owner
                                      THEN [i EXCEPT !.late = TRUE] ELSE i
        BY <2>2
      <4>3. h = i
        BY <3>1, <3>2, <4>1, <4>2
      <4> QED BY <4>1, <4>2, <4>3
    <3> QED BY <3>2 DEF FramesApart
  <2>4. FrameOfEntry' /\ TaskOfFrame'
    BY <1>0, <2>1, <2>2 DEF Ordered, FrameOfEntry, TaskOfFrame, Busy
  <2>5. EntriesApart' /\ TasksApart' /\ TaskOfEntry' /\ SlotOfEntry' /\ TaskWaits'
    BY <1>0, <2>1 DEF Ordered, EntriesApart, TasksApart, TaskOfEntry, SlotOfEntry, TaskWaits,
                      Busy
  <2> QED BY <1>0, <2>1, <2>3, <2>4, <2>5 DEF Ordered
<1>12. CASE UNCHANGED vars
  <2>1. UNCHANGED <<conn, cnt, ix, open, astray, unasked>>
    BY <1>12, Zenon DEF vars
  <2>2. \A t \in Slots : \/ pc'[t] \in {"recv", pc[t]}
                         \/ pc[t] = "reserved" /\ pc'[t] = "failed"
    <3>1. pc' = pc
      BY <1>12, Zenon DEF vars
    <3> QED BY <3>1
  <2>3. air' \subseteq air
    BY <1>12 DEF vars
  <2>4. \A e \in Entries : pending'[e] \in {None, pending[e]}
    BY <1>12 DEF vars, Kept
  <2>5. Fewer
    BY <2>1, <2>2, <2>3, <2>4 DEF Fewer
  <2> QED BY <1>0, <2>5, FewerOrdered
<1> QED
  BY <1>1, <1>2, <1>3, <1>4, <1>5, <1>6, <1>7, <1>8, <1>9, <1>10, <1>11, <1>12 DEF Next

\* As long as no counter is used while it is in use, and no slot while an entry points
\* at it, every answer goes to the client that waits for it.
THEOREM AnswersGoHomeHolds == Spec => []AnswersGoHome
<1>1. Init => RInv
  BY DEF Init, RInv, Ordered, EntriesApart, FramesApart, TasksApart, FrameOfEntry, TaskOfEntry,
         TaskOfFrame, SlotOfEntry, TaskWaits, Held, Busy
<1>2. RInv => AnswersGoHome
  BY DEF RInv, Ordered, AnswersGoHome
<1> QED BY <1>1, <1>2, OrderedStep, TypeCorrect, PTL DEF Spec

-----------------------------------------------------------------------------
(* What is awaited has an entry.                                           *)

\* An entry that has not timed out yet, for counter n of connection c.
Awaits(e, n, c) ==
  Held(e) /\ pending[e].cnt = n /\ pending[e].owner = c /\ ~pending[e].old

FrameAwaited ==
  \A f \in air : f.owner # None /\ ~f.late => \E e \in Entries : Awaits(e, f.cnt, f.owner)

TaskAwaited ==
  \A s \in Slots : pc[s] \in {"reserved", "failed"} => Awaits(ix[s], cnt[s], conn[s])

AInv == ~mixed /\ ~slow => FrameAwaited /\ TaskAwaited

LEMMA AwaitedStep == TypeOK /\ RInv /\ AInv /\ [Next]_vars => AInv'
<1> SUFFICES ASSUME TypeOK, RInv, AInv, [Next]_vars, ~mixed', ~slow'
             PROVE  FrameAwaited' /\ TaskAwaited'
  BY DEF AInv
<1>0. ~mixed /\ Ordered /\ FrameAwaited /\ TaskAwaited
  BY DEF Next, RInv, AInv, Accepts, Closes, PoolFull, Reserves, Sends, Returns, Fails, Frees,
         ForeignSends, AckLost, AckRouted, AckDropped, Ages, vars, history, TypeOK
<1> USE DEF task, history
<1>1. ASSUME NEW s \in Slots, Accepts(s) \/ Closes(s)  PROVE FrameAwaited' /\ TaskAwaited'
  <2>1. /\ UNCHANGED <<task, pending, air>> /\ pc[s] = "recv"
        /\ \A t \in Slots \ {s} : conn'[t] = conn[t]
    BY <1>1 DEF Accepts, Closes, TypeOK
  <2> QED BY <1>0, <2>1 DEF FrameAwaited, TaskAwaited, Awaits, Held
<1>2. ASSUME NEW s \in Slots, PoolFull(s)  PROVE FrameAwaited' /\ TaskAwaited'
  <2>1. \A e \in Entries : \A n, c : Awaits(e, n, c) => pending'[e] = pending[e]
    BY <1>2, KeptType DEF PoolFull, Awaits, Held
  <2>2. UNCHANGED <<task, conn, air>>
    BY <1>2 DEF PoolFull
  <2> QED BY <1>0, <2>1, <2>2 DEF FrameAwaited, TaskAwaited, Awaits, Held, TypeOK
<1>3. ASSUME NEW s \in Slots, NEW n \in Cnts, Reserves(s, n)
      PROVE  FrameAwaited' /\ TaskAwaited'
  <2>1. PICK e \in Entries : /\ Kept[e] = None
                             /\ pending' = [Kept EXCEPT ![e] = [cnt |-> n, slot |-> s,
                                             old |-> FALSE, owner |-> conn[s]]]
                             /\ ix' = [ix EXCEPT ![s] = e]
                             /\ [cnt |-> n, slot |-> s, old |-> FALSE, owner |-> conn[s]]
                                  \in Entry
    BY <1>3, ReservesEntry
  <2>2. \A g \in Entries : \A m, c : Awaits(g, m, c) => g # e /\ pending'[g] = pending[g]
    BY <2>1, KeptType DEF Awaits, Held
  <2>3. Awaits(e, n, conn[s])'
    <3>1. pending'[e] = [cnt |-> n, slot |-> s, old |-> FALSE, owner |-> conn[s]]
      BY <2>1, KeptType
    <3>2. pending'[e] # None /\ conn' = conn
      BY <1>3, <2>1, <3>1 DEF Reserves
    <3> QED BY <3>1, <3>2 DEF Awaits, Held
  <2>4. /\ UNCHANGED <<conn, air>> /\ cnt'[s] = n /\ ix'[s] = e
        /\ \A t \in Slots \ {s} : pc'[t] = pc[t] /\ cnt'[t] = cnt[t] /\ ix'[t] = ix[t]
    BY <1>3, <2>1 DEF Reserves, TypeOK
  <2>5. FrameAwaited'
    BY <1>0, <2>2, <2>4 DEF FrameAwaited, Awaits, Held
  <2>6. TaskAwaited'
    <3> SUFFICES ASSUME NEW t \in Slots, pc'[t] \in {"reserved", "failed"}
                 PROVE  Awaits(ix[t], cnt[t], conn[t])'
      BY DEF TaskAwaited
    <3>1. CASE t = s
      BY <2>3, <2>4, <3>1 DEF Awaits, Held
    <3>2. CASE t # s
      <4>1. Awaits(ix[t], cnt[t], conn[t]) /\ ix[t] \in Entries
        BY <1>0, <2>4, <3>2 DEF TaskAwaited, TypeOK
      <4> QED BY <2>2, <2>4, <3>2, <4>1 DEF Awaits, Held
    <3> QED BY <3>1, <3>2
  <2> QED BY <2>5, <2>6
<1>4. ASSUME NEW s \in Slots, Sends(s)  PROVE FrameAwaited' /\ TaskAwaited'
  <2>1. /\ UNCHANGED <<conn, cnt, ix, pending>>
        /\ pc[s] = "reserved" /\ pc'[s] = "sending" /\ ix[s] \in Entries
        /\ \A t \in Slots \ {s} : pc'[t] = pc[t]
        /\ air' = air \cup {[cnt |-> cnt[s], owner |-> conn[s], late |-> FALSE]}
    BY <1>4 DEF Sends, TypeOK
  <2>2. Awaits(ix[s], cnt[s], conn[s])
    BY <1>0, <2>1 DEF TaskAwaited
  <2>3. FrameAwaited'
    BY <1>0, <2>1, <2>2 DEF FrameAwaited, Awaits, Held
  <2>4. TaskAwaited'
    BY <1>0, <2>1 DEF TaskAwaited, Awaits, Held
  <2> QED BY <2>3, <2>4
<1>5. ASSUME NEW s \in Slots, Returns(s) \/ Fails(s)  PROVE FrameAwaited' /\ TaskAwaited'
  <2>1. /\ UNCHANGED <<conn, cnt, ix, pending, air>>
        /\ \/ pc[s] = "reserved"
           \/ pc'[s] = "recv"
        /\ \A t \in Slots \ {s} : pc'[t] = pc[t]
    BY <1>5 DEF Returns, Fails, TypeOK
  <2> QED BY <1>0, <2>1 DEF FrameAwaited, TaskAwaited, Awaits, Held
<1>6. ASSUME NEW s \in Slots, Frees(s)  PROVE FrameAwaited' /\ TaskAwaited'
  <2>1. /\ UNCHANGED <<conn, cnt, ix, air>>
        /\ Busy(s) /\ pc[s] = "failed" /\ pc'[s] = "recv"
        /\ \A t \in Slots \ {s} : pc'[t] = pc[t]
        /\ \A g \in Entries \ {ix[s]} : pending'[g] = pending[g]
    BY <1>6 DEF Frees, Busy, TypeOK
  <2>2. Awaits(ix[s], cnt[s], conn[s])
    BY <1>0, <2>1 DEF TaskAwaited
  <2>3. \A f \in air : f.cnt # cnt[s]
    BY <1>0, <2>1 DEF Ordered, TaskOfFrame
  <2>4. \A t \in Slots \ {s} : Busy(t) => cnt[t] # cnt[s] /\ ix[t] \in Entries
    BY <1>0, <2>1 DEF Ordered, TasksApart, TypeOK, Busy
  <2>5. FrameAwaited'
    BY <1>0, <2>1, <2>2, <2>3 DEF FrameAwaited, Awaits, Held
  <2>6. TaskAwaited'
    BY <1>0, <2>1, <2>2, <2>4 DEF TaskAwaited, Awaits, Held, Busy
  <2> QED BY <2>5, <2>6
<1>7. ASSUME NEW n \in Cnts, ForeignSends(n)  PROVE FrameAwaited' /\ TaskAwaited'
  BY <1>0, <1>7 DEF ForeignSends, FrameAwaited, TaskAwaited, Awaits, Held
<1>8. ASSUME NEW f \in air, AckLost(f) \/ AckDropped(f)  PROVE FrameAwaited' /\ TaskAwaited'
  BY <1>0, <1>8 DEF AckLost, AckDropped, FrameAwaited, TaskAwaited, Awaits, Held
<1>9. ASSUME NEW f \in air, AckRouted(f)  PROVE FrameAwaited' /\ TaskAwaited'
  <2>1. PICK e \in Entries : /\ pending[e].cnt = f.cnt
                             /\ pending' = [pending EXCEPT ![e] = None]
    BY <1>9, RoutedEntry
  <2>2. UNCHANGED <<conn, task>> /\ air' = air \ {f}
    BY <1>9 DEF AckRouted
  <2>3. \A g \in Entries \ {e} : pending'[g] = pending[g]
    BY <2>1 DEF TypeOK
  <2>4. \A g \in air' : g.cnt # f.cnt
    BY <1>0, <2>2 DEF Ordered, FramesApart
  <2>5. \A s \in Slots : pc[s] \in {"reserved", "failed"} => cnt[s] # f.cnt /\ ix[s] \in Entries
    BY <1>0 DEF Ordered, TaskOfFrame, Busy, TypeOK
  <2>6. FrameAwaited'
    BY <1>0, <2>1, <2>2, <2>3, <2>4 DEF FrameAwaited, Awaits, Held
  <2>7. TaskAwaited'
    BY <1>0, <2>1, <2>2, <2>3, <2>5 DEF TaskAwaited, Awaits, Held
  <2> QED BY <2>6, <2>7
<1>10. ASSUME NEW e \in Entries, Ages(e)  PROVE FrameAwaited' /\ TaskAwaited'
  <2>1. /\ UNCHANGED <<conn, task>>
        /\ \A g \in Entries \ {e} : pending'[g] = pending[g]
        /\ \A s \in Slots : pc[s] \in {"reserved", "failed"} => ix[s] # e /\ ix[s] \in Entries
    BY <1>10 DEF Ages, TypeOK
  <2>2. \A f \in air' : ~f.late => /\ f \in air
                                   /\ ~(f.cnt = pending[e].cnt /\ f.owner = pending[e].owner)
    <3> SUFFICES ASSUME NEW i \in air,
                        i.cnt = pending[e].cnt /\ i.owner = pending[e].owner
                 PROVE  [i EXCEPT !.late = TRUE].late
      BY <1>10 DEF Ages
    <3> QED BY DEF TypeOK, Frame
  <2>3. FrameAwaited'
    BY <1>0, <2>1, <2>2 DEF FrameAwaited, Awaits, Held
  <2>4. TaskAwaited'
    BY <1>0, <2>1 DEF TaskAwaited, Awaits, Held
  <2> QED BY <2>3, <2>4
<1>11. CASE UNCHANGED vars
  BY <1>0, <1>11 DEF vars, FrameAwaited, TaskAwaited, Awaits, Held
<1> QED
  BY <1>1, <1>2, <1>3, <1>4, <1>5, <1>6, <1>7, <1>8, <1>9, <1>10, <1>11 DEF Next

\* As long as no counter and no slot is mixed up and no transmission outlasts the time-out,
\* a frame whose ACK may still come in time has its entry.
THEOREM AwaitedHasEntryHolds == Spec => []AwaitedHasEntry
<1>1. Init => RInv /\ AInv
  BY DEF Init, RInv, Ordered, EntriesApart, FramesApart, TasksApart, FrameOfEntry, TaskOfEntry,
         TaskOfFrame, SlotOfEntry, TaskWaits, Held, Busy, AInv, FrameAwaited, TaskAwaited
<1>2. AInv => AwaitedHasEntry
  BY DEF AInv, FrameAwaited, AwaitedHasEntry, Awaits, Held
<1> QED BY <1>1, <1>2, OrderedStep, AwaitedStep, TypeCorrect, PTL DEF Spec

-----------------------------------------------------------------------------
(* HmuClients: descriptors.  Each one that a client has is in one place:   *)
(* accept_task's hands, or the slot whose task will close it.              *)

HIDE HmuAssumption
USE ClientsAssumption DEF ClientsAssumption

\* A slot in use has a descriptor of its own, and the connection that it was given for.
Seats ==
  /\ \A s \in Slots : stage[s] = "none" => ~active[s] /\ sock[s] = None /\ owner[s] = None
  /\ \A s \in Slots : stage[s] # "none" =>
       /\ active[s] /\ sock[s] \in Fds
       /\ fd[sock[s]] = owner[s] /\ owner[s] \in Conns
  /\ \A s, t \in Slots : s # t /\ sock[s] = sock[t] => sock[s] = None

\* accept_task holds a connection that no slot has.
Entrance == acc \in Fds => fd[acc] \in Conns /\ \A s \in Slots : sock[s] # acc

CInv == HCTypeOK /\ Seats /\ Entrance

LEMMA HCTypeStep == CInv /\ [HCNext]_hcVars => HCTypeOK'
<1> SUFFICES ASSUME CInv, [HCNext]_hcVars  PROVE HCTypeOK'
  OBVIOUS
<1> USE DEF CInv, HCTypeOK, slots, histories
<1>1. CASE Switches
  BY <1>1 DEF Switches
<1>2. ASSUME NEW f \in Fds, PeerLeaves(f) \/ OtherTakes(f) \/ OtherLeaves(f) \/ Connects(f)
      PROVE  HCTypeOK'
  BY <1>2 DEF PeerLeaves, OtherTakes, OtherLeaves, Connects
<1>3. CASE Rejects
  BY <1>3 DEF Rejects, Closed
<1>4. ASSUME NEW s \in Slots, Gives(s)  PROVE HCTypeOK'
  BY <1>4 DEF Gives, Entrance
<1>5. ASSUME NEW s \in Slots, Spawns(s) \/ SpawnFails(s)  PROVE HCTypeOK'
  BY <1>5 DEF Spawns, SpawnFails
<1>6. ASSUME NEW s \in Slots, Skips(s) \/ Answers(s)  PROVE HCTypeOK'
  <2>1. owner[s] \in Conns
    BY <1>6 DEF Skips, Answers, Seats
  <2>2. settled' \subseteq Conns
    <3>1. settled' = settled \cup {owner[s]}
      BY <1>6, Zenon DEF Skips, Answers
    <3> QED BY <2>1, <3>1
  <2>3. CASE Skips(s)
    BY <2>2, <2>3 DEF Skips
  <2>4. CASE Answers(s)
    BY <2>2, <2>4 DEF Answers
  <2> QED BY <1>6, <2>3, <2>4
<1>7. ASSUME NEW s \in Slots, CreatesTimer(s) \/ Repeats(s)  PROVE HCTypeOK'
  BY <1>7 DEF CreatesTimer, Repeats
<1>8. ASSUME NEW s \in Slots, Arms(s)  PROVE HCTypeOK'
  BY <1>8 DEF Arms, Started
<1>9. ASSUME NEW s \in Slots, Ends(s) \/ Locks(s)  PROVE HCTypeOK'
  BY <1>9 DEF Ends, Locks
<1>10. ASSUME NEW s \in Slots, CancelHello(s)  PROVE HCTypeOK'
  <2>1. CASE Hushes(s) \/ StopsTimer(s) \/ DeletesTimer(s)
    BY <2>1 DEF Hushes, StopsTimer, DeletesTimer, Done
  <2>2. CASE DeleteRefused(s)
    BY <2>2 DEF DeleteRefused
  <2>3. CASE ForgetsTimer(s)
    <3>1. orphans' \in [Slots -> Nat]
      BY <2>3 DEF ForgetsTimer
    <3>2. lost' \in BOOLEAN
      BY <2>3, Zenon DEF ForgetsTimer
    <3> QED BY <2>3, <3>1, <3>2 DEF ForgetsTimer, Done
  <2> QED BY <1>10, <2>1, <2>2, <2>3 DEF CancelHello
<1>11. ASSUME NEW s \in Slots, Probed(s)  PROVE HCTypeOK'
  <2>1. PICK place \in {"probed", "answer"} : stage' = [stage EXCEPT ![s] = place]
    BY <1>11 DEF Probed
  <2>2. awaiting' = [awaiting EXCEPT ![s] = FALSE] \/ UNCHANGED awaiting
    BY <1>11 DEF Probed
  <2>3. UNCHANGED <<bypass, fd, down, fresh, acc, mtx, sock, active, timer, repeating, orphans,
                    shot, fan, histories>>
    BY <1>11, Zenon DEF Probed
  <2>4. stage' \in [Slots -> {"none", "spawn", "start", "created", "arm", "recv", "probed",
                             "hushed", "stopped", "refused", "answer", "close", "closing",
                             "quiet", "halted", "kept", "shut"}]
    BY <2>1
  <2>5. awaiting' \in [Slots -> BOOLEAN]
    BY <2>2
  <2> QED BY <2>3, <2>4, <2>5
<1>12. ASSUME NEW s \in Slots, ClosesClient(s)  PROVE HCTypeOK'
  BY <1>12 DEF ClosesClient, Closed
<1>13. ASSUME NEW s \in Slots, Fires(s) \/ OrphanFires(s)  PROVE HCTypeOK'
  <2>1. CASE Fires(s)
    BY <2>1 DEF Fires, NoShot
  <2>2. CASE OrphanFires(s)
    <3>1. orphans[s] - 1 \in Nat /\ orphans' = [orphans EXCEPT ![s] = orphans[s] - 1]
      BY <2>2 DEF OrphanFires
    <3>2. orphans' \in [Slots -> Nat]
      BY <3>1
    <3>3. shot' = [at |-> "entered", slot |-> s, fd |-> None]
      BY <2>2 DEF OrphanFires, NoShot
    <3>4. UNCHANGED <<bypass, fd, down, fresh, acc, mtx, sock, active, awaiting, timer,
                      repeating, stage, fan, histories>>
      BY <2>2, Zenon DEF OrphanFires
    <3> QED BY <3>2, <3>3, <3>4
  <2> QED BY <1>13, <2>1, <2>2
<1>14. ASSUME NEW s \in Slots, LooksActive(s) \/ LooksAwaiting(s) \/ LooksRepeating(s)
       PROVE  HCTypeOK'
  BY <1>14 DEF LooksActive, LooksAwaiting, LooksRepeating, NoShot
<1>15. ASSUME NEW s \in Slots, Quiets(s)  PROVE HCTypeOK'
  BY <1>15 DEF Quiets, NoShot
<1>21. ASSUME NEW s \in Slots, Rearms(s)  PROVE HCTypeOK'
  BY <1>21 DEF Rearms, Started, NoShot
<1>16. ASSUME NEW s \in Slots, ReadsSock(s)  PROVE HCTypeOK'
  BY <1>16 DEF ReadsSock
<1>17. CASE SendsHello
  <2>1. shot' \in [at : {"after"}, slot : Slots \cup {None}, fd : {None}]
    BY <1>17 DEF SendsHello
  <2>2. greeted' \subseteq Conns /\ late' \subseteq Conns
    BY <1>17 DEF SendsHello
  <2>3. again' \in BOOLEAN
    BY <1>17, Zenon DEF SendsHello
  <2>4. UNCHANGED <<bypass, fd, down, fresh, acc, mtx, slots, stage, fan, owner, settled, raced,
                    lost>>
    BY <1>17, Zenon DEF SendsHello
  <2> QED BY <2>1, <2>2, <2>3, <2>4
<1>18. CASE Snapshots
  BY <1>18 DEF Snapshots
<1>19. CASE FanOut
  BY <1>19 DEF FanOut, Copies, Shuts
<1>20. CASE UNCHANGED hcVars
  BY <1>20 DEF hcVars
<1> QED BY <1>1, <1>2, <1>3, <1>4, <1>5, <1>6, <1>7, <1>8, <1>9, <1>10, <1>11, <1>12, <1>13,
           <1>14, <1>15, <1>16, <1>17, <1>18, <1>19, <1>20, <1>21
        DEF HCNext, AcceptTask, ClientTask, TimerTask

\* A step that moves no descriptor and gives or takes back no slot.
LEMMA SeatsStill ==
  ASSUME CInv, UNCHANGED <<fd, sock, active, owner>>, acc' = acc \/ acc' \notin Fds,
         \A s \in Slots : stage'[s] = "none" <=> stage[s] = "none"
  PROVE  Seats' /\ Entrance'
<1>1. Seats'
  BY DEF CInv, Seats
<1>2. Entrance'
  BY DEF CInv, Entrance
<1> QED BY <1>1, <1>2

\* A descriptor that no client has changes hands.
LEMMA SeatsElsewhere ==
  ASSUME CInv, NEW f \in Fds, fd[f] \notin Conns, fd' = [fd EXCEPT ![f] = fd'[f]],
         UNCHANGED <<stage, sock, active, owner>>,
         acc' = acc \/ (acc' = f /\ fd'[f] \in Conns)
  PROVE  Seats' /\ Entrance'
<1> USE DEF CInv, HCTypeOK
<1>1. \A s \in Slots : sock[s] # f
  BY DEF Seats
<1>2. Seats'
  BY <1>1 DEF Seats
<1>3. Entrance'
  BY <1>1 DEF Entrance
<1> QED BY <1>2, <1>3

LEMMA SeatsGives ==
  ASSUME CInv, NEW s \in Slots, Gives(s)
  PROVE  Seats' /\ Entrance'
<1> USE DEF CInv, HCTypeOK
<1>1. /\ acc \in Fds /\ fd[acc] \in Conns /\ acc' = s /\ UNCHANGED fd
      /\ sock' = [sock EXCEPT ![s] = acc] /\ active' = [active EXCEPT ![s] = TRUE]
      /\ stage' = [stage EXCEPT ![s] = "spawn"] /\ owner' = [owner EXCEPT ![s] = fd[acc]]
  BY DEF Gives, Entrance
<1>2. \A t \in Slots : sock[t] # acc
  BY <1>1 DEF Entrance
<1>3. Seats'
  BY <1>1, <1>2 DEF Seats
<1>4. Entrance'
  BY <1>1 DEF Entrance
<1> QED BY <1>3, <1>4

LEMMA SeatsClosed ==
  ASSUME CInv, NEW s \in Slots, ClosesClient(s)
  PROVE  Seats' /\ Entrance'
<1> USE DEF CInv, HCTypeOK
<1>1. /\ stage[s] = "shut" /\ fd' = [fd EXCEPT ![sock[s]] = None]
      /\ sock' = [sock EXCEPT ![s] = None] /\ active' = [active EXCEPT ![s] = FALSE]
      /\ stage' = [stage EXCEPT ![s] = "none"] /\ owner' = [owner EXCEPT ![s] = None]
      /\ acc' = IF acc = s THEN None ELSE acc
  BY DEF ClosesClient, Closed
<1>2. sock[s] \in Fds /\ \A t \in Slots : t # s => sock[t] # sock[s]
  BY <1>1 DEF Seats
<1>3. Seats'
  BY <1>1, <1>2 DEF Seats
<1>4. Entrance'
  <2> SUFFICES ASSUME acc' \in Fds
               PROVE  fd'[acc'] \in Conns /\ \A t \in Slots : sock'[t] # acc'
    BY DEF Entrance
  <2>1. acc' = acc /\ acc # sock[s]
    BY <1>1 DEF Entrance
  <2> QED BY <1>1, <1>2, <2>1 DEF Entrance
<1> QED BY <1>3, <1>4

LEMMA SeatsStep == CInv /\ [HCNext]_hcVars => Seats' /\ Entrance'
<1> SUFFICES ASSUME CInv, [HCNext]_hcVars  PROVE Seats' /\ Entrance'
  OBVIOUS
<1> USE DEF CInv, HCTypeOK, slots, histories
<1>1. CASE Switches \/ Snapshots \/ FanOut \/ UNCHANGED hcVars
  BY <1>1, SeatsStill DEF Switches, Snapshots, FanOut, Copies, Shuts, hcVars
<1>2. ASSUME NEW f \in Fds, PeerLeaves(f)  PROVE Seats' /\ Entrance'
  BY <1>2, SeatsStill DEF PeerLeaves
<1>3. ASSUME NEW f \in Fds, OtherTakes(f) \/ OtherLeaves(f)  PROVE Seats' /\ Entrance'
  <2>1. fd[f] \notin Conns /\ fd' = [fd EXCEPT ![f] = fd'[f]]
    BY <1>3 DEF OtherTakes, OtherLeaves
  <2> QED BY <1>3, <2>1, SeatsElsewhere DEF OtherTakes, OtherLeaves
<1>4. ASSUME NEW f \in Fds, Connects(f)  PROVE Seats' /\ Entrance'
  <2>1. fd[f] \notin Conns /\ fd'[f] \in Conns /\ fd' = [fd EXCEPT ![f] = fd'[f]]
    BY <1>4 DEF Connects
  <2> QED BY <1>4, <2>1, SeatsElsewhere DEF Connects
<1>5. CASE Rejects
  <2>1. /\ acc \in Fds /\ acc' = None /\ fd' = [fd EXCEPT ![acc] = None]
        /\ UNCHANGED <<stage, sock, active, owner>>
    BY <1>5 DEF Rejects, Closed
  <2>2. \A s \in Slots : sock[s] # acc
    BY <2>1 DEF Entrance
  <2>3. Seats'
    BY <2>1, <2>2 DEF Seats
  <2>4. Entrance'
    BY <2>1 DEF Entrance
  <2> QED BY <2>3, <2>4
<1>6. ASSUME NEW s \in Slots, Spawns(s) \/ SpawnFails(s)  PROVE Seats' /\ Entrance'
  <2>1. /\ UNCHANGED <<fd, sock, active, owner>>
        /\ acc' = acc \/ acc' = None
    BY <1>6 DEF Spawns, SpawnFails
  <2>2. \A t \in Slots : stage'[t] = "none" <=> stage[t] = "none"
    BY <1>6 DEF Spawns, SpawnFails
  <2> QED BY <2>1, <2>2, SeatsStill
<1>7. ASSUME NEW s \in Slots,
             \/ Skips(s) \/ CreatesTimer(s) \/ Repeats(s) \/ Arms(s) \/ Answers(s)
             \/ Ends(s) \/ Locks(s) \/ CancelHello(s) \/ Probed(s)
      PROVE  Seats' /\ Entrance'
  <2>1. UNCHANGED <<fd, sock, active, owner, acc>>
    BY <1>7, Zenon DEF Skips, CreatesTimer, Repeats, Arms, Answers, Ends, Locks,
       CancelHello, Hushes, StopsTimer, DeletesTimer, DeleteRefused,
       ForgetsTimer, Done, Probed
  <2>2. \E new \in {"created", "arm", "recv", "probed", "hushed", "stopped", "refused", "answer",
                    "close", "closing", "quiet", "halted", "kept", "shut"} :
          stage' = [stage EXCEPT ![s] = new]
    BY <1>7 DEF Skips, CreatesTimer, Repeats, Arms, Answers, Ends, Locks, CancelHello,
       Hushes, StopsTimer, DeletesTimer, DeleteRefused, ForgetsTimer, Done, Probed
  <2>3. stage[s] # "none"
    BY <1>7 DEF Skips, CreatesTimer, Repeats, Arms, Answers, Ends, Locks, CancelHello,
       Hushes, StopsTimer, DeletesTimer, DeleteRefused, ForgetsTimer, Done, Probed
  <2>4. \A t \in Slots : stage'[t] = "none" <=> stage[t] = "none"
    BY <2>2, <2>3
  <2> QED BY <2>1, <2>4, SeatsStill
<1>8. ASSUME NEW s \in Slots,
             \/ Fires(s) \/ OrphanFires(s) \/ LooksActive(s) \/ LooksAwaiting(s)
             \/ Quiets(s) \/ ReadsSock(s) \/ SendsHello \/ LooksRepeating(s) \/ Rearms(s)
      PROVE  Seats' /\ Entrance'
  <2>1. UNCHANGED <<fd, sock, active, owner, acc, stage>>
    BY <1>8, Zenon DEF Fires, OrphanFires, LooksActive, LooksAwaiting, Quiets, ReadsSock,
       SendsHello, LooksRepeating, Rearms
  <2> QED BY <2>1, SeatsStill
<1> QED BY <1>1, <1>2, <1>3, <1>4, <1>5, <1>6, <1>7, <1>8, SeatsGives, SeatsClosed
        DEF HCNext, AcceptTask, ClientTask, TimerTask

LEMMA CInvAlways == HCSpec => []CInv
<1>1. HCInit => CInv
  <2> SUFFICES ASSUME HCInit  PROVE CInv
    OBVIOUS
  <2> USE DEF HCInit
  <2>1. HCTypeOK
    <3>1. shot \in [at : {"idle"}, slot : {None}, fd : {None}]
      BY DEF NoShot
    <3>2. fan \in [socks : {{}}, failed : {None}]
      OBVIOUS
    <3> QED BY <3>1, <3>2 DEF HCTypeOK
  <2>2. Seats
    BY DEF Seats
  <2>3. Entrance
    BY DEF Entrance
  <2> QED BY <2>1, <2>2, <2>3 DEF CInv
<1>2. CInv /\ [HCNext]_hcVars => CInv'
  BY HCTypeStep, SeatsStep DEF CInv
<1> QED BY <1>1, <1>2, PTL DEF HCSpec

\* Every variable keeps its type.
THEOREM HCTypeCorrect == HCSpec => []HCTypeOK
<1>1. CInv => HCTypeOK
  BY DEF CInv
<1> QED BY <1>1, CInvAlways, PTL

\* A task never reads or writes another client's connection, although descriptors are
\* reused, and the fan-out and the timer use old ones.
THEOREM OwnConnectionHolds == HCSpec => []OwnConnection
<1>1. CInv => OwnConnection
  BY DEF CInv, Seats, OwnConnection
<1> QED BY <1>1, CInvAlways, PTL

-----------------------------------------------------------------------------
(* HmuClients: timers                                                      *)

\* A slot that is free, new, or about to be free has no timer.
Timerless == \A s \in Slots : stage[s] \in {"none", "spawn", "start", "shut"} => timer[s] = "none"

\* A timer that is armed after cancel_hello has stopped it, or that it could not delete, was
\* started again by the callback in between.
Raced ==
  /\ \A s \in Slots : stage[s] \in {"stopped", "halted"} /\ timer[s] = "armed" => s \in raced
  /\ \A s \in Slots : stage[s] \in {"refused", "kept"} => s \in raced

TimerInv == CInv /\ Timerless /\ Raced /\ LostOnlyIfRaced

LEMMA TimersStep == TimerInv /\ [HCNext]_hcVars => (Timerless /\ Raced /\ LostOnlyIfRaced)'
<1> DEFINE Goal == (Timerless /\ Raced /\ LostOnlyIfRaced)'
<1> SUFFICES ASSUME TimerInv, [HCNext]_hcVars  PROVE Goal
  OBVIOUS
<1> USE DEF TimerInv, CInv, HCTypeOK, Timerless, Raced, LostOnlyIfRaced, slots, histories
<1>1. CASE Switches \/ Snapshots \/ FanOut \/ UNCHANGED hcVars
  BY <1>1 DEF Switches, Snapshots, FanOut, Copies, Shuts, hcVars
<1>2. ASSUME NEW f \in Fds, PeerLeaves(f) \/ OtherTakes(f) \/ OtherLeaves(f) \/ Connects(f)
      PROVE  Goal
  BY <1>2 DEF PeerLeaves, OtherTakes, OtherLeaves, Connects
<1>3. CASE Rejects
  BY <1>3 DEF Rejects
<1>4. ASSUME NEW s \in Slots, Gives(s)  PROVE Goal
  <2>1. timer[s] = "none"
    BY <1>4 DEF Gives, Seats
  <2> QED BY <1>4, <2>1 DEF Gives
<1>5. ASSUME NEW s \in Slots, Spawns(s) \/ SpawnFails(s)  PROVE Goal
  BY <1>5 DEF Spawns, SpawnFails
<1>6. ASSUME NEW s \in Slots, Skips(s) \/ CreatesTimer(s) \/ Repeats(s)  PROVE Goal
  BY <1>6 DEF Skips, CreatesTimer, Repeats
<1>7. ASSUME NEW s \in Slots, Arms(s)  PROVE Goal
  BY <1>7 DEF Arms, Started
<1>8. ASSUME NEW s \in Slots, Answers(s) \/ Ends(s) \/ Locks(s)  PROVE Goal
  BY <1>8 DEF Answers, Ends, Locks
<1>9. ASSUME NEW s \in Slots, Hushes(s) \/ StopsTimer(s) \/ DeletesTimer(s)  PROVE Goal
  BY <1>9 DEF Hushes, StopsTimer, DeletesTimer, Done
<1>10. ASSUME NEW s \in Slots, DeleteRefused(s) \/ ForgetsTimer(s)  PROVE Goal
  <2>1. CASE DeleteRefused(s)
    <3>1. s \in raced
      <4>1. stage[s] \in {"stopped", "halted"} /\ timer[s] = "armed"
        BY <2>1, Zenon DEF DeleteRefused
      <4> QED BY <4>1
    <3>3. \E new \in {"refused", "kept"} : stage' = [stage EXCEPT ![s] = new]
      BY <2>1 DEF DeleteRefused
    <3>2. UNCHANGED <<timer, raced, lost>>
      BY <2>1, Zenon DEF DeleteRefused
    <3> QED BY <3>1, <3>2, <3>3
  <2>2. CASE ForgetsTimer(s)
    <3>1. /\ stage[s] \in {"refused", "kept"} /\ stage' = [stage EXCEPT ![s] = Done(@)]
          /\ timer' = [timer EXCEPT ![s] = "none"] /\ raced' = raced \ {s}
      BY <2>2, Zenon DEF ForgetsTimer
    <3>2. Done(stage[s]) \in {"answer", "shut"}
      BY <3>1 DEF Done
    <3>3. Timerless' /\ Raced'
      BY <3>1, <3>2
    <3>4. lost' <=> (lost \/ s \notin raced)
      BY <2>2, Zenon DEF ForgetsTimer
    <3> QED BY <3>1, <3>3, <3>4
  <2> QED BY <1>10, <2>1, <2>2
<1>11. ASSUME NEW s \in Slots, Probed(s)  PROVE Goal
  <2>1. \E new \in {"probed", "answer"} : stage' = [stage EXCEPT ![s] = new]
    BY <1>11 DEF Probed
  <2>2. UNCHANGED <<timer, raced, lost>>
    BY <1>11, Zenon DEF Probed
  <2> QED BY <2>1, <2>2
<1>12. ASSUME NEW s \in Slots, ClosesClient(s)  PROVE Goal
  BY <1>12 DEF ClosesClient
<1>13. ASSUME NEW s \in Slots, Fires(s) \/ Rearms(s)  PROVE Goal
  BY <1>13 DEF Fires, Rearms, Started
<1>14. ASSUME NEW s \in Slots,
              \/ OrphanFires(s) \/ LooksActive(s) \/ LooksAwaiting(s)
              \/ Quiets(s) \/ ReadsSock(s) \/ SendsHello \/ LooksRepeating(s)
       PROVE  Goal
  <2>1. UNCHANGED <<timer, stage, raced, lost>>
    BY <1>14, Zenon DEF OrphanFires, LooksActive, LooksAwaiting, Quiets, ReadsSock, SendsHello,
       LooksRepeating
  <2> QED BY <2>1
<1> QED BY <1>1, <1>2, <1>3, <1>4, <1>5, <1>6, <1>7, <1>8, <1>9, <1>10, <1>11, <1>12, <1>13,
           <1>14 DEF HCNext, AcceptTask, ClientTask, CancelHello, TimerTask

\* No slot is given anew, and no handle is thrown away, while the timer exists, however the
\* callback that is under way, the probe's answer and the end of the connection fall, with one
\* exception: the callback starts the timer again between the stop and the delete.
THEOREM LostOnlyIfRacedHolds == HCSpec => []LostOnlyIfRaced
<1>1. HCInit => Timerless /\ Raced /\ LostOnlyIfRaced
  BY DEF HCInit, Timerless, Raced, LostOnlyIfRaced
<1>2. CInv /\ Timerless /\ Raced /\ LostOnlyIfRaced /\ [HCNext]_hcVars
        => (Timerless /\ Raced /\ LostOnlyIfRaced)'
  BY TimersStep DEF TimerInv
<1> QED BY <1>1, <1>2, CInvAlways, PTL DEF HCSpec

-----------------------------------------------------------------------------
(* HmuClients: who gives a slot, a descriptor and the mutex back           *)

Closing == {"closing", "quiet", "halted", "kept", "shut"}

\* accept_task is at a slot it has just filled, or at one it could not get a task for; who has
\* the mutex is closing a client, and who closes one is accept_task or has it.
Manned ==
  /\ \A s \in Slots : stage[s] = "spawn" => acc = s
  /\ acc \in Slots => stage[acc] \in {"spawn"} \cup Closing
  /\ mtx \in Slots => stage[mtx] \in Closing
  /\ \A s \in Slots : stage[s] \in Closing => s = mtx \/ s = acc

\* Each connection is accept_task's, or a slot's.
NoneLost == \A f \in Fds : fd[f] \in Conns => acc = f \/ \E s \in Slots : sock[s] = f

MInv == CInv /\ Manned /\ NoneLost

LEMMA MannedStep == MInv /\ [HCNext]_hcVars => Manned'
<1> SUFFICES ASSUME MInv, [HCNext]_hcVars  PROVE Manned'
  OBVIOUS
<1> USE DEF MInv, CInv, HCTypeOK, Manned, Closing, slots, histories
<1>1. CASE Switches \/ Snapshots \/ FanOut \/ UNCHANGED hcVars
  BY <1>1 DEF Switches, Snapshots, FanOut, Copies, Shuts, hcVars
<1>2. ASSUME NEW f \in Fds, PeerLeaves(f) \/ OtherTakes(f) \/ OtherLeaves(f)  PROVE Manned'
  BY <1>2 DEF PeerLeaves, OtherTakes, OtherLeaves
<1>3. ASSUME NEW f \in Fds, Connects(f)  PROVE Manned'
  BY <1>3 DEF Connects
<1>4. CASE Rejects
  BY <1>4 DEF Rejects
<1>5. ASSUME NEW s \in Slots, Gives(s)  PROVE Manned'
  <2>1. stage[s] = "none"
    BY <1>5 DEF Gives, Seats
  <2>2. acc \in Fds /\ mtx = None /\ mtx' = mtx /\ acc' = s /\ stage' = [stage EXCEPT ![s] = "spawn"]
    BY <1>5 DEF Gives
  <2> QED BY <2>1, <2>2
<1>6. ASSUME NEW s \in Slots, Spawns(s) \/ SpawnFails(s)  PROVE Manned'
  BY <1>6 DEF Spawns, SpawnFails
<1>7. ASSUME NEW s \in Slots, Locks(s)  PROVE Manned'
  BY <1>7 DEF Locks
<1>8. ASSUME NEW s \in Slots, CancelHello(s)  PROVE Manned'
  BY <1>8 DEF CancelHello, Hushes, StopsTimer, DeletesTimer, DeleteRefused,
       ForgetsTimer, Done
<1>9. ASSUME NEW s \in Slots, ClosesClient(s)  PROVE Manned'
  BY <1>9 DEF ClosesClient
<1>10. ASSUME NEW s \in Slots,
              \/ Skips(s) \/ CreatesTimer(s) \/ Repeats(s) \/ Arms(s) \/ Answers(s)
              \/ Ends(s) \/ Probed(s)
       PROVE  Manned'
  <2>1. UNCHANGED <<acc, mtx>>
    BY <1>10, Zenon DEF Skips, CreatesTimer, Repeats, Arms, Answers, Ends, Probed
  <2>2. \E new \in {"created", "arm", "recv", "probed", "answer", "close"} :
          stage' = [stage EXCEPT ![s] = new]
    BY <1>10 DEF Skips, CreatesTimer, Repeats, Arms, Answers, Ends, Probed
  <2>3. stage[s] \notin {"spawn"} \cup Closing
    BY <1>10 DEF Skips, CreatesTimer, Repeats, Arms, Answers, Ends, Probed
  <2> QED BY <2>1, <2>2, <2>3
<1>11. ASSUME NEW s \in Slots,
              \/ Fires(s) \/ OrphanFires(s) \/ LooksActive(s) \/ LooksAwaiting(s)
              \/ Quiets(s) \/ ReadsSock(s) \/ SendsHello \/ LooksRepeating(s) \/ Rearms(s)
       PROVE  Manned'
  <2>1. UNCHANGED <<acc, mtx, stage>>
    BY <1>11, Zenon DEF Fires, OrphanFires, LooksActive, LooksAwaiting, Quiets, ReadsSock,
       SendsHello, LooksRepeating, Rearms
  <2> QED BY <2>1
<1> QED BY <1>1, <1>2, <1>3, <1>4, <1>5, <1>6, <1>7, <1>8, <1>9, <1>10, <1>11
        DEF HCNext, AcceptTask, ClientTask, TimerTask

LEMMA NoneLostStep == MInv /\ [HCNext]_hcVars => NoneLost'
<1> SUFFICES ASSUME MInv, [HCNext]_hcVars  PROVE NoneLost'
  OBVIOUS
<1> USE DEF MInv, CInv, HCTypeOK, NoneLost, slots, histories
<1>1. CASE Switches \/ Snapshots \/ FanOut \/ UNCHANGED hcVars
  BY <1>1 DEF Switches, Snapshots, FanOut, Copies, Shuts, hcVars
<1>2. ASSUME NEW f \in Fds, PeerLeaves(f) \/ OtherTakes(f) \/ OtherLeaves(f)  PROVE NoneLost'
  BY <1>2 DEF PeerLeaves, OtherTakes, OtherLeaves
<1>3. ASSUME NEW f \in Fds, Connects(f)  PROVE NoneLost'
  BY <1>3 DEF Connects
<1>4. CASE Rejects
  BY <1>4 DEF Rejects, Closed
<1>5. ASSUME NEW s \in Slots, Gives(s)  PROVE NoneLost'
  <2>1. sock[s] = None
    BY <1>5 DEF Gives, Seats
  <2>2. UNCHANGED fd /\ sock' = [sock EXCEPT ![s] = acc]
    BY <1>5 DEF Gives
  <2> QED BY <2>1, <2>2
<1>6. ASSUME NEW s \in Slots, Spawns(s) \/ SpawnFails(s)  PROVE NoneLost'
  <2>1. acc = s
    BY <1>6 DEF Spawns, SpawnFails, Manned
  <2> QED BY <1>6, <2>1 DEF Spawns, SpawnFails
<1>7. ASSUME NEW s \in Slots, ClosesClient(s)  PROVE NoneLost'
  BY <1>7 DEF ClosesClient, Closed, Seats
<1>8. ASSUME NEW s \in Slots,
             \/ Skips(s) \/ CreatesTimer(s) \/ Repeats(s) \/ Arms(s) \/ Answers(s)
             \/ Ends(s) \/ Locks(s) \/ CancelHello(s) \/ Probed(s)
      PROVE  NoneLost'
  <2>1. UNCHANGED <<fd, sock, acc>>
    BY <1>8, Zenon DEF Skips, CreatesTimer, Repeats, Arms, Answers, Ends, Locks,
       CancelHello, Hushes, StopsTimer, DeletesTimer, DeleteRefused,
       ForgetsTimer, Done, Probed
  <2> QED BY <2>1
<1>9. ASSUME NEW s \in Slots,
             \/ Fires(s) \/ OrphanFires(s) \/ LooksActive(s) \/ LooksAwaiting(s)
             \/ Quiets(s) \/ ReadsSock(s) \/ SendsHello \/ LooksRepeating(s) \/ Rearms(s)
      PROVE  NoneLost'
  <2>1. UNCHANGED <<fd, sock, acc>>
    BY <1>9, Zenon DEF Fires, OrphanFires, LooksActive, LooksAwaiting, Quiets, ReadsSock,
       SendsHello, LooksRepeating, Rearms
  <2> QED BY <2>1
<1> QED BY <1>1, <1>2, <1>3, <1>4, <1>5, <1>6, <1>7, <1>8, <1>9
        DEF HCNext, AcceptTask, ClientTask, TimerTask

\* S.mtx is never left behind: who has it is closing a client.  No connection is forgotten:
\* accept_task has it in hand, or a slot whose task or whose failed start will close it.
THEOREM NothingLeftBehind == HCSpec => [](Manned /\ NoneLost)
<1>1. HCInit => Manned /\ NoneLost
  BY DEF HCInit, Manned, Closing, NoneLost
<1>2. CInv /\ Manned /\ NoneLost /\ [HCNext]_hcVars => Manned' /\ NoneLost'
  BY MannedStep, NoneLostStep DEF MInv
<1> QED BY <1>1, <1>2, CInvAlways, PTL DEF HCSpec

-----------------------------------------------------------------------------
(* HmuClients: hellos                                                      *)

\* A connection has one descriptor, and had none before it was made.
Single ==
  /\ \A f, g \in Fds : fd[f] \in Conns /\ fd[f] = fd[g] => f = g
  /\ \A f \in Fds : fd[f] \notin fresh

\* A client is settled once its slot has stopped waiting for a probe, and not before it has one.
Settled ==
  /\ settled \cap fresh = {}
  /\ acc \in Fds => fd[acc] \notin settled
  /\ \A s \in Slots :
       owner[s] \in settled \/ stage[s] \in {"probed", "hushed", "stopped", "refused", "answer"}
         => ~awaiting[s]

\* The callback that got past its checks for a slot is not about to greet a client that had
\* its late hello: it finds no such client awaiting a probe, and no such client gets a slot.
OnceLate ==
  /\ late \subseteq settled
  /\ shot.at = "hello" => shot.slot \in Slots /\ owner[shot.slot] \notin late
  /\ shot.at = "send" => shot.fd \in Fds /\ fd[shot.fd] \notin late

GInv == CInv /\ Single /\ Settled /\ OnceLate /\ AtMostOneLateHello

LEMMA SingleStep == GInv /\ [HCNext]_hcVars => Single'
<1> SUFFICES ASSUME GInv, [HCNext]_hcVars  PROVE Single'
  OBVIOUS
<1> USE DEF GInv, CInv, HCTypeOK, Single, slots, histories
<1>1. CASE Switches \/ Snapshots \/ FanOut \/ UNCHANGED hcVars
  BY <1>1 DEF Switches, Snapshots, FanOut, Copies, Shuts, hcVars
<1>2. ASSUME NEW f \in Fds, PeerLeaves(f) \/ OtherTakes(f) \/ OtherLeaves(f)  PROVE Single'
  BY <1>2 DEF PeerLeaves, OtherTakes, OtherLeaves
<1>3. ASSUME NEW f \in Fds, Connects(f)  PROVE Single'
  BY <1>3 DEF Connects
<1>4. CASE Rejects
  BY <1>4 DEF Rejects, Closed
<1>5. ASSUME NEW s \in Slots, ClosesClient(s)  PROVE Single'
  <2>1. fd' = [fd EXCEPT ![sock[s]] = None] /\ UNCHANGED fresh
    BY <1>5 DEF ClosesClient, Closed
  <2> QED BY <2>1
<1>6. ASSUME NEW s \in Slots,
             \/ Gives(s) \/ Spawns(s) \/ SpawnFails(s)
             \/ Skips(s) \/ CreatesTimer(s) \/ Repeats(s) \/ Arms(s) \/ Answers(s)
             \/ Ends(s) \/ Locks(s) \/ CancelHello(s) \/ Probed(s)
      PROVE  Single'
  <2>1. UNCHANGED <<fd, fresh>>
    BY <1>6, Zenon DEF Gives, Spawns, SpawnFails, Skips, CreatesTimer, Repeats, Arms,
       Answers, Ends, Locks, CancelHello, Hushes, StopsTimer, DeletesTimer, DeleteRefused,
       ForgetsTimer, Done, Probed
  <2> QED BY <2>1
<1>7. ASSUME NEW s \in Slots,
             \/ Fires(s) \/ OrphanFires(s) \/ LooksActive(s) \/ LooksAwaiting(s)
             \/ Quiets(s) \/ ReadsSock(s) \/ SendsHello \/ LooksRepeating(s) \/ Rearms(s)
      PROVE  Single'
  <2>1. UNCHANGED <<fd, fresh>>
    BY <1>7, Zenon DEF Fires, OrphanFires, LooksActive, LooksAwaiting, Quiets, ReadsSock,
       SendsHello, LooksRepeating, Rearms
  <2> QED BY <2>1
<1> QED BY <1>1, <1>2, <1>3, <1>4, <1>5, <1>6, <1>7
        DEF HCNext, AcceptTask, ClientTask, TimerTask

\* The client of a slot becomes settled, when the slot waits for no probe any more.
LEMMA Settles ==
  ASSUME GInv, NEW s \in Slots, stage[s] # "none",
         settled' = settled \cup {owner[s]},
         \A t \in Slots : awaiting'[t] => awaiting[t] /\ t # s,
         UNCHANGED <<fd, fresh, acc, owner, stage>> \/
           (UNCHANGED <<fd, fresh, acc, owner>> /\ stage' = [stage EXCEPT ![s] = "recv"])
  PROVE  Settled'
<1> USE DEF GInv, CInv, HCTypeOK, Settled
<1>1. sock[s] \in Fds /\ fd[sock[s]] = owner[s] /\ owner[s] \in Conns
  BY DEF Seats
<1>2. owner[s] \notin fresh
  BY <1>1 DEF Single
<1>3. acc \in Fds => fd[acc] # owner[s]
  BY <1>1 DEF Single, Entrance
<1>4. ASSUME NEW t \in Slots, owner[t] = owner[s]  PROVE t = s
  BY <1>1, <1>4 DEF Single, Seats
<1> QED BY <1>2, <1>3, <1>4

LEMMA SettledStep == GInv /\ [HCNext]_hcVars => Settled'
<1> SUFFICES ASSUME GInv, [HCNext]_hcVars  PROVE Settled'
  OBVIOUS
<1> USE DEF GInv, CInv, HCTypeOK, Settled, slots, histories
<1>1. CASE Switches \/ Snapshots \/ FanOut \/ UNCHANGED hcVars
  BY <1>1 DEF Switches, Snapshots, FanOut, Copies, Shuts, hcVars
<1>2. ASSUME NEW f \in Fds, PeerLeaves(f) \/ OtherTakes(f) \/ OtherLeaves(f)  PROVE Settled'
  BY <1>2 DEF PeerLeaves, OtherTakes, OtherLeaves
<1>3. ASSUME NEW f \in Fds, Connects(f)  PROVE Settled'
  BY <1>3 DEF Connects
<1>4. CASE Rejects
  BY <1>4 DEF Rejects
<1>5. ASSUME NEW s \in Slots, Gives(s)  PROVE Settled'
  <2>1. acc \in Fds /\ fd[acc] \notin settled /\ acc' = s
    BY <1>5 DEF Gives
  <2>2. /\ owner' = [owner EXCEPT ![s] = fd[acc]] /\ stage' = [stage EXCEPT ![s] = "spawn"]
        /\ awaiting' = [awaiting EXCEPT ![s] = TRUE] /\ UNCHANGED <<fd, fresh, settled>>
    BY <1>5 DEF Gives
  <2> QED BY <2>1, <2>2
<1>6. ASSUME NEW s \in Slots, Spawns(s) \/ SpawnFails(s)  PROVE Settled'
  BY <1>6 DEF Spawns, SpawnFails
<1>7. ASSUME NEW s \in Slots, Skips(s)  PROVE Settled'
  BY <1>7, Settles DEF Skips
<1>8. ASSUME NEW s \in Slots, Answers(s)  PROVE Settled'
  BY <1>8, Settles DEF Answers
<1>9. ASSUME NEW s \in Slots, Probed(s)  PROVE Settled'
  <2>1. /\ awaiting' = [awaiting EXCEPT ![s] = FALSE]
        /\ stage' = [stage EXCEPT ![s] = "probed"]
    BY <1>9 DEF Probed, HostProbes
  <2>2. UNCHANGED <<fd, fresh, acc, owner, settled>>
    BY <1>9, Zenon DEF Probed
  <2> QED BY <2>1, <2>2
<1>10. ASSUME NEW s \in Slots, CreatesTimer(s) \/ Repeats(s) \/ Arms(s)  PROVE Settled'
  BY <1>10 DEF CreatesTimer, Repeats, Arms
<1>11. ASSUME NEW s \in Slots, Ends(s) \/ Locks(s) \/ CancelHello(s)
       PROVE  Settled'
  BY <1>11 DEF Ends, Locks, CancelHello, Hushes, StopsTimer, DeletesTimer, DeleteRefused,
       ForgetsTimer, Done
<1>12. ASSUME NEW s \in Slots, ClosesClient(s)  PROVE Settled'
  <2>1. /\ fd' = [fd EXCEPT ![sock[s]] = None] /\ owner' = [owner EXCEPT ![s] = None]
        /\ stage' = [stage EXCEPT ![s] = "none"] /\ UNCHANGED <<fresh, awaiting, settled>>
        /\ acc' = IF acc = s THEN None ELSE acc
    BY <1>12 DEF ClosesClient, Closed
  <2> QED BY <2>1
<1>13. ASSUME NEW s \in Slots,
              \/ Fires(s) \/ OrphanFires(s) \/ LooksActive(s) \/ LooksAwaiting(s)
              \/ Quiets(s) \/ ReadsSock(s) \/ SendsHello \/ LooksRepeating(s) \/ Rearms(s)
       PROVE  Settled'
  <2>1. UNCHANGED <<fd, fresh, acc, owner, stage, awaiting, settled>>
    BY <1>13, Zenon DEF Fires, OrphanFires, LooksActive, LooksAwaiting, Quiets, ReadsSock,
       SendsHello, LooksRepeating, Rearms
  <2> QED BY <2>1
<1> QED BY <1>1, <1>2, <1>3, <1>4, <1>5, <1>6, <1>7, <1>8, <1>9, <1>10, <1>11, <1>12, <1>13
        DEF HCNext, AcceptTask, ClientTask, TimerTask

LEMMA OnceLateStep == GInv /\ [HCNext]_hcVars => OnceLate' /\ AtMostOneLateHello'
<1> SUFFICES ASSUME GInv, [HCNext]_hcVars  PROVE OnceLate' /\ AtMostOneLateHello'
  OBVIOUS
<1> USE DEF GInv, CInv, HCTypeOK, OnceLate, AtMostOneLateHello, slots, histories
<1>1. CASE Switches \/ Snapshots \/ FanOut \/ UNCHANGED hcVars
  BY <1>1 DEF Switches, Snapshots, FanOut, Copies, Shuts, hcVars
<1>2. ASSUME NEW f \in Fds, PeerLeaves(f) \/ OtherTakes(f) \/ OtherLeaves(f)
      PROVE  OnceLate' /\ AtMostOneLateHello'
  BY <1>2 DEF PeerLeaves, OtherTakes, OtherLeaves
<1>3. ASSUME NEW f \in Fds, Connects(f)  PROVE OnceLate' /\ AtMostOneLateHello'
  <2>1. PICK c \in fresh : fd' = [fd EXCEPT ![f] = c]
    BY <1>3 DEF Connects
  <2>2. c \notin late
    BY DEF Settled
  <2>3. UNCHANGED <<owner, settled, late, again, shot>>
    BY <1>3 DEF Connects
  <2> QED BY <2>1, <2>2, <2>3
<1>4. CASE Rejects
  BY <1>4 DEF Rejects, Closed
<1>5. ASSUME NEW s \in Slots, Gives(s)  PROVE OnceLate' /\ AtMostOneLateHello'
  <2>1. fd[acc] \notin late
    BY <1>5 DEF Gives, Settled
  <2>2. owner' = [owner EXCEPT ![s] = fd[acc]] /\ UNCHANGED <<fd, settled, late, again, shot>>
    BY <1>5 DEF Gives
  <2> QED BY <2>1, <2>2
<1>6. ASSUME NEW s \in Slots, ClosesClient(s)  PROVE OnceLate' /\ AtMostOneLateHello'
  <2>1. /\ fd' = [fd EXCEPT ![sock[s]] = None] /\ owner' = [owner EXCEPT ![s] = None]
        /\ UNCHANGED <<settled, late, again, shot>>
    BY <1>6 DEF ClosesClient, Closed
  <2> QED BY <2>1
<1>7. ASSUME NEW s \in Slots, Skips(s) \/ Answers(s)  PROVE OnceLate' /\ AtMostOneLateHello'
  <2>1. settled \subseteq settled' /\ UNCHANGED <<fd, owner, late, again, shot>>
    BY <1>7, Zenon DEF Skips, Answers
  <2> QED BY <2>1
<1>8. ASSUME NEW s \in Slots,
             \/ Spawns(s) \/ SpawnFails(s) \/ CreatesTimer(s) \/ Repeats(s) \/ Arms(s)
             \/ Ends(s) \/ Locks(s) \/ CancelHello(s) \/ Probed(s)
      PROVE  OnceLate' /\ AtMostOneLateHello'
  <2>1. UNCHANGED <<fd, owner, settled, late, again, shot>>
    BY <1>8, Zenon DEF Spawns, SpawnFails, CreatesTimer, Repeats, Arms, Ends, Locks,
       CancelHello, Hushes, StopsTimer, DeletesTimer, DeleteRefused,
       ForgetsTimer, Done, Probed
  <2> QED BY <2>1
<1>9. ASSUME NEW s \in Slots, Fires(s) \/ OrphanFires(s) \/ Quiets(s) \/ Rearms(s)
      PROVE  OnceLate' /\ AtMostOneLateHello'
  <2>1. shot'.at \in {"entered", "idle"} /\ UNCHANGED <<settled, late, again>>
    <3>1. CASE Fires(s) \/ OrphanFires(s)
      BY <3>1 DEF Fires, OrphanFires, NoShot
    <3>2. CASE Quiets(s) \/ Rearms(s)
      <4>1. shot' = NoShot /\ UNCHANGED <<settled, late, again>>
        BY <3>2, Zenon DEF Quiets, Rearms
      <4> QED BY <4>1 DEF NoShot
    <3> QED BY <1>9, <3>1, <3>2
  <2> QED BY <2>1
<1>10. ASSUME NEW s \in Slots, LooksActive(s) \/ LooksRepeating(s)
       PROVE  OnceLate' /\ AtMostOneLateHello'
  <2>1. shot'.at \in {"active", "rearm", "idle"} /\ UNCHANGED <<settled, late, again>>
    BY <1>10 DEF LooksActive, LooksRepeating, NoShot
  <2> QED BY <2>1
<1>11. ASSUME NEW s \in Slots, s = shot.slot, LooksAwaiting(s)
       PROVE  OnceLate' /\ AtMostOneLateHello'
  <2>1. UNCHANGED <<owner, awaiting, settled, late, again>>
    BY <1>11 DEF LooksAwaiting
  <2>2. shot'.at \in {"hello", "quiet"} /\ shot'.slot = s /\ (shot'.at = "hello" => awaiting[s])
    BY <1>11 DEF LooksAwaiting
  <2>3. awaiting[s] => owner[s] \notin late
    BY DEF Settled
  <2> QED BY <2>1, <2>2, <2>3
<1>12. ASSUME NEW s \in Slots, s = shot.slot, ReadsSock(s)
       PROVE  OnceLate' /\ AtMostOneLateHello'
  <2>1. UNCHANGED <<fd, settled, late, again>>
    BY <1>12 DEF ReadsSock
  <2>2. \/ shot'.at = "after"
        \/ shot'.at = "send" /\ shot'.fd = sock[s] /\ sock[s] # None
    BY <1>12 DEF ReadsSock
  <2>3. owner[s] \notin late
    BY <1>12 DEF ReadsSock
  <2>4. sock[s] # None => sock[s] \in Fds /\ fd[sock[s]] = owner[s]
    BY DEF Seats
  <2> QED BY <2>1, <2>2, <2>3, <2>4
<1>13. CASE SendsHello
  <2>1. shot'.at = "after" /\ UNCHANGED settled
    BY <1>13 DEF SendsHello
  <2>2. again' = FALSE
    BY <1>13 DEF SendsHello
  <2>3. late' \subseteq settled
    BY <1>13 DEF SendsHello
  <2> QED BY <2>1, <2>2, <2>3
<1> QED BY <1>1, <1>2, <1>3, <1>4, <1>5, <1>6, <1>7, <1>8, <1>9, <1>10, <1>11, <1>12, <1>13
        DEF HCNext, AcceptTask, ClientTask, TimerTask

\* "Co_CPU_BL" reaches a client that needs none any more at most once.
THEOREM LateHellos == HCSpec => []AtMostOneLateHello
<1>1. HCInit => Single /\ Settled /\ OnceLate /\ AtMostOneLateHello
  BY DEF HCInit, Single, Settled, OnceLate, AtMostOneLateHello, NoShot
<1>2. CInv /\ Single /\ Settled /\ OnceLate /\ AtMostOneLateHello /\ [HCNext]_hcVars
      => Single' /\ Settled' /\ OnceLate' /\ AtMostOneLateHello'
  BY SingleStep, SettledStep, OnceLateStep DEF GInv
<1> QED BY <1>1, <1>2, CInvAlways, PTL DEF HCSpec

=============================================================================
