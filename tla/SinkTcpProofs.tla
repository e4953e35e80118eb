---------------------------- MODULE SinkTcpProofs ----------------------------
(* Proofs about SinkTcp, for any number of slots, connections and           *)
(* descriptors.                                                             *)
EXTENDS SinkTcp, FiniteSetTheorems, WellFoundedInduction, NaturalsInduction, TLAPS

USE TcpAssumption DEF TcpAssumption, table, accept, history

-----------------------------------------------------------------------------
(* Types                                                                   *)

\* There is a first free slot when there is a free one.
LEMMA FirstFreeIsFree == Free # {} => FirstFree \in Slots /\ ~active[FirstFree]
<1> SUFFICES ASSUME Free # {}  PROVE FirstFree \in Free
  BY DEF Free
<1>1. Free \subseteq Nat
  BY DEF Free, Slots
<1>2. PICK i \in Free : \A j \in Free : ~ (<<j, i>> \in OpToRel(<, Nat))
  BY <1>1, NatLessThanWellFounded, WFMin
<1>3. \A m, n \in Nat : m < n => <<m, n>> \in OpToRel(<, Nat)
  BY Zenon DEF OpToRel
<1>4. \A j \in Free : ~ (j < i)
  BY <1>1, <1>2, <1>3, Zenon
<1>5. \A j \in Free : i <= j
  BY <1>1, <1>4
<1> QED BY <1>5 DEF FirstFree

\* What accept_task needs for its next step.
Phases == (acc = "claim" => cs \in Fds) /\ (acc = "spawn" => slot \in Slots)

TInv == TypeOK /\ Phases

LEMMA PhasesStep == TInv /\ [Next]_vars => Phases'
<1> SUFFICES ASSUME TInv, [Next]_vars  PROVE Phases'
  OBVIOUS
<1> USE DEF TInv, Phases
<1>1. CASE \E c \in Conns, f \in Fds : Accepts(c, f)
  BY <1>1 DEF Accepts
<1>2. CASE Refuses
  BY <1>2 DEF Refuses
<1>3. CASE Claims
  <2>1. FirstFree \in Slots
    BY <1>3, FirstFreeIsFree DEF Claims
  <2>2. acc' = "spawn" /\ slot' = FirstFree
    BY <1>3, Zenon DEF Claims
  <2> QED BY <2>1, <2>2
<1>4. CASE Spawns \/ SpawnFails
  BY <1>4 DEF Spawns, SpawnFails
<1>5. CASE \/ \E c \in Conns : Connects(c) \/ \E how \in {"closed", "broken"} : Ends(c, how)
           \/ \E i \in Slots : Client(i)
           \/ StartsFan \/ Sends \/ SendFails \/ UNCHANGED vars
  <2>1. UNCHANGED <<acc, cs, slot>>
    BY <1>5, Zenon DEF Connects, Ends, Client, Receives, Forwarded, Stops, Leaves, StartsFan, Sends,
       SendFails, vars
  <2> QED BY <2>1
<1> QED BY <1>1, <1>2, <1>3, <1>4, <1>5 DEF Next

LEMMA CloseType ==
  ASSUME TypeOK, NEW i \in Slots, CloseClient(i)
  PROVE  /\ peer' \in [Conns -> {"away", "queued", "open", "closed", "broken"}]
         /\ file' \in [Fds -> Conns \cup {None}]
         /\ sock' \in [Slots -> Fds \cup {None}]
         /\ active' \in [Slots -> BOOLEAN]
         /\ count' \in Int
<1> USE DEF TypeOK, CloseClient
<1>1. peer' \in [Conns -> {"away", "queued", "open", "closed", "broken"}]
  BY DEF Gone
<1>2. file' \in [Fds -> Conns \cup {None}]
  BY DEF Freed
<1>3. sock' \in [Slots -> Fds \cup {None}]
  OBVIOUS
<1>4. active' \in [Slots -> BOOLEAN]
  OBVIOUS
<1>5. count' \in Int
  BY DEF Left
<1> QED BY <1>1, <1>2, <1>3, <1>4, <1>5

LEMMA TypeStep == TInv /\ [Next]_vars => TypeOK'
<1> SUFFICES ASSUME TInv, [Next]_vars  PROVE TypeOK'
  OBVIOUS
<1> USE DEF TInv, Phases, TypeOK
<1>1. ASSUME NEW c \in Conns, Connects(c)  PROVE TypeOK'
  BY <1>1 DEF Connects
<1>2. ASSUME NEW c \in Conns, NEW how \in {"closed", "broken"}, Ends(c, how)  PROVE TypeOK'
  BY <1>2 DEF Ends
<1>3. ASSUME NEW c \in Conns, NEW f \in Fds, Accepts(c, f)  PROVE TypeOK'
  BY <1>3 DEF Accepts
<1>4. CASE Refuses
  BY <1>4 DEF Refuses, Refused, Freed, Gone
<1>5. CASE Claims
  <2> DEFINE i == FirstFree
  <2>1. i \in Slots
    BY <1>5, FirstFreeIsFree DEF Claims
  <2>2. owner' \in [Slots -> Conns \cup {None}]
    BY <1>5, <2>1 DEF Claims
  <2> HIDE DEF i
  <2>3. /\ sock' = [sock EXCEPT ![i] = cs] /\ active' = [active EXCEPT ![i] = TRUE]
        /\ count' = count + 1 /\ slot' = i /\ acc' = "spawn" /\ cs' = None
        /\ UNCHANGED <<peer, file, task, got, fan, unserved>>
    BY <1>5 DEF Claims, i
  <2> QED BY <2>1, <2>2, <2>3
<1>6. CASE Spawns \/ SpawnFails
  BY <1>6 DEF Spawns, SpawnFails
<1>7. ASSUME NEW i \in Slots, Receives(i) \/ Forwarded(i) \/ Stops(i)  PROVE TypeOK'
  BY <1>7 DEF Receives, Forwarded, Stops, Read
<1>8. ASSUME NEW i \in Slots, Leaves(i)  PROVE TypeOK'
  <2>1. CASE active[i]
    BY <1>8, <2>1, CloseType DEF Leaves
  <2>2. CASE ~active[i]
    BY <1>8, <2>2 DEF Leaves
  <2> QED BY <2>1, <2>2
<1>9. CASE StartsFan \/ Sends
  BY <1>9 DEF StartsFan, Sends, NextSlot
<1>10. CASE SendFails
  <2>1. fan' \in 0 .. NSlots
    BY <1>10 DEF SendFails, NextSlot
  <2>2. peer' \in [Conns -> {"away", "queued", "open", "closed", "broken"}]
    BY <1>10 DEF SendFails, Shut
  <2>3. UNCHANGED <<file, sock, active, count, acc, cs, slot, task, got, owner, unserved>>
    BY <1>10, Zenon DEF SendFails, Shut
  <2> QED BY <2>1, <2>2, <2>3
<1>11. CASE UNCHANGED vars
  BY <1>11 DEF vars
<1> QED BY <1>1, <1>2, <1>3, <1>4, <1>5, <1>6, <1>7, <1>8, <1>9, <1>10, <1>11
        DEF Next, Client

\* Every variable keeps its type.
THEOREM TypeCorrect == Spec => []TypeOK
<1>1. Init => TInv
  BY DEF Init, TInv, Phases, TypeOK
<1>2. TInv /\ [Next]_vars => TInv'
  BY TypeStep, PhasesStep DEF TInv
<1>3. TInv => TypeOK
  BY DEF TInv
<1> QED BY <1>1, <1>2, <1>3, PTL DEF Spec

-----------------------------------------------------------------------------
(* Descriptors.  Each one that is open has one place: accept_task's hands, *)
(* or the slot that will close it.                                         *)

Seated ==
  /\ \A i \in Slots : active[i] => /\ sock[i] \in Fds /\ owner[i] \in Conns
                                   /\ file[sock[i]] = owner[i]
  /\ \A i \in Slots : ~active[i] => sock[i] = None
  /\ \A i, j \in Slots : sock[i] # None /\ sock[i] = sock[j] => i = j
  /\ acc = "claim" => cs \in Fds /\ file[cs] \in Conns /\ \A i \in Slots : sock[i] # cs

Placed ==
  \A f \in Fds : file[f] # None =>
    \/ acc = "claim" /\ cs = f
    \/ \E i \in Slots : active[i] /\ sock[i] = f

SInv == TInv /\ Seated /\ Placed

LEMMA SeatedStill ==
  ASSUME SInv, UNCHANGED <<file, sock, active, owner>>,
         (acc' = acc /\ cs' = cs) \/ (acc = "spawn" /\ acc' = "accept")
  PROVE  Seated' /\ Placed'
<1>1. Seated'
  BY DEF SInv, Seated
<1>2. Placed'
  BY DEF SInv, Placed
<1> QED BY <1>1, <1>2

LEMMA SeatedAccepts ==
  ASSUME SInv, NEW c \in Conns, NEW f \in Fds, Accepts(c, f)
  PROVE  Seated' /\ Placed'
<1> USE DEF SInv, TInv, TypeOK
<1>1. /\ file[f] = None /\ file' = [file EXCEPT ![f] = c] /\ acc' = "claim" /\ cs' = f
      /\ UNCHANGED <<sock, active, owner>> /\ acc = "accept"
  BY DEF Accepts
<1>2. \A i \in Slots : sock[i] # f
  BY <1>1 DEF Seated
<1>3. Seated'
  BY <1>1, <1>2 DEF Seated
<1>4. Placed'
  BY <1>1 DEF Placed
<1> QED BY <1>3, <1>4

LEMMA SeatedRefuses == ASSUME SInv, Refuses  PROVE Seated' /\ Placed'
<1> USE DEF SInv, TInv, TypeOK
<1>1. /\ acc = "claim" /\ file' = [file EXCEPT ![cs] = None]
      /\ acc' = "accept" /\ UNCHANGED <<sock, active, owner>>
  BY DEF Refuses, Refused, Freed
<1>2. Seated'
  BY <1>1 DEF Seated
<1>3. Placed'
  BY <1>1 DEF Placed, Seated
<1> QED BY <1>2, <1>3

LEMMA SeatedClaims == ASSUME SInv, Claims  PROVE Seated' /\ Placed'
<1> USE DEF SInv, TInv, TypeOK
<1> DEFINE k == FirstFree
<1>1. k \in Slots /\ ~active[k]
  BY FirstFreeIsFree DEF Claims
<1>2. /\ acc = "claim" /\ acc' = "spawn"
      /\ sock' = [sock EXCEPT ![k] = cs] /\ active' = [active EXCEPT ![k] = TRUE]
      /\ owner' = [owner EXCEPT ![k] = file[cs]] /\ file' = file
  BY DEF Claims
<1> HIDE DEF k
<1>3. cs \in Fds /\ file[cs] \in Conns /\ \A i \in Slots : sock[i] # cs
  BY <1>2 DEF Seated
<1>4. Seated'
  <2>1. ASSUME NEW i \in Slots, active'[i]
        PROVE  sock'[i] \in Fds /\ owner'[i] \in Conns /\ file'[sock'[i]] = owner'[i]
    BY <1>1, <1>2, <1>3, <2>1 DEF Seated
  <2>2. ASSUME NEW i \in Slots, ~active'[i]  PROVE sock'[i] = None
    BY <1>1, <1>2, <2>2 DEF Seated
  <2>3. ASSUME NEW i \in Slots, NEW j \in Slots, sock'[i] # None, sock'[i] = sock'[j]
        PROVE  i = j
    BY <1>1, <1>2, <1>3, <2>3 DEF Seated
  <2> QED BY <1>2, <2>1, <2>2, <2>3 DEF Seated
<1>5. Placed'
  <2> SUFFICES ASSUME NEW f \in Fds, file'[f] # None
               PROVE  \E i \in Slots : active'[i] /\ sock'[i] = f
    BY DEF Placed
  <2>1. CASE f = cs
    BY <1>1, <1>2, <2>1
  <2>2. CASE f # cs
    <3>1. PICK i \in Slots : active[i] /\ sock[i] = f
      BY <1>2, <2>2 DEF Placed
    <3> QED BY <1>1, <1>2, <3>1
  <2> QED BY <2>1, <2>2
<1> QED BY <1>4, <1>5

LEMMA SeatedLeaves ==
  ASSUME SInv, NEW k \in Slots, active[k], CloseClient(k), UNCHANGED <<acc, cs, owner>>
  PROVE  Seated' /\ Placed'
<1> USE DEF SInv, TInv, TypeOK
<1>1. /\ file' = [file EXCEPT ![sock[k]] = None] /\ sock' = [sock EXCEPT ![k] = None]
      /\ active' = [active EXCEPT ![k] = FALSE]
  BY DEF CloseClient, Freed
<1>2. sock[k] \in Fds /\ \A i \in Slots \ {k} : sock[i] # sock[k]
  BY DEF Seated
<1>3. Seated'
  <2>1. ASSUME NEW i \in Slots, active'[i]
        PROVE  sock'[i] \in Fds /\ owner'[i] \in Conns /\ file'[sock'[i]] = owner'[i]
    BY <1>1, <1>2, <2>1 DEF Seated
  <2>2. ASSUME NEW i \in Slots, ~active'[i]  PROVE sock'[i] = None
    BY <1>1, <2>2 DEF Seated
  <2>3. ASSUME NEW i \in Slots, NEW j \in Slots, sock'[i] # None, sock'[i] = sock'[j]
        PROVE  i = j
    BY <1>1, <2>3 DEF Seated
  <2>4. acc' = "claim" =>
          cs' \in Fds /\ file'[cs'] \in Conns /\ \A i \in Slots : sock'[i] # cs'
    BY <1>1, <1>2 DEF Seated
  <2> QED BY <2>1, <2>2, <2>3, <2>4 DEF Seated
<1>4. Placed'
  <2> SUFFICES ASSUME NEW f \in Fds, file'[f] # None, ~(acc = "claim" /\ cs = f)
               PROVE  \E i \in Slots : active'[i] /\ sock'[i] = f
    BY DEF Placed
  <2>1. f # sock[k] /\ file[f] # None
    BY <1>1, <1>2
  <2>2. PICK i \in Slots : active[i] /\ sock[i] = f
    BY <2>1 DEF Placed
  <2> QED BY <1>1, <2>1, <2>2
<1> QED BY <1>3, <1>4

LEMMA SeatedStep == SInv /\ [Next]_vars => Seated' /\ Placed'
<1> SUFFICES ASSUME SInv, [Next]_vars  PROVE Seated' /\ Placed'
  OBVIOUS
<1>1. CASE \E c \in Conns, f \in Fds : Accepts(c, f)
  BY <1>1, SeatedAccepts
<1>2. CASE Refuses
  BY <1>2, SeatedRefuses
<1>3. CASE Claims
  BY <1>3, SeatedClaims
<1>4. ASSUME NEW i \in Slots, Leaves(i)  PROVE Seated' /\ Placed'
  <2>1. CASE active[i]
    BY <1>4, <2>1, SeatedLeaves DEF Leaves
  <2>2. CASE ~active[i]
    <3>1. UNCHANGED <<file, sock, active, owner, acc, cs>>
      BY <1>4, <2>2 DEF Leaves
    <3> QED BY <3>1, SeatedStill
  <2> QED BY <2>1, <2>2
<1>5. CASE Spawns \/ SpawnFails
  BY <1>5, SeatedStill DEF Spawns, SpawnFails
<1>6. CASE \/ \E c \in Conns : Connects(c) \/ \E how \in {"closed", "broken"} : Ends(c, how)
           \/ \E i \in Slots : Receives(i) \/ Forwarded(i) \/ Stops(i)
           \/ StartsFan \/ Sends \/ SendFails \/ UNCHANGED vars
  <2>1. UNCHANGED <<file, sock, active, owner, acc, cs>>
    BY <1>6, Zenon DEF Connects, Ends, Receives, Forwarded, Stops, StartsFan, Sends, SendFails,
       Shut, vars
  <2> QED BY <2>1, SeatedStill
<1> QED BY <1>1, <1>2, <1>3, <1>4, <1>5, <1>6 DEF Next, Client

-----------------------------------------------------------------------------
(* Tasks                                                                   *)

Manned ==
  /\ \A i \in Slots : active[i] <=> \/ task[i] # "none"
                                    \/ acc = "spawn" /\ slot = i
                                    \/ i \in unserved
  /\ \A i \in Slots : i \in unserved => task[i] = "none"
  /\ acc = "spawn" => task[slot] = "none" /\ slot \notin unserved
  /\ \A i \in Slots : task[i] = "tx" => got[i] = owner[i]

RInv == SInv /\ Manned

LEMMA MannedStep == RInv /\ [Next]_vars => Manned'
<1> SUFFICES ASSUME RInv, [Next]_vars  PROVE Manned'
  OBVIOUS
<1> USE DEF RInv, SInv, TInv, TypeOK, Phases
<1>1. CASE Claims
  <2> DEFINE k == FirstFree
  <2>1. k \in Slots /\ ~active[k]
    BY <1>1, FirstFreeIsFree DEF Claims
  <2>2. /\ acc = "claim" /\ acc' = "spawn" /\ slot' = k
        /\ active' = [active EXCEPT ![k] = TRUE] /\ UNCHANGED <<task, got, unserved>>
        /\ \A i \in Slots : i # k => owner'[i] = owner[i]
    BY <1>1 DEF Claims
  <2> HIDE DEF k
  <2>3. task[k] = "none" /\ k \notin unserved
    BY <2>1 DEF Manned
  <2> QED BY <2>1, <2>2, <2>3 DEF Manned
<1>2. CASE Spawns
  BY <1>2 DEF Spawns, Manned
<1>3. CASE SpawnFails
  BY <1>3 DEF SpawnFails, Manned
<1>4. ASSUME NEW k \in Slots, Receives(k)  PROVE Manned'
  <2>1. /\ task[k] = "recv" /\ task' = [task EXCEPT ![k] = "tx"]
        /\ got' = [got EXCEPT ![k] = file[sock[k]]]
        /\ UNCHANGED <<active, acc, slot, owner, unserved>>
    BY <1>4 DEF Receives, Read
  <2>2. file[sock[k]] = owner[k]
    BY <2>1 DEF Manned, Seated
  <2> QED BY <2>1, <2>2 DEF Manned
<1>5. ASSUME NEW k \in Slots, Forwarded(k) \/ Stops(k)  PROVE Manned'
  BY <1>5 DEF Forwarded, Stops, Manned
<1>6. ASSUME NEW k \in Slots, Leaves(k)  PROVE Manned'
  <2>1. active[k] /\ task[k] = "closing"
    BY <1>6 DEF Leaves, Manned
  <2>2. /\ active' = [active EXCEPT ![k] = FALSE] /\ task' = [task EXCEPT ![k] = "none"]
        /\ UNCHANGED <<acc, slot, got, owner, unserved>>
    BY <1>6, <2>1 DEF Leaves, CloseClient
  <2> QED BY <2>1, <2>2 DEF Manned
<1>7. CASE \/ \E c \in Conns : Connects(c) \/ \E how \in {"closed", "broken"} : Ends(c, how)
           \/ StartsFan \/ Sends \/ SendFails \/ UNCHANGED vars
  <2>1. UNCHANGED <<active, task, got, owner, acc, slot, unserved>>
    BY <1>7, Zenon DEF Connects, Ends, StartsFan, Sends, SendFails, Shut, vars
  <2> QED BY <2>1 DEF Manned
<1>8. CASE \E c \in Conns, f \in Fds : Accepts(c, f)
  BY <1>8 DEF Accepts, Manned
<1>9. CASE Refuses
  BY <1>9 DEF Refuses, Manned
<1> QED BY <1>1, <1>2, <1>3, <1>4, <1>5, <1>6, <1>7, <1>8, <1>9 DEF Next, Client

LEMMA Reached == Spec => []RInv
<1>1. Init => TInv
  BY DEF Init, TInv, Phases, TypeOK
<1>2. Init => Seated /\ Placed /\ Manned
  BY DEF Init, Seated, Placed, Manned
<1>3. RInv /\ [Next]_vars => RInv'
  BY TypeStep, PhasesStep, SeatedStep, MannedStep DEF RInv, SInv, TInv
<1>4. Init => RInv
  BY <1>1, <1>2 DEF RInv, SInv
<1> QED BY <1>3, <1>4, PTL DEF Spec

\* A slot in use names the descriptor of the connection it was filled for, so on_rx and the
\* slot's own task never touch another client's (sink_tcp.c:188-192).
THEOREM OwnSocketHolds == Spec => []OwnSocket
<1>1. RInv => OwnSocket
  BY DEF RInv, SInv, Seated, Manned, OwnSocket
<1> QED BY <1>1, Reached, PTL

\* Every open descriptor is in the hands of the one who will close it.
THEOREM NoSocketLostHolds == Spec => []NoSocketLost
<1>1. RInv => NoSocketLost
  BY DEF RInv, SInv, TInv, TypeOK, Seated, Placed, NoSocketLost
<1> QED BY <1>1, Reached, PTL

\* A slot is in use exactly as long as somebody will free it, a failed task creation
\* excepted.
THEOREM SlotServedHolds == Spec => []SlotServed
<1>1. RInv => SlotServed
  BY DEF RInv, Manned, SlotServed
<1> QED BY <1>1, Reached, PTL

-----------------------------------------------------------------------------
(* Counting                                                                *)

InUse == {i \in Slots : active[i]}

LEMMA InUseFinite == IsFiniteSet(InUse) /\ Cardinality(InUse) \in Nat
<1>1. IsFiniteSet(1 .. NSlots)
  BY FS_Interval
<1>2. InUse \subseteq 1 .. NSlots
  BY DEF InUse, Slots
<1> QED BY <1>1, <1>2, FS_Subset, FS_CardinalityType

\* active_clients is the number of slots in use: no client is counted out twice, or left
\* in.
THEOREM CountMatchesHolds == Spec => []CountMatches
<1>1. Init => CountMatches
  BY FS_EmptySet DEF Init, CountMatches
<1>2. RInv /\ CountMatches /\ [Next]_vars => CountMatches'
  <2> SUFFICES ASSUME RInv, CountMatches, [Next]_vars  PROVE CountMatches'
    OBVIOUS
  <2> USE DEF RInv, SInv, TInv, TypeOK
  <2>0. count = Cardinality(InUse)
    BY DEF CountMatches, InUse
  <2>1. CASE Claims
    <3> DEFINE k == FirstFree
    <3>1. k \in Slots /\ ~active[k]
      BY <2>1, FirstFreeIsFree DEF Claims
    <3>2. active' = [active EXCEPT ![k] = TRUE] /\ count' = count + 1
      BY <2>1 DEF Claims
    <3> HIDE DEF k
    <3>3. InUse' = InUse \cup {k} /\ k \notin InUse
      BY <3>1, <3>2 DEF InUse
    <3>4. Cardinality(InUse') = Cardinality(InUse) + 1
      BY <3>3, InUseFinite, FS_AddElement
    <3> QED BY <2>0, <3>2, <3>4 DEF CountMatches, InUse
  <2>2. ASSUME NEW k \in Slots, Leaves(k)  PROVE CountMatches'
    <3>1. active[k]
      BY <2>2 DEF Leaves, Manned
    <3>2. active' = [active EXCEPT ![k] = FALSE] /\ count' = count - 1
      BY <2>2, <3>1 DEF Leaves, CloseClient, Left
    <3>3. InUse' = InUse \ {k} /\ k \in InUse
      BY <3>1, <3>2 DEF InUse
    <3>4. Cardinality(InUse') = Cardinality(InUse) - 1
      BY <3>3, InUseFinite, FS_RemoveElement
    <3> QED BY <2>0, <3>2, <3>4 DEF CountMatches, InUse
  <2>3. CASE \/ \E c \in Conns : Connects(c) \/ \E how \in {"closed", "broken"} : Ends(c, how)
             \/ \E c \in Conns, f \in Fds : Accepts(c, f)
             \/ Refuses \/ Spawns \/ SpawnFails
             \/ \E i \in Slots : Receives(i) \/ Forwarded(i) \/ Stops(i)
             \/ StartsFan \/ Sends \/ SendFails \/ UNCHANGED vars
    <3>1. UNCHANGED <<active, count>>
      BY <2>3, Zenon DEF Connects, Ends, Accepts, Refuses, Spawns, SpawnFails, Receives, Forwarded,
         Stops, StartsFan, Sends, SendFails, Shut, vars
    <3> QED BY <3>1 DEF CountMatches
  <2> QED BY <2>1, <2>2, <2>3 DEF Next, Client
<1> QED BY <1>1, <1>2, Reached, PTL DEF Spec
=============================================================================
