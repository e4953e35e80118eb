---------------------------- MODULE HbRfEthProofs ---------------------------
(***************************************************************************)
(* What holds of the client table for any number of slots, hosts, ports    *)
(* and sources, however late the timer's sweep comes.                      *)
(***************************************************************************)
EXTENDS HbRfEth, FiniteSetTheorems, TLAPS

\* A frame that is still to go out, or that may be chosen again, is not late.
LateBookkeeping ==
  \A p \in Pumps, a \in Addrs :
    /\ late[p][a] <= 1
    /\ a \in frames[p] \cup Starters => late[p][a] = 0

IInv ==
  /\ TypeOK
  /\ CountMatches
  /\ OneSlotPerIp
  /\ LateBookkeeping

-----------------------------------------------------------------------------

\* The table has finitely many slots.
LEMMA ConnectedFinite == IsFiniteSet(Connected) /\ Cardinality(Connected) \in Nat
<1>1. IsFiniteSet(Slots)
  BY HbAssumption, FS_Interval DEF Slots
<1>2. Connected \subseteq Slots
  BY DEF Connected
<1> QED BY <1>1, <1>2, FS_Subset, FS_CardinalityType

\* Disconnecting a set of clients takes exactly these out of the table, and the
\* count down by their number.
LEMMA DroppedLeaves ==
  ASSUME TypeOK, CountMatches, NEW D \in SUBSET Connected, Dropped(D)
  PROVE  /\ addr' \in [Slots -> Addrs \cup {None}]
         /\ started' \in [Slots -> BOOLEAN]
         /\ age' \in [Slots -> 0 .. OldAge]
         /\ active' \in Int
         /\ Connected' = Connected \ D
         /\ \A j \in Connected' : addr'[j] = addr[j]
         /\ Starters' \subseteq Starters
         /\ CountMatches'
<1>1. addr' \in [Slots -> Addrs \cup {None}]
  BY DEF Dropped, TypeOK
<1>2. started' \in [Slots -> BOOLEAN]
  <2> SUFFICES ASSUME NEW j \in Slots
               PROVE  (IF j \in D THEN FALSE ELSE started[j]) \in BOOLEAN
    BY DEF Dropped
  <2> QED BY DEF TypeOK
<1>3. age' \in [Slots -> 0 .. OldAge]
  BY HbAssumption DEF Dropped, TypeOK, OldAge
<1>4. Connected' = Connected \ D
  BY DEF Dropped, Connected
<1>5. \A j \in Connected' : addr'[j] = addr[j] /\ started'[j] = started[j]
  BY <1>4 DEF Dropped, Connected
<1>6. Starters' \subseteq Starters
  BY <1>4, <1>5 DEF Starters
<1>7. /\ IsFiniteSet(Connected) /\ Cardinality(Connected) \in Nat
      /\ IsFiniteSet(D) /\ Cardinality(D) \in Nat
  BY ConnectedFinite, FS_Subset, FS_CardinalityType
<1>8. Cardinality(Connected \ D) = Cardinality(Connected) - Cardinality(D)
  <2>1. Connected \cap D = D
    OBVIOUS
  <2> QED BY <1>7, <2>1, FS_Difference
<1>9. active' = active - Cardinality(D)
  BY DEF Dropped
<1> QED BY <1>1, <1>2, <1>3, <1>4, <1>5, <1>6, <1>7, <1>8, <1>9 DEF CountMatches, TypeOK

\* A client that enters takes one slot; those it evicts have left theirs.
LEMMA EnterJoins ==
  ASSUME TypeOK, CountMatches, NEW a \in Addrs, NEW D \in SUBSET Connected,
         NEW i \in Slots \ (Connected \ D), Enter(a, i, D)
  PROVE  /\ addr' \in [Slots -> Addrs \cup {None}]
         /\ started' \in [Slots -> BOOLEAN]
         /\ age' \in [Slots -> 0 .. OldAge]
         /\ active' \in Int
         /\ Connected' = (Connected \ D) \cup {i}
         /\ addr'[i] = a
         /\ \A j \in Connected \ D : addr'[j] = addr[j]
         /\ Starters' \subseteq Starters
         /\ CountMatches'
<1>1. addr' \in [Slots -> Addrs \cup {None}]
  BY DEF Enter, TypeOK
<1>2. started' \in [Slots -> BOOLEAN]
  <2> SUFFICES ASSUME NEW j \in Slots
               PROVE  (IF j \in D \cup {i} THEN FALSE ELSE started[j]) \in BOOLEAN
    BY DEF Enter
  <2> QED BY DEF TypeOK
<1>3. age' \in [Slots -> 0 .. OldAge]
  BY HbAssumption DEF Enter, TypeOK, OldAge
<1>4. Connected' = (Connected \ D) \cup {i}
  BY HbAssumption DEF Enter, Connected
<1>5. addr'[i] = a /\ ~started'[i]
  BY DEF Enter
<1>6. \A j \in Connected \ D : addr'[j] = addr[j] /\ started'[j] = started[j]
  BY DEF Enter, Connected
<1>7. Starters' \subseteq Starters
  BY <1>4, <1>5, <1>6 DEF Starters
<1>8. /\ IsFiniteSet(Connected) /\ Cardinality(Connected) \in Nat
      /\ IsFiniteSet(D) /\ Cardinality(D) \in Nat
  BY ConnectedFinite, FS_Subset, FS_CardinalityType
<1>9. /\ IsFiniteSet(Connected \ D)
      /\ Cardinality(Connected \ D) = Cardinality(Connected) - Cardinality(D)
  <2>1. Connected \cap D = D
    OBVIOUS
  <2> QED BY <1>8, <2>1, FS_Difference
<1>10. Cardinality((Connected \ D) \cup {i}) = Cardinality(Connected \ D) + 1
  BY <1>9, FS_AddElement
<1>11. active' = active - Cardinality(D) + 1
  BY DEF Enter
<1> QED BY <1>1, <1>2, <1>3, <1>4, <1>5, <1>6, <1>7, <1>8, <1>9, <1>10, <1>11
        DEF CountMatches, TypeOK

\* A packet of a known client leaves the addresses and the count alone.
LEMMA HeardKeeps ==
  ASSUME TypeOK, CountMatches, NEW a \in Addrs, NEW s \in [Slots -> BOOLEAN], Heard(a, s)
  PROVE  /\ addr' = addr /\ active' = active
         /\ started' \in [Slots -> BOOLEAN]
         /\ age' \in [Slots -> 0 .. OldAge]
         /\ Connected' = Connected
         /\ Starters' \subseteq Starters \cup {a}
         /\ (\A i \in Slots : s[i] => started[i]) => Starters' \subseteq Starters
<1>1. addr' = addr /\ active' = active /\ Connected' = Connected
  BY DEF Heard, Connected
<1>2. started' \in [Slots -> BOOLEAN]
  <2> SUFFICES ASSUME NEW j \in Slots
               PROVE  (IF addr[j] = a THEN s[j] ELSE started[j]) \in BOOLEAN
    BY DEF Heard
  <2> QED BY DEF TypeOK
<1>3. age' \in [Slots -> 0 .. OldAge]
  BY HbAssumption DEF Heard, TypeOK, OldAge
<1>4. \A j \in Slots : started'[j] = IF addr[j] = a THEN s[j] ELSE started[j]
  BY DEF Heard
<1>5. Connected \subseteq Slots
  BY DEF Connected
<1> QED BY <1>1, <1>2, <1>3, <1>4, <1>5 DEF Starters

\* The invariant the theorems rest on is inductive.
LEMMA Invariance == Spec => []IInv
<1>1. Init => IInv
  <2> SUFFICES ASSUME Init PROVE IInv
    OBVIOUS
  <2>1. TypeOK
    <3>1. started \in [Slots -> BOOLEAN] BY DEF Init
    <3> QED BY <3>1, HbAssumption DEF Init, TypeOK, OldAge, Idle
  <2>2. Connected = {}
    BY DEF Init, Connected
  <2> QED BY <2>1, <2>2, FS_EmptySet
          DEF IInv, Init, CountMatches, OneSlotPerIp, LateBookkeeping, Starters
<1>2. IInv /\ [Next]_vars => IInv'
  <2> SUFFICES ASSUME IInv, [Next]_vars PROVE IInv'
    OBVIOUS
  <2> USE DEF IInv
  \* Actions that take clients out of the table.
  <2>1. ASSUME NEW D \in SUBSET Connected, Dropped(D),
               UNCHANGED <<frames, late>>, rx' = rx, lag' \in {lag, Idle}
        PROVE  IInv'
    <3>1. TypeOK' BY <2>1, DroppedLeaves DEF TypeOK
    <3>2. OneSlotPerIp' BY <2>1, DroppedLeaves DEF OneSlotPerIp
    <3>3. LateBookkeeping' BY <2>1, DroppedLeaves DEF LateBookkeeping
    <3> QED BY <2>1, <3>1, <3>2, <3>3, DroppedLeaves
  \* Actions of a client that stays where it is.
  <2>2. ASSUME NEW a \in Addrs, NEW s \in [Slots -> BOOLEAN], Heard(a, s),
               \A i \in Slots : s[i] => started[i],
               UNCHANGED <<frames, late, lag>>, rx' \in {"waiting", "reset", "bridge"}
        PROVE  IInv'
    <3>1. TypeOK' BY <2>2, HeardKeeps DEF TypeOK
    <3>2. CountMatches' BY <2>2, HeardKeeps DEF CountMatches
    <3>3. OneSlotPerIp' BY <2>2, HeardKeeps DEF OneSlotPerIp
    <3>4. LateBookkeeping' BY <2>2, HeardKeeps DEF LateBookkeeping
    <3> QED BY <3>1, <3>2, <3>3, <3>4
  <2>3. ASSUME NEW a \in Addrs, ConnectNew(a) PROVE IInv'
    <3>1. PICK i \in Slots \ (Connected \ SameIp(a)) : Enter(a, i, SameIp(a))
      BY <2>3 DEF ConnectNew
    <3>2. SameIp(a) \in SUBSET Connected
      BY DEF SameIp
    <3>3. UNCHANGED <<rx, lag, frames, late>>
      BY <2>3 DEF ConnectNew
    <3>4. TypeOK' BY <3>1, <3>2, <3>3, EnterJoins DEF TypeOK
    <3>5. OneSlotPerIp'
      <4>1. /\ Connected' = (Connected \ SameIp(a)) \cup {i}
            /\ addr'[i] = a
            /\ \A j \in Connected \ SameIp(a) : addr'[j] = addr[j]
        BY <3>1, <3>2, EnterJoins
      <4>2. \A j \in Connected \ SameIp(a) : Ip[addr'[j]] # Ip[addr'[i]]
        BY <4>1 DEF SameIp
      <4>3. \A j, k \in Connected \ SameIp(a) : Ip[addr'[j]] = Ip[addr'[k]] => j = k
        BY <4>1 DEF OneSlotPerIp
      <4> QED BY <4>1, <4>2, <4>3 DEF OneSlotPerIp
    <3>6. LateBookkeeping' BY <3>1, <3>2, <3>3, EnterJoins DEF LateBookkeeping
    <3> QED BY <3>1, <3>2, <3>4, <3>5, <3>6, EnterJoins
  <2>4. ASSUME NEW a \in Addrs, ConnectAgain(a) \/ StopConn(a) PROVE IInv'
    <3>1. [i \in Slots |-> FALSE] \in [Slots -> BOOLEAN]
      OBVIOUS
    <3>2. Heard(a, [i \in Slots |-> FALSE]) /\ UNCHANGED <<rx, lag, frames, late>>
      BY <2>4 DEF ConnectAgain, StopConn
    <3> QED BY <2>2, <3>1, <3>2 DEF TypeOK
  <2>5. ASSUME NEW a \in Addrs, Disconnect(a) PROVE IInv'
    <3>1. SlotsOf(a) \in SUBSET Connected
      BY HbAssumption DEF SlotsOf, Connected
    <3> QED BY <2>1, <2>5, <3>1 DEF Disconnect
  <2>6. ASSUME NEW a \in Addrs, KeepAlive(a) \/ Reset(a) \/ Frame(a) PROVE IInv'
    BY <2>2, <2>6 DEF KeepAlive, Reset, Frame, TypeOK
  <2>7. ASSUME NEW a \in Addrs, StartConn(a) PROVE IInv'
    <3>1. [i \in Slots |-> TRUE] \in [Slots -> BOOLEAN]
      OBVIOUS
    <3>2. /\ Heard(a, [i \in Slots |-> TRUE])
          /\ late' = [p \in Pumps |-> [late[p] EXCEPT ![a] = 0]]
          /\ UNCHANGED <<rx, lag, frames>>
      BY <2>7 DEF StartConn
    <3>3. TypeOK'
      <4>1. late' \in [Pumps -> [Addrs -> 0 .. 2]]
        BY <3>2 DEF TypeOK
      <4> QED BY <3>1, <3>2, <4>1, HeardKeeps DEF TypeOK
    <3>4. CountMatches' BY <3>1, <3>2, HeardKeeps DEF CountMatches
    <3>5. OneSlotPerIp' BY <3>1, <3>2, HeardKeeps DEF OneSlotPerIp
    <3>6. LateBookkeeping'
      <4>1. Starters' \subseteq Starters \cup {a}
        BY <3>1, <3>2, HeardKeeps
      <4> QED BY <3>2, <4>1 DEF LateBookkeeping, TypeOK
    <3> QED BY <3>3, <3>4, <3>5, <3>6
  <2>8. CASE RxReturns \/ KaReadsNow
    <3>1. UNCHANGED <<addr, started, age, active, frames, late>>
      BY <2>8 DEF RxReturns, KaReadsNow, table
    <3>2. rx' \in {rx, "waiting"} /\ lag' \in {lag, 0}
      BY <2>8 DEF RxReturns, KaReadsNow
    <3>3. TypeOK' BY <3>1, <3>2, HbAssumption DEF TypeOK
    <3> QED BY <3>1, <3>3 DEF CountMatches, OneSlotPerIp, LateBookkeeping, Connected, Starters
  <2>9. CASE KaSweeps
    <3>1. Expired \in SUBSET Connected
      BY DEF Expired
    <3> QED BY <2>1, <2>9, <3>1 DEF KaSweeps
  <2>10. ASSUME NEW p \in Pumps, OnRx(p) PROVE IInv'
    <3>1. Starters \subseteq Addrs
      BY DEF Starters, Connected, TypeOK
    <3>2. TypeOK' BY <2>10, <3>1 DEF OnRx, Recipients, table, TypeOK
    <3>3. LateBookkeeping'
      BY <2>10 DEF OnRx, Recipients, table, LateBookkeeping, Starters, Connected, TypeOK
    <3> QED BY <2>10, <3>2, <3>3 DEF OnRx, table, CountMatches, OneSlotPerIp, Connected
  <2>11. ASSUME NEW p \in Pumps, Emit(p) PROVE IInv'
    <3>1. UNCHANGED <<table, rx, lag>> /\ Starters' = Starters
      BY <2>11 DEF Emit, table, Starters, Connected
    <3>2. /\ frames' = [frames EXCEPT ![p] = {}]
          /\ \A q \in Pumps, a \in Addrs :
               late'[q][a] = IF q = p /\ a \in frames[p] \ Starters /\ late[p][a] < 2
                               THEN late[p][a] + 1 ELSE late[q][a]
      BY <2>11 DEF Emit, TypeOK
    <3>3. TypeOK'
      <4>1. late' \in [Pumps -> [Addrs -> 0 .. 2]]
        BY <2>11 DEF Emit, TypeOK
      <4>2. frames' \in [Pumps -> SUBSET Addrs]
        BY <3>2 DEF TypeOK
      <4> QED BY <3>1, <4>1, <4>2 DEF TypeOK, table
    <3>4. LateBookkeeping'
      BY <3>1, <3>2 DEF LateBookkeeping, TypeOK
    <3> QED BY <3>1, <3>3, <3>4 DEF table, CountMatches, OneSlotPerIp, Connected
  <2>12. CASE Tick
    <3>1. age' \in [Slots -> 0 .. OldAge]
      BY <2>12, HbAssumption DEF Tick, Older, OldAge, TypeOK
    <3>2. lag' \in 0 .. MaxLag \cup {Idle}
      BY <2>12, HbAssumption DEF Tick, Idle, TypeOK
    <3>3. UNCHANGED <<addr, started, active, rx, frames, late>>
      BY <2>12 DEF Tick
    <3>4. TypeOK' BY <3>1, <3>2, <3>3 DEF TypeOK
    <3> QED BY <3>3, <3>4 DEF CountMatches, OneSlotPerIp, LateBookkeeping, Connected, Starters
  <2>13. CASE UNCHANGED vars
    BY <2>13 DEF vars, table, TypeOK, CountMatches, OneSlotPerIp, LateBookkeeping,
                 Connected, Starters
  <2> QED
    BY <2>3, <2>4, <2>5, <2>6, <2>7, <2>8, <2>9, <2>10, <2>11, <2>12, <2>13
       DEF Next, Packet
<1> QED BY <1>1, <1>2, PTL DEF Spec

-----------------------------------------------------------------------------

\* Every variable keeps its type (sink_hbrfeth.c:37-56).
THEOREM TypeCorrect == Spec => []TypeOK
  BY Invariance, PTL DEF IInv

\* The client counter is the number of connected slots (sink_hbrfeth.c:84-107).
THEOREM Counting == Spec => []CountMatches
  BY Invariance, PTL DEF IInv

\* Those a fan-out is about to send to are of different hosts.
FramesOnce == \A p \in Pumps : \A a, b \in frames[p] : Ip[a] = Ip[b] => a = b

LEMMA FramesOnceStep == OneSlotPerIp /\ FramesOnce /\ [Next]_vars => FramesOnce'
<1> SUFFICES ASSUME OneSlotPerIp, FramesOnce, [Next]_vars  PROVE FramesOnce'
  OBVIOUS
<1>1. ASSUME NEW p \in Pumps, OnRx(p)  PROVE FramesOnce'
  <2>1. \A a, b \in Starters : Ip[a] = Ip[b] => a = b
    BY DEF Starters, OneSlotPerIp
  <2>2. frames' = [frames EXCEPT ![p] = Starters]
    BY <1>1 DEF OnRx, Recipients
  <2> QED BY <2>1, <2>2 DEF FramesOnce
<1>2. ASSUME NEW p \in Pumps, Emit(p)  PROVE FramesOnce'
  BY <1>2 DEF Emit, FramesOnce
<1>3. ASSUME NEW a \in Addrs, Packet(a)  PROVE FramesOnce'
  BY <1>3 DEF Packet, ConnectNew, ConnectAgain, Disconnect, KeepAlive, StartConn, StopConn,
     Reset, Frame, FramesOnce
<1>4. CASE RxReturns \/ KaReadsNow \/ KaSweeps \/ Tick \/ UNCHANGED vars
  BY <1>4 DEF RxReturns, KaReadsNow, KaSweeps, Tick, vars, FramesOnce
<1> QED BY <1>1, <1>2, <1>3, <1>4 DEF Next

\* A host never holds two slots, and no chunk is sent to it twice (sink_hbrfeth.c:77-87,
\* 402-427).
THEOREM Eviction == Spec => []OncePerHost
<1>1. Init => FramesOnce
  BY DEF Init, FramesOnce
<1>2. IInv => OneSlotPerIp
  BY DEF IInv
<1>3. OneSlotPerIp /\ FramesOnce => OncePerHost
  BY DEF FramesOnce, OncePerHost
<1> QED BY <1>1, <1>2, <1>3, FramesOnceStep, Invariance, PTL DEF Spec

\* An address that is not started gets at most one frame from each source
\* (sink_hbrfeth.c:402-427).
THEOREM LateFrames == Spec => []AtMostOneLateFrame
<1>1. IInv => AtMostOneLateFrame
  BY DEF IInv, LateBookkeeping, AtMostOneLateFrame
<1> QED BY <1>1, Invariance, PTL

-----------------------------------------------------------------------------
(* The keepalive: what is true of it in place of "it times out who has been *)
(* silent", and the safety half of SilentClientIsDropped.                   *)

\* What the unsigned difference comes to.
LEMMA Overdue ==
  ASSUME TypeOK, lag # Idle, NEW i \in Slots
  PROVE  Elapsed(i) > KaTimeout <=> (age[i] > KaTimeout + lag \/ age[i] < lag)
<1>0. /\ KaTimeout \in Nat /\ MaxLag \in Nat /\ Wrap \in Nat
      /\ Wrap > 2 * (KaTimeout + MaxLag + 1)
  BY HbAssumption
<1>1. age[i] \in 0 .. KaTimeout + MaxLag + 1 /\ lag \in 0 .. MaxLag
  BY DEF TypeOK, OldAge
<1>2. CASE age[i] >= lag
  <2>1. age[i] - lag \in 0 .. Wrap - 1
    BY <1>0, <1>1, <1>2
  <2>2. Elapsed(i) = age[i] - lag
    BY <1>0, <2>1 DEF Elapsed
  <2> QED BY <1>0, <1>1, <1>2, <2>2
<1>3. CASE age[i] < lag
  <2>1. age[i] - lag + Wrap \in 0 .. Wrap - 1 /\ age[i] - lag \in Int
    BY <1>0, <1>1, <1>3
  <2>2. (age[i] - lag) % Wrap = age[i] - lag + Wrap
    BY <1>0, <2>1
  <2>3. age[i] - lag + Wrap > KaTimeout
    BY <1>0, <1>1
  <2> QED BY <1>3, <2>2, <2>3 DEF Elapsed
<1> QED BY <1>1, <1>2, <1>3

\* The sweep drops who has sent nothing for the length of the timeout before the timer looked
\* at the clock - and who has sent something since, while it waited for the mutex
\* (sink_hbrfeth.c:354-379).  It drops nobody else.
THEOREM WhomTheSweepDrops ==
  Spec => [][ KaSweeps =>
                \A i \in Connected :
                  addr'[i] = None <=> (age[i] > KaTimeout + lag \/ age[i] < lag) ]_vars
<1>1. ASSUME TypeOK, KaSweeps, NEW i \in Connected
      PROVE  addr'[i] = None <=> (age[i] > KaTimeout + lag \/ age[i] < lag)
  <2>1. i \in Slots /\ addr[i] # None /\ lag # Idle
    BY <1>1 DEF Connected, KaSweeps
  <2>2. addr'[i] = IF i \in Expired THEN None ELSE addr[i]
    BY <1>1, <2>1 DEF KaSweeps, Dropped
  <2>3. i \in Expired <=> (age[i] > KaTimeout + lag \/ age[i] < lag)
    BY <1>1, <2>1, Overdue DEF Expired
  <2> QED BY <2>1, <2>2, <2>3
<1>2. TypeOK /\ [Next]_vars
        => [ KaSweeps =>
               \A i \in Connected :
                 addr'[i] = None <=> (age[i] > KaTimeout + lag \/ age[i] < lag) ]_vars
  BY <1>1
<1> QED BY <1>2, TypeCorrect, PTL DEF Spec

\* As long as an address sends nothing its slot gets no younger, gets older with each tick, and
\* does not outlive a sweep once it is as old as can be told (sink_hbrfeth.c:194-198, 354-379).
SilenceAges ==
  \A i \in Connected :
    ~Packet(addr[i]) => \/ addr'[i] # addr[i]
                        \/ /\ age'[i] >= age[i]
                           /\ Tick => age'[i] = Older(age[i])
                           /\ KaSweeps => age[i] < OldAge

LEMMA SilenceStep ==
  ASSUME TypeOK, Next, NEW i \in Connected, ~Packet(addr[i]), addr'[i] = addr[i]
  PROVE  /\ age'[i] >= age[i]
         /\ Tick => age'[i] = Older(age[i])
         /\ KaSweeps => age[i] < OldAge
<1>0. /\ i \in Slots /\ addr[i] # None /\ addr[i] \in Addrs
      /\ age[i] \in 0 .. OldAge /\ OldAge \in Nat /\ OldAge = KaTimeout + MaxLag + 1
      /\ KaTimeout \in Nat /\ MaxLag \in Nat
  BY HbAssumption DEF Connected, TypeOK, OldAge
<1>1. Tick => age'[i] = Older(age[i])
  BY <1>0 DEF Tick
<1>2. KaSweeps => age[i] < OldAge /\ age'[i] = age[i]
  <2> SUFFICES ASSUME KaSweeps PROVE age[i] < OldAge /\ age'[i] = age[i]
    OBVIOUS
  <2>1. addr'[i] = (IF i \in Expired THEN None ELSE addr[i])
        /\ age'[i] = (IF i \in Expired THEN 0 ELSE age[i])
    BY <1>0 DEF KaSweeps, Dropped
  <2>2. i \notin Expired
    BY <1>0, <2>1
  <2>3. ~(age[i] > KaTimeout + lag) /\ lag \in 0 .. MaxLag
    BY <1>0, <2>2, Overdue DEF Expired, KaSweeps, TypeOK
  <2> QED BY <1>0, <2>1, <2>2, <2>3
<1>3. ASSUME NEW a \in Addrs, Packet(a)
      PROVE  age'[i] = age[i]
  <2>1. a # addr[i]
    BY <1>3
  <2>2. CASE \E s : Heard(a, s)
    BY <1>0, <2>1, <2>2 DEF Heard
  <2>3. CASE ConnectNew(a)
    <3>1. PICK j \in Slots : Enter(a, j, SameIp(a))
      BY <2>3 DEF ConnectNew
    <3>2. i # j /\ i \notin SameIp(a)
      BY <1>0, <2>1, <3>1 DEF Enter
    <3> QED BY <1>0, <3>1, <3>2 DEF Enter
  <2>4. CASE Disconnect(a)
    BY <1>0, <2>1, <2>4 DEF Disconnect, Dropped, SlotsOf
  <2> QED BY <1>3, <2>2, <2>3, <2>4 DEF Packet, ConnectAgain, KeepAlive, StartConn, StopConn,
             Reset, Frame
<1>4. ASSUME RxReturns \/ KaReadsNow \/ (\E p \in Pumps : OnRx(p) \/ Emit(p))
      PROVE  age'[i] = age[i]
  BY <1>4 DEF RxReturns, KaReadsNow, OnRx, Emit, table
<1>5. age'[i] >= age[i]
  BY <1>0, <1>1, <1>2, <1>3, <1>4 DEF Next, Older
<1> QED BY <1>1, <1>2, <1>5

\* The safety half of SilentClientIsDropped.
THEOREM SilentClientsAge == Spec => [][SilenceAges]_vars
<1>1. TypeOK /\ [Next]_vars => [SilenceAges]_vars
  BY SilenceStep DEF SilenceAges
<1> QED BY <1>1, TypeCorrect, PTL DEF Spec
=============================================================================
