------------------------------- MODULE HmuAcks -------------------------------
(***************************************************************************)
(* sink_hmuartlgw_legacy.c, translation mode: what becomes of an APP_SEND. *)
(* The client's task reserves an entry of S.pending under S.mtx, gives the *)
(* mutex back, and hands the frame to the bridge; the source's RX task     *)
(* routes each LLMAC_ACK by its counter alone, to the client slot the entry*)
(* points at.  An ACK goes to all sinks, so those for other sinks' frames  *)
(* come by too, and a slot may have a new connection by then.              *)
(*                                                                         *)
(* Each step of this module is one critical section or one call.  What a   *)
(* client sends besides APP_SEND, and an APP_SEND rejected before the      *)
(* table is asked, is answered on the spot and left out.  A transmission   *)
(* that fails is taken not to have reached the stick.                      *)
(***************************************************************************)
EXTENDS Naturals, HmuSink

CONSTANTS
  Cnts,        \* frame counters
  NEntries     \* PENDING_ACK_SLOTS

Entries == 1 .. NEntries

VARIABLES
  unused,      \* the connections that have not been made yet
  conn,        \* the connection of each slot, None if it is not active
  pc, cnt, ix, \* the client's task: where it is, with which counter and entry
  pending,     \* S.pending
  air,         \* the frames the stick has yet to acknowledge
  open,        \* history: the counters each connection waits for
  astray,      \* history: a connection got the ACK of another's frame
  unasked,     \* history: a connection got an answer it did not wait for
  mixed,       \* history: a counter was used while it was in use, or a slot while an
               \* entry pointed at it
  slow         \* history: an entry timed out while its frame was being sent

task    == <<pc, cnt, ix>>
history == <<open, astray, unasked, mixed, slow>>
vars    == <<unused, conn, task, pending, air, history>>

Entry == [cnt : Cnts, slot : Slots, old : BOOLEAN,
          owner : Conns]                             \* owner: history

Frame == [cnt : Cnts, owner : Conns \cup {None},     \* None: another sink
          late : BOOLEAN]                            \* late: history

ASSUME HmuAssumption ==
  /\ NEntries \in Nat
  /\ None \notin Conns \cup Entry

TypeOK ==
  /\ unused \subseteq Conns
  /\ conn \in [Slots -> Conns \cup {None}]
  /\ pc \in [Slots -> {"recv", "reserved", "sending", "failed"}]
  /\ cnt \in [Slots -> Cnts \cup {None}]
  /\ ix \in [Slots -> Entries \cup {None}]
  /\ \A s \in Slots : pc[s] # "recv" => /\ conn[s] # None
                                       /\ cnt[s] \in Cnts /\ ix[s] \in Entries
  /\ pending \in [Entries -> Entry \cup {None}]
  /\ air \subseteq Frame
  /\ open \in [Conns -> SUBSET Cnts]
  /\ astray \in BOOLEAN /\ unasked \in BOOLEAN /\ mixed \in BOOLEAN /\ slow \in BOOLEAN

Init ==
  /\ unused = Conns
  /\ conn = [s \in Slots |-> None]
  /\ pc = [s \in Slots |-> "recv"]
  /\ cnt = [s \in Slots |-> None] /\ ix = [s \in Slots |-> None]
  /\ pending = [e \in Entries |-> None]
  /\ air = {}
  /\ open = [c \in Conns |-> {}]
  /\ astray = FALSE /\ unasked = FALSE /\ mixed = FALSE /\ slow = FALSE

Least(E) == CHOOSE e \in E : \A f \in E : e <= f

\* Somebody has a frame with this counter under way, or an entry in the table P.
InUse(n, P) ==
  \/ \E e \in Entries : P[e] # None /\ P[e].cnt = n
  \/ \E f \in air : f.cnt = n
  \/ \E s \in Slots : pc[s] # "recv" /\ cnt[s] = n

-----------------------------------------------------------------------------
(* Connections                                                             *)

Accepts(s) ==
  /\ conn[s] = None
  /\ \E c \in unused :
       /\ conn' = [conn EXCEPT ![s] = c]
       /\ unused' = unused \ {c}
  /\ mixed' = (mixed \/ \E e \in Entries : pending[e] # None /\ pending[e].slot = s)
  /\ UNCHANGED <<task, pending, air, open, astray, unasked, slow>>

\* The slot's task gives it back; its entries stay.
Closes(s) ==
  /\ conn[s] # None
  /\ pc[s] = "recv"
  /\ conn' = [conn EXCEPT ![s] = None]
  /\ UNCHANGED <<unused, task, pending, air, history>>

-----------------------------------------------------------------------------
(* handle_app_send_legacy                                                  *)

\* An APP_ACK for counter n on connection c: OK, or EUNKNOWN.
Answered(c, n) ==
  /\ open' = [open EXCEPT ![c] = @ \ {n}]
  /\ unasked' = (unasked \/ n \notin open[c])

\* Mutant of Kept: it clears the table.
KeptNone == [e \in Entries |-> None]

\* pending_gc_locked
Kept == [e \in Entries |-> IF pending[e] # None /\ pending[e].old THEN None ELSE pending[e]]

Vacant == {e \in Entries : Kept[e] = None}

Reserves(s, n) ==
  /\ conn[s] # None /\ pc[s] = "recv"
  /\ Vacant # {}
  /\ pending' = [Kept EXCEPT ![Least(Vacant)] = [cnt |-> n, slot |-> s, old |-> FALSE,
                                                 owner |-> conn[s]]]
  /\ ix' = [ix EXCEPT ![s] = Least(Vacant)]
  /\ pc' = [pc EXCEPT ![s] = "reserved"]
  /\ cnt' = [cnt EXCEPT ![s] = n]
  /\ open' = [open EXCEPT ![conn[s]] = @ \cup {n}]
  /\ mixed' = (mixed \/ InUse(n, Kept))
  /\ UNCHANGED <<unused, conn, air, astray, unasked, slow>>

\* "pending-ACK pool full": EUNKNOWN.
PoolFull(s) ==
  /\ conn[s] # None /\ pc[s] = "recv"
  /\ Vacant = {}
  /\ pending' = Kept
  /\ UNCHANGED <<unused, conn, task, air, history>>

\* bridge_tx_to_source: the frame reaches the stick.
Sends(s) ==
  /\ pc[s] = "reserved"
  /\ pc' = [pc EXCEPT ![s] = "sending"]
  /\ air' = air \cup {[cnt |-> cnt[s], owner |-> conn[s], late |-> FALSE]}
  /\ UNCHANGED <<unused, conn, cnt, ix, pending, history>>

\* It returns ESP_OK.
Returns(s) ==
  /\ pc[s] = "sending"
  /\ pc' = [pc EXCEPT ![s] = "recv"]
  /\ UNCHANGED <<unused, conn, cnt, ix, pending, air, history>>

\* It returns an error: the lock is another sink's, or the source is gone or stuck.
Fails(s) ==
  /\ pc[s] = "reserved"
  /\ pc' = [pc EXCEPT ![s] = "failed"]
  /\ UNCHANGED <<unused, conn, cnt, ix, pending, air, history>>

\* The entry is freed, whosever it is by now, and the client told EUNKNOWN.
Frees(s) ==
  /\ pc[s] = "failed"
  /\ pc' = [pc EXCEPT ![s] = "recv"]
  /\ pending' = [pending EXCEPT ![ix[s]] = None]
  /\ Answered(conn[s], cnt[s])
  /\ UNCHANGED <<unused, conn, cnt, ix, air, astray, mixed, slow>>

-----------------------------------------------------------------------------
(* The stick, the other sinks, and time                                    *)

ForeignSends(n) ==
  /\ air' = air \cup {[cnt |-> n, owner |-> None, late |-> FALSE]}
  /\ mixed' = (mixed \/ InUse(n, pending))
  /\ UNCHANGED <<unused, conn, task, pending, open, astray, unasked, slow>>

AckLost(f) ==
  /\ f \in air
  /\ air' = air \ {f}
  /\ UNCHANGED <<unused, conn, task, pending, history>>

\* PENDING_ACK_TIMEOUT_US have passed.
Ages(e) ==
  /\ pending[e] # None /\ ~pending[e].old
  /\ pending' = [pending EXCEPT ![e].old = TRUE]
  /\ air' = {IF f.cnt = pending[e].cnt /\ f.owner = pending[e].owner
               THEN [f EXCEPT !.late = TRUE] ELSE f : f \in air}
  /\ slow' = (slow \/ \E s \in Slots : ix[s] = e /\ pc[s] \in {"reserved", "failed"})
  /\ UNCHANGED <<unused, conn, task, open, astray, unasked, mixed>>

-----------------------------------------------------------------------------
(* route_llmac_ack_to_fhem                                                 *)

Matching(n) == {e \in Entries : pending[e] # None /\ pending[e].cnt = n}

\* Mutant of AckRouted: the first entry is taken, whatever its counter.
AckRoutedToFirst(f) ==
  /\ f \in air
  /\ air' = air \ {f}
  /\ Matching(f.cnt) # {}
  /\ LET e == Least({d \in Entries : pending[d] # None})
         c == conn[pending[e].slot]
     IN  /\ pending' = [pending EXCEPT ![e] = None]
         /\ IF c = None THEN UNCHANGED <<open, unasked, astray>>
            ELSE /\ Answered(c, f.cnt)
                 /\ astray' = (astray \/ c # f.owner)
  /\ UNCHANGED <<unused, conn, task, mixed, slow>>

\* The first entry with this counter is taken; if its slot is active the answer goes
\* there.
AckRouted(f) ==
  /\ f \in air
  /\ air' = air \ {f}
  /\ Matching(f.cnt) # {}
  /\ LET e == Least(Matching(f.cnt))
         c == conn[pending[e].slot]
     IN  /\ pending' = [pending EXCEPT ![e] = None]
         /\ IF c = None THEN UNCHANGED <<open, unasked, astray>>
            ELSE /\ Answered(c, f.cnt)
                 /\ astray' = (astray \/ c # f.owner)
  /\ UNCHANGED <<unused, conn, task, mixed, slow>>

\* Orphaned or foreign: it is only counted.
AckDropped(f) ==
  /\ f \in air
  /\ air' = air \ {f}
  /\ Matching(f.cnt) = {}
  /\ UNCHANGED <<unused, conn, task, pending, history>>

Next ==
  \/ \E s \in Slots :
       \/ Accepts(s) \/ Closes(s)
       \/ PoolFull(s) \/ \E n \in Cnts : Reserves(s, n)
       \/ Sends(s) \/ Returns(s) \/ Fails(s) \/ Frees(s)
  \/ \E n \in Cnts : ForeignSends(n)
  \/ \E f \in air : AckLost(f) \/ AckRouted(f) \/ AckDropped(f)
  \/ \E e \in Entries : Ages(e)

Spec == Init /\ [][Next]_vars

-----------------------------------------------------------------------------
(* Properties                                                              *)

\* Unless counters or slots are mixed up, an ACK reaches the client that sent the
\* frame, and no client gets an answer it does not wait for: not after a reject, a
\* time-out, or a failed transmission of its own or of another client.
AnswersGoHome == ~mixed => ~astray /\ ~unasked

\* Unless they are mixed up, or a transmission takes longer than the time-out, a frame
\* the stick may still acknowledge in time keeps its entry, whatever other clients'
\* requests, failures and ACKs do to the table.
AwaitedHasEntry ==
  ~mixed /\ ~slow =>
    \A f \in air : \/ f.owner = None \/ f.late
                   \/ \E e \in Entries : /\ pending[e] # None
                                         /\ pending[e].cnt = f.cnt
                                         /\ pending[e].owner = f.owner

=============================================================================
