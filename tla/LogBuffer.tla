----------------------------- MODULE LogBuffer -----------------------------
(***************************************************************************)
(* log_buffer.c and the console in web/app.js that follows it.  The hook   *)
(* stores a line under the mutex if it gets it at once, else it counts the *)
(* line as dropped; a marker with the count goes before the next line that *)
(* is stored.  The reader is given what still is in the ring and fits into *)
(* its buffer.  Both sections run under the mutex, so a history of them is *)
(* every interleaving there is; the count, which is not atomic, is exact   *)
(* here.  A line is a number: texts and the JSON around them are left out. *)
(***************************************************************************)
EXTENDS Integers, Sequences

CONSTANT MaxLines   \* LB_MAX_LINES, 128 in the code

ASSUME LogAssumption == MaxLines \in Nat \ {0}

LineOf(n) == [line |-> n, lost |-> 0]
Marker(k) == [line |-> 0, lost |-> k]

-----------------------------------------------------------------------------
(* The ring.  `all' is a history: everything that was ever put into it.    *)

NoLog == [lines |-> [i \in 0 .. MaxLines - 1 |-> Marker(0)], head |-> 0, dropped |-> 0,
          all |-> <<>>]

Put(log, entry) ==
  [lines |-> [log.lines EXCEPT ![log.head % MaxLines] = entry], head |-> log.head + 1,
   dropped |-> log.dropped, all |-> Append(log.all, entry)]

Stored(log, n) ==
  LET marked == IF log.dropped = 0 THEN log
                ELSE [Put(log, Marker(log.dropped)) EXCEPT !.dropped = 0]
  IN  Put(marked, LineOf(n))

Dropped(log) == [log EXCEPT !.dropped = @ + 1]

Oldest(log) == IF log.head > MaxLines THEN log.head - MaxLines ELSE 0

\* `room' is the number of lines that fit into the caller's buffer.
GetSince(log, since, room) ==
  LET from == IF since < Oldest(log) THEN Oldest(log) ELSE since
      left == IF from < log.head THEN log.head - from ELSE 0
      count == IF left < room THEN left ELSE room
  IN  [head |-> log.head, oldest |-> Oldest(log),
       lines |-> [i \in 1 .. count |-> [seq |-> from + i - 1,
                                        entry |-> log.lines[(from + i - 1) % MaxLines]]]]

-----------------------------------------------------------------------------
(* The console: the cursor of the next question, and what it has shown.    *)

Closed == [seq |-> 0, shown |-> <<>>]

\* The first answer only says where to start.  As long as the ring has never been full that
\* is 0, which makes the next poll a first one again.
LogTick(con, answer, boot) ==
  IF con.seq = 0 /\ answer.head > 0
    THEN [con EXCEPT !.seq = answer.oldest]
    ELSE [con EXCEPT !.seq = answer.head,
                     !.shown = @ \o [i \in DOMAIN answer.lines |->
                                       [boot |-> boot, seq |-> answer.lines[i].seq,
                                        entry |-> answer.lines[i].entry]]]

-----------------------------------------------------------------------------
(* What happens: a line is stored or dropped, the console polls with room   *)
(* for all lines or for one, and the gateway restarts                      *)

Ops == {"line", "drop", "poll", "short", "reboot"}

\* `n' lines were logged since the last restart, `head' is that of the last answer.
World == [log |-> NoLog, con |-> Closed, boot |-> 0, n |-> 0, head |-> 0]

Polls(w, room) ==
  [w EXCEPT !.con = LogTick(w.con, GetSince(w.log, w.con.seq, room), w.boot),
            !.head = w.log.head]

After(w, op) ==
  CASE op = "line" -> [w EXCEPT !.n = @ + 1, !.log = Stored(@, w.n + 1)]
    [] op = "drop" -> [w EXCEPT !.n = @ + 1, !.log = Dropped(@)]
    [] op = "poll" -> Polls(w, MaxLines)
    [] op = "short" -> Polls(w, 1)
    [] op = "reboot" -> [w EXCEPT !.boot = @ + 1, !.log = NoLog, !.n = 0]

-----------------------------------------------------------------------------
(* Properties                                                              *)

\* Whatever cursor a reader comes with, it gets what was logged: lines that the ring still has
\* from its cursor on, each under its number, one after the other.  A line it does not get is
\* one for which there was no room after those before it.
IsTheTail(log, since, room) ==
  LET got == GetSince(log, since, room).lines
      Kept == {s \in since .. log.head - 1 : s + MaxLines >= log.head}
  IN  /\ \A i \in DOMAIN got : /\ got[i].seq \in Kept
                              /\ got[i].seq = got[1].seq + i - 1
                              /\ got[i].entry = log.all[got[i].seq + 1]
      /\ \A s \in Kept : \/ \E i \in DOMAIN got : got[i].seq = s
                         \/ Len(got) = room /\ \A i \in DOMAIN got : got[i].seq < s

\* Nobody is fooled by a gap.  A line has the number after the last one, or, after a marker,
\* the number after those that the marker says were lost.
Accounted(all) ==
  LET Lost(i) == i \in DOMAIN all /\ all[i].lost > 0
      Number(i) == IF i = 0 THEN 0 ELSE all[i].line
  IN  \A i \in DOMAIN all :
        IF Lost(i) THEN i + 1 \in DOMAIN all /\ ~Lost(i + 1)
        ELSE all[i].line = IF Lost(i - 1) THEN Number(i - 2) + all[i - 1].lost + 1
                           ELSE Number(i - 1) + 1

\* The console shows no line twice and none out of order, also when the gateway restarts
\* between two polls and its numbers begin again.
NeverTwice(shown) ==
  \A i, j \in DOMAIN shown :
    i < j => \/ shown[i].boot < shown[j].boot
             \/ shown[i].boot = shown[j].boot /\ shown[i].seq < shown[j].seq

\* A console that has started polls before the ring has come round.
InTime(w) == w.con.seq > 0 => w.log.head - w.head <= MaxLines

\* It shows every line from its first one on.
NothingSkipped(shown) == \A i \in DOMAIN shown : shown[i].seq = shown[1].seq + i - 1

=============================================================================
