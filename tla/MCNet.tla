-------------------------------- MODULE MCNet --------------------------------
(* Instances of Net for TLC, with the eight retries of the code.  Two       *)
(* events are the least that can arrive out of step with the station: one  *)
(* of an old connection and one of the new.                                *)
(*                                                                         *)
(* The properties of LogBuffer are evaluated here, for a ring of two lines  *)
(* and over all histories up to a length.                                  *)
EXTENDS Net, LogBuffer
LOCAL INSTANCE SequencesExt

Histories(ops, len) == UNION {[1 .. k -> ops] : k \in 0 .. len}

Ran(history) == FoldLeft(After, World, history)

Logs == {Ran(h).log : h \in Histories({"line", "drop"}, 2 * MaxLines + 2)}

\* A reader gets the tail of what was logged, whatever its cursor and its room.
ASSUME RingIsTheTail ==
  \A log \in Logs :
    /\ log.head = Len(log.all)
    /\ \A since \in 0 .. log.head + 1, room \in 0 .. MaxLines : IsTheTail(log, since, room)

\* The numbers of the lines and the losses between them agree.
ASSUME GapsAreMarked == \A log \in Logs : Accounted(log.all)

\* The console never goes back.
ASSUME ConsoleNeverTwice == \A h \in Histories(Ops, 6) : NeverTwice(Ran(h).con.shown)

\* A console that polls in time, and is answered in full, shows all.
ASSUME ConsoleSkipsNothing ==
  \A h \in Histories({"line", "drop", "poll"}, 3 * MaxLines + 2) :
    (\A i \in DOMAIN h : InTime(Ran(SubSeq(h, 1, i)))) => NothingSkipped(Ran(h).con.shown)

=============================================================================
