------------------------------- MODULE UsbLink -------------------------------
(***************************************************************************)
(* What the CDC driver promises whoever opens a handle: as long as the     *)
(* handle is open, the loss of its device is told once.  A device that is  *)
(* lost while it is being opened may never be told of (`over' from the     *)
(* start), and a handle that is closed is told nothing more.               *)
(***************************************************************************)
VARIABLES
  plugged,     \* there is a device to open
  handle       \* "none"; "live": its device is there; "lost": it is not, and the
               \* owner has yet to be told; "over": and there is nothing left to tell

vars == <<plugged, handle>>

TypeOK ==
  /\ plugged \in BOOLEAN
  /\ handle \in {"none", "live", "lost", "over"}

Init == ~plugged /\ handle = "none"

Plug ==
  /\ ~plugged
  /\ plugged' = TRUE
  /\ UNCHANGED handle

Unplug ==
  /\ plugged
  /\ plugged' = FALSE
  /\ handle' = IF handle = "live" THEN "lost" ELSE handle

\* The device may be pulled while it is being opened.
Open ==
  /\ handle = "none"
  /\ handle' \in {"live", "lost", "over"}
  /\ plugged' \in {plugged, FALSE}
  /\ handle' = "live" => plugged'

Tell ==
  /\ handle = "lost"
  /\ handle' = "over"
  /\ UNCHANGED plugged

Close ==
  /\ handle # "none"
  /\ handle' = "none"
  /\ UNCHANGED plugged

Next == Plug \/ Unplug \/ Open \/ Tell \/ Close

Spec == Init /\ [][Next]_vars

=============================================================================
