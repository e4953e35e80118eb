------------------------------ MODULE CdcParse ------------------------------
(***************************************************************************)
(* cdc_host_descriptor_parsing.c: which endpoints of a device the driver   *)
(* takes for data and for notifications when it is asked for an interface. *)
(* Vendor-specific devices, the stick among them, have both data endpoints *)
(* in that interface; CDC devices may have them in the next one, in one of *)
(* its alternate settings.  A configuration is a set of interface          *)
(* settings, each with its endpoints in order and the number of functional *)
(* descriptors that follow it, and a set of interface associations.        *)
(***************************************************************************)
EXTENDS Naturals, Sequences
LOCAL INSTANCE FiniteSetsExt
LOCAL INSTANCE SequencesExt

Absent == [intf |-> "absent"]

Settings(config, num) == {s \in config.settings : s.num = num}

\* usb_parse_interface_descriptor
Setting(config, num, alt) ==
  LET found == {s \in Settings(config, num) : s.alt = alt}
  IN  IF found = {} THEN Absent ELSE CHOOSE s \in found : TRUE

-----------------------------------------------------------------------------

\* Either the interface says so itself, or an association of two interfaces does, which is
\* looked for when the device leaves its class to its interfaces.
IsCdcCompliant(device, config, idx) ==
  \/ /\ device \in {"per_interface", "comm"}
     /\ Setting(config, idx, 0) # Absent /\ Setting(config, idx, 0).class = "comm"
  \/ /\ device \in {"misc_iad", "per_interface"}
     /\ [first |-> idx, count |-> 2, class |-> "comm"] \in config.iads

NoInfo == [notif |-> Absent, notifEp |-> Absent, data |-> Absent, in |-> Absent,
           out |-> Absent, func |-> 0, err |-> "ok"]

\* A bulk endpoint makes its interface the data interface; of two the later one counts.
TakesBulk(info, intf, ep) ==
  IF ep.type # "bulk" THEN info
  ELSE IF ep.in THEN [info EXCEPT !.data = intf, !.in = ep]
  ELSE [info EXCEPT !.data = intf, !.out = ep]

TakesAny(info, intf, ep) ==
  IF ep.type = "intr" THEN [info EXCEPT !.notif = intf, !.notifEp = ep]
  ELSE TakesBulk(info, intf, ep)

FromFirst(info, intf) == FoldLeft(LAMBDA i, ep : TakesAny(i, intf, ep), info, intf.eps)

\* The first setting with two endpoints, whatever they are.
FromSecond(info, config, num) ==
  LET pairs == {s \in Settings(config, num) : Len(s.eps) = 2}
  IN  IF pairs = {} THEN info
      ELSE LET alt == Min({s.alt : s \in pairs})
               intf == Setting(config, num, alt)
           IN  FoldLeft(LAMBDA i, ep : TakesBulk(i, intf, ep), info, intf.eps)

\* `heap' is whether malloc succeeds.
Parse(device, config, idx, heap) ==
  LET intf == Setting(config, idx, 0)
      one == FromFirst(NoInfo, intf)
      compliant == IsCdcCompliant(device, config, idx)
      two == IF compliant THEN [one EXCEPT !.notif = intf, !.func = intf.func] ELSE one
      all == IF compliant /\ two.data = Absent THEN FromSecond(two, config, idx + 1) ELSE two
  IN  IF intf = Absent THEN [NoInfo EXCEPT !.err = "not_found"]
      ELSE IF compliant /\ intf.func > 0 /\ ~heap THEN [two EXCEPT !.err = "no_mem"]
      ELSE [all EXCEPT !.err = IF Absent \in {all.in, all.out} THEN "not_found" ELSE "ok"]

-----------------------------------------------------------------------------
(* What is checked: one or two interfaces, the second with two settings.   *)

Endpoints == {[type |-> "intr", in |-> TRUE], [type |-> "bulk", in |-> TRUE],
              [type |-> "bulk", in |-> FALSE]}

EpLists == UNION {[1 .. n -> Endpoints] : n \in 0 .. 2}

Offers(num, alt, classes) ==
  {{}} \cup {{[intf |-> "setting", num |-> num, alt |-> alt, class |-> c, func |-> 1, eps |-> e]}
               : c \in classes, e \in EpLists}

Configs ==
  {[settings |-> a \cup b \cup c, iads |-> i] :
     a \in Offers(0, 0, {"comm", "vendor"}), b \in Offers(1, 0, {"data"}),
     c \in Offers(1, 1, {"data"}),
     i \in {{}, {[first |-> 0, count |-> 2, class |-> "comm"]}}}

Devices == {"per_interface", "comm", "misc_iad", "vendor"}

EpsOf(intf) == {intf.eps[i] : i \in DOMAIN intf.eps}

Both == {[type |-> "bulk", in |-> TRUE], [type |-> "bulk", in |-> FALSE]}

\* What is used for data is one endpoint in each direction, both of the same setting of the
\* interface that was asked for or of the next one; the one for notifications belongs to the
\* interface that was asked for.
ASSUME OneInterface ==
  \A d \in Devices, c \in Configs :
    LET info == Parse(d, c, 0, TRUE)
    IN  info.err = "ok" =>
          /\ {info.in, info.out} = Both /\ Both \subseteq EpsOf(info.data)
          /\ info.data \in c.settings
          /\ info.notifEp # Absent => info.notif.num = 0 /\ info.notifEp \in EpsOf(info.notif)

\* A vendor-specific interface with both data endpoints is found whatever else the device
\* has, and nothing else is taken for one.
ASSUME VendorFound ==
  \A c \in Configs :
    LET intf == Setting(c, 0, 0)
    IN  (Parse("vendor", c, 0, TRUE).err = "ok") <=> (intf # Absent /\ Both \subseteq EpsOf(intf))

\* A CDC device with its data in the next interface is found by the setting that has it,
\* unless a setting before that has two other endpoints; its own bulk endpoint hides it.
ASSUME CdcFound ==
  \A d \in {"comm", "misc_iad"}, c \in Configs :
    LET intf == Setting(c, 0, 0)
        Data(s) == Both = EpsOf(s)
        Other(s) == Len(s.eps) = 2 /\ ~Data(s)
    IN  /\ IsCdcCompliant(d, c, 0) /\ intf # Absent
        /\ EpsOf(intf) \cap Both = {}
        => (Parse(d, c, 0, TRUE).err = "ok") <=>
             \E s \in Settings(c, 1) : /\ Data(s)
                                       /\ \A o \in Settings(c, 1) : Other(o) => o.alt > s.alt

=============================================================================
