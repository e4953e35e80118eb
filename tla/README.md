# RFNetHM: a TLA+ model of the gateway firmware

RFNetHM is the firmware of an ESP32-S3 gateway. It takes the byte stream of one
HomeMatic radio module - a HmIP-RFUSB stick on the USB host port or a module on
the UART header - and offers it to several clients on the network at once: a raw
TCP port, the HB-RF-ETH UDP tunnel that the `hb_rf_eth` kernel module speaks, and
an emulation of the HM-LGW wire protocol for FHEM and Homegear. This directory
models the firmware's own control: who is attached to whom, who may transmit, and
what happens when tasks, timers, packets and hot-plugged hardware interleave.

All source paths below are relative to `src/firmware/src/`.

## 1. Inventory

Every component is plain C with FreeRTOS tasks (two cores, priorities, one mutex
per component at most) and no persistence but the Wi-Fi credentials.

| component | state | operations | talks to |
|---|---|---|---|
| `bridge.c` | attached source, list of sinks, transmit lock (mode, owner, time of the last TX) | attach / detach source, attach sink, RX fan-out, TX with lock check, set master | called by all below; calls the source's `tx`/`ready` and the sinks' `on_source_rx` |
| `main.c` | the two sources, a supervisor task | boot order; every 500 ms choose USB, else UART, else none; UART alone while it is locked for flashing | bridge, sources |
| `source_uart.c` | ready, boot_done, flash lock and its time, boot queue, decoder, TX mutex | boot probe, RST pulse, reset for flash, RX pump, TX | bridge (fan-out), called by webui, by the tunnel (T_RESET) and by init_task |
| `source_usb.c` | CDC handle, disconnect semaphore, boot queue, ready, TX mutex | open / boot / session / teardown loop, TX, driver callbacks | bridge, vendored CDC driver |
| `sink_hbrfeth.c` | client table, counters, one mutex | eight packet types, keepalive timer, fan-out | bridge (TX), `source_uart` (RST pulse) |
| `sink_tcp.c` | four client slots, one mutex | accept, client task, fan-out | bridge |
| `sink_hmuartlgw_legacy.c` | clients, pending-ACK table, hello timer, bypass flag | line protocol, frame routing, ACK matching | bridge, `hmu_frame` |
| `hmu_frame.c` | decoder state | encode, decode a byte at a time, CRC | sources, legacy sink |
| `usb_host_cdc_acm` (vendored driver, `../components/`) | list of open devices, a transfer per endpoint, semaphores | open, poll, blocking transmission, control request, events, close | USB host library, `source_usb` |
| `net.c`, `improv_glue.cpp` | Wi-Fi state, retry count, credentials, Improv window | events, soft-AP fallback, provisioning | webui, mdns |
| `mdns_glue.c`, `ota_check.c`, `log_buffer.c`, `webui.c` | TXT record, cached release, log ring, HTTP handlers | refresh, check, read since, 20 endpoints | all of the above |

How they interact. Bytes travel up by callback: the source's task reads
`source_t.rx_sink` and calls it, the bridge copies the list of sinks under its
mutex and calls each sink on the source's task. Bytes travel down by call: a sink's
task calls `bridge_tx_to_source`, which reads the source, checks its `ready`,
checks the lock, gives the mutex back and only then calls the source. No mutex is
held across these calls - with one exception, T_RESET in the tunnel - so every
value read under the bridge's mutex may be stale when it is used.

What is hard here, and what makes each component correct:

- **bridge**: four tasks and more race on a lock that is checked, released and
  then used. Right means: hooked exactly while attached; one late chunk at most
  from a source that was swapped out; a lease that is honoured whatever late
  completions, failures and pins do; a pin that lets nobody else in; a silent
  owner that loses the lock.
- **supervisor**: polls three values one after the other and acts on them later.
  Right means: it settles on the wanted source once things are calm, and a flash
  session is disturbed by one earlier decision at most.
- **tunnel**: packets, the timer and the fan-out share a small table. Right means:
  a host has one slot, the counter counts, late frames are bounded, the silent
  are dropped and the talkative are not.
- **UART source**: three unsynchronised users of one boot queue and one reset
  line, a lock with a time-out in two fields, a pulse under a foreign mutex.
- **USB source**: a binary semaphore as an event, a handle closed under a sender.
- **legacy sink**: requests and ACKs matched by an 8-bit counter with a time-out.
- **raw TCP port**: descriptors that are reused, a task per slot that alone may close. Right
  means: nobody reads or writes another client's socket, and every slot comes back.
- **legacy sink's clients**: a timer's callback, the fan-out and a slot's own task use one slot
  and one descriptor without a mutex. Right means: nobody touches another client's
  connection, no timer outlives its slot unseen, and every slot comes back.
- **CDC driver**: transfers, their callbacks, events and calls of two tasks meet on one
  object. Right means: "sent" means sent, no open handle goes deaf in silence, a lost
  device is told of and its handle closed.
- **log ring**: a reader that polls a ring which overtakes it, and restarts it.
- **net / improv**: two owners of one Wi-Fi station. Right means: a gateway with credentials
  is connected, reachable as a soft AP, or on its way to one of the two.

The list of hazards, each with its line and the property that would catch it, is
`PROJECT.json` "hazards".

## 2. Modules

| module | what it is | theorems | instance for TLC |
|---|---|---|---|
| `Bridge` | `bridge.c`, used in every way its interface allows | `GatewayProofs` | `MCBridge` |
| `Gateway` | `main.c` on top of `Bridge` | `GatewayProofs` | `MCGateway` |
| `HbRfEth` | `sink_hbrfeth.c` | `HbRfEthProofs` | `MCHbRfEth` (`.cfg`, `Timeout.cfg`) |
| `SourceUart` | `source_uart.c`, with T_RESET's hold on the tunnel's mutex | `SourceUartProofs` | `MCSourceUart` |
| `SourceUsb` | `source_usb.c` | `SourceUsbProofs` | `MCSourceUsb` |
| `UsbLink` | what a user of the CDC driver is promised about a handle | | |
| `CdcAcm` | `cdc_acm_host.c`, which implements `UsbLink` | `CdcAcmProofs` | `MCCdcAcm` |
| `CdcParse` | `cdc_host_descriptor_parsing.c`, as functions | | `MCCdcAcm` |
| `HmuSink` | the constants that the two models of `sink_hmuartlgw_legacy.c` share | | |
| `HmuAcks` | the pending-ACK table of `sink_hmuartlgw_legacy.c` | `HmuProofs` | `MCHmuAcks` |
| `HmuClients` | the client slots, hello timers and bypass fan-out of the same file | `HmuProofs` | `MCHmuClients` |
| `HmuFrame` | `hmu_frame.c`, as functions | | `MCHmuClients` |
| `Net` | `net.c` and `improv_glue.cpp` | `NetProofs` | `MCNet` (`.cfg`, `Window.cfg`) |
| `LogBuffer` | `log_buffer.c` and the console of `web/app.js`, as functions | `NetProofs` | `MCNet` |
| `SinkTcp` | `sink_tcp.c` | `SinkTcpProofs` | `MCSinkTcp` |

`Gateway` extends `Bridge`: its steps are uses of the bridge that `Bridge` allows. `UsbLink` is the boundary between `SourceUsb` and
`CdcAcm`: the driver implements it, and what `SourceUsb` takes for the driver does no more
than it allows. `CdcParse`, `HmuFrame` and `LogBuffer` have no state of their own: they are
functions, and what is checked of them are named ASSUMEs over bounded inputs, which TLC
evaluates at the start of the run whose MC module extends them. The others stand alone and
meet the bridge at its interface: a sink's call of `bridge_tx_to_source` is a step that
begins and, after any time and with any result, ends; a source's fan-out is a step that may
wait for the sink's mutex. That is all `Bridge` promises them, since it holds no mutex
across either call.

### Bridge

A critical section under `s_br.mtx` is one action; between two of them a task has
a program counter. `bridge_tx_to_source` is `TxSnapshot` (lines 148-158),
`TxAdmit` or `TxReject` (160-205), `TxReturn` (the source's `tx`, 207) and
`TxRecord` (208-213), so pins, swaps and claims fall between any two of them.
A source's RX path is `SourceRx` (it has read `rx_sink`) and `OnSourceRx` (the
fan-out). `tx_last_us` is kept as `silence`, the ticks since it was written:
only its distance from the clock is ever compared. `heard` and `late` are history
variables: the time since the owner, as owner, last completed a transmission, and
the chunks a source has fanned out since it was unhooked. `ready` is what the
sources' hooks answer and may change at any step.

The module is also the abstract specification of the bridge: it lets sources be
attached, detached and swapped and sinks be registered and pinned in any order.

### Gateway

`Gateway` EXTENDS `Bridge` and restricts its use to what the firmware does:
`app_main`'s order (`BootSource`, `BootSink`), the supervisor's round as six steps
(`SupWakes` reads the source, `SupLocked` the flash lock, `SupReadsUsb` and
`SupReadsUart` the ready flags, `SupPins` and `SupSwaps` act), sinks' tasks that
run once their sink is registered, and the web interface once it is up. Since each of them
is one of `Bridge`'s own actions or leaves the bridge alone, a behaviour of the firmware is one of
the bridge by construction; that is a lemma of the proofs and not a result. What is checked is what
the supervisor makes of it: `Settles`, its safety half `CalmRounds`, and `AtMostOneStray`.

### HbRfEth

A packet is one action (`ConnectNew`, `ConnectAgain`, `Disconnect`, `KeepAlive`,
`StartConn`, `StopConn`, `Reset`, `Frame`), each with the look-up, the eviction and
the time stamp `handle_packet` does on the way. `Reset` keeps the mutex until
`RxReturns`; `Frame` gives it back but keeps the task. The timer is `KaReadsNow`
and `KaSweeps`: it reads the clock before it waits for the mutex, and `lag` counts
the ticks it has waited since. The elapsed time is computed modulo `Wrap`, as the
cast to `uint64_t` does. A source's task is `OnRx` (recipients chosen) and `Emit`
(frames out). `late` is a history variable.

### SourceUart

Three tasks may reset the module and probe it: `init_task` at boot, the web server
(with or without holding it in the boot loader) and the tunnel's T_RESET, which has the
sink's mutex meanwhile. `Probe(p)` walks one of them through `reset_and_get_banner` and `boot_probe`: drain the
queue, pulse or not, wait for the banner, CHANGE_APP, verify. `uart_rx_task` reads,
decodes, posts to the boot queue and fans out; the fan-out waits for the tunnel's
mutex. The module answers late, not at all, or unasked. `amiss` records which of
these has happened and `overlap` that two probers have been at it at once: the properties
name the mishaps they tolerate. Neighbouring assignments to `S` are one step, except where they
race: `reset_for_flash` sets the lock (`PulseDone`), then reads the clock and writes the time stamp and `ready`
(`HoldStamps`, lines 648-650), and `uart_rx_task` releases the lock and clears the stamp in two
steps (`RxReleases`, `RxClears`, lines 425-426). The idle time may be over at any read while the stamp
is set (`Timed`). `stamp` is `lost` when the clearing hits a lock that was taken in between.

### SourceUsb

`stick_task` is a program counter through open, CP210x init, the probe's three
questions, the session and the teardown. The driver gives the disconnect token
when a listed handle's device is gone, and only then; the token is taken once
per session. A sink's task is `Checks` (it has seen `ready`) and, any time later,
`Transmits`; the stick may answer its frame (`AnswersSink`), and what it says is decoded and posted to
the boot queue like any other, a DUAL_ERR included, which two of the probe's three questions are content with
(`Welcome`: the first and the last, not the one after CHANGE_APP). `crossed` records that such an answer fell
into a probe. `stray` counts sessions that ended with their stick in place, and
`strays` the transmissions into sessions that had not been verified. What the driver does
underneath is `CdcAcm`. A sink's frame that sends the stick back to its boot loader is left out.

### UsbLink, CdcAcm, CdcParse

`CdcAcm` is the driver as `source_usb.c` drives it: `stick_task` (`pc`) opens, polls, sends the
CP210x requests, sits in its session and closes; one transmission at a time (`who`, `at`) comes
from a sink or from the boot probe; the driver's client task runs the callback of a
transfer that is done, or handles DEV_GONE. The USB host library is external and modelled from what
the driver relies on: it refuses a transfer that is in flight, and hands a lost device's
transfers back before it sends DEV_GONE. The driver tests `notif.cb` and calls it outside the critical
section in which a close clears it (lines 703-706, 773-778, 941-948); the two are one step. `note` and `oldnote` are the messages that name this
handle and an earlier one. A handle freed while a transfer or a call is under way is
undefined behaviour; the model ends there (`cut`). `LinkHandle` maps the driver's fields to the four
states of `UsbLink`.

`CdcParse` computes which endpoints are used for an interface: `Parse` is the whole of
`cdc_parse_interface_descriptor`, over a configuration as a set of interface settings. Its three
ASSUMEs say that both data endpoints come from one setting, and exactly when a vendor's and when a CDC
interface is found.

### HmuAcks

One action per section under the mutex: `Reserves` an entry (freeing those that have
timed out), sends or fails to, routes an ACK by its counter, frees. Slots are
reused by new connections, as the code does, so an entry names a slot and not a client. A
transmission that failed is taken not to have reached the stick. When a slot is given to another
connection, or the 8-bit counter comes round, while an answer is still on its way, an
answer may reach the wrong client; the history variable `mixed` marks this and the
run excludes it (`Unmixed`): the properties are about everything else.

### HmuClients, HmuFrame

`HmuClients` has `accept_task` (`Rejects`, `Gives`, `Spawns`, `SpawnFails`), the client's task of each
slot (`ClientTask`), the esp_timer task inside `hello_trampoline` (`shot`, one action per
read or write it makes) and the source's task in the bypass fan-out (`Snapshots`, `Copies`, `Shuts`).
Only the giving and the taking back of a slot are under `S.mtx`. `cancel_hello` is four steps (`Hushes`,
`StopsTimer`, `DeletesTimer` or `DeleteRefused`, `ForgetsTimer`): the callback may arm the timer again in between;
`orphans` counts the timers that are left over without a handle, and `raced` says which of them came so. `fd` says which
connection a descriptor names; another server of the gateway (`Other`) competes for descriptors.
`owner`, `greeted` and `settled` are histories. Bypass is `is_bypass_mode()`, which changes with the
source.

`HmuFrame` is the codec: `Encode`, and `FeedByte` for the decoder. Its ASSUMEs are the
round trip, resynchronisation after noise, the loss of a frame's tail, a wrong byte, and the bounds of
the length, over the bytes that escaping and the header make special.

### Net

The driver's station, its configuration (kept in RAM) and the events it has posted are
modelled as `net.c` sees them; `event_cb` is one action per branch. Credentials are
good, bad, or half: name and passphrase are saved by two calls, either of which may fail. The
Improv library configures the station on its own while the window is open, with credentials out of `Offered`, and may be cut
off by its end. The recovery task may fail to be created, which is not checked and not tried again. `deaf` records that an event was left to Improv and that nothing has been
tried since. A reboot may come at any moment.

### LogBuffer

The ring (`Stored`, `Dropped`, `GetSince`) and the browser's console (`LogTick`) as functions on
records, run over all histories of lines, losses, polls with or without room, and restarts up to a
bounded length by TLC, and for ever in the proofs (`LogRuns`). The mutex makes each of them atomic. `all` is
a history.

### SinkTcp

`accept_task` accepts, claims a slot under the mutex, and creates the client's task, which
may fail. A client's task reads (`Receives`), forwards (`Forwarded`) and closes
(`Leaves`, under the mutex). `on_rx` has the mutex from `StartsFan` until it has passed
the last slot. Descriptors are reused: `file` says which connection one names. `owner`
is the connection a slot was filled for.

## 3. Runs

| run | instance | states | shows |
|---|---|---|---|
| `bridge` | 2 sources, 2 sinks, 2 tasks, idle window of 2 ticks | 353,808 | lease, pin, swap, late chunks; the handover under fairness |
| `gateway` | 2 sources, 2 sinks, 1 task, idle window 0 | 179,824 | flash session, calm rounds, settling |
| `hbrfeth` | 2 slots, 3 hosts of which one has 2 ports, 1 source | 293,880 | all of `HbRfEth`'s properties |
| `hbrfeth_timeout` | the same | - | a finding: a client that has just spoken times out |
| `uart` | HM-MOD module, probers `web` and `hb`, queue of 2, 1 unanswered question | 648,485 | flash session and probe against a reset from the network |
| `usb` | 2 senders, queue of 2, 2 unanswered questions, 2 frames of the senders | 1,010,930 | what a session may be ended by, and that it comes back |
| `cdc` | 1 IN pipe, 1 sink | 510,448 | what a result is worth, no silent deafness, refinement of `UsbLink`; `CdcParse` |
| `hmu_acks` | 2 slots, 3 connections, 2 counters, 2 entries | 160,229 | whom an answer goes to |
| `hmu_clients` | 1 slot, 2 connections, 2 descriptors | 333,748 | who reads, writes and greets whom; slots and timers come back; `HmuFrame` |
| `net` | 8 retries, 2 events; a ring of 2 lines | 81,876 | a gateway with credentials is reachable and recovers; `LogBuffer` |
| `net_window` | the same with 2 retries and nobody at the Improv console | - | a finding: an attempt that fails in the Improv window is the last one |
| `tcp` | 2 slots, 3 connections, 3 descriptors | 135,960 | who reads and writes which socket, and that slots come back |

Bounds and why they are enough. Two sources are all there are. Two sinks are the
least that compete for the lock; a second task matters for calls that overlap
with a change of owner. Ages stop growing one above the largest value they are compared with,
so that a longer silence is no different. Two slots and three hosts fill the
tunnel's table; the second port of one host exercises the eviction with the table full. The
timer's wait for the mutex is bounded by `MaxLag`: one tick is enough to make the elapsed
time negative. The boot queues are shorter than in the code (2 instead of
8) so that they overflow; two probers are the least that can take each other's
answers. Two entries and two counters make the ACK table overflow and its
counters meet. `net` has the code's own eight retries. Three connections for two
slots: one is refused, and a freed descriptor can be any newcomer's. `cdc` has one IN pipe, as
the stick has, and one sink, since transmissions are serialised by `S.tx_mtx`; the boot probe's is the
second caller. `hmu_clients` has one slot: slots share nothing but descriptors and the tasks, and
the second connection and the other server are there to take a descriptor that is freed. A ring of two
lines comes round three times in the histories of `LogBuffer`. `HmuFrame` has
the code's own constants; its frames have bodies of up to four bytes. The proofs have none of these
bounds.

CHECK_DEADLOCK is off in every run: nobody is made to send or plug in anything, so
the system may rest.

## 4. Properties

| module | invariants | action properties | liveness and refinement |
|---|---|---|---|
| `Bridge` | `AtMostOneLateChunk` | `SwapDrains`, `LeaseHonoured`, `PinDrains` | `Handover` |
| `Gateway` | `AtMostOneStray` | `CalmRounds` | `Settles` |
| `HbRfEth` | `CountMatches`, `OncePerHost`, `AtMostOneLateFrame` | | `SilentClientIsDropped` |
| `SourceUart` | `FlashSessionIsWhole`, `HoldKeepsBootloader`, `SoloProbeTellsTruth` | | `RxRecovers` |
| `SourceUsb` | `ReadyMeansApp`, `AtMostOneStrayTeardown`, `AtMostOneStrayFrame` | | `ComesBack` |
| `CdcAcm` | `OkMeansSent`, `BufferIsStill`, `PolledOrTold` | | `LinkSpec` (refinement), `GoneIsClosed` |
| `HmuAcks` | `AnswersGoHome`, `AwaitedHasEntry` | | |
| `HmuClients` | `OwnConnection`, `AtMostOneLateHello`, `LostOnlyIfRaced` | | `Greeted`, `SlotsComeBack` |
| `Net` | `NeverStranded`, `SoftApHasRecovery` | | `Reachable`, `Recovers` |
| `SinkTcp` | `OwnSocket`, `NoSocketLost`, `SlotServed` | | `EndedIsFreed` |

and, as ASSUMEs: `CdcParse` has `OneInterface`, `VendorFound`, `CdcFound`; `HmuFrame` has `RoundTrip`,
`Resyncs`, `TailLost`, `WrongByte`, `LengthBounds`; `MCNet` has `RingIsTheTail`, `GapsAreMarked`,
`ConsoleNeverTwice`, `ConsoleSkipsNothing` of `LogBuffer`.

Each stateful module also has its `TypeOK`, and `Bridge` and `SinkTcp` a few simple invariants
(`WiredIffAttached`, `OwnerIsAttached`, `CountMatches`), which are proved and not repeated in the runs. Each
property is stated in words above its definition, and each property of a run has a
mutant: an operator beside the definition it breaks, in which a plausible slip of the code
makes TLC find the property violated.

Fairness, and why the code justifies it:

- `Bridge`: time passes, and a task inside `bridge_tx_to_source` gets on: the mutex is held
  for a few instructions and a source's `tx` is bounded by its own time-out. Nobody is assumed to
  send: `Handover` is conditional on a sender that keeps trying.
- `Gateway`: `app_main` runs on, and so does the supervisor's loop, which the task watchdog
  enforces (`main.c:68-78`).
- `HbRfEth`: time passes, the periodic timer fires, the pulse and the bridge call end
  (bounded by time-outs), and the timer task gets the mutex sometime when it is free again and
  again (strong fairness: it has the highest priority of those that ask for it). No packet is
  assumed to come.
- `SourceUart`: every wait of a prober ends by its time-out; `uart_rx_task` gets the tunnel's
  mutex sometime when it is free again and again (it has priority 5, the tunnel's task 4).
- `SourceUsb`: `stick_task` runs, the driver reports a lost device, a transmission ends, the
  stick answers. `ComesBack` is conditional on a stick that is plugged in for good, on a bus
  without faults, and on no sink's answer in its probe.
- `CdcAcm`: the library reports a lost device, the driver's client task and `stick_task` run when they
  can, a transmission ends by its time-out at the latest. The device need not answer.
- `HmuClients`: `accept_task`, the clients' tasks and the esp_timer task run when they can, and an armed
  timer fires. No peer has to speak or leave.
- `Net`: boot gets on, an attempt to join ends one way or the other, events are handled, the two
  tasks' delays end, the window closes (the library's cap of an hour at the latest), and a
  lease that can be had again and again is had. The network, users and crashes owe nothing.
- `SinkTcp`: the tasks run, the bridge call ends, and the mutex that `on_rx` gives back again
  and again is had by those who wait for it. No peer and no source has to do anything.

## 5. Findings

- `TimeoutMeansSilence` (`sink_hbrfeth.c:358-371`): `now` is read before the mutex
  is taken, the difference is cast to an unsigned type, and a packet handled in
  between makes it huge: a live client is dropped. `WhomTheSweepDrops` is the whole of it: who has been
  silent too long before the clock was read, who has spoken since, and nobody else.
- `FallsBack` (`net.c:81-84`, `web/index.html:200-202`): the soft AP is to be the way in when no credentials fit.
  But a failed attempt to join is dropped while Improv has control, which it takes at every boot. The run has nobody
  at the Improv console (`Offered` is empty): `net.c` has begun to join with credentials that do not fit, the window
  opens, the attempt fails and its event is ignored, uncounted; the end of the window sets a flag and nothing else
  (`improv_glue.cpp:125`). The same happens with good credentials when the access point is not there yet.
  What does hold, and is proved, is `NeverStranded`: an event that was left to Improv (`deaf`) is the only way.
- `OncePerHost` (`sink_hbrfeth.c:77-87`, `sink_hbrfeth.h:25`): the header gives each pair of address and port a slot
  of its own; the code evicts every slot of the same address, and says why. The property states what the code does,
  and holds: it is the header that is out of date.

What else the models show or had to allow for, without a run of its own:

- `bridge.c:172-213`: the time stamp is written after the transmission so that a slow one keeps
  the lock (comment at 200-203), but a sink that has just claimed the lock has no fresh stamp
  yet: it may lose the lock during its first transmission. What holds from the first completed
  transmission on is `LeaseHonoured`.
- `source_uart.c:425-426, 648-650`: `uart_rx_task` may clear the time stamp of a flash lock taken since it released
  the last one; that lock never times out (`stamp` is `lost`), which `FlashSessionIsWhole` tolerates.
- `source_usb.c:157-183, 333, 353`: the answer to a sink's frame that reaches the stick during the boot probe is posted as an
  answer to the probe. It may end the probe, and nothing starts it again while the stick is plugged in (`ComesBack`
  excepts it by `crossed`); and since a DUAL_ERR counts as the application's answer at lines 321 and 353, one that
  was meant for somebody else makes the source ready with a stick in its boot loader (`ReadyMeansApp` excepts it).
- `net.c:292, 325`: the recovery task's creation is not checked; with the soft AP up it is not tried again.
- `source_usb.c:420`: a disconnect token given while an earlier handle was being set up ends the next
  session at once. `AtMostOneStrayTeardown`: only one.
- `cdc_acm_host.h:211` says that in-flight transfers are cancelled before a device is closed; the
  code cancels the IN transfers only. A close under a transmission, which `source_usb.c:433` does not
  prevent, is where `CdcAcm` ends (`cut`).
- `cdc_acm_host.c:789`: an IN transfer that fails is not submitted again. The owner is told (that is
  `PolledOrTold`), but `source_usb.c` only logs it: the gateway is deaf until the stick is
  pulled. A failed submission in `cdc_acm_start` runs into `ESP_ERROR_CHECK` and restarts it (`Aborts`).
- `source_usb.c:280, 449` pass ticks where the driver takes milliseconds.
- `sink_hmuartlgw_legacy.c:199, 229-232`: a callback that is past its look at `hello_repeating` may arm the timer between
  `esp_timer_stop` and `esp_timer_delete`; the delete is refused, its result ignored, and the handle set to NULL: the timer
  fires once more, for whoever has the slot then, and its memory is lost. `LostOnlyIfRaced`: there is no other way.
- `sink_hmuartlgw_legacy.c:187-204`: the timer re-arms outside the mutex and may clear
  `hello_repeating` of the slot's next client, so nothing is claimed of repeated hellos, only of the first
  one. A client that came before the bypass began goes on being sent `Co_CPU_BL`.
- `sink_hmuartlgw_legacy.c:924`: the fan-out shuts down a socket it read earlier; by then the descriptor may be
  another connection's.
- `web/app.js:479-485`: until the ring has been full once, its oldest line is 0, which makes the console
  take every poll for the first one: it stays blank and polls every 50 ms. An answer that did
  not have room for all lines is followed by a jump to the head (490): the newest lines are
  lost. `log_buffer.h:26` says "greater than `since`", the code gives `since` itself too.
- `mdns_glue.c:258-282`: the values are remembered as published before they are, so a refresh that
  fails is not tried again.

## 6. Proofs

TLAPS checks, for every number of sources, sinks, tasks, slots, hosts, connections and retries,
and any time-outs:

- `GatewayProofs`, of the bridge: `TypeCorrect`, `Wiring`, `Ownership`, `LateChunks`, `Lease`,
  `PinnedExclusion`, `Draining`. The inductive invariant adds two facts to the
  checked ones. `SilenceBehind`: the window the code looks at never ends later than the one
  counted from the owner's own last completion, because other completions only
  restart it; `Lease` follows at once. `LateBookkeeping`: a chunk that is on its way
  when its source is unhooked is the first one since. Of the firmware:
  `GTypeCorrect`, `FlashSession`, `SettlesInOneRound`, `FirmwareInherits`. The inductive
  invariant is local to `main.c`: a stray swap is decided in the supervisor's reading phase,
  and before the next one it finds the lock. The bridge's own properties are
  not proved again: each step of the firmware is one of the bridge or leaves it alone (the lemma `Implements`), so they carry
  over (`FirmwareInherits`). `SettlesInOneRound` proves `CalmRounds`, the safety half of
  `Settles`: it needs what a round has read to be compared with what it would read now (`UpToDate`).
- `HbRfEthProofs`: `TypeCorrect`, `Counting`, `Eviction`, `LateFrames`. Counting rests on
  two lemmas on what leaving and entering do to the set of connected slots, from
  the library's facts on cardinality. `WhomTheSweepDrops` works out the unsigned difference
  (`Overdue`); `SilentClientsAge` is the safety half of `SilentClientIsDropped`: nothing but its own packets
  makes a client younger.
- `SourceUartProofs`: `TypeCorrect`, `FlashSessionIsWholeHolds`, `HoldKeepsBootloaderHolds`,
  `SoloProbeTellsTruthHolds`. `HInv` says, for each place a prober may be at, what it has done to the
  module and to the lock so far, as long as no other prober has overlapped with it. `SInv` says that, unless
  something went amiss, there is at most one answer to wait for (`Rest`, `Asked`, `OnWire`,
  `Posted`) and that it is true of the module when it is read.
- `SourceUsbProofs`: `TypeCorrect`, `StrayTeardowns`, `StrayFrames`, `ReadyMeansAppHolds`, `NeverStuckHolds`, `LinkKept`.
  An invariant for each of the middle ones: where a left-over token can come from and that it is the only
  one; which senders can still be on their way; and that the events in the
  queue, and the answers to come, but for a DUAL_ERR, are true of the stick (`EventsAreTrue`, `VerifyIsTrue`). `NeverStuckHolds`, the safety half of
  `ComesBack`, needs two: a loss is on its way or has been told (`LostIsTold`); and, without a fault or a crossed answer, there is one
  question or its one answer at a time (`Smooth`), so that the probe ends ready. `LinkKept`
  says that the driver `SourceUsb` reckons with is a `UsbLink`, as `CdcAcm` is.
- `CdcAcmProofs`: `TypeCorrect`, `OkIsSent`, `BufferStaysStill`, `NeverDeafInSilence`, `LossReachesTheOwner`,
  `Implements`. One invariant (`IInv`) for all: `Stages`, what `stick_task` has published where, and that a loss is told
  once; `Calls`, nobody uses a handle that is not published; `Polling`, each IN transfer is under way
  or its error told; `OneAtATime`, the OUT transfer is in one place at a time unless
  transmissions overlap. `LossReachesTheOwner`, the safety half of `GoneIsClosed`,
  adds that a loss after the first request has its message queued or its token given. `Implements` maps each
  step to one of `UsbLink` or a stutter.
- `HmuProofs`, of the ACK table: `TypeCorrect`, `AnswersGoHomeHolds`, `AwaitedHasEntryHolds`. The invariant (`RInv`) is a list of
  who may be using a counter: an entry, a task that is sending, a question in the stick, an
  answer; at most one of them leads to the wrong client, and then `mixed` says so. `AInv` adds that a frame on its way and a
  task that has yet to send have a fresh entry each. Of the client slots, for any number of slots and
  descriptors: `HCTypeCorrect`, `OwnConnectionHolds`, `LostOnlyIfRacedHolds`, `NothingLeftBehind`, `LateHellos`. `Seats`
  says that a slot in use has a descriptor of its own and the connection it was given for, which gives
  `OwnConnection`; `Timerless`, that a slot that is free, new or about to be free has no timer; `Raced`, that a timer is armed after its stop
  only if the callback did it, which the history says; `Manned`, that who has
  the mutex is closing a client and who closes one is `accept_task` or has it; and for the hellos, `Single`, a
  connection has one descriptor, `Settled`, a slot whose client needs no hello does not wait for a probe, and
  `OnceLate`, the callback that is past its checks is not about to greet a client that had its late hello.
- `NetProofs`: `TypeCorrect`, `SoftApHasRecoveryHolds`, `NeverStrandedHolds`. `esp_wifi_connect`
  does nothing without a configuration, so the invariant needs `Unconfigured`: as long as
  the driver has none, nothing can make the gateway connected, and the fallback task is
  waiting or has brought up the soft AP. Of the log ring, for any size of it: `ReadersGetTheTail`,
  `LossesAreMarked`, `ConsoleGoesForward`, `ConsoleMissesNothing`, of every line, loss, poll and restart in any order
  and for ever. The ring's slot `i % MaxLines` is the entry `i` of the history as long as `i` is one of the last
  `MaxLines`; the console's cursor is where the last answer ended.
- `SinkTcpProofs`: `TypeCorrect`, `OwnSocketHolds`, `NoSocketLostHolds`, `SlotServedHolds`,
  `CountMatchesHolds`. The invariant gives every open descriptor one place (`Seated`, `Placed`) and
  every slot in use one who will free it (`Manned`).

The assumptions are those the modules name (`BridgeAssumption`, `GatewayAssumption`,
`HbAssumption`, `UsbAssumption`, `CdcAssumption`, `NetAssumption`, `LogAssumption`, `TcpAssumption` and their like): sizes are
positive, and the values that stand for nothing are not among the others. Model-checked only are:

- the liveness properties (`Handover`, `Settles`, `SilentClientIsDropped`, `RxRecovers`, `ComesBack`, `Reachable`,
  `Recovers`, `EndedIsFreed`, `GoneIsClosed`, `Greeted`, `SlotsComeBack`), since fairness and ENABLED are out of the
  prover's reach. What is safety in them is proved where it is more than an invariant of the runs already
  says: `SettlesInOneRound`, `SilentClientsAge`, `NeverStuck`, `LossReaches`, `NeverStranded`, `NothingLeftBehind`;
- the ASSUMEs of `CdcParse` and `HmuFrame`: folds over data, of which the prover knows nothing without induction,
  and `HmuFrame` computes its checksum with bit operations that it does not have.

The four ASSUMEs about `LogBuffer` are checked for bounded histories and proved without a bound. Every safety
property of a passing run is proved.

## 7. Plan

Everything that was planned is modelled. What could be added:

1. The same for a source as is done for the driver: what `Bridge` and `Gateway` assume of one (`ready`, the
   late chunk, the flash lock) as a module that `SourceUart` and `SourceUsb` implement.
2. What is safety in `Handover` and `RxRecovers`, as theorems.

## 8. Not modelled

- `sink_debug.c` logs the bytes it is given and keeps no state.
- `mdns_glue.c`: one task refreshes a text record from values it reads; nothing in the gateway reads it.
- `ota_check.c`: a check is asked for and answered by the one HTTP server task; the rest is HTTPS and JSON.
- `webui.c`: formatting, uploads and handlers that call what is modelled: the bridge (`Gateway`), the module's
  reset (`SourceUart`), credentials (`Net`), the log (`LogBuffer`).
- Of the CDC driver: uninstall, suspend and resume, remote wake-up, line coding and serial state, which
  the firmware does not use; its test applications.
- The Improv library, a package of its own, which is modelled as far as it touches the station; the
  USB host library and lwIP likewise.
- The browser front end but for the log console, packaging scripts and build files.
- Of the modelled components: statistics and texts; in `source_usb.c` a sink's frame that sends the stick back to its
  boot loader; in the legacy sink the broadcast of received frames, which changes nothing, and the
  answers given on the spot.
