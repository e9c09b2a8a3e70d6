# The JL701N wireless duplex adapter in TLA+

This directory specifies the control part of the firmware in `src/`: a USB
*dongle* and an *earphone* that exchange audio over a 2.4 GHz/BLE link. The
specifications are translated from the C source; `PROJECT.json` gives, for every
definition, the lines it stands for.

All paths below are relative to `src/apps/` unless they say otherwise.

## 1. The system

### Tasks and how they meet

| task | runs | talks to the others by |
|---|---|---|
| application (`app_core`, priority 1) | `adapter_process_run`, every event handler, opening and closing of decoders, tones, charger and battery handlers, and the callbacks of the `sys_timer`s it added (`timer.h:76`) | takes events from one queue |
| LiteEMF (`emf_task`, priority 2; `app_liteemf.c:280`) | key and mode handlers, which call `hal_bt.c` | calls the BLE modules directly, posts events |
| audio decoder and encoder (`audio_dec`, `audio_enc`, priority 3) | `get_frame` and its neighbours; the encoder's output handler | post `MEDIA_DECODE_ERR`; share the receive list and the packet buffer |
| Bluetooth stack (`btstack`, priority 4) | `cbk_packet_handler` of client and server, the profile search, `adapter_wireless_rx_write` | posts events; shares handle, state and switches with the callers |
| USB interrupt | `spk_as_itf_hander`, `mic_as_itf_hander` of `uac1.c` | posts events; shares `mic_sw`, `mic_stream_is_open` with the timer |
| timer interrupts (`sys_hi_timeout_add`, `usr_timer_add`) | `uac_mic_stream_close_delay`, `ldo5v_detect`, `charge_full_detect`, `vbat_check` | post events |
| controller, radio, charging input, battery | external | HCI events, interrupts, levels |

Everything meets in the system event queue (`sys_event_notify`,
`app_task_get_msg`). The hard behaviour of this code is there and in the state
that is shared around it without locks: a task of higher priority interrupts a
lower one between any two statements, on the one core these tasks run on.
What is persisted is the BLE bond, and the charger's registers, which
outlive a reset and a power-off; every other memory is lost in the resets that
charging and mode changes go through.

### Components

| component | state | operations | what makes it correct |
|---|---|---|---|
| adapter process (`adapter/process/adapter_process.c`) | `dev_status`, `media_lock`, `mode` | opens and closes of the input and the output device, decoder errors, start, stop, power-off | the decoders run exactly from the second open to the first close; no path leaves the lock taken |
| adapter media (`adapter/audio/adapter_media.c`) | which decoders are open, `adapter_media_sel` | start, stop | the media that plays is the one selected |
| USB input device (`adapter/idev/idev_usb/`, `common/device/usb/device/uac_stream.c`, `uac1.c`) | two streams, their status as the application sees it, the delayed close of the microphone | SET_INTERFACE of the two interfaces, the close timer, the four UAC events | two streams share one open and one close request: the device is marked open exactly while one streams |
| BLE client of the dongle (`le_wireless_mic_client.c`) | work state, handle, switch, bond | scan, connect, disconnect, module on and off, clearing the bond | state and handle agree with the controller; switched on and unconnected, it looks for its peer |
| BLE output device (`adapter/odev/odev_bt/odev_ble/`) | its status | state and event callbacks, start, stop | open exactly while the link is settled |
| dongle application (`duplex_dongle.c`) | `wireless_conn_status` | event callback, keys, power-off | the flag is the link's state |
| BLE server of the earphone (`le_wireless_mic_server.c`, `le_hogp.c`) and its input device (`adapter_idev_ble.c`) | advertising switch, work state, handle, bond, profile | advertise, module on and off, disconnect, clear the bond, switch profiles | handle and profile agree with controller and callers; it advertises exactly when asked to |
| earphone application (`duplex_earphone.c`) | `wireless_conn_status`, `cur_music_vol`, the tone | event callback, tones, volume commands | sound follows the link; the volume believed in is the decoder's |
| LiteEMF HAL (`src/user/emf_701n_hal/hal_bt.c`) | - | enable with the media selection, disconnect, debond, select mode | its calls race the stack's handlers |
| wireless encoder (`adapter_wireless_enc.c`) | `tx_seqn`, `out_buf`, `frame_len` | output of a frame, keep-alive timer, open, close | no frame played twice or out of order, no command obeyed twice |
| wireless decoder (`adapter_wireless_dec.c`, `adapter_dec_jla.c`) | receive list, `start`, `wait_resume`, `suspend` | write, fetch, free; grant and loss of the output; open, close | no write into a freed buffer; a sleeping decoder is woken |
| charger driver (`src/cpu/br28/charge.c`) | counters of the input's scan, `charge_flag`, `charge_online_flag` | scan, full detection, init, start, close | one event for each level that lasts; a plug is never overlooked |
| power management (`app_power_manage.c`, `app_charge.c`, `adapter_charge.c`, `app_main.c`) | battery state and counters, timers, the running application | start, choice of the application, charger and battery events, resets, power-off | unplugged it plays, plugged in it charges; off, it still charges; empty, it goes off |
| UAC ring buffers, keys, duplex mode switch, classic Bluetooth, microphone input | | | not modelled, see section 5 |

The rest of the repository (the LiteEMF library, drivers, codec wrappers, HID and
OTA profiles, headers of closed libraries, UI, effects, configuration tables) is
either vendored or carries no part of the control modelled here.

## 2. The modules

| module | models | checked by | proved by |
|---|---|---|---|
| `SysEvent` | the event queue and the events | all with a queue of adapter events | in the proofs below |
| `MediaSession` | abstract: what the adapter process promises | `process` (refined) | implemented by process, dongle and earphone |
| `AdapterProcess` | `adapter_process.c`, `adapter_media.c`, posting side of `hal_bt_enable` | `process` | `AdapterProcessProofs` |
| `UsbIdev` | `uac_stream.c`, `adapter_idev_usb.c`, SET_INTERFACE of `uac1.c` | `dongle`, `dongle_live` | `DuplexDongleProofs` |
| `BleClient` | `le_wireless_mic_client.c` and the two callbacks of the BLE output device | `ble_client`, `ble_off`, `dongle`, `dongle_live` | `BleClientProofs` |
| `DuplexDongle` | `duplex_dongle.c`: the four above in one queue | `dongle`, `dongle_live` | `DuplexDongleProofs` |
| `BleServer` | `le_wireless_mic_server.c`, the profile switch of `le_hogp.c`, `adapter_idev_ble.c`, the calls of `hal_bt.c` | `earphone`, `ear_usb_mode` | `DuplexEarphoneProofs` |
| `DuplexEarphone` | `duplex_earphone.c`: process, server, tones and volume in one queue | `earphone`, `ear_usb_mode` | `DuplexEarphoneProofs` |
| `AudioSink` | abstract: what the receiving end of the audio link promises | `wireless_rx` (refined), `wireless_tx` (used) | implemented by `WirelessRx` |
| `WirelessEnc` | `adapter_wireless_enc.c` | `wireless_tx` | `WirelessAudioProofs` |
| `WirelessAudio` | encoder, lossy radio and `AudioSink` | `wireless_tx` | `WirelessAudioProofs` |
| `WirelessDec` | `adapter_wireless_dec.c`, `adapter_dec_jla.c` | `wireless_rx`, `wireless_parse` | `WirelessDecProofs` |
| `WirelessRx` | the same with a record of what was played, refining `AudioSink` | `wireless_rx` | `WirelessDecProofs` |
| `Charge` | `src/cpu/br28/charge.c` | `power`, `power_dead` | `PowerManageProofs` |
| `VbatCheck` | the battery's watch of `app_power_manage.c` | `power`, `power_dead` | `PowerManageProofs` |
| `PowerManage` | start, charging and earphone application, resets and power-off, on the two above | `power`, `power_dead` | `PowerManageProofs` |

`QueueFacts` models nothing: it holds the definitions and lemmas on queues that the
proofs share. The `MC...` modules give the constants their small values.

**SysEvent.** An event is a record of its name and value. `Post` is a task
that posts, `TakeAndPost` the application that takes the oldest event and posts
what its handler posts. A poster that would exceed `QMax` is held back: overflow of the
queue is not modelled (the queue is a closed library, see the hazards).

**AdapterProcess.** Every case of `adapter_device_event_parse` is one operator
(`IdevMediaOpen`, ... `MediaError`), `Dispatch` one round of
`adapter_process_run`. The start callback is part of `DeviceOpened`:
`adapter_odev_media_prepare` returns -1 for a device without an asynchronous
prepare and for a BLE-only device (`adapter_odev.c:64`, `adapter_odev_bt.c:164`),
so the lock is taken and released within one handler. The asynchronous prepare
of the EDR device is unreachable in this product (`duplex_dongle.c:286`). `media`
abstracts the two decoders of `adapter_media.c` to the list entry they were
opened for. In its own run every device event may come at any time. `cut` is a
history variable.

**UsbIdev.** `SpeakerOpen` ... `MicClose` are the interrupt's handlers.
`uac_mic_stream_close_delay` is three steps, because the host can be served between
them: the test of `mic_sw` (`CloseDelayTest`, line 449), the assignment of
`mic_stream_is_open` (`CloseDelayAct`, 460) and the event (`CloseDelayNotify`, 461).
A microphone opened after the test posts nothing and is closed; one opened after the
assignment posts its `MIC_OPEN` in front of the callback's `MIC_CLOSE`. `lost` is the
history variable that marks either, until the host opens the microphone again.
`PlayOpened` ... `MicClosed` are the cases of `adapter_idev_uac_event_prase`.
`sofFill` is the build's `USB_SOF_FILL_DATA_MODE`: both dongle boards set it, the
default does not. With it `close_spk` leaves the speaker's stream open for good
and the start-of-frame interrupt feeds it silence, so a dongle that has once
played keeps its decoders running until the link is lost. The model has both
builds; the properties are stated of the streams. Sample rates are constants of
the build and abstracted to one bit (`playParm`).

**BleClient.** A handler of the stack's task is one step and interrupts the calls of
the application and of LiteEMF, one of which is under way at a time. `appPc` is the
statement such a call has reached and `callsLeft` the calls of
`ble_module_enable` that `hal_bt_debond` still makes. Every test of a shared
variable, every `set_ble_work_state`, each of the two events its callback posts, and
every command to the controller is a step of its own: `ScanTest`, `ScanSet` and `ScanOp`
are `bt_ble_scan_enable` (1198-1208, 1229, 1234), `DiscTest`, `DiscSet`, `DiscSay` and
`DiscOp` are `ble_disconnect`, `OffTest` and `SwitchOff` the branches of
`ble_module_enable(0)`, `Forget`, `Store`, `PairAct` and the `Cancel...` steps
`clear_bonding_info`. Called by a handler, the same function is one step
(`ScanEnable`). Two history variables mark the windows this leaves: `overtaken`, a
connection taken up between the test and the assignment of `bt_ble_scan_enable`, and
`spoiled`, set by an interruption that leaves the client stuck and cleared by the next
connection. Section 3 says what they do.
The controller is external and modelled by what the code needs of
it: it reports while it scans, a creation ends in success, failure or a cancel
that reports a failure, a second creation is refused silently, a link can be
updated and lost. `cfg` is the build: `WIRELESS_PAIR_BONDING` (1 for LiteEMF,
`src/user/hw_config.h`) and the `bonding_flag` of a match (0 in the dongle's
list). `rejected` is a history variable. The profile search completes at any
moment after the connection (`user_client_set_search_complete` is in the library).

**DuplexDongle.** The application hands UAC events to the input device, which
consumes them, and every other event to the process, then starts the devices on
their INIT_OK events and updates `wireless_conn_status`. The environment - USB
host, failures of the radio, user, decoders, power - makes at most `InputMax`
moves, at any moments; what firmware, controller and a willing peer do in answer
is not limited. After `POWEROFF` the loop is left, media and devices are
stopped, and nothing takes events any more; hence `CHECK_DEADLOCK FALSE`.

**BleServer.** The stack's handlers are one step each and interrupt the callers,
whose calls are cut wherever they test or write what a handler writes: `todo` is
the list of the steps a call has left. Two builds: the plain earphone, whose
server is called only to stop, and the LiteEMF one (`emf`), which keeps a bond in
flash and switches profiles. The calls of `app_core` and of `emf_task` are
modelled one at a time. `wish` and `raced` are history variables. `raced` marks
the windows the code has, and `AdvertisesAsAsked` and `ForgottenLinkEnds` are
stated outside them:
a disconnection handled between the steps of an off leaves the earphone
advertising while it is off, and another off does not repair it; a profile switched
there and back before its disconnection is handled leaves the module off; a
switch-on that comes while a switch waits for its disconnection leaves the state
ADV with a silent controller; a connection handled amid `clear_bonding_info`
saves the bond again.

**DuplexEarphone.** `IDEV_INIT_OK` asks for the media before there is any link, so
`SoundFollowsLink` asks for silence only after a link has `ended`, and in the plain
build. A tone takes the decoder's output from the media and `app_core` waits for
it; the decoder forgets its volume at each start. Volume commands exist in the
plain build only.

**WirelessEnc, WirelessAudio.** The encoder's handler is one step; the keep-alive
timer of the dongle runs in `app_core` and is cut wherever the encoder can
interrupt it: number, command, length and buffer are read and written
separately, with no lock. The command comes from the key's `hdl->command` or, in
the dongle and in the LiteEMF build of the earphone (`callback`), from
`sdk_rf_tx_buf`, where `hal_bt_uart_tx` sets the length and then copies
(`CommandLength`, `CommandCopy`) and the callback tests the length, copies and clears it
(`TimerTest`, `TimerTake`, `TimerClear`; whole inside `Encode`). One
`hal_bt_uart_tx` runs at a time: its caller is the LiteEMF library. `raced` collects
the commands sent while two tasks were handing them over. Frames and commands are
numbered, so that order and repetition can be seen; the packet number is a `u8`
scaled to `SeqMod`. A frame can be dropped, and a command lost or overtaken, when
the encoder interrupts the timer; that is why the properties ask for order and at
most once, not for delivery.

**WirelessDec, WirelessRx.** `FrameWrite` is `adapter_wireless_rx_write`, whole: the
Bluetooth task is never interrupted by the other two. The decoder's fetch is cut
where it enables interrupts, open and close between their statements. The audio
library (external) grants the output and takes it back from calls of
`app_core`. `adapter_wireless_dec_start` leaves `wait_resume` as it was, and the model
too. The write copes with a decoder that is not published or not started by
returning. `played` and `obeyed` record the packets decoded and the commands carried
out; `FramesOf` the packets played, in the decoder's hands and waiting (`Taken`) is
what the sink has accepted.

**Charge, VbatCheck, PowerManage.** The build is that of the br28 earphone boards
without LiteEMF (which turns `TCFG_CHARGE_ENABLE` off). `Ldo5vDetect` is one sample of
the 2 ms scan; `Counted` what happens when a level has been seen long enough.
`DriverCleared` and `VbatCleared` say what a reset wipes; `charger` is the one
register that outlives it. `app` is where `app_core` is: the places of `board_init`,
`app_init` and `app_main` where it looks at the input, the two applications, the
tone of `app_main_run`, the two delays of the half-inserted plug's timer
(`keep`), and the way down (`leaving`). Six
samples of the battery are one step. The soft-off and its wake-up ports are a closed library:
off, the earphone starts at a key or a change of the input. `missed` and
`early` are history variables for two windows: a change of the input after
`charge_init` has read it and before `init_ok` starts no scan (`missed` stays set until
the next reset, and `ChargerFollowsPlug` says nothing of such a start), and `app_main` may choose by a
level that is already gone, which no event will tell (see `power_dead`). Left out are
the test box, charge boxes, levels for the phone, `detect_stop`; the automatic
shut-down is compiled out (`#if 0`).

## 3. What is checked

| run | states | question |
|---|---|---|
| `process` | 353 k | Is the process right for every order of device events, decoder errors and selections? Does it implement `MediaSession`? |
| `ble_client` | 982 k | Does the client, whose calls are interrupted at every statement, agree with the controller, look for its peer while switched on, and get a link? |
| `ble_off` | - | *Expected violation*: the module switch does not hold back a report that is already queued. |
| `dongle` | 1.5 M | Do sound, device marks and `wireless_conn_status` follow host and link whenever nothing is on its way? |
| `dongle_live` | 510 k | Does the sound come up, and go down, once the environment has settled? |
| `wireless_tx` | 4.4 M | Is any frame taken twice or out of order, any command obeyed twice that nobody was handing over, with encoder and timer in one unlocked buffer and a lossy radio? |
| `wireless_rx` | 151 k | Does the receiving end implement the abstract sink, never write into freed memory, and never sleep for good? |
| `wireless_parse` | - | *Expected violation*: a packet written while the decoder is being opened keeps its command bytes. |
| `earphone` | 3.7 M | Do handle, profile, advertising, sound and volume follow callers and link whenever nothing is on its way? |
| `ear_usb_mode` | - | *Expected violation*: USB mode chosen while a link is up stays silent. |
| `power` | 278 k | Does the earphone charge exactly when it should, through bounces, starts, resets and power-offs? |
| `power_dead` | - | *Expected violation*: an earphone with a low battery and no charger that never goes off. |

The properties, in the order of what they are worth:

- `MediaFollowsWorld` (dongle): in a quiet state sound is on *exactly* when the host
  streams (a lost microphone does not count) and the peer's link is settled, unless a
  decoder failed. It ties three
  tasks' state together through two layers of events. `SoundFollowsLink` says
  the same of the earphone, with profiles, selection and tones in the way.
- `ChargerFollowsPlug`: however the plug bounced, before, during and after
  starts and resets, an earphone with every event served plays only unplugged
  and is in the charging application only while it charges.
  `OffStillCharges` (`app_charge.c:303`): every way off leaves the charger of a
  plugged-in earphone on. `PlugCharges`, `LowPowersOff`: liveness of the same.
- `PlayedInOrder`, `ObeyedOnce` and the refinement `RxImplementsSink`: the two ends of
  the audio link, composed through `AudioSink`.
- `SleeperIsAwaited`, `FramesAreTaken`: `wait_resume` decides between two callbacks
  which of them wakes the decoder; none leaves it to the other in vain.
  `WriteFindsBuffer`: the flag `start` alone keeps the Bluetooth task out of the freed
  buffer.
- `AdvertisesAsAsked`, `ForgottenLinkEnds`, `ProfileAgrees`, `HandleAgrees` (server).
- `CopiesAgree`: the application's copies of the host's and the link's state are
  right in every quiet state, with shared requests and doubly reported
  disconnections.
- `MicServed`: the application serves the microphone the host wants *exactly* unless
  the host last opened it amid the callback of the close timer. The code has the two
  windows of section 2; `MicServed` says what they cost and that there is no other.
- `VolumeKept`: the earphone ignores a volume equal to `cur_music_vol`; that copy is never
  stale when nothing is on its way, though starts and tones reset the decoder.
- `SilenceExplained`, `SelectionHonoured`, `MediaNeedsBoth`, `OpenHasMode`,
  `RestartOnlyThroughClose`, `SessionSpec`: the adapter process.
- `HandleAgrees`, `OneAttempt`, `KeepsLooking`, `Reconnects`: the client.
  `HandleAgrees` holds whatever a handler interrupts; `OneAttempt` excludes `overtaken`,
  `KeepsLooking` and `Reconnects` exclude `spoiled`.
- `SoundComesUp`, `SoundGoesDown`: liveness of the dongle.

Each property has a mutant of the code in `PROJECT.json` that breaks it, e.g. a
close that keeps its device marked, a handle not cleared, a test of
`charge_event_flag` moved behind the end of the scan.

### Bounds, and why they are enough

- `process`: `QMax` 10, `NotifyMax` 3: devices post while fewer than three
  events wait; the four events of a selection fit on top, twice. A handler looks
  at one event and three bits of state, so two pending rounds show every order.
  `ListNum` 2 and the selections 0 and 1 are those of the earphone
  (`duplex_earphone.c:802`, `hal_bt.c:151`), the only product that selects.
- `ble_client`: `HciMax` 1: a report of the peer comes while nothing waits in front of
  it. It may then wait through any calls and be followed by any connection
  events, which the bound does not touch, so a report is still handled after a state
  change it knows nothing of. What the client posts is taken before it goes on
  (`AppDrains`): nothing in it reads the queue; the composed runs keep the queue.
- `dongle`: `InputMax` 3: open-close-open by the host, which is what the windows of the
  close timer take, a link loss between an open and a close, a switch-off during a
  connection, a failure and a recovery. `QMax` 6: a disconnection's four events and a
  reconnection's two fit at once; `QMax` 8 (4.6 M states) was checked once with the same
  result. `MCView` leaves out the client's history variables (`rejected`, `overtaken`,
  `spoiled`), of which no step of the dongle and no property but their type depends. `MCSpec` gives the LiteEMF build
  (`WIRELESS_PAIR_BONDING`) one move fewer. `SofFills` is `{FALSE}`: with
  `USB_SOF_FILL_DATA_MODE` the only difference is that `SpeakerClose` is never taken, so
  every behaviour of that build is one of this build too; the theorems have
  both.
- `dongle_live`: the plain build; of the moves only the first may be the user's, and
  none is the power-off, of which neither property speaks (`LiveSpec`).
- `earphone`: `InputMax` 3: a link loss or a call, a second call in the middle of its
  consequences, and a third. `NotifyMax` 4 of `QMax` 5 leaves the room a
  handler's own posts need. Two volumes: the same and another one.
- `wireless_tx`: `SeqMod` 3 wraps and meets its numbers again (4, with 9.5 M states, was
  checked once); three
  frames and two commands; one packet (`AirMax`) in the stack while the next is built.
  The real range of 256 only makes equal numbers of different packets rarer.
- `wireless_rx`: `Cap` 2 and `Limit` 2 (`frame_num_limit`), so that the buffer is
  full exactly when the decoder is waited for; packets with any of three
  numbers, with or without frame and command; three of each
  recorded (`HistMax`).
- `power`: `MoveMax` 3 changes of plug, battery and key, at any moments: plug in, pull, plug in
  again; `MoveMax` 4 (1.2 M states) was checked once for the invariants. A filter of
  1 (two samples) stands for 50, 220 and 120 samples: the proofs
  cover the real ones. `LowUnits`, `WarnUnits`, `NormalUnits` are 1, 3 and 1 for the code's 6, 5
  and 2. `UnitMax` 2: the battery is judged while fewer than two events wait.

### Fairness

Only what the scheduler owes is assumed.

- `ClientFairness` (`ble_client`): the application finishes the call it is in, the stack's
  task runs, the controller ends a creation one way or the other, and a peer in
  range advertises again and again (strong fairness of its reports, as the queue in
  front of them may be full). Switching on, debonding and link losses are
  never owed.
- `DongleFairness`: the application task, the stack's task and the timer each take
  their next step eventually; nothing is owed by the host, the user or the
  radio, so `SoundComesUp` assumes the link ready for good.
- `RecFairness` (`wireless_rx`): the decoder task is scheduled and the output plays
  what it has. That packets keep coming is a premise of `FramesAreTaken`.
- `PowerFairness`: `app_core` runs its start, its handlers and its timers, and the two
  timer interrupts come. The battery's check has strong fairness because
  the bound `UnitMax` of the model, not the code, disables it while events wait.

### The disagreements found

- `ble_off`: `bt_ble_adv_enable` and `ble_module_enable` are commented as the switch
  of the module (`le_wireless_mic_client.c:1555`, `:1561`). `bt_ble_scan_enable` honours
  it, `client_create_connect_api` does not: a report that is in the controller's
  queue when the module is switched off still creates a connection.
- `wireless_parse`: `adapter_dec_jla_open` publishes its decoder (`adapter_dec_jla.c:78`)
  before it registers the command parser (line 84). A packet written in between is queued
  with its command bytes and decoded as audio; the command is lost.
- `ear_usb_mode`: `hal_bt_enable(0)` with a link up asks for the disconnection and posts
  the reopening of both devices at once. The disconnection comes later and closes
  the input device again, for good.
- `power_dead`: a charger pulled less than the 240 ms of the OFF filter before
  `app_main` chooses leaves the earphone in the charging application with
  nothing plugged in and no event to come. The battery's watch then ends itself in a
  `POWEROFF` this application does not take.

Interruptions that the properties exclude by name, because the code has them. No doc or
comment promises otherwise, but for the command that is "cleared to prevent it being
sent again" (`adapter_wireless_enc.c:168`), so they are hazards of `PROJECT.json`
and not expected violations:

- *`ble_disconnect`*: `HCI_EVENT_DISCONNECTION_COMPLETE` handled between its test of
  `con_handle` and its `set_ble_work_state` (`le_wireless_mic_client.c:894`, `:897`)
  leaves `SEND_DISCONN` with handle 0. Switched on, neither `bt_ble_scan_enable` nor
  `client_create_connect_api` acts in that state: the dongle never reconnects
  (`spoiled`). `HandleAgrees` and `CopiesAgree` hold all the same.
- *`bt_ble_scan_enable` from the application*: an advertising report handled between the
  test (`:1208`) and `set_ble_work_state` (`:1229`) starts a connection, and `CREATE_CONN`
  is then overwritten by `SCAN` or `IDLE`; the next report asks for a second one, which the
  controller refuses (`overtaken`).
- the same function, switching off: a handler that runs between `IDLE` (`:1229`) and the
  command (`:1234`) sets `SCAN` and starts a scan that the command stops.
  The client believes it scans and a later switch-on does nothing (`spoiled`).
- *the close timer of the microphone*: both windows of section 2 (`lost`).
- *a command*: the encoder sends the command the timer has copied and not cleared, a
  second frame is lost on the air, and the timer sends its copy under a new number:
  obeyed twice. Or the timer clears the length of a newer command, which is
  lost. Or the command before is sent again, once `hal_bt_uart_tx` has set the length
  of the next one (`raced`).

Seen while reading and not part of any run: `adapter_wireless_dec_start` does not
release the delay filter when `audio_decoder_start` fails
(`adapter_wireless_dec.c:1016`); a `POWER_WARNING` queued behind a `POWER_NORMAL` restarts
`lowpower_timer` for good, which has no visible effect.

## 4. What is proved

Every safety property that a run expects to hold, both refinements and the action
property are theorems of the specification they are checked of. The runs are
small instances; the theorems hold for every value of the constants that the
named ASSUMEs of the modules allow. `CopiesAgree`, `MediaFollowsWorld`,
`SoundFollowsLink` and `VolumeKept` are proved of the build without
`ALWAYS_RUN_STREAM`, which is off in every board file; the rest is proved of both.

### `AdapterProcessProofs`

For every `QMax`, `NotifyMax`, `ListNum`, set of modes and of selections, and both
values of `AlwaysRun`:

- `Inductive`: `Spec => []IInv`; from it `TypeCorrect`, `MediaOnlyWithBoth`,
  `OpenDeviceHasMode`, `SilenceHasCause`, `SelectionIsHonoured`;
- `NoRestart`: the action property `RestartOnlyThroughClose`;
- `ImplementsSession`: the refinement of `MediaSession`.

*Assumptions*: the named ASSUMEs of `SysEvent` and `AdapterProcess`: bounds are
naturals, modes are a subset of `0..254` (a `u8` that is not the sentinel
`0xff`) with 0 among them, selections are naturals with 0 among them, `ListNum`
is positive.

*The argument.* `IInv` is the type invariant, the five properties, and
`LockFree`: `media_lock` is 0 between handlers. None of the properties is
inductive alone. `SilenceExplained` needs `LockFree` (with the lock taken, the
second open would start nothing) and `MediaNeedsBoth` (an open that is ignored
because both devices are open must not hide a lost start). `SelectionHonoured`
and `SilenceExplained` need the lemmas on the queue: a close once posted stays
(`PostedWaits`, `PostKeeps`) until it is the one taken (`TakeKeeps`); taking it
removes a device and stops the media. `DispatchKeeps` has a case per event;
`DispatchIsSession` maps each handler to `Open`, `Shut`, `Interrupt` or a
stutter of the session. `AlwaysRun = TRUE` (`ALWAYS_RUN_STREAM`, off in every
board file) is covered by these proofs only; the runs have it FALSE.

### `WirelessDecProofs`

For every `Cap`, every `Limit` up to it and every set of packets, `RecInductive` proves
`RInv`, from which `RecTypeCorrect`, `WritesFindTheBuffer` and `SleepersAreAwaited`
follow. `RInv` adds to the stated properties that `start` is set only between the
decoder's opening and its stop (`StoppedMeansStopped`), which is what keeps writes out
of a freed buffer, and that a frame taken off the list belongs to a decoder
that is started, awake and has nothing left to put out (`HolderIsAwake`), without
which the last step before sleep could forget one.

### `PowerManageProofs`

For every filter of the input, every threshold of the battery's watch, every
length of the queue and any number of moves, `PowerInductive` proves `PInv`. From it
follow `PowTypeCorrect`, `ChargerIsRight` (`ChargerFollowsPlug`) and `OffKeepsCharging`
(`OffStillCharges`).

*Assumptions*: the named ASSUMEs of `Charge`, `VbatCheck` and `PowerManage`: filters,
thresholds and bounds are naturals, the queue holds at least one event.

*The argument.* `ChargerFollowsPlug` speaks of states without events only, and is far
from inductive. `PInv` says of each level the scan has counted what is still
ahead because of it: its event waits, or the timer or the way down it starts is
under way, or the charger and its LDO are on (`InHeard`, `InCharges`, `KeepHeard`,
`OffHeard`). When a handler takes an event of *another* level than the one counted last,
`LastTold` guarantees that the last one's event is still behind it: this is
why the order of the queue matters, and why `FollowsTail` and its neighbours are the
lemmas the proof rests on. `MadeOut` says that without a scan `charge_flag` and
`charge_online_flag` are the input's; `Initialised` and `Fresh` that nothing older than
the last reset is believed; `FullIsCharging` that the end of a charge is reported
with the charger on only, so that the way off of a full battery leaves it on.

### `QueueFacts`: what a queue still tells

The tasks tell each other of a change by posting it, and every copy of a state in
this firmware (`con_handle`, `dev_status`, `wireless_conn_status`, the stream
statuses) lags behind by what is in a queue. `Tells(q, Yes, No, was, is)` says that
a reader who believes `was` of a fact, and reads all of `q`, where the messages `Yes` assert
and the messages `No` deny it, comes to believe `is`. With an empty queue it
says that the copy is right, which is what the properties ask of quiet states; at any time
it is kept by posting the truth, by taking a message and believing it,
and by messages that are neither. The lemmas say so once, for every queue.

### `BleClientProofs`

`ClientInvariant` proves `BleInv` for every set of builds and every `HciMax`;
`HandleAlwaysAgrees`, `OneAttemptAtATime` and `AlwaysKeepsLooking` follow.

*The argument.* `HandleFollows` is `Tells` of `con_handle` and the link, and
`UpdateFollows` says of failures and updates still unhandled which report they
are older than (the dongle's proof needs it). Neither depends on the calls, which is
why `HandleAgrees` needs no exception. `LookState` ties the state to switch, scan and
handle, and names the statements of a call at which it does not: `appPc` is
part of the invariant, so that what a call has tested is known to hold still, or the
interruption that ended it is `spoiled`. `EndIsReported` says of a state that waits for
a report that the report is to come; it needs no exception. `AttemptInv` is about builds
without `WIRELESS_PAIR_BONDING`, where nothing cancels a creation, and claimed until
`overtaken`: of creation, link and unhandled reports there is one at a time
(`OneReported`), and meanwhile the state keeps the client from another (`InHand`). In a
build with it clearing the bond cancels a creation, a second one may be asked for
and refused (`rejected`), and the theorem, like the property, says nothing of it.

### `DuplexDongleProofs`

`DevicesKept`, for both builds of `ALWAYS_RUN_STREAM`: process, USB device and client
keep their own invariants in the composition (`DeviceInv`). `DongleTyped` and
`DongleIsSession` follow, the last from
`StepIsSession` of the adapter process: what application and devices add
to it posts events and never touches marks or media.

`MicAlwaysServed`, also for both: `MicInv` says that a microphone the host wants is open,
lost or being closed by the callback, and `StreamsTold` that the interrupt's and the
timer's events will tell `app_core` of the streams. While the callback has a `MIC_CLOSE`
still to post (`Closing`) it says nothing of how the microphone ends up, only that what
is told last is one of the two; after that, that it is the stream unless `lost`.

`DevicesAgree`, without `ALWAYS_RUN_STREAM`: `WorldInv`, from which `CopiesAlwaysAgree`
and `MediaAlwaysFollows` follow. The copies are up to two queues away from the
world: `StreamsTold` is the events and the stream statuses, `IdevTold`
the requests `app_core` posts to itself because of them and the device's mark;
`OdevTold` and `ConnTold` go in two stages, by way of what the stack has `said`
last: the controller's reports take that to the link (`OdevSaid`, `ConnSaid`), the
adapter events take the marks to it. `ble_disconnect` says that the link is gone before it
ends it, and a connection can complete in between; then what was said is wrong until
`DiscOp` ends that link, and the invariant says so: it names the two statements.
The doubled reports of a disconnection (`GoneTwice`) are harmless because telling the
same twice tells it once. With `ALWAYS_RUN_STREAM` a close is ignored and the marks
are not meant to follow; the hypothesis is the build, not a bound.

### `DuplexEarphoneProofs`

`EarphoneInvariant` proves `EarInv` in every build, for every interleaving of the
stack's task with the callers; from it `EarphoneTyped`, `HandleAlwaysTold`,
`ProfileAlwaysSwitched`, `AlwaysAdvertisesAsAsked`, `ForgottenLinkAlwaysEnds` and
`EarphoneIsSession`. Without `ALWAYS_RUN_STREAM`, `SoundAlwaysFollows` and
`VolumeAlwaysKept`.

*The argument.* A call is the list `todo` of its steps left, and the invariant says of
each that may be its next step what is true there (`CallInv`): which copies are
behind (`AdvOnPlaced`, `OffPlaced`, `SwitchTold`), and which tests the call has already made
still hold (`TestsHold`). `CallInv` is claimed as long as no report has come amid
a call or a switch (`raced`, the windows of section 2); handle and profile, `HandleTold`
and `ProfileTold`, hold without that exception. `LinkTold` and `OdevTold` are the two stages of the dongle again. `VolumeInv` has
to know of the future: a start of the decoder forgets its volume, so `OpensOnce`
and `StartsForgotten` say that the events that could start it after a
volume was set do not find it running, or are not there.

The proof found a definition no run had shown to be loose: the cases of `DecVolAfter`
overlapped, and TLC takes the first that holds where the logic leaves the choice open. They are
now tested in the order of the code.

### `WirelessAudioProofs`

`AudioInvariant` proves `AudioInv` for every range of the number above 2 (the code's is
256), any number of frames, commands and packets in the stack;
`AlwaysPlayedInOrder` and `AlwaysObeyedOnce` follow.

*The argument.* Frames do leave twice: the encoder interrupts the timer's callback,
which then pushes what the encoder left in the buffer. The receiver compares a
number with that of the packet before, no other. So it is right only because the two
packets are neighbours and have the same number (`SentOnce`), also once the first is
taken (`TakenOnce`) - lost packets, the wrap of the number and a sender that starts over
change neither. `FrameRepeats` and `CommandRepeats` say of the buffer the callback is
about to push that what has been sent of it was sent last, with the number it has, and of
a command it has only tested or copied that it has not been sent; `CommandWaits` that
a command not yet taken is nowhere else. All this is said of commands outside `Raced`:
one whose hand-over was interrupted joins it at that very step, so the others
keep the whole invariant. While `hal_bt_uart_tx` copies, the last command there can be is
the one before (`LastCopied`).

### `WirelessDecProofs`, the refinement

`ImplementsSink` proves `RxSpec => RxImplementsSink`: opening is `Reopen`, a packet is
`Take` or nothing, the freeing of the receive buffer `Discard`, everything else a
stutter. `FramesOf` drops the packets without a frame, and is a
recursive function; what it does with a longer or a shorter list is induction on
data. `SetInduction` makes that a statement about a *set* of naturals, from the library's
theorem that a set of naturals has a least element, so that no theorem with an operator as
parameter is needed; `FramesDefined` (the recursive function exists), `FramesOfAppend` and
`FramesOfFewer` are proved with it.

### Only model-checked

Liveness: `Reconnects`, `SoundComesUp`, `SoundGoesDown`, `FramesAreTaken`,
`PlugCharges`, `LowPowersOff`; liveness under fairness and ENABLED are outside the prover's
reach. The four expected violations are counterexamples, found by TLC. No
recursive operator is used anywhere; the one recursive function is `FramesOf`.

The inductive invariants were checked by TLC on small instances before they were
proved, `AudioInv` with up to three frames, the dongle's with up to 5.9 M states.

## 5. What is not modelled

- Contents: audio data, codec parameters, advertisement payloads, RSSI
  filters (a report matches or does not), voltages, log and UI output.
- BLE: the enhanced connection-complete event (`le_wireless_mic_client.c:1010`) and a
  failed connection's status in the server, which a library decides between;
  parameter and PHY negotiation; attribute traffic; the advertising and test-box
  timeouts.
- The microphone reopened with other parameters within its delay
  (`uac_stream.c:426`), microphone volume, volume keys, the power-off key's counter.
- The UAC ring buffers (`uac_stream.c:243`, `adapter_dec_uac_spk.c`,
  `adapter_enc_uac_mic.c`): audio data between an interrupt and two tasks.
- The key table (`app_key.c`), the duplex mode switch and its kept mode
  (`duplex_mode_switch.c`), the microphone input device.
- The classic Bluetooth output device, not reachable in this product, and with it the
  asynchronous prepare of the process.
- The tone decoder's internals (`adapter_dec_tone.c`); the mixer.
- Overflow of the event queue; charge boxes and the test box; the LiteEMF library;
  the vendor 2.4 GHz pairing library; OTA; HID.
- The great rest of the repository by size - audio effects, LED and motor drivers, USB
  host storage, SDK headers, the mesh and cloud profiles under
  `third_party_profile/` - is not part of the wireless duplex product's control.

## 6. Plan

1. *Done*: adapter process, dongle, earphone, audio link, charger and power
   management, each with its safety proved.
2. `DuplexLink`: client and server over one lossy link, in place of the
   willing peers; that both ends agree on being connected.
3. `UacBuffers`: the circular buffers, their fill control and close while an
   interrupt writes.
4. `ModeSwitch`: the duplex mode kept across the reset it causes; the power-off key's
   counter.
5. `AdapterProcess` with the asynchronous prepare of the EDR output device.
6. Proofs: what `ALWAYS_RUN_STREAM` leaves of `CopiesAgree` (the link's half of it);
   the audio link from end to end, encoder to list, in place of encoder
   to sink and sink to list.
