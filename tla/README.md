# TLA+ verification of the AirGradient Go firmware

This directory holds TLA+ models of the firmware in `products/go/main` and of the
components it is built from, TLC configurations that check them on small instances,
and proofs, checked by TLAPS, of the theorems that matter most for every value of the
constants. Paths in this document are relative to the repository's `src/`; where only
a file name is given, it is in `products/go/main`.

## 1. The system

The Go is a battery-powered air-quality monitor with an e-paper display, touch
buttons, BLE, GPS, and NAND flash for recorded routes. It runs on a single-core ESP32
under FreeRTOS. The *main task* boots the device along one of three paths (`go_app.cpp`)
and then runs the event loop of the `Orchestrator`; every other task posts events to
its queue (16 deep) and is told what to do by notifications, flags and mutexes.

| Task | Priority | Talks to the main task by |
|---|---|---|
| main: `GoApp`, `Orchestrator` | 1 | the event queue, emptied one event at a time, then `check_timers()` |
| GPS (`gps/gps_service.cpp`) | 3 | `GpsFixUpdate` events; a semaphore on its way out |
| display worker (`go_display.cpp`) | 4 | the flag `_worker_busy`, one frame buffer, a notification |
| sensor producer (`go_sensor_producer.cpp`) | 5 | one notification slot in, events out |
| input (`go_input.cpp`) | 6 | events; interrupts queue edges to it |
| NimBLE host (`go_ble.cpp`) | high | events, one pending-write buffer, two atomic flags |

State lives in four places, and most of what can go wrong is about their agreement:
RAM (lost in deep sleep), RTC memory (survives deep sleep, lost in any other reset),
NVS (settings), and the NAND flash (routes; a point is certain to be there only after
`end_route()`).

## 2. Components

| Component | State it keeps | Operations | What makes it correct | Status |
|---|---|---|---|---|
| Payload cache (`components/airgradient-payload-cache`) | ring buffer, its copy in RTC memory | push, pop, clean, backup, restore | a bounded FIFO that drops the oldest entry and survives deep sleep | modelled, proved |
| Route storage (`go_storage.cpp`) | open file, session, point count; the files | mount, start, append, end, delete, clear | a route is an append-only log of which only a reset takes unsynced points | modelled, proved |
| Device life cycle (`go_app.cpp`, `go_orchestrator.cpp`, `go_power.cpp`) | mode, settings, lock, tracking; RTC state | three boot paths, all handlers, sleep, ship mode, reset | GPS, BLE and the route file follow settings and tracking; the device records exactly the session the user wants | partly, proved |
| Sensor scheduling (`go_orchestrator.cpp`, `go_sensor_producer.cpp`) | timers, pre-wake flag, PM power rail, notification slot | check_timers, on_sensor_data, warmup, measurement, calibration | measurements go on; the PM sensor is powered and warm when read, and rests in between | modelled, proved in part |
| BLE history (`go_ble.cpp`) | export, pending write | list, start, fill, end, delete; connect, disconnect | the phone files only stored points, a download can be completed, no request is forgotten, no stream blocks for ever | modelled, safety proved |
| GPS service (`gps/`) | task, serial line, clock source | start, stop, stop and idle, aiding, fixes | one user of the serial line; the receiver rests when it should; the better time wins | modelled, safety proved |
| User interface (`go_ui.cpp`) | screen, cursor, copies of settings and tracking state | inputs on eight screens, lock, passkey | menus act on the settings and tracking state in force | partly, proved |
| Display service (`go_display.cpp`) | last frame, refresh tier counters, worker | update, worker loop, stop, deep sleep | the last frame stays on the panel in sleep; stale icons are remembered and repaired | partly, proved |
| Settings store (`go_settings.cpp`, NVS) | the keys | load, save | all or, on failure, a prefix is written | in `GoDevice` only |
| Power service (`go_power.cpp`) | RTC state, ship mode, rails | save and load state, sleep, BMS polling | see the device life cycle and the power path | in `GoDevice`, `SensorScheduling`, `PowerPath` |
| Input service (`go_input.cpp`, `components/airgradient-touch`) | raw queue, press timers, suppression, touch debounce; the touch chip | interrupts, task, start, stop | one press is one event, a long press is held, the touch pads come back | modelled (the chip partly), proved in part |
| Sensor manager and drivers (`components/airgradient-sensors`) | measuring flags, last values, calibration in progress | warmup, measurement, calibration; read, start, stop, restart | sensors resume, no stale value passes for a fresh one, a success is one | partly, proved |
| Cellular modem (`components/airgradient-cellular`) | operators found, index, last operator; the serial line | registration, GET, POST | a usable operator is found; a response belongs to its request | partly, proved in part; no product links it yet |
| RTOS wrapper, BLE server, NAND driver | handles | thin wrappers | - | external: modelled where they are used |
| Power path (`go_power.cpp`, BQ25629 driver, `go_ulp.cpp`) | remembered PMID modes, charger registers, owner of the watchdog pin | set-up, polls, pulses, LP core, power-off | the PM rail follows the power source; a working or sleeping device is never reset, one switched off stays off | modelled, proved in part; battery values are not |
| GPIO and serial drivers, other BMS drivers | registers | one transaction per call | - | not modelled: pure I/O |
| Reference product, vendored code | - | - | - | not modelled |

The behaviour that is hard here, and hard to test: a phone's callbacks run between any
two steps of the main task; several copies of one state (settings in NVS, RAM and the
menu; tracking in RTC, RAM and the display; a header on the panel and in the service)
are updated in different handlers; wake-ups enter through three paths; one-slot
mailboxes overwrite; a busy display drops frames; contacts bounce while the input task is
late; an answer of the modem does not say what it answers; a reset, a full flash, or a
sensor or receiver that does not answer may come between any two steps. `PROJECT.json` lists each such
hazard with its line and the properties aimed at it.

## 3. Modules

| Module | Models | Composed with |
|---|---|---|
| `BoundedFifo` | what the cache promises: a queue that drops its oldest entry | - |
| `PayloadCache` | the ring buffer and its RTC copy | implements `BoundedFifo` |
| `RouteLog` | what route storage promises: append-only logs, one writer | - |
| `RouteStorage` | files, stdio buffer, point count, with failing flash | implements `RouteLog` |
| `GoDevice` | boot paths, handlers, sleep and reset | EXTENDS `RouteStorage` |
| `SensorScheduling` | timers of the main task and the producer task, in ticks | - |
| `HistoryTransfer` | NimBLE task, main task and phone | - |
| `GpsService` | main task and GPS task on one serial line | - |
| `UserInterface` | screens, menu copies, BLE events that reach the screen | - |
| `DisplayService` | update, tiers, worker task, sleep and power-off | - |
| `InputService` | interrupts, contacts, touch chip and input task, in ticks | - |
| `SensorReading` | sensor manager, drivers and sensors | - |
| `NetworkRegistration` | the registration loop and the networks around the device | - |
| `ModemHttp` | GET and POST over a serial line with late answers | - |
| `PowerPath` | charger, PM rail, external watchdog and LP core, in ticks of a minute | - |
| `PayloadCacheProofs`, `RouteStorageProofs`, `GoDeviceProofs` | the theorems of section 6 | EXTEND their module |
| `ModemProofs` | those of `NetworkRegistration` and `ModemHttp` | EXTENDS the two |
| `ServicesProofs` | those of `GpsService` and `HistoryTransfer` | EXTENDS the two |
| `MainTaskProofs` | those of `UserInterface` and `SensorScheduling` | EXTENDS the two |
| `PeripheralsProofs` | those of `DisplayService` and `PowerPath` | EXTENDS the two |
| `SensorInputProofs` | those of `SensorReading` and `InputService` | EXTENDS the two |
| `MCServices` | `GoDevice`, `GpsService`, `HistoryTransfer` | EXTENDS the three |
| `MCComponents` | `PayloadCache`, `RouteStorage`, `NetworkRegistration`, `ModemHttp`, `SensorReading`, `InputService` | EXTENDS the six |
| `MCMainTask` | `UserInterface`, `SensorScheduling`; the values a client writes | EXTENDS the two |
| `MCPeripherals` | `DisplayService`, `PowerPath` | EXTENDS the two |

The `MC` modules are sums, not products: a variable that never changes says which part
runs in a behaviour, and the others stay as they are. The parts interact only
through calls and events that each model leaves open (a start or stop of GPS, a history
request, a measurement request), so running them together would multiply the states and
show nothing about any one of them that the sum does not. The specifications of the parts
can be checked alone with the same constants (`Spec`, `GpsSpec`, `HistorySpec`, ...), and the
theorems are about those. What does interact through state is in one module: the route
files in `GoDevice`, the tasks and their peers in each service's module.

How state and actions correspond to the code; `map` in `PROJECT.json` gives the lines
of every definition.

**PayloadCache.** `head`, `tail`, `payloads` are the members of the same name, `rtc` is
`s_payload_cache_storage`. Every operation ends with `Backup`, as in the code.
`WakeFromDeepSleep` constructs a cache and restores it; `Reset` also clears RTC memory.
The slots outside `head..tail` are kept as they are: `clean()` erases only the copy's.

**RouteStorage.** `disk` is what a reset cannot take, `buffer` what `fwrite()` accepted since
the file was opened. `StartRoute` refuses when a route is open, opens an existing file for
appending and derives the point count from its size; `LoseBuffer` keeps any prefix of
the buffer. `NandFaults` says which calls may fail. `end_route()` and `clear_routes()` look at
no result of `fflush()`, `fsync()` and `fclose()`, so where writes may fail `Closings` has, beside
the whole buffer, every prefix of it; a failed `fwrite()` drops the point, and may take some
of the buffer with it. A `stat()` that fails for an existing file makes `start_route()` open
it with "wb", which empties it. The ghost `failed` remembers which of the two happened.

**GoDevice.** One action per boot path and handler. `nvs`, `rtc` and `app` are the three
copies of the application state; `gpsTask` and `ble` the services that must follow it.
A handler that ends in another call contains it: `ClearData` ends tracking, stops GPS if
that makes it inactive, and removes the routes in one step; `Sleep` closes the route and
saves the RTC state. `Fault` names what may fail: the ship mode, a save, the deletion of
bonds, BLE's start, and a client value that `save_go_settings()` refuses; `NandFaults` what of
the flash. The two ghosts
(`recording`, `wanted`) say what the user did, independently of the device's state.
Whether a sleep is long enough to be taken is a free choice.

**SensorScheduling.** Time is counted in ticks since the last measurement. The main task
is prompt: no tick passes while it has an event or an expired timer (`MainIdle`). The
producer takes between nothing and its constant for a reading or a calibration, and
exactly `Warmup` for a warmup. `slot` is the task notification, which every request
overwrites. `pm` distinguishes a sensor without power, a powered one, and a warm one.

**HistoryTransfer.** The stream of a session is one action per turn of its loop and one
per notification, because the NimBLE task may disconnect, reconnect and write in
between; `Activate` is a step of its own because `on_disconnect` writes the same two
fields from the other task. The phone is external and follows the client
specification: one request at a time, points filed under the index of the
notification, a fill of the gaps afterwards. The link may lose any notification.

**GpsService.** The GPS task has the higher priority, so what it does between two waits
is one step; the main task's calls (`stop()`, `stop_and_idle_gnss()`, `idle_gnss()`,
`read_once()`) are split where they wait or use the serial line. Positions and times
carry the number of the activation they were received in, so that a stale one can be
told from a fresh one. The receiver is external: it obeys a command or, a bounded
number of times, does not, and then stays as it was.

**UserInterface.** One action per screen and kind of input. Settings have their real
options; intervals and lock times are in seconds, so that the conversion between a
value and an option is the code's (`OptionOf` rounds up, `ValueOf` does not undo it).
`shownTracking` is the tracking state the menus use, refreshed by display updates only.
The phone appears as the BLE events it causes.

**DisplayService.** A frame is a screen, a body and a header; the panel is a top (status
bar) and a bottom, and a differential refresh changes only the bottom. `Update` is
`update()`: it drops the frame if the worker is busy, else chooses the tier and hands
the frame over. Background updates are suppressed in menus. The worker preempts the
main task (`MainRuns`). `skipped` is a ghost for the one header change that
`_defer_header_check` lets pass.

**InputService.** A button has a contact, which bounces for less than a tick after a press
or a release, and the driver's record of it (`tracked`). An interrupt puts only its source
into `raw`; one action of the task takes one entry, or its time-out, and is the whole turn
of the loop: the event, then `check_pending_long_press()`, then the touch watchdog. The
task reads the contact as it is at that time. The touch chip is external: its interrupt
line falls when a finger comes and again while it stays, interrupts only when it was
high, and stays low until cleared; any transfer to it may fail, and a re-initialisation
that fails takes its handle away. Ages replace the time stamps of the code.

**SensorReading.** One action is one iteration of `start_measures()`, one poll of
`calibrate_co2()`, or one warmup read. For each driver `measuring` is its flag and
`sensing` what the sensor really does; they come apart when a supply sags, the PM rail is
switched, or a command fails after all its retries. `ReadBy` gives each driver's outcomes:
the STCC4 restarts its sensor for the next read, the SPS30 for a second try at once, the
others do nothing. `cache` says whether the values kept for `temp_hum_data()` are those of
this iteration.

**NetworkRegistration.** One action per handler of the loop in
`start_network_registration()`, named like its states. The list, the index and the last
operator stay in the driver when a call ends; `selected` is what the module was told. What
an operator offers is one step of a ladder from "absent" to "good", and changes when the
device moves. A command may fail or time out, and of one that timed out it is not known
whether the module obeyed.

**ModemHttp.** One action per wait of the driver, with the command that follows it. `line`
is what the module has answered and the driver has not read; a wait takes the first
answer it expects and skips what precedes it, or gives up and leaves any of that behind.
Sizes are in half chunks, so that a response ends within a chunk or at its end. Of a chunk
that is asked for the module may return any first part (`SendRead`); the driver takes the
length it is told, and moves on by the length it asked for. `short` is a ghost: it remembers
that a read of this request did not bring all.

**PowerPath.** The charger keeps `otg` and `guarded` (EN_OTG, and its watchdog) through
resets of the CPU; `driverMode` and `serviceMode` are the two remembered modes, which a boot
forgets. `InitBms` stops at the first failed transfer and the boot goes on. A poll is two
actions, the read of the status and what follows it, so that a cable may be plugged in
between. `fed` counts minutes since the external watchdog was pulsed; a pulse counts only if
its sender owns the pin (`pinOwner`). The CPU may leave its timers alone for `MaxAway`
minutes, boots included. External: the charger's watchdog is on when its supply comes back
and clears EN_OTG when it expires, as `bq25629.cpp:830` says; the external one resets the
CPU. A failed transfer writes nothing.

## 4. Runs

| Run | Question | Bounds |
|---|---|---|
| `services` | do services, files and the copies of the state agree across all boots and handlers, and what can take recorded points; is the GPS line shared safely, and does the receiver follow; what does a phone end up with, and is the main task ever stuck? | device: 2 sessions, 2 recordings, 2 points a file, BLE and writes to flash may fail. GPS: 3 activations, 2 failures, 2 queued fixes. History: 2 sessions of 3 points, batches of 2, 2 connections, 2 requests, 1 loss, 1 failure |
| `components` | does the ring implement the FIFO; are route files append-only logs when any call may fail; does the modem find a usable operator, and give each request its own response; do sensors resume, and are their values fresh; is one press one event? | ring of 4, 2 payloads; 2 sessions, 3 points a file, every flash call may fail; 2 operators, 1 failed command, 1 call that times out, 1 move; 4 requests, 1 answer late at a time, reads that come short; 2 iterations, 3 polls, 3 failures; 1 button, 1 bounce a press, 1 failed transfer |
| `main_task` | do the menus act on what is in force, and does the passkey leave; do measurements go on, warm and powered, and does the sensor rest? | menus: 2 changed settings, 2 queued BLE events. Measurements: intervals 2 and 6, threshold 4, warmup 2, each user action twice |
| `peripherals` | does the panel show the right frame, asleep and awake; is the watchdog fed in every phase, and does the rail follow the power source? | display: 2 bodies, 2 headers, full refresh after 2, 1 failure. Power: watchdog after 6 minutes, 1 minute without timers, 3 failed transfers or resets, 3 cable changes |
| `device_refused_save` | is NVS the source of the mode? | violated |
| `sensors_interval` | is a prepared sensor powered? | violated |
| `sensors_calibration` | is every calibration answered? | violated |
| `gps_time` | is a synchronised clock set from this activation? | violated |
| `registration_order` | are the other operators tried when the saved one fails? | violated |
| `touch_once` | is one touch one event? | violated |
| `calibration_refused` | is a calibration the sensor refused a failure? | violated |
| `power_rail` | does the rail follow the power source after any set-up of the charger? | violated |

Why the bounds are enough. The ring of four wraps and overflows, and its two payloads
make any exchange of entries visible. Two sessions and two recordings are what it takes
to confuse one with the other; a third point brings nothing that a second has not
shown. In `services` only writes may fail, because a mount or an open that fails leaves a device that
tracks without a file, which `ServicesFollow` has to allow; the theorems are for every set of
faults, and `components` checks the storage with all of them. With intervals on both sides of the threshold, the sensor is cycled in one and
always on in the other, a calibration of up to twelve ticks covers two measurement
timers, and two changes bring the device there and back. A batch of two in a session of
three has a full and a partial turn; a second connection can meet the stream of the
first; mode changes and requests overlap within the two of each. Three activations of
the GPS let the remains of one meet the next but one, with a failure in each. In the
user interface one event may be queued behind another, and each of the settings can be
written behind the menu by a client and by the user. Two headers and two bodies make a
stale top or bottom visible; the counter reaches both its limit and its saturation
value.

Of two operators one can be saved and the other usable, in either order of the list; a
failed command or a call that runs out of time can fall on any handler, and one move
turns a saved operator into a useless one. The limits of the polls are zero, which allows
both outcomes of each comparison from the second poll on. Four requests let a late answer of
the first reach the three that follow. One late answer at a time is a real limit: with
two, an old `+HTTPACTION` line can be taken for that of the current request, and
`ResponseIsOwn` fails; the driver's waits make that two time-outs in a row that both answer
after all. In the sensors three failures are enough for a sag and a restart that fails in
both its commands; two iterations give a value of the first to the second. In the input
service the press and the release of one button may each bounce and the task be late by
all of the edges of a tick, which fit in the queue of three or overflow it (the code's
queue holds eight); a tick passes only when the task has caught up, because it has the
highest priority of the application and works for microseconds. The two buttons share
nothing but the queue, so one is enough.

In the power path the watchdog's six minutes are the real ones. Three resets in a row, each
in a boot that takes its minute, and the minute before them are less, so what `FedUnlessHalted` shows is
that no phase is without a pulse; the main task has no other bound on the time it is away, and
one that streamed a route for longer would be reset. Three cable changes and three failures
let a change fall between a read and its transfer and the repair fail again.

Deadlock is checked in every run but `services`, `components` and `registration_order`:
the number of connections, HTTP requests, activations and calls is bounded there, and a
behaviour that has used them up may stop. `StopReturns`, `RequestsHandled` and `StreamsEnd`
say of the services that what has begun ends.

## 5. Fairness

Safety properties need none. For liveness:

- *Tasks run when they can*: the scheduler is preemptive with fixed priorities, no
  task spins without a delay, and every wait the models keep (semaphore, notification,
  room for a notification, a busy display) is a condition of the action, not assumed away.
  That is `Stopping` and `Task` of the GPS, `Main` of the history, `Handler` of the
  registration, `ReadingTask` of the sensors, `Prompt` of the input service.
- Measurements: `Tick` is fair, time passes; the user's actions are not fair, so nothing
  relies on the user.
- History: what the BLE stack has accepted is delivered or lost; the phone itself owes
  nothing. A main task that waits for room is released by a disconnection because its
  loop tests the connection.
- Registration: a call runs until it succeeds or its time is over; only its handlers are
  fair. Commands that fail are bounded, and `GetsOnline` is about networks that in the
  end stay as they are.
- Sensors: measurement requests come from a timer, again and again, but the task may be
  calibrating at any one moment, hence strong fairness of `StartMeasures`.
- Input: time passes, though not while edges are being worked off, hence strong fairness
  of `Tick`; contacts settle.
- Menus: queued events are handled, and a pairing ends, because the Security Manager of
  BLE times out a pairing that the phone abandons.
- Display: refreshes end (the driver's wait for the panel has a timeout) and the
  measurement timer keeps bringing readings, without which a dropped frame would stay
  dropped.
- Power path: the main task polls the charger when its timers say so, and a poll ends;
  failed transfers and cable changes are bounded.

## 6. Proofs

Each proof module shows `Init => IInv`, `IInv /\ [Next]_vars => IInv'`, and that `IInv`
implies the properties. TLC checked each `IInv` first.

| Theorem | Module | Statement |
|---|---|---|
| `RingImplementsFifo`, `SleepLosesNothing`, `NoUnwrittenEntry` | `PayloadCacheProofs` | the ring implements `BoundedFifo`; the RTC copy has the same entries; only pushed entries are in the window |
| `StorageImplementsRouteLog`, `OpenFileAlwaysExists`, `CountAlwaysWholeSession` | `RouteStorageProofs` | whatever calls fail, the files implement `RouteLog`; the count is the whole session's, and never less when a write has failed |
| `ServicesAlwaysFollow` (with `GpsAlwaysFollows`, `BleAlwaysFollows`, `RouteAlwaysFollows`), `DeviceTypeInvariant` | `GoDeviceProofs` | services and route file follow the state, under every set of faults |
| `PointsAreLostByFailures` | `GoDeviceProofs` | under every set of faults, points leave a file that stays only in a reset or a failing write, and then the last ones of the open route, or where `stat()` fails |
| `RecordingIsIntended`, `RecordingsNeverSplit` | `GoDeviceProofs` | what is recorded is what the user wants, all of it in one file, if the ship mode works |
| `NvsIsAlwaysTheSource`, `AlwaysWakesInItsMode` | `GoDeviceProofs` | the mode in NVS is the one in force, and the one the device wakes in, if saves work |
| `LineHasOneUser`, `ReceiverFollows`, `FixIsCleared`, `AidingYields` | `ServicesProofs` | the serial line has one user; the receiver follows; no stale position; GPS time stays |
| `PhoneHoldsStoredPoints` | `ServicesProofs` | the phone files only stored points at their indices, if it connects to a device that is done with the phone before |
| `DownloadsAreComplete` | `ServicesProofs` | in the first connection, a download or a fill that ends without an error, loss or failure leaves no gap |
| `IconsAreRemembered`, `SleepingPanelIsCurrent`, `FramesAreNotTorn`, `DisplayTypeInvariant` | `PeripheralsProofs` | the service accounts for every old icon; a sleeping panel shows the last frame; a frame is never replaced while it is sent |
| `NeverBittenOnceUp`, `FedUntilHalted`, `PowerTypeInvariant` | `PeripheralsProofs` | the watchdog never resets a device that has come up, nor one that boots if it waits longer than repeated boots take |
| `JudgedIsSelected`, `RemembersWhatRegistered` | `ModemProofs` | the operator being judged is the one the modem uses; the one remembered did register |
| `ResponsesAreOwn` | `ModemProofs` | a request that succeeds returns units of its own response, in order and each once, whatever was missed or failed before, and without a gap if no read came short; with one answer overdue at a time |
| `FailuresHaveCause` | `ModemProofs` | one that fails has a cause in it or in the request before, or a prompt was once missed, with one answer overdue at a time |
| `SuccessIsDoneOrRefused`, `StaleMeansFailed` | `SensorInputProofs` | a reported success was done, or refused by an S12; a stale temperature comes from a failed read |
| `LongPressesAreHeld`, `OneEventForAPress` | `SensorInputProofs` | a long press was held; a press is reported once, if no edge of a button goes unnoticed |
| `MenuMirrorsSettings`, `ChoiceKeepsOthers`, `TrackingEntryIsTrue`, `LockHidesMenus` | `MainTaskProofs` | for any values a client writes, the menus work on what is in force; a lock hides them |
| `ReadingsArePowered`, `ScheduleTypeInvariant` | `MainTaskProofs` | no reading starts without power or loses it, for intervals with room for a cycle |

Assumptions: the named `ASSUME`s of each module, and nothing else. The ring has at least
two slots and a blank slot is not a payload; the absent session is not a session;
`Fault` is a set of the listed kinds; bounds are natural numbers and the display's
refresh limit is below the saturation of its counter (20 and 255 in the code). The absent
operator is not an operator, the CO2 drivers are the three modelled, the debounce and
long-press times and the raw queue are not empty, and the touch chip is not a button.
These theorems have a hypothesis of their own, which states where the code's claim ends:

- `RecordingIsIntended` and `RecordingsNeverSplit`: the ship mode does not fail. One that
  fails resumes a session that the user has ended (section 7).
- `NvsIsAlwaysTheSource` and `AlwaysWakesInItsMode`: `SavesWork`, no value out of range is
  adopted and no save, deletion of bonds, mount or unlink fails. BLE, the ship mode and writes
  to flash may fail. The first is what the run `device_refused_save` violates: one
  refused value is enough.
- `NeverBittenOnceUp`: `MaxAway < Timeout`; `FedUntilHalted`: `(MaxFaults + 2) * MaxAway <
  Timeout`. In the code the watchdog waits six minutes and a main task that does not stream
  is away for seconds. TLC finds a reset when the second is an equality.
- `ReadingsArePowered`: `RoomToRest`, an interval that cycles the sensor has room for two
  warmups and a reading. With a warmup of 10 s and a threshold of 20 s (`go_power.h:72`) the
  menu's intervals all have it: 10 s is below the threshold, and after 30 s a reading, which
  is as fast as its I2C transfers, may take 10. A client may also set 20 s (`go_settings.cpp:19`
  allows 1 to 3600): then the pre-wake of the second cycle can meet the end of the first
  reading, which switches the sensor off. That boundary is not covered.
- `LongPressesAreHeld` and `OneEventForAPress`: `EdgesQueued`, while the task runs an edge
  leaves an entry of its button in the queue. The code's queue holds eight entries, emptied
  by the task of the highest priority of the application; TLC finds a press taken for a
  longer one when one button's bounces fill a queue of two and hide the other's release.
- `PhoneHoldsStoredPoints`: the index of a notification is wide enough for a stored route
  (`Points <= IndexRange`, 65536 in the code), and `QuietConnects`: no phone connects while
  the device has a request of the phone before, taken or not. A first connection satisfies
  it; section 7 says what happens without it. `DownloadsAreComplete` has the first
  hypothesis only, because it speaks of the first connection.

- `ResponsesAreOwn` and `FailuresHaveCause`: `MaxLate <= 1`. No wait gives up with its
  answer still to come while an earlier answer is overdue. The code does not ensure it, since
  its time-outs are fixed and nothing tells it what the module still owes: the hypothesis
  is about the module, which must answer in time most of the time. Section 4 says what two
  do to the first of the theorems; the second also holds in TLC with two, three or four.

Why the invariants are what they are:

- *Ring.* `WriteThrough` alone is not inductive: the copy must also have the same
  indices, since the next operation works from them. The refinement maps the window
  from head to tail to a sequence; the work is in the lemmas on that window when the
  indices wrap (`ContentsAfterPush`, `ContentsAfterPop`).
- *Route files.* The count is that of the file plus the buffer unless a write has failed, the
  open file exists, and a closed storage has an empty buffer. The refinement maps the log to
  `Recorded`, the points that were accepted, and the safe length to what is on disk;
  `LoseBuffer`, and a write or a close that fails, map to the loss of a suffix beyond it
  (`CutLog`, `SubSeqOfConcat`).
- *Device.* `GpsFollowsActive` depends on how a boot restores tracking, so the invariant
  also says that tracking has a session in RAM and in RTC, that the volume of a running
  device is mounted, and which session the user wants (`Intended`) while asleep. That points
  stay follows from what each step of `RouteLog` may do to a file: leave it, lengthen it, or,
  in a step of a failure, shorten that of the writer (`StepSpares`). That recordings are not
  split needs that no file holds the number of a recording still to come (`NumberedUpTo`),
  and that the number of this one is in no file but its own (`OwnedByWanted`).
  `SettingsAreSaved` makes RAM, NVS and the RTC mode one value wherever they may be compared.
- *GPS.* `HandOver` relates the running flag, the semaphore and the task: whoever closes
  the line has seen the task go. `Line` and `Receiver` follow from it step by step.
- *Transfer.* What the phone holds depends on what is in the air, and that on what the job
  is about, so `Fits` says of every message on its way, in the job or in the air, that it
  belongs to the request the phone waits for and carries points of the session it files
  them under, or will. The last answer of a request is behind everything else, and the job
  has ended when it is sent (`AirFits`): therefore nothing of it can meet the next
  request. `ExportFits` says that an open export is that of the phone, although two tasks
  write its fields. An answer to a `list` is the exception: its later pages may answer
  a second `list`, which does no harm. That a download is complete needs that every point
  is somewhere (`Covered`): filed, on the air, about to be sent, or still to be read. It
  is true as long as nothing went wrong since the phone wrote its request (`Unhurt`). And
  it is not enough, because a phone passes over points of a download it has not seen
  announced: the announcement must be on its way and ahead of the points
  (`AnnouncedFirst`), with the session the phone asked for (`AnnouncedAsked`). For a fill,
  the request must ask for every gap until it is taken (`FillAsksGaps`).
- *Display.* `HandOver` says that a busy worker has the frame or is about to take it, and
  that a worker told to leave has nothing left to take: this is where its priority is
  used, and why `stop()` does not wait for ever. `PanelKnown` extends the property to a
  refresh in progress, and `LastFrame` says what `prepare_for_sleep()` has handed over.
- *Watchdog.* `FedInv` bounds the minutes since the last pulse in each phase by who owns the
  pin; in a boot, which takes it late, by the boots that faults may have repeated
  (`BootBound`).
- *Registration.* `JudgesSelected` is inductive by itself: only `ConfigureManualNetwork`
  enters the states that judge, with the operator at the index selected, and every step
  that shifts the list or the index leaves them. The lemma `KeptInPlace` is the rest.
- *Modem requests.* What makes an old answer harmless is where it is. A stale result of an
  action, chunk or prompt, and an `ERROR`, is near the head of the line, and every command
  that is answered reads the line up to its own answer or an older one: `HttpInv` gives for
  each wait how far such a token can be (`StaleAt`, `ErrorAt`), and none is left when the
  result or a chunk is awaited (`AtUrc`, `AtRead`). The lengths of the line say how many
  answers are behind, which is none if nothing is overdue. That a failure has a cause needs
  in addition that an `ERROR` of the request before is the only one (`Awaits`). Which token a
  wait ends with is not computed but characterised (`Waited`), so no induction over the
  line is needed.
- *Sensors.* That a success was done needs what the S12 flag says of the sensor: a poll
  under way with the flag cleared has met the error bit. That a stale value means a
  failure needs that the values kept are of this iteration if the read did not fail in it.
- *Measurements.* `Cycle` says in which part of the interval each request may wait, the
  producer be busy and an event be queued; the pre-wake and the end of the last reading
  are kept apart by the room in the interval.
- *Input.* `Told`, `Timed` and `Spent` compare the driver's record of a button with its
  contact: they agree unless an entry of that button is still queued, a pending press is
  not older than the contact has been closed, and a reported one is not pending.
- *Menus.* A choice writes every setting from the remembered options, so the menu stays a
  mirror only if reading back what an option wrote gives that option. The lemma
  `OptionReadsBack` counts the options below the value, which works because their seconds
  grow (`SecondsGrow`). For that the cursor of an open choice must be on an option that
  exists (`PointsAtOption`); nothing is assumed of the values a client writes.

Out of the provers' reach and left to TLC: liveness (`MeasurementsGoOn`,
`EventuallyReadsWarm`, `PmRests`, `RequestsHandled`, `StreamsEnd`, `StopReturns`,
`PasskeyGoesAway`, `CatchesUp`, `GetsOnline`, `RailFollowsUnguarded`, `ReadsResume`,
`TouchRecovers`), because it needs ENABLED; and induction over data. Every other property of
a passing run is stated by a theorem.

## 7. Findings

Eight runs show a disagreement between the code and what the repository says of it;
`PROJECT.json` quotes the texts.

- `device_refused_save`: a value out of range, once adopted in RAM from a BLE client,
  makes every later save fail, also that of the mode, so the mode in NVS is no longer
  the one the device works in (`go_orchestrator.cpp:847`).
- `sensors_interval`: a change of the interval after the pre-wake switches the PM sensor
  off and keeps the flag that suppresses the next pre-wake: the next reading is of a
  sensor without power (`go_orchestrator.cpp:342`).
- `sensors_calibration`: a calibration requested while the producer is busy is
  overwritten by the next measurement, and its client waits for ever
  (`go_sensor_producer.cpp:68`).
- `gps_time`: a new activation first sets the clock from the timestamp the driver kept
  from the last one (`gps/gps_service.cpp:173`).
- `registration_order`: the saved operator is searched for after every scan, so the
  operators listed before it are never tried while it is in range, also when it no longer
  works (`simcom_a7672x.cpp:1290`).
- `touch_once`: the debounce time is measured from the last accepted touch, so a finger
  that rests on a pad is a new touch each time the chip asserts its line after that
  (`go_input.cpp:262`).
- `calibration_refused`: a calibration that the S12 reports as failed is a success for the
  manager at the next poll (`s12.cpp:161`).
- `power_rail`: a failed transfer in `BQ25629Bms::init()` leaves the charger's watchdog on.
  Nothing feeds it, and when it has switched the boost off, both remembered modes say that
  there is nothing to do: the PM sensor stays without power until a cable is plugged or the
  device boots (`bq25629_bms.cpp:37`). `RailFollowsUnguarded` shows that this is the only way.

Behaviour that is modelled as it is, and that no property demands otherwise because no
text of the repository does:

- In a menu, a frame dropped by a busy worker is repaired only by the next touch.
- A power-off while tracking drops the frame of the shutdown screen, since the frame of
  the stopped tracking is still being drawn; without tracking the fixed delay is shorter
  than the refresh (`go_orchestrator.cpp:787`).
- Choosing any setting in the menu rounds a measurement interval of 120 s, written by a
  client, to 300 s (`go_ui.cpp:322`).
- The first update after a wake by button may leave old icons in the status bar, which
  `_defer_header_check` allows; a later full or fast refresh repairs them.
- The deep sleep that a failed power-off falls back to does not start the LP core, so the
  external watchdog starts the device again (`go_power.cpp:177`); `FedUnlessHalted` makes
  that exception.
- The full poll takes in a change of the power source without redrawing the icon, and the
  fast poll then finds nothing changed (`go_orchestrator.cpp:298`); abstracted in `PowerPath`.
- A ship mode that does not take lets the device resume a session the user has ended.
- Only one edge of the press that wakes the device is suppressed: when its contact bounces
  at the release, a later edge may find it closed, and the press is posted as short, which
  locks the device again. `OneEventPerPress` makes the same exception: a contact that closes
  again, at a release or for the next press, before the task has seen it open can give a
  second event.
- An operator with which the modem registers but gets no service is never given up within a
  call (`simcom_a7672x.cpp:1386`); `GetsOnline` assumes that there is none.
- After a missed `DOWNLOAD` prompt the module takes the next command for the body of the
  request, so that a later request can fail as well; `OnlyMissedPromptSpreads` says that
  nothing else spreads beyond the next request.
- A restart of a sensor whose stop succeeded and whose start failed leaves the driver
  believing that it does not measure, until the next boot (`stcc4.cpp:246`, `sps30.cpp:96`).
- A disconnection resets the export, but a request that was taken or waits is carried out for
  the next phone. Requests of two phones that are left behind so can mislead a third: the
  first ends with an error that the phone takes for the answer to its own start, the stream
  of the second is announced while it asks again for its own session, and
  the points that follow, which carry an index and no session, are filed
  under it. The client specification says that the download state is cleaned up
  (`products/go/specs/AGo_BLE_Client_Spec.md`, section 10). It takes three connections, four
  requests, and a read error; `HoldsStoredPoints` is checked with two connections,
  and proved when each phone finds the device at rest.
- Points that `append_route_point()` accepted are lost at an ordinary `end_route()` when the
  flush fails, without a trace (`go_storage.cpp:189`). `OnlyFailuresLosePoints` and `RouteLog`
  allow exactly this beside a reset: the last points of the open route. After a write that
  failed `current_route_point_count()` may count points that are gone
  (`CountIsWholeSession`).
- A `stat()` that fails for an existing file empties it (`go_storage.cpp:143`).
- A read of a body that brings less than was asked for is followed by one at the next multiple
  of the chunk, so the request succeeds with a gap (`simcom_a7672x.cpp:760`, `:794`). TLC finds
  one in `ModemHttp`: of a response of three units the caller gets the first and the third.
  `ResponseIsOwn` says what remains true of such a body, and that it is whole if no read came
  short.

## 8. Not modelled

The contents of measurements, rendering, wording and the chart; CBOR and CASIC encoding
and checksums; battery values, charging limits and temperatures; the snackbar's deadline; wrapping
32-bit deadlines; NVS keys one by one; the wrap of the 16-bit index of a history batch (the
constant exists, its run does not); the SGP41, Sunlight, pressure and PMS drivers; power
control, module information and DNS of the modem, and the text of its lines; the noise
flags of the three touch channels one by one; a route point of which a failed write leaves a part (the models count whole
points); a session that grows while it is transferred; configuration writes that wait in the
BLE service while it is shut down; board set-up, the reference product and
vendored code, which is most of the repository by size. The event queue of the
Orchestrator never overflows in the models: 16 entries, emptied in milliseconds except
during a stream, are treated as enough.

## 9. Plan

Done first: the device and its storage, since everything else hangs off what is recorded
and what survives; then the services with tasks of their own (sensors, history, GPS,
display) and the menus; then the input service, the sensor drivers under their manager,
the modem driver, and the power path.

What would come next, in this order:

1. `StorageService`: `PayloadCache` and `RouteStorage` with the operations that touch both
   (`clear_data`, sleep, reset).
2. `SettingsStore`: a save interrupted between two keys, and the load that follows, as a
   refinement of an atomic save where nothing fails.
3. A history run in which the index of a batch wraps, and one with a fuller event queue.
4. Deadlines as 32-bit numbers: `compute_queue_timeout_ms` and `check_timers` against
   unbounded time, with the arithmetic lemma for every interval below 2^31.
5. Power-on, reset and DNS of the modem, once a product links it.

