# tCam-Mini firmware in TLA+

TLA+ modules, TLC configurations and TLAPS proofs for the firmware of tCam-Mini
(`tCam-Mini/firmware`), an ESP32 camera around a Lepton 3.5 thermal sensor. The C
sources are the reference: every definition names the lines it stands for in
`PROJECT.json` ("map"). Paths below are relative to `tCam-Mini/firmware`.

## 1. The system

### Tasks

| task | priority, core | what it does |
| --- | --- | --- |
| `rsp_task` | 19, core 0 | sends images and responses to the client, runs firmware updates, watches the session |
| `lep_task` | 19, core 1 | reads VoSPI segments after each vsync, fills a ping-pong buffer, resets the sensor |
| httpd | 5, either core | one task of the HTTP server; runs every web and WebSocket handler |
| `net_cmd_task` | 1, core 0 | accepts one TCP client at a time and parses its commands |
| `sif_cmd_task` | 1, core 0 | the same over a serial line, instead of the network |
| `ctrl_task` | 1, core 0 | button, LED, faults, reboot, every 50 ms or so |
| system event task, esp_timer task | high | WiFi events, the reconnect timer |
| `web_task`, `mon_task`, BLE host | low | start-up of the server, log lines, beacon |

`rsp_task` may preempt `net_cmd_task` and `ctrl_task` anywhere; httpd may run truly in
parallel with them. Tasks talk through FreeRTOS notification bits (which coalesce),
mutexes around single data structures, and plain variables.

### Components

* **Session arbitration** (`main/client_if.c`, `net_cmd_task.c`, `web_cmd.c`).
  State: `active_kind`; `connected` and `client_sock` of the TCP side; the table of
  browsers. Operations: claim, release, poll, send; accept/serve/close; admission,
  frame, CLOSE, broadcast, socket closed by the server. Hard: evidence read under one
  lock and used under another; descriptors that are recycled; five places that release.
  Correct if TCP and browsers exclude each other, no claim is leaked, no descriptor is
  used after it was closed.
* **Receive ring and parser** (`components/cmd/cmd_utilities.c`). State: ring, push and
  pop index. Hard: wrap-around, overflow, packets cut anywhere, bytes that belong to no
  packet, two tasks that use one ring. Correct if each packet of a well-behaved host is
  dispatched once, unaltered, in order, and parsing ends.
* **Commands** (`cmd_utilities.c`, `json_utilities.c`). Stateless but for what they
  tell others: `rsp_task`, the sensor, storage, WiFi.
* **Response task** (`main/rsp_task.c`). State: `connected`, stream and image flags,
  pacing, the response buffer. Hard: coalescing bits, sessions that change while it
  sends, two halves of a buffer. Correct if nothing of one session reaches the next, the
  last command counts, images that were asked for come and no others.
* **Firmware update over json** (`rsp_task.c`, `upd_utilities.c`, `ctrl_task.c`).
  State: update state, location, attempts, OTA handle, LED state and the state to return
  to. Hard: retries and late answers, two requests, failures, the user's two buttons
  presses, the client leaving. Correct if the flash receives the announced image in
  order, only after a press, and the update and its indication end.
* **Control task** (`ctrl_task.c`). LED and button state machine; faults set from any task.
  State: control state and the one to return to, LED, blink counter, button, fault. Hard:
  notifications that coalesce, a state saved from another task, a counter compared with 0.
  Correct if a reset of the network is one the user asked for, and a fault is shown, with
  its code, for as long as it lasts.
* **Web server** (`web_task.c`, `www/`). Pages, settings endpoints, WiFi scan, upload of
  a firmware image, captive portal. Hard: the upload and the json update use one partition.
* **Lepton task and VoSPI** (`lep_task.c`, `components/lepton/vospi.c`). Segment state,
  resynchronisation and reset counters. Hard: missed segments, a sensor that stalls.
* **Shutter parking** (`rsp_task.c`, `lepton_utilities.c`). An idle timer and an unprotected
  flag. Correct if the flag agrees with the shutter whenever nobody is moving it.
* **CCI** (`cci.c`, `i2c.c`, `lepton_utilities.c`): register access to the sensor by three
  tasks under two locks. Hard: answers read after the lock was given back, failing
  accesses, resets of the sensor. Correct if what was verified is set, what the camera
  reports is what the sensor has, and no lock is kept.
* **Persistent storage** (`components/sys/ps_utilities.c`). Records in RAM and in NVS;
  the table of saved networks. Hard: order of inserts, evictions and removals, failing
  writes, restarts, migration. Correct if no network is lost, doubled or resurrected.
* **WiFi** (`wifi_utilities.c`). Join scan, web scan, reconnect timer, recovery AP: five
  flags changed by four tasks. Correct if a saved network in reach is joined in the end, and
  otherwise the camera can be reached as an access point.
* **Ethernet, serial interface, DNS hijack, BLE beacon, log ring, monitor, clock,
  mDNS (vendored)**: I/O and diagnostics.

### How they interact

A browser's frame or a TCP client's bytes go into the one ring; the parser runs commands
in the task that pushed, `httpd` or `net_cmd_task`; commands notify `rsp_task` and push their answer into
`sys_cmd_response_buffer`; `rsp_task` polls `client_if` for the holder of the session,
takes images from `lep_task`'s buffer and sends both. A send to the last browser that fails
ends the session there and then, in `rsp_task`, whatever `httpd` is doing. `ctrl_task` tells `rsp_task` of the
button and is told of faults and updates. WiFi and storage stand behind commands and the
web server.

## 2. The modules

| module | models | checked by | proofs |
| --- | --- | --- | --- |
| `ClientSession` | the arbitration: `client_if.c`, `net_cmd_task.c`, `web_cmd.c` | `MCClientSession`, two runs | `CmdPathProofs` |
| `RxParser` | `push_rx_data`, `process_rx_data`, the recv loop | `MCRxParser` | `CmdPathProofs` |
| `RspStream` | the loop of `rsp_task` for images, streams, responses | `MCRspStream` | `RspStreamProofs` |
| `FwUpdate` | the json firmware update across four files | `MCFwUpdate` | `FwUpdateProofs` |
| `Vospi` | images from segments: `vospi.c` | `MCVospi` | `LeptonProofs` |
| `LepTask` | `lep_task.c` and the faults it reports to `ctrl_task` | `MCLepTask` | `LeptonProofs` |
| `Cci` | access to the sensor and shutter parking: `cci.c`, `lepton_utilities.c`, `i2c.c`, parts of `rsp_task.c` | `MCCci` | `CciProofs` |
| `NetStore` | what a table of saved networks promises (abstract) | by `SavedNets` | by `SavedNets` |
| `SavedNets` | the saved networks and network settings: `ps_utilities.c` | `MCSavedNets` | `SavedNetsProofs` |
| `WifiJoin` | join, retry, recovery access point, scans: `wifi_utilities.c` | `MCWifiJoin`, two runs | `WifiJoinProofs` |
| `CtrlTask` | `ctrl_task.c`: button, LED, faults, network reset | `MCCtrlTask` | `CtrlTaskProofs` |

Conventions. `pc[t] = l` says that task `t` is about to run the statement named `l`.
A section under a mutex is one step, because nobody reads what it writes while it lasts,
and the only nesting in the code (`web_mutex`, then `client_mutex`, in `add_client`) is
always taken in that order; what lies between two sections is a step of its own, and so
is each store to an unprotected variable that another task reads. Notification bits are
a set per task. Variables marked "history" in a module are not in the code; they
remember what a property needs. Definitions under the comment "Plausible bug" are
mutations of the definition below them, used to make sure that each property can fail.
Where the code does go wrong in a case, a property names that case in a history variable and
excepts it, and the finding says so; what remains is what the code gets right. `TypeOK` of a
module is proved (section 3) rather than run.

### ClientSession

Three tasks: `net`, `httpd`, `rsp`. `activeKind` is `active_kind`, `clients` the table of
browsers, `fdUse` what the process's descriptors are used for (they are recycled), `rx`
which transports have bytes in the ring, `kind` and `rspSock` the locals in which a
poller keeps what it read under a lock it no longer holds. `staleRelease` remembers
whether a release ever took the session from a transport that was in use.

* `ExclusiveUnlessStale`: TCP and browsers are never served together unless a stale
  release has happened; `StaleOnlyByDeferredRelease`: only the release inside
  `client_if_active` and the one after a broadcast can be stale. Together they say
  exactly where the arbitration is unsound. `OneClient`, the documented property, is
  violated (finding).
* `ClaimAccounted`, `AbandonedSessionFreed`: no claim is leaked, at any moment and in the end.
* `NoInheritedBytes`: a TCP client never gets behind a predecessor's half command.
* `SocketsOpen`: `client_sock` and the table name open descriptors, but for the one
  statement between `close()` and the assignment.

Bounds: three descriptors (one TCP client and two browsers, or a browser on a
descriptor that a TCP client just had), `MaxClients = 2`: a third browser meets a full
table. No other bound: the state space is finite. Fairness: weak fairness of `rsp_task`
(it wakes every 50 ms at the latest) and of the statements of a handler that has begun;
clients owe nothing.

### RxParser

The ring byte by byte, consumed bytes included, since `process_rx_data` can read them
when a STOP precedes its START. The host sends packets and, up to `MaxNoise`, bytes
outside the framing. `ExactlyOnce` covers every chunking and wrap; `ParseEnds` that the
`while (process_rx_data()) {}` ends for every content of the ring, with noise too. Bounds: a ring of 6, chunks
up to 2, packets of 3 and 4 bytes: every position of a packet relative to the wrap occurs,
and noise before a packet overflows the ring. Fairness: the reader keeps reading.

### RspStream

`rsp_task` statement by statement: top of the loop (`eval_stream_ready`, notifications),
connection, image, response, wait; the two tasks that run commands (`cmd`: `net_cmd_task` for
the TCP client, `httpd` for the browsers), with the receipt of a command, the store of the
stream's parameters, the notification and the answer as steps of their own; `lep_task`'s
ping-pong; the clock; the upload that suppresses images. Sessions are numbered so that what one
left behind is recognised in the next.

A session ends in its own task, between two commands (`Disconnect`), or in `rsp_task`: an image or
a response that cannot be sent to the last browser makes `broadcast` drop it and give the session
back (`lost` of `RspImage` and `RspRespond`, in `Sends`). `httpd` may be anywhere in a command of
that browser then and goes on with it, and a TCP client may be admitted meanwhile. A TCP send that
fails ends nothing. A release on stale evidence is the matter of `ClientSession` and left out.

* `NothingInherited`: no image nor response of another session, unless `rsp_task` missed
  the end of that session: it polls, so the session may end, or end and be followed, between
  two looks; and it clears its state once, so what a command of the ended session stores,
  notifies or answers after that reaches the next client (`missed`). That a client is admitted
  at all while a command of the one before it is being run contradicts the comment of
  `client_if.h` on the shared buffers (finding).
* `LastCommandCounts`: `get_image`, `stream_on`, `stream_off`, update request: the last one
  decides, unless two met in one set of bits. (They can: then OFF wins over a later ON, a
  finding.)
* `OvershootBounded`: at most two images beyond `num_frames`, where the documentation
  promises the exact number (finding).
* `ImageOwed`, `StreamFlows`: an image that was asked for is built; a stream that is not
  stopped goes on. Fairness: `rsp_task`, frames and the clock go on; the command tasks owe nothing.

Bounds: two sessions, two commands, one response, a stream of one image at full rate and an
unlimited one with a delay. Every race here is between two commands or two sessions and the
position of `rsp_task`, and all positions occur.

### FwUpdate

The two tasks that run commands (receive, decode into the shared buffer, store the location,
notify: four steps), `rsp_task` (take bits, one step per bit, connection, deadline), `ctrl_task`,
host, user. The session ends between two commands or, for browsers, when `rsp_task` is where it
sends, in the middle of one, as in `RspStream`; the next client's commands may then run beside it.
An image is its number of segments; `written` is what went through the OTA handle.

* `ReadyToWrite`: while segments are asked for a handle is open and `fw_cur_loc` agrees
  with `upd_utilities`' own count.
* `ImageInOrder`: what is written is the announced image, whatever is lost, late or
  repeated, unless a request overlaps an earlier update or a command of an earlier session that
  is still being run (then segments of two images can mix, and `esp_ota_end` has to refuse:
  `Whole`).
* `OnePressOneUpdate`: no more updates start than the button was pressed for, although a
  press may be handled during another request than it was meant for.
* `UpdateEnds`: every request and every update ends, by completion, failure or time out.

Bounds: an image of two segments (first with version check, last), two attempts instead of
the code's, one `get_fw` in flight, and any four of: two requests, two presses, one session
that ends (`MaxEvents`). An update takes a request and a press; the two events left are what
it can be crossed by: another request, a press more, the end of the session, any two of
them. Fairness: `rsp_task` goes on, and a deadline that nothing moves passes (strong, since
retries move it). The host, the user and the other tasks owe nothing.

### Vospi

The sensor is a phase: four segments of an image, then `Gap` segments without one. A read
is classed by the packets it caught (the one with the segment's number, the last one);
vsyncs can be missed and the gap can grow. `age`, `faithful` and `tailed` remember which
segments the buffer really holds.

* `WholeImage`: the driver never compares a segment's number with the place it stores it
  in. Still an image is of one piece, unless a read began behind the packet with the number,
  or the image took two vsyncs more than a period: the exact bound (with one more the run
  fails).
* `ImageSoon`: `Gap + 8` whole segments in a row yield an image, also the exact bound. It
  is 16 for the Lepton 3.5, and `lep_task` waits for 36 before it resynchronises.

Bounds: none, with the real gap of 8. There is no fairness.

### LepTask

The states of `lep_task` and its pauses (`asleep` names the `vTaskDelay` it is in), its four
counters, and `ctrl_set_fault_type` with the part of `ctrl_task` that handles it. `Vospi`
enters through one number: how many vsyncs without an image a sensor in order can cause. The
environment is in `trouble` or not; while it is, anything may fail; it may end, once.

* `NoImageNoSilence`: without images a fault is set in the end, whatever the mixture of
  missing vsyncs, empty vsyncs and failed initialisations. (If the CCI mutex cannot be
  created the task deletes itself after a message to the client, without a fault.)
* `FramesFlow`: when trouble ends images come again, in both halves of the buffer.
* `FaultSettles` relates the fault and what `ctrl_task` shows. It excepts reports that overlap
  and a clear without a fault, which is where the code goes wrong (findings).
* `NeverResetSilently` (the sensor is reset only with a fault set) and `SyncFaultCleared` (an
  image leaves no synchronisation fault) are not run but proved.

Bounds: every limit is 2 or 3 instead of 36, 10, 4 and 60, which keeps each comparison and
the order of the limits; the proofs cover all values. Fairness: both tasks go on
(`wait_for_vsync` blocks for at most a second, and the pauses end). `CHECK_DEADLOCK FALSE`:
a task that has deleted itself stops.

### Cci

Every routine of `cci.c` is a sequence of register accesses under `cci_mutex`, each of them a
critical section of `i2c_mutex` and one step. Three tasks use it: the command task (settings
with read-back, raw accesses, `run_ffc`, `set_shutter`), `lep_task` (initialisation, reset) and
`rsp_task` (parking and unparking). One setting stands for those whose getter gives the mutex
back before it reads its answer, one for those that read first. An access may fail, the sensor
may lose a command without a word, a reset puts its settings back.

* `VerifiedSticks`: a setting that was read back is set, in spite of one failure of any kind;
  excepted is an answer that somebody else's access could have touched (`touched`; finding).
* `ParkAgrees`: `shutter_parked` agrees with the shutter whenever nobody moves it; excepted are
  two movers at once, failing transfers and a reset (`clean`; two findings).
* `ConfigAgrees`: `lep_st`, which the camera reports and restores after a reset, is what the
  sensor has; excepted is an initialisation during a `set_config` (`apart`; finding).
* `StatusIsOwn`: a client is told of the fate of its own raw access.
* `CallsEnd`: no task waits for ever for a lock, unless a failing burst read kept `i2c_mutex`
  (finding).

Bounds: two commands, one viewer that comes or goes, two tasks inside a routine at once, one
failure, two of the three attempts of a verified write. Every property is about two tasks in
a routine, or about one failure. Fairness: every task goes on, also through the mutexes (they
are FIFO among equals and the holder is never suspended), and the sensor becomes idle.
`CHECK_DEADLOCK FALSE`: when the bounds are used up the model stops.

### NetStore and SavedNets

`NetStore` is what a user may believe: the camera knows at most so many networks, each with a
key; one it learns it knows, one it forgets it no longer knows and no other is lost with it; to
make room one may go, and only then; a restart finds what was known before or after a step.
`SavedNets` is the code: slots, the shifting insert and removal, the eviction of the last slot,
the copy in flash, the settings beside it with their migration from the old layout, `set_wifi`
which copies what it does not name, and the network reset. A write fails before or after it
took effect, a read fails, power is lost between any two of the steps in which the code writes.

* `TableSound`: free slots last and no network twice, in RAM and in what a restart will load.
* `ForgottenStays`, `KnownStays`: neither comes back or goes by restarts. Excepted are a failed
  write, a `set_wifi` that copies the network in use back (`leak`) and a power loss between
  erasing and rewriting the old settings (`torn`); both are findings.
* `ImplementsStore`: `SavedNets` implements `NetStore` under the mapping that forgets slots and
  order: `known` is the table in RAM as a function from names to keys, `kept` the one in flash.

Bounds: three slots and four networks (an eviction and a full table with one to spare), two
passwords, five commands or joins, two troubles. Networks and passwords are interchangeable
(no temporal property but a refinement, which is preserved). No fairness. `CHECK_DEADLOCK
FALSE`: when the commands are used up the camera runs on without a step.

### WifiJoin

Four tasks: the event task with the handlers, the `esp_timer` task with the reconnect timer, the
web server with its scan, and whoever calls `wifi_reinit`. A handler's check and the driver call
it leads to are two steps (`ev`, `tm`, `web`, `conf` name where each task is). The driver is
external: a station that is down, dials, is linked or has an address; one scan; one queue of
events. What is assumed of it: it refuses to scan while it dials or scans, a connect cuts a scan
off and does nothing unless the station is down, and stopping it posts the loss of a connection.
The timer's period (half a second at least) is long against the handling of an event, so it
fires only when no event is waiting.

* `UpIsTrue`: `sta_connected` is true only while the station has an address or the event that
  will clear it is on its way. Everything that looks for a network relies on it.
* `HoldRespected`: while a scan of the settings page holds the radio no reconnect is armed or
  about to be made, unless a join had begun before (`late`; finding).
* `HotspotStays`: in access point mode the access point is on the air, whatever a handler or the
  timer of the client mode before still does, unless it overlapped `wifi_reinit` (`crossed`).
* `JoinsEventually`, `HotspotOrHome`: a client with a saved network in reach joins it; one whose
  saved networks are all out of reach becomes an access point. Excepted is a join scan cut off
  without a report (`lost`; finding). `HotspotRaised`, the sentence of the readme, is violated
  when the last network is forgotten while it is being used (finding).

Bounds: one network, one fast retry, one each of a change of the configuration, a scan of the
settings page, an edit of the saved networks and a change of what is in reach. With one network
every handler and every pair of tasks meets; which of several networks is chosen is a matter of
signal strength, which is data. Fairness: the tasks go on, scans and dialing end, and dialing a
network that is in reach again and again succeeds in the end (strong). Left out: driver calls
that fail while an interface is set up, addresses, and an interface that is switched off.

### CtrlTask

The loop of `ctrl_task` in its three parts: the notifications, one step per bit in the order of
the code, then the LED, then the button and the state machine, once per tick. `lep_task` and
`rsp_task` set and clear a fault in two steps: the variables, then the notification.
The states of `FwUpdate` and `LepTask` are abstractions of this one.

* `ResetAsked`: the network is reset no more often than somebody held the button for it, however
  the button bounces; excepted is a fault or a request that arrives during a reset (`struck`;
  finding: the state to return to is then the reset).
* `BlinksCode`: the blink counter stays within the code of the fault, unless a network reset has
  failed (`failed`; finding: the counter is compared with 0 after it was decremented from 0).
* `FaultShown`: a fault that nobody cleared is shown once its notification is handled, also after
  a network reset; excepted is a clear that meets another fault (`covered`; finding).
* `ResetEnds`: an announced reset comes to an end.

Bounds: two faults with one press of the button or one fault with two presses, one update request;
a press of three ticks is the shortest for which a short and a long one can be told apart, an
alert of two ticks the shortest that is not over at once. Fairness: the loop runs and the tasks
complete their second step; a reset that is tried again and again ends (strong: `wifi_reinit`
is called until the network is enabled). `CHECK_DEADLOCK FALSE`: after the reboot of an
update the task is off.

## 3. What is proved

Eight modules hold proofs, of all ten detailed components; none assumes more than the named
assumptions on the constants in the module it is about, and every theorem is for all their
values. The properties are hardly ever inductive; what was added is the content of the
proofs. In each, one lemma per action (or group of actions) shows that it keeps every
conjunct, and PTL turns this into the temporal theorem.

* `CmdPathProofs`, about `ClientSession`: `TypeCorrect`, `Exclusion`, `Accounting`, `FreshRing`, `OpenSockets`
  and the action property `StaleSource`. `Invariance` adds what each program counter entitles a
  task to believe: where `client_sock` and its descriptor stand at each statement of the TCP loop
  (`SockPlace`); that a handler's socket is an open HTTP socket until `close()`
  (`HandlerSocket`), which keeps `clients` sound when a descriptor is recycled; that a
  transport's own release happens only when nobody of that transport is served
  (`OwnReleaseSound`), which makes every stale release one of the two deferred ones; and that, as
  long as none happened, a transport in use holds the session (`UserHolds`), from which exclusion
  follows because `active_kind` has one value.
* `CmdPathProofs`, about `RxParser`: `DispatchedOnce` (`ExactlyOnce` for every ring, chunk and set of
  texts) and `NeverFlushed`. The ring and the wire are looked at as one stream of bytes (`Stream`),
  of which a send makes the end longer, a receive only moves the boundary inside, and a dispatch
  takes the front off. The invariant (`InOrder`) says that, with nothing outside the framing, the
  stream is the packets of the texts not yet dispatched, one behind the other (`Framed`, by the
  offsets of the packets), and that a reader back at `recv` holds no STOP. From the latter follows
  that it holds less than one packet, hence that the next chunk fits; from the former that the
  first START is at the front of the ring and the first STOP behind its text.
* `RspStreamProofs`: `TypeCorrect`, `NothingOfOthers`, `LastIsObeyed`, `OvershootIsTwo`,
  `PromiseNotLost`. Between two sessions `rsp_task` holds nothing that wants an image, no answer
  and no command bit (`Clean`), during one only what the session caused (`Own`), a command under way
  included (`Serving`), unless the end of a session was missed; the last command is being
  notified, or notified, or obeyed (`Obeyed`); and what a stream may still send is counted by the
  halves of the buffer an image is due from (`Budgeted`). `PromiseNotLost` is the safety part of
  `ImageOwed`: an image that get_image is owed stays notified, awaited or held in the buffer.
* `FwUpdateProofs`: `TypeCorrect`, `HandleIsReady`, `FlashInOrder`, `PressesBound`. While a
  request is under way there is one trace of it, at one place, and nothing of an earlier update
  (`Fresh`); during the update the segments asked for are in ascending order, the one in the
  shared buffer is behind none of them and not behind the location stored beside it (`Running`).
  Because a session may end in the middle of a command, both need that one command at most is
  under way, and that it is the present session's if that has offered an image (`Alone`);
  a press is one notification until it has started an update (`Credited`).
* `LeptonProofs`, about `Vospi`: `VospiTypeCorrect`, `ImagesWhole`, `ImageComes`, for every gap. `age` is tied to the
  phase: within the image that was begun the two are equal, and a sensor that offers a number
  again is a period further (`SamePeriod`); the driver is never ahead of the sensor, and level
  with it only if it lost nothing (`NeverAhead`). For `ImageSoon` a variant counts the reads that
  are left (`ToGo`); every whole read lowers it.
* `LeptonProofs`, about `LepTask`: four theorems, for all limits. Added: a synchronisation fault is remembered by
  the count that clears it (`SyncCounted`), and what is pending for `ctrl_task` is one report,
  with the right state saved (`OneReport`).
* `SavedNetsProofs`: `TypeCorrect`, `SoundTables`, `StaysForgotten`, `StaysKnown`, and the
  refinement `StoreImplemented`: every start of `SavedNets` is one of `NetStore`, every step a
  step of it or a stutter. The lemmas say what the shifting insert and removal do to a sound
  table seen as a set of entries; with them each step is one of sets. Added: the job that
  is in two steps names an entry that may be stored (`JobSound`), what is forgotten or owed is
  so in RAM and in flash alike (`Forgetful`, `Remembering`), and RAM is blank until it is loaded.
* `WifiJoinProofs`: `TypeCorrect`, `UpNeverStale`, `ScanOwnsRadio`, `FallbackIsOnAir`,
  `HotspotRemains`. Behind every address that was announced and is gone, its loss is queued, also
  behind those that are themselves still in the queue (`Connected`); who is under way, and to
  which network (`Aimed`); what may be under way during a hold (`Peaceful`).
* `CtrlTaskProofs`: `TypeCorrect`, `ResetsAreAsked`, `CodeIsBlinked`, `FaultIsShown`. A reset is
  owed to a press while the button is held and while it is announced (`Owed`); a fault that was
  notified is counted from its code (`Coded`), has its state, and what could take the state away
  was remembered (`Noticed`); before the start-up is handled nothing else is (`Early`).

* `CciProofs`: `ReportedConfig`, `ParkedAgrees`, `CheckedWrites`, `OwnStatus` and `OneInside`, for
  every number of attempts and any number of failures. What the properties say of a task at rest is
  carried through its calls by what stands at each access: a task holds `cci_mutex` between its
  take and its give and nowhere else (`Locked`); what the sensor executes was written by a task that
  is still waiting for it (`Source`); registers and sensor hold what the place of a set implies
  (`SetStands`), of a get (`GetStands`), and what an initialisation or `set_config` has written so
  far (`InitKnows`, `ConfigKnows`); one failure spoils the set or the get that checks it, never
  both (`OneSpoils`); and no answer that nobody disturbed is looked at while somebody is inside
  (`Untouched`).

Only model-checked: all liveness (`AbandonedSessionFreed`,
`ParseEnds`, `UpdateEnds`, `ImageOwed`, `StreamFlows`, `NoImageNoSilence`, `FramesFlow`, `CallsEnd`,
`JoinsEventually`, `HotspotOrHome`, `ResetEnds`), because TLAPS has no rules for fairness and
ENABLED. Statements that need induction over data (what a fold over the ring returns for every
ring) cannot be proved with the installed back ends either. No module declares a RECURSIVE
operator.

## 4. Findings

Two violation runs show code that does not do what its documentation says: two clients served
at once (`one_client`), and a camera that is neither on a network nor a hotspot (`hotspot`).
`PROJECT.json` lists them with the lines, and those that were met while modelling; most of these
are the cases a property excepts, by the history variable the finding names.

## 5. What is left

1. The upload of a firmware image over HTTP beside the json update: both write one partition
   and set the boot target. It is listed as a hazard without a property.
2. Abstract specifications: a lock with one holder, implemented by `ClientSession` as long as
   no release is stale; a FIFO channel of packets, implemented by `RxParser` without noise.
3. `WifiJoin` composed with `SavedNets`, of which it now holds a set of names, and two networks.
4. Ethernet's start-up with its retry, and the handshake of the serial interface.

## 6. Not modelled, and why

Formatting and parsing of json, base64, pages and endpoints (data, not control); SPI, GPIO and the
clock (device I/O); the vendored mDNS, which alone is ten thousand of the twenty-six thousand lines,
and the ESP-IDF, which appear only as what they do to the modelled code (httpd accepts and drops
sockets, `esp_ota_end` validates an image, the WiFi driver posts events); Ethernet (set-up and
flags); BLE beacon, DNS hijack, log ring and monitor (diagnostics without shared state); telemetry
beside an image; the sensor settings in flash, which use the functions `SavedNets` models. With
these, the definitions stand for about a seventh of all lines, and for most of the code that keeps
state or runs concurrently.
