# Verification of Elysian Studio

TLA+ models of the parts of Elysian Studio (a Rust slicer and printer client) in
which several threads, messages and files meet, the TLC configurations that check
them on small instances, and proofs for every value of the constants (TLAPS).
Paths below are relative to `src/crates/`.

## The system

One process. The UI (`elysian-ui`) is an iced application: `App::update` handles one
`Message` at a time; long work runs in spawned threads (`offload`, `Task::perform`,
`std::thread::spawn`) whose results come back as further messages, in any order.
`App::subscription` keeps streams alive (status timer, camera). Background threads
share nothing with the UI but their result message — and the files of the config
directory, which nothing locks.

| Component | State it keeps | Operations | Hard part | What makes it correct |
|---|---|---|---|---|
| Studio document (`elysian-ui/src/lib.rs`, `plater.rs`, `elysian-gpu/src/scene.rs`) | model, project file, `busy`, loading overlay, generations, scene cache, last G-code, slice-all | open, recent, drop, new, save, edit, plate switch, slice, slice all, display packs | results of superseded work; two kinds of "busy"; a cache (the scene) that is sliced | one exclusive job at a time; what is shown, sliced, saved and sent belongs to the open document |
| Cloud session store (`elysian-protocol/src/cloud.rs`, `cloud_api.rs`, `oauth.rs`) | five small files | load, save, token refresh, login | whole-session write-backs from five kinds of thread, no lock, five writes per save | logins and the chosen printer are not lost; accounts are not mixed |
| Chamber camera (`elysian-ui/src/monitor.rs`, `tutk.rs`, `agora*.rs`, `camera.rs`) | worker thread, channel, picture | connect LAN, RTSPS, cloud; retry, back off, stop | stopping a worker that nobody joins; tokens exchanged by workers of the past | the worker subscribed to serves, the others end; the picture is the printer's |
| Camera wire (`elysian-protocol/src/rtsps.rs`) | bytes read, fragments of a unit | split a TLS stream into frames, replies and H.264 units | reads cut anywhere; payload that looks like a head | each unit once, whole, in order |
| Device monitor (`monitor.rs`, `lib.rs`) | address (host, code, serial), status shown, request under way | poll, command, point elsewhere | stale answers, partial reports merged into old ones | nothing of another printer stays shown; the monitor never stops asking |
| Printer backends (`elysian-protocol/src/lib.rs`, `cloud.rs`, `lan_mqtt.rs`, `ftps.rs`, `mqtt.rs`) | one MQTT session per step of a request; the client id is that of the process | status, commands, light, prints over LAN or cloud | overlapping requests close each other's sessions; lost, unrelated or late reports decide results | no payload repeated or sent after its answer; answers, the assumed mode and the printed file have a cause |
| Key extraction (`extract*.rs`, `elysian-vmp-dump`) | temporary dumps, child processes | a ladder of attempts with time limits | timeouts, clean-up on every path | no dump or child left behind |
| Spool inventory (`inventory.rs`, `spools.rs`, `lib.rs`) | filaments, spools, their file, the page's draft | new, save, use, measure, delete, pull, merge | a copy on the page, a list that arrives late, ids numbered by length | memory, page and file agree; an operation is about the spool selected |
| Slicer (`elysian-slicer`) | layers, regions, shells | layer heights, regions, infill, geometry | volumes that overlap; windows by number and by thickness | what is printed, and under which settings; nothing twice, nothing left empty |
| G-code (`elysian-gcode`) | height, hop, retraction, tool, fans | extrude, travel, retract, tool change, cooling | state carried from line to line | every line at its height, primed, of its filament, with its fan |
| Configuration (`elysian-config`) | presets, templates | resolve, parse, emit, expand | inheritance, nesting | a template becomes what it means |
| Model and plater (`elysian-model`) | volumes, instances, plates | arrange, transform | rows, margins | boxes apart and on the bed |
| Geometry, IO, GPU, preview, CLI | plain data | pure conversions | numeric | outside the reach of TLC for the most part |

How they interact: the UI sends jobs to the slicer, to IO and to the GPU packer (module
StudioProject); the monitor, the camera, cloud printing and logins read and write the
session store (module CloudSession); the monitor, the printer controls and Send each call a
printer backend in a task of their own, with MQTT sessions of their own (module PrinterLink);
which printer they address, and what comes to be shown of it, is DeviceMonitor's; the camera
is a subscription with a thread of its own (CameraWorker) that reads a stream (RtspReader)
and exchanges tokens; Send takes the last G-code of the document. Within a slice job the stages
follow one another without sharing state: heights of the layers (LayerPlan), regions
(SliceRegions), shells and infill (Shells), the G-code writer (GcodeWriter) with its templates
(Template), and the pass over its text that sets the fans (PartCooling).

## Modules

| Module | Models | Proofs |
|---|---|---|
| `StudioProject` | the open document and everything that works on it | `StudioProject_proof` |
| `MCStudioProject`, `MCStudioSliceAll` | small instances | |
| `CloudSession` | the session files and the threads that share them | `CloudSession_proof` |
| `MCCloudSession` | small instance, with the ghost of atomic updates | |
| `CommandService` | what a printer backend promises, abstractly | |
| `PrinterLink` | `LanBackend` and `CloudBackend`: requests, MQTT sessions, uploads; implements `CommandService` | `PrinterLink_proof` |
| `MCPrinterLink` | small instance | |
| `DeviceMonitor` | the Device workspace: address, status requests, what is shown, commands | `DeviceMonitor_proof` |
| `CameraWorker` | the camera: subscription, worker threads, tokens, picture | `CameraWorker_proof` |
| `MCDeviceMonitor`, `MCCameraWorker` | small instances | |
| `GcodeWriter` | what the G-code writer believes of the machine, beside the machine | `GcodeWriter_proof` |
| `PartCooling` | the part fan's pass over the G-code | `GcodeWriter_proof` |
| `Plater` | arranging the boxes of a plate | `Slicing_proof` |
| `Inventory` | the spools, their page and their file | `Inventory_proof` |
| `RtspReader` | frames, replies and H.264 units out of a byte stream | `CameraWorker_proof` |
| `SliceRegions` | the regions of a layer, out of parts, modifiers and negative volumes | `Slicing_proof` |
| `Shells` | solid, sparse and combined infill | `Slicing_proof` |
| `LayerPlan` | the heights of the layers | `Slicing_proof` |
| `Template` | conditionals, values and brackets of G-code templates | `GcodeWriter_proof` |
| `MCParts` | small instances of the nine modules above, each alone | |

### StudioProject

Each handler of `App::update` that touches the document is one action, including the
`flush_display_pack` at the end of every `update`. A background job is a record in the
function `job` from task slots `Tasks` (display packs are kept in the set `packs`); it is
answered by the corresponding result message, at any time and in any order. Contents of a plate are abstract values: only
equality of contents matters. Generation counters wrap at `GenMod` (the code's
`wrapping_add` on `u64`); the bound is safe as long as at most one display pack is in
flight, which `PackCurrent` establishes. Sequences that depend on the host (the file
dialog, the operating system's drop) are nondeterministic requests.

Properties:

* `PackCurrent` — at most one display pack is in flight, the flag says so truthfully, and
  the pack carries the current generation;
* `OverlayBacked` — the loading overlay is up only while the newest load is still to
  answer;
* `ExclusiveLostOnlyBySaving`, `ViewLostOnlyByReplacement`, `GcodeLostOnlyByReplacement`,
  `FileLostOnlyByOpening` — the only steps by which the exclusion of `begin_work`, the
  agreement of viewport and document, of the last G-code and document, and of project
  file and document come apart. They state precisely how far the code's promises go: for
  example `ProjectSaved` clears a `busy` that a save never set, and results of work
  started before `NewProject` apply to the new document;
* `BusyEnds`, `OverlayEnds`, `SliceAllEnds` — with fair workers, nothing stays busy.

Assumed: a worker does not panic (the code's `expect("worker")` would lose the message
and leave `busy` up), the tool is not switched in the middle of a drag, and `App.model`
is always present (`App::new` and every load set it).

### CloudSession

The variable `disk` holds the files `cloud_user`, `cloud_token`, `cloud_refresh` and
`cloud_serial`. `ReadFile` and `WriteFile` are one `read_trim` and one `write_if_nonempty`
of `load_cloud_session` and `save_cloud_session`; a write may fail (`SaveFails`), which
ends the save. `proc` says, for the UI thread and each background thread, what it is
doing, the session it holds, the credentials of its `CloudApi` and the camera job it was
started with. Phases: `load`, `net` (requests to the server), `save`, `done` (the result
message waits for the UI). The UI thread handles no message while it loads or saves.

* UI: `PickDevice` (and `Discovered`), `TypeSerial`, `AccountLoaded`
  (`load_account_from_disk`), `RefreshDevices`/`RefreshDue` (user, or the message sent
  at the start and after a login), `Send`, `CloudLogin` (and `CloudOAuth`), `DevicesLoaded`
  (`restore_bound_printer`), `CloudLogged`, `CameraPlay`, `CameraStop`, `Subscription` and
  `SnapshotLoaded` (`camera_job`, which loads the session on the UI thread). iced calls
  `subscription` after a batch of messages, so it is an action of its own.
* Background: the device list, the cloud print (`start_print`), the login
  (`store_login_tokens`), the camera (`cloud_tutk_loop`, `persist_refreshed_cloud`).
* `Restart` ends the process at any point, also between two writes.

The server is external: it accepts or refuses any request, lists any devices, and may
answer a login without refresh token or user id (`parse_login` tolerates both).

Left out: the region (written and read like the user), LAN hosts and access codes, the
import of a Studio configuration, I/O errors of a load other than a missing file, a write
torn within one file, user ids that cannot be read from the token, restarts of the camera
for a new firmware version, and streams over the LAN (they do not touch the session).

Properties:

* `SequentialUse` — as long as no two threads have overlapped, no write has failed, the
  process has not ended in a save and no camera has outlived its login, the files are what
  atomic updates of the meant fields would have left: rewriting whole sessions loses,
  mixes and revives nothing by itself. `expected` and `alone` in `MCCloudSession` are
  ghosts for this; two threads overlap if both hold a session;
* `SerialLostOnlyByWriteBack` — the stored serial (to which a cloud print goes) stops being
  the device last chosen only by a background thread's write or a failed write of the UI;
* `LoginKept` — after a login only another login changes the account of the stored token.
  The code violates it, see Findings.

### PrinterLink

Requests of the UI (`refresh_monitor`, `run_print_cmd`, `Send`) are numbered by `run`; each
occupies a task slot, whose record `task[t]` is the stage it is in (`phase`), the payload it is
at (`item`), the state of its MQTT session (`net`) and the report that the session will return
(`last`). The request ends with one entry of `answer`, the result message. The two backends
differ as in the code: `LanBackend::commands` and `start_print` ask for the status first, sign
and install a certificate by the mode it shows, and look at the last report
(`mqtt_report_rejected`); `CloudBackend` does neither.

* `Begin`, then `Connect`, `Publish` and one of `AfterStatus`, `AfterCert`, `AfterPublish` for
  each session of `fetch_status_on` or `publish_raw`. The action at the end of a wait is always
  possible, as the deadline (a few seconds, or 200 ms for the first payload of the light) may
  pass at any point, also before the connection stands: `publish_raw` then returns `Ok(None)`.
* `Connect` closes the session of any other task with the same broker, as the client id is
  `bambu-rs-{pid}` in all of them (`holder`).
* `UploadBegin`, `UploadEnd`: `STOR` truncates the file, then fills it. The name is the same for
  all prints. A cloud print uploads to a place of its own.
* `Fails`: any error of the network, the signature or the upload.
* The printer and the brokers are external: a payload is executed, refused or lost (QoS 0); its
  answer, a `push_status` in full or in part, or the answer to a `get_version` reaches any of the
  tasks that listen, or none. A report with neither result nor `print_error` ends no wait of
  `publish_raw` and is judged as no report, so it is not represented there.

Left out: sequence ids, wording and signatures of payloads, the saved device certificate, the
AMS part of a status, the status wait's interest in the version once it has a status.

`CommandService` is the abstract view: a request is asked, its payloads are sent each at most
once and only before the answer, a payload on its way is carried out, refused or lost, and a
request is answered once, with anything. That it is this weak is the point: the answer tells
neither that a payload has been carried out nor that it has not.

Properties:

* `ImplementsService` — `PrinterLink` refines `CommandService` (pending payloads are those on
  `wire`): whatever is taken over, lost or late, nothing is repeated or sent after its answer;
* `RejectionHasCause` — a rejection is reported only if the printer refused something or had an
  error. It need not be the request's own payload, as reports are broadcast and not matched;
* `PrintsOwnUpload` — a print starts from another file than its own only if another print was
  uploaded over the LAN: one Send at a time is safe, also when an upload fails in the middle;
* `SecuredOnlyIfSo` — a request treats the printer as secured only if it is, although the mode
  comes from the first report that reads as a status, whole or partial, own or foreign;
* `StatusIsPush` — `fetch_status` returns a `push_status`. The code violates it, see Findings.

### DeviceMonitor

The address is three fields, `host`, `code` and `serial`, each modelled by the printer it belongs
to: which of them a handler sets, and which it leaves, decides whom the studio asks. `Reached`
is the printer that answers (LAN first, when host and code are there; else the cloud, by the
serial typed or stored). The handlers that change the address are actions of their own
(`PickDevice`, discovery, typed fields, the account loaded, the device list, an import), and so are
the start of a status request, its answer — a machine and those of the parts `Parts` the report
has, `retain_*` keeping the others as long as the printer is the same for the code — its failure, and
commands with their acknowledgement. `own` and `unseen` are history.

Properties: `FetchBacked` (one request at a time, and the flag says so), `OwnShown` (a late answer
of the printer before never replaces what the printer addressed has reported), `Settles` and
`CommandsShown` (the status settles on the printer addressed; a command is followed by a status
that was asked for after it, although the command's own refresh is dropped when one is under way).

### CameraWorker

A worker slot holds the phase of a `camera_worker` thread (`lan`, `jpeg`, `rtsps`, `mint`, `cloud`,
`pause`), its job and the token of its cloud client. `Subscribe` is iced's: after every message the
job wanted is compared with the one subscribed to; another job drops the channel and starts a
thread. An abandoned thread goes on until it sends. Printers and cloud are external: any stream
may start, deliver, fail or end; a token may expire and be exchanged. Every turn in the cloud, also one
that failed before its stream, stores the token of its client, exchanged or not (`PersistRefreshed`): the
user id of the job is `u_<digits>`, that of the client `<digits>`, so `uid_filled` (`monitor.rs:1310`) always
holds. The text of the last error is left out.

Properties: `CurrentServes` (a worker that returned while subscribed to would leave the camera
dark: the UI subscribes once), `TokenBackOnlyByAbandoned` (a worker at the job that is wanted never stores
a token older than the one on disk: only one that was abandoned, or whose job is no longer the one wanted,
does — and that changes the job and restarts the worker subscribed to), `AbandonedLanEnds`,
`AbandonedCloudEnds` (the latter only once its token has been refused and exchanged: a cloud stream that
ends without an error is retried for ever), `PictureSettles`.

### Parts of the studio without shared state (MCParts)

`MCParts` composes nine modules by a disjunction: in a behaviour one of them runs and the others
stay in an initial state. One run checks them all. It extends all of them, so that theorem
and run speak of the same definition.

* `GcodeWriter` — `pen` is the writer's state (`z`, lift made and lift owed, retraction, tool) beside
  the height of the machine that obeys the lines; `slots` the features of the layer in the order of
  `write_gcode`, with what each does about the tool. A path has a short or long travel, inside the
  part or not, with or without scarf. `LinesRight`: every line is laid at its layer's height
  (`OnLayer`), with filament pushed forward and the nozzle down (`Primed`), by the tool of its
  filament (`RightFilament`). Left out of the latter, as the code does it: with infill first and one
  region the walls are printed with the infill's tool (`writer.rs:339`).
* `PartCooling` — lines and marks of a layer as the writer leaves them; the pass inserts the fan lines,
  with a look-ahead over time. `FanFollows`: from its layer's first Z on, each move is made with the fan
  it should have, and each layer ends with its fans. The layer's own fan line comes after that Z
  (`cooling.rs:543`), also where a boost is on by then: one the look-ahead began (`cooling.rs:443`), or in
  spiral_mode one marked before the Z, since later layers have no Z of their own up front
  (`writer.rs:88`). The line then takes the boost back until the overhang's end; `early` tells these
  boosts from the others, and of them only that the fan is one of the two is said.
* `Plater` — `Arranged`: boxes are the gap apart and, after the pile was moved, on the bed, unless one
  is wider than the bed. Arranging stops at the first box that does not fit (`plater.rs:113`).
* `Inventory` — every message of the page, the pull and its merge, a restart at any time.
  `StoreCurrent`: what the page holds of the selected spool, and will write back whole, is what the
  memory holds, and the file holds what the memory holds. `SelectedOnly`: an operation on the
  selected spool changes no other; it fails once two spools share an id, which is possible after a
  row before the last was deleted (`inventory.rs:317`), and `gaps` leaves that out.
* `RtspReader` — `UnitsInOrder`: under every cut of the stream into reads. `Given` says what units are in bytes to
  come, packet by packet (`Means`), whatever was read of them.
* `SliceRegions` — a polygon is a set of cells. `RegionsShare`: what is printed is the parts without the
  negative volumes, and each cell is printed once, under the settings of the last modifier or part
  over it; `PartKeysUsed` is violated, see Findings.
* `Shells` — cells along a line, four layers. `SparseIsDeep`: sparse infill is nowhere closer to the open
  than the shell's layers or its thickness; `FilledOnce`: what is open both above and below is filled by
  two passes, as top and as bottom (`prepare_infill.rs:440`, `:478`), and all other infill by exactly one
  (top, bottom, other solid, sparse, or the combined infill of one later layer), at a height the nozzle
  allows. Densities of 0, which leave a pass out, are not modelled.
* `LayerPlan` — `LayersReachTop`: the last layer ends within half a layer of the top, and with
  `precise_z_height` exactly there whenever heights within the limits reach it.
* `Template` — `ExpandsToMeaning`. What a template means is said by equations: `Meaning` of a text in which every `{if}`
  has its `{endif}` (`Says`), `Other` of the branches left of one and `After` of the text behind them (`SaysElse`). The run
  builds texts nested to three levels from the end, with their meaning, and some with a brace missing. From a
  bracket to the one that closes it everything is copied as it stands, with any `{if}` in it (`CopyBracket`,
  `placeholder.rs:83`), unless it is the name of a value; `take_if` does not look at brackets, so the branch of an
  `{if}` ends at its own braces only. Text that is not ASCII is garbled (`Recoded`: `bytes[i] as char`, `:100`, and
  once more for each `{if}` around it, `:193`): the property is about ASCII templates.

## Runs

| Run | Instance | Shows |
|---|---|---|
| `studio_project` | 5 requests, 2 task slots, 2 edits, generations modulo 2 | type and safety properties of the document |
| `studio_live` | 3 requests | `busy`, overlay and slice-all end |
| `studio_preview` | 3 requests | finding 1 |
| `studio_slice_all` | 4 requests, slice-all over plates of plain parts | finding 2 |
| `cloud_session` | 2 accounts, 2 devices, 2 background threads, 1 request besides the device list due at the start; tokens issued and camera streams ended are 2 together, the latter at most 1 | type and safety properties of the session files; refresh and login one after the other |
| `cloud_login_kept` | as `cloud_session` | finding 3 |
| `printer_link` | 2 tasks, 2 requests, each of one of five shapes: status, command or print over the LAN, light or print over the cloud | properties of the backends and the refinement |
| `printer_status` | the same | finding 4 |
| `device_monitor` | 2 printers, 2 changes of the address, 1 command, reports with and without one retained part | properties of the Device workspace |
| `camera` | 3 worker slots, an address with LAN only and one with both, a channel of one message, 2 changes, 1 new token | properties of the camera |
| `parts` | the instances of MCParts, see below | the nine parts |
| `part_keys` | the same | finding 5 |

Bounds. Two slots are enough for every pairwise race of background work, and the UI thread
is a third actor. Five requests of the user cover every pair of overlapping jobs followed
by an edit and a plate switch; with generations modulo 2 a stale generation is confused with
the current one as early as possible, so a dependence on more than one pack in flight would
show. In CloudSession the initial files are either empty or a complete login, the device list
is always due at the start of a logged-in session, and its answer chooses a device: one more
request gives all pairs of writers. Threads beyond the slots cannot start, also not a further
camera worker: the UI then waits for a slot, which is an artefact of the bound and the
reason why deadlock is not checked there (the requests run out as well). Symmetry is used for
the slots only. In PrinterLink two requests that overlap give every pair of sessions, of uploads
and of payloads; the light is taken over the cloud and the command over the LAN since the two
differ from the other combinations only in the steps that those shapes share. Deadlock is
not checked there: the requests run out.

In DeviceMonitor two printers and two changes give an address left and come back to, while a
request to the first is still under way; a third field of the status (rack, firmware) would only
repeat what the one part shows. Deadlock is checked: the monitor may always ask again. In
CameraWorker three slots are the worker subscribed to and two abandoned ones, which can exchange
and store tokens one after the other; a channel of one is full as soon as possible; deadlock is not
checked, as the camera may be off for good and the bounds run out. The parts of MCParts all come to
an end, so deadlock is not checked there either. Their inputs: two layers of height 2 under twelve
settings, one difference from the base at a time, for the writer (two layers are the least in which
something is owed from one to the next, and two objects restart at the bottom); up to four boxes on
two beds (two rows of two); two spools and three changes, one of them after a pull was started; three
layers (first, ramp, full) for the fan; three streams with reads of up to six bytes, more than a
frame's head; up to three parts and two modifiers on two cells, in any order; four layers of up to
three cells; objects up to eight layers in steps of a quarter layer, with limits wide, narrow, equal and
reversed; templates of up to three branches, nested twice, and brackets, one within the other, around and
within an `{if}`, closed and not.

Fairness (`studio_live`): weak fairness of the workers and of the handling of results. The
operating system schedules threads, and iced handles every message that has arrived. Nothing
is assumed of the user. `device_monitor`: the timer fires, every request ends (all have
deadlines), results are handled, and a printer that is asked again and again answers now and then
(strong fairness). `camera`: threads run, their waits and reads have deadlines, the UI takes the
messages of its subscription; that a token is refused, or a stream fails, is a premise of the
property and not assumed.

## Proofs

`StudioProject_proof` — for any set of files, plates and task slots and any counter width:
type correctness; `PacksCurrent`; `OverlayIsBacked`; and the action properties listed in
`PROJECT.json`. The inductive invariant adds to the type invariant the bookkeeping of packs
(one pack in flight if and only if the flag is up, with the current generation) and the
relation of the overlay to the newest load. The overlay and the exclusion are inductive with the
types alone; that the viewport is only lost by a replacement needs the bookkeeping of packs.

`CloudSession_proof` — for any accounts, devices, initial files, number of threads and of
tokens: `TypeCorrect` (with the auxiliary `LoginNamed`: a login's request is of some account,
without which the issued token would not be a token) and `StoredSerial`. The latter
rests on `ApplyKept`: while `apply_device` runs on the UI thread, the serial shown is the
device last chosen, and the copy it saves carries that serial. Every other case is a thread
that leaves the files and the UI alone (`WorkerStep`).

`SequentialUseKept` states `SequentialUse` of `MCSpec`, whose ghosts it is about. Its invariant (`SessionInv`) says of
threads that take turns (`Sequential`): one of them at most holds a session; the files are as expected unless a save is
under way; what a thread has read is on disk, and the files it has still to write hold, once written, what is expected
(`Faithful`); a camera's job has the refresh token that came with its token, so that a camera that was told of no new
token writes back what is there (`JobKept`); and a token obtained and not yet saved is in nobody's job (`Apart`), since
the server issues a token once (`TokensKnown`). Every step is shown to be one of a few moves (`Moves`), so that the
steps that neither read, write nor carry anything are treated together (`PlainQuiet`).

`PrinterLink_proof` — for any number of tasks and requests and any set of shapes. `LinkCorrect`
proves the inductive invariant `Linked`: the types; `Serving` (a task that is not idle works on a
request that is begun and unanswered); `Apart` (no two tasks work on the same one); and
`Published` (what is on the wire, executed or refused was begun, and of a request still open it
is at most the payloads up to the current one, the current one only if its session has sent it).
`TypeCorrect` and `Implements`, the refinement of `CommandService`, follow from it: a payload about
to be published cannot be on the wire or done, since its task is the only one of the request and
has not sent it. `RejectionsHaveCause` and `SecuredIfSo` rest on `Heeding`: a bad report in a
session has a cause, and a report or mode that says "secured" comes from a secured printer.
`PrintsOwn` rests on `PrintKept`: what the printer stores was uploaded, and a print whose payload
is about to be sent has been uploaded.

`DeviceMonitor_proof` — for any printers, parts and bounds. `MonitorCorrect` proves `Monitored`: the
types, `FetchBacked`, `OwnShown`, that a request whose `since` is true asks the printer addressed now
(`SinceTarget`), and that once the printer addressed has reported no other kind of request is under way
(`OwnOnly`), which is what makes `OwnShown` inductive: there is one request at a time, so the answer that
set `own` was the last of the printer before.

`CameraWorker_proof` — for any workers, places, channel and number of tokens. `CameraCorrect` proves
`Serving`: the types, `CurrentServes`, and `Held`: the stored token and those of all clients were issued, and a
client's token is never older than its job's, since it is that one or was exchanged later. `TokensKept`
(`TokenBackOnlyByAbandoned`) follows: the worker at the wanted job has the stored token in its job, so what it
stores is that one or newer. Nothing of the kind holds of the others, and nothing bounds how often they
put a token back: that is said below.

`UnitsGiven`, in the same module, is `UnitsInOrder` for any streams and any reads. The invariant (`ReaderOK`) is that the units
delivered, and those in what is buffered and on the wire after the fragments at hand, are the units of the stream: reading
moves bytes (`FillKeeps`), and what a frame, a reply or a stray byte says is the same in the buffer as in the whole stream
(`ReadFrom`, `ReadPart`), because the reader takes none before all of it is there.

`GcodeWriter_proof` — for any number and height of layers and any settings. `LinesAreRight` proves `WriterOK`:
between two actions the nozzle is never on its hop and is where the writer believes it to be (`Ready`); it is at
the top of its layer, but for the moves of the prime tower (`AtHeight`); and the features still to come are in an
order in which a wall that calls no tool follows something that left its own (`InOrder`, `HasTool`). Without the
order `RightFilament` is not inductive: `write_gcode` relies on it instead of calling the tool again.

`FansFollow`, in the same module, is `FanFollows` for any settings of the fans, layers and times. The invariant (`CoolingOK`)
keeps apart what `rewrite_feature_fans` believes of the fan and what the machine has. Up to the layer's own fan line the
belief runs ahead; from there on it is right, but for a boost from before that line, which the line takes back
(`FanOK`). What is believed is what the place calls for, or a boost for an overhang the look-ahead stands at (`CurrentOK`),
and that is near because the look-ahead is no further than the time it has counted (`TimesOK`). `InPrintOrder` is what
the text keeps once `insert_fan_after_z` has put its lines into it: marks in pairs, ironing last, and nothing printed
between a Z and a fan line to come. Marks may come before the line, as in spiral_mode: `TakenBack` is the state in which
it has taken back what they began. That a layer may leave out its line rests on the fans being back when the
one before ends (`BetweenOK`).

`MacrosExpand`, in the same module, is `ExpandsToMeaning` for any templates nested to any depth. The invariant (`TemplateOK`)
is that the output and the meaning of what is still to come are together the meaning of the template: outside an `{if}`, of the
texts being expanded, the innermost first (`AtText`, `Comes`); within one, of the branch chosen, or the branch read if it is to be
taken, or the others (`AtBranch`, `IfMeans`). What brackets hold goes out whole, and counts as it stands in the meaning
(`CopyBracketStep`, `BracketSays`); texts of the induction are ASCII, which the conversion of bytes leaves as it is. That
`take_if`, which only counts, ends the branch where it does end is `Climbs`: the depth counted is that of the tokens read, and no brace of the `{if}` itself is met until it is back at 0. That every text leads back
there (`LeadsBack`) is the induction over its length.

`Slicing_proof` — the passes of the slicer and the plater, each with an invariant of what its loop has done so far:

* `PilesArranged`, for any boxes, gap and bed: boxes of earlier rows end above the current row, those of the row
  end before the next place (`InRows`), and moving the pile by its extremes keeps it on the bed if it fits.
* `SparseInside` and `InfillFilled`, for any region, heights and shells (`ShellsOK`): the layers projected so far have
  whatever is within a shell's reach as solid (`Shelled`, `Reached`), and a combined layer fills the sparse infill
  of the layers it stands for, whose windows are apart (`StacksApart`). Top and bottom are separate passes, and
  a cell of both is the only one with two.
* `RegionsShared`, for any volumes in any overlap (`RegionsOK`): while parts are clipped, each has what no later of
  those taken so far covers (`Clipped`); afterwards the regions share out the whole under the settings right
  so far (`Shared`, `Right`), and a modifier preserves both. That a single region may be forgotten rests on
  there being one region more than modifiers applied.
* `LayersAtTop`, for any plan (`PlanOK`): the layers added are the first and others of one height (`Slabs`), so the
  last five are alike, and one pass of the alignment either reaches the top or leaves none that can change.

`Inventory_proof` — for any lists of an old file and of the cloud. `StoreIsCurrent` proves `InventoryOK`: memory and file
hold lists of spools, and the page shows the id and the weights of the selected row. That the row is there after a
save or a pull that answers late rests on a merge never losing a row (`MergeGrows`). `OnlySelected` needs `Tidy` beside
it: until a row before the last was deleted, rows are numbered as they stand, an id of the cloud is no other
row's number, and no two rows have one in common, so that an id leads to one row only; that is why it holds only
without `gaps`.

What a recursive function computes is proved by induction on its argument. The prover cannot instantiate a theorem with
an operator, so `Induct` states induction for a set of numbers and is derived from the well-foundedness of
`<` on them; each function has an `Is...` operator that says of what it is the value.

Assumed by the proofs: only the named `ASSUME`s of the modules, which TLC evaluates for the instances of the runs.
Most give the constants their types. Of the others, `ShapesAssumption` says that two neighbouring layers beyond the
first are together no lower than a regular one: combined infill gets the sum of the heights but at least a regular
one, and what is higher than the layers it fills would not be filled once. `ListsAssumption` says that the cloud and an
old file use no id of the form `s1` (`inventory.rs:317`), which a row numbered here may have. `NoneAssumption` and
`StoredAssumption` of `CloudSession` say that no value is the absent one and that the files hold no token that is yet to be
issued: tokens held at the start have the number 0. `TextsAssumption` of `PartCooling`
says what the writer makes of a layer: marks come in pairs (`motion.rs:125`), and ironing
last (`writer.rs:399`); a Z may come before them, between them or not at all. `GivenAssumption` of `RtspReader` says
of what a stream is made: frames, replies with a length, and stray bytes only where no end of a reply's head comes
after (with one in the buffer the reader takes the stray bytes for its head, `rtsps.rs:295`), and in the same packet-wise
terms which units they carry. `MeaningAssumption` of `Template` is the equations above, for ASCII texts. `PlansAssumption` says that
the unit of length can be divided by five, because the code shares the gap among five layers with real numbers.

Only model-checked: what must happen eventually (`BusyEnds`, `OverlayEnds`, `SliceAllEnds`, `Settles`, `CommandsShown`,
`AbandonedLanEnds`, `AbandonedCloudEnds`, `PictureSettles`), which rests on fairness. Every invariant and every action
property that a passing run checks is proved.

## Findings

1. `PreviewKeepsSlice` (run `studio_preview`): `README.md:58` says "Preview is the G-code
   overlay after a slice". A display pack that was in flight when the slice answered resets
   the toolpaths (`ViewportScene::apply_shaded`), and nothing restores them.
2. `SliceAllVisitsEachPlate` (run `studio_slice_all`): slice-all over plates that hold one plain
   part each slices the mesh of the plate shown before, because the scene is refreshed by a
   display pack only after `slice_current` has taken its mesh.
3. `LoginKept` (run `cloud_login_kept`): a login reports "logged in (token stored, not shown)"
   (`elysian-ui/src/lib.rs:1506`), but a thread that loaded the session before it and saves
   after it puts the old token back. In the run it is the UI thread itself: the device list
   due at the start answers during the login, and `apply_device` rewrites the whole session
   to store a serial.

4. `StatusIsPush` (run `printer_status`): `elysian-protocol/src/lan_mqtt.rs:64` says that
   `fetch_status` returns "the first `push_status`". It returns the first report that
   `parse_push_status` accepts, and that one falls back from `print` to the whole object
   (`mqtt.rs:563`): the answer to the `get_version` it has just published passes for a status,
   with all values zero and developer mode on.
5. `PartKeysUsed` (run `part_keys`): `elysian-io/src/bbs.rs:4` says "Object-level process keys overlay
   onto each volume; part keys win." The slicer makes regions of the parts only when there is more
   than one (`elysian-slicer/src/lib.rs:417`) and forgets a single region (`lib.rs:484`): the region keys
   (walls, sparse infill, extruder) of a single part, or of parts alike, are not used.

Noted while modelling, outside the properties: a worker that was abandoned puts its job's token back over a newer one
at the end of every turn (`monitor.rs:1285`, `:1310`), also of one that failed, and as long as it lives this may
restart the camera again and again; a layer's own fan line undoes a boost marked before its Z in spiral_mode until the
overhang's end (`cooling.rs:543`); macro text that is not ASCII is garbled, once more for each `{if}` around it
(`placeholder.rs:100`, `:193`); an `{if}` within brackets is not expanded (`placeholder.rs:83`); a cell that is both
top and bottom is filled twice (`prepare_infill.rs:440`, `:478`); painted colours take nothing from the regions below them (slicer
`lib.rs:694`); a modifier whose keys equal the object's is skipped also where it lies over another
(`lib.rs:415`); a prime tower skipped on a layer without tool changes is printed in the air later
(`wipe_tower.rs:62`); a stray byte makes the search for the end of a head run over packets
(`rtsps.rs:296`); an `inherits` cycle recurses without end (`bbl/inherit.rs:29`); a pull un-archives spools and
overwrites comments; `{if}` without `{endif}` keeps a true branch, while `placeholder.rs:46` says that
the body is dropped.

## Not modelled

See `components` in `PROJECT.json`. Floating-point geometry (perimeters, infill lines, supports, seams),
rendering, and the formats of files and wire messages are outside what TLC can check usefully; they
appear as abstract contents or outcomes. Third-party code under `vendor/` is not part of the system.
Within the parts modelled:

* Device: the dialogs in front of a command are reduced to the sending of it; fields of a report other
  than whose they are.
* Camera: codecs, wire formats of TUTK and Agora, exact waits; the RTSP handshake with its digest, RTP
  headers, the SDP.
* Cloud: whether the service accepts a refresh token twice is not in the repository; CameraWorker
  assumes that it does not.
* Writer: amounts of extrusion, speeds, accelerations, comments; loops shorter than a scarf's gap; a
  Z move within the snippet of wrapping detection that does not end at the layer; spirals of several
  objects or with a prime tower, which the settings exclude (config `lib.rs:2809`); more than two regions.
* Inventory: the push, the binding of a spool to a slot, archived, location and comment.
* Slicer: painted colours, seams and supports; the kinds of solid infill (narrow, floating, below a top);
  less than a cell (gaps closed, edges grown).
* Templates: the expressions within braces, and templates whose braces do not match. The text of a brace is taken
  to be ASCII, with both or neither of two brackets that belong together.

## Plan

What the models do not cover yet, in this order:

1. `KeyExtract` — the ladder of attempts with clean-up on every exit.
2. Filament grouping and wipe tower planning against reference definitions.
3. An abstract session store refined by `CloudSession` with a single background thread.
