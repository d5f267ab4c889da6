# A TLA+ model of the G560 lighting utility

This directory holds TLA+ specifications of the Logitech G560 lighting utility
(`src/`), the TLC configurations that check them on small instances, and proofs
checked by TLAPS. Paths below are relative to the repository root.

The program captures the screen, samples four zones of it, and shows their
colours on the four lamps of a USB speaker. Most of its risk is not in the
colours but in *when* something is shown: a lamp must not stay lit by a frame
from before a capture stall, from before the user turned the lights off, or from
before the speaker was unplugged. What makes this hard is that every stage is
concurrent with every other (tokio tasks, a blocking sampler, blocking pool
threads, a USB thread, streaming threads of GStreamer and PipeWire) and that
any USB report, portal call or file operation may fail.

## 1. Inventory

| Component | Source | State | Operations |
|---|---|---|---|
| Latest-value channel | `src/latest.rs` | watch value and version, mutex-protected `unread` | `send`, `try_recv`, `recv`, drop of either end |
| Engine: capture task | `src/engine.rs:794` | the source, captured and replaced counts | next frame, tag with the generation, send, shut down |
| Engine: sampling coordinator | `src/engine.rs:1036` | stall timer, generation, frame being sampled | detect a stall, receive, sample, hand over, request a blackout, tear down |
| Engine: lighting writer | `src/engine.rs:850` | `LightingWriterState`, pending blackout, the sink | accept an update, write at a deadline, be preempted, black out |
| Recovering light sink | `src/engine.rs:275` | the connected sink, backoff, consecutive failures | connect, write with retry, give up after three failures, black out |
| Recovering frame source | `src/engine.rs:134` | the open source, backoff | connect, next frame with retry, shut down |
| Desktop capture | `src/capture/gstreamer.rs`, `portal.rs` | portal session, pipeline, caps revision, held frame | open, next frame, caps change, ordered close |
| Gamescope capture | `src/capture/gamescope.rs` | PipeWire thread, newest frame, errors | open, next frame, shut down |
| Sampling and colour | `src/frame.rs`, `sampler.rs`, `color.rs`, `transition.rs` | masks, a transition | pure functions |
| USB driver `G560` | `src/usb/device.rs:172` | remembered frame, whether a report was sent | `write`, `blackout`, `calibrate_pacing`, `pulse_protocol_zone` |
| USB interface | `src/usb/device.rs:66` | handle, detached kernel driver | open (detach, claim), release (reattach) on drop |
| Async adapter `AsyncG560` | `src/usb/device.rs:183` | queue of 32, safety flag, worker thread | `write`, `write_update`, `blackout`, drop |
| USB protocol | `src/usb/protocol.rs` | none | the report of a zone and a colour |
| Service | `src/service/runtime.rs`, `proxy_sink.rs` | controller model, sink, engine handle, proxy channel | boot, serve clients, serve the engine, start, stop and restart the engine, shut down |
| Controller model | `src/control/model.rs` | configuration, confirmed colours, pending, health, revision | the clients' changes, `confirm_write`, `record_failure` |
| Configuration store | `src/config.rs` | the file | load (migrate, recover), save by replacement |
| IPC server | `src/service/ipc.rs` | connections | accept, forward a request, publish snapshots |
| GUI client | `crates/logig560-gui/src/client.rs` | connection, queued and pending requests | send, reconnect |
| Command line, setup, packaging | `src/main.rs`, `systemd/`, `contrib/` | none | argument parsing, files |

How they interact:

```
 portal, GStreamer, PipeWire
        |  callbacks, caps events
 FrameSource -> capture task -(latest)-> coordinator -(latest)-> writer
                                  |  blackout request (mpsc) + answer (oneshot)  ^
                                  +---------------------------------------------+
 writer -> ProxySink -(mpsc 8)-> service -> RecoveringLightSink -> AsyncG560
                                  |  ^          pool threads -(queue 32)-> worker -> G560 -> USB
                                  |  +-(mpsc 64)- connection tasks -(socket)- windows
                                  +-> configuration file <- capture task (restore token)
```

Hard behaviours, and the properties that make each component correct:

- **Latest-value channel.** Freshness is kept twice, in the watch and in a flag,
  updated in separate steps. It must still be a one-place slot: nothing lost,
  nothing delivered twice, `send` reports a replacement exactly when the replaced
  value was never received, and the last value precedes the end.
- **Engine.** A blackout can be requested while a frame is tagged, queued,
  sampled, handed over, accepted, being faded to or being written. After it is
  acknowledged none of that work may be shown. The writer may sit in a write that
  does not return, may fail, or may be gone. Teardown joins tasks that hold one
  another's channels. Frame statistics are kept in four places.
- **Frame sources.** The future of `next_frame` is dropped wherever it waits.
  A failed source must be shut down before the next is opened, and nothing may go
  on capturing the screen afterwards. A user's refusal must not be asked again.
- **Desktop capture.** Upstream caps change on a streaming thread while a worker
  installs the caps of an earlier change outside the lock, and while a poll reads a
  sample: no change may be lost, and no frame of other dimensions may pass.
- **Sampling and colour.** Integer arithmetic on dimensions, strides and offsets
  from outside must stay in bounds; the masks must share out the screen.
- **Driver.** Reports fail one by one, and a failed report may have taken effect.
  The remembered frame must not be trusted where the lamps do not show it.
- **Async adapter.** Calls in flight can be given up, overtake one another on
  the blocking pool, and share one safety flag.
- **Recovering sink, USB interface.** A handle dies with the speaker it was opened
  on, and is released by a worker thread while the next is being opened; targets
  go stale while a call retries; cancellation must end every wait.
- **Service.** It waits for an engine that needs the service to black out, and
  later serves what that engine left in the proxy channel.
- **Store, IPC, client.** Two tasks save one file; the process or the machine may
  die between any two steps of a save. A connection may end with a request
  written and not answered, and newer snapshots overtake older ones.

`PROJECT.json` lists every component with its status and every hazard at its line.

## 2. Modules

| Module | Models | State and actions |
|---|---|---|
| `SlotOps` | the slot as pure operators | `Put`, `Taken`, `WithoutTx`, `WithoutRx` on a record |
| `LatestSlot` | abstract specification of the channel | one atomic step per send, receive, end |
| `LatestChannel` | `src/latest.rs` lock by lock | `SendLock`, `SendWatch`, `SendUnlock`; `RecvChanged` (outside the lock), `RecvLock`, `RecvTake`; `TryLock`, `TryTake` |
| `Engine` | `run_engine_with_sampler_and_metrics` | `cpc`, `spc`, `wpc` are where capture, coordinator and writer are; one action per `select!` branch and per step between two awaits |
| `LightShow` | abstract specification of the engine: what a watcher of the lights sees | `Show`, `GoDark`, `PassOver`; an epoch closes, gets dark, and the next one opens |
| `FrameSource` | the traits of a source and of its factory as their caller sees them | a call, its answer, which errors are retried |
| `OutputCaps` | `OutputCapsCoordinator` | the probe on the streaming thread, the worker that installs caps outside the lock, the gate for frames |
| `DesktopSource` | the portal session and the GStreamer source | set-up and its undoing, polls with the held frame, rebuild, ordered close, what a dropped future leaves |
| `GamescopeSource` | the PipeWire thread and its owner | start-up and shutdown hand-shakes, error queue, frames |
| `Capture` | the capture task and `RecoveringFrameSource` over either backend | connect, read, retire, back off, cancel, drop, close |
| `Zones`, `ZoneMasks` | zones, polygons, compiled masks, the mask cache | operators |
| `FrameLayout` | what both backends make of a buffer, what `RgbFrame::new` accepts, pacing | operators |
| `Sampling` | `sample_zones` | operators, in exact arithmetic |
| `SampledFrames` | the frames `Capture` hands on, seen through the masks | the mask property |
| `Transition` | `TransitionController`, durations, USB reports | operators on a transition record |
| `DeviceOps` | what an operation of the driver can do to the lamps and to what it remembers | sets of outcomes |
| `Device` | abstract specification of the driver, one step per call | `Write`, `Blackout`, `Diagnostic` |
| `G560` | the driver, one step per USB report | `PaintZone`, `WriteDone`, `WriteFails`, the stimulus, cleanup and pulse steps |
| `AsyncG560` | adapter, pool threads, worker | client calls, `Send(i)` per pool thread, worker steps `Recv`, `Proceed`/`Expire`, `Perform...`, `LowerFlag` |
| `UsbInterface` | who has claimed the interface, whether the kernel driver is bound, who owes its reattachment | detach, claim, release, reattach |
| `RecoveringSink` | `RecoveringLightSink`, `RetryBackoff`, the service's device factory, over `UsbInterface` | the environment (plug, unplug, cancel, ageing), the calls, opening step by step, each attempt, `GiveUp`, the waits, the worker thread that releases an old handle |
| `Light` | abstract specification of the recovering sink, one call at a time | the calls, opening and losing the speaker, the answers; unplugging |
| `Service` | the service task, the controller model, the proxy channel and the engine as seen through it | client commands, dispatching, joins, boot and shutdown; the engine's calls |
| `ControllerModel` | every operation of `ControllerModel`, zone by zone; validation; brightness | operators from a model to a model and an effect |
| `ConfigStore` | `FileConfigStore`, one step per system call, two writers | create, write, rename, sync, fail; crash, loss of power; load |
| `Ipc` | a connection's streams and the task that serves it | ready, event, read, respond, end |
| `ServiceClient` | the GUI client's supervisor and requests | issue, connect, write, read, disconnect |
| `Control` | clients, connections, the service's command handling with its saves, the engine's token saves, the file | composition of the three above, with crashes, stops and restarts |
| `LatestChannelProofs`, `EngineProofs`, `G560Proofs`, `AsyncG560Proofs`, `RecoveringSinkProofs`, `ServiceProofs`, `CaptureProofs`, `ControlProofs` | theorems (section 5) about the module each is named after; `EngineProofs` also `Transition`, `CaptureProofs` also the frame operators, `ControlProofs` also `ControllerModel` | |
| `MC...` | instances for TLC | |

How they compose: `Engine` uses `SlotOps` for both of its channels, which
`LatestChannel` is shown to implement. `Capture` extends both sources, and
`DesktopSource` extends `OutputCaps`: callbacks, workers and the task interleave.
`RecoveringSink` extends `UsbInterface`. `AsyncG560` and `RecoveringSink` use
`DeviceOps` for what the driver does, which `G560` is shown to implement.
`Engine` is shown to implement `LightShow`, and `RecoveringSink` to implement `Light`.
`Control` extends `ServiceClient` (which extends `Ipc`) and `ConfigStore`.
`Service` uses of the sink what `Light` says of it, and of the engine's writer what
`Engine` does (see its header comment). `Service` and `Control` are two
views of the service task, one towards the lights and one towards its clients and its
file; their product is out of TLC's reach. Where one needs the other it takes a free
choice: in `Control` a command's effect on the lights is a stage that may last as
long as it likes, in `Service` a save works or leaves the old file.

Operators marked `mutant` are deliberate faults, each a plausible bug at the
definition that follows it. No specification uses them; each shows
that a property would notice that bug.

### Abstractions

- **Data.** A frame is a number and its generation tag (`Engine`), its dimensions
  and caps revision (`DesktopSource`) or one colour per zone (`DeviceOps`). A
  configuration is how many changes it holds and its token (`Control`). A
  report is its zone and colour.
- **Numbers.** Dimensions, offsets, masks, durations and brightness are integers, with
  the widths of the code where it checks them (`UsizeMax`, `U32Max`, `RevisionMax`).
  What the code does in `f32` is done exactly: fractions are numerators over a common
  denominator. Rounding, the colour spaces (linear, Lab, Oklab) and the
  final 8-bit encoding are left out, so that nothing is claimed about a colour's value.
- **Time.** A timer that is armed may be due in any state. Two facts about durations are
  kept where behaviour rests on them: in `RecoveringSink` a target is stale
  after a backoff of 500 ms or more; in `Service` writes the engine sent before
  its 1 s blackout timeout are stale once it has passed (freshness: 500 ms).
- **Failures.** A report that fails may have reached the lamp. A write that is
  given up may or may not have taken effect. Lamps of an unplugged speaker do
  not change; one plugged in again shows anything. Portal calls, pipeline state
  changes, PipeWire, libusb and file operations may fail whenever they are
  called. A loss of power leaves of an unsynced file whatever it may: absent, torn or whole.
- **Abandoned calls.** The caller of `AsyncG560` may drop a call, as `run_engine` does to
  any sink when a blackout preempts a write (`src/engine.rs:933`) or times out (`:866`).
  `RecoveringSink` has a caller that awaits every call: a `RecoveringLightSink` is made only by
  the service (`src/service/runtime.rs:84`), which awaits each of its calls to the end,
  while the engine drops calls of its `ProxySink`. Nothing is claimed of a recovering
  sink whose calls are dropped: over the adapter such a command may be performed later, so it
  could light the speaker after a blackout that answered Ok, and `Light` would not hold.
- **Left out.** Latency histogram, metrics other than drop counts, recovery
  counters, diagnostics; the spacing of reports (6 ms); in `Service` also snapshots,
  the revision, `setup_complete` and the restore token, which `Control` has.

## 3. Runs

Bounds are in the `.cfg` files and the `MC` modules. Runs that pass:

| Run | Shows | Bounds and why they are enough |
|---|---|---|
| `latest_channel` | slot refinement; send accounting, with flag and watch in agreement; newest value delivered | 4 sends: one before, one inside each gap of, and one after two receives |
| `engine` | nothing stale is shown, dark after teardown, frames counted once; implements `LightShow`; a stall goes dark, a stop returns, a writer failure is reported, no update is starved | 3 frames, 2 stalls: a frame of each of three generations at every place of the pipeline |
| `capture` | no caps change lost; a frame has the size of the newest caps when its gate was read last; nothing left capturing; a refusal is final; cancellation ends the task; masks follow their polygons | 2 dimensions (landscape, portrait), 3 caps events per pipeline: a rotation and back, and one more during an install. 2 queued PipeWire errors. Masks for 52 screen sizes: even, odd, single columns and rows, a centre on the diagonal |
| `g560` | trusted frames are shown; implements `Device` | 3 zones (first, middle, last), 2 colours |
| `async_g560` | flag, expiry, darkness; implements `Device` until a call is abandoned; calls are answered, the device is released | 2 zones: a failed command can leave one lamp lit; 3 calls, queue of 2: a write between two blackouts, all in flight, queue full |
| `recovering_sink` | rendered is shown; a reopened speaker was dark first; implements `Light`; cancellation ends a call; the sink recovers | 2 zones, as above. Unplugging and reopening are unbounded |
| `service` | lights follow the configuration; confirmed colours; no unwanted engine; shutdown completes, so joins return | 2 colours, proxy channel of 2: a given-up write and a blackout both left behind, and a full channel for the next engine |
| `control` | answered changes survive; requests run once; snapshots go forward, clients converge, requests are answered | 1 window, 2 requests over queues of 2, 2 starts; 3 units of work in all, a request, a token grant, an engine event, a crash, a stop or a closed window each. So any two requests with any one disturbance, or one request with two |

`CHECK_DEADLOCK FALSE` is set where the system may stop: both ends of the channel
dropped (`LatestChannel`), the task ended (`Capture`), the adapter dropped and its
worker done or the bound on calls reached (`AsyncG560`), the service done (`Service`,
`Control`). In `Engine` the state after return loops, so that any other stop is a
reported deadlock; `G560` and `RecoveringSink` never stop.

`service` lets clients restart the capture only while content-aware lighting is
wanted (`RestartAtWill = FALSE`): with restarts at other times `LightsFollowConfig`
and `EngineOnlyWhenWanted` do not hold, which is the finding of `service_restart`.
`AnsweredChangesSurvive` excepts an answered change that a save of a restore token undid
(the model lowers `promised` then), and everything once two saves have collided (`collided`),
see V5 and V6.
`NothingLeftBehind` exempts a source whose opening or closing was cut off by
cancellation, see V1 and V2.

The run `engine` checks `OnlyCurrentWorkIsShown` as a part of `BlackoutProtocol`.
`DarkAfterTeardown` and `GenerationReopensInTheDark` have theorems of their own (section 5) and
no run: the first follows from `BlackoutProtocol`, the second is a step of `LightShow`.

`MasksFollowPolygons` (`SampledFrames`) is about operators without state (`ZoneMasks`). It is
attached to the states of `Capture` in which a frame is handed on, the point from which masks matter.

### Disagreements that a run shows

Each is a run that expects TLC to find the violation.

1. `service_manual` (`ManualIsShown`). Switching from content-aware to manual
   awaits the engine while nobody drains the proxy channel. The engine's last
   blackout times out and stays in the channel; it is served after the manual
   colours were written, and the speaker goes dark and stays so.
2. `service_restart` (`OffIsOff`). `RestartCapture` starts an engine without
   looking at `lights_enabled` or the mode.
3. `recovering_sink_expired` (`ExpiredIsDark`). The black written for a stale
   target is an ordinary write, skipped by the driver when it remembers black,
   although a partly failed write has lit lamps since.
4. `recovering_sink_blackout` (`OkBlackoutIsDark`). After three failures the
   handle is dropped even if its blackout failed; the next blackout has no handle
   and returns Ok.

### Other disagreements met while modelling

The model contains these behaviours; no standing run is spent on them. Where a formula is
named, it is in the module and TLC refutes it when it is added to the module's run.

- **V1** (`Capture!EndedMeansClosed`). Cancelling while `GamescopeFrameSource::open` waits
  on its blocking thread leaves the PipeWire thread running: the worker is told to stop
  by a source that does not exist yet (`docs/architecture.md:57`: "Always calls
  `FrameSource::shutdown` on teardown").
- **V2** (`Capture!EndedMeansClosed`). In the same way a portal session stays open when
  the future is dropped in the middle of its set-up or of a failed source's shutdown.
- **V3** (`UsbInterface!ReattachedBeforeReclaimed`). A retired handle releases the
  interface and reattaches the kernel driver in two calls. If the sink claims the
  interface in between, reattaching fails, and the new handle found no driver
  that it would reattach (`docs/usb-and-safety.md:16`, `docs/decisions/0005:13`).
- **V4**. The service keeps the restore token of its start-up in memory and writes it
  with each change, over a newer one that the engine has saved; a cleared token
  comes back in the same way.
- **V5** (`Control!AnsweredChangesStay`). The engine loads the configuration, adds its token
  and saves (`src/service/runtime.rs:580-589`); a change that was saved and answered in between
  is undone in the file, until the next one is saved (`README.md:10`: "Monitor authorization,
  mode, colors, and service state survive reboots").
- **V6** (`Control!FileStaysWhole`). When syncing the directory fails after the rename, the
  temporary's name is removed (`src/config.rs:285-287`), which by then may be that of the other
  task's file. A third save takes the name, and the second renames the third's half-written
  file into place (`docs/capture-backends.md:37`: "write → fsync → atomic rename").
- **V7** (`Capture!HoldEndsWithCaps`). When the screen changes to another size of the same
  scaled dimensions, or from A to B and back to A, the frame held since before is served
  again: `last_frame` is compared by dimensions and never cleared
  (`src/capture/gstreamer.rs:651-660`; `docs/capture-backends.md:148`: a caps change has to
  "invalidate hold").
- **V8**. The window's script asks for the cached snapshot once at start, and applies the answer
  without comparing revisions, so it may replace a newer one (`crates/logig560-gui/ui/app.js`). The
  script is outside the modelled client.
- **V9**. `ChooseDesktopDisplay` clears the token before it stops an engine that may be
  opening, which then saves a new token.

A caller of the adapter that abandons calls can also see a write it gave up
light the speaker after a later blackout (its pool thread was late), and a
blackout's flag lowered by an earlier one. The service never abandons a call, so
these are not listed as disagreements; what does hold for such callers is
`DarkUntilNextWrite` (only an abandoned write relights) and `ExpiryHasACause`.

## 4. Fairness

- `Engine`: weak fairness of each task's own steps, since tokio runs a ready task
  and timers fire. Frames and the end of a write are *not* fair: a source may
  go silent and a device may hang. `StallGoesDark` therefore speaks of a hung write.
  A blackout does end: it has a timeout (`src/engine.rs:866`). `UpdatesAreNotStarved`
  assumes in its statement that a write always ends or is preempted, and nothing about
  deadlines, which may be due at every turn: what saves an update is that the writer looks
  at the channel after each write (`src/engine.rs:1003`).
- `LatestChannel`: the receiver's steps while it is in a call, the holder of the mutex.
- `Capture`: the task, the calls under way (portal, GStreamer and PipeWire answer, with a
  failure if need be), the PipeWire thread and the caps worker. Frames, caps events,
  errors of a stream and the end of a backoff while not cancelled are not needed for
  `CaptureStops`, and the streams' events are not fair.
- `G560`: none is needed for what its run checks.
- `AsyncG560`: the worker and every pool thread are scheduled; the client is not.
- `RecoveringSink`: the sink's steps and the worker thread that releases an old handle;
  strong fairness of claiming the interface, of the first blackout and of a write,
  which only matter for `RecoversWithDevice`: a speaker that stays plugged in does not fail
  for ever. `CancelEndsCall` holds without them.
- `Service`: the service task, the engine's timeout and its reaction to cancellation.
  A write is only fair once the service is cancelled, for the sink retries as long as the
  speaker is missing.
- `Control`: the service, the engine's save once begun, each connection's task and each
  client; the service is started again after a crash (`Restart=on-failure`). Clients need
  not ask anything, the portal need not answer.

## 5. Proofs

TLC checks an instance; the theorems hold for every value of the constants. They assume
only the named assumptions on constants, which TLC evaluates in the runs, and where the
table says so the condition under which the run checks the property too. One assumption is
about the model rather than the code: `ControlAssumption` has a finite set of requests and
`MaxSetting` no smaller than it, so that the numbers that stand for settings never run out. Requests are
numbers there, as in the client (`ClientAssumption`).

| Theorem | States | For any number of |
|---|---|---|
| `EngineProofs!TypeCorrect` | `[]TypeOK` | frames, stalls |
| `EngineProofs!ProtocolHolds` | `[]BlackoutProtocol` | frames, stalls |
| `EngineProofs!NoStaleLight` | `[]OnlyCurrentWorkIsShown` | frames, stalls |
| `EngineProofs!StopsInTheDark` | `[]DarkAfterTeardown` | frames, stalls |
| `EngineProofs!NoEmptySelect` | `[]NeverAnEmptySelect` | frames, stalls |
| `EngineProofs!StatisticsAreExact` | `[]FramesAccountedFor` | frames, stalls |
| `EngineProofs!ReopensInTheDark` | `GenerationReopensInTheDark` | frames, stalls |
| `EngineProofs!StallEndsProperly` | `StallEndsWithAcceptableFrame` | frames, stalls |
| `EngineProofs!EngineImplementsLightShow` | `ImplementsLightShow` | frames, stalls |
| `LatestChannelProofs!EverySendCounts` | `[]SendsAccountedFor` | sends |
| `LatestChannelProofs!ChannelImplementsSlot` | `SlotRefinement` | sends |
| `G560Proofs!TrustedIsShown` | `[]TrustedFrameIsShown` | zones, colours |
| `G560Proofs!DriverImplementsDevice` | `ImplementsDevice` | zones, colours |
| `AsyncG560Proofs!FlagHasOwner` | `[]SafetyFlagHasOwner` | calls, queue length, zones, colours |
| `AsyncG560Proofs!DarkAfterOk` | `[]DarkUntilNextWrite` | the same |
| `AsyncG560Proofs!ExpiryIsCaused` | `[]ExpiryHasACause` | the same |
| `AsyncG560Proofs!AdapterImplementsDevice` | `ImplementsDevice` | the same |
| `RecoveringSinkProofs!RenderedMeansShown` | `RenderedIsShown` | zones, colours, disconnections, failures |
| `RecoveringSinkProofs!StartsBlack` | `DarkBeforeAnyScene` | zones, colours, disconnections, failures |
| `RecoveringSinkProofs!SinkImplementsLight` | `ImplementsLight` | the same |
| `ServiceProofs!ConfirmedIsShown` | `[]ConfirmedOrDark` | channel length, colours |
| `ServiceProofs!ConfigIsFollowed` | `[]LightsFollowConfig`, if `RestartAtWill = FALSE` | channel length, colours |
| `ServiceProofs!EngineIsWanted` | `[]EngineOnlyWhenWanted`, if `RestartAtWill = FALSE` | channel length, colours |
| `CaptureProofs!CapsInvariant` | `[]CapsInv` | dimensions, caps events, errors |
| `CaptureProofs!GateIsNewest` | `[]GateFollowsCaps` | dimensions, caps events, errors |
| `CaptureProofs!CapsAreInstalled` | `[]NoCapsLost` | dimensions, caps events, errors |
| `CaptureProofs!FramesAreCurrent` | `FramesFollowCaps` | dimensions, caps events, errors |
| `CaptureProofs!FailedSourcesAreClosed` | `[]NothingLeftBehind` | dimensions, caps events, errors |
| `CaptureProofs!RefusedOnce` | `RefusalIsFinal` | dimensions, caps events, errors |
| `CaptureProofs!SampledAsDrawn` | `[]MasksFollowPolygons` | screen sizes |
| `CaptureProofs` on frames (8) | masks follow their polygons; a layout, mask, sample or deadline stays in bounds | dimensions, offsets, strides |
| `ControlProofs!RequestsAreHandledOnce` | `[]RequestsRunOnce` | clients, requests, queue lengths, starts, disturbances |
| `ControlProofs!ShownGoesForward` | `SnapshotsGoForward` | the same |
| `ControlProofs!AnsweredChangesLast` | `[]AnsweredChangesSurvive` | the same, settings, tokens, temporary names |
| `ControlProofs!OnlyTokensUndo` | `OnlyTokenSavesUndo` | the same |
| `ControlProofs` on the model (3) | a change keeps a configuration valid and shows in the revision | revisions |
| `EngineProofs` on fades and reports (3) | a fade ends at its target; reports differ | colours, times |

**The engine.** `OnlyCurrentWorkIsShown` is not inductive: it says nothing of an
update waiting at the writer or in the channel, which the next step may show. The
inductive invariant is `TypeOK /\ BlackoutProtocol`, whose parts are:

- `CoordinatorPart`: where the coordinator is decides the parity of the
  generation; no request is under way unless it waits for one.
- `RequestPart`: a request is in exactly one place (queue, writer's hand, answer)
  and always announces the successor of the current, odd, generation; an
  Ok answer means the writer holds nothing and the lights are black.
- `WriterPart`: what the writer holds has the generation it accepts, which is the
  current one whenever that is even.
- `UpdatePart`: queued updates have even tags not above the generation, and after
  the teardown blackout strictly older ones, so none is accepted.

A stall request turns the generation odd, so tags taken from then on are odd and
rejected by the coordinator; `PrepareSafety` empties the writer and sets its accepted
generation to the announced one; the coordinator reopens that very
generation only after the answer. Older updates still queued have a smaller tag and are
rejected. The proof has one lemma per task and invariant
(`CaptureTypes`, `CoordinatorTypes`, `WriterStepTypes`, `CoordinatorProtocol`,
`WriterProtocol`, with `TypeStutter` and `ProtocolStutter` for steps of the
others), each split by action, and `InductiveStep` joins them. The action properties
follow from the invariant step by step.

`FramesAccountedFor` adds `PlacePart` (where a frame can be: the coordinator holds one
only while it samples, the writer that writes has one, and the channel is open until
cancellation) and counts: no step changes the sum of the frames in flight, dropped and
shown except a capture, which adds one to both sides, and a cancellation, which may lose one.

`EngineImplementsLightShow` looks at the engine from outside. An epoch is a generation rounded
down to an even one; it is closing while the generation is odd, dark once the writer has
answered Ok, and over when that was the teardown's blackout. The new part is the order of
frames: `Oldest` is the oldest frame at the writer or still to come to it, found by
asking the places of the pipeline from the writer back to the source. `InOrder` says that
each place holds an older frame than all behind it, and `PlaceMoves` that a place
which keeps its frame, loses it or gets one from behind keeps that order and moves `Oldest`
forward only; `PipelineMoves` chains five places, and each action is checked to move them so.
What can be painted is then the oldest frame there is, of the current epoch (`Paintable`).
For this `OwedPart` says that a writer that was told of a blackout holds nothing. So
every step that touches the lights is `Show`, `GoDark` or `Darken` (`WithinPhase`), and only
four kinds of step change the phase.

**The channel.** `ChannelInv` adds to the types who holds the mutex (`HoldersPart`), and
`FreshnessPart`: a value is unread exactly when the receiver has not seen the watch's
version, *or* it was told of it and has not taken it yet. The second case is
what makes the flag and the watch differ in the middle of a receive; without that
case the agreement of the two (`FlagAgreesWithWatch`) is not inductive.
`CountPart` relates the counters. For the refinement each lock-by-lock step is a send,
a receive or an end of the slot, or a stutter; a send takes effect in
`SendWatch`, a receive in `RecvTake` or `TryTake`.

**The driver.** `DriverInv` says of a call under way what it has painted so far
(`PaintedPart`, `DarkPart`), how the lamps differ from those it began with
(`WritePart`) and what it may remember (`RememberPart`); `TrustPart` is the property at
rest. `DriverImplementsDevice` maps a call under way to the device it began
with (`View`), so only the report with which a call returns, or fails, is a step of
`Device`; the others stutter.

**The adapter.** `AdapterInv` puts each call in one place (a pool thread, one place of the
queue, the worker) as long as it has no answer, and says that a call with neither an answer
nor a client that awaits it was given up. A raised flag then has an owner because only the
worker lowers it, when it is done with the blackout it serves, and then there is none.
Darkness and the cause of an expiry follow from the order in which calls are made: what the
worker performs after the last call's blackout is an earlier call, which had no answer when
the blackout was made, so it was given up.

**The recovering sink.** `SinkInv` adds to the types `OpenedDark`: a handle that reaches
the speaker and is past its opening has been dark since it was claimed. A step that
answers Rendered, or paints a scene, is one of `SendingSteps`, which all go through
such a handle.

`SinkImplementsLight` forgets attempts, backoff, handles and the interface. A handle that is
being opened is not open yet (`SpeakerIsOpen`), so finding and claiming the device stutter and the first
blackout is `Opens` or `FailsToOpen`; a handle that died is not open either, so that what is
sent through it fails without effect or, if the driver skips it, is `Skipped`. `LightInv`
adds what the mapping needs to `SinkInv`: a live handle is to a speaker that is plugged in, a
handle that is gone or not open yet goes with no belief about the lamps, and only a captured
target can be stale. Each attempt then paints wholly and is believed, or partly and is not (`PaintedIsMixed`). `Light` is honest about the gaps
that `ExpiredIsDark` and `OkBlackoutIsDark` show: `Expired` may skip a black that was
believed, and `NothingToDarken` answers for a speaker that was given up.

**The service.** `ServiceInv` says what may be in the proxy channel: the engine awaits one
command at a time, so a live one is the last (`LivePart`), and what an engine left behind when it
ended is stale or a blackout (`FreshPart`); so a command left behind blacks out, or is
answered with darkness. With `RestartAtWill = FALSE`, `WantedInv` adds where an engine may
run, and that what is in the service's hand while it dispatches is wanted or stale.
`LightsFollowConfig` must hold during the dispatch as well (`FollowPart`) to be inductive.

**Desktop capture.** `CapsInv` has a part for each thing the worker may be in the middle
of: the newest change is pending (`PendingIsNewest`), or being installed, or
overtaken, in which case the newer one is pending or the caps are unusable
(`UpdateIsOld`, `TakeHasWork`); an idle worker has installed the newest (`IdleIsDone`);
and an open gate means an idle worker and the newest caps (`GateIsIdle`). The worker
works outside the lock between taking and committing, so "idle means installed" is not
inductive without those parts. `FramesFollowCaps` needs besides that a poll about to
accept a frame compared it with the gate it read, that a frame on its way to the engine has the
caps of when that gate was read last (`PollInv`), and that the answers of set-up and close are
errors (`PrimaryInv`). It says no more: between the last reading, on a blocking thread, and
the return by the awaiting task the caps may change, and the frame is returned all the same.

`NothingLeftBehind` needs the life cycle of both backends (`Lifecycle`): which stage of a
source goes with which call of the task (`StagePart`, `OpenerPart`), and that nothing
captures in more places than the property names (`Quiet`): also while an opening has not begun
or has failed, and when a shutdown has answered.

**The control path.** `ControlInv` follows a request: until it is handled it is in one place
(`PlacesPart`: a client's outbound queue, its stream, or the service's queue), not handled
(`FreshPart`) and sent once, since a request that is sent is never sent again. The task
of a connection waits for the one request of it that the service has
(`ServedPart`), so an answer goes to the request it belongs to (`AnsweredPart`).
Snapshots on their way to a client are in order and not newer than the published one
(`OnTheWayPart`), which the service only replaces by a newer one; between two runs of the
service the epoch orders them.

`StoreInv` adds the files. `TemporaryPart`: a writer's temporary file is its own, is whole
before it is renamed, and the file is whole once it was renamed. `KeptPart`: every file that a
loss of power can leave is synced and not torn; the settings that are `promised` are in all of
them (`Has(promised)`); the settings in memory and those the service is saving are no older;
and settings that are `stored` but not answered yet are in all of them too. A
load after a crash therefore finds a whole file with the promised settings.

Two things break this, both the code's, and the theorems say how far each goes. A rename by the
engine may put older settings back, which lowers `promised`; `OnlyTokensUndo` proves that nothing
else does, and that those settings are the ones the engine had loaded. And a save that fails after its rename
may remove the other task's temporary file: `StoreInv` is proved up to that step only
(`UntilCollision`, with `CollisionLasts`), and `AnsweredChangesLast` claims nothing after it.

**Operators.** `CaptureProofs`: `DecodingInBounds` (scaling an accepted Gamescope buffer
never reads outside it), `SamplingInBounds` (masks of the cache never index outside an
accepted frame), `MasksShareTheScreen` (each pixel is in one zone's mask, the one `zone_at`
finds), `MasksAreMirrored`, `DominantIsUnique` (the dominant colour does not
depend on the order of a hash map), `PackedSizesDiffer` (the gate's packed number
identifies a size), `DeadlineAdvances` (frame pacing). They rest on facts about
quotients and products (`Division`, `ScaledCoordinate`, `OffsetInBounds`).
`MasksFollowThePolygons`, on which `SampledAsDrawn` rests, is for every size of screen: seen in the three products
`Across`, `Down` and `Area` the integer rule, the crossings of a ray with the eighteen edges and the
fallback rule are linear, above the knee and below it, and the parity of the crossings of
each polygon comes to one comparison (`LeftRearContains` and its like).
`ControlProofs`: `ScaledChannelFits` (brightness in 16 bits), `OperationsKeepConfigValid`
(whatever is saved loads again), `RevisionTellsSnapshots` (an operation that
changes a snapshot changes its revision, also where the `u64` wraps).
`EngineProofs`: `CompleteMeansTarget`, `EachZoneFadesOnItsOwn`, `ReportsAreDistinct`.
The steps of a fade do exact arithmetic, as said under abstractions.

Each inductive invariant was checked by TLC on the run's instance before it was proved.

Model-checked only: liveness, since properties under fairness and `ENABLED` are out of the
prover's reach (`NewestDelivered`, `StallGoesDark`, `StopsWhenAsked`, `WriterFailureIsReported`, `UpdatesAreNotStarved`,
`EveryCallAnswered`, `DeviceReleased`, `CancelEndsCall`, `RecoversWithDevice`, `Stops`, `CaptureStops`,
`EveryRequestAnswered`, `ClientsConverge`), and the four disagreements of section 3. Every invariant, action
property and refinement of a passing run is also a theorem, under the conditions in the table. What folds over a frame's pixels
or bins compute is not proved either: that takes induction over data.

## 6. Plan

Done: every component of section 1 whose state outlives a call, each with the
operations that change it; the proofs of section 5.

Left, in order:

1. `Engine` composed with `Service`. Today `Service` has the engine's calls as its
   environment, and `Engine` an arbitrary sink. The two agree by construction, not by a theorem.
2. The service's sink calls as steps of `Light`, over a queue of proxied commands.
3. The durations between write deadlines (20 ms and more). Liveness does not depend on
   them, only how often a transition is repainted.

### Not modelled

- **Values of colours.** Rounding in `f32`, the conversions to linear, Lab and Oklab, and
  the final 8-bit encoding: TLA+ has no floats, and the code's control does not depend on
  them beyond what `Sampling` and `Transition` keep.
- **Diagnostics.** Recovery counters, the latency histogram, log and error text.
- **The window.** Presentation, tray and script of the GUI: what the client
  of `client.rs` does is modelled, what is drawn with it is not.
- **Third-party parts.** GStreamer, PipeWire, the portal, libusb, the kernel: external,
  modelled by what the code calls and which answers it handles.
- **Command line, set-up, packaging.** Parsing and file copies with no state
  that outlives a call.
- **The wrap of the generation at 2^64.** Out of reach of a run; parity survives it
  because 2^64 is even, but order does not, and `EngineProofs` counts in Nat.
