# Verification of pakon-macos

TLA+ models of the driver and web service for the Pakon F-135 film scanner, their
TLC configurations, and proofs checked by TLAPS. Paths are relative to the
repository. A definition that models code says in `PROJECT.json` ("map") which
lines it stands for; this file says what the parts are, how they fit, what has
been checked and proved, and what has not.

## The system

The scanner is a USB device with a command channel (EP1: one packet out, one
back), an image endpoint (0x86) and control transfers. It keeps its own state:
whether the readout streams, whether the motor turns. Nothing tells it that a
host process died.

| Component | State | Operations | Hard because |
|---|---|---|---|
| **Replayed scan** `do_scan`, `drain_image`, `sm_replay_teardown` (`tools/pakon_replay.c`) | script position, detector (`film_seen`, `trail_white`), image file | replay of a captured script, `--autostop`, `--drain` | a jump from the middle of a script to its teardown; failing transfers; sessions that start on what a killed one left |
| **Driven scan** `do_scan_sm`, `sm_scan_loop` | as above, `idle`, `reads_after_motor` | setup spine, takeover, poll-driven loop, captured teardown or bare stops | two patience limits, four ways to the end, a busy device |
| **Film advance** `do_advance` | steps, polls, time limit | script, then a0 / HOST polls / a2 per frame | late replies taken for new ones, polls and time running out |
| **Command channel** `pakon_cmd` (`src/pakon_cmd.c`) | what the endpoints hold | send, then recv, or send alone | nothing matches a reply with its command; replies nobody read stay for the next process |
| **Short tools** `do_open`, `do_read_params`, `do_configure` (`tools/pakon_replay.c`), `do_raw` and the default of `tools/pakon_probe.c` | none beyond the process | handshake, parameter reads, register writes, one raw packet | each meets what the one before left in the scanner |
| **USB transport** (`src/pakon_usb.c`) | context, claim, endpoint cache | open, claim, transfers | partial claims, unplugging |
| **Firmware load** (`pakon_usb_load_firmware`, `wait_for_warm`) | cold or warm device | replay of a `.pakfw`, re-enumeration | a device that disappears and returns under a timeout |
| **Driven calibration** (`src/pakon_calib.c`, `do_calibrate`) | registers, gains, offsets, convergence flags | offset loop, priming, gain loop | empty measurements, latched convergence, writes that fail unseen, what is reported against what is applied |
| **Framing, Intel HEX** (`pakon_proto.c`, `pakon_hex.c`) | none | build, serialize, parse | widths and boundaries |
| **Web service** (`web/app.py`, `web/decode.py`) | `_state`, files with fixed names, a queue of jobs, child processes | scan, process, export, clear, downloads | handlers interleave at every await, one worker thread, clients that leave |
| **Page** (`web/static/index.html`) | buttons, crop boxes, the chosen file | the operator's clicks | it believes what it last heard |
| **Decoding** (`tools/pakon_image.py`) | none | alignment, registration, frame grid, cropping, colour | index arithmetic inside numeric code |
| **Capture analysis** (`tools/analyze_capture.py`, `raw2pnm.py`), **logging** | none | off-line conversions | not hard |

The short tools, the scans and the calibration are separate processes that use the
scanner in turn; what one leaves on the endpoints, in the registers or in the
scanner's memory is what the next one finds.

The page calls the service over HTTP and reads its answers as event streams. The
service runs `pakon_replay --scan --autostop` as a child process and the decoder
on its worker thread. `pakon_replay` drives the scanner through `pakon_cmd` and
the transport. The scan writes a `.raw`, the prescan reads it and writes a ribbon
and a preview, the export cuts the ribbon into frames.

What makes each part correct:

* a scan that says it succeeded has stopped motor and readout, whichever way it
  ended; the image holds the roll; a scan that could not begin destroys nothing;
* the end of the roll is decided from what was read since the roll began, neither
  early (inside the film) nor never;
* a status is about the command it is taken to answer; a step ends with the frame
  in position and the motor stopped; loops are bounded;
* what a calibration reports is what the front end holds, and nothing converges on
  an empty buffer; a configuration or a firmware load that succeeded is in the
  scanner; a handshake that succeeded found the channel in step;
* whatever fails, the interface is given back;
* a job is admitted when none is in progress, its answer arrives, and the crops
  are cut from the roll they were placed on.

The hazards behind these, each with its line and the property that watches it,
are listed in `PROJECT.json`.

## Modules

| Module | Models | Notes |
|---|---|---|
| `ScanLines` | script lines, engines, chunk classification | a line is one of ten kinds, told apart by what the code does with it; a chunk is its number of samples, of white and of lit ones, classified with the code's percentages |
| `ScanHost` | what both scans share | opening, transfers and their failures, detector, teardown replay, being killed |
| `ScanReplay` | `do_scan` | extends `ScanHost` |
| `DrivenScan` | `do_scan_sm`, `sm_scan_loop` | extends `ScanHost` |
| `RollSession` | the promise of a scan, in the abstract | both scans refine it |
| `CmdChannel` | `pakon_cmd` and an asynchronous device | actions on the channel only |
| `Advance` | `do_advance` | extends `CmdChannel` |
| `Framing` | `pakon_proto.c`: build, serialize, parse; the register write | operators on bytes |
| `UsbSession` | context, handle, claim; the scanner on the bus | actions on those variables only |
| `Firmware` | `pakon_usb_load_firmware`, `replay_fw_line`, `wait_for_warm`, and the scanner's memory | extends `UsbSession` |
| `Tools` | the short tools, one after another on one scanner | extends `Firmware`, `CmdChannel`, `Framing`, `CalibMath` |
| `CalibMath` | register encoders, convergence test, feedback laws, `pakon_calib_configure`'s registers | operators on integers |
| `Calibrate` | `do_calibrate`, `pakon_calib_run` | extends `CalibMath` |
| `WebService` | `app.py` handlers, `_run_job`, jobs of `decode.py`, the scan's child | operations on `_state`, files, queue, streams |
| `WebPage` | `index.html` and the composition with `WebService` | one operator's actions, reload included |
| `ScanReplayProofs`, `DrivenScanProofs`, `AdvanceProofs`, `CalibrateProofs`, `FramingProofs`, `ToolsProofs`, `WebPageProofs` | theorems | each about the module it is named after |
| `ScanHostProofs` | lemmas on transfers, engines and the detector | used for both scans |
| `MC*` | instances for TLC | |

**State and code.** `pc` is the place in the function; `pos` the line `fgets`
returns next; `rc` and `errs` are the C variables, `"killed"` is added. The
device's variables (`engines`, `fifo`; `requests`, `replies`, `motor`, `inPlace`)
outlive the process. Variables marked *history* exist for properties only
(`mark`, `missed`, `windows`, `heard`, `clean`, `seen`, `short`, `crossings`). An action
is one iteration of a loop, one line of a script, or, where the world can come
between them, one of the transfers in it. `Advance` splits a command into its
send and its receive, the scan models do not: there nobody looks at a reply
except for the status poll of the driven loop, which is read at once.

In `Tools` the channel carries the bytes of the frames, since the handshake
compares them, and the scanner decodes a register write from the bytes it gets.
`todo` holds the exchanges a tool has before it, each with what becomes of the tool
when it fails: a reply that is compared (`--open`), a result that is ignored (the
prelude), an error that ends the tool (`--configure`), a send without a receive
(`--raw` without `--in`). The lines of a prelude that send no command are exchanges
that are passed over (`PassesLine`). `pc` names the libusb call the tool is in. A handle is
`"gone"` when the scanner left the bus under it: every transfer on it fails. In
`Firmware` the scanner's memory records for each address the script and the line
that wrote it, so that a mixture of two loads can be told from an image; `runs` is
the script whose image was whole when the processor was released. That a script's
image is whole is decided by its last write to each address (`LastWrites`). Two
scripts are assumed to have such a write to a common address (`ImagesOverlap`), since
a memory that held both images would not say which one runs: a script has to write the
reset vector at 0, where the processor begins, and `resources/f135.pakfw` does so in
both its stages. The
registers of a configuration are assumed to be distinct, as the 17 of
`pakon_calib_configure` are; of two writes to one register only the later would stay.

In `Calibrate` a register write is one step for the three channels; `lost` has the
channels whose last write did not arrive or was refused, which the code does not
look at. What a line of the open gate averages to is an input: the scanner may
show any level of `Means` and `Peaks` at any setting, so nothing rests on the
feedback converging. A read is a step of its own (`Acquire`): nothing, a part, or
an error with or without data.

A transfer (`SendCommand`) is delivered and answered, delivered and not answered
in time, or not delivered. In the latter case the engine it should have stopped
is in `missed`: the code counts such an error and goes on, so no property can
promise that engine stopped. A session may be killed at every step; buffered
output may be lost.

In `WebService` a file is represented by the roll it was made from. Handlers are
atomic between awaits: `api_process` is one step for a scan on disk, and two for
an upload (`UploadBegins`, `UploadEnds`), as the copy gives way to other
requests. A prescan is three steps (load the raw file, save the ribbon, preview
and metadata), an export two. Different output folders are taken for one: a scan
into a second folder would only leave more files alone.

Definitions whose comment begins with *Variant* are not part of any
specification. Each is a definition the way a plausible slip would have written
it, and for every property of a passing run there is one under which TLC finds
the property violated (`PROJECT.json`, "mutants").

## What is checked

Runs that pass:

| Run | Instance | Shows |
|---|---|---|
| `scan_replay` | 3 scripts (one like the captures, one with malformed lines, one without a tail), 4 kinds of chunk, threshold 2, 2 sessions, 1 error per session | `EnginesStopped`: exit 0 leaves only engines running whose stop was missed; `DetectorExact`: the detector is a function of the image since the motor start; `Terminates`; `RefinesRoll` |
| `driven_scan` | 4 scripts, 3 kinds of chunk, patience 3 and 2, size limit on and off, 2 sessions, 1 error per session, streams of any length | the same with `LoopExact` for the loop's counters, and with bare stops for scripts that have no usable tail; `Terminates` excuses a scanner that stays busy and, without a size limit, a stream that never ends |
| `advance` | 3 scripts, 2 steps, 2 polls, 2 sessions, endpoints that hold 2 packets | `InStep`: while no transfer failed, the reply waited for is the only one; `StatusTrusted`: success means this frame is in position; `MotorStopped`; `Terminates` |
| `calibrate` | 2 channels, 2 dark and 2 white levels and black, 3 offset and 2 gain iterations, 2 lost writes | `ReportedGain`, `InBandApplied`: what is reported against what the registers hold; `NoDataNoConvergence`; `Terminates` whatever the stream does |
| `tools` | 2 tools of six, 2 firmware scripts (two stages; one mangled), endpoints that hold 3 packets, 1 power cycle | `Balanced`: claims are given back; `IdleMeansInStep`: a handshake that succeeded found the channel in step and left it empty; `ConfigLands`; `LoadedMeansOurs`; `Terminates` |
| `web_page` | 2 scans, 1 upload file, 3 jobs, 1 crossing | `FlagExact`, `CropsMatchRibbon`, `NoStaleScan` as long as nothing crosses a request in progress; `RibbonUntouched` always; `Answered` |

Runs that TLC refutes, where the code does something other than the repository
says:

| Run | The repository | The code |
|---|---|---|
| `consecutive_white` | `SM_TRAIL_WHITE` counts "consecutive white chunks" | dim chunks in between do not start the count again |
| `busy_bounded` | after film, two empty windows end the loop, busy or not (`docs/PROTOCOL.md`) | a busy window is not counted |
| `steps_in_position` | each step polls until the frame is in position | when the polls run out the step counts as done, exit 0 |
| `limit_respected` | `--limit` caps the poll loop | the clock is read between steps only |
| `one_job_at_a_time` | "Already processing" | an upload is copied between the check and the flag |
| `processes_what_it_names` | after a scan, Process runs on it; its path is shown | a file chosen earlier is uploaded again instead |

**Bounds.** Two sessions are enough for a session to start on what another left,
killed or finished; state that reaches a third passes through the same device
variables. One error per session lets every transfer of a script fail in turn;
the properties excuse the engine concerned and no other. Thresholds of 2 separate
the first, the last and an intermediate white chunk. `FileCap` bounds what is
recorded of the image, never what the scanner sends: in the drain and in the driven loop
data goes on past it, with the detector still looking at it, so that an endless stream is
a behaviour. In `scan_replay` the record has room for film, white, film, white, white;
`LoopExact` compares the driven loop's detector with the record while that is complete,
which in `driven_scan` is up to four chunks (film, white, film, white), and in the theorem
up to any number. A size limit is one that is reached while chunks are recorded. Two polls let a step succeed at
once, succeed late and run out. Capacity 2 lets a stale reply wait beside the
current one. Three offset iterations (8 in the code) are a first, a middle and a last one; two gain
iterations (4) a first and a last. The dark levels are one inside the tolerance
and away from the target, where the step must be nothing, and one far outside,
the white levels one too dim and the saturated one; two
lost writes can be the last of two channels or of one. Two polls of `wait_for_warm`
(26) let the scanner return in time and late. The parameter table is read in 1 piece
(16), all alike; the configuration of the run is two of its 17 writes, one per chip,
with a two-byte value and a negative offset. Two tools are one that leaves
something and one that finds it. **Endpoints**: `IdleMeansInStep` depends on how
much the scanner's endpoints hold. Replies are told apart by their bytes only; with
five replies of an earlier handshake left over, all five steps would see what they
expect. `ToolsProofs!IdleInStep` is the theorem up to a capacity of 5, and at 6 TLC
finds the property violated; real bulk endpoints are double-buffered. The run uses 3. Three jobs are needed for an export between two prescans, and one
crossing for two of them to be queued together.

**Fairness.** `WF_vars(Proceed)` of the command-line tools: each call they make
returns, since every transfer carries a timeout and file reads do not block. The
same holds for `Next` of `Calibrate`, where every action is the host's, and for the
tools, whose `Terminates` has no escape: all their loops count. The
scanner promises nothing: it may never answer, stay busy, jam. Hence the escapes
in `Terminates` of the scans, which are real: a drain of a readout that was never
stopped goes on for as long as data comes, and the driven loop for as long as the
device says busy or, with `--max-mb 0`, for as long as something other than the open
gate comes at least now and then (`Streaming`; before film the open gate counts too),
since every byte puts `idle` back to 0. TLC finds these endless scans when the
escape is left out. With a limit (512 MB by default) the stream is no excuse; nor is it
after film when only the open gate comes. `WebPage` assumes that the worker thread runs, that a copy of an
upload goes on, and that finished jobs' events are delivered to pages that stay;
nothing of the operator, the scanner or a page that left.

**Deadlock** is not checked: at the session, scan and job bounds, all six models
stop by construction.

## What is proved

For all scripts, chunks, thresholds and bounds that the named assumptions of the
modules admit:

| Theorem | Statement |
|---|---|
| `ScanReplayProofs!TypeCorrect` | `Spec => []TypeOK` |
| `ScanReplayProofs!EnginesStoppedAtExit` | `Spec => []EnginesStopped` |
| `ScanReplayProofs!DetectorIsExact` | `Spec => []DetectorExact` |
| `ScanReplayProofs!ImplementsRoll` | `Spec => RefinesRoll` |
| `DrivenScanProofs!TypeCorrect` | `Spec => []TypeOK` |
| `DrivenScanProofs!EnginesStoppedAtExit` | `Spec => []EnginesStopped` |
| `DrivenScanProofs!LoopIsExact` | `Spec => []LoopExact` |
| `DrivenScanProofs!ImplementsRoll` | `Spec => RefinesRoll` |
| `AdvanceProofs!TypeCorrect` | `Spec => []TypeOK` |
| `AdvanceProofs!ChannelInStep` | `Spec => []InStep` |
| `AdvanceProofs!SuccessIsThisFrame` | `Spec => []StatusTrusted` |
| `AdvanceProofs!MotorStoppedAtExit` | `Spec => []MotorStopped` |
| `CalibrateProofs!TypeCorrect` | `Spec => []TypeOK` |
| `CalibrateProofs!ConvergesOnData` | `Spec => []NoDataNoConvergence` |
| `CalibrateProofs!GainReported` | `Spec => []ReportedGain` |
| `CalibrateProofs!OffsetApplied` | `Spec => []InBandApplied` |
| `CalibrateProofs!DeadBand`, `OffsetEncoding` | no step inside the tolerance; what nine bits keep of an offset |
| `FramingProofs!RoundTrip`, `ParsedAgain` | serialize and parse are inverse to each other |
| `FramingProofs!TornFrameRefused` | a frame of another length than it states is refused |
| `FramingProofs!WriteDecodes` | a register write arrives as meant, for every 16-bit value |
| `ToolsProofs!TypeCorrect` | `Spec => []TypeOK` |
| `ToolsProofs!ClaimBalanced` | `Spec => []Balanced` |
| `ToolsProofs!ConfigurationLands` | `Spec => []ConfigLands` |
| `ToolsProofs!LoadedIsOurs` | `Spec => []LoadedMeansOurs` |
| `ToolsProofs!IdleInStep` | `Spec => []IdleMeansInStep`, if `EndpointCap <= 5` |
| `WebPageProofs!TypeCorrect` | `Spec => []TypeOK` |
| `WebPageProofs!RibbonKept` | `Spec => []RibbonUntouched` |
| `WebPageProofs!ScanNotStale` | `Spec => []NoStaleScan` |
| `WebPageProofs!FlagIsExact` | `Spec => []FlagExact` |
| `WebPageProofs!CropsMatch` | `Spec => []CropsMatchRibbon` |

*Engines.* `EnginesStopped` speaks of the end of a session and is not inductive.
`EngineInv` adds what is true on the way: `RestartedSince`, an engine that runs
and whose stop was not missed was started again after each stop in the tail that
has been passed. At the end of the script the tail's last word on each engine is
a stop (`StopsEngines`), so there is no such start left. The early stop needs no
case of its own: the teardown begins again at line 1 and passes the whole tail.

The driven scan shares these lemmas (`ScanHostProofs`). Its `EngineInv` needs one
clause more for the script without a tail, where the two bare stops come one after
the other: between them the readout is off or its stop was missed.

*Loop.* `LoopInv`: until the takeover the detector is at rest, and in the loop there is
a mark to count from; with that each of `LoopExact`'s counters can only go on from an
exact value, or back to nothing. `TypeOK` bounds `idle` by the patience in force, which
is not inductive alone: film shortens the patience from `LoadWait` to `MaxEmpty`. That
the chunk that does so starts `idle` again, and that a count that goes on is below the
patience, is in `LoopInv`, and the two are proved together (`TypedLoop`).

*Detector.* `DetectorInv` ties `armed` to `mark` and separates the replay, where
the count is below the threshold, from the stages after the early stop, where it
is equal. Its step is a lemma on what one more chunk does to the set of trailing
whites (`OneMoreChunk`).

*Refinement.* `RollStep` maps each action to one of `RollSession` or to a
stutter, using the invariants above where the abstract step has a condition
(`BeginDrain`, `Complete`).

*Advance.* Two invariants, one on the other. `ExchangeInv`: while no transfer
failed, the channel is quiet or holds exactly the command of the current place in
the code or the one reply to it. `FilmInv` then follows the film: motor running
in the poll loop, success only with the frame there, motor stopped after a2, and
`StoppedBefore` for the part of the script already replayed. Without
`ExchangeInv` a success could be any command's.

*Calibration.* The three properties speak of the end of a phase; their invariants
say what holds between writing a register and measuring with it. `GainInv`: the gain
register holds `gain[k]` from `WriteGains` to `MeasureGain`. `OffsetInv`: the same
for the offset inside the dark phase, and from its last measurement on the register
lags by the step then taken; `DeadBand` turns that into equality for a channel in
tolerance. `SawInv`: what is in the buffer was read in this phase, and black is in
neither band (`BlackConvergesNot`).

*Web page.* `FlagExact` and `CropsMatchRibbon` relate the service and what the page
believes of it, across requests; neither is inductive. `JobInv` follows a request from
the click to the end of its response: while nothing crosses it there is one stream,
one queued job at most, and that job is its; the flag is up once its copy, if it has
one, is over. On it rests `RibbonInv`: metadata, preview and ribbon on disk are of one
roll, and so are the crop boxes on the card, except while a prescan has thrown the
metadata away and not yet made new ones. `ScanInv` gives the same for scans: one that
is not over is the latest, and its page waits for it, so that its first chunk cannot
come after another scan's. `RibbonUntouched` has no such excuse: it needs `QueueInv`
alone, that only the first job of the queue has begun.

*Sessions.* `SessionInv`: at which places a load can be and how often it has polled, and
that only an exchange with a reply waits for one. `TypeCorrect` needs it for `polls`.

*Configuration.* `ConfigLands` speaks of registers when everything is over. `ConfigInv`
follows each write: it is still in `todo`, at the place its number says, or it
`Lands`: the last command in the queue to its register, or in the register with no
other behind it. Serving a command keeps that (`LandsServed`), and the writes after it
are to other registers (`ConfigHead`). What earlier tools left in the queue is before
it, and that is all that has to be known of it.

*Load.* `LoadInv`: every address has the last of the lines so far that wrote it
(`WrittenBefore`), whatever was there before the load; the scanner is still the cold one
the tool opened, or has left, and then runs this script's image if nothing but comments
are left (any other line would fail and be counted as dropped). A released processor
with a whole image runs the script's and no other (`OneImage`, from `ImagesOverlap`).

*Handshake.* `OpenInv` counts: `Stale` commands and replies were on the endpoints when
the first command was sent, and their number does not change, since every exchange
adds one and takes one. Behind them the handshake's own are in order (`Ordered`), so
that exchange *r* sees a stale reply, or the reply to command *r - Stale*. The five
commands ask for different addresses but for the first two, so it sees what it expects
only if nothing is stale, if *r* is not above `Stale`, or as the second with one stale;
and with fewer than five stale the fifth exchange is none of the last two.

*Claim.* `ClaimInv` says at which places of a tool the handle and the claim are none;
between `open` and `close` the operating system's note and `dev->claimed` change
together, except in the load, which claims without a `pakon_dev`.

The proofs are by the prover's SMT and Zenon backends, with PTL for the temporal
steps; no fact is assumed beyond the modules' assumptions on their constants.

TLC has checked the inductive invariants on the instances of the runs before they were
proved. Checked by TLC only: the liveness properties `Terminates` and `Answered` (the
prover has neither ENABLED nor fairness), and the refuted properties. Every safety
property of a passing run is a theorem, `IdleMeansInStep` with the hypothesis on the
endpoints that it needs (see *Bounds*). What the feedback loops of the calibration
converge to, and what a recursive definition computes for every input, is out of the
prover's reach.

## Other observations

What the models show of the code without a run of its own:

* *Reported offset.* `pakon_calib.h:208` calls the offset of the result the applied
  one. It is one step ahead of the register, unless the last dark level was in
  tolerance (`InBandApplied`).
* *Latched flags.* A channel that was in tolerance once counts as converged even if
  its last measurement was not (`pakon_calib.c:343`); the loop ends early only when
  all are in tolerance at once.
* *Dead zone.* The step is nothing within 38 of the target, the tolerance is 32: a dark
  level of 262 to 267 or 333 to 338 is out of tolerance and never corrected.
* *Saturation.* The white band reaches above 65535, so a saturated channel has
  converged.
* *Wind-up.* The host's offset is not limited; the register is (`OffsetEncoding`). An
  empty stream counts as black: the offset goes up, the gain to 63.
* *Register writes.* `--configure` ends on a transport error but does not look at the
  status; "all register writes accepted" is printed for refused ones too. The loops
  of the calibration do not look at either.
* *Prelude.* When its script cannot be opened `--configure` goes on with nothing
  replayed, `--calibrate` ends. Image reads in a prelude are skipped, so what it made
  the scanner send is still there, and is what the first acquisition measures.
* *Parameter table.* A short read is not an error of `--read-params`.
* *Firmware.* Failures are tolerated anywhere in the script, not only where the scanner
  leaves at its end; `wait_for_warm` takes any warm scanner on the bus.

* *Endless scan.* `--max-mb 0` leaves the driven loop without any bound on a stream that
  never shows film and then the open gate: the motor runs until the process is killed.
* *Dropped responses.* A response that is dropped before its generator was started never
  runs the `finally` clause that clears `processing` (`StreamDropped`, `app.py:268`).
  Whether that can happen depends on the version of the web framework; no property rests
  on it.

What the properties leave out on purpose, because the code promises nothing there, and
what the model shows all the same:

* `InStep` and `StatusTrusted` end with the first failed transfer and ask for a channel
  that was clean at the start. A reply that is late, or that a killed run left, is in
  `Advance` and is taken for the reply to the next command.
* `MotorStopped` speaks of exit status 0. When the reply to a motor start is lost,
  `do_advance` exits with 1 and sends no stop.
* `FlagExact`, `CropsMatchRibbon` and `NoStaleScan` hold while no reload, Clear or second
  upload crosses a request. Without that condition TLC refutes them within a few steps: two
  scans at once, a prescan between an export's request and its job, a second upload.
  `RibbonUntouched` needs no such condition.
* `LoadedMeansOurs` is about loads that dropped no line, and about one scanner.

## Not modelled

* *Photometry and colour* (`tools/pakon_image.py`, most of it): floating-point
  arithmetic over whole images.
* *Capture analysis*, *logging*: no state, no concurrency, no property.
* *Intel HEX* (`pakon_hex.c`): the parser has no caller but its unit test; the
  firmware is replayed from a `.pakfw`.
* *Listing and sweeping* (`pakon_usb_list`, the endpoint sweep of `pakon_probe`): they
  print. The sweep tries alternate settings 1 to 3, which this scanner refuses.
* *Contents*: scripts and image samples are abstracted to what the control flow tells
  apart, packets too except in `Tools`. The scans open the device in one step;
  `UsbSession`, which takes the opening apart, is composed with the short tools.
* *Control bits and exposures* of the calibration: written, and looked at by no
  property.
* *Undocumented device behaviour*: the scanner is as permissive as the code has
  to expect. Only what `docs/PROTOCOL.md` states of it is assumed: starts and
  stops of the engines, commands served in order, the status of HOST while the
  motor runs.
* *Several pages at once* (another device on the network): seen only as a page
  that was reloaded while its requests went on.
* `RewindFails`: when the script cannot be opened a second time, `do_scan` sends
  no stop at all and exits 0. The action is there and marks both stops as missed.

## Plan

1. **Crops**: the crop window of `export_frames`, box editing of the page,
   `marker_align` and `autocrop` runs; window theorems (inside the ribbon, of the
   asked width).
2. **WebService** downloads (zip, contact sheet), what holds after Clear, a second
   page. In a module of its own over the exported frames: the composition with the
   page has 1.2 million states already.
3. Proofs: theorems on the window arithmetic of **Crops**; `Advance` and the short tools
   as implementations of one abstract command channel, in which a reply belongs to a
   command.
