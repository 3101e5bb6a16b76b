# onmark in TLA+

onmark turns a screenplay written in HTML into a video file. A Rust compiler
(`crates/core`) parses it and solves its timeline; a Rust renderer
(`crates/render`) cuts the timeline into regions, drives a pinned Chromium over
CDP, frame by frame, through a small TypeScript runtime that runs in the page
(`packages/runtime`, `packages/authoring`), and pipes the pictures to FFmpeg; a
CLI (`crates/cli`) bundles the page with Node (`packages/bundler`) and keeps a
store of captured frame artifacts that all onmark processes of a machine share;
a Node launcher (`packages/launcher`) installs the pinned browser; an AWS Lambda
adapter (`deploy/aws-lambda`) captures single render units remotely. This
directory models the parts of that system whose correctness depends on the
order in which things happen, or on several computations of the same fact
agreeing with each other, checks the models with TLC and proves with TLAPS the main
results about the concurrent parts and about the compiler's solver and partition.

* [Inventory](#inventory): components, state, operations, hazards
* [Modules](#modules): what each models and how it corresponds to the code
* [Runs](#runs): what each run checks, its bounds, its fairness
* [Proofs](#proofs): what holds for every value of the constants, and why
* [Findings](#findings): where code and documentation disagree
* [Not modelled](#not-modelled): what stays out, and why
* [Plan](#plan): what comes next

`PROJECT.json` is the machine-readable side: every definition with the source
lines it stands for, every run, every property with mutations of the code that
break it, every hazard at its line.

## Inventory

| Component | Source | State | Operations | Modelled by |
|---|---|---|---|---|
| Screenplay compiler, front | `crates/core/src/syntax`, `compiler/bind.rs`, `resolve.rs`, `variant_*.rs` | a tree under construction, tables of ids | parse with recovery and limits, bind, resolve ids, cues and variant bindings | `Screenplay` |
| Screenplay compiler, solver | `compiler/solve.rs`, `captions.rs` | cursor, events, diagnostics | place shots, transitions, content, effects, music; import captions | `Solve`, `Compilation` |
| Time and media model | `crates/core/src/model` | none | times and rates to frames, natural durations, treatments | `MediaTime`, `FrameIntervals` |
| Timeline and render graph | `timeline.rs`, `render_graph.rs` | none | partition into regions, variant scopes of a region | `RenderGraph` |
| Wire protocol | `crates/core/src/protocol` | none | project a film to a unit's plan, number its nodes, check a plan in Rust and in the page | `BrowserPlan`, `WirePlan`; the commands in `RuntimeSession` |
| Presentation bundler, page index | `packages/bundler`, `packages/authoring` | an output directory | project the authored document to a region, index it, apply bindings, measure videos | `RegionPage`, `BackdropLayout` |
| Unit planning | `crates/render/src/unit.rs`, `visual.rs` | none | compose, normalize and narrow units, choose the visual path, native geometry, audio plan | `RenderUnits`, `BackdropLayout` |
| Audio mix | `crates/render/src/encoder/audio.rs`, `ducking.rs` | none | place, fade and duck each input, in samples | `AudioMix` |
| Browser runtime session | `packages/runtime/src/session.ts` | lifecycle state, `#busy` | load, prepare, seek, confirm, dispose | `RuntimeSession` |
| Presentation adapter | `packages/runtime/src/presentation.ts`, `media.ts`, `resource.ts` | own lifecycle, staged frame, bound videos | the same five, over a pool of video workers | `RuntimeSession` |
| Decoded video controllers | `packages/runtime/src/video.ts` | pending frame and its observation, presented media time | bind, stage, confirm, discard, dispose | `RuntimeSession` |
| Native capture loop | `crates/render/src/executor/capture.rs`, `frame_capture.rs` | unit, frame, previous capture | preflight, frame loop, cadence, failure path | `CaptureSession` |
| Browser session and compositor clock | `crates/render/src/browser/session.rs`, `compositor.rs` | clock, last capture, capture mode | request with deadline, surface commit, capture, retry, recapture | `CaptureSession` |
| Child processes | `encoder/session.rs`, `encoder/audio.rs`, `browser/process.rs`, `crates/media/src/process.rs`, `crates/cli/src/bundler.rs` | a child, the readers of its pipes, partial output | start, feed, wait, kill, join, drop | `Subprocess` |
| Layered encoder | `crates/render/src/encoder/layered.rs`, `layered_process.rs` | FFmpeg child, two pipes, reader task, channel | start, write frame, receive frame, finish, abort, drop | `LayeredSession` |
| Frame artifacts | `crates/render/src/frame_artifact`, `executor/frame_capture.rs` | one file, a private temporary file per writer | create, write, finish, publish without replacing, open, verify, reuse | `FrameArtifact` |
| Frame assembly and video publication | `crates/render/src/executor/mod.rs`, `output.rs` | FFmpeg child, verifying reader, private output directory | validate, stream, finish, mix, publish | `Assembly` |
| Frame-artifact store | `crates/cli/src/artifact_cache.rs` | files by identity, one lock file, staging directories | lookup, repair, publication, eviction of corrupt entries, assembly | `ArtifactCache` |
| Commands render, snapshot, review | `crates/cli/src` | files of a project | compile, plan, capture, checkpoints | `Compilation`, `ReviewPlan` |
| Browser installation | `packages/launcher/src/browser.ts` | lock directory with an owner marker, staging, installation | acquire, reclaim, refresh, verify, sweep, stage, publish, release | `BrowserInstall` |
| Lambda worker | `deploy/aws-lambda` | one S3 object per identity, multipart uploads | look up, repair, capture, publish conditionally, compare | `LambdaCapture` |
| Diagnostics, reports, arguments, scripts | `diagnostics`, `cli/src/{arguments,inspect,review/report}.rs`, `scripts`, `conformance` | none | wording and layout | see [Not modelled](#not-modelled) |

How they interact:

* A command compiles a screenplay, imports its captions, partitions the film,
  bundles one page for every region, composes a render unit for each from the
  film's timeline and the bundle's manifest, captures the units, and assembles
  their artifacts. Every stage cuts or renumbers what the one before it built,
  and the last ones check again, in another language, what the first ones
  decided.
* The native loop calls the browser runtime through one CDP evaluation per
  command and waits for the reply with a deadline; when the deadline passes the
  page goes on executing. The runtime refuses a command while it is busy.
* The runtime session calls its adapter, and the adapter its video controllers;
  each `await` in between lets media events, frame callbacks, timers and other
  commands run. Three state machines must stay in agreement.
* Chromium's compositor makes a picture only when it is given a turn with a
  time that is later than every earlier one.
* Processes share the artifact store and the browser cache through the file
  system only: a file lock that dies with its holder in the store, a lock
  directory with a heartbeat in the browser cache. Lambda invocations share an
  S3 object and its ETag.

What is hard about it: commands that meet a suspended command; a deadline that
passes while the work continues; results that arrive after they have been given
up; a picture that lags behind the page; a verdict reached without the lock and
acted upon with it; processes that are killed, or that stall and resume, at any
step; faults that look like corruption; a child that fills its pipe, leaves
descendants that keep it open, or survives its kill; a response that is lost
after the request was served; intervals that are cut, rounded and counted again at every stage;
three walks of one document that must number it alike. `PROJECT.json` lists
each of these hazards at its line together with the properties that would
catch it. Five of them are covered in part only, and their notes say so: two in
the browser installer (a waiter may remove a lock it did not look at, and an
owner that lost its lock while it stalled goes on), the upload whose id comes
after its deadline, the child whose kill fails in earnest, and the bindings that the
properties of `RegionPage` except by name. In each the code itself has no
answer, so that the properties say what holds outside these cases.

What makes each part correct:

* compiler: an accepted film contains what was written, or it was reported, and
  nobody meets an error later that the compiler could have found;
* partition and plans: each frame belongs to one region, no region needs what
  another one knows, and a region's page, plan and document agree on every
  element and every binding;
* pictures: whatever path draws a frame, in a sequence of units, alone, in a
  snapshot or for a review, it shows what the film shows there;
* audio: each sound is mixed once, on its frames, and music gives way exactly
  where speech is;
* runtime: after any sequence of commands the three state machines agree; a ready frame
  shows exactly the frame asked for; nothing that a command started outlives it; disposal releases everything;
* capture: every frame handed to the sink shows what the film shows at that
  frame, in order and without gaps, or the session fails;
* children: no end of a call leaves a child, a task or a rejected output
  behind; success is only what was observed; nobody waits in a circle or for
  ever;
* composition: a composed frame is recorded with the findings of its own
  browser frame;
* artifacts: what is at a destination is whole and survives a power loss, or is
  known to be damaged before any of it is used; one of several captures
  publishes; what a capture returns is what is on disk when it does;
* assembly: the published video is the film of the plan, made of the artifacts
  the assembler was given; nobody else's file is replaced;
* store: bounded, never loses a valid entry, never pulls an artifact away from
  a reader, nobody waits for ever;
* installation: one installer at a time, a browser that was handed out stays
  whole, a successor's lock is never removed by its predecessor;
* Lambda: a location that was returned holds what was captured; a sound object
  is never replaced; owned uploads are released.

## Modules

Names of actions and variables follow the functions and fields they translate.

### Screenplay, RegionPage

`Screenplay` is the way from tokens to a resolved film. An author writes one
token after the other (`StartTag`, `Text`, `EndTag`, `EndOfFile`), and the parser
and tree builder do with each what `syntax/parser.rs` and `builder.rs` do:
nesting and retention limits, solidus, stray ends, elements left open.
`nodes` and `open` are the tree; binding and resolution are operators over it,
which say what the compiler sees of a tree (`Bound`), what it reports and what
it accepts. A tag keeps what later phases tell apart: its kind, the id it declares, the
cue and field it refers to, and whether its remaining attributes are valid.

`RegionPage` extends it with the three walks of one document that happen after
acceptance: the plan of a region (`PlanOf`, numbered by the Rust side in a
preorder of the film), the document that the bundler leaves of the authored
text for that region, and the index of elements and bindings that the page
builds when it loads the plan, in full or as a foreground without videos.
Both properties speak of documents whose film the bundler finds (`FilmIsFound`, see
[Findings](#findings)).

### Compilation

The pipeline of `render`, `snapshot` and `review` as a state machine over one
film, in phases: cues, shots, solved, timed, planned.

| Module | What it defines |
|---|---|
| `FrameIntervals` | half-open frame intervals: span, containment, intersection |
| `MediaTime` | nanoseconds, rates and the output grid: natural duration, frames of a treatment, the source frame the page and FFmpeg each choose |
| `Solve` | the solver's state (`cursor`, `events`, `scenes`, `shots`, ...) and one action per authored element, in the order of `solve.rs`; what was written beside what was placed |
| `RenderGraph` | the partition of a film into regions and the variant scopes of each |
| `WirePlan` | the contract of a plan: `CheckedFaults` (Rust), its numbering, and the page's own version of the rules |
| `BrowserPlan` | the projection of the film to a unit's evaluation interval, narrowing, placement boundaries |
| `BackdropLayout` | from the page's measured boxes to whole-pixel crops and scales (`Inscribed`, `Positioned`, `Geometry`), the collector's refusals, overlap |
| `RenderUnits` | units: `Compose`, the choice of the visual path, `Normalize`, `IntoFrame`, native inputs, audio plan, the checks of a sequence |
| `AudioMix` | inputs of the mix in samples: fades, ducking windows and their merging into segments |
| `ReviewPlan` | the checkpoints of a review, and the region and position each is read from |
| `Compilation` | the actions that join them: `SolveNext`, `ImportCaptions`, `Plan`, `Snapshot`; the picture of a frame |

What a browser draws is external: `Shown` makes visible what the plan makes
visible, `StandsAsTheBrowserDraws` is CSS `object-fit` and `object-position`
written independently of the renderer's arithmetic, and `Box` gives the
measured element box of each video. Box is a function of the video: that layout
does not depend on which other shot is shown is the contract the repository puts
on the author of a separable backdrop (`docs/en/presentation-contract.md:484`). A picture
is a record of what is visible, with a source frame for each video and, for
native ones, its crop and destination; two pictures are equal when they show
the same things.

Abstracted: time is small integers with ten nanoseconds to the second, so that
rounding happens constantly; only constant-rate sources; names of media are
assets; the budget limits that stay are those on audio tracks, ducking windows,
media layouts and checkpoints. The partition is computed for the film, not
transported as JSON.

### LambdaCapture

Each invocation walks the steps of `handle`: `Lookup`, `Admit`, `Repair`,
`Capture`, `Start`, `Write`, `Complete`, `Abort`, `Compare`. `object` is what S3
stores at the one key of the identity, `uploads` the multipart uploads it
holds, `upload` the one a worker knows of. S3 is external: a request is atomic,
its response may be lost, upon which the SDK repeats the request or gives up.
`Fail` is any phase that fails or meets the deadline before it had an effect;
`Kill` ends an invocation anywhere, `Damage` overwrites the object.

### Subprocess

Five owners of one child each, in one discipline: the encoder (`FfmpegSession`),
the audio mixer, the bundler, the probe (blocking, with threads) and the browser.
`kind` is chosen in `Init`, so that one run covers all five; `killable` says
whether kills work at all. The owner's actions end at its awaits; `Leave` is its
end with everything its `Drop` does. The readers of a child's pipes are tasks or
threads of their own, which go on after the owner has left until their pipe
closes. The child is external: it succeeds, fails, hangs, fills its pipes, and
may leave descendants that hold them. A child that a signal has reached takes no
further step. Assumption: a browser answers the initial handshake
(`connect_with_config`, which has no deadline) or ends.

### RuntimeSession

`session`, `presentation` and `video` are the three state machines;
`command`/`step` is the command `#busy` guards and the await it is suspended
at; `work` the outcomes of the current batch of video work. External are `decoded`,
the position of each `<video>` element, `onscreen`, the frame the compositor
last showed of it, and `visible`, the videos shown. A client may send any command in any state (`Dispatch` and the
`Begin...` operators); a refused command changes only the reply. A batch of video
work (`Queue`, `StartLoad`, `SettleLoad`, `StartStage`, `SettleStage`) is run by at most
`MaxConcurrent` workers in plan order, as `mapConcurrent` does, and the
command's barrier waits for all outcomes before it looks at any. A worker that
has not settled would go on after its command has answered (`Finish`): that none
does is `NothingOutlivesItsCommand`. Media events, frame callbacks and the timers
that bound them are actions of their own, so that they come in any order: an element
stands at the frame it was asked for (`Decode`) before its seeked event, a callback
(`Present`) runs before or after that event, and also for an earlier frame, which the
observer must not take for its own; `FrameReadyIsExact` compares what was observed
with `onscreen`. Observers survive a failed command in one case: a confirmation that
fails at one video never comes to those after it, which keep their observers until
disposal. `Unconfirmed` names that case by its trace, a shown video that is neither
observed nor known to be presented, and no other failure is excepted. Abstracted: media times are tokens, the resources a page
waits for are one bounded step, author callbacks run inside the step that calls
them and may fail.

### CaptureSession

Extends `RuntimeSession` with the native side: `native` is the position in
`render_session` (unit, pass, phase, frame), `awaiting`/`answer` the CDP
request, `clock` the compositor clock, `previous` and `lastCapture` the two
pictures that may be reused. `Send`, `Receive` and `GiveUp` are the request with
its deadline; `InitializeSurface`, `CommitSurface`, `Capture`, `RetryCapture`,
`Recapture` are the BeginFrame transactions, `TakeScreenshot` the portable mode.
Chromium is external and modelled by the contract the code's own comments rely
on: a picture is made only at a turn; a layer that enters at a placement
boundary may be missing at the first turn after it and its media one turn
longer; a screenshot without damage may be omitted. `PageStep` lets the runtime
take any of its steps between native steps.

### FrameStream

The abstract specification of a capture: a finite film is delivered frame by
frame, and the stream ends completely or in a failure. `CaptureSession` is
shown to implement it by `Promise == INSTANCE FrameStream WITH ...` and the
property `DeliversTheFilm`.

The composed frames of `LayeredSession` are a second implementation of it.

### LayeredSession

`call` is the await at which the session of `layered.rs` is suspended, or where
it rests; `fed`/`taken` count what was written to FFmpeg's input and read from
it, `made`/`got` the same of its output, in chunks smaller than a frame, so that
a write may suspend in the middle of one; `reader` and `channel` are the task
of `read_frames`; `pending` and `records` the findings staged in the artifact
writer and its records. `Feed`, `ReceiveFrame`, `ReceiveLast`, `Exited`, `Drain` are
the session's progress, `BrokenPipe`, `FramesEnd`, `TimeOut` its errors,
`KillChild`, `Stop`, `AbortEnds`, `CleanupTimesOut` and `Release` (`Drop`) its
ends; `Cancel` drops the future that owns it at any await. FFmpeg is external:
it composes in lockstep, holds a frame back until it sees the next one or the
end, and may crash, hang, or end early with success (`overlay=shortest=1`).
Abstracted: the byte budget may refuse any frame; stderr is left out, its task
ends as the reader does.

### FrameArtifact

`files` maps destinations to published files, `damaged` remembers which of them
the environment changed. A capture (`pc`, `at`) walks through its jobs three
times: it creates a writer for each (`Create`, `FrameArtifactWriter::create`), takes
the frames of each (`Capture`, `write_frame`), and then finishes each (`Seal`,
`Sync`, `Link`: the header over the reserved bytes, `sync_all`, the hard link).
`Collide` is the link that fails; `FoundExisting`, `Open` and `Verify` are the reuse
of what is there, which only `capture_frame_artifact_report` tries (`Reusing`), and
`Refuse` every verdict against it. `staged` are the writers' temporary files, which
`Drop` removes with their writer, `claim` is the header of the opened artifact:
`Verify` opens the path again and compares. `Stop` ends a capture at any step,
`Retry` calls again, `Damage`, `Delete` and `PowerLoss` are the environment;
after a power loss a file that was not synced is unreadable and any
name may be gone, since no directory is synced.

Abstracted: a digest is the sequence it was computed from, so that two
digests agree exactly when the contents do. A record whose pixels do not match its
own fingerprint ("torn") is told apart from one that only the digest
exposes ("altered"), since the reader notices the first at the record and the second at
the end. Damage is therefore never a consistent forgery. Size limits are left
out, as are the wordings of errors: an error is `Stop` or `Refuse`. A write error
that the file system reports late is one of the errors that end the capture.

### Assembly

Extends `FrameArtifact` with `assemble_frame_artifacts`: `step` is its position,
`artifacts` the headers it was given, `reader` the open file, `encoder` the FFmpeg
child, `encoded` the frames written for each artifact, `staged_output` the file of the
private directory and `video` the output path. `OpenReader`, `WriteFrame` and
`CloseReader` are `stream_artifact` with `next_frame`, `FinishEncoder`, `StartMix`,
`FinishMix` the two FFmpeg sessions, `Publish` the hard link. The captures and
the environment of `FrameArtifact` run beside it, so that artifacts are damaged, removed and
captured again while they are read. `Intrude` is another process that takes the
output path, `Blackout` a power loss, which nothing protects the video against:
it is never synced. A reader keeps the file that it opened, and the file is
read in one step: damage to a part not yet read is damage before it was opened.
FFmpeg is external and modelled by its status.

### ArtifactCache

`store` maps identities to what their path holds; `lease` is the file lock;
`pc`, `at`, `artifacts`, `staging`, `usage` are one process's position and local
variables. Every file-system call is a step. `Kill` removes a process and its
lock and leaves its staging directory; `Damage` lets the disk corrupt or shorten
an entry; `Rejected` includes the inspection that fails on a sound entry,
which `MaxFaults` bounds.

### BrowserInstall

`lock` is the lock directory (free, empty, or with the marker of an owner),
`stale` whether its modification time is older than the limit, `browser` and
`staging` directory trees in four degrees of completeness. Every file-system
call is a step, the removal of a tree is two. `Posix` says whether `rename`
replaces an empty directory. A process may be killed anywhere; `GoStale` is an
owner that stalls.

### Proof modules

`CaptureSession_proofs` (the page's runtime first, then the session that drives it),
`LayeredSession_proofs`, `ArtifactCache_proofs`, `Packages_proofs` (`BrowserInstall` first,
then `RegionPage`, which has nothing to do with it), `Assembly_proofs` (captures first, then the assembly beside them),
`LambdaCapture_proofs`, `Subprocess_proofs` and `Compilation_proofs` extend the module they
prove about; see [Proofs](#proofs).

## Runs

| Run | Instance | Shows |
|---|---|---|
| `MCScreenplay` | 15 tags, three beginnings: an open film with two fields and a cue, a whole film, an open film behind another in presentation markup; up to six more elements; nesting limit 5, 13 retained items | plan, document and page number every element alike for every region, in full and as foreground; every accepted binding reaches its element, as long as the bundler finds the film |
| `MCCompilation` | films of up to 2 scenes and 3 shots out of 13, 8 frames, 4 music tracks, 3 event times, 3 caption tracks; all capabilities and frame behaviors; canvas 8x6; limits of 3 audio tracks, 2 ducking windows, 2 media layouts, 7 checkpoints | the timeline is sound, nothing is dropped, the partition is exact, every frame shows the film on every path, sound is mixed once, accepted films render, snapshot and review show the rendered frame |
| `MCHold` | the same films | finding: a frame past the end of its source |
| `MCSnapshot` | the same films | finding: a frame without a snapshot |
| `MCRuntimeSession` | 3 videos, 4 frames, 3 plans, 2 workers | the session properties, with a client that sends anything at any time; `VideoWorkEnds` under fairness |
| `MCCaptureSession` | two units in one session, 7 frames; once under BeginFrame control, once without decoded media by screenshots | implements `FrameStream`; the clock advances; pages are disposed before they are replaced |
| `MCLayeredSession` | 3 frames of 2 chunks, pipes of 1 chunk, artifact destination | implements `FrameStream` with findings; no circular wait, observed success, nothing is left |
| `MCSubprocess` | one child of each of the five kinds, 2 frames of input, 3 pieces of output of which 1 is retained, pipes of 1 piece | nothing is left, success is observed, nobody blocks the child, every call ends |
| `MCAssembly` | a reusing worker and a batch race for the first artifact of a film of two units (2 frames and 1), 2 takes of each frame, 1 fault, 1 retry | what is published is whole, what is returned was verified, the video is the film of the artifacts given |
| `MCArtifactCache` | 2 processes, 3 identities, room for 2 artifacts and 3 bytes, 1 damaged entry, 1 inspection that fails on a sound entry, kills | bounds, assembly finds everything, valid entries are kept until that inspection, every process ends |
| `MCBrowserInstall` | 2 launchers, 1 stall, 1 kill, rename keeps empty directories | exclusion, returned browsers stay, successors are safe, every launcher ends |
| `MCLambdaCapture` | 2 invocations of one identity, 2 outcomes of a capture, 2 attempts of each loop, 1 lost response, 1 damage, 1 fault, 1 kill | answers hold, sound objects stay, owned uploads are released, every invocation ends |

Why the bounds are enough.

*Screenplay*: the vocabulary has one tag of each role (and two scenes, two shots), so that two
elements of each structural kind, presentation markup between them, stray and
unclosed ends, and both sinks of a binding occur, alone and in each other's scope; 13
items and nesting 5 are reached and exceeded.
*Compilation*: three shots give a transition on each side of the middle one,
two scenes a boundary that a transition may not cross; the shots include
ones that only last as their content does, that speak, are held, trimmed, slowed,
looped, empty, or wrong in one way each, and rates of 2, 3 and 5 against an
output rate of 3 so that nothing divides. Film ends beyond 8 frames are refused by
the bound on frames, which stands for the frame limit of the code. The canvas of
8x6 with boxes that contain, cover, fill and do not meet whole pixels reaches
every refusal and every path (native, layered, browser); films meet the limit
of media layouts and exceed those of the tracks of a mix, of ducking windows and of
checkpoints.
*Runtime*: of the three videos one keeps its source
frame and then moves, one enters, one leaves; with two workers one video always
waits in the queue, so that failures meet finished, running and queued work;
the plans include an inadmissible one, one that lays media out only, and an
interval that does not begin at 0; one frame lies outside the interval. There is no
bound on the number of commands. *Capture*: the first unit has a change at a
boundary and a change without one, the second starts evaluating before its
output, reuses across frames and passes a boundary that changes nothing and one
that changes everything; the transition between the units exercises reuse of
clock, target and last capture. *Composition*: three frames are
one before, one in and one after the lag of one frame; a pipe of half a frame
is the tightest that moves at all, larger ones only add slack. *Children*: an
output of three pieces is retained, beyond what is retained, and beyond what the
pipe holds; two frames allow a failed write followed by another call.
*Artifacts*: the two captures share a destination, so that either may collide at
creation and at the link; a unit of two frames has a record that is not the last,
one of one frame a record that is first and last; two takes tell
one capture of a frame from another, so that a replaced artifact is noticed. One fault
is a damaged, deleted or power-cycled file at any moment, one retry captures again
what was lost; the faults do not build on each other, since a
damaged file cannot become whole again except by deletion and recapture, which
the retry reaches. *Store*: two batches that share one identity and
want three, where only two fit by count and one pair does not fit by bytes;
`MaxDamage` 1 is needed for repair, and one entry is repaired while the other
process reads, repairs or publishes it. *Installation*: a dead or stalled owner and
a waiter; `MaxPolls` bounds only how
long a waiter waits, and the deadline may pass at any poll. *Lambda*: two
invocations are a winner and a loser of every race; a third could only repeat
what one of them does, since a worker keeps nothing of the others but the ETag it saw.

Fairness. `RuntimeSpec` assumes it of video work only: each of its waits has a
timer (`#timeout` in `video.ts`), so that one of event and timer settles it.
`CaptureSession` assumes
that the native side takes a step when it can: each request has a deadline and
each other wait is a CDP call with one; the page owes nothing. `LayeredSession`
assumes that the session takes a step when it
can, because each of its awaits has a deadline; FFmpeg and the reader owe nothing.
`Subprocess` assumes that deadlines pass and tasks are scheduled (`Proceed`,
the readers), that what a kill has reached dies (`ChildDies`), and that the
browser's event handler ends when its connection does; the child owes nothing
and may hang, and errors are never fair. `ArtifactCache`
assumes that a process goes on with its own file operations and that the
kernel grants a lock nobody else takes. `BrowserInstall` assumes only that a
process takes its own steps; its wait for the lock has a deadline.
`LambdaCapture` assumes that an invocation takes its next step: its phases are bounded by
the invocation's deadline, requests and the abort outside of the deadline by
the limits of the transport. Kills,
damage, stalls and I/O failures are never fair. `MCAssembly`, `MCCompilation`,
`MCHold`, `MCSnapshot` and `MCScreenplay` have no liveness
property and no fairness: what they describe is a sequence of calls that end.
Deadlock is checked where the specification lets ended systems stutter
explicitly; the runs just named and `MCLambdaCapture` describe calls that stop,
and say so in their configuration.

## Proofs

TLAPS proves the following for every value of the constants, from the named
assumptions of the modules alone (`ConstantsAssumption`, `NoCommandAssumption`,
`CaptureAssumption`, `NoAnswerAssumption`, `LayeredAssumption`, `CacheAssumption`,
`InstallAssumption`, `FrameArtifactAssumption`, `AssemblyAssumption`, `LambdaAssumption`,
`SubprocessAssumption`, `SolveAssumption`, `AuthoredAssumption`, `MediaTimeAssumption`,
`MixAssumption`, `ScreenplayAssumption`, `OfferedAssumption`, `PreamblesAssumption`).
`NoCommandAssumption` and `NoAnswerAssumption` say that `None` is neither a command
nor an answer. `AuthoredAssumption` says what the resolver hands over: counts and sources,
at most one duration and cue time, rates and plays that are positive
(`PlaybackRate`, `PlayCount` in `resolved_film.rs`), and transitions of at least one frame, since
`Duration::parse_positive` admits no zero and the solver rounds up. `PreamblesAssumption` says
that documents begin with a tree in document order, the empty one included, and
`OfferedAssumption` that text has no attributes.

Induction over data is out of the prover's reach as a rule, and inside it
as an argument by the least counterexample: the first position at which a
property of a sequence's beginnings fails (`Positions`, `Flattens`, `FilmGrows`),
or the least finite set at which one of a sum fails (`SumsExist`). The facts about
`FoldSet`, `FlattenSeq` and the recursive functions `FilmUpTo` and `merged` (of `MergeWindows`)
are shown so; the index that a page builds (`IndexExists`, `PageCountsAlike`) by the
positions of the structure it walks.

* **CaptureSession_proofs, the page.** `LInv` is the conjunction of `TypeOK`, the shape of
  the command at work, `LifecycleAgreement`, and what the latter says while a
  command executes: `LifecycleAgreement` speaks of the rest between commands
  only, so that it is not inductive; `Serving` and `Executing` say which states
  session and adapter are in at each await. `VideosHold` adds the controllers
  (`Living`, `Released`, `Resting`), from which `DisposalReleasesEverythingHolds`
  and the action property `TerminalStatesAreFinalHolds` follow. `OInv` follows each
  video through queue, workers and barrier: `Working` says whose work the executing
  command has queued, `Observing` for which source frame an observer is registered,
  `Standing`, `Fetched` and `Held` where the element stands before, during and after
  a seek, `Shown` which videos are visible, `Presented` that what a controller takes for presented
  is on screen, `Failing` that work counts as failed in a confirmation only with a video to show for it.
  A frame is then ready only when exact, and no observer outlives its command but that of
  the staged frame or of a video behind a failed confirmation.
* **CaptureSession_proofs, the session.** Each turn of the compositor, each
  replaced page and each abandoned command keeps the page's invariants (`RInv`).
  `NativeShape` says where `render_session` may be, `Waits` what a request without an answer
  means, `PageAt` what the page is doing while the session is at each phase (so that a
  page is replaced only when disposed), `Begins` that the previous frame is one of the
  unit's own, `Ticks` which of the four points of a frame's transaction the clock has
  passed at each phase, failed frames included. `Showing` and `Settles` say what the compositor's
  screen shows, at most a lag behind: after the turns that precede a capture
  it is the page; `Pictures` and `Sofar` that both reusable pictures are those of their
  frames and that what was written is the film so far. `DeliversTheFilmSafely`
  is then the refinement of `FrameStream`, without its fairness.
  Its hypothesis `ScreenshotsDecodeNothing` says that jobs by screenshot
  show no decoded media, as those of the run do: outside of BeginFrame control the code
  promises nothing about the moment at which Chromium shows a video's
  frame. Everything else is free of it.
* **ArtifactCache_proofs.** `IInv` holds control (where each process is, and
  that it holds the lease exactly there), progress (what has been found for the
  positions already passed), the entry under the lease (what a holder saw is
  still so), and references (an artifact found in the store is valid there unless something was
  damaged). Exclusion, collision freedom and assembly follow. The carried usage
  over-counts the store: `Counted` says that the carried number of
  files is exact, `Weighed` that the carried bytes are no less than the store's, since
  damage shortens entries behind the publisher's back and nothing makes them
  grow; what `evict` leaves, with the artifact to publish, is therefore within both bounds
  (`StoreWithinBoundsHolds`).
  `ValidEntriesAreKeptHolds` speaks of the time before an inspection fails on a
  sound entry: such an inspection does remove it, see below.
* **Packages_proofs, the installation.** `Knows(p)` collects what a running owner may rely on
  at each of its steps as long as nobody was reclaimed; with `TypeOK` it is
  inductive. `SuccessorIsSafeHolds` needs no such hypothesis.
* **Packages_proofs, the page of a region.** `PlanIsThePages` and `NoBindingIsLost` hold for every
  document an author can write, of any length and depth, that the compiler accepts. The
  inductive invariant needs little (`PageInv`): the document is a tree in document order
  (`TreeInv`: paths lead through parents, and what an element contains follows it without a
  gap, so that `Before` compares nodes of different elements), and what was compiled is the
  film of that document, without a binding error. The argument is about the one step that
  loads a page. Compiler and page both make sequences of nodes, the one by scenes, shots and what precedes and
  follows them (`ProjectedNodes`), the other by folding an index over the structure
  it finds (`PageCountsAlike`); both are increasing (`Increasing`), both have the same members (`Elements`),
  and then they are equal (`SameSequence`). The page does not know the members in advance: whether it counts
  a shot's videos depends on the place it is about to give to the shot. `AdmitsTheNext`
  shows that this place is the shot's in the plan, if all places before are
  (`NextMember`). In between is the bundler: it finds for each transition the two shots that the
  compiler has joined (`NeighborsAgree`), refuses nothing that was accepted, and leaves of the
  film what the region holds (`WhatIsLeft`). For bindings, an owner
  that the binder came to is the film or of its structure (`BoundOwners`); a scope affects a region
  if and only if the owner is still on the page (`AffectsTheKept`, `OwnersOfTheKept`); and what is removed around
  a bound element is itself around its owner, since the scope is the innermost
  (`AffectedIsOnPage`, `OnPageIsAffected`).
* **LayeredSession_proofs.** `NothingIsLeft` and `SuccessIsObserved` say nothing of
  the calls on the way. `Past` says what a call past the waits for FFmpeg knows of it,
  `Child` that an observed child is gone, `Destined` which calls a destination
  has. None of that depends on how frames move through the pipes. `SInv` does: it
  orders the counts along the stream (`Inputs`, `Outputs`) up to FFmpeg's lag of one
  frame, and says at which frame boundary the reader sends and how many frames are between it and the
  session (`Readers`, `Stream`). `NoCircleOfWaits` shows that
  at each await of the session one of the three can take a step; the steps are named
  by their guards (`MayTake`, `MayMake`, `MayFeed` and the like are conjuncts of the actions), since
  the prover knows no `ENABLED`. `Staged` and `Recorded` say that each record is a frame
  with the findings of its own browser frame, so that
  `DeliversInOrder` refines `FrameStream`, for both destinations; the run has the
  artifact destination, whose pipes and channel are what can block.
* **Assembly_proofs, the captures.** `PublishedIsWhole` says nothing of files that are still
  private. `Drafts` says that a writer's records are a prefix of its unit's
  film, `Sealed` that a file under a header is whole and one at the link synced,
  `Progress` how far each of the three walks over the jobs is. `Shelf` is what makes reuse sound:
  every file, damaged or not, names no unit, has an empty digest, or has the
  digest of a film of its unit, so that records which agree with it are that
  film. From these follow type correctness, `PublishedIsWholeHolds`, and the
  action properties `NothingPublishedIsReplacedHolds` and `ReturnedIsVerifiedHolds`.
* **Assembly_proofs, the assembly.** Every step of the assembly is a step of `FrameArtifact` or leaves
  its variables alone (`BesideStep`), so that `Shelf` holds there too. `Streaming` says
  that what went to FFmpeg is a prefix of the reader's records and all of them
  only once verified; `Encoded` that a closed reader leaves its unit's film.
  `VideoIsTheFilmHolds` follows for any plan and any damage.
* **LambdaCapture_proofs.** `AnswersHold` speaks of invocations that have
  returned. `Walks` says what an invocation has captured and owns at each of its steps;
  `Finds` that a sound object it found at the lookup still stands when it has verified it;
  that is so because of `Repairs`: who repairs found garbage, and the deletion is bound to
  the ETag of what was found. That S3 has a number left for one more upload is the pigeonhole
  principle on its finite set of uploads.
* **Subprocess_proofs.** `NothingIsLeft` and `SuccessIsObserved` speak of the end
  alone. `Places` says where each of the five owners may be; `Observed` what an
  owner without an error to report has seen; `Handles` that the handle of a
  reader is gone only once the reader was joined or aborted; `Torn` that an
  encoder whose write left a prefix of a frame cannot succeed any more, because that write
  took the reader's handle; `Threads` which of the probe's two threads were
  started. Sizes of pipes and limits play no part in these. `NobodyBlocksTheChildHolds`
  adds `Started`: a pipe without a reader belongs to a child that no longer runs, or
  to a probe that still starts its threads. In every wait the reader of a
  full pipe may therefore take from it (`MayTake`, the guard of its action).
* **Compilation_proofs.** The solver walks scenes and shots once, and what it promises
  is a statement about all pairs of shots. `Laid` is its inductive form: each shot holds
  its transition at its start and its contents within, adjoins the one before except for
  that transition, and stays clear of all earlier ones. `TInv` adds that the cursor
  stands behind the last shot until it is lost, that a lost cursor and voices that
  overlap have been reported (`Reported`), and that a film is what had been placed
  (`Kept`). `TimelineIsSoundHolds` follows, although the code checks a transition
  against its neighbours only. `Accounted` is the inductive form of `NothingIsDropped`:
  as long as nothing has been reported, what is placed has the number of shots,
  contents, effects and transitions that were written. Each early return of `place_shot`
  and each `filter_map` of the lowering has to report, or the two would drift apart.
  `PartitionIsExactHolds` builds the regions of a film from those of its shots and
  transitions: `Tiles` says that a sequence of regions runs from one frame to another
  without a gap and selects what plays, `TilesJoin` composes two, and `Around` says
  which shots play near a boundary, from `Laid`.

  `PicturesShowTheFilmHolds` compares, for every frame, the picture that the units put
  together on any path with what the plan of the whole film would show. `Plannable` is
  the invariant it needs beside `TInv`: scenes are what their shots fill, captions lie in
  the film, the units of a planned film are its regions, composed and normalized.
  `Seen` is what the film shows at a frame; `FilmIsSeen` and `RegionIsSeen` say that the plan
  of the film and the plan of a region both show it (`VisibleIsSeen`), because a region
  evaluates its shots as a whole. `SameUntilABoundary` is why the executor may repeat a
  capture, `NativeIsDrawn` and `PictureIsDrawn` that the native inputs of a sequence, cut
  at the outputs of the units and shifted to where the sequence starts, draw at each frame
  what the one unit that publishes it asks for, also when that unit is captured alone.
  `FramesAgree` is the arithmetic of time: page and filter graph choose the same source
  frame. `DrawnWhereItStands` is that of space: what `resolve_backdrop_placement` crops and
  places is what CSS shows. Both are not linear; their products are kept behind names and
  compared by a few lemmas about rounding (`RoundsUp`, `RoundsDown`).

  The theorem has one hypothesis, `SourcesRoundAlike`: at the two ends of a source the page
  and FFmpeg round differently, and TLC finds films that tell them apart (see
  [Findings](#findings)). It asks of each authored video that is played once that the
  page selects no frame past the last one and that the last frame of the selection has
  begun in the instant before its end. All sources of `MCCompilation` satisfy it.
  `FeedbackIsTheRenderedFrameHolds` needs no hypothesis, since a snapshot or checkpoint goes
  through the same path as the render: `NarrowedPicture` is the snapshot's narrowing of
  a unit to one frame, `CheckpointIsTheFrame` the reading of an artifact, `AnchorsLie` that no
  checkpoint falls outside the film, so that only their number can refuse a review.

  `AudioIsMixedOnceHolds` rests on `Audible`, the invariant of what the solver lets sound:
  fades fit the interval they belong to, an effect ends before the cursor, music plays from
  the start of the film and is ducked by exactly what is spoken within it. It is a part of
  its own because neither `TInv` nor `Plannable` says anything of sound. `MixIsCanonical`
  is the order of the mix: the units own disjoint sets of placements that make up all of
  them (`UnitsOwnTheMix`), and a sort numbers what it sorts from one on (`Ranks`,
  `OrderedByRank`, by the cardinality of what precedes each member). `MergesWindows` is an
  induction over the windows of `merge_windows`: `Merged` says of those merged so far that they
  lie apart, envelop each window given and reach no further than one of them, and `Absorbs`
  that a window may be widened because all ramps last alike. `GainsFollow` shows that
  `gain_segments` covers the music without a gap or an overlap (`Chain`) and that each segment
  stands where its phase belongs (`Follows`); `MusicGivesWay` puts these together.

  The theorem has one hypothesis, `EveryFrameSounds`: an output frame lasts at least one sample.
  The code has no such bound, since `FrameRate::new` refuses only zeros and `--fps` takes any
  other rate; above 48000 frames per second an effect of the last frame may begin where
  the mix ends, and would not sound. At every rate that is used it holds, and in `MCCompilation`
  too (5 samples for 3 frames).

Several theorems state properties that no run checks, because the proof says
more than a run would: type correctness, `LeaseExcludes` and `LinkNeverCollides`
of the store, `StagingIsPrivate` of the installation, `NothingPublishedIsReplaced`,
`TerminalStatesAreFinal`, `VideoIsNotReplaced`, and the safety halves of the two
refinements of `FrameStream`; of the page, `PageTypeOK`.

Only model-checked: everything about progress (`VideoWorkEnds`,
`EveryProcessEnds`, `EveryInstallerEnds`, `EveryInvocationEnds`, `EveryCallEnds`,
the fairness half of `DeliversTheFilm`), since the prover has no rule for it
here; and of the compilation, that the units of an accepted film pass all checks on their way
(`AcceptedFilmsRender`), which compares numbers that a plan gives by position, in four
nested projections.

## Findings

Two runs end in a violation, each of a sentence of the repository:

1. `MCHold`: `duration_at` rounds the natural end of a video up to a whole
   nanosecond. Where frames / rate is none, the end times the rate exceeds the
   number of frames, one output frame too many is counted, and both the page
   and FFmpeg's side select a source frame one past the last, although the
   language specification derives the frames from the selected interval.
   Where FFmpeg has no such frame the two sides differ: a source of one frame at 6 frames a
   second, in a film of 3, has an output frame whose midpoint is the exact end of
   the source, before the rounded one; the page asks for frame 1, FFmpeg repeats frame 0. They differ as
   well where a frame begins within the last instant before a trimmed end: the page, which
   samples that instant less one unit, holds the frame before it, FFmpeg the frame
   itself. `SourcesRoundAlike` in `Compilation_proofs` excludes just these two.
2. `MCSnapshot`: a unit of a separable backdrop, narrowed to a frame at which
   none of its videos plays, is refused as a sequence "without published
   media", although the README says that a snapshot uses the same region and path
   as the complete film.

Other disagreements met while modelling, visible in the models but not runs of
their own:

* Store: `inspect_cache_entry` takes every failure to open or verify an entry
  for corruption, and the caller removes it, also when the failure was the
  reader's (`ValidEntriesAreKept` ends with the first such failure). Captures of
  killed processes stay in the store's directory, which the bounds do not count.
* Installation: the lease is verified before the publishing rename and not held
  across it, so that an owner that stalls in between still publishes after it
  was reclaimed; and a waiter that judged a lock stale may rename away the fresh
  lock of a faster waiter. The properties say "as long as no running owner lost
  its lock".
* Lambda: an upload whose `start` response is lost, or arrives after the
  deadline, has no owner and is never aborted;
  `OwnedUploadsAreReleased` speaks of uploads a worker knew of.
* Probe: after a kill that fails, `OutputReaders::finish` joins its readers
  without a bound, although `process.rs` says that no unbounded wait follows a
  process-control failure; `EveryCallEnds` excepts this case.
* Browser: the initial `connect_with_config` has no deadline.
* `BrowserPlan::foreground_only` is used by tests only; production sends the
  full plan with a media mode.
* Screenplay: a binding inside `om-captions` is accepted, but the bundler
  removes `om-captions` and the page then fails to load for want of a projected
  binding. A binding owned by a shot, scene or transition that is nested in presentation
  markup has no scope, so that its value reaches no region although
  the field counts as used. Known elements nested in presentation containers
  are ignored without a diagnostic. The bundler takes the first `om-film`
  anywhere (`findElement`, `authored_html.ts:455`), compiler and page only one at document level, although
  `docs/en/language-specification.md:108-110` says that a film nested in a presentation
  container "does not change screenplay ownership": with such a film before the real one the bundler cuts the
  wrong scenes out of a region, or refuses it. Both properties except this by name
  (`FilmIsFound`); without the exception the third beginning of `MCScreenplay`
  violates `PlanAndPageAgree`. Bindings outside of
  `om-film` are not validated by the compiler but applied by the page.
  `data-om-show` on a timed element is overwritten by the runtime's own
  visibility at every seek. `BindingsReachThePage`
  excepts the first two by name (`InCaptions`, `OwnerIsPresentation`).
* Audio: a voice-over's own track may last one sample longer than the samples
  of its frames; `AudioIsMixedOnce` therefore speaks of whole frames.

## Not modelled

* Chromium, FFmpeg, S3 and the operating system themselves: external, modelled
  by what the code relies on.
* Variable-frame-rate sources: their boundaries are data of each file.
* Text: attribute values, SRT, WebVTT, ASS, JSON forms and schemas, diagnostics,
  command-line arguments, inspection and review reports. Tests reach what
  can go wrong there, and no other component's state depends on it.
* Budgets of plans (bytes of text, counts of elements) except those named above,
  each a comparison against a constant.
* The css sink of variants, variant input, the bundler's admission of
  scripts, styles and images, bundle manifests and their digests.
* The unit root on disk: a private directory that is filled, verified and
  removed by one call.
* Browser archives and packaging of the Lambda adapter, worker request and
  response envelopes.
* Interception of requests by the resource guard.
* `batch`: variants are rendered one after the other through the operations
  modelled here; its own check, that all of them have the same partition because
  they share one bundle, and its reports are not modelled.
* Motion, springs and interpolation: pure functions of a frame number.
* Release scripts, evaluation tools and conformance fixtures.

The definitions of the modules stand for about a sixth of the repository's
lines. Most of the remainder is not state or control: unit tests inside the
Rust sources, generated validators, error types with their texts, argument
parsing, JSON reports, scripts.

## Plan

In this order:

1. The proof of the remaining property of `Compilation`, `AcceptedFilmsRender`: that
   the numbers a plan gives its elements are dense and known by position, so that the page accepts
   it, and that the units of an accepted film pass all checks of the executor.
2. Composition of `ArtifactCache` and `FrameArtifact`, the former's `Capture` and
   `Verify` being the latter's operations.
3. The browser archive of the Lambda adapter: an expansion that goes on after
   its invocation's deadline, beside the next one's.
