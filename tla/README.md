# CamLink in TLA+

CamLink is a media server written in Go: it pulls cameras (RTSP, RTMP), and gives their pictures to
browsers as MSE, WebRTC, HLS, low-latency HLS, MP4 downloads, an RTSP server and recordings. A
Python service next to it looks for vehicles in the pictures. This directory has TLA+ modules for
the parts of the program whose correctness depends on the order in which things happen, TLC
configurations that check them on small instances, and TLAPS proofs that hold for every instance.

1. Inventory of the program
2. Modules, and how they correspond to the code
3. What each run checks
4. Bounds, deadlock, fairness
5. What is proved
6. Where the code departs from what it says
7. Abstractions
8. What is not modelled, and what is left to do

## 1. Inventory

**Registry of streams and channels** (`storageStruct.go`, `storageStream.go`,
`storageStreamChannel.go`, `storageClient.go`). One `StorageST` behind one `RWMutex` maps a stream to
its channels. A channel keeps its configuration, `runLock` (is a worker running), `Status`, the
buffered Go channel `signals` (100), a map of `clients` with their packet queues, `ack` (when
somebody last asked for it), codecs, the segments of classic HLS and the low-latency muxer. The
operations are those of the administrator (add, edit, delete, reload, of streams and of channels),
of viewers (exist, run, add and delete a client), and of workers (control, status, cast, unlock).
*Hard:* channels are stored **by value**, so that a worker and a configuration call can each hold a
copy of what the registry has; signals are sent with the mutex held, and the goroutines that read them
need the mutex first; `runLock` is tested in one place and set in six. *Correct when:* one worker per
camera, no channel locked out for ever, ONLINE means connected, a signal reaches the worker it is for,
the mutex is not held for ever.

**Worker** (`streamCore.go`). One goroutine per running channel: look the channel up, stop if it is on
demand and nobody watches, dial, read packets, and select between two timers, the signals and the
packets; on errors sleep and begin again, by name. *Hard:* between two looks at the registry its
channel may have been deleted, replaced or locked by somebody else; its deferred calls then hit
whatever has the name. *Correct when:* a deleted channel loses its worker, an on-demand channel that
nobody watches is released, a reload reaches the session.

**Share manager** (`shareManager.go`, `apiHTTPShare.go`, `streamAuthorization.go`, the watch page
`web/templates/share_watch.tmpl`). A table of shares with an expiry, a limit of viewers, and a session
per viewer that a heartbeat renews every 15 s. A session is dropped after 45 s of silence, by a
15 s ticker or by the next request; revoked shares stay in the table until they expire. *Hard:*
heartbeats are late or lost, cleanups happen inside some calls and not in others, and the media
connection is not tied to the session. *Correct when:* never more sessions than the limit, none on a
revoked share, a silent viewer's slot is free again in bounded time and a living one's is not taken.

**Recording manager** (`recordManager.go`, `apiHTTPRecord.go`). One recording at most per channel: a
goroutine that opens a file, adds itself as a client, waits up to 5 s for codecs, writes, and leaves
through deferred calls. The stream page (`web/static/js/index.js`) has
one button for it and keeps a flag that says whether it means start or stop. *Hard:* `Stop` tests and
closes `stopCh` outside of the mutex; the entry is deleted by channel, before the file is closed; file
names have a resolution of one second; the page asks for the status once, when it is loaded, and
its requests may overlap or get lost. *Correct when:* the table says what is being recorded, a recording
writes only its own file, a stop is neither lost nor left without an answer, and a page at rest shows the
truth unless something happened of which it cannot know.

**Low-latency HLS muxer** (`hlsMuxer.go`, `hlsSegment.go`, `hlsFragment.go`, `apiHTTPHLSLL.go`). A
window of segments made of fragments (parts), a cached playlist, and a context that is cancelled
whenever the playlist changes: requests that block on the next playlist or part wait for it. *Hard:*
requests read the playlist and the context after they gave the mutex back; the playlist is made anew
only when a part number changes; which segment leaves is computed in one place and the header in
another. *Correct when:* the playlist is never behind the muxer, header and body agree, what was listed
stays listed, and a blocking request is answered neither too early nor in vain.

**Classic HLS and the viewers' media plane** (`storageStreamHLS.go`, `apiHTTPHLS.go`, `apiHTTPMSE.go`,
`apiHTTPWebRTC.go`, `apiHTTPSaveMP4.go`). A window of five TS segments per channel that is flushed when
a session ends; per viewer a queue of 2000 packets that is filled to 1000. *Hard:* slow clients,
codecs of a session that is over, a second worker that flushes the window of the first. *Correct when:*
a viewer that keeps up misses nothing, what it is sent fits the codecs it
was told, MEDIA-SEQUENCE fits the window, and a segment is what its playlist listed.

**RTSP server** (`serverRTSP.go`). A state machine per connection (OPTIONS to TEARDOWN) that becomes a
client on PLAY. *Correct when:* one client per connection, removed in the end.

**Admin sessions** (`securityAuth.go`): table of tokens with a lifetime and a ticker.

**Configuration** (`storageConfig.go`, `storageServer.go`, `apiHTTPSettings.go`): the registry is
changed in memory and then written to a JSON file in place, with the mutex held. *Hard:* a crash while
it is written, a failed write that stays in memory, a secret that is read before the mutex is taken and
written back under it. *Correct when:* what a request was told is saved is there after any crash from
which the program starts again, and it does start again unless the crash came while the file was written.

**Detection API and event store** (`apiHTTPDetection.go`, `storageDetection.go`,
`detectionEventStore.go`): configuration per stream, events in SQLite, a database that can be changed
while events come in. *Correct when:* one database is open, the configured one, and an event is refused
only while it is changed. **Detector service** (`services/detector/app.py`): a manager thread that polls
the configuration and keeps one worker thread per channel; a worker follows vehicles from frame to frame
and posts an event when one enters the zone. *Hard:* a fetch that fails looks like an empty
configuration, which stops every worker; a stopped worker finishes its frame next to its successor; two
detections and the tracks of two vehicles must not be mixed up; tracks live on unseen. *Correct when:*
one worker listens per channel, the cooldown is kept, an event is about a vehicle that is there.

**The rest.** Handlers of the stream and channel API each call one registry operation;
`streamRemoteAuthorization.go` makes one HTTP call; `RTSPtoWeb.go` boots (`StreamChannelRunAll`, at the
same time as the servers start) and shuts down (`StopAll`); web pages render and call the API;
`web/static/plugins`, `docs/examples` and `.github` are third-party code, examples and build files. The
JavaScript under `web/static/plugins` (jQuery, Bootstrap and the like) is by far the largest part of the
repository's lines and none of the program's logic.

*Interactions.* Everything meets in the registry's mutex: the API, viewers, workers (each packet takes
it), recordings and the RTSP server. Towards workers there are the signal queues, towards viewers their
packet queues and the muxer's context. Shares and recordings have a mutex of their own and touch the
registry by its calls.

## 2. Modules

| module | of | content |
|---|---|---|
| `StreamLifecycle` | registry and workers | streams, channels, `runLock`, signals, workers, viewers, the mutex |
| `ShareLease` | what a share promises | abstract: a lease with a limited number of holders |
| `ShareManager` | shares, heartbeats, watch pages | implements `ShareLease` |
| `Recorder` | recordings and Stop calls | table, goroutines, files, deferred calls |
| `RecordPage` | the record button | extends `Recorder`: a page's flag, its requests and their answers, other pages |
| `MediaPlane` | what a channel hands on | sessions, codecs, the window of classic HLS, packet queues, an MSE viewer, an HLS player |
| `ConfigStore` | configuration and event store | memory, file and database across failed saves, crashes and restarts |
| `MuxerLL` | low-latency HLS | window, cached playlist, blocking requests |
| `Detector` | detector manager and workers | sync, tracker, trigger, post |
| `*MC` | | instances for TLC: model values, symmetry, a specification restricted for a counterexample |
| `StreamLifecycleProofs`, `StreamSignalProofs`, `ShareManagerProofs`, `RecorderProofs` (of `RecordPage`, too), `MuxerLLProofs`, `DetectorProofs`, `MediaPlaneProofs`, `ConfigStoreProofs` | | theorems |

**StreamLifecycle.** `streams`, `conf` and `onDemand` are what is configured, `runLock`, `online`,
`fresh` (the `ack` is at most 30 s old) and `clients` the fields of the stored channel. `gen` counts the
calls of `StreamChannelMake`, so that it names an *incarnation* of a channel: each has its own `signals`
queue, `sig[k][g]`, and a worker goes on reading that of the copy it has taken (`wopt`). A worker is
where `wpc` says: `control` (top of the loop of `StreamServerRunStreamDo`), `check` (on demand and
nobody there?), `dial`, `open` (it is shown ONLINE and needs the mutex for its codecs and its muxer),
`select`, `cast` (it has a packet and needs the mutex), `closing` (the deferred
calls of `StreamServerRunStream`), `sleep`, `unlock`. Each critical section is one action. An operation
that finds a queue full becomes `held`: it has the mutex and waits, and every action that needs the
mutex is disabled; it goes on when there is room. `reloads`, `unguarded` are history variables for the
properties. One action per operation: `StreamAdd`, `StreamEdit`, `StreamDelete`, `StreamReload`,
`ChannelAdd`, `ChannelEdit`, `ChannelDelete`, `ChannelReload`, `StopAll`, `StreamChannelRunAll`; a
viewer's `StreamChannelExist`, `StreamChannelRun`, `ClientAdd`, `Leave`; the rest is the worker.

**ShareManager.** Every method holds the mutex from its first line to its last, so each is one action.
Time is relative: `left` counts down to a share's expiry, `idle` up from a viewer's last sign of life,
`due` down to the ticker; both saturate where no comparison can tell the difference. `page` is the watch
page, which sends heartbeats while it is `watching`, pauses after the first that fails, and
keeps its media connection (`served`) then. `ClosePage` includes a `StopViewer` that does not arrive.

**Recorder.** `rpc` follows `run`: `create` the file, become a `client`, wait for `codecs`, `loop`; then
the deferred calls, `trailer` and `close`. `finish` takes the entry out of the table, by channel, before
them. A call of `Stop` looks up, tests `stopCh`, closes it, waits: four steps, since the mutex is held
only in the first. A file is a pair of channel and second, `owner` is who truncated it last.

**RecordPage.** A page's `shown` is the flag `recording` of `initRecordControls`. A request is one of
`Callers`: it is `sent`, `served` (by `ServeStatus`, `ServeStart`, or `ServeStop`, which goes through the
steps of `Recorder` and returns by `StopReturns`), `answered`, and received, when `SetRecordState` sets
the flag; it may be lost on either way (`Lose`). `StartElsewhere` and `StopElsewhere` are calls of
others. Every step of `Recorder` goes on below (`RunAndTell` notes a recording that ends by itself).
`upset` is history: the page's requests overlapped or one was lost, somebody else started or stopped the
recording, it ended by itself, or a Stop gave up or panicked. A request that the page sent alone and that
the server carries out clears it (`Settles`), for its answer sets the flag right.

**MediaPlane.** One channel's name. A session begins by `Connect`: with its codecs, or waiting until
`SignalCodecs` brings them, or with none and without waiting, so that those of the last session stay; `Packet` adds a segment at a key frame (`StreamHLSAdd`) and casts to the clients (`Cast`);
`EndSession` is the deferred flush, `Replace` an edit, after which the same name has a new
channel and old sessions go on. A viewer is `HTTPAPIServerStreamMSE` from `ClientAdd` (`Join`) over the
codecs (`TellCodecs`) to the loop (`Send`) and its end (`Leave`). An HLS player reads playlist
(`GetPlaylist`), codecs (`AskSegment`) and segment (`GetSegment`) in three critical sections, and goes on
by the same playlist, whatever is flushed or replaced meanwhile, until it asks for another
(`ForgetPlaylist`). Which
workers there are and when is the matter of `StreamLifecycle`; here a worker may begin a session at any
time, also a second one on the same name; `mixed` remembers that there were two at once, or one without
codecs of its own. The other history variables say which exceptions a property may claim: `early`
and `renewed` that codecs were set before or after a viewer was told some, `lost` that its queue was
full, `hflushed` and `hset` that the player's window was flushed or its codecs set under it.

**ConfigStore.** `conf` is memory, `file` the file and `whole` whether it parses; while a caller is
`writing`, it has the mutex and the file is truncated. `ChangeAndSave` is the change in memory and the
beginning of `SaveConfig`, which fails there (the file is as it was) or in `WriteFails` (it is torn).
`SetStream` stands for the calls that take the mutex first, as `SetSecret` does; `LeaveSecret` reads a secret that the
request left out, and `Update` writes it back in another critical section. `SetDetection` goes on after its
save: `ReadPath`, `OpenDB`, `Publish`, `CloseOld`. `Crash` may come at any step, `Restart` only when the
file parses and its database opens, for otherwise the program exits again; `Loaded` makes up a
secret that the file lacks. `promise` is history: what the last saved request made of an item, or
`Unsure` after a failed one.

**MuxerLL.** `WritePacket` is one action; it begins a segment (`BeginSegment`) or goes on in it
(`ContinueSegment`). Durations are counted in packets. `cache` is `CacheM3U8`, what it lists rather than
its text; `epoch` counts how often the context was cancelled. A request goes through `GetIndexM3u8`,
`Wait`, `WakeIndex`, `ReadIndex` or `GetFragment`, `Wait`, `WakeFragment`, and may time out.

**Detector.** One channel. `active` is its entry in `manager.workers`; `config[w]` is written by `sync` and
read at the top of the loop, `cfg[w]` is what this round uses. `RunLoop` is a round of the manager; the
list it fetched is that of the server, or empty, so both are one choice from `Offers`. A worker is at
the top of its `loop`, has a `frame` to judge, is in its `post`, or has come to its `end`: `GrabFrame`,
`ProcessFrame` (the whole of `update` and of the loop over the tracks, for only this thread sees them),
`SendEvent`, `End`, `Die` (an exception in `detect` or, after the trigger, in `save_snapshot`). `Assigned` and `Update` are the tracker, `Judge` and `Triggers` the loop in
`run`. A picture is a line of positions, the zone all that are at `Border` or beyond.

The file `PROJECT.json` maps each definition to the lines it translates.

## 3. Runs

| run | what it asks | what it shows |
|---|---|---|
| `lifecycle_edit` | boot and every call, reloads and shutdown included, two worker slots, one viewer | `SingleWorker`: `runLock` is a lock wherever nothing goes around it. `WorkerBudget`: the exact price where something does, one worker per configuration and per unguarded start. `LockHasWorker`: no channel is locked out. `OnlineMeansSession`: ONLINE means a session, and a session means ONLINE for a channel that was configured once and started through the lock. `StopsOnlyForReplaced`: a Stop never reaches a successor. `FreezeNeedsReloads`: the registry blocks, with its mutex held, only after as many reloads as a queue holds |
| `lifecycle_live` | fair scheduling | `DeletedStops`, `OnDemandReleased`. `ReloadReconnects`: a signal ends a session that shares its queue, also when two workers read it |
| `lifecycle_channel_add` | *violation* | `OneStreamAndLock`: two workers of one camera, see section 6 |
| `share_safety` | every order of share calls, late and lost heartbeats, ticker | `WithinLimit`, `NoStaleSlot` (a silent viewer's place is free after 60 s), `ForgottenInTime`, `SlotKept` (a session ends only for a reason), `ImplementsLease` (refinement; a revoked share stays empty by it) |
| `share_connections` | *violation* | `MaxViewConnections`, see section 6 |
| `record_page` | a page and others start and stop recordings, errors, lost and reordered requests, a recording may hang | `TableIsLive`: the entry is that of the recording between Start and finish, so that deleting by channel never hits a successor. `WritesOwnFile`. `StrayTrailerIsShort`: the only case in which a trailer reaches a successor's file. `RestingPageIsRight`: a page without a request under way shows the truth, but for six causes, and those mislead it only until a request that it sent alone is carried out. `StopAnswered`: every Stop ends, with no assumption about the recording. `StopObeyed`: a stop is not lost, for a recording that does not hang |
| `recorder_stopped` | *violation* | `RecordingStopped`, see section 6 |
| `muxer_index` | packets and a request in every order | `HeaderFitsBody`, `IndexIsCurrent`, `PlaylistGrows`, `AnswerIsInTime`, `WakeIsEnough` |
| `media` | two sessions in a row or at once, a replaced channel, a viewer, a player | `WindowShape`: no holes, and MEDIA-SEQUENCE is right. `LiveSegments`: nothing of an ended session is listed. `ServedAsListed`: a player gets what its playlist meant by a number or, after a flush, a newer segment, never an older one, packed with the codecs of its session, or older ones if new ones were set between its two looks. `CodecsFit`: a packet of another session than the codecs its player was told comes in two cases only: a later one's after codecs were set anew (an ordinary reconnect), an earlier one's when it was in the queue as they were set. The parts of both that relate sessions exclude `mixed`. `MissesOnlyWhenFull`: a viewer loses packets only when its queue was full |
| `config_store` | two requests, failed saves, crashes at any step, restarts, an event | `PromisesHold`: what was saved is there until somebody changes it. `StartsAgain`: after a success the program would start with what it has. `OneOpenDatabase`: overlapping changes of the database leave one open, the configured one, and an event is refused only across a change |
| `detector_safety` | two workers, edits, failed fetches, up to two vehicles | `WorkerCooldown`: two events of the channel are closer than the cooldown only when they are of two workers one of which was told to stop. `OnlyActiveListens`: who was dropped was told. `OneLastEvent`: one event at most after that. `StableAssignment`: the greedy assignment is a stable matching |
| `detector_seen` | *violation* | `SeenWhenTriggered`, see section 6 |

The type invariant of every module is proved (section 5); those of `RecordPage`, `ConfigStore` and
`Detector` are checked by their runs as well. For every property there is a
mutation of a modelled definition, the kind of bug a careless change of that code would be, under which
TLC finds the property violated (`mutants` in `PROJECT.json`; the mutated operator stands above the one
it replaces, with a comment).

## 4. Bounds, deadlock, fairness

*Lifecycle.* `Workers` bounds the goroutines that live at once; two are the worker that was replaced and
its successor, or the one a viewer starts. `MaxGen = 2` lets a channel be replaced once (or
deleted and added again), which is where copies go stale; a third incarnation meets no new kind of copy.
`SignalCap` stands for 100: with 1 a queue is full after one reload, with 2 (in `lifecycle_live`) a Stop
is behind a Restart. Stream `s1` and channel `0` suffice where channels do not interact; they meet only in the mutex,
and in the operations on a stream, for which the theorems hold with any number of both. `MaxReloads`
bounds the reloads. `ApiCalls` says which calls a run makes. `QuietShutdown` in `lifecycle_edit`: what follows a
`StopAll` (the process ends 2 s later, `RTSPtoWeb.go:47-48`) is followed as long as no viewer is there; the
theorems on the six properties have no such bound.

*Shares.* `IdleLimit : SweepPeriod` is 3 : 1, as 45 s : 15 s. Three viewers and limits 1 (the default,
used for the 7 that is refused) and 2; a lifetime of 4 lets a share expire in use. The lifetime `0`
takes the default.

*Recordings.* One page with two requests at once and two recordings of its channel that begin in the same
second, the case in which they have one file; for other seconds and channels there are the theorems.
One call of others is under way at a time. `StopTimeout` is small since only its being over matters;
`recorder_stopped` has the 3 s of the code.

*Media.* Two sessions of up to three packets, by two workers: in a row, at once, and across a replacement.
`Keep = 2` stands for 5 and `QueueCap = 2` for 1000: both overflow. A third session meets the window
and the codecs as the second did; the theorems have any number. `OneWatches` has a viewer or a player at
a time: neither writes what the other reads, and no property is about both. *Configuration.* Two requests overlap in
every way, in as many restarts as one likes; a stream, two secrets, two paths that open and one that
does not, one event. Numbers of handles are used again when nobody has them, so that nothing need be
bounded. *Muxer.* Retention 2 stands for 18; four segments drop two from the window.
Fragments of 2 packets and segments of 3 give a full and an unfinished part. One request is enough
because a request changes nothing that another sees; the theorems have any number.

*Detector.* Two workers are the one that was stopped and its successor. Three frames are enough to see a
track come, enter and trigger, and another to be held up by the cooldown; `MaxAge = 1` lets a track be
unseen and then dropped within them (5 in the code). `MaxDistance = 1` of three positions: some moves
keep a track and some begin a new one. The two configurations are the form's defaults and an entry line
with a direction; the cooldown is a second in both.

*Deadlock* is checked except in the lifecycle, media, configuration and detector runs: in the first the
server may really stop (a frozen mutex), after a crash that tore the file it stays down, and a model in
which all worker slots, incarnations, packets or frames are used up stops, too.

*Fairness.* A goroutine that can run does run, timers fire, and Go's `select` picks at random among ready
cases, so a case that is ready again and again is taken in the end: `SF` for `TakeSignal` and
`ClientsTimer`, which compete with packets and, across a `Cast`, become disabled again and again; `WF`
for the rest. Nothing is assumed of a source: whether it lasts is up to the camera, and a dial ends
because it has a timeout. An administrator need do nothing; a viewer leaves in the end in `lifecycle_live`
(otherwise nothing on demand would ever be released, as it should). In `record_page` (`PageCallSpec`) time
passes and Stop calls proceed, whatever the pages do; the fairness of a recording is a premise of
`StopObeyed` only. `media` and `config_store` ask for safety only and state no fairness.

## 5. What is proved

Every invariant and every safety property of an action that a passing run checks is a theorem, too, and
the two refinements are. Theorems are for all values of the constants that satisfy the module's assumption,
which is mostly that sizes, limits and positions are natural numbers, that sets are not empty and that
`None` is no member. Two say more. `MuxerLL` has `FragmentPackets < SegmentPackets`: a fragment lasts at
most 1 s and a segment 4 s, in packets of equal duration, that of a frame. `IndexIsCurrent` needs it: with a
segment of a single part the next one begins with the number that was current, and no new playlist would be
made. `ConfigStore` has finitely many requests at a time, which find a free number for a database, and takes
the marks `Blank` and `Unsure`, and the two items that are no streams, to be different from the data.

| module | theorems | the argument |
|---|---|---|
| `StreamLifecycleProofs` | `TypeCorrect`, `SingleWorkerCorrect`, `WorkerBudgetCorrect`, `OnlineMeansSessionCorrect` | `LockInv` adds to `SingleWorker` where a stale worker can be (a worker with no incarnation yet, a copy of the one there is), since `SingleWorker` alone says nothing of workers that outlive their channel. `WorkerBudget` is inductive with the type and with `FiniteAlive`, that a channel's workers are finite in number: a start turns the unit of the free lock into a worker, an unlock turns it back, a new incarnation or an unguarded start pays for one, so each action is a statement about one element more or less in a finite set. `OnlineInv` says which worker is behind each ONLINE (`Shown`). The converse is `Steady`, that a worker in a session on a channel of one incarnation finds it ONLINE; it needs `LockInv`, since a second worker of the channel would say OFFLINE under it, and what the other steps leave alone: they connect no worker and forget no unguarded start (`Calm`), and what is configured and shown changes only where a channel is installed or removed (`Registered`) |
| `StreamSignalProofs` | `FreezeNeedsReloadsCorrect`, `StopsOnlyForReplacedCorrect`, `LockHasWorkerCorrect` | `QueueInv`: queues of incarnations to come are empty (`EmptyAhead`), a queue holds at most one signal per reload besides its Stop (`ReloadsCounted`), a Stop lies only in a replaced queue (`StopsPlaced`). `GuardInv` adds that a worker past `control` has a copy and that a set lock has a worker that no Stop waits for |
| `ShareManagerProofs` | `TypeCorrect`, `WithinLimitCorrect`, `RevokedEmptyCorrect`, `NoStaleSlotCorrect`, `ForgottenInTimeCorrect`, `SlotKeptCorrect`, `LeaseCorrect` | `ShareInv` ties the clocks to the ticker: what is idle or expired for longer than the ticker has been waiting is gone (`SlotClock`, `ShareClock`). `LeaseCorrect` maps every action to a step of `ShareLease` or a stutter |
| `RecorderProofs` | `TypeCorrect`, `TableIsLiveCorrect`, `WritesOwnFileCorrect`, `StrayTrailerIsShortCorrect` | `RecInv` orders recordings of a channel in time (`Clocks`, `Successors`): an owner of my file began when I did and after I finished |
| `RecorderProofs`, on `RecordPage` | `PageImplementsRecorder`, `PageTypeCorrect`, `RestingPageIsRightCorrect` | every step of the pages is one of `Recorder` or a stutter, so that `RecInv` holds below them. `PageInv` says of a page that is not `upset` what its one request will tell it wherever the request is (`Fine`): a status or a refusal on its way already agrees with the table, and the table changes under it only by what makes the page `upset`; a page whose only request is carried out gets `Fine` back from the table (`FineSettled`) |
| `MuxerLLProofs` | `TypeCorrect`, `HeaderFitsBodyCorrect`, `IndexIsCurrentCorrect`, `PlaylistGrowsCorrect`, `AnswerIsInTimeCorrect`, `WakeIsEnoughCorrect` | `MuxerInv`: the window is the interval that ends in `msn` (`Window`), and the cache is what the muxer has up to packets in the current part (`Cached`). `RequestInv` says of a request that waits what it has missed since |
| `MediaPlaneProofs` | `TypeCorrect`, `WindowShapeCorrect`, `LiveSegmentsCorrect`, `ServedAsListedCorrect`, `CodecsFitCorrect`, `MissesOnlyWhenFullCorrect` | `SessionInv`: a session is one worker's, and while sessions do not mix the channel has its codecs or none once it does not wait for them (`SetByOwner`). `WindowInv` counts the segments as an interval, which makes the off-by-one of the window's edge a lemma (`AddedSegment`), and bounds a session's segments by what it has got (`Made`). `Watched`: until a flush a listed segment is in the window or gone for ever (`Kept`), after one all that is in the window is newer (`Older`), and the codecs looked up are those of the session that has segments unless new ones were set (`Packed`). `Fits` says of each viewer which sessions its queue may hold before and after it was told codecs, with what `early` and `renewed` account for (`Told`). `AllWhole` says of the line of a viewer (what it was sent last, then its queue) that it is gapless and that it reaches up to the last packet of a session it has any of (`UpTo`), which is what the next packet needs |
| `ConfigStoreProofs` | `TypeCorrect`, `PromisesHoldCorrect`, `StartsAgainCorrect`, `OneOpenDatabaseCorrect` | `WriterInv` and `FileInv`: only one caller writes, it writes what is in memory, and the file has that or is torn while a writer or a failure accounts for it. `PromiseInv` adds that a promise is in the file, too, from which it will be loaded. `OpenInv`: every open database is the current one or belongs to one request that will publish or close it. `PathInv`: who has read the path that is still configured publishes that one |
| `DetectorProofs` | `CooldownKept`, `NoForgottenWorker`, `AtMostOneAfterStop` | `IInv` says of an event on its way what will be true once it is stored (`AlertInv`), that no event is later than `lastTrigger` (`TriggerInv`) and that who posted after the stop is about to end (`StopInv`). `ActiveInv` has one worker that was not told to stop, the active one, and `PosterInv` that who posted has started: two events of different workers are then of at most one that was not told. These hold whatever the tracker does |
| `DetectorProofs`, on the tracker | `TypeCorrect`, `StableAssignmentCorrect` | `Assigned` is a recursive function over the rounds of a greedy loop. `Round` is what holds after `k` of them: the pairs taken are a matching, whatever they exclude they are as near as, and every round used up a detection unless no pair was free. That it holds after each is an induction, by the least round at which it would fail (`LeastNumber`, from the library's theorem on well-founded relations). `UpdateType` follows the tracks through `update`, with `PickedFrom` for what is left of a list |

*Only model-checked:* all liveness (`DeletedStops`, `OnDemandReleased`, `ReloadReconnects`, `StopAnswered`,
`StopObeyed`), which is beyond the prover, as `ENABLED` is; and what the runs find violated (section 6). No
module has a recursive operator.

## 6. Where the code departs from what it says

- `lifecycle_channel_add`: the comment on `StreamChannelRun` says "one stream and lock"
  (`storageStreamChannel.go:55`). `StreamChannelAdd` stores the channel and then sets `runLock` on its own
  copy (line 276), `StreamChannelEdit` too (line 299): the first viewer starts a second worker.
- `share_connections`: "Max View Connections" (`web/static/js/i18n.js:257`) limits sessions; a page that
  loses a heartbeat keeps its media connection, and the next viewer gets its session.
- `recorder_stopped`: the page says "Recording stopped" (`i18n.js:293`) when Stop answers OK, which it does
  after 3 s whatever the recording does; one that waits for codecs (5 s) still runs.
- `detector_seen`: "进入区域后，至少连续 2 帧仍在区域内，才真正触发告警", an alarm only when the vehicle is in the
  region for at least two frames on end (`docs/vehicle-entry-detection-plan.zh-CN.md:55`). The tracker
  returns tracks that were not seen in the frame, and `run` counts them in (`app.py:689`): one detection is
  enough, and the event is raised in a frame in which the vehicle is not.

## 7. Abstractions

- A call that sends to several queues, some of them full, sends none before all have room. The code sends
  to the ones before the first full one; nobody can look at the registry meanwhile, since the mutex is held.
- A reader that waits for the mutex is treated like a writer: Go's `RWMutex` queues new readers behind the
  first waiting writer, and every packet of every camera takes the write lock.
- `Worker` stands for the RTMP variant as well (`streamCore.go:185-313`), which has the same control flow.
- The ticker of the share cleanup runs on time: `Tick` does not pass `due = 0`.
- The flag of the record page follows the status and the OK or error of an answer; its toasts do not matter.
- A session's codecs stay the same within it. A packet is a session, a number and whether it is a key
  frame; a segment is the packet that ended it. A key frame at time 0 is taken to be a key frame like
  others (`preKeyTS` would still be 0). The Stop for a slow viewer goes to a queue nobody reads and is
  left out. The two critical sections of a packet (`StreamHLSAdd` and `StreamChannelCast`,
  `streamCore.go:148` and `154`) are one step: one writes the window, the other the viewers' queues, and
  nobody reads both.
- The configuration has one item for each kind of request; AccessToken is read and
  written back as SignSecret is, and the password as the settings are. Whether a path can be opened does not change. A crash while the file is written leaves
  a file that does not parse.
- A recording's packets are left out; so is what a file contains besides who wrote to it. `Start` keeps the
  recorder's mutex while it reads the settings under the registry's mutex and makes the directory
  (`recordManager.go:43-65`); here it is one step, so that a Stop that waits in its lookup, for a frozen
  registry or a file system that hangs, is not seen. `StopAnswered` begins after the lookup.
- A muxer's requests read `CacheM3U8` and `FragmentCtx` in one step after the mutex is given back. In the
  code this is a data race; a torn string is not modelled.
- One muxer is one session of a camera: a player that takes its numbers into the next session waits in
  vain, and nothing is said about it.
- Seconds of the detector's clock are whole. Its frames are those it judges: what is grabbed between two
  samples, a failed read and an empty polygon leave the worker at the top of its loop. The tolerance of
  3 pixels around an entry line is less than a position. A failed fetch and a disabled channel give the
  worker the same list and are not told apart.
- SDP, names, passwords, formats and log lines are left out.

## 8. What is not modelled, and what is left to do

- *RTSP server* (`serverRTSP.go`): one connection's dialogue, with parsing and two writers to one socket. It
  reaches the rest as every viewer does, by `ClientAdd`, its queue and `ClientDelete`.
- *Admin sessions* (`securityAuth.go`): a table under a mutex of which each call is one step.
- *WebRTC and MP4 handlers*: the loop of the MSE handler around a library and around a file.
- *Remote authorization*: one call without state. *Registry's maps*: two muxer calls look a channel up
  after the mutex was given back (`storageStreamChannel.go:388`); Go aborts the process when it notices
  a concurrent map access, and no property of the program survives that.
- *Pages*: the lists and forms of streams, which render and call the API, and the MSE player
  (`web/static/js/RtspToWeb.js`), which feeds a browser's `SourceBuffer` with rules of its own.
- Codec, WebRTC and RTSP client libraries, SQLite and the neural network are external; logging, vendored
  plugins, examples and build files have no logic of the program.

Worth doing next, in proofs, as abstract specifications: a registry with one worker per camera, which
`StreamLifecycle` implements when no channel is added or edited, and a playlist as a log from which only a
prefix is ever removed, which both kinds of HLS implement.
