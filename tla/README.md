# den-reel, modelled

den-reel is one Rust process that finds trailers for movies and series and serves
them: it looks a title up at TMDB and KinoCheck, searches YouTube when neither
names a video, resolves googlevideo URLs with yt-dlp, downloads a trailer into a
cache volume when a player needs a file, and relays or rewrites media for the
players that do not. This directory holds TLA+ models of the parts of it that
share state or decide what a client may still use, TLC configurations that check them on small
instances, and TLAPS proofs, for every value of the constants, of every safety and action property that the
runs check, in all eleven state machines.

Everything below `src/src/` runs on a tokio `current_thread` runtime
(`main.rs:1380`). What the code does between two awaits is therefore atomic with
respect to every other task, and every await is a point where any other task may
run. That is the granularity of all the models: an action is the stretch of a
handler between two awaits, and the state a suspended task keeps is the state of
its `pc`, stage or record in the model.

## The system

| component | state | operations | hard because | correct when | module |
| --- | --- | --- | --- | --- | --- |
| Trailer downloads (`play.rs`) | `in_flight`, `play_fails`, permits of `download_sem` and `prewarm_sem`, files on the volume | `/play`, prewarm, download, record failure, retry after an eviction, eviction | one shared future per id with a detached driver; a requester that leaves; a map entry that outlives its future by a moment; a file that goes between the two looks | one download per id; a retry starts over; a verdict lasts its time; prewarms leave a download permit to viewers; only whole files are served | `Downloads` |
| Throttle pause (`backoff.rs`) | deadline and strikes of a host | `trip`, `clear`, `remaining_ms` | a burst of refusals counts once | the pause admits no new download, and what is already in flight adds nothing to it | `Backoff` |
| Direct resolves (`direct.rs`) | `direct_cache`, `direct_inflight`, probe permits | answer, second extraction of capped URLs, park, restore | URLs expire while remembered; refusals must not be parked; a resolve outlives its askers | an answer belongs to its key; URLs outlive the margin; one resolve per key | `Direct` |
| Resident yt-dlp (`worker.rs`, `worker/resolve.py`) | a process, a mutex, a pipe whose replies carry no id | ask, fall back to the binary, reap, shut down | a reply left unread would answer the next question | no reply reaches another question | `Direct` |
| Title resolve cache (`addon.rs`) | `yt_cache`, three lifetimes, stand-ins | look up, publish, evict, park, restore | lookups of one title are not joined and publish in any order | a failure never blanks a known answer; an outage is never reported as "no trailer" | `ResolveCache` |
| Progressive index builds (`progressive.rs`) | `progressive`: a shared build and a URL per key, build permits | build, reuse the video half, validate a rotated URL, drop, park, restore | an entry can be evicted under its build; a URL is re-signed while the bytes stay, or change | an index fits the bytes behind the URL it is served for; failures are not kept | `IndexCache` |
| Direct-media gate (`media_gate.rs`) | permits, a pump task and a channel of one per body, deadlines, counters | acquire, first poll, pump, deadline, drop | the task ends while frames are queued; the body is dropped at any moment | a truncated body never ends cleanly; each body is counted once; a permit comes back | `MediaGate` |
| Range relay (`progressive.rs`, `httputil.rs`) | a producer task and a channel of four per answer | parse the range, cut the file into parts, relay each, end or fail, drop | one upstream range may enclose several pieces; upstream cuts its answer anywhere, or short; the player reads slowly or leaves | the player gets exactly the bytes it asked for; a clean end is a whole one | `RangeRelay` |
| Cache volume (`play.rs`, `ytdlp.rs`) | trailers, scratch files, the subprocesses that write them | publish, evict, sweep partials, sweep own temps | unlink by name and by age, from a listing, beside live downloads and a dying process | what is being written is never unlinked; two writers never share a name; a full volume is reclaimed | `CacheVolume` |
| Volume-availability memo (`play.rs`, `config.rs`) | verdict and epoch | probe, invalidate | a probe that was suspended publishes an old verdict | an invalidation is not undone | `VolumeMemo`, in `Crop` |
| Crop measurement (`crop.rs`) | `crop_cache`, `crop_unknown`, `crop_inflight` | measure in the background, at a download, for `/crop` | three measurements publish in any order | a better report is not replaced; an id is measured once at a time | `Crop`; the bake is a stage in `Downloads` |
| Upstream client (`upstream.rs`) | a pause per host, a counter of faults | `get_json` | answers arrive out of order, some from before a pause | what was in flight before a refusal is one episode with it | `Upstream` |
| Process lifecycle (`main.rs`) | phase, children | shutdown in `run()` | the order of kill, worker shutdown, sweep and save; a crash at any step | no process harms the files of another; what can be saved is | `CacheVolume`; the saves in `Crop`, `Direct`, `ResolveCache`, `IndexCache` |
| Signing, sealing (`sign.rs`, `seal.rs`, `userconfig.rs`) | none: links carry everything, the environment judges | mint, sign, seal, verify, revoke, rotate | two generations of secrets and keys, a grace, tags of two releases, capabilities minted from links | what is taken back is refused everywhere; rotation costs nobody a link | `Links` |
| Source plan (`sources.rs`, `prepare.rs`) | none of its own | which forms, in which order, for how long | put together around three awaits while caches change; the page keeps the answer | what leads can start; a cached answer still plays | `SourcePlan`; its capabilities in `Links` |
| Parked files (`state.rs`) | four JSON files | save at a shutdown, load at a boot | a crash keeps an old file; what is kept has aged at the next boot | what a boot restores is still true | in `Direct`, `ResolveCache`, `IndexCache`, `Crop` |
| Configuration, `/configure` page | environment | read, build an install URL | | | what `Links` judges by; the rest is not modelled |
| HTTP routing (`main.rs`, `httputil.rs`) | none | dispatch, headers, conditionals | | | not modelled; `parse_range` is in `RangeRelay` |
| HLS rewriting, MP4 parsing | none | text and bytes | formats | | not modelled: transformations of text and bytes |
| yt-dlp and ffmpeg subprocesses (`ytdlp.rs`) | children | spawn, kill, classify | I/O | | not modelled: what they answer is an input |
| Health and metrics | counters | read | | | not modelled, but for those `MediaGate` and `Upstream` keep |

How they interact. `/meta` and `/prepare` read and fill the title cache and warm
up direct resolves and prewarm downloads; `/play` reads the volume, then joins or
starts a download; `/progressive` asks a direct resolve for URLs and an index build
for the layout of the file behind them, and relays ranges of that layout; every direct body passes the media gate. `/sources` and `/prepare`
look at what direct resolves and index builds have, start what is missing and mint capabilities for what they
list; `/sources` also has an unmeasured letterbox measured in the background, beside `/crop` and the downloads.
Downloads, keyframe passes, the hourly sweep and the shutdown meet on the cache volume. Downloads
and direct resolves share the pause for YouTube (`AppState::youtube`): either may trip
or clear it. `Downloads` and `Direct` each own a copy of the record; `Direct` takes
what the other half does to it as an input (`ElsewhereThrottled`, `ElsewhereAnswered`).

## Modules

`SingleFlight` is the abstract specification: a pool that runs at most one job per
key and at most `Limit` jobs. `Downloads` and `Direct` implement it under the
refinement mapping "the pairs of a running job and its key"
(`OneDownloadPerId`, `OneResolvePerKey`). `Backoff` holds the pause as operators
on a record, which `Downloads`, `Direct` and `Upstream` each keep; `VolumeMemo` holds the memo of
`cache_available` in the same way, and `Crop` keeps it. `Clock` declares the time that most of them share. The `MC*` modules only add symmetry, views and constant values.

### Downloads

| model | code |
| --- | --- |
| `inFlight[v]`, `dlGen` | `in_flight`, `dl_gen`: the generation whose shared future is under the id |
| `stage[g]` | where that future is suspended: `queued` for `download_sem`, `extracting`, `baking` (crop), `evicting` (the pass after a publish), then `ok` or `err` |
| `driving` | the detached task that awaits the future and then removes the entry |
| `req[c]` | a request or a prewarm: `look` (the disk), `fetch`, `wait` (on the shared future), `reopen` (the file after it) |
| `fails` | `play_fails`, as the time each verdict lapses |
| `youtube` | the `Backoff` of YouTube |
| `disk` | the published file of each id, whole or damaged |
| `owed`, `spec` | history: the verdicts the memory still owes, the downloads a prewarm started |

`PlayArrives`, `CropArrives`, `PrewarmSpawned`, `LooksAtDisk`, the four `Fetch…`, `Wakes`, `Reopens`
and `Cancelled` are the steps of a requester; `Acquires`, `ExtractOk`, `ExtractFails`, `Publishes`,
`PublishFails`, `Succeeds` and `DriverEnds` those of a download; `HourlyEviction` and `Tick` the
environment.
The clock is read twice where a gated refusal reads it twice (`Gated`): between
the two the pause may lapse, and the model allows it.

Not in this module: sizes, names and ages of files (an eviction takes any published files; they are in
`CacheVolume`), the availability memo and the crop cache filled on the way (both in `Crop`), health counters, the re-run of an extraction after
a 403, and the 400 and 503 refusals that precede all of this and change nothing. Pauses
tripped or cleared by direct resolves and searches are left out here and are in `Direct`.

### Direct

A resolve passes `permit` (waits for a probe permit), `lock` (the worker's mutex),
`asking`, `binary` (the fallback), `check`/`recheck` (the media of capped URLs, and the second
extraction), `done`. `pipe` holds the requests whose reply has not been read: an
asker that gives up leaves one behind, and the code kills the process for that reason.
`Shutdown` parks the answers, `Crash` does not, `Boot` restores what is worth it.
Write-then-rename is one step; probes and searches share the permits, so
a resolve may wait for one even where no other resolve runs.

### ResolveCache

An entry is the set of ids it holds, when it lapses and when the ids were last
confirmed; `how` and `vouched` are history: whether it was answered, failed or stands in,
and when an upstream last gave these ids. A lookup is one record between its start
and its publishing stretch, so that several for one title publish in any order. Left out: the
order and the number of candidates, the imdb/tmdb pair map (keys are canonical), the
choice of what to prewarm, the demotion of ids known to be dead, the response. The cache is
assumed to hold two entries or more (10 000 in production).

### IndexCache

A URL is a record of what its query says of the file (`fields`), the bytes behind
it, and when to stop using it; two URLs with the same fields are a rotation of one file, or a file that was
replaced. A build validates a rotated index, or joins the muted build of the same URL
for its video half, or fetches. The parse of an MP4 is
left out, and so is a requester past the permits: it is refused and changes nothing. `permit` holds the builds whose task has its `OwnedSemaphorePermit`: a permit
is taken where a build starts and goes back where its task ends, whatever has become of the entry.

### RangeRelay

One answer of `/progressive`, from the `Range` header to the last byte. A byte is named by the file it
comes from and its offset there, so that a misplaced byte is a wrong one; `got` is what the player has, `queue` the
channel, `stage`, `next`, `last`, `at` and `chunkEnd` the locals of `body` and `relay`. The ranges of a
part are not stored: they are functions of the layout and the range served (`From`, `To`, `PartEnd`). `LayoutOf` is
the loop of `layout()` over the chunks of the tracks; how the chunks are found, and the header's bytes,
are left out. The checks of the answer's status and `Content-Range` are the choice between `Answers` and `Breaks`, and
the checks for a range past 2^64 are left out: a layout is below 2^32. A chunk of no bytes changes nothing and is left
out too. `Range` headers that are not understood, and those an `If-Range` voids, are of kind `none`.

### MediaGate

One action for each branch of the pump's `select!`, for Hyper's poll and for the drop
of the body. Each response is seen once: permits and counters are all that
connects two of them.

### CacheVolume

| model | code |
| --- | --- |
| `trailer`, `scratch` | the files on the volume, each as an age: what `CACHE_TTL_SECS` and `PARTIAL_GRACE` (30 minutes) compare |
| `TempName`, `SideName` | `.{vid}.{pid}.{gen}.partial…` of a download; keyframes and MP4Box's working copies, which carry no pid |
| `writers`, `groups` | the subprocesses that run and what each writes; `LIVE_GROUPS` |
| `dl[v]` | where the download of an id is: `queued`, `writing`, `failed` (before `remove_temp_set`), `measuring`, `scanning`, `evicting` |
| `pass[p]` | an eviction on the blocking pool: what its listing said and what is left of it |
| `phase`, `boot`, `container` | how far `run()` is; the number of the process; whether its pid is 1 in every boot |

A file takes one block. Ages replace the clock, and stop growing past what anything compares, so that the state space is
finite without a bound on time. A pass is a snapshot of the directory and then one unlink at a time, beside everything else;
a download in its place waits for its own pass. `KillsGroups` is the moment `run()` empties the registry; then the worker's
shutdown is awaited while every task goes on (`phase = "await"`), `SweepsOwn` is the sweep and the exit, and `Killed` is an
end at any other moment. Outside a container a subprocess outlives a killed process (`OrphanEnds`), inside it dies
with pid 1. The ticks assume what the timeouts give: a download, its measurement and its bake end within `Life`, which is within
the grace (`CacheVolumeAssumption`).

### Crop, VolumeMemo

A report is where it came from, `"whole"` (the file, at a download or for `/crop`) or `"keyframes"` (the background).
`Arrives`, `Probes`, `ProbeSees`, `ProbePasses` and `ProbeRefuses` are the gate of `/crop`: the probe of the volume is split at its
await, and keeps the epoch in which it began. `Fetched` and `FetchFails` are what the download behind the request comes to, `GetsPermit`, `Detected` and
`NothingDetected` the measurement; `MeasureStarts` to `MeasureFails` are the background one; `DownloadMeasures` and
`DownloadFails` are the downloads of anyone. The memory of what could not be measured forgets its lapsed entries
first and then everything, the cache everything; both are as small as the bounds allow. `FileMax` stands for the
size limit of the parked file: a file past it is not read.

### Links

What a client holds is a value: a config (install id, epoch, the key it was sealed with), a link (the same as claims,
with a tag of the release before or of this one, or none), a capability (the form, its claims, its expiry, its tag). A tag is what it covers and the
secret it was made with: the cryptography is ideal, and what is checked is what is covered, under which secrets, and what is asked
of it after. `env` is the environment of the deployment that judges: secrets, keys, the grace, the epoch, the revoked ids and whether an id is
required; the operator's actions change it between any two requests. `party` and `grace` are history:
for whom a link was made, and whether only the grace let it in. The capabilities of the forms that stay on
googlevideo and of those this server carries are filed under two path segments (`Segment`); an HLS one of either kind has the page's report in it, and
`long` says that the report makes it longer than `MEDIA_BLOB_MAX`. `OpensMedia` is what the URL does, and `ValidatesMedia` is the internal
endpoint that a proxy in front asks. Once on, signing stays on: a deployment that turns it off is not modelled.

### SourcePlan

`Plan` is `plan()` for a surface and a player, `Rung` the resolve that a form plays from. An ask passes at most three awaits: its
resolve (`resolve`), the short wait for the index that lets sound lead (`lead`), and the index of the entry that leads (`index`). The
caches are what `sources.rs` reads of them: `resolve[rung]` is `direct::peek`, `index[form]` is
`progressive::ready`, and a resolve is a generation of URLs with the time Google signed them to. `Direct` and `IndexCache` say how either comes about; here
`ResolveEnds`, `BuildEnds`, `ReplacedBuildEnds` and `IndexEvicted`, and the pages of others (`MasterOpens`, `OthersAsk`), are the environment. An ask is in
earnest (`play`), a warm-up by `/sources` (`warm`), or the cheap one of `/prepare`, which waits for nothing and lists only what can start now.
Left out: crop in the plan, and a server whose largest height leaves the silent surface no rung of its own.

### Upstream

A lookup is at most two requests (TMDB by IMDb id asks `/find` first). `AsksHost` and `GoesOn` are the head of `get_json`, `Refuses`,
`Accepts`, `Declines` and `Fails` what its status makes of the pause, `Parses` the end of its body. `began` is history: when the pause that
stands began. The tick keeps a request within the HTTP client's timeout, which is shorter than the first pause (`UpstreamAssumption`;
15 s and 30 s in the code).

## Runs

| run | asks | distinct states |
| --- | --- | --- |
| `downloads_verdicts` | one viewer who comes, leaves and comes back, three ids, and a memory of failures that holds two, with a clock: lapsed verdicts make room before standing ones, one download per id, a pause is one episode, what is served is whole | 317 966 |
| `downloads_progress` | a viewer and two prewarms over two ids and one permit: a prewarm leaves room, a retry is fresh, every waiter is answered and every map entry goes | 210 154 |
| `direct` | two clients, two resolves, two permits, one worker, a cache of one, restarts: no crossed answers, nothing from memory past its margin, no refusal out of the parked file, one resolve per key, and every client is answered | 299 664 |
| `resolve_cache` | two lookups race over three titles and a cache of two, across parks and crashes: nothing outlives its worth, a hit is honest, a failure worsens nothing | 853 108 |
| `index_cache` | three builds over a cache of one, a URL that rotates and one whose bytes change, restarts; safety and progress | 322 703 |
| `media_gate` | two bodies over one permit, deadlines, a client that leaves; safety and progress | 156 824 |
| `range_relay` | every range of three small files, over every way to cut, refuse, shorten and overrun upstream's answers; safety and progress | 39 529 |
| `cache_volume` | downloads, keyframes, sweeps and evictions over two processes, one of them shut down or killed: writers keep apart and undisturbed, a full volume is reclaimed | 483 706 |
| `crop` | a request, two background measurements, downloads and restarts: no stale yes, one measurement per id, a whole report stands, every measurement ends | 454 806 |
| `links` | every redeployment between the steps of a link's life: nothing taken back is answered, rotation costs nobody a link | 1 974 072 |
| `source_plan` | every kind of ask while resolves and indexes come and go: what leads is built, a cached answer still plays, frames fit, asks are answered | 470 029 |
| `upstream` | two lookups and two hosts with answers out of order: stragglers are one episode with the refusal they followed | 2 616 039 |

Bounds. Every bound is the smallest at which the hazard occurs.

- `Downloads`: `downloads_verdicts` has a memory of two, three ids and four generations, so that the memory is full of two verdicts of which
  one has lapsed and one stands when the third download fails, and an id can be downloaded, evicted and asked for again; its map of two refuses
  the third id. `downloads_progress` has `PrewarmMax = 1` with two prewarms, so one of them waits for the permit, and two generations for two ids and one permit,
  which make a queue. The code has three permits and lets prewarms hold two (`PREWARM_MAX`); `PrewarmRoom` is proved for every such pair.
- `Direct`: two resolves at a time, so a third caller that meets a newer entry of its key is in `OneResolve` only; the clock runs far enough for an answer to lapse while a client waits and for a lapsed file to be restored; two keys overfill the
  cache of one, with two permits one resolve waits for the worker another one holds, and a resolve may find both permits with probes and searches.
- `ResolveCache`: the clock runs past an answer, its grace, and one more failed lookup; three titles overfill a cache of two.
- `IndexCache`: three builds replace a cached one twice; two permits are one fewer than the builds.
- `MediaGate`: two idle windows and the lifetime fit.
- `RangeRelay`: the files have two to five pieces, with and without gaps between them, of two sources, out of file order, and one has
  none; an upstream range may enclose some but not all of them (`Span = 5`), chunks are of one to three bytes, so they end in, between
  and across pieces, and the channel of two fills up.
- `CacheVolume`: two ids and a cap of two blocks make scratch and trailers compete; two numbers of `dl_gen` give a download and a keyframe pass of one
  id in one process, and a number used again by the next; a tick is longer than any download and than the grace.
- `Crop`: two tasks want one permit of a request, a memory of one forgets at every second id, a cache of two is one more than the parked file may hold, so that a
  boot may find it too large and start without; one epoch lets a probe sleep through a failure.
- `Links`: two secrets, two keys, two epochs, one install and clients without one; the clock passes the grace and, a tick later, what the grace let be minted.
- `SourcePlan`: one ask at a time, for asks share nothing but the caches, which the environment and the pages of others change; two resolves replace one generation by
  another, and URLs live longer than the margin and a capability do together, while the clock passes their end: what bounds
  an answer's lifetime is the capability at first and the margin after a wait.
- `Upstream`: pauses are shorter (1), as long (2) and longer (4) than a request may take (2); the clock lets a pause end, a second one double, and a straggler of
  either report.

The production values are larger, but nothing in the code depends on more than "below the bound" and "at the bound", and lifetimes keep
the order of the production values, but for one: `MediaTtl` in `SourcePlan` is below a URL's life, while a capability lives for a day and a URL for six hours; the
run needs both limits to bind, and `KeptAnswersPlay` is proved for any order. Symmetry is over ids, keys, requests, prewarms and lookups, which the models only compare, and is used only
in runs without a liveness property (`downloads_verdicts`, `resolve_cache`, `upstream`), as are the views (and one in `links`): these
forget what nothing reads any more (the modules say what). `MaxJobs`, `MaxGen`, `MaxBoot`, `MaxNow`, `MaxEpoch`, `MaxSecret`, `MaxKey` and
`MaxFails` cap counters in the guards and have no counterpart in the code.

Deadlock is checked but in `links`, `media_gate` and `range_relay`: once the clock is at its bound, each response over, or the one answer
at its end, there is nothing left for the model to do.

## What was read off the source

No run contradicts what the repository says of itself. Where code and comment part, or a consequence may surprise, without a property that could settle it:

- A download queued for a permit starts its extraction even when a refusal has tripped the pause meanwhile (`play.rs:684`, against
  `state.rs:177` and `play.rs:700`). `PauseIsOneEpisode` is what the code promises: a pause
  admits no new download, and what was on its way when it began, queued or extracting, neither prolongs it nor costs a strike.
- An answer whose expiry cannot be read is assumed to live five minutes, and the margin taken off is five minutes: it is
  remembered for 0 ms (`direct.rs:56`, 108, 390), and an index entry built from it is past its deadline as it starts, so that each asker starts a
  build (`progressive.rs:1047`; 1035 says "built once however many ask").
- An answer that stands in for a failed lookup is dropped at a park, and the next boot has none (`state.rs:741`, 729).
- A crop cache near its 10 000 entries parks a file larger than the 1 MiB that a boot reads (about 6 800 reports;
  `state.rs:552`): the next process starts without any. `FileMax` has it.
- `worker.shutdown()` waits for the mutex of a resolve that may take 30 s, longer than the container's stop timeout
  (`main.rs:1246`): what follows, the sweep and the saves, may never run. `Killed` in the phase `await` has it. In that wait queued downloads start new
  children, which are neither killed nor swept (`main.rs:1234`); the first hourly sweep that finds them more than 30 minutes old gets them.
- `sweep_own_temps` looks for `.pid.` anywhere in a name, and a generation stands between dots too (`play.rs:201`): it may take a
  temp file of another process. In a container every process is pid 1 and `dl_gen` starts over, so names come again
  (`play.rs:677`); `OneWriterPerTemp` holds nevertheless, for a container's children die with it. `WritersUndisturbed` speaks of a process that stays
  up: the sweep of the exit may take what a child that was started too late still writes.
- Two evictions that overlap each count what they unlink and evict more than the cap needs (`play.rs:306`).
- The capability of an HLS entry has the page's report in it as it came, and nothing bounds that when it is minted (`sources.rs:591`, 657), while `unseal` refuses a blob
  of more than 2048 characters (`sources.rs:265`). A report of 1.3 KB or so, which `client.rs:18` still reads, makes an entry whose URL its own server answers
  with a 403. `RotationHolds` is stated for the other ones.
- A capability without a tag is refused even in the grace, one minted from a link let in by the grace outlasts it by up to its own lifetime, and a
  cached `/config-key` may put an older epoch into a new install URL. `NothingOutstays` is stated with these.

## Fairness

Everything runs on one runtime that polls each task it wakes, and every operation of the network, of yt-dlp and of ffmpeg has a timeout. So:

- Downloads: weak fairness of each requester and each download; the semaphore is first come first served.
- Direct: the same of a resolve's next step and of a client's answer; yt-dlp has 30 s, the mutex and the semaphore are fair.
- IndexCache: of a build's next step (fetches time out) and of a client's answer.
- RangeRelay: of the producer's next step. Nothing is assumed of the player, so what is promised is that the
  producer ends or waits for the player and for nothing else.
- MediaGate: of the clock, the handler, the deadlines and the abort; nothing is assumed of upstream or of Hyper, which is why the
  permit is bounded by time.
- CacheVolume: of the clock, the hourly sweep, the steps of a download and of a pass, and the end of keyframe passes and orphans. No
  fairness of a shutdown, a boot or a request: `Reclaimed` speaks of a process that stays up.
- Crop: of a request's and a task's next step, and strong fairness of a task's getting a permit: requests come and go for ever, so the permit is
  free again and again and never for good; the semaphore queues in order, which weak fairness does not say.
- SourcePlan: of an ask's continuation, of the end of each resolve and of the end of each build.

`resolve_cache`, `links`, `upstream` and `downloads_verdicts` check safety only and assume none. No fairness is assumed of requests arriving, of evictions, of
crashes, of redeployments or of departures.

## Proofs

A component's theorems are in a module beside it; `Titles_proofs` has those of `ResolveCache` and `Upstream`, `Media_proofs` those of
`MediaGate` and `SourcePlan`, `Volume_proofs` those of `Crop` and `CacheVolume`.

`Downloads_proofs` proves, for every finite set of ids and prewarms and every value of the bounds:

- `TypeCorrect`, `EntriesTrack`, `Bounded`: from the inductive invariant `IInv`. `EntryTracksDownload`
  (an unfinished download has its id's entry and a live driver; an entry names a download
  of that id whose driver has yet to clear it) is not inductive alone: a generation that
  has not been given out must be unused (`FreshGens`), the typing of requests goes with it
  (`ReqAsksForId`: a request that is past its arrival asks for an id), and `InFlightBounded` is
  in the conjunction because the refinement below uses it.
- `OneDownload`: `Downloads` implements `SingleFlight`. Each step maps to a start, an
  end or a stutter; that no key starts twice is `EntryTracksDownload`, and the limit is the bound of the
  map, since unfinished downloads inject into its entries.
- `OnePause`, `RetryFresh`: action properties from `IInv`. The first rests on `TripIsOneEpisode`, that a refusal reported while a pause stands
  leaves it as it is, and on `OnlyExtractionsMove`, that nothing else touches it and no download is added meanwhile.
- `VerdictsStand`: needs `VerdictsKept`, that the memory holds at least what it owes:
  the history variable follows the same forgetting one step behind.
- `PrewarmRoom`: needs `PrewarmWaits`, that each unfinished download a prewarm started has
  a prewarm waiting on it, which holds a prewarm permit: so there are at most
  `PrewarmMax` of them, which the code asserts is fewer than its download permits (`main.rs:110`).
- `Whole`: what is served is whole.

`Direct_proofs` proves its run's safety and that it implements `SingleFlight`. The invariant has four parts beside the types: what a stage says of a
resolve's locals (`JobsFit`: an outcome in hand is of its own key), what the pipe holds (`WorkerFits`:
one question, that of the resolve that holds the mutex, so that the reply read next is its own), what an entry may be (`EntriesFit`: it is about its
key and lapses a margin before its URLs, and what is parked is no refusal), and that `direct_inflight` and the resolves that run name each other (`FlightsFit`). `Paired`, `ServesGood`,
`Playable` and `OneResolve` follow, the last with the limit on resolves from one key each.

`Titles_proofs` proves every property of `ResolveCache`. The inductive invariant says that an entry's clocks tell how it
came about (`ClocksFit`: an answer lapses a day after it was confirmed, or an hour if it is empty; a stand-in was confirmed
more than a day ago and lapses within the grace and one cooldown), that the history `vouched` is what the code calls
`confirmed`, that what is parked is never a stand-in, and that the cache keeps to its bound. For the bound, `Cutoff` is an
expiry with so many entries up to it that less than half of `CacheMax` stay, ties included. `NeverWorse`
then compares one publishing step with the entry it overwrites, for answers within
the grace: past it the code does take the failure's word. `WorthOutlived` reads the ages off the clocks, `Honest` what a hit says of itself.

`Titles_proofs` proves the property of `Upstream` as well, for every size of the pause's windows, every hint of a host and every jitter.
The invariant is `SentFits`: a request in flight has been out no longer than the client's timeout, and it left before the pause of
its host began or after that pause was over. So what moves a standing pause left before it began, and a refusal that costs another strike
left after the last pause, or that pause was over within a timeout of its beginning. The proof settled a boundary: of a pause exactly as long as
the timeout, a request that left just as it began may report just as it ends, and costs a strike. Such a pause is among the short ones
that the property excepts, and the run has one.

`IndexCache_proofs` proves its run's safety. The invariant ties together what the code keeps apart: an entry and the build it
shares (`Owned`: a build of the entry's key and URL), a build and what it may reuse (`JobFits`: the muted build it waits for is of
its own URL, and so is the half it takes), a client and the build it waits for (`WaitsForItsUrl`), and the numbering of builds
(`FreshJobs`). `PermitsFollowBuilds` ties the permits to the tasks that run, one each, of entries that are in the map or no longer are; it is the bound on builds
as well. `Bounded`, the bound of the map, is proved and has no run of its own.

`Media_proofs` proves the safety of `MediaGate`. The pump and the body are two tasks with a channel between them; `Halves` says which
states of one go with which of the other, `FramesKept` that what was read from upstream is in the channel, taken by Hyper or in the
pump's hands, and `CountedAtEnd` that nothing is counted before the task ends and one thing then. `Bounded` is the bound on the
permits held, one for each body that is open.

`Media_proofs` proves the safety of `SourcePlan`. What leads was decided before up to three awaits, so the invariant says what an ask
brings to each (`Waits`): only a list that is silent waits for its resolve; past it the ask has URLs of the rung its head plays
from; only a progressive head waits for an index, only `sound` for the short one, and an index that was waited for was built from
the very generation in hand. `CachesFit` says that what is ready was built, and `PageFits` what the page keeps: what can start comes
first, and a Google URL outlives the answer by its margin. That an answer's time is not in the future is part of it, for
`CachedStillPlays` counts from there. One lemma (`AnswerFits`) carries all of this from the answer to the page;
`LeadsAreBuilt`, `KeptAnswersPlay` and `FramesAreOfTheirRung` read it off.

`RangeRelay_proofs` proves its run's safety for every layout without gaps, every range, every size of channel and of upstream range. The frames in
the channel continue what the player has (`Flow`: `place[k]` is where in the file the k-th begins), and the producer stands at the next
byte after them, position `p` of the file: `ProducerFits` says for each of its stages what its locals have to do with `p`. The
step that matters is `Keeps`: within a part the pieces ascend in their file (`PartFits`), so that what is dropped between two of them belongs to
no piece, and the next byte kept is the next byte of the file (`NextCut`). `ParsedAsWanted` shows that `parse_range` names
just the bytes that the header asks for.

`Links_proofs` proves both of its run's properties. The invariant says what a tag is evidence of: `LinkShape` and `CapShape` tie a tag, under whatever secret it was made, to the claims
beside it and to the party they were made for, so that a check of the claims is a check of the party; a tag over a bare id names nobody. `LinkFits` and
`CapFits` say what a deployment has to be to have handed this out, in particular that what the grace let in expires within a `MEDIA_TTL` of its end,
and `RingOk` that signing and sealing, once on, stay on. With that `NothingOutstaysIt` is a statement of one request, and `Rotation` one about states: the checks that the
running deployment would make of what a client holds, each with its conditions, the length of the blob included.

`Volume_proofs` proves the safety of `Crop`. `NoStaleYes` is inductive with the types; `OneMeasurement` needs that a task that runs holds an id (`HeldIds`), and
carries the mark and the tasks through every end of a measurement; `WholeStands` is an action property of `BackgroundReport`, which publishes where nothing
is, and of every other step.

`Volume_proofs` proves the safety of `CacheVolume` too, for any ids, any boots, a container or none. The invariant has to say where every
writer comes from (`WritersBelong`: one of an earlier process is there only outside a container, and the pid in a temp's name is that of
the process that writes it), that a temp this process writes belongs to a download at work (`TempsAtWork`) and is on the volume until that
download is done with it (`TempsThere`, a theorem of its own), and that what is in use was written lately (`InUseIsYoung`), which keeps the
sweeps by age away from it. `OneWriterPerTemp` follows, with its second half: nobody writes yet to the temp that a queued download is about to
open, though pids and generations come again. `PassesFit` ties an eviction to a process that runs and to the download that waits for
it: the end of a pass ends that download, and must not end one at work.

Assumptions: each module's named `ASSUME`, which TLC evaluates. They say that constants are numbers of the right sign
and that ids, keys and prewarms are finite sets; beyond that, that `yt_cache` holds two entries or more, that there
is a video, that layouts have no gaps (`Tiled`; the run takes its layouts from `LayoutOf`, as the code does), and the relations of
timeouts named above.

Checked by TLC only: the liveness properties, for fairness and ENABLED are out of reach of the prover. They are `NoneWedged`, `ClientsAnswered`,
`PermitsReturn`, `BuildsEnd`, `ProducerEnds`, `Reclaimed`, `MeasurementsEnd` and `AsksAnswered`.

## Not modelled

- HLS rewriting (`hls.rs`), the MP4 parser and writer (`progressive.rs`), the reading of Retry-After, of user agents (`client.rs`) and of the environment
  (`config.rs`): functions of text and bytes without state, whose own tests enumerate their cases; what the rest of the program sees of their results is an
  input of the models.
- yt-dlp, ffmpeg and MP4Box themselves, and `ytdlp.rs` but for its registry of process groups and its timeouts.
- Routing, headers and conditionals (`main.rs`, `httputil.rs`) but for `parse_range`; the drain of connections and its deadline.
- The arithmetic of boxes and aspects (`crop.rs`), the order and number of candidates and the imdb/tmdb pair map (`addon.rs`), health and metrics.
- A torn file: parked files are written beside and renamed, trailers likewise, and both are one step here.

## What is left

1. The drain: its deadline against bodies that the gate still lets run.
2. The re-run of an extraction after a 403, and the order of discovery in `addon.rs`.
3. Operators against reference definitions: Retry-After and the crop arithmetic.
