# Aetheris in TLA+

Aetheris is a Tauri desktop monitor: a Rust back end (`src/src-tauri/src`)
collects host, container, network, AI and telemetry figures, and a JavaScript
front end (`src/src/main.js`) polls one command, `get_stats`, every second.
This directory holds TLA+ modules of its concurrent parts, the TLC
configurations that check them on small instances, and proofs checked by TLAPS.

## Inventory

| Component | State | Operations | What is hard, and what makes it correct |
|---|---|---|---|
| Image-update detection, `monitors/registry.rs` | per image: remote digest and when it was stored | `check_update`, `fetch_remote_digest` | concurrent checks of one image, answers that are old on arrival, dropped futures. A verdict compares with a digest the tag really named not long ago; "unknown" has a cause; retries are rate-limited |
| Container monitor, `monitors/containers.rs`, its loop in `main.rs` | the last container list | `refresh` over two back ends, `get_container_stats` | a hung daemon, failing docker calls, a timeout at any await. Readers see whole refreshes; the loop goes on |
| TTL slots and `get_stats`, `main.rs` | six slots (value, time), system handles | `cached`, `get_stats` | slots that expire together, polls that pile up behind them. Polling keeps up; a value is served no older than its TTL plus the time it took |
| Telemetry store, `database.rs` | two SQLite tables that outlive the process | `insert_metric`, `insert_metric_if_stale`, `metric_series`, `latest_metric`, `count_metric` | restarts, a clock that goes back, several callers. At most one sample per interval and subject |
| Remaining life, `analytics/rul.rs` | none | SSD and battery projections | guards at the edges: short histories, no trend, resets. No projection without a real trend |
| AI proxy, `monitors/ai_observability.rs`, `server/mod.rs` | per stream: line buffer and "recorded" flag | relay, record | chunk boundaries, broken streams, the 32 MiB valve. One sample per generation, the bytes relayed unchanged |
| Cloud ranges, `monitors/cloud_ranges.rs` | the prefix table | lazy fallback, refresh, classification | readers during replacement, partial failures. Never without the fallback |
| Kernel egress probe, `ebpf/src/main.rs` | map PID → bytes | account, evict | several CPUs, PIDs reused after exit, a full map. Bytes belong to a process that lives |
| Probe loader, `monitors/ebpf_egress.rs` | the loaded probe | load, attach, rollup | partial attachment |
| Network topology, `monitors/network_topology.rs` | none | read sockets, inodes, counters, and join | three snapshots at three moments |
| External baselines, `monitors/external_baselines.rs` | ranks and DORA figures | refresh, DORA computation | independent failures, arithmetic at the edges |
| Front end, `src/main.js` | history buffers, rows | poll, render, reconcile | answers out of order |
| GPU, SMART, battery monitors, `build.rs` | none | readers | pure I/O |

How they interact: four background tasks (cloud ranges, baselines, containers,
AI proxy) and the probe fill state that `get_stats` reads. Tauri runs a command
that is not async on the main thread, one call at a time. `get_stats` runs the
slow readers itself, through the TTL slots; it and the AI proxy write telemetry,
which the remaining-life projections read back. The front end only calls
`get_stats`. The container monitor calls the update check once per container and
is its only caller.

`PROJECT.json` lists the hazards of these components one by one, with their
lines and the properties that would catch them.

## Modules

| Module | Models | Role |
|---|---|---|
| `Registry` | `registry.rs` | component |
| `Snapshot` | what a background monitor promises to readers of its cache | abstract specification |
| `Containers` | `containers.rs` and its loop, over `Registry` | component, composition |
| `Containers_proofs` | | `Registry` and its invariant; what the monitor publishes, and that it implements `Registry` and `Snapshot`; proved |
| `EgressProbe` | `ebpf/src/main.rs`, the loading in `ebpf_egress.rs` | component |
| `EgressProbe_proofs` | | what the probe's entries count, and that they miss nothing, proved |
| `CloudRanges` | `cloud_ranges.rs` and its loop | component, used by the next two |
| `CloudRanges_proofs` | | lemmas on the table and its classification, for the next two proofs |
| `Egress` | `network_topology.rs`, over `CloudRanges` | component, composition |
| `Egress_proofs` | | what a row says of its socket on each platform, and what lsof's parser makes of its text, proved |
| `Baselines` | `external_baselines.rs` and its loop | component |
| `Background` | both loops over one network | composition of `CloudRanges` and `Baselines` |
| `Background_proofs` | | attribution, what is shown of partial failures, and the figures of every log and CI answer, proved |
| `Drives` | `smart_disk.rs` | operators of `Telemetry` |
| `Telemetry` | the samples in `database.rs`, `rul.rs`, `battery.rs` | component |
| `Telemetry_proofs` | | the samples, their units and confidence, proved |
| `AiProxy` | `ai_observability.rs`, `server/mod.rs`, what `get_stats` reads of it | component |
| `AiProxy_proofs` | | what is relayed, recorded and shown, proved |
| `Stats` | `get_stats`, `cached` and the poll of `main.js` | component |
| `Stats_proofs` | | that polling keeps up and what is shown is fresh, proved |
| `MC...` | | instances for TLC |

### Registry

`call[k]` is one `check_update` future: `pc` is where it is suspended (`idle`,
one of the requests `head`, `token`, `retry`, or `done`), `digest` is the digest
the registry has read for the request but whose answer has not arrived, `wait`
the age of the request. `cache[i]` is an entry of the static `CACHE`; it carries
its age, and an age of `TTL` also stands for a missing entry, which the lookup
treats alike. `tag` is the outside world. `lastNamed`, `lastFailed` and
`lastEnded` are history: they are never read by an action and only serve to
state properties.

A call up to its first await is one action (`CallWithoutDigest`, `CallHit`,
`CallMiss`, `CallUncheckable`); the code holds no lock over an await, so calls
interleave exactly at the requests. The request is served (`ServeManifest`) and
its answer received (`ReceiveDigest`) in two steps, so a push can fall between
them. Every `?` of `fetch_remote_digest` is `RequestFails`. `RequestTimeout` is
the client's timer. `Release` takes the answers, or drops futures at an await.

Abstracted: digests and references are model values; what `parse_image_ref`
accepts is the set `Checkable`; a failed fetch does not remember why.
`tag[i] = NONE` is a tag that does not exist. The request limit is attributed
to the request as a whole, as in `reqwest`. Time: a tick does not pass while a
timer is due.

### Containers

`pc` names the await the refresh is suspended at: `ps`, `enrich` (`docker
stats`, `docker inspect`), `images` (`docker image inspect`), `ping`, `list`,
`detail` (per container, over the socket), `checks` (`join_all`), or `asleep`.
`rows` is the list under construction, `published` the static `CACHE`. `docker`
is `up` (answers within the tick), `down` (calls fail) or `hung` (calls never
return), and may change at any step. `failing` is the set of back ends that fail
at the moment although the daemon is up, and changes at any step too: the CLI (a
missing binary, `docker ps` exiting with an error) and the socket (no
permission, an error of `list_containers`, with or without an answer to the
ping). A failure of `docker stats`, `docker inspect`, `docker image inspect` or
of a container's details only leaves out what it would have told, whatever the
daemon does. `worked` is history, the back ends that have worked since the
refresh began. `Expire` is `tokio::time::timeout` dropping the whole future, the
suspended checks with it (`Release`).

The differences between the back ends are kept: the CLI lists running
containers and finds digests by the reference `docker ps` printed (`Tagged`),
the socket lists all containers and inspects each image. Left out: CPU, memory,
I/O and port figures, whose calls appear only as the awaits they are.

`Containers` EXTENDS `Registry`; every action of the monitor conjoins the
`Registry` action it runs or leaves `registryVars` unchanged.

### Snapshot

Two variables for readers, `shown` and `busy`, and the `result` of the refresh
under way: `Commit` shows a whole result, `Drop` shows nothing, and refreshes
alternate with pauses for ever. `Containers` implements it with
`shown <- published`, `busy <- Refreshing`, `result <- RefreshResult`. The
liveness part is written `[]<>busy /\ []<>~busy` rather than as fairness of its
actions, which is the same promise in this specification.

### EgressProbe

`element` is the map `EGRESS_BYTES` as the kernel keeps it: a fixed stock of
elements, each with a key (a PID, or `NONE`) and a counter. A counter is the set
of the sends it counts, which tells lost, inherited and misplaced bytes apart
where a number would not. `probe[p][t]` is thread `t` of process `p` inside
`account()`: it has looked its entry up (`found`, with a pointer to the element,
or `absent`) or read the counter (`loaded`). `Load` and `Store` are separate
since `*counter += bytes` is not atomic, and the pointer stays usable after the
entry was removed and its element taken by another process, as it does with the
kernel's preallocated maps. `Evict` is `sched_process_exit`. `Attach` and
`AttachFails` are `load_and_attach`. `Spawn` and `Clone` are the kernel; a PID
is free again when all threads of its process have exited. Sends of PID 0, and a
thread that takes over its process by `exec`, are left out.

`sent` and `past` (what the process with an id sent, and what earlier ones did),
`raced`, `missed`, `unwatched` and `orphaned` are history.

### CloudRanges and Baselines, composed in Background

`table` is the static `RANGES` (with "none" for a table nobody needed yet),
`fetch` the task of the refresh loop: the request it waits for and the entries
it has. A prefix is the number of its leading bits and those bits, so
`Covers` is the containment of the code over addresses of `Width` bits. An
address is a host and the form it came in: one mapped into IPv6 is folded
first, as `is_local` does. Which hosts are local or in the shared range is
constant. `Classify` follows `classify`: mesh, local, the longest prefix, the
first of equals. A list that cannot be fetched adds nothing; the table is
published in the step that handles the second answer, since no await follows
it, and only if something was fetched.

`Baselines` is the other task, with its three sections in sequence and one
publication. Its figures are operators: medians over the gaps of a git log and
over repair times of CI runs. `work` is the task, `outcome` the history of how
the last fetch of a section went. In `Background` both meet the same `network`:
`up`, `down` (requests fail) or `stalled` (a request never ends, for neither
client has a timeout; the task is then `stuck`).

### Egress

One collection by the reader of the `platform`. `host` is outside: sockets and
processes open, close, start and exit at any moment, and an inode, a pair of
endpoints or a process id is free again when its owner is gone. The reader only
remembers names (`owner` by inode, `bytes` by endpoints). Its steps are the
system calls between which the host may change: on Linux the two socket tables,
the descriptors of one process at a time, `ss`, the flag of the prefix table,
one row at a time, the totals of the probe; on macOS one `lsof` and the rows; on
Windows one call per table, a name per process and the rows. Each source may
fail by itself, and `failed` is the history of those that did: a socket table,
`/proc` as a whole (the rows then have no owner, and all look like shadow
traffic), `ss`, `lsof`; the collection goes on without it. The texts of `ss` and
`lsof` are sequences of lines and fields, and `ParseLsof` folds the code's state
machine over them. `ParseSs` says what the loop of `parse_ss_output` amounts to:
a count goes to the key of the header above it, or of its own line, and the last
count of a key stays. A counter is the socket whose bytes it counts, so a row
that shows another socket's bytes is visible; `ss` prints no counter of zero, so
the sockets in `Silent`, which have sent nothing, have none. The probe's total
under a process id is taken to be its process's now: what such an entry may have
inherited is the subject of `EgressProbe`, and no property of `Egress` says that
it has not. The refresh of `CloudRanges` runs concurrently.

Abstracted: the hexadecimal of `/proc/net/tcp`, ports, prices; what a class of
address costs is only "metered", "free" or unknown. The rollup by process name
is left out.

### Telemetry and Drives

`samples` is the telemetry table by id, without the rows of the proxy; `shown`
the last projection with the samples it was made from. A poll samples and
projects in one action: the two accesses to the database take its lock one after
the other, but nothing else writes these rows. `now` is the wall clock (SQLite's
`CURRENT_TIMESTAMP`), which `SetClock` may set to anything; `Restart` ends the
program, whose table is on disk. `worn` and `counter` are the device: what it
really wore and what it reports of that, which a drive may lose (`LoseCounter`)
or leave out (`Incomplete`, then sampled as zero as the code does). A battery
reports whole percentages. The rating of a drive, and with it the date a
projection ends at, is left out. `Drives` has the attributes of the vendors'
SMART tables, in every order, and takes the counter from them. Not covered:
failing insertions, the arithmetic from velocity to date.

### AiProxy

An answer is a sequence of pieces, a line two pieces and a newline; the proxy
reads what has arrived up to any point, so every chunking is a behaviour.
`call[r]` is one `proxy` future: reading the request, sending it, streaming
(`stream` before a chunk, `yield` when the chunk was looked through and not yet
passed on), or ended. `engine[r].sent` has the time of each piece, for the
rates. `Leave` drops the future where it is suspended. `Record` appends the
rows; each may be refused. `panel` is what `get_stats` read: the newest rate
and the number of rows, under one lock each.

### Stats

`calls` are the polls that wait, `call` the one that runs, `slots` the entries
with their ages in seconds: `age` since an entry was dated and `read` since what
it holds was read, which differ by the time its function took. Time passes only
in these functions and while nothing is to do; nothing relates what a function
takes to how long its entry lives. `spell` is history: how long the command has
not been idle, and which slots were computed, and computed again, in that time.
Calls run one after the other: the mutexes of `AppState` are never contended.

## Runs

| Run | Shows |
|---|---|
| `registry` | Two concurrent checks, one checkable and one uncheckable reference, two digests, a tag that moves or disappears at any moment. `FreshVerdict`, `UnknownHasCause`, `RetryRateLimited`, `EveryFetchEnds`, and the invariant of the proofs, `RegistryInv` |
| `containers_live` | One container, two outside changes, among them the CLI and the socket failing by themselves. `ReadersSeeWholeRefreshes` (implements `Snapshot`, liveness included), `VerdictHolds`, `UnavailableMeansBoth` ("docker CLI and socket both unavailable" is not published by a refresh throughout which one of them worked), `RenewedWhenPrompt` (while one of them goes on working, the cache is renewed), `DownIsShown` |
| `containers_pair` | Two containers of one image, interchangeable (symmetry; safety only). `VerdictHolds` per container and `ImplementsRegistry` |
| `containers_slow_registry` | Violated: a comment in `refresh` says the request limit keeps a slow registry from consuming the refresh budget. Three requests of 10 s are the budget of 30 s, the dropped fetch is not cached, and the next refresh meets the same registry |
| `containers_hung` | Violated: the design says an unreachable docker is reported as unavailable. The refresh that hangs is dropped, and the status stays `ok` |
| `egress_probe` | Two ids, each used by up to two processes of up to two threads, four sends, one element, so that the map can be full and its element change hands. `OwnBytesOnly`: with every exit watched and leaders exiting last, an entry counts only its live process's sends. `AllBytesUnlessRaced`: and all of them, but for overlapping sends and a full map, the two losses the README admits or the code ignores |
| `egress_recycled_pid` | Violated: the probe's comment and the README say a recycled PID never inherits. A thread that sends after the leader's exit leaves an entry that stays |
| `egress_collect` | Six sockets of four processes on three platforms: two sockets with the endpoints, and two with the inode, of another; two processes with one id; a hidden process, which shares a socket and holds one alone; UDP, mesh, local and mapped peers. `RowsDescribeTheirSocket`, `StandingSocketsAreListed`, `OnlyEgressIsListed`, `ShadowAlertHasCause`, `LiveLabelIsEarned`: what a row says is true of its socket unless a name was reused during the collection, and what stands throughout is missing only if a table it would be in could not be read |
| `background` | Both tasks over a network that fails, stalls and recovers; a list that loses a prefix and gets it back. `AttributionIsMostSpecific`, `LiveMeansAList`, `NothingStaleIsShown`; `CiFiguresAreRight` and `LeadTimeIsTypical` (order of the input, medians, edges) over all answers of up to three runs and logs of up to four commits; `TableConverges` and `BaselinesRecover` (liveness) |
| `telemetry` | Two drives of one model, a drive of each vendor, or a battery; the clock set once, one fault. `HistoryIsSparse` and `SilenceHasCause` for the throttle, `HighMeansMeasured` for the projections, `SamplesAreBytes` for the units |
| `ai_proxy` | A request to each engine: a line without accounting, two accounting lines, none terminated, one too long. `SamplesAreTheLines`, `CompleteMeansWhole`, `RatesAreNotOverstated`, `RateIsCounted` |
| `stats` | Three slow slots polled for ever, which together take as long as the longest-lived entry lives. `PollingKeepsUp`: no function is called a second time before the command has been busy for as long as its entry lives, and until then no answer is later than all take together. `PartsAreFresh`: an answer shows nothing older than the time to live and these times allow |

Bounds. A tick is 10 s for the ratio that matters in `Containers`:
`RequestLimit` 1, `Budget` 3 and `Nap` 1 keep "three requests fill the budget"
exact and round the pause of 20 s down to one tick. `TTL` is 2 instead of 270
ticks: it only has to be long enough for an entry to be fresh at one call, old
at a later one, and to outlive a push. `Horizon` is the smallest value at which
"longer ago" exceeds every bound the properties compare with: `TTL +
RequestLimit` in `registry`, that plus `Budget` in the container runs.
`MaxChanges` bounds how often the outside changes, not when; two changes give a
daemon that fails and recovers, or a pull racing a push. Two digests tell
"current" from "update"; two callers are what a race needs, and the proofs cover
any number. `Breakable` are the back ends that may fail by themselves: both in
`containers_live`, the CLI elsewhere. `Egress`: two owners of each name are what
a mix-up needs, and each socket opens once, in any order. `CloudRanges`:
addresses of three bits are enough for prefixes of three lengths inside each
other. `Telemetry`: times 0 to 5 hold three samples two apart, a trend that is
long enough and one that has left the window. `AiProxy`: at most six pieces per
answer, with the valve at two, so that a line may be cut anywhere and be too
long. `Stats`: ages are counted up to a cap above every bound compared with; the
functions together take up to five seconds and the entries live three, four and
five, so that a spell of polls can outlast an entry of its own; `MaxWaiting` is
seven polls, one more than may wait while no slot is computed again.

Fairness. `Registry`: the clock and the client's timers (`Tick`,
`RequestTimeout`); no registry is assumed to answer. `Containers`: the tokio
runtime polls the task when it can go on (`Collect`, `StartCheck`, `Publish`,
`Wake`), its timers fire (`Expire`, `CheckTimesOut`) and time passes; the daemon
and the registry may stay silent for ever. `Collect` is weakly fair although its
steps need docker to be `up` or `down`: that a daemon that is up answers is the
meaning of `up`, and a hung daemon disables the step. `RenewedWhenPrompt` states
in its premise that docker stays up with one of its two back ends and no request
outlasts a tick; `containers_slow_registry` shows the premise is needed.

`Background`: both tasks go on when their request does not stall; the network
and the publishers owe nothing, and `TableConverges` and `BaselinesRecover`
state in their premise that the network is up from some time on. The other
specifications have no fairness and no liveness property.

Deadlock is checked in every run but the two of `EgressProbe`: loops never end
and polls go on. The runs of `EgressProbe` stop when sends and ids run out.

## Proofs

Each `..._proofs` module proves its theorems for every value of the constants
that meets the module's assumptions, which TLC evaluates in the runs. An
invariant a run checks is seldom inductive; what follows says what each proof
adds to it. Every proof has one lemma or step per action.

### Containers_proofs

First of `Registry` alone, for every set of callers, images and digests and all
time bounds with `TTL > 0` and `Horizon >= TTL + RequestLimit`:
`RegistryInvariant`, and from it `VerdictIsFresh`, `UnknownIsCaused`,
`RetryIsRateLimited` (the three safety properties of the run) and
`DigestlessAsksNobody`. `FreshVerdict` is not inductive: whether a cached digest
is recent depends on the answer it was stored from. `RegistryInv` says so in
steps. `TagIsNamed`: what a tag names now was last named now. `AnswerIsRecent`:
a digest on its way was named at most `wait` ago, since the registry read the
tag while the request was under way. `EntryIsRecent`: an entry of age `a` holds
a digest named at most `a + RequestLimit` ago; two fetches of one image may
store in either order, and each keeps it. `FailureIsRecent` and
`EntryAgeIsFetchAge` tie an entry's age to the last failure and the last end of
a fetch.

Then of the monitor. `MonitorImplementsRegistry`: every step of the monitor is a
step of `Registry` or leaves it alone, from the small invariant `RowsTyped`; so
`RegistryInv` and the theorems above hold inside the monitor, wherever the
timeout falls. `MonitorInvariant` adds to them: a check is of the row it was
started for (`CallsAreRows`), the digest of a row was held during this refresh
(`DigestsWereHeld`), a verdict compares it with a digest named less than `TTL +
RequestLimit + elapsed` ago (`VerdictsAreRecent`), a back end that has worked so
far works now and has not been given up (`WorkIsNoted`). `VerdictsHold`,
`UnavailableIsBoth` and `MonitorTyped` follow. `MonitorImplementsSnapshot` is
the safety half of the refinement, `Snap!Safety`: initial states map to initial
states, and every step to `Begin`, `Work`, `Commit`, `Drop` or a stutter.

### EgressProbe_proofs

`ProbeIsHonest`, `Spec => []OwnBytesOnly`: the property says nothing of threads
inside `account()`, so `ProbeInv` adds that a thread inside is alive
(`ProbesRun`), that a process with threads has its leader (`LeaderStays`), and
that a pointer still points at the process's own element (`ProbesOwn`), which is
what the leader's staying buys. `ProbeIsComplete`, `Spec =>
[]AllBytesUnlessRaced`, rests on that and on `CountInv`: a process has one
element (`OneEntryEach`), one send at a time unless it raced (`Alone`), and the
element holds all but the send under way, or the counter just read is still the
element's (`Whole`). `ProbeTyped` is the type invariant.

### CloudRanges_proofs, Background_proofs

The table, and what a refresh has so far, is the hardcoded table followed by
published prefixes (`Extending`); a live one is longer. From that
`LiveTableHasAList`, and with the lemma that `Longest` is a matching prefix of
the greatest length, the first of equals (`LongestMatches`),
`AttributionIsRight`. `BaselinesAreCurrent`: the ranks a refresh carries agree
with the outcome of their fetch while it goes on with git and CI.
`BackgroundInvariant` joins the two.

The figures are proved for inputs of every length. A median is taken by rank:
each index of a set has a rank of its own below the size of the set
(`RankIsOwn`), so every rank is taken (`RankIsTaken`, by counting), the value at
a rank depends on the values alone and not on how they are numbered
(`SameValues`, `MedianMoves`), and the median is a value of the set (`MedianIs`)
with at most half of the values below it and more than half at most it
(`MedianHalves`). `FiguresOfEveryAnswer`: turning an answer round renumbers its
runs and changes no repair, so no figure (`SameRepairs`,
`OrderOfRunsIsNoMatter`), and the median time to repair is that of a pair of
runs with no success of that workflow in between; the runs repaired sooner are
those whose repair time is below the median (`RepairedWithin`).
`LeadTimeOfEveryLog`: the next newer commit is the one of the next rank
(`NextIs`), so the gaps are the waits for the next commit (`GapsWithin`), half
of them are at least the lead time (`AtLeastHalf`), and that many gaps fit one
after the other between the oldest and the newest commit (`LongGapsFit`).
`CiFiguresStayRight` and `LeadTimeStaysTypical` are the run's invariants.

### Egress_proofs

For every host and each of the three readers: `RowsAreTheirSockets`,
`StandingIsListed`, `OnlyEgressHasRows`, `AlertsHaveCause`, `LiveLabels`,
`EgressTyped`. The invariant follows the reader: where it is (`PlaceInv`), what
the tables it has made mean (`OwnerInv`, `ScanInv`, `BytesInv`, `ListInv`) and
what a row means (`RowInv`, `LinuxRow`). One argument ties what was looked up
earlier to what is looked up later: of two sockets with one inode or one pair of
endpoints, and of two processes with one id, only one is there at a time
(`HostInv`), so the other came or went meanwhile and is in `changed`. A source
that could not be read is in `failed`, and the invariant says of each stage what
is known unless it is.

The macOS reader rests on `LsofRows`: whatever the number of processes and
sockets, the rows `ParseLsof` makes are those of the sockets a visible process
holds, established and towards a host that is not local, with that process's id
and name. The fold over the fields is first turned into a table of what was read
after each field (`FoldTable`, `ReadsInOrder`; the library folds by picking an
index from a set, so the table is over all sets of indices), and the text into
blocks read one after the other (`Flattened`, `ReadsBlocks`). Then one socket
appends its row or nothing when it ends (`SocketRead`), the fields of a process
before its sockets add none though they hold a listener (`HeadingRead`), and a
process adds the rows of its sockets (`ProcessRead`). That nothing of one socket
reaches the next is the point of `Cleared`.

The proof corrected a property: `ShadowAlertHasCause` used to ask that every
process that ever shared the socket be hidden, and is false where a visible one
had exited before the collection began. It now asks it of the processes that
hold the socket; the run has a socket shared in this way.

### Telemetry_proofs

For any devices, polls, restarts and settings of the clock, and every interval.
`HistoryStaysSparse`: a row is compared with the newest of its subject only, and
`HistoryIsSparse` makes that one the latest too. `SilenceStaysCaused`: a row
later than the clock was written before the clock was last set (`FutureIsPast`).
`SamplesStayBytes`: by kind of drive, what `SataBytes` finds in every order of
its attributes (`SetToSeqs`), of a counter that is at most the wear
(`ReadingsInv`). `HighIsMeasured`: the first and last sample of a series are the
earliest and latest kept (`SeriesEnds`), what a device wore between two of its
samples is at least what it counted (`DriveWorn`, `BatteryWorn`), and a
projection stays measured until the next, however the clock is set meanwhile;
`MinDrop >= 2` (`DropAssumption`, 2 in the code) is where the jitter of a
battery is excluded.

### AiProxy_proofs

For any number of requests, all answers and every way to cut them, with a valve
that lets an accounting line pass (`ValveAssumption`). `ServedInv` is per
request: the times are in order (`Answered`), and what is kept of the line in
progress is the end of what was read (`Relayed`). From it `CompleteIsWhole`, and
with the rows `RatesStayHonest`. `SamplesAreOfLines` needs to compare what is
found in the buffer with the lines of the whole answer. The lemmas on windows of
a sequence (`Window` to `BufferLines`) say that a line of the buffer is the line
of the answer if it starts inside; what is kept is all of the line in progress
or the line is too long (`Whole`, kept by `StaysWhole`); so a chunk's accounting
lines are found, each once, and beyond them at most such as are too long
(`Found`). `LinesInv` counts the rows of a request, with those refused, between
its accounting lines and these plus its long ones. `RateIsAmongTheCounted`: the
table only grows, and the rate is read before the number.

### Stats_proofs

For any slots, times to live and costs. The invariant (`StatsInvariant`) looks
back to the last moment at which nothing was under way: what has been computed
since is no older than the time that passed since, and until a slot is computed
again that time is at most the sum of the costs of the slots computed since. So
a slot can be computed again only after its time to live (`PollsKeepUp`), and
if every entry lives longer than all the functions take together, none ever is
(`QuickSlotsOnce`). `AnswersAreFresh` follows an answer through the order of the
slots: a part ages by what the later ones cost. The sum of costs is a fold over
a set; its equations are proved from the library's definition of the fold. The
cap on ages hides nothing, since it lies above every bound.

### Assumptions

`ProxyAssumption`, `HostsAssumption` and the like say what kind of thing a
constant is. Those that say more: `NothingIsNone`, `NoneAssumption` and
`AbsenceAssumption`, that "none" is none of the values it is told apart from;
`DropAssumption` and `ValveAssumption`, above; `FallbackAssumption`, that the
hardcoded table is a sequence of prefixes with providers. The code meets each:
`Option`, `MIN_BATTERY_SOH_DROP`, `MAX_REQUEST_BODY` of 32 MiB,
`build_fallback`. `OrderAssumption`: `get_stats` looks at each slot once
(`main.rs:276-314`). No assumption relates costs and times to live, since the
commands the slow readers run have no timeouts.

### Only model-checked

- Liveness, which TLAPS cannot prove: `EveryFetchEnds`, `RenewedWhenPrompt`,
  `DownIsShown`, the alternation in `Snapshot`, `TableConverges`,
  `BaselinesRecover`.
- The three properties of the runs that expect a violation, which are false.

Everything else a run checks has a theorem. The folds and recursive sums are
proved too, although the library's induction theorems are out of reach: the
definitions are unfolded from the library's, and induction over numbers is by
the least counterexample (`Smallest`, `UpTo`).

## Where code and documents differ without a run

Met while modelling; the properties state what the code does.

- `cloud_ranges.rs:287-289` says that on any failure the existing table is left
  untouched. When one of the two lists fails, a table with the other alone
  replaces it (`Fetched`, `FetchGcp`).
- `README.md:76-77` says that a failed fetch shows unavailable, never stale
  ranks. While a later request of the same refresh stalls, the ranks of the
  refresh before stay; `NothingStaleIsShown` has the exception.
- `README.md:81` speaks of default-branch runs; the request asks for no branch.
- `calculate_ssd_rul` prefers a drive's own profile to the generic one by
  ordering the two by name, descending (`rul.rs:39`). A model that sorts before
  "Generic 1TB", such as the seeded "Crucial MX500 1TB" (`database.rs:148`), gets
  the generic rating. The lookup is not modelled.
- On macOS and Windows a row classified by the hardcoded table may be labelled
  live, since the flag is read after the class (`LabelRow`).

## Not modelled

- The GPU monitor and `build.rs`: readers without state, and a build step.
- In `get_stats`: the figures that are read anew at every call, and the lists of
  names the inventory looks for. A function of a slot that never returns, such
  as a `smartctl` that hangs: it would stop the panel, which is plain from the
  code and nothing to check.
- The front end but for its poll: rendering, and the reconciliation of rows.
- The rating of a drive: one query over constant rows, whose defect is above.
- Two programs sharing one database file; failing insertions of samples.
- The parsers of image references, challenges and addresses, docker's figures,
  and all wording.

## Plan

Done: all modules above, their runs, and the proofs listed; of the properties of
the passing runs only those of liveness have no theorem. Left: the parsers that
are left out, as operators over small inputs, and the rollup by process name.
