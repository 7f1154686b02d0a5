# SVDC in TLA+

A verification project for the Sampled-Value Data Concentrator of this
repository (`svdc-bin` and the crates it is built from, and the publisher tool
that feeds it): TLA+ modules of its concurrent core, of its codec and values and
of its start-up, TLC runs that check them on small instances, and TLAPS proofs of
the theorems that matter most. Paths below are relative to `src/crates/`.

## 1. Inventory

### How the daemon is put together

```
 UDP datagrams --> receive thread --> IngressRing --> aligner thread --+
   (svdc-bin)       decode_l2_stripped  (svdc-ingress)  Aligner         |
                                                                        v
 operator (HTTP) --> start/stop --> run_pipeline loop -- Aligner --> TickBuffer
   (svdc-console)    tamper, reset       |                           |  |  |
                                         v                           |  |  |
                                    Historian (CSV) <----read_since--+  |  |
                                    L0 demo task   <-----read_since-----+  |
                                    L1 bridge task <-----read_since--------+
                                         `-> snapshot --> OPC UA publisher
 browsers <-- SSE <-- broadcast channel <-- emitter (reads buffer, counters)
 operator --> calibration/config routes --> OperationalState, ChannelRegistry
                                         `-> AuditLog (ring + JSONL file)
```

Three things are shared by everything: the `TickBuffer`, the atomics of
`DataPipeline` (`running`, `ticks_emitted`, `tamper_count`, the L0 and L1
counters) and the files (CSV history, audit log, operational state). HTTP
handlers run concurrently on the tokio runtime; no lock spans a whole handler.

### Components

| Component | State | Operations | What is hard | What makes it correct |
|---|---|---|---|---|
| **Tick buffer** `svdc-aligner/src/buffer.rs`, `svdc-subscribe/src/lib.rs` | bounded deque of ticks; a cursor per subscription | push (drop oldest), pop, recent, read_since | several readers of different speed, loss at the old end, cursors that outlive records | a reader gets every tick once or the buffer retired it first, oldest first |
| **Data pipeline** `svdc-console/src/dataplane/mod.rs` | buffer, `running`, the task's handle, counters, seen merging units, vendor preset | start, stop, inject_tamper, reset, set_vendor, the loop | start/stop/start races, a handle stored after its task runs, counters zeroed under a running loop | stop joins what it stopped; running says the truth; every frame is noted |
| **L0 demo** `svdc-bin/src/main.rs` | a subscription, three counters | read, count | reads across restarts and resets | counts every record at most once |
| **Historian** `svdc-historian/src/lib.rs` | CSV file, BufWriter, cursor | new, tick, flush | exists/open race, unlink while open, a write that fails in mid-batch | rows in order, none twice, none left behind |
| **UDP ingress** `svdc-bin/src/main.rs`, `svdc-ingress/src/{ring,udp}.rs` | ring, two threads | receive, push, pop, align | two threads, full ring, resets and tamper requests in between | every datagram is accounted for; ticks in arrival order; the counter is off only by who is in between |
| **Audit log** `svdc-console/src/audit/mod.rs` | ring, next_seq, JSONL file | record, persist_line, replay | line order, kills, torn lines, failing disk | numbers unique, answered events durable |
| **Operational state** `svdc-console/src/operational/mod.rs` | overrides, TOML file | set, reset, save, load | one temporary file for all savers, kills | the file is always whole and current when quiet |
| **Channel registry and config routes** `svdc-console/src/scd`, `routes/config.rs` | the merging units of the active configuration | upload, sample, clear, register | check and replacement are steps of concurrent handlers | no request adds an id a second time; the audit log tells what is registered |
| **Calibration routes** `routes/calibration.rs` | (composition) | set, reset | check, mutation, save, audit and append are steps; kills and failing writes in between | the audit log tells what is in effect |
| **L1 bridge and OPC UA** `svdc-bin/src/main.rs`, `svdc-opcua` | latest snapshot, publish counters, address space | drain, count, store, clone, set values | two tasks of different pace, a pipeline that restarts under them | published ticks never go back, and all that were read come |
| **SSE fan-out** `svdc-console/src/sse`, `routes/sse.rs` | broadcast channel, emitter, receivers | emit, subscribe, deliver, lag | receivers that fall behind, rates from counters that are zeroed | rates add up; a browser catches up |
| **SV codec** `ssiec-sv-publisher/src/lib.rs`, `svdc-ingress/src/decoder.rs` | a buffer of fixed size | encode, decode | BER length forms, field widths, truncation | decode(encode(x)) = x; a cut frame is refused |
| **SV publisher tool** `ssiec-sv-publisher/src/{main,vendor,vendor_loader,pcap_writer}.rs` | options, the stream's identity, the sink | parse, load a profile, open, encode, emit | presets, files and options that override each other, zero rates, long svIDs | every start ends in an exit code, but for the five causes of a panic that are named |
| **Tick record, integrity** `svdc-core` | a record and its CRC | stamp, verify | what the CRC covers | a changed sample is noticed, and nothing else is |
| **Aligner stages** `svdc-aligner` | next_tick_id | process_frame | identity stages in this phase | one tick per frame, all of it carried over |
| **Address space and values** `svdc-opcua/src/{address_space,quality,timestamp,server}.rs` | node tree, values | build, populate, update | positional lists, status precedence, saturation, casts | a client reads one tick, never better than it was sent |
| **Command line and start-up** `svdc-bin/src/main.rs`, `svdc-console/src/lib.rs` | configuration, sockets, tasks | resolve, load, probe, bind, spawn, serve, drain | precedence, the loopback rule, probe and bind apart, half-started daemons | it listens where it was told, after its state was loaded, with the feed it was asked for |
| Management API `svdc-api` | - | health, metrics, channels, calibration echo | reads of a buffer that moves | (read-only, not modelled) |
| Console pages, L1 client | - | - | rendering, a command-line client | (not modelled) |

`PROJECT.json` lists the same components with their status and, under
`hazards`, what in this code a test hardly reaches, with the properties that
would notice it going wrong.

## 2. Modules

| Module | Models | Depends on |
|---|---|---|
| `TickBuffer` | push, retirement, `read_since`'s filter and cursor, as operators | |
| `TickFeed` | *abstract*: a numbered feed whose subscribers may lose old ticks | |
| `TickStream` | one aligner, the buffer, subscriptions that come and go; implements `TickFeed` | `TickBuffer`, `TickFeed` |
| `TickWindow` | *abstract*: the numbered ticks of one aligner in a buffer it shares, retired oldest first | |
| `UdpIngress` | the two ingress threads, the ring, racing resets and tamper requests; implements `TickWindow` | `TickBuffer`, `TickWindow` |
| `Subscription` | `read_since` over records that may share an id | `TickBuffer` |
| `Historian` | CSV file and BufWriter as operators on a file system of inodes | `Subscription` |
| `DataPipeline` | handlers, loops, historian, L0 demo: every atomic operation a step | `Historian` |
| `TickSource` | the pipeline as its readers see it: buffer and counter, fed, restarted, tampered with, reset | `Subscription` |
| `OpcuaBridge` | bridge task, snapshot, publisher task, L1 counters | `TickSource` |
| `SseFanout` | emitter, broadcast channel, browsers | `TickSource` |
| `Northbound` | composes `OpcuaBridge` and `SseFanout` over one `TickSource` | both |
| `AuditLog` | audit ring and file under concurrency, failing writes, kills | |
| `OperationalState` | overrides and their file, likewise | |
| `ConsoleConfig` | registry and calibration routes with their audit records, over the override file | `OperationalState` |
| `SvCodec` | the 9-2 LE encoder and both decoders, octet by octet | |
| `SvPublisher` | the publisher tool from its arguments to its exit | `SvCodec` |
| `TickRecord` | the record and its CRC, bit by bit | |
| `UaTime` | nanoseconds to OPC UA time | |
| `UaAddressSpace` | nodes, types, status codes and values of the OPC UA server | `UaTime` |
| `SvWire` | composes publisher, lossy network, decoder, aligner, record and address space | `SvPublisher`, `TickRecord`, `UaAddressSpace` |
| `CliConfig` | `resolve_config` over arguments and environment | |
| `Boot` | `main` from there on, among other processes' sockets | `CliConfig` |
| `TickBufferProofs` | *proofs*: what push and pop do to a buffer of any capacity; bounds of sets of naturals | `TickBuffer` |
| `TickStreamProofs`, `UdpIngressProofs`, `NorthboundProofs`, `ConsoleConfigProofs`, `DataPipelineProofs`, `SvWireProofs` | *proofs* about the module so named | that module |
| `BootProofs` | *proofs* about start-up and the audit log it opens | `Boot`, `AuditLog` |
| `MC...` | the modules TLC runs | |

### State and actions against the code

**TickBuffer / TickStream.** `buf` is the deque behind the buffer's mutex, so
every buffer operation is one step. `Emit` is `process_frame` and `push`;
`Pop` is what `reset` loops over; `ReadSince` is `Subscription::read_since`,
whose `recent(usize::MAX)`, filter, sort and cursor update happen on one copy of the
buffer taken under its lock. `from`, `got`, `again`, `lost` are history: they
record what a subscription was owed, was given, was given twice, and what the
buffer retired before it was given. The tick's payload plays no role in any of
this and is left out; ids are unbounded naturals (a `u64` at 4000 per second
does not wrap).

**UdpIngress.** `hand` is the receive thread between `next_frame` and
`ring.push`; `aligner.pc` is the aligner thread between `ring.pop`,
`note_external_frame`, `buffer.push` and `record_external_tick`. The decoder is
a choice between accepting and refusing (`SvWire` has it octet by octet); a timeout of the socket changes
nothing and is a stutter. One datagram carries one ASDU (the decoder takes the
first). `Reset`, `ResetPop`, `ResetZero` are the operator's reset, whose other
effects (tamper counter, CSV file) the ingress does not see; `TamperCount` and
`TamperPush` are `inject_tamper`, which is not refused under an external feed
and counts on the aligner's counter before it pushes into the aligner's buffer. A
record's `n` is its datagram, 0 for a tampered one. So the ingress as a whole is no
`TickStream`; what its own ticks still are, whoever else pushes, is a `TickWindow`.

**DataPipeline.** `client[c]` is an HTTP handler in flight, with a program
counter between its atomic operations: `Start` is the `swap(true)`, `Spawn` the
`tokio::spawn` after zeroing the counter, `KeepHandle` the lock that stores the
handle; a refused start goes through `StoreTrue`, its second `store(true)`.
`Stop` is the `swap(false)`, `TakeHandle` the `take()`, `Join` the await.
`HangUp` drops a handler that awaits (the HTTP client went away), and with it
the join handle it had taken. `loop[l]` is one spawned `run_pipeline` with its own aligner (`next`) and
historian (`h`). `n` numbers the records pushed, so that two records with the
same id stay distinguishable. `env` is chosen once: who makes requests, what
they press, and how the disk behaves. `l0got`, `unwritten` and `stopped` are history.

**Historian.** The file system names one inode and keeps the rows of every
inode, so that rows written to an unlinked file are where the code puts them:
in a file nobody can name. A row is its tick's id, the record's number and the
session that wrote it. `WriteRows` is how many rows fill the 8 KiB BufWriter.
A tick writes its BufWriter out each time a row does not fit, and any of these
write-outs may fail (`TickFailed(h, fs, buf, k)`: the first `k` are in the file, the
BufWriter is full, the rest of the batch is in neither). The flush every so many
iterations succeeds or fails whatever the tick did, but for a tick that failed, whose
`?` leaves the iteration; the flush after the loop likewise. A failed
write leaves the BufWriter as it was; a row cut in two is not modelled.

**AuditLog.** `Record` is the critical section under the ring's lock, `PersistLine` the one
under the writer's; between them other requests run. A line that cannot be written
stays in the `LineWriter` (`stuck`) and goes out before the next one, or, if it
still cannot, the next one is dropped; a kill loses it. (A line is taken to fit the
`LineWriter`'s 1 KiB, as those the routes write do; a longer one would be written
around it.) `Kill` may happen at any
step and may leave an incomplete line, on which replay refuses to start
(`BadLine`); `Repair` is the operator who removes it.

**OperationalState.** `Snapshot`, `CreateTmp`, `WriteTmp`, `Rename` are the
steps of `auto_save`; `tmp` and `path` are names, `data` the inodes' content,
so that two savers with the temporary file open write the same inode.
`Restart` parses the file and refuses one that is not a document.

**ConsoleConfig.** `route[r]` is a console request between its steps, beside
`request[r]`, the save in flight of `OperationalState`. A handler that changed
an override cannot audit before its save has ended (`Audit`'s first conjunct),
as `auto_save` is called before `audit::record`. `Audit` puts the event into the
ring, `AppendLine` its line into the file, or into the `LineWriter`, or nowhere.
`audited` is what a reader of the ring concludes from its records in order; `log` has
the same of the file's lines, from which a restart fills the ring, the stuck event,
and whether a calibration's line was dropped. `clash` is history: which part two
requests overlapped on, and whether a kill found a calibration that was not saved or
not in the file. An SCD file is its IEDs and the access points whose addresses parse
or do not; a registration form its id and two phase counts.

**TickSource, OpcuaBridge, SseFanout, Northbound.** `TickSource` is
`DataPipeline` cut down to what a reader can see: one loop at a time, one
handler in flight, restarts as one step (stop has joined, start has zeroed the
counter and made a new aligner). `bridge.pc` is the bridge task between
`read_since`, `record_l1_opcua_publish` and the store; `publisher.pc` the
publisher between its clone and `set_values`. `space` is the tick the address
space shows. `emitter.pc` is the emitter between its three kinds of event;
`stream[b].next` the next event of a browser's receiver, out of the
`ChannelCapacity` newest. `rates` keeps what the metrics events reported and
`counted` every increment of the counter, zeroed or not.

**SvCodec, SvPublisher, SvWire.** A frame is the sequence of its octets and the
encoder's buffer has the code's size; the decoder is a reader that stops at its
first error, so `DecodeL2Stripped` is `decode_l2_stripped` item by item. An
*invocation* (`inv`) is one start of the tool: its words, the constant `NotUnicode`
where one is no Unicode (`env::args` panics when it comes to it), what the file it
names holds, and which of its standard streams may refuse what is printed (`println!` and
`eprintln!` panic then; a reader that left or a full disk does it, a stream that was
closed from the start does not, as the standard library writes to nothing); `pc` goes from parsing over opening the sink, building and
emitting frames to an exit code, or to `aborted` where the code panics. A svID's
template has a `NameHere` for each `{name}`, which `SvIdFor` spells out. `wire`
keeps every datagram ever sent and `Receive` may take any of them, at any time,
again, or another unit's, or noise: loss, duplication and reordering in one
action. `ProcessFrame` is the aligner, `Snapshot` the bridge's copy, `PublishLatest`
the server's publisher; `Corrupt` flips bits of the stored record once. `heard`
(what was aligned, as its sender meant it) and `bent` are history.

**TickRecord.** A 32-bit word is the set of its bits that are 1: xor is the symmetric
difference and a shift moves every element, which keeps the real polynomial and
the real widths within TLC's integers.

**UaAddressSpace, UaTime.** `BuildNodes` is `build_nodes`, `Populate` makes the
variables with the types `build_variable` declares, `BuildUpdates` what the publisher
writes, values by position. Both lists are sets here: the code's order puts a parent
before its children and nothing else depends on it, for no id occurs twice. `UaTicks` is `utc_ns_to_opcua_ticks` with the code's
widths as constants.

**CliConfig, Boot.** `Option` and `Argument` are one turn of the argument loop;
texts are values and `Addresses` says what a text is as a socket address. `pc`
is where `main` is; `sockets` are this process's, `taken` other processes',
which `Others` takes and leaves between any two steps. `RunOpcua` and `RunL0Demo` are
the tasks `main` spawned and does not wait for. `Interrupt` is Ctrl-C, `Watch` a
browser that opens or closes the event stream.

## 3. Runs

Passing runs:

| Run | Question | Bounds |
|---|---|---|
| `stream` | Do subscriptions get every tick once, and lose only the oldest (`Window`, `Accounted`, `EventuallyRead`)? Is it the abstract feed (`ImplementsFeed`)? | 2 slots, 2 subscriptions, 4 ticks |
| `operator` | Does a stop join (`StopJoins`) and answer (`StopAnswers`), do stopped loops end (`LoopsEnd`), does the L0 demo count once (`L0CountsOnce`), do frame counts add up (`FramesNoted`)? Are a session's CSV rows in order, none twice (`RowsInOrder`), none left behind (`NothingLeftBehind`), with failures at any write-out of a batch and at any flush? | 6 environments: an operator who tampers before the L0 demo (3 records) and resets too (2); who picks presets (3); who stops, and resets (2) or tampers (3) with a CSV on a failing disk; two overlapping requests, one of which hangs up (2). 2 loops, 2 slots, BufWriter of 1 row |
| `ingress` | Is every datagram accounted for (`NothingLostSilently`), in order (`InArrivalOrder`), every accepted frame a tick (`RingDrains`), the counter off only by those in between (`CounterExplained`)? Are the ingress's ticks a window (`ImplementsWindow`)? | 3 datagrams, 1 merging unit, 2 operators who may tamper at once, 2 tampers, any number of resets, ring 2, buffer 2 |
| `audit` | Are numbers unique (`SeqUniqueOnDisk`), answered events durable (`AnsweredIsDurable`), the ring gap-free (`RingIsGapFree`) across kills? | 3 requests, 5 events, ring 2 |
| `northbound` | Under restarts, tampers and resets: does a published tick ever go back (`PublishedForward`), are the rates honest (`RatesAreHonest`), does every tick the bridge takes arrive (`ReadIsPublished`), does a browser that fell behind catch up (`BrowserCatchesUp`)? | 3 records, 2 slots, channel of 1, 2 events, one reader at a time |
| `console` | With two requests in flight, failing writes and kills at any step: does a request add an id twice (`DistinctIds`), is the overrides' file whole and current (`WholeAlone`, `SavedAlone`), does the audit log tell the truth (`AuditTells`)? | 2 requests, 2 calibration and 3 registry requests, 2 channels, 2 values, 2 SCD files, one with two IEDs of one name; symmetry of requests and values |
| `wire` | Is what was encoded decoded (`DecodesAsMeant`) and a cut frame refused (`CutIsRefused`)? Which starts end in a panic (`AbortsOnlyWhen`)? Does a client read one tick as it was sent (`ShownAsSent`), never better than it was sent (`NeverBetterThanSent`)? Is a corrupted record noticed (`CorruptionCaught`)? | every mode and option of the tool, words that are no Unicode and streams that refuse at each way out; svIDs of 0 to 200 octets around 96, 127/128 and 190 to 192; rates around 0x80, 0x100, 0x8000 and 0x10000; all quality bits |
| `boot` | Does the daemon listen only where it was told, off the loopback only if allowed (`ListensWhereTold`)? After its state was loaded (`StateBeforeService`)? With the feed it was asked for (`ServesWhatWasAsked`)? | every command line of up to 3 of 15 phrases, 4 environments, 2 moves of other processes |

Runs that find what a comment promises and the code does not do (each a
finding in `PROJECT.json`, with the quoted line):

| Run | Property | What happens |
|---|---|---|
| `retry` | `FailedRowsRetried` | the cursor is past the rows a failed tick promised to retry |
| `running_loop` | `RunningHasLoop` | a refused start sets `running` again after a stop: running for ever, without a loop |
| `operational_whole` | `FileIsWhole` | two savers, one temporary file |
| `channel_names` | `NamesMatchTheWire` | the reference address space lists the voltages first, the publisher the currents: the node `Va` shows the current of phase A |

`FileIsWhole` appears twice on purpose: it fails with overlapping
calibration requests and holds, as `WholeAlone`, without them, which is the
exact extent of the promise. `SavedAlone`, `AuditTells` and `StopJoins` have such a premise
too, without a run of its own for the other side: two savers may rename in the other
order than they took their snapshots (`operational/mod.rs:230`), so that the file keeps
the older one, although line 75 promises a write of the current state after every
mutation; two changes may be audited in the other order; two registrations that check the same snapshot lose one, although the audit log
has both; a stop between another request's spawn and its handle store finds no handle
and answers Ok with the loop alive. The premise
"no overlap" is a history variable, `clash`, and per part: a calibration may
overlap a registry request, and an overlap on one part excuses nothing on the
other. `AuditTells` excuses the overrides, besides, after a kill that found a
calibration unsaved or its record not in the file: an append that fails is only logged
(`audit/mod.rs:335`), so an answered calibration may be in effect after a restart with no
record of it. Without a kill no failing append is excused, for the ring has the record.

Behaviours of the code that the models or their reading show and no run
asserts either way:

* A tampered record's id (1 000 000 000 and more) becomes the cursor of every
  subscription that reads it, which then never sees the loop's ticks again.
* Every start numbers its ticks from 0 again (`dataplane/mod.rs:507`) in a buffer that still holds
  the last run's, although `svdc-core/src/lib.rs:86` says that a tick's id "Never repeats"
  while the daemon lives. A new historian session writes the ticks that are still in the
  buffer once more to the CSV; an old subscription's cursor hides the new run's ticks up to its own id.
* A reset between the historian's `exists()` and its open makes a CSV without
  a header; `ticks_emitted` counts tampered records.
* Audit lines are appended outside the lock that numbers them, so after a
  restart `recent` may not be newest first (`audit/mod.rs:352`).
* POST tamper is not refused under an external feed: it puts ids of 1 000 000 000 and
  more between the ingress's, and is counted before its record is there.
  `/south/status` is off by one for the aligner and by one for each tamper request
  caught in between, and a reset may make that lasting (`CounterExplained`).
* The bridge counts a tick as published (`record_l1_opcua_publish`, once per batch) before
  it stores the snapshot the server's publisher takes up later, so the console may show a
  publish that no client can read yet. `dataplane/mod.rs:207-209` and 222-223 promise the
  other order: "after the server has updated its AddressSpace variables", "Highest
  `tick_id` the L1 server has published". `Northbound` has the code's order, and states
  nothing of the counter.
* The per-channel `tick_id` variable is an `i32` of a `u64` (a comment says
  UInt64) and goes negative after 2^31 ticks; `ShownAsSent` states it modulo 2^32.
* The quality is cut to the low octet of its 13 bits, so source and test bits do
  not reach L1; a validity of 01, which the standard reserves, shows as Good.
* `build_updates` writes below "Demo", whatever substation the address space was
  built for.
* The first metrics event of the emitter, which starts with the first browser and
  from 0, divides every tick since the pipeline's start by one second:
  `RatesAreHonest` asks for recent rates from the second event on.
* The publisher tool: `--rate` is ignored with `--vendor` or `--vendor-icd`; an ICD
  with `smpRate` 0, a svID past the 96 octets `MAX_FRAME_BYTES` allows for
  (from about 190 on) and a `--duration` below 0, not a number or past what a
  `Duration` holds panic, the first after the sink was opened; so does a word
  that is no Unicode, if the tool comes to it, and a `println!` nobody takes: a capture
  piped into a pager that was closed panics after it was written (`AbortsOnlyWhen`).
* An SCD file that names one IED twice is accepted, and both units are registered
  under one id; the routes then find the first (`DistinctIds` states what is left).
* The daemon's options take the next token even if it is an option itself, and
  `--help` wins wherever it stands, as a value too. `--no-ui` without the console
  ends `main` at once with success, where `docs/decisions/0005` (line 16) speaks of
  running headless as a daemon.
* `svdc_opcua::start` answers when its server is built and a task was spawned
  (its comment, `server.rs:161`, says once the listener is bound): if the port is
  taken L1 stays marked active and counts publishes nobody can read.
* The console's probe lets its port go before `start_console` binds it again, and the
  daemon's own OPC UA task may be the one to take it: the daemon then exits with
  a failure (`ServesWhatWasAsked` holds, as it never serves without it).
* Ctrl-C waits for every response, and an event stream never ends: an open dashboard
  keeps the daemon alive, with its port closed.
* A waveform event carries the first svID seen in map order, not the one the
  sample came from.

### Bounds and why they are enough

* Two buffer slots are the least with an oldest and a newest that differ; all
  retirement, cursor and window cases occur at two. (The proofs lift
  `TickStream` and `UdpIngress` to every capacity.)
* In `ingress` three datagrams fill the ring behind the aligner; two operators are the
  least that can be caught together, between a count and a push, by a zeroing. With one
  merging unit `seen` is a count, which no property there asks more of; `FramesNoted` has
  it by unit.
* Two loops are the least with a restart and with an overlap; two clients the
  least with a race; every lifecycle race found needs no more. The six
  environments of `operator` keep apart what does not interact (presets do not
  touch the CSV, a failing disk not the L0 demo), so that each may be thorough.
* `TamperBase` is 20: above every other id, as 1 000 000 000 is in the code.
* `FlushEvery` is 2 so that both kinds of iteration occur within the bound;
  `WriteRows` is 1 so that the BufWriter writes itself out in mid-batch, and a batch of
  two rows, which a tampered record makes, after a row of it was held already.
* A broadcast channel of one event lags a receiver at the second; two events
  are enough to fall behind, skip and catch up, or to report two rates.
* `Readers` gives a daemon either the OPC UA tasks or a browser: they share
  only what they read, so nothing new happens with both. Restarts, tampers
  and resets meet each of them.
* In `console` one key's channel exists in an SCD and in a form, the other's
  only in a form; one SCD has two units of one name with different channels, one is
  refused; two values tell an override from its successor. Three registry requests are
  an upload, and two that overlap; two edits a change that fails to be saved or
  written down, and its successor, whose line finds the other's stuck.
* In `wire` one invocation at a time is exhaustive where the code branches:
  lengths and rates on both sides of every change of form, templates whose names take them
  to the budget and past it, every preset, every
  attribute a file may override, present, absent and unreadable, every option
  with a good, a bad and no value. Two frames and two datagrams are the least
  with an order. `MaxI32` is 0 and `CntMod` 2, so that the casts wrap at the second tick;
  `MaxU64`, `MaxI64`, `Epoch` and `NsPerTick` are scaled so that one of the two
  clock readings saturates. The bursts take every field, and a value's lowest and
  highest octet; the theorem has every set of bits of a field.
* In `boot` three phrases let an option meet its value, another option and the end of the
  line, a repetition, and a third that overrides; the environments set no
  variable, contradicting ones, and nearly all. Two moves take the port
  between probe and bind, or give it back. (The proofs lift it to lines of any length.)
* `MCNorthbound` compares `LastRow` with the last of the sorted batch over all
  small buffers, repeated ids and gaps included.
* `MaxTicks`, `MaxPushes`, `MaxLoops`, `MaxDatagrams`, `MaxEvents`,
  `MaxEdits`, `MaxConfigs` bound the counters and appear only in guards. `Check` holds a
  loop at its condition once `MaxPushes` is reached, as if its ticker never
  fired again, but lets it see `running = FALSE` at any time.

Deadlock is checked in `stream` and `ingress`. It is off in `operator`, where a
behaviour may use up `MaxPushes` with a loop waiting for its next tick and no
request left to serve, in `audit`, `northbound` and `console`, where the event and
edit bounds end a behaviour (in `console` also a file that does not parse, which
keeps the daemon down), in `wire` and `boot`, whose program ends, and in the
violation runs, which stop at their counterexample.

### Fairness

* Subscriptions (`stream`), the L0 demo and the loops are polling loops on a
  runtime that keeps scheduling them: weak fairness on their steps.
* A handler that has started runs to its end: weak fairness on `HandlerStep`.
  No fairness on `Request`: the operator may do nothing, and hang-ups need not
  happen.
* The two ingress threads are OS threads: weak fairness on `Offer` and
  `AlignerStep`. None on `Receive` and `Reset`.
* `audit`, `console`, `wire` and `boot` check safety only and need none: a
  request, the tool or the daemon may stop anywhere.
* The bridge, the publisher and each browser's stream are tokio tasks that
  wake on a timer or on data: weak fairness on each of them. None on the
  emitter, the pipeline or the browsers' users: `BrowserCatchesUp` asks only for what was
  sent already.

`StopAnswers` needs the loop to reach its condition, `LoopsEnd` to find the
flag still false there; the premise `<>[]~running` says that nobody starts
the pipeline again, without it a loop that a second start overlaps may
live on, which is what the code does.

## 4. Proofs

`TickStreamProofs` proves, for every `Capacity >= 1`, every set of
subscriptions and every `MaxTicks`:

* `TypeCorrect`: `Spec => []TypeOK`, the capacity bound included.
* `WindowHolds`: the buffer holds exactly the newest ids.
* `ExactlyOnce`: `read_since` never returns a tick twice.
* `AccountedHolds`: delivered, pending and retired unread partition what a
  subscription is owed.
* `Refinement`: `TickStream` implements `TickFeed`.

From `CapacityAssumption` (a buffer has at least one slot, which
`TickBuffer::new` asserts) and `MaxTicksAssumption`.

*The argument.* None of these is inductive alone: that a read delivers nothing
twice depends on the cursor being the largest id delivered, and on the buffer
having no id below its window. The inductive invariant `IInv` adds to `TypeOK`
and `Window`, for every open subscription with the buffer's base
`nextId - Len(buf)`: what it was given and what it lost lie in
`from .. nextId - 1` and are disjoint, the given ones are at most the cursor,
the cursor is below `nextId`, and every id from `from` up to the
larger of cursor and base is one or the other. With the window, the ids
`read_since` returns are an interval (`FreshOfWindow`), its new cursor the last id of the
window (`CursorOfWindow`), and retiring the head moves the base by one
(`RetireKeepsSubInv`). Refinement then needs one fact: a read that returns
something delivers `max(cursor + 1, base) .. nextId - 1`, which is a
suffix of what was owed (`ReadSinceDelivers`).

`UdpIngressProofs` proves, for every `Capacity >= 1`, `RingCapacity >= 1`, every
set of merging units, every finite set of operators and every `MaxDatagrams` and `MaxTampers`:

* `TypeCorrect`: neither the ring nor the buffer exceeds its capacity.
* `ArrivalOrderHolds`: ticks come out in the order their datagrams arrived.
* `CounterIsExplained`: the counter differs from the records pushed since a reset zeroed
  it by exactly those who are between push and count, now and at that moment.
* `CounterStaysClose`: so by no more than one, and one for each operator.
* `NothingIsLost`: refused, dropped, in either thread's hand, in the ring or a
  tick: the datagrams received are partitioned.
* `IngressRefinement`: the ingress implements `TickWindow`, tampered records mixed in.

From `CapacityAssumption` and `IngressAssumption` (the ring has a slot, the operators in
flight are finitely many).

*The argument.* Each needs more than it says. `FrameInv`: the aligner holds a frame
exactly between its pop and its push, so `NoteMu` and `PushTick` have one to
process. `CounterExplained` is inductive as it stands, with the types: the aligner pushes
before it counts and a tamper request counts before it pushes, so each is on its own
side of the equation while it is in between, and a zeroing moves who is there into
`caught`. `OrderInv`: log, aligner's frame, ring and the receive thread's hand form one
rising queue whose last number is at most `received`. `DropInv`: the
frame in hand was not dropped before, or the count would not add up. For the refinement,
`WindowInv`: the ids of the aligner's own ticks in the buffer (`Own`) rise and are below
`aligner.next`. So a push, its own or a tampered one, and a reset's pop leave all of
them or all but the smallest (`OwnTail`, `OwnPush`): `PushTick` is an `Emit`,
`TamperPush` and `ResetPop` a `Retire` or a stutter, and everything else stutters
(`WindowStep`).

`BootProofs` proves of `AuditLog`, for every set of requests, `Capacity >= 1` and every
`MaxEvents`, with failing writes, kills, torn lines and restarts:

* `NumbersStayUnique`: no two lines of the file have one number.
* `AnswersAreDurable`: what was answered is in the file, or its write failed.
* `GapsAreRealLosses`: of the events recorded since the start the ring holds the
  newest, without a gap, and never more than `Capacity`.

*The argument.* Uniqueness on disk is not inductive: a record numbered but not yet
written, or stuck in the `LineWriter`, must not meet its number in the file. `NumberInv`
says that numbers of lines, of the stuck one and of pending records are below `nextSeq`, that pending ones differ from
each other and from every line, and that nothing is pending while the daemon is
down; replay then goes on above every number of the file (`SeqAfterIsAbove`),
in whatever order the lines are. The numbers lost with a killed request are free.
The ring is read from its newest end (`RingInv`): its `k`-th event from there has
the `k`-th number below `nextSeq`, as far as the process was born before it; older ones
are replayed lines.

`NorthboundProofs` proves, for every `Capacity >= 1`, every set of browsers and
every bound:

* `NeverPublishedBack`: the address space never goes back, in id or in record.
* `RatesStayHonest`: the rates add up to no more than was counted, and from the
  second on are recent.

*The argument.* A tick passes five stations (buffer, bridge, `latest`, the publisher's
clone, address space), and the pipeline may restart its ids under all of them.
`UnreadInv` says what saves the order: whatever in the buffer the
cursor lets through was pushed after everything read before. `ChainInv`: each
station is at most the one before it, in id and number at once.
`RateInv` pays each rate out of what `counted` gained since the last one,
with `saturating_sub` for the counter a start zeroed.

`ConsoleConfigProofs` proves, for every set of requests, documents, forms, keys
and values, with failing writes and kills at any step:

* `IdsStayDistinct`: whatever overlaps, no request adds a unit under an id that is taken:
  two registered units share one only as one SCD document had them.
* `TypeCorrect`: types, and one override per channel at most.
* `FileStaysWhole`, `FileIsCurrent`: unless two calibration requests overlapped,
  the file is whole at every step, and current when nothing is in flight.
* `LogTells`: with nothing in flight the audit log tells the overrides (unless two
  calibrations overlapped, or a kill found one unsaved or its record not in the file,
  pending, failed or dropped) and the number of
  units (unless two registry requests overlapped).

From `OperationalAssumption` and `ConsoleAssumption`: the IEDs of one SCD
document are finitely many, and may have what names they like.

*The argument.* `api_register_mu` replaces the registry by a list it built from an
earlier snapshot, so the registry being distinct is not inductive: the
invariant `Inv` says so of the list every registration in flight carries as well. Such a list was
in order when it was built and is stored as a whole; an overlap loses units but
never mixes two lists. For the file, `Alone` turns the history variable `clash`
into a fact about the present: if no overlap happened on a part, one request at
most is on it, and a save belongs to the request that changed the overrides. Under it
`Disk` holds: the temporary file is never the file, what is in it belongs to
the one saver, whose body is what the operator sees, and a quiet,
untroubled daemon's overrides are what a restart would read. `Tells` adds the
ring: with the record a request still owes, or the count or list a registry request has
read, it tells the present; `Stored` stands for the overrides while the daemon is down.
`Kept` has the file under it: unless a calibration's line was dropped, the file, the
line stuck in the `LineWriter` and the one on its way tell what the ring tells, so a
kill that finds neither of the two leaves a file from which a restart fills the ring again.

`DataPipelineProofs` proves, for every `Capacity >= 1`, every BufWriter size, every
set of clients, vendors, requests and environments and every number of loops:

* `RowsStayInOrder`: the rows of one session never go back in id and no record
  is written twice, whichever write-outs of a batch and flushes fail, whoever shares or
  removes the file.
* `NothingStaysBehind`: when a loop is over and no write of its session failed, its last
  row in the file is the last tick its cursor passed.
* `L0NeverCountsTwice`: the L0 demo counts no record twice.
* `StopJoinsTheLoop`: after a stop that answered Ok, of an operator who makes one
  request at a time and waits, no loop alive at its call still runs.
* `FramesAddUp`: the frames noted are the ticks pushed, and one more for each
  loop between the two.

From `CapacityAssumption` and `PipelineAssumption`: a BufWriter that holds something, finitely
many clients and vendors (the presets are a list in the code), disjoint from the generic unit.

*The argument.* Every step of a loop is first put into one of a few *effects*
(`LoopEffects`): it rests, pushes, reads a batch, writes, flushes. `TypeInv` has the
types and `BufInv`: the records of the buffer carry distinct numbers, none above the
pushes made, so a record is known by its number though a restart uses its id again.
`RowsInOrder` alone does not survive a batch. `Sessions` says, of the rows in the file
and then those in the BufWriter: all are at or below the cursor, and no record *still
ahead of it in the buffer* is one of them, so the batch can go after them all
(`Behind`); another session's rows in between do not matter (`ForeignBehind`), and a
file that is removed keeps its inode. Unless a write failed, the cursor is the id of one of
these rows, and the BufWriter is empty at `done` (`LastOk`), which is
`NothingLeftBehind`. `L0Inv` is the same argument for a cursor whose batches are only counted.
`StopInv` says where a loop can be alive at each step of the one handler at work
(`Within`): nowhere before `spawn`, in its local until it is kept, under the handle
while the pipeline runs, in its local again until it is joined. `FramesInv` needs that
sums over a finite set go up by one when one value does: `FoldFunction` chooses its
order, so the sum is first shown to be the number of pairs `<<l, k>>` with
`k < f[l]` (`SumIsUnits`), which no order can change.

`BootProofs` proves of `Boot`, for every set of command lines, of any length, and every set of
environments and of moves of other processes:

* `ListensOnlyWhereTold`: each socket held is where the last option, else the environment,
  says; the OPC UA server leaves loopback only if allowed to.
* `StateIsThereFirst`: nothing holds a socket and no task runs before the files asked for
  are loaded.
* `ServesOnlyWhatWasAsked`: a serving console has its socket and, exactly if it was
  asked for, the ingress'; success means help, no console, or that the feed asked
  for was there.

From `BootAssumption`: arguments are texts.

*The argument.* What the properties call told (`Told`, `Asks`) reads the line without a loop:
an argument is a value if the one before asks for a value and is none itself
(`IsValue`), and of an option's values the last counts. `FoldLeft` is
first shown to be a turn for each argument in order
(`ArgumentsTurnByTurn`), though the library folds over sets of positions. `LineIsRead`
then says that between two turns the loop waits for a value exactly when the argument
before is an option and no value, from which the last value of each option
(`ValueOfTheLine`, `AddressOfTheLine`) and the flags (`FlagsOfTheLine`) follow, and
the accepted configuration is as told (`ConfigAsTold`). The rest is a short inductive invariant
of `main`, `BootInv`: the configuration stays the one of the line, a socket is
one it names, a file it names is loaded before anything works, and from the demo on
the mark of an external feed and the ingress' socket go together.

`NorthboundProofs` also proves `TimeNeverRunsBack` of `UaTime`, for every width of the
integers, offset and resolution with `MaxU64 \div NsPerTick <= MaxI64` (as
2^64 / 100 < 2^63): a later nanosecond is never shown as an earlier time, and never
as a negative one, past the year where the sum saturates too.

`SvWireProofs` proves, for every set of invocations, every waveform, every modulus of the
frame counter and whatever other units send:

* `FramesDecodeAsMeant`: every frame the publisher builds, with its Ethernet header and
  without, with a VLAN tag and without, is decoded to exactly the ASDU and the
  parameters it was made of, and every length in it ends where the frame ends.
* `CutFramesAreRefused`: no proper prefix of a frame or of its payload is decoded.
* `AbortsOnlyForCause`: the tool panics for the five causes named above only: a rate of 0
  from a file, a svID over its budget, a `--duration` no `Duration` holds, a word that is no
  Unicode, a standard stream that refuses what is printed.
* `ClientsReadWhatWasSent`: what an OPC UA client reads is one tick that some unit sent.
* `NothingShownBetterThanSent`: and no value of it with a better status than its quality
  and its origin allow, of a record that was corrupted too.
* `CorruptedRecordsFail`: whatever bits of whichever field of a sample of the newest record
  flip, its CRC no longer matches, and no record's fails to match for any other reason.
  (Ids, times and flags of a record are outside its CRC, as `svdc-core` documents.)

From five assumptions, each checked by TLC for the run's constants.
`PublisherAssumption`: the counter's modulus is at most the `u16`'s.
`InvocationsAssumption`: a parser hands out one value, of its type's width (`parse_u32`,
`parse_u16_hex`, `parse_mac`), an argument of `--rate` is a natural number or no Unicode,
a file's svID is octets and `{name}`s, and it is the standard output or error that refuses. `WaveAssumption`: the three phases of an instant and the neutral that closes
them are `i32`. For the phases the code sees to that itself (`as i32` saturates); for
the neutral, `-(va + vb + vc)`, it is arithmetic: with the amplitudes of
`WaveformConfig::default` it would take some six hundred thousand `--harmonics` to get there.
`OthersAssumption`: what another unit meant is what its octets say, if they decode to
anything, and its samples are numbers; it only names what `heard` records.
`BurstsAssumption`: a burst flips bits of one field of one channel's sample, each once and
within the width the field has in `Sample`.

*The argument.* It goes from the octets up. The encoder's `BigEndian` and `IntU16` are
read back by `Unsigned`, `Signed32` and `AsU16` (`U16Read`, `U32Read`, `I32Read`,
`IntU16Read`; the second keeps its 0 before a high bit, which the decoder's shift drops).
A reader's state is one predicate, `Reads(r, b, y, ...)`: no error so far, and `y` is
what is left of `b`. A tag, a length of either form and a field keep it
(`ReadsTlv`), so do the fourteen items of the layout one after the other
(`AsduRead`, `SavPduRead`, `HeaderRead`), and 64 octets are eight samples again
(`PackRead`); `FrameDecoded` puts them together for any parameters and ASDU of
the code's widths. For a cut, the reader of the cut and the reader of the whole are
followed side by side (`Follows`): as long as the first has no error they are at the
same octet and have read the same, so it could end without one only where the
whole ends, behind the cut (`CutFrame`). Folds and flattened sequences are given by
`CHOOSE` in the library, so each is first shown to exist
(`FoldExists`, `FlatExists`, `ItemTurnsExist`).

The invariant, `PubInv`, says which parameters and ASDUs the tool gets to: the
identity is one frames can be made of (`IdentityOk`: MACs of six octets, an APPID of 16
bits, a revision of 32, a svID of octets, whatever the presets, the file and the
options are, `ResolveOk`), the frame in hand was encoded from the ASDU in `meant`, and, which
`AbortsOnlyWhen` alone does not carry from one step to the next, a rate of 0 after the
options were accepted comes from the file. That a frame too long for
`MAX_FRAME_BYTES` has a svID over its budget is `OverBudget`: nothing else in it grows.

From the network on, a second invariant carries the sample, `ViewInv`: every datagram in
`wire` decodes to what it is meant to say, or to nothing (`BuiltSays`, from `PubInv`); the
newest record, the daemon's snapshot of it and the one shown last are each of one tick
in `heard`, until a bit flips; and *all* the nodes hold the values of the one snapshot in
`shown`. The two theorems speak of that last link only, but the snapshot there was taken
steps ago of a record made before, so neither is inductive without the chain.
`WrittenHolds` is its centre: `BuildUpdates` has one value for every variable
`BuildNodes` lists and for no other id (`NodeIds`, `UpdatesAre`, `IdsDiffer`), so no
node keeps the value of an older tick and none gets another's. `CastBack` is the `as i32` of a
tick's id, for every width, and `StatusIs` the two tables of `quality.rs`, for every octet.

The CRC needs no algebra of polynomials, only that its steps can be undone. A turn of
the inner loop shifts the word and takes the polynomial in or not, and bit 31 of the
result, which the shift leaves empty and `Poly` has, says whether it did
(`TurnBack`): so equal results come of words that agree one bit further up. Eight turns
back, the entries of the table behind `update` are told apart by their upper octets alone
(`TableBack`), and one octet takes different words to different words (`ByteApart`). Over
four octets nothing is left of the word they end with but the octets themselves: from
equal words, by different octets, no equal words (`CrcApart`). Octets before the
difference keep the words equal (`ChainsMeet`), octets behind it keep them apart
(`ChainsStayApart`), so records whose octets differ within four in a row never share a
CRC. A field lies within four octets of the 64 (`FlippedApart`, `ChangedWithin`), and of
the bits that flip the lowest stays flipped, whatever is borrowed or carried above it
(`FlipFlips`). The invariant, `CrcInv`, adds to the property that every datagram and
every record holds whole numbers, without which their octets would say nothing of them.
Two fields at once are beyond the four octets, and not claimed.

Only model-checked: liveness (`EventuallyRead`, `StopAnswers`, `LoopsEnd`,
`RingDrains`, `ReadIsPublished`, `BrowserCatchesUp`), which this prover does not
reach.

## 5. What the models leave out

* In the concurrent modules: payloads, timestamps, quality, CRCs. No control depends on
  them, except that a tampered record is recognisable, which its own id shows
  there. `SvWire` has all of them, for one stream of ticks.
* `status`/`snapshot` of the pipeline: reads only, apart from
  `last_violations`, which nothing reads back.
* What an SSE event carries besides the rate; OPC UA sessions, subscriptions and
  the stack below them; the float conversion of `instMag.f`, whose node shows the
  sample's value here.
* Of the publisher tool: the waveform's arithmetic (a table of instants stands
  for it), pacing, the calibration CSV, which is only printed, the hex dump's
  layout and the unused `write_pcap`.
* The loopback subscriber of `svdc-ingress`, which serves tests only.
* XML and multipart parsing, addresses and sample rates of a merging unit, a
  calibration's numbers.
* In `Northbound`, `svdc_opcua::start` failing: then no L1 task exists, as in a
  daemon without `"L1"` in `readers`. `Boot` has the failure.
* `External` is FALSE in every run: with `--ingress-udp` `start` is refused
  and `UdpIngress` models what feeds the buffer then.
* A panic while a lock is held (a poisoned lock panics every later caller).
* Wall-clock intervals: tickers and polls may fire at any time.
* A write that fails after part of a line or of a row: the audit log's torn line comes
  from a kill only, and the CSV has whole rows.
* The Management API: its handlers read the buffer's length, capacity and
  `verify_all`, or echo a calibration; it keeps no state and changes none. The
  console's pages render state of other modules; the L1 reference client is a
  command-line program outside the daemon.

## 6. Plan

1. Done: all of the core, its readers and stores, the wire from the publisher tool
   to an OPC UA client, the command line and start-up; proofs of every safety property
   of every passing run.
2. An abstract pipeline (`stopped`, `running`) that the one-client
   `DataPipeline` implements, and an abstract configuration (a change with its
   audit record as one step) for `ConsoleConfig`.
3. When later phases of the code give the aligner's binner, interpolator and
   calibrator work to do, modules of their own for them; when the Management API
   writes calibrations through, a caller of `OperationalState` besides the console.
