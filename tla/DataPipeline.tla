------------------------------ MODULE DataPipeline ------------------------------
(***************************************************************************)
(* svdc-console's DataPipeline: the shared TickBuffer, the synthetic loop  *)
(* (run_pipeline) the operator starts and stops over HTTP, the tamper and  *)
(* reset handlers, the CSV historian each loop owns, and the L0 demo that  *)
(* drains the buffer for ever.  Handlers run concurrently on the tokio     *)
(* runtime: every atomic operation or lock they take is a step.            *)
(***************************************************************************)
EXTENDS Historian, Functions

CONSTANTS
  Clients,          \* HTTP requests
  MaxLoops,         \* bound: loops spawned
  MaxPushes,        \* bound: records pushed
  TamperBase,       \* 1_000_000_000: added to the id of a tampered record
  Vendors,          \* the presets the operator picks from
  External,         \* whether --ingress-udp marked an external feed at boot
  Environments,     \* who uses the pipeline and what the disk does: a set of
                    \*   [clients: the requests in flight at the same time,
                    \*    impatient: those whose client may hang up,
                    \*    tamper, reset: whether the operator uses the button,
                    \*    vendors: whether he picks presets,
                    \*    l0demo: whether --enable-l0-demo was given,
                    \*    pushes: bound on the records pushed, at most MaxPushes,
                    \*    opens: outcomes of Historian::new,
                    \*    writes: outcomes of a write to the disk]
  FlushEvery        \* 20: the loop flushes when smp_cnt is a multiple of it

Generic == "DATAPLANE_DEMO"      \* the svID without a vendor preset

ASSUME PipelineAssumption ==
  /\ MaxLoops \in Nat
  /\ MaxPushes \in Nat
  /\ TamperBase \in Nat
  /\ IsFiniteSet(Clients)
  /\ IsFiniteSet(Vendors) /\ Generic \notin Vendors
  /\ External \in BOOLEAN
  /\ Environments \subseteq
       [clients : SUBSET Clients, impatient : SUBSET Clients,
        tamper : BOOLEAN, reset : BOOLEAN, vendors : BOOLEAN, l0demo : BOOLEAN,
        pushes : 0 .. MaxPushes,
        opens : (SUBSET BOOLEAN) \ {{}}, writes : (SUBSET BOOLEAN) \ {{}}]
  /\ FlushEvery \in Nat \ {0}

Loops == 1 .. MaxLoops
NoLoop == 0
NoHistorian == [ino |-> NoFile, by |-> NoLoop, cursor |-> NoCursor, pending |-> <<>>]

VARIABLES
  buf,              \* DataPipeline::buffer; records [id, n, src]
  running,          \* DataPipeline::running
  handle,           \* DataPipeline::handle, the loop it joins
  ticksEmitted,     \* DataPipeline::ticks_emitted
  tamperCount,      \* DataPipeline::tamper_count
  loop,             \* per loop: pc and the locals of run_pipeline
  client,           \* per request: pc and the locals of the handler
  fs,               \* the file at historian_path
  vendor,           \* DataPipeline::selected_vendor, Generic for None
  seen,             \* DataPipeline::seen_mus: frame_count per svID
  l0,               \* the L0 demo: cursor, last_tick_id, total_ticks
  pushes,           \* history: records pushed so far; n numbers them
  l0got,            \* history: the n the L0 demo was given
  unwritten,        \* history: per loop, the n of rows a failed write lost
  stopped,          \* history: loops alive when a stop that returned Ok began
  env               \* the environment of this behaviour; no step changes it

vars == <<buf, running, handle, ticksEmitted, tamperCount, loop, client, fs,
          vendor, seen, l0, pushes, l0got, unwritten, stopped, env>>
fileVars == <<fs, unwritten>>
muVars == <<vendor, seen>>
otherVars == <<l0, l0got, env>>
bufVars == <<buf, pushes>>

Init ==
  /\ buf = <<>>
  /\ running = FALSE
  /\ handle = NoLoop
  /\ ticksEmitted = 0
  /\ tamperCount = 0
  /\ loop = [l \in Loops |-> [pc |-> "unborn", next |-> 0, pre |-> FALSE,
                              h |-> NoHistorian]]
  /\ client = [c \in Clients |-> [pc |-> "idle", arg |-> 0, alive |-> {}]]
  /\ fs = EmptyDisk(Loops)
  /\ vendor = Generic
  /\ seen = [mu \in Vendors \cup {Generic} |-> 0]
  /\ l0 = [cursor |-> NoCursor, last |-> 0, total |-> 0]
  /\ pushes = 0
  /\ l0got = {}
  /\ unwritten = [l \in Loops |-> {}]
  /\ stopped = {}
  /\ env \in Environments

Unborn == {l \in Loops : loop[l].pc = "unborn"}
Alive == {l \in Loops : loop[l].pc \notin {"unborn", "done"}}

At(c, pc) == client[c].pc = pc
Goto(c, pc) == client' = [client EXCEPT ![c].pc = pc]
LoopGoto(l, pc) == loop' = [loop EXCEPT ![l].pc = pc]

PushRecord(id, src) ==
  /\ buf' = Push(buf, [id |-> id, n |-> pushes + 1, src |-> src])
  /\ pushes' = pushes + 1

-------------------------------------------------------------------------------
\* start: refused under an external feed; otherwise running.swap(true).
Start(c) ==
  /\ At(c, "idle")
  /\ ~External
  /\ running \/ Cardinality({d \in Clients : At(d, "spawn")}) < Cardinality(Unborn)
  /\ Goto(c, IF running THEN "restore" ELSE "spawn")
  /\ running' = TRUE
  /\ UNCHANGED <<bufVars, handle, ticksEmitted, tamperCount, loop, fileVars, muVars,
                 otherVars, stopped>>

\* "already running": store(true) once more, and Err.
StoreTrue(c) ==
  /\ At(c, "restore")
  /\ running' = TRUE
  /\ Goto(c, "idle")
  /\ UNCHANGED <<bufVars, handle, ticksEmitted, tamperCount, loop, fileVars, muVars,
                 otherVars, stopped>>

Spawn(c) ==
  \E l \in Loops :
    /\ At(c, "spawn")
    /\ l \in Unborn /\ \A k \in Unborn : l <= k
    /\ ticksEmitted' = 0
    /\ LoopGoto(l, "exists")
    /\ client' = [client EXCEPT ![c].pc = "keep", ![c].arg = l]
    /\ UNCHANGED <<bufVars, running, handle, tamperCount, fileVars, muVars, otherVars,
                   stopped>>

\* The handle of an earlier loop still there is dropped: that loop is detached.
KeepHandle(c) ==
  /\ At(c, "keep")
  /\ handle' = client[c].arg
  /\ client' = [client EXCEPT ![c].pc = "idle", ![c].arg = 0]
  /\ UNCHANGED <<bufVars, running, ticksEmitted, tamperCount, loop, fileVars, muVars,
                 otherVars, stopped>>

\* stop: running.swap(false), Err when it was false already.
Stop(c) ==
  /\ At(c, "idle")
  /\ running
  /\ running' = FALSE
  /\ client' = [client EXCEPT ![c] = [pc |-> "take", arg |-> NoLoop, alive |-> Alive]]
  /\ UNCHANGED <<bufVars, handle, ticksEmitted, tamperCount, loop, fileVars, muVars,
                 otherVars, stopped>>

TakeHandle(c) ==
  /\ At(c, "take")
  /\ handle' = NoLoop
  /\ client' = [client EXCEPT ![c].pc = "join", ![c].arg = handle]
  /\ UNCHANGED <<bufVars, running, ticksEmitted, tamperCount, loop, fileVars, muVars,
                 otherVars, stopped>>

\* Mutant of Joinable: the handle dropped instead of awaited.
JoinableAlways(l) == TRUE

Joinable(l) == l # NoLoop => loop[l].pc = "done"

Join(c) ==
  /\ At(c, "join")
  /\ Joinable(client[c].arg)
  /\ stopped' = stopped \cup client[c].alive
  /\ client' = [client EXCEPT ![c] = [pc |-> "idle", arg |-> 0, alive |-> {}]]
  /\ UNCHANGED <<bufVars, running, handle, ticksEmitted, tamperCount, loop, fileVars,
                 muVars, otherVars>>

\* The client of a stop that awaits its join hangs up: axum drops the handler,
\* and with it the JoinHandle it took.
HangUp(c) ==
  /\ At(c, "join")
  /\ c \in env.impatient
  /\ client' = [client EXCEPT ![c] = [pc |-> "idle", arg |-> 0, alive |-> {}]]
  /\ UNCHANGED <<bufVars, running, handle, ticksEmitted, tamperCount, loop, fileVars,
                 muVars, otherVars, stopped>>

-------------------------------------------------------------------------------
\* inject_tamper: the id comes from the tick counter, the record's CRC is wrong.
TamperCount(c) ==
  /\ At(c, "idle")
  /\ env.tamper /\ pushes < env.pushes
  /\ ticksEmitted' = ticksEmitted + 1
  /\ client' = [client EXCEPT ![c].pc = "tamper", ![c].arg = ticksEmitted + TamperBase]
  /\ UNCHANGED <<bufVars, running, handle, tamperCount, loop, fileVars, muVars, otherVars,
                 stopped>>

TamperPush(c) ==
  /\ At(c, "tamper")
  /\ PushRecord(client[c].arg, NoLoop)
  /\ client' = [client EXCEPT ![c].pc = "tampered", ![c].arg = 0]
  /\ UNCHANGED <<running, handle, ticksEmitted, tamperCount, loop, fileVars, muVars,
                 otherVars, stopped>>

TamperTally(c) ==
  /\ At(c, "tampered")
  /\ tamperCount' = tamperCount + 1
  /\ Goto(c, "idle")
  /\ UNCHANGED <<bufVars, running, handle, ticksEmitted, loop, fileVars, muVars, otherVars,
                 stopped>>

\* reset: pop until the buffer is empty, zero the counters, remove the file.
Reset(c) ==
  /\ At(c, "idle")
  /\ env.reset
  /\ Goto(c, "reset")
  /\ UNCHANGED <<bufVars, running, handle, ticksEmitted, tamperCount, loop, fileVars,
                 muVars, otherVars, stopped>>

ResetPop(c) ==
  /\ At(c, "reset")
  /\ IF buf = <<>> THEN Goto(c, "zero") /\ UNCHANGED buf
                   ELSE buf' = Tail(buf) /\ UNCHANGED client
  /\ UNCHANGED <<pushes, running, handle, ticksEmitted, tamperCount, loop, fileVars,
                 muVars, otherVars, stopped>>

ResetTicks(c) ==
  /\ At(c, "zero")
  /\ ticksEmitted' = 0
  /\ Goto(c, "zerotampers")
  /\ UNCHANGED <<bufVars, running, handle, tamperCount, loop, fileVars, muVars, otherVars,
                 stopped>>

ResetTampers(c) ==
  /\ At(c, "zerotampers")
  /\ tamperCount' = 0
  /\ Goto(c, "remove")
  /\ UNCHANGED <<bufVars, running, handle, ticksEmitted, loop, fileVars, muVars, otherVars,
                 stopped>>

ResetFile(c) ==
  /\ At(c, "remove")
  /\ fs' = Unlinked(fs)
  /\ Goto(c, "idle")
  /\ UNCHANGED <<bufVars, running, handle, ticksEmitted, tamperCount, loop, unwritten,
                 muVars, otherVars, stopped>>

SetVendor(c) ==
  \E v \in (Vendors \cup {Generic}) \ {vendor} :
    /\ At(c, "idle")
    /\ env.vendors
    /\ vendor' = v
    /\ UNCHANGED <<bufVars, running, handle, ticksEmitted, tamperCount, loop, client,
                   fileVars, seen, otherVars, stopped>>

-------------------------------------------------------------------------------
\* run_pipeline subscribes and opens its historian: exists(), then the open
\* and, for a new file, the header; without a historian the loop goes on.
CsvExists(l) ==
  /\ loop[l].pc = "exists"
  /\ loop' = [loop EXCEPT ![l].pc = "open", ![l].pre = FileExists(fs)]
  /\ UNCHANGED <<bufVars, running, handle, ticksEmitted, tamperCount, client, fileVars,
                 muVars, otherVars, stopped>>

CsvOpen(l) ==
  \E opens \in env.opens, writes \in env.writes :
    LET ok == opens /\ (loop[l].pre \/ writes)
    IN  /\ loop[l].pc = "open"
        /\ fs' = IF ok THEN NewFs(fs, l, loop[l].pre)
                 ELSE IF opens THEN Opened(fs, l) ELSE fs
        /\ loop' = [loop EXCEPT ![l].pc = "check",
                                ![l].h = IF ok THEN NewHistorian(fs', l) ELSE NoHistorian]
        /\ UNCHANGED <<bufVars, running, handle, ticksEmitted, tamperCount, client,
                       unwritten, muVars, otherVars, stopped>>

\* Mutant of KeepsGoing: the flag never looked at.
KeepsGoingForever(l) == TRUE

KeepsGoing(l) == running

\* The loop condition; env.pushes bounds the iterations.
Check(l) ==
  /\ loop[l].pc = "check"
  /\ KeepsGoing(l) => pushes < env.pushes
  /\ LoopGoto(l, IF KeepsGoing(l) THEN "tick" ELSE "exit")
  /\ UNCHANGED <<bufVars, running, handle, ticksEmitted, tamperCount, client, fileVars,
                 muVars, otherVars, stopped>>

\* Mutant of Noted: frame_count only ever set by the first sighting.
NotedOnce(mu) == [seen EXCEPT ![mu] = 1]

Noted(mu) == [seen EXCEPT ![mu] = @ + 1]

\* The ticker fires; synth_frame carries the selected vendor's svID.
NoteFrame(l) ==
  /\ loop[l].pc = "tick"
  /\ seen' = Noted(vendor)
  /\ LoopGoto(l, "push")
  /\ UNCHANGED <<bufVars, running, handle, ticksEmitted, tamperCount, client, fileVars,
                 vendor, otherVars, stopped>>

\* The loop's own Aligner makes the tick: its ids start at 0 in every loop.
PushTick(l) ==
  /\ loop[l].pc = "push"
  /\ PushRecord(loop[l].next, l)
  /\ loop' = [loop EXCEPT ![l].pc = "count", ![l].next = @ + 1]
  /\ UNCHANGED <<running, handle, ticksEmitted, tamperCount, client, fileVars, muVars,
                 otherVars, stopped>>

CountTick(l) ==
  /\ loop[l].pc = "count"
  /\ ticksEmitted' = ticksEmitted + 1
  /\ LoopGoto(l, IF loop[l].h.ino = NoFile THEN "check" ELSE "write")
  /\ UNCHANGED <<bufVars, running, handle, tamperCount, client, fileVars, muVars, otherVars,
                 stopped>>

\* Historian::tick, and a flush every FlushEvery iterations, which may fail
\* whatever the tick's own writes did; its error is ignored.
WriteTick(l) ==
  LET tick == TickDone(loop[l].h, fs, buf)
      due == (loop[l].next - 1) % FlushEvery = 0
  IN  /\ loop[l].pc = "write"
      /\ WriteOuts(loop[l].h, buf) > 0 => TRUE \in env.writes
      /\ \E ok \in env.writes :
           /\ fs' = IF due /\ ok THEN FlushedFs(tick.h, tick.fs) ELSE tick.fs
           /\ loop' = [loop EXCEPT ![l].pc = "check",
                                   ![l].h = IF due /\ ok THEN Flushed(tick.h) ELSE tick.h]
      /\ UNCHANGED <<bufVars, running, handle, ticksEmitted, tamperCount, client,
                     unwritten, muVars, otherVars, stopped>>

\* A tick fails at any of its write-outs: it is logged ("will retry next
\* iteration"), no flush is tried and the loop goes on.
WriteFails(l) ==
  \E k \in 0 .. WriteOuts(loop[l].h, buf) - 1 :
    LET rows == RowsAfter(loop[l].h, buf)
        tick == TickFailed(loop[l].h, fs, buf, k)
    IN  /\ loop[l].pc = "write"
        /\ FALSE \in env.writes
        /\ k > 0 => TRUE \in env.writes
        /\ fs' = tick.fs
        /\ loop' = [loop EXCEPT ![l].pc = "check", ![l].h = tick.h]
        /\ unwritten' = [unwritten EXCEPT
             ![l] = @ \cup {rows[i].n : i \in ((k + 1) * WriteRows + 1) .. Len(rows)}]
        /\ UNCHANGED <<bufVars, running, handle, ticksEmitted, tamperCount, client,
                       muVars, otherVars, stopped>>

\* The last flush, its error ignored (dropping the BufWriter is a second and
\* last try), and the loop's task is over.
Exit(l) ==
  /\ loop[l].pc = "exit"
  /\ \/ /\ loop[l].h.pending # <<>> => TRUE \in env.writes
        /\ loop' = [loop EXCEPT ![l].pc = "done", ![l].h = Flushed(@)]
        /\ fs' = IF loop[l].h.ino # NoFile THEN FlushedFs(loop[l].h, fs) ELSE fs
        /\ UNCHANGED unwritten
     \/ /\ FALSE \in env.writes /\ loop[l].h.pending # <<>>
        /\ LoopGoto(l, "done")
        /\ unwritten' = [unwritten EXCEPT
             ![l] = @ \cup {row.n : row \in Range(loop[l].h.pending)}]
        /\ UNCHANGED fs
  /\ UNCHANGED <<bufVars, running, handle, ticksEmitted, tamperCount, client, muVars,
                 otherVars, stopped>>

-------------------------------------------------------------------------------
\* Mutant of L0Total: one tick counted per batch.
L0TotalPerBatch(total, batch) == total + 1

L0Total(total, batch) == total + Len(batch)

\* spawn_l0_demo: read_since, then record_l0_demo_tick for each tick of the batch.
ReadL0 ==
  LET batch == FreshRows(buf, l0.cursor)
  IN  /\ env.l0demo
      /\ batch # <<>>
      /\ l0' = [cursor |-> CursorAfter(buf, l0.cursor),
                last |-> batch[Len(batch)].id,
                total |-> L0Total(l0.total, batch)]
      /\ l0got' = l0got \cup {batch[i].n : i \in DOMAIN batch}
      /\ UNCHANGED <<bufVars, running, handle, ticksEmitted, tamperCount, loop, client,
                     fileVars, muVars, stopped, env>>

-------------------------------------------------------------------------------
LoopStep(l) ==
  \/ CsvExists(l) \/ CsvOpen(l)
  \/ Check(l) \/ NoteFrame(l) \/ PushTick(l) \/ CountTick(l)
  \/ WriteTick(l) \/ WriteFails(l) \/ Exit(l)

\* What a handler does after its first step, without its client's help.
HandlerStep(c) ==
  \/ StoreTrue(c) \/ Spawn(c) \/ KeepHandle(c)
  \/ TakeHandle(c) \/ Join(c)
  \/ TamperPush(c) \/ TamperTally(c)
  \/ ResetPop(c) \/ ResetTicks(c) \/ ResetTampers(c) \/ ResetFile(c)

Request(c) ==
  /\ c \in env.clients
  /\ Start(c) \/ Stop(c) \/ TamperCount(c) \/ Reset(c) \/ SetVendor(c) \/ HangUp(c)

Next ==
  \/ \E c \in Clients : Request(c) \/ HandlerStep(c)
  \/ \E l \in Loops : LoopStep(l)
  \/ ReadL0

Spec == Init /\ [][Next]_vars

\* tokio keeps running spawned tasks and handlers; the operator may do nothing.
FairSpec ==
  /\ Spec
  /\ \A c \in Clients : WF_vars(HandlerStep(c))
  /\ \A l \in Loops : WF_vars(LoopStep(l))
  /\ WF_vars(ReadL0)

-------------------------------------------------------------------------------
\* What loop l's historian has written: the rows of its file, then those it holds.
Written(l) == IF loop[l].h.ino = NoFile THEN <<>>
              ELSE fs.data[loop[l].h.ino] \o loop[l].h.pending

(* Of an operator who makes one request at a time and waits for its        *)
(* answer: once a stop has answered Ok, no loop that was alive when it was *)
(* called still runs, for the handle is there "so [`stop`] can join        *)
(* cleanly" (dataplane/mod.rs:65).                                         *)
StopJoins ==
  Cardinality(env.clients) = 1 /\ env.impatient = {} => stopped \cap Alive = {}

(* Every frame a loop puts through its aligner was noted for its svID      *)
(* first, and exactly once: the frame counts of /south/mus add up.         *)
FramesNoted ==
  FoldFunction(+, 0, seen) =
    FoldFunction(+, 0, [l \in Loops |-> loop[l].next])
      + Cardinality({l \in Loops : loop[l].pc = "push"})

(* The L0 demo is never given the same record twice, whatever the operator *)
(* restarts, tampers with or resets: its total counts distinct records.    *)
L0CountsOnce == l0.total = Cardinality(l0got)

(* Within one session the rows a historian writes never go back in id and  *)
(* no record is written twice, across flushes, full BufWriters, failed     *)
(* writes and another session's rows in the same file.  (Two rows may      *)
(* share an id: the buffer may still hold an earlier loop's ticks.)        *)
RowsInOrder ==
  \A l \in Loops : \A i, j \in DOMAIN Written(l) :
    (i < j /\ Written(l)[i].by = l /\ Written(l)[j].by = l) =>
      /\ Written(l)[i].id <= Written(l)[j].id
      /\ Written(l)[i].n # Written(l)[j].n

(* A session none of whose writes failed leaves nothing behind when its    *)
(* loop ends: the file holds its rows up to the last tick its cursor       *)
(* passed, and so the BufWriter is empty.                                  *)
NothingLeftBehind ==
  \A l \in Loops :
    loop[l].pc = "done" /\ loop[l].h.cursor # NoCursor /\ unwritten[l] = {} =>
      /\ loop[l].h.pending = <<>>
      /\ \E row \in Range(fs.data[loop[l].h.ino]) :
           row.by = l /\ row.id = loop[l].h.cursor

(* A stop of an operator who makes one request at a time always answers:   *)
(* the loop it awaits comes to its condition and sees the flag.  (A start  *)
(* from another window sets the flag again and the stop waits on.)         *)
StopAnswers ==
  \A c \in Clients : (At(c, "join") /\ Cardinality(env.clients) = 1) ~> ~At(c, "join")

(* If the pipeline stays stopped every loop ends (dataplane/mod.rs:65).    *)
LoopsEnd == \A l \in Loops : <>[]~running => <>[](l \notin Alive)

-------------------------------------------------------------------------------
(* What the documentation says of the code and the code does not do.       *)

(* dataplane/mod.rs:537: a tick that failed "will retry next iteration":   *)
(* the rows it did not write are still ahead of the session's cursor.      *)
FailedRowsRetried ==
  \A l \in Alive : \A i \in DOMAIN buf :
    buf[i].n \in unwritten[l] => buf[i].id > loop[l].h.cursor

(* dataplane/mod.rs:325: running says "whether the background loop is      *)
(* currently running".  A pipeline that says so, with no handler in        *)
(* flight, has a loop.                                                     *)
RunningHasLoop ==
  (running /\ \A c \in Clients : At(c, "idle")) => Alive # {}
===============================================================================
