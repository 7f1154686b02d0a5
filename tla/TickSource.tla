------------------------------- MODULE TickSource -------------------------------
(***************************************************************************)
(* What the readers of the shared DataPipeline see change: the buffer and  *)
(* the tick counter, fed by the loop, restarted, tampered with and reset.  *)
(* DataPipeline has the lifecycle and its races; here one loop runs at a   *)
(* time and one handler is in flight.                                      *)
(***************************************************************************)
EXTENDS Subscription

CONSTANTS
  MaxPushes,            \* bound: records pushed
  TamperBase            \* 1_000_000_000: added to the id of a tampered record

ASSUME SourceAssumption == MaxPushes \in Nat /\ TamperBase \in Nat

VARIABLES
  buf,                  \* DataPipeline::buffer; records [id, n]
  ticksEmitted,         \* DataPipeline::ticks_emitted
  source,               \* the loop: pc, and the next id of its Aligner
  handler,              \* the handler in flight: pc, and its locals
  pushes,               \* history: records pushed; n numbers them
  counted               \* history: increments of the counter

sourceVars == <<buf, ticksEmitted, source, handler, pushes, counted>>

SourceInit ==
  /\ buf = <<>>
  /\ ticksEmitted = 0
  /\ source = [pc |-> "push", next |-> 0]
  /\ handler = [pc |-> "idle", arg |-> 0]
  /\ pushes = 0
  /\ counted = 0

PushRecord(id) ==
  /\ pushes < MaxPushes
  /\ buf' = Push(buf, [id |-> id, n |-> pushes + 1])
  /\ pushes' = pushes + 1

AddTick == ticksEmitted' = ticksEmitted + 1 /\ counted' = counted + 1

\* run_pipeline: the tick is pushed, then counted.
PushTick ==
  /\ source.pc = "push"
  /\ PushRecord(source.next)
  /\ source' = [pc |-> "count", next |-> source.next + 1]
  /\ UNCHANGED <<ticksEmitted, handler, counted>>

CountTick ==
  /\ source.pc = "count"
  /\ AddTick
  /\ source' = [source EXCEPT !.pc = "push"]
  /\ UNCHANGED <<buf, handler, pushes>>

\* stop joined the loop; start zeroes the counter and spawns one whose Aligner
\* counts from 0.
Restart ==
  /\ source.pc = "push" /\ source.next > 0
  /\ ticksEmitted' = 0
  /\ source' = [pc |-> "push", next |-> 0]
  /\ UNCHANGED <<buf, handler, pushes, counted>>

\* inject_tamper takes its id from the counter it increments, then pushes.
TamperCount ==
  /\ handler.pc = "idle" /\ pushes < MaxPushes
  /\ AddTick
  /\ handler' = [pc |-> "tamper", arg |-> ticksEmitted + TamperBase]
  /\ UNCHANGED <<buf, source, pushes>>

TamperPush ==
  /\ handler.pc = "tamper"
  /\ PushRecord(handler.arg)
  /\ handler' = [pc |-> "idle", arg |-> 0]
  /\ UNCHANGED <<ticksEmitted, source, counted>>

\* reset pops until the buffer is empty and then zeroes the counter.
Reset ==
  /\ handler.pc = "idle"
  /\ handler' = [handler EXCEPT !.pc = "reset"]
  /\ UNCHANGED <<buf, ticksEmitted, source, pushes, counted>>

ResetPop ==
  /\ handler.pc = "reset"
  /\ IF buf = <<>> THEN handler' = [handler EXCEPT !.pc = "zero"] /\ UNCHANGED buf
                   ELSE buf' = Tail(buf) /\ UNCHANGED handler
  /\ UNCHANGED <<ticksEmitted, source, pushes, counted>>

ResetTicks ==
  /\ handler.pc = "zero"
  /\ ticksEmitted' = 0
  /\ handler' = [handler EXCEPT !.pc = "idle"]
  /\ UNCHANGED <<buf, source, pushes, counted>>

SourceNext ==
  \/ PushTick \/ CountTick \/ Restart
  \/ TamperCount \/ TamperPush
  \/ Reset \/ ResetPop \/ ResetTicks
===============================================================================
