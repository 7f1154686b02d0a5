------------------------------- MODULE SseFanout -------------------------------
(***************************************************************************)
(* The console's live events: the emitter loop that reads the pipeline     *)
(* every 100 ms, the bounded tokio broadcast channel it sends to, and the  *)
(* browsers' streams.  The emitter starts with the first browser.  Event i *)
(* is the i-th sent; what it carries is left out, except the rate.         *)
(***************************************************************************)
EXTENDS TickSource

CONSTANTS
  Browsers,
  ChannelCapacity,      \* 1024: events the broadcast channel keeps
  MaxEvents             \* bound: events sent

ASSUME SseAssumption == ChannelCapacity \in Nat \ {0} /\ MaxEvents \in Nat

VARIABLES
  emitter,              \* run_simulation: pc and last_ticks_emitted
  sent,                 \* events the channel has taken
  stream,               \* per browser: pc, and the next event of its receiver
  rates                 \* history: the metrics events (up to 2), counted at the last one,
                        \* whether its rate is above what was counted since, all rates

sseVars == <<emitter, sent, stream, rates>>

SseInit ==
  /\ emitter = [pc |-> "off", last |-> 0]
  /\ sent = 0
  /\ stream = [b \in Browsers |-> [pc |-> "away", next |-> 0]]
  /\ rates = [number |-> 0, mark |-> 0, excess |-> FALSE, sum |-> 0]

\* get_emitter_tx: the first caller makes the channel and spawns the emitter.
OpenStream(b) ==
  /\ stream[b].pc = "away"
  /\ stream' = [stream EXCEPT ![b].pc = "subscribe"]
  /\ IF emitter.pc = "off"
     THEN emitter' = [emitter EXCEPT !.pc = "wave"] /\ rates' = [rates EXCEPT !.mark = counted]
     ELSE UNCHANGED <<emitter, rates>>
  /\ UNCHANGED sent

\* A receiver gets the events sent after it was made.
SubscribeStream(b) ==
  /\ stream[b].pc = "subscribe"
  /\ stream' = [stream EXCEPT ![b] = [pc |-> "open", next |-> sent + 1]]
  /\ UNCHANGED <<emitter, sent, rates>>

\* Dropping the response drops the receiver.
CloseTab(b) ==
  /\ stream[b].pc \in {"subscribe", "open"}
  /\ stream' = [stream EXCEPT ![b] = [pc |-> "closed", next |-> 0]]
  /\ UNCHANGED <<emitter, sent, rates>>

-------------------------------------------------------------------------------
Receivers == {b \in Browsers : stream[b].pc = "open"}

\* broadcast::Sender::send: without a receiver the event is dropped (`let _`).
Send == sent' = sent + (IF Receivers = {} THEN 0 ELSE 1)

\* The waveform event, built from recent(1) or a synthetic fallback.
SendWave ==
  /\ emitter.pc = "wave" /\ sent < MaxEvents
  /\ Send
  /\ emitter' = [emitter EXCEPT !.pc = "metrics"]
  /\ UNCHANGED <<stream, rates>>

\* Less than a second since the last metrics event.
NotYetDue ==
  /\ emitter.pc = "metrics"
  /\ emitter' = [emitter EXCEPT !.pc = "qse"]
  /\ UNCHANGED <<sent, stream, rates>>

\* Mutant of Delta: a base that is never moved.
DeltaFromZero(now, last) == now

\* saturating_sub.
Delta(now, last) == IF now > last THEN now - last ELSE 0

\* The metrics event: its rate is the difference of two readings of the counter.
SendMetrics ==
  LET delta == Delta(ticksEmitted, emitter.last)
  IN  /\ emitter.pc = "metrics" /\ sent < MaxEvents
      /\ emitter' = [pc |-> "qse", last |-> ticksEmitted]
      /\ Send
      /\ rates' = [number |-> rates.number + (IF rates.number < 2 THEN 1 ELSE 0),
                   mark |-> counted, excess |-> delta > counted - rates.mark,
                   sum |-> rates.sum + delta]
      /\ UNCHANGED stream

\* The mock QSE event, every seventh second.
SendQse ==
  /\ emitter.pc = "qse" /\ sent < MaxEvents
  /\ Send
  /\ emitter' = [emitter EXCEPT !.pc = "wave"]
  /\ UNCHANGED <<stream, rates>>

NoQse ==
  /\ emitter.pc = "qse"
  /\ emitter' = [emitter EXCEPT !.pc = "wave"]
  /\ UNCHANGED <<sent, stream, rates>>

EmitterNext == SendWave \/ NotYetDue \/ SendMetrics \/ SendQse \/ NoQse

-------------------------------------------------------------------------------
Oldest == IF sent > ChannelCapacity THEN sent - ChannelCapacity + 1 ELSE 1

Deliver(b) ==
  /\ stream[b].pc = "open"
  /\ Oldest <= stream[b].next /\ stream[b].next <= sent
  /\ stream' = [stream EXCEPT ![b].next = @ + 1]
  /\ UNCHANGED <<emitter, sent, rates>>

\* Mutant of AfterLag: the stream ends on the receiver's error.
AfterLagEnded(s) == [pc |-> "ended", next |-> 0]

\* filter_map skips the error; the receiver has moved to the oldest event.
AfterLag(s) == [s EXCEPT !.next = Oldest]

Lagged(b) ==
  /\ stream[b].pc = "open"
  /\ stream[b].next < Oldest
  /\ stream' = [stream EXCEPT ![b] = AfterLag(@)]
  /\ UNCHANGED <<emitter, sent, rates>>

StreamNext(b) == SubscribeStream(b) \/ Deliver(b) \/ Lagged(b)
BrowserNext(b) == OpenStream(b) \/ CloseTab(b)

-------------------------------------------------------------------------------
(* The rates the dashboard shows never add up to more ticks than were ever *)
(* counted, although start and reset set the counter back to 0 between two *)
(* readings (emitter.rs saturating_sub); and from the second metrics event *)
(* on (the first divides every tick since the pipeline's start) a rate is  *)
(* "Ticks emitted in the last second"                                      *)
(* (docs/telemetry_sse_simulator_sync.md:84) or less.                      *)
RatesAreHonest ==
  /\ rates.sum <= counted
  /\ rates.number > 1 => ~rates.excess

(* A browser that is behind comes to the end of the stream unless it goes  *)
(* away: falling behind the channel does not end it (routes/sse.rs "we     *)
(* just skip those rather than tear the stream down").                     *)
BrowserCatchesUp ==
  \A b \in Browsers :
    (stream[b].pc = "open" /\ stream[b].next <= sent) ~>
      (stream[b].pc = "closed" \/ (stream[b].pc = "open" /\ stream[b].next > sent))
===============================================================================
