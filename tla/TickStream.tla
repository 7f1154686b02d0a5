------------------------------ MODULE TickStream ------------------------------
(***************************************************************************)
(* One aligner, its TickBuffer and the subscriptions that drain it: the    *)
(* core every feed (synthetic loop or UDP) and every northbound layer of   *)
(* the daemon shares.                                                      *)
(***************************************************************************)
EXTENDS TickBuffer

CONSTANTS
  Subs,                  \* subscription slots
  MaxTicks               \* bound: ticks emitted in a behaviour

ASSUME MaxTicksAssumption == MaxTicks \in Nat

VARIABLES
  buf,                   \* the TickBuffer
  nextId,                \* Aligner::next_tick_id
  open,                  \* the live Subscription values
  cursor,                \* Subscription::cursor
  from,                  \* history: the first tick a subscription is owed
  got,                   \* history: ticks read_since returned to it
  again,                 \* history: ticks it returned more than once
  lost                   \* history: ticks retired before it returned them

vars == <<buf, nextId, open, cursor, from, got, again, lost>>

Init ==
  /\ buf = <<>>
  /\ nextId = 0
  /\ open = {}
  /\ cursor = [s \in Subs |-> NoCursor]
  /\ from = [s \in Subs |-> 0]
  /\ got = [s \in Subs |-> {}]
  /\ again = [s \in Subs |-> {}]
  /\ lost = [s \in Subs |-> {}]

\* History: the ids in gone left the buffer; whoever had not read them lost them.
LostWith(gone) ==
  [s \in Subs |-> lost[s] \cup {n \in gone : s \in open /\ n > cursor[s]}]

-------------------------------------------------------------------------------
\* Aligner::process_frame makes exactly one tick per frame and the feed pushes it.
Emit ==
  /\ nextId < MaxTicks
  /\ buf' = Push(buf, [id |-> nextId])
  /\ nextId' = nextId + 1
  /\ lost' = LostWith({t.id : t \in Retired(buf)})
  /\ UNCHANGED <<open, cursor, from, got, again>>

\* TickBuffer::pop, which DataPipeline::reset calls until the buffer is empty.
Pop ==
  /\ buf # <<>>
  /\ buf' = Tail(buf)
  /\ lost' = LostWith({Head(buf).id})
  /\ UNCHANGED <<nextId, open, cursor, from, got, again>>

\* A new Subscription has no cursor: it is owed what the buffer still holds.
Subscribe(s) ==
  /\ s \notin open
  /\ open' = open \cup {s}
  /\ cursor' = [cursor EXCEPT ![s] = NoCursor]
  /\ from' = [from EXCEPT ![s] = nextId - Len(buf)]
  /\ got' = [got EXCEPT ![s] = {}]
  /\ again' = [again EXCEPT ![s] = {}]
  /\ lost' = [lost EXCEPT ![s] = {}]
  /\ UNCHANGED <<buf, nextId>>

Unsubscribe(s) ==
  /\ s \in open
  /\ open' = open \ {s}
  /\ UNCHANGED <<buf, nextId, cursor, from, got, again, lost>>

ReadSince(s) ==
  LET fresh == FreshIds(buf, cursor[s])
  IN  /\ s \in open
      /\ cursor' = [cursor EXCEPT ![s] = CursorAfter(buf, @)]
      /\ got' = [got EXCEPT ![s] = @ \cup fresh]
      /\ again' = [again EXCEPT ![s] = @ \cup (got[s] \cap fresh)]
      /\ UNCHANGED <<buf, nextId, open, from, lost>>

Next ==
  \/ Emit
  \/ Pop
  \/ \E s \in Subs : Subscribe(s) \/ Unsubscribe(s) \/ ReadSince(s)

Spec == Init /\ [][Next]_vars

\* The consumers poll for ever (L0 demo and L1 bridge loops of svdc-bin).
FairSpec == Spec /\ \A s \in Subs : WF_vars(ReadSince(s))

-------------------------------------------------------------------------------
Tick == [id : Nat]

\* The records of b carry the Len(b) ids below n, in order.
IsWindow(b, n) == \A i \in DOMAIN b : b[i].id = n - Len(b) + i - 1

Pending(s) == FreshIds(buf, cursor[s])

(* Every variable has its type, and the buffer never exceeds its capacity. *)
TypeOK ==
  /\ buf \in Seq(Tick)
  /\ Len(buf) <= Capacity
  /\ nextId \in Nat
  /\ open \subseteq Subs
  /\ cursor \in [Subs -> Nat \cup {NoCursor}]
  /\ from \in [Subs -> Nat]
  /\ got \in [Subs -> SUBSET Nat]
  /\ again \in [Subs -> SUBSET Nat]
  /\ lost \in [Subs -> SUBSET Nat]

(* The buffer is the window of the newest emissions: its ids are           *)
(* consecutive and end at the last one emitted (push drops the oldest and  *)
(* never rejects the newest).                                              *)
Window == IsWindow(buf, nextId)

(* Every tick emitted since a subscription opened is in exactly one of     *)
(* three places: returned to it by read_since, waiting in the buffer above *)
(* its cursor, or retired from the buffer before it was read.  No tick is  *)
(* skipped over by the cursor and none is both lost and delivered.         *)
Accounted ==
  \A s \in open :
    /\ got[s] \cup Pending(s) \cup lost[s] = from[s] .. (nextId - 1)
    /\ got[s] \cap lost[s] = {}
    /\ Pending(s) \cap (got[s] \cup lost[s]) = {}

(* read_since never returns a tick it has returned before.                 *)
NeverTwice == \A s \in open : again[s] = {}

(* A tick in the buffer is eventually delivered to every subscription that *)
(* stays open, unless the buffer retires it first.                         *)
EventuallyRead ==
  \A s \in Subs : \A n \in 0 .. (MaxTicks - 1) :
    (s \in open /\ n \in Ids(buf)) ~>
      (n \in got[s] \/ n \notin Ids(buf) \/ s \notin open)

(* The buffered stream implements the lossy in-order feed.                 *)
Feed == INSTANCE TickFeed WITH next <- nextId, opened <- open, high <- cursor

ImplementsFeed == Feed!FeedSpec
===============================================================================
