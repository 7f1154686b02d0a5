------------------------------- MODULE TickFeed -------------------------------
(***************************************************************************)
(* What the data plane promises a northbound subscriber, without the       *)
(* buffer: ticks are numbered 0, 1, 2, ... and a read brings the           *)
(* subscription up to the newest tick.  A slow subscriber may lose ticks,  *)
(* but only the oldest ones it had not read: what a read returns is a      *)
(* suffix of what it was owed.                                             *)
(***************************************************************************)
EXTENDS Integers

CONSTANT Subs

VARIABLES
  next,      \* the number of ticks published
  opened,    \* the open subscriptions
  high,      \* the newest tick each subscription was given, or -1
  got        \* every tick each subscription was given

feedVars == <<next, opened, high, got>>

FeedInit ==
  /\ next = 0
  /\ opened = {}
  /\ high = [s \in Subs |-> -1]
  /\ got = [s \in Subs |-> {}]

Publish ==
  /\ next' = next + 1
  /\ UNCHANGED <<opened, high, got>>

Open(s) ==
  /\ s \notin opened
  /\ opened' = opened \cup {s}
  /\ high' = [high EXCEPT ![s] = -1]
  /\ got' = [got EXCEPT ![s] = {}]
  /\ UNCHANGED next

Close(s) ==
  /\ opened' = opened \ {s}
  /\ UNCHANGED <<next, high, got>>

Deliver(s) ==
  \E oldest \in (high[s] + 1) .. (next - 1) :
    /\ s \in opened
    /\ got' = [got EXCEPT ![s] = @ \cup (oldest .. (next - 1))]
    /\ high' = [high EXCEPT ![s] = next - 1]
    /\ UNCHANGED <<next, opened>>

FeedNext == Publish \/ \E s \in Subs : Open(s) \/ Close(s) \/ Deliver(s)

FeedSpec == FeedInit /\ [][FeedNext]_feedVars
===============================================================================
