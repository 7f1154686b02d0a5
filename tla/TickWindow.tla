------------------------------- MODULE TickWindow -------------------------------
(***************************************************************************)
(* What one Aligner promises of its ticks in a TickBuffer that it does not *)
(* have to itself: they are numbered 0, 1, 2, ... without a gap, and those *)
(* that are retired, by a push of its own or another's or by a reset, are  *)
(* the oldest, one at a time.                                              *)
(***************************************************************************)
EXTENDS Integers

VARIABLES
  window,    \* the ids of the aligner's ticks still in the buffer
  next       \* the id of its next tick

windowVars == <<window, next>>

Oldest == CHOOSE n \in window : \A m \in window : n <= m

WindowInit == window = {} /\ next = 0

Emit ==
  /\ next' = next + 1
  /\ \/ window' = window \cup {next}
     \/ window # {} /\ window' = (window \ {Oldest}) \cup {next}

Retire ==
  /\ window # {}
  /\ window' = window \ {Oldest}
  /\ UNCHANGED next

WindowNext == Emit \/ Retire

WindowSpec == WindowInit /\ [][WindowNext]_windowVars
===============================================================================
