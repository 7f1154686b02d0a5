------------------------------ MODULE TickBuffer ------------------------------
(***************************************************************************)
(* The operators of svdc-aligner's TickBuffer (one Mutex<VecDeque>, so     *)
(* every operation is atomic) and of the cursor filter svdc-subscribe      *)
(* applies to it.  A buffer is a sequence of records with a field id, the  *)
(* oldest record first.                                                    *)
(***************************************************************************)
EXTENDS Integers, Sequences

CONSTANT Capacity                  \* TickBuffer::capacity

ASSUME CapacityAssumption == Capacity \in Nat \ {0}

NoCursor == -1                     \* Subscription::cursor = None (ids are >= 0)

-------------------------------------------------------------------------------
\* Mutants of Push: no bound; the newest record dropped instead of the oldest.
PushUnbounded(buf, tick) == Append(buf, tick)
PushOverNewest(buf, tick) ==
  Append(IF Len(buf) >= Capacity THEN SubSeq(buf, 1, Len(buf) - 1) ELSE buf, tick)

\* push drops the OLDEST record of a full buffer before it appends.
Push(buf, tick) ==
  Append(IF Len(buf) >= Capacity THEN Tail(buf) ELSE buf, tick)

\* The records a push retires: PushOutcome::DroppedOldest names one.
Retired(buf) == IF Len(buf) >= Capacity THEN {Head(buf)} ELSE {}

Recent(buf, n) ==
  [i \in 1 .. (IF n < Len(buf) THEN n ELSE Len(buf)) |-> buf[Len(buf) + 1 - i]]

Ids(buf) == {buf[i].id : i \in DOMAIN buf}

\* Mutant of FreshIds: off by one.
FreshIdsSkipping(buf, cursor) == {n \in Ids(buf) : n > cursor + 1}

\* The ids read_since returns to a cursor, and the cursor it leaves behind.
FreshIds(buf, cursor) == {n \in Ids(buf) : n > cursor}

\* Mutant of CursorAfter: the cursor of an unsorted batch, its last element.
CursorAfterUnsorted(buf, cursor) ==
  LET fresh == FreshIds(buf, cursor)
  IN  IF fresh = {} THEN cursor
      ELSE CHOOSE m \in fresh : \A n \in fresh : m <= n

CursorAfter(buf, cursor) ==
  LET fresh == FreshIds(buf, cursor)
  IN  IF fresh = {} THEN cursor
      ELSE CHOOSE m \in fresh : \A n \in fresh : n <= m
===============================================================================
