------------------------------ MODULE MCNorthbound ------------------------------
EXTENDS Northbound

\* Buffers of up to three records, numbered as they were pushed, with equal ids and gaps.
SmallBuffers ==
  UNION {{[i \in 1 .. k |-> [id |-> ids[i], n |-> i]] : ids \in [1 .. k -> {0, 1, 3}]} :
           k \in 0 .. 3}

\* What the bridge takes for the last row is the last row of the sorted batch.
ASSUME LastOfBatch ==
  \A b \in SmallBuffers : \A cursor \in {NoCursor, 0, 1, 3} :
    LET batch == FreshRows(b, cursor)
    IN  /\ (batch = <<>>) <=> (FreshRecords(b, cursor) = {})
        /\ batch # <<>> => batch[Len(batch)] = LastRow(b, cursor)
================================================================================
