------------------------------ MODULE Subscription ------------------------------
(***************************************************************************)
(* svdc-subscribe's read_since over records that may share an id, as they  *)
(* do once a pipeline was restarted: the batch is every record above the   *)
(* cursor, sorted by id.  (TickStream, where ids are unique, needs only    *)
(* their set.)                                                             *)
(***************************************************************************)
EXTENDS TickBuffer, FiniteSets

\* Mutant of FreshRows: recent() only turned round, as if ids followed the
\* order of the pushes.
FreshRowsTurned(buf, cursor) == SelectSeq(buf, LAMBDA t : t.id > cursor)

FreshRecords(buf, cursor) == {buf[i] : i \in {j \in DOMAIN buf : buf[j].id > cursor}}

\* The order of sort_by_key on ids, stable over the newest-first list of recent().
Before(t, u) == t.id < u.id \/ (t.id = u.id /\ t.n > u.n)

\* read_since: the fresh records, each once (no two have one n), in that order.
FreshRows(buf, cursor) ==
  LET fresh == FreshRecords(buf, cursor)
  IN  CHOOSE s \in [1 .. Cardinality(fresh) -> fresh] :
        \A i, j \in DOMAIN s : i < j => Before(s[i], s[j])

\* The last of that batch, which batch.last() takes: of those with the greatest id
\* the first pushed.
LastRow(buf, cursor) ==
  LET fresh == FreshRecords(buf, cursor)
  IN  CHOOSE t \in fresh : \A u \in fresh : u.id < t.id \/ (u.id = t.id /\ t.n <= u.n)
===============================================================================
