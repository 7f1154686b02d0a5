-------------------------------- MODULE AuditLog --------------------------------
(***************************************************************************)
(* svdc-console's audit log: a bounded ring and an append-only JSONL file. *)
(* record takes the ring's lock, numbers and pushes the record, releases   *)
(* it, and only then takes the writer's lock to append the line; requests  *)
(* are concurrent and the daemon may be killed and restarted at any step.  *)
(***************************************************************************)
EXTENDS Integers, SequencesExt

CONSTANTS
  Requests,             \* HTTP requests in flight at the same time
  Capacity,             \* AuditLog::capacity
  MaxEvents,            \* bound: events recorded
  DiskFails,            \* whether a write to the file may fail
  Tears                 \* whether a kill may leave half a line in the file

ASSUME AuditAssumption ==
  /\ Capacity \in Nat \ {0}
  /\ MaxEvents \in Nat
  /\ DiskFails \in BOOLEAN
  /\ Tears \in BOOLEAN

VARIABLES
  up,                   \* whether the daemon is running
  ring,                 \* Inner::ring, records [seq, ev], the oldest first
  nextSeq,              \* Inner::next_seq
  file,                 \* the complete lines of the file
  stuck,                \* the record whose line waits in the LineWriter, or None
  torn,                 \* whether an incomplete line follows them
  request,              \* the record a request has still to persist, or None
  events,               \* history: events recorded; ev numbers them
  answered,             \* history: the events whose record() returned
  failed,               \* history: the events whose write failed, come out late or not
  born                  \* history: next_seq when this process started

auditVars == <<up, ring, nextSeq, file, stuck, torn, request, events, answered, failed,
               born>>

None == [ev |-> 0]

AuditInit ==
  /\ up = TRUE
  /\ ring = <<>> /\ nextSeq = 1
  /\ file = <<>> /\ stuck = None /\ torn = FALSE
  /\ request = [r \in Requests |-> None]
  /\ events = 0 /\ answered = {} /\ failed = {}
  /\ born = 1

-------------------------------------------------------------------------------
\* Mutant of Trimmed: the newest records make room.
TrimmedNewest(s) == SubSeq(s, 1, IF Len(s) > Capacity THEN Capacity ELSE Len(s))

\* The ring's newest Capacity records.
Trimmed(s) == SubSeq(s, IF Len(s) > Capacity THEN Len(s) - Capacity + 1 ELSE 1, Len(s))

\* record, under the ring's lock.
Record(r) ==
  LET rec == [seq |-> nextSeq, ev |-> events + 1]
  IN  /\ up /\ request[r] = None
      /\ events < MaxEvents
      /\ events' = events + 1
      /\ nextSeq' = nextSeq + 1
      /\ ring' = Trimmed(Append(ring, rec))
      /\ request' = [request EXCEPT ![r] = rec]
      /\ UNCHANGED <<up, file, stuck, torn, answered, failed, born>>

\* The file once the stuck line is out.
Unstuck == IF stuck = None THEN file ELSE Append(file, stuck)

\* persist_line, under the writer's lock: the stuck line goes out first.  A line that
\* cannot be written gets stuck, or is dropped if another is stuck still; the I/O error
\* is logged and swallowed.
PersistLine(r) ==
  /\ up /\ request[r] # None
  /\ \/ /\ file' = Append(Unstuck, request[r]) /\ stuck' = None
        /\ UNCHANGED failed
     \/ /\ DiskFails /\ failed' = failed \cup {request[r].ev}
        /\ \/ file' = Unstuck /\ stuck' = request[r]
           \/ stuck # None /\ UNCHANGED <<file, stuck>>
  /\ answered' = answered \cup {request[r].ev}
  /\ request' = [request EXCEPT ![r] = None]
  /\ UNCHANGED <<up, ring, nextSeq, torn, events, born>>

-------------------------------------------------------------------------------
\* The process dies; a line being written may be cut short.
Kill ==
  /\ up
  /\ up' = FALSE
  /\ \/ UNCHANGED torn
     \/ Tears /\ torn' = TRUE /\ (stuck # None \/ \E r \in Requests : request[r] # None)
  /\ stuck' = None
  /\ ring' = <<>>
  /\ nextSeq' = 1
  /\ request' = [r \in Requests |-> None]
  /\ UNCHANGED <<file, events, answered, failed, born>>

\* Mutant of SeqAfter: the last line's number instead of the highest.
SeqAfterLast(lines) == IF lines = <<>> THEN 1 ELSE Last(lines).seq + 1

\* replay_from_file's next_seq.
SeqAfter(lines) ==
  LET seqs == {lines[i].seq : i \in DOMAIN lines} \cup {0}
  IN  1 + CHOOSE m \in seqs : \A n \in seqs : n <= m

\* Mutant of Reopened: the file opened for writing, not for appending.
ReopenedTruncated(lines) == <<>>

Reopened(lines) == lines

\* configure_persistence at start-up: replay the file, then open it to append.
\* An incomplete line is a BadLine: the daemon exits and stays down.
Restart ==
  /\ ~up /\ ~torn
  /\ up' = TRUE
  /\ ring' = Trimmed(file)
  /\ nextSeq' = SeqAfter(file)
  /\ born' = nextSeq'
  /\ file' = Reopened(file)
  /\ UNCHANGED <<stuck, torn, request, events, answered, failed>>

\* The operator cuts the incomplete line off by hand.
Repair ==
  /\ ~up /\ torn
  /\ torn' = FALSE
  /\ UNCHANGED <<up, ring, nextSeq, file, stuck, request, events, answered, failed, born>>

AuditNext ==
  \/ \E r \in Requests : Record(r) \/ PersistLine(r)
  \/ Kill \/ Restart \/ Repair

AuditSpec == AuditInit /\ [][AuditNext]_auditVars

-------------------------------------------------------------------------------
(* No two lines of the file carry one sequence number, whatever order the  *)
(* requests wrote them in and wherever the daemon was killed: replay goes  *)
(* on from the highest number, not from the last line's.                   *)
SeqUniqueOnDisk ==
  \A i, j \in DOMAIN file : file[i].seq = file[j].seq => i = j

(* An event whose record() returned is in the file, across kills and       *)
(* restarts, unless its write failed (audit/mod.rs:8-13: "audit history    *)
(* survives daemon restart").                                              *)
AnsweredIsDurable ==
  answered \ failed \subseteq {file[i].ev : i \in DOMAIN file}

(* The events this process recorded are in the ring in the order of their  *)
(* numbers, without a gap up to the newest, after whatever was replayed: a *)
(* client that sees a gap has really lost something to the capacity, which *)
(* the ring never exceeds.  Counted back from the newest, the k-th record  *)
(* is the one numbered k before next_seq, as long as there are that many.  *)
RingIsGapFree ==
  up => /\ Len(ring) <= Capacity
        /\ \A k \in 1 .. Capacity :
             k <= nextSeq - born =>
               k <= Len(ring) /\ ring[Len(ring) + 1 - k].seq = nextSeq - k
        /\ \A k \in 1 .. Len(ring) :
             k > nextSeq - born => ring[Len(ring) + 1 - k].seq < born
===============================================================================
