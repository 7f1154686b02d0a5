------------------------------- MODULE Historian -------------------------------
(***************************************************************************)
(* The operators of svdc-historian: the CSV file it appends to, the rows   *)
(* its BufWriter still holds, and what new, tick and flush do to them.     *)
(* A file system value fs names the file at historian_path and keeps the   *)
(* rows of every inode, the unlinked ones a writer still holds included.   *)
(* A historian h is [ino, by, cursor, pending]: its open file, the session *)
(* it belongs to (history: who wrote a row), its Subscription's cursor and *)
(* the rows not yet written to the file.                                   *)
(***************************************************************************)
EXTENDS Subscription

CONSTANTS WriteRows      \* rows that fit in the 8 KiB of a BufWriter

ASSUME WriteRowsAssumption == WriteRows \in Nat \ {0}

NoFile == 0                                    \* no file; inodes are 1, 2, ...
Header == [id |-> -1, n |-> 0, by |-> 0]       \* the row of column names

EmptyDisk(inodes) == [named |-> NoFile, data |-> [i \in inodes |-> <<>>]]

FileExists(fs) == fs.named # NoFile

\* std::fs::remove_file: writers that have the file open keep their inode.
Unlinked(fs) == [fs EXCEPT !.named = NoFile]

Appended(fs, ino, rows) == [fs EXCEPT !.data[ino] = @ \o rows]

\* OpenOptions::append.create: the named file, or a new inode under the name.
Opened(fs, fresh) == IF FileExists(fs) THEN fs ELSE [fs EXCEPT !.named = fresh]

-------------------------------------------------------------------------------
\* Historian::new after its exists() said pre: the header goes out (and is
\* flushed) only if the file was not there then.
NewFs(fs, fresh, pre) ==
  LET opened == Opened(fs, fresh)
  IN  IF pre THEN opened ELSE Appended(opened, opened.named, <<Header>>)

NewHistorian(fs, by) ==
  [ino |-> fs.named, by |-> by, cursor |-> NoCursor, pending |-> <<>>]

\* The BufWriter's rows and, after them, those a tick adds.
RowsAfter(h, buf) ==
  LET fresh == FreshRows(buf, h.cursor)
  IN  h.pending \o [i \in DOMAIN fresh |->
                      [id |-> fresh[i].id, n |-> fresh[i].n, by |-> h.by]]

\* How often a tick writes its BufWriter out: each time a row does not fit.
WriteOuts(h, buf) ==
  LET rows == Len(RowsAfter(h, buf))
  IN  IF rows = 0 THEN 0 ELSE (rows - 1) \div WriteRows

\* tick, after k write-outs of WriteRows rows each and with the rows up to held in
\* the BufWriter: the cursor is past the whole batch before the first is written.
TickUpTo(h, fs, buf, k, held) ==
  [h |-> [h EXCEPT !.cursor = CursorAfter(buf, @),
                   !.pending = SubSeq(RowsAfter(h, buf), k * WriteRows + 1, held)],
   fs |-> Appended(fs, h.ino, SubSeq(RowsAfter(h, buf), 1, k * WriteRows))]

TickDone(h, fs, buf) ==
  TickUpTo(h, fs, buf, WriteOuts(h, buf), Len(RowsAfter(h, buf)))

\* The write-out after k that went well fails: `?` leaves the loop with a full
\* BufWriter, and the rest of the batch is neither in the file nor in it.
TickFailed(h, fs, buf, k) == TickUpTo(h, fs, buf, k, (k + 1) * WriteRows)

\* Mutant of FlushedFs: a flush that forgets to write.
FlushedFsLazy(h, fs) == fs

FlushedFs(h, fs) == Appended(fs, h.ino, h.pending)
Flushed(h) == [h EXCEPT !.pending = <<>>]
===============================================================================
