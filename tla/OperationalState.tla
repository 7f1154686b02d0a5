---------------------------- MODULE OperationalState ----------------------------
(***************************************************************************)
(* svdc-console's operational state: the calibration overrides in memory   *)
(* and the TOML file every mutation saves them to.  A mutation changes the *)
(* map under its lock, releases it, and saves: it takes a snapshot, writes *)
(* it to one temporary file all savers share, and renames that file.       *)
(* Requests are concurrent; the daemon may be killed at any step.          *)
(***************************************************************************)
EXTENDS Integers, FiniteSets, Sequences

CONSTANTS
  Requests,             \* HTTP requests in flight at the same time
  Keys,                 \* ChannelKey
  Values,               \* calibrations other than the identity
  MaxEdits,             \* bound: mutations
  DiskFails             \* whether writing the temporary file may fail

ASSUME OperationalAssumption ==
  /\ MaxEdits \in Nat
  /\ DiskFails \in BOOLEAN

NoFile == 0
Inodes == 1 .. (MaxEdits + 1)
Garbage == [kind |-> "garbage"]     \* what two overlapping writes leave behind
Empty == [kind |-> "empty"]         \* a file just truncated

\* The document an override set is written as.
Document(set) == [kind |-> "document", overrides |-> set]

VARIABLES
  up,                   \* whether the daemon is running
  overrides,            \* OperationalState::calibrations
  path,                 \* the inode persistence_path names
  tmp,                  \* the inode the .toml.tmp name has
  data,                 \* what each inode contains
  request,              \* per request: pc, the body it saves, the inode it writes
  edits,                \* history: mutations made
  trouble               \* history: a save failed since the last good one

vars == <<up, overrides, path, tmp, data, request, edits, trouble>>
diskVars == <<path, tmp, data>>

Idle == [pc |-> "idle", body |-> {}, ino |-> NoFile]

Init ==
  /\ up = TRUE
  /\ overrides = {}
  /\ path = NoFile /\ tmp = NoFile
  /\ data = [i \in Inodes |-> Empty]
  /\ request = [r \in Requests |-> Idle]
  /\ edits = 0
  /\ trouble = FALSE

At(r, pc) == up /\ request[r].pc = pc
Goto(r, pc) == request' = [request EXCEPT ![r].pc = pc]

-------------------------------------------------------------------------------
Without(k) == {o \in overrides : o.key # k}

\* Mutant of With: an insert that keeps the channel's old override.
WithBoth(k, v) == overrides \cup {[key |-> k, value |-> v]}

With(k, v) == Without(k) \cup {[key |-> k, value |-> v]}

\* set_calibration, under the map's write lock.
SetKey(r, k, v) ==
  /\ At(r, "idle") /\ edits < MaxEdits
  /\ edits' = edits + 1
  /\ overrides' = With(k, v)
  /\ Goto(r, "snapshot")
  /\ UNCHANGED <<up, diskVars, trouble>>

\* Mutant of SavesAfterReset: a reset that is not saved.
SavesNever(k) == FALSE

\* auto_save runs only if there was an override to remove.
SavesAfterReset(k) == \E o \in overrides : o.key = k

\* reset_calibration.
ResetKey(r, k) ==
  /\ At(r, "idle") /\ edits < MaxEdits
  /\ edits' = edits + 1
  /\ overrides' = Without(k)
  /\ Goto(r, IF SavesAfterReset(k) THEN "snapshot" ELSE "idle")
  /\ UNCHANGED <<up, diskVars, trouble>>

-------------------------------------------------------------------------------
\* to_toml: the snapshot, under the map's read lock.
Snapshot(r) ==
  /\ At(r, "snapshot")
  /\ request' = [request EXCEPT ![r].pc = "create", ![r].body = overrides]
  /\ UNCHANGED <<up, overrides, diskVars, edits, trouble>>

FreeInode(i) == /\ i \notin {path, tmp}
                /\ \A r \in Requests : request[r].ino # i

\* Mutant of Target: the file itself is written, without a temporary one.
TargetInPlace == path

\* The inode std::fs::write opens for the temporary name (0: a new one).
Target == tmp

\* fs::write opens and truncates the temporary file.
CreateTmp(r) ==
  \E i \in Inodes :
    /\ At(r, "create")
    /\ i = Target \/ (Target = NoFile /\ FreeInode(i) /\ \A j \in Inodes : FreeInode(j) => i <= j)
    /\ tmp' = i
    /\ data' = [data EXCEPT ![i] = Empty]
    /\ request' = [request EXCEPT ![r].pc = "write", ![r].ino = i]
    /\ UNCHANGED <<up, overrides, path, edits, trouble>>

\* What a write at offset 0 leaves of a file's text: a shorter text (fewer
\* overrides) does not cover the end of a longer one.
Overwritten(old, body) ==
  IF old = Garbage \/ (old.kind = "document" /\ Cardinality(old.overrides) > Cardinality(body))
  THEN Garbage ELSE Document(body)

\* fs::write writes the text, or fails (a full disk) and leaves nothing of it.
WriteTmp(r) ==
  /\ At(r, "write")
  /\ data' = [data EXCEPT ![request[r].ino] = Overwritten(@, request[r].body)]
  /\ Goto(r, "rename")
  /\ UNCHANGED <<up, overrides, path, tmp, edits, trouble>>

WriteFails(r) ==
  /\ At(r, "write")
  /\ DiskFails
  /\ trouble' = TRUE
  /\ request' = [request EXCEPT ![r] = Idle]
  /\ UNCHANGED <<up, overrides, diskVars, edits>>

\* fs::rename; it fails if another saver renamed the temporary file before.
Rename(r) ==
  /\ At(r, "rename")
  /\ IF tmp # NoFile THEN path' = tmp /\ tmp' = NoFile /\ trouble' = FALSE
                     ELSE trouble' = TRUE /\ UNCHANGED <<path, tmp>>
  /\ request' = [request EXCEPT ![r] = Idle]
  /\ UNCHANGED <<up, overrides, data, edits>>

-------------------------------------------------------------------------------
Kill ==
  /\ up
  /\ up' = FALSE
  /\ overrides' = {}
  /\ request' = [r \in Requests |-> Idle]
  /\ UNCHANGED <<diskVars, edits, trouble>>

\* configure_persistence at start-up: an existing file that does not parse
\* makes the daemon exit.
Restart ==
  /\ ~up
  /\ path # NoFile => data[path].kind = "document"
  /\ up' = TRUE
  /\ overrides' = IF path = NoFile THEN {} ELSE data[path].overrides
  /\ trouble' = FALSE
  /\ UNCHANGED <<diskVars, request, edits>>

\* auto_save, after the change and without its lock.
Save(r) == Snapshot(r) \/ CreateTmp(r) \/ WriteTmp(r) \/ WriteFails(r) \/ Rename(r)

Next ==
  \/ \E r \in Requests :
       \/ \E k \in Keys : ResetKey(r, k) \/ \E v \in Values : SetKey(r, k, v)
       \/ Save(r)
  \/ Kill \/ Restart

Spec == Init /\ [][Next]_vars

-------------------------------------------------------------------------------
Override == [key : Keys, value : Values]
Content == {Empty, Garbage} \cup {Document(s) : s \in SUBSET Override}
Quiet == up /\ \A r \in Requests : At(r, "idle")

(* Every variable has its type; a channel has at most one override.        *)
TypeOK ==
  /\ up \in BOOLEAN /\ trouble \in BOOLEAN
  /\ overrides \subseteq Override
  /\ \A o, p \in overrides : o.key = p.key => o = p
  /\ path \in Inodes \cup {NoFile} /\ tmp \in Inodes \cup {NoFile}
  /\ data \in [Inodes -> Content]
  /\ request \in [Requests -> [pc : {"idle", "snapshot", "create", "write", "rename"},
                               body : SUBSET Override, ino : Inodes \cup {NoFile}]]
  /\ edits \in 0 .. MaxEdits

(* Saving is "atomic via tmp-rename" (operational/mod.rs:228): whenever    *)
(* the daemon dies, the file it finds is a complete document.              *)
FileIsWhole == path # NoFile => data[path].kind = "document"

(* "Every successful mutation triggers a best-effort write of the current  *)
(* state" (operational/mod.rs:75): with no request in flight and no failed *)
(* save the file holds the overrides the operator sees, and a restart      *)
(* would bring them back.                                                  *)
SavedWhenQuiet ==
  Quiet /\ ~trouble =>
    IF path = NoFile THEN overrides = {} ELSE data[path] = Document(overrides)

===============================================================================
