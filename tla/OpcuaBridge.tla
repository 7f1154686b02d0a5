------------------------------ MODULE OpcuaBridge ------------------------------
(***************************************************************************)
(* The L1 OPC UA path: svdc-bin's bridge task drains the buffer with a     *)
(* subscription of its own and overwrites the server's latest snapshot;    *)
(* svdc-opcua's publisher task copies that snapshot into the address space *)
(* at its own pace.  The samples of a tick are its number n.               *)
(***************************************************************************)
EXTENDS TickSource

VARIABLES
  bridge,               \* the bridge task: pc, its cursor, the snapshot it built
  l1,                   \* l1_opcua_last_tick_id, l1_opcua_total_publishes
  latest,               \* OpcuaServer::latest
  publisher,            \* the publisher task: pc, the snapshot it cloned
  space                 \* the tick the address space's variables were set from

bridgeVars == <<bridge, l1, latest, publisher, space>>

NoData == [id |-> 0, n |-> 0]              \* LatestTickSnapshot::default
NeverSet == [id |-> NoCursor, n |-> 0]

BridgeInit ==
  /\ bridge = [pc |-> "read", cursor |-> NoCursor, snap |-> NoData]
  /\ l1 = [last |-> 0, total |-> 0]
  /\ latest = NoData
  /\ publisher = [pc |-> "clone", snap |-> NoData]
  /\ space = NeverSet

BridgeStep(pc) ==
  /\ bridge.pc = pc
  /\ UNCHANGED <<publisher, space>>

\* read_since; the last tick of the batch becomes the snapshot.
BridgeRead ==
  /\ BridgeStep("read")
  /\ FreshRecords(buf, bridge.cursor) # {}
  /\ bridge' = [pc |-> "record", cursor |-> CursorAfter(buf, bridge.cursor),
                snap |-> LastRow(buf, bridge.cursor)]
  /\ UNCHANGED <<l1, latest>>

\* record_l1_opcua_publish: once per batch, before the server knows of it.
BridgeRecord ==
  /\ BridgeStep("record")
  /\ l1' = [last |-> bridge.snap.id, total |-> l1.total + 1]
  /\ bridge' = [bridge EXCEPT !.pc = "store"]
  /\ UNCHANGED latest

BridgeStore ==
  /\ BridgeStep("store")
  /\ latest' = bridge.snap
  /\ bridge' = [bridge EXCEPT !.pc = "read"]
  /\ UNCHANGED l1

\* Mutant of HasData: the first tick's id is 0, too.
HasDataById(snap) == snap.id # 0

HasData(snap) == ~(snap.id = 0 /\ snap.n = 0)

\* The interval fires: the snapshot is cloned under its lock ...
Clone ==
  /\ publisher.pc = "clone"
  /\ HasData(latest)
  /\ publisher' = [pc |-> "set", snap |-> latest]
  /\ UNCHANGED <<bridge, l1, latest, space>>

\* ... and set_values puts its updates into the address space.
SetValues ==
  /\ publisher.pc = "set"
  /\ space' = publisher.snap
  /\ publisher' = [pc |-> "clone", snap |-> NoData]
  /\ UNCHANGED <<bridge, l1, latest>>

BridgeNext == BridgeRead \/ BridgeRecord \/ BridgeStore
PublisherNext == Clone \/ SetValues

-------------------------------------------------------------------------------
(* A client that reads the address space never sees a tick, or samples,    *)
(* older than those it saw before, whatever the operator restarts, tampers *)
(* with or resets (server.rs spawn_publisher, main.rs bridge task).        *)
PublishedForward ==
  [][space'.id >= space.id /\ space'.n >= space.n]_space

(* Every tick the bridge takes reaches the address space, or a newer one   *)
(* does: the first, whose id is 0, included (server.rs "No data yet").     *)
ReadIsPublished ==
  \A id \in 0 .. (MaxPushes - 1) : bridge.cursor = id ~> space.id >= id
===============================================================================
