------------------------------- MODULE Northbound -------------------------------
(***************************************************************************)
(* The pipeline with its northbound readers: the OPC UA tasks, which       *)
(* --enable-opcua starts, and the browsers that open the console.  They    *)
(* share what they read and nothing they write.                            *)
(***************************************************************************)
EXTENDS OpcuaBridge, SseFanout

CONSTANT Readers               \* the sets of readers a daemon may have: "L1", browsers

ASSUME ReadersAssumption == \A set \in Readers : set \subseteq {"L1"} \cup Browsers

VARIABLE readers               \* those of this daemon

vars == <<sourceVars, bridgeVars, sseVars, readers>>

Init ==
  /\ SourceInit
  /\ BridgeInit
  /\ SseInit
  /\ readers \in Readers

\* One step of the pipeline, of L1 or of the console.
SourceStep == SourceNext /\ UNCHANGED <<bridgeVars, sseVars, readers>>
BridgeTask == "L1" \in readers /\ BridgeNext /\ UNCHANGED <<sourceVars, sseVars, readers>>
PublisherTask ==
  "L1" \in readers /\ PublisherNext /\ UNCHANGED <<sourceVars, sseVars, readers>>
EmitterTask == EmitterNext /\ UNCHANGED <<sourceVars, bridgeVars, readers>>
StreamTask(b) == StreamNext(b) /\ UNCHANGED <<sourceVars, bridgeVars, readers>>
BrowserStep(b) ==
  b \in readers /\ BrowserNext(b) /\ UNCHANGED <<sourceVars, bridgeVars, readers>>

Next ==
  \/ SourceStep
  \/ BridgeTask \/ PublisherTask
  \/ EmitterTask
  \/ \E b \in Browsers : StreamTask(b) \/ BrowserStep(b)

\* tokio keeps polling the tasks; operators and browsers may do nothing.
Spec ==
  /\ Init /\ [][Next]_vars
  /\ WF_vars(BridgeTask) /\ WF_vars(PublisherTask)
  /\ \A b \in Browsers : WF_vars(StreamTask(b))
===============================================================================
