-------------------------- MODULE ConsoleConfigProofs --------------------------
(***************************************************************************)
(* What the console's routes keep true, for every set of requests, SCD     *)
(* files, forms and calibrations. No request adds a second unit with an id *)
(* whatever overlaps: a registration carries a list that was in order when *)
(* it was read, and replaces the registry as a whole. And as long as       *)
(* calibration requests do not overlap, a kill finds a whole file, the     *)
(* file holds what the operator sees, and the audit log tells it unless a  *)
(* kill found a record that was not in its file.                           *)
(***************************************************************************)
EXTENDS ConsoleConfig, FiniteSetTheorems, TLAPS

Distinct(units) ==
  \A m, n \in units :
    m.id = n.id => m = n \/ \E doc \in Documents : {m, n} \subseteq UnitsOf(doc)

\* What is on its way to the registry is distinct, too.
Inv ==
  /\ route = [r \in Requests |-> route[r]]
  /\ Distinct(registry)
  /\ \A r \in Requests : route[r].pc = "register" => Distinct(route[r].arg)

(* A document's units are in order: who shares an id does in the document. *)
LEMMA DocumentIsDistinct ==
  ASSUME NEW doc \in Documents PROVE Distinct(UnitsOf(doc))
<1>1. \A m, n \in UnitsOf(doc) : {m, n} \subseteq UnitsOf(doc)
  OBVIOUS
<1> QED BY <1>1 DEF Distinct

(* api_register_mu's conflict check is enough to extend a snapshot.        *)
LEMMA ExtensionIsDistinct ==
  ASSUME NEW snap, NEW mu, Distinct(snap), ~Conflicts(snap, mu)
  PROVE Distinct(WithUnit(snap, mu))
<1> SUFFICES ASSUME NEW m \in WithUnit(snap, mu), NEW n \in WithUnit(snap, mu), m.id = n.id
             PROVE  m = n \/ \E doc \in Documents : {m, n} \subseteq UnitsOf(doc)
  BY DEF Distinct
<1>1. CASE m \in snap /\ n \in snap
  BY <1>1 DEF Distinct
<1>2. CASE m \notin snap \/ n \notin snap
  BY <1>2 DEF Conflicts, WithUnit
<1> QED BY <1>1, <1>2

(* A handler's step moves only its own request.                            *)
LEMMA HandleMovesOne ==
  ASSUME NEW r \in Requests, NEW from, NEW to, NEW on, NEW arg,
         Inv, Handle(r, from, to, on, arg)
  PROVE /\ route' = [q \in Requests |-> route'[q]]
        /\ route[r].pc = from
        /\ route'[r] = [pc |-> to, on |-> on, arg |-> arg]
        /\ \A q \in Requests \ {r} : route'[q] = route[q]
BY DEF Handle, RouteAt, Inv

(* ... so unless it reads the registry to extend it, what is carried stays *)
(* distinct.                                                               *)
LEMMA HandleKeepsCarried ==
  ASSUME NEW r \in Requests, NEW from, NEW to, NEW on, NEW arg,
         Inv, Handle(r, from, to, on, arg), to # "register"
  PROVE /\ route' = [q \in Requests |-> route'[q]]
        /\ \A q \in Requests : route'[q].pc = "register" => Distinct(route'[q].arg)
<1>1. /\ route' = [q \in Requests |-> route'[q]]
      /\ route'[r] = [pc |-> to, on |-> on, arg |-> arg]
      /\ \A q \in Requests \ {r} : route'[q] = route[q]
  BY HandleMovesOne
<1>2. \A q \in Requests : route[q].pc = "register" => Distinct(route[q].arg)
  BY DEF Inv
<1>3. route'[r].pc # "register"
  BY <1>1
<1> QED BY <1>1, <1>2, <1>3

(* audit::record moves only its own request, from the ring to the file ... *)
LEMMA AuditMovesOne ==
  ASSUME NEW r \in Requests, Inv, Audit(r)
  PROVE /\ route' = [q \in Requests |-> route'[q]]
        /\ route[r].pc = "audit"
        /\ route'[r] = [pc |-> "append", on |-> route[r].on, arg |-> route[r].arg]
        /\ route'[r].pc = "append" /\ route'[r].on = route[r].on
        /\ \A q \in Requests \ {r} : route'[q] = route[q]
BY DEF Audit, RouteAt, Inv

(* ... and out of the handler.                                             *)
LEMMA AppendMovesOne ==
  ASSUME NEW r \in Requests, Inv, AppendLine(r)
  PROVE /\ route' = [q \in Requests |-> route'[q]]
        /\ route[r].pc = "append"
        /\ route'[r] = Between
        /\ \A q \in Requests \ {r} : route'[q] = route[q]
BY DEF AppendLine, RouteAt, Inv

LEMMA InitInv == ConsoleInit => Inv
BY DEF ConsoleInit, Inv, Between, Distinct

LEMMA StepInv == Inv /\ [ConsoleNext]_consoleVars => Inv'
<1> SUFFICES ASSUME Inv, [ConsoleNext]_consoleVars PROVE Inv'
  OBVIOUS
<1> DEFINE Carried == /\ route' = [q \in Requests |-> route'[q]]
                      /\ \A q \in Requests :
                           route'[q].pc = "register" => Distinct(route'[q].arg)
<1>0. Carried /\ Distinct(registry') => Inv'
  BY DEF Inv, Distinct
<1>1. CASE UNCHANGED consoleVars
  BY <1>1 DEF Inv, Distinct, consoleVars
<1>2. ASSUME NEW r \in Requests, LoadDocument(r) PROVE Inv'
  <2>1. PICK doc \in Documents :
          /\ registry' = UnitsOf(doc)
          /\ Handle(r, "idle", "audit", "registry",
                    [told |-> "loaded", units |-> Cardinality(UnitsOf(doc))])
    BY <1>2 DEF LoadDocument
  <2>2. Carried
    BY <2>1, HandleKeepsCarried
  <2>3. Distinct(registry')
    BY <2>1, DocumentIsDistinct
  <2> QED BY <1>0, <2>2, <2>3
<1>3. ASSUME NEW r \in Requests, ClearCount(r) PROVE Inv'
  <2>1. Carried
    BY <1>3, HandleKeepsCarried DEF ClearCount
  <2> QED BY <1>0, <1>3, <2>1 DEF ClearCount, Inv
<1>4. ASSUME NEW r \in Requests, ClearReplace(r) PROVE Inv'
  <2>1. Carried
    BY <1>4, HandleKeepsCarried DEF ClearReplace
  <2>2. Distinct(registry')
    BY <1>4 DEF ClearReplace, Distinct
  <2> QED BY <1>0, <2>1, <2>2
<1>5. ASSUME NEW r \in Requests, RegisterRead(r) PROVE Inv'
  <2>1. PICK form \in Forms :
          /\ ~Conflicts(registry, Built(form))
          /\ Handle(r, "idle", "register", "registry", WithUnit(registry, Built(form)))
    BY <1>5 DEF RegisterRead
  <2>2. Distinct(WithUnit(registry, Built(form)))
    BY <2>1, ExtensionIsDistinct DEF Inv
  <2>3. /\ route' = [q \in Requests |-> route'[q]]
        /\ route'[r] = [pc |-> "register", on |-> "registry",
                        arg |-> WithUnit(registry, Built(form))]
        /\ \A q \in Requests \ {r} : route'[q] = route[q]
    <3>1. Handle(r, "idle", "register", "registry", WithUnit(registry, Built(form)))
      BY <2>1
    <3> QED BY <3>1, HandleMovesOne
  <2>4. \A q \in Requests : route[q].pc = "register" => Distinct(route[q].arg)
    BY DEF Inv
  <2>5. Carried
    BY <2>2, <2>3, <2>4
  <2> QED BY <1>0, <1>5, <2>5 DEF RegisterRead, Inv
<1>6. ASSUME NEW r \in Requests, RegisterReplace(r) PROVE Inv'
  <2>1. Handle(r, "register", "audit", "registry", [told |-> "registered"])
    BY <1>6 DEF RegisterReplace
  <2>2. Carried
    BY <2>1, HandleKeepsCarried
  <2>3. Distinct(registry')
    BY <1>6, <2>1, HandleMovesOne DEF RegisterReplace, Inv
  <2> QED BY <1>0, <2>2, <2>3
<1>7. ASSUME NEW r \in Requests, SetCheck(r) PROVE Inv'
  <2>1. PICK k \in Keys : Handle(r, "idle", "set", "overrides", k)
    BY <1>7 DEF SetCheck
  <2>2. Carried
    BY <2>1, HandleKeepsCarried
  <2> QED BY <1>0, <1>7, <2>2 DEF SetCheck, Inv
<1>8. ASSUME NEW r \in Requests, SetRoute(r) PROVE Inv'
  <2>1. PICK v \in Values :
          Handle(r, "set", "audit", "overrides",
                 [told |-> "set", override |-> [key |-> route[r].arg, value |-> v]])
    BY <1>8 DEF SetRoute
  <2>2. Carried
    BY <2>1, HandleKeepsCarried
  <2> QED BY <1>0, <1>8, <2>2 DEF SetRoute, Inv
<1>9. ASSUME NEW r \in Requests, ResetRoute(r) PROVE Inv'
  <2>1. PICK k \in Keys :
          Handle(r, "idle", "audit", "overrides", [told |-> "reset", key |-> k])
    BY <1>9 DEF ResetRoute
  <2>2. Carried
    BY <2>1, HandleKeepsCarried
  <2> QED BY <1>0, <1>9, <2>2 DEF ResetRoute, Inv
<1>10. ASSUME NEW r \in Requests, SaveRoute(r) PROVE Inv'
  BY <1>10 DEF SaveRoute, Inv, Distinct
<1>11. ASSUME NEW r \in Requests, Audit(r) PROVE Inv'
  <2>1. Carried
    BY <1>11, AuditMovesOne DEF Inv
  <2> QED BY <1>0, <1>11, <2>1 DEF Audit, Inv
<1>12. CASE ConsoleKill
  BY <1>12 DEF ConsoleKill, Inv, Between, Distinct
<1>13. CASE ConsoleRestart
  BY <1>13 DEF ConsoleRestart, Inv, Distinct
<1>14. ASSUME NEW r \in Requests, AppendLine(r) PROVE Inv'
  <2>1. Carried
    BY <1>14, AppendMovesOne DEF Inv, Between
  <2> QED BY <1>0, <1>14, <2>1 DEF AppendLine, Inv
<1> QED
  BY <1>1, <1>2, <1>3, <1>4, <1>5, <1>6, <1>7, <1>8, <1>9, <1>10, <1>11, <1>12, <1>13, <1>14
     DEF ConsoleNext, Route

(* Whatever requests overlap and whatever the documents hold, two          *)
(* registered units share an id only as one document had them.             *)
THEOREM IdsStayDistinct == ConsoleSpec => []DistinctIds
<1>1. Inv => DistinctIds
  BY DEF Inv, Distinct, DistinctIds
<1> QED BY <1>1, InitInv, StepInv, PTL DEF ConsoleSpec
-------------------------------------------------------------------------------
\* The sets of overrides there can be, what a file can hold, and a save's record.
Sets == {s \in SUBSET Override : \A o, p \in s : o.key = p.key => o = p}
Files == {Empty, Garbage} \cup {Document(s) : s \in Sets}
Saving == [pc : {"idle", "snapshot", "create", "write", "rename"}, body : Sets,
           ino : Inodes \cup {NoFile}]

\* TypeOK, which a restart keeps only if every document on the disk, and every body on
\* its way there, has at most one override for a channel.
OperationalType ==
  /\ up \in BOOLEAN /\ trouble \in BOOLEAN
  /\ overrides \in Sets
  /\ path \in Inodes \cup {NoFile} /\ tmp \in Inodes \cup {NoFile}
  /\ data \in [Inodes -> Files]
  /\ request \in [Requests -> Saving]
  /\ edits \in 0 .. MaxEdits

LEMMA SetsWithout ==
  ASSUME NEW k, overrides \in Sets PROVE Without(k) \in Sets
BY DEF Without, Sets

LEMMA SetsWith ==
  ASSUME NEW k \in Keys, NEW v \in Values, overrides \in Sets PROVE With(k, v) \in Sets
<1>1. [key |-> k, value |-> v] \in Override
  BY DEF Override
<1>2. \A o \in Without(k) : o \in Override /\ o.key # k
  BY DEF Without, Sets
<1>3. With(k, v) \subseteq Override
  BY <1>1, <1>2 DEF With
<1>4. \A o, p \in With(k, v) : o.key = p.key => o = p
  BY <1>2, SetsWithout DEF With, Sets
<1> QED BY <1>3, <1>4 DEF Sets

LEMMA SetKeyKeepsType ==
  ASSUME OperationalType, NEW r \in Requests, NEW k \in Keys, NEW v \in Values, SetKey(r, k, v)
  PROVE  OperationalType'
<1>1. overrides' \in Sets
  BY SetsWith DEF SetKey, OperationalType
<1>2. request' \in [Requests -> Saving]
  BY DEF SetKey, Goto, OperationalType, Saving
<1>3. edits' \in 0 .. MaxEdits
  BY OperationalAssumption DEF SetKey, OperationalType
<1> QED BY <1>1, <1>2, <1>3 DEF SetKey, OperationalType, diskVars

LEMMA ResetKeyKeepsType ==
  ASSUME OperationalType, NEW r \in Requests, NEW k \in Keys, ResetKey(r, k)
  PROVE  OperationalType'
<1>1. overrides' \in Sets
  BY SetsWithout DEF ResetKey, OperationalType
<1>2. request' \in [Requests -> Saving]
  BY DEF ResetKey, Goto, OperationalType, Saving
<1>3. edits' \in 0 .. MaxEdits
  BY OperationalAssumption DEF ResetKey, OperationalType
<1> QED BY <1>1, <1>2, <1>3 DEF ResetKey, OperationalType, diskVars

LEMMA SaveKeepsType ==
  ASSUME OperationalType, NEW r \in Requests, Save(r)
  PROVE  OperationalType'
<1> USE DEF OperationalType
<1>1. request[r] \in Saving /\ Idle \in Saving
  BY DEF Saving, Idle, Sets, NoFile
<1>2. CASE Snapshot(r)
  <2>1. request' \in [Requests -> Saving]
    BY <1>2 DEF Snapshot, Saving
  <2> QED BY <1>2, <2>1 DEF Snapshot, diskVars
<1>3. CASE CreateTmp(r)
  <2>1. PICK i \in Inodes :
          /\ tmp' = i /\ data' = [data EXCEPT ![i] = Empty]
          /\ request' = [request EXCEPT ![r].pc = "write", ![r].ino = i]
          /\ UNCHANGED <<up, overrides, path, edits, trouble>>
    BY <1>3 DEF CreateTmp
  <2>2. request' \in [Requests -> Saving]
    BY <2>1 DEF Saving
  <2>3. data' \in [Inodes -> Files]
    BY <2>1 DEF Files
  <2> QED BY <2>1, <2>2, <2>3
<1>4. CASE WriteTmp(r)
  <2>1. request[r].body \in Sets
    BY <1>1 DEF Saving
  <2>2. \A old : Overwritten(old, request[r].body) \in Files
    BY <2>1 DEF Overwritten, Files
  <2>3. data' \in [Inodes -> Files]
    BY <1>4, <2>2 DEF WriteTmp
  <2>4. request' \in [Requests -> Saving]
    BY <1>4 DEF WriteTmp, Goto, Saving
  <2> QED BY <1>4, <2>3, <2>4 DEF WriteTmp
<1>5. CASE WriteFails(r)
  BY <1>1, <1>5 DEF WriteFails, diskVars
<1>6. CASE Rename(r)
  <2>1. request' \in [Requests -> Saving] /\ UNCHANGED <<up, overrides, data, edits>>
    BY <1>1, <1>6 DEF Rename
  <2>2. /\ path' \in Inodes \cup {NoFile} /\ tmp' \in Inodes \cup {NoFile}
        /\ trouble' \in BOOLEAN
    BY <1>6 DEF Rename
  <2> QED BY <2>1, <2>2
<1> QED BY <1>2, <1>3, <1>4, <1>5, <1>6 DEF Save

LEMMA KillKeepsType == OperationalType /\ Kill => OperationalType'
<1>1. {} \in Sets /\ Idle \in Saving
  BY DEF Saving, Idle, Sets, NoFile
<1> QED BY <1>1 DEF Kill, OperationalType, diskVars

LEMMA RestartKeepsType == OperationalType /\ Restart => OperationalType'
<1> SUFFICES ASSUME OperationalType, Restart PROVE OperationalType'
  OBVIOUS
<1>1. overrides' \in Sets
  <2>1. CASE path = NoFile
    BY <2>1 DEF Restart, Sets
  <2>2. CASE path # NoFile
    <3>1. data[path] \in Files /\ data[path].kind = "document"
      BY <2>2 DEF Restart, OperationalType
    <3>2. PICK s \in Sets : data[path] = Document(s)
      BY <3>1 DEF Files, Empty, Garbage
    <3>3. data[path].overrides = s
      BY <3>2 DEF Document
    <3> QED BY <2>2, <3>3 DEF Restart
  <2> QED BY <2>1, <2>2
<1> QED BY <1>1 DEF Restart, OperationalType, diskVars

-------------------------------------------------------------------------------
\* What a handler carries between its steps.
EventOf(on, e) ==
  \/ on = "registry" /\ \/ e.told = "loaded" /\ e.units \in Nat
                        \/ e.told = "cleared" /\ e.removed \in Nat
                        \/ e.told = "registered"
  \/ on = "overrides" /\ \/ e.told = "set" /\ e.override \in Override
                         \/ e.told = "reset"

Tellable(e) ==
  \/ EventOf("registry", e) \/ EventOf("overrides", e)
  \/ e.told \notin {"loaded", "cleared", "registered", "set", "reset"}

Local(x) ==
  \/ x.pc = "idle" /\ x.on = "none"
  \/ x.pc \in {"audit", "append"} /\ x.on \in {"registry", "overrides"} /\ EventOf(x.on, x.arg)
  \/ x.pc = "clear" /\ x.on = "registry" /\ x.arg.removed \in Nat
  \/ x.pc = "register" /\ x.on = "registry" /\ x.arg \subseteq Units /\ IsFiniteSet(x.arg)
  \/ x.pc = "set" /\ x.on = "overrides" /\ x.arg \in Keys

LogType ==
  /\ log = [overrides |-> log.overrides, stuck |-> log.stuck, dropped |-> log.dropped]
  /\ log.overrides \subseteq Override /\ Tellable(log.stuck) /\ log.dropped \in BOOLEAN

ConsoleType ==
  /\ OperationalType
  /\ registry \subseteq Units /\ IsFiniteSet(registry)
  /\ \A r \in Requests : Local(route[r])
  /\ configs \in 0 .. MaxConfigs
  /\ audited \in [overrides : SUBSET Override, units : Int]
  /\ LogType
  /\ clash \subseteq Parts

(* What is told of overrides are overrides, and of units a number.         *)
LEMMA ToldType ==
  ASSUME NEW e, Tellable(e), NEW set \in SUBSET Override, NEW n \in Int
  PROVE  OverridesTold(set, e) \in SUBSET Override /\ UnitsTold(n, e) \in Int
<1>1. CASE e.told = "set"
  BY <1>1 DEF Tellable, EventOf, OverridesTold, UnitsTold
<1>2. CASE e.told = "reset"
  BY <1>2 DEF OverridesTold, UnitsTold
<1>3. CASE e.told = "loaded"
  BY <1>3 DEF Tellable, EventOf, OverridesTold, UnitsTold
<1>4. CASE e.told = "cleared"
  BY <1>4 DEF Tellable, EventOf, OverridesTold, UnitsTold
<1>5. CASE e.told \notin {"set", "reset", "loaded", "cleared"}
  BY <1>5 DEF OverridesTold, UnitsTold
<1> QED BY <1>1, <1>2, <1>3, <1>4, <1>5

(* The three ways an append can end keep the log's type.                   *)
LEMMA AppendKeepsLog ==
  ASSUME NEW r \in Requests, LogType, Tellable(route[r].arg), AppendLine(r)
  PROVE  LogType'
<1> DEFINE e == route[r].arg
           out == OverridesTold(log.overrides, log.stuck)
<1>1. out \in SUBSET Override /\ OverridesTold(out, e) \in SUBSET Override
  BY ToldType DEF LogType
<1>2. Tellable(Nothing)
  BY DEF Nothing, Tellable
<1>3. \/ log' = [log EXCEPT !.overrides = OverridesTold(out, e), !.stuck = Nothing]
      \/ log' = [log EXCEPT !.overrides = out, !.stuck = e]
      \/ log' = [log EXCEPT !.dropped = @ \/ OnOverrides(e)]
  BY DEF AppendLine
<1>4. OnOverrides(e) \in BOOLEAN
  BY DEF OnOverrides
<1> HIDE DEF e, out
<1>5. CASE log' = [log EXCEPT !.overrides = OverridesTold(out, e), !.stuck = Nothing]
  BY <1>1, <1>2, <1>5 DEF LogType
<1>6. CASE log' = [log EXCEPT !.overrides = out, !.stuck = e]
  BY <1>1, <1>6 DEF LogType, e
<1>7. CASE log' = [log EXCEPT !.dropped = @ \/ OnOverrides(e)]
  BY <1>4, <1>7 DEF LogType
<1> QED BY <1>3, <1>5, <1>6, <1>7

(* The units of a document are finitely many.                              *)
LEMMA UnitsAreFinite ==
  ASSUME NEW doc \in Documents
  PROVE  IsFiniteSet(UnitsOf(doc)) /\ UnitsOf(doc) \subseteq Units
<1> DEFINE from == {j \in doc.ieds : j.publishes}
           f == [i \in from |-> [id |-> i.id, channels |-> i.channels]]
<1>1. IsFiniteSet(from)
  <2>1. IsFiniteSet(doc.ieds)
    BY ConsoleAssumption
  <2> QED BY <2>1, FS_Subset
<1>2. UnitsOf(doc) = {f[i] : i \in from}
  BY DEF UnitsOf
<1>3. f \in Surjection(from, UnitsOf(doc))
  <2>1. f \in [from -> UnitsOf(doc)]
    BY DEF UnitsOf
  <2> HIDE DEF f, from
  <2> QED BY <1>2, <2>1 DEF Surjection
<1>4. IsFiniteSet(UnitsOf(doc))
  <2> HIDE DEF f, from
  <2> QED BY <1>1, <1>3, FS_Surjection
<1> QED BY <1>4 DEF Units

(* A handler's step tells who else is on its part.                         *)
LEMMA HandleTells ==
  ASSUME NEW r \in Requests, NEW from, NEW to, NEW on \in Parts, NEW arg,
         clash \subseteq Parts, Handle(r, from, to, on, arg)
  PROVE  /\ up
         /\ clash \subseteq clash' /\ clash' \subseteq clash \cup {on} /\ clash' \subseteq Parts
         /\ on \notin clash' => \A q \in Requests \ {r} : route[q].on # on
BY DEF Handle, RouteAt

(* What one handler's step leaves of the local parts.                      *)
LEMMA HandleKeepsLocal ==
  ASSUME NEW r \in Requests, NEW from, NEW to, NEW on, NEW arg,
         Inv, \A q \in Requests : Local(route[q]), Handle(r, from, to, on, arg),
         Local([pc |-> to, on |-> on, arg |-> arg])
  PROVE  \A q \in Requests : Local(route'[q])
<1>1. /\ route'[r] = [pc |-> to, on |-> on, arg |-> arg]
      /\ \A q \in Requests \ {r} : route'[q] = route[q]
  BY HandleMovesOne
<1> QED BY <1>1

LEMMA InitType == ConsoleInit => ConsoleType
<1> SUFFICES ASSUME ConsoleInit PROVE ConsoleType
  OBVIOUS
<1>1. OperationalType
  <2>1. {} \in Sets /\ Idle \in Saving
    BY DEF Saving, Idle, Sets, NoFile
  <2>2. 0 \in 0 .. MaxEdits
    BY OperationalAssumption
  <2>3. data \in [Inodes -> Files] /\ request \in [Requests -> Saving]
    BY <2>1 DEF ConsoleInit, Init, Files
  <2> QED BY <2>1, <2>2, <2>3 DEF ConsoleInit, Init, OperationalType
<1>2. IsFiniteSet({})
  BY FS_EmptySet
<1>3. \A r \in Requests : Local(route[r])
  BY DEF ConsoleInit, Between, Local
<1>4. LogType
  BY DEF ConsoleInit, LogType, Nothing, Tellable
<1> QED BY <1>1, <1>2, <1>3, <1>4, ConsoleAssumption DEF ConsoleInit, ConsoleType

LEMMA TypeStep == Inv /\ ConsoleType /\ [ConsoleNext]_consoleVars => ConsoleType'
<1> SUFFICES ASSUME Inv, ConsoleType, [ConsoleNext]_consoleVars PROVE ConsoleType'
  OBVIOUS
<1> DEFINE Locals == \A q \in Requests : Local(route'[q])
<1>0. /\ OperationalType /\ registry \subseteq Units /\ IsFiniteSet(registry)
      /\ \A r \in Requests : Local(route[r])
      /\ configs \in 0 .. MaxConfigs /\ MaxConfigs \in Nat
      /\ audited \in [overrides : SUBSET Override, units : Int]
      /\ LogType /\ clash \subseteq Parts
  BY ConsoleAssumption DEF ConsoleType
<1>1. UNCHANGED vars => OperationalType'
  BY <1>0 DEF vars, diskVars, OperationalType
<1>2. Configure => configs' \in 0 .. MaxConfigs
  BY <1>0 DEF Configure
<1>3. "registry" \in Parts /\ "overrides" \in Parts
  BY DEF Parts
<1>17. log' = log => LogType'
  BY <1>0 DEF LogType
<1>4. CASE UNCHANGED consoleVars
  BY <1>0, <1>1, <1>4, <1>17 DEF consoleVars, ConsoleType
<1>5. ASSUME NEW r \in Requests, LoadDocument(r) PROVE ConsoleType'
  <2>1. PICK doc \in Documents :
          /\ Configure /\ registry' = UnitsOf(doc)
          /\ Handle(r, "idle", "audit", "registry",
                    [told |-> "loaded", units |-> Cardinality(UnitsOf(doc))])
          /\ UNCHANGED <<vars, audited, log>>
    BY <1>5 DEF LoadDocument
  <2>2. registry' \subseteq Units /\ IsFiniteSet(registry')
    BY <2>1, UnitsAreFinite
  <2>3. Cardinality(UnitsOf(doc)) \in Nat
    BY UnitsAreFinite, FS_CardinalityType
  <2>4. Local([pc |-> "audit", on |-> "registry",
               arg |-> [told |-> "loaded", units |-> Cardinality(UnitsOf(doc))]])
    BY <2>3 DEF Local, EventOf
  <2>5. Locals
    BY <1>0, <2>1, <2>4, HandleKeepsLocal
  <2> QED BY <1>0, <1>1, <1>2, <1>3, <2>1, <2>2, <2>5, <1>17, HandleTells DEF ConsoleType
<1>6. ASSUME NEW r \in Requests, ClearCount(r) PROVE ConsoleType'
  <2>1. /\ Configure
        /\ Handle(r, "idle", "clear", "registry", [removed |-> Cardinality(registry)])
        /\ UNCHANGED <<vars, registry, audited, log>>
    BY <1>6 DEF ClearCount
  <2>2. Cardinality(registry) \in Nat
    BY <1>0, FS_CardinalityType
  <2>3. Local([pc |-> "clear", on |-> "registry", arg |-> [removed |-> Cardinality(registry)]])
    BY <2>2 DEF Local
  <2>4. Locals
    BY <1>0, <2>1, <2>3, HandleKeepsLocal
  <2> QED BY <1>0, <1>1, <1>2, <1>3, <2>1, <2>4, <1>17, HandleTells DEF ConsoleType
<1>7. ASSUME NEW r \in Requests, ClearReplace(r) PROVE ConsoleType'
  <2>1. /\ route[r].pc = "clear" /\ registry' = {}
        /\ Handle(r, "clear", "audit", "registry",
                  [told |-> "cleared", removed |-> route[r].arg.removed])
        /\ UNCHANGED <<vars, configs, audited, log>>
    BY <1>7 DEF ClearReplace, RouteAt
  <2>2. route[r].arg.removed \in Nat
    BY <1>0, <2>1 DEF Local
  <2>3. Local([pc |-> "audit", on |-> "registry",
               arg |-> [told |-> "cleared", removed |-> route[r].arg.removed]])
    BY <2>2 DEF Local, EventOf
  <2>4. Locals
    BY <1>0, <2>1, <2>3, HandleKeepsLocal
  <2>5. registry' \subseteq Units /\ IsFiniteSet(registry')
    BY <2>1, FS_EmptySet
  <2> QED BY <1>0, <1>1, <1>3, <2>1, <2>4, <2>5, <1>17, HandleTells DEF ConsoleType
<1>8. ASSUME NEW r \in Requests, RegisterRead(r) PROVE ConsoleType'
  <2>1. PICK form \in Forms :
          /\ Configure
          /\ Handle(r, "idle", "register", "registry", WithUnit(registry, Built(form)))
          /\ UNCHANGED <<vars, registry, audited, log>>
    BY <1>8 DEF RegisterRead
  <2>2. /\ WithUnit(registry, Built(form)) \subseteq Units
        /\ IsFiniteSet(WithUnit(registry, Built(form)))
    <3>1. Built(form) \in Units
      BY DEF Units
    <3>2. IsFiniteSet(registry \cup {Built(form)})
      BY <1>0, FS_AddElement
    <3> QED BY <1>0, <3>1, <3>2 DEF WithUnit
  <2>3. Local([pc |-> "register", on |-> "registry", arg |-> WithUnit(registry, Built(form))])
    BY <2>2 DEF Local
  <2>4. Locals
    BY <1>0, <2>1, <2>3, HandleKeepsLocal
  <2> QED BY <1>0, <1>1, <1>2, <1>3, <2>1, <2>4, <1>17, HandleTells DEF ConsoleType
<1>9. ASSUME NEW r \in Requests, RegisterReplace(r) PROVE ConsoleType'
  <2>1. /\ route[r].pc = "register" /\ registry' = route[r].arg
        /\ Handle(r, "register", "audit", "registry", [told |-> "registered"])
        /\ UNCHANGED <<vars, configs, audited, log>>
    BY <1>9 DEF RegisterReplace, Handle, RouteAt
  <2>2. registry' \subseteq Units /\ IsFiniteSet(registry')
    BY <1>0, <2>1 DEF Local
  <2>3. Local([pc |-> "audit", on |-> "registry", arg |-> [told |-> "registered"]])
    BY DEF Local, EventOf
  <2>4. Locals
    BY <1>0, <2>1, <2>3, HandleKeepsLocal
  <2> QED BY <1>0, <1>1, <1>3, <2>1, <2>2, <2>4, <1>17, HandleTells DEF ConsoleType
<1>10. ASSUME NEW r \in Requests, SetCheck(r) PROVE ConsoleType'
  <2>1. PICK k \in Keys : /\ Handle(r, "idle", "set", "overrides", k)
                          /\ UNCHANGED <<vars, registry, configs, audited, log>>
    BY <1>10 DEF SetCheck
  <2>2. Local([pc |-> "set", on |-> "overrides", arg |-> k])
    BY DEF Local
  <2>3. Locals
    BY <1>0, <2>1, <2>2, HandleKeepsLocal
  <2> QED BY <1>0, <1>1, <1>3, <2>1, <2>3, <1>17, HandleTells DEF ConsoleType
<1>11. ASSUME NEW r \in Requests, SetRoute(r) PROVE ConsoleType'
  <2>1. PICK v \in Values :
          /\ Handle(r, "set", "audit", "overrides",
                    [told |-> "set", override |-> [key |-> route[r].arg, value |-> v]])
          /\ SetKey(r, route[r].arg, v)
          /\ UNCHANGED <<registry, configs, audited, log>>
    BY <1>11 DEF SetRoute
  <2>2. route[r].pc = "set"
    BY <2>1 DEF Handle, RouteAt
  <2>3. route[r].arg \in Keys
    BY <1>0, <2>2 DEF Local
  <2>4. Local([pc |-> "audit", on |-> "overrides",
               arg |-> [told |-> "set", override |-> [key |-> route[r].arg, value |-> v]]])
    BY <2>3 DEF Local, EventOf, Override
  <2>5. Locals
    BY <1>0, <2>1, <2>4, HandleKeepsLocal
  <2>6. OperationalType'
    BY <1>0, <2>1, <2>3, SetKeyKeepsType
  <2> QED BY <1>0, <1>3, <2>1, <2>5, <2>6, <1>17, HandleTells DEF ConsoleType
<1>12. ASSUME NEW r \in Requests, ResetRoute(r) PROVE ConsoleType'
  <2>1. PICK k \in Keys :
          /\ Handle(r, "idle", "audit", "overrides", [told |-> "reset", key |-> k])
          /\ ResetKey(r, k)
          /\ UNCHANGED <<registry, configs, audited, log>>
    BY <1>12 DEF ResetRoute
  <2>2. Local([pc |-> "audit", on |-> "overrides", arg |-> [told |-> "reset", key |-> k]])
    BY DEF Local, EventOf
  <2>3. Locals
    BY <1>0, <2>1, <2>2, HandleKeepsLocal
  <2>4. OperationalType'
    BY <1>0, <2>1, ResetKeyKeepsType
  <2> QED BY <1>0, <1>3, <2>1, <2>3, <2>4, <1>17, HandleTells DEF ConsoleType
<1>13. ASSUME NEW r \in Requests, SaveRoute(r) PROVE ConsoleType'
  <2>1. OperationalType'
    BY <1>0, <1>13, SaveKeepsType DEF SaveRoute
  <2> QED BY <1>0, <1>13, <1>17, <2>1 DEF SaveRoute, ConsoleType
<1>14. ASSUME NEW r \in Requests, Audit(r) PROVE ConsoleType'
  <2>1. /\ audited' = [overrides |-> OverridesTold(audited.overrides, route[r].arg),
                       units |-> UnitsTold(audited.units, route[r].arg)]
        /\ UNCHANGED <<vars, registry, configs, log, clash>>
    BY <1>14 DEF Audit
  <2>2. /\ route[r].pc = "audit"
        /\ route'[r] = [pc |-> "append", on |-> route[r].on, arg |-> route[r].arg]
        /\ \A q \in Requests \ {r} : route'[q] = route[q]
    BY <1>14, AuditMovesOne
  <2>3. route[r].on \in {"registry", "overrides"} /\ EventOf(route[r].on, route[r].arg)
    BY <1>0, <2>2 DEF Local
  <2>4. audited' \in [overrides : SUBSET Override, units : Int]
    <3>1. Tellable(route[r].arg)
      BY <2>3 DEF Tellable
    <3>2. audited.overrides \in SUBSET Override /\ audited.units \in Int
      BY <1>0
    <3>3. /\ OverridesTold(audited.overrides, route[r].arg) \in SUBSET Override
          /\ UnitsTold(audited.units, route[r].arg) \in Int
      BY <3>1, <3>2, ToldType
    <3> QED BY <2>1, <3>3
  <2>5. Local(route'[r])
    BY <2>2, <2>3 DEF Local
  <2>6. Locals
    BY <1>0, <2>2, <2>5
  <2> QED BY <1>0, <1>1, <1>17, <2>1, <2>4, <2>6 DEF ConsoleType
<1>18. ASSUME NEW r \in Requests, AppendLine(r) PROVE ConsoleType'
  <2>1. UNCHANGED <<vars, registry, configs, audited, clash>>
    BY <1>18 DEF AppendLine
  <2>2. /\ route[r].pc = "append" /\ route'[r] = Between
        /\ \A q \in Requests \ {r} : route'[q] = route[q]
    BY <1>18, AppendMovesOne
  <2>3. route[r].on \in {"registry", "overrides"} /\ EventOf(route[r].on, route[r].arg)
    BY <1>0, <2>2 DEF Local
  <2>4. Tellable(route[r].arg)
    BY <2>3 DEF Tellable
  <2>5. LogType'
    BY <1>0, <1>18, <2>4, AppendKeepsLog
  <2>6. Local(Between)
    BY DEF Between, Local
  <2>7. Locals
    BY <1>0, <2>2, <2>6
  <2> QED BY <1>0, <1>1, <2>1, <2>5, <2>7 DEF ConsoleType
<1>15. CASE ConsoleKill
  <2>1. OperationalType'
    BY <1>0, <1>15, KillKeepsType DEF ConsoleKill
  <2>2. Local(Between)
    BY DEF Between, Local
  <2>3. Locals
    BY <1>15, <2>2 DEF ConsoleKill
  <2>4. /\ registry' = {} /\ UNCHANGED configs
        /\ audited' = [overrides |-> log.overrides, units |-> 0]
        /\ log' = [log EXCEPT !.stuck = Nothing]
        /\ clash' \subseteq clash \cup {"killed"}
    BY <1>15 DEF ConsoleKill
  <2>5. audited' \in [overrides : SUBSET Override, units : Int]
    BY <1>0, <2>4 DEF LogType
  <2>7. LogType'
    <3>1. Tellable(Nothing)
      BY DEF Nothing, Tellable
    <3> QED BY <1>0, <2>4, <3>1 DEF LogType
  <2>6. clash' \subseteq Parts
    BY <1>0, <2>4 DEF Parts
  <2> QED BY <1>0, <2>1, <2>3, <2>4, <2>5, <2>6, <2>7, FS_EmptySet DEF ConsoleType
<1>16. CASE ConsoleRestart
  <2>1. OperationalType'
    BY <1>0, <1>16, RestartKeepsType DEF ConsoleRestart
  <2> QED BY <1>0, <1>16, <1>17, <2>1 DEF ConsoleRestart, ConsoleType
<1> QED
  BY <1>4, <1>5, <1>6, <1>7, <1>8, <1>9, <1>10, <1>11, <1>12, <1>13, <1>14, <1>15, <1>16, <1>18
     DEF ConsoleNext, Route

LEMMA TypeInvariance == ConsoleSpec => [](Inv /\ ConsoleType)
BY InitInv, StepInv, InitType, TypeStep, PTL DEF ConsoleSpec

(* Every variable keeps its type, and a channel has at most one override,  *)
(* in memory, in every document on its way and in the file read back.      *)
THEOREM TypeCorrect == ConsoleSpec => []ConsoleTypeOK
<1>1. Inv /\ ConsoleType => ConsoleTypeOK
  <2> SUFFICES ASSUME ConsoleType PROVE ConsoleTypeOK
    OBVIOUS
  <2>1. TypeOK
    <3>1. Files \subseteq Content
      BY DEF Files, Content, Sets
    <3>2. Sets \subseteq SUBSET Override /\ \A o, p \in overrides : o.key = p.key => o = p
      BY DEF ConsoleType, OperationalType, Sets
    <3> QED BY <3>1, <3>2 DEF ConsoleType, OperationalType, TypeOK, Saving
  <2>2. \A r \in Requests :
          /\ route[r].pc \in {"idle", "audit", "append", "clear", "register", "set"}
          /\ route[r].on \in {"none", "registry", "overrides"}
    BY DEF ConsoleType, Local
  <2> QED BY <2>1, <2>2 DEF ConsoleType, ConsoleTypeOK, LogType
<1> QED BY <1>1, TypeInvariance, PTL

-------------------------------------------------------------------------------
\* Who works on a part of the state, as long as no two overlapped on it; and who saves.
OneOn(part) == \A q, r \in Requests : route[q].on = part /\ route[r].on = part => q = r

Alone ==
  /\ \A part \in {"overrides", "registry"} : part \notin clash => OneOn(part)
  /\ \A r \in Requests :
       request[r].pc # "idle" => route[r].on = "overrides" /\ route[r].pc = "audit"
  /\ ~up => \A r \in Requests : request[r].pc = "idle" /\ route[r].pc = "idle"

LEMMA HandleKeepsOne ==
  ASSUME NEW r \in Requests, NEW from, NEW to, NEW on \in Parts, NEW arg,
         Inv, Alone, clash \subseteq Parts, Handle(r, from, to, on, arg)
  PROVE  \A part \in {"overrides", "registry"} : part \notin clash' => OneOn(part)'
<1> SUFFICES ASSUME NEW part \in {"overrides", "registry"}, part \notin clash',
                    NEW p \in Requests, NEW q \in Requests,
                    route'[p].on = part, route'[q].on = part
             PROVE  p = q
  BY DEF OneOn
<1>1. /\ route'[r] = [pc |-> to, on |-> on, arg |-> arg]
      /\ \A s \in Requests \ {r} : route'[s] = route[s]
  BY HandleMovesOne
<1>2. /\ clash \subseteq clash'
      /\ on \notin clash' => \A s \in Requests \ {r} : route[s].on # on
  BY HandleTells
<1>3. OneOn(part)
  BY <1>2 DEF Alone
<1>4. CASE on = part
  BY <1>1, <1>2, <1>4
<1>5. CASE on # part
  BY <1>1, <1>3, <1>5 DEF OneOn
<1> QED BY <1>4, <1>5

LEMMA AloneInit == ConsoleInit => Alone
BY DEF ConsoleInit, Init, Alone, OneOn, Between, Idle

LEMMA AloneStep == Inv /\ ConsoleType /\ Alone /\ [ConsoleNext]_consoleVars => Alone'
<1> SUFFICES ASSUME Inv, ConsoleType, Alone, [ConsoleNext]_consoleVars PROVE Alone'
  OBVIOUS
<1> DEFINE Ones == \A part \in {"overrides", "registry"} : part \notin clash' => OneOn(part)'
           Savers == \A r \in Requests :
                       request'[r].pc # "idle" => route'[r].on = "overrides" /\ route'[r].pc = "audit"
<1>0. /\ clash \subseteq Parts /\ "registry" \in Parts /\ "overrides" \in Parts
      /\ request \in [Requests -> Saving]
      /\ \A r \in Requests : Local(route[r])
  BY DEF ConsoleType, OperationalType, Parts
<1>1. up' = TRUE /\ Ones /\ Savers => Alone'
  BY DEF Alone
<1>2. CASE UNCHANGED consoleVars
  BY <1>2 DEF Alone, OneOn, consoleVars, vars
<1>3. ASSUME NEW r \in Requests, NEW from, NEW to, NEW on \in Parts, NEW arg,
             Handle(r, from, to, on, arg), from # "audit", UNCHANGED vars
      PROVE  Alone'
  <2>1. up' = TRUE /\ request' = request
    BY <1>3 DEF Handle, RouteAt, vars
  <2>2. Ones
    BY <1>0, <1>3, HandleKeepsOne
  <2>3. route[r].pc # "audit" /\ \A q \in Requests \ {r} : route'[q] = route[q]
    BY <1>3, HandleMovesOne
  <2>4. Savers
    BY <2>1, <2>3 DEF Alone
  <2> HIDE DEF Ones, Savers
  <2> QED BY <1>1, <2>1, <2>2, <2>4
<1>4. ASSUME NEW r \in Requests, LoadDocument(r) PROVE Alone'
  BY <1>0, <1>3, <1>4 DEF LoadDocument
<1>5. ASSUME NEW r \in Requests, ClearCount(r) PROVE Alone'
  BY <1>0, <1>3, <1>5 DEF ClearCount
<1>6. ASSUME NEW r \in Requests, ClearReplace(r) PROVE Alone'
  BY <1>0, <1>3, <1>6 DEF ClearReplace
<1>7. ASSUME NEW r \in Requests, RegisterRead(r) PROVE Alone'
  BY <1>0, <1>3, <1>7 DEF RegisterRead
<1>8. ASSUME NEW r \in Requests, RegisterReplace(r) PROVE Alone'
  BY <1>0, <1>3, <1>8 DEF RegisterReplace
<1>9. ASSUME NEW r \in Requests, SetCheck(r) PROVE Alone'
  BY <1>0, <1>3, <1>9 DEF SetCheck
<1>10. ASSUME NEW r \in Requests, NEW from, NEW arg, NEW pc,
              Handle(r, from, "audit", "overrides", arg), up' = up, Goto(r, pc)
       PROVE  Alone'
  <2>1. up' = TRUE /\ \A q \in Requests \ {r} : request'[q] = request[q]
    BY <1>0, <1>10 DEF Handle, RouteAt, Goto
  <2>2. Ones
    BY <1>0, <1>10, HandleKeepsOne
  <2>3. /\ route'[r] = [pc |-> "audit", on |-> "overrides", arg |-> arg]
        /\ \A q \in Requests \ {r} : route'[q] = route[q]
    BY <1>10, HandleMovesOne
  <2>4. Savers
    BY <2>1, <2>3 DEF Alone
  <2> HIDE DEF Ones, Savers
  <2> QED BY <1>1, <2>1, <2>2, <2>4
<1>11. ASSUME NEW r \in Requests, SetRoute(r) PROVE Alone'
  BY <1>10, <1>11 DEF SetRoute, SetKey
<1>12. ASSUME NEW r \in Requests, ResetRoute(r) PROVE Alone'
  BY <1>10, <1>12 DEF ResetRoute, ResetKey
<1>13. ASSUME NEW r \in Requests, SaveRoute(r) PROVE Alone'
  <2>1. /\ up = TRUE /\ up' = TRUE /\ UNCHANGED <<route, clash>>
        /\ request[r].pc # "idle"
        /\ \A q \in Requests \ {r} : request'[q] = request[q]
    BY <1>0, <1>13 DEF SaveRoute, Save, Snapshot, CreateTmp, WriteTmp, WriteFails, Rename, At, Goto
  <2> QED BY <2>1 DEF Alone, OneOn
<1>14. ASSUME NEW r \in Requests, Audit(r) PROVE Alone'
  <2>1. /\ up' = TRUE /\ request' = request /\ clash' = clash
        /\ request[r].pc = "idle"
    BY <1>14 DEF Audit, At, RouteAt, vars
  <2>2. /\ route'[r].on = route[r].on
        /\ \A q \in Requests \ {r} : route'[q] = route[q]
    BY <1>14, AuditMovesOne
  <2>3. \A q \in Requests : route'[q].on = route[q].on
    BY <2>2
  <2>4. Ones
    BY <2>1, <2>3 DEF Alone, OneOn
  <2>5. Savers
    BY <2>1, <2>2 DEF Alone
  <2> HIDE DEF Ones, Savers
  <2> QED BY <1>1, <2>1, <2>4, <2>5
<1>17. ASSUME NEW r \in Requests, AppendLine(r) PROVE Alone'
  <2>1. /\ up' = TRUE /\ request' = request /\ clash' = clash
    BY <1>17 DEF AppendLine, RouteAt, vars
  <2>2. /\ route[r].pc = "append" /\ route'[r].on = "none"
        /\ \A q \in Requests \ {r} : route'[q] = route[q]
    BY <1>17, AppendMovesOne DEF Between
  <2>3. request[r].pc = "idle"
    BY <2>2 DEF Alone
  <2> QED BY <2>1, <2>2, <2>3 DEF Alone, OneOn
<1>15. CASE ConsoleKill
  <2>1. \A r \in Requests : /\ route'[r].on = "none" /\ route'[r].pc = "idle"
                            /\ request'[r].pc = "idle"
    BY <1>15 DEF ConsoleKill, Kill, Between, Idle
  <2> QED BY <2>1 DEF Alone, OneOn
<1>16. CASE ConsoleRestart
  BY <1>16 DEF ConsoleRestart, Restart, Alone, OneOn
<1> QED
  BY <1>2, <1>4, <1>5, <1>6, <1>7, <1>8, <1>9, <1>11, <1>12, <1>13, <1>14, <1>15, <1>16, <1>17
     DEF ConsoleNext, Route

-------------------------------------------------------------------------------
\* What a restart would read.
Stored == IF path = NoFile THEN {} ELSE data[path].overrides
Whole == path # NoFile => data[path].kind = "document"

\* One saver at a time: the temporary file is never the file, and what is in it belongs
\* to who writes or renames it, whose body is what the operator sees.
Disk ==
  /\ Whole
  /\ tmp # NoFile => tmp # path
  /\ \A r \in Requests :
       /\ request[r].pc = "write" => /\ request[r].ino # NoFile /\ tmp = request[r].ino
                                     /\ data[request[r].ino] = Empty
       /\ request[r].pc = "rename" => /\ request[r].ino # NoFile /\ tmp = request[r].ino
                                      /\ data[request[r].ino] = Document(request[r].body)
       /\ request[r].pc \in {"create", "write", "rename"} => request[r].body = overrides
  /\ up /\ ~trouble /\ (\A r \in Requests : request[r].pc = "idle") => overrides = Stored

Solo(r) == \A q \in Requests \ {r} : request[q].pc = "idle"

LEMMA EditKeepsDisk ==
  ASSUME OperationalType, Disk, NEW r \in Requests, Solo(r), UNCHANGED diskVars,
         request[r].pc = "idle", Goto(r, "snapshot")
  PROVE  Disk'
<1>1. /\ request'[r].pc = "snapshot"
      /\ \A q \in Requests \ {r} : request'[q].pc = "idle"
  BY DEF Goto, OperationalType, Saving, Solo
<1>2. Whole' /\ (tmp' # NoFile => tmp' # path')
  BY DEF Disk, Whole, diskVars
<1> QED BY <1>1, <1>2 DEF Disk

LEMMA SetKeyKeepsDisk ==
  ASSUME OperationalType, Disk, NEW r \in Requests, Solo(r), NEW k, NEW v, SetKey(r, k, v)
  PROVE  Disk'
BY EditKeepsDisk DEF SetKey, At

LEMMA ResetKeyKeepsDisk ==
  ASSUME OperationalType, Disk, NEW r \in Requests, Solo(r), NEW k, ResetKey(r, k)
  PROVE  Disk'
<1>1. CASE SavesAfterReset(k)
  BY <1>1, EditKeepsDisk DEF ResetKey, At
<1>2. CASE ~SavesAfterReset(k)
  <2>1. overrides' = overrides
    BY <1>2 DEF ResetKey, Without, SavesAfterReset
  <2>2. request' = request
    BY <1>2 DEF ResetKey, At, Goto, OperationalType, Saving
  <2> QED BY <2>1, <2>2 DEF ResetKey, Disk, Whole, Stored, diskVars
<1> QED BY <1>1, <1>2

LEMMA SaveKeepsDisk ==
  ASSUME OperationalType, Disk, NEW r \in Requests, Solo(r), Save(r)
  PROVE  Disk'
<1>0. /\ request \in [Requests -> Saving] /\ data \in [Inodes -> Files]
      /\ path \in Inodes \cup {NoFile} /\ tmp \in Inodes \cup {NoFile} /\ NoFile \notin Inodes
      /\ \A q \in Requests \ {r} : request[q].pc = "idle"
  BY DEF OperationalType, Solo, NoFile, Inodes
<1>1. CASE Snapshot(r)
  <2>1. /\ request'[r].pc = "create" /\ request'[r].body = overrides
        /\ \A q \in Requests \ {r} : request'[q].pc = "idle"
    BY <1>0, <1>1 DEF Snapshot, Saving
  <2>2. UNCHANGED <<overrides, path, tmp, data>>
    BY <1>1 DEF Snapshot, diskVars
  <2> QED BY <2>1, <2>2 DEF Disk, Whole
<1>2. CASE CreateTmp(r)
  <2>1. PICK i \in Inodes :
          /\ i = tmp \/ FreeInode(i)
          /\ tmp' = i /\ data' = [data EXCEPT ![i] = Empty]
          /\ request' = [request EXCEPT ![r].pc = "write", ![r].ino = i]
          /\ UNCHANGED <<up, overrides, path, edits, trouble>> /\ request[r].pc = "create"
    BY <1>2 DEF CreateTmp, Target, At
  <2>2. i # path /\ i # NoFile
    BY <1>0, <2>1 DEF Disk, FreeInode
  <2>3. /\ request'[r].pc = "write" /\ request'[r].ino = i /\ request'[r].body = request[r].body
        /\ \A q \in Requests \ {r} : request'[q].pc = "idle"
    BY <1>0, <2>1 DEF Saving
  <2>4. data'[i] = Empty /\ (path # NoFile => data'[path] = data[path])
    BY <1>0, <2>1, <2>2
  <2>5. Whole'
    BY <2>1, <2>4 DEF Disk, Whole
  <2>6. request[r].body = overrides
    BY <2>1 DEF Disk
  <2> QED BY <2>1, <2>2, <2>3, <2>4, <2>5, <2>6 DEF Disk
<1>3. CASE WriteTmp(r)
  <2> DEFINE ino == request[r].ino
             body == request[r].body
  <2>1. /\ request[r].pc = "write"
        /\ data' = [data EXCEPT ![ino] = Overwritten(@, body)]
        /\ request' = [request EXCEPT ![r].pc = "rename"]
        /\ UNCHANGED <<up, overrides, path, tmp, edits, trouble>>
    BY <1>3 DEF WriteTmp, At, Goto
  <2>2. ino # NoFile /\ tmp = ino /\ data[ino] = Empty /\ body = overrides
    BY <2>1 DEF Disk
  <2>3. ino \in Inodes /\ ino # path
    BY <1>0, <2>2 DEF Disk
  <2>4. Overwritten(Empty, body) = Document(body)
    BY DEF Overwritten, Empty, Garbage
  <2>5. data'[ino] = Document(body) /\ (path # NoFile => data'[path] = data[path])
    BY <1>0, <2>1, <2>2, <2>3, <2>4
  <2>6. /\ request'[r].pc = "rename" /\ request'[r].ino = ino /\ request'[r].body = body
        /\ \A q \in Requests \ {r} : request'[q].pc = "idle"
    BY <1>0, <2>1 DEF Saving
  <2>7. Whole'
    BY <2>1, <2>5 DEF Disk, Whole
  <2> HIDE DEF ino, body
  <2> QED BY <2>1, <2>2, <2>3, <2>5, <2>6, <2>7 DEF Disk
<1>4. CASE WriteFails(r)
  <2>1. /\ trouble' = TRUE /\ UNCHANGED <<overrides, path, tmp, data>>
        /\ request' = [request EXCEPT ![r] = Idle]
    BY <1>4 DEF WriteFails, diskVars
  <2>2. \A q \in Requests : request'[q].pc = "idle"
    BY <1>0, <2>1 DEF Idle
  <2> QED BY <2>1, <2>2 DEF Disk, Whole
<1>5. CASE Rename(r)
  <2>1. /\ request[r].pc = "rename" /\ UNCHANGED <<up, overrides, data, edits>>
        /\ request' = [request EXCEPT ![r] = Idle]
        /\ tmp # NoFile => path' = tmp /\ tmp' = NoFile /\ trouble' = FALSE
    BY <1>5 DEF Rename, At
  <2>2. /\ request[r].ino # NoFile /\ tmp = request[r].ino
        /\ data[request[r].ino] = Document(overrides)
    BY <2>1 DEF Disk
  <2>3. path' = tmp /\ tmp' = NoFile /\ path' # NoFile /\ data'[path'] = Document(overrides)
    BY <2>1, <2>2
  <2>4. \A q \in Requests : request'[q].pc = "idle"
    BY <1>0, <2>1 DEF Idle
  <2>5. Whole' /\ Stored' = overrides
    BY <2>3 DEF Whole, Stored, Document
  <2> QED BY <2>1, <2>3, <2>4, <2>5 DEF Disk
<1> QED BY <1>1, <1>2, <1>3, <1>4, <1>5 DEF Save

LEMMA KillKeepsDisk == Disk /\ Kill => Disk'
<1> SUFFICES ASSUME Disk, Kill PROVE Disk'
  OBVIOUS
<1>1. ~up' /\ UNCHANGED <<path, tmp, data>> /\ \A r \in Requests : request'[r].pc = "idle"
  BY DEF Kill, Idle, diskVars
<1> QED BY <1>1 DEF Disk, Whole

LEMMA RestartKeepsDisk ==
  ASSUME Disk, Restart, \A r \in Requests : request[r].pc = "idle"
  PROVE  Disk'
<1>1. /\ UNCHANGED <<path, tmp, data, request>> /\ overrides' = Stored
  BY DEF Restart, Stored, diskVars
<1> QED BY <1>1 DEF Disk, Whole, Stored

\* All of it, as long as no two calibration requests overlapped.
DiskAlone == "overrides" \notin clash => Disk

LEMMA DiskInit == ConsoleInit => DiskAlone
BY DEF ConsoleInit, Init, DiskAlone, Disk, Whole, Stored, Idle

LEMMA DiskStep ==
  Inv /\ ConsoleType /\ Alone /\ DiskAlone /\ [ConsoleNext]_consoleVars => DiskAlone'
<1> SUFFICES ASSUME Inv, ConsoleType, Alone, DiskAlone, [ConsoleNext]_consoleVars,
                    "overrides" \notin clash'
             PROVE  Disk'
  BY DEF DiskAlone
<1>0. OperationalType /\ clash \subseteq Parts /\ "registry" \in Parts /\ "overrides" \in Parts
  BY DEF ConsoleType, Parts
<1>1. UNCHANGED vars /\ Disk => Disk'
  BY DEF vars, diskVars, Disk, Whole, Stored
<1>2. "overrides" \notin clash => Disk
  BY DEF DiskAlone
<1>3. ASSUME NEW r \in Requests, NEW from, NEW to, NEW on \in Parts, NEW arg,
             Handle(r, from, to, on, arg)
      PROVE  Disk /\ (on = "overrides" => Solo(r))
  <2>1. /\ clash \subseteq clash'
        /\ on \notin clash' => \A q \in Requests \ {r} : route[q].on # on
    BY <1>0, <1>3, HandleTells
  <2> QED BY <1>2, <2>1 DEF Alone, Solo
<1>4. CASE UNCHANGED consoleVars
  BY <1>1, <1>2, <1>4 DEF consoleVars
<1>5. ASSUME NEW r \in Requests,
             \/ LoadDocument(r) \/ ClearCount(r) \/ ClearReplace(r)
             \/ RegisterRead(r) \/ RegisterReplace(r) \/ SetCheck(r)
      PROVE  Disk'
  <2>1. UNCHANGED vars
    BY <1>5 DEF LoadDocument, ClearCount, ClearReplace, RegisterRead, RegisterReplace, SetCheck
  <2>2. Disk
    BY <1>0, <1>3, <1>5
       DEF LoadDocument, ClearCount, ClearReplace, RegisterRead, RegisterReplace, SetCheck
  <2> QED BY <1>1, <2>1, <2>2
<1>6. ASSUME NEW r \in Requests, SetRoute(r) PROVE Disk'
  <2>1. PICK v \in Values :
          /\ Handle(r, "set", "audit", "overrides",
                    [told |-> "set", override |-> [key |-> route[r].arg, value |-> v]])
          /\ SetKey(r, route[r].arg, v)
    BY <1>6 DEF SetRoute
  <2> QED BY <1>0, <1>3, <2>1, SetKeyKeepsDisk
<1>7. ASSUME NEW r \in Requests, ResetRoute(r) PROVE Disk'
  <2>1. PICK k \in Keys :
          /\ Handle(r, "idle", "audit", "overrides", [told |-> "reset", key |-> k])
          /\ ResetKey(r, k)
    BY <1>7 DEF ResetRoute
  <2> QED BY <1>0, <1>3, <2>1, ResetKeyKeepsDisk
<1>8. ASSUME NEW r \in Requests, SaveRoute(r) PROVE Disk'
  <2>1. Save(r) /\ clash' = clash
    BY <1>8 DEF SaveRoute
  <2>2. request[r].pc # "idle"
    BY <2>1 DEF Save, Snapshot, CreateTmp, WriteTmp, WriteFails, Rename, At
  <2>3. Disk /\ Solo(r)
    BY <1>2, <2>1, <2>2 DEF Alone, OneOn, Solo
  <2> QED BY <1>0, <2>1, <2>3, SaveKeepsDisk
<1>9. ASSUME NEW r \in Requests, Audit(r) PROVE Disk'
  BY <1>1, <1>2, <1>9 DEF Audit
<1>12. ASSUME NEW r \in Requests, AppendLine(r) PROVE Disk'
  BY <1>1, <1>2, <1>12 DEF AppendLine
<1>10. CASE ConsoleKill
  <2>1. Kill /\ clash \subseteq clash'
    BY <1>10 DEF ConsoleKill
  <2> QED BY <1>2, <2>1, KillKeepsDisk
<1>11. CASE ConsoleRestart
  <2>1. Restart /\ clash' = clash /\ ~up
    BY <1>11 DEF ConsoleRestart, Restart
  <2> QED BY <1>2, <2>1, RestartKeepsDisk DEF Alone
<1> QED
  BY <1>4, <1>5, <1>6, <1>7, <1>8, <1>9, <1>10, <1>11, <1>12 DEF ConsoleNext, Route

LEMMA DiskInvariance == ConsoleSpec => [](Inv /\ ConsoleType /\ Alone /\ DiskAlone)
BY TypeInvariance, AloneInit, AloneStep, DiskInit, DiskStep, PTL DEF ConsoleSpec

(* Unless calibration requests overlapped, every kill finds a whole file.  *)
THEOREM FileStaysWhole == ConsoleSpec => []WholeAlone
<1>1. DiskAlone => WholeAlone
  BY DEF DiskAlone, Disk, Whole, WholeAlone, FileIsWhole
<1> QED BY <1>1, DiskInvariance, PTL

(* ... and with nothing in flight and no failed save the file holds what   *)
(* the operator sees.                                                      *)
THEOREM FileIsCurrent == ConsoleSpec => []SavedAlone
<1>1. ConsoleType /\ DiskAlone => SavedAlone
  <2> SUFFICES ASSUME ConsoleType, Disk, Quiet, ~trouble
               PROVE  IF path = NoFile THEN overrides = {} ELSE data[path] = Document(overrides)
    BY DEF DiskAlone, SavedAlone, SavedWhenQuiet
  <2>1. overrides = Stored
    BY DEF Disk, Quiet, At
  <2>2. CASE path # NoFile
    <3>1. data[path] \in Files /\ data[path].kind = "document"
      BY <2>2 DEF Disk, Whole, ConsoleType, OperationalType
    <3>2. PICK s \in Sets : data[path] = Document(s)
      BY <3>1 DEF Files, Empty, Garbage
    <3>3. s = overrides
      BY <2>1, <2>2, <3>2 DEF Stored, Document
    <3> QED BY <2>2, <3>2, <3>3
  <2>3. CASE path = NoFile
    BY <2>1, <2>3 DEF Stored
  <2> QED BY <2>2, <2>3
<1> QED BY <1>1, DiskInvariance, PTL

-------------------------------------------------------------------------------
Audits(part, x) == x.on = part /\ x.pc = "audit"

\* The overrides, or, between a kill and the next start, what that will read.
Present == IF up THEN overrides ELSE Stored

\* The log, with the record one request may still owe it, tells the overrides.
TellsOverrides ==
  /\ \A r \in Requests :
       Audits("overrides", route[r]) => OverridesTold(audited.overrides, route[r].arg) = Present
  /\ (\A r \in Requests : ~Audits("overrides", route[r])) => audited.overrides = Present

\* ... and the registry, whose change one request may have read for and not made yet.
TellsUnits ==
  /\ \A r \in Requests :
       /\ Audits("registry", route[r]) =>
            UnitsTold(audited.units, route[r].arg) = Cardinality(registry)
       /\ route[r].pc = "clear" => route[r].arg.removed = Cardinality(registry)
       /\ route[r].pc = "register" => Cardinality(route[r].arg) = Cardinality(registry) + 1
  /\ (\A r \in Requests : ~Audits("registry", route[r])) => audited.units = Cardinality(registry)

Tells ==
  /\ clash \cap {"overrides", "killed"} = {} => TellsOverrides
  /\ "registry" \notin clash => TellsUnits

(* A record is about one part and leaves the other.                        *)
LEMMA RecordOfOnePart ==
  ASSUME NEW e, NEW set, NEW n
  PROVE  /\ EventOf("overrides", e) => UnitsTold(n, e) = n
         /\ EventOf("registry", e) => OverridesTold(set, e) = set /\ ~OnOverrides(e)
<1>1. EventOf("overrides", e) => UnitsTold(n, e) = n
  BY DEF EventOf, UnitsTold
<1>2. EventOf("registry", e) => OverridesTold(set, e) = set /\ ~OnOverrides(e)
  BY DEF EventOf, OverridesTold, OnOverrides
<1> QED BY <1>1, <1>2

-------------------------------------------------------------------------------
\* Whose record is in the ring and on its way to the file.
Pends(x) == x.on = "overrides" /\ x.pc = "append"
Out == OverridesTold(log.overrides, log.stuck)

\* As long as no calibration was dropped, the file, the stuck line and the line on its
\* way tell what the ring tells.
Filed ==
  /\ \A r \in Requests :
       Pends(route[r]) => audited.overrides = OverridesTold(Out, route[r].arg)
  /\ (\A r \in Requests : ~Pends(route[r])) => audited.overrides = Out

Kept == "overrides" \notin clash /\ ~log.dropped => Filed

(* A step that neither records nor appends.                                *)
LEMMA FiledLeftAlone ==
  ASSUME NEW r \in Requests, Filed, UNCHANGED <<audited, log>>,
         \A q \in Requests \ {r} : route'[q] = route[q],
         ~Pends(route[r]), ~Pends(route'[r])
  PROVE  Filed'
<1>1. Out' = Out
  BY DEF Out
<1>2. \A q \in Requests :
        IF q = r THEN ~Pends(route[q]) /\ ~Pends(route'[q]) ELSE route'[q] = route[q]
  OBVIOUS
<1> QED BY <1>1, <1>2 DEF Filed, Pends

(* The record in the ring.                                                 *)
LEMMA FiledRecorded ==
  ASSUME NEW r \in Requests, Filed, log' = log, OneOn("overrides"),
         route[r].pc = "audit", route[r].on \in {"registry", "overrides"},
         EventOf(route[r].on, route[r].arg),
         audited'.overrides = OverridesTold(audited.overrides, route[r].arg),
         route'[r] = [pc |-> "append", on |-> route[r].on, arg |-> route[r].arg],
         \A q \in Requests \ {r} : route'[q] = route[q]
  PROVE  Filed'
<1>1. Out' = Out
  BY DEF Out
<1>2. CASE route[r].on = "overrides"
  <2>1. \A q \in Requests : ~Pends(route[q])
    BY <1>2 DEF Pends, OneOn
  <2>2. audited'.overrides = OverridesTold(Out, route'[r].arg)
    BY <2>1 DEF Filed
  <2>3. Pends(route'[r]) /\ \A q \in Requests \ {r} : ~Pends(route'[q])
    BY <1>2, <2>1 DEF Pends
  <2> QED BY <1>1, <2>2, <2>3 DEF Filed
<1>3. CASE route[r].on = "registry"
  <2>1. audited'.overrides = audited.overrides
    BY <1>3, RecordOfOnePart
  <2>2. ~Pends(route[r]) /\ ~Pends(route'[r])
    BY <1>3 DEF Pends
  <2>3. \A q \in Requests :
          /\ Pends(route'[q]) <=> Pends(route[q])
          /\ Pends(route'[q]) => route'[q] = route[q]
    BY <2>2
  <2> QED BY <1>1, <2>1, <2>3 DEF Filed
<1> QED BY <1>2, <1>3

(* The line written, stuck or dropped.                                     *)
LEMMA FiledAppended ==
  ASSUME NEW r \in Requests, Inv, LogType, Filed, OneOn("overrides"),
         route[r].on \in {"registry", "overrides"}, EventOf(route[r].on, route[r].arg),
         AppendLine(r), ~log'.dropped
  PROVE  Filed'
<1> DEFINE e == route[r].arg
<1>1. /\ route[r].pc = "append" /\ route'[r] = Between
      /\ \A q \in Requests \ {r} : route'[q] = route[q]
  BY AppendMovesOne
<1>2. audited' = audited
  BY DEF AppendLine
<1>3. ~Pends(route'[r])
  BY <1>1 DEF Pends, Between
<1>4. \/ log'.overrides = OverridesTold(Out, e) /\ log'.stuck = Nothing
      \/ log'.overrides = Out /\ log'.stuck = e
      \/ log'.overrides = log.overrides /\ log'.stuck = log.stuck /\ ~OnOverrides(e)
  <2>1. \/ log' = [log EXCEPT !.overrides = OverridesTold(Out, e), !.stuck = Nothing]
        \/ log' = [log EXCEPT !.overrides = Out, !.stuck = e]
        \/ log' = [log EXCEPT !.dropped = @ \/ OnOverrides(e)]
    BY DEF AppendLine, Out
  <2> HIDE DEF e
  <2> QED BY <2>1 DEF LogType
<1>5. \A set : OverridesTold(set, Nothing) = set
  BY DEF OverridesTold, Nothing
<1>6. CASE route[r].on = "overrides"
  <2>1. Pends(route[r]) /\ audited.overrides = OverridesTold(Out, e)
    BY <1>1, <1>6 DEF Pends, Filed
  <2>2. OnOverrides(e)
    BY <1>6 DEF EventOf, OnOverrides
  <2>3. Out' = OverridesTold(Out, e)
    <3> HIDE DEF e
    <3>1. Out' = OverridesTold(log'.overrides, log'.stuck)
      BY DEF Out
    <3> QED BY <1>4, <1>5, <2>2, <3>1
  <2>4. \A q \in Requests : ~Pends(route'[q])
    BY <1>1, <1>3, <1>6 DEF Pends, OneOn
  <2> QED BY <1>2, <2>1, <2>3, <2>4 DEF Filed
<1>7. CASE route[r].on = "registry"
  <2>1. \A set : OverridesTold(set, e) = set
    BY <1>7, RecordOfOnePart
  <2>2. Out' = Out
    <3> HIDE DEF e
    <3>1. Out' = OverridesTold(log'.overrides, log'.stuck)
      BY DEF Out
    <3>2. Out = OverridesTold(log.overrides, log.stuck)
      BY DEF Out
    <3> QED BY <1>4, <1>5, <2>1, <3>1, <3>2
  <2>3. ~Pends(route[r])
    BY <1>7 DEF Pends
  <2>4. \A q \in Requests :
          /\ Pends(route'[q]) <=> Pends(route[q])
          /\ Pends(route'[q]) => route'[q] = route[q]
    BY <1>1, <1>3, <2>3
  <2> QED BY <1>2, <2>2, <2>4 DEF Filed
<1> QED BY <1>6, <1>7

LEMMA KeptStep ==
  Inv /\ ConsoleType /\ Alone /\ Kept /\ [ConsoleNext]_consoleVars => Kept'
<1> SUFFICES ASSUME Inv, ConsoleType, Alone, Kept, [ConsoleNext]_consoleVars,
                    "overrides" \notin clash', ~log'.dropped
             PROVE  Filed'
  BY DEF Kept
<1>0. /\ clash \subseteq Parts /\ "registry" \in Parts /\ "overrides" \in Parts
      /\ \A r \in Requests : Local(route[r])
      /\ LogType
  BY DEF ConsoleType, Parts
<1>1. clash \subseteq clash' /\ log' = log => Filed
  BY DEF Kept
<1>2. CASE UNCHANGED consoleVars
  <2>1. UNCHANGED <<route, audited, log, clash>>
    BY <1>2 DEF consoleVars
  <2> QED BY <1>1, <2>1 DEF Filed, Out
<1>3. ASSUME NEW r \in Requests, NEW from, NEW to, NEW on \in Parts, NEW arg,
             Handle(r, from, to, on, arg), from # "append", to # "append",
             UNCHANGED <<audited, log>>
      PROVE  Filed'
  <2>1. clash \subseteq clash'
    BY <1>0, <1>3, HandleTells
  <2>2. /\ route[r].pc = from
        /\ route'[r] = [pc |-> to, on |-> on, arg |-> arg]
        /\ \A q \in Requests \ {r} : route'[q] = route[q]
    BY <1>3, HandleMovesOne
  <2>3. ~Pends(route[r]) /\ ~Pends(route'[r])
    BY <1>3, <2>2 DEF Pends
  <2>4. Filed
    BY <1>1, <1>3, <2>1
  <2> QED BY <1>3, <2>2, <2>3, <2>4, FiledLeftAlone
<1>4. ASSUME NEW r \in Requests,
             \/ LoadDocument(r) \/ ClearCount(r) \/ ClearReplace(r)
             \/ RegisterRead(r) \/ RegisterReplace(r)
      PROVE  Filed'
  BY <1>0, <1>3, <1>4 DEF LoadDocument, ClearCount, ClearReplace, RegisterRead, RegisterReplace
<1>5. ASSUME NEW r \in Requests, SetCheck(r) \/ SetRoute(r) \/ ResetRoute(r)
      PROVE  Filed'
  BY <1>0, <1>3, <1>5 DEF SetCheck, SetRoute, ResetRoute
<1>6. ASSUME NEW r \in Requests, SaveRoute(r) PROVE Filed'
  <2>1. UNCHANGED <<route, audited, log, clash>>
    BY <1>6 DEF SaveRoute
  <2> QED BY <1>1, <2>1 DEF Filed, Out
<1>7. ASSUME NEW r \in Requests, Audit(r) PROVE Filed'
  <2>1. /\ audited'.overrides = OverridesTold(audited.overrides, route[r].arg)
        /\ UNCHANGED <<log, clash>>
    BY <1>7 DEF Audit
  <2>2. /\ route[r].pc = "audit"
        /\ route'[r] = [pc |-> "append", on |-> route[r].on, arg |-> route[r].arg]
        /\ \A q \in Requests \ {r} : route'[q] = route[q]
    BY <1>7, AuditMovesOne
  <2>3. route[r].on \in {"registry", "overrides"} /\ EventOf(route[r].on, route[r].arg)
    BY <1>0, <2>2 DEF Local
  <2>4. Filed /\ OneOn("overrides")
    BY <1>1, <2>1 DEF Alone
  <2> QED BY <2>1, <2>2, <2>3, <2>4, FiledRecorded
<1>8. ASSUME NEW r \in Requests, AppendLine(r) PROVE Filed'
  <2>1. clash' = clash /\ route[r].pc = "append"
    BY <1>8 DEF AppendLine, RouteAt
  <2>2. ~log.dropped
    <3>1. \/ log'.dropped = log.dropped
          \/ log'.dropped = (log.dropped \/ OnOverrides(route[r].arg))
      BY <1>0, <1>8 DEF AppendLine, LogType
    <3> QED BY <3>1
  <2>3. route[r].on \in {"registry", "overrides"} /\ EventOf(route[r].on, route[r].arg)
    BY <1>0, <2>1 DEF Local
  <2>4. Filed /\ OneOn("overrides")
    BY <2>1, <2>2 DEF Kept, Alone
  <2> QED BY <1>0, <1>8, <2>3, <2>4, FiledAppended
<1>9. CASE ConsoleKill
  <2>1. /\ audited' = [overrides |-> log.overrides, units |-> 0]
        /\ log' = [log EXCEPT !.stuck = Nothing]
        /\ route' = [r \in Requests |-> Between]
    BY <1>9 DEF ConsoleKill
  <2>2. log'.overrides = log.overrides /\ log'.stuck = Nothing
    BY <1>0, <2>1 DEF LogType
  <2>3. Out' = audited'.overrides
    BY <2>1, <2>2 DEF Out, OverridesTold, Nothing
  <2>4. \A r \in Requests : ~Pends(route'[r])
    BY <2>1 DEF Pends, Between
  <2> QED BY <2>3, <2>4 DEF Filed
<1>10. CASE ConsoleRestart
  <2>1. UNCHANGED <<route, audited, log, clash>>
    BY <1>10 DEF ConsoleRestart
  <2> QED BY <1>1, <2>1 DEF Filed, Out
<1> QED
  BY <1>2, <1>4, <1>5, <1>6, <1>7, <1>8, <1>9, <1>10 DEF ConsoleNext, Route

LEMMA KeptInit == ConsoleInit => Kept
<1> SUFFICES ASSUME ConsoleInit PROVE Filed
  BY DEF Kept
<1>1. \A r \in Requests : ~Pends(route[r])
  BY DEF ConsoleInit, Between, Pends
<1>2. audited.overrides = Out
  BY DEF ConsoleInit, Out, OverridesTold, Nothing
<1> QED BY <1>1, <1>2 DEF Filed

(* A step on the other part, which neither begins nor ends in an audit of  *)
(* the overrides, and leaves them alone.                                   *)
LEMMA OverridesLeftAlone ==
  ASSUME NEW r \in Requests, TellsOverrides, UNCHANGED <<audited, vars>>,
         \A q \in Requests \ {r} : route'[q] = route[q],
         ~Audits("overrides", route[r]), ~Audits("overrides", route'[r])
  PROVE  TellsOverrides'
<1>1. Present' = Present /\ audited' = audited
  BY DEF Present, Stored, vars, diskVars
<1>2. \A q \in Requests :
        IF q = r THEN ~Audits("overrides", route[q]) /\ ~Audits("overrides", route'[q])
                 ELSE route'[q] = route[q]
  OBVIOUS
<1> QED BY <1>1, <1>2 DEF TellsOverrides, Audits

(* A change of the overrides by the only request on them.                  *)
LEMMA OverridesChanged ==
  ASSUME NEW r \in Requests, TellsOverrides, up, up', audited' = audited,
         \A q \in Requests \ {r} : route'[q] = route[q] /\ route[q].on # "overrides",
         ~Audits("overrides", route[r]), Audits("overrides", route'[r]),
         overrides' = OverridesTold(overrides, route'[r].arg)
  PROVE  TellsOverrides'
<1>1. \A q \in Requests : ~Audits("overrides", route[q])
  BY DEF Audits
<1>2. audited.overrides = overrides
  BY <1>1 DEF TellsOverrides, Present
<1>3. Present' = OverridesTold(audited'.overrides, route'[r].arg)
  BY <1>2 DEF Present
<1>4. \A q \in Requests \ {r} : ~Audits("overrides", route'[q])
  BY DEF Audits
<1> QED BY <1>3, <1>4 DEF TellsOverrides

(* The record written.                                                     *)
LEMMA OverridesRecorded ==
  ASSUME NEW r \in Requests, TellsOverrides, UNCHANGED vars, OneOn("overrides"),
         audited \in [overrides : SUBSET Override, units : Int],
         route[r].pc = "audit", route[r].on \in {"registry", "overrides"},
         EventOf(route[r].on, route[r].arg),
         audited'.overrides = OverridesTold(audited.overrides, route[r].arg),
         route'[r].pc = "append", \A q \in Requests \ {r} : route'[q] = route[q]
  PROVE  TellsOverrides'
<1>1. Present' = Present
  BY DEF Present, Stored, vars, diskVars
<1>2. ~Audits("overrides", route'[r])
  BY DEF Audits
<1>3. CASE route[r].on = "overrides"
  <2>1. audited'.overrides = Present
    BY <1>3 DEF TellsOverrides, Audits
  <2>2. \A q \in Requests : ~Audits("overrides", route'[q])
    BY <1>2, <1>3 DEF Audits, OneOn
  <2> QED BY <1>1, <2>1, <2>2 DEF TellsOverrides
<1>4. CASE route[r].on = "registry"
  <2>1. audited'.overrides = audited.overrides
    BY <1>4, RecordOfOnePart
  <2>2. ~Audits("overrides", route[r])
    BY <1>4 DEF Audits
  <2>3. \A q \in Requests :
          /\ Audits("overrides", route'[q]) <=> Audits("overrides", route[q])
          /\ Audits("overrides", route'[q]) => route'[q] = route[q]
    BY <1>2, <2>2
  <2> QED BY <1>1, <2>1, <2>3 DEF TellsOverrides
<1> QED BY <1>3, <1>4

LEMMA OverridesStep ==
  ASSUME Inv, ConsoleType, Alone, DiskAlone, Kept, Tells, [ConsoleNext]_consoleVars,
         clash' \cap {"overrides", "killed"} = {}
  PROVE  TellsOverrides'
<1>0. /\ clash \subseteq Parts /\ "registry" \in Parts /\ "overrides" \in Parts
      /\ \A r \in Requests : Local(route[r])
      /\ audited \in [overrides : SUBSET Override, units : Int]
  BY DEF ConsoleType, Parts
<1>1. clash \subseteq clash' => TellsOverrides /\ OneOn("overrides")
  BY DEF Tells, Alone
<1>2. ASSUME NEW r \in Requests, NEW from, NEW to, NEW on \in Parts, NEW arg,
             Handle(r, from, to, on, arg), from # "audit"
      PROVE  /\ TellsOverrides /\ ~Audits("overrides", route[r])
             /\ route'[r] = [pc |-> to, on |-> on, arg |-> arg]
             /\ \A q \in Requests \ {r} : route'[q] = route[q]
  <2>1. clash \subseteq clash'
    BY <1>0, <1>2, HandleTells
  <2>2. /\ route[r].pc = from
        /\ route'[r] = [pc |-> to, on |-> on, arg |-> arg]
        /\ \A q \in Requests \ {r} : route'[q] = route[q]
    BY <1>2, HandleMovesOne
  <2> QED BY <1>1, <1>2, <2>1, <2>2 DEF Audits
<1>3. CASE UNCHANGED consoleVars
  <2>1. UNCHANGED <<vars, route, audited, clash>>
    BY <1>3 DEF consoleVars
  <2>2. Present' = Present
    BY <2>1 DEF Present, Stored, vars, diskVars
  <2> QED BY <1>1, <2>1, <2>2 DEF TellsOverrides
<1>4. ASSUME NEW r \in Requests, NEW from, NEW to, NEW on \in Parts, NEW arg,
             Handle(r, from, to, on, arg), from # "audit", UNCHANGED <<audited, vars>>,
             on = "overrides" => to # "audit"
      PROVE  TellsOverrides'
  <2>1. /\ TellsOverrides /\ ~Audits("overrides", route[r])
        /\ route'[r] = [pc |-> to, on |-> on, arg |-> arg]
        /\ \A q \in Requests \ {r} : route'[q] = route[q]
    BY <1>2, <1>4
  <2>2. ~Audits("overrides", route'[r])
    BY <1>4, <2>1 DEF Audits
  <2> QED BY <1>4, <2>1, <2>2, OverridesLeftAlone
<1>5. ASSUME NEW r \in Requests, LoadDocument(r) PROVE TellsOverrides'
  BY <1>0, <1>4, <1>5 DEF LoadDocument
<1>6. ASSUME NEW r \in Requests, ClearCount(r) PROVE TellsOverrides'
  BY <1>0, <1>4, <1>6 DEF ClearCount
<1>7. ASSUME NEW r \in Requests, ClearReplace(r) PROVE TellsOverrides'
  BY <1>0, <1>4, <1>7 DEF ClearReplace
<1>8. ASSUME NEW r \in Requests, RegisterRead(r) PROVE TellsOverrides'
  BY <1>0, <1>4, <1>8 DEF RegisterRead
<1>9. ASSUME NEW r \in Requests, RegisterReplace(r) PROVE TellsOverrides'
  BY <1>0, <1>4, <1>9 DEF RegisterReplace
<1>10. ASSUME NEW r \in Requests, SetCheck(r) PROVE TellsOverrides'
  BY <1>0, <1>4, <1>10 DEF SetCheck
<1>11. ASSUME NEW r \in Requests, NEW from, NEW e, Handle(r, from, "audit", "overrides", e),
              from # "audit", audited' = audited, up' = up, overrides' = OverridesTold(overrides, e)
       PROVE  TellsOverrides'
  <2>1. /\ route[r].pc = from
        /\ route'[r] = [pc |-> "audit", on |-> "overrides", arg |-> e]
        /\ \A q \in Requests \ {r} : route'[q] = route[q]
    BY <1>11, HandleMovesOne
  <2>2. /\ up /\ clash \subseteq clash'
        /\ "overrides" \notin clash' => \A q \in Requests \ {r} : route[q].on # "overrides"
    BY <1>0, <1>11, HandleTells
  <2>3. \A q \in Requests \ {r} : route'[q] = route[q] /\ route[q].on # "overrides"
    BY <2>1, <2>2
  <2>4. ~Audits("overrides", route[r])
    BY <1>11, <2>1 DEF Audits
  <2>5. Audits("overrides", route'[r]) /\ route'[r].arg = e
    BY <2>1 DEF Audits
  <2>6. TellsOverrides
    BY <1>1, <2>2
  <2> QED BY <1>11, <2>2, <2>3, <2>4, <2>5, <2>6, OverridesChanged
<1>12. ASSUME NEW r \in Requests, SetRoute(r) \/ ResetRoute(r) PROVE TellsOverrides'
  <2>1. CASE SetRoute(r)
    <3>1. PICK v \in Values :
            /\ Handle(r, "set", "audit", "overrides",
                      [told |-> "set", override |-> [key |-> route[r].arg, value |-> v]])
            /\ SetKey(r, route[r].arg, v) /\ audited' = audited
      BY <2>1 DEF SetRoute
    <3> DEFINE e == [told |-> "set", override |-> [key |-> route[r].arg, value |-> v]]
    <3>2. overrides' = OverridesTold(overrides, e) /\ up' = up
      BY <3>1 DEF SetKey, With, Without, OverridesTold
    <3>3. Handle(r, "set", "audit", "overrides", e)
      BY <3>1
    <3> HIDE DEF e
    <3> QED BY <1>11, <3>1, <3>2, <3>3
  <2>2. CASE ResetRoute(r)
    <3>1. PICK k \in Keys :
            /\ Handle(r, "idle", "audit", "overrides", [told |-> "reset", key |-> k])
            /\ ResetKey(r, k) /\ audited' = audited
      BY <2>2 DEF ResetRoute
    <3> DEFINE e == [told |-> "reset", key |-> k]
    <3>2. overrides' = OverridesTold(overrides, e) /\ up' = up
      BY <3>1 DEF ResetKey, Without, OverridesTold
    <3>3. Handle(r, "idle", "audit", "overrides", e)
      BY <3>1
    <3> HIDE DEF e
    <3> QED BY <1>11, <3>1, <3>2, <3>3
  <2> QED BY <1>12, <2>1, <2>2
<1>13. ASSUME NEW r \in Requests, SaveRoute(r) PROVE TellsOverrides'
  <2>1. UNCHANGED <<route, audited, clash>> /\ Save(r)
    BY <1>13 DEF SaveRoute
  <2>2. up /\ up' = up /\ overrides' = overrides
    BY <2>1 DEF Save, Snapshot, CreateTmp, WriteTmp, WriteFails, Rename, At
  <2>3. Present' = Present
    BY <2>2 DEF Present
  <2> QED BY <1>1, <2>1, <2>3 DEF TellsOverrides
<1>14. ASSUME NEW r \in Requests, Audit(r) PROVE TellsOverrides'
  <2>1. /\ audited'.overrides = OverridesTold(audited.overrides, route[r].arg)
        /\ UNCHANGED <<vars, clash>>
    BY <1>14 DEF Audit
  <2>2. /\ route[r].pc = "audit" /\ route'[r].pc = "append"
        /\ \A q \in Requests \ {r} : route'[q] = route[q]
    BY <1>14, AuditMovesOne
  <2>3. route[r].on \in {"registry", "overrides"} /\ EventOf(route[r].on, route[r].arg)
    BY <1>0, <2>2 DEF Local
  <2>4. TellsOverrides /\ OneOn("overrides")
    BY <1>1, <2>1
  <2> QED BY <1>0, <2>1, <2>2, <2>3, <2>4, OverridesRecorded
<1>17. ASSUME NEW r \in Requests, AppendLine(r) PROVE TellsOverrides'
  <2>1. UNCHANGED <<vars, audited, clash>>
    BY <1>17 DEF AppendLine
  <2>2. /\ route[r].pc = "append" /\ route'[r] = Between
        /\ \A q \in Requests \ {r} : route'[q] = route[q]
    BY <1>17, AppendMovesOne
  <2>3. ~Audits("overrides", route[r]) /\ ~Audits("overrides", route'[r])
    BY <2>2 DEF Audits, Between
  <2> QED BY <1>1, <2>1, <2>2, <2>3, OverridesLeftAlone
<1>15. CASE ConsoleKill
  <2>1. /\ up /\ ~up' /\ ~trouble /\ ~log.dropped /\ ~OnOverrides(log.stuck)
        /\ \A r \in Requests : route[r].on # "overrides"
        /\ clash \subseteq clash' /\ UNCHANGED diskVars
        /\ audited' = [overrides |-> log.overrides, units |-> 0]
        /\ route' = [r \in Requests |-> Between]
    BY <1>15 DEF ConsoleKill, Kill
  <2>2. \A r \in Requests : request[r].pc = "idle"
    BY <2>1 DEF Alone
  <2>3. overrides = Stored
    BY <2>1, <2>2 DEF DiskAlone, Disk
  <2>4. audited.overrides = overrides
    BY <1>1, <2>1 DEF TellsOverrides, Audits, Present
  <2>7. audited'.overrides = audited.overrides
    <3>1. "overrides" \notin clash
      BY <2>1
    <3>2. \A r \in Requests : ~Pends(route[r])
      BY <2>1 DEF Pends
    <3>3. audited.overrides = OverridesTold(log.overrides, log.stuck)
      BY <2>1, <3>1, <3>2 DEF Kept, Filed, Out
    <3>4. OverridesTold(log.overrides, log.stuck) = log.overrides
      BY <2>1 DEF OverridesTold, OnOverrides
    <3> QED BY <2>1, <3>3, <3>4
  <2>5. Present' = Stored
    BY <2>1 DEF Present, Stored, diskVars
  <2>6. \A r \in Requests : ~Audits("overrides", route'[r])
    BY <2>1 DEF Audits, Between
  <2> QED BY <2>3, <2>4, <2>5, <2>6, <2>7 DEF TellsOverrides
<1>16. CASE ConsoleRestart
  <2>1. ~up /\ up' /\ overrides' = Stored /\ UNCHANGED <<route, audited, clash>>
    BY <1>16 DEF ConsoleRestart, Restart, Stored
  <2>2. Present' = Present
    BY <2>1 DEF Present
  <2> QED BY <1>1, <2>1, <2>2 DEF TellsOverrides
<1> QED
  BY <1>3, <1>5, <1>6, <1>7, <1>8, <1>9, <1>10, <1>12, <1>13, <1>14, <1>15, <1>16, <1>17
     DEF ConsoleNext, Route

(* The same of the registry: what a step on the overrides leaves, ...      *)
LEMMA UnitsLeftAlone ==
  ASSUME NEW r \in Requests, TellsUnits, UNCHANGED <<audited, registry>>,
         \A q \in Requests \ {r} : route'[q] = route[q],
         route[r].on # "registry" \/ route[r].pc = "idle",
         route'[r].pc \in {"set", "audit"}, route'[r].on = "overrides"
  PROVE  TellsUnits'
<1>1. /\ ~Audits("registry", route[r]) /\ ~Audits("registry", route'[r])
      /\ route'[r].pc \notin {"clear", "register"}
  BY DEF Audits
<1>2. \A q \in Requests :
        IF q = r THEN ~Audits("registry", route[q]) /\ ~Audits("registry", route'[q])
                      /\ route'[q].pc \notin {"clear", "register"}
                 ELSE route'[q] = route[q]
  BY <1>1
<1> QED BY <1>2 DEF TellsUnits

(* ... a step of the only request on it that changes nothing yet, ...      *)
LEMMA UnitsRead ==
  ASSUME NEW r \in Requests, TellsUnits, UNCHANGED <<audited, registry>>,
         \A q \in Requests \ {r} : route'[q] = route[q],
         \A q \in Requests \ {r} : ~Audits("registry", route[q])
                                   /\ route[q].pc \notin {"clear", "register"},
         route[r].pc = "idle", route'[r].pc \in {"clear", "register"},
         route'[r].pc = "clear" => route'[r].arg.removed = Cardinality(registry),
         route'[r].pc = "register" => Cardinality(route'[r].arg) = Cardinality(registry) + 1
  PROVE  TellsUnits'
<1>1. ~Audits("registry", route[r]) /\ ~Audits("registry", route'[r])
  BY DEF Audits
<1>2. \A q \in Requests : ~Audits("registry", route[q]) /\ ~Audits("registry", route'[q])
  BY <1>1
<1>3. \A q \in Requests \ {r} : route'[q].pc \notin {"clear", "register"}
  OBVIOUS
<1>4. audited.units = Cardinality(registry)
  BY <1>2 DEF TellsUnits
<1> QED BY <1>2, <1>3, <1>4 DEF TellsUnits

(* ... and one that changes it.                                            *)
LEMMA UnitsChanged ==
  ASSUME NEW r \in Requests, audited' = audited,
         \A q \in Requests \ {r} : route'[q] = route[q],
         \A q \in Requests \ {r} : ~Audits("registry", route[q])
                                   /\ route[q].pc \notin {"clear", "register"},
         Audits("registry", route'[r]),
         UnitsTold(audited.units, route'[r].arg) = Cardinality(registry')
  PROVE  TellsUnits'
<1>1. \A q \in Requests \ {r} : ~Audits("registry", route'[q])
                                /\ route'[q].pc \notin {"clear", "register"}
  OBVIOUS
<1>2. route'[r].pc = "audit"
  BY DEF Audits
<1> QED BY <1>1, <1>2 DEF TellsUnits

LEMMA UnitsRecorded ==
  ASSUME NEW r \in Requests, TellsUnits, registry' = registry, OneOn("registry"),
         audited \in [overrides : SUBSET Override, units : Int],
         \A q \in Requests : Local(route[q]),
         route[r].pc = "audit", audited'.units = UnitsTold(audited.units, route[r].arg),
         route'[r].pc = "append", \A q \in Requests \ {r} : route'[q] = route[q]
  PROVE  TellsUnits'
<1>0. route[r].on \in {"registry", "overrides"} /\ EventOf(route[r].on, route[r].arg)
  BY DEF Local
<1>1. ~Audits("registry", route'[r]) /\ route'[r].pc \notin {"clear", "register"}
  BY DEF Audits
<1>2. CASE route[r].on = "registry"
  <2>1. audited'.units = Cardinality(registry)
    BY <1>0, <1>2 DEF TellsUnits, Audits
  <2>2. \A q \in Requests \ {r} : route'[q].on # "registry"
    BY <1>2 DEF OneOn
  <2>3. \A q \in Requests \ {r} : route'[q].pc \notin {"clear", "register"}
    BY <2>2 DEF Local
  <2>4. \A q \in Requests : ~Audits("registry", route'[q])
    BY <1>1, <2>2 DEF Audits
  <2> QED BY <1>1, <2>1, <2>3, <2>4 DEF TellsUnits
<1>3. CASE route[r].on = "overrides"
  <2>1. audited'.units = audited.units
    BY <1>0, <1>3, RecordOfOnePart
  <2>2. ~Audits("registry", route[r])
    BY <1>3 DEF Audits
  <2>3. \A q \in Requests :
          IF q = r THEN ~Audits("registry", route[q]) /\ ~Audits("registry", route'[q])
                        /\ route'[q].pc \notin {"clear", "register"}
                   ELSE route'[q] = route[q]
    BY <1>1, <2>2
  <2> QED BY <2>1, <2>3 DEF TellsUnits
<1> QED BY <1>0, <1>2, <1>3

(* One more unit than before, as its id is new.                            *)
LEMMA OneMore ==
  ASSUME NEW snap, IsFiniteSet(snap), NEW mu, ~Conflicts(snap, mu)
  PROVE  Cardinality(WithUnit(snap, mu)) = Cardinality(snap) + 1
<1>1. mu \notin snap
  BY DEF Conflicts
<1> QED BY <1>1, FS_AddElement DEF WithUnit

LEMMA UnitsStep ==
  ASSUME Inv, ConsoleType, Alone, Tells, [ConsoleNext]_consoleVars, "registry" \notin clash'
  PROVE  TellsUnits'
<1>0. /\ clash \subseteq Parts /\ "registry" \in Parts /\ "overrides" \in Parts
      /\ \A r \in Requests : Local(route[r])
      /\ audited \in [overrides : SUBSET Override, units : Int]
      /\ IsFiniteSet(registry)
  BY DEF ConsoleType, Parts
<1>1. clash \subseteq clash' => TellsUnits /\ OneOn("registry")
  BY DEF Tells, Alone
<1>2. ASSUME NEW r \in Requests, NEW from, NEW to, NEW arg,
             Handle(r, from, to, "registry", arg)
      PROVE  /\ TellsUnits /\ route[r].pc = from
             /\ route'[r] = [pc |-> to, on |-> "registry", arg |-> arg]
             /\ \A q \in Requests \ {r} : route'[q] = route[q]
             /\ \A q \in Requests \ {r} : ~Audits("registry", route[q])
                                          /\ route[q].pc \notin {"clear", "register"}
  <2>1. /\ clash \subseteq clash'
        /\ \A q \in Requests \ {r} : route[q].on # "registry"
    BY <1>0, <1>2, HandleTells
  <2>2. /\ route[r].pc = from
        /\ route'[r] = [pc |-> to, on |-> "registry", arg |-> arg]
        /\ \A q \in Requests \ {r} : route'[q] = route[q]
    BY <1>2, HandleMovesOne
  <2>3. \A q \in Requests \ {r} : ~Audits("registry", route[q])
                                  /\ route[q].pc \notin {"clear", "register"}
    BY <1>0, <2>1 DEF Local, Audits
  <2> QED BY <1>1, <2>1, <2>2, <2>3
<1>3. CASE UNCHANGED consoleVars
  BY <1>1, <1>3 DEF consoleVars, TellsUnits
<1>4. ASSUME NEW r \in Requests, LoadDocument(r) PROVE TellsUnits'
  <2>1. PICK doc \in Documents :
          /\ registry' = UnitsOf(doc) /\ audited' = audited
          /\ Handle(r, "idle", "audit", "registry",
                    [told |-> "loaded", units |-> Cardinality(UnitsOf(doc))])
    BY <1>4 DEF LoadDocument
  <2> DEFINE e == [told |-> "loaded", units |-> Cardinality(UnitsOf(doc))]
  <2>2. UnitsTold(audited.units, e) = Cardinality(registry')
    BY <2>1 DEF UnitsTold
  <2>3. Handle(r, "idle", "audit", "registry", e)
    BY <2>1
  <2> HIDE DEF e
  <2>4. /\ route'[r] = [pc |-> "audit", on |-> "registry", arg |-> e]
        /\ \A q \in Requests \ {r} : route'[q] = route[q]
        /\ \A q \in Requests \ {r} : ~Audits("registry", route[q])
                                     /\ route[q].pc \notin {"clear", "register"}
    BY <1>2, <2>3
  <2>5. Audits("registry", route'[r]) /\ route'[r].arg = e
    BY <2>4 DEF Audits
  <2> QED BY <2>1, <2>2, <2>4, <2>5, UnitsChanged
<1>5. ASSUME NEW r \in Requests, ClearCount(r) PROVE TellsUnits'
  <2>1. /\ UNCHANGED <<audited, registry>>
        /\ Handle(r, "idle", "clear", "registry", [removed |-> Cardinality(registry)])
    BY <1>5 DEF ClearCount
  <2>2. /\ TellsUnits /\ route[r].pc = "idle"
        /\ route'[r] = [pc |-> "clear", on |-> "registry",
                        arg |-> [removed |-> Cardinality(registry)]]
        /\ \A q \in Requests \ {r} : route'[q] = route[q]
        /\ \A q \in Requests \ {r} : ~Audits("registry", route[q])
                                     /\ route[q].pc \notin {"clear", "register"}
    BY <1>2, <2>1
  <2>3. route'[r].pc = "clear" /\ route'[r].arg.removed = Cardinality(registry)
    BY <2>2
  <2> QED BY <2>1, <2>2, <2>3, UnitsRead
<1>6. ASSUME NEW r \in Requests, ClearReplace(r) PROVE TellsUnits'
  <2> DEFINE e == [told |-> "cleared", removed |-> route[r].arg.removed]
  <2>1. /\ registry' = {} /\ audited' = audited
        /\ Handle(r, "clear", "audit", "registry", e)
    BY <1>6 DEF ClearReplace
  <2>2. e.told = "cleared" /\ e.removed = route[r].arg.removed
    OBVIOUS
  <2> HIDE DEF e
  <2>3. /\ TellsUnits /\ route[r].pc = "clear"
        /\ route'[r] = [pc |-> "audit", on |-> "registry", arg |-> e]
        /\ \A q \in Requests \ {r} : route'[q] = route[q]
        /\ \A q \in Requests \ {r} : ~Audits("registry", route[q])
                                     /\ route[q].pc \notin {"clear", "register"}
    BY <1>2, <2>1
  <2>4. audited.units = e.removed
    <3>1. ~Audits("registry", route[r])
      BY <2>3 DEF Audits
    <3> QED BY <2>2, <2>3, <3>1 DEF TellsUnits
  <2>5. UnitsTold(audited.units, e) = 0
    BY <1>0, <2>2, <2>4 DEF UnitsTold
  <2>6. Cardinality(registry') = 0
    BY <2>1, FS_EmptySet
  <2>7. Audits("registry", route'[r]) /\ route'[r].arg = e
    BY <2>3 DEF Audits
  <2> QED BY <2>1, <2>3, <2>5, <2>6, <2>7, UnitsChanged
<1>7. ASSUME NEW r \in Requests, RegisterRead(r) PROVE TellsUnits'
  <2>1. PICK form \in Forms :
          /\ ~Conflicts(registry, Built(form))
          /\ Handle(r, "idle", "register", "registry", WithUnit(registry, Built(form)))
          /\ UNCHANGED <<audited, registry>>
    BY <1>7 DEF RegisterRead
  <2> DEFINE units == WithUnit(registry, Built(form))
  <2>2. Cardinality(units) = Cardinality(registry) + 1
    BY <1>0, <2>1, OneMore
  <2> HIDE DEF units
  <2>3. Handle(r, "idle", "register", "registry", units)
    BY <2>1 DEF units
  <2>4. /\ TellsUnits /\ route[r].pc = "idle"
        /\ route'[r] = [pc |-> "register", on |-> "registry", arg |-> units]
        /\ \A q \in Requests \ {r} : route'[q] = route[q]
        /\ \A q \in Requests \ {r} : ~Audits("registry", route[q])
                                     /\ route[q].pc \notin {"clear", "register"}
    BY <1>2, <2>3
  <2>5. route'[r].pc = "register" /\ Cardinality(route'[r].arg) = Cardinality(registry) + 1
    BY <2>2, <2>4
  <2> QED BY <2>1, <2>4, <2>5, UnitsRead
<1>8. ASSUME NEW r \in Requests, RegisterReplace(r) PROVE TellsUnits'
  <2> DEFINE e == [told |-> "registered"]
  <2>1. /\ registry' = route[r].arg /\ audited' = audited
        /\ Handle(r, "register", "audit", "registry", e)
    BY <1>8 DEF RegisterReplace
  <2>2. UnitsTold(audited.units, e) = audited.units + 1
    BY DEF UnitsTold
  <2> HIDE DEF e
  <2>3. /\ TellsUnits /\ route[r].pc = "register"
        /\ route'[r] = [pc |-> "audit", on |-> "registry", arg |-> e]
        /\ \A q \in Requests \ {r} : route'[q] = route[q]
        /\ \A q \in Requests \ {r} : ~Audits("registry", route[q])
                                     /\ route[q].pc \notin {"clear", "register"}
    BY <1>2, <2>1
  <2>4. audited.units + 1 = Cardinality(route[r].arg)
    <3>1. ~Audits("registry", route[r])
      BY <2>3 DEF Audits
    <3> QED BY <2>3, <3>1 DEF TellsUnits
  <2>5. Audits("registry", route'[r]) /\ route'[r].arg = e
    BY <2>3 DEF Audits
  <2> QED BY <2>1, <2>2, <2>3, <2>4, <2>5, UnitsChanged
<1>9. ASSUME NEW r \in Requests, NEW from \in {"idle", "set"}, NEW to \in {"set", "audit"},
             NEW arg, Handle(r, from, to, "overrides", arg), UNCHANGED <<audited, registry>>
      PROVE  TellsUnits'
  <2>1. clash \subseteq clash'
    BY <1>0, <1>9, HandleTells
  <2>2. /\ route[r].pc = from
        /\ route'[r] = [pc |-> to, on |-> "overrides", arg |-> arg]
        /\ \A q \in Requests \ {r} : route'[q] = route[q]
    BY <1>9, HandleMovesOne
  <2>3. route[r].on # "registry" \/ route[r].pc = "idle"
    BY <1>0, <1>9, <2>2 DEF Local
  <2>4. route'[r].pc \in {"set", "audit"} /\ route'[r].on = "overrides"
    BY <1>9, <2>2
  <2>5. TellsUnits
    BY <1>1, <2>1
  <2> QED BY <1>9, <2>2, <2>3, <2>4, <2>5, UnitsLeftAlone
<1>10. ASSUME NEW r \in Requests, SetCheck(r) PROVE TellsUnits'
  BY <1>9, <1>10 DEF SetCheck
<1>11. ASSUME NEW r \in Requests, SetRoute(r) PROVE TellsUnits'
  BY <1>9, <1>11 DEF SetRoute
<1>12. ASSUME NEW r \in Requests, ResetRoute(r) PROVE TellsUnits'
  BY <1>9, <1>12 DEF ResetRoute
<1>13. ASSUME NEW r \in Requests, SaveRoute(r) PROVE TellsUnits'
  BY <1>1, <1>13 DEF SaveRoute, TellsUnits
<1>14. ASSUME NEW r \in Requests, Audit(r) PROVE TellsUnits'
  <2>1. /\ audited'.units = UnitsTold(audited.units, route[r].arg)
        /\ UNCHANGED <<registry, clash>>
    BY <1>14 DEF Audit
  <2>2. /\ route[r].pc = "audit" /\ route'[r].pc = "append"
        /\ \A q \in Requests \ {r} : route'[q] = route[q]
    BY <1>14, AuditMovesOne
  <2>3. TellsUnits /\ OneOn("registry")
    BY <1>1, <2>1
  <2> QED BY <1>0, <2>1, <2>2, <2>3, UnitsRecorded
<1>17. ASSUME NEW r \in Requests, AppendLine(r) PROVE TellsUnits'
  <2>1. UNCHANGED <<registry, audited, clash>>
    BY <1>17 DEF AppendLine
  <2>2. /\ route[r].pc = "append" /\ route'[r] = Between
        /\ \A q \in Requests \ {r} : route'[q] = route[q]
    BY <1>17, AppendMovesOne
  <2>3. /\ ~Audits("registry", route[r]) /\ ~Audits("registry", route'[r])
        /\ route'[r].pc \notin {"clear", "register"}
    BY <2>2 DEF Audits, Between
  <2>4. \A q \in Requests :
          IF q = r THEN ~Audits("registry", route[q]) /\ ~Audits("registry", route'[q])
                        /\ route'[q].pc \notin {"clear", "register"}
                   ELSE route'[q] = route[q]
    BY <2>2, <2>3
  <2> QED BY <1>1, <2>1, <2>4 DEF TellsUnits
<1>15. CASE ConsoleKill
  <2>1. /\ registry' = {} /\ audited' = [overrides |-> log.overrides, units |-> 0]
        /\ route' = [r \in Requests |-> Between]
    BY <1>15 DEF ConsoleKill
  <2>2. audited'.units = 0 /\ Cardinality(registry') = 0
    BY <1>0, <2>1, FS_EmptySet
  <2>3. \A r \in Requests : ~Audits("registry", route'[r]) /\ route'[r].pc = "idle"
    BY <2>1 DEF Audits, Between
  <2> QED BY <2>2, <2>3 DEF TellsUnits
<1>16. CASE ConsoleRestart
  BY <1>1, <1>16 DEF ConsoleRestart, TellsUnits
<1> QED
  BY <1>3, <1>4, <1>5, <1>6, <1>7, <1>8, <1>10, <1>11, <1>12, <1>13, <1>14, <1>15, <1>16, <1>17
     DEF ConsoleNext, Route

LEMMA TellsInit == ConsoleInit => Tells
<1> SUFFICES ASSUME ConsoleInit PROVE TellsOverrides /\ TellsUnits
  BY DEF Tells
<1>1. \A r \in Requests : route[r].pc = "idle"
  BY DEF ConsoleInit, Between
<1>2. audited.overrides = {} /\ audited.units = 0 /\ Present = {} /\ registry = {}
  BY DEF ConsoleInit, Init, Present
<1>3. Cardinality(registry) = 0
  BY <1>2, FS_EmptySet
<1> QED BY <1>1, <1>2, <1>3 DEF TellsOverrides, TellsUnits, Audits

(* With no request in flight, the audit log tells the overrides and how    *)
(* many units are registered, across restarts that read it back and on a   *)
(* disk that fails, for every set of requests, keys, documents and forms,  *)
(* under AuditTells' conditions: an append that failed does not matter if  *)
(* its line came out before the kill.                                      *)
THEOREM LogTells == ConsoleSpec => []AuditTells
<1>1. /\ Inv /\ ConsoleType /\ Alone /\ DiskAlone /\ Kept /\ Tells
      /\ [ConsoleNext]_consoleVars
      => Tells'
  BY OverridesStep, UnitsStep DEF Tells
<1>2. ConsoleSpec => []Tells
  BY <1>1, DiskInvariance, KeptInit, KeptStep, TellsInit, PTL DEF ConsoleSpec
<1>3. ConsoleType /\ Tells => AuditTells
  <2> SUFFICES ASSUME ConsoleType, Tells, NoRequest
               PROVE  /\ clash \cap {"overrides", "killed"} = {} => audited.overrides = overrides
                      /\ "registry" \notin clash => audited.units = Cardinality(registry)
    BY DEF AuditTells
  <2>1. \A r \in Requests : route[r].pc = "idle"
    BY DEF NoRequest, RouteAt
  <2>2. \A r \in Requests : ~Audits("overrides", route[r]) /\ ~Audits("registry", route[r])
    BY <2>1 DEF Audits
  <2>3. "registry" \notin clash => audited.units = Cardinality(registry)
    BY <2>2 DEF Tells, TellsUnits
  <2>4. clash \cap {"overrides", "killed"} = {} => audited.overrides = Present
    BY <2>2 DEF Tells, TellsOverrides
  <2> QED BY <2>3, <2>4 DEF Present, NoRequest
<1> QED BY <1>2, <1>3, TypeInvariance, PTL

===============================================================================
