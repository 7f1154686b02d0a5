------------------------------ MODULE ConsoleConfig ------------------------------
(***************************************************************************)
(* The console's configuration routes: the channel registry an SCD upload, *)
(* a clear or a manual registration replaces, the calibration routes over  *)
(* OperationalState, and the audit record each handler writes last: into   *)
(* the ring, then into the file.  Of the log (AuditLog has its numbers and *)
(* lines) there is what someone who reads it concludes.  A Merging Unit is *)
(* [id, channels]; an SCD file is its IEDs [id, publishes, channels] and   *)
(* its access points [ied, ok].                                            *)
(***************************************************************************)
EXTENDS OperationalState

CONSTANTS
  Documents,            \* the SCD files uploaded, and the sample
  Forms,                \* the manual registrations [id, v, i]: v_count and i_count
  MaxConfigs            \* bound: registry requests

ASSUME ConsoleAssumption ==
  /\ MaxConfigs \in Nat
  /\ \A doc \in Documents : IsFiniteSet(doc.ieds)

VARIABLES
  registry,             \* ChannelRegistry, the units as a set
  route,                \* per request: the handler's pc and its locals
  configs,              \* history: registry requests made
  audited,              \* the ring: the overrides and number of units it tells
  log,                  \* the file: the overrides its lines tell, the event whose
                        \* line is stuck in the LineWriter, and (history) whether
                        \* the line of a calibration was dropped
  clash                 \* history: the parts two requests overlapped on, and
                        \* whether a kill cost the log a calibration

consoleVars == <<vars, registry, route, configs, audited, log, clash>>

Nothing == [told |-> "nothing"]
Between == [pc |-> "idle", on |-> "none", arg |-> {}]

ConsoleInit ==
  /\ Init
  /\ registry = {}
  /\ route = [r \in Requests |-> Between]
  /\ configs = 0
  /\ audited = [overrides |-> {}, units |-> 0]
  /\ log = [overrides |-> {}, stuck |-> Nothing, dropped |-> FALSE]
  /\ clash = {}

RouteAt(r, pc) == up /\ route[r].pc = pc

\* Every step of a handler: it is at pc, and works on one part of the state.
Handle(r, from, to, on, arg) ==
  /\ RouteAt(r, from)
  /\ route' = [route EXCEPT ![r] = [pc |-> to, on |-> on, arg |-> arg]]
  /\ clash' = IF \E q \in Requests \ {r} : route[q].on = on THEN clash \cup {on} ELSE clash

Configure == configs < MaxConfigs /\ configs' = configs + 1

-------------------------------------------------------------------------------
\* parse_scd: the IEDs that publish sampled values; others are skipped.
UnitsOf(doc) == {[id |-> i.id, channels |-> i.channels] : i \in {j \in doc.ieds : j.publishes}}

\* A MAC or APPID that does not parse fails the document, if a unit has it.
Parses(doc) == \A ap \in doc.aps : ap.ok \/ \A u \in UnitsOf(doc) : u.id # ap.ied

\* api_upload_scd and api_load_sample_scd; a refused document changes nothing.
LoadDocument(r) ==
  \E doc \in Documents :
    /\ Configure
    /\ Parses(doc)
    /\ registry' = UnitsOf(doc)
    /\ Handle(r, "idle", "audit", "registry",
              [told |-> "loaded", units |-> Cardinality(UnitsOf(doc))])
    /\ UNCHANGED <<vars, audited, log>>

\* api_clear_registry: the count, then the replacement.
ClearCount(r) ==
  /\ Configure
  /\ Handle(r, "idle", "clear", "registry", [removed |-> Cardinality(registry)])
  /\ UNCHANGED <<vars, registry, audited, log>>

ClearReplace(r) ==
  /\ RouteAt(r, "clear")
  /\ registry' = {}
  /\ Handle(r, "clear", "audit", "registry",
            [told |-> "cleared", removed |-> route[r].arg.removed])
  /\ UNCHANGED <<vars, configs, audited, log>>

\* Mutant of Conflicts: a registration that looks for the same unit, not the
\* same id.
ConflictsWithSame(snap, mu) == mu \in snap

Conflicts(snap, mu) == \E m \in snap : m.id = mu.id

\* Mutant of WithUnit: the list forgotten.
WithUnitOnly(snap, mu) == {mu}

WithUnit(snap, mu) == snap \cup {mu}

AtMostFour(count) == IF count < 4 THEN count ELSE 4

\* build_mu: four phases of each kind at most.
Built(form) == [id |-> form.id, channels |-> AtMostFour(form.v) + AtMostFour(form.i)]

\* api_register_mu: a snapshot is checked and extended ...
RegisterRead(r) ==
  \E form \in Forms :
    /\ Configure
    /\ ~Conflicts(registry, Built(form))
    /\ Handle(r, "idle", "register", "registry", WithUnit(registry, Built(form)))
    /\ UNCHANGED <<vars, registry, audited, log>>

\* ... and replaces whatever the registry holds by then.
RegisterReplace(r) ==
  /\ Handle(r, "register", "audit", "registry", [told |-> "registered"])
  /\ registry' = route[r].arg
  /\ UNCHANGED <<vars, configs, audited, log>>

-------------------------------------------------------------------------------
\* mu_and_channel_exist; a calibration key is [mu, idx].  Of several units with the id
\* it looks at the first, any here.
Exists(k) == \E m \in registry : m.id = k.mu /\ k.idx < m.channels

\* api_set checks the registry first ...
SetCheck(r) ==
  \E k \in Keys :
    /\ Exists(k) /\ edits < MaxEdits
    /\ Handle(r, "idle", "set", "overrides", k)
    /\ UNCHANGED <<vars, registry, configs, audited, log>>

\* ... and then sets and saves.
SetRoute(r) ==
  \E v \in Values :
    /\ Handle(r, "set", "audit", "overrides",
              [told |-> "set", override |-> [key |-> route[r].arg, value |-> v]])
    /\ SetKey(r, route[r].arg, v)
    /\ UNCHANGED <<registry, configs, audited, log>>

\* api_reset asks no registry.
ResetRoute(r) ==
  \E k \in Keys :
    /\ Handle(r, "idle", "audit", "overrides", [told |-> "reset", key |-> k])
    /\ ResetKey(r, k)
    /\ UNCHANGED <<registry, configs, audited, log>>

SaveRoute(r) == Save(r) /\ UNCHANGED <<registry, route, configs, audited, log, clash>>

-------------------------------------------------------------------------------
\* What one more record tells a reader of the log, of the overrides ...
OverridesTold(set, e) ==
  CASE e.told = "set"   -> {o \in set : o.key # e.override.key} \cup {e.override}
    [] e.told = "reset" -> {o \in set : o.key # e.key}
    [] OTHER            -> set

\* ... and of the number of units.
UnitsTold(n, e) ==
  CASE e.told = "loaded"     -> e.units
    [] e.told = "cleared"    -> n - e.removed
    [] e.told = "registered" -> n + 1
    [] OTHER                 -> n

\* audit::record, when the change was made and its save has ended: first the ring ...
Audit(r) ==
  LET e == route[r].arg
  IN  /\ At(r, "idle")
      /\ RouteAt(r, "audit")
      /\ audited' = [overrides |-> OverridesTold(audited.overrides, e),
                     units |-> UnitsTold(audited.units, e)]
      /\ route' = [route EXCEPT ![r] = [pc |-> "append", on |-> @.on, arg |-> e]]
      /\ UNCHANGED <<vars, registry, configs, log, clash>>

OnOverrides(e) == e.told \in {"set", "reset"}

\* ... then persist_line.  The stuck line goes out first; a line that cannot be
\* written gets stuck, or is dropped if one is stuck still.  Errors are swallowed.
AppendLine(r) ==
  LET e   == route[r].arg
      out == OverridesTold(log.overrides, log.stuck)
  IN  /\ RouteAt(r, "append")
      /\ \/ log' = [log EXCEPT !.overrides = OverridesTold(out, e), !.stuck = Nothing]
         \/ DiskFails /\ log' = [log EXCEPT !.overrides = out, !.stuck = e]
         \/ /\ DiskFails /\ log.stuck # Nothing
            /\ log' = [log EXCEPT !.dropped = @ \/ OnOverrides(e)]
      /\ route' = [route EXCEPT ![r] = Between]
      /\ UNCHANGED <<vars, registry, configs, audited, clash>>

\* The registry is in memory only, and so are the ring, which the next start fills
\* from the file, and the stuck line.
ConsoleKill ==
  /\ Kill
  /\ registry' = {}
  /\ route' = [r \in Requests |-> Between]
  /\ audited' = [overrides |-> log.overrides, units |-> 0]
  /\ log' = [log EXCEPT !.stuck = Nothing]
  /\ clash' = IF \/ trouble \/ log.dropped \/ OnOverrides(log.stuck)
                \/ \E r \in Requests : route[r].on = "overrides"
              THEN clash \cup {"killed"} ELSE clash
  /\ UNCHANGED configs

ConsoleRestart == Restart /\ UNCHANGED <<registry, route, configs, audited, log, clash>>

Route(r) ==
  \/ LoadDocument(r)
  \/ ClearCount(r) \/ ClearReplace(r)
  \/ RegisterRead(r) \/ RegisterReplace(r)
  \/ SetCheck(r) \/ SetRoute(r) \/ ResetRoute(r) \/ SaveRoute(r)
  \/ Audit(r) \/ AppendLine(r)

ConsoleNext == (\E r \in Requests : Route(r)) \/ ConsoleKill \/ ConsoleRestart

ConsoleSpec == ConsoleInit /\ [][ConsoleNext]_consoleVars

-------------------------------------------------------------------------------
Units == (UNION {UnitsOf(doc) : doc \in Documents}) \cup {Built(form) : form \in Forms}
Parts == {"registry", "overrides", "killed"}
NoRequest == up /\ \A r \in Requests : RouteAt(r, "idle") /\ At(r, "idle")

(* Every variable has its type, and a channel has at most one override.    *)
ConsoleTypeOK ==
  /\ TypeOK
  /\ registry \subseteq Units
  /\ \A r \in Requests :
       /\ route[r].pc \in {"idle", "audit", "append", "clear", "register", "set"}
       /\ route[r].on \in {"none", "registry", "overrides"}
  /\ configs \in 0 .. MaxConfigs
  /\ audited.overrides \subseteq Override /\ audited.units \in Int
  /\ log.overrides \subseteq Override
  /\ clash \subseteq Parts

(* However registrations, clears and uploads interleave, no request adds a *)
(* second unit with an id that is registered (config.rs api_register_mu's  *)
(* conflict check; mu_and_channel_exist and mu_detail find a unit by its   *)
(* id): two units share an id only as one document had them, for parse_scd *)
(* does not refuse a file that names two IEDs alike.                       *)
DistinctIds ==
  \A m, n \in registry :
    m.id = n.id => m = n \/ \E doc \in Documents : {m, n} \subseteq UnitsOf(doc)

(* As long as no two calibration requests overlapped - registry requests   *)
(* may, with them and with each other - every kill finds a complete file.  *)
WholeAlone == "overrides" \notin clash => FileIsWhole

(* ... and with no request in flight and no failed save the file holds the *)
(* overrides the operator sees, restarts in between included.              *)
SavedAlone == "overrides" \notin clash => SavedWhenQuiet

(* The audit log tells the configuration in effect, also when it was read  *)
(* back from its file: the overrides, unless two calibration requests      *)
(* overlapped, or a kill found a calibration that was not saved, or whose  *)
(* record was not in the file, the append pending, failed or dropped; and  *)
(* how many units are registered (what was loaded, less what each clear    *)
(* says it removed, plus the registrations), unless two registry requests  *)
(* overlapped.                                                             *)
AuditTells ==
  NoRequest =>
    /\ clash \cap {"overrides", "killed"} = {} => audited.overrides = overrides
    /\ "registry" \notin clash => audited.units = Cardinality(registry)
===============================================================================
