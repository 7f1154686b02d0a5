--------------------------------- MODULE Boot --------------------------------
(***************************************************************************)
(* The daemon's main: from its arguments to a serving console, or to an    *)
(* exit code.  The sockets are the system's: another process may take or   *)
(* leave one between any two steps, the OPC UA server binds its own in a   *)
(* task of its own, and Ctrl-C may come at any time.                       *)
(***************************************************************************)
EXTENDS CliConfig, FiniteSetsExt

CONSTANTS Starts,         \* the arguments and environments: [args, env]
          LocalIps,       \* the addresses this host has, the wildcard among them
          MulticastIps,   \* 224.0.0.0/4
          MaxMoves        \* how often other processes take or leave a socket

ASSUME BootAssumption == \A s \in Starts : s.args \in Seq(STRING)

VARIABLES start,          \* the [args, env] of this process
          pc,             \* where main is
          cfg,            \* the resolved configuration, if there is one
          loaded,         \* which persistence files were read
          sockets,        \* the sockets this process holds: [service, socket]
          taken, moves,   \* the sockets of other processes, and their bound
          feed, l1,       \* the pipeline's external_feed and l1_opcua marks
          l0Task,         \* the L0 demo's task: "none", "spawned", "active" (and marked so)
          opcuaTask,      \* the OPC UA server's task: "none", "spawned", "running", "ended"
          watched,        \* whether a client reads the console's event stream
          code            \* the exit code, if the process has ended
vars == <<start, pc, cfg, loaded, sockets, taken, moves, feed, l1, l0Task, opcuaTask, watched, code>>
daemonVars == <<start, cfg, loaded, feed, l1, l0Task>>
worldVars == <<taken, moves>>

Steps == {"resolve", "operational", "audit", "runtime", "probe", "probe_udp", "ingress",
          "demo", "opcua", "console", "serving", "draining", "exited"}

Socket(protocol, addr) == [protocol |-> protocol, ip |-> addr.ip, port |-> addr.port]
Wildcard == "0.0.0.0"
Clash(s, t) == /\ s.protocol = t.protocol /\ s.port = t.port
               /\ s.ip = t.ip \/ Wildcard \in {s.ip, t.ip}
Ours == {h.socket : h \in sockets}
\* bind succeeds on an address of this host that no socket is bound to.
Binds(s) == s.ip \in LocalIps \cup MulticastIps /\ \A t \in Ours \cup taken : ~Clash(s, t)

Config == CHOOSE c \in cfg : TRUE
Console == Socket("tcp", Config.uiBind)
Feed == {Socket("udp", a) : a \in Config.ingress}
Opcua == {Socket("tcp", a) : a \in Config.opcua}
Hold(service, s) == sockets' = sockets \cup {[service |-> service, socket |-> s]}

Exit(c) == /\ pc' = "exited" /\ code' = c /\ sockets' = {} /\ watched' = FALSE
           /\ opcuaTask' = IF opcuaTask = "none" THEN "none" ELSE "ended"
Goto(step) == pc' = step /\ UNCHANGED <<code, sockets, watched, opcuaTask>>
-------------------------------------------------------------------------------
Init ==
  /\ start \in Starts
  /\ pc = "resolve" /\ cfg = {} /\ loaded = {} /\ sockets = {}
  /\ taken = {} /\ moves = 0
  /\ feed = FALSE /\ l1 = FALSE /\ l0Task = "none"
  /\ opcuaTask = "none" /\ watched = FALSE /\ code = "none"

Resolve ==
  /\ pc = "resolve"
  /\ LET resolved == ResolveConfig(start.args, start.env)
     IN  \/ Help(start.args) /\ Exit("success") /\ cfg' = cfg
         \/ ~Help(start.args) /\ resolved = {} /\ Exit("failure") /\ cfg' = cfg
         \/ ~Help(start.args) /\ resolved # {} /\ Goto("operational") /\ cfg' = resolved
  /\ UNCHANGED <<start, loaded, feed, l1, l0Task, worldVars>>

\* A plausible slip: the failure is only reported.
LoadLeniently(step, name, path, next) ==
  /\ pc = step
  /\ Goto(next)
  /\ \/ path = {} /\ UNCHANGED loaded
     \/ path # {} /\ loaded' \in {loaded, loaded \cup {name}}
  /\ UNCHANGED <<start, cfg, feed, l1, l0Task, worldVars>>
\* configure_persistence reads the file; one that cannot be read or parsed ends main.
Load(step, name, path, next) ==
  /\ pc = step
  /\ \/ path = {} /\ Goto(next) /\ UNCHANGED loaded
     \/ path # {} /\ Goto(next) /\ loaded' = loaded \cup {name}
     \/ path # {} /\ Exit("failure") /\ UNCHANGED loaded
  /\ UNCHANGED <<start, cfg, feed, l1, l0Task, worldVars>>
LoadOperational == Load("operational", "operational", Config.operational, "audit")
LoadAudit == Load("audit", "audit", Config.audit, "runtime")

\* Without the console main ends here; else the tokio runtime is built, or is not.
Runtime ==
  /\ pc = "runtime"
  /\ \/ ~Config.ui /\ Exit("success")
     \/ Config.ui /\ Exit("failure")
     \/ Config.ui /\ Goto("probe")
  /\ UNCHANGED <<daemonVars, worldVars>>

\* Both probes bind and drop the socket at once.
Probe(step, ss, next) ==
  /\ pc = step
  /\ IF \A s \in ss : Binds(s) THEN Goto(next) ELSE Exit("failure")
  /\ UNCHANGED <<daemonVars, worldVars>>
ProbeConsole == Probe("probe", {Console}, "probe_udp")
ProbeIngress == Probe("probe_udp", Feed, "ingress")

-------------------------------------------------------------------------------
\* The three outcomes of spawn_udp_ingress: not asked for; bound, marked, and its two
\* threads running; or no socket, no group to join, or no thread.
NoIngress == Feed = {} /\ Goto("demo") /\ UNCHANGED feed
IngressUp ==
  \E s \in Feed :
    /\ Binds(s) /\ Hold("ingress", s) /\ feed' = TRUE
    /\ pc' = "demo" /\ UNCHANGED <<code, watched, opcuaTask>>
\* A plausible slip: main goes on without the feed.
IngressIgnored == Feed # {} /\ Goto("demo") /\ UNCHANGED feed
IngressDown ==
  \E s \in Feed :
    /\ Exit("failure")
    /\ IF Binds(s) THEN feed' \in BOOLEAN ELSE UNCHANGED feed

SpawnUdpIngress ==
  /\ pc = "ingress"
  /\ NoIngress \/ IngressUp \/ IngressDown
  /\ UNCHANGED <<start, cfg, loaded, l1, l0Task, worldVars>>

\* spawn_l0_demo: the mark is set by the task, when it runs.
SpawnL0Demo ==
  /\ pc = "demo" /\ Goto("opcua")
  /\ l0Task' = IF Config.l0Demo THEN "spawned" ELSE "none"
  /\ UNCHANGED <<start, cfg, loaded, feed, l1, worldVars>>
RunL0Demo ==
  /\ l0Task = "spawned" /\ pc # "exited"
  /\ l0Task' = "active"
  /\ UNCHANGED <<start, cfg, loaded, feed, l1, pc, sockets, opcuaTask, watched, code, worldVars>>

\* spawn_l1_opcua_server marks L1 active when the server is built; the builder's error
\* is only printed.
StartOpcua ==
  /\ pc = "opcua" /\ pc' = "console"
  /\ \/ UNCHANGED <<l1, opcuaTask>>
     \/ Opcua # {} /\ l1' = TRUE /\ opcuaTask' = "spawned"
  /\ UNCHANGED <<start, cfg, loaded, feed, l0Task, code, sockets, watched, worldVars>>

\* Server::run in its task binds the listener; its error ends the task and nothing else.
RunOpcua ==
  /\ opcuaTask = "spawned"
  /\ \E s \in Opcua :
       IF Binds(s) THEN Hold("opcua", s) /\ opcuaTask' = "running"
       ELSE opcuaTask' = "ended" /\ UNCHANGED sockets
  /\ UNCHANGED <<daemonVars, pc, watched, code, worldVars>>

\* start_console binds again what the probe let go.
StartConsole ==
  /\ pc = "console"
  /\ IF Binds(Console)
     THEN /\ Hold("console", Console) /\ pc' = "serving"
          /\ UNCHANGED <<code, watched, opcuaTask>>
     ELSE Exit("failure")
  /\ UNCHANGED <<daemonVars, worldVars>>

\* Ctrl-C: before the console serves it kills the process; then it closes the
\* listener, and main goes on when the last response is complete.
Interrupt ==
  /\ pc \notin {"draining", "exited"}
  /\ IF pc = "serving"
     THEN /\ pc' = "draining" /\ sockets' = {h \in sockets : h.service # "console"}
          /\ UNCHANGED <<code, watched, opcuaTask>>
     ELSE Exit("killed")
  /\ UNCHANGED <<daemonVars, worldVars>>
Drained == pc = "draining" /\ ~watched /\ Exit("success") /\ UNCHANGED <<daemonVars, worldVars>>

\* An event stream has no end: it stays until its client leaves.
Watch == /\ \/ pc = "serving" /\ ~watched
            \/ pc \in {"serving", "draining"} /\ watched
         /\ watched' = ~watched
         /\ UNCHANGED <<daemonVars, pc, sockets, opcuaTask, code, worldVars>>

Others ==
  /\ moves < MaxMoves /\ moves' = moves + 1
  /\ \/ \E s \in Feed \cup Opcua \cup {Console} : Binds(s) /\ taken' = taken \cup {s}
     \/ \E s \in taken : taken' = taken \ {s}
  /\ UNCHANGED <<daemonVars, pc, sockets, opcuaTask, watched, code>>

Next ==
  \/ Resolve \/ LoadOperational \/ LoadAudit \/ Runtime \/ ProbeConsole \/ ProbeIngress
  \/ SpawnUdpIngress \/ SpawnL0Demo \/ RunL0Demo \/ StartOpcua \/ RunOpcua \/ StartConsole
  \/ Interrupt \/ Drained \/ Watch
  \/ cfg # {} /\ pc # "exited" /\ Others

Spec == Init /\ [][Next]_vars

-------------------------------------------------------------------------------
\* What the arguments say, read without a loop: an argument is a value if the one
\* before it is an option that takes it.
IsValue ==
  LET value[i \in 0 .. Len(start.args)] ==
        /\ i > 1 /\ ~value[i - 1]
        /\ \/ start.args[i - 1] \in ValueOptions
           \/ start.args[i - 1] = "--enable-opcua" /\ start.args[i] \in AddressLike
  IN  value
Given(option) == {i \in DOMAIN start.args : start.args[i] = option /\ ~IsValue[i]}
Values(option) ==
  IF Given(option) = {} THEN {}
  ELSE LET i == Max(Given(option)) + 1
       IN  {start.args[j] : j \in {j \in {i} \cap DOMAIN start.args : IsValue[j]}}
\* The last value given for an option, else the variable's, else the default.
Told(option, variable, default) ==
  IF Given(option) = {} THEN IF start.env[variable] = {} THEN default ELSE Parsed(start.env[variable])
  ELSE IF Values(option) = {} THEN default ELSE Parsed(Values(option))
Allowed == Given("--allow-insecure-bind") # {} \/ On(start.env, "SVDC_ALLOW_INSECURE_BIND")

\* Every socket the daemon listens on is the one it was last told, by an option, else by
\* the environment, else the default; and the OPC UA server, which has no security,
\* leaves the loopback only if that was allowed, by the option itself and not by its
\* text in another option's place (resolve_config and ADR-0017).
ListensWhereTold ==
  \A h \in sockets :
    CASE h.service = "console" ->
           h.socket \in {Socket("tcp", a) : a \in Told("--ui-bind", "SVDC_UI_BIND", {DefaultUi})}
      [] h.service = "ingress" ->
           h.socket \in {Socket("udp", a) : a \in Told("--ingress-udp", "SVDC_INGRESS_UDP", {})}
      [] h.service = "opcua" ->
           /\ h.socket \in {Socket("tcp", a) : a \in
                              Told("--enable-opcua", "SVDC_OPCUA_BIND", {DefaultOpcua})}
           /\ h.socket.ip \in LoopbackIps \/ Allowed

Asks(option, variable) == Given(option) # {} \/ start.env[variable] # {}

\* Nothing serves, listens or reads ticks before the operational state and the audit
\* trail that were asked for are loaded: no request meets calibrations or a trail that
\* a file would still replace, or that no file will keep (main.rs:330-362).
StateBeforeService ==
  (sockets # {} \/ l0Task # "none" \/ opcuaTask # "none") =>
    /\ Asks("--operational-config", "SVDC_OPERATIONAL_CONFIG") => "operational" \in loaded
    /\ Asks("--audit-log", "SVDC_AUDIT_LOG") => "audit" \in loaded

\* A console that serves has the live feed it was started with: the pipeline is marked
\* externally fed, which refuses the synthetic feed, exactly if the daemon holds the
\* socket it was told to receive on, whoever took ports meanwhile.  And success means
\* help, headless, or an interrupted console.
ServesWhatWasAsked ==
  /\ pc = "serving" =>
       /\ \E h \in sockets : h.service = "console"
       /\ feed <=> Asks("--ingress-udp", "SVDC_INGRESS_UDP")
       /\ feed <=> \E h \in sockets : h.service = "ingress"
  /\ code = "success" =>
       \/ Help(start.args)
       \/ cfg # {} /\ ~Config.ui
       \/ feed = Asks("--ingress-udp", "SVDC_INGRESS_UDP")
===============================================================================
