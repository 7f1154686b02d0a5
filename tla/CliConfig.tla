------------------------------- MODULE CliConfig -----------------------------
(***************************************************************************)
(* resolve_config: what the daemon makes of its arguments and its          *)
(* environment.  A text is a value; what a text is as a socket address is  *)
(* given by Addresses, and AddressLike are the texts that --enable-opcua   *)
(* takes for one: they hold a colon and start with no dash.  A value that  *)
(* may be absent is a set of at most one element.                          *)
(***************************************************************************)
EXTENDS Integers, SequencesExt

CONSTANTS Addresses,      \* what str::parse::<SocketAddr> makes of a text: [ip, port]
          AddressLike,    \* the texts with a colon that are no option
          LoopbackIps     \* 127.0.0.0/8 and ::1

ASSUME CliAssumption == \A t \in DOMAIN Addresses : Addresses[t].port \in Nat

ValueOptions == {"--ui-bind", "--operational-config", "--audit-log", "--ingress-udp"}
Flags == {"--enable-l0-demo", "--allow-insecure-bind"}
Variables == {"SVDC_UI", "SVDC_NO_UI", "SVDC_UI_BIND", "SVDC_OPERATIONAL_CONFIG",
              "SVDC_AUDIT_LOG", "SVDC_INGRESS_UDP", "SVDC_ENABLE_L0_DEMO",
              "SVDC_OPCUA_BIND", "SVDC_ALLOW_INSECURE_BIND"}

DefaultUi == [ip |-> "127.0.0.1", port |-> 8080]
DefaultOpcua == [ip |-> "127.0.0.1", port |-> 4840]

Help(args) == \E i \in DOMAIN args : args[i] \in {"--help", "-h"}

\* Before any argument.  opcua is {} without the option, {{}} for the option alone
\* and {{a}} with an address; wants is the option whose value is still to come.
NoArguments ==
  [refused |-> FALSE, wants |-> {}, values |-> [o \in ValueOptions |-> {}],
   ui |-> {}, opcua |-> {}, flags |-> {}]

\* One turn of the argument loop, once the value of the turn before is settled.
Option(cli, a) ==
  CASE a \in ValueOptions -> [cli EXCEPT !.wants = {a}]
    [] a = "--enable-opcua" -> [cli EXCEPT !.opcua = {{}}, !.wants = {a}]
    [] a \in Flags -> [cli EXCEPT !.flags = @ \cup {a}]
    [] a \in {"--ui", "--no-ui"} ->
         [cli EXCEPT !.ui = {a}, !.refused = cli.ui \notin {{}, {a}}]
    [] OTHER -> [cli EXCEPT !.refused = TRUE]

Argument(cli, a) ==
  IF cli.refused THEN cli
  ELSE CASE cli.wants \cap ValueOptions # {} ->
              [cli EXCEPT !.values[CHOOSE o \in cli.wants : TRUE] = {a}, !.wants = {}]
         [] cli.wants = {"--enable-opcua"} /\ a \in AddressLike ->
              [cli EXCEPT !.opcua = {{a}}, !.wants = {}]
         [] OTHER -> Option([cli EXCEPT !.wants = {}], a)

Arguments(args) == FoldLeft(Argument, NoArguments, args)
MissingValue(cli) == cli.wants \cap ValueOptions # {}

-------------------------------------------------------------------------------
On(env, variable) == env[variable] = {"1"}
\* A plausible slip: the environment wins over the command line.
PreferEnvironment(cli, env) == IF env # {} THEN env ELSE cli
Prefer(cli, env) == IF cli # {} THEN cli ELSE env

Parsed(texts) == {Addresses[t] : t \in texts}
Valid(texts) == texts \subseteq DOMAIN Addresses
IsLoopback(addr) == addr.ip \in LoopbackIps

\* resolve_config: {} for any of its errors but HelpRequested, which main tells apart.
ResolveConfig(args, env) ==
  LET cli == Arguments(args)
      bind == Prefer(cli.values["--ui-bind"], env["SVDC_UI_BIND"])
      ingress == Prefer(cli.values["--ingress-udp"], env["SVDC_INGRESS_UDP"])
      opcua == Prefer(cli.opcua, {{t} : t \in env["SVDC_OPCUA_BIND"]})
      insecure == "--allow-insecure-bind" \in cli.flags \/ On(env, "SVDC_ALLOW_INSECURE_BIND")
      opcuaBind == {IF o = {} THEN DefaultOpcua ELSE CHOOSE a \in Parsed(o) : TRUE : o \in opcua}
      accepted ==
        /\ ~cli.refused /\ ~MissingValue(cli)
        /\ ~(On(env, "SVDC_UI") /\ On(env, "SVDC_NO_UI"))
        /\ Valid(bind) /\ Valid(ingress) /\ \A o \in opcua : Valid(o)
        /\ \A a \in opcuaBind : IsLoopback(a) \/ insecure
  IN  IF ~accepted THEN {}
      ELSE {[ui |-> IF cli.ui # {} THEN cli.ui = {"--ui"} ELSE ~On(env, "SVDC_NO_UI"),
             uiBind |-> IF bind = {} THEN DefaultUi ELSE CHOOSE a \in Parsed(bind) : TRUE,
             operational |-> Prefer(cli.values["--operational-config"],
                                    env["SVDC_OPERATIONAL_CONFIG"]),
             audit |-> Prefer(cli.values["--audit-log"], env["SVDC_AUDIT_LOG"]),
             ingress |-> Parsed(ingress),
             l0Demo |-> "--enable-l0-demo" \in cli.flags \/ On(env, "SVDC_ENABLE_L0_DEMO"),
             opcua |-> opcuaBind]}
===============================================================================
