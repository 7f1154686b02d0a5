-------------------------------- MODULE MCBoot -------------------------------
(***************************************************************************)
(* Command lines of up to three phrases, so that options meet their own    *)
(* values, other options' values and none, under the environments that set *)
(* every variable.                                                         *)
(***************************************************************************)
EXTENDS Boot

Loopback == "127.0.0.1:4840"
Public == "0.0.0.0:4840"
TheAddresses ==
  [t \in {Loopback, Public, "127.0.0.1:8080", "239.0.0.1:102", "10.9.9.9:102"} |->
     CASE t = Loopback -> [ip |-> "127.0.0.1", port |-> 4840]
       [] t = Public -> [ip |-> "0.0.0.0", port |-> 4840]
       [] t = "127.0.0.1:8080" -> [ip |-> "127.0.0.1", port |-> 8080]
       [] t = "239.0.0.1:102" -> [ip |-> "239.0.0.1", port |-> 102]
       [] t = "10.9.9.9:102" -> [ip |-> "10.9.9.9", port |-> 102]]
TheAddressLike == DOMAIN TheAddresses \cup {"localhost:4840"}

Phrases ==
  {<<o>> : o \in {"--no-ui", "--ui-bind", "--enable-opcua", "--allow-insecure-bind", "-h"}}
  \cup {<<"--ui-bind", v>> : v \in {Loopback, "--allow-insecure-bind"}}
  \cup {<<"--enable-opcua", v>> : v \in {Public, "localhost:4840"}}
  \cup {<<"--ingress-udp", v>> : v \in {"239.0.0.1:102", "10.9.9.9:102"}}
  \cup {<<"--audit-log", "a.jsonl">>, <<"--operational-config", "--ui">>, <<"--enable-l0-demo">>,
        <<"--ui">>, <<"4840">>}

Unset == [v \in Variables |-> {}]
Environments ==
  {Unset, [Unset EXCEPT !["SVDC_UI"] = {"1"}, !["SVDC_NO_UI"] = {"1"}],
   [Unset EXCEPT !["SVDC_OPCUA_BIND"] = {Public}, !["SVDC_ALLOW_INSECURE_BIND"] = {"0"},
                 !["SVDC_NO_UI"] = {"1"}],
   [Unset EXCEPT !["SVDC_UI_BIND"] = {Public}, !["SVDC_INGRESS_UDP"] = {Loopback},
                 !["SVDC_OPERATIONAL_CONFIG"] = {"o.toml"}, !["SVDC_AUDIT_LOG"] = {"b.jsonl"},
                 !["SVDC_ENABLE_L0_DEMO"] = {"1"}, !["SVDC_ALLOW_INSECURE_BIND"] = {"1"}]}

Lines == UNION {{FlattenSeq(line) : line \in [1 .. n -> Phrases]} : n \in 0 .. 3}
TheStarts == [args : Lines, env : Environments]
TheLoopbackIps == {"127.0.0.1"}
TheLocalIps == {"127.0.0.1", "0.0.0.0"}
TheMulticastIps == {"239.0.0.1"}
===============================================================================
