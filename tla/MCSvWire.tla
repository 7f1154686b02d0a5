------------------------------- MODULE MCSvWire ------------------------------
(***************************************************************************)
(* The invocations of the tool that reach every length form, every field   *)
(* width and every way out, and the datagrams of other units.              *)
(***************************************************************************)
EXTENDS SvWire

Started(mode, args, scl) ==
  [program |-> "ssiec-sv-publisher", mode |-> mode, target |-> {"a"}, args |-> args, scl |-> scl,
   refuses |-> {}, others |-> {}, receives |-> 0]
Loading(scl) == Started("pcap", <<<<"--vendor-icd", {"a.icd"}>>>>, scl)
Scl(attributes) == {[SampledValueControl |-> {TRUE}] @@ attributes}

\* svIDs at the bounds of the one-octet length, of the budget and of the buffer.
SvIdLengths == {0, 1, 95, 96, 97, 127, 128, 190, 191, 192, 200}
LongIds == {Loading(Scl([smvID |-> {Text(n)}])) : n \in SvIdLengths}

\* Templates of a file whose names take them to the budget, past it, and past the buffer.
Templates == {Text(80) \o <<NameHere>> \o Text(7), <<NameHere>> \o Text(88),
              [i \in 1 .. 25 |-> NameHere]}
Named == {Loading(Scl([smvID |-> {t}])) : t \in Templates}

\* Rates at the bounds of the shortest two's complement.
Rates == {1, 127, 128, 255, 256, 32767, 32768, 65535, 65536}
Rated == {Started("udp", <<<<"--rate", {r}>>>>, {}) : r \in Rates}

Vendors == {Started(mode, <<<<"--vendor", {v}>>, <<"--frames", {1}>>>>, {}) :
              mode \in {"pcap", "udp"}, v \in DOMAIN Presets}

Files ==
  {Loading({}), Loading({[smvID |-> {Text(4)}]}),
   Loading(Scl([confRev |-> {}])), Loading(Scl([smpRate |-> {0}])),
   Loading(Scl([confRev |-> {65536}, smpRate |-> {12800}, APPID |-> {\h7FFF}])),
   Loading(Scl("VLAN-ID" :> {\h1FFF})), Loading(Scl("VLAN-PRIORITY" :> {15})),
   Loading(Scl("MAC-Address" :> {<<1, \h0C, \hCD, 4, 1, \hFF>>})),
   Started("udp", <<<<"--vendor", {"abb_relion_670"}>>, <<"--rate", {7}>>,
                    <<"--vendor-icd", {"a.icd"}>>>>, Scl("VLAN-PRIORITY" :> {2}))}

Arguments ==
  {Started("udp", args, {}) : args \in {
     <<>>, <<<<"--frames", {0}>>>>, <<<<"--frames", {3}>>>>, <<<<"--frames", {}>>>>,
     <<<<"--frames">>>>, <<<<"--rate", {0}>>>>, <<<<"--frequency", {0}>>>>,
     <<<<"--harmonics", {3}>>>>, <<<<"--verbose", {1}>>>>, <<<<"--vendor", {"list"}>>>>,
     <<<<"--vendor", {"acme"}>>>>, <<<<"--calibration-csv", {"c.csv"}>>>>,
     <<<<"--duration", {-1}>>>>, <<<<"--duration", {2001}>>>>,
     <<<<"--rate", {0}>>, <<"--duration", {0}>>>>,
     <<<<"--duration", {1500}>>, <<"--rate", {1}>>>>}}

Modes ==
  {Started("hex", <<>>, {}), Started("help", <<>>, {}), Started("raw", <<>>, {}),
   [Started("udp", <<>>, {}) EXCEPT !.target = {}],
   Started("pcap", <<<<"--frames", {3}>>>>, {})}

\* Words that are no Unicode, read or not; a value that would not be looked at is none.
Garbled ==
  {[Started("hex", <<>>, {}) EXCEPT !.program = NotUnicode],
   [Started("raw", <<>>, {}) EXCEPT !.mode = NotUnicode],
   [Started("pcap", <<>>, {}) EXCEPT !.target = {NotUnicode}],
   [Started("help", <<>>, {}) EXCEPT !.target = {NotUnicode}],
   Started("udp", <<<<NotUnicode>>>>, {}), Started("udp", <<<<"--rate", {NotUnicode}>>>>, {}),
   Started("udp", <<<<"--rate", {}>>, <<NotUnicode>>>>, {})}

\* Streams that may refuse: each way to print and end.
Refusing ==
  {[i EXCEPT !.refuses = r] :
     i \in {Started("help", <<>>, {}), Started("hex", <<>>, {}), Started("raw", <<>>, {}),
            Loading({}), Loading(Scl("APPID" :> {\h4000})),
            Started("udp", <<<<"--vendor", {"list"}>>>>, {}),
            Started("udp", <<<<"--rate", {65536}>>, <<"--calibration-csv", {"c.csv"}>>>>, {})},
     r \in {{"stdout"}, {"stderr"}}}

\* Other units, their eight qualities, and octets that are no frame.
Qualities == {<<0, 1, 2, 3, 4, 5, 6, 7>>, <<128, 130, 132, 134, 8, 255, 256, 2048>>}
Unit(samples) ==
  LET asdu == [svId |-> Text(3), smpCnt |-> 9, confRev |-> 2, smpSynch |-> 1, smpRate |-> 80,
               samples |-> samples]
  IN  [bytes |-> Payload([params |-> DemoParams], Only(EncodeFrame(DemoParams, asdu, MaxFrameBytes))),
       asdu |-> asdu]
Foreign == {Unit([c \in 1 .. Channels |-> [value |-> 1000 * c, quality |-> q[c]]]) : q \in Qualities}
Noise == {[Unit(Nominal3ph) EXCEPT !.bytes = <<64, 0, 0>>]}

Heard ==
  {[Started("udp", <<<<"--frames", {2}>>>>, {}) EXCEPT !.receives = 2, !.others = Noise],
   [Started("udp", <<<<"--vendor", {"sel_2240"}>>>>, {})
      EXCEPT !.receives = 1, !.others = Foreign],
   [Started("hex", <<>>, {}) EXCEPT !.receives = 2, !.others = {CHOOSE u \in Foreign : TRUE}]}

AllInvocations ==
  LongIds \cup Named \cup Rated \cup Vendors \cup Files \cup Arguments \cup Modes \cup Garbled
    \cup Refusing \cup Heard
OneStream == {[Started("udp", <<<<"--frames", {1}>>>>, {}) EXCEPT !.receives = 1]}

\* The second instant needs more than the 24 bits of a float's mantissa.
TwoInstants == <<<<5000, -2500, -2400, 23000, -11500, -11000>>,
                 <<16777217, -50331651, 1, -134217729, 2, 3>>>>

SomeBursts ==
  {[channel |-> 1, field |-> "value", bits |-> <<0>>],
   [channel |-> 8, field |-> "value", bits |-> <<28, 29, 30>>],
   [channel |-> 3, field |-> "quality", bits |-> <<0, 1>>],
   [channel |-> 5, field |-> "origin", bits |-> <<0, 1>>],
   [channel |-> 6, field |-> "origin", bits |-> <<1>>],
   [channel |-> 8, field |-> "reserved", bits |-> <<15>>]}
NoBursts == {}

TwoTimes == {5, 950}
===============================================================================
