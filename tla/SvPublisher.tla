----------------------------- MODULE SvPublisher ------------------------------
(***************************************************************************)
(* The ssiec-sv-publisher tool: one run from its command line to the last  *)
(* frame, for its three sinks.  An invocation says how it was started and  *)
(* what the files it names hold; a loaded file or a parsed value is a set, *)
(* empty when it does not load or parse, and refuses holds the standard    *)
(* streams that may refuse what is printed, at any time: a reader that     *)
(* left, a full disk.  Time in milliseconds.                               *)
(***************************************************************************)
EXTENDS SvCodec, FiniteSetsExt

CONSTANTS Invocations,    \* how the tool may be started
          NotUnicode,     \* a word of the command line that is no Unicode
          Wave,           \* the three currents and voltages at each instant, in turn
          CntMod,         \* the modulus of `as u16` for smpCnt, scaled down
          MaxDuration     \* the milliseconds a Duration holds, scaled down

ASSUME PublisherAssumption == CntMod \in Nat \ {0} /\ CntMod - 1 <= MaxU16

\* No list of harmonics is so long that the three, or the neutral that closes their sum,
\* leave an i32.
ASSUME WaveAssumption ==
  /\ Wave # <<>> /\ Wave \in Seq(Range(Wave))
  /\ \A at \in Range(Wave) :
       /\ \A c \in 1 .. 6 : IsI32(at[c])
       /\ IsI32(-(at[1] + at[2] + at[3])) /\ IsI32(-(at[4] + at[5] + at[6]))

\* What the parsers hand out has at most one value, of its type's width: parse::<u32>,
\* parse_u16_hex, parse_mac.
AtMostOne(s) == \A x, y \in s : x = y
NameHere == 256           \* the {name} of a svID's template, among its octets
Attribute(scl, a) == IF a \in DOMAIN scl THEN scl[a] ELSE {}
IsMac(mac) == mac \in Seq(Byte) /\ Len(mac) = 6
SclOk(scl) ==
  /\ \A a \in DOMAIN scl : AtMostOne(scl[a])
  /\ \A id \in Attribute(scl, "smvID") : id \in Seq(Byte \cup {NameHere})
  /\ \A rev \in Attribute(scl, "confRev") : IsU32(rev)
  /\ \A rate \in Attribute(scl, "smpRate") : rate \in Nat
  /\ \A appid \in Attribute(scl, "APPID") : appid \in U16
  /\ \A mac \in Attribute(scl, "MAC-Address") : IsMac(mac)
  /\ \A vid \in Attribute(scl, "VLAN-ID") : vid \in Nat
  /\ \A pcp \in Attribute(scl, "VLAN-PRIORITY") : pcp \in Nat
ArgumentOk(arg) ==
  Len(arg) # 1 => /\ AtMostOne(arg[2])
                  /\ arg[1] = "--rate" => arg[2] \ {NotUnicode} \subseteq Nat

ASSUME InvocationsAssumption ==
  \A i \in Invocations :
    /\ i.args \in Seq(Range(i.args)) /\ \A arg \in Range(i.args) : ArgumentOk(arg)
    /\ AtMostOne(i.scl) /\ \A scl \in i.scl : SclOk(scl)
    /\ i.refuses \subseteq {"stdout", "stderr"}

MaxFrameBytes == 320
Budget == 96              \* of a svID, in MAX_FRAME_BYTES' comment

VARIABLES inv, pc, identity, index, frame, meant, file, wire
\* wire holds every datagram ever sent, each with the ASDU it was built from as
\* meant holds the one in frame; file holds the capture's records
publisherVars == <<inv, pc, identity, index, frame, meant, file, wire>>

Only(s) == CHOOSE x \in s : TRUE
Text(n) == [i \in 1 .. n |-> 65]                    \* some ASCII text of n octets

-------------------------------------------------------------------------------
\* vendor.rs; a svID is as long as its template makes it for "SVDC_DEMO", here already.
Profile(oui, mac, appid, svIdLength, confRev, vid) ==
  [oui |-> oui, mac |-> <<1, \h0C, \hCD, 4, 0, mac>>, appid |-> appid, rate |-> 4800,
   confRev |-> confRev, svId |-> Text(svIdLength), vlan |-> {[pcp |-> 4, dei |-> 0, vid |-> vid]}]

Presets ==
  [abb_relion_670     |-> Profile(<<0, \h21, \hC1>>, 1, \h4000, 35, 1, 100),
   siemens_siprotec_5 |-> Profile(<<0, \h1F, \hF8>>, 2, \h4001, 17, 10001, 4000),
   ge_ur_series       |-> Profile(<<0, \h11, \h30>>, 3, \h4002, 16, 1, 0),
   sel_2240           |-> Profile(<<0, \h30, \hA7>>, 4, \h4003, 15, 1, 0)]

\* svid_for: every {name} of a template, a file's too, is the nine octets of "SVDC_DEMO".
SvIdFor(template) ==
  FoldLeft(LAMBDA id, o : id \o (IF o = NameHere THEN Text(9) ELSE <<o>>), <<>>, template)

ProcessBus(vid) == [pcp |-> 4, dei |-> 0, vid |-> vid]

DemoParams == [dst |-> <<1, \h0C, \hCD, 4, 0, 1>>, src |-> <<2, 0, 0, 0, 0, 1>>,
               appid |-> \h4000, vlan |-> NoVlan]
FromVendor(p) == [dst |-> p.mac, src |-> p.oui \o <<0, 0, 1>>, appid |-> p.appid, vlan |-> p.vlan]

-------------------------------------------------------------------------------
\* vendor_loader.rs: scl maps the attributes the file gives to their values.
Loads(scl) == "SampledValueControl" \in DOMAIN scl /\ \A a \in DOMAIN scl : scl[a] # {}

Override(scl, base) ==
  LET given(a, default) == IF a \in DOMAIN scl THEN Only(scl[a]) ELSE default
      old == IF base.vlan = NoVlan THEN ProcessBus(0) ELSE Only(base.vlan)
      tagged == {"VLAN-ID", "VLAN-PRIORITY"} \cap DOMAIN scl # {}
  IN  [base EXCEPT !.svId = given("smvID", @), !.confRev = given("confRev", @),
                   !.rate = given("smpRate", @), !.appid = given("APPID", @),
                   !.mac = given("MAC-Address", @),
                   !.vlan = IF ~tagged THEN @
                            ELSE {[pcp |-> given("VLAN-PRIORITY", old.pcp) % 8, dei |-> 0,
                                   vid |-> given("VLAN-ID", old.vid) % 2 ^ 12]}]

-------------------------------------------------------------------------------
\* parse_stream_opts; an argument is an option and the value after it, if any.
DefaultOpts == [frames |-> 1, rate |-> 4800, frequency |-> 60, duration |-> {},
                vendor |-> {}, icd |-> FALSE, calibration |-> FALSE, end |-> "no"]

KnownOptions == {"--frames", "--duration", "--rate", "--frequency", "--harmonics", "--vendor",
                 "--vendor-icd", "--calibration-csv"}

\* env::args panics when it comes to a word that is no Unicode.
Panics(arg) ==
  \/ arg[1] = NotUnicode
  \/ arg[1] \in KnownOptions /\ Len(arg) # 1 /\ NotUnicode \in arg[2]

Refuses(arg) ==
  \/ arg[1] \notin KnownOptions
  \/ Len(arg) = 1
  \/ arg[2] = {}
  \/ arg[1] = "--vendor" /\ arg[2] \cap ({"list"} \cup DOMAIN Presets) = {}

FitsDuration(ms) == 0 <= ms /\ ms <= MaxDuration

Option(opts, arg) ==
  CASE arg[1] = "--frames" -> [opts EXCEPT !.frames = Only(arg[2])]
    [] arg[1] = "--rate" -> [opts EXCEPT !.rate = Only(arg[2])]
    [] arg[1] = "--frequency" -> [opts EXCEPT !.frequency = Only(arg[2])]
    [] arg[1] = "--duration" ->                       \* Duration::from_secs_f64 panics
         IF ~FitsDuration(Only(arg[2])) THEN [opts EXCEPT !.end = "aborted"]
         ELSE [opts EXCEPT !.duration = arg[2]]
    [] arg[1] = "--vendor" ->
         IF arg[2] = {"list"} THEN [opts EXCEPT !.end = "done"]
         ELSE [opts EXCEPT !.vendor = arg[2], !.rate = Presets[Only(arg[2])].rate]
    [] arg[1] = "--vendor-icd" -> [opts EXCEPT !.icd = TRUE]
    [] arg[1] = "--calibration-csv" -> [opts EXCEPT !.calibration = TRUE]
    [] OTHER -> opts                                  \* the waveform

\* Mutant of Checked: a rate of 0 goes through.
CheckedFrequency(opts) ==
  IF opts.end = "no" /\ opts.frequency <= 0 THEN [opts EXCEPT !.end = "failed"] ELSE opts

Checked(opts) ==
  IF opts.end = "no" /\ (opts.rate = 0 \/ opts.frequency <= 0)
  THEN [opts EXCEPT !.end = "failed"] ELSE opts

ParseStreamOpts(args) ==
  Checked(FoldLeft(LAMBDA opts, arg : IF opts.end # "no" THEN opts
                                      ELSE IF Panics(arg) THEN [opts EXCEPT !.end = "aborted"]
                                      ELSE IF Refuses(arg) THEN [opts EXCEPT !.end = "failed"]
                                      ELSE Option(opts, arg),
                   DefaultOpts, args))

\* resolve_frame_identity: with a preset or a file, their rate is the rate.
Resolve(opts, scls) ==
  LET base == IF opts.vendor = {} THEN Presets["sel_2240"] ELSE Presets[Only(opts.vendor)]
      profile == IF opts.icd THEN Override(Only(scls), base) ELSE base
  IN  IF opts.vendor = {} /\ ~opts.icd
      THEN [params |-> DemoParams, svId |-> Text(12), confRev |-> 1, rate |-> opts.rate]
      ELSE [params |-> FromVendor(profile), svId |-> SvIdFor(profile.svId),
            confRev |-> profile.confRev, rate |-> profile.rate]

Resolves(opts, scls) == opts.icd => \E scl \in scls : Loads(scl)

ClampSmpRate(rate) == IF rate > MaxU16 THEN MaxU16 ELSE rate

\* --duration counts for udp only: at least one frame, rounded to the nearest.
TotalFrames(opts, mode, rate) ==
  IF mode = "udp" /\ opts.duration # {}
  THEN Max({1, (Only(opts.duration) * rate + 500) \div 1000})
  ELSE opts.frames

-------------------------------------------------------------------------------
\* WaveformConfig::sample, the neutrals closing the two sums.
Good(v) == [value |-> v, quality |-> 0]
WithNeutral(a, b, c) == <<Good(a), Good(b), Good(c), Good(-(a + b + c))>>

Waveform(i) ==
  LET at == Wave[(i % Len(Wave)) + 1]
  IN  WithNeutral(at[1], at[2], at[3]) \o WithNeutral(at[4], at[5], at[6])

\* SampleData::NOMINAL_3PH
Nominal3ph == WithNeutral(5000, -2500, -2500) \o WithNeutral(23000, -11500, -11500)

AsduOf(id, count, samples) ==
  [svId |-> id.svId, smpCnt |-> count % CntMod, confRev |-> id.confRev, smpSynch |-> 2,
   smpRate |-> ClampSmpRate(id.rate), samples |-> samples]

-------------------------------------------------------------------------------
Nobody == [params |-> DemoParams, svId |-> Text(12), confRev |-> 1, rate |-> 4800, total |-> 1]

PublisherInit ==
  /\ inv \in Invocations
  /\ pc = "start" /\ identity = Nobody /\ index = 0
  /\ frame = <<>> /\ meant = {} /\ file = <<>> /\ wire = {}

\* How a step ends that prints on these streams: println! and eprintln! panic when
\* theirs refuses.
EndsIn(end, printed) == {end} \cup {"aborted" : stream \in printed \cap inv.refuses}

\* Before it exits the tool prints its table of vendors, or an error and its help.
LastWords == [done |-> {"stdout"}, failed |-> {"stderr", "stdout"}, aborted |-> {}]

\* main: a mode without its path or target, or another mode, fails; help succeeds.
Start ==
  /\ pc = "start"
  /\ pc' \in IF NotUnicode \in {inv.program, inv.mode} THEN {"aborted"}
             ELSE CASE inv.mode = "help" -> EndsIn("done", {"stdout"})
                    [] inv.mode = "hex" -> {"ready"}
                    [] inv.mode \in {"pcap", "udp"} /\ inv.target # {} ->
                         {IF NotUnicode \in inv.target THEN "aborted" ELSE "args"}
                    [] OTHER -> EndsIn("failed", LastWords.failed)
  /\ UNCHANGED <<inv, identity, index, frame, meant, file, wire>>

\* maybe_print_calibration prints the table, or that it did not load; then the identity
\* is resolved, which prints what a file overrides.
Printed(opts) ==
  (IF opts.calibration THEN {"stdout", "stderr"} ELSE {}) \cup (IF opts.icd THEN {"stdout"} ELSE {})

Configure ==
  /\ pc = "args"
  /\ LET opts == ParseStreamOpts(inv.args)
         id == Resolve(opts, inv.scl)
     IN  IF opts.end # "no"
         THEN pc' \in EndsIn(opts.end, LastWords[opts.end]) /\ UNCHANGED identity
         ELSE IF ~Resolves(opts, inv.scl)
         THEN pc' \in EndsIn("failed", Printed([opts EXCEPT !.icd = FALSE]) \cup {"stderr"})
              /\ UNCHANGED identity
         ELSE /\ pc' \in EndsIn("resolved", Printed(opts))
              /\ identity' = [params |-> id.params, svId |-> id.svId, confRev |-> id.confRev,
                              rate |-> id.rate, total |-> TotalFrames(opts, inv.mode, id.rate)]
  /\ UNCHANGED <<inv, index, frame, meant, file, wire>>

\* The capture is created, or the socket bound, before the rate divides; a rate that is
\* clamped is warned of.
Open ==
  /\ pc = "resolved"
  /\ pc' \in IF identity.rate = 0 THEN {"aborted"}
             ELSE EndsIn("ready", IF identity.rate > MaxU16 THEN {"stderr"} ELSE {})
  /\ UNCHANGED <<inv, identity, index, frame, meant, file, wire>>

OpenFails ==
  /\ pc = "resolved"
  /\ pc' \in EndsIn("failed", {"stderr"})
  /\ UNCHANGED <<inv, identity, index, frame, meant, file, wire>>

\* What is left of a frame without its L2 header.
Payload(id, bytes) == SubSeq(bytes, L2Length(id.params) + 1, Len(bytes))

\* build_frame; encode_frame's error is an expect.
BuildFrame ==
  /\ pc = "ready" /\ index < identity.total
  /\ LET samples == IF inv.mode = "hex" THEN Nominal3ph ELSE Waveform(index)
         asdu == AsduOf(identity, index, samples)
         encoded == EncodeFrame(identity.params, asdu, MaxFrameBytes)
     IN  \/ encoded = {} /\ pc' = "aborted" /\ UNCHANGED <<frame, meant>>
         \/ frame' \in encoded /\ pc' = "built" /\ meant' = {asdu}
  /\ UNCHANGED <<inv, identity, index, file, wire>>

\* PcapWriter::write_frame; a datagram leaves without the L2 header.
PcapRecord(n, bytes) == [us |-> n * (1000000 \div identity.rate), bytes |-> bytes]
Datagram(bytes, asdu) == [bytes |-> Payload(identity, bytes), asdu |-> asdu]

\* write_hex_dump, write_frame or send_to.
Emit ==
  /\ pc = "built"
  /\ pc' = "ready" /\ index' = index + 1
  /\ file' = IF inv.mode # "pcap" THEN file
             ELSE Append(file, PcapRecord(index, frame))
  /\ wire' = IF inv.mode # "udp" THEN wire ELSE wire \cup {Datagram(frame, Only(meant))}
  /\ UNCHANGED <<inv, identity, frame, meant>>

EmitFails ==
  /\ pc = "built"
  /\ pc' \in EndsIn("failed", {"stderr"})
  /\ UNCHANGED <<inv, identity, index, frame, meant, file, wire>>

\* A capture is flushed first; then the summary is printed.
Finish ==
  /\ pc = "ready" /\ index = identity.total
  /\ \/ pc' \in EndsIn("done", {"stdout"})
     \/ inv.mode = "pcap" /\ pc' \in EndsIn("failed", {"stderr"})
  /\ UNCHANGED <<inv, identity, index, frame, meant, file, wire>>

PublisherNext ==
  Start \/ Configure \/ Open \/ OpenFails \/ BuildFrame \/ Emit \/ EmitFails \/ Finish
===============================================================================
