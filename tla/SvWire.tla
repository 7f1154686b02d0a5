-------------------------------- MODULE SvWire -------------------------------
(***************************************************************************)
(* One sample's way from the publisher tool to an OPC UA client: datagrams *)
(* that may be lost, repeated and reordered, the ingress decoder, the      *)
(* aligner's record, the snapshot the daemon takes of the newest record    *)
(* and the values its server shows.  Other merging units send to the same  *)
(* port, and a bit of a stored record may flip.                            *)
(***************************************************************************)
EXTENDS SvPublisher, TickRecord, UaAddressSpace

CONSTANTS Times,          \* what the clock may say, in nanoseconds
          Bursts          \* the bits of a stored field that may flip

Mus == <<Reference("SVDC_DEMO_PB_MU")>>
Nodes == BuildNodes("Demo", Mus)

VARIABLES nextId,         \* the aligner's next_tick_id
          record,         \* the newest record, if any
          heard,          \* the ticks that were aligned, as their senders meant them
          received,       \* how many datagrams were taken, bounded by inv.receives
          bent,           \* 0: no record was corrupted; 1: the newest is; 2: an older one was
          latest, shown,  \* the server's snapshot, and the one it last published
          ua              \* the variable nodes' values
daemonVars == <<nextId, record, heard, received, bent, latest, shown, ua>>
vars == <<publisherVars, daemonVars>>

-------------------------------------------------------------------------------
\* svdc-ingress's Decoder lifts the one ASDU out of the frame.
Decoded(payload) == {pdu.asdu : pdu \in DecodeL2Stripped(payload)}

\* The samples of an ASDU are numbers, all of them.
Numbers(asdu) ==
  \A c \in 1 .. Channels : asdu.samples[c].value \in Int /\ asdu.samples[c].quality \in Int

\* What another unit meant is what its octets say, if they say anything.
ASSUME OthersAssumption ==
  \A i \in Invocations : \A datagram \in i.others :
    Numbers(datagram.asdu) /\ Decoded(datagram.bytes) \subseteq {datagram.asdu}

\* Aligner::process_frame; binner, interpolator and calibrator change nothing.
ProcessFrame(id, ts, asdu) ==
  StampCrc([Empty(id, ts) EXCEPT
    !.flags = {Complete},
    !.samples = [c \in 1 .. Channels |->
                   Sample(asdu.samples[c].value, asdu.samples[c].quality % 256, Live)]])

\* A datagram of this publisher or of another unit, at any time, any number of
\* times or never; one that does not decode leaves no trace in the stream.
Receive ==
  \E datagram \in wire \cup inv.others, ts \in Times :
    /\ received < inv.receives
    /\ received' = received + 1
    /\ LET decoded == Decoded(datagram.bytes)
       IN  \/ decoded = {} /\ UNCHANGED <<nextId, record, heard, bent>>
           \/ \E asdu \in decoded : \E tick \in {ProcessFrame(nextId, ts, asdu)} :
                /\ record' = {tick}
                /\ heard' = heard \cup {[id |-> nextId, ts |-> ts,
                                         samples |-> datagram.asdu.samples]}
                /\ nextId' = nextId + 1
                /\ bent' = IF bent = 0 THEN 0 ELSE 2
    /\ UNCHANGED <<publisherVars, latest, shown, ua>>

\* The bits of a stored sample's fields: i32, u8, u8 and u16.
FieldWidth == [value |-> 32, quality |-> 8, origin |-> 8, reserved |-> 16]

\* A burst flips bits of one field, each once.
ASSUME BurstsAssumption ==
  \A burst \in Bursts :
    /\ burst.channel \in 1 .. Channels /\ burst.field \in DOMAIN FieldWidth
    /\ burst.bits \in Seq(0 .. FieldWidth[burst.field] - 1) /\ burst.bits # <<>>
    /\ \A i, j \in DOMAIN burst.bits : i < j => burst.bits[i] < burst.bits[j]

Flip(v, bits) ==
  FoldLeft(LAMBDA w, b : IF Bit(w, b) THEN w - 2 ^ b ELSE w + 2 ^ b, v, bits)

\* A fault of the memory or of whoever writes to it, once.
Corrupt ==
  /\ record # {} /\ bent = 0
  /\ \E burst \in Bursts :
       record' = {[Only(record) EXCEPT
                     !.samples[burst.channel][burst.field] = Flip(@, burst.bits)]}
  /\ bent' = 1
  /\ UNCHANGED <<publisherVars, nextId, heard, received, latest, shown, ua>>

\* The daemon's L1 task copies the newest record its subscription has not read.
Snapshot ==
  /\ \E tick \in record : latest.samples = <<>> \/ tick.id > latest.tickId
  /\ latest' = BuildSnapshot(Only(record))
  /\ UNCHANGED <<publisherVars, nextId, record, heard, received, bent, shown, ua>>

\* spawn_publisher's tick, once there is data.
PublishLatest ==
  /\ ~(latest.tickId = 0 /\ latest.samples = <<>>)
  /\ shown' = {latest}
  /\ ua' = SetValues(ua, BuildUpdates(Mus, latest))
  /\ UNCHANGED <<publisherVars, nextId, record, heard, received, bent, latest>>

Init ==
  /\ PublisherInit
  /\ nextId = 0 /\ record = {} /\ heard = {} /\ received = 0 /\ bent = 0
  /\ latest = NoSnapshot /\ shown = {} /\ ua = Populate(Nodes)

Next ==
  \/ PublisherNext /\ UNCHANGED daemonVars
  \/ Receive \/ Corrupt \/ Snapshot \/ PublishLatest

Spec == Init /\ [][Next]_vars

-------------------------------------------------------------------------------
\* Where the lengths of a payload's constructed fields say that these end.
Ends(payload) ==
  {LET read == ReadItems(Reader(payload), n) IN read.pos + read.got :
     n \in {k \in DOMAIN SavPduLayout : SavPduLayout[k].kind = "opening"}}

\* Every frame encode_frame builds is read back as what went into it, by the
\* decoder of whole frames and by the ingress's of payloads, and all its nested
\* lengths, which the decoder skips, end where the frame does (lib.rs:260).
DecodesAsMeant ==
  pc = "built" =>
    LET payload == Payload(identity, frame)
        decoded == DecodeFrame(frame)
    IN  /\ decoded = {[appid |-> identity.params.appid, length |-> Len(payload),
                       noAsdu |-> 1, asdu |-> Only(meant)]}
        /\ DecodeL2Stripped(payload) = decoded
        /\ Ends(payload) = {Len(payload)}

\* Of a frame that was cut short anywhere, on the wire or in a capture, no decoder
\* makes a sample: the reader never hands out octets that are not there.
CutIsRefused ==
  pc = "built" =>
    /\ \A n \in 0 .. Len(frame) - 1 : DecodeFrame(SubSeq(frame, 1, n)) = {}
    /\ \A n \in 0 .. Len(frame) - L2Length(identity.params) - 1 :
         DecodeL2Stripped(SubSeq(Payload(identity, frame), 1, n)) = {}

\* The tool panics for a svID past the budget of MAX_FRAME_BYTES, a file that gives a
\* rate of 0, a duration that no Duration holds, a word that is no Unicode, or a standard
\* stream that refuses what it prints, and for nothing else: no other option, vendor,
\* file, error of the system or number of frames keeps it from an exit code.
AbortsOnlyWhen ==
  pc = "aborted" =>
    \/ Len(identity.svId) > Budget
    \/ \E scl \in inv.scl : "smpRate" \in DOMAIN scl /\ scl.smpRate = {0}
    \/ \E i \in DOMAIN inv.args : /\ inv.args[i][1] = "--duration"
                                  /\ \E ms \in inv.args[i][2] : ~FitsDuration(ms)
    \/ NotUnicode \in {inv.program, inv.mode} \cup inv.target
    \/ \E i \in DOMAIN inv.args : Panics(inv.args[i])
    \/ inv.refuses # {}

Channel(c) == <<"Substations", "Demo", "SVDC_DEMO_PB_MU", "ChannelRegistry",
                <<c - 1, ReferenceChannels[c]>>>>
Shows(c, leaf) == ua[Append(Channel(c), leaf)]
Status(leaf) == ua[<<"Substations", "Demo", "SVDC_DEMO_PB_MU", "TickStatus", leaf>>]

\* What a client reads, once anything was published, is one tick that some unit
\* sent: all the channels' values, qualities and times and the tick's own figures
\* are of that tick, in the types their nodes were declared with.
ShownAsSent ==
  (shown # {} /\ bent = 0) =>
    /\ \A id \in DOMAIN ua : ua[id].type = Declared(Last(id))
    /\ \E tick \in heard :
         /\ Status("last_tick_id").value = tick.id
         /\ Status("last_ts_utc_ns").value = tick.ts
         /\ Status("n_channels").value = Channels
         /\ \A c \in 1 .. Channels :
              /\ Shows(c, "instMag.i").value = tick.samples[c].value
              /\ Shows(c, "instMag.i").source = {Shows(c, "t").value}
              /\ Shows(c, "instMag.f").source = {UaTicks(tick.ts)}
              /\ Shows(c, "q").value = tick.samples[c].quality % 256
              /\ (Shows(c, "tick_id").value - tick.id) % (2 * (MaxI32 + 1)) = 0

Severity(status) == IF IsBad(status) THEN 2 ELSE IF status = "Good" THEN 0 ELSE 1
BadCause(q) == Bit(q, 7) \/ q % 4 = 2 \/ Bit(q, 2)
UncertainCause(q, origin) == q % 4 = 3 \/ origin \in {Interpolated, QseEstimated}

\* No value is shown better than the quality octet and the origin it came with:
\* every bad cause shows as Bad, whatever else is set, and every other cause as
\* Uncertain; a failed link is told apart from the other bad causes.
NeverBetterThanSent ==
  \A snapshot \in shown : \A c \in 1 .. Channels :
    LET s == snapshot.samples[c]
    IN  \A leaf \in {"instMag.i", "instMag.f"} :
          /\ BadCause(s.quality) => Severity(Shows(c, leaf).status) = 2
          /\ UncertainCause(s.quality, s.origin) => Severity(Shows(c, leaf).status) >= 1
          /\ Bit(s.quality, 7) <=> Shows(c, leaf).status = "Bad_NoCommunication"

\* A burst of flipped bits in a sample of a stored record fails verify_crc, and nothing
\* else does: the CRC is stamped over all the samples the aligner wrote.
CorruptionCaught == \A tick \in record : Verifies(tick) <=> bent # 1

-------------------------------------------------------------------------------
\* What the docs say and the code does not.
ChannelLabels == <<"Ia", "Ib", "Ic", "In", "Va", "Vb", "Vc", "Vn">>

\* address_space.rs: the reference layout "Matches the southbound publisher's channel
\* ordering", so the node named Va shows the voltage of phase A.
NamesMatchTheWire ==
  (shown # {} /\ bent = 0) =>
    \E tick \in heard : \A c, w \in 1 .. Channels :
      ChannelLabels[w] = ReferenceChannels[c] =>
        Shows(c, "instMag.i").value = tick.samples[w].value
===============================================================================
