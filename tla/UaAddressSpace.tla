--------------------------- MODULE UaAddressSpace ----------------------------
(***************************************************************************)
(* svdc-opcua's address space: the nodes build_nodes lists, the variables  *)
(* populate_address_space makes of them, the status codes of quality.rs    *)
(* and the values build_updates writes.  A node id is its path; a channel  *)
(* is the pair of its index and name.                                      *)
(***************************************************************************)
EXTENDS UaTime, SequencesExt

CONSTANT MaxI32                 \* of the cast of a tick id, scaled down
ASSUME CastAssumption == MaxI32 \in Nat

ReferenceChannels == <<"Va", "Vb", "Vc", "Vn", "Ia", "Ib", "Ic", "In">>
Reference(svId) == [svId |-> svId, channels |-> ReferenceChannels]

ChannelLeaves == {"instMag.i", "instMag.f", "q", "t", "tick_id"}
StatusLeaves == {"last_tick_id", "last_ts_utc_ns", "n_channels"}

\* A node's parent is its path without the last name, and comes first in the list.
Node(id, kind) == [id |-> id, kind |-> kind]
Variables(id, leaves) == {Node(Append(id, leaf), "variable") : leaf \in leaves}

ChannelNodes(registry, channels) ==
  UNION {LET id == Append(registry, <<c - 1, channels[c]>>)
         IN  {Node(id, "object")} \cup Variables(id, ChannelLeaves) : c \in DOMAIN channels}

MuNodes(folder, mu) ==
  LET id == Append(folder, mu.svId)
      registry == Append(id, "ChannelRegistry")
      status == Append(id, "TickStatus")
  IN  {Node(id, "object"), Node(registry, "folder"), Node(status, "folder")}
      \cup ChannelNodes(registry, mu.channels) \cup Variables(status, StatusLeaves)

BuildNodes(substation, mus) ==
  LET folder == <<"Substations", substation>>
  IN  {Node(<<"Substations">>, "folder"), Node(folder, "folder")}
      \cup UNION {MuNodes(folder, mu) : mu \in Range(mus)}

\* build_variable: the type a leaf is declared with.
Declared(leaf) ==
  CASE leaf \in {"instMag.i", "tick_id"} -> "Int32"
    [] leaf = "instMag.f" -> "Float"
    [] leaf \in {"q", "n_channels"} -> "UInt16"
    [] leaf = "t" -> "DateTime"
    [] leaf \in {"last_tick_id", "last_ts_utc_ns"} -> "UInt64"

\* DataValue; source is the sample's time, or empty for "now".
Value(type, value) == [type |-> type, value |-> value, status |-> "Good", source |-> {}]

Populate(nodes) ==
  LET variables == {n.id : n \in {m \in nodes : m.kind = "variable"}}
  IN  [id \in variables |-> Value(Declared(Last(id)), 0)]

-------------------------------------------------------------------------------
\* quality.rs
Bit(q, b) == (q \div 2 ^ b) % 2 = 1

BaseStatus(q) ==
  IF Bit(q, 7) THEN "Bad_NoCommunication"
  ELSE IF q % 4 = 2 THEN "Bad_NoData"
  ELSE IF Bit(q, 2) THEN "Bad_OutOfRange"
  ELSE IF q % 4 = 3 THEN "Uncertain_LastUsableValue"
  ELSE "Good"

IsBad(status) == status \in {"Bad_NoCommunication", "Bad_NoData", "Bad_OutOfRange"}

\* Mutant of OriginOverride: an origin speaks louder than a Bad status.
OriginOverrideAll(base, origin) ==
  CASE origin = 2 -> "Uncertain_InterpolatedValue"
    [] origin = 3 -> "Uncertain_LastUsableValue"
    [] OTHER -> base

OriginOverride(base, origin) ==
  CASE ~IsBad(base) /\ origin = 2 -> "Uncertain_InterpolatedValue"
    [] ~IsBad(base) /\ origin = 3 -> "Uncertain_LastUsableValue"
    [] OTHER -> base

-------------------------------------------------------------------------------
\* `as f32`: beyond 24 bits, to the nearest multiple of a power of two, a tie to
\* the even one.
AsF32(v) ==
  LET size == IF v < 0 THEN -v ELSE v
      unit == 2 ^ (CHOOSE e \in 0 .. 7 : /\ size \div 2 ^ e < 2 ^ 24
                                         /\ e = 0 \/ size \div 2 ^ (e - 1) >= 2 ^ 24)
      low == size \div unit
      rest == 2 * (size % unit)
      near == IF rest > unit \/ (rest = unit /\ low % 2 = 1) THEN low + 1 ELSE low
  IN  (IF v < 0 THEN -1 ELSE 1) * near * unit

\* Mutant of AsI32: the cast saturates.
AsI32Saturating(v) == IF v > MaxI32 THEN MaxI32 ELSE v

\* `as i32` wraps.
AsI32(v) == ((v + MaxI32 + 1) % (2 * (MaxI32 + 1))) - (MaxI32 + 1)

\* svdc-bin's build_snapshot
BuildSnapshot(tick) ==
  [tickId |-> tick.id, ts |-> tick.ts, nChannels |-> Len(tick.samples),
   samples |-> [c \in DOMAIN tick.samples |->
                  [raw |-> tick.samples[c].value, calibrated |-> AsF32(tick.samples[c].value),
                   quality |-> tick.samples[c].quality, origin |-> tick.samples[c].origin]]]

NoSnapshot == [tickId |-> 0, ts |-> 0, nChannels |-> 0, samples |-> <<>>]
Missing == [raw |-> 0, calibrated |-> 0, quality |-> 0, origin |-> 1]

\* The folder is "Demo" whatever the configured substation is.
UpdatePrefix(mu) == <<"Substations", "Demo", mu.svId>>

Update(id, value) == [id |-> id, value |-> value]

ChannelUpdates(mu, c, snapshot) ==
  LET id == UpdatePrefix(mu) \o <<"ChannelRegistry", <<c - 1, mu.channels[c]>>>>
      sample == IF c \in DOMAIN snapshot.samples THEN snapshot.samples[c] ELSE Missing
      status == OriginOverride(BaseStatus(sample.quality), sample.origin)
      measured(type, v) == [type |-> type, value |-> v, status |-> status,
                            source |-> {UaTicks(snapshot.ts)}]
  IN  {Update(Append(id, "instMag.i"), measured("Int32", sample.raw)),
       Update(Append(id, "instMag.f"), measured("Float", sample.calibrated)),
       Update(Append(id, "q"), Value("UInt16", sample.quality)),
       Update(Append(id, "t"), Value("DateTime", UaTicks(snapshot.ts))),
       Update(Append(id, "tick_id"), Value("Int32", AsI32(snapshot.tickId)))}

StatusUpdates(mu, snapshot) ==
  LET id == Append(UpdatePrefix(mu), "TickStatus")
  IN  {Update(Append(id, "last_tick_id"), Value("UInt64", snapshot.tickId)),
       Update(Append(id, "last_ts_utc_ns"), Value("UInt64", snapshot.ts)),
       Update(Append(id, "n_channels"), Value("UInt16", snapshot.nChannels))}

\* An id names the unit, the channel's index and the leaf, which say its value.
BuildUpdates(mus, snapshot) ==
  UNION {StatusUpdates(mu, snapshot)
         \cup UNION {ChannelUpdates(mu, c, snapshot) : c \in DOMAIN mu.channels} :
           mu \in Range(mus)}

\* set_values: a value for an id without a node is dropped with its error.
SetValues(ua, updates) ==
  [id \in DOMAIN ua |-> IF \E u \in updates : u.id = id
                        THEN (CHOOSE u \in updates : u.id = id).value ELSE ua[id]]
===============================================================================
