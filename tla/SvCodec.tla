------------------------------- MODULE SvCodec -------------------------------
(***************************************************************************)
(* The 9-2 LE codec of ssiec-sv-publisher's lib.rs, which the daemon's     *)
(* ingress shares: encode_frame into a buffer of fixed size, and the       *)
(* decoder over a reader that stops at its first error.  A frame is the    *)
(* sequence of its bytes.                                                  *)
(***************************************************************************)
EXTENDS Integers, SequencesExt

Ethertype == \h88BA
Tpid == \h8100
Channels == 8
PayloadBytes == Channels * 8
MaxU16 == 65535

\* The ranges of the code's integers.
Byte == {b \in Nat : b <= 255}
U16 == {v \in Nat : v <= MaxU16}
IsU32(v) == v \in Nat /\ v \div 65536 <= MaxU16
IsI32(v) == v \in Int /\ v \div 65536 >= -32768 /\ v \div 65536 <= 32767

\* A value's n bytes, big-endian, two's complement; and back, unsigned.
BigEndian(v, n) == [i \in 1 .. n |-> (v \div 256 ^ (n - i)) % 256]
Unsigned(bytes) == FoldLeft(LAMBDA v, b : v * 256 + b, 0, bytes)
Signed32(b) == (IF b[1] >= 128 THEN b[1] - 256 ELSE b[1]) * 256 ^ 3 + Unsigned(Tail(b))

-------------------------------------------------------------------------------
\* Mutant of BerLength: the short form also for 128 to 255 octets.
BerLengthShort(n) == IF n < 256 THEN <<n>> ELSE <<\h82>> \o BigEndian(n, 2)

BerLength(n) == IF n < 128 THEN <<n>> ELSE <<\h82>> \o BigEndian(n, 2)

\* write_primitive_tlv, and a constructed field, whose length is reserved in the
\* long form and patched when its content is complete.
Tlv(tag, value) == <<tag>> \o BerLength(Len(value)) \o value
Constructed(tag, content) == <<tag, \h82>> \o BigEndian(Len(content), 2) \o content

\* encode_int_u16: the shortest two's complement that stays positive.
IntU16(v) ==
  CASE v < \h80 -> <<v>>
    [] \h80 <= v /\ v <= \h7FFF -> BigEndian(v, 2)
    [] OTHER -> <<0>> \o BigEndian(v, 2)

\* VlanTag::tci
Tci(tag) == (tag.pcp % 8) * 2 ^ 13 + (tag.dei % 2) * 2 ^ 12 + (tag.vid % 2 ^ 12)

\* Option<VlanTag> is a set of at most one tag.
NoVlan == {}
L2Length(params) == IF params.vlan = NoVlan THEN 14 ELSE 18

\* SampleData::pack and unpack
Pack(samples) ==
  FlattenSeq([c \in 1 .. Channels |-> BigEndian(samples[c].value, 4)
                                      \o BigEndian(samples[c].quality, 4)])
Unpack(bytes) ==
  [c \in 1 .. Channels |-> [value |-> Signed32(SubSeq(bytes, 8 * c - 7, 8 * c - 4)),
                            quality |-> Unsigned(SubSeq(bytes, 8 * c - 3, 8 * c))]]

\* What the cursor checks at every write and patch_length16 at every length: the first
\* that fails ends encode_frame, so it is enough that the whole fits.
Fits(length, frame, capacity) == length <= MaxU16 /\ Len(frame) <= capacity

\* The frame, or nothing.
EncodeFrame(params, asdu, capacity) ==
  LET tag == IF params.vlan = NoVlan THEN <<>>
             ELSE BigEndian(Tpid, 2) \o BigEndian(Tci(CHOOSE t \in params.vlan : TRUE), 2)
      fields == Tlv(\h80, asdu.svId) \o Tlv(\h82, BigEndian(asdu.smpCnt, 2))
                \o Tlv(\h83, BigEndian(asdu.confRev, 4)) \o Tlv(\h85, <<asdu.smpSynch>>)
                \o Tlv(\h86, IntU16(asdu.smpRate)) \o Tlv(\h87, Pack(asdu.samples))
      savPdu == Constructed(\h60, Tlv(\h80, IntU16(1))
                                  \o Constructed(\hA2, Constructed(\h30, fields)))
      length == 8 + Len(savPdu)
      frame == params.dst \o params.src \o tag \o BigEndian(Ethertype, 2)
               \o BigEndian(params.appid, 2) \o BigEndian(length, 2) \o <<0, 0, 0, 0>> \o savPdu
  IN  IF Fits(length, frame, capacity) THEN {frame} ELSE {}

-------------------------------------------------------------------------------
\* Reader: got is what the last read returned, err the first error, fields what was
\* read under each name.
Names == {"appid", "length", "reserved1", "reserved2", "inner", "noAsdu", "svId", "smpCnt",
          "confRev", "smpSynch", "smpRate", "samples"}
Reader(bytes) == [buf |-> bytes, pos |-> 0, got |-> <<>>, err |-> "none",
                  fields |-> [name \in Names |-> <<>>]]

Failed(r, e) == [r EXCEPT !.err = IF @ = "none" THEN e ELSE @]

\* Mutant of Take: short input is handed out as if it were complete.
TakeShort(r, n) ==
  [r EXCEPT !.got = [i \in 1 .. n |-> IF r.pos + i <= Len(r.buf) THEN r.buf[r.pos + i] ELSE 0],
            !.pos = @ + n]

Advance(r, n) == [r EXCEPT !.got = SubSeq(r.buf, r.pos + 1, r.pos + n), !.pos = @ + n]
Take(r, n) ==
  IF r.err # "none" THEN r
  ELSE IF r.pos + n > Len(r.buf) THEN Failed(r, "truncated")
  ELSE Advance(r, n)

Tag(r, tag) ==
  LET t == Take(r, 1)
  IN  IF t.err = "none" /\ t.got # <<tag>> THEN Failed(t, "tag") ELSE t

\* read_ber_length: short, 0x81 or 0x82; got is the length, as a number.
ReadLength(r) ==
  LET first == Take(r, 1)
      long == Take(first, IF first.got = <<\h81>> THEN 1 ELSE 2)
  IN  IF first.err # "none" THEN first
      ELSE IF first.got[1] < \h80 THEN [first EXCEPT !.got = first.got[1]]
      ELSE IF first.got[1] \notin {\h81, \h82} THEN Failed(first, "length form")
      ELSE [long EXCEPT !.got = IF long.err = "none" THEN Unsigned(long.got) ELSE @]

ReadTlv(r, tag) ==
  LET length == ReadLength(Tag(r, tag))
  IN  IF length.err # "none" THEN length ELSE Take(length, length.got)

OfSizes(r, sizes) ==
  IF r.err = "none" /\ sizes # {} /\ Len(r.got) \notin sizes THEN Failed(r, "size") ELSE r

\* decode_int(..) as u16
AsU16(bytes) == FoldLeft(LAMBDA v, b : (v * 256 + b) % (MaxU16 + 1), 0, bytes)

\* What decode_sav_pdu reads, in its order: plain octets, the tag and the length of a
\* constructed field, or a primitive field, of one of the sizes given or of any.
Octets(name, size) == [kind |-> "octets", name |-> name, tag |-> 0, sizes |-> {size}]
Opening(tag) == [kind |-> "opening", name |-> "inner", tag |-> tag, sizes |-> {}]
Field(name, tag, sizes) == [kind |-> "field", name |-> name, tag |-> tag, sizes |-> sizes]

SavPduLayout ==
  <<Octets("appid", 2), Octets("length", 2), Octets("reserved1", 2), Octets("reserved2", 2),
    Opening(\h60), Field("noAsdu", \h80, {}), Opening(\hA2), Opening(\h30),
    Field("svId", \h80, {}), Field("smpCnt", \h82, {2}), Field("confRev", \h83, {4}),
    Field("smpSynch", \h85, {1}), Field("smpRate", \h86, {}),
    Field("samples", \h87, {PayloadBytes})>>

ReadItem(r, item) ==
  LET read == CASE item.kind = "octets" -> Take(r, Max(item.sizes))
                [] item.kind = "opening" -> ReadLength(Tag(r, item.tag))
                [] item.kind = "field" -> OfSizes(ReadTlv(r, item.tag), item.sizes)
  IN  [read EXCEPT !.fields[item.name] = read.got]

\* The reader after the first n items of the layout.
ReadItems(r, n) ==
  LET after[k \in 0 .. n] ==
        IF k = 0 THEN r ELSE CHOOSE s \in {ReadItem(after[k - 1], SavPduLayout[k])} : TRUE
  IN  after[n]

\* From the APPID on, the frame or nothing; the inner lengths are read and not compared.
DecodeSavPdu(r) ==
  {[appid |-> Unsigned(f.appid), length |-> Unsigned(f.length), noAsdu |-> AsU16(f.noAsdu),
    asdu |-> [svId |-> f.svId, smpCnt |-> Unsigned(f.smpCnt), confRev |-> Unsigned(f.confRev),
              smpSynch |-> f.smpSynch[1], smpRate |-> AsU16(f.smpRate),
              samples |-> Unpack(f.samples)]] :
     f \in {s.fields : s \in {t \in {ReadItems(r, Len(SavPduLayout))} : t.err = "none"}}}

DecodeL2Stripped(bytes) == DecodeSavPdu(Reader(bytes))

DecodeFrame(bytes) ==
  LET macs == Take(Take(Reader(bytes), 6), 6)
      first == Take(macs, 2)
      type == IF first.got = BigEndian(Tpid, 2) THEN Take(Take(first, 2), 2) ELSE first
  IN  IF type.err # "none" \/ type.got # BigEndian(Ethertype, 2) THEN {}
      ELSE DecodeSavPdu(type)
===============================================================================
