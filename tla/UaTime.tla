------------------------------- MODULE UaTime --------------------------------
(***************************************************************************)
(* svdc-opcua's timestamp.rs: Unix nanoseconds to OPC UA's count of 100 ns *)
(* ticks since 1601.  MaxU64 and MaxI64 are the widths of the code's       *)
(* integers and Epoch its offset, scaled down for TLC.                     *)
(***************************************************************************)
EXTENDS Integers

CONSTANTS MaxU64, MaxI64, Epoch, NsPerTick

\* 2^64 \div 100 < 2^63, and the offset is itself a u64.
ASSUME WidthsAssumption ==
  /\ MaxU64 \in Nat /\ MaxI64 \in Nat
  /\ Epoch \in 0 .. MaxU64
  /\ NsPerTick \in Nat \ {0}
  /\ MaxU64 \div NsPerTick <= MaxI64

SaturatingAdd(a, b) == IF a + b > MaxU64 THEN MaxU64 ELSE a + b

\* utc_ns_to_opcua_ticks; `as i64` is two's complement.
AsI64(v) == IF v > MaxI64 THEN v - 2 * (MaxI64 + 1) ELSE v
UaTicks(ns) == AsI64(SaturatingAdd(ns, Epoch) \div NsPerTick)
===============================================================================
