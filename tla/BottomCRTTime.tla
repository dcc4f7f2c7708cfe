----------------------------- MODULE BottomCRTTime -----------------------------
(***************************************************************************)
(* Generators/ICARUS/CRTFragGen_generator.cc, buildFragment(): the time    *)
(* of a packet of the bottom cosmic-ray tagger.  A module counts from the  *)
(* last sync pulse that it has heard; the generator counts the pulses, as  *)
(* the count of the module falls, and puts back the ones that the module   *)
(* has missed, which it knows when the count goes on for too long.         *)
(*                                                                         *)
(* Modules are independent, but for the start of the run, which is the     *)
(* pulse before the first packet of all: time 0.  Cable delays are left    *)
(* out.                                                                    *)
(***************************************************************************)
EXTENDS Integers, Sequences, FiniteSets, SequencesExt

CONSTANTS
  sync,               \* distance of two pulses
  rolloverThreshold,  \* a count that falls by no more does not count
  Late,               \* a count that exceeds by more than this missed a pulse
  MaxTime             \* bound: time of the last packet

ASSUME TimeAssumption ==
  /\ sync \in Nat \ {0}
  /\ {rolloverThreshold, Late, MaxTime} \subseteq Nat

(* What a module counts at a time, when it heard the pulses numbered so.   *)
lowertime(time, heard) ==
  LET pulses == {0} \cup {k \in heard : k * sync <= time}
      last == CHOOSE k \in pulses : \A other \in pulses : other <= k
  IN  time - sync * last

NewModule == [last |-> 0, upper |-> 0, missed |-> 0, stamps |-> <<>>]

(* A packet whose count was 0 makes the next one a first one again.        *)
FirstEvent(m, lower) == [m EXCEPT !.last = lower, !.stamps = Append(@, lower)]

(* Mutant: the pulses put back are not forgotten.                          *)
AnyOtherEvent_KeepsMissed(m, lower) ==
  LET rolled == lower + rolloverThreshold < m.last
      upper == IF rolled THEN m.upper + 1 + m.missed ELSE m.upper
  IN  [last   |-> lower,
       upper  |-> upper,
       missed |-> IF lower > (1 + m.missed) * sync + Late THEN m.missed + 1 ELSE m.missed,
       stamps |-> Append(m.stamps, lower + upper * sync)]

AnyOtherEvent(m, lower) ==
  LET rolled == lower + rolloverThreshold < m.last
      upper == IF rolled THEN m.upper + 1 + m.missed ELSE m.upper
      missed == IF rolled THEN 0 ELSE m.missed
  IN  [last   |-> lower,
       upper  |-> upper,
       missed |-> IF lower > (1 + missed) * sync + Late THEN missed + 1 ELSE missed,
       stamps |-> Append(m.stamps, lower + upper * sync)]

buildFragment(m, lower) ==
  IF m.last = 0 THEN FirstEvent(m, lower) ELSE AnyOtherEvent(m, lower)

Counts(times, heard) == [k \in 1 .. Len(times) |-> lowertime(times[k], heard)]
Stamps(times, heard) ==
  LET counts == Counts(times, heard)
      module[k \in 0 .. Len(times)] ==
        IF k = 0 THEN NewModule ELSE buildFragment(module[k - 1], counts[k])
  IN  module[Len(times)].stamps

-----------------------------------------------------------------------------
(* The packets of a module are steady when the first comes before the      *)
(* second pulse, none exactly with a pulse the module hears, and the next  *)
(* always soon enough to see every pulse and every pulse that is missed.   *)
Steady(times, heard) ==
  /\ times[1] < sync
  /\ \A k \in 1 .. Len(times) : lowertime(times[k], heard) # 0
  /\ \A k \in 1 .. Len(times) - 1 :
       times[k + 1] - times[k] < sync - rolloverThreshold - Late

(* Of a module whose packets are steady every packet gets its true time,   *)
(* whatever pulses the module misses, several in a row included, as long   *)
(* as they come in the order of their times.                               *)
TimestampsTrue ==
  \A packets \in SUBSET (1 .. MaxTime) \ {{}}, heard \in SUBSET (1 .. MaxTime \div sync) :
    LET times == SelectSeq([t \in 1 .. MaxTime |-> t], LAMBDA t : t \in packets)
    IN  Steady(times, heard) => Stamps(times, heard) = times
=============================================================================
