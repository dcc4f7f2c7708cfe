--------------------------- MODULE TriggerFragment ---------------------------
(***************************************************************************)
(* What CreateFragment puts into the fragments of the Penn Trigger Board   *)
(* (Generators/SBND/TriggerBoardReader_generator.cc:233-642): the exposure *)
(* accounting of the high-level triggers (HLT) and the fragment timestamp. *)
(* How the words get there is the subject of module TriggerBoard.          *)
(*                                                                         *)
(* Beam gates (low-level trigger 30) and off-beam gates (HLT 27) are       *)
(* counted per HLT.  The word of an HLT carries the number of gates since  *)
(* the word before with the same HLT, and that word's timestamp; if it has *)
(* several HLT bits the last one in Order wins.  A word's timestamp is its *)
(* number.                                                                 *)
(***************************************************************************)
EXTENDS Integers, Sequences, FiniteSets, FiniteSetsExt

CONSTANTS
  Bits,        \* HLT bits that occur
  TSGroup,     \* _group_size
  MaxLogged    \* bound: words in all fragments

ASSUME FragmentAssumption ==
  /\ Bits \subseteq 0 .. 31
  /\ TSGroup \in Nat /\ MaxLogged \in Nat

VARIABLES
  numGates,       \* numGates, per HLT
  prevHLT,        \* prevHLTxxTS, per HLT
  log,            \* history: every word put into a fragment
  first,          \* index in log of the first word of this fragment
  timestamp,      \* timestamp of this fragment
  lastTimestamp   \* _last_timestamp (Invalid: _has_last_TS is false)

fragmentVars == <<numGates, prevHLT, log, first, timestamp, lastTimestamp>>

Order == <<1, 6, 2, 3, 4, 16, 17, 22, 23>>
BeamStream == {1, 2, 6, 16}
OffBeamStream == {3, 4, 17, 22, 23}
Stream == BeamStream \cup OffBeamStream

Invalid == 0      \* InvalidTimestamp
NoGates == -1     \* the gate counter is as the board sent it
Unwritten == -1   \* bytes of the fragment that nobody has written

FragmentInit ==
  /\ numGates = [h \in Stream |-> 0]
  /\ prevHLT = [h \in Stream |-> 0]
  /\ log = <<>> /\ first = 1
  /\ timestamp = Invalid /\ lastTimestamp = Invalid

TSInFragment == {k \in first .. Len(log) : log[k].kind = "ts"}

Put(kind, time, bits, gates, prev) ==
  /\ Len(log) < MaxLogged
  /\ log' = Append(log, [kind |-> kind, time |-> time, bits |-> bits,
                         gates |-> gates, prev |-> prev])

Open(words) == TSGroup = 0 \/ words < TSGroup

(* Mutant: a timestamp of zero is remembered like any other.               *)
TSWord_KeepsZero ==
  LET count == Cardinality(TSInFragment)
  IN  /\ Open(count)
      /\ \E time \in {Len(log) + 1, 0} :
           /\ Put("ts", time, {}, NoGates, IF Open(count + 1) THEN 0 ELSE Unwritten)
           /\ lastTimestamp' = time
           /\ timestamp' = IF timestamp = Invalid THEN lastTimestamp' ELSE timestamp
      /\ UNCHANGED <<numGates, prevHLT, first>>

(* A timestamp word, whose time the board may have left zero.  The one     *)
(* that completes the group leaves the loop before the word is given the   *)
(* timestamp that precedes it in the fragment.                             *)
TSWord ==
  LET count == Cardinality(TSInFragment)
  IN  /\ Open(count)
      /\ \E time \in {Len(log) + 1, 0} :
           /\ Put("ts", time, {}, NoGates, IF Open(count + 1) THEN 0 ELSE Unwritten)
           /\ lastTimestamp' = IF time = 0 THEN lastTimestamp ELSE time
           /\ timestamp' = IF timestamp = Invalid THEN lastTimestamp' ELSE timestamp
      /\ UNCHANGED <<numGates, prevHLT, first>>

GateWord(streams) ==
  numGates' = [h \in Stream |-> IF h \in streams THEN numGates[h] + 1 ELSE numGates[h]]

(* A low-level trigger word with or without the beam gate bit.             *)
LLTWord ==
  /\ Open(Cardinality(TSInFragment))
  /\ \/ Put("beam_gate", Len(log) + 1, {}, NoGates, 0) /\ GateWord(BeamStream)
     \/ Put("other", Len(log) + 1, {}, NoGates, 0) /\ GateWord({})
  /\ UNCHANGED <<prevHLT, first, timestamp, lastTimestamp>>

(* Mutant: the off-beam gate is counted after the word has been filled.    *)
HLTWord_GateLast(bits) ==
  LET places == {k \in DOMAIN Order : Order[k] \in bits}
      winner == Order[Max(places)]
      kept   == [h \in Stream |-> IF h \in bits THEN 0 ELSE numGates[h]]
  IN  /\ Open(Cardinality(TSInFragment))
      /\ IF places = {}
           THEN Put("hlt", Len(log) + 1, bits, NoGates, 0)
           ELSE Put("hlt", Len(log) + 1, bits, numGates[winner], prevHLT[winner])
      /\ numGates' = [h \in Stream |-> IF 27 \in bits /\ h \in OffBeamStream
                                         THEN kept[h] + 1 ELSE kept[h]]
      /\ prevHLT' = [h \in Stream |-> IF h \in bits THEN Len(log) + 1 ELSE prevHLT[h]]
      /\ UNCHANGED <<first, timestamp, lastTimestamp>>

(* HLT 27 counts an off-beam gate first.  Then every HLT in the word has   *)
(* its gates and its previous timestamp written into the word, one after   *)
(* the other, and reset.                                                   *)
HLTWord(bits) ==
  LET counted == [h \in Stream |->
                    IF 27 \in bits /\ h \in OffBeamStream THEN numGates[h] + 1
                                                         ELSE numGates[h]]
      places  == {k \in DOMAIN Order : Order[k] \in bits}
      winner  == Order[Max(places)]
  IN  /\ Open(Cardinality(TSInFragment))
      /\ IF places = {}
           THEN Put("hlt", Len(log) + 1, bits, NoGates, 0)
           ELSE Put("hlt", Len(log) + 1, bits, counted[winner], prevHLT[winner])
      /\ numGates' = [h \in Stream |-> IF h \in bits THEN 0 ELSE counted[h]]
      /\ prevHLT' = [h \in Stream |-> IF h \in bits THEN Len(log) + 1 ELSE prevHLT[h]]
      /\ UNCHANGED <<first, timestamp, lastTimestamp>>

(* The words available are used up, or the group is complete: the next     *)
(* fragment starts from the last timestamp seen.  A start() in between     *)
(* resets none of these variables.                                         *)
NextFragment ==
  /\ Len(log) >= first
  /\ first' = Len(log) + 1
  /\ timestamp' = lastTimestamp
  /\ UNCHANGED <<numGates, prevHLT, log, lastTimestamp>>

FragmentNext ==
  \/ TSWord \/ LLTWord
  \/ \E bits \in SUBSET Bits \ {{}} : HLTWord(bits)
  \/ NextFragment

FragmentSpec == FragmentInit /\ [][FragmentNext]_fragmentVars

-----------------------------------------------------------------------------
(* PROPERTIES                                                              *)

FragmentTypeOK ==
  /\ numGates \in [Stream -> 0 .. MaxLogged]
  /\ prevHLT \in [Stream -> 0 .. MaxLogged]
  /\ \A k \in DOMAIN log :
       /\ log[k].kind \in {"ts", "beam_gate", "other", "hlt"}
       /\ log[k].time \in 0 .. MaxLogged
       /\ log[k].bits \subseteq Bits
       /\ log[k].gates \in NoGates .. MaxLogged
       /\ log[k].prev \in Unwritten .. MaxLogged
  /\ Len(log) <= MaxLogged /\ first \in 1 .. Len(log) + 1
  /\ {timestamp, lastTimestamp} \subseteq 0 .. MaxLogged

IsGate(word, h) ==
  IF h \in BeamStream THEN word.kind = "beam_gate" ELSE 27 \in word.bits

(* The last word before the k-th that has HLT h, or 0.                     *)
Previous(k, h) == Max({0} \cup {j \in 1 .. k - 1 : h \in log[j].bits})

(* The comment at lines 464-471: of several HLT in one word the last in    *)
(* the chosen order is the one reported.                                   *)
Reported(word) ==
  CHOOSE h \in word.bits \cap Stream :
    \A other \in word.bits \cap Stream :
      \A i, j \in DOMAIN Order : Order[i] = h /\ Order[j] = other => j <= i

(* The exposure written into a word is right: the gates since, and the     *)
(* time of, the previous word with the same HLT, both for one HLT, however *)
(* many HLT share words, fragments or runs in between (lines 412-539).     *)
ExposureTrue ==
  \A k \in DOMAIN log :
    log[k].bits \cap Stream # {} =>
      LET h == Reported(log[k])
          p == Previous(k, h)
      IN  /\ log[k].prev = p
          /\ log[k].gates = Cardinality({j \in p + 1 .. k : IsGate(log[j], h)})

(* A fragment is stamped with the last valid timestamp word before it, or  *)
(* with its own first one when there was none, so the time of a fragment   *)
(* is never later than that of a word behind its first timestamp word.     *)
OpeningTimestamp ==
  LET valid  == {k \in DOMAIN log : log[k].kind = "ts" /\ log[k].time # 0}
      before == {k \in valid : k < first}
  IN  timestamp = IF before # {} THEN Max(before)
                  ELSE IF valid # {} THEN Min(valid) ELSE Invalid

(* The words of a fragment and its timestamp are right.                    *)
FragmentInv == FragmentTypeOK /\ OpeningTimestamp
=============================================================================
