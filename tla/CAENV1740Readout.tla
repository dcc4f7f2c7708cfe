-------------------------- MODULE CAENV1740Readout --------------------------
(***************************************************************************)
(* Generators/SBND/CAENV1740Readout_generator.cc, the older sibling of the *)
(* PMT digitizer's reader.  Its threads, its pool and its map of           *)
(* timestamps are those of CAENV1730Readout, and the actions that are the  *)
(* same are taken from there.  It differs in three places:                 *)
(*   - an event larger than a block is noticed only by the red zone;       *)
(*   - gaps in the trigger numbers are logged, and no metric counts them;  *)
(*   - the sequence ID is raised by the counter's range after the fragment *)
(*     with the largest counter was made, and not when the counter falls.  *)
(* One specification runs either reader, chosen in the initial state, so   *)
(* that each promise below is a promise of both.                           *)
(***************************************************************************)
EXTENDS CAENV1730Readout, CAENConfiguration

VARIABLE digitizer   \* the reader this process runs

vars1740 == <<vars, digitizer>>

Init1740 == Init /\ digitizer \in {"V1730", "V1740"}

-----------------------------------------------------------------------------
(* start() allocates the pool, clears the map and lets the board take      *)
(* triggers.  The sequence IDs start over, last_rcvd_rwcounter does not.   *)
ConfigureDataBuffer1740 ==
  /\ command = "off"
  /\ command' = "start"
  /\ free' = [k \in 1 .. PoolBlocks |-> TRUE]
  /\ timestampMap' = <<>>
  /\ acquiring' = TRUE
  /\ overflowCounter' = 0
  /\ UNCHANGED <<worker, trigger, board, active, readout, gn, gnEvent, lookups, sent,
                 lastSentCounter>>

(* ReadData may write past the end of the block; nothing compares the size *)
(* it returns with the block's.                                            *)
ReadEvent1740 ==
  /\ Calling /\ ro = "read"
  /\ board # <<>>
  /\ board' = Tail(board)
  /\ roEvent' = Head(board)
  /\ roIntact' \in {roIntact, FALSE}
  /\ ro' = "verify"
  /\ UNCHANGED <<worker, acquiring, trigger, command, pool, timestampMap,
                 failGetNext, lastRcvCounter, gapSum, lastKept, sender>>

QueueEvent1740 ==
  /\ Calling /\ ro = "recorded"
  /\ lastRcvCounter' = Counter(roEvent)
  /\ active' = Append(active, roEvent)
  /\ lastKept' = roEvent
  /\ ro' = "take" /\ roIntact' = TRUE /\ roEvent' = NoEvent
  /\ UNCHANGED <<worker, hardware, command, free, timestampMap, failGetNext,
                 gapSum, sender>>

(* An event is dropped after its red zone was verified if the transfer     *)
(* reports an error or the header's size is not the number of bytes read.  *)
DropEvent1740 == BadHeader

GetData1740 ==
  \/ IRQWait \/ TakeBlock \/ PoolExhausted \/ ReadNothing \/ ReadEvent1740
  \/ RedzoneThrows \/ DropEvent1740 \/ RecordTimestamp \/ QueueEvent1740

-----------------------------------------------------------------------------
(* The first lookup, three more with a nap before each, and a last one.    *)
LookupTimestamp1740 ==
  LET found == Counter(gnEvent) \in DOMAIN timestampMap
  IN  /\ gn = "lookup"
      /\ lookups' = IF found THEN lookups ELSE lookups + 1
      /\ gn' = IF found \/ lookups = 4 THEN "send" ELSE "lookup"
      /\ UNCHANGED <<worker, hardware, command, pool, timestampMap, readout,
                     gnEvent, sent, overflowCounter, lastSentCounter>>

(* Mutant: the overflow is counted before the sequence ID is made.         *)
SequenceID1740_CountsFirst(counter) ==
  counter + (overflowCounter + (IF counter = EventMask THEN 1 ELSE 0)) * Modulus

(* Computed in 32 bits, which 2^32 triggers in one run would overflow.     *)
SequenceID1740(counter) == counter + overflowCounter * Modulus

SendFragment1740 ==
  LET counter == Counter(gnEvent)
  IN  /\ gn = "send"
      /\ sent' = [event |-> gnEvent, sequence |-> SequenceID1740(counter),
                  timestamp |-> IF lookups > 4 THEN MadeUp ELSE timestampMap[counter]]
      /\ timestampMap' = Restrict(timestampMap, DOMAIN timestampMap \ {counter})
      /\ overflowCounter' = overflowCounter + (IF counter = EventMask THEN 1 ELSE 0)
      /\ gnEvent' = NoEvent
      /\ gn' = "loop"
      /\ UNCHANGED <<worker, hardware, command, pool, readout, lookups, lastSentCounter>>

GetNext1740 ==
  \/ GetNextBegin \/ ReadBlock \/ ReleaseBlock \/ LookupTimestamp1740
  \/ SendFragment1740 \/ GetNextEnd

-----------------------------------------------------------------------------
ReadoutThread1740 == EnterGetData \/ GetData1740 \/ LeaveRun

As(reader, Action) == digitizer = reader /\ Action /\ UNCHANGED digitizer

Next1740 ==
  \/ As("V1730", Next)
  \/ As("V1740", Trigger)
  \/ As("V1740", ConfigureDataBuffer1740)
  \/ As("V1740", StopNoMutex)
  \/ As("V1740", Transitions)
  \/ As("V1740", ReadoutThread1740)
  \/ As("V1740", GetNext1740)

(* Either reader's threads are scheduled as CAENV1730Readout says.         *)
Fairness1740 ==
  /\ \A reader \in {"V1730", "V1740"} : WF_vars1740(As(reader, Transitions))
  /\ WF_vars1740(As("V1730", ReadoutThread)) /\ WF_vars1740(As("V1740", ReadoutThread1740))
  /\ WF_vars1740(As("V1730", GetNext)) /\ WF_vars1740(As("V1740", GetNext1740))

Spec1740 == Init1740 /\ [][Next1740]_vars1740 /\ Fairness1740

-----------------------------------------------------------------------------
(* PROPERTIES                                                              *)

(* Both readers keep the map, the pool and the two threads in agreement;   *)
(* only the V1730 counts the gaps.  What they configure is no part of the  *)
(* state: it is checked for every configuration.                           *)
Inv1740 ==
  /\ TypeOK
  /\ ConfiguredAsAsked
  /\ TimestampsMatchEvents
  /\ BlocksAccounted
  /\ QuietAfterStop
  /\ digitizer = "V1730" => GapsCountTriggers

(* The counter ran over between two fragments of a V1740, and the event    *)
(* with its largest value was not among those sent.                        *)
OverflowMissed ==
  /\ digitizer = "V1740"
  /\ Counter(sent'.event) < Counter(sent.event)
  /\ Counter(sent.event) # EventMask

(* Fragments leave in trigger order, each at most once, and with the time  *)
(* of the same trigger, on whichever side of a second the board was read   *)
(* (CAENV1730Readout_generator.cc:1164-1167, 1335-1391).  The sequence ID  *)
(* follows the trigger number however many events are missing; the V1740's *)
(* falls back by the counter's range when the one event that raises it is  *)
(* missing (CAENV1740Readout_generator.cc:1960).                           *)
FragmentsTrue1740 ==
  [][sent' # sent =>
       /\ sent'.event > sent.event
       /\ sent'.timestamp = TriggerTime(sent'.event) - TimeTagShift
       /\ sent'.sequence - sent.sequence =
            sent'.event - sent.event - (IF OverflowMissed THEN Modulus ELSE 0)]_vars1740

=============================================================================
