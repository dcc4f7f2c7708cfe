-------------------------- MODULE CAENV1730Readout --------------------------
(***************************************************************************)
(* Generators/Common/CAENV1730Readout_generator.cc, the PMT digitizer      *)
(* board reader.  Three parties share its state:                           *)
(*   - the board, which numbers every trigger with a 24-bit counter and    *)
(*     keeps accepted events until they are read;                          *)
(*   - the readout thread (a WorkerThread calling GetData), which moves    *)
(*     events from the board into blocks of the pool buffer and records a  *)
(*     timestamp for each in fTimestampMap;                                *)
(*   - artdaq's threads: one calls getNext_, which turns the active blocks *)
(*     into fragments, the other start() and, in the middle of a getNext_, *)
(*     stop().                                                             *)
(*                                                                         *)
(* An event is named by its true trigger number; the code only ever sees   *)
(* that number modulo EventMask + 1.  The pool is used through the         *)
(* promises PoolBuffer is checked against: a stack of free blocks, of      *)
(* which only the state of the red zone is kept, and a FIFO of events.     *)
(***************************************************************************)
EXTENDS Integers, Sequences, Functions

CONSTANTS
  PoolBlocks,       \* blocks in fPoolBuffer
  EventMask,        \* EVENT_COUNTER_MASK: 16#FFFFFF in the code
  BoardBuffers,     \* events the board can hold
  MaxGap,           \* bound: triggers beyond the last event that was kept
  FirstTrigger,     \* bound: number of the first trigger of the run
  LastTrigger,      \* bound: number of the last trigger of the run
  TriggerPeriod,    \* bound: time between two triggers
  Second,           \* the board's time tag starts over every Second
  TimeTagShift,     \* useTimeTagShiftForTimeStamp: time from trigger to time tag
  MaxStopAttempts   \* of the WorkerThread

(* Overflow of the counter is told from disorder by the size of the step   *)
(* back: more than nine tenths of the range (integer arithmetic).          *)
Modulus == EventMask + 1
StepBack == (EventMask * 9) \div 10

ASSUME V1730Assumption ==
  /\ PoolBlocks \in Nat \ {0}
  /\ EventMask \in Nat \ {0}
  /\ BoardBuffers \in Nat \ {0}
  /\ MaxGap \in 1 .. Modulus - StepBack - 1
  /\ FirstTrigger \in Nat
  /\ LastTrigger \in Nat /\ FirstTrigger <= LastTrigger
  /\ TriggerPeriod \in Nat \ {0}
  /\ Second \in Nat \ {0} /\ Second % 2 = 0
  /\ TimeTagShift \in 0 .. Second \div 2
  /\ MaxStopAttempts \in Nat

(* What the code relies on without a check: the events the pool can hold   *)
(* have different counters, and the first event of a run is kept before    *)
(* the counter runs over, as the board counts from 0.                      *)
ASSUME CounterAssumption ==
  /\ PoolBlocks * MaxGap < Modulus
  /\ FirstTrigger + MaxGap <= Modulus

VARIABLES
  ctl, started, stopRunning, futureValid, attempts, run,  \* the WorkerThread
  acquiring,       \* between SWStartAcquisition and SWStopAcquisition
  trigger,         \* the board's last trigger
  board,           \* events stored on the board, oldest first
  command,         \* artdaq's thread: off, start, run; stopNoMutex, which is
                   \* stop(); flag (should_stop is set); stop, stopped
  free,            \* red zones (intact?) of the free blocks, top first
  active,          \* events in the active blocks, front first
  failGetNext,     \* fail_GetNext
  timestampMap,    \* fTimestampMap: event counter -> timestamp
  lastRcvCounter,  \* last_rcv_event_counter
  gapSum,          \* sum of the gaps sent to the BoardEventRate metric
  overflowCounter, \* fOverflowCounter
  lastSentCounter, \* last_sent_event_counter
  ro,              \* where the readout thread is in readWindowDataBlocks
  roIntact,        \* red zone of the block it holds
  roEvent,         \* event in the block it holds
  gn,              \* where artdaq is in getNext_
  gnEvent,         \* event in the fragment being made
  lookups,         \* failed lookups of its timestamp so far
  sent,            \* the fragment sent last
  lastKept         \* the event returned to the pool as active last

worker == <<ctl, started, stopRunning, futureValid, attempts, run>>
hardware == <<acquiring, trigger, board>>
pool == <<free, active>>
readout == <<ro, roIntact, roEvent, failGetNext, lastRcvCounter, gapSum, lastKept>>
sender == <<gn, gnEvent, lookups, sent, overflowCounter, lastSentCounter>>
vars == <<worker, hardware, command, pool, timestampMap, readout, sender>>

W == INSTANCE WorkerThread

NoEvent == -1       \* an empty hand
MadeUp == -2        \* a timestamp getNext_ generates itself
Counter(n) == n % Modulus
Calling == run["latest"] = "call"

Init ==
  /\ W!Init
  /\ acquiring = FALSE /\ trigger = FirstTrigger - 1 /\ board = <<>>
  /\ command = "off" /\ free = <<>> /\ active = <<>>
  /\ failGetNext = FALSE /\ timestampMap = <<>>
  /\ lastRcvCounter = 0 /\ gapSum = 0 /\ overflowCounter = 0 /\ lastSentCounter = 0
  /\ ro = "out" /\ roIntact = TRUE /\ roEvent = NoEvent
  /\ gn = "out" /\ gnEvent = NoEvent /\ lookups = 0
  /\ sent = [event |-> NoEvent, sequence |-> NoEvent, timestamp |-> NoEvent]
  /\ lastKept = FirstTrigger - 1

-----------------------------------------------------------------------------
(* The board counts every trigger and stores those it has room for.        *)
Trigger ==
  /\ acquiring
  /\ trigger < LastTrigger
  /\ trigger < lastKept + MaxGap
  /\ trigger' = trigger + 1
  /\ \/ Len(board) < BoardBuffers /\ board' = Append(board, trigger + 1)
     \/ board' = board
  /\ UNCHANGED <<worker, acquiring, command, pool, timestampMap, readout, sender>>

-----------------------------------------------------------------------------
(* start() and stop().  allocate() throws on a second start(), so a        *)
(* generator is started once.  artdaq's Stop calls stopNoMutex(), which is *)
(* stop(), sets its flag, and calls stop() again once it has the mutex     *)
(* that getNext_ is called under.                                          *)

ConfigureDataBuffer ==
  /\ command = "off"
  /\ command' = "start"
  /\ free' = [k \in 1 .. PoolBlocks |-> TRUE]
  /\ timestampMap' = <<>>
  /\ acquiring' = TRUE
  /\ overflowCounter' = 0 /\ lastRcvCounter' = 0 /\ lastSentCounter' = 0
  /\ UNCHANGED <<worker, trigger, board, active, failGetNext, gapSum, ro, roIntact,
                 roEvent, lastKept, gn, gnEvent, lookups, sent>>

StartThread ==
  /\ command = "start"
  /\ \/ W!StartLaunch /\ UNCHANGED command
     \/ W!StartAssigned /\ command' = "run"
  /\ UNCHANGED <<hardware, pool, timestampMap, readout, sender>>

StopNoMutex ==
  /\ command = "run" /\ command' = "stopNoMutex"
  /\ W!StopRequest \/ W!StopIgnored
  /\ UNCHANGED <<hardware, pool, timestampMap, readout, sender>>

JoinThread ==
  /\ W!StopWaitMore \/ W!StopJoin
  /\ UNCHANGED <<hardware, command, pool, timestampMap, readout, sender>>

SWStopAcquisition ==
  /\ command \in {"stopNoMutex", "stop"}
  /\ ctl = "idle" /\ ~started
  /\ acquiring' = FALSE
  /\ command' = IF command = "stop" THEN "stopped" ELSE "flag"
  /\ UNCHANGED <<worker, trigger, board, pool, timestampMap, readout, sender>>

StopAgain ==
  /\ command = "flag" /\ command' = "stop"
  /\ gn \in {"out", "thrown"}
  /\ W!StopRequest \/ W!StopIgnored
  /\ UNCHANGED <<hardware, pool, timestampMap, readout, sender>>

-----------------------------------------------------------------------------
(* The readout thread: one call of GetData.                                *)

(* The loop of run() around the calls.                                     *)
EnterGetData ==
  /\ W!RunCheck("latest")
  /\ ro' = IF stopRunning THEN "out" ELSE "begin"
  /\ UNCHANGED <<hardware, command, pool, timestampMap, roIntact, roEvent,
                 failGetNext, lastRcvCounter, gapSum, lastKept, sender>>

LeaveRun ==
  /\ W!NapOver("latest") \/ W!RunEnds("latest") \/ W!RunExits("latest")
  /\ UNCHANGED <<hardware, command, pool, timestampMap, readout, sender>>

Return ==
  /\ W!CallReturns("latest")
  /\ ro' = "out"

(* After an earlier exhaustion of the pool every call returns at once. An  *)
(* interrupt that does not come or a failing wait ends the call; a         *)
(* successful wait leads to the reading loop.                              *)
IRQWait ==
  /\ Calling /\ ro = "begin"
  /\ \/ Return
     \/ ~failGetNext /\ ro' = "take" /\ UNCHANGED worker
  /\ UNCHANGED <<hardware, command, pool, timestampMap, roIntact, roEvent,
                 failGetNext, lastRcvCounter, gapSum, lastKept, sender>>

(* A block is taken before it is known whether there is anything to read.  *)
TakeBlock ==
  /\ Calling /\ ro = "take"
  /\ free # <<>>
  /\ roIntact' = Head(free)
  /\ free' = Tail(free)
  /\ ro' = "read"
  /\ UNCHANGED <<worker, hardware, command, active, timestampMap, roEvent,
                 failGetNext, lastRcvCounter, gapSum, lastKept, sender>>

PoolExhausted ==
  /\ Calling /\ ro = "take"
  /\ free = <<>>
  /\ failGetNext' = TRUE
  /\ Return
  /\ UNCHANGED <<hardware, command, pool, timestampMap, roIntact, roEvent,
                 lastRcvCounter, gapSum, lastKept, sender>>

(* The block goes back to the free stack as it is.                         *)
GiveBack(intact) ==
  /\ free' = <<intact>> \o free
  /\ roIntact' = TRUE
  /\ roEvent' = NoEvent
  /\ UNCHANGED active

(* CAEN_DGTZ_ReadData fails, or finds nothing on the board.                *)
ReadNothing ==
  /\ Calling /\ ro = "read"
  /\ GiveBack(roIntact)
  /\ Return
  /\ UNCHANGED <<hardware, command, timestampMap, failGetNext, lastRcvCounter,
                 gapSum, lastKept, sender>>

(* It returns more bytes than a block has: the event is dropped, and the   *)
(* block returned without a look at its red zone.                          *)
ReadOversize ==
  /\ Calling /\ ro = "read"
  /\ board # <<>>
  /\ board' = Tail(board)
  /\ \E intact \in {roIntact, FALSE} : GiveBack(intact)
  /\ Return
  /\ UNCHANGED <<acquiring, trigger, command, timestampMap, failGetNext,
                 lastRcvCounter, gapSum, lastKept, sender>>

ReadEvent ==
  /\ Calling /\ ro = "read"
  /\ board # <<>>
  /\ board' = Tail(board)
  /\ roEvent' = Head(board)
  /\ ro' = "verify"
  /\ UNCHANGED <<worker, acquiring, trigger, command, pool, timestampMap, roIntact,
                 failGetNext, lastRcvCounter, gapSum, lastKept, sender>>

(* verify_redzone() throws: run() ends, and the block is in no container.  *)
RedzoneThrows ==
  /\ ro = "verify"
  /\ ~roIntact
  /\ W!CallThrows("latest")
  /\ ro' = "out" /\ roIntact' = TRUE /\ roEvent' = NoEvent
  /\ UNCHANGED <<hardware, command, pool, timestampMap, failGetNext,
                 lastRcvCounter, gapSum, lastKept, sender>>

(* Mutant: the block of a dropped event is forgotten.                      *)
BadHeader_KeepsBlock ==
  /\ Calling /\ ro = "verify"
  /\ roIntact
  /\ roEvent' = NoEvent
  /\ Return
  /\ UNCHANGED <<hardware, command, pool, timestampMap, roIntact, failGetNext,
                 lastRcvCounter, gapSum, lastKept, sender>>

(* The header's event size differs from the bytes read: dropped.           *)
BadHeader ==
  /\ Calling /\ ro = "verify"
  /\ roIntact
  /\ GiveBack(roIntact)
  /\ Return
  /\ UNCHANGED <<hardware, command, timestampMap, failGetNext, lastRcvCounter,
                 gapSum, lastKept, sender>>

TriggerTime(n) == n * TriggerPeriod

Half == Second \div 2

(* Mutant: no second is ever taken off.                                    *)
Timestamp_AddsOnly(meanPollTime, tag) ==
  LET ns == meanPollTime % Second
  IN  meanPollTime - ns + tag + (IF tag - ns < -Half THEN Second ELSE 0)

(* The second of the host joined with the tag of the board, moved by one   *)
(* second if the two are more than half a second apart.                    *)
Timestamp(meanPollTime, tag) ==
  LET ns == meanPollTime % Second
  IN  meanPollTime - ns + tag + (IF tag - ns < -Half THEN Second ELSE 0)
                              - (IF tag - ns > Half THEN Second ELSE 0)

(* fTTT_ns: the time tag of the board, which PPS resets every second.      *)
TimeTag(n) == (TriggerTime(n) % Second) - TimeTagShift

(* The middle of the poll that found the event is less than half a second  *)
(* away, which is so when polls are shorter than a second.                 *)
MeanPollTimes(n) ==
  TriggerTime(n) - TimeTagShift - Half + 1 .. TriggerTime(n) - TimeTagShift + Half - 1

(* The timestamp is recorded before the block becomes active.              *)
RecordTimestamp ==
  /\ Calling /\ ro = "verify"
  /\ roIntact
  /\ \E meanPollTime \in MeanPollTimes(roEvent) :
       timestampMap' =
         [c \in DOMAIN timestampMap \cup {Counter(roEvent)} |->
            IF c = Counter(roEvent) THEN Timestamp(meanPollTime, TimeTag(roEvent))
                                    ELSE timestampMap[c]]
  /\ ro' = "recorded"
  /\ UNCHANGED <<worker, hardware, command, pool, roIntact, roEvent, failGetNext,
                 lastRcvCounter, gapSum, lastKept, sender>>

Gap == (Counter(roEvent) - lastRcvCounter) % Modulus

(* The gap is taken modulo the counter's range and the block is queued;    *)
(* the loop goes on.                                                       *)
QueueEvent ==
  /\ Calling /\ ro = "recorded"
  /\ gapSum' = gapSum + Gap
  /\ lastRcvCounter' = Counter(roEvent)
  /\ active' = Append(active, roEvent)
  /\ lastKept' = roEvent
  /\ ro' = "take" /\ roIntact' = TRUE /\ roEvent' = NoEvent
  /\ UNCHANGED <<worker, hardware, command, free, timestampMap, failGetNext, sender>>

GetData ==
  \/ IRQWait \/ TakeBlock \/ PoolExhausted \/ ReadNothing \/ ReadOversize
  \/ ReadEvent \/ RedzoneThrows \/ BadHeader \/ RecordTimestamp \/ QueueEvent

-----------------------------------------------------------------------------
(* getNext_ and readSingleWindowFragments.                                 *)

(* Mutants: getNext_ does not look at fail_GetNext; it waits for more than *)
(* one active block.                                                       *)
GetNextBegin_IgnoresFailure ==
  /\ command \in {"run", "stopNoMutex"}
  /\ gn = "out"
  /\ active # <<>>
  /\ gn' = "loop"
  /\ UNCHANGED <<worker, hardware, command, pool, timestampMap, readout, gnEvent,
                 lookups, sent, overflowCounter, lastSentCounter>>

GetNextBegin_WaitsForTwo ==
  /\ command \in {"run", "stopNoMutex"}
  /\ gn = "out"
  /\ \/ failGetNext /\ gn' = "thrown"
     \/ ~failGetNext /\ Len(active) > 1 /\ gn' = "loop"
  /\ UNCHANGED <<worker, hardware, command, pool, timestampMap, readout, gnEvent,
                 lookups, sent, overflowCounter, lastSentCounter>>

(* artdaq calls getNext_ until its flag is set or it throws.               *)
GetNextBegin ==
  /\ command \in {"run", "stopNoMutex"}
  /\ gn = "out"
  /\ \/ failGetNext /\ gn' = "thrown"
     \/ ~failGetNext /\ active # <<>> /\ gn' = "loop"
  /\ UNCHANGED <<worker, hardware, command, pool, timestampMap, readout, gnEvent,
                 lookups, sent, overflowCounter, lastSentCounter>>

(* read() takes the oldest active block and copies it into the fragment.   *)
ReadBlock ==
  /\ gn = "loop"
  /\ active # <<>>
  /\ gnEvent' = Head(active)
  /\ active' = Tail(active)
  /\ gn' = "read"
  /\ UNCHANGED <<worker, hardware, command, free, timestampMap, readout, lookups,
                 sent, overflowCounter, lastSentCounter>>

(* read() returns the block, whose red zone it has verified.               *)
ReleaseBlock ==
  /\ gn = "read"
  /\ free' = <<TRUE>> \o free
  /\ lookups' = 0
  /\ gn' = "lookup"
  /\ UNCHANGED <<worker, hardware, command, active, timestampMap, readout, gnEvent,
                 sent, overflowCounter, lastSentCounter>>

(* Mutant: only a step from the largest value to 0 counts.                 *)
Overflowed_ExactStep(counter) == lastSentCounter - counter = EventMask

(* The counter has run over if it fell by more than StepBack.              *)
Overflowed(counter) ==
  counter < lastSentCounter /\ lastSentCounter - counter > StepBack

Overflows(counter) == overflowCounter + (IF Overflowed(counter) THEN 1 ELSE 0)

SequenceID(counter) == counter + Overflows(counter) * Modulus

(* The timestamp is looked up once and then three times more, and if it is *)
(* still missing the fragment gets one made up from the clock.             *)
LookupTimestamp ==
  LET found == Counter(gnEvent) \in DOMAIN timestampMap
  IN  /\ gn = "lookup"
      /\ lookups' = IF found THEN lookups ELSE lookups + 1
      /\ gn' = IF found \/ lookups = 3 THEN "send" ELSE "lookup"
      /\ UNCHANGED <<worker, hardware, command, pool, timestampMap, readout,
                     gnEvent, sent, overflowCounter, lastSentCounter>>

(* Mutant: the entry of the map is not erased.                             *)
SendFragment_NoErase ==
  LET counter == Counter(gnEvent)
  IN  /\ gn = "send"
      /\ sent' = [event |-> gnEvent, sequence |-> SequenceID(counter),
                  timestamp |-> IF lookups > 3 THEN MadeUp ELSE timestampMap[counter]]
      /\ overflowCounter' = Overflows(counter)
      /\ lastSentCounter' = counter
      /\ gnEvent' = NoEvent
      /\ gn' = "loop"
      /\ UNCHANGED <<worker, hardware, command, pool, timestampMap, readout, lookups>>

SendFragment ==
  LET counter == Counter(gnEvent)
  IN  /\ gn = "send"
      /\ sent' = [event |-> gnEvent, sequence |-> SequenceID(counter),
                  timestamp |-> IF lookups > 3 THEN MadeUp ELSE timestampMap[counter]]
      /\ timestampMap' = Restrict(timestampMap, DOMAIN timestampMap \ {counter})
      /\ overflowCounter' = Overflows(counter)
      /\ lastSentCounter' = counter
      /\ gnEvent' = NoEvent
      /\ gn' = "loop"
      /\ UNCHANGED <<worker, hardware, command, pool, readout, lookups>>

GetNextEnd ==
  /\ gn = "loop"
  /\ active = <<>>
  /\ gn' = "out"
  /\ UNCHANGED <<worker, hardware, command, pool, timestampMap, readout, gnEvent,
                 lookups, sent, overflowCounter, lastSentCounter>>

GetNext ==
  \/ GetNextBegin \/ ReadBlock \/ ReleaseBlock \/ LookupTimestamp
  \/ SendFragment \/ GetNextEnd

-----------------------------------------------------------------------------
Transitions == StartThread \/ JoinThread \/ SWStopAcquisition \/ StopAgain
ReadoutThread == EnterGetData \/ GetData \/ LeaveRun

Next ==
  \/ Trigger \/ ConfigureDataBuffer \/ StopNoMutex
  \/ Transitions \/ ReadoutThread \/ GetNext

(* The operating system schedules both threads, waits for interrupts time  *)
(* out, and artdaq calls getNext_ as long as the run is on.                *)
Fairness == WF_vars(Transitions) /\ WF_vars(ReadoutThread) /\ WF_vars(GetNext)

Spec == Init /\ [][Next]_vars /\ Fairness

-----------------------------------------------------------------------------
(* PROPERTIES                                                              *)

Event == FirstTrigger .. LastTrigger

Stopped == command \in {"flag", "stop", "stopped"}

TypeOK ==
  /\ W!TypeOK
  /\ command \in {"off", "start", "run", "stopNoMutex", "flag", "stop", "stopped"}
  /\ acquiring \in BOOLEAN /\ failGetNext \in BOOLEAN
  /\ trigger \in FirstTrigger - 1 .. LastTrigger
  /\ board \in Seq(Event) /\ active \in Seq(Event)
  /\ free \in Seq(BOOLEAN)
  /\ DOMAIN timestampMap \subseteq 0 .. EventMask /\ Range(timestampMap) \subseteq Int
  /\ lastRcvCounter \in 0 .. EventMask /\ lastSentCounter \in 0 .. EventMask
  /\ overflowCounter \in Nat /\ gapSum \in Nat
  /\ ro \in {"out", "begin", "take", "read", "verify", "recorded"}
  /\ roIntact \in BOOLEAN /\ roEvent \in Event \cup {NoEvent}
  /\ gn \in {"out", "loop", "read", "lookup", "send", "thrown"}
  /\ gnEvent \in Event \cup {NoEvent} /\ lookups \in 0 .. 4

(* The map holds exactly the timestamps of the events on their way from    *)
(* the board to a fragment: nothing a thread dropped stays behind, so it   *)
(* cannot grow during a run, and no event in a block lacks its entry when  *)
(* getNext_ looks (lines 1187-1190 precede 1232).                          *)
TimestampsMatchEvents ==
  DOMAIN timestampMap =
    {Counter(e) : e \in Range(active)
                        \cup (IF ro = "recorded" THEN {roEvent} ELSE {})
                        \cup (IF gnEvent # NoEvent THEN {gnEvent} ELSE {})}

(* Every block is free, active or in one hand, except that a broken red    *)
(* zone costs one block, together with the readout thread (line 1113).     *)
BlocksAccounted ==
  LET there == Len(free) + Len(active) + (IF ro \in {"read", "verify", "recorded"} THEN 1 ELSE 0)
                                       + (IF gn = "read" THEN 1 ELSE 0)
  IN  command # "off" =>
        \/ there = PoolBlocks
        \/ there = PoolBlocks - 1 /\ run["latest"] \notin W!Looping

(* The gaps given to the BoardEventRate metric add up to the number of     *)
(* triggers the board has counted, event or not (comment at lines          *)
(* 1208-1211), across overflows and dropped events.                        *)
GapsCountTriggers == lastKept >= FirstTrigger => gapSum = lastKept

(* When acquisition is switched off, before artdaq's flag is set, the      *)
(* readout thread has left the board alone for good (lines 1551-1556).     *)
QuietAfterStop == Stopped => ~Calling /\ ro = "out"

(* An exhausted pool is a critical error: getNext_ throws, however long it *)
(* still has blocks to send, unless artdaq's flag is set first.            *)
FailureReported == failGetNext ~> (gn = "thrown" \/ Stopped)

(* A block queued for artdaq becomes a fragment, unless the run is stopped *)
(* or ended by the critical error.                                         *)
EventsDelivered ==
  \A e \in Event : e \in Range(active) ~> (sent.event >= e \/ gn = "thrown" \/ Stopped)
=============================================================================
