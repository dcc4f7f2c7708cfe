----------------------- MODULE CAENV1740ReadoutProofs -----------------------
(***************************************************************************)
(* Proofs about the two digitizer readers, for any number of blocks, any   *)
(* range of the event counter and any run.  The invariant follows an event *)
(* from the board through the readout thread's block, the active blocks    *)
(* and getNext_'s fragment: the events are in order at every place, they   *)
(* are too close to share a counter, and the map has each one's timestamp. *)
(***************************************************************************)
EXTENDS CAENV1740Readout, TLAPS

(* The worker thread is launched once, and the flag of the thread is up    *)
(* only while stop() waits or once run() has ended.                        *)
Finished == run["latest"] \in {"exiting", "done"}

ThreadFollowsCommand ==
  /\ run["previous"] = "none"
  /\ ctl \in {"idle", "assigning", "stopping"}
  /\ command = "off" => ctl = "idle"
  /\ command \in {"off", "start"} /\ ctl = "idle" => ~started /\ run["latest"] = "none"
  /\ ctl = "assigning" => command = "start" /\ started /\ run["latest"] # "none"
  /\ command = "start" => ctl # "stopping"
  /\ command = "run" => started /\ ctl = "idle"
  /\ command \notin {"off", "start"} => run["latest"] # "none"
  /\ command \notin {"off", "start"} /\ ctl = "idle" /\ ~started => Finished
  /\ Finished => stopRunning
  /\ stopRunning => Finished \/ ctl = "stopping"
  /\ Stopped => Finished

(* What the two threads hold follows from where they are.                  *)
InHand ==
  /\ ro # "out" => Calling
  /\ (roEvent # NoEvent) = (ro \in {"verify", "recorded"})
  /\ (gnEvent # NoEvent) = (gn \in {"read", "lookup", "send"})
  /\ gn \in {"lookup", "send"} => lookups = 0

BlocksThere ==
  Len(free) + Len(active) + (IF ro \in {"read", "verify", "recorded"} THEN 1 ELSE 0)
                          + (IF gn = "read" THEN 1 ELSE 0)

BlocksInOrder ==
  command # "off" =>
    \/ BlocksThere = PoolBlocks
    \/ BlocksThere = PoolBlocks - 1 /\ run["latest"] \in {"leaving", "exiting", "done"}

(* The event before the first of a run, the last one sent, and the one     *)
(* before the active blocks.                                               *)
Base == IF sent.event = NoEvent THEN FirstTrigger - 1 ELSE sent.event
Prior == IF gnEvent = NoEvent THEN Base ELSE gnEvent

(* Events follow each other closely from the fragment sent last to the one *)
(* kept last: a sequence s of them after the event prior, up to last.      *)
Close(a, b) == a < b /\ b <= a + MaxGap
At(prior, s, i) == IF i = 0 THEN prior ELSE s[i]

Chained(prior, s, last) ==
  /\ \A i \in 1 .. Len(s) : Close(At(prior, s, i - 1), At(prior, s, i))
  /\ \A i, j \in 0 .. Len(s) : i < j => At(prior, s, i) < At(prior, s, j)
  /\ \A i \in 0 .. Len(s) : last <= At(prior, s, i) + (Len(s) - i) * MaxGap
  /\ last = At(prior, s, Len(s))

SenderInOrder == gnEvent # NoEvent => Close(Base, gnEvent)

ActiveInOrder == Chained(Prior, active, lastKept)

(* The board has only events that come after it, in order.                 *)
BoardInOrder ==
  /\ lastKept <= trigger /\ trigger <= lastKept + MaxGap
  /\ roEvent # NoEvent => lastKept < roEvent /\ roEvent <= trigger
  /\ \A i \in 1 .. Len(board) : lastKept < board[i] /\ board[i] <= trigger
  /\ \A i \in 1 .. Len(board) : roEvent < board[i]
  /\ \A i, j \in 1 .. Len(board) : i < j => board[i] < board[j]

(* Every event whose timestamp is in the map, with its timestamp.          *)
Pending ==
  Range(active) \cup (IF ro = "recorded" THEN {roEvent} ELSE {})
                \cup (IF gnEvent # NoEvent THEN {gnEvent} ELSE {})

MapTrue ==
  /\ DOMAIN timestampMap = {Counter(e) : e \in Pending}
  /\ \A e \in Pending : timestampMap[Counter(e)] = TriggerTime(e) - TimeTagShift

(* The counters of the two threads.                                        *)
GapsCounted ==
  digitizer = "V1730" =>
    IF lastKept >= FirstTrigger
      THEN gapSum = lastKept /\ lastRcvCounter = Counter(lastKept)
      ELSE gapSum = 0 /\ lastRcvCounter = 0

OverflowsCounted ==
  /\ sent.event = NoEvent => overflowCounter = 0 /\ sent.sequence = NoEvent
  /\ digitizer = "V1730" =>
       /\ sent.sequence = sent.event
       /\ sent.event # NoEvent =>
            /\ lastSentCounter = Counter(sent.event)
            /\ sent.event = overflowCounter * Modulus + lastSentCounter
       /\ sent.event = NoEvent => lastSentCounter = 0
  /\ digitizer = "V1740" /\ sent.event # NoEvent =>
       sent.sequence + (IF Counter(sent.event) = EventMask THEN Modulus ELSE 0) =
         Counter(sent.event) + overflowCounter * Modulus

(* Before start() nothing has happened.                                    *)
NothingYet ==
  command = "off" =>
    /\ lastKept = FirstTrigger - 1 /\ trigger = FirstTrigger - 1
    /\ gapSum = 0 /\ ~acquiring /\ active = <<>> /\ board = <<>> /\ gn = "out"
    /\ sent.event = NoEvent

Fields ==
  /\ digitizer \in {"V1730", "V1740"}
  /\ lastKept \in FirstTrigger - 1 .. LastTrigger
  /\ sent.event \in Event \cup {NoEvent} /\ sent.sequence \in Int

IInv ==
  /\ TypeOK /\ Fields
  /\ ThreadFollowsCommand /\ InHand /\ BlocksInOrder /\ NothingYet
  /\ SenderInOrder /\ ActiveInOrder /\ BoardInOrder
  /\ MapTrue /\ GapsCounted /\ OverflowsCounted

-----------------------------------------------------------------------------
(* ARITHMETIC                                                              *)

(* What the proofs use of the assumptions about the constants.             *)
LEMMA Constants ==
  /\ Modulus \in Nat /\ Modulus > 1 /\ Modulus = EventMask + 1
  /\ EventMask \in Nat /\ EventMask > 0
  /\ StepBack \in Nat
  /\ MaxGap \in Nat /\ MaxGap > 0 /\ MaxGap + StepBack < Modulus
  /\ PoolBlocks \in Nat /\ PoolBlocks > 0
  /\ FirstTrigger \in Nat /\ LastTrigger \in Nat /\ FirstTrigger <= LastTrigger
  /\ FirstTrigger + MaxGap <= Modulus
<1>1. StepBack \in Nat
  BY V1730Assumption DEF StepBack
<1>2. QED
  BY <1>1, V1730Assumption, CounterAssumption DEF Modulus

(* Division with remainder, the remainder being unique.                    *)
LEMMA Euclid ==
  ASSUME NEW d \in Nat, d > 0, NEW n \in Int
  PROVE  /\ n \div d \in Int /\ n % d \in 0 .. d - 1
         /\ n = d * (n \div d) + (n % d)
OBVIOUS

(* The only multiple of a number closer to 0 than the number is 0.         *)
LEMMA MultipleOfLess ==
  ASSUME NEW d \in Nat, d > 0, NEW k \in Int, -d < d * k, d * k < d
  PROVE  k = 0
<1>1. CASE k >= 1
  BY <1>1
<1>2. CASE k <= -1
  BY <1>2
<1>3. QED
  BY <1>1, <1>2

(* A number given as a multiple and a rest has that rest.                  *)
LEMMA Remainder ==
  ASSUME NEW d \in Nat, d > 0, NEW q \in Int, NEW r \in 0 .. d - 1
  PROVE  (d * q + r) % d = r
<1> DEFINE n == d * q + r
           m == n % d
           k == q - (n \div d)
<1>1. n \in Int
  OBVIOUS
<1>2. n = d * (n \div d) + m /\ m \in 0 .. d - 1 /\ n \div d \in Int
  BY <1>1, Euclid
<1> HIDE DEF n, m
<1>3. n = d * q + r
  BY DEF n
<1>4. d * k = m - r /\ k \in Int
  BY <1>2, <1>3
<1> HIDE DEF k
<1>5. -d < d * k /\ d * k < d
  BY <1>2, <1>4
<1>6. k = 0
  BY <1>4, <1>5, MultipleOfLess
<1>7. m = r
  BY <1>2, <1>4, <1>6
<1>8. QED
  BY <1>7 DEF m, n

(* The counter of an event, and of the one a few triggers later.           *)
LEMMA CounterRange ==
  ASSUME NEW n \in Int
  PROVE  Counter(n) \in 0 .. EventMask
BY Euclid, Constants DEF Counter

(* An event before the counter runs over is its own counter.               *)
LEMMA CounterSmall ==
  ASSUME NEW n \in 0 .. EventMask
  PROVE  Counter(n) = n
<1>1. (Modulus * 0 + n) % Modulus = n
  BY Constants, Remainder
<1>2. QED
  BY <1>1, Constants DEF Counter

(* The counter of a later event, less than the range of the counter away.  *)
LEMMA CounterLater ==
  ASSUME NEW n \in Int, NEW d \in 0 .. Modulus - 1
  PROVE  Counter(n + d) = IF Counter(n) + d < Modulus THEN Counter(n) + d
                                                     ELSE Counter(n) + d - Modulus
<1> DEFINE q == n \div Modulus
           c == Counter(n)
<1>1. n = Modulus * q + c /\ q \in Int /\ c \in 0 .. Modulus - 1
  BY Constants, Euclid DEF Counter
<1> HIDE DEF q, c
<1>2. CASE c + d < Modulus
  <2>1. n + d = Modulus * q + (c + d)
    BY <1>1, Constants
  <2>2. QED
    BY <1>1, <1>2, <2>1, Constants, Remainder DEF Counter, c
<1>3. CASE ~(c + d < Modulus)
  <2> DEFINE q2 == q + 1
             c2 == c + d - Modulus
  <2>1. n + d = Modulus * q2 + c2
    BY <1>1, Constants
  <2>2. c2 \in 0 .. Modulus - 1 /\ q2 \in Int
    BY <1>1, <1>3, Constants
  <2> HIDE DEF q2, c2
  <2>3. (Modulus * q2 + c2) % Modulus = c2
    BY <2>2, Constants, Remainder
  <2>4. QED
    BY <1>3, <2>1, <2>3 DEF Counter, c, c2
<1>4. QED
  BY <1>2, <1>3

(* Events less than the counter's range apart have different counters.     *)
LEMMA CountersDiffer ==
  ASSUME NEW a \in Int, NEW b \in Int, a < b, b < a + Modulus
  PROVE  Counter(a) # Counter(b)
<1>1. Counter(a + (b - a)) = IF Counter(a) + (b - a) < Modulus THEN Counter(a) + (b - a)
                             ELSE Counter(a) + (b - a) - Modulus
  BY CounterLater, Constants
<1>2. QED
  BY <1>1, CounterRange, Constants

(* The host's second and the board's time tag give the time of the trigger *)
(* whenever the poll was less than half a second away.                     *)
LEMMA TimestampTrue ==
  ASSUME NEW n \in Int, NEW meanPollTime \in MeanPollTimes(n)
  PROVE  Timestamp(meanPollTime, TimeTag(n)) = TriggerTime(n) - TimeTagShift
<1> DEFINE T == TriggerTime(n)
           j == T \div Second
           t == T % Second
           k == meanPollTime \div Second
           ns == meanPollTime % Second
<1>1. /\ Half \in Nat /\ Second = 2 * Half /\ Second \in Nat /\ Second > 0
      /\ TimeTagShift \in Nat /\ TimeTagShift <= Half
  BY V1730Assumption DEF Half
<1>2. T \in Int
  BY V1730Assumption DEF TriggerTime
<1>3. /\ meanPollTime \in Int
      /\ T - TimeTagShift - Half < meanPollTime
      /\ meanPollTime < T - TimeTagShift + Half
  BY <1>1, <1>2 DEF MeanPollTimes, T
<1>4. T = Second * j + t /\ j \in Int /\ t \in 0 .. Second - 1
  BY <1>1, <1>2, Euclid
<1>5. meanPollTime = Second * k + ns /\ k \in Int /\ ns \in 0 .. Second - 1
  BY <1>1, <1>3, Euclid
<1>6. Timestamp(meanPollTime, TimeTag(n)) =
        meanPollTime - ns + (t - TimeTagShift)
          + (IF t - TimeTagShift - ns < -Half THEN Second ELSE 0)
          - (IF t - TimeTagShift - ns > Half THEN Second ELSE 0)
  BY DEF Timestamp, TimeTag
<1> HIDE DEF T, j, t, k, ns
<1> DEFINE gap == Second * (k - j)
<1>7. gap = (meanPollTime - ns) - (T - t) /\ gap \in Int
  BY <1>1, <1>4, <1>5
<1> HIDE DEF gap
<1>8. k - j \in {-1, 0, 1}
  <2>1. gap > -(2 * Second) /\ gap < 2 * Second
    BY <1>1, <1>2, <1>3, <1>4, <1>5, <1>7
  <2>2. CASE k - j >= 2
    <3>1. gap >= Second * 2
      BY <1>1, <1>4, <1>5, <2>2 DEF gap
    <3>2. QED
      BY <1>1, <1>7, <2>1, <3>1
  <2>3. CASE k - j <= -2
    <3>1. gap <= Second * (-2)
      BY <1>1, <1>4, <1>5, <2>3 DEF gap
    <3>2. QED
      BY <1>1, <1>7, <2>1, <3>1
  <2>4. QED
    BY <1>4, <1>5, <2>2, <2>3
<1>9. gap \in {-Second, 0, Second}
  BY <1>1, <1>8 DEF gap
<1>10. QED
  BY <1>1, <1>2, <1>3, <1>4, <1>5, <1>6, <1>7, <1>9 DEF T

-----------------------------------------------------------------------------
(* THE PARTS OF A STATE                                                    *)

CommandOK ==
  /\ command \in {"off", "start", "run", "stopNoMutex", "flag", "stop", "stopped"}
  /\ digitizer \in {"V1730", "V1740"}

HardwareOK ==
  /\ acquiring \in BOOLEAN /\ trigger \in FirstTrigger - 1 .. LastTrigger
  /\ board \in Seq(Event)

PoolOK == active \in Seq(Event) /\ free \in Seq(BOOLEAN)

MapOK == DOMAIN timestampMap \subseteq 0 .. EventMask /\ Range(timestampMap) \subseteq Int

ReadoutOK ==
  /\ failGetNext \in BOOLEAN /\ lastRcvCounter \in 0 .. EventMask /\ gapSum \in Nat
  /\ ro \in {"out", "begin", "take", "read", "verify", "recorded"}
  /\ roIntact \in BOOLEAN /\ roEvent \in Event \cup {NoEvent}
  /\ lastKept \in FirstTrigger - 1 .. LastTrigger

SenderOK ==
  /\ lastSentCounter \in 0 .. EventMask /\ overflowCounter \in Nat
  /\ gn \in {"out", "loop", "read", "lookup", "send", "thrown"}
  /\ gnEvent \in Event \cup {NoEvent} /\ lookups \in 0 .. 4
  /\ sent.event \in Event \cup {NoEvent} /\ sent.sequence \in Int

Types == W!TypeOK /\ CommandOK /\ HardwareOK /\ PoolOK /\ MapOK /\ ReadoutOK /\ SenderOK

Order == SenderInOrder /\ ActiveInOrder /\ BoardInOrder

(* The type invariant, sorted by the party whose state it is.              *)
LEMMA TypeParts == TypeOK /\ Fields <=> Types
BY DEF TypeOK, Fields, Types, CommandOK, HardwareOK, PoolOK, MapOK, ReadoutOK, SenderOK

(* The invariant as one step of a proof needs it: part by part.            *)
LEMMA Parts ==
  IInv <=> /\ Types /\ ThreadFollowsCommand /\ InHand /\ BlocksInOrder /\ NothingYet
           /\ Order /\ MapTrue /\ GapsCounted /\ OverflowsCounted
BY TypeParts DEF IInv, Order

(* And for the state after the step.                                       *)
LEMMA PartsNext ==
  ASSUME Types', ThreadFollowsCommand', InHand', BlocksInOrder', NothingYet', Order', MapTrue',
         GapsCounted', OverflowsCounted'
  PROVE  IInv'
<1>1. TypeOK' /\ Fields'
  BY DEF TypeOK, Fields, Types, CommandOK, HardwareOK, PoolOK, MapOK, ReadoutOK, SenderOK
<1>2. QED
  BY <1>1 DEF IInv, Order

(* A part that an action does not touch stays as it is.                    *)
LEMMA ThreadUntouched ==
  ASSUME W!TypeOK, CommandOK, ThreadFollowsCommand, UNCHANGED <<worker, command, digitizer>>
  PROVE  W!TypeOK' /\ CommandOK' /\ ThreadFollowsCommand'
BY DEF W!TypeOK, W!Slot, W!Looping, W!Over, CommandOK, ThreadFollowsCommand, worker, Finished,
   Stopped

(* The same of the board's types.                                          *)
LEMMA HardwareUntouched ==
  ASSUME HardwareOK, UNCHANGED hardware
  PROVE  HardwareOK'
BY DEF HardwareOK, hardware

(* The same of the map's types.                                            *)
LEMMA MapUntouched ==
  ASSUME MapOK, UNCHANGED timestampMap
  PROVE  MapOK'
BY DEF MapOK, Range

(* The same of getNext_'s types.                                           *)
LEMMA SenderUntouched ==
  ASSUME SenderOK, UNCHANGED sender
  PROVE  SenderOK'
BY DEF SenderOK, sender

(* The same of the readout thread's types.                                 *)
LEMMA ReadoutUntouched ==
  ASSUME ReadoutOK, UNCHANGED readout
  PROVE  ReadoutOK'
BY DEF ReadoutOK, readout

(* The same of the pool's types.                                           *)
LEMMA PoolUntouched ==
  ASSUME PoolOK, UNCHANGED pool
  PROVE  PoolOK'
BY DEF PoolOK, pool

(* The same of the order of the events.                                    *)
LEMMA OrderUntouched ==
  ASSUME Order, UNCHANGED <<sent, gnEvent, active, lastKept, trigger, board, roEvent>>
  PROVE  Order'
BY DEF Order, SenderInOrder, ActiveInOrder, BoardInOrder, Base, Prior

(* The same of the contents of the map.                                    *)
LEMMA MapTrueUntouched ==
  ASSUME MapTrue, UNCHANGED <<timestampMap, gnEvent, active>>,
         (ro' = "recorded") = (ro = "recorded"), ro = "recorded" => roEvent' = roEvent
  PROVE  MapTrue'
<1>1. Pending' = Pending
  BY DEF Pending, Range
<1>2. QED
  BY <1>1 DEF MapTrue

(* The same of the gaps.                                                   *)
LEMMA GapsUntouched ==
  ASSUME GapsCounted, UNCHANGED <<digitizer, lastKept, gapSum, lastRcvCounter>>
  PROVE  GapsCounted'
BY DEF GapsCounted

(* The same of the overflows.                                              *)
LEMMA OverflowsUntouched ==
  ASSUME OverflowsCounted, UNCHANGED <<digitizer, sent, overflowCounter, lastSentCounter>>
  PROVE  OverflowsCounted'
BY DEF OverflowsCounted

-----------------------------------------------------------------------------
(* THE THREADS                                                             *)

(* The steps of the run() that has been launched, and those of start() and *)
(* stop().                                                                 *)
RunMoves ==
  \/ W!RunCheck("latest") \/ W!CallReturns("latest") \/ W!NapOver("latest")
  \/ W!CallThrows("latest") \/ W!RunEnds("latest") \/ W!RunExits("latest")

Commands ==
  StartThread \/ StopNoMutex \/ JoinThread \/ SWStopAcquisition \/ StopAgain

(* The former keep its agreement with the controller and artdaq's command. *)
LEMMA RunKeepsThread ==
  ASSUME W!TypeOK, CommandOK, ThreadFollowsCommand, RunMoves, UNCHANGED <<command, digitizer>>
  PROVE  W!TypeOK' /\ CommandOK' /\ ThreadFollowsCommand'
<1> USE DEF W!TypeOK, W!Slot, W!Looping, W!Over, CommandOK, ThreadFollowsCommand,
            Finished, Stopped, W!Move
<1>1. CASE W!RunCheck("latest")
  BY <1>1 DEF W!RunCheck
<1>2. CASE W!CallReturns("latest")
  BY <1>2 DEF W!CallReturns
<1>3. CASE W!NapOver("latest")
  BY <1>3 DEF W!NapOver
<1>4. CASE W!CallThrows("latest")
  BY <1>4 DEF W!CallThrows
<1>5. CASE W!RunEnds("latest")
  BY <1>5 DEF W!RunEnds
<1>6. CASE W!RunExits("latest")
  BY <1>6 DEF W!RunExits
<1>7. QED
  BY <1>1, <1>2, <1>3, <1>4, <1>5, <1>6 DEF RunMoves

(* So do start() and stop(), and a run() that has ended is not relaunched. *)
LEMMA CommandsKeepThread ==
  ASSUME W!TypeOK, CommandOK, ThreadFollowsCommand, Commands, UNCHANGED digitizer
  PROVE  W!TypeOK' /\ CommandOK' /\ ThreadFollowsCommand'
<1>0. MaxStopAttempts \in Nat /\ 0 \in 0 .. MaxStopAttempts
  BY V1730Assumption
<1> USE DEF W!TypeOK, W!Slot, W!Looping, W!Over, CommandOK, ThreadFollowsCommand,
            Finished, Stopped
<1>1. CASE command = "start" /\ W!StartLaunch /\ UNCHANGED command
  <2>1. run' = [s \in {"latest", "previous"} |-> IF s = "latest" THEN "check" ELSE "none"]
    BY <1>1 DEF W!StartLaunch
  <2>2. run' \in [W!Slot -> W!Looping \cup W!Over \cup {"leaving", "exiting"}]
    BY <2>1
  <2>3. run'["latest"] = "check" /\ run'["previous"] = "none"
    BY <2>1
  <2>4. W!TypeOK' /\ CommandOK'
    BY <1>1, <2>2 DEF W!StartLaunch
  <2>5. ThreadFollowsCommand'
    BY <1>1, <2>3 DEF W!StartLaunch
  <2>6. QED
    BY <2>4, <2>5
<1>2. CASE command = "start" /\ W!StartAssigned /\ command' = "run"
  <2>1. W!TypeOK' /\ CommandOK'
    BY <1>2 DEF W!StartAssigned
  <2>2. ThreadFollowsCommand'
    BY <1>2 DEF W!StartAssigned
  <2>3. QED
    BY <2>1, <2>2
<1>3. CASE /\ W!StopRequest
           /\ \/ command = "run" /\ command' = "stopNoMutex"
              \/ command = "flag" /\ command' = "stop"
  <2>1. W!TypeOK' /\ CommandOK'
    BY <1>0, <1>3 DEF W!StopRequest
  <2>2. ThreadFollowsCommand'
    BY <1>3 DEF W!StopRequest
  <2>3. QED
    BY <2>1, <2>2
<1>4. CASE /\ W!StopIgnored
           /\ \/ command = "run" /\ command' = "stopNoMutex"
              \/ command = "flag" /\ command' = "stop"
  <2>1. W!TypeOK' /\ CommandOK'
    BY <1>4 DEF W!StopIgnored
  <2>2. ThreadFollowsCommand'
    BY <1>4 DEF W!StopIgnored
  <2>3. QED
    BY <2>1, <2>2
<1>5. CASE W!StopWaitMore /\ UNCHANGED command
  <2>1. W!TypeOK' /\ CommandOK'
    BY <1>0, <1>5 DEF W!StopWaitMore
  <2>2. ThreadFollowsCommand'
    BY <1>5 DEF W!StopWaitMore
  <2>3. QED
    BY <2>1, <2>2
<1>6. CASE W!StopJoin /\ UNCHANGED command
  <2>1. W!TypeOK' /\ CommandOK'
    BY <1>0, <1>6 DEF W!StopJoin
  <2>2. ThreadFollowsCommand'
    BY <1>6 DEF W!StopJoin
  <2>3. QED
    BY <2>1, <2>2
<1>7. CASE SWStopAcquisition
  BY <1>7 DEF SWStopAcquisition, worker
<1>8. QED
  BY <1>1, <1>2, <1>3, <1>4, <1>5, <1>6, <1>7
     DEF Commands, StartThread, StopNoMutex, JoinThread, StopAgain

-----------------------------------------------------------------------------
(* SEQUENCES                                                               *)

(* What appending to a sequence does to its length, elements and range.    *)
LEMMA Appended ==
  ASSUME NEW S, NEW s \in Seq(S), NEW x \in S
  PROVE  /\ Append(s, x) \in Seq(S) /\ Len(Append(s, x)) = Len(s) + 1 /\ Len(s) \in Nat
         /\ \A i \in 1 .. Len(s) : Append(s, x)[i] = s[i]
         /\ Append(s, x)[Len(s) + 1] = x
         /\ Range(Append(s, x)) = Range(s) \cup {x}
<1>1. /\ Append(s, x) \in Seq(S) /\ Len(Append(s, x)) = Len(s) + 1 /\ Len(s) \in Nat
      /\ \A i \in 1 .. Len(s) : Append(s, x)[i] = s[i]
      /\ Append(s, x)[Len(s) + 1] = x
      /\ DOMAIN s = 1 .. Len(s) /\ DOMAIN Append(s, x) = 1 .. Len(s) + 1
  OBVIOUS
<1>2. Range(Append(s, x)) = Range(s) \cup {x}
  BY <1>1 DEF Range
<1>3. QED
  BY <1>1, <1>2

(* What taking the first element off does to them.                         *)
LEMMA Tailed ==
  ASSUME NEW S, NEW s \in Seq(S), s # <<>>
  PROVE  /\ Tail(s) \in Seq(S) /\ Len(Tail(s)) = Len(s) - 1 /\ Len(s) \in Nat /\ Len(s) > 0
         /\ Head(s) = s[1] /\ s[1] \in S
         /\ \A i \in 1 .. Len(s) - 1 : Tail(s)[i] = s[i + 1]
         /\ Range(s) = Range(Tail(s)) \cup {s[1]}
<1>1. /\ Tail(s) \in Seq(S) /\ Len(Tail(s)) = Len(s) - 1 /\ Len(s) \in Nat /\ Len(s) > 0
      /\ Head(s) = s[1] /\ s[1] \in S
      /\ \A i \in 1 .. Len(s) - 1 : Tail(s)[i] = s[i + 1]
      /\ DOMAIN s = 1 .. Len(s) /\ DOMAIN Tail(s) = 1 .. Len(s) - 1
  OBVIOUS
<1>2. ASSUME NEW i \in 1 .. Len(s) PROVE s[i] \in Range(Tail(s)) \cup {s[1]}
  <2>1. CASE i = 1
    BY <2>1
  <2>2. CASE i # 1
    <3>1. i - 1 \in 1 .. Len(s) - 1 /\ (i - 1) + 1 = i
      BY <1>1, <2>2
    <3>2. s[i] = Tail(s)[i - 1]
      BY <1>1, <3>1
    <3>3. QED
      BY <1>1, <3>1, <3>2 DEF Range
  <2>3. QED
    BY <2>1, <2>2
<1>3. ASSUME NEW i \in 1 .. Len(s) - 1 PROVE Tail(s)[i] \in Range(s)
  <2>1. i + 1 \in 1 .. Len(s)
    BY <1>1
  <2>2. QED
    BY <1>1, <2>1 DEF Range
<1>4. s[1] \in Range(s)
  BY <1>1 DEF Range
<1>5. Range(s) = Range(Tail(s)) \cup {s[1]}
  BY <1>1, <1>2, <1>3, <1>4 DEF Range
<1>6. QED
  BY <1>1, <1>5

(* A block put on top of the stack makes it one longer.                    *)
LEMMA Pushed ==
  ASSUME NEW S, NEW s \in Seq(S), NEW x \in S
  PROVE  <<x>> \o s \in Seq(S) /\ Len(<<x>> \o s) = Len(s) + 1 /\ Len(s) \in Nat
OBVIOUS

-----------------------------------------------------------------------------
(* THE ORDER OF EVENTS                                                     *)

(* One more event, one more gap.                                           *)
LEMMA OneMoreGap ==
  ASSUME NEW k \in Int
  PROVE  (k + 1) * MaxGap = k * MaxGap + MaxGap
BY Constants

(* An event is added to the end of a chain, or taken from its front.       *)
LEMMA ChainAppend ==
  ASSUME NEW prior \in Int, NEW s \in Seq(Int), NEW last \in Int, NEW e \in Int,
         Chained(prior, s, last), Close(last, e)
  PROVE  Chained(prior, Append(s, e), e)
<1> DEFINE n == Len(s)
           t == Append(s, e)
<1>1. /\ n \in Nat /\ Len(t) = n + 1 /\ t[n + 1] = e
      /\ \A i \in 1 .. n : t[i] = s[i] /\ s[i] \in Int
  BY Appended
<1>2. /\ \A i \in 0 .. n : At(prior, t, i) = At(prior, s, i) /\ At(prior, s, i) \in Int
      /\ At(prior, t, n + 1) = e
  BY <1>1 DEF At
<1>3. /\ \A i \in 1 .. n : Close(At(prior, s, i - 1), At(prior, s, i))
      /\ \A i, j \in 0 .. n : i < j => At(prior, s, i) < At(prior, s, j)
      /\ \A i \in 0 .. n : last <= At(prior, s, i) + (n - i) * MaxGap
      /\ last = At(prior, s, n)
  BY DEF Chained
<1>4. last < e /\ e <= last + MaxGap
  BY DEF Close
<1> HIDE DEF n, t
<1>5. ASSUME NEW i \in 1 .. n + 1 PROVE Close(At(prior, t, i - 1), At(prior, t, i))
  <2>1. CASE i = n + 1
    <3>1. i - 1 = n /\ n \in 0 .. n
      BY <1>1, <2>1
    <3>2. QED
      BY <1>2, <1>3, <2>1, <3>1
  <2>2. CASE i \in 1 .. n
    <3>1. i - 1 \in 0 .. n /\ i \in 0 .. n
      BY <1>1, <2>2
    <3>2. QED
      BY <1>2, <1>3, <2>2, <3>1
  <2>3. QED
    BY <1>1, <2>1, <2>2
<1>6. ASSUME NEW i \in 0 .. n PROVE At(prior, s, i) < e
  <2>1. i = n \/ At(prior, s, i) < At(prior, s, n)
    BY <1>1, <1>3
  <2>2. QED
    BY <1>1, <1>2, <1>3, <1>4, <2>1
<1>7. ASSUME NEW i \in 0 .. n + 1, NEW j \in 0 .. n + 1, i < j
      PROVE  At(prior, t, i) < At(prior, t, j)
  <2>1. i \in 0 .. n
    BY <1>1, <1>7
  <2>2. CASE j = n + 1
    BY <1>2, <1>6, <2>1, <2>2
  <2>3. CASE j \in 0 .. n
    BY <1>2, <1>3, <1>7, <2>1, <2>3
  <2>4. QED
    BY <1>1, <2>2, <2>3
<1>8. ASSUME NEW i \in 0 .. n + 1 PROVE e <= At(prior, t, i) + (n + 1 - i) * MaxGap
  <2>1. CASE i = n + 1
    <3>1. (n + 1 - i) * MaxGap = 0
      BY <1>1, <2>1, Constants
    <3>2. QED
      BY <1>2, <2>1, <3>1
  <2>2. CASE i \in 0 .. n
    <3>1. last <= At(prior, s, i) + (n - i) * MaxGap
      BY <1>3, <2>2
    <3>2. (n - i + 1) * MaxGap = (n - i) * MaxGap + MaxGap
      BY <1>1, OneMoreGap
    <3>3. n + 1 - i = n - i + 1 /\ (n - i) * MaxGap \in Int
      BY <1>1, Constants
    <3>4. QED
      BY <1>2, <1>4, <2>2, <3>1, <3>2, <3>3, Constants
  <2>3. QED
    BY <1>1, <2>1, <2>2
<1>9. QED
  BY <1>1, <1>2, <1>5, <1>7, <1>8 DEF Chained, t

(* An event taken from its front is close to the one before the chain.     *)
LEMMA ChainTail ==
  ASSUME NEW prior \in Int, NEW s \in Seq(Int), NEW last \in Int,
         Chained(prior, s, last), s # <<>>
  PROVE  Close(prior, s[1]) /\ Chained(s[1], Tail(s), last)
<1> DEFINE n == Len(s)
           t == Tail(s)
           p == s[1]
<1>1. /\ n \in Nat /\ n > 0 /\ Len(t) = n - 1
      /\ \A i \in 1 .. n - 1 : t[i] = s[i + 1]
  BY Tailed
<1>2. \A i \in 0 .. n - 1 : At(p, t, i) = At(prior, s, i + 1)
  BY <1>1 DEF At
<1>3. /\ \A i \in 1 .. n : Close(At(prior, s, i - 1), At(prior, s, i))
      /\ \A i, j \in 0 .. n : i < j => At(prior, s, i) < At(prior, s, j)
      /\ \A i \in 0 .. n : last <= At(prior, s, i) + (n - i) * MaxGap
      /\ last = At(prior, s, n)
  BY DEF Chained
<1>4. At(prior, s, 1 - 1) = prior /\ At(prior, s, 1) = p
  BY DEF At
<1> HIDE DEF n, t, p
<1>5. Close(prior, p)
  BY <1>1, <1>3, <1>4
<1>6. ASSUME NEW i \in 1 .. n - 1 PROVE Close(At(p, t, i - 1), At(p, t, i))
  <2>1. /\ i + 1 \in 1 .. n /\ (i + 1) - 1 = i /\ (i - 1) + 1 = i
        /\ i \in 0 .. n - 1 /\ i - 1 \in 0 .. n - 1
    BY <1>1
  <2>2. Close(At(prior, s, i), At(prior, s, i + 1))
    BY <1>3, <2>1
  <2>3. At(p, t, i - 1) = At(prior, s, i) /\ At(p, t, i) = At(prior, s, i + 1)
    BY <1>2, <2>1
  <2>4. QED
    BY <2>2, <2>3
<1>7. ASSUME NEW i \in 0 .. n - 1, NEW j \in 0 .. n - 1, i < j
      PROVE  At(p, t, i) < At(p, t, j)
  <2>1. i + 1 \in 0 .. n /\ j + 1 \in 0 .. n /\ i + 1 < j + 1
    BY <1>1, <1>7
  <2>2. QED
    BY <1>2, <1>3, <2>1
<1>8. ASSUME NEW i \in 0 .. n - 1 PROVE last <= At(p, t, i) + (n - 1 - i) * MaxGap
  <2>1. i + 1 \in 0 .. n /\ n - (i + 1) = n - 1 - i
    BY <1>1
  <2>2. QED
    BY <1>2, <1>3, <2>1
<1>9. last = At(p, t, n - 1)
  <2>1. n - 1 \in 0 .. n - 1 /\ (n - 1) + 1 = n
    BY <1>1
  <2>2. QED
    BY <1>2, <1>3, <2>1
<1>10. QED
  BY <1>1, <1>5, <1>6, <1>7, <1>8, <1>9 DEF Chained, t, p

(* The numbers the order speaks of are integers, and no event is negative. *)
LEMMA ChainTyped ==
  ASSUME Types
  PROVE  /\ Base \in Int /\ Base >= -1 /\ Prior \in Int /\ Len(active) \in Nat
         /\ \A i \in 1 .. Len(active) : active[i] \in Int /\ active[i] >= 0
         /\ lastKept \in Int /\ lastKept >= -1 /\ trigger \in Int
         /\ Len(board) \in Nat
         /\ \A i \in 1 .. Len(board) : board[i] \in Int /\ board[i] >= 0
         /\ roEvent \in Int
<1>1. \A e \in Event : e \in Int /\ e >= 0
  BY Constants DEF Event
<1>2. Base \in Int /\ Base >= -1 /\ Prior \in Int
  <2>1. sent.event \in Event \cup {-1} /\ gnEvent \in Event \cup {-1}
    BY DEF Types, SenderOK, NoEvent
  <2>2. Base \in Int /\ Base >= -1
    BY <1>1, <2>1, Constants DEF Base
  <2>3. QED
    BY <1>1, <2>1, <2>2 DEF Prior
<1>3. Len(active) \in Nat /\ \A i \in 1 .. Len(active) : active[i] \in Int /\ active[i] >= 0
  <2>1. active \in Seq(Event)
    BY DEF Types, PoolOK
  <2>2. Len(active) \in Nat /\ \A i \in 1 .. Len(active) : active[i] \in Event
    BY <2>1
  <2>3. QED
    BY <1>1, <2>2
<1>4. Len(board) \in Nat /\ \A i \in 1 .. Len(board) : board[i] \in Int /\ board[i] >= 0
  <2>1. board \in Seq(Event)
    BY DEF Types, HardwareOK
  <2>2. Len(board) \in Nat /\ \A i \in 1 .. Len(board) : board[i] \in Event
    BY <2>1
  <2>3. QED
    BY <1>1, <2>2
<1>5. lastKept \in Int /\ lastKept >= -1 /\ trigger \in Int /\ roEvent \in Int
  <2>1. roEvent \in Event \cup {-1}
    BY DEF Types, ReadoutOK, NoEvent
  <2>2. QED
    BY <1>1, <2>1, Constants DEF Types, ReadoutOK, HardwareOK
<1>6. QED
  BY <1>2, <1>3, <1>4, <1>5

(* A trigger comes after everything on the board.                          *)
LEMMA TriggerOrder ==
  ASSUME Types, Order, Trigger
  PROVE  HardwareOK' /\ Order'
<1>1. /\ trigger < LastTrigger /\ trigger < lastKept + MaxGap /\ trigger' = trigger + 1
      /\ board' = Append(board, trigger + 1) \/ board' = board
      /\ UNCHANGED <<acquiring, sent, gnEvent, active, lastKept, roEvent>>
  BY DEF Trigger, readout, sender, pool
<1>2. trigger + 1 \in Event
  BY <1>1, Constants DEF Types, HardwareOK, Event
<1>3. HardwareOK'
  <2>1. board \in Seq(Event) /\ acquiring \in BOOLEAN /\ trigger \in FirstTrigger - 1 .. LastTrigger
    BY DEF Types, HardwareOK
  <2>2. board' \in Seq(Event)
    BY <1>1, <1>2, <2>1, Appended
  <2>3. trigger' \in FirstTrigger - 1 .. LastTrigger
    BY <1>1, <2>1, Constants
  <2>4. QED
    BY <1>1, <2>1, <2>2, <2>3 DEF HardwareOK
<1>4. SenderInOrder' /\ ActiveInOrder'
  BY <1>1 DEF Order, SenderInOrder, ActiveInOrder, Base, Prior
<1>5. BoardInOrder'
  <2>1. CASE board' = board
    <3>1. /\ trigger \in Int /\ lastKept \in Int /\ roEvent \in Int /\ MaxGap \in Nat
          /\ \A i \in 1 .. Len(board) : board[i] \in Int
      BY ChainTyped, Constants
    <3>2. BoardInOrder
      BY DEF Order
    <3>3. /\ lastKept <= trigger + 1 /\ trigger + 1 <= lastKept + MaxGap
          /\ roEvent # NoEvent => lastKept < roEvent /\ roEvent <= trigger + 1
      BY <1>1, <3>1, <3>2 DEF BoardInOrder
    <3>4. \A i \in 1 .. Len(board) : lastKept < board[i] /\ board[i] <= trigger + 1
      BY <3>1, <3>2 DEF BoardInOrder
    <3>5. QED
      BY <1>1, <2>1, <3>2, <3>3, <3>4 DEF BoardInOrder
  <2>2. CASE board' = Append(board, trigger + 1)
    <3>1. /\ Len(board') = Len(board) + 1 /\ Len(board) \in Nat
          /\ \A i \in 1 .. Len(board) : board'[i] = board[i]
          /\ board'[Len(board) + 1] = trigger + 1
      BY <1>2, <2>2, Appended DEF Types, HardwareOK
    <3>2. lastKept' <= trigger' /\ trigger' <= lastKept' + MaxGap
      BY <1>1, ChainTyped, Constants DEF Order, BoardInOrder
    <3>3. roEvent' # NoEvent => lastKept' < roEvent' /\ roEvent' <= trigger'
      BY <1>1, ChainTyped, Constants DEF Order, BoardInOrder
    <3>4. ASSUME NEW i \in 1 .. Len(board')
          PROVE  lastKept' < board'[i] /\ board'[i] <= trigger' /\ roEvent' < board'[i]
      <4>1. roEvent < trigger + 1
        BY ChainTyped, Constants DEF Order, BoardInOrder, NoEvent
      <4>2. CASE i = Len(board) + 1
        BY <1>1, <3>1, <4>1, <4>2, ChainTyped DEF Order, BoardInOrder
      <4>3. CASE i \in 1 .. Len(board)
        BY <1>1, <3>1, <4>3, ChainTyped DEF Order, BoardInOrder
      <4>4. QED
        BY <3>1, <4>2, <4>3
    <3>5. ASSUME NEW i \in 1 .. Len(board'), NEW j \in 1 .. Len(board'), i < j
          PROVE  board'[i] < board'[j]
      <4>1. i \in 1 .. Len(board)
        BY <3>1, <3>5
      <4>2. CASE j = Len(board) + 1
        BY <1>1, <3>1, <4>1, <4>2, ChainTyped DEF Order, BoardInOrder
      <4>3. CASE j \in 1 .. Len(board)
        BY <1>1, <3>1, <3>5, <4>1, <4>3, ChainTyped DEF Order, BoardInOrder
      <4>4. QED
        BY <3>1, <4>2, <4>3
    <3>6. QED
      BY <3>2, <3>3, <3>4, <3>5 DEF BoardInOrder
  <2>3. QED
    BY <1>1, <2>1, <2>2
<1>6. QED
  BY <1>3, <1>4, <1>5 DEF Order

(* The readout thread takes the oldest event from the board, to keep it or *)
(* to drop it.                                                             *)
LEMMA TakeOrder ==
  ASSUME Types, Order, board # <<>>, board' = Tail(board), roEvent' \in {Head(board), NoEvent},
         UNCHANGED <<sent, gnEvent, active, lastKept, trigger>>
  PROVE  Order'
<1>1. SenderInOrder' /\ ActiveInOrder'
  BY DEF Order, SenderInOrder, ActiveInOrder, Base, Prior
<1>2. /\ Len(board') = Len(board) - 1 /\ Len(board) \in Nat /\ Len(board) > 0
      /\ \A i \in 1 .. Len(board) - 1 : board'[i] = board[i + 1]
      /\ Head(board) = board[1]
  BY Tailed DEF Types, HardwareOK
<1>3. lastKept' <= trigger' /\ trigger' <= lastKept' + MaxGap
  BY DEF Order, BoardInOrder
<1>4. lastKept < board[1] /\ board[1] <= trigger
  BY <1>2 DEF Order, BoardInOrder
<1>5. roEvent' # NoEvent => lastKept' < roEvent' /\ roEvent' <= trigger'
  BY <1>2, <1>4
<1>6. ASSUME NEW i \in 1 .. Len(board')
      PROVE  lastKept' < board'[i] /\ board'[i] <= trigger' /\ roEvent' < board'[i]
  <2>1. i + 1 \in 1 .. Len(board) /\ board'[i] = board[i + 1] /\ 1 \in 1 .. Len(board)
    BY <1>2
  <2>2. lastKept < board[i + 1] /\ board[i + 1] <= trigger /\ board[i + 1] >= 0
    BY <2>1, ChainTyped DEF Order, BoardInOrder
  <2>3. board[1] < board[i + 1]
    BY <2>1 DEF Order, BoardInOrder
  <2>4. QED
    BY <1>2, <2>1, <2>2, <2>3, ChainTyped DEF NoEvent
<1>7. ASSUME NEW i \in 1 .. Len(board'), NEW j \in 1 .. Len(board'), i < j
      PROVE  board'[i] < board'[j]
  <2>1. /\ i + 1 \in 1 .. Len(board) /\ board'[i] = board[i + 1]
        /\ j + 1 \in 1 .. Len(board) /\ board'[j] = board[j + 1] /\ i + 1 < j + 1
    BY <1>2, <1>7
  <2>2. QED
    BY <2>1 DEF Order, BoardInOrder
<1>8. BoardInOrder'
  BY <1>3, <1>5, <1>6, <1>7 DEF BoardInOrder
<1>9. QED
  BY <1>1, <1>8 DEF Order

(* It lets go of the event it holds.                                       *)
LEMMA DropOrder ==
  ASSUME Types, Order, roEvent' = NoEvent,
         UNCHANGED <<sent, gnEvent, active, lastKept, trigger, board>>
  PROVE  Order'
<1>1. SenderInOrder' /\ ActiveInOrder'
  BY DEF Order, SenderInOrder, ActiveInOrder, Base, Prior
<1>2. BoardInOrder'
  BY ChainTyped DEF Order, BoardInOrder, NoEvent
<1>3. QED
  BY <1>1, <1>2 DEF Order

(* It queues the event as the last active one.                             *)
LEMMA QueueOrder ==
  ASSUME Types, Order, roEvent # NoEvent, active' = Append(active, roEvent),
         lastKept' = roEvent, roEvent' = NoEvent, UNCHANGED <<sent, gnEvent, trigger, board>>
  PROVE  Order'
<1>1. /\ lastKept < roEvent /\ roEvent <= trigger
      /\ trigger <= lastKept + MaxGap /\ trigger \in Int /\ lastKept \in Int /\ roEvent \in Int
  BY ChainTyped DEF Order, BoardInOrder
<1>2. Close(lastKept, roEvent)
  BY <1>1, Constants DEF Close
<1>3. Prior' = Prior /\ Base' = Base
  BY DEF Base, Prior
<1>4. active \in Seq(Int)
  BY Constants DEF Types, PoolOK, Event
<1>5. ActiveInOrder'
  BY <1>1, <1>2, <1>3, <1>4, ChainAppend, ChainTyped DEF Order, ActiveInOrder
<1>6. SenderInOrder'
  BY <1>3 DEF Order, SenderInOrder
<1>7. BoardInOrder'
  <2>1. trigger <= roEvent + MaxGap
    BY <1>1, Constants
  <2>2. \A i \in 1 .. Len(board) : board[i] >= 0 /\ board[i] \in Int
    BY ChainTyped
  <2>3. QED
    BY <1>1, <2>1, <2>2 DEF Order, BoardInOrder, NoEvent
<1>8. QED
  BY <1>5, <1>6, <1>7 DEF Order

(* getNext_ reads the first active block.                                  *)
LEMMA ReadBlockOrder ==
  ASSUME Types, Order, gnEvent = NoEvent, active # <<>>, gnEvent' = Head(active),
         active' = Tail(active), UNCHANGED <<sent, lastKept, trigger, board, roEvent>>
  PROVE  Order'
<1>1. active \in Seq(Int)
  BY Constants DEF Types, PoolOK, Event
<1>2. gnEvent' = active[1] /\ active[1] \in Int /\ active[1] >= 0
  BY Tailed, ChainTyped DEF Types, PoolOK
<1>3. Base' = Base /\ Prior = Base /\ Prior' = active[1]
  BY <1>2 DEF Base, Prior, NoEvent
<1>4. Close(Prior, active[1]) /\ Chained(active[1], Tail(active), lastKept)
  BY <1>1, ChainTail, ChainTyped DEF Order, ActiveInOrder
<1>5. SenderInOrder' /\ ActiveInOrder'
  BY <1>2, <1>3, <1>4 DEF SenderInOrder, ActiveInOrder
<1>6. BoardInOrder'
  BY DEF Order, BoardInOrder
<1>7. QED
  BY <1>5, <1>6 DEF Order

(* It sends the fragment of the event it holds.                            *)
LEMMA SendOrder ==
  ASSUME Types, Order, gnEvent # NoEvent, sent'.event = gnEvent, gnEvent' = NoEvent,
         UNCHANGED <<active, lastKept, trigger, board, roEvent>>
  PROVE  Order'
<1>1. Prior' = Prior
  BY DEF Prior, Base
<1>2. ActiveInOrder'
  BY <1>1 DEF Order, ActiveInOrder
<1>3. BoardInOrder' /\ SenderInOrder'
  BY DEF Order, BoardInOrder, SenderInOrder
<1>4. QED
  BY <1>2, <1>3 DEF Order

(* No two events between the one before the active blocks and the one in   *)
(* the readout thread's block are a counter's range apart.                 *)
LEMMA EventsNear ==
  ASSUME Types, Order, Len(active) <= PoolBlocks
  PROVE  /\ Prior <= lastKept /\ lastKept < Prior + Modulus
         /\ \A i \in 1 .. Len(active) : Prior < active[i] /\ active[i] <= lastKept
         /\ Len(active) < PoolBlocks => lastKept + MaxGap < Prior + Modulus
<1> DEFINE n == Len(active)
<1>1. /\ \A i, j \in 0 .. n : i < j => At(Prior, active, i) < At(Prior, active, j)
      /\ lastKept <= At(Prior, active, 0) + (n - 0) * MaxGap
      /\ lastKept = At(Prior, active, n) /\ n \in Nat
      /\ At(Prior, active, 0) = Prior /\ \A i \in 1 .. n : At(Prior, active, i) = active[i]
  BY ChainTyped DEF Order, ActiveInOrder, Chained, At
<1>2. /\ Prior \in Int /\ lastKept \in Int /\ n <= PoolBlocks
      /\ \A i \in 1 .. n : active[i] \in Int
  BY ChainTyped
<1> HIDE DEF n
<1>3. Prior <= lastKept
  BY <1>1, <1>2
<1>4. \A i \in 1 .. n : Prior < active[i] /\ active[i] <= lastKept
  BY <1>1, <1>2
<1>5. /\ lastKept <= Prior + n * MaxGap
      /\ lastKept + MaxGap <= Prior + (n + 1) * MaxGap
  BY <1>1, <1>2, OneMoreGap, Constants
<1>6. ASSUME NEW k \in Nat, k <= PoolBlocks PROVE k * MaxGap < Modulus /\ k * MaxGap \in Int
  <2>1. PoolBlocks \in Nat /\ MaxGap \in Nat /\ PoolBlocks * MaxGap < Modulus /\ Modulus \in Nat
    BY Constants, CounterAssumption
  <2>2. (PoolBlocks - k) * MaxGap >= 0
    BY <1>6, <2>1
  <2>3. QED
    BY <2>1, <2>2
<1>7. lastKept < Prior + Modulus
  BY <1>1, <1>2, <1>5, <1>6, Constants
<1>8. ASSUME n < PoolBlocks PROVE lastKept + MaxGap < Prior + Modulus
  <2>1. n + 1 \in Nat /\ n + 1 <= PoolBlocks
    BY <1>1, <1>8, Constants
  <2>2. (n + 1) * MaxGap < Modulus /\ (n + 1) * MaxGap \in Int
    BY <1>6, <2>1
  <2>3. QED
    BY <1>2, <1>5, <2>2, Constants
<1>9. QED
  BY <1>3, <1>4, <1>7, <1>8 DEF n

-----------------------------------------------------------------------------
(* THE MAP OF TIMESTAMPS                                                   *)

(* The first event of those in the map is the one in getNext_'s fragment,  *)
(* and all of them are before the next event read from the board.          *)
LEMMA PendingNear ==
  ASSUME Types, Order, Len(active) <= PoolBlocks,
         ro = "recorded" => roEvent # NoEvent /\ Len(active) < PoolBlocks
  PROVE  /\ Pending \subseteq Int
         /\ \A e \in Pending : Prior <= e /\ e < Prior + Modulus
         /\ \A e \in Pending : e = gnEvent \/ Prior < e
         /\ \A e \in Pending : e <= lastKept \/ (ro = "recorded" /\ e = roEvent)
<1>1. /\ Prior \in Int /\ lastKept \in Int /\ Len(active) \in Nat /\ roEvent \in Int
      /\ \A i \in 1 .. Len(active) : active[i] \in Int
      /\ trigger \in Int /\ Modulus \in Nat /\ Modulus > 0 /\ MaxGap \in Nat
  BY ChainTyped, Constants
<1>2. /\ Prior <= lastKept /\ lastKept < Prior + Modulus
      /\ \A i \in 1 .. Len(active) : Prior < active[i] /\ active[i] <= lastKept
      /\ Len(active) < PoolBlocks => lastKept + MaxGap < Prior + Modulus
  BY EventsNear
<1>3. ASSUME NEW e \in Pending
      PROVE  /\ e \in Int /\ Prior <= e /\ e < Prior + Modulus
             /\ e = gnEvent \/ Prior < e
             /\ e <= lastKept \/ (ro = "recorded" /\ e = roEvent)
  <2>1. CASE e \in Range(active)
    <3>1. PICK i \in 1 .. Len(active) : e = active[i]
      BY <2>1 DEF Range, Types, PoolOK
    <3>2. QED
      BY <1>1, <1>2, <3>1
  <2>2. CASE ro = "recorded" /\ e = roEvent
    <3>1. lastKept < e /\ e <= trigger /\ trigger <= lastKept + MaxGap
      BY <2>2 DEF Order, BoardInOrder
    <3>2. QED
      BY <1>1, <1>2, <2>2, <3>1
  <2>3. CASE gnEvent # NoEvent /\ e = gnEvent
    <3>1. e = Prior
      BY <2>3 DEF Prior
    <3>2. QED
      BY <1>1, <1>2, <2>3, <3>1
  <2>4. QED
    BY <1>3, <2>1, <2>2, <2>3 DEF Pending
<1>4. QED
  BY <1>3

(* The timestamp of an event is recorded, and no other one overwritten.    *)
LEMMA RecordMap ==
  ASSUME Types, Order, MapTrue, ro = "verify", roEvent # NoEvent, Len(active) < PoolBlocks,
         NEW meanPollTime \in MeanPollTimes(roEvent),
         timestampMap' =
           [c \in DOMAIN timestampMap \cup {Counter(roEvent)} |->
              IF c = Counter(roEvent) THEN Timestamp(meanPollTime, TimeTag(roEvent))
                                      ELSE timestampMap[c]],
         ro' = "recorded", UNCHANGED <<active, gnEvent, roEvent>>
  PROVE  MapTrue' /\ MapOK'
<1> DEFINE c0 == Counter(roEvent)
           time == TriggerTime(roEvent) - TimeTagShift
<1>1. roEvent \in Int /\ lastKept \in Int /\ trigger \in Int /\ Prior \in Int
  BY ChainTyped
<1>2. timestampMap' = [c \in DOMAIN timestampMap \cup {c0} |->
                         IF c = c0 THEN time ELSE timestampMap[c]]
  BY <1>1, TimestampTrue
<1>3. Pending' = Pending \cup {roEvent}
  BY DEF Pending, Range
<1>4. ASSUME NEW e \in Pending PROVE Counter(e) # c0
  <2>1. Len(active) <= PoolBlocks
    BY ChainTyped, Constants
  <2>2. /\ e \in Int /\ Prior <= e /\ e <= lastKept
    BY <2>1, PendingNear
  <2>3. lastKept + MaxGap < Prior + Modulus
    BY <2>1, EventsNear
  <2>4. lastKept < roEvent /\ roEvent <= trigger /\ trigger <= lastKept + MaxGap
    BY DEF Order, BoardInOrder
  <2>5. e < roEvent /\ roEvent < e + Modulus
    BY <1>1, <2>2, <2>3, <2>4, Constants
  <2>6. QED
    BY <1>1, <2>2, <2>5, CountersDiffer
<1>5. c0 \in 0 .. EventMask /\ time \in Int
  BY <1>1, CounterRange, V1730Assumption DEF TriggerTime
<1> HIDE DEF c0, time
<1>6. DOMAIN timestampMap' = {Counter(e) : e \in Pending'}
  <2>1. DOMAIN timestampMap' = {Counter(e) : e \in Pending} \cup {c0}
    BY <1>2 DEF MapTrue
  <2>2. QED
    BY <1>3, <2>1 DEF c0
<1>7. ASSUME NEW e \in Pending' PROVE timestampMap'[Counter(e)] = TriggerTime(e) - TimeTagShift
  <2>1. CASE e = roEvent
    BY <1>2, <2>1 DEF c0, time
  <2>2. CASE e \in Pending
    <3>1. Counter(e) \in DOMAIN timestampMap /\ Counter(e) # c0
      BY <1>4, <2>2 DEF MapTrue
    <3>2. timestampMap'[Counter(e)] = timestampMap[Counter(e)]
      BY <1>2, <3>1
    <3>3. timestampMap[Counter(e)] = TriggerTime(e) - TimeTagShift
      BY <2>2 DEF MapTrue
    <3>4. QED
      BY <3>2, <3>3
  <2>3. QED
    BY <1>3, <2>1, <2>2
<1>8. MapTrue'
  BY <1>6, <1>7 DEF MapTrue
<1>9. MapOK'
  <2>1. DOMAIN timestampMap' \subseteq 0 .. EventMask
    BY <1>2, <1>5 DEF Types, MapOK
  <2>2. \A c \in DOMAIN timestampMap : timestampMap[c] \in Int
    BY DEF Types, MapOK, Range
  <2>3. \A c \in DOMAIN timestampMap' : timestampMap'[c] \in Int
    BY <1>2, <1>5, <2>2
  <2>4. Range(timestampMap') \subseteq Int
    BY <2>3 DEF Range
  <2>5. QED
    BY <2>1, <2>4 DEF MapOK
<1>10. QED
  BY <1>8, <1>9

(* The block becomes active with its timestamp in the map.                 *)
LEMMA QueueMap ==
  ASSUME Types, MapTrue, ro = "recorded", roEvent # NoEvent, ro' = "take",
         active' = Append(active, roEvent), UNCHANGED <<timestampMap, gnEvent>>
  PROVE  MapTrue'
<1>1. roEvent \in Event
  BY DEF Types, ReadoutOK
<1>2. Range(active') = Range(active) \cup {roEvent}
  BY <1>1, Appended DEF Types, PoolOK
<1>3. Pending' = Pending
  BY <1>2 DEF Pending
<1>4. QED
  BY <1>3 DEF MapTrue

(* The event moves from the active blocks to the fragment.                 *)
LEMMA ReadBlockMap ==
  ASSUME Types, MapTrue, gnEvent = NoEvent, active # <<>>, gnEvent' = Head(active),
         active' = Tail(active), UNCHANGED <<timestampMap, ro, roEvent>>
  PROVE  MapTrue'
<1>1. gnEvent' = active[1] /\ Range(active) = Range(active') \cup {active[1]}
  BY Tailed DEF Types, PoolOK
<1>2. gnEvent' # NoEvent
  <2>1. 1 \in 1 .. Len(active)
    BY Tailed DEF Types, PoolOK
  <2>2. QED
    BY <1>1, <2>1, ChainTyped DEF NoEvent
<1>3. Pending' = Pending
  BY <1>1, <1>2 DEF Pending
<1>4. QED
  BY <1>3 DEF MapTrue

(* A fragment is made with the timestamp of its event, whose entry alone   *)
(* is erased.                                                              *)
LEMMA SendMap ==
  ASSUME Types, Order, MapTrue, gnEvent # NoEvent, Len(active) <= PoolBlocks,
         ro = "recorded" => roEvent # NoEvent /\ Len(active) < PoolBlocks,
         timestampMap' = Restrict(timestampMap, DOMAIN timestampMap \ {Counter(gnEvent)}),
         gnEvent' = NoEvent, UNCHANGED <<active, ro, roEvent>>
  PROVE  MapTrue' /\ MapOK' /\ timestampMap[Counter(gnEvent)] = TriggerTime(gnEvent) - TimeTagShift
<1>1. gnEvent = Prior /\ Prior \in Int /\ lastKept \in Int /\ roEvent \in Int
  BY ChainTyped DEF Prior
<1>2. Pending = Pending' \cup {gnEvent}
  BY DEF Pending
<1>3. ASSUME NEW e \in Pending' PROVE Counter(e) # Counter(gnEvent)
  <2>1. e \in Pending /\ e \in Int /\ e < Prior + Modulus /\ (e = gnEvent \/ Prior < e)
    BY <1>2, PendingNear
  <2>2. e # gnEvent
    <3>1. CASE e \in Range(active)
      <4>1. PICK i \in 1 .. Len(active) : e = active[i]
        BY <3>1 DEF Range, Types, PoolOK
      <4>2. Prior < active[i] /\ active[i] \in Int
        BY EventsNear, ChainTyped
      <4>3. QED
        BY <1>1, <4>1, <4>2
    <3>2. CASE ro = "recorded" /\ e = roEvent
      <4>1. lastKept < roEvent /\ Prior <= lastKept
        BY <3>2, EventsNear DEF Order, BoardInOrder
      <4>2. QED
        BY <1>1, <3>2, <4>1
    <3>3. QED
      BY <1>3, <3>1, <3>2 DEF Pending
  <2>3. QED
    BY <1>1, <2>1, <2>2, CountersDiffer
<1>4. timestampMap' = [c \in DOMAIN timestampMap \ {Counter(gnEvent)} |-> timestampMap[c]]
  BY DEF Restrict
<1>5. DOMAIN timestampMap' = {Counter(e) : e \in Pending'}
  BY <1>2, <1>3, <1>4 DEF MapTrue
<1>6. ASSUME NEW e \in Pending' PROVE timestampMap'[Counter(e)] = TriggerTime(e) - TimeTagShift
  <2>1. Counter(e) \in DOMAIN timestampMap'
    BY <1>5
  <2>2. QED
    BY <1>2, <1>4, <2>1 DEF MapTrue
<1>7. MapOK'
  <2>1. DOMAIN timestampMap' \subseteq DOMAIN timestampMap
    BY <1>4
  <2>2. Range(timestampMap') \subseteq Range(timestampMap)
    BY <1>4 DEF Range
  <2>3. QED
    BY <2>1, <2>2 DEF Types, MapOK
<1>8. QED
  BY <1>2, <1>5, <1>6, <1>7 DEF MapTrue

-----------------------------------------------------------------------------
(* THE COUNTERS                                                            *)

(* What a step of the counter is taken for, across the overflow or not.    *)
LEMMA GapOf ==
  ASSUME NEW x \in 0 .. EventMask, NEW d \in 0 .. EventMask
  PROVE  ((IF x + d < Modulus THEN x + d ELSE x + d - Modulus) - x) % Modulus = d
<1>1. CASE x + d < Modulus
  <2>1. (Modulus * 0 + d) % Modulus = d
    BY Constants, Remainder
  <2>2. (x + d) - x = d /\ Modulus * 0 + d = d
    BY Constants
  <2>3. QED
    BY <1>1, <2>1, <2>2
<1>2. CASE ~(x + d < Modulus)
  <2>1. (Modulus * (-1) + d) % Modulus = d
    BY Constants, Remainder
  <2>2. (x + d - Modulus) - x = Modulus * (-1) + d
    BY Constants
  <2>3. QED
    BY <1>2, <2>1, <2>2
<1>3. QED
  BY <1>1, <1>2

(* The V1730 adds up the triggers.                                         *)
LEMMA GapsStep ==
  ASSUME Types, Order, GapsCounted, roEvent # NoEvent, gapSum' = gapSum + Gap,
         lastRcvCounter' = Counter(roEvent), lastKept' = roEvent, UNCHANGED digitizer
  PROVE  GapsCounted' /\ gapSum' \in Nat /\ lastRcvCounter' \in 0 .. EventMask
<1>1. /\ roEvent \in Int /\ lastKept \in Int /\ trigger \in Int /\ lastKept >= FirstTrigger - 1
      /\ gapSum \in Nat /\ lastRcvCounter \in 0 .. EventMask
  BY ChainTyped, Constants DEF Types, ReadoutOK
<1>2. lastKept < roEvent /\ roEvent <= lastKept + MaxGap
  BY <1>1, Constants DEF Order, BoardInOrder
<1>3. Counter(roEvent) \in 0 .. EventMask
  BY <1>1, CounterRange
<1>4. Counter(roEvent) - lastRcvCounter \in Int
  BY <1>1, <1>3, Constants
<1>5. Gap \in Nat
  BY <1>4, Constants, Euclid DEF Gap
<1>6. gapSum' \in Nat
  BY <1>1, <1>5
<1>7. roEvent >= FirstTrigger
  BY <1>1, <1>2, Constants
<1>8. ASSUME digitizer = "V1730" PROVE gapSum' = roEvent
  <2>1. CASE lastKept >= FirstTrigger
    <3> DEFINE d == roEvent - lastKept
               x == Counter(lastKept)
    <3>1. d \in 0 .. EventMask /\ d \in 0 .. Modulus - 1 /\ x \in 0 .. EventMask
      BY <1>1, <1>2, Constants, CounterRange
    <3>2. gapSum = lastKept /\ lastRcvCounter = x
      BY <1>8, <2>1 DEF GapsCounted
    <3>3. Counter(lastKept + d) = IF x + d < Modulus THEN x + d ELSE x + d - Modulus
      BY <1>1, <3>1, CounterLater
    <3>4. lastKept + d = roEvent
      BY <1>1
    <3> HIDE DEF d, x
    <3>5. Gap = d
      BY <3>1, <3>2, <3>3, <3>4, GapOf DEF Gap
    <3>6. QED
      BY <1>1, <3>2, <3>4, <3>5
  <2>2. CASE ~(lastKept >= FirstTrigger)
    <3>1. gapSum = 0 /\ lastRcvCounter = 0
      BY <1>8, <2>2 DEF GapsCounted
    <3>2. roEvent \in 0 .. EventMask
      BY <1>1, <1>2, <2>2, Constants
    <3>3. Gap = roEvent
      <4>1. Counter(roEvent) = roEvent /\ roEvent - 0 = roEvent
        BY <3>2, CounterSmall
      <4>2. roEvent % Modulus = roEvent
        BY <4>1 DEF Counter
      <4>3. QED
        BY <3>1, <4>1, <4>2 DEF Gap
    <3>4. QED
      BY <1>1, <3>1, <3>3
  <2>3. QED
    BY <2>1, <2>2
<1>9. GapsCounted'
  BY <1>7, <1>8 DEF GapsCounted
<1>10. QED
  BY <1>3, <1>6, <1>9

(* How far the event sent next is from the one sent last, and its counter. *)
LEMMA NextSent ==
  ASSUME Types, Order, gnEvent # NoEvent
  PROVE  /\ gnEvent \in Nat /\ sent.event < gnEvent /\ Counter(gnEvent) \in 0 .. EventMask
         /\ sent.event = NoEvent => Counter(gnEvent) = gnEvent
         /\ sent.event # NoEvent =>
              /\ sent.event \in Nat /\ Counter(sent.event) \in 0 .. EventMask
              /\ gnEvent <= sent.event + MaxGap
              /\ \/ Counter(gnEvent) = Counter(sent.event) + (gnEvent - sent.event)
                 \/ Counter(gnEvent) = Counter(sent.event) + (gnEvent - sent.event) - Modulus
<1>1. \A e \in Event : e \in Nat
  BY Constants DEF Event
<1>2. gnEvent \in Nat /\ (sent.event \in Nat \/ sent.event = -1)
  BY <1>1 DEF Types, SenderOK, NoEvent
<1>3. Base < gnEvent /\ gnEvent <= Base + MaxGap
  BY DEF Order, SenderInOrder, Close
<1>4. Counter(gnEvent) \in 0 .. EventMask
  BY <1>2, CounterRange
<1>5. CASE sent.event = NoEvent
  <2>1. gnEvent <= EventMask
    BY <1>2, <1>3, <1>5, Constants DEF Base
  <2>2. Counter(gnEvent) = gnEvent
    BY <1>2, <2>1, CounterSmall
  <2>3. QED
    BY <1>2, <1>4, <1>5, <2>2 DEF NoEvent
<1>6. CASE sent.event # NoEvent
  <2>1. sent.event \in Nat /\ sent.event < gnEvent /\ gnEvent <= sent.event + MaxGap
    BY <1>2, <1>3, <1>6 DEF Base, NoEvent
  <2>2. Counter(sent.event) \in 0 .. EventMask
    BY <2>1, CounterRange
  <2> DEFINE e == sent.event
             d == gnEvent - e
  <2>3. e \in Int /\ d \in 0 .. Modulus - 1 /\ e + d = gnEvent
    BY <1>2, <2>1, Constants
  <2> HIDE DEF d, e
  <2>4. Counter(e + d) = IF Counter(e) + d < Modulus THEN Counter(e) + d
                                                    ELSE Counter(e) + d - Modulus
    BY <2>3, CounterLater
  <2>5. Counter(gnEvent) = Counter(e) + d \/ Counter(gnEvent) = Counter(e) + d - Modulus
    BY <2>3, <2>4
  <2>6. QED
    BY <1>2, <1>4, <1>6, <2>1, <2>2, <2>5 DEF d, e
<1>7. QED
  BY <1>5, <1>6

(* The V1730's sequence ID is the true number of the trigger.              *)
LEMMA SequenceStep1730 ==
  ASSUME Types, Order, OverflowsCounted, digitizer = "V1730", UNCHANGED digitizer,
         gnEvent # NoEvent, sent'.event = gnEvent,
         sent'.sequence = SequenceID(Counter(gnEvent)),
         overflowCounter' = Overflows(Counter(gnEvent)), lastSentCounter' = Counter(gnEvent)
  PROVE  /\ OverflowsCounted' /\ overflowCounter' \in Nat /\ lastSentCounter' \in 0 .. EventMask
         /\ sent'.sequence = gnEvent /\ sent.sequence = sent.event
<1> DEFINE c == Counter(gnEvent)
           o == overflowCounter
<1>1. /\ gnEvent \in Nat /\ c \in 0 .. EventMask /\ o \in Nat
      /\ lastSentCounter \in 0 .. EventMask
  BY NextSent DEF Types, SenderOK
<1>2. Overflows(c) \in Nat /\ gnEvent = c + Overflows(c) * Modulus
  <2>1. CASE sent.event = NoEvent
    <3>1. c = gnEvent /\ o = 0 /\ lastSentCounter = 0
      BY <2>1, NextSent DEF OverflowsCounted
    <3>2. ~Overflowed(c)
      BY <1>1, <3>1, Constants DEF Overflowed
    <3>3. Overflows(c) = 0
      BY <3>1, <3>2 DEF Overflows
    <3>4. QED
      BY <1>1, <3>1, <3>3, Constants
  <2>2. CASE sent.event # NoEvent
    <3> DEFINE l == Counter(sent.event)
               d == gnEvent - sent.event
    <3>1. /\ sent.event \in Nat /\ sent.event < gnEvent /\ l \in 0 .. EventMask
          /\ gnEvent <= sent.event + MaxGap
          /\ c = l + d \/ c = l + d - Modulus
      BY <2>2, NextSent
    <3>2. lastSentCounter = l /\ sent.event = o * Modulus + l
      BY <2>2 DEF OverflowsCounted
    <3>3. d \in 1 .. MaxGap /\ gnEvent = sent.event + d
      BY <1>1, <3>1, Constants
    <3> HIDE DEF c, o, l, d
    <3>4. CASE c = l + d
      <4>1. ~Overflowed(c)
        BY <1>1, <3>1, <3>2, <3>3, <3>4, Constants DEF Overflowed
      <4>2. Overflows(c) = o
        BY <1>1, <4>1 DEF Overflows, o
      <4>3. QED
        BY <1>1, <3>1, <3>2, <3>3, <3>4, <4>2, Constants
    <3>5. CASE c = l + d - Modulus
      <4>1. Overflowed(c)
        BY <1>1, <3>1, <3>2, <3>3, <3>5, Constants DEF Overflowed
      <4>2. Overflows(c) = o + 1
        BY <4>1 DEF Overflows, o
      <4>3. (o + 1) * Modulus = o * Modulus + Modulus /\ o * Modulus \in Int
        BY <1>1, Constants
      <4>4. QED
        BY <1>1, <3>1, <3>2, <3>3, <3>5, <4>2, <4>3, Constants
    <3>6. QED
      BY <3>1, <3>4, <3>5
  <2>3. QED
    BY <2>1, <2>2
<1>3. sent'.sequence = gnEvent /\ sent.sequence = sent.event
  BY <1>2 DEF SequenceID, OverflowsCounted
<1>4. OverflowsCounted'
  <2>1. sent'.event # NoEvent /\ gnEvent = overflowCounter' * Modulus + lastSentCounter'
    BY <1>1, <1>2, Constants DEF NoEvent
  <2>2. QED
    BY <1>3, <2>1 DEF OverflowsCounted
<1>5. QED
  BY <1>1, <1>2, <1>3, <1>4

(* The V1740's is, unless the event that raises it was missing.            *)
LEMMA SequenceStep1740 ==
  ASSUME Types, Order, OverflowsCounted, digitizer = "V1740", UNCHANGED digitizer,
         gnEvent # NoEvent, sent'.event = gnEvent,
         sent'.sequence = SequenceID1740(Counter(gnEvent)),
         overflowCounter' = overflowCounter + (IF Counter(gnEvent) = EventMask THEN 1 ELSE 0)
  PROVE  /\ OverflowsCounted' /\ overflowCounter' \in Nat /\ sent'.sequence \in Int
         /\ sent'.sequence - sent.sequence =
              gnEvent - sent.event
                - (IF Counter(gnEvent) < Counter(sent.event) /\ Counter(sent.event) # EventMask
                     THEN Modulus ELSE 0)
<1> DEFINE c == Counter(gnEvent)
           l == Counter(sent.event)
<1>1. gnEvent \in Nat /\ c \in 0 .. EventMask /\ overflowCounter \in Nat
  BY NextSent DEF Types, SenderOK
<1>2. sent'.sequence = c + overflowCounter * Modulus /\ sent'.sequence \in Int
  BY <1>1, Constants DEF SequenceID1740
<1>3. overflowCounter' \in Nat
  BY <1>1
<1>4. OverflowsCounted'
  <2>1. sent'.event # NoEvent
    BY <1>1 DEF NoEvent
  <2>2. sent'.sequence + (IF c = EventMask THEN Modulus ELSE 0) = c + overflowCounter' * Modulus
    <3>1. CASE c = EventMask
      <4>1. (overflowCounter + 1) * Modulus = overflowCounter * Modulus + Modulus
        BY <1>1, Constants
      <4>2. QED
        BY <1>1, <1>2, <3>1, <4>1, Constants
    <3>2. CASE c # EventMask
      BY <1>1, <1>2, <3>2, Constants
    <3>3. QED
      BY <3>1, <3>2
  <2>3. QED
    BY <2>1, <2>2 DEF OverflowsCounted
<1>5. sent'.sequence - sent.sequence =
        gnEvent - sent.event - (IF c < l /\ l # EventMask THEN Modulus ELSE 0)
  <2>1. CASE sent.event = NoEvent
    <3>1. l = EventMask
      <4>1. (Modulus * (-1) + EventMask) % Modulus = EventMask
        BY Constants, Remainder
      <4>2. Modulus * (-1) + EventMask = -1
        BY Constants
      <4>3. QED
        BY <2>1, <4>1, <4>2 DEF Counter, NoEvent
    <3>2. overflowCounter = 0 /\ sent.sequence = -1 /\ sent.event = -1 /\ c = gnEvent
      BY <2>1, NextSent DEF OverflowsCounted, NoEvent
    <3>3. sent'.sequence = gnEvent
      BY <1>1, <1>2, <3>2, Constants
    <3>4. QED
      BY <1>1, <3>1, <3>2, <3>3
  <2>2. CASE sent.event # NoEvent
    <3> DEFINE d == gnEvent - sent.event
    <3>1. /\ sent.event \in Nat /\ sent.event < gnEvent /\ l \in 0 .. EventMask
          /\ gnEvent <= sent.event + MaxGap
          /\ c = l + d \/ c = l + d - Modulus
      BY <2>2, NextSent
    <3>2. sent.sequence + (IF l = EventMask THEN Modulus ELSE 0) = l + overflowCounter * Modulus
      BY <2>2 DEF OverflowsCounted
    <3>3. d \in 1 .. MaxGap /\ sent.sequence \in Int /\ overflowCounter * Modulus \in Int
      BY <1>1, <3>1, Constants DEF Types, SenderOK
    <3> HIDE DEF c, l
    <3>4. CASE c = l + d
      <4>1. l # EventMask /\ ~(c < l)
        BY <1>1, <3>1, <3>3, <3>4, Constants
      <4>2. QED
        BY <1>1, <1>2, <3>1, <3>2, <3>3, <3>4, <4>1
    <3>5. CASE c = l + d - Modulus
      <4>1. c < l
        BY <1>1, <3>1, <3>3, <3>5, Constants
      <4> DEFINE k == overflowCounter * Modulus
      <4>2. k \in Int /\ sent'.sequence = c + k
        BY <1>2, <3>3
      <4>3. sent.sequence + (IF l = EventMask THEN Modulus ELSE 0) = l + k
        BY <3>2
      <4> HIDE DEF k
      <4>4. CASE l = EventMask
        BY <1>1, <3>1, <3>3, <3>5, <4>2, <4>3, <4>4, Constants
      <4>5. CASE l # EventMask
        BY <1>1, <3>1, <3>3, <3>5, <4>1, <4>2, <4>3, <4>5, Constants
      <4>6. QED
        BY <4>4, <4>5
    <3>6. QED
      BY <3>1, <3>4, <3>5
  <2>3. QED
    BY <2>1, <2>2
<1>6. QED
  BY <1>2, <1>3, <1>4, <1>5

-----------------------------------------------------------------------------
(* THE STEPS OF THE READOUT THREAD                                         *)

(* A launched thread means that start() has been called.                   *)
LEMMA LaunchedNotOff ==
  ASSUME ThreadFollowsCommand, run["latest"] # "none"
  PROVE  command # "off"
BY DEF ThreadFollowsCommand

(* The blocks can be counted.                                              *)
LEMMA Lengths ==
  ASSUME PoolOK
  PROVE  Len(free) \in Nat /\ Len(active) \in Nat
BY DEF PoolOK

(* What a step of the readout thread has to show: the rest it leaves alone.*)
LEMMA ReadoutParts ==
  ASSUME IInv, RunMoves \/ UNCHANGED worker, run["latest"] # "none",
         UNCHANGED <<command, digitizer, acquiring, trigger, sender>>,
         board' \in Seq(Event), PoolOK', MapOK', ReadoutOK', InHand', BlocksInOrder', Order',
         MapTrue', GapsCounted'
  PROVE  IInv'
<1>1. W!TypeOK' /\ CommandOK' /\ ThreadFollowsCommand'
  BY RunKeepsThread, ThreadUntouched, Parts DEF Types
<1>2. HardwareOK' /\ SenderOK'
  BY SenderUntouched, Parts DEF Types, HardwareOK
<1>3. OverflowsCounted'
  BY OverflowsUntouched, Parts DEF sender
<1>4. NothingYet'
  BY LaunchedNotOff, Parts DEF NothingYet
<1>5. Types'
  BY <1>1, <1>2 DEF Types
<1>6. QED
  BY <1>1, <1>3, <1>4, <1>5, PartsNext

(* How run["latest"] moves in a step of it.                                *)
LEMMA RunMovesTo ==
  ASSUME W!TypeOK, RunMoves
  PROVE  /\ run["latest"] \notin {"none", "done"}
         /\ run["latest"] \in {"leaving", "exiting"} => run'["latest"] \in {"exiting", "done"}
         /\ W!RunCheck("latest") =>
              run["latest"] = "check" /\ run'["latest"] = IF stopRunning THEN "leaving" ELSE "call"
         /\ W!CallReturns("latest") => run["latest"] = "call"
         /\ W!CallThrows("latest") => run["latest"] = "call" /\ run'["latest"] = "leaving"
BY DEF W!TypeOK, W!Slot, W!Looping, W!Over, RunMoves, W!RunCheck, W!CallReturns, W!NapOver,
   W!CallThrows, W!RunEnds, W!RunExits, W!Move

(* The loop of run() around the calls touches no event and no block.       *)
LEMMA LoopStep ==
  ASSUME IInv, EnterGetData \/ LeaveRun, UNCHANGED digitizer
  PROVE  IInv'
<1>1. RunMoves
  BY DEF EnterGetData, LeaveRun, RunMoves
<1>2. /\ UNCHANGED <<hardware, command, pool, timestampMap, roIntact, roEvent, failGetNext,
                      lastRcvCounter, gapSum, lastKept, sender>>
      /\ run["latest"] \in {"check", "nap", "leaving", "exiting"}
      /\ \/ ro' = ro /\ run["latest"] # "check"
         \/ ro' = "out" \/ (ro' = "begin" /\ run'["latest"] = "call")
  <2>1. CASE EnterGetData
    BY <1>1, <2>1, RunMovesTo, Parts DEF EnterGetData, Types, W!TypeOK
  <2>2. CASE LeaveRun
    BY <2>2 DEF LeaveRun, readout, W!NapOver, W!RunEnds, W!RunExits, W!Move
  <2>3. QED
    BY <2>1, <2>2
<1>3. ro = "out" /\ roEvent = NoEvent
  BY <1>2, Parts DEF InHand, Calling, Types, ReadoutOK
<1>4. board' \in Seq(Event) /\ PoolOK' /\ MapOK'
  BY <1>2, PoolUntouched, MapUntouched, Parts DEF Types, HardwareOK, hardware
<1>5. ReadoutOK'
  BY <1>2, <1>3, Parts DEF Types, ReadoutOK
<1>6. InHand'
  BY <1>2, <1>3, Parts DEF InHand, Calling, sender
<1>7. BlocksInOrder'
  <2>1. BlocksThere' = BlocksThere
    BY <1>2, <1>3 DEF BlocksThere, pool, sender
  <2>2. run["latest"] \in {"leaving", "exiting"} => run'["latest"] \in {"exiting", "done"}
    BY <1>1, RunMovesTo, Parts DEF Types
  <2>3. QED
    BY <1>2, <2>1, <2>2, Parts DEF BlocksInOrder
<1>8. Order' /\ MapTrue'
  BY <1>2, <1>3, OrderUntouched, MapTrueUntouched, Parts DEF hardware, pool, sender
<1>9. GapsCounted'
  BY <1>2, GapsUntouched, Parts
<1>10. QED
  BY <1>1, <1>2, <1>4, <1>5, <1>6, <1>7, <1>8, <1>9, ReadoutParts DEF hardware

(* In a call, a return ends it.                                            *)
LEMMA InCall ==
  ASSUME IInv, ro # "out"
  PROVE  /\ run["latest"] = "call" /\ command # "off"
         /\ BlocksThere = PoolBlocks
BY LaunchedNotOff, Parts DEF InHand, Calling, BlocksInOrder

(* The call waits, takes a block, or finds none: no event changes hands.   *)
LEMMA BlockStep ==
  ASSUME IInv, IRQWait \/ TakeBlock \/ PoolExhausted \/ ReadNothing, UNCHANGED digitizer
  PROVE  IInv'
<1>1. /\ UNCHANGED <<hardware, command, active, timestampMap, lastRcvCounter, gapSum, lastKept,
                      sender>>
      /\ roEvent' = roEvent \/ roEvent' = NoEvent
      /\ ro \in {"begin", "take", "read"} /\ ro' \in {"out", "take", "read"}
      /\ (W!CallReturns("latest") /\ ro' = "out") \/ (UNCHANGED worker /\ ro' # "out")
      /\ Calling
  BY DEF IRQWait, TakeBlock, PoolExhausted, ReadNothing, Return, GiveBack, pool
<1>2. roEvent = NoEvent /\ roEvent' = NoEvent
  BY <1>1, Parts DEF InHand
<1>3. failGetNext' \in BOOLEAN /\ roIntact' \in BOOLEAN
  <2>1. CASE IRQWait
    BY <2>1, Parts DEF IRQWait, Types, ReadoutOK
  <2>2. CASE TakeBlock
    <3>1. Head(free) \in BOOLEAN
      BY <2>2, Parts, Tailed DEF TakeBlock, Types, PoolOK
    <3>2. QED
      BY <2>2, <3>1, Parts DEF TakeBlock, Types, ReadoutOK
  <2>3. CASE PoolExhausted
    BY <2>3, Parts DEF PoolExhausted, Types, ReadoutOK
  <2>4. CASE ReadNothing
    BY <2>4, Parts DEF ReadNothing, GiveBack, Types, ReadoutOK
  <2>5. QED
    BY <2>1, <2>2, <2>3, <2>4
<1>4. ReadoutOK'
  BY <1>1, <1>2, <1>3, Parts DEF Types, ReadoutOK
<1>5. free' \in Seq(BOOLEAN) /\ BlocksThere' = BlocksThere
  <2>1. Len(free) \in Nat /\ Len(active) \in Nat /\ free \in Seq(BOOLEAN) /\ roIntact \in BOOLEAN
    BY Lengths, Parts DEF Types, PoolOK, ReadoutOK
  <2>2. CASE IRQWait
    BY <2>1, <2>2 DEF IRQWait, Return, BlocksThere, pool, sender
  <2>3. CASE TakeBlock
    <3>1. free' \in Seq(BOOLEAN) /\ Len(free') = Len(free) - 1
      BY <2>1, <2>3, Tailed DEF TakeBlock
    <3>2. QED
      BY <2>1, <2>3, <3>1 DEF TakeBlock, BlocksThere, sender
  <2>4. CASE PoolExhausted
    BY <2>1, <2>4 DEF PoolExhausted, Return, BlocksThere, pool, sender
  <2>5. CASE ReadNothing
    <3>1. free' \in Seq(BOOLEAN) /\ Len(free') = Len(free) + 1
      BY <2>1, <2>5, Pushed DEF ReadNothing, GiveBack
    <3>2. QED
      BY <2>1, <2>5, <3>1 DEF ReadNothing, GiveBack, Return, BlocksThere, sender
  <2>6. QED
    BY <2>2, <2>3, <2>4, <2>5
<1>6. board' \in Seq(Event) /\ PoolOK' /\ MapOK'
  BY <1>1, <1>5, MapUntouched, Parts DEF Types, HardwareOK, hardware, PoolOK
<1>7. InHand'
  BY <1>1, <1>2, Parts DEF InHand, Calling, worker, sender
<1>8. BlocksInOrder'
  BY <1>1, <1>5, InCall DEF BlocksInOrder
<1>9. Order' /\ MapTrue'
  BY <1>1, <1>2, OrderUntouched, MapTrueUntouched, Parts DEF hardware, sender
<1>10. GapsCounted'
  BY <1>1, GapsUntouched, Parts
<1>11. QED
  BY <1>1, <1>4, <1>6, <1>7, <1>8, <1>9, <1>10, ReadoutParts DEF hardware, RunMoves, Calling

(* An event is taken from the board, to be kept or dropped.                *)
LEMMA TakeStep ==
  ASSUME IInv, ReadEvent \/ ReadEvent1740 \/ ReadOversize, UNCHANGED digitizer
  PROVE  IInv'
<1>1. /\ UNCHANGED <<acquiring, trigger, command, active, timestampMap, failGetNext,
                      lastRcvCounter, gapSum, lastKept, sender>>
      /\ ro = "read" /\ Calling /\ board # <<>> /\ board' = Tail(board)
      /\ \/ roEvent' = Head(board) /\ ro' = "verify" /\ UNCHANGED <<worker, free>>
         \/ roEvent' = NoEvent /\ ro' = "out" /\ W!CallReturns("latest")
      /\ roIntact' \in {roIntact, FALSE, TRUE}
  BY DEF ReadEvent, ReadEvent1740, ReadOversize, GiveBack, Return, pool
<1>2. board' \in Seq(Event) /\ Head(board) \in Event /\ Head(board) # NoEvent
  BY <1>1, Tailed, Constants, Parts DEF Types, HardwareOK, Event, NoEvent
<1>3. ReadoutOK'
  BY <1>1, <1>2, Parts DEF Types, ReadoutOK
<1>4. free' \in Seq(BOOLEAN) /\ BlocksThere' = BlocksThere
  <2>1. Len(free) \in Nat /\ Len(active) \in Nat /\ free \in Seq(BOOLEAN) /\ roIntact \in BOOLEAN
    BY Lengths, Parts DEF Types, PoolOK, ReadoutOK
  <2>2. CASE ReadEvent \/ ReadEvent1740
    BY <2>1, <2>2 DEF ReadEvent, ReadEvent1740, BlocksThere, pool, sender
  <2>3. CASE ReadOversize
    <3>1. PICK intact \in BOOLEAN : free' = <<intact>> \o free
      BY <2>1, <2>3 DEF ReadOversize, GiveBack
    <3>2. free' \in Seq(BOOLEAN) /\ Len(free') = Len(free) + 1
      BY <2>1, <3>1, Pushed
    <3>3. QED
      BY <2>1, <2>3, <3>2 DEF ReadOversize, GiveBack, Return, BlocksThere, sender
  <2>4. QED
    BY <2>2, <2>3
<1>5. PoolOK' /\ MapOK'
  BY <1>1, <1>4, MapUntouched, Parts DEF Types, PoolOK
<1>6. InHand'
  BY <1>1, <1>2, Parts DEF InHand, Calling, worker, sender
<1>7. BlocksInOrder'
  BY <1>1, <1>4, InCall DEF BlocksInOrder
<1>8. Order'
  BY <1>1, TakeOrder, Parts DEF sender
<1>9. MapTrue'
  BY <1>1, MapTrueUntouched, Parts DEF sender
<1>10. GapsCounted'
  BY <1>1, GapsUntouched, Parts
<1>11. QED
  BY <1>1, <1>2, <1>3, <1>5, <1>6, <1>7, <1>8, <1>9, <1>10, ReadoutParts DEF RunMoves, Calling

(* An event is dropped with its block kept, or the thread ends without it. *)
LEMMA DropStep ==
  ASSUME IInv, BadHeader \/ RedzoneThrows, UNCHANGED digitizer
  PROVE  IInv'
<1>1. /\ UNCHANGED <<hardware, command, active, timestampMap, failGetNext, lastRcvCounter, gapSum,
                      lastKept, sender>>
      /\ ro = "verify" /\ ro' = "out" /\ roEvent' = NoEvent /\ roIntact' = TRUE
      /\ \/ W!CallReturns("latest") /\ free' = <<roIntact>> \o free
         \/ W!CallThrows("latest") /\ free' = free
  BY DEF BadHeader, RedzoneThrows, GiveBack, Return, pool
<1>2. RunMoves /\ run["latest"] = "call" /\ BlocksThere = PoolBlocks
  BY <1>1, InCall DEF RunMoves
<1>3. ReadoutOK'
  BY <1>1, Parts DEF Types, ReadoutOK
<1>4. /\ free' \in Seq(BOOLEAN)
      /\ \/ BlocksThere' = BlocksThere
         \/ BlocksThere' = BlocksThere - 1 /\ run'["latest"] = "leaving"
  <2>1. Len(free) \in Nat /\ Len(active) \in Nat /\ free \in Seq(BOOLEAN) /\ roIntact \in BOOLEAN
    BY Lengths, Parts DEF Types, PoolOK, ReadoutOK
  <2>2. CASE W!CallThrows("latest") /\ free' = free
    <3>1. run'["latest"] = "leaving"
      BY <1>2, <2>2, RunMovesTo, Parts DEF Types
    <3>2. BlocksThere' = BlocksThere - 1
      BY <1>1, <2>1, <2>2 DEF BlocksThere, sender
    <3>3. QED
      BY <2>1, <2>2, <3>1, <3>2
  <2>3. CASE free' = <<roIntact>> \o free
    <3>1. free' \in Seq(BOOLEAN) /\ Len(free') = Len(free) + 1
      BY <2>1, <2>3, Pushed
    <3>2. QED
      BY <1>1, <2>1, <3>1 DEF BlocksThere, sender
  <2>4. QED
    BY <1>1, <2>2, <2>3
<1>5. board' \in Seq(Event) /\ PoolOK' /\ MapOK'
  BY <1>1, <1>4, MapUntouched, Parts DEF Types, HardwareOK, hardware, PoolOK
<1>6. InHand'
  BY <1>1, Parts DEF InHand, sender
<1>7. BlocksInOrder'
  BY <1>2, <1>4 DEF BlocksInOrder
<1>8. Order' /\ MapTrue'
  BY <1>1, DropOrder, MapTrueUntouched, Parts DEF hardware, sender
<1>9. GapsCounted'
  BY <1>1, GapsUntouched, Parts
<1>10. QED
  BY <1>1, <1>2, <1>3, <1>5, <1>6, <1>7, <1>8, <1>9, ReadoutParts DEF hardware

(* Its timestamp is recorded.                                              *)
LEMMA RecordStep ==
  ASSUME IInv, RecordTimestamp, UNCHANGED digitizer
  PROVE  IInv'
<1>1. /\ ro = "verify" /\ ro' = "recorded" /\ Calling
      /\ UNCHANGED <<worker, hardware, command, pool, roIntact, roEvent, failGetNext,
                      lastRcvCounter, gapSum, lastKept, sender>>
  BY DEF RecordTimestamp
<1>2. PICK meanPollTime \in MeanPollTimes(roEvent) :
        timestampMap' =
          [c \in DOMAIN timestampMap \cup {Counter(roEvent)} |->
             IF c = Counter(roEvent) THEN Timestamp(meanPollTime, TimeTag(roEvent))
                                     ELSE timestampMap[c]]
  BY DEF RecordTimestamp
<1>3. Len(free) \in Nat /\ Len(active) \in Nat
  BY Lengths, Parts DEF Types
<1>4. Len(active) < PoolBlocks
  BY <1>1, <1>3, InCall, Constants DEF BlocksThere
<1>5. roEvent # NoEvent
  BY <1>1, Parts DEF InHand
<1>6. MapTrue' /\ MapOK'
  BY <1>1, <1>2, <1>4, <1>5, RecordMap, Parts DEF pool, sender
<1>7. board' \in Seq(Event) /\ PoolOK'
  BY <1>1, PoolUntouched, Parts DEF Types, HardwareOK, hardware
<1>8. ReadoutOK'
  BY <1>1, Parts DEF Types, ReadoutOK
<1>9. InHand'
  BY <1>1, Parts DEF InHand, Calling, worker, sender
<1>10. BlocksInOrder'
  BY <1>1, InCall DEF BlocksInOrder, BlocksThere, pool, sender
<1>11. Order'
  BY <1>1, OrderUntouched, Parts DEF hardware, pool, sender
<1>12. GapsCounted'
  BY <1>1, GapsUntouched, Parts
<1>13. QED
  BY <1>1, <1>6, <1>7, <1>8, <1>9, <1>10, <1>11, <1>12, ReadoutParts DEF hardware, Calling

(* The event is queued as the last active one.                             *)
LEMMA QueueStep ==
  ASSUME IInv, (digitizer = "V1730" /\ QueueEvent) \/ (digitizer = "V1740" /\ QueueEvent1740),
         UNCHANGED digitizer
  PROVE  IInv'
<1>1. /\ ro = "recorded" /\ ro' = "take" /\ Calling
      /\ active' = Append(active, roEvent) /\ lastKept' = roEvent
      /\ lastRcvCounter' = Counter(roEvent) /\ roIntact' = TRUE /\ roEvent' = NoEvent
      /\ UNCHANGED <<worker, hardware, command, free, timestampMap, failGetNext, sender>>
      /\ gapSum' = gapSum + Gap \/ (gapSum' = gapSum /\ digitizer = "V1740")
  BY DEF QueueEvent, QueueEvent1740
<1>2. roEvent # NoEvent /\ roEvent \in Event
  BY <1>1, Parts DEF InHand, Types, ReadoutOK
<1>3. GapsCounted' /\ gapSum' \in Nat /\ lastRcvCounter' \in 0 .. EventMask
  <2>1. CASE gapSum' = gapSum + Gap
    BY <1>1, <1>2, <2>1, GapsStep, Parts
  <2>2. CASE gapSum' = gapSum /\ digitizer = "V1740"
    <3>1. Counter(roEvent) \in 0 .. EventMask
      BY <1>2, CounterRange, Constants DEF Event
    <3>2. QED
      BY <1>1, <2>2, <3>1, Parts DEF GapsCounted, Types, ReadoutOK
  <2>3. QED
    BY <1>1, <2>1, <2>2
<1>4. /\ active' \in Seq(Event) /\ Len(active') = Len(active) + 1
      /\ Len(active) \in Nat /\ Len(free) \in Nat
  BY <1>1, <1>2, Appended, Lengths, Parts DEF Types, PoolOK
<1>5. board' \in Seq(Event) /\ PoolOK' /\ MapOK'
  BY <1>1, <1>4, MapUntouched, Parts DEF Types, PoolOK, HardwareOK, hardware
<1>6. ReadoutOK'
  <2>1. roEvent \in FirstTrigger - 1 .. LastTrigger
    BY <1>2, Constants DEF Event
  <2>2. QED
    BY <1>1, <1>3, <2>1, Parts DEF Types, ReadoutOK
<1>7. InHand'
  BY <1>1, Parts DEF InHand, Calling, worker, sender
<1>8. BlocksInOrder'
  <2>1. BlocksThere' = BlocksThere
    BY <1>1, <1>4 DEF BlocksThere, sender
  <2>2. QED
    BY <1>1, <2>1, InCall DEF BlocksInOrder
<1>9. Order'
  BY <1>1, <1>2, QueueOrder, Parts DEF hardware, sender
<1>10. MapTrue'
  BY <1>1, <1>2, QueueMap, Parts DEF sender
<1>11. QED
  BY <1>1, <1>3, <1>5, <1>6, <1>7, <1>8, <1>9, <1>10, ReadoutParts DEF hardware, Calling

-----------------------------------------------------------------------------
(* THE STEPS OF THE BOARD AND OF start() AND stop()                        *)

(* A sequence of as many intact blocks as were asked for.                  *)
LEMMA FreshBlocks ==
  LET blocks == [k \in 1 .. PoolBlocks |-> TRUE]
  IN  blocks \in Seq(BOOLEAN) /\ Len(blocks) = PoolBlocks
BY Constants

(* start() finds everything at rest and empties the map and the counters.  *)
LEMMA ConfigureStep ==
  ASSUME IInv, UNCHANGED digitizer,
         \/ digitizer = "V1730" /\ ConfigureDataBuffer
         \/ digitizer = "V1740" /\ ConfigureDataBuffer1740
  PROVE  IInv'
<1>1. /\ command = "off" /\ command' = "start" /\ free' = [k \in 1 .. PoolBlocks |-> TRUE]
      /\ timestampMap' = <<>> /\ acquiring' = TRUE /\ overflowCounter' = 0
      /\ UNCHANGED <<worker, trigger, board, active, failGetNext, gapSum, ro, roIntact,
                     roEvent, lastKept, gn, gnEvent, lookups, sent>>
      /\ \/ lastRcvCounter' = 0 /\ lastSentCounter' = 0
         \/ digitizer = "V1740" /\ UNCHANGED <<lastRcvCounter, lastSentCounter>>
  BY DEF ConfigureDataBuffer, ConfigureDataBuffer1740, readout
<1>2. /\ lastKept = FirstTrigger - 1 /\ gapSum = 0 /\ active = <<>> /\ gn = "out"
      /\ sent.event = NoEvent
  BY <1>1, Parts DEF NothingYet
<1>3. run["latest"] = "none" /\ ctl = "idle" /\ ~started
  BY <1>1, Parts DEF ThreadFollowsCommand
<1>4. ro = "out" /\ roEvent = NoEvent /\ gnEvent = NoEvent
  BY <1>2, <1>3, Parts DEF InHand, Calling, Types, ReadoutOK
<1>5. CommandOK'
  BY <1>1, Parts DEF Types, CommandOK
<1>6. ThreadFollowsCommand'
  BY <1>1, <1>3, Parts DEF ThreadFollowsCommand, worker, Finished, Stopped
<1>7. W!TypeOK'
  BY <1>1, Parts DEF Types, W!TypeOK, worker
<1>8. free' \in Seq(BOOLEAN) /\ Len(free') = PoolBlocks
  BY <1>1, FreshBlocks
<1>9. HardwareOK' /\ PoolOK'
  BY <1>1, <1>8, Parts DEF Types, HardwareOK, PoolOK
<1>10. DOMAIN timestampMap' = {}
  BY <1>1
<1>11. MapOK'
  BY <1>10 DEF MapOK, Range
<1>12. 0 \in 0 .. EventMask
  BY Constants
<1>13. ReadoutOK' /\ SenderOK'
  BY <1>1, <1>12, Parts DEF Types, ReadoutOK, SenderOK
<1>14. InHand'
  BY <1>1, <1>4, Parts DEF InHand
<1>15. BlocksInOrder'
  <2>1. Len(active') = 0
    BY <1>1, <1>2
  <2>2. BlocksThere' = PoolBlocks
    BY <1>1, <1>2, <1>4, <1>8, <2>1, Constants DEF BlocksThere
  <2>3. QED
    BY <2>2 DEF BlocksInOrder
<1>16. Order'
  BY <1>1, OrderUntouched, Parts
<1>17. MapTrue'
  <2>1. Range(active') = {}
    BY <1>1, <1>2 DEF Range
  <2>2. Pending' = {}
    BY <1>1, <1>4, <2>1 DEF Pending
  <2>3. QED
    BY <1>10, <2>2 DEF MapTrue
<1>18. GapsCounted'
  BY <1>1, <1>2, Constants DEF GapsCounted
<1>19. OverflowsCounted'
  BY <1>1, <1>2, Parts DEF OverflowsCounted
<1>20. NothingYet'
  BY <1>1 DEF NothingYet
<1>21. Types'
  BY <1>5, <1>7, <1>9, <1>11, <1>13 DEF Types
<1>22. QED
  BY <1>6, <1>14, <1>15, <1>16, <1>17, <1>18, <1>19, <1>20, <1>21, PartsNext

(* start() launches the thread, stop() waits for it and then lets the      *)
(* board rest: the events stay where they are.                             *)
LEMMA CommandsStep ==
  ASSUME IInv, Commands, UNCHANGED digitizer
  PROVE  IInv'
<1>1. /\ UNCHANGED <<trigger, board, pool, timestampMap, readout, sender>>
      /\ acquiring' \in {acquiring, FALSE}
      /\ command' # "off"
  BY Parts DEF Commands, StartThread, StopNoMutex, JoinThread, SWStopAcquisition, StopAgain,
     hardware, ThreadFollowsCommand, W!StopWaitMore, W!StopJoin
<1>2. W!TypeOK' /\ CommandOK' /\ ThreadFollowsCommand'
  BY CommandsKeepThread, Parts DEF Types
<1>3. command # "off"
  BY Parts DEF Commands, StartThread, StopNoMutex, JoinThread, SWStopAcquisition, StopAgain,
     ThreadFollowsCommand, W!StopWaitMore, W!StopJoin
<1>4. run' = run \/ run["latest"] = "none"
  <2>1. CASE W!StartLaunch /\ command = "start"
    BY <2>1, Parts DEF W!StartLaunch, ThreadFollowsCommand
  <2>2. CASE ~W!StartLaunch
    BY <2>2 DEF Commands, StartThread, StopNoMutex, JoinThread, SWStopAcquisition, StopAgain,
       worker, W!StartAssigned, W!StopRequest, W!StopIgnored, W!StopWaitMore, W!StopJoin
  <2>3. QED
    BY <2>1, <2>2 DEF Commands, StartThread, StopNoMutex, JoinThread, SWStopAcquisition, StopAgain,
       worker, W!StartAssigned, W!StopRequest, W!StopIgnored, W!StopWaitMore, W!StopJoin
<1>5. HardwareOK'
  BY <1>1, Parts DEF Types, HardwareOK
<1>6. PoolOK' /\ MapOK' /\ ReadoutOK' /\ SenderOK'
  BY <1>1, PoolUntouched, MapUntouched, ReadoutUntouched, SenderUntouched, Parts DEF Types
<1>7. InHand'
  BY <1>1, <1>4, Parts DEF InHand, Calling, readout, sender
<1>8. BlocksInOrder'
  <2>1. BlocksThere' = BlocksThere
    BY <1>1 DEF BlocksThere, pool, readout, sender
  <2>2. QED
    BY <1>3, <1>4, <2>1, Parts DEF BlocksInOrder
<1>9. Order' /\ MapTrue'
  BY <1>1, OrderUntouched, MapTrueUntouched, Parts DEF pool, readout, sender
<1>10. GapsCounted' /\ OverflowsCounted'
  BY <1>1, GapsUntouched, OverflowsUntouched, Parts DEF readout, sender
<1>11. NothingYet'
  BY <1>1 DEF NothingYet
<1>12. Types'
  BY <1>2, <1>5, <1>6 DEF Types
<1>13. QED
  BY <1>2, <1>7, <1>8, <1>9, <1>10, <1>11, <1>12, PartsNext

(* The board takes a trigger.                                              *)
LEMMA TriggerStep ==
  ASSUME IInv, Trigger, UNCHANGED digitizer
  PROVE  IInv'
<1>1. /\ acquiring
      /\ UNCHANGED <<worker, command, pool, timestampMap, readout, sender>>
  BY DEF Trigger
<1>2. command # "off"
  BY <1>1, Parts DEF NothingYet
<1>3. HardwareOK' /\ Order'
  BY TriggerOrder, Parts
<1>4. W!TypeOK' /\ CommandOK' /\ ThreadFollowsCommand'
  BY <1>1, ThreadUntouched, Parts DEF Types
<1>5. PoolOK' /\ MapOK' /\ ReadoutOK' /\ SenderOK'
  BY <1>1, PoolUntouched, MapUntouched, ReadoutUntouched, SenderUntouched, Parts DEF Types
<1>6. InHand'
  BY <1>1, Parts DEF InHand, Calling, worker, readout, sender
<1>7. BlocksInOrder'
  BY <1>1, Parts DEF BlocksInOrder, BlocksThere, worker, pool, readout, sender
<1>8. MapTrue' /\ GapsCounted' /\ OverflowsCounted'
  BY <1>1, MapTrueUntouched, GapsUntouched, OverflowsUntouched, Parts DEF pool, readout, sender
<1>9. NothingYet'
  BY <1>1, <1>2 DEF NothingYet
<1>10. Types'
  BY <1>3, <1>4, <1>5 DEF Types
<1>11. QED
  BY <1>3, <1>4, <1>6, <1>7, <1>8, <1>9, <1>10, PartsNext

-----------------------------------------------------------------------------
(* THE STEPS OF getNext_                                                   *)

(* What such a step has to show: the board, the thread and the command are *)
(* left alone.                                                             *)
LEMMA SenderParts ==
  ASSUME IInv, command # "off", UNCHANGED <<worker, command, digitizer, hardware, readout>>,
         PoolOK', MapOK', SenderOK', InHand', BlocksThere' = BlocksThere, Order', MapTrue',
         OverflowsCounted'
  PROVE  IInv'
<1>1. W!TypeOK' /\ CommandOK' /\ ThreadFollowsCommand'
  BY ThreadUntouched, Parts DEF Types
<1>2. HardwareOK' /\ ReadoutOK'
  BY HardwareUntouched, ReadoutUntouched, Parts DEF Types
<1>3. BlocksInOrder'
  BY Parts DEF BlocksInOrder, worker
<1>4. GapsCounted'
  BY GapsUntouched, Parts DEF readout
<1>5. NothingYet'
  BY DEF NothingYet
<1>6. Types'
  BY <1>1, <1>2 DEF Types
<1>7. QED
  BY <1>1, <1>3, <1>4, <1>5, <1>6, PartsNext

(* The calls of getNext_ begin and end between two fragments.              *)
LEMMA BetweenStep ==
  ASSUME IInv, GetNextBegin \/ GetNextEnd, UNCHANGED digitizer
  PROVE  IInv'
<1>1. /\ UNCHANGED <<worker, hardware, command, pool, timestampMap, readout, gnEvent, lookups,
                      sent, overflowCounter, lastSentCounter>>
      /\ gn \in {"out", "loop"} /\ gn' \in {"out", "loop", "thrown"}
      /\ command \in {"run", "stopNoMutex"} \/ gn = "loop"
  BY DEF GetNextBegin, GetNextEnd
<1>2. command # "off"
  BY <1>1, Parts DEF NothingYet
<1>3. PoolOK' /\ MapOK' /\ SenderOK'
  BY <1>1, PoolUntouched, MapUntouched, Parts DEF Types, SenderOK
<1>4. InHand'
  BY <1>1, Parts DEF InHand, Calling, worker, readout
<1>5. BlocksThere' = BlocksThere
  BY <1>1 DEF BlocksThere, pool, readout
<1>6. Order' /\ MapTrue' /\ OverflowsCounted'
  BY <1>1, OrderUntouched, MapTrueUntouched, OverflowsUntouched, Parts DEF hardware, pool, readout
<1>7. QED
  BY <1>1, <1>2, <1>3, <1>4, <1>5, <1>6, SenderParts

(* The oldest block is taken out, with the event that is sent next.        *)
LEMMA ReadBlockStep ==
  ASSUME IInv, ReadBlock, UNCHANGED digitizer
  PROVE  IInv'
<1>1. /\ gn = "loop" /\ gn' = "read" /\ active # <<>>
      /\ gnEvent' = Head(active) /\ active' = Tail(active)
      /\ UNCHANGED <<worker, hardware, command, free, timestampMap, readout, lookups,
                      sent, overflowCounter, lastSentCounter>>
  BY DEF ReadBlock
<1>2. command # "off" /\ gnEvent = NoEvent
  BY <1>1, Parts DEF NothingYet, InHand
<1>3. /\ active' \in Seq(Event) /\ Len(active') = Len(active) - 1
      /\ Len(active) \in Nat /\ Len(free) \in Nat
      /\ gnEvent' \in Event /\ gnEvent' # NoEvent
  <2>1. \A e \in Event : e # NoEvent
    BY Constants DEF Event, NoEvent
  <2>2. QED
    BY <1>1, <2>1, Tailed, Lengths, Parts DEF Types, PoolOK
<1>4. PoolOK' /\ MapOK' /\ SenderOK'
  BY <1>1, <1>3, MapUntouched, Parts DEF Types, PoolOK, SenderOK
<1>5. InHand'
  BY <1>1, <1>3, Parts DEF InHand, Calling, worker, readout
<1>6. BlocksThere' = BlocksThere
  BY <1>1, <1>3 DEF BlocksThere, readout
<1>7. Order'
  BY <1>1, <1>2, ReadBlockOrder, Parts DEF hardware, readout
<1>8. MapTrue'
  BY <1>1, <1>2, ReadBlockMap, Parts DEF readout
<1>9. OverflowsCounted'
  BY <1>1, OverflowsUntouched, Parts
<1>10. QED
  BY <1>1, <1>2, <1>4, <1>5, <1>6, <1>7, <1>8, <1>9, SenderParts

(* The block goes back to the free ones.                                   *)
LEMMA ReleaseStep ==
  ASSUME IInv, ReleaseBlock, UNCHANGED digitizer
  PROVE  IInv'
<1>1. /\ gn = "read" /\ gn' = "lookup" /\ free' = <<TRUE>> \o free /\ lookups' = 0
      /\ UNCHANGED <<worker, hardware, command, active, timestampMap, readout, gnEvent,
                      sent, overflowCounter, lastSentCounter>>
  BY DEF ReleaseBlock
<1>2. command # "off"
  BY <1>1, Parts DEF NothingYet
<1>3. /\ free' \in Seq(BOOLEAN) /\ Len(free') = Len(free) + 1
      /\ Len(active) \in Nat /\ Len(free) \in Nat
  BY <1>1, Pushed, Lengths, Parts DEF Types, PoolOK
<1>4. PoolOK' /\ MapOK' /\ SenderOK'
  BY <1>1, <1>3, MapUntouched, Parts DEF Types, PoolOK, SenderOK
<1>5. InHand'
  BY <1>1, Parts DEF InHand, Calling, worker, readout
<1>6. BlocksThere' = BlocksThere
  BY <1>1, <1>3 DEF BlocksThere, readout
<1>7. Order' /\ MapTrue' /\ OverflowsCounted'
  BY <1>1, OrderUntouched, MapTrueUntouched, OverflowsUntouched, Parts DEF hardware, readout
<1>8. QED
  BY <1>1, <1>2, <1>4, <1>5, <1>6, <1>7, SenderParts

(* The timestamp is found at the first look.                               *)
LEMMA LookupStep ==
  ASSUME IInv, LookupTimestamp \/ LookupTimestamp1740, UNCHANGED digitizer
  PROVE  IInv'
<1>1. /\ gn = "lookup"
      /\ Counter(gnEvent) \in DOMAIN timestampMap => lookups' = lookups /\ gn' = "send"
      /\ UNCHANGED <<worker, hardware, command, pool, timestampMap, readout, gnEvent, sent,
                      overflowCounter, lastSentCounter>>
  BY DEF LookupTimestamp, LookupTimestamp1740
<1>2. gnEvent # NoEvent /\ lookups = 0 /\ command # "off"
  BY <1>1, Parts DEF InHand, NothingYet
<1>3. Counter(gnEvent) \in DOMAIN timestampMap
  BY <1>2, Parts DEF MapTrue, Pending
<1>4. PoolOK' /\ MapOK' /\ SenderOK'
  BY <1>1, <1>3, PoolUntouched, MapUntouched, Parts DEF Types, SenderOK
<1>5. InHand'
  BY <1>1, <1>2, <1>3, Parts DEF InHand, Calling, worker, readout
<1>6. BlocksThere' = BlocksThere
  BY <1>1, <1>3 DEF BlocksThere, pool, readout
<1>7. Order' /\ MapTrue' /\ OverflowsCounted'
  BY <1>1, OrderUntouched, MapTrueUntouched, OverflowsUntouched, Parts DEF hardware, pool, readout
<1>8. QED
  BY <1>1, <1>2, <1>4, <1>5, <1>6, <1>7, SenderParts

(* A fragment in order, with the time of its trigger and a sequence ID     *)
(* that follows the trigger number.                                        *)
SendsTrue ==
  /\ sent'.event > sent.event
  /\ sent'.timestamp = TriggerTime(sent'.event) - TimeTagShift
  /\ sent'.sequence - sent.sequence =
       sent'.event - sent.event - (IF OverflowMissed THEN Modulus ELSE 0)

Sends ==
  \/ digitizer = "V1730" /\ SendFragment
  \/ digitizer = "V1740" /\ SendFragment1740

(* Every fragment is sent so.                                              *)
LEMMA SendStep ==
  ASSUME IInv, Sends, UNCHANGED digitizer
  PROVE  IInv' /\ SendsTrue
<1>1. /\ gn = "send" /\ gn' = "loop" /\ gnEvent' = NoEvent
      /\ sent'.event = gnEvent
      /\ lookups = 0 => sent'.timestamp = timestampMap[Counter(gnEvent)]
      /\ timestampMap' = Restrict(timestampMap, DOMAIN timestampMap \ {Counter(gnEvent)})
      /\ UNCHANGED <<worker, hardware, command, pool, readout, lookups>>
  BY DEF Sends, SendFragment, SendFragment1740
<1>2. gnEvent # NoEvent /\ lookups = 0 /\ command # "off" /\ gnEvent \in Event
  BY <1>1, Parts DEF InHand, NothingYet, Types, SenderOK
<1>3. /\ Len(active) <= PoolBlocks
      /\ ro = "recorded" => roEvent # NoEvent /\ Len(active) < PoolBlocks
  <2>1. Len(free) \in Nat /\ Len(active) \in Nat
    BY Lengths, Parts DEF Types
  <2>2. BlocksThere <= PoolBlocks
    BY <1>2, Constants, Parts DEF BlocksInOrder
  <2>3. Len(active) <= PoolBlocks /\ (ro = "recorded" => Len(active) < PoolBlocks)
    BY <1>1, <2>1, <2>2, Constants DEF BlocksThere
  <2>4. QED
    BY <2>3, Parts DEF InHand
<1>4. MapTrue' /\ MapOK' /\ timestampMap[Counter(gnEvent)] = TriggerTime(gnEvent) - TimeTagShift
  BY <1>1, <1>2, <1>3, SendMap, Parts DEF pool, readout
<1>5. Order'
  BY <1>1, <1>2, SendOrder, Parts DEF hardware, pool, readout
<1>6. gnEvent \in Int /\ sent.event < gnEvent
  BY <1>2, NextSent, Parts
<1>7. /\ OverflowsCounted' /\ overflowCounter' \in Nat /\ lastSentCounter' \in 0 .. EventMask
      /\ sent'.sequence \in Int
      /\ sent'.sequence - sent.sequence =
           sent'.event - sent.event - (IF OverflowMissed THEN Modulus ELSE 0)
  <2>1. CASE digitizer = "V1730" /\ SendFragment
    <3>1. /\ sent'.sequence = SequenceID(Counter(gnEvent))
          /\ overflowCounter' = Overflows(Counter(gnEvent)) /\ lastSentCounter' = Counter(gnEvent)
      BY <2>1 DEF SendFragment
    <3>2. /\ OverflowsCounted' /\ overflowCounter' \in Nat /\ lastSentCounter' \in 0 .. EventMask
          /\ sent'.sequence = gnEvent /\ sent.sequence = sent.event
      BY <1>1, <1>2, <2>1, <3>1, SequenceStep1730, Parts
    <3>3. ~OverflowMissed
      BY <2>1 DEF OverflowMissed
    <3>4. sent.event \in Int
      BY Constants, Parts DEF Types, SenderOK, Event, NoEvent
    <3>5. QED
      BY <1>1, <1>6, <3>2, <3>3, <3>4
  <2>2. CASE digitizer = "V1740" /\ SendFragment1740
    <3>1. /\ sent'.sequence = SequenceID1740(Counter(gnEvent))
          /\ overflowCounter' = overflowCounter + (IF Counter(gnEvent) = EventMask THEN 1 ELSE 0)
          /\ lastSentCounter' = lastSentCounter
      BY <2>2 DEF SendFragment1740
    <3>2. /\ OverflowsCounted' /\ overflowCounter' \in Nat /\ sent'.sequence \in Int
          /\ sent'.sequence - sent.sequence =
               gnEvent - sent.event
                 - (IF Counter(gnEvent) < Counter(sent.event) /\ Counter(sent.event) # EventMask
                      THEN Modulus ELSE 0)
      BY <1>1, <1>2, <2>2, <3>1, SequenceStep1740, Parts
    <3>3. OverflowMissed =
            (Counter(gnEvent) < Counter(sent.event) /\ Counter(sent.event) # EventMask)
      BY <1>1, <2>2 DEF OverflowMissed
    <3>4. lastSentCounter' \in 0 .. EventMask
      BY <3>1, Parts DEF Types, SenderOK
    <3>5. QED
      BY <1>1, <3>2, <3>3, <3>4
  <2>3. QED
    BY <2>1, <2>2 DEF Sends
<1>8. SenderOK'
  <2>1. sent'.event \in Event
    BY <1>1, <1>2
  <2>2. QED
    BY <1>1, <1>7, <2>1, Parts DEF Types, SenderOK
<1>9. PoolOK'
  BY <1>1, PoolUntouched, Parts DEF Types
<1>10. InHand'
  BY <1>1, Parts DEF InHand, Calling, worker, readout
<1>11. BlocksThere' = BlocksThere
  BY <1>1 DEF BlocksThere, pool, readout
<1>12. IInv'
  BY <1>1, <1>2, <1>4, <1>5, <1>7, <1>8, <1>9, <1>10, <1>11, SenderParts
<1>13. SendsTrue
  BY <1>1, <1>2, <1>4, <1>6, <1>7 DEF SendsTrue
<1>14. QED
  BY <1>12, <1>13

-----------------------------------------------------------------------------
(* THE SPECIFICATION                                                       *)

(* The steps of either reader, as the lemmas above take them.              *)
Configures ==
  \/ digitizer = "V1730" /\ ConfigureDataBuffer
  \/ digitizer = "V1740" /\ ConfigureDataBuffer1740

Queues ==
  \/ digitizer = "V1730" /\ QueueEvent
  \/ digitizer = "V1740" /\ QueueEvent1740

Reads ==
  \/ EnterGetData \/ LeaveRun
  \/ IRQWait \/ TakeBlock \/ PoolExhausted \/ ReadNothing
  \/ ReadEvent \/ ReadEvent1740 \/ ReadOversize
  \/ BadHeader \/ RedzoneThrows \/ RecordTimestamp \/ Queues

Fetches ==
  \/ GetNextBegin \/ GetNextEnd \/ ReadBlock \/ ReleaseBlock
  \/ LookupTimestamp \/ LookupTimestamp1740

(* Every step of the specification is one of them.                         *)
LEMMA StepKinds ==
  ASSUME Next1740
  PROVE  /\ UNCHANGED digitizer
         /\ Configures \/ Commands \/ Trigger \/ Reads \/ Fetches \/ Sends
<1>1. CASE As("V1730", Next)
  BY <1>1 DEF As, Next, Transitions, ReadoutThread, GetData, GetNext, Configures, Commands, Reads,
     Queues, Fetches, Sends
<1>2. CASE As("V1740", Trigger) \/ As("V1740", ConfigureDataBuffer1740)
           \/ As("V1740", StopNoMutex) \/ As("V1740", Transitions)
  BY <1>2 DEF As, Transitions, Configures, Commands
<1>3. CASE As("V1740", ReadoutThread1740)
  BY <1>3 DEF As, ReadoutThread1740, GetData1740, DropEvent1740, Reads, Queues
<1>4. CASE As("V1740", GetNext1740)
  BY <1>4 DEF As, GetNext1740, Fetches, Sends
<1>5. QED
  BY <1>1, <1>2, <1>3, <1>4 DEF Next1740

(* The invariant holds before start() and every step keeps it.             *)
LEMMA InitIInv ==
  Init1740 => IInv
<1> SUFFICES ASSUME Init1740 PROVE IInv
  OBVIOUS
<1> USE DEF Init1740, Init, W!Init
<1>1. /\ active = <<>> /\ Len(active) = 0 /\ Range(active) = {} /\ active \in Seq(Event)
      /\ board = <<>> /\ Len(board) = 0 /\ board \in Seq(Event)
      /\ free \in Seq(BOOLEAN) /\ timestampMap = <<>> /\ DOMAIN timestampMap = {}
      /\ Range(timestampMap) = {}
  BY DEF Range
<1>2. 0 \in 0 .. EventMask /\ FirstTrigger - 1 \in FirstTrigger - 1 .. LastTrigger
  BY Constants
<1>3. W!TypeOK
  <2>1. 0 \in 0 .. MaxStopAttempts
    BY V1730Assumption
  <2>2. QED
    BY <2>1 DEF W!TypeOK, W!Slot, W!Looping, W!Over
<1>4. Types
  <2>1. CommandOK /\ HardwareOK /\ PoolOK /\ MapOK
    BY <1>1, <1>2, Constants DEF CommandOK, HardwareOK, PoolOK, MapOK
  <2>2. ReadoutOK
    BY <1>2, Constants DEF ReadoutOK
  <2>3. SenderOK
    BY <1>2, Constants DEF SenderOK, NoEvent
  <2>4. QED
    BY <1>3, <2>1, <2>2, <2>3 DEF Types
<1>5. ThreadFollowsCommand
  BY DEF ThreadFollowsCommand, W!Slot, Finished, Stopped
<1>6. InHand /\ BlocksInOrder /\ NothingYet
  BY DEF InHand, BlocksInOrder, NothingYet
<1>7. Prior = FirstTrigger - 1 /\ Base = FirstTrigger - 1
  BY DEF Prior, Base
<1>8. Order
  <2>1. ActiveInOrder
    BY <1>1, <1>7, Constants DEF ActiveInOrder, Chained, At
  <2>2. SenderInOrder /\ BoardInOrder
    BY <1>1, Constants DEF SenderInOrder, BoardInOrder
  <2>3. QED
    BY <2>1, <2>2 DEF Order
<1>9. Pending = {}
  BY <1>1 DEF Pending
<1>10. MapTrue /\ GapsCounted /\ OverflowsCounted
  BY <1>1, <1>9, Constants DEF MapTrue, GapsCounted, OverflowsCounted
<1>11. QED
  BY <1>4, <1>5, <1>6, <1>8, <1>10, Parts

(* Every step of the specification keeps the invariant.                    *)
LEMMA NextIInv ==
  IInv /\ [Next1740]_vars1740 => IInv'
<1> SUFFICES ASSUME IInv, [Next1740]_vars1740 PROVE IInv'
  OBVIOUS
<1>1. CASE Next1740
  <2>1. UNCHANGED digitizer
    BY <1>1, StepKinds
  <2>2. CASE Configures
    BY <2>1, <2>2, ConfigureStep DEF Configures
  <2>3. CASE Commands
    BY <2>1, <2>3, CommandsStep
  <2>4. CASE Trigger
    BY <2>1, <2>4, TriggerStep
  <2>5. CASE Reads
    BY <2>1, <2>5, LoopStep, BlockStep, TakeStep, DropStep, RecordStep, QueueStep DEF Reads, Queues
  <2>6. CASE Fetches
    BY <2>1, <2>6, BetweenStep, ReadBlockStep, ReleaseStep, LookupStep DEF Fetches
  <2>7. CASE Sends
    BY <2>1, <2>7, SendStep
  <2>8. QED
    BY <1>1, <2>2, <2>3, <2>4, <2>5, <2>6, <2>7, StepKinds
<1>2. CASE UNCHANGED vars1740
  <2>1. UNCHANGED <<worker, hardware, command, pool, timestampMap, readout, sender, digitizer>>
    BY <1>2 DEF vars1740, vars
  <2>2. W!TypeOK' /\ CommandOK' /\ ThreadFollowsCommand'
    BY <2>1, ThreadUntouched, Parts DEF Types
  <2>3. HardwareOK' /\ PoolOK' /\ MapOK' /\ ReadoutOK' /\ SenderOK'
    BY <2>1, HardwareUntouched, PoolUntouched, MapUntouched, ReadoutUntouched, SenderUntouched,
       Parts DEF Types
  <2>4. InHand'
    BY <2>1, Parts DEF InHand, Calling, worker, readout, sender
  <2>5. BlocksInOrder'
    BY <2>1, Parts DEF BlocksInOrder, BlocksThere, worker, pool, readout, sender
  <2>6. NothingYet'
    BY <2>1, Parts DEF NothingYet, hardware, pool, readout, sender
  <2>7. Order' /\ MapTrue'
    BY <2>1, OrderUntouched, MapTrueUntouched, Parts DEF hardware, pool, readout, sender
  <2>8. GapsCounted' /\ OverflowsCounted'
    BY <2>1, GapsUntouched, OverflowsUntouched, Parts DEF readout, sender
  <2>9. Types'
    BY <2>2, <2>3 DEF Types
  <2>10. QED
    BY <2>2, <2>4, <2>5, <2>6, <2>7, <2>8, <2>9, PartsNext
<1>3. QED
  BY <1>1, <1>2

(* Nothing but sending a fragment touches the record of the last one.      *)
LEMMA OnlySends ==
  ASSUME [Next1740]_vars1740, ~Sends
  PROVE  UNCHANGED sent
<1>1. CASE UNCHANGED vars1740
  BY <1>1 DEF vars1740, vars, sender
<1>2. CASE Configures
  BY <1>2 DEF Configures, ConfigureDataBuffer, ConfigureDataBuffer1740
<1>3. CASE Commands
  BY <1>3 DEF Commands, StartThread, StopNoMutex, JoinThread, SWStopAcquisition, StopAgain, sender
<1>4. CASE Trigger
  BY <1>4 DEF Trigger, sender
<1>5. CASE Reads
  BY <1>5 DEF Reads, EnterGetData, LeaveRun, IRQWait, TakeBlock, PoolExhausted, ReadNothing,
     ReadEvent, ReadEvent1740, ReadOversize, BadHeader, RedzoneThrows, RecordTimestamp, Queues,
     QueueEvent, QueueEvent1740, sender
<1>6. CASE Fetches
  BY <1>6 DEF Fetches, GetNextBegin, GetNextEnd, ReadBlock, ReleaseBlock, LookupTimestamp,
     LookupTimestamp1740
<1>7. QED
  BY <1>1, <1>2, <1>3, <1>4, <1>5, <1>6, StepKinds

-----------------------------------------------------------------------------
(* THE THEOREMS                                                            *)

(* Every reachable state of either reader has its events in order, close   *)
(* together and with their timestamps, wherever they are on the way.       *)
THEOREM ReadoutInvariance ==
  Spec1740 => []IInv
<1>1. Init1740 => IInv
  BY InitIInv
<1>2. IInv /\ [Next1740]_vars1740 => IInv'
  BY NextIInv
<1>3. QED
  BY <1>1, <1>2, PTL DEF Spec1740

(* The map has the timestamps of exactly the events on their way to a      *)
(* fragment, so no lookup fails and the map cannot grow; no block is lost  *)
(* but with the thread that met a broken red zone; after stop() the thread *)
(* leaves the board alone; and the V1730's gaps add up to the triggers.    *)
ReadersInAgreement ==
  /\ TypeOK /\ TimestampsMatchEvents /\ BlocksAccounted /\ QuietAfterStop
  /\ digitizer = "V1730" => GapsCountTriggers

(* The inductive invariant contains them.                                  *)
LEMMA InvariantAgrees ==
  IInv => ReadersInAgreement
<1> SUFFICES ASSUME IInv PROVE ReadersInAgreement
  OBVIOUS
<1>1. TypeOK
  BY DEF IInv
<1>2. TimestampsMatchEvents
  BY DEF IInv, MapTrue, Pending, TimestampsMatchEvents
<1>3. BlocksAccounted
  BY DEF IInv, BlocksInOrder, BlocksThere, BlocksAccounted, W!Looping
<1>4. QuietAfterStop
  BY DEF IInv, ThreadFollowsCommand, Finished, InHand, Calling, QuietAfterStop
<1>5. digitizer = "V1730" => GapsCountTriggers
  BY DEF IInv, GapsCounted, GapsCountTriggers
<1>6. QED
  BY <1>1, <1>2, <1>3, <1>4, <1>5 DEF ReadersInAgreement

(* Every part of the readers' invariant that speaks of the state.          *)
THEOREM ReadersAgree ==
  Spec1740 => []ReadersInAgreement
BY ReadoutInvariance, InvariantAgrees, PTL

(* The invariant itself.  Whether the board is configured as the FHiCL     *)
(* file asks is the same in every state: TLC evaluates that conjunct, a    *)
(* fold over the calls of every configuration.                             *)
THEOREM ReadersInvariant ==
  ConfiguredAsAsked => (Spec1740 => []Inv1740)
<1> SUFFICES ASSUME ConfiguredAsAsked PROVE Spec1740 => []Inv1740
  OBVIOUS
<1>1. ReadersInAgreement => Inv1740
  BY DEF ReadersInAgreement, Inv1740
<1>2. QED
  BY <1>1, ReadersAgree, PTL

(* Fragments leave in trigger order, each at most once, with the time of   *)
(* their own trigger, and with a sequence ID that follows the trigger      *)
(* number across overflows of the counter, except where a V1740 missed the *)
(* one event that raises it.                                               *)
THEOREM FragmentsInOrder ==
  Spec1740 => FragmentsTrue1740
<1>1. IInv /\ [Next1740]_vars1740 => [sent' # sent => SendsTrue]_vars1740
  <2> SUFFICES ASSUME IInv, [Next1740]_vars1740, sent' # sent PROVE SendsTrue
    OBVIOUS
  <2>1. Sends
    BY OnlySends
  <2>2. UNCHANGED digitizer
    BY StepKinds DEF vars1740
  <2>3. QED
    BY <2>1, <2>2, SendStep
<1>2. QED
  BY <1>1, ReadoutInvariance, PTL DEF Spec1740, FragmentsTrue1740, SendsTrue
=============================================================================
