------------------------- MODULE TimeReadersProofs -------------------------
(***************************************************************************)
(* Proofs about WorkerThread, for every number of stop attempts, and about *)
(* TimeReaders.  A GPS or White Rabbit reader only ever moves its polling  *)
(* thread as WorkerThread allows, so that what is proved of any            *)
(* WorkerThread holds of the thread inside the reader, whose call loops by *)
(* itself and whose start() and stopAll() interleave with it.  Then, for   *)
(* rings of any size, what becomes of the messages.                        *)
(***************************************************************************)
EXTENDS TimeReaders, FiniteSetTheorems, TLAPS

-----------------------------------------------------------------------------
(* ANY WORKER THREAD                                                       *)

(* What makes the safety properties inductive: a run() that has left its   *)
(* loop has raised the flag, a run() that has not is the one the future    *)
(* refers to, and only the latest run() can still touch the flag.          *)
FlagFollowsRun ==
  /\ run["latest"] \in {"exiting", "done"} => stopRunning
  /\ run["latest"] = "none" => ~stopRunning
  /\ ctl = "stopping" => stopRunning
  /\ ctl = "assigning" => started
  /\ run["latest"] = "leaving" /\ stopRunning => ctl = "stopping"
  /\ ctl \in {"idle", "destroying"} /\ run["latest"] \in Looping \cup {"leaving"} =>
       futureValid

IInv == /\ TypeOK /\ StopQuiesces /\ OneRunAtATime /\ NoForeignStop
        /\ NoConsumedFuture /\ FlagFollowsRun

USE DEF Slot, Looping, Over

(* The constructed WorkerThread satisfies the invariant.                   *)
LEMMA InitIInv == Init => IInv
<1>1. Init => TypeOK
  <2>1. SUFFICES ASSUME Init PROVE TypeOK
    OBVIOUS
  <2>2. 0 \in 0 .. MaxStopAttempts
    BY AttemptsAssumption
  <2>3. run \in [Slot -> Looping \cup Over \cup {"leaving", "exiting"}]
    BY <2>1 DEF Init
  <2>4. QED
    BY <2>1, <2>2, <2>3 DEF Init, TypeOK
<1>2. Init => /\ StopQuiesces /\ OneRunAtATime /\ NoForeignStop
              /\ NoConsumedFuture /\ FlagFollowsRun
  BY DEF Init, StopQuiesces, OneRunAtATime, NoForeignStop, NoConsumedFuture, FlagFollowsRun
<1>3. QED
  BY <1>1, <1>2 DEF IInv

(* Every step of start(), stop() and the destructor preserves it.          *)
LEMMA ControllerIInv ==
  ASSUME IInv, StartLaunch \/ StopIgnored \/ StopRequest \/ DestroyBegin \/ Finish
  PROVE  IInv'
<1> USE DEF IInv, TypeOK, StopQuiesces, OneRunAtATime, NoForeignStop,
            NoConsumedFuture, FlagFollowsRun
<1>1. CASE StartLaunch
  <2>1. TypeOK'
    BY <1>1 DEF StartLaunch, TypeOK
  <2>2. StopQuiesces' /\ OneRunAtATime' /\ NoForeignStop' /\ NoConsumedFuture' /\ FlagFollowsRun'
    BY <1>1 DEF StartLaunch
  <2>3. QED
    BY <2>1, <2>2
<1>2. CASE StopIgnored
  <2>1. TypeOK'
    BY <1>2 DEF StopIgnored, TypeOK
  <2>2. StopQuiesces' /\ OneRunAtATime' /\ NoForeignStop' /\ NoConsumedFuture' /\ FlagFollowsRun'
    BY <1>2 DEF StopIgnored
  <2>3. QED
    BY <2>1, <2>2
<1>3. CASE StopRequest
  BY <1>3, AttemptsAssumption DEF StopRequest
<1>4. CASE DestroyBegin
  BY <1>4 DEF DestroyBegin
<1>5. CASE StartAssigned
  <2>1. TypeOK'
    BY <1>5 DEF StartAssigned, TypeOK
  <2>2. StopQuiesces' /\ OneRunAtATime' /\ NoForeignStop' /\ NoConsumedFuture' /\ FlagFollowsRun'
    BY <1>5 DEF StartAssigned
  <2>3. QED
    BY <2>1, <2>2
<1>6. CASE StopWaitMore
  BY <1>6, AttemptsAssumption DEF StopWaitMore
<1>7. CASE StopJoin
  <2>0. 0 \in 0 .. MaxStopAttempts
    BY AttemptsAssumption
  <2>1. TypeOK'
    BY <1>7, <2>0 DEF StopJoin, TypeOK
  <2>2. StopQuiesces' /\ OneRunAtATime' /\ NoForeignStop' /\ NoConsumedFuture' /\ FlagFollowsRun'
    BY <1>7 DEF StopJoin
  <2>3. QED
    BY <2>1, <2>2
<1>8. CASE DestroyEnd
  BY <1>8 DEF DestroyEnd
<1>9. QED
  BY <1>1, <1>2, <1>3, <1>4, <1>5, <1>6, <1>7, <1>8 DEF Finish

(* Every step of run(), of the latest launch or the one before, preserves  *)
(* it.                                                                     *)
LEMMA RunIInv ==
  ASSUME IInv, NEW s \in Slot, RunStep(s)
  PROVE  IInv'
<1> USE DEF IInv, TypeOK, StopQuiesces, OneRunAtATime, NoForeignStop,
            NoConsumedFuture, FlagFollowsRun, Move
<1>1. CASE RunCheck(s)
  BY <1>1 DEF RunCheck
<1>2. CASE CallReturns(s)
  BY <1>2 DEF CallReturns
<1>3. CASE NapOver(s)
  BY <1>3 DEF NapOver
<1>4. CASE CallThrows(s)
  BY <1>4 DEF CallThrows
<1>5. CASE RunEnds(s)
  BY <1>5 DEF RunEnds
<1>6. CASE RunExits(s)
  BY <1>6 DEF RunExits
<1>7. QED
  BY <1>1, <1>2, <1>3, <1>4, <1>5, <1>6 DEF RunStep

(* Every step of the two threads preserves it.                             *)
LEMMA NextIInv == IInv /\ [Next]_wtVars => IInv'
<1>1. SUFFICES ASSUME IInv, [Next]_wtVars PROVE IInv'
  OBVIOUS
<1>2. CASE UNCHANGED wtVars
  BY <1>1, <1>2 DEF wtVars, IInv, TypeOK, StopQuiesces, OneRunAtATime,
     NoForeignStop, NoConsumedFuture, FlagFollowsRun
<1>3. QED
  BY <1>1, <1>2, ControllerIInv, RunIInv DEF Next

(* The flag, the future and the two run() agree in every state the program *)
(* reaches, for any number of attempts of stop().                          *)
THEOREM WorkerInvariance == Spec => []IInv
  BY InitIInv, NextIInv, PTL DEF Spec

(* Two run() never poll the hardware at once, stop() waits only on a future*)
(* that is valid, and the variables the threads share keep their types.    *)
THEOREM ThreadsInOrder == Spec => []Inv
<1>1. IInv => Inv
  BY DEF IInv, Inv
<1>2. QED
  BY <1>1, WorkerInvariance, PTL

(* stop() leaves no functor call behind, whatever the functor did and      *)
(* however often stop() is called.                                         *)
THEOREM Quiescence == Spec => []StopQuiesces
<1>1. IInv => StopQuiesces
  BY DEF IInv
<1>2. QED
  BY <1>1, WorkerInvariance, PTL

(* The flag a finishing run() raises never stops the run() after it.       *)
THEOREM NoStaleFlag == Spec => []NoForeignStop
<1>1. IInv => NoForeignStop
  BY DEF IInv
<1>2. QED
  BY <1>1, WorkerInvariance, PTL

-----------------------------------------------------------------------------
(* THE THREAD OF A TIME READER                                             *)

(* The calls of getData() and the loop around them.                        *)
LEMMA CallStep ==
  ASSUME GetData \/ ReadFails \/ RunLoop
  PROVE  [Next]_wtVars
<1>1. CASE NotRunning \/ NoMessage \/ ReadFails
  <2>1. CallReturns("latest")
    BY <1>1 DEF NotRunning, NoMessage, ReadFails, CallReturns
  <2>2. QED
    BY <2>1 DEF Next, RunStep, Slot
<1>2. CASE TestRunning \/ ReceiveMessage \/ ReadStamp \/ KeepStamp
  <2>1. UNCHANGED wtVars
    BY <1>2 DEF TestRunning, ReceiveMessage, ReadStamp, KeepStamp
  <2>2. QED
    BY <2>1
<1>3. CASE RunLoop
  <2>1. RunStep("latest")
    BY <1>3 DEF RunLoop, RunStep
  <2>2. QED
    BY <2>1 DEF Next, Slot
<1>4. QED
  BY <1>1, <1>2, <1>3 DEF GetData

(* Every step of a reader is a step of its thread, or leaves it alone.     *)
LEMMA ReaderStepsThread == [NextReaders]_allVars => [Next]_wtVars
<1>1. CASE UNCHANGED allVars
  BY <1>1 DEF allVars
<1>2. CASE Issue \/ LowerRunning \/ Destroy \/ SetRunning \/ Joined \/ Stopped \/ GetNext
  <2>1. UNCHANGED wtVars
    BY <1>2 DEF Issue, LowerRunning, Destroy, SetRunning, Joined, Stopped, GetNext,
       GetNextBegin, FillFragment, NothingNew
  <2>2. QED
    BY <2>1
<1>3. CASE Launch \/ StopThread \/ Waits
  BY <1>3 DEF Launch, StopThread, Waits, Next
<1>4. CASE GetData \/ ReadFails \/ RunLoop
  BY <1>4, CallStep
<1>5. CASE reader = "other" /\ Next /\ UNCHANGED timeVars
  BY <1>5
<1>6. QED
  BY <1>1, <1>2, <1>3, <1>4, <1>5 DEF NextReaders, TimeNext, Transitions

(* Every reader, under any interleaving of the messages, the driver, the   *)
(* transitions and getNext_, keeps the invariant of its thread.            *)
THEOREM ReaderInvariance == SpecReaders => []IInv
<1>1. InitReaders => Init
  BY DEF InitReaders
<1>2. QED
  BY <1>1, InitIInv, NextIInv, ReaderStepsThread, PTL DEF SpecReaders

(* Two polling threads never read the device at once, and a stop waits     *)
(* only on a thread that there is.                                         *)
THEOREM ReaderThreadsInOrder == SpecReaders => []Inv
<1>1. IInv => Inv
  BY DEF IInv, Inv
<1>2. QED
  BY <1>1, ReaderInvariance, PTL

(* Once stopAll() has returned the thread touches the device no more.      *)
THEOREM ReaderQuiescence == SpecReaders => []StopQuiesces
<1>1. IInv => StopQuiesces
  BY DEF IInv
<1>2. QED
  BY <1>1, ReaderInvariance, PTL

(* The thread of a run is never ended by the flag of the run before it.    *)
THEOREM ReaderNoStaleFlag == SpecReaders => []NoForeignStop
<1>1. IInv => NoForeignStop
  BY DEF IInv
<1>2. QED
  BY <1>1, ReaderInvariance, PTL

-----------------------------------------------------------------------------
(* THE MESSAGES                                                            *)

(* What waits to be sent, whatever the order.                              *)
Waiting ==
  (IF reader = "GPS" THEN {buffer[k].n : k \in Slots} ELSE Range(buffer))
    \cup (IF getData = "lock" THEN {messageCounter} ELSE {})

ReadersTyped ==
  /\ TypeOKReaders /\ delivered \in Seq(Seq(Nat))
  /\ reader \in {"GPS", "WhiteRabbit", "other"}
  /\ getData = "lock" => reader = "WhiteRabbit" /\ messageCounter > 0

(* A message is in the slot of its number, until a whole ring of newer     *)
(* ones has come.                                                          *)
RingTrue ==
  reader = "GPS" => \A k \in Index :
    /\ buffer[k].unsent => buffer[k].n # 0
    /\ buffer[k].n # 0 =>
         /\ (buffer[k].n - 1) % BUFFER_SIZE = k
         /\ buffer[k].n <= messageCounter /\ messageCounter < buffer[k].n + BUFFER_SIZE

(* The vector is in order, and the stamp in hand comes next.               *)
VectorTrue ==
  reader # "GPS" =>
    /\ overwritten = {}
    /\ \A i, j \in DOMAIN buffer : i < j => buffer[i] < buffer[j]
    /\ \A i \in DOMAIN buffer :
         buffer[i] <= messageCounter /\ (getData = "lock" => buffer[i] < messageCounter)

(* What is sent was read before all that waits.                            *)
SentFirst == \A n \in AllDelivered, w \in Waiting : n < w

Everywhere ==
  /\ AllDelivered \cup Waiting \cup overwritten = 1 .. messageCounter
  /\ (AllDelivered \cup Waiting) \cap overwritten = {}
  /\ \A n \in overwritten : n + BUFFER_SIZE <= messageCounter

MessagesIInv ==
  /\ ReadersTyped /\ RingTrue /\ VectorTrue
  /\ SentFirst /\ Everywhere /\ SentOnce /\ MessagesInOrder
-----------------------------------------------------------------------------
(* Division with remainder, and numbers with the same remainder.           *)
LEMMA Division ==
  ASSUME NEW n \in Int
  PROVE  /\ n \div BUFFER_SIZE \in Int /\ n % BUFFER_SIZE \in Index
         /\ n = BUFFER_SIZE * (n \div BUFFER_SIZE) + (n % BUFFER_SIZE)
BY TimeReadersAssumption DEF Index

(* A multiple of the ring between 0 and two rings is one ring.             *)
LEMMA BetweenMultiples ==
  ASSUME NEW k \in Int
  PROVE  /\ -BUFFER_SIZE < BUFFER_SIZE * k => k >= 0
         /\ BUFFER_SIZE * k < BUFFER_SIZE => k <= 0
         /\ BUFFER_SIZE * k < 2 * BUFFER_SIZE => k <= 1
<1>1. BUFFER_SIZE \in Nat /\ BUFFER_SIZE > 0
  BY TimeReadersAssumption
<1>2. k <= -1 => BUFFER_SIZE * k <= -BUFFER_SIZE
  BY <1>1
<1>3. k >= 1 => BUFFER_SIZE * k >= BUFFER_SIZE
  BY <1>1
<1>4. k >= 2 => BUFFER_SIZE * k >= 2 * BUFFER_SIZE
  BY <1>1
<1> DEFINE m == BUFFER_SIZE * k
<1>5. m \in Int
  BY <1>1
<1> HIDE DEF m
<1>6. k <= -1 => m <= -BUFFER_SIZE
  BY <1>2 DEF m
<1>7. (k >= 1 => m >= BUFFER_SIZE) /\ (k >= 2 => m >= 2 * BUFFER_SIZE)
  BY <1>3, <1>4 DEF m
<1>8. QED
  BY <1>1, <1>5, <1>6, <1>7 DEF m

(* Messages less than a ring apart: with the same slot they are the same,  *)
(* and a later message in an earlier slot is of the next lap.              *)
LEMMA LapOfSlot ==
  ASSUME NEW m \in Int, NEW n \in Int, m <= n, n < m + BUFFER_SIZE
  PROVE  /\ (m - 1) % BUFFER_SIZE = (n - 1) % BUFFER_SIZE => m = n
         /\ (n - 1) % BUFFER_SIZE < (m - 1) % BUFFER_SIZE => Lap(n) = Lap(m) + 1
<1> DEFINE B == BUFFER_SIZE
           a == (m - 1) % BUFFER_SIZE
           b == (n - 1) % BUFFER_SIZE
           k == Lap(n) - Lap(m)
<1>1. B \in Nat /\ B > 0
  BY TimeReadersAssumption
<1>2. /\ Lap(m) \in Int /\ a \in 0 .. B - 1 /\ m - 1 = B * Lap(m) + a
      /\ Lap(n) \in Int /\ b \in 0 .. B - 1 /\ n - 1 = B * Lap(n) + b
  BY Division DEF Lap, Index
<1>3. k \in Int
  BY <1>2
<1>4. B * k = B * Lap(n) - B * Lap(m)
  BY <1>1, <1>2
<1>5. Lap(n) = Lap(m) + k
  BY <1>2
<1> DEFINE p == B * Lap(m)
           q == B * Lap(n)
<1>6. p \in Int /\ q \in Int
  BY <1>1, <1>2
<1> HIDE DEF a, b, k, p, q
<1>7. m - 1 = p + a /\ n - 1 = q + b /\ B * k = q - p
  BY <1>2, <1>4 DEF p, q
<1>8. B * k = n - m + a - b
  BY <1>2, <1>6, <1>7
<1>9. a = b => m = n
  <2>1. a = b => B * k = n - m
    BY <1>2, <1>8
  <2>2. a = b => k = 0
    BY <1>1, <1>3, <2>1, BetweenMultiples
  <2>3. B * 0 = 0
    BY <1>1
  <2>4. QED
    BY <2>1, <2>2, <2>3
<1>10. b < a => k = 1
  <2>1. b < a => 0 < B * k /\ B * k < 2 * B
    BY <1>1, <1>2, <1>8
  <2>2. B * 0 = 0
    BY <1>1
  <2>3. b < a => k >= 0 /\ k <= 1 /\ k # 0
    BY <1>1, <1>3, <2>1, <2>2, BetweenMultiples
  <2>4. QED
    BY <1>3, <2>3
<1>11. QED
  BY <1>5, <1>9, <1>10 DEF a, b

-----------------------------------------------------------------------------
(* The order of the slots                                                  *)

(* The ranks of the slots with something to send are 1, 2, ... up to their *)
(* number: FillFragment meets each of them once, in the order of the ring. *)
LEMMA Ranks ==
  /\ IsFiniteSet(Slots) /\ Cardinality(Slots) \in Nat /\ Slots \subseteq Int
  /\ \A k \in Slots : Rank(k) \in 1 .. Cardinality(Slots)
  /\ \A j, k \in Slots : j < k => Rank(j) < Rank(k)
  /\ \A p \in 1 .. Cardinality(Slots) : \E k \in Slots : Rank(k) = p
<1> DEFINE Upto(k) == {j \in Slots : j <= k}
           n == Cardinality(Slots)
<1>1. IsFiniteSet(Slots) /\ n \in Nat /\ Slots \subseteq Int
  <2>1. IsFiniteSet(Index)
    BY FS_Interval, TimeReadersAssumption DEF Index
  <2>2. Slots \in SUBSET Index
    BY DEF Slots
  <2>3. IsFiniteSet(Slots)
    BY <2>1, <2>2, FS_Subset
  <2>4. QED
    BY <2>2, <2>3, FS_CardinalityType, TimeReadersAssumption DEF Index
<1>2. ASSUME NEW k \in Slots
      PROVE  IsFiniteSet(Upto(k)) /\ Rank(k) = Cardinality(Upto(k)) /\ Rank(k) \in 1 .. n
  <2>1. Upto(k) \in SUBSET Slots /\ k \in Upto(k)
    BY <1>1
  <2>2. Rank(k) = Cardinality(Upto(k))
    BY DEF Rank
  <2> HIDE DEF Upto
  <2>3. IsFiniteSet(Upto(k)) /\ Cardinality(Upto(k)) <= n /\ Cardinality(Upto(k)) \in Nat
    BY <1>1, <2>1, FS_Subset, FS_CardinalityType
  <2>4. Cardinality(Upto(k)) # 0
    BY <2>1, <2>3, FS_EmptySet
  <2>5. QED
    BY <1>1, <2>2, <2>3, <2>4
<1>3. ASSUME NEW j \in Slots, NEW k \in Slots, j < k
      PROVE  Rank(j) < Rank(k)
  <2>0. j \in Int /\ k \in Int /\ \A i \in Slots : i \in Int
    BY <1>1
  <2>1. Upto(j) \in SUBSET Upto(k) /\ k \in Upto(k) /\ k \notin Upto(j)
    <3>1. ASSUME NEW i \in Upto(j) PROVE i \in Upto(k)
      BY <1>3, <2>0
    <3>2. k \in Upto(k) /\ ~(k <= j)
      BY <1>3, <2>0
    <3>3. QED
      BY <3>1, <3>2
  <2> HIDE DEF Upto
  <2>2. Cardinality(Upto(j)) <= Cardinality(Upto(k)) /\ Cardinality(Upto(k)) # Cardinality(Upto(j))
    BY <1>2, <2>1, FS_Subset
  <2>3. QED
    BY <1>1, <1>2, <2>2
<1> HIDE DEF Upto, n
<1>4. ASSUME NEW p \in 1 .. n PROVE \E k \in Slots : Rank(k) = p
  <2> DEFINE f == [k \in Slots |-> Rank(k)]
  <2>1. f \in [Slots -> 1 .. n]
    BY <1>2
  <2>2. \A j, k \in Slots : f[j] = f[k] => j = k
    <3>1. \A j, k \in Slots : j # k => Rank(j) # Rank(k)
      BY <1>1, <1>2, <1>3
    <3>2. QED
      BY <3>1
  <2>3. f \in Injection(Slots, 1 .. n)
    BY <2>1, <2>2 DEF Injection, IsInjective
  <2>4. IsFiniteSet(1 .. n) /\ Cardinality(1 .. n) = n
    BY <1>1, FS_Interval
  <2>5. f \in Surjection(Slots, 1 .. n)
    BY <2>3, <2>4, FS_Injection DEF n
  <2>6. QED
    BY <2>5 DEF Surjection
<1>5. QED
  BY <1>1, <1>2, <1>3, <1>4 DEF n

(* FillFragment sends what waits in the ring, in the order of the slots.   *)
LEMMA RingOrder ==
  ASSUME reader = "GPS", ReadersTyped
  PROVE  /\ Unsent \in Seq(Nat)
         /\ Range(Unsent) = {buffer[k].n : k \in Slots}
         /\ \A p \in DOMAIN Unsent : \E k \in Slots :
              Unsent[p] = buffer[k].n /\ Rank(k) = p
         /\ (Unsent = <<>>) = (Slots = {})
<1> DEFINE n == Cardinality(Slots)
           slot(p) == CHOOSE k \in Slots : Rank(k) = p
<1>1. n \in Nat /\ \A k \in Slots : Rank(k) \in 1 .. n
  BY Ranks
<1>2. ASSUME NEW p \in 1 .. n PROVE slot(p) \in Slots /\ Rank(slot(p)) = p
  BY Ranks
<1>3. Unsent = [p \in 1 .. n |-> buffer[slot(p)].n]
  BY DEF Unsent, InSlotOrder
<1>4. ASSUME NEW k \in Slots PROVE slot(Rank(k)) = k
  <2>1. slot(Rank(k)) \in Slots /\ Rank(slot(Rank(k))) = Rank(k)
    BY <1>1, <1>2
  <2>2. \A j \in Slots : j # k => Rank(j) # Rank(k)
    <3>1. ASSUME NEW j \in Slots, j # k PROVE Rank(j) # Rank(k)
      <4>1. j < k \/ k < j
        BY <3>1, Ranks
      <4>2. Rank(j) < Rank(k) \/ Rank(k) < Rank(j)
        BY <3>1, <4>1, Ranks
      <4>3. Rank(j) \in Int /\ Rank(k) \in Int
        BY <1>1
      <4>4. QED
        BY <4>2, <4>3
    <3>2. QED
      BY <3>1
  <2>3. QED
    BY <2>1, <2>2
<1> HIDE DEF n, slot
<1>5. \A k \in Slots : buffer[k].n \in Nat
  BY DEF ReadersTyped, TypeOKReaders, Slots
<1>6. Unsent \in Seq(Nat) /\ DOMAIN Unsent = 1 .. n /\ Len(Unsent) = n
  BY <1>1, <1>2, <1>3, <1>5
<1>7. \A p \in DOMAIN Unsent : \E k \in Slots : Unsent[p] = buffer[k].n /\ Rank(k) = p
  BY <1>2, <1>3, <1>6
<1>8. Range(Unsent) = {buffer[k].n : k \in Slots}
  <2>1. Range(Unsent) \subseteq {buffer[k].n : k \in Slots}
    BY <1>7 DEF Range
  <2>2. ASSUME NEW k \in Slots PROVE buffer[k].n \in Range(Unsent)
    <3>1. Rank(k) \in DOMAIN Unsent
      BY <1>1, <1>6
    <3>2. Unsent[Rank(k)] = buffer[k].n
      BY <1>3, <1>4, <1>6, <3>1
    <3>3. QED
      BY <3>1, <3>2 DEF Range
  <2>3. QED
    BY <2>1, <2>2
<1>9. (Unsent = <<>>) = (Slots = {})
  <2>1. (Unsent = <<>>) = (n = 0)
    BY <1>1, <1>6
  <2>2. (n = 0) = (Slots = {})
    BY Ranks, FS_EmptySet DEF n
  <2>3. QED
    BY <2>1, <2>2
<1>10. QED
  BY <1>6, <1>7, <1>8, <1>9

(* So what the properties call held is what waits.                         *)
LEMMA HeldWaits == ReadersTyped => Held = Waiting
  BY RingOrder DEF Held, Waiting, Unsent
-----------------------------------------------------------------------------
(* THE STEPS                                                               *)

(* A whole ring later the slot is the same.                                *)
LEMMA RingRound ==
  ASSUME NEW m \in Int
  PROVE  (m + BUFFER_SIZE - 1) % BUFFER_SIZE = (m - 1) % BUFFER_SIZE
<1> DEFINE B == BUFFER_SIZE
           n == m + B
           a == (m - 1) % B
           b == (n - 1) % B
           k == Lap(n) - Lap(m)
<1>1. B \in Nat /\ B > 0 /\ n \in Int
  BY TimeReadersAssumption
<1> DEFINE p == B * Lap(m)
           q == B * Lap(n)
<1> HIDE DEF n
<1>2. /\ Lap(m) \in Int /\ a \in 0 .. B - 1 /\ m - 1 = p + a
      /\ Lap(n) \in Int /\ b \in 0 .. B - 1 /\ n - 1 = q + b
  BY <1>1, Division DEF Lap, Index
<1>3. k \in Int /\ B * k = q - p /\ p \in Int /\ q \in Int
  BY <1>1, <1>2
<1> HIDE DEF a, b, k, p, q
<1>4. B * k = B + a - b
  BY <1>1, <1>2, <1>3 DEF n
<1>5. 0 < B * k /\ B * k < 2 * B
  BY <1>1, <1>2, <1>4
<1>6. k >= 0 /\ k <= 1
  BY <1>1, <1>3, <1>5, BetweenMultiples
<1>7. k # 0
  <2>1. B * 0 = 0
    BY <1>1
  <2>2. QED
    BY <1>5, <2>1
<1>8. B * 1 = B
  BY <1>1
<1>9. a = b
  BY <1>1, <1>2, <1>3, <1>4, <1>6, <1>7, <1>8
<1>10. QED
  BY <1>1, <1>9 DEF a, b, n

(* What FillFragment sends has no message twice, and is in order but for   *)
(* what lies on both sides of the ring's end.                              *)
LEMMA UnsentInOrder ==
  ASSUME MessagesIInv
  PROVE  /\ Unsent \in Seq(Nat) /\ Range(Unsent) \subseteq Waiting
         /\ \A i, j \in DOMAIN Unsent : i < j =>
              /\ Unsent[i] # Unsent[j]
              /\ Unsent[i] > Unsent[j] =>
                   reader = "GPS" /\ Lap(Unsent[i]) = Lap(Unsent[j]) + 1
<1>1. ReadersTyped /\ RingTrue /\ VectorTrue
  BY DEF MessagesIInv
<1>2. CASE reader = "GPS"
  <2>1. /\ Unsent \in Seq(Nat) /\ Range(Unsent) = {buffer[k].n : k \in Slots}
        /\ \A p \in DOMAIN Unsent : \E k \in Slots : Unsent[p] = buffer[k].n /\ Rank(k) = p
    BY <1>1, <1>2, RingOrder
  <2>2. ASSUME NEW k \in Slots
        PROVE  /\ buffer[k].n \in Nat /\ (buffer[k].n - 1) % BUFFER_SIZE = k
               /\ buffer[k].n <= messageCounter /\ messageCounter < buffer[k].n + BUFFER_SIZE
    BY <1>1, <1>2 DEF RingTrue, Slots, ReadersTyped, TypeOKReaders
  <2>3. ASSUME NEW i \in DOMAIN Unsent, NEW j \in DOMAIN Unsent, i < j
        PROVE  /\ Unsent[i] # Unsent[j]
               /\ Unsent[i] > Unsent[j] => Lap(Unsent[i]) = Lap(Unsent[j]) + 1
    <3>1. PICK k \in Slots : Unsent[i] = buffer[k].n /\ Rank(k) = i
      BY <2>1
    <3>2. PICK l \in Slots : Unsent[j] = buffer[l].n /\ Rank(l) = j
      BY <2>1
    <3>3. k < l
      <4>1. k \in Int /\ l \in Int /\ Rank(k) < Rank(l)
        BY <2>3, <3>1, <3>2, Ranks
      <4>2. Rank(k) \in Int /\ Rank(l) \in Int
        BY Ranks
      <4>3. l < k => Rank(l) < Rank(k)
        BY Ranks
      <4>4. l # k
        BY <4>1, <4>2
      <4>5. QED
        BY <4>1, <4>2, <4>3, <4>4
    <3> DEFINE m == buffer[k].n
               n == buffer[l].n
    <3>4. /\ m \in Nat /\ (m - 1) % BUFFER_SIZE = k /\ m <= messageCounter
          /\ n \in Nat /\ (n - 1) % BUFFER_SIZE = l /\ messageCounter < n + BUFFER_SIZE
      BY <2>2
    <3> HIDE DEF m, n
    <3>5. messageCounter \in Int /\ k \in Int /\ l \in Int /\ BUFFER_SIZE \in Int
      BY <1>1, Ranks, TimeReadersAssumption DEF ReadersTyped, TypeOKReaders
    <3>6. m # n
      BY <3>3, <3>4, <3>5
    <3>7. m > n => Lap(m) = Lap(n) + 1
      BY <3>3, <3>4, <3>5, LapOfSlot
    <3>8. QED
      BY <3>1, <3>2, <3>6, <3>7 DEF m, n
  <2>4. QED
    BY <1>2, <2>1, <2>3 DEF Waiting
<1>3. CASE reader # "GPS"
  <2>1. Unsent = buffer /\ buffer \in Seq(1 .. MaxMessages)
    BY <1>1, <1>3 DEF Unsent, ReadersTyped, TypeOKReaders
  <2>2. \A i \in DOMAIN buffer : buffer[i] \in Nat
    BY <2>1, TimeReadersAssumption
  <2>3. buffer \in Seq(Nat)
    BY <2>1, <2>2
  <2>4. \A i, j \in DOMAIN buffer : i < j => buffer[i] < buffer[j]
    BY <1>1, <1>3 DEF VectorTrue
  <2>5. QED
    BY <1>3, <2>1, <2>2, <2>3, <2>4 DEF Waiting
<1>4. QED
  BY <1>2, <1>3

(* One call more: what was sent, and what it sends.                        *)
LEMMA OneCallMore ==
  ASSUME NEW u \in Seq(Nat), delivered \in Seq(Seq(Nat)), delivered' = Append(delivered, u),
         reader' = reader, SentOnce, MessagesInOrder,
         \A n \in AllDelivered, w \in Range(u) : n < w,
         \A i, j \in DOMAIN u : i < j =>
           /\ u[i] # u[j]
           /\ u[i] > u[j] => reader = "GPS" /\ Lap(u[i]) = Lap(u[j]) + 1
  PROVE  /\ AllDelivered' = AllDelivered \cup Range(u)
         /\ SentOnce' /\ MessagesInOrder' /\ delivered' \in Seq(Seq(Nat))
<1> DEFINE s == delivered
           t == delivered'
           z == Len(s) + 1
<1>1. /\ Len(s) \in Nat /\ DOMAIN s = 1 .. Len(s) /\ DOMAIN t = 1 .. z
      /\ t[z] = u /\ \A c \in 1 .. Len(s) : t[c] = s[c]
      /\ t \in Seq(Seq(Nat)) /\ \A c \in DOMAIN t : t[c] \in Seq(Nat)
  OBVIOUS
<1> HIDE DEF s, t, z
<1>2. z = Len(s) + 1 /\ z \notin DOMAIN s /\ DOMAIN t = DOMAIN s \cup {z}
  BY <1>1 DEF z
<1>3. AllDelivered' = AllDelivered \cup Range(u)
  <2>1. AllDelivered = UNION {Range(s[c]) : c \in DOMAIN s}
    BY DEF AllDelivered, s
  <2>2. AllDelivered' = UNION {Range(t[c]) : c \in DOMAIN t}
    BY DEF AllDelivered, t
  <2>3. QED
    BY <1>1, <1>2, <2>1, <2>2
<1>4. ASSUME NEW c \in DOMAIN s, NEW i \in DOMAIN s[c]
      PROVE  s[c][i] \in AllDelivered /\ s[c][i] \in Nat
  <2>1. s[c] \in Seq(Nat) /\ s[c][i] \in Range(s[c])
    BY <1>1 DEF s, Range
  <2>2. QED
    BY <2>1 DEF AllDelivered, s
<1>5. \A i \in DOMAIN u : u[i] \in Range(u) /\ u[i] \in Nat /\ i \in Int
  BY DEF Range
<1>6. ASSUME NEW c \in DOMAIN t, NEW d \in DOMAIN t, NEW i \in DOMAIN t[c], NEW j \in DOMAIN t[d]
      PROVE  /\ t[c][i] = t[d][j] => c = d /\ i = j
             /\ (c < d \/ (c = d /\ i < j)) /\ t[c][i] > t[d][j] =>
                  c = d /\ reader = "GPS" /\ Lap(t[c][i]) = Lap(t[d][j]) + 1
  <2>1. CASE c \in DOMAIN s /\ d \in DOMAIN s
    <3>1. t[c] = s[c] /\ t[d] = s[d]
      BY <1>1, <2>1
    <3>2. /\ s[c][i] = s[d][j] => c = d /\ i = j
          /\ (c < d \/ (c = d /\ i < j)) /\ s[c][i] > s[d][j] =>
                  c = d /\ reader = "GPS" /\ Lap(s[c][i]) = Lap(s[d][j]) + 1
      BY <1>6, <2>1, <3>1 DEF SentOnce, MessagesInOrder, s
    <3>3. QED
      BY <3>1, <3>2
  <2>2. CASE c \in DOMAIN s /\ d = z
    <3>1. t[c] = s[c] /\ t[d] = u
      BY <1>1, <2>2
    <3>2. s[c][i] < u[j] /\ s[c][i] \in Nat /\ u[j] \in Nat
      BY <1>4, <1>5, <1>6, <2>2, <3>1
    <3>3. QED
      BY <3>1, <3>2
  <2>3. CASE c = z /\ d \in DOMAIN s
    <3>1. t[c] = u /\ t[d] = s[d]
      BY <1>1, <2>3
    <3>2. s[d][j] < u[i] /\ s[d][j] \in Nat /\ u[i] \in Nat
      BY <1>4, <1>5, <1>6, <2>3, <3>1
    <3>3. d < c
      BY <1>1, <1>2, <2>3
    <3>4. d \in Int /\ c \in Int
      BY <1>1, <1>2, <2>3
    <3>5. QED
      BY <3>1, <3>2, <3>3, <3>4
  <2>4. CASE c = z /\ d = z
    <3>1. t[c] = u /\ t[d] = u /\ i \in DOMAIN u /\ j \in DOMAIN u
      BY <1>1, <2>4
    <3>2. i < j \/ j < i \/ i = j
      BY <1>5, <3>1
    <3>3. z \in Int
      BY <1>1, <1>2
    <3>4. u[i] = u[j] => i = j
      BY <1>5, <3>1, <3>2
    <3>5. QED
      BY <2>4, <3>1, <3>3, <3>4
  <2>5. QED
    BY <1>2, <2>1, <2>2, <2>3, <2>4
<1>7. SentOnce'
  BY <1>6 DEF SentOnce, t
<1>8. MessagesInOrder'
  <2>1. \A c, d \in DOMAIN t : \A i \in DOMAIN t[c], j \in DOMAIN t[d] :
          (c < d \/ (c = d /\ i < j)) /\ t[c][i] > t[d][j] =>
                  c = d /\ reader' = "GPS" /\ Lap(t[c][i]) = Lap(t[d][j]) + 1
    BY <1>6
  <2>2. QED
    BY <2>1 DEF MessagesInOrder, t, Lap
<1>9. QED
  BY <1>1, <1>3, <1>7, <1>8 DEF t
(* Steps that move no message.                                             *)
LEMMA QuietSteps ==
  ASSUME MessagesIInv,
         UNCHANGED <<reader, messageCounter, buffer, delivered, overwritten>>,
         (getData' = "lock") = (getData = "lock"), TypeOKReaders'
  PROVE  MessagesIInv'
<1>1. ReadersTyped'
  BY DEF MessagesIInv, ReadersTyped
<1>2. Waiting' = Waiting /\ AllDelivered' = AllDelivered
  BY DEF Waiting, AllDelivered, Slots
<1>3. RingTrue' /\ VectorTrue'
  BY DEF MessagesIInv, RingTrue, VectorTrue
<1>4. SentFirst' /\ Everywhere'
  BY <1>2 DEF MessagesIInv, SentFirst, Everywhere
<1>5. SentOnce' /\ MessagesInOrder'
  BY DEF MessagesIInv, SentOnce, MessagesInOrder
<1>6. QED
  BY <1>1, <1>3, <1>4, <1>5 DEF MessagesIInv

(* The next message goes to the slot after the last one's; what it finds   *)
(* there is a whole ring older.                                            *)
LEMMA ReceiveMessageStep ==
  ASSUME MessagesIInv, ReceiveMessage
  PROVE  MessagesIInv'
<1> DEFINE B == BUFFER_SIZE
           m == messageCounter
           ptr == m % B
           gone == IF buffer[ptr].unsent THEN {buffer[ptr].n} ELSE {}
<1>1. /\ reader = "GPS" /\ getData = "read" /\ issued > m
      /\ messageCounter' = m + 1
      /\ buffer' = [buffer EXCEPT ![ptr] = [n |-> m + 1, unsent |-> TRUE]]
      /\ overwritten' = overwritten \cup gone
      /\ getData' = "test"
      /\ UNCHANGED <<reader, command, running, issued, gn, delivered>>
  BY DEF ReceiveMessage, generator, control
<1>2. ReadersTyped /\ RingTrue /\ SentFirst /\ Everywhere /\ SentOnce /\ MessagesInOrder
  BY DEF MessagesIInv
<1>3. /\ B \in Nat /\ B > 0 /\ MaxMessages \in Nat /\ m \in Nat /\ issued \in 0 .. MaxMessages
      /\ m + 1 \in 1 .. MaxMessages /\ m + 1 \in 0 .. issued
      /\ buffer \in [Index -> [n : 0 .. MaxMessages, unsent : BOOLEAN]]
  BY <1>1, <1>2, TimeReadersAssumption DEF ReadersTyped, TypeOKReaders
<1>4. ptr \in Index
  BY <1>3, Division
<1> HIDE DEF m, ptr, gone
<1>5. /\ buffer' \in [Index -> [n : 0 .. MaxMessages, unsent : BOOLEAN]]
      /\ buffer'[ptr] = [n |-> m + 1, unsent |-> TRUE]
      /\ \A k \in Index \ {ptr} : buffer'[k] = buffer[k]
  <2>1. [n |-> m + 1, unsent |-> TRUE] \in [n : 0 .. MaxMessages, unsent : BOOLEAN]
    BY <1>3
  <2>2. QED
    BY <1>1, <1>3, <1>4, <2>1
<1>6. ASSUME NEW k \in Index, buffer[k].n # 0
      PROVE  /\ buffer[k].n \in Nat /\ (buffer[k].n - 1) % B = k
             /\ buffer[k].n <= m /\ m < buffer[k].n + B
  BY <1>1, <1>2, <1>3, <1>6 DEF RingTrue, m
<1>7. \A k \in Index : buffer[k].unsent => buffer[k].n # 0
  BY <1>1, <1>2 DEF RingTrue
<1>8. ASSUME NEW n \in gone PROVE n \in 1 .. m /\ n + B <= m + 1 /\ n = buffer[ptr].n /\ n \in Waiting
  <2>1. n = buffer[ptr].n /\ buffer[ptr].unsent /\ ptr \in Slots
    BY <1>4, <1>8 DEF gone, Slots
  <2>2. n \in Nat /\ n # 0 /\ (n - 1) % B = ptr /\ n <= m /\ m < n + B
    BY <1>4, <1>6, <1>7, <2>1
  <2>3. ((m + 1) - 1) % B = ptr
    BY <1>3 DEF ptr
  <2>4. ~(m + 1 < n + B)
    <3> SUFFICES ASSUME m + 1 < n + B PROVE FALSE
      OBVIOUS
    <3> DEFINE z == m + 1
    <3>1. z \in Int /\ n \in Int /\ n <= z /\ z < n + B /\ (z - 1) % B = (n - 1) % B
      BY <1>3, <2>2, <2>3
    <3> HIDE DEF z
    <3>2. n = z
      BY <3>1, LapOfSlot
    <3>3. QED
      BY <1>3, <2>2, <3>2 DEF z
  <2>5. n \in Waiting
    BY <1>1, <2>1 DEF Waiting
  <2>6. QED
    BY <1>3, <2>1, <2>2, <2>4, <2>5
<1>9. ReadersTyped'
  <2>1. overwritten' \subseteq 1 .. MaxMessages
    <3>1. overwritten \subseteq 1 .. MaxMessages
      BY <1>2 DEF ReadersTyped, TypeOKReaders
    <3>2. gone \subseteq 1 .. MaxMessages
      BY <1>3, <1>8
    <3>3. QED
      BY <1>1, <3>1, <3>2
  <2>2. QED
    BY <1>1, <1>2, <1>3, <1>5, <2>1 DEF ReadersTyped, TypeOKReaders
<1>10. RingTrue'
  <2> SUFFICES ASSUME NEW k \in Index
      PROVE  /\ buffer'[k].unsent => buffer'[k].n # 0
             /\ buffer'[k].n # 0 =>
                  /\ (buffer'[k].n - 1) % B = k
                  /\ buffer'[k].n <= m + 1 /\ m + 1 < buffer'[k].n + B
    BY <1>1 DEF RingTrue
  <2>1. CASE k = ptr
    <3>1. ((m + 1) - 1) % B = ptr
      BY <1>3 DEF ptr
    <3>2. QED
      BY <1>3, <1>5, <2>1, <3>1
  <2>2. CASE k # ptr
    <3>1. buffer'[k] = buffer[k]
      BY <1>5, <2>2
    <3>2. ASSUME buffer[k].n # 0 PROVE m + 1 < buffer[k].n + B
      <4> DEFINE n == buffer[k].n
      <4>1. n \in Nat /\ (n - 1) % B = k /\ m < n + B
        BY <1>6, <3>2
      <4> HIDE DEF n
      <4>2. CASE m + 1 = n + B
        <5>1. (n + B - 1) % B = k
          BY <4>1, RingRound
        <5>2. n + B - 1 = m
          BY <1>3, <4>1, <4>2
        <5>3. QED
          BY <2>2, <5>1, <5>2 DEF ptr
      <4>3. QED
        BY <1>3, <4>1, <4>2 DEF n
    <3>3. QED
      BY <1>3, <1>6, <1>7, <3>1, <3>2
  <2>3. QED
    BY <2>1, <2>2
<1>11. Waiting' = (Waiting \ gone) \cup {m + 1}
  <2>1. Slots' = Slots \cup {ptr}
    BY <1>4, <1>5 DEF Slots
  <2>2. Waiting = {buffer[k].n : k \in Slots}
    BY <1>1 DEF Waiting
  <2>3. Waiting' = {buffer'[k].n : k \in Slots \cup {ptr}}
    BY <1>1, <2>1 DEF Waiting
  <2>4. \A k \in Slots : k \in Index
    BY DEF Slots
  <2>5. ASSUME NEW n \in Waiting' PROVE n \in (Waiting \ gone) \cup {m + 1}
    <3>1. PICK k \in Slots \cup {ptr} : n = buffer'[k].n
      BY <2>3, <2>5
    <3>2. CASE k = ptr
      BY <1>5, <3>1, <3>2
    <3>3. CASE k # ptr
      <4>1. n = buffer[k].n /\ k \in Slots /\ k \in Index /\ buffer[k].n # 0
        BY <1>5, <1>7, <2>4, <3>1, <3>3 DEF Slots
      <4>2. n \in Waiting
        BY <2>2, <4>1
      <4>3. n \notin gone
        <5>1. (n - 1) % B = k
          BY <1>6, <4>1
        <5>2. n \in gone => n = buffer[ptr].n /\ n # 0
          BY <1>3, <1>8
        <5>3. n \in gone => (n - 1) % B = ptr
          BY <1>4, <1>6, <5>2
        <5>4. QED
          BY <3>3, <5>1, <5>3
      <4>4. QED
        BY <4>2, <4>3
    <3>4. QED
      BY <3>2, <3>3
  <2>6. ASSUME NEW n \in Waiting, n \notin gone PROVE n \in Waiting'
    <3>1. PICK k \in Slots : n = buffer[k].n
      BY <2>2, <2>6
    <3>2. k # ptr
      BY <2>6, <3>1 DEF gone, Slots
    <3>3. n = buffer'[k].n
      BY <1>5, <2>4, <3>1, <3>2
    <3>4. QED
      BY <2>3, <3>3
  <2>7. m + 1 \in Waiting'
    BY <1>5, <2>3
  <2>8. QED
    BY <2>5, <2>6, <2>7
<1>12. AllDelivered' = AllDelivered
  BY <1>1 DEF AllDelivered
<1>13. AllDelivered \cup Waiting \cup overwritten = 1 .. m
       /\ (AllDelivered \cup Waiting) \cap overwritten = {}
       /\ \A n \in overwritten : n + B <= m
  BY <1>2 DEF Everywhere, m
<1>14. \A n \in AllDelivered, w \in Waiting : n < w
  BY <1>2 DEF SentFirst
<1>15. SentFirst'
  <2>1. \A n \in AllDelivered : n < m + 1
    BY <1>3, <1>13
  <2>2. QED
    BY <1>11, <1>12, <1>14, <2>1 DEF SentFirst
<1>16. Everywhere'
  <2>1. gone \subseteq Waiting
    BY <1>8
  <2>2. 1 .. m + 1 = 1 .. m \cup {m + 1}
    BY <1>3
  <2>3. AllDelivered' \cup Waiting' \cup overwritten' = 1 .. m + 1
    BY <1>1, <1>11, <1>12, <1>13, <2>1, <2>2
  <2>4. AllDelivered \cap gone = {}
    <3>1. \A n \in AllDelivered : n \in Int
      BY <1>3, <1>13
    <3>2. \A n \in AllDelivered : n \in gone => n < n
      BY <1>14, <2>1
    <3>3. QED
      BY <3>1, <3>2
  <2>5. m + 1 \notin overwritten \cup gone
    BY <1>3, <1>8, <1>13
  <2>6. (AllDelivered' \cup Waiting') \cap overwritten' = {}
    BY <1>1, <1>11, <1>12, <1>13, <2>4, <2>5
  <2>7. \A n \in overwritten' : n + B <= m + 1
    <3>1. \A n \in overwritten : n \in Int /\ n + B <= m
      BY <1>3, <1>13
    <3>2. QED
      BY <1>1, <1>3, <1>8, <3>1
  <2>8. QED
    BY <1>1, <2>3, <2>6, <2>7 DEF Everywhere, m
<1>17. SentOnce' /\ MessagesInOrder'
  BY <1>1, <1>2 DEF SentOnce, MessagesInOrder
<1>18. VectorTrue'
  BY <1>1 DEF VectorTrue
<1>19. QED
  BY <1>9, <1>10, <1>15, <1>16, <1>17, <1>18 DEF MessagesIInv

(* A stamp that the driver returns is the thread's to keep.                *)
LEMMA ReadStampStep ==
  ASSUME MessagesIInv, ReadStamp
  PROVE  MessagesIInv'
<1> DEFINE m == messageCounter
<1>1. /\ reader = "WhiteRabbit" /\ getData = "read" /\ issued > m
      /\ messageCounter' = m + 1 /\ getData' = "lock"
      /\ UNCHANGED <<reader, command, running, issued, buffer, gn, delivered, overwritten>>
  BY DEF ReadStamp, generator, control, past
<1>2. ReadersTyped /\ VectorTrue /\ SentFirst /\ Everywhere /\ SentOnce /\ MessagesInOrder
  BY DEF MessagesIInv
<1>3. m \in Nat /\ m + 1 \in 0 .. issued /\ buffer \in Seq(1 .. MaxMessages) /\ issued \in Nat
  BY <1>1, <1>2, TimeReadersAssumption DEF ReadersTyped, TypeOKReaders
<1>4. ReadersTyped'
  BY <1>1, <1>2, <1>3 DEF ReadersTyped, TypeOKReaders
<1>5. RingTrue'
  BY <1>1 DEF RingTrue
<1>6. VectorTrue'
  <2>1. \A i \in DOMAIN buffer : buffer[i] \in Int /\ buffer[i] <= m
    BY <1>1, <1>2, <1>3, TimeReadersAssumption DEF VectorTrue
  <2>2. \A i \in DOMAIN buffer : buffer[i] <= m + 1 /\ buffer[i] < m + 1
    BY <1>3, <2>1
  <2>3. QED
    BY <1>1, <1>2, <2>2 DEF VectorTrue
<1> HIDE DEF m
<1>7. Waiting' = Waiting \cup {m + 1} /\ AllDelivered' = AllDelivered
  BY <1>1 DEF Waiting, AllDelivered
<1>8. /\ AllDelivered \cup Waiting \cup overwritten = 1 .. m
      /\ (AllDelivered \cup Waiting) \cap overwritten = {} /\ overwritten = {}
  BY <1>1, <1>2 DEF Everywhere, VectorTrue, m
<1>9. SentFirst'
  <2>1. \A n \in AllDelivered : n < m + 1
    BY <1>3, <1>8 DEF m
  <2>2. QED
    BY <1>2, <1>7, <2>1 DEF SentFirst
<1>10. Everywhere'
  <2>1. 1 .. m + 1 = 1 .. m \cup {m + 1}
    BY <1>3 DEF m
  <2>2. QED
    BY <1>1, <1>7, <1>8, <2>1 DEF Everywhere
<1>11. SentOnce' /\ MessagesInOrder'
  BY <1>1, <1>2 DEF SentOnce, MessagesInOrder
<1>12. QED
  BY <1>4, <1>5, <1>6, <1>9, <1>10, <1>11 DEF MessagesIInv

(* The stamp in hand comes last in the vector.                             *)
LEMMA KeepStampStep ==
  ASSUME MessagesIInv, KeepStamp
  PROVE  MessagesIInv'
<1>1. /\ getData = "lock" /\ buffer' = Append(buffer, messageCounter) /\ getData' = "test"
      /\ UNCHANGED <<reader, command, running, issued, messageCounter, gn, delivered, overwritten>>
  BY DEF KeepStamp, generator, control, messages, past
<1>2. ReadersTyped /\ VectorTrue /\ SentFirst /\ Everywhere /\ SentOnce /\ MessagesInOrder
  BY DEF MessagesIInv
<1>3. reader = "WhiteRabbit" /\ messageCounter \in 1 .. MaxMessages
      /\ buffer \in Seq(1 .. MaxMessages) /\ MaxMessages \in Nat
  BY <1>1, <1>2, TimeReadersAssumption DEF ReadersTyped, TypeOKReaders
<1> DEFINE t == buffer'
           z == Len(buffer) + 1
<1>4. /\ t \in Seq(1 .. MaxMessages) /\ DOMAIN t = 1 .. z /\ t[z] = messageCounter
      /\ z = Len(buffer) + 1 /\ Len(buffer) \in Nat /\ DOMAIN buffer = 1 .. Len(buffer)
      /\ \A i \in DOMAIN buffer : t[i] = buffer[i]
  BY <1>1, <1>3
<1> HIDE DEF t, z
<1>5. DOMAIN t = DOMAIN buffer \cup {z}
  BY <1>4
<1>6. ReadersTyped'
  BY <1>1, <1>2, <1>3, <1>4 DEF ReadersTyped, TypeOKReaders, t
<1>7. RingTrue'
  BY <1>1, <1>3 DEF RingTrue
<1>8. \A i \in DOMAIN buffer : buffer[i] \in Int /\ buffer[i] < messageCounter
  BY <1>1, <1>2, <1>3 DEF VectorTrue
<1>9. VectorTrue'
  <2>1. ASSUME NEW i \in DOMAIN t, NEW j \in DOMAIN t, i < j PROVE t[i] < t[j]
    <3>1. i \in DOMAIN buffer
      BY <1>4, <2>1
    <3>2. CASE j = z
      BY <1>4, <1>8, <3>1, <3>2
    <3>3. CASE j \in DOMAIN buffer
      <4>1. buffer[i] < buffer[j]
        BY <1>2, <1>3, <2>1, <3>1, <3>3 DEF VectorTrue
      <4>2. QED
        BY <1>4, <3>1, <3>3, <4>1
    <3>4. QED
      BY <1>5, <3>2, <3>3
  <2>2. ASSUME NEW i \in DOMAIN t PROVE t[i] <= messageCounter
    <3>1. CASE i = z
      BY <1>3, <1>4, <3>1
    <3>2. CASE i \in DOMAIN buffer
      BY <1>3, <1>4, <1>8, <3>2
    <3>3. QED
      BY <1>5, <3>1, <3>2
  <2>3. QED
    BY <1>1, <1>2, <1>3, <2>1, <2>2 DEF VectorTrue, t
<1>10. Waiting' = Waiting
  <2>1. Range(t) = Range(buffer) \cup {messageCounter}
    BY <1>4, <1>5 DEF Range
  <2>2. QED
    BY <1>1, <1>3, <2>1 DEF Waiting, t
<1>11. AllDelivered' = AllDelivered
  BY <1>1 DEF AllDelivered
<1>12. SentFirst' /\ Everywhere'
  BY <1>1, <1>2, <1>10, <1>11 DEF SentFirst, Everywhere
<1>13. SentOnce' /\ MessagesInOrder'
  BY <1>1, <1>2 DEF SentOnce, MessagesInOrder
<1>14. QED
  BY <1>6, <1>7, <1>9, <1>12, <1>13 DEF MessagesIInv

(* FillFragment sends all that waits in ring or vector, not the stamp in   *)
(* hand.                                                                   *)
LEMMA FillFragmentStep ==
  ASSUME MessagesIInv, FillFragment
  PROVE  MessagesIInv'
<1>1. /\ delivered' = Append(delivered, Unsent) /\ buffer' = Sent /\ gn' = "out"
      /\ UNCHANGED <<reader, command, running, getData, issued, messageCounter, overwritten>>
  BY DEF FillFragment, generator, control, messages
<1>2. ReadersTyped /\ RingTrue /\ VectorTrue /\ SentFirst /\ Everywhere /\ SentOnce /\ MessagesInOrder
  BY DEF MessagesIInv
<1> DEFINE u == Unsent
           lock == IF getData = "lock" THEN {messageCounter} ELSE {}
<1>3. /\ u \in Seq(Nat) /\ Range(u) \subseteq Waiting
      /\ \A i, j \in DOMAIN u : i < j =>
              /\ u[i] # u[j]
              /\ u[i] > u[j] => reader = "GPS" /\ Lap(u[i]) = Lap(u[j]) + 1
  BY UnsentInOrder
<1>4. Waiting = Range(u) \cup lock
  BY <1>2, HeldWaits DEF Held
<1> HIDE DEF u
<1>5. Waiting' = lock
  <2>1. CASE reader = "GPS"
    <3>1. Slots' = {}
      <4>1. buffer' = [k \in Index |-> [buffer[k] EXCEPT !.unsent = FALSE]]
        BY <1>1, <2>1 DEF Sent
      <4>2. \A k \in Index : ~buffer'[k].unsent
        BY <1>2, <2>1, <4>1 DEF ReadersTyped, TypeOKReaders
      <4>3. QED
        BY <4>2 DEF Slots
    <3>2. QED
      BY <1>1, <2>1, <3>1 DEF Waiting
  <2>2. CASE reader # "GPS"
    <3>1. buffer' = <<>>
      BY <1>1, <2>2 DEF Sent
    <3>2. Range(buffer') = {}
      BY <3>1 DEF Range
    <3>3. QED
      BY <1>1, <2>2, <3>2 DEF Waiting
  <2>3. QED
    BY <2>1, <2>2
<1>6. \A n \in AllDelivered, w \in Range(u) : n < w
  BY <1>2, <1>3 DEF SentFirst
<1>7. /\ AllDelivered' = AllDelivered \cup Range(u)
      /\ SentOnce' /\ MessagesInOrder' /\ delivered' \in Seq(Seq(Nat))
  <2>1. delivered \in Seq(Seq(Nat)) /\ reader' = reader /\ delivered' = Append(delivered, u)
    BY <1>1, <1>2 DEF ReadersTyped, u
  <2>2. QED
    BY <1>2, <1>3, <1>6, <2>1, OneCallMore
<1>8. reader # "GPS" => buffer' = <<>>
  BY <1>1 DEF Sent
<1>9. reader = "GPS" => buffer' \in [Index -> [n : 0 .. MaxMessages, unsent : BOOLEAN]]
      /\ \A k \in Index : buffer'[k].n = buffer[k].n /\ ~buffer'[k].unsent
  <2> SUFFICES ASSUME reader = "GPS"
      PROVE  buffer' \in [Index -> [n : 0 .. MaxMessages, unsent : BOOLEAN]]
             /\ \A k \in Index : buffer'[k].n = buffer[k].n /\ ~buffer'[k].unsent
    OBVIOUS
  <2>1. buffer' = [k \in Index |-> [buffer[k] EXCEPT !.unsent = FALSE]]
    BY <1>1 DEF Sent
  <2>2. buffer \in [Index -> [n : 0 .. MaxMessages, unsent : BOOLEAN]]
    BY <1>2 DEF ReadersTyped, TypeOKReaders
  <2>3. QED
    BY <2>1, <2>2
<1>10. ReadersTyped'
  <2>1. <<>> \in Seq(1 .. MaxMessages)
    OBVIOUS
  <2>2. QED
    BY <1>1, <1>2, <1>7, <1>8, <1>9, <2>1 DEF ReadersTyped, TypeOKReaders
<1>11. RingTrue'
  BY <1>1, <1>2, <1>9 DEF RingTrue
<1>12. VectorTrue'
  BY <1>1, <1>2, <1>8 DEF VectorTrue
<1>13. SentFirst'
  <2>1. ASSUME NEW n \in Range(u), NEW w \in lock PROVE n < w
    <3>1. getData = "lock" /\ w = messageCounter /\ reader = "WhiteRabbit"
      BY <1>2, <2>1 DEF ReadersTyped
    <3>2. u = buffer
      BY <3>1 DEF Unsent, u
    <3>3. QED
      BY <1>2, <2>1, <3>1, <3>2 DEF VectorTrue, Range
  <2>2. lock \subseteq Waiting
    BY <1>4
  <2>3. QED
    BY <1>2, <1>5, <1>7, <2>1, <2>2 DEF SentFirst
<1>14. Everywhere'
  <2>1. AllDelivered' \cup Waiting' = AllDelivered \cup Waiting
    BY <1>4, <1>5, <1>7
  <2>2. QED
    BY <1>1, <1>2, <2>1 DEF Everywhere
<1>15. QED
  BY <1>7, <1>10, <1>11, <1>12, <1>13, <1>14 DEF MessagesIInv
(* Nothing has come.                                                       *)
LEMMA InitMessages == InitReaders => MessagesIInv
<1> SUFFICES ASSUME InitReaders PROVE MessagesIInv
  OBVIOUS
<1>1. /\ command = "stopped" /\ running \in BOOLEAN /\ getData = "test"
      /\ issued = 0 /\ messageCounter = 0 /\ gn = "out" /\ delivered = <<>> /\ overwritten = {}
  BY DEF InitReaders
<1>2. /\ reader \in {"GPS", "WhiteRabbit", "other"}
      /\ reader = "GPS" => buffer = [k \in Index |-> Empty]
      /\ reader # "GPS" => buffer = <<>>
  BY DEF InitReaders
<1>3. MaxMessages \in Nat
  BY TimeReadersAssumption
<1>4. ReadersTyped
  <2>1. <<>> \in Seq(1 .. MaxMessages) /\ <<>> \in Seq(Seq(Nat))
    OBVIOUS
  <2>2. reader = "GPS" => buffer \in [Index -> [n : 0 .. MaxMessages, unsent : BOOLEAN]]
    <3>1. Empty \in [n : 0 .. MaxMessages, unsent : BOOLEAN]
      BY <1>3 DEF Empty
    <3>2. QED
      BY <1>2, <3>1
  <2>3. reader # "GPS" => buffer \in Seq(1 .. MaxMessages)
    BY <1>2, <2>1
  <2>4. issued \in 0 .. MaxMessages /\ messageCounter \in 0 .. issued
    BY <1>1, <1>3
  <2>5. TypeOKReaders
    BY <1>1, <2>2, <2>3, <2>4 DEF TypeOKReaders
  <2>6. QED
    BY <1>1, <1>2, <2>1, <2>5 DEF ReadersTyped
<1>5. RingTrue
  BY <1>2 DEF RingTrue, Empty
<1>6. VectorTrue
  BY <1>1, <1>2 DEF VectorTrue
<1>7. AllDelivered = {}
  BY <1>1 DEF AllDelivered
<1>8. Waiting = {}
  <2>1. reader = "GPS" => Slots = {}
    BY <1>2 DEF Slots, Empty
  <2>2. reader # "GPS" => Range(buffer) = {}
    BY <1>2 DEF Range
  <2>3. QED
    BY <1>1, <2>1, <2>2 DEF Waiting
<1>9. SentFirst
  BY <1>7 DEF SentFirst
<1>10. Everywhere
  BY <1>1, <1>7, <1>8 DEF Everywhere
<1>11. SentOnce /\ MessagesInOrder
  BY <1>1 DEF SentOnce, MessagesInOrder
<1>12. QED
  BY <1>4, <1>5, <1>6, <1>9, <1>10, <1>11 DEF MessagesIInv

(* Every step keeps the messages in order, wherever they are.              *)
LEMMA NextMessages ==
  ASSUME MessagesIInv, [NextReaders]_allVars
  PROVE  MessagesIInv'
<1>1. TypeOKReaders /\ (getData = "lock" => reader = "WhiteRabbit")
  BY DEF MessagesIInv, ReadersTyped
<1>2. CASE UNCHANGED timeVars
  BY <1>1, <1>2, QuietSteps
  DEF timeVars, generator, control, messages, past, TypeOKReaders
<1>3. CASE Issue
  <2>1. issued' \in 0 .. MaxMessages /\ messageCounter \in 0 .. issued'
    BY <1>1, <1>3, TimeReadersAssumption DEF Issue, TypeOKReaders
  <2>2. UNCHANGED <<reader, command, running, getData, messageCounter, buffer, gn, delivered, overwritten>>
    BY <1>3 DEF Issue, generator, control, past
  <2>3. QED
    BY <1>1, <2>1, <2>2, QuietSteps DEF TypeOKReaders
<1>4. CASE Launch \/ SetRunning \/ LowerRunning \/ StopThread \/ Joined \/ Stopped \/ Destroy
  <2>1. UNCHANGED <<reader, getData, issued, messageCounter, buffer, gn, delivered, overwritten>>
    BY <1>4
    DEF Launch, SetRunning, LowerRunning, StopThread, Joined, Stopped, Destroy, generator,
        messages, past
  <2>2. /\ command' \in {"stopped", "launch", "run", "halt", "join", "mutex", "destroyed", "crashed"}
        /\ running' \in BOOLEAN
    BY <1>1, <1>4
    DEF Launch, SetRunning, LowerRunning, StopThread, Joined, Stopped, Destroy, TypeOKReaders
  <2>3. QED
    BY <1>1, <2>1, <2>2, QuietSteps DEF TypeOKReaders
<1>5. CASE TestRunning \/ NoMessage \/ ReadFails
  <2>1. /\ UNCHANGED <<reader, command, running, issued, messageCounter, buffer, gn, delivered, overwritten>>
        /\ getData # "lock" /\ getData' \in {"test", "read"}
    BY <1>5
    DEF TestRunning, NoMessage, ReadFails, generator, control, messages, past
  <2>2. QED
    BY <1>1, <2>1, QuietSteps DEF TypeOKReaders
<1>6. CASE GetNextBegin \/ NothingNew
  <2>1. /\ UNCHANGED <<reader, command, running, getData, issued, messageCounter, buffer, delivered, overwritten>>
        /\ gn' \in {"out", "fill"}
    BY <1>6 DEF GetNextBegin, NothingNew, generator, control, messages, past
  <2>2. QED
    BY <1>1, <2>1, QuietSteps DEF TypeOKReaders
<1>7. CASE ReceiveMessage
  BY <1>7, ReceiveMessageStep
<1>8. CASE ReadStamp
  BY <1>8, ReadStampStep
<1>9. CASE KeepStamp
  BY <1>9, KeepStampStep
<1>10. CASE FillFragment
  BY <1>10, FillFragmentStep
<1>11. CASE NotRunning \/ RunLoop \/ Waits \/ (reader = "other" /\ Next /\ UNCHANGED timeVars)
  BY <1>2, <1>11 DEF NotRunning, RunLoop, Waits
<1>12. CASE UNCHANGED allVars
  BY <1>2, <1>12 DEF allVars
<1>13. QED
  BY <1>3, <1>4, <1>5, <1>6, <1>7, <1>8, <1>9, <1>10, <1>11, <1>12
  DEF NextReaders, TimeNext, Transitions, GetData, GetNext

(* Ring, vector and fragments always agree on which messages were read.    *)
THEOREM MessagesInvariance == SpecReaders => []MessagesIInv
<1>1. MessagesIInv /\ [NextReaders]_allVars => MessagesIInv'
  BY NextMessages
<1>2. QED
  BY <1>1, InitMessages, PTL DEF SpecReaders

(* Every message that was read is sent once, waits, or was overwritten by  *)
(* one a whole ring newer, and messages leave in order, but for those on   *)
(* both sides of the ring's end; for rings of any size.                    *)
THEOREM ReadingsInOrder == SpecReaders => []ReadingsTrue
<1>1. MessagesIInv => ReadingsTrue
  <2> SUFFICES ASSUME MessagesIInv PROVE ReadingsTrue
    OBVIOUS
  <2>1. Held = Waiting
    BY HeldWaits DEF MessagesIInv
  <2>2. AllDelivered \cap Waiting = {}
    <3>1. \A n \in AllDelivered : n \in Int
      BY TimeReadersAssumption DEF MessagesIInv, Everywhere, ReadersTyped, TypeOKReaders
    <3>2. \A n \in AllDelivered : n \in Waiting => n < n
      BY DEF MessagesIInv, SentFirst
    <3>3. QED
      BY <3>1, <3>2
  <2>3. MessagesOnce
    BY <2>1, <2>2 DEF MessagesIInv, Everywhere, MessagesOnce
  <2>4. QED
    BY <2>3 DEF MessagesIInv, ReadersTyped, ReadingsTrue
<1>2. QED
  BY <1>1, MessagesInvariance, PTL
=============================================================================
