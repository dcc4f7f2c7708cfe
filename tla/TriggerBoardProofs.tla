------------------------- MODULE TriggerBoardProofs --------------------------
(***************************************************************************)
(* Proofs about the Penn Trigger Board.  First the way of the words from   *)
(* the socket to artdaq (TriggerBoard), for queues of any size, any group  *)
(* size and any range of the counter that both can be counted in; then     *)
(* what the words and fragments say (TriggerFragment), for any HLT bits,   *)
(* any group size and any number of words.                                 *)
(***************************************************************************)
EXTENDS TriggerBoard, TriggerFragment, FiniteSetTheorems, TLAPS

-----------------------------------------------------------------------------
(* What makes the safety properties inductive.                             *)

(* Numbers of the last word that has gone into the word queue, come out of *)
(* it, and gone into the fragment queue.                                   *)
LastQueued == IF rx = "push" THEN received - 1 ELSE received
LastPopped == LastQueued - Len(wordBuffer)
LastPacked == LastPopped - Len(fgFrag)

(* Where the threads are while start() and stop() deal with them.          *)
Threads ==
  /\ ctl \in {"stopped", "failed"} => rx = "off" /\ fg = "off" /\ fragBuffer = <<>>
  /\ ctl \in {"joinFragments", "resetWords", "launch"} => rx = "off"
  /\ ctl \in {"joinReceiver", "joinFragments", "failed"} => rxStop
  /\ fg # "make" => fgFrag = <<>> /\ fgLeft = 0

(* A run that found the queue empty and the counter 0: the fragment thread *)
(* has nothing to do before both have been reset.                          *)
CleanStart ==
  clean /\ ctl \in {"resetWords", "launch"} =>
    wordBuffer = <<>> /\ nTS = 0 /\ fg # "make" /\ fragBuffer = <<>>

(* The words on their way, numbered.                                       *)
InLine ==
  /\ rx = "push" => rxWord.n = received
  /\ \A k \in 1 .. Len(wordBuffer) : wordBuffer[k].n = LastPopped + k
  /\ \A k \in 1 .. Len(fgFrag) : fgFrag[k].n = LastPacked + k
  /\ fgLeft <= Len(wordBuffer)

Packed ==
  /\ sent <= LastPacked
  /\ \A i \in 1 .. Len(fragBuffer) : \A k \in 1 .. Len(fragBuffer[i]) :
       fragBuffer[i][k].n \in sent + 1 .. LastPacked
  /\ \A n \in sent + 1 .. LastPacked :
       \E i \in 1 .. Len(fragBuffer) : \E k \in 1 .. Len(fragBuffer[i]) : fragBuffer[i][k].n = n
  /\ \A i, j \in 1 .. Len(fragBuffer) :
       \A k \in 1 .. Len(fragBuffer[i]), l \in 1 .. Len(fragBuffer[j]) :
         i < j \/ (i = j /\ k < l) => fragBuffer[i][k].n < fragBuffer[j][l].n

Ordered == clean /\ Receiving => InLine /\ Packed

IInv == TypeOK /\ Threads /\ CleanStart /\ Ordered /\ CounterAgrees

-----------------------------------------------------------------------------
(* LEMMAS: SEQUENCES AND COUNTING                                          *)

(* Types of the constants.                                                 *)
LEMMA Constants ==
  /\ WordCapacity \in Nat \ {0} /\ MaxWordsPerFrag \in Nat \ {0} /\ FragCapacity \in Nat \ {0}
  /\ CounterRange \in Nat \ {0} /\ WordCapacity + 1 < CounterRange
  /\ GroupSize \in Nat /\ MaxWords \in Nat /\ MaxRuns \in Nat
BY BoardAssumption

(* A sequence with a member behind it.                                     *)
LEMMA AppendFacts ==
  ASSUME NEW S, NEW s \in Seq(S), NEW x \in S
  PROVE  /\ Len(s) \in Nat
         /\ Append(s, x) \in Seq(S) /\ Len(Append(s, x)) = Len(s) + 1
         /\ \A k \in 1 .. Len(s) : Append(s, x)[k] = s[k]
         /\ Append(s, x)[Len(s) + 1] = x
OBVIOUS

(* A sequence without its first member.                                    *)
LEMMA TailFacts ==
  ASSUME NEW S, NEW s \in Seq(S), s # <<>>
  PROVE  /\ Len(s) \in Nat \ {0} /\ Head(s) = s[1] /\ s[1] \in S
         /\ Tail(s) \in Seq(S) /\ Len(Tail(s)) = Len(s) - 1
         /\ \A k \in 1 .. Len(s) - 1 : Tail(s)[k] = s[k + 1]
OBVIOUS

(* The empty sequence, whatever it could hold.                             *)
LEMMA EmptyFacts ==
  ASSUME NEW S
  PROVE  <<>> \in Seq(S) /\ Len(<<>>) = 0 /\ \A k : k \notin 1 .. Len(<<>>)
OBVIOUS

(* Words have a number, and may be timestamps.                             *)
LEMMA WordFacts ==
  /\ NoWord \in Word
  /\ \A w \in Word : w.n \in 0 .. MaxWords /\ IsTS(w) \in BOOLEAN
<1>1. NoWord \in Word /\ NoWord.n \in 0 .. MaxWords
  BY Constants DEF Word, NoWord
<1>2. \A w \in Word : w.n \in 0 .. MaxWords
  BY <1>1, Constants DEF Word
<1>3. \A w : IsTS(w) \in BOOLEAN
  BY DEF IsTS
<1>4. QED
  BY <1>1, <1>2, <1>3

(* The timestamps of a sequence are finitely many.                         *)
TSPlaces(s) == {k \in 1 .. Len(s) : IsTS(s[k])}

(* Counted they are at most as many as the words.                          *)
LEMMA TSFinite ==
  ASSUME NEW S, NEW s \in Seq(S)
  PROVE  /\ IsFiniteSet(TSPlaces(s)) /\ TSIn(s) = Cardinality(TSPlaces(s))
         /\ TSIn(s) \in 0 .. Len(s)
<1>1. Len(s) \in Nat
  OBVIOUS
<1>2. IsFiniteSet(1 .. Len(s)) /\ Cardinality(1 .. Len(s)) = Len(s)
  BY <1>1, FS_Interval
<1>3. TSPlaces(s) \in SUBSET (1 .. Len(s)) /\ TSIn(s) = Cardinality(TSPlaces(s))
  BY DEF TSPlaces, TSIn
<1>4. IsFiniteSet(TSPlaces(s)) /\ Cardinality(TSPlaces(s)) <= Len(s)
  BY <1>2, <1>3, FS_Subset
<1>5. Cardinality(TSPlaces(s)) \in Nat
  BY <1>4, FS_CardinalityType
<1>6. QED
  BY <1>1, <1>3, <1>4, <1>5

(* Without words there are none.                                           *)
LEMMA TSEmpty == TSIn(<<>>) = 0
<1>1. {k \in 1 .. Len(<<>>) : IsTS(<<>>[k])} = {}
  BY EmptyFacts
<1>2. QED
  BY <1>1, FS_EmptySet DEF TSIn

(* A further word counts if it is a timestamp.                             *)
LEMMA TSAppend ==
  ASSUME NEW S, NEW s \in Seq(S), NEW x \in S
  PROVE  TSIn(Append(s, x)) = TSIn(s) + IF IsTS(x) THEN 1 ELSE 0
<1> DEFINE t == Append(s, x)
<1>1. /\ t \in Seq(S) /\ Len(s) \in Nat /\ Len(t) = Len(s) + 1 /\ t[Len(s) + 1] = x
      /\ \A k \in 1 .. Len(s) : t[k] = s[k]
  BY AppendFacts
<1>2. IsFiniteSet(TSPlaces(s)) /\ TSIn(s) = Cardinality(TSPlaces(s)) /\ TSIn(s) \in Nat
  BY <1>1, TSFinite
<1>3. TSIn(t) = Cardinality(TSPlaces(t))
  BY DEF TSIn, TSPlaces
<1> HIDE DEF t
<1>4. CASE IsTS(x)
  <2>1. TSPlaces(t) = TSPlaces(s) \cup {Len(s) + 1}
    BY <1>1, <1>4 DEF TSPlaces
  <2>2. Len(s) + 1 \notin TSPlaces(s)
    BY <1>1 DEF TSPlaces
  <2>3. Cardinality(TSPlaces(t)) = Cardinality(TSPlaces(s)) + 1
    BY <1>2, <2>1, <2>2, FS_AddElement
  <2>4. QED
    BY <1>2, <1>3, <1>4, <2>3 DEF t
<1>5. CASE ~IsTS(x)
  <2>1. TSPlaces(t) = TSPlaces(s)
    BY <1>1, <1>5 DEF TSPlaces
  <2>2. QED
    BY <1>2, <1>3, <1>5, <2>1 DEF t
<1>6. QED
  BY <1>4, <1>5

(* One word.                                                               *)
LEMMA TSOne ==
  ASSUME NEW x
  PROVE  TSIn(<<x>>) = IF IsTS(x) THEN 1 ELSE 0
<1>1. <<>> \in Seq({x}) /\ x \in {x} /\ <<x>> = Append(<<>>, x)
  OBVIOUS
<1>2. TSIn(<<x>>) = TSIn(<<>>) + IF IsTS(x) THEN 1 ELSE 0
  BY <1>1, TSAppend
<1>3. QED
  BY <1>2, TSEmpty

(* The first word counts if it is a timestamp.                             *)
LEMMA TSTail ==
  ASSUME NEW S, NEW s \in Seq(S), s # <<>>
  PROVE  TSIn(s) = TSIn(Tail(s)) + IF IsTS(Head(s)) THEN 1 ELSE 0
<1> DEFINE t == Tail(s)
           T == TSPlaces(s) \ {1}
           f == [k \in TSPlaces(t) |-> k + 1]
<1>1. /\ Len(s) \in Nat \ {0} /\ Head(s) = s[1] /\ t \in Seq(S) /\ Len(t) = Len(s) - 1
      /\ \A k \in 1 .. Len(s) - 1 : t[k] = s[k + 1]
  BY TailFacts
<1>2. /\ IsFiniteSet(TSPlaces(s)) /\ TSIn(s) = Cardinality(TSPlaces(s)) /\ TSIn(s) \in Nat
      /\ IsFiniteSet(TSPlaces(t)) /\ TSIn(t) = Cardinality(TSPlaces(t)) /\ TSIn(t) \in Nat
  <2> HIDE DEF t
  <2>1. /\ IsFiniteSet(TSPlaces(s)) /\ TSIn(s) = Cardinality(TSPlaces(s)) /\ TSIn(s) \in 0 .. Len(s)
    BY TSFinite
  <2>2. /\ IsFiniteSet(TSPlaces(t)) /\ TSIn(t) = Cardinality(TSPlaces(t)) /\ TSIn(t) \in 0 .. Len(t)
    BY <1>1, TSFinite
  <2>3. QED
    BY <2>1, <2>2
<1> HIDE DEF t
<1>3. /\ \A k \in TSPlaces(t) : k \in Nat /\ k + 1 \in T
      /\ \A k \in T : k - 1 \in TSPlaces(t) /\ (k - 1) + 1 = k
  BY <1>1 DEF TSPlaces
<1>4. f \in Bijection(TSPlaces(t), T)
  <2>1. f \in [TSPlaces(t) -> T]
    BY <1>3
  <2>2. ASSUME NEW a \in TSPlaces(t), NEW b \in TSPlaces(t), f[a] = f[b] PROVE a = b
    BY <1>3, <2>2
  <2>3. ASSUME NEW k \in T PROVE \E a \in TSPlaces(t) : f[a] = k
    BY <1>3
  <2> HIDE DEF f, T
  <2>4. f \in Injection(TSPlaces(t), T)
    BY <2>1, <2>2 DEF Injection, IsInjective
  <2>5. f \in Surjection(TSPlaces(t), T)
    BY <2>1, <2>3 DEF Surjection
  <2>6. QED
    BY <2>4, <2>5 DEF Bijection
<1>5. Cardinality(T) = Cardinality(TSPlaces(t))
  <2> HIDE DEF f, T
  <2>1. ExistsBijection(TSPlaces(t), T)
    BY <1>4 DEF ExistsBijection
  <2>2. QED
    BY <1>2, <2>1, FS_Bijection
<1>6. Cardinality(T) = IF 1 \in TSPlaces(s) THEN TSIn(s) - 1 ELSE TSIn(s)
  BY <1>2, FS_RemoveElement
<1>7. 1 \in TSPlaces(s) <=> IsTS(Head(s))
  BY <1>1 DEF TSPlaces
<1> HIDE DEF T
<1>8. TSIn(t) = IF IsTS(Head(s)) THEN TSIn(s) - 1 ELSE TSIn(s)
  BY <1>2, <1>5, <1>6, <1>7
<1>9. QED
  BY <1>2, <1>8 DEF t

-----------------------------------------------------------------------------
(* THREADS                                                                 *)

(* What the proofs below need of a state.                                  *)
BoardFacts ==
  /\ received \in 0 .. MaxWords /\ sent \in 0 .. MaxWords
  /\ wordBuffer \in Seq(Word) /\ Len(wordBuffer) \in 0 .. WordCapacity
  /\ rxWord \in Word /\ tempWord \in Word /\ nTS \in 0 .. CounterRange - 1
  /\ fgLeft \in 0 .. WordCapacity /\ fgFrag \in Seq(Word) /\ Len(fgFrag) \in Nat
  /\ fragBuffer \in Seq(Seq(Word)) /\ Len(fragBuffer) \in 0 .. FragCapacity
  /\ \A i \in 1 .. Len(fragBuffer) : fragBuffer[i] \in Seq(Word)
  /\ rx \in {"off", "accept", "abandon", "read", "push", "close"}
  /\ fg \in {"off", "check", "make"}

(* They hold with the invariant.                                           *)
LEMMA FactsHold == IInv => BoardFacts
<1> SUFFICES ASSUME IInv PROVE BoardFacts
  OBVIOUS
<1>1. /\ wordBuffer \in Seq(Word) /\ Len(wordBuffer) <= WordCapacity /\ fgFrag \in Seq(Word)
      /\ fragBuffer \in Seq(Seq(Word)) /\ Len(fragBuffer) <= FragCapacity
  BY DEF IInv, TypeOK
<1>2. Len(wordBuffer) \in Nat /\ Len(fgFrag) \in Nat /\ Len(fragBuffer) \in Nat
  BY <1>1
<1>3. \A i \in 1 .. Len(fragBuffer) : fragBuffer[i] \in Seq(Word)
  BY <1>1
<1>4. QED
  BY <1>1, <1>2, <1>3, Constants DEF BoardFacts, IInv, TypeOK

(* start() and stop() wait for the threads.                                *)
LEMMA ThreadsStep ==
  ASSUME IInv, Next
  PROVE  Threads'
<1>t. Threads
  BY DEF IInv
<1>1. CASE StartFragments
  BY <1>t, <1>1 DEF StartFragments, Threads, receiver, output
<1>2. CASE StopRequest
  BY <1>t, <1>2 DEF StopRequest, Threads, receiver, output, maker
<1>3. CASE Transition
  <2>1. CASE ResetWords \/ LaunchReceiver \/ send_start
    BY <1>t, <2>1 DEF ResetWords, LaunchReceiver, send_start, Threads, receiver, output, maker
  <2>2. CASE send_stop \/ StopReceiver \/ JoinReceiver
    BY <1>t, <2>2 DEF send_stop, StopReceiver, JoinReceiver, Threads, receiver, output, maker
  <2>3. CASE JoinFragments
    BY <1>t, <2>3 DEF JoinFragments, Threads, receiver, output, maker
  <2>4. QED
    BY <1>3, <2>1, <2>2, <2>3 DEF Transition
<1>4. CASE BoardConnects \/ BoardCloses
  BY <1>t, <1>4 DEF BoardConnects, BoardCloses, Threads, control, receiver, output, maker
<1>5. CASE RxRead \/ RxStep
  <2>1. rx # "off" /\ UNCHANGED <<ctl, rxStop, fg, fgFrag, fgLeft, fragBuffer>>
    BY <1>5 DEF RxRead, RxStep, RxAccepted, RxAbandon, RxEOF, RxPush, RxClose, control, output, maker
  <2>2. QED
    BY <1>t, <2>1 DEF Threads
<1>6. CASE FgStep
  <2>1. fg # "off" /\ UNCHANGED <<ctl, rxStop, rx>>
    BY <1>6 DEF FgStep, FgStop, FgBegin, FgWord, FgPush, control, receiver
  <2>2. fg' # "make" => fgFrag' = <<>> /\ fgLeft' = 0
    BY <1>t, <1>6 DEF FgStep, FgStop, FgBegin, FgWord, FgPush, Threads
  <2>3. QED
    BY <1>t, <2>1, <2>2 DEF Threads
<1>7. CASE GetNext
  <2>1. /\ ctl' \in {ctl, "sendStop"} /\ UNCHANGED <<rx, fg, fgFrag, fgLeft, rxStop>>
        /\ fragBuffer' \in {fragBuffer, <<>>}
    BY <1>7 DEF GetNext, GetNextThrows, GetNextSends, GetNextReturns, control, receiver, maker, output
  <2>2. QED
    BY <1>t, <2>1 DEF Threads
<1>8. QED
  BY <1>1, <1>2, <1>3, <1>4, <1>5, <1>6, <1>7 DEF Next

-----------------------------------------------------------------------------
(* A CLEAN START                                                           *)

(* Until both queue and counter are reset, the fragment thread has nothing *)
(* to do: neither condition for a fragment holds without words.            *)
LEMMA CleanStartStep ==
  ASSUME IInv, Next
  PROVE  CleanStart'
<1>t. CleanStart /\ Threads
  BY DEF IInv
<1>1. CASE StartFragments
  BY <1>t, <1>1 DEF StartFragments, CleanStart, Threads, output
<1>2. CASE ctl' \notin {"resetWords", "launch"}
  BY <1>2 DEF CleanStart
<1>3. CASE ResetWords
  BY <1>t, <1>3 DEF ResetWords, CleanStart, maker, output
<1>4. CASE FgStep /\ ctl \in {"resetWords", "launch"} /\ clean
  <2>1. wordBuffer = <<>> /\ nTS = 0 /\ fg # "make" /\ fragBuffer = <<>>
    BY <1>t, <1>4 DEF CleanStart
  <2>2. Len(wordBuffer) = 0
    BY <2>1, EmptyFacts
  <2>3. ~CanCreateFragments /\ ~NeedToEmptyBuffer
    BY <2>1, <2>2, Constants DEF CanCreateFragments, NeedToEmptyBuffer
  <2>4. FgStop
    BY <1>4, <2>1, <2>3 DEF FgStep, FgBegin, FgWord, FgPush
  <2>5. QED
    BY <2>1, <2>4 DEF FgStop, CleanStart, output
<1>5. CASE FgStep /\ ~(ctl \in {"resetWords", "launch"} /\ clean)
  <2>1. UNCHANGED <<ctl, clean>>
    BY <1>5 DEF FgStep, FgStop, FgBegin, FgWord, FgPush, control
  <2>2. QED
    BY <1>5, <2>1 DEF CleanStart
<1>6. CASE BoardConnects \/ BoardCloses
  BY <1>t, <1>6 DEF BoardConnects, BoardCloses, CleanStart, control, maker, output
<1>7. CASE RxRead \/ RxStep
  <2>1. UNCHANGED <<ctl, clean>> /\ rx # "off"
    BY <1>7 DEF RxRead, RxStep, RxAccepted, RxAbandon, RxEOF, RxPush, RxClose, control
  <2>2. QED
    BY <1>t, <2>1 DEF Threads, CleanStart
<1>8. CASE GetNext
  <2>1. ctl = "running" \/ GetNextReturns
    BY <1>8 DEF GetNext, GetNextThrows, GetNextSends
  <2>2. CASE ctl = "running"
    BY <1>2, <1>8, <2>2 DEF GetNext, GetNextThrows, GetNextSends, GetNextReturns, control
  <2>3. CASE GetNextReturns
    BY <1>t, <2>3 DEF GetNextReturns, CleanStart, control, maker, output
  <2>4. QED
    BY <2>1, <2>2, <2>3
<1>9. CASE StopRequest \/ (Transition /\ ~ResetWords)
  BY <1>2, <1>9 DEF StopRequest, Transition, LaunchReceiver, send_start, send_stop, StopReceiver,
     JoinReceiver, JoinFragments
<1>10. QED
  BY <1>1, <1>3, <1>4, <1>5, <1>6, <1>7, <1>8, <1>9 DEF Next

-----------------------------------------------------------------------------
(* THE WORDS ON THEIR WAY                                                  *)

(* Steps that move no word.                                                *)
LEMMA WordsStay ==
  ASSUME IInv,
         UNCHANGED <<wordBuffer, fgFrag, fgLeft, fragBuffer, sent, received, rxWord, nTS>>,
         clean' => clean, rx = "push" <=> rx' = "push", Receiving' => Receiving
  PROVE  Ordered' /\ CounterAgrees'
<1>1. Ordered /\ CounterAgrees
  BY DEF IInv
<1>2. /\ LastQueued' = LastQueued /\ LastPopped' = LastPopped /\ LastPacked' = LastPacked
      /\ Hand' = Hand
  BY DEF LastQueued, LastPopped, LastPacked, Hand
<1>3. Ordered'
  <2> SUFFICES ASSUME clean', Receiving' PROVE InLine' /\ Packed'
    BY DEF Ordered
  <2>1. InLine /\ Packed
    BY <1>1 DEF Ordered
  <2>2. InLine'
    BY <1>2, <2>1 DEF InLine
  <2>3. Packed'
    <3> DEFINE P(s, last, f) ==
                 /\ s <= last
                 /\ \A i \in 1 .. Len(f) : \A k \in 1 .. Len(f[i]) : f[i][k].n \in s + 1 .. last
                 /\ \A n \in s + 1 .. last :
                      \E i \in 1 .. Len(f) : \E k \in 1 .. Len(f[i]) : f[i][k].n = n
                 /\ \A i, j \in 1 .. Len(f) : \A k \in 1 .. Len(f[i]), l \in 1 .. Len(f[j]) :
                      i < j \/ (i = j /\ k < l) => f[i][k].n < f[j][l].n
    <3>1. P(sent, LastPacked, fragBuffer)
      BY <2>1 DEF Packed
    <3>2. Packed' <=> P(sent', LastPacked', fragBuffer')
      BY DEF Packed
    <3> HIDE DEF P
    <3>3. QED
      BY <1>2, <3>1, <3>2
  <2>4. QED
    BY <2>2, <2>3
<1>4. CounterAgrees'
  BY <1>1, <1>2 DEF CounterAgrees
<1>5. QED
  BY <1>3, <1>4

(* A run begins with nothing on the way.                                   *)
LEMMA LaunchReceiverStep ==
  ASSUME IInv, LaunchReceiver
  PROVE  Ordered' /\ CounterAgrees'
<1>1. BoardFacts /\ CleanStart /\ Threads
  BY FactsHold DEF IInv
<1>2. /\ ctl = "launch" /\ nTS' = 0 /\ rx' = "accept" /\ sent' = received
      /\ UNCHANGED <<clean, received, wordBuffer, fragBuffer, fgFrag, fgLeft, fg>>
  BY DEF LaunchReceiver, maker
<1>3. SUFFICES ASSUME clean PROVE InLine' /\ Packed' /\ nTS' = TSIn(wordBuffer') + TSIn(Hand')
  BY <1>2 DEF Ordered, CounterAgrees
<1>4. /\ wordBuffer' = <<>> /\ fragBuffer' = <<>> /\ fgFrag' = <<>> /\ fgLeft' = 0
      /\ Hand' = <<>>
  BY <1>1, <1>2, <1>3 DEF CleanStart, Threads, Hand
<1>5. /\ Len(wordBuffer') = 0 /\ Len(fragBuffer') = 0 /\ Len(fgFrag') = 0
  BY <1>4, EmptyFacts
<1>6. LastPacked' = received /\ LastPopped' = received
  BY <1>1, <1>2, <1>5 DEF LastQueued, LastPopped, LastPacked, BoardFacts
<1>7. InLine'
  BY <1>2, <1>4, <1>5 DEF InLine
<1>8. Packed'
  BY <1>1, <1>2, <1>5, <1>6 DEF Packed, BoardFacts
<1>9. nTS' = TSIn(wordBuffer') + TSIn(Hand')
  BY <1>2, <1>4, TSEmpty
<1>10. QED
  BY <1>7, <1>8, <1>9

(* What Ordered and CounterAgrees say of a run in progress.                *)
LEMMA OnTheWay ==
  ASSUME IInv, clean, Receiving
  PROVE  /\ InLine /\ Packed /\ nTS = TSIn(wordBuffer) + TSIn(Hand)
         /\ LastQueued = IF rx = "push" THEN received - 1 ELSE received
         /\ {LastQueued, LastPopped, LastPacked} \subseteq Int
         /\ LastPopped = LastQueued - Len(wordBuffer) /\ LastPacked = LastPopped - Len(fgFrag)
<1>1. BoardFacts
  BY FactsHold
<1>2. QED
  BY <1>1 DEF IInv, Ordered, CounterAgrees, LastQueued, LastPopped, LastPacked, BoardFacts

(* A word is read from the socket.                                         *)
LEMMA RxReadStep ==
  ASSUME IInv, RxRead
  PROVE  Ordered' /\ CounterAgrees'
<1>1. BoardFacts
  BY FactsHold
<1>2. /\ rx = "read" /\ rx' = "push" /\ received' = received + 1 /\ rxWord'.n = received + 1
      /\ rxWord' \in Word /\ nTS' = (IF IsTS(rxWord') THEN nTS + 1 ELSE nTS) % CounterRange
      /\ UNCHANGED <<ctl, clean, rxStop, wordBuffer, fgLeft, fgFrag, fragBuffer, sent>>
  BY <1>1, Constants DEF RxRead, BoardFacts, Word, IsTS, control, maker, output
<1>3. SUFFICES ASSUME clean, Receiving
               PROVE  InLine' /\ Packed' /\ nTS' = TSIn(wordBuffer') + TSIn(Hand')
  BY <1>2 DEF Ordered, CounterAgrees, Receiving
<1>4. /\ InLine /\ Packed /\ nTS = TSIn(wordBuffer) + TSIn(Hand)
  BY <1>3, OnTheWay
<1>5. LastQueued' = LastQueued /\ LastPopped' = LastPopped /\ LastPacked' = LastPacked
  BY <1>1, <1>2 DEF LastQueued, LastPopped, LastPacked, BoardFacts
<1>6. InLine' /\ Packed'
  BY <1>2, <1>4, <1>5 DEF InLine, Packed
<1>7. Hand = <<>> /\ Hand' = <<rxWord'>>
  BY <1>2 DEF Hand
<1>8. TSIn(Hand) = 0 /\ TSIn(Hand') = IF IsTS(rxWord') THEN 1 ELSE 0
  <2>1. TSIn(<<rxWord'>>) = IF IsTS(rxWord') THEN 1 ELSE 0
    BY TSOne
  <2>2. QED
    BY <1>7, <2>1, TSEmpty
<1>9. nTS \in 0 .. WordCapacity
  BY <1>1, <1>4, <1>8, TSFinite, Constants DEF BoardFacts
<1>10. (nTS + 1) % CounterRange = nTS + 1 /\ nTS % CounterRange = nTS
  BY <1>9, Constants
<1>11. nTS' = TSIn(wordBuffer') + TSIn(Hand')
  BY <1>1, <1>2, <1>4, <1>8, <1>9, <1>10, TSFinite DEF BoardFacts
<1>12. QED
  BY <1>6, <1>11

(* It goes into the queue; a word is only dropped when the run is over.    *)
LEMMA RxPushStep ==
  ASSUME IInv, RxPush
  PROVE  Ordered' /\ CounterAgrees'
<1>1. BoardFacts
  BY FactsHold
<1>2. /\ rx = "push" /\ rx' # "push"
      /\ rxStop \/ wordBuffer' = Append(wordBuffer, rxWord)
      /\ UNCHANGED <<ctl, clean, rxStop, received, nTS, fgLeft, fgFrag, fragBuffer, sent>>
  BY DEF RxPush, ReadOrLeave, control, maker, output
<1>3. SUFFICES ASSUME clean, Receiving
               PROVE  InLine' /\ Packed' /\ nTS' = TSIn(wordBuffer') + TSIn(Hand')
  BY <1>2 DEF Ordered, CounterAgrees, Receiving
<1>4. /\ InLine /\ Packed /\ nTS = TSIn(wordBuffer) + TSIn(Hand)
      /\ wordBuffer' = Append(wordBuffer, rxWord)
  BY <1>2, <1>3, OnTheWay DEF Receiving
<1>5. /\ Len(wordBuffer) \in Nat /\ Len(wordBuffer') = Len(wordBuffer) + 1
      /\ wordBuffer'[Len(wordBuffer) + 1] = rxWord
      /\ \A k \in 1 .. Len(wordBuffer) : wordBuffer'[k] = wordBuffer[k]
      /\ TSIn(wordBuffer') = TSIn(wordBuffer) + IF IsTS(rxWord) THEN 1 ELSE 0
  BY <1>1, <1>4, AppendFacts, TSAppend DEF BoardFacts
<1>6. /\ received \in Nat /\ Len(fgFrag) \in Nat /\ rxWord.n = received
      /\ LastPopped = received - 1 - Len(wordBuffer) /\ LastPopped' = received - Len(wordBuffer')
      /\ LastPacked = LastPopped - Len(fgFrag) /\ LastPacked' = LastPopped' - Len(fgFrag)
  BY <1>1, <1>2, <1>4 DEF BoardFacts, InLine, LastQueued, LastPopped, LastPacked
<1>7. LastPopped' = LastPopped /\ LastPacked' = LastPacked
  BY <1>5, <1>6
<1>8. Packed'
  BY <1>2, <1>4, <1>7 DEF Packed
<1>9. InLine'
  <2>1. ASSUME NEW k \in 1 .. Len(wordBuffer') PROVE wordBuffer'[k].n = LastPopped' + k
    <3>1. CASE k = Len(wordBuffer) + 1
      BY <1>5, <1>6, <3>1
    <3>2. CASE k # Len(wordBuffer) + 1
      BY <1>4, <1>5, <1>7, <3>2 DEF InLine
    <3>3. QED
      BY <3>1, <3>2
  <2>2. fgLeft' <= Len(wordBuffer')
    BY <1>1, <1>2, <1>4, <1>5 DEF InLine, BoardFacts
  <2>3. QED
    BY <1>2, <1>4, <1>7, <2>1, <2>2 DEF InLine
<1>10. nTS' = TSIn(wordBuffer') + TSIn(Hand')
  <2>1. Hand = <<rxWord>> /\ Hand' = <<>>
    BY <1>2 DEF Hand
  <2>2. TSIn(Hand') = 0 /\ TSIn(Hand) = IF IsTS(rxWord) THEN 1 ELSE 0
    BY <2>1, TSEmpty, TSOne
  <2>3. TSIn(wordBuffer) \in Nat
    BY <1>1, TSFinite DEF BoardFacts
  <2>4. QED
    BY <1>2, <1>4, <1>5, <2>2, <2>3
<1>11. QED
  BY <1>8, <1>9, <1>10

(* The fragment thread takes a word out of the queue.                      *)
LEMMA FgWordStep ==
  ASSUME IInv, FgWord
  PROVE  Ordered' /\ CounterAgrees'
<1>1. BoardFacts
  BY FactsHold
<1>2. UNCHANGED <<ctl, clean, rxStop, rx, rxWord, received, fragBuffer, sent>> /\ fgLeft > 0
  BY DEF FgWord, control, receiver, output
<1>3. SUFFICES ASSUME clean, Receiving
               PROVE  InLine' /\ Packed' /\ nTS' = TSIn(wordBuffer') + TSIn(Hand')
  BY <1>2 DEF Ordered, CounterAgrees, Receiving
<1>4. /\ InLine /\ Packed /\ nTS = TSIn(wordBuffer) + TSIn(Hand)
  BY <1>3, OnTheWay
<1>5. wordBuffer # <<>>
  <2>1. Len(wordBuffer) > 0
    BY <1>1, <1>2, <1>4 DEF InLine, BoardFacts
  <2>2. QED
    BY <2>1, EmptyFacts
<1> DEFINE w == Head(wordBuffer)
<1>6. /\ wordBuffer' = Tail(wordBuffer) /\ fgFrag' = Append(fgFrag, w)
      /\ nTS' = (IF IsTS(w) THEN nTS - 1 ELSE nTS) % CounterRange
      /\ fgLeft' \in {0, fgLeft - 1}
  BY <1>5 DEF FgWord
<1>7. /\ Len(wordBuffer) \in Nat \ {0} /\ w = wordBuffer[1] /\ w \in Word
      /\ Len(wordBuffer') = Len(wordBuffer) - 1
      /\ \A k \in 1 .. Len(wordBuffer) - 1 : wordBuffer'[k] = wordBuffer[k + 1]
      /\ TSIn(wordBuffer) = TSIn(wordBuffer') + IF IsTS(w) THEN 1 ELSE 0
  BY <1>1, <1>5, <1>6, TailFacts, TSTail DEF BoardFacts
<1> HIDE DEF w
<1>8. /\ Len(fgFrag) \in Nat /\ Len(fgFrag') = Len(fgFrag) + 1 /\ fgFrag'[Len(fgFrag) + 1] = w
      /\ \A k \in 1 .. Len(fgFrag) : fgFrag'[k] = fgFrag[k]
  BY <1>1, <1>6, <1>7, AppendFacts DEF BoardFacts
<1>9. /\ LastQueued \in Int /\ LastQueued' = LastQueued
      /\ LastPopped = LastQueued - Len(wordBuffer) /\ LastPopped' = LastQueued - Len(wordBuffer')
      /\ LastPacked = LastPopped - Len(fgFrag) /\ LastPacked' = LastPopped' - Len(fgFrag')
  BY <1>1, <1>2, <1>3, OnTheWay DEF LastQueued, LastPopped, LastPacked
<1>10. LastPopped' = LastPopped + 1 /\ LastPacked' = LastPacked
  BY <1>7, <1>8, <1>9
<1>11. Packed'
  BY <1>2, <1>4, <1>10 DEF Packed
<1>12. InLine'
  <2>1. ASSUME NEW k \in 1 .. Len(wordBuffer') PROVE wordBuffer'[k].n = LastPopped' + k
    <3>1. k + 1 \in 1 .. Len(wordBuffer) /\ k \in 1 .. Len(wordBuffer) - 1
      BY <1>7
    <3>2. wordBuffer[k + 1].n = LastPopped + (k + 1)
      BY <1>4, <3>1 DEF InLine
    <3>3. QED
      BY <1>7, <1>9, <1>10, <3>1, <3>2
  <2>2. ASSUME NEW k \in 1 .. Len(fgFrag') PROVE fgFrag'[k].n = LastPacked' + k
    <3>1. CASE k = Len(fgFrag) + 1
      <4>1. w.n = LastPopped + 1
        BY <1>4, <1>7 DEF InLine
      <4>2. QED
        BY <1>7, <1>8, <1>9, <1>10, <3>1, <4>1
    <3>2. CASE k # Len(fgFrag) + 1
      BY <1>4, <1>8, <1>10, <3>2 DEF InLine
    <3>3. QED
      BY <3>1, <3>2
  <2>3. fgLeft' <= Len(wordBuffer')
    BY <1>1, <1>2, <1>4, <1>6, <1>7 DEF InLine, BoardFacts
  <2>4. QED
    BY <1>2, <1>4, <2>1, <2>2, <2>3 DEF InLine
<1>13. nTS' = TSIn(wordBuffer') + TSIn(Hand')
  <2>1. Hand' = Hand
    BY <1>2 DEF Hand
  <2>2. TSIn(Hand) \in Nat
    <3>1. CASE rx = "push"
      <4>1. Hand = <<rxWord>>
        BY <3>1 DEF Hand
      <4>2. QED
        BY <4>1, TSOne
    <3>2. CASE rx # "push"
      BY <3>2, TSEmpty DEF Hand
    <3>3. QED
      BY <3>1, <3>2
  <2>3. TSIn(wordBuffer') \in Nat
    <3>1. wordBuffer' \in Seq(Word) /\ Len(wordBuffer') \in Nat
      BY <1>1, <1>5, <1>6, TailFacts DEF BoardFacts
    <3>2. QED
      BY <3>1, TSFinite
  <2>4. IF IsTS(w) THEN nTS - 1 \in 0 .. CounterRange - 1 ELSE nTS \in 0 .. CounterRange - 1
    <3>1. nTS \in 0 .. CounterRange - 1 /\ CounterRange \in Nat
      BY <1>1, Constants DEF BoardFacts
    <3>2. IsTS(w) => nTS >= 1
      BY <1>4, <1>7, <2>2, <2>3
    <3>3. QED
      BY <3>1, <3>2
  <2>5. nTS' = IF IsTS(w) THEN nTS - 1 ELSE nTS
    <3>1. CounterRange \in Nat \ {0} /\ \A x \in 0 .. CounterRange - 1 : x % CounterRange = x
      BY Constants
    <3>2. QED
      BY <1>6, <2>4, <3>1
  <2>6. QED
    BY <1>4, <1>7, <2>1, <2>2, <2>3, <2>5
<1>14. QED
  BY <1>11, <1>12, <1>13

(* A fragment is finished.                                                 *)
LEMMA FgPushStep ==
  ASSUME IInv, FgPush
  PROVE  Ordered' /\ CounterAgrees'
<1>1. BoardFacts
  BY FactsHold
<1>2. /\ UNCHANGED <<ctl, clean, rxStop, rx, rxWord, received, wordBuffer, nTS, fgLeft, sent>>
      /\ fragBuffer' = Append(fragBuffer, fgFrag) /\ fgFrag' = <<>>
  BY DEF FgPush, control, receiver, output
<1>3. SUFFICES ASSUME clean, Receiving
               PROVE  InLine' /\ Packed' /\ nTS' = TSIn(wordBuffer') + TSIn(Hand')
  BY <1>2 DEF Ordered, CounterAgrees, Receiving
<1>4. /\ InLine /\ Packed /\ nTS = TSIn(wordBuffer) + TSIn(Hand)
  BY <1>3, OnTheWay
<1>5. /\ LastQueued \in Int /\ LastPopped \in Int /\ LastPacked \in Int
      /\ LastPacked = LastPopped - Len(fgFrag) /\ Len(fgFrag) \in Nat
      /\ LastQueued' = LastQueued /\ LastPopped' = LastPopped
      /\ LastPacked' = LastPopped' - Len(fgFrag')
  BY <1>1, <1>2, <1>3, OnTheWay DEF LastQueued, LastPopped, LastPacked, BoardFacts
<1>6. LastPacked' = LastPopped
  <2>1. Len(fgFrag') = 0
    BY <1>2, EmptyFacts
  <2>2. QED
    BY <1>5, <2>1
<1>7. /\ Len(fragBuffer) \in Nat /\ Len(fragBuffer') = Len(fragBuffer) + 1
      /\ fragBuffer'[Len(fragBuffer) + 1] = fgFrag
      /\ \A i \in 1 .. Len(fragBuffer) : fragBuffer'[i] = fragBuffer[i]
  BY <1>1, <1>2, AppendFacts DEF BoardFacts
<1>8. InLine'
  <2>1. \A k : k \notin 1 .. Len(fgFrag')
    BY <1>2, EmptyFacts
  <2>2. QED
    BY <1>2, <1>4, <1>5, <2>1 DEF InLine
<1> DEFINE old == fragBuffer
           new == fragBuffer'
           N == Len(fragBuffer)
           n == Len(fgFrag)
<1>a. /\ N \in Nat /\ n \in Nat /\ sent \in Nat /\ LastPacked \in Int
      /\ LastPopped = LastPacked + n /\ Len(new) = N + 1 /\ new[N + 1] = fgFrag
      /\ \A i \in 1 .. N : new[i] = old[i]
  <2>1. sent \in Nat
    BY <1>1 DEF BoardFacts
  <2>2. LastPopped = LastPacked + Len(fgFrag)
    BY <1>5
  <2>3. QED
    BY <1>5, <1>7, <2>1, <2>2
<1>b. /\ sent <= LastPacked
      /\ \A k \in 1 .. n : fgFrag[k].n = LastPacked + k
      /\ \A i \in 1 .. N : \A k \in 1 .. Len(old[i]) : old[i][k].n \in sent + 1 .. LastPacked
      /\ \A m \in sent + 1 .. LastPacked :
           \E i \in 1 .. N : \E k \in 1 .. Len(old[i]) : old[i][k].n = m
      /\ \A i, j \in 1 .. N : \A k \in 1 .. Len(old[i]), l \in 1 .. Len(old[j]) :
           i < j \/ (i = j /\ k < l) => old[i][k].n < old[j][l].n
  BY <1>4 DEF InLine, Packed
<1> HIDE DEF old, new, N, n
<1>10. \A i \in 1 .. N + 1 : i \in 1 .. N \/ i = N + 1
  BY <1>a, <1>b
<1>11. ASSUME NEW i \in 1 .. N + 1, NEW k \in 1 .. Len(new[i])
       PROVE  new[i][k].n \in sent + 1 .. LastPopped
  <2>1. CASE i \in 1 .. N
    <3>1. new[i][k].n \in sent + 1 .. LastPacked
      BY <1>a, <1>b, <1>11, <2>1
    <3>2. QED
      BY <1>a, <1>b, <3>1
  <2>2. CASE i = N + 1
    <3>1. k \in 1 .. n /\ new[i][k].n = LastPacked + k
      BY <1>a, <1>b, <1>11, <2>2 DEF n
    <3>2. QED
      BY <1>a, <1>b, <3>1
  <2>3. QED
    BY <1>10, <2>1, <2>2
<1>12. ASSUME NEW m \in sent + 1 .. LastPopped
       PROVE  \E i \in 1 .. N + 1 : \E k \in 1 .. Len(new[i]) : new[i][k].n = m
  <2>1. CASE m \in sent + 1 .. LastPacked
    <3>1. PICK i \in 1 .. N : \E k \in 1 .. Len(old[i]) : old[i][k].n = m
      BY <1>a, <1>b, <2>1
    <3>2. i \in 1 .. N + 1 /\ new[i] = old[i]
      BY <1>a, <1>b
    <3>3. QED
      BY <3>1, <3>2
  <2>2. CASE m \notin sent + 1 .. LastPacked
    <3>1. m - LastPacked \in 1 .. n /\ LastPacked + (m - LastPacked) = m
      BY <1>a, <1>b, <2>2
    <3>2. N + 1 \in 1 .. N + 1 /\ Len(new[N + 1]) = n
      BY <1>a, <1>b DEF n
    <3>3. new[N + 1][m - LastPacked].n = m
      BY <1>a, <1>b, <3>1
    <3>4. QED
      BY <3>1, <3>2, <3>3
  <2>3. QED
    BY <2>1, <2>2
<1>13. ASSUME NEW i \in 1 .. N + 1, NEW j \in 1 .. N + 1,
              NEW k \in 1 .. Len(new[i]), NEW l \in 1 .. Len(new[j]),
              i < j \/ (i = j /\ k < l)
       PROVE  new[i][k].n < new[j][l].n
  <2>1. CASE j \in 1 .. N
    <3>1. i \in 1 .. N
      BY <1>a, <1>b, <1>13, <2>1
    <3>2. new[i] = old[i] /\ new[j] = old[j]
      BY <1>a, <1>b, <2>1, <3>1
    <3>3. QED
      BY <1>a, <1>b, <1>13, <2>1, <3>1, <3>2
  <2>2. CASE j = N + 1
    <3>1. new[j] = fgFrag /\ l \in 1 .. n /\ new[j][l].n = LastPacked + l
      BY <1>a, <1>b, <2>2 DEF n
    <3>2. CASE i \in 1 .. N
      <4>1. new[i][k].n \in sent + 1 .. LastPacked
        BY <1>a, <1>b, <3>2
      <4>2. QED
        BY <1>a, <1>b, <3>1, <4>1
    <3>3. CASE i = N + 1
      <4>1. k < l /\ k \in 1 .. n /\ new[i][k].n = LastPacked + k
        BY <1>a, <1>b, <1>13, <2>2, <3>3 DEF n
      <4>2. QED
        BY <1>a, <1>b, <3>1, <4>1
    <3>4. QED
      BY <1>10, <3>2, <3>3
  <2>3. QED
    BY <1>10, <2>1, <2>2
<1>14. Packed'
  <2>1. sent' = sent /\ LastPacked' = LastPopped /\ sent <= LastPopped /\ Len(fragBuffer') = N + 1
    BY <1>2, <1>6, <1>a, <1>b DEF new
  <2>2. QED
    BY <1>11, <1>12, <1>13, <2>1 DEF Packed, new
<1>15. Hand' = Hand
  BY <1>2 DEF Hand
<1>16. QED
  BY <1>2, <1>4, <1>8, <1>14, <1>15

(* getNext_ hands over what is in the fragment queue: the last word of the *)
(* last fragment that has any is the last one packed.                      *)
LEMMA GetNextSendsStep ==
  ASSUME IInv, GetNextSends
  PROVE  Ordered' /\ CounterAgrees'
<1>1. BoardFacts
  BY FactsHold
<1>2. /\ UNCHANGED <<ctl, clean, rxStop, rx, rxWord, received, wordBuffer, nTS, fgLeft, fgFrag>>
      /\ fragBuffer' = <<>>
  BY DEF GetNextSends, control, receiver, maker
<1>3. SUFFICES ASSUME clean, Receiving
               PROVE  InLine' /\ Packed' /\ nTS' = TSIn(wordBuffer') + TSIn(Hand')
  BY <1>2 DEF Ordered, CounterAgrees, Receiving
<1>4. /\ InLine /\ Packed /\ nTS = TSIn(wordBuffer) + TSIn(Hand)
  BY <1>3, OnTheWay
<1>5. /\ LastPacked \in Int /\ LastPopped' = LastPopped /\ LastPacked' = LastPacked /\ Hand' = Hand
  BY <1>2, <1>3, OnTheWay DEF LastQueued, LastPopped, LastPacked, Hand
<1>6. sent' = LastPacked
  <2>1. CASE (\A i \in 1 .. Len(fragBuffer) : fragBuffer[i] = <<>>) /\ UNCHANGED sent
    <3>1. \A i \in 1 .. Len(fragBuffer) : \A k : k \notin 1 .. Len(fragBuffer[i])
      BY <2>1, EmptyFacts
    <3>2. sent <= LastPacked /\ sent + 1 \notin sent + 1 .. LastPacked
      BY <1>4, <3>1 DEF Packed
    <3>3. sent \in Nat
      BY <1>1 DEF BoardFacts
    <3>4. QED
      BY <1>5, <2>1, <3>2, <3>3
  <2>2. ASSUME NEW i \in 1 .. Len(fragBuffer), fragBuffer[i] # <<>>,
               \A j \in i + 1 .. Len(fragBuffer) : fragBuffer[j] = <<>>,
               sent' = Last(fragBuffer[i]).n
        PROVE  sent' = LastPacked
    <3> DEFINE f == fragBuffer[i]
               k == Len(f)
    <3>1. f \in Seq(Word) /\ k \in Nat \ {0} /\ sent' = f[k].n
      <4>1. f \in Seq(Word)
        BY <1>1 DEF BoardFacts
      <4>2. QED
        BY <2>2, <4>1 DEF Last
    <3>2. f[k].n \in sent + 1 .. LastPacked
      BY <1>4, <3>1 DEF Packed
    <3> DEFINE e == f[k].n
    <3>e. /\ e \in Int /\ sent \in Nat /\ sent + 1 <= e /\ e <= LastPacked /\ sent' = e
      <4>1. sent \in Nat
        BY <1>1 DEF BoardFacts
      <4>2. QED
        BY <1>5, <3>1, <3>2, <4>1
    <3>f. \A j \in 1 .. Len(fragBuffer) : \A l \in 1 .. Len(fragBuffer[j]) :
            j < i \/ (j = i /\ l < k) => fragBuffer[j][l].n < e
      <4>1. k \in 1 .. Len(fragBuffer[i])
        BY <3>1
      <4>2. \A a, b \in 1 .. Len(fragBuffer) :
              \A c \in 1 .. Len(fragBuffer[a]), d \in 1 .. Len(fragBuffer[b]) :
                a < b \/ (a = b /\ c < d) => fragBuffer[a][c].n < fragBuffer[b][d].n
        BY <1>4 DEF Packed
      <4> HIDE DEF k
      <4>3. QED
        BY <4>1, <4>2
    <3> HIDE DEF e
    <3>3. LastPacked \in sent + 1 .. LastPacked
      BY <1>5, <3>e
    <3>4. PICK j \in 1 .. Len(fragBuffer) : \E l \in 1 .. Len(fragBuffer[j]) :
                 fragBuffer[j][l].n = LastPacked
      BY <1>4, <3>3 DEF Packed
    <3>5. PICK l \in 1 .. Len(fragBuffer[j]) : fragBuffer[j][l].n = LastPacked
      BY <3>4
    <3>6. j <= i
      <4>1. fragBuffer[j] # <<>>
        BY <3>5, EmptyFacts
      <4>2. j \notin i + 1 .. Len(fragBuffer)
        BY <2>2, <4>1
      <4>3. QED
        BY <1>1, <4>2 DEF BoardFacts
    <3>7. ~(LastPacked < e)
      BY <1>5, <3>e
    <3>8. j = i /\ l = k
      <4>1. ~(j < i \/ (j = i /\ l < k))
        BY <3>5, <3>7, <3>f
      <4>2. j = i
        BY <1>1, <3>6, <4>1 DEF BoardFacts
      <4>3. l \in 1 .. k
        BY <3>5, <4>2
      <4>4. QED
        BY <3>1, <4>1, <4>2, <4>3
    <3>9. QED
      BY <3>5, <3>8, <3>e DEF e
  <2>3. QED
    BY <2>1, <2>2 DEF GetNextSends
<1>7. InLine'
  BY <1>2, <1>4, <1>5 DEF InLine
<1>8. Packed'
  <2>1. \A i : i \notin 1 .. Len(fragBuffer')
    BY <1>2, EmptyFacts
  <2>2. sent' <= LastPacked' /\ \A n : n \notin sent' + 1 .. LastPacked'
    BY <1>5, <1>6
  <2>3. QED
    BY <2>1, <2>2 DEF Packed
<1>9. QED
  BY <1>2, <1>4, <1>5, <1>7, <1>8

(* Every step.                                                             *)
LEMMA WordsStep ==
  ASSUME IInv, Next
  PROVE  Ordered' /\ CounterAgrees'
<1>t. BoardFacts /\ Threads
  BY FactsHold DEF IInv
<1>1. CASE ~Receiving'
  BY <1>1 DEF Ordered, CounterAgrees
<1>2. CASE StartFragments \/ ResetWords \/ StopReceiver \/ JoinReceiver \/ JoinFragments
  <2>1. ~Receiving'
    BY <1>2 DEF StartFragments, ResetWords, StopReceiver, JoinReceiver, JoinFragments, Receiving
  <2>2. QED
    BY <1>1, <2>1
<1>3. CASE StopRequest \/ send_start \/ send_stop
  <2>1. /\ UNCHANGED <<wordBuffer, fgFrag, fgLeft, fragBuffer, sent, received, rxWord, nTS, clean, rx,
                      rxStop>>
        /\ ctl \in {"running", "sendStart", "sendStop"} \/ rxStop
    BY <1>t, <1>3 DEF StopRequest, send_start, send_stop, receiver, maker, output, Threads
  <2>2. Receiving' => Receiving
    BY <2>1 DEF Receiving
  <2>3. QED
    BY <2>1, <2>2, WordsStay
<1>4. CASE BoardConnects \/ BoardCloses \/ RxAccepted \/ RxAbandon \/ RxEOF \/ RxClose
           \/ FgStop \/ GetNextThrows \/ GetNextReturns
  <2>1. /\ UNCHANGED <<wordBuffer, fgFrag, fgLeft, fragBuffer, sent, received, rxWord, nTS, clean, rxStop>>
        /\ rx = "push" <=> rx' = "push"
        /\ ctl' = ctl \/ ctl = "running"
    BY <1>4 DEF BoardConnects, BoardCloses, RxAccepted, RxAbandon, RxEOF, RxClose, ReadOrLeave,
       FgStop, GetNextThrows, GetNextReturns, control, receiver, maker, output
  <2>2. Receiving' => Receiving
    BY <2>1 DEF Receiving
  <2>3. QED
    BY <2>1, <2>2, WordsStay
<1>5. CASE FgBegin
  <2>1. /\ UNCHANGED <<wordBuffer, fragBuffer, sent, received, rxWord, nTS, clean, rxStop, rx, ctl>>
        /\ fgFrag' = fgFrag /\ fgLeft' = Len(wordBuffer)
    BY <1>t, <1>5 DEF FgBegin, control, receiver, output, Threads
  <2>2. SUFFICES ASSUME clean, Receiving
                 PROVE  InLine' /\ Packed' /\ nTS' = TSIn(wordBuffer') + TSIn(Hand')
    BY <2>1 DEF Ordered, CounterAgrees, Receiving
  <2>3. InLine /\ Packed /\ nTS = TSIn(wordBuffer) + TSIn(Hand)
    BY <2>2, OnTheWay
  <2>4. LastPopped' = LastPopped /\ LastPacked' = LastPacked /\ Hand' = Hand
    BY <2>1 DEF LastQueued, LastPopped, LastPacked, Hand
  <2>5. fgLeft' <= Len(wordBuffer')
    BY <1>t, <2>1 DEF BoardFacts
  <2>6. InLine'
    BY <2>1, <2>3, <2>4, <2>5 DEF InLine
  <2>7. Packed'
    BY <2>1, <2>3, <2>4 DEF Packed
  <2>8. QED
    BY <2>1, <2>3, <2>4, <2>6, <2>7
<1>6. QED
  BY <1>2, <1>3, <1>4, <1>5, LaunchReceiverStep, RxReadStep, RxPushStep, FgWordStep, FgPushStep,
     GetNextSendsStep DEF Next, Transition, RxStep, FgStep, GetNext

-----------------------------------------------------------------------------
(* THE ORDER OF ALL WORDS                                                  *)

(* Four queues in a row.                                                   *)
LEMMA LineIs ==
  ASSUME NEW S, NEW s \in Seq(S), NEW a \in S, NEW b \in S, NEW c \in S
  PROVE  LET line == s \o <<a, b, c>>
         IN  /\ Len(s) \in Nat /\ Len(line) = Len(s) + 3
             /\ \A i \in 1 .. Len(s) : line[i] = s[i]
             /\ line[Len(s) + 1] = a /\ line[Len(s) + 2] = b /\ line[Len(s) + 3] = c
OBVIOUS

(* Queues in a row, numbered from end to end: the first N, in order, from  *)
(* p + 1 to a, and after them single ones with consecutive numbers.        *)
Leading(line, N, p, a) ==
  /\ \A i \in 1 .. N : \A k \in 1 .. Len(line[i]) : line[i][k].n \in p + 1 .. a
  /\ \A n \in p + 1 .. a : \E i \in 1 .. N : \E k \in 1 .. Len(line[i]) : line[i][k].n = n
  /\ \A i, j \in 1 .. N : \A k \in 1 .. Len(line[i]), l \in 1 .. Len(line[j]) :
       i < j \/ (i = j /\ k < l) => line[i][k].n < line[j][l].n

Counted(queue, last, size) ==
  Len(queue) = size /\ \A k \in 1 .. size : queue[k].n = last + k

(* Such a queue lengthens the row.                                         *)
LEMMA FrontGrows ==
  ASSUME NEW line, NEW N \in Nat, NEW p \in Int, NEW a \in Int, NEW f \in Nat,
         p <= a, Leading(line, N, p, a), Counted(line[N + 1], a, f)
  PROVE  Leading(line, N + 1, p, a + f)
<1>1. ASSUME NEW i \in 1 .. N, NEW k \in 1 .. Len(line[i])
      PROVE  line[i][k].n \in p + 1 .. a
  BY DEF Leading
<1>2. Len(line[N + 1]) = f
  BY DEF Counted
<1>3. ASSUME NEW k \in 1 .. Len(line[N + 1])
      PROVE  line[N + 1][k].n = a + k /\ k \in 1 .. f
  BY DEF Counted
<1>4. \A i \in 1 .. N + 1 : i \in 1 .. N \/ i = N + 1
  OBVIOUS
<1>5. ASSUME NEW i \in 1 .. N + 1, NEW k \in 1 .. Len(line[i])
      PROVE  line[i][k].n \in p + 1 .. a + f
  <2>1. CASE i \in 1 .. N
    <3>1. line[i][k].n \in p + 1 .. a
      BY <1>1, <2>1
    <3>2. \A x \in p + 1 .. a : x \in p + 1 .. a + f
      OBVIOUS
    <3>3. QED
      BY <3>1, <3>2
  <2>2. CASE i = N + 1
    <3>1. line[i][k].n = a + k /\ k \in 1 .. f
      BY <1>3, <2>2
    <3>2. \A x \in 1 .. f : a + x \in p + 1 .. a + f
      OBVIOUS
    <3>3. QED
      BY <3>1, <3>2
  <2>3. QED
    BY <1>4, <2>1, <2>2
<1>6. ASSUME NEW n \in p + 1 .. a + f
      PROVE  \E i \in 1 .. N + 1 : \E k \in 1 .. Len(line[i]) : line[i][k].n = n
  <2>1. CASE n \in p + 1 .. a
    <3>1. PICK i \in 1 .. N : \E k \in 1 .. Len(line[i]) : line[i][k].n = n
      BY <2>1 DEF Leading
    <3>2. i \in 1 .. N + 1
      OBVIOUS
    <3>3. QED
      BY <3>1, <3>2
  <2>2. CASE n \notin p + 1 .. a
    <3>1. n - a \in 1 .. f /\ a + (n - a) = n /\ N + 1 \in 1 .. N + 1
      BY <2>2
    <3>2. n - a \in 1 .. Len(line[N + 1])
      BY <1>2, <3>1
    <3>3. line[N + 1][n - a].n = n
      BY <1>3, <3>1, <3>2
    <3>4. QED
      BY <3>1, <3>2, <3>3
  <2>3. QED
    BY <2>1, <2>2
<1>7. ASSUME NEW i \in 1 .. N + 1, NEW j \in 1 .. N + 1,
             NEW k \in 1 .. Len(line[i]), NEW l \in 1 .. Len(line[j]),
             i < j \/ (i = j /\ k < l)
      PROVE  line[i][k].n < line[j][l].n
  <2>1. CASE j \in 1 .. N
    <3>1. i \in 1 .. N
      BY <1>7, <2>1
    <3>2. QED
      BY <1>7, <2>1, <3>1 DEF Leading
  <2>2. CASE j = N + 1 /\ i \in 1 .. N
    <3>1. line[i][k].n \in p + 1 .. a
      BY <1>1, <2>2
    <3>2. line[j][l].n = a + l /\ l \in 1 .. f
      BY <1>3, <2>2
    <3>3. \A x \in p + 1 .. a, y \in 1 .. f : x < a + y
      OBVIOUS
    <3>4. QED
      BY <3>1, <3>2, <3>3
  <2>3. CASE j = N + 1 /\ i = N + 1
    <3>1. line[i][k].n = a + k /\ k \in 1 .. f
      BY <1>3, <2>3
    <3>2. line[j][l].n = a + l /\ l \in 1 .. f
      BY <1>3, <2>3
    <3>3. k < l
      BY <1>7, <2>3
    <3>4. a + k < a + l
      BY <3>1, <3>2, <3>3
    <3>5. QED
      BY <3>1, <3>2, <3>4
  <2>4. QED
    BY <1>4, <2>1, <2>2, <2>3
<1>8. QED
  BY <1>5, <1>6, <1>7 DEF Leading

(* What is numbered from end to end is in order and complete.              *)
LEMMA InOrder ==
  ASSUME IInv
  PROVE  WordsOnce
<1>1. BoardFacts
  BY FactsHold
<1> SUFFICES ASSUME clean, Receiving
             PROVE  LET line == fragBuffer \o <<fgFrag, wordBuffer, Hand>>
                        number(i, k) == line[i][k].n
                    IN  /\ UNION {{number(i, k) : k \in 1 .. Len(line[i])} : i \in 1 .. Len(line)}
                             = sent + 1 .. received
                        /\ \A i, j \in 1 .. Len(line) :
                             \A k \in 1 .. Len(line[i]), l \in 1 .. Len(line[j]) :
                               i < j \/ (i = j /\ k < l) => number(i, k) < number(j, l)
  BY DEF WordsOnce
<1> DEFINE line == fragBuffer \o <<fgFrag, wordBuffer, Hand>>
           N == Len(fragBuffer)
           w == Len(wordBuffer)
           f == Len(fgFrag)
           h == Len(Hand)
<1>2. InLine /\ Packed
  BY OnTheWay
<1>3. Hand \in Seq(Word) /\ h = (IF rx = "push" THEN 1 ELSE 0) /\ (rx = "push" => Hand[1].n = received)
  BY <1>1, <1>2 DEF Hand, BoardFacts, InLine
<1>4. /\ received \in Int /\ sent \in Int /\ sent <= LastPacked
      /\ N \in Nat /\ f \in Nat /\ w \in Nat /\ h \in Nat
  BY <1>1, <1>2, <1>3 DEF BoardFacts, Packed
<1>5. /\ LastQueued = (IF rx = "push" THEN received - 1 ELSE received)
      /\ LastPopped = LastQueued - w /\ LastPacked = LastPopped - f
  BY DEF LastQueued, LastPopped, LastPacked
<1>6. /\ LastQueued \in Int /\ LastPopped \in Int /\ LastPacked \in Int
      /\ LastPopped = LastPacked + f /\ LastQueued = LastPopped + w /\ received = LastQueued + h
  <2> HIDE DEF f, w, h
  <2>1. LastQueued \in Int /\ received = LastQueued + h
    BY <1>3, <1>4, <1>5
  <2>2. LastPopped \in Int /\ LastQueued = LastPopped + w
    BY <1>4, <1>5, <2>1
  <2>3. LastPacked \in Int /\ LastPopped = LastPacked + f
    BY <1>4, <1>5, <2>2
  <2>4. QED
    BY <2>1, <2>2, <2>3
<1>7. /\ Len(line) = N + 3 /\ \A i \in 1 .. N : line[i] = fragBuffer[i]
      /\ line[N + 1] = fgFrag /\ line[N + 2] = wordBuffer /\ line[N + 3] = Hand
  BY <1>1, <1>3, LineIs DEF BoardFacts
<1>8. Leading(line, N, sent, LastPacked)
  <2>1. \A i \in 1 .. N : \A k \in 1 .. Len(line[i]) : line[i][k].n \in sent + 1 .. LastPacked
    <3> HIDE DEF line
    <3>1. QED
      BY <1>2, <1>7 DEF Packed
  <2>2. ASSUME NEW n \in sent + 1 .. LastPacked
        PROVE  \E i \in 1 .. N : \E k \in 1 .. Len(line[i]) : line[i][k].n = n
    <3>1. PICK i \in 1 .. N : \E k \in 1 .. Len(fragBuffer[i]) : fragBuffer[i][k].n = n
      BY <1>2 DEF Packed
    <3>2. line[i] = fragBuffer[i]
      BY <1>7
    <3> HIDE DEF line, N
    <3>3. QED
      BY <3>1, <3>2
  <2>3. ASSUME NEW i \in 1 .. N, NEW j \in 1 .. N,
               NEW k \in 1 .. Len(line[i]), NEW l \in 1 .. Len(line[j]),
               i < j \/ (i = j /\ k < l)
        PROVE  line[i][k].n < line[j][l].n
    <3>1. line[i] = fragBuffer[i] /\ line[j] = fragBuffer[j]
      BY <1>7
    <3>2. \A x \in 1 .. Len(fragBuffer[i]), y \in 1 .. Len(fragBuffer[j]) :
            i < j \/ (i = j /\ x < y) => fragBuffer[i][x].n < fragBuffer[j][y].n
      BY <1>2 DEF Packed
    <3> HIDE DEF line, N
    <3>3. QED
      BY <2>3, <3>1, <3>2
  <2> HIDE DEF line, N
  <2>4. QED
    BY <2>1, <2>2, <2>3 DEF Leading
<1>9. /\ Counted(line[N + 1], LastPacked, f) /\ Counted(line[N + 2], LastPopped, w)
      /\ Counted(line[N + 3], LastQueued, h)
  <2>1. \A k \in 1 .. h : Hand[k].n = LastQueued + k
    <3> SUFFICES ASSUME NEW k \in 1 .. h PROVE Hand[k].n = LastQueued + k
      OBVIOUS
    <3>1. rx = "push" /\ k = 1 /\ h = 1
      BY <1>3
    <3>2. QED
      BY <1>3, <1>6, <3>1
  <2> HIDE DEF line
  <2>2. QED
    BY <1>2, <1>7, <2>1 DEF InLine, Counted
<1> HIDE DEF line, N, w, f, h
<1>10. Leading(line, N + 1, sent, LastPopped) /\ sent <= LastPopped
  BY <1>4, <1>6, <1>8, <1>9, FrontGrows
<1>11. Leading(line, N + 2, sent, LastQueued) /\ sent <= LastQueued
  <2>1. N + 1 \in Nat /\ (N + 1) + 1 = N + 2
    BY <1>4
  <2>2. Leading(line, (N + 1) + 1, sent, LastPopped + w)
    BY <1>4, <1>6, <1>9, <1>10, <2>1, FrontGrows
  <2>3. QED
    BY <1>4, <1>6, <1>10, <2>1, <2>2
<1>12. Leading(line, N + 3, sent, received)
  <2>1. N + 2 \in Nat /\ (N + 2) + 1 = N + 3
    BY <1>4
  <2>2. Leading(line, (N + 2) + 1, sent, LastQueued + h)
    BY <1>4, <1>6, <1>9, <1>11, <2>1, FrontGrows
  <2>3. QED
    BY <1>4, <1>6, <2>1, <2>2
<1> DEFINE numbers == UNION {{line[i][k].n : k \in 1 .. Len(line[i])} : i \in 1 .. Len(line)}
<1>13. numbers = sent + 1 .. received
  <2>1. \A n \in numbers : n \in sent + 1 .. received
    BY <1>7, <1>12 DEF Leading
  <2>2. ASSUME NEW n \in sent + 1 .. received
        PROVE  n \in numbers
    <3>1. PICK i \in 1 .. N + 3 : \E k \in 1 .. Len(line[i]) : line[i][k].n = n
      BY <1>12 DEF Leading
    <3>2. n \in {line[i][k].n : k \in 1 .. Len(line[i])}
      BY <3>1
    <3>3. i \in 1 .. Len(line)
      BY <1>7
    <3>4. QED
      BY <3>2, <3>3
  <2> HIDE DEF numbers
  <2>3. QED
    BY <2>1, <2>2
<1>14. \A i, j \in 1 .. Len(line) : \A k \in 1 .. Len(line[i]), l \in 1 .. Len(line[j]) :
         i < j \/ (i = j /\ k < l) => line[i][k].n < line[j][l].n
  BY <1>7, <1>12 DEF Leading
<1>15. QED
  BY <1>13, <1>14 DEF line

-----------------------------------------------------------------------------
(* THE INVARIANT                                                           *)

(* Types of the locations and flags.                                       *)
LEMMA ControlTypes ==
  ASSUME IInv, Next
  PROVE  /\ ctl' \in {"stopped", "resetWords", "launch", "sendStart", "running", "sendStop",
                      "stopReceiver", "joinReceiver", "joinFragments", "failed"}
         /\ gn' \in {"on", "sending", "stopping", "over"} /\ runs' \in 0 .. MaxRuns
         /\ conn' \in {"none", "open", "closed"}
         /\ rx' \in {"off", "accept", "abandon", "read", "push", "close"}
         /\ fg' \in {"off", "check", "make"}
         /\ throw_exception_' \in BOOLEAN /\ running' \in BOOLEAN /\ stopRequested' \in BOOLEAN
         /\ rxStop' \in BOOLEAN /\ rxError' \in BOOLEAN /\ fgError' \in BOOLEAN /\ clean' \in BOOLEAN
<1>t. /\ ctl \in {"stopped", "resetWords", "launch", "sendStart", "running", "sendStop",
                  "stopReceiver", "joinReceiver", "joinFragments", "failed"}
      /\ gn \in {"on", "sending", "stopping", "over"} /\ runs \in 0 .. MaxRuns
      /\ conn \in {"none", "open", "closed"}
      /\ rx \in {"off", "accept", "abandon", "read", "push", "close"}
      /\ fg \in {"off", "check", "make"}
      /\ throw_exception_ \in BOOLEAN /\ running \in BOOLEAN /\ stopRequested \in BOOLEAN
      /\ rxStop \in BOOLEAN /\ rxError \in BOOLEAN /\ fgError \in BOOLEAN /\ clean \in BOOLEAN
  BY DEF IInv, TypeOK
<1>1. CASE StartFragments
  <2>1. runs < MaxRuns /\ runs' = runs + 1
    BY <1>1 DEF StartFragments
  <2>2. runs' \in 0 .. MaxRuns
    BY <1>t, <2>1, Constants
  <2>3. clean' \in BOOLEAN
    BY <1>1 DEF StartFragments
  <2>4. /\ stopRequested' = FALSE /\ fg' = "check" /\ ctl' = "resetWords"
        /\ UNCHANGED <<throw_exception_, gn, running, conn, rxStop, rx, rxError, fgError>>
    BY <1>1 DEF StartFragments, receiver
  <2>5. QED
    BY <1>t, <2>2, <2>3, <2>4
<1>2. CASE StopRequest
  BY <1>t, <1>2 DEF StopRequest, receiver, maker
<1>3. CASE ResetWords \/ LaunchReceiver
  BY <1>t, <1>3 DEF ResetWords, LaunchReceiver, receiver, maker
<1>4. CASE send_start \/ send_stop \/ StopReceiver
  BY <1>t, <1>4 DEF send_start, send_stop, StopReceiver, receiver, maker
<1>5. CASE JoinReceiver \/ JoinFragments
  BY <1>t, <1>5 DEF JoinReceiver, JoinFragments, receiver, maker
<1>6. CASE BoardConnects \/ BoardCloses
  BY <1>t, <1>6 DEF BoardConnects, BoardCloses, control, receiver, maker
<1>7. CASE RxRead
  BY <1>t, <1>7 DEF RxRead, control, maker
<1>8. CASE RxStep
  BY <1>t, <1>8 DEF RxStep, RxAccepted, RxAbandon, RxEOF, RxPush, RxClose, ReadOrLeave, control, maker
<1>9. CASE FgStep
  <2>1. /\ UNCHANGED <<ctl, gn, runs, conn, rx, throw_exception_, running, stopRequested, rxStop,
                      rxError, clean>>
        /\ fg' \in {"off", "check", "make"}
    BY <1>t, <1>9 DEF FgStep, FgStop, FgBegin, FgWord, FgPush, control, receiver
  <2>2. fgError' = fgError \/ \E kind : fgError' = (fgError \/ kind = "fb")
    BY <1>9 DEF FgStep, FgStop, FgBegin, FgWord, FgPush
  <2>3. fgError' \in BOOLEAN
    BY <1>t, <2>2
  <2>4. QED
    BY <1>t, <2>1, <2>3
<1>10. CASE GetNextThrows
  BY <1>t, <1>10 DEF GetNextThrows, receiver, maker
<1>11. CASE GetNextSends
  BY <1>t, <1>11 DEF GetNextSends, control, receiver, maker
<1>12. CASE GetNextReturns
  BY <1>t, <1>12 DEF GetNextReturns, control, receiver, maker
<1>13. QED
  BY <1>1, <1>2, <1>3, <1>4, <1>5, <1>6, <1>7, <1>8, <1>9, <1>10, <1>11, <1>12
     DEF Next, Transition, GetNext

(* Types of the words and queues.                                          *)
LEMMA WordTypes ==
  ASSUME IInv, Next
  PROVE  /\ received' \in 0 .. MaxWords /\ sent' \in 0 .. MaxWords
         /\ wordBuffer' \in Seq(Word) /\ Len(wordBuffer') <= WordCapacity
         /\ rxWord' \in Word /\ tempWord' \in Word /\ nTS' \in 0 .. CounterRange - 1
         /\ fgLeft' \in 0 .. WordCapacity /\ fgFrag' \in Seq(Word)
         /\ fragBuffer' \in Seq(Seq(Word)) /\ Len(fragBuffer') <= FragCapacity
<1>t. /\ received \in 0 .. MaxWords /\ sent \in 0 .. MaxWords
      /\ wordBuffer \in Seq(Word) /\ Len(wordBuffer) \in Nat /\ Len(wordBuffer) <= WordCapacity
      /\ rxWord \in Word /\ tempWord \in Word /\ nTS \in 0 .. CounterRange - 1
      /\ fgLeft \in 0 .. WordCapacity /\ fgFrag \in Seq(Word)
      /\ fragBuffer \in Seq(Seq(Word)) /\ Len(fragBuffer) \in Nat /\ Len(fragBuffer) <= FragCapacity
      /\ \A i \in 1 .. Len(fragBuffer) : fragBuffer[i] \in Seq(Word)
  BY FactsHold, Constants DEF BoardFacts
<1>e. <<>> \in Seq(Word) /\ <<>> \in Seq(Seq(Word)) /\ Len(<<>>) = 0 /\ NoWord \in Word
  BY EmptyFacts, WordFacts
<1>1. CASE UNCHANGED <<received, sent, wordBuffer, rxWord, tempWord, nTS, fgLeft, fgFrag, fragBuffer>>
  BY <1>t, <1>1
<1>2. CASE ResetWords \/ JoinFragments
  <2>1. /\ UNCHANGED <<received, sent, rxWord, tempWord, nTS, fgLeft, fgFrag>>
        /\ \/ wordBuffer' = <<>> /\ fragBuffer' = fragBuffer
           \/ wordBuffer' = wordBuffer /\ fragBuffer' = <<>>
    BY <1>2 DEF ResetWords, JoinFragments, receiver, maker, output
  <2>2. 0 <= WordCapacity /\ 0 <= FragCapacity
    BY Constants
  <2>3. wordBuffer' \in Seq(Word) /\ Len(wordBuffer') <= WordCapacity
    BY <1>t, <1>e, <2>1, <2>2
  <2>4. fragBuffer' \in Seq(Seq(Word)) /\ Len(fragBuffer') <= FragCapacity
    BY <1>t, <1>e, <2>1, <2>2
  <2>5. QED
    BY <1>t, <2>1, <2>3, <2>4
<1>3. CASE LaunchReceiver
  <2>1. /\ UNCHANGED <<received, wordBuffer, rxWord, tempWord, fgLeft, fgFrag, fragBuffer>>
        /\ sent' = received /\ nTS' = 0
    BY <1>3 DEF LaunchReceiver, maker
  <2>2. QED
    BY <1>t, <2>1, Constants
<1>4. CASE RxRead
  <2>1. /\ received < MaxWords /\ received' = received + 1
        /\ UNCHANGED <<sent, wordBuffer, tempWord, fgLeft, fgFrag, fragBuffer>>
        /\ rxWord' \in {[n |-> received + 1, kind |-> kind] : kind \in {"ts", "trigger", "fb"}}
        /\ nTS' \in {(nTS + 1) % CounterRange, nTS % CounterRange}
    BY <1>4 DEF RxRead, maker, output
  <2>2. received' \in 0 .. MaxWords /\ received + 1 \in 1 .. MaxWords
    BY <1>t, <2>1, Constants
  <2>3. rxWord' \in Word
    BY <2>1, <2>2 DEF Word
  <2>4. nTS' \in 0 .. CounterRange - 1
    BY <1>t, <2>1, Constants
  <2>5. QED
    BY <1>t, <2>1, <2>2, <2>3, <2>4
<1>5. CASE RxPush
  <2>1. /\ UNCHANGED <<received, sent, tempWord, nTS, fgLeft, fgFrag, fragBuffer>>
        /\ rxWord' = NoWord
        /\ \/ wordBuffer' = wordBuffer
           \/ Len(wordBuffer) < WordCapacity /\ wordBuffer' = Append(wordBuffer, rxWord)
    BY <1>5 DEF RxPush, maker, output
  <2>2. wordBuffer' \in Seq(Word) /\ Len(wordBuffer') <= WordCapacity
    <3>1. /\ Append(wordBuffer, rxWord) \in Seq(Word)
          /\ Len(Append(wordBuffer, rxWord)) = Len(wordBuffer) + 1
      BY <1>t, AppendFacts
    <3>2. CASE wordBuffer' = wordBuffer
      BY <1>t, <3>2
    <3>3. CASE Len(wordBuffer) < WordCapacity /\ wordBuffer' = Append(wordBuffer, rxWord)
      <4>1. Len(wordBuffer) + 1 <= WordCapacity
        BY <1>t, <3>3, Constants
      <4>2. QED
        BY <3>1, <3>3, <4>1
    <3>4. QED
      BY <2>1, <3>2, <3>3
  <2>3. QED
    BY <1>t, <1>e, <2>1, <2>2
<1>6. CASE FgBegin
  <2>1. /\ UNCHANGED <<received, sent, wordBuffer, rxWord, tempWord, nTS, fragBuffer>>
        /\ fgLeft' = Len(wordBuffer) /\ fgFrag' = <<>>
    BY <1>6 DEF FgBegin, receiver, output
  <2>2. fgLeft' \in 0 .. WordCapacity
    BY <1>t, <2>1, Constants
  <2>3. QED
    BY <1>t, <1>e, <2>1, <2>2
<1>7. CASE FgWord
  <2> DEFINE word == IF wordBuffer = <<>> THEN tempWord ELSE Head(wordBuffer)
  <2>1. /\ UNCHANGED <<received, sent, rxWord, fragBuffer>>
        /\ fgLeft > 0 /\ fgLeft' \in {0, fgLeft - 1}
        /\ tempWord' = word /\ fgFrag' = Append(fgFrag, word)
        /\ nTS' \in {(nTS - 1) % CounterRange, nTS % CounterRange}
        /\ wordBuffer' = IF wordBuffer = <<>> THEN wordBuffer ELSE Tail(wordBuffer)
    BY <1>7 DEF FgWord, receiver, output
  <2>2. word \in Word
    BY <1>t, TailFacts
  <2> HIDE DEF word
  <2>3. wordBuffer' \in Seq(Word) /\ Len(wordBuffer') <= WordCapacity
    <3>1. CASE wordBuffer = <<>>
      BY <1>t, <2>1, <3>1
    <3>2. CASE wordBuffer # <<>>
      <4>1. wordBuffer' \in Seq(Word) /\ Len(wordBuffer') = Len(wordBuffer) - 1
        BY <1>t, <2>1, <3>2, TailFacts
      <4>2. QED
        BY <1>t, <4>1, Constants
    <3>3. QED
      BY <3>1, <3>2
  <2>4. fgFrag' \in Seq(Word)
    BY <1>t, <2>1, <2>2, AppendFacts
  <2>5. nTS' \in 0 .. CounterRange - 1
    <3>1. nTS \in Int /\ CounterRange \in Nat \ {0}
      BY <1>t, Constants
    <3>2. (nTS - 1) % CounterRange \in 0 .. CounterRange - 1
      BY <3>1
    <3>3. nTS % CounterRange \in 0 .. CounterRange - 1
      BY <3>1
    <3>4. QED
      BY <2>1, <3>2, <3>3
  <2>6. fgLeft' \in 0 .. WordCapacity
    BY <1>t, <2>1, Constants
  <2>7. QED
    BY <1>t, <2>1, <2>2, <2>3, <2>4, <2>5, <2>6
<1>8. CASE FgPush
  <2>1. /\ UNCHANGED <<received, sent, wordBuffer, rxWord, tempWord, nTS, fgLeft>>
        /\ Len(fragBuffer) < FragCapacity /\ fragBuffer' = Append(fragBuffer, fgFrag)
        /\ fgFrag' = <<>>
    BY <1>8 DEF FgPush, receiver, output
  <2>2. fragBuffer' \in Seq(Seq(Word)) /\ Len(fragBuffer') = Len(fragBuffer) + 1
    BY <1>t, <2>1, AppendFacts
  <2>3. QED
    BY <1>t, <1>e, <2>1, <2>2, Constants
<1>9. CASE GetNextSends
  <2>1. /\ UNCHANGED <<received, wordBuffer, rxWord, tempWord, nTS, fgLeft, fgFrag>>
        /\ fragBuffer' = <<>>
    BY <1>9 DEF GetNextSends, receiver, maker
  <2>2. sent' \in 0 .. MaxWords
    <3>1. CASE UNCHANGED sent
      BY <1>t, <3>1
    <3>2. ASSUME NEW i \in 1 .. Len(fragBuffer), fragBuffer[i] # <<>>, sent' = Last(fragBuffer[i]).n
          PROVE  sent' \in 0 .. MaxWords
      <4>1. fragBuffer[i] \in Seq(Word)
        BY <1>t
      <4>2. Last(fragBuffer[i]) \in Word
        BY <3>2, <4>1 DEF Last
      <4>3. QED
        BY <3>2, <4>2, WordFacts
    <3>3. QED
      BY <1>9, <3>1, <3>2 DEF GetNextSends
  <2>3. Len(fragBuffer') <= FragCapacity /\ fragBuffer' \in Seq(Seq(Word))
    BY <1>e, <2>1, Constants
  <2>4. QED
    BY <1>t, <2>1, <2>2, <2>3
<1>10. CASE \/ StartFragments \/ StopRequest \/ send_start \/ send_stop \/ StopReceiver \/ JoinReceiver
            \/ BoardConnects \/ BoardCloses \/ RxAccepted \/ RxAbandon \/ RxEOF \/ RxClose
            \/ FgStop \/ GetNextThrows \/ GetNextReturns
  <2>1. UNCHANGED <<received, sent, wordBuffer, rxWord, tempWord, nTS, fgLeft, fgFrag, fragBuffer>>
    BY <1>10 DEF StartFragments, StopRequest, send_start, send_stop, StopReceiver, JoinReceiver,
       BoardConnects, BoardCloses, RxAccepted, RxAbandon, RxEOF, RxClose, FgStop, GetNextThrows,
       GetNextReturns, receiver, maker, output
  <2>2. QED
    BY <1>1, <2>1
<1>11. QED
  BY <1>2, <1>3, <1>4, <1>5, <1>6, <1>7, <1>8, <1>9, <1>10 DEF Next, Transition, RxStep, FgStep, GetNext

(* The initial states.                                                     *)
LEMMA InitIInv == Init => IInv
<1> SUFFICES ASSUME Init PROVE IInv
  OBVIOUS
<1>e. <<>> \in Seq(Word) /\ <<>> \in Seq(Seq(Word)) /\ Len(<<>>) = 0 /\ NoWord \in Word
  BY EmptyFacts, WordFacts
<1>1. TypeOK
  <2>1. throw_exception_ \in BOOLEAN
    BY DEF Init
  <2>2. {throw_exception_, running, stopRequested, rxStop, rxError, fgError, clean} \subseteq BOOLEAN
    BY <2>1 DEF Init
  <2>3. Len(wordBuffer) <= WordCapacity /\ Len(fragBuffer) <= FragCapacity
    BY <1>e, Constants DEF Init
  <2>4. QED
    BY <1>e, <2>2, <2>3, Constants DEF Init, TypeOK
<1>2. Threads /\ CleanStart
  BY DEF Init, Threads, CleanStart
<1>3. ~Receiving
  BY DEF Init, Receiving
<1>4. QED
  BY <1>1, <1>2, <1>3 DEF IInv, Ordered, CounterAgrees

(* Every step keeps the invariant.                                         *)
LEMMA NextIInv == IInv /\ [Next]_vars => IInv'
<1> SUFFICES ASSUME IInv, [Next]_vars PROVE IInv'
  OBVIOUS
<1>1. CASE Next
  <2>1. {throw_exception_', running', stopRequested', rxStop', rxError', fgError', clean'}
          \subseteq BOOLEAN
    BY <1>1, ControlTypes
  <2>2. TypeOK'
    BY <1>1, <2>1, ControlTypes, WordTypes DEF TypeOK
  <2>3. QED
    BY <1>1, <2>2, ThreadsStep, CleanStartStep, WordsStep DEF IInv
<1>2. CASE UNCHANGED vars
  <2>0. /\ UNCHANGED <<throw_exception_, ctl, runs, running, stopRequested, clean, gn, conn, rxStop>>
        /\ UNCHANGED <<rx, rxWord, received, rxError, wordBuffer, nTS>>
        /\ UNCHANGED <<fg, fgLeft, fgFrag, tempWord, fgError, fragBuffer, sent>>
    BY <1>2 DEF vars, control, receiver, maker, output
  <2>1. TypeOK' /\ Threads' /\ CleanStart'
    BY <2>0 DEF IInv, TypeOK, Threads, CleanStart
  <2>2. Receiving' => Receiving
    BY <2>0 DEF Receiving
  <2>3. Ordered' /\ CounterAgrees'
    BY <2>0, <2>2, WordsStay
  <2>4. QED
    BY <2>1, <2>3 DEF IInv
<1>3. QED
  BY <1>1, <1>2

-----------------------------------------------------------------------------
(* THEOREMS                                                                *)

(* The inductive invariant holds in every reachable state.                 *)
THEOREM Invariance == Spec => []IInv
<1>1. QED
  BY InitIInv, NextIInv, PTL DEF Spec

(* Between socket and artdaq no word is lost, repeated or overtaken, and   *)
(* _n_TS_words is the number of timestamp words that the fragment thread   *)
(* has still to see, whatever the receiver, the fragment thread, getNext_, *)
(* start() and stop() do between two steps of one another.                 *)
THEOREM WordsInOrder == Spec => []Inv
<1>1. IInv => Inv
  BY InOrder DEF IInv, Inv
<1>2. QED
  BY <1>1, Invariance, PTL

-----------------------------------------------------------------------------
(* THE CONTENTS OF THE FRAGMENTS                                           *)

(* Of the first n words of s: those with HLT h, the gates of h after the   *)
(* word p, and the timestamp words that count.                             *)
Having(s, n, h) == {j \in 1 .. n : h \in s[j].bits}
GatesAfter(s, p, n, h) == {j \in p + 1 .. n : IsGate(s[j], h)}
Stamps(s) == {k \in 1 .. Len(s) : s[k].kind = "ts" /\ s[k].time # 0}

Largest(S, m) == m \in S /\ \A x \in S : x <= m
Smallest(S, m) == m \in S /\ \A x \in S : m <= x

LoggedWord ==
  [kind : {"ts", "beam_gate", "other", "hlt"}, time : 0 .. MaxLogged, bits : SUBSET Bits,
   gates : NoGates .. MaxLogged, prev : Unwritten .. MaxLogged]

LogTyped ==
  /\ log \in Seq(LoggedWord) /\ Len(log) <= MaxLogged
  /\ first \in 1 .. Len(log) + 1
  /\ \A k \in 1 .. Len(log) : log[k].time \in {0, k}
  /\ numGates \in [Stream -> Nat] /\ prevHLT \in [Stream -> Nat]
  /\ timestamp \in 0 .. MaxLogged /\ lastTimestamp \in 0 .. MaxLogged

(* prevHLTxxTS is the last word with the HLT, over all fragments, and      *)
(* numGates the gates since.                                               *)
CountersTrue ==
  \A h \in Stream :
    /\ Largest({0} \cup Having(log, Len(log), h), prevHLT[h])
    /\ numGates[h] = Cardinality(GatesAfter(log, prevHLT[h], Len(log), h))

(* What ExposureTrue says of the k-th word of s.                           *)
WordTrue(s, k) ==
  s[k].bits \cap Stream # {} =>
    LET h == Reported(s[k])
    IN  /\ Largest({0} \cup Having(s, k - 1, h), s[k].prev)
        /\ s[k].gates = Cardinality(GatesAfter(s, s[k].prev, k, h))

WordsTrue == \A k \in 1 .. Len(log) : WordTrue(log, k)

(* The timestamp this fragment opened with, and the one for the next.      *)
OpensWith(S, f, t) ==
  LET before == {k \in S : k < f}
  IN  /\ before # {} => Largest(before, t)
      /\ before = {} /\ S # {} => Smallest(S, t)
      /\ S = {} => t = Invalid

StampsTrue ==
  /\ IF Stamps(log) = {} THEN lastTimestamp = Invalid ELSE Largest(Stamps(log), lastTimestamp)
  /\ OpensWith(Stamps(log), first, timestamp)

ContentsIInv == LogTyped /\ CountersTrue /\ WordsTrue /\ StampsTrue

-----------------------------------------------------------------------------
(* The largest and the smallest of a set of numbers are what the operators *)
(* of the specification choose.                                            *)
LEMMA LargestIsMax ==
  ASSUME NEW S \in SUBSET Int, NEW m, Largest(S, m)
  PROVE  Max(S) = m
<1>1. m \in S /\ \A x \in S : m >= x
  BY DEF Largest
<1>2. ASSUME NEW y \in S, \A x \in S : y >= x PROVE y = m
  BY <1>1, <1>2
<1>3. Max(S) \in S /\ \A x \in S : Max(S) >= x
  BY <1>1 DEF Max
<1>4. QED
  BY <1>2, <1>3

LEMMA SmallestIsMin ==
  ASSUME NEW S \in SUBSET Int, NEW m, Smallest(S, m)
  PROVE  Min(S) = m
<1>1. m \in S /\ \A x \in S : m <= x
  BY DEF Smallest
<1>2. ASSUME NEW y \in S, \A x \in S : y <= x PROVE y = m
  BY <1>1, <1>2
<1>3. Min(S) \in S /\ \A x \in S : Min(S) <= x
  BY <1>1 DEF Min
<1>4. QED
  BY <1>2, <1>3

(* Order has every HLT that is counted, once.                              *)
LEMMA OrderOfStream ==
  /\ DOMAIN Order = 1 .. 9
  /\ \A k \in 1 .. 9 : Order[k] \in Stream
  /\ \A h \in Stream : \E k \in 1 .. 9 : Order[k] = h
  /\ \A j, k \in 1 .. 9 : Order[j] = Order[k] => j = k
  /\ Stream \subseteq Nat
<1>1. /\ DOMAIN Order = 1 .. 9
      /\ Order[1] = 1 /\ Order[2] = 6 /\ Order[3] = 2 /\ Order[4] = 3 /\ Order[5] = 4
      /\ Order[6] = 16 /\ Order[7] = 17 /\ Order[8] = 22 /\ Order[9] = 23
  BY DEF Order
<1>2. Stream = {1, 2, 3, 4, 6, 16, 17, 22, 23}
  BY DEF Stream, BeamStream, OffBeamStream
<1>3. \A h \in Stream : \E k \in 1 .. 9 : Order[k] = h
  BY <1>1, <1>2
<1>4. \A j, k \in 1 .. 9 : Order[j] = Order[k] => j = k
  BY <1>1
<1>5. QED
  BY <1>1, <1>2, <1>3, <1>4

(* Where in Order the HLTs of a word are.                                  *)
Places(bits) == {k \in DOMAIN Order : Order[k] \in bits}

(* Places in Order have a last one.                                        *)
LEMMA LastPlace ==
  ASSUME NEW S \in SUBSET (1 .. 9), S # {}
  PROVE  \E m \in S : Largest(S, m)
<1> DEFINE Below(n) == \A x \in S : x < n
<1>1. Below(10) /\ ~Below(1)
  <2>1. PICK x \in S : x \in 1 .. 9
    OBVIOUS
  <2>2. QED
    BY <2>1
<1>2. \A n \in 1 .. 9 : Below(n + 1) /\ n \in S => Largest(S, n)
  BY DEF Largest
<1>3. \A n \in 1 .. 9 : Below(n + 1) /\ n \notin S => Below(n)
  OBVIOUS
<1> HIDE DEF Below
<1>4. \A n \in 1 .. 9 : Below(n + 1) => Below(n) \/ \E m \in S : Largest(S, m)
  BY <1>2, <1>3
<1>5. \/ Below(9) \/ \E m \in S : Largest(S, m)
  BY <1>1, <1>4
<1>6. \/ Below(5) \/ \E m \in S : Largest(S, m)
  BY <1>4, <1>5
<1>7. QED
  BY <1>1, <1>4, <1>6

(* The HLT that HLTWord lets win is the one that is reported.              *)
LEMMA WinnerReported ==
  ASSUME NEW word, Places(word.bits) # {}
  PROVE  /\ Order[Max(Places(word.bits))] = Reported(word)
         /\ Reported(word) \in word.bits \cap Stream
<1> DEFINE places == Places(word.bits)
<1>1. places \in SUBSET (1 .. 9) /\ places \in SUBSET Int
  BY OrderOfStream DEF Places
<1>2. PICK m \in places : Largest(places, m)
  BY <1>1, LastPlace
<1>3. Max(places) = m
  BY <1>1, <1>2, LargestIsMax
<1> DEFINE Wins(h) == h \in word.bits \cap Stream /\
             \A other \in word.bits \cap Stream :
               \A i, j \in DOMAIN Order : Order[i] = h /\ Order[j] = other => j <= i
<1>4. Wins(Order[m])
  <2>1. Order[m] \in word.bits \cap Stream
    BY <1>1, <1>2, OrderOfStream DEF Places
  <2>2. ASSUME NEW other \in word.bits \cap Stream, NEW i \in DOMAIN Order,
               NEW j \in DOMAIN Order, Order[i] = Order[m], Order[j] = other
        PROVE  j <= i
    <3>1. i = m
      BY <1>1, <2>2, OrderOfStream
    <3>2. j \in places
      BY <2>2 DEF Places
    <3>3. QED
      BY <1>2, <3>1, <3>2 DEF Largest
  <2>3. QED
    BY <2>1, <2>2
<1>5. ASSUME NEW h, Wins(h) PROVE h = Order[m]
  <2>1. PICK i \in 1 .. 9 : Order[i] = h
    BY <1>5, OrderOfStream
  <2>2. i \in places /\ i \in DOMAIN Order /\ m \in DOMAIN Order
    BY <1>1, <1>5, <2>1, OrderOfStream DEF Places
  <2>3. m <= i
    BY <1>4, <1>5, <2>1, <2>2
  <2>4. i <= m
    BY <1>2, <2>2 DEF Largest
  <2>5. QED
    BY <2>1, <2>2, <2>3, <2>4, OrderOfStream
<1>6. Reported(word) = CHOOSE h \in word.bits \cap Stream :
        \A other \in word.bits \cap Stream :
          \A i, j \in DOMAIN Order : Order[i] = h /\ Order[j] = other => j <= i
  BY DEF Reported
<1>7. Wins(Reported(word))
  BY <1>4, <1>6
<1>8. Reported(word) = Order[m]
  BY <1>5, <1>7
<1>9. QED
  BY <1>3, <1>7, <1>8

(* Gates can be counted, and there are no more than words.                 *)
LEMMA GatesFinite ==
  ASSUME NEW s, NEW n \in Nat, NEW p \in Nat, NEW h
  PROVE  /\ IsFiniteSet(GatesAfter(s, p, n, h))
         /\ Cardinality(GatesAfter(s, p, n, h)) \in 0 .. n
<1>1. GatesAfter(s, p, n, h) \in SUBSET (1 .. n)
  BY DEF GatesAfter
<1>2. IsFiniteSet(1 .. n) /\ Cardinality(1 .. n) = n
  BY FS_Interval
<1>3. QED
  BY <1>1, <1>2, FS_Subset, FS_CardinalityType

Gate(w, h) == IF IsGate(w, h) THEN 1 ELSE 0

(* A word more may be a gate more.                                         *)
LEMMA OneMoreWord ==
  ASSUME NEW s \in Seq(LoggedWord), NEW w \in LoggedWord, NEW h, NEW p \in Nat, p <= Len(s)
  PROVE  LET t == Append(s, w)
             n == Len(s)
         IN  Cardinality(GatesAfter(t, p, n + 1, h)) =
               Cardinality(GatesAfter(s, p, n, h)) + Gate(w, h)
<1> DEFINE t == Append(s, w)
           n == Len(s)
           old == GatesAfter(s, p, n, h)
           new == GatesAfter(t, p, n + 1, h)
<1>1. /\ n \in Nat /\ t[n + 1] = w
      /\ \A j \in 1 .. n : t[j] = s[j]
  OBVIOUS
<1> HIDE DEF t, n
<1>2. IsFiniteSet(old) /\ Cardinality(old) \in Nat
  BY <1>1, GatesFinite
<1>3. CASE IsGate(w, h)
  <2>1. new = old \cup {n + 1}
    BY <1>1, <1>3 DEF GatesAfter, n
  <2>2. n + 1 \notin old
    BY <1>1 DEF GatesAfter
  <2> HIDE DEF old, new
  <2>3. Cardinality(new) = Cardinality(old) + 1
    BY <1>2, <2>1, <2>2, FS_AddElement
  <2>4. QED
    BY <1>3, <2>3 DEF Gate, t, n, old, new
<1>4. CASE ~IsGate(w, h)
  <2>1. new = old
    BY <1>1, <1>4 DEF GatesAfter
  <2>2. QED
    BY <1>2, <1>4, <2>1 DEF Gate, t, n
<1>5. QED
  BY <1>3, <1>4

(* What is true of a word stays true as more words follow.                 *)
LEMMA WordStays ==
  ASSUME NEW s \in Seq(LoggedWord), NEW w \in LoggedWord, NEW k \in 1 .. Len(s), WordTrue(s, k)
  PROVE  WordTrue(Append(s, w), k)
<1> DEFINE t == Append(s, w)
           h == Reported(s[k])
           p == s[k].prev
<1>1. \A j \in 1 .. k : t[j] = s[j]
  OBVIOUS
<1>2. t[k] = s[k]
  BY <1>1
<1> SUFFICES ASSUME s[k].bits \cap Stream # {}
    PROVE  /\ Largest({0} \cup Having(t, k - 1, h), p)
           /\ s[k].gates = Cardinality(GatesAfter(t, p, k, h))
  BY <1>2 DEF WordTrue
<1> HIDE DEF t, h
<1>3. /\ Largest({0} \cup Having(s, k - 1, h), p)
      /\ s[k].gates = Cardinality(GatesAfter(s, p, k, h))
  BY DEF WordTrue, h
<1>4. Having(t, k - 1, h) = Having(s, k - 1, h)
  BY <1>1 DEF Having
<1>5. p \in Nat
  BY <1>3 DEF Largest, Having
<1>6. GatesAfter(t, p, k, h) = GatesAfter(s, p, k, h)
  BY <1>1, <1>5 DEF GatesAfter
<1>7. QED
  BY <1>3, <1>4, <1>6

(* A word that is given the gates since the last word with its HLT, and    *)
(* that word's time, leaves the counters right for the next.               *)
LEMMA WordAdded ==
  ASSUME LogTyped, CountersTrue, WordsTrue, NEW w \in LoggedWord, log' = Append(log, w),
         w.bits \cap Stream # {} =>
           LET h == Reported(w)
           IN  w.prev = prevHLT[h] /\ w.gates = numGates[h] + Gate(w, h),
         \A h \in Stream :
           /\ prevHLT'[h] = IF h \in w.bits THEN Len(log) + 1 ELSE prevHLT[h]
           /\ numGates'[h] = IF h \in w.bits THEN 0 ELSE numGates[h] + Gate(w, h)
  PROVE  CountersTrue' /\ WordsTrue'
<1> DEFINE n == Len(log)
           t == Append(log, w)
<1>1. /\ log \in Seq(LoggedWord) /\ n \in Nat /\ Len(t) = n + 1 /\ t[n + 1] = w
      /\ \A j \in 1 .. n : t[j] = log[j]
  BY DEF LogTyped
<1>2. ASSUME NEW h \in Stream
      PROVE  /\ prevHLT[h] \in 0 .. n
             /\ Largest({0} \cup Having(log, n, h), prevHLT[h])
             /\ Having(t, n, h) = Having(log, n, h)
             /\ Cardinality(GatesAfter(t, prevHLT[h], n + 1, h)) = numGates[h] + Gate(w, h)
  <2>1. /\ Largest({0} \cup Having(log, n, h), prevHLT[h])
        /\ numGates[h] = Cardinality(GatesAfter(log, prevHLT[h], n, h))
    BY DEF CountersTrue
  <2>2. prevHLT[h] \in 0 .. n
    BY <1>1, <2>1 DEF Largest, Having
  <2>3. Having(t, n, h) = Having(log, n, h)
    BY <1>1 DEF Having
  <2>4. QED
    BY <1>1, <2>1, <2>2, <2>3, OneMoreWord
<1> HIDE DEF n, t
<1>3. CountersTrue'
  <2> SUFFICES ASSUME NEW h \in Stream
      PROVE  /\ Largest({0} \cup Having(t, n + 1, h), prevHLT'[h])
             /\ numGates'[h] = Cardinality(GatesAfter(t, prevHLT'[h], n + 1, h))
    BY <1>1 DEF CountersTrue, t
  <2>1. CASE h \in w.bits
    <3>1. prevHLT'[h] = n + 1 /\ numGates'[h] = 0
      BY <2>1 DEF n
    <3>2. Largest({0} \cup Having(t, n + 1, h), n + 1)
      BY <1>1, <2>1 DEF Largest, Having
    <3>3. GatesAfter(t, n + 1, n + 1, h) = {}
      BY <1>1 DEF GatesAfter
    <3>4. QED
      BY <3>1, <3>2, <3>3, FS_EmptySet
  <2>2. CASE h \notin w.bits
    <3>1. prevHLT'[h] = prevHLT[h] /\ numGates'[h] = numGates[h] + Gate(w, h)
      BY <2>2
    <3>2. Having(t, n + 1, h) = Having(t, n, h)
      BY <1>1, <2>2 DEF Having
    <3>3. QED
      BY <1>2, <3>1, <3>2
  <2>3. QED
    BY <2>1, <2>2
<1>4. WordsTrue'
  <2> SUFFICES ASSUME NEW k \in 1 .. n + 1 PROVE WordTrue(t, k)
    BY <1>1 DEF WordsTrue, t
  <2>1. CASE k \in 1 .. n
    <3>1. WordTrue(log, k)
      BY <2>1 DEF WordsTrue, n
    <3>2. QED
      BY <1>1, <2>1, <3>1, WordStays DEF t, n
  <2>2. CASE k = n + 1
    <3> SUFFICES ASSUME w.bits \cap Stream # {}
        PROVE  /\ Largest({0} \cup Having(t, n, Reported(w)), w.prev)
               /\ w.gates = Cardinality(GatesAfter(t, w.prev, n + 1, Reported(w)))
      <4>1. t[k] = w /\ k - 1 = n
        BY <1>1, <2>2
      <4>2. QED
        BY <2>2, <4>1 DEF WordTrue
    <3>1. Reported(w) \in Stream
      <4>1. Places(w.bits) # {}
        <5>1. PICK h \in Stream : h \in w.bits
          OBVIOUS
        <5>2. PICK j \in DOMAIN Order : Order[j] = h
          BY OrderOfStream
        <5>3. QED
          BY <5>1, <5>2 DEF Places
      <4>2. QED
        BY <4>1, WinnerReported
    <3>2. w.prev = prevHLT[Reported(w)] /\ w.gates = numGates[Reported(w)] + Gate(w, Reported(w))
      OBVIOUS
    <3>3. QED
      BY <1>2, <3>1, <3>2
  <2>3. QED
    BY <1>1, <2>1, <2>2
<1>5. QED
  BY <1>3, <1>4

(* The counters stay within the words there are.                           *)
LEMMA CountersBounded ==
  ASSUME LogTyped, CountersTrue, NEW h \in Stream
  PROVE  numGates[h] \in 0 .. Len(log) /\ prevHLT[h] \in 0 .. Len(log) /\ Len(log) \in Nat
<1>1. Len(log) \in Nat
  BY DEF LogTyped
<1>2. prevHLT[h] \in 0 .. Len(log)
  BY <1>1 DEF CountersTrue, Largest, Having
<1>3. numGates[h] \in 0 .. Len(log)
  <2>1. numGates[h] = Cardinality(GatesAfter(log, prevHLT[h], Len(log), h))
    BY DEF CountersTrue
  <2>2. prevHLT[h] \in Nat
    BY <1>1, <1>2
  <2>3. QED
    BY <1>1, <2>1, <2>2, GatesFinite
<1>4. QED
  BY <1>1, <1>2, <1>3

(* A word put into the log keeps its type.                                 *)
LEMMA LogAppended ==
  ASSUME LogTyped, NEW w \in LoggedWord, Len(log) < MaxLogged, log' = Append(log, w),
         w.time \in {0, Len(log) + 1}, first' = first,
         numGates' \in [Stream -> Nat], prevHLT' \in [Stream -> Nat],
         timestamp' \in 0 .. MaxLogged, lastTimestamp' \in 0 .. MaxLogged
  PROVE  LogTyped'
<1>1. /\ log \in Seq(LoggedWord) /\ Len(log) \in Nat /\ first \in 1 .. Len(log) + 1
      /\ MaxLogged \in Nat
  BY FragmentAssumption DEF LogTyped
<1>2. /\ log' \in Seq(LoggedWord) /\ Len(log') = Len(log) + 1 /\ log'[Len(log) + 1] = w
      /\ \A k \in 1 .. Len(log) : log'[k] = log[k]
  BY <1>1
<1>3. \A k \in 1 .. Len(log') : log'[k].time \in {0, k}
  BY <1>1, <1>2 DEF LogTyped
<1>4. QED
  BY <1>1, <1>2, <1>3 DEF LogTyped

(* A word that is no valid timestamp leaves the times of this fragment and *)
(* the next alone; a valid one is the time of the next, and of this if     *)
(* there was none before.                                                  *)
LEMMA StampAdded ==
  ASSUME LogTyped, StampsTrue, NEW w \in LoggedWord, log' = Append(log, w), first' = first,
         IF w.kind = "ts" /\ w.time # 0
           THEN /\ lastTimestamp' = Len(log) + 1
                /\ timestamp' = IF timestamp = Invalid THEN Len(log) + 1 ELSE timestamp
           ELSE lastTimestamp' = lastTimestamp /\ timestamp' = timestamp
  PROVE  StampsTrue'
<1> DEFINE n == Len(log)
           S == Stamps(log)
           T == Stamps(log')
<1>1. /\ n \in Nat /\ Len(log') = n + 1 /\ log'[n + 1] = w
      /\ \A k \in 1 .. n : log'[k] = log[k]
      /\ first \in 1 .. n + 1
  BY DEF LogTyped
<1>2. S \subseteq 1 .. n
  BY DEF Stamps
<1>3. T = S \cup (IF w.kind = "ts" /\ w.time # 0 THEN {n + 1} ELSE {})
  BY <1>1 DEF Stamps
<1>4. /\ IF S = {} THEN lastTimestamp = 0 ELSE Largest(S, lastTimestamp)
      /\ {k \in S : k < first} # {} => Largest({k \in S : k < first}, timestamp)
      /\ {k \in S : k < first} = {} /\ S # {} => Smallest(S, timestamp)
      /\ S = {} => timestamp = 0
  BY DEF StampsTrue, OpensWith, Invalid
<1> HIDE DEF n, S, T
<1>5. CASE w.kind = "ts" /\ w.time # 0
  <2>1. T = S \cup {n + 1} /\ lastTimestamp' = n + 1
    BY <1>3, <1>5 DEF n
  <2>2. timestamp' = IF timestamp = 0 THEN n + 1 ELSE timestamp
    BY <1>5 DEF n, Invalid
  <2>3. Largest(T, lastTimestamp')
    BY <1>1, <1>2, <2>1 DEF Largest
  <2>4. {k \in T : k < first} = {k \in S : k < first}
    BY <1>1, <2>1
  <2>5. timestamp = 0 <=> S = {}
    BY <1>2, <1>4 DEF Largest, Smallest
  <2>6. {k \in S : k < first} # {} => Largest({k \in T : k < first}, timestamp')
    BY <1>4, <2>2, <2>4, <2>5
  <2>7. {k \in S : k < first} = {} => Smallest(T, timestamp')
    <3>1. CASE S = {}
      BY <1>1, <2>1, <2>2, <2>5, <3>1 DEF Smallest
    <3>2. CASE S # {}
      BY <1>1, <1>2, <1>4, <2>1, <2>2, <2>5, <3>2 DEF Smallest
    <3>3. QED
      BY <3>1, <3>2
  <2>8. OpensWith(T, first, timestamp')
    BY <2>1, <2>4, <2>6, <2>7 DEF OpensWith
  <2>9. QED
    BY <2>1, <2>3, <2>8 DEF StampsTrue, T
<1>6. CASE ~(w.kind = "ts" /\ w.time # 0)
  <2>1. T = S
    BY <1>3, <1>6
  <2>2. lastTimestamp' = lastTimestamp /\ timestamp' = timestamp
    BY <1>6
  <2>3. QED
    BY <2>1, <2>2 DEF StampsTrue, S, T
<1>7. QED
  BY <1>5, <1>6

-----------------------------------------------------------------------------
(* THE STEPS OF CreateFragment                                             *)

(* A timestamp word adds no exposure, and is what later fragments open     *)
(* with if it is valid.                                                    *)
LEMMA TSWordStep ==
  ASSUME ContentsIInv, TSWord
  PROVE  ContentsIInv'
<1> DEFINE n == Len(log)
           after == IF Open(Cardinality(TSInFragment) + 1) THEN 0 ELSE Unwritten
<1>a. PICK time \in {n + 1, 0} :
        /\ Put("ts", time, {}, NoGates, after)
        /\ lastTimestamp' = IF time = 0 THEN lastTimestamp ELSE time
        /\ timestamp' = IF timestamp = Invalid THEN lastTimestamp' ELSE timestamp
  BY DEF TSWord
<1> DEFINE w == [kind |-> "ts", time |-> time, bits |-> {}, gates |-> NoGates,
                 prev |-> after]
<1>b. n < MaxLogged /\ log' = Append(log, w)
  BY <1>a DEF Put
<1>c. UNCHANGED <<numGates, prevHLT, first>>
  BY DEF TSWord
<1>d. w.prev \in {0, Unwritten}
  OBVIOUS
<1>1. /\ w.kind = "ts" /\ w.time = time /\ w.bits = {}
      /\ w \in [kind : {"ts"}, time : {time}, bits : {{}}, gates : {NoGates},
                 prev : {0, Unwritten}]
      /\ n < MaxLogged /\ log' = Append(log, w)
      /\ lastTimestamp' = IF time = 0 THEN lastTimestamp ELSE time
      /\ timestamp' = IF timestamp = Invalid THEN lastTimestamp' ELSE timestamp
      /\ UNCHANGED <<numGates, prevHLT, first>>
  BY <1>a, <1>b, <1>c, <1>d
<1> HIDE DEF w, after
<1>2. LogTyped /\ CountersTrue /\ WordsTrue /\ StampsTrue
  BY DEF ContentsIInv
<1>3. n \in Nat /\ MaxLogged \in Nat
  BY <1>2, FragmentAssumption DEF LogTyped
<1>4. w \in LoggedWord
  BY <1>1, <1>3 DEF LoggedWord, NoGates, Unwritten
<1>5. /\ lastTimestamp' \in 0 .. MaxLogged /\ timestamp' \in 0 .. MaxLogged
      /\ numGates' \in [Stream -> Nat] /\ prevHLT' \in [Stream -> Nat]
  BY <1>1, <1>2, <1>3 DEF LogTyped
<1>6. LogTyped'
  BY <1>1, <1>2, <1>3, <1>4, <1>5, LogAppended
<1>7. CountersTrue' /\ WordsTrue'
  <2>1. ASSUME NEW h \in Stream
        PROVE  /\ prevHLT'[h] = prevHLT[h] /\ h \notin w.bits
               /\ numGates'[h] = numGates[h] + Gate(w, h)
    BY <1>1, <1>2, CountersBounded DEF Gate, IsGate
  <2>2. w.bits \cap Stream = {}
    BY <1>1
  <2>3. QED
    BY <1>1, <1>2, <1>4, <2>1, <2>2, WordAdded
<1>8. StampsTrue'
  <2>1. timestamp = Invalid => Stamps(log) = {} /\ lastTimestamp = Invalid
    BY <1>2 DEF StampsTrue, OpensWith, Largest, Smallest, Stamps, Invalid
  <2>2. QED
    BY <1>1, <1>2, <1>3, <1>4, <2>1, StampAdded DEF Invalid
<1>9. QED
  BY <1>6, <1>7, <1>8 DEF ContentsIInv

(* A beam gate is one more for the HLTs of the beam.                       *)
LEMMA LLTWordStep ==
  ASSUME ContentsIInv, LLTWord
  PROVE  ContentsIInv'
<1> DEFINE n == Len(log)
<1>1. PICK w :
        /\ w \in [kind : {"beam_gate", "other"}, time : {n + 1}, bits : {{}}, gates : {NoGates},
                   prev : {0}]
        /\ n < MaxLogged /\ log' = Append(log, w)
        /\ numGates' = [h \in Stream |-> IF w.kind = "beam_gate" /\ h \in BeamStream
                                           THEN numGates[h] + 1 ELSE numGates[h]]
        /\ UNCHANGED <<prevHLT, first, timestamp, lastTimestamp>>
  BY DEF LLTWord, Put, GateWord
<1>2. LogTyped /\ CountersTrue /\ WordsTrue /\ StampsTrue
  BY DEF ContentsIInv
<1>3. n \in Nat /\ MaxLogged \in Nat
  BY <1>2, FragmentAssumption DEF LogTyped
<1>4. w \in LoggedWord
  BY <1>1, <1>3 DEF LoggedWord, NoGates, Unwritten
<1>5. /\ numGates' \in [Stream -> Nat] /\ prevHLT' \in [Stream -> Nat]
      /\ lastTimestamp' \in 0 .. MaxLogged /\ timestamp' \in 0 .. MaxLogged
  BY <1>1, <1>2 DEF LogTyped
<1>6. LogTyped'
  BY <1>1, <1>2, <1>4, <1>5, LogAppended
<1>7. CountersTrue' /\ WordsTrue'
  <2>1. ASSUME NEW h \in Stream
        PROVE  /\ prevHLT'[h] = prevHLT[h] /\ h \notin w.bits
               /\ numGates'[h] = numGates[h] + Gate(w, h)
    BY <1>1, <1>2, CountersBounded DEF Gate, IsGate
  <2>2. w.bits \cap Stream = {}
    BY <1>1
  <2>3. QED
    BY <1>1, <1>2, <1>4, <2>1, <2>2, WordAdded
<1>8. StampsTrue'
  BY <1>1, <1>2, <1>4, StampAdded
<1>9. QED
  BY <1>6, <1>7, <1>8 DEF ContentsIInv

(* An HLT word takes the gates of the HLT that wins, its own off-beam gate *)
(* included, and those of all its HLTs start anew.                         *)
LEMMA HLTWordStep ==
  ASSUME ContentsIInv, NEW bits \in SUBSET Bits, HLTWord(bits)
  PROVE  ContentsIInv'
<1> DEFINE n == Len(log)
           counted == [h \in Stream |-> IF 27 \in bits /\ h \in OffBeamStream
                                          THEN numGates[h] + 1 ELSE numGates[h]]
           winner == Order[Max(Places(bits))]
           gates == IF Places(bits) = {} THEN NoGates ELSE counted[winner]
           prev == IF Places(bits) = {} THEN 0 ELSE prevHLT[winner]
           w == [kind |-> "hlt", time |-> n + 1, bits |-> bits, gates |-> gates,
                 prev |-> prev]
<1>a. /\ n < MaxLogged
      /\ numGates' = [h \in Stream |-> IF h \in bits THEN 0 ELSE counted[h]]
      /\ prevHLT' = [h \in Stream |-> IF h \in bits THEN n + 1 ELSE prevHLT[h]]
      /\ UNCHANGED <<first, timestamp, lastTimestamp>>
  BY DEF HLTWord, Put, Places
<1>b. log' = Append(log, w)
  <2>1. CASE Places(bits) = {}
    BY <2>1 DEF HLTWord, Put, Places
  <2>2. CASE Places(bits) # {}
    BY <2>2 DEF HLTWord, Put, Places
  <2>3. QED
    BY <2>1, <2>2
<1>1. /\ w = [kind |-> "hlt", time |-> n + 1, bits |-> bits, gates |-> w.gates,
              prev |-> w.prev]
      /\ IF Places(bits) = {} THEN w.gates = NoGates /\ w.prev = 0
                              ELSE w.gates = counted[winner] /\ w.prev = prevHLT[winner]
      /\ n < MaxLogged /\ log' = Append(log, w)
      /\ numGates' = [h \in Stream |-> IF h \in bits THEN 0 ELSE counted[h]]
      /\ prevHLT' = [h \in Stream |-> IF h \in bits THEN n + 1 ELSE prevHLT[h]]
      /\ UNCHANGED <<first, timestamp, lastTimestamp>>
  BY <1>a, <1>b
<1> HIDE DEF w, gates, prev
<1>2. LogTyped /\ CountersTrue /\ WordsTrue /\ StampsTrue
  BY DEF ContentsIInv
<1>3. n \in Nat /\ MaxLogged \in Nat
  BY <1>2, FragmentAssumption DEF LogTyped
<1>4. w.kind = "hlt" /\ w.time = n + 1 /\ w.bits = bits
  BY <1>1
<1>5. ASSUME NEW h \in Stream
      PROVE  /\ counted[h] = numGates[h] + Gate(w, h) /\ counted[h] \in 0 .. n + 1
             /\ prevHLT[h] \in 0 .. n
  <2>1. h \in BeamStream <=> h \notin OffBeamStream
    BY DEF Stream, BeamStream, OffBeamStream
  <2>2. IsGate(w, h) <=> 27 \in bits /\ h \in OffBeamStream
    BY <1>4, <2>1 DEF IsGate
  <2>3. numGates[h] \in 0 .. n /\ prevHLT[h] \in 0 .. n
    BY <1>2, CountersBounded
  <2>4. QED
    BY <1>3, <2>2, <2>3 DEF Gate
<1>6. Places(bits) # {} => winner = Reported(w) /\ winner \in Stream
  BY <1>4, WinnerReported
<1> HIDE DEF counted, winner
<1>7. w \in LoggedWord
  <2>1. w.gates \in NoGates .. MaxLogged /\ w.prev \in Unwritten .. MaxLogged
    BY <1>1, <1>3, <1>5, <1>6 DEF NoGates, Unwritten
  <2>2. QED
    BY <1>1, <1>3, <2>1 DEF LoggedWord
<1>8. LogTyped'
  <2>1. numGates' \in [Stream -> Nat] /\ prevHLT' \in [Stream -> Nat]
    BY <1>1, <1>3, <1>5
  <2>2. timestamp' \in 0 .. MaxLogged /\ lastTimestamp' \in 0 .. MaxLogged
    BY <1>1, <1>2 DEF LogTyped
  <2>3. QED
    BY <1>1, <1>2, <1>4, <1>7, <2>1, <2>2, LogAppended
<1>9. CountersTrue' /\ WordsTrue'
  <2>1. ASSUME NEW h \in Stream
        PROVE  /\ prevHLT'[h] = IF h \in w.bits THEN n + 1 ELSE prevHLT[h]
               /\ numGates'[h] = IF h \in w.bits THEN 0 ELSE numGates[h] + Gate(w, h)
    BY <1>1, <1>4, <1>5
  <2>2. ASSUME w.bits \cap Stream # {} PROVE Places(bits) # {}
    <3>1. PICK h \in Stream : h \in bits
      BY <1>4, <2>2
    <3>2. PICK j \in DOMAIN Order : Order[j] = h
      BY OrderOfStream
    <3>3. QED
      BY <3>1, <3>2 DEF Places
  <2>3. w.bits \cap Stream # {} =>
          w.prev = prevHLT[Reported(w)]
          /\ w.gates = numGates[Reported(w)] + Gate(w, Reported(w))
    BY <1>1, <1>5, <1>6, <2>2
  <2>4. QED
    BY <1>1, <1>2, <1>7, <2>1, <2>3, WordAdded
<1>10. StampsTrue'
  BY <1>1, <1>2, <1>4, <1>7, StampAdded
<1>11. QED
  BY <1>8, <1>9, <1>10 DEF ContentsIInv

(* The next fragment opens with the last timestamp; no counter is reset.   *)
LEMMA NextFragmentStep ==
  ASSUME ContentsIInv, NextFragment
  PROVE  ContentsIInv'
<1> USE DEF ContentsIInv, NextFragment
<1>1. Len(log) \in Nat /\ log \in Seq(LoggedWord)
  BY DEF LogTyped
<1>2. LogTyped'
  BY <1>1 DEF LogTyped
<1>3. CountersTrue' /\ WordsTrue'
  BY DEF CountersTrue, WordsTrue
<1>4. StampsTrue'
  <2> DEFINE S == Stamps(log)
  <2>1. {k \in S : k < first'} = S
    BY <1>1 DEF Stamps
  <2>2. timestamp' = lastTimestamp /\ lastTimestamp' = lastTimestamp /\ Stamps(log') = S
    OBVIOUS
  <2> HIDE DEF S
  <2>3. IF S = {} THEN lastTimestamp = Invalid ELSE Largest(S, lastTimestamp)
    BY DEF StampsTrue, S
  <2>4. OpensWith(S, first', timestamp')
    BY <2>1, <2>2, <2>3 DEF OpensWith
  <2>5. QED
    BY <2>2, <2>3, <2>4 DEF StampsTrue
<1>5. QED
  BY <1>2, <1>3, <1>4

(* With nothing read all of it holds.                                      *)
LEMMA InitContents == FragmentInit => ContentsIInv
<1> SUFFICES ASSUME FragmentInit PROVE ContentsIInv
  OBVIOUS
<1>1. log = <<>> /\ Len(log) = 0 /\ log \in Seq(LoggedWord) /\ MaxLogged \in Nat
  BY FragmentAssumption DEF FragmentInit
<1>2. LogTyped
  BY <1>1 DEF FragmentInit, LogTyped, Invalid
<1>3. CountersTrue
  <2> SUFFICES ASSUME NEW h \in Stream
      PROVE  /\ Largest({0} \cup Having(log, 0, h), 0)
             /\ Cardinality(GatesAfter(log, 0, 0, h)) = 0
    BY <1>1 DEF CountersTrue, FragmentInit
  <2>1. Having(log, 0, h) = {} /\ GatesAfter(log, 0, 0, h) = {}
    BY DEF Having, GatesAfter
  <2>2. QED
    BY <2>1, FS_EmptySet DEF Largest
<1>4. WordsTrue
  BY <1>1 DEF WordsTrue
<1>5. StampsTrue
  <2>1. Stamps(log) = {}
    BY <1>1 DEF Stamps
  <2>2. QED
    BY <2>1 DEF StampsTrue, OpensWith, FragmentInit
<1>6. QED
  BY <1>2, <1>3, <1>4, <1>5 DEF ContentsIInv

(* Each step of CreateFragment keeps what is said of the contents.         *)
LEMMA NextContents ==
  ASSUME ContentsIInv, [FragmentNext]_fragmentVars
  PROVE  ContentsIInv'
<1>1. CASE TSWord
  BY <1>1, TSWordStep
<1>2. CASE LLTWord
  BY <1>2, LLTWordStep
<1>3. ASSUME NEW bits \in SUBSET Bits, HLTWord(bits) PROVE ContentsIInv'
  BY <1>3, HLTWordStep
<1>4. CASE NextFragment
  BY <1>4, NextFragmentStep
<1>5. CASE UNCHANGED fragmentVars
  BY <1>5 DEF fragmentVars, ContentsIInv, LogTyped, CountersTrue, WordsTrue, StampsTrue
<1>6. QED
  BY <1>1, <1>2, <1>3, <1>4, <1>5 DEF FragmentNext

(* The counters of CreateFragment always stand for the words already put   *)
(* into fragments, and every word carries what was true when it was put.   *)
THEOREM ContentsInvariance == FragmentSpec => []ContentsIInv
<1>1. ContentsIInv /\ [FragmentNext]_fragmentVars => ContentsIInv'
  BY NextContents
<1>2. QED
  BY <1>1, InitContents, PTL DEF FragmentSpec

(* The exposure in every word is right, for any HLT bits, any group size   *)
(* and any number of words and fragments: lines 412-539.                   *)
THEOREM ExposureCorrect == FragmentSpec => []ExposureTrue
<1>1. ContentsIInv => ExposureTrue
  <2> SUFFICES ASSUME ContentsIInv, NEW k \in DOMAIN log, log[k].bits \cap Stream # {}
      PROVE  LET h == Reported(log[k])
                 p == Previous(k, h)
             IN  /\ log[k].prev = p
                 /\ log[k].gates = Cardinality({j \in p + 1 .. k : IsGate(log[j], h)})
    BY DEF ExposureTrue
  <2> DEFINE h == Reported(log[k])
             had == {0} \cup Having(log, k - 1, h)
  <2>1. k \in 1 .. Len(log) /\ k \in Int
    BY DEF ContentsIInv, LogTyped
  <2>2. WordTrue(log, k)
    BY <2>1 DEF ContentsIInv, WordsTrue
  <2>3. /\ Largest(had, log[k].prev)
        /\ log[k].gates = Cardinality(GatesAfter(log, log[k].prev, k, h))
    BY <2>2 DEF WordTrue
  <2>4. had \in SUBSET Int
    BY <2>1 DEF Having
  <2> HIDE DEF h, had
  <2>5. Max(had) = log[k].prev
    BY <2>3, <2>4, LargestIsMax
  <2>6. Previous(k, h) = log[k].prev
    BY <2>5 DEF Previous, had, Having
  <2>7. QED
    BY <2>3, <2>6 DEF GatesAfter, h
<1>2. QED
  BY <1>1, ContentsInvariance, PTL

(* Every fragment opens with the right timestamp, and everything keeps its *)
(* type: lines 247-404.                                                    *)
THEOREM FragmentInvariant == FragmentSpec => []FragmentInv
<1>1. ContentsIInv => FragmentTypeOK
  <2> SUFFICES ASSUME ContentsIInv PROVE FragmentTypeOK
    OBVIOUS
  <2>1. LogTyped /\ CountersTrue
    BY DEF ContentsIInv
  <2>2. /\ log \in Seq(LoggedWord) /\ Len(log) \in Nat /\ Len(log) <= MaxLogged
        /\ DOMAIN log = 1 .. Len(log) /\ MaxLogged \in Nat
    BY <2>1, FragmentAssumption DEF LogTyped
  <2>3. ASSUME NEW h \in Stream
        PROVE  numGates[h] \in 0 .. MaxLogged /\ prevHLT[h] \in 0 .. MaxLogged
    BY <2>1, <2>2, CountersBounded
  <2>4. numGates \in [Stream -> 0 .. MaxLogged] /\ prevHLT \in [Stream -> 0 .. MaxLogged]
    BY <2>1, <2>3 DEF LogTyped
  <2>5. ASSUME NEW k \in DOMAIN log PROVE log[k] \in LoggedWord
    BY <2>2
  <2>6. \A k \in DOMAIN log :
          /\ log[k].kind \in {"ts", "beam_gate", "other", "hlt"}
          /\ log[k].time \in 0 .. MaxLogged
          /\ log[k].bits \subseteq Bits
          /\ log[k].gates \in NoGates .. MaxLogged
          /\ log[k].prev \in Unwritten .. MaxLogged
    BY <2>5 DEF LoggedWord
  <2>7. QED
    BY <2>1, <2>2, <2>4, <2>6 DEF FragmentTypeOK, LogTyped
<1>2. ContentsIInv => OpeningTimestamp
  <2> SUFFICES ASSUME ContentsIInv PROVE OpeningTimestamp
    OBVIOUS
  <2> DEFINE valid == {k \in DOMAIN log : log[k].kind = "ts" /\ log[k].time # 0}
             before == {k \in valid : k < first}
  <2>1. valid = Stamps(log) /\ valid \in SUBSET Int /\ before \in SUBSET Int
    BY DEF ContentsIInv, LogTyped, Stamps
  <2>2. /\ before # {} => Largest(before, timestamp)
        /\ before = {} /\ valid # {} => Smallest(valid, timestamp)
        /\ valid = {} => timestamp = Invalid
    <3> HIDE DEF valid
    <3>1. OpensWith(valid, first, timestamp)
      BY <2>1 DEF ContentsIInv, StampsTrue
    <3>2. QED
      BY <3>1 DEF OpensWith
  <2>3. valid = {} => before = {}
    OBVIOUS
  <2> HIDE DEF valid, before
  <2>4. timestamp = IF before # {} THEN Max(before)
                    ELSE IF valid # {} THEN Min(valid) ELSE Invalid
    BY <2>1, <2>2, <2>3, LargestIsMax, SmallestIsMin
  <2>5. QED
    BY <2>4 DEF OpeningTimestamp, valid, before
<1>3. QED
  BY <1>1, <1>2, ContentsInvariance, PTL DEF FragmentInv
=============================================================================
