---------------------------- MODULE TriggerBoard ----------------------------
(***************************************************************************)
(* Generators/SBND/TriggerBoardReader_generator.cc and TriggerBoard/: the  *)
(* board reader of the Penn Trigger Board.  Words travel                   *)
(*    board -> TCP -> receiver thread -> _word_buffer -> fragment thread   *)
(*          -> _fragment_buffer -> getNext_ (artdaq's thread)              *)
(* through two single-producer single-consumer queues.  The atomic counter *)
(* _n_TS_words tells the fragment thread how many timestamp words are in   *)
(* the first queue.  start() and stop() run in artdaq's thread; getNext_   *)
(* itself calls stop() when the board has reported an error.               *)
(*                                                                         *)
(* A word is its number and its kind: a timestamp ("ts"), a feedback       *)
(* word ("fb": the board's error report) or anything else.  The            *)
(* board (external) connects once it was told to run, or never, and closes *)
(* the connection after it was told to stop, or earlier if it fails.       *)
(***************************************************************************)
EXTENDS Integers, Sequences, FiniteSets, SequencesExt

CONSTANTS
  WordCapacity,     \* size of _word_buffer
  MaxWordsPerFrag,  \* _max_words_per_frag
  FragCapacity,     \* size of _fragment_buffer
  GroupSize,        \* _group_size
  CounterRange,     \* 2^32 in the code: _n_TS_words is an unsigned int
  MaxWords,         \* bound: words the board sends in all runs
  MaxRuns           \* bound: calls of start()

ASSUME BoardAssumption ==
  /\ {WordCapacity, MaxWordsPerFrag, FragCapacity, CounterRange} \subseteq Nat \ {0}
  /\ MaxWordsPerFrag <= WordCapacity
  /\ WordCapacity + 1 < CounterRange
  /\ GroupSize \in Nat
  /\ {MaxWords, MaxRuns} \subseteq Nat

VARIABLES
  throw_exception_, \* configuration, read by the constructor
  ctl,            \* where start() and stop() are
  gn,             \* getNext_: on, sending, stopping (its stop()), over
  runs,           \* calls of start() so far
  running,        \* PTB_Controller: the board was told to run
  conn,           \* the data connection: none, open, closed
  stopRequested,  \* _stop_requested or artdaq's should_stop: tested together
  rxStop,         \* the receiver's _stop_requested
  rx,             \* where the receiver thread is
  rxWord,         \* word it is about to push
  received,       \* number of words it has read so far
  wordBuffer,     \* _word_buffer
  nTS,            \* _n_TS_words
  rxError,        \* the receiver's _error_state
  fg,             \* where the fragment thread is
  fgLeft,         \* words CreateFragment still wants to pop
  fgFrag,         \* words in the fragment it is making
  tempWord,       \* its static temp_word
  fgError,        \* the reader's _error_state
  fragBuffer,     \* _fragment_buffer
  sent,           \* number of the last word handed to artdaq (or, before the
                  \* first of a run, read in the run before)
  clean           \* history: start() found no word and no count left over

control == <<throw_exception_, ctl, runs, running, stopRequested, clean>>
receiver == <<rx, rxWord, received, rxError>>
maker == <<fg, fgLeft, fgFrag, tempWord, fgError>>
output == <<fragBuffer, sent>>
vars == <<control, gn, conn, rxStop, receiver, wordBuffer, nTS, maker, output>>

NoWord == [n |-> 0, kind |-> "none"]
IsTS(w) == w.kind = "ts"
TSIn(s) == Cardinality({k \in 1 .. Len(s) : IsTS(s[k])})

Init ==
  /\ throw_exception_ \in BOOLEAN
  /\ ctl = "stopped" /\ gn = "over" /\ runs = 0
  /\ running = FALSE /\ conn = "none"
  /\ stopRequested = FALSE /\ rxStop = FALSE
  /\ rx = "off" /\ rxWord = NoWord /\ received = 0
  /\ wordBuffer = <<>> /\ nTS = 0 /\ rxError = FALSE
  /\ fg = "off" /\ fgLeft = 0 /\ fgFrag = <<>> /\ tempWord = NoWord /\ fgError = FALSE
  /\ fragBuffer = <<>> /\ sent = 0
  /\ clean = TRUE

-----------------------------------------------------------------------------
(* start(): the fragment thread first, then the receiver, then the board.  *)

StartFragments ==
  /\ ctl = "stopped"
  /\ runs < MaxRuns
  /\ runs' = runs + 1
  /\ stopRequested' = FALSE
  /\ fg' = "check"
  /\ ctl' = "resetWords"
  /\ clean' = (wordBuffer = <<>> /\ nTS = 0)
  /\ UNCHANGED <<throw_exception_, gn, running, conn, rxStop, receiver, wordBuffer,
                 nTS, fgLeft, fgFrag, tempWord, fgError, output>>

ResetWords ==
  /\ ctl = "resetWords"
  /\ rxStop' = FALSE
  /\ wordBuffer' = <<>>
  /\ ctl' = "launch"
  /\ UNCHANGED <<throw_exception_, runs, running, stopRequested, clean, gn, conn,
                 receiver, nTS, maker, output>>

LaunchReceiver ==
  /\ ctl = "launch"
  /\ nTS' = 0
  /\ rx' = "accept" /\ conn' = "none"
  /\ sent' = received
  /\ ctl' = "sendStart"
  /\ UNCHANGED <<throw_exception_, runs, running, stopRequested, clean, gn, rxStop,
                 rxWord, received, rxError, wordBuffer, maker, fragBuffer>>

(* The board may refuse: start() does not look at the answer.              *)
send_start ==
  /\ ctl = "sendStart"
  /\ running' \in BOOLEAN
  /\ gn' = "on"
  /\ ctl' = "running"
  /\ UNCHANGED <<throw_exception_, runs, stopRequested, clean, conn, rxStop, receiver,
                 wordBuffer, nTS, maker, output>>

(* stop(), called by artdaq (which holds the mutex getNext_ runs under)    *)
(* or by getNext_, and possibly again after getNext_ has done so.          *)
StopRequest ==
  /\ ctl \in {"running", "failed"}
  /\ gn \in {"on", "over"}
  /\ stopRequested' = TRUE
  /\ ctl' = "sendStop"
  /\ UNCHANGED <<throw_exception_, runs, running, clean, gn, conn, rxStop, receiver,
                 wordBuffer, nTS, maker, output>>

(* Mutant: the board is not told to stop.                                  *)
send_stop_Forgotten ==
  /\ ctl = "sendStop"
  /\ ctl' = "stopReceiver"
  /\ UNCHANGED <<throw_exception_, runs, running, stopRequested, clean, gn, conn,
                 rxStop, receiver, wordBuffer, nTS, maker, output>>

send_stop ==
  /\ ctl = "sendStop"
  /\ running' = FALSE
  /\ ctl' = "stopReceiver"
  /\ UNCHANGED <<throw_exception_, runs, stopRequested, clean, gn, conn, rxStop,
                 receiver, wordBuffer, nTS, maker, output>>

StopReceiver ==
  /\ ctl = "stopReceiver"
  /\ rxStop' = TRUE
  /\ ctl' = "joinReceiver"
  /\ UNCHANGED <<throw_exception_, runs, running, stopRequested, clean, gn, conn,
                 receiver, wordBuffer, nTS, maker, output>>

JoinReceiver ==
  /\ ctl = "joinReceiver"
  /\ rx = "off"
  /\ ctl' = "joinFragments"
  /\ UNCHANGED <<throw_exception_, runs, running, stopRequested, clean, gn, conn,
                 rxStop, receiver, wordBuffer, nTS, maker, output>>

(* ResetBuffer() deletes the fragments nobody has fetched.                 *)
JoinFragments ==
  /\ ctl = "joinFragments"
  /\ fg = "off"
  /\ fragBuffer' = <<>>
  /\ ctl' = IF gn = "stopping" THEN "failed" ELSE "stopped"
  /\ gn' = "over"
  /\ UNCHANGED <<throw_exception_, runs, running, stopRequested, clean, conn, rxStop,
                 receiver, wordBuffer, nTS, maker, sent>>

Transition ==
  \/ ResetWords \/ LaunchReceiver \/ send_start
  \/ send_stop \/ StopReceiver \/ JoinReceiver \/ JoinFragments

-----------------------------------------------------------------------------
(* The board.                                                              *)

BoardConnects ==
  /\ running /\ conn = "none" /\ rx \in {"accept", "abandon"}
  /\ conn' = "open"
  /\ UNCHANGED <<control, gn, rxStop, receiver, wordBuffer, nTS, maker, output>>

BoardCloses ==
  /\ conn = "open"
  /\ conn' = "closed"
  /\ UNCHANGED <<control, gn, rxStop, receiver, wordBuffer, nTS, maker, output>>

-----------------------------------------------------------------------------
(* _word_receiver().  A stop is noticed while polling for the connection   *)
(* and after each word, never during a blocking read.                      *)

ReadOrLeave == IF rxStop THEN "close" ELSE "read"

RxAccepted ==
  /\ rx = "accept" /\ conn # "none"
  /\ rx' = ReadOrLeave
  /\ UNCHANGED <<control, gn, conn, rxStop, rxWord, received, rxError, wordBuffer, nTS,
                 maker, output>>

(* The stop ends the polling; the destructor of the future of accept()     *)
(* still waits for a connection.                                           *)
RxAbandon ==
  /\ rx = "accept" /\ rxStop
  /\ rx' = "abandon"
  /\ UNCHANGED <<control, gn, conn, rxStop, rxWord, received, rxError, wordBuffer, nTS,
                 maker, output>>

RxRead ==
  /\ rx = "read" /\ conn = "open"
  /\ received < MaxWords
  /\ received' = received + 1
  /\ \E kind \in {"ts", "trigger", "fb"} :
       /\ rxWord' = [n |-> received + 1, kind |-> kind]
       /\ nTS' = (IF kind = "ts" THEN nTS + 1 ELSE nTS) % CounterRange
       /\ rxError' = (rxError \/ kind = "fb")
  /\ rx' = "push"
  /\ UNCHANGED <<control, gn, conn, rxStop, wordBuffer, maker, output>>

RxEOF ==
  /\ rx = "read" /\ conn = "closed"
  /\ rx' = "close"
  /\ UNCHANGED <<control, gn, conn, rxStop, rxWord, received, rxError, wordBuffer, nTS,
                 maker, output>>

(* Mutant: a word that finds the queue full is dropped.                    *)
RxPush_Once ==
  /\ rx = "push"
  /\ wordBuffer' = IF Len(wordBuffer) < WordCapacity THEN Append(wordBuffer, rxWord)
                                                    ELSE wordBuffer
  /\ rxWord' = NoWord
  /\ rx' = ReadOrLeave
  /\ UNCHANGED <<control, gn, conn, rxStop, received, rxError, nTS, maker, output>>

RxPush ==
  /\ rx = "push"
  /\ \/ /\ Len(wordBuffer) < WordCapacity
        /\ wordBuffer' = Append(wordBuffer, rxWord)
     \/ Len(wordBuffer) = WordCapacity /\ rxStop /\ UNCHANGED wordBuffer
  /\ rxWord' = NoWord
  /\ rx' = ReadOrLeave
  /\ UNCHANGED <<control, gn, conn, rxStop, received, rxError, nTS, maker, output>>

RxClose ==
  /\ rx = "close" \/ (rx = "abandon" /\ conn # "none")
  /\ conn' = "closed"
  /\ rx' = "off"
  /\ UNCHANGED <<control, gn, rxStop, rxWord, received, rxError, wordBuffer, nTS,
                 maker, output>>

RxStep == RxAccepted \/ RxAbandon \/ RxEOF \/ RxPush \/ RxClose

-----------------------------------------------------------------------------
(* _FragmentGenerator() and CreateFragment().                              *)

CanCreateFragments ==
  \/ GroupSize > 0 /\ nTS >= GroupSize
  \/ GroupSize = 0 /\ wordBuffer # <<>>

(* Mutants: the queue is not emptied early when it is nearly full, or      *)
(* after an error.                                                         *)
NeedToEmptyBuffer_OnErrorOnly == rxError /\ wordBuffer # <<>>

NeedToEmptyBuffer_WhenFullOnly == Len(wordBuffer) >= MaxWordsPerFrag

NeedToEmptyBuffer ==
  \/ Len(wordBuffer) >= MaxWordsPerFrag
  \/ rxError /\ wordBuffer # <<>>

FgStop ==
  /\ fg = "check" /\ stopRequested
  /\ fg' = "off"
  /\ UNCHANGED <<control, gn, conn, rxStop, receiver, wordBuffer, nTS, fgLeft, fgFrag,
                 tempWord, fgError, output>>

(* The number of words is read once; the words are popped one at a time.   *)
FgBegin ==
  /\ fg = "check" /\ ~stopRequested
  /\ CanCreateFragments \/ NeedToEmptyBuffer
  /\ fgLeft' = Len(wordBuffer)
  /\ fgFrag' = <<>>
  /\ fg' = "make"
  /\ UNCHANGED <<control, gn, conn, rxStop, receiver, wordBuffer, nTS, tempWord, fgError,
                 output>>

(* A pop that fails leaves temp_word as it was, and goes unnoticed.        *)
FgWord ==
  LET word == IF wordBuffer = <<>> THEN tempWord ELSE Head(wordBuffer)
      frag == Append(fgFrag, word)
      full == IsTS(word) /\ GroupSize > 0 /\ TSIn(frag) >= GroupSize
  IN  /\ fg = "make" /\ fgLeft > 0
      /\ wordBuffer' = IF wordBuffer = <<>> THEN <<>> ELSE Tail(wordBuffer)
      /\ tempWord' = word
      /\ fgFrag' = frag
      /\ nTS' = (IF IsTS(word) THEN nTS - 1 ELSE nTS) % CounterRange
      /\ fgError' = (fgError \/ word.kind = "fb")
      /\ fgLeft' = IF full THEN 0 ELSE fgLeft - 1
      /\ UNCHANGED <<control, gn, conn, rxStop, receiver, fg, output>>

(* The push is retried without a look at the stop flags.                   *)
FgPush ==
  /\ fg = "make" /\ fgLeft = 0
  /\ Len(fragBuffer) < FragCapacity
  /\ fragBuffer' = Append(fragBuffer, fgFrag)
  /\ fgFrag' = <<>>
  /\ fg' = "check"
  /\ UNCHANGED <<control, gn, conn, rxStop, receiver, wordBuffer, nTS, fgLeft, tempWord,
                 fgError, sent>>

FgStep == FgStop \/ FgBegin \/ FgWord \/ FgPush

-----------------------------------------------------------------------------
(* getNext_.                                                               *)

GetNextThrows ==
  /\ ctl = "running" /\ gn = "on"
  /\ throw_exception_ /\ (fgError \/ rxError)
  /\ gn' = "stopping"
  /\ stopRequested' = TRUE
  /\ ctl' = "sendStop"
  /\ UNCHANGED <<throw_exception_, runs, running, clean, conn, rxStop, receiver,
                 wordBuffer, nTS, maker, output>>

GetNextSends ==
  /\ ctl = "running" /\ gn = "on"
  /\ ~(throw_exception_ /\ (fgError \/ rxError))
  /\ fragBuffer' = <<>>
  /\ \/ (\A i \in 1 .. Len(fragBuffer) : fragBuffer[i] = <<>>) /\ UNCHANGED sent
     \/ \E i \in 1 .. Len(fragBuffer) :
          /\ fragBuffer[i] # <<>>
          /\ \A j \in i + 1 .. Len(fragBuffer) : fragBuffer[j] = <<>>
          /\ sent' = Last(fragBuffer[i]).n
  /\ gn' = "sending"
  /\ UNCHANGED <<control, conn, rxStop, receiver, wordBuffer, nTS, maker>>

(* It returns ! _error_state; artdaq does not call it after false.         *)
GetNextReturns ==
  /\ gn = "sending"
  /\ gn' = IF fgError THEN "over" ELSE "on"
  /\ UNCHANGED <<control, conn, rxStop, receiver, wordBuffer, nTS, maker, output>>

GetNext == GetNextThrows \/ GetNextSends \/ GetNextReturns

-----------------------------------------------------------------------------
Next ==
  \/ StartFragments \/ StopRequest \/ Transition
  \/ BoardConnects \/ BoardCloses
  \/ RxRead \/ RxStep \/ FgStep \/ GetNext

(* Threads are scheduled, artdaq polls getNext_, and the board closes the  *)
(* connection after StopRun.  Nothing makes the board connect or send.     *)
Spec ==
  /\ Init /\ [][Next]_vars
  /\ WF_vars(Transition)
  /\ WF_vars(RxStep)
  /\ WF_vars(FgStep)
  /\ WF_vars(GetNext)
  /\ WF_vars(BoardCloses /\ ~running)

-----------------------------------------------------------------------------
(* PROPERTIES                                                              *)

Word == [n : 1 .. MaxWords, kind : {"ts", "trigger", "fb"}] \cup {NoWord}

TypeOK ==
  /\ ctl \in {"stopped", "resetWords", "launch", "sendStart", "running", "sendStop",
              "stopReceiver", "joinReceiver", "joinFragments", "failed"}
  /\ gn \in {"on", "sending", "stopping", "over"}
  /\ runs \in 0 .. MaxRuns
  /\ {throw_exception_, running, stopRequested, rxStop, rxError, fgError, clean} \subseteq BOOLEAN
  /\ conn \in {"none", "open", "closed"}
  /\ rx \in {"off", "accept", "abandon", "read", "push", "close"}
  /\ received \in 0 .. MaxWords /\ sent \in 0 .. MaxWords
  /\ wordBuffer \in Seq(Word) /\ Len(wordBuffer) <= WordCapacity
  /\ rxWord \in Word /\ tempWord \in Word
  /\ nTS \in 0 .. CounterRange - 1
  /\ fg \in {"off", "check", "make"}
  /\ fgLeft \in 0 .. WordCapacity /\ fgFrag \in Seq(Word)
  /\ fragBuffer \in Seq(Seq(Word)) /\ Len(fragBuffer) <= FragCapacity

(* The receiver has been launched and not been told to stop.               *)
Receiving == rxStop = FALSE /\ ctl \in {"sendStart", "running", "sendStop", "stopReceiver"}

(* What the receiver is about to push.                                     *)
Hand == IF rx = "push" THEN <<rxWord>> ELSE <<>>

(* Nothing is lost, repeated or reordered between the socket and artdaq:   *)
(* the words in both queues and in both threads' hands are exactly those   *)
(* read from the board and not yet handed over, in order.  (This and the   *)
(* next property exempt a run whose start() found words of the run before: *)
(* the fragment thread, started first, races with the reset of the queue   *)
(* and of the counter, TriggerBoardReader_generator.cc:708-710.)           *)
WordsOnce ==
  clean /\ Receiving =>
    LET line == fragBuffer \o <<fgFrag, wordBuffer, Hand>>
        number(i, k) == line[i][k].n
    IN  /\ UNION {{number(i, k) : k \in 1 .. Len(line[i])} : i \in 1 .. Len(line)}
             = sent + 1 .. received
        /\ \A i, j \in 1 .. Len(line) : \A k \in 1 .. Len(line[i]), l \in 1 .. Len(line[j]) :
             i < j \/ (i = j /\ k < l) => number(i, k) < number(j, l)

(* _n_TS_words counts the timestamp words between the socket and the       *)
(* fragment thread: the increment before the push (PTB_Receiver.cc:126)    *)
(* and the decrement after the pop never let it run below zero.            *)
CounterAgrees ==
  clean /\ Receiving =>
    nTS = TSIn(wordBuffer) + TSIn(Hand)

(* Every word, and the count of timestamp words, is where it should be.    *)
Inv == TypeOK /\ WordsOnce /\ CounterAgrees

(* stop() returns, except in two cases the code does not handle: the board *)
(* never connected, so that accept() is waited for without end             *)
(* (PTB_Receiver.cc:76), or the fragment thread waits for room in a full   *)
(* queue that nobody empties any more (TriggerBoardReader_generator.cc:658)*)
StopReturns ==
  ctl \in {"sendStop", "stopReceiver", "joinReceiver", "joinFragments"} ~>
    \/ ctl \in {"stopped", "failed"}
    \/ ctl = "joinReceiver" /\ conn = "none"
    \/ ctl = "joinFragments" /\ fg = "make" /\ Len(fragBuffer) = FragCapacity

(* A feedback word ends the data taking, even if it is the last word the   *)
(* board sends and no group of timestamps is ever completed after it, with *)
(* throw_exception and without.  (Of the first run: start() leaves both    *)
(* _error_state as they are, and a feedback word read while the receiver is*)
(* stopped is dropped, so a later run may begin with one flag up only.)    *)
ErrorEndsRun ==
  runs = 1 /\ rxError /\ gn = "on" ~> gn \in {"stopping", "over"} \/ ctl # "running"

(* The receiver does not wait for room in the word queue for ever while    *)
(* artdaq fetches fragments, whatever mixture of words the board sends.    *)
ReceiverProceeds == rx = "push" ~> rx # "push" \/ gn = "over"
=============================================================================
