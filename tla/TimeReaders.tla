----------------------------- MODULE TimeReaders -----------------------------
(***************************************************************************)
(* Generators/Common/SpectraTimeReadout_generator.cc (GPS) and             *)
(* WhiteRabbitReadout_generator.cc: readers of timing devices.  They are   *)
(* built alike: a polling thread (WorkerThread) whose call loops by itself *)
(* while the flag running is up, a buffer under a lock, and start() and    *)
(* stopAll(), which move the flag and the thread one after the other.      *)
(*                                                                         *)
(* The GPS reader takes messages from a queue without waiting and keeps    *)
(* them in a ring; the White Rabbit reader waits in the driver for time    *)
(* stamps and keeps them in a vector.  One specification runs either, or   *)
(* a WorkerThread as any other generator drives it, so that the promises   *)
(* of that module are checked for all three.                               *)
(*                                                                         *)
(* A message is its number.  Fragments that repeat the last message        *)
(* (READOUT_PULL without a new one) change nothing and are left out.       *)
(***************************************************************************)
EXTENDS WorkerThread, Sequences, FiniteSets, Functions

CONSTANTS
  BUFFER_SIZE,   \* messages the ring of the GPS reader holds
  MaxMessages    \* bound: messages or time stamps that come

ASSUME TimeReadersAssumption == BUFFER_SIZE \in Nat \ {0} /\ MaxMessages \in Nat

VARIABLES
  reader,        \* GPS, WhiteRabbit, or other: any generator's thread
  readoutMode,   \* GPS: push or pull; WhiteRabbit: send, or none for
                 \* sends_no_fragments
  command,       \* stopped; start(): launch; run; stopNoMutex(): halt, join;
                 \* stop(): mutex; destroyed, or crashed
  running,       \* the flag
  getData,       \* the polling thread's call: test (of the flag), read, lock
  issued,        \* messages that came, from the GPS or the driver
  messageCounter,\* those the thread has read
  buffer,        \* GPS: the ring; WhiteRabbit: the vector
  gn,            \* getNext_: out, or fill
  delivered,     \* history: the messages of each FillFragment that had any
  overwritten    \* history: messages of the ring that were never sent

generator == <<reader, readoutMode>>
control == <<command, running>>
messages == <<issued, messageCounter>>
past == <<delivered, overwritten>>
timeVars == <<generator, control, getData, messages, buffer, gn, past>>
allVars == <<wtVars, timeVars>>

Index == 0 .. BUFFER_SIZE - 1
Empty == [n |-> 0, unsent |-> FALSE]

(* The flag is not initialised.                                            *)
InitReaders ==
  /\ Init
  /\ \/ reader = "GPS" /\ readoutMode \in {"push", "pull"} /\ buffer = [k \in Index |-> Empty]
     \/ reader = "WhiteRabbit" /\ readoutMode \in {"send", "none"} /\ buffer = <<>>
     \/ reader = "other" /\ readoutMode = "none" /\ buffer = <<>>
  /\ command = "stopped" /\ running \in BOOLEAN
  /\ getData = "test"
  /\ issued = 0 /\ messageCounter = 0
  /\ gn = "out" /\ delivered = <<>> /\ overwritten = {}

-----------------------------------------------------------------------------
(* A message or a time stamp comes.                                        *)
Issue ==
  /\ issued < MaxMessages
  /\ issued' = issued + 1
  /\ UNCHANGED <<wtVars, generator, control, getData, messageCounter, buffer, gn, past>>

-----------------------------------------------------------------------------
(* start(): the flag goes up only after the thread was launched.           *)

Launch ==
  /\ command = "stopped" /\ StartLaunch
  /\ command' = "launch"
  /\ UNCHANGED <<generator, running, getData, messages, buffer, gn, past>>

(* Mutant: the flag is left as it is.                                      *)
SetRunning_Never ==
  /\ command = "launch" /\ ctl = "idle"
  /\ command' = "run"
  /\ UNCHANGED <<wtVars, generator, running, getData, messages, buffer, gn, past>>

SetRunning ==
  /\ command = "launch" /\ ctl = "idle"
  /\ running' = TRUE
  /\ command' = "run"
  /\ UNCHANGED <<wtVars, generator, getData, messages, buffer, gn, past>>

(* stopAll() of stopNoMutex(): the flag, then the thread.                  *)
LowerRunning ==
  /\ command = "run" /\ running
  /\ running' = FALSE
  /\ command' = "halt"
  /\ UNCHANGED <<wtVars, generator, getData, messages, buffer, gn, past>>

StopThread ==
  /\ command = "halt" /\ StopRequest
  /\ command' = "join"
  /\ UNCHANGED <<generator, running, getData, messages, buffer, gn, past>>

(* artdaq makes no further calls of getNext_ and takes its lock; the       *)
(* stopAll() of stop() finds the flag down.                                *)
Joined ==
  /\ command = "join" /\ ctl = "idle"
  /\ command' = "mutex"
  /\ UNCHANGED <<wtVars, generator, running, getData, messages, buffer, gn, past>>

Stopped ==
  /\ command = "mutex" /\ gn = "out"
  /\ command' = "stopped"
  /\ UNCHANGED <<wtVars, generator, running, getData, messages, buffer, gn, past>>

(* The destructor calls stopAll(), which calls a thread that is not there  *)
(* when the flag is up by chance before the first start().                 *)
Destroy ==
  /\ command = "stopped"
  /\ command' = IF running THEN "crashed" ELSE "destroyed"
  /\ UNCHANGED <<wtVars, generator, running, getData, messages, buffer, gn, past>>

-----------------------------------------------------------------------------
(* getData(), in a call of the thread.                                     *)

TestRunning ==
  /\ run["latest"] = "call" /\ getData = "test" /\ running
  /\ getData' = "read"
  /\ UNCHANGED <<wtVars, generator, control, messages, buffer, gn, past>>

NotRunning ==
  /\ getData = "test" /\ ~running
  /\ Move("latest", "call", "check")
  /\ UNCHANGED <<stopRunning, timeVars>>

(* msgrcv() does not wait: an empty queue ends the loop and the call.      *)
NoMessage ==
  /\ reader = "GPS" /\ getData = "read" /\ issued = messageCounter
  /\ Move("latest", "call", "check")
  /\ getData' = "test"
  /\ UNCHANGED <<stopRunning, generator, control, messages, buffer, gn, past>>

(* Under the lock: a message that nobody has fetched is overwritten.       *)
ReceiveMessage ==
  LET ptr == messageCounter % BUFFER_SIZE
  IN  /\ reader = "GPS" /\ getData = "read" /\ issued > messageCounter
      /\ messageCounter' = messageCounter + 1
      /\ buffer' = [buffer EXCEPT ![ptr] = [n |-> messageCounter + 1, unsent |-> TRUE]]
      /\ overwritten' = overwritten \cup (IF buffer[ptr].unsent THEN {buffer[ptr].n} ELSE {})
      /\ getData' = "test"
      /\ UNCHANGED <<wtVars, generator, control, issued, gn, delivered>>

(* The driver returns when there is a time stamp, and never before; the    *)
(* stamp is put into the vector afterwards, under the lock.                *)
ReadStamp ==
  /\ reader = "WhiteRabbit" /\ getData = "read" /\ issued > messageCounter
  /\ messageCounter' = messageCounter + 1
  /\ getData' = "lock"
  /\ UNCHANGED <<wtVars, generator, control, issued, buffer, gn, past>>

KeepStamp ==
  /\ getData = "lock"
  /\ buffer' = Append(buffer, messageCounter)
  /\ getData' = "test"
  /\ UNCHANGED <<wtVars, generator, control, messages, gn, past>>

(* An error of the driver: the call returns false and is repeated.         *)
ReadFails ==
  /\ reader = "WhiteRabbit" /\ getData = "read"
  /\ Move("latest", "call", "nap")
  /\ getData' = "test"
  /\ UNCHANGED <<stopRunning, generator, control, messages, buffer, gn, past>>

GetData ==
  \/ TestRunning \/ NotRunning
  \/ NoMessage \/ ReceiveMessage
  \/ ReadStamp \/ KeepStamp

RunLoop ==
  /\ RunCheck("latest") \/ NapOver("latest") \/ RunEnds("latest") \/ RunExits("latest")
  /\ UNCHANGED timeVars

-----------------------------------------------------------------------------
(* getNext_.                                                               *)

GetNextBegin ==
  /\ gn = "out" /\ command \in {"run", "halt", "join"}
  /\ gn' = "fill"
  /\ UNCHANGED <<wtVars, generator, control, getData, messages, buffer, past>>

(* In the order of the ring's slots, not of the messages.                  *)
Slots == {k \in Index : buffer[k].unsent}
Rank(k) == Cardinality({j \in Slots : j <= k})
InSlotOrder ==
  [p \in 1 .. Cardinality(Slots) |-> buffer[CHOOSE k \in Slots : Rank(k) = p].n]

Unsent == IF reader = "GPS" THEN InSlotOrder ELSE buffer

Sent ==
  IF reader = "GPS" THEN [k \in Index |-> [buffer[k] EXCEPT !.unsent = FALSE]] ELSE <<>>

(* Mutant: what was sent stays in the buffer.                              *)
FillFragment_Keeps ==
  /\ gn = "fill" /\ Unsent # <<>> /\ readoutMode # "none" /\ Len(delivered) < MaxMessages
  /\ delivered' = Append(delivered, Unsent)
  /\ gn' = "out"
  /\ UNCHANGED <<wtVars, generator, control, getData, messages, buffer, overwritten>>

FillFragment ==
  /\ gn = "fill" /\ Unsent # <<>> /\ readoutMode # "none"
  /\ delivered' = Append(delivered, Unsent)
  /\ buffer' = Sent
  /\ gn' = "out"
  /\ UNCHANGED <<wtVars, generator, control, getData, messages, overwritten>>

(* READOUT_PUSH naps and tries again, without end.                         *)
NothingNew ==
  /\ gn = "fill" /\ readoutMode # "push"
  /\ Unsent = <<>> \/ readoutMode = "none"
  /\ gn' = "out"
  /\ UNCHANGED <<wtVars, generator, control, getData, messages, buffer, past>>

GetNext == GetNextBegin \/ FillFragment \/ NothingNew

-----------------------------------------------------------------------------
Waits == Finish /\ UNCHANGED timeVars
Transitions == SetRunning \/ StopThread \/ Joined \/ Stopped

TimeNext ==
  /\ reader # "other"
  /\ \/ Issue
     \/ Launch \/ LowerRunning \/ Destroy \/ Transitions \/ Waits
     \/ GetData \/ ReadFails \/ RunLoop
     \/ GetNext

NextReaders ==
  \/ TimeNext
  \/ reader = "other" /\ Next /\ UNCHANGED timeVars

(* Threads are scheduled, and a transition that artdaq has begun goes on;  *)
(* nothing makes messages come or drivers fail, or anyone start or stop.   *)
OtherSteps(s) == reader = "other" /\ RunStep(s) /\ UNCHANGED timeVars

Fairness ==
  /\ \A s \in Slot : WF_allVars(OtherSteps(s))
  /\ WF_allVars(Waits)
  /\ WF_allVars(reader # "other" /\ Transitions)
  /\ WF_allVars(reader # "other" /\ GetData)
  /\ WF_allVars(reader # "other" /\ RunLoop)
  /\ WF_allVars(reader # "other" /\ GetNext)

SpecReaders == InitReaders /\ [][NextReaders]_allVars /\ Fairness

-----------------------------------------------------------------------------
(* PROPERTIES                                                              *)

TypeOKReaders ==
  /\ command \in {"stopped", "launch", "run", "halt", "join", "mutex", "destroyed", "crashed"}
  /\ running \in BOOLEAN /\ getData \in {"test", "read", "lock"}
  /\ issued \in 0 .. MaxMessages /\ messageCounter \in 0 .. issued
  /\ reader # "GPS" => buffer \in Seq(1 .. MaxMessages)
  /\ reader = "GPS" => buffer \in [Index -> [n : 0 .. MaxMessages, unsent : BOOLEAN]]
  /\ gn \in {"out", "fill"} /\ overwritten \subseteq 1 .. MaxMessages

AllDelivered == UNION {Range(delivered[c]) : c \in DOMAIN delivered}
Held == Range(Unsent) \cup (IF getData = "lock" THEN {messageCounter} ELSE {})

(* Every message that was read is in exactly one place: sent once, waiting *)
(* to be sent, or overwritten, and that only after as many newer ones as   *)
(* the ring holds.  Nothing is lost when a run ends and another begins.    *)
SentOnce ==
  \A c, d \in DOMAIN delivered : \A i \in DOMAIN delivered[c], j \in DOMAIN delivered[d] :
    delivered[c][i] = delivered[d][j] => c = d /\ i = j

MessagesOnce ==
  /\ AllDelivered \cup Held \cup overwritten = 1 .. messageCounter
  /\ AllDelivered \cap Held = {} /\ (AllDelivered \cup Held) \cap overwritten = {}
  /\ SentOnce
  /\ \A n \in overwritten : n + BUFFER_SIZE <= messageCounter

(* Messages are sent in the order they came in, but for those that one     *)
(* call finds on both sides of the ring's end (SpectraTimeReadout_         *)
(* generator.cc:155), which it sends newest first.                         *)
Lap(n) == (n - 1) \div BUFFER_SIZE
MessagesInOrder ==
  \A c, d \in DOMAIN delivered : \A i \in DOMAIN delivered[c], j \in DOMAIN delivered[d] :
    (c < d \/ (c = d /\ i < j)) /\ delivered[c][i] > delivered[d][j] =>
      c = d /\ reader = "GPS" /\ Lap(delivered[c][i]) = Lap(delivered[d][j]) + 1

ReadingsTrue == TypeOKReaders /\ MessagesOnce /\ MessagesInOrder

(* Although the thread starts with the flag down, or undefined, it goes on *)
(* to read what comes while the run lasts and the driver does not fail.    *)
MessagesRead ==
  []<>(command # "run" \/ issued = messageCounter \/ run["latest"] = "nap")

(* start() and stop() return, unless the driver has no time stamp for the  *)
(* thread that stop() waits for (WhiteRabbitReadout_generator.cc:267), or  *)
(* getNext_ waits in READOUT_PUSH for a message that the thread, stopped   *)
(* already, can no longer bring (SpectraTimeReadout_generator.cc:135).     *)
NoStamp == reader = "WhiteRabbit" /\ issued = messageCounter /\ getData = "read"
NeverFilled == readoutMode = "push" /\ gn = "fill" /\ Unsent = <<>>
ReadersReturn ==
  /\ reader = "other" => TransitionsReturn
  /\ command \in {"launch", "halt", "join"} ~> command \in {"run", "mutex"} \/ NoStamp
  /\ command = "mutex" ~> command = "stopped" \/ NeverFilled

(* What the threads of these readers owe to the rest.                      *)
ReadersGoOn == MessagesRead /\ ReadersReturn
=============================================================================
