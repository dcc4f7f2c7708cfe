------------------------------- MODULE SPECTDC -------------------------------
(***************************************************************************)
(* Generators/SBND/SPECTDCTimestampReader_generator.cc and SPECTDC/: the   *)
(* board reader of the SPEC time-to-digital converter.  Samples travel     *)
(*    channel -> driver queue -> data thread (TDCCard::read) -> pool       *)
(*            -> getNext_ -> SPECTDCFragmentPreProcessor -> artdaq         *)
(* The preprocessor sorts the fragments of all channels by time.  It holds *)
(* back those not older than the oldest of the most recent times of the    *)
(* channels, except for the ones older than a timeout.                     *)
(*                                                                         *)
(* The pool and the WorkerThread appear through the promises PoolBuffer    *)
(* and WorkerThread are checked against: a bounded FIFO, and a thread that *)
(* is quiet once stop() has returned.  The model has the data thread and   *)
(* the preprocessor switched on and events_to_generate off.                *)
(***************************************************************************)
EXTENDS Integers, Sequences, FiniteSets, SequencesExt, FiniteSetsExt

CONSTANTS
  ChannelCount,   \* enabled channels
  PoolBlocks,     \* blocks in the pool
  Timeout,        \* preprocessor_nodata_timeout_us
  MaxTime,        \* bound on the clock
  MaxSamples,     \* bound on the samples the TDC takes
  MaxRuns         \* bound on calls of start()

ASSUME TDCAssumption ==
  /\ {ChannelCount, PoolBlocks} \subseteq Nat \ {0}
  /\ {Timeout, MaxTime, MaxSamples, MaxRuns} \subseteq Nat

VARIABLES
  ctl,        \* start() and stop(): off, starting, launching, on, stopping, joining
  channel,    \* next channel that start() or stop() deals with
  runs,       \* calls of start() so far
  now,        \* the clock of host and TDC
  pulses,     \* samples the TDC has taken so far
  driver,     \* samples in the driver's queue of each channel, oldest first
  inhibit,    \* inhibit, per channel
  thread,     \* the data thread: off, idle, reading, writing
  readable,   \* channels poll() reported and read() has not visited yet
  batch,      \* samples it has read from the driver and not yet written
  pool,       \* active blocks of buffer_, front first
  gn,         \* getNext_: out, loop, reading, process, over
  fragments,  \* the list getNext_ fills
  pending,    \* pendingFragments_
  counter,    \* fragmentCounter_
  seen,       \* seenFragmentCount_
  upTo        \* history: per channel, the latest to leave in a call
              \* when it was on time

transition == <<ctl, channel, runs>>
reader == <<thread, readable, batch>>
processor == <<pending, counter, seen, upTo>>
vars == <<transition, now, pulses, driver, inhibit, reader, pool, gn, fragments, processor>>

Channel == 1 .. ChannelCount
Sample == [channel : Channel, time : 1 .. MaxTime]

Init ==
  /\ ctl = "off" /\ channel = 1 /\ runs = 0
  /\ now = 0 /\ pulses = 0
  /\ driver = [c \in Channel |-> <<>>]
  /\ inhibit = [c \in Channel |-> TRUE]
  /\ thread = "off" /\ readable = {} /\ batch = <<>>
  /\ pool = <<>>
  /\ gn = "over" /\ fragments = <<>>
  /\ pending = <<>> /\ counter = 0 /\ seen = 0
  /\ upTo = [c \in Channel |-> 0]

(* Time passes, and any channel that is enabled may see a pulse.           *)
Tick ==
  /\ now < MaxTime
  /\ now' = now + 1
  /\ \E pulsed \in SUBSET {c \in Channel : ~inhibit[c]} :
       /\ pulses' = pulses + Cardinality(pulsed)
       /\ pulses' <= MaxSamples
       /\ driver' = [c \in Channel |->
                    IF c \in pulsed THEN Append(driver[c], [channel |-> c, time |-> now + 1])
                                    ELSE driver[c]]
  /\ UNCHANGED <<transition, inhibit, reader, pool, gn, fragments, processor>>

-----------------------------------------------------------------------------
(* start() and stop().                                                     *)

StartBegin ==
  /\ ctl = "off" /\ runs < MaxRuns
  /\ runs' = runs + 1
  /\ ctl' = "starting" /\ channel' = 1
  /\ UNCHANGED <<now, pulses, driver, inhibit, reader, pool, gn, fragments, processor>>

(* A channel is flushed, enabled and drained, or fails at any of the three *)
(* and stays mute: the result of hardware_->start() is not looked at.      *)
StartChannel ==
  /\ ctl = "starting"
  /\ \/ /\ driver' = [driver EXCEPT ![channel] = <<>>]
        /\ \E mute \in BOOLEAN : inhibit' = [inhibit EXCEPT ![channel] = mute]
     \/ UNCHANGED <<driver, inhibit>>
  /\ channel' = channel + 1
  /\ ctl' = IF channel = ChannelCount THEN "launching" ELSE "starting"
  /\ UNCHANGED <<runs, now, pulses, reader, pool, gn, fragments, processor>>

(* A new preprocessor replaces that of the last run, and its fragments.    *)
StartThread ==
  /\ ctl = "launching"
  /\ pending' = <<>> /\ counter' = 0 /\ seen' = 0
  /\ upTo' = [c \in Channel |-> 0]
  /\ thread' = "idle"
  /\ gn' = "out" /\ fragments' = <<>>
  /\ ctl' = "on"
  /\ UNCHANGED <<channel, runs, now, pulses, driver, inhibit, readable, batch, pool>>

StopBegin ==
  /\ ctl = "on"
  /\ gn \in {"out", "over"}
  /\ gn' = "over"
  /\ ctl' = "stopping" /\ channel' = 1
  /\ UNCHANGED <<runs, now, pulses, driver, inhibit, reader, pool, fragments, processor>>

(* A channel is inhibited, then disabled and flushed, if neither fails,    *)
(* while the data thread goes on.                                          *)
StopChannel ==
  /\ ctl = "stopping"
  /\ inhibit' = [inhibit EXCEPT ![channel] = TRUE]
  /\ driver' \in {driver, [driver EXCEPT ![channel] = <<>>]}
  /\ channel' = channel + 1
  /\ ctl' = IF channel = ChannelCount THEN "joining" ELSE "stopping"
  /\ UNCHANGED <<runs, now, pulses, reader, pool, gn, fragments, processor>>

StopThread ==
  /\ ctl = "joining"
  /\ thread = "idle"
  /\ thread' = "off"
  /\ ctl' = "off"
  /\ UNCHANGED <<channel, runs, now, pulses, driver, inhibit, readable, batch, pool, gn,
                 fragments, processor>>

Transition == StartChannel \/ StartThread \/ StopChannel \/ StopThread

-----------------------------------------------------------------------------
(* The data thread: getData_, TDCCard::read and TDCChan::read.             *)

Poll ==
  /\ thread = "idle"
  /\ readable' = {c \in Channel : driver[c] # <<>>}
  /\ readable' # {}
  /\ thread' = "reading"
  /\ UNCHANGED <<transition, now, pulses, driver, inhibit, batch, pool, gn, fragments, processor>>

NextStep(samples, channels) ==
  IF samples # <<>> THEN "writing" ELSE IF channels # {} THEN "reading" ELSE "idle"

(* Channels are read in the order of the configuration, each completely;   *)
(* a stop may have flushed one since poll().                               *)
ReadChannel ==
  LET c == Min(readable)
  IN  /\ thread = "reading"
      /\ batch' = driver[c]
      /\ driver' = [driver EXCEPT ![c] = <<>>]
      /\ readable' = readable \ {c}
      /\ thread' = NextStep(driver[c], readable \ {c})
      /\ UNCHANGED <<transition, now, pulses, inhibit, pool, gn, fragments, processor>>

(* The block that read() is copying is not free.                           *)
PoolIsFull == Len(pool) + (IF gn = "reading" THEN 1 ELSE 0) >= PoolBlocks

(* Samples of an inhibited channel, and those the pool has no room for,    *)
(* are dropped one by one.                                                 *)
WriteSample ==
  LET s == Head(batch)
  IN  /\ thread = "writing"
      /\ batch' = Tail(batch)
      /\ thread' = NextStep(Tail(batch), readable)
      /\ pool' = IF inhibit[s.channel] \/ PoolIsFull THEN pool ELSE Append(pool, s)
      /\ UNCHANGED <<transition, now, pulses, driver, inhibit, readable, gn, fragments, processor>>

DataThread == Poll \/ ReadChannel \/ WriteSample

-----------------------------------------------------------------------------
(* getNext_.                                                               *)

(* With no block active it returns at once: processFragments is not called.*)
GetNextBegin ==
  /\ ctl = "on" /\ gn = "out"
  /\ pool # <<>>
  /\ fragments' = <<>>
  /\ gn' = "loop"
  /\ UNCHANGED <<transition, now, pulses, driver, inhibit, reader, pool, processor>>

TakeSample ==
  /\ gn = "loop" /\ pool # <<>>
  /\ fragments' = Append(fragments, Head(pool))
  /\ pool' = Tail(pool)
  /\ gn' = "reading"
  /\ UNCHANGED <<transition, now, pulses, driver, inhibit, reader, processor>>

ReleaseSample ==
  /\ gn = "reading"
  /\ gn' = "loop"
  /\ UNCHANGED <<transition, now, pulses, driver, inhibit, reader, pool, fragments, processor>>

(* The hardware check, when it is due, may fail: getNext_ returns false.   *)
Monitor ==
  /\ gn = "loop" /\ pool = <<>>
  /\ gn' \in {"process", "over"}
  /\ UNCHANGED <<transition, now, pulses, driver, inhibit, reader, pool, fragments, processor>>

ByTime(list) ==
  LET before(i, j) == \/ list[i].time < list[j].time
                      \/ list[i].time = list[j].time /\ i < j
      index == SortSeq([k \in DOMAIN list |-> k], before)
  IN  [k \in DOMAIN list |-> list[index[k]]]

MostRecent(list, c) == Max({list[k].time : k \in {i \in DOMAIN list : list[i].channel = c}})

Represented(list) == {list[k].channel : k \in DOMAIN list}

(* Mutant: the most recent of the most recent times.                       *)
OldestMostRecentPoint_Newest(list) == Max({MostRecent(list, c) : c \in Represented(list)})

OldestMostRecentPoint(list) == Min({MostRecent(list, c) : c \in Represented(list)})

AcceptBefore == now - Timeout

(* Mutant: the timeout is ignored.                                         *)
PartitionPoint_NoTimeout(list) == OldestMostRecentPoint(list)

PartitionPoint(list) == Max({AcceptBefore, OldestMostRecentPoint(list)})

(* Mutant: fragments are counted as seen again every time they are held.   *)
processFragments_CountsMerged ==
  LET merged == ByTime(fragments \o pending)
      ready(f) == f.time < PartitionPoint(merged)
      held(f) == ~ready(f)
      OnTime(c) == c \in Represented(merged) /\ MostRecent(merged, c) >= AcceptBefore
  IN  /\ gn = "process"
      /\ fragments' = SelectSeq(merged, ready)
      /\ pending' = SelectSeq(merged, held)
      /\ seen' = seen + Len(merged)
      /\ counter' = counter + Len(fragments')
      /\ upTo' = [c \in Channel |->
                   Max({upTo[c]} \cup {fragments'[k].time :
                                         k \in {i \in DOMAIN fragments' : OnTime(c)}})]
      /\ gn' = "out"
      /\ UNCHANGED <<transition, now, pulses, driver, inhibit, reader, pool>>

(* Fragments that leave get the next sequence IDs, in their order.         *)
processFragments ==
  LET merged == ByTime(fragments \o pending)
      ready(f) == f.time < PartitionPoint(merged)
      held(f) == ~ready(f)
      OnTime(c) == c \in Represented(merged) /\ MostRecent(merged, c) >= AcceptBefore
  IN  /\ gn = "process"
      /\ fragments' = SelectSeq(merged, ready)
      /\ pending' = SelectSeq(merged, held)
      /\ seen' = seen + Len(fragments)
      /\ counter' = counter + Len(fragments')
      /\ upTo' = [c \in Channel |->
                   Max({upTo[c]} \cup {fragments'[k].time :
                                         k \in {i \in DOMAIN fragments' : OnTime(c)}})]
      /\ gn' = "out"
      /\ UNCHANGED <<transition, now, pulses, driver, inhibit, reader, pool>>

GetNext == GetNextBegin \/ TakeSample \/ ReleaseSample \/ Monitor \/ processFragments

-----------------------------------------------------------------------------
Next == Tick \/ StartBegin \/ StopBegin \/ Transition \/ DataThread \/ GetNext

(* Threads are scheduled, the clock runs, artdaq polls getNext_.           *)
Spec ==
  /\ Init /\ [][Next]_vars
  /\ WF_vars(Tick) /\ WF_vars(Transition) /\ WF_vars(DataThread) /\ WF_vars(GetNext)

-----------------------------------------------------------------------------
(* PROPERTIES                                                              *)

TypeOK ==
  /\ ctl \in {"off", "starting", "launching", "on", "stopping", "joining"}
  /\ channel \in 1 .. ChannelCount + 1
  /\ runs \in 0 .. MaxRuns /\ now \in 0 .. MaxTime /\ pulses \in 0 .. MaxSamples
  /\ driver \in [Channel -> Seq(Sample)]
  /\ inhibit \in [Channel -> BOOLEAN]
  /\ thread \in {"off", "idle", "reading", "writing"}
  /\ readable \subseteq Channel /\ batch \in Seq(Sample)
  /\ pool \in Seq(Sample) /\ Len(pool) <= PoolBlocks
  /\ gn \in {"out", "loop", "reading", "process", "over"}
  /\ fragments \in Seq(Sample) /\ pending \in Seq(Sample)
  /\ counter \in Nat /\ seen \in Nat
  /\ upTo \in [Channel -> 0 .. MaxTime]

(* Fragments leave in time order, over all calls of a run, as far as the   *)
(* lateness of the data allows: none is earlier than one that left in a    *)
(* call when its channel was on time, that is, had a fragment no older     *)
(* than the timeout in the lists (SPECTDCFragmentPreProcessor.cc:78-96).   *)
TimeOrdered ==
  [][gn = "process" /\ gn' = "out" =>
       /\ \A k \in 2 .. Len(fragments') : fragments'[k - 1].time <= fragments'[k].time
       /\ \A k \in DOMAIN fragments' :
            fragments'[k].time >= upTo[fragments'[k].channel]]_vars

(* The destructor's check (lines 29-32) never finds a difference: what the *)
(* preprocessor saw it has numbered and sent, or still holds.              *)
SeenIsSentOrPending == counter + Len(pending) = seen

(* Nothing is taken in without a place, and nothing seen is forgotten.     *)
Inv == TypeOK /\ SeenIsSentOrPending

(* Some fragment has waited longer than the timeout.                       *)
Expired == \E k \in DOMAIN pending : pending[k].time < AcceptBefore

(* Fragments that waited longer than the timeout leave, although their     *)
(* channel or another is silent or mute, if any channel delivers a sample: *)
(* getNext_ calls the preprocessor only then (lines 118-123 of the reader).*)
ExpiredLeaves == Expired /\ pool # <<>> ~> ~Expired \/ gn = "over"
=============================================================================
