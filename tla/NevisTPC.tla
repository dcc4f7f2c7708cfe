------------------------------- MODULE NevisTPC --------------------------------
(***************************************************************************)
(* Generators/SBND/NevisTPC/NevisTPC_generatorBase.cc, with readsome() of  *)
(* nevishwutils/XMITReader.cpp and GetFEMCrateData() of the generator: the *)
(* trigger stream of an SBND TPC crate.  For each event the crate sends    *)
(*   FFFF FFFF, one packet of each front-end module (FEM), 0000 e000.      *)
(* GetData, a thread, moves the stream in chunks of a fixed number of      *)
(* words, which know nothing of packets, into a circular buffer, where     *)
(* FillFragment cuts packets out again.  The word count that a FEM puts in *)
(* its header is not exact ("we can't trust the FEM"), so the end of a     *)
(* packet is searched for around it.                                       *)
(*                                                                         *)
(* A word is a record of the packet it was sent in and its place there;    *)
(* the code looks at its value, and at the packet only where it reads the  *)
(* header.  The header has 2 words here, 12 in the code.                   *)
(***************************************************************************)
EXTENDS Integers, Sequences

CONSTANTS
  FEMs,              \* number of front-end modules; their slots are 1 .. FEMs
  MaxEvents,         \* bound: events the crate sends
  Counts,            \* ADC word counts a FEM may put into its header
  wiggle_room,       \* how far off it may be
  FrameMod,          \* frame numbers before the counter of a FEM wraps
  ChunkWords,        \* words of a DMA transfer
  Capacity,          \* capacity of the circular buffer, in words
  EventsPerSubrun,
  desyncCrash        \* stop when the modules disagree on event or frame

HeaderWords == 2
Needed(count) == HeaderWords + count + wiggle_room + 1

ASSUME NevisAssumption ==
  /\ {FEMs, MaxEvents, wiggle_room, ChunkWords, EventsPerSubrun} \subseteq Nat \ {0}
  /\ Capacity \in Nat /\ FrameMod \in Nat /\ FrameMod > 2  \* events are at most 2 frames apart
  /\ \A c \in Counts : c \in Nat /\ c >= wiggle_room /\ Needed(c) + ChunkWords <= Capacity
  /\ desyncCrash \in BOOLEAN

VARIABLES
  link,         \* words the crate has sent and no transfer has fetched
  event, frame, \* events sent, and frames since the start of the run
  reader,       \* GetData: check, read, insert, thrown, off
  DMABuffer_,   \* what the last transfer brought
  broken,       \* a transfer was given up, and words with it
  ending,       \* stop(): no, abort, stop, join, done
  buffer,       \* CircularBuffer_
  filling,      \* FillFragment: begin, trailer, fem, thrown
  current_event, current_framenum,   \* -1: none yet
  rollCounters, prevFrames,          \* for each slot
  metadata_,    \* event number and corrected frame of the last fragment
  subrun,       \* _subrun_event_0 and current_subrun_
  frag, made    \* the last fragment, and how many there were

crate == <<link, event, frame>>
transfer == <<reader, DMABuffer_, broken>>
checks == <<current_event, current_framenum>>
made_of == <<rollCounters, prevFrames, metadata_, subrun, frag, made>>
nevisVars == <<crate, transfer, ending, buffer, filling, checks, made_of>>

Slot == 1 .. FEMs

\* the values of words the code tells apart
FFFF == "FFFF"
Zero == "0000"
E000 == "e000"
Header == "header"
ADC == "adc"

\* a packet: trigger, module, its word count and true size, frame since the
\* start of the run, and how far the event counter of the module is off; the
\* two words before and after those of an event are packets of no module
XMITHeader == 0
XMITTrailer == FEMs + 1
NoModule(e, f, s, count) ==
  [event |-> e, slot |-> s, count |-> count, size |-> 2, frame |-> f, slip |-> 0]
Filler == [p |-> NoModule(0, 0, -1, 0), i |-> 1]

Value(w) ==
  CASE w.p.slot = XMITHeader -> FFFF
    [] w.p.slot \in Slot /\ w.i = 1 -> FFFF
    [] w.p.slot \in Slot /\ w.i = 2 -> Header
    [] w.p.slot \in Slot /\ w.i > 2 /\ w.i = w.p.size -> Zero
    [] w.p.slot = XMITTrailer /\ w.i = 1 -> Zero
    [] w.p.slot = XMITTrailer /\ w.i = 2 -> E000
    [] OTHER -> ADC

InitNevis ==
  /\ link = <<>> /\ event = 0 /\ frame = 0
  /\ reader = "check" /\ DMABuffer_ = <<>> /\ broken = FALSE /\ ending = "no"
  /\ buffer = <<>> /\ filling = "begin"
  /\ current_event = -1 /\ current_framenum = -1
  /\ rollCounters = [s \in Slot |-> 0] /\ prevFrames = [s \in Slot |-> 0]
  /\ metadata_ = [event |-> 0, frame |-> 0] /\ subrun = [event0 |-> -1, number |-> 0]
  /\ frag = <<>> /\ made = 0

-----------------------------------------------------------------------------
(* The crate.  The last module may have missed a trigger; word counts are  *)
(* off by what the search allows; the last data word is zero, as are the   *)
(* first bits of the trailer: the worst case for the search.               *)

PacketWords(p) == [i \in 1 .. p.size |-> [p |-> p, i |-> i]]

Packet(e, f, s, count, off, slip) ==
  IF s \in Slot
  THEN [event |-> e, slot |-> s, count |-> count, size |-> HeaderWords + count + off[s],
        frame |-> f, slip |-> IF s = FEMs THEN slip ELSE 0]
  ELSE NoModule(e, f, s, 0)

\* the packets one after the other
EventWords(packet) ==
  LET upto[s \in 0 .. FEMs + 1] ==
        IF s = 0 THEN PacketWords(packet[0]) ELSE upto[s - 1] \o PacketWords(packet[s])
  IN upto[FEMs + 1]

SendEvent ==
  /\ event < MaxEvents /\ Len(link) < ChunkWords
  /\ event' = event + 1
  /\ frame' \in frame + 1 .. frame + 2
  /\ \E slip \in {0, 1}, count \in Counts :
     \E off \in [Slot -> - wiggle_room .. wiggle_room - 1] :
       link' = link \o EventWords([s \in 0 .. FEMs + 1 |->
                                    Packet(event', frame', s, count, off, slip)])
  /\ UNCHANGED <<transfer, ending, buffer, filling, checks, made_of>>

-----------------------------------------------------------------------------
(* GetData: readsome() until there is a chunk, and Insert().  The stop flag*)
(* of the thread is looked at between two calls only.                      *)

Check ==
  /\ reader = "check"
  /\ reader' = IF ending = "join" THEN "off" ELSE "read"
  /\ UNCHANGED <<crate, DMABuffer_, broken, ending, buffer, filling, checks, made_of>>

ReadChunk ==
  /\ reader = "read" /\ Len(link) >= ChunkWords
  /\ DMABuffer_' = SubSeq(link, 1, ChunkWords)
  /\ link' = SubSeq(link, ChunkWords + 1, Len(link))
  /\ reader' = "insert"
  /\ UNCHANGED <<event, frame, broken, ending, buffer, filling, checks, made_of>>

(* Mutant: GetData keeps trying.                                           *)
TimeOut_NeverThrows ==
  /\ reader = "read" /\ Len(link) < ChunkWords
  /\ link' = <<>> /\ broken' = (broken \/ link # <<>>)
  /\ UNCHANGED <<event, frame, reader, DMABuffer_, ending, buffer, filling, checks, made_of>>

(* The transfer is aborted on a timeout, and readsome() returns 0: what it *)
(* had brought is forgotten.  After TimeoutSec GetData throws.             *)
TimeOut ==
  /\ reader = "read" /\ Len(link) < ChunkWords
  /\ link' = <<>> /\ broken' = (broken \/ link # <<>>)
  /\ reader' \in {"read", "thrown"}
  /\ UNCHANGED <<event, frame, DMABuffer_, ending, buffer, filling, checks, made_of>>

(* Mutant: Insert() waits for room for two transfers.                      *)
Insert_TwoChunks ==
  /\ reader = "insert"
  /\ Capacity - Len(buffer) >= 2 * ChunkWords
  /\ buffer' = buffer \o DMABuffer_
  /\ DMABuffer_' = <<>>
  /\ reader' = "check"
  /\ UNCHANGED <<crate, broken, ending, filling, checks, made_of>>

(* Insert() waits for room without looking at a flag.                      *)
Insert ==
  /\ reader = "insert"
  /\ Capacity - Len(buffer) >= Len(DMABuffer_)
  /\ buffer' = buffer \o DMABuffer_
  /\ DMABuffer_' = <<>>
  /\ reader' = "check"
  /\ UNCHANGED <<crate, broken, ending, filling, checks, made_of>>

GetData == Check \/ ReadChunk \/ TimeOut \/ Insert

-----------------------------------------------------------------------------
(* stop(): artdaq holds the lock under which getNext_ is called.  dmaStop()*)
(* aborts a transfer, which dmaWaitWithTimeout() takes for a complete one. *)

StopBegin ==
  /\ ending = "no"
  /\ ending' = "abort"
  /\ UNCHANGED <<crate, transfer, buffer, filling, checks, made_of>>

dmaStop ==
  /\ ending = "abort"
  /\ ending' = "stop"
  /\ IF reader = "read" /\ Len(link) < ChunkWords
     THEN /\ reader' = "insert" /\ broken' = TRUE
          /\ DMABuffer_' = link \o [i \in 1 .. ChunkWords - Len(link) |-> Filler]
          /\ link' = <<>>
     ELSE UNCHANGED <<link, reader, DMABuffer_, broken>>
  /\ UNCHANGED <<event, frame, buffer, filling, checks, made_of>>

StopThread ==
  /\ ending = "stop"
  /\ ending' = "join"
  /\ UNCHANGED <<crate, transfer, buffer, filling, checks, made_of>>

StopJoin ==
  /\ ending = "join" /\ reader \in {"off", "thrown"}
  /\ ending' = "done"
  /\ UNCHANGED <<crate, transfer, buffer, filling, checks, made_of>>

Stop == dmaStop \/ StopThread \/ StopJoin

-----------------------------------------------------------------------------
(* getNext_ calls FillFragment until it returns false, and is called again.*)
(* Insert() only appends, so every check below sees a prefix that stays.   *)

Begins(v, w) == Len(buffer) >= 2 /\ Value(buffer[1]) = v /\ Value(buffer[2]) = w

EraseXMITHeader ==
  /\ filling = "begin" /\ Len(buffer) >= 2
  /\ filling' = "trailer"
  /\ IF Begins(FFFF, FFFF)
     THEN /\ buffer' = SubSeq(buffer, 3, Len(buffer))
          /\ current_event' = -1 /\ current_framenum' = -1
     ELSE UNCHANGED <<buffer, checks>>
  /\ UNCHANGED <<crate, transfer, ending, made_of>>

EraseXMITTrailer ==
  /\ filling = "trailer"
  /\ IF Begins(Zero, E000)
     THEN filling' = "begin" /\ buffer' = SubSeq(buffer, 3, Len(buffer))
     ELSE filling' = (IF Len(buffer) < HeaderWords THEN "begin" ELSE "fem") /\ UNCHANGED buffer
  /\ UNCHANGED <<crate, transfer, ending, checks, made_of>>

(* What the code takes for the header: if words were lost, any bits.       *)
Headers ==
  IF Value(buffer[2]) = Header THEN {buffer[2].p}
  ELSE {NoModule(0, 0, s, c) : s \in Slot \cup {0}, c \in Counts}

EventNum(h) == h.event + h.slip
FrameNum(h) == h.frame % FrameMod

(* "Header out of sync", or FEM event or frame number out of sync.         *)
OutOfSync ==
  /\ filling = "fem"
  /\ \/ Value(buffer[1]) # FFFF
     \/ /\ desyncCrash
        /\ \E h \in Headers : \/ current_event \notin {-1, EventNum(h)}
                              \/ current_framenum \notin {-1, FrameNum(h)}
  /\ filling' = "thrown"
  /\ UNCHANGED <<crate, transfer, ending, buffer, checks, made_of>>

InSync(h) ==
  /\ filling = "fem" /\ Value(buffer[1]) = FFFF /\ h \in Headers
  /\ IF desyncCrash
     THEN /\ current_event \in {-1, EventNum(h)} /\ current_event' = EventNum(h)
          /\ current_framenum \in {-1, FrameNum(h)} /\ current_framenum' = FrameNum(h)
     ELSE UNCHANGED checks

(* Nothing is taken from the buffer, so an illegal slot stays there.       *)
NotEnough(h) ==
  /\ InSync(h)
  /\ Len(buffer) < Needed(h.count) \/ h.slot \notin Slot
  /\ filling' = "begin"
  /\ UNCHANGED <<crate, transfer, ending, buffer, made_of>>

-----------------------------------------------------------------------------
(* The end of the packet: the first FFFF or XMIT trailer around the place  *)
(* that the word count points to, and that place if there is none.         *)

EndsBefore(i) ==
  \/ Value(buffer[i]) = FFFF
  \/ Value(buffer[i]) = Zero /\ Value(buffer[i + 1]) = E000

(* Mutant: the search starts one word too late.                            *)
expected_size_LateStart(h) ==
  LET nominal == HeaderWords + h.count
      found == {i \in nominal + 2 - wiggle_room .. nominal + wiggle_room : EndsBefore(i)}
  IN IF found = {} THEN nominal + 1
     ELSE (CHOOSE i \in found : \A j \in found : i <= j) - 1

expected_size(h) ==
  LET nominal == HeaderWords + h.count
      found == {i \in nominal + 1 - wiggle_room .. nominal + wiggle_room : EndsBefore(i)}
  IN IF found = {} THEN nominal + 1
     ELSE (CHOOSE i \in found : \A j \in found : i <= j) - 1

(* Mutant: a step back by one is not taken for a rollover.                 *)
RolledOver_Tolerant(h) == prevFrames[h.slot] > FrameNum(h) + 1

RolledOver(h) == prevFrames[h.slot] > FrameNum(h)

EndsSubrun(this_event, event0) ==
  event0 # this_event /\ this_event % EventsPerSubrun = 0

FillFragment(h) ==
  /\ InSync(h)
  /\ Len(buffer) >= Needed(h.count) /\ h.slot \in Slot
  /\ filling' = "begin"
  /\ LET slot == h.slot
         rolls == rollCounters[slot] + (IF RolledOver(h) THEN 1 ELSE 0)
         this_event == metadata_.event
         event0 == IF subrun.event0 = -1 THEN this_event ELSE subrun.event0
     IN /\ rollCounters' = [rollCounters EXCEPT ![slot] = rolls]
        /\ prevFrames' = [prevFrames EXCEPT ![slot] = FrameNum(h)]
        /\ metadata_' = [event |-> EventNum(h), frame |-> FrameNum(h) + rolls * FrameMod]
        /\ subrun' = IF EndsSubrun(this_event, event0)
                     THEN [event0 |-> this_event, number |-> subrun.number + 1]
                     ELSE [subrun EXCEPT !.event0 = event0]
  /\ frag' = SubSeq(buffer, 1, expected_size(h))
  /\ made' = made + 1
  /\ buffer' = SubSeq(buffer, expected_size(h) + 1, Len(buffer))
  /\ UNCHANGED <<crate, transfer, ending>>

(* Not while stop() holds the lock.                                        *)
GetNext ==
  /\ ending \in {"no", "done"}
  /\ \/ EraseXMITHeader \/ EraseXMITTrailer
     \/ OutOfSync
     \/ filling = "fem" /\ \E h \in Headers : NotEnough(h) \/ FillFragment(h)

NextNevis == SendEvent \/ GetData \/ StopBegin \/ Stop \/ GetNext

(* The thread runs, artdaq keeps calling getNext_, and stop() goes on.     *)
SpecNevis == InitNevis /\ [][NextNevis]_nevisVars /\ WF_nevisVars(GetData) /\ WF_nevisVars(GetNext) /\ WF_nevisVars(Stop)

-----------------------------------------------------------------------------
(* PROPERTIES                                                              *)

TypeOKNevis ==
  /\ event \in 0 .. MaxEvents /\ frame \in event .. 2 * event
  /\ reader \in {"check", "read", "insert", "thrown", "off"} /\ broken \in BOOLEAN
  /\ ending \in {"no", "abort", "stop", "join", "done"}
  /\ Len(DMABuffer_) \in {0, ChunkWords} /\ Len(buffer) <= Capacity
  /\ filling \in {"begin", "trailer", "fem", "thrown"}
  /\ current_event \in -1 .. MaxEvents + 1 /\ current_framenum \in -1 .. FrameMod - 1
  /\ rollCounters \in [Slot -> Nat] /\ prevFrames \in [Slot -> 0 .. FrameMod - 1]
  /\ metadata_ \in [event : 0 .. MaxEvents + 1, frame : Nat]
  /\ subrun \in [event0 : -1 .. MaxEvents + 1, number : Nat] /\ made \in Nat

(* As long as no words are lost, every fragment is one whole packet, of    *)
(* the module and event whose turn it is, although neither the chunks nor  *)
(* the word counts say where packets end.                                  *)
FragmentsWhole ==
  ~broken /\ made > 0 =>
    LET p == frag[1].p IN
      /\ Len(frag) = p.size /\ \A i \in DOMAIN frag : frag[i].p = p
      /\ p.slot = ((made - 1) % FEMs) + 1 /\ p.event = (made - 1) \div FEMs + 1

(* The corrected frame number of a fragment is the number of frames since  *)
(* the start of the run, however often the counter of the module wrapped.  *)
FramesTrue == ~broken /\ made > 0 => metadata_.frame = frag[1].p.frame

(* With desyncCrash, a module that has missed a trigger ends the run       *)
(* before its packet is taken for one of another event, and nothing else   *)
(* ends the run.                                                           *)
DesyncStops ==
  ~broken => /\ made > 0 /\ desyncCrash /\ FEMs > 1 => frag[1].p.slip = 0
             /\ filling = "thrown" => desyncCrash /\ buffer[1].p.slip = 1

(* Every EventsPerSubrun events end one subrun, on the first fragment after*)
(* one of that event, however many fragments the event has.                *)
SubrunsCounted ==
  ~broken /\ made > 1 /\ desyncCrash /\ FEMs > 1 =>
    subrun.number = ((made - 2) \div FEMs + 1) \div EventsPerSubrun

(* Fragments are whole, in their subrun, and of one event while the run    *)
(* goes on.                                                                *)
InvNevis == TypeOKNevis /\ FragmentsWhole /\ DesyncStops /\ SubrunsCounted

(* When a further event has been sent, all packets of the events before it *)
(* become fragments, or data taking ends.  (The last packet waits in the   *)
(* buffer, because the search looks at words behind it.)                   *)
PacketsDelivered ==
  event = MaxEvents /\ ~broken /\ reader # "thrown" ~>
    made >= FEMs * (MaxEvents - 1) \/ ending # "no" \/ filling = "thrown"

(* stop() returns, unless the buffer is full: Insert() then waits for      *)
(* getNext_, which waits for the lock that stop() holds.                   *)
StopReturns ==
  ending = "abort" ~>
    ending = "done" \/ (reader = "insert" /\ Len(buffer) + ChunkWords > Capacity)
=============================================================================
