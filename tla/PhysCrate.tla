------------------------------ MODULE PhysCrate -------------------------------
(***************************************************************************)
(* Generators/ICARUS/PhysCrate_GeneratorBase.cc, PhysCrateData_generator.cc*)
(* with icarus-base/PhysCrate.cc and Common/CircularBuffer.hh: the board   *)
(* reader of an ICARUS TPC crate.  A trigger makes every digitizer of the  *)
(* crate store one event.  Tiles (the event of one board) travel           *)
(*   board -> GetData (a thread) -> circular buffer -> getNext_ -> artdaq  *)
(* and nothing but their order tells getNext_ which tiles belong together. *)
(*                                                                         *)
(* The threads are WorkerThreads and appear through what that module is    *)
(* checked against.  Insert() of the buffer puts a whole tile in under the *)
(* lock, so the buffer is a sequence of tiles, and a tile whose header is  *)
(* there is complete.  The boards (external) count events modulo Events.   *)
(***************************************************************************)
EXTENDS Naturals, Sequences, SequencesExt

CONSTANTS
  nBoards,      \* boards of the crate
  BoardDepth,   \* events a board can store; when full it is busy
  Capacity,     \* capacity of the circular buffer, in tiles
  Events,       \* event numbers before the counter of the boards wraps:
                \* more than can be on the way, and lost in between
  IssueStart,   \* _issueStart: this crate sends the start-of-run signal
  MaxLost       \* bound: block transfers that fail

ASSUME CrateAssumption ==
  /\ {nBoards, BoardDepth} \subseteq Nat \ {0}
  /\ Capacity \in Nat /\ Capacity >= nBoards
  /\ Events \in Nat /\ Events > BoardDepth + Capacity + MaxLost
  /\ IssueStart \in BOOLEAN /\ MaxLost \in Nat

VARIABLES
  ctl,           \* start() and stop() in artdaq's thread: idle, monitor, run;
                 \* in stopNoMutex() or stop(): stopMonitor, stopGetData,
                 \* joinGetData; in between: flag, mutex; then joinGetNext
  again,         \* the stop() in progress is the one after stopNoMutex()
  should_stop,   \* artdaq's flag
  monitor,       \* the Monitor thread: off or on, or told to stop
  getData,       \* the GetData thread: off, check, waitData, dataAvail, insert
  stopRunning,   \* its _stop_running
  presBoard,     \* next board to read
  tilebuf,       \* the tile read last
  stored,        \* boards: events each has in store, oldest first
  nextEvent,     \* boards: number of the next event
  buffer,        \* fCircularBuffer
  gn,            \* getNext_: between calls, look, copy, erase, check, over
  iBoard,        \* tiles found by its loop
  frag,          \* the fragment it makes
  event_offset_, \* added to the event number
  sent,          \* the fragment handed to artdaq last in this run, if any
  lost           \* block transfers that have failed

control == <<ctl, again, should_stop, monitor>>
thread == <<getData, stopRunning, presBoard, tilebuf>>
crate == <<stored, nextEvent, lost>>
getNext == <<gn, iBoard, frag, event_offset_, sent>>
vars == <<control, thread, crate, buffer, getNext>>

Board == 1 .. nBoards
Event == 0 .. Events - 1
Following(e) == (e + 1) % Events
Tile == [board : Board, event : Event]
NoTile == [board |-> 1, event |-> 0]

Init ==
  /\ ctl = "idle" /\ again = FALSE /\ should_stop = FALSE /\ monitor = "off"
  /\ getData = "off" /\ stopRunning = FALSE /\ presBoard = 1 /\ tilebuf = NoTile
  /\ stored = [b \in Board |-> <<>>] /\ nextEvent = 0 /\ lost = 0
  /\ buffer = <<>>
  /\ gn = "over" /\ iBoard = 0 /\ frag = <<>> /\ event_offset_ = 0 /\ sent = <<>>

-----------------------------------------------------------------------------
(* The boards.  A busy board inhibits the trigger of the whole crate.      *)

Trigger ==
  /\ \A b \in Board : Len(stored[b]) < BoardDepth
  /\ stored' = [b \in Board |-> Append(stored[b], nextEvent)]
  /\ nextEvent' = Following(nextEvent)
  /\ UNCHANGED <<control, thread, buffer, getNext, lost>>

-----------------------------------------------------------------------------
(* start(): the buffer is made anew, the start of run is sent, and the     *)
(* threads are launched.  What was stored may survive the signal.          *)

Start ==
  /\ ctl = "idle"
  /\ should_stop' = FALSE /\ again' = FALSE
  /\ buffer' = <<>>
  /\ \/ IssueStart /\ stored' = [b \in Board |-> <<>>] /\ nextEvent' = 0
     \/ UNCHANGED <<stored, nextEvent>>
  /\ stopRunning' = FALSE /\ getData' = "check"
  /\ ctl' = "monitor"
  /\ UNCHANGED <<monitor, presBoard, tilebuf, lost, getNext>>

StartMonitor ==
  /\ ctl = "monitor"
  /\ monitor' = "on"
  /\ ctl' = "run"
  /\ gn' = "between" /\ sent' = <<>>
  /\ UNCHANGED <<again, should_stop, thread, crate, buffer, iBoard, frag, event_offset_>>

(* artdaq's Stop: stopNoMutex(), which is stop(); the flag; the lock that  *)
(* getNext_ is called under; stop().  WorkerThread::stop() waits.          *)
StopRequest ==
  /\ ctl = "run"
  /\ ctl' = "stopMonitor"
  /\ UNCHANGED <<again, should_stop, monitor, thread, crate, buffer, getNext>>

Stopping ==
  \/ /\ ctl = "stopMonitor"
     /\ monitor' = "off"
     /\ ctl' = "stopGetData"
     /\ UNCHANGED <<again, should_stop, stopRunning>>
  \/ /\ ctl = "stopGetData"
     /\ stopRunning' = TRUE
     /\ ctl' = "joinGetData"
     /\ UNCHANGED <<again, should_stop, monitor>>
  \/ /\ ctl = "joinGetData" /\ getData = "off"
     /\ ctl' = IF again THEN "joinGetNext" ELSE "flag"
     /\ UNCHANGED <<again, should_stop, monitor, stopRunning>>
  \/ /\ ctl = "flag"
     /\ should_stop' = TRUE
     /\ ctl' = "mutex"
     /\ UNCHANGED <<again, monitor, stopRunning>>
  \/ /\ ctl = "mutex" /\ gn \in {"between", "over"}
     /\ again' = TRUE
     /\ ctl' = "stopMonitor"
     /\ UNCHANGED <<should_stop, monitor, stopRunning>>
  \/ /\ ctl = "joinGetNext" /\ gn = "over"
     /\ ctl' = "idle"
     /\ UNCHANGED <<again, should_stop, monitor, stopRunning>>

Control ==
  \/ StartMonitor
  \/ Stopping /\ UNCHANGED <<getData, presBoard, tilebuf, crate, buffer, getNext>>

-----------------------------------------------------------------------------
(* GetData(): arm, wait for the first board, then read them all.  waitData *)
(* and dataAvail ask a board until it has an event.                        *)

Check ==
  /\ getData = "check"
  /\ IF stopRunning
     THEN getData' = "off" /\ UNCHANGED presBoard
     ELSE getData' = "waitData" /\ presBoard' = 1
  /\ UNCHANGED <<control, stopRunning, tilebuf, crate, buffer, getNext>>

waitData ==
  /\ getData = "waitData" /\ stored[1] # <<>>
  /\ getData' = "dataAvail"
  /\ UNCHANGED <<control, stopRunning, presBoard, tilebuf, crate, buffer, getNext>>

ReadTile ==
  /\ getData = "dataAvail" /\ presBoard <= nBoards
  /\ stored[presBoard] # <<>>
  /\ tilebuf' = [board |-> presBoard, event |-> Head(stored[presBoard])]
  /\ stored' = [stored EXCEPT ![presBoard] = Tail(@)]
  /\ presBoard' = presBoard + 1
  /\ getData' = "insert"
  /\ UNCHANGED <<control, stopRunning, nextEvent, lost, buffer, getNext>>

(* The block transfer failed: the tile is a header without data, which is  *)
(* skipped.  The board may have dropped the event, or still have it.       *)
ReadNothing ==
  /\ getData = "dataAvail" /\ presBoard <= nBoards
  /\ stored[presBoard] # <<>> /\ lost < MaxLost
  /\ \E dropped \in BOOLEAN :
       stored' = IF dropped THEN [stored EXCEPT ![presBoard] = Tail(@)] ELSE stored
  /\ lost' = lost + 1
  /\ presBoard' = presBoard + 1
  /\ UNCHANGED <<control, getData, stopRunning, tilebuf, nextEvent, buffer, getNext>>

AllRead ==
  /\ getData = "dataAvail" /\ presBoard > nBoards
  /\ getData' = "check"
  /\ UNCHANGED <<control, stopRunning, presBoard, tilebuf, crate, buffer, getNext>>

(* Mutant: room is not waited for.                                         *)
Insert_Overwrites ==
  /\ getData = "insert"
  /\ buffer' = Append(IF Len(buffer) < Capacity THEN buffer ELSE Tail(buffer), tilebuf)
  /\ getData' = "dataAvail"
  /\ UNCHANGED <<control, stopRunning, presBoard, tilebuf, crate, getNext>>

(* Insert() waits for room, and looks at no stop flag.                     *)
Insert ==
  /\ getData = "insert"
  /\ Len(buffer) < Capacity
  /\ buffer' = Append(buffer, tilebuf)
  /\ getData' = "dataAvail"
  /\ UNCHANGED <<control, stopRunning, presBoard, tilebuf, crate, getNext>>

GetData == Check \/ waitData \/ ReadTile \/ ReadNothing \/ AllRead \/ Insert

-----------------------------------------------------------------------------
(* getNext_.                                                               *)

(* artdaq does not call it again after false.                              *)
Return(more) == gn' = IF more THEN "between" ELSE "over"

Call ==
  /\ gn = "between" /\ ctl # "monitor"
  /\ \/ should_stop /\ Return(FALSE)
     \/ ~should_stop /\ buffer # <<>> /\ gn' = "look"
  /\ iBoard' = 0
  /\ UNCHANGED <<control, thread, crate, buffer, frag, event_offset_, sent>>

(* The loop over the boards gives up when the buffer ends before it does.  *)
Look ==
  /\ gn = "look"
  /\ IF iBoard = nBoards THEN gn' = "copy" /\ UNCHANGED iBoard
     ELSE IF Len(buffer) > iBoard THEN iBoard' = iBoard + 1 /\ UNCHANGED gn
     ELSE Return(TRUE) /\ UNCHANGED iBoard
  /\ UNCHANGED <<control, thread, crate, buffer, frag, event_offset_, sent>>

Copy ==
  /\ gn = "copy"
  /\ frag' = SubSeq(buffer, 1, nBoards)
  /\ gn' = "erase"
  /\ UNCHANGED <<control, thread, crate, buffer, iBoard, event_offset_, sent>>

(* Mutant: what has arrived since the copy is erased as well.              *)
Erase_All ==
  /\ gn = "erase"
  /\ buffer' = <<>>
  /\ gn' = "check"
  /\ UNCHANGED <<control, thread, crate, iBoard, frag, event_offset_, sent>>

Erase ==
  /\ gn = "erase"
  /\ buffer' = SubSeq(buffer, nBoards + 1, Len(buffer))
  /\ gn' = "check"
  /\ UNCHANGED <<control, thread, crate, iBoard, frag, event_offset_, sent>>

ev_num == frag[1].event

(* Mutant: the last board is not compared.                                 *)
Consistent_NotLast == \A j \in 2 .. nBoards - 1 : frag[j].event = ev_num

Consistent == \A j \in 2 .. nBoards : frag[j].event = ev_num

(* An inconsistent fragment has left the buffer, and artdaq does not take  *)
(* it.  Once an event 0 was seen, event numbers are shifted by one.        *)
Deliver ==
  /\ gn = "check" /\ Consistent
  /\ event_offset_' = IF ev_num = 0 THEN 1 ELSE event_offset_
  /\ sent' = frag
  /\ Return(TRUE)
  /\ UNCHANGED <<control, thread, crate, buffer, iBoard, frag>>

Inconsistent ==
  /\ gn = "check" /\ ~Consistent
  /\ Return(FALSE)
  /\ UNCHANGED <<control, thread, crate, buffer, iBoard, frag, event_offset_, sent>>

GetNext == Call \/ Look \/ Copy \/ Erase \/ Deliver \/ Inconsistent

-----------------------------------------------------------------------------
Next == Trigger \/ Start \/ StopRequest \/ Control \/ GetData \/ GetNext

(* Threads are scheduled, artdaq polls getNext_, and triggers keep coming  *)
(* (in the experiment a crate is always triggered: without a trigger       *)
(* waitData, and with it stop(), would wait).                              *)
Spec ==
  /\ Init /\ [][Next]_vars
  /\ WF_vars(Trigger) /\ WF_vars(Control) /\ WF_vars(GetData) /\ WF_vars(GetNext)

-----------------------------------------------------------------------------
(* PROPERTIES                                                              *)

TypeOK ==
  /\ ctl \in {"idle", "monitor", "run", "stopMonitor", "stopGetData", "joinGetData",
              "flag", "mutex", "joinGetNext"}
  /\ {again, should_stop, stopRunning} \subseteq BOOLEAN
  /\ monitor \in {"off", "on"}
  /\ getData \in {"off", "check", "waitData", "dataAvail", "insert"}
  /\ presBoard \in 1 .. nBoards + 1 /\ tilebuf \in Tile
  /\ \A b \in Board : stored[b] \in Seq(Event) /\ Len(stored[b]) <= BoardDepth
  /\ nextEvent \in Event /\ lost \in 0 .. MaxLost
  /\ buffer \in Seq(Tile) /\ Len(buffer) <= Capacity
  /\ gn \in {"between", "look", "copy", "erase", "check", "over"}
  /\ iBoard \in 0 .. nBoards /\ event_offset_ \in {0, 1}
  /\ {frag, sent} \subseteq Seq(Tile)

(* Whatever tiles are lost, a fragment that reaches artdaq holds one tile  *)
(* of each board, all of one event: the comparison of event numbers        *)
(* (PhysCrate_GeneratorBase.cc:299-313) is all that tells.  It does not    *)
(* tell whose tile is in which slot: when board 1 fails to transfer and    *)
(* keeps its event, the tiles 2, 1 of one event pass for the boards 1, 2.  *)
FragmentsWhole ==
  sent # <<>> => /\ {sent[j].board : j \in DOMAIN sent} = Board
                 /\ \A j \in DOMAIN sent : sent[j].event = sent[1].event

(* While no transfer fails, artdaq gets the events of a run one after the  *)
(* other, none twice and none left out, however full the buffer runs.      *)
EventsConsecutive ==
  [][lost' = 0 /\ sent # <<>> /\ sent' # sent /\ sent' # <<>>
       => sent'[1].event = Following(sent[1].event)]_vars

(* No tile of a run is in the buffer, and no thread is reading the crate,  *)
(* when the next start() makes the buffer anew.                            *)
QuietWhenIdle == ctl = "idle" => getData = "off" /\ gn = "over"

(* Fragments are whole, and a run leaves nothing behind.                   *)
Inv == TypeOK /\ FragmentsWhole /\ QuietWhenIdle

(* As long as no transfer fails, stop() returns: getNext_ empties the      *)
(* buffer that Insert() waits for until GetData has been joined.           *)
StopReturns == ctl = "stopMonitor" ~> ctl = "idle" \/ lost > 0

(* An event that all boards have stored reaches artdaq, or the run ends;   *)
(* stated of event 0, which the cyclic numbering makes recur.              *)
EventsDelivered ==
  ctl = "run" /\ (\A b \in Board : 0 \in Range(stored[b])) ~>
    (sent # <<>> /\ sent[1].event = 0) \/ ctl # "run" \/ lost > 0

(* Neither side waits for the other for ever.                              *)
NoMutualWait == StopReturns /\ EventsDelivered
=============================================================================
