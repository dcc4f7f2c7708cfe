--------------------------- MODULE BottomCRTReadout ---------------------------
(***************************************************************************)
(* Generators/ICARUS/BottomInterface/Backend_DAQ/readout/main.c: the       *)
(* process that moves the data of one USB readout board of the bottom      *)
(* cosmic-ray tagger to files.  A ring of buffers goes through USB         *)
(* transfers and asynchronous writes; two file slots take turns.  A file   *)
(* is called *.wr while it is written and is renamed when it is closed.    *)
(*                                                                         *)
(* The data is a sequence of words: the head and the tail of each packet   *)
(* of hits; time packets are left out.  A transfer brings one word or      *)
(* none.  Files are numbered in the order of creation, as their names are  *)
(* times.  Modelled from the start of data taking on; the baseline run,    *)
(* the commands to the boards and the messages that change directory,      *)
(* latency and inhibition are not.  The writes submitted in one pass of    *)
(* the main loop, which waits for them busily, are one step with their     *)
(* submission.                                                             *)
(***************************************************************************)
EXTENDS Naturals, Sequences, FiniteSets, SequencesExt

CONSTANTS
  BUF_NO,      \* buffers of the ring
  MaxFiles,    \* bound: files of a run
  MaxTransfers \* bound: transfers that complete

ASSUME ReadoutAssumption ==
  BUF_NO \in Nat \ {0, 1} /\ MaxFiles \in Nat \ {0} /\ MaxTransfers \in Nat

VARIABLES
  d,          \* the ring of buffers: state, data of a finished transfer, and
              \* the file slot that it is written to
  nr, rw, wn, \* next buffer to be read into, to be written, to be released
  f,          \* the two file slots: state and file
  loop,       \* where the main loop is: events, release; or dead
  kill_me,
  files,      \* contents of the files, in the order of creation
  wr,         \* the files named *.wr
  sent,       \* words sent by the board
  transfers   \* number of transfers completed

ring == <<d, nr, rw, wn>>
board == <<sent, transfers>>
process == <<ring, f, loop, kill_me, files, wr, board>>

Buf == 0 .. BUF_NO - 1
Slot == {0, 1}
RingFrom(i) == [k \in 1 .. BUF_NO |-> (i + k - 1) % BUF_NO]

Buffer(state) == [state |-> state, data |-> <<>>, f |-> 0]
Closed == [state |-> "nothing", file |-> 0]

ReadoutInit ==
  /\ d = [i \in Buf |-> Buffer("nothing")] /\ nr = 0 /\ rw = 0 /\ wn = 0
  /\ f = [s \in Slot |-> Closed]
  /\ loop = "events" /\ kill_me = FALSE
  /\ files = <<>> /\ wr = {}
  /\ sent = <<>> /\ transfers = 0

-----------------------------------------------------------------------------
(* check_data_in(): open the first file, or go on to the other slot when   *)
(* the time of the file is over and the slot is free.                      *)

Active == {s \in Slot : f[s].state = "writing"}

Opened == [state |-> "writing", file |-> Len(files) + 1]

try_to_open(s, slots) ==
  /\ f[s].state = "nothing" /\ Len(files) < MaxFiles
  /\ f' = [slots EXCEPT ![s] = Opened]
  /\ wr' = wr \cup {Len(files) + 1}

check_data_in ==
  \/ Active = {} /\ try_to_open(0, f)
  \/ \E s \in Active : try_to_open(1 - s, [f EXCEPT ![s].state = "closing"])
  \/ /\ Active # {} \/ f[0].state # "nothing" \/ Len(files) = MaxFiles
     /\ UNCHANGED <<f, wr>>

(* read_data_in(), first part: a transfer that was overtaken is cancelled; *)
(* then the buffers that are done, in the order of the ring, are written   *)
(* to the active file, up to the first that is not done or round the whole *)
(* ring.  A write may fail.                                                *)

Overtaken == d[rw].state = "reading" /\ \E i \in Buf : d[i].state = "done"

Done == {k \in 1 .. BUF_NO :
           \A j \in 1 .. k : d[RingFrom(rw)[j]].state = "done"}
ToWrite == SelectSeq(SubSeq(RingFrom(rw), 1, Cardinality(Done)),
                     LAMBDA i : d[i].data # <<>>)

Contents(bufs) == FlattenSeq([k \in 1 .. Len(bufs) |-> d[bufs[k]].data])

aio_write(active, failed) ==
  LET written == SelectSeq(ToWrite, LAMBDA i : i \notin failed)
      old == IF wr' # wr THEN Append(files, <<>>) ELSE files
      done == {RingFrom(rw)[k] : k \in Done}
  IN  /\ d' = [i \in Buf |->
                IF active # {} /\ i \in Range(ToWrite)
                THEN [state |-> IF i \in failed THEN "failed" ELSE "writing", data |-> <<>>,
                      f |-> CHOOSE s \in active : TRUE]
                ELSE IF i \in done THEN Buffer("nothing")
                ELSE IF i = rw /\ Overtaken THEN Buffer("cancelling")
                ELSE d[i]]
      /\ files' = IF active = {} THEN old
                  ELSE [old EXCEPT ![f'[CHOOSE s \in active : TRUE].file] = @ \o Contents(written)]
      /\ rw' = (rw + Cardinality(Done)) % BUF_NO
      /\ kill_me' = (kill_me \/ (active = {} /\ ToWrite # <<>>))

CheckAndWrite ==
  /\ loop = "events" /\ ~kill_me /\ loop' = "release"
  /\ check_data_in
  /\ \E failed \in SUBSET Range(ToWrite) : aio_write(Active', failed)
  /\ UNCHANGED <<nr, wn, board>>

(* Second part: release the buffers between wn and rw.  The wait for a     *)
(* write that failed never ends.  When rw has gone round the whole ring to *)
(* wn nothing is released.                                                 *)
From(i, j) == (j + BUF_NO - i) % BUF_NO
Window == {i \in Buf : From(wn, i) < From(wn, rw)}
Released ==
  [i \in Buf |-> IF i \in Window /\ d[i].state = "writing" THEN Buffer("nothing") ELSE d[i]]

(* Third part: close files and rename them, in both slots, and give the    *)
(* free buffers to new transfers.                                          *)
Closing ==
  {s \in Slot :
     /\ f[s].state = "closing"
     /\ \A i \in Buf : Released[i].f = s => Released[i].state \notin {"writing", "failed"}}

Free == {k \in 1 .. BUF_NO :
           \A j \in 1 .. k : Released[RingFrom(nr)[j]].state = "nothing"}

ReleaseCloseRead ==
  /\ loop = "release" /\ loop' = "events"
  /\ \A i \in Window : d[i].state # "failed"
  /\ wn' = rw
  /\ f' = [s \in Slot |-> IF s \in Closing THEN Closed ELSE f[s]]
  /\ wr' = wr \ {f[s].file : s \in Closing}
  /\ d' = [i \in Buf |-> IF \E k \in Free : RingFrom(nr)[k] = i
                         THEN Buffer("reading") ELSE Released[i]]
  /\ nr' = (nr + Cardinality(Free)) % BUF_NO
  /\ UNCHANGED <<rw, kill_me, files, board>>

-----------------------------------------------------------------------------
(* libusb_handle_events_completed() runs the callbacks of the transfers    *)
(* that are complete, one or several of them, or of none of these.         *)

(* The board goes on with the packet it has begun, or begins another.      *)
NextWord ==
  IF sent # <<>> /\ Last(sent).type = "head"
  THEN [type |-> "tail", packet |-> Last(sent).packet]
  ELSE [type |-> "head", packet |-> 1 + Len(sent) \div 2]

(* Transfers complete in order, except that a later one may overtake the   *)
(* one at rw, which then does not complete any more.                       *)
InTurn(i) ==
  /\ d[i].state = "reading"
  /\ \A j \in Buf : From(rw, j) < From(rw, i) /\ d[j].state = "reading" => j = rw
  /\ i = rw => ~Overtaken

cb_data_in(i) ==
  /\ loop = "events" /\ InTurn(i)
  /\ transfers < MaxTransfers /\ transfers' = transfers + 1
  /\ \/ /\ d' = [d EXCEPT ![i] = [Buffer("done") EXCEPT !.data = <<NextWord>>]]
        /\ sent' = Append(sent, NextWord)
     \/ d' = [d EXCEPT ![i] = Buffer("done")] /\ UNCHANGED sent
  /\ UNCHANGED <<nr, rw, wn, f, loop, kill_me, files, wr>>

(* A transfer that failed or was cancelled ends the process.               *)
Ends(i) ==
  /\ d' = [d EXCEPT ![i] = Buffer("done")]
  /\ kill_me' = TRUE
  /\ UNCHANGED <<nr, rw, wn, f, loop, files, wr, board>>

TransferFails(i) == loop = "events" /\ InTurn(i) /\ Ends(i)
TransferCancelled(i) == loop = "events" /\ d[i].state = "cancelling" /\ Ends(i)

(* At the end of the process its files are closed and renamed.             *)
CleanUp ==
  /\ loop = "events" /\ kill_me /\ loop' = "dead"
  /\ d' = [i \in Buf |-> Buffer("nothing")]
  /\ f' = [s \in Slot |-> Closed]
  /\ wr' = {}
  /\ UNCHANGED <<nr, rw, wn, kill_me, files, board>>

MainLoop == CheckAndWrite \/ ReleaseCloseRead \/ CleanUp

-----------------------------------------------------------------------------
(* Every word that the board has sent is in the files or on its way to     *)
(* them, once and in order, as long as the process lives and no write      *)
(* fails.                                                                  *)
WordsKept ==
  loop # "dead" /\ (\A i \in Buf : d[i].state # "failed")
  => FlattenSeq(files) \o Contents(RingFrom(rw)) = sent

(* When a whole ring of buffers was handed over in one pass, rw is back at *)
(* wn and nothing is ever released.                                        *)
Wedged == wn = rw /\ d[rw].state = "writing"
=============================================================================
