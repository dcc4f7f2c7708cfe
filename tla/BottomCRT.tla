------------------------------- MODULE BottomCRT -------------------------------
(***************************************************************************)
(* Generators/ICARUS/CRTFragGen_generator.cc, BottomInterface/             *)
(* CRTInterface.cc and CRTdecode.cc: the board reader of the bottom        *)
(* cosmic-ray tagger of ICARUS.  It follows the file that the readout      *)
(* process (BottomCRTReadout) is writing, told of changes by inotify,      *)
(* changes to the latest one when nothing is new, and decodes packets out  *)
(* of the words.                                                           *)
(*                                                                         *)
(* The reader is modelled call by call of FillBuffer(), cut where it looks *)
(* at something the readout process changes.  One run is modelled, from    *)
(* the construction of the generator, which starts the readout process     *)
(* with a new directory, to stop(), which kills it.  The static buffer of  *)
(* undecoded words outlives a generator: a run may begin with what one     *)
(* before it has left.  The first time packet, before which packets are    *)
(* dropped, was seen.                                                      *)
(***************************************************************************)
EXTENDS BottomCRTReadout, BottomCRTTime

CONSTANTS
  RAWBUFSIZE    \* capacity of the buffer of undecoded words

ASSUME ReaderAssumption == RAWBUFSIZE \in Nat \ {0}

VARIABLES
  ctl,           \* the generator: ready, running, stopped
  rd,            \* FillBuffer(): between calls, or at wait (for events),
                 \* find, watch, open, read; failed after an exception
  state,         \* the CRT_* flags
  watch,         \* the file watched, or 0
  event,         \* there are events to read from inotify
  fd,            \* the file open, or 0; -1 in the code when it was closed
  pos,           \* words read from it
  datafile_name, \* the file opened last in this run, or 0
  candidate,     \* the file found
  raw,           \* rawfromhardware, as far as next_raw_byte
  fragments,     \* packets handed to artdaq, in order
  wentBack       \* history: a file was opened again after a later one

inotify == <<watch, event>>
datafile == <<datafile_name, wentBack>>
decoded == <<raw, fragments>>
reader == <<ctl, rd, state, inotify, datafile, fd, pos, candidate, decoded>>
vars == <<process, reader>>

OfEarlierRun == [type |-> "head", packet |-> MaxTransfers + 1]

Init ==
  /\ ReadoutInit
  /\ ctl = "ready" /\ rd = "idle"
  /\ state = {"first", "wait"}
  /\ watch = 0 /\ event = FALSE /\ fd = 0 /\ pos = 0 /\ datafile_name = 0 /\ candidate = 0
  /\ raw \in {<<>>, <<OfEarlierRun>>}
  /\ fragments = <<>> /\ wentBack = FALSE

-----------------------------------------------------------------------------
(* raw2cook() and make_a_packet(): the first packet of a sequence of words *)
(* and the number of words to drop with it.  Half a packet in front of     *)
(* another takes a part of that for its own and fails the parity check;    *)
(* what is left of it has no header and is dropped.                        *)

DecodeWord(r, w) ==
  IF r.packet # 0 THEN r
  ELSE [used |-> r.used + 1,
        packet |-> IF w.type = "tail" /\ w.packet = r.head THEN w.packet ELSE 0,
        head |-> IF w.type = "head" /\ r.head = 0 THEN w.packet ELSE 0]

raw2cook(buffer) == FoldLeft(DecodeWord, [used |-> 0, packet |-> 0, head |-> 0], buffer)

(* Hand over the packet that the buffer begins with, after what is to be   *)
(* dropped; go on at "otherwise" when there is none.                       *)
Cook(buffer, otherwise) ==
  LET r == raw2cook(buffer)
  IN  IF r.packet # 0
      THEN /\ raw' = SubSeq(buffer, r.used + 1, Len(buffer))
           /\ fragments' = Append(fragments, r.packet) /\ rd' = "idle"
      ELSE raw' = buffer /\ rd' = otherwise /\ UNCHANGED fragments

-----------------------------------------------------------------------------
(* FillBuffer().                                                           *)

(* Another packet out of what was read before.                             *)
Another == "drain" \in state /\ raw2cook(raw).packet # 0

Drain ==
  /\ ctl = "running" /\ rd = "idle" /\ Another
  /\ Cook(raw, "idle")
  /\ UNCHANGED <<process, ctl, state, inotify, datafile, fd, pos, candidate>>

(* read_everything_from_file(), up to the capacity of the buffer.          *)
Unread == IF fd = 0 THEN <<>> ELSE SubSeq(files[fd], pos + 1, Len(files[fd]))

(* Mutant: it is not remembered that the buffer was full.                  *)
read_everything_from_file_Forgets(otherwise) ==
  LET room == RAWBUFSIZE - Len(raw)
      new == SubSeq(Unread, 1, IF Len(Unread) < room THEN Len(Unread) ELSE room)
      buffer == raw \o new
  IN  /\ pos' = pos + Len(new)
      /\ state' = (state \ {"more", "drain"}) \cup (IF buffer # <<>> THEN {"drain"} ELSE {})
      /\ Cook(buffer, otherwise)

read_everything_from_file(otherwise) ==
  LET room == RAWBUFSIZE - Len(raw)
      new == SubSeq(Unread, 1, IF Len(Unread) < room THEN Len(Unread) ELSE room)
      buffer == raw \o new
  IN  /\ pos' = pos + Len(new)
      /\ state' = (state \ {"more", "drain"})
                  \cup (IF Len(buffer) = RAWBUFSIZE THEN {"more"} ELSE {})
                  \cup (IF buffer # <<>> THEN {"drain"} ELSE {})
      /\ Cook(buffer, otherwise)

(* The file was not read to its end.                                       *)
ReadMore ==
  /\ ctl = "running" /\ rd = "idle" /\ ~Another
  /\ "more" \in state
  /\ read_everything_from_file("wait")
  /\ UNCHANGED <<process, ctl, inotify, datafile, fd, candidate>>

(* Mutant: the next file is looked for only when the first one is awaited. *)
check_events_StayWithFile ==
  /\ \/ rd = "wait" /\ UNCHANGED state
     \/ /\ ctl = "running" /\ rd = "idle" /\ ~Another /\ "more" \notin state
        /\ state' = state \ {"drain"}
  /\ IF "wait" \in state
     THEN rd' = "find" /\ UNCHANGED event
     ELSE rd' = (IF event THEN "read" ELSE "idle") /\ event' = FALSE
  /\ UNCHANGED <<process, ctl, watch, datafile, fd, pos, candidate, decoded>>

(* check_events() takes whatever is there for a change of the file.        *)
check_events ==
  /\ \/ rd = "wait" /\ UNCHANGED state
     \/ /\ ctl = "running" /\ rd = "idle" /\ ~Another /\ "more" \notin state
        /\ state' = state \ {"drain"}
  /\ IF "wait" \in state
     THEN rd' = "find" /\ UNCHANGED event
     ELSE rd' = (IF event THEN "read" ELSE "find") /\ event' = FALSE
  /\ UNCHANGED <<process, ctl, watch, datafile, fd, pos, candidate, decoded>>

(* find_wr_file(): the latest; the times of two files may be the same.     *)
(* The watch on the old file is removed, which is an event, and the file   *)
(* closed, before the new one is looked at.                                *)
find_wr_file ==
  /\ rd = "find"
  /\ \/ \E name \in wr \ {datafile_name} :
          /\ wentBack => name >= datafile_name
          /\ candidate' = name /\ rd' = "watch"
          /\ event' = (event \/ watch # 0)
          /\ watch' = 0 /\ fd' = 0
     \/ /\ wr \subseteq {datafile_name} \/ datafile_name \in wr
        /\ rd' = "idle"
        /\ UNCHANGED <<candidate, event, watch, fd>>
  /\ UNCHANGED <<process, ctl, state, datafile, pos, decoded>>

(* The file found may have been renamed in the meantime, before the watch  *)
(* is set or before the file is opened.                                    *)
inotify_add_watch ==
  /\ rd = "watch"
  /\ IF candidate \in wr THEN watch' = candidate /\ rd' = "open"
                         ELSE rd' = "idle" /\ UNCHANGED watch
  /\ UNCHANGED <<process, ctl, state, event, datafile, fd, pos, candidate, decoded>>

(* The first file of all is read from its end on.                          *)
open ==
  /\ rd = "open"
  /\ IF candidate \in wr
     THEN /\ fd' = candidate /\ datafile_name' = candidate
          /\ wentBack' = (wentBack \/ candidate < datafile_name)
          /\ state' = {"active"}
          /\ IF "first" \in state THEN pos' = Len(files[candidate]) /\ rd' = "idle"
                                  ELSE pos' = 0 /\ rd' = "read"
          /\ UNCHANGED inotify
     ELSE /\ watch' = 0 /\ event' = TRUE /\ rd' = "idle"
          /\ UNCHANGED <<fd, datafile, state, pos>>
  /\ UNCHANGED <<process, ctl, candidate, decoded>>

(* Reading a file that is closed throws.                                   *)
Read ==
  /\ rd = "read"
  /\ IF fd # 0
     THEN read_everything_from_file("idle")
     ELSE rd' = "failed" /\ UNCHANGED <<state, pos, decoded>>
  /\ UNCHANGED <<process, ctl, inotify, datafile, fd, candidate>>

FillBuffer ==
  Drain \/ ReadMore \/ check_events \/ find_wr_file \/ inotify_add_watch \/ open \/ Read

-----------------------------------------------------------------------------
(* The generator.  stop() removes the watch, which is an event, and ends   *)
(* the readout process.                                                    *)

start ==
  /\ ctl = "ready" /\ ctl' = "running"
  /\ UNCHANGED <<process, rd, state, inotify, datafile, fd, pos, candidate, decoded>>

stop ==
  /\ ctl = "running" /\ rd = "idle" /\ ctl' = "stopped"
  /\ watch' = 0 /\ event' = (event \/ watch # 0)
  /\ loop' = "dead"
  /\ UNCHANGED <<ring, f, kill_me, files, wr, board, rd, state, datafile, fd, pos, candidate,
                 decoded>>

(* What is written to the file that is watched is an event.                *)
Readout ==
  /\ loop # "dead" /\ MainLoop
  /\ event' = (event \/ (watch # 0 /\ files'[watch] # files[watch]))
  /\ UNCHANGED <<ctl, rd, state, watch, datafile, fd, pos, candidate, decoded>>

Transfers ==
  \E i \in Buf : (cb_data_in(i) \/ TransferFails(i)) /\ UNCHANGED reader

Cancelled == \E i \in Buf : TransferCancelled(i) /\ UNCHANGED reader

Next == FillBuffer \/ start \/ stop \/ Readout \/ Transfers \/ Cancelled

(* getNext_() is called again and again; the process runs; libusb reports  *)
(* a transfer that was cancelled in some pass of the main loop.            *)
Fairness == WF_vars(FillBuffer) /\ WF_vars(Readout) /\ SF_vars(Cancelled)

Spec == Init /\ [][Next]_vars /\ Fairness

-----------------------------------------------------------------------------
Word == [type : {"head", "tail"}, packet : 0 .. MaxTransfers + 1]

TypeOK ==
  /\ \A i \in Buf :
       /\ d[i].state \in {"nothing", "reading", "cancelling", "done", "writing", "failed"}
       /\ d[i].data \in {<<>>} \cup {<<w>> : w \in Word} /\ d[i].f \in Slot
  /\ {nr, rw, wn} \subseteq Buf
  /\ \A s \in Slot : f[s].state \in {"nothing", "writing", "closing"} /\ f[s].file \in 0 .. MaxFiles
  /\ loop \in {"events", "release", "dead"}
  /\ {kill_me, event, wentBack} \subseteq BOOLEAN
  /\ wr \subseteq DOMAIN files
  /\ Len(raw) <= RAWBUFSIZE
  /\ ctl \in {"ready", "running", "stopped"}
  /\ rd \in {"idle", "wait", "find", "watch", "open", "read", "failed"}
  /\ state \subseteq {"first", "wait", "active", "more", "drain"}

(* A packet reaches artdaq at most once and in the order of the board,     *)
(* unless the reader went back to the file before: it takes the latest by  *)
(* times of whole seconds, and both may be there within one.               *)
PacketsInOrder ==
  ~wentBack => \A k \in 1 .. Len(fragments) - 1 : fragments[k] < fragments[k + 1]

(* What reaches artdaq is right: packets in order, and with their times,   *)
(* which are no part of the state but a matter of the counts alone.        *)
PacketsTrue == TimestampsTrue /\ PacketsInOrder

(* When the reader is about to look for events with words of its file      *)
(* unread, there are events, or it comes back anyway because its buffer    *)
(* was full: no change is overlooked, whatever the moment at which the     *)
(* watch was set, the file opened and read, and no file is left with words *)
(* that were there when the events were looked at.                         *)
NoChangeMissed ==
  rd \in {"idle", "wait"} /\ Unread # <<>> => event \/ state \cap {"more", "first"} # {}

(* No word is lost on its way to the file, nor overlooked in it.           *)
Inv == TypeOK /\ WordsKept /\ NoChangeMissed

(* The readout process goes on reading from the board until it ends, or a  *)
(* write fails and the wait for it never ends, or all buffers were handed  *)
(* over in one pass.                                                       *)
ReadoutGoesOn ==
  []<>((\E i \in Buf : d[i].state \in {"reading", "failed"}) \/ loop = "dead" \/ Wedged)

(* The reader comes to a file that is being written, reads what is there   *)
(* and hands on the packets that are whole, unless the run ends, it was    *)
(* thrown out of its call, or its buffer is full of words that make no     *)
(* packet.                                                                 *)
Over == ctl # "running" \/ rd = "failed"
HasPacket == raw2cook(raw).packet # 0
Jammed == Len(raw) = RAWBUFSIZE /\ ~HasPacket
AtLatest == wr = {} \/ datafile_name \in wr

ReaderKeepsUp == []<>(Over \/ Jammed \/ (AtLatest /\ Unread = <<>> /\ ~HasPacket))

(* Both: the data go on to flow from the board to artdaq, or stop for one  *)
(* of the reasons named.                                                   *)
DataFlows == ReadoutGoesOn /\ ReaderKeepsUp
=============================================================================
