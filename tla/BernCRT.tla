------------------------------- MODULE BernCRT --------------------------------
(***************************************************************************)
(* Generators/Common/BernCRT_GeneratorBase.cc, BernCRTData_generator.cc:   *)
(* the board reader of the cosmic-ray tagger.  Hits travel                 *)
(*   board -> poll by the data thread -> circular buffer of the board      *)
(*         -> FillFragment (getNext_) -> artdaq                            *)
(* start() configures the boards one by one, switches their bias voltage   *)
(* on and starts all of them; stop() switches the voltage off.             *)
(*                                                                         *)
(* The data thread is a WorkerThread and appears through what that module  *)
(* is checked against: it is quiet once stop() has returned.  An exception *)
(* of start() or stop() leaves the generator in artdaq's error state,      *)
(* which it does not leave.                                                *)
(***************************************************************************)
EXTENDS FEBDRV, SequencesExt, FiniteSetsExt

CONSTANTS
  HVOn,        \* boards whose configuration permits the bias voltage
  Capacity,    \* FEBBufferCapacity
  WindowHits,  \* hits per fragment_period
  MaxHits,     \* bound on the hits of all boards
  MaxRuns      \* bound on calls of start()

ASSUME CRTAssumption ==
  /\ HVOn \subseteq Board
  /\ {Capacity, WindowHits} \subseteq Nat \ {0}
  /\ {MaxHits, MaxRuns} \subseteq Nat

VARIABLES
  ctl,        \* construct, idle; start(): off, SCR, PMR, on, daq, thread;
              \* running; stopNoMutex(): join, bias; stop(): mutex, again; error
  step,       \* the board, or the phase of startDAQ, it has reached
  runs,       \* calls of start() so far
  thread,     \* the data thread: off, poll, push, restart, dead
  mac,        \* the board it polls, or the phase of its restart
  formed,     \* fragments formed from the hits of that board, not yet pushed
  buffer,     \* per board: its circular buffer
  gn,         \* getNext_: out, size, copy, erase
  feb,        \* the board FillFragment deals with
  buffer_end, \* size of the buffer it has seen
  frags,      \* fragments it has made
  discard_data, \* the static flag of FillFragment
  waited,     \* the initial delay of the run is over
  taken,      \* history: per board, fragments FillFragment dealt with
  measured,   \* history: per board, hits measured
  reset,      \* history: hits the boards dropped when they were reset
  overrun     \* history: boards whose buffer overwrote fragments

control == <<ctl, step, runs>>
reader == <<thread, mac, formed>>
filler == <<gn, feb, buffer_end, frags, discard_data, taken>>
past == <<measured, reset, overrun>>
vars == <<driver, control, reader, buffer, filler, waited, past>>

Torn == [feb |-> 0, hits |-> <<>>]   \* a fragment read while it is overwritten

Init ==
  /\ DriverInit
  /\ ctl = "construct" /\ step = 1 /\ runs = 0
  /\ thread = "off" /\ mac = 1 /\ formed = <<>>
  /\ buffer = [b \in Board |-> <<>>]
  /\ gn = "out" /\ feb = 1 /\ buffer_end = 0 /\ frags = <<>>
  /\ discard_data = TRUE /\ waited = FALSE
  /\ taken = [b \in Board |-> <<>>]
  /\ measured = [b \in Board |-> 0] /\ reset = {} /\ overrun = {}

-----------------------------------------------------------------------------
(* The environment: boards measure, packets arrive, time passes.           *)

HitsMeasured == FoldFunction(+, 0, measured)

Measure(b) ==
  /\ daq[b] /\ HitsMeasured < MaxHits
  /\ measured' = [measured EXCEPT ![b] = @ + 1]
  /\ fifo' = [fifo EXCEPT ![b] = Append(@, [board |-> b, n |-> measured[b]])]
  /\ UNCHANGED <<macs, bias, daq, conf, link, control, reader, buffer, filler, waited, reset, overrun>>

PacketArrives ==
  /\ LateArrives
  /\ UNCHANGED <<control, reader, buffer, filler, waited, past>>

DelayOver ==
  /\ ~waited /\ ctl \notin {"construct", "idle"}
  /\ waited' = TRUE
  /\ UNCHANGED <<driver, control, reader, buffer, filler, past>>

-----------------------------------------------------------------------------
(* The constructor, start() and stop().                                    *)

(* The clients found must be the boards of the configuration.              *)
VerifyMACConfiguration(hardware_macs) ==
  hardware_macs = Board

Construct ==
  /\ ctl = "construct"
  /\ pingclients
  /\ ctl' = IF VerifyMACConfiguration(macs') THEN "idle" ELSE "error"
  /\ UNCHANGED <<step, runs, reader, buffer, filler, waited, past>>

StartBegin ==
  /\ ctl = "idle" /\ runs < MaxRuns
  /\ runs' = runs + 1
  /\ ctl' = "off" /\ step' = 1
  /\ waited' = FALSE
  /\ UNCHANGED <<driver, reader, buffer, filler, past>>

(* After a step of ConfigureStart(): the next one, or an exception.        *)
Goto(success, next, at) ==
  /\ ctl' = IF success THEN next ELSE "error"
  /\ step' = IF success THEN at ELSE step
  /\ UNCHANGED <<runs, reader, buffer, filler, waited, measured, overrun>>

(* biasOFF() of each board.                                                *)
StartBiasOff ==
  /\ ctl = "off"
  /\ \E success \in BOOLEAN :
       /\ biasOFF({step}, FALSE, success)
       /\ IF step < Boards THEN Goto(success, "off", step + 1) ELSE Goto(success, "SCR", 1)
  /\ UNCHANGED reset

(* feb_send_bitstreams() of a board, then its bias voltage if permitted,   *)
(* then the next board.                                                    *)
StartSCR ==
  /\ ctl = "SCR"
  /\ \E success \in BOOLEAN : sendSCR(step, success) /\ Goto(success, "PMR", step)
  /\ UNCHANGED reset

NextBoard(success) ==
  IF step < Boards THEN Goto(success, "SCR", step + 1) ELSE Goto(success, "daq", 0)

StartPMR ==
  /\ ctl = "PMR"
  /\ \E success \in BOOLEAN :
       /\ sendPMR(step, success)
       /\ IF step \in HVOn THEN Goto(success, "on", step) ELSE NextBoard(success)
  /\ UNCHANGED reset

StartBiasOn ==
  /\ ctl = "on"
  /\ \E success \in BOOLEAN : biasON(step, success) /\ NextBoard(success)
  /\ UNCHANGED reset

(* Hits the boards drop in a phase of startDAQ.                            *)
ResetHits ==
  reset' = reset \cup UNION {ToSet(fifo[b]) : b \in {c \in Board : fifo'[c] = <<>>}}

StartDAQ ==
  /\ ctl = "daq"
  /\ \E success \in BOOLEAN :
       /\ startDAQ(step, success)
       /\ IF step < 2 THEN Goto(success, "daq", step + 1) ELSE Goto(success, "thread", 1)
  /\ ResetHits

StartThread ==
  /\ ctl = "thread"
  /\ ctl' = "running"
  /\ thread' = "poll" /\ mac' = 1
  /\ UNCHANGED <<driver, step, runs, formed, buffer, filler, waited, past>>

(* stopNoMutex(): the data thread is stopped between two calls, or is dead *)
StopBegin ==
  /\ ctl = "running"
  /\ ctl' = "join"
  /\ UNCHANGED <<driver, step, runs, reader, buffer, filler, waited, past>>

StopJoin ==
  /\ ctl = "join"
  /\ thread = "dead" \/ (thread = "poll" /\ mac = 1)
  /\ thread' = "off" /\ ctl' = "bias"
  /\ UNCHANGED <<driver, step, runs, mac, formed, buffer, filler, waited, past>>

StopBiasOff ==
  /\ ctl = "bias"
  /\ \E success \in BOOLEAN : biasOFF(Board, TRUE, success) /\ Goto(success, "mutex", 1)
  /\ UNCHANGED reset

(* stop(), under the mutex of getNext_, does the same again.               *)
StopAgain ==
  /\ ctl = "mutex" /\ gn = "out"
  /\ \E success \in BOOLEAN : biasOFF(Board, TRUE, success) /\ Goto(success, "idle", 1)
  /\ UNCHANGED reset

-----------------------------------------------------------------------------
(* The data thread: GetFEBData().                                          *)

Window(hit) == hit.n \div WindowHits

(* The hits of a poll, cut where the window of the next hit is another.    *)
Fragments(b, hits) ==
  LET ends == {i \in 1 .. Len(hits) : i = Len(hits) \/ Window(hits[i + 1]) # Window(hits[i])}
      first(i) == Max({0} \cup {j \in ends : j < i}) + 1
  IN  [k \in 1 .. Cardinality(ends) |->
         LET i == SetToSortSeq(ends, <)[k] IN [feb |-> b, hits |-> SubSeq(hits, first(i), i)]]

HitsOf(packets) == FlattenSeq([i \in DOMAIN packets |-> packets[i].hits])

(* The packets of an answer that come in time.                             *)
InTime(packets, intime) ==
  [i \in 1 .. Cardinality(intime) |-> packets[SetToSortSeq(intime, <)[i]]]

(* What GetData() sees: late packets of before come at one moment between  *)
(* those of this board.                                                    *)
Arriving(fresh, crossing, at) ==
  SetToSeq(flushlink(queue)) \o SubSeq(fresh, 1, at) \o SetToSeq(crossing)
  \o SubSeq(fresh, at + 1, Len(fresh))

(* A board is polled.  The command may be lost or refused; of the answer,  *)
(* packets may be lost or come late.                                       *)
PollFEB ==
  /\ thread = "poll"
  /\ \E heard \in BOOLEAN, crossing \in SUBSET late :
       LET packets == IF heard THEN Answer(mac) ELSE <<>>
       IN  \E intime \in SUBSET DOMAIN packets :
             \E slow \in SUBSET (DOMAIN packets \ intime), at \in 0 .. Cardinality(intime) :
               LET fresh == InTime(packets, intime)
                   arriving == Arriving(fresh, crossing, at)
                   data == SubSeq(arriving, 1, GetData(pollfeb(rpkt), arriving))
               IN  /\ crossing = {} => at = 0
                   /\ Poll(mac, arriving, crossing, {packets[i] : i \in slow},
                           IF heard THEN Len(packets) - Len(fresh) ELSE 1)
                   /\ fifo' = [fifo EXCEPT ![mac] = IF heard THEN <<>> ELSE @]
                   /\ formed' = Fragments(mac, HitsOf(data))
  /\ thread' = "push"
  /\ UNCHANGED <<control, mac, buffer, filler, waited, past>>

(* buffer.push_back(): the oldest fragment goes when the buffer is full.   *)
push_back(fragments, f) ==
  Append(IF Len(fragments) = Capacity THEN Tail(fragments) ELSE fragments, f)

(* One more fragment, under the lock of the board.                         *)
PushFragment ==
  /\ thread = "push" /\ formed # <<>>
  /\ buffer' = [buffer EXCEPT ![mac] = push_back(@, Head(formed))]
  /\ overrun' = IF Len(buffer[mac]) = Capacity THEN overrun \cup {mac} ELSE overrun
  /\ formed' = Tail(formed)
  /\ UNCHANGED <<driver, control, thread, mac, filler, waited, measured, reset>>

(* The next board; after the last one, perhaps a restart of the boards.    *)
PushEnd ==
  /\ thread = "push" /\ formed = <<>>
  /\ \/ mac < Boards /\ thread' = "poll" /\ mac' = mac + 1
     \/ mac = Boards /\ thread' = "poll" /\ mac' = 1
     \/ mac = Boards /\ thread' = "restart" /\ mac' = 0
  /\ UNCHANGED <<driver, control, formed, buffer, filler, waited, past>>

(* StartFebdrv() in the data thread; its exception ends the thread.        *)
Restart ==
  /\ thread = "restart"
  /\ \E success \in BOOLEAN :
       /\ startDAQ(mac, success)
       /\ thread' = IF ~success THEN "dead" ELSE IF mac < 2 THEN "restart" ELSE "poll"
       /\ mac' = IF success /\ mac < 2 THEN mac + 1 ELSE 1
  /\ ResetHits
  /\ UNCHANGED <<control, formed, buffer, filler, waited, measured, overrun>>

-----------------------------------------------------------------------------
(* artdaq's thread: getNext_ and FillFragment().                           *)

(* Unless a stop was requested, FillFragment() starts with the first board *)
GetNextBegin ==
  /\ gn = "out" /\ ctl = "running"
  /\ gn' = "size" /\ feb' = 1
  /\ UNCHANGED <<driver, control, reader, buffer, buffer_end, frags, discard_data, waited, taken, past>>

(* The size of the buffer, read without its lock; hits are thrown away     *)
(* until the initial delay is over, once and for all runs.                 *)
FillBegin ==
  /\ gn = "size"
  /\ buffer_end' = Len(buffer[feb])
  /\ discard_data' = (discard_data /\ ~waited)
  /\ gn' = IF discard_data' THEN "erase" ELSE "copy"
  /\ frags' = <<>>
  /\ UNCHANGED <<driver, control, reader, buffer, feb, waited, taken, past>>

(* One fragment is copied, without the lock.  A push_back to a full buffer *)
(* may be overwriting the first one.                                       *)
FillFragment ==
  /\ gn = "copy" /\ Len(frags) < buffer_end
  /\ LET i == Len(frags) + 1
         overwritten == /\ i = 1 /\ thread = "push" /\ mac = feb /\ formed # <<>>
                        /\ Len(buffer[feb]) = Capacity
     IN  \E f \in {buffer[feb][i]} \cup (IF overwritten THEN {Torn} ELSE {}) :
           /\ frags' = Append(frags, f)
           /\ overrun' = IF f = Torn THEN overrun \cup {feb} ELSE overrun
  /\ UNCHANGED <<driver, control, reader, buffer, gn, feb, buffer_end, discard_data, waited, taken, measured, reset>>

FillEnd ==
  /\ gn = "copy" /\ Len(frags) = buffer_end
  /\ gn' = "erase"
  /\ UNCHANGED <<driver, control, reader, buffer, feb, buffer_end, frags, discard_data, waited, taken, past>>

(* What is left when the first n fragments are erased.                     *)
Erased(fragments, n) ==
  SubSeq(fragments, n + 1, Len(fragments))

(* EraseFromFEBBuffer(), under the lock; then the next board.              *)
EraseFromFEBBuffer ==
  /\ gn = "erase"
  /\ ~(thread = "push" /\ mac = feb /\ formed # <<>>)
  /\ buffer' = [buffer EXCEPT ![feb] = Erased(@, buffer_end)]
  /\ taken' = [taken EXCEPT ![feb] =
                 @ \o IF discard_data THEN SubSeq(buffer[feb], 1, buffer_end) ELSE frags]
  /\ gn' = IF feb < Boards THEN "size" ELSE "out"
  /\ feb' = IF feb < Boards THEN feb + 1 ELSE 1
  /\ frags' = <<>> /\ buffer_end' = 0
  /\ UNCHANGED <<driver, control, reader, discard_data, waited, past>>

-----------------------------------------------------------------------------
Start == StartBegin \/ StartBiasOff \/ StartSCR \/ StartPMR \/ StartBiasOn \/ StartDAQ \/ StartThread
Stop == StopBegin \/ StopJoin \/ StopBiasOff \/ StopAgain
DataThread == PollFEB \/ PushFragment \/ PushEnd \/ Restart
GetNext == GetNextBegin \/ FillBegin \/ FillFragment \/ FillEnd \/ EraseFromFEBBuffer

Next ==
  \/ \E b \in Board : Measure(b)
  \/ PacketArrives \/ DelayOver
  \/ Construct \/ Start \/ Stop \/ DataThread \/ GetNext

Spec == Init /\ [][Next]_vars

-----------------------------------------------------------------------------
(* Properties.                                                             *)

Hit == [board : Board, n : 0 .. MaxHits - 1]
Packet == [from : Board, cmd : Kind, hits : {<<>>} \cup {<<h>> : h \in Hit}, no : 0 .. MaxFaults]
IsFragments(s) == \A i \in DOMAIN s : s[i].feb \in Board \cup {0} /\ ToSet(s[i].hits) \subseteq Hit

(* Every variable has its type.                                            *)
TypeOK ==
  /\ macs \subseteq Board /\ faults \in 0 .. MaxFaults /\ crossed \in BOOLEAN
  /\ bias \in [Board -> BOOLEAN] /\ daq \in [Board -> BOOLEAN]
  /\ conf \in [Board -> SUBSET {"SCR", "PMR"}]
  /\ \A b \in Board : ToSet(fifo[b]) \subseteq Hit
  /\ rpkt \in Kind \cup {"none"} /\ queue \subseteq Packet /\ late \subseteq Packet
  /\ ctl \in {"construct", "idle", "off", "SCR", "PMR", "on", "daq", "thread", "running",
              "join", "bias", "mutex", "error"}
  /\ step \in 0 .. Max({2, Boards}) /\ runs \in 0 .. MaxRuns
  /\ thread \in {"off", "poll", "push", "restart", "dead"} /\ mac \in 0 .. Max({2, Boards})
  /\ gn \in {"out", "size", "copy", "erase"} /\ feb \in Board /\ buffer_end \in 0 .. Capacity
  /\ discard_data \in BOOLEAN /\ waited \in BOOLEAN
  /\ IsFragments(formed) /\ IsFragments(frags)
  /\ \A b \in Board : IsFragments(buffer[b]) /\ IsFragments(taken[b]) /\ Len(buffer[b]) <= Capacity
  /\ measured \in [Board -> 0 .. MaxHits] /\ reset \subseteq Hit /\ overrun \subseteq Board

(* The hits recorded for a board so far, in the order they will have in    *)
(* its fragments.                                                          *)
Recorded(b) ==
  HitsOf(taken[b] \o buffer[b] \o SelectSeq(formed, LAMBDA f : f.feb = b))

(* Nothing is lost on the way: as long as network and boards do no wrong   *)
(* and no buffer overflows, a hit a board has measured is still in the     *)
(* board, or is recorded, unless a restart cleared the board.  It is about *)
(* FillFragment erasing what it copied while the data thread adds to the   *)
(* buffer, and about every poll reading to the end of the answer.          *)
HitsKept ==
  faults = 0 =>
    \A b \in Board \ overrun : \A n \in 0 .. measured[b] - 1 :
      [board |-> b, n |-> n] \in ToSet(fifo[b]) \cup ToSet(Recorded(b)) \cup reset

(* Nothing is doubled or reordered, whatever is lost: the hits of a board  *)
(* that are sent, buffered, formed or waiting in the board are in the      *)
(* order they were measured in, as long as its buffer does not overflow    *)
(* and no late packet was taken for an answer to a later command.          *)
HitsInOrder ==
  ~crossed =>
    \A b \in Board \ overrun :
      LET hits == Recorded(b) \o fifo[b]
      IN  \A i, j \in DOMAIN hits : i < j => hits[i].n < hits[j].n

(* A hit is recorded for the board that measured it, although GetData()    *)
(* does not look at the sender: what an earlier poll has left is flushed.  *)
(* It can only go wrong for packets that arrive after the flush.           *)
HitsAttributed ==
  ~crossed => \A b \in Board : \A i \in DOMAIN Recorded(b) : Recorded(b)[i].board = b

(* The buffers keep all that is put into them, in order and under the name *)
(* of the board that measured it.                                          *)
Inv == TypeOK /\ HitsKept /\ HitsInOrder /\ HitsAttributed

(* When start() has succeeded, every board is configured and takes data,   *)
(* and has its bias voltage exactly if that is permitted.                  *)
ReadyToRun ==
  ctl = "running" /\ thread \in {"poll", "push"} =>
    \A b \in Board : daq[b] /\ "SCR" \in conf[b] /\ (bias[b] <=> b \in HVOn)

(* When stopNoMutex() or stop() has returned without an exception no board *)
(* has its bias voltage on.                                                *)
BiasOffWhenStopped ==
  ctl \in {"mutex", "idle"} /\ runs > 0 => \A b \in Board : ~bias[b]

(* Both can only go wrong after an answer was taken for another's.         *)
BoardsAsTold == ~crossed => ReadyToRun /\ BiasOffWhenStopped
=============================================================================
