----------------------------- MODULE ICARUSTrigger -----------------------------
(***************************************************************************)
(* Generators/ICARUS/ICARUSTriggerV3_generator.cc: the reader of the ICARUS*)
(* trigger.  A real-time controller (external) is configured and started   *)
(* over one TCP connection and sends a message for each trigger over       *)
(* another.  The reader has no thread of its own: getNext_ polls, reads a  *)
(* message piece by piece, and accounts for the beam gates since the last  *)
(* trigger of the same kind.                                               *)
(*                                                                         *)
(* A message is its length and its text, in Pieces pieces that TCP delivers*)
(* one by one, the first the length; readTCP() returns one.  An answer of  *)
(* the controller on the other connection is one message; poll_with_timeout*)
(* reports the second byte of what has arrived as its size, and reading    *)
(* that many bytes may take two answers at once.                           *)
(***************************************************************************)
EXTENDS Naturals, Sequences, SequencesExt

CONSTANTS
  GateTypes,      \* the kinds of beam gate with a counter of their own
  n_init_retries, \* polls for an answer, less one
  MaxGates,       \* bound: beam gates
  MaxTriggers,    \* bound: triggers in a run
  MaxPending,     \* bound: messages on the way
  Garbage         \* what memory may hold that nobody has initialised

Pieces == 3

ASSUME TriggerAssumption ==
  /\ {n_init_retries, MaxGates, MaxTriggers, MaxPending} \subseteq Nat
  /\ Garbage \subseteq Nat /\ {"Calib", "All"} \cap GateTypes = {}

VARIABLES
  ctl,          \* constructor, start() and stop(): fpga, spexi, final, ready,
                \* start, run, mutex, stopped; thrown, or aborted
  sends, polls, \* commands sent, and polls made, for the present answer
  requests, answers, \* on the configuration connection
  controller,   \* what the controller has done: accepted fpga and spexi,
                \* reported ready, and taken the start command
  gates,        \* gates of each type, and in total
  trigger,      \* triggers of this run
  stream,       \* messages not read yet; the first may be read in part
  arrived,      \* pieces of them that have arrived
  closed,       \* the controller has closed the data connection
  gn,           \* getNext_: between, reading, over
  got,          \* pieces read of the message
  fLastEvent,
  fLastGatesNum, fDeltaGates, \* for each kind of trigger, and for all
  fTotalTrigger,  \* for each kind of trigger and for each type of gate
  fTotalGates,    \* for each kind of trigger
  made          \* fragments made

protocol == <<sends, polls, requests, answers, controller>>
beam == <<gates, trigger>>
socket == <<stream, arrived, closed>>
account == <<fLastEvent, fLastGatesNum, fDeltaGates, fTotalTrigger, fTotalGates, made>>
vars == <<ctl, protocol, beam, socket, gn, got, account>>

\* Calibration triggers are counted against all gates.
Type == GateTypes \cup {"Calib"}
Kind == Type \X {"Majority", "Minbias"}
All == "All"
Every(t) == <<t, "Every">>
Counter(t) == IF t = "Calib" THEN All ELSE t

(* The constructor sets the members it lists, and neither the totals of    *)
(* triggers of a gate type nor any total of gates is among them.           *)
Init ==
  /\ ctl = "fpga" /\ sends = 0 /\ polls = 0
  /\ requests = <<>> /\ answers = <<>> /\ controller = {}
  /\ gates = [t \in GateTypes \cup {All} |-> 0] /\ trigger = 0
  /\ stream = <<>> /\ arrived = 0 /\ closed = FALSE
  /\ gn = "over" /\ got = 0 /\ fLastEvent = 0 /\ made = 0
  /\ fLastGatesNum = [k \in Kind \cup {Every(All)} |-> 0]
  /\ fDeltaGates = [k \in Kind \cup {Every(All)} |-> 0]
  /\ \E g \in Garbage :
       /\ fTotalTrigger = [k \in Kind \cup {Every(t) : t \in GateTypes} |-> IF k \in Kind THEN 0 ELSE g]
       /\ fTotalGates = [k \in Kind |-> g]

-----------------------------------------------------------------------------
(* The controller answers commands, and reports by itself that it is ready.*)

Reply(answer) == answers' = Append(answers, answer)

ControllerAnswers ==
  /\ requests # <<>>
  /\ requests' = Tail(requests)
  /\ \/ controller' = controller \cup {Head(requests)} /\ Reply("1")
     \/ Head(requests) # "start" /\ Reply("0") /\ UNCHANGED controller
  /\ UNCHANGED <<ctl, sends, polls, beam, socket, gn, got, account>>

ControllerReady ==
  /\ {"fpga", "spexi"} \subseteq controller /\ "ready" \notin controller
  /\ controller' = controller \cup {"ready"} /\ Reply("ready")
  /\ UNCHANGED <<ctl, sends, polls, requests, beam, socket, gn, got, account>>

-----------------------------------------------------------------------------
(* The constructor and start().  Parameters are sent once, the start       *)
(* command before every poll; nothing is sent for the report.              *)

Send ==
  /\ \/ ctl \in {"fpga", "spexi"} /\ sends = 0
     \/ ctl = "start" /\ sends = polls
  /\ requests' = Append(requests, ctl)
  /\ sends' = sends + 1
  /\ UNCHANGED <<ctl, polls, answers, controller, beam, socket, gn, got, account>>

Goto(c) == ctl' = c /\ sends' = 0 /\ polls' = 0

(* What follows an answer, by its first character.                         *)
Accepted(answer) ==
  CASE ctl = "fpga"  -> Goto(IF answer = "1" THEN "spexi" ELSE "thrown")
    [] ctl = "spexi" -> Goto(IF answer = "1" THEN "final" ELSE "thrown")
    [] ctl = "final" -> Goto("ready")
    [] ctl = "start" -> Goto("run")

Waiting ==
  \/ ctl \in {"fpga", "spexi"} /\ sends = 1
  \/ ctl = "final"
  \/ ctl = "start" /\ sends > polls

(* readTCP() may take several answers, and only the first is looked at.    *)
PollAnswer ==
  /\ Waiting /\ answers # <<>>
  /\ \E n \in DOMAIN answers : answers' = SubSeq(answers, n + 1, Len(answers))
  /\ Accepted(Head(answers))
  /\ gn' = IF ctl' = "run" THEN "between" ELSE gn
  /\ UNCHANGED <<requests, controller, beam, socket, got, account>>

(* Mutant: the constructor goes on when the controller does not report.    *)
PollTimesOut_GoesOn ==
  /\ Waiting /\ answers = <<>>
  /\ IF polls < n_init_retries - 1
     THEN polls' = polls + 1 /\ UNCHANGED <<ctl, sends>>
     ELSE Goto(CASE ctl = "start" -> "aborted" [] ctl = "final" -> "ready" [] OTHER -> "thrown")
  /\ UNCHANGED <<requests, answers, controller, beam, socket, gn, got, account>>

PollTimesOut ==
  /\ Waiting /\ answers = <<>>
  /\ LET last == IF ctl \in {"final", "start"} THEN n_init_retries + 1 ELSE n_init_retries
     IN IF polls + 1 < last
        THEN polls' = polls + 1 /\ UNCHANGED <<ctl, sends>>
        ELSE Goto(IF ctl = "start" THEN "aborted" ELSE "thrown")
  /\ UNCHANGED <<requests, answers, controller, beam, socket, gn, got, account>>

(* A second start() has no connection any more: it aborts the program.     *)
Start ==
  /\ ctl \in {"ready", "stopped"}
  /\ ctl' = IF ctl = "ready" THEN "start" ELSE "aborted"
  /\ UNCHANGED <<protocol, beam, socket, gn, got, account>>

StopRequest ==
  /\ ctl = "run"
  /\ ctl' = "mutex"
  /\ UNCHANGED <<protocol, beam, socket, gn, got, account>>

(* stop() sends the command, waits for no answer, and closes the sockets.  *)
Stop ==
  /\ ctl = "mutex" /\ gn \in {"between", "over"}
  /\ ctl' = "stopped"
  /\ stream' = <<>> /\ arrived' = 0 /\ closed' = TRUE
  /\ UNCHANGED <<protocol, beam, gn, got, account>>

-----------------------------------------------------------------------------
(* The beam, the data connection, and triggers that the board may repeat.  *)

Gate(t) ==
  /\ ctl = "run" /\ gates[All] < MaxGates
  /\ gates' = [gates EXCEPT ![t] = @ + 1, ![All] = @ + 1]
  /\ UNCHANGED <<ctl, protocol, trigger, socket, gn, got, account>>

SendTrigger(k) ==
  /\ ctl = "run" /\ ~closed /\ trigger < MaxTriggers /\ Len(stream) < MaxPending
  /\ trigger' = trigger + 1
  /\ stream' = Append(stream, [event |-> trigger', kind |-> k,
                               gate_id |-> gates[All], own |-> gates[Counter(k[1])]])
  /\ UNCHANGED <<ctl, protocol, gates, arrived, closed, gn, got, account>>

Repeat ==
  /\ ~closed /\ stream # <<>> /\ Len(stream) < MaxPending
  /\ stream' = Append(stream, Last(stream))
  /\ UNCHANGED <<ctl, protocol, beam, arrived, closed, gn, got, account>>

Deliver ==
  /\ ~closed /\ arrived < Pieces * Len(stream)
  /\ arrived' = arrived + 1
  /\ UNCHANGED <<ctl, protocol, beam, stream, closed, gn, got, account>>

Close ==
  /\ ctl = "run" /\ ~closed
  /\ closed' = TRUE
  /\ UNCHANGED <<ctl, protocol, beam, stream, arrived, gn, got, account>>

-----------------------------------------------------------------------------
(* getNext_.  The loops around readTCP() end when the message is complete, *)
(* and for no other reason.                                                *)

(* Mutant: the result of the poll is ignored.                              *)
Poll_Ignored ==
  /\ gn = "between"
  /\ gn' = IF ctl # "run" THEN "over" ELSE "reading"
  /\ got' = 0
  /\ UNCHANGED <<ctl, protocol, beam, socket, account>>

Poll ==
  /\ gn = "between"
  /\ \/ ctl # "run" /\ gn' = "over"
     \/ ctl = "run" /\ arrived > 0 /\ gn' = "reading"
  /\ got' = 0
  /\ UNCHANGED <<ctl, protocol, beam, socket, account>>

ReadPiece ==
  /\ gn = "reading" /\ got < Pieces /\ arrived > got
  /\ got' = got + 1
  /\ UNCHANGED <<ctl, protocol, beam, socket, gn, account>>

message == Head(stream)

(* Mutant: the first trigger is taken for a repeated one.                  *)
IsNew_Strict == message.event > fLastEvent + 1

(* "noticed can get multiple of the same trigger from the board"           *)
IsNew == message.event > fLastEvent

(* Mutant: a fragment of any kind is counted from.                         *)
Since_All(k) == fLastGatesNum[Every(All)]

Since(k) == fLastGatesNum[k]

(* Gates are added up for majority triggers only; minimum bias triggers    *)
(* are counted, except those off beam of the BNB, which add to a member    *)
(* that nothing reads.                                                     *)
GatesOf(k, delta) ==
  IF k[2] = "Majority" THEN delta ELSE IF k[1] = "BNBOff" THEN 0 ELSE 1

Account(k) ==
  LET delta == message.own - Since(k)
      counted == {k} \cup (IF k[1] \in GateTypes THEN {Every(k[1])} ELSE {})
  IN /\ fDeltaGates' = [fDeltaGates EXCEPT ![Every(All)] = message.gate_id - fLastGatesNum[Every(All)],
                                           ![k] = delta]
     /\ fLastGatesNum' = [fLastGatesNum EXCEPT ![Every(All)] = message.gate_id, ![k] = message.own]
     /\ fTotalTrigger' = [x \in DOMAIN fTotalTrigger |->
                            fTotalTrigger[x] + (IF x \in counted THEN 1 ELSE 0)]
     /\ fTotalGates' = [fTotalGates EXCEPT ![k] = @ + GatesOf(k, delta)]
     /\ fLastEvent' = message.event
     /\ made' = made + 1

MakeFragment ==
  /\ gn = "reading" /\ got = Pieces
  /\ IF IsNew THEN Account(message.kind) ELSE UNCHANGED account
  /\ stream' = Tail(stream) /\ arrived' = arrived - got
  /\ gn' = "between" /\ got' = 0
  /\ UNCHANGED <<ctl, protocol, beam, closed>>

GetNext == Poll \/ ReadPiece \/ MakeFragment

-----------------------------------------------------------------------------
Next ==
  \/ ControllerAnswers \/ ControllerReady
  \/ Send \/ PollAnswer \/ PollTimesOut \/ Start \/ StopRequest \/ Stop
  \/ (\E t \in GateTypes : Gate(t)) \/ (\E k \in Kind : SendTrigger(k))
  \/ Repeat \/ Deliver \/ Close
  \/ GetNext

(* artdaq calls getNext_, and the network delivers what was sent.          *)
Spec == Init /\ [][Next]_vars /\ WF_vars(GetNext) /\ WF_vars(Deliver) /\ WF_vars(Stop)

-----------------------------------------------------------------------------
(* PROPERTIES                                                              *)

TypeOK ==
  /\ ctl \in {"fpga", "spexi", "final", "ready", "start", "run", "mutex", "stopped",
              "thrown", "aborted"}
  /\ sends \in 0 .. n_init_retries + 1 /\ polls \in 0 .. n_init_retries
  /\ requests \in Seq({"fpga", "spexi", "start"}) /\ answers \in Seq({"0", "1", "ready"})
  /\ controller \subseteq {"fpga", "spexi", "ready", "start"}
  /\ gates \in [GateTypes \cup {All} -> 0 .. MaxGates] /\ trigger \in 0 .. MaxTriggers
  /\ Len(stream) <= MaxPending /\ arrived \in 0 .. Pieces * Len(stream)
  /\ closed \in BOOLEAN
  /\ gn \in {"between", "reading", "over"} /\ got \in 0 .. arrived
  /\ fLastEvent \in 0 .. MaxTriggers /\ made \in Nat
  /\ fLastGatesNum \in [Kind \cup {Every(All)} -> 0 .. MaxGates]
  /\ fDeltaGates \in [Kind \cup {Every(All)} -> Nat]
  /\ fTotalTrigger \in [Kind \cup {Every(t) : t \in GateTypes} -> Nat] /\ fTotalGates \in [Kind -> Nat]

(* Every trigger the board sends, once or several times, becomes one       *)
(* fragment (the message was read whole, from any pieces).                 *)
OneFragmentPerTrigger ==
  /\ made = fLastEvent
  /\ \A i \in DOMAIN stream : stream[i].event \in fLastEvent .. trigger
  /\ stream # <<>> => Head(stream).event <= fLastEvent + 1

(* For majority triggers of any type, in any order with others, the gates  *)
(* since the last one add up to the gates at the last one (to the same     *)
(* extent: the sums start from uninitialised memory).                      *)
GatesAddUp ==
  \E g \in Garbage : \A t \in Type :
    fTotalGates[<<t, "Majority">>] = g + fLastGatesNum[<<t, "Majority">>]

(* The total of the triggers of a gate type is that of its kinds, and the  *)
(* fragments are all of them, again up to what the memory held: the metrics*)
(* of lines 431, 456, 481 and 506 start from no value in particular.       *)
TotalsAgree ==
  \E g \in Garbage : \A t \in GateTypes :
    fTotalTrigger[Every(t)] =
      g + fTotalTrigger[<<t, "Majority">>] + fTotalTrigger[<<t, "Minbias">>]

(* Data taking starts only with a controller that has accepted both sets   *)
(* of parameters, reported ready and taken the start command, although     *)
(* answers may come late and several at a time, and the start command may  *)
(* be sent, and answered, more than once.                                  *)
ConfiguredBeforeRun ==
  ctl = "run" => {"fpga", "spexi", "ready", "start"} \subseteq controller

(* The run starts configured, and its messages are accounted for.          *)
Inv == TypeOK /\ OneFragmentPerTrigger /\ GatesAddUp /\ TotalsAgree /\ ConfiguredBeforeRun

(* A trigger becomes a fragment, unless the run or the connection ends.    *)
TriggersDelivered ==
  \A e \in 1 .. MaxTriggers : trigger = e ~> fLastEvent >= e \/ ctl # "run" \/ closed

(* stop() returns, unless the connection was closed in the middle of a     *)
(* message: the loops around readTCP() then never end, and getNext_ keeps  *)
(* the lock that stop() waits for.                                         *)
StopReturns ==
  ctl = "mutex" ~> ctl # "mutex" \/ (closed /\ gn = "reading" /\ arrived = got)
=============================================================================
