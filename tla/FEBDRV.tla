-------------------------------- MODULE FEBDRV --------------------------------
(***************************************************************************)
(* Generators/Common/febdrv.cc: commands to the front-end boards of the    *)
(* cosmic-ray tagger over raw Ethernet.  A command goes to one board or to *)
(* all of them (address 255); the driver then collects replies until none  *)
(* comes for a while.  Neither the sender of a reply nor the command it    *)
(* answers is looked at: only its kind, and how many there are.            *)
(*                                                                         *)
(* One exchange - sendcommand() and the loop that collects the replies -   *)
(* is one action: a single thread at a time uses the driver, and what the  *)
(* boards do meanwhile is the action's choice.  Boards and network are     *)
(* external.  What can go wrong on the network is bounded by MaxFaults.    *)
(***************************************************************************)
EXTENDS Naturals, Sequences, FiniteSets

CONSTANTS
  Boards,     \* number of front-end boards
  MaxFaults   \* bound on what the network and the boards do wrong

ASSUME FEBAssumption == Boards \in Nat \ {0} /\ MaxFaults \in Nat

VARIABLES
  macs,       \* macs: boards that answered pingclients()
  bias,       \* per board: its bias voltage is on
  daq,        \* per board: it takes data
  conf,       \* per board: the parts of the configuration it accepted
  fifo,       \* per board: hits it has not sent yet
  rpkt,       \* kind of the packet in rpkt, the only receive buffer
  queue,      \* packets in the socket's receive queue
  late,       \* packets still on their way when the driver stopped waiting
  faults,     \* faults so far
  crossed     \* history: a late packet arrived in the window of a later command

boards == <<bias, daq, conf, fifo>>
link == <<rpkt, queue, late, faults, crossed>>
driver == <<macs, boards, link>>

Board == 1 .. Boards
Kind == {"OK", "OK_SCR", "OK_PMR", "DATA", "EOF", "ERR"}

(* A packet; "no" tells a late one from the fresh ones.                    *)
Reply(b, kind) == [from |-> b, cmd |-> kind, hits |-> <<>>, no |-> 0]

(* What becomes of a command to a board: executed and answered in time;    *)
(* refused; lost; executed, but the answer is lost, or comes late.         *)
Fate == {"done", "refused", "deaf", "mute", "slow"}

OfFate(fate, kinds) == {b \in DOMAIN fate : fate[b] \in kinds}
Executed(fate) == OfFate(fate, {"done", "mute", "slow"})

DriverInit ==
  /\ macs = {}
  /\ bias \in {[b \in Board |-> on] : on \in BOOLEAN}  \* as the last program left it
  /\ daq = [b \in Board |-> FALSE]
  /\ conf = [b \in Board |-> {}]
  /\ fifo = [b \in Board |-> <<>>]
  /\ rpkt = "none" /\ queue = {} /\ late = {}
  /\ faults = 0 /\ crossed = FALSE

-----------------------------------------------------------------------------
(* flushlink(): what is left of the receive queue when a command is sent.  *)
(* Mutant: it is not flushed.                                              *)
flushlink_Nothing(packets) == packets

flushlink(packets) ==
  {}

(* The packets the loop over recvfromfeb() sees after a command: fresh     *)
(* replies, and whatever else arrives before the loop ends.                *)
Received(fate, crossing, kind) ==
  flushlink(queue) \cup crossing
  \cup {Reply(b, kind) : b \in OfFate(fate, {"done"})}
  \cup {Reply(b, "ERR") : b \in OfFate(fate, {"refused"})}

(* sendcommand() and recvfromfeb() until it times out: the link's part.    *)
Exchange(fate, crossing, kind) ==
  /\ faults' = faults + Cardinality(OfFate(fate, Fate \ {"done"}))
  /\ faults' <= MaxFaults
  /\ late' = (late \ crossing)
             \cup {[Reply(b, kind) EXCEPT !.no = faults'] : b \in OfFate(fate, {"slow"})}
  /\ queue' = {}
  /\ rpkt' \in LET kinds == {p.cmd : p \in Received(fate, crossing, kind)}
               IN  IF kinds = {} THEN {rpkt} \cup {p.cmd : p \in queue} ELSE kinds
  /\ crossed' = (crossed \/ crossing # {})

(* A late packet arrives while nobody is waiting.                          *)
LateArrives ==
  \E p \in late :
    /\ late' = late \ {p}
    /\ queue' = queue \cup {p}
    /\ UNCHANGED <<macs, boards, rpkt, faults, crossed>>

(* Replies were accepted: some came, all of the right kind, and as many as *)
(* there are clients when all were addressed.                              *)
(* Mutant: the number is not compared.                                     *)
Accepted_Some(received, kind, all) ==
  received # {} /\ \A p \in received : p.cmd = kind

Accepted(received, kind, all) ==
  /\ received # {}
  /\ \A p \in received : p.cmd = kind
  /\ all => Cardinality(received) = Cardinality(macs)

-----------------------------------------------------------------------------
(* The operations.  success is what they return, or that they throw none.  *)

(* pingclients(): whoever answers is a client.                             *)
pingclients ==
  \E fate \in [Board -> Fate] :
    /\ Exchange(fate, {}, "OK")
    /\ macs' = {p.from : p \in {q \in Received(fate, {}, "OK") : q.cmd = "OK"}}
    /\ UNCHANGED boards

biasOFF(dst, all, success) ==
  \E fate \in [dst -> Fate], crossing \in SUBSET late :
    /\ Exchange(fate, crossing, "OK")
    /\ success = Accepted(Received(fate, crossing, "OK"), "OK", all)
    /\ bias' = [b \in Board |-> bias[b] /\ b \notin Executed(fate)]
    /\ UNCHANGED <<macs, daq, conf, fifo>>

biasON(b, success) ==
  \E fate \in [{b} -> Fate], crossing \in SUBSET late :
    /\ Exchange(fate, crossing, "OK")
    /\ success = Accepted(Received(fate, crossing, "OK"), "OK", FALSE)
    /\ bias' = [bias EXCEPT ![b] = @ \/ b \in Executed(fate)]
    /\ UNCHANGED <<macs, daq, conf, fifo>>

(* A board that refuses a part of its configuration is without it.         *)
Configured(part, fate) ==
  [b \in Board |-> IF b \in Executed(fate) THEN conf[b] \cup {part}
                   ELSE conf[b] \ {part : r \in OfFate(fate, {"refused"}) \cap {b}}]

(* sendconfig(), the slow control part.                                    *)
sendSCR(b, success) ==
  \E fate \in [{b} -> Fate], crossing \in SUBSET late :
    /\ Exchange(fate, crossing, "OK_SCR")
    /\ success = Accepted(Received(fate, crossing, "OK_SCR"), "OK_SCR", FALSE)
    /\ conf' = Configured("SCR", fate)
    /\ UNCHANGED <<macs, bias, daq, fifo>>

(* sendconfig(), the probe part.  The first reply is only awaited: its     *)
(* kind is not looked at.  The count still has the replies of the first    *)
(* part, so the test for 0 is always passed.                               *)
sendPMR(b, success) ==
  \E fate \in [{b} -> Fate], crossing \in SUBSET late :
    /\ Exchange(fate, crossing, "OK_PMR")
    /\ LET received == Received(fate, crossing, "OK_PMR")
       IN  \/ success = FALSE /\ received = {}
           \/ \E first \in received :
                success = \A p \in received \ {first} : p.cmd = "OK_PMR"
    /\ conf' = Configured("PMR", fate)
    /\ UNCHANGED <<macs, bias, daq, fifo>>

(* startDAQ(255): FEB_GEN_INIT with 0 stops the boards, with 1 clears      *)
(* their buffers, with 2 starts them.                                      *)
startDAQ(phase, success) ==
  \E fate \in [Board -> Fate], crossing \in SUBSET late :
    /\ Exchange(fate, crossing, "OK")
    /\ success = Accepted(Received(fate, crossing, "OK"), "OK", TRUE)
    /\ daq' = [b \in Board |-> IF b \notin Executed(fate) THEN daq[b]
                               ELSE IF phase = 1 THEN daq[b] ELSE phase = 2]
    /\ fifo' = [b \in Board |-> IF phase = 1 /\ b \in Executed(fate) THEN <<>> ELSE fifo[b]]
    /\ UNCHANGED <<macs, bias, conf>>

-----------------------------------------------------------------------------
(* Reading the hits of a board.                                            *)

(* pollfeb() overwrites the kind of the last packet after its command.     *)
pollfeb(kind) ==
  "none"

(* The board's answer: a packet per hit, and one that says it is all.      *)
Answer(b) ==
  [i \in 1 .. Len(fifo[b]) |-> [Reply(b, "DATA") EXCEPT !.hits = <<fifo[b][i]>>]]
  \o <<Reply(b, "EOF")>>

(* GetData() again and again: how many of the packets that arrive it takes *)
(* for data.  It stops at the first of another kind, and at once when the  *)
(* last packet was already the end.                                        *)
GetData(kind, arriving) ==
  LET other == {i \in 1 .. Len(arriving) : arriving[i].cmd # "DATA"}
  IN  IF kind = "EOF" THEN 0
      ELSE IF other = {} THEN Len(arriving)
      ELSE CHOOSE n \in 0 .. Len(arriving) :
             n + 1 \in other /\ \A i \in other : n < i

(* The packets GetData() has received, the one it stopped at included.     *)
Fetched(kind, arriving) ==
  IF kind = "EOF" THEN 0
  ELSE IF GetData(kind, arriving) = Len(arriving) THEN Len(arriving)
  ELSE GetData(kind, arriving) + 1

(* The data thread's call for one board.  arriving is what reaches the     *)
(* socket after the command; what GetData() leaves stays in the queue.     *)
Poll(b, arriving, crossing, slow, cost) ==
  LET kind == pollfeb(rpkt)
      fetched == Fetched(kind, arriving)
  IN  /\ faults' = faults + cost /\ faults' <= MaxFaults
      /\ late' = (late \ crossing) \cup {[p EXCEPT !.no = faults'] : p \in slow}
      /\ queue' = {arriving[i] : i \in fetched + 1 .. Len(arriving)}
      /\ rpkt' = IF fetched = 0 THEN kind ELSE arriving[fetched].cmd
      /\ crossed' = (crossed \/ crossing # {})
      /\ UNCHANGED <<macs, bias, daq, conf>>

=============================================================================
