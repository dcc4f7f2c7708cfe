---------------------------- MODULE BernCRTProofs -----------------------------
(***************************************************************************)
(* Proofs about BernCRT: for any number of boards and of faults, any       *)
(* configuration of the bias voltages and buffers of any size.             *)
(***************************************************************************)
EXTENDS BernCRT, FiniteSetTheorems, TLAPS

-----------------------------------------------------------------------------
(* What makes BoardsAsTold inductive.                                      *)

(* Where start() and the data thread are.                                  *)
Places ==
  /\ ctl \in {"construct", "idle", "off", "SCR", "PMR", "on", "daq", "thread", "running",
              "join", "bias", "mutex", "error"}
  /\ ctl \in {"off", "SCR", "PMR", "on"} => step \in Board
  /\ ctl = "daq" => step \in 0 .. 2
  /\ thread = "restart" => mac \in 0 .. 2
  /\ thread \in {"poll", "push", "restart"} => ctl \in {"running", "join"}
  /\ runs \in Nat /\ (ctl = "construct" => runs = 0)

(* The boards that answered are those of the configuration.                *)
Clients == ctl \notin {"construct", "error"} => macs = Board

(* What start() does to a board, step by step.                             *)
HasSCR(b) == "SCR" \in conf[b]
Told(b) == HasSCR(b) /\ (bias[b] <=> b \in HVOn)

Configuring ==
  /\ ctl = "off" => \A b \in Board : b < step => ~bias[b]
  /\ ctl = "SCR" => \A b \in Board : IF b < step THEN Told(b) ELSE ~bias[b]
  /\ ctl \in {"PMR", "on"} =>
       \A b \in Board : IF b < step THEN Told(b) ELSE ~bias[b] /\ (b = step => HasSCR(b))
  /\ ctl = "on" => step \in HVOn
  /\ ctl \in {"daq", "thread", "running", "join"} => \A b \in Board : Told(b)

(* The boards have been started, by start() or by a restart that is over.  *)
Started ==
  ctl = "thread" \/ thread \in {"poll", "push"} => \A b \in Board : daq[b]

IInv ==
  /\ bias \in [Board -> BOOLEAN]
  /\ Places /\ Clients
  /\ ~crossed => Configuring /\ Started /\ BiasOffWhenStopped

-----------------------------------------------------------------------------
(* LEMMAS: THE ANSWERS TO A COMMAND                                        *)

(* The boards are finitely many.                                           *)
LEMMA BoardFacts ==
  /\ Boards \in Nat \ {0} /\ Board = 1 .. Boards
  /\ IsFiniteSet(Board) /\ Cardinality(Board) = Boards
<1>1. Boards \in Nat \ {0} /\ Board = 1 .. Boards
  BY FEBAssumption DEF Board
<1>2. QED
  BY <1>1, FS_Interval

(* Every board that is addressed has one fate.                             *)
LEMMA FateFacts ==
  ASSUME NEW dst, NEW fate \in [dst -> Fate]
  PROVE  /\ \A kinds : OfFate(fate, kinds) \subseteq dst
         /\ Executed(fate) \subseteq dst /\ OfFate(fate, {"done"}) \subseteq Executed(fate)
BY DEF OfFate, Executed

(* A late packet that comes in the window of a command is remembered.      *)
LEMMA ExchangeFacts ==
  ASSUME NEW fate, NEW crossing, NEW kind, Exchange(fate, crossing, kind)
  PROVE  ~crossed' => ~crossed /\ crossing = {}
BY DEF Exchange

(* What is received when no late packet comes: nothing but replies of the  *)
(* boards addressed.                                                       *)
LEMMA ReceivedFacts ==
  ASSUME NEW fate, NEW kind
  PROVE  /\ \A b \in OfFate(fate, {"done"}) : Reply(b, kind) \in Received(fate, {}, kind)
         /\ \A b \in OfFate(fate, {"refused"}) : Reply(b, "ERR") \in Received(fate, {}, kind)
         /\ \A p \in Received(fate, {}, kind) :
              \/ \E b \in OfFate(fate, {"done"}) : p = Reply(b, kind)
              \/ \E b \in OfFate(fate, {"refused"}) : p = Reply(b, "ERR")
BY DEF Received, flushlink

(* Answers that are accepted come from boards that did what they were      *)
(* told.                                                                   *)
LEMMA AcceptedAnswers ==
  ASSUME NEW fate, NEW kind, kind # "ERR", NEW all \in BOOLEAN,
         Accepted(Received(fate, {}, kind), kind, all)
  PROVE  /\ OfFate(fate, {"done"}) # {}
         /\ Received(fate, {}, kind) = {Reply(b, kind) : b \in OfFate(fate, {"done"})}
<1> DEFINE R == Received(fate, {}, kind)
<1>1. R # {} /\ \A p \in R : p.cmd = kind
  BY DEF Accepted
<1>2. \A b : Reply(b, "ERR").cmd = "ERR"
  BY DEF Reply
<1>3. OfFate(fate, {"refused"}) = {}
  BY <1>1, <1>2, ReceivedFacts
<1>4. \A p \in R : \E b \in OfFate(fate, {"done"}) : p = Reply(b, kind)
  BY <1>3, ReceivedFacts
<1>5. \A b \in OfFate(fate, {"done"}) : Reply(b, kind) \in R
  BY ReceivedFacts
<1> HIDE DEF R
<1>6. OfFate(fate, {"done"}) # {} /\ R = {Reply(b, kind) : b \in OfFate(fate, {"done"})}
  BY <1>1, <1>4, <1>5
<1>7. QED
  BY <1>6 DEF R

(* One board was addressed: it has done it.                                *)
LEMMA OneAccepted ==
  ASSUME NEW b, NEW fate \in [{b} -> Fate], NEW kind, kind # "ERR",
         Accepted(Received(fate, {}, kind), kind, FALSE)
  PROVE  b \in Executed(fate)
<1>1. OfFate(fate, {"done"}) # {}
  BY AcceptedAnswers
<1>2. OfFate(fate, {"done"}) \subseteq {b} /\ OfFate(fate, {"done"}) \subseteq Executed(fate)
  BY FateFacts
<1>3. QED
  BY <1>1, <1>2

(* All were addressed and as many answers counted as there are clients:    *)
(* all have done it.                                                       *)
LEMMA AllAccepted ==
  ASSUME NEW fate \in [Board -> Fate], NEW kind, kind # "ERR", macs = Board,
         Accepted(Received(fate, {}, kind), kind, TRUE)
  PROVE  Board \subseteq Executed(fate)
<1> DEFINE D == OfFate(fate, {"done"})
           R == Received(fate, {}, kind)
<1>1. R = {Reply(b, kind) : b \in D}
  BY AcceptedAnswers
<1>2. Cardinality(R) = Boards
  BY BoardFacts DEF Accepted
<1>3. D \subseteq Board /\ D \subseteq Executed(fate)
  BY FateFacts
<1> HIDE DEF D, R
<1>4. IsFiniteSet(D) /\ Cardinality(D) <= Boards /\ (Cardinality(D) = Boards => D = Board)
  BY <1>3, BoardFacts, FS_Subset
<1>5. Cardinality(R) <= Cardinality(D)
  <2> DEFINE answer == [b \in D |-> Reply(b, kind)]
  <2>1. answer \in [D -> R] /\ \A p \in R : \E b \in D : answer[b] = p
    BY <1>1
  <2>2. answer \in Surjection(D, R)
    BY <2>1 DEF Surjection
  <2> HIDE DEF answer
  <2>3. QED
    BY <1>4, <2>2, FS_Surjection
<1>6. Cardinality(D) = Boards
  <2>1. Cardinality(D) \in Nat /\ Boards \in Nat
    BY <1>4, FS_CardinalityType, BoardFacts
  <2>2. QED
    BY <1>1, <1>2, <1>4, <1>5, <2>1
<1>7. QED
  BY <1>3, <1>4, <1>6

-----------------------------------------------------------------------------
(* LEMMAS: THE OPERATIONS OF THE DRIVER                                    *)

(* biasOFF() of one board: it switches no voltage on, and if it succeeds   *)
(* the board's is off.                                                     *)
LEMMA BiasOffOne ==
  ASSUME NEW b \in Board, NEW success \in BOOLEAN, biasOFF({b}, FALSE, success),
         bias \in [Board -> BOOLEAN]
  PROVE  /\ UNCHANGED <<macs, daq, conf>> /\ bias' \in [Board -> BOOLEAN]
         /\ ~crossed' => ~crossed
         /\ \A c \in Board : bias'[c] => bias[c]
         /\ ~crossed' /\ success => ~bias'[b]
<1>1. PICK fate \in [{b} -> Fate], crossing \in SUBSET late :
        /\ Exchange(fate, crossing, "OK")
        /\ success = Accepted(Received(fate, crossing, "OK"), "OK", FALSE)
        /\ bias' = [c \in Board |-> bias[c] /\ c \notin Executed(fate)]
        /\ UNCHANGED <<macs, daq, conf, fifo>>
  BY DEF biasOFF
<1>2. ~crossed' => ~crossed /\ crossing = {}
  BY <1>1, ExchangeFacts
<1>3. ~crossed' /\ success => b \in Executed(fate)
  BY <1>1, <1>2, OneAccepted
<1>4. \A c \in Board : (bias[c] /\ c \notin Executed(fate)) \in BOOLEAN
  OBVIOUS
<1>5. QED
  BY <1>1, <1>2, <1>3, <1>4

(* biasOFF() of all boards, with their number compared.                    *)
LEMMA BiasOffAll ==
  ASSUME NEW success \in BOOLEAN, biasOFF(Board, TRUE, success), macs = Board,
         bias \in [Board -> BOOLEAN]
  PROVE  /\ UNCHANGED <<macs, daq, conf>> /\ bias' \in [Board -> BOOLEAN]
         /\ ~crossed' => ~crossed
         /\ ~crossed' /\ success => \A c \in Board : ~bias'[c]
<1>1. PICK fate \in [Board -> Fate], crossing \in SUBSET late :
        /\ Exchange(fate, crossing, "OK")
        /\ success = Accepted(Received(fate, crossing, "OK"), "OK", TRUE)
        /\ bias' = [c \in Board |-> bias[c] /\ c \notin Executed(fate)]
        /\ UNCHANGED <<macs, daq, conf, fifo>>
  BY DEF biasOFF
<1>2. ~crossed' => ~crossed /\ crossing = {}
  BY <1>1, ExchangeFacts
<1>3. ~crossed' /\ success => Board \subseteq Executed(fate)
  BY <1>1, <1>2, AllAccepted
<1>4. \A c \in Board : (bias[c] /\ c \notin Executed(fate)) \in BOOLEAN
  OBVIOUS
<1>5. QED
  BY <1>1, <1>2, <1>3, <1>4

(* biasON() of one board changes no other.                                 *)
LEMMA BiasOnOne ==
  ASSUME NEW b \in Board, NEW success \in BOOLEAN, biasON(b, success),
         bias \in [Board -> BOOLEAN]
  PROVE  /\ UNCHANGED <<macs, daq, conf>> /\ bias' \in [Board -> BOOLEAN]
         /\ ~crossed' => ~crossed
         /\ \A c \in Board \ {b} : bias'[c] = bias[c]
         /\ ~crossed' /\ success => bias'[b]
<1>1. PICK fate \in [{b} -> Fate], crossing \in SUBSET late :
        /\ Exchange(fate, crossing, "OK")
        /\ success = Accepted(Received(fate, crossing, "OK"), "OK", FALSE)
        /\ bias' = [bias EXCEPT ![b] = bias[b] \/ b \in Executed(fate)]
        /\ UNCHANGED <<macs, daq, conf, fifo>>
  BY DEF biasON
<1>2. ~crossed' => ~crossed /\ crossing = {}
  BY <1>1, ExchangeFacts
<1>3. ~crossed' /\ success => b \in Executed(fate)
  BY <1>1, <1>2, OneAccepted
<1>4. (bias[b] \/ b \in Executed(fate)) \in BOOLEAN
  OBVIOUS
<1>5. QED
  BY <1>1, <1>2, <1>3, <1>4

(* The slow control part of the configuration of one board.                *)
LEMMA SCROne ==
  ASSUME NEW b \in Board, NEW success \in BOOLEAN, sendSCR(b, success)
  PROVE  /\ UNCHANGED <<macs, daq, bias>>
         /\ ~crossed' => ~crossed
         /\ \A c \in Board \ {b} : conf'[c] = conf[c]
         /\ ~crossed' /\ success => HasSCR(b)'
<1>1. PICK fate \in [{b} -> Fate], crossing \in SUBSET late :
        /\ Exchange(fate, crossing, "OK_SCR")
        /\ success = Accepted(Received(fate, crossing, "OK_SCR"), "OK_SCR", FALSE)
        /\ conf' = Configured("SCR", fate)
        /\ UNCHANGED <<macs, bias, daq, fifo>>
  BY DEF sendSCR
<1>2. ~crossed' => ~crossed /\ crossing = {}
  BY <1>1, ExchangeFacts
<1>3. ~crossed' /\ success => b \in Executed(fate)
  BY <1>1, <1>2, OneAccepted
<1>4. OfFate(fate, {"refused"}) \subseteq {b} /\ Executed(fate) \subseteq {b}
  BY FateFacts
<1>5. \A c \in Board \ {b} : conf'[c] = conf[c]
  BY <1>1, <1>4 DEF Configured
<1>6. b \in Executed(fate) => HasSCR(b)'
  BY <1>1 DEF Configured, HasSCR
<1>7. QED
  BY <1>1, <1>2, <1>3, <1>5, <1>6

(* The probe part leaves the slow control part as it is.                   *)
LEMMA PMROne ==
  ASSUME NEW b \in Board, NEW success \in BOOLEAN, sendPMR(b, success)
  PROVE  /\ UNCHANGED <<macs, daq, bias>>
         /\ ~crossed' => ~crossed
         /\ \A c \in Board : HasSCR(c)' <=> HasSCR(c)
<1>1. PICK fate \in [{b} -> Fate], crossing \in SUBSET late :
        /\ Exchange(fate, crossing, "OK_PMR")
        /\ conf' = Configured("PMR", fate)
        /\ UNCHANGED <<macs, bias, daq, fifo>>
  BY DEF sendPMR
<1>2. ~crossed' => ~crossed
  BY <1>1, ExchangeFacts
<1>3. \A c \in Board : HasSCR(c)' <=> HasSCR(c)
  BY <1>1 DEF Configured, HasSCR
<1>4. QED
  BY <1>1, <1>2, <1>3

(* startDAQ(): when its last phase succeeds, all boards take data.         *)
LEMMA StartDAQAll ==
  ASSUME NEW phase \in 0 .. 2, NEW success \in BOOLEAN, startDAQ(phase, success), macs = Board
  PROVE  /\ UNCHANGED <<macs, conf, bias>>
         /\ ~crossed' => ~crossed
         /\ ~crossed' /\ success /\ phase = 2 => \A c \in Board : daq'[c]
<1>1. PICK fate \in [Board -> Fate], crossing \in SUBSET late :
        /\ Exchange(fate, crossing, "OK")
        /\ success = Accepted(Received(fate, crossing, "OK"), "OK", TRUE)
        /\ daq' = [c \in Board |-> IF c \notin Executed(fate) THEN daq[c]
                                   ELSE IF phase = 1 THEN daq[c] ELSE phase = 2]
        /\ UNCHANGED <<macs, bias, conf>>
  BY DEF startDAQ
<1>2. ~crossed' => ~crossed /\ crossing = {}
  BY <1>1, ExchangeFacts
<1>3. ~crossed' /\ success => Board \subseteq Executed(fate)
  BY <1>1, <1>2, AllAccepted
<1>4. phase = 2 => \A c \in Board \cap Executed(fate) : daq'[c]
  <2> SUFFICES ASSUME phase = 2, NEW c \in Board, c \in Executed(fate) PROVE daq'[c]
    OBVIOUS
  <2>1. daq'[c] = (phase = 2)
    BY <1>1
  <2>2. QED
    BY <2>1, Zenon
<1>5. QED
  BY <1>1, <1>2, <1>3, <1>4

-----------------------------------------------------------------------------
(* THE INVARIANT                                                           *)

(* The initial states.                                                     *)
LEMMA InitIInv == Init => IInv
<1> SUFFICES ASSUME Init PROVE IInv
  OBVIOUS
<1>1. bias \in [Board -> BOOLEAN]
  BY DEF Init, DriverInit
<1>2. Places /\ Clients
  BY DEF Init, Places, Clients
<1>3. Configuring /\ Started /\ BiasOffWhenStopped
  BY DEF Init, Configuring, Started, BiasOffWhenStopped
<1>4. QED
  BY <1>1, <1>2, <1>3 DEF IInv

(* Steps that leave start(), stop() and what the boards were told alone:   *)
(* hits, packets and time, and getNext_.                                   *)
LEMMA QuietStep ==
  ASSUME IInv, UNCHANGED <<macs, bias, daq, conf, ctl, step, runs>>,
         ~crossed' => ~crossed,
         \/ UNCHANGED <<thread, mac>>
         \/ thread = "poll" /\ thread' = "push" /\ mac' = mac
         \/ thread = "push" /\ thread' = "poll"
         \/ thread = "push" /\ thread' = "restart" /\ mac' = 0
  PROVE  IInv'
<1>1. bias' \in [Board -> BOOLEAN] /\ Clients'
  BY DEF IInv, Clients
<1>2. Places'
  BY DEF IInv, Places
<1>3. ~crossed' => Configuring' /\ Started' /\ BiasOffWhenStopped'
  <2>1. HasSCR(step)' = HasSCR(step) /\ \A b \in Board : HasSCR(b)' = HasSCR(b)
    BY DEF HasSCR
  <2>2. ~crossed => Configuring /\ Started /\ BiasOffWhenStopped
    BY DEF IInv
  <2>3. Configuring => Configuring'
    BY <2>1 DEF Configuring, Told
  <2>4. Started => Started'
    BY DEF Started
  <2>5. BiasOffWhenStopped => BiasOffWhenStopped'
    BY DEF BiasOffWhenStopped
  <2>6. QED
    BY <2>2, <2>3, <2>4, <2>5
<1>4. QED
  BY <1>1, <1>2, <1>3 DEF IInv

(* A poll, in particular, only moves hits.                                 *)
LEMMA PollFacts ==
  ASSUME PollFEB
  PROVE  /\ UNCHANGED <<macs, bias, daq, conf, ctl, step, runs, mac>>
         /\ thread = "poll" /\ thread' = "push" /\ (~crossed' => ~crossed)
<1>1. /\ thread = "poll" /\ thread' = "push" /\ UNCHANGED <<ctl, step, runs, mac>>
  BY DEF PollFEB, control
<1>2. \E arriving, crossing, slow, cost : Poll(mac, arriving, crossing, slow, cost)
  BY ZenonT(60) DEF PollFEB
<1>3. UNCHANGED <<macs, bias, daq, conf>> /\ (~crossed' => ~crossed)
  <2>1. PICK arriving, crossing, slow, cost : Poll(mac, arriving, crossing, slow, cost)
    BY <1>2
  <2>2. UNCHANGED <<macs, bias, daq, conf>> /\ crossed' = (crossed \/ crossing # {})
    BY <2>1 DEF Poll
  <2>3. QED
    BY <2>2
<1>4. QED
  BY <1>1, <1>3

(* start(), board by board.                                                *)
LEMMA StartStep ==
  ASSUME IInv, Start
  PROVE  IInv'
<1>t. /\ bias \in [Board -> BOOLEAN] /\ Places /\ Clients
      /\ ~crossed => Configuring /\ Started /\ BiasOffWhenStopped
  BY DEF IInv
<1>b. Boards \in Nat \ {0} /\ Board = 1 .. Boards
  BY BoardFacts
<1>1. CASE StartBegin
  <2>1. /\ ctl = "idle" /\ ctl' = "off" /\ step' = 1 /\ runs' = runs + 1
        /\ UNCHANGED <<macs, bias, daq, conf, crossed, thread, mac>>
    BY <1>1 DEF StartBegin, driver, boards, link, reader
  <2>2. Places' /\ Clients'
    BY <1>t, <1>b, <2>1 DEF Places, Clients
  <2>3. ~crossed' => Configuring' /\ Started' /\ BiasOffWhenStopped'
    <3>1. \A b \in Board : ~(b < 1)
      BY <1>b
    <3>2. Configuring' /\ BiasOffWhenStopped'
      BY <2>1, <3>1 DEF Configuring, BiasOffWhenStopped
    <3>3. Started => Started'
      BY <2>1 DEF Started
    <3>4. QED
      BY <1>t, <2>1, <3>2, <3>3
  <2>4. QED
    BY <1>t, <2>1, <2>2, <2>3 DEF IInv
<1>2. CASE StartBiasOff
  <2>1. PICK success \in BOOLEAN :
          /\ biasOFF({step}, FALSE, success)
          /\ ctl' = IF success THEN (IF step < Boards THEN "off" ELSE "SCR") ELSE "error"
          /\ step' = IF success THEN (IF step < Boards THEN step + 1 ELSE 1) ELSE step
    BY <1>2 DEF StartBiasOff, Goto
  <2>2. ctl = "off" /\ UNCHANGED <<runs, thread, mac>>
    BY <1>2 DEF StartBiasOff, Goto, reader
  <2>3. step \in Board /\ thread \notin {"poll", "push", "restart"}
    BY <1>t, <2>2 DEF Places
  <2>4. /\ UNCHANGED <<macs, daq, conf>> /\ bias' \in [Board -> BOOLEAN]
        /\ ~crossed' => ~crossed
        /\ \A c \in Board : bias'[c] => bias[c]
        /\ ~crossed' /\ success => ~bias'[step]
    BY <1>t, <2>1, <2>3, BiasOffOne
  <2>5. Places' /\ Clients' /\ Started' /\ BiasOffWhenStopped'
    BY <1>t, <1>b, <2>1, <2>2, <2>3, <2>4 DEF Places, Clients, Started, BiasOffWhenStopped
  <2>6. ASSUME ~crossed'
        PROVE  Configuring'
    <3>1. \A b \in Board : b < step => ~bias[b]
      BY <1>t, <2>2, <2>4, <2>6 DEF Configuring
    <3>2. CASE ~success
      BY <2>1, <3>2 DEF Configuring
    <3>3. CASE success
      <4>1. \A b \in Board : b <= step => ~bias'[b]
        BY <1>b, <2>3, <2>4, <2>6, <3>1, <3>3
      <4>2. \A b \in Board : b < step + 1 => b <= step
        BY <1>b, <2>3
      <4>3. ~(step < Boards) => \A b \in Board : b <= step /\ ~(b < 1)
        BY <1>b, <2>3
      <4>4. QED
        BY <2>1, <3>3, <4>1, <4>2, <4>3 DEF Configuring
    <3>4. QED
      BY <3>2, <3>3
  <2>7. QED
    BY <2>4, <2>5, <2>6 DEF IInv
<1>3. CASE StartSCR
  <2>1. PICK success \in BOOLEAN :
          /\ sendSCR(step, success)
          /\ ctl' = (IF success THEN "PMR" ELSE "error") /\ step' = step
    BY <1>3 DEF StartSCR, Goto
  <2>2. ctl = "SCR" /\ UNCHANGED <<runs, thread, mac>>
    BY <1>3 DEF StartSCR, Goto, reader
  <2>3. step \in Board /\ thread \notin {"poll", "push", "restart"}
    BY <1>t, <2>2 DEF Places
  <2>4. /\ UNCHANGED <<macs, daq, bias>>
        /\ ~crossed' => ~crossed
        /\ \A c \in Board \ {step} : conf'[c] = conf[c]
        /\ ~crossed' /\ success => "SCR" \in conf'[step]
    BY <2>1, <2>3, SCROne DEF HasSCR
  <2>5. Places' /\ Clients' /\ Started' /\ BiasOffWhenStopped'
    BY <1>t, <2>1, <2>2, <2>3, <2>4 DEF Places, Clients, Started, BiasOffWhenStopped
  <2>6. ASSUME ~crossed'
        PROVE  Configuring'
    <3>1. \A b \in Board : IF b < step THEN Told(b) ELSE ~bias[b]
      BY <1>t, <2>2, <2>4, <2>6 DEF Configuring
    <3>2. CASE ~success
      BY <2>1, <3>2 DEF Configuring
    <3>3. CASE success
      <4>1. \A b \in Board : b < step => b # step
        BY <1>b, <2>3
      <4>2. \A b \in Board : IF b < step THEN Told(b)' ELSE ~bias'[b] /\ (b = step => HasSCR(b)')
        BY <2>4, <2>6, <3>1, <3>3, <4>1 DEF Told, HasSCR
      <4>3. ctl' = "PMR" /\ step' = step
        BY <2>1, <3>3
      <4>4. QED
        BY <4>2, <4>3 DEF Configuring, Told, HasSCR
    <3>4. QED
      BY <3>2, <3>3
  <2>7. QED
    BY <1>t, <2>4, <2>5, <2>6 DEF IInv
<1>4. CASE StartPMR
  <2>1. PICK success \in BOOLEAN :
          /\ sendPMR(step, success)
          /\ IF step \in HVOn THEN Goto(success, "on", step) ELSE NextBoard(success)
    BY <1>4 DEF StartPMR
  <2>2. ctl = "PMR" /\ UNCHANGED <<runs, thread, mac>>
    BY <1>4 DEF StartPMR, NextBoard, Goto, reader
  <2>3. step \in Board /\ thread \notin {"poll", "push", "restart"}
    BY <1>t, <2>2 DEF Places
  <2>4. /\ UNCHANGED <<macs, daq, bias>>
        /\ ~crossed' => ~crossed
        /\ \A c \in Board : HasSCR(c)' <=> HasSCR(c)
    BY <2>1, <2>3, PMROne
  <2>5. \/ success /\ step \in HVOn /\ ctl' = "on" /\ step' = step
        \/ success /\ step \notin HVOn /\ step < Boards /\ ctl' = "SCR" /\ step' = step + 1
        \/ success /\ step \notin HVOn /\ ~(step < Boards) /\ ctl' = "daq" /\ step' = 0
        \/ ctl' = "error"
    BY <2>1 DEF NextBoard, Goto
  <2>6. Places'
    BY <1>t, <1>b, <2>2, <2>3, <2>5 DEF Places
  <2>7. Clients' /\ Started' /\ BiasOffWhenStopped'
    BY <1>t, <2>2, <2>3, <2>4, <2>5 DEF Clients, Started, BiasOffWhenStopped
  <2>8. ASSUME ~crossed'
        PROVE  Configuring'
    <3>1. \A b \in Board : IF b < step THEN Told(b) ELSE ~bias[b] /\ (b = step => HasSCR(b))
      BY <1>t, <2>2, <2>4, <2>8 DEF Configuring
    <3>2. \A b \in Board : IF b < step THEN Told(b)' ELSE ~bias'[b] /\ (b = step => HasSCR(b)')
      BY <2>4, <3>1 DEF Told
    <3>3. ~(step < step)
      BY <1>b, <2>3
    <3>4. step \notin HVOn => \A b \in Board : b = step => Told(b)'
      BY <3>2, <3>3 DEF Told
    <3>5. step \notin HVOn => \A b \in Board : IF b < step + 1 THEN Told(b)' ELSE ~bias'[b]
      <4>1. \A b \in Board : b < step + 1 => b < step \/ b = step
        BY <1>b, <2>3
      <4>2. \A b \in Board : b < step => b < step + 1
        BY <1>b, <2>3
      <4>3. QED
        BY <3>2, <3>4, <4>1, <4>2
    <3>6. ~(step < Boards) => \A b \in Board : b < step \/ b = step
      BY <1>b, <2>3
    <3>7. CASE success /\ step \in HVOn /\ ctl' = "on" /\ step' = step
      BY <3>2, <3>7 DEF Configuring, Told, HasSCR
    <3>8. CASE success /\ step \notin HVOn /\ step < Boards /\ ctl' = "SCR" /\ step' = step + 1
      BY <3>5, <3>8 DEF Configuring, Told, HasSCR
    <3>9. CASE success /\ step \notin HVOn /\ ~(step < Boards) /\ ctl' = "daq" /\ step' = 0
      <4>1. \A b \in Board : Told(b)'
        BY <3>2, <3>4, <3>6, <3>9
      <4>2. QED
        BY <3>9, <4>1 DEF Configuring, Told, HasSCR
    <3>10. CASE ctl' = "error"
      BY <3>10 DEF Configuring
    <3>11. QED
      BY <2>5, <3>7, <3>8, <3>9, <3>10
  <2>9. QED
    BY <1>t, <2>4, <2>6, <2>7, <2>8 DEF IInv
<1>5. CASE StartBiasOn
  <2>1. PICK success \in BOOLEAN : biasON(step, success) /\ NextBoard(success)
    BY <1>5 DEF StartBiasOn
  <2>2. ctl = "on" /\ UNCHANGED <<runs, thread, mac>>
    BY <1>5 DEF StartBiasOn, NextBoard, Goto, reader
  <2>3. step \in Board /\ thread \notin {"poll", "push", "restart"}
    BY <1>t, <2>2 DEF Places
  <2>4. /\ UNCHANGED <<macs, daq, conf>> /\ bias' \in [Board -> BOOLEAN]
        /\ ~crossed' => ~crossed
        /\ \A c \in Board \ {step} : bias'[c] = bias[c]
        /\ ~crossed' /\ success => bias'[step]
    BY <1>t, <2>1, <2>3, BiasOnOne
  <2>5. \/ success /\ step < Boards /\ ctl' = "SCR" /\ step' = step + 1
        \/ success /\ ~(step < Boards) /\ ctl' = "daq" /\ step' = 0
        \/ ctl' = "error"
    BY <2>1 DEF NextBoard, Goto
  <2>6. Places'
    BY <1>t, <1>b, <2>2, <2>3, <2>5 DEF Places
  <2>7. Clients' /\ Started' /\ BiasOffWhenStopped'
    BY <1>t, <2>2, <2>3, <2>4, <2>5 DEF Clients, Started, BiasOffWhenStopped
  <2>8. ASSUME ~crossed'
        PROVE  Configuring'
    <3>1. \A b \in Board : IF b < step THEN Told(b) ELSE ~bias[b] /\ (b = step => HasSCR(b))
      BY <1>t, <2>2, <2>4, <2>8 DEF Configuring
    <3>2. step \in HVOn
      BY <1>t, <2>2, <2>4, <2>8 DEF Configuring
    <3>3. \A b \in Board \ {step} : IF b < step THEN Told(b)' ELSE ~bias'[b]
      BY <2>4, <3>1 DEF Told, HasSCR
    <3>4. ~(step < step)
      BY <1>b, <2>3
    <3>5. HasSCR(step)
      BY <2>3, <3>1, <3>4
    <3>6. success => "SCR" \in conf'[step] /\ (bias'[step] <=> step \in HVOn)
      BY <2>3, <2>4, <2>8, <3>2, <3>5 DEF HasSCR
    <3>7. success => \A b \in Board : IF b < step + 1 THEN Told(b)' ELSE ~bias'[b]
      <4>1. \A b \in Board : b < step + 1 => b < step \/ b = step
        BY <1>b, <2>3
      <4>2. \A b \in Board : b < step \/ b = step => b < step + 1
        BY <1>b, <2>3
      <4>3. QED
        BY <3>3, <3>6, <4>1, <4>2 DEF Told, HasSCR
    <3>8. ~(step < Boards) => \A b \in Board : b < step + 1
      BY <1>b, <2>3
    <3>9. CASE success /\ step < Boards /\ ctl' = "SCR" /\ step' = step + 1
      BY <3>7, <3>9 DEF Configuring, Told, HasSCR
    <3>10. CASE success /\ ~(step < Boards) /\ ctl' = "daq" /\ step' = 0
      <4>1. \A b \in Board : Told(b)'
        BY <3>7, <3>8, <3>10
      <4>2. QED
        BY <3>10, <4>1 DEF Configuring, Told, HasSCR
    <3>11. CASE ctl' = "error"
      BY <3>11 DEF Configuring
    <3>12. QED
      BY <2>5, <3>9, <3>10, <3>11
  <2>9. QED
    BY <2>4, <2>6, <2>7, <2>8 DEF IInv
<1>6. CASE StartDAQ
  <2>1. PICK success \in BOOLEAN :
          /\ startDAQ(step, success)
          /\ IF step < 2 THEN Goto(success, "daq", step + 1) ELSE Goto(success, "thread", 1)
    BY <1>6 DEF StartDAQ
  <2>2. ctl = "daq" /\ UNCHANGED <<runs, thread, mac>>
    BY <1>6 DEF StartDAQ, Goto, reader
  <2>3. step \in 0 .. 2 /\ thread \notin {"poll", "push", "restart"} /\ macs = Board
    BY <1>t, <2>2 DEF Places, Clients
  <2>4. /\ UNCHANGED <<macs, conf, bias>>
        /\ ~crossed' => ~crossed
        /\ ~crossed' /\ success /\ step = 2 => \A c \in Board : daq'[c]
    BY <2>1, <2>3, StartDAQAll
  <2>5. \/ success /\ step < 2 /\ ctl' = "daq" /\ step' = step + 1
        \/ success /\ step = 2 /\ ctl' = "thread" /\ step' = 1
        \/ ctl' = "error"
    BY <2>1, <2>3 DEF Goto
  <2>6. Places' /\ Clients' /\ BiasOffWhenStopped'
    BY <1>t, <2>2, <2>3, <2>4, <2>5 DEF Places, Clients, BiasOffWhenStopped
  <2>7. ASSUME ~crossed'
        PROVE  Configuring' /\ Started'
    <3>1. \A b \in Board : Told(b)
      BY <1>t, <2>2, <2>4, <2>7 DEF Configuring
    <3>2. Configuring'
      BY <2>4, <2>5, <3>1 DEF Configuring, Told, HasSCR
    <3>3. Started'
      BY <2>2, <2>3, <2>4, <2>5, <2>7 DEF Started
    <3>4. QED
      BY <3>2, <3>3
  <2>8. QED
    BY <1>t, <2>4, <2>6, <2>7 DEF IInv
<1>7. CASE StartThread
  <2>1. /\ ctl = "thread" /\ ctl' = "running" /\ thread' = "poll" /\ mac' = 1
        /\ UNCHANGED <<macs, bias, daq, conf, crossed, step, runs>>
    BY <1>7 DEF StartThread, driver, boards, link
  <2>2. Places' /\ Clients' /\ BiasOffWhenStopped'
    BY <1>t, <2>1 DEF Places, Clients, BiasOffWhenStopped
  <2>3. Configuring => Configuring'
    BY <2>1 DEF Configuring, Told, HasSCR
  <2>4. Started => Started'
    BY <2>1 DEF Started
  <2>5. QED
    BY <1>t, <2>1, <2>2, <2>3, <2>4 DEF IInv
<1>8. QED
  BY <1>1, <1>2, <1>3, <1>4, <1>5, <1>6, <1>7 DEF Start

(* stop(): when it goes on, all voltages are off.                          *)
LEMMA StopStep ==
  ASSUME IInv, Stop
  PROVE  IInv'
<1>t. /\ bias \in [Board -> BOOLEAN] /\ Places /\ Clients
      /\ ~crossed => Configuring /\ Started /\ BiasOffWhenStopped
  BY DEF IInv
<1>1. CASE StopBegin \/ StopJoin
  <2>1. /\ UNCHANGED <<macs, bias, daq, conf, crossed, step, runs, mac>>
        /\ \/ ctl = "running" /\ ctl' = "join" /\ thread' = thread
           \/ ctl = "join" /\ ctl' = "bias" /\ thread' = "off"
    BY <1>1 DEF StopBegin, StopJoin, driver, boards, link, reader
  <2>2. Places' /\ Clients'
    BY <1>t, <2>1 DEF Places, Clients
  <2>3. Configuring => Configuring'
    BY <2>1 DEF Configuring, Told, HasSCR
  <2>4. Started => Started'
    BY <2>1 DEF Started
  <2>5. BiasOffWhenStopped'
    BY <2>1 DEF BiasOffWhenStopped
  <2>6. QED
    BY <1>t, <2>1, <2>2, <2>3, <2>4, <2>5 DEF IInv
<1>2. CASE StopBiasOff \/ StopAgain
  <2>1. PICK success \in BOOLEAN :
          /\ biasOFF(Board, TRUE, success)
          /\ ctl \in {"bias", "mutex"}
          /\ ctl' = (IF success THEN (IF ctl = "bias" THEN "mutex" ELSE "idle") ELSE "error")
    BY <1>2 DEF StopBiasOff, StopAgain, Goto
  <2>2. UNCHANGED <<runs, thread, mac>>
    BY <1>2 DEF StopBiasOff, StopAgain, Goto, reader
  <2>3. macs = Board /\ thread \notin {"poll", "push", "restart"}
    BY <1>t, <2>1 DEF Places, Clients
  <2>4. /\ UNCHANGED <<macs, daq, conf>> /\ bias' \in [Board -> BOOLEAN]
        /\ ~crossed' => ~crossed
        /\ ~crossed' /\ success => \A c \in Board : ~bias'[c]
    BY <1>t, <2>1, <2>3, BiasOffAll
  <2>5. Places' /\ Clients'
    BY <1>t, <2>1, <2>2, <2>3, <2>4 DEF Places, Clients
  <2>6. Configuring' /\ Started'
    BY <2>1, <2>2, <2>3 DEF Configuring, Started
  <2>7. ~crossed' => BiasOffWhenStopped'
    BY <2>1, <2>4 DEF BiasOffWhenStopped
  <2>8. QED
    BY <2>4, <2>5, <2>6, <2>7 DEF IInv
<1>3. QED
  BY <1>1, <1>2 DEF Stop

(* The data thread restarts the boards: until it is over, and if it fails, *)
(* they need not take data.                                                *)
LEMMA RestartStep ==
  ASSUME IInv, Restart
  PROVE  IInv'
<1>t. /\ bias \in [Board -> BOOLEAN] /\ Places /\ Clients
      /\ ~crossed => Configuring /\ Started /\ BiasOffWhenStopped
  BY DEF IInv
<1>1. PICK success \in BOOLEAN :
        /\ startDAQ(mac, success)
        /\ thread' = IF ~success THEN "dead" ELSE IF mac < 2 THEN "restart" ELSE "poll"
        /\ mac' = IF success /\ mac < 2 THEN mac + 1 ELSE 1
  BY DEF Restart
<1>2. thread = "restart" /\ UNCHANGED <<ctl, step, runs>>
  BY DEF Restart, control
<1>3. mac \in 0 .. 2 /\ ctl \in {"running", "join"} /\ macs = Board
  BY <1>t, <1>2 DEF Places, Clients
<1>4. /\ UNCHANGED <<macs, conf, bias>>
      /\ ~crossed' => ~crossed
      /\ ~crossed' /\ success /\ mac = 2 => \A c \in Board : daq'[c]
  BY <1>1, <1>3, StartDAQAll
<1>5. \/ success /\ mac < 2 /\ thread' = "restart" /\ mac' = mac + 1
      \/ success /\ mac = 2 /\ thread' = "poll" /\ mac' = 1
      \/ thread' = "dead"
  BY <1>1, <1>3
<1>6. Places' /\ Clients' /\ BiasOffWhenStopped'
  BY <1>t, <1>2, <1>3, <1>4, <1>5 DEF Places, Clients, BiasOffWhenStopped
<1>7. Configuring => Configuring'
  BY <1>2, <1>3, <1>4 DEF Configuring, Told, HasSCR
<1>8. ~crossed' => Started'
  BY <1>2, <1>3, <1>4, <1>5 DEF Started
<1>9. QED
  BY <1>t, <1>4, <1>6, <1>7, <1>8 DEF IInv

(* pingclients(): the constructor goes on only with all boards.            *)
LEMMA ConstructStep ==
  ASSUME IInv, Construct
  PROVE  IInv'
<1>t. /\ bias \in [Board -> BOOLEAN] /\ Places
      /\ ~crossed => Configuring /\ Started /\ BiasOffWhenStopped
  BY DEF IInv
<1>1. /\ ctl = "construct" /\ ctl' \in {"idle", "error"} /\ (ctl' = "idle" => macs' = Board)
      /\ UNCHANGED <<step, runs, thread, mac>>
  BY DEF Construct, VerifyMACConfiguration, reader
<1>2. UNCHANGED <<bias, daq, conf>> /\ (~crossed' => ~crossed)
  BY ExchangeFacts DEF Construct, pingclients, boards
<1>3. Places' /\ Clients'
  BY <1>t, <1>1 DEF Places, Clients
<1>4. Configuring'
  BY <1>1 DEF Configuring
<1>5. Started => Started'
  BY <1>1, <1>2 DEF Started
<1>6. BiasOffWhenStopped'
  BY <1>1, <1>t DEF BiasOffWhenStopped, Places
<1>7. QED
  BY <1>t, <1>2, <1>3, <1>4, <1>5, <1>6 DEF IInv

(* Every step keeps the invariant.                                         *)
LEMMA NextIInv == IInv /\ [Next]_vars => IInv'
<1> SUFFICES ASSUME IInv, [Next]_vars PROVE IInv'
  OBVIOUS
<1>1. ASSUME NEW b \in Board, Measure(b) PROVE IInv'
  <2>1. UNCHANGED <<macs, bias, daq, conf, ctl, step, runs, crossed, thread, mac>>
    BY <1>1 DEF Measure, link, control, reader
  <2>2. QED
    BY <2>1, QuietStep
<1>2. CASE PacketArrives \/ DelayOver
  <2>1. UNCHANGED <<macs, bias, daq, conf, ctl, step, runs, crossed, thread, mac>>
    BY <1>2 DEF PacketArrives, LateArrives, DelayOver, driver, boards, link, control, reader
  <2>2. QED
    BY <2>1, QuietStep
<1>3. CASE PollFEB
  BY <1>3, PollFacts, QuietStep
<1>4. CASE PushFragment
  <2>1. UNCHANGED <<macs, bias, daq, conf, ctl, step, runs, crossed, thread, mac>>
    BY <1>4 DEF PushFragment, driver, boards, link, control
  <2>2. QED
    BY <2>1, QuietStep
<1>5. CASE PushEnd
  <2>1. /\ UNCHANGED <<macs, bias, daq, conf, ctl, step, runs, crossed>>
        /\ thread = "push" /\ (thread' = "poll" \/ (thread' = "restart" /\ mac' = 0))
    BY <1>5 DEF PushEnd, driver, boards, link, control
  <2>2. QED
    BY <2>1, QuietStep
<1>6. CASE GetNext
  <2>1. UNCHANGED <<macs, bias, daq, conf, ctl, step, runs, crossed, thread, mac>>
    BY <1>6 DEF GetNext, GetNextBegin, FillBegin, FillFragment, FillEnd, EraseFromFEBBuffer,
                driver, boards, link, control, reader
  <2>2. QED
    BY <2>1, QuietStep
<1>7. CASE UNCHANGED vars
  <2>1. UNCHANGED <<macs, bias, daq, conf, ctl, step, runs, crossed, thread, mac>>
    BY <1>7 DEF vars, driver, boards, link, control, reader
  <2>2. QED
    BY <2>1, QuietStep
<1>8. QED
  BY <1>1, <1>2, <1>3, <1>4, <1>5, <1>6, <1>7, ConstructStep, StartStep, StopStep, RestartStep
     DEF Next, DataThread

-----------------------------------------------------------------------------
(* THEOREMS                                                                *)

(* The inductive invariant holds in every reachable state.                 *)
THEOREM Invariance == Spec => []IInv
<1>1. QED
  BY InitIInv, NextIInv, PTL DEF Spec

(* When start() has succeeded, or a restart of the boards by the data      *)
(* thread is over, every board is configured and takes data, and has its   *)
(* bias voltage exactly if that is permitted; when stop() has succeeded,   *)
(* no board has it.  Counting the answers is enough for that, although     *)
(* their senders are not looked at, whatever else gets lost, is refused or *)
(* comes late, as long as no late packet comes in the window of a later    *)
(* command.                                                                *)
THEOREM AnswersAreEnough == Spec => []BoardsAsTold
<1>1. IInv => BoardsAsTold
  <2> SUFFICES ASSUME IInv, ~crossed PROVE ReadyToRun /\ BiasOffWhenStopped
    BY DEF BoardsAsTold
  <2>1. Configuring /\ Started /\ BiasOffWhenStopped
    BY DEF IInv
  <2>2. ReadyToRun
    BY <2>1 DEF ReadyToRun, Configuring, Started, Told, HasSCR
  <2>3. QED
    BY <2>1, <2>2
<1>2. QED
  BY <1>1, Invariance, PTL
=============================================================================
