------------------------ MODULE ICARUSTriggerProofs ------------------------
(***************************************************************************)
(* Proofs about ICARUSTrigger, for any types of gates, numbers of retries, *)
(* triggers, gates and messages on the way.                                *)
(***************************************************************************)
EXTENDS ICARUSTrigger, SequenceTheorems, TLAPS

-----------------------------------------------------------------------------
(* What makes the safety properties inductive.                             *)

(* The conversation with the controller, by where the reader is in it: of  *)
(* each command at most one is on the way, answered, or not sent yet; only *)
(* the start command may be repeated.                                      *)
Asked(c, before) ==
  \/ sends = 0 /\ requests = <<>> /\ answers = <<>> /\ controller = before
  \/ sends = 1 /\ requests = <<c>> /\ answers = <<>> /\ controller = before
  \/ sends = 1 /\ requests = <<>> /\ answers = <<"0">> /\ controller = before
  \/ sends = 1 /\ requests = <<>> /\ answers = <<"1">> /\ controller = before \cup {c}

Set_up == {"fpga", "spexi"}

Conversation ==
  /\ ctl = "fpga" => Asked("fpga", {})
  /\ ctl = "spexi" =>
       \/ Asked("spexi", {"fpga"})
       \/ /\ sends = 1 /\ requests = <<>> /\ answers = <<"1", "ready">>
          /\ controller = Set_up \cup {"ready"}
  /\ ctl = "final" =>
       /\ requests = <<>>
       /\ \/ answers = <<>> /\ controller = Set_up
          \/ answers \in {<<>>, <<"ready">>} /\ controller = Set_up \cup {"ready"}
  /\ ctl = "ready" => requests = <<>> /\ answers = <<>> /\ controller = Set_up \cup {"ready"}
  /\ ctl = "start" =>
       /\ \A n \in 1 .. Len(requests) : requests[n] = "start"
       /\ \A n \in 1 .. Len(answers) : answers[n] = "1"
       /\ Set_up \cup {"ready"} \subseteq controller
       /\ answers # <<>> => "start" \in controller
  /\ ctl = "run" => Set_up \cup {"ready", "start"} \subseteq controller

(* getNext_ runs only after start(), and has read part of a message only   *)
(* while it reads one.                                                     *)
Reading ==
  /\ ctl \in {"fpga", "spexi", "final", "ready", "start"} => gn = "over"
  /\ gn # "reading" => got = 0

(* The messages on the way follow on the last fragment and on each other.  *)
Message ==
  [event : 0 .. MaxTriggers, kind : Kind, gate_id : 0 .. MaxGates, own : 0 .. MaxGates]

Ordered(m, n) ==
  /\ m.event <= n.event
  /\ m.gate_id <= n.gate_id
  /\ m.kind = n.kind => m.own <= n.own

Pending(m) ==
  /\ m.event \in fLastEvent .. trigger
  /\ m.gate_id \in fLastGatesNum[Every(All)] .. gates[All]
  /\ m.own \in fLastGatesNum[m.kind] .. gates[Counter(m.kind[1])]

Stream ==
  /\ stream \in Seq(Message)
  /\ \A i, j \in 1 .. Len(stream) : i < j => Ordered(stream[i], stream[j])
  /\ \A i \in 1 .. Len(stream) : i + 1 <= Len(stream) => stream[i + 1].event <= stream[i].event + 1
  /\ \A i \in 1 .. Len(stream) : Pending(stream[i])
  /\ stream # <<>> => stream[1].event <= fLastEvent + 1
  /\ ~closed =>
       IF stream = <<>> THEN fLastEvent = trigger ELSE stream[Len(stream)].event = trigger

(* What was counted is no more than what came.                             *)
Counted ==
  /\ made = fLastEvent /\ fLastEvent <= trigger
  /\ \A t \in GateTypes : gates[t] <= gates[All]
  /\ fLastGatesNum[Every(All)] <= gates[All]
  /\ \A k \in Kind : fLastGatesNum[k] <= gates[Counter(k[1])]

IInv ==
  /\ TypeOK /\ Conversation /\ Reading /\ Stream /\ Counted /\ GatesAddUp /\ TotalsAgree

-----------------------------------------------------------------------------
(* LEMMAS                                                                  *)

(* The kinds of triggers, and the slots of the counters.                   *)
LEMMA KindFacts ==
  /\ \A k \in Kind : k[1] \in Type /\ k[2] \in {"Majority", "Minbias"} /\ k = <<k[1], k[2]>>
  /\ \A t : Every(t) \notin Kind
  /\ \A t \in Type : Counter(t) \in GateTypes \cup {All}
  /\ All \notin GateTypes /\ "Calib" \notin GateTypes
BY TriggerAssumption DEF Kind, Every, Counter, Type, All

(* A message that readTCP() has taken off the front.                       *)
LEMMA TailFacts ==
  ASSUME NEW S, NEW s \in Seq(S), s # <<>>
  PROVE  /\ Len(s) \in Nat \ {0} /\ Head(s) = s[1] /\ s[1] \in S
         /\ Tail(s) \in Seq(S) /\ Len(Tail(s)) = Len(s) - 1
         /\ \A k \in 1 .. Len(s) - 1 : Tail(s)[k] = s[k + 1]
OBVIOUS

(* A sequence with a member behind it.                                     *)
LEMMA AppendFacts ==
  ASSUME NEW S, NEW s \in Seq(S), NEW x \in S
  PROVE  /\ Len(s) \in Nat
         /\ Append(s, x) \in Seq(S) /\ Len(Append(s, x)) = Len(s) + 1
         /\ \A k \in 1 .. Len(s) : Append(s, x)[k] = s[k]
         /\ Append(s, x)[Len(s) + 1] = x
OBVIOUS

(* A list of one or two is known by its members.                           *)
LEMMA ShortLists ==
  ASSUME NEW S, NEW s \in Seq(S)
  PROVE  /\ Len(s) = 1 => s = <<s[1]>>
         /\ Len(s) = 2 => s = <<s[1], s[2]>>
<1>1. ASSUME Len(s) = 1 PROVE s = <<s[1]>>
  <2>1. /\ s[1] \in S /\ <<s[1]>> \in Seq(S) /\ Len(<<s[1]>>) = 1
        /\ \A k \in 1 .. Len(s) : k = 1
    BY <1>1
  <2> DEFINE t == <<s[1]>>
  <2>2. t[1] = s[1] /\ t \in Seq(S) /\ Len(t) = 1
    BY <2>1
  <2> HIDE DEF t
  <2>3. \A k \in 1 .. Len(s) : s[k] = t[k]
    BY <2>1, <2>2
  <2>4. s = t
    BY <1>1, <2>2, <2>3, SeqEqual
  <2>5. QED
    BY <2>4 DEF t
<1>2. ASSUME Len(s) = 2 PROVE s = <<s[1], s[2]>>
  <2>0. 1 \in 1 .. Len(s) /\ 2 \in 1 .. Len(s) /\ \A k \in 1 .. Len(s) : k = 1 \/ k = 2
    BY <1>2
  <2>1. s[1] \in S /\ s[2] \in S /\ \A k \in 1 .. Len(s) : k = 1 \/ k = 2
    BY <2>0, ElementOfSeq
  <2> DEFINE t == <<s[1], s[2]>>
  <2>2. t[1] = s[1] /\ t[2] = s[2] /\ t \in Seq(S) /\ Len(t) = 2
    BY <2>1
  <2> HIDE DEF t
  <2>3. \A k \in 1 .. Len(s) : s[k] = t[k]
    BY <2>1, <2>2
  <2>4. s = t
    BY <1>2, <2>2, <2>3, SeqEqual
  <2>5. QED
    BY <2>4 DEF t
<1>3. QED
  BY <1>1, <1>2

(* One answer alone, one of two, and one of any number is taken.           *)
LEMMA SubSeqFacts ==
  ASSUME NEW S, NEW s \in Seq(S), NEW n \in DOMAIN s
  PROVE  /\ s # <<>> /\ Len(s) \in Nat /\ n \in 1 .. Len(s)
         /\ SubSeq(s, n + 1, Len(s)) \in Seq(S)
         /\ n = Len(s) => SubSeq(s, n + 1, Len(s)) = <<>>
         /\ Len(s) = 2 /\ n = 1 => SubSeq(s, n + 1, Len(s)) = <<s[2]>>
<1> DEFINE t == SubSeq(s, n + 1, Len(s))
<1>1. s # <<>> /\ Len(s) \in Nat /\ n \in 1 .. Len(s)
  OBVIOUS
<1>2. /\ t \in Seq(S) /\ Len(t) = Len(s) - n
      /\ \A k \in 1 .. Len(s) - n : t[k] = s[n + k]
  <2>1. \A k \in n + 1 .. Len(s) : s[k] \in S
    BY <1>1
  <2>2. /\ t \in Seq(S) /\ Len(t) = IF n + 1 <= Len(s) THEN Len(s) - (n + 1) + 1 ELSE 0
        /\ \A k \in 1 .. Len(s) - (n + 1) + 1 : t[k] = s[(n + 1) + k - 1]
    BY <1>1, <2>1, SubSeqProperties
  <2>3. QED
    BY <1>1, <2>2
<1>3. n = Len(s) => t = <<>>
  BY <1>1, SubSeqEmpty
<1>4. ASSUME Len(s) = 2, n = 1 PROVE t = <<s[2]>>
  <2>1. Len(t) = 1 /\ t[1] = s[2] /\ t \in Seq(S)
    BY <1>2, <1>4
  <2> HIDE DEF t
  <2>2. t = <<t[1]>>
    BY <2>1, ShortLists
  <2>3. QED
    BY <2>1, <2>2
<1>5. QED
  BY <1>1, <1>2, <1>3, <1>4

(* The first answer, and the report behind it.                             *)
LEMMA ShortAnswers ==
  /\ Append(<<>>, "0") = <<"0">> /\ Append(<<>>, "1") = <<"1">>
  /\ Append(<<>>, "ready") = <<"ready">>
  /\ Append(<<"1">>, "ready") = <<"1", "ready">>
<1> DEFINE S == {"0", "1", "ready"}
<1>1. ASSUME NEW x \in S PROVE Append(<<>>, x) = <<x>>
  <2> DEFINE t == Append(<<>>, x)
  <2>1. <<>> \in Seq(S) /\ Len(<<>>) = 0
    OBVIOUS
  <2>2. t \in Seq(S) /\ Len(t) = 1 /\ t[1] = x
    BY <2>1, AppendFacts
  <2> HIDE DEF t
  <2>3. t = <<t[1]>>
    BY <2>2, ShortLists
  <2>4. QED
    BY <2>2, <2>3 DEF t
<1>2. Append(<<"1">>, "ready") = <<"1", "ready">>
  <2> DEFINE u == <<"1">>
             t == Append(u, "ready")
  <2>1. u \in Seq(S) /\ Len(u) = 1 /\ u[1] = "1"
    OBVIOUS
  <2>2. t \in Seq(S) /\ Len(t) = 2 /\ t[1] = "1" /\ t[2] = "ready"
    <3> HIDE DEF u
    <3>1. "ready" \in S /\ 1 \in 1 .. Len(u) /\ Len(u) + 1 = 2
      BY <2>1
    <3>u. u \in Seq(S)
      BY <2>1
    <3> HIDE DEF S
    <3>2. /\ t \in Seq(S) /\ Len(t) = Len(u) + 1 /\ t[Len(u) + 1] = "ready"
          /\ \A k \in 1 .. Len(u) : t[k] = u[k]
      BY <3>1, <3>u, AppendFacts
    <3> HIDE DEF t
    <3>3. Len(t) = 2 /\ t[2] = "ready" /\ t[1] = u[1]
      BY <2>1, <3>1, <3>2
    <3>4. QED
      BY <2>1, <3>2, <3>3
  <2> HIDE DEF u, t
  <2>3. t = <<t[1], t[2]>>
    BY <2>2, ShortLists
  <2>4. QED
    BY <2>2, <2>3 DEF t, u
<1>3. QED
  BY <1>1, <1>2

-----------------------------------------------------------------------------
(* THE CONVERSATION                                                        *)

Answer == {"0", "1", "ready"}
Command == {"fpga", "spexi", "start"}

(* The controller's answers keep the conversation in order: one request,   *)
(* one answer, and a second one only when it gets ready.                   *)
LEMMA ControllerSteps ==
  ASSUME IInv, ControllerAnswers \/ ControllerReady
  PROVE  Conversation' /\ Reading'
<1>t. /\ requests \in Seq(Command) /\ answers \in Seq(Answer)
      /\ Conversation /\ Reading
  BY DEF IInv, TypeOK, Command, Answer
<1>1. ctl' = ctl /\ sends' = sends /\ gn' = gn /\ got' = got /\ controller \subseteq controller'
  BY DEF ControllerAnswers, ControllerReady, account, beam, socket
<1>2. Reading'
  BY <1>t, <1>1 DEF Reading
<1>3. CASE ControllerAnswers
  <2>1. /\ requests # <<>> /\ requests' = Tail(requests)
        /\ \/ controller' = controller \cup {Head(requests)} /\ answers' = Append(answers, "1")
           \/ Head(requests) # "start" /\ answers' = Append(answers, "0") /\ controller' = controller
    BY <1>3 DEF ControllerAnswers, Reply
  <2>2. CASE ctl = "fpga" \/ ctl = "spexi"
    <3>1. requests = <<ctl>> /\ answers = <<>> /\ sends = 1
      BY <1>t, <2>1, <2>2 DEF Conversation, Asked
    <3>2. Head(requests) = ctl /\ requests' = <<>>
      BY <2>1, <3>1
    <3>3. \/ answers' = <<"1">> /\ controller' = controller \cup {ctl}
          \/ answers' = <<"0">> /\ controller' = controller
      BY <2>1, <3>1, <3>2, ShortAnswers
    <3>4. QED
      BY <1>1, <1>2, <1>t, <2>2, <3>1, <3>2, <3>3 DEF Conversation, Asked
  <2>3. CASE ctl = "start"
    <3>1. \A n \in 1 .. Len(requests) : requests[n] = "start"
      BY <1>t, <2>3 DEF Conversation
    <3>2. Head(requests) = "start"
      BY <1>t, <2>1, <3>1, TailFacts
    <3>3. answers' = Append(answers, "1") /\ controller' = controller \cup {"start"}
      BY <2>1, <3>2
    <3>4. \A n \in 1 .. Len(requests') : requests'[n] = "start"
      BY <1>t, <2>1, <3>1, TailFacts
    <3>5. \A n \in 1 .. Len(answers') : answers'[n] = "1"
      <4>1. "1" \in Answer
        BY DEF Answer
      <4>2. \A n \in 1 .. Len(answers) : answers[n] = "1"
        BY <1>t, <2>3 DEF Conversation
      <4>3. QED
        BY <1>t, <3>3, <4>1, <4>2, AppendFacts
    <3>6. QED
      BY <1>1, <1>2, <1>t, <2>3, <3>3, <3>4, <3>5 DEF Conversation
  <2>4. CASE ctl = "run"
    BY <1>1, <1>2, <1>t, <2>4 DEF Conversation
  <2>5. QED
    BY <1>1, <1>2, <1>t, <2>1, <2>2, <2>3, <2>4 DEF Conversation
<1>4. CASE ControllerReady
  <2>1. /\ Set_up \subseteq controller /\ "ready" \notin controller /\ requests' = requests
        /\ controller' = controller \cup {"ready"} /\ answers' = Append(answers, "ready")
    BY <1>4 DEF ControllerReady, Reply, Set_up
  <2>2. ctl \notin {"fpga", "ready", "start", "run"}
    BY <1>t, <2>1 DEF Conversation, Asked, Set_up
  <2>3. CASE ctl = "spexi"
    <3>1. answers = <<"1">> /\ requests = <<>> /\ controller = Set_up
      BY <1>t, <2>1, <2>3 DEF Conversation, Asked, Set_up
    <3>2. answers' = <<"1", "ready">> /\ controller' = Set_up \cup {"ready"}
      BY <2>1, <3>1, ShortAnswers
    <3>3. sends = 1
      BY <1>t, <2>1, <2>3 DEF Conversation, Asked, Set_up
    <3>4. QED
      BY <1>1, <1>2, <2>1, <2>3, <3>1, <3>2, <3>3 DEF Conversation
  <2>4. CASE ctl = "final"
    <3>1. answers = <<>> /\ requests = <<>> /\ controller = Set_up
      BY <1>t, <2>1, <2>4 DEF Conversation
    <3>2. answers' = <<"ready">> /\ controller' = Set_up \cup {"ready"}
      BY <2>1, <3>1, ShortAnswers
    <3>3. QED
      BY <1>1, <1>2, <2>1, <2>4, <3>1, <3>2 DEF Conversation
  <2>5. QED
    BY <1>1, <1>2, <2>2, <2>3, <2>4 DEF Conversation
<1>5. QED
  BY <1>3, <1>4

(* A command, or its repetition, is sent when nothing is outstanding, or   *)
(* it is the last one, start.                                              *)
LEMMA SendStep ==
  ASSUME IInv, Send
  PROVE  Conversation' /\ Reading'
<1>t. /\ requests \in Seq(Command) /\ Conversation /\ Reading
  BY DEF IInv, TypeOK, Command
<1>1. /\ requests' = Append(requests, ctl) /\ sends' = sends + 1
      /\ UNCHANGED <<ctl, answers, controller, gn, got>>
      /\ (ctl \in {"fpga", "spexi"} /\ sends = 0) \/ ctl = "start"
  BY DEF Send
<1>2. Reading'
  BY <1>t, <1>1 DEF Reading
<1>3. CASE ctl \in {"fpga", "spexi"} /\ sends = 0
  <2>1. requests = <<>> /\ answers = <<>>
    BY <1>t, <1>3 DEF Conversation, Asked
  <2>2. requests' = <<ctl>> /\ sends' = 1
    <3>1. <<ctl>> \in Seq(Command) /\ <<>> \in Seq(Command) /\ ctl \in Command
      BY <1>3 DEF Command
    <3>2. /\ requests' \in Seq(Command) /\ Len(requests') = 1 /\ requests'[1] = ctl
      BY <1>1, <2>1, <3>1, AppendFacts
    <3>3. requests' = <<requests'[1]>>
      BY <3>2, ShortLists
    <3>4. QED
      BY <1>1, <1>3, <3>2, <3>3
  <2>3. QED
    BY <1>1, <1>2, <1>3, <1>t, <2>1, <2>2 DEF Conversation, Asked
<1>4. CASE ctl = "start"
  <2>1. ctl \in Command
    BY <1>4 DEF Command
  <2>2. \A n \in 1 .. Len(requests') : requests'[n] = "start"
    BY <1>t, <1>1, <1>4, <2>1, AppendFacts DEF Conversation
  <2>3. QED
    BY <1>1, <1>2, <1>4, <1>t, <2>2 DEF Conversation
<1>5. QED
  BY <1>1, <1>3, <1>4

(* An answer is read, or does not come in time: start() goes on, asks      *)
(* again or gives up.                                                      *)
LEMMA PollSteps ==
  ASSUME IInv, PollAnswer \/ PollTimesOut
  PROVE  Conversation' /\ Reading'
<1>t. /\ answers \in Seq(Answer) /\ Conversation /\ Reading
  BY DEF IInv, TypeOK, Answer
<1>1. CASE PollAnswer
  <2>1. /\ ctl \in {"fpga", "spexi", "final", "start"} /\ Accepted(Head(answers))
        /\ gn' = (IF ctl' = "run" THEN "between" ELSE gn)
        /\ UNCHANGED <<requests, controller, got>>
    BY <1>1 DEF PollAnswer, Waiting
  <2>2. PICK n \in DOMAIN answers : answers' = SubSeq(answers, n + 1, Len(answers))
    BY <1>1 DEF PollAnswer
  <2>3. /\ answers # <<>> /\ Len(answers) \in Nat /\ n \in 1 .. Len(answers)
        /\ n = Len(answers) => answers' = <<>>
        /\ Len(answers) = 2 /\ n = 1 => answers' = <<answers[2]>>
    BY <1>t, <2>2, SubSeqFacts
  <2>4. gn = "over" /\ got = 0
    BY <1>t, <2>1 DEF Reading
  <2>5. CASE ctl = "fpga"
    <3>1. /\ requests = <<>> /\ sends = 1
          /\ \/ answers = <<"0">> /\ controller = {}
             \/ answers = <<"1">> /\ controller = {"fpga"}
      BY <1>t, <2>3, <2>5 DEF Conversation, Asked
    <3>2. Len(answers) = 1 /\ answers' = <<>>
      BY <2>3, <3>1
    <3>3. /\ ctl' = IF answers = <<"1">> THEN "spexi" ELSE "thrown"
          /\ sends' = 0
      BY <2>1, <2>5, <3>1 DEF Accepted, Goto
    <3>4. QED
      BY <2>1, <2>4, <3>1, <3>2, <3>3 DEF Conversation, Asked, Reading
  <2>6. CASE ctl = "spexi"
    <3>1. /\ requests = <<>>
          /\ \/ answers = <<"0">>
             \/ answers = <<"1">> /\ controller = Set_up
             \/ answers = <<"1", "ready">> /\ controller = Set_up \cup {"ready"}
      BY <1>t, <2>3, <2>6 DEF Conversation, Asked, Set_up
    <3>2. /\ answers \in {<<"1">>, <<"0">>} => answers' = <<>>
          /\ answers = <<"1", "ready">> => answers' \in {<<>>, <<"ready">>}
      <4>1. /\ answers \in {<<"1">>, <<"0">>} => Len(answers) = 1
            /\ answers = <<"1", "ready">> => Len(answers) = 2 /\ answers[2] = "ready"
        OBVIOUS
      <4>2. Len(answers) = 1 => n = Len(answers)
        BY <2>3
      <4>3. Len(answers) = 2 => n = 1 \/ n = Len(answers)
        BY <2>3
      <4>4. QED
        BY <2>3, <4>1, <4>2, <4>3
    <3>3. /\ ctl' = IF answers = <<"0">> THEN "thrown" ELSE "final"
          /\ sends' = 0
      BY <2>1, <2>6, <3>1 DEF Accepted, Goto
    <3>4. QED
      BY <2>1, <2>4, <3>1, <3>2, <3>3 DEF Conversation, Reading
  <2>7. CASE ctl = "final"
    <3>1. requests = <<>> /\ answers = <<"ready">> /\ controller = Set_up \cup {"ready"}
      BY <1>t, <2>3, <2>7 DEF Conversation
    <3>2. answers' = <<>> /\ ctl' = "ready"
      BY <2>1, <2>3, <2>7, <3>1 DEF Accepted, Goto
    <3>3. QED
      BY <2>1, <2>4, <3>1, <3>2 DEF Conversation, Reading
  <2>8. CASE ctl = "start"
    <3>1. ctl' = "run" /\ Set_up \cup {"ready", "start"} \subseteq controller
      BY <1>t, <2>1, <2>3, <2>8 DEF Accepted, Goto, Conversation
    <3>2. QED
      BY <2>1, <2>4, <3>1 DEF Conversation, Reading
  <2>9. QED
    BY <2>1, <2>5, <2>6, <2>7, <2>8
<1>2. CASE PollTimesOut
  <2>1. /\ UNCHANGED <<requests, answers, controller, gn, got>>
        /\ (ctl' = ctl /\ sends' = sends) \/ ctl' \in {"thrown", "aborted"}
    BY <1>2 DEF PollTimesOut, Goto
  <2>2. QED
    BY <1>t, <2>1 DEF Conversation, Asked, Reading
<1>3. QED
  BY <1>1, <1>2

(* The other steps leave the conversation alone.                           *)
LEMMA ConversationStep ==
  ASSUME IInv, Next
  PROVE  Conversation' /\ Reading'
<1>t. Conversation /\ Reading
  BY DEF IInv
<1>1. CASE ControllerAnswers \/ ControllerReady
  BY <1>1, ControllerSteps
<1>2. CASE Send
  BY <1>2, SendStep
<1>3. CASE PollAnswer \/ PollTimesOut
  BY <1>3, PollSteps
<1>4. CASE Start
  <2>1. /\ (ctl = "ready" /\ ctl' = "start") \/ ctl' = "aborted"
        /\ UNCHANGED <<requests, answers, controller, gn, got>>
    BY <1>4 DEF Start, protocol
  <2>2. QED
    BY <1>t, <2>1 DEF Conversation, Reading
<1>5. CASE StopRequest \/ Stop
  <2>1. /\ ctl' \in {"mutex", "stopped"} /\ UNCHANGED <<gn, got>>
    BY <1>5 DEF StopRequest, Stop
  <2>2. QED
    BY <1>t, <2>1 DEF Conversation, Reading
<1>6. CASE \/ \E t \in GateTypes : Gate(t)
           \/ \E k \in Kind : SendTrigger(k)
           \/ Repeat \/ Deliver \/ Close
  <2>1. UNCHANGED <<ctl, protocol, gn, got>>
    BY <1>6 DEF Gate, SendTrigger, Repeat, Deliver, Close
  <2>2. QED
    BY <1>t, <2>1 DEF Conversation, Asked, Reading, protocol
<1>7. CASE GetNext
  <2>1. /\ UNCHANGED <<ctl, protocol>> /\ gn # "over"
        /\ gn' = "reading" \/ got' = 0
    BY <1>7 DEF GetNext, Poll, ReadPiece, MakeFragment
  <2>2. QED
    BY <1>t, <2>1 DEF Conversation, Asked, Reading, protocol
<1>8. QED
  BY <1>1, <1>2, <1>3, <1>4, <1>5, <1>6, <1>7 DEF Next

-----------------------------------------------------------------------------
(* THE MESSAGES                                                            *)

Counters == Kind \cup {Every(All)}

(* What the proofs below need of a state.                                  *)
StreamFacts ==
  /\ Stream /\ Counted /\ Len(stream) \in Nat
  /\ fLastGatesNum \in [Counters -> 0 .. MaxGates]
  /\ gates \in [GateTypes \cup {All} -> 0 .. MaxGates]
  /\ MaxGates \in Nat /\ MaxTriggers \in Nat /\ MaxPending \in Nat
  /\ trigger \in 0 .. MaxTriggers /\ fLastEvent \in 0 .. MaxTriggers
  /\ arrived \in 0 .. Pieces * Len(stream) /\ got \in 0 .. arrived

(* They hold with the invariant.                                           *)
LEMMA FactsHold == IInv => StreamFacts
BY TriggerAssumption DEF IInv, StreamFacts, Stream, TypeOK, Counters

(* A gate raises its own count and that of all.                            *)
LEMMA GateCounts ==
  ASSUME IInv, NEW t \in GateTypes, Gate(t)
  PROVE  /\ gates' \in [GateTypes \cup {All} -> 0 .. MaxGates]
         /\ \A u \in GateTypes : gates'[u] <= gates'[All]
         /\ \A u \in GateTypes \cup {All} : gates[u] <= gates'[u]
<1>1. /\ gates[All] < MaxGates
      /\ gates' = [gates EXCEPT ![t] = gates[t] + 1, ![All] = gates[All] + 1]
      /\ gates \in [GateTypes \cup {All} -> 0 .. MaxGates] /\ t # All
      /\ MaxGates \in Nat /\ \A u \in GateTypes : gates[u] <= gates[All]
  BY FactsHold, KindFacts DEF Gate, StreamFacts, Counted
<1>2. \A u \in GateTypes \cup {All} :
        gates'[u] = IF u \in {t, All} THEN gates[u] + 1 ELSE gates[u]
  BY <1>1
<1>3. gates[t] <= gates[All] /\ \A u \in GateTypes \cup {All} : gates[u] \in 0 .. MaxGates
  BY <1>1
<1>4. \A u \in GateTypes \cup {All} : gates'[u] \in 0 .. MaxGates
  BY <1>1, <1>2, <1>3
<1>5. DOMAIN gates' = GateTypes \cup {All}
  BY <1>1
<1>6. gates' \in [GateTypes \cup {All} -> 0 .. MaxGates]
  BY <1>1, <1>4
<1>7. QED
  BY <1>1, <1>2, <1>3, <1>6

(* Each new message follows on the last one, or repeats it.                *)
LEMMA AppendStream ==
  ASSUME IInv, ~closed, closed' = closed, NEW m \in Message,
         stream' = Append(stream, m), trigger' >= trigger, trigger' \in 0 .. MaxTriggers,
         UNCHANGED <<gates, fLastEvent, fLastGatesNum>>,
         m.event = trigger', m.event <= trigger + 1,
         m.gate_id \in fLastGatesNum[Every(All)] .. gates[All],
         m.own \in fLastGatesNum[m.kind] .. gates[Counter(m.kind[1])],
         \A i \in 1 .. Len(stream) : Ordered(stream[i], m)
  PROVE  Stream'
<1>1. StreamFacts
  BY FactsHold
<1> DEFINE n == Len(stream)
<1>2. /\ n \in Nat /\ stream' \in Seq(Message) /\ Len(stream') = n + 1
      /\ \A k \in 1 .. n : stream'[k] = stream[k]
      /\ stream'[n + 1] = m
  BY <1>1, AppendFacts DEF StreamFacts, Stream
<1>3. \A k \in 1 .. n + 1 : k \in 1 .. n \/ k = n + 1
  BY <1>2
<1>4. \A i, j \in 1 .. n + 1 : i < j => Ordered(stream'[i], stream'[j])
  BY <1>1, <1>2, <1>3 DEF StreamFacts, Stream
<1>5. n > 0 => stream[n].event = trigger
  BY <1>1, <1>2 DEF StreamFacts, Stream
<1>6. \A i \in 1 .. n + 1 : i + 1 <= n + 1 => stream'[i + 1].event <= stream'[i].event + 1
  <2>1. ASSUME NEW i \in 1 .. n + 1, i + 1 <= n + 1
        PROVE  stream'[i + 1].event <= stream'[i].event + 1
    <3>1. i \in 1 .. n
      BY <1>2, <2>1
    <3>2. CASE i = n
      BY <1>2, <1>5, <3>1, <3>2
    <3>3. CASE i # n
      BY <1>1, <1>2, <3>1, <3>3 DEF StreamFacts, Stream
    <3>4. QED
      BY <3>2, <3>3
  <2>2. QED
    BY <2>1
<1>7. fLastEvent <= trigger /\ fLastEvent \in Nat /\ trigger \in Nat /\ trigger' \in Nat
  BY <1>1 DEF StreamFacts, Counted
<1>8. (\A i \in 1 .. Len(stream) : Pending(stream[i]))'
  <2>1. ASSUME NEW i \in 1 .. Len(stream') PROVE Pending(stream[i])'
    <3>1. CASE i \in 1 .. n
      <4>1. Pending(stream[i]) /\ stream'[i] = stream[i] /\ stream[i] \in Message
        BY <1>1, <1>2, <3>1 DEF StreamFacts, Stream
      <4>2. stream[i].event \in Nat
        BY <4>1 DEF Message
      <4>3. QED
        BY <1>7, <4>1, <4>2 DEF Pending
    <3>2. CASE i = n + 1
      BY <1>2, <1>7, <3>2 DEF Pending
    <3>3. QED
      BY <1>2, <1>3, <2>1, <3>1, <3>2
  <2>2. QED
    BY <2>1
<1>9. stream'[1].event <= fLastEvent + 1
  <2>1. CASE n = 0
    <3>1. stream = <<>>
      BY <1>1, <2>1 DEF StreamFacts, Stream
    <3>2. fLastEvent = trigger
      BY <1>1, <3>1 DEF StreamFacts, Stream
    <3>3. QED
      BY <1>2, <2>1, <3>2
  <2>2. CASE n # 0
    BY <1>1, <1>2, <2>2 DEF StreamFacts, Stream
  <2>3. QED
    BY <2>1, <2>2
<1>10. stream' # <<>> /\ stream'[Len(stream')].event = trigger'
  BY <1>2
<1> HIDE DEF n
<1>11. QED
  BY <1>2, <1>4, <1>6, <1>8, <1>9, <1>10 DEF Stream

(* The messages behind the one that getNext_ has turned into a fragment.   *)
LEMMA TailStream ==
  ASSUME IInv, stream # <<>>, stream' = Tail(stream), closed' = closed,
         UNCHANGED <<gates, trigger>>,
         NEW m \in Message, m = Head(stream),
         fLastEvent' = (IF m.event > fLastEvent THEN m.event ELSE fLastEvent),
         fLastGatesNum' = (IF m.event > fLastEvent
                           THEN [fLastGatesNum EXCEPT ![Every(All)] = m.gate_id,
                                                      ![m.kind] = m.own]
                           ELSE fLastGatesNum)
  PROVE  /\ Stream' /\ fLastEvent' <= trigger
         /\ fLastGatesNum' \in [Counters -> 0 .. MaxGates]
         /\ fLastGatesNum'[Every(All)] <= gates[All]
         /\ \A k \in Kind : fLastGatesNum'[k] <= gates[Counter(k[1])]
<1>1. StreamFacts
  BY FactsHold
<1> DEFINE n == Len(stream)
<1>2. /\ n \in Nat \ {0} /\ m = stream[1] /\ stream' \in Seq(Message) /\ Len(stream') = n - 1
      /\ \A k \in 1 .. n - 1 : stream'[k] = stream[k + 1]
  BY <1>1, TailFacts DEF StreamFacts, Stream
<1>0. \A k \in Kind : Counter(k[1]) \in GateTypes \cup {All}
  BY KindFacts
<1>3. /\ m.event \in fLastEvent .. trigger /\ m.kind \in Kind
      /\ m.gate_id \in fLastGatesNum[Every(All)] .. gates[All] /\ m.gate_id \in 0 .. MaxGates
      /\ m.own \in fLastGatesNum[m.kind] .. gates[Counter(m.kind[1])] /\ m.own \in 0 .. MaxGates
      /\ m.event <= fLastEvent + 1 /\ m.event \in Nat
  <2>1. 1 \in 1 .. n
    BY <1>2
  <2>2. Pending(m) /\ m.event <= fLastEvent + 1
    BY <1>1, <1>2, <2>1 DEF StreamFacts, Stream
  <2>3. /\ m.kind \in Kind /\ m.event \in Nat
        /\ m.gate_id \in 0 .. MaxGates /\ m.own \in 0 .. MaxGates
    BY <1>1 DEF Message, StreamFacts
  <2>4. QED
    BY <2>2, <2>3 DEF Pending
<1>4. /\ Every(All) \notin Kind /\ m.kind # Every(All)
      /\ fLastGatesNum' \in [Counters -> 0 .. MaxGates]
      /\ fLastGatesNum'[Every(All)] \in {m.gate_id, fLastGatesNum[Every(All)]}
      /\ \A k \in Kind : fLastGatesNum'[k] \in {IF k = m.kind THEN m.own ELSE fLastGatesNum[k],
                                                fLastGatesNum[k]}
  BY <1>1, <1>3, KindFacts DEF StreamFacts, Counters
<1>5. /\ fLastEvent' <= trigger /\ fLastEvent' \in Nat /\ m.event <= fLastEvent'
      /\ fLastEvent' <= fLastEvent + 1 /\ fLastEvent' \in {m.event, fLastEvent}
  BY <1>1, <1>3 DEF StreamFacts, Counted
<1>6. /\ fLastGatesNum'[Every(All)] <= gates[All]
      /\ \A k \in Kind : fLastGatesNum'[k] <= gates[Counter(k[1])]
  <2>1. /\ \A c \in GateTypes \cup {All} : gates[c] \in Nat
        /\ \A k \in Counters : fLastGatesNum[k] \in Nat
    BY <1>1 DEF StreamFacts
  <2>a. /\ fLastGatesNum[Every(All)] <= gates[All]
        /\ \A k \in Kind : fLastGatesNum[k] <= gates[Counter(k[1])]
    BY <1>1 DEF StreamFacts, Counted
  <2>b. gates[All] \in Nat /\ gates[Counter(m.kind[1])] \in Nat
    BY <1>0, <1>3, <2>1
  <2>2. m.gate_id <= gates[All] /\ m.own <= gates[Counter(m.kind[1])]
    BY <1>3, <2>b
  <2>3. fLastGatesNum'[Every(All)] <= gates[All]
    BY <1>4, <2>a, <2>2
  <2>4. ASSUME NEW k \in Kind PROVE fLastGatesNum'[k] <= gates[Counter(k[1])]
    <3>1. CASE k = m.kind
      BY <1>4, <2>a, <2>2, <3>1
    <3>2. CASE k # m.kind
      BY <1>4, <2>a, <3>2
    <3>3. QED
      BY <3>1, <3>2
  <2>5. QED
    BY <2>3, <2>4
<1>7. \A k \in 1 .. n - 1 : k + 1 \in 1 .. n /\ stream[k + 1] \in Message
  BY <1>1, <1>2 DEF StreamFacts, Stream
<1>8. \A i, j \in 1 .. n - 1 : i < j => Ordered(stream'[i], stream'[j])
  BY <1>1, <1>2, <1>7 DEF StreamFacts, Stream
<1>9. \A i \in 1 .. n - 1 : i + 1 <= n - 1 => stream'[i + 1].event <= stream'[i].event + 1
  <2>1. ASSUME NEW i \in 1 .. n - 1, i + 1 <= n - 1
        PROVE  stream'[i + 1].event <= stream'[i].event + 1
    <3>1. /\ i + 1 \in 1 .. n /\ (i + 1) + 1 <= n /\ i + 1 \in 1 .. n - 1
      BY <1>2, <2>1
    <3>2. stream[(i + 1) + 1].event <= stream[i + 1].event + 1
      BY <1>1, <3>1 DEF StreamFacts, Stream
    <3>3. QED
      BY <1>2, <2>1, <3>1, <3>2
  <2>2. QED
    BY <2>1
<1>10. ASSUME NEW i \in 1 .. n - 1 PROVE Pending(stream[i])'
  <2> DEFINE x == stream[i + 1]
  <2>1. stream'[i] = x /\ x \in Message /\ i + 1 \in 1 .. n /\ 1 \in 1 .. n /\ 1 < i + 1
    BY <1>2, <1>7
  <2>2. Ordered(m, x) /\ Pending(x)
    BY <1>1, <1>2, <2>1 DEF StreamFacts, Stream
  <2> HIDE DEF x
  <2>3. x.kind \in Kind /\ x.event \in Nat /\ x.gate_id \in Nat /\ x.own \in Nat
    BY <2>1 DEF Message
  <2>4. x.event \in fLastEvent' .. trigger
    BY <1>3, <1>5, <2>2, <2>3 DEF Ordered, Pending
  <2>5. x.gate_id \in fLastGatesNum'[Every(All)] .. gates[All]
    BY <1>3, <1>4, <2>2, <2>3 DEF Ordered, Pending
  <2>6. x.own \in fLastGatesNum'[x.kind] .. gates[Counter(x.kind[1])]
    <3>1. CASE x.kind = m.kind
      BY <1>3, <1>4, <2>2, <2>3, <3>1 DEF Ordered, Pending
    <3>2. CASE x.kind # m.kind
      BY <1>4, <2>2, <2>3, <3>2 DEF Pending
    <3>3. QED
      BY <3>1, <3>2
  <2>7. QED
    BY <2>1, <2>4, <2>5, <2>6 DEF Pending
<1>11. stream' # <<>> => stream'[1].event <= fLastEvent' + 1
  <2>1. ASSUME stream' # <<>> PROVE stream'[1].event <= fLastEvent' + 1
    <3>1. 1 \in 1 .. n - 1 /\ stream'[1] = stream[2] /\ 1 \in 1 .. n /\ 1 + 1 <= n
      BY <1>2, <2>1
    <3>2. stream[2].event <= m.event + 1
      BY <1>1, <1>2, <3>1 DEF StreamFacts, Stream
    <3>3. stream[2].event \in Nat
      <4>1. 1 + 1 = 2 /\ stream[1 + 1] \in Message
        BY <1>7, <3>1
      <4>2. QED
        BY <1>1, <4>1 DEF Message, StreamFacts
    <3>4. QED
      BY <1>3, <1>5, <3>1, <3>2, <3>3
  <2>2. QED
    BY <2>1
<1>12. ASSUME ~closed'
       PROVE  IF stream' = <<>> THEN fLastEvent' = trigger ELSE stream'[Len(stream')].event = trigger
  <2>1. stream[n].event = trigger
    BY <1>1, <1>12 DEF StreamFacts, Stream
  <2>2. CASE n = 1
    BY <1>2, <1>5, <2>1, <2>2, <1>1 DEF StreamFacts, Counted
  <2>3. CASE n # 1
    <3>1. n - 1 \in 1 .. n - 1 /\ stream'[n - 1] = stream[n]
      BY <1>2, <2>3
    <3>2. stream' # <<>> /\ Len(stream') = n - 1
      <4>1. Len(stream') # 0
        BY <1>2, <3>1
      <4>2. QED
        BY <1>2, <4>1
    <3>3. QED
      BY <2>1, <3>1, <3>2
  <2>4. QED
    BY <2>2, <2>3
<1> HIDE DEF n
<1>13. Stream'
  BY <1>2, <1>8, <1>9, <1>10, <1>11, <1>12 DEF Stream
<1>14. QED
  BY <1>4, <1>5, <1>6, <1>13

(* The message that getNext_ has read whole is the first.                  *)
LEMMA ReadWhole ==
  ASSUME IInv, MakeFragment
  PROVE  /\ stream # <<>> /\ message \in Message /\ Pending(message)
         /\ Len(stream) \in Nat \ {0} /\ Tail(stream) \in Seq(Message)
         /\ Len(Tail(stream)) = Len(stream) - 1
<1>1. StreamFacts
  BY FactsHold
<1>2. got = 3 /\ got \in 0 .. arrived /\ arrived \in 0 .. 3 * Len(stream)
  BY <1>1 DEF MakeFragment, StreamFacts, Pieces
<1>3. stream # <<>>
  BY <1>1, <1>2 DEF StreamFacts
<1>4. /\ message = stream[1] /\ message \in Message /\ Len(stream) \in Nat \ {0}
      /\ Tail(stream) \in Seq(Message) /\ Len(Tail(stream)) = Len(stream) - 1
  BY <1>1, <1>3, TailFacts DEF StreamFacts, Stream, message
<1>5. 1 \in 1 .. Len(stream)
  BY <1>4
<1>6. Pending(message)
  BY <1>1, <1>4, <1>5 DEF StreamFacts, Stream
<1>7. QED
  BY <1>3, <1>4, <1>6

(* A trigger of the board carries the gates of the moment.                 *)
LEMMA SendTriggerStep ==
  ASSUME IInv, NEW k \in Kind, SendTrigger(k)
  PROVE  Stream'
<1>1. StreamFacts
  BY FactsHold
<1> DEFINE m == [event |-> trigger', kind |-> k, gate_id |-> gates[All], own |-> gates[Counter(k[1])]]
<1>2. /\ ~closed /\ closed' = closed /\ trigger < MaxTriggers /\ trigger' = trigger + 1
      /\ stream' = Append(stream, m) /\ UNCHANGED <<gates, fLastEvent, fLastGatesNum>>
  BY DEF SendTrigger, account
<1>3. /\ gates[All] \in 0 .. MaxGates /\ gates[Counter(k[1])] \in 0 .. MaxGates
      /\ trigger' \in 0 .. MaxTriggers /\ trigger' >= trigger /\ trigger' <= trigger + 1
  BY <1>1, <1>2, KindFacts DEF StreamFacts
<1>4. /\ m \in Message /\ m.event = trigger' /\ m.kind = k
      /\ m.gate_id = gates[All] /\ m.own = gates[Counter(k[1])]
  BY <1>3 DEF Message
<1> HIDE DEF m
<1>5. /\ fLastGatesNum[Every(All)] <= gates[All] /\ fLastGatesNum[Every(All)] \in Nat
      /\ fLastGatesNum[k] <= gates[Counter(k[1])] /\ fLastGatesNum[k] \in Nat
  BY <1>1 DEF StreamFacts, Counted, Counters
<1>6. /\ m.gate_id \in fLastGatesNum[Every(All)] .. gates[All]
      /\ m.own \in fLastGatesNum[m.kind] .. gates[Counter(m.kind[1])]
  BY <1>3, <1>4, <1>5
<1>7. ASSUME NEW i \in 1 .. Len(stream) PROVE Ordered(stream[i], m)
  <2>1. Pending(stream[i]) /\ stream[i] \in Message
    BY <1>1 DEF StreamFacts, Stream
  <2>2. stream[i].event \in Nat /\ stream[i].event <= trigger
    BY <1>1, <2>1 DEF Pending, Message, StreamFacts
  <2>3. /\ stream[i].gate_id <= gates[All]
        /\ stream[i].own <= gates[Counter(stream[i].kind[1])]
    BY <2>1 DEF Pending
  <2>4. QED
    BY <1>1, <1>2, <1>4, <2>2, <2>3 DEF Ordered, StreamFacts
<1>8. QED
  BY <1>2, <1>3, <1>4, <1>6, <1>7, AppendStream

(* The board repeats the last trigger.                                     *)
LEMMA RepeatStep ==
  ASSUME IInv, Repeat
  PROVE  Stream'
<1>1. StreamFacts
  BY FactsHold
<1> DEFINE n == Len(stream)
           m == stream[n]
<1>2. /\ ~closed /\ closed' = closed /\ trigger' = trigger /\ stream # <<>>
      /\ stream' = Append(stream, m) /\ UNCHANGED <<gates, fLastEvent, fLastGatesNum>>
  BY DEF Repeat, account, beam, Last
<1>3. n \in 1 .. n /\ n \in Nat
  BY <1>1, <1>2 DEF StreamFacts, Stream
<1>4. /\ m \in Message /\ Pending(m) /\ m.event = trigger'
      /\ trigger' \in 0 .. MaxTriggers /\ trigger' >= trigger /\ trigger' <= trigger + 1
  BY <1>1, <1>2, <1>3 DEF StreamFacts, Stream
<1>5. ASSUME NEW i \in 1 .. n PROVE Ordered(stream[i], m)
  <2>1. CASE i = n
    BY <1>1, <1>4, <2>1 DEF Ordered, Message, StreamFacts
  <2>2. CASE i # n
    BY <1>1, <1>3, <2>2 DEF StreamFacts, Stream
  <2>3. QED
    BY <2>1, <2>2
<1>6. /\ m.gate_id \in fLastGatesNum[Every(All)] .. gates[All]
      /\ m.own \in fLastGatesNum[m.kind] .. gates[Counter(m.kind[1])]
  BY <1>4 DEF Pending
<1> HIDE DEF m
<1>7. QED
  BY <1>2, <1>4, <1>5, <1>6, AppendStream

(* getNext_ takes the first message off, whether or not it repeats one.    *)
LEMMA FragmentStep ==
  ASSUME IInv, MakeFragment
  PROVE  /\ Stream' /\ Counted'
         /\ fLastGatesNum' \in [Counters -> 0 .. MaxGates]
<1>1. StreamFacts
  BY FactsHold
<1> DEFINE m == message
           k == m.kind
<1>2. /\ stream # <<>> /\ m \in Message /\ Pending(m) /\ m = Head(stream)
  BY ReadWhole DEF message
<1>3. /\ stream' = Tail(stream) /\ closed' = closed /\ UNCHANGED <<gates, trigger>>
      /\ IF IsNew THEN Account(k) ELSE UNCHANGED account
  BY DEF MakeFragment, beam
<1>4. /\ fLastEvent' = IF m.event > fLastEvent THEN m.event ELSE fLastEvent
      /\ fLastGatesNum' = IF m.event > fLastEvent
                          THEN [fLastGatesNum EXCEPT ![Every(All)] = m.gate_id, ![m.kind] = m.own]
                          ELSE fLastGatesNum
      /\ made' = IF m.event > fLastEvent THEN made + 1 ELSE made
  BY <1>3 DEF IsNew, Account, account
<1>5. /\ m.event <= fLastEvent + 1 /\ m.event \in Nat
  <2>1. m = stream[1] /\ m.event <= fLastEvent + 1
    BY <1>1, <1>2 DEF StreamFacts, Stream
  <2>2. QED
    BY <1>1, <1>2, <2>1 DEF StreamFacts, Message
<1> HIDE DEF m
<1>6. /\ Stream' /\ fLastEvent' <= trigger
      /\ fLastGatesNum' \in [Counters -> 0 .. MaxGates]
      /\ fLastGatesNum'[Every(All)] <= gates[All]
      /\ \A j \in Kind : fLastGatesNum'[j] <= gates[Counter(j[1])]
  BY <1>2, <1>3, <1>4, TailStream
<1>7. made' = fLastEvent'
  BY <1>1, <1>4, <1>5 DEF StreamFacts, Counted
<1>8. QED
  BY <1>1, <1>3, <1>6, <1>7 DEF StreamFacts, Counted

(* Every step keeps the triggers in the stream numbered, and their counts  *)
(* of gates no smaller than those before.                                  *)
LEMMA StreamStep ==
  ASSUME IInv, Next
  PROVE  Stream' /\ Counted'
<1>t. StreamFacts
  BY FactsHold
<1>1. CASE UNCHANGED <<beam, stream, closed, fLastEvent, fLastGatesNum, made>>
  BY <1>1, <1>t DEF StreamFacts, Stream, Counted, Pending, beam
<1>2. CASE Close \/ Stop
  <2>1. /\ closed' = TRUE /\ stream' \in {stream, <<>>}
        /\ UNCHANGED <<beam, fLastEvent, fLastGatesNum, made>>
    BY <1>2 DEF Close, Stop, account
  <2>2. Counted'
    BY <1>t, <2>1 DEF StreamFacts, Counted, beam
  <2>3. CASE stream' = stream
    BY <1>t, <2>1, <2>2, <2>3 DEF StreamFacts, Stream, Pending, beam
  <2>4. CASE stream' = <<>>
    <3>1. stream' \in Seq(Message) /\ \A i : i \notin 1 .. Len(stream')
      BY <2>4
    <3>2. QED
      BY <2>1, <2>2, <2>4, <3>1 DEF Stream
  <2>5. QED
    BY <2>1, <2>3, <2>4
<1>3. ASSUME NEW t \in GateTypes, Gate(t) PROVE Stream' /\ Counted'
  <2>1. /\ UNCHANGED <<stream, closed, trigger, fLastEvent, fLastGatesNum, made>>
    BY <1>3 DEF Gate, socket, account
  <2>2. /\ gates' \in [GateTypes \cup {All} -> 0 .. MaxGates]
        /\ \A u \in GateTypes : gates'[u] <= gates'[All]
        /\ \A u \in GateTypes \cup {All} : gates[u] <= gates'[u]
    BY <1>3, GateCounts
  <2>3. /\ All \in GateTypes \cup {All} /\ \A k \in Kind : Counter(k[1]) \in GateTypes \cup {All}
        /\ \A c \in GateTypes \cup {All} : gates[c] \in Nat /\ gates'[c] \in Nat
        /\ fLastGatesNum[Every(All)] \in Nat /\ \A k \in Kind : fLastGatesNum[k] \in Nat
    BY <1>t, <2>2, KindFacts DEF StreamFacts, Counters
  <2>4. fLastGatesNum[Every(All)] <= gates'[All]
    BY <1>t, <2>2, <2>3 DEF StreamFacts, Counted
  <2>5. \A k \in Kind : fLastGatesNum[k] <= gates'[Counter(k[1])]
    BY <1>t, <2>2, <2>3 DEF StreamFacts, Counted
  <2>6. Counted'
    BY <1>t, <2>1, <2>2, <2>4, <2>5 DEF StreamFacts, Counted
  <2>7. ASSUME NEW m \in Message, Pending(m)
        PROVE  /\ m.gate_id \in fLastGatesNum[Every(All)] .. gates'[All]
               /\ m.own \in fLastGatesNum[m.kind] .. gates'[Counter(m.kind[1])]
    <3>1. m.kind \in Kind /\ m.gate_id \in 0 .. MaxGates /\ m.own \in 0 .. MaxGates
      BY DEF Message
    <3>2. QED
      BY <2>2, <2>3, <2>7, <3>1 DEF Pending
  <2>8. \A i \in 1 .. Len(stream) : stream[i] \in Message /\ Pending(stream[i])
    BY <1>t DEF StreamFacts, Stream
  <2>9. (\A i \in 1 .. Len(stream) : Pending(stream[i]))'
    BY <2>1, <2>7, <2>8 DEF Pending
  <2>10. QED
    BY <1>t, <2>1, <2>6, <2>9 DEF StreamFacts, Stream
<1>4. ASSUME NEW k \in Kind, SendTrigger(k) PROVE Stream' /\ Counted'
  <2>1. UNCHANGED <<gates, fLastEvent, fLastGatesNum, made>> /\ trigger' = trigger + 1
    BY <1>4 DEF SendTrigger, account
  <2>2. Counted'
    BY <1>t, <2>1 DEF StreamFacts, Counted
  <2>3. QED
    BY <1>4, <2>2, SendTriggerStep
<1>5. CASE Repeat
  <2>1. Counted'
    BY <1>t, <1>5 DEF Repeat, StreamFacts, Counted, beam, account
  <2>2. QED
    BY <1>5, <2>1, RepeatStep
<1>6. CASE MakeFragment
  BY <1>6, FragmentStep
<1>7. CASE ControllerAnswers \/ ControllerReady \/ Send \/ PollAnswer \/ PollTimesOut
           \/ Start \/ StopRequest \/ Deliver \/ Poll \/ ReadPiece
  <2>1. UNCHANGED <<beam, stream, closed, fLastEvent, fLastGatesNum, made>>
    BY <1>7 DEF ControllerAnswers, ControllerReady, Send, PollAnswer, PollTimesOut, Start,
                StopRequest, Deliver, Poll, ReadPiece, socket, account
  <2>2. QED
    BY <1>1, <2>1
<1>8. QED
  BY <1>2, <1>3, <1>4, <1>5, <1>6, <1>7 DEF Next, GetNext

-----------------------------------------------------------------------------
(* THE TYPES                                                               *)

(* What the conversation keeps.                                            *)
ConversationType ==
  /\ ctl \in {"fpga", "spexi", "final", "ready", "start", "run", "mutex", "stopped",
              "thrown", "aborted"}
  /\ sends \in 0 .. n_init_retries + 1 /\ polls \in 0 .. n_init_retries
  /\ requests \in Seq(Command) /\ answers \in Seq(Answer)
  /\ controller \subseteq {"fpga", "spexi", "ready", "start"}

(* Every step keeps the types of what start() uses.                        *)
LEMMA ConversationTypeStep ==
  ASSUME IInv, Next
  PROVE  ConversationType'
<1>t. ConversationType /\ n_init_retries \in Nat
  BY TriggerAssumption DEF IInv, TypeOK, ConversationType, Command, Answer
<1>1. CASE \/ Start \/ StopRequest \/ Stop \/ Repeat \/ Deliver \/ Close \/ GetNext
           \/ \E t \in GateTypes : Gate(t)
           \/ \E k \in Kind : SendTrigger(k)
  <2>1. ctl' \in {ctl, "start", "mutex", "stopped", "aborted"} /\ UNCHANGED protocol
    BY <1>1 DEF Start, StopRequest, Stop, Gate, SendTrigger, Repeat, Deliver, Close,
       GetNext, Poll, ReadPiece, MakeFragment
  <2>2. QED
    BY <1>t, <2>1 DEF ConversationType, protocol
<1>2. CASE ControllerAnswers
  <2>1. /\ Tail(requests) \in Seq(Command) /\ Head(requests) \in Command
    BY <1>2, <1>t, TailFacts DEF ControllerAnswers, ConversationType
  <2>2. \A x \in Answer : Append(answers, x) \in Seq(Answer)
    BY <1>t DEF ConversationType
  <2>3. /\ UNCHANGED <<ctl, sends, polls>> /\ requests' = Tail(requests)
        /\ \/ controller' = controller \cup {Head(requests)} /\ answers' = Append(answers, "1")
           \/ controller' = controller /\ answers' = Append(answers, "0")
    BY <1>2 DEF ControllerAnswers, Reply
  <2>4. QED
    BY <1>t, <2>1, <2>2, <2>3 DEF ConversationType, Command, Answer
<1>3. CASE ControllerReady
  <2>1. \A x \in Answer : Append(answers, x) \in Seq(Answer)
    BY <1>t DEF ConversationType
  <2>2. /\ UNCHANGED <<ctl, sends, polls, requests>> /\ controller' = controller \cup {"ready"}
        /\ answers' = Append(answers, "ready")
    BY <1>3 DEF ControllerReady, Reply
  <2>3. QED
    BY <1>t, <2>1, <2>2 DEF ConversationType, Answer
<1>4. CASE Send
  <2>1. ctl \in Command /\ \A x \in Command : Append(requests, x) \in Seq(Command)
    BY <1>4, <1>t DEF Send, Command, ConversationType
  <2>2. /\ UNCHANGED <<ctl, polls, answers, controller>> /\ requests' = Append(requests, ctl)
        /\ sends' = sends + 1 /\ sends \in {0, polls}
    BY <1>4 DEF Send
  <2>3. QED
    BY <1>t, <2>1, <2>2 DEF ConversationType
<1>5. CASE PollAnswer
  <2>1. PICK n \in DOMAIN answers : answers' = SubSeq(answers, n + 1, Len(answers))
    BY <1>5 DEF PollAnswer
  <2>2. answers' \in Seq(Answer)
    BY <1>t, <2>1, SubSeqFacts DEF ConversationType
  <2>3. /\ ctl' \in {"spexi", "final", "ready", "run", "thrown"} /\ sends' = 0 /\ polls' = 0
        /\ UNCHANGED <<requests, controller>>
    BY <1>5 DEF PollAnswer, Accepted, Goto, Waiting
  <2>4. QED
    BY <1>t, <2>2, <2>3 DEF ConversationType
<1>6. CASE PollTimesOut
  <2>1. UNCHANGED <<requests, answers, controller>>
    BY <1>6 DEF PollTimesOut
  <2>2. \/ ctl' = ctl /\ sends' = sends /\ polls' = polls + 1 /\ polls + 1 < n_init_retries + 1
        \/ ctl' \in {"aborted", "thrown"} /\ sends' = 0 /\ polls' = 0
    BY <1>6, <1>t DEF PollTimesOut, Goto, ConversationType
  <2>3. QED
    BY <1>t, <2>1, <2>2 DEF ConversationType
<1>7. QED
  BY <1>1, <1>2, <1>3, <1>4, <1>5, <1>6 DEF Next

(* The sockets, and how much of the first message has been read.           *)
SocketType ==
  /\ Len(stream) \in Nat /\ Len(stream) <= MaxPending /\ arrived \in 0 .. Pieces * Len(stream)
  /\ closed \in BOOLEAN /\ gn \in {"between", "reading", "over"} /\ got \in 0 .. arrived

(* Every step keeps the types of what getNext_ uses: it never reads more   *)
(* of a message than has arrived.                                          *)
LEMMA SocketTypeStep ==
  ASSUME IInv, Next
  PROVE  SocketType'
<1>t. SocketType /\ stream \in Seq(Message) /\ MaxPending \in Nat
  BY FactsHold DEF IInv, TypeOK, SocketType, Stream, StreamFacts
<1>1. CASE UNCHANGED <<socket, got>> /\ gn' \in {gn, "between"}
  BY <1>1, <1>t DEF SocketType, socket
<1>2. CASE Stop
  <2>1. got = 0 /\ got' = 0 /\ gn' = gn /\ arrived' = 0 /\ closed' = TRUE /\ stream' = <<>>
    BY <1>2 DEF Stop, IInv, Reading
  <2>2. Len(stream') = 0
    BY <2>1
  <2>3. QED
    BY <1>t, <2>1, <2>2 DEF SocketType, Pieces
<1>3. CASE Repeat \/ \E k \in Kind : SendTrigger(k)
  <2>1. /\ Len(stream) < MaxPending /\ UNCHANGED <<arrived, closed, gn, got>>
        /\ \E m : stream' = Append(stream, m)
    BY <1>3 DEF Repeat, SendTrigger
  <2>2. Stream'
    BY <1>3, RepeatStep, SendTriggerStep
  <2>3. PICK m : stream' = Append(stream, m)
    BY <2>1
  <2>4. Len(stream') = Len(stream) + 1
    BY <1>t, <2>3
  <2>5. QED
    BY <1>t, <2>1, <2>4 DEF SocketType, Pieces
<1>4. CASE Deliver
  BY <1>4, <1>t DEF Deliver, SocketType, Pieces
<1>5. CASE Close
  BY <1>5, <1>t DEF Close, SocketType
<1>6. CASE Poll
  BY <1>6, <1>t DEF Poll, SocketType, socket
<1>7. CASE ReadPiece
  BY <1>7, <1>t DEF ReadPiece, SocketType, socket
<1>8. CASE MakeFragment
  <2>1. Len(stream') = Len(stream) - 1 /\ Len(stream) \in Nat \ {0}
    BY <1>8, ReadWhole DEF MakeFragment
  <2>2. got = 3 /\ got' = 0 /\ arrived' = arrived - got /\ gn' = "between" /\ closed' = closed
    BY <1>8 DEF MakeFragment, Pieces
  <2>3. QED
    BY <1>t, <2>1, <2>2 DEF SocketType, Pieces
<1>9. QED
  BY <1>1, <1>2, <1>3, <1>4, <1>5, <1>6, <1>7, <1>8
     DEF Next, GetNext, ControllerAnswers, ControllerReady, Send, PollAnswer, PollTimesOut,
         Start, StopRequest, Gate, socket

-----------------------------------------------------------------------------
(* THE COUNTS                                                              *)

Totals == Kind \cup {Every(t) : t \in GateTypes}

CountersType ==
  /\ gates \in [GateTypes \cup {All} -> 0 .. MaxGates] /\ trigger \in 0 .. MaxTriggers
  /\ fLastEvent \in 0 .. MaxTriggers /\ made \in Nat
  /\ fLastGatesNum \in [Counters -> 0 .. MaxGates]
  /\ fDeltaGates \in [Counters -> Nat]
  /\ fTotalTrigger \in [Totals -> Nat] /\ fTotalGates \in [Kind -> Nat]

(* The slots of the totals are all different.                              *)
LEMMA SlotFacts ==
  /\ \A t : Every(t) \notin Kind
  /\ \A t, u : Every(t) = Every(u) => t = u
  /\ \A t \in Type : <<t, "Majority">> \in Kind /\ <<t, "Minbias">> \in Kind
  /\ \A t : <<t, "Majority">> # <<t, "Minbias">> /\ Every(t) # <<t, "Majority">>
           /\ Every(t) # <<t, "Minbias">>
  /\ GateTypes \subseteq Type
BY DEF Kind, Every, Type

(* What an accounted message adds is never negative, and what is counted   *)
(* for a kind of trigger is what its last message says.                    *)
LEMMA AccountStep ==
  ASSUME IInv, MakeFragment, NEW k, k = message.kind, Account(k)
  PROVE  /\ fDeltaGates' \in [Counters -> Nat]
         /\ fTotalTrigger' \in [Totals -> Nat] /\ fTotalGates' \in [Kind -> Nat]
         /\ GatesAddUp' /\ TotalsAgree'
<1>t. /\ CountersType /\ StreamFacts /\ GatesAddUp /\ TotalsAgree
      /\ Garbage \subseteq Nat
  BY FactsHold, TriggerAssumption DEF IInv, TypeOK, CountersType, Counters, Totals
<1> DEFINE m == message
           delta == m.own - fLastGatesNum[k]
           deltaAll == m.gate_id - fLastGatesNum[Every(All)]
           counted == {k} \cup (IF k[1] \in GateTypes THEN {Every(k[1])} ELSE {})
<1>1. /\ k \in Kind /\ Pending(m) /\ m.own \in Nat /\ m.gate_id \in Nat
  BY <1>t, ReadWhole DEF Message, StreamFacts
<1>2. k[1] \in Type /\ k[2] \in {"Majority", "Minbias"} /\ k = <<k[1], k[2]>>
  BY <1>1, KindFacts
<1>3. /\ fLastGatesNum[k] \in Nat /\ fLastGatesNum[Every(All)] \in Nat
  BY <1>t, <1>1 DEF CountersType, Counters
<1>4. delta \in Nat /\ deltaAll \in Nat
  BY <1>1, <1>3 DEF Pending
<1>5. /\ fDeltaGates' = [fDeltaGates EXCEPT ![Every(All)] = deltaAll, ![k] = delta]
      /\ fLastGatesNum' = [fLastGatesNum EXCEPT ![Every(All)] = m.gate_id, ![k] = m.own]
      /\ fTotalTrigger' = [x \in DOMAIN fTotalTrigger |->
                             fTotalTrigger[x] + (IF x \in counted THEN 1 ELSE 0)]
      /\ fTotalGates' = [fTotalGates EXCEPT ![k] = fTotalGates[k] + GatesOf(k, delta)]
  BY DEF Account, Since
<1>c. /\ k \in counted
      /\ \A x \in Totals : x \in counted <=> x = k \/ (k[1] \in GateTypes /\ x = Every(k[1]))
  OBVIOUS
<1> HIDE DEF m, delta, deltaAll, counted
<1>6. fDeltaGates' \in [Counters -> Nat]
  BY <1>t, <1>4, <1>5 DEF CountersType
<1>7. \A x \in Totals : /\ fTotalTrigger[x] \in Nat
                        /\ fTotalTrigger'[x] = fTotalTrigger[x] + (IF x \in counted THEN 1 ELSE 0)
  BY <1>t, <1>5 DEF CountersType
<1>8. fTotalTrigger' \in [Totals -> Nat]
  <2>1. fTotalTrigger' = [x \in Totals |-> fTotalTrigger[x] + (IF x \in counted THEN 1 ELSE 0)]
    BY <1>t, <1>5 DEF CountersType
  <2>2. \A x \in Totals : fTotalTrigger[x] + (IF x \in counted THEN 1 ELSE 0) \in Nat
    BY <1>7
  <2>3. QED
    BY <2>1, <2>2
<1>9. GatesOf(k, delta) \in Nat /\ (k[2] = "Majority" => GatesOf(k, delta) = delta)
  BY <1>4 DEF GatesOf
<1>10. fTotalGates' \in [Kind -> Nat]
  BY <1>t, <1>1, <1>5, <1>9 DEF CountersType
<1>11. GatesAddUp'
  <2>1. PICK g \in Garbage : \A t \in Type :
          fTotalGates[<<t, "Majority">>] = g + fLastGatesNum[<<t, "Majority">>]
    BY <1>t DEF GatesAddUp
  <2>2. ASSUME NEW t \in Type
        PROVE  fTotalGates'[<<t, "Majority">>] = g + fLastGatesNum'[<<t, "Majority">>]
    <3>1. <<t, "Majority">> \in Kind /\ <<t, "Majority">> # Every(All)
      BY SlotFacts
    <3>2. CASE k = <<t, "Majority">>
      <4>1. k[2] = "Majority"
        BY <3>2
      <4>2. fTotalGates'[k] = fTotalGates[k] + delta /\ fLastGatesNum'[k] = m.own
        BY <1>t, <1>1, <1>5, <1>9, <3>1, <3>2, <4>1 DEF CountersType, Counters
      <4>3. fTotalGates[k] = g + fLastGatesNum[k] /\ g \in Nat
        BY <1>t, <2>1, <3>2
      <4>4. QED
        BY <1>1, <1>3, <3>2, <4>2, <4>3 DEF delta, m
    <3>3. CASE k # <<t, "Majority">>
      BY <1>t, <1>5, <2>1, <3>1, <3>3 DEF CountersType, Counters
    <3>4. QED
      BY <3>2, <3>3
  <2>3. QED
    BY <2>2 DEF GatesAddUp
<1>12. TotalsAgree'
  <2>1. PICK g \in Garbage : \A t \in GateTypes :
          fTotalTrigger[Every(t)] =
            g + fTotalTrigger[<<t, "Majority">>] + fTotalTrigger[<<t, "Minbias">>]
    BY <1>t DEF TotalsAgree
  <2>2. ASSUME NEW t \in GateTypes
        PROVE  fTotalTrigger'[Every(t)] =
                 g + fTotalTrigger'[<<t, "Majority">>] + fTotalTrigger'[<<t, "Minbias">>]
    <3> DEFINE a == <<t, "Majority">>
               b == <<t, "Minbias">>
               e == Every(t)
    <3>1. a \in Kind /\ b \in Kind /\ e \notin Kind /\ a # b /\ e \in Totals
      BY SlotFacts DEF Totals
    <3>2. e \in counted <=> k[1] = t
      BY <1>1, <1>c, <3>1, SlotFacts
    <3>3. a \in Totals /\ b \in Totals /\ (a \in counted <=> k = a) /\ (b \in counted <=> k = b)
      BY <1>c, <3>1, SlotFacts DEF Totals
    <3>4. k[1] = t <=> k = a \/ k = b
      BY <1>2
    <3> HIDE DEF a, b, e
    <3>5. /\ fTotalTrigger[e] = g + fTotalTrigger[a] + fTotalTrigger[b] /\ g \in Nat
      BY <1>t, <2>1 DEF a, b, e
    <3>6. fTotalTrigger'[e] = g + fTotalTrigger'[a] + fTotalTrigger'[b]
      BY <1>7, <3>1, <3>2, <3>3, <3>4, <3>5
    <3>7. QED
      BY <3>6 DEF a, b, e
  <2>3. QED
    BY <2>2 DEF TotalsAgree
<1>13. QED
  BY <1>6, <1>8, <1>10, <1>11, <1>12

(* Every step keeps the accounts of gates: those of a trigger and those    *)
(* before it add up to what its message says, and the totals to all.       *)
LEMMA CountersStep ==
  ASSUME IInv, Next
  PROVE  CountersType' /\ GatesAddUp' /\ TotalsAgree'
<1>t. CountersType /\ StreamFacts /\ GatesAddUp /\ TotalsAgree
  BY FactsHold DEF IInv, TypeOK, CountersType, Counters, Totals
<1>1. CASE UNCHANGED <<beam, account>>
  BY <1>1, <1>t DEF CountersType, GatesAddUp, TotalsAgree, beam, account
<1>2. ASSUME NEW t \in GateTypes, Gate(t) PROVE CountersType' /\ GatesAddUp' /\ TotalsAgree'
  <2>1. gates' \in [GateTypes \cup {All} -> 0 .. MaxGates]
    BY <1>2, GateCounts
  <2>2. UNCHANGED <<trigger, account>>
    BY <1>2 DEF Gate
  <2>3. QED
    BY <1>t, <2>1, <2>2 DEF CountersType, GatesAddUp, TotalsAgree, account
<1>3. ASSUME NEW k \in Kind, SendTrigger(k) PROVE CountersType' /\ GatesAddUp' /\ TotalsAgree'
  <2>1. /\ trigger < MaxTriggers /\ trigger' = trigger + 1 /\ UNCHANGED <<gates, account>>
    BY <1>3 DEF SendTrigger
  <2>2. trigger' \in 0 .. MaxTriggers
    BY <1>t, <2>1 DEF StreamFacts
  <2>3. QED
    BY <1>t, <2>1, <2>2 DEF CountersType, GatesAddUp, TotalsAgree, account
<1>4. CASE MakeFragment
  <2>1. Counted' /\ fLastGatesNum' \in [Counters -> 0 .. MaxGates]
    BY <1>4, FragmentStep
  <2>2. UNCHANGED beam /\ IF IsNew THEN Account(message.kind) ELSE UNCHANGED account
    BY <1>4 DEF MakeFragment
  <2>3. /\ fDeltaGates' \in [Counters -> Nat]
        /\ fTotalTrigger' \in [Totals -> Nat] /\ fTotalGates' \in [Kind -> Nat]
        /\ GatesAddUp' /\ TotalsAgree'
    <3>1. CASE IsNew
      BY <1>4, <2>2, <3>1, AccountStep
    <3>2. CASE ~IsNew
      BY <1>t, <2>2, <3>2 DEF CountersType, GatesAddUp, TotalsAgree, account
    <3>3. QED
      BY <3>1, <3>2
  <2>4. fLastEvent' \in Nat
    <3>1. message \in Message
      BY <1>4, ReadWhole
    <3>2. message.event \in Nat
      BY <1>t, <3>1 DEF Message, StreamFacts
    <3>3. fLastEvent' \in {message.event, fLastEvent}
      BY <2>2 DEF Account, account
    <3>4. QED
      BY <1>t, <3>2, <3>3 DEF StreamFacts
  <2>5. fLastEvent' \in 0 .. MaxTriggers /\ made' \in Nat
    BY <1>t, <2>1, <2>2, <2>4 DEF StreamFacts, Counted, beam
  <2>6. QED
    BY <1>t, <2>1, <2>2, <2>3, <2>5 DEF CountersType, beam
<1>5. QED
  BY <1>1, <1>2, <1>3, <1>4 DEF Next, GetNext, ControllerAnswers, ControllerReady, Send,
     PollAnswer, PollTimesOut, Start, StopRequest, Stop, Repeat, Deliver, Close, Poll, ReadPiece

-----------------------------------------------------------------------------
(* THEOREMS                                                                *)

(* The initial states.                                                     *)
LEMMA InitIInv == Init => IInv
<1> SUFFICES ASSUME Init PROVE IInv
  OBVIOUS
<1>1. /\ {n_init_retries, MaxGates, MaxTriggers, MaxPending} \subseteq Nat /\ Garbage \subseteq Nat
  BY TriggerAssumption
<1>2. PICK g \in Garbage :
        /\ fTotalTrigger = [k \in Kind \cup {Every(t) : t \in GateTypes} |-> IF k \in Kind THEN 0 ELSE g]
        /\ fTotalGates = [k \in Kind |-> g]
  BY DEF Init
<1>3. g \in Nat
  BY <1>1
<1>4. /\ stream = <<>> /\ Len(stream) = 0 /\ stream \in Seq(Message)
      /\ \A i : i \notin 1 .. Len(stream)
  BY DEF Init
<1>5. TypeOK
  <2>1. /\ \A k \in Kind \cup {Every(All)} : fLastGatesNum[k] = 0 /\ fDeltaGates[k] = 0
        /\ fLastGatesNum \in [Counters -> 0 .. MaxGates] /\ fDeltaGates \in [Counters -> Nat]
        /\ gates \in [GateTypes \cup {All} -> 0 .. MaxGates]
    BY <1>1 DEF Init, Counters
  <2>2. /\ fTotalTrigger \in [Totals -> Nat] /\ fTotalGates \in [Kind -> Nat]
    BY <1>2, <1>3 DEF Totals
  <2>3. /\ <<>> \in Seq(Command) /\ <<>> \in Seq(Answer)
    OBVIOUS
  <2>4. ConversationType
    BY <1>1, <2>3 DEF Init, ConversationType
  <2>5. SocketType
    <3>1. arrived = 0 /\ closed = FALSE /\ gn = "over" /\ got = 0
      BY DEF Init
    <3>2. MaxPending \in Nat
      BY <1>1
    <3>3. Len(stream) = 0 /\ 0 \in 0 .. 0 /\ 3 * 0 = 0 /\ Pieces = 3
      BY <1>4 DEF Pieces
    <3>4. arrived \in 0 .. Pieces * Len(stream) /\ got \in 0 .. arrived
      BY <3>1, <3>3
    <3>5. Len(stream) \in Nat /\ Len(stream) <= MaxPending
      BY <3>2, <3>3
    <3>6. closed \in BOOLEAN /\ gn \in {"between", "reading", "over"}
      BY <3>1, Zenon
    <3>7. QED
      BY <3>4, <3>5, <3>6 DEF SocketType
  <2>6. CountersType
    BY <1>1, <2>1, <2>2 DEF Init, CountersType
  <2>7. QED
    BY <2>4, <2>5, <2>6 DEF TypeOK, ConversationType, SocketType, CountersType, Command, Answer,
       Counters, Totals
<1>6. Conversation /\ Reading
  BY DEF Init, Conversation, Asked, Reading
<1>7. Counted
  <2>1. \A k \in Kind : Counter(k[1]) \in GateTypes \cup {All}
    BY KindFacts
  <2>2. QED
    BY <1>1, <2>1 DEF Init, Counted
<1>8. Stream
  BY <1>4 DEF Init, Stream
<1>9. GatesAddUp
  <2>1. \A t \in Type : fTotalGates[<<t, "Majority">>] = g + fLastGatesNum[<<t, "Majority">>]
    <3>1. ASSUME NEW k \in Kind PROVE fTotalGates[k] = g /\ fLastGatesNum[k] = 0
      <4>1. fLastGatesNum = [j \in Kind \cup {Every(All)} |-> 0]
        BY DEF Init
      <4>2. QED
        BY <1>2, <4>1
    <3>2. ASSUME NEW t \in Type
          PROVE  fTotalGates[<<t, "Majority">>] = g + fLastGatesNum[<<t, "Majority">>]
      <4>1. <<t, "Majority">> \in Kind
        BY SlotFacts
      <4> DEFINE k == <<t, "Majority">>
      <4> HIDE DEF k
      <4>2. fTotalGates[k] = g + fLastGatesNum[k]
        BY <1>3, <3>1, <4>1 DEF k
      <4>3. QED
        BY <4>2 DEF k
    <3>3. QED
      BY <3>2
  <2>2. QED
    BY <2>1 DEF GatesAddUp
<1>10. TotalsAgree
  BY <1>2, <1>3, SlotFacts DEF TotalsAgree
<1>11. QED
  BY <1>5, <1>6, <1>7, <1>8, <1>9, <1>10 DEF IInv

(* Every step keeps the invariant.                                         *)
LEMMA NextIInv == IInv /\ [Next]_vars => IInv'
<1> SUFFICES ASSUME IInv, [Next]_vars PROVE IInv'
  OBVIOUS
<1>1. CASE Next
  <2>1. Conversation' /\ Reading' /\ Stream' /\ Counted'
    BY <1>1, ConversationStep, StreamStep
  <2>2. ConversationType' /\ SocketType' /\ CountersType' /\ GatesAddUp' /\ TotalsAgree'
    BY <1>1, ConversationTypeStep, SocketTypeStep, CountersStep
  <2>3. TypeOK'
    BY <2>2 DEF TypeOK, ConversationType, SocketType, CountersType, Command, Answer,
                Counters, Totals
  <2>4. QED
    BY <2>1, <2>2, <2>3 DEF IInv
<1>2. CASE UNCHANGED vars
  <2>1. TypeOK'
    BY <1>2 DEF vars, protocol, beam, socket, account, IInv, TypeOK
  <2>2. Conversation' /\ Reading'
    BY <1>2 DEF vars, protocol, IInv, Conversation, Asked, Reading
  <2>3. Stream' /\ Counted'
    BY <1>2 DEF vars, beam, socket, account, IInv, Stream, Pending, Counted
  <2>4. GatesAddUp' /\ TotalsAgree'
    BY <1>2 DEF vars, account, IInv, GatesAddUp, TotalsAgree
  <2>5. QED
    BY <2>1, <2>2, <2>3, <2>4 DEF IInv
<1>3. QED
  BY <1>1, <1>2

(* The inductive invariant holds in every run, whatever the gates, the     *)
(* triggers, their repetitions and the pieces they arrive in.              *)
THEOREM Invariance == Spec => []IInv
BY InitIInv, NextIInv, PTL DEF Spec

(* Every trigger the board sends, in any number of copies and pieces,      *)
(* becomes exactly one fragment, in order; the gates counted for the       *)
(* majority triggers of each type are the gates that came, and the totals  *)
(* of getNext_ (lines 400-520) agree; data taking starts only with a       *)
(* controller that has accepted what start() needs.                        *)
THEOREM TriggersAccountedFor == Spec => []Inv
<1>1. IInv => Inv
  <2> SUFFICES ASSUME IInv PROVE Inv
    OBVIOUS
  <2>1. StreamFacts
    BY FactsHold
  <2>2. OneFragmentPerTrigger
    <3>1. \A i \in DOMAIN stream : stream[i].event \in fLastEvent .. trigger
      BY <2>1 DEF StreamFacts, Stream, Pending
    <3>2. stream # <<>> => Head(stream).event <= fLastEvent + 1
      BY <2>1, TailFacts DEF StreamFacts, Stream
    <3>3. QED
      BY <2>1, <3>1, <3>2 DEF StreamFacts, Counted, OneFragmentPerTrigger
  <2>3. ConfiguredBeforeRun
    BY DEF IInv, Conversation, Set_up, ConfiguredBeforeRun
  <2>4. QED
    BY <2>2, <2>3 DEF IInv, Inv
<1>2. QED
  BY <1>1, Invariance, PTL
=============================================================================
