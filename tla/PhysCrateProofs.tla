---------------------------- MODULE PhysCrateProofs ----------------------------
(***************************************************************************)
(* Proofs about PhysCrate, for any number of boards, depth of their stores,*)
(* capacity of the circular buffer and number of failing transfers.        *)
(***************************************************************************)
EXTENDS PhysCrate, FiniteSetTheorems, SequenceTheorems, TLAPS

-----------------------------------------------------------------------------
(* What makes the safety properties inductive.                             *)

(* The number that the boards gave n events ago (0 for the next event), and*)
(* how long ago an event number was given last.                            *)
Ago(n) == IF n <= nextEvent THEN nextEvent - n ELSE nextEvent + Events - n
Age(e) == IF e < nextEvent THEN nextEvent - e ELSE nextEvent + Events - e

(* The tiles on the way to getNext_, and the one that GetData reads next.  *)
Tiles == IF getData = "insert" THEN Append(buffer, tilebuf) ELSE buffer
InRound == getData \in {"dataAvail", "insert"}
NextBoard == IF InRound /\ presBoard <= nBoards THEN presBoard ELSE 1
NextTile == [board |-> NextBoard, event |-> Ago(Len(stored[NextBoard]))]
Coming == Append(Tiles, NextTile)

(* Where the threads are.                                                  *)
Threads ==
  /\ ctl \in {"flag", "mutex", "joinGetNext", "idle"} => getData = "off"
  /\ ctl \in {"idle", "monitor"} => gn = "over"
  /\ getData = "waitData" => presBoard = 1
  /\ getData = "insert" => presBoard = tilebuf.board + 1

(* A board stores its last events in order.                                *)
Kept ==
  /\ stored \in [Board -> Seq(Event)]
  /\ \A b \in Board : \A i \in 1 .. Len(stored[b]) :
       stored[b][i] = Ago(Len(stored[b]) + 1 - i)

(* A tile is older than what its board has stored, and so are, from tile   *)
(* to tile of a board, the tiles before it: but not so old that the event  *)
(* number may have been given again.                                       *)
Aged ==
  /\ \A p \in 1 .. Len(Tiles) :
       /\ Age(Tiles[p].event) > Len(stored[Tiles[p].board])
       /\ Age(Tiles[p].event) <= Len(stored[Tiles[p].board]) + lost + 1 + Len(Tiles) - p
  /\ \A p, q \in 1 .. Len(Tiles) :
       p < q /\ Tiles[p].board = Tiles[q].board => Age(Tiles[p].event) > Age(Tiles[q].event)

(* Tiles of one board that are of different events.                        *)
Different(s) ==
  \A p, q \in 1 .. Len(s) : p < q /\ s[p].board = s[q].board => s[p].event # s[q].event

(* What getNext_ holds.                                                    *)
Taking ==
  /\ gn = "look" => iBoard <= Len(buffer)
  /\ gn \in {"copy", "erase"} => Len(buffer) >= nBoards
  /\ gn = "erase" => Len(frag) = nBoards /\ \A k \in 1 .. nBoards : frag[k] = buffer[k]
  /\ gn = "check" => Len(frag) = nBoards /\ Different(frag)

(* While no transfer has failed: every board has been read equally often,  *)
(* but for the round in progress ...                                       *)
Round(b) == IF InRound /\ b < presBoard THEN 1 ELSE 0

Lockstep ==
  lost = 0 => \A b, c \in Board : Len(stored[b]) + Round(b) = Len(stored[c]) + Round(c)

(* ... and the tiles on the way are rounds of the boards, event by event.  *)
After(t) ==
  IF t.board < nBoards THEN [board |-> t.board + 1, event |-> t.event]
                       ELSE [board |-> 1, event |-> Following(t.event)]

Rounds(s) ==
  /\ s[1].board = 1
  /\ \A p \in 1 .. Len(s) :
       /\ p > 1 => s[p] = After(s[p - 1])
       /\ p <= nBoards => s[p] = [board |-> p, event |-> s[1].event]
       /\ p > nBoards =>
            s[p] = [board |-> s[p - nBoards].board, event |-> Following(s[p - nBoards].event)]

(* What is sent, checked and on the way follow on each other.              *)
Follows ==
  /\ gn = "check" =>
       /\ \A j \in 1 .. nBoards : frag[j].event = frag[1].event
       /\ Coming[1].event = Following(frag[1].event)
  /\ sent # <<>> /\ ctl # "monitor" =>
       Following(sent[1].event) = IF gn = "check" THEN frag[1].event ELSE Coming[1].event

InStep == lost = 0 => Rounds(Coming) /\ Follows

IInv ==
  /\ TypeOK /\ Threads /\ Kept /\ Aged /\ Taking /\ FragmentsWhole
  /\ Lockstep /\ InStep

-----------------------------------------------------------------------------
(* LEMMAS: SEQUENCES AND EVENT NUMBERS                                     *)

(* Types and bounds of the constants.                                      *)
LEMMA Constants ==
  /\ nBoards \in Nat \ {0} /\ BoardDepth \in Nat \ {0} /\ Capacity \in Nat /\ MaxLost \in Nat
  /\ Capacity >= nBoards /\ Events \in Nat /\ Events > BoardDepth + Capacity + MaxLost
  /\ IssueStart \in BOOLEAN
BY CrateAssumption

(* A sequence with a member behind it.                                     *)
LEMMA AppendFacts ==
  ASSUME NEW S, NEW s \in Seq(S), NEW x \in S
  PROVE  /\ Len(s) \in Nat
         /\ Append(s, x) \in Seq(S) /\ Len(Append(s, x)) = Len(s) + 1
         /\ \A k \in 1 .. Len(s) : Append(s, x)[k] = s[k]
         /\ Append(s, x)[Len(s) + 1] = x
OBVIOUS

(* A sequence without its first member.                                    *)
LEMMA TailFacts ==
  ASSUME NEW S, NEW s \in Seq(S), s # <<>>
  PROVE  /\ Len(s) \in Nat \ {0} /\ Head(s) = s[1] /\ s[1] \in S
         /\ Tail(s) \in Seq(S) /\ Len(Tail(s)) = Len(s) - 1
         /\ \A k \in 1 .. Len(s) - 1 : Tail(s)[k] = s[k + 1]
OBVIOUS

(* The first m members of a sequence, and the others.                      *)
LEMMA CutFacts ==
  ASSUME NEW S, NEW s \in Seq(S), NEW m \in Nat, m <= Len(s)
  PROVE  /\ SubSeq(s, 1, m) \in Seq(S) /\ Len(SubSeq(s, 1, m)) = m
         /\ \A k \in 1 .. m : SubSeq(s, 1, m)[k] = s[k]
         /\ SubSeq(s, m + 1, Len(s)) \in Seq(S) /\ Len(SubSeq(s, m + 1, Len(s))) = Len(s) - m
         /\ \A k \in 1 .. Len(s) - m : SubSeq(s, m + 1, Len(s))[k] = s[m + k]
<1>1. Len(s) \in Nat /\ \A k \in 1 .. Len(s) : s[k] \in S
  OBVIOUS
<1>2. /\ SubSeq(s, 1, m) \in Seq(S) /\ Len(SubSeq(s, 1, m)) = m
      /\ \A k \in 1 .. m : SubSeq(s, 1, m)[k] = s[k]
  <2>1. \A k \in 1 .. m : s[k] \in S
    BY <1>1
  <2>2. /\ SubSeq(s, 1, m) \in Seq(S)
        /\ Len(SubSeq(s, 1, m)) = IF 1 <= m THEN m - 1 + 1 ELSE 0
        /\ \A k \in 1 .. m - 1 + 1 : SubSeq(s, 1, m)[k] = s[1 + k - 1]
    BY <2>1, SubSeqProperties
  <2>3. QED
    BY <2>2
<1>3. /\ SubSeq(s, m + 1, Len(s)) \in Seq(S) /\ Len(SubSeq(s, m + 1, Len(s))) = Len(s) - m
      /\ \A k \in 1 .. Len(s) - m : SubSeq(s, m + 1, Len(s))[k] = s[m + k]
  <2>1. \A k \in m + 1 .. Len(s) : s[k] \in S
    BY <1>1
  <2>2. /\ SubSeq(s, m + 1, Len(s)) \in Seq(S)
        /\ Len(SubSeq(s, m + 1, Len(s))) =
             IF m + 1 <= Len(s) THEN Len(s) - (m + 1) + 1 ELSE 0
        /\ \A k \in 1 .. Len(s) - (m + 1) + 1 :
             SubSeq(s, m + 1, Len(s))[k] = s[(m + 1) + k - 1]
    BY <1>1, <2>1, SubSeqProperties
  <2>3. QED
    BY <1>1, <2>2
<1>4. QED
  BY <1>2, <1>3

(* The event counter of the boards wraps.                                  *)
LEMMA FollowingFacts ==
  \A e \in Event : /\ Following(e) = IF e = Events - 1 THEN 0 ELSE e + 1
                   /\ Following(e) \in Event
<1> SUFFICES ASSUME NEW e \in Event
             PROVE  /\ Following(e) = IF e = Events - 1 THEN 0 ELSE e + 1
                    /\ Following(e) \in Event
  OBVIOUS
<1>1. Events \in Nat \ {0} /\ e \in Nat /\ e < Events
  BY Constants DEF Event
<1>2. CASE e = Events - 1
  <2>1. Following(e) = Events % Events
    BY <1>1, <1>2 DEF Following
  <2>2. Events % Events = 0
    BY <1>1
  <2>3. QED
    BY <1>1, <1>2, <2>1, <2>2 DEF Event
<1>3. CASE e # Events - 1
  <2>1. (e + 1) % Events = e + 1
    BY <1>1, <1>3
  <2>2. QED
    BY <1>1, <1>3, <2>1 DEF Following, Event
<1>4. QED
  BY <1>2, <1>3

(* Ago and Age are inverse to each other, except for the next event, whose *)
(* number was last given a whole range of numbers ago.                     *)
LEMMA AgoFacts ==
  ASSUME nextEvent \in Event
  PROVE  /\ Ago(0) = nextEvent
         /\ \A n \in Event : Ago(n) \in Event /\ (n > 0 => Age(Ago(n)) = n)
         /\ \A n \in Nat : n + 1 < Events => Following(Ago(n + 1)) = Ago(n)
         /\ \A e \in Event : Age(e) \in 1 .. Events
BY Constants, FollowingFacts DEF Ago, Age, Event

(* A trigger makes everything one event older.                             *)
LEMMA OneOlder ==
  ASSUME nextEvent \in Event, nextEvent' = Following(nextEvent)
  PROVE  /\ \A n \in Nat : n + 1 < Events => Ago(n + 1)' = Ago(n)
         /\ \A e \in Event : Age(e) < Events => Age(e)' = Age(e) + 1
BY Constants, FollowingFacts DEF Ago, Age, Event

-----------------------------------------------------------------------------
(* TYPES, THREADS, AND WHAT THE BOARDS STORE                               *)

(* What the proofs below need of a state.                                  *)
CrateFacts ==
  /\ stored \in [Board -> Seq(Event)] /\ \A b \in Board : Len(stored[b]) \in 0 .. BoardDepth
  /\ nextEvent \in Event /\ lost \in 0 .. MaxLost
  /\ presBoard \in 1 .. nBoards + 1 /\ tilebuf \in Tile
  /\ buffer \in Seq(Tile) /\ Len(buffer) \in 0 .. Capacity
  /\ Tiles \in Seq(Tile) /\ Len(Tiles) \in Len(buffer) .. Len(buffer) + 1
  /\ \A p \in 1 .. Len(buffer) : Tiles[p] = buffer[p]
  /\ \A p \in 1 .. Len(Tiles) : Tiles[p] \in Tile

(* They hold with the invariant.                                           *)
LEMMA FactsHold == IInv => CrateFacts
<1> SUFFICES ASSUME IInv PROVE CrateFacts
  OBVIOUS
<1>1. /\ buffer \in Seq(Tile) /\ tilebuf \in Tile /\ Len(buffer) \in 0 .. Capacity
      /\ stored \in [Board -> Seq(Event)] /\ nextEvent \in Event /\ lost \in 0 .. MaxLost
      /\ \A b \in Board : Len(stored[b]) \in 0 .. BoardDepth
      /\ presBoard \in 1 .. nBoards + 1
  BY Constants DEF IInv, TypeOK, Kept
<1>2. /\ Tiles \in Seq(Tile) /\ Len(Tiles) \in Len(buffer) .. Len(buffer) + 1
      /\ \A p \in 1 .. Len(buffer) : Tiles[p] = buffer[p]
  BY <1>1, AppendFacts DEF Tiles
<1>3. \A p \in 1 .. Len(Tiles) : Tiles[p] \in Tile
  BY <1>2
<1>4. QED
  BY <1>1, <1>2, <1>3 DEF CrateFacts

(* What the steps of the threads do to the tiles on the way.               *)
LEMMA TilesSteps ==
  ASSUME IInv
  PROVE  /\ Trigger \/ StopRequest \/ Control \/ Check \/ waitData \/ ReadNothing \/ AllRead \/ Insert
            => Tiles' = Tiles
         /\ Call \/ Look \/ Copy \/ Deliver \/ Inconsistent => Tiles' = Tiles
         /\ Start => Tiles' = <<>>
         /\ ReadTile => Tiles = buffer /\ Tiles' = Append(Tiles, tilebuf')
BY DEF Tiles, Trigger, StartMonitor, Stopping, StopRequest, Control, Check, waitData, ReadNothing,
   AllRead, Insert, Call, Look, Copy, Deliver, Inconsistent, Start, ReadTile, thread, control, getNext

(* getNext_ takes one tile for each board from the front.                  *)
LEMMA TilesErase ==
  ASSUME IInv, Erase
  PROVE  /\ nBoards <= Len(Tiles) /\ Tiles' \in Seq(Tile) /\ Len(Tiles') = Len(Tiles) - nBoards
         /\ \A p \in 1 .. Len(Tiles) - nBoards : Tiles'[p] = Tiles[nBoards + p]
<1>1. CrateFacts
  BY FactsHold
<1>2. /\ nBoards <= Len(buffer) /\ buffer' = SubSeq(buffer, nBoards + 1, Len(buffer))
      /\ UNCHANGED <<getData, tilebuf>>
  BY DEF Erase, IInv, Taking, thread
<1>3. /\ buffer' \in Seq(Tile) /\ Len(buffer') = Len(buffer) - nBoards
      /\ \A k \in 1 .. Len(buffer) - nBoards : buffer'[k] = buffer[nBoards + k]
  <2>1. buffer \in Seq(Tile) /\ nBoards \in Nat /\ nBoards <= Len(buffer)
    BY <1>1, <1>2, Constants DEF CrateFacts
  <2>2. QED
    BY <1>2, <2>1, CutFacts
<1>4. CASE getData # "insert"
  <2>1. Tiles = buffer /\ Tiles' = buffer'
    BY <1>2, <1>4 DEF Tiles
  <2>2. QED
    BY <1>2, <1>3, <2>1
<1>5. CASE getData = "insert"
  <2>1. Tiles = Append(buffer, tilebuf) /\ Tiles' = Append(buffer', tilebuf)
    BY <1>2, <1>5 DEF Tiles
  <2>2. /\ Len(buffer) \in Nat /\ Len(Tiles) = Len(buffer) + 1 /\ Tiles[Len(buffer) + 1] = tilebuf
        /\ \A k \in 1 .. Len(buffer) : Tiles[k] = buffer[k]
    BY <1>1, <2>1, AppendFacts DEF CrateFacts
  <2>3. /\ Tiles' \in Seq(Tile) /\ Len(Tiles') = Len(buffer') + 1
        /\ Tiles'[Len(buffer') + 1] = tilebuf
        /\ \A k \in 1 .. Len(buffer') : Tiles'[k] = buffer'[k]
    BY <1>1, <1>3, <2>1, AppendFacts DEF CrateFacts
  <2>4. ASSUME NEW p \in 1 .. Len(Tiles) - nBoards PROVE Tiles'[p] = Tiles[nBoards + p]
    <3>1. CASE p = Len(buffer) + 1 - nBoards
      BY <1>1, <1>3, <2>2, <2>3, <3>1, Constants
    <3>2. CASE p # Len(buffer) + 1 - nBoards
      <4>1. p \in 1 .. Len(buffer) - nBoards /\ nBoards + p \in 1 .. Len(buffer)
        BY <1>2, <2>2, <3>2, Constants
      <4>2. QED
        BY <1>3, <2>2, <2>3, <4>1
    <3>3. QED
      BY <3>1, <3>2
  <2>5. nBoards <= Len(Tiles) /\ Len(Tiles') = Len(Tiles) - nBoards
    BY <1>2, <1>3, <2>2, <2>3, Constants
  <2>6. QED
    BY <2>3, <2>4, <2>5
<1>6. QED
  BY <1>4, <1>5

(* No thread reads the crate when start() has not been called.             *)
LEMMA ThreadsStep ==
  ASSUME IInv, Next
  PROVE  Threads'
<1>t. Threads
  BY DEF IInv
<1>1. CASE Trigger
  BY <1>t, <1>1 DEF Trigger, Threads, control, thread, getNext
<1>2. CASE Start
  BY <1>t, <1>2 DEF Start, Threads, getNext
<1>3. CASE StopRequest
  BY <1>t, <1>3 DEF StopRequest, Threads, thread, getNext
<1>4. CASE Control
  BY <1>t, <1>4 DEF Control, StartMonitor, Stopping, Threads, thread, getNext
<1>5. CASE GetData
  <2>1. UNCHANGED <<ctl, gn>> /\ getData # "off"
    BY <1>5 DEF GetData, Check, waitData, ReadTile, ReadNothing, AllRead, Insert, control, getNext
  <2>2. /\ getData' = "waitData" => presBoard' = 1
        /\ getData' = "insert" => presBoard' = tilebuf'.board + 1
    BY <1>5, <1>t DEF GetData, Check, waitData, ReadTile, ReadNothing, AllRead, Insert, Threads
  <2>3. QED
    BY <1>t, <2>1, <2>2 DEF Threads
<1>6. CASE GetNext
  BY <1>t, <1>6 DEF GetNext, Call, Look, Copy, Erase, Deliver, Inconsistent, Return, Threads,
     control, thread
<1>7. QED
  BY <1>1, <1>2, <1>3, <1>4, <1>5, <1>6 DEF Next

(* An event that has been read, or that a failed transfer has dropped,     *)
(* leaves the others in order.                                             *)
LEMMA Popped ==
  ASSUME IInv, NEW b \in Board, stored[b] # <<>>,
         stored' = [stored EXCEPT ![b] = Tail(stored[b])], nextEvent' = nextEvent
  PROVE  /\ Kept' /\ \A c \in Board : Len(stored'[c]) \in 0 .. BoardDepth
         /\ Len(stored[b]) \in 1 .. BoardDepth /\ Len(stored'[b]) = Len(stored[b]) - 1
         /\ \A c \in Board \ {b} : stored'[c] = stored[c]
         /\ Head(stored[b]) = Ago(Len(stored[b])) /\ Head(stored[b]) \in Event
<1>1. CrateFacts /\ Kept
  BY FactsHold DEF IInv
<1>2. /\ stored[b] \in Seq(Event) /\ Head(stored[b]) = stored[b][1] /\ Head(stored[b]) \in Event
      /\ Len(stored[b]) \in Nat \ {0} /\ Tail(stored[b]) \in Seq(Event)
      /\ Len(Tail(stored[b])) = Len(stored[b]) - 1
      /\ \A k \in 1 .. Len(stored[b]) - 1 : Tail(stored[b])[k] = stored[b][k + 1]
  BY <1>1, TailFacts DEF CrateFacts
<1>3. /\ stored' \in [Board -> Seq(Event)] /\ stored'[b] = Tail(stored[b])
      /\ \A c \in Board \ {b} : stored'[c] = stored[c]
  BY <1>1, <1>2 DEF CrateFacts
<1>4. Head(stored[b]) = Ago(Len(stored[b]))
  <2>1. 1 \in 1 .. Len(stored[b]) /\ Len(stored[b]) + 1 - 1 = Len(stored[b])
    BY <1>2
  <2>2. QED
    BY <1>1, <1>2, <2>1 DEF Kept
<1>5. ASSUME NEW c \in Board, NEW k \in 1 .. Len(stored'[c])
      PROVE  stored'[c][k] = Ago(Len(stored'[c]) + 1 - k)
  <2>1. CASE c = b
    <3>0. Len(stored'[b]) = Len(stored[b]) - 1 /\ k \in 1 .. Len(stored'[b])
      BY <1>2, <1>3, <2>1
    <3>1. k + 1 \in 1 .. Len(stored[b]) /\ Len(stored[b]) + 1 - (k + 1) = Len(stored'[b]) + 1 - k
      <4> DEFINE n == Len(stored[b])
                 m == Len(stored'[b])
      <4>1. n \in Nat \ {0} /\ m = n - 1 /\ k \in 1 .. m
        BY <1>2, <3>0
      <4> HIDE DEF n, m
      <4>2. k + 1 \in 1 .. n /\ n + 1 - (k + 1) = m + 1 - k
        BY <4>1
      <4>3. QED
        BY <4>2 DEF n, m
    <3>2. stored[b][k + 1] = Ago(Len(stored[b]) + 1 - (k + 1))
      BY <1>1, <3>1 DEF Kept
    <3>3. k \in 1 .. Len(stored[b]) - 1
      BY <1>2, <1>3, <2>1
    <3>4. QED
      BY <1>2, <1>3, <2>1, <3>1, <3>2, <3>3
  <2>2. CASE c # b
    BY <1>1, <1>3, <2>2 DEF Kept
  <2>3. QED
    BY <2>1, <2>2
<1>6. Kept'
  <2>2. \A c \in Board : \A k \in 1 .. Len(stored'[c]) :
          stored'[c][k] = Ago(Len(stored'[c]) + 1 - k)
    BY <1>5
  <2>3. QED
    BY <1>3, <2>2 DEF Kept, Ago
<1>7. \A c \in Board : Len(stored'[c]) \in 0 .. BoardDepth
  <2>1. Len(stored'[b]) = Len(stored[b]) - 1 /\ Len(stored[b]) \in 0 .. BoardDepth
    BY <1>1, <1>2, <1>3 DEF CrateFacts
  <2>2. Len(stored'[b]) \in 0 .. BoardDepth
    BY <1>2, <2>1, Constants
  <2>3. \A c \in Board \ {b} : Len(stored'[c]) \in 0 .. BoardDepth
    BY <1>1, <1>3 DEF CrateFacts
  <2>4. QED
    BY <2>2, <2>3
<1>8. QED
  BY <1>1, <1>2, <1>3, <1>4, <1>6, <1>7 DEF CrateFacts

(* A trigger adds the next event to what every board has stored.           *)
LEMMA TriggerStored ==
  ASSUME IInv, Trigger
  PROVE  /\ Kept' /\ nextEvent' = Following(nextEvent) /\ nextEvent' \in Event
         /\ \A c \in Board : /\ Len(stored[c]) \in 0 .. BoardDepth - 1
                             /\ Len(stored'[c]) = Len(stored[c]) + 1
<1>1. CrateFacts /\ Kept
  BY FactsHold DEF IInv
<1>2. /\ \A b \in Board : Len(stored[b]) < BoardDepth
      /\ stored' = [b \in Board |-> Append(stored[b], nextEvent)]
      /\ nextEvent' = Following(nextEvent)
  BY DEF Trigger
<1>3. nextEvent' \in Event
  BY <1>1, <1>2, FollowingFacts DEF CrateFacts
<1>4. ASSUME NEW c \in Board
      PROVE  /\ Len(stored[c]) \in 0 .. BoardDepth - 1
             /\ stored'[c] \in Seq(Event) /\ Len(stored'[c]) = Len(stored[c]) + 1
             /\ stored'[c][Len(stored[c]) + 1] = nextEvent
             /\ \A k \in 1 .. Len(stored[c]) : stored'[c][k] = stored[c][k]
  <2>1. Len(stored[c]) \in 0 .. BoardDepth /\ Len(stored[c]) < BoardDepth
    BY <1>1, <1>2 DEF CrateFacts
  <2>2. stored[c] \in Seq(Event) /\ nextEvent \in Event /\ stored'[c] = Append(stored[c], nextEvent)
    BY <1>1, <1>2 DEF CrateFacts
  <2>3. QED
    BY <2>1, <2>2, Constants, AppendFacts
<1>5. ASSUME NEW c \in Board, NEW k \in 1 .. Len(stored'[c])
      PROVE  (stored[c][k] = Ago(Len(stored[c]) + 1 - k))'
  <2> DEFINE n == Len(stored[c])
  <2>1. n \in Nat /\ n < BoardDepth /\ k \in 1 .. n + 1
    BY <1>4, Constants
  <2>2. stored'[c][k] = Ago(n + 1 - k)
    <3>1. CASE k = n + 1
      <4>1. n + 1 - k = 0
        BY <2>1, <3>1
      <4>2. QED
        BY <1>1, <1>4, <3>1, <4>1, AgoFacts DEF CrateFacts
    <3>2. CASE k # n + 1
      <4>1. k \in 1 .. n
        BY <2>1, <3>2
      <4>2. QED
        BY <1>1, <1>4, <4>1 DEF Kept
    <3>3. QED
      BY <3>1, <3>2
  <2>3. Len(stored'[c]) + 1 - k = (n + 1 - k) + 1 /\ n + 1 - k \in Nat /\ (n + 1 - k) + 1 < Events
    <3>1. Len(stored'[c]) = n + 1
      BY <1>4
    <3> HIDE DEF n
    <3>2. QED
      BY <2>1, <3>1, Constants
  <2> DEFINE m == n + 1 - k
  <2>4. \A j \in Nat : j + 1 < Events => Ago(j + 1)' = Ago(j)
    BY <1>1, <1>2, OneOlder DEF CrateFacts
  <2> HIDE DEF n
  <2>5. Ago(m) = IF m + 1 <= nextEvent' THEN nextEvent' - (m + 1) ELSE nextEvent' + Events - (m + 1)
    BY <2>3, <2>4 DEF Ago
  <2>6. stored'[c][k] = IF Len(stored'[c]) + 1 - k <= nextEvent'
                        THEN nextEvent' - (Len(stored'[c]) + 1 - k)
                        ELSE nextEvent' + Events - (Len(stored'[c]) + 1 - k)
    BY <2>2, <2>3, <2>5
  <2>7. QED
    BY <2>6 DEF Ago
<1>6. stored' \in [Board -> Seq(Event)]
  BY <1>2, <1>4
<1>7. Kept'
  BY <1>5, <1>6 DEF Kept
<1>8. QED
  BY <1>2, <1>3, <1>4, <1>7

(* Every step keeps what a board stores in order: a trigger adds the next  *)
(* event, a transfer takes the oldest.                                     *)
LEMMA KeptStep ==
  ASSUME IInv, Next
  PROVE  Kept'
<1>t. CrateFacts /\ Kept
  BY FactsHold DEF IInv
<1>1. CASE UNCHANGED <<stored, nextEvent>>
  BY <1>1, <1>t DEF Kept, Ago
<1>2. CASE Trigger
  BY <1>2, TriggerStored
<1>3. CASE Start
  <2>1. CASE stored' = [b \in Board |-> <<>>] /\ nextEvent' = 0
    <3>1. \A b \in Board : stored'[b] = <<>> /\ stored'[b] \in Seq(Event) /\ Len(stored'[b]) = 0
      BY <2>1
    <3>2. stored' \in [Board -> Seq(Event)]
      BY <2>1, <3>1
    <3>3. QED
      BY <3>1, <3>2 DEF Kept
  <2>2. QED
    BY <1>1, <1>3, <2>1 DEF Start
<1>4. CASE ReadTile
  <2>1. /\ presBoard \in Board /\ stored[presBoard] # <<>> /\ nextEvent' = nextEvent
        /\ stored' = [stored EXCEPT ![presBoard] = Tail(stored[presBoard])]
    BY <1>4, <1>t, Constants DEF ReadTile, CrateFacts, Board
  <2>2. QED
    BY <2>1, Popped
<1>5. CASE ReadNothing
  <2>1. /\ presBoard \in Board /\ stored[presBoard] # <<>> /\ nextEvent' = nextEvent
        /\ \/ stored' = [stored EXCEPT ![presBoard] = Tail(stored[presBoard])]
           \/ stored' = stored
    BY <1>5, <1>t, Constants DEF ReadNothing, CrateFacts, Board
  <2>2. QED
    BY <1>1, <2>1, Popped
<1>6. CASE \/ StopRequest \/ Control \/ Check \/ waitData \/ AllRead \/ Insert \/ GetNext
  <2>1. UNCHANGED <<stored, nextEvent>>
    BY <1>6 DEF StopRequest, Control, StartMonitor, Check, waitData, AllRead, Insert, GetNext,
       Call, Look, Copy, Erase, Deliver, Inconsistent, crate
  <2>2. QED
    BY <1>1, <2>1
<1>7. QED
  BY <1>2, <1>3, <1>4, <1>5, <1>6 DEF Next, GetData

(* The tile that GetData reads comes behind all others.                    *)
LEMMA ReadTileFacts ==
  ASSUME IInv, ReadTile
  PROVE  /\ presBoard \in Board /\ NextBoard = presBoard /\ tilebuf' = NextTile
         /\ NextTile \in Tile /\ Tiles' = Append(Tiles, NextTile)
         /\ Kept' /\ nextEvent' = nextEvent /\ lost' = lost
         /\ Len(stored[presBoard]) \in 1 .. BoardDepth
         /\ Len(stored'[presBoard]) = Len(stored[presBoard]) - 1
         /\ \A c \in Board \ {presBoard} : stored'[c] = stored[c]
         /\ NextTile.event = Ago(Len(stored[presBoard]))
         /\ Age(NextTile.event) = Len(stored[presBoard])
         /\ getData = "dataAvail" /\ getData' = "insert" /\ presBoard' = presBoard + 1
<1>1. CrateFacts
  BY FactsHold
<1>2. /\ presBoard \in Board /\ stored[presBoard] # <<>> /\ nextEvent' = nextEvent /\ lost' = lost
      /\ stored' = [stored EXCEPT ![presBoard] = Tail(stored[presBoard])]
      /\ getData = "dataAvail" /\ getData' = "insert" /\ presBoard <= nBoards
      /\ tilebuf' = [board |-> presBoard, event |-> Head(stored[presBoard])]
      /\ presBoard' = presBoard + 1
  BY <1>1, Constants DEF ReadTile, CrateFacts, Board
<1>3. NextBoard = presBoard
  BY <1>2 DEF NextBoard, InRound
<1>4. /\ Kept' /\ Len(stored[presBoard]) \in 1 .. BoardDepth
      /\ Len(stored'[presBoard]) = Len(stored[presBoard]) - 1
      /\ \A c \in Board \ {presBoard} : stored'[c] = stored[c]
      /\ Head(stored[presBoard]) = Ago(Len(stored[presBoard])) /\ Head(stored[presBoard]) \in Event
  BY <1>2, Popped
<1>5. /\ tilebuf' = NextTile /\ NextTile \in Tile /\ NextTile.event = Ago(Len(stored[presBoard]))
  BY <1>2, <1>3, <1>4 DEF NextTile, Tile
<1>6. Age(NextTile.event) = Len(stored[presBoard])
  <2>1. Len(stored[presBoard]) \in Event /\ Len(stored[presBoard]) > 0
    BY <1>4, Constants DEF Event
  <2>2. QED
    BY <1>1, <1>5, <2>1, AgoFacts DEF CrateFacts
<1>7. Tiles' = Append(Tiles, NextTile)
  BY <1>5, TilesSteps
<1>8. QED
  BY <1>2, <1>3, <1>4, <1>5, <1>6, <1>7

-----------------------------------------------------------------------------
(* THE AGE OF THE TILES                                                    *)

(* One tile is as old as Aged says, in a list of n.                        *)
AgeIn(t, p, n) ==
  /\ Age(t.event) > Len(stored[t.board])
  /\ Age(t.event) <= Len(stored[t.board]) + lost + 1 + n - p

Younger(t, u) == t.board = u.board => Age(t.event) > Age(u.event)

(* A trigger ages the tiles on the way and lengthens what their boards     *)
(* have stored.                                                            *)
LEMMA TriggerAges ==
  ASSUME IInv, Trigger
  PROVE  Aged'
<1>1. CrateFacts /\ Aged
  BY FactsHold DEF IInv
<1>2. /\ Tiles' = Tiles /\ lost' = lost /\ nextEvent' = Following(nextEvent)
      /\ \A c \in Board : /\ Len(stored[c]) \in 0 .. BoardDepth - 1
                          /\ Len(stored'[c]) = Len(stored[c]) + 1
  BY TilesSteps, TriggerStored DEF Trigger
<1>3. /\ Len(Tiles) \in 0 .. Capacity + 1 /\ lost \in 0 .. MaxLost
      /\ \A e \in Event : Age(e) \in 1 .. Events /\ (Age(e) < Events => Age(e)' = Age(e) + 1)
  BY <1>1, <1>2, AgoFacts, OneOlder, Constants DEF CrateFacts
<1>4. ASSUME NEW p \in 1 .. Len(Tiles)
      PROVE  /\ Tiles[p].event \in Event /\ Age(Tiles[p].event) \in Nat
             /\ (IF Tiles[p].event < nextEvent' THEN nextEvent' - Tiles[p].event
                 ELSE nextEvent' + Events - Tiles[p].event) = Age(Tiles[p].event) + 1
             /\ (AgeIn(Tiles[p], p, Len(Tiles)))'
  <2> DEFINE e == Tiles[p].event
             n == Len(stored[Tiles[p].board])
  <2>1. e \in Event /\ Tiles[p].board \in Board
    BY <1>1 DEF CrateFacts, Tile
  <2>2. /\ Age(e) > n /\ Age(e) <= n + lost + 1 + Len(Tiles) - p
        /\ n \in 0 .. BoardDepth - 1 /\ Age(e) \in 1 .. Events
        /\ Len(stored'[Tiles[p].board]) = n + 1
    BY <1>1, <1>2, <1>3, <2>1 DEF Aged
  <2> HIDE DEF n
  <2>3. Age(e) < Events
    BY <1>3, <2>2, Constants
  <2>4. (IF e < nextEvent' THEN nextEvent' - e ELSE nextEvent' + Events - e) = Age(e) + 1
    <3>2. \A x \in Event : Age(x) < Events =>
            (IF x < nextEvent' THEN nextEvent' - x ELSE nextEvent' + Events - x) = Age(x) + 1
      BY <1>3 DEF Age
    <3> HIDE DEF e
    <3>3. QED
      BY <2>1, <2>3, <3>2
  <2>5. (AgeIn(Tiles[p], p, Len(Tiles)))'
    <3>1. Tiles'[p] = Tiles[p] /\ Len(Tiles') = Len(Tiles) /\ lost' = lost
      BY <1>2
    <3>2. (Age(Tiles[p].event))' = Age(e) + 1
      BY <2>4, <3>1 DEF Age
    <3>3. /\ Age(e) + 1 > n + 1
          /\ Age(e) + 1 <= n + 1 + lost + 1 + Len(Tiles) - p
      BY <1>3, <2>2
    <3>4. Len(stored'[Tiles'[p].board]) = n + 1
      BY <2>2, <3>1
    <3>5. QED
      BY <3>1, <3>2, <3>3, <3>4 DEF AgeIn
  <2>6. QED
    BY <2>1, <2>2, <2>4, <2>5
<1>5. ASSUME NEW p \in 1 .. Len(Tiles), NEW q \in 1 .. Len(Tiles), p < q
      PROVE  (Younger(Tiles[p], Tiles[q]))'
  <2>1. Tiles[p].board = Tiles[q].board => Age(Tiles[p].event) > Age(Tiles[q].event)
    BY <1>1, <1>5 DEF Aged
  <2>2. Tiles[p].board = Tiles[q].board =>
          (IF Tiles[p].event < nextEvent' THEN nextEvent' - Tiles[p].event
                 ELSE nextEvent' + Events - Tiles[p].event) >
          (IF Tiles[q].event < nextEvent' THEN nextEvent' - Tiles[q].event
                 ELSE nextEvent' + Events - Tiles[q].event)
    BY <1>4, <2>1
  <2>3. QED
    BY <1>2, <2>2 DEF Younger, Age
<1>6. QED
  BY <1>2, <1>4, <1>5 DEF Aged, AgeIn, Younger

(* What is left to show when there was no trigger.                         *)
LEMMA AgedWhen ==
  ASSUME nextEvent' = nextEvent,
         \A p \in 1 .. Len(Tiles') :
           /\ Age(Tiles'[p].event) > Len(stored'[Tiles'[p].board])
           /\ Age(Tiles'[p].event) <= Len(stored'[Tiles'[p].board]) + lost' + 1 + Len(Tiles') - p,
         \A p, q \in 1 .. Len(Tiles') :
           p < q /\ Tiles'[p].board = Tiles'[q].board => Age(Tiles'[p].event) > Age(Tiles'[q].event)
  PROVE  Aged'
BY DEF Aged, Age

(* A tile that is read is older than what its board still has stored, and  *)
(* younger than the tiles of that board before it.                         *)
LEMMA ReadTileAges ==
  ASSUME IInv, ReadTile
  PROVE  Aged'
<1>1. CrateFacts /\ Aged
  BY FactsHold DEF IInv
<1> DEFINE n == Len(Tiles)
           b == presBoard
<1>2. /\ NextTile \in Tile /\ NextTile.board = b /\ b \in Board
      /\ lost' = lost /\ Len(stored[b]) \in Nat /\ Len(stored'[b]) = Len(stored[b]) - 1
      /\ \A c \in Board \ {b} : stored'[c] = stored[c]
      /\ Age(NextTile.event) = Len(stored[b]) /\ nextEvent' = nextEvent
  BY ReadTileFacts, Constants DEF NextTile
<1>3. /\ n \in Nat /\ Tiles' \in Seq(Tile) /\ Len(Tiles') = n + 1 /\ Tiles'[n + 1] = NextTile
      /\ \A p \in 1 .. n : Tiles'[p] = Tiles[p]
  <2>1. Tiles \in Seq(Tile) /\ NextTile \in Tile /\ Tiles' = Append(Tiles, NextTile)
    BY <1>1, ReadTileFacts DEF CrateFacts
  <2>2. QED
    BY <2>1, AppendFacts
<1>4. lost \in Nat
  BY <1>1, Constants DEF CrateFacts
<1> HIDE DEF n, b
<1>5. ASSUME NEW p \in 1 .. n
      PROVE  /\ Age(Tiles[p].event) > Len(stored'[Tiles[p].board])
             /\ Age(Tiles[p].event) <= Len(stored'[Tiles[p].board]) + lost + 1 + (n + 1) - p
  <2> DEFINE c == Tiles[p].board
             a == Age(Tiles[p].event)
             k == Len(stored[c])
             m == Len(stored'[c])
  <2>1. c \in Board /\ k \in Nat /\ Tiles[p].event \in Event
    BY <1>1, Constants DEF CrateFacts, Tile, n
  <2>2. a > k /\ a <= k + lost + 1 + n - p
    BY <1>1 DEF Aged, n
  <2>3. m = k \/ m = k - 1
    <3>1. CASE c = b
      BY <1>2, <3>1
    <3>2. CASE c # b
      BY <1>2, <2>1, <3>2
    <3>3. QED
      BY <3>1, <3>2
  <2>4. a \in Int
    BY <1>1, <2>1, AgoFacts DEF CrateFacts
  <2> HIDE DEF c, a, k, m
  <2>5. a > m /\ a <= m + lost + 1 + (n + 1) - p
    BY <1>3, <1>4, <2>1, <2>2, <2>3, <2>4
  <2>6. QED
    BY <2>5 DEF c, a, m
<1>6. /\ Age(NextTile.event) > Len(stored'[b])
      /\ Age(NextTile.event) <= Len(stored'[b]) + lost + 1 + (n + 1) - (n + 1)
  BY <1>2, <1>3, <1>4
<1>7. ASSUME NEW p \in 1 .. n + 1, NEW q \in 1 .. n + 1, p < q, Tiles'[p].board = Tiles'[q].board
      PROVE  Age(Tiles'[p].event) > Age(Tiles'[q].event)
  <2>1. p \in 1 .. n /\ Tiles'[p] = Tiles[p]
    BY <1>3, <1>7
  <2>2. CASE q \in 1 .. n
    BY <1>1, <1>3, <1>7, <2>1, <2>2 DEF Aged, n
  <2>3. CASE q = n + 1
    <3>1. Tiles[p].board = b => Age(Tiles[p].event) > Len(stored[b])
      BY <1>1, <2>1 DEF Aged, n
    <3>2. QED
      BY <1>2, <1>3, <1>7, <2>1, <2>3, <3>1
  <2>4. QED
    BY <1>3, <2>2, <2>3
<1>8. ASSUME NEW p \in 1 .. n + 1
      PROVE  /\ Age(Tiles'[p].event) > Len(stored'[Tiles'[p].board])
             /\ Age(Tiles'[p].event) <= Len(stored'[Tiles'[p].board]) + lost' + 1 + (n + 1) - p
  <2>1. CASE p \in 1 .. n
    BY <1>2, <1>3, <1>5, <2>1
  <2>2. CASE p = n + 1
    BY <1>2, <1>3, <1>6, <2>2
  <2>3. QED
    BY <1>3, <2>1, <2>2
<1>9. QED
  BY <1>2, <1>3, <1>7, <1>8, AgedWhen

(* A failed transfer makes what its board has stored younger by one.       *)
LEMMA ReadNothingAges ==
  ASSUME IInv, ReadNothing
  PROVE  Aged'
<1>1. CrateFacts /\ Aged
  BY FactsHold DEF IInv
<1>2. /\ presBoard \in Board /\ stored[presBoard] # <<>> /\ nextEvent' = nextEvent
      /\ lost' = lost + 1 /\ Tiles' = Tiles
      /\ \/ stored' = [stored EXCEPT ![presBoard] = Tail(stored[presBoard])]
         \/ stored' = stored
  BY <1>1, Constants, TilesSteps DEF ReadNothing, CrateFacts, Board
<1>3. ASSUME NEW c \in Board PROVE Len(stored'[c]) \in {Len(stored[c]), Len(stored[c]) - 1}
  BY <1>2, Popped
<1>4. lost \in Nat /\ Len(Tiles) \in Nat
  BY <1>1, Constants DEF CrateFacts
<1>5. ASSUME NEW p \in 1 .. Len(Tiles)
      PROVE  /\ Age(Tiles[p].event) > Len(stored'[Tiles[p].board])
             /\ Age(Tiles[p].event) <= Len(stored'[Tiles[p].board]) + lost' + 1 + Len(Tiles) - p
  <2> DEFINE c == Tiles[p].board
             a == Age(Tiles[p].event)
             k == Len(stored[c])
             m == Len(stored'[c])
  <2>1. c \in Board /\ k \in Nat /\ Tiles[p].event \in Event
    BY <1>1, Constants DEF CrateFacts, Tile
  <2>2. a > k /\ a <= k + lost + 1 + Len(Tiles) - p
    BY <1>1 DEF Aged
  <2>3. m = k \/ m = k - 1
    BY <1>3, <2>1
  <2>4. a \in Int
    BY <1>1, <2>1, AgoFacts DEF CrateFacts
  <2> HIDE DEF c, a, k, m
  <2>5. a > m /\ a <= m + lost' + 1 + Len(Tiles) - p
    BY <1>2, <1>4, <2>1, <2>2, <2>3, <2>4
  <2>6. QED
    BY <2>5 DEF c, a, m
<1>6. \A p, q \in 1 .. Len(Tiles) :
        p < q /\ Tiles[p].board = Tiles[q].board => Age(Tiles[p].event) > Age(Tiles[q].event)
  BY <1>1 DEF Aged
<1>7. QED
  BY <1>2, <1>5, <1>6, AgedWhen

(* When the tiles of a fragment are erased, those behind them move up.     *)
LEMMA EraseAges ==
  ASSUME IInv, Erase
  PROVE  Aged'
<1>1. CrateFacts /\ Aged
  BY FactsHold DEF IInv
<1>2. UNCHANGED <<stored, nextEvent, lost>>
  BY DEF Erase, crate
<1>3. /\ nBoards <= Len(Tiles) /\ Len(Tiles) \in Nat /\ Len(Tiles') = Len(Tiles) - nBoards
      /\ \A p \in 1 .. Len(Tiles) - nBoards : Tiles'[p] = Tiles[nBoards + p]
  <2>1. Len(Tiles) \in Nat
    BY <1>1 DEF CrateFacts
  <2>2. QED
    BY <2>1, TilesErase
<1>4. \A p \in 1 .. Len(Tiles) - nBoards : nBoards + p \in 1 .. Len(Tiles)
  BY <1>3, Constants
<1>5. ASSUME NEW p \in 1 .. Len(Tiles')
      PROVE  /\ Age(Tiles'[p].event) > Len(stored'[Tiles'[p].board])
             /\ Age(Tiles'[p].event) <= Len(stored'[Tiles'[p].board]) + lost' + 1 + Len(Tiles') - p
  <2>1. /\ nBoards + p \in 1 .. Len(Tiles) /\ Tiles'[p] = Tiles[nBoards + p] /\ p \in Nat
        /\ nBoards \in Nat
    BY <1>3, <1>4, Constants
  <2> DEFINE t == Tiles[nBoards + p]
             k == Len(stored[t.board])
  <2>2. /\ Age(t.event) > k /\ Age(t.event) <= k + lost + 1 + Len(Tiles) - (nBoards + p)
    BY <1>1, <2>1 DEF Aged
  <2>3. k \in Nat /\ lost \in Nat
    BY <1>1, <2>1, Constants DEF CrateFacts, Tile
  <2>4. k + lost + 1 + Len(Tiles) - (nBoards + p) = k + lost + 1 + Len(Tiles') - p
    <3> HIDE DEF k
    <3>1. QED
      BY <1>3, <2>1, <2>3
  <2>5. QED
    BY <1>2, <2>1, <2>2, <2>4
<1>6. ASSUME NEW p \in 1 .. Len(Tiles'), NEW q \in 1 .. Len(Tiles'), p < q,
             Tiles'[p].board = Tiles'[q].board
      PROVE  Age(Tiles'[p].event) > Age(Tiles'[q].event)
  <2>1. /\ nBoards + p \in 1 .. Len(Tiles) /\ Tiles'[p] = Tiles[nBoards + p]
        /\ nBoards + q \in 1 .. Len(Tiles) /\ Tiles'[q] = Tiles[nBoards + q]
        /\ nBoards + p < nBoards + q
    BY <1>3, <1>4, <1>6, Constants
  <2>2. QED
    BY <1>1, <1>6, <2>1 DEF Aged
<1>7. QED
  BY <1>2, <1>5, <1>6, AgedWhen

(* Every step keeps the ages of the tiles in bounds.                       *)
LEMMA AgedStep ==
  ASSUME IInv, Next
  PROVE  Aged'
<1>1. CASE Tiles' = Tiles /\ UNCHANGED <<stored, nextEvent, lost>>
  <2>1. Aged
    BY DEF IInv
  <2>2. QED
    BY <1>1, <2>1, AgedWhen DEF Aged
<1>2. CASE Trigger
  BY <1>2, TriggerAges
<1>3. CASE Start
  <2>1. Tiles' = <<>>
    BY <1>3, TilesSteps
  <2>2. Len(Tiles') = 0 /\ \A p : p \notin 1 .. 0
    BY <2>1
  <2>3. QED
    BY <2>2 DEF Aged
<1>4. CASE ReadTile
  BY <1>4, ReadTileAges
<1>5. CASE ReadNothing
  BY <1>5, ReadNothingAges
<1>6. CASE Erase
  BY <1>6, EraseAges
<1>7. CASE \/ StopRequest \/ Control \/ Check \/ waitData \/ AllRead \/ Insert
           \/ Call \/ Look \/ Copy \/ Deliver \/ Inconsistent
  <2>1. UNCHANGED <<stored, nextEvent, lost>>
    BY <1>7 DEF StopRequest, Control, StartMonitor, Check, waitData, AllRead, Insert,
       Call, Look, Copy, Deliver, Inconsistent, crate
  <2>2. QED
    BY <1>1, <1>7, <2>1, TilesSteps
<1>8. QED
  BY <1>2, <1>3, <1>4, <1>5, <1>6, <1>7 DEF Next, GetData, GetNext

-----------------------------------------------------------------------------
(* ROUNDS OF THE BOARDS                                                    *)

(* The members of a sequence of rounds.                                    *)
Member(s, p) ==
  /\ p > 1 => s[p] = After(s[p - 1])
  /\ p <= nBoards => s[p] = [board |-> p, event |-> s[1].event]
  /\ p > nBoards =>
       s[p] = [board |-> s[p - nBoards].board, event |-> Following(s[p - nBoards].event)]

(* Rounds, tile by tile.                                                   *)
LEMMA RoundsIs ==
  ASSUME NEW s
  PROVE  Rounds(s) <=> s[1].board = 1 /\ \A p \in 1 .. Len(s) : Member(s, p)
BY DEF Rounds, Member

(* The tile due after one is of the next board, or of the first board and  *)
(* the next event.                                                         *)
LEMMA AfterFacts ==
  ASSUME NEW t \in Tile
  PROVE  /\ After(t) \in Tile
         /\ After(t).board = IF t.board < nBoards THEN t.board + 1 ELSE 1
         /\ After(t).event = IF t.board < nBoards THEN t.event ELSE Following(t.event)
<1>1. t.board \in 1 .. nBoards /\ t.event \in Event /\ nBoards \in Nat \ {0}
  BY Constants DEF Tile, Board
<1>2. Following(t.event) \in Event
  BY <1>1, FollowingFacts
<1>3. CASE t.board < nBoards
  BY <1>1, <1>3 DEF After, Tile, Board
<1>4. CASE ~(t.board < nBoards)
  BY <1>1, <1>2, <1>4 DEF After, Tile, Board
<1>5. QED
  BY <1>3, <1>4

(* The tile behind the last one goes on with the rounds.                   *)
LEMMA RoundsAppend ==
  ASSUME NEW s \in Seq(Tile), s # <<>>, Rounds(s)
  PROVE  Rounds(Append(s, After(s[Len(s)])))
<1> DEFINE n == Len(s)
           x == After(s[n])
           u == Append(s, x)
<1>1. n \in Nat \ {0} /\ s[n] \in Tile /\ \A p \in 1 .. n : s[p] \in Tile
  OBVIOUS
<1>2. x \in Tile
  BY <1>1, AfterFacts
<1>3. /\ u \in Seq(Tile) /\ Len(u) = n + 1 /\ u[n + 1] = x
      /\ \A p \in 1 .. n : u[p] = s[p]
  BY <1>2, AppendFacts
<1>4. s[1].board = 1 /\ \A p \in 1 .. n : Member(s, p)
  BY RoundsIs
<1>x. x = After(s[n])
  OBVIOUS
<1> HIDE DEF n, u, x
<1>5. u[1] = s[1] /\ u[n] = s[n] /\ nBoards \in Nat \ {0}
  BY <1>1, <1>3, Constants
<1>6. ASSUME NEW p \in 1 .. n PROVE Member(u, p)
  <2>1. Member(s, p) /\ u[p] = s[p] /\ p \in Nat
    BY <1>3, <1>4
  <2>2. p > 1 => u[p - 1] = s[p - 1]
    BY <1>1, <1>3
  <2>3. p > nBoards => u[p - nBoards] = s[p - nBoards]
    BY <1>1, <1>3, <1>5
  <2>4. QED
    BY <1>5, <2>1, <2>2, <2>3 DEF Member
<1>7. Member(u, n + 1)
  <2> DEFINE t == s[n]
  <2>1. /\ t \in Tile /\ x = After(t) /\ x \in Tile
        /\ x.board = IF t.board < nBoards THEN t.board + 1 ELSE 1
        /\ x.event = IF t.board < nBoards THEN t.event ELSE Following(t.event)
        /\ t.board \in 1 .. nBoards
    BY <1>1, <1>2, <1>x, AfterFacts DEF Tile, Board
  <2>2. x = [board |-> x.board, event |-> x.event]
    BY <2>1 DEF Tile
  <2>3. Member(s, n)
    BY <1>1, <1>4
  <2>4. ASSUME n + 1 <= nBoards PROVE x = [board |-> n + 1, event |-> u[1].event]
    <3>1. t = [board |-> n, event |-> s[1].event]
      BY <1>1, <1>5, <2>3, <2>4 DEF Member
    <3>2. t.board = n /\ t.event = s[1].event /\ n < nBoards
      BY <1>1, <1>5, <2>4, <3>1
    <3>3. QED
      BY <1>5, <2>1, <2>2, <3>2
  <2>5. ASSUME n + 1 > nBoards
        PROVE  x = [board |-> u[n + 1 - nBoards].board, event |-> Following(u[n + 1 - nBoards].event)]
    <3>0. n + 1 - nBoards \in 1 .. n /\ u[n + 1 - nBoards] = s[n + 1 - nBoards]
      BY <1>1, <1>3, <1>5, <2>5
    <3>1. CASE n = nBoards
      <4>1. n + 1 - nBoards = 1
        BY <1>1, <3>1
      <4>2. t = [board |-> n, event |-> s[1].event]
        BY <1>1, <1>5, <2>3, <3>1 DEF Member
      <4>3. t.board = nBoards /\ t.event = s[1].event
        BY <3>1, <4>2
      <4>4. x.board = 1 /\ x.event = Following(s[1].event)
        BY <1>5, <2>1, <4>3
      <4>5. QED
        BY <1>4, <1>5, <2>2, <4>1, <4>4
    <3>2. CASE n > nBoards
      <4> DEFINE v == s[n - nBoards]
                 w == s[n + 1 - nBoards]
      <4>1. n - nBoards \in 1 .. n /\ v \in Tile /\ n + 1 - nBoards > 1 /\ (n + 1 - nBoards) - 1 = n - nBoards
        BY <1>1, <1>5, <3>2
      <4>2. w = After(v)
        BY <1>4, <3>0, <4>1 DEF Member
      <4>3. t = [board |-> v.board, event |-> Following(v.event)]
        BY <1>1, <1>5, <2>3, <3>2 DEF Member
      <4> HIDE DEF v, w
      <4>4. t.board = v.board /\ t.event = Following(v.event)
        BY <4>3
      <4>5. /\ w.board = IF v.board < nBoards THEN v.board + 1 ELSE 1
            /\ w.event = IF v.board < nBoards THEN v.event ELSE Following(v.event)
        BY <4>1, <4>2, AfterFacts
      <4>6. x.board = w.board /\ x.event = Following(w.event)
        BY <2>1, <4>4, <4>5
      <4>7. u[n + 1 - nBoards] = w
        BY <3>0 DEF w
      <4>8. QED
        BY <2>2, <4>6, <4>7
    <3>3. QED
      BY <1>1, <1>5, <2>5, <3>1, <3>2
  <2>6. n + 1 > 1 => x = After(u[(n + 1) - 1])
    <3>1. (n + 1) - 1 = n
      BY <1>1
    <3>2. QED
      BY <1>5, <1>x, <3>1
  <2>7. /\ n + 1 > 1 => u[n + 1] = After(u[(n + 1) - 1])
        /\ n + 1 <= nBoards => u[n + 1] = [board |-> n + 1, event |-> u[1].event]
        /\ n + 1 > nBoards => u[n + 1] = [board |-> u[(n + 1) - nBoards].board,
                                         event |-> Following(u[(n + 1) - nBoards].event)]
    BY <1>1, <1>3, <1>5, <2>4, <2>5, <2>6
  <2>8. QED
    BY <2>7 DEF Member
<1>8. \A p \in 1 .. Len(u) : Member(u, p)
  <2>1. \A p \in 1 .. n + 1 : p \in 1 .. n \/ p = n + 1
    BY <1>1
  <2>2. QED
    BY <1>3, <1>6, <1>7, <2>1
<1>9. Rounds(u)
  BY <1>4, <1>5, <1>8, RoundsIs
<1>10. QED
  BY <1>9 DEF u, x, n

(* So do the tiles behind a whole round, and they start with the following *)
(* event.                                                                  *)
LEMMA RoundsCut ==
  ASSUME NEW s \in Seq(Tile), Rounds(s), nBoards < Len(s),
         NEW u \in Seq(Tile), Len(u) = Len(s) - nBoards,
         \A p \in 1 .. Len(s) - nBoards : u[p] = s[nBoards + p]
  PROVE  Rounds(u) /\ u[1].event = Following(s[1].event)
<1> DEFINE n == Len(s) - nBoards
<1>1. n \in Nat \ {0} /\ nBoards \in Nat \ {0} /\ Len(s) = n + nBoards
  BY Constants
<1>2. s[1].board = 1 /\ \A p \in 1 .. Len(s) : Member(s, p)
  BY RoundsIs
<1>3. Len(u) = n /\ \A p \in 1 .. n : u[p] = s[nBoards + p]
  OBVIOUS
<1> HIDE DEF n
<1>4. \A p \in 1 .. n : /\ nBoards + p \in 1 .. Len(s) /\ nBoards + p > nBoards
                        /\ nBoards + p - nBoards = p /\ nBoards + p > 1
  BY <1>1
<1>5. \A p \in 1 .. n : u[p] = [board |-> s[p].board, event |-> Following(s[p].event)]
  <2>1. ASSUME NEW p \in 1 .. n
        PROVE  u[p] = [board |-> s[p].board, event |-> Following(s[p].event)]
    <3>1. Member(s, nBoards + p) /\ nBoards + p > nBoards /\ nBoards + p - nBoards = p
      BY <1>2, <1>4
    <3>2. u[p] = s[nBoards + p]
      BY <1>3
    <3>3. QED
      BY <1>1, <3>1, <3>2 DEF Member
  <2>2. QED
    BY <2>1
<1>6. 1 \in 1 .. n
  BY <1>1
<1>7. u[1].board = 1 /\ u[1].event = Following(s[1].event)
  <2>1. u[1] = [board |-> s[1].board, event |-> Following(s[1].event)]
    BY <1>5, <1>6
  <2>2. QED
    BY <1>2, <2>1
<1>8. ASSUME NEW p \in 1 .. n PROVE Member(u, p)
  <2>1. p > 1 => u[p] = After(u[p - 1])
    <3>1. ASSUME p > 1 PROVE u[p] = After(u[p - 1])
      <4>1. p - 1 \in 1 .. n /\ u[p - 1] = s[nBoards + (p - 1)] /\ u[p] = s[nBoards + p]
        BY <1>1, <1>3, <3>1
      <4>2. (nBoards + p) - 1 = nBoards + (p - 1)
        BY <1>1
      <4>3. s[nBoards + p] = After(s[(nBoards + p) - 1])
        BY <1>2, <1>4 DEF Member
      <4>4. QED
        BY <4>1, <4>2, <4>3
    <3>2. QED
      BY <3>1
  <2>2. p <= nBoards => u[p] = [board |-> p, event |-> u[1].event]
    <3>1. ASSUME p <= nBoards PROVE s[p] = [board |-> p, event |-> s[1].event]
      <4>1. p \in 1 .. Len(s)
        BY <1>1
      <4>2. Member(s, p)
        BY <1>2, <4>1
      <4>3. QED
        BY <3>1, <4>2 DEF Member
    <3>2. p <= nBoards => s[p].board = p /\ s[p].event = s[1].event
      BY <3>1
    <3>3. QED
      BY <1>5, <1>7, <3>2
  <2>3. p > nBoards =>
          u[p] = [board |-> u[p - nBoards].board, event |-> Following(u[p - nBoards].event)]
    <3>1. ASSUME p > nBoards
          PROVE  p - nBoards \in 1 .. n /\ u[p - nBoards] = s[nBoards + (p - nBoards)]
                 /\ nBoards + (p - nBoards) = p
      BY <1>1, <1>3, <3>1
    <3>2. p > nBoards => u[p - nBoards] = s[p]
      BY <3>1
    <3>3. QED
      BY <1>5, <3>2
  <2>4. QED
    BY <2>1, <2>2, <2>3 DEF Member
<1>9. QED
  BY <1>3, <1>7, <1>8, RoundsIs

-----------------------------------------------------------------------------
(* IN STEP, WHILE NO TRANSFER FAILS                                        *)

(* The tiles on the way and the next one, as a sequence.                   *)
LEMMA ComingFacts ==
  ASSUME IInv
  PROVE  /\ NextBoard \in Board /\ NextTile \in Tile
         /\ NextTile.board = NextBoard /\ NextTile.event = Ago(Len(stored[NextBoard]))
         /\ Coming \in Seq(Tile) /\ Len(Coming) = Len(Tiles) + 1 /\ Len(Tiles) \in Nat
         /\ \A p \in 1 .. Len(Tiles) : Coming[p] = Tiles[p]
         /\ Coming[Len(Tiles) + 1] = NextTile
<1>1. CrateFacts
  BY FactsHold
<1>2. NextBoard \in Board
  BY <1>1, Constants DEF CrateFacts, NextBoard, Board
<1>3. Len(stored[NextBoard]) \in Event
  BY <1>1, <1>2, Constants DEF CrateFacts, Event
<1>4. Ago(Len(stored[NextBoard])) \in Event
  BY <1>1, <1>3, AgoFacts DEF CrateFacts
<1>5. /\ NextTile \in Tile /\ NextTile.board = NextBoard
      /\ NextTile.event = Ago(Len(stored[NextBoard]))
  BY <1>2, <1>4 DEF NextTile, Tile
<1>6. Tiles \in Seq(Tile)
  BY <1>1 DEF CrateFacts
<1>7. QED
  BY <1>2, <1>5, <1>6, AppendFacts DEF Coming

(* A step without a failed transfer leaves the boards read equally often.  *)
LEMMA LockstepStep ==
  ASSUME IInv, Next, lost' = 0
  PROVE  lost = 0 /\ Lockstep'
<1>1. CrateFacts /\ Lockstep /\ Threads
  BY FactsHold DEF IInv
<1>2. lost = 0 /\ ~ReadNothing
  <2>1. lost \in Nat
    BY <1>1, Constants DEF CrateFacts
  <2>2. lost' \in {lost, lost + 1} /\ (ReadNothing => lost' = lost + 1)
    BY DEF Next, Trigger, Start, StopRequest, Control, StartMonitor, GetData, Check, waitData,
       ReadTile, ReadNothing, AllRead, Insert, GetNext, Call, Look, Copy, Erase, Deliver,
       Inconsistent, crate
  <2>3. QED
    BY <2>1, <2>2
<1>3. \A b, c \in Board : Len(stored[b]) + Round(b) = Len(stored[c]) + Round(c)
  BY <1>1, <1>2 DEF Lockstep
<1>4. \A b \in Board : Len(stored[b]) \in Nat /\ Round(b) \in {0, 1} /\ b \in Nat
  BY <1>1, Constants DEF CrateFacts, Round, Board
<1>5. CASE UNCHANGED <<stored, getData, presBoard>>
  BY <1>2, <1>3, <1>5 DEF Lockstep, Round, InRound
<1>6. CASE Trigger
  <2>1. \A b \in Board : Len(stored'[b]) = Len(stored[b]) + 1
    BY <1>6, TriggerStored
  <2>2. UNCHANGED <<getData, presBoard>>
    BY <1>6 DEF Trigger, thread
  <2>3. ASSUME NEW b \in Board, NEW c \in Board
        PROVE  Len(stored'[b]) + Round(b) = Len(stored'[c]) + Round(c)
    <3>1. Len(stored[b]) + Round(b) = Len(stored[c]) + Round(c)
      BY <1>3
    <3>2. /\ Len(stored[b]) \in Nat /\ Len(stored[c]) \in Nat /\ Round(b) \in Nat /\ Round(c) \in Nat
          /\ Len(stored'[b]) = Len(stored[b]) + 1 /\ Len(stored'[c]) = Len(stored[c]) + 1
      BY <1>4, <2>1
    <3> DEFINE x == Len(stored[b])
               y == Len(stored[c])
               u == Round(b)
               v == Round(c)
    <3> HIDE DEF x, y, u, v
    <3>3. x + u = y + v /\ x \in Nat /\ y \in Nat /\ u \in Nat /\ v \in Nat
      BY <3>1, <3>2 DEF x, y, u, v
    <3>4. (x + 1) + u = (y + 1) + v
      BY <3>3
    <3>5. QED
      BY <3>2, <3>4 DEF x, y, u, v
  <2>4. QED
    BY <1>2, <2>2, <2>3 DEF Lockstep, Round, InRound
<1>7. CASE Start
  <2>1. getData' = "check" /\ \A b \in Board : Round(b) = 0
    BY <1>1, <1>7 DEF Start, Threads, Round, InRound
  <2>2. \A b, c \in Board : Len(stored'[b]) = Len(stored'[c])
    <3>1. CASE stored' = [b \in Board |-> <<>>]
      BY <3>1
    <3>2. CASE stored' = stored
      BY <1>3, <1>4, <2>1, <3>2
    <3>3. QED
      BY <1>7, <3>1, <3>2 DEF Start
  <2>3. QED
    BY <1>2, <2>1, <2>2 DEF Lockstep, Round, InRound
<1>8. CASE ReadTile
  <2>1. /\ presBoard \in Board /\ presBoard \in Nat
        /\ Len(stored'[presBoard]) = Len(stored[presBoard]) - 1
        /\ \A c \in Board \ {presBoard} : stored'[c] = stored[c]
        /\ getData = "dataAvail" /\ getData' = "insert" /\ presBoard' = presBoard + 1
    BY <1>8, ReadTileFacts DEF Board
  <2>2. ASSUME NEW b \in Board
        PROVE  Len(stored'[b]) + (IF b < presBoard + 1 THEN 1 ELSE 0) = Len(stored[b]) + Round(b)
    <3>0. Len(stored[b]) \in Nat /\ b \in Nat /\ Round(b) = IF b < presBoard THEN 1 ELSE 0
      BY <1>4, <2>1 DEF Round, InRound
    <3>1. CASE b = presBoard
      <4> DEFINE x == Len(stored[b])
      <4>1. Len(stored'[b]) = x - 1 /\ x \in Nat /\ b < presBoard + 1 /\ Round(b) = 0
        BY <2>1, <3>0, <3>1
      <4> HIDE DEF x
      <4>2. x - 1 + 1 = x + 0
        BY <4>1
      <4>3. QED
        BY <4>1, <4>2 DEF x
    <3>2. CASE b # presBoard
      <4>1. b < presBoard + 1 <=> b < presBoard
        BY <2>1, <3>0, <3>2
      <4>2. QED
        BY <2>1, <3>0, <3>2, <4>1
    <3>3. QED
      BY <3>1, <3>2
  <2>3. QED
    <3>1. \A b, c \in Board : Len(stored'[b]) + (IF b < presBoard + 1 THEN 1 ELSE 0) =
                           Len(stored'[c]) + (IF c < presBoard + 1 THEN 1 ELSE 0)
      BY <1>3, <2>2
    <3>2. QED
      BY <1>2, <2>1, <3>1 DEF Lockstep, Round, InRound
<1>9. CASE AllRead
  <2>1. /\ UNCHANGED stored /\ getData = "dataAvail" /\ getData' = "check" /\ presBoard > nBoards
    BY <1>9 DEF AllRead, crate
  <2>2. \A b \in Board : Round(b) = 1
    BY <1>1, <2>1, Constants DEF Round, InRound, Board, CrateFacts
  <2>3. \A b, c \in Board : Len(stored'[b]) = Len(stored'[c])
    <3>1. \A b, c \in Board : Len(stored[b]) + 1 = Len(stored[c]) + 1
      BY <1>3, <2>2
    <3>2. QED
      BY <1>4, <2>1, <3>1
  <2>4. QED
    BY <1>2, <2>1, <2>3 DEF Lockstep, Round, InRound
<1>10. CASE Check \/ waitData
  <2>1. /\ UNCHANGED stored /\ \A b \in Board : Round(b) = 0
    BY <1>10 DEF Check, waitData, Round, InRound, crate
  <2>2. \A b \in Board : Round(b)' = 0
    BY <1>1, <1>4, <1>10 DEF Check, waitData, Threads, Round, InRound, Board
  <2>3. QED
    BY <1>2, <1>3, <2>1, <2>2 DEF Lockstep
<1>11. CASE Insert
  <2>1. UNCHANGED <<stored, presBoard>> /\ getData = "insert" /\ getData' = "dataAvail"
    BY <1>11 DEF Insert, crate
  <2>2. QED
    BY <1>2, <1>3, <2>1 DEF Lockstep, Round, InRound
<1>12. CASE StopRequest \/ Control \/ GetNext
  <2>1. UNCHANGED <<stored, getData, presBoard>>
    BY <1>12 DEF StopRequest, Control, StartMonitor, GetNext, Call, Look, Copy, Erase, Deliver,
       Inconsistent, thread, crate
  <2>2. QED
    BY <1>2, <1>5, <2>1
<1>13. QED
  BY <1>2, <1>6, <1>7, <1>8, <1>9, <1>10, <1>11, <1>12 DEF Next, GetData

(* The next tile is the same until it is read ...                          *)
LEMMA NextTileKept ==
  ASSUME IInv, \/ Trigger \/ StopRequest \/ Control \/ Check \/ waitData \/ AllRead \/ Insert
               \/ GetNext
  PROVE  NextTile' = NextTile
<1>1. CrateFacts /\ Threads
  BY FactsHold DEF IInv
<1>2. NextBoard \in Board
  BY ComingFacts
<1>3. CASE Trigger
  <2>1. /\ NextBoard' = NextBoard /\ nextEvent \in Event /\ nextEvent' = Following(nextEvent)
        /\ Len(stored[NextBoard]) \in 0 .. BoardDepth - 1
        /\ Len(stored'[NextBoard]) = Len(stored[NextBoard]) + 1
    BY <1>1, <1>2, <1>3, TriggerStored DEF Trigger, thread, NextBoard, InRound, CrateFacts
  <2> DEFINE n == Len(stored[NextBoard])
  <2>2. n \in Nat /\ n + 1 < Events
    BY <2>1, Constants
  <2>3. \A k \in Nat : k + 1 < Events => Ago(k + 1)' = Ago(k)
    BY <2>1, OneOlder
  <2>4. \A k \in Nat : k + 1 < Events =>
          (IF k + 1 <= nextEvent' THEN nextEvent' - (k + 1) ELSE nextEvent' + Events - (k + 1)) = Ago(k)
    BY <2>3 DEF Ago
  <2> HIDE DEF n
  <2>5. (IF n + 1 <= nextEvent' THEN nextEvent' - (n + 1) ELSE nextEvent' + Events - (n + 1)) = Ago(n)
    BY <2>2, <2>4
  <2>6. Len(stored'[NextBoard']) = n + 1
    BY <2>1 DEF n
  <2>7. NextTile'.event = Ago(n)
    BY <2>5, <2>6 DEF NextTile, Ago
  <2>8. NextTile' = [board |-> NextBoard, event |-> Ago(n)]
    BY <2>1, <2>5, <2>6 DEF NextTile, Ago
  <2>9. QED
    BY <2>8 DEF NextTile, n
<1>4. CASE StopRequest \/ Control \/ GetNext
  <2>1. UNCHANGED <<stored, nextEvent, getData, presBoard>>
    BY <1>4 DEF StopRequest, Control, StartMonitor, GetNext, Call, Look, Copy, Erase, Deliver,
       Inconsistent, thread, crate
  <2>2. QED
    BY <2>1 DEF NextTile, NextBoard, InRound, Ago
<1>5. CASE Check \/ waitData \/ AllRead \/ Insert
  <2>1. UNCHANGED <<stored, nextEvent>>
    BY <1>5 DEF Check, waitData, AllRead, Insert, crate
  <2>2. NextBoard' = NextBoard
    BY <1>1, <1>5, Constants DEF Check, waitData, AllRead, Insert, NextBoard, InRound, Threads, CrateFacts
  <2>3. QED
    BY <2>1, <2>2 DEF NextTile, Ago
<1>6. QED
  BY <1>3, <1>4, <1>5

(* ... and then the next board's, or the first board's of the following    *)
(* event.                                                                  *)
LEMMA NextTileRead ==
  ASSUME IInv, ReadTile, lost = 0
  PROVE  NextTile' = After(NextTile)
<1>1. CrateFacts /\ Lockstep
  BY FactsHold DEF IInv
<1> DEFINE b == presBoard
           n == Len(stored[b])
<1>2. /\ b \in 1 .. nBoards /\ NextTile = [board |-> b, event |-> Ago(n)] /\ n \in 1 .. BoardDepth
      /\ Len(stored'[b]) = n - 1 /\ \A c \in Board \ {b} : stored'[c] = stored[c]
      /\ getData = "dataAvail" /\ getData' = "insert" /\ presBoard' = b + 1
      /\ nextEvent' = nextEvent
  BY ReadTileFacts DEF Board, NextTile
<1>3. \A c \in Board : Len(stored[c]) + Round(c) = n + Round(b)
  BY <1>1, <1>2 DEF Lockstep, Board
<1>4. \A c \in Board : Len(stored[c]) \in Nat /\ Round(c) = IF c < b THEN 1 ELSE 0
  BY <1>1, <1>2, Constants DEF CrateFacts, Round, InRound
<1>n. nBoards \in Nat \ {0}
  BY Constants
<1> HIDE DEF b, n
<1>5. CASE b < nBoards
  <2>1. NextBoard' = b + 1 /\ b + 1 \in Board /\ b + 1 # b
    BY <1>2, <1>5, <1>n DEF NextBoard, InRound, Board
  <2>2. Len(stored'[b + 1]) = n
    <3>1. stored'[b + 1] = stored[b + 1]
      BY <1>2, <2>1
    <3>2. Round(b + 1) = 0 /\ Round(b) = 0
      BY <1>2, <1>4, <2>1, <1>n DEF Board
    <3>3. QED
      BY <1>2, <1>3, <1>4, <2>1, <3>1, <3>2
  <2>3. NextTile' = [board |-> b + 1, event |-> Ago(n)]
    BY <1>2, <2>1, <2>2 DEF NextTile, Ago
  <2>4. QED
    BY <1>2, <1>5, <2>3 DEF After
<1>6. CASE b = nBoards
  <2>1. NextBoard' = 1 /\ 1 \in Board
    BY <1>2, <1>6, <1>n DEF NextBoard, InRound, Board
  <2>2. Len(stored'[1]) = n - 1
    <3>1. CASE b = 1
      BY <1>2, <3>1
    <3>2. CASE b # 1
      <4>1. Round(1) = 1 /\ Round(b) = 0 /\ stored'[1] = stored[1]
        BY <1>2, <1>4, <2>1, <3>2, <1>n DEF Board
      <4>2. QED
        BY <1>2, <1>3, <1>4, <2>1, <4>1
    <3>3. QED
      BY <3>1, <3>2
  <2>3. NextTile' = [board |-> 1, event |-> Ago(n - 1)]
    BY <1>2, <2>1, <2>2 DEF NextTile, Ago
  <2>4. Following(Ago(n)) = Ago(n - 1)
    <3>1. n - 1 \in Nat /\ (n - 1) + 1 = n /\ n < Events /\ nextEvent \in Event
      BY <1>1, <1>2, Constants DEF CrateFacts
    <3>2. QED
      BY <3>1, AgoFacts
  <2>5. QED
    BY <1>2, <1>6, <2>3, <2>4 DEF After
<1>7. QED
  BY <1>2, <1>5, <1>6, <1>n

(* Such a step leaves the tiles on the way, and the next one, in rounds;   *)
(* only an erased fragment changes which is the first, to the next event.  *)
LEMMA ComingStep ==
  ASSUME IInv, Next, lost' = 0
  PROVE  /\ Rounds(Coming')
         /\ Erase => Coming'[1].event = Following(Coming[1].event)
         /\ ~Start /\ ~Erase => Coming'[1] = Coming[1]
<1>1. lost = 0 /\ Rounds(Coming)
  BY LockstepStep DEF IInv, InStep
<1>2. /\ NextTile \in Tile /\ Coming \in Seq(Tile) /\ Len(Coming) = Len(Tiles) + 1 /\ Len(Tiles) \in Nat
      /\ \A p \in 1 .. Len(Tiles) : Coming[p] = Tiles[p]
      /\ Coming[Len(Tiles) + 1] = NextTile
  BY ComingFacts
<1>3. CASE Tiles' = Tiles /\ NextTile' = NextTile
  <2>1. Coming' = Coming
    BY <1>3 DEF Coming
  <2>2. Coming[1].event = Coming[1].event /\ ~Erase
    <3>1. nBoards \in Nat \ {0}
      BY Constants
    <3>2. Erase => Len(Tiles') = Len(Tiles) - nBoards
      BY TilesErase
    <3>3. QED
      BY <1>2, <1>3, <3>1, <3>2
  <2>3. QED
    BY <1>1, <2>1, <2>2
<1>4. CASE Start
  <2>1. Tiles' = <<>> /\ NextBoard' = 1 /\ nBoards \in Nat \ {0} /\ ~Erase
    <3>1. Tiles' = <<>>
      BY <1>4, TilesSteps
    <3>2. NextBoard' = 1
      BY <1>4 DEF Start, NextBoard, InRound
    <3>3. ~Erase
      BY <1>4 DEF Start, Erase, IInv, Threads
    <3>4. QED
      BY <3>1, <3>2, <3>3, Constants
  <2> DEFINE x == NextTile'
             u == Append(<<>>, x)
  <2>2. x.board = 1 /\ x = [board |-> 1, event |-> x.event]
    BY <2>1 DEF NextTile
  <2>3. Coming' = u
    BY <2>1 DEF Coming
  <2>4. Len(u) = 1 /\ u[1] = x
    <3>1. <<>> \in Seq({x}) /\ x \in {x} /\ Len(<<>>) = 0
      OBVIOUS
    <3>2. Len(Append(<<>>, x)) = 0 + 1 /\ Append(<<>>, x)[0 + 1] = x
      BY <3>1, AppendFacts
    <3>3. QED
      BY <3>2
  <2> HIDE DEF x, u
  <2>5. ASSUME NEW p \in 1 .. Len(u) PROVE Member(u, p)
    <3>1. p = 1
      BY <2>4
    <3>2. QED
      BY <2>1, <2>2, <2>4, <3>1 DEF Member
  <2>6. Rounds(u)
    BY <2>2, <2>4, <2>5, RoundsIs
  <2>7. QED
    BY <1>4, <2>1, <2>3, <2>6
<1>5. CASE ReadTile
  <2>1. Tiles' = Coming
    BY <1>5, ReadTileFacts DEF Coming
  <2>2. NextTile' = After(Coming[Len(Coming)])
    BY <1>1, <1>2, <1>5, NextTileRead
  <2>3. Coming' = Append(Coming, After(Coming[Len(Coming)]))
    BY <2>1, <2>2 DEF Coming
  <2>4. Coming # <<>> /\ Len(Coming) \in Nat \ {0} /\ Coming[Len(Coming)] \in Tile
    BY <1>2
  <2>5. Rounds(Coming')
    BY <1>1, <1>2, <2>3, <2>4, RoundsAppend
  <2>6. Coming'[1] = Coming[1]
    <3>1. After(Coming[Len(Coming)]) \in Tile /\ 1 \in 1 .. Len(Coming)
      BY <2>4, AfterFacts
    <3>2. QED
      BY <1>2, <2>3, <3>1, AppendFacts
  <2>7. ~Erase
    BY <1>5 DEF ReadTile, Erase, getNext
  <2>8. QED
    BY <2>5, <2>6, <2>7
<1>6. CASE Erase
  <2>1. NextTile' = NextTile
    BY <1>6, NextTileKept DEF GetNext
  <2>2. /\ nBoards <= Len(Tiles) /\ Tiles' \in Seq(Tile) /\ Len(Tiles') = Len(Tiles) - nBoards
        /\ \A p \in 1 .. Len(Tiles) - nBoards : Tiles'[p] = Tiles[nBoards + p]
    BY <1>6, TilesErase
  <2> DEFINE s == Coming
             u == Append(Tiles', NextTile)
             k == Len(Tiles) - nBoards
  <2>3. Coming' = u
    BY <2>1 DEF Coming
  <2>4. /\ u \in Seq(Tile) /\ Len(u) = k + 1 /\ u[k + 1] = NextTile
        /\ \A p \in 1 .. k : u[p] = Tiles'[p]
    BY <1>2, <2>2, AppendFacts
  <2>5. k \in Nat /\ nBoards \in Nat \ {0} /\ Len(Tiles) = nBoards + k /\ Len(s) = nBoards + k + 1
    BY <1>2, <2>2, Constants
  <2>6. /\ s \in Seq(Tile) /\ Rounds(s) /\ s[nBoards + k + 1] = NextTile
        /\ \A p \in 1 .. nBoards + k : s[p] = Tiles[p]
        /\ \A p \in 1 .. k : u[p] = Tiles[nBoards + p]
    BY <1>1, <1>2, <2>2, <2>4, <2>5
  <2> HIDE DEF s, u, k
  <2>7. Len(s) - nBoards = k + 1 /\ nBoards < Len(s)
    BY <2>5
  <2>8. ASSUME NEW p \in 1 .. k + 1 PROVE u[p] = s[nBoards + p]
    <3>1. CASE p = k + 1
      <4>1. nBoards + p = nBoards + k + 1
        BY <2>5, <3>1
      <4>2. QED
        BY <2>4, <2>6, <3>1, <4>1
    <3>2. CASE p # k + 1
      <4>1. p \in 1 .. k /\ nBoards + p \in 1 .. nBoards + k
        BY <2>5, <3>2
      <4>2. QED
        BY <2>6, <4>1
    <3>3. QED
      BY <3>1, <3>2
  <2>9. Rounds(u) /\ u[1].event = Following(s[1].event)
    BY <2>4, <2>6, <2>7, <2>8, RoundsCut
  <2>10. QED
    BY <1>6, <2>3, <2>9 DEF s
<1>7. CASE \/ Trigger \/ StopRequest \/ Control \/ Check \/ waitData \/ AllRead \/ Insert
           \/ Call \/ Look \/ Copy \/ Deliver \/ Inconsistent
  BY <1>3, <1>7, TilesSteps, NextTileKept DEF GetNext
<1>8. ~ReadNothing
  BY <1>1 DEF ReadNothing
<1>9. QED
  BY <1>4, <1>5, <1>6, <1>7, <1>8 DEF Next, GetData, GetNext

(* So the fragment that getNext_ takes is one event, and the next one.     *)
LEMMA FollowsStep ==
  ASSUME IInv, Next, lost' = 0
  PROVE  Follows'
<1>1. lost = 0 /\ Rounds(Coming) /\ Follows /\ CrateFacts /\ Taking /\ Threads
  BY LockstepStep, FactsHold DEF IInv, InStep
<1>2. /\ Erase => Coming'[1].event = Following(Coming[1].event)
      /\ ~Start /\ ~Erase => Coming'[1] = Coming[1]
  BY ComingStep
<1>3. CASE UNCHANGED <<frag, sent>> /\ gn # "check" /\ gn' # "check" /\ ~Start /\ ~Erase
           /\ (ctl' = "monitor" \/ ctl # "monitor")
  BY <1>1, <1>2, <1>3 DEF Follows
<1>4. CASE Start
  BY <1>1, <1>4 DEF Start, Threads, Follows, getNext
<1>5. CASE StartMonitor
  BY <1>5 DEF StartMonitor, Follows
<1>6. CASE Erase
  <2>1. /\ gn = "erase" /\ gn' = "check" /\ UNCHANGED <<frag, sent, ctl>>
    BY <1>6 DEF Erase, control
  <2>2. ASSUME NEW j \in 1 .. nBoards PROVE frag[j].event = Coming[1].event
    <3>1. j \in 1 .. Len(buffer) /\ j \in 1 .. Len(Tiles) /\ frag[j] = buffer[j]
      BY <1>1, <2>1, Constants DEF Taking, CrateFacts
    <3>2. frag[j] = Coming[j] /\ j \in 1 .. Len(Coming)
      BY <1>1, <3>1, ComingFacts DEF CrateFacts
    <3>3. Member(Coming, j)
      BY <1>1, <3>2, RoundsIs
    <3>4. Coming[j] = [board |-> j, event |-> Coming[1].event]
      BY <3>3, Constants DEF Member
    <3>5. QED
      BY <3>2, <3>4
  <2>3. 1 \in 1 .. nBoards
    BY Constants
  <2>4. frag[1].event = Coming[1].event /\ \A j \in 1 .. nBoards : frag[j].event = frag[1].event
    BY <2>2, <2>3
  <2>5. Coming'[1].event = Following(frag[1].event)
    BY <1>2, <1>6, <2>4
  <2>6. sent # <<>> /\ ctl # "monitor" => Following(sent[1].event) = frag[1].event
    BY <1>1, <2>1, <2>4 DEF Follows
  <2>7. QED
    BY <2>1, <2>4, <2>5, <2>6 DEF Follows
<1>7. CASE Deliver
  <2>1. /\ gn = "check" /\ gn' = "between" /\ sent' = frag /\ ~Start /\ ~Erase
    BY <1>7 DEF Deliver, Return, Start, Erase, control, getNext
  <2>2. Coming[1].event = Following(frag[1].event)
    BY <1>1, <2>1 DEF Follows
  <2>3. QED
    BY <1>2, <2>1, <2>2 DEF Follows
<1>8. ~Inconsistent
  <2>1. gn = "check" => \A j \in 2 .. nBoards : j \in 1 .. nBoards
    BY Constants
  <2>2. gn = "check" => Consistent
    BY <1>1, <2>1 DEF Follows, Consistent, ev_num
  <2>3. QED
    BY <2>2 DEF Inconsistent
<1>9. CASE Call \/ Look \/ Copy
  <2>1. /\ UNCHANGED <<sent, ctl>> /\ gn # "check" /\ gn' # "check" /\ ~Start /\ ~Erase
    BY <1>9 DEF Call, Look, Copy, Return, Start, Erase, control
  <2>2. QED
    BY <1>1, <1>2, <2>1 DEF Follows
<1>10. CASE Trigger \/ StopRequest \/ (Control /\ ~StartMonitor) \/ GetData
  <2>1. /\ UNCHANGED <<frag, sent, gn>> /\ ~Start /\ ~Erase
        /\ ctl' = "monitor" \/ ctl # "monitor"
    BY <1>10 DEF Trigger, StopRequest, Control, Stopping, GetData, Check, waitData, ReadTile,
       ReadNothing, AllRead, Insert, Start, Erase, control, getNext, thread
  <2>2. QED
    BY <1>1, <1>2, <2>1 DEF Follows
<1>11. QED
  BY <1>4, <1>5, <1>6, <1>7, <1>8, <1>9, <1>10 DEF Next, GetNext, Control

-----------------------------------------------------------------------------
(* THE FRAGMENT                                                            *)

(* The tiles in front of the buffer that are of one board differ in age,   *)
(* and so in their event number: this is where Aged is needed.             *)
LEMMA FrontDifferent ==
  ASSUME IInv, Erase
  PROVE  Len(frag) = nBoards /\ Different(frag)
<1>1. /\ CrateFacts /\ Aged /\ Len(buffer) >= nBoards /\ Len(frag) = nBoards
      /\ \A k \in 1 .. nBoards : frag[k] = buffer[k]
  BY FactsHold DEF IInv, Taking, Erase
<1>2. ASSUME NEW p \in 1 .. nBoards, NEW q \in 1 .. nBoards, p < q, frag[p].board = frag[q].board
      PROVE  frag[p].event # frag[q].event
  <2>1. /\ p \in 1 .. Len(buffer) /\ q \in 1 .. Len(buffer)
        /\ p \in 1 .. Len(Tiles) /\ q \in 1 .. Len(Tiles)
    BY <1>1, Constants DEF CrateFacts
  <2>2. frag[p] = Tiles[p] /\ frag[q] = Tiles[q]
    BY <1>1, <2>1 DEF CrateFacts
  <2>3. Age(Tiles[p].event) > Age(Tiles[q].event)
    BY <1>1, <1>2, <2>1, <2>2 DEF Aged
  <2>4. Tiles[q] \in Tile /\ Tiles[q].event \in Event
    BY <1>1, <2>1 DEF CrateFacts, Tile
  <2>5. Age(Tiles[q].event) \in Nat
    BY <1>1, <2>4, AgoFacts, Constants DEF CrateFacts
  <2>6. SUFFICES ASSUME Tiles[p].event = Tiles[q].event PROVE FALSE
    BY <2>2
  <2>7. Age(Tiles[p].event) = Age(Tiles[q].event)
    BY <2>6
  <2>8. QED
    BY <2>3, <2>5, <2>7
<1>3. QED
  BY <1>1, <1>2 DEF Different

(* Nothing is taken that is not there: only getNext_ shortens the buffer,  *)
(* and start() comes when it is over.                                      *)
LEMMA TakingStep ==
  ASSUME IInv, Next
  PROVE  Taking'
<1>t. CrateFacts /\ Taking /\ Threads
  BY FactsHold DEF IInv
<1>c. iBoard \in 0 .. nBoards /\ nBoards \in Nat \ {0} /\ Len(buffer) \in Nat
  BY <1>t, Constants DEF IInv, TypeOK, CrateFacts
<1>1. CASE UNCHANGED <<gn, iBoard, frag, buffer>>
  BY <1>1, <1>t DEF Taking, Different
<1>2. CASE gn' \in {"between", "over"}
  BY <1>2 DEF Taking
<1>3. CASE Start
  BY <1>2, <1>3, <1>t DEF Start, Threads, getNext
<1>4. CASE Insert
  <2>1. UNCHANGED <<gn, iBoard, frag>> /\ buffer' = Append(buffer, tilebuf)
    BY <1>4 DEF Insert, getNext
  <2>2. Len(buffer') = Len(buffer) + 1 /\ \A k \in 1 .. Len(buffer) : buffer'[k] = buffer[k]
    BY <1>t, <2>1, AppendFacts DEF CrateFacts
  <2>3. /\ Len(buffer) >= nBoards => Len(buffer') >= nBoards
        /\ iBoard <= Len(buffer) => iBoard <= Len(buffer')
        /\ Len(buffer) >= nBoards => \A k \in 1 .. nBoards : buffer'[k] = buffer[k]
    BY <1>c, <2>2
  <2>4. QED
    BY <1>t, <2>1, <2>3 DEF Taking, Different
<1>5. CASE Call
  <2>1. iBoard' = 0 /\ gn' \in {"over", "look"} /\ Len(buffer') = Len(buffer)
    BY <1>5 DEF Call, Return
  <2>2. QED
    BY <1>c, <2>1 DEF Taking
<1>6. CASE Look
  <2>1. UNCHANGED <<buffer, frag>> /\ gn = "look" /\ iBoard <= Len(buffer)
    BY <1>6, <1>t DEF Look, Taking
  <2>2. CASE iBoard = nBoards
    BY <1>6, <2>1, <2>2 DEF Look, Taking
  <2>3. CASE iBoard # nBoards
    BY <1>6, <1>c, <2>1, <2>3 DEF Look, Taking, Return
  <2>4. QED
    BY <2>2, <2>3
<1>7. CASE Copy
  <2>1. UNCHANGED buffer /\ gn' = "erase" /\ frag' = SubSeq(buffer, 1, nBoards)
        /\ nBoards <= Len(buffer)
    BY <1>7, <1>t DEF Copy, Taking
  <2>2. Len(frag') = nBoards /\ \A k \in 1 .. nBoards : frag'[k] = buffer[k]
    BY <1>c, <1>t, <2>1, CutFacts DEF CrateFacts
  <2>3. QED
    BY <2>1, <2>2 DEF Taking
<1>8. CASE Erase
  <2>1. gn' = "check" /\ frag' = frag
    BY <1>8 DEF Erase
  <2>2. QED
    BY <1>8, <2>1, FrontDifferent DEF Taking, Different
<1>9. CASE Deliver \/ Inconsistent
  BY <1>2, <1>9 DEF Deliver, Inconsistent, Return
<1>10. CASE StartMonitor
  BY <1>2, <1>10 DEF StartMonitor
<1>11. CASE \/ Trigger \/ StopRequest \/ (Control /\ ~StartMonitor)
            \/ Check \/ waitData \/ ReadTile \/ ReadNothing \/ AllRead
  BY <1>1, <1>11 DEF Trigger, StopRequest, Control, Check, waitData, ReadTile, ReadNothing, AllRead,
     getNext
<1>12. QED
  BY <1>3, <1>4, <1>5, <1>6, <1>7, <1>8, <1>9, <1>10, <1>11 DEF Next, Control, GetData, GetNext

(* A sequence of as many different boards as there are names all of them.  *)
LEMMA AllBoards ==
  ASSUME NEW s \in Seq(Tile), Len(s) = nBoards, Different(s),
         \A j \in 1 .. Len(s) : s[j].event = s[1].event
  PROVE  {s[j].board : j \in DOMAIN s} = Board
<1> DEFINE f == [j \in 1 .. nBoards |-> s[j].board]
<1>1. nBoards \in Nat \ {0} /\ DOMAIN s = 1 .. nBoards /\ Board = 1 .. nBoards
  BY Constants DEF Board
<1>2. \A j \in 1 .. nBoards : s[j] \in Tile /\ s[j].board \in Board
  <2>1. \A j \in 1 .. nBoards : s[j] \in Tile
    BY <1>1
  <2>2. \A t \in Tile : t.board \in Board
    BY DEF Tile
  <2>3. QED
    BY <2>1, <2>2
<1>3. f \in [1 .. nBoards -> Board]
  BY <1>2
<1>4. ASSUME NEW p \in 1 .. nBoards, NEW q \in 1 .. nBoards, f[p] = f[q] PROVE p = q
  <2>1. s[p].board = s[q].board /\ s[p].event = s[q].event
    BY <1>4
  <2>2. ~(p < q) /\ ~(q < p)
    BY <2>1 DEF Different
  <2>3. QED
    BY <1>1, <2>2
<1>5. f \in Injection(1 .. nBoards, Board)
  BY <1>3, <1>4 DEF Injection, IsInjective
<1>6. IsFiniteSet(Board)
  BY <1>1, FS_Interval
<1>7. f \in Surjection(1 .. nBoards, Board)
  <2> HIDE DEF f
  <2>1. Cardinality(1 .. nBoards) = Cardinality(Board)
    BY <1>1
  <2>2. QED
    BY <1>5, <1>6, <2>1, FS_Injection
<1>8. \A b \in Board : \E j \in 1 .. nBoards : f[j] = b
  <2> HIDE DEF f
  <2>1. QED
    BY <1>7 DEF Surjection
<1>9. \A b \in Board : \E j \in 1 .. nBoards : s[j].board = b
  BY <1>8
<1> HIDE DEF f
<1> DEFINE B == {s[j].board : j \in 1 .. nBoards}
<1>10. \A b \in Board : b \in B
  BY <1>9
<1>11. \A b \in B : b \in Board
  BY <1>2
<1>12. B = Board
  <2> HIDE DEF B
  <2>1. QED
    BY <1>10, <1>11
<1>13. QED
  BY <1>1, <1>12

(* What passes the comparison of event numbers is one whole event.         *)
LEMMA FragmentsWholeStep ==
  ASSUME IInv, Next
  PROVE  FragmentsWhole'
<1>t. FragmentsWhole /\ Taking /\ frag \in Seq(Tile)
  BY DEF IInv, TypeOK
<1>1. CASE UNCHANGED sent
  BY <1>1, <1>t DEF FragmentsWhole
<1>2. CASE StartMonitor
  BY <1>2 DEF StartMonitor, FragmentsWhole
<1>3. CASE Deliver
  <2>1. sent' = frag /\ gn = "check" /\ \A j \in 2 .. nBoards : frag[j].event = frag[1].event
    BY <1>3 DEF Deliver, Consistent, ev_num
  <2>2. Len(frag) = nBoards /\ Different(frag)
    BY <1>t, <2>1 DEF Taking
  <2>3. \A j \in 1 .. Len(frag) : frag[j].event = frag[1].event
    BY <2>1, <2>2, Constants
  <2>4. {frag[j].board : j \in DOMAIN frag} = Board
    BY <1>t, <2>2, <2>3, AllBoards
  <2>5. \A j \in DOMAIN frag : frag[j].event = frag[1].event
    BY <1>t, <2>3
  <2>6. QED
    BY <2>1, <2>4, <2>5 DEF FragmentsWhole
<1>4. CASE \/ Trigger \/ Start \/ StopRequest \/ (Control /\ ~StartMonitor) \/ GetData
           \/ Call \/ Look \/ Copy \/ Erase \/ Inconsistent
  <2>1. UNCHANGED sent
    BY <1>4 DEF Trigger, Start, StopRequest, Control, GetData, Check, waitData, ReadTile, ReadNothing,
       AllRead, Insert, Call, Look, Copy, Erase, Inconsistent, getNext
  <2>2. QED
    BY <1>1, <2>1
<1>5. QED
  BY <1>2, <1>3, <1>4 DEF Next, Control, GetNext

-----------------------------------------------------------------------------
(* THE INVARIANT                                                           *)

(* Types of the locations and flags.                                       *)
LEMMA ControlTypes ==
  ASSUME IInv, Next
  PROVE  /\ ctl' \in {"idle", "monitor", "run", "stopMonitor", "stopGetData", "joinGetData",
                      "flag", "mutex", "joinGetNext"}
         /\ again' \in BOOLEAN /\ should_stop' \in BOOLEAN /\ stopRunning' \in BOOLEAN
         /\ monitor' \in {"off", "on"}
         /\ getData' \in {"off", "check", "waitData", "dataAvail", "insert"}
         /\ gn' \in {"between", "look", "copy", "erase", "check", "over"}
<1>t. /\ ctl \in {"idle", "monitor", "run", "stopMonitor", "stopGetData", "joinGetData",
                  "flag", "mutex", "joinGetNext"}
      /\ again \in BOOLEAN /\ should_stop \in BOOLEAN /\ stopRunning \in BOOLEAN
      /\ monitor \in {"off", "on"}
      /\ getData \in {"off", "check", "waitData", "dataAvail", "insert"}
      /\ gn \in {"between", "look", "copy", "erase", "check", "over"}
  BY DEF IInv, TypeOK
<1>1. CASE Trigger
  BY <1>t, <1>1 DEF Trigger, control, thread, getNext
<1>2. CASE Start
  BY <1>t, <1>2 DEF Start, getNext
<1>3. CASE StopRequest
  BY <1>t, <1>3 DEF StopRequest, thread, getNext
<1>4. CASE StartMonitor
  BY <1>t, <1>4 DEF StartMonitor, thread
<1>5. CASE Control /\ ~StartMonitor
  <2>1. Stopping /\ UNCHANGED <<getData, gn>>
    BY <1>5 DEF Control, getNext
  <2>2. QED
    BY <1>t, <2>1 DEF Stopping
<1>6. CASE GetData
  BY <1>t, <1>6 DEF GetData, Check, waitData, ReadTile, ReadNothing, AllRead, Insert, control, getNext
<1>7. CASE GetNext
  BY <1>t, <1>7 DEF GetNext, Call, Look, Copy, Erase, Deliver, Inconsistent, Return, control, thread
<1>8. QED
  BY <1>1, <1>2, <1>3, <1>4, <1>5, <1>6, <1>7 DEF Next

(* Types of what GetData reads, and of the crate.                          *)
LEMMA CrateTypes ==
  ASSUME IInv, Next
  PROVE  /\ presBoard' \in 1 .. nBoards + 1 /\ tilebuf' \in Tile
         /\ \A b \in Board : Len(stored'[b]) <= BoardDepth
         /\ nextEvent' \in Event /\ lost' \in 0 .. MaxLost
<1>t. CrateFacts
  BY FactsHold
<1>0. \A b \in Board : Len(stored[b]) <= BoardDepth
  BY <1>t, Constants DEF CrateFacts
<1>1. CASE UNCHANGED <<presBoard, tilebuf, stored, nextEvent, lost>>
  BY <1>t, <1>0, <1>1 DEF CrateFacts
<1>2. CASE Trigger
  <2>1. UNCHANGED <<presBoard, tilebuf, lost>> /\ nextEvent' \in Event
    BY <1>2, TriggerStored DEF Trigger, thread
  <2>2. ASSUME NEW b \in Board PROVE Len(stored'[b]) <= BoardDepth
    <3>1. Len(stored[b]) \in 0 .. BoardDepth - 1 /\ Len(stored'[b]) = Len(stored[b]) + 1
      BY <1>2, TriggerStored
    <3>2. QED
      BY <3>1, Constants
  <2>3. QED
    BY <1>t, <2>1, <2>2 DEF CrateFacts
<1>3. CASE Start
  <2>1. UNCHANGED <<presBoard, tilebuf, lost>>
    BY <1>3 DEF Start
  <2>2. CASE stored' = [b \in Board |-> <<>>] /\ nextEvent' = 0
    <3>1. \A b \in Board : Len(stored'[b]) = 0
      BY <2>2
    <3>2. QED
      BY <1>t, <2>1, <2>2, <3>1, Constants DEF CrateFacts, Event
  <2>3. QED
    BY <1>1, <1>3, <2>1, <2>2 DEF Start
<1>4. CASE Check
  <2>1. /\ UNCHANGED <<tilebuf, stored, nextEvent, lost>> /\ presBoard' \in {presBoard, 1}
    BY <1>4 DEF Check, crate
  <2>2. QED
    BY <1>t, <1>0, <2>1, Constants DEF CrateFacts
<1>5. CASE ReadTile
  <2>1. /\ presBoard \in Board /\ stored[presBoard] # <<>> /\ nextEvent' = nextEvent /\ lost' = lost
        /\ stored' = [stored EXCEPT ![presBoard] = Tail(stored[presBoard])]
        /\ presBoard' = presBoard + 1 /\ tilebuf' \in Tile
    BY <1>5, ReadTileFacts DEF ReadTile
  <2>2. \A c \in Board : Len(stored'[c]) \in 0 .. BoardDepth
    BY <2>1, Popped
  <2>3. QED
    BY <1>t, <2>1, <2>2, Constants DEF CrateFacts, Board
<1>6. CASE ReadNothing
  <2>1. /\ presBoard \in Board /\ stored[presBoard] # <<>> /\ UNCHANGED <<nextEvent, tilebuf>>
        /\ presBoard' = presBoard + 1 /\ lost' = lost + 1 /\ lost < MaxLost
        /\ \/ stored' = [stored EXCEPT ![presBoard] = Tail(stored[presBoard])]
           \/ stored' = stored
    BY <1>6, <1>t, Constants DEF ReadNothing, CrateFacts, Board
  <2>2. \A c \in Board : Len(stored'[c]) \in 0 .. BoardDepth
    BY <1>t, <2>1, Popped DEF CrateFacts
  <2>3. lost' \in 0 .. MaxLost /\ presBoard' \in 1 .. nBoards + 1
    BY <1>t, <2>1, Constants DEF CrateFacts, Board
  <2>4. QED
    BY <1>t, <2>1, <2>2, <2>3, Constants DEF CrateFacts
<1>7. CASE StopRequest \/ Control \/ waitData \/ AllRead \/ Insert \/ GetNext
  <2>1. UNCHANGED <<presBoard, tilebuf, stored, nextEvent, lost>>
    BY <1>7 DEF StopRequest, Control, StartMonitor, waitData, AllRead, Insert, GetNext,
       Call, Look, Copy, Erase, Deliver, Inconsistent, crate, thread
  <2>2. QED
    BY <1>1, <2>1
<1>8. QED
  BY <1>2, <1>3, <1>4, <1>5, <1>6, <1>7 DEF Next, GetData

(* Types of the buffer and of what getNext_ holds.                         *)
LEMMA BufferTypes ==
  ASSUME IInv, Next
  PROVE  /\ buffer' \in Seq(Tile) /\ Len(buffer') <= Capacity
         /\ iBoard' \in 0 .. nBoards /\ event_offset_' \in {0, 1}
         /\ frag' \in Seq(Tile) /\ sent' \in Seq(Tile)
<1>t. /\ CrateFacts /\ buffer \in Seq(Tile) /\ Len(buffer) \in Nat /\ Len(buffer) <= Capacity
      /\ iBoard \in 0 .. nBoards /\ event_offset_ \in {0, 1}
      /\ frag \in Seq(Tile) /\ sent \in Seq(Tile)
  BY FactsHold, Constants DEF CrateFacts, IInv, TypeOK
<1>e. <<>> \in Seq(Tile) /\ Len(<<>>) = 0
  OBVIOUS
<1>1. CASE Start \/ StartMonitor
  <2>1. /\ UNCHANGED <<iBoard, event_offset_, frag>>
        /\ buffer' = buffer \/ buffer' = <<>>
        /\ sent' = sent \/ sent' = <<>>
    BY <1>1 DEF Start, StartMonitor, getNext
  <2>2. buffer' \in Seq(Tile) /\ Len(buffer') <= Capacity
    <3>1. CASE buffer' = buffer
      BY <1>t, <3>1
    <3>2. CASE buffer' = <<>>
      <4>1. Len(buffer') = 0 /\ 0 <= Capacity
        BY <3>2, Constants
      <4>2. QED
        BY <1>e, <3>2, <4>1
    <3>3. QED
      BY <2>1, <3>1, <3>2
  <2>3. QED
    BY <1>t, <1>e, <2>1, <2>2
<1>2. CASE Insert
  <2>1. /\ buffer' = Append(buffer, tilebuf) /\ Len(buffer) < Capacity
        /\ UNCHANGED <<iBoard, event_offset_, frag, sent>>
    BY <1>2 DEF Insert, getNext
  <2>2. buffer' \in Seq(Tile) /\ Len(buffer') = Len(buffer) + 1
    BY <1>t, <2>1, AppendFacts DEF CrateFacts
  <2>3. QED
    BY <1>t, <2>1, <2>2, Constants
<1>3. CASE Call \/ Look
  <2>1. UNCHANGED <<buffer, event_offset_, frag, sent>>
    BY <1>3 DEF Call, Look
  <2>2. iBoard' \in {0, iBoard} \/ (iBoard # nBoards /\ iBoard' = iBoard + 1)
    BY <1>3 DEF Call, Look
  <2>3. iBoard' \in 0 .. nBoards
    BY <1>t, <2>2, Constants
  <2>4. QED
    BY <1>t, <2>1, <2>3
<1>4. CASE Copy
  <2>1. /\ frag' = SubSeq(buffer, 1, nBoards) /\ nBoards <= Len(buffer)
        /\ UNCHANGED <<buffer, iBoard, event_offset_, sent>>
    BY <1>4 DEF Copy, IInv, Taking
  <2>2. frag' \in Seq(Tile)
    BY <1>t, <2>1, CutFacts, Constants
  <2>3. QED
    BY <1>t, <2>1, <2>2
<1>5. CASE Erase
  <2>1. /\ buffer' = SubSeq(buffer, nBoards + 1, Len(buffer)) /\ nBoards <= Len(buffer)
        /\ UNCHANGED <<frag, iBoard, event_offset_, sent>>
    BY <1>5 DEF Erase, IInv, Taking
  <2>2. buffer' \in Seq(Tile) /\ Len(buffer') = Len(buffer) - nBoards
    BY <1>t, <2>1, CutFacts, Constants
  <2>3. QED
    BY <1>t, <2>1, <2>2, Constants
<1>6. CASE Deliver
  BY <1>t, <1>6 DEF Deliver
<1>7. CASE \/ Trigger \/ StopRequest \/ (Control /\ ~StartMonitor)
           \/ Check \/ waitData \/ ReadTile \/ ReadNothing \/ AllRead \/ Inconsistent
  <2>1. UNCHANGED <<buffer, iBoard, event_offset_, frag, sent>>
    BY <1>7 DEF Trigger, StopRequest, Control, Check, waitData, ReadTile, ReadNothing, AllRead,
       Inconsistent, getNext
  <2>2. QED
    BY <1>t, <2>1
<1>8. QED
  BY <1>1, <1>2, <1>3, <1>4, <1>5, <1>6, <1>7 DEF Next, Control, GetData, GetNext

(* The initial states.                                                     *)
LEMMA InitIInv == Init => IInv
<1> SUFFICES ASSUME Init PROVE IInv
  OBVIOUS
<1>c. /\ nBoards \in Nat \ {0} /\ Events \in Nat \ {0} /\ 1 \in Board /\ 0 \in Event
      /\ BoardDepth \in Nat /\ MaxLost \in Nat /\ Capacity \in Nat
  BY Constants DEF Board, Event
<1>e. <<>> \in Seq(Tile) /\ <<>> \in Seq(Event) /\ Len(<<>>) = 0 /\ \A p : p \notin 1 .. 0
  OBVIOUS
<1>s. /\ \A b \in Board : stored[b] = <<>> /\ stored[b] \in Seq(Event) /\ Len(stored[b]) = 0
      /\ stored \in [Board -> Seq(Event)]
  BY <1>e DEF Init
<1>t. NoTile \in Tile
  BY <1>c DEF NoTile, Tile
<1>1. TypeOK
  <2>1. {again, should_stop, stopRunning} \subseteq BOOLEAN
    BY DEF Init
  <2>2. \A b \in Board : stored[b] \in Seq(Event) /\ Len(stored[b]) <= BoardDepth
    BY <1>s, <1>c
  <2>3. buffer \in Seq(Tile) /\ Len(buffer) <= Capacity /\ {frag, sent} \subseteq Seq(Tile)
    BY <1>e, <1>c DEF Init
  <2>4. QED
    BY <1>c, <1>t, <2>1, <2>2, <2>3 DEF Init, TypeOK
<1>2. Threads
  BY DEF Init, Threads
<1>3. Kept
  BY <1>s, <1>e DEF Kept
<1>4. Tiles = <<>> /\ NextBoard = 1 /\ Len(stored[1]) = 0
  BY <1>s, <1>c DEF Init, Tiles, NextBoard, InRound
<1>5. Aged
  BY <1>4, <1>e DEF Aged
<1>6. Taking /\ FragmentsWhole
  BY DEF Init, Taking, FragmentsWhole
<1>7. Lockstep
  BY <1>s DEF Init, Lockstep, Round, InRound
<1>8. InStep
  <2> DEFINE x == NextTile
  <2>1. x = [board |-> 1, event |-> Ago(0)] /\ x \in {x}
    BY <1>4 DEF NextTile
  <2>2. Coming = Append(<<>>, x) /\ <<>> \in Seq({x})
    BY <1>4 DEF Coming
  <2> HIDE DEF x
  <2>3. Len(Coming) = 0 + 1 /\ Coming[0 + 1] = x
    BY <2>1, <2>2, <1>e, AppendFacts
  <2>4. Len(Coming) = 1 /\ Coming[1] = x
    BY <2>3
  <2>5. ASSUME NEW p \in 1 .. Len(Coming) PROVE Member(Coming, p)
    <3>1. p = 1
      BY <2>4
    <3>2. QED
      BY <1>c, <2>1, <2>4, <3>1 DEF Member
  <2>6. Coming[1].board = 1
    BY <2>1, <2>4
  <2>7. Rounds(Coming)
    BY <2>5, <2>6, RoundsIs
  <2>8. Follows
    BY DEF Init, Follows
  <2>9. QED
    BY <2>7, <2>8 DEF InStep
<1>9. QED
  BY <1>1, <1>2, <1>3, <1>5, <1>6, <1>7, <1>8 DEF IInv

(* Every step keeps the invariant.                                         *)
LEMMA NextIInv == IInv /\ [Next]_vars => IInv'
<1> SUFFICES ASSUME IInv, [Next]_vars PROVE IInv'
  OBVIOUS
<1>1. CASE Next
  <2>1. TypeOK'
    <3>1. {again', should_stop', stopRunning'} \subseteq BOOLEAN
      BY <1>1, ControlTypes
    <3>2. {frag', sent'} \subseteq Seq(Tile)
      BY <1>1, BufferTypes
    <3>3. stored' \in [Board -> Seq(Event)]
      BY <1>1, KeptStep DEF Kept
    <3>4. \A b \in Board : stored'[b] \in Seq(Event) /\ Len(stored'[b]) <= BoardDepth
      BY <1>1, <3>3, CrateTypes
    <3>5. QED
      BY <1>1, <3>1, <3>2, <3>4, ControlTypes, CrateTypes, BufferTypes DEF TypeOK
  <2>2. Threads' /\ Kept' /\ Aged' /\ Taking' /\ FragmentsWhole'
    BY <1>1, ThreadsStep, KeptStep, AgedStep, TakingStep, FragmentsWholeStep
  <2>3. Lockstep'
    BY <1>1, LockstepStep DEF Lockstep
  <2>4. ASSUME lost' = 0 PROVE Rounds(Coming)' /\ Follows'
    BY <1>1, <2>4, ComingStep, FollowsStep DEF Rounds, After, Following
  <2>5. QED
    BY <2>1, <2>2, <2>3, <2>4 DEF IInv, InStep
<1>2. CASE UNCHANGED vars
  <2>0. UNCHANGED <<ctl, again, should_stop, monitor, getData, stopRunning, presBoard, tilebuf,
                    stored, nextEvent, lost, buffer, gn, iBoard, frag, event_offset_, sent>>
    BY <1>2 DEF vars, control, thread, crate, getNext
  <2>1. TypeOK' /\ Threads' /\ Taking' /\ FragmentsWhole'
    BY <2>0 DEF IInv, TypeOK, Threads, Taking, Different, FragmentsWhole
  <2>2. Tiles' = Tiles /\ \A n : Ago(n)' = Ago(n)
    BY <2>0 DEF Tiles, Ago
  <2>3. Kept'
    BY <2>0 DEF IInv, Kept, Ago
  <2>4. Aged'
    BY <2>0, <2>2 DEF IInv, Aged, Age
  <2>5. Lockstep'
    BY <2>0 DEF IInv, Lockstep, Round, InRound
  <2>6. Coming' = Coming
    BY <2>0, <2>2 DEF Coming, NextTile, NextBoard, InRound, Ago
  <2>7. InStep'
    BY <2>0, <2>6 DEF IInv, InStep, Rounds, Follows
  <2>8. QED
    BY <2>1, <2>3, <2>4, <2>5, <2>7 DEF IInv
<1>3. QED
  BY <1>1, <1>2

-----------------------------------------------------------------------------
(* THEOREMS                                                                *)

(* The inductive invariant holds in every reachable state.                 *)
THEOREM Invariance == Spec => []IInv
<1>1. QED
  BY InitIInv, NextIInv, PTL DEF Spec

(* Whatever block transfers fail, a fragment that reaches artdaq holds one *)
(* tile of each board, of one event (PhysCrate_GeneratorBase.cc:299-313),  *)
(* and no thread of a run is left when the next one makes the buffer anew. *)
THEOREM WholeFragments == Spec => []Inv
<1>1. IInv => Inv
  BY DEF IInv, Inv, Threads, QuietWhenIdle
<1>2. QED
  BY <1>1, Invariance, PTL

(* While no block transfer fails, the fragments of a run are consecutive   *)
(* events: none is left out, sent twice or put together of two events,     *)
(* whatever the buffer and the boards hold when a run starts or stops.     *)
THEOREM ConsecutiveEvents == Spec => EventsConsecutive
<1> DEFINE InOrder == lost' = 0 /\ sent # <<>> /\ sent' # sent /\ sent' # <<>>
                        => sent'[1].event = Following(sent[1].event)
<1>1. ASSUME IInv, [Next]_vars PROVE InOrder \/ UNCHANGED vars
  <2> SUFFICES ASSUME Next, lost' = 0, sent # <<>>, sent' # sent, sent' # <<>>
               PROVE  sent'[1].event = Following(sent[1].event)
    BY <1>1
  <2>1. Deliver
    BY DEF Next, Trigger, Start, StopRequest, Control, StartMonitor, GetData, Check, waitData, ReadTile,
       ReadNothing, AllRead, Insert, GetNext, Call, Look, Copy, Erase, Inconsistent, getNext
  <2>2. lost = 0 /\ Follows /\ Threads
    BY <1>1, LockstepStep DEF IInv, InStep
  <2>3. gn = "check" /\ sent' = frag
    BY <2>1 DEF Deliver
  <2>4. QED
    BY <2>2, <2>3 DEF Follows, Threads
<1>2. QED
  BY <1>1, Invariance, PTL DEF Spec, EventsConsecutive
=============================================================================
