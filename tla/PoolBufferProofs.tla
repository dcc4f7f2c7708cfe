-------------------------- MODULE PoolBufferProofs --------------------------
(***************************************************************************)
(* Proofs about PoolBuffer, for every number of blocks and any sets of     *)
(* threads and payloads.                                                   *)
(***************************************************************************)
EXTENDS PoolBuffer, FiniteSetTheorems, TLAPS

-----------------------------------------------------------------------------
(* Lists of blocks without repetition and the sets of their elements.      *)

(* Putting a block on top of the free stack (returnFreeBlock) adds that    *)
(* block and, if it was not there, leaves no repetition.                   *)
LEMMA PushLemma ==
  ASSUME NEW S, NEW s \in Seq(S), NEW x \in S
  PROVE  /\ <<x>> \o s \in Seq(S)
         /\ Range(<<x>> \o s) = Range(s) \cup {x}
         /\ NoRepeat(s) /\ x \notin Range(s) => NoRepeat(<<x>> \o s)
<1> DEFINE t == <<x>> \o s
<1>1. t \in Seq(S) /\ Len(t) = Len(s) + 1 /\ Len(s) \in Nat
  OBVIOUS
<1>2. t[1] = x /\ \A k \in 1 .. Len(s) : t[k + 1] = s[k]
  OBVIOUS
<1>3. \A k \in 2 .. Len(t) : k - 1 \in 1 .. Len(s) /\ t[k] = s[k - 1]
  BY <1>1, <1>2
<1>4. DOMAIN t = 1 .. Len(t) /\ DOMAIN s = 1 .. Len(s)
  BY <1>1
<1> HIDE DEF t
<1>5. Range(t) = Range(s) \cup {x}
  <2>1. ASSUME NEW y \in Range(t) PROVE y \in Range(s) \cup {x}
    <3>1. PICK k \in 1 .. Len(t) : y = t[k]
      BY <1>4 DEF Range
    <3>2. CASE k = 1
      BY <1>2, <3>1, <3>2
    <3>3. CASE k # 1
      <4>1. k - 1 \in DOMAIN s /\ y = s[k - 1]
        BY <1>1, <1>3, <1>4, <3>1, <3>3
      <4>2. QED
        BY <4>1 DEF Range
    <3>4. QED
      BY <3>2, <3>3
  <2>2. ASSUME NEW y \in Range(s) PROVE y \in Range(t)
    <3>1. PICK k \in 1 .. Len(s) : y = s[k]
      BY <1>4 DEF Range
    <3>2. k + 1 \in 1 .. Len(t) /\ t[k + 1] = y
      BY <1>1, <1>2, <3>1
    <3>3. QED
      BY <1>4, <3>2 DEF Range
  <2>3. x \in Range(t)
    <3>1. 1 \in DOMAIN t
      BY <1>1, <1>4
    <3>2. QED
      BY <1>2, <3>1 DEF Range
  <2>4. QED
    BY <2>1, <2>2, <2>3
<1>6. ASSUME NoRepeat(s), x \notin Range(s)
      PROVE  NoRepeat(t)
  <2>1. \A k \in 1 .. Len(s) : s[k] # x
    BY <1>4, <1>6 DEF Range
  <2>2. SUFFICES ASSUME NEW i \in 1 .. Len(t), NEW j \in 1 .. Len(t), t[i] = t[j]
                 PROVE  i = j
    BY DEF NoRepeat
  <2>3. CASE i = 1 \/ j = 1
    BY <1>1, <1>2, <1>3, <2>1, <2>2, <2>3
  <2>4. CASE i # 1 /\ j # 1
    BY <1>1, <1>3, <1>6, <2>2, <2>4 DEF NoRepeat
  <2>5. QED
    BY <2>3, <2>4
<1>7. QED
  BY <1>1, <1>5, <1>6 DEF t

(* The same for a block put at the back of the active queue                *)
(* (returnActiveBlock).                                                    *)
LEMMA AppendLemma ==
  ASSUME NEW S, NEW s \in Seq(S), NEW x \in S
  PROVE  /\ Append(s, x) \in Seq(S)
         /\ Range(Append(s, x)) = Range(s) \cup {x}
         /\ NoRepeat(s) /\ x \notin Range(s) => NoRepeat(Append(s, x))
<1> DEFINE t == Append(s, x)
<1>1. t \in Seq(S) /\ Len(t) = Len(s) + 1 /\ Len(s) \in Nat
  OBVIOUS
<1>2. t[Len(t)] = x /\ \A k \in 1 .. Len(s) : t[k] = s[k]
  OBVIOUS
<1>3. DOMAIN t = 1 .. Len(t) /\ DOMAIN s = 1 .. Len(s)
  BY <1>1
<1> HIDE DEF t
<1>4. \A k \in 1 .. Len(t) : k # Len(t) => k \in 1 .. Len(s)
  BY <1>1
<1>5. Range(t) = Range(s) \cup {x}
  <2>1. ASSUME NEW y \in Range(t) PROVE y \in Range(s) \cup {x}
    BY <1>2, <1>3, <1>4 DEF Range
  <2>2. ASSUME NEW y \in Range(s) PROVE y \in Range(t)
    <3>1. PICK k \in 1 .. Len(s) : y = s[k]
      BY <1>3 DEF Range
    <3>2. k \in 1 .. Len(t) /\ t[k] = y
      BY <1>1, <1>2, <3>1
    <3>3. QED
      BY <1>3, <3>2 DEF Range
  <2>3. x \in Range(t)
    <3>1. Len(t) \in DOMAIN t
      BY <1>1, <1>3
    <3>2. QED
      BY <1>2, <3>1 DEF Range
  <2>4. QED
    BY <2>1, <2>2, <2>3
<1>6. ASSUME NoRepeat(s), x \notin Range(s)
      PROVE  NoRepeat(t)
  <2>1. \A k \in 1 .. Len(s) : s[k] # x
    BY <1>3, <1>6 DEF Range
  <2>2. SUFFICES ASSUME NEW i \in 1 .. Len(t), NEW j \in 1 .. Len(t), t[i] = t[j]
                 PROVE  i = j
    BY DEF NoRepeat
  <2>3. CASE i = Len(t) \/ j = Len(t)
    BY <1>2, <1>4, <2>1, <2>2, <2>3
  <2>4. CASE i # Len(t) /\ j # Len(t)
    BY <1>2, <1>4, <1>6, <2>2, <2>4 DEF NoRepeat
  <2>5. QED
    BY <2>3, <2>4
<1>7. QED
  BY <1>1, <1>5, <1>6 DEF t

(* Taking the top or the front (takeFreeBlock, takeActiveBlock) removes    *)
(* exactly that block.                                                     *)
LEMMA TailLemma ==
  ASSUME NEW S, NEW s \in Seq(S), s # <<>>
  PROVE  /\ Head(s) \in S
         /\ Tail(s) \in Seq(S)
         /\ Len(s) \in Nat \ {0}
         /\ Len(Tail(s)) = Len(s) - 1
         /\ Range(s) = Range(Tail(s)) \cup {Head(s)}
         /\ NoRepeat(s) => NoRepeat(Tail(s)) /\ Head(s) \notin Range(Tail(s))
<1> DEFINE t == Tail(s)
<1>1. Head(s) = s[1] /\ Head(s) \in S /\ t \in Seq(S)
  OBVIOUS
<1>2. Len(s) \in Nat \ {0} /\ Len(t) = Len(s) - 1
  OBVIOUS
<1>3. \A k \in 1 .. Len(t) : k + 1 \in 1 .. Len(s) /\ t[k] = s[k + 1]
  OBVIOUS
<1>4. DOMAIN t = 1 .. Len(t) /\ DOMAIN s = 1 .. Len(s)
  BY <1>1
<1> HIDE DEF t
<1>5. \A k \in 2 .. Len(s) : k - 1 \in 1 .. Len(t) /\ s[k] = t[k - 1]
  BY <1>2, <1>3
<1>6. Range(s) = Range(t) \cup {Head(s)}
  <2>1. ASSUME NEW y \in Range(s) PROVE y \in Range(t) \cup {Head(s)}
    <3>1. PICK k \in 1 .. Len(s) : y = s[k]
      BY <1>4 DEF Range
    <3>2. CASE k = 1
      BY <1>1, <3>1, <3>2
    <3>3. CASE k # 1
      <4>1. k - 1 \in DOMAIN t /\ y = t[k - 1]
        BY <1>2, <1>4, <1>5, <3>1, <3>3
      <4>2. QED
        BY <4>1 DEF Range
    <3>4. QED
      BY <3>2, <3>3
  <2>2. ASSUME NEW y \in Range(t) PROVE y \in Range(s)
    BY <1>3, <1>4 DEF Range
  <2>3. Head(s) \in Range(s)
    <3>1. 1 \in DOMAIN s
      BY <1>2, <1>4
    <3>2. QED
      BY <1>1, <3>1 DEF Range
  <2>4. QED
    BY <2>1, <2>2, <2>3
<1>7. ASSUME NoRepeat(s)
      PROVE  NoRepeat(t) /\ Head(s) \notin Range(t)
  <2>1. NoRepeat(t)
    <3>1. SUFFICES ASSUME NEW i \in 1 .. Len(t), NEW j \in 1 .. Len(t), t[i] = t[j]
                   PROVE  i = j
      BY DEF NoRepeat
    <3>2. i + 1 = j + 1
      BY <1>3, <1>7, <3>1 DEF NoRepeat
    <3>3. QED
      BY <1>2, <3>2
  <2>2. ASSUME NEW k \in 1 .. Len(t) PROVE t[k] # Head(s)
    <3>1. k + 1 \in 1 .. Len(s) /\ 1 \in 1 .. Len(s) /\ k + 1 # 1
      BY <1>2, <1>3
    <3>2. QED
      BY <1>1, <1>3, <1>7, <3>1 DEF NoRepeat
  <2>3. QED
    BY <1>4, <2>1, <2>2 DEF Range
<1>8. QED
  BY <1>1, <1>2, <1>6, <1>7 DEF t

(* An emptied list, as deallocate() leaves it, has no block.               *)
LEMMA EmptyLemma == Range(<<>>) = {} /\ NoRepeat(<<>>) /\ Len(<<>>) = 0
  BY DEF Range, NoRepeat

(* A list without repetition has as many elements as its length.           *)
LEMMA CountLemma ==
  ASSUME NEW S, NEW s \in Seq(S), NoRepeat(s)
  PROVE  IsFiniteSet(Range(s)) /\ Cardinality(Range(s)) = Len(s)
<1>1. Len(s) \in Nat /\ DOMAIN s = 1 .. Len(s)
  OBVIOUS
<1>2. IsFiniteSet(1 .. Len(s)) /\ Cardinality(1 .. Len(s)) = Len(s)
  BY <1>1, FS_Interval
<1>3. s \in [1 .. Len(s) -> Range(s)]
  BY <1>1 DEF Range
<1>4. s \in Bijection(1 .. Len(s), Range(s))
  BY <1>1, <1>3 DEF NoRepeat, Range, Bijection, Injection, Surjection, IsInjective
<1>5. ExistsBijection(1 .. Len(s), Range(s))
  BY <1>4 DEF ExistsBijection
<1>6. QED
  BY <1>2, <1>5, FS_Bijection

-----------------------------------------------------------------------------
(* The inductive invariant: conservation, plus what ties the program       *)
(* counters to the blocks held and the destructor's countdown to the       *)
(* blocks it has popped.                                                   *)

HoldingLabels == {"held", "transferred", "filled", "taken", "copied"}

Holding == \A t \in Thread : held[t] # NoBlock <=> pc[t] \in HoldingLabels

Unborn == /\ free = <<>> /\ active = <<>> /\ lost = {}
          /\ \A t \in Thread : pc[t] = "idle"

Counted ==
  /\ phase = "new" => Unborn
  /\ phase \in {"new", "open"} => drained = {}
  /\ phase \in {"closing", "closed"} => remaining = BlockCount - Cardinality(drained)
  /\ phase = "closed" => remaining = 0

IInv == TypeOK /\ Holding /\ BlocksConserved /\ Counted

NoTwoHold == \A t, u \in Thread : held[t] = held[u] /\ t # u => held[t] = NoBlock

(* The pool allocates BlockCount > 0 distinct blocks and the null pointer  *)
(* is not one of them.                                                     *)
LEMMA BlockFacts ==
  /\ BlockCount \in Nat \ {0}
  /\ IsFiniteSet(Block)
  /\ Cardinality(Block) = BlockCount
  /\ NoBlock \notin Block
<1>1. BlockCount \in Nat \ {0} /\ NoBlock \notin Block
  BY PoolAssumption DEF Block
<1>2. QED
  BY <1>1, FS_Interval DEF Block

(* A thread with empty hands takes a block nobody holds.                   *)
LEMMA GrabLemma ==
  ASSUME held \in [Thread -> Block \cup {NoBlock}], NoTwoHold,
         NEW t \in Thread, held[t] = NoBlock,
         NEW b \in Block, b \notin HeldBlocks,
         held' = [held EXCEPT ![t] = b]
  PROVE  /\ held' \in [Thread -> Block \cup {NoBlock}]
         /\ NoTwoHold'
         /\ HeldBlocks' = HeldBlocks \cup {b}
<1>1. held' \in [Thread -> Block \cup {NoBlock}]
  OBVIOUS
<1>2. \A u \in Thread : held'[u] = IF u = t THEN b ELSE held[u]
  OBVIOUS
<1>3. b # NoBlock
  BY BlockFacts
<1>4. \A u \in Thread : held[u] # b
  BY <1>3 DEF HeldBlocks
<1>5. NoTwoHold'
  BY <1>2, <1>4 DEF NoTwoHold
<1>6. HeldBlocks' = HeldBlocks \cup {b}
  <2>1. ASSUME NEW x \in HeldBlocks' PROVE x \in HeldBlocks \cup {b}
    BY <1>2 DEF HeldBlocks
  <2>2. ASSUME NEW x \in HeldBlocks PROVE x \in HeldBlocks'
    <3>1. PICK u \in Thread : x = held[u] /\ x # NoBlock
      BY DEF HeldBlocks
    <3>2. held'[u] = x
      BY <1>2, <3>1
    <3>3. QED
      BY <3>1, <3>2 DEF HeldBlocks
  <2>3. b \in HeldBlocks'
    <3>1. held'[t] = b
      BY <1>2
    <3>2. QED
      BY <1>3, <3>1 DEF HeldBlocks
  <2>4. QED
    BY <2>1, <2>2, <2>3
<1>7. QED
  BY <1>1, <1>5, <1>6

(* A thread gives away the block it holds.                                 *)
LEMMA ReleaseLemma ==
  ASSUME held \in [Thread -> Block \cup {NoBlock}], NoTwoHold,
         NEW t \in Thread, held[t] # NoBlock,
         held' = [held EXCEPT ![t] = NoBlock]
  PROVE  /\ held' \in [Thread -> Block \cup {NoBlock}]
         /\ NoTwoHold'
         /\ held[t] \in Block
         /\ held[t] \in HeldBlocks
         /\ HeldBlocks' = HeldBlocks \ {held[t]}
<1>1. held' \in [Thread -> Block \cup {NoBlock}] /\ held[t] \in Block
  OBVIOUS
<1>2. \A u \in Thread : held'[u] = IF u = t THEN NoBlock ELSE held[u]
  OBVIOUS
<1>3. NoTwoHold'
  BY <1>2 DEF NoTwoHold
<1>4. held[t] \in HeldBlocks
  BY DEF HeldBlocks
<1>5. HeldBlocks' = HeldBlocks \ {held[t]}
  <2>1. ASSUME NEW x \in HeldBlocks' PROVE x \in HeldBlocks \ {held[t]}
    <3>1. PICK u \in Thread : x = held'[u] /\ x # NoBlock
      BY DEF HeldBlocks
    <3>2. u # t /\ held[u] = x
      BY <1>2, <3>1
    <3>3. x # held[t]
      BY <3>1, <3>2 DEF NoTwoHold
    <3>4. QED
      BY <3>1, <3>2, <3>3 DEF HeldBlocks
  <2>2. ASSUME NEW x \in HeldBlocks, x # held[t] PROVE x \in HeldBlocks'
    <3>1. PICK u \in Thread : x = held[u] /\ x # NoBlock
      BY DEF HeldBlocks
    <3>2. held'[u] = x
      BY <1>2, <2>2, <3>1
    <3>3. QED
      BY <3>1, <3>2 DEF HeldBlocks
  <2>3. QED
    BY <2>1, <2>2
<1>6. QED
  BY <1>1, <1>3, <1>4, <1>5

-----------------------------------------------------------------------------
(* Each transfer between a list and a thread keeps every block in exactly  *)
(* one place.                                                              *)

ListsTyped ==
  /\ free \in Seq(Block)
  /\ active \in Seq(Block)
  /\ held \in [Thread -> Block \cup {NoBlock}]
  /\ lowWaterMark \in 0 .. BlockCount
  /\ fullyDrainedCount \in 0 .. MaxDrained

Others(t) == \A u \in Thread : u # t => held'[u] = held[u]

(* takeFreeBlock moves one block from the stack to the thread's hands;     *)
(* nothing else changes place and the low-water mark stays in range.       *)
LEMMA TakeFreeLemma ==
  ASSUME ListsTyped, BlocksConserved, phase # "new",
         NEW t \in Thread, held[t] = NoBlock, takeFreeBlock(t),
         UNCHANGED <<phase, drained, lost>>
  PROVE  ListsTyped' /\ BlocksConserved' /\ held'[t] # NoBlock /\ Others(t)
<1> DEFINE b == Head(free)
<1>1. /\ b \in Block /\ free' \in Seq(Block) /\ Len(free) \in Nat \ {0}
      /\ Range(free) = Range(free') \cup {b}
      /\ NoRepeat(free') /\ b \notin Range(free')
  BY TailLemma DEF ListsTyped, takeFreeBlock, BlocksConserved, NoSharing
<1> HIDE DEF b
<1>2. held' = [held EXCEPT ![t] = b] /\ active' = active
  BY DEF takeFreeBlock, b
<1>3. b \notin HeldBlocks /\ b \notin Range(active)
  BY <1>1 DEF BlocksConserved, NoSharing
<1>4. /\ held' \in [Thread -> Block \cup {NoBlock}]
      /\ NoTwoHold'
      /\ HeldBlocks' = HeldBlocks \cup {b}
  BY <1>1, <1>2, <1>3, GrabLemma DEF ListsTyped, BlocksConserved, NoSharing, NoTwoHold
<1>5. NoSharing'
  BY <1>1, <1>2, <1>3, <1>4 DEF BlocksConserved, NoSharing, NoTwoHold
<1>6. NothingForgotten'
  BY <1>1, <1>2, <1>4 DEF BlocksConserved, NothingForgotten
<1>7. lowWaterMark' \in 0 .. BlockCount
  BY <1>1, BlockFacts DEF ListsTyped, takeFreeBlock, Lower
<1>8. fullyDrainedCount' \in 0 .. MaxDrained
  BY PoolAssumption DEF ListsTyped, takeFreeBlock
<1>9. held'[t] # NoBlock /\ Others(t)
  BY <1>1, <1>2, BlockFacts DEF ListsTyped, Others
<1>10. QED
  BY <1>1, <1>2, <1>4, <1>5, <1>6, <1>7, <1>8, <1>9 DEF ListsTyped, BlocksConserved

(* takeActiveBlock moves one block from the queue to the thread's hands.   *)
LEMMA TakeActiveLemma ==
  ASSUME ListsTyped, BlocksConserved, phase # "new",
         NEW t \in Thread, held[t] = NoBlock, takeActiveBlock(t),
         UNCHANGED <<phase, drained, lost>>
  PROVE  ListsTyped' /\ BlocksConserved' /\ held'[t] # NoBlock /\ Others(t)
<1> DEFINE b == Head(active)
<1>1. /\ b \in Block /\ active' \in Seq(Block)
      /\ Range(active) = Range(active') \cup {b}
      /\ NoRepeat(active') /\ b \notin Range(active')
  BY TailLemma DEF ListsTyped, takeActiveBlock, BlocksConserved, NoSharing
<1> HIDE DEF b
<1>2. /\ held' = [held EXCEPT ![t] = b] /\ free' = free
      /\ UNCHANGED <<lowWaterMark, fullyDrainedCount>>
  BY DEF takeActiveBlock, marks, b
<1>3. b \notin HeldBlocks /\ b \notin Range(free)
  BY <1>1 DEF BlocksConserved, NoSharing
<1>4. /\ held' \in [Thread -> Block \cup {NoBlock}]
      /\ NoTwoHold'
      /\ HeldBlocks' = HeldBlocks \cup {b}
  BY <1>1, <1>2, <1>3, GrabLemma DEF ListsTyped, BlocksConserved, NoSharing, NoTwoHold
<1>5. NoSharing'
  BY <1>1, <1>2, <1>3, <1>4 DEF BlocksConserved, NoSharing, NoTwoHold
<1>6. NothingForgotten'
  BY <1>1, <1>2, <1>4 DEF BlocksConserved, NothingForgotten
<1>7. held'[t] # NoBlock /\ Others(t)
  BY <1>1, <1>2, BlockFacts DEF ListsTyped, Others
<1>8. QED
  BY <1>1, <1>2, <1>4, <1>5, <1>6, <1>7 DEF ListsTyped, BlocksConserved

(* returnFreeBlock moves the block a thread holds to the stack.            *)
LEMMA ReturnFreeLemma ==
  ASSUME ListsTyped, BlocksConserved, phase # "new",
         NEW t \in Thread, held[t] # NoBlock, returnFreeBlock(t),
         UNCHANGED <<phase, drained, lost>>
  PROVE  ListsTyped' /\ BlocksConserved' /\ held'[t] = NoBlock /\ Others(t)
<1> DEFINE b == held[t]
<1>1. /\ held' = [held EXCEPT ![t] = NoBlock] /\ active' = active
      /\ UNCHANGED <<lowWaterMark, fullyDrainedCount>>
  BY DEF returnFreeBlock, marks
<1>2. /\ held' \in [Thread -> Block \cup {NoBlock}]
      /\ NoTwoHold'
      /\ b \in Block /\ b \in HeldBlocks
      /\ HeldBlocks' = HeldBlocks \ {b}
  BY <1>1, ReleaseLemma DEF ListsTyped, BlocksConserved, NoSharing, NoTwoHold
<1>3. b \notin Range(free) /\ b \notin Range(active) /\ b \notin drained \cup lost
  BY <1>2 DEF BlocksConserved, NoSharing
<1>4. /\ free' \in Seq(Block)
      /\ Range(free') = Range(free) \cup {b}
      /\ NoRepeat(free')
  BY <1>2, <1>3, PushLemma DEF ListsTyped, returnFreeBlock, BlocksConserved, NoSharing
<1>5. held'[t] = NoBlock /\ Others(t)
  BY <1>1 DEF ListsTyped, Others
<1> HIDE DEF b
<1>6. NoSharing'
  BY <1>1, <1>2, <1>3, <1>4 DEF BlocksConserved, NoSharing, NoTwoHold
<1>7. NothingForgotten'
  BY <1>1, <1>2, <1>4 DEF BlocksConserved, NothingForgotten
<1>8. QED
  BY <1>1, <1>2, <1>4, <1>5, <1>6, <1>7 DEF ListsTyped, BlocksConserved

(* returnActiveBlock moves the block a thread holds to the queue.          *)
LEMMA ReturnActiveLemma ==
  ASSUME ListsTyped, BlocksConserved, phase # "new",
         NEW t \in Thread, held[t] # NoBlock, returnActiveBlock(t),
         UNCHANGED <<phase, drained, lost>>
  PROVE  ListsTyped' /\ BlocksConserved' /\ held'[t] = NoBlock /\ Others(t)
<1> DEFINE b == held[t]
<1>1. /\ held' = [held EXCEPT ![t] = NoBlock] /\ free' = free
      /\ UNCHANGED <<lowWaterMark, fullyDrainedCount>>
  BY DEF returnActiveBlock, marks
<1>2. /\ held' \in [Thread -> Block \cup {NoBlock}]
      /\ NoTwoHold'
      /\ b \in Block /\ b \in HeldBlocks
      /\ HeldBlocks' = HeldBlocks \ {b}
  BY <1>1, ReleaseLemma DEF ListsTyped, BlocksConserved, NoSharing, NoTwoHold
<1>3. b \notin Range(free) /\ b \notin Range(active) /\ b \notin drained \cup lost
  BY <1>2 DEF BlocksConserved, NoSharing
<1>4. /\ active' \in Seq(Block)
      /\ Range(active') = Range(active) \cup {b}
      /\ NoRepeat(active')
  BY <1>2, <1>3, AppendLemma DEF ListsTyped, returnActiveBlock, BlocksConserved, NoSharing
<1>5. held'[t] = NoBlock /\ Others(t)
  BY <1>1 DEF ListsTyped, Others
<1> HIDE DEF b
<1>6. NoSharing'
  BY <1>1, <1>2, <1>3, <1>4 DEF BlocksConserved, NoSharing, NoTwoHold
<1>7. NothingForgotten'
  BY <1>1, <1>2, <1>4 DEF BlocksConserved, NothingForgotten
<1>8. QED
  BY <1>1, <1>2, <1>4, <1>5, <1>6, <1>7 DEF ListsTyped, BlocksConserved

(* An exception moves the block a thread holds to the lost ones.           *)
LEMMA DropLemma ==
  ASSUME ListsTyped, BlocksConserved, phase # "new", lost \subseteq Block,
         NEW t \in Thread, held[t] # NoBlock, DropBlock(t),
         UNCHANGED <<phase, drained, free, active, lowWaterMark, fullyDrainedCount>>
  PROVE  /\ ListsTyped' /\ BlocksConserved' /\ lost' \subseteq Block
         /\ held'[t] = NoBlock /\ Others(t)
<1> DEFINE b == held[t]
<1>1. held' = [held EXCEPT ![t] = NoBlock] /\ lost' = lost \cup {b}
  BY DEF DropBlock
<1>2. /\ held' \in [Thread -> Block \cup {NoBlock}]
      /\ NoTwoHold'
      /\ b \in Block /\ b \in HeldBlocks
      /\ HeldBlocks' = HeldBlocks \ {b}
  BY <1>1, ReleaseLemma DEF ListsTyped, BlocksConserved, NoSharing, NoTwoHold
<1>3. b \notin Range(free) /\ b \notin Range(active) /\ b \notin drained \cup lost
  BY <1>2 DEF BlocksConserved, NoSharing
<1>4. held'[t] = NoBlock /\ Others(t)
  BY <1>1 DEF ListsTyped, Others
<1> HIDE DEF b
<1>5. NoSharing'
  BY <1>1, <1>2, <1>3 DEF BlocksConserved, NoSharing, NoTwoHold
<1>6. NothingForgotten'
  BY <1>1, <1>2 DEF BlocksConserved, NothingForgotten
<1>7. QED
  BY <1>1, <1>2, <1>4, <1>5, <1>6 DEF ListsTyped, BlocksConserved

-----------------------------------------------------------------------------
(* The invariant is inductive: one lemma per group of actions.             *)

(* The constructed object, before allocate(), satisfies the invariant.     *)
LEMMA InitIInv == Init => IInv
<1>1. SUFFICES ASSUME Init PROVE IInv
  OBVIOUS
<1>2. TypeOK
  BY <1>1, BlockFacts, PoolAssumption DEF Init, TypeOK
<1>3. Holding
  BY <1>1 DEF Init, Holding, HoldingLabels
<1>4. NoSharing
  <2>1. HeldBlocks = {}
    BY <1>1 DEF Init, HeldBlocks
  <2>2. QED
    BY <1>1, <2>1, EmptyLemma DEF Init, NoSharing
<1>5. NothingForgotten /\ Counted
  BY <1>1 DEF Init, NothingForgotten, Counted, Unborn
<1>6. QED
  BY <1>2, <1>3, <1>4, <1>5 DEF IInv, BlocksConserved

(* What every step of a thread starts from and leaves alone.               *)
LEMMA ThreadFacts ==
  ASSUME IInv, NEW t \in Thread, phase = "open" \/ pc[t] # "idle"
  PROVE  /\ phase # "new" /\ ListsTyped /\ lost \subseteq Block
         /\ held[t] # NoBlock <=> pc[t] \in HoldingLabels
         /\ UNCHANGED destruction => Counted' /\ phase' = phase /\ drained' = drained
  BY DEF IInv, TypeOK, ListsTyped, Holding, Counted, Unborn, destruction

(* What remains to be shown of a step once the lists are known to be right.*)
LEMMA ThreadStep ==
  ASSUME IInv, NEW t \in Thread, phase # "new",
         UNCHANGED destruction, Counted',
         ListsTyped', BlocksConserved', lost' \subseteq Block, Others(t),
         mem' \in [Block -> Item \cup {NoItem}],
         intact' \in [Block -> BOOLEAN],
         delivered' \in [Reader -> Item \cup {NoItem}],
         NEW l \in {"idle", "waiting", "held", "transferred", "filled", "taken",
                    "copied", "dead"},
         Goto(t, l), held'[t] # NoBlock <=> l \in HoldingLabels
  PROVE  IInv'
<1>1. TypeOK'
  BY DEF IInv, TypeOK, ListsTyped, destruction, Goto
<1>2. Holding'
  BY DEF IInv, TypeOK, Holding, Goto, Others
<1>3. QED
  BY <1>1, <1>2 DEF IInv

(* A step that moves no block (a wait that begins or ends in vain, a copy, *)
(* a transfer) conserves the blocks.                                       *)
LEMMA UnmovedLemma ==
  ASSUME ListsTyped, BlocksConserved, UNCHANGED <<phase, drained, lost, lists, held, marks>>
  PROVE  ListsTyped' /\ BlocksConserved' /\ \A t \in Thread : Others(t)
  BY DEF ListsTyped, BlocksConserved, NoSharing, NothingForgotten, HeldBlocks, lists,
         marks, Others, NoRepeat

(* Every step of write(), and of a digitizer thread that fills blocks in   *)
(* place, preserves the invariant.                                         *)
LEMMA WriterInv ==
  ASSUME IInv, NEW w \in Writer, WriteBegin(w) \/ WriterStep(w)
  PROVE  IInv'
<1> w \in Thread
  BY DEF Thread
<1>t. /\ mem \in [Block -> Item \cup {NoItem}] /\ intact \in [Block -> BOOLEAN]
      /\ delivered \in [Reader -> Item \cup {NoItem}] /\ BlocksConserved
  BY DEF IInv, TypeOK
<1>1. CASE WriteBegin(w) \/ WriteRetry(w)
  <2>1. /\ phase = "open" \/ pc[w] # "idle"
        /\ pc[w] \notin HoldingLabels
        /\ UNCHANGED <<mem, intact, delivered, destruction, lost>>
    BY <1>1 DEF WriteBegin, WriteRetry, HoldingLabels
  <2>2. /\ phase # "new" /\ ListsTyped /\ lost \subseteq Block /\ held[w] = NoBlock
        /\ Counted' /\ phase' = phase /\ drained' = drained
    BY <2>1, ThreadFacts
  <2>3. CASE takeFreeBlock(w) /\ Goto(w, "held")
    <3>1. ListsTyped' /\ BlocksConserved' /\ held'[w] # NoBlock /\ Others(w)
      BY <1>t, <2>1, <2>2, <2>3, TakeFreeLemma
    <3>2. QED
      BY <1>t, <2>1, <2>2, <2>3, <3>1, ThreadStep DEF HoldingLabels
  <2>4. CASE /\ Goto(w, "waiting") \/ Goto(w, "idle")
             /\ UNCHANGED <<lists, held, marks>>
    <3>1. ListsTyped' /\ BlocksConserved' /\ Others(w)
      BY <1>t, <2>1, <2>2, <2>4, UnmovedLemma
    <3>2. held'[w] = NoBlock
      BY <2>2, <2>4
    <3>3. QED
      BY <1>t, <2>1, <2>2, <2>4, <3>1, <3>2, ThreadStep DEF HoldingLabels
  <2>5. QED
    BY <1>1, <2>3, <2>4 DEF WriteBegin, WriteRetry
<1>2. CASE WriteCopy(w) \/ WriteTransfer(w)
  <2>1. /\ pc[w] = "held"
        /\ UNCHANGED <<lists, held, marks, delivered, destruction, lost>>
    BY <1>2 DEF WriteCopy, WriteTransfer
  <2>2. /\ phase # "new" /\ ListsTyped /\ lost \subseteq Block /\ held[w] # NoBlock
        /\ Counted' /\ phase' = phase /\ drained' = drained
    BY <2>1, ThreadFacts DEF HoldingLabels
  <2>3. mem' \in [Block -> Item \cup {NoItem}] /\ intact' \in [Block -> BOOLEAN]
    BY <1>2, <1>t, <2>2 DEF WriteCopy, WriteTransfer, ListsTyped
  <2>4. ListsTyped' /\ BlocksConserved' /\ Others(w)
    BY <1>t, <2>1, <2>2, UnmovedLemma
  <2>5. held'[w] # NoBlock
    BY <2>1, <2>2
  <2>6. Goto(w, "filled") \/ Goto(w, "transferred")
    BY <1>2 DEF WriteCopy, WriteTransfer
  <2>7. QED
    BY <1>t, <2>1, <2>2, <2>3, <2>4, <2>5, <2>6, ThreadStep DEF HoldingLabels
<1>3. CASE WriteVerify(w)
  <2>1. /\ pc[w] = "transferred"
        /\ UNCHANGED <<lists, marks, mem, intact, delivered, destruction>>
    BY <1>3 DEF WriteVerify
  <2>2. /\ phase # "new" /\ ListsTyped /\ lost \subseteq Block /\ held[w] # NoBlock
        /\ Counted' /\ phase' = phase /\ drained' = drained
    BY <2>1, ThreadFacts DEF HoldingLabels
  <2>3. CASE Goto(w, "filled") /\ UNCHANGED <<held, lost>>
    <3>1. ListsTyped' /\ BlocksConserved' /\ Others(w)
      BY <1>t, <2>1, <2>2, <2>3, UnmovedLemma
    <3>2. held'[w] # NoBlock
      BY <2>2, <2>3
    <3>3. QED
      BY <1>t, <2>1, <2>2, <2>3, <3>1, <3>2, ThreadStep DEF HoldingLabels
  <2>4. CASE DropBlock(w) /\ Goto(w, "dead")
    <3>1. /\ ListsTyped' /\ BlocksConserved' /\ lost' \subseteq Block
          /\ held'[w] = NoBlock /\ Others(w)
      BY <1>t, <2>1, <2>2, <2>4, DropLemma DEF lists, marks
    <3>2. QED
      BY <1>t, <2>1, <2>2, <2>4, <3>1, ThreadStep DEF HoldingLabels
  <2>5. QED
    BY <1>3, <2>3, <2>4 DEF WriteVerify
<1>4. CASE WriteAbort(w)
  <2>1. /\ pc[w] \in HoldingLabels /\ pc[w] # "idle" /\ returnFreeBlock(w) /\ Goto(w, "idle")
        /\ UNCHANGED <<mem, intact, delivered, destruction, lost>>
    BY <1>4 DEF WriteAbort, HoldingLabels
  <2>2. /\ phase # "new" /\ ListsTyped /\ lost \subseteq Block /\ held[w] # NoBlock
        /\ Counted' /\ phase' = phase /\ drained' = drained
    BY <2>1, ThreadFacts
  <2>3. ListsTyped' /\ BlocksConserved' /\ held'[w] = NoBlock /\ Others(w)
    BY <1>t, <2>1, <2>2, ReturnFreeLemma
  <2>4. QED
    BY <1>t, <2>1, <2>2, <2>3, ThreadStep DEF HoldingLabels
<1>5. CASE WriteEnd(w)
  <2>1. /\ pc[w] \in HoldingLabels /\ pc[w] # "idle" /\ returnActiveBlock(w) /\ Goto(w, "idle")
        /\ UNCHANGED <<mem, intact, delivered, destruction, lost>>
    BY <1>5 DEF WriteEnd, HoldingLabels
  <2>2. /\ phase # "new" /\ ListsTyped /\ lost \subseteq Block /\ held[w] # NoBlock
        /\ Counted' /\ phase' = phase /\ drained' = drained
    BY <2>1, ThreadFacts
  <2>3. ListsTyped' /\ BlocksConserved' /\ held'[w] = NoBlock /\ Others(w)
    BY <1>t, <2>1, <2>2, ReturnActiveLemma
  <2>4. QED
    BY <1>t, <2>1, <2>2, <2>3, ThreadStep DEF HoldingLabels
<1>6. QED
  BY <1>1, <1>2, <1>3, <1>4, <1>5 DEF WriterStep

(* Every step of read() preserves the invariant.                           *)
LEMMA ReaderInv ==
  ASSUME IInv, NEW r \in Reader, ReadBegin(r) \/ ReaderStep(r)
  PROVE  IInv'
<1> r \in Thread
  BY DEF Thread
<1>t. /\ mem \in [Block -> Item \cup {NoItem}] /\ intact \in [Block -> BOOLEAN]
      /\ delivered \in [Reader -> Item \cup {NoItem}] /\ BlocksConserved
  BY DEF IInv, TypeOK
<1>1. CASE ReadBegin(r) \/ ReadRetry(r)
  <2>1. /\ phase = "open" \/ pc[r] # "idle"
        /\ pc[r] \notin HoldingLabels
        /\ UNCHANGED <<mem, intact, delivered, destruction, lost>>
    BY <1>1 DEF ReadBegin, ReadRetry, HoldingLabels
  <2>2. /\ phase # "new" /\ ListsTyped /\ lost \subseteq Block /\ held[r] = NoBlock
        /\ Counted' /\ phase' = phase /\ drained' = drained
    BY <2>1, ThreadFacts
  <2>3. CASE takeActiveBlock(r) /\ Goto(r, "taken")
    <3>1. ListsTyped' /\ BlocksConserved' /\ held'[r] # NoBlock /\ Others(r)
      BY <1>t, <2>1, <2>2, <2>3, TakeActiveLemma
    <3>2. QED
      BY <1>t, <2>1, <2>2, <2>3, <3>1, ThreadStep DEF HoldingLabels
  <2>4. CASE /\ Goto(r, "waiting") \/ Goto(r, "idle")
             /\ UNCHANGED <<lists, held, marks>>
    <3>1. ListsTyped' /\ BlocksConserved' /\ Others(r)
      BY <1>t, <2>1, <2>2, <2>4, UnmovedLemma
    <3>2. held'[r] = NoBlock
      BY <2>2, <2>4
    <3>3. QED
      BY <1>t, <2>1, <2>2, <2>4, <3>1, <3>2, ThreadStep DEF HoldingLabels
  <2>5. QED
    BY <1>1, <2>3, <2>4 DEF ReadBegin, ReadRetry
<1>2. CASE ReadOverrun(r)
  <2>1. /\ pc[r] = "taken" /\ DropBlock(r) /\ Goto(r, "idle")
        /\ UNCHANGED <<lists, marks, mem, intact, delivered, destruction>>
    BY <1>2 DEF ReadOverrun
  <2>2. /\ phase # "new" /\ ListsTyped /\ lost \subseteq Block /\ held[r] # NoBlock
        /\ Counted' /\ phase' = phase /\ drained' = drained
    BY <2>1, ThreadFacts DEF HoldingLabels
  <2>3. /\ ListsTyped' /\ BlocksConserved' /\ lost' \subseteq Block
        /\ held'[r] = NoBlock /\ Others(r)
    BY <1>t, <2>1, <2>2, DropLemma DEF lists, marks
  <2>4. QED
    BY <1>t, <2>1, <2>2, <2>3, ThreadStep DEF HoldingLabels
<1>3. CASE ReadCopy(r)
  <2>1. /\ pc[r] = "taken" /\ Goto(r, "copied")
        /\ delivered' = [delivered EXCEPT ![r] = mem[held[r]]]
        /\ UNCHANGED <<lists, held, marks, mem, intact, destruction, lost>>
    BY <1>3 DEF ReadCopy
  <2>2. /\ phase # "new" /\ ListsTyped /\ lost \subseteq Block /\ held[r] # NoBlock
        /\ Counted' /\ phase' = phase /\ drained' = drained
    BY <2>1, ThreadFacts DEF HoldingLabels
  <2>3. delivered' \in [Reader -> Item \cup {NoItem}]
    BY <1>t, <2>1, <2>2 DEF ListsTyped
  <2>4. ListsTyped' /\ BlocksConserved' /\ Others(r)
    BY <1>t, <2>1, <2>2, UnmovedLemma
  <2>5. held'[r] # NoBlock
    BY <2>1, <2>2
  <2>6. QED
    BY <1>t, <2>1, <2>2, <2>3, <2>4, <2>5, ThreadStep DEF HoldingLabels
<1>4. CASE ReadEnd(r)
  <2>1. /\ pc[r] = "copied" /\ returnFreeBlock(r) /\ Goto(r, "idle")
        /\ UNCHANGED <<mem, intact, delivered, destruction, lost>>
    BY <1>4 DEF ReadEnd
  <2>2. /\ phase # "new" /\ ListsTyped /\ lost \subseteq Block /\ held[r] # NoBlock
        /\ Counted' /\ phase' = phase /\ drained' = drained
    BY <2>1, ThreadFacts DEF HoldingLabels
  <2>3. ListsTyped' /\ BlocksConserved' /\ held'[r] = NoBlock /\ Others(r)
    BY <1>t, <2>1, <2>2, ReturnFreeLemma
  <2>4. QED
    BY <1>t, <2>1, <2>2, <2>3, ThreadStep DEF HoldingLabels
<1>5. QED
  BY <1>1, <1>2, <1>3, <1>4 DEF ReaderStep

(* allocate() establishes that every block is free and free once.          *)
LEMMA AllocateInv ==
  ASSUME IInv, Allocate
  PROVE  IInv'
<1>1. /\ phase = "new" /\ phase' = "open" /\ Unborn /\ drained = {}
      /\ free' = [k \in 1 .. BlockCount |-> k - 1] /\ lowWaterMark' = BlockCount
      /\ UNCHANGED <<active, mem, intact, pc, held, delivered, fullyDrainedCount,
                     remaining, drained, lost>>
  BY DEF Allocate, IInv, Counted
<1>2. BlockCount \in Nat \ {0}
  BY BlockFacts
<1>3. /\ free' \in Seq(Block) /\ Len(free') = BlockCount
      /\ DOMAIN free' = 1 .. BlockCount
      /\ \A k \in 1 .. BlockCount : free'[k] = k - 1
  BY <1>1, <1>2 DEF Block
<1>4. NoRepeat(free')
  BY <1>2, <1>3 DEF NoRepeat
<1>5. Range(free') = Block
  <2>1. ASSUME NEW b \in Block PROVE b \in Range(free')
    <3>1. b + 1 \in DOMAIN free' /\ free'[b + 1] = b
      BY <1>2, <1>3 DEF Block
    <3>2. QED
      BY <3>1 DEF Range
  <2>2. ASSUME NEW x \in Range(free') PROVE x \in Block
    BY <1>2, <1>3 DEF Range, Block
  <2>3. QED
    BY <2>1, <2>2
<1>6. HeldBlocks = {} /\ HeldBlocks' = {}
  BY <1>1 DEF IInv, Holding, HoldingLabels, Unborn, HeldBlocks
<1>7. TypeOK'
  BY <1>1, <1>2, <1>3 DEF IInv, TypeOK
<1>8. Holding'
  BY <1>1 DEF IInv, Holding
<1>9. NoSharing'
  BY <1>1, <1>4, <1>6, EmptyLemma DEF IInv, BlocksConserved, NoSharing, Unborn
<1>10. NothingForgotten'
  <2>1. Range(active') = {} /\ drained' = {} /\ lost' = {}
    BY <1>1, EmptyLemma DEF Unborn
  <2>2. QED
    BY <1>5, <1>6, <2>1 DEF NothingForgotten
<1>11. Counted'
  BY <1>1 DEF Counted
<1>12. QED
  BY <1>7, <1>8, <1>9, <1>10, <1>11 DEF IInv, BlocksConserved

(* The countdown of deallocate() starts with every block undrained.        *)
LEMMA DeallocateBeginInv ==
  ASSUME IInv, DeallocateBegin
  PROVE  IInv'
<1>1. /\ phase = "open" /\ phase' = "closing" /\ remaining' = BlockCount /\ drained = {}
      /\ UNCHANGED <<lists, held, marks, mem, intact, pc, delivered, drained, lost>>
  BY DEF DeallocateBegin, IInv, Counted
<1>2. Cardinality(drained') = 0 /\ BlockCount \in Nat
  BY <1>1, FS_EmptySet, BlockFacts
<1>3. TypeOK'
  BY <1>1, <1>2 DEF IInv, TypeOK, lists, marks
<1>4. Holding'
  BY <1>1 DEF IInv, Holding
<1>5. BlocksConserved'
  BY <1>1 DEF IInv, BlocksConserved, NoSharing, NothingForgotten, HeldBlocks, NoRepeat, lists
<1>6. Counted'
  BY <1>1, <1>2 DEF Counted
<1>7. QED
  BY <1>3, <1>4, <1>5, <1>6 DEF IInv

(* The countdown cannot run below 0: the blocks popped now are not among   *)
(* those popped before.                                                    *)
LEMMA DeallocateDrainInv ==
  ASSUME IInv, DeallocateDrain
  PROVE  IInv'
<1> DEFINE F == Range(free)
           A == Range(active)
<1>1. /\ phase = "closing" /\ free' = <<>> /\ active' = <<>>
      /\ remaining' = remaining - Len(free) - Len(active)
      /\ drained' = drained \cup F \cup A
      /\ UNCHANGED <<phase, held, marks, mem, intact, pc, delivered, lost>>
  BY DEF DeallocateDrain
<1>2. /\ free \in Seq(Block) /\ active \in Seq(Block) /\ drained \subseteq Block
      /\ NoRepeat(free) /\ NoRepeat(active) /\ F \cap A = {}
      /\ drained \cap (F \cup A) = {}
      /\ remaining = BlockCount - Cardinality(drained)
  BY <1>1 DEF IInv, TypeOK, BlocksConserved, NoSharing, Counted
<1>3. /\ IsFiniteSet(F) /\ Cardinality(F) = Len(free) /\ Len(free) \in Nat
      /\ IsFiniteSet(A) /\ Cardinality(A) = Len(active) /\ Len(active) \in Nat
      /\ F \subseteq Block /\ A \subseteq Block
  <2>1. F \subseteq Block /\ A \subseteq Block
    BY <1>2 DEF Range
  <2>2. QED
    BY <1>2, <2>1, CountLemma
<1>4. IsFiniteSet(drained) /\ Cardinality(drained) \in Nat
  BY <1>2, BlockFacts, FS_Subset, FS_CardinalityType
<1> HIDE DEF F, A
<1>5. /\ IsFiniteSet(drained \cup F)
      /\ Cardinality(drained \cup F) = Cardinality(drained) + Len(free)
  <2>1. /\ IsFiniteSet(drained \cup F)
        /\ Cardinality(drained \cup F) =
             Cardinality(drained) + Cardinality(F) - Cardinality(drained \cap F)
    BY <1>3, <1>4, FS_Union
  <2>2. drained \cap F = {}
    BY <1>2
  <2>3. Cardinality(drained \cap F) = 0
    BY <2>2, FS_EmptySet
  <2>4. QED
    BY <1>3, <1>4, <2>1, <2>3
<1>6. /\ IsFiniteSet(drained')
      /\ Cardinality(drained') = Cardinality(drained) + Len(free) + Len(active)
  <2>1. /\ IsFiniteSet((drained \cup F) \cup A)
        /\ Cardinality((drained \cup F) \cup A) =
             Cardinality(drained \cup F) + Cardinality(A) - Cardinality((drained \cup F) \cap A)
    BY <1>3, <1>5, FS_Union
  <2>2. (drained \cup F) \cap A = {}
    BY <1>2
  <2>3. Cardinality((drained \cup F) \cap A) = 0
    BY <2>2, FS_EmptySet
  <2>4. drained' = (drained \cup F) \cup A
    BY <1>1
  <2>5. QED
    BY <1>3, <1>4, <1>5, <2>1, <2>3, <2>4
<1>7. drained' \subseteq Block /\ Cardinality(drained') <= BlockCount
  BY <1>1, <1>2, <1>3, BlockFacts, FS_Subset
<1>8. remaining' = BlockCount - Cardinality(drained') /\ remaining' \in 0 .. BlockCount
  <2>1. BlockCount \in Nat /\ Cardinality(drained') \in Nat
    BY <1>6, BlockFacts, FS_CardinalityType
  <2>2. remaining' = BlockCount - Cardinality(drained) - Len(free) - Len(active)
    BY <1>1, <1>2
  <2>3. QED
    BY <1>3, <1>4, <1>6, <1>7, <2>1, <2>2
<1>9. TypeOK'
  BY <1>1, <1>7, <1>8 DEF IInv, TypeOK, marks
<1>10. Holding'
  BY <1>1 DEF IInv, Holding
<1>11. HeldBlocks' = HeldBlocks /\ Range(free') = {} /\ Range(active') = {}
  BY <1>1, EmptyLemma DEF HeldBlocks
<1>12. NoSharing'
  <2>1. NoRepeat(free') /\ NoRepeat(active')
    BY <1>1, EmptyLemma
  <2>2. NoTwoHold'
    BY <1>1 DEF IInv, BlocksConserved, NoSharing, NoTwoHold
  <2>3. (drained' \cup lost') \cap HeldBlocks = {} /\ drained' \cap lost' = {}
    BY <1>1 DEF IInv, BlocksConserved, NoSharing, F, A
  <2>4. QED
    BY <1>11, <2>1, <2>2, <2>3 DEF NoSharing, NoTwoHold
<1>13. NothingForgotten'
  BY <1>1, <1>11 DEF IInv, BlocksConserved, NothingForgotten, F, A
<1>14. Counted'
  BY <1>1, <1>8 DEF Counted
<1>15. QED
  BY <1>9, <1>10, <1>12, <1>13, <1>14 DEF IInv, BlocksConserved

(* deallocate() leaves its loop only with the countdown at 0.              *)
LEMMA DeallocateEndInv ==
  ASSUME IInv, DeallocateEnd
  PROVE  IInv'
<1>1. /\ phase = "closing" /\ phase' = "closed" /\ remaining = 0
      /\ UNCHANGED <<lists, held, marks, mem, intact, pc, delivered, remaining, drained, lost>>
  BY DEF DeallocateEnd
<1>2. TypeOK' /\ Holding' /\ Counted'
  BY <1>1 DEF IInv, TypeOK, Holding, Counted, lists, marks
<1>3. BlocksConserved'
  BY <1>1 DEF IInv, BlocksConserved, NoSharing, NothingForgotten, HeldBlocks, NoRepeat, lists
<1>4. QED
  BY <1>2, <1>3 DEF IInv

(* Steps outside the pool change nothing the invariant speaks of.          *)
LEMMA StutterInv == ASSUME IInv, UNCHANGED vars PROVE IInv'
<1>1. TypeOK'
  BY DEF IInv, TypeOK, vars
<1>2. Holding' /\ Counted'
  BY DEF IInv, Holding, Counted, Unborn, vars
<1>3. BlocksConserved'
  BY DEF IInv, BlocksConserved, NoSharing, NothingForgotten, HeldBlocks, NoRepeat, vars
<1>4. QED
  BY <1>1, <1>2, <1>3 DEF IInv

(* The invariant is preserved by every step of the pool's clients and of   *)
(* its destructor.                                                         *)
LEMMA NextIInv == IInv /\ [Next]_vars => IInv'
<1>1. SUFFICES ASSUME IInv, [Next]_vars PROVE IInv'
  OBVIOUS
<1>2. CASE \E w \in Writer : WriteBegin(w) \/ WriterStep(w)
  BY <1>1, <1>2, WriterInv
<1>3. CASE \E r \in Reader : ReadBegin(r) \/ ReaderStep(r)
  BY <1>1, <1>3, ReaderInv
<1>4. CASE Allocate \/ DeallocateBegin \/ Deallocate
  BY <1>1, <1>4, AllocateInv, DeallocateBeginInv, DeallocateDrainInv, DeallocateEndInv
     DEF Deallocate
<1>5. CASE UNCHANGED vars
  BY <1>1, <1>5, StutterInv
<1>6. QED
  BY <1>1, <1>2, <1>3, <1>4, <1>5 DEF Next

-----------------------------------------------------------------------------
(* THEOREMS                                                                *)

(* In every state the program reaches, whatever its number of blocks and   *)
(* threads, the place of every block agrees with what its holder is doing  *)
(* and the destructor's countdown with the blocks it has not seen.         *)
THEOREM Invariance == Spec => []IInv
<1>1. QED
  BY InitIInv, NextIInv, PTL DEF Spec

(* Every variable keeps its type: in particular a block pointer is never   *)
(* dereferenced when null and the destructor's countdown never wraps.  No  *)
(* two parties ever own the same block and no block disappears except      *)
(* through an exception, for any number of blocks and threads.             *)
THEOREM Conservation == Spec => []Inv
<1>1. IInv => Inv
  BY DEF IInv, Inv
<1>2. QED
  BY <1>1, Invariance, PTL

(* The destructor frees the memory only after every block has come back.   *)
THEOREM MemorySafety == Spec => []MemoryOutlivesUse
<1>1. IInv => MemoryOutlivesUse
  <2>1. SUFFICES ASSUME IInv, phase = "closed" PROVE HeldBlocks = {} /\ lost = {}
    BY DEF MemoryOutlivesUse
  <2>2. Cardinality(drained) \in Nat
    BY <2>1, BlockFacts, FS_Subset, FS_CardinalityType DEF IInv, TypeOK
  <2>3. Cardinality(drained) = BlockCount
    BY <2>1, <2>2, BlockFacts DEF IInv, Counted
  <2>4. drained = Block
    BY <2>1, <2>3, BlockFacts, FS_Subset DEF IInv, TypeOK
  <2>5. HeldBlocks \subseteq Block
    BY <2>1 DEF IInv, TypeOK, HeldBlocks
  <2>6. QED
    BY <2>1, <2>4, <2>5 DEF IInv, TypeOK, BlocksConserved, NoSharing
<1>2. QED
  BY <1>1, Invariance, PTL

-----------------------------------------------------------------------------
(* THE POOL IMPLEMENTS THE BOUNDED FIFO                                    *)
(* The queue of payloads and the payload each reader has taken, as the     *)
(* instance Queue maps them.                                               *)

QueueBar == [k \in 1 .. Len(active) |-> mem[active[k]]]
ReadingBar == [r \in Reader |-> IF pc[r] = "taken" THEN mem[held[r]] ELSE NoItem]
absBar == <<QueueBar, ReadingBar, delivered, phase \in {"closing", "closed"}>>

(* A block reaches the active queue, and a reader, only after a writer has *)
(* filled it.                                                              *)
Filled ==
  /\ \A b \in Range(active) : mem[b] \in Item
  /\ \A t \in Thread : pc[t] \in {"transferred", "filled", "taken"} => mem[held[t]] \in Item

(* What the refinement needs of a state.                                   *)
LEMMA IInvFacts ==
  ASSUME IInv
  PROVE  /\ active \in Seq(Block) /\ Range(active) \subseteq Block /\ NoRepeat(active)
         /\ mem \in [Block -> Item \cup {NoItem}]
         /\ pc \in [Thread -> {"idle", "waiting", "held", "transferred", "filled",
                               "taken", "copied", "dead"}]
         /\ held \in [Thread -> Block \cup {NoBlock}]
         /\ delivered \in [Reader -> Item \cup {NoItem}]
         /\ \A t \in Thread : pc[t] \in HoldingLabels =>
              held[t] \in Block /\ held[t] \notin Range(active)
         /\ \A t, u \in Thread : t # u /\ pc[t] \in HoldingLabels => held[u] # held[t]
         /\ Reader \subseteq Thread /\ Writer \subseteq Thread /\ Writer \cap Reader = {}
<1>1. /\ active \in Seq(Block) /\ NoRepeat(active)
      /\ mem \in [Block -> Item \cup {NoItem}]
      /\ pc \in [Thread -> {"idle", "waiting", "held", "transferred", "filled",
                            "taken", "copied", "dead"}]
      /\ held \in [Thread -> Block \cup {NoBlock}]
      /\ delivered \in [Reader -> Item \cup {NoItem}]
      /\ Holding /\ NoTwoHold /\ HeldBlocks \cap Range(active) = {}
  BY DEF IInv, TypeOK, BlocksConserved, NoSharing, NoTwoHold
<1>2. Range(active) \subseteq Block
  BY <1>1 DEF Range
<1>3. Reader \subseteq Thread /\ Writer \subseteq Thread /\ Writer \cap Reader = {}
  BY PoolAssumption DEF Thread, Writer
<1>4. ASSUME NEW t \in Thread, pc[t] \in HoldingLabels
      PROVE  held[t] \in Block /\ held[t] \notin Range(active) /\ held[t] # NoBlock
  <2>1. held[t] # NoBlock
    BY <1>1, <1>4 DEF Holding
  <2>2. held[t] \in HeldBlocks
    BY <2>1 DEF HeldBlocks
  <2>3. QED
    BY <1>1, <2>1, <2>2
<1>5. QED
  BY <1>1, <1>2, <1>3, <1>4 DEF NoTwoHold

(* The mapped queue is a sequence of payloads as long as the active queue. *)
LEMMA QueueBarFacts ==
  ASSUME NEW s \in Seq(Block), mem \in [Block -> Item \cup {NoItem}]
  PROVE  /\ [k \in 1 .. Len(s) |-> mem[s[k]]] \in Seq(Item \cup {NoItem})
         /\ Len([k \in 1 .. Len(s) |-> mem[s[k]]]) = Len(s)
<1>1. Len(s) \in Nat /\ \A k \in 1 .. Len(s) : mem[s[k]] \in Item \cup {NoItem}
  OBVIOUS
<1>2. QED
  BY <1>1

(* Steps that touch neither the active queue, nor the bytes of its blocks, *)
(* nor what readers hold, are invisible to the clients.                    *)
LEMMA Invisible ==
  ASSUME IInv, Filled,
         active' = active, delivered' = delivered,
         phase' \in {"closing", "closed"} <=> phase \in {"closing", "closed"},
         \A b \in Range(active) : mem'[b] = mem[b],
         \A r \in Reader :
           /\ pc'[r] = "taken" <=> pc[r] = "taken"
           /\ pc[r] = "taken" => mem'[held'[r]] = mem[held[r]]
  PROVE  absBar' = absBar
<1>1. \A k \in 1 .. Len(active) : active[k] \in Range(active)
  BY IInvFacts DEF Range
<1>2. QueueBar' = QueueBar
  BY <1>1 DEF QueueBar
<1>3. ReadingBar' = ReadingBar
  BY DEF ReadingBar
<1>4. QED
  BY <1>2, <1>3 DEF absBar


(* write() puts its payload at the back of the queue, and there is room:   *)
(* the block it returns is one more than those already active.             *)
LEMMA PutStep ==
  ASSUME IInv, Filled, NEW w \in Writer, WriteEnd(w)
  PROVE  \E i \in Item : Queue!Put(i)
<1>1. /\ pc[w] = "filled" /\ active' = Append(active, held[w])
      /\ pc' = [pc EXCEPT ![w] = "idle"] /\ held' = [held EXCEPT ![w] = NoBlock]
      /\ UNCHANGED <<mem, intact, delivered, phase, remaining, drained, lost>>
  BY DEF WriteEnd, Goto, returnActiveBlock, destruction
<1>2. /\ w \in Thread /\ w \notin Reader /\ Reader \subseteq Thread
      /\ active \in Seq(Block) /\ NoRepeat(active) /\ Range(active) \subseteq Block
      /\ mem \in [Block -> Item \cup {NoItem}]
      /\ held[w] \in Block /\ held[w] \notin Range(active)
      /\ mem[held[w]] \in Item
  BY <1>1, IInvFacts DEF HoldingLabels, Filled
<1>3. Len(active) \in Nat /\ Len(active) < BlockCount
  <2>1. NoRepeat(active') /\ Range(active') \subseteq Block /\ active' \in Seq(Block)
    BY <1>1, <1>2, AppendLemma
  <2>2. Cardinality(Range(active')) = Len(active')
    BY <2>1, CountLemma
  <2>3. Cardinality(Range(active')) <= BlockCount
    BY <2>1, BlockFacts, FS_Subset
  <2>4. Len(active') = Len(active) + 1 /\ Len(active) \in Nat
    BY <1>1, <1>2
  <2>5. QED
    BY <2>2, <2>3, <2>4, BlockFacts
<1>4. Len(QueueBar) = Len(active)
  BY <1>2, QueueBarFacts DEF QueueBar
<1>5. QueueBar' = Append(QueueBar, mem[held[w]])
  <2> DEFINE q == QueueBar
             m == mem[held[w]]
             n == Len(active)
  <2>1. QueueBar' = [k \in 1 .. n + 1 |-> mem[active'[k]]]
    BY <1>1, <1>2 DEF QueueBar
  <2>2. \A k \in 1 .. n : active'[k] = active[k]
    BY <1>1, <1>2
  <2>3. active'[n + 1] = held[w]
    BY <1>1, <1>2
  <2>4. q \in Seq(Item \cup {NoItem}) /\ \A k \in 1 .. n : q[k] = mem[active[k]]
    BY <1>2, QueueBarFacts DEF QueueBar
  <2> HIDE DEF q
  <2>5. Append(q, m) = [k \in 1 .. n + 1 |-> IF k = n + 1 THEN m ELSE q[k]]
    BY <1>3, <1>4, <2>4 DEF q
  <2>6. QED
    BY <1>3, <2>1, <2>2, <2>3, <2>4, <2>5 DEF q
<1>6. ReadingBar' = ReadingBar
  BY <1>1, <1>2, IInvFacts DEF ReadingBar
<1>7. (phase \in {"closing", "closed"})' = (phase \in {"closing", "closed"})
  BY <1>1
<1>8. QED
  BY <1>1, <1>2, <1>3, <1>4, <1>5, <1>6, <1>7 DEF Queue!Put, QueueBar, ReadingBar

(* What is left behind the front of a queue.                               *)
LEMMA TailDef ==
  ASSUME NEW S, NEW s \in Seq(S), s # <<>>
  PROVE  Tail(s) = [k \in 1 .. Len(s) - 1 |-> s[k + 1]]
<1> DEFINE t == Tail(s)
           n == Len(s) - 1
<1>1. n \in Nat /\ t \in Seq(S) /\ Len(t) = n
  OBVIOUS
<1>2. \A k \in 1 .. n : t[k] = s[k + 1]
  OBVIOUS
<1> HIDE DEF t, n
<1>3. t \in [1 .. n -> S]
  BY <1>1
<1>4. t = [k \in 1 .. n |-> s[k + 1]]
  BY <1>2, <1>3
<1>5. QED
  BY <1>4 DEF t, n

(* A reader takes the payload at the front, as it is at that moment.       *)
LEMMA TakeStep ==
  ASSUME IInv, Filled, NEW r \in Reader, pc[r] # "taken",
         takeActiveBlock(r), Goto(r, "taken"), UNCHANGED <<mem, delivered, phase>>
  PROVE  Queue!Take(r)
<1>1. /\ active # <<>> /\ active' = Tail(active)
      /\ pc' = [pc EXCEPT ![r] = "taken"] /\ held' = [held EXCEPT ![r] = Head(active)]
      /\ UNCHANGED <<mem, delivered, phase>>
  BY DEF takeActiveBlock, Goto
<1>2. /\ r \in Thread /\ Reader \subseteq Thread /\ active \in Seq(Block)
      /\ mem \in [Block -> Item \cup {NoItem}]
      /\ pc \in [Thread -> {"idle", "waiting", "held", "transferred", "filled",
                               "taken", "copied", "dead"}]
      /\ held \in [Thread -> Block \cup {NoBlock}]
  BY IInvFacts
<1> DEFINE q == QueueBar
           n == Len(active)
<1>3. n \in Nat \ {0} /\ active' \in Seq(Block) /\ Len(active') = n - 1
  BY <1>1, <1>2
<1>4. q \in Seq(Item \cup {NoItem}) /\ Len(q) = n /\ \A k \in 1 .. n : q[k] = mem[active[k]]
  BY <1>2, QueueBarFacts DEF QueueBar
<1>5. QueueBar' = [k \in 1 .. n - 1 |-> mem[active'[k]]]
  BY <1>1, <1>3 DEF QueueBar
<1> HIDE DEF q
<1>6. q # <<>> /\ Head(q) = mem[Head(active)]
  BY <1>1, <1>2, <1>3, <1>4
<1>7. QueueBar' = Tail(q)
  <2>1. \A k \in 1 .. n - 1 : active'[k] = active[k + 1]
    BY <1>1, <1>2, <1>3
  <2>2. Tail(q) = [k \in 1 .. n - 1 |-> q[k + 1]]
    BY <1>3, <1>4, TailDef
  <2>3. QED
    BY <1>3, <1>4, <1>5, <2>1, <2>2
<1>8. ReadingBar[r] = NoItem
  BY DEF ReadingBar
<1>9. ReadingBar' = [ReadingBar EXCEPT ![r] = Head(q)]
  BY <1>1, <1>2, <1>6 DEF ReadingBar
<1>10. (phase \in {"closing", "closed"})' = (phase \in {"closing", "closed"})
  BY <1>1
<1>11. QED
  BY <1>1, <1>6, <1>7, <1>8, <1>9, <1>10 DEF Queue!Take, QueueBar, ReadingBar, q

(* read() copies out exactly what its reader took, or throws it away.      *)
LEMMA DeliverStep ==
  ASSUME IInv, Filled, NEW r \in Reader
  PROVE  /\ ReadCopy(r) => Queue!Deliver(r)
         /\ ReadOverrun(r) => Queue!Lose(r)
<1>1. /\ r \in Thread /\ Reader \subseteq Thread
      /\ pc \in [Thread -> {"idle", "waiting", "held", "transferred", "filled",
                               "taken", "copied", "dead"}]
      /\ held \in [Thread -> Block \cup {NoBlock}]
      /\ pc[r] = "taken" => mem[held[r]] \in Item
  BY IInvFacts DEF Filled
<1>2. SUFFICES ASSUME ReadCopy(r) \/ ReadOverrun(r)
               PROVE  /\ ReadCopy(r) => Queue!Deliver(r)
                      /\ ReadOverrun(r) => Queue!Lose(r)
  OBVIOUS
<1>3. /\ pc[r] = "taken" /\ active' = active /\ mem' = mem /\ phase' = phase
      /\ pc' \in [Thread -> {"idle", "waiting", "held", "transferred", "filled",
                               "taken", "copied", "dead"}]
      /\ pc'[r] # "taken"
      /\ \A t \in Thread : t # r => pc'[t] = pc[t] /\ held'[t] = held[t]
  BY <1>1, <1>2 DEF ReadCopy, ReadOverrun, Goto, DropBlock, lists, destruction
<1>4. ReadingBar[r] = mem[held[r]] /\ ReadingBar[r] # NoItem
  BY <1>1, <1>3, PoolAssumption DEF ReadingBar
<1>5. ReadingBar' = [ReadingBar EXCEPT ![r] = NoItem]
  BY <1>1, <1>3 DEF ReadingBar
<1>6. QueueBar' = QueueBar
  BY <1>3 DEF QueueBar
<1>7. (phase \in {"closing", "closed"})' = (phase \in {"closing", "closed"})
  BY <1>3
<1>8. ASSUME ReadCopy(r) PROVE Queue!Deliver(r)
  <2>1. delivered' = [delivered EXCEPT ![r] = ReadingBar[r]]
    BY <1>4, <1>8 DEF ReadCopy
  <2>2. QED
    BY <1>4, <1>5, <1>6, <1>7, <2>1 DEF Queue!Deliver, QueueBar, ReadingBar
<1>9. ASSUME ReadOverrun(r) PROVE Queue!Lose(r)
  <2>1. delivered' = delivered
    BY <1>9 DEF ReadOverrun
  <2>2. QED
    BY <1>4, <1>5, <1>6, <1>7, <2>1 DEF Queue!Lose, QueueBar, ReadingBar
<1>10. QED
  BY <1>8, <1>9


(* One thread moves; blocks only ever gain a payload; what enters the      *)
(* active queue has one.                                                   *)
LEMMA FilledKept ==
  ASSUME IInv, Filled, NEW t \in Thread,
         \A b \in Range(active') : b \in Range(active) \/ mem[b] \in Item,
         Range(active') \subseteq Block,
         \A b \in Block : mem'[b] = mem[b] \/ mem'[b] \in Item,
         \A u \in Thread : u # t => pc'[u] = pc[u] /\ held'[u] = held[u],
         pc'[t] \in {"transferred", "filled", "taken"} => mem'[held'[t]] \in Item
  PROVE  Filled'
<1>1. \A b \in Range(active') : mem'[b] \in Item
  BY DEF Filled
<1>2. ASSUME NEW u \in Thread, pc'[u] \in {"transferred", "filled", "taken"}, u # t
      PROVE  mem'[held'[u]] \in Item
  <2>1. pc[u] \in {"transferred", "filled", "taken"} /\ held'[u] = held[u]
    BY <1>2
  <2>2. held[u] \in Block /\ mem[held[u]] \in Item
    BY <2>1, IInvFacts DEF HoldingLabels, Filled
  <2>3. QED
    BY <2>1, <2>2
<1>3. QED
  BY <1>1, <1>2 DEF Filled

(* Steps that only change the mapped state when Filled says they may.      *)
LEMMA WriterFilled ==
  ASSUME IInv, Filled, NEW w \in Writer, WriteBegin(w) \/ WriterStep(w)
  PROVE  /\ Filled'
         /\ (\E i \in Item : Queue!Put(i)) \/ absBar' = absBar
<1> USE DEF Goto, lists, marks, destruction
<1>0. /\ w \in Thread /\ w \notin Reader /\ Reader \subseteq Thread
      /\ active \in Seq(Block) /\ Range(active) \subseteq Block
      /\ mem \in [Block -> Item \cup {NoItem}]
      /\ pc \in [Thread -> {"idle", "waiting", "held", "transferred", "filled",
                            "taken", "copied", "dead"}]
      /\ held \in [Thread -> Block \cup {NoBlock}]
  BY IInvFacts
<1>m. ASSUME pc[w] \in HoldingLabels
      PROVE  /\ held[w] \in Block /\ held[w] \notin Range(active)
             /\ \A r \in Reader : held[r] # held[w]
  BY <1>0, <1>m, IInvFacts
<1>1. CASE WriteBegin(w) \/ WriteRetry(w) \/ WriteAbort(w)
  <2>1. /\ active' = active /\ mem' = mem /\ delivered' = delivered /\ phase' = phase
        /\ \A u \in Thread : u # w => pc'[u] = pc[u] /\ held'[u] = held[u]
        /\ pc'[w] \in {"idle", "waiting", "held"}
    BY <1>0, <1>1 DEF WriteBegin, WriteRetry, WriteAbort, takeFreeBlock, returnFreeBlock
  <2>2. Filled'
    BY <1>0, <2>1, FilledKept
  <2>3. absBar' = absBar
    BY <1>0, <2>1, Invisible
  <2>4. QED
    BY <2>2, <2>3
<1>2. CASE WriteCopy(w) \/ WriteTransfer(w)
  <2>1. /\ pc[w] = "held" /\ active' = active /\ held' = held
        /\ delivered' = delivered /\ phase' = phase
        /\ \A u \in Thread : u # w => pc'[u] = pc[u]
        /\ pc'[w] \in {"filled", "transferred"}
    BY <1>0, <1>2 DEF WriteCopy, WriteTransfer
  <2>2. PICK i \in Item : mem' = [mem EXCEPT ![held[w]] = i]
    BY <1>2 DEF WriteCopy, WriteTransfer
  <2>3. held[w] \in Block /\ held[w] \notin Range(active) /\ \A r \in Reader : held[r] # held[w]
    BY <1>m, <2>1 DEF HoldingLabels
  <2>4. Filled'
    BY <1>0, <2>1, <2>2, <2>3, FilledKept
  <2>5. \A r \in Reader : pc[r] = "taken" => held[r] \in Block
    BY <1>0, IInvFacts DEF HoldingLabels
  <2>6. absBar' = absBar
    BY <1>0, <2>1, <2>2, <2>3, <2>5, Invisible
  <2>7. QED
    BY <2>4, <2>6
<1>3. CASE WriteVerify(w)
  <2>1. /\ active' = active /\ mem' = mem /\ delivered' = delivered /\ phase' = phase
        /\ pc[w] = "transferred"
        /\ \A u \in Thread : u # w => pc'[u] = pc[u] /\ held'[u] = held[u]
        /\ pc'[w] = "dead" \/ (pc'[w] = "filled" /\ held'[w] = held[w])
    BY <1>0, <1>3 DEF WriteVerify, DropBlock
  <2>2. mem[held[w]] \in Item
    BY <1>0, <2>1 DEF Filled
  <2>3. Filled'
    BY <1>0, <2>1, <2>2, FilledKept
  <2>4. absBar' = absBar
    BY <1>0, <2>1, Invisible
  <2>5. QED
    BY <2>3, <2>4
<1>4. CASE WriteEnd(w)
  <2>1. /\ pc[w] = "filled" /\ active' = Append(active, held[w]) /\ mem' = mem
        /\ \A u \in Thread : u # w => pc'[u] = pc[u] /\ held'[u] = held[u]
        /\ pc'[w] = "idle"
    BY <1>0, <1>4 DEF WriteEnd, returnActiveBlock
  <2>2. held[w] \in Block /\ mem[held[w]] \in Item
    BY <1>0, <1>m, <2>1 DEF HoldingLabels, Filled
  <2>3. Range(active') = Range(active) \cup {held[w]}
    BY <1>0, <2>1, <2>2, AppendLemma
  <2>4. Filled'
    BY <1>0, <2>1, <2>2, <2>3, FilledKept
  <2>5. QED
    BY <1>4, <2>4, PutStep
<1>5. QED
  BY <1>1, <1>2, <1>3, <1>4 DEF WriterStep

(* The same for the steps of read().                                       *)
LEMMA ReaderFilled ==
  ASSUME IInv, Filled, NEW r \in Reader, ReadBegin(r) \/ ReaderStep(r)
  PROVE  /\ Filled'
         /\ Queue!Take(r) \/ Queue!Deliver(r) \/ Queue!Lose(r) \/ absBar' = absBar
<1> USE DEF Goto, lists, marks, destruction
<1>0. /\ r \in Thread /\ Reader \subseteq Thread
      /\ active \in Seq(Block) /\ Range(active) \subseteq Block
      /\ mem \in [Block -> Item \cup {NoItem}]
      /\ pc \in [Thread -> {"idle", "waiting", "held", "transferred", "filled",
                            "taken", "copied", "dead"}]
      /\ held \in [Thread -> Block \cup {NoBlock}]
  BY IInvFacts
<1>1. CASE /\ takeActiveBlock(r) /\ Goto(r, "taken")
           /\ ReadBegin(r) \/ ReadRetry(r)
  <2>1. /\ pc[r] # "taken" /\ mem' = mem /\ delivered' = delivered /\ phase' = phase
        /\ active # <<>> /\ active' = Tail(active) /\ held'[r] = Head(active)
        /\ \A u \in Thread : u # r => pc'[u] = pc[u] /\ held'[u] = held[u]
    BY <1>0, <1>1 DEF ReadBegin, ReadRetry, takeActiveBlock
  <2>2. Range(active) = Range(active') \cup {Head(active)}
    BY <1>0, <2>1, TailLemma
  <2>3. mem[held'[r]] \in Item /\ Range(active') \subseteq Range(active)
    BY <2>1, <2>2 DEF Filled
  <2>4. Filled'
    BY <1>0, <2>1, <2>3, FilledKept
  <2>5. QED
    BY <1>1, <2>1, <2>4, TakeStep
<1>2. CASE /\ active' = active /\ mem' = mem /\ delivered' = delivered /\ phase' = phase
           /\ pc[r] # "taken" /\ pc'[r] # "taken" /\ pc'[r] \in {"waiting", "idle"}
           /\ \A u \in Thread : u # r => pc'[u] = pc[u] /\ held'[u] = held[u]
  <2>1. Filled'
    BY <1>0, <1>2, FilledKept
  <2>2. absBar' = absBar
    BY <1>0, <1>2, Invisible
  <2>3. QED
    BY <2>1, <2>2
<1>3. CASE ReadCopy(r) \/ ReadOverrun(r)
  <2>1. /\ active' = active /\ mem' = mem /\ pc'[r] \in {"copied", "idle"}
        /\ \A u \in Thread : u # r => pc'[u] = pc[u] /\ held'[u] = held[u]
    BY <1>0, <1>3 DEF ReadCopy, ReadOverrun, DropBlock
  <2>2. Filled'
    BY <1>0, <2>1, FilledKept
  <2>3. QED
    BY <1>3, <2>2, DeliverStep
<1>4. ASSUME ReadBegin(r) \/ ReadRetry(r), ~(takeActiveBlock(r) /\ Goto(r, "taken"))
      PROVE  /\ active' = active /\ mem' = mem /\ delivered' = delivered /\ phase' = phase
             /\ pc[r] # "taken" /\ pc'[r] # "taken" /\ pc'[r] \in {"waiting", "idle"}
             /\ \A u \in Thread : u # r => pc'[u] = pc[u] /\ held'[u] = held[u]
  BY <1>0, <1>4 DEF ReadBegin, ReadRetry
<1>5. ASSUME ReadEnd(r)
      PROVE  /\ active' = active /\ mem' = mem /\ delivered' = delivered /\ phase' = phase
             /\ pc[r] # "taken" /\ pc'[r] # "taken" /\ pc'[r] \in {"waiting", "idle"}
             /\ \A u \in Thread : u # r => pc'[u] = pc[u] /\ held'[u] = held[u]
  BY <1>0, <1>5 DEF ReadEnd, returnFreeBlock
<1>6. QED
  BY <1>1, <1>2, <1>3, <1>4, <1>5 DEF ReaderStep

(* Every step of the pool is a step of the queue or invisible.             *)
LEMMA NextRefines ==
  ASSUME IInv, Filled, [Next]_vars
  PROVE  Filled' /\ (Queue!Next \/ absBar' = absBar)
<1>0. active \in Seq(Block) /\ Range(active) \subseteq Block
  BY IInvFacts
<1>1. CASE \E w \in Writer : WriteBegin(w) \/ WriterStep(w)
  BY <1>1, WriterFilled DEF Queue!Next
<1>2. CASE \E r \in Reader : ReadBegin(r) \/ ReaderStep(r)
  BY <1>2, ReaderFilled DEF Queue!Next
<1>3. CASE Allocate \/ DeallocateEnd \/ UNCHANGED vars
  <2>1. /\ active' = active /\ mem' = mem /\ pc' = pc /\ held' = held
        /\ delivered' = delivered
        /\ phase' \in {"closing", "closed"} <=> phase \in {"closing", "closed"}
    BY <1>3 DEF Allocate, DeallocateEnd, vars, lists
  <2>2. QED
    BY <2>1, Invisible DEF Filled
<1>4. CASE DeallocateBegin
  <2>1. /\ active' = active /\ mem' = mem /\ pc' = pc /\ held' = held
        /\ delivered' = delivered /\ phase = "open" /\ phase' = "closing"
    BY <1>4 DEF DeallocateBegin, lists
  <2>2. Filled' /\ QueueBar' = QueueBar /\ ReadingBar' = ReadingBar
    BY <2>1 DEF Filled, QueueBar, ReadingBar
  <2>3. Queue!BeginDestroy
    BY <2>1, <2>2 DEF Queue!BeginDestroy, QueueBar, ReadingBar
  <2>4. QED
    BY <2>2, <2>3 DEF Queue!Next
<1>5. CASE DeallocateDrain
  <2>1. /\ active' = <<>> /\ mem' = mem /\ pc' = pc /\ held' = held
        /\ delivered' = delivered /\ phase = "closing" /\ phase' = "closing"
    BY <1>5 DEF DeallocateDrain
  <2>2. Range(active') = {} /\ Len(active') = 0
    BY <2>1, EmptyLemma
  <2>3. Filled' /\ ReadingBar' = ReadingBar
    BY <2>1, <2>2 DEF Filled, ReadingBar
  <2>4. QueueBar' = <<>>
    BY <2>2 DEF QueueBar
  <2>5. Queue!Discard
    BY <2>1, <2>3, <2>4 DEF Queue!Discard, QueueBar, ReadingBar
  <2>6. QED
    BY <2>3, <2>5 DEF Queue!Next
<1>6. QED
  BY <1>1, <1>2, <1>3, <1>4, <1>5 DEF Next, Deallocate

(* The pool's clients see a bounded FIFO of payloads: each read() delivers *)
(* what was the oldest payload when it took its block, unchanged by        *)
(* writers, or nothing; no payload is delivered twice or out of order.     *)
THEOREM Refinement == Spec => ImplementsPoolQueue
<1>1. Init => Filled
  BY EmptyLemma DEF Init, Filled
<1>2. Init => Queue!Init
  <2>1. SUFFICES ASSUME Init PROVE Queue!Init
    OBVIOUS
  <2>2. active = <<>> /\ Len(active) = 0 /\ phase = "new"
        /\ delivered = [r \in Reader |-> NoItem]
        /\ \A t \in Thread : pc[t] = "idle"
    BY <2>1, EmptyLemma DEF Init
  <2>3. QueueBar = <<>>
    BY <2>2 DEF QueueBar
  <2>4. ReadingBar = [r \in Reader |-> NoItem]
    BY <2>2 DEF ReadingBar, Thread
  <2>5. QED
    BY <2>2, <2>3, <2>4 DEF Queue!Init, QueueBar, ReadingBar
<1>3. IInv /\ Filled /\ [Next]_vars => Filled' /\ [Queue!Next]_(Queue!absVars)
  BY NextRefines DEF Queue!absVars, absBar, QueueBar, ReadingBar
<1>4. QED
  BY <1>1, <1>2, <1>3, Invariance, PTL DEF Spec, ImplementsPoolQueue, Queue!Spec
=============================================================================
