----------------------------- MODULE PoolBuffer -----------------------------
(***************************************************************************)
(* Generators/Common/PoolBuffer.hh: a fixed set of memory blocks that      *)
(* circulates between a stack of free blocks and a FIFO of active (filled) *)
(* blocks.  One action is one critical section of the class, or the work a *)
(* thread does on a block it holds between two of them.                    *)
(*                                                                         *)
(* Two kinds of writers exist in the repository: CopyWriter threads call   *)
(* write() (SPECTDC/TDCChan_read.cc:72); DirectWriter threads take a free  *)
(* block, let the digitizer's block transfer fill it, check its red zone   *)
(* themselves and give it back (CAENV1730Readout_generator.cc:1037-1232).  *)
(* The stack's top and the queue's front are both the Head of a sequence.  *)
(***************************************************************************)
EXTENDS Integers, Sequences, FiniteSets, Functions

CONSTANTS
  BlockCount,    \* blocks in the pool (_blockCount)
  CopyWriter,    \* threads that call write()
  DirectWriter,  \* threads that fill blocks in place
  Reader,        \* threads that call read()
  Item,          \* payloads
  NoItem,        \* the contents of a block that was never written
  NoBlock,       \* the null block pointer
  MaxDrained     \* bound on _fullyDrainedCount

ASSUME PoolAssumption ==
  /\ BlockCount \in Nat \ {0}
  /\ MaxDrained \in Nat
  /\ CopyWriter \cap DirectWriter = {}
  /\ (CopyWriter \cup DirectWriter) \cap Reader = {}
  /\ NoItem \notin Item
  /\ NoBlock \notin 0 .. BlockCount - 1

VARIABLES
  phase,              \* life of the object: new, open, closing, closed
  free,               \* _freeDataBlocks, top first
  active,             \* _activeDataBlocks, front first
  mem,                \* bytes of each block
  intact,             \* the block's red zone is unmodified
  pc,                 \* where each thread is inside the class
  held,               \* block each thread holds
  delivered,          \* what the last read() copied out
  lowWaterMark,       \* _lowWaterMark
  fullyDrainedCount,  \* _fullyDrainedCount
  remaining,          \* remainingBlockCount of deallocate()
  drained,            \* blocks deallocate() has popped
  lost                \* blocks dropped by an exception: in no container

lists == <<free, active>>
marks == <<lowWaterMark, fullyDrainedCount>>
destruction == <<phase, remaining, drained>>
vars == <<phase, free, active, mem, intact, pc, held, delivered, lowWaterMark,
          fullyDrainedCount, remaining, drained, lost>>

Block == 0 .. BlockCount - 1
Writer == CopyWriter \cup DirectWriter
Thread == Writer \cup Reader

Lower(a, b) == IF a < b THEN a ELSE b

Init ==
  /\ phase = "new"
  /\ free = <<>>
  /\ active = <<>>
  /\ mem = [b \in Block |-> NoItem]
  /\ intact = [b \in Block |-> TRUE]
  /\ pc = [t \in Thread |-> "idle"]
  /\ held = [t \in Thread |-> NoBlock]
  /\ delivered = [r \in Reader |-> NoItem]
  /\ lowWaterMark = 0
  /\ fullyDrainedCount = 0
  /\ remaining = 0
  /\ drained = {}
  /\ lost = {}

(* allocate(): every block is put on the free stack, block 0 on top. A     *)
(* second call throws and changes nothing.                                 *)
Allocate ==
  /\ phase = "new"
  /\ phase' = "open"
  /\ free' = [k \in 1 .. BlockCount |-> k - 1]
  /\ lowWaterMark' = BlockCount
  /\ UNCHANGED <<active, mem, intact, pc, held, delivered, fullyDrainedCount,
                 remaining, drained, lost>>

-----------------------------------------------------------------------------
(* The four transfers between the containers and a thread.                 *)

takeFreeBlock(t) ==
  /\ free # <<>>
  /\ Len(free) = 1 => fullyDrainedCount < MaxDrained
  /\ held' = [held EXCEPT ![t] = Head(free)]
  /\ free' = Tail(free)
  /\ fullyDrainedCount' =
       IF Len(free) = 1 THEN fullyDrainedCount + 1 ELSE fullyDrainedCount
  /\ lowWaterMark' = Lower(lowWaterMark, Len(free) - 1)
  /\ UNCHANGED active

(* Mutant: the front block is read but not popped.                         *)
takeActiveBlock_NoPop(t) ==
  /\ active # <<>>
  /\ held' = [held EXCEPT ![t] = Head(active)]
  /\ UNCHANGED <<active, free, marks>>

takeActiveBlock(t) ==
  /\ active # <<>>
  /\ held' = [held EXCEPT ![t] = Head(active)]
  /\ active' = Tail(active)
  /\ UNCHANGED <<free, marks>>

returnFreeBlock(t) ==
  /\ free' = <<held[t]>> \o free
  /\ held' = [held EXCEPT ![t] = NoBlock]
  /\ UNCHANGED <<active, marks>>

(* Mutant: the filled block is put at the front, as on a stack.            *)
returnActiveBlock_AtFront(t) ==
  /\ active' = <<held[t]>> \o active
  /\ held' = [held EXCEPT ![t] = NoBlock]
  /\ UNCHANGED <<free, marks>>

returnActiveBlock(t) ==
  /\ active' = Append(active, held[t])
  /\ held' = [held EXCEPT ![t] = NoBlock]
  /\ UNCHANGED <<free, marks>>

Goto(t, label) == pc' = [pc EXCEPT ![t] = label]

(* The block is dropped by an exception: its holder forgets it and no      *)
(* container gets it back.                                                 *)
DropBlock(t) ==
  /\ lost' = lost \cup {held[t]}
  /\ held' = [held EXCEPT ![t] = NoBlock]

-----------------------------------------------------------------------------
(* Writers.                                                                *)

(* write() on an empty free stack waits once on the condition variable; a  *)
(* direct writer gives up at once and stays idle.                          *)
WriteBegin(w) ==
  /\ phase = "open"
  /\ pc[w] = "idle"
  /\ \/ takeFreeBlock(w) /\ Goto(w, "held")
     \/ /\ free = <<>>
        /\ w \in CopyWriter
        /\ Goto(w, "waiting")
        /\ UNCHANGED <<lists, held, marks>>
  /\ UNCHANGED <<mem, intact, delivered, destruction, lost>>

(* The wait ends on the timeout or on any notification, which may come     *)
(* from an unrelated list; write() looks once more and then returns 0.     *)
WriteRetry(w) ==
  /\ pc[w] = "waiting"
  /\ \/ takeFreeBlock(w) /\ Goto(w, "held")
     \/ /\ free = <<>>
        /\ Goto(w, "idle")
        /\ UNCHANGED <<lists, held, marks>>
  /\ UNCHANGED <<mem, intact, delivered, destruction, lost>>

(* std::copy of a range that was checked to fit.                           *)
WriteCopy(w) ==
  /\ w \in CopyWriter
  /\ pc[w] = "held"
  /\ \E i \in Item : mem' = [mem EXCEPT ![held[w]] = i]
  /\ Goto(w, "filled")
  /\ UNCHANGED <<lists, held, marks, intact, delivered, destruction, lost>>

(* CAEN_DGTZ_ReadData fills the block and may write past its end.          *)
WriteTransfer(w) ==
  /\ w \in DirectWriter
  /\ pc[w] = "held"
  /\ \E i \in Item : mem' = [mem EXCEPT ![held[w]] = i]
  /\ \E ok \in {intact[held[w]], FALSE} : intact' = [intact EXCEPT ![held[w]] = ok]
  /\ Goto(w, "transferred")
  /\ UNCHANGED <<lists, held, marks, delivered, destruction, lost>>

(* verify_redzone() in the direct writer: the exception ends its thread.   *)
WriteVerify(w) ==
  /\ pc[w] = "transferred"
  /\ \/ /\ intact[held[w]]
        /\ Goto(w, "filled")
        /\ UNCHANGED <<held, lost>>
     \/ /\ ~intact[held[w]]
        /\ DropBlock(w)
        /\ Goto(w, "dead")
  /\ UNCHANGED <<lists, marks, mem, intact, delivered, destruction>>

(* A failed, empty or oversized transfer (before the check of the red      *)
(* zone) or a bad event header (after it) gives the block back unused.     *)
WriteAbort(w) ==
  /\ w \in DirectWriter
  /\ pc[w] \in {"transferred", "filled"}
  /\ returnFreeBlock(w)
  /\ Goto(w, "idle")
  /\ UNCHANGED <<mem, intact, delivered, destruction, lost>>

WriteEnd(w) ==
  /\ pc[w] = "filled"
  /\ returnActiveBlock(w)
  /\ Goto(w, "idle")
  /\ UNCHANGED <<mem, intact, delivered, destruction, lost>>

-----------------------------------------------------------------------------
(* Readers.                                                                *)

ReadBegin(r) ==
  /\ phase = "open"
  /\ pc[r] = "idle"
  /\ \/ takeActiveBlock(r) /\ Goto(r, "taken")
     \/ /\ active = <<>>
        /\ Goto(r, "waiting")
        /\ UNCHANGED <<lists, held, marks>>
  /\ UNCHANGED <<mem, intact, delivered, destruction, lost>>

ReadRetry(r) ==
  /\ pc[r] = "waiting"
  /\ \/ takeActiveBlock(r) /\ Goto(r, "taken")
     \/ /\ active = <<>>
        /\ Goto(r, "idle")
        /\ UNCHANGED <<lists, held, marks>>
  /\ UNCHANGED <<mem, intact, delivered, destruction, lost>>

(* verify_redzone() throws out of read() while the block is held.          *)
ReadOverrun(r) ==
  /\ pc[r] = "taken"
  /\ ~intact[held[r]]
  /\ DropBlock(r)
  /\ Goto(r, "idle")
  /\ UNCHANGED <<lists, marks, mem, intact, delivered, destruction>>

ReadCopy(r) ==
  /\ pc[r] = "taken"
  /\ intact[held[r]]
  /\ delivered' = [delivered EXCEPT ![r] = mem[held[r]]]
  /\ Goto(r, "copied")
  /\ UNCHANGED <<lists, held, marks, mem, intact, destruction, lost>>

ReadEnd(r) ==
  /\ pc[r] = "copied"
  /\ returnFreeBlock(r)
  /\ Goto(r, "idle")
  /\ UNCHANGED <<mem, intact, delivered, destruction, lost>>

-----------------------------------------------------------------------------
(* The destructor: deallocate() empties both lists again and again until   *)
(* it has seen every block.                                                *)

DeallocateBegin ==
  /\ phase = "open"
  /\ phase' = "closing"
  /\ remaining' = BlockCount
  /\ UNCHANGED <<lists, held, marks, mem, intact, pc, delivered, drained, lost>>

(* Mutants: blocks are counted but not popped; only filled blocks are      *)
(* collected.                                                              *)
DeallocateDrain_CountOnly ==
  /\ phase = "closing"
  /\ remaining' = remaining - Len(free) - Len(active)
  /\ drained' = drained \cup Range(free) \cup Range(active)
  /\ UNCHANGED <<phase, lists, held, marks, mem, intact, pc, delivered, lost>>

DeallocateDrain_ActiveOnly ==
  /\ phase = "closing"
  /\ remaining' = remaining - Len(active)
  /\ drained' = drained \cup Range(active)
  /\ active' = <<>>
  /\ UNCHANGED <<phase, free, held, marks, mem, intact, pc, delivered, lost>>

DeallocateDrain ==
  /\ phase = "closing"
  /\ remaining' = remaining - Len(free) - Len(active)
  /\ drained' = drained \cup Range(free) \cup Range(active)
  /\ free' = <<>>
  /\ active' = <<>>
  /\ UNCHANGED <<phase, held, marks, mem, intact, pc, delivered, lost>>

(* Mutant: the lists are emptied once, without counting.                   *)
DeallocateEnd_NoCount ==
  /\ phase = "closing"
  /\ free = <<>> /\ active = <<>>
  /\ phase' = "closed"
  /\ UNCHANGED <<lists, held, marks, mem, intact, pc, delivered, remaining,
                 drained, lost>>

DeallocateEnd ==
  /\ phase = "closing"
  /\ remaining = 0
  /\ phase' = "closed"
  /\ UNCHANGED <<lists, held, marks, mem, intact, pc, delivered, remaining,
                 drained, lost>>

-----------------------------------------------------------------------------
(* What a thread that is inside the class does next. A call, once begun,   *)
(* runs to its end; whether a thread calls again is up to the client.      *)
WriterStep(w) ==
  \/ WriteRetry(w) \/ WriteCopy(w) \/ WriteTransfer(w) \/ WriteVerify(w)
  \/ WriteAbort(w) \/ WriteEnd(w)

ReaderStep(r) == ReadRetry(r) \/ ReadOverrun(r) \/ ReadCopy(r) \/ ReadEnd(r)

Deallocate == DeallocateDrain \/ DeallocateEnd

Next ==
  \/ Allocate
  \/ \E w \in Writer : WriteBegin(w) \/ WriterStep(w)
  \/ \E r \in Reader : ReadBegin(r) \/ ReaderStep(r)
  \/ DeallocateBegin
  \/ Deallocate

Fairness ==
  /\ \A w \in Writer : WF_vars(WriterStep(w))
  /\ \A r \in Reader : WF_vars(ReaderStep(r))
  /\ WF_vars(Deallocate)

Spec == Init /\ [][Next]_vars /\ Fairness

-----------------------------------------------------------------------------
(* PROPERTIES                                                              *)

TypeOK ==
  /\ phase \in {"new", "open", "closing", "closed"}
  /\ free \in Seq(Block)
  /\ active \in Seq(Block)
  /\ mem \in [Block -> Item \cup {NoItem}]
  /\ intact \in [Block -> BOOLEAN]
  /\ pc \in [Thread -> {"idle", "waiting", "held", "transferred", "filled",
                        "taken", "copied", "dead"}]
  /\ held \in [Thread -> Block \cup {NoBlock}]
  /\ delivered \in [Reader -> Item \cup {NoItem}]
  /\ lowWaterMark \in 0 .. BlockCount
  /\ fullyDrainedCount \in 0 .. MaxDrained
  /\ remaining \in 0 .. BlockCount
  /\ drained \subseteq Block
  /\ lost \subseteq Block

NoRepeat(s) == \A i, j \in 1 .. Len(s) : s[i] = s[j] => i = j

HeldBlocks == {held[t] : t \in Thread} \ {NoBlock}

(* Every block is in exactly one place: the free stack, the active queue,  *)
(* the hands of one thread, popped by the destructor, or lost to an        *)
(* exception. A block that two threads hold, or that is free and active at *)
(* once, is what the three mutexes and the by-value block pointers of      *)
(* PoolBuffer.hh:154-189 must rule out.                                    *)
NoSharing ==
  /\ NoRepeat(free)
  /\ NoRepeat(active)
  /\ \A t, u \in Thread : held[t] = held[u] /\ t # u => held[t] = NoBlock
  /\ Range(free) \cap Range(active) = {}
  /\ HeldBlocks \cap (Range(free) \cup Range(active)) = {}
  /\ (drained \cup lost) \cap (Range(free) \cup Range(active) \cup HeldBlocks) = {}
  /\ drained \cap lost = {}

NothingForgotten ==
  phase # "new" =>
    Block = Range(free) \cup Range(active) \cup HeldBlocks \cup drained \cup lost

BlocksConserved == NoSharing /\ NothingForgotten

(* Every variable keeps its type, and every block is in one place.         *)
Inv == TypeOK /\ BlocksConserved

(* deallocate() frees the memory at PoolBuffer.hh:207-208 only when no      *)
(* thread can still read or write a block of it: the countdown of popped   *)
(* blocks reaches 0 only if every block has come back, so none is held and *)
(* none was lost.                                                          *)
MemoryOutlivesUse == phase = "closed" => HeldBlocks = {} /\ lost = {}

(* The destructor's loop (PoolBuffer.hh:198-206) ends, whoever holds       *)
(* blocks when it begins, unless an exception has lost a block: then       *)
(* remainingBlockCount never reaches 0 and the boardreader hangs in it.    *)
DestructorEnds == phase = "closing" ~> (phase = "closed" \/ lost # {})

(* The pool implements the bounded FIFO: what a reader holds is the        *)
(* payload that was the oldest when it took the block, although the block  *)
(* is copied out later and other threads write meanwhile.                  *)
Queue == INSTANCE PoolQueue WITH
  Capacity   <- BlockCount,
  queue      <- [k \in 1 .. Len(active) |-> mem[active[k]]],
  reading    <- [r \in Reader |-> IF pc[r] = "taken" THEN mem[held[r]] ELSE NoItem],
  destroying <- phase \in {"closing", "closed"}

ImplementsPoolQueue == Queue!Spec
=============================================================================
