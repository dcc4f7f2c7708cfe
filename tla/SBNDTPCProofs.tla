-------------------------- MODULE SBNDTPCProofs --------------------------
(***************************************************************************)
(* Proofs about the readout of the SBND TPC: WIBReader, for any number of  *)
(* processes, FEMBs and tries and every set of enabled FEMBs, and NevisTPC,*)
(* for any number of modules, size of the circular buffer and of a         *)
(* transfer, room for the word counts and period of the frame counters.    *)
(***************************************************************************)
EXTENDS WIBReader, NevisTPC, FiniteSetTheorems, SequenceTheorems, WellFoundedInduction, TLAPS

-----------------------------------------------------------------------------
(* WIBReader.                                                              *)

(* Which semaphores a reader has open and holds follows from where it is,  *)
(* as long as nobody has given up.                                         *)
Connected == {"detectAll", "femb", "detect", "configure", "sync", "links", "resync", "done"}

HoldsAll(r) == open[r] = Sem /\ held[r] = Sem
HoldsNone(r) == open[r] = {} /\ held[r] = {}

InTurn(r) ==
  /\ pc[r] \in {"down", "open", "failed"} => HoldsNone(r)
  /\ pc[r] = "yld" => open[r] = Sem /\ held[r] = {}
  /\ pc[r] = "lck" => open[r] = Sem /\ held[r] = {"yld"}
  /\ pc[r] \in InSetup \cup {"done"} => HoldsAll(r)
  /\ pc[r] = "ready" => IF calibration_mode THEN HoldsAll(r) ELSE HoldsNone(r)
  /\ pc[r] \in {"release", "shutdown"} => held[r] = open[r]
  /\ pc[r] # "giveUp"

(* The connection to the board follows the program counter.                *)
ConnectedWhile(r) ==
  /\ wib[r] => pc[r] \in InSetup \cup {"done", "ready"}
  /\ pc[r] \in Connected => wib[r]
  /\ pc[r] = "ready" => wib[r] = calibration_mode
  /\ pc[r] = "release" => ~calibration_mode

(* The FEMBs before iFEMB have been configured in the try that is running. *)
ConfiguredSoFar(r) ==
  /\ pc[r] \notin {"femb", "detect", "configure", "sync", "links", "resync", "done"} =>
       iFEMB[r] = 1
  /\ pc[r] \in {"femb", "detect", "configure"} =>
       \A f \in EnabledFEMBs : f < iFEMB[r] => femb[r][f] = "configured"
  /\ pc[r] \in {"detect", "configure"} => iFEMB[r] \in EnabledFEMBs
  /\ pc[r] = "configure" => femb[r][iFEMB[r]] = "detected"
  /\ pc[r] \in {"sync", "links", "resync", "done", "release", "ready"} =>
       \A f \in EnabledFEMBs : femb[r][f] = "configured"
  /\ pc[r] \in {"sync", "links", "resync"} \/ mapMode[r] => do_err_chk
  /\ pc[r] \in {"done", "release", "ready"} => ~mapMode[r]

IInv ==
  /\ TypeOK
  /\ ~gaveUp => \A r \in Reader : InTurn(r)
  /\ SemaphoresBalanced
  /\ \A r \in Reader : ConnectedWhile(r) /\ ConfiguredSoFar(r)

-----------------------------------------------------------------------------
(* How many readers hold a semaphore.                                      *)

Holders(s) == {r \in Reader : s \in held[r]}

(* Giving reader r the set X instead of held[r] changes the count by one   *)
(* or not at all.                                                          *)
LEMMA HoldersCount ==
  ASSUME TypeOK, NEW r \in Reader, NEW X \in SUBSET Sem, held' = Set(held, r, X),
         NEW s \in Sem
  PROVE  /\ Cardinality(Holders(s)) \in Nat /\ Cardinality(Holders(s)') \in Nat
         /\ s \in X /\ s \notin held[r] =>
              Cardinality(Holders(s)') = Cardinality(Holders(s)) + 1
         /\ s \notin X /\ s \in held[r] =>
              Cardinality(Holders(s)') = Cardinality(Holders(s)) - 1
         /\ (s \in X <=> s \in held[r]) =>
              Cardinality(Holders(s)') = Cardinality(Holders(s))
<1> DEFINE H == Holders(s)
           G == Holders(s)'
<1>1. held \in [Reader -> SUBSET Sem] /\ held' = [held EXCEPT ![r] = X]
  BY DEF TypeOK, Set
<1>2. H \subseteq Reader /\ G \subseteq Reader
  BY DEF Holders
<1>3. IsFiniteSet(H) /\ IsFiniteSet(G) /\ Cardinality(H) \in Nat /\ Cardinality(G) \in Nat
  BY <1>2, WIBAssumption, FS_Subset, FS_CardinalityType
<1>4. r \in H <=> s \in held[r]
  BY DEF Holders
<1>5. r \in G <=> s \in X
  BY <1>1 DEF Holders
<1>6. \A q \in Reader \ {r} : q \in G <=> q \in H
  BY <1>1 DEF Holders
<1> HIDE DEF H, G
<1>7. CASE s \in X /\ s \notin held[r]
  <2>1. G = H \cup {r} /\ r \notin H
    BY <1>2, <1>4, <1>5, <1>6, <1>7
  <2>2. Cardinality(G) = Cardinality(H) + 1
    BY <1>3, <2>1, FS_AddElement
  <2>3. QED
    BY <1>3, <1>7, <2>2 DEF H, G
<1>8. CASE s \notin X /\ s \in held[r]
  <2>1. G = H \ {r} /\ r \in H
    BY <1>2, <1>4, <1>5, <1>6, <1>8
  <2>2. Cardinality(G) = Cardinality(H) - 1
    BY <1>3, <2>1, FS_RemoveElement
  <2>3. QED
    BY <1>3, <1>8, <2>2 DEF H, G
<1>9. CASE s \in X <=> s \in held[r]
  <2>1. G = H
    BY <1>2, <1>4, <1>5, <1>6, <1>9
  <2>2. QED
    BY <1>3, <1>9, <2>1 DEF H, G
<1>10. QED
  BY <1>7, <1>8, <1>9

-----------------------------------------------------------------------------
(* TYPES                                                                   *)

(* The types of the variables, part by part.                               *)
SemTypes ==
  /\ sem \in [Sem -> Nat] /\ gaveUp \in BOOLEAN /\ leaked \in Nat
  /\ open \in [Reader -> SUBSET Sem] /\ held \in [Reader -> SUBSET Sem]

PlaceTypes ==
  /\ pc \in [Reader -> InSetup \cup Releasing \cup
                       {"down", "open", "yld", "lck", "done", "ready", "failed"}]
  /\ processes \in [Reader -> 0 .. MaxProcesses]

SetupTypes ==
  /\ wib \in [Reader -> BOOLEAN] /\ iTry \in [Reader -> 1 .. configuration_tries]
  /\ i \in [Reader -> Nat] /\ iFEMB \in [Reader -> 1 .. FEMBs + 1]

BoardTypes ==
  /\ femb \in [Reader -> [FEMB -> {"off", "on", "detected", "configured", "unsure"}]]
  /\ mapMode \in [Reader -> BOOLEAN]

(* Together they are the type invariant.                                   *)
LEMMA TypesTogether ==
  TypeOK <=> /\ SemTypes /\ PlaceTypes /\ SetupTypes /\ BoardTypes
             /\ {calibration_mode, do_femb_scan, do_err_chk} \subseteq BOOLEAN
BY DEF TypeOK, SemTypes, PlaceTypes, SetupTypes, BoardTypes

(* Types of the constants.                                                 *)
LEMMA WIBConstants ==
  /\ configuration_tries \in Nat \ {0} /\ ScanTries \in Nat /\ DetectTries \in Nat
  /\ MaxProcesses \in Nat /\ FEMBs \in Nat /\ EnabledFEMBs \subseteq 1 .. FEMBs
  /\ 1 \in 1 .. configuration_tries /\ 1 \in 1 .. FEMBs + 1
BY WIBAssumption

(* The steps of setupWIB() that do not throw: the semaphores stay.         *)
SetupStep(r) ==
  \/ (CommunicationError(r) /\ ~Fail(r)) \/ Connect(r)
  \/ (DetectAll(r) /\ ~Fail(r)) \/ SetupFEMB(r) \/ SkipFEMB(r)
  \/ (DetectFEMB(r) /\ ~Fail(r)) \/ ConfigureFEMB(r) \/ FEMBsDone(r)
  \/ Sync(r) \/ LinksGood(r) \/ LinksBad(r)

(* What a reader does, by the variables that it changes.                   *)
LEMMA ReaderSteps ==
  ASSUME NEW r \in Reader, Construct(r) \/ Step(r) \/ Destruct(r)
  PROVE  \/ Construct(r) \/ OpenSemaphores(r) \/ Acquire(r, "yld") \/ Acquire(r, "lck")
         \/ WaitFails(r, "yld") \/ WaitFails(r, "lck") \/ Post(r) \/ Released(r)
         \/ Fail(r) \/ SetupStep(r) \/ Constructed(r) \/ Destruct(r)
BY DEF Step, setupWIB, acquireSemaphores, Sem, Do_Err_Check, Throws, SetupStep

(* Every step of a reader keeps the types of the semaphores ...            *)
LEMMA SemTypesStep ==
  ASSUME SemTypes, NEW r \in Reader, Construct(r) \/ Step(r) \/ Destruct(r)
  PROVE  SemTypes'
<1> USE DEF SemTypes, Set, semaphores, Sem
<1>1. CASE Construct(r) \/ Released(r) \/ Constructed(r) \/ Destruct(r)
  BY <1>1 DEF Construct, Released, Constructed, Destruct
<1>2. CASE OpenSemaphores(r)
  BY <1>2 DEF OpenSemaphores
<1>3. ASSUME NEW s \in Sem, Acquire(r, s) PROVE SemTypes'
  <2>1. sem[s] - 1 \in Nat
    BY <1>3 DEF Acquire
  <2>2. sem' \in [Sem -> Nat] /\ held' \in [Reader -> SUBSET Sem]
    BY <1>3, <2>1 DEF Acquire
  <2>3. QED
    BY <1>3, <2>2 DEF Acquire
<1>4. ASSUME NEW s \in Sem, WaitFails(r, s) PROVE SemTypes'
  BY <1>4 DEF WaitFails
<1>5. CASE Post(r)
  BY <1>5 DEF Post
<1>6. CASE Fail(r)
  BY <1>6 DEF Fail
<1>7. CASE SetupStep(r)
  BY <1>7 DEF SetupStep, CommunicationError, Connect, DetectAll, LookAgain, SetupFEMB, SkipFEMB,
     DetectFEMB, ConfigureFEMB, FEMBsDone, Sync, LinksGood, LinksBad
<1>8. "yld" \in Sem /\ "lck" \in Sem
  OBVIOUS
<1>9. QED
  BY <1>1, <1>2, <1>3, <1>4, <1>5, <1>6, <1>7, <1>8, ReaderSteps

(* ... of the place of every reader ...                                    *)
LEMMA PlaceTypesStep ==
  ASSUME PlaceTypes, NEW r \in Reader, Construct(r) \/ Step(r) \/ Destruct(r)
  PROVE  PlaceTypes'
<1> DEFINE PC == InSetup \cup Releasing \cup
                 {"down", "open", "yld", "lck", "done", "ready", "failed"}
<1>m. ASSUME NEW to \in PC, pc' = Set(pc, r, to) PROVE pc' \in [Reader -> PC]
  BY <1>m DEF PlaceTypes, Set
<1>w. /\ InSetup \subseteq PC /\ Releasing \subseteq PC
      /\ {"down", "open", "yld", "lck", "done", "ready", "failed"} \subseteq PC
  OBVIOUS
<1>1. CASE Construct(r)
  <2>1. processes[r] + 1 \in 0 .. MaxProcesses
    BY <1>1, WIBConstants DEF Construct, PlaceTypes
  <2>2. processes' \in [Reader -> 0 .. MaxProcesses]
    BY <1>1, <2>1 DEF Construct, PlaceTypes, Set
  <2>3. pc' \in [Reader -> PC]
    BY <1>1, <1>m, <1>w DEF Construct
  <2>4. QED
    BY <2>2, <2>3 DEF PlaceTypes
<1>2. CASE UNCHANGED processes /\ (UNCHANGED pc \/ \E to \in PC : pc' = Set(pc, r, to))
  BY <1>2, <1>m DEF PlaceTypes
<1>3. CASE OpenSemaphores(r) \/ Acquire(r, "yld") \/ Acquire(r, "lck")
           \/ WaitFails(r, "yld") \/ WaitFails(r, "lck") \/ Post(r) \/ Released(r) \/ Fail(r)
           \/ Constructed(r) \/ Destruct(r)
  BY <1>2, <1>3 DEF OpenSemaphores, Acquire, WaitFails, Post, Released, Fail, Constructed, Destruct,
     Goto, InSetup, Releasing
<1>4. CASE SetupStep(r)
  BY <1>2, <1>4 DEF SetupStep, CommunicationError, Connect, DetectAll, LookAgain, SetupFEMB,
     SkipFEMB, DetectFEMB, ConfigureFEMB, FEMBsDone, Sync, LinksGood, LinksBad, Goto, InSetup
<1>5. QED
  BY <1>1, <1>3, <1>4, ReaderSteps

(* ... of the tries and the boards that setupWIB() counts ...              *)
LEMMA SetupTypesStep ==
  ASSUME NEW r \in Reader, SetupTypes, ConfiguredSoFar(r), calibration_mode \in BOOLEAN,
         Construct(r) \/ Step(r) \/ Destruct(r)
  PROVE  SetupTypes'
<1> USE DEF SetupTypes, Set, NewTry, setup, FEMB
<1>1. CASE UNCHANGED setup
  BY <1>1
<1>2. CASE Construct(r) \/ OpenSemaphores(r) \/ Acquire(r, "yld") \/ Acquire(r, "lck")
           \/ WaitFails(r, "yld") \/ WaitFails(r, "lck") \/ Post(r) \/ Released(r)
  BY <1>1, <1>2 DEF Construct, OpenSemaphores, Acquire, WaitFails, Post, Released
<1>3. CASE Fail(r)
  BY <1>3, WIBConstants DEF Fail
<1>4. CASE Constructed(r) \/ Destruct(r)
  <2>1. PICK connected \in BOOLEAN : wib' = [wib EXCEPT ![r] = connected]
    BY <1>4 DEF Constructed, Destruct
  <2>2. wib' \in [Reader -> BOOLEAN]
    BY <2>1
  <2>3. QED
    BY <1>4, <2>2, WIBConstants DEF Constructed, Destruct
<1>5. CASE (CommunicationError(r) /\ ~Fail(r))
  <2>1. iTry[r] + 1 \in 1 .. configuration_tries
    BY <1>5, WIBConstants DEF CommunicationError
  <2>2. QED
    BY <1>5, <2>1, WIBConstants DEF CommunicationError
<1>6. CASE (DetectAll(r) /\ ~Fail(r)) \/ (DetectFEMB(r) /\ ~Fail(r))
  BY <1>6 DEF DetectAll, DetectFEMB, LookAgain
<1>7. CASE SkipFEMB(r) \/ ConfigureFEMB(r)
  <2>1. iFEMB[r] \in 1 .. FEMBs
    BY <1>7, WIBConstants DEF SkipFEMB, ConfigureFEMB, Goto, ConfiguredSoFar
  <2>2. iFEMB[r] + 1 \in 1 .. FEMBs + 1
    BY <2>1, WIBConstants
  <2>3. QED
    BY <1>7, <2>2 DEF SkipFEMB, ConfigureFEMB
<1>8. CASE Connect(r)
  BY <1>8 DEF Connect
<1>9. CASE SetupFEMB(r) \/ FEMBsDone(r) \/ Sync(r) \/ LinksGood(r) \/ LinksBad(r)
  BY <1>1, <1>9 DEF SetupFEMB, FEMBsDone, Sync, LinksGood, LinksBad
<1>10. QED
  BY <1>2, <1>3, <1>4, <1>5, <1>6, <1>7, <1>8, <1>9, ReaderSteps DEF SetupStep

(* ... and of what is known of the boards.                                 *)
LEMMA BoardTypesStep ==
  ASSUME BoardTypes, SetupTypes, NEW r \in Reader, Construct(r) \/ Step(r) \/ Destruct(r)
  PROVE  BoardTypes'
<1> USE DEF BoardTypes, Set, board, FEMB
<1>1. CASE UNCHANGED board
  BY <1>1
<1>2. CASE Construct(r) \/ OpenSemaphores(r) \/ Acquire(r, "yld") \/ Acquire(r, "lck")
           \/ WaitFails(r, "yld") \/ WaitFails(r, "lck") \/ Post(r) \/ Released(r)
           \/ Fail(r) \/ Constructed(r) \/ Destruct(r)
  BY <1>1, <1>2 DEF Construct, OpenSemaphores, Acquire, WaitFails, Post, Released, Fail,
     Constructed, Destruct
<1>3. CASE SkipFEMB(r) \/ FEMBsDone(r) \/ LinksBad(r) \/ (CommunicationError(r) /\ ~Fail(r))
  BY <1>1, <1>3 DEF SkipFEMB, FEMBsDone, LinksBad, CommunicationError
<1>4. CASE Connect(r)
  BY <1>4 DEF Connect
<1>5. CASE DetectAll(r) /\ ~Fail(r)
  BY <1>1, <1>5 DEF DetectAll, LookAgain
<1>f. ASSUME NEW state \in {"on", "detected", "configured", "unsure"},
             femb' = [femb EXCEPT ![r][iFEMB[r]] = state], UNCHANGED mapMode
      PROVE  BoardTypes'
  <2>1. [femb[r] EXCEPT ![iFEMB[r]] = state]
           \in [FEMB -> {"off", "on", "detected", "configured", "unsure"}]
    OBVIOUS
  <2>2. femb' = [femb EXCEPT ![r] = [femb[r] EXCEPT ![iFEMB[r]] = state]]
    BY <1>f
  <2>3. QED
    BY <1>f, <2>1, <2>2
<1>6. CASE SetupFEMB(r) \/ ConfigureFEMB(r) \/ (DetectFEMB(r) /\ ~Fail(r))
  <2>1. UNCHANGED board \/ \E state \in {"on", "detected", "configured", "unsure"} :
          femb' = [femb EXCEPT ![r][iFEMB[r]] = state] /\ UNCHANGED mapMode
    BY <1>6 DEF SetupFEMB, ConfigureFEMB, DetectFEMB, LookAgain
  <2>2. QED
    BY <1>1, <1>f, <2>1
<1>7. CASE Sync(r) \/ LinksGood(r)
  BY <1>7 DEF Sync, LinksGood
<1>8. QED
  BY <1>2, <1>3, <1>4, <1>5, <1>6, <1>7, ReaderSteps DEF SetupStep

(* Every step of a reader keeps the types of all variables.                *)
LEMMA TypeStep ==
  ASSUME IInv, NEW r \in Reader, Construct(r) \/ Step(r) \/ Destruct(r)
  PROVE  TypeOK'
<1>1. TypeOK /\ ConfiguredSoFar(r) /\ calibration_mode \in BOOLEAN
  BY DEF IInv, TypeOK
<1>2. SemTypes' /\ PlaceTypes' /\ SetupTypes' /\ BoardTypes'
  BY <1>1, TypesTogether, SemTypesStep, PlaceTypesStep, SetupTypesStep, BoardTypesStep
<1>3. UNCHANGED flags
  BY ReaderSteps DEF SetupStep, Construct, OpenSemaphores, Acquire, WaitFails, Post, Released, Fail,
     Constructed, Destruct, CommunicationError, Connect, DetectAll, LookAgain, SetupFEMB, SkipFEMB,
     DetectFEMB, ConfigureFEMB, FEMBsDone, Sync, LinksGood, LinksBad
<1>4. ({calibration_mode, do_femb_scan, do_err_chk} \subseteq BOOLEAN)'
  BY <1>1, <1>3, TypesTogether DEF flags
<1>5. QED
  BY <1>2, <1>4 DEF TypeOK, SemTypes, PlaceTypes, SetupTypes, BoardTypes

-----------------------------------------------------------------------------
(* SEMAPHORES                                                              *)

(* A step of setupWIB() that throws out of the constructor, and one that   *)
(* does not.                                                               *)
LEMMA SetupMoves ==
  ASSUME IInv, NEW r \in Reader, setupWIB(r) \/ Constructed(r) \/ Destruct(r)
  PROVE  \/ pc[r] \in InSetup /\ Fail(r)
         \/ /\ UNCHANGED semaphores
            /\ \E to \in InSetup \cup {"done", "ready", "release", "shutdown"} :
                 pc' = Set(pc, r, to)
            /\ pc[r] \in InSetup => pc'[r] \in InSetup \cup {"done"}
            /\ pc[r] = "done" => pc'[r] = IF calibration_mode THEN "ready" ELSE "release"
            /\ pc[r] = "ready" => pc'[r] = "shutdown"
            /\ pc[r] \in InSetup \cup {"done", "ready"}
<1> USE DEF IInv, TypeOK, Set, Goto, NewTry, InSetup, Releasing
<1>1. CASE Throws(r) \/ CommunicationError(r)
  BY <1>1 DEF Throws, CommunicationError
<1>2. CASE DetectAll(r) \/ DetectFEMB(r)
  BY <1>2 DEF DetectAll, DetectFEMB, LookAgain
<1>3. CASE Connect(r) \/ SetupFEMB(r) \/ SkipFEMB(r) \/ ConfigureFEMB(r) \/ FEMBsDone(r)
  BY <1>3 DEF Connect, SetupFEMB, SkipFEMB, ConfigureFEMB, FEMBsDone
<1>4. CASE Do_Err_Check(r)
  BY <1>4 DEF Do_Err_Check, Sync, LinksGood, LinksBad
<1>5. CASE Constructed(r) \/ Destruct(r)
  BY <1>5 DEF Constructed, Destruct
<1>6. QED
  BY <1>1, <1>2, <1>3, <1>4, <1>5 DEF setupWIB

(* No acquisition is lost or given back twice until a reader gives up.     *)
LEMMA BalanceStep ==
  ASSUME IInv, NEW r \in Reader, Construct(r) \/ Step(r) \/ Destruct(r)
  PROVE  SemaphoresBalanced'
<1>1. SUFFICES ASSUME ~gaveUp', NEW s \in Sem
               PROVE  sem'[s] + Cardinality(Holders(s)') + leaked' = 1
  BY DEF SemaphoresBalanced, Holders
<1>2. ~gaveUp
  BY <1>1, SetupMoves
     DEF Step, acquireSemaphores, Construct, OpenSemaphores, Acquire, WaitFails, Post,
         Released, Fail, semaphores
<1>t. /\ sem \in [Sem -> Nat] /\ leaked \in Nat /\ held \in [Reader -> SUBSET Sem]
      /\ open \in [Reader -> SUBSET Sem] /\ TypeOK /\ InTurn(r)
      /\ Cardinality(Holders(s)) \in Nat
  BY <1>2, WIBAssumption, FS_Subset, FS_CardinalityType DEF IInv, TypeOK, Holders
<1>b. sem[s] + Cardinality(Holders(s)) + leaked = 1
  BY <1>2 DEF IInv, SemaphoresBalanced, Holders
<1>3. CASE UNCHANGED <<sem, held, leaked>>
  BY <1>3, <1>b DEF Holders
<1>4. CASE \E t \in Sem : Acquire(r, t)
  <2>1. PICK t \in Sem : Acquire(r, t)
    BY <1>4
  <2>2. /\ sem' = [sem EXCEPT ![t] = sem[t] - 1] /\ held' = Set(held, r, held[r] \cup {t})
        /\ leaked' = leaked /\ pc[r] = t
    BY <2>1 DEF Acquire, Goto
  <2>3. t \notin held[r]
    BY <1>t, <2>2 DEF InTurn, Sem
  <2>4. held[r] \cup {t} \in SUBSET Sem
    BY <1>t
  <2>5. CASE s = t
    <3>1. Cardinality(Holders(s)') = Cardinality(Holders(s)) + 1
      BY <1>t, <2>2, <2>3, <2>4, <2>5, HoldersCount
    <3>2. sem'[s] = sem[s] - 1
      BY <1>t, <2>2, <2>5
    <3>3. QED
      BY <1>t, <1>b, <2>2, <3>1, <3>2
  <2>6. CASE s # t
    <3>1. Cardinality(Holders(s)') = Cardinality(Holders(s))
      BY <1>t, <2>2, <2>4, <2>6, HoldersCount
    <3>2. sem'[s] = sem[s]
      BY <1>t, <2>2, <2>6
    <3>3. QED
      BY <1>b, <2>2, <3>1, <3>2
  <2>7. QED
    BY <2>5, <2>6
<1>5. CASE Post(r)
  <2>1. PICK t \in Sem : /\ sem' = [sem EXCEPT ![t] = sem[t] + 1]
                         /\ held' = Set(held, r, held[r] \ {t})
                         /\ t \in open[r] /\ leaked' = leaked
    <3>1. open[r] \subseteq Sem /\ open[r] # {}
      BY <1>5, <1>t DEF Post
    <3>2. (IF "yld" \in open[r] THEN "yld" ELSE "lck") \in open[r] \cap Sem
      BY <3>1 DEF Sem
    <3>3. QED
      BY <1>5, <3>2 DEF Post
  <2>2. held[r] = open[r]
    BY <1>5, <1>t DEF Post, InTurn, Releasing
  <2>3. held[r] \ {t} \in SUBSET Sem
    BY <1>t
  <2>4. CASE s = t
    <3>1. Cardinality(Holders(s)') = Cardinality(Holders(s)) - 1
      BY <1>t, <2>1, <2>2, <2>3, <2>4, HoldersCount
    <3>2. sem'[s] = sem[s] + 1
      BY <1>t, <2>1, <2>4
    <3>3. QED
      BY <1>t, <1>b, <2>1, <3>1, <3>2
  <2>5. CASE s # t
    <3>1. Cardinality(Holders(s)') = Cardinality(Holders(s))
      BY <1>t, <2>1, <2>3, <2>5, HoldersCount
    <3>2. sem'[s] = sem[s]
      BY <1>t, <2>1, <2>5
    <3>3. QED
      BY <1>b, <2>1, <3>1, <3>2
  <2>6. QED
    BY <2>4, <2>5
<1>6. CASE pc[r] \in InSetup /\ Fail(r)
  <2>1. held[r] = Sem /\ held' = Set(held, r, {}) /\ sem' = sem /\ leaked' = leaked + 1
    BY <1>6, <1>t DEF Fail, InTurn, HoldsAll
  <2>2. Cardinality(Holders(s)') = Cardinality(Holders(s)) - 1
    BY <1>t, <2>1, HoldersCount
  <2>3. QED
    BY <1>t, <1>b, <2>1, <2>2
<1>7. QED
  BY <1>3, <1>4, <1>5, <1>6, SetupMoves
     DEF Step, acquireSemaphores, Construct, OpenSemaphores, WaitFails, Released, semaphores

(* Each reader has open, and holds, what its place in the code says, until *)
(* one gives up.                                                           *)
LEMMA TurnStep ==
  ASSUME IInv, ~gaveUp', NEW r \in Reader, Construct(r) \/ Step(r) \/ Destruct(r),
         NEW q \in Reader
  PROVE  InTurn(q)'
<1>1. ~gaveUp
  BY SetupMoves
     DEF Step, acquireSemaphores, Construct, OpenSemaphores, Acquire, WaitFails, Post,
         Released, Fail, semaphores
<1>t. /\ open \in [Reader -> SUBSET Sem] /\ held \in [Reader -> SUBSET Sem]
      /\ pc \in [Reader -> InSetup \cup Releasing \cup
                       {"down", "open", "yld", "lck", "done", "ready", "failed"}]
      /\ InTurn(r) /\ InTurn(q)
  BY <1>1 DEF IInv, TypeOK
<1>c. calibration_mode' = calibration_mode
  BY DEF Construct, Step, Destruct, acquireSemaphores, OpenSemaphores, Acquire, WaitFails,
     setupWIB, Throws, CommunicationError, Connect, DetectAll, LookAgain, Fail, SetupFEMB,
     SkipFEMB, DetectFEMB, ConfigureFEMB, FEMBsDone, Do_Err_Check, Sync, LinksGood,
     LinksBad, Constructed, Post, Released, flags
<1> USE DEF Set, Goto, InTurn, HoldsAll, HoldsNone, InSetup, Releasing, Sem
<1>2. CASE Construct(r)
  BY <1>t, <1>c, <1>2 DEF Construct, semaphores
<1>3. CASE OpenSemaphores(r)
  BY <1>t, <1>c, <1>3 DEF OpenSemaphores
<1>4. CASE \E s \in Sem : Acquire(r, s) \/ WaitFails(r, s)
  <2>1. CASE Acquire(r, "yld")
    BY <1>t, <1>c, <2>1 DEF Acquire
  <2>2. CASE Acquire(r, "lck")
    BY <1>t, <1>c, <2>2 DEF Acquire
  <2>3. CASE WaitFails(r, "yld") \/ WaitFails(r, "lck")
    BY <2>3 DEF WaitFails
  <2>4. QED
    BY <1>4, <2>1, <2>2, <2>3
<1>5. CASE Post(r)
  BY <1>t, <1>c, <1>5 DEF Post
<1>6. CASE Released(r)
  <2>1. pc[r] = "release" => ~calibration_mode
    BY DEF IInv, ConnectedWhile
  <2>2. QED
    BY <1>t, <1>c, <1>6, <2>1 DEF Released, semaphores
<1>7. CASE Fail(r)
  BY <1>t, <1>c, <1>7 DEF Fail
<1>8. CASE (setupWIB(r) \/ Constructed(r) \/ Destruct(r)) /\ ~Fail(r)
  BY <1>t, <1>c, <1>8, SetupMoves DEF semaphores
<1>9. QED
  BY <1>2, <1>3, <1>4, <1>5, <1>6, <1>7, <1>8 DEF Step, acquireSemaphores

-----------------------------------------------------------------------------
(* THE BOARDS                                                              *)

(* A reader touches only its own board and connection, and the             *)
(* configuration does not change.                                          *)
LEMMA OtherBoards ==
  ASSUME IInv, NEW r \in Reader, Construct(r) \/ Step(r) \/ Destruct(r)
  PROVE  /\ \A q \in Reader : q # r =>
              /\ pc'[q] = pc[q] /\ wib'[q] = wib[q] /\ iFEMB'[q] = iFEMB[q]
              /\ femb'[q] = femb[q] /\ mapMode'[q] = mapMode[q]
         /\ UNCHANGED flags
<1> USE DEF IInv, TypeOK, Set, Goto, NewTry, semaphores, setup, board, InSetup, Releasing
<1>f. ASSUME Fail(r)
      PROVE  /\ \A q \in Reader : q # r =>
                  /\ pc'[q] = pc[q] /\ wib'[q] = wib[q] /\ iFEMB'[q] = iFEMB[q]
                  /\ femb'[q] = femb[q] /\ mapMode'[q] = mapMode[q]
             /\ UNCHANGED flags
  BY <1>f DEF Fail
<1>1. CASE Construct(r) \/ Post(r) \/ Released(r) \/ Constructed(r) \/ Destruct(r)
  BY <1>1 DEF Construct, Post, Released, Constructed, Destruct
<1>2. CASE acquireSemaphores(r)
  BY <1>2 DEF acquireSemaphores, OpenSemaphores, Acquire, WaitFails
<1>3. CASE Throws(r) \/ CommunicationError(r)
  BY <1>3, <1>f DEF Throws, CommunicationError
<1>4. CASE DetectAll(r) \/ DetectFEMB(r)
  BY <1>4, <1>f DEF DetectAll, DetectFEMB, LookAgain
<1>5. CASE Connect(r) \/ SetupFEMB(r) \/ SkipFEMB(r) \/ ConfigureFEMB(r) \/ FEMBsDone(r)
  BY <1>5 DEF Connect, SetupFEMB, SkipFEMB, ConfigureFEMB, FEMBsDone
<1>6. CASE Do_Err_Check(r)
  BY <1>6 DEF Do_Err_Check, Sync, LinksGood, LinksBad
<1>7. QED
  BY <1>1, <1>2, <1>3, <1>4, <1>5, <1>6 DEF Step, setupWIB

(* The connection and the FEMBs of the reader that moves.                  *)
LEMMA OwnBoard ==
  ASSUME IInv, NEW r \in Reader, Construct(r) \/ Step(r) \/ Destruct(r)
  PROVE  ConnectedWhile(r)' /\ ConfiguredSoFar(r)'
<1>c. FEMBs \in Nat /\ EnabledFEMBs \subseteq 1 .. FEMBs
  BY WIBAssumption
<1>t. /\ pc \in [Reader -> InSetup \cup Releasing \cup
                       {"down", "open", "yld", "lck", "done", "ready", "failed"}]
      /\ wib \in [Reader -> BOOLEAN] /\ mapMode \in [Reader -> BOOLEAN]
      /\ iFEMB \in [Reader -> 1 .. FEMBs + 1]
      /\ femb \in [Reader -> [FEMB -> {"off", "on", "detected", "configured", "unsure"}]]
      /\ iTry \in [Reader -> 1 .. configuration_tries]
      /\ calibration_mode \in BOOLEAN
      /\ ConnectedWhile(r) /\ ConfiguredSoFar(r)
  BY DEF IInv, TypeOK
<1>u. calibration_mode' = calibration_mode /\ do_err_chk' = do_err_chk
  BY OtherBoards DEF flags
<1> USE DEF Set, Goto, NewTry, ConnectedWhile, ConfiguredSoFar, Connected, FEMB,
            InSetup, Releasing, Sem, setup, board
<1>f. ASSUME Fail(r) PROVE ConnectedWhile(r)' /\ ConfiguredSoFar(r)'
  BY <1>t, <1>u, <1>f DEF Fail
<1>1. CASE Construct(r) \/ Post(r) \/ Released(r) \/ Destruct(r)
  BY <1>t, <1>u, <1>1 DEF Construct, Post, Released, Destruct
<1>2. CASE acquireSemaphores(r)
  BY <1>t, <1>u, <1>2 DEF acquireSemaphores, OpenSemaphores, Acquire, WaitFails
<1>3. CASE Throws(r) \/ CommunicationError(r)
  BY <1>t, <1>u, <1>3, <1>f DEF Throws, CommunicationError
<1>4. CASE Connect(r)
  BY <1>t, <1>u, <1>c, <1>4 DEF Connect
<1>5. CASE DetectAll(r)
  BY <1>t, <1>u, <1>c, <1>5, <1>f DEF DetectAll, LookAgain
<1>6. CASE SetupFEMB(r)
  BY <1>t, <1>u, <1>c, <1>6 DEF SetupFEMB
<1>7. CASE SkipFEMB(r)
  BY <1>t, <1>u, <1>c, <1>7 DEF SkipFEMB
<1>8. CASE DetectFEMB(r)
  BY <1>t, <1>u, <1>c, <1>8, <1>f DEF DetectFEMB, LookAgain
<1>9. CASE ConfigureFEMB(r)
  BY <1>t, <1>u, <1>c, <1>9 DEF ConfigureFEMB
<1>10. CASE FEMBsDone(r)
  BY <1>t, <1>u, <1>c, <1>10 DEF FEMBsDone
<1>11. CASE Do_Err_Check(r)
  BY <1>t, <1>u, <1>11 DEF Do_Err_Check, Sync, LinksGood, LinksBad
<1>12. CASE Constructed(r)
  BY <1>t, <1>u, <1>12 DEF Constructed
<1>13. QED
  BY <1>1, <1>2, <1>3, <1>4, <1>5, <1>6, <1>7, <1>8, <1>9, <1>10, <1>11, <1>12
     DEF Step, setupWIB

-----------------------------------------------------------------------------
(* THEOREMS                                                                *)

(* The initial states.                                                     *)
LEMMA InitIInv == Init => IInv
<1>1. SUFFICES ASSUME Init PROVE IInv
  OBVIOUS
<1>2. TypeOK
  <2>1. /\ FEMBs \in Nat /\ MaxProcesses \in Nat /\ 0 \in 0 .. MaxProcesses
        /\ 1 \in 1 .. configuration_tries /\ 1 \in 1 .. FEMBs + 1
    BY WIBAssumption
  <2>2. femb \in [Reader -> [FEMB -> {"off", "on", "detected", "configured", "unsure"}]]
    BY <1>1 DEF Init
  <2>3. /\ iTry \in [Reader -> 1 .. configuration_tries] /\ i \in [Reader -> Nat]
        /\ iFEMB \in [Reader -> 1 .. FEMBs + 1] /\ processes \in [Reader -> 0 .. MaxProcesses]
    BY <1>1, <2>1 DEF Init
  <2>4. /\ sem \in [Sem -> Nat] /\ open \in [Reader -> SUBSET Sem]
        /\ held \in [Reader -> SUBSET Sem] /\ wib \in [Reader -> BOOLEAN]
        /\ mapMode \in [Reader -> BOOLEAN] /\ gaveUp \in BOOLEAN /\ leaked \in Nat
        /\ {calibration_mode, do_femb_scan, do_err_chk} \subseteq BOOLEAN
    BY <1>1 DEF Init
  <2>5. QED
    BY <1>1, <2>2, <2>3, <2>4 DEF Init, TypeOK
<1>3. \A r \in Reader : InTurn(r) /\ ConnectedWhile(r) /\ ConfiguredSoFar(r)
  BY <1>1 DEF Init, InTurn, HoldsNone, ConnectedWhile, ConfiguredSoFar, Connected, InSetup
<1>4. SemaphoresBalanced
  <2>1. ASSUME NEW s \in Sem PROVE {r \in Reader : s \in held[r]} = {}
    BY <1>1 DEF Init
  <2>2. ASSUME NEW s \in Sem
        PROVE  sem[s] + Cardinality({r \in Reader : s \in held[r]}) + leaked = 1
    <3>1. Cardinality({r \in Reader : s \in held[r]}) = 0
      BY <2>1, FS_EmptySet
    <3>2. sem[s] = 1 /\ leaked = 0
      BY <1>1 DEF Init
    <3>3. QED
      BY <3>1, <3>2
  <2>3. QED
    BY <2>2 DEF SemaphoresBalanced
<1>5. QED
  BY <1>2, <1>3, <1>4 DEF IInv

(* Every step keeps the invariant.                                         *)
LEMMA NextIInv == IInv /\ [Next]_vars => IInv'
<1>1. SUFFICES ASSUME IInv, [Next]_vars PROVE IInv'
  OBVIOUS
<1>2. CASE UNCHANGED vars
  BY <1>1, <1>2
     DEF vars, semaphores, setup, board, flags, IInv, TypeOK, InTurn, HoldsAll, HoldsNone,
         SemaphoresBalanced, ConnectedWhile, ConfiguredSoFar
<1>3. CASE Next
  <2>1. PICK r \in Reader : Construct(r) \/ Step(r) \/ Destruct(r)
    BY <1>3 DEF Next
  <2>2. TypeOK' /\ SemaphoresBalanced'
    BY <1>1, <2>1, TypeStep, BalanceStep
  <2>3. ~gaveUp' => \A q \in Reader : InTurn(q)'
    BY <1>1, <2>1, TurnStep
  <2>4. ASSUME NEW q \in Reader PROVE ConnectedWhile(q)' /\ ConfiguredSoFar(q)'
    <3>1. CASE q = r
      BY <1>1, <2>1, <3>1, OwnBoard
    <3>2. CASE q # r
      <4>1. ConnectedWhile(q) /\ ConfiguredSoFar(q)
        BY <1>1 DEF IInv
      <4>2. /\ pc'[q] = pc[q] /\ wib'[q] = wib[q] /\ iFEMB'[q] = iFEMB[q]
            /\ femb'[q] = femb[q] /\ mapMode'[q] = mapMode[q] /\ UNCHANGED flags
        BY <1>1, <2>1, <3>2, OtherBoards
      <4>3. QED
        BY <4>1, <4>2 DEF ConnectedWhile, ConfiguredSoFar, flags
    <3>3. QED
      BY <3>1, <3>2
  <2>5. QED
    BY <2>2, <2>3, <2>4 DEF IInv
<1>4. QED
  BY <1>1, <1>2, <1>3

(* In every state of any number of processes of a host, what a process has *)
(* acquired and what it has done to its board follow from its place in the *)
(* constructor or destructor.                                              *)
THEOREM Invariance == Spec => []IInv
  BY InitIInv, NextIInv, PTL DEF Spec

(* At most one of any number of processes configures its board, and no     *)
(* semaphore is lost or given back twice, until a reader gives up.         *)
THEOREM OneAtATime == Spec => []Inv
<1>1. IInv => Inv
  <2>1. SUFFICES ASSUME IInv, ~gaveUp PROVE OneConfigures
    BY DEF IInv, Inv, OneConfigures
  <2> DEFINE W == {r \in Reader : wib[r]}
  <2>2. "lck" \in Sem
    BY DEF Sem
  <2>3. W \subseteq Holders("lck")
    BY <2>1, <2>2 DEF IInv, ConnectedWhile, InTurn, HoldsAll, Holders
  <2>4. IsFiniteSet(Holders("lck")) /\ Cardinality(Holders("lck")) \in Nat
    BY WIBAssumption, FS_Subset, FS_CardinalityType DEF Holders
  <2>5. IsFiniteSet(W) /\ Cardinality(W) <= Cardinality(Holders("lck")) /\ Cardinality(W) \in Nat
    BY <2>3, <2>4, FS_Subset, FS_CardinalityType
  <2>6. /\ sem["lck"] + Cardinality(Holders("lck")) + leaked = 1
        /\ sem["lck"] \in Nat /\ leaked \in Nat
    BY <2>1, <2>2 DEF IInv, TypeOK, SemaphoresBalanced, Holders
  <2> HIDE DEF W
  <2>7. Cardinality(W) <= 1
    BY <2>4, <2>5, <2>6
  <2>8. QED
    BY <2>7 DEF OneConfigures, W
<1>2. QED
  BY <1>1, Invariance, PTL

(* Whatever tries it took, a constructed reader has every enabled FEMB     *)
(* found healthy and then configured, out of mapping mode, and the         *)
(* connection it will be asked to use.                                     *)
THEOREM AllConfigured == Spec => []ConfiguredWhenReady
<1>1. IInv => ConfiguredWhenReady
  BY DEF IInv, TypeOK, ConfiguredWhenReady, ConnectedWhile, ConfiguredSoFar, Connected
<1>2. QED
  BY <1>1, Invariance, PTL

-----------------------------------------------------------------------------
(* NevisTPC.                                                               *)

(* Packets and words as the crate sends them, and what fills a transfer    *)
(* that was cut short.                                                     *)
Parts == 0 .. FEMs + 1
Fields ==
  [event : 0 .. MaxEvents, slot : -1 .. FEMs + 1, count : Nat, size : Nat,
   frame : Nat, slip : {0, 1}]

WellFormed(p) ==
  /\ p \in Fields /\ p.size >= 1
  /\ p.slot \in Slot =>
       /\ p.count \in Counts
       /\ p.size - HeaderWords - p.count \in - wiggle_room .. wiggle_room - 1
       /\ p.slip = 1 => p.slot = FEMs
  /\ p.slot \in {XMITHeader, XMITTrailer} => p.size = 2 /\ p.slip = 0

Word == {w \in [p : Fields, i : Nat] : WellFormed(w.p) /\ w.i \in 1 .. w.p.size}

WordsTyped ==
  /\ link \in Seq(Word) /\ DMABuffer_ \in Seq(Word) /\ buffer \in Seq(Word) /\ frag \in Seq(Word)
  /\ IF reader = "insert" THEN Len(DMABuffer_) = ChunkWords ELSE DMABuffer_ = <<>>
  /\ filling = "fem" => Len(buffer) >= HeaderWords

-----------------------------------------------------------------------------
(* What the crate has sent and FillFragment has not yet taken, in order.   *)
Stream == (buffer \o DMABuffer_) \o link

Follows(q, p) ==
  IF p.slot = XMITTrailer
  THEN q.slot = XMITHeader /\ q.event = p.event + 1 /\ q.frame \in p.frame + 1 .. p.frame + 2
  ELSE q.slot = p.slot + 1 /\ q.event = p.event /\ q.frame = p.frame

(* Packets are whole, and they follow each other.                          *)
Whole(s) ==
  \A j \in 1 .. Len(s) : \A k \in 1 .. s[j].p.size :
    /\ j - s[j].i + k \in 1 .. Len(s)
    /\ s[j - s[j].i + k] = [p |-> s[j].p, i |-> k]

Consecutive(s) ==
  \A j \in 1 .. Len(s) - 1 :
    s[j].i = s[j].p.size => s[j + 1].i = 1 /\ Follows(s[j + 1].p, s[j].p)

PartsOf(s) == \A j \in 1 .. Len(s) : s[j].p.slot \in Parts /\ s[j].p.event >= 1

InOrder(s) == Whole(s) /\ Consecutive(s) /\ PartsOf(s)

(* The last packet is the trailer of the last event.                       *)
UpToDate ==
  Stream # <<>> =>
    LET p == Stream[Len(Stream)].p
    IN p.slot = XMITTrailer /\ p.event = event /\ p.frame = frame

-----------------------------------------------------------------------------
(* Where FillFragment is in the stream: the packet it comes to next, which *)
(* may not have been sent.                                                 *)
NextSlot == IF Stream = <<>> THEN XMITHeader ELSE Stream[1].p.slot
NextEvent == IF Stream = <<>> THEN event + 1 ELSE Stream[1].p.event

FramesOf(s) == rollCounters[s] * FrameMod + prevFrames[s]

(* Fragments are as many as packets passed.                                *)
Counted == made = FEMs * (NextEvent - 1) + (IF NextSlot = XMITHeader THEN 0 ELSE NextSlot - 1)

(* The frame counters stand for the last packet of each module.            *)
Corrected ==
  \A s \in Slot :
    IF Stream = <<>> THEN FramesOf(s) = frame
    ELSE IF s < NextSlot THEN FramesOf(s) = Stream[1].p.frame
    ELSE FramesOf(s) \in Stream[1].p.frame - 2 .. Stream[1].p.frame - 1

(* Where FillFragment stands follows from what is next.                    *)
Standing ==
  /\ filling = "trailer" => NextSlot # XMITHeader
  /\ filling = "fem" => NextSlot \in Slot
  /\ filling = "thrown" => desyncCrash /\ buffer # <<>> /\ buffer[1].p.slip = 1

(* What a packet is compared with is of its event; the first module of an  *)
(* event is compared with itself, when it is looked at again.              *)
Compared ==
  desyncCrash =>
    /\ NextSlot = 1 => /\ current_event \in {-1, EventNum(Stream[1].p)}
                       /\ current_framenum \in {-1, FrameNum(Stream[1].p)}
    /\ NextSlot \in 2 .. FEMs => /\ current_event = NextEvent
                                 /\ current_framenum = FrameNum(Stream[1].p)

(* The subrun is of the fragment before the last one.                      *)
SubrunEvent == IF NextSlot > 2 THEN NextEvent ELSE NextEvent - 1
InSubrun ==
  desyncCrash /\ FEMs > 1 =>
    /\ metadata_.event = (IF NextSlot > 1 THEN NextEvent ELSE NextEvent - 1)
    /\ made = 0 => subrun = [event0 |-> -1, number |-> 0]
    /\ made > 0 => /\ subrun.number = SubrunEvent \div EventsPerSubrun
                   /\ subrun.event0 = EventsPerSubrun * (SubrunEvent \div EventsPerSubrun)

(* The last fragment is the packet before.                                 *)
LastFragment ==
  made > 0 =>
    LET p == frag[1].p IN
      /\ p.slot \in Slot /\ p.event \in Nat /\ p.event >= 1 /\ made = FEMs * (p.event - 1) + p.slot
      /\ Len(frag) = p.size /\ \A k \in DOMAIN frag : frag[k].p = p
      /\ metadata_.frame = p.frame
      /\ desyncCrash /\ FEMs > 1 => p.slip = 0

StreamIInv ==
  /\ InOrder(Stream) /\ UpToDate /\ Counted /\ Corrected /\ Standing /\ Compared
  /\ InSubrun /\ LastFragment

(* The words have their types whatever happens; what FillFragment stands   *)
(* before is known until a transfer is given up with words in it.          *)
NevisIInv == TypeOKNevis /\ WordsTyped /\ (~broken => StreamIInv)
-----------------------------------------------------------------------------
(* Sequences of words.                                                     *)

LEMMA SuffixWords ==
  ASSUME NEW S, NEW s \in Seq(S), NEW n \in 0 .. Len(s)
  PROVE  /\ SubSeq(s, n + 1, Len(s)) \in Seq(S)
         /\ Len(SubSeq(s, n + 1, Len(s))) = Len(s) - n
         /\ \A k \in 1 .. Len(s) - n : SubSeq(s, n + 1, Len(s))[k] = s[n + k]
<1>1. Len(s) \in Nat /\ \A k \in 1 .. Len(s) : s[k] \in S
  OBVIOUS
<1>2. \A k \in n + 1 .. Len(s) : s[k] \in S
  BY <1>1
<1>3. /\ SubSeq(s, n + 1, Len(s)) \in Seq(S)
      /\ Len(SubSeq(s, n + 1, Len(s))) = IF n + 1 <= Len(s) THEN Len(s) - (n + 1) + 1 ELSE 0
      /\ \A k \in 1 .. Len(s) - (n + 1) + 1 : SubSeq(s, n + 1, Len(s))[k] = s[n + 1 + k - 1]
  BY <1>1, <1>2, SubSeqProperties
<1>4. \A k \in 1 .. Len(s) - n : k \in 1 .. Len(s) - (n + 1) + 1 /\ n + 1 + k - 1 = n + k
  BY <1>1
<1>5. \A k \in 1 .. Len(s) - n : SubSeq(s, n + 1, Len(s))[k] = s[n + k]
  BY <1>3, <1>4
<1>6. QED
  BY <1>1, <1>3, <1>5

LEMMA PrefixWords ==
  ASSUME NEW S, NEW s \in Seq(S), NEW n \in 0 .. Len(s)
  PROVE  /\ SubSeq(s, 1, n) \in Seq(S) /\ Len(SubSeq(s, 1, n)) = n
         /\ \A k \in 1 .. n : SubSeq(s, 1, n)[k] = s[k]
<1>1. Len(s) \in Nat /\ \A k \in 1 .. Len(s) : s[k] \in S
  OBVIOUS
<1>2. \A k \in 1 .. n : s[k] \in S
  BY <1>1
<1>3. /\ SubSeq(s, 1, n) \in Seq(S)
      /\ Len(SubSeq(s, 1, n)) = IF 1 <= n THEN n - 1 + 1 ELSE 0
      /\ \A k \in 1 .. n - 1 + 1 : SubSeq(s, 1, n)[k] = s[1 + k - 1]
  BY <1>1, <1>2, SubSeqProperties
<1>4. \A k \in 1 .. n : k \in 1 .. n - 1 + 1 /\ 1 + k - 1 = k
  BY <1>1
<1>5. QED
  BY <1>1, <1>3, <1>4

(* A prefix and the rest make the whole.                                   *)
LEMMA CutWords ==
  ASSUME NEW S, NEW s \in Seq(S), NEW n \in 0 .. Len(s)
  PROVE  SubSeq(s, 1, n) \o SubSeq(s, n + 1, Len(s)) = s
<1>1. Len(s) \in Nat /\ 1 \in 1 .. Len(s) + 1 /\ n \in 1 - 1 .. Len(s) /\ Len(s) \in n .. Len(s)
  OBVIOUS
<1>2. SubSeq(s, 1, n) \o SubSeq(s, n + 1, Len(s)) = SubSeq(s, 1, Len(s))
  BY <1>1, ConcatAdjacentSubSeq
<1>3. QED
  BY <1>2, SubSeqFull

(* What is taken from the front of a sequence is taken from the front of   *)
(* its continuation.                                                       *)
LEMMA SuffixOfConcat ==
  ASSUME NEW S, NEW s \in Seq(S), NEW t \in Seq(S), NEW n \in 0 .. Len(s)
  PROVE  SubSeq(s \o t, n + 1, Len(s \o t)) = SubSeq(s, n + 1, Len(s)) \o t
<1> DEFINE u == s \o t
           a == SubSeq(u, n + 1, Len(u))
           b == SubSeq(s, n + 1, Len(s))
<1>1. Len(s) \in Nat /\ Len(t) \in Nat
  OBVIOUS
<1>2. /\ u \in Seq(S) /\ Len(u) = Len(s) + Len(t)
      /\ \A k \in 1 .. Len(s) + Len(t) : u[k] = IF k <= Len(s) THEN s[k] ELSE t[k - Len(s)]
  BY ConcatProperties
<1>3. b \in Seq(S) /\ Len(b) = Len(s) - n /\ \A k \in 1 .. Len(s) - n : b[k] = s[n + k]
  BY SuffixWords
<1>4. n \in 0 .. Len(u)
  BY <1>1, <1>2
<1>5. a \in Seq(S) /\ Len(a) = Len(u) - n /\ \A k \in 1 .. Len(u) - n : a[k] = u[n + k]
  BY <1>2, <1>4, SuffixWords
<1> HIDE DEF u, a, b
<1>6. /\ b \o t \in Seq(S) /\ Len(b \o t) = Len(b) + Len(t)
      /\ \A k \in 1 .. Len(b) + Len(t) :
           (b \o t)[k] = IF k <= Len(b) THEN b[k] ELSE t[k - Len(b)]
  BY <1>3, ConcatProperties
<1>7. Len(a) = Len(b \o t)
  BY <1>1, <1>2, <1>3, <1>5, <1>6
<1>8. ASSUME NEW k \in 1 .. Len(a) PROVE a[k] = (b \o t)[k]
  <2>1. k \in Int /\ k >= 1 /\ k <= Len(s) + Len(t) - n /\ n \in Nat /\ n <= Len(s)
    BY <1>1, <1>2, <1>5
  <2>2. a[k] = IF n + k <= Len(s) THEN s[n + k] ELSE t[n + k - Len(s)]
    <3>1. n + k \in 1 .. Len(s) + Len(t) /\ k \in 1 .. Len(u) - n
      BY <1>1, <1>2, <2>1
    <3>2. QED
      BY <1>2, <1>5, <3>1
  <2>3. (b \o t)[k] = IF k <= Len(s) - n THEN s[n + k] ELSE t[k - (Len(s) - n)]
    <3>1. k \in 1 .. Len(b) + Len(t)
      BY <1>1, <1>3, <2>1
    <3>2. k <= Len(s) - n => k \in 1 .. Len(s) - n
      BY <1>1, <2>1
    <3>3. QED
      BY <1>3, <1>6, <3>1, <3>2
  <2>4. (n + k <= Len(s)) = (k <= Len(s) - n) /\ n + k - Len(s) = k - (Len(s) - n)
    BY <1>1, <2>1
  <2>5. QED
    BY <2>2, <2>3, <2>4
<1>9. a = b \o t
  BY <1>5, <1>6, <1>7, <1>8, SeqEqual
<1>10. QED
  BY <1>9 DEF a, b, u

-----------------------------------------------------------------------------
(* Streams of whole packets.                                               *)

LEMMA WordFields ==
  ASSUME NEW w \in Word
  PROVE  /\ w.p \in Fields /\ WellFormed(w.p) /\ w.i \in 1 .. w.p.size
         /\ w.p.size \in Nat /\ w.p.slot \in Int /\ w.p.event \in Nat /\ w.p.frame \in Nat
         /\ w.i \in Int /\ w = [p |-> w.p, i |-> w.i]
BY DEF Word, Fields, WellFormed

LEMMA FirstWord ==
  ASSUME NEW s \in Seq(Word), s # <<>>, InOrder(s)
  PROVE  s[1].i = 1
<1>1. Len(s) \in Nat /\ 1 \in 1 .. Len(s) /\ s[1] \in Word
  OBVIOUS
<1>2. s[1].i \in Int /\ s[1].i >= 1 /\ 1 \in 1 .. s[1].p.size
  BY <1>1, WordFields
<1>3. 1 - s[1].i + 1 \in 1 .. Len(s)
  BY <1>1, <1>2 DEF InOrder, Whole
<1>4. QED
  BY <1>1, <1>2, <1>3

(* What a stream begins with, and that what remains without its first      *)
(* packet is a stream that goes on with the next.                          *)
LEMMA FirstPacket ==
  ASSUME NEW s \in Seq(Word), s # <<>>, InOrder(s)
  PROVE  LET n == s[1].p.size
             t == SubSeq(s, n + 1, Len(s))
         IN /\ n \in 1 .. Len(s) /\ \A k \in 1 .. n : s[k] = [p |-> s[1].p, i |-> k]
            /\ t \in Seq(Word) /\ Len(t) = Len(s) - n /\ InOrder(t)
            /\ \A k \in 1 .. Len(t) : t[k] = s[n + k]
            /\ t # <<>> => t[1].i = 1 /\ Follows(t[1].p, s[1].p)
            /\ t = <<>> => s[Len(s)].p = s[1].p
<1> DEFINE n == s[1].p.size
           t == SubSeq(s, n + 1, Len(s))
<1>1. Len(s) \in Nat /\ Len(s) >= 1 /\ \A k \in 1 .. Len(s) : s[k] \in Word
  OBVIOUS
<1>2. s[1] \in Word /\ n \in Nat /\ n >= 1 /\ s[1].i \in 1 .. n
  BY <1>1, WordFields DEF WellFormed
<1>3. s[1].i = 1
  BY FirstWord
<1>4. ASSUME NEW k \in 1 .. n PROVE k \in 1 .. Len(s) /\ s[k] = [p |-> s[1].p, i |-> k]
  <2>1. 1 \in 1 .. Len(s) /\ 1 - 1 + k = k
    BY <1>1, <1>2
  <2>2. 1 - s[1].i + k \in 1 .. Len(s) /\ s[1 - s[1].i + k] = [p |-> s[1].p, i |-> k]
    BY <2>1 DEF InOrder, Whole
  <2>3. QED
    BY <1>3, <2>1, <2>2
<1> HIDE DEF n
<1>5. n \in 1 .. Len(s)
  <2>1. n \in 1 .. n
    BY <1>2
  <2>2. QED
    BY <1>4, <2>1
<1>6. t \in Seq(Word) /\ Len(t) = Len(s) - n /\ \A k \in 1 .. Len(s) - n : t[k] = s[n + k]
  BY <1>1, <1>5, SuffixWords
<1>7. \A k \in 1 .. Len(t) : n + k \in 1 .. Len(s) /\ t[k] = s[n + k]
  BY <1>1, <1>5, <1>6
<1> HIDE DEF t
<1>8. Whole(t)
  <2> SUFFICES ASSUME NEW j \in 1 .. Len(t), NEW k \in 1 .. t[j].p.size
               PROVE  /\ j - t[j].i + k \in 1 .. Len(t)
                      /\ t[j - t[j].i + k] = [p |-> t[j].p, i |-> k]
    BY DEF Whole
  <2> DEFINE m == n + j
             w == s[m]
             b == m - w.i
  <2>0. m \in 1 .. Len(s) /\ t[j] = w /\ w \in Word /\ m = n + j
    BY <1>1, <1>7
  <2> HIDE DEF m
  <2>1. n + j \in 1 .. Len(s) /\ t[j] = w /\ w \in Word
    BY <2>0
  <2>2. w.i \in 1 .. w.p.size /\ w.p.size \in Nat
    BY <2>1, WordFields
  <2>3. \A h \in 1 .. w.p.size : b + h \in 1 .. Len(s) /\ s[b + h] = [p |-> w.p, i |-> h]
    BY <2>0 DEF InOrder, Whole
  <2>4. j \in Int /\ j >= 1 /\ j <= Len(t) /\ k \in 1 .. w.p.size
    BY <2>1
  <2>5. b \in Int /\ b < n + j
    BY <1>5, <2>0, <2>2, <2>4
  <2> HIDE DEF b
  <2>6. b >= n
    <3>1. SUFFICES ASSUME b < n PROVE FALSE
      BY <1>5, <2>5
    <3>2. b + 1 \in 1 .. Len(s) /\ s[b + 1] = [p |-> w.p, i |-> 1]
      BY <2>2, <2>3
    <3>3. b + 1 \in 1 .. n
      BY <1>5, <2>5, <3>1, <3>2
    <3>4. s[b + 1] = [p |-> s[1].p, i |-> b + 1]
      BY <1>4, <3>3
    <3>5. w.p = s[1].p /\ b = 0
      BY <2>5, <3>2, <3>4
    <3>6. w.i = n + j
      BY <1>5, <2>0, <2>2, <2>4, <3>5 DEF b
    <3>7. w.p.size = n
      BY <3>5 DEF n
    <3>8. QED
      BY <1>5, <2>2, <2>4, <3>6, <3>7
  <2>7. j - t[j].i + k = b - n + k
    BY <1>5, <2>0, <2>2, <2>4 DEF b
  <2>8. b + k \in 1 .. Len(s) /\ s[b + k] = [p |-> w.p, i |-> k]
    BY <2>3, <2>4
  <2>9. b - n + k \in 1 .. Len(t)
    BY <1>1, <1>5, <1>6, <2>4, <2>5, <2>6, <2>8
  <2>10. n + (b - n + k) = b + k
    BY <1>5, <2>4, <2>5
  <2>11. t[b - n + k] = s[b + k]
    BY <1>7, <2>9, <2>10
  <2>12. QED
    BY <2>1, <2>7, <2>8, <2>9, <2>11
<1>9. Consecutive(t)
  <2> SUFFICES ASSUME NEW j \in 1 .. Len(t) - 1, t[j].i = t[j].p.size
               PROVE  t[j + 1].i = 1 /\ Follows(t[j + 1].p, t[j].p)
    BY DEF Consecutive
  <2>1. j \in 1 .. Len(t) /\ j + 1 \in 1 .. Len(t) /\ n + (j + 1) = (n + j) + 1
    BY <1>1, <1>5, <1>6
  <2>2. n + j \in 1 .. Len(s) - 1
    BY <1>1, <1>5, <1>6
  <2>3. t[j] = s[n + j] /\ t[j + 1] = s[(n + j) + 1]
    BY <1>7, <2>1
  <2>4. QED
    BY <2>2, <2>3 DEF InOrder, Consecutive
<1>10. PartsOf(t)
  BY <1>7 DEF InOrder, PartsOf
<1>11. ASSUME t # <<>> PROVE t[1].i = 1 /\ Follows(t[1].p, s[1].p)
  <2>1. Len(t) >= 1
    BY <1>6, <1>11
  <2>2. 1 \in 1 .. Len(t) /\ n \in 1 .. Len(s) - 1 /\ n \in 1 .. n
    BY <1>1, <1>5, <1>6, <2>1
  <2>3. s[n] = [p |-> s[1].p, i |-> n] /\ t[1] = s[n + 1]
    BY <1>4, <1>7, <2>2
  <2>4. s[n].i = s[n].p.size
    BY <2>3 DEF n
  <2>5. s[n + 1].i = 1 /\ Follows(s[n + 1].p, s[n].p)
    BY <2>2, <2>4 DEF InOrder, Consecutive
  <2>6. QED
    BY <2>3, <2>5
<1>12. ASSUME t = <<>> PROVE s[Len(s)].p = s[1].p
  <2>1. Len(s) = n
    BY <1>1, <1>5, <1>6, <1>12
  <2>2. QED
    BY <1>4, <1>5, <2>1
<1>13. QED
  BY <1>4, <1>5, <1>6, <1>7, <1>8, <1>9, <1>10, <1>11, <1>12 DEF n, t, InOrder

LEMMA TwoStreams ==
  ASSUME NEW s \in Seq(Word), NEW e \in Seq(Word), InOrder(s), InOrder(e),
         s # <<>> /\ e # <<>> => Follows(e[1].p, s[Len(s)].p)
  PROVE  InOrder(s \o e)
<1> DEFINE u == s \o e
           m == Len(s)
           n == Len(e)
<1>1. m \in Nat /\ n \in Nat /\ (\A k \in 1 .. m : s[k] \in Word) /\ (\A k \in 1 .. n : e[k] \in Word)
  OBVIOUS
<1>2. /\ u \in Seq(Word) /\ Len(u) = m + n
      /\ \A k \in 1 .. m + n : u[k] = IF k <= m THEN s[k] ELSE e[k - m]
  BY ConcatProperties
<1>3. /\ \A k \in 1 .. m : k \in 1 .. m + n /\ u[k] = s[k]
      /\ \A k \in 1 .. n : m + k \in 1 .. m + n /\ u[m + k] = e[k]
  <2>1. \A k \in 1 .. m : k \in 1 .. m + n /\ k <= m
    BY <1>1
  <2>2. \A k \in 1 .. n : m + k \in 1 .. m + n /\ ~(m + k <= m) /\ m + k - m = k
    BY <1>1
  <2>3. QED
    BY <1>2, <2>1, <2>2
<1>4. \A j \in 1 .. m + n : j \in 1 .. m \/ \E k \in 1 .. n : j = m + k
  <2> SUFFICES ASSUME NEW j \in 1 .. m + n, j \notin 1 .. m PROVE \E k \in 1 .. n : j = m + k
    OBVIOUS
  <2>1. j - m \in 1 .. n /\ j = m + (j - m)
    BY <1>1
  <2>2. QED
    BY <2>1
<1> HIDE DEF u, m, n
<1>5. Whole(u)
  <2> SUFFICES ASSUME NEW j \in 1 .. m + n, NEW k \in 1 .. u[j].p.size
               PROVE  j - u[j].i + k \in 1 .. m + n /\ u[j - u[j].i + k] = [p |-> u[j].p, i |-> k]
    BY <1>2 DEF Whole
  <2>1. CASE j \in 1 .. m
    <3>1. u[j] = s[j] /\ k \in 1 .. s[j].p.size
      BY <1>3, <2>1
    <3>2. j - s[j].i + k \in 1 .. m /\ s[j - s[j].i + k] = [p |-> s[j].p, i |-> k]
      BY <2>1, <3>1 DEF InOrder, Whole, m
    <3>3. QED
      BY <1>3, <3>1, <3>2
  <2>2. CASE \E h \in 1 .. n : j = m + h
    <3>1. PICK h \in 1 .. n : j = m + h
      BY <2>2
    <3>2. u[j] = e[h] /\ k \in 1 .. e[h].p.size /\ e[h] \in Word
      BY <1>1, <1>3, <3>1
    <3>3. h - e[h].i + k \in 1 .. n /\ e[h - e[h].i + k] = [p |-> e[h].p, i |-> k]
      BY <3>2 DEF InOrder, Whole, n
    <3>4. e[h].i \in Int /\ k \in Int
      BY <3>2, WordFields
    <3>5. j - e[h].i + k = m + (h - e[h].i + k)
      <4> DEFINE a == e[h].i
      <4>1. a \in Int /\ k \in Int /\ h \in Int /\ m \in Int /\ j = m + h
        BY <1>1, <3>1, <3>4
      <4> HIDE DEF a
      <4>2. j - a + k = m + (h - a + k)
        BY <4>1
      <4>3. QED
        BY <4>2 DEF a
    <3> DEFINE x == h - e[h].i + k
    <3>6. u[m + x] = e[x] /\ m + x \in 1 .. m + n
      <4>1. x \in 1 .. n
        BY <3>3
      <4> HIDE DEF x
      <4>2. QED
        BY <1>3, <4>1
    <3>7. u[j].p = e[h].p /\ u[j].i = e[h].i
      BY <3>2
    <3>8. QED
      BY <3>3, <3>5, <3>6, <3>7
  <2>3. QED
    BY <1>4, <2>1, <2>2
<1>6. Consecutive(u)
  <2> SUFFICES ASSUME NEW j \in 1 .. (m + n) - 1, u[j].i = u[j].p.size
               PROVE  u[j + 1].i = 1 /\ Follows(u[j + 1].p, u[j].p)
    BY <1>2 DEF Consecutive
  <2>1. CASE j \in 1 .. m - 1
    <3>1. j \in 1 .. m /\ j + 1 \in 1 .. m
      BY <1>1, <2>1
    <3>2. u[j] = s[j] /\ u[j + 1] = s[j + 1]
      BY <1>3, <3>1
    <3>3. QED
      BY <2>1, <3>2 DEF InOrder, Consecutive, m
  <2>2. CASE j = m
    <3>1. m \in 1 .. m /\ 1 \in 1 .. n
      BY <1>1, <2>2
    <3>2. u[j] = s[m] /\ u[j + 1] = e[1] /\ e[1] \in Word
      BY <1>1, <1>3, <2>2, <3>1
    <3>3. s # <<>> /\ e # <<>>
      BY <1>1, <3>1 DEF m, n
    <3>4. e[1].i = 1
      BY <3>3, FirstWord
    <3>5. QED
      BY <3>2, <3>3, <3>4 DEF m
  <2>3. CASE j \in m + 1 .. (m + n) - 1
    <3>1. j - m \in 1 .. n - 1 /\ j - m \in 1 .. n /\ j - m + 1 \in 1 .. n /\ m + (j - m) = j
          /\ m + (j - m + 1) = j + 1
      BY <1>1, <2>3
    <3>2. u[j] = e[j - m] /\ u[j + 1] = e[j - m + 1]
      BY <1>3, <3>1
    <3>3. QED
      BY <3>1, <3>2 DEF InOrder, Consecutive, n
  <2>4. QED
    BY <1>1, <2>1, <2>2, <2>3
<1>7. PartsOf(u)
  <2> SUFFICES ASSUME NEW j \in 1 .. m + n PROVE u[j].p.slot \in Parts /\ u[j].p.event >= 1
    BY <1>2 DEF PartsOf
  <2>1. CASE j \in 1 .. m
    BY <1>3, <2>1 DEF InOrder, PartsOf, m
  <2>2. CASE \E h \in 1 .. n : j = m + h
    BY <1>3, <2>2 DEF InOrder, PartsOf, n
  <2>3. QED
    BY <1>4, <2>1, <2>2
<1>8. QED
  BY <1>5, <1>6, <1>7 DEF InOrder, u

(* The words of one packet.                                                *)
LEMMA OnePacket ==
  ASSUME NEW p, WellFormed(p), p.slot \in Parts, p.event >= 1
  PROVE  LET s == PacketWords(p)
         IN s \in Seq(Word) /\ s # <<>> /\ InOrder(s) /\ s[1].p = p /\ s[Len(s)].p = p
<1> DEFINE s == PacketWords(p)
<1>1. p \in Fields /\ p.size \in Nat /\ p.size >= 1
  BY DEF WellFormed, Fields
<1>2. \A k \in 1 .. p.size : [p |-> p, i |-> k] \in Word
  BY <1>1 DEF Word
<1>3. s = [k \in 1 .. p.size |-> [p |-> p, i |-> k]]
  BY DEF PacketWords
<1>4. s \in Seq(Word) /\ Len(s) = p.size
  BY <1>1, <1>2, <1>3
<1>5. ASSUME NEW k \in 1 .. p.size
      PROVE  s[k] = [p |-> p, i |-> k] /\ s[k].p = p /\ s[k].i = k
  BY <1>3
<1> HIDE DEF s
<1>6. Whole(s)
  <2> SUFFICES ASSUME NEW j \in 1 .. p.size, NEW k \in 1 .. s[j].p.size
               PROVE  j - s[j].i + k \in 1 .. p.size /\ s[j - s[j].i + k] = [p |-> s[j].p, i |-> k]
    BY <1>4 DEF Whole
  <2>1. s[j].i = j /\ s[j].p = p
    BY <1>5
  <2>2. j - s[j].i + k = k
    BY <2>1, <1>1
  <2>3. QED
    BY <1>5, <2>1, <2>2
<1>7. Consecutive(s)
  <2> SUFFICES ASSUME NEW j \in 1 .. p.size - 1, s[j].i = s[j].p.size PROVE FALSE
    BY <1>4 DEF Consecutive
  <2>1. j \in 1 .. p.size
    BY <1>1
  <2>2. s[j].i = j /\ s[j].p = p
    BY <1>5, <2>1
  <2>3. j = p.size
    BY <2>2
  <2>4. QED
    BY <1>1, <2>3
<1>8. PartsOf(s)
  BY <1>4, <1>5 DEF PartsOf
<1>9. s # <<>> /\ s[1].p = p /\ s[Len(s)].p = p
  <2>1. 1 \in 1 .. p.size /\ p.size \in 1 .. p.size
    BY <1>1
  <2>2. s[1].p = p /\ s[p.size].p = p
    BY <1>5, <2>1
  <2>3. QED
    BY <1>1, <1>4, <2>2
<1>10. QED
  BY <1>4, <1>6, <1>7, <1>8, <1>9 DEF InOrder, s

-----------------------------------------------------------------------------
(* The words of an event, put together packet by packet.                   *)

LEMMA LeastNumber ==
  ASSUME NEW T, T \subseteq Nat, T # {}
  PROVE  \E n \in T : \A m \in T : n <= m
<1> DEFINE R == OpToRel(<, Nat)
<1>1. R = {ss \in Nat \X Nat : ss[1] < ss[2]}
  BY DEF OpToRel
<1>2. IsWellFoundedOn(R, Nat)
  BY NatLessThanWellFounded
<1> HIDE DEF R
<1>3. PICK n \in T : \A m \in T : ~(<<m, n>> \in R)
  BY <1>2, WFMin
<1>4. \A m \in T : m \in Nat /\ n \in Nat /\ ~(m < n)
  BY <1>1, <1>3
<1>5. QED
  BY <1>4

(* Such a recursion over the parts of an event has a solution.             *)
LEMMA UptoExists ==
  ASSUME FEMs \in Nat, NEW packet
  PROVE  LET upto[s \in 0 .. FEMs + 1] ==
               IF s = 0 THEN PacketWords(packet[0]) ELSE upto[s - 1] \o PacketWords(packet[s])
         IN upto = [s \in 0 .. FEMs + 1 |->
               IF s = 0 THEN PacketWords(packet[0]) ELSE upto[s - 1] \o PacketWords(packet[s])]
<1> DEFINE Def(g, s) == IF s = 0 THEN PacketWords(packet[0]) ELSE g[s - 1] \o PacketWords(packet[s])
           Solves(g, n) == g = [s \in 0 .. n |-> Def(g, s)]
           Unsolved == {n \in 0 .. FEMs + 1 : \A g : ~Solves(g, n)}
<1>1. Solves([s \in {0} |-> PacketWords(packet[0])], 0)
  <2> DEFINE g == [s \in {0} |-> PacketWords(packet[0])]
  <2>1. 0 .. 0 = {0}
    OBVIOUS
  <2>2. \A s \in 0 .. 0 : Def(g, s) = PacketWords(packet[0])
    BY <2>1
  <2>3. QED
    BY <2>1, <2>2
<1>2. ASSUME NEW n \in Nat, NEW g, Solves(g, n) PROVE \E h : Solves(h, n + 1)
  <2> DEFINE h == [s \in 0 .. n + 1 |-> IF s = n + 1 THEN g[n] \o PacketWords(packet[n + 1]) ELSE g[s]]
  <2>1. ASSUME NEW s \in 0 .. n + 1 PROVE h[s] = Def(h, s)
    <3>1. CASE s = n + 1
      <4>1. n \in 0 .. n + 1 /\ n # n + 1 /\ s - 1 = n /\ s # 0
        BY <3>1
      <4>2. h[n] = g[n] /\ h[s] = g[n] \o PacketWords(packet[s])
        BY <3>1, <4>1
      <4>3. QED
        BY <4>1, <4>2
    <3>2. CASE s = 0
      <4>1. 0 \in 0 .. n /\ 0 # n + 1
        OBVIOUS
      <4>2. h[0] = g[0]
        BY <4>1, <3>2
      <4>3. g[0] = PacketWords(packet[0])
        BY <1>2, <4>1
      <4>4. QED
        BY <3>2, <4>2, <4>3
    <3>3. CASE s # n + 1 /\ s # 0
      <4>1. s \in 0 .. n /\ s - 1 \in 0 .. n + 1 /\ s - 1 # n + 1
        BY <3>3
      <4>2. h[s] = g[s] /\ h[s - 1] = g[s - 1]
        BY <4>1, <3>3
      <4>3. g[s] = g[s - 1] \o PacketWords(packet[s])
        BY <1>2, <3>3, <4>1
      <4>4. QED
        BY <3>3, <4>2, <4>3
    <3>4. QED
      BY <3>1, <3>2, <3>3
  <2>2. h = [s \in 0 .. n + 1 |-> h[s]]
    OBVIOUS
  <2> HIDE DEF h
  <2>3. h = [s \in 0 .. n + 1 |-> Def(h, s)]
    BY <2>1, <2>2
  <2>4. QED
    BY <2>3
<1> HIDE DEF Solves
<1>3. Unsolved = {}
  <2>1. SUFFICES ASSUME Unsolved # {} PROVE FALSE
    OBVIOUS
  <2>2. Unsolved \subseteq Nat
    OBVIOUS
  <2>3. PICK n \in Unsolved : \A m \in Unsolved : n <= m
    BY <2>1, <2>2, LeastNumber
  <2>4. n # 0 /\ n \in Nat /\ n - 1 \in Nat /\ n - 1 \in 0 .. FEMs + 1 /\ n - 1 \notin Unsolved
    BY <1>1, <2>3
  <2>5. PICK g : Solves(g, n - 1)
    BY <2>4
  <2>6. \E h : Solves(h, (n - 1) + 1)
    BY <1>2, <2>4, <2>5
  <2>7. (n - 1) + 1 = n
    BY <2>4
  <2>8. QED
    BY <2>3, <2>6, <2>7
<1>4. FEMs + 1 \in 0 .. FEMs + 1
  OBVIOUS
<1>5. \E g : Solves(g, FEMs + 1)
  BY <1>3, <1>4
<1>6. QED
  BY <1>5 DEF Solves

(* The words of an event are its packets, whole and in order.              *)
LEMMA EventStream ==
  ASSUME FEMs \in Nat, NEW packet, NEW e \in Nat, NEW f, e >= 1,
         \A s \in Parts : /\ WellFormed(packet[s]) /\ packet[s].slot = s
                          /\ packet[s].event = e /\ packet[s].frame = f
  PROVE  LET words == EventWords(packet)
         IN /\ words \in Seq(Word) /\ words # <<>> /\ InOrder(words)
            /\ words[1].p = packet[0] /\ words[Len(words)].p = packet[FEMs + 1]
<1> DEFINE Def(g, s) == IF s = 0 THEN PacketWords(packet[0]) ELSE g[s - 1] \o PacketWords(packet[s])
           upto[s \in 0 .. FEMs + 1] ==
             IF s = 0 THEN PacketWords(packet[0]) ELSE upto[s - 1] \o PacketWords(packet[s])
           Good(s) == /\ upto[s] \in Seq(Word) /\ upto[s] # <<>> /\ InOrder(upto[s])
                      /\ upto[s][1].p = packet[0] /\ upto[s][Len(upto[s])].p = packet[s]
           Bad == {s \in Parts : ~Good(s)}
<1>1. upto = [s \in 0 .. FEMs + 1 |->
               IF s = 0 THEN PacketWords(packet[0]) ELSE upto[s - 1] \o PacketWords(packet[s])]
  BY UptoExists
<1>2. EventWords(packet) = upto[FEMs + 1]
  BY DEF EventWords
<1> HIDE DEF upto
<1>3. \A s \in Parts : /\ s = 0 => upto[s] = PacketWords(packet[0])
                       /\ s # 0 => upto[s] = upto[s - 1] \o PacketWords(packet[s])
  BY <1>1 DEF Parts
<1>4. ASSUME NEW s \in Parts
      PROVE  LET w == PacketWords(packet[s])
             IN /\ w \in Seq(Word) /\ w # <<>> /\ InOrder(w)
                /\ w[1].p = packet[s] /\ w[Len(w)].p = packet[s]
  BY OnePacket
<1>5. 0 \in Parts /\ FEMs + 1 \in Parts /\ Parts \subseteq Nat
  BY DEF Parts
<1>6. Good(0)
  BY <1>3, <1>4, <1>5
<1>7. ASSUME NEW s \in Parts, s # 0, s - 1 \in Parts, Good(s - 1) PROVE Good(s)
  <2> DEFINE a == upto[s - 1]
             w == PacketWords(packet[s])
  <2>1. upto[s] = a \o w
    BY <1>3, <1>7
  <2>2. /\ a \in Seq(Word) /\ a # <<>> /\ InOrder(a)
        /\ a[1].p = packet[0] /\ a[Len(a)].p = packet[s - 1]
    BY <1>7
  <2>3. /\ w \in Seq(Word) /\ w # <<>> /\ InOrder(w)
        /\ w[1].p = packet[s] /\ w[Len(w)].p = packet[s]
    BY <1>4
  <2> HIDE DEF a, w
  <2>4. Follows(packet[s], packet[s - 1])
    <3>1. s \in Nat /\ s <= FEMs + 1 /\ s - 1 # FEMs + 1
      BY <1>5 DEF Parts
    <3>2. /\ packet[s].slot = s /\ packet[s - 1].slot = s - 1
          /\ packet[s].event = packet[s - 1].event /\ packet[s].frame = packet[s - 1].frame
      BY <1>7
    <3>3. QED
      BY <3>1, <3>2 DEF Follows, XMITTrailer
  <2>5. InOrder(a \o w)
    BY <2>2, <2>3, <2>4, TwoStreams
  <2>6. /\ a \o w \in Seq(Word) /\ Len(a \o w) = Len(a) + Len(w)
        /\ \A k \in 1 .. Len(a) + Len(w) : (a \o w)[k] = IF k <= Len(a) THEN a[k] ELSE w[k - Len(a)]
    BY <2>2, <2>3, ConcatProperties
  <2>7. Len(a) \in Nat /\ Len(a) >= 1 /\ Len(w) \in Nat /\ Len(w) >= 1
    BY <2>2, <2>3
  <2>8. 1 \in 1 .. Len(a) + Len(w) /\ Len(a) + Len(w) \in 1 .. Len(a) + Len(w)
        /\ ~(Len(a) + Len(w) <= Len(a)) /\ Len(a) + Len(w) - Len(a) = Len(w)
    BY <2>7
  <2>9. (a \o w)[1] = a[1] /\ (a \o w)[Len(a) + Len(w)] = w[Len(w)]
    BY <2>6, <2>7, <2>8
  <2>10. a \o w # <<>>
    BY <2>6, <2>7
  <2>11. QED
    BY <2>1, <2>2, <2>3, <2>5, <2>6, <2>9, <2>10
<1> HIDE DEF Good
<1>8. Bad = {}
  <2>1. SUFFICES ASSUME Bad # {} PROVE FALSE
    OBVIOUS
  <2>2. PICK s \in Bad : \A t \in Bad : s <= t
    BY <1>5, <2>1, LeastNumber
  <2>3. s \in Parts /\ s # 0 /\ s - 1 \in Parts /\ ~(s <= s - 1)
    BY <1>6, <2>2 DEF Parts
  <2>4. Good(s - 1)
    BY <2>2, <2>3
  <2>5. QED
    BY <1>7, <2>2, <2>3, <2>4
<1>9. Good(FEMs + 1)
  BY <1>5, <1>8
<1>10. QED
  BY <1>2, <1>9 DEF Good

-----------------------------------------------------------------------------
(* What the code reads.                                                    *)

LEMMA Values ==
  ASSUME NEW w \in Word
  PROVE  /\ Value(w) = FFFF <=> w.p.slot = XMITHeader \/ (w.p.slot \in Slot /\ w.i = 1)
         /\ Value(w) = Header <=> w.p.slot \in Slot /\ w.i = 2
         /\ Value(w) = Zero => w.p.slot = XMITTrailer \/ w.p.slot \in Slot
         /\ Value(w) = E000 <=> w.p.slot = XMITTrailer /\ w.i = 2
         /\ w.p.slot = XMITTrailer /\ w.i = 1 => Value(w) = Zero
<1>1. FEMs \in Nat /\ FEMs >= 1
  BY NevisAssumption
<1>2. w.i \in Int /\ w.p.slot \in Int
  BY WordFields
<1> DEFINE s == w.p.slot
           at == w.i
           n == w.p.size
<1>3. Value(w) = CASE s = 0 -> FFFF
                   [] s \in 1 .. FEMs /\ at = 1 -> FFFF
                   [] s \in 1 .. FEMs /\ at = 2 -> Header
                   [] s \in 1 .. FEMs /\ at > 2 /\ at = n -> Zero
                   [] s = FEMs + 1 /\ at = 1 -> Zero
                   [] s = FEMs + 1 /\ at = 2 -> E000
                   [] OTHER -> ADC
  BY DEF Value, XMITHeader, XMITTrailer, Slot
<1>4. s \in Int /\ at \in Int
  BY <1>2
<1> HIDE DEF s, at, n
<1>5. CASE s = 0
  <2>1. Value(w) = FFFF /\ s \notin 1 .. FEMs /\ s # FEMs + 1
    BY <1>1, <1>3, <1>5
  <2>2. QED
    BY <2>1, <1>5 DEF FFFF, Header, Zero, E000, s, XMITHeader, XMITTrailer, Slot
<1>6. CASE s \in 1 .. FEMs
  <2>1. s # 0 /\ s # FEMs + 1
    BY <1>1, <1>6
  <2>2. CASE at = 1
    <3>1. Value(w) = FFFF
      BY <1>3, <1>6, <2>1, <2>2
    <3>2. QED
      BY <3>1, <1>6, <2>1, <2>2 DEF FFFF, Header, Zero, E000, s, at, XMITHeader, XMITTrailer, Slot
  <2>3. CASE at = 2
    <3>1. Value(w) = Header
      BY <1>3, <1>6, <2>1, <2>3
    <3>2. QED
      BY <3>1, <1>6, <2>1, <2>3 DEF FFFF, Header, Zero, E000, s, at, XMITHeader, XMITTrailer, Slot
  <2>4. CASE at # 1 /\ at # 2
    <3>1. Value(w) \in {Zero, ADC}
      BY <1>3, <1>6, <2>1, <2>4
    <3>2. QED
      BY <3>1, <1>6, <2>1, <2>4 DEF FFFF, Header, Zero, E000, ADC, s, at, XMITHeader, XMITTrailer, Slot
  <2>5. QED
    BY <2>2, <2>3, <2>4
<1>7. CASE s = FEMs + 1
  <2>1. s # 0 /\ s \notin 1 .. FEMs
    BY <1>1, <1>7
  <2>2. /\ at = 1 => Value(w) = Zero
        /\ at = 2 => Value(w) = E000
        /\ at # 1 /\ at # 2 => Value(w) = ADC
    BY <1>3, <1>7, <2>1
  <2>3. QED
    BY <1>4, <1>7, <2>1, <2>2 DEF FFFF, Header, Zero, E000, ADC, s, at, XMITHeader, XMITTrailer, Slot
<1>8. CASE s # 0 /\ s \notin 1 .. FEMs /\ s # FEMs + 1
  <2>1. Value(w) = ADC
    BY <1>3, <1>8
  <2>2. QED
    BY <1>8, <2>1 DEF FFFF, Header, Zero, E000, ADC, s, at, XMITHeader, XMITTrailer, Slot
<1>9. QED
  BY <1>5, <1>6, <1>7, <1>8

LEMMA Constants ==
  /\ FEMs \in Nat /\ FEMs >= 1 /\ MaxEvents \in Nat /\ wiggle_room \in Nat /\ wiggle_room >= 1
  /\ ChunkWords \in Nat /\ ChunkWords >= 1 /\ EventsPerSubrun \in Nat /\ EventsPerSubrun >= 1
  /\ Capacity \in Nat /\ FrameMod \in Nat /\ FrameMod > 2
  /\ \A c \in Counts : c \in Nat /\ c >= wiggle_room
BY NevisAssumption

(* Whatever the bits of a header are, its fields are in their ranges.      *)
LEMMA HeadersTyped ==
  ASSUME WordsTyped, filling = "fem", NEW h \in Headers
  PROVE  /\ h.event \in 0 .. MaxEvents /\ h.slip \in {0, 1} /\ h.frame \in Nat
         /\ h.count \in Counts
         /\ EventNum(h) \in 0 .. MaxEvents + 1 /\ FrameNum(h) \in 0 .. FrameMod - 1
<1>1. buffer[2] \in Word
  BY DEF WordsTyped, HeaderWords
<1>2. /\ h.event \in 0 .. MaxEvents /\ h.slip \in {0, 1} /\ h.frame \in Nat
      /\ h.count \in Counts
  <2>1. CASE Value(buffer[2]) = Header
    <3>1. h = buffer[2].p
      BY <2>1 DEF Headers
    <3>2. buffer[2].p.slot \in Slot
      BY <1>1, <2>1, Values
    <3>3. QED
      BY <1>1, <3>1, <3>2, WordFields DEF WellFormed, Fields
  <2>2. CASE Value(buffer[2]) # Header
    <3>1. PICK t \in Slot \cup {0}, c \in Counts : h = NoModule(0, 0, t, c)
      BY <2>2 DEF Headers
    <3>2. QED
      BY <3>1, Constants DEF NoModule
  <2>3. QED
    BY <2>1, <2>2
<1>3. QED
  BY <1>2, Constants DEF EventNum, FrameNum

(* The search stays within the words that are there, and finds the first   *)
(* end of a packet if there is one.                                        *)
LEMMA SizeFound ==
  ASSUME NEW h, h.count \in Counts
  PROVE  LET nominal == HeaderWords + h.count
         IN /\ expected_size(h) \in 0 .. nominal + wiggle_room
            /\ \A n \in nominal - wiggle_room .. nominal + wiggle_room - 1 :
                 /\ EndsBefore(n + 1)
                 /\ \A at \in nominal + 1 - wiggle_room .. n : ~EndsBefore(at)
                 => expected_size(h) = n
<1> DEFINE nominal == HeaderWords + h.count
           found == {at \in nominal + 1 - wiggle_room .. nominal + wiggle_room : EndsBefore(at)}
           first == CHOOSE at \in found : \A j \in found : at <= j
<1>1. nominal \in Nat /\ nominal + 1 - wiggle_room >= 3 /\ wiggle_room \in Nat /\ wiggle_room >= 1
  BY Constants DEF HeaderWords
<1>2. expected_size(h) = IF found = {} THEN nominal + 1 ELSE first - 1
  BY DEF expected_size
<1>3. found \subseteq Nat /\ \A at \in found : at >= 3 /\ at <= nominal + wiggle_room
  BY <1>1
<1>4. ASSUME found # {} PROVE first \in found /\ \A j \in found : first <= j
  <2>1. \E at \in found : \A j \in found : at <= j
    BY <1>3, <1>4, LeastNumber
  <2>2. QED
    BY <2>1
<1>5. expected_size(h) \in 0 .. nominal + wiggle_room
  <2>1. CASE found = {}
    BY <1>1, <1>2, <2>1
  <2>2. CASE found # {}
    <3>1. first \in Nat /\ first >= 3 /\ first <= nominal + wiggle_room
      BY <1>3, <1>4, <2>2
    <3>2. QED
      BY <1>1, <1>2, <2>2, <3>1
  <2>3. QED
    BY <2>1, <2>2
<1>6. ASSUME NEW n \in nominal - wiggle_room .. nominal + wiggle_room - 1, EndsBefore(n + 1),
             \A at \in nominal + 1 - wiggle_room .. n : ~EndsBefore(at)
      PROVE  expected_size(h) = n
  <2>1. n + 1 \in found
    BY <1>1, <1>6
  <2>2. first \in found /\ first <= n + 1 /\ first \in Nat
    BY <1>3, <1>4, <2>1
  <2>3. first \notin nominal + 1 - wiggle_room .. n
    BY <1>6, <2>2
  <2>4. first = n + 1
    BY <1>1, <2>2, <2>3
  <2>5. found # {}
    BY <2>1
  <2> HIDE DEF found, first
  <2>6. expected_size(h) = first - 1
    BY <1>2, <2>5
  <2>7. QED
    BY <1>1, <2>4, <2>6
<1>7. QED
  BY <1>5, <1>6

-----------------------------------------------------------------------------
(* Types: what holds whether words were lost or not.                       *)
Typed == TypeOKNevis /\ WordsTyped

(* The packets of an event.                                                *)
LEMMA EventSent ==
  ASSUME Typed, SendEvent
  PROVE  \E words \in Seq(Word) :
           /\ link' = link \o words /\ words # <<>> /\ InOrder(words)
           /\ words[1].p.slot = XMITHeader /\ words[1].p.event = event' /\ words[1].p.frame = frame'
           /\ LET p == words[Len(words)].p
              IN p.slot = XMITTrailer /\ p.event = event' /\ p.frame = frame'
<1>1. /\ event \in Nat /\ event < MaxEvents /\ event' = event + 1 /\ frame \in Nat
      /\ frame' \in frame + 1 .. frame + 2
  BY Constants DEF Typed, TypeOKNevis, SendEvent
<1>2. PICK slip \in {0, 1}, count \in Counts, off \in [Slot -> - wiggle_room .. wiggle_room - 1] :
        link' = link \o EventWords([s \in 0 .. FEMs + 1 |->
                                     Packet(event', frame', s, count, off, slip)])
  BY DEF SendEvent
<1> DEFINE packet == [s \in 0 .. FEMs + 1 |-> Packet(event', frame', s, count, off, slip)]
<1>3. ASSUME NEW s \in Parts
      PROVE  /\ WellFormed(packet[s]) /\ packet[s].slot = s
             /\ packet[s].event = event' /\ packet[s].frame = frame'
  <2>1. packet[s] = Packet(event', frame', s, count, off, slip) /\ s \in Nat /\ s <= FEMs + 1
    BY Constants DEF Parts
  <2>2. CASE s \in Slot
    <3>1. off[s] \in - wiggle_room .. wiggle_room - 1
      BY <2>2
    <3>2. packet[s] = [event |-> event', slot |-> s, count |-> count,
                       size |-> HeaderWords + count + off[s], frame |-> frame',
                       slip |-> IF s = FEMs THEN slip ELSE 0]
      BY <2>1, <2>2 DEF Packet
    <3>3. /\ packet[s].slot = s /\ packet[s].event = event' /\ packet[s].frame = frame'
          /\ packet[s].count = count /\ packet[s].size = 2 + count + off[s]
          /\ packet[s].slip = IF s = FEMs THEN slip ELSE 0
      BY <3>2 DEF HeaderWords
    <3>4. 2 + count + off[s] \in Nat /\ 2 + count + off[s] >= 1
          /\ 2 + count + off[s] - 2 - count = off[s] /\ count \in Nat
      BY <3>1, Constants
    <3>5. packet[s] \in Fields
      BY <1>1, <2>1, <3>2, <3>4, Constants DEF Fields, HeaderWords
    <3>6. s # 0 /\ s # FEMs + 1
      BY <2>2, Constants DEF Slot
    <3> DEFINE p == packet[s]
    <3>7. /\ p \in Fields /\ p.slot = s /\ p.count = count /\ p.size = 2 + count + off[s]
          /\ p.slip = IF s = FEMs THEN slip ELSE 0
      BY <3>3, <3>5
    <3> HIDE DEF p
    <3>8. WellFormed(p)
      BY <3>1, <3>4, <3>6, <3>7 DEF WellFormed, HeaderWords, XMITHeader, XMITTrailer
    <3>9. QED
      BY <3>3, <3>8 DEF p
  <2>3. CASE s \notin Slot
    <3>1. packet[s] = [event |-> event', slot |-> s, count |-> 0, size |-> 2,
                       frame |-> frame', slip |-> 0]
      BY <2>1, <2>3 DEF Packet, NoModule
    <3>2. packet[s] \in Fields
      BY <1>1, <2>1, <3>1, Constants DEF Fields
    <3>3. QED
      BY <2>3, <3>1, <3>2 DEF WellFormed
  <2>4. QED
    BY <2>2, <2>3
<1> HIDE DEF packet
<1> DEFINE words == EventWords(packet)
<1>4. /\ words \in Seq(Word) /\ words # <<>> /\ InOrder(words)
      /\ words[1].p = packet[0] /\ words[Len(words)].p = packet[FEMs + 1]
  <2> DEFINE e == event'
             f == frame'
  <2>1. e \in Nat /\ e >= 1 /\ FEMs \in Nat
    BY <1>1, Constants
  <2>2. \A s \in Parts : /\ WellFormed(packet[s]) /\ packet[s].slot = s
                         /\ packet[s].event = e /\ packet[s].frame = f
    BY <1>3
  <2> HIDE DEF e, f
  <2>3. QED
    BY <2>1, <2>2, EventStream, ZenonT(60)
<1>5. 0 \in Parts /\ FEMs + 1 \in Parts
  BY Constants DEF Parts
<1>6. link' = link \o words
  BY <1>2 DEF packet
<1> HIDE DEF words
<1>7. /\ words[1].p.slot = XMITHeader /\ words[1].p.event = event' /\ words[1].p.frame = frame'
      /\ words[Len(words)].p.slot = XMITTrailer /\ words[Len(words)].p.event = event'
      /\ words[Len(words)].p.frame = frame'
  BY <1>3, <1>4, <1>5 DEF XMITHeader, XMITTrailer
<1>8. QED
  BY <1>4, <1>6, <1>7

LEMMA SendTyped == Typed /\ SendEvent => Typed'
<1> SUFFICES ASSUME Typed, SendEvent PROVE Typed'
  OBVIOUS
<1>1. PICK words \in Seq(Word) : link' = link \o words
  BY EventSent
<1>2. link' \in Seq(Word)
  BY <1>1 DEF Typed, WordsTyped
<1>3. event' \in 0 .. MaxEvents /\ frame' \in event' .. 2 * event'
  <2>1. /\ event \in 0 .. MaxEvents /\ frame \in event .. 2 * event
        /\ event < MaxEvents /\ event' = event + 1 /\ frame' \in frame + 1 .. frame + 2
    BY DEF Typed, TypeOKNevis, SendEvent
  <2> DEFINE e == event'
             f == frame'
  <2>2. event \in Int /\ frame \in Int /\ MaxEvents \in Nat
    BY <2>1, Constants
  <2>3. e = event + 1 /\ f \in frame + 1 .. frame + 2
    BY <2>1
  <2> HIDE DEF e, f
  <2>4. e \in 0 .. MaxEvents /\ f \in e .. 2 * e
    BY <2>1, <2>2, <2>3
  <2>5. QED
    BY <2>4 DEF e, f
<1>4. QED
  BY <1>2, <1>3 DEF Typed, TypeOKNevis, WordsTyped, SendEvent, transfer, checks, made_of

LEMMA GetDataTyped == Typed /\ GetData => Typed'
<1> SUFFICES ASSUME Typed, GetData PROVE Typed'
  OBVIOUS
<1> USE DEF crate, transfer, checks, made_of
<1>1. CASE Check
  BY <1>1 DEF Typed, TypeOKNevis, WordsTyped, Check
<1>2. CASE ReadChunk
  <2>1. ChunkWords \in 0 .. Len(link)
    BY <1>2, Constants DEF ReadChunk, Typed, WordsTyped
  <2>2. /\ DMABuffer_' \in Seq(Word) /\ Len(DMABuffer_') = ChunkWords
        /\ link' \in Seq(Word)
    BY <1>2, <2>1, PrefixWords, SuffixWords DEF ReadChunk, Typed, WordsTyped
  <2>3. QED
    BY <1>2, <2>2 DEF Typed, TypeOKNevis, WordsTyped, ReadChunk
<1>3. CASE TimeOut
  <2>1. link' \in Seq(Word) /\ broken' \in BOOLEAN
    BY <1>3 DEF TimeOut, Typed, TypeOKNevis
  <2>2. reader = "read" /\ reader' \in {"read", "thrown"}
    BY <1>3 DEF TimeOut
  <2>3. QED
    BY <1>3, <2>1, <2>2 DEF Typed, TypeOKNevis, WordsTyped, TimeOut
<1>4. CASE Insert
  <2>1. /\ buffer' \in Seq(Word) /\ Len(buffer') = Len(buffer) + Len(DMABuffer_)
    BY <1>4 DEF Insert, Typed, WordsTyped
  <2>2. Len(buffer') <= Capacity /\ Len(buffer') >= Len(buffer)
    BY <1>4, <2>1, Constants DEF Insert, Typed, WordsTyped
  <2>3. Len(<<>>) = 0 /\ <<>> \in Seq(Word)
    OBVIOUS
  <2>4. filling' = "fem" => Len(buffer') >= HeaderWords
    BY <1>4, <2>2, <2>1 DEF Insert, Typed, WordsTyped, HeaderWords
  <2>5. QED
    BY <1>4, <2>1, <2>2, <2>3, <2>4 DEF Typed, TypeOKNevis, WordsTyped, Insert
<1>5. QED
  BY <1>1, <1>2, <1>3, <1>4 DEF GetData

LEMMA StopTyped == Typed /\ (StopBegin \/ Stop) => Typed'
<1> SUFFICES ASSUME Typed, StopBegin \/ Stop PROVE Typed'
  OBVIOUS
<1> USE DEF crate, transfer, checks, made_of
<1>1. CASE StopBegin \/ StopThread \/ StopJoin
  BY <1>1 DEF Typed, TypeOKNevis, WordsTyped, StopBegin, StopThread, StopJoin
<1>2. CASE dmaStop /\ ~(reader = "read" /\ Len(link) < ChunkWords)
  BY <1>2 DEF Typed, TypeOKNevis, WordsTyped, dmaStop
<1>3. CASE dmaStop /\ reader = "read" /\ Len(link) < ChunkWords
  <2> DEFINE fill == [at \in 1 .. ChunkWords - Len(link) |-> Filler]
  <2>1. Filler \in Word
    BY Constants DEF Filler, NoModule, Word, Fields, WellFormed, Slot, XMITHeader, XMITTrailer
  <2>2. ChunkWords - Len(link) \in Nat /\ Len(link) \in Nat
    BY <1>3, Constants DEF Typed, WordsTyped
  <2>3. fill \in Seq(Word) /\ Len(fill) = ChunkWords - Len(link)
    BY <2>1, <2>2
  <2>4. DMABuffer_' = link \o fill /\ link' = <<>> /\ reader' = "insert" /\ broken' = TRUE
    BY <1>3 DEF dmaStop
  <2> HIDE DEF fill
  <2>5. DMABuffer_' \in Seq(Word) /\ Len(DMABuffer_') = ChunkWords /\ link' \in Seq(Word)
    BY <2>2, <2>3, <2>4, Constants DEF Typed, WordsTyped
  <2>6. QED
    BY <1>3, <2>4, <2>5 DEF Typed, TypeOKNevis, WordsTyped, dmaStop
<1>4. QED
  BY <1>1, <1>2, <1>3 DEF Stop

LEMMA EraseTyped == Typed /\ (EraseXMITHeader \/ EraseXMITTrailer) => Typed'
<1> SUFFICES ASSUME Typed, EraseXMITHeader \/ EraseXMITTrailer PROVE Typed'
  OBVIOUS
<1> USE DEF crate, transfer, checks, made_of
<1> DEFINE rest == SubSeq(buffer, 3, Len(buffer))
<1>1. Len(buffer) \in Nat /\ buffer \in Seq(Word)
  BY DEF Typed, WordsTyped
<1>2. ASSUME Len(buffer) >= 2 PROVE rest \in Seq(Word) /\ Len(rest) <= Len(buffer)
  <2>1. 2 \in 0 .. Len(buffer) /\ 2 + 1 = 3
    BY <1>1, <1>2
  <2>2. rest \in Seq(Word) /\ Len(rest) = Len(buffer) - 2
    BY <1>1, <2>1, SuffixWords
  <2>3. QED
    BY <1>1, <2>2
<1> HIDE DEF rest
<1>3. CASE EraseXMITHeader
  <2>1. CASE Begins(FFFF, FFFF)
    <3>1. buffer' = rest /\ Len(buffer) >= 2 /\ current_event' = -1 /\ current_framenum' = -1
      BY <1>3, <2>1 DEF EraseXMITHeader, rest
    <3>2. buffer' \in Seq(Word) /\ Len(buffer') <= Capacity
      BY <1>1, <1>2, <3>1, Constants DEF Typed, TypeOKNevis
    <3>3. -1 \in -1 .. MaxEvents + 1 /\ -1 \in -1 .. FrameMod - 1
      BY Constants
    <3>4. QED
      BY <1>3, <3>1, <3>2, <3>3 DEF Typed, TypeOKNevis, WordsTyped, EraseXMITHeader
  <2>2. CASE ~Begins(FFFF, FFFF)
    BY <1>3, <2>2 DEF Typed, TypeOKNevis, WordsTyped, EraseXMITHeader
  <2>3. QED
    BY <2>1, <2>2
<1>4. CASE EraseXMITTrailer
  <2>1. CASE Begins(Zero, E000)
    <3>1. buffer' = rest /\ Len(buffer) >= 2 /\ filling' = "begin"
      BY <1>4, <2>1 DEF EraseXMITTrailer, rest, Begins
    <3>2. buffer' \in Seq(Word) /\ Len(buffer') <= Capacity
      BY <1>1, <1>2, <3>1, Constants DEF Typed, TypeOKNevis
    <3>3. QED
      BY <1>4, <3>1, <3>2 DEF Typed, TypeOKNevis, WordsTyped, EraseXMITTrailer
  <2>2. CASE ~Begins(Zero, E000)
    <3>1. buffer' = buffer /\ filling' = IF Len(buffer) < HeaderWords THEN "begin" ELSE "fem"
      BY <1>4, <2>2 DEF EraseXMITTrailer
    <3>2. filling' = "fem" => Len(buffer') >= HeaderWords
      BY <1>1, <3>1 DEF HeaderWords
    <3>3. QED
      BY <1>4, <3>1, <3>2 DEF Typed, TypeOKNevis, WordsTyped, EraseXMITTrailer
  <2>3. QED
    BY <2>1, <2>2
<1>5. QED
  BY <1>3, <1>4

LEMMA InSyncTyped ==
  ASSUME Typed, NEW h \in Headers, InSync(h)
  PROVE  current_event' \in -1 .. MaxEvents + 1 /\ current_framenum' \in -1 .. FrameMod - 1
<1>1. EventNum(h) \in 0 .. MaxEvents + 1 /\ FrameNum(h) \in 0 .. FrameMod - 1
  BY HeadersTyped DEF InSync, Typed
<1>2. EventNum(h) \in -1 .. MaxEvents + 1 /\ FrameNum(h) \in -1 .. FrameMod - 1
  BY <1>1, Constants
<1>3. CASE desyncCrash
  BY <1>2, <1>3 DEF InSync
<1>4. CASE ~desyncCrash
  BY <1>4 DEF InSync, checks, Typed, TypeOKNevis
<1>5. QED
  BY <1>3, <1>4

(* FillFragment leaves the counters in their ranges, also when it takes    *)
(* any bits for a header.                                                  *)
LEMMA FillTyped ==
  ASSUME Typed, NEW h \in Headers, FillFragment(h)
  PROVE  Typed'
<1> USE DEF crate, transfer, checks, made_of
<1>1. filling = "fem" /\ filling' = "begin" /\ h.slot \in Slot
  BY DEF FillFragment, InSync
<1>2. /\ h.count \in Counts
      /\ EventNum(h) \in 0 .. MaxEvents + 1 /\ FrameNum(h) \in 0 .. FrameMod - 1
  BY <1>1, HeadersTyped DEF Typed
<1> DEFINE n == expected_size(h)
           rolls == rollCounters[h.slot] + (IF RolledOver(h) THEN 1 ELSE 0)
           event0 == IF subrun.event0 = -1 THEN metadata_.event ELSE subrun.event0
<1>3. n \in 0 .. Len(buffer) /\ Len(buffer) \in Nat
  <2>1. n \in 0 .. HeaderWords + h.count + wiggle_room
    BY <1>2, SizeFound
  <2>2. Len(buffer) >= HeaderWords + h.count + wiggle_room + 1
    BY DEF FillFragment, Needed
  <2>3. Len(buffer) \in Nat /\ h.count \in Nat
    BY <1>2, Constants DEF Typed, WordsTyped
  <2>4. QED
    BY <2>1, <2>2, <2>3, Constants DEF HeaderWords
<1> HIDE DEF n
<1>4. /\ frag' \in Seq(Word) /\ buffer' \in Seq(Word) /\ Len(buffer') <= Capacity
  <2>1. frag' = SubSeq(buffer, 1, n) /\ buffer' = SubSeq(buffer, n + 1, Len(buffer))
    BY DEF FillFragment, n
  <2>2. buffer \in Seq(Word) /\ Len(buffer) <= Capacity
    BY DEF Typed, TypeOKNevis, WordsTyped
  <2>3. frag' \in Seq(Word) /\ buffer' \in Seq(Word) /\ Len(buffer') = Len(buffer) - n
    BY <1>3, <2>1, <2>2, PrefixWords, SuffixWords
  <2>4. QED
    BY <1>3, <2>2, <2>3, Constants
<1>5. rolls \in Nat
  BY <1>1 DEF Typed, TypeOKNevis
<1>6. rollCounters' \in [Slot -> Nat] /\ prevFrames' \in [Slot -> 0 .. FrameMod - 1]
  <2>1. rollCounters' = [rollCounters EXCEPT ![h.slot] = rolls]
        /\ prevFrames' = [prevFrames EXCEPT ![h.slot] = FrameNum(h)]
    BY DEF FillFragment
  <2> HIDE DEF rolls
  <2>2. QED
    BY <1>1, <1>2, <1>5, <2>1 DEF Typed, TypeOKNevis
<1>7. metadata_' \in [event : 0 .. MaxEvents + 1, frame : Nat]
  <2>1. metadata_' = [event |-> EventNum(h), frame |-> FrameNum(h) + rolls * FrameMod]
    BY DEF FillFragment
  <2> HIDE DEF rolls
  <2>2. rolls * FrameMod \in Nat
    BY <1>5, Constants
  <2>3. QED
    BY <1>2, <2>1, <2>2, Constants
<1>8. subrun' \in [event0 : -1 .. MaxEvents + 1, number : Nat]
  <2>1. subrun' = IF EndsSubrun(metadata_.event, event0)
                  THEN [event0 |-> metadata_.event, number |-> subrun.number + 1]
                  ELSE [subrun EXCEPT !.event0 = event0]
    BY DEF FillFragment
  <2>2. metadata_.event \in 0 .. MaxEvents + 1 /\ subrun \in [event0 : -1 .. MaxEvents + 1, number : Nat]
    BY DEF Typed, TypeOKNevis
  <2>3. event0 \in -1 .. MaxEvents + 1 /\ metadata_.event \in -1 .. MaxEvents + 1
    BY <2>2, Constants
  <2> HIDE DEF event0
  <2>4. QED
    BY <2>1, <2>2, <2>3
<1>9. current_event' \in -1 .. MaxEvents + 1 /\ current_framenum' \in -1 .. FrameMod - 1
  BY InSyncTyped DEF FillFragment
<1>10. made' \in Nat
  <2>1. made \in Nat
    BY DEF Typed, TypeOKNevis
  <2>2. made' = made + 1
    BY DEF FillFragment
  <2>3. QED
    BY <2>1, <2>2
<1>11. QED
  BY <1>1, <1>4, <1>6, <1>7, <1>8, <1>9, <1>10 DEF FillFragment, Typed, TypeOKNevis, WordsTyped

LEMMA GetNextTyped == Typed /\ GetNext => Typed'
<1> SUFFICES ASSUME Typed, GetNext PROVE Typed'
  OBVIOUS
<1> USE DEF crate, transfer, checks, made_of
<1>1. CASE EraseXMITHeader \/ EraseXMITTrailer
  BY <1>1, EraseTyped
<1>2. CASE OutOfSync
  BY <1>2 DEF OutOfSync, Typed, TypeOKNevis, WordsTyped
<1>3. CASE \E h \in Headers : NotEnough(h)
  <2>1. PICK h \in Headers : NotEnough(h)
    BY <1>3
  <2>2. current_event' \in -1 .. MaxEvents + 1 /\ current_framenum' \in -1 .. FrameMod - 1
    BY <2>1, InSyncTyped DEF NotEnough
  <2>3. QED
    BY <2>1, <2>2 DEF NotEnough, Typed, TypeOKNevis, WordsTyped
<1>4. CASE \E h \in Headers : FillFragment(h)
  BY <1>4, FillTyped
<1>5. QED
  BY <1>1, <1>2, <1>3, <1>4 DEF GetNext

-----------------------------------------------------------------------------
(* Division with remainder.                                                *)

LEMMA Remainder ==
  ASSUME NEW d \in Nat, d >= 1, NEW n \in Int
  PROVE  n \div d \in Int /\ n % d \in 0 .. d - 1 /\ n = d * (n \div d) + (n % d)
OBVIOUS

LEMMA MultipleBetween ==
  ASSUME NEW d \in Nat, d >= 1, NEW k \in Int, d * k > -d, d * k < d
  PROVE  k = 0
<1>1. k >= 1 => d * k >= d
  OBVIOUS
<1>2. k <= -1 => d * k <= -d
  OBVIOUS
<1> DEFINE m == d * k
<1>3. m \in Int /\ m > -d /\ m < d
  OBVIOUS
<1> HIDE DEF m
<1>4. k >= 1 => m >= d
  BY <1>1 DEF m
<1>5. k <= -1 => m <= -d
  BY <1>2 DEF m
<1>6. QED
  BY <1>3, <1>4, <1>5

LEMMA Quotient ==
  ASSUME NEW d \in Nat, d >= 1, NEW q \in Int, NEW r \in 0 .. d - 1, NEW n \in Int, n = d * q + r
  PROVE  n \div d = q /\ n % d = r
<1> DEFINE a == n \div d
           b == n % d
           k == a - q
           x == d * a
           y == d * q
<1>1. a \in Int /\ b \in 0 .. d - 1 /\ n = x + b
  BY Remainder
<1> HIDE DEF a, b
<1>2. x \in Int /\ y \in Int /\ d * k = x - y
  BY <1>1
<1> HIDE DEF x, y, k
<1>3. n = y + r
  BY DEF y
<1>4. d * k > -d /\ d * k < d
  BY <1>1, <1>2, <1>3
<1>5. k = 0
  <2>1. k \in Int
    BY <1>1 DEF k
  <2>2. QED
    BY <1>4, <2>1, MultipleBetween
<1>6. a = q
  BY <1>1, <1>5 DEF k
<1>7. b = r
  BY <1>1, <1>3, <1>6 DEF x, y
<1>8. QED
  BY <1>6, <1>7 DEF a, b

(* A frame number that is one or two later is smaller exactly if the       *)
(* counter went round.                                                     *)
LEMMA Rollover ==
  ASSUME NEW rolls \in Nat, NEW prev \in 0 .. FrameMod - 1, NEW f \in Nat,
         rolls * FrameMod + prev \in f - 2 .. f - 1
  PROVE  f = (f % FrameMod) + (rolls + (IF prev > f % FrameMod THEN 1 ELSE 0)) * FrameMod
<1> DEFINE d == FrameMod
           t == rolls * d
<1>1. d \in Nat /\ d > 2 /\ t \in Int /\ prev \in Int /\ t = d * rolls
  BY Constants
<1>2. (rolls + 1) * d = t + d /\ d * (rolls + 1) = t + d
  BY <1>1
<1>3. rolls * d + prev = t + prev
  BY <1>1
<1> HIDE DEF t, d
<1>4. t + prev \in f - 2 .. f - 1 /\ prev <= d - 1 /\ prev >= 0
  BY <1>1, <1>3 DEF d
<1>5. CASE f - t < d
  <2>1. f - t \in 0 .. d - 1 /\ f = t + (f - t) /\ f - t > prev
    BY <1>1, <1>4, <1>5
  <2> DEFINE e == f - t
  <2>e. /\ e \in 0 .. d - 1 /\ f = d * rolls + e /\ d \in Nat /\ d >= 1
        /\ rolls \in Int /\ f \in Int
    BY <1>1, <2>1
  <2> HIDE DEF e
  <2>f. f % d = e
    BY <2>e, Quotient
  <2>2. f % d = f - t
    BY <2>f DEF e
  <2>3. ~(prev > f % d)
    BY <1>1, <2>1, <2>2
  <2>4. (rolls + 0) * d = t
    BY <1>1 DEF t
  <2>5. QED
    BY <1>1, <2>1, <2>2, <2>3, <2>4 DEF d
<1>6. CASE ~(f - t < d)
  <2>1. f - t - d \in 0 .. d - 1 /\ f = (t + d) + (f - t - d) /\ f - t - d < prev /\ rolls + 1 \in Int
    BY <1>1, <1>4, <1>6
  <2> DEFINE e == f - t - d
             q == rolls + 1
  <2>e. /\ e \in 0 .. d - 1 /\ q \in Int /\ f = d * q + e /\ d \in Nat /\ d >= 1
        /\ f \in Int
    BY <1>1, <1>2, <2>1
  <2> HIDE DEF e, q
  <2>f. f % d = e
    BY <2>e, Quotient
  <2>2. f % d = f - t - d
    BY <2>f DEF e
  <2>3. prev > f % d
    BY <1>1, <2>1, <2>2
  <2>4. QED
    BY <1>1, <1>2, <2>1, <2>2, <2>3 DEF d
<1>7. QED
  BY <1>5, <1>6

(* A subrun ends when an event is a multiple that was not one before.      *)
LEMMA SubrunStep ==
  ASSUME NEW before \in Nat, NEW now \in Nat, now \in before .. before + 1
  PROVE  LET d == EventsPerSubrun
             event0 == d * (before \div d)
         IN /\ EndsSubrun(now, event0) => /\ (before \div d) + 1 = now \div d
                                         /\ now = d * (now \div d)
            /\ ~EndsSubrun(now, event0) => before \div d = now \div d
<1> DEFINE d == EventsPerSubrun
           a == before \div d
           b == now \div d
           x == d * a
           y == d * b
<1>1. d \in Nat /\ d >= 1
  BY Constants
<1>2. a \in Int /\ before % d \in 0 .. d - 1 /\ before = x + (before % d)
  BY <1>1, Remainder
<1>3. b \in Int /\ now % d \in 0 .. d - 1 /\ now = y + (now % d)
  BY <1>1, Remainder
<1>4. EndsSubrun(now, x) <=> x # now /\ now % d = 0
  BY DEF EndsSubrun
<1> HIDE DEF d, a, b
<1>5. x \in Int /\ y \in Int
  BY <1>1, <1>2, <1>3
<1> HIDE DEF x, y
<1>6. CASE now % d # 0
  <2>1. before = y + (before - y) /\ before - y \in 0 .. d - 1
    BY <1>1, <1>2, <1>3, <1>5, <1>6
  <2> DEFINE e == before - y
  <2>e. e \in 0 .. d - 1 /\ before = d * b + e
    BY <2>1 DEF y
  <2> HIDE DEF e
  <2>f. /\ d \in Nat /\ d >= 1 /\ b \in Int /\ e \in 0 .. d - 1 /\ before \in Int
        /\ before = d * b + e
    BY <1>1, <1>3, <2>e
  <2>g. before \div d = b
    BY <2>f, Quotient
  <2>2. a = b
    BY <2>g DEF a
  <2>3. QED
    BY <1>4, <1>6, <2>2 DEF a, b, d, x
<1>7. CASE now % d = 0 /\ now = before
  <2>1. a = b
    BY <1>7 DEF a, b
  <2>2. x = now
    BY <1>3, <1>5, <1>7, <2>1 DEF x, y
  <2>3. QED
    BY <1>4, <2>1, <2>2 DEF a, b, d, x
<1>8. CASE now % d = 0 /\ now = before + 1
  <2>1. now = y /\ d * (b - 1) = y - d /\ b - 1 \in Int
    BY <1>1, <1>3, <1>5, <1>8 DEF y
  <2>2. before = (y - d) + (d - 1) /\ d - 1 \in 0 .. d - 1
    BY <1>1, <1>5, <1>8, <2>1
  <2>3. before = d * (b - 1) + (d - 1)
    BY <2>1, <2>2
  <2>4. a = b - 1
    BY <1>1, <2>1, <2>2, <2>3, Quotient DEF a
  <2>5. a + 1 = b /\ now = y
    BY <1>3, <2>1, <2>4
  <2>6. x # now
    <3>1. x <= before
      BY <1>2, <1>5, <1>1
    <3>2. QED
      BY <1>5, <1>8, <3>1
  <2>7. QED
    BY <1>4, <1>8, <2>5, <2>6 DEF a, b, d, x, y
<1>9. QED
  BY <1>6, <1>7, <1>8

-----------------------------------------------------------------------------
(* The stream between crate and FillFragment.                              *)

LEMMA ConcatWords ==
  ASSUME NEW s \in Seq(Word), NEW t \in Seq(Word)
  PROVE  /\ s \o t \in Seq(Word) /\ Len(s \o t) = Len(s) + Len(t)
         /\ \A k \in 1 .. Len(s) + Len(t) : (s \o t)[k] = IF k <= Len(s) THEN s[k] ELSE t[k - Len(s)]
BY ConcatProperties

LEMMA RegroupWords ==
  ASSUME NEW s \in Seq(Word), NEW t \in Seq(Word), NEW u \in Seq(Word)
  PROVE  (s \o t) \o u = s \o (t \o u)
BY ConcatAssociative

LEMMA StreamShape ==
  ASSUME WordsTyped
  PROVE  /\ Stream \in Seq(Word) /\ Len(Stream) \in Nat /\ Len(buffer) \in Nat
         /\ Len(buffer) <= Len(Stream)
         /\ \A k \in 1 .. Len(buffer) : k \in 1 .. Len(Stream) /\ Stream[k] = buffer[k]
         /\ buffer # <<>> => Stream # <<>> /\ buffer[1] = Stream[1]
<1> DEFINE a == buffer \o DMABuffer_
           m == Len(buffer)
           n == Len(DMABuffer_)
           o == Len(link)
<1>1. /\ buffer \in Seq(Word) /\ DMABuffer_ \in Seq(Word) /\ link \in Seq(Word)
      /\ m \in Nat /\ n \in Nat /\ o \in Nat
  BY DEF WordsTyped
<1>2. /\ a \in Seq(Word) /\ Len(a) = m + n
      /\ \A k \in 1 .. m + n : a[k] = IF k <= m THEN buffer[k] ELSE DMABuffer_[k - m]
  BY <1>1, ConcatWords
<1> HIDE DEF a
<1>3. /\ a \o link \in Seq(Word) /\ Len(a \o link) = Len(a) + o
      /\ \A k \in 1 .. Len(a) + o : (a \o link)[k] = IF k <= Len(a) THEN a[k] ELSE link[k - Len(a)]
  BY <1>1, <1>2, ConcatWords
<1>4. Stream = a \o link
  BY DEF Stream, a
<1> HIDE DEF m, n, o
<1>5. Len(Stream) = m + n + o
  BY <1>1, <1>2, <1>3, <1>4
<1>6. ASSUME NEW k \in 1 .. m PROVE k \in 1 .. Len(Stream) /\ Stream[k] = buffer[k]
  <2>1. k \in 1 .. m + n /\ k \in 1 .. m + n + o /\ k <= m /\ k <= m + n
    BY <1>1
  <2>2. QED
    BY <1>2, <1>3, <1>4, <1>5, <2>1
<1>7. ASSUME buffer # <<>> PROVE Stream # <<>> /\ buffer[1] = Stream[1]
  <2>1. m >= 1
    BY <1>1, <1>7 DEF m
  <2>2. 1 \in 1 .. m /\ Len(Stream) >= 1
    BY <1>1, <1>5, <2>1
  <2>3. QED
    BY <1>6, <2>2
<1>8. QED
  BY <1>1, <1>3, <1>4, <1>5, <1>6, <1>7 DEF m

(* A step that only moves words between link and buffer.                   *)
LEMMA QuietStream ==
  ASSUME Typed, StreamIInv, Stream' = Stream, UNCHANGED <<event, frame, filling, checks, made_of>>,
         buffer # <<>> => buffer' # <<>> /\ buffer'[1] = buffer[1]
  PROVE  StreamIInv'
<1>1. UNCHANGED <<event, frame, filling, current_event, current_framenum, rollCounters, prevFrames,
                  metadata_, subrun, frag, made>>
  BY DEF checks, made_of
<1>2. (InOrder(Stream) /\ UpToDate)'
  BY <1>1 DEF StreamIInv, UpToDate
<1>3. NextSlot' = NextSlot /\ NextEvent' = NextEvent
  BY <1>1 DEF NextSlot, NextEvent
<1>4. (Counted /\ Corrected)'
  BY <1>1, <1>3 DEF StreamIInv, Counted, Corrected, FramesOf
<1>5. (Standing /\ Compared)'
  BY <1>1, <1>3 DEF StreamIInv, Standing, Compared
<1>6. (InSubrun /\ LastFragment)'
  BY <1>1, <1>3 DEF StreamIInv, InSubrun, SubrunEvent, LastFragment
<1>7. QED
  BY <1>2, <1>4, <1>5, <1>6 DEF StreamIInv

LEMMA GetDataStream ==
  ASSUME Typed, StreamIInv, GetData, ~broken'
  PROVE  StreamIInv'
<1>0. /\ buffer \in Seq(Word) /\ DMABuffer_ \in Seq(Word) /\ link \in Seq(Word)
  BY DEF Typed, WordsTyped
<1>1. UNCHANGED <<event, frame, filling, checks, made_of>>
  BY DEF GetData, Check, ReadChunk, TimeOut, Insert, crate
<1>2. Stream' = Stream /\ (buffer # <<>> => buffer' # <<>> /\ buffer'[1] = buffer[1])
  <2>1. CASE Check
    BY <2>1 DEF Check, crate, Stream
  <2>2. CASE ReadChunk
    <3>1. /\ DMABuffer_ = <<>> /\ buffer' = buffer /\ DMABuffer_' = SubSeq(link, 1, ChunkWords)
          /\ link' = SubSeq(link, ChunkWords + 1, Len(link)) /\ ChunkWords \in 0 .. Len(link)
      BY <1>0, <2>2, Constants DEF ReadChunk, Typed, WordsTyped
    <3>2. DMABuffer_' \in Seq(Word) /\ link' \in Seq(Word) /\ DMABuffer_' \o link' = link
      BY <1>0, <3>1, PrefixWords, SuffixWords, CutWords
    <3>3. (buffer \o DMABuffer_') \o link' = buffer \o link
      <4> DEFINE x == DMABuffer_'
                 y == link'
      <4>1. x \in Seq(Word) /\ y \in Seq(Word) /\ buffer \in Seq(Word)
        BY <1>0, <3>2
      <4>2. x \o y = link
        BY <3>2
      <4> HIDE DEF x, y
      <4>3. (buffer \o x) \o y = buffer \o (x \o y)
        BY <4>1, RegroupWords
      <4>4. (buffer \o x) \o y = buffer \o link
        BY <4>2, <4>3
      <4>5. QED
        BY <4>4 DEF x, y
    <3>4. buffer \o DMABuffer_ = buffer
      BY <1>0, <3>1, ConcatEmptySeq
    <3>5. QED
      BY <3>1, <3>3, <3>4 DEF Stream
  <2>3. CASE TimeOut
    <3>1. link = <<>> /\ link' = <<>> /\ UNCHANGED <<DMABuffer_, buffer>>
      BY <2>3 DEF TimeOut
    <3>2. QED
      BY <3>1 DEF Stream
  <2>4. CASE Insert
    <3>1. buffer' = buffer \o DMABuffer_ /\ DMABuffer_' = <<>> /\ link' = link
      BY <2>4 DEF Insert, crate
    <3>2. buffer' \in Seq(Word) /\ Len(buffer') = Len(buffer) + Len(DMABuffer_)
          /\ \A k \in 1 .. Len(buffer) + Len(DMABuffer_) :
               buffer'[k] = IF k <= Len(buffer) THEN buffer[k] ELSE DMABuffer_[k - Len(buffer)]
      BY <1>0, <3>1, ConcatWords
    <3>3. buffer' \o DMABuffer_' = buffer'
      BY <3>1, <3>2, ConcatEmptySeq
    <3>4. ASSUME buffer # <<>> PROVE buffer' # <<>> /\ buffer'[1] = buffer[1]
      <4>1. Len(buffer) \in Nat /\ Len(buffer) >= 1 /\ Len(DMABuffer_) \in Nat
        BY <1>0, <3>4
      <4>2. 1 \in 1 .. Len(buffer) + Len(DMABuffer_) /\ 1 <= Len(buffer) /\ Len(buffer') >= 1
        BY <3>2, <4>1
      <4>3. QED
        BY <3>2, <4>2
    <3>5. QED
      BY <3>1, <3>3, <3>4 DEF Stream
  <2>5. QED
    BY <2>1, <2>2, <2>3, <2>4 DEF GetData
<1>3. QED
  BY <1>1, <1>2, QuietStream

LEMMA StopStream ==
  ASSUME Typed, StreamIInv, StopBegin \/ Stop, ~broken'
  PROVE  StreamIInv'
<1>1. UNCHANGED <<event, frame, filling, checks, made_of>>
  BY DEF StopBegin, Stop, dmaStop, StopThread, StopJoin, crate
<1>2. UNCHANGED <<buffer, DMABuffer_, link>>
  BY DEF StopBegin, Stop, dmaStop, StopThread, StopJoin, crate, transfer
<1>3. Stream' = Stream
  BY <1>2 DEF Stream
<1>4. QED
  BY <1>1, <1>2, <1>3, QuietStream

(* The crate sends an event.                                               *)
LEMMA SendStream ==
  ASSUME Typed, StreamIInv, SendEvent
  PROVE  StreamIInv'
<1>1. PICK words \in Seq(Word) :
        /\ link' = link \o words /\ words # <<>> /\ InOrder(words)
        /\ words[1].p.slot = XMITHeader /\ words[1].p.event = event' /\ words[1].p.frame = frame'
        /\ LET p == words[Len(words)].p
           IN p.slot = XMITTrailer /\ p.event = event' /\ p.frame = frame'
  BY EventSent
<1>2. /\ event' = event + 1 /\ frame' \in frame + 1 .. frame + 2 /\ event \in Nat /\ frame \in Nat
      /\ UNCHANGED <<DMABuffer_, buffer, filling, current_event, current_framenum, rollCounters,
                     prevFrames, metadata_, subrun, frag, made>>
  BY Constants DEF SendEvent, transfer, checks, made_of, Typed, TypeOKNevis
<1>3. Stream \in Seq(Word) /\ Stream' = Stream \o words
  <2> DEFINE a == buffer \o DMABuffer_
  <2>1. a \in Seq(Word) /\ link \in Seq(Word)
    BY DEF Typed, WordsTyped
  <2>2. Stream = a \o link /\ Stream' = a \o (link \o words)
    BY <1>1, <1>2 DEF Stream
  <2> HIDE DEF a
  <2>3. (a \o link) \o words = a \o (link \o words)
    BY <1>1, <2>1, RegroupWords
  <2>4. QED
    BY <2>1, <2>2, <2>3
<1> DEFINE s == Stream
<1>4. /\ s \o words \in Seq(Word) /\ Len(s \o words) = Len(s) + Len(words)
      /\ \A k \in 1 .. Len(s) + Len(words) :
           (s \o words)[k] = IF k <= Len(s) THEN s[k] ELSE words[k - Len(s)]
  BY <1>3, ConcatWords
<1>5. Len(s) \in Nat /\ Len(words) \in Nat /\ Len(words) >= 1
  BY <1>1, <1>3
<1>6. InOrder(Stream')
  <2>1. ASSUME s # <<>> PROVE Follows(words[1].p, s[Len(s)].p)
    <3>1. s[Len(s)].p.slot = XMITTrailer /\ s[Len(s)].p.event = event /\ s[Len(s)].p.frame = frame
      BY <2>1 DEF StreamIInv, UpToDate
    <3>2. QED
      BY <1>1, <1>2, <3>1 DEF Follows
  <2>2. InOrder(s \o words)
    BY <1>1, <1>3, <2>1, TwoStreams DEF StreamIInv
  <2>3. QED
    BY <1>3, <2>2
<1>7. UpToDate'
  <2>1. Len(s) + Len(words) \in 1 .. Len(s) + Len(words) /\ ~(Len(s) + Len(words) <= Len(s))
        /\ Len(s) + Len(words) - Len(s) = Len(words)
    BY <1>5
  <2>2. (s \o words)[Len(s) + Len(words)] = words[Len(words)]
    BY <1>4, <2>1
  <2>3. Stream'[Len(Stream')] = words[Len(words)]
    BY <1>3, <1>4, <2>2
  <2>4. QED
    BY <1>1, <2>3 DEF UpToDate
<1>8. Stream' # <<>>
  BY <1>3, <1>4, <1>5
<1>9. CASE s = <<>>
  <2>1. Stream' = words
    BY <1>1, <1>3, <1>9, ConcatEmptySeq
  <2>2. NextSlot' = NextSlot /\ NextSlot = XMITHeader /\ NextEvent' = NextEvent
    BY <1>1, <1>2, <1>8, <1>9, <2>1 DEF NextSlot, NextEvent
  <2>3. Corrected'
    <3> SUFFICES ASSUME NEW t \in Slot
                 PROVE  FramesOf(t)' \in frame' - 2 .. frame' - 1
      BY <1>1, <1>8, <2>1, <2>2, Constants DEF Corrected, XMITHeader, Slot
    <3>1. FramesOf(t) = frame
      BY <1>9 DEF StreamIInv, Corrected
    <3>2. FramesOf(t)' = FramesOf(t)
      BY <1>2 DEF FramesOf
    <3>3. frame \in frame' - 2 .. frame' - 1
      <4>1. frame' \in frame + 1 .. frame + 2 /\ frame \in Nat
        BY <1>2
      <4>2. \A a \in Nat : \A b \in a + 1 .. a + 2 : a \in b - 2 .. b - 1
        OBVIOUS
      <4>3. QED
        BY <4>1, <4>2
    <3>4. QED
      BY <3>1, <3>2, <3>3
  <2>4. Compared'
    BY <2>2 DEF Compared, XMITHeader
  <2>5. QED
    BY <1>2, <1>6, <1>7, <2>2, <2>3, <2>4
    DEF StreamIInv, Counted, Standing, InSubrun, SubrunEvent, LastFragment
<1>10. CASE s # <<>>
  <2>1. Len(s) >= 1 /\ 1 \in 1 .. Len(s) + Len(words)
    BY <1>3, <1>5, <1>10
  <2>2. Stream'[1] = Stream[1]
    BY <1>3, <1>4, <2>1
  <2>3. NextSlot' = NextSlot /\ NextEvent' = NextEvent
    BY <1>8, <1>10, <2>2 DEF NextSlot, NextEvent
  <2>4. Corrected'
    <3> SUFFICES ASSUME NEW t \in Slot
                 PROVE  IF t < NextSlot THEN FramesOf(t)' = Stream[1].p.frame
                        ELSE FramesOf(t)' \in Stream[1].p.frame - 2 .. Stream[1].p.frame - 1
      BY <1>8, <2>2, <2>3 DEF Corrected
    <3>1. FramesOf(t)' = FramesOf(t)
      BY <1>2 DEF FramesOf
    <3>2. QED
      BY <1>10, <3>1 DEF StreamIInv, Corrected
  <2>5. Compared'
    BY <1>2, <2>2, <2>3 DEF StreamIInv, Compared
  <2>6. QED
    BY <1>2, <1>6, <1>7, <2>3, <2>4, <2>5
    DEF StreamIInv, Counted, Standing, InSubrun, SubrunEvent, LastFragment
<1>11. QED
  BY <1>9, <1>10

(* FillFragment takes a packet: what is next then.                         *)
LEMMA Advance ==
  ASSUME Typed, InOrder(Stream), UpToDate, Stream # <<>>, Stream[1].p.size <= Len(buffer),
         buffer' = SubSeq(buffer, Stream[1].p.size + 1, Len(buffer)),
         UNCHANGED <<DMABuffer_, link, event, frame>>
  PROVE  LET p == Stream[1].p
         IN /\ InOrder(Stream)' /\ UpToDate'
            /\ NextSlot = p.slot /\ NextEvent = p.event /\ p.slot \in Parts /\ p.event \in Nat
            /\ p.event >= 1 /\ p.frame \in Nat
            /\ NextSlot' = (IF p.slot = XMITTrailer THEN XMITHeader ELSE p.slot + 1)
            /\ NextEvent' = (IF p.slot = XMITTrailer THEN p.event + 1 ELSE p.event)
            /\ p.slot # XMITTrailer => /\ Stream' # <<>> /\ Stream'[1].p.frame = p.frame
                                       /\ Stream'[1].p.event = p.event
            /\ p.slot = XMITTrailer => IF Stream' = <<>> THEN frame = p.frame
                                       ELSE Stream'[1].p.frame \in p.frame + 1 .. p.frame + 2
<1> DEFINE p == Stream[1].p
           n == p.size
           s == Stream
           t == SubSeq(s, n + 1, Len(s))
<1>1. s \in Seq(Word) /\ Len(s) \in Nat /\ Len(s) >= 1 /\ s[1] \in Word
  <2>1. s \in Seq(Word)
    BY StreamShape DEF Typed
  <2>2. QED
    BY <2>1
<1>2. /\ n \in 1 .. Len(s) /\ t \in Seq(Word) /\ Len(t) = Len(s) - n /\ InOrder(t)
      /\ \A k \in 1 .. Len(t) : t[k] = s[n + k]
      /\ t # <<>> => t[1].i = 1 /\ Follows(t[1].p, p)
      /\ t = <<>> => s[Len(s)].p = p
  BY <1>1, FirstPacket
<1>3. Stream' = t
  <2>1. /\ buffer \in Seq(Word) /\ DMABuffer_ \in Seq(Word) /\ link \in Seq(Word)
        /\ Len(buffer) \in Nat
    BY DEF Typed, WordsTyped
  <2>2. n \in 0 .. Len(buffer)
    BY <1>2, <2>1
  <2> HIDE DEF n
  <2>3. SubSeq(buffer \o DMABuffer_, n + 1, Len(buffer \o DMABuffer_)) = buffer' \o DMABuffer_
    BY <2>1, <2>2, SuffixOfConcat DEF n
  <2>4. buffer \o DMABuffer_ \in Seq(Word) /\ n \in 0 .. Len(buffer \o DMABuffer_)
    BY <2>1, <2>2
  <2>5. SubSeq(Stream, n + 1, Len(Stream))
          = SubSeq(buffer \o DMABuffer_, n + 1, Len(buffer \o DMABuffer_)) \o link
    BY <2>1, <2>4, SuffixOfConcat DEF Stream
  <2>6. Stream' = (buffer' \o DMABuffer_) \o link
    BY DEF Stream
  <2>7. QED
    BY <2>3, <2>5, <2>6
<1>4. p.slot \in Parts /\ p.event \in Nat /\ p.event >= 1 /\ p.frame \in Nat
  <2>1. 1 \in 1 .. Len(s)
    BY <1>1
  <2>2. QED
    BY <1>1, <2>1, WordFields DEF InOrder, PartsOf
<1>5. NextSlot = p.slot /\ NextEvent = p.event
  BY DEF NextSlot, NextEvent
<1> HIDE DEF t
<1>6. InOrder(Stream)'
  BY <1>2, <1>3
<1>7. UpToDate'
  <2> SUFFICES ASSUME t # <<>>
               PROVE  t[Len(t)].p.slot = XMITTrailer /\ t[Len(t)].p.event = event /\ t[Len(t)].p.frame = frame
    BY <1>3 DEF UpToDate
  <2>1. Len(t) \in 1 .. Len(t) /\ n + Len(t) = Len(s)
    <3> DEFINE l == Len(t)
               m == Len(s)
    <3>1. l \in Nat /\ m \in Nat /\ n \in 1 .. m /\ l = m - n /\ l # 0
      BY <1>1, <1>2
    <3> HIDE DEF l, m, n
    <3>2. l \in 1 .. l /\ n + l = m
      BY <3>1
    <3>3. QED
      BY <3>2 DEF l, m
  <2>2. t[Len(t)] = s[Len(s)]
    BY <1>2, <2>1
  <2>3. QED
    BY <2>2 DEF UpToDate
<1>8. CASE t = <<>>
  <2>1. p.slot = XMITTrailer /\ p.event = event /\ p.frame = frame
    BY <1>2, <1>8 DEF UpToDate
  <2>2. NextSlot' = XMITHeader /\ NextEvent' = event + 1
    BY <1>3, <1>8 DEF NextSlot, NextEvent
  <2>3. QED
    BY <1>3, <1>4, <1>5, <1>6, <1>7, <1>8, <2>1, <2>2
<1>9. CASE t # <<>>
  <2>1. Follows(t[1].p, p)
    BY <1>2, <1>9
  <2>2. NextSlot' = t[1].p.slot /\ NextEvent' = t[1].p.event
    BY <1>3, <1>9 DEF NextSlot, NextEvent
  <2>3. QED
    BY <1>3, <1>4, <1>5, <1>6, <1>7, <1>9, <2>1, <2>2 DEF Follows
<1>10. QED
  BY <1>8, <1>9

-----------------------------------------------------------------------------
(* FillFragment.                                                           *)

(* What it reads of the packet that is next.                               *)
LEMMA HeadOfPacket ==
  ASSUME Typed, StreamIInv, buffer # <<>>
  PROVE  LET p == buffer[1].p
         IN /\ Stream # <<>> /\ p = Stream[1].p /\ buffer[1].i = 1 /\ buffer[1] \in Word
            /\ NextSlot = p.slot /\ NextEvent = p.event /\ p.slot \in Parts
            /\ p.event \in Nat /\ p.event >= 1 /\ p.frame \in Nat
            /\ p.size \in Nat /\ p.size >= 2 /\ WellFormed(p)
            /\ Len(buffer) >= 2 => buffer[2] \in Word /\ buffer[2].p = p /\ buffer[2].i = 2
<1> DEFINE p == buffer[1].p
           s == Stream
<1>1. /\ s \in Seq(Word) /\ s # <<>> /\ buffer[1] = s[1] /\ Len(s) \in Nat
      /\ Len(buffer) \in Nat /\ Len(buffer) <= Len(s)
      /\ \A k \in 1 .. Len(buffer) : k \in 1 .. Len(s) /\ s[k] = buffer[k]
  BY StreamShape DEF Typed
<1>2. InOrder(s)
  BY DEF StreamIInv
<1>3. s[1].i = 1 /\ 1 \in 1 .. Len(s) /\ s[1] \in Word
  <2>1. s[1].i = 1
    BY <1>1, <1>2, FirstWord
  <2>2. Len(s) >= 1
    BY <1>1
  <2>3. QED
    BY <1>1, <2>1, <2>2
<1>4. p.slot \in Parts /\ p.event >= 1
  BY <1>1, <1>2, <1>3 DEF InOrder, PartsOf
<1>5. WellFormed(p) /\ p.event \in Nat /\ p.frame \in Nat /\ p.size \in Nat
  BY <1>1, <1>3, WordFields
<1>6. p.size >= 2
  <2>1. CASE p.slot \in Slot
    <3>1. p.count \in Nat /\ p.count >= wiggle_room /\ p.size - 2 - p.count \in - wiggle_room .. wiggle_room - 1
      BY <1>5, <2>1, Constants DEF WellFormed, HeaderWords
    <3> DEFINE c == p.count
               n == p.size
               w == wiggle_room
    <3>2. /\ c \in Nat /\ c >= w /\ n \in Nat /\ w \in Nat /\ n - 2 - c \in - w .. w - 1
      BY <1>5, <3>1, Constants
    <3> HIDE DEF c, n, w
    <3>3. n >= 2
      BY <3>2
    <3>4. QED
      BY <3>3 DEF n
  <2>2. CASE p.slot \notin Slot
    <3>1. p.slot \in {XMITHeader, XMITTrailer}
      BY <1>4, <2>2, Constants DEF Parts, Slot, XMITHeader, XMITTrailer
    <3>2. QED
      BY <1>5, <3>1 DEF WellFormed
  <2>3. QED
    BY <2>1, <2>2
<1>7. ASSUME Len(buffer) >= 2 PROVE buffer[2] \in Word /\ buffer[2].p = p /\ buffer[2].i = 2
  <2>1. 2 \in 1 .. s[1].p.size /\ 2 \in 1 .. Len(buffer)
    BY <1>1, <1>5, <1>6, <1>7
  <2>2. s[2] = [p |-> s[1].p, i |-> 2]
    BY <1>1, <1>2, <2>1, FirstPacket
  <2>3. s[2] = buffer[2] /\ s[2] \in Word
    BY <1>1, <2>1
  <2>4. QED
    BY <1>1, <2>2, <2>3
<1>8. NextSlot = p.slot /\ NextEvent = p.event
  BY <1>1 DEF NextSlot, NextEvent
<1>9. QED
  BY <1>1, <1>3, <1>4, <1>5, <1>6, <1>7, <1>8

(* The header of an event is recognised, and nothing else is taken for it. *)
LEMMA HeaderSeen ==
  ASSUME Typed, StreamIInv, Len(buffer) >= 2
  PROVE  Begins(FFFF, FFFF) <=> NextSlot = XMITHeader
<1>1. buffer # <<>> /\ Len(buffer) \in Nat
  BY DEF Typed, WordsTyped
<1>2. /\ buffer[1] \in Word /\ buffer[1].i = 1 /\ buffer[2] \in Word /\ buffer[2].i = 2
      /\ buffer[2].p = buffer[1].p /\ NextSlot = buffer[1].p.slot
  BY <1>1, HeadOfPacket
<1>3. Begins(FFFF, FFFF) <=> Value(buffer[1]) = FFFF /\ Value(buffer[2]) = FFFF
  BY DEF Begins
<1>4. Value(buffer[2]) = FFFF <=> NextSlot = XMITHeader
  BY <1>2, Values
<1>5. NextSlot = XMITHeader => Value(buffer[1]) = FFFF
  BY <1>2, Values
<1>6. QED
  BY <1>3, <1>4, <1>5

LEMMA TrailerSeen ==
  ASSUME Typed, StreamIInv, Len(buffer) >= 2
  PROVE  Begins(Zero, E000) <=> NextSlot = XMITTrailer
<1>1. buffer # <<>> /\ Len(buffer) \in Nat
  BY DEF Typed, WordsTyped
<1>2. /\ buffer[1] \in Word /\ buffer[1].i = 1 /\ buffer[2] \in Word /\ buffer[2].i = 2
      /\ buffer[2].p = buffer[1].p /\ NextSlot = buffer[1].p.slot
  BY <1>1, HeadOfPacket
<1>3. Begins(Zero, E000) <=> Value(buffer[1]) = Zero /\ Value(buffer[2]) = E000
  BY DEF Begins
<1>4. Value(buffer[2]) = E000 <=> NextSlot = XMITTrailer
  BY <1>2, Values
<1>5. NextSlot = XMITTrailer => Value(buffer[1]) = Zero
  BY <1>2, Values
<1>6. QED
  BY <1>3, <1>4, <1>5

(* It is looking at the header of the module whose turn it is.             *)
LEMMA AtModule ==
  ASSUME Typed, StreamIInv, filling = "fem"
  PROVE  /\ buffer # <<>> /\ NextSlot \in Slot /\ Value(buffer[1]) = FFFF
         /\ Headers = {buffer[1].p}
<1>1. buffer # <<>> /\ Len(buffer) \in Nat /\ Len(buffer) >= 2
  BY DEF Typed, WordsTyped, HeaderWords
<1>2. /\ buffer[1] \in Word /\ buffer[1].i = 1 /\ buffer[2] \in Word /\ buffer[2].i = 2
      /\ buffer[2].p = buffer[1].p /\ NextSlot = buffer[1].p.slot
  BY <1>1, HeadOfPacket
<1>3. NextSlot \in Slot
  BY DEF StreamIInv, Standing
<1>4. Value(buffer[1]) = FFFF /\ Value(buffer[2]) = Header
  BY <1>2, <1>3, Values
<1>5. QED
  BY <1>1, <1>2, <1>3, <1>4 DEF Headers

(* The search ends where the packet does, whatever the word count says     *)
(* within its room.                                                        *)
LEMMA WholePacket ==
  ASSUME Typed, StreamIInv, filling = "fem", Len(buffer) >= Needed(buffer[1].p.count)
  PROVE  /\ expected_size(buffer[1].p) = buffer[1].p.size
         /\ buffer[1].p.size \in 1 .. Len(buffer)
         /\ \A k \in 1 .. buffer[1].p.size : buffer[k].p = buffer[1].p
<1> DEFINE p == buffer[1].p
           n == p.size
           s == Stream
           t == SubSeq(s, n + 1, Len(s))
           nominal == HeaderWords + p.count
<1>1. /\ buffer # <<>> /\ NextSlot \in Slot
  BY AtModule
<1>2. /\ s # <<>> /\ p = s[1].p /\ NextSlot = p.slot /\ n \in Nat /\ n >= 2 /\ WellFormed(p)
  BY <1>1, HeadOfPacket
<1>3. /\ s \in Seq(Word) /\ Len(s) \in Nat /\ Len(buffer) \in Nat /\ Len(buffer) <= Len(s)
      /\ \A k \in 1 .. Len(buffer) : k \in 1 .. Len(s) /\ s[k] = buffer[k]
  BY StreamShape DEF Typed
<1>4. /\ n \in 1 .. Len(s) /\ \A k \in 1 .. n : s[k] = [p |-> p, i |-> k]
      /\ t \in Seq(Word) /\ Len(t) = Len(s) - n /\ InOrder(t)
      /\ \A k \in 1 .. Len(t) : t[k] = s[n + k]
      /\ t # <<>> => t[1].i = 1 /\ Follows(t[1].p, p)
  <2>1. InOrder(s)
    BY DEF StreamIInv
  <2> DEFINE r == s[1].p
             m == r.size
             u == SubSeq(s, m + 1, Len(s))
  <2>2. /\ m \in 1 .. Len(s) /\ \A k \in 1 .. m : s[k] = [p |-> r, i |-> k]
        /\ u \in Seq(Word) /\ Len(u) = Len(s) - m /\ InOrder(u)
        /\ \A k \in 1 .. Len(u) : u[k] = s[m + k]
        /\ u # <<>> => u[1].i = 1 /\ Follows(u[1].p, r)
    <3> HIDE DEF s
    <3>1. QED
      BY <1>2, <1>3, <2>1, FirstPacket
  <2>3. r = p
    BY <1>2
  <2> HIDE DEF p, s, r
  <2>4. n = m
    BY <2>3
  <2>5. QED
    BY <2>2, <2>3, <2>4
<1>5. /\ p.count \in Counts /\ n - HeaderWords - p.count \in - wiggle_room .. wiggle_room - 1
  BY <1>1, <1>2 DEF WellFormed
<1>6. /\ nominal \in Nat /\ nominal - wiggle_room >= 2 /\ n \in nominal - wiggle_room .. nominal + wiggle_room - 1
      /\ n + 2 <= Len(buffer)
  <2>1. p.count \in Nat /\ p.count >= wiggle_room
    BY <1>5, Constants
  <2>2. Len(buffer) >= 2 + p.count + wiggle_room + 1
    BY DEF Needed, HeaderWords
  <2> DEFINE c == p.count
             w == wiggle_room
             l == Len(buffer)
  <2>3. /\ nominal = 2 + c /\ c \in Nat /\ c >= w /\ w \in Nat /\ w >= 1 /\ l \in Nat
        /\ l >= 2 + c + w + 1 /\ n \in Nat /\ n - 2 - c \in - w .. w - 1
    BY <1>2, <1>3, <1>5, <2>1, <2>2, Constants DEF HeaderWords
  <2> HIDE DEF c, w, l, n, p, nominal
  <2>4. /\ nominal \in Nat /\ nominal - w >= 2 /\ n \in nominal - w .. nominal + w - 1
        /\ n + 2 <= l
    BY <2>3
  <2>5. QED
    BY <2>4 DEF w, l
<1> HIDE DEF n, p, t, nominal, s
<1>7. Len(t) >= 2 /\ 1 \in 1 .. Len(t) /\ 2 \in 1 .. Len(t) /\ t # <<>>
  BY <1>2, <1>3, <1>4, <1>6
<1>8. buffer[n + 1] = t[1] /\ buffer[n + 2] = t[2] /\ t[1] \in Word /\ t[2] \in Word
  <2>1. n + 1 \in 1 .. Len(buffer) /\ n + 2 \in 1 .. Len(buffer)
    BY <1>2, <1>3, <1>6
  <2>2. QED
    BY <1>3, <1>4, <1>7, <2>1
<1>9. EndsBefore(n + 1)
  <2>1. t[1].i = 1 /\ Follows(t[1].p, p) /\ p.slot # XMITTrailer
    BY <1>1, <1>2, <1>4, <1>7, Constants DEF Slot, XMITTrailer
  <2>2. t[1].p.slot = p.slot + 1
    BY <2>1 DEF Follows
  <2>3. CASE t[1].p.slot \in Slot
    <3>1. Value(t[1]) = FFFF
      BY <1>8, <2>1, <2>3, Values
    <3>2. QED
      BY <1>8, <3>1 DEF EndsBefore
  <2>4. CASE t[1].p.slot = XMITTrailer
    <3>1. Value(t[1]) = Zero
      BY <1>8, <2>1, <2>4, Values
    <3>2. t[1].p.size = 2
      BY <1>8, <2>4, WordFields DEF WellFormed
    <3>3. 2 \in 1 .. t[1].p.size
      BY <3>2
    <3>4. t[2] = [p |-> t[1].p, i |-> 2]
      BY <1>4, <1>7, <3>3, FirstPacket
    <3>5. t[2].p.slot = XMITTrailer /\ t[2].i = 2
      BY <2>4, <3>4
    <3>6. Value(t[2]) = E000
      BY <1>8, <3>5, Values
    <3>7. (n + 1) + 1 = n + 2
      BY <1>2
    <3>8. QED
      BY <1>8, <3>1, <3>6, <3>7 DEF EndsBefore
  <2>5. QED
    BY <1>1, <1>2, <2>2, <2>3, <2>4, Constants DEF Slot, XMITTrailer
<1>10. ASSUME NEW at \in nominal + 1 - wiggle_room .. n PROVE ~EndsBefore(at)
  <2>1. at \in Int /\ at >= 3 /\ at <= n
    BY <1>2, <1>6, Constants
  <2>2. at \in 1 .. n /\ at \in 1 .. Len(buffer) /\ at + 1 \in 1 .. Len(buffer)
    BY <1>2, <1>3, <1>6, <2>1
  <2>3. buffer[at] = [p |-> p, i |-> at] /\ buffer[at] \in Word /\ buffer[at + 1] \in Word
    <3>1. s[at] = [p |-> p, i |-> at]
      BY <1>4, <2>2
    <3>2. buffer[at] = s[at] /\ buffer[at + 1] = s[at + 1] /\ at \in 1 .. Len(s) /\ at + 1 \in 1 .. Len(s)
      BY <1>3, <2>2
    <3>3. QED
      BY <1>3, <3>1, <3>2
  <2>4. buffer[at].p.slot \in Slot /\ buffer[at].i # 1
    BY <1>1, <1>2, <2>1, <2>3
  <2>5. Value(buffer[at]) # FFFF
    <3>1. buffer[at].p.slot # XMITHeader
      BY <2>4, Constants DEF Slot, XMITHeader
    <3>2. QED
      BY <2>3, <2>4, <3>1, Values
  <2>6. Value(buffer[at + 1]) # E000
    <3>1. CASE at < n
      <4>1. at + 1 \in 1 .. n
        BY <1>2, <2>1, <3>1
      <4>2. s[at + 1] = [p |-> p, i |-> at + 1]
        BY <1>4, <4>1
      <4>3. buffer[at + 1].p.slot \in Slot
        BY <1>1, <1>2, <1>3, <2>2, <4>2
      <4>4. buffer[at + 1].p.slot # XMITTrailer
        BY <4>3, Constants DEF Slot, XMITTrailer
      <4>5. QED
        BY <2>3, <4>4, Values
    <3>2. CASE at = n
      <4>1. buffer[at + 1].i = 1
        BY <1>4, <1>7, <1>8, <3>2
      <4>2. QED
        BY <2>3, <4>1, Values
    <3>3. QED
      BY <1>2, <2>1, <3>1, <3>2
  <2>7. QED
    BY <2>5, <2>6 DEF EndsBefore
<1>11. expected_size(p) = n
  <2>1. /\ expected_size(p) \in 0 .. nominal + wiggle_room
        /\ \A m \in nominal - wiggle_room .. nominal + wiggle_room - 1 :
             /\ EndsBefore(m + 1)
             /\ \A at \in nominal + 1 - wiggle_room .. m : ~EndsBefore(at)
             => expected_size(p) = m
    BY <1>5, SizeFound DEF nominal
  <2>2. QED
    BY <1>6, <1>9, <1>10, <2>1
<1>12. n \in 1 .. Len(buffer)
  BY <1>2, <1>3, <1>6
<1>13. ASSUME NEW k \in 1 .. n PROVE buffer[k].p = p
  <2>1. k \in 1 .. Len(buffer)
    BY <1>2, <1>3, <1>6
  <2>2. buffer[k] = s[k] /\ s[k] = [p |-> p, i |-> k]
    BY <1>3, <1>4, <2>1
  <2>3. s[k].p = p
    BY <2>2
  <2>4. QED
    BY <2>2, <2>3
<1>14. QED
  BY <1>11, <1>12, <1>13 DEF n, p

(* What is next stays next, only what is known of it changes.              *)
LEMMA SameStream ==
  ASSUME StreamIInv, UNCHANGED <<link, DMABuffer_, buffer, event, frame, made_of>>,
         Standing', Compared'
  PROVE  StreamIInv'
<1>1. UNCHANGED <<link, DMABuffer_, buffer, event, frame, rollCounters, prevFrames,
                  metadata_, subrun, frag, made>>
  BY DEF made_of
<1>2. Stream' = Stream
  BY <1>1 DEF Stream
<1>3. (InOrder(Stream) /\ UpToDate)'
  BY <1>1, <1>2 DEF StreamIInv, UpToDate
<1>4. NextSlot' = NextSlot /\ NextEvent' = NextEvent
  BY <1>1, <1>2 DEF NextSlot, NextEvent
<1>5. (Counted /\ Corrected)'
  BY <1>1, <1>2, <1>4 DEF StreamIInv, Counted, Corrected, FramesOf
<1>6. (InSubrun /\ LastFragment)'
  BY <1>1, <1>4 DEF StreamIInv, InSubrun, SubrunEvent, LastFragment
<1>7. QED
  BY <1>3, <1>5, <1>6 DEF StreamIInv

LEMMA SameNext ==
  ASSUME UNCHANGED <<link, DMABuffer_, buffer, event>>
  PROVE  Stream' = Stream /\ NextSlot' = NextSlot /\ NextEvent' = NextEvent
<1>1. Stream' = Stream
  BY DEF Stream
<1>2. QED
  BY <1>1 DEF NextSlot, NextEvent

LEMMA HeaderStep ==
  ASSUME Typed, StreamIInv, EraseXMITHeader
  PROVE  StreamIInv'
<1>1. /\ Len(buffer) >= 2 /\ filling' = "trailer" /\ buffer # <<>> /\ Len(buffer) \in Nat
      /\ UNCHANGED <<link, event, frame, DMABuffer_, made_of>>
  BY DEF EraseXMITHeader, crate, transfer, Typed, WordsTyped
<1>2. CASE NextSlot = XMITHeader
  <2>1. Begins(FFFF, FFFF)
    BY <1>1, <1>2, HeaderSeen
  <2>2. /\ buffer' = SubSeq(buffer, 3, Len(buffer))
        /\ current_event' = -1 /\ current_framenum' = -1
    BY <2>1 DEF EraseXMITHeader
  <2> DEFINE p == Stream[1].p
  <2>3. /\ Stream # <<>> /\ NextSlot = p.slot /\ NextEvent = p.event /\ WellFormed(p)
        /\ p.event \in Nat
    BY <1>1, HeadOfPacket
  <2>4. p.size = 2
    BY <1>2, <2>3 DEF WellFormed
  <2>5. p.size <= Len(buffer) /\ buffer' = SubSeq(buffer, p.size + 1, Len(buffer))
    BY <1>1, <2>2, <2>4
  <2>6. InOrder(Stream) /\ UpToDate
    BY DEF StreamIInv
  <2>7. p.slot = 0 /\ p.slot # XMITTrailer
    BY <1>2, <2>3, Constants DEF XMITHeader, XMITTrailer
  <2>8. /\ InOrder(Stream)' /\ UpToDate'
        /\ NextSlot' = 1 /\ NextEvent' = NextEvent
        /\ Stream' # <<>> /\ Stream'[1].p.frame = p.frame
    BY <1>1, <2>3, <2>5, <2>6, <2>7, Advance
  <2>9. Counted'
    <3>1. made' = made /\ made = FEMs * (NextEvent - 1) + 0
      BY <1>1, <1>2 DEF made_of, StreamIInv, Counted
    <3>2. QED
      BY <2>8, <3>1 DEF Counted, XMITHeader
  <2>10. Corrected'
    <3> SUFFICES ASSUME NEW t \in Slot
                 PROVE  FramesOf(t)' \in p.frame - 2 .. p.frame - 1
      BY <2>8 DEF Corrected, Slot
    <3>1. FramesOf(t) \in p.frame - 2 .. p.frame - 1
      BY <2>3, <2>7 DEF StreamIInv, Corrected, Slot
    <3>2. FramesOf(t)' = FramesOf(t)
      BY <1>1 DEF FramesOf, made_of
    <3>3. QED
      BY <3>1, <3>2
  <2>11. Standing' /\ Compared'
    BY <1>1, <2>2, <2>8 DEF Standing, Compared, XMITHeader
  <2>12. InSubrun'
    <3>1. SubrunEvent' = SubrunEvent /\ ~(NextSlot' > 1) /\ ~(NextSlot > 1)
      BY <2>3, <2>7, <2>8 DEF SubrunEvent
    <3>2. QED
      BY <1>1, <2>8, <3>1 DEF made_of, StreamIInv, InSubrun
  <2>13. LastFragment'
    BY <1>1 DEF made_of, StreamIInv, LastFragment
  <2>14. QED
    BY <2>8, <2>9, <2>10, <2>11, <2>12, <2>13 DEF StreamIInv
<1>3. CASE NextSlot # XMITHeader
  <2>1. ~Begins(FFFF, FFFF)
    BY <1>1, <1>3, HeaderSeen
  <2>2. UNCHANGED <<buffer, current_event, current_framenum>>
    BY <2>1 DEF EraseXMITHeader, checks
  <2>3. Stream' = Stream /\ NextSlot' = NextSlot /\ NextEvent' = NextEvent
    BY <1>1, <2>2, SameNext
  <2>4. Standing' /\ Compared'
    BY <1>1, <1>3, <2>2, <2>3 DEF StreamIInv, Standing, Compared
  <2>5. QED
    BY <1>1, <2>2, <2>4, SameStream
<1>4. QED
  BY <1>2, <1>3

LEMMA TrailerStep ==
  ASSUME Typed, StreamIInv, EraseXMITTrailer
  PROVE  StreamIInv'
<1>1. /\ filling = "trailer" /\ Len(buffer) \in Nat /\ (Len(buffer) >= 2 => buffer # <<>>)
      /\ UNCHANGED <<link, event, frame, DMABuffer_, current_event, current_framenum, made_of>>
  BY DEF EraseXMITTrailer, crate, transfer, checks, Typed, WordsTyped
<1>2. CASE Begins(Zero, E000)
  <2>1. Len(buffer) >= 2 /\ NextSlot = XMITTrailer
    BY <1>2, TrailerSeen DEF Begins
  <2>2. filling' = "begin" /\ buffer' = SubSeq(buffer, 3, Len(buffer))
    BY <1>2 DEF EraseXMITTrailer
  <2> DEFINE p == Stream[1].p
  <2>3. /\ Stream # <<>> /\ NextSlot = p.slot /\ NextEvent = p.event /\ WellFormed(p)
        /\ p.event \in Nat /\ p.frame \in Nat
    BY <1>1, <2>1, HeadOfPacket
  <2>4. p.size = 2
    BY <2>1, <2>3 DEF WellFormed
  <2>5. p.size <= Len(buffer) /\ buffer' = SubSeq(buffer, p.size + 1, Len(buffer))
    BY <2>1, <2>2, <2>4
  <2>6. InOrder(Stream) /\ UpToDate
    BY DEF StreamIInv
  <2>7. /\ InOrder(Stream)' /\ UpToDate'
        /\ NextSlot' = XMITHeader /\ NextEvent' = p.event + 1
        /\ IF Stream' = <<>> THEN frame = p.frame
           ELSE Stream'[1].p.frame \in p.frame + 1 .. p.frame + 2
    BY <1>1, <2>1, <2>3, <2>5, <2>6, Advance
  <2>8. Counted'
    <3>1. made' = made /\ made = FEMs * (p.event - 1) + (FEMs + 1 - 1)
      <4>1. made' = made
        BY <1>1 DEF made_of
      <4>2. made = FEMs * (NextEvent - 1) + (IF NextSlot = XMITHeader THEN 0 ELSE NextSlot - 1)
        BY DEF StreamIInv, Counted
      <4>3. NextSlot # XMITHeader /\ NextSlot - 1 = FEMs + 1 - 1
        BY <2>1, Constants DEF XMITHeader, XMITTrailer
      <4>4. QED
        BY <2>3, <4>1, <4>2, <4>3
    <3>2. FEMs * p.event = FEMs * (p.event - 1) + (FEMs + 1 - 1) /\ FEMs * p.event \in Int
      BY <2>3, Constants
    <3>3. made' = FEMs * (NextEvent' - 1) + 0
      <4>1. NextEvent' - 1 = p.event
        BY <2>3, <2>7
      <4>2. made' = FEMs * p.event /\ FEMs * p.event + 0 = FEMs * p.event
        BY <3>1, <3>2
      <4>3. QED
        BY <4>1, <4>2
    <3>4. QED
      BY <2>7, <3>3 DEF Counted
  <2>9. Corrected'
    <3> SUFFICES ASSUME NEW t \in Slot
                 PROVE  IF Stream' = <<>> THEN FramesOf(t)' = frame
                        ELSE FramesOf(t)' \in Stream'[1].p.frame - 2 .. Stream'[1].p.frame - 1
      BY <1>1, <2>7 DEF Corrected, Slot, XMITHeader
    <3>1. t < NextSlot
      BY <2>1, Constants DEF XMITTrailer, Slot
    <3>2. FramesOf(t) = p.frame
      BY <2>3, <3>1 DEF StreamIInv, Corrected
    <3>3. FramesOf(t)' = FramesOf(t)
      BY <1>1 DEF FramesOf, made_of
    <3>4. \A a \in Nat : \A b \in a + 1 .. a + 2 : a \in b - 2 .. b - 1
      OBVIOUS
    <3>5. QED
      BY <2>3, <2>7, <3>2, <3>3, <3>4
  <2>10. Standing' /\ Compared'
    BY <2>2, <2>7 DEF Standing, Compared, XMITHeader
  <2>11. InSubrun'
    <3> SUFFICES ASSUME desyncCrash, FEMs > 1 PROVE InSubrun'
      BY DEF InSubrun
    <3>1. NextSlot > 2 /\ NextSlot > 1 /\ ~(NextSlot' > 2) /\ ~(NextSlot' > 1) /\ NextEvent' - 1 = NextEvent
      BY <2>1, <2>3, <2>7, Constants DEF XMITHeader, XMITTrailer
    <3>2. SubrunEvent' = SubrunEvent
      BY <3>1 DEF SubrunEvent
    <3>3. QED
      BY <1>1, <3>1, <3>2 DEF made_of, StreamIInv, InSubrun
  <2>12. LastFragment'
    BY <1>1 DEF made_of, StreamIInv, LastFragment
  <2>13. QED
    BY <2>7, <2>8, <2>9, <2>10, <2>11, <2>12 DEF StreamIInv
<1>3. CASE ~Begins(Zero, E000)
  <2>1. /\ filling' = (IF Len(buffer) < HeaderWords THEN "begin" ELSE "fem") /\ buffer' = buffer
    BY <1>3 DEF EraseXMITTrailer
  <2>2. Stream' = Stream /\ NextSlot' = NextSlot /\ NextEvent' = NextEvent
    BY <1>1, <2>1, SameNext
  <2>3. ASSUME Len(buffer) >= 2 PROVE NextSlot \in Slot
    <3>1. NextSlot # XMITTrailer
      BY <1>3, <2>3, TrailerSeen
    <3>2. NextSlot # XMITHeader
      BY <1>1 DEF StreamIInv, Standing
    <3>3. NextSlot \in Parts
      BY <1>1, <2>3, HeadOfPacket
    <3>4. QED
      BY <3>1, <3>2, <3>3, Constants DEF Parts, Slot, XMITHeader, XMITTrailer
  <2>4. Standing'
    <3>1. filling' = "fem" => Len(buffer) >= 2
      BY <1>1, <2>1 DEF HeaderWords
    <3>2. filling' \in {"begin", "fem"}
      BY <2>1
    <3>3. QED
      BY <2>2, <2>3, <3>1, <3>2 DEF Standing
  <2>5. Compared'
    BY <1>1, <2>2 DEF StreamIInv, Compared
  <2>6. QED
    BY <1>1, <2>1, <2>4, <2>5, SameStream
<1>4. QED
  BY <1>2, <1>3

(* Only a module that has missed a trigger is out of step.                 *)
LEMMA OutOfSyncStep ==
  ASSUME Typed, StreamIInv, OutOfSync
  PROVE  StreamIInv'
<1>1. /\ filling = "fem" /\ filling' = "thrown"
      /\ UNCHANGED <<link, event, frame, DMABuffer_, buffer, current_event, current_framenum, made_of>>
  BY DEF OutOfSync, crate, transfer, checks
<1> DEFINE p == buffer[1].p
<1>2. /\ buffer # <<>> /\ NextSlot \in Slot /\ Value(buffer[1]) = FFFF /\ Headers = {p}
  BY <1>1, AtModule
<1>3. /\ desyncCrash
      /\ current_event \notin {-1, EventNum(p)} \/ current_framenum \notin {-1, FrameNum(p)}
  BY <1>2 DEF OutOfSync
<1>4. /\ p = Stream[1].p /\ NextSlot = p.slot /\ NextEvent = p.event /\ p.event \in Nat /\ WellFormed(p)
  BY <1>2, HeadOfPacket
<1>5. NextSlot # 1
  BY <1>3, <1>4 DEF StreamIInv, Compared
<1>6. NextSlot \in 2 .. FEMs
  BY <1>2, <1>5, Constants DEF Slot
<1>7. current_event = p.event /\ current_framenum = FrameNum(p)
  BY <1>3, <1>4, <1>6 DEF StreamIInv, Compared
<1>8. p.slip = 1
  <2>1. p.slip \in {0, 1} /\ p.event \in Nat
    BY <1>4 DEF WellFormed, Fields
  <2>2. EventNum(p) # p.event
    BY <1>3, <1>7
  <2>3. QED
    BY <2>1, <2>2 DEF EventNum
<1>9. Stream' = Stream /\ NextSlot' = NextSlot /\ NextEvent' = NextEvent
  BY <1>1, SameNext
<1>10. Standing'
  BY <1>1, <1>2, <1>3, <1>8 DEF Standing
<1>11. Compared'
  BY <1>1, <1>9 DEF StreamIInv, Compared
<1>12. QED
  BY <1>1, <1>10, <1>11, SameStream

(* What looking at a header leaves to be compared with.                    *)
LEMMA SeenHeader ==
  ASSUME Typed, StreamIInv, NEW h, InSync(h)
  PROVE  /\ buffer # <<>> /\ h = buffer[1].p /\ h = Stream[1].p /\ Stream # <<>>
         /\ h.slot \in Slot /\ NextSlot = h.slot /\ NextEvent = h.event /\ WellFormed(h)
         /\ h.event \in Nat /\ h.event >= 1 /\ h.frame \in Nat /\ h.size \in Nat /\ h.size >= 2
         /\ h.slip \in {0, 1}
         /\ desyncCrash => /\ current_event' = EventNum(h) /\ current_framenum' = FrameNum(h)
                           /\ FEMs > 1 => h.slip = 0
<1>1. filling = "fem" /\ h \in Headers
  BY DEF InSync
<1>2. /\ buffer # <<>> /\ h = buffer[1].p /\ NextSlot \in Slot
  BY <1>1, AtModule
<1>3. /\ Stream # <<>> /\ h = Stream[1].p /\ NextSlot = h.slot /\ NextEvent = h.event /\ WellFormed(h)
      /\ h.event \in Nat /\ h.event >= 1 /\ h.frame \in Nat /\ h.size \in Nat /\ h.size >= 2
  BY <1>2, HeadOfPacket
<1>4. h.slip \in {0, 1}
  BY <1>3 DEF WellFormed, Fields
<1>5. ASSUME desyncCrash
      PROVE  /\ current_event' = EventNum(h) /\ current_framenum' = FrameNum(h)
             /\ current_event \in {-1, EventNum(h)}
  BY <1>5 DEF InSync
<1>6. ASSUME desyncCrash, FEMs > 1 PROVE h.slip = 0
  <2>1. CASE NextSlot = 1
    BY <1>2, <1>3, <1>4, <1>6, <2>1 DEF WellFormed
  <2>2. CASE NextSlot # 1
    <3>1. NextSlot \in 2 .. FEMs
      BY <1>2, <2>2, Constants DEF Slot
    <3>2. current_event = h.event
      BY <1>3, <1>6, <3>1 DEF StreamIInv, Compared
    <3>3. EventNum(h) = h.event
      BY <1>3, <1>5, <1>6, <3>2
    <3>4. QED
      BY <1>3, <1>4, <3>3 DEF EventNum
  <2>3. QED
    BY <2>1, <2>2
<1>7. QED
  BY <1>2, <1>3, <1>4, <1>5, <1>6

LEMMA NotEnoughStep ==
  ASSUME Typed, StreamIInv, NEW h, NotEnough(h)
  PROVE  StreamIInv'
<1>1. /\ InSync(h) /\ filling' = "begin"
      /\ UNCHANGED <<link, event, frame, DMABuffer_, buffer, made_of>>
  BY DEF NotEnough, crate, transfer
<1>2. /\ h = Stream[1].p /\ NextSlot = h.slot /\ NextEvent = h.event /\ h.event \in Nat
      /\ h.slip \in {0, 1}
      /\ desyncCrash => /\ current_event' = EventNum(h) /\ current_framenum' = FrameNum(h)
                        /\ FEMs > 1 => h.slip = 0
  BY <1>1, SeenHeader
<1>3. Stream' = Stream /\ NextSlot' = NextSlot /\ NextEvent' = NextEvent
  BY <1>1, SameNext
<1>4. Standing'
  BY <1>1 DEF Standing
<1>5. Compared'
  <2> SUFFICES ASSUME desyncCrash
               PROVE  /\ current_event' = EventNum(h) /\ current_framenum' = FrameNum(h)
                      /\ NextSlot \in 2 .. FEMs => current_event' = NextEvent
    BY <1>2, <1>3 DEF Compared
  <2>1. ASSUME NextSlot \in 2 .. FEMs PROVE EventNum(h) = NextEvent
    <3>1. FEMs > 1
      BY <2>1, Constants
    <3>2. QED
      BY <1>2, <3>1 DEF EventNum
  <2>2. QED
    BY <1>2, <2>1
<1>6. QED
  BY <1>1, <1>4, <1>5, SameStream

(* A fragment is the packet that was next, and its frame is corrected.     *)
LEMMA FragmentTaken ==
  ASSUME Typed, StreamIInv, NEW h, FillFragment(h)
  PROVE  /\ InOrder(Stream)' /\ UpToDate'
         /\ NextSlot' = h.slot + 1 /\ NextEvent' = h.event /\ Stream' # <<>> /\ Stream'[1].p.frame = h.frame
         /\ Len(frag') = h.size /\ \A k \in DOMAIN frag' : frag'[k].p = h
         /\ frag'[1].p = h
         /\ FramesOf(h.slot)' = h.frame /\ metadata_' = [event |-> EventNum(h), frame |-> h.frame]
         /\ \A t \in Slot : t # h.slot => FramesOf(t)' = FramesOf(t)
<1>1. /\ InSync(h) /\ filling = "fem" /\ Len(buffer) >= Needed(h.count)
      /\ UNCHANGED <<link, event, frame, DMABuffer_>>
      /\ frag' = SubSeq(buffer, 1, expected_size(h))
      /\ buffer' = SubSeq(buffer, expected_size(h) + 1, Len(buffer))
      /\ buffer \in Seq(Word) /\ Len(buffer) \in Nat
  BY DEF FillFragment, InSync, crate, transfer, Typed, WordsTyped
<1>2. /\ buffer # <<>> /\ h = buffer[1].p /\ h = Stream[1].p /\ Stream # <<>>
      /\ h.slot \in Slot /\ NextSlot = h.slot /\ NextEvent = h.event
      /\ h.event \in Nat /\ h.event >= 1 /\ h.frame \in Nat /\ h.size \in Nat /\ h.size >= 2
  BY <1>1, SeenHeader
<1>3. /\ expected_size(h) = h.size /\ h.size \in 1 .. Len(buffer)
      /\ \A k \in 1 .. h.size : buffer[k].p = h
  <2>1. Len(buffer) >= Needed(buffer[1].p.count)
    BY <1>1, <1>2
  <2>2. /\ expected_size(buffer[1].p) = buffer[1].p.size
        /\ buffer[1].p.size \in 1 .. Len(buffer)
        /\ \A k \in 1 .. buffer[1].p.size : buffer[k].p = buffer[1].p
    BY <1>1, <2>1, WholePacket
  <2>3. QED
    BY <1>2, <2>2
<1>4. /\ frag' = SubSeq(buffer, 1, h.size)
      /\ buffer' = SubSeq(buffer, h.size + 1, Len(buffer))
  BY <1>1, <1>3
<1>5. h.slot # XMITTrailer
  BY <1>2, Constants DEF Slot, XMITTrailer
<1>6. /\ InOrder(Stream)' /\ UpToDate'
      /\ NextSlot' = h.slot + 1 /\ NextEvent' = h.event
      /\ Stream' # <<>> /\ Stream'[1].p.frame = h.frame
  <2>1. Stream[1].p.size <= Len(buffer) /\ buffer' = SubSeq(buffer, Stream[1].p.size + 1, Len(buffer))
    BY <1>2, <1>3, <1>4
  <2>2. InOrder(Stream) /\ UpToDate
    BY DEF StreamIInv
  <2>3. Stream[1].p.slot # XMITTrailer
    BY <1>2, <1>5
  <2>4. /\ InOrder(Stream)' /\ UpToDate'
        /\ NextSlot' = Stream[1].p.slot + 1 /\ NextEvent' = Stream[1].p.event
        /\ Stream' # <<>> /\ Stream'[1].p.frame = Stream[1].p.frame
    BY <1>1, <1>2, <2>1, <2>2, <2>3, Advance
  <2>5. QED
    BY <1>2, <2>4
<1>7. Len(frag') = h.size /\ \A k \in 1 .. h.size : frag'[k].p = h
  <2>1. h.size \in 0 .. Len(buffer)
    BY <1>1, <1>3
  <2>2. Len(frag') = h.size /\ \A k \in 1 .. h.size : frag'[k] = buffer[k]
    <3> DEFINE n == h.size
               u == SubSeq(buffer, 1, n)
    <3>1. Len(u) = n /\ \A k \in 1 .. n : u[k] = buffer[k]
      <4> HIDE DEF n
      <4>1. QED
        BY <1>1, <2>1, PrefixWords DEF n
    <3>2. frag' = u
      BY <1>4
    <3> HIDE DEF u
    <3>3. QED
      BY <3>1, <3>2
  <2>3. QED
    BY <1>3, <2>2
<1>8. \A k \in DOMAIN frag' : frag'[k].p = h
  <2>1. DOMAIN frag' = 1 .. h.size
    <3>1. h.size \in 0 .. Len(buffer)
      BY <1>1, <1>3
    <3>2. frag' \in Seq(Word)
      BY <1>1, <1>4, <3>1, PrefixWords
    <3>3. QED
      BY <1>7, <3>2
  <2>2. QED
    BY <1>7, <2>1
<1>9. frag'[1].p = h
  <2>1. 1 \in 1 .. h.size
    BY <1>2
  <2>2. QED
    BY <1>7, <2>1
<1> DEFINE s == h.slot
           rolls == rollCounters[s] + (IF RolledOver(h) THEN 1 ELSE 0)
<1>10. /\ rollCounters' = [rollCounters EXCEPT ![s] = rolls]
       /\ prevFrames' = [prevFrames EXCEPT ![s] = FrameNum(h)]
       /\ metadata_' = [event |-> EventNum(h), frame |-> FrameNum(h) + rolls * FrameMod]
  BY DEF FillFragment
<1>11. rollCounters \in [Slot -> Nat] /\ prevFrames \in [Slot -> 0 .. FrameMod - 1]
  BY DEF Typed, TypeOKNevis
<1>12. /\ rollCounters'[s] = rolls /\ prevFrames'[s] = FrameNum(h)
       /\ \A t \in Slot : t # s => rollCounters'[t] = rollCounters[t] /\ prevFrames'[t] = prevFrames[t]
  BY <1>2, <1>10, <1>11
<1>13. h.frame = FrameNum(h) + rolls * FrameMod
  <2>1. rollCounters[s] \in Nat /\ prevFrames[s] \in 0 .. FrameMod - 1
    BY <1>2, <1>11
  <2>2. FramesOf(s) \in h.frame - 2 .. h.frame - 1
    <3>1. ~(s < NextSlot)
      BY <1>2 DEF Slot
    <3>2. QED
      BY <1>2, <3>1 DEF StreamIInv, Corrected
  <2>3. rollCounters[s] * FrameMod + prevFrames[s] \in h.frame - 2 .. h.frame - 1
    BY <2>2 DEF FramesOf
  <2> DEFINE a == rollCounters[s]
             b == prevFrames[s]
             f == h.frame
  <2>4. f = (f % FrameMod) + (a + (IF b > f % FrameMod THEN 1 ELSE 0)) * FrameMod
    <3>1. a \in Nat /\ b \in 0 .. FrameMod - 1 /\ f \in Nat /\ a * FrameMod + b \in f - 2 .. f - 1
      BY <1>2, <2>1, <2>3
    <3> HIDE DEF a, b, f
    <3>2. QED
      BY <3>1, Rollover
  <2>5. rolls = a + (IF b > f % FrameMod THEN 1 ELSE 0) /\ FrameNum(h) = f % FrameMod
    BY DEF RolledOver, FrameNum
  <2> HIDE DEF a, b, f, rolls
  <2>6. f = FrameNum(h) + rolls * FrameMod
    BY <2>4, <2>5
  <2>7. QED
    BY <2>6 DEF f
<1> HIDE DEF rolls
<1>14. FramesOf(s)' = h.frame
  <2>1. FramesOf(s)' = rolls * FrameMod + FrameNum(h)
    BY <1>12 DEF FramesOf
  <2>2. rolls \in Int /\ FrameNum(h) \in Int /\ FrameMod \in Int
    <3>1. rolls \in Int
      BY <1>2, <1>11 DEF rolls
    <3>2. QED
      BY <1>2, <3>1, Constants DEF FrameNum
  <2> DEFINE a == rolls * FrameMod
             b == FrameNum(h)
  <2>3. a \in Int /\ b \in Int
    BY <2>2
  <2>4. a + b = b + a
    BY <2>3
  <2>5. QED
    BY <1>13, <2>1, <2>4
<1>15. \A t \in Slot : t # s => FramesOf(t)' = FramesOf(t)
  BY <1>12 DEF FramesOf
<1>16. metadata_' = [event |-> EventNum(h), frame |-> h.frame]
  BY <1>10, <1>13
<1>17. QED
  BY <1>6, <1>7, <1>8, <1>9, <1>14, <1>15, <1>16

LEMMA FragmentStep ==
  ASSUME Typed, StreamIInv, NEW h, FillFragment(h)
  PROVE  StreamIInv'
<1>1. /\ InSync(h) /\ filling' = "begin" /\ made' = made + 1 /\ made \in Nat
  BY DEF FillFragment, Typed, TypeOKNevis
<1>2. /\ InOrder(Stream)' /\ UpToDate'
      /\ NextSlot' = h.slot + 1 /\ NextEvent' = h.event /\ Stream' # <<>> /\ Stream'[1].p.frame = h.frame
      /\ Len(frag') = h.size /\ \A k \in DOMAIN frag' : frag'[k].p = h
      /\ frag'[1].p = h
      /\ FramesOf(h.slot)' = h.frame /\ metadata_' = [event |-> EventNum(h), frame |-> h.frame]
      /\ \A t \in Slot : t # h.slot => FramesOf(t)' = FramesOf(t)
  BY FragmentTaken
<1>3. /\ buffer # <<>> /\ h = buffer[1].p /\ h = Stream[1].p /\ Stream # <<>>
      /\ h.slot \in Slot /\ NextSlot = h.slot /\ NextEvent = h.event /\ WellFormed(h)
      /\ h.event \in Nat /\ h.event >= 1 /\ h.frame \in Nat /\ h.size \in Nat /\ h.size >= 2
      /\ h.slip \in {0, 1}
      /\ desyncCrash => /\ current_event' = EventNum(h) /\ current_framenum' = FrameNum(h)
                        /\ FEMs > 1 => h.slip = 0
  BY <1>1, SeenHeader
<1>4. /\ h.slot \in Int /\ h.slot >= 1 /\ h.slot <= FEMs /\ h.slot # XMITHeader /\ h.slot + 1 # XMITHeader
      /\ FEMs \in Nat /\ h.slot + 1 - 1 = h.slot
  BY <1>3, Constants DEF Slot, XMITHeader
<1>5. made = FEMs * (h.event - 1) + (h.slot - 1)
  BY <1>3, <1>4 DEF StreamIInv, Counted
<1>6. made' = FEMs * (h.event - 1) + h.slot
  <2> DEFINE a == FEMs * (h.event - 1)
  <2>1. a \in Int /\ made = a + (h.slot - 1)
    BY <1>3, <1>4, <1>5
  <2> HIDE DEF a
  <2>2. made' = a + h.slot
    BY <1>1, <1>4, <2>1
  <2>3. QED
    BY <2>2 DEF a
<1>7. Counted'
  BY <1>2, <1>4, <1>6 DEF Counted
<1>8. Corrected'
  <2> SUFFICES ASSUME NEW t \in Slot
               PROVE  IF t < h.slot + 1 THEN FramesOf(t)' = h.frame
                      ELSE FramesOf(t)' \in h.frame - 2 .. h.frame - 1
    BY <1>2 DEF Corrected
  <2>1. CASE t = h.slot
    BY <1>2, <1>4, <2>1
  <2>2. CASE t # h.slot
    <3>1. FramesOf(t)' = FramesOf(t) /\ (t < h.slot + 1 <=> t < h.slot)
      BY <1>2, <1>4, <2>2 DEF Slot
    <3>2. QED
      BY <1>3, <3>1 DEF StreamIInv, Corrected
  <2>3. QED
    BY <2>1, <2>2
<1>9. Standing'
  BY <1>1 DEF Standing
<1>10. Compared'
  <2> SUFFICES ASSUME desyncCrash
               PROVE  /\ NextSlot' # 1
                      /\ NextSlot' \in 2 .. FEMs => /\ current_event' = h.event
                                                   /\ current_framenum' = FrameNum(Stream'[1].p)
    BY <1>2 DEF Compared
  <2>1. NextSlot' # 1
    BY <1>2, <1>4
  <2>2. ASSUME NextSlot' \in 2 .. FEMs PROVE EventNum(h) = h.event
    <3>1. FEMs > 1
      BY <1>2, <1>4, <2>2
    <3>2. QED
      BY <1>3, <3>1 DEF EventNum
  <2>3. FrameNum(Stream'[1].p) = FrameNum(h)
    BY <1>2 DEF FrameNum
  <2>4. QED
    BY <1>3, <2>1, <2>2, <2>3
<1>11. InSubrun'
  <2> SUFFICES ASSUME desyncCrash, FEMs > 1 PROVE InSubrun'
    BY DEF InSubrun
  <2> DEFINE d == EventsPerSubrun
             this == metadata_.event
             before == SubrunEvent
             event0 == IF subrun.event0 = -1 THEN this ELSE subrun.event0
  <2>1. /\ this = (IF h.slot > 1 THEN h.event ELSE h.event - 1)
        /\ before = (IF h.slot > 2 THEN h.event ELSE h.event - 1)
        /\ SubrunEvent' = this /\ NextSlot' > 1
    BY <1>2, <1>3, <1>4 DEF StreamIInv, InSubrun, SubrunEvent
  <2>2. this \in Nat /\ before \in Nat /\ this \in before .. before + 1
    <3> DEFINE e == h.event
               s == h.slot
    <3>1. /\ e \in Nat /\ e >= 1 /\ s \in Int
          /\ this = (IF s > 1 THEN e ELSE e - 1) /\ before = (IF s > 2 THEN e ELSE e - 1)
      BY <1>3, <1>4, <2>1
    <3> HIDE DEF e, s, this, before
    <3>2. QED
      BY <3>1
  <2>3. metadata_'.event = h.event
    BY <1>2, <1>3 DEF EventNum
  <2>4. subrun' = IF EndsSubrun(this, event0)
                  THEN [event0 |-> this, number |-> subrun.number + 1]
                  ELSE [subrun EXCEPT !.event0 = event0]
    BY DEF FillFragment
  <2>5. subrun \in [event0 : -1 .. MaxEvents + 1, number : Nat]
    BY DEF Typed, TypeOKNevis
  <2>6. d \in Nat /\ d >= 1
    BY Constants
  <2>7. subrun'.number = this \div d /\ subrun'.event0 = d * (this \div d)
    <3>1. CASE made = 0
      <4>1. this = 0
        <5>1. CASE h.event = 1
          <6>1. h.slot = 1
            BY <1>4, <1>5, <3>1, <5>1
          <6>2. QED
            BY <2>1, <5>1, <6>1
        <5>2. CASE h.event # 1
          <6> DEFINE k == h.event - 1
          <6>1. k \in Int /\ k # 0 /\ 0 = FEMs * k + (h.slot - 1)
            BY <1>3, <1>5, <3>1, <5>2
          <6> HIDE DEF k
          <6>2. FEMs * k > - FEMs /\ FEMs * k < FEMs
            BY <1>4, <6>1
          <6>3. FALSE
            BY <1>4, <6>1, <6>2, MultipleBetween, Constants
          <6>4. QED
            BY <6>3
        <5>3. QED
          BY <5>1, <5>2
      <4>2. subrun = [event0 |-> -1, number |-> 0]
        BY <3>1 DEF StreamIInv, InSubrun
      <4>3. event0 = 0
        BY <4>1, <4>2
      <4>4. ~EndsSubrun(this, event0)
        BY <4>1, <4>3 DEF EndsSubrun
      <4>5. subrun'.number = 0 /\ subrun'.event0 = 0
        BY <2>4, <4>2, <4>3, <4>4
      <4>6. 0 \div d = 0 /\ d * 0 = 0
        BY <2>6
      <4>7. QED
        BY <4>1, <4>5, <4>6
    <3>2. CASE made # 0
      <4>1. /\ subrun.number = before \div d
            /\ subrun.event0 = d * (before \div d)
        <5>1. made > 0
          BY <1>1, <3>2
        <5>2. QED
          BY <5>1 DEF StreamIInv, InSubrun
      <4>2. d * (before \div d) # -1
        <5>1. before \div d \in Nat
          BY <2>2, <2>6
        <5> DEFINE q == before \div d
        <5> HIDE DEF q, d
        <5>2. q \in Nat /\ d \in Nat
          BY <2>6, <5>1 DEF q
        <5>3. d * q \in Nat
          BY <5>2
        <5>4. QED
          BY <5>3 DEF q
      <4>3. event0 = d * (before \div d)
        BY <4>1, <4>2
      <4>4. /\ EndsSubrun(this, event0) => /\ (before \div d) + 1 = this \div d
                                           /\ this = d * (this \div d)
            /\ ~EndsSubrun(this, event0) => before \div d = this \div d
        <5>1. /\ EndsSubrun(this, d * (before \div d)) => /\ (before \div d) + 1 = this \div d
                                                         /\ this = d * (this \div d)
              /\ ~EndsSubrun(this, d * (before \div d)) => before \div d = this \div d
          <6> HIDE DEF this, before
          <6>1. QED
            BY <2>2, SubrunStep
        <5> HIDE DEF event0, d, this, before
        <5>2. QED
          BY <4>3, <5>1
      <4>5. CASE EndsSubrun(this, event0)
        <5>1. subrun' = [event0 |-> this, number |-> subrun.number + 1]
          BY <2>4, <4>5
        <5>2. subrun'.event0 = this /\ subrun'.number = subrun.number + 1
          BY <5>1
        <5> HIDE DEF event0, d, this, before
        <5>3. QED
          BY <4>1, <4>4, <4>5, <5>2
      <4>6. CASE ~EndsSubrun(this, event0)
        <5>1. subrun' = [subrun EXCEPT !.event0 = event0]
          BY <2>4, <4>6
        <5> HIDE DEF event0, d, this, before
        <5>2. subrun'.event0 = event0 /\ subrun'.number = subrun.number
          BY <2>5, <5>1
        <5>3. before \div d = this \div d
          BY <4>4, <4>6
        <5>4. QED
          BY <4>1, <4>3, <5>2, <5>3
      <4>7. QED
        BY <4>5, <4>6
    <3>3. QED
      BY <3>1, <3>2
  <2>8. ~(made' = 0)
    BY <1>1
  <2>9. QED
    BY <1>2, <2>1, <2>3, <2>7, <2>8 DEF InSubrun
<1>12. LastFragment'
  <2>1. metadata_'.frame = h.frame
    BY <1>2
  <2>2. QED
    BY <1>2, <1>3, <1>6, <2>1 DEF LastFragment
<1>13. QED
  BY <1>2, <1>7, <1>8, <1>9, <1>10, <1>11, <1>12 DEF StreamIInv

LEMMA NevisInit == InitNevis => NevisIInv
<1> SUFFICES ASSUME InitNevis PROVE NevisIInv
  OBVIOUS
<1>1. /\ link = <<>> /\ DMABuffer_ = <<>> /\ buffer = <<>> /\ frag = <<>> /\ event = 0 /\ frame = 0
      /\ reader = "check" /\ filling = "begin" /\ broken = FALSE /\ ending = "no"
      /\ current_event = -1 /\ current_framenum = -1 /\ made = 0
      /\ rollCounters = [s \in Slot |-> 0] /\ prevFrames = [s \in Slot |-> 0]
      /\ metadata_ = [event |-> 0, frame |-> 0] /\ subrun = [event0 |-> -1, number |-> 0]
  BY DEF InitNevis
<1>2. <<>> \in Seq(Word) /\ Len(<<>>) = 0
  OBVIOUS
<1>3. Typed
  <2>1. TypeOKNevis
    <3>1. 0 \in 0 .. MaxEvents /\ 0 \in 0 .. 2 * 0 /\ 0 <= Capacity /\ 0 \in 0 .. FrameMod - 1
          /\ -1 \in -1 .. MaxEvents + 1 /\ -1 \in -1 .. FrameMod - 1 /\ 0 \in 0 .. MaxEvents + 1
      BY Constants
    <3>2. rollCounters \in [Slot -> Nat] /\ prevFrames \in [Slot -> 0 .. FrameMod - 1]
      BY <1>1, <3>1
    <3>3. /\ metadata_ \in [event : 0 .. MaxEvents + 1, frame : Nat]
          /\ subrun \in [event0 : -1 .. MaxEvents + 1, number : Nat]
      BY <1>1, <3>1
    <3>4. QED
      BY <1>1, <1>2, <3>1, <3>2, <3>3 DEF TypeOKNevis
  <2>2. WordsTyped
    BY <1>1, <1>2 DEF WordsTyped
  <2>3. QED
    BY <2>1, <2>2 DEF Typed
<1>4. Stream = <<>>
  BY <1>1, <1>2, ConcatEmptySeq DEF Stream
<1>5. NextSlot = XMITHeader /\ NextEvent = 1
  BY <1>1, <1>4 DEF NextSlot, NextEvent
<1>6. InOrder(Stream) /\ UpToDate
  <2>1. \A j \in 1 .. Len(Stream) : FALSE
    BY <1>2, <1>4
  <2>2. \A j \in 1 .. Len(Stream) - 1 : FALSE
    BY <1>2, <1>4
  <2>3. QED
    BY <1>4, <2>1, <2>2 DEF InOrder, Whole, Consecutive, PartsOf, UpToDate
<1>7. Counted
  BY <1>1, <1>5, Constants DEF Counted
<1>8. Corrected
  BY <1>1, <1>4, Constants DEF Corrected, FramesOf
<1>9. Standing /\ Compared
  BY <1>1, <1>5 DEF Standing, Compared, XMITHeader
<1>10. InSubrun
  BY <1>1, <1>5 DEF InSubrun, XMITHeader
<1>11. LastFragment
  BY <1>1 DEF LastFragment
<1>12. QED
  BY <1>3, <1>6, <1>7, <1>8, <1>9, <1>10, <1>11 DEF NevisIInv, StreamIInv, Typed

(* Lost words stay lost.                                                   *)
LEMMA StaysBroken == Typed /\ NextNevis /\ ~broken' => ~broken
<1> SUFFICES ASSUME Typed, NextNevis, ~broken' PROVE ~broken
  OBVIOUS
<1>1. CASE SendEvent
  BY <1>1 DEF SendEvent, transfer
<1>2. CASE GetData
  BY <1>2 DEF GetData, Check, ReadChunk, TimeOut, Insert
<1>3. CASE StopBegin \/ Stop
  BY <1>3 DEF StopBegin, Stop, dmaStop, StopThread, StopJoin, transfer
<1>4. CASE GetNext
  BY <1>4 DEF GetNext, EraseXMITHeader, EraseXMITTrailer, OutOfSync, NotEnough, FillFragment, transfer
<1>5. QED
  BY <1>1, <1>2, <1>3, <1>4 DEF NextNevis

LEMMA NevisStep == NevisIInv /\ [NextNevis]_nevisVars => NevisIInv'
<1> SUFFICES ASSUME NevisIInv, [NextNevis]_nevisVars PROVE NevisIInv'
  OBVIOUS
<1>1. Typed
  BY DEF NevisIInv, Typed
<1>2. CASE UNCHANGED nevisVars
  <2>1. /\ UNCHANGED <<link, event, frame, reader, DMABuffer_, broken, ending, buffer, filling>>
        /\ UNCHANGED <<current_event, current_framenum>>
        /\ UNCHANGED <<rollCounters, prevFrames, metadata_, subrun, frag, made>>
    BY <1>2 DEF nevisVars, crate, transfer, checks, made_of
  <2>2. Typed'
    BY <1>1, <2>1 DEF Typed, TypeOKNevis, WordsTyped
  <2>3. ASSUME StreamIInv PROVE StreamIInv'
    <3>1. Stream' = Stream /\ NextSlot' = NextSlot /\ NextEvent' = NextEvent
      BY <2>1, SameNext
    <3>2. Standing' /\ Compared'
      BY <2>1, <2>3, <3>1 DEF StreamIInv, Standing, Compared
    <3>3. UNCHANGED <<link, DMABuffer_, buffer, event, frame, made_of>>
      BY <2>1 DEF made_of
    <3>4. QED
      BY <2>3, <3>2, <3>3, SameStream
  <2>4. QED
    BY <2>1, <2>2, <2>3 DEF NevisIInv, Typed
<1>3. CASE NextNevis
  <2>1. Typed'
    BY <1>1, <1>3, SendTyped, GetDataTyped, StopTyped, GetNextTyped DEF NextNevis
  <2>2. ASSUME ~broken' PROVE StreamIInv'
    <3>1. StreamIInv
      BY <1>1, <1>3, <2>2, StaysBroken DEF NevisIInv
    <3>2. CASE SendEvent
      BY <1>1, <3>1, <3>2, SendStream
    <3>3. CASE GetData
      BY <1>1, <2>2, <3>1, <3>3, GetDataStream
    <3>4. CASE StopBegin \/ Stop
      BY <1>1, <2>2, <3>1, <3>4, StopStream
    <3>5. CASE GetNext
      <4>1. CASE EraseXMITHeader
        BY <1>1, <3>1, <4>1, HeaderStep
      <4>2. CASE EraseXMITTrailer
        BY <1>1, <3>1, <4>2, TrailerStep
      <4>3. CASE OutOfSync
        BY <1>1, <3>1, <4>3, OutOfSyncStep
      <4>4. CASE \E h \in Headers : NotEnough(h) \/ FillFragment(h)
        BY <1>1, <3>1, <4>4, NotEnoughStep, FragmentStep
      <4>5. QED
        BY <3>5, <4>1, <4>2, <4>3, <4>4 DEF GetNext
    <3>6. QED
      BY <1>3, <3>2, <3>3, <3>4, <3>5 DEF NextNevis
  <2>3. QED
    BY <2>1, <2>2 DEF NevisIInv, Typed
<1>4. QED
  BY <1>2, <1>3

(* As long as no words are lost, the words between crate and FillFragment  *)
(* are whole packets in their order, and the counters, checks and subrun of*)
(* FillFragment are those of the packet it comes to next.                  *)
THEOREM NevisInvariance == SpecNevis => []NevisIInv
<1>1. InitNevis => NevisIInv
  BY NevisInit
<1>2. NevisIInv /\ [NextNevis]_nevisVars => NevisIInv'
  BY NevisStep
<1>3. QED
  BY <1>1, <1>2, PTL DEF SpecNevis

-----------------------------------------------------------------------------
(* What the run checks.                                                    *)

LEMMA WholeFragments == NevisIInv => FragmentsWhole
<1> SUFFICES ASSUME NevisIInv, ~broken, made > 0
             PROVE  LET p == frag[1].p IN
                      /\ Len(frag) = p.size /\ \A at \in DOMAIN frag : frag[at].p = p
                      /\ p.slot = ((made - 1) % FEMs) + 1 /\ p.event = (made - 1) \div FEMs + 1
  BY DEF FragmentsWhole
<1> DEFINE p == frag[1].p
           q == p.event - 1
           r == p.slot - 1
           n == made - 1
<1>1. /\ p.slot \in Slot /\ p.event \in Nat /\ made = FEMs * (p.event - 1) + p.slot /\ made \in Nat
      /\ Len(frag) = p.size /\ \A k \in DOMAIN frag : frag[k].p = p
  BY DEF NevisIInv, StreamIInv, LastFragment, TypeOKNevis
<1>2. /\ q \in Int /\ r \in 0 .. FEMs - 1 /\ n \in Int /\ p.slot = r + 1 /\ p.event = q + 1
      /\ FEMs * q \in Int
  <2>1. p.slot \in Int /\ p.slot >= 1 /\ p.slot <= FEMs /\ FEMs \in Nat
    BY <1>1, Constants DEF Slot
  <2> HIDE DEF p
  <2>2. q \in Int /\ r \in 0 .. FEMs - 1 /\ n \in Int /\ p.slot = r + 1 /\ p.event = q + 1
    <3> DEFINE e == p.event
               s == p.slot
    <3>1. e \in Nat /\ s \in Int /\ s >= 1 /\ s <= FEMs /\ FEMs \in Nat /\ made \in Nat
      BY <1>1, <2>1
    <3> HIDE DEF e, s
    <3>2. e - 1 \in Int /\ s - 1 \in 0 .. FEMs - 1 /\ made - 1 \in Int /\ s = s - 1 + 1 /\ e = e - 1 + 1
      BY <3>1
    <3>3. QED
      BY <3>2 DEF e, s
  <2> HIDE DEF q
  <2>3. FEMs * q \in Int
    BY <2>1, <2>2
  <2>4. QED
    BY <2>2, <2>3
<1>3. n = FEMs * q + r
  <2> DEFINE a == FEMs * q
  <2>1. a \in Int /\ made = a + p.slot
    BY <1>1, <1>2
  <2> HIDE DEF a, p
  <2>2. n = a + r
    BY <1>1, <1>2, <2>1
  <2>3. QED
    BY <2>2 DEF a
<1> HIDE DEF n, q, r
<1>4. n \div FEMs = q /\ n % FEMs = r
  BY <1>2, <1>3, Constants, Quotient
<1>5. QED
  BY <1>1, <1>2, <1>4 DEF n

LEMMA SubrunsRight == NevisIInv => SubrunsCounted
<1> SUFFICES ASSUME NevisIInv, ~broken, made > 1, desyncCrash, FEMs > 1
             PROVE  subrun.number = ((made - 2) \div FEMs + 1) \div EventsPerSubrun
  BY DEF SubrunsCounted
<1> DEFINE ns == NextSlot
           ne == NextEvent
           n == made - 2
<1>1. /\ subrun.number = SubrunEvent \div EventsPerSubrun
      /\ made = FEMs * (ne - 1) + (IF ns = 0 THEN 0 ELSE ns - 1) /\ made \in Nat
  BY DEF NevisIInv, StreamIInv, InSubrun, Counted, TypeOKNevis, XMITHeader
<1>2. ns \in 0 .. FEMs + 1 /\ ne \in Nat
  <2>1. CASE Stream = <<>>
    BY <2>1, Constants DEF NextSlot, NextEvent, NevisIInv, TypeOKNevis, XMITHeader
  <2>2. CASE Stream # <<>>
    <3>1. Stream \in Seq(Word)
      BY StreamShape DEF NevisIInv
    <3>2. 1 \in 1 .. Len(Stream) /\ Stream[1] \in Word
      BY <2>2, <3>1
    <3>3. InOrder(Stream)
      BY DEF NevisIInv, StreamIInv
    <3>4. QED
      BY <2>2, <3>2, <3>3, WordFields DEF NextSlot, NextEvent, InOrder, PartsOf, Parts
  <2>3. QED
    BY <2>1, <2>2
<1>3. n \in Int /\ FEMs \in Nat /\ FEMs >= 1
  BY <1>1, Constants
<1>4. SubrunEvent = IF ns > 2 THEN ne ELSE ne - 1
  BY DEF SubrunEvent
<1> HIDE DEF ns, ne
<1>5. n \div FEMs + 1 = SubrunEvent
  <2>1. CASE ns > 2
    <3> DEFINE q == ne - 1
               r == ns - 3
               a == FEMs * q
    <3>1. a \in Int /\ q \in Int /\ r \in 0 .. FEMs - 1 /\ made = a + (ns - 1) /\ q + 1 = ne
      BY <1>1, <1>2, <1>3, <2>1
    <3> HIDE DEF a, q
    <3>2. n = a + r
      BY <1>1, <1>2, <3>1
    <3> HIDE DEF r, n
    <3>3. n \div FEMs = q
      BY <1>3, <3>1, <3>2, Quotient DEF a
    <3>4. QED
      BY <1>4, <2>1, <3>1, <3>3
  <2>2. CASE ~(ns > 2)
    <3> DEFINE q == ne - 2
               r == (IF ns = 2 THEN 1 ELSE 0) + FEMs - 2
               a == FEMs * q
    <3>1. FEMs * (ne - 1) = a + FEMs
      BY <1>2, <1>3
    <3>2. a \in Int /\ q \in Int /\ r \in 0 .. FEMs - 1 /\ q + 1 = ne - 1
      BY <1>2, <1>3
    <3>3. made = a + FEMs + (IF ns = 2 THEN 1 ELSE 0)
      <4> DEFINE b == FEMs * (ne - 1)
      <4> HIDE DEF a, b
      <4>1. made = b + (IF ns = 0 THEN 0 ELSE ns - 1) /\ b = a + FEMs
        BY <1>1, <3>1 DEF b
      <4>2. QED
        BY <1>2, <1>3, <2>2, <3>2, <4>1
    <3> HIDE DEF a, q
    <3>4. n = a + r
      BY <1>1, <1>2, <1>3, <3>2, <3>3
    <3> HIDE DEF r, n
    <3>5. n \div FEMs = q
      BY <1>3, <3>2, <3>4, Quotient DEF a
    <3>6. QED
      BY <1>4, <2>2, <3>2, <3>5
  <2>3. QED
    BY <2>1, <2>2
<1>6. QED
  BY <1>1, <1>5

(* Every fragment is a whole packet of the module and event whose turn it  *)
(* is, a module that missed a trigger stops the run, and subruns are       *)
(* counted, for every number of modules, size of the buffer and of a       *)
(* transfer, and however far off the word counts are within their room.    *)
THEOREM PacketsInOrder == SpecNevis => []InvNevis
<1>1. NevisIInv => DesyncStops
  BY DEF NevisIInv, StreamIInv, Standing, LastFragment, DesyncStops
<1>2. NevisIInv => InvNevis
  BY <1>1, WholeFragments, SubrunsRight DEF InvNevis, NevisIInv
<1>3. QED
  BY <1>2, NevisInvariance, PTL

(* The corrected frame is the number of frames since the start of the run, *)
(* for every period of the counter of the modules longer than two frames.  *)
THEOREM FramesCorrected == SpecNevis => []FramesTrue
<1>1. NevisIInv => FramesTrue
  BY DEF NevisIInv, StreamIInv, LastFragment, FramesTrue
<1>2. QED
  BY <1>1, NevisInvariance, PTL
============================================================================
