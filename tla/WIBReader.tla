------------------------------ MODULE WIBReader ------------------------------
(***************************************************************************)
(* Generators/SBND/WIBReader_generator.cc: the readers that configure the  *)
(* warm interface boards of the SBND TPC, each a process with a board of   *)
(* its own.  The processes of a host take turns with two named semaphores, *)
(* yld and lck, which outlive them.  A reader works only while it is       *)
(* constructed: it takes the semaphores, configures the board with up to   *)
(* four front-end boards (FEMBs) in several tries, and gives the           *)
(* semaphores back, unless it needs the board for calibration later.       *)
(*                                                                         *)
(* Modelled with use_semaphores and without the old configuration and the  *)
(* fake data modes of the board itself.                                    *)
(***************************************************************************)
EXTENDS Naturals, FiniteSets

CONSTANTS
  Reader,               \* the processes of one host
  FEMBs,                \* number of FEMBs of a board
  EnabledFEMBs,         \* enable_FEMBs
  configuration_tries,
  ScanTries,            \* of FEMB_DETECT_ALL
  DetectTries,          \* of FEMB_DECTECT_V2
  MaxProcesses          \* bound: times a reader is constructed

ASSUME WIBAssumption ==
  /\ IsFiniteSet(Reader)
  /\ FEMBs \in Nat /\ EnabledFEMBs \subseteq 1 .. FEMBs
  /\ {configuration_tries, ScanTries, DetectTries, MaxProcesses} \subseteq Nat \ {0}

VARIABLES
  sem,         \* the value of each semaphore
  open,        \* readers: the semaphores they have open (the pointers)
  held,        \* readers: the semaphores they have acquired
  gaveUp,      \* some reader has given up acquiring them
  leaked,      \* readers that ended without giving them back
  pc,          \* readers: where they are
  processes,   \* readers: how often they were constructed
  wib,         \* readers: connected to their board
  iTry,        \* readers: try of the configuration
  i,           \* readers: try of the detection in progress, from 0
  iFEMB,       \* readers: the FEMB being set up
  femb,        \* boards: state of each FEMB
  mapMode,     \* boards: the FEMBs send channel numbers instead of data
  calibration_mode, do_femb_scan, do_err_chk   \* the configuration

semaphores == <<sem, open, held, gaveUp, leaked>>
setup == <<wib, iTry, i, iFEMB>>
board == <<femb, mapMode>>
flags == <<calibration_mode, do_femb_scan, do_err_chk>>
vars == <<semaphores, pc, processes, setup, board, flags>>

Sem == {"yld", "lck"}
FEMB == 1 .. FEMBs

Init ==
  /\ sem = [s \in Sem |-> 1]
  /\ open = [r \in Reader |-> {}] /\ held = [r \in Reader |-> {}]
  /\ gaveUp = FALSE /\ leaked = 0
  /\ pc = [r \in Reader |-> "down"] /\ processes = [r \in Reader |-> 0]
  /\ wib = [r \in Reader |-> FALSE]
  /\ iTry = [r \in Reader |-> 1] /\ i = [r \in Reader |-> 0] /\ iFEMB = [r \in Reader |-> 1]
  /\ femb = [r \in Reader |-> [f \in FEMB |-> "off"]]
  /\ mapMode = [r \in Reader |-> FALSE]
  /\ calibration_mode \in BOOLEAN /\ do_femb_scan \in BOOLEAN /\ do_err_chk \in BOOLEAN

Set(fn, r, v) == [fn EXCEPT ![r] = v]
Goto(r, from, to) == pc[r] = from /\ pc' = Set(pc, r, to)

-----------------------------------------------------------------------------
(* The semaphores.                                                         *)

Construct(r) ==
  /\ pc[r] \in {"down", "failed"}
  /\ processes[r] < MaxProcesses
  /\ processes' = Set(processes, r, processes[r] + 1)
  /\ pc' = Set(pc, r, "open")
  /\ UNCHANGED <<semaphores, setup, board, flags>>

(* Either semaphore may not be created.                                    *)
OpenSemaphores(r) ==
  /\ pc[r] = "open"
  /\ \E opened \in SUBSET Sem :
       /\ open' = Set(open, r, opened)
       /\ pc' = Set(pc, r, IF opened = Sem THEN "yld" ELSE "giveUp")
       /\ gaveUp' = (gaveUp \/ opened # Sem)
  /\ UNCHANGED <<sem, held, leaked, processes, setup, board, flags>>

(* sem_timedwait on yld, then on lck.                                      *)
Acquire(r, s) ==
  /\ Goto(r, s, IF s = "yld" THEN "lck" ELSE "setup")
  /\ sem[s] > 0
  /\ sem' = [sem EXCEPT ![s] = @ - 1]
  /\ held' = Set(held, r, held[r] \cup {s})
  /\ UNCHANGED <<open, gaveUp, leaked, processes, setup, board, flags>>

WaitFails(r, s) ==
  /\ Goto(r, s, "giveUp")
  /\ gaveUp' = TRUE
  /\ UNCHANGED <<sem, open, held, leaked, processes, setup, board, flags>>

Releasing == {"release", "shutdown", "giveUp"}

(* Mutant: lck is given back first and yld is forgotten.                   *)
Post_OnlyOne(r) ==
  /\ pc[r] \in Releasing
  /\ open[r] # {}
  /\ sem' = [sem EXCEPT !["lck"] = @ + 1]
  /\ open' = Set(open, r, {})
  /\ held' = Set(held, r, {})
  /\ UNCHANGED <<gaveUp, leaked, pc, processes, setup, board, flags>>

(* releaseSemaphores() posts every semaphore that is open, whether it was  *)
(* acquired or not: yld, then lck.                                         *)
Post(r) ==
  LET s == IF "yld" \in open[r] THEN "yld" ELSE "lck"
  IN  /\ pc[r] \in Releasing
      /\ open[r] # {}
      /\ sem' = [sem EXCEPT ![s] = @ + 1]
      /\ open' = Set(open, r, open[r] \ {s})
      /\ held' = Set(held, r, held[r] \ {s})
      /\ UNCHANGED <<gaveUp, leaked, pc, processes, setup, board, flags>>

(* Given back after giving up, they leave an exception in the constructor. *)
Released(r) ==
  /\ open[r] = {}
  /\ \/ Goto(r, "release", "ready")
     \/ Goto(r, "shutdown", "down")
     \/ Goto(r, "giveUp", "failed")
  /\ UNCHANGED <<semaphores, processes, setup, board, flags>>

-----------------------------------------------------------------------------
(* setupWIB().  Any step may throw.  Only an exception of the connection   *)
(* or of the timing leads to another try; every other one leaves the       *)
(* constructor.  Then the destructor does not run: the connection closes,  *)
(* the semaphores keep their values.                                       *)

InSetup == {"setup", "detectAll", "femb", "detect", "configure", "sync", "links", "resync"}

NewTry(r, n) ==
  /\ iTry' = Set(iTry, r, n)
  /\ i' = Set(i, r, 0) /\ iFEMB' = Set(iFEMB, r, 1)

Fail(r) ==
  /\ pc' = Set(pc, r, "failed")
  /\ wib' = Set(wib, r, FALSE)
  /\ open' = Set(open, r, {}) /\ held' = Set(held, r, {})
  /\ leaked' = leaked + 1
  /\ NewTry(r, 1)
  /\ UNCHANGED <<sem, gaveUp, processes, board, flags>>

Throws(r) == pc[r] \in InSetup /\ Fail(r)

(* Mutant: a failed try is not counted.                                    *)
CommunicationError_NotCounted(r) ==
  /\ pc[r] \in InSetup
  /\ pc' = Set(pc, r, "setup")
  /\ UNCHANGED <<semaphores, processes, setup, board, flags>>

CommunicationError(r) ==
  /\ pc[r] \in InSetup
  /\ \/ /\ iTry[r] < configuration_tries
        /\ NewTry(r, iTry[r] + 1)
        /\ pc' = Set(pc, r, "setup")
        /\ UNCHANGED <<semaphores, processes, wib, board, flags>>
     \/ iTry[r] = configuration_tries /\ Fail(r)

(* Connect, WIBs_SCAN; with do_femb_scan the enabled FEMBs are powered.    *)
Connect(r) ==
  /\ Goto(r, "setup", IF do_femb_scan THEN "detectAll" ELSE "femb")
  /\ wib' = Set(wib, r, TRUE)
  /\ femb' = IF do_femb_scan
             THEN Set(femb, r, [f \in FEMB |-> IF f \in EnabledFEMBs THEN "on" ELSE "off"])
             ELSE femb
  /\ UNCHANGED <<semaphores, processes, iTry, i, iFEMB, mapMode, flags>>

(* One more look, or an exception that ends the construction.              *)
LookAgain(r, tries) ==
  \/ /\ i[r] < tries - 1
     /\ i' = Set(i, r, i[r] + 1)
     /\ UNCHANGED <<semaphores, pc, processes, wib, iTry, iFEMB, board, flags>>
  \/ i[r] >= tries - 1 /\ Fail(r)

(* FEMB_DETECT_ALL: links, currents and versions of all of them at once;   *)
(* afterwards their power is switched off again.                           *)
DetectAll(r) ==
  \/ /\ Goto(r, "detectAll", "femb")
     /\ femb' = Set(femb, r, [f \in FEMB |-> "off"])
     /\ i' = Set(i, r, 0)
     /\ UNCHANGED <<semaphores, processes, wib, iTry, iFEMB, mapMode, flags>>
  \/ pc[r] = "detectAll" /\ LookAgain(r, ScanTries)

SetupFEMB(r) ==
  /\ iFEMB[r] \in EnabledFEMBs
  /\ Goto(r, "femb", "detect")
  /\ femb' = [femb EXCEPT ![r][iFEMB[r]] = "on"]
  /\ UNCHANGED <<semaphores, processes, setup, mapMode, flags>>

(* A FEMB that is not enabled sends fake data, or is left alone.           *)
SkipFEMB(r) ==
  /\ iFEMB[r] \in FEMB \ EnabledFEMBs
  /\ Goto(r, "femb", "femb")
  /\ iFEMB' = Set(iFEMB, r, iFEMB[r] + 1)
  /\ UNCHANGED <<semaphores, processes, wib, iTry, i, board, flags>>

(* Mutant: the last look falls out of the loop without an exception.       *)
DetectFEMB_FallsThrough(r) ==
  \/ /\ Goto(r, "detect", "configure")
     /\ femb' = [femb EXCEPT ![r][iFEMB[r]] = "detected"]
     /\ i' = Set(i, r, 0)
     /\ UNCHANGED <<semaphores, processes, wib, iTry, iFEMB, mapMode, flags>>
  \/ /\ Goto(r, "detect", "configure")
     /\ i[r] = DetectTries - 1
     /\ i' = Set(i, r, 0)
     /\ UNCHANGED <<semaphores, processes, wib, iTry, iFEMB, board, flags>>
  \/ /\ pc[r] = "detect"
     /\ i[r] < DetectTries - 1
     /\ i' = Set(i, r, i[r] + 1)
     /\ UNCHANGED <<semaphores, pc, processes, wib, iTry, iFEMB, board, flags>>

(* FEMB_DECTECT_V2: the same for one of them.                              *)
DetectFEMB(r) ==
  \/ /\ Goto(r, "detect", "configure")
     /\ femb' = [femb EXCEPT ![r][iFEMB[r]] = "detected"]
     /\ i' = Set(i, r, 0)
     /\ UNCHANGED <<semaphores, processes, wib, iTry, iFEMB, mapMode, flags>>
  \/ pc[r] = "detect" /\ LookAgain(r, DetectTries)

(* TST_CE_CHK_CFG configures whatever is there.                            *)
ConfigureFEMB(r) ==
  /\ Goto(r, "configure", "femb")
  /\ femb' = [femb EXCEPT ![r][iFEMB[r]] = IF @ = "detected" THEN "configured" ELSE "unsure"]
  /\ iFEMB' = Set(iFEMB, r, iFEMB[r] + 1)
  /\ UNCHANGED <<semaphores, processes, wib, iTry, i, mapMode, flags>>

FEMBsDone(r) ==
  /\ iFEMB[r] > FEMBs
  /\ Goto(r, "femb", IF do_err_chk THEN "sync" ELSE "done")
  /\ UNCHANGED <<semaphores, processes, setup, board, flags>>

(* Do_Err_Check: the FEMBs send channel numbers until the links of the     *)
(* enabled ones, and of no other, are good, however often that takes.      *)
Sync(r) ==
  /\ Goto(r, "sync", "links")
  /\ mapMode' = Set(mapMode, r, TRUE)
  /\ UNCHANGED <<semaphores, processes, setup, femb, flags>>

LinksGood(r) ==
  /\ Goto(r, "links", "done")
  /\ mapMode' = Set(mapMode, r, FALSE)
  /\ UNCHANGED <<semaphores, processes, setup, femb, flags>>

LinksBad(r) ==
  /\ Goto(r, "links", "resync") \/ Goto(r, "resync", "links")
  /\ UNCHANGED <<semaphores, processes, setup, board, flags>>

Do_Err_Check(r) == Sync(r) \/ LinksGood(r) \/ LinksBad(r)

-----------------------------------------------------------------------------
(* Without calibration the constructor ends by closing the connection and  *)
(* giving the semaphores back; the destructor does so in any case.         *)
Constructed(r) ==
  /\ Goto(r, "done", IF calibration_mode THEN "ready" ELSE "release")
  /\ wib' = Set(wib, r, calibration_mode)
  /\ NewTry(r, 1)
  /\ UNCHANGED <<semaphores, processes, board, flags>>

Destruct(r) ==
  /\ Goto(r, "ready", "shutdown")
  /\ wib' = Set(wib, r, FALSE)
  /\ UNCHANGED <<semaphores, processes, iTry, i, iFEMB, board, flags>>

setupWIB(r) ==
  \/ Throws(r) \/ CommunicationError(r)
  \/ Connect(r) \/ DetectAll(r) \/ SetupFEMB(r) \/ SkipFEMB(r)
  \/ DetectFEMB(r) \/ ConfigureFEMB(r) \/ FEMBsDone(r) \/ Do_Err_Check(r)

acquireSemaphores(r) ==
  OpenSemaphores(r) \/ \E s \in Sem : Acquire(r, s) \/ WaitFails(r, s)

Step(r) ==
  acquireSemaphores(r) \/ setupWIB(r) \/ Constructed(r) \/ Post(r) \/ Released(r)

Next == \E r \in Reader : Construct(r) \/ Step(r) \/ Destruct(r)

(* A process that is in its constructor or destructor goes on.             *)
Spec == Init /\ [][Next]_vars /\ \A r \in Reader : WF_vars(Step(r))

-----------------------------------------------------------------------------
(* PROPERTIES                                                              *)

TypeOK ==
  /\ sem \in [Sem -> Nat] /\ gaveUp \in BOOLEAN /\ leaked \in Nat
  /\ open \in [Reader -> SUBSET Sem] /\ held \in [Reader -> SUBSET Sem]
  /\ pc \in [Reader -> InSetup \cup Releasing \cup
                       {"down", "open", "yld", "lck", "done", "ready", "failed"}]
  /\ processes \in [Reader -> 0 .. MaxProcesses] /\ wib \in [Reader -> BOOLEAN]
  /\ iTry \in [Reader -> 1 .. configuration_tries]
  /\ i \in [Reader -> Nat] /\ iFEMB \in [Reader -> 1 .. FEMBs + 1]
  /\ femb \in [Reader -> [FEMB -> {"off", "on", "detected", "configured", "unsure"}]]
  /\ mapMode \in [Reader -> BOOLEAN]
  /\ {calibration_mode, do_femb_scan, do_err_chk} \subseteq BOOLEAN

(* Only one process of the host is connected to its board, also across     *)
(* retries, failed constructions and destructors: as long as no reader has *)
(* given up, which posts semaphores it never acquired (lines 2109-2137).   *)
OneConfigures == ~gaveUp => Cardinality({r \in Reader : wib[r]}) <= 1

(* Until then no acquisition is lost or given back twice, although in      *)
(* calibration the constructor acquires and the destructor gives back, and *)
(* otherwise both give back; a failed construction keeps both for good.    *)
SemaphoresBalanced ==
  ~gaveUp => \A s \in Sem : sem[s] + Cardinality({r \in Reader : s \in held[r]}) + leaked = 1

(* A reader that is constructed leaves every enabled FEMB powered, found   *)
(* healthy since, configured and sending data, whatever tries it took, and *)
(* has the connection that start() and stop() ask for (lines 2028, 2049).  *)
ConfiguredWhenReady ==
  \A r \in Reader : pc[r] \in {"done", "ready"} =>
    /\ \A f \in EnabledFEMBs : femb[r][f] = "configured"
    /\ ~mapMode[r]
    /\ calibration_mode => wib[r]

(* The constructor returns or throws, however often communication fails;   *)
(* it can only stay for good with links that are never good (line 1887).   *)
ConstructorReturns ==
  \A r \in Reader : pc[r] = "open" ~> pc[r] \in {"ready", "failed", "links", "resync"}

(* What the semaphores are for.                                            *)
Inv == TypeOK /\ OneConfigures /\ SemaphoresBalanced
=============================================================================
