-------------------------- MODULE CAENConfiguration --------------------------
(***************************************************************************)
(* Generators/Common/CAENV1730Readout_generator.cc, Generators/SBND/       *)
(* CAENV1740Readout_generator.cc: Configure(), which the constructor calls *)
(* after a reset.  It goes through some thirty settings, several of which  *)
(* share a register: some calls write all of it, some change a part of     *)
(* what they have read back, and some go through CAEN's library.  Which    *)
(* are made at all depends on the experiment: ModeLVDS is 0 for SBND.      *)
(*                                                                         *)
(* A register is the set of the settings it holds; the register "own"      *)
(* stands for all settings that have one to themselves.  An error of the   *)
(* library is thrown and ends the configuration; a value that reads back   *)
(* differently is only logged (the board is taken to keep what it is       *)
(* told).                                                                  *)
(***************************************************************************)
EXTENDS Naturals, Sequences, SequencesExt

AfterReset == [r \in {"acq", "config", "io", "global", "out", "irq", "own"} |-> {}]

(* A call changes a part of a register.  A setting only takes effect when  *)
(* those it needs are there.                                               *)
Change(register, part, settings) ==
  <<[register |-> register, part |-> part, set |-> settings, needs |-> {}]>>
Flag(register, setting, on) == Change(register, {setting}, IF on THEN {setting} ELSE {})
Own(settings) == Change("own", {}, settings)
If(condition, calls) == IF condition THEN calls ELSE <<>>

Apply(registers, call) ==
  [registers EXCEPT ![call.register] =
     (@ \ call.part) \cup {s \in call.set : call.needs \subseteq registers["own"]}]

(* What the library does with a register of several settings (external).   *)
AcqMode(mode) == CASE mode = 0 -> {} [] mode = 1 -> {"s_in"} [] OTHER -> {"first"}
SetAcquisitionMode(mode) == Change("acq", {"s_in", "first"}, AcqMode(mode))
\* A trigger mode has a bit for acquisition and one for TRG-OUT.
SetTriggerMode(source, mode) ==
  Flag("global", source, mode \in {1, 3}) \o Flag("out", source, mode \in {2, 3})
SetIOLevel(c) == Flag("io", "TTL", c.ioLevel)
SetInterruptConfig(c) == Flag("irq", "irq", c.interruptEnable)
\* The size is a share of the record the board is set to at that moment.
SetPostTriggerSize(needs) ==
  <<[register |-> "own", part |-> {}, set |-> {"postTrigger"}, needs |-> needs]>>
-----------------------------------------------------------------------------
(* ACQ_CONTROL is written as a whole, whatever mode was set before.        *)
SetTriggerCounting ==
  Change("acq", {"s_in", "first", "counting", "memoryFull"}, {"counting", "memoryFull"})

ConfigureReadout1730(c) ==
  Own({"runSync"}) \o Flag("config", "test", c.testPattern) \o Own({"dynamicRange"})
  \o SetTriggerCounting \o Own({"offset"})

ConfigureRecordFormat1730 ==
  Own({"enableMask"}) \o Own({"recordLength"}) \o SetPostTriggerSize({"recordLength"})

(* LVDS outputs, used by ICARUS only.                                      *)
ConfigureLVDS(c) ==
  Own({"modeLVDS"})
  \o Change("io", {"output", "level"},
            (IF c.modeLVDS = 1 THEN {"output"} ELSE {}) \cup
            (IF c.trigInLevel THEN {"level"} ELSE {}))
  \o Own({"pairLogic"}) \o Own({"pulseWidth"})
  \o Flag("config", "selfTrgBit", c.selfTrgBit)

(* Only ever adds to the register; both outputs at a time abort.           *)
ConfigureClkToTrgOut(c) ==
  Change("io", {}, (IF c.outputClk THEN {"clk"} ELSE {}) \cup
                   (IF c.outputClkPhase THEN {"phase"} ELSE {}))
ClkAborts(c) == c.outputClk /\ c.outputClkPhase

ConfigureSelfTriggerMode(c) ==
  SetTriggerMode("self", c.selfTrgMode)
  \o If(c.modeLVDS = 0, Own({"pairLogic"}) \o Change("global", {}, {"majority"}))

ConfigureTrigger1730(c) ==
  SetTriggerMode("sw", c.swTrgMode) \o SetTriggerMode("ext", c.extTrgMode)
  \o Own({"threshold"}) \o If(c.modeLVDS = 0, Own({"polarity"}) \o Own({"pulseWidth"}))
  \o If(c.modeLVDS # 0, ConfigureLVDS(c))
  \o If(c.outputClk \/ c.outputClkPhase, ConfigureClkToTrgOut(c))
  \o ConfigureSelfTriggerMode(c)
  \o Flag("config", "overlap", c.allowTriggerOverlap) \o SetIOLevel(c)

(* Unlocks the engineering functions of each channel, writes back the      *)
(* calibration it has reached and sets the lock bit.                       *)
SetLockTempCalibration == Own({"lockTemp"})

ConfigureAcquisition1730(c) == SetAcquisitionMode(c.acqMode) \o Own({"analogMode"})

Configure1730(c) ==
  ConfigureReadout1730(c) \o ConfigureRecordFormat1730 \o ConfigureTrigger1730(c)
  \o ConfigureAcquisition1730(c) \o SetInterruptConfig(c)
  \o If(c.lockTempCalibration, SetLockTempCalibration)
-----------------------------------------------------------------------------
ConfigureReadout1740(c) ==
  Own({"runSync"}) \o Flag("config", "test", c.testPattern)
  \o SetTriggerCounting \o Own({"offset"})

ConfigureRecordFormat1740 ==
  Own({"enableMask"}) \o Own({"recordLength"}) \o Own({"decimation"})
  \o SetPostTriggerSize({"recordLength", "decimation"})

ConfigureTrigger1740(c) ==
  SetTriggerMode("sw", c.swTrgMode) \o SetTriggerMode("ext", c.extTrgMode)
  \o If(c.outputClk \/ c.outputClkPhase, ConfigureClkToTrgOut(c))
  \o SetTriggerMode("ext", c.extTrgMode)
  \o Flag("config", "overlap", c.allowTriggerOverlap) \o SetIOLevel(c)

(* Afterwards the register is set once more, with interrupts enabled       *)
(* whatever InterruptEnable says.                                          *)
configureInterrupts1740(c) == SetInterruptConfig(c) \o Change("irq", {"irq"}, {"irq"})

Configure1740(c) ==
  ConfigureReadout1740(c) \o ConfigureRecordFormat1740 \o ConfigureTrigger1740(c)
  \o SetAcquisitionMode(c.acqMode) \o configureInterrupts1740(c)
-----------------------------------------------------------------------------
(* PROPERTIES                                                              *)

(* Configurations: each group of settings that share a register in all its *)
(* combinations, the others all off or all on.                             *)
TriggerMode == 0 .. 3
Off == [modeLVDS |-> 0, acqMode |-> 0, swTrgMode |-> 0, extTrgMode |-> 0, selfTrgMode |-> 0,
        testPattern |-> FALSE, allowTriggerOverlap |-> FALSE, selfTrgBit |-> FALSE,
        ioLevel |-> FALSE, trigInLevel |-> FALSE, outputClk |-> FALSE,
        outputClkPhase |-> FALSE, interruptEnable |-> FALSE, lockTempCalibration |-> FALSE]
On == [modeLVDS |-> 1, acqMode |-> 1, swTrgMode |-> 3, extTrgMode |-> 3, selfTrgMode |-> 3,
       testPattern |-> TRUE, allowTriggerOverlap |-> TRUE, selfTrgBit |-> TRUE,
       ioLevel |-> TRUE, trigInLevel |-> TRUE, outputClk |-> TRUE,
       outputClkPhase |-> FALSE, interruptEnable |-> TRUE, lockTempCalibration |-> TRUE]
Settings ==
  UNION {
    {[c EXCEPT !.modeLVDS = m, !.trigInLevel = x[1], !.ioLevel = x[2], !.outputClk = x[3],
               !.outputClkPhase = x[4]] : m \in 0 .. 2, x \in [1 .. 4 -> BOOLEAN]}
    \cup {[c EXCEPT !.modeLVDS = m, !.swTrgMode = x[1], !.extTrgMode = x[2],
                    !.selfTrgMode = x[3]] : m \in 0 .. 2, x \in [1 .. 3 -> TriggerMode]}
    \cup {[c EXCEPT !.modeLVDS = m, !.testPattern = x[1], !.allowTriggerOverlap = x[2],
                    !.selfTrgBit = x[3]] : m \in 0 .. 2, x \in [1 .. 3 -> BOOLEAN]}
    \cup {[c EXCEPT !.acqMode = m, !.interruptEnable = x] : m \in 0 .. 2, x \in BOOLEAN}
    : c \in {Off, On}}

(* The registers a configuration asks for.                                 *)
Chosen(setting, on) == IF on THEN {setting} ELSE {}
Sources(c, modes) ==
  Chosen("sw", c.swTrgMode \in modes) \cup Chosen("ext", c.extTrgMode \in modes)
AskedFor(c) ==
  [acq    |-> AcqMode(c.acqMode) \cup {"counting", "memoryFull"},
   config |-> Chosen("test", c.testPattern) \cup Chosen("overlap", c.allowTriggerOverlap),
   io     |-> Chosen("TTL", c.ioLevel) \cup Chosen("clk", c.outputClk)
              \cup Chosen("phase", c.outputClkPhase),
   global |-> Sources(c, {1, 3}),
   out    |-> Sources(c, {2, 3}),
   irq    |-> Chosen("irq", c.interruptEnable),
   own    |-> {"runSync", "offset", "enableMask", "recordLength", "postTrigger"}]

AskedFor1730(c) ==
  [AskedFor(c) EXCEPT
     !.config = @ \cup Chosen("selfTrgBit", c.selfTrgBit /\ c.modeLVDS # 0),
     !.io     = @ \cup Chosen("output", c.modeLVDS = 1)
                  \cup Chosen("level", c.trigInLevel /\ c.modeLVDS # 0),
     !.global = @ \cup Chosen("self", c.selfTrgMode \in {1, 3})
                  \cup Chosen("majority", c.modeLVDS = 0),
     !.out    = @ \cup Chosen("self", c.selfTrgMode \in {2, 3}),
     !.own    = @ \cup {"dynamicRange", "threshold", "pairLogic", "pulseWidth", "analogMode"}
                  \cup Chosen("lockTemp", c.lockTempCalibration)
                  \cup Chosen("modeLVDS", c.modeLVDS # 0) \cup Chosen("polarity", c.modeLVDS = 0)]

(* A V1740 always interrupts.                                              *)
AskedFor1740(c) == [AskedFor(c) EXCEPT !.irq = {"irq"}, !.own = @ \cup {"decimation"}]

(* However the calls overwrite each other's registers, the constructor     *)
(* leaves a board with every setting the configuration asks for and no     *)
(* other, or aborts.                                                       *)
ConfiguredAsAsked ==
  \A c \in Settings :
    \/ ClkAborts(c)
    \/ /\ FoldLeft(Apply, AfterReset, Configure1730(c)) = AskedFor1730(c)
       /\ FoldLeft(Apply, AfterReset, Configure1740(c)) = AskedFor1740(c)
=============================================================================
