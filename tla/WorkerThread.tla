---------------------------- MODULE WorkerThread ----------------------------
(***************************************************************************)
(* Generators/Common/workerThread.cpp: the polling thread of every board   *)
(* reader.  start() launches run() with std::async, run() calls a functor  *)
(* until the flag _stop_running is set or the functor throws, and stop()   *)
(* sets the flag and waits.                                                *)
(*                                                                         *)
(* The controller is the generator's state-machine thread.  It starts only *)
(* when stopped, and may call stop() repeatedly, as artdaq's Stop does:    *)
(* stopNoMutex() and then stop() (BernCRT_GeneratorBase.cc:108-123).       *)
(***************************************************************************)
EXTENDS Naturals

CONSTANT MaxStopAttempts    \* max_stop_tries

ASSUME AttemptsAssumption == MaxStopAttempts \in Nat

VARIABLES
  ctl,            \* where the controller is
  started,        \* the last transition was start()
  stopRunning,    \* _stop_running
  futureValid,    \* _worker_thread_result has a shared state
  attempts,       \* availableRetryCount of the stop() in progress
  run             \* where the latest run() and the one before it are

wtVars == <<ctl, started, stopRunning, futureValid, attempts, run>>

Slot == {"latest", "previous"}
Looping == {"check", "call", "nap"}
Over == {"none", "done"}

Init ==
  /\ ctl = "idle"
  /\ started = FALSE
  /\ stopRunning = FALSE
  /\ futureValid = FALSE
  /\ attempts = 0
  /\ run = [s \in Slot |-> "none"]

-----------------------------------------------------------------------------
(* The controller.                                                         *)

(* Mutant: the flag of the last stop() stays up.                           *)
StartLaunch_FlagUp ==
  /\ ctl = "idle"
  /\ ~started
  /\ run' = [s \in Slot |-> IF s = "latest" THEN "check" ELSE run["latest"]]
  /\ ctl' = "assigning"
  /\ started' = TRUE
  /\ UNCHANGED <<stopRunning, futureValid, attempts>>

(* std::async launches the new run() first; assigning its future then      *)
(* waits for the run() of the future it replaces.                          *)
StartLaunch ==
  /\ ctl = "idle"
  /\ ~started
  /\ stopRunning' = FALSE
  /\ run' = [s \in Slot |-> IF s = "latest" THEN "check" ELSE run["latest"]]
  /\ ctl' = "assigning"
  /\ started' = TRUE
  /\ UNCHANGED <<futureValid, attempts>>

StartAssigned ==
  /\ ctl = "assigning"
  /\ futureValid => run["previous"] \in Over
  /\ futureValid' = TRUE
  /\ ctl' = "idle"
  /\ UNCHANGED <<started, stopRunning, attempts, run>>

(* stop() finds the flag set: by an earlier stop(), or by run() itself     *)
(* after the functor threw.  The future is left as it is.                  *)
StopIgnored ==
  /\ ctl = "idle"
  /\ stopRunning
  /\ started' = FALSE
  /\ UNCHANGED <<ctl, stopRunning, futureValid, attempts, run>>

(* A generator is only stopped after it was started.                       *)
StopRequest ==
  /\ ctl = "idle"
  /\ run["latest"] # "none"
  /\ ~stopRunning
  /\ stopRunning' = TRUE
  /\ attempts' = MaxStopAttempts
  /\ ctl' = "stopping"
  /\ UNCHANGED <<started, futureValid, run>>

(* wait_for(1s) timed out and another attempt is left.                     *)
StopWaitMore ==
  /\ ctl = "stopping"
  /\ run["latest"] # "done"
  /\ attempts > 0
  /\ attempts' = attempts - 1
  /\ UNCHANGED <<ctl, started, stopRunning, futureValid, run>>

(* Mutant: stop() gives up after the last attempt.                         *)
StopJoin_GivesUp ==
  /\ ctl = "stopping"
  /\ run["latest"] = "done" \/ attempts = 0
  /\ futureValid' = FALSE
  /\ attempts' = 0
  /\ started' = FALSE
  /\ ctl' = "idle"
  /\ UNCHANGED <<stopRunning, run>>

(* get() waits without limit, however many attempts have failed.           *)
StopJoin ==
  /\ ctl = "stopping"
  /\ run["latest"] = "done"
  /\ futureValid' = FALSE
  /\ attempts' = 0
  /\ started' = FALSE
  /\ ctl' = "idle"
  /\ UNCHANGED <<stopRunning, run>>

(* The implicit destructor: that of a valid future waits for its run().    *)
DestroyBegin ==
  /\ ctl = "idle"
  /\ ctl' = "destroying"
  /\ UNCHANGED <<started, stopRunning, futureValid, attempts, run>>

DestroyEnd ==
  /\ ctl = "destroying"
  /\ futureValid => run["latest"] \in Over
  /\ ctl' = "destroyed"
  /\ UNCHANGED <<started, stopRunning, futureValid, attempts, run>>

-----------------------------------------------------------------------------
(* run().                                                                  *)

Move(s, from, to) ==
  /\ run[s] = from
  /\ run' = [run EXCEPT ![s] = to]
  /\ UNCHANGED <<ctl, started, futureValid, attempts>>

RunCheck(s) ==
  /\ Move(s, "check", IF stopRunning THEN "leaving" ELSE "call")
  /\ UNCHANGED stopRunning

(* The functor returned true, or false and run() naps before it goes on.   *)
CallReturns(s) ==
  /\ Move(s, "call", "check") \/ Move(s, "call", "nap")
  /\ UNCHANGED stopRunning

NapOver(s) == Move(s, "nap", "check") /\ UNCHANGED stopRunning

(* Mutant: the handler raises the flag as well.                            *)
CallThrows_RaisesFlag(s) == Move(s, "call", "leaving") /\ stopRunning' = TRUE

(* catch (...) logs the exception outside the loop.                        *)
CallThrows(s) == Move(s, "call", "leaving") /\ UNCHANGED stopRunning

(* The last statement of run() raises the flag itself.                     *)
RunEnds(s) == Move(s, "leaving", "exiting") /\ stopRunning' = TRUE

(* The shared state of the future becomes ready.                           *)
RunExits(s) == Move(s, "exiting", "done") /\ UNCHANGED stopRunning

RunStep(s) ==
  \/ RunCheck(s) \/ CallReturns(s) \/ NapOver(s) \/ CallThrows(s)
  \/ RunEnds(s) \/ RunExits(s)

Finish == StartAssigned \/ StopWaitMore \/ StopJoin \/ DestroyEnd

Next ==
  \/ StartLaunch \/ StopIgnored \/ StopRequest \/ DestroyBegin
  \/ Finish
  \/ \E s \in Slot : RunStep(s)

(* Threads are scheduled and functor calls end; nobody has to call start() *)
(* or stop().                                                              *)
Spec ==
  /\ Init /\ [][Next]_wtVars
  /\ \A s \in Slot : WF_wtVars(RunStep(s))
  /\ WF_wtVars(Finish)

-----------------------------------------------------------------------------
(* PROPERTIES                                                              *)

TypeOK ==
  /\ ctl \in {"idle", "assigning", "stopping", "destroying", "destroyed"}
  /\ started \in BOOLEAN
  /\ stopRunning \in BOOLEAN
  /\ futureValid \in BOOLEAN
  /\ attempts \in 0 .. MaxStopAttempts
  /\ run \in [Slot -> Looping \cup Over \cup {"leaving", "exiting"}]

(* Once stop() has returned no functor call is in progress or to come, so  *)
(* the generator may switch the hardware off or reconfigure it, as         *)
(* CAENV1730Readout_generator.cc:1551-1556 does.                           *)
StopQuiesces ==
  ctl = "idle" /\ ~started => \A s \in Slot : run[s] \notin Looping \cup {"leaving"}

(* Two run() never poll the hardware at the same time, although start()    *)
(* launches the new one before it waits for the old one.                   *)
OneRunAtATime == run["previous"] \in Over \cup {"exiting"}

(* A polling thread is not shut down by the flag of an earlier one: while  *)
(* it loops the flag is down unless a stop() is in progress.  (run() also  *)
(* writes the flag, workerThread.cpp:54, so a late write of the previous   *)
(* run() would end the new one at once and silently.)                      *)
NoForeignStop == run["latest"] \in Looping /\ stopRunning => ctl = "stopping"

(* stop() never waits on a future that get() has already consumed, although*)
(* artdaq calls it twice (workerThread.cpp:24-27 is what prevents it).     *)
NoConsumedFuture == ctl = "stopping" => futureValid

(* stop() and start() return, and so does the destructor of a thread that  *)
(* was stopped: the bounded wait of stop() is followed by an unbounded     *)
(* get(), and both the assignment and the destructor of a future wait.     *)
TransitionsReturn ==
  /\ ctl \in {"assigning", "stopping"} ~> ctl = "idle"
  /\ ctl = "destroying" /\ stopRunning ~> ctl = "destroyed"

(* The threads and the variables they share are in order at every step.    *)
Inv == TypeOK /\ OneRunAtATime /\ NoConsumedFuture
=============================================================================
