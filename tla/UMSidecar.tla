------------------------------ MODULE UMSidecar ------------------------------
(***************************************************************************)
(* The two ways in which a machine waits for completions: in io_uring, as  *)
(* in UMMachine, or in sidecar mode, where a second thread waits in        *)
(* io_uring and signals the machine's thread through a futex word          *)
(* (um_sidecar.c).  The rest of the machine is that of UMMachine.          *)
(***************************************************************************)
EXTENDS UMMachine

VARIABLES
  sidecar_mode,    \* machine->sidecar_mode
  sidecar_signal,  \* *machine->sidecar_signal
  waiter,          \* where the machine's thread is in xchg_futex_wait
  expected,        \* its newval
  sidecar,         \* where the sidecar thread is
  observed         \* newval of xchg_futex_wake

waiterVars  == <<waiter, expected>>
sidecarVars == <<sidecar_mode, sidecar_signal, waiterVars, sidecar, observed>>
allVars     == <<vars, sidecarVars>>

SidecarInit ==
  /\ Init
  /\ sidecar_mode \in BOOLEAN
  /\ sidecar_signal = 0
  /\ waiter = "away" /\ expected = 1
  /\ sidecar = IF sidecar_mode THEN "enter" ELSE "none"
  /\ observed = 0

-----------------------------------------------------------------------------
(* The machine's thread.                                                   *)

\* um_process_ready_cqes follows the wait, whatever ended it
AfterWait == IF SomeCqeReady THEN "drain" ELSE "switch"

SubmitWithGvl ==
  IF ops_unsubmitted > 0
  THEN Submit /\ ops_unsubmitted' = 0
  ELSE UNCHANGED <<ring, stopping, sqVars>>

\* in test mode the machine does not wait: the signal is left alone
PollWithSidecar ==
  /\ sidecar_mode /\ mode = "switch" /\ shifted = NoOp
  /\ runqueue # <<>> /\ Polls(Head(runqueue))
  /\ shifted' = Head(runqueue)
  /\ runqueue' = Tail(runqueue)
  /\ SubmitWithGvl
  /\ mode' = AfterWait
  /\ UNCHANGED <<op, freelist, transient, ops_pending, more, nops, fiberVars, cur,
                 ext, lost, sidecarVars>>

\* A failed compare-and-exchange stores the word's value in newval, which is
\* then what the next one expects.
Taken == sidecar_signal = expected

TakeSignal  == sidecar_signal' = 0 /\ waiter' = "away" /\ expected' = 1
MissSignal  == waiter' = "waits" /\ expected' = sidecar_signal /\ UNCHANGED sidecar_signal

\* the first attempt is made with the GVL held
WaitForSignal ==
  /\ sidecar_mode /\ mode = "switch" /\ shifted = NoOp /\ runqueue = <<>>
  /\ SubmitWithGvl
  /\ \/ Taken /\ TakeSignal /\ mode' = AfterWait
     \/ ~Taken /\ MissSignal /\ mode' = "wait"
  /\ UNCHANGED <<op, freelist, machineVars, more, nops, fiberVars, cur, ext, lost,
                 sidecar_mode, sidecar, observed>>

\* mutant: the thread sleeps without a look at the word
FutexWaitBlindly ==
  /\ waiter = "waits"
  /\ waiter' = "asleep"
  /\ UNCHANGED <<vars, sidecar_mode, sidecar_signal, expected, sidecar, observed>>

FutexWait ==
  /\ waiter = "waits"
  /\ waiter' = IF sidecar_signal = 0 THEN "asleep" ELSE "awake"
  /\ UNCHANGED <<vars, sidecar_mode, sidecar_signal, expected, sidecar, observed>>

\* a signal, or Ruby that interrupts the thread, ends the sleep (-EINTR)
FutexInterrupted ==
  /\ waiter = "asleep"
  /\ waiter' = "awake"
  /\ UNCHANGED <<vars, sidecar_mode, sidecar_signal, expected, sidecar, observed>>

WaitAgain ==
  /\ waiter = "awake"
  /\ \/ Taken /\ TakeSignal /\ EndWait(AfterWait)
     \/ ~Taken /\ MissSignal /\ UNCHANGED vars
  /\ UNCHANGED <<sidecar_mode, sidecar, observed>>

-----------------------------------------------------------------------------
(* The sidecar thread.                                                     *)

\* The kernel sees that CQEs are consumed when all of a batch are processed.
EnterReturns ==
  /\ sidecar = "enter"
  /\ SomeCqeReady \/ mode = "drain"
  /\ sidecar' = "wake" /\ observed' = 0
  /\ UNCHANGED <<vars, sidecar_mode, sidecar_signal, waiterVars>>

\* With newval overwritten, the second attempt succeeds while the word is still 1.
SetSignal ==
  /\ sidecar = "wake"
  /\ IF sidecar_signal = observed
     THEN sidecar_signal' = 1 /\ sidecar' = "notify" /\ observed' = 0
     ELSE observed' = sidecar_signal /\ UNCHANGED <<sidecar_signal, sidecar>>
  /\ UNCHANGED <<vars, sidecar_mode, waiterVars>>

FutexWake ==
  /\ sidecar = "notify"
  /\ sidecar' = "enter"
  /\ waiter' = IF waiter = "asleep" THEN "awake" ELSE waiter
  /\ UNCHANGED <<vars, sidecar_mode, sidecar_signal, expected, observed>>

Sidecar == EnterReturns \/ SetSignal \/ FutexWake

-----------------------------------------------------------------------------

RunOrDrain == Switch \/ SwitchShifted \/ EndDrain \/ ProcessNop \/ \E o \in Ops : Process(o)

WaitInRing == ~sidecar_mode /\ (EnterWait \/ WaitReturns \/ PollReturns)

BothLoops == \/ (RunOrDrain \/ WaitInRing) /\ UNCHANGED sidecarVars
             \/ PollWithSidecar \/ WaitForSignal \/ FutexWait \/ WaitAgain

Interrupted == \/ ~sidecar_mode /\ WaitInterrupted /\ UNCHANGED sidecarVars
               \/ FutexInterrupted

CallOrContinue(f) == (Call(f) \/ Continue(f)) /\ UNCHANGED sidecarVars

SidecarNext ==
  \/ \E f \in Fibers : CallOrContinue(f)
  \/ BothLoops \/ Sidecar \/ Interrupted
  \/ (Kernel \/ OtherThread) /\ UNCHANGED sidecarVars

SidecarSpec == SidecarInit /\ [][SidecarNext]_allVars

-----------------------------------------------------------------------------
(* The word and the sleeper.                                               *)

\* xchg_futex_wait and xchg_futex_wake: while the machine's thread sleeps on a
\* signal that is set, the wake is still to come.
NoLostSignal == waiter = "asleep" /\ sidecar_signal = 1 => sidecar = "notify"

-----------------------------------------------------------------------------
(* Fairness, for the liveness of UMMachine in both modes.  Fibers run      *)
(* until they enter um_switch, the loop and the sidecar thread go on, the  *)
(* kernel completes what it was told to cancel and lets timers expire, the *)
(* other thread goes on to its wakeup.  Nothing is assumed of other I/O    *)
(* nor of signals.                                                         *)

MustComplete(o) == o \in stopping \/ op[o].kind \in {"sleep", "timeout"}

Fairness ==
  /\ \A f \in Fibers : WF_allVars(CallOrContinue(f))
  /\ WF_allVars(BothLoops)
  /\ WF_allVars(Sidecar)
  /\ \A o \in Ops : WF_allVars(MustComplete(o) /\ Complete(o) /\ UNCHANGED sidecarVars)
  /\ WF_allVars(Wakeup /\ UNCHANGED sidecarVars)

FairSpec == SidecarSpec /\ Fairness

=============================================================================
