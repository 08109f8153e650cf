----------------------------- MODULE Interrupts -----------------------------
(***************************************************************************)
(* The timer "interrupts" of threads/interrupt.c: a one-shot interval      *)
(* timer, the SIGALRM it sends, the process's signal mask, and the pairs   *)
(*       enabled = interrupts_off(); ... interrupts_set(enabled);          *)
(* that the calls of thread.c and unintr_printf nest in each other.  Each  *)
(* thread has its own stack of such pairs; a switch saves the mask with    *)
(* the context it leaves and takes on the mask of the one it resumes.      *)
(*                                                                         *)
(* Of thread.c only this is here: calls nest, a call may create a thread   *)
(* or switch to one, a thread may exit.  Module Threads takes from this    *)
(* one that the handler runs in client code only, again and again.         *)
(***************************************************************************)
EXTENDS Naturals, Sequences, SequencesExt

CONSTANTS Thread,
          MaxDepth   \* bound: how deep calls nest (cv_wait, lock_release, thread_wakeup)

ASSUME InterruptsAssumption == Thread # {} /\ MaxDepth \in Nat \ {0}

VARIABLES
  current,    \* the running thread
  state,      \* state[t]: "none", "new" before thread_stub, "live", "killed", "gone"
  frames,     \* frames[t]: the calls and the handler t is in, innermost last
  saved,      \* saved[t]: uc_sigmask of t's saved context: SIGALRM blocked?
  blocked,    \* SIGALRM is blocked in the process
  registered, \* register_interrupt_handler was called
  armed,      \* the timer runs
  pending,    \* SIGALRM was sent and not delivered
  over        \* the last thread has exited

ivars == <<current, state, frames, saved, blocked, registered, armed, pending, over>>

(* A call that will restore what interrupts_off returned, and the handler,  *)
(* whose return restores the mask of the code it interrupted.               *)
Call(enabled) == [kind |-> "call", enabled |-> enabled]
Handler(stage) == [kind |-> stage, enabled |-> TRUE]
Frame == [kind : {"call", "entered", "rearmed", "yielded"}, enabled : BOOLEAN]

Depth == Len(frames[current])
InCall == Depth > 0 /\ Last(frames[current]).kind = "call"
InHandler(stage) == Depth > 0 /\ Last(frames[current]).kind = stage
interrupts_enabled == ~blocked

(* A pending signal is delivered before the program goes on, if it can be:  *)
(* a later delivery is a later expiry of the timer.                         *)
ProgramRuns == ~over /\ ~(pending /\ ~blocked)

Push(f) == frames' = [frames EXCEPT ![current] = Append(@, f)]
ReplaceTop(f) == frames' = [frames EXCEPT ![current][Depth] = f]

IInit ==
  /\ current \in Thread
  /\ state = [t \in Thread |-> IF t = current THEN "live" ELSE "none"]
  /\ frames = [t \in Thread |-> <<>>]
  /\ saved = [t \in Thread |-> FALSE]
  /\ blocked = FALSE
  /\ registered = FALSE /\ armed = FALSE /\ pending = FALSE /\ over = FALSE

-----------------------------------------------------------------------------
(* register_interrupt_handler, once, from client code: set_interrupt.       *)
Register ==
  /\ ProgramRuns /\ ~registered /\ state[current] = "live" /\ Depth = 0
  /\ registered' = TRUE /\ armed' = TRUE
  /\ UNCHANGED <<current, state, frames, saved, blocked, pending, over>>

(* interrupts_off, on entry to a call: by client code, by another call, or  *)
(* by the thread_yield of the handler.                                      *)
InterruptsOff ==
  /\ ProgramRuns /\ state[current] = "live"
  /\ Depth = 0 \/ InCall
  /\ Depth < MaxDepth
  /\ Push(Call(interrupts_enabled))
  /\ blocked' = TRUE
  /\ UNCHANGED <<current, state, saved, registered, armed, pending, over>>

AlwaysOn(enabled) == FALSE            \* mutant: interrupts_on instead
(* The mask after interrupts_set(enabled).                                  *)
MaskAfter(enabled) == ~enabled

(* interrupts_set(enabled), as a call returns.                              *)
InterruptsSet ==
  /\ ProgramRuns /\ InCall
  /\ blocked' = MaskAfter(Last(frames[current]).enabled)
  /\ frames' = [frames EXCEPT ![current] = Front(@)]
  /\ UNCHANGED <<current, state, saved, registered, armed, pending, over>>

(* thread_create: getcontext copies the mask of the call into the context.  *)
CreateThread(t) ==
  /\ ProgramRuns /\ InCall /\ state[t] = "none"
  /\ state' = [state EXCEPT ![t] = "new"]
  /\ saved' = [saved EXCEPT ![t] = blocked]
  /\ UNCHANGED <<current, frames, blocked, registered, armed, pending, over>>

Resumable(t) == state[t] \in {"new", "live", "killed"}

(* thread_yield: getcontext in the caller, setcontext of another thread.    *)
SwitchTo(t) ==
  /\ ProgramRuns /\ InCall
  /\ t # current /\ Resumable(t)
  /\ saved' = [saved EXCEPT ![current] = blocked]
  /\ blocked' = saved[t]
  /\ current' = t
  /\ UNCHANGED <<state, frames, registered, armed, pending, over>>

StubKeepsMask == blocked              \* mutant: thread_stub without interrupts_on
(* The mask after the interrupts_on of thread_stub.                         *)
StubMask == FALSE

Stub ==
  /\ ProgramRuns /\ state[current] = "new"
  /\ state' = [state EXCEPT ![current] = "live"]
  /\ blocked' = StubMask
  /\ UNCHANGED <<current, frames, saved, registered, armed, pending, over>>

(* thread_kill: the context of t will continue in thread_exit, and what it  *)
(* was doing, calls and handler, is abandoned.                              *)
Kill(t) ==
  /\ ProgramRuns /\ InCall
  /\ t # current /\ Resumable(t)
  /\ state' = [state EXCEPT ![t] = "killed"]
  /\ frames' = [frames EXCEPT ![t] = <<>>]
  /\ UNCHANGED <<current, saved, blocked, registered, armed, pending, over>>

Exits == ProgramRuns /\ state[current] \in {"live", "killed"} /\ Depth = 0

(* thread_exit, from client code or after a kill: blocks the signal and     *)
(* switches for good, or ends the process.                                  *)
ExitTo(t) ==
  /\ Exits
  /\ t # current /\ Resumable(t)
  /\ state' = [state EXCEPT ![current] = "gone"]
  /\ blocked' = saved[t]
  /\ current' = t
  /\ UNCHANGED <<frames, saved, registered, armed, pending, over>>

(* The process ends when no other thread is ready.  One that never ran is; *)
(* the others may all be asleep.                                            *)
ExitLast ==
  /\ Exits
  /\ \A t \in Thread \ {current} : state[t] # "new"
  /\ over' = TRUE
  /\ UNCHANGED <<current, state, frames, saved, blocked, registered, armed, pending>>

-----------------------------------------------------------------------------
(* The timer expires once and is not reloaded (it_interval is 0).           *)
TimerExpires ==
  /\ armed /\ ~over
  /\ armed' = FALSE /\ pending' = TRUE
  /\ UNCHANGED <<current, state, frames, saved, blocked, registered, over>>

(* The kernel calls interrupt_handler with SIGALRM blocked, whose mask the  *)
(* frame restores; sa_mask is empty and SA_NODEFER is not set.              *)
Deliver ==
  /\ pending /\ ~blocked /\ ~over
  /\ pending' = FALSE
  /\ Push(Handler("entered"))
  /\ blocked' = TRUE
  /\ UNCHANGED <<current, state, saved, registered, armed, over>>

RearmLate == InHandler("entered") \/ InHandler("rearmed")  \* mutant
(* set_interrupt comes first, then the thread_yield.                        *)
MayYield == InHandler("rearmed")

(* interrupt_handler: set_interrupt.                                        *)
Rearm ==
  /\ ProgramRuns /\ InHandler("entered")
  /\ ReplaceTop(Handler("rearmed"))
  /\ armed' = TRUE
  /\ UNCHANGED <<current, state, saved, blocked, registered, pending, over>>

(* interrupt_handler: thread_yield, as far as its interrupts_off.           *)
HandlerYields ==
  /\ ProgramRuns /\ MayYield
  /\ frames' = [frames EXCEPT ![current] =
                  Append(Front(@), Handler("yielded")) \o <<Call(interrupts_enabled)>>]
  /\ blocked' = TRUE
  /\ UNCHANGED <<current, state, saved, registered, armed, pending, over>>

(* interrupt_handler returns: sigreturn restores the mask.                  *)
HandlerReturns ==
  /\ ProgramRuns /\ InHandler("yielded")
  /\ blocked' = ~Last(frames[current]).enabled
  /\ frames' = [frames EXCEPT ![current] = Front(@)]
  /\ UNCHANGED <<current, state, saved, registered, armed, pending, over>>

Over == over /\ UNCHANGED ivars

INext ==
  \/ Register \/ InterruptsOff \/ InterruptsSet \/ Stub \/ ExitLast \/ TimerExpires
  \/ Deliver \/ Rearm \/ HandlerYields \/ HandlerReturns \/ Over
  \/ \E t \in Thread : CreateThread(t) \/ SwitchTo(t) \/ Kill(t) \/ ExitTo(t)

(* The kernel's part and the straight-line code of the handler run; and     *)
(* each call returns in the end: thread_yield after one switch and          *)
(* lock_acquire when its turn comes.                                        *)
Returns(depth) == Depth = depth /\ (InterruptsSet \/ HandlerReturns)
IFairness ==
  /\ WF_ivars(TimerExpires) /\ WF_ivars(Deliver)
  /\ WF_ivars(Stub \/ Rearm \/ HandlerYields)
  /\ WF_ivars(state[current] = "killed" /\ (ExitLast \/ \E t \in Thread : ExitTo(t)))
  /\ \A depth \in 1 .. MaxDepth : SF_ivars(Returns(depth))

ISpec == IInit /\ [][INext]_ivars
IFairSpec == ISpec /\ IFairness

-----------------------------------------------------------------------------
ITypeOK ==
  /\ current \in Thread
  /\ state \in [Thread -> {"none", "new", "live", "killed", "gone"}]
  /\ frames \in [Thread -> Seq(Frame)]
  /\ saved \in [Thread -> BOOLEAN]
  /\ blocked \in BOOLEAN /\ registered \in BOOLEAN
  /\ armed \in BOOLEAN /\ pending \in BOOLEAN /\ over \in BOOLEAN

(* The signal is blocked exactly while the running thread is in a call, in  *)
(* the handler, not past thread_stub's interrupts_on, or killed: the        *)
(* package is never interrupted, and client code is never left with interrupts off,   *)
(* whichever threads the outer calls of a nest belong to and whatever mask  *)
(* each context was saved with.  This is what interrupts_enabled asserts    *)
(* all over test_thread.c.                                                  *)
BlockedInPackageOnly ==
  blocked <=> Depth > 0 \/ state[current] \in {"new", "killed"}

(* The handler interrupts client code only, so it is the outermost frame of *)
(* its thread, and only the outermost frame will enable interrupts again.   *)
HandlerInClientOnly ==
  \A t \in Thread : \A i \in DOMAIN frames[t] :
    i > 1 <=> frames[t][i].kind = "call" /\ ~frames[t][i].enabled

(* The package is not interrupted, client code is.                          *)
InterruptsInClientOnly == ITypeOK /\ BlockedInPackageOnly /\ HandlerInClientOnly

(* The one-shot timer is never lost nor doubled: it runs, or its signal is  *)
(* on the way, or the running thread is in the handler about to start it    *)
(* again; every handler that is switched away from has started it.          *)
TimerInOnePlace ==
  /\ registered => (armed \/ pending \/ InHandler("entered"))
  /\ ~(armed /\ pending)
  /\ InHandler("entered") => ~armed /\ ~pending
  /\ \A t \in Thread \ {current} :
       \A i \in DOMAIN frames[t] : frames[t][i].kind \in {"call", "yielded"}

(* Once registered, client code is interrupted again and again, for ever or *)
(* until the process ends, however its calls block the signal and whichever *)
(* threads they switch to.  It is the fairness that Threads assumes.        *)
InterruptsRecur == registered ~> (over \/ InHandler("entered"))
=============================================================================
