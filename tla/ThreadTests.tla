----------------------------- MODULE ThreadTests -----------------------------
(***************************************************************************)
(* The test programs of threads/test_thread.c as clients of the thread     *)
(* package: what each of their threads calls, in which order, what they    *)
(* assert of the answers and what they print.  The steps of the package    *)
(* are those of Threads and Monitors; this module adds where in its        *)
(* program each thread is.  Variable test says which program runs, so one  *)
(* specification covers them all.  Between two client steps the timer may  *)
(* fire, except in test_basic, which registers no handler.                 *)
(*                                                                         *)
(* spin() takes no time here: any step may be delayed for ever so long,    *)
(* and the tests' complaints about answers that come too fast are left     *)
(* out.                                                                    *)
(***************************************************************************)
EXTENDS Monitors

CONSTANTS Tests,       \* the programs to run
          Size,        \* Size[t]: NTHREADS, the threads program t creates
          LOOPS,       \* the rounds of each of them
          PotatoCalm,  \* the potato threads above this number yield (4)
          testlock,    \* the lock
          SignalCv,    \* SignalCv[k]: testcv_signal[k]
          queue        \* testcv_broadcast, and the queue of test_wakeup

ASSUME TestsAssumption ==
  /\ Size \in [Tests -> Nat \ {0}] /\ LOOPS \in Nat \ {0} /\ PotatoCalm \in Nat
  /\ testlock \in Lock /\ queue \in CV
  /\ \A t \in Tests : \A k \in 0 .. Size[t] - 1 : SignalCv[k] \in CV
  /\ Tests \subseteq {"basic", "preemptive", "wakeup", "wakeup_all", "wait", "wait_kill",
                      "wait_parent", "lock", "cv_signal", "cv_broadcast"}
  /\ Node \subseteq Nat

VARIABLES
  test,   \* the program that runs
  th,     \* th[n]: where n is in its program, its argument num and its i
  g       \* the static variables of test_thread.c, and what was printed

testVars == <<test, th, g>>
tvars == <<allVars, test, th, g>>

NTHREADS == Size[test]
Num == 0 .. NTHREADS - 1

NoThread == [at |-> "none", num |-> 0, i |-> 0]

TInit ==
  /\ MInit
  /\ running_q = 0
  /\ test \in Tests
  /\ th = [n \in Node |-> IF n = 0 THEN [NoThread EXCEPT !.at = "start"] ELSE NoThread]
  /\ g = [child |-> [k \in Tid |-> NULL], done |-> 0, nr_sleeping |-> 0, flag |-> 0,
          testval |-> <<0, 0, 0>>, potato_lock |-> 0, potato |-> [k \in Num |-> 0],
          out |-> <<>>]

-----------------------------------------------------------------------------
(* How the programs are written down: a step of the running thread at a     *)
(* label, a call of the package, and the place where the thread goes on.    *)
Here == th[running_q]
At(l) == InUser /\ Here.at = l
To(l) == [Here EXCEPT !.at = l]
(* The end of the body, at label l, of for (i = 0; i < limit; i += by).     *)
LoopBy(by, l, limit, next) ==
  IF Here.i + by < limit THEN [To(l) EXCEPT !.i = @ + by] ELSE [To(next) EXCEPT !.i = 0]
Loop(l, limit, next) == LoopBy(1, l, limit, next)

GoOn(place) == th' = [th EXCEPT ![running_q] = place]
(* A failed assert(b) aborts the program there.                             *)
Asserting(b, call, place) ==
  IF b THEN call /\ GoOn(place) ELSE UNCHANGED allVars /\ GoOn(To("abort"))

Quiet == UNCHANGED allVars
Package(call) == call /\ UNCHANGED monitorVars

(* thread_yield(THREAD_ANY); refused, with THREAD_NONE, if nobody is ready. *)
Yielded == IF ready_q # <<>> THEN Package(YieldAny) ELSE Quiet
(* thread_yield(t); returns at once if t is the caller or not ready.        *)
YieldedTo(t) == IF status[t] = "READY" THEN Package(YieldTo(t)) ELSE Quiet
Ignored(t) == UNCHANGED allVars       \* mutant: thread_wait does not wait
(* thread_wait(t); returns at once if t is the caller or gone.              *)
WaitedFor(t) == IF Waitable(t) THEN Package(Wait(t)) ELSE Quiet
Killable(t) == t \in Tid /\ t # Me /\ status[t] # "EMPTY"

(* child[k] = thread_create(fn, arg), asserted to succeed.  malloc answers  *)
(* with the lowest free block: which one it is makes no difference.         *)
CreateChild(k, fn, arg, place) ==
  IF \A t \in Tid : status[t] # "EMPTY"
  THEN Quiet /\ GoOn(To("abort")) /\ UNCHANGED g
  ELSE \E n \in Node :
         /\ pc[n] = "free" /\ \A m \in Node : pc[m] = "free" => n <= m
         /\ Package(Create) /\ pc'[n] = "stub"
         /\ g' = [g EXCEPT !.child[k] = id'[n]]
         /\ th' = [th EXCEPT ![running_q] = place,
                             ![n] = [at |-> fn, num |-> arg, i |-> 0]]

(* for (i = 0; i < NTHREADS; i++) child[i] = thread_create(fn, i)           *)
CreateAll(fn, next) ==
  At("create") /\ CreateChild(Here.i, fn, Here.i, Loop("create", NTHREADS, next))

(* for (i = 0; i < NTHREADS; i++) thread_wait(child[i])                     *)
WaitForAll(next) ==
  /\ At("join")
  /\ WaitedFor(g.child[Here.i]) /\ GoOn(Loop("join", NTHREADS, next))
  /\ UNCHANGED g

(* mallinfo_check: what the program's threads allocated is freed.  (The     *)
(* code forgives two stacks; the model forgives none.)                      *)
MallinfoCheck(next) ==
  /\ At("mallinfo")
  /\ Asserting(\A n \in Node \ {running_q} : pc[n] = "free", Quiet, To(next))
  /\ UNCHANGED g

(* A thread's function returns into thread_stub, or calls thread_exit.      *)
Return(l) == At(l) /\ Exit /\ Gone /\ GoOn(NoThread) /\ UNCHANGED g

(* main returns: the process exits, whatever threads are left.              *)
MainReturns ==
  /\ At("main_return")
  /\ halted' = TRUE
  /\ UNCHANGED <<status, nodes, ready_q, exit_q, running_q, waitq, queues, id, pc, back,
                 yield_count, want, waitFor, monitorVars, th, g>>

-----------------------------------------------------------------------------
(* test_basic, without the timer.  The slot of child that its loops do not  *)
(* use holds the tid of the thread created last on its own.                 *)
Spare == MaxThreads - 1
BasicStep(l, b, call, place) == At(l) /\ Asserting(b, call, place) /\ UNCHANGED g
KilledChild(k) == Package(Kill(g.child[k]))
OnlyMe == \A t \in Tid : t # Me => status[t] = "EMPTY"

BasicCreateKill ==
  \/ BasicStep("start", Me = 0 /\ ready_q = <<>>, Quiet, To("first"))
  \/ At("first") /\ CreateChild(Spare, "hello", 0, To("first_yield"))
  \/ BasicStep("first_yield", status[g.child[Spare]] = "READY", YieldedTo(g.child[Spare]),
               To("create"))
  \/ CreateAll("hello", "yield_each")
  \/ BasicStep("yield_each", status[g.child[Here.i]] = "READY", YieldedTo(g.child[Here.i]),
               Loop("yield_each", NTHREADS, "kill_first"))
  \/ BasicStep("kill_first", Killable(g.child[Spare]), KilledChild(Spare), To("kill_each"))
  \/ BasicStep("kill_each", Killable(g.child[Here.i]), KilledChild(Here.i),
               Loop("kill_each", NTHREADS, "drain"))
  \* "the yield should be needed at most NTHREADS+2 times"
  \/ BasicStep("drain", Here.i <= NTHREADS + 1, Yielded,
               IF ready_q # <<>> THEN [Here EXCEPT !.i = @ + 1]
                                 ELSE [To("fact_all") EXCEPT !.i = 0])

BasicFillTable ==
  \/ At("fact_all") /\ CreateChild(Spare, "return", 0, Loop("fact_all", Spare, "nomore"))
  \/ BasicStep("nomore", \A t \in Tid : status[t] # "EMPTY", Quiet, To("run_all"))
  \/ BasicStep("run_all", TRUE, YieldedTo(Here.i), Loop("run_all", MaxThreads, "fact_again"))
  \/ At("fact_again")
     /\ CreateChild(Here.i, "return", 0, Loop("fact_again", Spare, "kill_even"))
  \/ BasicStep("kill_even", Killable(g.child[Here.i]), KilledChild(Here.i),
               LoopBy(2, "kill_even", MaxThreads, "run_again"))
  \/ BasicStep("run_again", TRUE, YieldedTo(Here.i), Loop("run_again", MaxThreads, "alone"))

BasicDestroySelf ==
  \/ BasicStep("alone", OnlyMe, Quiet, To("suicide"))
  \/ At("suicide") /\ CreateChild(Spare, "suicide_body", 0, To("suicide_yield"))
  \/ BasicStep("suicide_yield", status[g.child[Spare]] = "READY", YieldedTo(g.child[Spare]),
               To("suicide_check"))
  \/ /\ At("suicide_check")
     /\ Asserting(g.flag = 1 /\ status[g.child[Spare]] # "READY", Quiet, To("mallinfo"))
     /\ g' = [g EXCEPT !.flag = 0]
  \/ MallinfoCheck("grand_finale")
  \/ At("grand_finale") /\ CreateChild(Spare, "finale", 0, To("return"))

(* The functions the threads of test_basic run; fact only computes.         *)
Hello == At("hello") /\ Package(YieldAny) /\ UNCHANGED <<th, g>>
Suicide ==
  /\ At("suicide_body")
  /\ Asserting(g.flag = 0, Quiet, To("return"))
  /\ g' = [g EXCEPT !.flag = 1]
Finale == BasicStep("finale", ready_q = <<>>, Quiet, To("return"))

TestBasic ==
  /\ test = "basic"
  /\ BasicCreateKill \/ BasicFillTable \/ BasicDestroySelf \/ Hello \/ Suicide \/ Finale

-----------------------------------------------------------------------------
(* test_preemptive: threads pass a potato round, under a spin lock that     *)
(* whoever finds it taken does not wait for.                                *)
TestPreemptive ==
  \/ /\ At("start") /\ Quiet /\ GoOn(To("create"))
     /\ g' = [g EXCEPT !.potato = [k \in Num |-> IF k = 0 THEN 1 ELSE 0]]
  \/ CreateAll("cas", "spin")
  \/ At("spin") /\ Quiet /\ GoOn(To("kill")) /\ UNCHANGED g
  \/ /\ At("kill")
     /\ Asserting(Killable(g.child[Here.i]), KilledChild(Here.i),
                  Loop("kill", NTHREADS, "main_return"))
     /\ UNCHANGED g

NeighbourOf(k) == (k + 1) % NTHREADS
NeverFails == FALSE                   \* mutant: the lock is taken over
CompareAndSwapFails == g.potato_lock # 0

TryMovePotato ==
  \/ /\ At("cas") /\ Quiet
     /\ IF CompareAndSwapFails
        THEN GoOn(To("pause")) /\ UNCHANGED g
        ELSE GoOn(To("move")) /\ g' = [g EXCEPT !.potato_lock = 1]
  \/ /\ At("move") /\ Quiet
     /\ IF g.potato[Here.num] = 1
        THEN GoOn(To("give")) /\ g' = [g EXCEPT !.potato[Here.num] = 0]
        ELSE GoOn(To("unlock")) /\ UNCHANGED g
  \/ /\ At("give") /\ Quiet /\ GoOn(To("moved"))
     /\ g' = [g EXCEPT !.potato[NeighbourOf(Here.num)] = 1]
  \/ /\ At("moved")
     /\ Asserting(g.potato[NeighbourOf(Here.num)] = 1 /\ g.potato[Here.num] = 0, Quiet,
                  To("unlock"))
     /\ UNCHANGED g
  \/ /\ At("unlock") /\ Asserting(g.potato_lock = 1, Quiet, To("pause"))
     /\ g' = [g EXCEPT !.potato_lock = 0]

(* The yields of do_potato "to scramble the list".                          *)
DoPotato ==
  /\ At("pause") /\ UNCHANGED g
  /\ IF Here.num > PotatoCalm
     THEN Asserting(ready_q # <<>>, Yielded, Loop("pause", Here.num - PotatoCalm, "cas"))
     ELSE Quiet /\ GoOn(To("cas"))

-----------------------------------------------------------------------------
(* test_wakeup: main counts the sleepers, and wakes one or all of them.     *)
All == test = "wakeup_all"
Awaited == IF All THEN NTHREADS ELSE 1
(* What thread_wakeup(queue, all) returns.                                  *)
NrWoken == IF All THEN Len(waitq[queue]) ELSE IF waitq[queue] = <<>> THEN 0 ELSE 1

TestWakeup ==
  \/ At("start") /\ CvCreate(queue) /\ GoOn(To("refused")) /\ UNCHANGED g
  \/ /\ At("refused") /\ UNCHANGED g
     /\ Asserting(ready_q = <<>> /\ waitq[queue] = <<>>, Quiet, To("create"))
  \/ CreateAll("sleep", "poll")
  \/ /\ At("poll") /\ Quiet /\ UNCHANGED g
     /\ GoOn(To(IF g.done < NTHREADS THEN "poll_sleeping" ELSE "finish"))
  \/ /\ At("poll_sleeping") /\ Quiet /\ UNCHANGED g
     /\ GoOn(To(IF g.nr_sleeping < Awaited THEN "poll" ELSE "claim"))
  \/ /\ At("claim") /\ Quiet /\ GoOn(To("wake"))
     /\ g' = [g EXCEPT !.nr_sleeping = IF All THEN 0 ELSE @ - 1]
  \/ /\ At("wake") /\ UNCHANGED g
     /\ Asserting(NrWoken = Awaited,
                  Package(Wakeup(queue)) /\ Len(waitq'[queue]) = Len(waitq[queue]) - NrWoken,
                  To("poll"))
  \/ /\ At("finish") /\ UNCHANGED g
     /\ Asserting(g.nr_sleeping = 0, CvDestroy(queue), To("drain"))
  \/ /\ At("drain") /\ Yielded /\ UNCHANGED g
     /\ GoOn(To(IF ready_q # <<>> THEN "drain" ELSE "mallinfo"))
  \/ MallinfoCheck("main_return")

(* Counted and asleep in one step: the timer is blocked in between.         *)
SleepAtOnce ==
  Asserting(ready_q # <<>>, Package(Sleep(queue)), Loop("sleep", LOOPS, "count"))

TestWakeupThread ==
  \/ /\ At("sleep") /\ SleepAtOnce
     /\ g' = [g EXCEPT !.nr_sleeping = @ + 1]
  \/ /\ At("count") /\ Quiet /\ GoOn(To("return"))
     /\ g' = [g EXCEPT !.done = @ + 1]

-----------------------------------------------------------------------------
(* test_wait: each thread waits for the one before, main for them all.      *)
TestWait ==
  \/ At("start") /\ Asserting(OnlyMe, Quiet, To("create")) /\ UNCHANGED g
  \/ CreateAll("gate", "open")
  \/ At("open") /\ Quiet /\ GoOn(To("join")) /\ g' = [g EXCEPT !.done = @ + 1]
  \/ WaitForAll("mallinfo")
  \/ MallinfoCheck("main_return")

Predecessor(k) == g.child[k - 1]
TestWaitThread ==
  \/ /\ At("gate") /\ g.done >= 1 /\ Quiet /\ UNCHANGED g
     /\ GoOn(To(IF Here.num > 0 THEN "wait_previous" ELSE "return"))
  \/ /\ At("wait_previous") /\ WaitedFor(Predecessor(Here.num)) /\ GoOn(To("print"))
     /\ UNCHANGED g
  \/ /\ At("print") /\ Quiet /\ GoOn(To("return"))
     /\ g' = [g EXCEPT !.out = Append(@, <<Here.num, "id">>)]

(* test_wait_kill: the child kills its parent, which waits for it or is     *)
(* about to.  Of the parent, "we shouldn't get here" ends the test.         *)
TestWaitKill ==
  \/ At("start") /\ CreateChild(0, "ouch", Me, To("wait_child"))
  \/ At("wait_child") /\ WaitedFor(g.child[0]) /\ GoOn(To("failed")) /\ UNCHANGED g
  \/ At("failed") /\ Quiet /\ GoOn(To("abort")) /\ UNCHANGED g

TestWaitKillThread ==
  /\ At("ouch")
  /\ Asserting(Killable(Here.num), Package(Kill(Here.num)), To("return"))
  /\ g' = [g EXCEPT !.out = Append(@, <<Me, "its over">>)]

(* test_wait_parent: the children wait for main, which kills some (at       *)
(* random, never one twice) and exits.                                      *)
TestWaitParent ==
  \/ At("start") /\ Quiet /\ GoOn(To("create")) /\ UNCHANGED g
  \/ CreateAll("wait_parent", "yield")
  \/ /\ At("yield") /\ Yielded /\ UNCHANGED g
     /\ GoOn(To(IF NTHREADS \div 2 > 0 THEN "kill_some" ELSE "return"))
  \/ \E k \in Num :
       /\ At("kill_some") /\ GoOn(Loop("kill_some", NTHREADS \div 2, "return"))
       /\ IF Killable(g.child[k])
          THEN /\ KilledChild(k)
               /\ g' = [g EXCEPT !.done = @ + 1, !.child[k] = NULL,
                                 !.out = Append(@, <<k, "killed">>)]
          ELSE Quiet /\ g' = [g EXCEPT !.child[k] = NULL]

TestWaitParentThread ==
  \/ /\ At("wait_parent") /\ WaitedFor(0) /\ UNCHANGED g
     /\ GoOn(To(IF Waitable(0) THEN "woken" ELSE "parent gone"))
  \/ /\ At("woken") \/ At("parent gone")
     /\ Quiet /\ GoOn(To("count"))
     /\ g' = [g EXCEPT !.out = Append(@, <<Here.num, Here.at>>)]
  \/ /\ At("count") /\ Quiet /\ GoOn(To("return"))
     /\ g' = [g EXCEPT !.done = @ + 1,
                       !.out = IF g.done = NTHREADS - 1 THEN Append(@, <<0, "done">>) ELSE @]

-----------------------------------------------------------------------------
(* test_lock: each thread writes three words that must agree under the      *)
(* lock, and yields in between, "to make sure that even when other threads  *)
(* run, they cannot access the critical section".                           *)
LockStep(l, b, call, place) == At(l) /\ Asserting(b, call, place) /\ UNCHANGED g
Acquire == At("acquire") /\ LockAcquire(testlock) /\ UNCHANGED g
Release(next) ==
  LockStep("release", lockTid[testlock] = Me, LockRelease(testlock),
           Loop("acquire", LOOPS, next))
DestroyTestlock ==
  LockStep("lock_destroy", lockState[testlock] = FREE, LockDestroy(testlock), To("mallinfo"))

TestLock ==
  \/ At("start") /\ LockCreate(testlock) /\ GoOn(To("create")) /\ UNCHANGED g
  \/ CreateAll("acquire", "join")
  \/ WaitForAll("lock_destroy")
  \/ DestroyTestlock
  \/ MallinfoCheck("main_return")

TestvalsAgree ==
  LET v == g.testval
  IN v[1] = Here.num /\ v[2] = Here.num * Here.num /\ v[3] = Here.num % 3

Write(k, v) == g' = [g EXCEPT !.testval[k] = v]

TestLockThread ==
  \/ Acquire /\ GoOn(To("val1"))
  \/ At("val1") /\ Write(1, Here.num) /\ Yielded /\ GoOn(To("val2"))
  \/ At("val2") /\ Write(2, Here.num * Here.num) /\ Yielded /\ GoOn(To("val3"))
  \/ At("val3") /\ Write(3, Here.num % 3) /\ Quiet /\ GoOn(To("compare"))
  \/ LockStep("compare", TestvalsAgree, Quiet, To("release"))
  \/ Release("return")

(* test_cv_signal and test_cv_broadcast: the threads take turns, downwards, *)
(* waiting each on its own condition variable or all on one.                *)
CvOf(k) == IF test = "cv_signal" THEN SignalCv[k] ELSE queue
Cvs == {CvOf(k) : k \in Num}
Ascend(k) == (k + 1) % NTHREADS       \* mutant: the turns go upwards
Descend(k) == (k + NTHREADS - 1) % NTHREADS

TestCv ==
  \/ \E c \in Cvs : At("start") /\ CvCreate(c) /\ UNCHANGED g
                   /\ GoOn(To(IF Cvs \subseteq queues' THEN "lock_create" ELSE "start"))
  \/ /\ At("lock_create") /\ LockCreate(testlock) /\ GoOn(To("create"))
     /\ g' = [g EXCEPT !.testval[1] = NTHREADS - 1]
  \/ CreateAll("acquire", "join")
  \/ WaitForAll("cv_destroy")
  \/ \E c \in Cvs : At("cv_destroy") /\ CvDestroy(c) /\ UNCHANGED g
                   /\ GoOn(To(IF Cvs \cap queues' = {} THEN "lock_destroy" ELSE "cv_destroy"))
  \/ DestroyTestlock
  \/ MallinfoCheck("main_return")

Unnoticed(c) == Quiet                 \* mutant: the signal is lost
(* cv_signal of the one waiter, if there is one, or cv_broadcast.           *)
Signalled(c) == IF waitq[c] = <<>> THEN Quiet ELSE CvSignal(c, testlock)
Notified(c) == IF test = "cv_signal" THEN Signalled(c) ELSE CvBroadcast(c, testlock)

(* A thread of either program.                                              *)
TestCvThread ==
  \/ Acquire /\ GoOn(To("while"))
  \/ /\ At("while") /\ Quiet /\ UNCHANGED g
     /\ GoOn(To(IF g.testval[1] # Here.num THEN "cv_wait" ELSE "pass"))
  \/ LockStep("cv_wait", lockTid[testlock] = Me, CvWait(CvOf(Here.num), testlock), To("while"))
  \/ /\ At("pass") /\ Quiet /\ GoOn(To("notify"))
     /\ g' = [g EXCEPT !.testval[1] = Descend(@), !.out = Append(@, <<Here.num, "passes">>)]
  \/ LockStep("notify", lockTid[testlock] = Me, Notified(CvOf(g.testval[1])), To("release"))
  \/ Release("return")

TestCvSignal == test = "cv_signal" /\ (TestCv \/ TestCvThread)
TestCvBroadcast == test = "cv_broadcast" /\ (TestCv \/ TestCvThread)

-----------------------------------------------------------------------------
ProgramStep ==
  \/ Return("return") \/ MainReturns
  \/ TestBasic
  \/ test = "preemptive" /\ (TestPreemptive \/ TryMovePotato \/ DoPotato)
  \/ test \in {"wakeup", "wakeup_all"} /\ (TestWakeup \/ TestWakeupThread)
  \/ test = "wait" /\ (TestWait \/ TestWaitThread)
  \/ test = "wait_kill" /\ (TestWaitKill \/ TestWaitKillThread)
  \/ test = "wait_parent" /\ (TestWaitParent \/ TestWaitParentThread)
  \/ test = "lock" /\ (TestLock \/ TestLockThread)
  \/ TestCvSignal \/ TestCvBroadcast

ClientStep == ProgramStep /\ UNCHANGED test

(* The package's own steps, once a client step has called it.               *)
PackageGoesOn ==
  \/ Package(Start \/ Switch \/ Resume \/ WaitReturn) /\ UNCHANGED testVars
  \/ (LockSleep \/ LockTake) /\ UNCHANGED testVars
  \/ KilledExit /\ Gone /\ GoOn(NoThread) /\ UNCHANGED <<test, g>>

Timer == test # "basic" /\ Package(TimerInterrupt) /\ UNCHANGED testVars
Finished == Package(Halted) /\ UNCHANGED testVars

TNext == ClientStep \/ PackageGoesOn \/ Timer \/ Finished

(* The fairness of the package; and a thread that is resumed again and      *)
(* again takes its next step: an interval of the timer is long enough for   *)
(* one.                                                                     *)
TFairness ==
  /\ WF_tvars(PackageGoesOn)
  /\ SF_tvars(Timer)
  /\ \A n \in Node : SF_tvars(running_q = n /\ ClientStep)

TSpec == TInit /\ [][TNext]_tvars /\ TFairness

-----------------------------------------------------------------------------
(* Every assertion of every program holds, at every interleaving: what the  *)
(* calls return, that sleepers are counted as they sleep, that the words    *)
(* under the lock agree, that the potato is where it was put, that a        *)
(* parent's killed thread never runs again, that a program's memory is      *)
(* freed when its threads are gone.                                         *)
AssertionsHold == \A n \in Node : th[n].at # "abort"

(* The potato of test_preemptive is in one pair of hands, or in the air     *)
(* while the spin lock is taken, whoever the timer stops where.             *)
OnePotato ==
  test = "preemptive" /\ Here.at # "start" =>
    \/ \E k \in Num : \A j \in Num : g.potato[j] = IF j = k THEN 1 ELSE 0
    \/ g.potato_lock = 1 /\ \A j \in Num : g.potato[j] = 0

(* A destroyed lock, condition variable or queue has no user left: nobody   *)
(* sleeps on it, and nobody is in the loop of lock_acquire, still to read   *)
(* its state, when main destroys it after waiting for its threads.          *)
DestroyedUnused ==
  \A q \in UserQ \ queues :
    waitq[q] = <<>> /\ \A n \in Node : lockFor[n] # q /\ cvFor[n] # q

(* What the threads of a test share is whole while they share it, and is    *)
(* given up only when they are done with it.                                *)
SharedInOrder == OnePotato /\ DestroyedUnused

(* What the programs print: test_wait "in ascending order", the condition   *)
(* variable tests "in reverse order", round and round; and of each child    *)
(* thread of test_wait_parent at most one message, and exactly one when the *)
(* program ends, with "done" last.                                          *)
OutputAsPromised ==
  LET said(k) == {j \in DOMAIN g.out : g.out[j][1] = k /\ g.out[j][2] # "done"}
  IN /\ test = "wait" => \A j \in DOMAIN g.out : g.out[j][1] = j
     /\ test \in {"cv_signal", "cv_broadcast"} =>
          \A j \in DOMAIN g.out : (g.out[j][1] + j) % NTHREADS = 0
     /\ test = "wait_parent" =>
          /\ \A k \in Num : Cardinality(said(k)) <= 1
          /\ halted => /\ \A k \in Num : Cardinality(said(k)) = 1
                       /\ g.out[Len(g.out)] = <<0, "done">>

(* Every program ends: no thread of it is left asleep, spinning or waiting  *)
(* for a turn that does not come.                                           *)
TestsEnd == <>halted
=============================================================================
