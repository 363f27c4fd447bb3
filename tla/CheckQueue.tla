----------------------------- MODULE CheckQueue -----------------------------
(***************************************************************************)
(* CCheckQueue<CScriptCheck> (checkqueue.h): the pool of worker threads    *)
(* that verifies the scripts of a block in parallel with the thread that   *)
(* connects the block (the master).                                        *)
(*                                                                         *)
(* The mutex is explicit: an action that runs a critical section from lock *)
(* to unlock is one step, a section that may end in several ways takes the *)
(* mutex in one step and is at "top", the `while (queue.empty())` of Loop, *)
(* in the next.  Condition variables are wait sets: a thread "asleep" is   *)
(* made "woken" by a notification or spuriously, and must then take the    *)
(* mutex again.  A script check is its result, a Boolean.                  *)
(***************************************************************************)
EXTENDS Integers, Sequences, SequencesExt, FiniteSetsExt

CONSTANTS
    Worker,      \* the -par worker threads (ThreadScriptCheck)
    Master,      \* the thread inside ConnectBlock
    Free,        \* value of mutex when no thread holds it
    nBatchSize,  \* most checks a thread takes at once (32 in init.cpp)
    Word,        \* number of values of an unsigned int
    MaxChecks    \* bound: checks added in one batch

Thread == Worker \cup {Master}

ASSUME ConstantsOK ==
    /\ Master \notin Worker
    /\ Free \notin Thread
    /\ nBatchSize \in Nat \ {0}
    /\ MaxChecks \in Nat \ {0}
    /\ Word \in Nat /\ Word > MaxChecks

VARIABLES
    mutex,    \* the thread that holds it, or Free
    queue,    \* results of the checks not yet taken
    nIdle, nTotal, nTodo, fAllOk, fQuit,
    pc,       \* where each thread is in Loop (for the master: in ConnectBlock)
    fOk,      \* the local of Loop
    vChecks,  \* the checks a thread has taken and not yet accounted for
    batch     \* what the master added since StartBatch, and what Wait returned

vars == <<mutex, queue, nIdle, nTotal, nTodo, fAllOk, fQuit, pc, fOk, vChecks, batch>>

-----------------------------------------------------------------------------

\* No check added, none of them bad, Wait not yet returned.
NoWait == [added |-> 0, bad |-> FALSE, waited |-> FALSE, result |-> FALSE]

Init ==
    /\ mutex = Free
    /\ queue = <<>>
    /\ nIdle = 0 /\ nTotal = 0 /\ nTodo = 0
    /\ fAllOk = TRUE /\ fQuit = FALSE
    /\ pc = [t \in Thread |-> IF t = Master THEN "idle" ELSE "outside"]
    /\ fOk = [t \in Thread |-> TRUE]
    /\ vChecks = [t \in Thread |-> <<>>]
    /\ batch = NoWait

\* Fault: the notification is lost.
NotifyNobody(S, newpc) == pc' = newpc

\* condition_variable::notify_one: one sleeper of S, when there is one.
NotifyOne(S, newpc) ==
    LET sleepers == {t \in S : newpc[t] = "asleep"}
    IN  IF sleepers = {} THEN pc' = newpc
        ELSE \E t \in sleepers : pc' = [newpc EXCEPT ![t] = "woken"]

\* Fault: the notification is lost.
NotifyNone(S, newpc) == newpc

\* condition_variable::notify_all on the condition variable of S.
NotifyAll(S, newpc) ==
    [t \in Thread |-> IF t \in S /\ newpc[t] = "asleep" THEN "woken" ELSE newpc[t]]

\* Loop takes the lock for the first time: a worker's Thread(), or Wait().
Enter(t) ==
    /\ pc[t] = IF t = Master THEN "batch" ELSE "outside"
    /\ mutex = Free
    /\ mutex' = t
    /\ nTotal' = IF t = Master THEN nTotal ELSE nTotal + 1
    /\ nIdle' = nIdle + 1
    /\ fOk' = [fOk EXCEPT ![t] = TRUE]
    /\ pc' = [pc EXCEPT ![t] = "top"]
    /\ UNCHANGED <<queue, nTodo, fAllOk, fQuit, vChecks, batch>>

\* The thread leaves Loop; for the master this is Wait() returning ret.
Leave(t, ret) ==
    /\ mutex' = Free
    /\ nIdle' = nIdle - 1
    /\ nTotal' = IF t = Master THEN nTotal ELSE nTotal - 1
    /\ pc' = [pc EXCEPT ![t] = IF t = Master THEN "idle" ELSE "stopped"]
    /\ batch' = IF t = Master THEN [batch EXCEPT !.waited = TRUE, !.result = ret] ELSE batch
    /\ UNCHANGED <<queue, nTodo, fAllOk, fQuit, fOk, vChecks>>

AtTop(t) == pc[t] = "top" /\ mutex = t

\* Fault: the master leaves as soon as the queue is empty.
AnyMaster(t) == t = Master

MasterDone(t) == t = Master /\ nTodo = 0

LeaveOnQuit(t) ==
    /\ AtTop(t) /\ queue = <<>> /\ fQuit
    /\ Leave(t, FALSE)

LeaveDone(t) ==
    /\ AtTop(t) /\ queue = <<>> /\ ~fQuit
    /\ MasterDone(t)
    /\ Leave(t, fAllOk)

\* condMaster.wait / condWorker.wait
Sleep(t) ==
    /\ AtTop(t) /\ queue = <<>> /\ ~fQuit
    /\ ~MasterDone(t)
    /\ mutex' = Free
    /\ pc' = [pc EXCEPT ![t] = "asleep"]
    /\ UNCHANGED <<queue, nIdle, nTotal, nTodo, fAllOk, fQuit, fOk, vChecks, batch>>

\* How many checks a thread takes: an even share, at least one, at most nBatchSize.
nNow == Max({1, Min({Len(queue) \div (nTotal + 1), nBatchSize})})

Take(t) ==
    /\ AtTop(t) /\ queue # <<>>
    /\ vChecks' = [vChecks EXCEPT ![t] = SubSeq(queue, 1, nNow)]
    /\ queue' = SubSeq(queue, nNow + 1, Len(queue))
    /\ nIdle' = nIdle - 1
    /\ mutex' = Free
    /\ pc' = [pc EXCEPT ![t] = "running"]
    /\ UNCHANGED <<nTotal, nTodo, fAllOk, fQuit, fOk, batch>>

\* Fault: the result of the last check replaces those before it.
RunChecksLast(t) == vChecks[t][Len(vChecks[t])]

\* The checks are run without the lock, then the lock is taken to account for
\* them.  A check is skipped once fOk is false; fOk is not reset between turns.
RunChecks(t) == fOk[t] /\ \A i \in 1..Len(vChecks[t]) : vChecks[t][i]

\* Faults: one check accounted for per turn; a counter that does not wrap.
TodoLessOne(n) == (nTodo - 1) % Word
TodoLessSigned(n) == nTodo - n

\* nTodo -= nNow, in an unsigned int.
TodoLess(n) == (nTodo - n) % Word

Finish(t) ==
    /\ pc[t] = "running"
    /\ mutex = Free
    /\ mutex' = t
    /\ fOk' = [fOk EXCEPT ![t] = RunChecks(t)]
    /\ vChecks' = [vChecks EXCEPT ![t] = <<>>]
    /\ nIdle' = nIdle + 1
    /\ nTodo' = TodoLess(Len(vChecks[t]))
    /\ fAllOk' = (fAllOk /\ fOk'[t])
    /\ LET newpc == [pc EXCEPT ![t] = "top"]
       IN  IF nTodo' = 0 THEN NotifyOne({Master}, newpc) ELSE pc' = newpc
    /\ UNCHANGED <<queue, nTotal, fQuit, batch>>

\* A waiter that was notified takes the mutex again before wait() returns.
Relock(t) ==
    /\ pc[t] = "woken"
    /\ mutex = Free
    /\ mutex' = t
    /\ pc' = [pc EXCEPT ![t] = "top"]
    /\ UNCHANGED <<queue, nIdle, nTotal, nTodo, fAllOk, fQuit, fOk, vChecks, batch>>

SpuriousWakeup(t) ==
    /\ pc[t] = "asleep"
    /\ pc' = [pc EXCEPT ![t] = "woken"]
    /\ UNCHANGED <<mutex, queue, nIdle, nTotal, nTodo, fAllOk, fQuit, fOk, vChecks, batch>>

-----------------------------------------------------------------------------
(* The master: ConnectBlock's CCheckQueueControl.                          *)

StartBatch ==
    /\ pc[Master] = "idle"
    /\ mutex = Free
    /\ fAllOk' = TRUE
    /\ nTodo' = 0
    /\ pc' = [pc EXCEPT ![Master] = "batch"]
    /\ batch' = NoWait
    /\ UNCHANGED <<mutex, queue, nIdle, nTotal, fQuit, fOk, vChecks>>

Add(v) ==
    /\ pc[Master] = "batch"
    /\ v # <<>>
    /\ mutex = Free
    /\ batch.added + Len(v) <= MaxChecks
    /\ queue' = queue \o v
    /\ nTodo' = (nTodo + Len(v)) % Word
    /\ IF Len(v) = 1 THEN NotifyOne(Worker, pc) ELSE pc' = NotifyAll(Worker, pc)
    /\ batch' = [batch EXCEPT !.added = @ + Len(v),
                              !.bad = @ \/ \E i \in 1..Len(v) : ~v[i]]
    /\ UNCHANGED <<mutex, nIdle, nTotal, fAllOk, fQuit, fOk, vChecks>>

\* Shutdown() in init.cpp.  StopNode gives up waiting for the thread that
\* connects blocks after a timeout, so a batch may be under way.
Quit ==
    /\ ~fQuit
    /\ mutex = Free
    /\ fQuit' = TRUE
    /\ pc' = NotifyAll({Master}, NotifyAll(Worker, pc))
    /\ UNCHANGED <<mutex, queue, nIdle, nTotal, nTodo, fAllOk, fOk, vChecks, batch>>

-----------------------------------------------------------------------------

LoopStep(t) ==
    LeaveOnQuit(t) \/ LeaveDone(t) \/ Sleep(t) \/ Take(t)

\* The steps that wait for the mutex.
Acquire(t) == Enter(t) \/ Finish(t) \/ Relock(t)

Next ==
    \/ \E t \in Thread : Acquire(t) \/ LoopStep(t) \/ SpuriousWakeup(t)
    \/ StartBatch
    \/ \E v \in BoundedSeq(BOOLEAN, MaxChecks) : Add(v)
    \/ Quit

\* A thread that holds the mutex keeps running, and the mutex starves nobody.
\* The master calls Wait once it has nothing more to add (the control's
\* destructor does); neither new batches nor Quit nor wakeups are assured.
Fairness ==
    \A t \in Thread : WF_vars(LoopStep(t)) /\ SF_vars(Acquire(t))

Spec == Init /\ [][Next]_vars
FairSpec == Spec /\ Fairness

-----------------------------------------------------------------------------
(* Properties                                                              *)

\* The places of the checks taken by a thread that has not yet accounted for them.
InFlight == UNION {{t} \X DOMAIN vChecks[t] : t \in Thread}

TypeOK ==
    /\ mutex \in Thread \cup {Free}
    /\ queue \in Seq(BOOLEAN)
    /\ nIdle \in Nat /\ nTotal \in Nat /\ nTodo \in 0 .. Word - 1
    /\ fAllOk \in BOOLEAN /\ fQuit \in BOOLEAN
    /\ pc \in [Thread -> {"outside", "idle", "batch", "top", "asleep", "woken",
                          "running", "stopped"}]
    /\ fOk \in [Thread -> BOOLEAN]
    /\ vChecks \in [Thread -> Seq(BOOLEAN)]
    /\ batch \in [added : 0..MaxChecks, bad : BOOLEAN, waited : BOOLEAN, result : BOOLEAN]

\* nTodo counts exactly the checks that are queued or being run, whichever
\* threads took them and in whichever order they finish (until shutdown).
TodoAccounting == ~fQuit => nTodo = Len(queue) + Cardinality(InFlight)

\* A block is never connected with a failing script: when Wait returns true,
\* every check added to the batch has been run and succeeded, also when Quit
\* or a check of an earlier batch interferes.
WaitSound == batch.waited /\ batch.result => ~batch.bad

\* A CScriptCheck points into the block being connected, which may be freed
\* once ConnectBlock returns: before shutdown no check outlives Wait.
NoCheckOutlivesWait ==
    ~fQuit /\ pc[Master] = "idle" => queue = <<>> /\ \A t \in Thread : vChecks[t] = <<>>

\* Wait returns false before shutdown only if a check of this batch failed:
\* ConnectBlock then reports "script verification failed" and bans the peer.
FailureHasACause == batch.waited /\ ~batch.result /\ ~fQuit => batch.bad

\* ConnectBlock, which holds cs_main, gets its verdict: no notification is
\* lost between the test of queue or nTodo and the wait.
WaitReturns == pc[Master] = "batch" ~> pc[Master] = "idle"

\* Shutdown joins the workers: once Quit is called and the master has left its
\* last batch, every worker returns from Loop.
QuitStopsWorkers ==
    <>[](fQuit /\ pc[Master] = "idle") => <>(\A w \in Worker : pc[w] = "stopped")

=============================================================================
