-------------------------- MODULE CheckQueueProofs --------------------------
(***************************************************************************)
(* Theorems about CheckQueue, for any number of worker threads and checks. *)
(***************************************************************************)
EXTENDS CheckQueue, TLAPS, FiniteSetTheorems, SequenceTheorems

-----------------------------------------------------------------------------
(* The inductive invariant                                                 *)

\* Workers that nTotal counts: those inside Loop.
Inside == {w \in Worker : pc[w] \notin {"outside", "stopped"}}

\* Threads that nIdle counts: those inside Loop that run no checks.
Idle == {t \in Thread : pc[t] \in {"top", "asleep", "woken"}}

\* Who may be where, who holds the mutex, and who has checks in hand.
Control ==
    /\ pc[Master] \notin {"outside", "stopped"}
    /\ \A w \in Worker : pc[w] \notin {"idle", "batch"}
    /\ \A t \in Thread : pc[t] = "top" <=> mutex = t
    /\ \A t \in Thread : pc[t] = "running" <=> vChecks[t] # <<>>
    /\ batch.waited => pc[Master] = "idle"

\* The two counters under the mutex are exact, so neither is ever decremented
\* below zero.
Counted ==
    /\ IsFiniteSet(Inside) /\ nTotal = Cardinality(Inside)
    /\ IsFiniteSet(Idle) /\ nIdle = Cardinality(Idle)

\* Until shutdown nTodo is exact, no more than the batch has had, and nothing is
\* left of a batch when the master is between two of them.
Todo ==
    /\ IsFiniteSet(InFlight)
    /\ ~fQuit => /\ nTodo = Len(queue) + Cardinality(InFlight)
                 /\ nTodo <= batch.added
                 /\ pc[Master] = "idle" => nTodo = 0

\* A failing check that has not yet been accounted for.
BadPending ==
    \/ \E i \in 1 .. Len(queue) : ~queue[i]
    \/ \E t \in Thread : \E i \in 1 .. Len(vChecks[t]) : ~vChecks[t][i]

\* Until shutdown a failing check of the batch is queued, in hand, or has turned
\* fAllOk false.
BadRemembered == ~fQuit /\ batch.bad => ~fAllOk \/ BadPending

IInv == TypeOK /\ Control /\ Counted /\ Todo /\ BadRemembered /\ WaitSound

-----------------------------------------------------------------------------
(* Lemmas                                                                  *)

\* A share of a queue is no more than the queue.
LEMMA ShareBounded ==
    ASSUME NEW n \in Nat, NEW k \in Nat
    PROVE  n \div (k + 1) \in 0 .. n
OBVIOUS

\* The smaller and the greater of two numbers.
LEMMA TwoNumbers ==
    ASSUME NEW a \in Int, NEW b \in Int
    PROVE  Min({a, b}) = (IF a <= b THEN a ELSE b) /\ Max({a, b}) = (IF a >= b THEN a ELSE b)
<1>1. CASE a <= b
  BY <1>1 DEF Min, Max
<1>2. CASE ~(a <= b)
  BY <1>2 DEF Min, Max
<1> QED BY <1>1, <1>2

\* A counter that has not reached its limit does not wrap.
LEMMA NoWrap ==
    ASSUME NEW w \in Nat, NEW n \in Nat, n < w
    PROVE  n % w = n
OBVIOUS

\* A thread takes at least one check and no more than there are.
LEMMA nNowInRange ==
    ASSUME TypeOK, queue # <<>>
    PROVE  nNow \in 1 .. Len(queue)
<1> DEFINE a == Len(queue) \div (nTotal + 1)
           m == Min({a, nBatchSize})
<1>1. Len(queue) \in Nat \ {0} /\ nTotal \in Nat
  BY EmptySeq DEF TypeOK
<1>2. a \in 0 .. Len(queue)
  BY <1>1, ShareBounded
<1> HIDE DEF a
<1>3. m \in 0 .. Len(queue)
  <2>1. m = IF a <= nBatchSize THEN a ELSE nBatchSize
    BY <1>1, <1>2, TwoNumbers, ConstantsOK
  <2> HIDE DEF m
  <2> QED BY <1>1, <1>2, <2>1, ConstantsOK
<1> HIDE DEF m
<1>4. Max({1, m}) \in 1 .. Len(queue)
  <2>1. Max({1, m}) = IF 1 >= m THEN 1 ELSE m
    <3>1. m \in Int /\ 1 \in Int
      BY <1>1, <1>3
    <3> QED BY <3>1, TwoNumbers, Zenon
  <2> QED BY <1>1, <1>3, <2>1
<1> QED BY <1>4 DEF nNow, a, m

Label == {"outside", "idle", "batch", "top", "asleep", "woken", "running", "stopped"}

\* Threads of p are where they are in q, except for sleepers that were notified.
Wakes(p, q) ==
    /\ q \in [Thread -> Label]
    /\ \A t \in Thread : q[t] = p[t] \/ (p[t] = "asleep" /\ q[t] = "woken")

\* A notification wakes sleepers and moves nobody else.
LEMMA NotifyWakes ==
    ASSUME NEW p \in [Thread -> Label], NEW S
    PROVE  /\ S \subseteq Thread /\ NotifyOne(S, p) => Wakes(p, pc')
           /\ Wakes(p, NotifyAll(S, p))
<1>1. ASSUME S \subseteq Thread, NotifyOne(S, p) PROVE Wakes(p, pc')
  <2>1. CASE pc' = p
    BY <2>1 DEF Wakes
  <2>2. CASE \E t \in {u \in S : p[u] = "asleep"} : pc' = [p EXCEPT ![t] = "woken"]
    BY <1>1, <2>2 DEF Wakes, Label
  <2> QED BY <1>1, <2>1, <2>2 DEF NotifyOne
<1>2. Wakes(p, NotifyAll(S, p))
  BY DEF Wakes, NotifyAll, Label
<1> QED BY <1>1, <1>2

\* How the sets that nTotal and nIdle count change when one thread moves.
LEMMA MembersMove ==
    ASSUME TypeOK, NEW t \in Thread, NEW l \in Label, Wakes([pc EXCEPT ![t] = l], pc'), l # "asleep"
    PROVE  /\ Inside' = IF t \in Worker /\ l \notin {"outside", "stopped"}
                        THEN Inside \cup {t} ELSE Inside \ {t}
           /\ Idle' = IF l \in {"top", "woken"} THEN Idle \cup {t} ELSE Idle \ {t}
<1>1. pc'[t] = l /\ \A u \in Thread \ {t} : pc'[u] = pc[u] \/ (pc[u] = "asleep" /\ pc'[u] = "woken")
  BY DEF Wakes, TypeOK, Label
<1>2. Inside' = IF t \in Worker /\ l \notin {"outside", "stopped"}
                THEN Inside \cup {t} ELSE Inside \ {t}
  BY <1>1 DEF Inside, Thread
<1>3. Idle' = IF l \in {"top", "woken"} THEN Idle \cup {t} ELSE Idle \ {t}
  BY <1>1 DEF Idle, Label
<1> QED BY <1>2, <1>3

\* A wakeup changes neither set.
LEMMA MembersWake ==
    ASSUME TypeOK, Wakes(pc, pc')
    PROVE  Inside' = Inside /\ Idle' = Idle
BY DEF Inside, Idle, Wakes, TypeOK, Thread

\* A set of places has as many members as the sequence is long.
LEMMA PlacesCounted ==
    ASSUME NEW t, NEW n \in Nat
    PROVE  IsFiniteSet({t} \X (1 .. n)) /\ Cardinality({t} \X (1 .. n)) = n
<1> DEFINE f == [i \in 1 .. n |-> <<t, i>>]
<1>1. f \in Bijection(1 .. n, {t} \X (1 .. n))
  <2>1. f \in [1 .. n -> {t} \X (1 .. n)]
    OBVIOUS
  <2>2. \A i, j \in 1 .. n : f[i] = f[j] => i = j
    OBVIOUS
  <2>3. \A x \in {t} \X (1 .. n) : \E i \in 1 .. n : f[i] = x
    OBVIOUS
  <2> QED BY <2>1, <2>2, <2>3 DEF Bijection, Injection, Surjection, IsInjective
<1>2. IsFiniteSet(1 .. n) /\ Cardinality(1 .. n) = n
  BY FS_Interval
<1> HIDE DEF f
<1>3. ExistsBijection(1 .. n, {t} \X (1 .. n))
  BY <1>1 DEF ExistsBijection
<1> QED BY <1>2, <1>3, FS_Bijection

\* Disjoint finite sets add up.
LEMMA DisjointUnion ==
    ASSUME NEW S, NEW T, IsFiniteSet(S), IsFiniteSet(T), S \cap T = {}
    PROVE  /\ IsFiniteSet(S \cup T)
           /\ Cardinality(S \cup T) = Cardinality(S) + Cardinality(T)
<1>1. Cardinality(S \cap T) = 0
  BY FS_EmptySet
<1>2. Cardinality(S) \in Nat /\ Cardinality(T) \in Nat
  BY FS_CardinalityType
<1>3. IsFiniteSet(S \cup T) /\ Cardinality(S \cup T) = Cardinality(S) + Cardinality(T) - Cardinality(S \cap T)
  BY FS_Union
<1> QED BY <1>1, <1>2, <1>3

\* The checks in hand when thread t, and only t, has others than before.
LEMMA InFlightMoves ==
    ASSUME TypeOK, NEW t \in Thread, NEW s \in Seq(BOOLEAN),
           vChecks' = [vChecks EXCEPT ![t] = s], IsFiniteSet(InFlight)
    PROVE  /\ IsFiniteSet(InFlight')
           /\ Cardinality(InFlight') = Cardinality(InFlight) - Len(vChecks[t]) + Len(s)
           /\ Cardinality(InFlight) \in Nat /\ Len(vChecks[t]) <= Cardinality(InFlight)
<1> DEFINE Rest == UNION {{u} \X DOMAIN vChecks[u] : u \in Thread \ {t}}
           Old == {t} \X (1 .. Len(vChecks[t]))
           New == {t} \X (1 .. Len(s))
<1>1. InFlight = Rest \cup Old /\ Rest \cap Old = {}
  BY DEF InFlight, TypeOK
<1>2. InFlight' = Rest \cup New /\ Rest \cap New = {}
  <2>1. InFlight' = UNION {{u} \X DOMAIN vChecks'[u] : u \in Thread}
    BY DEF InFlight
  <2>2. \A u \in Thread \ {t} : vChecks'[u] = vChecks[u]
    BY DEF TypeOK
  <2>3. DOMAIN vChecks'[t] = 1 .. Len(s)
    BY DEF TypeOK
  <2> QED BY <2>1, <2>2, <2>3
<1>3. /\ IsFiniteSet(Old) /\ Cardinality(Old) = Len(vChecks[t])
      /\ IsFiniteSet(New) /\ Cardinality(New) = Len(s)
      /\ Len(s) \in Nat /\ Len(vChecks[t]) \in Nat
  <2>1. Len(s) \in Nat /\ Len(vChecks[t]) \in Nat
    BY DEF TypeOK
  <2> QED BY <2>1, PlacesCounted
<1>4. IsFiniteSet(Rest) /\ Cardinality(Rest) \in Nat
  BY <1>1, FS_Subset, FS_CardinalityType
<1> HIDE DEF Rest, Old, New
<1>5. Cardinality(InFlight) = Cardinality(Rest) + Cardinality(Old)
  BY <1>1, <1>3, <1>4, DisjointUnion
<1>6. IsFiniteSet(InFlight') /\ Cardinality(InFlight') = Cardinality(Rest) + Cardinality(New)
  BY <1>2, <1>3, <1>4, DisjointUnion
<1> QED BY <1>3, <1>4, <1>5, <1>6

-----------------------------------------------------------------------------
(* One lemma per action                                                    *)

\* The invariant holds initially.
LEMMA InitKeeps == Init => IInv
<1> SUFFICES ASSUME Init PROVE IInv
  OBVIOUS
<1>1. TypeOK
  <2>1. batch \in [added : 0 .. MaxChecks, bad : BOOLEAN, waited : BOOLEAN, result : BOOLEAN]
    BY ConstantsOK DEF Init, NoWait
  <2>2. queue \in Seq(BOOLEAN) /\ vChecks \in [Thread -> Seq(BOOLEAN)] /\ nTodo \in 0 .. Word - 1
    BY ConstantsOK DEF Init
  <2>3. fOk \in [Thread -> BOOLEAN]
    BY DEF Init
  <2> QED BY <2>1, <2>2, <2>3 DEF Init, TypeOK
<1>2. Control
  <2>1. \A t \in Thread : pc[t] = (IF t = Master THEN "idle" ELSE "outside") /\ vChecks[t] = <<>> /\ mutex # t
    BY ConstantsOK DEF Init
  <2>2. Master \in Thread /\ \A w \in Worker : w \in Thread /\ w # Master
    BY ConstantsOK DEF Thread
  <2>3. ~batch.waited
    BY DEF Init, NoWait
  <2> QED BY <2>1, <2>2, <2>3 DEF Control
<1>3. Inside = {} /\ Idle = {} /\ InFlight = {}
  BY ConstantsOK DEF Init, Inside, Idle, InFlight, Thread
<1>4. Counted /\ Todo
  BY <1>3, FS_EmptySet DEF Init, Counted, Todo, NoWait
<1> QED BY <1>1, <1>2, <1>4 DEF IInv, BadRemembered, WaitSound, Init, NoWait

\* A thread enters Loop.
LEMMA EnterKeeps ==
    ASSUME IInv, NEW t \in Thread, Enter(t)
    PROVE  IInv'
<1> USE DEF IInv
<1>1. TypeOK'
  BY DEF TypeOK, Enter
<1>2. Wakes([pc EXCEPT ![t] = "top"], pc')
  BY <1>1 DEF Wakes, Enter, TypeOK, Label
<1>3. Control'
  BY ConstantsOK DEF Control, Enter, TypeOK, Thread
<1>4. Counted'
  <2>1. /\ Inside' = IF t \in Worker THEN Inside \cup {t} ELSE Inside \ {t}
        /\ Idle' = Idle \cup {t}
    BY <1>2, MembersMove DEF Label
  <2>2. t \notin Idle /\ t \notin Inside /\ (t \in Worker <=> t # Master)
    BY ConstantsOK DEF Enter, Inside, Idle, Thread, TypeOK
  <2>3. IsFiniteSet(Idle') /\ Cardinality(Idle') = Cardinality(Idle) + 1
    BY <2>1, <2>2, FS_AddElement DEF Counted
  <2>4. /\ IsFiniteSet(Inside')
        /\ Cardinality(Inside') = IF t = Master THEN Cardinality(Inside) ELSE Cardinality(Inside) + 1
    BY <2>1, <2>2, FS_AddElement, FS_RemoveElement DEF Counted
  <2> QED BY <2>3, <2>4 DEF Counted, Enter
<1>5. Todo' /\ BadRemembered' /\ WaitSound'
  <2>1. InFlight' = InFlight /\ UNCHANGED <<queue, nTodo, fAllOk, fQuit, vChecks, batch>>
    BY DEF Enter, InFlight
  <2>2. pc'[Master] = "idle" => pc[Master] = "idle"
    BY DEF Enter, TypeOK, Thread
  <2> QED BY <2>1, <2>2 DEF Todo, BadRemembered, BadPending, WaitSound
<1> QED BY <1>1, <1>3, <1>4, <1>5

\* Leaving Loop keeps the counters exact; what is left is what Wait returned.
LEMMA LeaveKeeps ==
    ASSUME IInv, NEW t \in Thread, AtTop(t), NEW ret \in BOOLEAN, Leave(t, ret),
           t = Master => ~ret \/ ~batch.bad,
           t = Master /\ ~fQuit => nTodo = 0
    PROVE  IInv'
<1> USE DEF IInv
<1> DEFINE l == IF t = Master THEN "idle" ELSE "stopped"
<1>1. t \in Idle /\ (t # Master => t \in Worker /\ t \in Inside) /\ (t = Master => t \notin Worker)
  BY ConstantsOK DEF AtTop, Idle, Inside, Thread
<1>2. Wakes([pc EXCEPT ![t] = l], pc')
  BY DEF Wakes, Leave, TypeOK, Label
<1>3. Counted' /\ nIdle' \in Nat /\ nTotal' \in Nat
  <2>1. Inside' = Inside \ {t} /\ Idle' = Idle \ {t}
    BY <1>1, <1>2, MembersMove DEF Label
  <2>2. t = Master => Inside \ {t} = Inside
    BY <1>1 DEF Inside
  <2>3. IsFiniteSet(Idle') /\ Cardinality(Idle') = Cardinality(Idle) - 1
    BY <1>1, <2>1, FS_RemoveElement DEF Counted
  <2>4. /\ IsFiniteSet(Inside')
        /\ Cardinality(Inside') = IF t = Master THEN Cardinality(Inside) ELSE Cardinality(Inside) - 1
    BY <1>1, <2>1, <2>2, FS_RemoveElement DEF Counted
  <2>5. Counted'
    BY <2>3, <2>4 DEF Counted, Leave
  <2> QED BY <2>5, FS_CardinalityType DEF Counted
<1>4. TypeOK'
  <2>1. batch' \in [added : 0..MaxChecks, bad : BOOLEAN, waited : BOOLEAN, result : BOOLEAN]
    BY DEF Leave, TypeOK
  <2>2. pc' \in [Thread -> Label] /\ mutex' \in Thread \cup {Free}
    BY <1>2 DEF Wakes, Leave
  <2> QED BY <1>3, <2>1, <2>2 DEF TypeOK, Leave, Label
<1>5. Control'
  <2>1. \A u \in Thread : pc'[u] = IF u = t THEN l ELSE pc[u]
    BY DEF Leave, TypeOK
  <2>2. mutex' = Free /\ \A u \in Thread : u # Free
    BY ConstantsOK DEF Leave
  <2>3. vChecks' = vChecks /\ vChecks[t] = <<>> /\ (t # Master => batch' = batch)
    BY DEF Leave, AtTop, Control
  <2>4. \A u \in Thread : u # t => pc[u] # "top"
    BY DEF AtTop, Control
  <2>5. Master \in Thread /\ \A w \in Worker : w \in Thread /\ w # Master
    BY ConstantsOK DEF Thread
  <2> QED BY <2>1, <2>2, <2>3, <2>4, <2>5 DEF Control
<1>6. Todo' /\ BadRemembered'
  <2>1. InFlight' = InFlight /\ UNCHANGED <<queue, nTodo, fAllOk, fQuit, vChecks>>
    BY DEF Leave, InFlight
  <2>2. batch'.added = batch.added /\ batch'.bad = batch.bad
    BY DEF Leave, TypeOK
  <2>3. pc'[Master] = "idle" => t = Master \/ pc[Master] = "idle"
    BY DEF Leave, TypeOK, Thread
  <2> QED BY <2>1, <2>2, <2>3 DEF Todo, BadRemembered, BadPending
<1>7. WaitSound'
  BY DEF Leave, WaitSound, TypeOK
<1> QED BY <1>3, <1>4, <1>5, <1>6, <1>7

\* Nothing is queued or in hand when nTodo is 0.
LEMMA AllAccounted ==
    ASSUME IInv, ~fQuit, nTodo = 0
    PROVE  queue = <<>> /\ \A t \in Thread : vChecks[t] = <<>>
<1> USE DEF IInv
<1>1. Len(queue) \in Nat /\ Cardinality(InFlight) \in Nat
  BY FS_CardinalityType DEF TypeOK, Todo
<1>2. Len(queue) = 0 /\ Cardinality(InFlight) = 0
  BY <1>1 DEF Todo
<1>3. InFlight = {}
  BY <1>2, FS_EmptySet DEF Todo
<1>4. ASSUME NEW t \in Thread PROVE vChecks[t] = <<>>
  <2>1. vChecks[t] \in Seq(BOOLEAN)
    BY DEF TypeOK
  <2>2. 1 \notin DOMAIN vChecks[t]
    <3>1. 1 \in DOMAIN vChecks[t] => <<t, 1>> \in InFlight
      BY DEF InFlight
    <3> QED BY <1>3, <3>1
  <2>3. DOMAIN vChecks[t] = 1 .. Len(vChecks[t]) /\ Len(vChecks[t]) \in Nat
    BY <2>1
  <2>4. Len(vChecks[t]) = 0
    BY <2>2, <2>3
  <2> QED BY <2>1, <2>4, EmptySeq
<1>5. queue = <<>>
  BY <1>2, EmptySeq DEF TypeOK
<1> QED BY <1>4, <1>5

\* A thread leaves Loop, on Quit or because the batch is done.
LEMMA LeaveLoopKeeps ==
    ASSUME IInv, NEW t \in Thread, LeaveOnQuit(t) \/ LeaveDone(t)
    PROVE  IInv'
<1>1. CASE LeaveOnQuit(t)
  BY <1>1, LeaveKeeps DEF LeaveOnQuit
<1>2. CASE LeaveDone(t)
  <2>1. AtTop(t) /\ ~fQuit /\ t = Master /\ nTodo = 0 /\ Leave(t, fAllOk) /\ fAllOk \in BOOLEAN
    BY <1>2 DEF LeaveDone, MasterDone, IInv, TypeOK
  <2>2. ~BadPending
    <3>1. Len(queue) = 0 /\ \A u \in Thread : Len(vChecks[u]) = 0
      BY <2>1, AllAccounted
    <3> QED BY <3>1 DEF BadPending
  <2>3. ~fAllOk \/ ~batch.bad
    BY <2>1, <2>2 DEF IInv, BadRemembered
  <2> QED BY <2>1, <2>3, LeaveKeeps
<1> QED BY <1>1, <1>2

\* A thread waits on its condition variable.
LEMMA SleepKeeps ==
    ASSUME IInv, NEW t \in Thread, Sleep(t)
    PROVE  IInv'
<1> USE DEF IInv
<1>1. TypeOK'
  BY DEF TypeOK, Sleep
<1>2. \A u \in Thread : pc'[u] = IF u = t THEN "asleep" ELSE pc[u]
  BY DEF Sleep, TypeOK
<1>3. pc[t] = "top"
  BY DEF Sleep, AtTop
<1>4. Inside' = Inside /\ Idle' = Idle
  BY <1>2, <1>3 DEF Inside, Idle, Thread
<1>5. Control'
  <2>1. mutex' = Free /\ \A u \in Thread : u # Free
    BY ConstantsOK DEF Sleep
  <2>2. \A u \in Thread : u # t => pc[u] # "top"
    BY DEF Sleep, AtTop, Control
  <2> QED BY <1>2, <1>3, <2>1, <2>2 DEF Control, Sleep, Thread
<1>6. Counted'
  BY <1>4 DEF Counted, Sleep
<1>7. Todo' /\ BadRemembered' /\ WaitSound'
  <2>1. InFlight' = InFlight /\ UNCHANGED <<queue, nTodo, fAllOk, fQuit, vChecks, batch>>
    BY DEF Sleep, InFlight
  <2>2. pc'[Master] = "idle" => pc[Master] = "idle"
    BY <1>2, <1>3 DEF Thread
  <2> QED BY <2>1, <2>2 DEF Todo, BadRemembered, BadPending, WaitSound
<1> QED BY <1>1, <1>5, <1>6, <1>7

\* Sleepers are notified and nothing else changes: Quit's notifications, a
\* spurious wakeup.  fQuit may be set.
LEMMA WakeKeeps ==
    ASSUME IInv, Wakes(pc, pc'), fQuit' \in BOOLEAN, fQuit => fQuit',
           UNCHANGED <<mutex, queue, nIdle, nTotal, nTodo, fAllOk, fOk, vChecks, batch>>
    PROVE  IInv'
<1> USE DEF IInv
<1>1. TypeOK'
  BY DEF TypeOK, Wakes, Label
<1>2. Inside' = Inside /\ Idle' = Idle /\ InFlight' = InFlight
  BY MembersWake DEF InFlight
<1>3. \A u \in Thread : pc'[u] = pc[u] \/ (pc[u] = "asleep" /\ pc'[u] = "woken")
  BY DEF Wakes
<1>4. Control'
  BY <1>3 DEF Control, Thread
<1>5. Counted'
  BY <1>2 DEF Counted
<1>6. Todo' /\ BadRemembered' /\ WaitSound'
  BY <1>2, <1>3 DEF Todo, BadRemembered, BadPending, WaitSound, Thread
<1> QED BY <1>1, <1>4, <1>5, <1>6

\* Quit, at any time.
LEMMA QuitKeeps ==
    ASSUME IInv, Quit
    PROVE  IInv'
<1>1. pc \in [Thread -> Label]
  BY DEF IInv, TypeOK, Label
<1>2. Wakes(pc, NotifyAll(Worker, pc))
  BY <1>1, NotifyWakes
<1>3. Wakes(NotifyAll(Worker, pc), pc')
  BY <1>2, NotifyWakes DEF Quit, Wakes
<1>4. Wakes(pc, pc')
  BY <1>2, <1>3 DEF Wakes
<1> QED BY <1>4, WakeKeeps DEF Quit

\* A condition variable wakes a thread for no reason.
LEMMA SpuriousWakeupKeeps ==
    ASSUME IInv, NEW t \in Thread, SpuriousWakeup(t)
    PROVE  IInv'
<1>1. Wakes(pc, pc')
  BY DEF SpuriousWakeup, Wakes, IInv, TypeOK, Label
<1> QED BY <1>1, WakeKeeps DEF SpuriousWakeup, IInv, TypeOK

\* A thread takes the mutex again.
LEMMA RelockKeeps ==
    ASSUME IInv, NEW t \in Thread, Relock(t)
    PROVE  IInv'
<1> USE DEF IInv
<1>1. TypeOK'
  BY DEF TypeOK, Relock
<1>2. \A u \in Thread : pc'[u] = IF u = t THEN "top" ELSE pc[u]
  BY DEF Relock, TypeOK
<1>3. pc[t] = "woken"
  BY DEF Relock
<1>4. Inside' = Inside /\ Idle' = Idle /\ InFlight' = InFlight
  BY <1>2, <1>3 DEF Inside, Idle, Thread, InFlight, Relock
<1>5. Control'
  <2>1. mutex' = t /\ \A u \in Thread : pc[u] # "top"
    BY ConstantsOK DEF Relock, Control
  <2> QED BY <1>2, <1>3, <2>1 DEF Control, Relock, Thread
<1>6. Counted'
  BY <1>4 DEF Counted, Relock
<1>7. Todo' /\ BadRemembered' /\ WaitSound'
  <2>1. UNCHANGED <<queue, nTodo, fAllOk, fQuit, vChecks, batch>>
    BY DEF Relock
  <2>2. pc'[Master] = "idle" => pc[Master] = "idle"
    BY <1>2, <1>3 DEF Thread
  <2> QED BY <1>4, <2>1, <2>2 DEF Todo, BadRemembered, BadPending, WaitSound
<1> QED BY <1>1, <1>5, <1>6, <1>7

\* Take splits the queue: each of its checks stays queued or comes in hand.
LEMMA TakeKeeps ==
    ASSUME IInv, NEW t \in Thread, Take(t)
    PROVE  IInv'
<1> USE DEF IInv
<1> DEFINE s == SubSeq(queue, 1, nNow)
           r == SubSeq(queue, nNow + 1, Len(queue))
<1>1. /\ pc[t] = "top" /\ mutex = t /\ queue # <<>> /\ vChecks[t] = <<>>
      /\ queue \in Seq(BOOLEAN) /\ Len(queue) \in Nat /\ nNow \in 1 .. Len(queue)
  BY nNowInRange DEF Take, AtTop, Control, TypeOK
<1>2. /\ s \in Seq(BOOLEAN) /\ Len(s) = nNow
      /\ r \in Seq(BOOLEAN) /\ Len(r) = Len(queue) - nNow
  <2> HIDE DEF nNow
  <2>1. \A i \in 1 .. Len(queue) : queue[i] \in BOOLEAN
    BY <1>1
  <2> QED BY <1>1, <2>1, SubSeqProperties
<1>3. /\ \A i \in 1 .. nNow : s[i] = queue[i]
      /\ \A i \in 1 .. Len(queue) - nNow : r[i] = queue[nNow + i]
  <2> HIDE DEF nNow
  <2>1. \A i \in 1 .. Len(queue) : queue[i] \in BOOLEAN
    BY <1>1
  <2> QED BY <1>1, <2>1
<1>4. vChecks' = [vChecks EXCEPT ![t] = s] /\ queue' = r
  BY DEF Take
<1> HIDE DEF s, r
<1>5. \A u \in Thread : pc'[u] = IF u = t THEN "running" ELSE pc[u]
  BY DEF Take, TypeOK
<1>6. Counted' /\ nIdle' \in Nat
  <2>1. Wakes([pc EXCEPT ![t] = "running"], pc')
    BY DEF Wakes, Take, TypeOK, Label
  <2>2. Inside' = Inside /\ Idle' = Idle \ {t} /\ t \in Idle
    BY <1>1, <1>5 DEF Inside, Idle, Thread
  <2>3. IsFiniteSet(Idle') /\ Cardinality(Idle') = Cardinality(Idle) - 1
    BY <2>2, FS_RemoveElement DEF Counted
  <2>4. Counted'
    BY <2>2, <2>3 DEF Counted, Take
  <2> QED BY <2>4, FS_CardinalityType DEF Counted
<1>7. TypeOK'
  <2>1. vChecks' \in [Thread -> Seq(BOOLEAN)] /\ queue' \in Seq(BOOLEAN)
    BY <1>2, <1>4 DEF TypeOK
  <2>2. pc' \in [Thread -> Label] /\ mutex' = Free
    BY DEF Take, TypeOK, Label
  <2> QED BY <1>6, <2>1, <2>2 DEF TypeOK, Take, Label
<1>8. Control'
  <2>1. mutex' = Free /\ \A u \in Thread : u # Free /\ (u # t => pc[u] # "top")
    BY <1>1, ConstantsOK DEF Take, Control
  <2>2. vChecks'[t] # <<>> /\ \A u \in Thread \ {t} : vChecks'[u] = vChecks[u]
    BY <1>1, <1>2, <1>4 DEF TypeOK
  <2>3. batch' = batch /\ Master \in Thread /\ Worker \subseteq Thread
    BY DEF Take, Thread
  <2> QED BY <1>1, <1>5, <2>1, <2>2, <2>3 DEF Control
<1>9. Todo'
  <2>1. /\ IsFiniteSet(InFlight') /\ Cardinality(InFlight) \in Nat
        /\ Cardinality(InFlight') = Cardinality(InFlight) + nNow
    <3>1. Len(vChecks[t]) = 0
      BY <1>1
    <3>2. TypeOK /\ IsFiniteSet(InFlight)
      BY DEF Todo
    <3>3. /\ IsFiniteSet(InFlight') /\ Cardinality(InFlight) \in Nat
          /\ Cardinality(InFlight') = Cardinality(InFlight) - Len(vChecks[t]) + Len(s)
      BY <1>2, <1>4, <3>2, InFlightMoves
    <3>4. Len(s) = nNow /\ nNow \in Nat
      BY <1>1, <1>2
    <3> HIDE DEF nNow
    <3> QED BY <3>1, <3>3, <3>4
  <2>2. UNCHANGED <<nTodo, fQuit, batch>> /\ (pc'[Master] = "idle" => pc[Master] = "idle")
    BY <1>5 DEF Take, Thread
  <2>3. Len(queue') + Cardinality(InFlight') = Len(queue) + Cardinality(InFlight)
    <3>1. Len(queue') = Len(queue) - nNow /\ Len(queue) \in Nat /\ nNow \in Nat
      BY <1>1, <1>2, <1>4
    <3> HIDE DEF nNow
    <3> QED BY <2>1, <3>1
  <2> QED BY <2>1, <2>2, <2>3 DEF Todo
<1>10. BadPending => BadPending'
  <2>1. ASSUME NEW i \in 1 .. Len(queue), ~queue[i] PROVE BadPending'
    <3>1. CASE i <= nNow
      <4>1. i \in 1 .. Len(s) /\ ~s[i]
        BY <1>1, <1>2, <1>3, <2>1, <3>1
      <4>2. vChecks'[t] = s
        BY <1>4 DEF TypeOK
      <4> QED BY <4>1, <4>2 DEF BadPending
    <3>2. CASE i > nNow
      <4>1. i - nNow \in 1 .. Len(r) /\ ~r[i - nNow]
        BY <1>1, <1>2, <1>3, <2>1, <3>2
      <4> QED BY <1>4, <4>1 DEF BadPending
    <3> QED BY <1>1, <3>1, <3>2
  <2>2. ASSUME NEW u \in Thread, NEW i \in 1 .. Len(vChecks[u]), ~vChecks[u][i] PROVE BadPending'
    <3>1. u # t
      BY <1>1, <2>2
    <3>2. vChecks'[u] = vChecks[u]
      BY <1>4, <3>1 DEF TypeOK
    <3> QED BY <2>2, <3>2 DEF BadPending
  <2> QED BY <2>1, <2>2 DEF BadPending
<1>11. BadRemembered' /\ WaitSound'
  BY <1>10 DEF BadRemembered, WaitSound, Take
<1> QED BY <1>6, <1>7, <1>8, <1>9, <1>11

\* Finish accounts for all a thread took: nTodo stays exact, and a failing check
\* among them turns fAllOk false.
LEMMA FinishKeeps ==
    ASSUME IInv, NEW t \in Thread, Finish(t)
    PROVE  IInv'
<1> USE DEF IInv
<1> DEFINE newpc == [pc EXCEPT ![t] = "top"]
           n == Len(vChecks[t])
<1>1. /\ pc[t] = "running" /\ mutex = Free /\ mutex' = t
      /\ vChecks' = [vChecks EXCEPT ![t] = <<>>] /\ nIdle' = nIdle + 1
      /\ nTodo' = TodoLess(n) /\ UNCHANGED <<queue, nTotal, fQuit, batch>>
  BY DEF Finish
<1>2. Wakes(newpc, pc')
  <2>1. newpc \in [Thread -> Label] /\ {Master} \subseteq Thread
    BY DEF TypeOK, Label, Thread
  <2>2. pc' = newpc \/ NotifyOne({Master}, newpc)
    BY DEF Finish
  <2>3. pc' = newpc => Wakes(newpc, pc')
    BY <2>1 DEF Wakes
  <2> HIDE DEF newpc
  <2> QED BY <2>1, <2>2, <2>3, NotifyWakes
<1>3. pc'[t] = "top" /\ \A u \in Thread \ {t} : pc'[u] = pc[u] \/ (pc[u] = "asleep" /\ pc'[u] = "woken")
  BY <1>2 DEF Wakes, TypeOK
<1>4. n \in Nat /\ nTodo' \in 0 .. Word - 1
  BY <1>1, ConstantsOK DEF TypeOK, TodoLess
<1>5. RunChecks(t) \in BOOLEAN
  BY DEF RunChecks
<1>6. TypeOK'
  <2>1. vChecks' \in [Thread -> Seq(BOOLEAN)]
    BY <1>1 DEF TypeOK
  <2>2. pc' \in [Thread -> Label] /\ mutex' \in Thread \cup {Free}
    BY <1>1, <1>2 DEF Wakes
  <2>3. fOk' \in [Thread -> BOOLEAN] /\ fAllOk' \in BOOLEAN
    BY <1>5 DEF Finish, TypeOK
  <2> QED BY <1>1, <1>4, <2>1, <2>2, <2>3 DEF TypeOK, Label
<1>7. Control'
  <2>1. \A u \in Thread : pc[u] # "top"
    BY <1>1, ConstantsOK DEF Control
  <2>2. vChecks'[t] = <<>> /\ \A u \in Thread \ {t} : vChecks'[u] = vChecks[u]
    BY <1>1 DEF TypeOK
  <2>3. Master \in Thread /\ Worker \subseteq Thread
    BY DEF Thread
  <2> QED BY <1>1, <1>3, <2>1, <2>2, <2>3 DEF Control
<1>8. Counted'
  <2>1. Inside' = Inside /\ Idle' = Idle \cup {t} /\ t \notin Idle
    BY <1>1, <1>3 DEF Inside, Idle, Thread
  <2>2. IsFiniteSet(Idle') /\ Cardinality(Idle') = Cardinality(Idle) + 1
    BY <2>1, FS_AddElement DEF Counted
  <2> QED BY <1>1, <2>1, <2>2 DEF Counted
<1>9. Todo'
  <2>1. /\ IsFiniteSet(InFlight') /\ Cardinality(InFlight) \in Nat /\ n <= Cardinality(InFlight)
        /\ Cardinality(InFlight') = Cardinality(InFlight) - n
    <3>1. <<>> \in Seq(BOOLEAN) /\ Len(<<>>) = 0
      OBVIOUS
    <3>2. TypeOK /\ IsFiniteSet(InFlight)
      BY DEF Todo
    <3>3. /\ IsFiniteSet(InFlight') /\ Cardinality(InFlight) \in Nat /\ n <= Cardinality(InFlight)
          /\ Cardinality(InFlight') = Cardinality(InFlight) - n + Len(<<>>)
      BY <1>1, <3>1, <3>2, InFlightMoves
    <3> QED BY <1>4, <3>1, <3>3
  <2>2. ASSUME ~fQuit PROVE nTodo' = nTodo - n /\ nTodo' = Len(queue') + Cardinality(InFlight')
    <3>1. nTodo = Len(queue) + Cardinality(InFlight) /\ Len(queue) \in Nat /\ nTodo \in 0 .. Word - 1
      BY <2>2 DEF Todo, TypeOK
    <3>2. nTodo - n \in 0 .. Word - 1
      BY <1>4, <2>1, <3>1, ConstantsOK
    <3>3. nTodo' = nTodo - n
      BY <1>1, <3>2, ConstantsOK DEF TodoLess
    <3> QED BY <1>1, <1>4, <2>1, <3>1, <3>3
  <2>3. pc'[Master] = "idle" => pc[Master] = "idle"
    BY <1>3 DEF Thread
  <2>4. ~fQuit => nTodo' <= batch.added /\ (pc'[Master] = "idle" => nTodo' = 0)
    BY <1>4, <2>2, <2>3 DEF Todo, TypeOK
  <2> QED BY <1>1, <2>1, <2>2, <2>4 DEF Todo
<1>10. BadPending => BadPending' \/ ~fAllOk'
  <2>1. ASSUME NEW i \in 1 .. Len(queue), ~queue[i] PROVE BadPending'
    BY <1>1, <2>1 DEF BadPending
  <2>2. ASSUME NEW u \in Thread, NEW i \in 1 .. Len(vChecks[u]), ~vChecks[u][i]
        PROVE  BadPending' \/ ~fAllOk'
    <3>1. CASE u = t
      <4>1. ~RunChecks(t)
        BY <2>2, <3>1 DEF RunChecks
      <4>2. fOk'[t] = RunChecks(t)
        BY DEF Finish, TypeOK
      <4> QED BY <4>1, <4>2 DEF Finish
    <3>2. CASE u # t
      <4>1. vChecks'[u] = vChecks[u]
        BY <1>1, <3>2 DEF TypeOK
      <4> QED BY <2>2, <4>1 DEF BadPending
    <3> QED BY <3>1, <3>2
  <2> QED BY <2>1, <2>2 DEF BadPending
<1>11. fAllOk' => fAllOk
  BY DEF Finish
<1>12. BadRemembered' /\ WaitSound'
  BY <1>1, <1>10, <1>11 DEF BadRemembered, WaitSound
<1> QED BY <1>6, <1>7, <1>8, <1>9, <1>12

\* The master begins a batch.
LEMMA StartBatchKeeps ==
    ASSUME IInv, StartBatch
    PROVE  IInv'
<1> USE DEF IInv
<1>1. TypeOK'
  <2>1. batch' \in [added : 0 .. MaxChecks, bad : BOOLEAN, waited : BOOLEAN, result : BOOLEAN]
    BY ConstantsOK DEF StartBatch, NoWait
  <2>2. pc' \in [Thread -> Label]
    BY DEF StartBatch, TypeOK, Label
  <2>3. nTodo' \in 0 .. Word - 1 /\ fAllOk' \in BOOLEAN
    BY ConstantsOK DEF StartBatch
  <2> QED BY <2>1, <2>2, <2>3 DEF TypeOK, StartBatch, Label
<1>2. \A u \in Thread : pc'[u] = IF u = Master THEN "batch" ELSE pc[u]
  BY DEF StartBatch, TypeOK
<1>3. pc[Master] = "idle" /\ Master \in Thread /\ Master \notin Worker /\ Worker \subseteq Thread
  BY ConstantsOK DEF StartBatch, Thread
<1>4. Inside' = Inside /\ Idle' = Idle /\ InFlight' = InFlight
  BY <1>2, <1>3 DEF Inside, Idle, InFlight, StartBatch
<1>5. Control'
  BY <1>2, <1>3 DEF Control, StartBatch, NoWait
<1>6. Counted'
  BY <1>4 DEF Counted, StartBatch
<1>7. Todo'
  <2>1. /\ IsFiniteSet(InFlight) /\ UNCHANGED <<queue, fQuit>> /\ nTodo' = 0
        /\ batch'.added = 0 /\ pc'[Master] # "idle"
    BY <1>2, <1>3 DEF Todo, StartBatch, NoWait
  <2>2. ~fQuit => nTodo = 0 /\ nTodo = Len(queue) + Cardinality(InFlight)
    BY <1>3 DEF Todo
  <2> QED BY <1>4, <2>1, <2>2 DEF Todo
<1>8. BadRemembered' /\ WaitSound'
  BY DEF BadRemembered, WaitSound, StartBatch, NoWait
<1> QED BY <1>1, <1>5, <1>6, <1>7, <1>8

\* The master adds checks.
LEMMA AddKeeps ==
    ASSUME IInv, NEW v \in Seq(BOOLEAN), Add(v)
    PROVE  IInv'
<1> USE DEF IInv
<1>1. /\ pc[Master] = "batch" /\ Len(v) \in Nat /\ Len(queue) \in Nat
      /\ batch.added + Len(v) <= MaxChecks /\ batch.added \in Nat
      /\ queue' = queue \o v /\ nTodo' = (nTodo + Len(v)) % Word
      /\ UNCHANGED <<mutex, nIdle, nTotal, fAllOk, fQuit, fOk, vChecks>>
  BY DEF Add, TypeOK
<1>2. /\ batch'.added = batch.added + Len(v) /\ batch'.waited = batch.waited
      /\ batch'.result = batch.result
      /\ batch'.bad = (batch.bad \/ \E i \in 1 .. Len(v) : ~v[i])
      /\ batch' \in [added : 0..MaxChecks, bad : BOOLEAN, waited : BOOLEAN, result : BOOLEAN]
  <2> DEFINE bad == batch.bad \/ \E i \in 1 .. Len(v) : ~v[i]
  <2>1. /\ batch \in [added : 0..MaxChecks, bad : BOOLEAN, waited : BOOLEAN, result : BOOLEAN]
        /\ batch' = [batch EXCEPT !.added = @ + Len(v), !.bad = bad]
    BY DEF Add, TypeOK
  <2>2. bad \in BOOLEAN /\ batch.added + Len(v) \in 0 .. MaxChecks
    BY <1>1, ConstantsOK
  <2> HIDE DEF bad
  <2>3. /\ batch'.added = batch.added + Len(v) /\ batch'.waited = batch.waited
        /\ batch'.result = batch.result /\ batch'.bad = bad
    BY <2>1
  <2>4. batch' \in [added : 0..MaxChecks, bad : BOOLEAN, waited : BOOLEAN, result : BOOLEAN]
    BY <2>1, <2>2
  <2> QED BY <2>3, <2>4 DEF bad
<1>3. Wakes(pc, pc')
  <2>1. pc \in [Thread -> Label] /\ Worker \subseteq Thread
    BY DEF TypeOK, Label, Thread
  <2>2. NotifyOne(Worker, pc) \/ pc' = NotifyAll(Worker, pc)
    BY DEF Add
  <2> QED BY <2>1, <2>2, NotifyWakes
<1>4. /\ queue' \in Seq(BOOLEAN) /\ Len(queue') = Len(queue) + Len(v)
      /\ \A i \in 1 .. Len(queue) : queue'[i] = queue[i]
      /\ \A i \in 1 .. Len(v) : queue'[Len(queue) + i] = v[i]
  <2>1. queue \in Seq(BOOLEAN)
    BY DEF TypeOK
  <2>2. /\ queue' \in Seq(BOOLEAN) /\ Len(queue') = Len(queue) + Len(v)
        /\ \A i \in 1 .. Len(queue) + Len(v) :
              queue'[i] = IF i <= Len(queue) THEN queue[i] ELSE v[i - Len(queue)]
    BY <1>1, <2>1, ConcatProperties
  <2> QED BY <1>1, <2>2
<1>5. TypeOK'
  <2>1. nTodo' \in 0 .. Word - 1
    BY <1>1, ConstantsOK DEF TypeOK
  <2>2. pc' \in [Thread -> Label]
    BY <1>3 DEF Wakes
  <2> QED BY <1>1, <1>2, <1>4, <2>1, <2>2 DEF TypeOK, Label
<1>6. \A u \in Thread : pc'[u] = pc[u] \/ (pc[u] = "asleep" /\ pc'[u] = "woken")
  BY <1>3 DEF Wakes
<1>7. Control'
  BY <1>1, <1>2, <1>6 DEF Control, Thread
<1>8. Inside' = Inside /\ Idle' = Idle /\ InFlight' = InFlight
  BY <1>1, <1>3, MembersWake DEF InFlight
<1>9. Counted'
  BY <1>1, <1>8 DEF Counted
<1>10. Todo'
  <2>1. ASSUME ~fQuit
        PROVE  nTodo' = Len(queue') + Cardinality(InFlight) /\ nTodo' <= batch'.added
    <3>1. /\ nTodo = Len(queue) + Cardinality(InFlight) /\ nTodo \in Nat /\ nTodo <= batch.added
          /\ Cardinality(InFlight) \in Nat
      BY <2>1, FS_CardinalityType DEF Todo, TypeOK
    <3>2. nTodo + Len(v) \in 0 .. Word - 1
      <4>0. batch.added + Len(v) <= MaxChecks /\ batch.added \in Nat /\ Len(v) \in Nat
        BY <1>1, Zenon
      <4>1. nTodo + Len(v) <= MaxChecks
        BY <3>1, <4>0, ConstantsOK
      <4>2. MaxChecks \in Nat /\ Word \in Nat /\ MaxChecks < Word
        BY ConstantsOK
      <4>3. nTodo + Len(v) \in Nat
        BY <1>1, <3>1
      <4> QED BY <4>1, <4>2, <4>3
    <3>3. nTodo' = nTodo + Len(v)
      <4>1. nTodo' = (nTodo + Len(v)) % Word
        BY <1>1, Zenon
      <4>2. nTodo + Len(v) \in Nat /\ nTodo + Len(v) < Word /\ Word \in Nat
        BY <3>2, ConstantsOK
      <4>3. (nTodo + Len(v)) % Word = nTodo + Len(v)
        BY <4>2, NoWrap
      <4> QED BY <4>1, <4>3, Zenon
    <3>4. Len(queue') = Len(queue) + Len(v) /\ batch'.added = batch.added + Len(v)
      BY <1>2, <1>4, Zenon
    <3>5. Len(v) \in Nat /\ Len(queue) \in Nat /\ batch.added \in Nat
      BY <1>1, Zenon
    <3> QED BY <3>1, <3>3, <3>4, <3>5
  <2>2. pc'[Master] # "idle"
    BY <1>1, <1>6 DEF Thread
  <2> QED BY <1>1, <1>8, <2>1, <2>2 DEF Todo
<1>11. BadRemembered'
  <2>1. ASSUME NEW i \in 1 .. Len(v), ~v[i] PROVE BadPending'
    <3>1. Len(queue) + i \in 1 .. Len(queue') /\ ~queue'[Len(queue) + i]
      BY <1>1, <1>4, <2>1
    <3> QED BY <3>1 DEF BadPending
  <2>2. ASSUME NEW i \in 1 .. Len(queue), ~queue[i] PROVE BadPending'
    <3>1. i \in 1 .. Len(queue') /\ ~queue'[i]
      BY <1>1, <1>4, <2>2
    <3> QED BY <3>1 DEF BadPending
  <2>3. BadPending => BadPending'
    BY <1>1, <2>2 DEF BadPending
  <2> QED BY <1>1, <1>2, <2>1, <2>3 DEF BadRemembered
<1>12. WaitSound'
  BY <1>1, <1>2 DEF WaitSound, Control
<1> QED BY <1>5, <1>7, <1>9, <1>10, <1>11, <1>12

-----------------------------------------------------------------------------
(* The theorems                                                            *)

\* Every step keeps the invariant.
LEMMA NextKeeps == IInv /\ [Next]_vars => IInv'
<1> SUFFICES ASSUME IInv, [Next]_vars PROVE IInv'
  OBVIOUS
<1>1. ASSUME NEW t \in Thread, Acquire(t) PROVE IInv'
  BY <1>1, EnterKeeps, FinishKeeps, RelockKeeps DEF Acquire
<1>2. ASSUME NEW t \in Thread, LoopStep(t) PROVE IInv'
  BY <1>2, LeaveLoopKeeps, SleepKeeps, TakeKeeps DEF LoopStep
<1>3. ASSUME NEW t \in Thread, SpuriousWakeup(t) PROVE IInv'
  BY <1>3, SpuriousWakeupKeeps
<1>4. CASE StartBatch \/ Quit
  BY <1>4, StartBatchKeeps, QuitKeeps
<1>5. ASSUME NEW v \in BoundedSeq(BOOLEAN, MaxChecks), Add(v) PROVE IInv'
  <2>1. v \in Seq(BOOLEAN)
    BY ConstantsOK DEF BoundedSeq, SeqOf
  <2> QED BY <1>5, <2>1, AddKeeps
<1>6. CASE UNCHANGED vars
  <2>1. Inside' = Inside /\ Idle' = Idle /\ InFlight' = InFlight
    BY <1>6 DEF vars, Inside, Idle, InFlight
  <2>2. TypeOK' /\ Control' /\ WaitSound'
    BY <1>6 DEF vars, IInv, TypeOK, Control, WaitSound
  <2>3. Counted' /\ Todo' /\ BadRemembered'
    BY <1>6, <2>1 DEF vars, IInv, Counted, Todo, BadRemembered, BadPending
  <2> QED BY <2>2, <2>3 DEF IInv
<1> QED BY <1>1, <1>2, <1>3, <1>4, <1>5, <1>6 DEF Next

\* IInv is an invariant of the queue, for any number of threads and checks.
THEOREM Inductive == Spec => []IInv
  BY InitKeeps, NextKeeps, PTL DEF Spec

\* The types are right: in particular the counters nIdle and nTotal, which threads
\* that enter and leave Loop change in any order, never go below zero.
THEOREM TypeCorrect == Spec => []TypeOK
<1>1. IInv => TypeOK
  BY DEF IInv
<1> QED BY <1>1, Inductive, PTL

\* For any number of workers, nTodo is exactly the number of checks that are queued
\* or in the hands of a thread, until shutdown: no unsigned wrap, no check lost.
THEOREM TodoIsExact == Spec => []TodoAccounting
<1>1. IInv => TodoAccounting
  BY DEF IInv, Todo, TodoAccounting
<1> QED BY <1>1, Inductive, PTL

\* For any number of workers and any batch: Wait returns true only if no check of
\* the batch fails, whatever earlier batches and Quit do.
THEOREM WaitIsSound == Spec => []WaitSound
<1>1. IInv => WaitSound
  BY DEF IInv
<1> QED BY <1>1, Inductive, PTL

\* For any number of workers: before shutdown no check, which points into the block
\* being connected, is queued or in hand once Wait has returned.
THEOREM ChecksEndWithWait == Spec => []NoCheckOutlivesWait
<1>1. IInv => NoCheckOutlivesWait
  BY AllAccounted DEF IInv, Todo, NoCheckOutlivesWait
<1> QED BY <1>1, Inductive, PTL

=============================================================================
