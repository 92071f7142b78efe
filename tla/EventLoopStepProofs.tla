------------------------ MODULE EventLoopStepProofs -------------------------
(***************************************************************************)
(* The scheduler of the event loop: induction over an interval of numbers, *)
(* the order in which a pass visits the tasks, and what a step of the      *)
(* scheduler or of one task does to the task table, the tables of          *)
(* deadlines and the waits.                                                *)
(***************************************************************************)
EXTENDS EventLoop, WellFoundedInduction, TLAPS

-----------------------------------------------------------------------------
(* Induction over an interval of numbers, and functions defined along one. *)

\* A non-empty set of natural numbers has a least element
LEMMA LeastNatural ==
  ASSUME NEW T, T \subseteq Nat, T # {}
  PROVE  \E x \in T : \A y \in T : x <= y
<1>1. PICK x \in T : \A y \in T : ~(<<y, x>> \in OpToRel(<, Nat))
  BY Zenon, NatLessThanWellFounded, WFMin
<1>2. \A y \in T : ~(y < x)
  BY Zenon, <1>1 DEF OpToRel
<1> QED BY <1>2

\* Induction over 0 .. n, for a set of numbers instead of a predicate
LEMMA IntervalInduction ==
  ASSUME NEW n \in Nat, NEW G, 0 \in G, \A i \in 0 .. n - 1 : i \in G => i + 1 \in G
  PROVE  0 .. n \subseteq G
<1> DEFINE T == 0 .. n \ G
<1> SUFFICES ASSUME T # {} PROVE FALSE
  OBVIOUS
<1>1. PICK x \in T : \A y \in T : x <= y
  <2>1. T \subseteq Nat
    OBVIOUS
  <2> HIDE DEF T
  <2> QED BY Zenon, <2>1, LeastNatural
<1>2. x # 0 /\ x - 1 \in 0 .. n - 1
  BY <1>1
<1>3. x - 1 \in G
  BY <1>1, <1>2
<1> QED BY <1>1, <1>2, <1>3

\* F is what step makes of b along 1 .. n
IsIteration(F, n, S, b, step) ==
  /\ F \in [0 .. n -> S]
  /\ F[0] = b
  /\ \A i \in 1 .. n : F[i] = step[<<i, F[i - 1]>>]

\* A function defined by recursion along an interval exists
LEMMA Iteration ==
  ASSUME NEW n \in Nat, NEW S, NEW b \in S, NEW step \in [(1 .. n) \X S -> S]
  PROVE  \E F : IsIteration(F, n, S, b, step)
<1> DEFINE P(k) == \E F : IsIteration(F, k, S, b, step)
           G == {k \in 0 .. n : P(k)}
<1>1. 0 \in G
  <2> DEFINE H == [i \in 0 .. 0 |-> b]
  <2>1. IsIteration(H, 0, S, b, step)
    BY DEF IsIteration
  <2> HIDE DEF H
  <2>2. P(0)
    BY <2>1
  <2> HIDE DEF P
  <2> QED BY <2>2
<1>2. ASSUME NEW k \in 0 .. n - 1, k \in G
      PROVE  k + 1 \in G
  <2>1. PICK F : IsIteration(F, k, S, b, step)
    BY <1>2
  <2>2. F \in [0 .. k -> S] /\ F[0] = b /\ \A i \in 1 .. k : F[i] = step[<<i, F[i - 1]>>]
    BY <2>1 DEF IsIteration
  <2> DEFINE H == [i \in 0 .. k + 1 |-> IF i = k + 1 THEN step[<<k + 1, F[k]>>] ELSE F[i]]
  <2>3. H \in [0 .. k + 1 -> S]
    <3>1. <<k + 1, F[k]>> \in (1 .. n) \X S
      BY <2>2
    <3>2. step[<<k + 1, F[k]>>] \in S
      BY <3>1
    <3> QED BY <3>2, <2>2
  <2>4. H[0] = b
    BY <2>2
  <2>5. ASSUME NEW i \in 1 .. k + 1
        PROVE  H[i] = step[<<i, H[i - 1]>>]
    <3>1. H[i - 1] = F[i - 1]
      OBVIOUS
    <3>2. CASE i = k + 1
      <4>1. i - 1 = k
        BY <3>2
      <4>2. H[i] = step[<<k + 1, F[k]>>]
        BY <3>2
      <4>3. H[i - 1] = F[k]
        BY <3>1, <4>1
      <4> HIDE DEF H
      <4> QED BY <3>2, <4>2, <4>3
    <3>3. CASE i # k + 1
      <4>1. H[i] = F[i] /\ i \in 1 .. k
        BY <3>3
      <4> QED BY <3>1, <4>1, <2>2
    <3> QED BY <3>2, <3>3
  <2> HIDE DEF H
  <2>6. IsIteration(H, k + 1, S, b, step)
    BY <2>3, <2>4, <2>5 DEF IsIteration
  <2>7. P(k + 1)
    BY <2>6
  <2> HIDE DEF P
  <2> QED BY <2>7
<1> HIDE DEF G
<1>3. 0 .. n \subseteq G
  BY <1>1, <1>2, IntervalInduction
<1> QED BY <1>3 DEF G

-----------------------------------------------------------------------------
(* The order of a pass.                                                    *)

\* What the recursion of OnlyIn goes through
IsSelection(F, seq, S, X) ==
  /\ F \in [0 .. Len(seq) -> Seq(X)]
  /\ F[0] = << >>
  /\ \A i \in 1 .. Len(seq) : F[i] = IF seq[i] \in S THEN Append(F[i - 1], seq[i]) ELSE F[i - 1]
  /\ OnlyIn(seq, S) = F[Len(seq)]

LEMMA OnlyInUnfolds ==
  ASSUME NEW X, NEW seq \in Seq(X), NEW S
  PROVE  \E F : IsSelection(F, seq, S, X)
<1> DEFINE n == Len(seq)
           Z == Seq(X)
           e == << >>
           Op(i, s) == IF seq[i] \in S THEN Append(s, seq[i]) ELSE s
           step == [p \in (1 .. n) \X Z |-> Op(p[1], p[2])]
           Body(F) == [i \in 0 .. n |-> IF i = 0 THEN e ELSE Op(i, F[i - 1])]
           C == CHOOSE F : F = Body(F)
<1>1. n \in Nat /\ e \in Z /\ \A i \in 1 .. n : seq[i] \in X
  OBVIOUS
<1>2. \A i \in 1 .. n, s \in Z : Op(i, s) \in Z
  BY <1>1
<1>3. step \in [(1 .. n) \X Z -> Z] /\ \A i \in 1 .. n, s \in Z : step[<<i, s>>] = Op(i, s)
  <2> HIDE DEF n, Z, Op
  <2> QED BY <1>2
<1>4. PICK F : IsIteration(F, n, Z, e, step)
  <2> HIDE DEF n, step, Z, e
  <2> QED BY Zenon, <1>1, <1>3, Iteration
<1>5. F \in [0 .. n -> Z] /\ F[0] = e /\ \A i \in 1 .. n : F[i] = Op(i, F[i - 1])
  <2> HIDE DEF n, step, Z, Op, e
  <2>1. F \in [0 .. n -> Z] /\ F[0] = e /\ \A i \in 1 .. n : F[i] = step[<<i, F[i - 1]>>]
    BY <1>4 DEF IsIteration
  <2>2. \A i \in 1 .. n : i - 1 \in 0 .. n
    BY <1>1
  <2>3. \A i \in 1 .. n : F[i - 1] \in Z
    BY <2>1, <2>2
  <2> QED BY Zenon, <1>3, <2>1, <2>3
<1>6. F = Body(F)
  <2> HIDE DEF n, Z, Op, e
  <2>1. \A i \in 0 .. n : F[i] = Body(F)[i]
    <3> TAKE i \in 0 .. n
    <3>1. CASE i = 0
      BY <3>1, <1>5
    <3>2. CASE i # 0
      BY <3>2, <1>5, <1>1
    <3> QED BY <3>1, <3>2
  <2> QED BY <2>1, <1>5
<1>7. C = Body(C)
  <2> HIDE DEF Body
  <2> QED BY <1>6
<1>8. OnlyIn(seq, S) = C[n]
  BY DEF OnlyIn
<1>9. C \in [0 .. n -> Z] /\ C[0] = e /\ \A i \in 1 .. n : C[i] = Op(i, C[i - 1])
  <2> HIDE DEF C, n, Z, Op, e
  <2>1. C[0] = e /\ \A i \in 1 .. n : C[i] = Op(i, C[i - 1])
    BY <1>1, <1>7
  <2> DEFINE G == {i \in 0 .. n : C[i] \in Z}
  <2>2. 0 \in G
    BY <1>1, <2>1
  <2>3. \A i \in 0 .. n - 1 : i \in G => i + 1 \in G
    <3> TAKE i \in 0 .. n - 1
    <3>1. i + 1 \in 1 .. n /\ (i + 1) - 1 = i
      BY <1>1
    <3> QED BY <1>2, <2>1, <3>1
  <2>4. 0 .. n \subseteq G
    <3> HIDE DEF G
    <3> QED BY <1>1, <2>2, <2>3, IntervalInduction
  <2>5. C \in [0 .. n -> Z]
    BY <1>7, <2>4
  <2> QED BY <2>1, <2>5
<1>10. IsSelection(C, seq, S, X)
  <2> HIDE DEF C
  <2> QED BY <1>8, <1>9 DEF IsSelection
<1> QED BY <1>10

LEMMA AppendElements ==
  ASSUME NEW X, NEW s \in Seq(X), NEW x \in X, NEW S, x \in S,
         \A j \in 1 .. Len(s) : s[j] \in S
  PROVE  Append(s, x) # << >> /\ \A j \in 1 .. Len(Append(s, x)) : Append(s, x)[j] \in S
<1>1. Len(Append(s, x)) = Len(s) + 1 /\ Len(s) \in Nat
  OBVIOUS
<1>2. ASSUME NEW j \in 1 .. Len(s) + 1
      PROVE  Append(s, x)[j] \in S
  <2>1. CASE j = Len(s) + 1
    BY <2>1
  <2>2. CASE j # Len(s) + 1
    BY <2>2
  <2> QED BY <2>1, <2>2
<1>3. Append(s, x) # << >>
  <2> SUFFICES ASSUME Append(s, x) = << >> PROVE FALSE
    OBVIOUS
  <2>1. Len(Append(s, x)) = Len(<< >>)
    OBVIOUS
  <2>2. Len(<< >>) = 0
    OBVIOUS
  <2> QED BY <1>1, <2>1, <2>2
<1> QED BY <1>1, <1>2, <1>3

\* OnlyIn keeps exactly the elements that are in S
LEMMA OnlyInElements ==
  ASSUME NEW X, NEW seq \in Seq(X), NEW S
  PROVE  /\ OnlyIn(seq, S) \in Seq(X)
         /\ \A j \in 1 .. Len(OnlyIn(seq, S)) : OnlyIn(seq, S)[j] \in S
         /\ \A i \in 1 .. Len(seq) : seq[i] \in S => OnlyIn(seq, S) # << >>
<1> DEFINE n == Len(seq)
<1>1. PICK F : IsSelection(F, seq, S, X)
  BY OnlyInUnfolds
<1>2. /\ F \in [0 .. n -> Seq(X)]
      /\ F[0] = << >>
      /\ \A i \in 1 .. n : F[i] = IF seq[i] \in S THEN Append(F[i - 1], seq[i]) ELSE F[i - 1]
      /\ OnlyIn(seq, S) = F[n]
  BY <1>1 DEF IsSelection
<1>3. n \in Nat /\ \A i \in 1 .. n : seq[i] \in X
  OBVIOUS
<1> DEFINE Good(k) == /\ \A j \in 1 .. Len(F[k]) : F[k][j] \in S
                      /\ \A i \in 1 .. k : seq[i] \in S => F[k] # << >>
           G == {k \in 0 .. n : Good(k)}
<1>4. 0 \in G
  BY <1>2, <1>3
<1>5. ASSUME NEW k \in 0 .. n - 1, k \in G
      PROVE  k + 1 \in G
  <2>1. k + 1 \in 1 .. n /\ (k + 1) - 1 = k /\ k \in 0 .. n /\ k + 1 \in 0 .. n
    BY <1>3
  <2>2. F[k + 1] = IF seq[k + 1] \in S THEN Append(F[k], seq[k + 1]) ELSE F[k]
    BY <1>2, <2>1
  <2>3. F[k] \in Seq(X) /\ seq[k + 1] \in X /\ Good(k)
    BY Zenon, <1>2, <1>3, <1>5, <2>1
  <2>4. CASE seq[k + 1] \in S
    <3>1. F[k + 1] = Append(F[k], seq[k + 1])
      BY <2>2, <2>4
    <3>2. F[k + 1] # << >> /\ \A j \in 1 .. Len(F[k + 1]) : F[k + 1][j] \in S
      <4>1. \A j \in 1 .. Len(F[k]) : F[k][j] \in S
        BY <2>3
      <4> DEFINE s == F[k]
                 x == seq[k + 1]
      <4>2. s \in Seq(X) /\ x \in X /\ x \in S /\ \A j \in 1 .. Len(s) : s[j] \in S
        BY <2>3, <2>4, <4>1
      <4>3. F[k + 1] = Append(s, x)
        BY <3>1
      <4> HIDE DEF Good, s, x
      <4>4. Append(s, x) # << >> /\ \A j \in 1 .. Len(Append(s, x)) : Append(s, x)[j] \in S
        BY <4>2, AppendElements
      <4> QED BY <4>3, <4>4
    <3>3. Good(k + 1)
      BY <3>2
    <3> QED BY <2>1, <3>3
  <2>5. CASE seq[k + 1] \notin S
    <3>1. F[k + 1] = F[k]
      BY <2>2, <2>5
    <3>2. \A i \in 1 .. k + 1 : seq[i] \in S => i \in 1 .. k
      BY <2>1, <2>5
    <3>3. Good(k + 1)
      BY <2>3, <3>1, <3>2
    <3> QED BY <2>1, <3>3
  <2> QED BY <2>4, <2>5
<1>6. 0 .. n \subseteq G
  <2> HIDE DEF G, n
  <2> QED BY <1>3, <1>4, <1>5, IntervalInduction
<1>7. Good(n)
  <2>1. n \in 0 .. n
    BY <1>3
  <2> QED BY <1>6, <2>1
<1>8. F[n] \in Seq(X)
  BY <1>2, <1>3
<1> QED BY <1>2, <1>7, <1>8

\* Two parts of a sequence that leave out nothing
LEMMA SplitKeepsAll ==
  ASSUME NEW tids \in Seq(Tids), NEW S
  PROVE  LET both == OnlyIn(tids, S) \o OnlyIn(tids, Tids \ S)
             turned == OnlyIn(tids, Tids \ S) \o OnlyIn(tids, S)
         IN  /\ both \in Seq(Tids) /\ (both = << >> => tids = << >>)
             /\ turned \in Seq(Tids) /\ (turned = << >> => tids = << >>)
<1> DEFINE a == OnlyIn(tids, S)
           b == OnlyIn(tids, Tids \ S)
<1>1. a \in Seq(Tids) /\ \A i \in 1 .. Len(tids) : tids[i] \in S => a # << >>
  BY OnlyInElements
<1>2. b \in Seq(Tids) /\ \A i \in 1 .. Len(tids) : tids[i] \in Tids \ S => b # << >>
  BY OnlyInElements
<1>3. a = << >> /\ b = << >> => tids = << >>
  <2> SUFFICES ASSUME tids # << >> PROVE a # << >> \/ b # << >>
    OBVIOUS
  <2>1. 1 \in 1 .. Len(tids) /\ tids[1] \in Tids
    OBVIOUS
  <2> HIDE DEF a, b
  <2> QED BY <1>1, <1>2, <2>1
<1> HIDE DEF a, b
<1>4. a \o b \in Seq(Tids) /\ b \o a \in Seq(Tids)
  BY <1>1, <1>2
<1>5. (a \o b = << >> \/ b \o a = << >>) => a = << >> /\ b = << >>
  <2>1. Len(a \o b) = Len(a) + Len(b) /\ Len(b \o a) = Len(b) + Len(a)
    BY <1>1, <1>2
  <2>2. Len(a) \in Nat /\ Len(b) \in Nat
    BY <1>1, <1>2
  <2>3. (a \o b = << >> \/ b \o a = << >>) => Len(a) = 0 /\ Len(b) = 0
    BY <2>1, <2>2
  <2> QED BY <1>1, <1>2, <2>3
<1> QED BY <1>3, <1>4, <1>5 DEF a, b

LEMMA StickyOrderKeepsSome ==
  ASSUME NEW tids \in Seq(Tids), NEW candidate, NEW yield
  PROVE  /\ ApplyStickyOrder(tids, candidate, yield) \in Seq(Tids)
         /\ ApplyStickyOrder(tids, candidate, yield) = << >> => tids = << >>
<1> DEFINE as == candidate = {} \/ candidate \cap Range(tids) = {} \/ Len(tids) = 1
<1>1. CASE as
  BY <1>1 DEF ApplyStickyOrder
<1>2. CASE ~as /\ yield
  <2>1. ApplyStickyOrder(tids, candidate, yield)
          = OnlyIn(tids, Tids \ candidate) \o OnlyIn(tids, candidate)
    BY <1>2 DEF ApplyStickyOrder
  <2> QED BY <2>1, SplitKeepsAll
<1>3. CASE ~as /\ ~yield
  <2>1. ApplyStickyOrder(tids, candidate, yield) = OnlyIn(tids, candidate)
    BY <1>3 DEF ApplyStickyOrder
  <2>2. PICK i \in 1 .. Len(tids) : tids[i] \in candidate
    <3>1. DOMAIN tids = 1 .. Len(tids)
      OBVIOUS
    <3> QED BY <1>3, <3>1 DEF Range
  <2> QED BY <2>1, <2>2, OnlyInElements
<1> QED BY <1>1, <1>2, <1>3

\* A pass is empty only when no task is runnable
LEMMA OrderKeepsSome ==
  ASSUME NEW tasks, NEW yield
  PROVE  /\ Order(tasks, yield) \in Seq(Tids)
         /\ Order(tasks, yield) = << >> => \A t \in Tids : tasks[t].state # "runnable"
<1> DEFINE r == RunnableTids(tasks)
           p == PrioritizePendingForkExec(r)
<1>1. AllTids \in Seq(Tids) /\ Len(AllTids) = NumTasks /\ \A t \in Tids : AllTids[t] = t
  BY RunLoopAssumption DEF AllTids, Tids
<1>2. r \in Seq(Tids) /\ \A t \in Tids : tasks[t].state = "runnable" => r # << >>
  <2> DEFINE S == InState(tasks, "runnable")
  <2>1. r = OnlyIn(AllTids, S)
    BY DEF RunnableTids
  <2>2. \A t \in Tids : tasks[t].state = "runnable" => t \in S
    BY DEF InState
  <2>3. \A t \in Tids : t \in 1 .. Len(AllTids)
    BY <1>1 DEF Tids
  <2> HIDE DEF r, S
  <2>4. r \in Seq(Tids) /\ \A t \in Tids : AllTids[t] \in S => r # << >>
    BY <1>1, <2>1, <2>3, OnlyInElements
  <2> QED BY <1>1, <2>2, <2>4
<1>3. p \in Seq(Tids) /\ (p = << >> => r = << >>)
  <2> HIDE DEF r
  <2> QED BY <1>2, SplitKeepsAll DEF PrioritizePendingForkExec
<1>4. Order(tasks, yield) \in Seq(Tids) /\ (Order(tasks, yield) = << >> => p = << >>)
  <2>1. CASE scenario.sticky
    <3>1. Order(tasks, yield) = ApplyStickyOrder(p, StickyCandidate(tasks), yield)
      BY <2>1 DEF Order
    <3> HIDE DEF p
    <3> QED BY <1>3, <3>1, StickyOrderKeepsSome
  <2>2. CASE ~scenario.sticky
    BY <1>3, <2>2 DEF Order
  <2> QED BY <2>1, <2>2
<1> QED
  <2> HIDE DEF p, r
  <2> QED BY <1>2, <1>3, <1>4

-----------------------------------------------------------------------------
(* Tasks and deadlines: what the steps of the loop and of its tasks keep.  *)

\* No task begins to wait for an fd, and none changes the call it waits with
CallsKept ==
  \A t \in Tids :
    /\ task'[t].call \in {NoCall, task[t].call}
    /\ task'[t].state = "fd" => task'[t] = task[t]

LoopInv == LoopTyped /\ Deadlines

LEMMA RunnableTyped ==
  ASSUME NEW r \in TaskRecords
  PROVE  /\ Runnable(NoCall) \in TaskRecords /\ Runnable(r.call) \in TaskRecords
         /\ Exited \in TaskRecords
         /\ Runnable(NoCall).state = "runnable" /\ Runnable(r.call).state = "runnable"
         /\ Runnable(NoCall).call = NoCall /\ Runnable(r.call).call = r.call
         /\ Exited.state = "exited" /\ Exited.call = NoCall
BY EventLoopAssumption DEF TaskRecords, Runnable, Exited, Task, NoCall, NoKey

LEMMA RunnableRecord ==
  /\ Runnable(NoCall) \in TaskRecords /\ Exited \in TaskRecords
  /\ Runnable(NoCall).state = "runnable" /\ Runnable(NoCall).call = NoCall
  /\ Exited.state = "exited" /\ Exited.call = NoCall
BY EventLoopAssumption DEF TaskRecords, Runnable, Exited, Task, NoCall, NoKey

\* What a pass of the loop does to the tasks
LEMMA SchedulerEnterTasks ==
  ASSUME LoopTyped, NEW ready, SchedulerEnter(ready)
  PROVE  /\ task' \in [Tids -> TaskRecords]
         /\ \A t \in Tids :
              task'[t] = CASE task[t].state = "futex" /\ t \in Due(futexTimeouts, now) -> Runnable(NoCall)
                           [] task[t].state = "sleep" /\ t \in Due(sleepTimeouts, now) -> Runnable(NoCall)
                           [] task[t].state = "fd" /\ ready[t] -> Runnable(task[t].call)
                           [] OTHER -> task[t]
<1> DEFINE a == ResumeFdWaiters(task, ready)
           b == TimeOut(a, Due(futexTimeouts, now), "futex")
           c == TimeOut(b, Due(sleepTimeouts, now), "sleep")
<1>1. task \in [Tids -> TaskRecords] /\ task' = c
  BY DEF LoopTyped, SchedulerEnter
<1>2. \A t \in Tids : a[t] = IF task[t].state = "fd" /\ ready[t] THEN Runnable(task[t].call) ELSE task[t]
  BY DEF ResumeFdWaiters
<1>3. \A t \in Tids : b[t] = IF t \in Due(futexTimeouts, now) /\ a[t].state = "futex"
                             THEN Runnable(NoCall) ELSE a[t]
  <2> HIDE DEF a
  <2> QED BY DEF TimeOut
<1>4. \A t \in Tids : c[t] = IF t \in Due(sleepTimeouts, now) /\ b[t].state = "sleep"
                             THEN Runnable(NoCall) ELSE b[t]
  <2> HIDE DEF b
  <2> QED BY DEF TimeOut
<1>5. DOMAIN c = Tids /\ c = [t \in Tids |-> c[t]]
  BY DEF TimeOut
<1> HIDE DEF a, b, c
<1>6. ASSUME NEW t \in Tids
      PROVE  /\ c[t] \in TaskRecords
             /\ c[t] = CASE task[t].state = "futex" /\ t \in Due(futexTimeouts, now) -> Runnable(NoCall)
                         [] task[t].state = "sleep" /\ t \in Due(sleepTimeouts, now) -> Runnable(NoCall)
                         [] task[t].state = "fd" /\ ready[t] -> Runnable(task[t].call)
                         [] OTHER -> task[t]
  <2>1. task[t] \in TaskRecords
    BY <1>1
  <2>2. Runnable(task[t].call) \in TaskRecords /\ Runnable(NoCall) \in TaskRecords
    BY <2>1, RunnableTyped
  <2>3. Runnable(task[t].call).state = "runnable" /\ Runnable(NoCall).state = "runnable"
    BY <2>1, RunnableTyped
  <2>4. CASE task[t].state = "fd" /\ ready[t]
    BY <1>2, <1>3, <1>4, <2>2, <2>3, <2>4
  <2>5. CASE ~(task[t].state = "fd" /\ ready[t])
    <3>1. a[t] = task[t]
      BY <1>2, <2>5
    <3>2. CASE t \in Due(futexTimeouts, now) /\ task[t].state = "futex"
      <4>1. b[t] = Runnable(NoCall)
        BY <1>3, <3>1, <3>2
      <4> QED BY <1>4, <2>2, <2>3, <3>2, <4>1
    <3>3. CASE ~(t \in Due(futexTimeouts, now) /\ task[t].state = "futex")
      <4>1. b[t] = task[t]
        BY <1>3, <3>1, <3>3
      <4> QED BY <1>4, <2>1, <2>2, <2>5, <3>3, <4>1
    <3> QED BY <3>2, <3>3
  <2> QED BY <2>4, <2>5
<1>7. c \in [Tids -> TaskRecords]
  BY <1>5, <1>6
<1> QED BY <1>1, <1>6, <1>7

LEMMA SchedulerEnterKeeps ==
  ASSUME LoopInv, NEW ready, SchedulerEnter(ready)
  PROVE  LoopInv' /\ CallsKept
<1>1. LoopTyped /\ Deadlines /\ DeadlineOfTheWait
  BY DEF LoopInv, Deadlines
<1>2. task' \in [Tids -> TaskRecords]
  BY <1>1, SchedulerEnterTasks
<1>3. /\ futexTimeouts' = Prune(Keep(futexTimeouts, Tids \ Due(futexTimeouts, now)), task', "futex")
      /\ sleepTimeouts' = Prune(Keep(sleepTimeouts, Tids \ Due(sleepTimeouts, now)), task', "sleep")
      /\ budget' = IF budget = 0 THEN 0 ELSE budget - 1
      /\ pass' = Order(task', budget # 0)
      /\ pc' = IF pass' = << >> THEN "idle" ELSE "loop"
      /\ UNCHANGED <<word, lastTid, pending, woken, now, scenario>>
  BY DEF SchedulerEnter
<1>4. IsTable(futexTimeouts, Nat) /\ IsTable(sleepTimeouts, Nat)
  BY <1>1 DEF LoopTyped
<1>5. /\ IsTable(futexTimeouts', Nat)
      /\ DOMAIN futexTimeouts' = {t \in DOMAIN futexTimeouts : t \in Tids /\ ~(futexTimeouts[t] <= now)
                                                                /\ task'[t].state = "futex"}
      /\ \A t \in DOMAIN futexTimeouts' : futexTimeouts'[t] = futexTimeouts[t]
  BY <1>3, <1>4 DEF Prune, Keep, InState, Due, IsTable
<1>6. /\ IsTable(sleepTimeouts', Nat)
      /\ DOMAIN sleepTimeouts' = {t \in DOMAIN sleepTimeouts : t \in Tids /\ ~(sleepTimeouts[t] <= now)
                                                                /\ task'[t].state = "sleep"}
      /\ \A t \in DOMAIN sleepTimeouts' : sleepTimeouts'[t] = sleepTimeouts[t]
  BY <1>3, <1>4 DEF Prune, Keep, InState, Due, IsTable
<1>7. pass' \in Seq(Tids)
  <2> DEFINE yield == budget # 0
  <2>1. pass' = Order(task', yield)
    BY <1>3
  <2> HIDE DEF yield
  <2> QED BY <2>1, OrderKeepsSome
<1>8. budget' \in 0 .. YieldLimit
  BY <1>1, <1>3, RunLoopAssumption DEF LoopTyped
<1>9. LoopTyped'
  BY <1>1, <1>2, <1>3, <1>5, <1>6, <1>7, <1>8 DEF LoopTyped
<1>10. ASSUME NEW t \in Tids
       PROVE  \/ task'[t] = task[t] /\ (task[t].state = "futex" => t \notin Due(futexTimeouts, now))
                 /\ (task[t].state = "sleep" => t \notin Due(sleepTimeouts, now))
              \/ /\ task'[t].state = "runnable"
                 /\ task'[t].call \in {NoCall, task[t].call}
  <2>1. task[t] \in TaskRecords
    BY <1>1 DEF LoopTyped
  <2>2. task'[t] = CASE task[t].state = "futex" /\ t \in Due(futexTimeouts, now) -> Runnable(NoCall)
                     [] task[t].state = "sleep" /\ t \in Due(sleepTimeouts, now) -> Runnable(NoCall)
                     [] task[t].state = "fd" /\ ready[t] -> Runnable(task[t].call)
                     [] OTHER -> task[t]
    BY <1>1, SchedulerEnterTasks
  <2> QED BY <2>1, <2>2, RunnableTyped
<1>11. Deadlines'
  <2>1. ASSUME NEW t \in Tids, task'[t].state = "futex"
        PROVE  IF task'[t].deadline = 0 THEN t \notin DOMAIN futexTimeouts'
               ELSE t \in DOMAIN futexTimeouts' /\ futexTimeouts'[t] = task'[t].deadline
    <3>1. task'[t] = task[t] /\ t \notin Due(futexTimeouts, now)
      BY <1>10, <2>1
    <3> QED BY <1>1, <1>5, <2>1, <3>1 DEF DeadlineOfTheWait, Due
  <2>2. ASSUME NEW t \in Tids, task'[t].state = "sleep"
        PROVE  /\ t \in DOMAIN sleepTimeouts' /\ sleepTimeouts'[t] = task'[t].deadline
               /\ task'[t].deadline # 0
    <3>1. task'[t] = task[t] /\ t \notin Due(sleepTimeouts, now)
      BY <1>10, <2>2
    <3> QED BY <1>1, <1>6, <2>2, <3>1 DEF DeadlineOfTheWait, Deadlines, Due
  <2> QED BY <2>1, <2>2 DEF Deadlines, DeadlineOfTheWait
<1>12. CallsKept
  BY <1>10 DEF CallsKept
<1> QED BY <1>9, <1>11, <1>12 DEF LoopInv

LEMMA TimeOutTasks ==
  ASSUME task \in [Tids -> TaskRecords], NEW due, NEW state
  PROVE  /\ TimeOut(task, due, state) \in [Tids -> TaskRecords]
         /\ \A t \in Tids :
              TimeOut(task, due, state)[t] = IF t \in due /\ task[t].state = state
                                             THEN Runnable(NoCall) ELSE task[t]
BY RunnableRecord DEF TimeOut

\* A table that leaves nobody waiting with a deadline
LEMMA EmptyTable ==
  ASSUME NEW table, IsTable(table, Nat), NEW tasks, NEW state, Prune(table, tasks, state) = << >>
  PROVE  \A t \in DOMAIN table : tasks[t].state # state
<1>1. DOMAIN Prune(table, tasks, state) = {}
  OBVIOUS
<1> QED BY <1>1 DEF Prune, Keep, InState, IsTable

LEMMA ExpireNextFutexKeeps ==
  ASSUME LoopInv, ExpireNextFutex
  PROVE  LoopInv' /\ CallsKept
<1> DEFINE timeouts == Prune(futexTimeouts, task, "futex")
           due == Due(timeouts, Earliest(timeouts))
<1>1. LoopTyped /\ Deadlines /\ DeadlineOfTheWait /\ task \in [Tids -> TaskRecords]
      /\ IsTable(futexTimeouts, Nat)
  BY DEF LoopInv, Deadlines, LoopTyped
<1>2. /\ task' = TimeOut(task, due, "futex")
      /\ futexTimeouts' = Keep(timeouts, Tids \ due)
      /\ pc' = "loop"
      /\ UNCHANGED <<word, sleepTimeouts, budget, lastTid, pass, pending, woken, now, scenario>>
  BY DEF ExpireNextFutex
<1> HIDE DEF due
<1>3. /\ IsTable(timeouts, Nat)
      /\ DOMAIN timeouts = {t \in DOMAIN futexTimeouts : task[t].state = "futex"}
      /\ \A t \in DOMAIN timeouts : timeouts[t] = futexTimeouts[t]
  BY <1>1 DEF Prune, Keep, InState, IsTable
<1> HIDE DEF timeouts
<1>4. /\ IsTable(futexTimeouts', Nat)
      /\ DOMAIN futexTimeouts' = DOMAIN timeouts \cap (Tids \ due)
      /\ \A t \in DOMAIN futexTimeouts' : futexTimeouts'[t] = timeouts[t]
  BY <1>2, <1>3 DEF Keep, IsTable
<1>5. /\ task' \in [Tids -> TaskRecords]
      /\ \A t \in Tids : task'[t] = IF t \in due /\ task[t].state = "futex"
                                    THEN Runnable(NoCall) ELSE task[t]
  BY <1>1, <1>2, TimeOutTasks
<1>6. LoopTyped'
  BY <1>1, <1>2, <1>4, <1>5 DEF LoopTyped
<1>7. ASSUME NEW t \in Tids
      PROVE  \/ task'[t] = task[t] /\ (task[t].state = "futex" => t \notin due)
             \/ task'[t].state = "runnable" /\ task'[t].call = NoCall
  BY <1>5, RunnableRecord
<1>8. Deadlines'
  <2>1. ASSUME NEW t \in Tids, task'[t].state = "futex"
        PROVE  IF task'[t].deadline = 0 THEN t \notin DOMAIN futexTimeouts'
               ELSE t \in DOMAIN futexTimeouts' /\ futexTimeouts'[t] = task'[t].deadline
    <3>1. task'[t] = task[t] /\ t \notin due
      BY <1>7, <2>1
    <3> QED BY <1>1, <1>3, <1>4, <2>1, <3>1 DEF DeadlineOfTheWait
  <2>2. ASSUME NEW t \in Tids, task'[t].state = "sleep"
        PROVE  /\ t \in DOMAIN sleepTimeouts' /\ sleepTimeouts'[t] = task'[t].deadline
               /\ task'[t].deadline # 0
    <3>1. task'[t] = task[t]
      BY <1>7, <2>2
    <3> QED BY <1>1, <1>2, <2>2, <3>1 DEF DeadlineOfTheWait, Deadlines
  <2> QED BY <2>1, <2>2 DEF Deadlines, DeadlineOfTheWait
<1>9. CallsKept
  BY <1>7 DEF CallsKept
<1> QED BY <1>6, <1>8, <1>9 DEF LoopInv

LEMMA ExpireNextSleepKeeps ==
  ASSUME LoopInv, ExpireNextSleep
  PROVE  LoopInv' /\ CallsKept
<1> DEFINE timeouts == Prune(sleepTimeouts, task, "sleep")
           due == Due(timeouts, Earliest(timeouts))
<1>1. LoopTyped /\ Deadlines /\ DeadlineOfTheWait /\ task \in [Tids -> TaskRecords]
      /\ IsTable(sleepTimeouts, Nat) /\ IsTable(futexTimeouts, Nat)
  BY DEF LoopInv, Deadlines, LoopTyped
<1>2. /\ task' = TimeOut(task, due, "sleep")
      /\ sleepTimeouts' = Keep(timeouts, Tids \ due)
      /\ futexTimeouts' = << >>
      /\ Prune(futexTimeouts, task, "futex") = << >>
      /\ pc' = "loop"
      /\ UNCHANGED <<word, budget, lastTid, pass, pending, woken, now, scenario>>
  BY DEF ExpireNextSleep
<1> HIDE DEF due
<1>3. /\ IsTable(timeouts, Nat)
      /\ DOMAIN timeouts = {t \in DOMAIN sleepTimeouts : task[t].state = "sleep"}
      /\ \A t \in DOMAIN timeouts : timeouts[t] = sleepTimeouts[t]
  BY <1>1 DEF Prune, Keep, InState, IsTable
<1> HIDE DEF timeouts
<1>4. /\ IsTable(sleepTimeouts', Nat)
      /\ DOMAIN sleepTimeouts' = DOMAIN timeouts \cap (Tids \ due)
      /\ \A t \in DOMAIN sleepTimeouts' : sleepTimeouts'[t] = timeouts[t]
  BY <1>2, <1>3 DEF Keep, IsTable
<1>5. /\ task' \in [Tids -> TaskRecords]
      /\ \A t \in Tids : task'[t] = IF t \in due /\ task[t].state = "sleep"
                                    THEN Runnable(NoCall) ELSE task[t]
  BY <1>1, <1>2, TimeOutTasks
<1>6. DOMAIN futexTimeouts' = {} /\ IsTable(futexTimeouts', Nat)
  BY <1>2 DEF IsTable
<1>7. LoopTyped'
  BY <1>1, <1>2, <1>4, <1>5, <1>6 DEF LoopTyped
<1>8. ASSUME NEW t \in Tids
      PROVE  \/ task'[t] = task[t] /\ (task[t].state = "sleep" => t \notin due)
             \/ task'[t].state = "runnable" /\ task'[t].call = NoCall
  BY <1>5, RunnableRecord
<1>9. \A t \in DOMAIN futexTimeouts : task[t].state # "futex"
  BY <1>1, <1>2, EmptyTable
<1>10. Deadlines'
  <2>1. ASSUME NEW t \in Tids, task'[t].state = "futex"
        PROVE  IF task'[t].deadline = 0 THEN t \notin DOMAIN futexTimeouts'
               ELSE t \in DOMAIN futexTimeouts' /\ futexTimeouts'[t] = task'[t].deadline
    <3>1. task'[t] = task[t]
      BY <1>8, <2>1
    <3> QED BY <1>1, <1>6, <1>9, <2>1, <3>1 DEF DeadlineOfTheWait
  <2>2. ASSUME NEW t \in Tids, task'[t].state = "sleep"
        PROVE  /\ t \in DOMAIN sleepTimeouts' /\ sleepTimeouts'[t] = task'[t].deadline
               /\ task'[t].deadline # 0
    <3>1. task'[t] = task[t] /\ t \notin due
      BY <1>8, <2>2
    <3> QED BY <1>1, <1>3, <1>4, <2>2, <3>1 DEF DeadlineOfTheWait, Deadlines
  <2> QED BY <2>1, <2>2 DEF Deadlines, DeadlineOfTheWait
<1>11. CallsKept
  BY <1>8 DEF CallsKept
<1> QED BY <1>7, <1>10, <1>11 DEF LoopInv

LEMMA DispatchGives ==
  ASSUME LoopTyped, NEW t \in Tids, NEW name, Dispatch(t, name)
  PROVE  /\ pc = "loop" /\ pc' = "loop" /\ pass # << >> /\ pass' \in Seq(Tids)
         /\ now' = now /\ scenario' = scenario
         /\ task[t].state = "runnable" /\ name \in scenario.calls
BY DEF LoopTyped, Dispatch

\* A step that leaves the tasks and their deadlines alone
LEMMA QuietKeeps ==
  ASSUME LoopInv, UNCHANGED <<task, futexTimeouts, sleepTimeouts>>, LoopTyped'
  PROVE  LoopInv' /\ CallsKept
BY DEF LoopInv, Deadlines, DeadlineOfTheWait, CallsKept

LEMMA FreshRunTyped ==
  ASSUME LoopTyped, NEW t \in Tids, NEW name, RunsFresh(t, name)
  PROVE  /\ DOMAIN pending' \subseteq Tids /\ woken' \subseteq Tids
         /\ pc = "loop" /\ pc' = "loop" /\ pass # << >> /\ pass' \in Seq(Tids)
         /\ now' = now /\ scenario' = scenario
         /\ task[t].state = "runnable" /\ name \in scenario.calls
<1>1. Dispatch(t, name) /\ pending' = Keep(pending, StillPending(t)) /\ woken' = woken \ {t}
  BY DEF RunsFresh, Runs
<1>2. DOMAIN pending \subseteq Tids /\ woken \subseteq Tids
  BY DEF LoopTyped
<1>3. DOMAIN pending' \subseteq Tids /\ woken' \subseteq Tids
  BY <1>1, <1>2 DEF Keep
<1> QED BY <1>1, <1>3, DispatchGives

LEMMA QuietTaskKeeps ==
  ASSUME LoopInv, NEW t \in Tids, NEW name, RunsFresh(t, name),
         UNCHANGED <<task, futexTimeouts, sleepTimeouts, budget>>
  PROVE  LoopInv' /\ CallsKept /\ pc' = "loop" /\ scenario' = scenario
<1>1. LoopTyped
  BY DEF LoopInv
<1>2. LoopTyped' /\ pc' = "loop" /\ scenario' = scenario
  BY <1>1, FreshRunTyped DEF LoopTyped
<1> QED BY <1>2, QuietKeeps

LEMMA FutexWaitKeeps ==
  ASSUME LoopInv, NEW t \in Tids, NEW w \in Words, NEW value, NEW timeout \in Nat,
         FutexWait(t, w, value, timeout)
  PROVE  LoopInv' /\ CallsKept
<1> DEFINE d == IF timeout = 0 THEN 0 ELSE now + timeout
           r == Task("futex", w, d, NoCall)
<1>1. LoopTyped /\ Deadlines /\ DeadlineOfTheWait /\ task \in [Tids -> TaskRecords] /\ now \in Nat
      /\ IsTable(futexTimeouts, Nat) /\ IsTable(sleepTimeouts, Nat)
  BY DEF LoopInv, Deadlines, LoopTyped
<1>2. /\ task' = [task EXCEPT ![t] = r]
      /\ futexTimeouts' = IF timeout = 0 THEN Keep(futexTimeouts, Tids \ {t})
                          ELSE With(futexTimeouts, t, now + timeout)
      /\ sleepTimeouts' = sleepTimeouts /\ budget' = budget
      /\ RunsFresh(t, "futex_wait")
  BY DEF FutexWait
<1>3. d \in Nat /\ (d = 0 <=> timeout = 0) /\ (timeout # 0 => d = now + timeout)
  BY <1>1
<1>4. r \in TaskRecords /\ r.state = "futex" /\ r.deadline = d /\ r.call = NoCall
  <2> HIDE DEF d
  <2> QED BY <1>3, EventLoopAssumption DEF Task, TaskRecords, NoCall
<1> HIDE DEF d, r
<1>5. task' \in [Tids -> TaskRecords] /\ task'[t] = r /\ \A u \in Tids : u # t => task'[u] = task[u]
  BY <1>1, <1>2, <1>4
<1>6. /\ IsTable(futexTimeouts', Nat)
      /\ timeout = 0 => t \notin DOMAIN futexTimeouts'
      /\ timeout # 0 => t \in DOMAIN futexTimeouts' /\ futexTimeouts'[t] = now + timeout
      /\ \A u \in Tids : u # t => /\ u \in DOMAIN futexTimeouts' <=> u \in DOMAIN futexTimeouts
                                  /\ u \in DOMAIN futexTimeouts => futexTimeouts'[u] = futexTimeouts[u]
  <2>1. CASE timeout = 0
    <3>1. futexTimeouts' = Keep(futexTimeouts, Tids \ {t})
      BY <1>2, <2>1
    <3> QED BY <1>1, <2>1, <3>1 DEF Keep, IsTable
  <2>2. CASE timeout # 0
    <3>1. futexTimeouts' = With(futexTimeouts, t, now + timeout) /\ now + timeout \in Nat
      BY <1>1, <1>2, <2>2
    <3> QED BY <1>1, <2>2, <3>1 DEF With, IsTable
  <2> QED BY <2>1, <2>2
<1>7. LoopTyped'
  BY <1>1, <1>2, <1>5, <1>6, FreshRunTyped DEF LoopTyped
<1>8. Deadlines'
  <2>1. ASSUME NEW u \in Tids, task'[u].state = "futex"
        PROVE  IF task'[u].deadline = 0 THEN u \notin DOMAIN futexTimeouts'
               ELSE u \in DOMAIN futexTimeouts' /\ futexTimeouts'[u] = task'[u].deadline
    <3>1. CASE u = t
      BY <1>3, <1>4, <1>5, <1>6, <3>1
    <3>2. CASE u # t
      BY <1>1, <1>5, <1>6, <2>1, <3>2 DEF DeadlineOfTheWait
    <3> QED BY <3>1, <3>2
  <2>2. ASSUME NEW u \in Tids, task'[u].state = "sleep"
        PROVE  /\ u \in DOMAIN sleepTimeouts' /\ sleepTimeouts'[u] = task'[u].deadline
               /\ task'[u].deadline # 0
    <3>1. task'[u] = task[u]
      BY <1>4, <1>5, <2>2
    <3> QED BY <1>1, <1>2, <2>2, <3>1 DEF DeadlineOfTheWait, Deadlines
  <2> QED BY <2>1, <2>2 DEF Deadlines, DeadlineOfTheWait
<1>9. CallsKept
  BY <1>4, <1>5 DEF CallsKept
<1> QED BY <1>7, <1>8, <1>9 DEF LoopInv

LEMMA NanosleepKeeps ==
  ASSUME LoopInv, NEW t \in Tids, NEW duration \in Nat, duration # 0, Nanosleep(t, duration)
  PROVE  LoopInv' /\ CallsKept
<1> DEFINE r == Task("sleep", NoKey, now + duration, NoCall)
<1>1. LoopTyped /\ Deadlines /\ DeadlineOfTheWait /\ task \in [Tids -> TaskRecords] /\ now \in Nat
      /\ IsTable(futexTimeouts, Nat) /\ IsTable(sleepTimeouts, Nat)
  BY DEF LoopInv, Deadlines, LoopTyped
<1>2. /\ task' = [task EXCEPT ![t] = r]
      /\ sleepTimeouts' = With(sleepTimeouts, t, now + duration)
      /\ futexTimeouts' = futexTimeouts /\ budget' = budget
      /\ RunsFresh(t, "nanosleep")
  BY DEF Nanosleep
<1>3. now + duration \in Nat /\ now + duration # 0
  BY <1>1
<1>4. r \in TaskRecords /\ r.state = "sleep" /\ r.deadline = now + duration /\ r.call = NoCall
  BY <1>3, EventLoopAssumption DEF Task, TaskRecords, NoCall
<1> HIDE DEF r
<1>5. task' \in [Tids -> TaskRecords] /\ task'[t] = r /\ \A u \in Tids : u # t => task'[u] = task[u]
  BY <1>1, <1>2, <1>4
<1>6. /\ IsTable(sleepTimeouts', Nat)
      /\ t \in DOMAIN sleepTimeouts' /\ sleepTimeouts'[t] = now + duration
      /\ \A u \in DOMAIN sleepTimeouts : u # t => u \in DOMAIN sleepTimeouts' /\ sleepTimeouts'[u] = sleepTimeouts[u]
  BY <1>1, <1>2, <1>3 DEF With, IsTable
<1>7. LoopTyped'
  BY <1>1, <1>2, <1>5, <1>6, FreshRunTyped DEF LoopTyped
<1>8. Deadlines'
  <2>1. ASSUME NEW u \in Tids, task'[u].state = "futex"
        PROVE  IF task'[u].deadline = 0 THEN u \notin DOMAIN futexTimeouts'
               ELSE u \in DOMAIN futexTimeouts' /\ futexTimeouts'[u] = task'[u].deadline
    <3>1. task'[u] = task[u]
      BY <1>4, <1>5, <2>1
    <3> QED BY <1>1, <1>2, <2>1, <3>1 DEF DeadlineOfTheWait
  <2>2. ASSUME NEW u \in Tids, task'[u].state = "sleep"
        PROVE  /\ u \in DOMAIN sleepTimeouts' /\ sleepTimeouts'[u] = task'[u].deadline
               /\ task'[u].deadline # 0
    <3>1. CASE u = t
      BY <1>3, <1>4, <1>5, <1>6, <3>1
    <3>2. CASE u # t
      BY <1>1, <1>5, <1>6, <2>2, <3>2 DEF DeadlineOfTheWait, Deadlines
    <3> QED BY <3>1, <3>2
  <2> QED BY <2>1, <2>2 DEF Deadlines, DeadlineOfTheWait
<1>9. CallsKept
  BY <1>4, <1>5 DEF CallsKept
<1> QED BY <1>7, <1>8, <1>9 DEF LoopInv

\* Every task goes on as it was, or its wait is over
WaitsEndOrStay ==
  \A u \in Tids :
    \/ /\ task'[u].state = task[u].state /\ task'[u].deadline = task[u].deadline
       /\ task'[u].call = task[u].call
       /\ task[u].state = "fd" => task'[u] = task[u]
    \/ task'[u].state \in {"runnable", "exited"} /\ task'[u].call = NoCall

LEMMA WaitsEndOrStayKeeps ==
  ASSUME LoopInv, WaitsEndOrStay, sleepTimeouts' = sleepTimeouts,
         \/ futexTimeouts' = futexTimeouts
         \/ futexTimeouts' = Prune(futexTimeouts, task', "futex")
  PROVE  /\ IsTable(futexTimeouts', Nat) /\ IsTable(sleepTimeouts', Nat)
         /\ Deadlines' /\ CallsKept
<1>1. Deadlines /\ DeadlineOfTheWait /\ IsTable(futexTimeouts, Nat) /\ IsTable(sleepTimeouts, Nat)
  BY DEF LoopInv, Deadlines, LoopTyped
<1>2. /\ IsTable(futexTimeouts', Nat)
      /\ DOMAIN futexTimeouts' \subseteq DOMAIN futexTimeouts
      /\ \A u \in DOMAIN futexTimeouts' : futexTimeouts'[u] = futexTimeouts[u]
      /\ \A u \in DOMAIN futexTimeouts : task'[u].state = "futex" => u \in DOMAIN futexTimeouts'
  <2>1. CASE futexTimeouts' = futexTimeouts
    BY <1>1, <2>1
  <2>2. CASE futexTimeouts' = Prune(futexTimeouts, task', "futex")
    BY <1>1, <2>2 DEF Prune, Keep, InState, IsTable
  <2> QED BY <2>1, <2>2
<1>3. Deadlines'
  <2>1. ASSUME NEW u \in Tids, task'[u].state = "futex"
        PROVE  IF task'[u].deadline = 0 THEN u \notin DOMAIN futexTimeouts'
               ELSE u \in DOMAIN futexTimeouts' /\ futexTimeouts'[u] = task'[u].deadline
    <3>1. task[u].state = "futex" /\ task'[u].deadline = task[u].deadline
      BY <2>1 DEF WaitsEndOrStay
    <3> QED BY <1>1, <1>2, <2>1, <3>1 DEF DeadlineOfTheWait
  <2>2. ASSUME NEW u \in Tids, task'[u].state = "sleep"
        PROVE  /\ u \in DOMAIN sleepTimeouts' /\ sleepTimeouts'[u] = task'[u].deadline
               /\ task'[u].deadline # 0
    <3>1. task[u].state = "sleep" /\ task'[u].deadline = task[u].deadline
      BY <2>2 DEF WaitsEndOrStay
    <3> QED BY <1>1, <2>2, <3>1 DEF DeadlineOfTheWait, Deadlines
  <2> QED BY <2>1, <2>2 DEF Deadlines, DeadlineOfTheWait
<1>4. CallsKept
  BY DEF CallsKept, WaitsEndOrStay
<1> QED BY <1>1, <1>2, <1>3, <1>4

LEMMA WaitersAreTasks ==
  ASSUME NEW w, NEW n \in Nat
  PROVE  /\ Waiters(w, n) \subseteq Tids
         /\ \A t \in Waiters(w, n) : task[t].state = "futex"
<1> DEFINE S == {t \in InState(task, "futex") : task[t].key = w}
           all == OnlyIn(AllTids, S)
<1>1. AllTids \in Seq(Tids)
  BY RunLoopAssumption DEF AllTids, Tids
<1>2. all \in Seq(Tids) /\ \A i \in 1 .. Len(all) : all[i] \in S
  <2> HIDE DEF S
  <2> QED BY <1>1, OnlyInElements
<1>3. Waiters(w, n) = {all[i] : i \in 1 .. IF n < Len(all) THEN n ELSE Len(all)}
  BY DEF Waiters
<1>4. \A t \in S : task[t].state = "futex"
  BY DEF InState
<1> HIDE DEF all, S
<1>5. \A i \in 1 .. IF n < Len(all) THEN n ELSE Len(all) : i \in 1 .. Len(all)
  BY <1>2
<1> QED BY <1>2, <1>3, <1>4, <1>5

LEMMA WakeAllTasks ==
  ASSUME LoopTyped, NEW tids
  PROVE  /\ WakeAll(tids) \in [Tids -> TaskRecords]
         /\ \A u \in Tids : WakeAll(tids)[u] = IF u \in tids THEN Runnable(NoCall) ELSE task[u]
BY RunnableRecord DEF WakeAll, LoopTyped

LEMMA FutexWakeKeeps ==
  ASSUME LoopInv, NEW t \in Tids, NEW w \in Words, NEW n \in Nat, FutexWake(t, w, n)
  PROVE  LoopInv' /\ CallsKept
<1>1. LoopTyped
  BY DEF LoopInv
<1>2. /\ Dispatch(t, "futex_wake") /\ pending' = Keep(pending, StillPending(t))
      /\ task' = WakeAll(Waiters(w, n))
      /\ woken' = (woken \ {t}) \cup Waiters(w, n)
      /\ budget' = IF Waiters(w, n) = {} THEN budget ELSE RequestYield
      /\ futexTimeouts' = Prune(futexTimeouts, task', "futex")
      /\ sleepTimeouts' = sleepTimeouts
  BY DEF FutexWake, Runs
<1>3. /\ task' \in [Tids -> TaskRecords]
      /\ \A u \in Tids : task'[u] = IF u \in Waiters(w, n) THEN Runnable(NoCall) ELSE task[u]
  BY <1>1, <1>2, WakeAllTasks
<1>4. WaitsEndOrStay
  BY <1>3, RunnableRecord DEF WaitsEndOrStay
<1>5. IsTable(futexTimeouts', Nat) /\ IsTable(sleepTimeouts', Nat) /\ Deadlines' /\ CallsKept
  BY <1>2, <1>4, WaitsEndOrStayKeeps
<1>6. budget' \in 0 .. YieldLimit
  <2>1. budget \in 0 .. YieldLimit
    BY <1>1 DEF LoopTyped
  <2>2. RequestYield \in 0 .. YieldLimit
    BY <2>1, RunLoopAssumption DEF RequestYield
  <2> QED BY <1>2, <2>1, <2>2
<1>7. DOMAIN pending' \subseteq Tids /\ woken' \subseteq Tids
  <2>1. Waiters(w, n) \subseteq Tids
    BY WaitersAreTasks
  <2> QED BY <1>1, <1>2, <2>1 DEF LoopTyped, Keep
<1>8. LoopTyped'
  BY Zenon, <1>1, <1>2, <1>3, <1>5, <1>6, <1>7, DispatchGives DEF LoopTyped
<1> QED BY <1>5, <1>8 DEF LoopInv

LEMMA FutexRequeueKeeps ==
  ASSUME LoopInv, NEW t \in Tids, NEW w \in Words, NEW n \in Nat, NEW v \in Words, NEW m \in Nat,
         FutexRequeue(t, w, n, v, m)
  PROVE  LoopInv' /\ CallsKept
<1> DEFINE A == Waiters(w, n)
           B == Waiters(w, n + m)
<1>1. LoopTyped
  BY DEF LoopInv
<1>2. /\ RunsFresh(t, "futex_requeue")
      /\ task' = [u \in Tids |->
           IF u \in A THEN Runnable(NoCall)
           ELSE IF u \in B THEN [task[u] EXCEPT !.key = v] ELSE task[u]]
      /\ futexTimeouts' = Prune(futexTimeouts, task', "futex")
      /\ sleepTimeouts' = sleepTimeouts /\ budget' = budget
  BY DEF FutexRequeue
<1>3. \A u \in B : task[u].state = "futex"
  <2>1. n + m \in Nat
    OBVIOUS
  <2> QED BY <2>1, WaitersAreTasks
<1> HIDE DEF A, B
<1>4. ASSUME NEW u \in Tids
      PROVE  LET r == [task[u] EXCEPT !.key = v]
             IN  /\ r \in TaskRecords /\ r.state = task[u].state
                 /\ r.deadline = task[u].deadline /\ r.call = task[u].call
  <2>1. task[u] \in TaskRecords
    BY <1>1 DEF LoopTyped
  <2> QED BY <2>1 DEF TaskRecords
<1>5. task' \in [Tids -> TaskRecords]
  BY <1>1, <1>2, <1>4, RunnableRecord DEF LoopTyped
<1>6. WaitsEndOrStay
  BY <1>2, <1>3, <1>4, RunnableRecord DEF WaitsEndOrStay
<1>7. IsTable(futexTimeouts', Nat) /\ IsTable(sleepTimeouts', Nat) /\ Deadlines' /\ CallsKept
  BY <1>2, <1>6, WaitsEndOrStayKeeps
<1>8. LoopTyped'
  BY <1>1, <1>2, <1>5, <1>7, FreshRunTyped DEF LoopTyped
<1> QED BY <1>7, <1>8 DEF LoopInv

\* One task u is made runnable, or ended, and the deadlines stay
LEMMA OneTaskEnds ==
  ASSUME LoopInv, NEW u \in Tids, NEW r \in TaskRecords, task' = [task EXCEPT ![u] = r],
         r.state \in {"runnable", "exited"}, r.call = NoCall,
         UNCHANGED <<futexTimeouts, sleepTimeouts>>
  PROVE  task' \in [Tids -> TaskRecords] /\ Deadlines' /\ CallsKept
<1>1. task \in [Tids -> TaskRecords]
  BY DEF LoopInv, LoopTyped
<1>2. task' \in [Tids -> TaskRecords] /\ \A v \in Tids : task'[v] = IF v = u THEN r ELSE task[v]
  BY <1>1
<1>3. WaitsEndOrStay
  BY <1>2 DEF WaitsEndOrStay
<1> QED BY <1>2, <1>3, WaitsEndOrStayKeeps

LEMMA TgkillKeeps ==
  ASSUME LoopInv, NEW t \in Tids, NEW u \in Tids, Tgkill(t, u)
  PROVE  LoopInv' /\ CallsKept
<1>1. LoopTyped
  BY DEF LoopInv
<1>2. /\ RunsFresh(t, "tgkill") /\ task' = [task EXCEPT ![u] = Runnable(NoCall)]
      /\ UNCHANGED <<futexTimeouts, sleepTimeouts, budget>>
  BY DEF Tgkill
<1>3. task' \in [Tids -> TaskRecords] /\ Deadlines' /\ CallsKept
  BY Zenon, <1>2, RunnableRecord, OneTaskEnds
<1>4. LoopTyped'
  BY <1>1, <1>2, <1>3, FreshRunTyped DEF LoopTyped
<1> QED BY <1>3, <1>4 DEF LoopInv

LEMMA ForkExecKeeps ==
  ASSUME LoopInv, NEW t \in Tids, NEW u \in Tids, ForkExec(t, u)
  PROVE  LoopInv' /\ CallsKept
<1>1. LoopTyped
  BY DEF LoopInv
<1>2. /\ Dispatch(t, "fork") /\ task' = [task EXCEPT ![u] = Runnable(NoCall)]
      /\ pending' = With(Keep(pending, StillPending(t)), u, Process(t))
      /\ woken' = woken \ {t}
      /\ UNCHANGED <<futexTimeouts, sleepTimeouts, budget>>
  BY DEF ForkExec
<1>3. task' \in [Tids -> TaskRecords] /\ Deadlines' /\ CallsKept
  BY Zenon, <1>2, RunnableRecord, OneTaskEnds
<1>4. DOMAIN pending' \subseteq Tids /\ woken' \subseteq Tids
  BY <1>1, <1>2 DEF LoopTyped, With, Keep
<1>5. LoopTyped'
  BY Zenon, <1>1, <1>2, <1>3, <1>4, DispatchGives DEF LoopTyped
<1> QED BY <1>3, <1>5 DEF LoopInv

LEMMA KillKeeps ==
  ASSUME LoopInv, NEW t \in Tids, NEW u \in Tids, Kill(t, u)
  PROVE  LoopInv' /\ CallsKept
<1>1. LoopTyped
  BY DEF LoopInv
<1>2. /\ Dispatch(t, "kill") /\ task' = [task EXCEPT ![u] = Exited]
      /\ pending' = Keep(pending, StillPending(t) \cap StillPending(u))
      /\ woken' = woken \ {t, u}
      /\ UNCHANGED <<futexTimeouts, sleepTimeouts, budget>>
  BY DEF Kill
<1>3. task' \in [Tids -> TaskRecords] /\ Deadlines' /\ CallsKept
  BY Zenon, <1>2, RunnableRecord, OneTaskEnds
<1>4. DOMAIN pending' \subseteq Tids /\ woken' \subseteq Tids
  BY <1>1, <1>2 DEF LoopTyped, Keep
<1>5. LoopTyped'
  BY Zenon, <1>1, <1>2, <1>3, <1>4, DispatchGives DEF LoopTyped
<1> QED BY <1>3, <1>5 DEF LoopInv

LEMMA ExitKeeps ==
  ASSUME LoopInv, NEW t \in Tids, Exit(t)
  PROVE  LoopInv' /\ CallsKept
<1> DEFINE W == Waiters(ExitWord, NumTasks)
<1>1. LoopTyped
  BY DEF LoopInv
<1>2. /\ task' = [WakeAll(W) EXCEPT ![t] = Exited]
      /\ pass # << >> /\ pass' \in {<< >>, Tail(pass)}
      /\ pending' = Keep(pending, StillPending(t))
      /\ woken' = woken \ {t}
      /\ UNCHANGED <<futexTimeouts, sleepTimeouts, budget, pc, now, scenario>>
  BY Zenon DEF Exit
<1> HIDE DEF W
<1>3. /\ WakeAll(W) \in [Tids -> TaskRecords]
      /\ \A u \in Tids : WakeAll(W)[u] = IF u \in W THEN Runnable(NoCall) ELSE task[u]
  BY <1>1, WakeAllTasks
<1>4. /\ task' \in [Tids -> TaskRecords]
      /\ \A u \in Tids : task'[u] = IF u = t THEN Exited
                                    ELSE IF u \in W THEN Runnable(NoCall) ELSE task[u]
  <2> DEFINE a == WakeAll(W)
  <2>1. a \in [Tids -> TaskRecords] /\ task' = [a EXCEPT ![t] = Exited]
    BY <1>2, <1>3
  <2>2. \A u \in Tids : a[u] = IF u \in W THEN Runnable(NoCall) ELSE task[u]
    BY <1>3
  <2> HIDE DEF a
  <2> QED BY <2>1, <2>2, RunnableRecord
<1>5. WaitsEndOrStay
  BY <1>4, RunnableRecord DEF WaitsEndOrStay
<1>6. IsTable(futexTimeouts', Nat) /\ IsTable(sleepTimeouts', Nat) /\ Deadlines' /\ CallsKept
  BY <1>2, <1>5, WaitsEndOrStayKeeps
<1>7. pass' \in Seq(Tids)
  <2>1. pass \in Seq(Tids) /\ pass # << >>
    BY <1>1, <1>2 DEF LoopTyped
  <2>2. Tail(pass) \in Seq(Tids) /\ << >> \in Seq(Tids)
    BY <2>1
  <2> QED BY Zenon, <1>2, <2>2
<1>8. DOMAIN pending' \subseteq Tids /\ woken' \subseteq Tids
  BY <1>1, <1>2 DEF LoopTyped, Keep
<1>9. LoopTyped'
  BY <1>1, <1>2, <1>4, <1>6, <1>7, <1>8 DEF LoopTyped
<1> QED BY <1>6, <1>9 DEF LoopInv

\* The steps of a task keep the tables in order
LEMMA TaskStepKeeps ==
  ASSUME LoopInv, NEW t \in Tids, TaskStep(t)
  PROVE  LoopInv' /\ CallsKept /\ pc' = "loop" /\ scenario' = scenario /\ pass # << >>
<1>1. LoopTyped /\ scenario.timeout \in Nat
  <2>1. LoopTyped /\ scenario \in Scenarios
    BY DEF LoopInv, LoopTyped
  <2>2. \A s \in Scenarios : s.timeout \in Nat
    BY RunLoopAssumption
  <2> QED BY <2>1, <2>2
<1>2. pc' = "loop" /\ scenario' = scenario /\ pass # << >>
  <2>1. Exit(t) \/ \E name : Dispatch(t, name)
    <3>1. ASSUME NEW w, Store(t, w)
          PROVE  Dispatch(t, "store")
      BY <3>1 DEF Store, RunsFresh, Runs
    <3>2. ASSUME NEW w, NEW value, NEW timeout, FutexWait(t, w, value, timeout)
          PROVE  Dispatch(t, "futex_wait")
      BY <3>2 DEF FutexWait, RunsFresh, Runs
    <3>3. ASSUME NEW w, NEW n, FutexWake(t, w, n)
          PROVE  Dispatch(t, "futex_wake")
      BY <3>3 DEF FutexWake, Runs
    <3>4. ASSUME NEW w, NEW n, NEW v, NEW m, FutexRequeue(t, w, n, v, m)
          PROVE  Dispatch(t, "futex_requeue")
      BY <3>4 DEF FutexRequeue, RunsFresh, Runs
    <3>5. ASSUME NEW duration, Nanosleep(t, duration)
          PROVE  Dispatch(t, "nanosleep")
      BY <3>5 DEF Nanosleep, RunsFresh, Runs
    <3>6. ASSUME NEW u, Tgkill(t, u) \/ ForkExec(t, u) \/ Kill(t, u)
          PROVE  \E name : Dispatch(t, name)
      BY <3>6 DEF Tgkill, ForkExec, Kill, RunsFresh, Runs
    <3>7. Compute(t) => Dispatch(t, "compute")
      BY DEF Compute, RunsFresh, Runs
    <3> QED BY <3>1, <3>2, <3>3, <3>4, <3>5, <3>6, <3>7 DEF TaskStep
  <2>2. Exit(t) => pc = "loop" /\ pass # << >> /\ UNCHANGED <<pc, scenario>>
    BY Zenon DEF Exit
  <2>3. CASE Exit(t)
    BY <2>2, <2>3
  <2>4. ASSUME NEW name, Dispatch(t, name)
        PROVE  pc' = "loop" /\ scenario' = scenario /\ pass # << >>
    BY <1>1, <2>4, DispatchGives
  <2> QED BY <2>1, <2>3, <2>4
<1>3. CASE Compute(t)
  <2>1. RunsFresh(t, "compute") /\ UNCHANGED <<task, futexTimeouts, sleepTimeouts, budget>>
    BY <1>3 DEF Compute
  <2> QED BY <1>2, <2>1, QuietTaskKeeps
<1>4. ASSUME NEW w \in Words, Store(t, w)
      PROVE  LoopInv' /\ CallsKept
  <2>1. RunsFresh(t, "store") /\ UNCHANGED <<task, futexTimeouts, sleepTimeouts, budget>>
    BY <1>4 DEF Store
  <2> QED BY <2>1, QuietTaskKeeps
<1>5. ASSUME NEW w \in Words, NEW value \in {0, 1}, NEW timeout \in 0 .. scenario.timeout,
             FutexWait(t, w, value, timeout)
      PROVE  LoopInv' /\ CallsKept
  <2>1. timeout \in Nat
    BY <1>1
  <2> QED BY <1>5, <2>1, FutexWaitKeeps
<1>6. ASSUME NEW w \in Words, NEW n \in 1 .. 2, FutexWake(t, w, n)
      PROVE  LoopInv' /\ CallsKept
  <2>1. n \in Nat
    OBVIOUS
  <2> QED BY <1>6, <2>1, FutexWakeKeeps
<1>7. ASSUME NEW w \in Words, NEW n \in 0 .. 1, NEW v \in Words, NEW m \in 1 .. 2,
             FutexRequeue(t, w, n, v, m)
      PROVE  LoopInv' /\ CallsKept
  <2>1. n \in Nat /\ m \in Nat
    OBVIOUS
  <2> QED BY <1>7, <2>1, FutexRequeueKeeps
<1>8. ASSUME NEW duration \in 1 .. scenario.timeout, Nanosleep(t, duration)
      PROVE  LoopInv' /\ CallsKept
  <2>1. duration \in Nat /\ duration # 0
    BY <1>1
  <2> QED BY <1>8, <2>1, NanosleepKeeps
<1> QED BY <1>2, <1>3, <1>4, <1>5, <1>6, <1>7, <1>8, ExitKeeps, TgkillKeeps, ForkExecKeeps, KillKeeps
        DEF TaskStep

-----------------------------------------------------------------------------
(* Waits end when they are due.                                            *)

LEMMA EarliestIsLeast ==
  ASSUME NEW table, IsTable(table, Nat), NEW u \in DOMAIN table
  PROVE  Earliest(table) \in Nat /\ \A v \in DOMAIN table : Earliest(table) <= table[v]
<1> DEFINE R == Range(table)
<1>1. R = {table[v] : v \in DOMAIN table}
  BY DEF Range
<1>2. R \subseteq Nat /\ R # {} /\ \A v \in DOMAIN table : table[v] \in R
  BY <1>1 DEF IsTable
<1> HIDE DEF R
<1>3. \E d \in R : \A e \in R : d <= e
  BY Zenon, <1>2, LeastNatural
<1>4. Earliest(table) = CHOOSE d \in R : \A e \in R : d <= e
  BY DEF Earliest, R
<1>5. Earliest(table) \in R /\ \A e \in R : Earliest(table) <= e
  BY <1>3, <1>4
<1> QED BY Zenon, <1>2, <1>5

\* A wait ended by the scheduler was due, or nobody could run and none of its kind
\* was due earlier
WaitWasDue(t) ==
  /\ task[t].deadline # 0
  /\ \/ task[t].deadline <= now
     \/ /\ \A u \in Tids : task[u].state # "runnable"
        /\ \A u \in Tids : task[u].state = task[t].state /\ task[u].deadline # 0
                             => task[t].deadline <= task[u].deadline

LEMMA PassEndsDueWaits ==
  ASSUME LoopInv, SchedulerEnter([t \in Tids |-> WaiterReady(t)]), NEW t \in Tids,
         task[t].state \in {"futex", "sleep"}, task'[t].state = "runnable"
  PROVE  WaitWasDue(t)
<1> DEFINE ready == [u \in Tids |-> WaiterReady(u)]
<1>1. LoopTyped /\ DeadlineOfTheWait /\ (task[t].state = "sleep" => task[t].deadline # 0)
  BY DEF LoopInv, Deadlines
<1>2. SchedulerEnter(ready)
  OBVIOUS
<1> HIDE DEF ready
<1>3. task'[t] = CASE task[t].state = "futex" /\ t \in Due(futexTimeouts, now) -> Runnable(NoCall)
                   [] task[t].state = "sleep" /\ t \in Due(sleepTimeouts, now) -> Runnable(NoCall)
                   [] task[t].state = "fd" /\ ready[t] -> Runnable(task[t].call)
                   [] OTHER -> task[t]
  BY <1>1, <1>2, SchedulerEnterTasks
<1>4. CASE task[t].state = "futex"
  <2>1. t \in Due(futexTimeouts, now)
    BY <1>3, <1>4
  <2>2. t \in DOMAIN futexTimeouts /\ futexTimeouts[t] <= now
    BY <2>1 DEF Due
  <2>3. task[t].deadline # 0 /\ futexTimeouts[t] = task[t].deadline
    BY <1>1, <1>4, <2>2 DEF DeadlineOfTheWait
  <2> QED BY Zenon, <2>2, <2>3 DEF WaitWasDue
<1>5. CASE task[t].state = "sleep"
  <2>1. t \in Due(sleepTimeouts, now)
    BY <1>3, <1>5
  <2>2. sleepTimeouts[t] <= now
    BY <2>1 DEF Due
  <2>3. task[t].deadline # 0 /\ sleepTimeouts[t] = task[t].deadline
    BY <1>1, <1>5 DEF DeadlineOfTheWait
  <2> QED BY <2>2, <2>3 DEF WaitWasDue
<1> QED BY <1>4, <1>5

LEMMA IdleEndsNextFutex ==
  ASSUME LoopInv, IdleIsIdle, ExpireNextFutex, NEW t \in Tids,
         task[t].state \in {"futex", "sleep"}, task'[t].state = "runnable"
  PROVE  WaitWasDue(t)
<1> DEFINE timeouts == Prune(futexTimeouts, task, "futex")
           due == Due(timeouts, Earliest(timeouts))
<1>1. LoopTyped /\ DeadlineOfTheWait /\ task \in [Tids -> TaskRecords] /\ IsTable(futexTimeouts, Nat)
  BY DEF LoopInv, Deadlines, LoopTyped
<1>2. task' = TimeOut(task, due, "futex") /\ pc = "idle"
  BY Zenon DEF ExpireNextFutex
<1>3. \A u \in Tids : task[u].state # "runnable"
  BY Zenon, <1>2 DEF IdleIsIdle
<1>4. /\ IsTable(timeouts, Nat)
      /\ DOMAIN timeouts = {u \in DOMAIN futexTimeouts : task[u].state = "futex"}
      /\ \A u \in DOMAIN timeouts : timeouts[u] = futexTimeouts[u]
  BY Zenon, <1>1 DEF Prune, Keep, InState, IsTable
<1>5. due = {u \in DOMAIN timeouts : timeouts[u] <= Earliest(timeouts)}
  BY DEF Due
<1> HIDE DEF due, timeouts
<1>6. task'[t] = IF t \in due /\ task[t].state = "futex" THEN Runnable(NoCall) ELSE task[t]
  BY <1>1, <1>2, TimeOutTasks
<1>7. t \in due /\ task[t].state = "futex"
  BY <1>6
<1>8. t \in DOMAIN timeouts /\ timeouts[t] <= Earliest(timeouts)
  BY <1>5, <1>7
<1>9. Earliest(timeouts) \in Nat /\ \A u \in DOMAIN timeouts : Earliest(timeouts) <= timeouts[u]
  BY <1>4, <1>8, EarliestIsLeast
<1>10. task[t].deadline # 0 /\ timeouts[t] = task[t].deadline
  BY <1>1, <1>4, <1>7, <1>8 DEF DeadlineOfTheWait
<1>11. ASSUME NEW u \in Tids, task[u].state = task[t].state, task[u].deadline # 0
       PROVE  task[t].deadline <= task[u].deadline
  <2>1. u \in DOMAIN timeouts /\ timeouts[u] = task[u].deadline
    BY <1>1, <1>4, <1>7, <1>11 DEF DeadlineOfTheWait
  <2>2. timeouts[u] \in Nat /\ timeouts[t] \in Nat
    BY <1>4, <1>8, <2>1 DEF IsTable
  <2> QED BY <1>8, <1>9, <1>10, <2>1, <2>2
<1> QED BY <1>3, <1>10, <1>11 DEF WaitWasDue

LEMMA IdleEndsNextSleep ==
  ASSUME LoopInv, IdleIsIdle, ExpireNextSleep, NEW t \in Tids,
         task[t].state \in {"futex", "sleep"}, task'[t].state = "runnable"
  PROVE  WaitWasDue(t)
<1> DEFINE timeouts == Prune(sleepTimeouts, task, "sleep")
           due == Due(timeouts, Earliest(timeouts))
<1>1. /\ LoopTyped /\ DeadlineOfTheWait /\ task \in [Tids -> TaskRecords] /\ IsTable(sleepTimeouts, Nat)
      /\ \A u \in Tids : task[u].state = "sleep" => task[u].deadline # 0
  BY DEF LoopInv, Deadlines, LoopTyped
<1>2. task' = TimeOut(task, due, "sleep") /\ pc = "idle"
  BY Zenon DEF ExpireNextSleep
<1>3. \A u \in Tids : task[u].state # "runnable"
  BY Zenon, <1>2 DEF IdleIsIdle
<1>4. /\ IsTable(timeouts, Nat)
      /\ DOMAIN timeouts = {u \in DOMAIN sleepTimeouts : task[u].state = "sleep"}
      /\ \A u \in DOMAIN timeouts : timeouts[u] = sleepTimeouts[u]
  BY <1>1 DEF Prune, Keep, InState, IsTable
<1>5. due = {u \in DOMAIN timeouts : timeouts[u] <= Earliest(timeouts)}
  BY DEF Due
<1> HIDE DEF due, timeouts
<1>6. task'[t] = IF t \in due /\ task[t].state = "sleep" THEN Runnable(NoCall) ELSE task[t]
  BY <1>1, <1>2, TimeOutTasks
<1>7. t \in due /\ task[t].state = "sleep"
  BY <1>6
<1>8. t \in DOMAIN timeouts /\ timeouts[t] <= Earliest(timeouts)
  BY <1>5, <1>7
<1>9. Earliest(timeouts) \in Nat /\ \A u \in DOMAIN timeouts : Earliest(timeouts) <= timeouts[u]
  BY <1>4, <1>8, EarliestIsLeast
<1>10. task[t].deadline # 0 /\ timeouts[t] = task[t].deadline
  BY <1>1, <1>4, <1>7, <1>8 DEF DeadlineOfTheWait
<1>11. ASSUME NEW u \in Tids, task[u].state = task[t].state
       PROVE  task[t].deadline <= task[u].deadline
  <2>1. u \in DOMAIN timeouts /\ timeouts[u] = task[u].deadline
    BY <1>1, <1>4, <1>7, <1>11 DEF DeadlineOfTheWait
  <2>2. timeouts[u] \in Nat /\ timeouts[t] \in Nat
    BY <1>4, <1>8, <2>1 DEF IsTable
  <2> QED BY <1>8, <1>9, <1>10, <2>1, <2>2
<1> QED BY <1>3, <1>10, <1>11 DEF WaitWasDue
=============================================================================
