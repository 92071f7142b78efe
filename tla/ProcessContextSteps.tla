------------------------ MODULE ProcessContextSteps -------------------------
(***************************************************************************)
(* What the operators of ProcessContext on address spaces and fd tables do *)
(* to the processes that run, and what a step has to do to keep the        *)
(* invariants: ContextsInOnePlace and OpenWhileNamed together are          *)
(* inductive.  The calls of a process that goes on running (calls on fds,  *)
(* dispatches, execve) keep them.                                          *)
(***************************************************************************)
EXTENDS ProcessContext, TLAPS

Live == {p \in Pid : Running(p)}

(***************************************************************************)
(* What MemoryInOnePlace says, of any record of memories and any set of    *)
(* running processes: a step goes through several of them.                 *)
(***************************************************************************)
Selected(m, p) == m.pid = p /\ m.stored[p] = NoMemory /\ m.pending[p] = NoPid
Stored(m, p) == m.pid # p /\ m.stored[p] # NoMemory /\ m.pending[p] = NoPid
Pending(m, R, p) ==
    /\ m.pid # p /\ m.stored[p] = NoMemory
    /\ m.pending[p] \in R /\ m.pending[m.pending[p]] = NoPid

Placed(m, R) ==
    /\ m \in Memories
    /\ \A p \in R : Selected(m, p) \/ Stored(m, p) \/ Pending(m, R, p)
    /\ \A p \in Pid : m.pending[p] # NoPid => p \in R /\ p # INITIAL

NoChildPends(m, p) == \A c \in Pid : m.pending[c] # p

\* n has copies for the pending processes C of m, and is m otherwise
Copied(m, n, C) ==
    /\ n.pid = m.pid /\ n.selected = m.selected
    /\ \A q \in Pid : n.pending[q] = IF q \in C THEN NoPid ELSE m.pending[q]
    /\ \A q \in Pid \ C : n.stored[q] = m.stored[q]

SameViews(m, n, R) == \A q \in R : MemoryForProcess(n, q) = MemoryForProcess(m, q)

LEMMA PidFacts == INITIAL \in Pid /\ NoPid \notin Pid /\ Live \subseteq Pid
  BY ContextConstants DEF INITIAL, Pid, NoPid, Live

(***************************************************************************)
(* The fields of a record of memories, and of one that Materialize makes.  *)
(***************************************************************************)
LEMMA MemoryFields ==
    ASSUME NEW m \in Memories
    PROVE  /\ m.stored \in [Pid -> Value \cup {NoMemory}]
           /\ m.selected \in Value
           /\ m.pid \in Pid
           /\ m.pending \in [Pid -> Pid \cup {NoPid}]
  BY DEF Memories

LEMMA MaterializeFields ==
    ASSUME NEW m \in Memories, NEW C \in SUBSET Pid
    PROVE  /\ Materialize(m, C).pid = m.pid
           /\ Materialize(m, C).selected = m.selected
           /\ Materialize(m, C).pending = [c \in Pid |-> IF c \in C THEN NoPid ELSE m.pending[c]]
           /\ Materialize(m, C).stored =
                  [c \in Pid |-> IF c \in C THEN MemoryForProcess(m, m.pending[c]) ELSE m.stored[c]]
<1>1. Materialize(m, C).pid = m.pid /\ Materialize(m, C).selected = m.selected
  BY DEF Memories, Materialize
<1>2. Materialize(m, C).pending = [c \in Pid |-> IF c \in C THEN NoPid ELSE m.pending[c]]
  BY DEF Memories, Materialize
<1>3. Materialize(m, C).stored =
          [c \in Pid |-> IF c \in C THEN MemoryForProcess(m, m.pending[c]) ELSE m.stored[c]]
  BY DEF Memories, Materialize
<1> QED BY <1>1, <1>2, <1>3

(***************************************************************************)
(* Copying the memories of pending children changes nobody's view.         *)
(***************************************************************************)
LEMMA MaterializePlaced ==
    ASSUME NEW R \in SUBSET Pid, NEW m, Placed(m, R),
           NEW C \in SUBSET Pid, \A c \in C : m.pending[c] # NoPid
    PROVE  /\ Placed(Materialize(m, C), R)
           /\ Copied(m, Materialize(m, C), C)
           /\ SameViews(m, Materialize(m, C), R)
<1> DEFINE n == Materialize(m, C)
<1> USE PidFacts
<1>0. m \in Memories
  BY DEF Placed
<1>1. /\ n.pid = m.pid /\ n.selected = m.selected
      /\ n.pending = [q \in Pid |-> IF q \in C THEN NoPid ELSE m.pending[q]]
      /\ n.stored = [q \in Pid |-> IF q \in C THEN MemoryForProcess(m, m.pending[q])
                                   ELSE m.stored[q]]
  BY <1>0, MaterializeFields
<1>2. \A c \in C : /\ c \in R /\ Pending(m, R, c)
                   /\ m.pending[c] \in R /\ m.pending[c] \notin C
                   /\ MemoryForProcess(m, c) = MemoryForProcess(m, m.pending[c])
                   /\ MemoryForProcess(m, c) \in Value
  BY <1>0, MemoryFields, ContextConstants DEF Placed, Selected, Stored, Pending, MemoryForProcess
<1>3. n \in Memories
  BY Zenon, <1>0, <1>1, <1>2, MemoryFields DEF Materialize, Memories
<1> HIDE DEF n
<1>4. \A p \in R : Selected(n, p) \/ Stored(n, p) \/ Pending(n, R, p)
  BY <1>0, <1>1, <1>2, MemoryFields, ContextConstants DEF Placed, Selected, Stored, Pending
<1>5. \A q \in R : MemoryForProcess(n, q) = MemoryForProcess(m, q)
  <2> SUFFICES ASSUME NEW q \in R
               PROVE  MemoryForProcess(n, q) = MemoryForProcess(m, q)
    OBVIOUS
  <2>1. CASE q \in C
    BY Zenon, <2>1, <1>0, <1>1, <1>2, MemoryFields, ContextConstants DEF Pending, MemoryForProcess
  <2>2. CASE q \notin C /\ Pending(m, R, q)
    <3>1. m.pending[q] \in Pid /\ m.pending[q] \notin C /\ m.pending[q] # NoPid
      BY <2>2 DEF Pending
    <3>2. /\ n.pending[q] = m.pending[q] /\ n.stored[q] = m.stored[q]
          /\ n.stored[m.pending[q]] = m.stored[m.pending[q]]
      BY <2>2, <3>1, <1>1
    <3> QED BY Zenon, <2>2, <3>1, <3>2, <1>1 DEF Pending, MemoryForProcess
  <2>3. CASE q \notin C /\ (Selected(m, q) \/ Stored(m, q))
    BY Zenon, <2>3, <1>0, <1>1, MemoryFields, ContextConstants DEF Selected, Stored, MemoryForProcess
  <2> QED BY <2>1, <2>2, <2>3 DEF Placed
<1>6. \A p \in Pid : n.pending[p] # NoPid => p \in R /\ p # INITIAL
  BY <1>1 DEF Placed
<1> QED BY <1>0, <1>1, <1>3, <1>4, <1>5, <1>6 DEF Placed, Copied, SameViews, n

LEMMA MaterializeSelfPlaced ==
    ASSUME NEW R \in SUBSET Pid, NEW m, Placed(m, R), NEW p \in Pid
    PROVE  LET n == MaterializeSelf(m, p)
           IN  /\ Placed(n, R)
               /\ n.pid = m.pid
               /\ n.pending[p] = NoPid
               /\ \A q \in Pid \ {p} : n.pending[q] = m.pending[q] /\ n.stored[q] = m.stored[q]
               /\ SameViews(m, n, R)
<1> DEFINE C == IF m.pending[p] = NoPid THEN {} ELSE {p}
<1>1. C \in SUBSET Pid /\ \A c \in C : m.pending[c] # NoPid
  OBVIOUS
<1>2. MaterializeSelf(m, p) = Materialize(m, C)
  BY DEF MaterializeSelf
<1>3. \A q \in Pid : q \in C <=> q = p /\ m.pending[p] # NoPid
  OBVIOUS
<1> HIDE DEF C
<1> DEFINE n == Materialize(m, C)
<1>4. Placed(n, R) /\ Copied(m, n, C) /\ SameViews(m, n, R)
  BY <1>1, MaterializePlaced
<1> HIDE DEF n
<1> QED BY <1>2, <1>3, <1>4 DEF n, Copied

LEMMA MaterializeChildrenPlaced ==
    ASSUME NEW R \in SUBSET Pid, NEW m, Placed(m, R), NEW p \in Pid
    PROVE  LET n == MaterializeChildren(m, p)
           IN  /\ Placed(n, R)
               /\ n.pid = m.pid
               /\ NoChildPends(n, p)
               /\ \A q \in Pid : n.pending[q] \in {m.pending[q], NoPid}
               /\ \A q \in Pid : m.pending[q] # p => n.pending[q] = m.pending[q] /\ n.stored[q] = m.stored[q]
               /\ SameViews(m, n, R)
<1> DEFINE C == {c \in Pid : m.pending[c] = p}
<1>1. C \in SUBSET Pid /\ \A c \in C : m.pending[c] # NoPid
  BY PidFacts
<1>2. MaterializeChildren(m, p) = Materialize(m, C)
  BY DEF MaterializeChildren
<1>3. \A q \in Pid : q \in C <=> m.pending[q] = p
  OBVIOUS
<1> HIDE DEF C
<1> DEFINE n == Materialize(m, C)
<1>4. Placed(n, R) /\ Copied(m, n, C) /\ SameViews(m, n, R)
  BY <1>1, MaterializePlaced
<1> HIDE DEF n
<1> QED BY <1>2, <1>3, <1>4, PidFacts DEF NoChildPends, n, Copied

(***************************************************************************)
(* Selecting the memory of a running process, which has one of its own.    *)
(***************************************************************************)
LEMMA SwapPlaced ==
    ASSUME NEW m, Placed(m, Live), NEW p \in Live, m.pending[p] = NoPid
    PROVE  LET n == SwapMemory(m, p)
           IN  /\ Placed(n, Live)
               /\ n.pid = p
               /\ \A q \in Pid : n.pending[q] = m.pending[q]
               /\ \A q \in Pid \ {m.pid, p} : n.stored[q] = m.stored[q]
               /\ SameViews(m, n, Live)
<1> DEFINE n == SwapMemory(m, p)
<1> USE PidFacts
<1>0. m \in Memories /\ p \in Pid /\ m.pid \in Pid
  BY MemoryFields DEF Placed
<1>1. CASE p = m.pid
  BY <1>1, <1>0 DEF SwapMemory, SameViews
<1>2. CASE p # m.pid
  <2>1. n.pid = p /\ n.selected = m.stored[p] /\ n.pending = m.pending
    BY <1>0, <1>2 DEF SwapMemory, Memories
  <2>2. m.stored[p] \in Value
    BY <1>0, <1>2, MemoryFields DEF Placed, Selected, Stored, Pending
  <2>3. \A q \in Pid : n.stored[q] = IF q = p THEN NoMemory
                                     ELSE IF q = m.pid /\ Exists(q) THEN m.selected
                                     ELSE m.stored[q]
    BY <1>0, <1>2, MemoryFields DEF SwapMemory, Memories
  <2>4. n.stored \in [Pid -> Value \cup {NoMemory}]
    BY <1>0, <1>2, MemoryFields DEF SwapMemory, Memories
  <2>5. n \in Memories
    BY Zenon, <1>0, <1>2, <2>1, <2>2, <2>4, MemoryFields DEF SwapMemory, Memories
  <2>6. m.pid \in Live => Exists(m.pid)
    BY DEF Live, Running, Exists
  <2> HIDE DEF n
  <2>7. \A q \in Live : Selected(n, q) \/ Stored(n, q) \/ Pending(n, Live, q)
    <3> SUFFICES ASSUME NEW q \in Live
                 PROVE  Selected(n, q) \/ Stored(n, q) \/ Pending(n, Live, q)
      OBVIOUS
    <3>1. CASE q = p
      BY <3>1, <2>1, <2>3 DEF Selected
    <3>2. CASE q = m.pid
      BY <3>2, <1>0, <1>2, <2>1, <2>3, <2>6, MemoryFields, ContextConstants
         DEF Placed, Selected, Stored, Pending
    <3>3. CASE q # p /\ q # m.pid
      BY <3>3, <2>1, <2>3 DEF Placed, Selected, Stored, Pending
    <3> QED BY <3>1, <3>2, <3>3
  <2>8. \A q \in Live : MemoryForProcess(n, q) = MemoryForProcess(m, q)
    <3> SUFFICES ASSUME NEW q \in Live
                 PROVE  MemoryForProcess(n, q) = MemoryForProcess(m, q)
      OBVIOUS
    <3>1. CASE q = p
      BY <3>1, <1>0, <1>2, <2>1, <2>2, ContextConstants DEF MemoryForProcess
    <3>2. CASE q = m.pid
      BY <3>2, <1>0, <1>2, <2>1, <2>3, <2>6, MemoryFields, ContextConstants
         DEF MemoryForProcess
    <3>3. CASE q # p /\ q # m.pid /\ Stored(m, q)
      BY <3>3, <2>1, <2>3 DEF Stored, MemoryForProcess
    <3>4. CASE q # p /\ q # m.pid /\ Pending(m, Live, q)
      <4>1. m.pending[q] \in Live /\ m.pending[q] \in Pid /\ m.pending[q] # NoPid
        BY <3>4 DEF Pending
      <4>2. n.stored[q] = NoMemory /\ n.pending[q] = m.pending[q]
        BY <3>4, <2>1, <2>3 DEF Pending
      <4>3. MemoryForProcess(m, q) = IF m.pending[q] = m.pid THEN m.selected ELSE m.stored[m.pending[q]]
        BY <3>4, <4>1 DEF Pending, MemoryForProcess
      <4>4. MemoryForProcess(n, q) = IF m.pending[q] = p THEN n.selected ELSE n.stored[m.pending[q]]
        BY <3>4, <4>1, <4>2, <2>1 DEF MemoryForProcess
      <4>5. m.pending[q] = m.pid => Exists(m.pid)
        BY <4>1, <2>6
      <4> QED BY <4>1, <4>3, <4>4, <4>5, <1>2, <2>1, <2>3
    <3> QED BY <3>1, <3>2, <3>3, <3>4 DEF Placed, Selected
  <2> QED BY <2>1, <2>3, <2>5, <2>7, <2>8 DEF Placed, SameViews, n
<1> QED BY <1>1, <1>2

(***************************************************************************)
(* What all of these keep: every running process has its memory, no child  *)
(* becomes pending, and a pid without a trace stays without one.           *)
(***************************************************************************)
Blank(m, q) == m.pid # q /\ m.stored[q] = NoMemory
Kept(m, n) ==
    /\ Placed(n, Live)
    /\ SameViews(m, n, Live)
    /\ \A q \in Pid : n.pending[q] \in {m.pending[q], NoPid}
    /\ \A q \in Pid \ Live : Blank(m, q) => Blank(n, q)

LEMMA KeptTransitive ==
    ASSUME NEW k, NEW m, NEW n, Kept(k, m), Kept(m, n)
    PROVE  Kept(k, n)
  BY DEF Kept, SameViews

LEMMA EnterTaskKept ==
    ASSUME NEW m, Placed(m, Live), NEW p \in Pid
    PROVE  /\ Kept(m, EnterTask(m, p))
           /\ EnterTask(m, p).pid = m.pid
           /\ NoChildPends(EnterTask(m, p), p)
<1> DEFINE n == MaterializeChildren(m, p)
<1> HIDE DEF n
<1>1. /\ Placed(n, Live)
      /\ n.pid = m.pid
      /\ NoChildPends(n, p)
      /\ \A q \in Pid : n.pending[q] \in {m.pending[q], NoPid}
      /\ \A q \in Pid : m.pending[q] # p => n.pending[q] = m.pending[q] /\ n.stored[q] = m.stored[q]
      /\ SameViews(m, n, Live)
  BY PidFacts, MaterializeChildrenPlaced DEF n
<1>2. \A q \in Pid \ Live : m.pending[q] # p
  BY PidFacts DEF Placed
<1> QED BY <1>1, <1>2 DEF Kept, Blank, EnterTask, n

LEMMA MaterializeSelfKept ==
    ASSUME NEW m, Placed(m, Live), NEW p \in Live
    PROVE  /\ Kept(m, MaterializeSelf(m, p))
           /\ MaterializeSelf(m, p).pid = m.pid
           /\ MaterializeSelf(m, p).pending[p] = NoPid
           /\ NoChildPends(m, p) => NoChildPends(MaterializeSelf(m, p), p)
<1> DEFINE n == MaterializeSelf(m, p)
<1> HIDE DEF n
<1>1. /\ Placed(n, Live)
      /\ n.pid = m.pid
      /\ n.pending[p] = NoPid
      /\ \A q \in Pid \ {p} : n.pending[q] = m.pending[q] /\ n.stored[q] = m.stored[q]
      /\ SameViews(m, n, Live)
  BY Zenon, PidFacts, MaterializeSelfPlaced DEF n
<1>2. p \in Pid /\ p # NoPid
  BY PidFacts
<1> QED BY <1>1, <1>2 DEF Kept, Blank, NoChildPends, n

LEMMA SelectMemoryKept ==
    ASSUME NEW m, Placed(m, Live), NEW p \in Live
    PROVE  /\ Kept(m, SelectMemory(m, p))
           /\ SelectMemory(m, p).pid = p
           /\ SelectMemory(m, p).pending[p] = NoPid
           /\ NoChildPends(m, p) => NoChildPends(SelectMemory(m, p), p)
<1> DEFINE k == MaterializeSelf(m, p)
           n == SwapMemory(k, p)
<1>1. /\ Kept(m, k) /\ k.pending[p] = NoPid /\ Placed(k, Live)
      /\ NoChildPends(m, p) => NoChildPends(k, p)
  BY MaterializeSelfKept DEF Kept
<1> HIDE DEF k
<1>2. /\ Placed(n, Live)
      /\ n.pid = p
      /\ \A q \in Pid : n.pending[q] = k.pending[q]
      /\ \A q \in Pid \ {k.pid, p} : n.stored[q] = k.stored[q]
      /\ SameViews(k, n, Live)
  BY <1>1, SwapPlaced
<1> HIDE DEF n
<1>3. Kept(k, n)
  BY <1>2, PidFacts DEF Kept, Blank
<1>4. Kept(m, n)
  BY <1>1, <1>3, KeptTransitive
<1>5. NoChildPends(k, p) => NoChildPends(n, p)
  BY <1>2 DEF NoChildPends
<1>6. SelectMemory(m, p) = n
  BY DEF SelectMemory, n, k
<1> QED BY <1>1, <1>2, <1>4, <1>5, <1>6, PidFacts

(***************************************************************************)
(* A dispatched call that selects the memory: the caller has its own, and  *)
(* no child shares it.                                                     *)
(***************************************************************************)
Own(m, p) == m.pending[p] = NoPid /\ NoChildPends(m, p)

LEMMA EnterAndSelectKept ==
    ASSUME NEW m, Placed(m, Live), NEW p \in Live
    PROVE  /\ Kept(m, SelectMemory(EnterTask(m, p), p))
           /\ SelectMemory(EnterTask(m, p), p).pid = p
           /\ Own(SelectMemory(EnterTask(m, p), p), p)
<1> DEFINE k == EnterTask(m, p)
<1>1. Kept(m, k) /\ NoChildPends(k, p) /\ Placed(k, Live)
  BY EnterTaskKept, PidFacts DEF Kept
<1> HIDE DEF k
<1>2. /\ Kept(k, SelectMemory(k, p)) /\ SelectMemory(k, p).pid = p
      /\ Own(SelectMemory(k, p), p)
  BY <1>1, SelectMemoryKept DEF Own
<1>3. Kept(m, SelectMemory(k, p))
  BY <1>1, <1>2, KeptTransitive
<1> QED BY <1>2, <1>3 DEF k

(***************************************************************************)
(* Writing the memory of a process that shares it with nobody.             *)
(***************************************************************************)
LEMMA WriteMemoryPlaced ==
    ASSUME NEW m, Placed(m, Live), NEW p \in Live, Own(m, p), NEW v \in Value
    PROVE  LET n == WriteMemory(m, p, v)
           IN  /\ Placed(n, Live)
               /\ n.pid = m.pid /\ Own(n, p)
               /\ \A q \in Pid : n.pending[q] = m.pending[q]
               /\ \A q \in Pid \ Live : Blank(m, q) => Blank(n, q)
               /\ \A q \in Live : MemoryForProcess(n, q) =
                                     IF q = p THEN v ELSE MemoryForProcess(m, q)
<1> DEFINE n == WriteMemory(m, p, v)
<1> USE PidFacts
<1>0. m \in Memories /\ p \in Pid
  BY DEF Placed
<1>1. n.pid = m.pid /\ n.pending = m.pending /\ n \in Memories
  BY <1>0, MemoryFields DEF WriteMemory, Memories
<1>2. n.selected = IF p = m.pid THEN v ELSE m.selected
  BY <1>0, MemoryFields DEF WriteMemory, Memories
<1>3. \A q \in Pid : n.stored[q] = IF q = p /\ p # m.pid THEN v ELSE m.stored[q]
  BY <1>0, MemoryFields DEF WriteMemory, Memories
<1> HIDE DEF n
<1>4. Selected(m, p) \/ Stored(m, p)
  BY <1>0 DEF Placed, Own, Pending
<1>5. \A q \in Live : Selected(n, q) \/ Stored(n, q) \/ Pending(n, Live, q)
  BY <1>0, <1>1, <1>3, <1>4, ContextConstants DEF Placed, Selected, Stored, Pending
<1>6. \A q \in Live : MemoryForProcess(n, q) = IF q = p THEN v ELSE MemoryForProcess(m, q)
  <2> SUFFICES ASSUME NEW q \in Live
               PROVE  MemoryForProcess(n, q) = IF q = p THEN v ELSE MemoryForProcess(m, q)
    OBVIOUS
  <2>1. CASE q = p
    BY <2>1, <1>0, <1>1, <1>2, <1>3, <1>4, ContextConstants
       DEF Selected, Stored, MemoryForProcess
  <2>2. CASE q # p /\ (Selected(m, q) \/ Stored(m, q))
    BY <2>2, <1>0, <1>1, <1>2, <1>3 DEF Selected, Stored, MemoryForProcess
  <2>3. CASE q # p /\ Pending(m, Live, q)
    <3>1. m.pending[q] \in Pid /\ m.pending[q] # p /\ m.pending[q] # NoPid
      BY <2>3 DEF Pending, Own, NoChildPends
    <3> QED BY <2>3, <3>1, <1>0, <1>1, <1>2, <1>3 DEF Pending, MemoryForProcess
  <2> QED BY <2>1, <2>2, <2>3 DEF Placed
<1> QED BY <1>0, <1>1, <1>3, <1>5, <1>6 DEF Placed, Own, NoChildPends, Blank, n

(***************************************************************************)
(* A pending process that stops being so and gets a memory of its own: it  *)
(* is not the selected one, so the memory is a stored one.                 *)
(***************************************************************************)
LEMMA NewMemoryPlaced ==
    ASSUME NEW m, Placed(m, Live), NEW p \in Live, NoChildPends(m, p), m.pending[p] # NoPid,
           NEW v \in Value
    PROVE  LET n == WriteMemory([m EXCEPT !.pending = [@ EXCEPT ![p] = NoPid]], p, v)
           IN  /\ Placed(n, Live)
               /\ n.pid = m.pid /\ Own(n, p)
               /\ \A q \in Pid : n.pending[q] \in {m.pending[q], NoPid}
               /\ \A q \in Pid \ Live : Blank(m, q) => Blank(n, q)
               /\ \A q \in Live : MemoryForProcess(n, q) =
                                     IF q = p THEN v ELSE MemoryForProcess(m, q)
<1> DEFINE k == [m EXCEPT !.pending = [@ EXCEPT ![p] = NoPid]]
           n == WriteMemory(k, p, v)
<1> USE PidFacts
<1>0. m \in Memories /\ p \in Pid /\ Pending(m, Live, p)
  BY DEF Placed, Selected, Stored
<1>1. /\ k \in Memories /\ k.pid = m.pid /\ k.selected = m.selected /\ k.stored = m.stored
      /\ k.pending = [m.pending EXCEPT ![p] = NoPid]
  BY <1>0, MemoryFields DEF Memories
<1> HIDE DEF k
<1>2. /\ n.pid = m.pid /\ n.selected = m.selected /\ n \in Memories
      /\ \A q \in Pid : n.stored[q] = IF q = p THEN v ELSE m.stored[q]
      /\ \A q \in Pid : n.pending[q] = IF q = p THEN NoPid ELSE m.pending[q]
  BY <1>0, <1>1, MemoryFields DEF WriteMemory, Memories, Pending
<1> HIDE DEF n
<1>3. \A q \in Live : Selected(n, q) \/ Stored(n, q) \/ Pending(n, Live, q)
  BY <1>0, <1>2, ContextConstants DEF Placed, NoChildPends, Selected, Stored, Pending
<1>4. \A q \in Live : MemoryForProcess(n, q) = IF q = p THEN v ELSE MemoryForProcess(m, q)
  <2> SUFFICES ASSUME NEW q \in Live
               PROVE  MemoryForProcess(n, q) = IF q = p THEN v ELSE MemoryForProcess(m, q)
    OBVIOUS
  <2>1. CASE q = p
    BY <2>1, <1>0, <1>2, ContextConstants DEF Pending, MemoryForProcess
  <2>2. CASE q # p
    BY <2>2, <1>0, <1>2, MemoryFields DEF NoChildPends, MemoryForProcess
  <2> QED BY <2>1, <2>2
<1>5. Own(n, p)
  BY <1>0, <1>2 DEF Own, NoChildPends
<1> QED BY <1>0, <1>2, <1>3, <1>4, <1>5 DEF Placed, Blank, n, k

(***************************************************************************)
(* Dropping the memory of a process p: the others keep theirs, the initial *)
(* process getting its own selected when p's was.                          *)
(***************************************************************************)
LEMMA DropAlonePlaced ==
    ASSUME NEW m, Placed(m, Live), INITIAL \in Live, NEW p \in Pid, NoChildPends(m, p)
    PROVE  LET n == DropMemoryAlone(m, p)
           IN  /\ Placed(n, Live \ {p})
               /\ SameViews(m, n, Live \ {p})
               /\ n.pid = IF m.pid = p THEN INITIAL ELSE m.pid
               /\ \A q \in Pid : n.pending[q] \in {m.pending[q], NoPid}
               /\ \A q \in Pid \ Live : Blank(m, q) => Blank(n, q)
<1> DEFINE n == DropMemoryAlone(m, p)
<1> USE PidFacts
<1>0. m \in Memories /\ m.pid \in Pid
  BY MemoryFields DEF Placed
<1>1. CASE p # m.pid
  <2>1. /\ n \in Memories /\ n.pid = m.pid /\ n.selected = m.selected
        /\ \A q \in Pid : n.stored[q] = IF q = p THEN NoMemory ELSE m.stored[q]
        /\ \A q \in Pid : n.pending[q] = IF q = p THEN NoPid ELSE m.pending[q]
    BY Zenon, <1>0, <1>1, MemoryFields DEF DropMemoryAlone, Memories
  <2> HIDE DEF n
  <2>2. \A q \in Live \ {p} : Selected(n, q) \/ Stored(n, q) \/ Pending(n, Live \ {p}, q)
    BY <2>1, <1>0 DEF Placed, NoChildPends, Selected, Stored, Pending
  <2>3. \A q \in Live \ {p} : MemoryForProcess(n, q) = MemoryForProcess(m, q)
    BY <2>1, <1>0, MemoryFields DEF NoChildPends, MemoryForProcess
  <2> QED BY <2>1, <2>2, <2>3, <1>0, <1>1 DEF Placed, SameViews, Blank, n
<1>2. CASE p = m.pid /\ p = INITIAL
  <2>1. /\ n \in Memories /\ n.pid = m.pid /\ n.selected = m.selected
        /\ n.stored = m.stored
        /\ \A q \in Pid : n.pending[q] = IF q = p THEN NoPid ELSE m.pending[q]
    BY Zenon, <1>0, <1>2, MemoryFields DEF DropMemoryAlone, Memories
  <2> HIDE DEF n
  <2>2. \A q \in Live \ {p} : Selected(n, q) \/ Stored(n, q) \/ Pending(n, Live \ {p}, q)
    BY <2>1, <1>0 DEF Placed, NoChildPends, Selected, Stored, Pending
  <2>3. \A q \in Live \ {p} : MemoryForProcess(n, q) = MemoryForProcess(m, q)
    BY <2>1, <1>0, MemoryFields DEF NoChildPends, MemoryForProcess
  <2> QED BY <2>1, <2>2, <2>3, <1>0, <1>2 DEF Placed, SameViews, Blank, n
<1>3. CASE p = m.pid /\ p # INITIAL
  <2>1. Stored(m, INITIAL) /\ m.stored[INITIAL] \in Value
    BY <1>0, <1>3, MemoryFields DEF Placed, Selected, Stored, Pending
  <2>2. /\ n.pid = INITIAL /\ n.selected = m.stored[INITIAL]
        /\ n \in Memories
    BY Zenon, <1>0, <1>3, <2>1, MemoryFields DEF DropMemoryAlone, Memories
  <2>3. /\ \A q \in Pid : n.stored[q] = IF q = INITIAL THEN NoMemory ELSE m.stored[q]
        /\ \A q \in Pid : n.pending[q] = IF q = p THEN NoPid ELSE m.pending[q]
    BY <1>0, <1>3, MemoryFields DEF DropMemoryAlone, Memories
  <2> HIDE DEF n
  <2>4. \A q \in Live \ {p} : Selected(n, q) \/ Stored(n, q) \/ Pending(n, Live \ {p}, q)
    BY <2>1, <2>2, <2>3, <1>0, <1>3 DEF Placed, NoChildPends, Selected, Stored, Pending
  <2>5. \A q \in Live \ {p} : MemoryForProcess(n, q) = MemoryForProcess(m, q)
    <3> SUFFICES ASSUME NEW q \in Live \ {p}
                 PROVE  MemoryForProcess(n, q) = MemoryForProcess(m, q)
      OBVIOUS
    <3>1. CASE q = INITIAL
      BY <3>1, <2>1, <2>2, <1>3 DEF Stored, MemoryForProcess
    <3>2. CASE q # INITIAL
      BY <3>2, <2>1, <2>2, <2>3, <1>0, <1>3, MemoryFields DEF Stored, NoChildPends, MemoryForProcess
    <3> QED BY <3>1, <3>2
  <2> QED BY <2>2, <2>3, <2>4, <2>5, <1>0, <1>3 DEF Placed, SameViews, Blank, n
<1> QED BY <1>1, <1>2, <1>3

LEMMA DropMemoryPlaced ==
    ASSUME NEW m, Placed(m, Live), INITIAL \in Live, NEW p \in Pid
    PROVE  LET n == DropMemory(m, p)
           IN  /\ Placed(n, Live \ {p})
               /\ SameViews(m, n, Live \ {p})
               /\ n.pid = IF m.pid = p THEN INITIAL ELSE m.pid
               /\ \A q \in Pid : n.pending[q] \in {m.pending[q], NoPid}
               /\ \A q \in Pid \ Live : Blank(m, q) => Blank(n, q)
<1> DEFINE k == EnterTask(m, p)
           n == DropMemoryAlone(k, p)
<1>1. Kept(m, k) /\ k.pid = m.pid /\ NoChildPends(k, p) /\ Placed(k, Live)
  BY EnterTaskKept DEF Kept
<1> HIDE DEF k
<1>2. /\ Placed(n, Live \ {p})
      /\ SameViews(k, n, Live \ {p})
      /\ n.pid = IF k.pid = p THEN INITIAL ELSE k.pid
      /\ \A q \in Pid : n.pending[q] \in {k.pending[q], NoPid}
      /\ \A q \in Pid \ Live : Blank(k, q) => Blank(n, q)
  BY <1>1, DropAlonePlaced
<1> HIDE DEF n
<1>3. DropMemory(m, p) = n
  BY DEF DropMemory, EnterTask, n, k
<1> QED BY <1>1, <1>2, <1>3 DEF Kept, SameViews

(***************************************************************************)
(* Fd tables.                                                              *)
(***************************************************************************)
TablesPlaced(t, R) ==
    /\ t \in Tables
    /\ \A p \in R : t.pid = p <=> t.stored[p] = NoTable
SameTables(t, u, R) == \A q \in R : FdTableForProcess(u, q) = FdTableForProcess(t, q)
NoTableOf(t, q) == t.pid # q /\ t.stored[q] = NoTable
\* no pid outside R gets a table
KeepsBare(t, u, R) == \A q \in Pid \ R : NoTableOf(t, q) => NoTableOf(u, q)

LEMMA TableFields ==
    ASSUME NEW t \in Tables
    PROVE  /\ t.stored \in [Pid -> Table \cup {NoTable}]
           /\ t.selected \in Table
           /\ t.pid \in Pid
  BY DEF Tables

LEMMA TableOfRunning ==
    ASSUME NEW t, TablesPlaced(t, Live), NEW p \in Live
    PROVE  FdTableForProcess(t, p) \in Table
  BY TableFields, PidFacts, ContextConstants DEF TablesPlaced, FdTableForProcess

LEMMA SelectFdsPlaced ==
    ASSUME NEW t, TablesPlaced(t, Live), NEW p \in Live
    PROVE  /\ TablesPlaced(SelectFds(t, p), Live)
           /\ SameTables(t, SelectFds(t, p), Live)
           /\ KeepsBare(t, SelectFds(t, p), Live)
           /\ SelectFds(t, p).pid = p
           /\ SelectFds(t, p).selected = FdTableForProcess(t, p)
<1> DEFINE u == SelectFds(t, p)
<1> USE PidFacts
<1>0. t \in Tables /\ t.pid \in Pid /\ p \in Pid
  BY TableFields DEF TablesPlaced
<1>1. CASE p = t.pid
  BY <1>1, <1>0 DEF SelectFds, TablesPlaced, SameTables, KeepsBare, FdTableForProcess
<1>2. CASE p # t.pid
  <2>1. t.stored[p] \in Table
    BY <1>0, <1>2, TableFields DEF TablesPlaced
  <2>2. /\ u.selected = t.stored[p] /\ u.pid = p
        /\ \A q \in Pid : u.stored[q] = IF q = t.pid
                                        THEN IF Exists(t.pid) THEN t.selected ELSE t.stored[t.pid]
                                        ELSE IF q = p THEN NoTable ELSE t.stored[q]
    BY <1>0, <1>2, TableFields DEF SelectFds, Tables
  <2>3. u \in Tables
    BY <1>0, <1>2, <2>1, TableFields DEF SelectFds, Tables
  <2>4. \A q \in Live : Exists(q)
    BY DEF Live, Running, Exists
  <2>5. t.selected # NoTable
    BY <1>0, TableFields, ContextConstants
  <2> HIDE DEF u
  <2> QED BY <1>0, <1>2, <2>1, <2>2, <2>3, <2>4, <2>5
          DEF TablesPlaced, SameTables, KeepsBare, NoTableOf, FdTableForProcess, u
<1> QED BY <1>1, <1>2

LEMMA SetTablePlaced ==
    ASSUME NEW t, TablesPlaced(t, Live), NEW table \in Table
    PROVE  LET u == SetTable(t, table)
           IN  /\ TablesPlaced(u, Live)
               /\ KeepsBare(t, u, Live)
               /\ u.pid = t.pid /\ u.selected = table /\ u.stored = t.stored
  BY DEF TablesPlaced, Tables, SetTable, KeepsBare, NoTableOf

LEMMA DropTablePlaced ==
    ASSUME NEW t, TablesPlaced(t, Live), INITIAL \in Live, NEW p \in Pid
    PROVE  LET u == DropTable(t, p)
           IN  /\ TablesPlaced(u, Live \ {p})
               /\ SameTables(t, u, Live \ {p})
               /\ KeepsBare(t, u, Live)
               /\ p \in Live \ {INITIAL} => NoTableOf(u, p)
               /\ u.pid = IF t.pid = p THEN INITIAL ELSE t.pid
<1> DEFINE u == DropTable(t, p)
<1> USE PidFacts
<1>0. t \in Tables /\ t.pid \in Pid
  BY TableFields DEF TablesPlaced
<1>1. CASE p # t.pid
  <2>1. /\ u \in Tables /\ u.pid = t.pid /\ u.selected = t.selected
        /\ \A q \in Pid : u.stored[q] = IF q = p THEN NoTable ELSE t.stored[q]
    BY <1>0, <1>1, TableFields DEF DropTable, Tables
  <2> HIDE DEF u
  <2> QED BY <1>0, <1>1, <2>1
          DEF TablesPlaced, SameTables, KeepsBare, NoTableOf, FdTableForProcess, u
<1>2. CASE p = t.pid /\ p = INITIAL
  BY Zenon, <1>0, <1>2 DEF DropTable, TablesPlaced, SameTables, KeepsBare, FdTableForProcess
<1>3. CASE p = t.pid /\ p # INITIAL
  <2>1. t.stored[INITIAL] \in Table
    BY <1>0, <1>3, TableFields DEF TablesPlaced
  <2>2. /\ u \in Tables /\ u.pid = INITIAL /\ u.selected = t.stored[INITIAL]
        /\ \A q \in Pid : u.stored[q] = IF q = INITIAL THEN NoTable ELSE t.stored[q]
    BY <1>0, <1>3, <2>1, TableFields DEF DropTable, Tables
  <2> HIDE DEF u
  <2> QED BY <1>0, <1>3, <2>1, <2>2
          DEF TablesPlaced, SameTables, KeepsBare, NoTableOf, FdTableForProcess, u
<1> QED BY <1>1, <1>2, <1>3

(***************************************************************************)
(* fork: the child has its parent's table and, pending, its memory.        *)
(***************************************************************************)
LEMMA ForkMemory ==
    ASSUME NEW m, Placed(m, Live), NEW p \in Live, Own(m, p),
           NEW c \in Pid \ Live, Blank(m, c), c # INITIAL
    PROVE  LET n == [m EXCEPT !.pending = [@ EXCEPT ![c] = p]]
           IN  /\ Placed(n, Live \cup {c})
               /\ n.pid = m.pid
               /\ \A q \in Pid : n.pending[q] = IF q = c THEN p ELSE m.pending[q]
               /\ \A q \in Pid : n.stored[q] = m.stored[q]
               /\ SameViews(m, n, Live)
               /\ MemoryForProcess(n, c) = MemoryForProcess(m, p)
<1> DEFINE n == [m EXCEPT !.pending = [@ EXCEPT ![c] = p]]
<1> USE PidFacts
<1>0. m \in Memories /\ p \in Pid /\ m.pending[c] = NoPid
  BY DEF Placed
<1>1. /\ n \in Memories /\ n.pid = m.pid /\ n.selected = m.selected /\ n.stored = m.stored
      /\ \A q \in Pid : n.pending[q] = IF q = c THEN p ELSE m.pending[q]
  BY <1>0, MemoryFields DEF Memories
<1> HIDE DEF n
<1>2. Pending(n, Live \cup {c}, c)
  BY <1>0, <1>1 DEF Pending, Blank, Own
<1>3. \A q \in Live : Selected(n, q) \/ Stored(n, q) \/ Pending(n, Live \cup {c}, q)
  BY <1>0, <1>1 DEF Placed, Selected, Stored, Pending
<1>4. \A q \in Live : MemoryForProcess(n, q) = MemoryForProcess(m, q)
  BY <1>0, <1>1 DEF MemoryForProcess
<1>5. MemoryForProcess(n, c) = MemoryForProcess(m, p)
  BY <1>0, <1>1, <1>2, MemoryFields DEF Placed, Own, Pending, Selected, Stored, MemoryForProcess
<1> QED BY <1>0, <1>1, <1>2, <1>3, <1>4, <1>5 DEF Placed, SameViews, n

LEMMA ForkTable ==
    ASSUME NEW t, TablesPlaced(t, Live), NEW c \in Pid \ Live, NoTableOf(t, c)
    PROVE  LET u == [t EXCEPT !.stored = [@ EXCEPT ![c] = t.selected]]
           IN  /\ TablesPlaced(u, Live \cup {c})
               /\ u.pid = t.pid
               /\ SameTables(t, u, Live)
               /\ FdTableForProcess(u, c) = t.selected
               /\ \A q \in Pid \ {c} : u.stored[q] = t.stored[q]
<1> DEFINE u == [t EXCEPT !.stored = [@ EXCEPT ![c] = t.selected]]
<1>0. t \in Tables
  BY DEF TablesPlaced
<1>1. /\ u \in Tables /\ u.pid = t.pid /\ u.selected = t.selected
      /\ \A q \in Pid : u.stored[q] = IF q = c THEN t.selected ELSE t.stored[q]
  BY <1>0, TableFields DEF Tables
<1>2. t.selected # NoTable /\ c # t.pid
  BY <1>0, TableFields, ContextConstants DEF NoTableOf
<1> HIDE DEF u
<1> QED BY <1>0, <1>1, <1>2, PidFacts DEF TablesPlaced, SameTables, FdTableForProcess, u

Inv == ContextsInOnePlace /\ OpenWhileNamed

LEMMA InvFacts ==
    ASSUME Inv
    PROVE  /\ TypeOK
           /\ Placed(mem, Live)
           /\ TablesPlaced(fdt, Live)
           /\ \A q \in Pid : q >= next_pid => q \notin Live /\ Blank(mem, q) /\ NoTableOf(fdt, q)
<1>1. TypeOK
  BY DEF Inv, ContextsInOnePlace
<1>2. Placed(mem, Live)
  <2>1. mem.pending \in [Pid -> Pid \cup {NoPid}]
    BY Zenon, <1>1 DEF TypeOK, Memories
  <2> QED BY <1>1, <2>1 DEF Inv, ContextsInOnePlace, TypeOK, MemoryInOnePlace,
                            Placed, Selected, Stored, Pending, Live
<1>3. TablesPlaced(fdt, Live)
  BY <1>1 DEF Inv, ContextsInOnePlace, TypeOK, TableInOnePlace, TablesPlaced, Live
<1>4. \A q \in Pid : q >= next_pid => q \notin Live /\ Blank(mem, q) /\ NoTableOf(fdt, q)
  BY DEF Inv, ContextsInOnePlace, UnbornIsUnknown, Live, Running, Blank, NoTableOf
<1> QED BY <1>1, <1>2, <1>3, <1>4

(***************************************************************************)
(* What a step of p, running before it, does to the memories and tables:   *)
(* it changes nobody's but p's, and gives none to a pid that does not run. *)
(***************************************************************************)
MemoryStep(m, n, p, R) ==
    /\ Placed(n, R)
    /\ SameViews(m, n, R \ {p})
    /\ \A q \in Pid : n.pending[q] \in {m.pending[q], NoPid}
    /\ \A q \in Pid \ Live : Blank(m, q) => Blank(n, q)

TableStep(t, u, p, R) ==
    /\ TablesPlaced(u, R)
    /\ SameTables(t, u, R \ {p})
    /\ KeepsBare(t, u, Live)

\* no other running process sees the step
Isolated(p) == SameViews(mem, mem', Live' \ {p}) /\ SameTables(fdt, fdt', Live' \ {p})
SameTable(p) == FdTableForProcess(fdt', p) = FdTableForProcess(fdt, p)

\* p has not changed its table, or shares its memory with nobody
SharesNothing(p) ==
    \/ p \notin Live'
    \/ Own(mem', p)
    \/ SameTable(p)

LEMMA StepKeepsPlaces ==
    ASSUME Inv, NEW p \in Live,
           Live' \subseteq Live, UNCHANGED <<next_pid, parent>>,
           \A q \in Pid : exit_state[q] = "None" => exit_state'[q] = "None",
           MemoryStep(mem, mem', p, Live'), TableStep(fdt, fdt', p, Live'),
           SharesNothing(p)
    PROVE  /\ MemoryInOnePlace'
           /\ \A q \in Pid : Running(q)' => (fdt'.pid = q <=> fdt'.stored[q] = NoTable)
           /\ PendingSharesTable' /\ PendingIsChildless'
           /\ UnbornIsUnknown'
<1> USE PidFacts
<1>1. MemoryInOnePlace'
  BY DEF MemoryStep, Placed, Selected, Stored, Pending, MemoryInOnePlace, Live
<1>2. \A q \in Pid : Running(q)' => (fdt'.pid = q <=> fdt'.stored[q] = NoTable)
  BY DEF TableStep, TablesPlaced, Live
<1>3. PendingSharesTable'
  <2> SUFFICES ASSUME NEW c \in Pid, mem'.pending[c] # NoPid
               PROVE  FdTableForProcess(fdt', c) = FdTableForProcess(fdt', mem'.pending[c])
    BY DEF PendingSharesTable
  <2> DEFINE r == mem'.pending[c]
  <2>1. r = mem.pending[c] /\ c \in Live' /\ r \in Live'
    BY DEF MemoryStep, Placed, Selected, Stored, Pending
  <2>2. FdTableForProcess(fdt, c) = FdTableForProcess(fdt, r)
    BY <2>1 DEF Inv, ContextsInOnePlace, PendingSharesTable
  <2>3. \A q \in {c, r} : FdTableForProcess(fdt', q) = FdTableForProcess(fdt, q)
    <3> SUFFICES ASSUME NEW q \in {c, r}
                 PROVE  FdTableForProcess(fdt', q) = FdTableForProcess(fdt, q)
      OBVIOUS
    <3>1. CASE q # p
      BY <3>1, <2>1 DEF TableStep, SameTables
    <3>2. CASE q = p
      <4>1. ~Own(mem', p)
        BY Zenon, <3>2 DEF Own, NoChildPends
      <4> QED BY <4>1, <3>2, <2>1 DEF SharesNothing, SameTable
    <3> QED BY <3>1, <3>2
  <2> QED BY <2>2, <2>3
<1>4. UnbornIsUnknown'
  <2> SUFFICES ASSUME NEW q \in Pid, q >= next_pid
               PROVE  /\ exit_state'[q] = "None" /\ Blank(mem', q) /\ NoTableOf(fdt', q)
                      /\ \A c \in Pid : parent[c] # q
    BY DEF UnbornIsUnknown, Blank, NoTableOf
  <2>1. /\ q \notin Live /\ Blank(mem, q) /\ NoTableOf(fdt, q) /\ exit_state[q] = "None"
        /\ \A c \in Pid : parent[c] # q
    BY InvFacts DEF Inv, ContextsInOnePlace, UnbornIsUnknown
  <2> QED BY <2>1 DEF MemoryStep, TableStep, KeepsBare
<1>5. PendingIsChildless'
  BY DEF MemoryStep, PendingIsChildless, Inv, ContextsInOnePlace
<1> QED BY Zenon, <1>1, <1>2, <1>3, <1>4, <1>5

(***************************************************************************)
(* Where releases succeed.                                                 *)
(***************************************************************************)
LEMMA Whole ==
    ASSUME Inv, ReleasesSucceed, Running(INITIAL)
    PROVE  /\ run = "running"
           /\ \A q \in Live : SocketsOnce(FdTableForProcess(fdt, q))
           /\ \A q \in Pid \ Live : NoTableOf(fdt, q) /\ mem.pid # q
           /\ LastNameCloses
  BY DEF Inv, ContextsInOnePlace, RunGoesOn, ReleasesAreWhole, HasTable, NoTableOf, Live,
         OpenWhileNamed, OpenIsNamed

LEMMA NoTableNamesNothing == \A x, f : ~Holds(NoTable, f, x) /\ ~Names(NoTable, x)
  BY DEF Names, Holds

(***************************************************************************)
(* The reference counts: a process other than p names x.                   *)
(***************************************************************************)
OtherNames(p, x) == \E q \in Live \ {p} : Names(FdTableForProcess(fdt, q), x)

LEMMA SharedIsNamed ==
    ASSUME NEW t, SameTables(fdt, t, Live), KeepsBare(fdt, t, Live), NEW p \in Pid, NEW x
    PROVE  /\ OtherNames(p, x) => ~Unshared(t, p, x)
           /\ Inv /\ ReleasesSucceed /\ Running(INITIAL) /\ ~Unshared(t, p, x) => OtherNames(p, x)
<1>1. OtherNames(p, x) => ~Unshared(t, p, x)
  BY PidFacts DEF OtherNames, Unshared, SameTables
<1>2. ASSUME Inv, ReleasesSucceed, Running(INITIAL), ~Unshared(t, p, x)
      PROVE  OtherNames(p, x)
  <2>1. PICK q \in Pid \ {p} : Names(FdTableForProcess(t, q), x)
    BY <1>2 DEF Unshared
  <2>2. CASE q \in Live
    BY <2>1, <2>2 DEF SameTables, OtherNames
  <2>3. CASE q \notin Live
    <3>1. NoTableOf(t, q)
      BY <1>2, <2>3, Whole DEF KeepsBare
    <3> QED BY <2>1, <3>1, NoTableNamesNothing DEF NoTableOf, FdTableForProcess
  <2> QED BY <2>2, <2>3
<1> QED BY <1>1, <1>2

LEMMA StepKeepsNamesOpen ==
    ASSUME Inv, NEW p \in Live, Live' \subseteq Live, TableStep(fdt, fdt', p, Live'),
           \A x \in Object : p \in Live' /\ Names(FdTableForProcess(fdt', p), x) => x \in open',
           \A x \in open : OtherNames(p, x) => x \in open'
    PROVE  NamedIsOpen'
<1> SUFFICES ASSUME NEW q \in Pid, NEW x \in Object, Running(q)',
                    Names(FdTableForProcess(fdt', q), x)
             PROVE  x \in open'
  BY DEF NamedIsOpen
<1>1. q \in Live'
  BY DEF Live
<1>2. CASE q = p
  BY <1>1, <1>2
<1>3. CASE q # p
  <2>1. q \in Live /\ Names(FdTableForProcess(fdt, q), x)
    BY <1>1, <1>3 DEF TableStep, SameTables
  <2>2. x \in open
    BY <2>1 DEF Inv, OpenWhileNamed, NamedIsOpen, Live
  <2> QED BY <2>1, <2>2, <1>3 DEF OtherNames
<1> QED BY <1>2, <1>3

LEMMA StepKeepsLastNames ==
    ASSUME NEW p \in Live, Live \ {p} \subseteq Live', TableStep(fdt, fdt', p, Live'),
           \A x \in open' : OtherNames(p, x) \/ (p \in Live' /\ Names(FdTableForProcess(fdt', p), x))
    PROVE  LastNameCloses'
<1> SUFFICES ASSUME NEW x \in open'
             PROVE  \E q \in Pid : Exists(q)' /\ Names(FdTableForProcess(fdt', q), x)
  BY DEF LastNameCloses
<1>0. \A q \in Live' : q \in Pid /\ Exists(q)'
  BY DEF Live, Running, Exists
<1>1. CASE OtherNames(p, x)
  <2>1. PICK q \in Live \ {p} : Names(FdTableForProcess(fdt, q), x)
    BY <1>1 DEF OtherNames
  <2>2. q \in Live' /\ Names(FdTableForProcess(fdt', q), x)
    BY <2>1 DEF TableStep, SameTables
  <2> QED BY <2>2, <1>0
<1>2. CASE p \in Live' /\ Names(FdTableForProcess(fdt', p), x)
  BY Zenon, <1>2, <1>0
<1> QED BY <1>1, <1>2

(***************************************************************************)
(* The invariant after a step of p that forks no child.                    *)
(***************************************************************************)
ReleaseStep(p) ==
    /\ run' = run
    /\ \A x \in open' : OtherNames(p, x) \/ (p \in Live' /\ Names(FdTableForProcess(fdt', p), x))
    /\ p \in Live' => SocketsOnce(FdTableForProcess(fdt', p))
    /\ Exists(fdt.pid)' /\ Exists(mem.pid)'
    /\ INITIAL \in Live' => mem'.pid \in Live' /\ (p \notin Live' => NoTableOf(fdt', p))

LEMMA StepKeepsInv ==
    ASSUME Inv, Running(INITIAL), NEW p \in Live, TypeOK',
           Live' = Live \/ Live' = Live \ {p}, UNCHANGED <<next_pid, parent, work>>,
           \A q \in Pid : exit_state[q] = "None" => exit_state'[q] = "None",
           MemoryStep(mem, mem', p, Live'), TableStep(fdt, fdt', p, Live'),
           SharesNothing(p),
           \A x \in Object : p \in Live' /\ Names(FdTableForProcess(fdt', p), x) => x \in open',
           \A x \in open : OtherNames(p, x) => x \in open',
           ReleasesSucceed => ReleaseStep(p)
    PROVE  Inv' /\ Isolated(p)
<1>0. Live' \subseteq Live /\ Live \ {p} \subseteq Live'
  BY Zenon
<1>1. /\ MemoryInOnePlace'
      /\ \A q \in Pid : Running(q)' => (fdt'.pid = q <=> fdt'.stored[q] = NoTable)
      /\ PendingSharesTable' /\ PendingIsChildless'
      /\ UnbornIsUnknown'
  BY Zenon, <1>0, StepKeepsPlaces
<1>2. NamedIsOpen'
  BY <1>0, StepKeepsNamesOpen
<1>3. ReleasesSucceed' => ReleasesSucceed
  BY Zenon DEF ReleasesSucceed
<1>4. ReleasesSucceed => LastNameCloses'
  BY Zenon, <1>0, StepKeepsLastNames DEF ReleaseStep
<1>5. ASSUME ReleasesSucceed PROVE run' = "running" /\ Exists(fdt.pid)' /\ Exists(mem.pid)'
  BY Zenon, <1>5, Whole DEF ReleaseStep
<1>6. ReleasesAreWhole'
  <2> SUFFICES ASSUME ReleasesSucceed, Running(INITIAL)', NEW q \in Pid
               PROVE  IF q \in Live' THEN SocketsOnce(FdTableForProcess(fdt', q))
                      ELSE NoTableOf(fdt', q) /\ mem'.pid # q
    BY Zenon, <1>3 DEF ReleasesAreWhole, Live, HasTable, NoTableOf, SocketsOnce
  <2>1. INITIAL \in Live'
    BY Zenon, PidFacts DEF Live
  <2>2. CASE q \in Live' /\ q # p
    <3>1. SocketsOnce(FdTableForProcess(fdt, q))
      BY Zenon, <2>2, <1>0, Whole
    <3> QED BY Zenon, <2>2, <3>1 DEF TableStep, SameTables
  <2>3. CASE q \in Live' /\ q = p
    BY Zenon, <2>3 DEF ReleaseStep
  <2>4. CASE q \notin Live' /\ q # p
    <3>1. NoTableOf(fdt, q) /\ q \notin Live
      BY Zenon, <2>4, <1>0, Whole
    <3> QED BY Zenon, <2>1, <2>4, <3>1 DEF ReleaseStep, TableStep, KeepsBare
  <2>5. CASE q \notin Live' /\ q = p
    BY Zenon, <2>1, <2>5 DEF ReleaseStep
  <2> QED BY <2>2, <2>3, <2>4, <2>5
<1>7. TableInOnePlace'
  BY Zenon, <1>1, <1>3, <1>5 DEF TableInOnePlace
<1>8. RunGoesOn' /\ OpenIsNamed'
  BY Zenon, <1>3, <1>4, <1>5 DEF RunGoesOn, OpenIsNamed
<1>9. Isolated(p)
  BY Zenon DEF Isolated, MemoryStep, TableStep
<1> QED BY <1>1, <1>2, <1>6, <1>7, <1>8, <1>9 DEF Inv, ContextsInOnePlace, OpenWhileNamed

(***************************************************************************)
(* A call on fds makes the table of its process T.                         *)
(***************************************************************************)
LEMMA SetSelectedStep ==
    ASSUME TablesPlaced(fdt, Live), NEW p \in Live, NEW T \in Table
    PROVE  LET u == SetTable(SelectFds(fdt, p), T)
           IN  /\ TableStep(fdt, u, p, Live)
               /\ u.pid = p /\ u \in Tables
               /\ FdTableForProcess(u, p) = T
<1> DEFINE t == SelectFds(fdt, p)
           u == SetTable(t, T)
<1>1. /\ TablesPlaced(t, Live) /\ SameTables(fdt, t, Live) /\ KeepsBare(fdt, t, Live)
      /\ t.pid = p
  BY SelectFdsPlaced
<1> HIDE DEF t
<1>2. /\ TablesPlaced(u, Live) /\ KeepsBare(t, u, Live)
      /\ u.pid = p /\ u.selected = T /\ u.stored = t.stored
  BY <1>1, SetTablePlaced
<1> HIDE DEF u
<1>3. SameTables(fdt, u, Live \ {p})
  BY <1>1, <1>2 DEF SameTables, FdTableForProcess
<1>4. KeepsBare(fdt, u, Live)
  BY <1>1, <1>2 DEF KeepsBare
<1> QED BY <1>1, <1>2, <1>3, <1>4 DEF TableStep, TablesPlaced, FdTableForProcess, u, t

LEMMA SelectStep ==
    ASSUME TablesPlaced(fdt, Live), NEW p \in Live
    PROVE  LET t == SelectFds(fdt, p)
           IN  /\ TableStep(fdt, t, p, Live)
               /\ t.pid = p /\ t \in Tables
               /\ t.selected = FdTableForProcess(fdt, p)
               /\ FdTableForProcess(t, p) = FdTableForProcess(fdt, p)
               /\ SameTables(fdt, t, Live) /\ KeepsBare(fdt, t, Live)
<1> DEFINE t == SelectFds(fdt, p)
<1>1. /\ TablesPlaced(t, Live) /\ SameTables(fdt, t, Live) /\ KeepsBare(fdt, t, Live)
      /\ t.pid = p /\ t.selected = FdTableForProcess(fdt, p)
  BY SelectFdsPlaced
<1> HIDE DEF t
<1> QED BY <1>1 DEF TableStep, TablesPlaced, SameTables, t

LEMMA SelectMemoryStep ==
    ASSUME Placed(mem, Live), NEW p \in Live
    PROVE  LET n == SelectMemory(EnterTask(mem, p), p)
           IN  MemoryStep(mem, n, p, Live) /\ n.pid = p /\ Own(n, p) /\ SameViews(mem, n, Live)
<1> DEFINE n == SelectMemory(EnterTask(mem, p), p)
<1>1. Kept(mem, n) /\ n.pid = p /\ Own(n, p)
  BY EnterAndSelectKept
<1> HIDE DEF n
<1> QED BY Zenon, <1>1 DEF Kept, MemoryStep, SameViews, n

LEMMA DispatchedRuns ==
    ASSUME NEW p \in Pid, Dispatched(p)
    PROVE  p \in Live /\ INITIAL \in Live /\ Running(INITIAL)
  BY Zenon, PidFacts DEF Dispatched, Live

LEMMA SelectedRun ==
    ASSUME Inv, ReleasesSucceed, Running(INITIAL)
    PROVE  mem.pid \in Live /\ fdt.pid \in Live
  BY InvFacts, Whole, MemoryFields, TableFields DEF TypeOK, NoTableOf

(***************************************************************************)
(* A call that no process begins or ends with.                             *)
(***************************************************************************)
LEMMA CallKeepsInv ==
    ASSUME Inv, NEW p \in Pid, Dispatched(p), UNCHANGED <<kernelVars, run, work>>,
           half_execed' \subseteq Pid, open' \subseteq created', created' \subseteq Object,
           MemoryStep(mem, mem', p, Live), mem'.pid \in {mem.pid, p},
           TableStep(fdt, fdt', p, Live), fdt'.pid \in {fdt.pid, p},
           Own(mem', p) \/ SameTable(p),
           \A x \in Object : Names(FdTableForProcess(fdt', p), x) => x \in open',
           \A x \in open : OtherNames(p, x) => x \in open',
           ReleasesSucceed =>
               /\ SocketsOnce(FdTableForProcess(fdt', p))
               /\ \A x \in open' : OtherNames(p, x) \/ Names(FdTableForProcess(fdt', p), x)
    PROVE  Inv' /\ Isolated(p)
<1>1. p \in Live /\ INITIAL \in Live /\ Running(INITIAL)
  BY Zenon, DispatchedRuns
<1>2. Live' = Live /\ \A q \in Pid : exit_state[q] = "None" => exit_state'[q] = "None"
  BY DEF kernelVars, Live, Running
<1>3. TypeOK'
  BY Zenon, InvFacts DEF TypeOK, kernelVars, MemoryStep, TableStep, Placed, TablesPlaced
<1>4. \A q \in Live : Exists(q)'
  BY Zenon, <1>2 DEF Live, Running, Exists
<1>5. ReleasesSucceed => mem'.pid \in Live /\ fdt'.pid \in Live
  BY Zenon, <1>1, SelectedRun
<1>6. ReleasesSucceed => ReleaseStep(p)
  BY Zenon, <1>1, <1>2, <1>4, <1>5 DEF ReleaseStep, Exists
<1> QED BY Zenon, <1>1, <1>2, <1>3, <1>6, StepKeepsInv DEF SharesNothing, kernelVars

(***************************************************************************)
(* The calls on fds: what they do to the objects and to p's table is all   *)
(* that is left to show.                                                   *)
(***************************************************************************)
LEMMA FdCallKeepsInv ==
    ASSUME Inv, NEW p \in Pid, FdCall(p), UNCHANGED work,
           open' \subseteq created', created' \subseteq Object,
           TableStep(fdt, fdt', p, Live), fdt'.pid = p,
           \A x \in Object : Names(FdTableForProcess(fdt', p), x) => x \in open',
           \A x \in open : OtherNames(p, x) => x \in open',
           ReleasesSucceed =>
               /\ SocketsOnce(FdTableForProcess(fdt', p))
               /\ \A x \in open' : OtherNames(p, x) \/ Names(FdTableForProcess(fdt', p), x)
    PROVE  Inv' /\ Isolated(p)
<1>1. p \in Live /\ Dispatched(p) /\ UNCHANGED <<kernelVars, run, work>>
  BY DispatchedRuns DEF FdCall
<1>2. MemoryStep(mem, mem', p, Live) /\ mem'.pid = p /\ Own(mem', p)
  BY <1>1, InvFacts, SelectMemoryStep DEF FdCall
<1>3. half_execed' \subseteq Pid
  BY InvFacts DEF FdCall, TypeOK
<1> QED BY Zenon, <1>1, <1>2, <1>3, CallKeepsInv

(***************************************************************************)
(* What a table names, and the fd it names it with.                        *)
(***************************************************************************)
LEMMA NamedByRunning ==
    ASSUME Inv, NEW p \in Live, NEW x \in Object, Names(FdTableForProcess(fdt, p), x)
    PROVE  x \in open /\ x \in created
  BY InvFacts DEF Inv, OpenWhileNamed, NamedIsOpen, TypeOK, Live

LEMMA FewerHolds ==
    ASSUME NEW T, NEW U, \A f \in Fd : \A x \in Object : Holds(U, f, x) => Holds(T, f, x)
    PROVE  /\ \A x \in Object : Names(U, x) => Names(T, x)
           /\ SocketsOnce(T) => SocketsOnce(U)
  BY DEF Names, SocketsOnce, Object

LEMMA OnlyNamesOrOthers ==
    ASSUME Inv, ReleasesSucceed, Running(INITIAL), NEW p \in Live, NEW x \in open
    PROVE  OtherNames(p, x) \/ Names(FdTableForProcess(fdt, p), x)
<1>1. PICK q \in Pid : Names(FdTableForProcess(fdt, q), x)
  BY Whole DEF LastNameCloses
<1>2. q \in Live
  BY Zenon, <1>1, Whole, NoTableNamesNothing DEF NoTableOf, FdTableForProcess
<1> QED BY <1>1, <1>2 DEF OtherNames

\* the only fd that names x is the next one
LEMMA CreateKeepsInv ==
    ASSUME Inv, NEW p \in Pid, NEW x \in work.objects, NEW b \in BOOLEAN,
           Create(p, x, b), UNCHANGED work
    PROVE  Inv' /\ Isolated(p)
<1> DEFINE t == SelectFds(fdt, p)
<1>0. p \in Live /\ INITIAL \in Live /\ Running(INITIAL) /\ FdCall(p)
  BY Zenon, DispatchedRuns DEF Create, FdCall
<1>1. x \in Object /\ x \notin created /\ work.fds \subseteq Fd
  BY InvFacts, ContextConstants DEF Create, TypeOK
<1>2. PICK f \in work.fds :
          /\ NextFd(t.selected, f)
          /\ fdt' = SetTable(t, [t.selected EXCEPT ![f] = [obj |-> x, cloexec |-> b]])
  BY Zenon DEF Create
<1> DEFINE T == [t.selected EXCEPT ![f] = [obj |-> x, cloexec |-> b]]
<1>3. t.selected = FdTableForProcess(fdt, p) /\ t.selected \in Table
  BY Zenon, <1>0, InvFacts, SelectStep, TableOfRunning
<1>4. T \in Table
  BY <1>1, <1>3 DEF Table, Entry
<1>5. /\ TableStep(fdt, fdt', p, Live) /\ fdt'.pid = p
      /\ FdTableForProcess(fdt', p) = T
  BY Zenon, <1>0, <1>2, <1>4, InvFacts, SetSelectedStep
<1>6. \A g \in Fd : \A y \in Object : Holds(T, g, y) <=>
          IF g = f THEN y = x ELSE Holds(t.selected, g, y)
  BY <1>1, <1>3, <1>4, ContextConstants DEF Holds, Table, Entry
<1> HIDE DEF T
<1>7. created' = created \cup {x} /\ open' = open \cup {x}
  BY DEF Create
<1>8. \A y \in Object : Names(t.selected, y) => y \in open /\ y # x
  BY Zenon, <1>0, <1>1, <1>3, NamedByRunning
<1>9. \A y \in Object : Names(T, y) => y \in open'
  BY Zenon, <1>6, <1>7, <1>8 DEF Names
<1>10. ASSUME ReleasesSucceed
       PROVE  /\ SocketsOnce(T)
              /\ \A y \in open' : OtherNames(p, y) \/ Names(T, y)
  <2>1. SocketsOnce(t.selected)
    BY Zenon, <1>0, <1>3, <1>10, Whole
  <2>2. ~Names(t.selected, x)
    BY Zenon, <1>1, <1>8
  <2>3. SocketsOnce(T)
    BY <1>1, <1>6, <2>1, <2>2 DEF SocketsOnce, Names, Object
  <2>4. open \subseteq Object
    BY InvFacts DEF TypeOK
  <2>5. Names(T, x)
    BY <1>1, <1>6 DEF Names
  <2>6. \A y \in Object : Names(t.selected, y) => Names(T, y)
    <3> SUFFICES ASSUME NEW y \in Object, NEW g \in Fd, Holds(t.selected, g, y)
                 PROVE  Names(T, y)
      BY DEF Names
    <3>1. g # f
      BY Zenon, <1>2 DEF NextFd, Holds
    <3> QED BY Zenon, <3>1, <1>6 DEF Names
  <2> QED BY Zenon, <1>0, <1>3, <1>7, <1>10, <2>3, <2>4, <2>5, <2>6, OnlyNamesOrOthers
<1>11. open' \subseteq created' /\ created' \subseteq Object
  BY Zenon, <1>1, <1>7, InvFacts DEF TypeOK
<1> QED BY Zenon, <1>0, <1>5, <1>7, <1>9, <1>10, <1>11, FdCallKeepsInv

LEMMA AcceptFaultsKeepsInv ==
    ASSUME Inv, NEW p \in Pid, NEW x \in work.objects \cap Socket,
           AcceptFaults(p, x), UNCHANGED work
    PROVE  Inv' /\ Isolated(p)
<1>0. p \in Live /\ INITIAL \in Live /\ Running(INITIAL) /\ FdCall(p)
  BY DispatchedRuns DEF AcceptFaults, FdCall
<1>1. x \in Object
  BY DEF Object
<1>2. /\ TableStep(fdt, fdt', p, Live) /\ fdt'.pid = p
      /\ FdTableForProcess(fdt', p) = FdTableForProcess(fdt, p)
  BY Zenon, <1>0, InvFacts, SelectStep DEF AcceptFaults
<1>3. created' = created \cup {x} /\ open' = open \cup {x} /\ ~ReleasesSucceed
  BY Zenon DEF AcceptFaults, ReleasesSucceed
<1>4. \A y \in Object : Names(FdTableForProcess(fdt', p), y) => y \in open'
  BY <1>0, <1>2, <1>3, NamedByRunning
<1>5. open' \subseteq created' /\ created' \subseteq Object
  BY <1>1, <1>3, InvFacts DEF TypeOK
<1> QED BY Zenon, <1>0, <1>2, <1>3, <1>4, <1>5, FdCallKeepsInv

\* a call that gives p a table U naming no more than it did, and closes nothing
LEMMA CopyKeepsInv ==
    ASSUME Inv, NEW p \in Pid, FdCall(p), UNCHANGED <<work, open, created>>,
           NEW U \in Table, fdt' = SetTable(SelectFds(fdt, p), U),
           \A x \in Object : Names(U, x) => Names(FdTableForProcess(fdt, p), x),
           ReleasesSucceed =>
               /\ SocketsOnce(U)
               /\ \A x \in Object : Names(FdTableForProcess(fdt, p), x) => Names(U, x)
    PROVE  Inv' /\ Isolated(p)
<1>0. p \in Live /\ INITIAL \in Live /\ Running(INITIAL)
  BY DispatchedRuns DEF FdCall
<1>1. /\ TableStep(fdt, fdt', p, Live) /\ fdt'.pid = p
      /\ FdTableForProcess(fdt', p) = U
  BY <1>0, InvFacts, SetSelectedStep
<1>2. \A x \in Object : Names(U, x) => x \in open'
  BY <1>0, NamedByRunning
<1>3. open' \subseteq created' /\ created' \subseteq Object
  BY InvFacts DEF TypeOK
<1>4. ReleasesSucceed => \A x \in open' : OtherNames(p, x) \/ Names(U, x)
  BY <1>0, <1>3, OnlyNamesOrOthers
<1> QED BY <1>0, <1>1, <1>2, <1>3, <1>4, FdCallKeepsInv

LEMMA CopyOfEntry ==
    ASSUME NEW T \in Table, NEW f \in Fd, NEW g \in Fd, NEW b \in BOOLEAN, T[f] # NoEntry
    PROVE  LET U == [T EXCEPT ![g] = [T[f] EXCEPT !.cloexec = b]]
           IN  U \in Table /\ \A x \in Object : Names(U, x) => Names(T, x)
<1> DEFINE U == [T EXCEPT ![g] = [T[f] EXCEPT !.cloexec = b]]
<1>1. T[f] \in Entry /\ [T[f] EXCEPT !.cloexec = b] \in Entry
      /\ [T[f] EXCEPT !.cloexec = b].obj = T[f].obj
  BY DEF Table, Entry
<1>2. U \in Table
  BY <1>1 DEF Table
<1>3. \A h \in Fd : \A x \in Object : Holds(U, h, x) => Holds(T, h, x) \/ Holds(T, f, x)
  BY <1>1, ContextConstants DEF Holds, Table
<1> QED BY Zenon, <1>2, <1>3 DEF Names

LEMMA DupKeepsInv ==
    ASSUME Inv, NEW p \in Pid, NEW f \in work.fds, NEW b \in BOOLEAN,
           Dup(p, f, b) \/ \E g \in work.fds : Dup2(p, f, g, b), UNCHANGED work
    PROVE  Inv' /\ Isolated(p)
<1> DEFINE T == SelectFds(fdt, p).selected
<1>0. p \in Live /\ FdCall(p) /\ ~ReleasesSucceed /\ UNCHANGED <<open, created>> /\ T[f] # NoEntry
  BY Zenon, DispatchedRuns DEF Dup, Dup2, FdCall, ReleasesSucceed
<1>1. f \in Fd /\ work.fds \subseteq Fd
  BY InvFacts, ContextConstants DEF TypeOK
<1>2. T = FdTableForProcess(fdt, p) /\ T \in Table
  <2>1. TablesPlaced(fdt, Live) /\ p \in Live
    BY Zenon, <1>0, InvFacts
  <2>2. T = FdTableForProcess(fdt, p)
    BY Zenon, <2>1, SelectStep
  <2>3. FdTableForProcess(fdt, p) \in Table
    BY Zenon, <2>1, TableOfRunning
  <2> HIDE DEF T
  <2> QED BY Zenon, <2>2, <2>3
<1>3. PICK g \in work.fds :
          fdt' = SetTable(SelectFds(fdt, p), [T EXCEPT ![g] = [T[f] EXCEPT !.cloexec = b]])
  BY Zenon DEF Dup, Dup2
<1>4. LET U == [T EXCEPT ![g] = [T[f] EXCEPT !.cloexec = b]]
      IN  U \in Table /\ \A x \in Object : Names(U, x) => Names(T, x)
  BY Zenon, <1>0, <1>1, <1>2, CopyOfEntry
<1> QED BY Zenon, <1>0, <1>2, <1>3, <1>4, CopyKeepsInv

LEMMA SetCloexecKeepsInv ==
    ASSUME Inv, NEW p \in Pid, NEW f \in work.fds, NEW b \in BOOLEAN,
           SetCloexec(p, f, b), UNCHANGED work
    PROVE  Inv' /\ Isolated(p)
<1> DEFINE T == SelectFds(fdt, p).selected
           U == [T EXCEPT ![f].cloexec = b]
<1>0. /\ p \in Live /\ Running(INITIAL) /\ FdCall(p) /\ UNCHANGED <<open, created>>
      /\ T[f] # NoEntry /\ fdt' = SetTable(SelectFds(fdt, p), U)
  BY DispatchedRuns DEF SetCloexec, FdCall
<1>1. f \in Fd
  BY Zenon, InvFacts, ContextConstants DEF TypeOK
<1>2. T = FdTableForProcess(fdt, p) /\ T \in Table
  BY <1>0, InvFacts, SelectStep, TableOfRunning
<1>3. T[f] \in Entry
  BY <1>0, <1>1, <1>2 DEF Table
<1>4. /\ U = [T EXCEPT ![f] = [T[f] EXCEPT !.cloexec = b]]
      /\ [T[f] EXCEPT !.cloexec = b] \in Entry /\ [T[f] EXCEPT !.cloexec = b].obj = T[f].obj
  BY <1>1, <1>2, <1>3 DEF Table, Entry
<1>5. U \in Table
  BY Zenon, <1>2, <1>4 DEF Table
<1>6. \A h \in Fd : \A x \in Object : Holds(U, h, x) <=> Holds(T, h, x)
  BY <1>1, <1>2, <1>3, <1>4, <1>5, ContextConstants DEF Holds, Table
<1> HIDE DEF U
<1>7. /\ \A x \in Object : Names(U, x) <=> Names(T, x)
      /\ SocketsOnce(T) => SocketsOnce(U)
  BY Zenon, <1>6, FewerHolds DEF Names
<1> QED BY <1>0, <1>2, <1>5, <1>7, Whole, CopyKeepsInv

(***************************************************************************)
(* close, close_range and execve take entries out of p's table, which is U *)
(* then, and close what nobody names any more.                             *)
(***************************************************************************)
LEMMA RemovalKeepsNames ==
    ASSUME Inv, Running(INITIAL), NEW p \in Live, NEW U \in Table, NEW O,
           \A f \in Fd : \A x \in Object : Holds(U, f, x) => Holds(FdTableForProcess(fdt, p), f, x),
           O \subseteq {x \in Object : /\ Names(FdTableForProcess(fdt, p), x)
                                       /\ ~Names(U, x)
                                       /\ Unshared(SelectFds(fdt, p), p, x)}
    PROVE  /\ \A x \in Object : Names(U, x) => x \in open \ O
           /\ \A x \in open : OtherNames(p, x) => x \in open \ O
           /\ ReleasesSucceed => SocketsOnce(U)
<1>1. /\ \A x \in Object : Names(U, x) => Names(FdTableForProcess(fdt, p), x)
      /\ SocketsOnce(FdTableForProcess(fdt, p)) => SocketsOnce(U)
  BY Zenon, FewerHolds
<1>2. \A x : OtherNames(p, x) => ~Unshared(SelectFds(fdt, p), p, x)
  BY InvFacts, PidFacts, SelectStep, SharedIsNamed
<1> QED BY <1>1, <1>2, Whole, NamedByRunning

LEMMA RemovalClosesLast ==
    ASSUME Inv, ReleasesSucceed, Running(INITIAL), NEW p \in Live, NEW U, NEW O,
           {x \in Object : /\ Names(FdTableForProcess(fdt, p), x)
                           /\ ~Names(U, x)
                           /\ Unshared(SelectFds(fdt, p), p, x)} \subseteq O
    PROVE  \A x \in open \ O : OtherNames(p, x) \/ Names(U, x)
<1> SUFFICES ASSUME NEW x \in open \ O, ~OtherNames(p, x)
             PROVE  Names(U, x)
  OBVIOUS
<1>1. Unshared(SelectFds(fdt, p), p, x)
  BY InvFacts, PidFacts, SelectStep, SharedIsNamed
<1>2. Names(FdTableForProcess(fdt, p), x) /\ x \in Object
  BY OnlyNamesOrOthers, InvFacts DEF TypeOK
<1> QED BY <1>1, <1>2

LEMMA CloseRangeKeepsInv ==
    ASSUME Inv, NEW p \in Pid, NEW first \in work.fds, NEW last \in work.fds,
           CloseRange(p, first, last), UNCHANGED work
    PROVE  Inv' /\ Isolated(p)
<1> DEFINE t == SelectFds(fdt, p)
           T == t.selected
           U == [f \in Fd |-> IF f \in first .. last THEN NoEntry ELSE T[f]]
           O == {x \in Object : Names(T, x) /\ ~Names(U, x) /\ Unshared(t, p, x)}
<1>0. p \in Live /\ INITIAL \in Live /\ Running(INITIAL) /\ FdCall(p)
  BY Zenon, DispatchedRuns DEF CloseRange, FdCall
<1>1. fdt' = SetTable(t, U) /\ open' = open \ O /\ created' = created
  BY DEF CloseRange
<1>2. T = FdTableForProcess(fdt, p) /\ T \in Table
  BY Zenon, <1>0, InvFacts, SelectStep, TableOfRunning
<1>3. U \in Table
  BY Zenon, <1>2 DEF Table
<1>4. \A f \in Fd : \A x \in Object : Holds(U, f, x) => Holds(T, f, x)
  BY Zenon, <1>2, <1>3, ContextConstants DEF Holds
<1> HIDE DEF U, T
<1>5. /\ TableStep(fdt, fdt', p, Live) /\ fdt'.pid = p
      /\ FdTableForProcess(fdt', p) = U
  BY Zenon, <1>0, <1>1, <1>3, InvFacts, SetSelectedStep
<1>6. /\ \A x \in Object : Names(U, x) => x \in open'
      /\ \A x \in open : OtherNames(p, x) => x \in open'
      /\ ReleasesSucceed => SocketsOnce(U)
  BY Zenon, <1>0, <1>1, <1>2, <1>3, <1>4, RemovalKeepsNames
<1>7. ReleasesSucceed => \A x \in open' : OtherNames(p, x) \/ Names(U, x)
  BY Zenon, <1>0, <1>1, <1>2, RemovalClosesLast
<1>8. open' \subseteq created' /\ created' \subseteq Object
  BY Zenon, <1>1, InvFacts DEF TypeOK
<1> QED BY Zenon, <1>0, <1>5, <1>6, <1>7, <1>8, FdCallKeepsInv

(***************************************************************************)
(* The calls and the dispatches that change no table.                      *)
(***************************************************************************)
LEMMA QuietKeepsInv ==
    ASSUME Inv, NEW p \in Pid, Dispatched(p),
           UNCHANGED <<kernelVars, open, created, half_execed, run, work>>,
           MemoryStep(mem, mem', p, Live), mem'.pid \in {mem.pid, p},
           fdt' \in {fdt, SelectFds(fdt, p)}
    PROVE  Inv' /\ Isolated(p) /\ SameTable(p)
<1>1. p \in Live /\ INITIAL \in Live /\ Running(INITIAL)
  BY DispatchedRuns
<1>2. /\ TableStep(fdt, fdt', p, Live) /\ fdt'.pid \in {fdt.pid, p}
      /\ FdTableForProcess(fdt', p) = FdTableForProcess(fdt, p)
  <2>1. CASE fdt' = fdt
    BY Zenon, <2>1, InvFacts DEF TableStep, SameTables, KeepsBare
  <2>2. CASE fdt' = SelectFds(fdt, p)
    BY <1>1, <2>2, InvFacts, SelectStep
  <2> QED BY <2>1, <2>2
<1>3. open' \subseteq created' /\ created' \subseteq Object /\ half_execed' \subseteq Pid
  BY Zenon, InvFacts DEF TypeOK
<1>4. \A x \in Object : Names(FdTableForProcess(fdt', p), x) => x \in open'
  BY <1>1, <1>2, NamedByRunning
<1>5. ReleasesSucceed =>
          /\ SocketsOnce(FdTableForProcess(fdt', p))
          /\ \A x \in open' : OtherNames(p, x) \/ Names(FdTableForProcess(fdt', p), x)
  BY Zenon, <1>1, <1>2, Whole, OnlyNamesOrOthers
<1> QED BY Zenon, <1>2, <1>3, <1>4, <1>5, CallKeepsInv DEF SameTable

\* the task has, or selects, a memory of its own, and writes it
LEMMA WriteStep ==
    ASSUME NEW p \in Live, NEW k, Kept(mem, k), Own(k, p), NEW v \in Value
    PROVE  LET n == WriteMemory(k, p, v)
           IN  /\ MemoryStep(mem, n, p, Live) /\ n.pid = k.pid /\ Own(n, p)
               /\ MemoryForProcess(n, p) = v
<1> DEFINE n == WriteMemory(k, p, v)
<1>1. /\ Placed(n, Live)
      /\ n.pid = k.pid /\ Own(n, p)
      /\ \A q \in Pid : n.pending[q] = k.pending[q]
      /\ \A q \in Pid \ Live : Blank(k, q) => Blank(n, q)
      /\ \A q \in Live : MemoryForProcess(n, q) = IF q = p THEN v ELSE MemoryForProcess(k, q)
  BY WriteMemoryPlaced DEF Kept
<1> HIDE DEF n
<1> QED BY Zenon, <1>1 DEF Kept, MemoryStep, SameViews, n

LEMMA EnterAndMaterialize ==
    ASSUME Placed(mem, Live), NEW p \in Live
    PROVE  LET k == MaterializeSelf(EnterTask(mem, p), p)
           IN  Kept(mem, k) /\ Own(k, p) /\ k.pid = mem.pid
<1> DEFINE j == EnterTask(mem, p)
           k == MaterializeSelf(j, p)
<1>1. Kept(mem, j) /\ j.pid = mem.pid /\ NoChildPends(j, p) /\ Placed(j, Live)
  BY Zenon, PidFacts, EnterTaskKept DEF Kept
<1> HIDE DEF j
<1>2. Kept(j, k) /\ k.pid = j.pid /\ k.pending[p] = NoPid /\ NoChildPends(k, p)
  BY <1>1, MaterializeSelfKept
<1> HIDE DEF k
<1> QED BY <1>1, <1>2, KeptTransitive DEF Own, k, j

LEMMA ComputeKeepsInv ==
    ASSUME Inv, NEW p \in Pid, Compute(p), UNCHANGED work
    PROVE  Inv' /\ Isolated(p) /\ SameTable(p)
<1> DEFINE m == MaterializeSelf(EnterTask(mem, p), p)
           k == SelectMemory(m, p)
<1>1. p \in Live
  BY Zenon, DispatchedRuns DEF Compute
<1>2. Kept(mem, m) /\ Own(m, p) /\ m.pid = mem.pid /\ Placed(m, Live)
  BY Zenon, <1>1, InvFacts, EnterAndMaterialize DEF Kept
<1>3. PICK v \in work.values :
          \/ mem' = WriteMemory(m, p, v) /\ fdt' = fdt
          \/ mem' = WriteMemory(k, p, v) /\ fdt' \in {fdt, SelectFds(fdt, p)}
  BY Zenon DEF Compute
<1>4. v \in Value
  BY Zenon, InvFacts, ContextConstants DEF TypeOK
<1> HIDE DEF m
<1>5. Kept(m, k) /\ k.pid = p /\ Own(k, p)
  BY <1>1, <1>2, SelectMemoryKept DEF Own
<1> HIDE DEF k
<1>6. Kept(mem, k)
  BY Zenon, <1>2, <1>5, KeptTransitive
<1>7. MemoryStep(mem, mem', p, Live) /\ mem'.pid \in {mem.pid, p}
  BY <1>1, <1>2, <1>3, <1>4, <1>5, <1>6, WriteStep
<1> QED BY Zenon, <1>3, <1>7, QuietKeepsInv DEF Compute

LEMMA ExecPendingFailsKeepsInv ==
    ASSUME Inv, NEW p \in Pid, ExecPendingFails(p), UNCHANGED work
    PROVE  Inv' /\ Isolated(p) /\ SameTable(p)
<1>1. p \in Live
  BY Zenon, DispatchedRuns DEF ExecPendingFails
<1>2. Kept(mem, mem') /\ mem'.pid = mem.pid
  BY Zenon, <1>1, InvFacts, EnterAndMaterialize DEF ExecPendingFails
<1>3. MemoryStep(mem, mem', p, Live)
  BY <1>2 DEF Kept, MemoryStep, SameViews
<1> QED BY Zenon, <1>2, <1>3, QuietKeepsInv DEF ExecPendingFails

(***************************************************************************)
(* execve: the close-on-exec fds go, and what only they named is closed,   *)
(* all of it unless a socket is closed twice.                              *)
(***************************************************************************)
LEMMA OnExecTable ==
    ASSUME NEW T \in Table
    PROVE  /\ OnExec(T) \in Table
           /\ \A f \in Fd : \A x \in Object : Holds(OnExec(T), f, x) => Holds(T, f, x)
<1>1. OnExec(T) \in Table
  BY DEF OnExec, Table
<1>2. \A f \in Fd : OnExec(T)[f] \in {NoEntry, T[f]}
  BY DEF OnExec
<1> QED BY <1>1, <1>2, ContextConstants DEF Holds

LEMMA CloseOnExecKeepsInv ==
    ASSUME Inv, NEW p \in Pid, Dispatched(p), UNCHANGED <<kernelVars, created, run, work>>,
           half_execed' \subseteq Pid,
           MemoryStep(mem, mem', p, Live), mem'.pid \in {mem.pid, p}, Own(mem', p),
           CloseOnExec(SelectFds(fdt, p), p),
           fdt' = SetTable(SelectFds(fdt, p), OnExec(SelectFds(fdt, p).selected))
    PROVE  Inv' /\ Isolated(p)
<1> DEFINE t == SelectFds(fdt, p)
           T == t.selected
           U == OnExec(T)
<1>0. p \in Live /\ INITIAL \in Live /\ Running(INITIAL)
  BY Zenon, DispatchedRuns
<1>1. T = FdTableForProcess(fdt, p) /\ T \in Table
  BY <1>0, InvFacts, SelectStep, TableOfRunning
<1>2. U \in Table /\ \A f \in Fd : \A x \in Object : Holds(U, f, x) => Holds(T, f, x)
  BY Zenon, <1>1, OnExecTable
<1>3. ClosedOnExec(t, p) = {x \in Object : Names(T, x) /\ ~Names(U, x) /\ Unshared(t, p, x)}
  BY Zenon DEF ClosedOnExec
<1> HIDE DEF U, T
<1>4. /\ TableStep(fdt, fdt', p, Live) /\ fdt'.pid = p
      /\ FdTableForProcess(fdt', p) = U
  BY <1>0, <1>2, InvFacts, SetSelectedStep DEF U, T
<1>5. PICK O \in SUBSET ClosedOnExec(t, p) :
          /\ open' = open \ O
          /\ ClosedTwice(t, p) = {} => O = ClosedOnExec(t, p)
  BY Zenon DEF CloseOnExec
<1>6. /\ \A x \in Object : Names(U, x) => x \in open'
      /\ \A x \in open : OtherNames(p, x) => x \in open'
      /\ ReleasesSucceed => SocketsOnce(U)
  <2>1. \A f \in Fd : \A x \in Object :
            Holds(U, f, x) => Holds(FdTableForProcess(fdt, p), f, x)
    BY Zenon, <1>1, <1>2
  <2>2. O \subseteq {x \in Object : /\ Names(FdTableForProcess(fdt, p), x)
                                    /\ ~Names(U, x)
                                    /\ Unshared(SelectFds(fdt, p), p, x)}
    BY Zenon, <1>1, <1>3, <1>5
  <2>3. /\ \A x \in Object : Names(U, x) => x \in open \ O
        /\ \A x \in open : OtherNames(p, x) => x \in open \ O
        /\ ReleasesSucceed => SocketsOnce(U)
    BY Zenon, <1>0, <1>2, <2>1, <2>2, RemovalKeepsNames
  <2> QED BY Zenon, <1>5, <2>3
<1>7. ReleasesSucceed => \A x \in open' : OtherNames(p, x) \/ Names(U, x)
  <2> SUFFICES ASSUME ReleasesSucceed
               PROVE  \A x \in open' : OtherNames(p, x) \/ Names(U, x)
    BY Zenon
  <2>1. SocketsOnce(T)
    BY Zenon, <1>0, <1>1, Whole
  <2>2. ClosedTwice(t, p) = {}
    BY Zenon, <2>1 DEF ClosedTwice, Twice, SocketsOnce, T
  <2> QED BY Zenon, <1>0, <1>1, <1>3, <1>5, <2>2, RemovalClosesLast
<1>8. open' \subseteq created' /\ created' \subseteq Object
  BY <1>5, InvFacts DEF TypeOK
<1> QED BY Zenon, <1>4, <1>6, <1>7, <1>8, CallKeepsInv

LEMMA ExecKeepsInv ==
    ASSUME Inv, NEW p \in Pid, Exec(p), UNCHANGED work
    PROVE  Inv' /\ Isolated(p)
<1> DEFINE m == SelectMemory(EnterTask(mem, p), p)
<1>1. p \in Live
  BY DispatchedRuns DEF Exec
<1>2. Kept(mem, m) /\ m.pid = p /\ Own(m, p)
  BY Zenon, <1>1, InvFacts, EnterAndSelectKept
<1> HIDE DEF m
<1>3. MemoryStep(mem, m, p, Live)
  BY <1>2 DEF Kept, MemoryStep, SameViews
<1>4. /\ mem' \in {m, WriteMemory(m, p, Image)}
      /\ half_execed' \in {half_execed \ {p}, half_execed \cup {p}}
  BY DEF Exec, ReplaceMemory, m
<1>5. MemoryStep(mem, mem', p, Live) /\ mem'.pid = p /\ Own(mem', p)
  <2>1. CASE mem' = m
    BY <1>2, <1>3, <2>1
  <2>2. CASE mem' = WriteMemory(m, p, Image)
    BY Zenon, <1>1, <1>2, <2>2, WriteStep, ContextConstants
  <2> QED BY <1>4, <2>1, <2>2
<1>6. half_execed' \subseteq Pid
  BY <1>4, InvFacts DEF TypeOK
<1> QED BY Zenon, <1>5, <1>6, CloseOnExecKeepsInv DEF Exec
=============================================================================
