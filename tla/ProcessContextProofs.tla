------------------------ MODULE ProcessContextProofs ------------------------
(***************************************************************************)
(* Proofs about ProcessContext, for every number of processes, every set   *)
(* of values, fds and objects and every workload: an execve of a pending   *)
(* fork, forks and the ends of processes keep the invariants too, and      *)
(* every behaviour of ProcessContext is one of ProcessIsolation.           *)
(***************************************************************************)
EXTENDS ProcessContextSteps

(***************************************************************************)
(* The execve of a pending child closes nothing: its parent has all it     *)
(* has.                                                                    *)
(***************************************************************************)
LEMMA PendingClosesNothing ==
    ASSUME Inv, NEW p \in Live, mem.pending[p] # NoPid
    PROVE  ClosedOnExec(SelectFds(fdt, p), p) = {} /\ ClosedTwice(SelectFds(fdt, p), p) = {}
<1> DEFINE t == SelectFds(fdt, p)
           r == mem.pending[p]
<1>1. r \in Live /\ r # p
  BY InvFacts DEF Placed, Selected, Stored, Pending
<1>2. FdTableForProcess(fdt, p) = FdTableForProcess(fdt, r)
  BY PidFacts DEF Inv, ContextsInOnePlace, PendingSharesTable
<1>3. \A x : OtherNames(p, x) => ~Unshared(t, p, x)
  BY InvFacts, PidFacts, SelectStep, SharedIsNamed
<1>4. t.selected = FdTableForProcess(fdt, p)
  BY InvFacts, SelectStep
<1>5. \A x : Names(t.selected, x) => OtherNames(p, x)
  BY <1>1, <1>2, <1>4 DEF OtherNames
<1> HIDE DEF t
<1> QED BY <1>3, <1>5 DEF ClosedOnExec, ClosedTwice, t

LEMMA ExecPendingMemory ==
    ASSUME Inv, NEW p \in Live, mem.pending[p] # NoPid
    PROVE  LET n == WriteMemory([EnterTask(mem, p) EXCEPT !.pending = [@ EXCEPT ![p] = NoPid]],
                                p, Image)
           IN  /\ MemoryStep(mem, n, p, Live) /\ n.pid = mem.pid /\ Own(n, p)
               /\ MemoryForProcess(n, p) = Image
<1> DEFINE k == EnterTask(mem, p)
           n == WriteMemory([k EXCEPT !.pending = [@ EXCEPT ![p] = NoPid]], p, Image)
<1>0. mem.pending[p] # p /\ p \in Pid
  BY InvFacts, PidFacts DEF Placed, Selected, Stored, Pending
<1>1. /\ Kept(mem, k) /\ k.pid = mem.pid /\ NoChildPends(k, p) /\ Placed(k, Live)
  BY <1>0, InvFacts, EnterTaskKept DEF Kept
<1>2. k.pending[p] # NoPid
  BY <1>0, InvFacts, PidFacts, MaterializeChildrenPlaced DEF EnterTask
<1> HIDE DEF k
<1>3. /\ Placed(n, Live)
      /\ n.pid = k.pid /\ Own(n, p)
      /\ \A q \in Pid : n.pending[q] \in {k.pending[q], NoPid}
      /\ \A q \in Pid \ Live : Blank(k, q) => Blank(n, q)
      /\ \A q \in Live : MemoryForProcess(n, q) = IF q = p THEN Image ELSE MemoryForProcess(k, q)
  BY <1>1, <1>2, NewMemoryPlaced, ContextConstants
<1> HIDE DEF n
<1> QED BY <1>1, <1>3 DEF Kept, MemoryStep, SameViews, n, k

LEMMA ExecPendingKeepsInv ==
    ASSUME Inv, NEW p \in Pid, ExecPending(p), UNCHANGED work
    PROVE  Inv' /\ Isolated(p)
<1>1. p \in Live /\ mem.pending[p] # NoPid
  BY DispatchedRuns DEF ExecPending
<1>2. ClosedTwice(SelectFds(fdt, p), p) = {}
  BY <1>1, PendingClosesNothing
<1>3. /\ mem' = WriteMemory([EnterTask(mem, p) EXCEPT !.pending = [@ EXCEPT ![p] = NoPid]],
                            p, Image)
      /\ half_execed' = half_execed \ {p}
  BY <1>2 DEF ExecPending, ReplaceMemory
<1>4. MemoryStep(mem, mem', p, Live) /\ mem'.pid = mem.pid /\ Own(mem', p)
  BY <1>1, <1>3, ExecPendingMemory
<1>5. half_execed' \subseteq Pid
  BY <1>3, InvFacts DEF TypeOK
<1> QED BY <1>4, <1>5, CloseOnExecKeepsInv DEF ExecPending

(***************************************************************************)
(* drop_process_resources of q, or what an error leaves of it: the objects *)
(* O are closed, and if b the memory and the table are dropped.            *)
(***************************************************************************)
Released(m, t, q, b, O) ==
    /\ b \in BOOLEAN
    /\ \A x \in O : Unshared(t, q, x)
    /\ mem' = IF b THEN DropMemory(m, q) ELSE m
    /\ fdt' = IF b THEN DropTable(t, q) ELSE t
    /\ open' = open \ O
    /\ ReleasesSucceed => b /\ O = ClosedWith(t, q)

LEMMA ReleaseSucceeds ==
    ASSUME Inv, ReleasesSucceed, Running(INITIAL), NEW q \in Pid,
           NEW t, SameTables(fdt, t, Live), KeepsBare(fdt, t, Live)
    PROVE  CloseSucceeds(t, q)
<1> SUFFICES ASSUME NEW f \in Fd, CloseFails(t, q, f)
             PROVE  FALSE
  BY DEF CloseSucceeds
<1>1. PICK s \in Socket :
          /\ Holds(FdTableForProcess(t, q), f, s)
          /\ s \notin open \/ \E g \in Fd : g < f /\ Holds(FdTableForProcess(t, q), g, s)
  BY DEF CloseFails
<1>2. CASE q \in Live
  <2>1. FdTableForProcess(t, q) = FdTableForProcess(fdt, q)
    BY <1>2 DEF SameTables
  <2>2. s \in open
    BY <1>1, <1>2, <2>1, NamedByRunning DEF Object, Names
  <2>3. SocketsOnce(FdTableForProcess(t, q))
    BY <1>2, <2>1, Whole
  <2>4. PICK g \in Fd : g < f /\ Holds(FdTableForProcess(t, q), g, s)
    BY <1>1, <2>2
  <2>5. g = f
    BY <1>1, <2>3, <2>4 DEF SocketsOnce
  <2> QED BY <2>4, <2>5, ContextConstants
<1>3. CASE q \notin Live
  <2>1. NoTableOf(t, q)
    BY <1>3, Whole DEF KeepsBare
  <2> QED BY <1>1, <2>1, NoTableNamesNothing DEF NoTableOf, FdTableForProcess
<1> QED BY <1>2, <1>3

LEMMA DropIsReleased ==
    ASSUME Inv, Running(INITIAL), NEW q \in Pid, NEW m,
           NEW t, SameTables(fdt, t, Live), KeepsBare(fdt, t, Live), DropResources(m, t, q)
    PROVE  Released(m, t, q, CloseSucceeds(t, q), ClosedWith(t, q))
<1>1. \A x \in ClosedWith(t, q) : Unshared(t, q, x)
  BY DEF ClosedWith
<1>2. CloseSucceeds(t, q) \in BOOLEAN
  BY DEF CloseSucceeds
<1>3. ReleasesSucceed => CloseSucceeds(t, q)
  BY ReleaseSucceeds
<1> QED BY <1>1, <1>2, <1>3 DEF Released, DropResources

\* what the release of q leaves of the memories and of the tables
LEMMA ReleasedMemory ==
    ASSUME INITIAL \in Live, NEW p \in Live, NEW m, MemoryStep(mem, m, p, Live),
           NEW q \in Pid, q \notin Live \/ (q = p /\ Own(m, p)),
           NEW t, NEW b, NEW O, Released(m, t, q, b, O)
    PROVE  /\ MemoryStep(mem, mem', p, Live \ {q})
           /\ mem'.pid \in {m.pid, INITIAL}
           /\ b => mem'.pid # q \/ q = INITIAL
<1>1. CASE b
  <2>1. /\ Placed(mem', Live \ {q})
        /\ SameViews(m, mem', Live \ {q})
        /\ mem'.pid = IF m.pid = q THEN INITIAL ELSE m.pid
        /\ \A r \in Pid : mem'.pending[r] \in {m.pending[r], NoPid}
        /\ \A r \in Pid \ Live : Blank(m, r) => Blank(mem', r)
    BY Zenon, <1>1, DropMemoryPlaced DEF Released, MemoryStep
  <2> QED BY Zenon, <2>1 DEF MemoryStep, SameViews
<1>2. CASE ~b
  <2>1. mem' = m
    BY <1>2 DEF Released
  <2>2. CASE q \notin Live
    <3>1. Live \ {q} = Live
      BY <2>2
    <3> QED BY <1>2, <2>1, <3>1
  <2>3. CASE q = p /\ Own(m, p)
    <3>1. Placed(m, Live \ {q})
      BY Zenon, <2>3, PidFacts DEF MemoryStep, Placed, Own, NoChildPends, Selected, Stored, Pending
    <3> QED BY <1>2, <2>1, <2>3, <3>1 DEF MemoryStep, SameViews
  <2> QED BY <2>2, <2>3
<1>3. b \in BOOLEAN
  BY DEF Released
<1> QED BY <1>1, <1>2, <1>3

LEMMA ReleasedTables ==
    ASSUME INITIAL \in Live, NEW p \in Live, NEW q \in Pid,
           NEW t, TablesPlaced(t, Live), SameTables(fdt, t, Live), KeepsBare(fdt, t, Live),
           NEW m, NEW b, NEW O, Released(m, t, q, b, O)
    PROVE  /\ TableStep(fdt, fdt', p, Live \ {q})
           /\ SameTables(fdt, fdt', Live \ {q})
           /\ fdt'.pid \in {t.pid, INITIAL}
           /\ b /\ q \in Live \ {INITIAL} => NoTableOf(fdt', q)
<1>1. CASE b
  <2>1. /\ TablesPlaced(fdt', Live \ {q})
        /\ SameTables(t, fdt', Live \ {q})
        /\ KeepsBare(t, fdt', Live)
        /\ q \in Live \ {INITIAL} => NoTableOf(fdt', q)
        /\ fdt'.pid = IF t.pid = q THEN INITIAL ELSE t.pid
    BY <1>1, DropTablePlaced DEF Released
  <2> QED BY <2>1 DEF TableStep, SameTables, KeepsBare
<1>2. CASE ~b
  <2>1. fdt' = t
    BY <1>2 DEF Released
  <2> QED BY <1>2, <2>1 DEF TableStep, SameTables, KeepsBare, TablesPlaced
<1>3. b \in BOOLEAN
  BY DEF Released
<1> QED BY <1>1, <1>2, <1>3

-----------------------------------------------------------------------------
(***************************************************************************)
(* The contexts implement ProcessIsolation.  What guests see, after a step *)
(* that keeps the invariant.                                               *)
(***************************************************************************)
LEMMA GuestsSee ==
    ASSUME Inv
    PROVE  /\ \A q \in Live : GuestSpace[q] = MemoryForProcess(mem, q)
           /\ \A q \in Live : GuestTable[q] = FdTableForProcess(fdt, q)
           /\ \A q \in Pid \ Live : GuestSpace[q] = NoMemory /\ GuestTable[q] = NoTable
           /\ \A q \in Live : exit_state[q] = "Running"
  BY DEF GuestSpace, GuestTable, Live, Running

LEMMA GuestsWillSee ==
    ASSUME Inv'
    PROVE  /\ \A q \in Live' : GuestSpace'[q] = MemoryForProcess(mem', q)
           /\ \A q \in Live' : GuestTable'[q] = FdTableForProcess(fdt', q)
           /\ \A q \in Pid \ Live' : GuestSpace'[q] = NoMemory /\ GuestTable'[q] = NoTable
           /\ \A q \in Live' : GuestSpace'[q] \in Value /\ GuestTable'[q] \in Table
<1>1. /\ \A q \in Live' : GuestSpace'[q] = MemoryForProcess(mem', q)
      /\ \A q \in Live' : GuestTable'[q] = FdTableForProcess(fdt', q)
      /\ \A q \in Pid \ Live' : GuestSpace'[q] = NoMemory /\ GuestTable'[q] = NoTable
  BY DEF GuestSpace, GuestTable, Live, Running
<1>2. mem' \in Memories /\ fdt' \in Tables
  BY DEF Inv, ContextsInOnePlace, TypeOK
<1>3. \A q \in Live' : MemoryForProcess(mem', q) \in Value
  <2> SUFFICES ASSUME NEW q \in Pid, Running(q)'
               PROVE  MemoryForProcess(mem', q) \in Value
    BY DEF Live
  <2>1. /\ mem'.selected \in Value /\ mem'.pending[q] \in Pid \cup {NoPid}
        /\ \A r \in Pid : mem'.stored[r] \in Value \cup {NoMemory}
    BY <1>2 DEF Memories
  <2>2. \A r \in Pid : Running(r)' =>
            \/ mem'.pid = r
            \/ mem'.pid # r /\ mem'.stored[r] # NoMemory
            \/ /\ mem'.pid # r /\ mem'.stored[r] = NoMemory
               /\ mem'.pending[r] # NoPid /\ Running(mem.pending[r])'
               /\ mem'.pending[mem'.pending[r]] = NoPid
    BY DEF Inv, ContextsInOnePlace, MemoryInOnePlace
  <2> QED BY <2>1, <2>2 DEF MemoryForProcess, Running
<1>4. \A q \in Live' : FdTableForProcess(fdt', q) \in Table
  <2>1. fdt'.selected \in Table /\ \A q \in Pid : fdt'.stored[q] \in Table \cup {NoTable}
    BY <1>2 DEF Tables
  <2> QED BY <2>1 DEF Inv, ContextsInOnePlace, TableInOnePlace, Live, FdTableForProcess
<1> QED BY <1>1, <1>3, <1>4

\* one process changes, among those that run before and after
LEMMA OneChanges ==
    ASSUME Inv, Inv', NEW p \in Live, Isolated(p), Live' \ {p} = Live \ {p}
    PROVE  /\ GuestSpace' = [GuestSpace EXCEPT ![p] = GuestSpace'[p]]
           /\ GuestTable' = [GuestTable EXCEPT ![p] = GuestTable'[p]]
<1>1. \A q \in Pid \ {p} : GuestSpace'[q] = GuestSpace[q] /\ GuestTable'[q] = GuestTable[q]
  <2> SUFFICES ASSUME NEW q \in Pid \ {p}
               PROVE  GuestSpace'[q] = GuestSpace[q] /\ GuestTable'[q] = GuestTable[q]
    OBVIOUS
  <2>1. CASE q \in Live
    BY <2>1, GuestsSee, GuestsWillSee DEF Isolated, SameViews, SameTables
  <2>2. CASE q \notin Live
    BY <2>2, GuestsSee, GuestsWillSee
  <2> QED BY <2>1, <2>2
<1>2. /\ GuestSpace = [q \in Pid |-> GuestSpace[q]] /\ GuestTable = [q \in Pid |-> GuestTable[q]]
      /\ GuestSpace' = [q \in Pid |-> GuestSpace'[q]] /\ GuestTable' = [q \in Pid |-> GuestTable'[q]]
  BY DEF GuestSpace, GuestTable
<1> QED BY <1>1, <1>2, PidFacts

LEMMA QuietRefines ==
    ASSUME Inv, Inv', NEW p \in Live, Isolated(p), SameTable(p), UNCHANGED exit_state
    PROVE  Isolation!Next
<1>1. Live' = Live
  BY DEF Live, Running
<1>2. /\ GuestSpace' = [GuestSpace EXCEPT ![p] = GuestSpace'[p]] /\ GuestSpace'[p] \in Value
      /\ GuestTable' = [GuestTable EXCEPT ![p] = GuestTable'[p]]
      /\ GuestTable'[p] = GuestTable[p] /\ exit_state[p] = "Running"
  BY <1>1, OneChanges, GuestsSee, GuestsWillSee DEF SameTable
<1>3. GuestTable' = GuestTable
  BY <1>2 DEF GuestTable
<1> QED BY <1>2, <1>3, PidFacts DEF Isolation!Next, Isolation!Write, Isolation!WriteMemory

LEMMA FdsRefine ==
    ASSUME Inv, Inv', NEW p \in Live, Isolated(p), UNCHANGED exit_state,
           MemoryForProcess(mem', p) = MemoryForProcess(mem, p)
    PROVE  Isolation!Next
<1>1. Live' = Live
  BY DEF Live, Running
<1>2. /\ GuestTable' = [GuestTable EXCEPT ![p] = GuestTable'[p]] /\ GuestTable'[p] \in Table
      /\ GuestSpace' = [GuestSpace EXCEPT ![p] = GuestSpace'[p]]
      /\ GuestSpace'[p] = GuestSpace[p] /\ exit_state[p] = "Running"
  BY <1>1, OneChanges, GuestsSee, GuestsWillSee
<1>3. GuestSpace' = GuestSpace
  BY <1>2 DEF GuestSpace
<1> QED BY <1>2, <1>3, PidFacts DEF Isolation!Next, Isolation!ChangeFds

LEMMA ExecRefines ==
    ASSUME Inv, Inv', NEW p \in Live, Isolated(p), UNCHANGED exit_state,
           MemoryForProcess(mem', p) = Image,
           FdTableForProcess(fdt', p) = OnExec(FdTableForProcess(fdt, p))
    PROVE  Isolation!Next
<1>1. Live' = Live
  BY DEF Live, Running
<1>2. /\ GuestTable' = [GuestTable EXCEPT ![p] = GuestTable'[p]]
      /\ GuestTable'[p] = OnExec(GuestTable[p])
      /\ GuestSpace' = [GuestSpace EXCEPT ![p] = GuestSpace'[p]]
      /\ GuestSpace'[p] = Image /\ exit_state[p] = "Running"
  BY <1>1, OneChanges, GuestsSee, GuestsWillSee
<1> QED BY <1>2, PidFacts DEF Isolation!Next, Isolation!Exec

LEMMA EndRefines ==
    ASSUME Inv, Inv', NEW p \in Live, Isolated(p),
           exit_state' = [exit_state EXCEPT ![p] = "Exited"]
    PROVE  Isolation!Next
<1>1. Live' = Live \ {p}
  BY InvFacts DEF TypeOK, Live, Running
<1>2. /\ GuestTable' = [GuestTable EXCEPT ![p] = GuestTable'[p]] /\ GuestTable'[p] = NoTable
      /\ GuestSpace' = [GuestSpace EXCEPT ![p] = GuestSpace'[p]] /\ GuestSpace'[p] = NoMemory
      /\ exit_state[p] = "Running"
  BY <1>1, OneChanges, GuestsSee, GuestsWillSee, PidFacts
<1> QED BY Zenon, <1>2, PidFacts DEF Isolation!Next, Isolation!Exit

LEMMA ReapRefines ==
    ASSUME Inv, Inv', NEW p \in Live, NEW c \in Pid, Isolated(p), SameTable(p), Reaps(p, c)
    PROVE  Isolation!Next
<1>1. Live' = Live
  BY InvFacts DEF Reaps, TypeOK, Live, Running
<1>2. /\ GuestSpace' = [GuestSpace EXCEPT ![p] = GuestSpace'[p]] /\ GuestSpace'[p] \in Value
      /\ GuestTable' = [GuestTable EXCEPT ![p] = GuestTable'[p]]
      /\ GuestTable'[p] = GuestTable[p] /\ exit_state[p] = "Running"
  BY <1>1, OneChanges, GuestsSee, GuestsWillSee DEF SameTable
<1>3. GuestTable' = GuestTable
  BY Zenon, <1>2 DEF GuestTable
<1> QED BY Zenon, <1>2, <1>3, PidFacts
        DEF Reaps, Isolation!Next, Isolation!Wait, Isolation!WriteMemory

(***************************************************************************)
(* The end of p itself.                                                    *)
(***************************************************************************)
LEMMA EndKeepsInv ==
    ASSUME Inv, NEW p \in Pid, Dispatched(p),
           exit_state' = [exit_state EXCEPT ![p] = "Exited"],
           UNCHANGED <<parent, next_pid, created, half_execed, work>>,
           NEW m, MemoryStep(mem, m, p, Live), Own(m, p), m.pid \in {mem.pid, p},
           NEW t, TablesPlaced(t, Live), SameTables(fdt, t, Live), KeepsBare(fdt, t, Live),
           t.pid \in {fdt.pid, p},
           NEW b, NEW O, Released(m, t, p, b, O),
           run' \in {"running", "failed"}, ReleasesSucceed => run' = run
    PROVE  Inv' /\ Isolated(p)
<1>1. p \in Live /\ INITIAL \in Live /\ Running(INITIAL)
  BY DispatchedRuns
<1>2. exit_state \in [Pid -> {"None", "Running", "Exited"}]
  BY InvFacts DEF TypeOK
<1>3. /\ Live' = Live \ {p}
      /\ \A q \in Pid : exit_state[q] = "None" => exit_state'[q] = "None"
      /\ \A q \in Live : Exists(q)'
      /\ exit_state' \in [Pid -> {"None", "Running", "Exited"}]
  BY <1>1, <1>2 DEF Live, Running, Exists
<1>4. /\ MemoryStep(mem, mem', p, Live')
      /\ mem'.pid \in {m.pid, INITIAL}
      /\ b => mem'.pid # p \/ p = INITIAL
  BY <1>1, <1>3, ReleasedMemory
<1>5. /\ TableStep(fdt, fdt', p, Live')
      /\ fdt'.pid \in {t.pid, INITIAL}
      /\ b /\ p \in Live \ {INITIAL} => NoTableOf(fdt', p)
  BY <1>1, <1>3, ReleasedTables
<1>6. open' = open \ O /\ \A x \in O : ~OtherNames(p, x)
  BY Zenon, SharedIsNamed DEF Released
<1>7. TypeOK'
  BY Zenon, <1>3, <1>4, <1>5, <1>6, InvFacts DEF TypeOK, MemoryStep, TableStep, Placed, TablesPlaced
<1>8. ASSUME ReleasesSucceed
      PROVE  ReleaseStep(p)
  <2>1. b /\ O = ClosedWith(t, p) /\ CloseSucceeds(t, p) /\ mem.pid \in Live /\ fdt.pid \in Live
    BY <1>1, <1>8, SelectedRun, ReleaseSucceeds DEF Released
  <2>2. mem'.pid \in Live /\ fdt'.pid \in Live
    BY Zenon, <1>1, <1>4, <1>5, <2>1
  <2>3. INITIAL \in Live' => p # INITIAL /\ mem'.pid \in Live' /\ NoTableOf(fdt', p)
    BY Zenon, <1>1, <1>3, <1>4, <1>5, <2>1, <2>2
  <2>4. ASSUME NEW x \in open', ~OtherNames(p, x) PROVE FALSE
    <3>1. x \in open /\ x \notin ClosedWith(t, p) /\ x \in Object
      BY Zenon, <1>6, <2>1, InvFacts DEF TypeOK
    <3>2. Unshared(t, p, x)
      BY <1>1, <1>8, <2>4, SharedIsNamed
    <3>3. Names(FdTableForProcess(fdt, p), x)
      BY <1>1, <1>8, <2>4, <3>1, OnlyNamesOrOthers
    <3>4. Names(FdTableForProcess(t, p), x)
      BY <1>1, <3>3 DEF SameTables
    <3>5. PICK f \in Fd : Holds(FdTableForProcess(t, p), f, x)
      BY <3>4 DEF Names
    <3>6. \A g \in Fd : ~CloseFails(t, p, g)
      BY <2>1 DEF CloseSucceeds
    <3> QED BY Zenon, <3>1, <3>2, <3>4, <3>5, <3>6, <2>1 DEF ClosedWith, Object
  <2> QED BY Zenon, <1>3, <1>8, <2>2, <2>3, <2>4 DEF ReleaseStep, Exists
<1> QED BY <1>1, <1>3, <1>4, <1>5, <1>6, <1>7, <1>8, StepKeepsInv DEF SharesNothing

LEMMA ExitKeepsInv ==
    ASSUME Inv, NEW p \in Pid, Exit(p), UNCHANGED work
    PROVE  Inv' /\ Isolated(p)
<1> DEFINE m == SelectMemory(EnterTask(mem, p), p)
           t == SelectFds(fdt, p)
<1>1. p \in Live /\ Running(INITIAL) /\ Dispatched(p)
  BY DispatchedRuns DEF Exit
<1>2. Kept(mem, m) /\ m.pid = p /\ Own(m, p) /\ MemoryStep(mem, m, p, Live)
  BY <1>1, InvFacts, EnterAndSelectKept, SelectMemoryStep
<1>3. TablesPlaced(t, Live) /\ SameTables(fdt, t, Live) /\ KeepsBare(fdt, t, Live) /\ t.pid = p
  BY Zenon, <1>1, InvFacts, SelectStep DEF TableStep
<1> HIDE DEF m, t
<1>4. /\ exit_state' = [exit_state EXCEPT ![p] = "Exited"]
      /\ UNCHANGED <<parent, next_pid, created, half_execed, run>>
      /\ run' \in {"running", "failed"}
  BY InvFacts DEF Exit, TypeOK
<1>5. CASE \E v \in work.values : DropResources(WriteMemory(m, p, v), t, p)
  <2>1. PICK v \in work.values : DropResources(WriteMemory(m, p, v), t, p)
    BY <1>5
  <2>2. v \in Value
    BY InvFacts, ContextConstants DEF TypeOK
  <2> DEFINE n == WriteMemory(m, p, v)
  <2>3. MemoryStep(mem, n, p, Live) /\ Own(n, p) /\ n.pid = p
    BY <1>1, <1>2, <2>2, WriteStep
  <2>4. Released(n, t, p, CloseSucceeds(t, p), ClosedWith(t, p))
    BY <1>1, <1>3, <2>1, DropIsReleased
  <2> HIDE DEF n
  <2> QED BY Zenon, <1>1, <1>3, <1>4, <2>3, <2>4, EndKeepsInv
<1>6. CASE "tid" \in work.faults /\ mem' = m /\ fdt' = t /\ UNCHANGED open
  <2>1. Released(m, t, p, FALSE, {})
    BY <1>6 DEF Released, ReleasesSucceed
  <2> QED BY Zenon, <1>1, <1>2, <1>3, <1>4, <2>1, EndKeepsInv
<1> QED BY <1>5, <1>6 DEF Exit, m, t

LEMMA FatalSignalKeepsInv ==
    ASSUME Inv, NEW p \in Pid, FatalSignal(p), UNCHANGED work
    PROVE  Inv' /\ Isolated(p)
<1> DEFINE m == MaterializeSelf(EnterTask(mem, p), p)
<1>1. p \in Live /\ Running(INITIAL) /\ Dispatched(p)
  BY DispatchedRuns DEF FatalSignal
<1>2. Kept(mem, m) /\ Own(m, p) /\ m.pid = mem.pid
  BY <1>1, InvFacts, EnterAndMaterialize
<1>3. MemoryStep(mem, m, p, Live)
  BY <1>2 DEF Kept, MemoryStep, SameViews
<1>4. TablesPlaced(fdt, Live) /\ SameTables(fdt, fdt, Live) /\ KeepsBare(fdt, fdt, Live)
  BY InvFacts DEF SameTables, KeepsBare
<1>5. DropResources(m, fdt, p)
  BY DEF FatalSignal
<1> HIDE DEF m
<1>6. Released(m, fdt, p, CloseSucceeds(fdt, p), ClosedWith(fdt, p))
  BY <1>1, <1>4, <1>5, DropIsReleased
<1>7. run' \in {"running", "failed"} /\ (ReleasesSucceed => run' = run)
  BY <1>1, <1>4, InvFacts, ReleaseSucceeds DEF FatalSignal, TypeOK
<1> QED BY Zenon, <1>1, <1>2, <1>3, <1>4, <1>6, <1>7, EndKeepsInv DEF FatalSignal

(***************************************************************************)
(* p reaps c: nothing of a process that runs is released.                  *)
(***************************************************************************)
LEMMA ReapKeepsInv ==
    ASSUME Inv, NEW p \in Pid, NEW c \in Pid, Reaps(p, c), UNCHANGED work,
           NEW m, MemoryStep(mem, m, p, Live), m.pid \in {mem.pid, p},
           NEW t, TablesPlaced(t, Live), SameTables(fdt, t, Live), KeepsBare(fdt, t, Live),
           t.pid \in {fdt.pid, p},
           NEW b, NEW O, Released(m, t, c, b, O),
           run' \in {"running", "failed"}, ReleasesSucceed => run' = run
    PROVE  Inv' /\ Isolated(p) /\ SameTable(p)
<1>1. p \in Live /\ INITIAL \in Live /\ Running(INITIAL)
  BY Zenon, DispatchedRuns DEF Reaps
<1>2. exit_state \in [Pid -> {"None", "Running", "Exited"}]
  BY Zenon, InvFacts DEF TypeOK
<1>3. /\ c \notin Live /\ Live \ {c} = Live
      /\ Live' = Live
      /\ \A q \in Pid : exit_state[q] = "None" => exit_state'[q] = "None"
      /\ \A q \in Live : Exists(q)'
      /\ exit_state' \in [Pid -> {"None", "Running", "Exited"}]
  BY <1>1, <1>2 DEF Live, Running, Exists, Reaps
<1>4. /\ MemoryStep(mem, mem', p, Live')
      /\ mem'.pid \in {m.pid, INITIAL}
  BY Zenon, <1>1, <1>3, ReleasedMemory
<1>5. /\ TableStep(fdt, fdt', p, Live') /\ SameTables(fdt, fdt', Live)
      /\ fdt'.pid \in {t.pid, INITIAL}
  BY Zenon, <1>1, <1>3, ReleasedTables
<1>6. open' = open \ O /\ \A x \in O : ~OtherNames(c, x)
  BY SharedIsNamed DEF Released
<1>7. TypeOK'
  BY Zenon, <1>3, <1>4, <1>5, <1>6, InvFacts
     DEF Reaps, TypeOK, MemoryStep, TableStep, Placed, TablesPlaced
<1>8. SameTable(p) /\ FdTableForProcess(fdt', p) = FdTableForProcess(fdt, p)
  BY <1>1, <1>5 DEF SameTables, SameTable
<1>9. \A x : OtherNames(p, x) \/ Names(FdTableForProcess(fdt, p), x) => OtherNames(c, x)
  BY Zenon, <1>1, <1>3 DEF OtherNames
<1>10. \A x \in Object : Names(FdTableForProcess(fdt', p), x) => x \in open'
  BY <1>1, <1>6, <1>8, <1>9, NamedByRunning
<1>11. ASSUME ReleasesSucceed
       PROVE  ReleaseStep(p)
  <2>1. mem'.pid \in Live /\ fdt'.pid \in Live
    BY Zenon, <1>1, <1>4, <1>5, <1>11, SelectedRun
  <2>2. \A x \in open' : OtherNames(p, x) \/ Names(FdTableForProcess(fdt', p), x)
    BY Zenon, <1>1, <1>6, <1>8, <1>11, OnlyNamesOrOthers
  <2>3. SocketsOnce(FdTableForProcess(fdt', p))
    BY Zenon, <1>1, <1>8, <1>11, Whole
  <2> QED BY Zenon, <1>1, <1>3, <1>11, <2>1, <2>2, <2>3 DEF ReleaseStep, Exists
<1>12. UNCHANGED <<next_pid, parent>>
  BY Zenon DEF Reaps
<1> QED BY Zenon, <1>1, <1>3, <1>4, <1>5, <1>6, <1>7, <1>8, <1>9, <1>10, <1>11, <1>12, StepKeepsInv
        DEF SharesNothing

LEMMA Wait4KeepsInv ==
    ASSUME Inv, NEW p \in Pid, NEW c \in Pid, Wait4(p, c), UNCHANGED work
    PROVE  Inv' /\ Isolated(p) /\ SameTable(p)
<1> DEFINE m == SelectMemory(EnterTask(mem, p), p)
           t == SelectFds(fdt, p)
<1>1. p \in Live /\ Running(INITIAL) /\ Reaps(p, c)
  BY DispatchedRuns DEF Wait4, Reaps
<1>2. Kept(mem, m) /\ m.pid = p /\ Own(m, p) /\ MemoryStep(mem, m, p, Live)
  BY <1>1, InvFacts, EnterAndSelectKept, SelectMemoryStep
<1>3. TablesPlaced(t, Live) /\ SameTables(fdt, t, Live) /\ KeepsBare(fdt, t, Live) /\ t.pid = p
  BY Zenon, <1>1, InvFacts, SelectStep DEF TableStep
<1> HIDE DEF m, t
<1>4. run' = run /\ run' \in {"running", "failed"}
  BY Zenon, InvFacts DEF Wait4, TypeOK
<1>5. CASE \E v \in work.values : DropResources(WriteMemory(m, p, v), t, c)
  <2>1. PICK v \in work.values : DropResources(WriteMemory(m, p, v), t, c)
    BY Zenon, <1>5
  <2>2. v \in Value
    BY InvFacts, ContextConstants DEF TypeOK
  <2> DEFINE n == WriteMemory(m, p, v)
  <2>3. MemoryStep(mem, n, p, Live) /\ n.pid = p
    BY Zenon, <1>1, <1>2, <2>2, WriteStep
  <2>4. Released(n, t, c, CloseSucceeds(t, c), ClosedWith(t, c))
    BY <1>1, <1>3, <2>1, DropIsReleased
  <2> HIDE DEF n
  <2> QED BY <1>1, <1>3, <1>4, <2>3, <2>4, ReapKeepsInv
<1>6. CASE "wstatus" \in work.faults /\ mem' = m /\ fdt' = t /\ UNCHANGED open
  <2>1. Released(m, t, c, FALSE, {})
    BY <1>6 DEF Released, ReleasesSucceed
  <2> QED BY Zenon, <1>1, <1>2, <1>3, <1>4, <2>1, ReapKeepsInv
<1> QED BY <1>5, <1>6 DEF Wait4, m, t

(***************************************************************************)
(* A process that waits for a child is not pending itself: its memory is   *)
(* where a resumed wait4 writes the status.                                *)
(***************************************************************************)
LEMMA ResumeWaitingKeepsInv ==
    ASSUME Inv, NEW p \in Pid, NEW c \in Pid, ResumeWaiting(p, c), UNCHANGED work
    PROVE  Inv' /\ Isolated(p) /\ SameTable(p)
<1> DEFINE m == MaterializeChildren(mem, p)
<1>1. p \in Live /\ Running(INITIAL) /\ Reaps(p, c)
  BY DispatchedRuns DEF ResumeWaiting, Reaps
<1>2. Kept(mem, m) /\ m.pid = mem.pid /\ NoChildPends(m, p)
  BY Zenon, InvFacts, EnterTaskKept DEF EnterTask
<1>3. mem.pending[p] = NoPid /\ m.pending[p] \in {mem.pending[p], NoPid}
  BY <1>1, <1>2 DEF Reaps, Inv, ContextsInOnePlace, PendingIsChildless, Kept
<1>4. Own(m, p) /\ MemoryStep(mem, m, p, Live)
  BY <1>2, <1>3 DEF Own, Kept, MemoryStep, SameViews
<1> HIDE DEF m
<1>5. TablesPlaced(fdt, Live) /\ SameTables(fdt, fdt, Live) /\ KeepsBare(fdt, fdt, Live)
  BY InvFacts DEF SameTables, KeepsBare
<1>6. MemoryStep(mem, mem, p, Live)
  BY InvFacts DEF MemoryStep, SameViews
<1>7. CASE /\ \/ DropResources(mem, fdt, c)
              \/ \E v \in work.values : DropResources(WriteMemory(m, p, v), fdt, c)
           /\ run' = IF CloseSucceeds(fdt, c) THEN run ELSE "failed"
  <2>1. run' \in {"running", "failed"} /\ (ReleasesSucceed => run' = run)
    BY Zenon, <1>1, <1>5, <1>7, InvFacts, ReleaseSucceeds DEF TypeOK
  <2>2. CASE DropResources(mem, fdt, c)
    <3>1. Released(mem, fdt, c, CloseSucceeds(fdt, c), ClosedWith(fdt, c))
      BY Zenon, <1>1, <1>5, <2>2, DropIsReleased
    <3> QED BY <1>1, <1>5, <1>6, <2>1, <3>1, ReapKeepsInv
  <2>3. CASE \E v \in work.values : DropResources(WriteMemory(m, p, v), fdt, c)
    <3>1. PICK v \in work.values : DropResources(WriteMemory(m, p, v), fdt, c)
      BY Zenon, <2>3
    <3>2. v \in Value
      BY InvFacts, ContextConstants DEF TypeOK
    <3> DEFINE n == WriteMemory(m, p, v)
    <3>3. MemoryStep(mem, n, p, Live) /\ n.pid = mem.pid
      BY <1>1, <1>2, <1>4, <3>2, WriteStep
    <3>4. Released(n, fdt, c, CloseSucceeds(fdt, c), ClosedWith(fdt, c))
      BY Zenon, <1>1, <1>5, <3>1, DropIsReleased
    <3> HIDE DEF n
    <3> QED BY Zenon, <1>1, <1>5, <2>1, <3>3, <3>4, ReapKeepsInv
  <2> QED BY Zenon, <1>7, <2>2, <2>3
<1>8. CASE "wstatus" \in work.faults /\ mem' = m /\ run' = "failed" /\ UNCHANGED <<fdt, open>>
  <2>1. Released(m, fdt, c, FALSE, {})
    BY <1>8 DEF Released, ReleasesSucceed
  <2>2. ~ReleasesSucceed
    BY <1>8 DEF ReleasesSucceed
  <2> QED BY Zenon, <1>1, <1>2, <1>4, <1>5, <1>8, <2>1, <2>2, ReapKeepsInv
<1> QED BY <1>7, <1>8 DEF ResumeWaiting, m

\* c is born with the memory and the table of p, and nobody else changes
Forked(p, c) ==
    /\ p \in Live /\ c \in Pid \ Live /\ exit_state[c] = "None"
    /\ Live' = Live \cup {c}
    /\ SameViews(mem, mem', Live) /\ SameTables(fdt, fdt', Live)
    /\ MemoryForProcess(mem', c) = MemoryForProcess(mem, p)
    /\ FdTableForProcess(fdt', c) = FdTableForProcess(fdt, p)

LEMMA ForkKeepsInv ==
    ASSUME Inv, NEW p \in Pid, Fork(p), UNCHANGED work
    PROVE  Inv' /\ Forked(p, next_pid)
<1> DEFINE c == next_pid
           m == SelectMemory(EnterTask(mem, p), p)
           t == SelectFds(fdt, p)
<1>0. p \in Live /\ INITIAL \in Live /\ Running(INITIAL)
  BY DispatchedRuns DEF Fork
<1>1. c \in Pid
  BY InvFacts, ContextConstants DEF Fork, TypeOK, Pid
<1>2. /\ c \notin Live /\ Blank(mem, c) /\ NoTableOf(fdt, c) /\ exit_state[c] = "None"
      /\ \A d \in Pid : parent[d] # c
  BY <1>0, <1>1, InvFacts DEF Inv, ContextsInOnePlace, UnbornIsUnknown, Pid
<1>3. c # INITIAL /\ c # p
  BY <1>0, <1>2
<1>4. /\ exit_state' = [exit_state EXCEPT ![c] = "Running"]
      /\ parent' = [parent EXCEPT ![c] = p]
      /\ next_pid' = c + 1
      /\ mem' = [m EXCEPT !.pending = [@ EXCEPT ![c] = p]]
      /\ fdt' = [t EXCEPT !.stored = [@ EXCEPT ![c] = t.selected]]
      /\ UNCHANGED <<open, created, half_execed, run>>
  BY DEF Fork
<1>5. /\ Live' = Live \cup {c}
      /\ exit_state' \in [Pid -> {"None", "Running", "Exited"}]
      /\ parent' \in [Pid -> Pid \cup {NoPid}]
      /\ next_pid' \in 1 .. MaxPid + 1
  BY <1>1, <1>2, <1>4, InvFacts, ContextConstants DEF TypeOK, Live, Running, Pid
<1>6. Kept(mem, m) /\ m.pid = p /\ Own(m, p)
  BY <1>0, InvFacts, EnterAndSelectKept
<1>7. /\ TablesPlaced(t, Live) /\ SameTables(fdt, t, Live) /\ KeepsBare(fdt, t, Live)
      /\ t.pid = p /\ t.selected = FdTableForProcess(fdt, p)
  BY Zenon, <1>0, InvFacts, SelectStep DEF TableStep
<1> HIDE DEF m, t
<1>8. Blank(m, c) /\ NoTableOf(t, c)
  BY Zenon, <1>1, <1>2, <1>6, <1>7 DEF Kept, KeepsBare
<1>9. /\ Placed(mem', Live') /\ mem'.pid = p
      /\ \A q \in Pid : mem'.pending[q] = IF q = c THEN p ELSE m.pending[q]
      /\ \A q \in Pid : mem'.stored[q] = m.stored[q]
      /\ SameViews(mem, mem', Live) /\ MemoryForProcess(mem', c) = MemoryForProcess(mem, p)
  <2>1. Placed(m, Live) /\ c \in Pid \ Live
    BY <1>1, <1>2, <1>6 DEF Kept
  <2> DEFINE n == [m EXCEPT !.pending = [@ EXCEPT ![c] = p]]
  <2> HIDE DEF c
  <2>2. /\ Placed(n, Live \cup {c}) /\ n.pid = m.pid
        /\ \A q \in Pid : n.pending[q] = IF q = c THEN p ELSE m.pending[q]
        /\ \A q \in Pid : n.stored[q] = m.stored[q]
        /\ SameViews(m, n, Live) /\ MemoryForProcess(n, c) = MemoryForProcess(m, p)
    BY <1>0, <1>3, <1>6, <1>8, <2>1, ForkMemory
  <2> HIDE DEF n
  <2>3. mem' = n
    BY <1>4 DEF n, c
  <2> QED BY Zenon, <1>0, <1>5, <1>6, <2>2, <2>3 DEF Kept, SameViews
<1>10. /\ TablesPlaced(fdt', Live') /\ fdt'.pid = p
       /\ SameTables(fdt, fdt', Live)
       /\ FdTableForProcess(fdt', c) = FdTableForProcess(fdt, p)
       /\ \A q \in Pid \ {c} : fdt'.stored[q] = t.stored[q]
  <2>1. c \in Pid \ Live
    BY <1>1, <1>2
  <2> DEFINE u == [t EXCEPT !.stored = [@ EXCEPT ![c] = t.selected]]
  <2> HIDE DEF c
  <2>2. /\ TablesPlaced(u, Live \cup {c}) /\ u.pid = t.pid
        /\ SameTables(t, u, Live)
        /\ FdTableForProcess(u, c) = t.selected
        /\ \A q \in Pid \ {c} : u.stored[q] = t.stored[q]
    BY <1>7, <1>8, <2>1, ForkTable
  <2> HIDE DEF u
  <2>3. fdt' = u
    BY <1>4 DEF u, c
  <2> QED BY <1>5, <1>7, <2>2, <2>3 DEF SameTables
<1>11. KeepsBare(fdt, fdt', Live \cup {c})
  BY <1>7, <1>10, PidFacts DEF KeepsBare, NoTableOf
<1>12. TypeOK'
  BY Zenon, <1>4, <1>5, <1>9, <1>10, InvFacts DEF TypeOK, Placed, TablesPlaced
<1>13. MemoryInOnePlace'
  BY <1>5, <1>9, PidFacts DEF Placed, Selected, Stored, Pending, MemoryInOnePlace, Live
<1>14. PendingSharesTable'
  <2> SUFFICES ASSUME NEW d \in Pid, mem'.pending[d] # NoPid
               PROVE  FdTableForProcess(fdt', d) = FdTableForProcess(fdt', mem'.pending[d])
    BY Zenon DEF PendingSharesTable
  <2>1. CASE d = c
    BY Zenon, <1>0, <1>9, <1>10, <2>1 DEF SameTables
  <2>2. CASE d # c
    <3>1. mem'.pending[d] = mem.pending[d] /\ mem.pending[d] # NoPid
      BY <1>6, <1>9, <2>2 DEF Kept
    <3>2. d \in Live /\ mem.pending[d] \in Live
      BY <3>1, InvFacts DEF Placed, Selected, Stored, Pending
    <3>3. FdTableForProcess(fdt, d) = FdTableForProcess(fdt, mem.pending[d])
      BY <3>1 DEF Inv, ContextsInOnePlace, PendingSharesTable
    <3> QED BY Zenon, <1>10, <3>1, <3>2, <3>3 DEF SameTables
  <2> QED BY <2>1, <2>2
<1>15. PendingIsChildless'
  <2> SUFFICES ASSUME NEW d \in Pid, NEW e \in Pid, mem'.pending[d] # NoPid
               PROVE  parent'[e] # d
    BY Zenon DEF PendingIsChildless
  <2>0. parent \in [Pid -> Pid \cup {NoPid}]
    BY InvFacts DEF TypeOK
  <2>1. parent'[e] = IF e = c THEN p ELSE parent[e]
    BY <1>1, <1>4, <2>0
  <2>2. CASE d = c
    BY <1>2, <1>3, <2>1, <2>2
  <2>3. CASE d # c
    <3>1. mem.pending[d] # NoPid /\ d # p
      BY <1>6, <1>9, <2>3 DEF Kept, Own
    <3> QED BY Zenon, <2>1, <3>1 DEF Inv, ContextsInOnePlace, PendingIsChildless
  <2> QED BY <2>2, <2>3
<1>16. UnbornIsUnknown'
  <2> SUFFICES ASSUME NEW q \in Pid, q >= c + 1
               PROVE  /\ exit_state'[q] = "None" /\ Blank(mem', q) /\ NoTableOf(fdt', q)
                      /\ \A d \in Pid : parent'[d] # q
    BY <1>4 DEF UnbornIsUnknown, Blank, NoTableOf
  <2>0. q > c /\ q # c /\ q >= c
    BY <1>1 DEF Pid
  <2>1. /\ q \notin Live /\ Blank(mem, q) /\ NoTableOf(fdt, q) /\ exit_state[q] = "None"
        /\ \A d \in Pid : parent[d] # q
    BY Zenon, <2>0, InvFacts DEF Inv, ContextsInOnePlace, UnbornIsUnknown
  <2>2. Blank(mem', q)
    BY <1>0, <1>6, <1>9, <2>1 DEF Kept, Blank
  <2>3. NoTableOf(fdt', q)
    BY <1>11, <2>0, <2>1 DEF KeepsBare
  <2>4. exit_state'[q] = "None"
    BY <1>4, <2>0, <2>1, InvFacts DEF TypeOK
  <2>5. \A d \in Pid : parent'[d] # q
    BY Zenon, <1>0, <1>1, <1>4, <2>1, InvFacts DEF TypeOK
  <2> QED BY <2>2, <2>3, <2>4, <2>5
<1>17. NamedIsOpen'
  <2> SUFFICES ASSUME NEW q \in Live', NEW x \in Object, Names(FdTableForProcess(fdt', q), x)
               PROVE  x \in open
    BY <1>4 DEF NamedIsOpen, Live
  <2> QED BY <1>0, <1>5, <1>10, NamedByRunning DEF SameTables
<1>18. ReleasesSucceed' => ReleasesSucceed
  BY DEF ReleasesSucceed
<1>19. ASSUME ReleasesSucceed
       PROVE  /\ LastNameCloses'
              /\ \A q \in Live' : SocketsOnce(FdTableForProcess(fdt', q))
              /\ \A q \in Pid \ Live' : NoTableOf(fdt', q)
  <2>1. \A x \in open : \E q \in Live : Names(FdTableForProcess(fdt, q), x)
    BY <1>0, <1>19, OnlyNamesOrOthers DEF OtherNames
  <2>2. \A q \in Live : q \in Pid /\ Exists(q)' /\ FdTableForProcess(fdt', q) = FdTableForProcess(fdt, q)
    BY <1>5, <1>10, PidFacts DEF Exists, Live, Running, SameTables
  <2>3. LastNameCloses'
    BY Zenon, <1>4, <2>1, <2>2 DEF LastNameCloses
  <2>4. \A q \in Live' : SocketsOnce(FdTableForProcess(fdt', q))
    BY Zenon, <1>0, <1>5, <1>10, <1>19, <2>2, Whole
  <2>5. \A q \in Pid \ Live' : NoTableOf(fdt', q)
    BY <1>0, <1>5, <1>11, <1>19, Whole DEF KeepsBare
  <2> QED BY <2>3, <2>4, <2>5
<1>20. p \in Live' /\ Exists(p)'
  BY Zenon, <1>0, <1>5 DEF Live, Running, Exists
<1>21. TableInOnePlace'
  BY Zenon, <1>9, <1>10, <1>20 DEF TableInOnePlace, TablesPlaced, Live, Exists
<1>22. ReleasesAreWhole'
  <2> SUFFICES ASSUME ReleasesSucceed, NEW q \in Pid
               PROVE  IF q \in Live' THEN SocketsOnce(FdTableForProcess(fdt', q))
                      ELSE NoTableOf(fdt', q) /\ mem'.pid # q
    BY <1>18 DEF ReleasesAreWhole, Live, HasTable, NoTableOf, SocketsOnce
  <2> QED BY Zenon, <1>9, <1>19, <1>20
<1>23. RunGoesOn' /\ OpenIsNamed'
  BY <1>0, <1>4, <1>18, <1>19, Whole DEF RunGoesOn, OpenIsNamed
<1>24. Forked(p, c)
  BY Zenon, <1>0, <1>1, <1>2, <1>5, <1>9, <1>10 DEF Forked
<1> QED BY <1>12, <1>13, <1>14, <1>15, <1>16, <1>17, <1>21, <1>22, <1>23, <1>24
        DEF Inv, ContextsInOnePlace, OpenWhileNamed

LEMMA InitInv == Init => Inv
<1> SUFFICES ASSUME Init PROVE Inv
  OBVIOUS
<1> USE PidFacts, ContextConstants
<1>1. EmptyTable \in Table /\ \A x, f \in Fd : ~Holds(EmptyTable, f, x)
  BY DEF EmptyTable, Table, Holds
<1>2. /\ mem \in Memories /\ fdt \in Tables
      /\ mem.pid = INITIAL /\ fdt.pid = INITIAL /\ fdt.selected = EmptyTable
      /\ \A q \in Pid : /\ mem.stored[q] = NoMemory /\ mem.pending[q] = NoPid
                        /\ fdt.stored[q] = NoTable
  BY Zenon, <1>1 DEF Init, Memories, Tables
<1>3. \A q \in Pid : Running(q) <=> q = INITIAL
  BY Zenon DEF Init, Running
<1>4. TypeOK
  BY <1>2 DEF Init, TypeOK, INITIAL, NoPid
<1>5. MemoryInOnePlace /\ PendingSharesTable /\ PendingIsChildless
  BY Zenon, <1>2, <1>3 DEF MemoryInOnePlace, PendingSharesTable, PendingIsChildless
<1>6. TableInOnePlace /\ RunGoesOn
  BY Zenon, <1>2, <1>3 DEF Init, TableInOnePlace, Exists, RunGoesOn
<1>7. UnbornIsUnknown
  BY <1>2 DEF Init, UnbornIsUnknown, INITIAL, NoPid, Pid
<1>8. SocketsOnce(EmptyTable) /\ FdTableForProcess(fdt, INITIAL) = EmptyTable
  BY <1>1, <1>2 DEF SocketsOnce, Holds, EmptyTable, FdTableForProcess
<1>9. ReleasesAreWhole
  BY <1>2, <1>3, <1>8 DEF ReleasesAreWhole, HasTable
<1>10. \A x : ~Names(EmptyTable, x)
  BY Zenon DEF Names, Holds, EmptyTable
<1>11. OpenWhileNamed
  BY Zenon, <1>3, <1>8, <1>10 DEF Init, OpenWhileNamed, NamedIsOpen, OpenIsNamed, LastNameCloses
<1> QED BY <1>4, <1>5, <1>6, <1>7, <1>9, <1>11 DEF Inv, ContextsInOnePlace

LEMMA NextInv == Inv /\ [Next]_vars => Inv'
<1> SUFFICES ASSUME Inv, [Next]_vars PROVE Inv'
  OBVIOUS
<1>1. CASE UNCHANGED vars
  <2> USE <1>1 DEF vars, kernelVars, Running, Exists, ReleasesSucceed
  <2>1. TypeOK' /\ MemoryInOnePlace' /\ TableInOnePlace' /\ RunGoesOn'
    BY DEF Inv, ContextsInOnePlace, TypeOK, MemoryInOnePlace, TableInOnePlace, RunGoesOn
  <2>2. PendingSharesTable' /\ PendingIsChildless' /\ UnbornIsUnknown'
    BY Zenon DEF Inv, ContextsInOnePlace, PendingSharesTable, PendingIsChildless, UnbornIsUnknown
  <2>3. ReleasesAreWhole'
    BY Zenon DEF Inv, ContextsInOnePlace, ReleasesAreWhole, HasTable
  <2>4. OpenWhileNamed'
    BY Zenon DEF Inv, OpenWhileNamed, NamedIsOpen, OpenIsNamed, LastNameCloses
  <2> QED BY Zenon, <2>1, <2>2, <2>3, <2>4 DEF Inv, ContextsInOnePlace
<1>2. CASE Next
  <2>1. UNCHANGED work
    BY Zenon, <1>2 DEF Next
  <2>2. PICK p \in Pid :
        \/ Compute(p)
        \/ Fork(p)
        \/ Exec(p) \/ ExecPending(p) \/ ExecPendingFails(p)
        \/ Exit(p) \/ FatalSignal(p)
        \/ \E c \in Pid : Wait4(p, c) \/ ResumeWaiting(p, c)
        \/ \E x \in work.objects, b \in BOOLEAN : Create(p, x, b)
        \/ \E x \in work.objects \cap Socket : AcceptFaults(p, x)
        \/ \E f \in work.fds, b \in BOOLEAN : Dup(p, f, b) \/ SetCloexec(p, f, b)
        \/ \E f, g \in work.fds, b \in BOOLEAN : Dup2(p, f, g, b)
        \/ \E f, g \in work.fds : CloseRange(p, f, g)
    BY Zenon, <1>2 DEF Next
  <2>3. CASE Compute(p) \/ Fork(p) \/ Exec(p) \/ ExecPending(p) \/ ExecPendingFails(p)
    BY <2>1, <2>3, ComputeKeepsInv, ForkKeepsInv, ExecKeepsInv, ExecPendingKeepsInv,
       ExecPendingFailsKeepsInv
  <2>4. CASE Exit(p) \/ FatalSignal(p) \/ \E c \in Pid : Wait4(p, c) \/ ResumeWaiting(p, c)
    BY <2>1, <2>4, ExitKeepsInv, FatalSignalKeepsInv, Wait4KeepsInv, ResumeWaitingKeepsInv
  <2>5. CASE \/ \E x \in work.objects, b \in BOOLEAN : Create(p, x, b)
             \/ \E x \in work.objects \cap Socket : AcceptFaults(p, x)
    BY Zenon, <2>1, <2>5, CreateKeepsInv, AcceptFaultsKeepsInv
  <2>6. CASE \/ \E f \in work.fds, b \in BOOLEAN : Dup(p, f, b) \/ SetCloexec(p, f, b)
             \/ \E f, g \in work.fds, b \in BOOLEAN : Dup2(p, f, g, b)
    BY <2>1, <2>6, DupKeepsInv, SetCloexecKeepsInv
  <2>7. CASE \E f, g \in work.fds : CloseRange(p, f, g)
    BY <2>1, <2>7, CloseRangeKeepsInv
  <2> QED BY Zenon, <2>2, <2>3, <2>4, <2>5, <2>6, <2>7
<1> QED BY <1>1, <1>2

\* Only execve leaves a memory behind, and where no socket has a second fd it
\* closes every object at once.
LEMMA ExecStaysWhole == Inv /\ ExecIsWhole /\ [Next]_vars => ExecIsWhole'
<1> SUFFICES ASSUME Inv, ExecIsWhole, [Next]_vars PROVE ExecIsWhole'
  OBVIOUS
<1>1. CASE UNCHANGED vars
  BY <1>1 DEF vars, ExecIsWhole, ReleasesSucceed
<1>2. CASE Next
  <2>1. PICK p \in Pid :
        \/ Compute(p)
        \/ Fork(p)
        \/ Exec(p) \/ ExecPending(p) \/ ExecPendingFails(p)
        \/ Exit(p) \/ FatalSignal(p)
        \/ \E c \in Pid : Wait4(p, c) \/ ResumeWaiting(p, c)
        \/ \E x \in work.objects, b \in BOOLEAN : Create(p, x, b)
        \/ \E x \in work.objects \cap Socket : AcceptFaults(p, x)
        \/ \E f \in work.fds, b \in BOOLEAN : Dup(p, f, b) \/ SetCloexec(p, f, b)
        \/ \E f, g \in work.fds, b \in BOOLEAN : Dup2(p, f, g, b)
        \/ \E f, g \in work.fds : CloseRange(p, f, g)
    BY Zenon, <1>2 DEF Next
  <2>2. ReleasesSucceed' => ReleasesSucceed /\ half_execed = {}
    BY <1>2 DEF Next, ReleasesSucceed, ExecIsWhole
  <2>3. CASE Exec(p) \/ ExecPending(p)
    <3>1. Dispatched(p)
      BY Zenon, <2>3 DEF Exec, ExecPending
    <3>2. half_execed' = IF ClosedTwice(SelectFds(fdt, p), p) = {} THEN half_execed \ {p}
                         ELSE half_execed \cup {p}
      BY Zenon, <2>3 DEF Exec, ExecPending, ReplaceMemory
    <3>3. ReleasesSucceed => ClosedTwice(SelectFds(fdt, p), p) = {}
      <4> SUFFICES ASSUME ReleasesSucceed PROVE ClosedTwice(SelectFds(fdt, p), p) = {}
        OBVIOUS
      <4>1. p \in Live /\ Running(INITIAL)
        BY Zenon, <3>1, DispatchedRuns
      <4>2. SelectFds(fdt, p).selected = FdTableForProcess(fdt, p)
        BY <4>1, InvFacts, SelectStep
      <4>3. SocketsOnce(SelectFds(fdt, p).selected)
        BY Zenon, <4>1, <4>2, Whole
      <4> QED BY Zenon, <4>3 DEF ClosedTwice, Twice, SocketsOnce
    <3> QED BY <2>2, <3>2, <3>3 DEF ExecIsWhole
  <2>4. CASE Compute(p) \/ Fork(p) \/ ExecPendingFails(p) \/ Exit(p) \/ FatalSignal(p)
    <3>1. half_execed' = half_execed
      BY Zenon, <2>4 DEF Compute, Fork, ExecPendingFails, Exit, FatalSignal
    <3> QED BY <2>2, <3>1 DEF ExecIsWhole
  <2>5. CASE \E c \in Pid : Wait4(p, c) \/ ResumeWaiting(p, c)
    <3>1. half_execed' = half_execed
      BY Zenon, <2>5 DEF Wait4, ResumeWaiting, Reaps
    <3> QED BY <2>2, <3>1 DEF ExecIsWhole
  <2>6. CASE \/ \E x \in work.objects, b \in BOOLEAN : Create(p, x, b)
             \/ \E x \in work.objects \cap Socket : AcceptFaults(p, x)
             \/ \E f \in work.fds, b \in BOOLEAN : Dup(p, f, b) \/ SetCloexec(p, f, b)
             \/ \E f, g \in work.fds, b \in BOOLEAN : Dup2(p, f, g, b)
             \/ \E f, g \in work.fds : CloseRange(p, f, g)
    <3>1. half_execed' = half_execed
      BY Zenon, <2>6 DEF Create, AcceptFaults, Dup, SetCloexec, Dup2, CloseRange, FdCall
    <3> QED BY <2>2, <3>1 DEF ExecIsWhole
  <2> QED BY Zenon, <2>1, <2>3, <2>4, <2>5, <2>6
<1> QED BY <1>1, <1>2

(***************************************************************************)
(* No context switch, fork, exec, exit or wait loses or doubles the memory *)
(* or the fd table of a running process, whatever the guests do, and where *)
(* no socket has a second fd an execve replaces the memory with the tasks. *)
(***************************************************************************)
THEOREM ContextsCorrect == Spec => []ContextsAreWhole
<1>1. Init => ExecIsWhole
  BY DEF Init, ExecIsWhole
<1>2. Inv /\ ExecIsWhole => ContextsAreWhole
  BY DEF Inv, ContextsAreWhole
<1> QED BY <1>1, <1>2, InitInv, NextInv, ExecStaysWhole, PTL DEF Spec

(***************************************************************************)
(* A socket or an epoll instance is open as long as a running process has  *)
(* an fd for it and, where releases succeed, no longer.                    *)
(***************************************************************************)
THEOREM ObjectsOpenWhileNamed == Spec => []OpenWhileNamed
<1>1. Inv => OpenWhileNamed
  BY DEF Inv
<1> QED BY <1>1, InitInv, NextInv, PTL DEF Spec
-----------------------------------------------------------------------------
(***************************************************************************)
(* The contexts implement ProcessIsolation: fork, the calls on fds and     *)
(* execve, and the steps of Next.                                          *)
(***************************************************************************)
LEMMA ForkRefines ==
    ASSUME Inv, Inv', NEW p \in Pid, NEW c \in Pid, Forked(p, c),
           exit_state' = [exit_state EXCEPT ![c] = "Running"]
    PROVE  Isolation!Next
<1>1. /\ \A q \in Pid \ {c} : GuestSpace'[q] = GuestSpace[q] /\ GuestTable'[q] = GuestTable[q]
      /\ GuestSpace'[c] = GuestSpace[p] /\ GuestTable'[c] = GuestTable[p]
  <2>1. \A q \in Live : GuestSpace'[q] = GuestSpace[q] /\ GuestTable'[q] = GuestTable[q]
    BY GuestsSee, GuestsWillSee DEF Forked, SameViews, SameTables
  <2>2. \A q \in Pid \ (Live \cup {c}) : GuestSpace'[q] = GuestSpace[q] /\ GuestTable'[q] = GuestTable[q]
    BY Zenon, GuestsSee, GuestsWillSee DEF Forked
  <2>3. GuestSpace'[c] = GuestSpace[p] /\ GuestTable'[c] = GuestTable[p]
    BY Zenon, GuestsSee, GuestsWillSee DEF Forked
  <2> QED BY Zenon, <2>1, <2>2, <2>3
<1>2. /\ GuestSpace = [q \in Pid |-> GuestSpace[q]] /\ GuestTable = [q \in Pid |-> GuestTable[q]]
      /\ GuestSpace' = [q \in Pid |-> GuestSpace'[q]] /\ GuestTable' = [q \in Pid |-> GuestTable'[q]]
  BY DEF GuestSpace, GuestTable
<1>3. /\ GuestSpace' = [GuestSpace EXCEPT ![c] = GuestSpace[p]]
      /\ GuestTable' = [GuestTable EXCEPT ![c] = GuestTable[p]]
  BY <1>1, <1>2
<1>4. exit_state[p] = "Running" /\ exit_state[c] = "None"
  BY Zenon, GuestsSee DEF Forked
<1> QED BY Zenon, <1>3, <1>4 DEF Isolation!Next, Isolation!Fork

LEMMA FdCallRefines ==
    ASSUME Inv, Inv', NEW p \in Pid, FdCall(p), Isolated(p)
    PROVE  Isolation!Next
<1>1. p \in Live /\ UNCHANGED exit_state
  BY DispatchedRuns DEF FdCall, kernelVars
<1>2. MemoryForProcess(mem', p) = MemoryForProcess(mem, p)
  BY <1>1, InvFacts, SelectMemoryStep DEF FdCall, SameViews
<1> QED BY <1>1, <1>2, FdsRefine

\* an execve that fails half way has changed the table and not the memory
LEMMA ExecStepRefines ==
    ASSUME Inv, Inv', NEW p \in Pid, Exec(p) \/ ExecPending(p), Isolated(p)
    PROVE  Isolation!Next
<1> DEFINE T == SelectFds(fdt, p).selected
           m == SelectMemory(EnterTask(mem, p), p)
<1>1. /\ p \in Live /\ UNCHANGED exit_state
      /\ fdt' = SetTable(SelectFds(fdt, p), OnExec(T))
  BY Zenon, DispatchedRuns DEF Exec, ExecPending, kernelVars
<1>2. T = FdTableForProcess(fdt, p) /\ T \in Table
  BY Zenon, <1>1, InvFacts, SelectStep, TableOfRunning
<1>3. FdTableForProcess(fdt', p) = OnExec(FdTableForProcess(fdt, p))
  BY <1>1, <1>2, InvFacts, OnExecTable, SetSelectedStep
<1>4. Kept(mem, m) /\ Own(m, p)
  BY <1>1, InvFacts, EnterAndSelectKept
<1>5. CASE Exec(p) /\ ClosedTwice(SelectFds(fdt, p), p) = {}
  <2>1. mem' = WriteMemory(m, p, Image)
    BY <1>5 DEF Exec, ReplaceMemory
  <2>2. MemoryForProcess(mem', p) = Image
    BY Zenon, <1>1, <1>4, <2>1, WriteStep, ContextConstants
  <2> QED BY <1>1, <1>3, <2>2, ExecRefines
<1>6. CASE Exec(p) /\ ClosedTwice(SelectFds(fdt, p), p) # {}
  <2>1. mem' = m
    BY <1>6 DEF Exec, ReplaceMemory
  <2>2. MemoryForProcess(mem', p) = MemoryForProcess(mem, p)
    BY <1>1, <1>4, <2>1 DEF Kept, SameViews
  <2> QED BY Zenon, <1>1, <2>2, FdsRefine
<1>7. CASE ExecPending(p)
  <2>1. mem.pending[p] # NoPid
    BY <1>7 DEF ExecPending
  <2>2. mem' = WriteMemory([EnterTask(mem, p) EXCEPT !.pending = [@ EXCEPT ![p] = NoPid]],
                           p, Image)
    BY <1>1, <1>7, <2>1, PendingClosesNothing DEF ExecPending, ReplaceMemory
  <2>3. MemoryForProcess(mem', p) = Image
    BY Zenon, <1>1, <2>1, <2>2, ExecPendingMemory
  <2> QED BY <1>1, <1>3, <2>3, ExecRefines
<1> QED BY <1>5, <1>6, <1>7

LEMMA InitRefines == Init => Isolation!Init
<1> SUFFICES ASSUME Init PROVE Isolation!Init
  OBVIOUS
<1>1. \A q \in Pid : Running(q) <=> q = INITIAL
  BY DEF Init, Running
<1>2. MemoryForProcess(mem, INITIAL) = Image /\ FdTableForProcess(fdt, INITIAL) = EmptyTable
  BY DEF Init, MemoryForProcess, FdTableForProcess
<1>3. /\ GuestSpace = [q \in Pid |-> IF q = INITIAL THEN Image ELSE NoMemory]
      /\ GuestTable = [q \in Pid |-> IF q = INITIAL THEN EmptyTable ELSE NoTable]
  BY <1>1, <1>2 DEF GuestSpace, GuestTable
<1> QED BY <1>3 DEF Init, Isolation!Init

LEMMA NextRefines == Inv /\ [Next]_vars => [Isolation!Next]_(Isolation!vars)
<1> SUFFICES ASSUME Inv, [Next]_vars PROVE [Isolation!Next]_(Isolation!vars)
  OBVIOUS
<1>0. Inv'
  BY NextInv
<1>1. CASE UNCHANGED vars
  BY <1>1 DEF vars, kernelVars, Isolation!vars, GuestSpace, GuestTable, Running
<1>2. CASE Next
  <2>1. UNCHANGED work
    BY Zenon, <1>2 DEF Next
  <2>2. PICK p \in Pid :
        \/ Compute(p)
        \/ Fork(p)
        \/ Exec(p) \/ ExecPending(p) \/ ExecPendingFails(p)
        \/ Exit(p) \/ FatalSignal(p)
        \/ \E c \in Pid : Wait4(p, c) \/ ResumeWaiting(p, c)
        \/ \E x \in work.objects, b \in BOOLEAN : Create(p, x, b)
        \/ \E x \in work.objects \cap Socket : AcceptFaults(p, x)
        \/ \E f \in work.fds, b \in BOOLEAN : Dup(p, f, b) \/ SetCloexec(p, f, b)
        \/ \E f, g \in work.fds, b \in BOOLEAN : Dup2(p, f, g, b)
        \/ \E f, g \in work.fds : CloseRange(p, f, g)
    BY Zenon, <1>2 DEF Next
  <2>3. CASE Compute(p) \/ ExecPendingFails(p)
    <3>1. p \in Live /\ UNCHANGED exit_state
      BY Zenon, <2>3, DispatchedRuns DEF Compute, ExecPendingFails, kernelVars
    <3> QED BY <1>0, <2>1, <2>3, <3>1, ComputeKeepsInv, ExecPendingFailsKeepsInv, QuietRefines
  <2>4. CASE Fork(p)
    <3>1. Forked(p, next_pid) /\ exit_state' = [exit_state EXCEPT ![next_pid] = "Running"]
      BY Zenon, <2>1, <2>4, ForkKeepsInv DEF Fork
    <3> QED BY Zenon, <1>0, <3>1, ForkRefines DEF Forked
  <2>5. CASE Exec(p) \/ ExecPending(p)
    BY <1>0, <2>1, <2>5, ExecKeepsInv, ExecPendingKeepsInv, ExecStepRefines
  <2>6. CASE Exit(p) \/ FatalSignal(p)
    <3>1. p \in Live /\ exit_state' = [exit_state EXCEPT ![p] = "Exited"]
      BY Zenon, <2>6, DispatchedRuns DEF Exit, FatalSignal
    <3> QED BY Zenon, <1>0, <2>1, <2>6, <3>1, ExitKeepsInv, FatalSignalKeepsInv, EndRefines
  <2>7. CASE \E c \in Pid : Wait4(p, c) \/ ResumeWaiting(p, c)
    <3>1. PICK c \in Pid : Wait4(p, c) \/ ResumeWaiting(p, c)
      BY <2>7
    <3>2. p \in Live /\ Reaps(p, c)
      BY Zenon, <3>1, DispatchedRuns DEF Wait4, ResumeWaiting, Reaps
    <3> QED BY <1>0, <2>1, <3>1, <3>2, Wait4KeepsInv, ResumeWaitingKeepsInv, ReapRefines
  <2>8. CASE \/ \E x \in work.objects, b \in BOOLEAN : Create(p, x, b)
             \/ \E x \in work.objects \cap Socket : AcceptFaults(p, x)
    <3>1. FdCall(p)
      BY <2>8 DEF Create, AcceptFaults
    <3> QED BY Zenon, <1>0, <2>1, <2>8, <3>1, CreateKeepsInv, AcceptFaultsKeepsInv, FdCallRefines
  <2>9. CASE \/ \E f \in work.fds, b \in BOOLEAN : Dup(p, f, b) \/ SetCloexec(p, f, b)
             \/ \E f, g \in work.fds, b \in BOOLEAN : Dup2(p, f, g, b)
    <3>1. FdCall(p)
      BY Zenon, <2>9 DEF Dup, Dup2, SetCloexec
    <3> QED BY Zenon, <1>0, <2>1, <2>9, <3>1, DupKeepsInv, SetCloexecKeepsInv, FdCallRefines
  <2>10. CASE \E f, g \in work.fds : CloseRange(p, f, g)
    <3>1. FdCall(p)
      BY <2>10 DEF CloseRange
    <3> QED BY Zenon, <1>0, <2>1, <2>10, <3>1, CloseRangeKeepsInv, FdCallRefines
  <2> QED BY Zenon, <2>2, <2>3, <2>4, <2>5, <2>6, <2>7, <2>8, <2>9, <2>10
<1> QED BY <1>1, <1>2

(***************************************************************************)
(* Deferring the copy of a forked memory, and swapping contexts, cannot be *)
(* seen: every process has an address space and an fd table of its own, as *)
(* if fork copied both at once, and no step changes another process's.     *)
(***************************************************************************)
THEOREM ContextsIsolate == Spec => ProcessesAreIsolated
  BY InitInv, NextInv, InitRefines, NextRefines, PTL DEF Spec, ProcessesAreIsolated, Isolation!Spec
=============================================================================
