--------------------------- MODULE ProcessContext ---------------------------
(***************************************************************************)
(* The process contexts of the runtime (crates/mcr-runtime/src/subsystems).*)
(* One address space and one fd table at a time are selected, the others   *)
(* are kept in maps by pid.  A fork copies the fd table and defers the     *)
(* copy of the memory: the child is pending, and its memory is its         *)
(* parent's until somebody would see the difference.  Sockets and epoll    *)
(* instances are shared by the tables that name them and are closed when   *)
(* the last name goes.                                                     *)
(*                                                                         *)
(* A dispatch of a guest task and a resumed wait4 are one step each: the   *)
(* runtime is single threaded.  Running and Exited processes come from the *)
(* guest kernel (GuestKernel), of which this module keeps the process      *)
(* table.  The contents of an address space are one value.  Fork memory is *)
(* never shared unsafely (unsafe_share_until_exec_enabled is false), and   *)
(* the host has the memory for every copy.                                 *)
(***************************************************************************)
EXTENDS Integers

CONSTANTS
    MaxPid,     \* the number of processes ever forked
    Value,      \* contents of an address space
    Image,      \* the contents execve installs
    Fd,         \* fd numbers, a bound on the size of a table
    Socket,     \* guest sockets
    Epoll,      \* epoll instances
    NoMemory, NoTable, NoEntry,
    Workloads   \* what guests may do and how much of it, see work

INITIAL == 1
Pid == 1 .. MaxPid
NoPid == 0
Object == Socket \cup Epoll
Entry == [obj : Object, cloexec : BOOLEAN]
Table == [Fd -> Entry \cup {NoEntry}]

ASSUME ContextConstants ==
    /\ MaxPid \in Nat /\ MaxPid >= 1
    /\ Image \in Value
    /\ NoMemory \notin Value /\ NoTable \notin Table /\ NoEntry \notin Entry
    /\ Fd \subseteq Nat
    /\ Socket \cap Epoll = {}
    /\ \A w \in Workloads :
        /\ w.pids \in Pid
        /\ w.values \subseteq Value /\ w.fds \subseteq Fd
        /\ w.objects \subseteq Object

VARIABLES
    exit_state, parent, next_pid,   \* the kernel's process table
    mem,        \* memory, selected_memory_pid, pending_fork_exec
    fdt,        \* fds, selected_fds_pid
    open,       \* sockets and epoll instances that are not closed
    created,    \* ids are never reused
    half_execed,    \* whose tasks have a new image, and the memory the old one
    run,        \* "running", or "failed" when the run loop returned an error
    work        \* what the guests of this run do, chosen at the start: which of
                \* dup, dup2, fcntl and close_range they call, which pointers may
                \* be bad (wstatus, tid, sockaddr), and how many processes,
                \* memory contents, fds and objects there are

kernelVars == <<exit_state, parent, next_pid>>
vars == <<kernelVars, mem, fdt, open, created, half_execed, run, work>>

Memories ==
    [stored : [Pid -> Value \cup {NoMemory}], selected : Value, pid : Pid,
     pending : [Pid -> Pid \cup {NoPid}]]
Tables == [stored : [Pid -> Table \cup {NoTable}], selected : Table, pid : Pid]

Exists(p) == exit_state[p] # "None"
Running(p) == exit_state[p] = "Running"
EmptyTable == [f \in Fd |-> NoEntry]
-----------------------------------------------------------------------------
(***************************************************************************)
(* Address spaces.  The operators take and return the record mem.          *)
(***************************************************************************)
MemoryForProcess(m, p) ==
    CASE p = m.pid -> m.selected
      [] p # m.pid /\ m.stored[p] # NoMemory -> m.stored[p]
      [] p # m.pid /\ m.stored[p] = NoMemory /\ m.pending[p] # NoPid ->
             IF m.pending[p] = m.pid THEN m.selected
             ELSE m.stored[m.pending[p]]
      [] OTHER -> NoMemory

MaterializeImage(m, C) ==
    [m EXCEPT
        !.stored = [c \in Pid |-> IF c \in C THEN Image ELSE @[c]],
        !.pending = [c \in Pid |-> IF c \in C THEN NoPid ELSE @[c]]]
Materialize(m, C) ==
    [m EXCEPT
        !.stored = [c \in Pid |-> IF c \in C
                                  THEN MemoryForProcess(m, m.pending[c])
                                  ELSE @[c]],
        !.pending = [c \in Pid |-> IF c \in C THEN NoPid ELSE @[c]]]

MaterializeChildren(m, p) == Materialize(m, {c \in Pid : m.pending[c] = p})
MaterializeSelf(m, p) ==
    Materialize(m, IF m.pending[p] = NoPid THEN {} ELSE {p})

SwapForgetting(m, p) ==
    IF p = m.pid THEN m
    ELSE [m EXCEPT !.selected = m.stored[p], !.pid = p,
                   !.stored = [@ EXCEPT ![p] = NoMemory]]
SwapMemory(m, p) ==
    IF p = m.pid THEN m
    ELSE [m EXCEPT !.selected = m.stored[p], !.pid = p,
                   !.stored = [@ EXCEPT ![p] = NoMemory,
                                        ![m.pid] = IF Exists(m.pid) THEN m.selected
                                                   ELSE m.stored[m.pid]]]
SelectMemory(m, p) == SwapMemory(MaterializeSelf(m, p), p)

\* memory_for_process_mut: in the selected space or in the stored one
WriteMemory(m, p, v) ==
    IF p = m.pid THEN [m EXCEPT !.selected = v]
    ELSE [m EXCEPT !.stored = [@ EXCEPT ![p] = v]]

\* drop_process_memory; the initial process's memory replaces a selected one
DropMemoryAlone(m, p) ==
    IF p # m.pid THEN [m EXCEPT !.stored = [@ EXCEPT ![p] = NoMemory],
                                !.pending = [@ EXCEPT ![p] = NoPid]]
    ELSE IF p = INITIAL THEN [m EXCEPT !.pending = [@ EXCEPT ![p] = NoPid]]
    ELSE [m EXCEPT !.selected = m.stored[INITIAL], !.pid = INITIAL,
                   !.stored = [@ EXCEPT ![INITIAL] = NoMemory],
                   !.pending = [@ EXCEPT ![p] = NoPid]]
DropMemory(m, p) == DropMemoryAlone(MaterializeChildren(m, p), p)

\* what dispatch_guest_task does to the memory before a task of p traps
EnterTask(m, p) == MaterializeChildren(m, p)
-----------------------------------------------------------------------------
(***************************************************************************)
(* Fd tables.  The operators take and return the record fdt.               *)
(***************************************************************************)
FdTableForProcess(t, p) == IF p = t.pid THEN t.selected ELSE t.stored[p]

\* the table of a selected process that no longer exists is dropped
SelectFds(t, p) ==
    IF p = t.pid THEN t
    ELSE [selected |-> t.stored[p], pid |-> p,
          stored |-> [t.stored EXCEPT
                        ![p] = NoTable,
                        ![t.pid] = IF Exists(t.pid) THEN t.selected
                                   ELSE t.stored[t.pid]]]

SetTable(t, table) == [t EXCEPT !.selected = table]

DropTable(t, p) ==
    IF p # t.pid THEN [t EXCEPT !.stored = [@ EXCEPT ![p] = NoTable]]
    ELSE IF p = INITIAL THEN t
    ELSE [selected |-> t.stored[INITIAL], pid |-> INITIAL,
          stored |-> [t.stored EXCEPT ![INITIAL] = NoTable]]

Holds(table, f, x) ==
    table # NoTable /\ table[f] # NoEntry /\ table[f].obj = x
Names(table, x) == \E f \in Fd : Holds(table, f, x)

\* the reference counts of x in the tables of the other processes are zero
UnsharedIgnoringSelected(t, p, x) ==
    \A q \in Pid \ {p} : ~Names(t.stored[q], x)
Unshared(t, p, x) == \A q \in Pid \ {p} : ~Names(FdTableForProcess(t, q), x)

NextFd(table, f) ==
    /\ table[f] = NoEntry
    /\ \A g \in Fd : g < f => table[g] # NoEntry

(***************************************************************************)
(* close_unshared_process_sockets goes through the table in the order of   *)
(* the fds and stops at the first error.  Closing a socket that is closed  *)
(* already is one, closing an epoll instance again is none.                *)
(***************************************************************************)
CloseFails(t, p, f) ==
    LET table == FdTableForProcess(t, p)
    IN  \E s \in Socket :
            /\ Holds(table, f, s)
            /\ Unshared(t, p, s)
            /\ s \notin open \/ \E g \in Fd : g < f /\ Holds(table, g, s)
CloseSucceeds(t, p) == ~ \E f \in Fd : CloseFails(t, p, f)
ClosedWith(t, p) ==
    LET table == FdTableForProcess(t, p)
    IN  {s \in Socket :
            /\ Unshared(t, p, s)
            /\ \E f \in Fd : /\ Holds(table, f, s)
                             /\ \A g \in Fd : CloseFails(t, p, g) => f < g}
        \cup {e \in Epoll : /\ CloseSucceeds(t, p)
                            /\ Unshared(t, p, e)
                            /\ Names(table, e)}

(***************************************************************************)
(* The ids of the entries close_on_exec removed, in any order (a HashSet), *)
(* are closed when no table names them any more; a socket removed under    *)
(* two fds is closed twice, which is an error.                             *)
(***************************************************************************)
OnExec(table) ==
    [f \in Fd |-> IF table[f] # NoEntry /\ table[f].cloexec
                  THEN NoEntry ELSE table[f]]
ClosedOnExec(t, p) ==
    {x \in Object : /\ Names(t.selected, x)
                    /\ ~Names(OnExec(t.selected), x)
                    /\ Unshared(t, p, x)}
Twice(t, x) ==
    \E f, g \in Fd : /\ f # g
                     /\ Holds(t.selected, f, x)
                     /\ Holds(t.selected, g, x)
ClosedTwice(t, p) == {s \in ClosedOnExec(t, p) \cap Socket : Twice(t, s)}
-----------------------------------------------------------------------------
Init ==
    /\ exit_state = [p \in Pid |-> IF p = INITIAL THEN "Running" ELSE "None"]
    /\ parent = [p \in Pid |-> NoPid]
    /\ next_pid = INITIAL + 1
    /\ mem = [stored |-> [p \in Pid |-> NoMemory], selected |-> Image,
              pid |-> INITIAL, pending |-> [p \in Pid |-> NoPid]]
    /\ fdt = [stored |-> [p \in Pid |-> NoTable], selected |-> EmptyTable,
              pid |-> INITIAL]
    /\ open = {}
    /\ created = {}
    /\ half_execed = {}
    /\ run = "running"
    /\ work \in Workloads

\* the run loop goes on, and a task of p may be dispatched
Dispatched(p) == run = "running" /\ Running(INITIAL) /\ Running(p)

(***************************************************************************)
(* A task of p runs, writing its memory wherever that is, and makes a call *)
(* that changes no table: it may select the memory, or both contexts.      *)
(***************************************************************************)
Compute(p) ==
    /\ Dispatched(p)
    /\ LET m == MaterializeSelf(EnterTask(mem, p), p)
       IN  \E v \in work.values :
            \/ /\ mem' = WriteMemory(m, p, v)
               /\ fdt' = fdt
            \/ /\ mem' = WriteMemory(SelectMemory(m, p), p, v)
               /\ fdt' \in {fdt, SelectFds(fdt, p)}
    /\ UNCHANGED <<kernelVars, open, created, half_execed, run>>

\* dispatch_fork_like, once the kernel made the child
Fork(p) ==
    /\ Dispatched(p)
    /\ next_pid <= work.pids
    /\ LET c == next_pid
           m == SelectMemory(EnterTask(mem, p), p)
           t == SelectFds(fdt, p)
       IN  /\ exit_state' = [exit_state EXCEPT ![c] = "Running"]
           /\ parent' = [parent EXCEPT ![c] = p]
           /\ mem' = [m EXCEPT !.pending = [@ EXCEPT ![c] = p]]
           /\ fdt' = [t EXCEPT !.stored = [@ EXCEPT ![c] = t.selected]]
    /\ next_pid' = next_pid + 1
    /\ UNCHANGED <<open, created, half_execed, run>>

(***************************************************************************)
(* execve of a process with its own memory, and of a pending child, which  *)
(* reads its arguments from its parent's memory and gets the new image     *)
(* without ever having had a copy.  The fds are closed before the memory   *)
(* is replaced: an error there leaves the old memory, or none.             *)
(***************************************************************************)
CloseOnExec(t, p) ==
    \/ /\ ClosedTwice(t, p) = {}
       /\ open' = open \ ClosedOnExec(t, p)
    \/ \E X \in SUBSET ClosedOnExec(t, p) :
        /\ X \subseteq Socket
        /\ X \cap ClosedTwice(t, p) # {}
        /\ open' = open \ X

ReplaceMemory(m, p, closed) ==
    /\ mem' = IF closed THEN WriteMemory(m, p, Image) ELSE m
    /\ half_execed' = IF closed THEN half_execed \ {p}
                      ELSE half_execed \cup {p}

Exec(p) ==
    /\ Dispatched(p)
    /\ mem.pending[p] = NoPid
    /\ LET m == SelectMemory(EnterTask(mem, p), p)
           t == SelectFds(fdt, p)
       IN  /\ CloseOnExec(t, p)
           /\ fdt' = SetTable(t, OnExec(t.selected))
           /\ ReplaceMemory(m, p, ClosedTwice(t, p) = {})
    /\ UNCHANGED <<kernelVars, created, run>>

ExecPending(p) ==
    /\ Dispatched(p)
    /\ mem.pending[p] # NoPid
    /\ LET m == [EnterTask(mem, p) EXCEPT !.pending = [@ EXCEPT ![p] = NoPid]]
           t == SelectFds(fdt, p)
       IN  /\ CloseOnExec(t, p)
           /\ fdt' = SetTable(t, OnExec(t.selected))
           /\ ReplaceMemory(m, p, ClosedTwice(t, p) = {})
    /\ UNCHANGED <<kernelVars, created, run>>

\* unreadable arguments or an unloadable program
ExecPendingFails(p) ==
    /\ Dispatched(p)
    /\ mem.pending[p] # NoPid
    /\ mem' = MaterializeSelf(EnterTask(mem, p), p)
    /\ fdt' = SelectFds(fdt, p)
    /\ UNCHANGED <<kernelVars, open, created, half_execed, run>>

(***************************************************************************)
(* drop_process_resources of q: its sockets, its memory, its fd table.     *)
(* An error while closing skips the rest and goes to the caller.           *)
(***************************************************************************)
DropResources(m, t, q) ==
    /\ open' = open \ ClosedWith(t, q)
    /\ mem' = IF CloseSucceeds(t, q) THEN DropMemory(m, q) ELSE m
    /\ fdt' = IF CloseSucceeds(t, q) THEN DropTable(t, q) ELSE t

\* the exit of the last thread, which clears its tid word first, or exit_group
Exit(p) ==
    /\ Dispatched(p)
    /\ exit_state' = [exit_state EXCEPT ![p] = "Exited"]
    /\ LET m == SelectMemory(EnterTask(mem, p), p)
           t == SelectFds(fdt, p)
       IN  \/ \E v \in work.values : DropResources(WriteMemory(m, p, v), t, p)
           \/ /\ "tid" \in work.faults
              /\ mem' = m
              /\ fdt' = t
              /\ UNCHANGED open
    /\ UNCHANGED <<parent, next_pid, created, half_execed, run>>

\* the default action of a signal, taken without selecting the context
FatalSignal(p) ==
    /\ Dispatched(p)
    /\ exit_state' = [exit_state EXCEPT ![p] = "Exited"]
    /\ DropResources(MaterializeSelf(EnterTask(mem, p), p), fdt, p)
    /\ run' = IF CloseSucceeds(fdt, p) THEN run ELSE "failed"
    /\ UNCHANGED <<parent, next_pid, created, half_execed>>

Reaps(p, c) ==
    /\ Dispatched(p)
    /\ parent[c] = p
    /\ exit_state[c] = "Exited"
    /\ exit_state' = [exit_state EXCEPT ![c] = "None"]
    /\ UNCHANGED <<parent, next_pid, created, half_execed>>

\* wait4 finds a zombie and stores its status
Wait4(p, c) ==
    /\ Reaps(p, c)
    /\ LET m == SelectMemory(EnterTask(mem, p), p)
           t == SelectFds(fdt, p)
       IN  \/ \E v \in work.values : DropResources(WriteMemory(m, p, v), t, c)
           \/ /\ "wstatus" \in work.faults
              /\ mem' = m
              /\ fdt' = t
              /\ UNCHANGED open
    /\ UNCHANGED run

(***************************************************************************)
(* resume_waiting_tasks completes a blocked wait4: the status, if it is    *)
(* wanted, is written wherever the parent's memory is.  An error ends the  *)
(* run.                                                                    *)
(***************************************************************************)
ResumeWaiting(p, c) ==
    /\ Reaps(p, c)
    /\ LET m == MaterializeChildren(mem, p)
       IN  \/ /\ \/ DropResources(mem, fdt, c)
                 \/ \E v \in work.values : DropResources(WriteMemory(m, p, v), fdt, c)
              /\ run' = IF CloseSucceeds(fdt, c) THEN run ELSE "failed"
           \/ /\ "wstatus" \in work.faults
              /\ mem' = m
              /\ run' = "failed"
              /\ UNCHANGED <<fdt, open>>
-----------------------------------------------------------------------------
(***************************************************************************)
(* Calls on fds: both contexts are selected, then the table changes.       *)
(***************************************************************************)
FdCall(p) ==
    /\ Dispatched(p)
    /\ mem' = SelectMemory(EnterTask(mem, p), p)
    /\ UNCHANGED <<kernelVars, half_execed, run>>

\* socket, accept4 and epoll_create1
Create(p, x, cloexec) ==
    /\ FdCall(p)
    /\ x \notin created
    /\ LET t == SelectFds(fdt, p)
       IN  \E f \in work.fds :
            /\ NextFd(t.selected, f)
            /\ fdt' = SetTable(t, [t.selected EXCEPT
                                    ![f] = [obj |-> x, cloexec |-> cloexec]])
    /\ created' = created \cup {x}
    /\ open' = open \cup {x}

\* accept4 has accepted when it finds that it cannot store the address
AcceptFaults(p, x) ==
    /\ "sockaddr" \in work.faults
    /\ FdCall(p)
    /\ x \in Socket \ created
    /\ \E listener \in Socket : Names(FdTableForProcess(fdt, p), listener)
    /\ fdt' = SelectFds(fdt, p)
    /\ created' = created \cup {x}
    /\ open' = open \cup {x}

\* dup, F_DUPFD and F_DUPFD_CLOEXEC
Dup(p, f, cloexec) ==
    /\ "dup" \in work.calls
    /\ FdCall(p)
    /\ LET t == SelectFds(fdt, p)
       IN  /\ t.selected[f] # NoEntry
           /\ \E g \in work.fds :
                /\ NextFd(t.selected, g)
                /\ fdt' = SetTable(t, [t.selected EXCEPT
                            ![g] = [t.selected[f] EXCEPT !.cloexec = cloexec]])
    /\ UNCHANGED <<open, created>>

\* dup2 and dup3: what newfd named is taken out of the table, not closed
Dup2(p, f, g, cloexec) ==
    /\ "dup2" \in work.calls
    /\ f # g
    /\ FdCall(p)
    /\ LET t == SelectFds(fdt, p)
       IN  /\ t.selected[f] # NoEntry
           /\ fdt' = SetTable(t, [t.selected EXCEPT
                        ![g] = [t.selected[f] EXCEPT !.cloexec = cloexec]])
    /\ UNCHANGED <<open, created>>

\* fcntl(F_SETFD)
SetCloexec(p, f, cloexec) ==
    /\ "fcntl" \in work.calls
    /\ FdCall(p)
    /\ LET t == SelectFds(fdt, p)
       IN  /\ t.selected[f] # NoEntry
           /\ fdt' = SetTable(t, [t.selected EXCEPT ![f].cloexec = cloexec])
    /\ UNCHANGED <<open, created>>

\* close (first = last) and close_range
CloseRange(p, first, last) ==
    /\ first = last \/ "close_range" \in work.calls
    /\ FdCall(p)
    /\ LET t == SelectFds(fdt, p)
           table == [f \in Fd |-> IF f \in first .. last THEN NoEntry
                                  ELSE t.selected[f]]
       IN  /\ fdt' = SetTable(t, table)
           /\ open' = open \ {x \in Object : /\ Names(t.selected, x)
                                             /\ ~Names(table, x)
                                             /\ Unshared(t, p, x)}
    /\ UNCHANGED created

Next ==
    /\ UNCHANGED work
    /\ \E p \in Pid :
        \/ Compute(p)
        \/ Fork(p)
        \/ Exec(p) \/ ExecPending(p) \/ ExecPendingFails(p)
        \/ Exit(p) \/ FatalSignal(p)
        \/ \E c \in Pid : Wait4(p, c) \/ ResumeWaiting(p, c)
        \/ \E x \in work.objects, b \in BOOLEAN : Create(p, x, b)
        \/ \E x \in work.objects \cap Socket : AcceptFaults(p, x)
        \/ \E f \in work.fds, b \in BOOLEAN : Dup(p, f, b) \/ SetCloexec(p, f, b)
        \/ \E f, g \in work.fds, b \in BOOLEAN : Dup2(p, f, g, b)
        \/ \E f, g \in work.fds : CloseRange(p, f, g)

Spec == Init /\ [][Next]_vars
-----------------------------------------------------------------------------
TypeOK ==
    /\ exit_state \in [Pid -> {"None", "Running", "Exited"}]
    /\ parent \in [Pid -> Pid \cup {NoPid}]
    /\ next_pid \in 1 .. MaxPid + 1
    /\ mem \in Memories
    /\ fdt \in Tables
    /\ created \subseteq Object
    /\ open \subseteq created
    /\ half_execed \subseteq Pid
    /\ run \in {"running", "failed"}
    /\ work \in Workloads

(***************************************************************************)
(* The memory of a running process is in exactly one place: selected,      *)
(* stored, or in the hands of a running parent that has a memory of its    *)
(* own.  The lookups of select_memory_for_process, memory_for_process_mut, *)
(* restore_initial_memory_after_selected_drop and the materialization of a *)
(* pending child therefore never fail.                                     *)
(***************************************************************************)
MemoryInOnePlace ==
    \A p \in Pid :
        /\ Running(p) =>
            \/ mem.pid = p /\ mem.stored[p] = NoMemory /\ mem.pending[p] = NoPid
            \/ mem.pid # p /\ mem.stored[p] # NoMemory /\ mem.pending[p] = NoPid
            \/ /\ mem.pid # p /\ mem.stored[p] = NoMemory
               /\ mem.pending[p] # NoPid /\ Running(mem.pending[p])
               /\ mem.pending[mem.pending[p]] = NoPid
        /\ mem.pending[p] # NoPid => Running(p) /\ p # INITIAL

\* no guest has two fds for one socket or passes a bad pointer, either of
\* which makes drop_process_resources fail or leaves it out
ReleasesSucceed == work.calls \cap {"dup", "dup2"} = {} /\ work.faults = {}

(***************************************************************************)
(* A running process has its fd table in exactly one place.  Unless the    *)
(* release of a process fails, what is selected belongs to a process the   *)
(* kernel still knows: the table that select_fds_for_process and           *)
(* select_memory_for_process would throw away never exists.                *)
(***************************************************************************)
TableInOnePlace ==
    /\ \A p \in Pid : Running(p) => (fdt.pid = p <=> fdt.stored[p] = NoTable)
    /\ ReleasesSucceed => Exists(fdt.pid) /\ Exists(mem.pid)

(***************************************************************************)
(* No close, exec or exit of one process closes a socket or an epoll       *)
(* instance that a running process still names.                            *)
(***************************************************************************)
NamedIsOpen ==
    \A p \in Pid, x \in Object :
        Running(p) /\ Names(FdTableForProcess(fdt, p), x) => x \in open

(***************************************************************************)
(* An open socket or epoll instance is named by a table of a process: the  *)
(* last reference to go has closed it.  FdTable::dup2, an accept4 that     *)
(* cannot store the peer's address and the failed release of a process     *)
(* leave objects open (see the README), so what holds is the statement     *)
(* about guests that meet none of them.                                    *)
(***************************************************************************)
LastNameCloses ==
    \A x \in open :
        \E p \in Pid : Exists(p) /\ Names(FdTableForProcess(fdt, p), x)
OpenIsNamed == ReleasesSucceed => LastNameCloses

(***************************************************************************)
(* Shared objects live as long as their names: close_unshared_process_     *)
(* sockets, close_process_fd_range and execve count the references of the  *)
(* other processes' tables right, wherever those tables are.               *)
(***************************************************************************)
OpenWhileNamed == NamedIsOpen /\ OpenIsNamed

(***************************************************************************)
(* An execve that changed the tasks of a process has changed its memory    *)
(* too: no process runs a new image's registers in the old image's memory. *)
(* The fds are closed in between, and SocketTable::close fails the second  *)
(* time for a socket with two close-on-exec fds, so the statement is about *)
(* guests without a second fd for a socket.                                *)
(***************************************************************************)
ExecIsWhole == ReleasesSucceed => half_execed = {}

(***************************************************************************)
(* No guest ends the run: wait4 and fatal signals release the resources of *)
(* a process without an error.  A second fd for a socket makes             *)
(* close_unshared_process_sockets fail, and a bad status pointer a resumed *)
(* wait4, so the statement is about guests without either.                 *)
(***************************************************************************)
RunGoesOn == ReleasesSucceed => run = "running"

(***************************************************************************)
(* A child whose memory is not copied yet has its parent's fd table too:   *)
(* neither has run since the fork.  So its execve finds every close-on-    *)
(* exec object shared, closes nothing, and cannot fail after it gave up    *)
(* the parent's memory and before it has one of its own.                   *)
(***************************************************************************)
PendingSharesTable ==
    \A c \in Pid :
        mem.pending[c] # NoPid =>
            FdTableForProcess(fdt, c) = FdTableForProcess(fdt, mem.pending[c])

\* so it has no children either, and none of its calls waits for one
PendingIsChildless ==
    \A c, d \in Pid : mem.pending[c] # NoPid => parent[d] # c

\* a pid that is still to be allocated has left no trace
UnbornIsUnknown ==
    \A p \in Pid :
        p >= next_pid => /\ exit_state[p] = "None"
                         /\ mem.pid # p /\ mem.stored[p] = NoMemory
                         /\ fdt.pid # p /\ fdt.stored[p] = NoTable
                         /\ \A c \in Pid : parent[c] # p

(***************************************************************************)
(* Where releases succeed they are whole: a process that does not run has  *)
(* no table and is not the selected one, until the initial process itself  *)
(* has ended, and no table has a socket under two fds.                     *)
(***************************************************************************)
HasTable(p) == fdt.pid = p \/ fdt.stored[p] # NoTable
SocketsOnce(table) ==
    \A f, g \in Fd : \A s \in Socket :
        Holds(table, f, s) /\ Holds(table, g, s) => f = g
ReleasesAreWhole ==
    ReleasesSucceed /\ Running(INITIAL) =>
        \A p \in Pid :
            IF Running(p) THEN SocketsOnce(FdTableForProcess(fdt, p))
            ELSE ~HasTable(p) /\ mem.pid # p

(***************************************************************************)
(* A context switch, fork, exec, exit or wait neither loses nor doubles    *)
(* the memory or the fd table of a running process, and none of the        *)
(* runtime's own lookups of them fails.                                    *)
(***************************************************************************)
ContextsInOnePlace ==
    /\ TypeOK
    /\ MemoryInOnePlace /\ TableInOnePlace /\ RunGoesOn
    /\ PendingSharesTable /\ PendingIsChildless
    /\ UnbornIsUnknown /\ ReleasesAreWhole

\* Nothing of a context is lost, doubled or, by an execve, replaced by half.
ContextsAreWhole == ContextsInOnePlace /\ ExecIsWhole

\* what guests see: the memory and the table of each running process
GuestSpace ==
    [p \in Pid |-> IF Running(p) THEN MemoryForProcess(mem, p) ELSE NoMemory]
GuestTable ==
    [p \in Pid |-> IF Running(p) THEN FdTableForProcess(fdt, p) ELSE NoTable]

(***************************************************************************)
(* Each process has a memory and a table of its own, as if fork had copied *)
(* both at once: see ProcessIsolation.                                     *)
(***************************************************************************)
Isolation ==
    INSTANCE ProcessIsolation WITH
        state <- exit_state, space <- GuestSpace, table <- GuestTable
\* The contexts of process.rs implement isolated processes.
ProcessesAreIsolated == Isolation!Spec
=============================================================================
