-------------------------- MODULE ProcessIsolation --------------------------
(***************************************************************************)
(* What the process contexts of the runtime promise to guests: a process   *)
(* has an address space and an fd table of its own.  A fork copies both at *)
(* once, execve replaces the one and drops the close-on-exec entries of    *)
(* the other, and no step of a process changes those of another running    *)
(* process.  Which context is selected, and when the memory of a forked    *)
(* child is really copied, cannot be observed.                             *)
(***************************************************************************)
CONSTANTS Pid, INITIAL, Value, Image, Table, EmptyTable, OnExec(_),
          NoMemory, NoTable

VARIABLES state, space, table

vars == <<state, space, table>>

Init ==
    /\ state = [p \in Pid |-> IF p = INITIAL THEN "Running" ELSE "None"]
    /\ space = [p \in Pid |-> IF p = INITIAL THEN Image ELSE NoMemory]
    /\ table = [p \in Pid |-> IF p = INITIAL THEN EmptyTable ELSE NoTable]

\* p's memory or table may become any other, and nobody else's
WriteMemory(p) ==
    /\ space'[p] \in Value
    /\ space' = [space EXCEPT ![p] = space'[p]]

Write(p) ==
    /\ WriteMemory(p)
    /\ UNCHANGED <<state, table>>

ChangeFds(p) ==
    /\ table'[p] \in Table
    /\ table' = [table EXCEPT ![p] = table'[p]]
    /\ UNCHANGED <<state, space>>

Fork(p, c) ==
    /\ state[c] = "None"
    /\ state' = [state EXCEPT ![c] = "Running"]
    /\ space' = [space EXCEPT ![c] = space[p]]
    /\ table' = [table EXCEPT ![c] = table[p]]

Exec(p) ==
    /\ space' = [space EXCEPT ![p] = Image]
    /\ table' = [table EXCEPT ![p] = OnExec(table[p])]
    /\ UNCHANGED state

Exit(p) ==
    /\ state' = [state EXCEPT ![p] = "Exited"]
    /\ space' = [space EXCEPT ![p] = NoMemory]
    /\ table' = [table EXCEPT ![p] = NoTable]

Wait(p, c) ==
    /\ state[c] = "Exited"
    /\ state' = [state EXCEPT ![c] = "None"]
    /\ WriteMemory(p)
    /\ UNCHANGED table

Next ==
    \E p \in Pid :
        /\ state[p] = "Running"
        /\ \/ Write(p) \/ ChangeFds(p) \/ Exec(p) \/ Exit(p)
           \/ \E c \in Pid : Fork(p, c) \/ Wait(p, c)

Spec == Init /\ [][Next]_vars
=============================================================================
