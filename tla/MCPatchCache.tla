---------------------------- MODULE MCPatchCache ----------------------------
(* A small instance of PatchCache for TLC, and beside it the emulation of   *)
(* single FS-relative instructions: a behaviour is either one of native     *)
(* entries or one faulting instruction.                                     *)
EXTENDS PatchCache, FsEmulation

\* Not set, and two bases; at the second the address limit lies between the
\* two displacements.
MCBases == {0, 4, 8}
MCImages == {<<Ins("tls", 1), Ins("fs", 1)>>, <<Ins("syscall", 0), Ins("tls", 0)>>}
MCMappings == {[ins |-> Ins("tls", 1), prot |-> "rx"],
               [ins |-> Ins("syscall", 0), prot |-> "rwx"],
               [ins |-> Ins("libc", 2), prot |-> "rx"],
               [ins |-> Zero, prot |-> "rw"]}
MCStores == {Ins("tls", 1), Ins("syscall", 0)}

----------------------------------------------------------------------------
(* Faulting instructions.                                                   *)

\* mov eax, fs:[0]
Plain == [op |-> "mov_load", data16 |-> "none",
          rex |-> FALSE, w |-> FALSE, r |-> FALSE, x |-> FALSE, b |-> FALSE,
          mode |-> 0, reg |-> 0, rm |-> 4, scale |-> 0, index |-> 4, base |-> 5,
          disp |-> 0, imm |-> 0]

\* Values at the edges of one, four and eight bytes.
Edges == {0, 1, 2, 3, 126, 127, 128, 255, 32767, 32768, 65535}

\* Register k holds k, register 0 the given operand; thread-local storage is
\* mapped from 16 to 63 and holds the other operand at fs:[-8].
Machine(lhs, rhs) ==
    WriteValue([regs |-> [k \in 0..15 |-> IF k = 0 THEN lhs ELSE k],
                xmm |-> [k \in 0..15 |-> 0], flags |-> {"CF", "OF"}, status |-> "faulted",
                mem |-> [a \in 16..63 |-> (a + 1) % 4]], FsBase - 8, 8, rhs)

\* Arithmetic on every pair of edge values.
Operand(op, w) == [Plain EXCEPT !.op = op, !.w = w, !.rex = w, !.disp = -8]
ArithmeticJobs ==
    {[ins |-> Operand(op, w), machine |-> Machine(lhs, rhs)] :
        op \in {"add", "sub"}, w \in BOOLEAN, lhs \in Edges, rhs \in Edges}
ComparisonJobs ==
    {[ins |-> [Operand(op, w) EXCEPT !.reg = reg, !.imm = imm], machine |-> Machine(0, rhs)] :
        op \in {"grp8", "grp"}, w \in BOOLEAN, reg \in {0, 7}, imm \in 0..3, rhs \in Edges}

\* Moves with every prefix, of low, high and extended registers, to and from
\* mapped, partly mapped and unmapped addresses.
MoveJobs ==
    {[ins |-> [Plain EXCEPT !.op = op, !.data16 = data16, !.rex = w \/ r \/ rex,
                            !.w = w, !.r = r, !.reg = reg, !.disp = disp, !.imm = imm],
      machine |-> Machine(32773, 43690)] :
        op \in {"mov_load", "movzx8", "movzx16", "mov_store8", "mov_store", "mov_imm8",
                "mov_imm", "movhps"},
        data16 \in {"none", "before", "after"}, w \in BOOLEAN, r \in BOOLEAN, rex \in BOOLEAN,
        reg \in {0, 4}, disp \in {-8, 0, 28, 40}, imm \in {0, 129}}

\* Every form of address.
AddressJobs ==
    {[ins |-> [Plain EXCEPT !.op = op, !.rex = TRUE, !.w = TRUE, !.x = x, !.b = b,
                            !.mode = mode, !.rm = rm, !.scale = scale, !.index = index,
                            !.base = base, !.disp = -3, !.imm = 200],
      machine |-> Machine(4, 43690)] :
        op \in {"mov_load", "mov_imm", "mov_store", "sub"}, x \in BOOLEAN, b \in BOOLEAN,
        mode \in 0..3, rm \in {0, 4, 5}, scale \in {0, 1}, index \in {1, 4},
        base \in {3, 5}}

MCJobs == ArithmeticJobs \cup ComparisonJobs \cup MoveJobs \cup AddressJobs

----------------------------------------------------------------------------

MCInit == Init /\ (fault = NoFault \/ (code[Initial][1] = Ins("tls", 1) /\ FsInit))

MCNext == \/ fault = NoFault /\ Next /\ UNCHANGED fault
          \/ Emulate /\ UNCHANGED vars

MCSpec == MCInit /\ [][MCNext]_<<vars, fault>>
=============================================================================
