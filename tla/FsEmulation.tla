---------------------------- MODULE FsEmulation ----------------------------
(* A guest instruction that addresses thread-local storage through FS and   *)
(* was neither rewritten nor executed by the host arrives at the runtime as *)
(* a fault or as a trap: dispatch_native_guest_task_with_dispatcher reads   *)
(* its bytes again and emulates it (native_patch.rs of mcr-runtime).  This  *)
(* module models the decoding, the address arithmetic, the operand widths   *)
(* and the flags of that emulation, and defines beside it what the          *)
(* processor does.  A byte has ByteBits bits; operands keep their length in *)
(* bytes, so wrapping, sign extension and truncation happen where they do   *)
(* in the code.  An instruction is a record of the fields of its encoding.  *)
EXTENDS Integers, FiniteSets, FiniteSetsExt

CONSTANTS ByteBits,  \* bits of a byte
          FsBase,    \* the FS base of the faulting task
          Jobs       \* instructions with the machine state they fault in

VARIABLE fault

ASSUME ByteBitsAssumption == ByteBits \in Nat /\ ByteBits >= 2 /\ ByteBits % 2 = 0

Modulus(len) == 2^(ByteBits * len)
Bit(x, k) == (x \div 2^k) % 2
Signed(x, len) == IF x < Modulus(len) \div 2 THEN x ELSE x - Modulus(len)
SignExtended(x, from, to) == Signed(x, from) % Modulus(to)

StatusFlags == {"CF", "PF", "AF", "ZF", "SF", "OF"}
EvenOnes(x) == Cardinality({k \in 0..(ByteBits - 1) : Bit(x, k) = 1}) % 2 = 0

\* A machine: sixteen registers, the high halves of the vector registers, the
\* status flags and the bytes of the mapped addresses.  Its status tells
\* whether the instruction was carried out, and with it that the instruction
\* pointer moved behind the instruction.
Refused(m) == [m EXCEPT !.status = "refused"]
Failed(m) == [m EXCEPT !.status = "failed"]
Done(m) == [m EXCEPT !.status = "done"]

----------------------------------------------------------------------------
(* Memory and registers.                                                    *)

Mapped(m, addr, len) == addr..(addr + len - 1) \subseteq DOMAIN m.mem

ReadValue(m, addr, len) ==
    MapThenSumSet(LAMBDA k : m.mem[addr + k] * Modulus(k), 0..(len - 1))

WriteValue(m, addr, len, value) ==
    IF ~Mapped(m, addr, len) THEN Failed(m)
    ELSE Done([m EXCEPT !.mem = [a \in DOMAIN m.mem |->
             IF a \in addr..(addr + len - 1)
             THEN (value \div Modulus(a - addr)) % Modulus(1)
             ELSE m.mem[a]]])

host_register64(m, r) == m.regs[r]
set_host_register64(m, r, value) == Done([m EXCEPT !.regs[r] = value])

----------------------------------------------------------------------------
(* The flags of an addition and of a subtraction of len bytes.              *)

ResultFlags(lhs, rhs, result, len) ==
    {f \in {"PF", "AF", "ZF", "SF"} :
        CASE f = "PF" -> EvenOnes(result)
          [] f = "AF" -> (Bit(lhs, ByteBits \div 2) + Bit(rhs, ByteBits \div 2)
                          + Bit(result, ByteBits \div 2)) % 2 = 1
          [] f = "ZF" -> result = 0
          [] f = "SF" -> Bit(result, ByteBits * len - 1) = 1}

AddFlags(m, lhs, rhs, result, len) ==
    [m EXCEPT !.flags = ResultFlags(lhs, rhs, result, len)
        \cup {f \in {"CF"} : result < lhs}
        \cup {f \in {"OF"} : /\ Bit(lhs, ByteBits * len - 1) = Bit(rhs, ByteBits * len - 1)
                             /\ Bit(lhs, ByteBits * len - 1) # Bit(result, ByteBits * len - 1)}]

\* A mutation: the overflow of an addition where the signs differ.
SubFlagsOfAddition(m, lhs, rhs, result, len) ==
    [m EXCEPT !.flags = ResultFlags(lhs, rhs, result, len)
        \cup {f \in {"CF"} : lhs < rhs}
        \cup {f \in {"OF"} : /\ Bit(lhs, ByteBits * len - 1) = Bit(rhs, ByteBits * len - 1)
                             /\ Bit(lhs, ByteBits * len - 1) # Bit(result, ByteBits * len - 1)}]

SubFlags(m, lhs, rhs, result, len) ==
    [m EXCEPT !.flags = ResultFlags(lhs, rhs, result, len)
        \cup {f \in {"CF"} : lhs < rhs}
        \cup {f \in {"OF"} : /\ Bit(lhs, ByteBits * len - 1) # Bit(rhs, ByteBits * len - 1)
                             /\ Bit(lhs, ByteBits * len - 1) # Bit(result, ByteBits * len - 1)}]

----------------------------------------------------------------------------
(* Decoding.                                                                *)

\* Operand-size prefixes are skipped in front of the FS prefix only; one
\* behind it is taken for the opcode, which no handler knows.
fs_segment_prefix_index(i) == i.data16 # "after"

Register(i) == i.reg + (IF i.r THEN 8 ELSE 0)

\* An absolute displacement: ModRM 00 reg 100 with SIB 0x25.
Absolute(i) == /\ i.mode = 0 /\ i.rm = 4
               /\ i.scale = 0 /\ i.index = 4 /\ i.base = 5

AbsoluteAddress(i) == (FsBase + i.disp) % Modulus(8)

HasMemoryOffset(i) == i.mode # 3 /\ ~(i.mode = 0 /\ i.rm = 5)

modrm_memory_offset(m, i) ==
    ((IF i.rm = 4
      THEN (IF i.index = 4 THEN 0
            ELSE host_register64(m, i.index + (IF i.x THEN 8 ELSE 0)) * 2^i.scale)
           + (IF i.mode = 0 /\ i.base = 5 THEN 0
              ELSE host_register64(m, i.base + (IF i.b THEN 8 ELSE 0)))
      ELSE host_register64(m, i.rm + (IF i.b THEN 8 ELSE 0)))
     + (IF i.mode # 0 \/ (i.rm = 4 /\ i.base = 5) THEN i.disp ELSE 0)) % Modulus(8)

ModrmAddress(m, i) == (FsBase + modrm_memory_offset(m, i)) % Modulus(8)

Width(i) == IF i.w THEN 8 ELSE 4

----------------------------------------------------------------------------
(* The handlers.  Each refuses what is not its instruction, fails when the  *)
(* memory cannot be accessed, and carries the instruction out otherwise.    *)

LoadRegister(m, i, addr, len) ==
    IF ~Mapped(m, addr, len) THEN Failed(m)
    ELSE set_host_register64(m, Register(i), ReadValue(m, addr, len))

emulate_fs_modrm_mov_load(m, i) ==
    IF i.op = "mov_load" /\ HasMemoryOffset(i)
    THEN LoadRegister(m, i, ModrmAddress(m, i), Width(i)) ELSE Refused(m)

emulate_fs_absolute_mov_load(m, i) ==
    IF i.op = "mov_load" /\ Absolute(i)
    THEN LoadRegister(m, i, AbsoluteAddress(i), Width(i)) ELSE Refused(m)

emulate_fs_absolute_movzx_load(m, i) ==
    IF i.op \in {"movzx8", "movzx16"} /\ Absolute(i)
    THEN LoadRegister(m, i, AbsoluteAddress(i), IF i.op = "movzx8" THEN 1 ELSE 2)
    ELSE Refused(m)

emulate_fs_absolute_mov_store(m, i) ==
    IF i.op \in {"mov_store8", "mov_store"} /\ Absolute(i)
    THEN WriteValue(m, AbsoluteAddress(i), IF i.op = "mov_store8" THEN 1 ELSE Width(i),
                    host_register64(m, Register(i)))
    ELSE Refused(m)

\* An operand-size prefix shortens the immediate to two bytes, so that four
\* bytes of it cannot be read from the instruction.
ImmediateIsWhole(i) == i.op = "mov_imm8" \/ i.data16 = "none" \/ i.w

StoreImmediate(m, i, addr) ==
    IF i.op = "mov_imm8" THEN WriteValue(m, addr, 1, i.imm % Modulus(1))
    ELSE WriteValue(m, addr, Width(i), SignExtended(i.imm, 4, 8))

emulate_fs_modrm_mov_immediate_store(m, i) ==
    IF /\ i.op \in {"mov_imm8", "mov_imm"} /\ i.reg = 0
       /\ HasMemoryOffset(i) /\ ImmediateIsWhole(i)
    THEN StoreImmediate(m, i, ModrmAddress(m, i)) ELSE Refused(m)

emulate_fs_absolute_mov_immediate_store(m, i) ==
    IF /\ i.op \in {"mov_imm8", "mov_imm"} /\ i.reg = 0
       /\ Absolute(i) /\ ImmediateIsWhole(i)
    THEN StoreImmediate(m, i, AbsoluteAddress(i)) ELSE Refused(m)

emulate_fs_absolute_movhps_load(m, i) ==
    IF i.op # "movhps" \/ ~Absolute(i) THEN Refused(m)
    ELSE IF ~Mapped(m, AbsoluteAddress(i), 8) THEN Failed(m)
    ELSE Done([m EXCEPT !.xmm[Register(i)] = ReadValue(m, AbsoluteAddress(i), 8)])

Compared(m, addr, len, rhs) ==
    IF ~Mapped(m, addr, len) THEN Failed(m)
    ELSE Done(SubFlags(m, ReadValue(m, addr, len), rhs,
                       (ReadValue(m, addr, len) - rhs) % Modulus(len), len))

emulate_fs_absolute_cmp_imm8(m, i) ==
    IF i.op \notin {"grp8", "grp"} \/ i.reg # 7 \/ ~Absolute(i) THEN Refused(m)
    ELSE IF i.op = "grp8" THEN Compared(m, AbsoluteAddress(i), 1, i.imm % Modulus(1))
    ELSE Compared(m, AbsoluteAddress(i), Width(i),
                  SignExtended(i.imm % Modulus(1), 1, Width(i)))

Added(m, i, lhs, rhs, result, len) ==
    AddFlags(set_host_register64(m, Register(i), result), lhs, rhs, result, len)

emulate_fs_absolute_add(m, i) ==
    IF i.op # "add" \/ ~Absolute(i) THEN Refused(m)
    ELSE IF ~Mapped(m, AbsoluteAddress(i), Width(i)) THEN Failed(m)
    ELSE Added(m, i, host_register64(m, Register(i)) % Modulus(Width(i)),
               ReadValue(m, AbsoluteAddress(i), Width(i)),
               (host_register64(m, Register(i)) + ReadValue(m, AbsoluteAddress(i), Width(i)))
                   % Modulus(Width(i)),
               Width(i))

Subtracted(m, i, lhs, rhs) ==
    SubFlags(set_host_register64(m, i.reg, (lhs - rhs) % Modulus(8)),
             lhs, rhs, (lhs - rhs) % Modulus(8), 8)

\* Only the REX byte 0x48 is taken.
emulate_fs_absolute_sub(m, i) ==
    IF i.op # "sub" \/ ~Absolute(i) \/ ~i.w \/ i.r \/ i.x \/ i.b THEN Refused(m)
    ELSE IF ~Mapped(m, AbsoluteAddress(i), 8) THEN Failed(m)
    ELSE Subtracted(m, i, host_register64(m, i.reg), ReadValue(m, AbsoluteAddress(i), 8))

\* The handlers in the order they are tried; the first one that does not
\* refuse has carried the instruction out or failed.
Attempts(m, i) ==
    << emulate_fs_modrm_mov_load(m, i), emulate_fs_absolute_mov_load(m, i),
       emulate_fs_absolute_movzx_load(m, i), emulate_fs_absolute_mov_store(m, i),
       emulate_fs_modrm_mov_immediate_store(m, i),
       emulate_fs_absolute_mov_immediate_store(m, i),
       emulate_fs_absolute_movhps_load(m, i), emulate_fs_absolute_cmp_imm8(m, i),
       emulate_fs_absolute_add(m, i), emulate_fs_absolute_sub(m, i) >>

FirstOf(m, attempts) ==
    IF \A k \in DOMAIN attempts : attempts[k].status = "refused" THEN Refused(m)
    ELSE attempts[Min({k \in DOMAIN attempts : attempts[k].status # "refused"})]

emulate_fs_relative_native_fault(m, i) ==
    IF fs_segment_prefix_index(i) THEN FirstOf(m, Attempts(m, i)) ELSE Refused(m)

----------------------------------------------------------------------------
(* The processor: what the same instruction does on hardware with the FS    *)
(* base of the task.                                                        *)

OperandLength(i) ==
    CASE i.op \in {"mov_store8", "mov_imm8", "grp8"} -> 1
      [] i.w \/ i.op = "movhps" -> 8
      [] i.data16 # "none" -> 2
      [] OTHER -> 4

\* Index 100 means no index only without REX.X.
IndexOf(i) == i.index + (IF i.x THEN 8 ELSE 0)
BaseOf(i) == (IF i.rm = 4 THEN i.base ELSE i.rm) + (IF i.b THEN 8 ELSE 0)
NoBase(i) == i.rm = 4 /\ i.mode = 0 /\ i.base = 5

EffectiveAddress(m, i) ==
    (FsBase
     + (IF i.rm = 4 /\ IndexOf(i) # 4 THEN m.regs[IndexOf(i)] * 2^i.scale ELSE 0)
     + (IF NoBase(i) THEN 0 ELSE m.regs[BaseOf(i)])
     + (IF i.mode # 0 \/ NoBase(i) THEN i.disp ELSE 0)) % Modulus(8)

\* A write of two bytes keeps the rest of the register, one of four clears it.
RegisterAfter(m, r, len, value) ==
    [m EXCEPT !.regs[r] = IF len = 2 THEN value + (m.regs[r] - (m.regs[r] % Modulus(2)))
                          ELSE value]

\* Without REX the byte registers 4 to 7 are the second bytes of 0 to 3.
StoredValue(m, i) ==
    IF i.op = "mov_store8" /\ ~i.rex /\ i.reg >= 4
    THEN m.regs[i.reg - 4] \div Modulus(1) ELSE m.regs[Register(i)]

Overflows(x, len) == x < -(Modulus(len) \div 2) \/ x >= Modulus(len) \div 2

ProcessorFlags(lhs, rhs, result, len, carry, half, exact) ==
    {f \in StatusFlags :
        CASE f = "CF" -> carry
          [] f = "PF" -> EvenOnes(result)
          [] f = "AF" -> half
          [] f = "ZF" -> result = 0
          [] f = "SF" -> Signed(result, len) < 0
          [] f = "OF" -> Overflows(exact, len)}

HalfByte == 2^(ByteBits \div 2)

FlagsOfAdd(lhs, rhs, len) ==
    ProcessorFlags(lhs, rhs, (lhs + rhs) % Modulus(len), len, lhs + rhs >= Modulus(len),
                   (lhs % HalfByte) + (rhs % HalfByte) >= HalfByte,
                   Signed(lhs, len) + Signed(rhs, len))

FlagsOfSub(lhs, rhs, len) ==
    ProcessorFlags(lhs, rhs, (lhs - rhs) % Modulus(len), len, lhs < rhs,
                   (lhs % HalfByte) < (rhs % HalfByte),
                   Signed(lhs, len) - Signed(rhs, len))

ProcessorOn(m, i, addr, len, lhs) ==
    CASE i.op = "mov_load" -> RegisterAfter(m, Register(i), len, ReadValue(m, addr, len))
      [] i.op = "movzx8" -> RegisterAfter(m, Register(i), len, ReadValue(m, addr, 1))
      [] i.op = "movzx16" -> RegisterAfter(m, Register(i), len, ReadValue(m, addr, 2))
      [] i.op \in {"mov_store8", "mov_store"} -> WriteValue(m, addr, len, StoredValue(m, i))
      [] i.op = "mov_imm8" -> WriteValue(m, addr, 1, i.imm % Modulus(1))
      [] i.op = "mov_imm" -> WriteValue(m, addr, len, SignExtended(i.imm, 4, 8))
      [] i.op = "movhps" -> [m EXCEPT !.xmm[Register(i)] = ReadValue(m, addr, 8)]
      [] i.op \in {"grp8", "grp"} ->
            [m EXCEPT !.flags = FlagsOfSub(ReadValue(m, addr, len),
                                           SignExtended(i.imm % Modulus(1), 1, len), len)]
      [] i.op = "add" ->
            [RegisterAfter(m, Register(i), len, (lhs + ReadValue(m, addr, len)) % Modulus(len))
                EXCEPT !.flags = FlagsOfAdd(lhs, ReadValue(m, addr, len), len)]
      [] i.op = "sub" ->
            [RegisterAfter(m, Register(i), len, (lhs - ReadValue(m, addr, len)) % Modulus(len))
                EXCEPT !.flags = FlagsOfSub(lhs, ReadValue(m, addr, len), len)]

AccessLength(i) == CASE i.op = "movzx8" -> 1 [] i.op = "movzx16" -> 2
                     [] OTHER -> OperandLength(i)

Processor(m, i) ==
    IF ~Mapped(m, EffectiveAddress(m, i), AccessLength(i)) THEN Failed(m)
    ELSE Done(ProcessorOn(m, i, EffectiveAddress(m, i), OperandLength(i),
                          m.regs[Register(i)] % Modulus(OperandLength(i))))

----------------------------------------------------------------------------
(* A fault and its emulation.                                               *)

NoFault == [phase |-> "none"]
Faulted(job) == [phase |-> "faulted", ins |-> job.ins, before |-> job.machine]

FsInit == fault \in {Faulted(job) : job \in Jobs}

\* The registers of the task are the emulated ones; a refused instruction and
\* a failed access end the run with an error and leave the task as it was.
Emulate ==
    /\ fault.phase = "faulted"
    /\ fault' = [phase |-> "emulated", ins |-> fault.ins, before |-> fault.before,
                 after |-> emulate_fs_relative_native_fault(fault.before, fault.ins)]

----------------------------------------------------------------------------
(* Properties.                                                              *)

\* Encodings the emulation reads differently from the processor: a two byte
\* operand is taken for four bytes, the second byte of a register for the
\* first byte of another, and the index R12 for no index.
ReadDifferently(i) ==
    \/ i.data16 # "none" /\ ~i.w /\ i.op \in {"mov_load", "movzx8", "movzx16", "mov_store",
                                              "grp", "add"}
    \/ i.op = "mov_store8" /\ ~i.rex /\ i.reg >= 4
    \/ i.rm = 4 /\ i.index = 4 /\ i.x

Emulated == fault.phase = "emulated" /\ fault.after.status # "refused"

\* An instruction the runtime emulates after a fault or a trap changes the
\* registers, the vector registers, the memory and the flags as the processor
\* would, at the address of the task's thread-local storage, and fails exactly
\* when the processor would fault (emulate_fs_relative_native_fault); the
\* encodings of ReadDifferently excepted.  The flags are those apply_add_flags
\* and apply_sub_flags compute from the bits of operands of one, four and
\* eight bytes.
EmulationIsTheProcessors ==
    Emulated /\ ~ReadDifferently(fault.ins) =>
        fault.after = Processor(fault.before, fault.ins)
=============================================================================
