------------------------------- MODULE IForm -------------------------------
(***************************************************************************)
(* The instruction representation of quantum-jit/src/iform.rs that the     *)
(* decoder produces and the lifter consumes.  Numbers inside an            *)
(* instruction (displacements, immediates) stay little-endian byte strings *)
(* so that an i64 keeps its width.                                         *)
(***************************************************************************)
EXTENDS Integers, Sequences, SequencesExt

(* Widening of a little-endian byte string to n bytes, and its i32 value.  *)
SignExtend(bs, n) == bs \o [i \in 1..(n - Len(bs)) |-> IF Last(bs) >= 128 THEN 255 ELSE 0]
ZeroExtend(bs, n) == bs \o [i \in 1..(n - Len(bs)) |-> 0]
I32(bs) ==
  LET s == SignExtend(bs, 4)
  IN  s[1] + 256 * s[2] + 65536 * s[3] + 16777216 * (IF s[4] >= 128 THEN s[4] - 256 ELSE s[4])

GpReg == 0..15
NoReg == -1
OpSize == {1, 2, 4, 8}

(* Operand: an immediate is an i64, a displacement an i32; a memory        *)
(* operand's segment is "none", "fs" or "gs".                              *)
Reg(n, size) == [k |-> "reg", n |-> n, size |-> size]
XmmReg(n, size) == [k |-> "xmm", n |-> n, size |-> size]
Imm(v, size) == [k |-> "imm", v |-> v, size |-> size]
Mem(base, index, scale, disp, size, seg) ==
  [k |-> "mem", base |-> base, index |-> index, scale |-> scale, disp |-> disp, size |-> size, seg |-> seg]
RipRel(disp, size) == [k |-> "riprel", disp |-> disp, size |-> size]

Cond == <<"O", "NO", "B", "NB", "E", "NE", "BE", "A", "S", "NS", "P", "NP", "L", "NL", "LE", "G">>

(* An operation is a tuple: its name, and the condition or the lane width  *)
(* it carries.                                                             *)
PlainOps ==
  { "mov", "movzx", "movsx", "movsxd", "lea", "xchg", "push", "pop", "pushfq", "popfq", "add", "adc",
    "sub", "sbb", "inc", "dec", "neg", "mul", "imul", "div", "idiv", "cdq", "cqo", "cwde", "and", "or",
    "xor", "not", "test", "cmp", "shl", "shr", "sar", "rol", "ror", "rcl", "rcr", "bt", "bts", "btr",
    "btc", "bsf", "bsr", "xadd", "cmpxchg", "call", "call_indirect", "ret", "ret_imm", "jmp",
    "jmp_indirect", "leave", "int3", "int", "ud2", "hlt", "syscall", "cpuid", "rdtsc", "cld", "std",
    "clc", "stc", "cmc", "movs", "stos", "nop", "movq_xmm", "movsd_xmm", "movss_xmm", "movdq_xmm",
    "pxor", "pand", "por", "add_scalar", "sub_scalar", "mul_scalar", "div_scalar", "cvt_int_to_scalar",
    "cvt_scalar_to_int", "cvt_scalar_to_int_trunc", "cvt_ss_to_sd", "cvt_sd_to_ss", "ucomis_scalar",
    "min_scalar", "max_scalar", "sqrt_scalar", "bswap", "paddq", "psubq", "paddd", "psubd", "paddw",
    "psubw", "paddb", "psubb", "add_packed", "sub_packed", "mul_packed", "div_packed", "pshufd",
    "pmullw", "pslldq", "psrldq", "pmovmskb", "unhandled" }
Op ==
  {<<n>> : n \in PlainOps} \cup ({"cmov", "set", "jcc"} \X {Cond[i] : i \in 1..16})
    \cup ({"pcmpeq", "psll", "psrl", "psra", "punpck_low", "punpck_high"} \X OpSize)

(* make: an instruction before its length and address are known.           *)
Inst(op, operands, rip, len) == [op |-> op, operands |-> operands, guest_rip |-> rip, len |-> len]
=============================================================================
