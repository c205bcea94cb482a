------------------------- MODULE InsnEncoding -------------------------
(***************************************************************************)
(* The MATCH_/MASK_ pairs of src/env/arch-test/encoding.h.  A pair is the  *)
(* partial function from the fields of an instruction word that the mask   *)
(* covers to the values the match demands: the fields outside its domain   *)
(* are operands.  A 32-bit word has the fields q (bits 1:0), op (6:2), rd, *)
(* f3, rs1, rs2, b25, b26 and f5 (31:27), a 16-bit one q, c3 (15:13), b12, *)
(* h1 (11:10), h2 (9:7), l1 (6:5) and l2 (4:2).                            *)
(***************************************************************************)
EXTENDS Integers, TLC

Named(t) == { <<<<n>>, t[n]>> : n \in DOMAIN t }
Suffixed(t, w) == { <<<<n, w>>, t[n]>> : n \in DOMAIN t }

(* The masks of the 32-bit words: opcode; funct3 (0x707f); all of funct7   *)
(* (0xfe00707f); the shifts of a 6-bit amount (0xfc00707f).                *)
Op(o) == [q |-> o % 4, op |-> o \div 4]
I(o, f3) == Op(o) @@ [f3 |-> f3]
R(o, f3, f7) == I(o, f3) @@ [b25 |-> f7 % 2, b26 |-> (f7 \div 2) % 2, f5 |-> f7 \div 4]
Shift(o, f3, f5) == I(o, f3) @@ [b26 |-> 0, f5 |-> f5]

Base == Named(
  [beq |-> I(99, 0), bne |-> I(99, 1), blt |-> I(99, 4), bge |-> I(99, 5),
   bltu |-> I(99, 6), bgeu |-> I(99, 7),
   jalr |-> I(103, 0), jal |-> Op(111), lui |-> Op(55), auipc |-> Op(23),
   addi |-> I(19, 0), slli |-> Shift(19, 1, 0), slti |-> I(19, 2), sltiu |-> I(19, 3),
   xori |-> I(19, 4), srli |-> Shift(19, 5, 0), srai |-> Shift(19, 5, 8),
   ori |-> I(19, 6), andi |-> I(19, 7),
   add |-> R(51, 0, 0), sub |-> R(51, 0, 32), sll |-> R(51, 1, 0), slt |-> R(51, 2, 0),
   sltu |-> R(51, 3, 0), xor |-> R(51, 4, 0), srl |-> R(51, 5, 0), sra |-> R(51, 5, 32),
   or |-> R(51, 6, 0), and |-> R(51, 7, 0),
   addiw |-> I(27, 0), slliw |-> R(27, 1, 0), srliw |-> R(27, 5, 0), sraiw |-> R(27, 5, 32),
   addw |-> R(59, 0, 0), subw |-> R(59, 0, 32), sllw |-> R(59, 1, 0),
   srlw |-> R(59, 5, 0), sraw |-> R(59, 5, 32),
   lb |-> I(3, 0), lh |-> I(3, 1), lw |-> I(3, 2), ld |-> I(3, 3),
   lbu |-> I(3, 4), lhu |-> I(3, 5), lwu |-> I(3, 6),
   sb |-> I(35, 0), sh |-> I(35, 1), sw |-> I(35, 2), sd |-> I(35, 3),
   fence |-> I(15, 0), fence_i |-> I(15, 1)])

MulDiv == Named(
  [mul |-> R(51, 0, 1), mulh |-> R(51, 1, 1), mulhsu |-> R(51, 2, 1), mulhu |-> R(51, 3, 1),
   div |-> R(51, 4, 1), divu |-> R(51, 5, 1), rem |-> R(51, 6, 1), remu |-> R(51, 7, 1),
   mulw |-> R(59, 0, 1), divw |-> R(59, 4, 1), divuw |-> R(59, 5, 1),
   remw |-> R(59, 6, 1), remuw |-> R(59, 7, 1)])

(* Atomics leave the bits 26:25 (aq, rl) free; a load-reserved has no rs2. *)
Atomic(f3) ==
  LET amo(f5) == I(47, f3) @@ [f5 |-> f5]
  IN  [amoadd |-> amo(0), amoswap |-> amo(1), lr |-> amo(2) @@ [rs2 |-> 0], sc |-> amo(3),
       amoxor |-> amo(4), amoor |-> amo(8), amoand |-> amo(12), amomin |-> amo(16),
       amomax |-> amo(20), amominu |-> amo(24), amomaxu |-> amo(28)]
Atomics == Suffixed(Atomic(2), "w") \cup Suffixed(Atomic(3), "d")

(* The privileged instructions fix the whole word, except sfence.vma.      *)
SystemInsns ==
  LET priv(f7, rs2) == R(115, 0, f7) @@ [rd |-> 0, rs1 |-> 0, rs2 |-> rs2]
  IN  Named([ecall |-> priv(0, 0), ebreak |-> priv(0, 1), uret |-> priv(0, 2),
             sret |-> priv(8, 2), mret |-> priv(24, 2), dret |-> priv(61, 18),
             sfence_vma |-> R(115, 0, 9) @@ [rd |-> 0], wfi |-> priv(8, 5),
             csrrw |-> I(115, 1), csrrs |-> I(115, 2), csrrc |-> I(115, 3),
             csrrwi |-> I(115, 5), csrrsi |-> I(115, 6), csrrci |-> I(115, 7)])

(* Floating point: the format w is the pair of bits 26:25, and rs2 tells   *)
(* the other format or the integer width of a conversion.                  *)
Format == [s |-> 0, d |-> 1, q |-> 3]
FusedFaulty(o, w) == Op(o) @@ [b25 |-> Format[w] % 2]
Fused(o, w) == Op(o) @@ [b25 |-> Format[w] % 2, b26 |-> Format[w] \div 2]
Fp(w, f5) == Fused(83, w) @@ [f5 |-> f5]

FpArith(w) == Suffixed(
  [fadd |-> Fp(w, 0), fsub |-> Fp(w, 1), fmul |-> Fp(w, 2), fdiv |-> Fp(w, 3),
   fsgnj |-> Fp(w, 4) @@ [f3 |-> 0], fsgnjn |-> Fp(w, 4) @@ [f3 |-> 1],
   fsgnjx |-> Fp(w, 4) @@ [f3 |-> 2], fmin |-> Fp(w, 5) @@ [f3 |-> 0],
   fmax |-> Fp(w, 5) @@ [f3 |-> 1], fsqrt |-> Fp(w, 11) @@ [rs2 |-> 0]], w)
FpConvert(w) == { <<<<"fcvt", w, v>>, Fp(w, 8) @@ [rs2 |-> Format[v]]>> :
                    v \in DOMAIN Format \ {w} }
FpCompare(w) == Suffixed([fle |-> Fp(w, 20) @@ [f3 |-> 0], flt |-> Fp(w, 20) @@ [f3 |-> 1],
                          feq |-> Fp(w, 20) @@ [f3 |-> 2]], w)

(* Between the integer widths W, WU, L and LU and a format, and the moves  *)
(* of the bits themselves (fmv_x_w and fmv_w_x and their like).            *)
IntWidth == [w |-> 0, wu |-> 1, l |-> 2, lu |-> 3]
FpToInt(w) ==
  { <<<<"fcvt", n, w>>, Fp(w, 24) @@ [rs2 |-> IntWidth[n]]>> : n \in DOMAIN IntWidth }
    \cup Suffixed([fmv_x |-> Fp(w, 28) @@ [rs2 |-> 0, f3 |-> 0],
                   fclass |-> Fp(w, 28) @@ [rs2 |-> 0, f3 |-> 1]], w)
IntToFp(w) ==
  { <<<<"fcvt", w, n>>, Fp(w, 26) @@ [rs2 |-> IntWidth[n]]>> : n \in DOMAIN IntWidth }
    \cup Suffixed([fmv_from_x |-> Fp(w, 30) @@ [rs2 |-> 0, f3 |-> 0]], w)

FpMemory == Named([flw |-> I(7, 2), fld |-> I(7, 3), flq |-> I(7, 4),
                   fsw |-> I(39, 2), fsd |-> I(39, 3), fsq |-> I(39, 4)])
FpFused(w) == Suffixed([fmadd |-> Fused(67, w), fmsub |-> Fused(71, w),
                        fnmsub |-> Fused(75, w), fnmadd |-> Fused(79, w)], w)

(* Compressed instructions.                                                *)
C(q, c3) == [q |-> q, c3 |-> c3]
CReg(l1, b12) == C(1, 4) @@ [h1 |-> 3, b12 |-> b12, l1 |-> l1]
Rs2Zero == [l1 |-> 0, l2 |-> 0]
Compressed == Named(
  [c_nop |-> C(1, 0) @@ [b12 |-> 0, h1 |-> 0, h2 |-> 0] @@ Rs2Zero,
   c_addi16sp |-> C(1, 3) @@ [h1 |-> 0, h2 |-> 2],
   c_jr |-> C(2, 4) @@ [b12 |-> 0] @@ Rs2Zero,
   c_jalr |-> C(2, 4) @@ [b12 |-> 1] @@ Rs2Zero,
   c_ebreak |-> C(2, 4) @@ [b12 |-> 1, h1 |-> 0, h2 |-> 0] @@ Rs2Zero,
   c_ld |-> C(0, 3), c_sd |-> C(0, 7), c_addiw |-> C(1, 1), c_ldsp |-> C(2, 3),
   c_sdsp |-> C(2, 7), c_addi4spn |-> C(0, 0), c_fld |-> C(0, 1), c_lw |-> C(0, 2),
   c_flw |-> C(0, 3), c_fsd |-> C(0, 5), c_sw |-> C(0, 6), c_fsw |-> C(0, 7),
   c_addi |-> C(1, 0), c_jal |-> C(1, 1), c_li |-> C(1, 2), c_lui |-> C(1, 3),
   c_srli |-> C(1, 4) @@ [h1 |-> 0], c_srai |-> C(1, 4) @@ [h1 |-> 1],
   c_andi |-> C(1, 4) @@ [h1 |-> 2],
   c_sub |-> CReg(0, 0), c_xor |-> CReg(1, 0), c_or |-> CReg(2, 0), c_and |-> CReg(3, 0),
   c_subw |-> CReg(0, 1), c_addw |-> CReg(1, 1),
   c_j |-> C(1, 5), c_beqz |-> C(1, 6), c_bnez |-> C(1, 7), c_slli |-> C(2, 0),
   c_fldsp |-> C(2, 1), c_lwsp |-> C(2, 2), c_flwsp |-> C(2, 3),
   c_mv |-> C(2, 4) @@ [b12 |-> 0], c_add |-> C(2, 4) @@ [b12 |-> 1],
   c_fsdsp |-> C(2, 5), c_swsp |-> C(2, 6), c_fswsp |-> C(2, 7)])

(* The four opcodes left to extensions, each with six register usages.     *)
Custom ==
  LET rows(o) == [rocc |-> I(o, 0), rs1 |-> I(o, 2), rs1_rs2 |-> I(o, 3),
                  rd |-> I(o, 4), rd_rs1 |-> I(o, 6), rd_rs1_rs2 |-> I(o, 7)]
  IN  Suffixed(rows(11), "custom0") \cup Suffixed(rows(43), "custom1")
        \cup Suffixed(rows(91), "custom2") \cup Suffixed(rows(123), "custom3")

(* The list DECLARE_INSN hands to whoever includes the header.             *)
Insns == Base \cup MulDiv \cup Atomics \cup SystemInsns \cup FpMemory
           \cup Compressed \cup Custom
           \cup UNION { FpArith(w) \cup FpConvert(w) \cup FpCompare(w) \cup FpToInt(w)
                          \cup IntToFp(w) \cup FpFused(w) : w \in DOMAIN Format }
=============================================================================
