-------------------------------- MODULE Alu --------------------------------
(***************************************************************************)
(* The arithmetic of src/cpu.c and its flags: addition, subtraction,       *)
(* decimal adjustment, the sums of register pairs, and the rotations and   *)
(* shifts of the CB table.  Pure operators; CpuProofs says what they       *)
(* compute.  AND, OR, XOR, BIT, RES, SET and the fetch of operands are     *)
(* left out.                                                               *)
(***************************************************************************)
EXTENDS Integers

Byte == 0 .. 255

\* The accumulator, or the operand of a rotation, with the four flags of F.
AluState == [a : Byte, z : BOOLEAN, n : BOOLEAN, h : BOOLEAN, c : BOOLEAN]

Bit(b) == IF b THEN 1 ELSE 0

Result(a, n, h, c) == [a |-> a, z |-> a = 0, n |-> n, h |-> h, c |-> c]

\* alu_add and alu_adc; the half carry is the one out of the lower digit.
Sum(s, v, k) == Result((s.a + v + k) % 256, FALSE,
                       (s.a % 16) + (v % 16) + k > 15, s.a + v + k > 255)
Add(s, v) == Sum(s, v, 0)
Adc(s, v) == Sum(s, v, Bit(s.c))

\* alu_sub, alu_sbc and alu_cp, which keeps the accumulator.
Difference(s, v, k) == Result((s.a - v - k) % 256, TRUE,
                              (s.a % 16) - (v % 16) - k < 0, s.a - v - k < 0)
Sub(s, v) == Difference(s, v, 0)
Sbc(s, v) == Difference(s, v, Bit(s.c))
Cp(s, v)  == [Sub(s, v) EXCEPT !.a = s.a]

\* alu_inc and alu_dec, for any register, leave the carry.
Inc(s) == Result((s.a + 1) % 256, FALSE, s.a % 16 = 15, s.c)
Dec(s) == Result((s.a - 1) % 256, TRUE, s.a % 16 = 0, s.c)

\* daa: back to two decimal digits after an addition or a subtraction.
Adjust(s) == (IF s.h \/ (~s.n /\ s.a % 16 > 9) THEN 6 ELSE 0) +
             (IF s.c \/ (~s.n /\ s.a > 153) THEN 96 ELSE 0)

Daa(s) == Result(IF s.n THEN (s.a - Adjust(s)) % 256 ELSE (s.a + Adjust(s)) % 256,
                 s.n, FALSE, s.c \/ (~s.n /\ s.a > 153))

\* add_hl and add_sp_e: the sum, and the carries out of bits 11 and 15, or,
\* with the signed byte e as ue, out of bits 3 and 7.
AddHl(hl, v) == [sum |-> (hl + v) % 65536,
                 h |-> (hl % 4096) + (v % 4096) > 4095, c |-> hl + v > 65535]

Signed(ue) == IF ue > 127 THEN ue - 256 ELSE ue

AddSp(sp, ue) == [sum |-> (sp + Signed(ue)) % 65536,
                  h |-> (sp % 16) + (ue % 16) > 15, c |-> (sp % 256) + ue > 255]
-----------------------------------------------------------------------------
\* cb_rlc to cb_srl: the bit that is pushed out goes to the carry.
Left(s, low)   == Result(((2 * s.a) % 256) + low, FALSE, FALSE, s.a > 127)
Right(s, high) == Result((s.a \div 2) + 128 * high, FALSE, FALSE, s.a % 2 = 1)

Rlc(s)  == Left(s, s.a \div 128)
Rl(s)   == Left(s, Bit(s.c))
Sla(s)  == Left(s, 0)
Rrc(s)  == Right(s, s.a % 2)
Rr(s)   == Right(s, Bit(s.c))
Sra(s)  == Right(s, s.a \div 128)
Srl(s)  == Right(s, 0)
Swap(s) == Result(16 * (s.a % 16) + (s.a \div 16), FALSE, FALSE, FALSE)
=============================================================================
