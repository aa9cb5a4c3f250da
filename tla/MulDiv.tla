------------------------------- MODULE MulDiv -------------------------------
(***************************************************************************)
(* The iterative multiply/divide unit of execute.sv at bit precision, for  *)
(* registers of W bits (64 in the code) and the *W instructions on their   *)
(* low half.  The instruction in EX and its operands hold still from the   *)
(* start of the unit to the step that takes the result.                    *)
(***************************************************************************)
EXTENDS Integers

CONSTANTS
    W,          \* width of a register
    MaxStarts,  \* bound on the instructions of a run
    Probes      \* the instructions tried after the first one

ASSUME WAssumption == W \in Nat /\ W >= 2 /\ W % 2 = 0
ASSUME MaxStartsAssumption == MaxStarts \in Nat

H == W \div 2                  \* width of the *W instructions

\* Powers of two, as a function: the widths of the code are parameters here.
pow2[n \in 0..W] == IF n = 0 THEN 1 ELSE 2 * pow2[n - 1]

Words == 0..(pow2[W] - 1)
Ops == {"mul", "div", "divu", "rem", "remu", "mulw", "divw", "divuw", "remw", "remuw"}
Instr == [op: Ops, a: Words, b: Words]
ASSUME ProbesAssumption == Probes \subseteq Instr

VARIABLES
    md_busy, md_result_ready, md_count,
    iter_is_mul, iter_acc, iter_quo, iter_divisor, iter_op_a, iter_op_b,
    iter_sign_q, iter_sign_r,
    iter_mul_final, iter_quo_final, iter_rem_final,
    instr,      \* the instruction in EX (id_ex_reg.alu_op, alu_a, alu_b)
    starts      \* instructions started so far (bookkeeping of the bound)

finals == <<iter_mul_final, iter_quo_final, iter_rem_final>>
divVars == <<iter_quo, iter_divisor, iter_sign_r>>
mdVars == <<md_busy, md_result_ready, md_count, iter_is_mul, iter_acc, divVars, iter_op_a,
            iter_op_b, iter_sign_q, finals, instr, starts>>

\* Every register of the unit is a word and the counter stays within the width.
TypeOK ==
    /\ md_busy \in BOOLEAN /\ md_result_ready \in BOOLEAN /\ md_count \in 0..W
    /\ iter_is_mul \in BOOLEAN /\ iter_sign_q \in BOOLEAN /\ iter_sign_r \in BOOLEAN
    /\ {iter_acc, iter_quo, iter_divisor, iter_op_a, iter_op_b,
        iter_mul_final, iter_quo_final, iter_rem_final} \subseteq Words
    /\ instr \in Instr

Init ==
    /\ md_busy = FALSE /\ md_result_ready = FALSE /\ md_count = 0
    /\ iter_is_mul = FALSE /\ iter_sign_q = FALSE /\ iter_sign_r = FALSE
    /\ iter_acc = 0 /\ iter_quo = 0 /\ iter_divisor = 0 /\ iter_op_a = 0 /\ iter_op_b = 0
    /\ iter_mul_final = 0 /\ iter_quo_final = 0 /\ iter_rem_final = 0
    /\ instr = [op |-> "mul", a |-> 0, b |-> 0] /\ starts = 0

----------------------------------------------------------------------------
\* Arithmetic on words.

word(x)      == x % pow2[W]
neg(x)       == word(pow2[W] - x)                 \* two's complement
msb(x)       == x >= pow2[W - 1]
low(x)       == x % pow2[H]
signed(x, n) == IF x >= pow2[n - 1] THEN x - pow2[n] ELSE x
sext(x)      == word(signed(low(x), H))       \* the low half, sign extended
abs(x)       == IF msb(x) THEN neg(x) ELSE x
odd(x)       == x % 2 = 1

MulOps    == {"mul", "mulw"}
SignedOps == {"div", "rem", "divw", "remw"}

\* init_op_a and init_op_b: the operand as the instruction sees it.
operand(op, x) == IF op \in {"mulw", "divw", "remw"} THEN sext(x)
                  ELSE IF op \in {"divuw", "remuw"} THEN low(x) ELSE x

\* {acc[62:0], op_a[63]} and the trial subtraction of one division step.
div_shifted == word(2 * iter_acc) + (IF msb(iter_op_a) THEN 1 ELSE 0)
div_trial   == word(div_shifted - iter_divisor)
div_fits    == ~msb(div_trial)

----------------------------------------------------------------------------
\* md_start: a multiplication works on absolute values, ...
MulStart(i) ==
    LET a == operand(i.op, i.a)
        b == operand(i.op, i.b)
    IN  /\ iter_is_mul' = TRUE /\ iter_acc' = 0
        /\ iter_op_a' = abs(a) /\ iter_op_b' = abs(b)
        /\ iter_sign_q' = (msb(a) # msb(b))
        /\ md_count' = IF i.op = "mulw" THEN H ELSE W
        /\ UNCHANGED divVars

\* Mutant: a division starts from what the last instruction left in iter_acc.
DivStartKeepsAcc(i) ==
    LET a == operand(i.op, i.a)
        b == operand(i.op, i.b)
        s == i.op \in SignedOps
    IN  /\ iter_is_mul' = FALSE /\ iter_quo' = 0
        /\ iter_op_a' = (IF s THEN abs(a) ELSE a)
        /\ iter_divisor' = (IF s THEN abs(b) ELSE b)
        /\ iter_sign_q' = (s /\ msb(a) # msb(b)) /\ iter_sign_r' = (s /\ msb(a))
        /\ md_count' = W
        /\ UNCHANGED <<iter_op_b, iter_acc>>

\* ... a signed division too.
DivStart(i) ==
    LET a == operand(i.op, i.a)
        b == operand(i.op, i.b)
        s == i.op \in SignedOps
    IN  /\ iter_is_mul' = FALSE /\ iter_acc' = 0 /\ iter_quo' = 0
        /\ iter_op_a' = (IF s THEN abs(a) ELSE a)
        /\ iter_divisor' = (IF s THEN abs(b) ELSE b)
        /\ iter_sign_q' = (s /\ msb(a) # msb(b))
        /\ iter_sign_r' = (s /\ msb(a))
        /\ md_count' = W
        /\ UNCHANGED iter_op_b

Start(i) ==
    /\ ~md_busy /\ ~md_result_ready
    /\ instr' = i
    /\ md_busy' = TRUE
    /\ IF i.op \in MulOps THEN MulStart(i) ELSE DivStart(i)
    /\ UNCHANGED <<md_result_ready, finals>>

\* Mutant: the multiplier is not shifted.
MulStepNoShift ==
    /\ iter_acc' = word(iter_acc + (IF odd(iter_op_b) THEN iter_op_a ELSE 0))
    /\ iter_op_a' = word(2 * iter_op_a)
    /\ UNCHANGED <<iter_op_b, divVars>>

\* One iteration: shift and add, ...
MulStep ==
    /\ iter_acc' = word(iter_acc + (IF odd(iter_op_b) THEN iter_op_a ELSE 0))
    /\ iter_op_a' = word(2 * iter_op_a)
    /\ iter_op_b' = iter_op_b \div 2
    /\ UNCHANGED divVars

\* ... or one step of restoring division.
DivStep ==
    /\ iter_acc' = IF div_fits THEN div_trial ELSE div_shifted
    /\ iter_quo' = word(2 * iter_quo) + (IF div_fits THEN 1 ELSE 0)
    /\ iter_op_a' = word(2 * iter_op_a)
    /\ UNCHANGED <<iter_op_b, iter_divisor, iter_sign_r>>

\* The last iteration also leaves the signed results.
Finish ==
    IF iter_is_mul
    THEN /\ iter_mul_final' = IF iter_sign_q THEN neg(iter_acc') ELSE iter_acc'
         /\ UNCHANGED <<iter_quo_final, iter_rem_final>>
    ELSE LET rem == IF msb(iter_acc') THEN word(iter_acc' + iter_divisor) ELSE iter_acc'
         IN  /\ iter_quo_final' = IF iter_sign_q THEN neg(iter_quo') ELSE iter_quo'
             /\ iter_rem_final' = IF iter_sign_r THEN neg(rem) ELSE rem
             /\ UNCHANGED iter_mul_final

\* Mutant: the last iteration does not stop the unit.
IterateForever ==
    /\ md_busy
    /\ md_count' = md_count - 1
    /\ IF iter_is_mul THEN MulStep ELSE DivStep
    /\ UNCHANGED <<md_busy, md_result_ready, iter_is_mul, iter_sign_q, finals, instr>>

Iterate ==
    /\ md_busy
    /\ md_count' = md_count - 1
    /\ IF iter_is_mul THEN MulStep ELSE DivStep
    /\ md_busy' = (md_count # 1)
    /\ md_result_ready' = (md_count = 1 \/ md_result_ready)
    /\ IF md_count = 1 THEN Finish ELSE UNCHANGED finals
    /\ UNCHANGED <<iter_is_mul, iter_sign_q, instr>>

\* The step that takes the result.
Take ==
    /\ md_result_ready
    /\ md_result_ready' = FALSE
    /\ UNCHANGED <<md_busy, md_count, iter_is_mul, iter_acc, divVars, iter_op_a, iter_op_b,
                   iter_sign_q, finals, instr>>

\* Mutant: divisions by zero and overflows are left to the unit.
AluResultNoZero(op, a, b) ==
    CASE op = "mul"                 -> iter_mul_final
      [] op = "mulw"                -> sext(iter_mul_final)
      [] op \in {"div", "divu"}     -> iter_quo_final
      [] op \in {"rem", "remu"}     -> iter_rem_final
      [] op \in {"divw", "divuw"}   -> sext(iter_quo_final)
      [] op \in {"remw", "remuw"}   -> sext(iter_rem_final)

\* alu_result of an instruction: division by zero and the signed overflow are
\* decided on the operands, everything else by the unit.
alu_result(op, a, b) ==
    LET zero  == b = 0
        zerow == low(b) = 0
        over  == a = pow2[W - 1] /\ b = pow2[W] - 1
        overw == low(a) = pow2[H - 1] /\ low(b) = pow2[H] - 1
    IN  CASE op = "mul"   -> iter_mul_final
          [] op = "div"   -> IF zero THEN pow2[W] - 1 ELSE IF over THEN a ELSE iter_quo_final
          [] op = "divu"  -> IF zero THEN pow2[W] - 1 ELSE iter_quo_final
          [] op = "rem"   -> IF zero THEN a ELSE IF over THEN 0 ELSE iter_rem_final
          [] op = "remu"  -> IF zero THEN a ELSE iter_rem_final
          [] op = "mulw"  -> sext(iter_mul_final)
          [] op = "divw"  -> sext(IF zerow THEN pow2[H] - 1 ELSE IF overw THEN pow2[H - 1]
                                  ELSE iter_quo_final)
          [] op = "divuw" -> sext(IF zerow THEN pow2[H] - 1 ELSE iter_quo_final)
          [] op = "remw"  -> sext(IF zerow THEN a ELSE IF overw THEN 0 ELSE iter_rem_final)
          [] op = "remuw" -> sext(IF zerow THEN a ELSE iter_rem_final)

Next == \/ /\ starts < MaxStarts /\ starts' = starts + 1
           /\ \E i \in (IF starts = 0 THEN Instr ELSE Probes) : Start(i)
        \/ Iterate /\ UNCHANGED starts
        \/ Take /\ UNCHANGED starts

Spec == Init /\ [][Next]_mdVars

----------------------------------------------------------------------------
\* What the RISC-V M extension asks for.

trunc(x, y) == LET q == (IF x < 0 THEN -x ELSE x) \div (IF y < 0 THEN -y ELSE y)
               IN  IF (x < 0) # (y < 0) THEN -q ELSE q
quotient(x, y)  == IF y = 0 THEN -1 ELSE trunc(x, y)
remainder(x, y) == IF y = 0 THEN x ELSE x - y * trunc(x, y)

Reference(op, a, b) ==
    CASE op = "mul"   -> word(a * b)
      [] op = "div"   -> word(quotient(signed(a, W), signed(b, W)))
      [] op = "divu"  -> word(quotient(a, b))
      [] op = "rem"   -> word(remainder(signed(a, W), signed(b, W)))
      [] op = "remu"  -> word(remainder(a, b))
      [] op = "mulw"  -> sext(a * b)
      [] op = "divw"  -> sext(quotient(signed(low(a), H), signed(low(b), H)))
      [] op = "divuw" -> sext(quotient(low(a), low(b)))
      [] op = "remw"  -> sext(remainder(signed(low(a), H), signed(low(b), H)))
      [] op = "remuw" -> sext(remainder(low(a), low(b)))

----------------------------------------------------------------------------
\* Properties.

\* README 8.3: what an instruction takes from the unit is the result the ISA
\* defines, divisions by zero and the signed overflow included, whatever was
\* computed before; for an unsigned division if the divisor is at most 2^(W-1).
ResultRight ==
    md_result_ready =>
        \/ instr.op \in {"divu", "remu"} /\ instr.b > pow2[W - 1]
        \/ alu_result(instr.op, instr.a, instr.b) = Reference(instr.op, instr.a, instr.b)

\* README 8.3, boundary conditions "as RISC-V demands": without the exception.
UnsignedRight ==
    md_result_ready =>
        alu_result(instr.op, instr.a, instr.b) = Reference(instr.op, instr.a, instr.b)

\* The operands of the running instruction as the unit sees them.
OpA == IF instr.op \in MulOps \cup SignedOps THEN abs(operand(instr.op, instr.a))
       ELSE operand(instr.op, instr.a)
OpB == IF instr.op \in MulOps \cup SignedOps THEN abs(operand(instr.op, instr.b))
       ELSE operand(instr.op, instr.b)

\* Shift and add: the bits added so far and the bits to come make up the product.
ProductInvariant ==
    md_busy /\ iter_is_mul =>
        /\ word(iter_acc + iter_op_a * iter_op_b) = word(OpA * OpB)
        /\ iter_op_b < pow2[md_count]

\* Restoring division (README 8.3): quotient and partial remainder account for the
\* bits consumed, and the partial remainder stays below the divisor.
DivisionInvariant ==
    md_busy /\ ~iter_is_mul /\ OpB \in 1..pow2[W - 1] =>
        /\ iter_quo * OpB + iter_acc = OpA \div pow2[md_count]
        /\ iter_acc < OpB
        /\ iter_op_a = word(OpA * pow2[W - md_count])
=============================================================================
