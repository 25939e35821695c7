-------------------------------- MODULE Bpf --------------------------------
(***************************************************************************)
(* The BPF machine that Program.Match runs on a packet, and the validation *)
(* a program passes before Compile returns it (pcapint_filter_with_aux_    *)
(* data, pcapint_valid_insn and pcapint_validate_filter in                 *)
(* internal/bpf.go).  The module is operators only: a program is a         *)
(* function from 0 .. n - 1 to instructions, and one step of the machine   *)
(* maps a machine state to the next one.                                   *)
(*                                                                         *)
(* An opcode is spelled by a class and a function; "src" says whether the  *)
(* operand is the constant k or the register x, and "size" is the width of *)
(* a load in bytes.                                                        *)
(***************************************************************************)
EXTENDS Integers

CONSTANTS
  ByteBase,       \* values of a byte (256)
  WordBits,       \* bits of a register (32)
  MaxInsns,       \* length of the longest program (3060000)
  MemSlots,       \* scratch memory words (16)
  MaxBack,        \* backward jumps one run may take (64)
  BitAnd(_, _), BitOr(_, _), BitXor(_, _),   \* bitwise operations on words
  Shl(_, _), Shr(_, _)                       \* shifts by less than WordBits

W == ByteBase * ByteBase * ByteBase * ByteBase
Word == 0 .. W - 1
Byte == 0 .. ByteBase - 1
Slot == 0 .. MemSlots - 1

ASSUME BpfAssumption ==
  /\ ByteBase \in Nat \ {0, 1}
  /\ WordBits \in Nat \ {0}
  /\ MaxInsns \in Nat \ {0} /\ 2 * MaxInsns < W
  /\ MemSlots \in Nat \ {0}
  /\ MaxBack \in Nat
  /\ \A a, b \in Word : {BitAnd(a, b), BitOr(a, b), BitXor(a, b)} \subseteq Word
  /\ \A a \in Word, v \in 0 .. WordBits - 1 : {Shl(a, v), Shr(a, v)} \subseteq Word

(* What a packet buffer of cap bytes may hold. *)
Buffer(cap) == [0 .. cap - 1 -> Byte]

(* What k means as a signed number: only "ja" reads it so. *)
Signed(k) == IF 2 * k >= W THEN k - W ELSE k

(***************************************************************************)
(* The opcodes: the validator and the machine know the same ones.          *)
(***************************************************************************)
AluFn == {"add", "sub", "mul", "div", "mod", "and", "or", "xor", "lsh", "rsh"}
CondFn == {"jeq", "jgt", "jge", "jset"}

OpClass == {"ld", "ldx", "st", "stx", "alu", "jmp", "ret", "misc", "nop"}
OpFn == AluFn \cup CondFn
          \cup {"abs", "ind", "imm", "len", "mem", "msh", "st", "neg", "ja", "ret", "tax", "txa"}

InsnType == [class : OpClass, fn : OpFn, src : {"k", "x", "a"}, size : Nat,
             jt : Byte, jf : Byte, k : Word]

Known(i) ==
  \/ i.class = "ld"  /\ i.fn \in {"abs", "ind"} /\ i.size \in {1, 2, 4}
  \/ i.class = "ldx" /\ i.fn = "msh"
  \/ i.class \in {"ld", "ldx"} /\ i.fn \in {"imm", "len", "mem"}
  \/ i.class \in {"st", "stx"}
  \/ i.class = "alu" /\ (i.fn = "neg" \/ (i.fn \in AluFn /\ i.src \in {"k", "x"}))
  \/ i.class = "jmp" /\ (i.fn = "ja" \/ (i.fn \in CondFn /\ i.src \in {"k", "x"}))
  \/ i.class = "ret" /\ i.src \in {"k", "a"}
  \/ i.class = "misc" /\ i.fn \in {"tax", "txa"}

ReadsPacket(i) == i.class \in {"ld", "ldx"} /\ i.fn \in {"abs", "ind", "msh"}
UsesSlot(i)    == \/ i.class \in {"st", "stx"}
                  \/ i.class \in {"ld", "ldx"} /\ i.fn = "mem"
Divides(i)     == i.class = "alu" /\ i.fn \in {"div", "mod"}
Jumps(i)       == i.class = "jmp" /\ i.fn = "ja"

(***************************************************************************)
(* Validation.  The sums are of unsigned words: a target before the        *)
(* program wraps to a number past its end.                                 *)
(***************************************************************************)
ValidInsn(i) ==
  /\ Known(i)
  /\ UsesSlot(i) => i.k < MemSlots
  /\ Divides(i) /\ i.src = "k" => i.k # 0
  /\ i.class = "alu" /\ i.fn \in {"lsh", "rsh"} /\ i.src = "k" => i.k < WordBits

(* Mutant: a jump may go just past the program. *)
ValidJumpPast(i, from, n) ==
  i.class = "jmp" =>
    IF i.fn = "ja"
    THEN Signed(i.k) # -1 /\ (from + i.k + 1) % W <= n
    ELSE from + i.jt + 1 <= n /\ from + i.jf + 1 <= n

ValidJump(i, from, n) ==
  i.class = "jmp" =>
    IF i.fn = "ja"
    THEN Signed(i.k) # -1 /\ (from + i.k + 1) % W < n
    ELSE from + i.jt + 1 < n /\ from + i.jf + 1 < n

Validate(code, n) ==
  /\ n \in 1 .. MaxInsns
  /\ \A from \in 0 .. n - 1 : ValidInsn(code[from]) /\ ValidJump(code[from], from, n)
  /\ code[n - 1].class = "ret"

(***************************************************************************)
(* The machine: program counter, accumulator, index register, scratch      *)
(* memory, backward jumps taken, the result, and whether it has stopped.   *)
(***************************************************************************)
Machine == [pc : Nat, a : Word, x : Word, mem : [Slot -> Word],
            back : 0 .. MaxBack, ret : Word, halted : BOOLEAN]

At(pc, a, x, mem, back) ==
  [pc |-> pc, a |-> a, x |-> x, mem |-> mem, back |-> back,
   ret |-> 0, halted |-> FALSE]

Start == At(0, 0, 0, [j \in Slot |-> 0], 0)

(* The end of a run; a packet that is rejected has the result 0. *)
Stop(s, v) ==
  [pc |-> s.pc, a |-> s.a, x |-> s.x, mem |-> s.mem, back |-> s.back,
   ret |-> v, halted |-> TRUE]

(* Mutant: a load may reach one byte past the packet. *)
AbsInsideNearly(k, size, buflen) == k <= buflen /\ buflen - k >= size - 1

(* The bounds checks of the loads, in unsigned words: the offset k alone,  *)
(* then x in what is left, then the width.                                 *)
AbsInside(k, size, buflen) == k <= buflen /\ buflen - k >= size
IndInside(x, k, size, buflen) ==
  k <= buflen /\ x <= buflen - k /\ buflen - (k + x) >= size

Offset(s, i) == IF i.fn = "ind" THEN (i.k + s.x) % W ELSE i.k
Width(i)     == IF i.fn = "msh" THEN 1 ELSE i.size
Inside(s, i, buflen) ==
  IF i.fn = "ind" THEN IndInside(s.x, i.k, i.size, buflen)
                  ELSE AbsInside(i.k, Width(i), buflen)

Operand(s, i) == IF i.src = "x" THEN s.x ELSE i.k

(* Mutant: one backward jump too many. *)
TooFarLate(s, i, n) ==
  \/ (s.pc + i.k + 1) % W >= n
  \/ Signed(i.k) = -1
  \/ Signed(i.k) < 0 /\ s.back > MaxBack

(* Why an instruction rejects the packet.  Only "ja" may go backward, and  *)
(* only so often.                                                          *)
TooFar(s, i, n) ==
  \/ (s.pc + i.k + 1) % W >= n
  \/ Signed(i.k) = -1
  \/ Signed(i.k) < 0 /\ s.back = MaxBack

Faults(s, i, n, buflen) ==
  \/ ~Known(i)
  \/ ReadsPacket(i) /\ ~Inside(s, i, buflen)
  \/ UsesSlot(i) /\ i.k >= MemSlots
  \/ Divides(i) /\ Operand(s, i) = 0
  \/ Jumps(i) /\ TooFar(s, i, n)

(* Network byte order. *)
Fetch(buf, off, size) ==
  IF size = 1 THEN buf[off]
  ELSE IF size = 2 THEN buf[off] * ByteBase + buf[off + 1]
  ELSE ((buf[off] * ByteBase + buf[off + 1]) * ByteBase
          + buf[off + 2]) * ByteBase + buf[off + 3]

(* "msh" is 4 times the low half of the byte, the length of an IP header. *)
Loaded(s, i, buf, wirelen) ==
  IF i.fn = "imm" THEN i.k
  ELSE IF i.fn = "len" THEN wirelen
  ELSE IF i.fn = "mem" THEN s.mem[i.k]
  ELSE IF i.fn = "msh" THEN (4 * (buf[i.k] % 16)) % W
  ELSE Fetch(buf, Offset(s, i), i.size)

Shifted(fn, a, v) ==
  IF v >= WordBits THEN 0 ELSE IF fn = "lsh" THEN Shl(a, v) ELSE Shr(a, v)

Computed(fn, a, v) ==
  IF fn = "add" THEN (a + v) % W
  ELSE IF fn = "sub" THEN (a - v) % W
  ELSE IF fn = "mul" THEN (a * v) % W
  ELSE IF fn = "neg" THEN (0 - a) % W
  ELSE IF fn = "div" THEN a \div v
  ELSE IF fn = "mod" THEN a % v
  ELSE IF fn = "and" THEN BitAnd(a, v)
  ELSE IF fn = "or"  THEN BitOr(a, v)
  ELSE IF fn = "xor" THEN BitXor(a, v)
  ELSE Shifted(fn, a, v)

Holds(fn, a, v) ==
  \/ fn = "jeq"  /\ a = v
  \/ fn = "jgt"  /\ a > v
  \/ fn = "jge"  /\ a >= v
  \/ fn = "jset" /\ BitAnd(a, v) # 0

(* What an instruction that does not stop the run leaves in the machine. *)
NewA(s, i, buf, wirelen) ==
  IF i.class = "ld" THEN Loaded(s, i, buf, wirelen)
  ELSE IF i.class = "alu" THEN Computed(i.fn, s.a, Operand(s, i))
  ELSE IF i.class = "misc" /\ i.fn = "txa" THEN s.x
  ELSE s.a

NewX(s, i, buf, wirelen) ==
  IF i.class = "ldx" THEN Loaded(s, i, buf, wirelen)
  ELSE IF i.class = "misc" /\ i.fn = "tax" THEN s.a
  ELSE s.x

NewMem(s, i) ==
  IF i.class = "st" THEN [s.mem EXCEPT ![i.k] = s.a]
  ELSE IF i.class = "stx" THEN [s.mem EXCEPT ![i.k] = s.x]
  ELSE s.mem

(* Mutant: backward jumps are not counted. *)
NewBackUncounted(s, i) == s.back

NewBack(s, i) == IF Jumps(i) /\ Signed(i.k) < 0 THEN s.back + 1 ELSE s.back

(* Mutant: a conditional jump counts from itself. *)
TargetFromHere(s, i) ==
  IF i.class # "jmp" THEN s.pc + 1
  ELSE IF i.fn = "ja" THEN s.pc + 1 + Signed(i.k)
  ELSE s.pc + (IF Holds(i.fn, s.a, Operand(s, i)) THEN i.jt ELSE i.jf)

Target(s, i) ==
  IF i.class # "jmp" THEN s.pc + 1
  ELSE IF i.fn = "ja" THEN s.pc + 1 + Signed(i.k)
  ELSE s.pc + 1 + (IF Holds(i.fn, s.a, Operand(s, i)) THEN i.jt ELSE i.jf)

(* One instruction; the end of the program stops the run like a fault. *)
Step(s, code, n, buf, wirelen, buflen) ==
  LET i == code[s.pc]
  IN  IF i.class = "ret" /\ Known(i) THEN Stop(s, IF i.src = "a" THEN s.a ELSE i.k)
      ELSE IF Faults(s, i, n, buflen) \/ Target(s, i) >= n THEN Stop(s, 0)
      ELSE At(Target(s, i), NewA(s, i, buf, wirelen), NewX(s, i, buf, wirelen),
              NewMem(s, i), NewBack(s, i))

(* The reasons a run may have to stop: a "ret", a load outside the packet, *)
(* a division by a zero register or the limit of backward jumps.           *)
Excuse(t, i, len) ==
  \/ i.class = "ret"
  \/ ReadsPacket(i) /\ ~Inside(t, i, len)
  \/ Divides(i) /\ i.src = "x" /\ t.x = 0
  \/ Jumps(i) /\ Signed(i.k) < 0 /\ t.back = MaxBack
=============================================================================
