----------------------------- MODULE BpfLemmas -----------------------------
(***************************************************************************)
(* Facts about the BPF machine that hold in any state: what its arithmetic *)
(* yields, what a load that passes its bounds checks reads, and the three  *)
(* ways one instruction of a validated program can go.                     *)
(***************************************************************************)
EXTENDS Bpf, TLAPS

(* Powers of a base: the arithmetic of words made of bytes. *)
LEMMA Digit ==
  ASSUME NEW b \in Nat \ {0}, NEW m \in Nat \ {0}, NEW x \in 0 .. m - 1, NEW d \in 0 .. b - 1
  PROVE  x * b + d \in 0 .. m * b - 1 /\ m * b \in Nat \ {0}
<1>1. x * b >= 0 /\ x * b \in Int /\ m * b \in Nat \ {0}
  OBVIOUS
<1>2. x * b <= (m - 1) * b /\ (m - 1) * b = m * b - b
  OBVIOUS
<1>. QED  BY <1>1, <1>2

LEMMA Sizes == W \in Nat \ {0} /\ ByteBase <= W /\ Byte \subseteq Word
<1>1. ByteBase \in Nat \ {0, 1}
  BY BpfAssumption
<1>2. ByteBase * ByteBase \in Nat \ {0} /\ ByteBase * ByteBase >= ByteBase
  BY <1>1
<1>3. /\ ByteBase * ByteBase * ByteBase \in Nat \ {0}
      /\ ByteBase * ByteBase * ByteBase >= ByteBase
  BY <1>1, <1>2
<1>4. W \in Nat \ {0} /\ W >= ByteBase
  BY <1>1, <1>3 DEF W
<1>. QED  BY <1>4, <1>1 DEF Byte, Word

LEMMA Residue ==
  ASSUME NEW a \in Int, NEW w \in Nat \ {0}
  PROVE  a % w \in 0 .. w - 1
  OBVIOUS

LEMMA NoWrap ==
  ASSUME NEW w \in Nat \ {0}, NEW a \in 0 .. w - 1
  PROVE  a % w = a
  OBVIOUS

LEMMA Quotient ==
  ASSUME NEW w \in Nat \ {0}, NEW a \in 0 .. w - 1, NEW v \in Nat \ {0}
  PROVE  a \div v \in 0 .. w - 1
<1>1. a = v * (a \div v) + (a % v) /\ a % v \in 0 .. v - 1 /\ a \div v \in Int
  OBVIOUS
<1>2. a \div v >= 0
  <2>1. SUFFICES ASSUME a \div v <= -1 PROVE FALSE
    BY <1>1
  <2>2. v * (a \div v) <= v * (-1)
    BY <2>1, <1>1
  <2>. QED  BY <2>2, <1>1
<1>3. v * (a \div v) >= 1 * (a \div v)
  BY <1>1, <1>2
<1>. QED  BY <1>1, <1>2, <1>3

(* A load that passes the bounds checks lies inside the bytes that were    *)
(* copied, and the sum of its offsets does not wrap.                       *)
LEMMA LoadsInside ==
  ASSUME NEW t \in Machine, NEW i \in InsnType, NEW len \in Word,
         Known(i), ReadsPacket(i), Inside(t, i, len)
  PROVE  /\ Offset(t, i) \in Nat
         /\ i.fn = "msh" => Offset(t, i) = i.k /\ i.k < len
         /\ i.fn # "msh" => i.size \in {1, 2, 4} /\ Offset(t, i) + i.size <= len
<1>. /\ W \in Nat \ {0} /\ i.k \in Nat /\ t.x \in Nat /\ len \in 0 .. W - 1
     /\ i.size \in Nat
  BY Sizes DEF InsnType, Machine, Word
<1>1. CASE i.fn = "msh"
  BY <1>1 DEF Inside, AbsInside, Width, Offset
<1>2. CASE i.fn # "msh"
  <2>1. i.size \in {1, 2, 4} /\ i.fn \in {"abs", "ind"}
    BY <1>2 DEF Known, ReadsPacket
  <2>2. CASE i.fn = "abs"
    BY <2>1, <2>2 DEF Inside, AbsInside, Width, Offset
  <2>3. CASE i.fn = "ind"
    <3>1. i.k + t.x \in 0 .. W - 1 /\ i.k + t.x + i.size <= len
      BY <2>1, <2>3 DEF Inside, IndInside
    <3>2. (i.k + t.x) % W = i.k + t.x
      BY <3>1, NoWrap
    <3>. QED  BY <3>1, <3>2, <2>1, <2>3 DEF Offset
  <2>. QED  BY <2>1, <2>2, <2>3
<1>. QED  BY <1>1, <1>2

LEMMA FetchTyped ==
  ASSUME NEW cap \in Word, NEW b \in Buffer(cap),
         NEW off \in Nat, NEW size \in {1, 2, 4}, off + size <= cap
  PROVE  Fetch(b, off, size) \in Word
<1>. DEFINE D(j) == b[off + j]
<1>. cap \in Nat
  BY Sizes DEF Word
<1>1. \A j \in 0 .. size - 1 : D(j) \in 0 .. ByteBase - 1
  BY DEF Buffer, Byte
<1>2. ByteBase \in Nat \ {0, 1}
  BY BpfAssumption
<1>. HIDE DEF D
<1>3. CASE size = 1
  <2>1. Fetch(b, off, size) = D(0)
    BY <1>3 DEF Fetch, D
  <2>. QED  BY <2>1, <1>1, <1>3, Sizes DEF Byte
<1>4. CASE size = 2
  <2>1. Fetch(b, off, size) = D(0) * ByteBase + D(1)
    BY <1>4 DEF Fetch, D
  <2>2. D(0) * ByteBase + D(1) \in 0 .. ByteBase * ByteBase - 1
    BY <1>1, <1>2, <1>4, Digit
  <2>3. /\ ByteBase * ByteBase \in Nat /\ W \in Nat
        /\ ByteBase * ByteBase * ByteBase * ByteBase >= ByteBase * ByteBase
    <3>1. ByteBase * ByteBase \in Nat \ {0}
      BY <1>2
    <3>2. /\ ByteBase * ByteBase * ByteBase \in Nat \ {0}
          /\ ByteBase * ByteBase * ByteBase >= ByteBase * ByteBase
      BY <3>1, <1>2
    <3>. QED  BY <3>1, <3>2, <1>2, Sizes
  <2>. QED  BY <2>1, <2>2, <2>3 DEF W, Word
<1>5. CASE size = 4
  <2>1. Fetch(b, off, size) = ((D(0) * ByteBase + D(1)) * ByteBase + D(2)) * ByteBase + D(3)
    BY <1>5 DEF Fetch, D
  <2>. DEFINE X == D(0) * ByteBase + D(1)
              Y == X * ByteBase + D(2)
              S == ByteBase * ByteBase
              C == S * ByteBase
  <2>2. X \in 0 .. S - 1 /\ S \in Nat \ {0}
    BY <1>1, <1>2, <1>5, Digit
  <2>. HIDE DEF X, S
  <2>3. Y \in 0 .. C - 1 /\ C \in Nat \ {0}
    BY <2>2, <1>1, <1>2, <1>5, Digit
  <2>. HIDE DEF Y, C
  <2>4. Y * ByteBase + D(3) \in 0 .. C * ByteBase - 1
    BY <2>3, <1>1, <1>2, <1>5, Digit
  <2>5. C * ByteBase = W /\ Fetch(b, off, size) = Y * ByteBase + D(3)
    BY <2>1 DEF W, X, Y, S, C
  <2>. QED  BY <2>4, <2>5 DEF Word
<1>. QED  BY <1>3, <1>4, <1>5

(* Two buffers that agree on the bytes a load reads give the same value. *)
LEMMA FetchSame ==
  ASSUME NEW b, NEW c, NEW len \in Nat, \A j \in 0 .. len - 1 : b[j] = c[j],
         NEW off \in Nat, NEW size \in {1, 2, 4}, off + size <= len
  PROVE  Fetch(b, off, size) = Fetch(c, off, size)
<1>1. \A j \in 0 .. size - 1 : off + j \in 0 .. len - 1
  OBVIOUS
<1>2. \A j \in 0 .. size - 1 : b[off + j] = c[off + j]
  BY <1>1
<1>3. b[off + 0] = b[off] /\ c[off + 0] = c[off]
  OBVIOUS
<1>. QED  BY <1>2, <1>3 DEF Fetch

LEMMA Loading ==
  ASSUME NEW t \in Machine, NEW i \in InsnType,
         NEW cap \in Word, NEW b \in Buffer(cap), NEW c \in Buffer(cap),
         NEW wire \in Word, NEW len \in 0 .. cap, NEW m,
         \A j \in 0 .. len - 1 : b[j] = c[j],
         i.class \in {"ld", "ldx"}, ~Faults(t, i, m, len)
  PROVE  Loaded(t, i, b, wire) \in Word /\ Loaded(t, i, b, wire) = Loaded(t, i, c, wire)
<1>. /\ cap \in Word /\ len \in Word /\ W \in Nat \ {0} /\ MemSlots \in Nat
     /\ i.k \in Word
  BY BpfAssumption, Sizes DEF Word, InsnType
<1>1. Known(i) /\ i.fn \in {"abs", "ind", "msh", "imm", "len", "mem"}
  BY DEF Faults, Known
<1>2. CASE i.fn = "imm"
  BY <1>2 DEF Loaded
<1>3. CASE i.fn = "len"
  BY <1>3 DEF Loaded
<1>4. CASE i.fn = "mem"
  <2>1. i.k \in Slot
    BY <1>4 DEF Faults, UsesSlot, Slot, Word
  <2>. QED  BY <2>1, <1>4 DEF Loaded, Machine
<1>5. CASE i.fn = "msh"
  <2>1. i.k < len
    BY <1>1, <1>5, LoadsInside DEF Faults, ReadsPacket
  <2>2. i.k \in 0 .. len - 1 /\ i.k \in 0 .. cap - 1
    BY <2>1 DEF Word
  <2>3. b[i.k] = c[i.k] /\ b[i.k] \in Int
    BY <2>2, BpfAssumption DEF Buffer, Byte
  <2>4. 4 * (b[i.k] % 16) \in Int
    BY <2>3
  <2>5. (4 * (b[i.k] % 16)) % W \in Word
    BY <2>4, Residue DEF Word
  <2>. QED  BY <2>3, <2>5, <1>5 DEF Loaded
<1>6. CASE i.fn \in {"abs", "ind"}
  <2>1. /\ Offset(t, i) \in Nat /\ i.size \in {1, 2, 4}
        /\ Offset(t, i) + i.size <= len
    BY <1>1, <1>6, LoadsInside DEF Faults, ReadsPacket
  <2>2. Offset(t, i) + i.size <= cap /\ len \in Nat
    BY <2>1 DEF Word
  <2>3. Fetch(b, Offset(t, i), i.size) \in Word
    BY <2>1, <2>2, FetchTyped
  <2>4. Fetch(b, Offset(t, i), i.size) = Fetch(c, Offset(t, i), i.size)
    BY <2>1, <2>2, FetchSame
  <2>. QED  BY <2>3, <2>4, <1>6 DEF Loaded
<1>. QED  BY <1>1, <1>2, <1>3, <1>4, <1>5, <1>6

LEMMA ComputedTyped ==
  ASSUME NEW fn, NEW a \in Word, NEW v \in Word, fn \in {"div", "mod"} => v # 0
  PROVE  Computed(fn, a, v) \in Word
<1>. W \in Nat \ {0} /\ a \in 0 .. W - 1 /\ v \in 0 .. W - 1
  BY Sizes DEF Word
<1>1. /\ (a + v) % W \in Word /\ (a - v) % W \in Word /\ (0 - a) % W \in Word
      /\ (a * v) % W \in Word
  <2>1. a + v \in Int /\ a - v \in Int /\ 0 - a \in Int
    OBVIOUS
  <2>2. a * v \in Int
    OBVIOUS
  <2>. HIDE DEF Word
  <2>3. \A z \in Int : z % W \in Word
    BY Residue DEF Word
  <2>. QED  BY <2>1, <2>2, <2>3
<1>2. CASE fn = "div"
  BY <1>2, Quotient DEF Computed, Word
<1>3. CASE fn = "mod"
  <2>1. a % v \in 0 .. v - 1
    BY <1>3, Residue
  <2>. QED  BY <2>1, <1>3 DEF Computed, Word
<1>4. BitAnd(a, v) \in Word /\ BitOr(a, v) \in Word /\ BitXor(a, v) \in Word
  BY BpfAssumption
<1>5. 0 \in Word
  BY DEF Word
<1>6. Shifted(fn, a, v) \in Word
  <2>1. CASE v >= WordBits
    BY <2>1, <1>5 DEF Shifted
  <2>2. CASE ~(v >= WordBits)
    <3>1. v \in 0 .. WordBits - 1
      BY <2>2, BpfAssumption
    <3>2. {Shl(a, v), Shr(a, v)} \subseteq Word
      BY <3>1, BpfAssumption
    <3>. QED  BY <3>2, <2>2 DEF Shifted
  <2>. QED  BY <2>1, <2>2
<1>. QED  BY <1>1, <1>2, <1>3, <1>4, <1>6 DEF Computed

(* A validated "ja" that is not too far lands in the program.              *)
LEMMA JumpTarget ==
  ASSUME NEW m \in 1 .. MaxInsns, NEW pc \in 0 .. m - 1, NEW k \in Word,
         (pc + k + 1) % W < m
  PROVE  Signed(k) \in Int /\ pc + 1 + Signed(k) \in 0 .. m - 1
<1>. /\ W \in Nat \ {0} /\ MaxInsns \in Nat /\ 2 * MaxInsns < W /\ k \in 0 .. W - 1
  BY Sizes, BpfAssumption DEF Word
<1>1. CASE 2 * k < W
  <2>1. pc + k + 1 \in 0 .. W - 1
    BY <1>1
  <2>2. (pc + k + 1) % W = pc + k + 1
    BY <2>1, NoWrap
  <2>. QED  BY <2>1, <2>2, <1>1 DEF Signed
<1>2. CASE ~(2 * k < W)
  <2>1. pc + k + 1 >= W
    <3>1. SUFFICES ASSUME pc + k + 1 < W PROVE FALSE
      OBVIOUS
    <3>2. pc + k + 1 \in 0 .. W - 1
      BY <3>1
    <3>3. (pc + k + 1) % W = pc + k + 1
      BY <3>2, NoWrap
    <3>. QED  BY <3>3, <1>2
  <2>. QED  BY <2>1, <1>2 DEF Signed
<1>. QED  BY <1>1, <1>2

(* What an instruction that neither faults nor ends the run leaves behind  *)
(* is well typed, and the same whatever the rest of the buffer holds.      *)
LEMMA Effect ==
  ASSUME NEW t \in Machine, NEW i \in InsnType,
         NEW cap \in Word, NEW b \in Buffer(cap), NEW c \in Buffer(cap),
         NEW wire \in Word, NEW len \in 0 .. cap, NEW m,
         \A j \in 0 .. len - 1 : b[j] = c[j], ~Faults(t, i, m, len)
  PROVE  /\ NewA(t, i, b, wire) \in Word /\ NewA(t, i, b, wire) = NewA(t, i, c, wire)
         /\ NewX(t, i, b, wire) \in Word /\ NewX(t, i, b, wire) = NewX(t, i, c, wire)
         /\ NewMem(t, i) \in [Slot -> Word]
<1>. t.a \in Word /\ t.x \in Word /\ t.mem \in [Slot -> Word] /\ i.k \in Word
  BY DEF Machine, InsnType
<1>1. i.class \in {"ld", "ldx"} =>
        /\ Loaded(t, i, b, wire) \in Word
        /\ Loaded(t, i, b, wire) = Loaded(t, i, c, wire)
  BY Loading
<1>2. i.class = "alu" => Computed(i.fn, t.a, Operand(t, i)) \in Word
  <2>1. SUFFICES ASSUME i.class = "alu" PROVE Computed(i.fn, t.a, Operand(t, i)) \in Word
    OBVIOUS
  <2>2. Operand(t, i) \in Word
    BY DEF Operand
  <2>3. i.fn \in {"div", "mod"} => Operand(t, i) # 0
    BY <2>1 DEF Faults, Divides
  <2>. QED  BY <2>2, <2>3, ComputedTyped
<1>3. NewMem(t, i) \in [Slot -> Word]
  BY DEF NewMem
<1>. QED  BY <1>1, <1>2, <1>3 DEF NewA, NewX

LEMMA StartTyped == Start \in Machine
  BY Sizes, BpfAssumption DEF Start, At, Machine, Word

(* The three ways one instruction of a validated program can go. *)
LEMMA StepOutcome ==
  ASSUME NEW m \in 1 .. MaxInsns, NEW prog \in [0 .. m - 1 -> InsnType], Validate(prog, m),
         NEW cap \in Word, NEW b \in Buffer(cap), NEW c \in Buffer(cap),
         NEW wire \in Word, NEW len \in 0 .. cap, \A j \in 0 .. len - 1 : b[j] = c[j],
         NEW s \in Machine, s.pc \in 0 .. m - 1
  PROVE  LET i == prog[s.pc]
             t == Step(s, prog, m, b, wire, len)
         IN  /\ t = Step(s, prog, m, c, wire, len)
             /\ t \in Machine
             /\ \/ t.halted /\ t.pc = s.pc /\ t.x = s.x /\ t.back = s.back /\ Excuse(t, i, len)
                \/ ~t.halted /\ t.pc \in 0 .. m - 1 /\ t.back = s.back /\ t.pc > s.pc
                \/ ~t.halted /\ t.pc \in 0 .. m - 1 /\ t.back = s.back + 1
<1>. DEFINE i == prog[s.pc]
            t == Step(s, prog, m, b, wire, len)
            P == t = Step(s, prog, m, c, wire, len)
            T == t \in Machine
            Halt == t.halted /\ t.pc = s.pc /\ t.x = s.x /\ t.back = s.back /\ Excuse(t, i, len)
            Forth == ~t.halted /\ t.pc \in 0 .. m - 1 /\ t.back = s.back /\ t.pc > s.pc
            Back == ~t.halted /\ t.pc \in 0 .. m - 1 /\ t.back = s.back + 1
<1>1. MaxInsns \in Nat /\ MaxBack \in Nat /\ m \in Nat /\ s.pc \in Nat /\ s.pc < m
  BY BpfAssumption
<1>2. i \in InsnType
  OBVIOUS
<1>3. i.k \in Word /\ i.jt \in Nat /\ i.jf \in Nat
  <2>. HIDE DEF i
  <2>. QED  BY ONLY <1>2, BpfAssumption DEF InsnType, Byte
<1>4. ValidInsn(i) /\ ValidJump(i, s.pc, m) /\ prog[m - 1].class = "ret"
  BY <1>1 DEF Validate
<1>5. /\ s.a \in Word /\ s.x \in Word /\ s.mem \in [Slot -> Word]
      /\ s.back \in 0 .. MaxBack /\ s.pc \in Nat /\ 0 \in Word
  BY <1>1, Sizes DEF Machine, Word
<1>6. ASSUME NEW v \in Word, t = Stop(s, v) PROVE T /\ t.halted /\ t.pc = s.pc /\ t.x = s.x /\ t.back = s.back
  BY <1>5, <1>6 DEF Stop, Machine
<1>7. CASE i.class = "ret"
  <2>1. Known(i) /\ i.k \in Word
    BY <1>3, <1>4 DEF ValidInsn
  <2>. DEFINE v == IF i.src = "a" THEN s.a ELSE i.k
  <2>2. v \in Word
    BY <1>5, <2>1
  <2>3. t = Stop(s, v) /\ P
    BY <2>1, <1>7 DEF Step
  <2>4. Excuse(t, i, len)
    BY <1>7 DEF Excuse
  <2>. HIDE DEF t, v, i
  <2>5. T /\ Halt
    BY <2>2, <2>3, <2>4, <1>6
  <2>. QED  BY <2>3, <2>5 DEF t, i
<1>8. CASE i.class # "ret" /\ Faults(s, i, m, len)
  <2>1. t = Stop(s, 0) /\ P
    BY <1>8 DEF Step
  <2>. HIDE DEF t
  <2>2. T /\ t.halted /\ t.pc = s.pc /\ t.x = s.x /\ t.back = s.back
    BY <2>1, <1>5, <1>6
  <2>3. \/ ReadsPacket(i) /\ ~Inside(s, i, len)
        \/ Divides(i) /\ Operand(s, i) = 0
        \/ Jumps(i) /\ TooFar(s, i, m)
    <3>1. MemSlots \in Nat /\ i.k \in Nat
      BY BpfAssumption, <1>3, Sizes DEF Word
    <3>. QED  BY <3>1, <1>4, <1>8 DEF Faults, ValidInsn
  <2>4. Excuse(t, i, len)
    <3>1. CASE ReadsPacket(i) /\ ~Inside(s, i, len)
      BY <3>1, <2>2 DEF Excuse, Inside
    <3>2. CASE Divides(i) /\ Operand(s, i) = 0
      <4>1. i.src \in {"k", "x"}
        BY <3>2, <1>4 DEF ValidInsn, Known, Divides, AluFn
      <4>. QED  BY <4>1, <3>2, <2>2, <1>4 DEF Excuse, ValidInsn, Operand
    <3>3. CASE Jumps(i) /\ TooFar(s, i, m)
      <4>1. (s.pc + i.k + 1) % W < m /\ Signed(i.k) # -1
        BY <3>3, <1>4 DEF ValidJump, Jumps
      <4>2. (s.pc + i.k + 1) % W \in Int
        <5>1. s.pc + i.k + 1 \in Int /\ W \in Nat \ {0}
          BY <1>1, <1>3, Sizes DEF Word
        <5>. QED  BY <5>1, Residue
      <4>3. ~((s.pc + i.k + 1) % W >= m)
        <5>. DEFINE r == (s.pc + i.k + 1) % W
        <5>1. r < m /\ r \in Int
          BY ONLY <4>1, <4>2, Zenon
        <5>. HIDE DEF r, i
        <5>2. ~(r >= m)
          BY ONLY <5>1, <1>1
        <5>. QED  BY ONLY <5>2 DEF r
      <4>4. Signed(i.k) < 0 /\ s.back = MaxBack
        BY <3>3, <4>1, <4>3 DEF TooFar
      <4>. QED  BY <4>4, <3>3, <2>2 DEF Excuse
    <3>. QED  BY <2>3, <3>1, <3>2, <3>3
  <2>. QED  BY <2>1, <2>2, <2>4 DEF t
<1>9. CASE i.class # "ret" /\ ~Faults(s, i, m, len)
  <2>1. Target(s, i) \in 0 .. m - 1
    <3>1. CASE i.class # "jmp"
      <4>1. s.pc # m - 1
        BY <1>4, <1>9
      <4>. QED  BY <4>1, <3>1, <1>1 DEF Target
    <3>2. CASE i.class = "jmp" /\ i.fn = "ja"
      <4>1. (s.pc + i.k + 1) % W < m
        BY <3>2, <1>4 DEF ValidJump
      <4>. QED  BY <4>1, <3>2, <1>1, <1>3, JumpTarget DEF Target
    <3>3. CASE i.class = "jmp" /\ i.fn # "ja"
      <4>1. s.pc + i.jt + 1 < m /\ s.pc + i.jf + 1 < m
        BY <3>3, <1>4 DEF ValidJump
      <4>2. Target(s, i) \in {s.pc + 1 + i.jt, s.pc + 1 + i.jf}
        BY <3>3 DEF Target
      <4>. DEFINE yes == i.jt
                  no == i.jf
                  here == s.pc
      <4>3. /\ yes \in Nat /\ no \in Nat /\ here \in Nat /\ m \in Nat
            /\ here + yes + 1 < m /\ here + no + 1 < m
        BY <4>1, <1>1, <1>3
      <4>. HIDE DEF yes, no, here, i
      <4>4. here + 1 + yes \in 0 .. m - 1
        BY ONLY <4>3
      <4>5. here + 1 + no \in 0 .. m - 1
        BY ONLY <4>3
      <4>. QED  BY ONLY <4>2, <4>4, <4>5 DEF yes, no, here
    <3>. QED  BY <3>1, <3>2, <3>3
  <2>2. /\ NewA(s, i, b, wire) \in Word
        /\ NewA(s, i, b, wire) = NewA(s, i, c, wire)
        /\ NewX(s, i, b, wire) \in Word
        /\ NewX(s, i, b, wire) = NewX(s, i, c, wire)
        /\ NewMem(s, i) \in [Slot -> Word]
    BY <1>1, <1>2, <1>9, Effect
  <2>3. /\ NewBack(s, i) \in 0 .. MaxBack
        /\ \/ NewBack(s, i) = s.back + 1
           \/ NewBack(s, i) = s.back /\ Target(s, i) > s.pc
    <3>1. CASE Jumps(i) /\ Signed(i.k) < 0
      BY <3>1, <1>1, <1>5, <1>9 DEF Faults, TooFar, NewBack
    <3>2. CASE Jumps(i) /\ ~(Signed(i.k) < 0)
      <4>1. Signed(i.k) \in Int
        BY <1>3, Sizes DEF Signed, Word
      <4>. QED  BY <4>1, <3>2, <1>1, <1>5 DEF NewBack, Target, Jumps
    <3>3. CASE ~Jumps(i)
      <4>. HIDE DEF i
      <4>1. NewBack(s, i) = s.back
        BY <3>3 DEF NewBack
      <4>. DEFINE to == Target(s, i)
                  yes == i.jt
                  no == i.jf
      <4>2. to \in {s.pc + 1, s.pc + 1 + yes, s.pc + 1 + no} /\ yes \in Nat /\ no \in Nat
        BY <3>3, <1>3 DEF Target, Jumps
      <4>. HIDE DEF to, yes, no
      <4>3. to > s.pc
        BY ONLY <4>2, <1>1
      <4>. QED  BY ONLY <4>1, <4>3, <1>1, <1>5 DEF to
    <3>. QED  BY <3>1, <3>2, <3>3
  <2>4. /\ t = At(Target(s, i), NewA(s, i, b, wire), NewX(s, i, b, wire),
                  NewMem(s, i), NewBack(s, i))
        /\ P
    BY <2>1, <2>2, <1>9, <1>1 DEF Step
  <2>. HIDE DEF t
  <2>5. T /\ ~t.halted /\ t.pc = Target(s, i) /\ t.back = NewBack(s, i)
    BY <2>1, <2>2, <2>3, <2>4, <1>5 DEF At, Machine
  <2>. QED  BY <2>1, <2>3, <2>4, <2>5 DEF t
<1>. QED  BY <1>7, <1>8, <1>9
=============================================================================
