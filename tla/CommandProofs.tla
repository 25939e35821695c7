--------------------------- MODULE CommandProofs ---------------------------
(***************************************************************************)
(* Proofs about pcap-compile-filter, for words of any number of bits, and  *)
(* any flags, ethers files and expressions.  What the mask parser does is  *)
(* arithmetic on words (an induction over the bits); the rest is an        *)
(* invariant that says, stage by stage, what has been produced so far.     *)
(***************************************************************************)
EXTENDS Command, SequenceTheorems, WellFoundedInduction, TLAPS

(* Induction over numbers, from the least counterexample.                  *)
LEMMA LeastNumber ==
  ASSUME NEW T \in SUBSET Nat, T # {}
  PROVE  \E x \in T : \A y \in T : x <= y
<1> DEFINE R == {ss \in Nat \X Nat : ss[1] < ss[2]}
<1>1. IsWellFoundedOn(R, Nat)
  BY NatLessThanWellFounded DEF OpToRel
<1>2. \A x, y \in Nat : << y, x >> \in R <=> y < x
  OBVIOUS
<1> HIDE DEF R
<1>3. PICK x \in T : \A y \in T : ~(<< y, x >> \in R)
  BY <1>1, WFMin
<1>4. \A y \in T : y \in Nat /\ x \in Nat /\ ~(y < x)
  BY <1>2, <1>3
<1> QED
  BY <1>4

LEMMA StrongInduction ==
  ASSUME NEW S, \A k \in Nat : (\A j \in Nat : j < k => j \in S) => k \in S
  PROVE  Nat \subseteq S
<1> SUFFICES ASSUME Nat \ S # {} PROVE FALSE
  OBVIOUS
<1>1. PICK x \in Nat \ S : \A y \in Nat \ S : x <= y
  BY LeastNumber
<1>2. \A j \in Nat : j < x => j \in S
  BY <1>1
<1> QED
  BY <1>1, <1>2

-----------------------------------------------------------------------------
(* Powers of two.                                                          *)


LEMMA Bits == MaskBits \in Nat \ {0}
  BY CommandAssumption

Doubles(f, N) ==
  f \in [0 .. N -> Nat \ {0}] /\ \A k \in 0 .. N : f[k] = IF k = 0 THEN 1 ELSE 2 * f[k - 1]

LEMMA PowersExist ==
  ASSUME NEW N \in Nat
  PROVE  \E f : Doubles(f, N)
<1> DEFINE S == {m \in Nat : \E f : Doubles(f, m)}
<1>1. ASSUME NEW m \in Nat, \A j \in Nat : j < m => j \in S
      PROVE  m \in S
  <2>1. CASE m = 0
    <3> DEFINE f == [k \in 0 .. 0 |-> 1]
    <3>1. f \in [0 .. 0 -> Nat \ {0}] /\ \A k \in 0 .. 0 : k = 0 /\ f[k] = 1
      OBVIOUS
    <3> HIDE DEF f
    <3>2. Doubles(f, 0)
      BY <3>1 DEF Doubles
    <3> QED
      BY <2>1, <3>2
  <2>2. CASE m # 0
    <3>1. m - 1 \in Nat /\ m - 1 < m
      BY <2>2
    <3>2. PICK g : Doubles(g, m - 1)
      BY <1>1, <3>1
    <3>3. /\ g \in [0 .. m - 1 -> Nat \ {0}]
          /\ \A k \in 0 .. m - 1 : g[k] = IF k = 0 THEN 1 ELSE 2 * g[k - 1]
      BY <3>2 DEF Doubles
    <3> DEFINE f == [k \in 0 .. m |-> IF k = m THEN 2 * g[m - 1] ELSE g[k]]
    <3>4. g[m - 1] \in Nat \ {0} /\ \A k \in 0 .. m : k # m => k \in 0 .. m - 1
      BY <3>1, <3>3
    <3>5. f \in [0 .. m -> Nat \ {0}]
      BY <3>3, <3>4
    <3>6. ASSUME NEW k \in 0 .. m PROVE f[k] = IF k = 0 THEN 1 ELSE 2 * f[k - 1]
      <4>1. CASE k = m
        <5>1. k # 0 /\ k - 1 \in 0 .. m /\ k - 1 # m
          BY <2>2, <4>1
        <5> QED
          BY <4>1, <5>1
      <4>2. CASE k = 0 /\ k # m
        BY <3>3, <3>4, <4>2
      <4>3. CASE k # 0 /\ k # m
        <5>1. k \in 0 .. m - 1 /\ k - 1 \in 0 .. m /\ k - 1 # m
          BY <4>3
        <5> QED
          BY <3>3, <4>3, <5>1
      <4> QED
        BY <4>1, <4>2, <4>3
    <3> HIDE DEF f
    <3>7. Doubles(f, m)
      BY <3>5, <3>6 DEF Doubles
    <3> QED
      BY <3>7
  <2> QED
    BY <2>1, <2>2
<1> HIDE DEF S
<1>2. Nat \subseteq S
  BY <1>1, StrongInduction
<1> QED
  BY <1>2 DEF S

LEMMA Powers ==
  /\ Pow2 \in [0 .. MaskBits -> Nat \ {0}]
  /\ Pow2[0] = 1
  /\ \A k \in 1 .. MaskBits : Pow2[k] = 2 * Pow2[k - 1]
<1> DEFINE Body(f) == [k \in 0 .. MaskBits |-> IF k = 0 THEN 1 ELSE 2 * f[k - 1]]
           S == {k \in Nat : k <= MaskBits => Pow2[k] \in Nat \ {0}}
<1>1. PICK f : Doubles(f, MaskBits)
  BY Bits, PowersExist
<1>2. f = Body(f)
  BY <1>1 DEF Doubles
<1>3. Pow2 = Body(Pow2)
  BY <1>2 DEF Pow2
<1>4. Pow2[0] = 1 /\ \A k \in 1 .. MaskBits : Pow2[k] = 2 * Pow2[k - 1]
  <2>1. 0 \in 0 .. MaskBits /\ \A k \in 1 .. MaskBits : k \in 0 .. MaskBits /\ k # 0
    BY Bits
  <2> QED
    BY <1>3, <2>1
<1>5. ASSUME NEW m \in Nat, \A j \in Nat : j < m => j \in S
      PROVE  m \in S
  <2>1. CASE m = 0
    BY <1>4, <2>1
  <2>2. CASE m # 0
    <3>1. SUFFICES ASSUME m <= MaskBits PROVE Pow2[m] \in Nat \ {0}
      OBVIOUS
    <3>2. m - 1 \in Nat /\ m - 1 < m /\ m - 1 <= MaskBits /\ m \in 1 .. MaskBits
      BY <2>2, <3>1, Bits
    <3>3. Pow2[m - 1] \in Nat \ {0}
      BY <1>5, <3>2
    <3> QED
      BY <1>4, <3>2, <3>3
  <2> QED
    BY <2>1, <2>2
<1> HIDE DEF S
<1>6. Nat \subseteq S
  BY <1>5, StrongInduction
<1>7. \A k \in 0 .. MaskBits : Pow2[k] \in Nat \ {0}
  BY <1>6, Bits DEF S
<1> QED
  BY <1>3, <1>4, <1>7

LEMMA WordsEven ==
  /\ Words \in Nat \ {0, 1} /\ Words = Pow2[MaskBits]
  /\ Words \div 2 \in Nat \ {0} /\ Words = 2 * (Words \div 2)
<1>1. MaskBits \in 1 .. MaskBits /\ MaskBits - 1 \in 0 .. MaskBits
  BY Bits
<1>2. Words = 2 * Pow2[MaskBits - 1] /\ Pow2[MaskBits - 1] \in Nat \ {0}
  BY <1>1, Powers DEF Words
<1> QED
  BY <1>2 DEF Words

-----------------------------------------------------------------------------
(* Masks.                                                                  *)

LEMMA Remainder ==
  ASSUME NEW w \in Nat \ {0}, NEW q \in Int, NEW r \in Int
  PROVE  (r + w * q) % w = r % w
<1>1. PICK d \in Int, m \in 0 .. w - 1 : r = w * d + m
  <2>1. r = w * (r \div w) + (r % w) /\ r % w \in 0 .. w - 1 /\ r \div w \in Int
    OBVIOUS
  <2> QED
    BY <2>1
<1>2. r + w * q = w * (d + q) + m
  BY <1>1
<1>3. ASSUME NEW e \in Int PROVE (w * e + m) % w = m
  OBVIOUS
<1> QED
  BY <1>1, <1>2, <1>3

(* Shifting a word of ones leaves what is left of 2^32 less a power of two. *)
LEMMA ShiftedOnes ==
  ASSUME NEW bits \in 0 .. MaskBits
  PROVE  /\ BitsToMask(bits) = (Words - Pow2[MaskBits - bits]) % Words
         /\ BitsToMask(bits) \in Word
<1> DEFINE p == Pow2[MaskBits - bits]
<1>1. p \in Nat \ {0} /\ Words \in Nat \ {0}
  <2>1. MaskBits - bits \in 0 .. MaskBits
    BY Bits
  <2> QED
    BY <2>1, Powers, WordsEven
<1>2. BitsToMask(bits) = ((Words - 1) * p) % Words
  BY DEF BitsToMask
<1> HIDE DEF p
<1>3. (Words - 1) * p = (Words - p) + Words * (p - 1)
  BY <1>1
<1>4. ((Words - p) + Words * (p - 1)) % Words = (Words - p) % Words
  <2>1. p - 1 \in Int /\ Words - p \in Int
    BY <1>1
  <2> QED
    BY ONLY <1>1, <2>1, Remainder, Zenon
<1>5. (Words - p) % Words \in 0 .. Words - 1
  BY <1>1
<1> QED
  BY <1>2, <1>3, <1>4, <1>5 DEF p, Word

LEMMA Halves ==
  ASSUME NEW h \in Nat
  PROVE  /\ h \div 2 \in Nat /\ h % 2 \in {0, 1} /\ h = 2 * (h \div 2) + (h % 2)
         /\ h # 0 => h \div 2 < h
         /\ h % 2 = 1 => (h + 1) \div 2 = h \div 2 + 1 /\ (h + 1) % 2 = 0
         /\ h % 2 = 0 => (h + 1) \div 2 = h \div 2 /\ (h + 1) % 2 = 1
  OBVIOUS

LEMMA AndItself ==
  ASSUME NEW h \in Word
  PROVE  BitAnd(h, h) = h
<1> DEFINE S == {m \in Nat : m \in Word => BitAnd(m, m) = m}
<1>1. Words \in Nat \ {0, 1}
  BY WordsEven
<1>2. ASSUME NEW m \in Nat, \A j \in Nat : j < m => j \in S
      PROVE  m \in S
  <2>1. SUFFICES ASSUME m \in Word PROVE BitAnd(m, m) = m
    OBVIOUS
  <2>2. /\ BitAnd(m, m) \in Nat
        /\ BitAnd(m, m) = (m % 2) * (m % 2) + 2 * BitAnd(m \div 2, m \div 2)
    BY <2>1, BitAndAssumption
  <2>3. CASE m = 0
    BY <2>2, <2>3
  <2>4. CASE m # 0
    <3>1. m \div 2 \in Nat /\ m \div 2 < m /\ m \div 2 \in Word
      BY <1>1, <2>1, <2>4, Halves DEF Word
    <3>2. BitAnd(m \div 2, m \div 2) = m \div 2
      BY <1>2, <3>1
    <3>3. (m % 2) * (m % 2) = m % 2
      BY Halves
    <3>4. m = 2 * (m \div 2) + (m % 2)
      BY Halves
    <3> DEFINE g == m \div 2
               c == m % 2
    <3>5. BitAnd(m, m) = c * c + 2 * BitAnd(g, g) /\ BitAnd(g, g) = g /\ c * c = c
      BY <2>2, <3>2, <3>3
    <3>6. g \in Nat /\ c \in Nat /\ m = 2 * g + c
      BY <3>1, <3>4, Halves
    <3> HIDE DEF g, c
    <3> QED
      BY <3>5, <3>6
  <2> QED
    BY <2>3, <2>4
<1> HIDE DEF S
<1>3. Nat \subseteq S
  BY <1>2, StrongInduction
<1>4. h \in Nat
  BY <1>1 DEF Word
<1> QED
  BY <1>3, <1>4 DEF S

(* A number that has no bit in common with the next one is all ones.       *)
LEMMA AllOnes ==
  ASSUME NEW h \in Word, h + 1 \in Word, BitAnd(h, h + 1) = 0
  PROVE  \E k \in 0 .. MaskBits : h + 1 = Pow2[k]
<1> DEFINE Claim(m) == m + 1 \in Word /\ BitAnd(m, m + 1) = 0 =>
                         \E k \in 0 .. MaskBits : m + 1 = Pow2[k]
           S == {m \in Nat : Claim(m)}
<1>1. Words \in Nat \ {0, 1} /\ Words = Pow2[MaskBits] /\ MaskBits \in Nat \ {0}
  BY WordsEven, Bits
<1>2. ASSUME NEW m \in Nat, \A j \in Nat : j < m => j \in S
      PROVE  m \in S
  <2>1. SUFFICES ASSUME m + 1 \in Word, BitAnd(m, m + 1) = 0
                 PROVE  \E k \in 0 .. MaskBits : m + 1 = Pow2[k]
    OBVIOUS
  <2> DEFINE g == m \div 2
  <2>2. m \in Word
    BY <1>1, <2>1 DEF Word
  <2>3. BitAnd(m, m + 1) = (m % 2) * ((m + 1) % 2) + 2 * BitAnd(g, (m + 1) \div 2)
    BY <2>1, <2>2, BitAndAssumption
  <2>4. CASE m % 2 = 1
    <3>1. /\ m = 2 * g + 1 /\ g \in Nat /\ g < m /\ (m + 1) \div 2 = g + 1
          /\ (m + 1) % 2 = 0
      BY <2>4, Halves
    <3> HIDE DEF g
    <3>2. g \in Word /\ g + 1 \in Word
      BY <1>1, <2>1, <3>1 DEF Word
    <3>3. BitAnd(g, g + 1) \in Nat
      BY <3>2, BitAndAssumption
    <3>4. BitAnd(g, g + 1) = 0
      BY <2>1, <2>3, <2>4, <3>1, <3>3
    <3>5. PICK k \in 0 .. MaskBits : g + 1 = Pow2[k]
      BY <1>2, <3>1, <3>2, <3>4
    <3>6. k # MaskBits
      BY <1>1, <3>2, <3>5 DEF Word
    <3>7. k + 1 \in 1 .. MaskBits /\ (k + 1) - 1 = k
      BY <1>1, <3>6
    <3>8. Pow2[k + 1] = 2 * Pow2[k]
      BY <3>7, Powers
    <3>9. m + 1 = Pow2[k + 1]
      BY <3>1, <3>5, <3>8
    <3> QED
      BY <3>7, <3>9
  <2>5. CASE m % 2 = 0
    <3>1. m = 2 * g /\ g \in Nat /\ (m + 1) \div 2 = g /\ (m + 1) % 2 = 1
      BY <2>5, Halves
    <3> HIDE DEF g
    <3>2. g \in Word
      BY <1>1, <2>2, <3>1 DEF Word
    <3>3. BitAnd(g, g) = g
      BY <3>2, AndItself
    <3>4. m = 0
      BY <2>1, <2>3, <2>5, <3>1, <3>3
    <3>5. 0 \in 0 .. MaskBits /\ m + 1 = Pow2[0]
      BY <1>1, <3>4, Powers
    <3> QED
      BY <3>5
  <2> QED
    BY <2>4, <2>5, Halves
<1> HIDE DEF S
<1>3. Nat \subseteq S
  BY <1>2, StrongInduction
<1>4. h \in Nat
  BY <1>1 DEF Word
<1> QED
  BY <1>3, <1>4 DEF S

(* The test for holes: what is left is a mask of some length.              *)
LEMMA ContiguousIsALength ==
  ASSUME NEW v \in Word, Contiguous(v)
  PROVE  \E bits \in 0 .. MaskBits : v = (Words - Pow2[MaskBits - bits]) % Words
<1> DEFINE h == Words - 1 - v
<1>1. Words \in Nat \ {0, 1} /\ Words = Pow2[MaskBits] /\ MaskBits \in Nat \ {0}
  BY WordsEven, Bits
<1>2. h \in Word /\ v = Words - (h + 1) /\ v \in 0 .. Words - 1
  BY <1>1 DEF Word
<1>3. BitAnd(h, (h + 1) % Words) = 0
  BY DEF Contiguous
<1> HIDE DEF h
<1>4. CASE v = 0
  <2>1. 0 \in 0 .. MaskBits /\ MaskBits - 0 = MaskBits /\ (Words - Words) % Words = 0
    BY <1>1
  <2> QED
    BY <1>1, <1>4, <2>1
<1>5. CASE v # 0
  <2>1. h + 1 \in Word /\ h + 1 \in 0 .. Words - 1
    BY <1>1, <1>2, <1>5 DEF Word
  <2>2. (h + 1) % Words = h + 1 /\ v % Words = v
    BY <1>1, <1>2, <2>1
  <2>3. PICK k \in 0 .. MaskBits : h + 1 = Pow2[k]
    BY <1>2, <1>3, <2>1, <2>2, AllOnes
  <2>4. MaskBits - k \in 0 .. MaskBits /\ MaskBits - (MaskBits - k) = k
    BY <1>1
  <2> QED
    BY <1>2, <2>2, <2>3, <2>4
<1> QED
  BY <1>4, <1>5

-----------------------------------------------------------------------------
(* The invariant.                                                          *)

Maybes == /\ flag \in Flag /\ expr \in Maybe(SUBSET Need)
          /\ mask \in Maybe(Word)
          /\ arg \in Maybe([link : Ints, snaplen : Ints, netmask : Word])
          /\ table \in [Names -> Mac \cup {NotListed}]
          /\ met \subseteq Need

Early == {"flags", "type", "ethers", "scan", "mask", "compile"}
Late == {"check", "parse", "write"}

(* What the stages before this one have left.                              *)
Passed ==
  /\ stage \in Early \cup Late \cup {"exit"}
  /\ stage \notin {"flags", "exit"} => expr # << >>
  /\ stage \notin {"flags", "type", "exit"} => flag.type # << >>
  /\ stage \in Early => arg = << >> /\ met = {} /\ ether = {}
  /\ stage \in {"flags", "type", "ethers", "scan", "mask"} => mask = << >>

(* What the exit status tells.                                             *)
Outcome ==
  /\ IF stage = "exit" THEN exit \in {0, 1, 2} /\ stderr = (exit # 0)
                       ELSE exit = -1 /\ stderr = FALSE
  /\ exit # 0 => stdout \in Seq({"lookup"})
  /\ exit = 0 => \E looked \in Seq({"lookup"}) :
       stdout = Append(looked, IF flag.raw THEN "bytes" ELSE "disassembly")
  /\ stage \in Early \/ exit = 2 => stdout = << >> /\ arg = << >>
  /\ stage = "write" \/ exit = 0 => met = expr[1]

(* What bpf_compile was told of the network, and took it for.              *)
Told ==
  stage \in Late \/ exit = 0 =>
    /\ arg # << >>
    /\ arg[1].netmask = IF mask = << >> THEN Unknown ELSE mask[1]
    /\ "ip broadcast" \in met => arg[1].netmask # Unknown

(* The lines read that name the host asked for.                            *)
Named == {i \in 1 .. line - 1 : flag.file[1][i].name = Asked}

(* The ethers map is what the lines read say, the last one first.          *)
Scanned ==
  /\ stage = "scan" => flag.file # << >>
  /\ flag.file = << >> => table[Asked] = NotListed
  /\ flag.file # << >> =>
       /\ line \in 1 .. Len(flag.file[1]) + 1
       /\ IF Named = {} THEN table[Asked] = NotListed
          ELSE \E i \in Named : /\ \A j \in Named : j <= i
                                /\ table[Asked] = flag.file[1][i].mac
       /\ stage \in {"mask", "compile"} \cup Late \/ ether # {} =>
            line = Len(flag.file[1]) + 1
  /\ ether # {} => ether = {table[Asked]} /\ table[Asked].octets = 6

CmdInv ==
  Maybes /\ Passed /\ Outcome /\ Told /\ Scanned /\ MaskIsALength

-----------------------------------------------------------------------------
(* Optional values, C ints and masks.                                      *)

LEMMA MaybeOne ==
  ASSUME NEW S, NEW v \in Maybe(S), v # << >>
  PROVE  v[1] \in S /\ v = << v[1] >>
BY DEF Maybe

LEMMA SomeMaybe ==
  ASSUME NEW S, NEW x \in S
  PROVE  << x >> \in Maybe(S) /\ << x >> # << >> /\ << x >>[1] = x
BY DEF Maybe

LEMMA CInts ==
  ASSUME NEW v \in Int, NEW default \in Ints
  PROVE  OrDefault(v, default) \in Ints
<1> DEFINE w == v % Words
           h == Words \div 2
<1>1. h \in Nat \ {0} /\ Words = 2 * h /\ Words \in Nat \ {0}
  BY WordsEven
<1>2. w \in 0 .. Words - 1
  BY <1>1
<1>3. Ints = -h .. h - 1
  BY DEF Ints
<1>4. Int32(v) = IF w >= h THEN w - Words ELSE w
  BY DEF Int32
<1> HIDE DEF w, h
<1>5. Int32(v) \in Ints
  BY <1>1, <1>2, <1>3, <1>4
<1> QED
  BY <1>5 DEF OrDefault

(* Each form of -n gives a mask of some length, and the one it gave.       *)
LEMMA ParsedMask ==
  ASSUME Maybes, MaskIsALength, ParseMask
  PROVE  MaskIsALength' /\ mask' \in Maybe(Word)
<1> DEFINE m == flag.mask
           Given(v, bits) == /\ bits \in 0 .. MaskBits
                             /\ v \in Word
                             /\ v = (Words - Pow2[MaskBits - bits]) % Words
                             /\ m.form \in {"prefix", "length"} => m.value = bits
<1>1. flag' = flag /\ m \in MaskFlags
  BY DEF ParseMask, Maybes, Flag
<1>2. ASSUME NEW v, NEW bits, Given(v, bits), mask' = << v >>
      PROVE  MaskIsALength' /\ mask' \in Maybe(Word)
  BY <1>1, <1>2, SomeMaybe DEF MaskIsALength
<1>3. CASE mask' = << >>
  BY <1>3 DEF Maybe, MaskIsALength
<1>4. CASE UNCHANGED mask
  BY <1>1, <1>4 DEF Maybes, MaskIsALength
<1>5. CASE /\ m.form \in {"prefix", "length"} /\ m.value \in 0 .. MaskBits
           /\ mask' = << BitsToMask(m.value) >>
  <2>1. Given(BitsToMask(m.value), m.value)
    BY <1>5, ShiftedOnes
  <2> HIDE DEF Given
  <2> QED
    BY <1>2, <1>5, <2>1
<1>6. CASE m.form = "addr" /\ Contiguous(m.value) /\ mask' = << m.value >>
  <2>1. m.value \in Word
    BY <1>1, <1>6, CommandAssumption
  <2>2. PICK bits \in 0 .. MaskBits :
          m.value = (Words - Pow2[MaskBits - bits]) % Words
    BY <1>6, <2>1, ContiguousIsALength
  <2>3. Given(m.value, bits)
    BY <1>6, <2>1, <2>2
  <2> HIDE DEF Given
  <2> QED
    BY <1>2, <1>6, <2>3
<1>7. m.form = "prefix" => m.value \in 0 .. MaskBits
  BY <1>1, CommandAssumption
<1> HIDE DEF m
<1> QED
  BY <1>3, <1>4, <1>5, <1>6, <1>7 DEF ParseMask, m

-----------------------------------------------------------------------------
(* The steps.                                                              *)

LEMMA InitCommand == Init => CmdInv
<1> SUFFICES ASSUME Init PROVE CmdInv
  OBVIOUS
<1>1. Maybes
  <2>1. << >> \in Maybe(Word)
        /\ << >> \in Maybe([link : Ints, snaplen : Ints, netmask : Word])
    BY DEF Maybe
  <2> QED
    BY <2>1 DEF Init, Maybes
<1>2. Passed /\ Told /\ MaskIsALength
  BY DEF Init, Passed, Told, MaskIsALength, Early, Late
<1>3. Outcome
  BY DEF Init, Outcome, Early
<1>4. Scanned
  <2>1. table[Asked] = NotListed
    BY CommandAssumption DEF Init
  <2>2. Named = {}
    BY DEF Init, Named
  <2>3. flag.file # << >> => Len(flag.file[1]) \in Nat
    <3>1. flag.file \in Maybe(Files)
      BY DEF Init, Flag
    <3> QED
      BY <3>1, MaybeOne, CommandAssumption
  <2> QED
    BY <2>1, <2>2, <2>3 DEF Init, Scanned, Late
<1> QED
  BY <1>1, <1>2, <1>3, <1>4 DEF CmdInv

(* The command stops, with a message and no filter.                        *)
LEMMA Stops ==
  ASSUME CmdInv, stage # "exit", NEW status \in {1, 2}, Exits(status),
         UNCHANGED << flag, expr, line, table, mask, arg, ether >>,
         met' \subseteq Need, stdout' \in Seq({"lookup"}),
         status = 2 => stage \in Early /\ UNCHANGED stdout
  PROVE  CmdInv'
<1>1. Maybes' /\ MaskIsALength'
  BY DEF CmdInv, Maybes, MaskIsALength
<1>2. Passed' /\ Told'
  <2>1. stage' = "exit" /\ exit' # 0
    BY DEF Exits
  <2>2. Passed'
    BY <2>1 DEF Passed, Early, Late
  <2>3. Told'
    BY <2>1 DEF Told, Late
  <2> QED
    BY <2>2, <2>3
<1>3. Outcome'
  BY DEF CmdInv, Exits, Outcome, Early
<1>4. Scanned'
  BY DEF CmdInv, Exits, Scanned, Named, Late
<1> QED
  BY <1>1, <1>2, <1>3, <1>4 DEF CmdInv

(* A step to another stage that has nothing else to it.                    *)
LEMMA MovesOn ==
  ASSUME CmdInv, NEW to \in Early \cup Late, GoTo(to), stage # "exit",
         UNCHANGED << flag, expr, line, table, mask, arg, met, ether, stdout >>,
         Passed', Told',
         to = "scan" => flag.file # << >>,
         to \in Early => stage \in Early,
         to = "write" => met = expr[1],
         to \in {"mask", "compile"} \cup Late /\ flag.file # << >> =>
           line = Len(flag.file[1]) + 1
  PROVE  CmdInv'
<1>1. Maybes' /\ MaskIsALength'
  BY DEF CmdInv, Maybes, MaskIsALength
<1>2. Outcome'
  BY DEF CmdInv, GoTo, Outcome, Early, Late
<1>3. Scanned'
  BY DEF CmdInv, GoTo, Scanned, Named, Early, Late
<1> QED
  BY <1>1, <1>2, <1>3 DEF CmdInv

(* Every other error is found before anything but lookups is printed.      *)
LEMMA OnlyLookups ==
  ASSUME CmdInv, stage # "exit"
  PROVE  /\ stdout \in Seq({"lookup"}) /\ met \subseteq Need
         /\ stage \in Early => stdout = << >>
BY DEF CmdInv, Outcome, Maybes

LEMMA FlagSteps ==
  ASSUME CmdInv, CheckArgs \/ ParseType \/ OpenEthers
  PROVE  CmdInv'
<1>1. /\ UNCHANGED << flag, expr, line, table, mask, arg, met, ether, stdout >>
      /\ stage # "exit" /\ stage \in Early
  BY DEF CheckArgs, ParseType, OpenEthers, Early
<1>2. ASSUME Exits(2) PROVE CmdInv'
  <2>1. met' \subseteq Need /\ stdout' \in Seq({"lookup"})
    BY <1>1, OnlyLookups
  <2> QED
    BY <1>1, <1>2, <2>1, Stops
<1>3. ASSUME NEW to \in {"type", "ethers", "mask", "scan"}, GoTo(to),
             expr # << >>, to # "type" => flag.type # << >>,
             to = "scan" => flag.file # << >>, to = "mask" => flag.file = << >>
      PROVE  CmdInv'
  <2>1. Passed'
    <3>1. stage \in Early /\ stage # "compile" /\ stage' = to
      BY <1>1, <1>3 DEF CheckArgs, ParseType, OpenEthers, GoTo
    <3> QED
      BY <1>1, <1>3, <3>1 DEF CmdInv, Passed, Early, Late
  <2>2. Told'
    <3>1. stage' = to /\ exit' = -1
      BY <1>1, <1>3 DEF CmdInv, Outcome, GoTo
    <3>2. stage' \notin Late /\ exit' # 0
      BY <3>1 DEF Late
    <3> QED
      BY <3>2 DEF Told
  <2>3. /\ to \in Early \cup Late /\ to # "write"
        /\ ~(to \in {"mask", "compile"} \cup Late /\ flag.file # << >>)
    BY <1>3 DEF Early, Late
  <2>4. GoTo(to) /\ (to = "scan" => flag.file # << >>)
    BY <1>3
  <2> HIDE <1>3
  <2> QED
    BY <1>1, <2>1, <2>2, <2>3, <2>4, MovesOn
<1>4. CASE CheckArgs
  BY <1>2, <1>3, <1>4 DEF CheckArgs
<1>5. CASE ParseType
  BY <1>2, <1>3, <1>5 DEF ParseType, CmdInv, Passed
<1>6. CASE OpenEthers
  BY <1>2, <1>3, <1>6 DEF OpenEthers, CmdInv, Passed
<1> QED
  BY <1>4, <1>5, <1>6

(* A line of the file: a later line of the same name counts.               *)
LEMMA ScanLineStep ==
  ASSUME CmdInv, ScanLine
  PROVE  CmdInv'
<1> DEFINE lines == flag.file[1]
           l == lines[line]
<1>1. /\ stage = "scan" /\ stage' = "scan" /\ exit' = exit /\ stderr' = stderr
      /\ UNCHANGED << flag, expr, mask, arg, met, ether, stdout >>
      /\ line' = line + 1 /\ line <= Len(lines)
  BY DEF ScanLine, GoTo
<1>2. /\ table' = IF l.name = Skip THEN table ELSE [table EXCEPT ![l.name] = l.mac]
  BY DEF ScanLine
<1>3. /\ flag.file # << >> /\ lines \in Seq(Line) /\ Len(lines) \in Nat
      /\ line \in 1 .. Len(lines)
  <2>1. flag.file # << >> /\ flag.file \in Maybe(Files)
    BY <1>1 DEF CmdInv, Maybes, Flag, Scanned
  <2>2. lines \in Seq(Line)
    BY <2>1, MaybeOne, CommandAssumption
  <2>3. Len(lines) \in Nat
    BY <2>2
  <2>4. line \in 1 .. Len(lines) + 1
    BY <2>1 DEF CmdInv, Scanned
  <2> QED
    BY <1>1, <2>1, <2>2, <2>3, <2>4
<1>4. l.name = Skip \/ (l.name \in Names /\ l.mac \in Mac)
  <2>1. l \in Line
    BY <1>3
  <2> HIDE DEF l
  <2> QED
    BY <2>1 DEF Line
<1>5. table \in [Names -> Mac \cup {NotListed}]
      /\ table' \in [Names -> Mac \cup {NotListed}]
  <2>1. table \in [Names -> Mac \cup {NotListed}]
    BY DEF CmdInv, Maybes
  <2> HIDE DEF l
  <2> QED
    BY <1>2, <1>4, <2>1
<1>6. Maybes' /\ MaskIsALength'
  BY <1>1, <1>5 DEF CmdInv, Maybes, MaskIsALength
<1>7. Passed' /\ Outcome' /\ Told'
  <2>1. Passed' /\ Outcome'
    BY <1>1 DEF CmdInv, Passed, Outcome
  <2> QED
    BY <1>1, <2>1 DEF Told, Outcome, Late
<1>8. Named' = IF l.name = Asked THEN Named \cup {line} ELSE Named
  <2>1. Named' = {i \in 1 .. line : lines[i].name = Asked}
    BY <1>1, <1>3 DEF Named
  <2>2. Named = {i \in 1 .. line - 1 : lines[i].name = Asked}
    BY DEF Named
  <2>3. \A i : i \in 1 .. line <=> i \in 1 .. line - 1 \/ i = line
    BY <1>3
  <2> HIDE DEF lines
  <2> QED
    BY <2>1, <2>2, <2>3
<1>9. table'[Asked] = IF l.name = Asked THEN l.mac ELSE table[Asked]
  <2>1. Asked \in Names /\ Skip # Asked
    BY CommandAssumption
  <2> HIDE DEF l
  <2> QED
    BY <1>2, <1>4, <1>5, <2>1
<1>10. IF Named' = {} THEN table'[Asked] = NotListed
       ELSE \E i \in Named' : /\ \A j \in Named' : j <= i
                              /\ table'[Asked] = lines[i].mac
  <2>1. CASE l.name = Asked
    <3>1. line \in Named' /\ \A j \in Named' : j <= line
      BY <1>3, <1>8, <2>1 DEF Named
    <3> QED
      BY <1>9, <2>1, <3>1
  <2>2. CASE l.name # Asked
    <3>1. Named' = Named /\ table'[Asked] = table[Asked]
      BY <1>8, <1>9, <2>2
    <3> QED
      BY <1>3, <3>1 DEF CmdInv, Scanned
  <2> QED
    BY <2>1, <2>2
<1>11. Scanned'
  <2>1. ether = {}
    BY <1>1 DEF CmdInv, Passed, Early
  <2>2. line' \in 1 .. Len(lines) + 1
    BY <1>1, <1>3
  <2> QED
    BY <1>1, <1>3, <1>10, <2>1, <2>2 DEF Scanned, Late
<1> QED
  BY <1>6, <1>7, <1>11 DEF CmdInv

LEMMA ScanEndsStep ==
  ASSUME CmdInv, ScanEnds
  PROVE  CmdInv'
<1>1. /\ UNCHANGED << flag, expr, line, table, mask, arg, met, ether, stdout >>
      /\ stage = "scan" /\ stage \in Early
  BY DEF ScanEnds, Early
<1>2. CASE Exits(2)
  <2>1. met' \subseteq Need /\ stdout' \in Seq({"lookup"})
    BY <1>1, OnlyLookups
  <2> QED
    BY <1>1, <1>2, <2>1, Stops
<1>3. CASE line > Len(flag.file[1]) /\ GoTo("mask")
  <2>1. stage' = "mask" /\ exit' = -1
    BY <1>1, <1>3 DEF CmdInv, Outcome, GoTo
  <2>2. Passed' /\ Told'
    <3>1. Passed'
      BY <1>1, <2>1 DEF CmdInv, Passed, Early, Late
    <3> QED
      BY <2>1, <3>1 DEF Told, Late
  <2>3. flag.file # << >> => line = Len(flag.file[1]) + 1
    <3> SUFFICES ASSUME flag.file # << >> PROVE line = Len(flag.file[1]) + 1
      OBVIOUS
    <3>1. flag.file[1] \in Seq(Line)
      <4>1. flag.file \in Maybe(Files)
        BY DEF CmdInv, Maybes, Flag
      <4> QED
        BY <4>1, MaybeOne, CommandAssumption
    <3>2. Len(flag.file[1]) \in Nat
      BY <3>1
    <3> QED
      BY <1>3, <3>2 DEF CmdInv, Scanned
  <2>4. "mask" \in Early
    BY DEF Early
  <2> QED
    BY <1>1, <1>3, <2>2, <2>3, <2>4, MovesOn
<1> QED
  BY <1>2, <1>3 DEF ScanEnds

LEMMA ParseMaskStep ==
  ASSUME CmdInv, ParseMask
  PROVE  CmdInv'
<1>1. /\ UNCHANGED << flag, expr, line, table, arg, met, ether, stdout >>
      /\ stage = "mask" /\ stage \in Early
      /\ GoTo("compile") \/ (UNCHANGED mask /\ Exits(2))
  BY DEF ParseMask, Early
<1>2. CASE UNCHANGED mask /\ Exits(2)
  <2>1. met' \subseteq Need /\ stdout' \in Seq({"lookup"})
    BY <1>1, OnlyLookups
  <2> QED
    BY <1>1, <1>2, <2>1, Stops
<1>3. CASE GoTo("compile")
  <2>1. stage' = "compile" /\ exit' = -1 /\ stderr' = FALSE
    BY <1>1, <1>3 DEF CmdInv, Outcome, GoTo
  <2>2. MaskIsALength' /\ mask' \in Maybe(Word)
    BY ParsedMask DEF CmdInv
  <2>3. Maybes'
    BY <1>1, <2>2 DEF CmdInv, Maybes
  <2>4. Passed'
    BY <1>1, <2>1 DEF CmdInv, Passed, Early, Late
  <2>5. Outcome'
    BY <1>1, <2>1 DEF CmdInv, Outcome, Early
  <2>6. Told'
    <3>1. stage' \notin Late /\ exit' # 0
      BY <2>1 DEF Late
    <3> QED
      BY <3>1 DEF Told
  <2>7. Scanned'
    BY <1>1, <2>1 DEF CmdInv, Scanned, Named
  <2> QED
    BY <2>2, <2>3, <2>4, <2>5, <2>6, <2>7 DEF CmdInv
<1> QED
  BY <1>1, <1>2, <1>3

LEMMA CompileStep ==
  ASSUME CmdInv, Compile
  PROVE  CmdInv'
<1> DEFINE a == [link |-> OrDefault(flag.type[1], DefaultLinkType),
                 snaplen |-> OrDefault(flag.snaplen, DefaultSnaplen),
                 netmask |-> IF mask = << >> THEN Unknown ELSE mask[1]]
<1>1. /\ UNCHANGED << flag, expr, line, table, mask, met, ether, stdout >>
      /\ stage = "compile"
      /\ (arg' = << a >> /\ GoTo("check")) \/ (UNCHANGED arg /\ Exits(1))
  BY DEF Compile
<1>2. CASE UNCHANGED arg /\ Exits(1)
  <2>1. met' \subseteq Need /\ stdout' \in Seq({"lookup"})
    BY <1>1, OnlyLookups
  <2> QED
    BY <1>1, <1>2, <2>1, Stops
<1>3. CASE arg' = << a >> /\ GoTo("check")
  <2>1. stage' = "check" /\ exit' = -1 /\ stderr' = FALSE
    BY <1>1, <1>3 DEF CmdInv, Outcome, GoTo
  <2>2. a \in [link : Ints, snaplen : Ints, netmask : Word]
    <3>1. OrDefault(flag.type[1], DefaultLinkType) \in Ints
      <4>1. flag.type # << >> /\ flag.type \in Maybe(Types)
        BY <1>1 DEF CmdInv, Passed, Maybes, Flag
      <4>2. flag.type[1] \in Int
        BY <4>1, MaybeOne, CommandAssumption
      <4> QED
        BY <4>2, CInts, CommandAssumption
    <3>2. OrDefault(flag.snaplen, DefaultSnaplen) \in Ints
      <4>1. flag.snaplen \in Int
        BY CommandAssumption DEF CmdInv, Maybes, Flag
      <4> QED
        BY <4>1, CInts, CommandAssumption
    <3>3. (IF mask = << >> THEN Unknown ELSE mask[1]) \in Word
      <4>1. Unknown \in Word
        BY WordsEven DEF Unknown, Word
      <4>2. mask # << >> => mask[1] \in Word
        BY MaybeOne DEF CmdInv, Maybes
      <4> QED
        BY <4>1, <4>2
    <3> QED
      BY <3>1, <3>2, <3>3
  <2>3. a.netmask = IF mask = << >> THEN Unknown ELSE mask[1]
    OBVIOUS
  <2> HIDE DEF a
  <2>4. /\ arg' \in Maybe([link : Ints, snaplen : Ints, netmask : Word])
        /\ arg' # << >> /\ arg'[1] = a
    BY <1>3, <2>2, SomeMaybe
  <2>5. Maybes' /\ MaskIsALength'
    BY <1>1, <2>4 DEF CmdInv, Maybes, MaskIsALength
  <2>6. Passed'
    BY <1>1, <2>1 DEF CmdInv, Passed, Early, Late
  <2>7. Outcome'
    BY <1>1, <2>1 DEF CmdInv, Outcome, Early
  <2>8. Told'
    <3>1. "ip broadcast" \notin met'
      BY <1>1 DEF CmdInv, Passed, Early
    <3> QED
      BY <1>1, <2>3, <2>4, <3>1 DEF Told
  <2>9. Scanned'
    BY <1>1, <2>1 DEF CmdInv, Scanned, Named, Late
  <2> QED
    BY <2>5, <2>6, <2>7, <2>8, <2>9 DEF CmdInv
<1> QED
  BY <1>1, <1>2, <1>3

(* Where the compiler goes from one late stage to the next.                *)
LEMMA LateSteps ==
  ASSUME CmdInv, CheckOptions \/ Parsed
  PROVE  CmdInv'
<1>1. /\ UNCHANGED << flag, expr, line, table, mask, arg, met, ether, stdout >>
      /\ stage # "exit" /\ stage \in {"check", "parse"} /\ stage \in Late
  BY DEF CheckOptions, Parsed, Late
<1>2. CASE Exits(1)
  <2>1. met' \subseteq Need /\ stdout' \in Seq({"lookup"})
    BY <1>1, OnlyLookups
  <2> QED
    BY <1>1, <1>2, <2>1, Stops
<1>3. ASSUME NEW to \in {"parse", "write"}, GoTo(to), to = "write" => met = expr[1]
      PROVE  CmdInv'
  <2>1. stage' = to /\ exit' = exit
    BY <1>3 DEF GoTo
  <2>2. Passed'
    BY <1>1, <1>3, <2>1 DEF CmdInv, Passed, Early, Late
  <2>3. Told'
    BY <1>1, <2>1 DEF CmdInv, Told
  <2>4. to \in Early \cup Late /\ to # "scan" /\ to \notin Early
    BY <1>3 DEF Early, Late
  <2>5. flag.file # << >> => line = Len(flag.file[1]) + 1
    BY <1>1 DEF CmdInv, Scanned
  <2> QED
    BY <1>1, <1>3, <2>2, <2>3, <2>4, <2>5, MovesOn
<1> QED
  BY <1>2, <1>3 DEF CheckOptions, Parsed

(* One more of what the expression asks for.                               *)
LEMMA MeetsOne ==
  ASSUME CmdInv, NEW need \in Need, Meets(need), GoTo("parse"),
         UNCHANGED << flag, expr, line, table, mask, arg >>,
         stdout' \in Seq({"lookup"}),
         need = "ip broadcast" => arg[1].netmask # Unknown,
         \/ UNCHANGED ether
         \/ ether' = ether \cup {table[Asked]} /\ table[Asked].octets = 6
  PROVE  CmdInv'
<1>1. /\ stage = "parse" /\ stage' = "parse" /\ stage \in Late /\ exit' = -1
      /\ stderr' = FALSE /\ met' = met \cup {need}
  BY DEF CmdInv, Outcome, GoTo, Meets, Late
<1>2. Maybes' /\ MaskIsALength'
  BY <1>1 DEF CmdInv, Maybes, MaskIsALength
<1>3. Passed'
  BY <1>1 DEF CmdInv, Passed, Early, Late
<1>4. Outcome'
  <2>1. stage' \notin Early /\ stage' # "write" /\ stage' # "exit"
    BY <1>1 DEF Early
  <2>2. exit' = -1 /\ stderr' = FALSE
    BY <1>1
  <2>3. exit' # 0 /\ exit' # 2
    BY ONLY <2>2
  <2> QED
    BY ONLY <2>1, <2>2, <2>3, stdout' \in Seq({"lookup"}) DEF Outcome
<1>5. Told'
  BY <1>1 DEF CmdInv, Told
<1>6. Scanned'
  <2>1. flag.file # << >> => line = Len(flag.file[1]) + 1
    BY <1>1 DEF CmdInv, Scanned
  <2>2. ether' # {} => ether' = {table[Asked]} /\ table[Asked].octets = 6
    BY DEF CmdInv, Scanned
  <2> QED
    BY <1>1, <2>1, <2>2 DEF CmdInv, Scanned, Named
<1> QED
  BY <1>2, <1>3, <1>4, <1>5, <1>6 DEF CmdInv

LEMMA MeetsSteps ==
  ASSUME CmdInv, HostName \/ EtherName \/ Broadcast
  PROVE  CmdInv'
<1>1. /\ UNCHANGED << flag, expr, line, table, mask, arg >>
      /\ stage = "parse" /\ stage # "exit"
  BY DEF HostName, EtherName, Broadcast, Meets
<1>2. stdout \in Seq({"lookup"}) /\ met \subseteq Need
  BY <1>1, OnlyLookups
<1>3. ASSUME NEW need \in Need, Meets(need) PROVE met' \subseteq Need
  BY <1>2, <1>3 DEF Meets
<1>4. CASE HostName
  <2>1. /\ Meets("host") /\ "host" \in Need /\ UNCHANGED ether
        /\ stdout' = stdout \o << "lookup", "lookup" >>
        /\ GoTo("parse") \/ Exits(1)
    BY <1>4 DEF HostName, Need
  <2>2. stdout' \in Seq({"lookup"})
    <3>1. << "lookup", "lookup" >> \in Seq({"lookup"})
      OBVIOUS
    <3> QED
      BY <1>2, <2>1, <3>1, ConcatProperties
  <2>3. met' \subseteq Need
    BY <1>3, <2>1
  <2>4. CASE GoTo("parse")
    BY <1>1, <2>1, <2>2, <2>4, MeetsOne
  <2>5. CASE Exits(1)
    BY <1>1, <2>1, <2>2, <2>3, <2>5, Stops
  <2> QED
    BY <2>1, <2>4, <2>5
<1>5. CASE EtherName
  <2>1. /\ Meets("ether host") /\ "ether host" \in Need /\ UNCHANGED stdout
        /\ \/ /\ table[Asked].octets = 6 /\ ether' = ether \cup {table[Asked]}
              /\ GoTo("parse")
           \/ UNCHANGED ether /\ Exits(1)
    BY <1>5 DEF EtherName, Need
  <2>2. stdout' \in Seq({"lookup"})
    BY <1>2, <2>1
  <2>3. met' \subseteq Need
    BY <1>3, <2>1
  <2>4. CASE /\ table[Asked].octets = 6 /\ ether' = ether \cup {table[Asked]}
             /\ GoTo("parse")
    <3>1. "ether host" # "ip broadcast"
      OBVIOUS
    <3> QED
      BY <1>1, <2>1, <2>2, <2>4, <3>1, MeetsOne
  <2>5. CASE UNCHANGED ether /\ Exits(1)
    BY ONLY CmdInv, <1>1, <2>2, <2>3, <2>5, Stops
  <2> QED
    BY <2>1, <2>4, <2>5
<1>6. CASE Broadcast
  <2>1. /\ Meets("ip broadcast") /\ "ip broadcast" \in Need
        /\ UNCHANGED << ether, stdout >>
        /\ (arg[1].netmask # Unknown /\ GoTo("parse")) \/ Exits(1)
    BY <1>6 DEF Broadcast, Need
  <2>2. stdout' \in Seq({"lookup"})
    BY <1>2, <2>1
  <2>3. met' \subseteq Need
    BY <1>3, <2>1
  <2>4. CASE arg[1].netmask # Unknown /\ GoTo("parse")
    <3>1. "ip broadcast" \in Need /\ Meets("ip broadcast") /\ UNCHANGED ether
      BY <2>1
    <3> QED
      BY ONLY CmdInv, <1>1, <2>2, <2>4, <3>1, MeetsOne
  <2>5. CASE Exits(1)
    <3>1. UNCHANGED ether
      BY <2>1
    <3> QED
      BY ONLY CmdInv, <1>1, <2>2, <2>3, <2>5, <3>1, Stops
  <2> QED
    BY <2>1, <2>4, <2>5
<1> QED
  BY <1>4, <1>5, <1>6

LEMMA WriteStep ==
  ASSUME CmdInv, Write
  PROVE  CmdInv'
<1>1. /\ UNCHANGED << flag, expr, line, table, mask, arg, met, ether >>
      /\ stage = "write" /\ stage # "exit" /\ stage \in Late
  BY DEF Write, Late
<1>2. stdout \in Seq({"lookup"}) /\ met \subseteq Need
  BY <1>1, OnlyLookups
<1>3. CASE Exits(1) /\ UNCHANGED stdout
  BY <1>1, <1>2, <1>3, Stops
<1>4. CASE /\ stdout' = Append(stdout, IF flag.raw THEN "bytes" ELSE "disassembly")
           /\ Exits(0)
  <2>1. stage' = "exit" /\ exit' = 0 /\ stderr' = FALSE
    BY <1>4 DEF Exits
  <2>2. Maybes' /\ MaskIsALength'
    BY <1>1 DEF CmdInv, Maybes, MaskIsALength
  <2>3. Passed'
    BY <2>1 DEF Passed, Early, Late
  <2>4. Outcome'
    <3>1. met = expr[1]
      BY <1>1 DEF CmdInv, Outcome
    <3>2. stage' \notin Early
      BY <2>1 DEF Early
    <3>3. stdout' = Append(stdout, IF flag'.raw THEN "bytes" ELSE "disassembly")
          /\ met' = expr'[1]
      BY <1>1, <1>4, <3>1
    <3>4. stage' = "exit" /\ stage' # "write" /\ exit' # 2 /\ exit' \in {0, 1, 2}
      BY <2>1
    <3>5. stderr' = (exit' # 0)
      BY ONLY <1>4 DEF Exits
    <3> QED
      BY <1>2, <2>1, <3>2, <3>3, <3>4, <3>5 DEF Outcome
  <2>5. Told'
    BY <1>1 DEF CmdInv, Told
  <2>6. Scanned'
    BY <1>1, <2>1 DEF CmdInv, Scanned, Named, Late
  <2> QED
    BY <2>2, <2>3, <2>4, <2>5, <2>6 DEF CmdInv
<1> QED
  BY <1>3, <1>4 DEF Write

LEMMA CommandStutters ==
  ASSUME CmdInv, UNCHANGED vars
  PROVE  CmdInv'
<1> USE DEF vars, CmdInv
<1>1. Maybes' /\ Passed'
  BY DEF Maybes, Passed
<1>2. Outcome' /\ Told'
  BY DEF Outcome, Told
<1>3. Scanned'
  BY DEF Scanned, Named
<1>4. MaskIsALength'
  BY DEF MaskIsALength
<1> QED
  BY <1>1, <1>2, <1>3, <1>4

LEMMA Status ==
  ASSUME Outcome
  PROVE  (exit = 0 => stderr = FALSE) /\ (exit > 0 => stderr = TRUE)
<1>1. CASE stage = "exit"
  <2>1. stderr = (exit # 0)
    BY <1>1 DEF Outcome
  <2>2. exit > 0 => exit # 0
    OBVIOUS
  <2>3. exit = 0 => stderr = FALSE
    BY ONLY <2>1, Zenon
  <2>4. exit # 0 => stderr = TRUE
    BY ONLY <2>1, Zenon
  <2> QED
    BY ONLY <2>2, <2>3, <2>4, Zenon
<1>2. CASE stage # "exit"
  <2>1. exit = -1
    BY <1>2 DEF Outcome
  <2>2. ~(exit = 0) /\ ~(exit > 0)
    BY ONLY <2>1
  <2> QED
    BY <2>2
<1> QED
  BY <1>1, <1>2

LEMMA CommandSafe == Spec => []CmdInv
<1>1. Init => CmdInv
  BY InitCommand
<1>2. CmdInv /\ [Next]_vars => CmdInv'
  <2> SUFFICES ASSUME CmdInv, [Next]_vars PROVE CmdInv'
    OBVIOUS
  <2>1. CASE CheckArgs \/ ParseType \/ OpenEthers
    BY <2>1, FlagSteps
  <2>2. CASE ScanLine
    BY <2>2, ScanLineStep
  <2>3. CASE ScanEnds
    BY <2>3, ScanEndsStep
  <2>4. CASE ParseMask
    BY <2>4, ParseMaskStep
  <2>5. CASE Compile
    BY <2>5, CompileStep
  <2>6. CASE CheckOptions \/ Parsed
    BY <2>6, LateSteps
  <2>7. CASE HostName \/ EtherName \/ Broadcast
    BY <2>7, MeetsSteps
  <2>8. CASE Write
    BY <2>8, WriteStep
  <2>9. CASE UNCHANGED vars
    BY <2>9, CommandStutters
  <2> QED
    BY <2>1, <2>2, <2>3, <2>4, <2>5, <2>6, <2>7, <2>8, <2>9 DEF Next
<1> QED
  BY <1>1, <1>2, PTL DEF Spec

-----------------------------------------------------------------------------
(* The arguments of bpf_compile are C ints and a word, for flags of any    *)
(* size (filter.go 126-147).                                               *)
THEOREM CommandTyped == Spec => []TypeOK
<1>1. CmdInv => TypeOK
  <2> SUFFICES ASSUME CmdInv PROVE TypeOK
    OBVIOUS
  <2>1. flag \in Flag /\ \A n \in Names : table[n] \in Mac \cup {NotListed}
    BY DEF CmdInv, Maybes
  <2>2. mask # << >> => mask[1] \in Word
    BY MaybeOne DEF CmdInv, Maybes
  <2>3. arg # << >> => /\ {arg[1].link, arg[1].snaplen} \subseteq Ints
                       /\ arg[1].netmask \in Word
    <3> SUFFICES ASSUME arg # << >>
                 PROVE  /\ {arg[1].link, arg[1].snaplen} \subseteq Ints
                        /\ arg[1].netmask \in Word
      OBVIOUS
    <3>1. arg[1] \in [link : Ints, snaplen : Ints, netmask : Word]
      BY MaybeOne DEF CmdInv, Maybes
    <3> QED
      BY <3>1
  <2>4. ether \subseteq Mac
    <3>1. table[Asked] \in Mac \cup {NotListed}
      BY <2>1, CommandAssumption
    <3>2. NotListed.octets # 6
      BY DEF NotListed
    <3> QED
      BY <3>1, <3>2 DEF CmdInv, Scanned
  <2>5. exit \in {-1, 0, 1, 2} /\ stderr \in BOOLEAN
    BY DEF CmdInv, Outcome
  <2> QED
    BY <2>1, <2>2, <2>3, <2>4, <2>5 DEF TypeOK
<1> QED
  BY <1>1, CommandSafe, PTL

(* The exit status tells what came out: with 0 the filter, last and once,  *)
(* and with every other one only lookups and a message (main.go 37-86).    *)
THEOREM StatusTells == Spec => []ExitTells
<1>1. CmdInv => ExitTells
  <2> SUFFICES ASSUME CmdInv PROVE ExitTells
    OBVIOUS
  <2> DEFINE filters == {i \in 1 .. Len(stdout) : stdout[i] # "lookup"}
             form == IF flag.raw THEN "bytes" ELSE "disassembly"
  <2>1. exit = 0 => met = expr[1] /\ ~stderr
    BY Status DEF CmdInv, Outcome
  <2>2. exit # 0 => filters = {}
    <3> SUFFICES ASSUME exit # 0, NEW i \in 1 .. Len(stdout)
                 PROVE  stdout[i] = "lookup"
      OBVIOUS
    <3>1. stdout \in Seq({"lookup"})
      BY DEF CmdInv, Outcome
    <3> QED
      BY <3>1
  <2>3. exit = 0 => filters = {Len(stdout)} /\ stdout[Len(stdout)] = form
    <3> SUFFICES ASSUME exit = 0
                 PROVE  filters = {Len(stdout)} /\ stdout[Len(stdout)] = form
      OBVIOUS
    <3>1. form \in {"bytes", "disassembly"} /\ form # "lookup"
      OBVIOUS
    <3>2. PICK looked \in Seq({"lookup"}) : stdout = Append(looked, form)
      BY DEF CmdInv, Outcome
    <3> HIDE DEF form
    <3>3. /\ Len(looked) \in Nat /\ Len(stdout) = Len(looked) + 1
          /\ stdout[Len(stdout)] = form
          /\ \A i \in 1 .. Len(looked) : stdout[i] = looked[i] /\ looked[i] = "lookup"
      BY <3>2
    <3>4. \A i \in 1 .. Len(stdout) : i = Len(stdout) \/ i \in 1 .. Len(looked)
      BY <3>3
    <3>5. Len(stdout) \in 1 .. Len(stdout)
      BY <3>3
    <3> QED
      BY <3>1, <3>3, <3>4, <3>5
  <2>4. exit = 2 => stdout = << >> /\ arg = << >>
    BY DEF CmdInv, Outcome
  <2>5. exit > 0 => stderr
    BY Status DEF CmdInv
  <2> QED
    BY <2>1, <2>2, <2>3, <2>4, <2>5 DEF ExitTells
<1> QED
  BY <1>1, CommandSafe, PTL

(* Every netmask that is passed on is a block of ones followed by zeroes,  *)
(* of the length the flag gave if it gave one (main.go 89-117).            *)
THEOREM EveryMaskIsALength == Spec => []MaskIsALength
<1>1. CmdInv => MaskIsALength
  BY DEF CmdInv
<1> QED
  BY <1>1, CommandSafe, PTL

(* "ether host" compiles in the address on the last line that names the    *)
(* host, and only one of six octets (main.go 119-148, filter.go 273).      *)
THEOREM EtherIsAsListed == Spec => []EtherAsListed
<1>1. CmdInv => EtherAsListed
  <2> SUFFICES ASSUME CmdInv, ether # {} PROVE EtherAsListed
    BY DEF EtherAsListed
  <2> DEFINE file == flag.file[1]
             lines == {i \in 1 .. Len(file) : file[i].name = Asked}
  <2>1. ether = {table[Asked]} /\ table[Asked].octets = 6 /\ table[Asked] # NotListed
    BY DEF CmdInv, Scanned, NotListed
  <2>2. flag.file # << >> /\ line = Len(file) + 1
    BY <2>1 DEF CmdInv, Scanned
  <2>3. Len(file) \in Nat
    <3>1. flag.file \in Maybe(Files)
      BY DEF CmdInv, Maybes, Flag
    <3>2. file \in Seq(Line)
      BY <2>2, <3>1, MaybeOne, CommandAssumption
    <3> QED
      BY <3>2
  <2>4. Named = lines
    BY <2>2, <2>3 DEF Named
  <2>5. PICK i \in Named : /\ \A j \in Named : j <= i
                           /\ table[Asked] = file[i].mac
    BY <2>1, <2>2 DEF CmdInv, Scanned
  <2>6. i \in lines /\ (\A j \in lines : j <= i) /\ ether = {file[i].mac}
        /\ file[i].mac.octets = 6
    BY <2>1, <2>4, <2>5
  <2> QED
    BY <2>6 DEF EtherAsListed
<1> QED
  BY <1>1, CommandSafe, PTL

(* "ip broadcast" is compiled only with a netmask from the flags, and not  *)
(* with the one of all ones (filter.go 141-145).                           *)
THEOREM BroadcastsHaveHosts == Spec => []BroadcastHasHosts
<1>1. CmdInv => BroadcastHasHosts
  <2> SUFFICES ASSUME CmdInv, exit = 0, "ip broadcast" \in expr[1]
               PROVE  mask # << >> /\ mask[1] < Unknown
    BY DEF BroadcastHasHosts
  <2>1. "ip broadcast" \in met
    BY DEF CmdInv, Outcome
  <2>2. /\ arg[1].netmask = IF mask = << >> THEN Unknown ELSE mask[1]
        /\ arg[1].netmask # Unknown
    BY <2>1 DEF CmdInv, Told
  <2>3. mask # << >> /\ mask[1] # Unknown
    BY <2>2
  <2>4. mask[1] \in Word
    BY <2>3, MaybeOne DEF CmdInv, Maybes
  <2>5. mask[1] \in 0 .. Words - 1 /\ Unknown = Words - 1 /\ Words \in Nat
    BY <2>4, WordsEven DEF Word, Unknown
  <2>6. mask[1] < Unknown
    <3>1. mask[1] # Words - 1
      BY <2>3, <2>5
    <3>2. mask[1] < Words - 1
      BY ONLY <2>5, <3>1
    <3> QED
      BY ONLY <2>5, <3>2
  <2> QED
    BY <2>3, <2>6
<1> QED
  BY <1>1, CommandSafe, PTL
=============================================================================
